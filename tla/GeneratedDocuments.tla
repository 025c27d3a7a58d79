------------------------- MODULE GeneratedDocuments -------------------------
(***************************************************************************)
(* The documents generated from forms: TemplateService and the ZIP of      *)
(* FilingService, for one activity.                                        *)
(*                                                                         *)
(* A version of a template is a row of filled_documents (the form's data)  *)
(* and, in the object store, a DOCX and a PDF named after its number.  The *)
(* number is read first, the DOCX uploaded under it, the row inserted and  *)
(* committed later: UNIQUE(activity_id, template_type, version_number)     *)
(* decides between two requests with the same number, the object store     *)
(* does not.  Nothing in the store is rolled back.                         *)
(*                                                                         *)
(* The manager's signature is an image sent with the request; without one  *)
(* the newest signed version's is used again.  Each signer renders the     *)
(* rows that it finds without a document with its own signature.           *)
(*                                                                         *)
(* The plan's review is in Filing; here it only opens and closes the       *)
(* signatures.  responsibility_letter behaves as risk_assessment does,     *)
(* without the synchronisation, and is left out.                           *)
(***************************************************************************)
EXTENDS Integers, Sequences, FiniteSets, FiniteSetsExt, TLC

CONSTANTS
  Requests,    \* requests served at the same time
  Filled,      \* the forms that users fill in, with the texts they may write into each
  Texts,       \* what users write into forms
  Signatures,  \* the images of the manager's signature
  MaxVersion,  \* bound: versions of one template
  MaxCalls,    \* bound: calls of generate and of the signatures, in all
  Failures     \* whether requests and renderings may fail

Templates == {"activity_plan", "security_plan", "risk_assessment", "filing_commitment"}

ASSUME FilledAssumption == Filled \subseteq Templates \X Texts
ASSUME BoundAssumption == MaxVersion \in Nat \ {0} /\ MaxCalls \in Nat
ASSUME RequestAssumption == "stored" \notin Requests
ASSUME TextAssumption == {"auto", "none"} \cap Texts = {}
ASSUME SignatureAssumption == "none" \notin Signatures
ASSUME FailuresAssumption == Failures \in BOOLEAN

VARIABLES
  rows,      \* filled_documents, committed
  docx,      \* the DOCX objects of each template, by number
  current,   \* current_filled_document_id of the two plans (0: none)
  linked,    \* current_filled_document_id of the key_materials
  material,  \* the key_materials that exist
  signed,    \* those with sign_status signed
  audit,     \* security_plans.audit_status
  renders,   \* PDF renderings under way
  job,       \* what each request is doing
  calls,     \* history: the number of calls, for the bound
  contested, \* history: numbers that two generations, or two signatures, held at once
  unrendered \* history: plan versions of which a rendering failed

stored == <<rows, current, linked, material, signed, audit>>
history == <<contested, unrendered>>
vars == <<stored, docx, renders, job, calls, history>>

-----------------------------------------------------------------------------
Plans == {"activity_plan", "security_plan"}
Deferred == {"security_plan", "risk_assessment", "filing_commitment"}

\* The forms that get a new version when the security plan's staff count changes,
\* and the documents of the first signature, in the order of the loops.
SyncOrder == <<"risk_assessment", "filing_commitment">>
SignOrder == <<"security_plan", "risk_assessment", "activity_plan">>

Numbers == 1..MaxVersion
\* manager_signature, in a request or in a form's data.
Images == Signatures \cup {"none"}

\* data_snapshot
Contents == [text : Texts \cup {"auto"}, sig : Images]
NoContent == [text |-> "none", sig |-> "none"]

\* docx: minio_path is set; pdf: pdf_path is set.
Rows == [t : Templates, n : Numbers, data : Contents, docx : BOOLEAN, pdf : BOOLEAN]

\* row: the request whose transaction holds the row, "stored" once it is committed.
\* late: scheduled by the router.
Renders == [t : Templates, n : Numbers, row : Requests \cup {"stored"}, late : BOOLEAN]

Steps == {"idle", "number", "upload", "insert", "next", "answer", "sign",
          "commitment", "link"}

\* now: the document is rendered at once; seen: the version loaded with the security
\* plan; todo: templates still to come; new: rows inserted; upd: rows loaded without a
\* document, and rendered, with the signature sig; marks: materials set to signed;
\* link: the link each of them gets (0: not written).
Jobs == [step : Steps, t : Templates, n : 0..MaxVersion, now : BOOLEAN,
         data : Contents \cup {NoContent}, seen : 0..MaxVersion,
         todo : {s \in Seq(Templates) : Len(s) <= 3},
         new : SUBSET Rows, upd : SUBSET (Templates \X Numbers),
         sig : Images,
         marks : SUBSET Templates, link : [Templates -> 0..MaxVersion]]

NoJob == [step |-> "idle", t |-> "security_plan", n |-> 0, now |-> FALSE,
          data |-> NoContent, seen |-> 0, todo |-> <<>>, new |-> {}, upd |-> {},
          sig |-> "none", marks |-> {}, link |-> [t \in Templates |-> 0]]

RowsOf(t) == {row \in rows : row.t = t}
Row(t, n) == CHOOSE row \in rows : row.t = t /\ row.n = n
Blank(t) == {row \in RowsOf(t) : ~row.docx}
Key(row) == <<row.t, row.n>>

\* _next_version: one more than the highest committed number.
NextVersion(t) == Max({0} \cup {row.n : row \in RowsOf(t)}) + 1

\* The numbers that a request has taken and not yet given up.
Held(r) == {Key(row) : row \in job[r].new} \cup {<<job[r].t, job[r].n>>}

Do(r, j) == job' = [job EXCEPT ![r] = j] /\ UNCHANGED calls

\* A call that takes more than one step.
Begin(r, j) ==
  /\ job[r].step = "idle"
  /\ calls < MaxCalls
  /\ job' = [job EXCEPT ![r] = j]
  /\ calls' = calls + 1

\* Once a request commits, the renderings it scheduled find their rows; if it rolls
\* back they never do, and are not followed any more.
Settled(r) == {IF k.row = r THEN [k EXCEPT !.row = "stored"] ELSE k : k \in renders}
Lost(r) == {k \in renders : k.row = r}

Early(row, where) ==
  [t |-> row.t, n |-> row.n, row |-> where, late |-> FALSE]

Init ==
  /\ rows = {}
  /\ docx = [t \in Templates |-> [n \in Numbers |-> NoContent]]
  /\ current = [t \in Plans |-> 0]
  /\ linked = [t \in Templates |-> 0]
  /\ material = {}
  /\ signed = {}
  /\ audit = "drafting"
  /\ renders = {}
  /\ job = [r \in Requests |-> NoJob]
  /\ calls = 0
  /\ contested = {}
  /\ unrendered = {}

-----------------------------------------------------------------------------
(* Generating a version.                                                    *)

\* POST /materials.
OpenMaterial(t) ==
  /\ t \notin material
  /\ material' = material \cup {t}
  /\ UNCHANGED <<rows, current, linked, signed, audit, docx, renders, job, calls,
                 history>>

\* generate: a plan creates its row and its material if need be; a form has a
\* material already.  There is no condition on the activity or on the review.
Generate(r) ==
  /\ \E t \in Templates, x \in Texts :
       /\ <<t, x>> \in Filled
       /\ t \in Plans \cup material
       /\ \E todo \in IF t = "security_plan" THEN {<<>>, SyncOrder} ELSE {<<>>} :
            Begin(r, [NoJob EXCEPT !.step = "number", !.t = t, !.todo = todo,
                                !.now = t \notin Deferred,
                                !.data = [text |-> x, sig |-> "none"]])
       /\ material' = material \cup (Plans \cap {t})
  /\ UNCHANGED <<rows, current, linked, signed, audit, docx, renders,
                 history>>

\* Variant: the upload is left to a background task.
TakeNumberWithoutUpload(r) ==
  /\ job[r].step = "number"
  /\ NextVersion(job[r].t) <= MaxVersion
  /\ LET n == NextVersion(job[r].t)
     IN /\ Do(r, [job[r] EXCEPT !.n = n, !.step = "insert"])
        /\ contested' = contested \cup
             {k \in {<<job[r].t, n>>} : \E q \in Requests \ {r} : k \in Held(q)}
  /\ UNCHANGED <<stored, docx, renders, unrendered>>

TakeNumber(r) ==
  /\ job[r].step = "number"
  /\ NextVersion(job[r].t) <= MaxVersion
  /\ LET n == NextVersion(job[r].t)
     IN /\ Do(r, [job[r] EXCEPT !.n = n, !.step = IF job[r].now THEN "upload" ELSE "insert"])
        /\ contested' = contested \cup
             {k \in {<<job[r].t, n>>} : \E q \in Requests \ {r} : k \in Held(q)}
  /\ UNCHANGED <<stored, docx, renders, unrendered>>

\* Render and upload_file: the object is there, and any object of that name gone.
Upload(r) ==
  /\ job[r].step = "upload"
  /\ docx' = [docx EXCEPT ![job[r].t][job[r].n] = job[r].data]
  /\ Do(r, [job[r] EXCEPT !.step = "insert"])
  /\ UNCHANGED <<stored, renders, history>>

\* flush: the INSERT waits for an uncommitted row with the same key.
Unblocked(r) ==
  \A q \in Requests \ {r} : <<job[r].t, job[r].n>> \notin {Key(row) : row \in job[q].new}

\* Variant: the table has no UNIQUE constraint.
NeverTaken(r) == FALSE

Taken(r) == \E row \in rows : Key(row) = <<job[r].t, job[r].n>>

\* A document rendered at once is scheduled for its PDF before the commit.
Insert(r) ==
  /\ job[r].step = "insert"
  /\ Unblocked(r)
  /\ ~Taken(r)
  /\ LET row == [t |-> job[r].t, n |-> job[r].n, data |-> job[r].data,
                 docx |-> job[r].now, pdf |-> FALSE]
     IN /\ renders' = renders \cup (IF job[r].now THEN {Early(row, r)} ELSE {})
        /\ Do(r, [job[r] EXCEPT
                    !.new = @ \cup {row},
                    !.step = IF job[r].t = "filing_commitment" /\ job[r].now
                             THEN "link" ELSE "next"])
  /\ UNCHANGED <<stored, docx, history>>

\* The number was taken meanwhile: the transaction fails, the object stays.
InsertFails(r) ==
  /\ job[r].step = "insert"
  /\ Unblocked(r)
  /\ Taken(r)
  /\ Do(r, NoJob)
  /\ renders' = renders \ Lost(r)
  /\ UNCHANGED <<stored, docx, history>>

\* The next form to synchronise: a copy of the version its material links to, with
\* the new staff count; a form without a version is passed over.
SyncNext(r) ==
  /\ job[r].step = "next"
  /\ job[r].todo # <<>>
  /\ LET t == Head(job[r].todo)
         j == [job[r] EXCEPT !.todo = Tail(@)]
     IN Do(r, IF linked[t] = 0 THEN j
              ELSE [j EXCEPT !.step = "number", !.t = t, !.n = 0,
                             !.data = Row(t, linked[t]).data])
  /\ UNCHANGED <<stored, docx, renders, history>>

\* Variant: the signature goes into the document but not into data_snapshot.
WrittenUnsigned(j) ==
  {IF Key(row) \in j.upd THEN [row EXCEPT !.docx = TRUE] ELSE row : row \in rows}
    \cup j.new

\* The rows after the commit of a request: those inserted, and those rendered for
\* signature, which now have its signature and a document; the last commit wins.  (A row
\* loaded with that signature already keeps another signer's: such rows are contested.)
Written(j) ==
  {IF Key(row) \in j.upd THEN [row EXCEPT !.data.sig = j.sig, !.docx = TRUE] ELSE row :
     row \in rows} \cup j.new

\* Variant: only the plans' materials are linked to a new version.
CommitVersionOfPlan(r) ==
  /\ job[r].step = "next"
  /\ job[r].todo = <<>>
  /\ LET j == job[r]
         made(t) == {row \in j.new : row.t = t}
         newest(t, old) == IF made(t) = {} THEN old ELSE Max({row.n : row \in made(t)})
     IN /\ rows' = Written(j)
        /\ current' = [t \in Plans |-> newest(t, current[t])]
        /\ linked' = [t \in Templates |->
                        IF t \in Plans THEN newest(t, linked[t]) ELSE linked[t]]
        /\ Do(r, IF j.now THEN [NoJob EXCEPT !.step = "answer", !.new = j.new] ELSE NoJob)
  /\ renders' = Settled(r)
  /\ UNCHANGED <<material, signed, audit, docx, history>>

\* Rows, links and drafts are committed together.
CommitVersion(r) ==
  /\ job[r].step = "next"
  /\ job[r].todo = <<>>
  /\ LET j == job[r]
         made(t) == {row \in j.new : row.t = t}
         newest(t, old) == IF made(t) = {} THEN old ELSE Max({row.n : row \in made(t)})
     IN /\ rows' = Written(j)
        /\ current' = [t \in Plans |-> newest(t, current[t])]
        /\ linked' = [t \in Templates |-> newest(t, linked[t])]
        /\ Do(r, IF j.now THEN [NoJob EXCEPT !.step = "answer", !.new = j.new] ELSE NoJob)
  /\ renders' = Settled(r)
  /\ UNCHANGED <<material, signed, audit, docx, history>>

\* Variant: the router relies on the rendering scheduled by the service.
AnswerOnly(r) ==
  /\ job[r].step = "answer"
  /\ Do(r, NoJob)
  /\ UNCHANGED <<stored, docx, renders, history>>

\* The router schedules the PDF once more, after the commit.
Answer(r) ==
  /\ job[r].step = "answer"
  /\ renders' = renders \cup {[Early(row, "stored") EXCEPT !.late = TRUE] : row \in job[r].new}
  /\ Do(r, NoJob)
  /\ UNCHANGED <<stored, docx, history>>

-----------------------------------------------------------------------------
(* Signing.                                                                 *)

\* submit_security_plan_for_review; the rejection is in Filing.
SubmitForReview ==
  /\ current["security_plan"] # 0
  /\ audit' = "toSign"
  /\ UNCHANGED <<rows, current, linked, material, signed, docx, renders, job, calls,
                 history>>

\* The signature of the newest version of the plan, or else of the risk assessment.
Reused ==
  LET sig(t) == IF RowsOf(t) = {} THEN "none" ELSE Row(t, NextVersion(t) - 1).data.sig
  IN IF sig("security_plan") # "none" THEN sig("security_plan") ELSE sig("risk_assessment")

\* sign_and_finalize loads the plan, and with it the version it points to; a request
\* without a signature uses one again, if there is one.
SignStart(r) ==
  /\ audit = "toSign"
  /\ \E given \in Images :
       Begin(r, [NoJob EXCEPT !.step = "sign", !.todo = SignOrder,
                           !.seen = current["security_plan"],
                           !.sig = IF given = "none" THEN Reused ELSE given])
  /\ UNCHANGED <<stored, docx, renders, history>>

\* Rows without a document that somebody else has rendered with another signature and
\* has not committed.
Disputed(r, t, sig) ==
  {Key(row) : row \in Blank(t)} \cap
    UNION {job[q].upd : q \in {p \in Requests \ {r} : job[p].sig # sig}}

\* The rows of a template without a document, rendered and uploaded.  The query and the
\* uploads are one step: a second signer may still find the rows until a commit, and
\* overwrites what is there.  (Their PDFs find the rows, which are committed: nothing
\* to follow.  The wait for a row that another signer has flushed is left out: it
\* only delays.)
Rendered(r, t, sig) ==
  /\ docx' = [docx EXCEPT ![t] = [n \in Numbers |->
                IF \E row \in Blank(t) : row.n = n
                THEN [Row(t, n).data EXCEPT !.sig = sig] ELSE @[n]]]
  /\ contested' = contested \cup Disputed(r, t, sig)

\* The job after one more document is signed.  A plan's material is linked to the
\* version loaded, a form's link is its own; an equal link is not written.
SignedToo(r, t) ==
  LET version == CASE t = "security_plan" -> job[r].seen
                   [] t = "activity_plan" -> current[t]
                   [] OTHER               -> 0
  IN [job[r] EXCEPT !.todo = Tail(@), !.marks = @ \cup {t},
                    !.upd = @ \cup (IF t = "activity_plan" THEN {}
                                    ELSE {Key(row) : row \in Blank(t)}),
                    !.link[t] = IF version = linked[t] THEN 0 ELSE version]

Renew(r, t) == IF t = "activity_plan" THEN UNCHANGED <<docx, contested>>
               ELSE Rendered(r, t, job[r].sig)

SignDocument(r) ==
  /\ job[r].step = "sign"
  /\ job[r].todo # <<>>
  /\ LET t == Head(job[r].todo)
     IN /\ t \in material
        /\ Renew(r, t)
        /\ Do(r, SignedToo(r, t))
  /\ UNCHANGED <<stored, renders, unrendered>>

\* What a commit writes of the documents signed so far.
Sealed(j) ==
  /\ rows' = Written(j)
  /\ linked' = [t \in Templates |-> IF j.link[t] # 0 THEN j.link[t] ELSE linked[t]]
  /\ signed' = signed \cup j.marks

\* get_or_create_material commits when it creates the material, and with it the
\* rows rendered and the marks made before.
SignDocumentOfNewMaterial(r) ==
  /\ job[r].step = "sign"
  /\ job[r].todo # <<>>
  /\ LET t == Head(job[r].todo)
         after == SignedToo(r, t)
     IN /\ t \notin material
        /\ material' = material \cup {t}
        /\ Renew(r, t)
        /\ Sealed([after EXCEPT !.marks = job[r].marks, !.link[t] = 0])
        /\ Do(r, [after EXCEPT !.upd = {}, !.marks = {t},
                               !.link = [NoJob.link EXCEPT ![t] = after.link[t]]])
  /\ UNCHANGED <<current, audit, renders, unrendered>>

CommitSignature(r) ==
  /\ job[r].step = "sign"
  /\ job[r].todo = <<>>
  /\ Sealed(job[r])
  /\ audit' = "signed"
  /\ Do(r, NoJob)
  /\ UNCHANGED <<current, material, docx, renders, history>>

\* sign_manager_commitment: the commitments without a document are rendered, and
\* the material is linked to the one that comes last in an unordered query ...
SignCommitment(r) ==
  /\ audit = "signed"
  /\ Blank("filing_commitment") # {}
  /\ Rendered(r, "filing_commitment", Reused)
  /\ \E last \in Blank("filing_commitment") :
       Begin(r, [NoJob EXCEPT !.step = "commitment", !.marks = {"filing_commitment"},
                           !.sig = Reused, !.upd = {Key(row) : row \in Blank("filing_commitment")},
                           !.link["filing_commitment"] =
                              IF linked["filing_commitment"] = last.n THEN 0 ELSE last.n])
  /\ UNCHANGED <<stored, renders, unrendered>>

\* ... or, if there is none, one is generated on the spot, already signed.
WriteCommitment(r) ==
  /\ audit = "signed"
  /\ Blank("filing_commitment") = {}
  /\ Begin(r, [NoJob EXCEPT !.step = "number", !.t = "filing_commitment", !.now = TRUE,
                         !.data = [text |-> "auto", sig |-> Reused]])
  /\ UNCHANGED <<stored, docx, renders, history>>

\* Variant: sign_manager_commitment takes the material for granted.
LinkCommitmentUncreated(r) ==
  /\ job[r].step = "link"
  /\ Do(r, [job[r] EXCEPT !.step = "commitment", !.marks = {"filing_commitment"},
                          !.link["filing_commitment"] = job[r].n])
  /\ UNCHANGED <<stored, docx, renders, history>>

\* Its material: created, and the version committed with it, if there is none.
LinkCommitment(r) ==
  /\ job[r].step = "link"
  /\ LET new == "filing_commitment" \notin material
         n == job[r].n
     IN /\ material' = material \cup {"filing_commitment"}
        /\ rows' = IF new THEN Written(job[r]) ELSE rows
        /\ renders' = IF new THEN Settled(r) ELSE renders
        /\ Do(r, [NoJob EXCEPT !.step = "commitment", !.t = "filing_commitment", !.n = n,
                               !.new = IF new THEN {} ELSE job[r].new,
                               !.marks = {"filing_commitment"},
                               !.link["filing_commitment"] = n])
  /\ UNCHANGED <<current, linked, signed, audit, docx, history>>

CommitCommitment(r) ==
  /\ job[r].step = "commitment"
  /\ Sealed(job[r])
  /\ renders' = Settled(r)
  /\ Do(r, NoJob)
  /\ UNCHANGED <<current, material, audit, docx, history>>

-----------------------------------------------------------------------------
(* PDFs and failures.                                                       *)

\* render_pdf_background: the row is looked up, in a session of its own, and told of
\* its PDF if it is committed.
Render(k) ==
  /\ k \in renders
  /\ rows' = {IF k.row = "stored" /\ Key(row) = <<k.t, k.n>>
              THEN [row EXCEPT !.pdf = TRUE] ELSE row : row \in rows}
  /\ renders' = renders \ {k}
  /\ UNCHANGED <<current, linked, material, signed, audit, docx, job, calls, history>>

\* A rendering that fails, or whose process dies, is logged and forgotten.
RenderFails(k) ==
  /\ Failures
  /\ k \in renders
  /\ renders' = renders \ {k}
  /\ unrendered' = unrendered \cup ({<<k.t, k.n>>} \cap ({"activity_plan"} \X Numbers))
  /\ UNCHANGED <<stored, docx, job, calls, contested>>

\* A request fails or dies; its session rolls back.
Abandon(r) ==
  /\ Failures
  /\ job[r].step # "idle"
  /\ renders' = renders \ Lost(r)
  /\ unrendered' = unrendered \cup
       (IF job[r].step = "answer" THEN {Key(row) : row \in job[r].new} ELSE {})
  /\ Do(r, NoJob)
  /\ UNCHANGED <<stored, docx, contested>>

Proceed(r) ==
  \/ TakeNumber(r)
  \/ Upload(r)
  \/ Insert(r)
  \/ InsertFails(r)
  \/ SyncNext(r)
  \/ CommitVersion(r)
  \/ Answer(r)
  \/ SignDocument(r)
  \/ SignDocumentOfNewMaterial(r)
  \/ CommitSignature(r)
  \/ LinkCommitment(r)
  \/ CommitCommitment(r)
  \/ Abandon(r)

Call(r) ==
  \/ Generate(r)
  \/ SignStart(r)
  \/ SignCommitment(r)
  \/ WriteCommitment(r)

Next ==
  \/ \E r \in Requests : Call(r) \/ Proceed(r)
  \/ \E t \in Templates \ Plans : OpenMaterial(t)
  \/ \E k \in renders : Render(k) \/ RenderFails(k)
  \/ SubmitForReview

Spec == Init /\ [][Next]_vars

-----------------------------------------------------------------------------
TypeOK ==
  /\ rows \subseteq Rows
  /\ docx \in [Templates -> [Numbers -> Contents \cup {NoContent}]]
  /\ current \in [Plans -> 0..MaxVersion]
  /\ linked \in [Templates -> 0..MaxVersion]
  /\ signed \subseteq material /\ material \subseteq Templates
  /\ audit \in {"drafting", "toSign", "signed"}
  /\ renders \subseteq Renders
  /\ job \in [Requests -> Jobs]

\* The versions of a template are numbered 1, 2, 3 ... without gap or repetition,
\* whatever generations, synchronisations and signatures run into each other or fail.
NumbersInOrder ==
  \A t \in Templates : {row.n : row \in RowsOf(t)} = 1..Cardinality(RowsOf(t))

\* A plan points to its highest version and so does the form that the signatures do
\* not relink: of two generations the later number wins, not the slower request.
NewestIsCurrent ==
  /\ \A t \in Plans : current[t] = Cardinality(RowsOf(t))
  /\ linked["risk_assessment"] = Cardinality(RowsOf("risk_assessment"))

\* A row that names a document has it: files are uploaded before the row says so, and
\* no failure in between leaves a row that points to nothing.
FilesExist == \A row \in rows : row.docx => docx[row.t][row.n] # NoContent

Matches(row) == row.docx => docx[row.t][row.n] = row.data

\* The DOCX of a version renders the data of its row, the signature included, unless
\* two generations held its number at the same time, or two signers with different
\* signatures its row: neither failures, which leave objects under numbers and rows
\* that are used again, nor signatures that overtake a generation separate them.
DocumentsMatch == \A row \in rows : Matches(row) \/ Key(row) \in contested

\* A committed activity plan has its PDF, or one is being rendered, or a rendering of
\* it failed: the rendering scheduled too early is made up for by the router.
PreviewComes ==
  \A row \in RowsOf("activity_plan") :
    \/ row.pdf
    \/ Key(row) \in unrendered
    \/ \E k \in renders : k.row = "stored" /\ <<k.t, k.n>> = Key(row)
    \/ \E r \in Requests : job[r].step = "answer" /\ Key(row) \in Held(r)
=============================================================================
