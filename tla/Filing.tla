------------------------------- MODULE Filing -------------------------------
(***************************************************************************)
(* The security plan's review and signature, the filing package and the    *)
(* government's decision: TemplateService and FilingService composed with  *)
(* Workflow, whose transitions they call.                                  *)
(*                                                                         *)
(* Workflow gives the activity row, its log and the conditional write; this*)
(* module adds the rows next to it: security_plans, key_materials,         *)
(* filing_docs, approval_records.  They are not locked with the activity.  *)
(* A handler loads a row, decides, and commits later; SQLAlchemy writes an *)
(* attribute only if it differs from what the session loaded, so a late    *)
(* commit may overwrite somebody's change, or miss one (Written).          *)
(***************************************************************************)
EXTENDS Workflow

CONSTANTS
  Forms,       \* SIGN_TYPES: the forms signed together in the first step
  DirectMoves  \* the moves clients ask for with PUT /status

Materials == Forms \cup {"activity_plan", "filing_commitment"}

ASSUME FormsAssumption ==
  /\ "security_plan" \in Forms
  /\ Forms \cap {"activity_plan", "filing_commitment"} = {}
ASSUME DirectMovesAssumption == DirectMoves \subseteq Matrix

VARIABLES
  plan,       \* the security_plans row: audit_status, newest version, rejected_at
  sign,       \* key_materials.sign_status of each material, or "absent"
  filing,     \* the filing_docs row: is_qualified and handover_status
  approvals,  \* approval_records, as <<outcome, log entry of the decision>>
  job         \* what each request loaded and has still to write

fvars == <<plan, sign, filing, approvals>>
allVars == <<vars, fvars, job>>

-----------------------------------------------------------------------------
\* Materials that a request for supplements sends back to be signed again.
Deferred == Forms \cup {"filing_commitment"}

AuditStatuses == {"none", "drafting", "toSign", "signed", "audited"}

\* version: no filled document yet, one older than the last rejection, a new one.
\* overtaken (history): a submission was committed since that rejection which had looked
\* at the plan before it, or before an older version took the place of a newer one.
Plans == [audit : AuditStatuses, version : {"none", "old", "new"}, rejected : BOOLEAN,
          overtaken : BOOLEAN]

NoPlan == [audit |-> "none", version |-> "none", rejected |-> FALSE, overtaken |-> FALSE]

Ops == {"none", "transition", "approval", "handover", "commitment", "committed",
        "supplemented", "submit", "sign", "rejectPlan", "pack"}

\* manager: the caller holds the role SecurityManager.  audit, rejected, pack: the
\* loaded attributes.  signed: the materials loaded as signed.  late (history): a
\* rejection, or a version older than it, was committed since the submission looked.
Jobs == [op : Ops, manager : BOOLEAN, audit : AuditStatuses \cup {"unread"},
         rejected : BOOLEAN, signed : SUBSET Materials, ok : BOOLEAN,
         late : BOOLEAN, pack : {"absent", "unqualified", "qualified"}]

NoJob == [op |-> "none", manager |-> FALSE, audit |-> "unread", rejected |-> FALSE,
          signed |-> {}, ok |-> FALSE, late |-> FALSE, pack |-> "absent"]

Signed == {m \in Materials : sign[m] = "signed"}

Rows == {m \in Materials : sign[m] # "absent"}

Free(r) == pc[r] = "idle" /\ job[r].op = "none"

\* The statuses in which the plan may be submitted or signed.
SigningOpen == status \in {"security", "supplement"}

\* What the submissions under way have looked at is not so any more.
Overtaken == [r \in Requests |-> IF job[r].op = "submit" THEN [job[r] EXCEPT !.late = TRUE]
                                 ELSE job[r]]

\* The value an attribute has after a session that loaded `old` sets it to `new`.
Written(old, new, current) == IF old = new THEN current ELSE new

Begin(r, j) == job' = [job EXCEPT ![r] = j]
End(r) == job' = [job EXCEPT ![r] = NoJob]

FInit ==
  /\ Init
  /\ plan = NoPlan
  /\ sign = [m \in Materials |-> "absent"]
  /\ filing = [pack |-> "absent", handed |-> FALSE]
  /\ approvals = {}
  /\ job = [r \in Requests |-> NoJob]

-----------------------------------------------------------------------------
(* Calls of WorkflowService.transition.                                     *)

\* PUT /status: any operator, any move of the matrix.
PutStatus(r) ==
  /\ Free(r)
  /\ \E to \in Statuses, m \in BOOLEAN :
       /\ <<status, to>> \in DirectMoves
       /\ to # "filing" => ~m
       /\ UpdateStatus(r, to)
       /\ Begin(r, [NoJob EXCEPT !.op = "transition", !.manager = m])
  /\ UNCHANGED fvars

\* POST /reject: back to the security phase.
SendBack(r) ==
  /\ Free(r)
  /\ Reject(r)
  /\ Begin(r, [NoJob EXCEPT !.op = "transition"])
  /\ UNCHANGED fvars

\* finalize_plan: the activity plan is complete, its design phase ends.
Finalize(r) ==
  /\ Free(r)
  /\ status = "design"
  /\ UpdateStatus(r, "security")
  /\ Begin(r, [NoJob EXCEPT !.op = "transition"])
  /\ UNCHANGED fvars

Start(r) ==
  /\ Free(r)
  /\ AutoStart(r)
  /\ Begin(r, [NoJob EXCEPT !.op = "transition"])
  /\ UNCHANGED fvars

\* Variant: confirm_handover does not look for the filing_docs row.
HandoverWithoutRow(r) ==
  /\ Free(r)
  /\ UpdateStatus(r, "handed")
  /\ Begin(r, [NoJob EXCEPT !.op = "handover"])
  /\ UNCHANGED fvars

\* confirm_handover asks only that a filing_docs row exists.
Handover(r) ==
  /\ Free(r)
  /\ filing.pack # "absent"
  /\ UpdateStatus(r, "handed")
  /\ Begin(r, [NoJob EXCEPT !.op = "handover"])
  /\ UNCHANGED fvars

\* Variant: create_approval_record commits the record before the transition.
ApprovalCommittedFirst(r) ==
  /\ Free(r)
  /\ status = "handed"
  /\ \E to \in {"approved", "supplement", "refused"} :
       /\ UpdateStatus(r, to)
       /\ approvals' = approvals \cup {<<to, Len(log) + 1>>}
  /\ Begin(r, [NoJob EXCEPT !.op = "approval"])
  /\ UNCHANGED <<plan, sign, filing>>

\* create_approval_record: the record is flushed in the transaction of the
\* transition and committed with it.
Approval(r) ==
  /\ Free(r)
  /\ status = "handed"
  /\ \E to \in {"approved", "supplement", "refused"} : UpdateStatus(r, to)
  /\ Begin(r, [NoJob EXCEPT !.op = "approval"])
  /\ UNCHANGED fvars

ForceEnd(r) ==
  /\ Free(r)
  /\ \E to \in Forced : ReadForForce(r, to)
  /\ UNCHANGED <<fvars, job>>

\* The conditional write, then the SELECTs of _update_security_plan: a plan that
\* the session already holds is not loaded again.
SetAndLoad(r) ==
  /\ job[r].op # "commitment"
  /\ CompareAndSet(r)
  /\ Begin(r, [job[r] EXCEPT
                 !.audit = IF @ = "unread" THEN plan.audit ELSE @,
                 !.signed = IF call[r].to = "supplement" THEN Signed ELSE {}])
  /\ UNCHANGED fvars

SetFails(r) ==
  /\ job[r].op # "commitment"
  /\ CompareAndSetFails(r)
  /\ End(r)
  /\ UNCHANGED fvars

\* Variant: the name of the activity's status is written as an audit status.
AuditAfterMisnamed(from, to, manager) ==
  CASE from = "security" /\ to = "security"            -> "drafting"
    [] from = "security" /\ to = "filing" /\ manager   -> "signed"
    [] from = "security" /\ to = "filing" /\ ~manager  -> "toSign"
    [] to \in {"supplement", "approved"}               -> to
    [] OTHER                                           -> "same"

\* The audit status that a move of the activity gives to its plan.
AuditAfter(from, to, manager) ==
  CASE from = "security" /\ to = "security"            -> "drafting"
    [] from = "security" /\ to = "filing" /\ manager   -> "signed"
    [] from = "security" /\ to = "filing" /\ ~manager  -> "toSign"
    [] to = "supplement"                               -> "drafting"
    [] to = "approved"                                 -> "audited"
    [] OTHER                                           -> "same"

\* _update_security_plan.  Entering the security phase creates the plan if there
\* is none; without a plan nothing else is updated.
UpdateSecurityPlan(r) ==
  LET from == call[r].seen
      to == call[r].to
      loaded == job[r].audit
      audit == AuditAfter(from, to, job[r].manager)
  IN /\ plan' =
          IF loaded = "none"
          THEN IF from = "design" THEN [NoPlan EXCEPT !.audit = "drafting"] ELSE plan
          ELSE IF audit = "same" THEN plan
               ELSE [plan EXCEPT !.audit = Written(loaded, audit, @)]
     /\ sign' =
          IF to = "supplement" /\ loaded # "none"
          THEN [m \in Materials |->
                  IF m \in Deferred \cap job[r].signed THEN "unsigned" ELSE sign[m]]
          ELSE sign

\* Two sessions may both find no plan; the second INSERT breaks
\* UNIQUE(activity_id) and its whole transaction is rolled back.
PlanInsertConflict(r) ==
  call[r].seen = "design" /\ job[r].audit = "none" /\ plan.audit # "none"

Commit(r) ==
  /\ ~PlanInsertConflict(r)
  /\ CommitTransition(r)
  /\ UpdateSecurityPlan(r)
  /\ approvals' = IF job[r].op = "approval"
                  THEN approvals \cup {<<call[r].to, Len(log')>>} ELSE approvals
  /\ filing' = IF job[r].op = "handover" THEN [filing EXCEPT !.handed = TRUE] ELSE filing
  /\ End(r)

CommitFails(r) ==
  /\ pc[r] = "locked"
  /\ PlanInsertConflict(r)
  /\ RollBack(r)
  /\ End(r)
  /\ UNCHANGED fvars

-----------------------------------------------------------------------------
(* The security plan: TemplateService.                                      *)

\* set_security_risk_level, get_or_create_material, _get_or_create_entity: rows
\* appear when somebody first needs them, whatever the activity's status.
OpenPlan ==
  /\ status # "none"
  /\ plan.audit = "none"
  /\ plan' = [NoPlan EXCEPT !.audit = "drafting"]
  /\ UNCHANGED <<vars, sign, filing, approvals, job>>

OpenMaterial(m) ==
  /\ status # "none"
  /\ sign[m] = "absent"
  /\ sign' = [sign EXCEPT ![m] = "unsigned"]
  /\ UNCHANGED <<vars, plan, filing, approvals, job>>

\* generate("security_plan"): a new current version, in any status.  It is dated by
\* the start of its transaction, so one that was begun before the last rejection
\* and is committed after it counts as old, as long as that rejection stands.
Generate ==
  /\ status # "none"
  /\ \E v \in {"new"} \cup (IF plan.rejected THEN {"old"} ELSE {}) :
       /\ plan' = [plan EXCEPT !.audit = IF @ = "none" THEN "drafting" ELSE @,
                               !.version = v]
       /\ job' = [r \in Requests |->
                    IF job[r].op = "rejectPlan" THEN [job[r] EXCEPT !.ok = TRUE]
                    ELSE IF v = "old" THEN Overtaken[r] ELSE job[r]]
  /\ sign' = [sign EXCEPT !["security_plan"] = IF @ = "absent" THEN "unsigned" ELSE @]
  /\ UNCHANGED <<vars, filing, approvals>>

\* Variant: submission does not look at the activity's status.
SubmitInAnyStatus(r) ==
  /\ Free(r)
  /\ plan.version # "none"
  /\ plan.rejected => plan.version = "new"
  /\ Begin(r, [NoJob EXCEPT !.op = "submit", !.audit = plan.audit,
                            !.rejected = plan.rejected])
  /\ UNCHANGED <<vars, fvars>>

\* Variant: a rejected plan may be submitted again as it is.
SubmitOldVersion(r) ==
  /\ Free(r)
  /\ plan.version # "none"
  /\ SigningOpen
  /\ Begin(r, [NoJob EXCEPT !.op = "submit", !.audit = plan.audit,
                            !.rejected = plan.rejected])
  /\ UNCHANGED <<vars, fvars>>

\* submit_security_plan_for_review: after a rejection only with a newer version.
Submit(r) ==
  /\ Free(r)
  /\ plan.version # "none"
  /\ plan.rejected => plan.version = "new"
  /\ SigningOpen
  /\ Begin(r, [NoJob EXCEPT !.op = "submit", !.audit = plan.audit,
                            !.rejected = plan.rejected])
  /\ UNCHANGED <<vars, fvars>>

CommitSubmit(r) ==
  /\ job[r].op = "submit"
  /\ plan' = [plan EXCEPT !.audit = Written(job[r].audit, "toSign", @),
                          !.rejected = Written(job[r].rejected, FALSE, @),
                          !.overtaken = @ \/ job[r].late]
  /\ End(r)
  /\ UNCHANGED <<vars, sign, filing, approvals>>

\* reject_security_plan: no condition on the activity.  rejected_at is the time of
\* the decision; ok: a version was generated since.
RejectPlan(r) ==
  /\ Free(r)
  /\ plan.audit = "toSign"
  /\ Begin(r, [NoJob EXCEPT !.op = "rejectPlan"])
  /\ UNCHANGED <<vars, fvars>>

CommitReject(r) ==
  /\ job[r].op = "rejectPlan"
  /\ plan' = [plan EXCEPT !.audit = "drafting", !.rejected = TRUE, !.overtaken = FALSE,
                          !.version = IF @ = "new" /\ ~job[r].ok THEN "old" ELSE @]
  /\ job' = [Overtaken EXCEPT ![r] = NoJob]
  /\ UNCHANGED <<vars, sign, filing, approvals>>

\* sign_and_finalize: the manager signs the forms and the activity plan.  The forms
\* are rendered one by one, so some rows are loaded long before the commit; those
\* found signed are not written.
SignForms(r) ==
  /\ Free(r)
  /\ plan.audit = "toSign"
  /\ SigningOpen
  /\ \E early \in SUBSET (Forms \cap Signed) :
       Begin(r, [NoJob EXCEPT !.op = "sign", !.signed = early])
  /\ UNCHANGED <<vars, fvars>>

\* get_or_create_material commits when it creates a row, and with it the forms
\* signed so far; the activity plan comes last.
CommitSomeForms(r) ==
  /\ job[r].op = "sign"
  /\ \E done \in SUBSET Forms : \E new \in (Forms \cup {"activity_plan"}) \ done :
       /\ sign[new] = "absent"
       /\ new = "activity_plan" => done = Forms
       /\ sign' = [m \in Materials |->
                     IF m \in done \ job[r].signed THEN "signed"
                     ELSE IF m = new THEN "unsigned" ELSE sign[m]]
  /\ UNCHANGED <<vars, plan, filing, approvals, job>>

\* Variant: sign_and_finalize moves the activity on by itself.
CommitSignatureAndFile(r) ==
  /\ job[r].op = "sign"
  /\ \A m \in Forms \cup {"activity_plan"} : sign[m] # "absent"
  /\ sign' = [m \in Materials |->
                IF m \in job[r].signed \cup {"filing_commitment"} THEN sign[m]
                ELSE "signed"]
  /\ plan' = [plan EXCEPT !.audit = "signed"]
  /\ status' = "filing"
  /\ End(r)
  /\ UNCHANGED <<log, createdLog, archive, due, lock, pc, call, outbox, notices,
                 filing, approvals>>

CommitSignature(r) ==
  /\ job[r].op = "sign"
  /\ \A m \in Forms \cup {"activity_plan"} : sign[m] # "absent"
  /\ sign' = [m \in Materials |->
                IF m \in job[r].signed \cup {"filing_commitment"} THEN sign[m]
                ELSE "signed"]
  /\ plan' = [plan EXCEPT !.audit = "signed"]
  /\ End(r)
  /\ UNCHANGED <<vars, filing, approvals>>

\* Variant: the commitment may be signed before the plan.
SignCommitmentFirst(r) ==
  /\ Free(r)
  /\ plan.audit # "none"
  /\ \/ /\ status = "security"
        /\ UpdateStatus(r, "filing")
        /\ Begin(r, [NoJob EXCEPT !.op = "commitment", !.manager = TRUE,
                                  !.audit = plan.audit])
     \/ /\ status = "supplement"
        /\ Begin(r, [NoJob EXCEPT !.op = "supplemented"])
        /\ UNCHANGED vars
  /\ UNCHANGED fvars

\* sign_manager_commitment: the plan and the activity are loaded once; from the
\* security phase the transition decides on that same, possibly old, status.
SignCommitment(r) ==
  /\ Free(r)
  /\ plan.audit = "signed"
  /\ \/ /\ status = "security"
        /\ UpdateStatus(r, "filing")
        /\ Begin(r, [NoJob EXCEPT !.op = "commitment", !.manager = TRUE,
                                  !.audit = "signed"])
     \/ /\ status = "supplement"
        /\ Begin(r, [NoJob EXCEPT !.op = "supplemented"])
        /\ UNCHANGED vars
  /\ UNCHANGED fvars

\* The commitment is signed in a commit of its own, before the transition.
CommitCommitment(r) ==
  /\ job[r].op \in {"commitment", "supplemented"}
  /\ sign' = [sign EXCEPT !["filing_commitment"] = "signed"]
  /\ IF job[r].op = "commitment"
     THEN Begin(r, [job[r] EXCEPT !.op = "committed"])
     ELSE End(r)
  /\ UNCHANGED <<vars, plan, filing, approvals>>

-----------------------------------------------------------------------------
(* The filing package: FilingService.                                       *)

\* sign_material: one material, by an officer, in any status.
SignMaterial(m) ==
  /\ sign[m] = "unsigned"
  /\ sign' = [sign EXCEPT ![m] = "signed"]
  /\ UNCHANGED <<vars, plan, filing, approvals, job>>

\* pack_materials: qualified when there are materials and all are signed ...
Pack(r) ==
  /\ Free(r)
  /\ status # "none"
  /\ Begin(r, [NoJob EXCEPT !.op = "pack", !.pack = filing.pack,
                            !.ok = Rows # {} /\ Rows = Signed])
  /\ UNCHANGED <<vars, fvars>>

\* ... the row is written in any case, so that a failed package exists too.  A
\* concurrent first package breaks UNIQUE(activity_id).
CommitPack(r) ==
  /\ job[r].op = "pack"
  /\ LET verdict == IF job[r].ok THEN "qualified" ELSE "unqualified"
         inserted == job[r].pack = "absent"
     IN filing' = [filing EXCEPT !.pack =
                     IF inserted
                     THEN IF @ = "absent" THEN verdict ELSE @
                     ELSE Written(job[r].pack, verdict, @)]
  /\ End(r)
  /\ UNCHANGED <<vars, plan, sign, approvals>>

-----------------------------------------------------------------------------
\* The steps of Workflow that touch none of the rows of this module.
Passive(r) ==
  /\ \/ Free(r) /\ Create(r)
     \/ CreateLog(r)
     \/ CommitForce(r)
     \/ Notify(r)
     \/ Answer(r)
  /\ UNCHANGED <<fvars, job>>

Dies(r) ==
  /\ Crashes
  /\ pc[r] # "idle" \/ job[r].op # "none"
  /\ IF pc[r] # "idle" THEN RollBack(r) ELSE UNCHANGED vars
  /\ End(r)
  /\ UNCHANGED fvars

FProceed(r) ==
  \/ Passive(r) /\ pc[r] # "idle"
  \/ SetAndLoad(r)
  \/ SetFails(r)
  \/ Commit(r)
  \/ CommitFails(r)
  \/ CommitSubmit(r)
  \/ CommitReject(r)
  \/ CommitSomeForms(r)
  \/ CommitSignature(r)
  \/ CommitCommitment(r)
  \/ CommitPack(r)

Call(r) ==
  \/ Passive(r) /\ pc[r] = "idle"
  \/ PutStatus(r)
  \/ SendBack(r)
  \/ Finalize(r)
  \/ Start(r)
  \/ Handover(r)
  \/ Approval(r)
  \/ ForceEnd(r)
  \/ Submit(r)
  \/ RejectPlan(r)
  \/ SignForms(r)
  \/ SignCommitment(r)
  \/ Pack(r)

FNext ==
  \/ TimePasses /\ UNCHANGED <<fvars, job>>
  \/ OpenPlan
  \/ \E m \in Materials : OpenMaterial(m)
  \/ \E m \in Materials : SignMaterial(m)
  \/ Generate
  \/ \E r \in Requests : Call(r) \/ FProceed(r) \/ Dies(r)

FSpec == FInit /\ [][FNext]_allVars

-----------------------------------------------------------------------------
FTypeOK ==
  /\ plan \in Plans
  /\ sign \in [Materials -> {"absent", "unsigned", "signed"}]
  /\ filing \in [pack : {"absent", "unqualified", "qualified"}, handed : BOOLEAN]
  /\ approvals \subseteq ({"approved", "supplement", "refused"} \X Nat)
  /\ job \in [Requests -> Jobs]

Entered(s) == \E i \in 1..Len(log) : log[i].to = s

\* An activity whose dossier was never sent back for supplements has, from the
\* filing phase on, the sign_status of all its materials at signed: the two separately
\* committed steps of the manager, partial commits, rejections and resubmissions in
\* between included.
FiledIsSigned ==
  (Entered("filing") /\ ~Entered("supplement")) => \A m \in Materials : sign[m] = "signed"

\* An approval record exists only with the status change it decides: a liaison who
\* loses the race for the activity leaves no record behind.
ApprovalsAreDecisions ==
  \A a \in approvals :
    /\ a[2] \in 1..Len(log)
    /\ log[a[2]] = [from |-> "handed", to |-> a[1]]

\* The activity reaches handed over only with a filing_docs row, and the row then
\* says so, unless the move was asked for with PUT /status.
HandoverIsRecorded == Entered("handed") => filing.pack # "absent" /\ filing.handed

\* What the services do together is, for the activity row and its log, a behaviour
\* of Workflow.
WorkflowSpec == Spec

\* docs/state-machine.md: after a rejection a plan comes back for signature only with a
\* new version, unless the rejection came while a submission was under way.
ReviewedIsNew == plan.audit = "toSign" => plan.version = "new" \/ plan.overtaken

\* One request at a time, the plan of an approved activity is audited and stays so.
ApprovedStaysAudited ==
  (status \in {"approved", "ongoing", "ended"}) => plan.audit = "audited"

-----------------------------------------------------------------------------
(* A claim of the documentation that the code does not keep.                *)

\* docs/state-machine.md: handover needs complete signatures.
HandedOverIsSigned ==
  [][(status # "handed" /\ status' = "handed") =>
       \A m \in Materials : sign[m] = "signed"]_allVars

=============================================================================
