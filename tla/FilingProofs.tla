---------------------------- MODULE FilingProofs ----------------------------
(***************************************************************************)
(* Filing for any set of requests, any forms and any moves of clients: the *)
(* services behave, for the activity row and its log, like Workflow; what  *)
(* is filed is marked as signed, what is handed over is recorded, records  *)
(* of approval match the log, and what was rejected comes back new; one    *)
(* request at a time, the plan of an approved activity is audited.         *)
(***************************************************************************)
EXTENDS Filing, WorkflowProofs

Decisions == {"approved", "supplement", "refused"}

\* The operations that move the activity, by a call of WorkflowService.
Moving == {"transition", "approval", "handover", "commitment", "committed"}

\* The materials signed in the manager's first step.
Early == Forms \cup {"activity_plan"}

\* What clients do not ask for directly; the product's screens keep to both.
SignedFirst == <<"security", "filing">> \notin DirectMoves
PackedFirst == \A s \in Statuses : <<s, "handed">> \notin DirectMoves

\* No two requests at a time.
Alone == \A r, q \in Requests : r = q

Filed == Entered("filing")
Supplemented == Entered("supplement")
HandedOver == Entered("handed")

AreSigned(S) == \A m \in S : sign[m] = "signed"

Underway(r) == pc[r] \in {"read", "locked"}

-----------------------------------------------------------------------------
(* The inductive invariant.  The parts under SignedFirst, PackedFirst and    *)
(* Alone are what the theorems with these hypotheses need.                   *)

\* The job of a request goes with its call.
Agrees(r) ==
  /\ job[r].op \in Moving <=> Underway(r)
  /\ job[r].op # "none" => pc[r] \in {"idle", "read", "locked"}
  /\ job[r].op = "approval" => call[r].seen = "handed" /\ call[r].to \in Decisions
  /\ job[r].op = "commitment" => pc[r] = "read"
  /\ job[r].op \in {"commitment", "committed"} => job[r].manager

\* Only the manager who signs the commitment is about to file, and she has signed the
\* rest before.
Signs(r) ==
  /\ Underway(r) /\ call[r].to = "filing" => job[r].op \in {"commitment", "committed"}
  /\ ~Supplemented =>
       /\ job[r].op = "sign" => AreSigned(job[r].signed)
       /\ job[r].op \in {"commitment", "committed"} => AreSigned(Early)
       /\ job[r].op = "committed" => sign["filing_commitment"] = "signed"

\* Only somebody who found a package is about to hand over.
HandsOver(r) ==
  Underway(r) /\ call[r].to = "handed" => job[r].op = "handover" /\ filing.pack # "absent"

\* What a request found of the plan is still so when it commits.
SeesPlan(r) ==
  /\ job[r].op \in {"submit", "sign"} => SigningOpen /\ plan.audit # "none"
  /\ job[r].op = "rejectPlan" => plan.audit = "toSign"
  /\ pc[r] = "read" => job[r].audit = "unread" \/ (job[r].audit = "signed" /\ plan.audit = "signed")
  /\ pc[r] = "locked" => \/ job[r].audit = plan.audit
                         \/ call[r].seen = "design" /\ job[r].audit = "none"

Sound(r) ==
  /\ Agrees(r)
  /\ SignedFirst => Signs(r)
  /\ PackedFirst => HandsOver(r)
  /\ Alone => SeesPlan(r)

\* A signed plan has all the manager's forms signed, until supplements are asked for.
SignedIsWhole == ~Supplemented /\ plan.audit = "signed" => AreSigned(Early)

\* From the security phase on there is a plan.
PlanIsThere == status \in Statuses \ ({"design"} \cup Forced) => plan.audit # "none"

VersionHasPlan == plan.version # "none" => plan.audit # "none"

RowsAreSound ==
  /\ ApprovalsAreDecisions /\ VersionHasPlan
  /\ SignedFirst => SignedIsWhole /\ FiledIsSigned
  /\ PackedFirst => HandoverIsRecorded
  /\ Alone => PlanIsThere /\ ApprovedStaysAudited

FInv ==
  /\ IInv
  /\ FTypeOK
  /\ RowsAreSound
  /\ \A r \in Requests : Sound(r)

-----------------------------------------------------------------------------
(* Refinement of Workflow.                                                   *)

\* Every step of the services is, for the row and its log, a step of Workflow, but for a
\* commit that breaks the uniqueness of the plan: Workflow calls that a request that died.
LEMMA StepOfWorkflow ==
  ASSUME [FNext]_allVars
  PROVE  [Next]_vars \/ \E r \in Requests : RollBack(r)
<1>1. CASE TimePasses BY <1>1 DEF Next
<1>2. CASE UNCHANGED vars BY <1>2
<1>3. ASSUME NEW r \in Requests, Passive(r) PROVE Next
  BY <1>3 DEF Passive, Next, Proceed
<1>4. ASSUME NEW r \in Requests, Call(r) PROVE [Next]_vars
  <2>1. CASE Passive(r) BY <1>3, <2>1
  <2>2. CASE PutStatus(r) BY <2>2 DEF PutStatus, Next
  <2>3. CASE SendBack(r) BY <2>3 DEF SendBack, Next
  <2>4. CASE Finalize(r) BY <2>4, StatusFacts DEF Finalize, Next
  <2>5. CASE Start(r) BY <2>5 DEF Start, Next
  <2>6. CASE Handover(r)
    <3>1. "handed" \in Statuses BY DEF Statuses, L!Statuses
    <3> QED BY <2>6, <3>1 DEF Handover, Next
  <2>7. CASE Approval(r)
    <3>1. {"approved", "supplement", "refused"} \subseteq Statuses
      BY DEF Statuses, L!Statuses, L!Terminal
    <3> QED BY <2>7, <3>1 DEF Approval, Next
  <2>8. CASE ForceEnd(r) BY <2>8 DEF ForceEnd, Next
  <2>9. CASE SignCommitment(r)
    <3>1. "filing" \in Statuses BY DEF Statuses, L!Statuses
    <3> QED BY <2>9, <3>1 DEF SignCommitment, Next
  <2>10. CASE Submit(r) \/ RejectPlan(r) \/ SignForms(r) \/ Pack(r)
    BY <2>10 DEF Submit, RejectPlan, SignForms, Pack
  <2> QED
    BY <1>4, <2>1, <2>2, <2>3, <2>4, <2>5, <2>6, <2>7, <2>8, <2>9, <2>10 DEF Call
<1>5. ASSUME NEW r \in Requests, FProceed(r) PROVE [Next]_vars \/ RollBack(r)
  <2>1. CASE Passive(r) BY <1>3, <2>1
  <2>2. CASE SetAndLoad(r) \/ SetFails(r)
    BY <2>2 DEF SetAndLoad, SetFails, Next, Proceed
  <2>3. CASE Commit(r) BY <2>3 DEF Commit, Next, Proceed
  <2>4. CASE CommitFails(r) BY <2>4 DEF CommitFails
  <2> QED
    BY <1>5, <2>1, <2>2, <2>3, <2>4 DEF FProceed, CommitSubmit, CommitReject,
       CommitSomeForms, CommitSignature, CommitCommitment, CommitPack
<1>6. ASSUME NEW r \in Requests, Dies(r) PROVE [Next]_vars
  BY <1>6 DEF Dies, Next, Abandon
<1> QED
  BY <1>1, <1>2, <1>4, <1>5, <1>6 DEF FNext, allVars, OpenPlan, OpenMaterial, SignMaterial,
     Generate

\* What the services do together is, for the activity row and its log, a behaviour of
\* Workflow: no service changes the status or the log but by its calls.
THEOREM ImplementsWorkflow ==
  ASSUME Crashes
  PROVE  FSpec => WorkflowSpec
<1>1. FInit => Init BY DEF FInit
<1>2. [FNext]_allVars => [Next]_vars
  BY StepOfWorkflow DEF Next, Abandon
<1> QED BY <1>1, <1>2, PTL DEF FSpec, WorkflowSpec, Spec

LEMMA RollBackStep ==
  ASSUME IInv, NEW r \in Requests, RollBack(r)
  PROVE  IInv'
<1>1. TypeOK' BY ReturnType DEF RollBack, IInv, TypeOK
<1>2. LogExplainsStatus' /\ TransitionsChain' /\ ArchivedIsOver'
  BY DEF RollBack, IInv, LogExplainsStatus, TransitionsChain, ArchivedIsOver
<1>3. LockProtectsDecision'
  BY RequestsAssumption DEF RollBack, Return, IInv, LockProtectsDecision, TypeOK
<1>4. CallsAreLegal' BY DEF RollBack, Return, IInv, CallsAreLegal, TypeOK
<1> QED BY <1>1, <1>2, <1>3, <1>4 DEF IInv

LEMMA WorkflowStep ==
  ASSUME IInv, [FNext]_allVars
  PROVE  IInv'
<1>1. CASE [Next]_vars BY <1>1, TypeStep, LogStep, LockStep, CallsStep DEF IInv
<1> QED BY <1>1, StepOfWorkflow, RollBackStep

-----------------------------------------------------------------------------
(* The frame of a step.                                                      *)

LEMMA MaterialFacts ==
  /\ Early \subseteq Materials
  /\ "filing_commitment" \in Materials \ Early
  /\ Materials = Early \cup {"filing_commitment"}
  /\ Forms \subseteq Early /\ "activity_plan" \in Early \ Forms
  /\ "security_plan" \in Forms
BY FormsAssumption DEF Materials, Early

LEMMA NoJobFacts == NoJob \in Jobs /\ NoJob.op = "none" /\ NoJob.signed = {}
BY DEF NoJob, Jobs, Ops, AuditStatuses

LEMMA JobAfter ==
  ASSUME FTypeOK, NEW r \in Requests, NEW j \in Jobs, Begin(r, j)
  PROVE  /\ job' \in [Requests -> Jobs] /\ job'[r] = j
         /\ \A q \in Requests \ {r} : job'[q] = job[q]
BY DEF FTypeOK, Begin

\* A request has the job it had, or has become late with it.
Same(q) == job'[q] = job[q] \/ job'[q] = [job[q] EXCEPT !.late = TRUE]

\* Other requests see no material lose its signature before supplements are asked for, and
\* no package disappear.
LEMMA OthersStaySound ==
  ASSUME FInv, NEW q \in Requests, Sound(q), ~Alone,
         pc'[q] = pc[q], call'[q] = call[q], Same(q),
         Supplemented => Supplemented',
         ~Supplemented' => \A m \in Materials : sign[m] = "signed" => sign'[m] = "signed",
         filing.pack # "absent" => filing'.pack # "absent"
  PROVE  Sound(q)'
<1>1. /\ job'[q].op = job[q].op /\ job'[q].manager = job[q].manager
      /\ job'[q].signed = job[q].signed
  BY DEF Same, FInv, FTypeOK, Jobs
<1>2. Agrees(q)' BY <1>1 DEF Sound, Agrees, Underway
<1>3. job[q].signed \subseteq Materials BY DEF FInv, FTypeOK, Jobs
<1>4. SignedFirst => Signs(q)'
  BY <1>1, <1>3, MaterialFacts DEF Sound, Signs, Underway, AreSigned
<1>5. PackedFirst => HandsOver(q)' BY <1>1 DEF Sound, HandsOver, Underway
<1> QED BY <1>2, <1>4, <1>5 DEF Sound, Alone, SignedFirst, PackedFirst

\* What is left to show of a step of request r.
LEMMA StepOf ==
  ASSUME FInv, [FNext]_allVars, NEW r \in Requests,
         \A q \in Requests \ {r} : pc'[q] = pc[q] /\ call'[q] = call[q] /\ Same(q),
         Supplemented => Supplemented',
         ~Supplemented' => \A m \in Materials : sign[m] = "signed" => sign'[m] = "signed",
         filing.pack # "absent" => filing'.pack # "absent",
         FTypeOK', RowsAreSound', Sound(r)'
  PROVE  FInv'
<1>1. IInv' BY WorkflowStep DEF FInv
<1>2. ASSUME NEW q \in Requests, q # r PROVE Sound(q)'
  BY <1>2, OthersStaySound DEF FInv, Alone
<1> QED BY <1>1, <1>2 DEF FInv

\* A step that leaves the rows and the log alone keeps what is true of them.
LEMMA QuietRows ==
  ASSUME RowsAreSound, UNCHANGED <<status, log, fvars>>
  PROVE  RowsAreSound'
BY DEF RowsAreSound, fvars, ApprovalsAreDecisions, VersionHasPlan, SignedIsWhole, FiledIsSigned,
   HandoverIsRecorded, PlanIsThere, ApprovedStaysAudited, AreSigned, Supplemented,
   Entered, SignedFirst, PackedFirst, Alone

LEMMA QuietStep ==
  ASSUME FInv, [FNext]_allVars, NEW r \in Requests, UNCHANGED <<status, log, fvars>>,
         \A q \in Requests \ {r} : pc'[q] = pc[q] /\ call'[q] = call[q],
         NEW j \in Jobs, Begin(r, j), Sound(r)'
  PROVE  FInv'
<1>1. /\ job' \in [Requests -> Jobs] /\ job'[r] = j
      /\ \A q \in Requests \ {r} : job'[q] = job[q]
  BY JobAfter DEF FInv
<1>2. FTypeOK' BY <1>1 DEF FInv, FTypeOK, fvars
<1>3. RowsAreSound' BY QuietRows DEF FInv
<1>4. Supplemented => Supplemented' BY DEF Supplemented, Entered
<1> QED BY <1>1, <1>2, <1>3, <1>4, StepOf DEF fvars, Same

\* A request that is in no call and has no job is sound.
LEMMA RestIsSound ==
  ASSUME NEW r \in Requests, job'[r].op = "none", pc'[r] \notin {"read", "locked"}
  PROVE  Sound(r)'
BY DEF Sound, Agrees, Signs, HandsOver, SeesPlan, Underway, Moving

\* One that ends, leaving the rows and the log alone.
LEMMA EndStep ==
  ASSUME FInv, [FNext]_allVars, NEW r \in Requests, UNCHANGED <<status, log, fvars>>, End(r),
         \/ Return(r)
         \/ UNCHANGED <<pc, call>> /\ ~Underway(r)
  PROVE  FInv'
<1>1. pc'[r] \notin {"read", "locked"} BY DEF Return, Underway, FInv, IInv, TypeOK
<1>2. \A q \in Requests \ {r} : pc'[q] = pc[q] /\ call'[q] = call[q]
  BY DEF Return, FInv, IInv, TypeOK
<1>3. Begin(r, NoJob) /\ NoJob \in Jobs BY NoJobFacts DEF End, Begin
<1>4. job'[r].op = "none" BY <1>3, JobAfter, NoJobFacts DEF FInv
<1>5. Sound(r)' BY <1>1, <1>4, RestIsSound
<1> QED BY <1>2, <1>3, <1>5, QuietStep

-----------------------------------------------------------------------------
(* Calls of WorkflowService.transition.                                      *)

\* The job that begins with a call.
LEMMA BeginStep ==
  ASSUME FInv, [FNext]_allVars, NEW r \in Requests, NEW to, ReadForTransition(r, to),
         UNCHANGED fvars, NEW j \in Jobs, Begin(r, j), j.op \in Moving \ {"committed"},
         j.op = "approval" => status = "handed" /\ to \in Decisions,
         j.op = "commitment" => j.manager,
         j.audit = "unread" \/ (j.audit = "signed" /\ plan.audit = "signed"),
         SignedFirst /\ to = "filing" => j.op = "commitment",
         j.op = "commitment" /\ SignedFirst /\ ~Supplemented => AreSigned(Early),
         PackedFirst /\ to = "handed" => j.op = "handover" /\ filing.pack # "absent"
  PROVE  FInv'
<1>1. /\ pc'[r] = "read" /\ call'[r].to = to /\ call'[r].seen = status
      /\ \A q \in Requests \ {r} : pc'[q] = pc[q] /\ call'[q] = call[q]
      /\ UNCHANGED <<status, log>>
  BY DEF ReadForTransition, FInv, IInv, TypeOK
<1>2. job'[r] = j BY JobAfter DEF FInv
<1>3. Agrees(r)' BY <1>1, <1>2 DEF Agrees, Underway, Moving
<1>4. SignedFirst => Signs(r)'
  BY <1>1, <1>2 DEF Signs, Underway, Moving, AreSigned, Supplemented, Entered, fvars
<1>5. PackedFirst => HandsOver(r)' BY <1>1, <1>2 DEF HandsOver, Underway, fvars
<1>6. SeesPlan(r)' BY <1>1, <1>2 DEF SeesPlan, Moving, fvars
<1>7. Sound(r)'
  BY <1>3, <1>4, <1>5, <1>6 DEF Sound, SignedFirst, PackedFirst, Alone
<1> QED BY <1>1, <1>7, QuietStep

\* The jobs of the calls.
LEMMA CallJobs ==
  ASSUME NEW o \in Ops, NEW m \in BOOLEAN
  PROVE  /\ [NoJob EXCEPT !.op = o] \in Jobs /\ [NoJob EXCEPT !.op = o].op = o
         /\ [NoJob EXCEPT !.op = o, !.manager = m] \in Jobs
         /\ [NoJob EXCEPT !.op = o, !.manager = m].op = o
         /\ [NoJob EXCEPT !.op = o].audit = "unread"
         /\ [NoJob EXCEPT !.op = o, !.manager = m].audit = "unread"
<1>1. NoJob.audit = "unread" BY DEF NoJob
<1> QED BY <1>1, NoJobFacts DEF Jobs

LEMMA TransitionStep ==
  ASSUME FInv, [FNext]_allVars, NEW r \in Requests, NEW to, ReadForTransition(r, to),
         UNCHANGED fvars, NEW j \in Jobs, j.op = "transition", j.audit = "unread", Begin(r, j),
         SignedFirst => to # "filing", PackedFirst => to # "handed"
  PROVE  FInv'
<1>1. j.op \in Moving \ {"committed"} /\ j.op \notin {"approval", "commitment"} BY DEF Moving
<1> QED BY <1>1, BeginStep

LEMMA TransitionsStep ==
  ASSUME FInv, [FNext]_allVars, NEW r \in Requests,
         PutStatus(r) \/ SendBack(r) \/ Finalize(r) \/ Start(r)
  PROVE  FInv'
<1>1. CASE PutStatus(r)
  <2>1. PICK to \in Statuses, m \in BOOLEAN :
          /\ <<status, to>> \in DirectMoves
          /\ ReadForTransition(r, to)
          /\ Begin(r, [NoJob EXCEPT !.op = "transition", !.manager = m])
    BY <1>1 DEF PutStatus, UpdateStatus
  <2>2. <<status, to>> \in Matrix /\ status \in Statuses
    BY <2>1, StatusFacts DEF ReadForTransition
  <2>3. to = "filing" => status = "security" BY <2>2 DEF Matrix, L!Matrix
  <2>4. SignedFirst => to # "filing" BY <2>1, <2>3 DEF SignedFirst
  <2>5. PackedFirst => to # "handed" BY <2>1, <2>2 DEF PackedFirst
  <2>6. UNCHANGED fvars BY <1>1 DEF PutStatus
  <2> DEFINE j == [NoJob EXCEPT !.op = "transition", !.manager = m]
  <2>7. j \in Jobs /\ j.op = "transition" BY <2>1, CallJobs DEF Ops
  <2>8. j.audit = "unread" /\ Begin(r, j) BY <2>1 DEF NoJob
  <2> HIDE DEF j
  <2> QED BY <2>1, <2>4, <2>5, <2>6, <2>7, <2>8, TransitionStep
<1>2. CASE SendBack(r) \/ Finalize(r) \/ Start(r)
  <2> DEFINE j == [NoJob EXCEPT !.op = "transition"]
  <2>1. j \in Jobs /\ j.op = "transition" /\ j.audit = "unread" BY CallJobs DEF Ops
  <2>2. Begin(r, j) /\ UNCHANGED fvars BY <1>2 DEF SendBack, Finalize, Start
  <2> HIDE DEF j
  <2>3. PICK to \in {"security", "ongoing"} : ReadForTransition(r, to)
    BY <1>2 DEF SendBack, Reject, Finalize, Start, AutoStart, UpdateStatus
  <2> QED BY <2>1, <2>2, <2>3, TransitionStep
<1> QED BY <1>1, <1>2

LEMMA HandoverStep ==
  ASSUME FInv, [FNext]_allVars, NEW r \in Requests, Handover(r)
  PROVE  FInv'
<1> DEFINE j == [NoJob EXCEPT !.op = "handover"]
<1>1. j \in Jobs /\ j.op = "handover" /\ j.audit = "unread" BY CallJobs DEF Ops
<1>2. /\ ReadForTransition(r, "handed") /\ filing.pack # "absent"
      /\ Begin(r, j) /\ UNCHANGED fvars
  BY DEF Handover, UpdateStatus
<1> HIDE DEF j
<1>3. j.op \in Moving \ {"committed"} /\ j.op \notin {"approval", "commitment"}
  BY <1>1 DEF Moving
<1> QED BY <1>1, <1>2, <1>3, BeginStep

LEMMA ApprovalStep ==
  ASSUME FInv, [FNext]_allVars, NEW r \in Requests, Approval(r)
  PROVE  FInv'
<1> DEFINE j == [NoJob EXCEPT !.op = "approval"]
<1>1. j \in Jobs /\ j.op = "approval" /\ j.audit = "unread" BY CallJobs DEF Ops
<1>2. Begin(r, j) /\ UNCHANGED fvars /\ status = "handed" BY DEF Approval
<1>3. PICK to \in Decisions : ReadForTransition(r, to)
  BY DEF Approval, UpdateStatus, Decisions
<1> HIDE DEF j
<1>4. j.op \in Moving \ {"committed"} /\ j.op # "commitment" BY <1>1 DEF Moving
<1>5. to \notin {"filing", "handed"} BY DEF Decisions
<1> QED BY <1>1, <1>2, <1>3, <1>4, <1>5, BeginStep

\* The job of the manager's call, that of SignCommitment from the security phase.
LEMMA ManagerJob ==
  LET j == [NoJob EXCEPT !.op = "commitment", !.manager = TRUE, !.audit = "signed"]
  IN  j \in Jobs /\ j.op = "commitment" /\ j.manager = TRUE /\ j.audit = "signed"
<1> DEFINE i == [NoJob EXCEPT !.op = "commitment", !.manager = TRUE]
<1>1. i \in Jobs /\ i.op = "commitment" BY CallJobs DEF Ops
<1>2. i.manager = TRUE BY DEF NoJob
<1> QED BY <1>1, <1>2, NoJobFacts DEF Jobs, Ops, AuditStatuses

LEMMA SignCommitmentStep ==
  ASSUME FInv, [FNext]_allVars, NEW r \in Requests, SignCommitment(r)
  PROVE  FInv'
<1>1. Free(r) /\ plan.audit = "signed" /\ UNCHANGED fvars BY DEF SignCommitment
<1>2. CASE /\ UpdateStatus(r, "filing")
           /\ Begin(r, [NoJob EXCEPT !.op = "commitment", !.manager = TRUE,
                                     !.audit = "signed"])
  <2> DEFINE j == [NoJob EXCEPT !.op = "commitment", !.manager = TRUE, !.audit = "signed"]
  <2>1. j \in Jobs /\ j.op = "commitment" /\ j.manager /\ j.audit = "signed" BY ManagerJob
  <2> HIDE DEF j
  <2>2. SignedFirst /\ ~Supplemented => AreSigned(Early)
    BY <1>1 DEF FInv, RowsAreSound, SignedIsWhole
  <2>3. ReadForTransition(r, "filing") /\ Begin(r, j) BY <1>2 DEF UpdateStatus, j
  <2> QED BY <1>1, <2>1, <2>2, <2>3, BeginStep DEF Moving
<1>3. CASE Begin(r, [NoJob EXCEPT !.op = "supplemented"]) /\ UNCHANGED vars
  <2> DEFINE j == [NoJob EXCEPT !.op = "supplemented"]
  <2>1. j \in Jobs /\ j.op = "supplemented" BY CallJobs DEF Ops
  <2> HIDE DEF j
  <2>2. Begin(r, j) BY <1>3 DEF j
  <2>3. job'[r] = j BY <2>1, <2>2, JobAfter DEF FInv
  <2>4. pc'[r] = "idle" /\ UNCHANGED <<pc, call, status, log>> BY <1>1, <1>3 DEF Free, vars
  <2>5. Sound(r)'
    BY <2>1, <2>3, <2>4 DEF Sound, Agrees, Signs, HandsOver, SeesPlan, Underway,
       Moving
  <2> QED BY <1>1, <2>1, <2>2, <2>4, <2>5, QuietStep
<1> QED BY <1>2, <1>3 DEF SignCommitment
-----------------------------------------------------------------------------
(* The other calls: a request loads what it decides on, and nothing is written. *)

LEMMA ForceEndStep ==
  ASSUME FInv, [FNext]_allVars, NEW r \in Requests, ForceEnd(r)
  PROVE  FInv'
<1>1. PICK to \in Forced : ReadForForce(r, to) BY DEF ForceEnd
<1>2. /\ pc'[r] = "force" /\ UNCHANGED <<status, log, fvars, job>>
      /\ \A q \in Requests \ {r} : pc'[q] = pc[q] /\ call'[q] = call[q]
  BY <1>1 DEF ReadForForce, ForceEnd, FInv, IInv, TypeOK
<1>3. job[r] \in Jobs /\ Begin(r, job[r]) BY <1>2 DEF Begin, FInv, FTypeOK
<1>4. job'[r].op = "none" BY <1>2 DEF ForceEnd, Free
<1>5. Sound(r)' BY <1>2, <1>4, RestIsSound
<1> QED BY <1>2, <1>3, <1>5, QuietStep

\* A request outside the workflow begins.
LEMMA LoadStep ==
  ASSUME FInv, [FNext]_allVars, NEW r \in Requests, Free(r), UNCHANGED <<vars, fvars>>,
         NEW j \in Jobs, Begin(r, j), j.op \in {"submit", "sign", "rejectPlan", "pack"},
         j.op = "sign" => AreSigned(j.signed),
         j.op \in {"submit", "sign"} => SigningOpen /\ plan.audit # "none",
         j.op = "rejectPlan" => plan.audit = "toSign"
  PROVE  FInv'
<1>1. pc'[r] = "idle" /\ UNCHANGED <<pc, call, status, log>> BY DEF Free, vars
<1>2. job'[r] = j BY JobAfter DEF FInv
<1>3. Agrees(r)' /\ HandsOver(r)' BY <1>1, <1>2 DEF Agrees, HandsOver, Underway, Moving
<1>4. Signs(r)' BY <1>1, <1>2 DEF Signs, Underway, AreSigned, fvars
<1>5. SeesPlan(r)' BY <1>1, <1>2 DEF SeesPlan, SigningOpen, fvars
<1>6. Sound(r)' BY <1>3, <1>4, <1>5 DEF Sound
<1> QED BY <1>1, <1>6, QuietStep

LEMMA SubmitStep ==
  ASSUME FInv, [FNext]_allVars, NEW r \in Requests, Submit(r)
  PROVE  FInv'
<1> DEFINE j == [NoJob EXCEPT !.op = "submit", !.audit = plan.audit,
                              !.rejected = plan.rejected]
<1>1. plan.audit \in AuditStatuses /\ plan.rejected \in BOOLEAN
  BY DEF FInv, FTypeOK, Plans
<1>2. j \in Jobs /\ j.op = "submit" BY <1>1, NoJobFacts DEF Jobs, Ops
<1>3. Free(r) /\ Begin(r, j) /\ SigningOpen /\ UNCHANGED <<vars, fvars>> BY DEF Submit
<1>4. plan.audit # "none" BY DEF Submit, FInv, RowsAreSound, VersionHasPlan
<1> HIDE DEF j
<1> QED BY <1>2, <1>3, <1>4, LoadStep

LEMMA RejectPlanStep ==
  ASSUME FInv, [FNext]_allVars, NEW r \in Requests, RejectPlan(r)
  PROVE  FInv'
<1> DEFINE j == [NoJob EXCEPT !.op = "rejectPlan"]
<1>1. j \in Jobs /\ j.op = "rejectPlan" BY CallJobs DEF Ops
<1>2. Free(r) /\ Begin(r, j) /\ plan.audit = "toSign" /\ UNCHANGED <<vars, fvars>>
  BY DEF RejectPlan
<1> HIDE DEF j
<1> QED BY <1>1, <1>2, LoadStep

LEMMA SignFormsStep ==
  ASSUME FInv, [FNext]_allVars, NEW r \in Requests, SignForms(r)
  PROVE  FInv'
<1>1. PICK early \in SUBSET (Forms \cap Signed) :
        Begin(r, [NoJob EXCEPT !.op = "sign", !.signed = early])
  BY DEF SignForms
<1> DEFINE j == [NoJob EXCEPT !.op = "sign", !.signed = early]
<1>2. early \subseteq Materials /\ AreSigned(early) BY <1>1 DEF Signed, AreSigned
<1>3. j \in Jobs /\ j.op = "sign" /\ j.signed = early BY <1>2, NoJobFacts DEF Jobs, Ops
<1>4. Free(r) /\ Begin(r, j) /\ SigningOpen /\ plan.audit # "none" /\ UNCHANGED <<vars, fvars>>
  BY <1>1 DEF SignForms
<1> HIDE DEF j
<1> QED BY <1>2, <1>3, <1>4, LoadStep

LEMMA PackStep ==
  ASSUME FInv, [FNext]_allVars, NEW r \in Requests, Pack(r)
  PROVE  FInv'
<1>1. PICK k \in BOOLEAN : k = (Rows # {} /\ Rows = Signed) OBVIOUS
<1> DEFINE i == [NoJob EXCEPT !.op = "pack", !.pack = filing.pack]
           j == [NoJob EXCEPT !.op = "pack", !.pack = filing.pack, !.ok = k]
<1>2. i \in Jobs /\ i.op = "pack" BY NoJobFacts DEF Jobs, Ops, FInv, FTypeOK
<1>3. j \in Jobs /\ j.op = "pack" BY <1>1, <1>2 DEF Jobs
<1>4. Free(r) /\ UNCHANGED <<vars, fvars>> BY DEF Pack
<1>5. Begin(r, j) BY <1>1, Zenon DEF Pack
<1> HIDE DEF j
<1> QED BY <1>3, <1>4, <1>5, LoadStep
-----------------------------------------------------------------------------
(* The steps of a call but its commit.                                       *)

LEMMA SetAndLoadStep ==
  ASSUME FInv, [FNext]_allVars, NEW r \in Requests, SetAndLoad(r)
  PROVE  FInv'
<1> DEFINE a == IF job[r].audit = "unread" THEN plan.audit ELSE job[r].audit
           d == IF call[r].to = "supplement" THEN Signed ELSE {}
           j == [job[r] EXCEPT !.audit = a, !.signed = d]
<1>1. job[r] \in Jobs /\ plan.audit \in AuditStatuses /\ d \subseteq Materials
  BY DEF FInv, FTypeOK, Plans, Signed
<1>2. a \in AuditStatuses \cup {"unread"} BY <1>1 DEF Jobs
<1>3. Begin(r, j) /\ UNCHANGED fvars /\ job[r].op # "commitment" /\ pc[r] = "read"
  BY DEF SetAndLoad, CompareAndSet
<1> HIDE DEF a, d
<1>4. j \in Jobs /\ j.op = job[r].op /\ j.manager = job[r].manager /\ j.audit = a
  BY <1>1, <1>2 DEF Jobs
<1> HIDE DEF j
<1>5. /\ pc'[r] = "locked" /\ UNCHANGED <<status, log, call>>
      /\ \A q \in Requests \ {r} : pc'[q] = pc[q] /\ call'[q] = call[q]
  BY DEF SetAndLoad, CompareAndSet, FInv, IInv, TypeOK
<1>6. job'[r] = j BY <1>3, <1>4, JobAfter DEF FInv
<1>7. Sound(r) /\ Underway(r) /\ Agrees(r) /\ job[r].op \in Moving
  BY <1>3 DEF FInv, Sound, Agrees, Underway
<1>8. Agrees(r)'
  BY <1>3, <1>4, <1>5, <1>6, <1>7 DEF Agrees, Underway
<1>9. SignedFirst => Signs(r)'
  BY <1>3, <1>4, <1>5, <1>6, <1>7 DEF Sound, Signs, Underway, Moving, AreSigned, Supplemented,
     Entered, fvars
<1>10. PackedFirst => HandsOver(r)'
  BY <1>3, <1>4, <1>5, <1>6, <1>7 DEF Sound, HandsOver, Underway, fvars
<1>11. Alone => SeesPlan(r)'
  BY <1>3, <1>4, <1>5, <1>6, <1>7 DEF Sound, SeesPlan, Moving, a, fvars
<1>12. Sound(r)' BY <1>8, <1>9, <1>10, <1>11 DEF Sound, SignedFirst, PackedFirst, Alone
<1> QED BY <1>3, <1>4, <1>5, <1>12, QuietStep

LEMMA EndsStep ==
  ASSUME FInv, [FNext]_allVars, NEW r \in Requests,
         SetFails(r) \/ CommitFails(r) \/ Dies(r)
  PROVE  FInv'
<1>1. End(r) /\ UNCHANGED fvars BY DEF SetFails, CommitFails, Dies
<1>2. CASE Return(r) /\ UNCHANGED <<status, log>> BY <1>1, <1>2, EndStep
<1>3. CASE pc[r] = "idle" /\ UNCHANGED vars
  BY <1>1, <1>3, EndStep DEF vars, Underway
<1> QED BY <1>2, <1>3 DEF SetFails, CompareAndSetFails, CommitFails, Dies, RollBack

\* Once a request is beyond its commit, it has no job.
LEMMA QuietPassiveStep ==
  ASSUME FInv, [FNext]_allVars, NEW r \in Requests, UNCHANGED <<fvars, job>>,
         CreateLog(r) \/ Notify(r) \/ Answer(r)
  PROVE  FInv'
<1>1. UNCHANGED <<status, log>> /\ pc[r] \in {"created", "notify"}
  BY DEF CreateLog, Notify, Answer
<1>2. /\ pc'[r] \in {"idle", "notify"}
      /\ \A q \in Requests \ {r} : pc'[q] = pc[q] /\ call'[q] = call[q]
  BY DEF CreateLog, Notify, Answer, Return, FInv, IInv, TypeOK
<1>3. job[r] \in Jobs /\ Begin(r, job[r]) BY DEF Begin, FInv, FTypeOK
<1>4. job'[r].op = "none" BY <1>1 DEF FInv, Sound, Agrees
<1>5. Sound(r)' BY <1>2, <1>4, RestIsSound
<1> QED BY <1>1, <1>2, <1>3, <1>5, QuietStep

LEMMA CreateStep ==
  ASSUME FInv, [FNext]_allVars, NEW r \in Requests, Free(r), Create(r), UNCHANGED <<fvars, job>>
  PROVE  FInv'
<1>1. status' = "design" /\ UNCHANGED log /\ pc'[r] = "created" /\ job'[r].op = "none"
  BY DEF Create, Free, FInv, IInv, TypeOK
<1>2. \A q \in Requests \ {r} : pc'[q] = pc[q] /\ call'[q] = call[q] /\ job'[q] = job[q]
  BY DEF Create, FInv, IInv, TypeOK
<1>3. FTypeOK' BY DEF FInv, FTypeOK, fvars
<1>4. RowsAreSound'
  BY <1>1 DEF FInv, RowsAreSound, fvars, ApprovalsAreDecisions, VersionHasPlan, SignedIsWhole,
     FiledIsSigned, HandoverIsRecorded, PlanIsThere, ApprovedStaysAudited, AreSigned,
     Supplemented, Entered, SignedFirst, PackedFirst, Alone
<1>5. Sound(r)' BY <1>1, RestIsSound
<1>6. Supplemented => Supplemented' BY <1>1 DEF Supplemented, Entered
<1> QED BY <1>2, <1>3, <1>4, <1>5, <1>6, StepOf DEF fvars, Same
-----------------------------------------------------------------------------
(* The commits that write the log.                                           *)

\* What an entry to `to` makes of the statuses the log has.
LEMMA LogGrows ==
  ASSUME IInv, NEW r \in Requests, WriteStatus(r),
         call[r].to \in Statuses, call[r].seen \in Statuses
  PROVE  /\ Filed' <=> Filed \/ call[r].to = "filing"
         /\ Supplemented' <=> Supplemented \/ call[r].to = "supplement"
         /\ HandedOver' <=> HandedOver \/ call[r].to = "handed"
         /\ Len(log') = Len(log) + 1 /\ Len(log) \in Nat
         /\ \A i \in 1..Len(log) : log'[i] = log[i]
         /\ log'[Len(log')] = [from |-> call[r].seen, to |-> call[r].to]
<1>1. /\ Len(log') = Len(log) + 1
      /\ \A i \in 1..Len(log) : log'[i] = log[i]
      /\ log'[Len(log')] = [from |-> call[r].seen, to |-> call[r].to]
  BY Appended DEF IInv
<1>2. Len(log) \in Nat BY LogEntries DEF IInv
<1>3. log'[Len(log) + 1].to = call[r].to BY <1>1
<1>4. ASSUME NEW s
      PROVE  (\E i \in 1..Len(log') : log'[i].to = s)
               <=> (\E i \in 1..Len(log) : log[i].to = s) \/ call[r].to = s
  BY <1>1, <1>2, <1>3
<1> QED BY <1>1, <1>2, <1>4 DEF Filed, Supplemented, HandedOver, Entered

LEMMA ApprovalsStay ==
  ASSUME FInv, NEW r \in Requests, WriteStatus(r), call[r].to \in Statuses,
         call[r].seen \in Statuses, NEW S \in SUBSET Nat, NEW to,
         approvals' \subseteq approvals \cup ({to} \X S),
         S # {} => /\ S = {Len(log')} /\ to = call[r].to /\ to \in Decisions
                   /\ call[r].seen = "handed"
  PROVE  /\ approvals' \subseteq ({"approved", "supplement", "refused"} \X Nat)
         /\ ApprovalsAreDecisions'
<1>1. /\ Len(log') = Len(log) + 1 /\ Len(log) \in Nat
      /\ \A i \in 1..Len(log) : log'[i] = log[i]
      /\ log'[Len(log')] = [from |-> call[r].seen, to |-> call[r].to]
  BY LogGrows DEF FInv
<1>2. approvals \subseteq ({"approved", "supplement", "refused"} \X Nat) BY DEF FInv, FTypeOK
<1>3. ASSUME NEW a \in approvals'
      PROVE  /\ a \in ({"approved", "supplement", "refused"} \X Nat)
             /\ a[2] \in 1..Len(log') /\ log'[a[2]] = [from |-> "handed", to |-> a[1]]
  <2>1. CASE a \in approvals
    <3>1. a[2] \in 1..Len(log) /\ log[a[2]] = [from |-> "handed", to |-> a[1]]
      BY <2>1 DEF FInv, RowsAreSound, ApprovalsAreDecisions
    <3> QED BY <1>1, <1>2, <2>1, <3>1
  <2>2. CASE a \in ({to} \X S)
    <3>1. a = <<to, Len(log')>> /\ to = call[r].to /\ to \in Decisions
          /\ call[r].seen = "handed"
      BY <2>2
    <3> QED BY <1>1, <3>1 DEF Decisions
  <2> QED BY <1>3, <2>1, <2>2
<1> QED BY <1>3 DEF ApprovalsAreDecisions

LEMMA CommitForceStep ==
  ASSUME FInv, [FNext]_allVars, NEW r \in Requests, CommitForce(r), UNCHANGED <<fvars, job>>
  PROVE  FInv'
<1>1. /\ WriteStatus(r) /\ call[r].to \in Forced /\ call[r].to \in Statuses
      /\ call[r].seen \in Statuses
  BY ForceFacts DEF FInv
<1>2. call[r].to \notin {"filing", "supplement", "handed", "approved", "ongoing", "ended"}
  BY <1>1 DEF Forced, L!Forced
<1>3. (Filed' <=> Filed) /\ (Supplemented' <=> Supplemented) /\ (HandedOver' <=> HandedOver)
  BY <1>1, <1>2, LogGrows DEF FInv
<1>4. /\ status' = call[r].to /\ pc'[r] = "notify"
      /\ \A q \in Requests \ {r} : pc'[q] = pc[q] /\ call'[q] = call[q] /\ job'[q] = job[q]
  BY <1>1 DEF WriteStatus, FInv, IInv, TypeOK
<1>5. job'[r].op = "none" BY DEF CommitForce, FInv, Sound, Agrees
<1>6. Sound(r)' BY <1>4, <1>5, RestIsSound
<1>7. FTypeOK' BY DEF FInv, FTypeOK, fvars
<1>8. RowsAreSound'
  <2>1. ApprovalsAreDecisions' BY <1>1, ApprovalsStay DEF fvars
  <2>2. SignedFirst => SignedIsWhole' /\ FiledIsSigned'
    BY <1>3 DEF FInv, RowsAreSound, fvars, SignedIsWhole, FiledIsSigned, AreSigned, Filed,
       Supplemented
  <2>3. PackedFirst => HandoverIsRecorded'
    BY <1>3 DEF FInv, RowsAreSound, fvars, HandoverIsRecorded, HandedOver
  <2>4. PlanIsThere' /\ ApprovedStaysAudited'
    BY <1>1, <1>2, <1>4 DEF PlanIsThere, ApprovedStaysAudited
  <2>5. VersionHasPlan' BY DEF FInv, RowsAreSound, fvars, VersionHasPlan
  <2> QED
    BY <2>1, <2>2, <2>3, <2>4, <2>5 DEF RowsAreSound, SignedFirst, PackedFirst, Alone
<1> QED BY <1>3, <1>4, <1>6, <1>7, <1>8, StepOf DEF fvars, Same
\* What a commit writes into the plan.
LEMMA PlanAfter ==
  ASSUME FInv, NEW r \in Requests, pc[r] = "locked", UpdateSecurityPlan(r)
  PROVE  LET a == AuditAfter(call[r].seen, call[r].to, job[r].manager) IN
         /\ a \in AuditStatuses \cup {"same"}
         /\ plan' \in Plans
         /\ \/ /\ plan'.version = plan.version /\ plan'.rejected = plan.rejected
               /\ plan'.overtaken = plan.overtaken
            \/ job[r].audit = "none" /\ call[r].seen = "design"
         /\ plan'.version # "none" => plan.version # "none"
         /\ plan'.audit \in {plan.audit, a, "drafting"}
         /\ plan'.audit = "none" => plan.audit = "none"
         /\ job[r].audit = "none" /\ call[r].seen = "design" => plan'.audit = "drafting"
         /\ job[r].audit = plan.audit /\ plan.audit # "none" =>
              plan'.audit = IF a = "same" THEN plan.audit ELSE a
<1> DEFINE a == AuditAfter(call[r].seen, call[r].to, job[r].manager)
<1>1. a \in (AuditStatuses \ {"none"}) \cup {"same"} BY DEF AuditAfter, AuditStatuses
<1>2. plan \in Plans BY DEF FInv, FTypeOK
<1>3. [NoPlan EXCEPT !.audit = "drafting"] \in Plans BY DEF NoPlan, Plans, AuditStatuses
<1>4. CASE job[r].audit = "none"
  <2>1. plan' = IF call[r].seen = "design" THEN [NoPlan EXCEPT !.audit = "drafting"] ELSE plan
    BY <1>4 DEF UpdateSecurityPlan
  <2>2. /\ [NoPlan EXCEPT !.audit = "drafting"].audit = "drafting"
        /\ [NoPlan EXCEPT !.audit = "drafting"].version = "none"
    BY DEF NoPlan
  <2>3. CASE call[r].seen = "design"
    BY <1>1, <1>3, <1>4, <2>1, <2>2, <2>3 DEF AuditStatuses
  <2>4. CASE call[r].seen # "design"
    BY <1>1, <1>2, <1>4, <2>1, <2>4 DEF AuditStatuses
  <2> QED BY <2>3, <2>4
<1>5. CASE job[r].audit # "none"
  <2>1. plan' = IF a = "same" THEN plan
                ELSE [plan EXCEPT !.audit = Written(job[r].audit, a, @)]
    BY <1>5 DEF UpdateSecurityPlan
  <2> DEFINE w == Written(job[r].audit, a, plan.audit)
  <2>2. w \in {plan.audit, a} /\ (job[r].audit = plan.audit => w = a) BY DEF Written
  <2>3. a # "same" => w \in AuditStatuses BY <1>1, <1>2, <2>2 DEF Plans
  <2>4. plan' = IF a = "same" THEN plan ELSE [plan EXCEPT !.audit = w] BY <2>1
  <2> HIDE DEF a, w
  <2>5. CASE a = "same" BY <1>1, <1>2, <1>5, <2>4, <2>5 DEF a
  <2>6. CASE a # "same"
    <3>1. plan' \in Plans /\ plan'.audit = w /\ plan'.version = plan.version
      BY <1>2, <2>3, <2>4, <2>6 DEF Plans
    <3>2. plan'.rejected = plan.rejected /\ plan'.overtaken = plan.overtaken
      BY <1>2, <2>4, <2>6 DEF Plans
    <3> QED BY <1>1, <1>5, <2>2, <2>6, <3>1, <3>2 DEF a
  <2> QED BY <2>5, <2>6
<1> QED BY <1>4, <1>5

LEMMA CommitStep ==
  ASSUME FInv, [FNext]_allVars, NEW r \in Requests, Commit(r)
  PROVE  FInv'
<1> DEFINE to == call[r].to
           a == AuditAfter(call[r].seen, to, job[r].manager)
<1>1. /\ WriteStatus(r) /\ pc[r] = "locked" /\ Underway(r)
      /\ <<status, to>> \in Matrix /\ call[r].seen = status
      /\ status \in Statuses \ Terminal /\ to \in Statuses \ Forced
  BY CommitFacts DEF Commit, CommitTransition, Underway, FInv
<1>2. /\ Filed' <=> Filed \/ to = "filing"
      /\ Supplemented' <=> Supplemented \/ to = "supplement"
      /\ HandedOver' <=> HandedOver \/ to = "handed"
      /\ Len(log') \in Nat
  <2>1. call[r].to \in Statuses /\ call[r].seen \in Statuses /\ WriteStatus(r) BY <1>1
  <2>2. Len(log') \in Nat BY <2>1, LogGrows DEF FInv
  <2>3. /\ Filed' <=> Filed \/ to = "filing"
        /\ Supplemented' <=> Supplemented \/ to = "supplement"
        /\ HandedOver' <=> HandedOver \/ to = "handed"
    BY <2>1, LogGrows DEF FInv
  <2> QED BY <2>2, <2>3
<1>3. /\ status' = to /\ pc'[r] = "notify"
      /\ \A q \in Requests \ {r} : pc'[q] = pc[q] /\ call'[q] = call[q]
  BY <1>1 DEF WriteStatus, FInv, IInv, TypeOK
<1>4. /\ job' \in [Requests -> Jobs] /\ job'[r].op = "none"
      /\ \A q \in Requests \ {r} : job'[q] = job[q]
  BY JobAfter, NoJobFacts DEF Commit, End, Begin, FInv
<1>5. Sound(r) /\ Agrees(r) /\ job[r].op \in Moving \ {"commitment"}
  BY <1>1 DEF FInv, Sound, Agrees
<1>6. /\ a \in AuditStatuses \cup {"same"}
      /\ plan' \in Plans
      /\ plan'.version # "none" => plan.version # "none"
      /\ plan'.audit \in {plan.audit, a, "drafting"}
      /\ plan'.audit = "none" => plan.audit = "none"
      /\ job[r].audit = "none" /\ call[r].seen = "design" => plan'.audit = "drafting"
      /\ job[r].audit = plan.audit /\ plan.audit # "none" =>
           plan'.audit = IF a = "same" THEN plan.audit ELSE a
  BY <1>1, PlanAfter DEF Commit
<1>7. /\ sign' \in [Materials -> {"absent", "unsigned", "signed"}]
      /\ to # "supplement" => sign' = sign
  BY DEF Commit, UpdateSecurityPlan, FInv, FTypeOK
<1>8. /\ filing' \in [pack : {"absent", "unqualified", "qualified"}, handed : BOOLEAN]
      /\ filing'.pack = filing.pack
      /\ filing.handed => filing'.handed
      /\ job[r].op = "handover" => filing'.handed
  BY DEF Commit, FInv, FTypeOK
<1>9. /\ approvals' \subseteq ({"approved", "supplement", "refused"} \X Nat)
      /\ ApprovalsAreDecisions'
  <2> DEFINE S == IF job[r].op = "approval" THEN {Len(log')} ELSE {}
  <2>1. approvals' \subseteq approvals \cup ({to} \X S) BY DEF Commit
  <2>2. S # {} => S = {Len(log')} /\ to \in Decisions /\ call[r].seen = "handed"
    BY <1>5 DEF Agrees
  <2>3. S \in SUBSET Nat BY <1>2
  <2> HIDE DEF S
  <2> QED BY <1>1, <2>1, <2>2, <2>3, ApprovalsStay
<1>10. FTypeOK' BY <1>4, <1>6, <1>7, <1>8, <1>9 DEF FTypeOK
<1>11. a = "signed" => status = "security" /\ to = "filing" /\ job[r].manager
  BY <1>1 DEF AuditAfter, Matrix, L!Matrix
<1>12. SignedFirst => SignedIsWhole' /\ FiledIsSigned'
  <2> SUFFICES ASSUME SignedFirst PROVE SignedIsWhole' /\ FiledIsSigned'
    OBVIOUS
  <2>1. to = "filing" /\ ~Supplemented => AreSigned(Materials)
    BY <1>1, <1>5, MaterialFacts DEF Sound, Signs, AreSigned
  <2>2. SignedIsWhole /\ FiledIsSigned BY DEF FInv, RowsAreSound
  <2>3. ~Supplemented' => sign' = sign /\ ~Supplemented BY <1>2, <1>7
  <2>4. SignedIsWhole'
    BY <1>6, <1>11, <2>1, <2>2, <2>3, MaterialFacts DEF SignedIsWhole, AreSigned
  <2>5. FiledIsSigned'
    BY <1>2, <2>1, <2>2, <2>3 DEF FiledIsSigned, AreSigned, Filed, Supplemented
  <2> QED BY <2>4, <2>5
<1>13. PackedFirst => HandoverIsRecorded'
  <2> SUFFICES ASSUME PackedFirst PROVE HandoverIsRecorded'
    OBVIOUS
  <2>1. to = "handed" => job[r].op = "handover" /\ filing.pack # "absent"
    BY <1>1, <1>5 DEF Sound, HandsOver
  <2>2. HandedOver => filing.pack # "absent" /\ filing.handed
    BY DEF FInv, RowsAreSound, HandoverIsRecorded, HandedOver
  <2>3. HandedOver' => filing'.pack # "absent" /\ filing'.handed
    BY <1>2, <1>8, <2>1, <2>2
  <2> QED BY <2>3 DEF HandoverIsRecorded, HandedOver
<1>14. Alone => PlanIsThere' /\ ApprovedStaysAudited'
  <2> SUFFICES ASSUME Alone PROVE PlanIsThere' /\ ApprovedStaysAudited'
    OBVIOUS
  <2>1. \/ job[r].audit = plan.audit
        \/ status = "design" /\ job[r].audit = "none"
    BY <1>1, <1>5 DEF Sound, SeesPlan
  <2>2. PlanIsThere /\ ApprovedStaysAudited BY DEF FInv, RowsAreSound
  <2>3. status # "design" => plan.audit # "none"
    BY <1>1, <2>2, StatusFacts DEF PlanIsThere
  <2>4. plan'.audit # "none" BY <1>1, <1>6, <2>1, <2>3 DEF AuditStatuses
  <2>5. to = "approved" => a = "audited" /\ status = "handed"
    BY <1>1 DEF AuditAfter, Matrix, L!Matrix
  <2>6. to \in {"ongoing", "ended"} => a = "same" /\ status \in {"approved", "ongoing"}
    BY <1>1 DEF AuditAfter, Matrix, L!Matrix
  <2>7. status # "design" => plan'.audit = IF a = "same" THEN plan.audit ELSE a
    BY <1>6, <2>1, <2>3
  <2>8. to \in {"approved", "ongoing", "ended"} => plan'.audit = "audited"
    BY <2>2, <2>5, <2>6, <2>7 DEF ApprovedStaysAudited
  <2> QED BY <1>3, <2>4, <2>8 DEF PlanIsThere, ApprovedStaysAudited
<1>15. VersionHasPlan' BY <1>6 DEF FInv, RowsAreSound, VersionHasPlan
<1>16. RowsAreSound'
  BY <1>9, <1>12, <1>13, <1>14, <1>15 DEF RowsAreSound, SignedFirst, PackedFirst, Alone
<1>17. Sound(r)' BY <1>3, <1>4, RestIsSound
<1> QED BY <1>2, <1>3, <1>4, <1>7, <1>8, <1>10, <1>16, <1>17, StepOf DEF Same
-----------------------------------------------------------------------------
(* The commits of the rows next to the activity.                             *)

SignaturesStay ==
  ~Supplemented => \A m \in Materials : sign[m] = "signed" => sign'[m] = "signed"

\* What is left to show of the rows when neither the activity nor its log changes.
LEMMA RowsWritten ==
  ASSUME FInv, UNCHANGED <<status, log, approvals>>, SignaturesStay,
         SignedFirst /\ ~Supplemented /\ plan'.audit = "signed" =>
           plan.audit = "signed" \/ AreSigned(Early)',
         filing.handed => filing'.handed,
         filing.pack # "absent" => filing'.pack # "absent",
         plan'.audit = "none" => plan.audit = "none",
         plan'.version # "none" => plan'.audit # "none",
         Alone /\ status \in {"approved", "ongoing", "ended"} =>
           plan'.audit = plan.audit \/ plan.audit # "audited"
  PROVE  RowsAreSound' /\ (Supplemented' <=> Supplemented)
<1>1. /\ Filed' <=> Filed
      /\ Supplemented' <=> Supplemented
      /\ HandedOver' <=> HandedOver
  BY DEF Filed, Supplemented, HandedOver, Entered
<1>2. ApprovalsAreDecisions' /\ VersionHasPlan'
  BY DEF FInv, RowsAreSound, ApprovalsAreDecisions, VersionHasPlan
<1>3. SignedFirst => SignedIsWhole' /\ FiledIsSigned'
  BY <1>1, MaterialFacts DEF FInv, RowsAreSound, SignedIsWhole, FiledIsSigned, AreSigned,
     SignaturesStay, Filed, Supplemented
<1>4. PackedFirst => HandoverIsRecorded'
  BY <1>1 DEF FInv, RowsAreSound, HandoverIsRecorded, HandedOver
<1>5. Alone => PlanIsThere' /\ ApprovedStaysAudited'
  BY DEF FInv, RowsAreSound, PlanIsThere, ApprovedStaysAudited
<1> QED
  BY <1>1, <1>2, <1>3, <1>4, <1>5 DEF RowsAreSound, SignedFirst, PackedFirst, Alone

\* A request that becomes late keeps its job.
LEMMA OvertakenJobs ==
  ASSUME FTypeOK
  PROVE  Overtaken \in [Requests -> Jobs]
<1>1. ASSUME NEW r \in Requests PROVE [job[r] EXCEPT !.late = TRUE] \in Jobs
  BY DEF FTypeOK, Jobs
<1> QED BY <1>1 DEF FTypeOK, Overtaken

\* What has become late is so, and is what it was otherwise.
LEMMA LateJobs ==
  ASSUME FTypeOK, NEW r \in Requests
  PROVE  /\ job[r] \in Jobs
         /\ [job[r] EXCEPT !.late = TRUE].late /\ [job[r] EXCEPT !.late = TRUE].op = job[r].op
         /\ [job[r] EXCEPT !.ok = TRUE].op = job[r].op
BY DEF FTypeOK, Jobs

\* A commit that ends its request.
LEMMA LastCommit ==
  ASSUME FInv, [FNext]_allVars, NEW r \in Requests, UNCHANGED vars, pc[r] = "idle",
         End(r) \/ job' = [Overtaken EXCEPT ![r] = NoJob],
         plan' \in Plans,
         sign' \in [Materials -> {"absent", "unsigned", "signed"}],
         filing' \in [pack : {"absent", "unqualified", "qualified"}, handed : BOOLEAN],
         approvals' = approvals,
         RowsAreSound', Supplemented' <=> Supplemented, SignaturesStay,
         filing.pack # "absent" => filing'.pack # "absent"
  PROVE  FInv'
<1>1. /\ job' \in [Requests -> Jobs] /\ job'[r].op = "none"
      /\ \A q \in Requests \ {r} : Same(q)
  <2>1. CASE End(r) BY <2>1, JobAfter, NoJobFacts DEF End, Begin, FInv, Same
  <2>2. CASE job' = [Overtaken EXCEPT ![r] = NoJob]
    <3>1. Overtaken \in [Requests -> Jobs] BY OvertakenJobs DEF FInv
    <3> QED BY <2>2, <3>1, NoJobFacts DEF Same, Overtaken
  <2> QED BY <2>1, <2>2
<1>2. pc' = pc /\ call' = call BY DEF vars
<1>3. Sound(r)' BY <1>1, <1>2, RestIsSound
<1>4. FTypeOK' BY <1>1 DEF FInv, FTypeOK
<1> QED BY <1>1, <1>2, <1>3, <1>4, StepOf DEF SignaturesStay, Same

\* A request outside the workflow is at no point of a call.
LEMMA OutsideCall ==
  ASSUME FInv, NEW r \in Requests,
         job[r].op \in {"submit", "sign", "rejectPlan", "pack", "supplemented"}
  PROVE  pc[r] = "idle" /\ Sound(r)
BY DEF FInv, Sound, Agrees, Underway, Moving

LEMMA CommitSubmitStep ==
  ASSUME FInv, [FNext]_allVars, NEW r \in Requests, CommitSubmit(r)
  PROVE  FInv'
<1> DEFINE w == Written(job[r].audit, "toSign", plan.audit)
           v == Written(job[r].rejected, FALSE, plan.rejected)
           o == plan.overtaken \/ job[r].late
<1>1. job[r].op = "submit" /\ pc[r] = "idle" /\ Sound(r) BY OutsideCall DEF CommitSubmit
<1>2. plan \in Plans BY DEF FInv, FTypeOK
<1>3. plan' = [plan EXCEPT !.audit = w, !.rejected = v, !.overtaken = o] BY DEF CommitSubmit
<1>4. w \in {plan.audit, "toSign"} BY DEF Written
<1>5. v \in BOOLEAN BY <1>2 DEF Written, Plans
<1>6. o \in BOOLEAN OBVIOUS
<1> HIDE DEF w, v, o
<1>7. /\ plan' \in Plans /\ plan'.audit = w /\ plan'.version = plan.version
  BY <1>2, <1>3, <1>4, <1>5, <1>6 DEF Plans, AuditStatuses
<1>8. UNCHANGED <<vars, status, log, sign, filing, approvals>> /\ End(r)
  BY DEF CommitSubmit, vars
<1>9. Alone => status \notin {"approved", "ongoing", "ended"}
  BY <1>1 DEF Sound, SeesPlan, SigningOpen
<1>10. VersionHasPlan BY DEF FInv, RowsAreSound
<1>11. SignaturesStay BY <1>8 DEF SignaturesStay
<1>12. RowsAreSound' /\ (Supplemented' <=> Supplemented)
  BY <1>4, <1>7, <1>8, <1>9, <1>10, <1>11, RowsWritten DEF VersionHasPlan
<1> QED BY <1>1, <1>7, <1>8, <1>11, <1>12, LastCommit DEF FInv, FTypeOK

LEMMA CommitRejectStep ==
  ASSUME FInv, [FNext]_allVars, NEW r \in Requests, CommitReject(r)
  PROVE  FInv'
<1> DEFINE v == IF plan.version = "new" /\ ~job[r].ok THEN "old" ELSE plan.version
<1>1. job[r].op = "rejectPlan" /\ pc[r] = "idle" /\ Sound(r) BY OutsideCall DEF CommitReject
<1>2. plan \in Plans BY DEF FInv, FTypeOK
<1>3. plan' = [plan EXCEPT !.audit = "drafting", !.rejected = TRUE, !.overtaken = FALSE,
                           !.version = v]
  BY DEF CommitReject
<1>4. v \in {"none", "old", "new"} BY <1>2 DEF Plans
<1> HIDE DEF v
<1>5. plan' \in Plans /\ plan'.audit = "drafting"
  BY <1>2, <1>3, <1>4 DEF Plans, AuditStatuses
<1>6. /\ UNCHANGED <<vars, status, log, sign, filing, approvals>>
      /\ job' = [Overtaken EXCEPT ![r] = NoJob]
  BY DEF CommitReject, vars
<1>7. Alone => plan.audit # "audited" BY <1>1 DEF Sound, SeesPlan
<1>8. SignaturesStay BY <1>6 DEF SignaturesStay
<1>9. RowsAreSound' /\ (Supplemented' <=> Supplemented)
  BY <1>5, <1>6, <1>7, <1>8, RowsWritten
<1> QED BY <1>1, <1>5, <1>6, <1>8, <1>9, LastCommit DEF FInv, FTypeOK

LEMMA CommitSignatureStep ==
  ASSUME FInv, [FNext]_allVars, NEW r \in Requests, CommitSignature(r)
  PROVE  FInv'
<1>1. job[r].op = "sign" /\ pc[r] = "idle" /\ Sound(r) BY OutsideCall DEF CommitSignature
<1>2. plan \in Plans /\ sign \in [Materials -> {"absent", "unsigned", "signed"}]
  BY DEF FInv, FTypeOK
<1>3. plan' \in Plans /\ plan'.audit = "signed"
  BY <1>2 DEF CommitSignature, Plans, AuditStatuses
<1>4. /\ sign' \in [Materials -> {"absent", "unsigned", "signed"}]
      /\ \A m \in Materials :
           sign'[m] = IF m \in job[r].signed \cup {"filing_commitment"} THEN sign[m]
                      ELSE "signed"
  BY <1>2 DEF CommitSignature
<1>5. UNCHANGED <<vars, status, log, filing, approvals>> /\ End(r)
  BY DEF CommitSignature, vars
<1>6. SignedFirst /\ ~Supplemented => AreSigned(Early)'
  BY <1>1, <1>4, MaterialFacts DEF Sound, Signs, AreSigned, Early
<1>7. Alone => status \notin {"approved", "ongoing", "ended"}
  BY <1>1 DEF Sound, SeesPlan, SigningOpen
<1>8. SignaturesStay BY <1>4 DEF SignaturesStay
<1>9. RowsAreSound' /\ (Supplemented' <=> Supplemented)
  BY <1>3, <1>5, <1>6, <1>7, <1>8, RowsWritten
<1> QED BY <1>1, <1>3, <1>4, <1>5, <1>8, <1>9, LastCommit DEF FInv, FTypeOK

LEMMA CommitPackStep ==
  ASSUME FInv, [FNext]_allVars, NEW r \in Requests, CommitPack(r)
  PROVE  FInv'
<1> DEFINE verdict == IF job[r].ok THEN "qualified" ELSE "unqualified"
           p == IF job[r].pack = "absent"
                THEN IF filing.pack = "absent" THEN verdict ELSE filing.pack
                ELSE Written(job[r].pack, verdict, filing.pack)
<1>1. job[r].op = "pack" /\ pc[r] = "idle" BY OutsideCall DEF CommitPack
<1>2. filing \in [pack : {"absent", "unqualified", "qualified"}, handed : BOOLEAN]
  BY DEF FInv, FTypeOK
<1>3. filing' = [filing EXCEPT !.pack = p] BY DEF CommitPack
<1>4. p \in {filing.pack, verdict} /\ verdict \in {"qualified", "unqualified"} BY DEF Written
<1> HIDE DEF verdict, p
<1>5. /\ filing' \in [pack : {"absent", "unqualified", "qualified"}, handed : BOOLEAN]
      /\ filing.pack # "absent" => filing'.pack # "absent"
  BY <1>2, <1>3, <1>4
<1>6. filing'.handed = filing.handed BY <1>2, <1>3
<1>7. UNCHANGED <<vars, status, log, plan, sign, approvals>> /\ End(r)
  BY DEF CommitPack, vars
<1>8. VersionHasPlan BY DEF FInv, RowsAreSound
<1>9. SignaturesStay BY <1>7 DEF SignaturesStay
<1>10. RowsAreSound' /\ (Supplemented' <=> Supplemented)
  BY <1>5, <1>6, <1>7, <1>8, <1>9, RowsWritten DEF VersionHasPlan
<1> QED BY <1>1, <1>5, <1>7, <1>9, <1>10, LastCommit DEF FInv, FTypeOK
LEMMA CommitCommitmentStep ==
  ASSUME FInv, [FNext]_allVars, NEW r \in Requests, CommitCommitment(r)
  PROVE  FInv'
<1>1. /\ UNCHANGED <<vars, status, log, pc, call, plan, filing, approvals>>
      /\ sign' = [sign EXCEPT !["filing_commitment"] = "signed"]
      /\ job[r].op \in {"commitment", "supplemented"}
  BY DEF CommitCommitment, vars
<1>2. /\ sign' \in [Materials -> {"absent", "unsigned", "signed"}]
      /\ sign'["filing_commitment"] = "signed"
      /\ \A m \in Materials \ {"filing_commitment"} : sign'[m] = sign[m]
  BY <1>1, MaterialFacts DEF FInv, FTypeOK
<1>3. SignaturesStay BY <1>2 DEF SignaturesStay
<1>4. VersionHasPlan BY DEF FInv, RowsAreSound
<1>5. RowsAreSound' /\ (Supplemented' <=> Supplemented)
  BY <1>1, <1>3, <1>4, RowsWritten DEF VersionHasPlan
<1>6. CASE job[r].op = "supplemented"
  <2>1. pc[r] = "idle" /\ End(r) BY <1>6, OutsideCall DEF CommitCommitment
  <2> QED BY <1>1, <1>2, <1>3, <1>5, <2>1, LastCommit DEF FInv, FTypeOK
<1>7. CASE job[r].op = "commitment"
  <2> DEFINE j == [job[r] EXCEPT !.op = "committed"]
  <2>1. j \in Jobs /\ j.op = "committed" /\ j.audit = job[r].audit
    BY DEF FInv, FTypeOK, Jobs, Ops
  <2>2. j.manager = job[r].manager BY DEF FInv, FTypeOK, Jobs
  <2>3. Begin(r, j) BY <1>7 DEF CommitCommitment
  <2> HIDE DEF j
  <2>4. /\ job' \in [Requests -> Jobs] /\ job'[r] = j
        /\ \A q \in Requests \ {r} : job'[q] = job[q]
    BY <2>1, <2>3, JobAfter DEF FInv
  <2>5. Sound(r) /\ pc[r] = "read" BY <1>7 DEF FInv, Sound, Agrees
  <2>6. Agrees(r)'
    BY <1>1, <1>7, <2>1, <2>2, <2>4, <2>5 DEF Sound, Agrees, Underway, Moving
  <2>7. SignedFirst => Signs(r)'
    BY <1>1, <1>2, <1>5, <1>7, <2>1, <2>4, <2>5, MaterialFacts DEF Sound, Signs, Underway,
       AreSigned
  <2>8. PackedFirst => HandsOver(r)'
    BY <1>1, <1>7, <2>5 DEF Sound, HandsOver, Underway
  <2>9. Alone => SeesPlan(r)' BY <1>1, <2>1, <2>4, <2>5 DEF Sound, SeesPlan
  <2>10. Sound(r)' BY <2>6, <2>7, <2>8, <2>9 DEF Sound, SignedFirst, PackedFirst, Alone
  <2>11. FTypeOK' BY <1>1, <1>2, <2>4 DEF FInv, FTypeOK
  <2> QED BY <1>1, <1>3, <1>5, <2>4, <2>10, <2>11, StepOf DEF SignaturesStay, Same
<1> QED BY <1>1, <1>6, <1>7

-----------------------------------------------------------------------------
(* Steps that leave every request where it is.                               *)

\* The jobs keep what they found, the plan may have been created.
LEMMA OutsideStep ==
  ASSUME FInv, [FNext]_allVars, UNCHANGED <<status, log, pc, call, filing, approvals>>,
         job' \in [Requests -> Jobs],
         \A r \in Requests : /\ job'[r].op = job[r].op /\ job'[r].manager = job[r].manager
                              /\ job'[r].audit = job[r].audit
                              /\ job'[r].signed = job[r].signed,
         plan' \in Plans,
         plan.audit # "none" => plan'.audit = plan.audit,
         plan.audit = "none" => plan'.audit \in {"none", "drafting"},
         plan'.version # "none" => plan'.audit # "none",
         sign' \in [Materials -> {"absent", "unsigned", "signed"}],
         \A m \in Materials : sign[m] = "signed" => sign'[m] = "signed"
  PROVE  FInv'
<1>1. SignaturesStay BY DEF SignaturesStay
<1>2. RowsAreSound' /\ (Supplemented' <=> Supplemented) BY <1>1, RowsWritten
<1>3. FTypeOK' BY DEF FInv, FTypeOK
<1>4. ASSUME NEW r \in Requests PROVE Sound(r)'
  <2>1. Sound(r) BY DEF FInv
  <2>2. Agrees(r)' BY <2>1 DEF Sound, Agrees, Underway
  <2>3. job[r].signed \subseteq Materials BY DEF FInv, FTypeOK, Jobs
  <2>4. SignedFirst => Signs(r)'
    BY <1>2, <2>1, <2>3, MaterialFacts DEF Sound, Signs, Underway, AreSigned
  <2>5. PackedFirst => HandsOver(r)' BY <2>1 DEF Sound, HandsOver, Underway
  <2>6. Alone => SeesPlan(r)'
    <3> SUFFICES ASSUME Alone PROVE SeesPlan(r)'
      OBVIOUS
    <3>1. CASE plan.audit = "none" /\ pc[r] = "locked"
      <4>1. <<call[r].seen, call[r].to>> \in Matrix /\ call[r].seen = status
        BY <3>1 DEF FInv, IInv, CallsAreLegal, LockProtectsDecision
      <4>2. status = "design"
        BY <3>1, <4>1, StatusFacts DEF FInv, RowsAreSound, PlanIsThere
      <4>3. job[r].audit = "none" BY <2>1, <3>1 DEF Sound, SeesPlan
      <4>4. job[r].op \notin {"submit", "sign", "rejectPlan"}
        BY <3>1, OutsideCall
      <4> QED BY <3>1, <4>1, <4>2, <4>3, <4>4 DEF SeesPlan
    <3>2. CASE plan.audit # "none" \/ pc[r] # "locked"
      BY <2>1, <3>2 DEF Sound, SeesPlan, SigningOpen
    <3> QED BY <3>1, <3>2
  <2> QED
    BY <2>2, <2>4, <2>5, <2>6 DEF Sound, SignedFirst, PackedFirst, Alone
<1>5. IInv' BY WorkflowStep DEF FInv
<1> QED BY <1>2, <1>3, <1>4, <1>5 DEF FInv

LEMMA CommitSomeFormsStep ==
  ASSUME FInv, [FNext]_allVars, NEW r \in Requests, CommitSomeForms(r)
  PROVE  FInv'
<1>1. UNCHANGED <<status, log, pc, call, plan, filing, approvals, job>>
  BY DEF CommitSomeForms, vars
<1>2. plan \in Plans /\ sign \in [Materials -> {"absent", "unsigned", "signed"}]
      /\ job \in [Requests -> Jobs]
  BY DEF FInv, FTypeOK
<1>3. PICK done \in SUBSET Forms, new \in Early :
        /\ sign[new] = "absent"
        /\ sign' = [m \in Materials |->
                      IF m \in done \ job[r].signed THEN "signed"
                      ELSE IF m = new THEN "unsigned" ELSE sign[m]]
  BY DEF CommitSomeForms, Early
<1>4. /\ sign' \in [Materials -> {"absent", "unsigned", "signed"}]
      /\ \A m \in Materials : sign[m] = "signed" => sign'[m] = "signed"
  BY <1>2, <1>3
<1>5. VersionHasPlan BY DEF FInv, RowsAreSound
<1> QED BY <1>1, <1>2, <1>4, <1>5, OutsideStep DEF VersionHasPlan
\* A material is opened, or an officer signs it.
LEMMA MaterialStep ==
  ASSUME FInv, [FNext]_allVars, NEW m \in Materials, OpenMaterial(m) \/ SignMaterial(m)
  PROVE  FInv'
<1>1. UNCHANGED <<status, log, pc, call, plan, filing, approvals, job>>
  BY DEF OpenMaterial, SignMaterial, vars
<1>2. plan \in Plans /\ sign \in [Materials -> {"absent", "unsigned", "signed"}]
      /\ job \in [Requests -> Jobs]
  BY DEF FInv, FTypeOK
<1>3. /\ sign' \in [Materials -> {"absent", "unsigned", "signed"}]
      /\ \A k \in Materials : sign[k] = "signed" => sign'[k] = "signed"
  BY <1>2 DEF OpenMaterial, SignMaterial
<1>4. VersionHasPlan BY DEF FInv, RowsAreSound
<1> QED BY <1>1, <1>2, <1>3, <1>4, OutsideStep DEF VersionHasPlan

LEMMA OpenPlanStep ==
  ASSUME FInv, [FNext]_allVars, OpenPlan
  PROVE  FInv'
<1>1. /\ UNCHANGED <<status, log, pc, call, sign, filing, approvals, job>>
      /\ plan.audit = "none"
  BY DEF OpenPlan, vars
<1>2. sign \in [Materials -> {"absent", "unsigned", "signed"}] /\ job \in [Requests -> Jobs]
  BY DEF FInv, FTypeOK
<1>3. plan' \in Plans /\ plan'.audit = "drafting"
  BY DEF OpenPlan, NoPlan, Plans, AuditStatuses
<1> QED BY <1>1, <1>2, <1>3, OutsideStep

LEMMA GenerateStep ==
  ASSUME FInv, [FNext]_allVars, Generate
  PROVE  FInv'
<1>1. UNCHANGED <<status, log, pc, call, filing, approvals>> BY DEF Generate, vars
<1>2. plan \in Plans /\ sign \in [Materials -> {"absent", "unsigned", "signed"}]
      /\ job \in [Requests -> Jobs]
  BY DEF FInv, FTypeOK
<1>3. PICK v \in {"new", "old"} :
        plan' = [plan EXCEPT !.audit = IF @ = "none" THEN "drafting" ELSE @, !.version = v]
  BY DEF Generate
<1> DEFINE w == IF plan.audit = "none" THEN "drafting" ELSE plan.audit
<1>4. plan' = [plan EXCEPT !.audit = w, !.version = v] BY <1>3
<1>5. w \in AuditStatuses /\ w # "none" BY <1>2 DEF Plans, AuditStatuses
<1> HIDE DEF w
<1>6. plan' \in Plans /\ plan'.audit = w BY <1>2, <1>4, <1>5 DEF Plans
<1>7. /\ sign' \in [Materials -> {"absent", "unsigned", "signed"}]
      /\ \A m \in Materials : sign[m] = "signed" => sign'[m] = "signed"
  BY <1>2, MaterialFacts DEF Generate
<1>8. ASSUME NEW r \in Requests
      PROVE  /\ job'[r] \in Jobs
             /\ job'[r].op = job[r].op /\ job'[r].audit = job[r].audit
             /\ job'[r].signed = job[r].signed /\ job'[r].manager = job[r].manager
  <2>1. job[r] \in Jobs BY <1>2
  <2>2. \/ job'[r] = job[r]
        \/ job'[r] = [job[r] EXCEPT !.ok = TRUE]
        \/ job'[r] = [job[r] EXCEPT !.late = TRUE]
    BY DEF Generate, Overtaken
  <2>3. [job[r] EXCEPT !.ok = TRUE] \in Jobs /\ [job[r] EXCEPT !.late = TRUE] \in Jobs
    BY <2>1 DEF Jobs
  <2>4. /\ job'[r].op = job[r].op /\ job'[r].audit = job[r].audit
        /\ job'[r].signed = job[r].signed
    BY <2>1, <2>2 DEF Jobs
  <2>5. job'[r].manager = job[r].manager BY <2>1, <2>2 DEF Jobs
  <2> QED BY <2>1, <2>2, <2>3, <2>4, <2>5
<1>9. job' \in [Requests -> Jobs] BY <1>8 DEF Generate
<1> QED BY <1>1, <1>5, <1>6, <1>7, <1>8, <1>9, OutsideStep DEF w

LEMMA UnchangedStep ==
  ASSUME FInv, [FNext]_allVars, UNCHANGED <<status, log, pc, call, fvars, job>>
  PROVE  FInv'
<1>1. plan \in Plans /\ sign \in [Materials -> {"absent", "unsigned", "signed"}]
      /\ job \in [Requests -> Jobs]
  BY DEF FInv, FTypeOK
<1>2. VersionHasPlan BY DEF FInv, RowsAreSound
<1> QED BY <1>1, <1>2, OutsideStep DEF VersionHasPlan, fvars

-----------------------------------------------------------------------------
LEMMA InitFInv == FInit => FInv
<1> SUFFICES ASSUME FInit PROVE FInv
  OBVIOUS
<1>1. IInv BY InitIInv DEF FInit
<1>2. /\ status = "none" /\ log = <<>> /\ plan = NoPlan /\ approvals = {}
      /\ \A r \in Requests : job[r] = NoJob /\ pc[r] = "idle"
  BY DEF FInit, Init
<1>3. ~Entered("filing") /\ ~Entered("supplement") /\ ~Entered("handed")
  BY <1>2 DEF Entered
<1>4. plan.audit = "none" /\ plan.version = "none" /\ plan \in Plans
  BY <1>2 DEF NoPlan, Plans, AuditStatuses
<1>5. FTypeOK BY <1>4, NoJobFacts DEF FInit, FTypeOK
<1>6. RowsAreSound
  BY <1>2, <1>3, <1>4, StatusFacts DEF RowsAreSound, ApprovalsAreDecisions, VersionHasPlan,
     SignedIsWhole, FiledIsSigned, HandoverIsRecorded, PlanIsThere, ApprovedStaysAudited
<1>7. ASSUME NEW r \in Requests PROVE Sound(r)
  BY <1>2, NoJobFacts DEF Sound, Agrees, Signs, HandsOver, SeesPlan, Underway,
     Moving
<1> QED BY <1>1, <1>5, <1>6, <1>7 DEF FInv

LEMMA FilingInvariant == FSpec => []FInv
<1>1. ASSUME FInv, [FNext]_allVars PROVE FInv'
  <2>1. ASSUME NEW r \in Requests, Passive(r) PROVE FInv'
    <3>1. UNCHANGED <<fvars, job>> BY <2>1 DEF Passive
    <3> QED
      BY <1>1, <2>1, <3>1, CreateStep, QuietPassiveStep, CommitForceStep DEF Passive
  <2>2. ASSUME NEW r \in Requests, Call(r) PROVE FInv'
    <3>1. CASE PutStatus(r) \/ SendBack(r) \/ Finalize(r) \/ Start(r)
      BY <1>1, <3>1, TransitionsStep
    <3>2. CASE Handover(r) \/ Approval(r) \/ SignCommitment(r)
      BY <1>1, <3>2, HandoverStep, ApprovalStep, SignCommitmentStep
    <3>3. CASE ForceEnd(r) \/ Submit(r) \/ RejectPlan(r) \/ SignForms(r) \/ Pack(r)
      BY <1>1, <3>3, ForceEndStep, SubmitStep, RejectPlanStep, SignFormsStep, PackStep
    <3> QED BY <2>1, <2>2, <3>1, <3>2, <3>3 DEF Call
  <2>3. ASSUME NEW r \in Requests, FProceed(r) PROVE FInv'
    <3>1. CASE SetAndLoad(r) \/ SetFails(r) \/ Commit(r) \/ CommitFails(r)
      BY <1>1, <3>1, SetAndLoadStep, EndsStep, CommitStep
    <3>2. CASE CommitSubmit(r) \/ CommitReject(r) \/ CommitSignature(r) \/ CommitPack(r)
      BY <1>1, <3>2, CommitSubmitStep, CommitRejectStep, CommitSignatureStep, CommitPackStep
    <3>3. CASE CommitSomeForms(r) \/ CommitCommitment(r)
      BY <1>1, <3>3, CommitSomeFormsStep, CommitCommitmentStep
    <3> QED BY <2>1, <2>3, <3>1, <3>2, <3>3 DEF FProceed
  <2>4. ASSUME NEW r \in Requests, Dies(r) PROVE FInv' BY <1>1, <2>4, EndsStep
  <2>5. CASE TimePasses /\ UNCHANGED <<fvars, job>>
    BY <1>1, <2>5, UnchangedStep DEF TimePasses
  <2>6. CASE UNCHANGED allVars
    BY <1>1, <2>6, UnchangedStep DEF allVars, vars
  <2> QED
    BY <1>1, <2>2, <2>3, <2>4, <2>5, <2>6, OpenPlanStep, MaterialStep, GenerateStep DEF FNext
<1> QED BY InitFInv, <1>1, PTL DEF FSpec

-----------------------------------------------------------------------------
(* Resubmission after a rejection.                                           *)

\* Unless it is late, a submission found a new version, and the rejection that stands.
Resubmits(r) ==
  job[r].op = "submit" =>
    /\ plan.audit # "none"
    /\ \/ job[r].late \/ plan.overtaken
       \/ plan.version = "new" /\ (plan.rejected => job[r].rejected)

\* An old version is one whose rejection stands, and no such plan awaits a signature.
Reviewed ==
  /\ plan.version = "old" => plan.rejected \/ plan.overtaken
  /\ plan.audit = "toSign" => plan.overtaken \/ (plan.version = "new" /\ ~plan.rejected)
  /\ \A r \in Requests : Resubmits(r)

\* A step that neither submits a plan nor begins to.
LEMMA ReviewKept ==
  ASSUME Reviewed,
         /\ plan'.version = plan.version /\ plan'.rejected = plan.rejected
         /\ plan'.overtaken = plan.overtaken,
         plan'.audit = "toSign" => plan.audit = "toSign",
         plan'.audit = "none" => plan.audit = "none",
         \A r \in Requests : job'[r] = job[r] \/ job'[r].op # "submit"
  PROVE  Reviewed'
BY DEF Reviewed, Resubmits

\* A request that goes on with another job.
LEMMA JobsBegun ==
  ASSUME FInv, NEW r \in Requests, NEW j, Begin(r, j), j.op # "submit"
  PROVE  \A q \in Requests : job'[q] = job[q] \/ job'[q].op # "submit"
BY DEF FInv, FTypeOK, Begin

LEMMA ReviewCall ==
  ASSUME FInv, Reviewed, NEW r \in Requests, Call(r), ~Submit(r)
  PROVE  Reviewed'
<1>1. UNCHANGED plan
  BY DEF Call, Passive, PutStatus, SendBack, Finalize, Start, Handover, Approval, ForceEnd,
     RejectPlan, SignForms, SignCommitment, Pack, fvars
<1>2. CASE Passive(r) \/ ForceEnd(r) BY <1>1, <1>2, ReviewKept DEF Passive, ForceEnd
<1>3. ASSUME ~(Passive(r) \/ ForceEnd(r))
      PROVE  \E j : Begin(r, j) /\ j.op # "submit"
  <2>1. CASE PutStatus(r)
    <3>1. PICK m \in BOOLEAN : Begin(r, [NoJob EXCEPT !.op = "transition", !.manager = m])
      BY <2>1 DEF PutStatus
    <3> QED BY <3>1, CallJobs DEF Ops
  <2>2. CASE SendBack(r) \/ Finalize(r) \/ Start(r)
    BY <2>2 DEF SendBack, Finalize, Start, NoJob
  <2>3. CASE Handover(r) \/ Approval(r) \/ RejectPlan(r)
    BY <2>3 DEF Handover, Approval, RejectPlan, NoJob
  <2>4. CASE SignForms(r)
    <3>1. PICK early : Begin(r, [NoJob EXCEPT !.op = "sign", !.signed = early])
      BY <2>4 DEF SignForms
    <3> DEFINE j == [NoJob EXCEPT !.op = "sign", !.signed = early]
    <3>2. j.op = "sign" BY DEF NoJob
    <3> QED BY <3>1, <3>2
  <2>5. CASE SignCommitment(r)
    <3> DEFINE j == [NoJob EXCEPT !.op = "commitment", !.manager = TRUE, !.audit = "signed"]
               k == [NoJob EXCEPT !.op = "supplemented"]
    <3>1. Begin(r, j) \/ Begin(r, k) BY <2>5 DEF SignCommitment
    <3>2. j.op = "commitment" /\ k.op = "supplemented" BY DEF NoJob
    <3> HIDE DEF j, k
    <3> QED BY <3>1, <3>2
  <2>6. CASE Pack(r)
    <3> DEFINE j == [NoJob EXCEPT !.op = "pack", !.pack = filing.pack,
                                  !.ok = (Rows # {} /\ Rows = Signed)]
    <3>1. Begin(r, j) BY <2>6 DEF Pack
    <3>2. j.op = "pack" BY DEF NoJob
    <3> QED BY <3>1, <3>2
  <2> QED BY <1>3, <2>1, <2>2, <2>3, <2>4, <2>5, <2>6 DEF Call
<1> QED BY <1>1, <1>2, <1>3, JobsBegun, ReviewKept

\* submit_security_plan_for_review lets only a new version pass after a rejection.
LEMMA ReviewSubmit ==
  ASSUME FInv, Reviewed, NEW r \in Requests, Submit(r)
  PROVE  Reviewed'
<1> DEFINE j == [NoJob EXCEPT !.op = "submit", !.audit = plan.audit,
                              !.rejected = plan.rejected]
<1>1. UNCHANGED plan /\ Begin(r, j) BY DEF Submit, fvars
<1>2. j.rejected = plan.rejected BY DEF NoJob
<1>3. plan.version \in {"old", "new"} /\ (plan.rejected => plan.version = "new")
  BY DEF Submit, FInv, FTypeOK, Plans
<1>4. plan.audit # "none" BY <1>3 DEF FInv, RowsAreSound, VersionHasPlan
<1> HIDE DEF j
<1>5. \A q \in Requests : job'[q] = IF q = r THEN j ELSE job[q]
  BY <1>1 DEF FInv, FTypeOK, Begin
<1> QED BY <1>1, <1>2, <1>3, <1>4, <1>5 DEF Reviewed, Resubmits

LEMMA ReviewCommitSubmit ==
  ASSUME FInv, Reviewed, NEW r \in Requests, CommitSubmit(r)
  PROVE  Reviewed'
<1>1. plan \in Plans /\ Resubmits(r) /\ job[r].op = "submit"
  BY DEF FInv, FTypeOK, Reviewed, CommitSubmit
<1>2. /\ plan'.version = plan.version
      /\ plan'.audit \in {plan.audit, "toSign"}
      /\ plan'.rejected = Written(job[r].rejected, FALSE, plan.rejected)
      /\ plan'.overtaken = (plan.overtaken \/ job[r].late)
  BY <1>1 DEF CommitSubmit, Plans, Written
<1>3. plan.audit # "none" /\ (plan.overtaken \/ job[r].late \/ plan.version = "new")
  BY <1>1 DEF Resubmits
<1>4. plan'.rejected => plan.rejected /\ ~job[r].rejected
  BY <1>1, <1>2, LateJobs DEF Written, Jobs, FInv, Plans
<1>5. plan'.rejected => plan'.overtaken BY <1>1, <1>2, <1>4 DEF Resubmits
<1>6. \A q \in Requests : job'[q] = job[q] \/ job'[q].op # "submit"
  BY JobsBegun, NoJobFacts DEF CommitSubmit, End, Begin
<1> QED BY <1>1, <1>2, <1>3, <1>4, <1>5, <1>6 DEF Reviewed, Resubmits

\* reject_security_plan: what was found before the rejection is late.
LEMMA ReviewCommitReject ==
  ASSUME FInv, Reviewed, NEW r \in Requests, CommitReject(r)
  PROVE  Reviewed'
<1>1. plan \in Plans /\ job[r].op = "rejectPlan" BY DEF FInv, FTypeOK, CommitReject
<1>2. plan'.audit = "drafting" /\ plan'.rejected BY <1>1 DEF CommitReject, Plans
<1>3. \A q \in Requests : job'[q].op = "submit" => job'[q].late
  BY NoJobFacts, LateJobs DEF CommitReject, Overtaken, FInv
<1> QED BY <1>2, <1>3 DEF Reviewed, Resubmits

LEMMA ReviewGenerate ==
  ASSUME FInv, Reviewed, Generate
  PROVE  Reviewed'
<1>1. plan \in Plans BY DEF FInv, FTypeOK
<1>2. PICK v \in {"new"} \cup (IF plan.rejected THEN {"old"} ELSE {}) :
        /\ plan' = [plan EXCEPT !.audit = IF @ = "none" THEN "drafting" ELSE @, !.version = v]
        /\ job' = [r \in Requests |->
                     IF job[r].op = "rejectPlan" THEN [job[r] EXCEPT !.ok = TRUE]
                     ELSE IF v = "old" THEN Overtaken[r] ELSE job[r]]
  BY DEF Generate
<1>3. /\ plan'.version = v /\ plan'.rejected = plan.rejected
      /\ plan'.overtaken = plan.overtaken /\ plan'.audit # "none"
      /\ plan'.audit = "toSign" => plan.audit = "toSign"
  BY <1>1, <1>2 DEF Plans
<1>4. ASSUME NEW q \in Requests
      PROVE  \/ job'[q].op # "submit"
             \/ job'[q].late
             \/ job'[q] = job[q] /\ v = "new"
  BY <1>2, LateJobs DEF Overtaken, FInv
<1>5. \A q \in Requests : Resubmits(q)' BY <1>3, <1>4 DEF Reviewed, Resubmits
<1> QED BY <1>2, <1>3, <1>5 DEF Reviewed

\* The commit of a transition gives a plan to sign to nobody but a manager who has signed.
LEMMA ReviewCommit ==
  ASSUME FInv, Reviewed, SignedFirst, NEW r \in Requests, Commit(r)
  PROVE  Reviewed'
<1> DEFINE a == AuditAfter(call[r].seen, call[r].to, job[r].manager)
<1>1. pc[r] = "locked" BY DEF Commit, CommitTransition
<1>2. /\ \/ /\ plan'.version = plan.version /\ plan'.rejected = plan.rejected
            /\ plan'.overtaken = plan.overtaken
         \/ job[r].audit = "none" /\ call[r].seen = "design"
      /\ plan'.version # "none" => plan.version # "none"
      /\ plan'.audit \in {plan.audit, a, "drafting"}
      /\ plan'.audit = "none" => plan.audit = "none"
      /\ job[r].audit = "none" /\ call[r].seen = "design" => plan'.audit = "drafting"
  BY <1>1, PlanAfter DEF Commit
<1>3. call[r].to = "filing" => job[r].manager
  BY <1>1 DEF FInv, Sound, Signs, Agrees, Underway
<1>4. a # "toSign" BY <1>3 DEF AuditAfter
<1>5. \A q \in Requests : job'[q] = job[q] \/ job'[q].op # "submit"
  BY JobsBegun, NoJobFacts DEF Commit, End, Begin
<1> HIDE DEF a
<1>6. CASE plan.audit = "none"
  <2>1. plan.version = "none" BY <1>6 DEF FInv, RowsAreSound, VersionHasPlan
  <2>2. \A q \in Requests : job'[q].op # "submit"
    BY <1>5, <1>6 DEF Reviewed, Resubmits
  <2>3. plan'.version = "none" /\ plan'.audit # "toSign" BY <1>2, <1>4, <1>6, <2>1
  <2> QED BY <2>2, <2>3 DEF Reviewed, Resubmits
<1>7. CASE plan.audit # "none"
  <2>1. /\ plan'.version = plan.version /\ plan'.rejected = plan.rejected
        /\ plan'.overtaken = plan.overtaken
    BY <1>2, <1>7 DEF Commit, PlanInsertConflict
  <2> QED BY <1>2, <1>4, <1>5, <2>1, ReviewKept
<1> QED BY <1>6, <1>7

LEMMA ReviewProceed ==
  ASSUME FInv, Reviewed, SignedFirst, NEW r \in Requests, FProceed(r)
  PROVE  Reviewed'
<1>1. CASE Passive(r) \/ CommitSomeForms(r)
  BY <1>1, ReviewKept DEF Passive, CommitSomeForms, fvars
<1>2. CASE SetAndLoad(r)
  <2>1. job[r] \in Jobs /\ job[r].op # "submit" /\ UNCHANGED plan
    BY <1>2, OutsideCall DEF FInv, FTypeOK, SetAndLoad, CompareAndSet, fvars
  <2> DEFINE a == IF job[r].audit = "unread" THEN plan.audit ELSE job[r].audit
             d == IF call[r].to = "supplement" THEN Signed ELSE {}
             j == [job[r] EXCEPT !.audit = a, !.signed = d]
  <2>2. Begin(r, j) BY <1>2 DEF SetAndLoad
  <2> HIDE DEF a, d
  <2>3. j.op = job[r].op BY <2>1 DEF Jobs
  <2> HIDE DEF j
  <2> QED BY <2>1, <2>2, <2>3, JobsBegun, ReviewKept
<1>3. CASE SetFails(r) \/ CommitFails(r) \/ CommitPack(r)
  <2>1. End(r) /\ UNCHANGED plan BY <1>3 DEF SetFails, CommitFails, CommitPack, fvars
  <2> QED BY <2>1, JobsBegun, NoJobFacts, ReviewKept DEF End, Begin
<1>4. CASE CommitSignature(r)
  <2>1. plan \in Plans BY DEF FInv, FTypeOK
  <2>2. /\ plan'.version = plan.version /\ plan'.rejected = plan.rejected
        /\ plan'.overtaken = plan.overtaken /\ plan'.audit = "signed" /\ End(r)
    BY <1>4, <2>1 DEF CommitSignature, Plans
  <2> QED BY <2>2, JobsBegun, NoJobFacts, ReviewKept DEF End, Begin
<1>5. CASE CommitCommitment(r)
  <2>1. job[r] \in Jobs /\ UNCHANGED plan BY <1>5 DEF FInv, FTypeOK, CommitCommitment
  <2>2. \E j : Begin(r, j) /\ j.op # "submit"
    BY <1>5, <2>1, NoJobFacts DEF CommitCommitment, End, Begin, Jobs
  <2> QED BY <2>1, <2>2, JobsBegun, ReviewKept
<1> QED
  BY <1>1, <1>2, <1>3, <1>4, <1>5, ReviewCommit, ReviewCommitSubmit, ReviewCommitReject
  DEF FProceed

LEMMA ReviewInvariant ==
  ASSUME SignedFirst
  PROVE  FSpec => []Reviewed
<1>1. FInit => Reviewed
  BY NoJobFacts DEF FInit, NoPlan, Reviewed, Resubmits
<1>2. ASSUME FInv, Reviewed, [FNext]_allVars
      PROVE  Reviewed'
  <2>1. CASE \E m \in Materials : OpenMaterial(m) \/ SignMaterial(m)
    BY <1>2, <2>1, ReviewKept DEF OpenMaterial, SignMaterial
  <2>2. CASE OpenPlan
    <3>1. plan.version = "none" BY <2>2, <1>2 DEF OpenPlan, FInv, RowsAreSound, VersionHasPlan
    <3>2. \A r \in Requests : job'[r].op # "submit"
      BY <2>2, <1>2 DEF OpenPlan, Reviewed, Resubmits
    <3>3. plan'.version = "none" /\ plan'.audit = "drafting" BY <2>2 DEF OpenPlan, NoPlan
    <3> QED BY <3>2, <3>3 DEF Reviewed, Resubmits
  <2>3. ASSUME NEW r \in Requests, Dies(r) PROVE Reviewed'
    <3>1. End(r) /\ UNCHANGED plan BY <2>3 DEF Dies, fvars
    <3> QED BY <1>2, <3>1, JobsBegun, NoJobFacts, ReviewKept DEF End, Begin
  <2>4. CASE UNCHANGED <<fvars, job>> BY <1>2, <2>4, ReviewKept DEF fvars
  <2> QED
    BY <1>2, <2>1, <2>2, <2>3, <2>4, ReviewCall, ReviewSubmit, ReviewProceed, ReviewGenerate
    DEF FNext, allVars
<1> QED BY FilingInvariant, <1>1, <1>2, PTL DEF FSpec

-----------------------------------------------------------------------------
\* Every reachable state is well typed.
THEOREM FilingTypes == FSpec => []FTypeOK
<1>1. FInv => FTypeOK BY DEF FInv
<1> QED BY FilingInvariant, <1>1, PTL

\* Every record that create_approval_record leaves matches the log entry of its decision: it
\* is committed with the transition, by the one request that wins the activity.
THEOREM ApprovalsDecide == FSpec => []ApprovalsAreDecisions
<1>1. FInv => ApprovalsAreDecisions BY DEF FInv, RowsAreSound
<1> QED BY FilingInvariant, <1>1, PTL

\* If clients do not move an activity to the filing phase by PUT /status, it gets there only
\* with the sign_status of all materials at signed, and that stays so until supplements are
\* asked for: the manager's two signatures, in commits of their own, are in order whatever is
\* between them.  Which version of a document was signed is not part of it.
THEOREM FiledStaysSigned ==
  ASSUME <<"security", "filing">> \notin DirectMoves
  PROVE  FSpec => []FiledIsSigned
<1>1. FInv => FiledIsSigned BY DEF FInv, RowsAreSound, SignedFirst
<1> QED BY FilingInvariant, <1>1, PTL

\* If clients do not hand over by PUT /status, an activity that was handed over has its
\* filing_docs row, which says so: confirm_handover commits both.
THEOREM HandoverStaysRecorded ==
  ASSUME \A s \in Statuses : <<s, "handed">> \notin DirectMoves
  PROVE  FSpec => []HandoverIsRecorded
<1>1. FInv => HandoverIsRecorded BY DEF FInv, RowsAreSound, PackedFirst
<1> QED BY FilingInvariant, <1>1, PTL

\* One request at a time, the audit_status of the plan of an approved activity is audited, and
\* nothing takes that back: the calls of TemplateService look at the status, or at a plan that
\* awaits its signature.
THEOREM ApprovedIsAudited ==
  ASSUME \A r, q \in Requests : r = q
  PROVE  FSpec => []ApprovedStaysAudited
<1>1. FInv => ApprovedStaysAudited BY DEF FInv, RowsAreSound, Alone
<1> QED BY FilingInvariant, <1>1, PTL

\* Without PUT /status to the filing phase, a rejected plan is submitted again only with a new
\* version, whoever works at the same time, unless the rejection came between the look of the
\* submission and its commit: submit_security_plan_for_review compares the two times, and its
\* commit does not look again.
THEOREM ResubmittedIsNew ==
  ASSUME <<"security", "filing">> \notin DirectMoves
  PROVE  FSpec => []ReviewedIsNew
<1>1. SignedFirst BY DEF SignedFirst
<1>2. Reviewed => ReviewedIsNew BY DEF Reviewed, ReviewedIsNew
<1> QED BY <1>1, <1>2, ReviewInvariant, PTL
=============================================================================
