--------------------------- MODULE WorkflowProofs ---------------------------
(***************************************************************************)
(* Proofs about Workflow, for any set of requests and any bound: the type  *)
(* invariant, the inductive invariant behind the safety properties, the    *)
(* finality of terminal statuses and the refinement of ActivityLifecycle.  *)
(***************************************************************************)
EXTENDS Workflow, TLAPS

\* Statuses and matrix, expanded once.
LEMMA StatusFacts ==
  /\ Forced \subseteq Terminal
  /\ Terminal \subseteq Statuses
  /\ "none" \notin Statuses
  /\ "design" \in Statuses \ Terminal
  /\ "security" \in Statuses \ Terminal
  /\ "approved" \in Statuses \ Terminal
  /\ "ongoing" \in Statuses
  /\ \A s, t : <<s, t>> \in Matrix =>
       s \in Statuses \ Terminal /\ t \in Statuses \ Forced
BY DEF Forced, Terminal, Statuses, Matrix, L!Forced, L!Terminal, L!Statuses, L!Matrix

\* Every rule is a list of audiences, and so is what a commit puts in the outbox.
LEMMA AnnouncementsType ==
  ASSUME NEW s, NEW n \in Nat
  PROVE  Announcements(s, n) \in Seq(Audiences \X Nat)
<1>1. Rule(s) \in Seq(Audiences)
  <2>1. /\ <<>> \in Seq(Audiences)
        /\ \A a \in Audiences : <<a>> \in Seq(Audiences)
        /\ \A a, b \in Audiences : <<a, b>> \in Seq(Audiences)
    OBVIOUS
  <2>2. /\ Rule(s) \in {<<>>, <<"SecurityOfficer">>, <<"GovLiaison">>,
                        <<"AdminStaff", "participants">>,
                        <<"AdminStaff", "SecurityOfficer">>, <<"AdminStaff">>}
    BY DEF Rule
  <2> QED
    BY <2>1, <2>2 DEF Audiences
<1>2. Len(Rule(s)) \in Nat /\ \A i \in 1..Len(Rule(s)) : Rule(s)[i] \in Audiences
  BY <1>1
<1>3. [i \in 1..Len(Rule(s)) |-> <<Rule(s)[i], n>>] \in Seq(Audiences \X Nat)
  BY <1>2
<1>4. <<>> \in Seq(Audiences \X Nat)
  OBVIOUS
<1> QED
  BY <1>3, <1>4 DEF Announcements

\* The elements of a sequence over R are in R.
LEMMA SeqElement ==
  ASSUME NEW R, NEW q \in Seq(R), NEW i \in 1..Len(q)
  PROVE  q[i] \in R
OBVIOUS

\* The entries of a well-typed log, and the last of them.
LEMMA LogEntries ==
  ASSUME TypeOK
  PROVE  /\ Len(log) \in Nat
         /\ \A i \in 1..Len(log) : log[i] \in [from : Statuses, to : Statuses]
         /\ log # <<>> => Len(log) \in 1..Len(log)
<1>1. log \in Seq([from : Statuses, to : Statuses]) BY DEF TypeOK
<1>2. \A i \in 1..Len(log) : log[i] \in [from : Statuses, to : Statuses]
  BY <1>1, SeqElement
<1> QED BY <1>1, <1>2

\* What a request that is under way may hold.
CallsAreLegal ==
  \A r \in Requests :
    /\ pc[r] \in {"read", "locked"} => <<call[r].seen, call[r].to>> \in Matrix
    /\ pc[r] = "force" => call[r].to \in Forced /\ call[r].seen \in Statuses
    /\ pc[r] \in {"read", "locked", "force"} => status # "none"

IInv ==
  /\ TypeOK
  /\ LogExplainsStatus
  /\ TransitionsChain
  /\ ArchivedIsOver
  /\ LockProtectsDecision
  /\ CallsAreLegal

\* Writing a status appends one entry and keeps the types.
LEMMA WriteStatusType ==
  ASSUME TypeOK, NEW r \in Requests, WriteStatus(r),
         call[r].to \in Statuses, call[r].seen \in Statuses
  PROVE  /\ status' \in Statuses
         /\ log' \in Seq([from : Statuses, to : Statuses])
         /\ Len(log') = Len(log) + 1
         /\ pc' \in [Requests -> PCs]
         /\ call' \in [Requests -> Calls]
         /\ outbox' \in [Requests -> Seq(Audiences \X Nat)]
<1> USE DEF WriteStatus
<1>1. log \in Seq([from : Statuses, to : Statuses]) BY DEF TypeOK
<1>2. [from |-> call[r].seen, to |-> call[r].to] \in [from : Statuses, to : Statuses]
  OBVIOUS
<1>3. log' \in Seq([from : Statuses, to : Statuses]) /\ Len(log') = Len(log) + 1
  BY <1>1, <1>2
<1>4. Announcements(call[r].to, Len(log')) \in Seq(Audiences \X Nat)
  BY <1>3, AnnouncementsType
<1>5. outbox' \in [Requests -> Seq(Audiences \X Nat)]
  BY <1>4 DEF TypeOK
<1>6. pc' \in [Requests -> PCs]
  BY DEF TypeOK, PCs
<1>7. call' \in [Requests -> Calls]
  BY DEF TypeOK, NoCall, Calls
<1> QED
  BY <1>3, <1>5, <1>6, <1>7

LEMMA ReturnType ==
  ASSUME TypeOK, NEW r \in Requests, Return(r)
  PROVE  /\ pc' \in [Requests -> PCs]
         /\ call' \in [Requests -> Calls]
         /\ outbox' \in [Requests -> Seq(Audiences \X Nat)]
<1>1. <<>> \in Seq(Audiences \X Nat)
  OBVIOUS
<1>2. NoCall \in Calls
  BY DEF NoCall, Calls
<1> QED
  BY <1>1, <1>2 DEF TypeOK, Return, PCs

\* Type correctness, step by step; a commit needs the call to be legal.
LEMMA TypeStep ==
  ASSUME TypeOK, CallsAreLegal, [Next]_vars
  PROVE  TypeOK'
<1> USE StatusFacts
<1>1. CASE TimePasses
  BY <1>1 DEF TimePasses, TypeOK
<1>2. ASSUME NEW r \in Requests, Create(r) PROVE TypeOK'
  BY <1>2 DEF Create, TypeOK, PCs
<1>3. ASSUME NEW r \in Requests, NEW to \in Statuses, ReadForTransition(r, to)
      PROVE  TypeOK'
  <2>1. [to |-> to, seen |-> status] \in Calls
    BY LogEntries DEF TypeOK, Calls
  <2> QED BY <1>3, <2>1 DEF ReadForTransition, TypeOK, PCs
<1>4. ASSUME NEW r \in Requests, NEW to \in Forced, ReadForForce(r, to)
      PROVE  TypeOK'
  <2>1. [to |-> to, seen |-> status] \in Calls
    BY LogEntries DEF TypeOK, Calls
  <2> QED BY <1>4, <2>1 DEF ReadForForce, TypeOK, PCs
<1>5. ASSUME NEW r \in Requests, CreateLog(r) PROVE TypeOK'
  <2>1. Len(log) \in Nat BY DEF TypeOK
  <2> QED BY <1>5, <2>1, ReturnType DEF CreateLog, TypeOK
<1>6. ASSUME NEW r \in Requests, CompareAndSet(r) PROVE TypeOK'
  BY <1>6 DEF CompareAndSet, TypeOK, PCs
<1>7. ASSUME NEW r \in Requests, CompareAndSetFails(r) PROVE TypeOK'
  BY <1>7, ReturnType DEF CompareAndSetFails, TypeOK
<1>8. ASSUME NEW r \in Requests, CommitTransition(r) PROVE TypeOK'
  <2>1. call[r].to \in Statuses /\ call[r].seen \in Statuses
    BY <1>8 DEF CommitTransition, CallsAreLegal
  <2> QED BY <1>8, <2>1, WriteStatusType DEF CommitTransition, TypeOK
<1>9. ASSUME NEW r \in Requests, CommitForce(r) PROVE TypeOK'
  <2>1. call[r].to \in Statuses /\ call[r].seen \in Statuses
    BY <1>9 DEF CommitForce, CallsAreLegal
  <2>2. Len(log') \in Nat
    BY <1>9, <2>1, WriteStatusType DEF CommitForce, TypeOK
  <2> QED BY <1>9, <2>1, <2>2, WriteStatusType DEF CommitForce, TypeOK
<1>10. ASSUME NEW r \in Requests, Notify(r) PROVE TypeOK'
  <2>1. outbox[r] \in Seq(Audiences \X Nat) /\ outbox[r] # <<>>
    BY <1>10 DEF Notify, TypeOK
  <2>2. Head(outbox[r]) \in Audiences \X Nat /\ Tail(outbox[r]) \in Seq(Audiences \X Nat)
    BY <2>1
  <2> QED BY <1>10, <2>2 DEF Notify, TypeOK
<1>11. ASSUME NEW r \in Requests, Answer(r) PROVE TypeOK'
  BY <1>11, ReturnType DEF Answer, TypeOK
<1>12. ASSUME NEW r \in Requests, Abandon(r) PROVE TypeOK'
  BY <1>12, ReturnType DEF Abandon, RollBack, TypeOK
<1>13. CASE UNCHANGED vars
  BY <1>13 DEF vars, TypeOK
<1> QED
  BY <1>1, <1>2, <1>3, <1>4, <1>5, <1>6, <1>7, <1>8, <1>9, <1>10, <1>11, <1>12, <1>13
  DEF Next, UpdateStatus, Reject, AutoStart, Proceed

\* What a commit of status s, decided on the status `seen`, does to the log.
LEMMA Appended ==
  ASSUME TypeOK, NEW r \in Requests, WriteStatus(r),
         call[r].to \in Statuses, call[r].seen \in Statuses
  PROVE  /\ Len(log') = Len(log) + 1
         /\ log' # <<>>
         /\ \A i \in 1..Len(log) : log'[i] = log[i]
         /\ log'[Len(log')] = [from |-> call[r].seen, to |-> call[r].to]
         /\ status' = log'[Len(log')].to
<1>1. log \in Seq([from : Statuses, to : Statuses]) BY DEF TypeOK
<1>2. Len(log) \in Nat BY <1>1
<1>3. log' = Append(log, [from |-> call[r].seen, to |-> call[r].to])
  BY DEF WriteStatus
<1>4. [from |-> call[r].seen, to |-> call[r].to] \in [from : Statuses, to : Statuses]
  OBVIOUS
<1>5. /\ Len(log') = Len(log) + 1
      /\ \A i \in 1..Len(log) : log'[i] = log[i]
      /\ log'[Len(log) + 1] = [from |-> call[r].seen, to |-> call[r].to]
  BY <1>1, <1>3, <1>4
<1>6. log' # <<>>
  BY <1>2, <1>5
<1> QED
  BY <1>5, <1>6 DEF WriteStatus

\* The steps that neither write the status nor touch the log.
Quiet ==
  /\ UNCHANGED <<log, archive>>
  /\ status' = status \/ (status = "none" /\ status' = "design")

\* Every step is quiet, a transition's commit or a forced end's commit.
LEMMA StepKinds ==
  ASSUME [Next]_vars
  PROVE  \/ Quiet
         \/ \E r \in Requests : CommitTransition(r)
         \/ \E r \in Requests : CommitForce(r)
BY DEF Next, vars, UpdateStatus, Reject, AutoStart, Proceed, TimePasses, Create,
       ReadForTransition, ReadForForce, CreateLog, CompareAndSet, CompareAndSetFails,
       Notify, Answer, Abandon, RollBack, Return, Quiet

\* A transition's commit applies to the status the request decided on.
LEMMA CommitFacts ==
  ASSUME IInv, NEW r \in Requests, CommitTransition(r)
  PROVE  /\ WriteStatus(r)
         /\ <<status, call[r].to>> \in Matrix
         /\ call[r].seen = status
         /\ call[r].seen \in Statuses \ Terminal
         /\ call[r].to \in Statuses \ Forced
         /\ status # "none"
<1>1. pc[r] = "locked" /\ WriteStatus(r) BY DEF CommitTransition
<1>2. call[r].seen = status BY <1>1 DEF IInv, LockProtectsDecision
<1>3. <<call[r].seen, call[r].to>> \in Matrix /\ status # "none"
  BY <1>1 DEF IInv, CallsAreLegal
<1> QED BY <1>1, <1>2, <1>3, StatusFacts

LEMMA ForceFacts ==
  ASSUME IInv, NEW r \in Requests, CommitForce(r)
  PROVE  /\ WriteStatus(r)
         /\ call[r].to \in Forced
         /\ call[r].to \in Statuses
         /\ call[r].seen \in Statuses
         /\ archive' = archive \cup {Len(log')}
         /\ status # "none"
BY StatusFacts DEF CommitForce, IInv, CallsAreLegal

LEMMA LogStep ==
  ASSUME IInv, [Next]_vars
  PROVE  LogExplainsStatus' /\ TransitionsChain' /\ ArchivedIsOver'
<1> USE StatusFacts
<1>0. log \in Seq([from : Statuses, to : Statuses]) /\ Len(log) \in Nat
  BY DEF IInv, TypeOK
<1>1. CASE Quiet
  <2>1. status = "none" => log = <<>>
    <3>1. ASSUME log # <<>> PROVE status \in Statuses
      <4>2. log[Len(log)] \in [from : Statuses, to : Statuses]
        BY <3>1, LogEntries DEF IInv
      <4>3. status = log[Len(log)].to BY <3>1 DEF IInv, LogExplainsStatus
      <4> QED BY <4>2, <4>3
    <3> QED BY <3>1
  <2>2. LogExplainsStatus' BY <1>1, <2>1 DEF IInv, LogExplainsStatus, Quiet
  <2>3. TransitionsChain' BY <1>1 DEF IInv, TransitionsChain, Quiet
  <2>4. ArchivedIsOver' BY <1>1 DEF IInv, ArchivedIsOver, Quiet
  <2> QED BY <2>2, <2>3, <2>4
<1>2. ASSUME NEW r \in Requests, CommitTransition(r)
      PROVE  LogExplainsStatus' /\ TransitionsChain' /\ ArchivedIsOver'
  <2>1. /\ WriteStatus(r)
        /\ <<status, call[r].to>> \in Matrix
        /\ call[r].seen = status
        /\ call[r].seen \in Statuses \ Terminal
        /\ call[r].to \in Statuses \ Forced
    BY <1>2, CommitFacts
  <2>2. /\ Len(log') = Len(log) + 1
        /\ log' # <<>>
        /\ \A i \in 1..Len(log) : log'[i] = log[i]
        /\ log'[Len(log')] = [from |-> call[r].seen, to |-> call[r].to]
        /\ status' = log'[Len(log')].to
    BY <2>1, Appended DEF IInv
  <2>3. LogExplainsStatus' BY <2>2 DEF LogExplainsStatus
  <2>4. TransitionsChain'
    <3> SUFFICES ASSUME NEW i \in 1..Len(log'), log'[i].to \notin Forced
                 PROVE  /\ <<log'[i].from, log'[i].to>> \in Matrix
                        /\ log'[i].from = IF i = 1 THEN "design" ELSE log'[i - 1].to
      BY DEF TransitionsChain
    <3>1. CASE i \in 1..Len(log)
      <4>1. i # 1 => i - 1 \in 1..Len(log) BY <1>0, <3>1
      <4> QED BY <3>1, <4>1, <2>2 DEF IInv, TransitionsChain
    <3>2. CASE i = Len(log) + 1
      <4>1. log'[i].from = status /\ <<log'[i].from, log'[i].to>> \in Matrix
        BY <3>2, <2>1, <2>2
      <4>2. CASE log = <<>>
        <5>1. i = 1 BY <3>2, <4>2
        <5>2. status = "design"
          BY <4>2, <2>1 DEF IInv, LogExplainsStatus
        <5> QED BY <4>1, <5>1, <5>2
      <4>3. CASE log # <<>>
        <5>1. i # 1 /\ i - 1 = Len(log) /\ i - 1 \in 1..Len(log)
          BY <1>0, <3>2, <4>3
        <5>2. status = log[Len(log)].to
          BY <4>3 DEF IInv, LogExplainsStatus
        <5> QED BY <4>1, <5>1, <5>2, <2>2
      <4> QED BY <4>2, <4>3
    <3> QED BY <1>0, <2>2, <3>1, <3>2
  <2>5. ArchivedIsOver'
    <3>1. archive = {} BY <2>1 DEF IInv, ArchivedIsOver
    <3> QED BY <1>2, <3>1 DEF CommitTransition, ArchivedIsOver
  <2> QED BY <2>3, <2>4, <2>5
<1>3. ASSUME NEW r \in Requests, CommitForce(r)
      PROVE  LogExplainsStatus' /\ TransitionsChain' /\ ArchivedIsOver'
  <2>1. /\ WriteStatus(r)
        /\ call[r].to \in Forced /\ call[r].to \in Statuses
        /\ call[r].seen \in Statuses
        /\ archive' = archive \cup {Len(log')}
    BY <1>3, ForceFacts
  <2>2. /\ Len(log') = Len(log) + 1
        /\ log' # <<>>
        /\ \A i \in 1..Len(log) : log'[i] = log[i]
        /\ log'[Len(log')] = [from |-> call[r].seen, to |-> call[r].to]
        /\ status' = log'[Len(log')].to
    BY <2>1, Appended DEF IInv
  <2>3. LogExplainsStatus' BY <2>2 DEF LogExplainsStatus
  <2>4. TransitionsChain'
    <3> SUFFICES ASSUME NEW i \in 1..Len(log'), log'[i].to \notin Forced
                 PROVE  /\ <<log'[i].from, log'[i].to>> \in Matrix
                        /\ log'[i].from = IF i = 1 THEN "design" ELSE log'[i - 1].to
      BY DEF TransitionsChain
    <3>1. i \in 1..Len(log) BY <1>0, <2>1, <2>2
    <3>2. i # 1 => i - 1 \in 1..Len(log) BY <1>0, <3>1
    <3> QED BY <3>1, <3>2, <2>2 DEF IInv, TransitionsChain
  <2>5. ArchivedIsOver'
    <3>1. Len(log') \in 1..Len(log') /\ log'[Len(log')].to \in Forced
      BY <1>0, <2>1, <2>2
    <3>2. ASSUME NEW i \in archive
          PROVE  i \in 1..Len(log') /\ log'[i].to \in Forced
      <4>1. i \in 1..Len(log) /\ log[i].to \in Forced BY DEF IInv, ArchivedIsOver
      <4> QED BY <1>0, <4>1, <2>2
    <3>3. status' \in Terminal BY <2>1, <2>2
    <3> QED BY <2>1, <3>1, <3>2, <3>3 DEF ArchivedIsOver
  <2> QED BY <2>3, <2>4, <2>5
<1> QED
  BY <1>1, <1>2, <1>3, StepKinds

\* The row lock is held by exactly the request between its conditional write and
\* its commit, and the status cannot move under it.
LEMMA LockStep ==
  ASSUME IInv, [Next]_vars
  PROVE  LockProtectsDecision'
<1> USE RequestsAssumption DEF IInv, LockProtectsDecision, TypeOK
<1>1. CASE TimePasses \/ UNCHANGED vars
  BY <1>1 DEF TimePasses, vars
<1>2. ASSUME NEW r \in Requests, Create(r) PROVE LockProtectsDecision'
  <2>1. \A q \in Requests : pc[q] # "locked"
    BY <1>2, StatusFacts DEF Create, CallsAreLegal
  <2> QED BY <1>2, <2>1 DEF Create
<1>3. ASSUME NEW r \in Requests, NEW to, ReadForTransition(r, to)
      PROVE  LockProtectsDecision'
  BY <1>3 DEF ReadForTransition
<1>4. ASSUME NEW r \in Requests, NEW to, ReadForForce(r, to)
      PROVE  LockProtectsDecision'
  BY <1>4 DEF ReadForForce
<1>5. ASSUME NEW r \in Requests, CreateLog(r) PROVE LockProtectsDecision'
  BY <1>5 DEF CreateLog, Return
<1>6. ASSUME NEW r \in Requests, CompareAndSet(r) PROVE LockProtectsDecision'
  BY <1>6 DEF CompareAndSet
<1>7. ASSUME NEW r \in Requests, CompareAndSetFails(r) PROVE LockProtectsDecision'
  BY <1>7 DEF CompareAndSetFails, Return
<1>8. ASSUME NEW r \in Requests, CommitTransition(r) PROVE LockProtectsDecision'
  BY <1>8 DEF CommitTransition, WriteStatus
<1>9. ASSUME NEW r \in Requests, CommitForce(r) PROVE LockProtectsDecision'
  BY <1>9 DEF CommitForce, WriteStatus
<1>10. ASSUME NEW r \in Requests, Notify(r) PROVE LockProtectsDecision'
  BY <1>10 DEF Notify
<1>11. ASSUME NEW r \in Requests, Answer(r) PROVE LockProtectsDecision'
  BY <1>11 DEF Answer, Return
<1>12. ASSUME NEW r \in Requests, Abandon(r) PROVE LockProtectsDecision'
  BY <1>12 DEF Abandon, RollBack, Return
<1> QED
  BY <1>1, <1>2, <1>3, <1>4, <1>5, <1>6, <1>7, <1>8, <1>9, <1>10, <1>11, <1>12
  DEF Next, UpdateStatus, Reject, AutoStart, Proceed

\* Calls under way keep what they decided; the activity they read still exists.
LEMMA CallsStep ==
  ASSUME IInv, [Next]_vars
  PROVE  CallsAreLegal'
<1> USE StatusFacts DEF IInv, CallsAreLegal, TypeOK
<1>1. CASE TimePasses \/ UNCHANGED vars
  BY <1>1 DEF TimePasses, vars
<1>2. ASSUME NEW r \in Requests, Create(r) PROVE CallsAreLegal'
  BY <1>2 DEF Create
<1>3. ASSUME NEW r \in Requests, NEW to \in Statuses, ReadForTransition(r, to)
      PROVE  CallsAreLegal'
  BY <1>3 DEF ReadForTransition
<1>4. ASSUME NEW r \in Requests, NEW to \in Forced, ReadForForce(r, to)
      PROVE  CallsAreLegal'
  BY <1>4 DEF ReadForForce
<1>5. ASSUME NEW r \in Requests, CreateLog(r) PROVE CallsAreLegal'
  BY <1>5 DEF CreateLog, Return
<1>6. ASSUME NEW r \in Requests, CompareAndSet(r) PROVE CallsAreLegal'
  BY <1>6 DEF CompareAndSet
<1>7. ASSUME NEW r \in Requests, CompareAndSetFails(r) PROVE CallsAreLegal'
  BY <1>7 DEF CompareAndSetFails, Return
<1>8. ASSUME NEW r \in Requests, CommitTransition(r) PROVE CallsAreLegal'
  <2>1. WriteStatus(r) /\ call[r].to \in Statuses BY <1>8, CommitFacts
  <2> QED BY <2>1 DEF WriteStatus
<1>9. ASSUME NEW r \in Requests, CommitForce(r) PROVE CallsAreLegal'
  <2>1. WriteStatus(r) /\ call[r].to \in Statuses BY <1>9, ForceFacts
  <2> QED BY <2>1 DEF WriteStatus
<1>10. ASSUME NEW r \in Requests, Notify(r) PROVE CallsAreLegal'
  BY <1>10 DEF Notify
<1>11. ASSUME NEW r \in Requests, Answer(r) PROVE CallsAreLegal'
  BY <1>11 DEF Answer, Return
<1>12. ASSUME NEW r \in Requests, Abandon(r) PROVE CallsAreLegal'
  BY <1>12 DEF Abandon, RollBack, Return
<1> QED
  BY <1>1, <1>2, <1>3, <1>4, <1>5, <1>6, <1>7, <1>8, <1>9, <1>10, <1>11, <1>12
  DEF Next, UpdateStatus, Reject, AutoStart, Proceed

LEMMA InitIInv == Init => IInv
<1> SUFFICES ASSUME Init PROVE IInv
  OBVIOUS
<1> USE DEF Init
<1>1. TypeOK
  <2>1. \A S : <<>> \in Seq(S)
    OBVIOUS
  <2>2. log \in Seq([from : Statuses, to : Statuses]) BY <2>1
  <2>3. outbox \in [Requests -> Seq(Audiences \X Nat)] BY <2>1
  <2>4. call \in [Requests -> Calls]
    BY DEF NoCall, Calls
  <2> QED BY <2>2, <2>3, <2>4 DEF TypeOK, PCs
<1>2. LogExplainsStatus /\ TransitionsChain /\ ArchivedIsOver
  BY DEF LogExplainsStatus, TransitionsChain, ArchivedIsOver
<1>3. LockProtectsDecision /\ CallsAreLegal
  BY RequestsAssumption DEF LockProtectsDecision, CallsAreLegal
<1> QED BY <1>1, <1>2, <1>3 DEF IInv

\* The inductive invariant: types, the log explains the status, transitions
\* chain, an archived activity is over, the lock protects the decision.
THEOREM Inductive == Spec => []IInv
<1>1. IInv /\ [Next]_vars => IInv'
  <2> SUFFICES ASSUME IInv, [Next]_vars PROVE IInv'
    OBVIOUS
  <2> QED BY TypeStep, LogStep, LockStep, CallsStep DEF IInv
<1> QED
  BY InitIInv, <1>1, PTL DEF Spec

\* A request between its conditional write and its commit has the activity's row to
\* itself: the status is still the one it compared.
THEOREM LockHolds == Spec => []LockProtectsDecision
<1>1. IInv => LockProtectsDecision BY DEF IInv
<1> QED BY Inductive, <1>1, PTL

\* Rows, log and requests keep their types.
THEOREM TypeCorrect == Spec => []TypeOK
<1>1. IInv => TypeOK BY DEF IInv
<1> QED BY Inductive, <1>1, PTL

\* The log explains the status: workflow_service writes both in one commit.
THEOREM LogExplains == Spec => []LogExplainsStatus
<1>1. IInv => LogExplainsStatus BY DEF IInv
<1> QED BY Inductive, <1>1, PTL

\* No transition is applied to a status other than the one it was decided on,
\* whatever the number of requests: the conditional UPDATE of transition.
THEOREM Chain == Spec => []TransitionsChain
<1>1. IInv => TransitionsChain BY DEF IInv
<1> QED BY Inductive, <1>1, PTL

\* An activity with an implementation record is over.
THEOREM Archived == Spec => []ArchivedIsOver
<1>1. IInv => ArchivedIsOver BY DEF IInv
<1> QED BY Inductive, <1>1, PTL

\* No stale request brings back an activity that is over.
THEOREM Final == Spec => TerminalIsFinal
<1>1. IInv /\ [Next]_vars => [(status \in Terminal) => (status' \in Terminal)]_vars
  <2> SUFFICES ASSUME IInv, [Next]_vars, status \in Terminal
               PROVE  status' \in Terminal
    OBVIOUS
  <2>1. CASE Quiet
    BY <2>1, StatusFacts DEF Quiet
  <2>2. ASSUME NEW r \in Requests, CommitTransition(r) PROVE status' \in Terminal
    BY <2>2, CommitFacts
  <2>3. ASSUME NEW r \in Requests, CommitForce(r) PROVE status' \in Terminal
    BY <2>3, ForceFacts, StatusFacts DEF WriteStatus
  <2> QED BY <2>1, <2>2, <2>3, StepKinds
<1> QED
  BY Inductive, <1>1, PTL DEF Spec, TerminalIsFinal

-----------------------------------------------------------------------------
(* Refinement.                                                              *)

\* The trail shown by the log: the statuses in the order they were entered.
Trail == IF status = "none" THEN <<>>
         ELSE [i \in 1..(Len(log) + 1) |-> IF i = 1 THEN "design" ELSE log[i - 1].to]

\* A commit adds its target to the trail.
LEMMA TrailGrows ==
  ASSUME IInv, status # "none", NEW r \in Requests, WriteStatus(r),
         call[r].to \in Statuses, call[r].seen \in Statuses
  PROVE  Trail' = Append(Trail, status') /\ status' \in Statuses
<1>1. /\ Len(log) \in Nat
      /\ \A i \in 1..Len(log) : log[i].to \in Statuses
  BY LogEntries DEF IInv
<1>2. /\ Len(log') = Len(log) + 1
      /\ \A i \in 1..Len(log) : log'[i] = log[i]
      /\ log'[Len(log')] = [from |-> call[r].seen, to |-> call[r].to]
      /\ status' = log'[Len(log')].to
  BY Appended DEF IInv
<1>3. status' \in Statuses /\ status' # "none" BY StatusFacts DEF WriteStatus
<1> DEFINE n == Len(log) + 1
           T == [i \in 1..n |-> IF i = 1 THEN "design" ELSE log[i - 1].to]
<1>4. n \in Nat /\ n >= 1 BY <1>1
<1>5. T \in [1..n -> Statuses]
  <2> SUFFICES ASSUME NEW i \in 1..n
               PROVE  (IF i = 1 THEN "design" ELSE log[i - 1].to) \in Statuses
    OBVIOUS
  <2>1. i # 1 => i - 1 \in 1..Len(log) BY <1>1, <1>4
  <2> QED BY <1>1, <2>1, StatusFacts
<1>6. T \in Seq(Statuses) /\ Len(T) = n BY <1>4, <1>5
<1>7. Append(T, status') = [i \in 1..(n + 1) |-> IF i = n + 1 THEN status' ELSE T[i]]
  BY <1>3, <1>4, <1>6
<1>8. Trail = T BY DEF Trail
<1>9. Trail' = [i \in 1..(n + 1) |-> IF i = 1 THEN "design" ELSE log'[i - 1].to]
  BY <1>2, <1>3 DEF Trail
<1>10. ASSUME NEW i \in 1..(n + 1)
       PROVE  (IF i = 1 THEN "design" ELSE log'[i - 1].to)
                = (IF i = n + 1 THEN status' ELSE T[i])
  <2>1. CASE i = n + 1
    <3>1. i # 1 /\ i - 1 = Len(log') BY <1>1, <1>2, <1>4, <2>1
    <3> QED BY <1>2, <2>1, <3>1
  <2>2. CASE i \in 1..n
    <3>1. i # n + 1 BY <1>4, <2>2
    <3>2. i # 1 => i - 1 \in 1..Len(log) BY <1>1, <2>2
    <3> QED BY <1>2, <2>2, <3>1, <3>2
  <2> QED BY <1>4, <2>1, <2>2
<1>11. Trail' = Append(T, status')
  <2> HIDE DEF T
  <2> QED BY <1>7, <1>9, <1>10
<1> QED BY <1>3, <1>8, <1>11

\* Every behaviour of the requests, seen through the row and its log, is a life
\* of ActivityLifecycle.
THEOREM Refinement == Spec => Lifecycle
<1>1. Init => L!AInit
  BY DEF Init, L!AInit
<1>2. IInv /\ [Next]_vars => [L!ANext]_L!avars
  <2> SUFFICES ASSUME IInv, [Next]_vars
               PROVE  L!ANext \/ UNCHANGED L!avars
    OBVIOUS
  <2> USE DEF L!avars, L!ANext, L!Enter
  <2>1. CASE Quiet
    <3>1. CASE status' = status
      BY <2>1, <3>1 DEF Quiet
    <3>2. CASE status = "none" /\ status' = "design"
      <4>1. log = <<>>
        <5>2. ASSUME log # <<>> PROVE FALSE
          <6>2. log[Len(log)] \in [from : Statuses, to : Statuses]
            BY <5>2, LogEntries DEF IInv
          <6>3. status = log[Len(log)].to BY <5>2 DEF IInv, LogExplainsStatus
          <6> QED BY <3>2, <6>2, <6>3, StatusFacts
        <5> QED BY <5>2
      <4>2. Trail = <<>> /\ Trail' = Append(<<>>, "design")
        <5>1. log' = <<>> BY <2>1, <4>1 DEF Quiet
        <5>2. Len(log') + 1 = 1 BY <5>1
        <5>3. Trail' = [i \in 1..1 |-> IF i = 1 THEN "design" ELSE log'[i - 1].to]
          BY <3>2, <5>2 DEF Trail
        <5>4. Append(<<>>, "design") = [i \in 1..1 |-> "design"] OBVIOUS
        <5>5. Trail' = [i \in 1..1 |-> "design"] BY <5>3
        <5> QED BY <3>2, <5>4, <5>5 DEF Trail
      <4> QED BY <3>2, <4>2 DEF L!Create, Trail
    <3> QED BY <2>1, <3>1, <3>2 DEF Quiet
  <2>2. ASSUME NEW r \in Requests, CommitTransition(r) PROVE L!ANext
    <3>1. /\ WriteStatus(r) /\ status # "none"
          /\ <<status, call[r].to>> \in Matrix
          /\ call[r].seen \in Statuses /\ call[r].to \in Statuses
      BY <2>2, CommitFacts
    <3>2. Trail' = Append(Trail, status') /\ status' = call[r].to
      BY <3>1, TrailGrows DEF WriteStatus
    <3>3. L!Advance BY <3>1, <3>2 DEF L!Advance, Trail, Matrix, Statuses
    <3> QED BY <3>3
  <2>3. ASSUME NEW r \in Requests, CommitForce(r) PROVE L!ANext
    <3>1. /\ WriteStatus(r) /\ status # "none"
          /\ call[r].to \in Forced
          /\ call[r].seen \in Statuses /\ call[r].to \in Statuses
      BY <2>3, ForceFacts
    <3>2. Trail' = Append(Trail, status') /\ status' = call[r].to
      BY <3>1, TrailGrows DEF WriteStatus
    <3>3. L!Close BY <3>1, <3>2 DEF L!Close, Trail, Forced
    <3> QED BY <3>3
  <2> QED BY <2>1, <2>2, <2>3, StepKinds
<1> QED
  BY Inductive, <1>1, <1>2, PTL DEF Spec, Lifecycle, L!ASpec
=============================================================================
