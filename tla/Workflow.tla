------------------------------ MODULE Workflow ------------------------------
(***************************************************************************)
(* WorkflowService and the status-writing part of ActivityService, for one *)
(* activity row shared by concurrent requests.                             *)
(*                                                                         *)
(* Every request has its own database session.  It reads the activity,     *)
(* decides on what it read, and writes later; other requests run between   *)
(* the two.  `transition` writes with UPDATE ... WHERE status = <what was  *)
(* read>, which takes the row lock until commit; `_force_terminal` writes  *)
(* without that condition.  Notifications are sent after the commit, each  *)
(* in a transaction of its own.                                            *)
(*                                                                         *)
(* A call that fails its guards writes nothing and is not a step.  The     *)
(* check that the designer has a phone number is such a guard: users'      *)
(* contact data is not modelled, so a request may be refused at any time   *)
(* before its commit (Abandon).                                            *)
(***************************************************************************)
EXTENDS Naturals, Sequences, FiniteSets

CONSTANTS
  Requests,   \* concurrent requests, one session each
  MaxLog,     \* bound of the model: no new call once that many entries are due
  Crashes,    \* whether a request may die (worker killed, exception raised)
  Announcing  \* FALSE leaves the notifications out: nothing else reads them

ASSUME RequestsAssumption == "nobody" \notin Requests
ASSUME MaxLogAssumption == MaxLog \in Nat
ASSUME SwitchesAssumption == Crashes \in BOOLEAN /\ Announcing \in BOOLEAN

VARIABLES
  status,       \* activities.status, "none" before the row exists
  log,          \* activity_status_log, the entries written by status changes
  createdLog,   \* whether the log has its first entry, that of the creation
  archive,      \* implementation_records, by the index of their log entry
  due,          \* whether estimated_time has passed
  lock,         \* holder of the activity's row lock
  pc,           \* where each request is
  call,         \* what it was asked to do and the status it read
  outbox,       \* notifications it still has to send
  notices       \* notifications stored, as <<audience, log entry>>

vars == <<status, log, createdLog, archive, due, lock, pc, call, outbox, notices>>

-----------------------------------------------------------------------------
L == INSTANCE ActivityLifecycle WITH
       phase <- status,
       trail <- IF status = "none" THEN <<>>
                ELSE [i \in 1..(Len(log) + 1) |->
                        IF i = 1 THEN "design" ELSE log[i - 1].to]

Matrix == L!Matrix
Forced == L!Forced
Terminal == L!Terminal
Statuses == L!Statuses

Audiences == {"SecurityOfficer", "GovLiaison", "AdminStaff", "participants"}

\* Variant: the role name of the administrators is misspelt.
RuleWithUnknownRole(s) ==
  CASE s \in {"security", "filing", "supplement"} -> <<"SecurityOfficer">>
    [] s = "handed"                 -> <<"GovLiaison">>
    [] s = "approved"               -> <<"Administrator", "participants">>
    [] s = "refused"                -> <<"Administrator", "SecurityOfficer">>
    [] s \in {"ended"} \cup Forced  -> <<"Administrator">>
    [] OTHER                        -> <<>>

\* NOTIFICATION_RULES: the roles told of each new status, in sending order.  An
\* approval is also announced to the owner, the designer, the plan's manager and
\* everybody in the log ("participants", sent one by one in the code).
Rule(s) ==
  CASE s \in {"security", "filing", "supplement"} -> <<"SecurityOfficer">>
    [] s = "handed"                 -> <<"GovLiaison">>
    [] s = "approved"               -> <<"AdminStaff", "participants">>
    [] s = "refused"                -> <<"AdminStaff", "SecurityOfficer">>
    [] s \in {"ended"} \cup Forced  -> <<"AdminStaff">>
    [] OTHER                        -> <<>>

\* What is left to send after entry n brought status s.
Announcements(s, n) ==
  IF Announcing THEN [i \in 1..Len(Rule(s)) |-> <<Rule(s)[i], n>>] ELSE <<>>

InFlight == {r \in Requests : pc[r] \in {"read", "locked", "force"}}

Room == Len(log) + Cardinality(InFlight) < MaxLog

\* A call: the status asked for and the status read.
Calls == [to : Statuses \cup {"none"}, seen : Statuses \cup {"none"}]

NoCall == [to |-> "none", seen |-> "none"]

-----------------------------------------------------------------------------
Init ==
  /\ status = "none"
  /\ log = <<>>
  /\ createdLog = FALSE
  /\ archive = {}
  /\ due = FALSE
  /\ lock = "nobody"
  /\ pc = [r \in Requests |-> "idle"]
  /\ call = [r \in Requests |-> NoCall]
  /\ outbox = [r \in Requests |-> <<>>]
  /\ notices = {}

\* The request is over: nothing of it is left.
Return(r) ==
  /\ pc' = [pc EXCEPT ![r] = "idle"]
  /\ call' = [call EXCEPT ![r] = NoCall]
  /\ outbox' = [outbox EXCEPT ![r] = <<>>]

\* ActivityService.create: the row is committed first ...
Create(r) ==
  /\ pc[r] = "idle"
  /\ status = "none"
  /\ status' = "design"
  /\ pc' = [pc EXCEPT ![r] = "created"]
  /\ UNCHANGED <<log, createdLog, archive, due, lock, call, outbox, notices>>

\* ... and its first log entry in a second transaction.
CreateLog(r) ==
  /\ pc[r] = "created"
  /\ createdLog' = TRUE
  /\ Return(r)
  /\ UNCHANGED <<status, log, archive, due, lock, notices>>

\* Variant: transition forgets to ask can_transition.
ReadWithoutMatrix(r, to) ==
  /\ pc[r] = "idle"
  /\ status \notin Terminal \cup {"none"}
  /\ pc' = [pc EXCEPT ![r] = "read"]
  /\ call' = [call EXCEPT ![r] = [to |-> to, seen |-> status]]
  /\ UNCHANGED <<status, log, createdLog, archive, due, lock, outbox, notices>>

\* transition, up to the conditional write: everything is decided on the status
\* read here.
ReadForTransition(r, to) ==
  /\ pc[r] = "idle"
  /\ status \notin Terminal
  /\ <<status, to>> \in Matrix
  /\ pc' = [pc EXCEPT ![r] = "read"]
  /\ call' = [call EXCEPT ![r] = [to |-> to, seen |-> status]]
  /\ UNCHANGED <<status, log, createdLog, archive, due, lock, outbox, notices>>

UpdateStatus(r, to) == Room /\ ReadForTransition(r, to)

\* reject sends an activity in the security phase back to the same phase.
Reject(r) ==
  /\ status = "security"
  /\ UpdateStatus(r, "security")

\* Variant: the time comparison is reversed, so only early readers start it.
AutoStartBeforeTime(r) ==
  /\ status = "approved"
  /\ ~due
  /\ ReadForTransition(r, "ongoing")

\* Reading an approved activity whose time has come starts it.
AutoStart(r) ==
  /\ status = "approved"
  /\ due
  /\ ReadForTransition(r, "ongoing")

\* Variant: UPDATE activities SET status WHERE id, without the status read.
SetWithoutCompare(r) ==
  /\ pc[r] = "read"
  /\ lock = "nobody"
  /\ lock' = r
  /\ pc' = [pc EXCEPT ![r] = "locked"]
  /\ UNCHANGED <<status, log, createdLog, archive, due, call, outbox, notices>>

\* UPDATE activities SET status WHERE id AND status = seen: waits for the row
\* lock, then keeps it until the commit.
CompareAndSet(r) ==
  /\ pc[r] = "read"
  /\ lock = "nobody"
  /\ status = call[r].seen
  /\ lock' = r
  /\ pc' = [pc EXCEPT ![r] = "locked"]
  /\ UNCHANGED <<status, log, createdLog, archive, due, call, outbox, notices>>

\* No row matched: "the status has been changed by somebody else".
CompareAndSetFails(r) ==
  /\ pc[r] = "read"
  /\ lock = "nobody"
  /\ status # call[r].seen
  /\ Return(r)
  /\ UNCHANGED <<status, log, createdLog, archive, due, lock, notices>>

\* Variant: the session is committed before the log entry is added to it.
WriteStatusUnlogged(r) ==
  /\ status' = call[r].to
  /\ log' = log
  /\ outbox' = [outbox EXCEPT ![r] = <<>>]
  /\ pc' = [pc EXCEPT ![r] = "notify"]
  /\ call' = [call EXCEPT ![r] = NoCall]

\* Variant: the commit ends the handler before its notifications.
WriteStatusUnannounced(r) ==
  /\ status' = call[r].to
  /\ log' = Append(log, [from |-> call[r].seen, to |-> call[r].to])
  /\ outbox' = [outbox EXCEPT ![r] = <<>>]
  /\ pc' = [pc EXCEPT ![r] = "notify"]
  /\ call' = [call EXCEPT ![r] = NoCall]

\* The status and its log entry become visible together; the request goes on to
\* its notifications.
WriteStatus(r) ==
  /\ status' = call[r].to
  /\ log' = Append(log, [from |-> call[r].seen, to |-> call[r].to])
  /\ outbox' = [outbox EXCEPT ![r] = Announcements(call[r].to, Len(log'))]
  /\ pc' = [pc EXCEPT ![r] = "notify"]
  /\ call' = [call EXCEPT ![r] = NoCall]

\* Variant: the transaction is left open after the write.
CommitTransitionHoldingLock(r) ==
  /\ pc[r] = "locked"
  /\ WriteStatus(r)
  /\ UNCHANGED <<lock, createdLog, archive, due, notices>>

\* The commit releases the row lock.
CommitTransition(r) ==
  /\ pc[r] = "locked"
  /\ WriteStatus(r)
  /\ lock' = "nobody"
  /\ UNCHANGED <<createdLog, archive, due, notices>>

\* _force_terminal: the same decision on a status read earlier ...
ReadForForce(r, to) ==
  /\ Room
  /\ pc[r] = "idle"
  /\ status # "none"
  /\ status \notin Terminal
  /\ pc' = [pc EXCEPT ![r] = "force"]
  /\ call' = [call EXCEPT ![r] = [to |-> to, seen |-> status]]
  /\ UNCHANGED <<status, log, createdLog, archive, due, lock, outbox, notices>>

\* ... but the write is unconditional: it waits for the row lock and overwrites
\* whatever is there.
CommitForce(r) ==
  /\ pc[r] = "force"
  /\ lock = "nobody"
  /\ WriteStatus(r)
  /\ archive' = archive \cup {Len(log')}
  /\ UNCHANGED <<createdLog, due, lock, notices>>

\* notify_role or send_reminder: one notification, one transaction.
Notify(r) ==
  /\ pc[r] = "notify"
  /\ outbox[r] # <<>>
  /\ notices' = notices \cup {Head(outbox[r])}
  /\ outbox' = [outbox EXCEPT ![r] = Tail(outbox[r])]
  /\ UNCHANGED <<status, log, createdLog, archive, due, lock, pc, call>>

Answer(r) ==
  /\ pc[r] = "notify"
  /\ outbox[r] = <<>>
  /\ Return(r)
  /\ UNCHANGED <<status, log, createdLog, archive, due, lock, notices>>
\* Variant: a dead request keeps its transaction, and the row lock, open.
RollBackKeepingLock(r) ==
  /\ pc[r] # "idle"
  /\ Return(r)
  /\ UNCHANGED <<status, log, createdLog, archive, due, lock, notices>>

\* The worker is killed or an exception ends the request: its session closes, an
\* open transaction is rolled back and its row lock released; what it committed
\* stays, what it had still to do is lost.
RollBack(r) ==
  /\ pc[r] # "idle"
  /\ lock' = IF lock = r THEN "nobody" ELSE lock
  /\ Return(r)
  /\ UNCHANGED <<status, log, createdLog, archive, due, notices>>

Abandon(r) == Crashes /\ RollBack(r)

\* estimated_time passes; creation requires it to be in the future.
TimePasses ==
  /\ status # "none"
  /\ ~due
  /\ due' = TRUE
  /\ UNCHANGED <<status, log, createdLog, archive, lock, pc, call, outbox, notices>>

Proceed(r) ==
  \/ CreateLog(r)
  \/ CompareAndSet(r)
  \/ CompareAndSetFails(r)
  \/ CommitTransition(r)
  \/ CommitForce(r)
  \/ Notify(r)
  \/ Answer(r)

Next ==
  \/ TimePasses
  \/ \E r \in Requests :
       \/ Create(r)
       \/ \E to \in Statuses : UpdateStatus(r, to)
       \/ Reject(r)
       \/ AutoStart(r)
       \/ \E to \in Forced : ReadForForce(r, to)
       \/ Proceed(r)
       \/ Abandon(r)

Spec == Init /\ [][Next]_vars

\* A request that can run does run: the event loop schedules every ready task, and
\* PostgreSQL queues the waiters of a row lock in order of arrival, so a waiter is
\* not overtaken for ever (strong fairness).  Time passes.  Somebody keeps reading
\* the activity, which is the only thing that starts it.
FairSpec ==
  /\ Spec
  /\ \A r \in Requests : SF_vars(Proceed(r))
  /\ WF_vars(TimePasses)
  /\ WF_vars(\E r \in Requests : AutoStart(r))

-----------------------------------------------------------------------------
PCs == {"idle", "created", "read", "locked", "force", "notify"}

TypeOK ==
  /\ status \in Statuses \cup {"none"}
  /\ log \in Seq([from : Statuses, to : Statuses])
  /\ createdLog \in BOOLEAN
  /\ archive \subseteq Nat
  /\ due \in BOOLEAN
  /\ lock \in Requests \cup {"nobody"}
  /\ pc \in [Requests -> PCs]
  /\ call \in [Requests -> Calls]
  /\ outbox \in [Requests -> Seq(Audiences \X Nat)]
  /\ notices \subseteq (Audiences \X Nat)

\* The log explains the status: the last status change it records led to the
\* status in the row (transition and _force_terminal write both in one commit).
LogExplainsStatus ==
  /\ log # <<>> => status = log[Len(log)].to
  /\ log = <<>> => status \in {"none", "design"}

\* Every entry but those of _force_terminal starts where the previous one ended
\* and is a move of the matrix: no request applies a transition to a status
\* other than the one it decided on, whatever ran in between.
TransitionsChain ==
  \A i \in 1..Len(log) :
    log[i].to \notin Forced =>
      /\ <<log[i].from, log[i].to>> \in Matrix
      /\ log[i].from = IF i = 1 THEN "design" ELSE log[i - 1].to

\* An activity that left the process stays out: a request that read it before it
\* ended, was refused, cancelled or postponed cannot bring it back.
TerminalIsFinal == [][(status \in Terminal) => (status' \in Terminal)]_vars

\* An implementation record (the archive entry of a forced end) belongs to an
\* activity that is over and points at the order that closed it.
ArchivedIsOver ==
  archive # {} =>
    /\ status \in Terminal
    /\ \A i \in archive : i \in 1..Len(log) /\ log[i].to \in Forced

\* While a request is between its conditional write and its commit, nobody else
\* changes the activity under it.
LockProtectsDecision ==
  /\ \A r \in Requests : pc[r] = "locked" <=> lock = r
  /\ \A r \in Requests : pc[r] = "locked" => status = call[r].seen

\* The activity's life, told by the log, is a life of the abstract specification.
Lifecycle == L!ASpec

\* A request that was accepted comes back: no wait for the row lock is endless.
RequestsReturn == \A r \in Requests : pc[r] # "idle" ~> pc[r] = "idle"

\* Every status change is announced to everyone its rule names.
ChangesAnnounced ==
  \A n \in 1..MaxLog : \A a \in Audiences :
    (Len(log) >= n /\ \E i \in 1..Len(Rule(log[n].to)) : Rule(log[n].to)[i] = a)
      ~> <<a, n>> \in notices

\* An approved activity whose time has come does not stay in "to be held".
DueActivityLeavesApproved ==
  (status = "approved" /\ due) ~> status # "approved"
=============================================================================
