------------------------------ MODULE Accounts ------------------------------
(***************************************************************************)
(* Role requests and the administration of users: AdminService, and        *)
(* submit_role_request of AuthService.                                     *)
(*                                                                         *)
(* Every operation reads (the permission of the caller, the row it is      *)
(* about), and commits later.  The commits are unconditional: nothing is   *)
(* read again, and only PRIMARY KEY(user_id, role_id) may refuse one.      *)
(***************************************************************************)
EXTENDS Naturals, Sequences, FiniteSets

CONSTANTS
  Requests,     \* HTTP requests served at the same time
  Users,
  PlainRoles,   \* the roles that administer nothing
  Marks,        \* what bars a user: is_active is false, is_archived is true
  FirstAdmins,  \* the users that hold SuperAdmin at the start
  MaxRows,      \* bound: role requests ever submitted
  Failures      \* whether an HTTP request may die

Roles == {"SuperAdmin", "AdminManager"} \cup PlainRoles

ASSUME RequestAssumption == IsFiniteSet(Requests)
ASSUME RoleAssumption == PlainRoles \cap {"SuperAdmin", "AdminManager"} = {}
ASSUME MarkAssumption == Marks \subseteq {"disabled", "archived"}
ASSUME AdminAssumption == FirstAdmins \subseteq Users /\ FirstAdmins # {}
ASSUME BoundAssumption == MaxRows \in Nat
ASSUME FailureAssumption == Failures \in BOOLEAN

VARIABLES
  roles,     \* user_roles
  barred,    \* the marks of each user
  rows,      \* role_requests, in the order of their creation
  job,       \* what each request is doing
  verdicts,  \* history: the decisions committed on each role request
  contested, \* history: role requests under two decisions at once
  usurped    \* history: a change was committed by somebody no longer entitled to it

history == <<verdicts, contested, usurped>>
vars == <<roles, barred, rows, job, history>>

-----------------------------------------------------------------------------
Verdicts == {"approved", "rejected"}

Rows == [user : Users, role : Roles, status : {"pending"} \cup Verdicts]

\* actor: the administrator; row: the role request; had, want: the roles read and those to be
\* set; mark, on: the flag to be written and its value.
Jobs == [step : {"idle", "submit", "approve", "reject", "replace", "mark"},
         actor : Users \cup {"none"}, user : Users \cup {"none"}, row : 0..MaxRows,
         had : SUBSET Roles, want : SUBSET Roles, mark : Marks \cup {"none"}, on : BOOLEAN]

Idle == [step |-> "idle", actor |-> "none", user |-> "none", row |-> 0, had |-> {},
         want |-> {}, mark |-> "none", on |-> FALSE]

TypeOK ==
  /\ roles \in [Users -> SUBSET Roles]
  /\ barred \in [Users -> SUBSET Marks]
  /\ rows \in Seq(Rows) /\ Len(rows) <= MaxRows
  /\ job \in [Requests -> Jobs]
  /\ verdicts \in [1..MaxRows -> SUBSET Verdicts]
  /\ contested \subseteq 1..MaxRows
  /\ usurped \in BOOLEAN

Init ==
  /\ roles = [u \in Users |-> IF u \in FirstAdmins THEN {"SuperAdmin"} ELSE {}]
  /\ barred = [u \in Users |-> {}]
  /\ rows = <<>>
  /\ job = [r \in Requests |-> Idle]
  /\ verdicts = [i \in 1..MaxRows |-> {}]
  /\ contested = {}
  /\ usurped = FALSE

-----------------------------------------------------------------------------
\* The roles that the seed data gives the two permissions of this module.
Permitted(perm) ==
  IF perm = "manage_users" THEN {"AdminManager", "SuperAdmin"} ELSE {"SuperAdmin"}

\* get_current_user and require_permission
May(u, perm) == barred[u] = {} /\ roles[u] \cap Permitted(perm) # {}

PendingOf(u) == {i \in DOMAIN rows : rows[i].user = u /\ rows[i].status = "pending"}

Begin(r, j) == job[r] = Idle /\ job' = [job EXCEPT ![r] = j]
Finish(r) == job' = [job EXCEPT ![r] = Idle]

-----------------------------------------------------------------------------
(* Role requests. *)

\* Variant: a second request may be made.
SubmitAgain(r) ==
  /\ \E u \in Users, role \in Roles \ {"SuperAdmin"} :
       /\ barred[u] = {}
       /\ Begin(r, [Idle EXCEPT !.step = "submit", !.user = u, !.want = {role}])
  /\ UNCHANGED <<roles, barred, rows, history>>

\* submit_role_request: refused with one request pending, and an error with more.
Submit(r) ==
  /\ \E u \in Users, role \in Roles \ {"SuperAdmin"} :
       /\ barred[u] = {}
       /\ PendingOf(u) = {}
       /\ Begin(r, [Idle EXCEPT !.step = "submit", !.user = u, !.want = {role}])
  /\ UNCHANGED <<roles, barred, rows, history>>

CommitSubmit(r) ==
  /\ job[r].step = "submit"
  /\ Len(rows) < MaxRows
  /\ \E role \in job[r].want :
       rows' = Append(rows, [user |-> job[r].user, role |-> role, status |-> "pending"])
  /\ Finish(r)
  /\ UNCHANGED <<roles, barred, history>>

\* Variant: _get_role_request does not look at the status.
DecideAny(r) ==
  /\ \E a \in Users : May(a, "manage_users")
  /\ \E i \in DOMAIN rows, s \in {"approve", "reject"} :
       Begin(r, [Idle EXCEPT !.step = s, !.row = i])
  /\ UNCHANGED <<roles, barred, rows, history>>

\* approve_role_request and reject_role_request begin alike.
Decide(r) ==
  /\ \E a \in Users : May(a, "manage_users")
  /\ \E i \in DOMAIN rows, s \in {"approve", "reject"} :
       /\ rows[i].status = "pending"
       /\ Begin(r, [Idle EXCEPT !.step = s, !.row = i])
  /\ UNCHANGED <<roles, barred, rows, history>>

\* Variant: the status is the name of the operation.
RecordOperation(r, v) ==
  /\ rows' = [rows EXCEPT ![job[r].row].status = job[r].step]
  /\ verdicts' = [verdicts EXCEPT ![job[r].row] = @ \cup {v}]
  /\ UNCHANGED contested

RecordVerdict(r, v) ==
  LET i == job[r].row
  IN /\ rows' = [rows EXCEPT ![i].status = v]
     /\ verdicts' = [verdicts EXCEPT ![i] = @ \cup {v}]
     /\ contested' = contested \cup {k \in {i} : \E q \in Requests \ {r} : job[q].row = k}

\* One commit for the verdict and the role: a user who has the role already keeps both
\* as they were.
CommitApprove(r) ==
  /\ job[r].step = "approve"
  /\ LET u == rows[job[r].row].user
         role == rows[job[r].row].role
     IN IF role \in roles[u]
        THEN UNCHANGED <<roles, rows, verdicts, contested>>
        ELSE roles' = [roles EXCEPT ![u] = @ \cup {role}] /\ RecordVerdict(r, "approved")
  /\ Finish(r)
  /\ UNCHANGED <<barred, usurped>>

CommitReject(r) ==
  /\ job[r].step = "reject"
  /\ RecordVerdict(r, "rejected")
  /\ Finish(r)
  /\ UNCHANGED <<roles, barred, usurped>>

-----------------------------------------------------------------------------
(* Roles and accounts. *)

\* Variant: the router lets an administrator replace his own roles.
ReplaceAnyone(r) ==
  /\ \E a, u \in Users, want \in SUBSET Roles :
       /\ May(a, "administer_users")
       /\ Begin(r, [Idle EXCEPT !.step = "replace", !.actor = a, !.user = u,
                                !.had = roles[u], !.want = want])
  /\ UNCHANGED <<roles, barred, rows, history>>

\* update_user_roles reads the roles of somebody else (to set them to what was read
\* writes nothing and is not a step) ...
Replace(r) ==
  /\ \E a, u \in Users, want \in SUBSET Roles :
       /\ May(a, "administer_users") /\ u # a /\ want # roles[u]
       /\ Begin(r, [Idle EXCEPT !.step = "replace", !.actor = a, !.user = u,
                                !.had = roles[u], !.want = want])
  /\ UNCHANGED <<roles, barred, rows, history>>

\* ... and deletes those not wanted and inserts those missing; a row that it read and
\* wants is not written, and a row to be deleted may be gone.
Replaced(now, had, want) == (now \ (had \ want)) \cup (want \ had)

\* The key refuses a role that somebody else inserted meanwhile.
CommitReplace(r) ==
  /\ job[r].step = "replace"
  /\ LET j == job[r]
         u == j.user
     IN IF (j.want \ j.had) \cap roles[u] # {}
        THEN UNCHANGED <<roles, usurped>>
        ELSE /\ roles' = [roles EXCEPT ![u] = Replaced(@, j.had, j.want)]
             /\ usurped' = (usurped \/ ~May(j.actor, "administer_users"))
  /\ Finish(r)
  /\ UNCHANGED <<barred, rows, verdicts, contested>>

\* update_user_status, archive_user, unarchive_user of somebody else: the flag is written
\* if it differs from what was read.  (One may unarchive oneself, in vain: nobody who
\* is archived gets here.)
Mark(r) ==
  /\ \E a, u \in Users, m \in Marks :
       /\ May(a, "administer_users") /\ u # a
       /\ Begin(r, [Idle EXCEPT !.step = "mark", !.actor = a, !.user = u, !.mark = m,
                                !.on = (m \notin barred[u])])
  /\ UNCHANGED <<roles, barred, rows, history>>

CommitMark(r) ==
  /\ job[r].step = "mark"
  /\ LET j == job[r]
     IN /\ barred' = [barred EXCEPT ![j.user] = IF j.on THEN @ \cup {j.mark} ELSE @ \ {j.mark}]
        /\ usurped' = (usurped \/ ~May(j.actor, "administer_users"))
  /\ Finish(r)
  /\ UNCHANGED <<roles, rows, verdicts, contested>>

-----------------------------------------------------------------------------
\* The worker dies or the connection breaks: the session rolls back.
Abandon(r) ==
  /\ Failures /\ job[r] # Idle
  /\ Finish(r)
  /\ UNCHANGED <<roles, barred, rows, history>>

Next ==
  \E r \in Requests :
    \/ Submit(r) \/ Decide(r) \/ Replace(r) \/ Mark(r)
    \/ CommitSubmit(r) \/ CommitApprove(r) \/ CommitReject(r)
    \/ CommitReplace(r) \/ CommitMark(r)
    \/ Abandon(r)

Spec == Init /\ [][Next]_vars

-----------------------------------------------------------------------------
(* Properties. *)

\* A role request is decided one way: it was both approved, which granted the role, and
\* rejected only if the two decisions were under way at the same time (_get_role_request
\* checks the status, the commit does not).
DecidedOnce ==
  \A i \in DOMAIN rows : verdicts[i] = Verdicts => i \in contested

\* A user never has more role requests pending or about to be than HTTP requests run at
\* once, although the table has no constraint and submit_role_request checks long before
\* it inserts.
PendingBounded ==
  \A u \in Users :
    Cardinality(PendingOf(u))
      + Cardinality({r \in Requests : job[r].step = "submit" /\ job[r].user = u})
      <= Cardinality(Requests)

\* The administrators cannot lock everybody out: nobody may change himself, so as long
\* as changes are committed by people still entitled to them, one administrator is left.
AdminsRemain == (\E u \in Users : May(u, "administer_users")) \/ usurped
=============================================================================
