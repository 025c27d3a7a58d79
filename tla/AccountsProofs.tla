---------------------------- MODULE AccountsProofs ----------------------------
(***************************************************************************)
(* Accounts for any number of users, roles and simultaneous requests: role *)
(* requests do not pile up, contradictory verdicts need simultaneous       *)
(* decisions, and an administrator remains.                                *)
(***************************************************************************)
EXTENDS Accounts, FiniteSetTheorems, TLAPS

\* A request decides a row that exists, and changes somebody else.
JobsAreSound ==
  \A r \in Requests :
    /\ job[r].step \in {"approve", "reject"} => job[r].row \in DOMAIN rows
    /\ job[r].step = "submit" => job[r].user \in Users
    /\ job[r].step = "mark" => job[r].mark \in Marks
    /\ job[r].step \in {"replace", "mark"} =>
         job[r].actor \in Users /\ job[r].user \in Users /\ job[r].actor # job[r].user

\* A row with a verdict is no longer pending, and whoever still decides it is contested.
VerdictsSettle ==
  /\ \A i \in 1..MaxRows :
       verdicts[i] # {} => i \in DOMAIN rows /\ rows[i].status # "pending"
  /\ \A r \in Requests :
       job[r].step \in {"approve", "reject"} /\ verdicts[job[r].row] # {} =>
         job[r].row \in contested

Submitting(u) == {r \in Requests : job[r].step = "submit" /\ job[r].user = u}

IInv ==
  /\ TypeOK
  /\ JobsAreSound
  /\ AdminsRemain
  /\ VerdictsSettle
  /\ DecidedOnce
  /\ PendingBounded

-----------------------------------------------------------------------------
(* The data. *)

LEMMA RowsFacts ==
  ASSUME TypeOK
  PROVE  /\ Len(rows) \in 0..MaxRows /\ DOMAIN rows = 1..Len(rows)
         /\ \A i \in DOMAIN rows : rows[i] \in Rows /\ i \in 1..MaxRows
<1>1. rows \in Seq(Rows) /\ Len(rows) <= MaxRows BY DEF TypeOK
<1> QED BY <1>1, BoundAssumption

LEMMA Added ==
  ASSUME TypeOK, NEW row \in Rows, Len(rows) < MaxRows
  PROVE  /\ Append(rows, row) \in Seq(Rows)
         /\ Len(Append(rows, row)) = Len(rows) + 1
         /\ DOMAIN Append(rows, row) = DOMAIN rows \cup {Len(rows) + 1}
         /\ \A k \in DOMAIN rows : Append(rows, row)[k] = rows[k]
         /\ Append(rows, row)[Len(rows) + 1] = row
         /\ Len(rows) + 1 \notin DOMAIN rows
<1>1. rows \in Seq(Rows) BY DEF TypeOK
<1> QED BY <1>1

\* What a finished request leaves in job.
LEMMA IdleFacts ==
  Idle \in Jobs /\ Idle.step = "idle"
<1>1. \A none : none \in SUBSET Roles =>
        [step |-> "idle", actor |-> "none", user |-> "none", row |-> 0, had |-> none,
         want |-> none, mark |-> "none", on |-> FALSE] \in Jobs
  BY BoundAssumption DEF Jobs
<1> QED BY <1>1 DEF Idle

LEMMA JobAfter ==
  ASSUME TypeOK, NEW r \in Requests
  PROVE  /\ Finish(r) => /\ job' \in [Requests -> Jobs] /\ job'[r] = Idle
                         /\ \A q \in Requests \ {r} : job'[q] = job[q]
         /\ \A j \in Jobs : Begin(r, j) =>
              /\ job[r] = Idle /\ job' \in [Requests -> Jobs] /\ job'[r] = j
              /\ \A q \in Requests \ {r} : job'[q] = job[q]
<1>1. job \in [Requests -> Jobs] BY DEF TypeOK
<1>2. \A j \in Jobs : /\ [job EXCEPT ![r] = j] \in [Requests -> Jobs]
                      /\ [job EXCEPT ![r] = j][r] = j
                      /\ \A q \in Requests \ {r} : [job EXCEPT ![r] = j][q] = job[q]
  BY <1>1
<1> QED BY <1>2, IdleFacts DEF Finish, Begin

-----------------------------------------------------------------------------
(* The kinds of step, all that the invariants need of the actions. *)

\* A request begins: nothing is written.
Begins(r) ==
  \E j \in Jobs :
    /\ Begin(r, j)
    /\ j.step \in {"approve", "reject"} =>
         j.row \in DOMAIN rows /\ rows[j.row].status = "pending"
    /\ j.step = "submit" => j.user \in Users /\ PendingOf(j.user) = {}
    /\ j.step = "mark" => j.mark \in Marks
    /\ j.step \in {"replace", "mark"} =>
         j.actor \in Users /\ j.user \in Users /\ j.actor # j.user
    /\ UNCHANGED <<roles, barred, rows, history>>

LEMMA BeginKinds ==
  ASSUME TypeOK, NEW r \in Requests,
         Submit(r) \/ Decide(r) \/ Replace(r) \/ Mark(r)
  PROVE  Begins(r)
<1>1. CASE Submit(r)
  <2>1. PICK u \in Users, role \in Roles \ {"SuperAdmin"} :
          /\ PendingOf(u) = {}
          /\ Begin(r, [Idle EXCEPT !.step = "submit", !.user = u, !.want = {role}])
    BY <1>1 DEF Submit
  <2> DEFINE w == {role}
             j == [Idle EXCEPT !.step = "submit", !.user = u, !.want = w]
  <2>2. j \in Jobs /\ j.step = "submit" /\ j.user = u
    <3>1. w \in SUBSET Roles OBVIOUS
    <3> HIDE DEF w
    <3> QED BY <3>1, IdleFacts DEF Jobs
  <2>3. UNCHANGED <<roles, barred, rows, history>> BY <1>1 DEF Submit
  <2> HIDE DEF j
  <2>4. Begin(r, j) BY <2>1 DEF j
  <2> QED BY <2>1, <2>2, <2>3, <2>4 DEF Begins
<1>2. CASE Decide(r)
  <2>1. PICK i \in DOMAIN rows, s \in {"approve", "reject"} :
          /\ rows[i].status = "pending"
          /\ Begin(r, [Idle EXCEPT !.step = s, !.row = i])
    BY <1>2 DEF Decide
  <2> DEFINE j == [Idle EXCEPT !.step = s, !.row = i]
  <2>2. i \in 0..MaxRows BY RowsFacts
  <2>3. j \in Jobs /\ j.step = s /\ j.row = i BY <2>2, IdleFacts DEF Jobs
  <2>4. UNCHANGED <<roles, barred, rows, history>> BY <1>2 DEF Decide
  <2> HIDE DEF j
  <2>5. Begin(r, j) BY <2>1 DEF j
  <2> QED BY <2>1, <2>3, <2>4, <2>5 DEF Begins
<1>3. CASE Replace(r)
  <2>1. PICK a \in Users, u \in Users, want \in SUBSET Roles :
          /\ u # a
          /\ Begin(r, [Idle EXCEPT !.step = "replace", !.actor = a, !.user = u,
                                   !.had = roles[u], !.want = want])
    BY <1>3 DEF Replace
  <2> DEFINE j == [Idle EXCEPT !.step = "replace", !.actor = a, !.user = u,
                               !.had = roles[u], !.want = want]
  <2>2. roles[u] \in SUBSET Roles BY DEF TypeOK
  <2>3. j \in Jobs /\ j.step = "replace" /\ j.actor = a /\ j.user = u
    BY <2>2, IdleFacts DEF Jobs
  <2>4. UNCHANGED <<roles, barred, rows, history>> BY <1>3 DEF Replace
  <2> HIDE DEF j
  <2>5. Begin(r, j) BY <2>1 DEF j
  <2>6. j.step \notin {"approve", "reject", "submit", "mark"} /\ j.actor # j.user
    BY <2>1, <2>3
  <2> QED BY <2>3, <2>4, <2>5, <2>6 DEF Begins
<1>4. CASE Mark(r)
  <2>1. PICK a \in Users, u \in Users, m \in Marks :
          /\ u # a
          /\ Begin(r, [Idle EXCEPT !.step = "mark", !.actor = a, !.user = u, !.mark = m,
                                   !.on = (m \notin barred[u])])
    BY <1>4 DEF Mark
  <2> DEFINE b == m \notin barred[u]
             j == [Idle EXCEPT !.step = "mark", !.actor = a, !.user = u, !.mark = m,
                               !.on = b]
  <2>2. b \in BOOLEAN OBVIOUS
  <2>3. Begin(r, j) BY <2>1
  <2> HIDE DEF b
  <2>4. j \in Jobs /\ j.step = "mark" /\ j.actor = a /\ j.user = u /\ j.mark = m
    BY <2>2, IdleFacts DEF Jobs
  <2>5. UNCHANGED <<roles, barred, rows, history>> BY <1>4 DEF Mark
  <2>6. j.step \notin {"approve", "reject", "submit"} /\ j.actor # j.user
    BY <2>1, <2>4
  <2> HIDE DEF j
  <2> QED BY <2>3, <2>4, <2>5, <2>6 DEF Begins
<1> QED BY <1>1, <1>2, <1>3, <1>4

-----------------------------------------------------------------------------
(* The parts of the invariant, when a request ends. *)

LEMMA JobsStaySound ==
  ASSUME TypeOK, JobsAreSound, NEW r \in Requests, Finish(r),
         DOMAIN rows \subseteq DOMAIN rows'
  PROVE  JobsAreSound'
BY JobAfter, IdleFacts DEF JobsAreSound

LEMMA PendingFacts ==
  ASSUME TypeOK, NEW u
  PROVE  /\ IsFiniteSet(PendingOf(u)) /\ Cardinality(PendingOf(u)) \in Nat
         /\ IsFiniteSet(Submitting(u)) /\ Cardinality(Submitting(u)) \in Nat
         /\ Cardinality(Submitting(u)) <= Cardinality(Requests)
         /\ Cardinality(Requests) \in Nat
<1>1. DOMAIN rows = 1..Len(rows) /\ Len(rows) \in Nat BY RowsFacts, BoundAssumption
<1>2. IsFiniteSet(DOMAIN rows) BY <1>1, FS_Interval
<1>3. PendingOf(u) \subseteq DOMAIN rows BY DEF PendingOf
<1>4. Submitting(u) \subseteq Requests BY DEF Submitting
<1> QED BY <1>2, <1>3, <1>4, RequestAssumption, FS_Subset, FS_CardinalityType

LEMMA FewerPending ==
  ASSUME TypeOK, PendingBounded,
         \A u \in Users : /\ PendingOf(u)' \subseteq PendingOf(u)
                          /\ Submitting(u)' \subseteq Submitting(u)
  PROVE  PendingBounded'
<1> SUFFICES ASSUME NEW u \in Users
             PROVE  Cardinality(PendingOf(u)') + Cardinality(Submitting(u)')
                      <= Cardinality(Requests)
  BY DEF PendingBounded, Submitting
<1>1. Cardinality(PendingOf(u)) + Cardinality(Submitting(u)) <= Cardinality(Requests)
  BY DEF PendingBounded, Submitting
<1>2. /\ Cardinality(PendingOf(u)') <= Cardinality(PendingOf(u))
      /\ Cardinality(Submitting(u)') <= Cardinality(Submitting(u))
  BY PendingFacts, FS_Subset
<1>3. Cardinality(PendingOf(u)') \in Nat /\ Cardinality(Submitting(u)') \in Nat
  BY PendingFacts, FS_Subset, FS_CardinalityType
<1> QED BY <1>1, <1>2, <1>3, PendingFacts

LEMMA FewerSubmitting ==
  ASSUME TypeOK, NEW r \in Requests, Finish(r), NEW u
  PROVE  Submitting(u)' \subseteq Submitting(u)
BY JobAfter, IdleFacts DEF Submitting

LEMMA VerdictsKept ==
  ASSUME TypeOK, TypeOK', VerdictsSettle, DecidedOnce, NEW r \in Requests, Finish(r),
         UNCHANGED <<verdicts, contested>>, DOMAIN rows \subseteq DOMAIN rows',
         \A i \in DOMAIN rows : rows'[i] = rows[i]
  PROVE  VerdictsSettle' /\ DecidedOnce'
<1>1. VerdictsSettle' BY JobAfter, IdleFacts DEF VerdictsSettle
<1>2. ASSUME NEW i \in DOMAIN rows', verdicts'[i] = Verdicts PROVE i \in contested'
  <2>1. i \in 1..MaxRows
    <3>1. rows' \in Seq(Rows) /\ Len(rows') <= MaxRows BY DEF TypeOK
    <3> QED BY <3>1, BoundAssumption
  <2>2. verdicts[i] # {} BY <1>2 DEF Verdicts
  <2>3. i \in DOMAIN rows BY <2>1, <2>2 DEF VerdictsSettle
  <2> QED BY <2>3, <1>2 DEF DecidedOnce
<1> QED BY <1>1, <1>2 DEF DecidedOnce

LEMMA VerdictRecorded ==
  ASSUME IInv, NEW r \in Requests, NEW v \in Verdicts,
         job[r].step \in {"approve", "reject"}, RecordVerdict(r, v), Finish(r)
  PROVE  /\ rows' \in Seq(Rows) /\ Len(rows') <= MaxRows
         /\ verdicts' \in [1..MaxRows -> SUBSET Verdicts] /\ contested' \subseteq 1..MaxRows
         /\ VerdictsSettle' /\ DecidedOnce' /\ PendingBounded' /\ JobsAreSound'
<1> DEFINE i == job[r].row
<1>1. i \in DOMAIN rows /\ i \in 1..MaxRows BY RowsFacts DEF IInv, JobsAreSound
<1>2. rows' = [rows EXCEPT ![i].status = v] BY DEF RecordVerdict
<1>3. /\ verdicts' = [verdicts EXCEPT ![i] = @ \cup {v}]
      /\ contested' = contested \cup {k \in {i} : \E q \in Requests \ {r} : job[q].row = k}
  BY DEF RecordVerdict
<1>4. job'[r] = Idle /\ \A q \in Requests \ {r} : job'[q] = job[q]
  BY JobAfter DEF IInv
<1> HIDE DEF i
<1>5. /\ rows' \in Seq(Rows) /\ DOMAIN rows' = DOMAIN rows /\ Len(rows') = Len(rows)
      /\ \A k \in DOMAIN rows : k # i => rows'[k] = rows[k]
      /\ rows'[i].status = v /\ rows'[i].user = rows[i].user
  <2> DEFINE after == [rows EXCEPT ![i].status = v]
  <2>1. TypeOK BY DEF IInv
  <2>2. /\ after \in Seq(Rows) /\ DOMAIN after = DOMAIN rows /\ Len(after) = Len(rows)
        /\ \A k \in DOMAIN rows : k # i => after[k] = rows[k]
        /\ after[i].status = v /\ after[i].user = rows[i].user
    <3>1. rows \in Seq(Rows) /\ rows[i] \in Rows BY <1>1, <2>1, RowsFacts DEF TypeOK
    <3>2. [rows[i] EXCEPT !.status = v] \in Rows BY <3>1 DEF Rows
    <3>3. after = [rows EXCEPT ![i] = [rows[i] EXCEPT !.status = v]] OBVIOUS
    <3>4. after \in Seq(Rows) /\ DOMAIN after = DOMAIN rows /\ Len(after) = Len(rows)
      <4> DEFINE n == Len(rows)
      <4>1. rows \in [1..n -> Rows] /\ n \in Nat BY <3>1
      <4> HIDE DEF n
      <4>2. after \in [1..n -> Rows] /\ DOMAIN after = DOMAIN rows
        BY <4>1, <3>2, <3>3
      <4>3. after \in Seq(Rows) /\ Len(after) = n
        <5> HIDE DEF after
        <5> QED BY <4>1, <4>2
      <4> QED BY <4>2, <4>3 DEF n
    <3>5. \A k \in DOMAIN rows : k # i => after[k] = rows[k] BY <3>3
    <3>6. after[i].status = v /\ after[i].user = rows[i].user BY <1>1, <3>1, <3>3 DEF Rows
    <3> QED BY <3>4, <3>5, <3>6
  <2>3. rows' = after BY <1>2
  <2> HIDE DEF after
  <2> QED BY <2>2, <2>3
<1>6. /\ verdicts' \in [1..MaxRows -> SUBSET Verdicts]
      /\ verdicts'[i] = verdicts[i] \cup {v}
      /\ \A k \in 1..MaxRows : k # i => verdicts'[k] = verdicts[k]
  BY <1>1, <1>3 DEF IInv, TypeOK
<1>7. contested' \subseteq 1..MaxRows /\ contested \subseteq contested'
  BY <1>1, <1>3 DEF IInv, TypeOK
<1>8. v # "pending" BY DEF Verdicts
<1>9. VerdictsSettle'
  <2>1. \A k \in 1..MaxRows :
          verdicts'[k] # {} => k \in DOMAIN rows' /\ rows'[k].status # "pending"
    BY <1>1, <1>5, <1>6, <1>8 DEF IInv, VerdictsSettle
  <2>2. ASSUME NEW q \in Requests, job'[q].step \in {"approve", "reject"},
               verdicts'[job'[q].row] # {}
        PROVE  job'[q].row \in contested'
    <3>1. q # r BY <2>2, <1>4, IdleFacts
    <3>2. job'[q] = job[q] BY <3>1, <1>4
    <3>3. job[q].row \in 1..MaxRows BY <2>2, <3>2, RowsFacts DEF IInv, JobsAreSound
    <3>4. CASE job[q].row = i BY <3>1, <3>2, <3>4, <1>3
    <3>5. CASE job[q].row # i
      BY <2>2, <3>2, <3>3, <3>5, <1>6, <1>7 DEF IInv, VerdictsSettle
    <3> QED BY <3>4, <3>5
  <2> QED BY <2>1, <2>2 DEF VerdictsSettle
<1>10. DecidedOnce'
  <2> SUFFICES ASSUME NEW k \in DOMAIN rows', verdicts'[k] = Verdicts
               PROVE  k \in contested'
    BY DEF DecidedOnce
  <2>1. k \in DOMAIN rows /\ k \in 1..MaxRows BY <1>5, RowsFacts DEF IInv
  <2>2. CASE k # i BY <2>1, <2>2, <1>6, <1>7 DEF IInv, DecidedOnce
  <2>3. CASE k = i
    <3>1. verdicts[i] # {} BY <2>3, <1>6 DEF Verdicts
    <3>2. i \in contested BY <3>1 DEF IInv, VerdictsSettle, i
    <3> QED BY <2>3, <3>2, <1>7
  <2> QED BY <2>2, <2>3
<1>11. PendingBounded'
  <2>1. ASSUME NEW u \in Users
        PROVE  PendingOf(u)' \subseteq PendingOf(u) /\ Submitting(u)' \subseteq Submitting(u)
    <3>1. PendingOf(u)' \subseteq PendingOf(u) BY <1>5, <1>8 DEF PendingOf
    <3> QED BY <3>1, FewerSubmitting DEF IInv
  <2> QED BY <2>1, FewerPending DEF IInv
<1>12. JobsAreSound' BY <1>5, JobsStaySound DEF IInv
<1>13. Len(rows') <= MaxRows BY <1>5 DEF IInv, TypeOK
<1> QED BY <1>5, <1>6, <1>7, <1>9, <1>10, <1>11, <1>12, <1>13

-----------------------------------------------------------------------------
(* The initial states and the steps. *)

LEMMA InitIInv == Init => IInv
<1> SUFFICES ASSUME Init PROVE IInv
  OBVIOUS
<1>1. rows = <<>> /\ DOMAIN rows = {} BY DEF Init
<1>2. \A r \in Requests : job[r] = Idle BY DEF Init
<1>3. TypeOK
  <2>1. roles \in [Users -> SUBSET Roles] BY DEF Init, Roles
  <2>2. barred \in [Users -> SUBSET Marks] BY DEF Init
  <2>3. rows \in Seq(Rows) /\ Len(rows) <= MaxRows BY <1>1, BoundAssumption
  <2>4. job \in [Requests -> Jobs] BY IdleFacts DEF Init
  <2>5. verdicts \in [1..MaxRows -> SUBSET Verdicts] BY DEF Init
  <2>6. contested \subseteq 1..MaxRows BY DEF Init
  <2>7. usurped \in BOOLEAN BY DEF Init
  <2> QED BY <2>1, <2>2, <2>3, <2>4, <2>5, <2>6, <2>7 DEF TypeOK
<1>4. JobsAreSound BY <1>2, IdleFacts DEF JobsAreSound
<1>5. AdminsRemain
  <2>1. PICK a \in FirstAdmins : a \in Users BY AdminAssumption
  <2>2. roles[a] = {"SuperAdmin"} /\ barred[a] = {} BY <2>1 DEF Init
  <2>3. May(a, "administer_users") BY <2>2 DEF May, Permitted
  <2> QED BY <2>1, <2>3 DEF AdminsRemain
<1>6. VerdictsSettle BY <1>2, IdleFacts DEF VerdictsSettle, Init
<1>7. DecidedOnce BY <1>1 DEF DecidedOnce
<1>8. PendingBounded
  <2> SUFFICES ASSUME NEW u \in Users
               PROVE  Cardinality(PendingOf(u)) + Cardinality(Submitting(u))
                        <= Cardinality(Requests)
    BY DEF PendingBounded, Submitting
  <2>1. PendingOf(u) = {} BY <1>1 DEF PendingOf
  <2> QED BY <2>1, <1>3, PendingFacts, FS_EmptySet
<1> QED BY <1>3, <1>4, <1>5, <1>6, <1>7, <1>8 DEF IInv

LEMMA BeginStep ==
  ASSUME IInv, NEW r \in Requests, Begins(r)
  PROVE  IInv'
<1>1. PICK j \in Jobs :
        /\ Begin(r, j)
        /\ j.step \in {"approve", "reject"} =>
             j.row \in DOMAIN rows /\ rows[j.row].status = "pending"
        /\ j.step = "submit" => j.user \in Users /\ PendingOf(j.user) = {}
        /\ j.step = "mark" => j.mark \in Marks
        /\ j.step \in {"replace", "mark"} =>
             j.actor \in Users /\ j.user \in Users /\ j.actor # j.user
        /\ UNCHANGED <<roles, barred, rows, history>>
  BY DEF Begins
<1>2. /\ job[r] = Idle /\ job' \in [Requests -> Jobs] /\ job'[r] = j
      /\ \A q \in Requests \ {r} : job'[q] = job[q]
  BY <1>1, JobAfter DEF IInv
<1>3. UNCHANGED <<roles, barred, rows, verdicts, contested, usurped>>
  BY <1>1 DEF history
<1>4. TypeOK' BY <1>2, <1>3 DEF IInv, TypeOK
<1>5. JobsAreSound' BY <1>1, <1>2, <1>3 DEF IInv, JobsAreSound
<1>6. AdminsRemain' BY <1>3 DEF IInv, AdminsRemain, May
<1>7. VerdictsSettle'
  <2>1. ASSUME NEW q \in Requests, job'[q].step \in {"approve", "reject"},
               verdicts[job'[q].row] # {}
        PROVE  job'[q].row \in contested
    <3>1. CASE q = r
      <4>1. j.row \in DOMAIN rows /\ rows[j.row].status = "pending" /\ verdicts[j.row] # {}
        BY <3>1, <2>1, <1>1, <1>2
      <4>2. j.row \in 1..MaxRows BY <4>1, RowsFacts DEF IInv
      <4> QED BY <4>1, <4>2 DEF IInv, VerdictsSettle
    <3>2. CASE q # r BY <3>2, <2>1, <1>2 DEF IInv, VerdictsSettle
    <3> QED BY <3>1, <3>2
  <2> QED BY <2>1, <1>3 DEF IInv, VerdictsSettle
<1>8. DecidedOnce' BY <1>3 DEF IInv, DecidedOnce
<1>9. PendingBounded'
  <2> SUFFICES ASSUME NEW u \in Users
               PROVE  Cardinality(PendingOf(u)') + Cardinality(Submitting(u)')
                        <= Cardinality(Requests)
    BY DEF PendingBounded, Submitting
  <2>1. PendingOf(u)' = PendingOf(u) BY <1>3 DEF PendingOf
  <2>2. CASE j.step = "submit" /\ j.user = u
    <3>1. Cardinality(PendingOf(u)') = 0 BY <2>1, <2>2, <1>1, FS_EmptySet
    <3>2. /\ Cardinality(Submitting(u)') <= Cardinality(Requests)
          /\ Cardinality(Submitting(u)') \in Nat
      <4>1. Submitting(u)' \subseteq Requests BY DEF Submitting
      <4> QED BY <4>1, RequestAssumption, FS_Subset, FS_CardinalityType
    <3> QED BY <3>1, <3>2, PendingFacts DEF IInv
  <2>3. CASE ~(j.step = "submit" /\ j.user = u)
    <3>1. Submitting(u)' = Submitting(u)
      BY <2>3, <1>2, IdleFacts DEF Submitting
    <3> QED BY <3>1, <2>1 DEF IInv, PendingBounded, Submitting
  <2> QED BY <2>2, <2>3
<1> QED BY <1>4, <1>5, <1>6, <1>7, <1>8, <1>9 DEF IInv

LEMMA SubmitStep ==
  ASSUME IInv, NEW r \in Requests, CommitSubmit(r)
  PROVE  IInv'
<1>1. /\ job[r].step = "submit" /\ Len(rows) < MaxRows /\ Finish(r)
      /\ UNCHANGED <<roles, barred, verdicts, contested, usurped>>
  BY DEF CommitSubmit, history
<1>2. PICK role \in job[r].want :
        rows' = Append(rows, [user |-> job[r].user, role |-> role, status |-> "pending"])
  BY DEF CommitSubmit
<1> DEFINE row == [user |-> job[r].user, role |-> role, status |-> "pending"]
<1>3. row \in Rows
  <2>1. job[r].user \in Users BY <1>1 DEF IInv, JobsAreSound
  <2>2. job[r].want \subseteq Roles BY DEF IInv, TypeOK, Jobs
  <2> QED BY <2>1, <2>2, <1>2 DEF Rows
<1>4. row.status = "pending" /\ row.user = job[r].user OBVIOUS
<1>5. rows' = Append(rows, row) BY <1>2
<1> HIDE DEF row
<1>6. /\ rows' \in Seq(Rows) /\ Len(rows') = Len(rows) + 1
      /\ DOMAIN rows' = DOMAIN rows \cup {Len(rows) + 1}
      /\ \A k \in DOMAIN rows : rows'[k] = rows[k]
      /\ rows'[Len(rows) + 1] = row /\ Len(rows) + 1 \notin DOMAIN rows
  BY <1>1, <1>3, <1>5, Added DEF IInv
<1>7. /\ job' \in [Requests -> Jobs] /\ job'[r] = Idle
      /\ \A q \in Requests \ {r} : job'[q] = job[q]
  BY <1>1, JobAfter DEF IInv
<1>8. TypeOK'
  <2>1. Len(rows') <= MaxRows BY <1>1, <1>6, RowsFacts, BoundAssumption DEF IInv
  <2> QED BY <2>1, <1>1, <1>6, <1>7 DEF IInv, TypeOK
<1>9. JobsAreSound' BY <1>1, <1>6, JobsStaySound DEF IInv
<1>10. AdminsRemain' BY <1>1 DEF IInv, AdminsRemain, May
<1>11. VerdictsSettle' /\ DecidedOnce' BY <1>1, <1>6, <1>8, VerdictsKept DEF IInv
<1>12. PendingBounded'
  <2> SUFFICES ASSUME NEW u \in Users
               PROVE  Cardinality(PendingOf(u)') + Cardinality(Submitting(u)')
                        <= Cardinality(Requests)
    BY DEF PendingBounded, Submitting
  <2>1. Cardinality(PendingOf(u)) + Cardinality(Submitting(u)) <= Cardinality(Requests)
    BY DEF IInv, PendingBounded, Submitting
  <2>2. CASE job[r].user = u
    <3>1. PendingOf(u)' = PendingOf(u) \cup {Len(rows) + 1} /\ Len(rows) + 1 \notin PendingOf(u)
      BY <2>2, <1>4, <1>6 DEF PendingOf
    <3>2. Submitting(u)' = Submitting(u) \ {r} /\ r \in Submitting(u)
      BY <2>2, <1>1, <1>7, IdleFacts DEF Submitting
    <3>3. Cardinality(PendingOf(u)') = Cardinality(PendingOf(u)) + 1
      BY <3>1, PendingFacts, FS_AddElement DEF IInv
    <3>4. Cardinality(Submitting(u)') = Cardinality(Submitting(u)) - 1
      BY <3>2, PendingFacts, FS_RemoveElement DEF IInv
    <3> QED BY <2>1, <3>3, <3>4, PendingFacts DEF IInv
  <2>3. CASE job[r].user # u
    <3>1. PendingOf(u)' = PendingOf(u) BY <2>3, <1>4, <1>6 DEF PendingOf
    <3>2. Submitting(u)' = Submitting(u) BY <2>3, <1>7, IdleFacts DEF Submitting
    <3> QED BY <3>1, <3>2, <2>1
  <2> QED BY <2>2, <2>3
<1> QED BY <1>8, <1>9, <1>10, <1>11, <1>12 DEF IInv

\* A request that ends without touching role_requests.
LEMMA OtherEnd ==
  ASSUME IInv, NEW r \in Requests, Finish(r), UNCHANGED <<rows, verdicts, contested>>,
         roles' \in [Users -> SUBSET Roles], barred' \in [Users -> SUBSET Marks],
         usurped' \in BOOLEAN, AdminsRemain'
  PROVE  IInv'
<1>1. job' \in [Requests -> Jobs] BY JobAfter DEF IInv
<1>2. TypeOK' BY <1>1 DEF IInv, TypeOK
<1>3. JobsAreSound' BY JobsStaySound DEF IInv
<1>4. VerdictsSettle' /\ DecidedOnce' BY <1>2, VerdictsKept DEF IInv
<1>5. \A u \in Users : PendingOf(u)' = PendingOf(u) BY DEF PendingOf
<1>6. PendingBounded' BY <1>5, FewerPending, FewerSubmitting DEF IInv
<1> QED BY <1>2, <1>3, <1>4, <1>6 DEF IInv

LEMMA ApproveStep ==
  ASSUME IInv, NEW r \in Requests, CommitApprove(r)
  PROVE  IInv'
<1> DEFINE i == job[r].row
<1>1. job[r].step = "approve" /\ Finish(r) /\ UNCHANGED <<barred, usurped>>
  BY DEF CommitApprove
<1>2. i \in DOMAIN rows /\ rows[i].user \in Users /\ rows[i].role \in Roles
  BY <1>1, RowsFacts DEF IInv, JobsAreSound, Rows
<1>3. CASE rows[i].role \in roles[rows[i].user]
  <2>1. UNCHANGED <<roles, rows, verdicts, contested>> BY <1>3 DEF CommitApprove
  <2>2. AdminsRemain' BY <2>1, <1>1 DEF IInv, AdminsRemain, May
  <2> QED BY <2>1, <2>2, <1>1, OtherEnd DEF IInv, TypeOK
<1>4. CASE rows[i].role \notin roles[rows[i].user]
  <2>1. /\ roles' = [roles EXCEPT ![rows[i].user] = @ \cup {rows[i].role}]
        /\ RecordVerdict(r, "approved")
    BY <1>4 DEF CommitApprove
  <2>2. /\ roles' \in [Users -> SUBSET Roles]
        /\ \A u \in Users : roles[u] \subseteq roles'[u]
    BY <2>1, <1>2 DEF IInv, TypeOK
  <2>3. AdminsRemain' BY <2>2, <1>1 DEF IInv, AdminsRemain, May, Permitted
  <2>4. "approved" \in Verdicts BY DEF Verdicts
  <2>5. /\ rows' \in Seq(Rows) /\ Len(rows') <= MaxRows
        /\ verdicts' \in [1..MaxRows -> SUBSET Verdicts] /\ contested' \subseteq 1..MaxRows
        /\ VerdictsSettle' /\ DecidedOnce' /\ PendingBounded' /\ JobsAreSound'
    BY <1>1, <2>1, <2>4, VerdictRecorded
  <2>6. TypeOK' BY <1>1, <2>2, <2>5, JobAfter DEF IInv, TypeOK
  <2> QED BY <2>3, <2>5, <2>6 DEF IInv
<1> QED BY <1>3, <1>4

LEMMA RejectStep ==
  ASSUME IInv, NEW r \in Requests, CommitReject(r)
  PROVE  IInv'
<1>1. /\ job[r].step = "reject" /\ RecordVerdict(r, "rejected") /\ Finish(r)
      /\ UNCHANGED <<roles, barred, usurped>>
  BY DEF CommitReject
<1>2. "rejected" \in Verdicts BY DEF Verdicts
<1>3. /\ rows' \in Seq(Rows) /\ Len(rows') <= MaxRows
      /\ verdicts' \in [1..MaxRows -> SUBSET Verdicts] /\ contested' \subseteq 1..MaxRows
      /\ VerdictsSettle' /\ DecidedOnce' /\ PendingBounded' /\ JobsAreSound'
  BY <1>1, <1>2, VerdictRecorded
<1>4. TypeOK' BY <1>1, <1>3, JobAfter DEF IInv, TypeOK
<1>5. AdminsRemain' BY <1>1 DEF IInv, AdminsRemain, May
<1> QED BY <1>3, <1>4, <1>5 DEF IInv

\* A change of somebody else by an administrator who is still entitled to it leaves him.
LEMMA ActorRemains ==
  ASSUME IInv, NEW a \in Users, NEW u \in Users, a # u,
         \A x \in Users : x # u => roles'[x] = roles[x] /\ barred'[x] = barred[x],
         usurped' = (usurped \/ ~May(a, "administer_users"))
  PROVE  AdminsRemain' /\ usurped' \in BOOLEAN
<1>1. May(a, "administer_users") => May(a, "administer_users")' BY DEF May
<1> QED BY <1>1 DEF AdminsRemain

LEMMA ReplaceStep ==
  ASSUME IInv, NEW r \in Requests, CommitReplace(r)
  PROVE  IInv'
<1> DEFINE j == job[r]
<1>1. /\ job[r].step = "replace" /\ Finish(r)
      /\ UNCHANGED <<barred, rows, verdicts, contested>>
  BY DEF CommitReplace
<1>2. j.actor \in Users /\ j.user \in Users /\ j.actor # j.user
  BY <1>1 DEF IInv, JobsAreSound
<1>3. CASE (j.want \ j.had) \cap roles[j.user] # {}
  <2>1. UNCHANGED <<roles, usurped>> BY <1>3 DEF CommitReplace
  <2>2. AdminsRemain' BY <2>1, <1>1 DEF IInv, AdminsRemain, May
  <2> QED BY <2>1, <2>2, <1>1, OtherEnd DEF IInv, TypeOK
<1>4. CASE ~((j.want \ j.had) \cap roles[j.user] # {})
  <2>1. /\ roles' = [roles EXCEPT ![j.user] = Replaced(@, j.had, j.want)]
        /\ usurped' = (usurped \/ ~May(j.actor, "administer_users"))
    BY <1>4 DEF CommitReplace
  <2>2. j.want \subseteq Roles /\ roles[j.user] \subseteq Roles
    BY <1>2 DEF IInv, TypeOK, Jobs
  <2>3. Replaced(roles[j.user], j.had, j.want) \subseteq Roles BY <2>2 DEF Replaced
  <2>4. /\ roles' \in [Users -> SUBSET Roles]
        /\ \A x \in Users : x # j.user => roles'[x] = roles[x]
    BY <2>1, <2>3 DEF IInv, TypeOK
  <2>5. AdminsRemain' /\ usurped' \in BOOLEAN
    BY <1>1, <1>2, <2>1, <2>4, ActorRemains
  <2> QED BY <1>1, <2>4, <2>5, OtherEnd DEF IInv, TypeOK
<1> QED BY <1>3, <1>4

LEMMA MarkStep ==
  ASSUME IInv, NEW r \in Requests, CommitMark(r)
  PROVE  IInv'
<1> DEFINE j == job[r]
           marks == IF j.on THEN barred[j.user] \cup {j.mark} ELSE barred[j.user] \ {j.mark}
<1>1. /\ job[r].step = "mark" /\ Finish(r)
      /\ UNCHANGED <<roles, rows, verdicts, contested>>
      /\ barred' = [barred EXCEPT ![j.user] = marks]
      /\ usurped' = (usurped \/ ~May(j.actor, "administer_users"))
  BY DEF CommitMark
<1>2. j.actor \in Users /\ j.user \in Users /\ j.actor # j.user /\ j.mark \in Marks
  BY <1>1 DEF IInv, JobsAreSound
<1>3. marks \subseteq Marks BY <1>2 DEF IInv, TypeOK
<1> HIDE DEF marks
<1>4. /\ barred' \in [Users -> SUBSET Marks]
      /\ \A x \in Users : x # j.user => barred'[x] = barred[x]
  BY <1>1, <1>3 DEF IInv, TypeOK
<1>5. AdminsRemain' /\ usurped' \in BOOLEAN
  BY <1>1, <1>2, <1>4, ActorRemains
<1> QED BY <1>1, <1>4, <1>5, OtherEnd DEF IInv, TypeOK

LEMMA AbandonStep ==
  ASSUME IInv, NEW r \in Requests, Abandon(r)
  PROVE  IInv'
<1>1. Finish(r) /\ UNCHANGED <<roles, barred, rows, verdicts, contested, usurped>>
  BY DEF Abandon, history
<1>2. AdminsRemain' BY <1>1 DEF IInv, AdminsRemain, May
<1> QED BY <1>1, <1>2, OtherEnd DEF IInv, TypeOK

LEMMA Invariant == Spec => []IInv
<1>1. ASSUME IInv, [Next]_vars PROVE IInv'
  <2>1. ASSUME NEW r \in Requests, Submit(r) \/ Decide(r) \/ Replace(r) \/ Mark(r)
        PROVE  IInv'
    BY <1>1, <2>1, BeginKinds, BeginStep DEF IInv
  <2>2. CASE UNCHANGED vars
    <3>1. /\ UNCHANGED <<roles, barred, rows, job, verdicts, contested, usurped>>
      BY <2>2 DEF vars, history
    <3> QED
      BY <1>1, <3>1 DEF IInv, TypeOK, JobsAreSound, AdminsRemain, May, VerdictsSettle,
                        DecidedOnce, PendingBounded, PendingOf
  <2> QED
    BY <1>1, <2>1, <2>2, SubmitStep, ApproveStep, RejectStep, ReplaceStep, MarkStep,
       AbandonStep DEF Next
<1> QED BY InitIInv, <1>1, PTL DEF Spec

-----------------------------------------------------------------------------
\* Every reachable state is well typed.
THEOREM TypeCorrect == Spec => []TypeOK
<1>1. IInv => TypeOK BY DEF IInv
<1> QED BY Invariant, <1>1, PTL

\* A role request is both approved and rejected only if approve_role_request and
\* reject_role_request were under way at the same time.
THEOREM OneVerdict == Spec => []DecidedOnce
<1>1. IInv => DecidedOnce BY DEF IInv
<1> QED BY Invariant, <1>1, PTL

\* submit_role_request lets no user have more pending requests than HTTP requests run at
\* once.
THEOREM PendingStaysBounded == Spec => []PendingBounded
<1>1. IInv => PendingBounded BY DEF IInv
<1> QED BY Invariant, <1>1, PTL

\* The routes of admin.py, none of which lets a user change himself, leave an
\* administrator as long as those who change others are still entitled to it.
THEOREM AnAdminRemains == Spec => []AdminsRemain
<1>1. IInv => AdminsRemain BY DEF IInv
<1> QED BY Invariant, <1>1, PTL
=============================================================================
