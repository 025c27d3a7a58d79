---------------------------- MODULE LockoutProofs ----------------------------
(***************************************************************************)
(* Lockout keeps the number of failed logins within its bound, for every   *)
(* limit, every number of logins served at once and every number of        *)
(* outages.                                                                *)
(***************************************************************************)
EXTENDS Lockout, FiniteSetTheorems, TLAPS

N == Cardinality(Requests)

\* Logins that passed the check and have not counted their failure.
Admitted == {r \in Requests : pc[r] \in {"password", "incr"}}

\* Those admitted are counted before they count themselves; while Redis is away the count
\* stands still and leaves room for all logins at once.
RoomLeft ==
  /\ count + Cardinality(Admitted) < MaxAttempts + N * (1 + outages)
  /\ ~redis => count < MaxAttempts + N * outages

IInv == TypeOK /\ RoomLeft

LEMMA Numbers ==
  ASSUME TypeOK
  PROVE  /\ N \in Nat /\ MaxAttempts \in Nat \ {0} /\ outages \in Nat /\ count \in Nat
         /\ IsFiniteSet(Admitted) /\ Cardinality(Admitted) \in 0..N
<1>1. IsFiniteSet(Requests) BY RequestAssumption
<1>2. Admitted \subseteq Requests BY DEF Admitted
<1>3. IsFiniteSet(Admitted) /\ Cardinality(Admitted) <= N
  BY <1>1, <1>2, FS_Subset DEF N
<1>4. N \in Nat /\ Cardinality(Admitted) \in Nat
  BY <1>1, <1>3, FS_CardinalityType DEF N
<1> QED BY <1>3, <1>4, AttemptAssumption, BoundAssumption DEF TypeOK

\* A step that admits nobody and leaves the counter and Redis alone keeps the room.
LEMMA FewerAdmitted ==
  ASSUME TypeOK, TypeOK', RoomLeft, Admitted' \subseteq Admitted,
         count' <= count, redis' = redis, outages' = outages
  PROVE  RoomLeft'
<1>1. Cardinality(Admitted') <= Cardinality(Admitted)
  BY Numbers, FS_Subset
<1>2. N' = N BY DEF N
<1>3. Cardinality(Admitted') \in Nat /\ count' \in Nat
  BY Numbers, <1>1, FS_Subset, FS_CardinalityType DEF TypeOK
<1> DEFINE A == Cardinality(Admitted)
           B == Cardinality(Admitted')
           K == N * (1 + outages)
           M == N * outages
<1>4. K \in Nat /\ M \in Nat /\ A \in Nat /\ B \in Nat
  BY Numbers, <1>3
<1>5. count + A < MaxAttempts + K /\ (~redis => count < MaxAttempts + M)
  BY DEF RoomLeft
<1>6. B <= A BY <1>1
<1> HIDE DEF A, B, K, M
<1>7. count' + B < MaxAttempts + K /\ (~redis' => count' < MaxAttempts + M)
  BY <1>3, <1>4, <1>5, <1>6, Numbers
<1> QED BY <1>7, <1>2 DEF RoomLeft, A, B, K, M

LEMMA InitIInv == Init => IInv
<1> SUFFICES ASSUME Init PROVE IInv
  OBVIOUS
<1>1. TypeOK
  <2>1. count \in Nat /\ outages \in 0..MaxOutages
    BY BoundAssumption DEF Init
  <2>2. ttl \in BOOLEAN /\ redis \in BOOLEAN /\ orphaned \in BOOLEAN
    BY DEF Init
  <2>3. pc \in [Requests -> {"idle", "password", "incr", "expire"}]
    BY DEF Init
  <2> QED BY <2>1, <2>2, <2>3 DEF TypeOK
<1>2. Cardinality(Admitted) = 0
  <2>1. Admitted = {} BY DEF Init, Admitted
  <2> QED BY <2>1, FS_EmptySet
<1>3. count = 0 /\ outages = 0 /\ redis BY DEF Init
<1>4. 0 + 0 < MaxAttempts + N * (1 + 0) BY <1>1, Numbers
<1> QED BY <1>1, <1>2, <1>3, <1>4 DEF IInv, RoomLeft

LEMMA StepType ==
  ASSUME TypeOK, [Next]_vars
  PROVE  TypeOK'
<1> USE DEF TypeOK
<1>1. ASSUME NEW r \in Requests, CheckBlocked(r) PROVE TypeOK'
  BY <1>1 DEF CheckBlocked, Go
<1>2. ASSUME NEW r \in Requests, Authenticate(r) PROVE TypeOK'
  BY <1>2 DEF Authenticate, Go
<1>3. ASSUME NEW r \in Requests, Increment(r) PROVE TypeOK'
  BY <1>3 DEF Increment, Go
<1>4. ASSUME NEW r \in Requests, GiveExpiry(r) PROVE TypeOK'
  BY <1>4 DEF GiveExpiry, Go
<1>5. CASE KeyExpires BY <1>5 DEF KeyExpires
<1>6. CASE RedisGoes
  <2>1. outages' \in 0..MaxOutages BY <1>6, BoundAssumption DEF RedisGoes
  <2>2. redis' \in BOOLEAN BY <1>6 DEF RedisGoes
  <2> QED BY <1>6, <2>1, <2>2 DEF RedisGoes
<1>7. CASE RedisReturns BY <1>7 DEF RedisReturns
<1>8. ASSUME NEW r \in Requests, Abandon(r) PROVE TypeOK'
  BY <1>8 DEF Abandon, Go
<1>9. CASE UNCHANGED vars BY <1>9 DEF vars
<1> QED
  BY <1>1, <1>2, <1>3, <1>4, <1>5, <1>6, <1>7, <1>8, <1>9 DEF Next, Continue

LEMMA StepRoom ==
  ASSUME IInv, TypeOK', [Next]_vars
  PROVE  RoomLeft'
<1> USE DEF IInv
<1>0. N' = N BY DEF N
<1>1. ASSUME NEW r \in Requests, CheckBlocked(r) PROVE RoomLeft'
  <2>1. /\ count' = count /\ outages' = outages /\ redis' = redis
        /\ redis => count < MaxAttempts
    BY <1>1, Numbers DEF CheckBlocked, Blocked
  <2>2. Cardinality(Admitted') \in 0..N
    <3>1. Admitted' \subseteq Requests BY DEF Admitted
    <3> QED BY <3>1, RequestAssumption, FS_Subset, FS_CardinalityType DEF N
  <2> DEFINE B == Cardinality(Admitted')
             K == N * (1 + outages)
             M == N * outages
  <2>3. K = N + M /\ K \in Nat /\ M \in Nat BY Numbers
  <2>4. ~redis => count < MaxAttempts + M BY DEF RoomLeft
  <2>5. B \in 0..N BY <2>2
  <2> HIDE DEF B, K, M
  <2>6. count + B < MaxAttempts + K
    BY <2>1, <2>3, <2>4, <2>5, Numbers
  <2> QED BY <2>1, <2>4, <2>6, <1>0 DEF RoomLeft, B, K, M
<1>2. ASSUME NEW r \in Requests, Authenticate(r) PROVE RoomLeft'
  <2>1. Admitted' \subseteq Admitted BY <1>2 DEF Authenticate, Go, Admitted, TypeOK
  <2> QED BY <2>1, <1>2, FewerAdmitted, Numbers DEF Authenticate
<1>3. ASSUME NEW r \in Requests, Increment(r) PROVE RoomLeft'
  <2>1. Admitted' = Admitted \ {r} /\ r \in Admitted
    BY <1>3 DEF Increment, Go, Admitted, TypeOK
  <2>2. CASE redis
    <3>1. Cardinality(Admitted') = Cardinality(Admitted) - 1
      BY <2>1, Numbers, FS_RemoveElement
    <3>2. /\ count' = count + 1 /\ outages' = outages /\ redis' = redis
      BY <2>2, <1>3 DEF Increment
    <3> DEFINE A == Cardinality(Admitted)
               K == N * (1 + outages)
    <3>3. A \in Nat /\ K \in Nat BY Numbers
    <3>4. count + A < MaxAttempts + K BY DEF RoomLeft
    <3>5. Cardinality(Admitted') = A - 1 BY <3>1
    <3> HIDE DEF A, K
    <3>6. (count + 1) + (A - 1) < MaxAttempts + K BY <3>3, <3>4, Numbers
    <3>7. count' + Cardinality(Admitted') < MaxAttempts + K BY <3>6, <3>5, <3>2
    <3> QED BY <3>7, <3>2, <2>2, <1>0 DEF RoomLeft, K
  <2>3. CASE ~redis
    BY <2>3, <2>1, <1>3, FewerAdmitted, Numbers DEF Increment
  <2> QED BY <2>2, <2>3
<1>4. ASSUME NEW r \in Requests, GiveExpiry(r) PROVE RoomLeft'
  <2>1. Admitted' \subseteq Admitted BY <1>4 DEF GiveExpiry, Go, Admitted, TypeOK
  <2> QED BY <2>1, <1>4, FewerAdmitted, Numbers DEF GiveExpiry
<1>5. CASE KeyExpires
  <2>1. Admitted' \subseteq Admitted BY <1>5 DEF KeyExpires, Admitted
  <2> QED BY <2>1, <1>5, FewerAdmitted, Numbers DEF KeyExpires
<1>6. CASE RedisGoes
  <2>1. /\ Admitted' = Admitted /\ count' = count /\ outages' = outages + 1
    BY <1>6 DEF RedisGoes, Admitted
  <2> DEFINE A == Cardinality(Admitted)
             K == N * (1 + outages)
             L == N * (1 + (outages + 1))
  <2>2. L = K + N /\ K \in Nat /\ L \in Nat /\ A \in Nat BY Numbers
  <2>3. count + A < MaxAttempts + K BY DEF RoomLeft
  <2>4. N * (outages + 1) = K BY Numbers
  <2> HIDE DEF A, K, L
  <2>5. count + A < MaxAttempts + L /\ count < MaxAttempts + K
    BY <2>2, <2>3, Numbers
  <2> QED BY <2>1, <2>4, <2>5, <1>0 DEF RoomLeft, A, K, L
<1>7. CASE RedisReturns
  BY <1>7, <1>0 DEF RedisReturns, RoomLeft, Admitted
<1>8. ASSUME NEW r \in Requests, Abandon(r) PROVE RoomLeft'
  <2>1. Admitted' \subseteq Admitted BY <1>8 DEF Abandon, Go, Admitted, TypeOK
  <2> QED BY <2>1, <1>8, FewerAdmitted, Numbers DEF Abandon
<1>9. CASE UNCHANGED vars
  BY <1>9, <1>0 DEF vars, RoomLeft, Admitted
<1> QED
  BY <1>1, <1>2, <1>3, <1>4, <1>5, <1>6, <1>7, <1>8, <1>9 DEF Next, Continue

LEMMA Invariant == Spec => []IInv
<1>1. IInv /\ [Next]_vars => IInv' BY StepType, StepRoom DEF IInv
<1> QED BY InitIInv, <1>1, PTL DEF Spec

\* Every reachable state is well typed.
THEOREM TypeCorrect == Spec => []TypeOK
<1>1. IInv => TypeOK BY DEF IInv
<1> QED BY Invariant, <1>1, PTL

\* auth.py lets through at most as many failures beyond MAX_LOGIN_ATTEMPTS as logins run
\* at once, and as many again for each outage of Redis.
THEOREM FailuresStayBounded == Spec => []FailuresBounded
<1>1. IInv => FailuresBounded
  <2> SUFFICES ASSUME IInv PROVE FailuresBounded
    OBVIOUS
  <2> DEFINE K == N * (1 + outages)
             A == Cardinality(Admitted)
  <2>1. K \in Nat /\ A \in Nat BY Numbers DEF IInv
  <2>2. count + A < MaxAttempts + K BY DEF IInv, RoomLeft
  <2> HIDE DEF K, A
  <2>3. count < MaxAttempts + K BY <2>1, <2>2, Numbers DEF IInv
  <2> QED BY <2>3 DEF FailuresBounded, K, N
<1> QED BY Invariant, <1>1, PTL
=============================================================================
