------------------------------- MODULE Lockout -------------------------------
(***************************************************************************)
(* The login lockout of auth.py: for one address, the counter              *)
(* login_attempts:<address> in Redis, read before the password is checked  *)
(* and incremented after it proved wrong.  Addresses do not interact.      *)
(*                                                                         *)
(* A login is cut at its calls to Redis and at the password check.  The    *)
(* row written to login_attempts is a log that no code reads to decide.    *)
(***************************************************************************)
EXTENDS Naturals, FiniteSets

CONSTANTS
  Requests,     \* logins served at the same time
  MaxAttempts,  \* MAX_LOGIN_ATTEMPTS
  MaxOutages    \* bound: how often Redis goes away

ASSUME RequestAssumption == IsFiniteSet(Requests)
ASSUME AttemptAssumption == MaxAttempts \in Nat \ {0}
ASSUME BoundAssumption == MaxOutages \in Nat

VARIABLES
  count,     \* the value of the key (0: there is none)
  ttl,       \* whether it expires
  redis,     \* whether Redis answers
  outages,   \* how often it has gone away
  pc,        \* what each login is about to do
  orphaned   \* history: a login died before it gave the key its expiry

vars == <<count, ttl, redis, outages, pc, orphaned>>

Blocked == count >= MaxAttempts

TypeOK ==
  /\ count \in Nat /\ ttl \in BOOLEAN
  /\ redis \in BOOLEAN /\ outages \in 0..MaxOutages
  /\ pc \in [Requests -> {"idle", "password", "incr", "expire"}]
  /\ orphaned \in BOOLEAN

Init ==
  /\ count = 0 /\ ttl = FALSE
  /\ redis = TRUE /\ outages = 0
  /\ pc = [r \in Requests |-> "idle"]
  /\ orphaned = FALSE

-----------------------------------------------------------------------------
Go(r, from, to) == pc[r] = from /\ pc' = [pc EXCEPT ![r] = to]

\* Variant: one attempt too many is let through.
CheckBlockedLate(r) ==
  /\ redis => count <= MaxAttempts
  /\ Go(r, "idle", "password")
  /\ UNCHANGED <<count, ttl, redis, outages, orphaned>>

\* check_login_blocked: without Redis nobody is blocked.
CheckBlocked(r) ==
  /\ redis => ~Blocked
  /\ Go(r, "idle", "password")
  /\ UNCHANGED <<count, ttl, redis, outages, orphaned>>

\* authenticate_user: an unknown address or a wrong password; a closed account or a
\* success leave the counter as it is.
Authenticate(r) ==
  /\ Go(r, "password", "incr") \/ Go(r, "password", "idle")
  /\ UNCHANGED <<count, ttl, redis, outages, orphaned>>

\* Variant: the expiry is left to the failure that locks.
IncrementAtLimit(r) ==
  /\ pc[r] = "incr"
  /\ IF redis
     THEN /\ count' = count + 1
          /\ Go(r, "incr", IF count' = MaxAttempts + 1 THEN "expire" ELSE "idle")
     ELSE Go(r, "incr", "idle") /\ UNCHANGED count
  /\ UNCHANGED <<ttl, redis, outages, orphaned>>

\* Variant: the key is decremented.
Decrement(r) ==
  /\ pc[r] = "incr"
  /\ IF redis
     THEN count' = count - 1 /\ Go(r, "incr", "expire")
     ELSE Go(r, "incr", "idle") /\ UNCHANGED count
  /\ UNCHANGED <<ttl, redis, outages, orphaned>>

\* record_login_failure: INCR, which keeps the expiry a key has ...
Increment(r) ==
  /\ pc[r] = "incr"
  /\ IF redis
     THEN /\ count' = count + 1
          /\ Go(r, "incr", IF count' = 1 THEN "expire" ELSE "idle")
     ELSE Go(r, "incr", "idle") /\ UNCHANGED count
  /\ UNCHANGED <<ttl, redis, outages, orphaned>>

\* ... and EXPIRE, by the login that created the key.
GiveExpiry(r) ==
  /\ Go(r, "expire", "idle")
  /\ ttl' = (count > 0)
  /\ UNCHANGED <<count, redis, outages, orphaned>>

\* The end of LOCKOUT_MINUTES.
KeyExpires ==
  /\ ttl
  /\ count' = 0 /\ ttl' = FALSE
  /\ UNCHANGED <<redis, outages, pc, orphaned>>

\* get_redis returns None while Redis does not answer to PING, and reconnects later.
RedisGoes ==
  /\ redis /\ outages < MaxOutages
  /\ redis' = FALSE /\ outages' = outages + 1
  /\ UNCHANGED <<count, ttl, pc, orphaned>>

RedisReturns ==
  /\ ~redis /\ redis' = TRUE
  /\ UNCHANGED <<count, ttl, outages, pc, orphaned>>

\* The worker dies, or a call to Redis or to the database fails.
Abandon(r) ==
  /\ pc[r] # "idle"
  /\ orphaned' = (orphaned \/ pc[r] = "expire")
  /\ Go(r, pc[r], "idle")
  /\ UNCHANGED <<count, ttl, redis, outages>>

Continue(r) == Authenticate(r) \/ Increment(r) \/ GiveExpiry(r)

Next ==
  \/ \E r \in Requests : CheckBlocked(r) \/ Continue(r) \/ Abandon(r)
  \/ KeyExpires \/ RedisGoes \/ RedisReturns

\* A login that does not die goes on, and Redis drops expired keys.
Spec ==
  /\ Init /\ [][Next]_vars
  /\ \A r \in Requests : WF_vars(Continue(r))
  /\ WF_vars(KeyExpires)

-----------------------------------------------------------------------------
(* Properties. *)

\* The lockout lets through at most as many extra failures as logins run at once: the
\* counter is read before the password check and incremented after it.  Each outage of
\* Redis, during which nobody is blocked, lets through as many again.
FailuresBounded == count < MaxAttempts + Cardinality(Requests) * (1 + outages)

\* A lockout ends by itself, unless the login that created the counter died before it
\* gave the counter its expiry (record_login_failure makes two calls).
LockoutEnds == Blocked ~> (~Blocked \/ orphaned)
=============================================================================
