------------------------------ MODULE Sessions ------------------------------
(***************************************************************************)
(* Accounts signing in and out: registration, the refresh tokens of        *)
(* auth.py and AuthService, and the change of an account's e-mail address. *)
(*                                                                         *)
(* A request is cut at its commits and between a check and the write that  *)
(* relies on it.  An access token is a signed copy of the account's        *)
(* identity and e-mail and is in no table: it is handed out with a refresh *)
(* token, so each token records the e-mail that its access token carries.  *)
(* An e-mail change link is signed with the same secret and holds the same *)
(* two claims, so that either is accepted where the other is expected.     *)
(* Expiry only takes behaviours away and is left out.                      *)
(***************************************************************************)
EXTENDS Naturals, Sequences, FiniteSets

CONSTANTS
  Requests,     \* requests served at the same time
  Users,        \* accounts, before and after their registration
  Emails,
  NoEmail,      \* the e-mail of an account that is not registered
  MaxTokens,    \* bound: refresh tokens ever created
  Failures      \* whether a request may die between two steps

ASSUME EmailAssumption == NoEmail \notin Emails
ASSUME BoundAssumption == MaxTokens \in Nat
ASSUME FailureAssumption == Failures \in BOOLEAN

VARIABLES
  email,     \* users.email
  open,      \* users that are neither archived nor disabled
  tokens,    \* refresh_tokens, in the order of their creation
  links,     \* e-mail change links sent: the account and its new address
  job,       \* what each request is doing
  closed,    \* history: logins of an account when its tokens were last revoked
  late       \* history: those of them that a refresh under way had already verified

history == <<closed, late>>
vars == <<email, open, tokens, links, job, history>>

-----------------------------------------------------------------------------
\* parent: the token spent for this one (0: none); login: the token of the sign-in
\* it descends from; mail: the address in the access token issued with it.
Tokens == [user : Users, mail : Emails, revoked : BOOLEAN,
           parent : 0..MaxTokens, login : 1..MaxTokens]

Steps == {"idle", "insert", "create", "spend", "reload", "apply", "revoke"}

Jobs == [step : Steps, user : Users \cup {"none"}, mail : Emails \cup {"none"},
         token : 0..MaxTokens]

Idle == [step |-> "idle", user |-> "none", mail |-> "none", token |-> 0]

TypeOK ==
  /\ email \in [Users -> Emails \cup {NoEmail}]
  /\ open \subseteq Users
  /\ tokens \in Seq(Tokens) /\ Len(tokens) <= MaxTokens
  /\ links \subseteq Users \X Emails
  /\ job \in [Requests -> Jobs]
  /\ closed \cup late \subseteq 1..MaxTokens

Init ==
  /\ email = [u \in Users |-> NoEmail]
  /\ open = Users
  /\ tokens = <<>>
  /\ links = {}
  /\ job = [r \in Requests |-> Idle]
  /\ closed = {} /\ late = {}

-----------------------------------------------------------------------------
Taken(e) == \E u \in Users : email[u] = e

\* What a signed identity may say: the access token of a session or a link.
Signed == links \cup {<<tokens[i].user, tokens[i].mail>> : i \in DOMAIN tokens}

\* get_current_user: the account still exists, is open, and the signed identity
\* carries its present e-mail.
Authorised(u) == u \in open /\ <<u, email[u]>> \in Signed

Step(r, s) == job' = [job EXCEPT ![r].step = s]
Finish(r) == job' = [job EXCEPT ![r] = Idle]
Begin(r, j) == job[r] = Idle /\ job' = [job EXCEPT ![r] = j]

-----------------------------------------------------------------------------
(* Registration: the check that the address is free, then the insert, which UNIQUE
   may refuse.  A new row is open. *)

Register(r) ==
  /\ \E u \in Users, e \in Emails :
       /\ email[u] = NoEmail /\ \A q \in Requests : job[q].user # u
       /\ ~Taken(e)
       /\ Begin(r, [step |-> "insert", user |-> u, mail |-> e, token |-> 0])
  /\ UNCHANGED <<email, open, tokens, links, history>>

Insert(r) ==
  /\ job[r].step = "insert"
  /\ IF Taken(job[r].mail)
     THEN Finish(r) /\ UNCHANGED email
     ELSE email' = [email EXCEPT ![job[r].user] = job[r].mail] /\ Step(r, "create")
  /\ UNCHANGED <<open, tokens, links, history>>

-----------------------------------------------------------------------------
(* Login, once Lockout lets it through: authenticate_user finds the right password
   and an open account.  A refused login leaves no trace here. *)

Login(r) ==
  /\ \E u \in open :
       /\ email[u] # NoEmail
       /\ Begin(r, [step |-> "create", user |-> u, mail |-> email[u], token |-> 0])
  /\ UNCHANGED <<email, open, tokens, links, history>>

\* create_session, at the end of a registration, a login or a refresh.
CreateToken(r) ==
  /\ job[r].step = "create"
  /\ Len(tokens) < MaxTokens
  /\ tokens' = Append(tokens,
       [user |-> job[r].user, mail |-> job[r].mail, revoked |-> FALSE,
        parent |-> job[r].token,
        login |-> IF job[r].token = 0 THEN Len(tokens) + 1 ELSE tokens[job[r].token].login])
  /\ Finish(r)
  /\ UNCHANGED <<email, open, links, history>>

-----------------------------------------------------------------------------
(* Refresh: verify, spend in one commit, read the account, create in another. *)

\* Variant: the token is looked up by its hash alone.
RefreshAny(r) ==
  /\ \E i \in DOMAIN tokens :
       Begin(r, [step |-> "spend", user |-> tokens[i].user, mail |-> "none", token |-> i])
  /\ UNCHANGED <<email, open, tokens, links, history>>

\* verify_refresh_token
Valid(i) == ~tokens[i].revoked

Refresh(r) ==
  /\ \E i \in DOMAIN tokens :
       /\ Valid(i)
       /\ Begin(r, [step |-> "spend", user |-> tokens[i].user, mail |-> "none", token |-> i])
  /\ UNCHANGED <<email, open, tokens, links, history>>

\* Variant: the old token is not spent before the new one is created.
SpendNothing(r) ==
  /\ job[r].step = "spend"
  /\ Step(r, "reload")
  /\ UNCHANGED <<email, open, tokens, links, history>>

Spend(r) ==
  /\ job[r].step = "spend"
  /\ tokens' = [tokens EXCEPT ![job[r].token].revoked = TRUE]
  /\ Step(r, "reload")
  /\ UNCHANGED <<email, open, links, history>>

\* Variant: the access token is made without the e-mail.
ReloadNoEmail(r) ==
  /\ job[r].step = "reload"
  /\ job' = [job EXCEPT ![r].step = "create", ![r].mail = NoEmail]
  /\ UNCHANGED <<email, open, tokens, links, history>>

Reload(r) ==
  /\ job[r].step = "reload"
  /\ job' = [job EXCEPT ![r].step = "create", ![r].mail = email[job[r].user]]
  /\ UNCHANGED <<email, open, tokens, links, history>>

-----------------------------------------------------------------------------
(* Logout and the change of e-mail both end in revoke_user_tokens. *)

Logout(r) ==
  /\ \E u \in Users :
       /\ Authorised(u)
       /\ Begin(r, [step |-> "revoke", user |-> u, mail |-> "none", token |-> 0])
  /\ UNCHANGED <<email, open, tokens, links, history>>

LoginsOf(u) == {tokens[i].login : i \in {j \in DOMAIN tokens : tokens[j].user = u}}

\* Logins whose refresh is under way.
UnderWay(u) ==
  {tokens[job[q].token].login : q \in {p \in Requests : job[p].user = u /\ job[p].token # 0}}

RevokeAll(r) ==
  /\ job[r].step = "revoke"
  /\ tokens' = [i \in DOMAIN tokens |->
       IF tokens[i].user = job[r].user THEN [tokens[i] EXCEPT !.revoked = TRUE] ELSE tokens[i]]
  /\ closed' = closed \cup LoginsOf(job[r].user)
  /\ late' = late \cup UnderWay(job[r].user)
  /\ Finish(r)
  /\ UNCHANGED <<email, open, links>>

\* request_email_change: sends the link, writes nothing.
RequestEmailChange(r) ==
  /\ job[r] = Idle
  /\ \E u \in Users, e \in Emails :
       Authorised(u) /\ ~Taken(e) /\ links' = links \cup {<<u, e>>}
  /\ UNCHANGED <<email, open, tokens, job, history>>

\* verify_and_apply_email_change: the address is checked again ...
VerifyEmail(r) ==
  /\ \E l \in Signed :
       /\ ~Taken(l[2])
       /\ Begin(r, [step |-> "apply", user |-> l[1], mail |-> l[2], token |-> 0])
  /\ UNCHANGED <<email, open, tokens, links, history>>

\* ... and written; UNIQUE(users.email) decides.  A link opened twice at once writes
\* the account's own address again.
ApplyEmail(r) ==
  /\ job[r].step = "apply"
  /\ IF \E u \in Users \ {job[r].user} : email[u] = job[r].mail
     THEN Finish(r) /\ UNCHANGED email
     ELSE email' = [email EXCEPT ![job[r].user] = job[r].mail] /\ Step(r, "revoke")
  /\ UNCHANGED <<open, tokens, links, history>>

-----------------------------------------------------------------------------
(* The rest of the world. *)

\* The administrator disables, archives or reopens an account.
SetAccount(u) ==
  /\ email[u] # NoEmail
  /\ open' = IF u \in open THEN open \ {u} ELSE open \cup {u}
  /\ UNCHANGED <<email, tokens, links, job, history>>

\* A worker dies or the connection to the database breaks.
Abandon(r) ==
  /\ Failures /\ job[r] # Idle
  /\ Finish(r)
  /\ UNCHANGED <<email, open, tokens, links, history>>

Continue(r) ==
  \/ Insert(r) \/ CreateToken(r)
  \/ Spend(r) \/ Reload(r) \/ RevokeAll(r) \/ ApplyEmail(r)

Next ==
  \/ \E r \in Requests :
       \/ Register(r) \/ Login(r) \/ Refresh(r) \/ Logout(r)
       \/ RequestEmailChange(r) \/ VerifyEmail(r)
       \/ Continue(r) \/ Abandon(r)
  \/ \E u \in Users : SetAccount(u)

Spec == Init /\ [][Next]_vars

-----------------------------------------------------------------------------
(* Properties. *)

\* A refresh token is spent before its successor exists: at no moment, whichever
\* requests die, do a token and the one it was exchanged for both open a session
\* (refresh_session commits the revocation first).
RotationSpends ==
  \A i \in DOMAIN tokens :
    tokens[i].parent # 0 => /\ tokens[tokens[i].parent].revoked
                            /\ tokens[tokens[i].parent].user = tokens[i].user

\* Once the revocation that ends a logout or a change of e-mail has committed, the
\* sessions of the account are over: only a refresh that had verified its token before
\* may still carry one on.  A request that dies before that commit closes nothing.
LogoutCloses ==
  \A i \in DOMAIN tokens :
    tokens[i].login \in closed /\ ~tokens[i].revoked => tokens[i].login \in late

=============================================================================
