---------------------------- MODULE SessionsProofs ----------------------------
(***************************************************************************)
(* Sessions for any number of accounts, addresses, tokens and simultaneous *)
(* requests: a refresh token is spent before its successor exists, and a   *)
(* logout closes every session but those that a refresh under way saved.   *)
(***************************************************************************)
EXTENDS Sessions, TLAPS

\* A token belongs to a registered account, the account of the sign-in it descends from.
TokensDescend ==
  \A i \in DOMAIN tokens :
    LET t == tokens[i] IN
    /\ email[t.user] # NoEmail
    /\ t.parent # 0 => t.parent \in DOMAIN tokens
    /\ t.login \in DOMAIN tokens /\ tokens[t.login].user = t.user

\* Only sign-ins that happened are closed.
ClosedHappened == closed \subseteq DOMAIN tokens

\* A refresh under way holds a token of its account, which is spent from the commit of the
\* revocation on, and whose sign-in is late once it is closed.
Exchanges(j) ==
  j.token # 0 =>
    /\ j.token \in DOMAIN tokens /\ tokens[j.token].user = j.user
    /\ j.step \in {"reload", "create"} => tokens[j.token].revoked
    /\ tokens[j.token].login \in closed => tokens[j.token].login \in late

\* What a request has seen of the account and the address it works for.
Prepared(j) ==
  /\ j.step # "idle" => j.user \in Users
  /\ j.step \in {"insert", "apply", "create"} => j.mail \in Emails
  /\ j.step = "create" => email[j.user] # NoEmail
  /\ j.step \in {"spend", "reload"} => j.token # 0
  /\ j.step \in {"insert", "apply"} => j.token = 0

JobsAreSound == \A r \in Requests : Exchanges(job[r]) /\ Prepared(job[r])

IInv ==
  /\ TypeOK
  /\ RotationSpends
  /\ LogoutCloses
  /\ TokensDescend
  /\ ClosedHappened
  /\ JobsAreSound

-----------------------------------------------------------------------------
(* The data. *)

\* A function on an initial segment of the numbers is a sequence.
LEMMA FunctionIsSeq ==
  ASSUME NEW S, NEW n \in Nat, NEW f \in [1..n -> S]
  PROVE  f \in Seq(S) /\ Len(f) = n /\ DOMAIN f = 1..n
OBVIOUS

LEMMA TokenFacts ==
  ASSUME TypeOK
  PROVE  /\ Len(tokens) \in 0..MaxTokens /\ DOMAIN tokens = 1..Len(tokens)
         /\ tokens \in [1..Len(tokens) -> Tokens]
         /\ \A i \in DOMAIN tokens : tokens[i] \in Tokens /\ i \in 1..MaxTokens /\ i # 0
<1>1. tokens \in Seq(Tokens) /\ Len(tokens) <= MaxTokens BY DEF TypeOK
<1> QED BY <1>1, BoundAssumption

LEMMA IdleFacts == Idle \in Jobs /\ Idle.step = "idle" /\ Idle.token = 0
BY BoundAssumption DEF Idle, Jobs, Steps

LEMMA IdleIsSound == Exchanges(Idle) /\ Prepared(Idle)
BY IdleFacts DEF Exchanges, Prepared

\* What the operators on job leave in it.
LEMMA JobAfter ==
  ASSUME TypeOK, NEW r \in Requests, NEW j \in Jobs, job' = [job EXCEPT ![r] = j]
  PROVE  /\ job' \in [Requests -> Jobs] /\ job'[r] = j
         /\ \A q \in Requests \ {r} : job'[q] = job[q]
BY DEF TypeOK

\* A step that changes nothing but the job of one request, and perhaps who is open and
\* which links are out, keeps the invariant if the new job is sound.
LEMMA JobStep ==
  ASSUME IInv, NEW r \in Requests, NEW j \in Jobs, job' = [job EXCEPT ![r] = j],
         Exchanges(j), Prepared(j), UNCHANGED <<email, open, tokens, links, history>>
  PROVE  IInv'
<1>1. /\ job' \in [Requests -> Jobs] /\ job'[r] = j
      /\ \A q \in Requests \ {r} : job'[q] = job[q]
  BY JobAfter DEF IInv
<1>2. TypeOK' BY <1>1 DEF IInv, TypeOK, history
<1>3. JobsAreSound'
  <2>1. \A q \in Requests : Exchanges(job'[q]) /\ Prepared(job'[q])
    BY <1>1 DEF IInv, JobsAreSound
  <2> QED BY <2>1 DEF JobsAreSound, Exchanges, Prepared, history
<1> QED
  BY <1>2, <1>3 DEF IInv, RotationSpends, LogoutCloses, TokensDescend, ClosedHappened, history

LEMMA FinishStep ==
  ASSUME IInv, NEW r \in Requests, Finish(r), UNCHANGED <<email, open, tokens, links, history>>
  PROVE  IInv'
BY JobStep, IdleFacts, IdleIsSound DEF Finish

-----------------------------------------------------------------------------
(* Steps that leave the tables alone. *)

\* A request that is idle begins with a sound job.
LEMMA RegisterStep ==
  ASSUME IInv, NEW r \in Requests, Register(r)
  PROVE  IInv'
<1>1. PICK u \in Users, e \in Emails :
        job' = [job EXCEPT ![r] = [step |-> "insert", user |-> u, mail |-> e, token |-> 0]]
  BY DEF Register, Begin
<1> DEFINE j == [step |-> "insert", user |-> u, mail |-> e, token |-> 0]
<1>2. j \in Jobs /\ Exchanges(j) /\ Prepared(j)
  BY BoundAssumption DEF Jobs, Steps, Exchanges, Prepared
<1> HIDE DEF j
<1> QED BY <1>1, <1>2, JobStep DEF Register, j

LEMMA LoginStep ==
  ASSUME IInv, NEW r \in Requests, Login(r)
  PROVE  IInv'
<1>1. PICK u \in open :
        /\ email[u] # NoEmail
        /\ job' = [job EXCEPT ![r] = [step |-> "create", user |-> u, mail |-> email[u],
                                      token |-> 0]]
  BY DEF Login, Begin
<1> DEFINE j == [step |-> "create", user |-> u, mail |-> email[u], token |-> 0]
<1>2. u \in Users /\ email[u] \in Emails BY <1>1 DEF IInv, TypeOK
<1>3. j \in Jobs /\ Exchanges(j) /\ Prepared(j)
  BY <1>1, <1>2, BoundAssumption DEF Jobs, Steps, Exchanges, Prepared
<1> HIDE DEF j
<1> QED BY <1>1, <1>3, JobStep DEF Login, j

\* The token verified is not revoked: if its sign-in is closed, it is late already.
LEMMA RefreshStep ==
  ASSUME IInv, NEW r \in Requests, Refresh(r)
  PROVE  IInv'
<1>1. PICK i \in DOMAIN tokens :
        /\ ~tokens[i].revoked
        /\ job' = [job EXCEPT ![r] = [step |-> "spend", user |-> tokens[i].user,
                                      mail |-> "none", token |-> i]]
  BY DEF Refresh, Begin, Valid
<1> DEFINE j == [step |-> "spend", user |-> tokens[i].user, mail |-> "none", token |-> i]
<1>2. tokens[i] \in Tokens /\ i \in 1..MaxTokens /\ i # 0 BY TokenFacts DEF IInv
<1>3. tokens[i].user \in Users BY <1>2 DEF Tokens
<1>4. tokens[i].login \in closed => tokens[i].login \in late
  BY <1>1 DEF IInv, LogoutCloses
<1>5. j \in Jobs BY <1>2, <1>3, BoundAssumption DEF Jobs, Steps
<1>6. Exchanges(j) /\ Prepared(j)
  BY <1>2, <1>3, <1>4 DEF Exchanges, Prepared
<1> HIDE DEF j
<1> QED BY <1>1, <1>5, <1>6, JobStep DEF Refresh, j

LEMMA LogoutStep ==
  ASSUME IInv, NEW r \in Requests, Logout(r)
  PROVE  IInv'
<1>1. PICK u \in Users :
        job' = [job EXCEPT ![r] = [step |-> "revoke", user |-> u, mail |-> "none", token |-> 0]]
  BY DEF Logout, Begin
<1> DEFINE j == [step |-> "revoke", user |-> u, mail |-> "none", token |-> 0]
<1>2. j \in Jobs /\ Exchanges(j) /\ Prepared(j)
  BY BoundAssumption DEF Jobs, Steps, Exchanges, Prepared
<1> HIDE DEF j
<1> QED BY <1>1, <1>2, JobStep DEF Logout, j

LEMMA VerifyEmailStep ==
  ASSUME IInv, NEW r \in Requests, VerifyEmail(r)
  PROVE  IInv'
<1>1. PICK l \in Signed :
        job' = [job EXCEPT ![r] = [step |-> "apply", user |-> l[1], mail |-> l[2], token |-> 0]]
  BY DEF VerifyEmail, Begin
<1> DEFINE j == [step |-> "apply", user |-> l[1], mail |-> l[2], token |-> 0]
<1>2. l[1] \in Users /\ l[2] \in Emails
  <2>1. CASE l \in links BY <2>1 DEF IInv, TypeOK
  <2>2. CASE \E i \in DOMAIN tokens : l = <<tokens[i].user, tokens[i].mail>>
    BY <2>2, TokenFacts DEF IInv, Tokens
  <2> QED BY <2>1, <2>2 DEF Signed
<1>3. j \in Jobs /\ Exchanges(j) /\ Prepared(j)
  BY <1>2, BoundAssumption DEF Jobs, Steps, Exchanges, Prepared
<1> HIDE DEF j
<1> QED BY <1>1, <1>3, JobStep DEF VerifyEmail, j

\* The address read is one: the token that is exchanged belongs to a registered account.
LEMMA ReloadStep ==
  ASSUME IInv, NEW r \in Requests, Reload(r)
  PROVE  IInv'
<1> DEFINE i == job[r]
           j == [i EXCEPT !.step = "create", !.mail = email[i.user]]
<1>1. i.step = "reload" /\ i \in Jobs /\ Exchanges(i) /\ Prepared(i)
  BY DEF Reload, IInv, TypeOK, JobsAreSound
<1>2. i.user \in Users /\ i.token # 0 /\ i.token \in DOMAIN tokens
      /\ tokens[i.token].user = i.user
  BY <1>1 DEF Exchanges, Prepared
<1>3. email[i.user] # NoEmail BY <1>2 DEF IInv, TokensDescend
<1>4. email[i.user] \in Emails BY <1>2, <1>3 DEF IInv, TypeOK
<1>5. job' = [job EXCEPT ![r] = j] BY DEF Reload, IInv, TypeOK
<1> HIDE DEF i
<1>6. j \in Jobs BY <1>1, <1>4 DEF Jobs, Steps
<1>7. j.step = "create" /\ j.user = i.user /\ j.token = i.token /\ j.mail = email[i.user]
  BY <1>1 DEF Jobs
<1> HIDE DEF j
<1>8. Exchanges(j) /\ Prepared(j)
  BY <1>1, <1>2, <1>3, <1>4, <1>7 DEF Exchanges, Prepared
<1> QED BY <1>5, <1>6, <1>8, JobStep DEF Reload

LEMMA RequestEmailChangeStep ==
  ASSUME IInv, NEW r \in Requests, RequestEmailChange(r)
  PROVE  IInv'
<1>1. PICK u \in Users, e \in Emails : links' = links \cup {<<u, e>>}
  BY DEF RequestEmailChange
<1>2. UNCHANGED <<email, open, tokens, job, closed, late>>
  BY DEF RequestEmailChange, history
<1>3. TypeOK' BY <1>1, <1>2 DEF IInv, TypeOK
<1> QED
  BY <1>2, <1>3 DEF IInv, RotationSpends, LogoutCloses, TokensDescend, ClosedHappened,
                    JobsAreSound, Exchanges, Prepared

LEMMA SetAccountStep ==
  ASSUME IInv, NEW u \in Users, SetAccount(u)
  PROVE  IInv'
<1>1. UNCHANGED <<email, tokens, links, job, closed, late>> BY DEF SetAccount, history
<1>2. TypeOK' BY <1>1 DEF IInv, TypeOK, SetAccount
<1> QED
  BY <1>1, <1>2 DEF IInv, RotationSpends, LogoutCloses, TokensDescend, ClosedHappened,
                    JobsAreSound, Exchanges, Prepared

-----------------------------------------------------------------------------
(* Steps that write an address. *)

\* An address once written is never taken back.
LEMMA EmailStep ==
  ASSUME IInv, NEW r \in Requests, NEW u \in Users, NEW e \in Emails, NEW s \in Steps,
         job[r].user = u, job[r].mail = e, job[r].token = 0,
         s \in {"create", "revoke"},
         email' = [email EXCEPT ![u] = e], Step(r, s), UNCHANGED <<open, tokens, links, history>>
  PROVE  IInv'
<1> DEFINE i == job[r]
           j == [i EXCEPT !.step = s]
<1>1. i \in Jobs BY DEF IInv, TypeOK
<1>2. email' \in [Users -> Emails \cup {NoEmail}] /\ email'[u] = e
      /\ \A v \in Users : email[v] # NoEmail => email'[v] # NoEmail
  BY EmailAssumption DEF IInv, TypeOK
<1>3. job' = [job EXCEPT ![r] = j] BY DEF Step, IInv, TypeOK
<1>4. i.user = u /\ i.mail = e /\ i.token = 0 OBVIOUS
<1> HIDE DEF i
<1>5. j \in Jobs /\ j.step = s /\ j.user = u /\ j.mail = e /\ j.token = 0
  BY <1>1, <1>4 DEF Jobs
<1> HIDE DEF j
<1>6. /\ job' \in [Requests -> Jobs] /\ job'[r] = j
      /\ \A q \in Requests \ {r} : job'[q] = job[q]
  BY <1>3, <1>5, JobAfter DEF IInv
<1>7. UNCHANGED <<open, tokens, links, closed, late>> BY DEF history
<1>8. TypeOK' BY <1>2, <1>6, <1>7 DEF IInv, TypeOK
<1>9. \A i0 \in DOMAIN tokens : tokens[i0].user \in Users
  BY TokenFacts DEF IInv, Tokens
<1>10. TokensDescend' BY <1>2, <1>7, <1>9 DEF IInv, TokensDescend
<1>11. JobsAreSound'
  <2>1. ASSUME NEW q \in Requests PROVE Exchanges(job[q])' /\ Prepared(job[q])'
    <3>1. CASE q = r
      BY <1>2, <1>5, <1>6, <3>1, EmailAssumption DEF Exchanges, Prepared
    <3>2. CASE q # r
      <4>1. Exchanges(job[q]) /\ Prepared(job[q]) BY DEF IInv, JobsAreSound
      <4>2. job'[q] = job[q] BY <3>2, <1>6
      <4> QED BY <4>1, <4>2, <1>2, <1>7 DEF Exchanges, Prepared
    <3> QED BY <3>1, <3>2
  <2> QED BY <2>1 DEF JobsAreSound
<1> QED
  BY <1>7, <1>8, <1>10, <1>11 DEF IInv, RotationSpends, LogoutCloses, ClosedHappened

LEMMA InsertStep ==
  ASSUME IInv, NEW r \in Requests, Insert(r)
  PROVE  IInv'
<1> DEFINE u == job[r].user
           e == job[r].mail
<1>1. job[r].step = "insert" /\ job[r] \in Jobs /\ Exchanges(job[r]) /\ Prepared(job[r])
  BY DEF Insert, IInv, TypeOK, JobsAreSound
<1>2. u \in Users /\ e \in Emails BY <1>1 DEF Prepared
<1>3. CASE Taken(e) BY <1>3, FinishStep DEF Insert
<1>4. CASE ~Taken(e)
  <2>1. email' = [email EXCEPT ![u] = e] /\ Step(r, "create") BY <1>4 DEF Insert
  <2>2. job[r].token = 0 BY <1>1 DEF Prepared
  <2>3. UNCHANGED <<open, tokens, links, history>> BY DEF Insert
  <2>4. "create" \in Steps BY DEF Steps
  <2> HIDE DEF u, e
  <2> QED BY <1>2, <2>1, <2>2, <2>3, <2>4, EmailStep DEF u, e
<1> QED BY <1>3, <1>4

LEMMA ApplyEmailStep ==
  ASSUME IInv, NEW r \in Requests, ApplyEmail(r)
  PROVE  IInv'
<1> DEFINE u == job[r].user
           e == job[r].mail
<1>1. job[r].step = "apply" /\ job[r] \in Jobs /\ Exchanges(job[r]) /\ Prepared(job[r])
  BY DEF ApplyEmail, IInv, TypeOK, JobsAreSound
<1>2. u \in Users /\ e \in Emails BY <1>1 DEF Prepared
<1> DEFINE other == \E v \in Users \ {u} : email[v] = e
<1>3. CASE other BY <1>3, FinishStep DEF ApplyEmail
<1>4. CASE ~other
  <2>1. email' = [email EXCEPT ![u] = e] /\ Step(r, "revoke") BY <1>4 DEF ApplyEmail
  <2>2. job[r].token = 0 BY <1>1 DEF Prepared
  <2>3. UNCHANGED <<open, tokens, links, history>> BY DEF ApplyEmail
  <2>4. "revoke" \in Steps BY DEF Steps
  <2> HIDE DEF u, e
  <2> QED BY <1>2, <2>1, <2>2, <2>3, <2>4, EmailStep DEF u, e
<1> QED BY <1>3, <1>4

-----------------------------------------------------------------------------
(* Steps that write tokens. *)

\* Revoking tokens, whichever, keeps what is known of them.
LEMMA RevokedOnly ==
  ASSUME IInv, tokens' \in [DOMAIN tokens -> Tokens],
         \A i \in DOMAIN tokens :
           /\ tokens'[i].user = tokens[i].user /\ tokens'[i].parent = tokens[i].parent
           /\ tokens'[i].login = tokens[i].login
           /\ tokens[i].revoked => tokens'[i].revoked,
         email' = email
  PROVE  /\ tokens' \in Seq(Tokens) /\ Len(tokens') <= MaxTokens
         /\ RotationSpends' /\ TokensDescend'
<1>1. DOMAIN tokens = 1..Len(tokens) /\ Len(tokens) \in Nat /\ Len(tokens) <= MaxTokens
  BY TokenFacts, BoundAssumption DEF IInv
<1>2. DOMAIN tokens' = DOMAIN tokens OBVIOUS
<1>3. tokens' \in Seq(Tokens) /\ Len(tokens') <= MaxTokens
  <2> DEFINE n == Len(tokens)
  <2>1. tokens' \in [1..n -> Tokens] /\ n \in Nat BY <1>1
  <2> HIDE DEF n
  <2>2. tokens' \in Seq(Tokens) /\ Len(tokens') = n BY <2>1
  <2> QED BY <2>2, <1>1 DEF n
<1>4. RotationSpends' BY <1>2 DEF IInv, RotationSpends, TokensDescend
<1>5. TokensDescend' BY <1>2 DEF IInv, TokensDescend
<1> QED BY <1>3, <1>4, <1>5

LEMMA SpendStep ==
  ASSUME IInv, NEW r \in Requests, Spend(r)
  PROVE  IInv'
<1> DEFINE i == job[r]
           k == i.token
           j == [i EXCEPT !.step = "reload"]
<1>1. i.step = "spend" /\ i \in Jobs /\ Exchanges(i) /\ Prepared(i)
  BY DEF Spend, IInv, TypeOK, JobsAreSound
<1>2. k # 0 /\ k \in DOMAIN tokens /\ tokens[k].user = i.user /\ i.user \in Users
      /\ (tokens[k].login \in closed => tokens[k].login \in late)
  BY <1>1 DEF Exchanges, Prepared
<1>3. job' = [job EXCEPT ![r] = j] BY DEF Spend, Step, IInv, TypeOK
<1>4. tokens' = [tokens EXCEPT ![k].revoked = TRUE]
      /\ UNCHANGED <<email, open, links, closed, late>>
  BY DEF Spend, history
<1>5. /\ tokens' \in [DOMAIN tokens -> Tokens] /\ tokens'[k].revoked
      /\ \A t \in DOMAIN tokens :
           /\ tokens'[t].user = tokens[t].user /\ tokens'[t].parent = tokens[t].parent
           /\ tokens'[t].login = tokens[t].login
           /\ tokens[t].revoked => tokens'[t].revoked
  <2>1. tokens \in [DOMAIN tokens -> Tokens] BY TokenFacts DEF IInv
  <2> HIDE DEF k
  <2> QED BY <2>1, <1>2, <1>4 DEF Tokens
<1>6. /\ tokens' \in Seq(Tokens) /\ Len(tokens') <= MaxTokens
      /\ RotationSpends' /\ TokensDescend'
  BY <1>4, <1>5, RevokedOnly
<1>7. j \in Jobs /\ j.step = "reload" /\ j.user = i.user /\ j.token = k
  <2> HIDE DEF i
  <2> QED BY <1>1 DEF Jobs, Steps
<1> HIDE DEF j
<1>8. /\ job' \in [Requests -> Jobs] /\ job'[r] = j
      /\ \A q \in Requests \ {r} : job'[q] = job[q]
  BY <1>3, <1>7, JobAfter DEF IInv
<1>9. TypeOK' BY <1>4, <1>6, <1>8 DEF IInv, TypeOK
<1>10. DOMAIN tokens' = DOMAIN tokens BY <1>5
<1> HIDE DEF i
<1>11. JobsAreSound'
  <2>1. ASSUME NEW q \in Requests PROVE Exchanges(job[q])' /\ Prepared(job[q])'
    <3>1. CASE q = r
      BY <1>2, <1>4, <1>5, <1>7, <1>8, <1>10, <3>1 DEF Exchanges, Prepared
    <3>2. CASE q # r
      <4>1. Exchanges(job[q]) /\ Prepared(job[q]) BY DEF IInv, JobsAreSound
      <4>2. job'[q] = job[q] BY <3>2, <1>8
      <4> QED BY <4>1, <4>2, <1>4, <1>5, <1>10 DEF Exchanges, Prepared
    <3> QED BY <3>1, <3>2
  <2> QED BY <2>1 DEF JobsAreSound
<1>12. LogoutCloses' BY <1>4, <1>5, <1>10 DEF IInv, LogoutCloses
<1>13. ClosedHappened' BY <1>4, <1>10 DEF IInv, ClosedHappened
<1> QED BY <1>6, <1>9, <1>11, <1>12, <1>13 DEF IInv

\* Every token of the account is revoked; what a refresh may still create of its sign-ins
\* is late.
LEMMA RevokeAllStep ==
  ASSUME IInv, NEW r \in Requests, RevokeAll(r)
  PROVE  IInv'
<1> DEFINE u == job[r].user
<1>1. /\ tokens' = [i \in DOMAIN tokens |->
           IF tokens[i].user = u THEN [tokens[i] EXCEPT !.revoked = TRUE] ELSE tokens[i]]
      /\ closed' = closed \cup LoginsOf(u)
      /\ late' = late \cup UnderWay(u)
      /\ job' = [job EXCEPT ![r] = Idle] /\ UNCHANGED <<email, open, links>>
  BY DEF RevokeAll, Finish
<1> HIDE DEF u
<1>2. /\ tokens' \in [DOMAIN tokens -> Tokens]
      /\ \A i \in DOMAIN tokens :
           /\ tokens'[i].user = tokens[i].user /\ tokens'[i].parent = tokens[i].parent
           /\ tokens'[i].login = tokens[i].login
           /\ tokens[i].revoked => tokens'[i].revoked
           /\ tokens[i].user = u => tokens'[i].revoked
  <2>1. tokens \in [DOMAIN tokens -> Tokens] BY TokenFacts DEF IInv
  <2> QED BY <2>1, <1>1 DEF Tokens
<1>3. /\ tokens' \in Seq(Tokens) /\ Len(tokens') <= MaxTokens
      /\ RotationSpends' /\ TokensDescend'
  BY <1>1, <1>2, RevokedOnly
<1>4. DOMAIN tokens' = DOMAIN tokens BY <1>2
<1>5. LoginsOf(u) \subseteq DOMAIN tokens BY DEF LoginsOf, IInv, TokensDescend
<1>6. UnderWay(u) \subseteq DOMAIN tokens
  BY DEF UnderWay, IInv, JobsAreSound, Exchanges, TokensDescend
<1>7. ASSUME NEW i \in DOMAIN tokens, tokens[i].login \in LoginsOf(u)
      PROVE  tokens[i].user = u
  <2>1. PICK j \in DOMAIN tokens : tokens[j].user = u /\ tokens[j].login = tokens[i].login
    BY <1>7 DEF LoginsOf
  <2> QED BY <2>1 DEF IInv, TokensDescend
<1>8. LogoutCloses' BY <1>1, <1>2, <1>4, <1>7 DEF IInv, LogoutCloses
<1>9. ClosedHappened' BY <1>1, <1>4, <1>5 DEF IInv, ClosedHappened
<1>10. /\ job' \in [Requests -> Jobs] /\ job'[r] = Idle
       /\ \A q \in Requests \ {r} : job'[q] = job[q]
  BY <1>1, IdleFacts, JobAfter DEF IInv
<1>11. TypeOK'
  <2>1. DOMAIN tokens \subseteq 1..MaxTokens BY TokenFacts DEF IInv
  <2> QED BY <2>1, <1>1, <1>3, <1>5, <1>6, <1>10 DEF IInv, TypeOK
<1>12. JobsAreSound'
  <2>1. ASSUME NEW q \in Requests PROVE Exchanges(job[q])' /\ Prepared(job[q])'
    <3>1. CASE q = r BY <3>1, <1>10, IdleFacts DEF Exchanges, Prepared
    <3>2. CASE q # r
      <4>1. Exchanges(job[q]) /\ Prepared(job[q]) BY DEF IInv, JobsAreSound
      <4>2. job'[q] = job[q] BY <3>2, <1>10
      <4>3. ASSUME job[q].token # 0, tokens[job[q].token].login \in closed'
            PROVE  tokens[job[q].token].login \in late'
        <5>1. job[q].token \in DOMAIN tokens /\ tokens[job[q].token].user = job[q].user
          BY <4>1, <4>3 DEF Exchanges
        <5>2. CASE tokens[job[q].token].login \in closed
          BY <5>2, <4>1, <4>3, <1>1 DEF Exchanges
        <5>3. CASE tokens[job[q].token].login \in LoginsOf(u)
          <6>1. job[q].user = u BY <5>1, <5>3, <1>7
          <6> QED BY <6>1, <4>3, <1>1 DEF UnderWay
        <5> QED BY <5>2, <5>3, <4>3, <1>1
      <4> QED BY <4>1, <4>2, <4>3, <1>1, <1>2, <1>4 DEF Exchanges, Prepared
    <3> QED BY <3>1, <3>2
  <2> QED BY <2>1 DEF JobsAreSound
<1> QED BY <1>3, <1>8, <1>9, <1>11, <1>12 DEF IInv

\* A token created continues the sign-in of the one exchanged, or is a sign-in of its own,
\* which nobody has closed.
LEMMA CreateTokenStep ==
  ASSUME IInv, NEW r \in Requests, CreateToken(r)
  PROVE  IInv'
<1> DEFINE j == job[r]
           n == Len(tokens) + 1
           l == IF j.token = 0 THEN n ELSE tokens[j.token].login
           t == [user |-> j.user, mail |-> j.mail, revoked |-> FALSE,
                 parent |-> j.token, login |-> l]
<1>1. j.step = "create" /\ j \in Jobs /\ Exchanges(j) /\ Prepared(j)
  BY DEF CreateToken, IInv, TypeOK, JobsAreSound
<1>2. /\ Len(tokens) < MaxTokens /\ tokens' = Append(tokens, t)
      /\ job' = [job EXCEPT ![r] = Idle]
      /\ UNCHANGED <<email, open, links, closed, late>>
  BY DEF CreateToken, Finish, history
<1>3. /\ DOMAIN tokens = 1..Len(tokens) /\ Len(tokens) \in Nat /\ MaxTokens \in Nat
      /\ tokens \in Seq(Tokens) /\ \A i \in DOMAIN tokens : tokens[i] \in Tokens
  BY TokenFacts, BoundAssumption DEF IInv, TypeOK
<1>4. n \in 1..MaxTokens /\ n \notin DOMAIN tokens /\ n # 0 BY <1>2, <1>3
<1>5. j.user \in Users /\ j.mail \in Emails /\ email[j.user] # NoEmail
  BY <1>1 DEF Prepared
<1>6. j.token # 0 =>
        /\ j.token \in DOMAIN tokens /\ tokens[j.token].user = j.user
        /\ tokens[j.token].revoked
        /\ tokens[j.token].login \in closed => tokens[j.token].login \in late
  BY <1>1 DEF Exchanges
<1>7. l \in 1..MaxTokens /\ (j.token = 0 => l = n)
      /\ (j.token # 0 => l \in DOMAIN tokens /\ tokens[l].user = j.user)
      /\ (l \in closed => l \in late)
  <2>1. CASE j.token = 0
    BY <2>1, <1>4 DEF IInv, ClosedHappened
  <2>2. CASE j.token # 0
    BY <2>2, <1>3, <1>6 DEF IInv, TokensDescend, Tokens
  <2> QED BY <2>1, <2>2
<1>8. j.token \in 0..MaxTokens BY <1>1 DEF Jobs
<1> HIDE DEF j, l
<1>9. /\ t \in Tokens /\ t.user = j.user /\ t.parent = j.token /\ t.login = l
      /\ t.revoked = FALSE
  BY <1>5, <1>7, <1>8 DEF Tokens
<1> HIDE DEF t
<1>10. /\ tokens' \in Seq(Tokens) /\ Len(tokens') = n
       /\ DOMAIN tokens' = DOMAIN tokens \cup {n} /\ tokens'[n] = t
       /\ \A i \in DOMAIN tokens : tokens'[i] = tokens[i]
  BY <1>2, <1>3, <1>9
<1> HIDE DEF n
<1>11. /\ job' \in [Requests -> Jobs] /\ job'[r] = Idle
       /\ \A q \in Requests \ {r} : job'[q] = job[q]
  BY <1>2, IdleFacts, JobAfter DEF IInv
<1>12. TypeOK' BY <1>2, <1>4, <1>10, <1>11 DEF IInv, TypeOK
<1>13. RotationSpends'
  BY <1>4, <1>6, <1>9, <1>10 DEF IInv, RotationSpends, TokensDescend
<1>14. LogoutCloses' BY <1>2, <1>7, <1>9, <1>10 DEF IInv, LogoutCloses
<1>15. TokensDescend'
  <2> DEFINE Descends(i) == /\ email[tokens'[i].user] # NoEmail
                            /\ tokens'[i].parent # 0 => tokens'[i].parent \in DOMAIN tokens'
                            /\ tokens'[i].login \in DOMAIN tokens'
                            /\ tokens'[tokens'[i].login].user = tokens'[i].user
  <2>1. \A i \in DOMAIN tokens : Descends(i) BY <1>10 DEF IInv, TokensDescend
  <2>2. Descends(n)
    <3>1. t.user = j.user /\ t.parent = j.token /\ t.login = l BY <1>9
    <3>2. l \in DOMAIN tokens' /\ tokens'[l].user = j.user
      BY <1>7, <1>10, <3>1
    <3> QED BY <1>5, <1>6, <1>10, <3>1, <3>2
  <2>3. \A i \in DOMAIN tokens' : Descends(i) BY <2>1, <2>2, <1>10
  <2> QED BY <2>3, <1>2 DEF TokensDescend
<1>16. ClosedHappened' BY <1>2, <1>10 DEF IInv, ClosedHappened
<1>17. JobsAreSound'
  <2>1. ASSUME NEW q \in Requests PROVE Exchanges(job[q])' /\ Prepared(job[q])'
    <3>1. CASE q = r BY <3>1, <1>11, IdleFacts DEF Exchanges, Prepared
    <3>2. CASE q # r
      <4>1. Exchanges(job[q]) /\ Prepared(job[q]) BY DEF IInv, JobsAreSound
      <4>2. job'[q] = job[q] BY <3>2, <1>11
      <4> QED BY <4>1, <4>2, <1>2, <1>10 DEF Exchanges, Prepared
    <3> QED BY <3>1, <3>2
  <2> QED BY <2>1 DEF JobsAreSound
<1> QED BY <1>12, <1>13, <1>14, <1>15, <1>16, <1>17 DEF IInv

-----------------------------------------------------------------------------
LEMMA InitIInv == Init => IInv
<1> SUFFICES ASSUME Init PROVE IInv OBVIOUS
<1>1. TypeOK BY IdleFacts, BoundAssumption DEF Init, TypeOK
<1>2. JobsAreSound BY IdleIsSound DEF Init, JobsAreSound
<1>3. RotationSpends /\ LogoutCloses /\ TokensDescend /\ ClosedHappened
  BY DEF Init, RotationSpends, LogoutCloses, TokensDescend, ClosedHappened
<1> QED BY <1>1, <1>2, <1>3 DEF IInv

LEMMA Invariant == Spec => []IInv
<1>1. ASSUME IInv, [Next]_vars PROVE IInv'
  <2>1. ASSUME NEW r \in Requests, Abandon(r) PROVE IInv'
    BY <1>1, <2>1, FinishStep DEF Abandon
  <2>2. ASSUME NEW r \in Requests, Continue(r) PROVE IInv'
    BY <1>1, <2>2, InsertStep, CreateTokenStep, SpendStep, ReloadStep, RevokeAllStep,
       ApplyEmailStep DEF Continue
  <2>3. ASSUME NEW r \in Requests, Register(r) \/ Login(r) \/ Refresh(r) \/ Logout(r)
                                   \/ RequestEmailChange(r) \/ VerifyEmail(r)
        PROVE  IInv'
    BY <1>1, <2>3, RegisterStep, LoginStep, RefreshStep, LogoutStep, RequestEmailChangeStep,
       VerifyEmailStep
  <2>4. CASE UNCHANGED vars
    BY <1>1, <2>4 DEF vars, history, IInv, TypeOK, RotationSpends, LogoutCloses, TokensDescend,
                      ClosedHappened, JobsAreSound, Exchanges, Prepared
  <2> QED BY <1>1, <2>1, <2>2, <2>3, <2>4, SetAccountStep DEF Next
<1> QED BY InitIInv, <1>1, PTL DEF Spec

-----------------------------------------------------------------------------
\* Every reachable state is well typed.
THEOREM TypeCorrect == Spec => []TypeOK
<1>1. IInv => TypeOK BY DEF IInv
<1> QED BY Invariant, <1>1, PTL

\* refresh_session never leaves a token and its successor valid together, whatever dies and
\* however many refreshes race.
THEOREM RotationIsSafe == Spec => []RotationSpends
<1>1. IInv => RotationSpends BY DEF IInv
<1> QED BY Invariant, <1>1, PTL

\* After revoke_user_tokens a session of the account lives on only through a refresh that
\* had verified its token before.
THEOREM LogoutIsFinal == Spec => []LogoutCloses
<1>1. IInv => LogoutCloses BY DEF IInv
<1> QED BY Invariant, <1>1, PTL
=============================================================================
