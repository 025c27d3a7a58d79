--------------------------- MODULE MonitoringProofs ---------------------------
(***************************************************************************)
(* Monitoring for any number of activities, months and simultaneous        *)
(* requests: figures agree with themselves, lists are complete and started *)
(* where they are due, reports are those of their months.                  *)
(***************************************************************************)
EXTENDS Monitoring, FiniteSetTheorems, SequenceTheorems, TLAPS

Going == {"query", "seen"}
Listing == {"count", "read", "start", "page"}

\* The queries that a request has made.
Made(r) == {Queries(job[r].kind)[i] : i \in 1..(job[r].at - 1)}

-----------------------------------------------------------------------------
(* The inductive invariant. *)

\* The parts of TypeOK, and the types of rows and pages, which it leaves out.
BoardType ==
  /\ board \in [Activities -> L!Statuses \cup {"none"}]
  /\ Born = {a \in Activities : board[a] # "none"} /\ Len(born) = Cardinality(Born)
  /\ handed \subseteq Born /\ due \subseteq Born

JobType ==
  [step : {"idle", "query", "seen", "count", "read", "start", "page",
           "render", "upload", "notify"},
   kind : Kinds, at : 0..8, got : [QueryNames -> SUBSET Activities],
   base : SUBSET Activities, pdf : Months \cup {"none"}]

Rows == [id : Activities, status : L!Statuses]

WalkType ==
  [view : Views, page : Nat \ {0}, total : Nat, rows : Seq(Rows), next : Nat \ {0},
   walked : SUBSET Activities, known : Nat, late : SUBSET Activities]

ReportTypes ==
  /\ cache \in [Requests -> Months \cup {"none"}]
  /\ stored \in [Months -> Months \cup {"none"}]
  /\ notices \subseteq Months

\* created_at is given once, and nothing gets further than the handover without it.
BoardIsSound ==
  /\ born \in Seq(Activities)
  /\ \A i, j \in DOMAIN born : born[i] = born[j] => i = j
  /\ \A a \in Activities :
       board[a] \in {"handed", "approved", "ongoing", "ended"} => a \in handed

\* Of the statuses that two counts share: those that the second one asks for, and those
\* from which nothing comes back to them.
Second(kind) ==
  CASE kind = "desk" -> "packing"
    [] OTHER -> "closed"

Past(kind) ==
  IF kind = "desk" THEN L!Statuses \ {"design", "security", "filing"} ELSE {}

Asking(r) ==
  /\ job[r].kind # "list"
  /\ job[r].step = "query" => job[r].at \in 1..Len(Queries(job[r].kind))
  /\ job[r].step = "seen"  => job[r].at = Len(Queries(job[r].kind)) + 1
  /\ \A q \in QueryNames \ Made(r) : job[r].got[q] = {}

\* What was counted of all activities, and what was begun.
Growing(r) ==
  LET qs == Queries(job[r].kind)
      got == job[r].got
  IN  /\ \A q \in ToSet(Groupings) : got[q] \subseteq Born \cap Scope(r)
      /\ \A i, j \in 1..(job[r].at - 1) :
           i < j /\ {qs[i], qs[j]} \subseteq ToSet(Groupings) => got[qs[i]] \subseteq got[qs[j]]
      /\ got["begun"] \subseteq handed \cap Scope(r)
      /\ "handed" \in Made(r) => got["begun"] \subseteq got["handed"]

\* Where the activities are that the first of two counts met.
Slipping(r) ==
  LET kind == job[r].kind
      got == job[r].got
  IN  /\ job[r].base \subseteq Born \cap Scope(r)
      /\ Split(kind) \cap Made(r) = {} => job[r].base = {}
      /\ \A a \in job[r].base :
           \/ \E q \in Split(kind) : a \in got[q]
           \/ board[a] \in Past(kind)
           \/ Second(kind) \notin Made(r) /\ board[a] \in Wanted[Second(kind)]

Counts(r) == job[r].step \in Going => Asking(r) /\ Growing(r) /\ Slipping(r)

\* The step of a request that is on a list, and its page.
Paging(step, w) ==
  /\ w.known <= Len(born)
  /\ w.page <= Cardinality(Activities) + 1
  /\ w.total <= Cardinality(Activities)
  /\ Len(w.rows) <= PageSize
  /\ w.next <= Len(w.rows) + 1
  /\ w.late \subseteq due
  /\ w.view = "one" => w.total = 0
  /\ step \in {"count", "read"} => w.view # "one"

\* A list of everything to which nothing was added.
Whole(w) == w.view = "all" /\ w.known = Len(born)

\* The places before the page were shown, those of the page are in its rows.
Covers(step, w) ==
  LET from == (w.page - 1) * PageSize
      upto == w.page * PageSize
  IN  Whole(w) =>
        /\ step \in Listing => \A a \in Born : Place("all", a) < from => a \in w.walked
        /\ step \in {"read", "start", "page"} => w.total = Cardinality(Born)
        /\ step = "start" =>
             \A a \in Born : Place("all", a) \in from..(upto - 1) =>
               \E i \in DOMAIN w.rows : w.rows[i].id = a
        /\ step = "page" => \A a \in Born : Place("all", a) < upto => a \in w.walked

\* The rows passed were not due, or were started.
Started(step, w) ==
  /\ step \in {"start", "page"} =>
       \A i \in DOMAIN w.rows :
         i < w.next /\ w.rows[i].status = "approved" => w.rows[i].id \notin w.late
  /\ step = "page" => w.next > Len(w.rows)

Walks(step, w) == Paging(step, w) /\ Covers(step, w) /\ Started(step, w)

\* The data of an export on its way to the store.
Exports(r) ==
  /\ cache[r] \in {Asked[r], "none"}
  /\ job[r].step = "upload" => job[r].pdf = Asked[r]
  /\ job[r].step = "notify" => stored[Asked[r]] = Asked[r]

IInv ==
  /\ TypeOK
  /\ BoardIsSound
  /\ ReportsAreTheirMonths
  /\ walk \in [Requests -> WalkType]
  /\ \A r \in Requests : Counts(r) /\ Walks(job[r].step, walk[r]) /\ Exports(r)

-----------------------------------------------------------------------------
(* The queries. *)

LEMMA ElementsOfJoin ==
  ASSUME NEW S, NEW s \in Seq(S), NEW t \in Seq(S), NEW u \in Seq(S),
         Len(u) = Len(s) + Len(t),
         \A i \in 1..Len(s) : u[i] = s[i],
         \A i \in 1..Len(t) : u[i + Len(s)] = t[i]
  PROVE  s \o t = u
<1>1. s \o t \in Seq(S) /\ Len(s \o t) = Len(u) BY ConcatProperties
<1>2. ASSUME NEW i \in 1..Len(u)
      PROVE  (s \o t)[i] = u[i]
  <2>1. Len(s) \in Nat /\ Len(t) \in Nat OBVIOUS
  <2>2. (s \o t)[i] = IF i <= Len(s) THEN s[i] ELSE t[i - Len(s)] BY ConcatProperties
  <2>3. CASE i <= Len(s) BY <2>1, <2>2, <2>3
  <2>4. CASE ~(i <= Len(s))
    <3>1. i - Len(s) \in 1..Len(t) /\ (i - Len(s)) + Len(s) = i BY <2>1, <2>4
    <3>2. u[i] = t[i - Len(s)] BY <3>1
    <3> QED BY <2>2, <2>4, <3>2
  <2> QED BY <2>3, <2>4
<1> QED BY <1>1, <1>2, SeqEqual

LEMMA JoinedTuples ==
  /\ <<"total", "byStatus">> \o Outcomes
       = <<"total", "byStatus", "approved", "closed", "anomalies">>
  /\ <<"total", "byStatus", "byType", "byDay">> \o Outcomes
       = <<"total", "byStatus", "byType", "byDay", "approved", "closed", "anomalies">>
<1> DEFINE N == {"total", "byStatus", "byType", "byDay", "approved", "closed", "anomalies"}
           p == <<"total", "byStatus">>
           q == <<"total", "byStatus", "byType", "byDay">>
           u == <<"total", "byStatus", "approved", "closed", "anomalies">>
           w == <<"total", "byStatus", "byType", "byDay", "approved", "closed", "anomalies">>
<1>1. p \in Seq(N) /\ q \in Seq(N) /\ Outcomes \in Seq(N)
  BY DEF Outcomes
<1>2. u \in Seq(N) /\ w \in Seq(N) OBVIOUS
<1>3. /\ Len(u) = Len(p) + Len(Outcomes)
      /\ \A i \in 1..Len(p) : u[i] = p[i]
      /\ \A i \in 1..Len(Outcomes) : u[i + Len(p)] = Outcomes[i]
  BY DEF Outcomes
<1>4. /\ Len(w) = Len(q) + Len(Outcomes)
      /\ \A i \in 1..Len(q) : w[i] = q[i]
      /\ \A i \in 1..Len(Outcomes) : w[i + Len(q)] = Outcomes[i]
  BY DEF Outcomes
<1> HIDE DEF N, p, q, u, w
<1>5. p \o Outcomes = u BY <1>1, <1>2, <1>3, ElementsOfJoin
<1>6. q \o Outcomes = w BY <1>1, <1>2, <1>4, ElementsOfJoin
<1> QED BY <1>5, <1>6 DEF p, q, u, w

LEMMA QueriesMade ==
  /\ Queries("rate") = <<"total", "begun", "handed">>
  /\ Queries("desk") = <<"signing", "packing">>
  /\ Queries("promoter") = <<"mine", "plans">>
  /\ Queries("panel") = <<"total", "byStatus", "approved", "closed", "anomalies">>
  /\ \A kind \in {"report", "export"} :
       Queries(kind) = <<"total", "byStatus", "byType", "byDay",
                         "approved", "closed", "anomalies">>
<1>1. /\ Queries("rate") = <<"total", "begun", "handed">>
      /\ Queries("desk") = <<"signing", "packing">>
      /\ Queries("promoter") = <<"mine", "plans">>
  BY DEF Queries, DeskQueries, PromoterQueries
<1>2. Queries("panel") = <<"total", "byStatus">> \o Outcomes BY DEF Queries
<1>3. ASSUME NEW kind \in {"report", "export"}
      PROVE  Queries(kind) = <<"total", "byStatus", "byType", "byDay">> \o Outcomes
  BY DEF Queries, ReportQueries
<1> QED BY <1>1, <1>2, <1>3, JoinedTuples

LEMMA QueryFacts ==
  ASSUME NEW kind \in Kinds \ {"list"}
  PROVE  LET qs == Queries(kind) IN
         /\ qs \in Seq(QueryNames) /\ Len(qs) \in 2..7
         /\ \A i, j \in 1..Len(qs) : qs[i] = qs[j] => i = j
         /\ \A i, j \in 1..Len(qs) : qs[i] = "handed" /\ qs[j] = "begun" => j < i
         /\ \A i, j \in 1..Len(qs) : qs[i] \in Split(kind) /\ qs[j] = Second(kind) => i <= j
         /\ \A q \in Split(kind) : \E i \in 1..Len(qs) : qs[i] = q
         /\ Split(kind) # {} => \E q \in Split(kind) : q # Second(kind)
         /\ kind # "rate" => \A i \in 1..Len(qs) : qs[i] # "begun"
<1> DEFINE
      Good(qs) ==
        /\ qs \in Seq(QueryNames) /\ Len(qs) \in 2..7
        /\ \A i, j \in 1..Len(qs) : qs[i] = qs[j] => i = j
        /\ \A i, j \in 1..Len(qs) : qs[i] = "handed" /\ qs[j] = "begun" => j < i
        /\ \A i, j \in 1..Len(qs) : qs[i] \in Split(kind) /\ qs[j] = Second(kind) => i <= j
        /\ \A q \in Split(kind) : \E i \in 1..Len(qs) : qs[i] = q
        /\ Split(kind) # {} => \E q \in Split(kind) : q # Second(kind)
      Named(qs) == kind # "rate" => \A i \in 1..Len(qs) : qs[i] # "begun"
<1>1. QueryNames = {"total", "byStatus", "byType", "byDay", "approved", "closed", "anomalies",
                    "begun", "handed", "signing", "packing", "mine", "plans"}
  BY DEF QueryNames, Groupings, Outcomes, ToSet
<1>2. CASE kind = "rate"
  <2>1. Queries(kind) = <<"total", "begun", "handed">> BY <1>2, QueriesMade
  <2>2. Split(kind) = {} BY <1>2 DEF Split
  <2>3. Good(Queries(kind)) BY <1>1, <2>1, <2>2
  <2>4. Named(Queries(kind)) BY <1>2, <2>1
  <2> QED BY <2>3, <2>4
<1>3. CASE kind = "desk"
  <2>1. Queries(kind) = <<"signing", "packing">> BY <1>3, QueriesMade
  <2>2. Split(kind) = {"signing", "packing"} /\ Second(kind) = "packing"
    BY <1>3 DEF Split, Second
  <2>3. Good(Queries(kind)) BY <1>1, <2>1, <2>2
  <2>4. Named(Queries(kind)) BY <1>3, <2>1
  <2> QED BY <2>3, <2>4
<1>4. CASE kind = "promoter"
  <2>1. Queries(kind) = <<"mine", "plans">> BY <1>4, QueriesMade
  <2>2. Split(kind) = {} BY <1>4 DEF Split
  <2>3. Good(Queries(kind)) BY <1>1, <2>1, <2>2
  <2>4. Named(Queries(kind)) BY <1>4, <2>1
  <2> QED BY <2>3, <2>4
<1>5. CASE kind = "panel"
  <2>1. Queries(kind) = <<"total", "byStatus", "approved", "closed", "anomalies">>
    BY <1>5, QueriesMade
  <2>2. Split(kind) = {"approved", "closed"} /\ Second(kind) = "closed"
    BY <1>5 DEF Split, Second
  <2>3. Good(Queries(kind)) BY <1>1, <2>1, <2>2
  <2>4. Named(Queries(kind)) BY <1>5, <2>1
  <2> QED BY <2>3, <2>4
<1>6. CASE kind \in {"report", "export"}
  <2>1. Queries(kind) = <<"total", "byStatus", "byType", "byDay",
                          "approved", "closed", "anomalies">>
    BY <1>6, QueriesMade
  <2>2. Split(kind) = {"approved", "closed"} /\ Second(kind) = "closed"
    BY <1>6 DEF Split, Second
  <2>3. Good(Queries(kind)) BY <1>1, <2>1, <2>2
  <2>4. Named(Queries(kind)) BY <1>6, <2>1
  <2> QED BY <2>3, <2>4
<1> QED BY <1>2, <1>3, <1>4, <1>5, <1>6 DEF Kinds

\* The statuses of two counts, and where activities go from those of the second.
LEMMA SplitFacts ==
  ASSUME NEW kind \in Kinds \ {"list"}, Split(kind) # {}
  PROVE  /\ Second(kind) \in Split(kind)
         /\ \A p, q \in Split(kind) : p = q \/ p = Second(kind) \/ q = Second(kind)
         /\ \A q \in Split(kind) : Shared(kind) = Wanted[q] \cup Wanted[Second(kind)]
                                   \/ q = Second(kind)
         /\ Past(kind) \cap Shared(kind) = {}
         /\ \A q \in Split(kind) : Hits(q) = In(Wanted[q])
<1>1. CASE kind = "desk"
  <2>1. Split(kind) = {"signing", "packing"} BY <1>1 DEF Split
  <2>2. Shared(kind) = {"security", "filing"} BY <2>1 DEF Shared, Wanted
  <2>3. Second(kind) = "packing" BY <1>1 DEF Second
  <2>4. Past(kind) \cap Shared(kind) = {} BY <1>1, <2>2 DEF Past
  <2> QED BY <1>1, <2>1, <2>2, <2>3, <2>4 DEF Wanted, Hits, Groupings, ToSet
<1>2. CASE kind \in {"panel", "report", "export"}
  <2>1. Split(kind) = {"approved", "closed"} BY <1>2 DEF Split
  <2>2. Shared(kind) = Wanted["approved"] \cup Wanted["closed"] BY <2>1 DEF Shared
  <2>3. Second(kind) = "closed" /\ Past(kind) = {} BY <1>2 DEF Second, Past
  <2>4. Hits("approved") = In(Wanted["approved"]) /\ Hits("closed") = In(Wanted["closed"])
    BY DEF Hits, Groupings, ToSet
  <2> QED BY <1>2, <2>1, <2>2, <2>3, <2>4
<1> QED BY <1>1, <1>2 DEF Kinds, Split

-----------------------------------------------------------------------------
(* The activities. *)

LEMMA BoardFacts ==
  ASSUME IInv
  PROVE  /\ board \in [Activities -> L!Statuses \cup {"none"}]
         /\ born \in Seq(Activities) /\ Len(born) \in Nat
         /\ Born = {a \in Activities : board[a] # "none"} /\ Born \subseteq Activities
         /\ IsFiniteSet(Born) /\ Cardinality(Born) \in Nat /\ Cardinality(Activities) \in Nat
         /\ Cardinality(Born) <= Cardinality(Activities) /\ Len(born) = Cardinality(Born)
<1>1. /\ board \in [Activities -> L!Statuses \cup {"none"}]
      /\ Born = {a \in Activities : board[a] # "none"} /\ Len(born) = Cardinality(Born)
  BY DEF IInv, TypeOK
<1>2. born \in Seq(Activities) BY DEF IInv, BoardIsSound
<1>3. Born \in SUBSET Activities BY <1>1
<1>4. /\ IsFiniteSet(Born) /\ Cardinality(Born) \in Nat /\ Cardinality(Activities) \in Nat
      /\ Cardinality(Born) <= Cardinality(Activities)
  BY <1>3, ActivitiesAssumption, FS_Subset, FS_CardinalityType
<1> QED BY <1>1, <1>2, <1>3, <1>4

\* A list shows activities, and a list of all of them has each at a place of its own.
LEMMA PlaceFacts ==
  ASSUME IInv
  PROVE  /\ \A view : Cardinality(Matching(view)) \in 0..Cardinality(Activities)
         /\ Matching("all") = Born
         /\ \A view, a : Place(view, a) \in Nat
         /\ \A a \in Born : Place("all", a) < Cardinality(Born)
<1>1. ASSUME NEW view
      PROVE  /\ IsFiniteSet(Matching(view)) /\ Matching(view) \subseteq Born
             /\ Cardinality(Matching(view)) \in 0..Cardinality(Activities)
  <2>1. Matching(view) \in SUBSET Born BY DEF Matching, In
  <2>2. /\ IsFiniteSet(Matching(view)) /\ Cardinality(Matching(view)) \in Nat
        /\ Cardinality(Matching(view)) <= Cardinality(Born)
    BY <2>1, BoardFacts, FS_Subset, FS_CardinalityType
  <2> QED BY <2>1, <2>2, BoardFacts
<1>2. Matching("all") = Born
  <2>1. Shown("all") = L!Statuses BY DEF Shown, Shows
  <2>2. \A a \in Born : board[a] \in L!Statuses BY BoardFacts
  <2> QED BY <2>1, <2>2 DEF Matching, In
<1>3. ASSUME NEW view, NEW a
      PROVE  Place(view, a) \in Nat
  <2>1. Matching(view) \cap Newer(a) \in SUBSET Matching(view) OBVIOUS
  <2> QED BY <1>1, <2>1, FS_Subset, FS_CardinalityType DEF Place
<1>4. ASSUME NEW a \in Born
      PROVE  Place("all", a) < Cardinality(Born)
  <2>1. a \notin Newer(a)
    <3>1. \A i, j \in DOMAIN born : born[i] = born[j] => i = j BY DEF IInv, BoardIsSound
    <3>2. DOMAIN born = 1..Len(born) BY BoardFacts
    <3> QED BY <3>1, <3>2, BoardFacts DEF Newer
  <2>2. Born \cap Newer(a) \in SUBSET (Born \ {a}) BY <2>1
  <2>3. IsFiniteSet(Born \ {a}) /\ Cardinality(Born \ {a}) = Cardinality(Born) - 1
    BY BoardFacts, FS_RemoveElement
  <2>4. Cardinality(Born \cap Newer(a)) <= Cardinality(Born \ {a})
    BY <2>2, <2>3, FS_Subset
  <2>5. Place("all", a) = Cardinality(Born \cap Newer(a)) BY <1>2 DEF Place
  <2>6. Place("all", a) \in Nat BY <1>3
  <2> QED BY <2>3, <2>4, <2>5, <2>6, BoardFacts
<1> QED BY <1>1, <1>2, <1>3, <1>4

LEMMA PlacesStay ==
  ASSUME IInv, BoardType', UNCHANGED born
  PROVE  /\ Born' = Born
         /\ \A a : Place("all", a)' = Place("all", a)
<1>1. Born' = Born BY DEF Born
<1>2. Matching("all")' = Born
  <2>1. Shown("all") = L!Statuses BY DEF Shown, Shows
  <2>2. \A a \in Born' : board'[a] \in L!Statuses
    <3>1. /\ board' \in [Activities -> L!Statuses \cup {"none"}]
          /\ Born' = {a \in Activities : board'[a] # "none"}
      BY DEF BoardType
    <3> QED BY <3>1
  <2> QED BY <1>1, <2>1, <2>2 DEF Matching, In
<1>3. \A a : Newer(a)' = Newer(a) BY <1>1 DEF Newer
<1> QED BY <1>1, <1>2, <1>3, PlaceFacts DEF Place

\* What becomes of statuses that two counts share.
LEMMA StatusesSettle ==
  ASSUME NEW kind, NEW s, NEW t,
         s = t \/ <<s, t>> \in L!Matrix \/ t \in L!Forced
  PROVE  /\ s \in Past(kind) => t \in Past(kind)
         /\ s \in Wanted[Second(kind)] => t \in Wanted[Second(kind)] \cup Past(kind)
<1>1. s \in Past(kind) => t \in Past(kind)
  BY DEF Past, L!Statuses, L!Matrix, L!Forced, L!Terminal
<1>2. CASE kind = "desk"
  <2>1. Wanted[Second(kind)] = {"filing"} BY <1>2 DEF Second, Wanted
  <2>2. Past(kind) = L!Statuses \ {"design", "security", "filing"} BY <1>2 DEF Past
  <2> QED BY <1>1, <2>1, <2>2 DEF L!Statuses, L!Matrix, L!Forced, L!Terminal
<1>3. CASE kind # "desk"
  <2>1. Wanted[Second(kind)] = {"refused"} \cup L!Forced BY <1>3 DEF Second, Wanted, Closed
  <2> QED BY <1>1, <2>1 DEF L!Matrix, L!Forced
<1> QED BY <1>1, <1>2, <1>3

-----------------------------------------------------------------------------
(* Changes of the activities, seen by a request that does nothing. *)

Onward ==
  /\ \A a \in Born : \/ board'[a] = board[a]
                      \/ <<board[a], board'[a]>> \in L!Matrix
                      \/ board'[a] \in L!Forced
  /\ handed \subseteq handed' /\ due \subseteq due'
  /\ born' = born \/ \E a \in Activities : born' = Append(born, a)

LEMMA BornGrows ==
  ASSUME IInv, Onward
  PROVE  /\ Born \subseteq Born'
         /\ Len(born') \in Nat /\ Len(born) <= Len(born')
         /\ Len(born') = Len(born) => born' = born
<1>1. CASE born' = born BY <1>1, BoardFacts DEF Born
<1>2. CASE \E a \in Activities : born' = Append(born, a)
  <2>1. PICK a \in Activities : born' = Append(born, a) BY <1>2
  <2>2. born \in Seq(Activities) BY BoardFacts
  <2>3. Len(born') = Len(born) + 1 /\ \A i \in 1..Len(born) : born'[i] = born[i]
    BY <2>1, <2>2
  <2>4. DOMAIN born = 1..Len(born) /\ DOMAIN born' = 1..Len(born') BY <2>1, <2>2
  <2>5. Born \subseteq Born'
    <3>1. \A i \in DOMAIN born : i \in DOMAIN born' /\ born'[i] = born[i]
      BY <2>3, <2>4, BoardFacts
    <3> QED BY <3>1 DEF Born, ToSet
  <2> QED BY <2>3, <2>5, BoardFacts
<1> QED BY <1>1, <1>2 DEF Onward

LEMMA OthersCount ==
  ASSUME IInv, Onward, NEW q \in Requests, job'[q] = job[q]
  PROVE  Counts(q)'
<1> SUFFICES ASSUME job[q].step \in Going
             PROVE  Asking(q)' /\ Growing(q)' /\ Slipping(q)'
  BY DEF Counts
<1>1. Asking(q) /\ Growing(q) /\ Slipping(q) BY DEF IInv, Counts
<1>2. Made(q)' = Made(q) /\ Scope(q)' = Scope(q) BY DEF Made, Scope
<1>3. Asking(q)' BY <1>1, <1>2 DEF Asking
<1>4. Growing(q)' BY <1>1, <1>2, BornGrows DEF Growing, Onward
<1>5. Slipping(q)'
  <2> DEFINE kind == job[q].kind
  <2>1. /\ job[q].base \subseteq Born' \cap Scope(q)'
        /\ Split(kind) \cap Made(q)' = {} => job[q].base = {}
    BY <1>1, <1>2, BornGrows DEF Slipping
  <2>2. ASSUME NEW a \in job[q].base
        PROVE  \/ \E p \in Split(kind) : a \in job[q].got[p]
               \/ board'[a] \in Past(kind)
               \/ Second(kind) \notin Made(q)' /\ board'[a] \in Wanted[Second(kind)]
    <3>1. \/ \E p \in Split(kind) : a \in job[q].got[p]
          \/ board[a] \in Past(kind)
          \/ Second(kind) \notin Made(q) /\ board[a] \in Wanted[Second(kind)]
      BY <1>1 DEF Slipping
    <3>2. a \in Born BY <1>1 DEF Slipping
    <3>3. \/ board'[a] = board[a]
          \/ <<board[a], board'[a]>> \in L!Matrix
          \/ board'[a] \in L!Forced
      BY <3>2 DEF Onward
    <3> HIDE DEF kind
    <3> QED BY <1>2, <3>1, <3>3, StatusesSettle
  <2> QED BY <2>1, <2>2 DEF Slipping
<1> QED BY <1>3, <1>4, <1>5

LEMMA OthersWalk ==
  ASSUME IInv, Onward, BoardType', NEW q \in Requests,
         job'[q].step = job[q].step \/ job'[q].step \notin Listing, walk'[q] = walk[q]
  PROVE  Walks(job[q].step, walk[q])'
<1>1. Paging(job[q].step, walk[q]) /\ Covers(job[q].step, walk[q]) /\ Started(job[q].step, walk[q]) BY DEF IInv, Walks
<1>2. walk[q].known \in Nat BY DEF IInv, WalkType
<1>3. Paging(job[q].step, walk[q])' BY <1>1, <1>2, BornGrows, BoardFacts DEF Paging, Onward, Listing
<1>4. Covers(job[q].step, walk[q])'
  <2>1. CASE walk[q].known # Len(born') BY <2>1 DEF Covers, Whole
  <2>2. CASE walk[q].known = Len(born')
    <3>1. born' = born BY <1>1, <1>2, <2>2, BornGrows, BoardFacts DEF Paging
    <3>2. Born' = Born /\ \A a : Place("all", a)' = Place("all", a) BY <3>1, PlacesStay
    <3> QED BY <1>1, <3>1, <3>2 DEF Covers, Whole, Listing
  <2> QED BY <2>1, <2>2
<1>5. Started(job[q].step, walk[q])' BY <1>1 DEF Started, Listing
<1> QED BY <1>3, <1>4, <1>5 DEF Walks

-----------------------------------------------------------------------------
(* Steps. *)

LEMMA Parts ==
  IInv => /\ BoardType /\ BoardIsSound /\ ReportTypes /\ ReportsAreTheirMonths
          /\ job \in [Requests -> JobType] /\ walk \in [Requests -> WalkType]
          /\ \A r \in Requests : Counts(r) /\ Exports(r)
          /\ \A r \in Requests :
               /\ Paging(job[r].step, walk[r]) /\ Covers(job[r].step, walk[r])
               /\ Started(job[r].step, walk[r])
BY DEF IInv, TypeOK, BoardType, ReportTypes, JobType, Walks

\* A step of one request.
LEMMA StepOf ==
  ASSUME IInv, NEW r \in Requests,
         Onward, BoardType', BoardIsSound',
         NEW j \in JobType, job' = [job EXCEPT ![r] = j],
         NEW w \in WalkType, walk' = [walk EXCEPT ![r] = w],
         Counts(r)', Paging(job[r].step, walk[r])', Covers(job[r].step, walk[r])', Started(job[r].step, walk[r])',
         ReportTypes', ReportsAreTheirMonths', \A q \in Requests : Exports(q)'
  PROVE  IInv'
<1>1. /\ job' \in [Requests -> JobType] /\ walk' \in [Requests -> WalkType] BY Parts
<1>2. ASSUME NEW q \in Requests
      PROVE  Counts(q)' /\ Walks(job[q].step, walk[q])'
  <2>1. CASE q = r BY <2>1 DEF Walks
  <2>2. CASE q # r
    <3>1. job'[q] = job[q] /\ walk'[q] = walk[q] BY <2>2, Parts
    <3> QED BY <3>1, OthersCount, OthersWalk
  <2> QED BY <2>1, <2>2
<1>3. TypeOK'
  <2>1. \A q \in Requests : walk'[q] \in WalkType /\ Paging(job[q].step, walk[q])'
    BY <1>1, <1>2 DEF Walks
  <2>2. ASSUME NEW q \in Requests
        PROVE  /\ walk'[q].view \in Views
               /\ walk'[q].page \in 1..(Cardinality(Activities) + 1)
               /\ walk'[q].total \in 0..Cardinality(Activities)
               /\ Len(walk'[q].rows) <= PageSize
               /\ walk'[q].next \in 1..(PageSize + 1)
    <3>1. /\ walk'[q].view \in Views /\ walk'[q].page \in Nat \ {0}
          /\ walk'[q].total \in Nat /\ walk'[q].next \in Nat \ {0}
          /\ walk'[q].rows \in Seq(Rows)
      BY <2>1 DEF WalkType
    <3>2. Len(walk'[q].rows) \in Nat BY <3>1, LenProperties
    <3>3. /\ walk'[q].page <= Cardinality(Activities) + 1
          /\ walk'[q].total <= Cardinality(Activities)
          /\ Len(walk'[q].rows) <= PageSize
          /\ walk'[q].next <= Len(walk'[q].rows) + 1
      BY <2>1 DEF Paging
    <3>4. Cardinality(Activities) \in Nat /\ PageSize \in Nat \ {0}
      BY BoardFacts, PageSizeAssumption
    <3> QED BY <3>1, <3>2, <3>3, <3>4
  <2> QED BY <1>1, <2>2 DEF TypeOK, BoardType, JobType, ReportTypes
<1> QED BY <1>1, <1>2, <1>3 DEF IInv

LEMMA QuietBoard ==
  ASSUME IInv, UNCHANGED activities
  PROVE  Onward /\ BoardType' /\ BoardIsSound'
<1>1. UNCHANGED board /\ UNCHANGED born /\ UNCHANGED handed /\ UNCHANGED due BY DEF activities
<1> QED BY <1>1, Parts DEF Onward, BoardType, BoardIsSound, Born

LEMMA QuietReports ==
  ASSUME IInv, UNCHANGED reports,
         \A q \in Requests : job'[q] = job[q] \/ job'[q].step \notin {"upload", "notify"}
  PROVE  ReportTypes' /\ ReportsAreTheirMonths' /\ \A q \in Requests : Exports(q)'
<1>1. UNCHANGED cache /\ UNCHANGED stored /\ UNCHANGED notices BY DEF reports
<1>2. ReportTypes' /\ ReportsAreTheirMonths'
  BY <1>1, Parts DEF ReportTypes, ReportsAreTheirMonths
<1>3. \A q \in Requests : Exports(q)' BY <1>1, Parts DEF Exports
<1> QED BY <1>2, <1>3

\* A step on figures or of an export.
LEMMA JobStep ==
  ASSUME IInv, NEW r \in Requests, UNCHANGED <<activities, walk>>,
         NEW j \in JobType, job' = [job EXCEPT ![r] = j], j.step \notin Listing,
         Counts(r)',
         ReportTypes', ReportsAreTheirMonths', \A q \in Requests : Exports(q)'
  PROVE  IInv'
<1>1. UNCHANGED activities /\ UNCHANGED walk OBVIOUS
<1>2. Onward /\ BoardType' /\ BoardIsSound' BY <1>1, QuietBoard
<1>3. job'[r].step \notin Listing BY Parts
<1>4. Walks(job[r].step, walk[r])' BY <1>1, <1>2, <1>3, OthersWalk
<1>5. walk[r] \in WalkType /\ walk' = [walk EXCEPT ![r] = walk[r]] BY <1>1, Parts
<1> QED BY <1>2, <1>4, <1>5, StepOf DEF Walks

\* A step on a list, which leaves the order and the due of the activities alone.
LEMMA ListStep ==
  ASSUME IInv, NEW r \in Requests, Onward, BoardType', BoardIsSound',
         UNCHANGED born, UNCHANGED due, UNCHANGED reports,
         NEW j \in JobType, job' = [job EXCEPT ![r] = j],
         j.step \in Listing \cup {"idle"},
         NEW w \in WalkType, walk' = [walk EXCEPT ![r] = w],
         Paging(j.step, w), Covers(j.step, w), Started(j.step, w)
  PROVE  IInv'
<1>1. /\ job'[r] = j /\ \A q \in Requests : q # r => job'[q] = job[q]
      /\ walk'[r] = w
  BY Parts
<1>2. Counts(r)' BY <1>1 DEF Counts, Going, Listing
<1>3. \A q \in Requests : job'[q] = job[q] \/ job'[q].step \notin {"upload", "notify"}
  BY <1>1 DEF Listing
<1>4. ReportTypes' /\ ReportsAreTheirMonths' /\ \A q \in Requests : Exports(q)'
  BY <1>3, QuietReports
<1>5. Paging(job[r].step, walk[r])' BY <1>1 DEF Paging
<1>6. Covers(job[r].step, walk[r])'
  <2>1. Born' = Born /\ \A a : Place("all", a)' = Place("all", a) BY PlacesStay
  <2> QED BY <1>1, <2>1 DEF Covers, Whole
<1>7. Started(job[r].step, walk[r])' BY <1>1 DEF Started
<1> QED BY <1>2, <1>4, <1>5, <1>6, <1>7, StepOf

\* A step of nobody that is followed here.
LEMMA OutsideStep ==
  ASSUME IInv, Onward, BoardType', BoardIsSound', UNCHANGED <<job, walk, reports>>
  PROVE  IInv'
<1>1. UNCHANGED job /\ UNCHANGED walk /\ UNCHANGED reports OBVIOUS
<1>2. ReportTypes' /\ ReportsAreTheirMonths' /\ \A q \in Requests : Exports(q)'
  BY <1>1, QuietReports
<1>3. \A q \in Requests : Counts(q)' /\ Walks(job[q].step, walk[q])'
  BY <1>1, OthersCount, OthersWalk
<1>4. TypeOK' BY <1>1, <1>2 DEF IInv, TypeOK, BoardType, ReportTypes
<1> QED BY <1>1, <1>2, <1>3, <1>4, Parts DEF IInv

-----------------------------------------------------------------------------
(* The activities.  *)

LEMMA CreateStep ==
  ASSUME IInv, NEW a \in Activities, Create(a)
  PROVE  IInv'
<1>1. /\ board[a] = "none" /\ a \notin Born
      /\ board' = [board EXCEPT ![a] = "design"] /\ born' = Append(born, a)
      /\ handed' = handed /\ due' = due
  BY BoardFacts DEF Create
<1>2. born \in Seq(Activities) /\ born' \in Seq(Activities) /\ Len(born') = Len(born) + 1
  BY <1>1, BoardFacts
<1>3. /\ DOMAIN born = 1..Len(born) /\ DOMAIN born' = 1..(Len(born) + 1)
      /\ \A i \in 1..Len(born) : born'[i] = born[i]
      /\ born'[Len(born) + 1] = a
  BY <1>1, <1>2, BoardFacts
<1>4. Born' = Born \cup {a} BY <1>3, BoardFacts DEF Born, ToSet
<1>5. Onward BY <1>1, BoardFacts DEF Onward
<1>6. BoardType'
  <2>1. board' \in [Activities -> L!Statuses \cup {"none"}] BY <1>1, BoardFacts DEF L!Statuses
  <2>2. Born' = {b \in Activities : board'[b] # "none"} BY <1>1, <1>4, BoardFacts
  <2>3. Len(born') = Cardinality(Born')
    <3>1. Cardinality(Born \cup {a}) = Cardinality(Born) + 1
      BY <1>1, BoardFacts, FS_AddElement
    <3> QED BY <1>2, <1>4, <3>1, BoardFacts
  <2>4. handed' \subseteq Born' /\ due' \subseteq Born' BY <1>1, <1>4, Parts DEF BoardType
  <2> QED BY <2>1, <2>2, <2>3, <2>4 DEF BoardType
<1>7. BoardIsSound'
  <2>1. \A i \in DOMAIN born : born[i] # a BY <1>1 DEF Born, ToSet
  <2>2. \A i, j \in DOMAIN born : born[i] = born[j] => i = j BY Parts DEF BoardIsSound
  <2>3. \A i, j \in DOMAIN born' : born'[i] = born'[j] => i = j
    BY <1>3, <2>1, <2>2, BoardFacts
  <2>4. \A b \in Activities :
          board'[b] \in {"handed", "approved", "ongoing", "ended"} => b \in handed'
    BY <1>1, Parts, BoardFacts DEF BoardIsSound
  <2> QED BY <1>2, <2>3, <2>4 DEF BoardIsSound
<1>8. UNCHANGED <<job, walk, reports>> BY DEF Create
<1> QED BY <1>5, <1>6, <1>7, <1>8, OutsideStep

\* A change of one status, along the matrix or by force.
LEMMA StatusStep ==
  ASSUME IInv, NEW a \in Activities, board[a] # "none",
         NEW s \in L!Statuses, board' = [board EXCEPT ![a] = s],
         s = board[a] \/ <<board[a], s>> \in L!Matrix \/ s \in L!Forced,
         handed' = IF s = "handed" THEN handed \cup {a} ELSE handed,
         due \subseteq due', due' \subseteq Born, UNCHANGED born
  PROVE  Onward /\ BoardType' /\ BoardIsSound'
<1>1. Born' = Born BY DEF Born
<1>2. a \in Born BY BoardFacts
<1>3. Onward BY BoardFacts DEF Onward
<1>4. BoardType'
  <2>1. board' \in [Activities -> L!Statuses \cup {"none"}] BY BoardFacts
  <2>2. "none" \notin L!Statuses BY DEF L!Statuses, L!Terminal, L!Forced
  <2>3. Born' = {b \in Activities : board'[b] # "none"} BY <1>1, <2>2, BoardFacts
  <2>4. handed' \subseteq Born' /\ due' \subseteq Born' BY <1>1, <1>2, Parts DEF BoardType
  <2> QED BY <1>1, <2>1, <2>3, <2>4, Parts DEF BoardType
<1>5. BoardIsSound'
  <2>1. \A b \in Activities :
          board[b] \in {"handed", "approved", "ongoing", "ended"} => b \in handed
    BY Parts DEF BoardIsSound
  <2>2. s \in {"handed", "approved", "ongoing", "ended"} => a \in handed'
    BY <2>1 DEF L!Matrix, L!Forced
  <2>3. \A b \in Activities :
          board'[b] \in {"handed", "approved", "ongoing", "ended"} => b \in handed'
    BY <2>1, <2>2, BoardFacts
  <2> QED BY <2>3, Parts DEF BoardIsSound
<1> QED BY <1>3, <1>4, <1>5

LEMMA ChangeStep ==
  ASSUME IInv, NEW a \in Activities, Change(a)
  PROVE  IInv'
<1>1. CASE Create(a) BY <1>1, CreateStep
<1>2. CASE ComesDue(a)
  <2>1. /\ board[a] = "approved" /\ board' = [board EXCEPT ![a] = board[a]]
        /\ handed' = handed /\ due' = due \cup {a} /\ UNCHANGED born
    BY <1>2, BoardFacts DEF ComesDue
  <2>2. a \in Born /\ "approved" \in L!Statuses BY <2>1, BoardFacts DEF L!Statuses
  <2>3. due \subseteq due' /\ due' \subseteq Born BY <2>1, <2>2, Parts DEF BoardType
  <2>4. Onward /\ BoardType' /\ BoardIsSound' BY <2>1, <2>2, <2>3, StatusStep
  <2>5. UNCHANGED <<job, walk, reports>> BY <1>2 DEF ComesDue
  <2> QED BY <2>4, <2>5, OutsideStep
<1>3. CASE \E s \in L!Statuses : Move(a, s)
  <2>1. PICK s \in L!Statuses : Move(a, s) BY <1>3
  <2>2. /\ <<board[a], s>> \in L!Matrix /\ board' = [board EXCEPT ![a] = s]
        /\ handed' = IF s = "handed" THEN handed \cup {a} ELSE handed
        /\ UNCHANGED <<born, due, job, walk, reports>>
    BY <2>1 DEF Move
  <2>3. board[a] # "none" BY <2>2 DEF L!Matrix
  <2>4. due \subseteq due' /\ due' \subseteq Born BY <2>2, Parts DEF BoardType
  <2>5. Onward /\ BoardType' /\ BoardIsSound' BY <2>2, <2>3, <2>4, StatusStep
  <2> QED BY <2>2, <2>5, OutsideStep
<1>4. CASE \E s \in L!Forced : ForceEnd(a, s)
  <2>1. PICK s \in L!Forced : ForceEnd(a, s) BY <1>4
  <2>2. /\ board[a] # "none" /\ board' = [board EXCEPT ![a] = s]
        /\ UNCHANGED <<born, handed, due, job, walk, reports>>
    BY <2>1 DEF ForceEnd
  <2>3. s \in L!Statuses /\ s # "handed" BY DEF L!Forced, L!Statuses, L!Terminal
  <2>4. due \subseteq due' /\ due' \subseteq Born BY <2>2, Parts DEF BoardType
  <2>5. Onward /\ BoardType' /\ BoardIsSound' BY <2>2, <2>3, <2>4, StatusStep
  <2> QED BY <2>2, <2>5, OutsideStep
<1> QED BY <1>1, <1>2, <1>3, <1>4 DEF Change

-----------------------------------------------------------------------------
(* The exports. *)

\* A request that is in no query and on no page.
LEMMA NotCounting ==
  ASSUME IInv, NEW r \in Requests, NEW j \in JobType, job' = [job EXCEPT ![r] = j],
         j.step \notin Going
  PROVE  /\ Counts(r)' /\ job'[r] = j
         /\ \A q \in Requests : q # r => job'[q] = job[q]
BY Parts DEF Counts

LEMMA NoJobType ==
  /\ NoJob \in JobType /\ NoJob.step = "idle" /\ NoJob.at = 0
  /\ NoJob.got = Nothing /\ NoJob.base = {}
<1>1. Nothing \in [QueryNames -> SUBSET Activities] BY DEF Nothing
<1> QED BY <1>1 DEF NoJob, JobType, Kinds

LEMMA IdleStep ==
  ASSUME IInv, NEW r \in Requests, UNCHANGED <<activities, walk, reports>>,
         job' = [job EXCEPT ![r] = NoJob]
  PROVE  IInv'
<1>1. NoJob \in JobType /\ NoJob.step = "idle" BY NoJobType
<1>2. Counts(r)' /\ job'[r] = NoJob /\ \A q \in Requests : q # r => job'[q] = job[q]
  BY <1>1, NotCounting DEF Going
<1>3. UNCHANGED <<activities, walk>> /\ UNCHANGED reports OBVIOUS
<1>4. ReportTypes' /\ ReportsAreTheirMonths' /\ \A q \in Requests : Exports(q)'
  BY <1>1, <1>2, <1>3, QuietReports
<1> QED BY <1>1, <1>2, <1>3, <1>4, JobStep DEF Listing

LEMMA ExportFacts ==
  ASSUME IInv, NEW r \in Requests
  PROVE  /\ Asked[r] \in Months /\ "none" \notin Months
         /\ cache \in [Requests -> Months \cup {"none"}]
         /\ stored \in [Months -> Months \cup {"none"}] /\ notices \subseteq Months
         /\ job[r] \in JobType /\ Exports(r)
BY RequestsAssumption, MonthsAssumption, Parts DEF ReportTypes

LEMMA KeepStep ==
  ASSUME IInv, NEW r \in Requests, Keep(r)
  PROVE  IInv'
<1> DEFINE j == [NoJob EXCEPT !.step = "render", !.kind = "export"]
<1>1. job' = [job EXCEPT ![r] = j] /\ cache' = [cache EXCEPT ![r] = Asked[r]]
      /\ UNCHANGED <<activities, walk>> /\ UNCHANGED <<stored, notices>>
  BY DEF Keep
<1>2. j \in JobType /\ j.step = "render" BY NoJobType DEF JobType, Kinds, NoJob
<1> HIDE DEF j
<1>3. Counts(r)' /\ job'[r] = j /\ \A q \in Requests : q # r => job'[q] = job[q]
  BY <1>1, <1>2, NotCounting DEF Going
<1>4. ReportTypes' /\ ReportsAreTheirMonths'
  BY <1>1, ExportFacts, Parts DEF ReportTypes, ReportsAreTheirMonths
<1>5. ASSUME NEW q \in Requests
      PROVE  Exports(q)'
  BY <1>1, <1>2, <1>3, ExportFacts, Parts DEF Exports
<1> QED BY <1>1, <1>2, <1>3, <1>4, <1>5, JobStep DEF Listing

LEMMA ExpireStep ==
  ASSUME IInv, NEW r \in Requests, Expire(r)
  PROVE  IInv'
<1>1. job' = [job EXCEPT ![r] = job[r]] /\ cache' = [cache EXCEPT ![r] = "none"]
      /\ UNCHANGED <<activities, walk>> /\ UNCHANGED <<stored, notices, job>>
  BY Parts DEF Expire
<1>2. ReportTypes' /\ ReportsAreTheirMonths'
  BY <1>1, ExportFacts, Parts DEF ReportTypes, ReportsAreTheirMonths
<1>3. ASSUME NEW q \in Requests
      PROVE  Exports(q)'
  BY <1>1, ExportFacts, Parts DEF Exports
<1>4. UNCHANGED activities /\ UNCHANGED walk /\ UNCHANGED job BY <1>1
<1>5. Onward /\ BoardType' /\ BoardIsSound' BY <1>4, QuietBoard
<1>6. \A q \in Requests : Counts(q)' /\ Walks(job[q].step, walk[q])' BY <1>4, <1>5, OthersCount, OthersWalk
<1>7. TypeOK' BY <1>2, <1>4, <1>5 DEF IInv, TypeOK, BoardType, ReportTypes
<1> QED BY <1>2, <1>3, <1>4, <1>5, <1>6, <1>7, Parts DEF IInv

LEMMA RenderStep ==
  ASSUME IInv, NEW r \in Requests, Render(r)
  PROVE  IInv'
<1> DEFINE j == [job[r] EXCEPT !.step = "upload", !.pdf = Asked[r]]
<1>1. Fetched(r) = Asked[r] BY ExportFacts DEF Render, Fetched, Exports
<1>2. job' = [job EXCEPT ![r] = j] /\ UNCHANGED <<activities, walk, reports>>
  BY <1>1 DEF Render
<1>3. j \in JobType /\ j.step = "upload" /\ j.pdf = Asked[r]
  BY ExportFacts DEF JobType
<1> HIDE DEF j
<1>4. Counts(r)' /\ job'[r] = j /\ \A q \in Requests : q # r => job'[q] = job[q]
  BY <1>2, <1>3, NotCounting DEF Going
<1>5. UNCHANGED cache /\ UNCHANGED stored /\ UNCHANGED notices BY <1>2 DEF reports
<1>6. ReportTypes' /\ ReportsAreTheirMonths'
  BY <1>5, Parts DEF ReportTypes, ReportsAreTheirMonths
<1>7. ASSUME NEW q \in Requests
      PROVE  Exports(q)'
  BY <1>3, <1>4, <1>5, ExportFacts, Parts DEF Exports
<1> QED BY <1>2, <1>3, <1>4, <1>6, <1>7, JobStep DEF Listing

LEMMA UploadStep ==
  ASSUME IInv, NEW r \in Requests, Upload(r)
  PROVE  IInv'
<1> DEFINE j == [job[r] EXCEPT !.step = "notify", !.pdf = "none"]
<1>1. job[r].pdf = Asked[r] BY ExportFacts DEF Upload, Exports
<1>2. /\ job' = [job EXCEPT ![r] = j] /\ stored' = [stored EXCEPT ![Asked[r]] = Asked[r]]
      /\ UNCHANGED <<activities, walk>> /\ UNCHANGED <<cache, notices>>
  BY <1>1 DEF Upload
<1>3. j \in JobType /\ j.step = "notify" BY ExportFacts DEF JobType
<1> HIDE DEF j
<1>4. Counts(r)' /\ job'[r] = j /\ \A q \in Requests : q # r => job'[q] = job[q]
  BY <1>2, <1>3, NotCounting DEF Going
<1>5. ReportTypes' /\ ReportsAreTheirMonths'
  BY <1>2, ExportFacts, Parts DEF ReportTypes, ReportsAreTheirMonths
<1>6. ASSUME NEW q \in Requests
      PROVE  Exports(q)'
  BY <1>2, <1>3, <1>4, ExportFacts, Parts DEF Exports
<1> QED BY <1>2, <1>3, <1>4, <1>5, <1>6, JobStep DEF Listing

LEMMA NotifyStep ==
  ASSUME IInv, NEW r \in Requests, Notify(r)
  PROVE  IInv'
<1>1. stored[Asked[r]] = Asked[r] BY ExportFacts DEF Notify, Exports
<1>2. /\ job' = [job EXCEPT ![r] = NoJob] /\ notices' = notices \cup {Asked[r]}
      /\ UNCHANGED <<activities, walk>> /\ UNCHANGED <<cache, stored>>
  BY DEF Notify
<1>3. NoJob \in JobType /\ NoJob.step = "idle" BY NoJobType
<1>4. Counts(r)' /\ job'[r] = NoJob /\ \A q \in Requests : q # r => job'[q] = job[q]
  BY <1>2, <1>3, NotCounting DEF Going
<1>5. ReportTypes' /\ ReportsAreTheirMonths'
  BY <1>1, <1>2, ExportFacts, Parts DEF ReportTypes, ReportsAreTheirMonths
<1>6. ASSUME NEW q \in Requests
      PROVE  Exports(q)'
  BY <1>2, <1>3, <1>4, ExportFacts, Parts DEF Exports
<1> QED BY <1>2, <1>3, <1>4, <1>5, <1>6, JobStep DEF Listing

LEMMA ExportStep ==
  ASSUME IInv, NEW r \in Requests, Export(r)
  PROVE  IInv'
<1>1. CASE RenderFails(r) BY <1>1, IdleStep DEF RenderFails
<1>2. CASE Fail(r) BY <1>2, IdleStep DEF Fail
<1> QED
  BY <1>1, <1>2, KeepStep, RenderStep, UploadStep, NotifyStep, ExpireStep DEF Export

-----------------------------------------------------------------------------
(* The figures. *)

LEMMA AskStep ==
  ASSUME IInv, NEW r \in Requests, NEW kind \in Kinds, Ask(r, kind)
  PROVE  IInv'
<1> DEFINE asking == [NoJob EXCEPT !.step = "query"]
           asked == [asking EXCEPT !.kind = kind]
           j == [asked EXCEPT !.at = 1]
<1>1. kind # "list" /\ job' = [job EXCEPT ![r] = j] /\ UNCHANGED <<activities, walk, reports>>
  BY DEF Ask
<1>2. /\ j \in JobType /\ j.step = "query" /\ j.kind = kind /\ j.at = 1
      /\ j.got = Nothing /\ j.base = {}
  <2>1. /\ asking \in JobType /\ asking.step = "query"
        /\ asking.got = Nothing /\ asking.base = {}
    BY NoJobType DEF JobType
  <2> HIDE DEF asking
  <2>2. /\ asked \in JobType /\ asked.step = "query" /\ asked.kind = kind
        /\ asked.got = Nothing /\ asked.base = {}
    BY <2>1 DEF JobType
  <2> HIDE DEF asked
  <2> QED BY <2>2 DEF JobType
<1> HIDE DEF j
<1>3. job'[r] = j /\ \A q \in Requests : q # r => job'[q] = job[q] BY <1>1, <1>2, Parts
<1>4. Made(r)' = {} BY <1>2, <1>3 DEF Made
<1>5. \A q \in QueryNames : job'[r].got[q] = {} BY <1>2, <1>3 DEF Nothing
<1>6. Asking(r)'
  <2>1. Len(Queries(kind)) \in 2..7 BY <1>1, QueryFacts
  <2>2. 1 \in 1..Len(Queries(kind)) BY <2>1
  <2> QED BY <1>1, <1>2, <1>3, <1>5, <2>2 DEF Asking
<1>7. Growing(r)'
  <2>1. {"begun", "handed"} \cup ToSet(Groupings) \subseteq QueryNames BY DEF QueryNames
  <2>2. 1..(job'[r].at - 1) = {} BY <1>2, <1>3
  <2> QED BY <1>4, <1>5, <2>1, <2>2 DEF Growing
<1>8. Slipping(r)' BY <1>2, <1>3 DEF Slipping
<1>9. Counts(r)' BY <1>6, <1>7, <1>8 DEF Counts
<1>10. UNCHANGED <<activities, walk>> /\ UNCHANGED reports BY <1>1
<1>11. ReportTypes' /\ ReportsAreTheirMonths' /\ \A q \in Requests : Exports(q)'
  BY <1>2, <1>3, <1>10, QuietReports
<1> QED BY <1>1, <1>2, <1>9, <1>10, <1>11, JobStep DEF Listing

\* What a query counts.
LEMMA HitFacts ==
  ASSUME IInv
  PROVE  /\ \A q : Hits(q) \subseteq Activities
         /\ \A q \in ToSet(Groupings) : Hits(q) = Born
         /\ Hits("begun") \subseteq handed /\ Hits("handed") = handed
         /\ "begun" \notin ToSet(Groupings) /\ "handed" \notin ToSet(Groupings)
<1>1. \A q : Hits(q) \subseteq Activities
  BY Parts, BoardFacts DEF Hits, In, BoardType
<1>2. ToSet(Groupings) = {"total", "byStatus", "byType", "byDay"} BY DEF Groupings, ToSet
<1>3. Hits("begun") = In({"approved", "ongoing", "ended"}) BY <1>2 DEF Hits, Wanted
<1>4. Hits("begun") \subseteq handed BY <1>3, Parts, BoardFacts DEF In, BoardIsSound
<1>5. Hits("handed") = handed BY <1>2 DEF Hits
<1> QED BY <1>1, <1>2, <1>4, <1>5 DEF Hits

\* The next query and what it does to the job.
LEMMA QueryMade ==
  ASSUME IInv, NEW r \in Requests, Query(r)
  PROVE  LET kind == job[r].kind
             q == Queries(kind)[job[r].at]
             hits == Hits(q) \cap Scope(r)
         IN  /\ kind \in Kinds \ {"list"} /\ job[r].at \in 1..Len(Queries(kind))
             /\ q \in QueryNames \ Made(r)
             /\ Asking(r) /\ Growing(r) /\ Slipping(r)
             /\ Made(r)' = Made(r) \cup {q} /\ Scope(r)' = Scope(r)
             /\ job' \in [Requests -> JobType]
             /\ \A p \in Requests : p # r => job'[p] = job[p]
             /\ job'[r].kind = kind /\ job'[r].at = job[r].at + 1
             /\ job'[r].step = IF job[r].at = Len(Queries(kind)) THEN "seen" ELSE "query"
             /\ job'[r].got[q] = hits
             /\ \A p \in QueryNames : p # q => job'[r].got[p] = job[r].got[p]
             /\ job'[r].base = IF IsFirst(kind, job[r].at)
                               THEN In(Shared(kind)) \cap Scope(r) ELSE job[r].base
<1> DEFINE kind == job[r].kind
           qs == Queries(kind)
           at == job[r].at
           q == qs[at]
           hits == Hits(q) \cap Scope(r)
           base == IF IsFirst(kind, at) THEN In(Shared(kind)) \cap Scope(r) ELSE job[r].base
           got == [job[r].got EXCEPT ![q] = hits]
           step == IF at = Len(qs) THEN "seen" ELSE "query"
           j == [job[r] EXCEPT !.got = got, !.at = at + 1, !.step = step, !.base = base]
<1>1. job[r].step = "query" BY DEF Query
<1>2. Asking(r) /\ Growing(r) /\ Slipping(r) BY <1>1, Parts DEF Counts, Going
<1>3. job[r] \in JobType BY Parts
<1>4. kind \in Kinds \ {"list"} /\ at \in 1..Len(qs) BY <1>1, <1>2, <1>3 DEF Asking, JobType
<1>5. /\ qs \in Seq(QueryNames) /\ Len(qs) \in 2..7
      /\ \A i, k \in 1..Len(qs) : qs[i] = qs[k] => i = k
  BY <1>4, QueryFacts
<1>6. q \in QueryNames /\ at \in 1..7 BY <1>4, <1>5
<1>7. job' = [job EXCEPT ![r] = j] BY Parts DEF Query
<1> HIDE DEF qs
<1>8. /\ got \in [QueryNames -> SUBSET Activities] /\ got[q] = hits
      /\ \A p \in QueryNames : p # q => got[p] = job[r].got[p]
  BY <1>3, <1>6, HitFacts DEF JobType
<1>9. base \in SUBSET Activities BY <1>3, BoardFacts DEF JobType, In
<1> HIDE DEF q, got, base, hits
<1>10. /\ j \in JobType /\ j.kind = kind /\ j.at = at + 1 /\ j.step = step
       /\ j.got = got /\ j.base = base
  <2>1. at + 1 \in 0..8 BY <1>6
  <2>2. step \in {"seen", "query"} OBVIOUS
  <2> HIDE DEF at, step
  <2>3. j.kind = kind /\ j.at = at + 1 /\ j.step = step /\ j.got = got /\ j.base = base
    BY <1>3 DEF JobType
  <2>4. j \in JobType BY <1>3, <1>8, <1>9, <2>1, <2>2 DEF JobType
  <2> QED BY <2>3, <2>4
<1> HIDE DEF j
<1>11. /\ job'[r] = j /\ job' \in [Requests -> JobType]
       /\ \A p \in Requests : p # r => job'[p] = job[p]
  BY <1>7, <1>10, Parts
<1>12. Made(r) = {qs[i] : i \in 1..(at - 1)} BY DEF Made, qs
<1>13. Made(r)' = {qs[i] : i \in 1..at} BY <1>6, <1>10, <1>11 DEF Made, qs
<1>14. q \notin Made(r) /\ Made(r)' = Made(r) \cup {q}
  <2>1. 1..at = (1..(at - 1)) \cup {at} BY <1>6
  <2>2. \A i \in 1..(at - 1) : i \in 1..Len(qs) /\ i # at BY <1>4, <1>5, <1>6
  <2> QED BY <1>4, <1>5, <1>12, <1>13, <2>1, <2>2 DEF q
<1>15. Scope(r)' = Scope(r) BY <1>10, <1>11 DEF Scope
<1> QED
  BY <1>2, <1>4, <1>6, <1>8, <1>10, <1>11, <1>14, <1>15 DEF q, got, base, hits, qs

LEMMA QueryAsking ==
  ASSUME IInv, NEW r \in Requests, Query(r)
  PROVE  Asking(r)'
<1> DEFINE qs == Queries(job[r].kind)
           at == job[r].at
<1>1. job[r].kind \in Kinds \ {"list"} /\ at \in 1..Len(qs) BY QueryMade
<1>2. Len(qs) \in 2..7 BY <1>1, QueryFacts
<1>3. /\ job'[r].kind = job[r].kind /\ job'[r].at = at + 1
      /\ job'[r].step = IF at = Len(qs) THEN "seen" ELSE "query"
  BY QueryMade
<1>4. ASSUME NEW p \in QueryNames \ Made(r)'
      PROVE  job'[r].got[p] = {}
  <2>1. p # qs[at] /\ p \notin Made(r) BY QueryMade
  <2> QED BY <2>1, QueryMade DEF Asking
<1> HIDE DEF at, qs
<1>5. at # Len(qs) => at + 1 \in 1..Len(qs) BY <1>1, <1>2
<1> QED BY <1>1, <1>3, <1>4, <1>5 DEF Asking, qs

LEMMA QueryGrowing ==
  ASSUME IInv, NEW r \in Requests, Query(r)
  PROVE  Growing(r)'
<1> DEFINE qs == Queries(job[r].kind)
           at == job[r].at
           q == qs[at]
           got == job[r].got
           new == job'[r].got
<1>1. /\ job[r].kind \in Kinds \ {"list"} /\ at \in 1..Len(qs)
      /\ q \in QueryNames \ Made(r) /\ Growing(r)
      /\ Made(r)' = Made(r) \cup {q} /\ Scope(r)' = Scope(r)
      /\ job'[r].kind = job[r].kind /\ job'[r].at = at + 1
      /\ new[q] = Hits(q) \cap Scope(r)
      /\ \A p \in QueryNames : p # q => new[p] = got[p]
  BY QueryMade
<1>2. /\ qs \in Seq(QueryNames) /\ Len(qs) \in 2..7
      /\ \A i, k \in 1..Len(qs) : qs[i] = qs[k] => i = k
      /\ \A i, k \in 1..Len(qs) : qs[i] = "handed" /\ qs[k] = "begun" => k < i
  BY <1>1, QueryFacts
<1>3. UNCHANGED born /\ UNCHANGED handed /\ Born' = Born BY DEF Query, activities, Born
<1>4. ToSet(Groupings) \subseteq QueryNames /\ "begun" \in QueryNames /\ "handed" \in QueryNames
  BY DEF QueryNames
<1>5. Made(r) = {qs[i] : i \in 1..(at - 1)} BY DEF Made
<1> HIDE DEF qs, at, q, got, new
<1>6. /\ \A p \in ToSet(Groupings) : got[p] \subseteq Born \cap Scope(r)
      /\ \A i, k \in 1..(at - 1) :
           i < k /\ {qs[i], qs[k]} \subseteq ToSet(Groupings) => got[qs[i]] \subseteq got[qs[k]]
      /\ got["begun"] \subseteq handed \cap Scope(r)
      /\ "handed" \in Made(r) => got["begun"] \subseteq got["handed"]
  BY <1>1 DEF Growing, qs, at, got
<1>7. ASSUME NEW p \in ToSet(Groupings)
      PROVE  new[p] \subseteq Born \cap Scope(r)
  BY <1>1, <1>4, <1>6, HitFacts
<1>8. ASSUME NEW i \in 1..at, NEW k \in 1..at,
             i < k, {qs[i], qs[k]} \subseteq ToSet(Groupings)
      PROVE  new[qs[i]] \subseteq new[qs[k]]
  <2>1. i \in 1..(at - 1) /\ i \in 1..Len(qs) /\ i # at BY <1>1, <1>2, <1>8
  <2>2. qs[i] # q BY <1>1, <1>2, <2>1 DEF q
  <2>3. new[qs[i]] = got[qs[i]] BY <1>1, <1>4, <1>8, <2>2
  <2>4. CASE k = at
    <3>1. new[qs[k]] = Born \cap Scope(r) BY <1>1, <1>8, <2>4, HitFacts DEF q
    <3> QED BY <1>6, <1>8, <2>3, <3>1
  <2>5. CASE k # at
    <3>1. k \in 1..(at - 1) /\ k \in 1..Len(qs) BY <1>1, <1>2, <2>5
    <3>2. qs[k] # q BY <1>1, <1>2, <2>5, <3>1 DEF q
    <3>3. new[qs[k]] = got[qs[k]] BY <1>1, <1>4, <1>8, <3>2
    <3> QED BY <1>6, <1>8, <2>1, <2>3, <3>1, <3>3
  <2> QED BY <2>4, <2>5
<1>9. new["begun"] \subseteq handed \cap Scope(r)
  BY <1>1, <1>4, <1>6, HitFacts
<1>10. ASSUME "handed" \in Made(r) \cup {q}
       PROVE  new["begun"] \subseteq new["handed"]
  <2>1. CASE q = "handed"
    <3>1. new["handed"] = handed \cap Scope(r) BY <1>1, <2>1, HitFacts
    <3> QED BY <1>9, <3>1
  <2>2. CASE q # "handed"
    <3>1. PICK i \in 1..(at - 1) : qs[i] = "handed" BY <1>5, <1>10, <2>2
    <3>2. i \in 1..Len(qs) /\ i < at BY <1>1, <1>2, <3>1
    <3>3. q # "begun" BY <1>1, <1>2, <3>1, <3>2 DEF q
    <3>4. new["begun"] = got["begun"] /\ new["handed"] = got["handed"]
      BY <1>1, <1>4, <2>2, <3>3
    <3> QED BY <1>6, <1>10, <2>2, <3>4
  <2> QED BY <2>1, <2>2
<1>11. /\ Queries(job'[r].kind) = qs
       /\ \A i, k \in 1..(job'[r].at - 1) : i \in 1..at /\ k \in 1..at
       /\ new = job'[r].got
  BY <1>1, <1>2 DEF qs, new
<1> QED BY <1>1, <1>3, <1>7, <1>8, <1>9, <1>10, <1>11 DEF Growing

LEMMA QuerySlipping ==
  ASSUME IInv, NEW r \in Requests, Query(r)
  PROVE  Slipping(r)'
<1> DEFINE kind == job[r].kind
           qs == Queries(kind)
           at == job[r].at
           q == qs[at]
           got == job[r].got
           new == job'[r].got
           base == job[r].base
           last == Second(kind)
<1>1. /\ kind \in Kinds \ {"list"} /\ at \in 1..Len(qs)
      /\ q \in QueryNames \ Made(r) /\ Asking(r) /\ Slipping(r)
      /\ Made(r)' = Made(r) \cup {q} /\ Scope(r)' = Scope(r)
      /\ job'[r].kind = kind /\ job'[r].at = at + 1
      /\ new[q] = Hits(q) \cap Scope(r)
      /\ \A p \in QueryNames : p # q => new[p] = got[p]
      /\ job'[r].base = IF IsFirst(kind, at) THEN In(Shared(kind)) \cap Scope(r) ELSE base
  BY QueryMade
<1>2. /\ qs \in Seq(QueryNames) /\ Len(qs) \in 2..7
      /\ \A i, k \in 1..Len(qs) : qs[i] \in Split(kind) /\ qs[k] = last => i <= k
      /\ \A p \in Split(kind) : \E i \in 1..Len(qs) : qs[i] = p
      /\ Split(kind) # {} => \E p \in Split(kind) : p # last
  BY <1>1, QueryFacts
<1>3. UNCHANGED board /\ UNCHANGED born /\ Born' = Born BY DEF Query, activities, Born
<1>4. Split(kind) \subseteq QueryNames BY <1>2
<1>5. Made(r) = {qs[i] : i \in 1..(at - 1)} BY DEF Made
<1>6. IsFirst(kind, at) <=> q \in Split(kind) /\ Split(kind) \cap Made(r) = {}
  BY <1>5 DEF IsFirst
<1>7. got[q] = {} BY <1>1 DEF Asking
<1> HIDE DEF kind, qs, at, q, got, new, base, last
<1>8. \A p \in Made(r) : \E i \in 1..Len(qs) : i < at /\ qs[i] = p
  <2>1. \A i \in 1..(at - 1) : i \in 1..Len(qs) /\ i < at BY <1>1, <1>2
  <2> QED BY <1>5, <2>1
<1>9. /\ base \subseteq Born \cap Scope(r)
      /\ Split(kind) \cap Made(r) = {} => base = {}
      /\ \A a \in base :
           \/ \E p \in Split(kind) : a \in got[p]
           \/ board[a] \in Past(kind)
           \/ last \notin Made(r) /\ board[a] \in Wanted[last]
  BY <1>1 DEF Slipping, kind, base, got, last
<1> SUFFICES
      /\ job'[r].base \subseteq Born \cap Scope(r)
      /\ Split(kind) \cap (Made(r) \cup {q}) = {} => job'[r].base = {}
      /\ \A a \in job'[r].base :
           \/ \E p \in Split(kind) : a \in new[p]
           \/ board[a] \in Past(kind)
           \/ last \notin Made(r) \cup {q} /\ board[a] \in Wanted[last]
  BY <1>1, <1>3 DEF Slipping, new, last
<1>10. CASE Split(kind) = {}
  <2>1. job'[r].base = {} BY <1>1, <1>6, <1>9, <1>10
  <2> QED BY <2>1
<1>11. CASE Split(kind) # {} /\ q \notin Split(kind)
  <2>1. last \in Split(kind) BY <1>1, <1>11, SplitFacts DEF last
  <2>2. job'[r].base = base BY <1>1, <1>6, <1>11
  <2>3. \A p \in Split(kind) : new[p] = got[p] BY <1>1, <1>4, <1>11
  <2> QED BY <1>9, <1>11, <2>1, <2>2, <2>3
<1>12. CASE q \in Split(kind) /\ Split(kind) \cap Made(r) = {}
  <2>1. job'[r].base = In(Shared(kind)) \cap Scope(r) BY <1>1, <1>6, <1>12
  <2>2. q # last
    <3>1. PICK p \in Split(kind) : p # last BY <1>2, <1>12
    <3>2. PICK i \in 1..Len(qs) : qs[i] = p BY <1>2
    <3>3. ASSUME q = last
          PROVE  FALSE
      <4>1. i <= at /\ i # at BY <1>1, <1>2, <3>1, <3>2, <3>3 DEF q
      <4>2. i \in 1..(at - 1) BY <1>1, <1>2, <4>1
      <4> QED BY <1>5, <1>12, <3>2, <4>2
    <3> QED BY <3>3
  <2>3. /\ last \in Split(kind) /\ Hits(q) = In(Wanted[q])
        /\ Shared(kind) = Wanted[q] \cup Wanted[last]
    BY <1>1, <1>12, <2>2, SplitFacts DEF last
  <2>4. last \notin Made(r) \cup {q} BY <1>12, <2>2, <2>3
  <2>5. ASSUME NEW a \in job'[r].base
        PROVE  \/ \E p \in Split(kind) : a \in new[p]
               \/ board[a] \in Wanted[last]
    BY <1>1, <1>12, <2>1, <2>3 DEF In
  <2> QED BY <1>12, <2>1, <2>4, <2>5 DEF In
<1>13. CASE q \in Split(kind) /\ Split(kind) \cap Made(r) # {}
  <2>1. job'[r].base = base BY <1>1, <1>6, <1>13
  <2>2. PICK p \in Split(kind) : p \in Made(r) BY <1>13
  <2>3. /\ last \in Split(kind) /\ Hits(q) = In(Wanted[q])
        /\ p = q \/ p = last \/ q = last
    BY <1>1, <1>13, <2>2, SplitFacts DEF last
  <2>4. last \notin Made(r)
    <3>1. ASSUME last \in Made(r)
          PROVE  FALSE
      <4>1. PICK i \in 1..Len(qs) : i < at /\ qs[i] = last BY <1>8, <3>1
      <4>2. at <= i BY <1>1, <1>2, <1>13, <4>1 DEF q
      <4> QED BY <1>1, <1>2, <4>1, <4>2
    <3> QED BY <3>1
  <2>5. q = last BY <1>1, <2>2, <2>3, <2>4
  <2>6. ASSUME NEW a \in base
        PROVE  (\E s \in Split(kind) : a \in new[s]) \/ board[a] \in Past(kind)
    <3>1. CASE \E s \in Split(kind) : a \in got[s]
      <4>1. PICK s \in Split(kind) : a \in got[s] BY <3>1
      <4>2. s # q BY <1>7, <4>1
      <4>3. new[s] = got[s] BY <1>1, <1>4, <4>2
      <4> QED BY <4>1, <4>3
    <3>2. CASE board[a] \in Wanted[last]
      <4>1. a \in Hits(q) \cap Scope(r) BY <1>9, <2>3, <2>5, <3>2 DEF In
      <4> QED BY <1>1, <1>13, <4>1
    <3> QED BY <1>9, <3>1, <3>2
  <2> QED BY <1>9, <1>13, <2>1, <2>6
<1> QED BY <1>10, <1>11, <1>12, <1>13

LEMMA QueryStep ==
  ASSUME IInv, NEW r \in Requests, Query(r)
  PROVE  IInv'
<1>1. /\ job'[r] \in JobType /\ job' = [job EXCEPT ![r] = job'[r]]
      /\ job'[r].step \in {"seen", "query"}
      /\ \A q \in Requests : q # r => job'[q] = job[q]
  BY QueryMade, Parts
<1>2. Counts(r)' BY QueryAsking, QueryGrowing, QuerySlipping DEF Counts
<1>3. UNCHANGED <<activities, walk>> /\ UNCHANGED reports BY DEF Query
<1>4. ReportTypes' /\ ReportsAreTheirMonths' /\ \A q \in Requests : Exports(q)'
  BY <1>1, <1>3, QuietReports
<1> DEFINE j == job'[r]
<1>5. j \in JobType /\ job' = [job EXCEPT ![r] = j] /\ j.step \notin Listing
  BY <1>1 DEF Listing
<1> HIDE DEF j
<1> QED BY <1>2, <1>3, <1>4, <1>5, JobStep

LEMMA FiguresStep ==
  ASSUME IInv, NEW r \in Requests, Figures(r)
  PROVE  IInv'
<1>1. CASE Return(r) BY <1>1, IdleStep DEF Return
<1> QED BY <1>1, AskStep, QueryStep DEF Figures

-----------------------------------------------------------------------------
(* The lists. *)

\* Pages, which begin after the rows of those before them.
LEMMA PageArithmetic ==
  ASSUME NEW n \in Nat \ {0}
  PROVE  /\ (n - 1) * PageSize \in Nat /\ n * PageSize \in Nat
         /\ n * PageSize = (n - 1) * PageSize + PageSize
         /\ n <= n * PageSize
         /\ n = 1 => (n - 1) * PageSize = 0
         /\ (n + 1) - 1 = n
<1>1. PageSize \in Nat \ {0} BY PageSizeAssumption
<1>2. \A k \in Nat : k * PageSize \in Nat BY <1>1
<1>3. n - 1 \in Nat OBVIOUS
<1>4. n * PageSize = (n - 1) * PageSize + PageSize BY <1>1
<1>5. n <= n * PageSize
  <2>1. \E d \in Nat : PageSize = d + 1
    <3>1. PageSize - 1 \in Nat /\ PageSize = (PageSize - 1) + 1 BY <1>1
    <3> QED BY <3>1
  <2>2. PICK d \in Nat : PageSize = d + 1 BY <2>1
  <2>3. n * PageSize = n * d + n /\ n * d \in Nat BY <2>2
  <2> QED BY <2>3
<1>6. n = 1 => (n - 1) * PageSize = 0 BY <1>1
<1> QED BY <1>2, <1>3, <1>4, <1>5, <1>6

\* The walk of a request, whose parts the other lemmas take from here.
LEMMA WalkFacts ==
  ASSUME IInv, NEW r \in Requests
  PROVE  /\ walk[r] \in WalkType /\ job[r] \in JobType
         /\ walk[r].view \in Views
         /\ walk[r].page \in Nat \ {0} /\ walk[r].total \in Nat
         /\ walk[r].rows \in Seq(Rows) /\ walk[r].next \in Nat \ {0}
         /\ walk[r].walked \subseteq Activities /\ walk[r].known \in Nat
         /\ walk[r].late \subseteq Activities
         /\ Len(walk[r].rows) \in Nat /\ DOMAIN walk[r].rows = 1..Len(walk[r].rows)
         /\ Paging(job[r].step, walk[r]) /\ Covers(job[r].step, walk[r]) /\ Started(job[r].step, walk[r])
<1>1. walk[r] \in WalkType /\ job[r] \in JobType /\ Paging(job[r].step, walk[r]) /\ Covers(job[r].step, walk[r]) /\ Started(job[r].step, walk[r])
  BY Parts
<1>2. walk[r].rows \in Seq(Rows) BY <1>1 DEF WalkType
<1> QED BY <1>1, <1>2, LenProperties DEF WalkType

\* A walk that goes on changes some of its parts.
LEMMA FreshWalk ==
  /\ NoWalk \in WalkType
  /\ NoWalk.view = "all" /\ NoWalk.page = 1 /\ NoWalk.total = 0 /\ NoWalk.rows = <<>>
  /\ NoWalk.next = 1 /\ NoWalk.walked = {} /\ NoWalk.known = 0 /\ NoWalk.late = {}
<1>1. "all" \in Views BY DEF Views, Shows
<1>2. <<>> \in Seq(Rows) OBVIOUS
<1> QED BY <1>1, <1>2 DEF NoWalk, WalkType

LEMMA QuietListStep ==
  ASSUME IInv, NEW r \in Requests, UNCHANGED <<activities, reports>>,
         NEW j \in JobType, job' = [job EXCEPT ![r] = j],
         j.step \in Listing \cup {"idle"},
         NEW w \in WalkType, walk' = [walk EXCEPT ![r] = w],
         Walks(j.step, w)
  PROVE  IInv'
<1>1. UNCHANGED activities /\ UNCHANGED reports OBVIOUS
<1>2. UNCHANGED born /\ UNCHANGED due BY <1>1 DEF activities
<1>3. Onward /\ BoardType' /\ BoardIsSound' BY <1>1, QuietBoard
<1>4. Paging(j.step, w) /\ Covers(j.step, w) /\ Started(j.step, w) BY DEF Walks
<1> QED BY <1>1, <1>2, <1>3, <1>4, ListStep

LEMMA JobAtStep ==
  ASSUME IInv, NEW r \in Requests, NEW s \in Listing
  PROVE  /\ [job[r] EXCEPT !.step = s] \in JobType
         /\ [job[r] EXCEPT !.step = s].step = s
         /\ [NoJob EXCEPT !.step = s] \in JobType
         /\ [NoJob EXCEPT !.step = s].step = s
BY Parts, NoJobType DEF JobType, Listing

LEMMA OpenListStep ==
  ASSUME IInv, NEW r \in Requests, NEW view \in Views \ {"one"}, OpenList(r, view)
  PROVE  IInv'
<1> DEFINE j == [NoJob EXCEPT !.step = "count"]
           shown == [NoWalk EXCEPT !.view = view]
           w == [shown EXCEPT !.known = Len(born)]
<1>1. /\ job' = [job EXCEPT ![r] = j] /\ walk' = [walk EXCEPT ![r] = w]
      /\ UNCHANGED <<activities, reports>>
  BY DEF OpenList
<1>2. j \in JobType /\ j.step = "count" /\ "count" \in Listing BY JobAtStep DEF Listing
<1>3. /\ shown \in WalkType /\ shown.view = view /\ shown.page = 1 /\ shown.total = 0
      /\ shown.rows = <<>> /\ shown.next = 1 /\ shown.late = {}
  BY FreshWalk DEF WalkType
<1> HIDE DEF j, shown
<1>4. /\ w \in WalkType /\ w.view = view /\ w.page = 1 /\ w.total = 0
      /\ w.rows = <<>> /\ w.next = 1 /\ w.late = {} /\ w.known = Len(born)
  BY <1>3, BoardFacts DEF WalkType
<1> HIDE DEF w
<1>5. Paging("count", w) BY <1>4, BoardFacts, PageSizeAssumption DEF Paging
<1>6. Covers("count", w)
  <2>1. \A a : Place("all", a) \in Nat BY PlaceFacts
  <2>2. (w.page - 1) * PageSize = 0 BY <1>4, PageArithmetic
  <2> QED BY <2>1, <2>2 DEF Covers
<1>7. Started("count", w) BY DEF Started
<1> QED BY <1>1, <1>2, <1>4, <1>5, <1>6, <1>7, QuietListStep DEF Walks

LEMMA OpenOneStep ==
  ASSUME IInv, NEW r \in Requests, NEW a \in Activities, OpenOne(r, a)
  PROVE  IInv'
<1> DEFINE j == [NoJob EXCEPT !.step = "start"]
           row == [id |-> a, status |-> board[a]]
           shown == [NoWalk EXCEPT !.view = "one"]
           noted == [shown EXCEPT !.late = due]
           w == [noted EXCEPT !.rows = <<row>>]
<1>1. /\ a \in Born /\ job' = [job EXCEPT ![r] = j] /\ walk' = [walk EXCEPT ![r] = w]
      /\ UNCHANGED <<activities, reports>>
  BY DEF OpenOne
<1>2. j \in JobType /\ j.step = "start" /\ "start" \in Listing BY JobAtStep DEF Listing
<1>3. row \in Rows BY <1>1, BoardFacts DEF Rows
<1> HIDE DEF j, row
<1>4. <<row>> \in Seq(Rows) /\ Len(<<row>>) = 1 BY <1>3
<1>5. "one" \in Views BY DEF Views
<1>6. /\ shown \in WalkType /\ shown.view = "one" /\ shown.page = 1 /\ shown.total = 0
      /\ shown.next = 1 /\ shown.known = 0
  BY <1>5, FreshWalk DEF WalkType
<1> HIDE DEF shown
<1>7. /\ noted \in WalkType /\ noted.view = "one" /\ noted.page = 1 /\ noted.total = 0
      /\ noted.next = 1 /\ noted.known = 0 /\ noted.late = due
  <2>1. due \subseteq Activities BY Parts, BoardFacts DEF BoardType
  <2> QED BY <1>6, <2>1 DEF WalkType
<1> HIDE DEF noted
<1>8. /\ w \in WalkType /\ w.view = "one" /\ w.page = 1 /\ w.total = 0
      /\ w.next = 1 /\ w.known = 0 /\ w.late = due /\ w.rows = <<row>>
  BY <1>4, <1>7 DEF WalkType
<1> HIDE DEF w
<1>9. Paging("start", w) BY <1>4, <1>8, BoardFacts, PageSizeAssumption DEF Paging
<1>10. Covers("start", w) BY <1>8 DEF Covers, Whole
<1>11. Started("start", w)
  <2>1. \A i \in DOMAIN w.rows : ~(i < 1) BY <1>4, <1>8
  <2> QED BY <1>8, <2>1 DEF Started
<1> QED BY <1>1, <1>2, <1>8, <1>9, <1>10, <1>11, QuietListStep DEF Walks

LEMMA CountRowsStep ==
  ASSUME IInv, NEW r \in Requests, CountRows(r)
  PROVE  IInv'
<1> DEFINE j == [job[r] EXCEPT !.step = "read"]
           n == Cardinality(Matching(walk[r].view))
           w == [walk[r] EXCEPT !.total = n]
<1>1. /\ job[r].step = "count"
      /\ job' = [job EXCEPT ![r] = j] /\ walk' = [walk EXCEPT ![r] = w]
      /\ UNCHANGED <<activities, reports>>
  BY Parts DEF CountRows
<1>2. j \in JobType /\ j.step = "read" /\ "read" \in Listing BY JobAtStep DEF Listing
<1>3. n \in 0..Cardinality(Activities) /\ (walk[r].view = "all" => n = Cardinality(Born))
  BY PlaceFacts
<1> HIDE DEF j, n
<1>4. n \in Nat /\ n <= Cardinality(Activities) BY <1>3, BoardFacts
<1>5. /\ w \in WalkType /\ w.view = walk[r].view /\ w.page = walk[r].page /\ w.total = n
      /\ w.rows = walk[r].rows /\ w.next = walk[r].next /\ w.late = walk[r].late
      /\ w.known = walk[r].known /\ w.walked = walk[r].walked
  BY <1>4, WalkFacts DEF WalkType
<1> HIDE DEF w
<1>6. Paging(job[r].step, walk[r]) /\ Covers(job[r].step, walk[r]) BY WalkFacts
<1>7. Paging("read", w) BY <1>1, <1>4, <1>5, <1>6 DEF Paging
<1>8. Covers("read", w) BY <1>1, <1>3, <1>5, <1>6 DEF Covers, Whole, Listing
<1>9. Started("read", w) BY DEF Started
<1> QED BY <1>1, <1>2, <1>5, <1>7, <1>8, <1>9, QuietListStep DEF Walks

LEMMA PageFacts ==
  ASSUME IInv, NEW view, NEW n, NEW page \in Pages(view, n)
  PROVE  LET rows == [i \in DOMAIN page |-> [id |-> page[i], status |-> board[page[i]]]]
         IN  /\ rows \in Seq(Rows) /\ Len(rows) <= PageSize /\ Len(rows) \in Nat
             /\ DOMAIN rows = DOMAIN page /\ DOMAIN rows = 1..Len(rows)
             /\ \A i \in DOMAIN page : rows[i].id = page[i]
<1> DEFINE rows == [i \in DOMAIN page |-> [id |-> page[i], status |-> board[page[i]]]]
<1>1. page \in UNION {[1..m -> Matching(view)] : m \in 0..PageSize}
  BY DEF Pages, BoundedSeq, SeqOf
<1>2. PICK m \in 0..PageSize : page \in [1..m -> Matching(view)] BY <1>1
<1>3. m \in Nat /\ m <= PageSize BY PageSizeAssumption
<1>4. Matching(view) \subseteq Born BY DEF Matching, In
<1>5. \A a \in Born : [id |-> a, status |-> board[a]] \in Rows BY BoardFacts DEF Rows
<1>6. rows \in [1..m -> Rows] BY <1>2, <1>4, <1>5
<1>7. rows \in Seq(Rows) /\ Len(rows) = m /\ DOMAIN rows = 1..m BY <1>3, <1>6
<1> QED BY <1>2, <1>3, <1>7

LEMMA ReadPageStep ==
  ASSUME IInv, NEW r \in Requests, ReadPage(r)
  PROVE  IInv'
<1>1. PICK page \in Pages(walk[r].view, walk[r].page) :
        walk' = [walk EXCEPT
          ![r].rows = [i \in DOMAIN page |-> [id |-> page[i], status |-> board[page[i]]]],
          ![r].next = 1, ![r].late = due]
  BY DEF ReadPage
<1> DEFINE j == [job[r] EXCEPT !.step = "start"]
           rows == [i \in DOMAIN page |-> [id |-> page[i], status |-> board[page[i]]]]
           read == [walk[r] EXCEPT !.rows = rows]
           begun == [read EXCEPT !.next = 1]
           w == [begun EXCEPT !.late = due]
<1>2. /\ job[r].step = "read"
      /\ job' = [job EXCEPT ![r] = j] /\ walk' = [walk EXCEPT ![r] = w]
      /\ UNCHANGED <<activities, reports>>
  BY <1>1, Parts DEF ReadPage
<1>3. j \in JobType /\ j.step = "start" /\ "start" \in Listing BY JobAtStep DEF Listing
<1>4. /\ rows \in Seq(Rows) /\ Len(rows) <= PageSize /\ Len(rows) \in Nat
      /\ DOMAIN rows = DOMAIN page /\ DOMAIN rows = 1..Len(rows)
      /\ \A i \in DOMAIN page : rows[i].id = page[i]
  BY PageFacts
<1> HIDE DEF j, rows
<1>5. /\ read \in WalkType /\ read.rows = rows
      /\ read.view = walk[r].view /\ read.page = walk[r].page /\ read.total = walk[r].total
      /\ read.known = walk[r].known /\ read.walked = walk[r].walked
  BY <1>4, WalkFacts DEF WalkType
<1> HIDE DEF read
<1>6. /\ begun \in WalkType /\ begun.rows = rows /\ begun.next = 1
      /\ begun.view = walk[r].view /\ begun.page = walk[r].page
      /\ begun.total = walk[r].total
      /\ begun.known = walk[r].known /\ begun.walked = walk[r].walked
  BY <1>5 DEF WalkType
<1> HIDE DEF begun
<1>7. due \subseteq Activities BY Parts, BoardFacts DEF BoardType
<1>8. /\ w \in WalkType /\ w.rows = rows /\ w.next = 1 /\ w.late = due
      /\ w.view = walk[r].view /\ w.page = walk[r].page /\ w.total = walk[r].total
      /\ w.known = walk[r].known /\ w.walked = walk[r].walked
  BY <1>6, <1>7 DEF WalkType
<1> HIDE DEF w
<1>9. Paging(job[r].step, walk[r]) /\ Covers(job[r].step, walk[r]) BY WalkFacts
<1>10. Paging("start", w) BY <1>2, <1>4, <1>8, <1>9 DEF Paging
<1>11. Covers("start", w)
  <2> SUFFICES ASSUME Whole(w)
               PROVE  /\ \A a \in Born : Place("all", a) < (w.page - 1) * PageSize =>
                           a \in w.walked
                      /\ w.total = Cardinality(Born)
                      /\ \A a \in Born :
                           Place("all", a) \in ((w.page - 1) * PageSize)..(w.page * PageSize - 1) =>
                             \E i \in DOMAIN w.rows : w.rows[i].id = a
    BY DEF Covers
  <2>1. Whole(walk[r]) /\ walk[r].view = "all" BY <1>8 DEF Whole
  <2>2. /\ \A a \in Born : Place("all", a) < (w.page - 1) * PageSize => a \in w.walked
        /\ w.total = Cardinality(Born)
    BY <1>2, <1>8, <1>9, <2>1 DEF Covers, Listing
  <2>3. ASSUME NEW a \in Born,
               Place("all", a) \in ((w.page - 1) * PageSize)..(w.page * PageSize - 1)
        PROVE  \E i \in DOMAIN w.rows : w.rows[i].id = a
    <3> DEFINE skip == (walk[r].page - 1) * PageSize
    <3>1. /\ skip \in Nat /\ walk[r].page * PageSize = skip + PageSize
          /\ PageSize \in Nat
      BY WalkFacts, PageArithmetic, PageSizeAssumption
    <3>2. \A b \in Matching("all") :
            Place("all", b) \in skip..(skip + PageSize - 1) => b \in ToSet(page)
      BY <2>1 DEF Pages
    <3>3. Place("all", a) \in skip..(skip + PageSize - 1) BY <1>8, <2>3, <3>1
    <3> HIDE DEF skip
    <3>4. a \in ToSet(page) BY <3>2, <3>3, PlaceFacts
    <3>5. PICK i \in DOMAIN page : page[i] = a BY <3>4 DEF ToSet
    <3> QED BY <1>4, <1>8, <3>5
  <2> QED BY <2>2, <2>3
<1>12. Started("start", w)
  <2>1. \A i \in DOMAIN w.rows : ~(i < 1) BY <1>4, <1>8
  <2> QED BY <1>8, <2>1 DEF Started
<1> QED BY <1>2, <1>3, <1>8, <1>10, <1>11, <1>12, QuietListStep DEF Walks

LEMMA PassStep ==
  ASSUME IInv, NEW r \in Requests, Pass(r)
  PROVE  IInv'
<1> DEFINE w == [walk[r] EXCEPT !.next = @ + 1]
<1>1. /\ job[r].step = "start" /\ walk[r].next <= Len(walk[r].rows)
      /\ ~(Row(r).status = "approved" /\ Row(r).id \in due)
      /\ job' = [job EXCEPT ![r] = job[r]] /\ walk' = [walk EXCEPT ![r] = w]
      /\ UNCHANGED <<activities, reports>>
  BY Parts DEF Pass, HasRow, IsLate
<1>2. /\ w \in WalkType /\ w.next = walk[r].next + 1 /\ w.rows = walk[r].rows
      /\ w.view = walk[r].view /\ w.page = walk[r].page /\ w.total = walk[r].total
      /\ w.known = walk[r].known /\ w.walked = walk[r].walked /\ w.late = walk[r].late
  BY WalkFacts DEF WalkType
<1> HIDE DEF w
<1>3. /\ Paging("start", walk[r]) /\ Covers("start", walk[r]) /\ Started("start", walk[r])
  BY <1>1, WalkFacts
<1>4. Paging("start", w) BY <1>1, <1>2, <1>3, WalkFacts DEF Paging
<1>5. Covers("start", w) BY <1>2, <1>3 DEF Covers, Whole
<1>6. Started("start", w)
  <2>1. ASSUME NEW i \in DOMAIN walk[r].rows, i < walk[r].next + 1,
               walk[r].rows[i].status = "approved"
        PROVE  walk[r].rows[i].id \notin walk[r].late
    <3>1. i < walk[r].next \/ i = walk[r].next BY <2>1, WalkFacts
    <3>2. CASE i < walk[r].next BY <1>3, <2>1, <3>2 DEF Started
    <3>3. CASE i = walk[r].next BY <1>1, <1>3, <2>1, <3>3 DEF Paging, Row
    <3> QED BY <3>1, <3>2, <3>3
  <2> QED BY <1>2, <2>1 DEF Started
<1> QED BY <1>1, <1>2, <1>4, <1>5, <1>6, WalkFacts, QuietListStep DEF Walks, Listing

LEMMA StartStep ==
  ASSUME IInv, NEW r \in Requests, Start(r)
  PROVE  IInv'
<1> DEFINE k == walk[r].next
           rows == [walk[r].rows EXCEPT ![k].status = "ongoing"]
           begun == [walk[r] EXCEPT !.rows = rows]
           w == [begun EXCEPT !.next = @ + 1]
<1>1. /\ job[r].step = "start" /\ k <= Len(walk[r].rows)
      /\ board[Row(r).id] = "approved" /\ board' = [board EXCEPT ![Row(r).id] = "ongoing"]
      /\ job' = [job EXCEPT ![r] = job[r]] /\ walk' = [walk EXCEPT ![r] = w]
      /\ UNCHANGED <<born, handed, due, reports>>
  BY Parts DEF Start, HasRow
<1>2. k \in 1..Len(walk[r].rows) BY <1>1, WalkFacts
<1>3. /\ walk[r].rows[k] \in Rows /\ Row(r).id \in Activities
  <2>1. walk[r].rows[k] \in Rows BY <1>2, WalkFacts, ElementOfSeq
  <2> QED BY <2>1 DEF Row, Rows
<1>4. /\ rows \in Seq(Rows) /\ Len(rows) = Len(walk[r].rows)
      /\ DOMAIN rows = DOMAIN walk[r].rows
      /\ \A i \in DOMAIN rows : rows[i].id = walk[r].rows[i].id
      /\ \A i \in DOMAIN rows : i # k => rows[i] = walk[r].rows[i]
      /\ rows[k].status = "ongoing"
  <2> DEFINE e == [walk[r].rows[k] EXCEPT !.status = "ongoing"]
  <2>1. e \in Rows /\ e.id = walk[r].rows[k].id /\ e.status = "ongoing"
    BY <1>3 DEF Rows, L!Statuses
  <2>2. rows = [walk[r].rows EXCEPT ![k] = e] OBVIOUS
  <2> HIDE DEF e, k, rows
  <2>3. /\ rows \in Seq(Rows) /\ Len(rows) = Len(walk[r].rows)
        /\ DOMAIN rows = DOMAIN walk[r].rows
        /\ \A i \in 1..Len(walk[r].rows) : rows[i] = IF i = k THEN e ELSE walk[r].rows[i]
    BY <1>2, <2>1, <2>2, WalkFacts, ExceptSeq
  <2> QED BY <1>2, <2>1, <2>3, WalkFacts
<1> HIDE DEF rows
<1>5. /\ begun \in WalkType /\ begun.next = k /\ begun.rows = rows
      /\ begun.view = walk[r].view /\ begun.page = walk[r].page
      /\ begun.total = walk[r].total /\ begun.known = walk[r].known
      /\ begun.walked = walk[r].walked /\ begun.late = walk[r].late
  BY <1>4, WalkFacts DEF WalkType
<1> HIDE DEF begun
<1>6. /\ w \in WalkType /\ w.next = k + 1 /\ w.rows = rows
      /\ w.view = walk[r].view /\ w.page = walk[r].page /\ w.total = walk[r].total
      /\ w.known = walk[r].known /\ w.walked = walk[r].walked /\ w.late = walk[r].late
  BY <1>5 DEF WalkType
<1> HIDE DEF w
<1>7. /\ Paging("start", walk[r]) /\ Covers("start", walk[r]) /\ Started("start", walk[r])
  BY <1>1, WalkFacts
<1>8. Paging("start", w) BY <1>2, <1>4, <1>6, <1>7, WalkFacts DEF Paging
<1>9. Covers("start", w)
  <2>1. \A i \in DOMAIN walk[r].rows :
          i \in DOMAIN w.rows /\ w.rows[i].id = walk[r].rows[i].id
    BY <1>4, <1>6
  <2> QED BY <1>6, <1>7, <2>1 DEF Covers, Whole
<1>10. Started("start", w)
  <2>1. ASSUME NEW i \in DOMAIN rows, i < k + 1, rows[i].status = "approved"
        PROVE  rows[i].id \notin walk[r].late
    <3>1. i # k BY <1>4, <2>1
    <3>2. i < k BY <1>2, <1>4, <2>1, <3>1, WalkFacts
    <3>3. i \in DOMAIN walk[r].rows /\ rows[i] = walk[r].rows[i] BY <1>4, <2>1, <3>1
    <3>4. walk[r].rows[i].status = "approved" BY <2>1, <3>3
    <3> QED BY <1>7, <3>2, <3>3, <3>4 DEF Started
  <2> QED BY <1>6, <2>1 DEF Started
<1>11. Onward /\ BoardType' /\ BoardIsSound'
  <2>1. "ongoing" \in L!Statuses /\ <<"approved", "ongoing">> \in L!Matrix
    BY DEF L!Statuses, L!Matrix
  <2>2. due \subseteq due' /\ due' \subseteq Born BY <1>1, Parts DEF BoardType
  <2>3. handed' = IF "ongoing" = "handed" THEN handed \cup {Row(r).id} ELSE handed BY <1>1
  <2>4. board[Row(r).id] # "none" /\ UNCHANGED born BY <1>1
  <2> QED BY <1>1, <1>3, <2>1, <2>2, <2>3, <2>4, StatusStep
<1>12. UNCHANGED born /\ UNCHANGED due /\ UNCHANGED reports BY <1>1
<1> QED
  BY <1>1, <1>6, <1>8, <1>9, <1>10, <1>11, <1>12, WalkFacts, ListStep DEF Listing

LEMMA LeaveList ==
  ASSUME IInv, NEW r \in Requests, UNCHANGED <<activities, reports>>,
         job' = [job EXCEPT ![r] = NoJob], walk' = [walk EXCEPT ![r] = NoWalk]
  PROVE  IInv'
<1>1. Paging("idle", NoWalk)
  <2>1. Len(<<>>) = 0 OBVIOUS
  <2> QED BY <2>1, FreshWalk, BoardFacts, PageSizeAssumption DEF Paging
<1>2. Covers("idle", NoWalk) BY DEF Covers, Listing
<1>3. Started("idle", NoWalk) BY DEF Started
<1> QED BY <1>1, <1>2, <1>3, NoJobType, FreshWalk, QuietListStep DEF Walks

LEMMA ShowPageStep ==
  ASSUME IInv, NEW r \in Requests, ShowPage(r)
  PROVE  IInv'
<1> DEFINE j == [job[r] EXCEPT !.step = "page"]
           ids == {row.id : row \in ToSet(walk[r].rows)}
           w == [walk[r] EXCEPT !.walked = @ \cup ids]
<1>1. /\ job[r].step = "start" /\ ~(walk[r].next <= Len(walk[r].rows))
      /\ job' = [job EXCEPT ![r] = j] /\ walk' = [walk EXCEPT ![r] = w]
      /\ UNCHANGED <<activities, reports>>
  BY Parts DEF ShowPage, HasRow
<1>2. j \in JobType /\ j.step = "page" /\ "page" \in Listing BY JobAtStep DEF Listing
<1>3. /\ ids \subseteq Activities
      /\ \A i \in DOMAIN walk[r].rows : walk[r].rows[i].id \in ids
  <2>1. \A i \in DOMAIN walk[r].rows : walk[r].rows[i] \in Rows BY WalkFacts, ElementOfSeq
  <2> QED BY <2>1 DEF ToSet, Rows
<1> HIDE DEF j, ids
<1>4. /\ w \in WalkType /\ w.next = walk[r].next /\ w.rows = walk[r].rows
      /\ w.view = walk[r].view /\ w.page = walk[r].page /\ w.total = walk[r].total
      /\ w.known = walk[r].known /\ w.walked = walk[r].walked \cup ids
      /\ w.late = walk[r].late
  BY <1>3, WalkFacts DEF WalkType
<1> HIDE DEF w
<1>5. /\ Paging("start", walk[r]) /\ Covers("start", walk[r]) /\ Started("start", walk[r])
  BY <1>1, WalkFacts
<1>6. Paging("page", w) BY <1>4, <1>5 DEF Paging
<1>7. Covers("page", w)
  <2> DEFINE from == (walk[r].page - 1) * PageSize
             upto == walk[r].page * PageSize
  <2> SUFFICES ASSUME Whole(w)
               PROVE  /\ \A a \in Born : Place("all", a) < from => a \in w.walked
                      /\ w.total = Cardinality(Born)
                      /\ \A a \in Born : Place("all", a) < upto => a \in w.walked
    BY <1>4 DEF Covers
  <2>1. Whole(walk[r]) BY <1>4 DEF Whole
  <2>2. /\ \A a \in Born : Place("all", a) < from => a \in walk[r].walked
        /\ walk[r].total = Cardinality(Born)
        /\ \A a \in Born : Place("all", a) \in from..(upto - 1) =>
             \E i \in DOMAIN walk[r].rows : walk[r].rows[i].id = a
    BY <1>5, <2>1 DEF Covers, Listing
  <2>3. from \in Nat /\ upto \in Nat BY WalkFacts, PageArithmetic
  <2> HIDE DEF from, upto
  <2>4. ASSUME NEW a \in Born, Place("all", a) < upto
        PROVE  a \in w.walked
    <3>1. Place("all", a) < from \/ Place("all", a) \in from..(upto - 1)
      BY <2>3, <2>4, PlaceFacts
    <3>2. CASE Place("all", a) < from BY <1>4, <2>2, <3>2
    <3>3. CASE Place("all", a) \in from..(upto - 1)
      <4>1. PICK i \in DOMAIN walk[r].rows : walk[r].rows[i].id = a BY <2>2, <3>3
      <4> QED BY <1>3, <1>4, <4>1
    <3> QED BY <3>1, <3>2, <3>3
  <2> QED BY <1>4, <2>2, <2>4
<1>8. Started("page", w)
  <2>1. walk[r].next > Len(walk[r].rows) BY <1>1, WalkFacts
  <2> QED BY <1>4, <1>5, <2>1 DEF Started
<1> QED BY <1>1, <1>2, <1>4, <1>6, <1>7, <1>8, QuietListStep DEF Walks

LEMMA TurnPageStep ==
  ASSUME IInv, NEW r \in Requests, TurnPage(r)
  PROVE  IInv'
<1> DEFINE n == walk[r].page
           j == [job[r] EXCEPT !.step = "count"]
           turned == [walk[r] EXCEPT !.page = @ + 1]
           empty == [turned EXCEPT !.rows = <<>>]
           begun == [empty EXCEPT !.next = 1]
           w == [begun EXCEPT !.late = {}]
<1>1. /\ job[r].step = "page" /\ ~(n * PageSize >= walk[r].total)
      /\ job' = [job EXCEPT ![r] = j] /\ walk' = [walk EXCEPT ![r] = w]
      /\ UNCHANGED <<activities, reports>>
  BY Parts DEF TurnPage, OnLastPage
<1>2. j \in JobType /\ j.step = "count" /\ "count" \in Listing BY JobAtStep DEF Listing
<1> HIDE DEF j
<1>3. /\ turned \in WalkType /\ turned.page = n + 1
      /\ turned.view = walk[r].view /\ turned.total = walk[r].total
      /\ turned.known = walk[r].known /\ turned.walked = walk[r].walked
  BY WalkFacts DEF WalkType
<1> HIDE DEF turned
<1>4. /\ empty \in WalkType /\ empty.page = n + 1 /\ empty.rows = <<>>
      /\ empty.view = walk[r].view /\ empty.total = walk[r].total
      /\ empty.known = walk[r].known /\ empty.walked = walk[r].walked
  <2>1. <<>> \in Seq(Rows) OBVIOUS
  <2> QED BY <1>3, <2>1 DEF WalkType
<1> HIDE DEF empty
<1>5. /\ begun \in WalkType /\ begun.page = n + 1 /\ begun.rows = <<>> /\ begun.next = 1
      /\ begun.view = walk[r].view /\ begun.total = walk[r].total
      /\ begun.known = walk[r].known /\ begun.walked = walk[r].walked
  BY <1>4 DEF WalkType
<1> HIDE DEF begun
<1>6. /\ w \in WalkType /\ w.page = n + 1 /\ w.rows = <<>> /\ w.next = 1 /\ w.late = {}
      /\ w.view = walk[r].view /\ w.total = walk[r].total
      /\ w.known = walk[r].known /\ w.walked = walk[r].walked
  BY <1>5 DEF WalkType
<1> HIDE DEF w
<1>7. /\ Paging("page", walk[r]) /\ Covers("page", walk[r])
  BY <1>1, WalkFacts
<1>8. /\ n \in Nat \ {0} /\ n * PageSize \in Nat /\ n <= n * PageSize /\ (n + 1) - 1 = n
      /\ walk[r].total \in Nat
  BY WalkFacts, PageArithmetic
<1>9. Paging("count", w)
  <2>1. n * PageSize < walk[r].total BY <1>1, <1>8
  <2>2. n + 1 <= Cardinality(Activities) + 1
    BY <1>7, <1>8, <2>1, BoardFacts DEF Paging
  <2>3. walk[r].view # "one" BY <1>7, <1>8, <2>1 DEF Paging
  <2>4. Len(<<>>) = 0 OBVIOUS
  <2> QED BY <1>6, <1>7, <2>2, <2>3, <2>4, PageSizeAssumption DEF Paging
<1>10. Covers("count", w)
  <2>1. (w.page - 1) * PageSize = n * PageSize BY <1>6, <1>8
  <2> QED BY <1>6, <1>7, <2>1 DEF Covers, Whole
<1>11. Started("count", w) BY DEF Started
<1> QED BY <1>1, <1>2, <1>6, <1>9, <1>10, <1>11, QuietListStep DEF Walks

LEMMA ListsStep ==
  ASSUME IInv, NEW r \in Requests, List(r)
  PROVE  IInv'
<1>1. CASE StartFails(r) BY <1>1, LeaveList DEF StartFails
<1>2. CASE Leave(r) BY <1>2, LeaveList DEF Leave
<1> QED
  BY <1>1, <1>2, OpenListStep, OpenOneStep, CountRowsStep, ReadPageStep, PassStep, StartStep,
     ShowPageStep, TurnPageStep
  DEF List

-----------------------------------------------------------------------------
(* The invariant. *)

LEMMA InitIInv == Init => IInv
<1> SUFFICES ASSUME Init PROVE IInv OBVIOUS
<1>1. /\ board = [a \in Activities |-> "none"] /\ born = <<>> /\ handed = {} /\ due = {}
      /\ job = [r \in Requests |-> NoJob] /\ walk = [r \in Requests |-> NoWalk]
      /\ cache = [r \in Requests |-> "none"] /\ stored = [m \in Months |-> "none"]
      /\ notices = {}
  BY DEF Init
<1>2. Born = {} BY <1>1 DEF Born, ToSet
<1>3. BoardIsSound BY <1>1 DEF BoardIsSound
<1>4. \A r \in Requests : Counts(r) /\ Exports(r)
  BY <1>1, NoJobType DEF Counts, Exports, Going
<1>5. \A r \in Requests : Walks(job[r].step, walk[r])
  <2>1. Cardinality(Activities) \in Nat BY ActivitiesAssumption, FS_CardinalityType
  <2>2. Len(<<>>) = 0 OBVIOUS
  <2>3. Paging("idle", NoWalk)
    BY <1>1, <2>1, <2>2, FreshWalk, PageSizeAssumption DEF Paging
  <2>4. Covers("idle", NoWalk) /\ Started("idle", NoWalk) BY DEF Covers, Started, Listing
  <2> QED BY <1>1, <2>3, <2>4, NoJobType DEF Walks
<1>6. ReportsAreTheirMonths BY <1>1 DEF ReportsAreTheirMonths
<1>7. TypeOK
  <2>1. board \in [Activities -> L!Statuses \cup {"none"}] BY <1>1
  <2>2. Born = {a \in Activities : board[a] # "none"} /\ Len(born) = Cardinality(Born)
    BY <1>1, <1>2, FS_EmptySet
  <2>3. handed \subseteq Born /\ due \subseteq Born BY <1>1
  <2>4. job \in [Requests -> JobType] BY <1>1, NoJobType
  <2>5. \A r \in Requests :
          /\ walk[r].view \in Views
          /\ walk[r].page \in 1..(Cardinality(Activities) + 1)
          /\ walk[r].total \in 0..Cardinality(Activities)
          /\ Len(walk[r].rows) <= PageSize
          /\ walk[r].next \in 1..(PageSize + 1)
    <3>1. Cardinality(Activities) \in Nat BY ActivitiesAssumption, FS_CardinalityType
    <3>2. Len(<<>>) = 0 OBVIOUS
    <3>3. NoWalk.view \in Views BY FreshWalk DEF WalkType
    <3> QED BY <1>1, <3>1, <3>2, <3>3, FreshWalk, PageSizeAssumption
  <2>6. ReportTypes BY <1>1 DEF ReportTypes
  <2> QED BY <2>1, <2>2, <2>3, <2>4, <2>5, <2>6 DEF TypeOK, JobType, ReportTypes
<1>8. walk \in [Requests -> WalkType] BY <1>1, FreshWalk
<1> QED BY <1>3, <1>4, <1>5, <1>6, <1>7, <1>8 DEF IInv

LEMMA Invariant == Spec => []IInv
<1>1. ASSUME IInv, [Next]_vars
      PROVE  IInv'
  <2>1. CASE \E a \in Activities : Change(a) BY <1>1, <2>1, ChangeStep
  <2>2. CASE \E r \in Requests : Figures(r) \/ Export(r) \/ List(r)
    BY <1>1, <2>2, FiguresStep, ExportStep, ListsStep
  <2>3. CASE UNCHANGED vars
    <3>1. /\ UNCHANGED activities /\ UNCHANGED <<job, walk, reports>>
      BY <2>3 DEF vars, activities, reports
    <3> QED BY <1>1, <3>1, QuietBoard, OutsideStep
  <2> QED BY <1>1, <2>1, <2>2, <2>3 DEF Next
<1> QED BY InitIInv, <1>1, PTL DEF Spec

-----------------------------------------------------------------------------
\* Every reachable state is well typed.
THEOREM TypeCorrect == Spec => []TypeOK
<1>1. IInv => TypeOK BY DEF IInv
<1> QED BY Invariant, <1>1, PTL

\* The counts of get_counts, get_panel_data and gather agree with each other, whatever is
\* created, moved or forced to an end between the queries.
THEOREM FiguresStayInAgreement == Spec => []FiguresAgree
<1>1. IInv => FiguresAgree
  <2> SUFFICES ASSUME IInv, NEW r \in Requests, job[r].step = "seen"
               PROVE  RateIsAShare(job[r].got) /\ GroupingsGrow(r) /\ NothingSlips(r)
    BY DEF FiguresAgree
  <2> DEFINE kind == job[r].kind
             qs == Queries(kind)
             got == job[r].got
  <2>1. Asking(r) /\ Growing(r) /\ Slipping(r) BY Parts DEF Counts, Going
  <2>2. kind \in Kinds \ {"list"} /\ job[r] \in JobType BY <2>1, Parts DEF Asking, JobType
  <2>3. /\ qs \in Seq(QueryNames) /\ Len(qs) \in 2..7
        /\ \A i, k \in 1..Len(qs) : qs[i] = "handed" /\ qs[k] = "begun" => k < i
        /\ \A q \in Split(kind) : \E i \in 1..Len(qs) : qs[i] = q
    BY <2>2, QueryFacts
  <2>4. Made(r) = {qs[i] : i \in 1..Len(qs)}
    BY <2>1, <2>3 DEF Made, Asking
  <2>5. RateIsAShare(got)
    <3>1. CASE "handed" \in Made(r) BY <2>1, <3>1 DEF Growing, RateIsAShare
    <3>2. CASE "handed" \notin Made(r)
      <4>1. "begun" \notin Made(r)
        <5>1. CASE kind = "rate"
          <6>1. qs[3] = "handed" /\ Len(qs) = 3 BY <5>1, QueriesMade
          <6> QED BY <2>4, <3>2, <6>1
        <5>2. CASE kind # "rate"
          <6>1. \A i \in 1..Len(qs) : qs[i] # "begun" BY <2>2, <5>2, QueryFacts
          <6> QED BY <2>4, <6>1
        <5> QED BY <5>1, <5>2
      <4>2. got["begun"] = {} BY <2>1, <4>1 DEF Asking, QueryNames
      <4> QED BY <4>2 DEF RateIsAShare
    <3> QED BY <3>1, <3>2
  <2>6. GroupingsGrow(r)
    <3> SUFFICES ASSUME NEW i \in DOMAIN qs, NEW k \in DOMAIN qs,
                        i < k, {qs[i], qs[k]} \subseteq ToSet(Groupings)
                 PROVE  Cardinality(got[qs[i]]) <= Cardinality(got[qs[k]])
      BY DEF GroupingsGrow
    <3>1. i \in 1..(job[r].at - 1) /\ k \in 1..(job[r].at - 1)
      BY <2>1, <2>3 DEF Asking
    <3>2. got[qs[i]] \in SUBSET got[qs[k]] /\ got[qs[k]] \in SUBSET Born
      BY <2>1, <3>1 DEF Growing
    <3> QED BY <3>2, BoardFacts, FS_Subset
  <2>7. NothingSlips(r)
    <3> SUFFICES ASSUME NEW a \in job[r].base, board[a] \in Shared(kind)
                 PROVE  \E q \in Split(kind) : a \in got[q]
      BY DEF NothingSlips
    <3>1. Split(kind) # {} BY DEF Shared
    <3>2. Second(kind) \in Split(kind) /\ Past(kind) \cap Shared(kind) = {}
      BY <2>2, <3>1, SplitFacts
    <3>3. Second(kind) \in Made(r) BY <2>3, <2>4, <3>2
    <3> QED BY <2>1, <3>2, <3>3 DEF Slipping
  <2> QED BY <2>5, <2>6, <2>7
<1> QED BY Invariant, <1>1, PTL

\* Turning the pages of the full list shows every activity if none is created meanwhile, and
\* _auto_start_if_due leaves no activity waiting that was due when the page was read.
THEOREM ListsStayRight == Spec => []ListsAreRight
<1>1. IInv => ListsAreRight
  <2> SUFFICES ASSUME IInv, NEW r \in Requests, job[r].step = "page"
               PROVE  FullListIsComplete(r) /\ DueAreShownStarted(r)
    BY DEF ListsAreRight
  <2>1. Covers("page", walk[r]) /\ Started("page", walk[r]) BY WalkFacts
  <2>2. FullListIsComplete(r)
    <3> SUFFICES ASSUME Whole(walk[r]), walk[r].page * PageSize >= walk[r].total,
                        NEW a \in Born
                 PROVE  a \in walk[r].walked
      BY DEF FullListIsComplete, OnLastPage, Whole
    <3>1. walk[r].total = Cardinality(Born) BY <2>1 DEF Covers
    <3>2. Place("all", a) < Cardinality(Born) /\ Place("all", a) \in Nat BY PlaceFacts
    <3>3. walk[r].page * PageSize \in Nat BY WalkFacts, PageArithmetic
    <3>4. Place("all", a) < walk[r].page * PageSize BY <3>1, <3>2, <3>3, BoardFacts
    <3> QED BY <2>1, <3>4 DEF Covers
  <2>3. DueAreShownStarted(r)
    <3>1. ASSUME NEW i \in DOMAIN walk[r].rows, walk[r].rows[i].status = "approved"
          PROVE  walk[r].rows[i].id \notin walk[r].late
      <4>1. i < walk[r].next BY <2>1, WalkFacts DEF Started
      <4> QED BY <2>1, <3>1, <4>1 DEF Started
    <3> QED BY <3>1 DEF DueAreShownStarted, ToSet
  <2> QED BY <2>2, <2>3
<1> QED BY Invariant, <1>1, PTL

\* export_monthly_report stores and announces under a month the report of that month, also
\* when several exports run at the same time.
THEOREM ReportsStayTheirMonths == Spec => []ReportsAreTheirMonths
<1>1. IInv => ReportsAreTheirMonths BY DEF IInv
<1> QED BY Invariant, <1>1, PTL
=============================================================================
