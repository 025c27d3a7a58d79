----------------------- MODULE GeneratedDocumentsProofs -----------------------
(***************************************************************************)
(* GeneratedDocuments for any number of versions and simultaneous          *)
(* requests: versions are numbered without gaps, the plans point to their  *)
(* newest, documents named by rows exist and render their data, signature  *)
(* included, unless two generations held one number or two signers with    *)
(* different signatures one row, and every activity plan gets its preview. *)
(***************************************************************************)
EXTENDS GeneratedDocuments, FiniteSetTheorems, TLAPS

\* The committed numbers, and how many a template has: the highest of them.
Keys == {Key(row) : row \in rows}
Tops == [t \in Templates |-> Cardinality(RowsOf(t))]

Taking == {"number", "upload", "insert"}
Making == Taking \cup {"next"}
NoLinks == [t \in Templates |-> 0]
Synced == {"risk_assessment", "filing_commitment"}

\* The numbers that a request has taken and not yet given up or committed.
Claims(j) ==
  (IF j.step \in {"upload", "insert"} THEN {<<j.t, j.n>>} ELSE {})
    \cup (IF j.step = "answer" THEN {} ELSE {Key(row) : row \in j.new})

Sign(data, s) == [data EXCEPT !.sig = s]

-----------------------------------------------------------------------------
(* What is true of the job of a request. *)

\* Which fields a step uses.  A request that makes several versions makes each template
\* once; one that renders at once makes only one version.
Shape(j) ==
  /\ \A a, b \in j.new : a.t = b.t => a = b
  /\ j.step \in Making \cup {"idle", "link", "answer"} =>
       j.upd = {} /\ j.marks = {} /\ j.link = NoLinks
  /\ j.step \in {"idle", "sign"} => j.new = {}
  /\ j.step = "answer" => j.n = 0
  /\ j.step \in Making =>
       /\ \A i \in DOMAIN j.todo : j.todo[i] \in Synced
       /\ \A i, k \in DOMAIN j.todo : j.todo[i] = j.todo[k] => i = k
       /\ \A row \in j.new, i \in DOMAIN j.todo : row.t # j.todo[i]
       /\ j.now => j.todo = <<>>
       /\ \A row \in j.new : row.t = "activity_plan" => j.now
  /\ j.step \in Taking =>
       /\ \A row \in j.new : row.t # j.t
       /\ \A i \in DOMAIN j.todo : j.todo[i] # j.t
       /\ j.now => j.new = {}
       /\ j.t = "activity_plan" => j.now
       /\ j.data \in Contents
  /\ j.step \in {"link", "commitment"} => \A row \in j.new : row.t = "filing_commitment"
  /\ j.step = "link" => \E row \in j.new : row.n = j.n
  /\ j.step \in {"sign", "commitment"} => j.link["risk_assessment"] = 0

\* The material that a version or a signature is for is there, but for a commitment that
\* is signed and generated in one call.
Filed(j) ==
  /\ j.marks \subseteq material
  /\ j.step \in Taking => j.t \in material \/ (j.t = "filing_commitment" /\ j.now)
  /\ j.step \in Making \cup {"commitment"} => \A row \in j.new : row.t \in material

\* A number taken is the next one, or has been committed by somebody else meanwhile; a
\* row inserted has the next one.
NumbersAreNext(j) ==
  /\ j.step \in {"upload", "insert"} => j.n \in 1..(Tops[j.t] + 1)
  /\ j.step # "answer" => \A row \in j.new : row.n = Tops[row.t] + 1

\* What a request is going to link to is a version, at the latest when it commits.
LinksExist(j) ==
  /\ j.seen <= Tops["security_plan"]
  /\ \A t \in Templates :
       j.link[t] <= Tops[t] \/ \E row \in j.new : row.t = t /\ row.n = j.link[t]

\* The document of a row that is rendered, and of one that has been rendered with
\* the signature s.
Backed(row) ==
  row.docx => docx[row.t][row.n] # NoContent /\ (Matches(row) \/ Key(row) \in contested)

Resigned(k, s) ==
  /\ k \in Keys /\ docx[k[1]][k[2]] # NoContent
  /\ \/ k \in contested
     \/ \A row \in rows : Key(row) = k => docx[k[1]][k[2]] = Sign(row.data, s)

\* The documents behind the rows that a request has inserted or is about to, and behind
\* those it has rendered for signature.
Behind(j) ==
  /\ j.step = "insert" /\ j.now =>
       /\ docx[j.t][j.n] # NoContent
       /\ docx[j.t][j.n] = j.data \/ <<j.t, j.n>> \in contested
  /\ j.step # "answer" => \A row \in j.new : Backed(row)
  /\ \A k \in j.upd, s \in {j.sig} : Resigned(k, s)

\* A number that is about to be used again is contested.
Late(j) ==
  j.step \in {"upload", "insert"} /\ <<j.t, j.n>> \in Keys => <<j.t, j.n>> \in contested

Sound(j) ==
  Shape(j) /\ Filed(j) /\ NumbersAreNext(j) /\ LinksExist(j) /\ Behind(j) /\ Late(j)

\* Two requests never have the same row inserted, and contest what they both claim.
Apart(i, j) ==
  /\ i.step # "answer" /\ j.step # "answer" =>
       \A a \in i.new, b \in j.new : Key(a) # Key(b)
  /\ Claims(i) \cap Claims(j) \subseteq contested

-----------------------------------------------------------------------------
\* UNIQUE(activity_id, template_type, version_number)
KeysUnique == \A a, b \in rows : Key(a) = Key(b) => a = b

\* The numbers of a template are an initial segment.
Counted ==
  /\ Tops \in [Templates -> 0..MaxVersion]
  /\ \A t \in Templates, n \in Numbers : <<t, n>> \in Keys <=> n <= Tops[t]

LinkedExist == \A t \in Templates : linked[t] <= Tops[t]

RowsHaveMaterial == \A row \in rows : row.t \in material

JobsAreSound == \A r \in Requests : Sound(job[r])

JobsAreApart == \A p, q \in Requests : p # q => Apart(job[p], job[q])

IInv ==
  /\ TypeOK
  /\ KeysUnique /\ Counted
  /\ NewestIsCurrent /\ LinkedExist
  /\ FilesExist /\ DocumentsMatch
  /\ RowsHaveMaterial
  /\ PreviewComes
  /\ JobsAreSound /\ JobsAreApart
-----------------------------------------------------------------------------
(* Counting versions.                                                       *)

LEMMA MaxOf ==
  ASSUME NEW S, NEW m \in S, \A x \in S : m >= x, S \subseteq Int
  PROVE  Max(S) = m
<1> DEFINE Highest(x) == \A y \in S : x >= y
<1>1. \E x \in S : Highest(x) OBVIOUS
<1>2. Max(S) = CHOOSE x \in S : Highest(x) BY DEF Max
<1> HIDE DEF Highest
<1>3. Max(S) \in S /\ Highest(Max(S)) BY <1>1, <1>2, Zenon
<1> DEFINE x == Max(S)
<1>4. x \in S /\ \A y \in S : x >= y BY <1>3 DEF Highest
<1> HIDE DEF x
<1>5. x = m BY <1>4
<1> QED BY <1>5 DEF x

\* A set of rows numbered 1 to m, each number once, has m elements.
LEMMA Counting ==
  ASSUME NEW R, NEW m \in Nat, \A a \in R : a.n \in 1..m, \A n \in 1..m : \E a \in R : a.n = n,
         \A a, b \in R : a.n = b.n => a = b
  PROVE  Cardinality(R) = m
<1> DEFINE f == [n \in 1..m |-> CHOOSE a \in R : a.n = n]
<1>1. \A n \in 1..m : f[n] \in R /\ f[n].n = n
  <2> TAKE n \in 1..m
  <2>1. \E a \in R : a.n = n OBVIOUS
  <2>2. (CHOOSE a \in R : a.n = n) \in R /\ (CHOOSE a \in R : a.n = n).n = n
    BY <2>1, Zenon
  <2> QED BY <2>2
<1>2. f \in [1..m -> R] BY <1>1
<1> HIDE DEF f
<1>3. f \in Injection(1..m, R)
  BY <1>1, <1>2 DEF Injection, IsInjective
<1>4. f \in Surjection(1..m, R)
  <2>1. \A a \in R : f[a.n] = a BY <1>1
  <2> QED BY <2>1, <1>2 DEF Surjection
<1>5. ExistsBijection(1..m, R) BY <1>3, <1>4 DEF ExistsBijection, Bijection
<1> QED BY <1>5, FS_CountingElements

\* The same for the rows of one template among others.
LEMMA Numbering ==
  ASSUME NEW R \in SUBSET Rows, \A a, b \in R : Key(a) = Key(b) => a = b,
         NEW t, NEW m \in 0..MaxVersion,
         \A n \in Numbers : (\E row \in R : row.t = t /\ row.n = n) <=> n <= m
  PROVE  Cardinality({row \in R : row.t = t}) = m
<1> DEFINE S == {row \in R : row.t = t}
<1>1. m \in Nat /\ \A n : n \in Numbers => n \in 1..MaxVersion
  BY BoundAssumption DEF Numbers
<1>2. \A a \in S : a.n \in 1..m
  BY <1>1 DEF Rows, Numbers
<1>3. \A n \in 1..m : \E a \in S : a.n = n
  BY BoundAssumption DEF Numbers
<1>4. \A a, b \in S : a.n = b.n => a = b BY DEF Key
<1> HIDE DEF S
<1>5. Cardinality(S) = m BY <1>1, <1>2, <1>3, <1>4, Counting
<1> QED BY <1>5 DEF S

LEMMA TopFacts ==
  ASSUME TypeOK, Counted
  PROVE  /\ \A t \in Templates : Tops[t] \in 0..MaxVersion /\ Tops[t] \in Nat
         /\ \A k \in Keys : k[1] \in Templates /\ k[2] \in Numbers /\ k[2] \in 1..Tops[k[1]]
         /\ \A row \in rows : /\ row \in Rows /\ row.t \in Templates /\ row.n \in Numbers
                             /\ Key(row) \in Keys /\ row.n \in 1..Tops[row.t]
         /\ \A t \in Templates : \A n \in 1..Tops[t] : <<t, n>> \in Keys
<1>1. \A t \in Templates : Tops[t] \in 0..MaxVersion /\ Tops[t] \in Nat
  BY BoundAssumption DEF Counted
<1>2. \A row \in rows : /\ row \in Rows /\ row.t \in Templates /\ row.n \in Numbers
                       /\ Key(row) = <<row.t, row.n>> /\ Key(row) \in Keys
  BY DEF TypeOK, Rows, Key, Keys
<1>3. \A row \in rows : row.n \in 1..Tops[row.t]
  <2> TAKE row \in rows
  <2>1. <<row.t, row.n>> \in Keys /\ row.t \in Templates /\ row.n \in Numbers BY <1>2
  <2>2. row.n <= Tops[row.t] BY <2>1 DEF Counted
  <2> QED BY <1>1, <2>1, <2>2, BoundAssumption DEF Numbers
<1>4. \A k \in Keys : k[1] \in Templates /\ k[2] \in Numbers /\ k[2] \in 1..Tops[k[1]]
  BY <1>2, <1>3 DEF Keys
<1>5. ASSUME NEW t \in Templates, NEW n \in 1..Tops[t] PROVE <<t, n>> \in Keys
  <2>1. n \in Numbers /\ n <= Tops[t] BY <1>1, BoundAssumption DEF Numbers
  <2> QED BY <2>1 DEF Counted
<1> QED BY <1>1, <1>2, <1>3, <1>4, <1>5

\* A row chosen by its number.
LEMMA RowFacts ==
  ASSUME KeysUnique, NEW row \in rows
  PROVE  Row(row.t, row.n) = row
<1> DEFINE Sought(x) == x.t = row.t /\ x.n = row.n
           c == CHOOSE x \in rows : Sought(x)
<1>1. \E x \in rows : Sought(x) OBVIOUS
<1> HIDE DEF Sought
<1>2. c \in rows /\ Sought(c) BY <1>1, Zenon
<1> HIDE DEF c
<1>3. c = row BY <1>2 DEF Sought, KeysUnique, Key
<1> QED BY <1>3 DEF c, Sought, Row

\* _next_version gives the next number.
LEMMA NextVersionFacts ==
  ASSUME TypeOK, Counted, NEW t \in Templates
  PROVE  NextVersion(t) = Tops[t] + 1
<1> DEFINE S == {0} \cup {row.n : row \in RowsOf(t)}
           m == Tops[t]
<1>1. m \in Nat /\ \A row \in RowsOf(t) : row.n \in 1..m
  BY TopFacts DEF RowsOf
<1>2. m \in S
  <2>1. CASE m = 0 BY <2>1
  <2>2. CASE m # 0
    <3>1. <<t, m>> \in Keys BY <2>2, <1>1, TopFacts
    <3> QED BY <3>1 DEF Keys, Key, RowsOf
  <2> QED BY <2>1, <2>2
<1> HIDE DEF m
<1>3. S \subseteq Int /\ \A x \in S : m >= x BY <1>1
<1> HIDE DEF S
<1>4. Max(S) = m BY <1>2, <1>3, MaxOf
<1> QED BY <1>4 DEF NextVersion, S, m
-----------------------------------------------------------------------------
(* Writing rows.                                                            *)

\* The row a comes from the row b: it is signed if its number is in u.
Becomes(a, b, u) ==
  /\ a.t = b.t /\ a.n = b.n /\ Key(a) = Key(b) /\ (b.pdf => a.pdf)
  /\ Key(b) \in u => a.docx /\ \E s \in Images : a.data = Sign(b.data, s)
  /\ Key(b) \notin u => a.docx = b.docx /\ a.data = b.data

\* Rows to be added have the numbers that are next, one for a template.
AreNext(N) ==
  /\ N \subseteq Rows
  /\ \A row \in N : row.n = Tops[row.t] + 1
  /\ \A a, b \in N : a.t = b.t => a = b

\* A step signs the rows in u and adds the rows N.
Follows(u, N) ==
  /\ AreNext(N)
  /\ \A a \in N : Key(a) \notin Keys
  /\ N \subseteq rows' /\ rows' \subseteq Rows
  /\ \A a \in rows' : a \in N \/ \E b \in rows : Becomes(a, b, u)
  /\ \A b \in rows : \E a \in rows' : Becomes(a, b, u)
  /\ KeysUnique'

LEMMA ContentFacts ==
  ASSUME NEW c \in Contents, NEW s \in Images
  PROVE  /\ c # NoContent /\ Sign(c, s) \in Contents /\ Sign(c, s) # NoContent
         /\ \A z \in Images : Sign(Sign(c, z), s) = Sign(c, s)
<1>1. \A x \in Contents : x.text # "none" BY TextAssumption DEF Contents
<1>2. \A x \in Contents : x # NoContent BY <1>1 DEF NoContent
<1>3. \A x \in Contents, z \in Images :
        Sign(x, z) \in Contents /\ Sign(x, z).text = x.text /\ Sign(x, z).sig = z
  BY DEF Contents, Sign
<1>4. \A x, y \in Contents : x.text = y.text /\ x.sig = y.sig => x = y BY DEF Contents
<1> QED BY <1>2, <1>3, <1>4

Signed(row, s) == [row EXCEPT !.data.sig = s, !.docx = TRUE]

LEMMA SignedFacts ==
  ASSUME NEW row \in Rows, NEW s \in Images
  PROVE  LET new == Signed(row, s)
         IN  /\ new \in Rows /\ new.t = row.t /\ new.n = row.n /\ new.pdf = row.pdf
             /\ new.docx = TRUE /\ new.data = Sign(row.data, s) /\ Key(new) = Key(row)
<1>1. row.data \in Contents BY DEF Rows
<1>2. Sign(row.data, s) \in Contents BY <1>1, ContentFacts
<1>3. Signed(row, s) = [[row EXCEPT !.data = Sign(row.data, s)] EXCEPT !.docx = TRUE]
  BY DEF Signed, Sign, Rows
<1> QED BY <1>2, <1>3 DEF Rows, Key

LEMMA FreshKeys ==
  ASSUME TypeOK, Counted, NEW N, AreNext(N)
  PROVE  \A a \in N : Key(a) \notin Keys
<1> SUFFICES ASSUME NEW a \in N, Key(a) \in Keys PROVE FALSE
  OBVIOUS
<1>1. a.t \in Templates /\ a.n = Tops[a.t] + 1 BY DEF AreNext, Rows
<1>2. a.n \in 1..Tops[a.t] /\ Tops[a.t] \in Nat BY <1>1, TopFacts DEF Key
<1> QED BY <1>1, <1>2

\* What a commit makes of the rows.
LEMMA WrittenFacts ==
  ASSUME TypeOK, KeysUnique, Counted, NEW j, AreNext(j.new), j.sig \in Images,
         rows' = Written(j)
  PROVE  /\ Follows(j.upd, j.new)
         /\ \A a \in rows' : Key(a) \in j.upd => a \in j.new \/ Sign(a.data, j.sig) = a.data
<1> DEFINE N == j.new
           u == j.upd
           New(b) == IF Key(b) \in u THEN Signed(b, j.sig) ELSE b
<1>1. rows \subseteq Rows /\ N \subseteq Rows BY DEF TypeOK, AreNext
<1>2. \A b \in rows : New(b) \in Rows /\ Becomes(New(b), b, u)
  BY <1>1, SignedFacts DEF Becomes
<1>2a. \A b \in rows : Key(b) \in u => Sign(New(b).data, j.sig) = New(b).data
  <2> SUFFICES ASSUME NEW b \in rows, Key(b) \in u
               PROVE  Sign(New(b).data, j.sig) = New(b).data
    OBVIOUS
  <2>1. New(b).data = Sign(b.data, j.sig) BY <1>1, SignedFacts
  <2>2. b.data \in Contents BY <1>1 DEF Rows
  <2> QED BY <2>1, <2>2, ContentFacts
<1>3. rows' = {New(b) : b \in rows} \cup N BY DEF Written, Signed
<1>4. \A a \in N : Key(a) \notin Keys BY FreshKeys
<1>5. \A a, b \in N : Key(a) = Key(b) => a = b BY DEF AreNext, Key
<1> HIDE DEF New, N, u
<1>6. rows' \subseteq Rows /\ N \subseteq rows' BY <1>1, <1>2, <1>3
<1>7. \A a \in rows' : a \in N \/ \E b \in rows : a = New(b) BY <1>3
<1>8. \A b \in rows : Key(New(b)) = Key(b) /\ Key(b) \in Keys BY <1>2 DEF Becomes, Keys
<1>9. \A a, b \in rows' : Key(a) = Key(b) => a = b
  BY <1>4, <1>5, <1>7, <1>8 DEF KeysUnique
<1>10. KeysUnique' BY <1>9 DEF KeysUnique, Key
<1>11. \A a \in rows' : Key(a) \in u => a \in N \/ Sign(a.data, j.sig) = a.data
  BY <1>2a, <1>7, <1>8
<1> QED BY <1>2, <1>3, <1>4, <1>6, <1>7, <1>10, <1>11 DEF Follows, N, u

LEMMA UnwrittenFacts ==
  ASSUME TypeOK, KeysUnique, rows' = rows
  PROVE  Follows({}, {})
<1>1. KeysUnique' BY DEF KeysUnique, Key
<1>2. \A b \in rows : Becomes(b, b, {}) BY DEF Becomes
<1> QED BY <1>1, <1>2 DEF Follows, AreNext, TypeOK

\* The numbers after such a write.
LEMMA KeysAfter ==
  ASSUME TypeOK, Counted, NEW u, NEW N, Follows(u, N)
  PROVE  Keys' = Keys \cup {Key(row) : row \in N}
<1>1. Keys' = {Key(a) : a \in rows'} BY DEF Keys, Key
<1>2. \A a \in rows' : Key(a) \in Keys \cup {Key(row) : row \in N}
  BY DEF Follows, Becomes, Keys
<1>3. \A b \in rows : \E a \in rows' : Key(a) = Key(b) BY DEF Follows, Becomes
<1>4. N \subseteq rows' BY DEF Follows
<1> QED BY <1>1, <1>2, <1>3, <1>4 DEF Keys

LEMMA TopsAfter ==
  ASSUME TypeOK, Counted, NEW u, NEW N, Follows(u, N)
  PROVE  /\ Counted'
         /\ \A t \in Templates :
              /\ Tops'[t] \in Nat /\ Tops'[t] >= Tops[t]
              /\ (\E row \in N : row.t = t) => Tops'[t] = Tops[t] + 1
              /\ ~(\E row \in N : row.t = t) => Tops'[t] = Tops[t]
<1>1. Keys' = Keys \cup {Key(row) : row \in N} BY KeysAfter
<1>2. rows' \in SUBSET Rows /\ \A a, b \in rows' : Key(a) = Key(b) => a = b
  BY DEF Follows, KeysUnique, Key
<1>3. ASSUME NEW t \in Templates
      PROVE  /\ Tops'[t] \in 0..MaxVersion
             /\ \A n \in Numbers : <<t, n>> \in Keys' <=> n <= Tops'[t]
             /\ (\E row \in N : row.t = t) => Tops'[t] = Tops[t] + 1
             /\ ~(\E row \in N : row.t = t) => Tops'[t] = Tops[t]
  <2> DEFINE k == Tops[t]
             m == IF \E row \in N : row.t = t THEN k + 1 ELSE k
  <2>1. k \in 0..MaxVersion /\ \A n \in Numbers : <<t, n>> \in Keys <=> n <= k BY DEF Counted
  <2>2. \A row \in N : row.t = t => row.n = k + 1 /\ row.n \in Numbers
    BY DEF Rows, Follows, AreNext
  <2>3. Tops'[t] = Cardinality({row \in rows' : row.t = t}) BY DEF Tops, RowsOf
  <2> HIDE DEF k
  <2>4. m \in 0..MaxVersion /\ \A n \in Numbers : <<t, n>> \in Keys' <=> n <= m
    <3>1. CASE \E row \in N : row.t = t
      <4>1. m = k + 1 BY <3>1
      <4>2. k + 1 \in Numbers BY <3>1, <2>2
      <4>3. \A n \in Numbers : <<t, n>> \in Keys' <=> <<t, n>> \in Keys \/ n = k + 1
        BY <1>1, <3>1, <2>2 DEF Key
      <4> QED BY <4>1, <4>2, <4>3, <2>1, BoundAssumption DEF Numbers
    <3>2. CASE ~\E row \in N : row.t = t
      <4>1. m = k BY <3>2
      <4>2. \A n \in Numbers : <<t, n>> \in Keys' <=> <<t, n>> \in Keys BY <3>2, <1>1 DEF Key
      <4> QED BY <4>1, <4>2, <2>1
    <3> QED BY <3>1, <3>2
  <2>5. /\ (\E row \in N : row.t = t) => m = Tops[t] + 1
        /\ ~(\E row \in N : row.t = t) => m = Tops[t]
    BY DEF k
  <2> HIDE DEF m
  <2>6. \A n \in Numbers : (\E row \in rows' : row.t = t /\ row.n = n) <=> <<t, n>> \in Keys'
    BY DEF Keys, Key
  <2>7. \A n \in Numbers : (\E row \in rows' : row.t = t /\ row.n = n) <=> n <= m
    BY <2>4, <2>6
  <2>8. Cardinality({row \in rows' : row.t = t}) = m BY <1>2, <2>4, <2>7, Numbering
  <2> QED BY <2>3, <2>4, <2>5, <2>8
<1>4. Counted'
  <2>1. Tops' = [t \in Templates |-> Tops'[t]] BY DEF Tops
  <2> QED BY <2>1, <1>3 DEF Counted
<1>5. \A t \in Templates : Tops[t] \in Nat /\ Tops'[t] \in Nat
  BY <1>3, BoundAssumption DEF Counted
<1>6. \A t \in Templates : Tops'[t] >= Tops[t] BY <1>3, <1>5
<1> QED BY <1>3, <1>4, <1>5, <1>6
-----------------------------------------------------------------------------
(* What a step of one request leaves true. *)

\* The DOCX objects change where request r uploads one, or where a row without a document is
\* rendered with a signature; whoever has rendered it with another one contests it.
Touched(r) ==
  \A t \in Templates, n \in Numbers :
    \/ docx'[t][n] = docx[t][n]
    \/ /\ r \in Requests /\ job[r].step = "upload" /\ t = job[r].t /\ n = job[r].n
       /\ docx'[t][n] # NoContent
    \/ \E row \in rows, s \in Images :
         /\ Key(row) = <<t, n>> /\ ~row.docx /\ docx'[t][n] = Sign(row.data, s)
         /\ \A q \in Requests :
              <<t, n>> \in job[q].upd => job[q].sig = s \/ <<t, n>> \in contested'

\* A step of request r that signs the rows in u and adds the rows N, its own.
Moves(r, u, N) ==
  /\ Follows(u, N)
  /\ N # {} => r \in Requests /\ N = job[r].new /\ job[r].step # "answer" /\ docx' = docx
  /\ \A row \in N : row.t \in material'
  /\ material \subseteq material' /\ contested \subseteq contested'
  /\ Touched(r)
  /\ \A a \in rows' : Key(a) \in u => a \in N \/ Backed(a)'
  /\ \A q \in Requests \ {r} : job'[q] = job[q]

\* Committed rows keep the objects they name.
LEMMA RowsStayBacked ==
  ASSUME IInv, NEW r, NEW u, NEW N, Moves(r, u, N)
  PROVE  FilesExist' /\ DocumentsMatch'
<1> SUFFICES ASSUME NEW a \in rows', a.docx
             PROVE  /\ docx'[a.t][a.n] # NoContent
                    /\ docx'[a.t][a.n] = a.data \/ Key(a) \in contested'
  BY DEF FilesExist, DocumentsMatch, Matches, Key
<1>1. Follows(u, N) /\ contested \subseteq contested' /\ Touched(r) BY DEF Moves
<1>2. CASE a \in N
  <2>1. r \in Requests /\ a \in job[r].new /\ job[r].step # "answer" /\ docx' = docx
    BY <1>2 DEF Moves
  <2>2. Backed(a) BY <2>1 DEF IInv, JobsAreSound, Sound, Behind
  <2> QED BY <2>1, <2>2, <1>1 DEF Backed, Matches
<1>3. CASE a \notin N
  <2>1. PICK b \in rows : Becomes(a, b, u) BY <1>1, <1>3 DEF Follows
  <2>2. b \in Rows /\ b.t \in Templates /\ b.n \in Numbers /\ Key(b) \in Keys
        /\ Key(b) = <<b.t, b.n>> /\ a.t = b.t /\ a.n = b.n /\ Key(a) = Key(b)
    BY <2>1, TopFacts DEF IInv, Becomes, Key
  <2>3. CASE Key(b) \in u
    <3>1. Backed(a)' BY <1>3, <2>2, <2>3 DEF Moves
    <3> QED BY <3>1 DEF Backed, Matches, Key
  <2>4. CASE Key(b) \notin u
    <3>1. a.data = b.data /\ b.docx BY <2>1, <2>4 DEF Becomes
    <3>2. /\ docx[b.t][b.n] # NoContent
          /\ docx[b.t][b.n] = b.data \/ Key(b) \in contested
      BY <3>1 DEF IInv, FilesExist, DocumentsMatch, Matches
    <3>3. CASE docx'[b.t][b.n] = docx[b.t][b.n] BY <1>1, <2>2, <3>1, <3>2, <3>3
    <3>4. CASE /\ r \in Requests /\ job[r].step = "upload" /\ b.t = job[r].t /\ b.n = job[r].n
               /\ docx'[b.t][b.n] # NoContent
      <4>1. Key(b) \in contested BY <2>2, <3>4 DEF IInv, JobsAreSound, Sound, Late
      <4> QED BY <1>1, <2>2, <3>4, <4>1
    <3>5. ~\E row \in rows : Key(row) = <<b.t, b.n>> /\ ~row.docx
      BY <2>2, <3>1 DEF IInv, KeysUnique
    <3> QED BY <1>1, <2>2, <3>3, <3>4, <3>5 DEF Touched
  <2> QED BY <2>3, <2>4
<1> QED BY <1>2, <1>3

\* Documents that a request q has rendered for signature stay so, until their rows are
\* written and after.
LEMMA StaysResigned ==
  ASSUME IInv, NEW r, NEW u, NEW N, Follows(u, N), contested \subseteq contested', Touched(r),
         NEW q \in Requests, NEW k \in job[q].upd, NEW s, s = job[q].sig, Resigned(k, s)
  PROVE  Resigned(k, s)'
<1>0. s \in Images BY DEF IInv, TypeOK, Jobs
<1>1. Follows(u, N) /\ contested \subseteq contested' /\ Touched(r) OBVIOUS
<1>2. k \in Keys /\ k[1] \in Templates /\ k[2] \in Numbers /\ k = <<k[1], k[2]>>
  BY TopFacts DEF Resigned, IInv, Keys, Key
<1>3. k \in Keys' BY <1>1, <1>2, KeysAfter DEF IInv
<1>4. PICK b \in rows : Key(b) = k BY <1>2 DEF Keys
<1>5. b.data \in Contents BY TopFacts DEF IInv, Rows
<1>6. \A a \in rows' : Key(a) = k => Sign(a.data, s) = Sign(b.data, s)
  <2> SUFFICES ASSUME NEW a \in rows', Key(a) = k PROVE Sign(a.data, s) = Sign(b.data, s)
    OBVIOUS
  <2>1. a \notin N BY <1>1, <1>2 DEF Follows
  <2>2. PICK c \in rows : Becomes(a, c, u) BY <1>1, <2>1 DEF Follows
  <2>3. c = b BY <1>4, <2>2 DEF IInv, KeysUnique, Becomes
  <2>4. a.data = b.data \/ \E z \in Images : a.data = Sign(b.data, z) BY <2>2, <2>3 DEF Becomes
  <2> QED BY <1>0, <2>4, <1>5, ContentFacts
<1>7. docx[k[1]][k[2]] # NoContent /\ (k \in contested \/ docx[k[1]][k[2]] = Sign(b.data, s))
  BY <1>4 DEF Resigned
<1> SUFFICES /\ docx'[k[1]][k[2]] # NoContent
             /\ k \in contested' \/ docx'[k[1]][k[2]] = Sign(b.data, s)
  BY <1>3, <1>6 DEF Resigned, Key
<1>8. CASE docx'[k[1]][k[2]] = docx[k[1]][k[2]] BY <1>1, <1>7, <1>8
<1>9. CASE /\ r \in Requests /\ job[r].step = "upload" /\ k[1] = job[r].t /\ k[2] = job[r].n
           /\ docx'[k[1]][k[2]] # NoContent
  <2>1. k \in contested BY <1>2, <1>9 DEF IInv, JobsAreSound, Sound, Late
  <2> QED BY <1>1, <1>9, <2>1
<1>10. CASE \E row \in rows, z \in Images :
              /\ Key(row) = k /\ docx'[k[1]][k[2]] = Sign(row.data, z)
              /\ s = z \/ k \in contested'
  <2>1. PICK z \in Images : docx'[k[1]][k[2]] = Sign(b.data, z) /\ (s = z \/ k \in contested')
    BY <1>4, <1>10 DEF IInv, KeysUnique
  <2>2. docx'[k[1]][k[2]] # NoContent BY <2>1, <1>5, ContentFacts
  <2> QED BY <2>1, <2>2
<1> QED BY <1>1, <1>2, <1>8, <1>9, <1>10 DEF Touched

\* The job of a request q that does not move stays sound.
LEMMA OthersStaySound ==
  ASSUME IInv, NEW r, NEW u, NEW N, Moves(r, u, N), NEW q \in Requests, q # r
  PROVE  Sound(job[q])'
<1> DEFINE j == job[q]
<1>1. Follows(u, N) /\ contested \subseteq contested' /\ Touched(r) /\ job'[q] = j
  BY DEF Moves
<1>2. Sound(j) /\ j \in Jobs BY DEF IInv, JobsAreSound, TypeOK
<1>3. /\ \A t \in Templates : Tops[t] \in Nat /\ Tops'[t] \in Nat /\ Tops'[t] >= Tops[t]
      /\ \A t \in Templates : ~(\E row \in N : row.t = t) => Tops'[t] = Tops[t]
  BY <1>1, TopFacts, TopsAfter DEF IInv
<1>4. r \in Requests => Apart(job[r], j) BY DEF IInv, JobsAreApart
<1>5. j.t \in Templates /\ j.n \in 0..MaxVersion /\ j.new \subseteq Rows /\ j.seen \in 0..MaxVersion
      /\ \A t \in Templates : j.link[t] \in 0..MaxVersion
  BY <1>2 DEF Jobs
<1> HIDE DEF j
<1>6. Shape(job'[q]) BY <1>1, <1>2 DEF Sound
<1>7. Filed(job[q])'
  <2>1. material \subseteq material' BY DEF Moves
  <2>2. Filed(j) BY <1>2 DEF Sound
  <2> QED BY <1>1, <2>1, <2>2 DEF Filed
<1>8. \A row \in j.new : row \in Rows /\ row.t \in Templates /\ row.n \in Numbers
  BY <1>5 DEF Rows
<1>9. NumbersAreNext(j) BY <1>2 DEF Sound
<1>10. j.step # "answer" => \A row \in j.new : row.n = Tops'[row.t] + 1
  <2> SUFFICES ASSUME j.step # "answer", NEW row \in j.new PROVE row.n = Tops'[row.t] + 1
    OBVIOUS
  <2>1. row.n = Tops[row.t] + 1 BY <1>9 DEF NumbersAreNext
  <2>2. ASSUME NEW a \in N, a.t = row.t PROVE FALSE
    <3>1. a.n = row.n BY <1>1, <2>1, <2>2 DEF Follows, AreNext
    <3>2. a \in job[r].new /\ job[r].step # "answer" /\ r \in Requests BY DEF Moves
    <3> QED BY <3>1, <3>2, <2>2, <1>4 DEF Apart, Key
  <2> QED BY <1>3, <1>8, <2>1, <2>2
<1>11. NumbersAreNext(job[q])'
  <2>1. j.step \in {"upload", "insert"} => j.n \in 1..(Tops'[j.t] + 1)
    BY <1>3, <1>5, <1>9 DEF NumbersAreNext
  <2> QED BY <1>1, <1>10, <2>1 DEF NumbersAreNext
<1>12. LinksExist(job[q])'
  <2>1. LinksExist(j) BY <1>2 DEF Sound
  <2>2. "security_plan" \in Templates BY DEF Templates
  <2>3. j.seen <= Tops'["security_plan"]
    BY <1>3, <1>5, <2>1, <2>2, BoundAssumption DEF LinksExist
  <2>4. \A t \in Templates : j.link[t] <= Tops[t] => j.link[t] <= Tops'[t]
    BY <1>3, <1>5, BoundAssumption
  <2> QED BY <1>1, <2>1, <2>3, <2>4 DEF LinksExist
<1>13. Keys' = Keys \cup {Key(row) : row \in N} BY <1>1, KeysAfter DEF IInv
<1>14. Late(job[q])'
  <2> SUFFICES ASSUME j.step \in {"upload", "insert"}, <<j.t, j.n>> \in Keys'
               PROVE  <<j.t, j.n>> \in contested'
    BY <1>1 DEF Late
  <2>1. CASE <<j.t, j.n>> \in Keys BY <1>1, <1>2, <2>1 DEF Sound, Late
  <2>2. CASE <<j.t, j.n>> \notin Keys
    <3>1. PICK a \in N : Key(a) = <<j.t, j.n>> BY <1>13, <2>2
    <3>2. a \in job[r].new /\ job[r].step # "answer" /\ r \in Requests BY DEF Moves
    <3>3. <<j.t, j.n>> \in Claims(job[r]) /\ <<j.t, j.n>> \in Claims(j)
      BY <3>1, <3>2 DEF Claims
    <3> QED BY <1>1, <1>4, <3>2, <3>3 DEF Apart
  <2> QED BY <2>1, <2>2
\* What j claims and r uploads is contested; what is rendered for signature is committed.
<1>15. ASSUME NEW k \in Claims(j), k[1] \in Templates, k[2] \in Numbers, k = <<k[1], k[2]>>
       PROVE  \/ docx'[k[1]][k[2]] = docx[k[1]][k[2]]
              \/ docx'[k[1]][k[2]] # NoContent /\ k \in Keys \cup contested
  <2>1. CASE /\ r \in Requests /\ job[r].step = "upload" /\ k[1] = job[r].t /\ k[2] = job[r].n
             /\ docx'[k[1]][k[2]] # NoContent
    <3>1. k \in Claims(job[r]) BY <1>15, <2>1 DEF Claims
    <3> QED BY <1>4, <2>1, <3>1 DEF Apart
  <2>2. CASE \E row \in rows, s \in Images : Key(row) = k /\ docx'[k[1]][k[2]] = Sign(row.data, s)
    <3>1. PICK row \in rows, s \in Images : Key(row) = k /\ docx'[k[1]][k[2]] = Sign(row.data, s)
      BY <2>2
    <3>2. Key(row) \in Keys /\ row.data \in Contents BY TopFacts DEF IInv, Rows
    <3> QED BY <3>1, <3>2, ContentFacts
  <2> QED BY <1>1, <1>15, <2>1, <2>2 DEF Touched
<1>16. Behind(j) BY <1>2 DEF Sound
<1>17. ASSUME j.step = "insert", j.now
       PROVE  /\ docx'[j.t][j.n] # NoContent
              /\ docx'[j.t][j.n] = j.data \/ <<j.t, j.n>> \in contested'
  <2> DEFINE k == <<j.t, j.n>>
  <2>1. k \in Claims(j) BY <1>17 DEF Claims
  <2>2. j.n \in Numbers
    BY <1>3, <1>5, <1>9, <1>17, BoundAssumption DEF NumbersAreNext, Numbers
  <2>3. \/ docx'[j.t][j.n] = docx[j.t][j.n]
        \/ docx'[j.t][j.n] # NoContent /\ k \in Keys \cup contested
    BY <2>1, <2>2, <1>5, <1>15
  <2>4. k \in Keys => k \in contested BY <1>2, <1>17 DEF Sound, Late
  <2> QED BY <1>1, <1>16, <1>17, <2>3, <2>4 DEF Behind
<1>18. ASSUME j.step # "answer", NEW row \in j.new
       PROVE  row.docx => /\ docx'[row.t][row.n] # NoContent
                          /\ docx'[row.t][row.n] = row.data \/ Key(row) \in contested'
  <2>1. Key(row) \in Claims(j) BY <1>18 DEF Claims
  <2>2. Key(row) \notin Keys
    <3>1. row.n = Tops[row.t] + 1 /\ row.t \in Templates BY <1>8, <1>9, <1>18 DEF NumbersAreNext
    <3>2. Key(row) \in Keys => row.n \in 1..Tops[row.t] BY TopFacts DEF IInv, Key
    <3> QED BY <3>1, <3>2, <1>3
  <2>3. \/ docx'[row.t][row.n] = docx[row.t][row.n]
        \/ docx'[row.t][row.n] # NoContent /\ Key(row) \in Keys \cup contested
    BY <2>1, <1>8, <1>15 DEF Key
  <2>4. Backed(row) BY <1>16, <1>18 DEF Behind
  <2> QED BY <1>1, <2>2, <2>3, <2>4 DEF Backed, Matches
<1>19. \A k \in j.upd, s \in {j.sig} : Resigned(k, s)'
  BY <1>1, <1>16, StaysResigned DEF Behind, j
<1>20. Behind(job[q])'
  BY <1>1, <1>17, <1>18, <1>19 DEF Behind, Backed, Matches, Key
<1> QED BY <1>1, <1>6, <1>7, <1>11, <1>12, <1>14, <1>20 DEF Sound

\* What is left to show of a step: the job that moves, the links and the previews.
LEMMA StepOf ==
  ASSUME IInv, NEW r, NEW u, NEW N, Moves(r, u, N), TypeOK',
         r \in Requests => Sound(job[r])',
         r \in Requests => \A q \in Requests \ {r} : Apart(job[r], job[q])',
         NewestIsCurrent', LinkedExist', PreviewComes'
  PROVE  IInv'
<1>1. /\ Follows(u, N) /\ contested \subseteq contested' /\ material \subseteq material'
      /\ \A q \in Requests \ {r} : job'[q] = job[q]
  BY DEF Moves
<1>2. KeysUnique' BY <1>1 DEF Follows
<1>3. Counted' BY <1>1, TopsAfter DEF IInv
<1>4. RowsHaveMaterial'
  <2> SUFFICES ASSUME NEW a \in rows' PROVE a.t \in material'
    BY DEF RowsHaveMaterial
  <2>1. CASE a \in N BY <2>1 DEF Moves
  <2>2. CASE a \notin N
    <3>1. PICK b \in rows : Becomes(a, b, u) BY <1>1, <2>2 DEF Follows
    <3> QED BY <1>1, <3>1 DEF IInv, RowsHaveMaterial, Becomes
  <2> QED BY <2>1, <2>2
<1>5. JobsAreSound'
  <2>1. \A q \in Requests : Sound(job[q])' BY OthersStaySound
  <2> QED BY <2>1 DEF JobsAreSound
<1>6. JobsAreApart'
  <2> SUFFICES ASSUME NEW p \in Requests, NEW q \in Requests, p # q
               PROVE  Apart(job[p], job[q])'
    BY DEF JobsAreApart
  <2>1. CASE p = r BY <2>1
  <2>2. CASE q = r
    <3>1. Apart(job[q], job[p])' BY <2>2
    <3> QED BY <3>1 DEF Apart
  <2>3. CASE p # r /\ q # r
    <3>1. Apart(job[p], job[q]) /\ job'[p] = job[p] /\ job'[q] = job[q]
      BY <1>1, <2>3 DEF IInv, JobsAreApart
    <3> QED BY <1>1, <3>1 DEF Apart, Claims, Key
  <2> QED BY <2>1, <2>2, <2>3
<1> QED BY <1>2, <1>3, <1>4, <1>5, <1>6, RowsStayBacked DEF IInv

\* A job that claims no more than before.
Less(i, j) ==
  /\ Claims(i) \subseteq Claims(j)
  /\ i.step = "answer" \/ i.new = {} \/ (j.step # "answer" /\ i.new \subseteq j.new)

LEMMA LessApart ==
  ASSUME IInv, contested \subseteq contested', NEW r \in Requests, Less(job'[r], job[r]),
         \A q \in Requests \ {r} : job'[q] = job[q]
  PROVE  \A q \in Requests \ {r} : Apart(job[r], job[q])'
<1> TAKE q \in Requests \ {r}
<1>1. Apart(job[r], job[q]) /\ job'[q] = job[q] BY DEF IInv, JobsAreApart
<1>2. /\ job'[r].step # "answer" /\ job[q].step # "answer" =>
            \A a \in job'[r].new, b \in job[q].new : Key(a) # Key(b)
      /\ Claims(job'[r]) \cap Claims(job[q]) \subseteq contested'
  BY <1>1 DEF Apart, Less
<1> QED BY <1>1, <1>2 DEF Apart, Claims, Key

\* Previews stay on their way if no committed rendering is removed, and a plan that is added
\* belongs to a request about to answer.
LEMMA PreviewStays ==
  ASSUME IInv, NEW u, NEW N, Follows(u, N),
         \A row \in N : row.t = "activity_plan" =>
           \E r \in Requests : job'[r].step = "answer" /\ row \in job'[r].new,
         \A k \in renders : k.row = "stored" => k \in renders',
         unrendered \subseteq unrendered',
         \A r \in Requests : job[r].step = "answer" => job'[r] = job[r]
  PROVE  PreviewComes'
<1> SUFFICES ASSUME NEW a \in rows', a.t = "activity_plan"
             PROVE  \/ a.pdf
                    \/ Key(a) \in unrendered'
                    \/ \E k \in renders' : k.row = "stored" /\ <<k.t, k.n>> = Key(a)
                    \/ \E r \in Requests : job'[r].step = "answer" /\ Key(a) \in Held(r)'
  BY DEF PreviewComes, RowsOf, Key
<1>0. CASE a \in N BY <1>0 DEF Held, Key
<1> SUFFICES ASSUME a \notin N
             PROVE  \/ a.pdf
                    \/ Key(a) \in unrendered'
                    \/ \E k \in renders' : k.row = "stored" /\ <<k.t, k.n>> = Key(a)
                    \/ \E r \in Requests : job'[r].step = "answer" /\ Key(a) \in Held(r)'
  BY <1>0
<1>1. PICK b \in rows : Becomes(a, b, u) BY DEF Follows
<1>2. b \in RowsOf("activity_plan") /\ Key(a) = Key(b) /\ (b.pdf => a.pdf)
  BY <1>1 DEF RowsOf, Becomes
<1>3. CASE \E r \in Requests : job[r].step = "answer" /\ Key(b) \in Held(r)
  <2>1. PICK r \in Requests : job[r].step = "answer" /\ Key(b) \in Held(r) BY <1>3
  <2>2. job'[r] = job[r] BY <2>1
  <2>3. Key(b) \in Held(r)' BY <2>1, <2>2 DEF Held, Key
  <2> QED BY <1>2, <2>1, <2>2, <2>3
<1>4. CASE b.pdf \/ Key(b) \in unrendered
           \/ \E k \in renders : k.row = "stored" /\ <<k.t, k.n>> = Key(b)
  BY <1>2, <1>4
<1> QED BY <1>2, <1>3, <1>4 DEF IInv, PreviewComes

\* NewestIsCurrent, in terms of Tops.
LEMMA NewestFacts ==
  /\ NewestIsCurrent <=> /\ \A t \in Plans : current[t] = Tops[t]
                         /\ linked["risk_assessment"] = Tops["risk_assessment"]
  /\ NewestIsCurrent' <=> /\ \A t \in Plans : current'[t] = Tops'[t]
                          /\ linked'["risk_assessment"] = Tops'["risk_assessment"]
<1>1. Plans \subseteq Templates /\ "risk_assessment" \in Templates BY DEF Plans, Templates
<1>2. \A t \in Templates : Tops[t] = Cardinality(RowsOf(t)) BY DEF Tops
<1>3. \A t \in Templates : Tops'[t] = Cardinality({row \in rows' : row.t = t})
  BY DEF Tops, RowsOf
<1>4. NewestIsCurrent <=> /\ \A t \in Plans : current[t] = Tops[t]
                         /\ linked["risk_assessment"] = Tops["risk_assessment"]
  BY <1>1, <1>2 DEF NewestIsCurrent
<1>5. NewestIsCurrent' <=> /\ \A t \in Plans : current'[t] = Tops'[t]
                          /\ linked'["risk_assessment"] = Tops'["risk_assessment"]
  BY <1>1, <1>3 DEF NewestIsCurrent, RowsOf
<1> QED BY <1>4, <1>5

\* The signatures add no version but a commitment, and leave the plans' pointers alone.
LEMMA NewestStays ==
  ASSUME IInv, NEW u, NEW N, Follows(u, N), \A row \in N : row.t = "filing_commitment",
         UNCHANGED current, linked'["risk_assessment"] = linked["risk_assessment"]
  PROVE  NewestIsCurrent'
<1>1. \A t \in Plans \cup {"risk_assessment"} : t \in Templates /\ t # "filing_commitment"
  BY DEF Plans, Templates
<1>2. \A t \in Plans \cup {"risk_assessment"} : Tops'[t] = Tops[t]
  BY <1>1, TopsAfter DEF IInv
<1> QED BY <1>2, NewestFacts DEF IInv

\* A step of r that writes neither rows nor documents nor links.
Quiet(r) ==
  /\ UNCHANGED <<rows, docx, current, linked>>
  /\ material \subseteq material' /\ contested \subseteq contested'
  /\ \A q \in Requests \ {r} : job'[q] = job[q]

LEMMA QuietFacts ==
  ASSUME IInv, NEW r, Quiet(r)
  PROVE  /\ Moves(r, {}, {}) /\ Keys' = Keys /\ Tops' = Tops
         /\ NewestIsCurrent' /\ LinkedExist' /\ Counted'
<1>1. Follows({}, {}) BY UnwrittenFacts DEF IInv, Quiet
<1>2. Moves(r, {}, {}) BY <1>1 DEF Moves, Quiet, Touched
<1>3. Keys' = Keys BY DEF Quiet, Keys, Key
<1>4. Tops' = Tops BY DEF Quiet, Tops, RowsOf
<1>5. NewestIsCurrent' BY <1>1, NewestStays DEF Quiet
<1>6. LinkedExist' BY <1>4 DEF Quiet, IInv, LinkedExist
<1>7. Counted' BY <1>3, <1>4 DEF IInv, Counted
<1> QED BY <1>2, <1>3, <1>4, <1>5, <1>6, <1>7

LEMMA QuietStep ==
  ASSUME IInv, NEW r \in Requests, Quiet(r), TypeOK', PreviewComes', Sound(job[r])',
         Less(job'[r], job[r])
  PROVE  IInv'
<1>1. \A q \in Requests \ {r} : Apart(job[r], job[q])' BY LessApart DEF Quiet
<1> QED BY <1>1, QuietFacts, StepOf

-----------------------------------------------------------------------------
(* Jobs.                                                                    *)

LEMMA NoJobFacts ==
  /\ NoJob \in Jobs /\ NoJob.step = "idle" /\ NoJob.n = 0 /\ NoJob.now = FALSE
  /\ NoJob.seen = 0 /\ NoJob.todo = <<>> /\ NoJob.new = {} /\ NoJob.upd = {}
  /\ NoJob.sig = "none" /\ NoJob.marks = {} /\ NoJob.link = NoLinks
<1> DEFINE links == [t \in Templates |-> 0]
           J(a, b, c) == [step |-> "idle", t |-> "security_plan", n |-> 0, now |-> FALSE,
                          data |-> NoContent, seen |-> 0, todo |-> <<>>, new |-> a,
                          upd |-> b, sig |-> "none", marks |-> c, link |-> links]
<1>1. links \in [Templates -> 0..MaxVersion] BY BoundAssumption
<1>2. <<>> \in {s \in Seq(Templates) : Len(s) <= 3} OBVIOUS
<1>3. "security_plan" \in Templates BY DEF Templates
<1> HIDE DEF links
<1>4. \A a, b, c : a \in SUBSET Rows /\ b \in SUBSET (Templates \X Numbers)
                   /\ c \in SUBSET Templates =>
        /\ J(a, b, c) \in Jobs /\ J(a, b, c).step = "idle" /\ J(a, b, c).n = 0
        /\ J(a, b, c).now = FALSE /\ J(a, b, c).seen = 0 /\ J(a, b, c).todo = <<>>
        /\ J(a, b, c).new = a /\ J(a, b, c).upd = b /\ J(a, b, c).marks = c
        /\ J(a, b, c).link = links /\ J(a, b, c).sig = "none"
  BY <1>1, <1>2, <1>3, BoundAssumption DEF Jobs, Steps, Images
<1>5. NoJob = J({}, {}, {}) BY DEF NoJob, links
<1> HIDE DEF J
<1>6. NoLinks = links BY DEF NoLinks, links
<1> QED BY <1>4, <1>5, <1>6

LEMMA JobAfter ==
  ASSUME TypeOK, NEW r \in Requests, NEW j \in Jobs, job' = [job EXCEPT ![r] = j]
  PROVE  /\ job' \in [Requests -> Jobs] /\ job'[r] = j
         /\ \A q \in Requests \ {r} : job'[q] = job[q]
BY DEF TypeOK

LEMMA JobTypes ==
  ASSUME TypeOK, NEW r \in Requests
  PROVE  /\ job[r] \in Jobs /\ job[r].t \in Templates /\ job[r].n \in 0..MaxVersion
         /\ job[r].now \in BOOLEAN /\ job[r].data \in Contents \cup {NoContent}
         /\ job[r].seen \in 0..MaxVersion /\ job[r].new \in SUBSET Rows
         /\ job[r].todo \in Seq(Templates) /\ Len(job[r].todo) <= 3
         /\ job[r].upd \in SUBSET (Templates \X Numbers) /\ job[r].marks \in SUBSET Templates
         /\ job[r].link \in [Templates -> 0..MaxVersion] /\ job[r].sig \in Images
<1>1. job[r] \in Jobs BY DEF TypeOK
<1> QED BY <1>1 DEF Jobs

LEMMA OrderFacts ==
  /\ SyncOrder \in Seq(Templates) /\ Len(SyncOrder) = 2 /\ DOMAIN SyncOrder = 1..2
  /\ SyncOrder[1] = "risk_assessment" /\ SyncOrder[2] = "filing_commitment"
  /\ \A s \in {<<>>, SyncOrder, SignOrder} : s \in {i \in Seq(Templates) : Len(i) <= 3}
<1>1. <<>> \in Seq(Templates) /\ Len(<<>>) = 0 OBVIOUS
<1>2. /\ SyncOrder \in Seq(Templates) /\ Len(SyncOrder) = 2 /\ DOMAIN SyncOrder = 1..2
      /\ SyncOrder[1] = "risk_assessment" /\ SyncOrder[2] = "filing_commitment"
  BY DEF SyncOrder, Templates
<1>3. SignOrder \in Seq(Templates) /\ Len(SignOrder) = 3 BY DEF SignOrder, Templates
<1>4. ASSUME NEW i \in Seq(Templates), NEW n \in 0..3, Len(i) = n
      PROVE  i \in {k \in Seq(Templates) : Len(k) <= 3}
  BY <1>4
<1>5. /\ <<>> \in {k \in Seq(Templates) : Len(k) <= 3}
      /\ SyncOrder \in {k \in Seq(Templates) : Len(k) <= 3}
      /\ SignOrder \in {k \in Seq(Templates) : Len(k) <= 3}
  <2>1. 0 \in 0..3 /\ 2 \in 0..3 /\ 3 \in 0..3 OBVIOUS
  <2> QED BY <2>1, <1>1, <1>2, <1>3, <1>4, Zenon
<1>6. \A s \in {<<>>, SyncOrder, SignOrder} : s \in {i \in Seq(Templates) : Len(i) <= 3}
  BY <1>5, Zenon
<1> QED BY <1>2, <1>6, Zenon

\* A request that begins, or is done.
LEMMA BegunSound ==
  ASSUME IInv, NEW r \in Requests, Counted', NEW j, job'[r] = j, Shape(j),
         j.step \in {"idle", "number", "sign"},
         j.step = "number" =>
           j.t \in material' \/ (j.t = "filing_commitment" /\ j.now),
         j.new = {}, j.upd = {}, j.marks = {}, j.link = NoLinks,
         j.seen <= Tops'["security_plan"]
  PROVE  Sound(job[r])' /\ Less(job'[r], job[r])
<1>1. \A t \in Templates : 0 <= Tops'[t] /\ NoLinks[t] = 0
  BY BoundAssumption DEF NoLinks, Counted
<1>2. Filed(job[r])' BY DEF Filed, Making, Taking
<1>3. NumbersAreNext(job[r])' /\ Late(job[r])' /\ Behind(job[r])'
  BY DEF NumbersAreNext, Late, Behind
<1>4. LinksExist(job[r])' BY <1>1 DEF LinksExist
<1>5. Less(j, job[r]) BY DEF Less, Claims
<1> QED BY <1>2, <1>3, <1>4, <1>5 DEF Sound

LEMMA IdleSound ==
  ASSUME IInv, NEW r \in Requests, job'[r] = NoJob, Counted'
  PROVE  Sound(job[r])' /\ Less(job'[r], job[r])
<1>1. NoJob.seen <= Tops'["security_plan"]
  BY NoJobFacts, BoundAssumption DEF Templates, Counted
<1>2. Shape(NoJob) BY NoJobFacts DEF Shape, Making, Taking
<1> QED BY <1>1, <1>2, NoJobFacts, BegunSound

-----------------------------------------------------------------------------
(* Steps that write neither rows nor documents nor links. *)

\* A step that no request takes.
LEMMA OutsideStep ==
  ASSUME IInv, UNCHANGED <<rows, docx, current, linked, job, contested>>,
         material \subseteq material', TypeOK', PreviewComes'
  PROVE  IInv'
<1>1. Quiet("stored") BY DEF Quiet
<1> QED BY <1>1, RequestAssumption, QuietFacts, StepOf

LEMMA OpenMaterialStep ==
  ASSUME IInv, NEW t \in Templates, OpenMaterial(t)
  PROVE  IInv'
<1>1. /\ material' = material \cup {t}
      /\ UNCHANGED <<rows, docx, current, linked, signed, audit, job, renders, contested,
                     unrendered>>
  BY DEF OpenMaterial, history
<1>2. TypeOK' BY <1>1 DEF IInv, TypeOK
<1>3. Follows({}, {}) BY <1>1, UnwrittenFacts DEF IInv
<1>4. PreviewComes' BY <1>1, <1>3, PreviewStays
<1> QED BY <1>1, <1>2, <1>4, OutsideStep

LEMMA SubmitForReviewStep ==
  ASSUME IInv, SubmitForReview
  PROVE  IInv'
<1>1. /\ audit' = "toSign"
      /\ UNCHANGED <<rows, docx, current, linked, material, signed, job, renders, contested,
                     unrendered>>
  BY DEF SubmitForReview, history
<1>2. TypeOK' BY <1>1 DEF IInv, TypeOK
<1>3. Follows({}, {}) BY <1>1, UnwrittenFacts DEF IInv
<1>4. PreviewComes' BY <1>1, <1>3, PreviewStays
<1> QED BY <1>1, <1>2, <1>4, OutsideStep

\* The failure is remembered.
LEMMA RenderFailsStep ==
  ASSUME IInv, NEW k \in renders, RenderFails(k)
  PROVE  IInv'
<1>1. /\ renders' = renders \ {k}
      /\ unrendered' = unrendered \cup ({<<k.t, k.n>>} \cap ({"activity_plan"} \X Numbers))
      /\ UNCHANGED <<rows, docx, current, linked, material, signed, audit, job, contested>>
  BY DEF RenderFails, stored
<1>2. TypeOK' BY <1>1 DEF IInv, TypeOK
<1>3. PreviewComes'
  <2> SUFFICES ASSUME NEW a \in rows, a.t = "activity_plan"
               PROVE  \/ a.pdf
                      \/ Key(a) \in unrendered'
                      \/ \E i \in renders' : i.row = "stored" /\ <<i.t, i.n>> = Key(a)
                      \/ \E r \in Requests : job[r].step = "answer" /\ Key(a) \in Held(r)
    BY <1>1 DEF PreviewComes, RowsOf, Key, Held
  <2>1. a \in RowsOf("activity_plan") /\ Key(a) \in {"activity_plan"} \X Numbers
    BY TopFacts DEF IInv, RowsOf, Key
  <2>2. <<k.t, k.n>> = Key(a) => Key(a) \in unrendered' BY <1>1, <2>1
  <2> QED BY <1>1, <2>1, <2>2 DEF IInv, PreviewComes
<1> QED BY <1>1, <1>2, <1>3, OutsideStep

\* A request that was idle moves.
LEMMA BeginFacts ==
  ASSUME IInv, NEW r \in Requests, NEW j \in Jobs, Begin(r, j),
         UNCHANGED <<rows, docx, current, linked, signed, audit, renders, contested,
                     unrendered>>,
         material \subseteq material', material' \subseteq Templates
  PROVE  /\ Quiet(r) /\ TypeOK' /\ PreviewComes' /\ Counted' /\ Tops' = Tops /\ job'[r] = j
<1>1. /\ job[r].step = "idle" /\ job' = [job EXCEPT ![r] = j]
  BY DEF Begin
<1>2. /\ job' \in [Requests -> Jobs] /\ job'[r] = j
      /\ \A q \in Requests \ {r} : job'[q] = job[q]
  BY <1>1, JobAfter DEF IInv
<1>3. Quiet(r) BY <1>2 DEF Quiet
<1>4. TypeOK' BY <1>2 DEF IInv, TypeOK
<1>5. Follows({}, {}) BY UnwrittenFacts DEF IInv
<1>6. \A q \in Requests : job[q].step = "answer" => job'[q] = job[q] BY <1>1, <1>2
<1>7. PreviewComes' BY <1>5, <1>6, PreviewStays
<1> QED BY <1>2, <1>3, <1>4, <1>7, QuietFacts

LEMMA GenerateStep ==
  ASSUME IInv, NEW r \in Requests, Generate(r)
  PROVE  IInv'
<1>1. PICK t \in Templates, x \in Texts :
        /\ t \in Plans \cup material
        /\ \E todo \in IF t = "security_plan" THEN {<<>>, SyncOrder} ELSE {<<>>} :
             Begin(r, [NoJob EXCEPT !.step = "number", !.t = t, !.todo = todo,
                                 !.now = t \notin Deferred,
                                 !.data = [text |-> x, sig |-> "none"]])
        /\ material' = material \cup (Plans \cap {t})
  BY DEF Generate
<1>2. PICK todo \in IF t = "security_plan" THEN {<<>>, SyncOrder} ELSE {<<>>} :
             Begin(r, [NoJob EXCEPT !.step = "number", !.t = t, !.todo = todo,
                                 !.now = t \notin Deferred,
                                 !.data = [text |-> x, sig |-> "none"]])
  BY <1>1
<1> DEFINE now == t \notin Deferred
           d == [text |-> x, sig |-> "none"]
           j == [NoJob EXCEPT !.step = "number", !.t = t, !.todo = todo, !.now = now, !.data = d]
<1>3. t \in Templates OBVIOUS
<1>4. todo \in {s \in Seq(Templates) : Len(s) <= 3}
  <2>1. todo \in {<<>>, SyncOrder, SignOrder} OBVIOUS
  <2> QED BY <2>1, OrderFacts, Zenon
<1>5. /\ todo # <<>> => t = "security_plan"
      /\ \A i \in DOMAIN todo : todo[i] \in Synced
      /\ \A i, k \in DOMAIN todo : todo[i] = todo[k] => i = k
  BY OrderFacts DEF Synced
<1>6. now \in BOOLEAN /\ d \in Contents BY DEF Contents, Images
<1>7. (t = "activity_plan" => now) /\ (t = "security_plan" => ~now) BY DEF Deferred
<1>8. Begin(r, j) BY <1>2
<1> HIDE DEF now, d
<1>9. /\ j \in Jobs /\ j.step = "number" /\ j.t = t /\ j.todo = todo /\ j.now = now
      /\ j.data = d /\ j.new = {} /\ j.upd = {} /\ j.marks = {} /\ j.link = NoLinks /\ j.seen = 0
  BY <1>3, <1>4, <1>6, NoJobFacts DEF Jobs, Steps
<1> HIDE DEF j
<1>10. /\ UNCHANGED <<rows, docx, current, linked, signed, audit, renders, contested, unrendered>>
       /\ material \subseteq material' /\ material' \subseteq Templates
  BY <1>1, <1>3 DEF Generate, history, IInv, TypeOK
<1>11. Quiet(r) /\ TypeOK' /\ PreviewComes' /\ Counted' /\ job'[r] = j
  BY <1>8, <1>9, <1>10, BeginFacts
<1>12. Shape(j)
  <2>1. \A i \in DOMAIN j.todo : j.todo[i] # j.t
    BY <1>5, <1>9 DEF Synced
  <2>2. j.now => j.todo = <<>> BY <1>5, <1>7, <1>9
  <2> QED BY <1>5, <1>6, <1>7, <1>9, <2>1, <2>2 DEF Shape, Making, Taking
<1>13. j.t \in material' BY <1>1, <1>9
<1>14. j.seen <= Tops'["security_plan"]
  BY <1>9, <1>11, BoundAssumption DEF Counted, Templates
<1>15. Sound(job[r])' /\ Less(job'[r], job[r])
  BY <1>9, <1>11, <1>12, <1>13, <1>14, BegunSound
<1> QED BY <1>11, <1>15, QuietStep

\* A signature that is used again is one of the images.
LEMMA ReusedFacts ==
  ASSUME IInv
  PROVE  Reused \in Images
<1> DEFINE sig(t) == IF RowsOf(t) = {} THEN "none" ELSE Row(t, NextVersion(t) - 1).data.sig
<1>1. "none" \in Images BY DEF Images
<1>2. ASSUME NEW t \in Templates PROVE sig(t) \in Images
  <2>1. CASE RowsOf(t) = {} BY <1>1, <2>1
  <2>2. CASE RowsOf(t) # {}
    <3>1. PICK row \in RowsOf(t) : TRUE BY <2>2
    <3>2. row \in rows /\ row.t = t BY DEF RowsOf
    <3>3. Tops[t] \in Nat /\ row.n \in 1..Tops[t] BY <3>2, TopFacts DEF IInv
    <3>4. <<t, Tops[t]>> \in Keys BY <3>3, TopFacts DEF IInv
    <3>5. PICK top \in rows : top.t = t /\ top.n = Tops[t] BY <3>4 DEF Keys, Key
    <3>6. NextVersion(t) - 1 = Tops[t] BY <3>3, NextVersionFacts DEF IInv
    <3>7. Row(t, NextVersion(t) - 1) = top BY <3>5, <3>6, RowFacts DEF IInv
    <3>8. top.data.sig \in Images BY <3>5, TopFacts DEF IInv, Rows, Contents
    <3> QED BY <2>2, <3>7, <3>8
  <2> QED BY <2>1, <2>2
<1>3. sig("security_plan") \in Images /\ sig("risk_assessment") \in Images
  BY <1>2 DEF Templates
<1>4. Reused = IF sig("security_plan") # "none" THEN sig("security_plan")
               ELSE sig("risk_assessment")
  BY DEF Reused
<1> HIDE DEF sig
<1> QED BY <1>3, <1>4

LEMMA WriteCommitmentStep ==
  ASSUME IInv, NEW r \in Requests, WriteCommitment(r)
  PROVE  IInv'
<1> DEFINE d == [text |-> "auto", sig |-> Reused]
           j == [NoJob EXCEPT !.step = "number", !.t = "filing_commitment", !.now = TRUE,
                              !.data = d]
<1>1. Begin(r, j) BY DEF WriteCommitment
<1>2. d \in Contents /\ "filing_commitment" \in Templates
  BY ReusedFacts DEF Contents, Templates
<1> HIDE DEF d
<1>3. /\ j \in Jobs /\ j.step = "number" /\ j.t = "filing_commitment" /\ j.todo = <<>>
      /\ j.now = TRUE /\ j.data = d /\ j.new = {} /\ j.upd = {} /\ j.marks = {}
      /\ j.link = NoLinks /\ j.seen = 0
  BY <1>2, NoJobFacts DEF Jobs, Steps
<1> HIDE DEF j
<1>4. UNCHANGED <<rows, docx, current, linked, material, signed, audit, renders, contested,
                  unrendered>>
  BY DEF WriteCommitment, stored, history
<1>5. Quiet(r) /\ TypeOK' /\ PreviewComes' /\ Counted' /\ job'[r] = j
  BY <1>1, <1>3, <1>4, BeginFacts DEF IInv, TypeOK
<1>6. Shape(j) BY <1>2, <1>3 DEF Shape, Making, Taking
<1>7. j.seen <= Tops'["security_plan"]
  BY <1>3, <1>5, BoundAssumption DEF Counted, Templates
<1>8. Sound(job[r])' /\ Less(job'[r], job[r]) BY <1>3, <1>5, <1>6, <1>7, BegunSound
<1> QED BY <1>5, <1>8, QuietStep

LEMMA SignStartStep ==
  ASSUME IInv, NEW r \in Requests, SignStart(r)
  PROVE  IInv'
<1>0. PICK given \in Images :
        Begin(r, [NoJob EXCEPT !.step = "sign", !.todo = SignOrder,
                            !.seen = current["security_plan"],
                            !.sig = IF given = "none" THEN Reused ELSE given])
  BY DEF SignStart
<1> DEFINE n == current["security_plan"]
           s == IF given = "none" THEN Reused ELSE given
           j == [NoJob EXCEPT !.step = "sign", !.todo = SignOrder, !.seen = n, !.sig = s]
<1>1. Begin(r, j) BY <1>0
<1>2. n \in 0..MaxVersion /\ n = Tops["security_plan"] /\ s \in Images
  BY NewestFacts, ReusedFacts DEF IInv, TypeOK, Plans
<1> HIDE DEF n, s
<1>3. /\ j \in Jobs /\ j.step = "sign" /\ j.new = {} /\ j.upd = {} /\ j.marks = {}
      /\ j.link = NoLinks /\ j.seen = n
  <2> DEFINE todo == SignOrder
  <2>1. todo \in {x \in Seq(Templates) : Len(x) <= 3} BY OrderFacts, Zenon
  <2> HIDE DEF todo
  <2>2. [NoJob EXCEPT !.step = "sign", !.todo = todo, !.seen = n, !.sig = s] \in Jobs
    BY <1>2, <2>1, NoJobFacts DEF Jobs, Steps
  <2>3. j \in Jobs BY <2>2 DEF todo
  <2> QED BY <1>2, <2>3, NoJobFacts DEF Jobs
<1> HIDE DEF j
<1>4. UNCHANGED <<rows, docx, current, linked, material, signed, audit, renders, contested,
                  unrendered>>
  BY DEF SignStart, stored, history
<1>5. Quiet(r) /\ TypeOK' /\ PreviewComes' /\ Counted' /\ Tops' = Tops /\ job'[r] = j
  BY <1>1, <1>3, <1>4, BeginFacts DEF IInv, TypeOK
<1>6. j.link["risk_assessment"] = 0 BY <1>3 DEF NoLinks, Templates
<1>7. Shape(j) BY <1>3, <1>6 DEF Shape, Making, Taking
<1>8. j.seen <= Tops'["security_plan"] BY <1>2, <1>3, <1>5, BoundAssumption
<1>9. Sound(job[r])' /\ Less(job'[r], job[r]) BY <1>3, <1>5, <1>7, <1>8, BegunSound
<1> QED BY <1>5, <1>9, QuietStep

\* A request moves on that has no rendering left to schedule.
LEMMA DoFacts ==
  ASSUME IInv, NEW r \in Requests, NEW j \in Jobs, Do(r, j), job[r].step # "answer",
         UNCHANGED <<rows, docx, current, linked, material, signed, audit>>,
         contested \subseteq contested', renders' \subseteq Renders,
         \A k \in renders : k.row = "stored" => k \in renders',
         unrendered \subseteq unrendered'
  PROVE  /\ Quiet(r) /\ TypeOK' /\ PreviewComes' /\ Counted' /\ Tops' = Tops /\ Keys' = Keys
         /\ job'[r] = j
<1>1. job' = [job EXCEPT ![r] = j] BY DEF Do
<1>2. /\ job' \in [Requests -> Jobs] /\ job'[r] = j
      /\ \A q \in Requests \ {r} : job'[q] = job[q]
  BY <1>1, JobAfter DEF IInv
<1>3. Quiet(r) BY <1>2 DEF Quiet
<1>4. TypeOK' BY <1>2 DEF IInv, TypeOK
<1>5. Follows({}, {}) BY UnwrittenFacts DEF IInv
<1>6. \A q \in Requests : job[q].step = "answer" => job'[q] = job[q] BY <1>2
<1>7. PreviewComes' BY <1>5, <1>6, PreviewStays
<1> QED BY <1>2, <1>3, <1>4, <1>7, QuietFacts

\* The number is new to the table; if another request has it too, it is contested.
LEMMA TakeNumberStep ==
  ASSUME IInv, NEW r \in Requests, TakeNumber(r)
  PROVE  IInv'
<1> DEFINE i == job[r]
           n == NextVersion(i.t)
           s == IF i.now THEN "upload" ELSE "insert"
           j == [i EXCEPT !.n = n, !.step = s]
<1>1. /\ i.step = "number" /\ n <= MaxVersion /\ Do(r, j)
      /\ contested' = contested \cup
           {k \in {<<i.t, n>>} : \E q \in Requests \ {r} : k \in Held(q)}
      /\ UNCHANGED <<rows, docx, current, linked, material, signed, audit, renders, unrendered>>
  BY DEF TakeNumber, stored
<1>2. i \in Jobs /\ i.t \in Templates /\ Sound(i)
  BY JobTypes DEF IInv, JobsAreSound
<1>3. n = Tops[i.t] + 1 /\ n \in Numbers /\ n \in 0..MaxVersion /\ Tops[i.t] \in Nat
  BY <1>1, <1>2, NextVersionFacts, TopFacts, BoundAssumption DEF IInv, Numbers
<1>4. s \in {"upload", "insert"} /\ (s = "insert" => ~i.now) OBVIOUS
<1>5. \A q \in Requests \ {r} : Apart(i, job[q]) BY DEF IInv, JobsAreApart
<1> HIDE DEF i, n, s
<1>6. /\ j \in Jobs /\ j.step = s /\ j.n = n /\ j.t = i.t /\ j.now = i.now /\ j.data = i.data
      /\ j.seen = i.seen /\ j.todo = i.todo /\ j.new = i.new /\ j.upd = i.upd
      /\ j.sig = i.sig /\ j.marks = i.marks /\ j.link = i.link
  BY <1>2, <1>3, <1>4 DEF Jobs, Steps
<1> HIDE DEF j
<1>7. /\ Quiet(r) /\ TypeOK' /\ PreviewComes' /\ Tops' = Tops /\ Keys' = Keys /\ job'[r] = j
  BY <1>1, <1>6, DoFacts DEF IInv, TypeOK, i
<1>8. Sound(job[r])'
  <2>1. Shape(j) BY <1>1, <1>2, <1>4, <1>6 DEF Sound, Shape, Making, Taking
  <2>2. Filed(job[r])' BY <1>1, <1>2, <1>4, <1>6, <1>7 DEF Sound, Filed, Making, Taking
  <2>3. NumbersAreNext(job[r])'
    BY <1>1, <1>2, <1>3, <1>6, <1>7 DEF Sound, NumbersAreNext
  <2>4. LinksExist(job[r])' BY <1>2, <1>6, <1>7 DEF Sound, LinksExist
  <2>5. Behind(job[r])'
    <3>1. \A k, sg : Resigned(k, sg) => Resigned(k, sg)' BY <1>1, <1>7 DEF Resigned, Key
    <3>2. \A row : Backed(row) => Backed(row)' BY <1>1, <1>7 DEF Backed, Matches, Key
    <3>3. \A row \in j.new : Backed(row)' BY <1>1, <1>2, <1>6, <3>2 DEF Sound, Behind
    <3>4. \A k \in j.upd, sg \in {j.sig} : Resigned(k, sg)' BY <1>2, <1>6, <3>1 DEF Sound, Behind
    <3> QED BY <1>4, <1>6, <1>7, <3>3, <3>4 DEF Behind
  <2>6. <<i.t, n>> \notin Keys
    <3>1. <<i.t, n>> \in Keys => n \in 1..Tops[i.t] BY TopFacts DEF IInv
    <3> QED BY <3>1, <1>3
  <2>7. Late(job[r])' BY <1>6, <1>7, <2>6 DEF Late
  <2> QED BY <1>7, <2>1, <2>2, <2>3, <2>4, <2>5, <2>7 DEF Sound
<1>9. \A q \in Requests \ {r} : Apart(job[r], job[q])'
  <2> TAKE q \in Requests \ {r}
  <2>1. job'[q] = job[q] BY <1>7 DEF Quiet
  <2>2. Claims(job[q]) \subseteq Held(q) BY DEF Claims, Held
  <2>3. Claims(j) \subseteq Claims(i) \cup {<<i.t, n>>} BY <1>1, <1>6 DEF Claims
  <2>4. Claims(j) \cap Claims(job[q]) \subseteq contested'
    BY <1>1, <1>5, <2>2, <2>3 DEF Apart
  <2> QED BY <1>1, <1>5, <1>6, <1>7, <2>1, <2>4 DEF Apart, Claims, Key
<1> QED BY <1>7, <1>8, <1>9, QuietFacts, StepOf

\* The row gets the next number: a number committed meanwhile makes the INSERT fail, and one
\* inserted but not committed makes it wait.
LEMMA InsertStep ==
  ASSUME IInv, NEW r \in Requests, Insert(r)
  PROVE  IInv'
<1> DEFINE i == job[r]
           row == [t |-> i.t, n |-> i.n, data |-> i.data, docx |-> i.now, pdf |-> FALSE]
           s == IF i.t = "filing_commitment" /\ i.now THEN "link" ELSE "next"
           new == i.new \cup {row}
           j == [i EXCEPT !.new = new, !.step = s]
<1>1. /\ i.step = "insert" /\ Unblocked(r) /\ ~Taken(r) /\ Do(r, j)
      /\ renders' = renders \cup (IF i.now THEN {Early(row, r)} ELSE {})
      /\ UNCHANGED <<rows, docx, current, linked, material, signed, audit, contested, unrendered>>
  BY DEF Insert, stored, history
<1>2. i \in Jobs /\ i.t \in Templates /\ i.n \in 0..MaxVersion /\ i.now \in BOOLEAN
      /\ i.new \in SUBSET Rows /\ Sound(i)
  BY JobTypes DEF IInv, JobsAreSound
<1>3. i.data \in Contents BY <1>1, <1>2 DEF Sound, Shape, Taking
<1>4. <<i.t, i.n>> \notin Keys BY <1>1 DEF Taken, Keys
<1>5. i.n = Tops[i.t] + 1 /\ i.n \in Numbers
  <2>1. i.n \in 1..(Tops[i.t] + 1) /\ Tops[i.t] \in Nat
    BY <1>1, <1>2, TopFacts DEF Sound, NumbersAreNext, IInv
  <2>2. i.n \notin 1..Tops[i.t] BY <1>2, <1>4, TopFacts DEF IInv
  <2> QED BY <1>2, <2>1, <2>2, BoundAssumption DEF Numbers
<1>6. \A q \in Requests \ {r} : Apart(i, job[q]) BY DEF IInv, JobsAreApart
<1>7. \A q \in Requests \ {r} : \A b \in job[q].new : Key(b) # <<i.t, i.n>>
  BY <1>1 DEF Unblocked
<1> HIDE DEF i
<1>8. /\ row \in Rows /\ row.t = i.t /\ row.n = i.n /\ row.data = i.data /\ row.docx = i.now
      /\ Key(row) = <<i.t, i.n>>
  BY <1>2, <1>3, <1>5 DEF Rows, Key
<1>9. i.now => Early(row, r) \in Renders BY <1>8 DEF Early, Renders, Rows
<1>10. /\ s \in {"link", "next"} /\ (s = "link" => i.t = "filing_commitment" /\ i.now)
       /\ (s = "next" => i.t # "filing_commitment" \/ ~i.now)
  OBVIOUS
<1>11. renders' \subseteq Renders /\ renders \subseteq renders' BY <1>1, <1>9 DEF IInv, TypeOK
<1> HIDE DEF row, s
<1>12. new \in SUBSET Rows BY <1>2, <1>8
<1>13. new = i.new \cup {row} OBVIOUS
<1> HIDE DEF new
<1>14. /\ j \in Jobs /\ j.step = s /\ j.n = i.n /\ j.t = i.t /\ j.now = i.now /\ j.data = i.data
       /\ j.seen = i.seen /\ j.todo = i.todo /\ j.new = new /\ j.upd = i.upd
       /\ j.sig = i.sig /\ j.marks = i.marks /\ j.link = i.link
  BY <1>2, <1>10, <1>12 DEF Jobs, Steps
<1> HIDE DEF j
<1>15. /\ Quiet(r) /\ TypeOK' /\ PreviewComes' /\ Tops' = Tops /\ Keys' = Keys /\ job'[r] = j
  BY <1>1, <1>11, <1>14, DoFacts DEF i
<1>16. Sound(job[r])'
  <2>1. Shape(j)
    <3>1. Shape(i) BY <1>2 DEF Sound
    <3>2. s = "link" => new = {row}
      BY <1>1, <1>10, <1>13, <3>1 DEF Shape, Taking
    <3> QED BY <1>1, <1>8, <1>10, <1>13, <1>14, <3>1, <3>2 DEF Shape, Making, Taking
  <2>2. Filed(job[r])'
    BY <1>1, <1>2, <1>8, <1>10, <1>13, <1>14, <1>15 DEF Sound, Filed, Making, Taking
  <2>3. NumbersAreNext(job[r])'
    BY <1>1, <1>2, <1>5, <1>8, <1>10, <1>13, <1>14, <1>15 DEF Sound, NumbersAreNext
  <2>4. LinksExist(job[r])' BY <1>2, <1>13, <1>14, <1>15 DEF Sound, LinksExist
  <2>5. Behind(job[r])'
    <3>1. \A k, sg : Resigned(k, sg) => Resigned(k, sg)' BY <1>1, <1>15 DEF Resigned, Key
    <3>2. \A a : Backed(a) => Backed(a)' BY <1>1, <1>15 DEF Backed, Matches, Key
    <3>3. Backed(row) BY <1>1, <1>2, <1>8 DEF Sound, Behind, Backed, Matches
    <3>4. \A a \in j.new : Backed(a)' BY <1>1, <1>2, <1>13, <1>14, <3>2, <3>3 DEF Sound, Behind
    <3>5. \A k \in j.upd, sg \in {j.sig} : Resigned(k, sg)' BY <1>2, <1>14, <3>1 DEF Sound, Behind
    <3> QED BY <1>10, <1>14, <1>15, <3>4, <3>5 DEF Behind
  <2>6. Late(job[r])' BY <1>10, <1>14, <1>15 DEF Late
  <2> QED BY <1>15, <2>1, <2>2, <2>3, <2>4, <2>5, <2>6 DEF Sound
<1>17. \A q \in Requests \ {r} : Apart(job[r], job[q])'
  <2> TAKE q \in Requests \ {r}
  <2>1. job'[q] = job[q] BY <1>15 DEF Quiet
  <2>2. Claims(j) = Claims(i) BY <1>1, <1>8, <1>10, <1>13, <1>14 DEF Claims
  <2>3. Apart(j, job[q]) BY <1>1, <1>6, <1>7, <1>8, <1>13, <1>14, <2>2 DEF Apart
  <2> QED BY <1>1, <1>15, <2>1, <2>3 DEF Apart, Claims, Key
<1> QED BY <1>15, <1>16, <1>17, QuietFacts, StepOf

\* A request ends without a commit; its last renderings may be scheduled or given up.
LEMMA EndStep ==
  ASSUME IInv, NEW r \in Requests, Do(r, NoJob),
         UNCHANGED <<rows, docx, current, linked, material, signed, audit, contested>>,
         renders' \subseteq Renders,
         \A k \in renders : k.row = "stored" => k \in renders',
         unrendered \subseteq unrendered',
         job[r].step = "answer" =>
           \A row \in job[r].new :
             Key(row) \in unrendered' \cup {<<k.t, k.n>> : k \in {i \in renders' : i.row = "stored"}}
  PROVE  IInv'
<1>1. job' = [job EXCEPT ![r] = NoJob] BY DEF Do
<1>2. /\ job' \in [Requests -> Jobs] /\ job'[r] = NoJob
      /\ \A q \in Requests \ {r} : job'[q] = job[q]
  BY <1>1, NoJobFacts, JobAfter DEF IInv
<1>3. Quiet(r) BY <1>2 DEF Quiet
<1>4. TypeOK' BY <1>2 DEF IInv, TypeOK
<1>5. PreviewComes'
  <2> SUFFICES ASSUME NEW a \in rows, a.t = "activity_plan"
               PROVE  \/ a.pdf
                      \/ Key(a) \in unrendered'
                      \/ \E k \in renders' : k.row = "stored" /\ <<k.t, k.n>> = Key(a)
                      \/ \E q \in Requests : job'[q].step = "answer" /\ Key(a) \in Held(q)'
    BY DEF PreviewComes, RowsOf, Key
  <2>1. a \in RowsOf("activity_plan") /\ a.n # 0
    BY TopFacts, BoundAssumption DEF IInv, RowsOf, Numbers
  <2>2. CASE \E q \in Requests : job[q].step = "answer" /\ Key(a) \in Held(q)
    <3>1. PICK q \in Requests : job[q].step = "answer" /\ Key(a) \in Held(q) BY <2>2
    <3>2. CASE q = r
      <4>1. job[r].n = 0 BY <3>1, <3>2 DEF IInv, JobsAreSound, Sound, Shape
      <4>2. \E row \in job[r].new : Key(row) = Key(a) BY <2>1, <3>1, <3>2, <4>1 DEF Held, Key
      <4> QED BY <3>1, <3>2, <4>2
    <3>3. CASE q # r
      <4>1. Key(a) \in Held(q)' BY <1>2, <3>1, <3>3 DEF Held, Key
      <4> QED BY <1>2, <3>1, <3>3, <4>1
    <3> QED BY <3>2, <3>3
  <2> QED BY <2>1, <2>2 DEF IInv, PreviewComes
<1>6. Sound(job[r])' /\ Less(job'[r], job[r]) BY <1>2, <1>3, QuietFacts, IdleSound
<1> QED BY <1>3, <1>4, <1>5, <1>6, QuietStep

LEMMA InsertFailsStep ==
  ASSUME IInv, NEW r \in Requests, InsertFails(r)
  PROVE  IInv'
<1>1. /\ job[r].step = "insert" /\ Do(r, NoJob) /\ renders' = renders \ Lost(r)
      /\ UNCHANGED <<rows, docx, current, linked, material, signed, audit, contested, unrendered>>
  BY DEF InsertFails, stored, history
<1>2. \A k \in renders : k.row = "stored" => k \in renders'
  BY <1>1, RequestAssumption DEF Lost
<1> QED BY <1>1, <1>2, EndStep DEF IInv, TypeOK

\* A request that dies before it answers leaves its plan without a preview.
LEMMA AbandonStep ==
  ASSUME IInv, NEW r \in Requests, Abandon(r)
  PROVE  IInv'
<1>1. /\ Do(r, NoJob) /\ renders' = renders \ Lost(r)
      /\ unrendered' = unrendered \cup
           (IF job[r].step = "answer" THEN {Key(row) : row \in job[r].new} ELSE {})
      /\ UNCHANGED <<rows, docx, current, linked, material, signed, audit, contested>>
  BY DEF Abandon, stored
<1>2. \A k \in renders : k.row = "stored" => k \in renders'
  BY <1>1, RequestAssumption DEF Lost
<1> QED BY <1>1, <1>2, EndStep DEF IInv, TypeOK

\* The router schedules the rendering that finds the row.
LEMMA AnswerStep ==
  ASSUME IInv, NEW r \in Requests, Answer(r)
  PROVE  IInv'
<1> DEFINE More == {[Early(row, "stored") EXCEPT !.late = TRUE] : row \in job[r].new}
<1>1. /\ job[r].step = "answer" /\ Do(r, NoJob) /\ renders' = renders \cup More
      /\ UNCHANGED <<rows, docx, current, linked, material, signed, audit, contested, unrendered>>
  BY DEF Answer, stored, history
<1>2. ASSUME NEW row \in job[r].new
      PROVE  LET k == [Early(row, "stored") EXCEPT !.late = TRUE]
             IN  k \in Renders /\ k.t = row.t /\ k.n = row.n /\ k.row = "stored"
  <2>1. row \in Rows BY JobTypes DEF IInv
  <2> QED BY <2>1 DEF Rows, Early, Renders
<1>3. More \subseteq Renders BY <1>2
<1>4. \A row \in job[r].new : \E k \in More : k.row = "stored" /\ <<k.t, k.n>> = Key(row)
  BY <1>2 DEF Key
<1> HIDE DEF More
<1>5. renders' \subseteq Renders BY <1>1, <1>3 DEF IInv, TypeOK
<1>6. \A row \in job[r].new : Key(row) \in {<<k.t, k.n>> : k \in {i \in renders' : i.row = "stored"}}
  BY <1>1, <1>4
<1> QED BY <1>1, <1>5, <1>6, EndStep

LEMMA TailFacts ==
  ASSUME NEW s \in Seq(Templates), Len(s) <= 3, s # <<>>
  PROVE  /\ Tail(s) \in {i \in Seq(Templates) : Len(i) <= 3}
         /\ Head(s) \in Templates /\ 1 \in DOMAIN s /\ Head(s) = s[1]
         /\ \A k \in DOMAIN Tail(s) : k + 1 \in DOMAIN s /\ k + 1 # 1 /\ Tail(s)[k] = s[k + 1]
<1>1. Len(s) \in 1..3
  <2>1. PICK n \in Nat : Len(s) = n OBVIOUS
  <2>2. n # 0 BY <2>1
  <2>3. n <= 3 BY <2>1
  <2> QED BY <2>1, <2>2, <2>3
<1>2. Tail(s) \in Seq(Templates) /\ Len(Tail(s)) = Len(s) - 1 BY <1>1
<1>3. Len(Tail(s)) <= 3 BY <1>1, <1>2
<1>4. Tail(s) \in {i \in Seq(Templates) : Len(i) <= 3} BY <1>2, <1>3
<1>5. 1 \in DOMAIN s /\ Head(s) = s[1] /\ Head(s) \in Templates BY <1>1
<1>6. \A k \in DOMAIN Tail(s) : k + 1 \in DOMAIN s /\ k + 1 # 1 /\ Tail(s)[k] = s[k + 1]
  BY <1>1, <1>2
<1> QED BY <1>4, <1>5, <1>6

\* The form to synchronise has a version, and so a material; it is made only once.
LEMMA SyncNextStep ==
  ASSUME IInv, NEW r \in Requests, SyncNext(r)
  PROVE  IInv'
<1> DEFINE i == job[r]
           t == Head(i.todo)
           todo == Tail(i.todo)
           d == Row(t, linked[t]).data
           i1 == [i EXCEPT !.todo = todo]
           j == IF linked[t] = 0 THEN i1
                ELSE [i1 EXCEPT !.step = "number", !.t = t, !.n = 0, !.data = d]
<1>1. /\ i.step = "next" /\ i.todo # <<>> /\ Do(r, j)
      /\ UNCHANGED <<rows, docx, current, linked, material, signed, audit, renders, contested,
                     unrendered>>
  BY DEF SyncNext, stored, history
<1>2. i \in Jobs /\ Sound(i) /\ i.todo \in Seq(Templates) /\ Len(i.todo) <= 3
  BY JobTypes DEF IInv, JobsAreSound
<1>3. /\ todo \in {s \in Seq(Templates) : Len(s) <= 3}
      /\ t \in Templates /\ 1 \in DOMAIN i.todo /\ t = i.todo[1]
      /\ \A k \in DOMAIN todo : k + 1 \in DOMAIN i.todo /\ k + 1 # 1 /\ todo[k] = i.todo[k + 1]
  BY <1>1, <1>2, TailFacts
<1>4. linked[t] # 0 => d \in Contents /\ t \in material
  <2> SUFFICES ASSUME linked[t] # 0 PROVE d \in Contents /\ t \in material
    OBVIOUS
  <2>1. linked[t] \in 1..Tops[t]
    BY <1>3, TopFacts, BoundAssumption DEF IInv, TypeOK, LinkedExist
  <2>2. <<t, linked[t]>> \in Keys BY <1>3, <2>1, TopFacts DEF IInv
  <2>3. PICK row \in rows : row.t = t /\ row.n = linked[t] BY <2>2 DEF Keys, Key
  <2>4. Row(t, linked[t]) = row BY <2>3, RowFacts DEF IInv
  <2>5. row.data \in Contents BY TopFacts DEF IInv, Rows
  <2> QED BY <2>3, <2>4, <2>5 DEF IInv, RowsHaveMaterial
<1>5. Shape(i) /\ Filed(i) /\ NumbersAreNext(i) /\ LinksExist(i) /\ Behind(i) BY <1>2 DEF Sound
<1> HIDE DEF i, t, todo, d
<1>6. /\ i1 \in Jobs /\ i1.step = "next" /\ i1.t = i.t /\ i1.now = i.now /\ i1.todo = todo
      /\ i1.seen = i.seen /\ i1.new = i.new /\ i1.upd = i.upd /\ i1.sig = i.sig
      /\ i1.marks = i.marks /\ i1.link = i.link
  BY <1>1, <1>2, <1>3 DEF Jobs
<1> HIDE DEF i1
<1>7. /\ j \in Jobs /\ j.now = i.now /\ j.todo = todo /\ j.seen = i.seen /\ j.new = i.new
      /\ j.upd = i.upd /\ j.sig = i.sig /\ j.marks = i.marks /\ j.link = i.link
      /\ \/ j.step = "next"
         \/ j.step = "number" /\ linked[t] # 0 /\ j.t = t /\ j.data = d
  <2>1. CASE linked[t] = 0 BY <1>6, <2>1
  <2>2. CASE linked[t] # 0
    <3>1. j = [i1 EXCEPT !.step = "number", !.t = t, !.n = 0, !.data = d] BY <2>2
    <3> HIDE DEF j
    <3>2. 0 \in 0..MaxVersion BY BoundAssumption
    <3> QED BY <1>3, <1>4, <1>6, <2>2, <3>1, <3>2 DEF Jobs, Steps
  <2> QED BY <2>1, <2>2
<1>8. Do(r, j) BY <1>1
<1> HIDE DEF j
<1>9. /\ Quiet(r) /\ TypeOK' /\ PreviewComes' /\ Tops' = Tops /\ Keys' = Keys /\ job'[r] = j
  BY <1>1, <1>7, <1>8, DoFacts DEF IInv, TypeOK, i
<1>10. Sound(job[r])'
  <2>1. Shape(j)
    <3>1. /\ \A k \in DOMAIN j.todo : j.todo[k] \in Synced /\ j.todo[k] # t
          /\ \A k, l \in DOMAIN j.todo : j.todo[k] = j.todo[l] => k = l
          /\ \A row \in j.new, k \in DOMAIN j.todo : row.t # j.todo[k]
          /\ \A row \in j.new : row.t # t
      <4>1. /\ \A k \in DOMAIN i.todo : i.todo[k] \in Synced
            /\ \A k, l \in DOMAIN i.todo : i.todo[k] = i.todo[l] => k = l
            /\ \A row \in i.new, k \in DOMAIN i.todo : row.t # i.todo[k]
        BY <1>1, <1>5 DEF Shape, Making
      <4>2. ASSUME NEW k \in DOMAIN todo, NEW l \in DOMAIN todo, todo[k] = todo[l]
            PROVE  k = l
        <5>1. k + 1 = l + 1 BY <1>3, <4>1, <4>2
        <5>2. k \in Nat /\ l \in Nat BY <1>3
        <5> QED BY <5>1, <5>2
      <4> QED BY <1>3, <1>7, <4>1, <4>2
    <3>2. ~i.now /\ t \in Synced BY <1>1, <1>3, <1>5 DEF Shape, Making
    <3>3. t # "activity_plan" BY <3>2 DEF Synced
    <3> QED BY <1>1, <1>4, <1>5, <1>7, <3>1, <3>2, <3>3 DEF Shape, Making, Taking
  <2>2. Filed(job[r])' BY <1>1, <1>4, <1>5, <1>7, <1>9 DEF Filed, Making, Taking
  <2>3. NumbersAreNext(job[r])' BY <1>1, <1>5, <1>7, <1>9 DEF NumbersAreNext
  <2>4. LinksExist(job[r])' BY <1>5, <1>7, <1>9 DEF LinksExist
  <2>5. Behind(job[r])'
    <3>1. \A k, s : Resigned(k, s) => Resigned(k, s)' BY <1>1, <1>9 DEF Resigned, Key
    <3>2. \A a : Backed(a) => Backed(a)' BY <1>1, <1>9 DEF Backed, Matches, Key
    <3>3. \A a \in j.new : Backed(a)' BY <1>1, <1>5, <1>7, <3>2 DEF Behind
    <3>4. \A k \in j.upd, s \in {j.sig} : Resigned(k, s)' BY <1>5, <1>7, <3>1 DEF Behind
    <3> QED BY <1>7, <1>9, <3>3, <3>4 DEF Behind
  <2>6. Late(job[r])' BY <1>7, <1>9 DEF Late
  <2> QED BY <1>9, <2>1, <2>2, <2>3, <2>4, <2>5, <2>6 DEF Sound
<1>11. Less(job'[r], job[r]) BY <1>1, <1>7, <1>9 DEF Less, Claims, i
<1> QED BY <1>9, <1>10, <1>11, QuietStep

\* The object is the request's own unless the number is contested.
LEMMA UploadStep ==
  ASSUME IInv, NEW r \in Requests, Upload(r)
  PROVE  IInv'
<1> DEFINE i == job[r]
           j == [i EXCEPT !.step = "insert"]
<1>1. /\ i.step = "upload" /\ Do(r, j) /\ docx' = [docx EXCEPT ![i.t][i.n] = i.data]
      /\ UNCHANGED <<rows, current, linked, material, signed, audit, renders, contested,
                     unrendered>>
  BY DEF Upload, stored, history
<1>2. /\ i \in Jobs /\ i.t \in Templates /\ i.n \in 0..MaxVersion /\ Sound(i)
      /\ docx \in [Templates -> [Numbers -> Contents \cup {NoContent}]]
  BY JobTypes DEF IInv, JobsAreSound, TypeOK
<1>3. Shape(i) /\ Filed(i) /\ NumbersAreNext(i) /\ LinksExist(i) /\ Behind(i) /\ Late(i)
  BY <1>2 DEF Sound
<1>4. i.data \in Contents /\ i.data # NoContent
  <2>1. i.data \in Contents /\ "none" \in Images BY <1>1, <1>3 DEF Shape, Taking, Images
  <2> QED BY <2>1, ContentFacts
<1>5. i.n \in Numbers
  BY <1>1, <1>2, <1>3, TopFacts, BoundAssumption DEF IInv, NumbersAreNext, Numbers
<1> HIDE DEF i
<1>6. /\ j \in Jobs /\ j.step = "insert" /\ j.n = i.n /\ j.t = i.t /\ j.now = i.now
      /\ j.data = i.data /\ j.seen = i.seen /\ j.todo = i.todo /\ j.new = i.new /\ j.upd = i.upd
      /\ j.sig = i.sig /\ j.marks = i.marks /\ j.link = i.link
  BY <1>2 DEF Jobs, Steps
<1>7. job' = [job EXCEPT ![r] = j] BY <1>1 DEF Do
<1> HIDE DEF j
<1>8. /\ job' \in [Requests -> Jobs] /\ job'[r] = j
      /\ \A q \in Requests \ {r} : job'[q] = job[q]
  BY <1>6, <1>7, JobAfter DEF IInv
<1>9. /\ docx' \in [Templates -> [Numbers -> Contents \cup {NoContent}]]
      /\ docx'[i.t][i.n] = i.data
      /\ \A t \in Templates, n \in Numbers :
           docx'[t][n] = docx[t][n] \/ (t = i.t /\ n = i.n)
  BY <1>1, <1>2, <1>4, <1>5
<1>10. TypeOK' BY <1>1, <1>8, <1>9 DEF IInv, TypeOK
<1>11. Follows({}, {}) BY <1>1, UnwrittenFacts DEF IInv
<1>12. Moves(r, {}, {})
  BY <1>1, <1>4, <1>8, <1>9, <1>11 DEF Moves, Touched, i
<1>13. Tops' = Tops /\ Keys' = Keys BY <1>1 DEF Tops, RowsOf, Keys, Key
<1>14. NewestIsCurrent' BY <1>1, <1>11, NewestStays
<1>15. LinkedExist' BY <1>1, <1>13 DEF IInv, LinkedExist
<1>16. \A q \in Requests : job[q].step = "answer" => job'[q] = job[q] BY <1>1, <1>8 DEF i
<1>17. PreviewComes' BY <1>1, <1>11, <1>16, PreviewStays
<1>18. Sound(job[r])'
  <2>1. Shape(j) BY <1>1, <1>3, <1>6 DEF Shape, Making, Taking
  <2>2. Filed(job[r])' BY <1>1, <1>3, <1>6, <1>8 DEF Filed, Making, Taking
  <2>3. NumbersAreNext(job[r])' BY <1>1, <1>3, <1>6, <1>8, <1>13 DEF NumbersAreNext
  <2>4. LinksExist(job[r])' BY <1>3, <1>6, <1>8, <1>13 DEF LinksExist
  <2>5. \A k \in j.upd, s \in {j.sig} : Resigned(k, s)' 
    BY <1>1, <1>3, <1>6, <1>12, StaysResigned DEF Behind, Moves, i
  <2>6. \A row \in j.new :
          row.docx => /\ docx'[row.t][row.n] # NoContent
                      /\ docx'[row.t][row.n] = row.data \/ Key(row) \in contested
    <3> SUFFICES ASSUME NEW row \in j.new
                 PROVE  row.docx => /\ docx'[row.t][row.n] # NoContent
                                    /\ docx'[row.t][row.n] = row.data \/ Key(row) \in contested
      OBVIOUS
    <3>1. row.t # i.t /\ Backed(row) BY <1>1, <1>3, <1>6 DEF Shape, Taking, Behind
    <3>2. docx'[row.t] = docx[row.t] BY <1>1, <3>1
    <3> QED BY <3>1, <3>2 DEF Backed, Matches
  <2>7. Behind(job[r])'
    <3>1. docx'[j.t][j.n] = j.data /\ j.data # NoContent BY <1>4, <1>6, <1>9
    <3>2. ASSUME NEW row \in j.new PROVE Backed(row)'
      <4>1. row.docx => /\ docx'[row.t][row.n] # NoContent
                        /\ docx'[row.t][row.n] = row.data \/ Key(row) \in contested
        BY <2>6
      <4>2. contested' = contested BY <1>1
      <4> QED BY <4>1, <4>2 DEF Backed, Matches, Key
    <3> QED BY <1>8, <2>5, <3>1, <3>2 DEF Behind
  <2>8. Late(job[r])' BY <1>1, <1>3, <1>6, <1>8, <1>13 DEF Late
  <2> QED BY <1>8, <2>1, <2>2, <2>3, <2>4, <2>7, <2>8 DEF Sound
<1>19. Less(job'[r], job[r]) BY <1>1, <1>6, <1>8 DEF Less, Claims, i
<1>20. \A q \in Requests \ {r} : Apart(job[r], job[q])' BY <1>1, <1>8, <1>19, LessApart
<1> QED BY <1>10, <1>12, <1>14, <1>15, <1>17, <1>18, <1>20, StepOf

\* The row is told of its PDF.
LEMMA RenderStep ==
  ASSUME IInv, NEW k \in renders, Render(k)
  PROVE  IInv'
<1> DEFINE New(row) == IF k.row = "stored" /\ Key(row) = <<k.t, k.n>>
                       THEN [row EXCEPT !.pdf = TRUE] ELSE row
<1>1. /\ rows' = {New(row) : row \in rows} /\ renders' = renders \ {k}
      /\ UNCHANGED <<docx, current, linked, material, signed, audit, job, contested, unrendered>>
  BY DEF Render, history
<1>2. \A row \in rows : New(row) \in Rows /\ Becomes(New(row), row, {})
                       /\ (k.row = "stored" /\ Key(row) = <<k.t, k.n>> => New(row).pdf)
  <2> TAKE row \in rows
  <2>1. row \in Rows BY TopFacts DEF IInv
  <2>2. [row EXCEPT !.pdf = TRUE] \in Rows /\ [row EXCEPT !.pdf = TRUE].pdf = TRUE
        /\ Becomes([row EXCEPT !.pdf = TRUE], row, {})
    BY <2>1 DEF Rows, Becomes, Key
  <2>3. Becomes(row, row, {}) BY DEF Becomes
  <2> QED BY <2>1, <2>2, <2>3
<1> HIDE DEF New
<1>3. \A row \in rows : Key(New(row)) = Key(row) BY <1>2 DEF Becomes
<1>4. \A a, b \in rows' : Key(a) = Key(b) => a = b BY <1>1, <1>3 DEF IInv, KeysUnique
<1>5. Follows({}, {})
  <2>1. KeysUnique' BY <1>4 DEF KeysUnique, Key
  <2> QED BY <1>1, <1>2, <2>1 DEF Follows, AreNext
<1>6. TypeOK' BY <1>1, <1>2 DEF IInv, TypeOK
<1>7. Moves("stored", {}, {}) BY <1>1, <1>5 DEF Moves, Touched
<1>8. Tops' = Tops
  <2>1. \A t \in Templates : Tops'[t] = Tops[t] BY <1>5, TopsAfter DEF IInv
  <2>2. Tops = [t \in Templates |-> Tops[t]] /\ Tops' = [t \in Templates |-> Tops'[t]]
    BY DEF Tops
  <2> QED BY <2>1, <2>2
<1>9. NewestIsCurrent' BY <1>1, <1>5, NewestStays
<1>10. LinkedExist' BY <1>1, <1>8 DEF IInv, LinkedExist
<1>11. PreviewComes'
  <2> SUFFICES ASSUME NEW b \in rows, New(b).t = "activity_plan"
               PROVE  \/ New(b).pdf
                      \/ Key(New(b)) \in unrendered
                      \/ \E i \in renders' : i.row = "stored" /\ <<i.t, i.n>> = Key(New(b))
                      \/ \E r \in Requests : job[r].step = "answer" /\ Key(New(b)) \in Held(r)
    BY <1>1 DEF PreviewComes, RowsOf, Key, Held
  <2>1. b \in RowsOf("activity_plan") /\ Key(New(b)) = Key(b) /\ (b.pdf => New(b).pdf)
    BY <1>2 DEF RowsOf, Becomes
  <2>2. k.row = "stored" /\ <<k.t, k.n>> = Key(b) => New(b).pdf BY <1>2
  <2> QED BY <1>1, <2>1, <2>2 DEF IInv, PreviewComes
<1> QED BY <1>6, <1>7, <1>9, <1>10, <1>11, RequestAssumption, StepOf
-----------------------------------------------------------------------------
(* Steps that commit versions.                                              *)

LEMMA NewAreNext ==
  ASSUME IInv, NEW r \in Requests, job[r].step # "answer"
  PROVE  AreNext(job[r].new)
<1>1. Shape(job[r]) /\ NumbersAreNext(job[r]) BY DEF IInv, JobsAreSound, Sound
<1>2. job[r].new \subseteq Rows BY JobTypes DEF IInv
<1> QED BY <1>1, <1>2 DEF Shape, NumbersAreNext, AreNext

\* Rows written with the signature with which request r has rendered them are backed.
LEMMA SealedBacked ==
  ASSUME IInv, NEW r \in Requests, NEW j, AreNext(j.new), rows' = Written(j),
         j.upd \subseteq job[r].upd, j.sig = job[r].sig, contested \subseteq contested',
         Touched(r)
  PROVE  \A a \in rows' : Key(a) \in j.upd => a \in j.new \/ Backed(a)'
<1> SUFFICES ASSUME NEW a \in rows', Key(a) \in j.upd, a \notin j.new PROVE Backed(a)'
  OBVIOUS
<1>1. j.sig \in Images /\ Behind(job[r]) BY JobTypes DEF IInv, JobsAreSound, Sound
<1>2. Follows(j.upd, j.new) /\ Sign(a.data, j.sig) = a.data BY <1>1, WrittenFacts DEF IInv
<1>3. Resigned(Key(a), j.sig) BY <1>1 DEF Behind
<1>4. ASSUME NEW s, s = j.sig, NEW k, k = Key(a) PROVE Resigned(k, s)'
  BY <1>2, <1>3, <1>4, StaysResigned
<1>5. /\ docx'[a.t][a.n] # NoContent
      /\ Key(a) \in contested' \/ docx'[a.t][a.n] = Sign(a.data, j.sig)
  BY <1>4 DEF Resigned, Key
<1> QED BY <1>2, <1>5 DEF Backed, Matches, Key

\* A commit of what request r has inserted and rendered.
LEMMA WrittenMoves ==
  ASSUME IInv, NEW r \in Requests, job[r].step # "answer", rows' = Written(job[r]),
         UNCHANGED <<docx, contested>>, material \subseteq material',
         \A row \in job[r].new : row.t \in material',
         \A q \in Requests \ {r} : job'[q] = job[q]
  PROVE  Moves(r, job[r].upd, job[r].new)
<1>0. job[r].sig \in Images BY JobTypes DEF IInv
<1>1. Follows(job[r].upd, job[r].new) BY <1>0, NewAreNext, WrittenFacts DEF IInv
<1>2. Touched(r) BY DEF Touched
<1>3. \A a \in rows' : Key(a) \in job[r].upd => a \in job[r].new \/ Backed(a)'
  BY <1>0, <1>1, <1>2, NewAreNext, SealedBacked DEF IInv
<1> QED BY <1>1, <1>2, <1>3 DEF Moves

LEMMA SettledFacts ==
  ASSUME TypeOK, NEW r \in Requests, renders' = Settled(r)
  PROVE  renders' \subseteq Renders /\ \A k \in renders : k.row = "stored" => k \in renders'
<1>1. \A k \in renders : [k EXCEPT !.row = "stored"] \in Renders BY DEF TypeOK, Renders
<1>2. renders' \subseteq Renders BY <1>1 DEF Settled, TypeOK
<1>3. \A k \in renders : k.row = "stored" => k \in renders' BY RequestAssumption DEF Settled
<1> QED BY <1>2, <1>3

\* Plans and forms are linked to the versions committed: their numbers are the highest.
LEMMA CommitVersionStep ==
  ASSUME IInv, NEW r \in Requests, CommitVersion(r)
  PROVE  IInv'
<1> DEFINE i == job[r]
           N == i.new
           made(t) == {row \in N : row.t = t}
           newest(t, old) == IF made(t) = {} THEN old ELSE Max({row.n : row \in made(t)})
           j == IF i.now THEN [NoJob EXCEPT !.step = "answer", !.new = N] ELSE NoJob
<1>1. /\ i.step = "next" /\ i.todo = <<>> /\ rows' = Written(i)
      /\ current' = [t \in Plans |-> newest(t, current[t])]
      /\ linked' = [t \in Templates |-> newest(t, linked[t])]
      /\ Do(r, j) /\ renders' = Settled(r)
      /\ UNCHANGED <<docx, material, signed, audit, contested, unrendered>>
  BY DEF CommitVersion, history
<1>2. N \in SUBSET Rows /\ Shape(i) /\ Filed(i)
  BY JobTypes DEF IInv, JobsAreSound, Sound
<1>3. i.upd = {} /\ (\A row \in N : row.t = "activity_plan" => i.now)
      /\ \A row \in N : row.t \in material
  BY <1>1, <1>2 DEF Shape, Filed, Making
<1>4. AreNext(N) BY <1>1, NewAreNext
<1>5. rows' = Written(job[r]) /\ job[r].step # "answer" /\ job[r].new = N /\ job[r].upd = {}
      /\ i.new = N
  BY <1>1, <1>3
<1> HIDE DEF i, N
<1>6. j \in Jobs /\ j.upd = {} /\ j.marks = {} /\ j.link = NoLinks /\ j.seen = 0 /\ j.n = 0
      /\ \/ i.now /\ j.step = "answer" /\ j.new = N
         \/ ~i.now /\ j.step = "idle" /\ j.new = {}
  BY <1>2, NoJobFacts DEF Jobs, Steps
<1>7. job' = [job EXCEPT ![r] = j] BY <1>1 DEF Do
<1> HIDE DEF j
<1>8. /\ job' \in [Requests -> Jobs] /\ job'[r] = j
      /\ \A q \in Requests \ {r} : job'[q] = job[q]
  BY <1>6, <1>7, JobAfter DEF IInv
<1>9. Moves(r, {}, N) /\ Follows({}, N)
  <2>1. Moves(r, job[r].upd, job[r].new) BY <1>1, <1>3, <1>5, <1>8, WrittenMoves
  <2> QED BY <1>5, <2>1 DEF Moves
<1>10. /\ Counted' /\ Tops' \in [Templates -> 0..MaxVersion]
       /\ \A t \in Templates :
            /\ (\E row \in N : row.t = t) => Tops'[t] = Tops[t] + 1
            /\ ~(\E row \in N : row.t = t) => Tops'[t] = Tops[t]
  BY <1>9, TopsAfter DEF IInv, Counted
<1>11. ASSUME NEW t \in Templates, NEW old
       PROVE  newest(t, old) = IF \E row \in N : row.t = t THEN Tops'[t] ELSE old
  <2>1. CASE \E row \in N : row.t = t
    <3>1. PICK row \in N : row.t = t BY <2>1
    <3>2. \A a \in made(t) : a.n = Tops'[t] BY <1>4, <1>10 DEF AreNext
    <3>3. row \in made(t) BY <3>1
    <3> DEFINE S == {a.n : a \in made(t)}
    <3>4. S = {Tops'[t]} BY <3>2, <3>3
    <3>5. newest(t, old) = Max(S) BY <3>3
    <3> HIDE DEF S, made, newest
    <3>6. Tops'[t] \in Int BY <1>10, BoundAssumption
    <3>7. Tops'[t] \in S /\ S \subseteq Int /\ \A x \in S : Tops'[t] >= x BY <3>4, <3>6
    <3>8. Max(S) = Tops'[t] BY <3>7, MaxOf
    <3> QED BY <2>1, <3>5, <3>8
  <2>2. CASE ~\E row \in N : row.t = t
    <3>1. made(t) = {} BY <2>2
    <3> QED BY <2>2, <3>1
  <2> QED BY <2>1, <2>2
<1> HIDE DEF made, newest
<1>12. \A t \in Plans : t \in Templates BY DEF Plans, Templates
<1>13. /\ \A t \in Plans : current'[t] = newest(t, current[t])
       /\ \A t \in Templates : linked'[t] = newest(t, linked[t])
  BY <1>1
<1>14. NewestIsCurrent'
  <2>1. \A t \in Plans : current[t] = Tops[t] BY NewestFacts DEF IInv
  <2>2. linked["risk_assessment"] = Tops["risk_assessment"] /\ "risk_assessment" \in Templates
    BY NewestFacts DEF IInv, Templates
  <2>3. \A t \in Plans : current'[t] = Tops'[t] BY <1>10, <1>11, <1>12, <1>13, <2>1
  <2>4. linked'["risk_assessment"] = Tops'["risk_assessment"] BY <1>10, <1>11, <1>13, <2>2
  <2> QED BY <2>3, <2>4, NewestFacts
<1>15. LinkedExist'
  <2>1. ASSUME NEW t \in Templates PROVE linked'[t] <= Tops'[t]
    <3>1. CASE \E row \in N : row.t = t BY <1>10, <1>11, <1>13, <3>1, BoundAssumption
    <3>2. CASE ~\E row \in N : row.t = t
      BY <1>10, <1>11, <1>13, <3>2 DEF IInv, LinkedExist
    <3> QED BY <3>1, <3>2
  <2> QED BY <2>1 DEF LinkedExist
<1>16. TypeOK'
  <2>1. \A t \in Plans : newest(t, current[t]) \in 0..MaxVersion
    <3> TAKE t \in Plans
    <3>1. current[t] \in 0..MaxVersion /\ t \in Templates BY <1>12 DEF IInv, TypeOK
    <3> QED BY <1>10, <1>11, <3>1
  <2>2. \A t \in Templates : newest(t, linked[t]) \in 0..MaxVersion
    BY <1>10, <1>11 DEF IInv, TypeOK
  <2>3. current' \in [Plans -> 0..MaxVersion] /\ linked' \in [Templates -> 0..MaxVersion]
    BY <1>1, <2>1, <2>2
  <2>4. rows' \subseteq Rows BY <1>9 DEF Follows
  <2>5. renders' \subseteq Renders BY <1>1, SettledFacts DEF IInv
  <2> QED BY <1>1, <1>8, <2>3, <2>4, <2>5 DEF IInv, TypeOK
<1>17. PreviewComes'
  <2>1. \A row \in N : row.t = "activity_plan" =>
          \E q \in Requests : job'[q].step = "answer" /\ row \in job'[q].new
    BY <1>3, <1>6, <1>8
  <2>2. \A q \in Requests : job[q].step = "answer" => job'[q] = job[q] BY <1>5, <1>8
  <2>3. \A k \in renders : k.row = "stored" => k \in renders' BY <1>1, SettledFacts DEF IInv
  <2> QED BY <1>1, <1>9, <2>1, <2>2, <2>3, PreviewStays
<1>18. Sound(job[r])'
  <2>1. Shape(j) BY <1>2, <1>5, <1>6 DEF Shape, Making, Taking
  <2>2. Filed(job[r])' BY <1>6, <1>8 DEF Filed, Making, Taking
  <2>3. NumbersAreNext(job[r])' /\ Behind(job[r])' /\ Late(job[r])'
    BY <1>6, <1>8 DEF NumbersAreNext, Behind, Late
  <2>4. LinksExist(job[r])'
    BY <1>6, <1>8, <1>10, BoundAssumption DEF LinksExist, NoLinks, Templates
  <2> QED BY <1>8, <2>1, <2>2, <2>3, <2>4 DEF Sound
<1>19. Less(job'[r], job[r]) BY <1>6, <1>8 DEF Less, Claims
<1>20. \A q \in Requests \ {r} : Apart(job[r], job[q])' BY <1>1, <1>8, <1>19, LessApart
<1> QED BY <1>9, <1>14, <1>15, <1>16, <1>17, <1>18, <1>20, StepOf
-----------------------------------------------------------------------------
(* The signatures.                                                          *)

\* The rows without a document get one, with the signature.
LEMMA RenderedFacts ==
  ASSUME IInv, NEW r \in Requests, NEW t \in Templates, NEW s \in Images, Rendered(r, t, s),
         job[r].upd = {} \/ job[r].sig = s
  PROVE  /\ docx' \in [Templates -> [Numbers -> Contents \cup {NoContent}]]
         /\ Touched(r) /\ contested \subseteq contested'
         /\ \A row \in Blank(t) :
              docx'[t][row.n] = Sign(row.data, s) /\ docx'[t][row.n] # NoContent
<1> DEFINE New(n) == IF \E row \in Blank(t) : row.n = n
                     THEN [Row(t, n).data EXCEPT !.sig = s] ELSE docx[t][n]
           D == [n \in Numbers |-> New(n)]
<1>1. docx \in [Templates -> [Numbers -> Contents \cup {NoContent}]] BY DEF IInv, TypeOK
<1>2. docx' = [docx EXCEPT ![t] = D] /\ contested' = contested \cup Disputed(r, t, s)
  BY DEF Rendered
<1>3. \A row \in Blank(t) : /\ row \in rows /\ row.t = t /\ row.n \in Numbers /\ ~row.docx
                           /\ Row(t, row.n) = row /\ row.data \in Contents
                           /\ Sign(row.data, s) \in Contents /\ Sign(row.data, s) # NoContent
                           /\ Key(row) = <<t, row.n>>
  <2> TAKE row \in Blank(t)
  <2>1. row \in rows /\ row.t = t /\ ~row.docx BY DEF Blank, RowsOf
  <2>2. row.n \in Numbers /\ row.data \in Contents BY <2>1, TopFacts DEF IInv, Rows
  <2>3. Row(t, row.n) = row BY <2>1, RowFacts DEF IInv
  <2>4. Sign(row.data, s) \in Contents /\ Sign(row.data, s) # NoContent BY <2>2, ContentFacts
  <2> QED BY <2>1, <2>2, <2>3, <2>4 DEF Key
<1>4. \A row \in Blank(t) : New(row.n) = Sign(row.data, s) BY <1>3 DEF Sign
<1>5. \A n \in Numbers : \/ New(n) = docx[t][n]
                        \/ \E row \in Blank(t) : row.n = n /\ New(n) = Sign(row.data, s)
  BY <1>4
<1> HIDE DEF New
<1>6. \A n \in Numbers : New(n) \in Contents \cup {NoContent} BY <1>1, <1>3, <1>5
<1>7. D \in [Numbers -> Contents \cup {NoContent}] /\ \A n \in Numbers : D[n] = New(n) BY <1>6
<1> HIDE DEF D
<1>8. docx' \in [Templates -> [Numbers -> Contents \cup {NoContent}]] BY <1>1, <1>2, <1>7
<1>9. docx'[t] = D /\ \A x \in Templates : x # t => docx'[x] = docx[x] BY <1>1, <1>2
<1>10. \A row \in Blank(t), q \in Requests :
         Key(row) \in job[q].upd => job[q].sig = s \/ Key(row) \in contested'
  BY <1>2 DEF Disputed
<1>11. ASSUME NEW x \in Templates, NEW n \in Numbers
       PROVE  \/ docx'[x][n] = docx[x][n]
              \/ \E row \in rows, z \in Images :
                   /\ Key(row) = <<x, n>> /\ ~row.docx /\ docx'[x][n] = Sign(row.data, z)
                   /\ \A q \in Requests :
                        <<x, n>> \in job[q].upd => job[q].sig = z \/ <<x, n>> \in contested'
  <2>1. CASE x # t BY <1>9, <2>1
  <2>2. CASE x = t
    <3>1. CASE New(n) = docx[t][n] BY <1>7, <1>9, <2>2, <3>1
    <3>2. CASE \E row \in Blank(t) : row.n = n /\ New(n) = Sign(row.data, s)
      <4>1. PICK row \in Blank(t) : row.n = n /\ New(n) = Sign(row.data, s) BY <3>2
      <4>2. row \in rows /\ Key(row) = <<x, n>> /\ ~row.docx BY <1>3, <2>2, <4>1
      <4>3. docx'[x][n] = Sign(row.data, s) BY <1>7, <1>9, <2>2, <4>1
      <4> QED BY <1>10, <4>1, <4>2, <4>3
    <3> QED BY <1>5, <3>1, <3>2
  <2> QED BY <2>1, <2>2
<1>12. Touched(r) BY <1>11 DEF Touched
<1>13. \A row \in Blank(t) :
         docx'[t][row.n] = Sign(row.data, s) /\ docx'[t][row.n] # NoContent
  BY <1>3, <1>4, <1>7, <1>9
<1> QED BY <1>2, <1>8, <1>12, <1>13

\* So rows rendered for signature are: their documents are those of the rows, signed.
LEMMA RenderedResigned ==
  ASSUME IInv, NEW r \in Requests, NEW t \in Templates, NEW s \in Images, Rendered(r, t, s),
         job[r].upd = {} \/ job[r].sig = s, UNCHANGED rows, NEW row \in Blank(t),
         NEW k, k = Key(row)
  PROVE  Resigned(k, s)' /\ k \in Templates \X Numbers /\ row.n \in 1..Tops[t]
<1>1. row \in rows /\ row.t = t BY DEF Blank, RowsOf
<1>2. row.n \in Numbers /\ row.n \in 1..Tops[t] /\ k = <<t, row.n>> /\ k \in Keys
  BY <1>1, TopFacts DEF IInv, Key
<1>3. docx'[t][row.n] = Sign(row.data, s) /\ docx'[t][row.n] # NoContent BY RenderedFacts
<1>4. \A a \in rows : Key(a) = k => a = row BY <1>1 DEF IInv, KeysUnique
<1>5. Keys' = Keys BY DEF Keys, Key
<1> QED BY <1>2, <1>3, <1>4, <1>5 DEF Resigned, Key

\* The numbers rendered when t is signed.
Renewed(t) == IF t = "activity_plan" THEN {} ELSE {Key(row) : row \in Blank(t)}

\* The job after a signature.
LEMMA SignedTooFacts ==
  ASSUME IInv, NEW r \in Requests, job[r].step = "sign", job[r].todo # <<>>,
         NEW t, t = Head(job[r].todo)
  PROVE  LET i == job[r]
             j == SignedToo(r, t)
         IN  /\ t \in Templates /\ j \in Jobs /\ j.step = "sign" /\ j.new = {} /\ i.new = {}
             /\ j.seen = i.seen /\ j.marks = i.marks \cup {t}
             /\ j.upd = i.upd \cup Renewed(t) /\ j.sig = i.sig
             /\ \A x \in Templates : x # t => j.link[x] = i.link[x]
             /\ j.link[t] \in 0..MaxVersion /\ j.link[t] <= Tops[t]
             /\ t = "risk_assessment" => j.link[t] = 0
             /\ j.link["risk_assessment"] = 0
<1> DEFINE i == job[r]
           version == CASE t = "security_plan" -> i.seen
                        [] t = "activity_plan" -> current[t]
                        [] OTHER               -> 0
           v == IF version = linked[t] THEN 0 ELSE version
           todo == Tail(i.todo)
           marks == i.marks \cup {t}
           upd == i.upd \cup Renewed(t)
           link == [i.link EXCEPT ![t] = v]
           j == [i EXCEPT !.todo = todo, !.marks = marks, !.upd = upd, !.link = link]
<1>1. /\ i \in Jobs /\ Shape(i) /\ LinksExist(i) /\ i.seen \in 0..MaxVersion
      /\ i.todo \in Seq(Templates) /\ Len(i.todo) <= 3 /\ i.upd \in SUBSET (Templates \X Numbers)
      /\ i.marks \in SUBSET Templates /\ i.link \in [Templates -> 0..MaxVersion]
  BY JobTypes DEF IInv, JobsAreSound, Sound
<1>2. todo \in {s \in Seq(Templates) : Len(s) <= 3} /\ t \in Templates BY <1>1, TailFacts
<1>3. i.new = {} /\ i.link["risk_assessment"] = 0 BY <1>1 DEF Shape
<1>4. v \in 0..MaxVersion /\ v <= Tops[t] /\ (t = "risk_assessment" => v = 0)
  <2>0. Tops[t] \in Nat /\ 0 \in 0..MaxVersion BY <1>2, TopFacts, BoundAssumption DEF IInv
  <2>1. CASE t = "security_plan"
    <3>1. version = i.seen BY <2>1
    <3>2. version \in 0..MaxVersion /\ version <= Tops[t] BY <1>1, <2>1, <3>1 DEF LinksExist
    <3> HIDE DEF version
    <3> QED BY <2>0, <2>1, <3>2
  <2>2. CASE t = "activity_plan"
    <3>1. version = current[t] BY <2>2
    <3>2. t \in Plans BY <2>2 DEF Plans
    <3>3. version \in 0..MaxVersion /\ version = Tops[t]
      BY <3>1, <3>2, NewestFacts DEF IInv, TypeOK
    <3> HIDE DEF version
    <3> QED BY <2>0, <2>2, <3>3
  <2>3. CASE t # "security_plan" /\ t # "activity_plan"
    <3>1. version = 0 BY <2>3
    <3> HIDE DEF version
    <3> QED BY <2>0, <3>1
  <2> QED BY <2>1, <2>2, <2>3
<1>5. Renewed(t) \subseteq Templates \X Numbers
  BY TopFacts DEF IInv, Blank, RowsOf, Key, Renewed
<1>6. SignedToo(r, t) = j BY <1>1 DEF SignedToo, Jobs, Renewed
<1>7. marks \in SUBSET Templates /\ upd \in SUBSET (Templates \X Numbers) BY <1>1, <1>2, <1>5
<1>8. /\ link \in [Templates -> 0..MaxVersion] /\ link[t] = v
      /\ \A x \in Templates : x # t => link[x] = i.link[x]
  BY <1>1, <1>2, <1>4
<1> HIDE DEF i, v, todo, marks, upd, link
<1>9. /\ j \in Jobs /\ j.step = i.step /\ j.new = i.new /\ j.seen = i.seen /\ j.marks = marks
      /\ j.upd = upd /\ j.sig = i.sig /\ j.link = link
  BY <1>1, <1>2, <1>7, <1>8 DEF Jobs
<1> HIDE DEF j
<1>10. j.step = "sign" BY <1>9 DEF i
<1>11. j.link["risk_assessment"] = 0 BY <1>3, <1>4, <1>8, <1>9 DEF Templates
<1> QED BY <1>2, <1>3, <1>4, <1>6, <1>8, <1>9, <1>10, <1>11 DEF i, marks, upd

LEMMA RenewFacts ==
  ASSUME IInv, NEW r \in Requests, NEW t \in Templates, Renew(r, t), UNCHANGED rows
  PROVE  /\ docx' \in [Templates -> [Numbers -> Contents \cup {NoContent}]]
         /\ Touched(r) /\ contested \subseteq contested'
         /\ \A k \in Renewed(t), s \in {job[r].sig} : Resigned(k, s)'
<1>1. CASE t = "activity_plan" BY <1>1 DEF Renew, Renewed, IInv, TypeOK, Touched
<1>2. CASE t # "activity_plan"
  <2>1. job[r].sig \in Images /\ Rendered(r, t, job[r].sig) BY <1>2, JobTypes DEF Renew, IInv
  <2>2. ASSUME NEW k \in Renewed(t), NEW s, s = job[r].sig PROVE Resigned(k, s)'
    <3>1. PICK row \in Blank(t) : k = Key(row) BY <1>2 DEF Renewed
    <3> QED BY <2>1, <2>2, <3>1, RenderedResigned
  <2>3. \A k \in Renewed(t), s \in {job[r].sig} : Resigned(k, s)' BY <2>2
  <2> QED BY <2>1, <2>3, RenderedFacts
<1> QED BY <1>1, <1>2

LEMMA SignDocumentStep ==
  ASSUME IInv, NEW r \in Requests, SignDocument(r)
  PROVE  IInv'
<1> DEFINE i == job[r]
           t == Head(i.todo)
           j == SignedToo(r, t)
<1>1. /\ i.step = "sign" /\ i.todo # <<>> /\ t \in material /\ Renew(r, t) /\ Do(r, j)
      /\ UNCHANGED <<rows, current, linked, material, signed, audit, renders, unrendered>>
  BY DEF SignDocument, stored
<1>2. /\ t \in Templates /\ j \in Jobs /\ j.step = "sign" /\ j.new = {}
      /\ j.seen = i.seen /\ j.marks = i.marks \cup {t}
      /\ j.upd = i.upd \cup Renewed(t) /\ j.sig = i.sig
      /\ \A x \in Templates : x # t => j.link[x] = i.link[x]
      /\ j.link[t] <= Tops[t] /\ j.link["risk_assessment"] = 0 /\ i.new = {}
  <2>1. job[r].step = "sign" /\ job[r].todo # <<>> /\ t = Head(job[r].todo) BY <1>1
  <2> HIDE DEF t
  <2> QED BY <2>1, SignedTooFacts
<1>3. Filed(i) /\ LinksExist(i) /\ Behind(i) BY DEF IInv, JobsAreSound, Sound
<1>4. job' = [job EXCEPT ![r] = j] BY <1>1 DEF Do
<1>5. /\ docx' \in [Templates -> [Numbers -> Contents \cup {NoContent}]] /\ Touched(r)
      /\ contested \subseteq contested'
      /\ \A k \in Renewed(t), s \in {i.sig} : Resigned(k, s)'
  BY <1>1, <1>2, RenewFacts
<1> HIDE DEF t, j
<1>6. /\ job' \in [Requests -> Jobs] /\ job'[r] = j
      /\ \A q \in Requests \ {r} : job'[q] = job[q]
  BY <1>2, <1>4, JobAfter DEF IInv
<1>7. Follows({}, {}) BY <1>1, UnwrittenFacts DEF IInv
<1>8. Moves(r, {}, {}) BY <1>1, <1>5, <1>6, <1>7 DEF Moves
<1>9. TypeOK' BY <1>1, <1>5, <1>6 DEF IInv, TypeOK
<1>10. Tops' = Tops BY <1>1 DEF Tops, RowsOf
<1>11. NewestIsCurrent' BY <1>1, <1>7, NewestStays
<1>12. LinkedExist' BY <1>1, <1>10 DEF IInv, LinkedExist
<1>13. PreviewComes'
  <2>1. \A q \in Requests : job[q].step = "answer" => job'[q] = job[q] BY <1>1, <1>6
  <2> QED BY <1>1, <1>7, <2>1, PreviewStays
<1>14. Sound(job[r])'
  <2>1. Shape(j) BY <1>2 DEF Shape, Making, Taking
  <2>2. Filed(job[r])' BY <1>1, <1>2, <1>3, <1>6 DEF Filed, Making, Taking
  <2>3. LinksExist(job[r])' BY <1>2, <1>3, <1>6, <1>10 DEF LinksExist
  <2>4. ASSUME NEW k \in j.upd, NEW s, s = j.sig PROVE Resigned(k, s)'
    <3>1. CASE k \in i.upd
      <4>1. Resigned(k, s) /\ s = job[r].sig /\ k \in job[r].upd
        BY <1>2, <1>3, <2>4, <3>1 DEF Behind
      <4> QED BY <1>5, <1>7, <4>1, StaysResigned
    <3>2. CASE k \notin i.upd BY <1>2, <1>5, <2>4, <3>2
    <3> QED BY <3>1, <3>2
  <2>5. NumbersAreNext(job[r])' /\ Behind(job[r])' /\ Late(job[r])'
    BY <1>2, <1>6, <2>4 DEF NumbersAreNext, Behind, Late
  <2> QED BY <1>6, <2>1, <2>2, <2>3, <2>5 DEF Sound
<1>15. Less(job'[r], job[r]) BY <1>2, <1>6 DEF Less, Claims
<1>16. \A q \in Requests \ {r} : Apart(job[r], job[q])' BY <1>5, <1>6, <1>15, LessApart
<1> QED BY <1>8, <1>9, <1>11, <1>12, <1>13, <1>14, <1>16, StepOf

\* The links written with the signatures lead to versions.
LEMMA SealedFacts ==
  ASSUME IInv, NEW u, NEW N, Follows(u, N), \A row \in N : row.t = "filing_commitment",
         NEW l \in [Templates -> 0..MaxVersion],
         linked' = [t \in Templates |-> IF l[t] # 0 THEN l[t] ELSE linked[t]],
         l["risk_assessment"] = 0,
         \A t \in Templates : l[t] <= Tops[t] \/ \E row \in N : row.t = t /\ row.n = l[t],
         UNCHANGED current
  PROVE  NewestIsCurrent' /\ LinkedExist' /\ linked' \in [Templates -> 0..MaxVersion]
<1>1. linked \in [Templates -> 0..MaxVersion] BY DEF IInv, TypeOK
<1>2. linked' \in [Templates -> 0..MaxVersion] BY <1>1
<1>3. linked'["risk_assessment"] = linked["risk_assessment"] BY DEF Templates
<1>4. NewestIsCurrent' BY <1>3, NewestStays
<1>5. ASSUME NEW t \in Templates PROVE linked'[t] <= Tops'[t]
  <2>1. /\ Tops[t] \in Nat /\ Tops'[t] \in Nat /\ Tops'[t] >= Tops[t]
        /\ (\E row \in N : row.t = t) => Tops'[t] = Tops[t] + 1
    BY TopFacts, TopsAfter DEF IInv
  <2>2. linked[t] <= Tops[t] BY DEF IInv, LinkedExist
  <2>3. l[t] <= Tops'[t]
    <3>1. CASE l[t] <= Tops[t] BY <2>1, <3>1, BoundAssumption
    <3>2. CASE \E row \in N : row.t = t /\ row.n = l[t]
      <4>1. PICK row \in N : row.t = t /\ row.n = l[t] BY <3>2
      <4>2. row.n = Tops[t] + 1 BY <4>1 DEF Follows, AreNext
      <4> QED BY <2>1, <4>1, <4>2
    <3> QED BY <3>1, <3>2
  <2>4. linked'[t] \in {l[t], linked[t]} BY DEF Templates
  <2> QED BY <1>1, <2>1, <2>2, <2>3, <2>4, BoundAssumption
<1> QED BY <1>2, <1>4, <1>5 DEF LinkedExist

\* A commit of all that is signed, and of a commitment just made.
LEMMA SealStep ==
  ASSUME IInv, NEW r \in Requests, job[r].step \in {"sign", "commitment"},
         Sealed(job[r]), Do(r, NoJob), UNCHANGED <<docx, material, current, contested, unrendered>>,
         audit' \in {"drafting", "toSign", "signed"}, renders' \subseteq Renders,
         \A k \in renders : k.row = "stored" => k \in renders'
  PROVE  IInv'
<1> DEFINE i == job[r]
<1>1. /\ Shape(i) /\ Filed(i) /\ LinksExist(i) /\ i.new \in SUBSET Rows
      /\ i.link \in [Templates -> 0..MaxVersion] /\ i.marks \in SUBSET Templates
  BY JobTypes DEF IInv, JobsAreSound, Sound
<1>2. /\ \A row \in i.new : row.t = "filing_commitment" /\ row.t \in material
      /\ i.link["risk_assessment"] = 0
  BY <1>1 DEF Shape, Filed
<1>3. job' = [job EXCEPT ![r] = NoJob] BY DEF Do
<1>4. /\ job' \in [Requests -> Jobs] /\ job'[r] = NoJob
      /\ \A q \in Requests \ {r} : job'[q] = job[q]
  BY <1>3, NoJobFacts, JobAfter DEF IInv
<1>5. /\ rows' = Written(i) /\ signed' = signed \cup i.marks
      /\ linked' = [t \in Templates |-> IF i.link[t] # 0 THEN i.link[t] ELSE linked[t]]
  BY DEF Sealed
<1>6. Moves(r, i.upd, i.new) /\ Follows(i.upd, i.new)
  <2>1. Moves(r, i.upd, i.new) BY <1>2, <1>4, <1>5, WrittenMoves
  <2> QED BY <2>1 DEF Moves
<1>7. \A t \in Templates : i.link[t] <= Tops[t] \/ \E row \in i.new : row.t = t /\ row.n = i.link[t]
  BY <1>1 DEF LinksExist
<1>8. signed' \subseteq material BY <1>1, <1>5 DEF Filed, IInv, TypeOK
<1> HIDE DEF i
<1>9. NewestIsCurrent' /\ LinkedExist' /\ linked' \in [Templates -> 0..MaxVersion]
  BY <1>1, <1>2, <1>5, <1>6, <1>7, SealedFacts
<1>10. TypeOK' BY <1>4, <1>6, <1>8, <1>9 DEF IInv, TypeOK, Follows
<1>11. Counted' BY <1>6, TopsAfter DEF IInv
<1>12. PreviewComes'
  <2>1. \A q \in Requests : job[q].step = "answer" => job'[q] = job[q] BY <1>4
  <2>2. \A row \in i.new : row.t # "activity_plan" BY <1>2
  <2> QED BY <1>6, <2>1, <2>2, PreviewStays
<1>13. Sound(job[r])' /\ Less(job'[r], job[r]) BY <1>4, <1>11, IdleSound
<1>14. \A q \in Requests \ {r} : Apart(job[r], job[q])' BY <1>4, <1>13, LessApart
<1> QED BY <1>6, <1>9, <1>10, <1>12, <1>13, <1>14, StepOf

LEMMA CommitSignatureStep ==
  ASSUME IInv, NEW r \in Requests, CommitSignature(r)
  PROVE  IInv'
<1>1. /\ job[r].step = "sign" /\ Sealed(job[r]) /\ audit' = "signed" /\ Do(r, NoJob)
      /\ UNCHANGED <<current, material, docx, renders, contested, unrendered>>
  BY DEF CommitSignature, history
<1> QED BY <1>1, SealStep DEF IInv, TypeOK

LEMMA CommitCommitmentStep ==
  ASSUME IInv, NEW r \in Requests, CommitCommitment(r)
  PROVE  IInv'
<1>1. /\ job[r].step = "commitment" /\ Sealed(job[r]) /\ renders' = Settled(r) /\ Do(r, NoJob)
      /\ UNCHANGED <<current, material, audit, docx, contested, unrendered>>
  BY DEF CommitCommitment, history
<1>2. audit' \in {"drafting", "toSign", "signed"} BY <1>1 DEF IInv, TypeOK
<1>3. renders' \subseteq Renders /\ \A k \in renders : k.row = "stored" => k \in renders'
  BY <1>1, SettledFacts DEF IInv
<1> QED BY <1>1, <1>2, <1>3, SealStep

\* A template without a material has no rows; the rest is committed.
LEMMA SignDocumentOfNewMaterialStep ==
  ASSUME IInv, NEW r \in Requests, SignDocumentOfNewMaterial(r)
  PROVE  IInv'
<1> DEFINE i == job[r]
           t == Head(i.todo)
           after == SignedToo(r, t)
           made == [after EXCEPT !.marks = i.marks, !.link[t] = 0]
           none == {}
           l == [NoLinks EXCEPT ![t] = after.link[t]]
           j == [after EXCEPT !.upd = none, !.marks = {t}, !.link = l]
<1>1. /\ i.step = "sign" /\ i.todo # <<>> /\ t \notin material /\ material' = material \cup {t}
      /\ Renew(r, t) /\ Sealed(made) /\ Do(r, j)
      /\ UNCHANGED <<current, audit, renders, unrendered>>
  <2>1. NoJob.link = NoLinks BY NoJobFacts
  <2> QED BY <2>1 DEF SignDocumentOfNewMaterial
<1>2. /\ t \in Templates /\ after \in Jobs /\ after.step = "sign" /\ after.new = {}
      /\ after.seen = i.seen
      /\ after.upd = i.upd \cup Renewed(t) /\ after.sig = i.sig
      /\ \A x \in Templates : x # t => after.link[x] = i.link[x]
      /\ after.link[t] \in 0..MaxVersion /\ after.link[t] <= Tops[t]
      /\ (t = "risk_assessment" => after.link[t] = 0) /\ i.new = {}
  <2>1. job[r].step = "sign" /\ job[r].todo # <<>> /\ t = Head(job[r].todo) BY <1>1
  <2> HIDE DEF t
  <2>2. after.link[t] \in 0..MaxVersion BY <2>1, SignedTooFacts
  <2>3. t = "risk_assessment" => after.link[t] = 0 BY <2>1, SignedTooFacts
  <2>4. t \in Templates /\ after \in Jobs /\ after.step = "sign" /\ after.seen = i.seen
    BY <2>1, SignedTooFacts
  <2>5. after.new = {} /\ i.new = {}
    BY <2>1, SignedTooFacts
  <2>6. after.upd = i.upd \cup Renewed(t) /\ after.sig = i.sig
    BY <2>1, SignedTooFacts
  <2>7. \A x \in Templates : x # t => after.link[x] = i.link[x]
    BY <2>1, SignedTooFacts
  <2>8. after.link[t] <= Tops[t]
    BY <2>1, SignedTooFacts
  <2> QED BY <2>2, <2>3, <2>4, <2>5, <2>6, <2>7, <2>8
<1>3. /\ Shape(i) /\ Filed(i) /\ LinksExist(i) /\ Behind(i) /\ i.marks \in SUBSET Templates
      /\ i.link \in [Templates -> 0..MaxVersion] /\ i.upd \in SUBSET (Templates \X Numbers)
      /\ i.seen \in 0..MaxVersion
  BY JobTypes DEF IInv, JobsAreSound, Sound
<1>4. Blank(t) = {} BY <1>1 DEF IInv, RowsHaveMaterial, Blank, RowsOf
<1>5. Renewed(t) = {} BY <1>4 DEF Renewed
<1> HIDE DEF t, after, none, i
<1>6. after.upd = i.upd /\ after.link \in [Templates -> 0..MaxVersion] /\ none \in SUBSET (Templates \X Numbers)
  BY <1>2, <1>5 DEF Jobs, none
<1>7. /\ made.upd = i.upd /\ made.sig = i.sig /\ made.new = {} /\ made.marks = i.marks
      /\ made.link = [after.link EXCEPT ![t] = 0]
  BY <1>2, <1>6 DEF Jobs
<1> HIDE DEF made
<1>8. /\ made.link \in [Templates -> 0..MaxVersion] /\ made.link["risk_assessment"] = 0
      /\ \A x \in Templates : made.link[x] \in {0, i.link[x]}
  <2>1. 0 \in 0..MaxVersion BY BoundAssumption
  <2>2. i.link["risk_assessment"] = 0 BY <1>1, <1>3 DEF Shape
  <2>3. "risk_assessment" \in Templates BY DEF Templates
  <2> QED BY <1>2, <1>6, <1>7, <2>1, <2>2, <2>3
<1>9. l \in [Templates -> 0..MaxVersion] /\ l[t] = after.link[t]
      /\ \A x \in Templates : x # t => l[x] = 0
  BY <1>2, BoundAssumption DEF NoLinks
<1> HIDE DEF l
<1>10. /\ j \in Jobs /\ j.step = "sign" /\ j.new = {} /\ j.seen = i.seen /\ j.upd = none
       /\ j.marks = {t} /\ j.link = l
  BY <1>2, <1>6, <1>9 DEF Jobs
<1>11. job' = [job EXCEPT ![r] = j] BY <1>1 DEF Do
<1> HIDE DEF j
<1>12. /\ job' \in [Requests -> Jobs] /\ job'[r] = j
       /\ \A q \in Requests \ {r} : job'[q] = job[q]
  BY <1>10, <1>11, JobAfter DEF IInv
<1>13. /\ docx' \in [Templates -> [Numbers -> Contents \cup {NoContent}]] /\ docx' = docx
       /\ contested' = contested
  <2>1. docx \in [Templates -> [Numbers -> Contents \cup {NoContent}]] BY DEF IInv, TypeOK
  <2>2. CASE t = "activity_plan" BY <1>1, <2>1, <2>2 DEF Renew
  <2>3. CASE t # "activity_plan"
    <3>1. docx' = [docx EXCEPT ![t] = [n \in Numbers |-> docx[t][n]]]
      BY <1>1, <1>4, <2>3 DEF Renew, Rendered
    <3>3. contested' = contested BY <1>1, <1>4, <2>3 DEF Renew, Rendered, Disputed
    <3>2. [n \in Numbers |-> docx[t][n]] = docx[t] BY <1>2, <2>1
    <3> QED BY <1>2, <2>1, <3>1, <3>2, <3>3
  <2> QED BY <2>2, <2>3
<1>14. rows' = Written(made) BY <1>1 DEF Sealed
<1>15. AreNext(made.new) BY <1>7 DEF AreNext
<1>16. Follows(i.upd, {})
  <2>0. made.sig \in Images BY <1>7, JobTypes DEF IInv, i
  <2>1. Follows(made.upd, made.new) BY <1>14, <1>15, <2>0, WrittenFacts DEF IInv
  <2> QED BY <2>1, <1>7
<1>17. Touched(r) BY <1>13 DEF Touched
<1>18. \A a \in rows' : Key(a) \in i.upd => Backed(a)'
  BY <1>7, <1>13, <1>14, <1>15, <1>17, SealedBacked DEF i
<1>19. Moves(r, i.upd, {}) BY <1>1, <1>12, <1>13, <1>16, <1>17, <1>18 DEF Moves
<1>20. NewestIsCurrent' /\ LinkedExist' /\ linked' \in [Templates -> 0..MaxVersion]
  <2>1. linked' = [x \in Templates |-> IF made.link[x] # 0 THEN made.link[x] ELSE linked[x]]
    BY <1>1 DEF Sealed
  <2>2. \A x \in Templates : made.link[x] <= Tops[x]
    <3> TAKE x \in Templates
    <3>1. i.link[x] <= Tops[x] BY <1>2, <1>3 DEF LinksExist
    <3>2. 0 <= Tops[x] BY TopFacts DEF IInv
    <3> QED BY <1>8, <3>1, <3>2
  <2> QED BY <1>1, <1>8, <1>16, <2>1, <2>2, SealedFacts
<1>21. TypeOK'
  <2>1. signed' = signed \cup i.marks BY <1>1, <1>7 DEF Sealed
  <2>2. signed' \subseteq material' BY <1>1, <1>3, <2>1 DEF Filed, IInv, TypeOK
  <2>3. rows' \subseteq Rows BY <1>16 DEF Follows
  <2> QED BY <1>1, <1>2, <1>12, <1>13, <1>20, <2>2, <2>3 DEF IInv, TypeOK
<1>22. Counted' /\ \A x \in Templates : Tops'[x] = Tops[x] BY <1>16, TopsAfter DEF IInv
<1>23. PreviewComes'
  <2>1. \A q \in Requests : job[q].step = "answer" => job'[q] = job[q] BY <1>1, <1>12 DEF i
  <2> QED BY <1>1, <1>16, <2>1, PreviewStays
<1>24. Sound(job[r])'
  <2>1. j.link["risk_assessment"] = 0 BY <1>2, <1>9, <1>10 DEF Templates
  <2>2. Shape(j) BY <1>10, <2>1 DEF Shape, Making, Taking
  <2>3. Filed(job[r])' BY <1>1, <1>10, <1>12 DEF Filed, Making, Taking
  <2>4. LinksExist(job[r])'
    <3>1. \A x \in Templates : l[x] <= Tops[x]
      <4> TAKE x \in Templates
      <4>1. 0 <= Tops[x] BY TopFacts DEF IInv
      <4> QED BY <1>2, <1>9, <4>1
    <3>2. i.seen <= Tops["security_plan"] BY <1>3 DEF LinksExist
    <3> QED BY <1>10, <1>12, <1>22, <3>1, <3>2 DEF LinksExist, Templates
  <2>5. NumbersAreNext(job[r])' /\ Behind(job[r])' /\ Late(job[r])'
    BY <1>10, <1>12 DEF NumbersAreNext, Behind, Late, none
  <2> QED BY <1>12, <2>2, <2>3, <2>4, <2>5 DEF Sound
<1>25. Less(job'[r], job[r]) BY <1>10, <1>12 DEF Less, Claims
<1>26. \A q \in Requests \ {r} : Apart(job[r], job[q])' BY <1>12, <1>13, <1>25, LessApart
<1> QED BY <1>19, <1>20, <1>21, <1>23, <1>24, <1>26, StepOf

\* The commitments that are rendered have a material, and are what is linked to.
LEMMA SignCommitmentStep ==
  ASSUME IInv, NEW r \in Requests, SignCommitment(r)
  PROVE  IInv'
<1> DEFINE c == "filing_commitment"
           u == {Key(row) : row \in Blank(c)}
<1>1. PICK last \in Blank(c) :
        Begin(r, [NoJob EXCEPT !.step = "commitment", !.marks = {c}, !.sig = Reused, !.upd = u,
                            !.link[c] = IF linked[c] = last.n THEN 0 ELSE last.n])
  BY DEF SignCommitment
<1>2. /\ Rendered(r, c, Reused)
      /\ UNCHANGED <<rows, current, linked, material, signed, audit, renders, unrendered>>
  BY DEF SignCommitment, stored
<1>3. c \in Templates /\ c # "risk_assessment" BY DEF Templates
<1> HIDE DEF c
<1> DEFINE n == IF linked[c] = last.n THEN 0 ELSE last.n
           l == [NoLinks EXCEPT ![c] = n]
           z == Reused
           j == [NoJob EXCEPT !.step = "commitment", !.marks = {c}, !.sig = z, !.upd = u,
                              !.link = l]
<1>4. job[r].step = "idle" /\ job' = [job EXCEPT ![r] = j]
  BY <1>1, NoJobFacts DEF Begin
<1>5. /\ last \in rows /\ last.t = c /\ last.n \in 1..Tops[c] /\ last.n \in Numbers
      /\ Tops[c] \in 0..MaxVersion /\ c \in material
  BY <1>3, TopFacts DEF IInv, Blank, RowsOf, RowsHaveMaterial
<1>6. n \in 0..MaxVersion /\ n <= Tops[c] BY <1>5, BoundAssumption DEF Numbers
<1>7. u \in SUBSET (Templates \X Numbers) BY TopFacts DEF IInv, Blank, RowsOf, Key
<1>8. /\ z \in Images
      /\ \A k \in u, s \in {z} : Resigned(k, s)'
      /\ docx' \in [Templates -> [Numbers -> Contents \cup {NoContent}]] /\ Touched(r)
      /\ contested \subseteq contested'
  <2>1. z \in Images BY ReusedFacts
  <2>2. Rendered(r, c, z) /\ job[r].upd = {}
    BY <1>2, <1>4 DEF IInv, JobsAreSound, Sound, Shape
  <2> HIDE DEF z
  <2>3. ASSUME NEW k \in u, NEW s, s = z PROVE Resigned(k, s)'
    <3>1. PICK row \in Blank(c) : k = Key(row) OBVIOUS
    <3> QED BY <1>2, <1>3, <2>1, <2>2, <2>3, <3>1, RenderedResigned
  <2>4. \A k \in u, s \in {z} : Resigned(k, s)' BY <2>3
  <2> QED BY <1>3, <2>1, <2>2, <2>4, RenderedFacts
<1> HIDE DEF n, u, z
<1>9. /\ l \in [Templates -> 0..MaxVersion] /\ l[c] = n
      /\ \A x \in Templates : x # c => l[x] = 0
  BY <1>3, <1>6, BoundAssumption DEF NoLinks
<1> HIDE DEF l
<1>10. /\ j \in Jobs /\ j.step = "commitment" /\ j.new = {} /\ j.seen = 0 /\ j.upd = u
       /\ j.sig = z /\ j.marks = {c} /\ j.link = l
  BY <1>3, <1>7, <1>8, <1>9, NoJobFacts DEF Jobs, Steps
<1> HIDE DEF j
<1>11. /\ job' \in [Requests -> Jobs] /\ job'[r] = j
       /\ \A q \in Requests \ {r} : job'[q] = job[q]
  BY <1>4, <1>10, JobAfter DEF IInv
<1>13. Follows({}, {}) BY <1>2, UnwrittenFacts DEF IInv
<1>14. Moves(r, {}, {}) BY <1>2, <1>8, <1>11, <1>13 DEF Moves
<1>15. TypeOK' BY <1>2, <1>8, <1>11 DEF IInv, TypeOK
<1>16. Tops' = Tops BY <1>2 DEF Tops, RowsOf
<1>17. NewestIsCurrent' BY <1>2, <1>13, NewestStays
<1>18. LinkedExist' BY <1>2, <1>16 DEF IInv, LinkedExist
<1>19. PreviewComes'
  <2>1. \A q \in Requests : job[q].step = "answer" => job'[q] = job[q] BY <1>4, <1>11
  <2> QED BY <1>2, <1>13, <2>1, PreviewStays
<1>20. Sound(job[r])'
  <2>1. j.link["risk_assessment"] = 0 BY <1>3, <1>9, <1>10 DEF Templates
  <2>2. Shape(j) BY <1>10, <2>1 DEF Shape, Making, Taking
  <2>3. Filed(job[r])' BY <1>2, <1>5, <1>10, <1>11 DEF Filed, Making, Taking
  <2>4. LinksExist(job[r])'
    <3>1. \A x \in Templates : l[x] <= Tops[x] /\ 0 <= Tops[x]
      <4> TAKE x \in Templates
      <4>1. 0 <= Tops[x] BY TopFacts DEF IInv
      <4> QED BY <1>6, <1>9, <4>1
    <3> QED BY <1>10, <1>11, <1>16, <3>1 DEF LinksExist, Templates
  <2>5. NumbersAreNext(job[r])' /\ Behind(job[r])' /\ Late(job[r])'
    BY <1>8, <1>10, <1>11 DEF NumbersAreNext, Behind, Late
  <2> QED BY <1>11, <2>2, <2>3, <2>4, <2>5 DEF Sound
<1>21. Less(job'[r], job[r]) BY <1>10, <1>11 DEF Less, Claims
<1>22. \A q \in Requests \ {r} : Apart(job[r], job[q])' BY <1>8, <1>11, <1>21, LessApart
<1> QED BY <1>14, <1>15, <1>17, <1>18, <1>19, <1>20, <1>22, StepOf

\* A commitment generated while signing: committed with its material, or kept for the end.
LEMMA LinkCommitmentStep ==
  ASSUME IInv, NEW r \in Requests, LinkCommitment(r)
  PROVE  IInv'
<1> DEFINE c == "filing_commitment"
           i == job[r]
           n == i.n
           isNew == c \notin material
           N == IF isNew THEN i.new ELSE {}
           rest == IF isNew THEN {} ELSE i.new
           l == [NoLinks EXCEPT ![c] = n]
           j == [NoJob EXCEPT !.step = "commitment", !.t = c, !.n = n, !.new = rest,
                              !.marks = {c}, !.link = l]
<1>1. /\ i.step = "link" /\ material' = material \cup {c}
      /\ rows' = (IF isNew THEN Written(i) ELSE rows)
      /\ renders' = (IF isNew THEN Settled(r) ELSE renders)
      /\ UNCHANGED <<current, linked, signed, audit, docx, contested, unrendered>>
  BY DEF LinkCommitment, history
<1>2. Do(r, j) BY NoJobFacts DEF LinkCommitment
<1>3. /\ Shape(i) /\ NumbersAreNext(i) /\ Behind(i) /\ i.new \in SUBSET Rows /\ n \in 0..MaxVersion
  BY JobTypes DEF IInv, JobsAreSound, Sound
<1>4. c \in Templates BY DEF Templates
<1>5. /\ i.upd = {} /\ \A row \in i.new : row.t = c
      /\ \E row \in i.new : row.n = n
  BY <1>1, <1>3 DEF Shape, Making
<1>6. \A row \in i.new : row.n = Tops[c] + 1 BY <1>1, <1>3, <1>5 DEF NumbersAreNext
<1>7. rest \in SUBSET Rows /\ rest \subseteq i.new /\ N \subseteq i.new /\ (rest = {} \/ N = {})
  BY <1>3
<1> HIDE DEF c
<1>8. /\ l \in [Templates -> 0..MaxVersion] /\ l[c] = n
      /\ \A x \in Templates : x # c => l[x] = 0
  BY <1>3, <1>4, BoundAssumption DEF NoLinks
<1> HIDE DEF l, rest
<1>9. /\ j \in Jobs /\ j.step = "commitment" /\ j.new = rest /\ j.seen = 0 /\ j.upd = {}
      /\ j.marks = {c} /\ j.link = l
  BY <1>3, <1>4, <1>7, <1>8, NoJobFacts DEF Jobs, Steps
<1>10. job' = [job EXCEPT ![r] = j] BY <1>2 DEF Do
<1> HIDE DEF j
<1>11. /\ job' \in [Requests -> Jobs] /\ job'[r] = j
       /\ \A q \in Requests \ {r} : job'[q] = job[q]
  BY <1>9, <1>10, JobAfter DEF IInv
<1>12. Moves(r, {}, N) /\ Follows({}, N)
  <2>1. CASE isNew
    <3>1. \A row \in i.new : row.t \in material' BY <1>1, <1>5
    <3>2. Moves(r, i.upd, i.new) BY <1>1, <1>11, <2>1, <3>1, WrittenMoves
    <3>3. i.upd = {} /\ N = i.new BY <1>5, <2>1
    <3> QED BY <3>2, <3>3 DEF Moves
  <2>2. CASE ~isNew
    <3>1. Follows({}, {}) BY <1>1, <2>2, UnwrittenFacts DEF IInv
    <3>2. Touched(r) BY <1>1 DEF Touched
    <3>3. N = {} BY <2>2
    <3>4. Moves(r, {}, {}) BY <1>1, <1>11, <3>1, <3>2 DEF Moves
    <3> QED BY <3>1, <3>3, <3>4
  <2> QED BY <2>1, <2>2
<1>13. renders' \subseteq Renders /\ \A k \in renders : k.row = "stored" => k \in renders'
  BY <1>1, SettledFacts DEF IInv, TypeOK
<1>14. TypeOK' BY <1>1, <1>4, <1>11, <1>12, <1>13 DEF IInv, TypeOK, Follows
<1>15. /\ \A x \in Templates : Tops'[x] \in Nat /\ Tops'[x] >= Tops[x]
       /\ (\E row \in N : row.t = c) => Tops'[c] = Tops[c] + 1
       /\ ~(\E row \in N : row.t = c) => Tops'[c] = Tops[c]
  BY <1>4, <1>12, TopsAfter DEF IInv
<1>16. \A x \in Templates : Tops[x] \in Nat BY TopFacts DEF IInv
<1>17. NewestIsCurrent' BY <1>1, <1>5, <1>7, <1>12, NewestStays DEF c
<1>18. LinkedExist'
  <2>1. ASSUME NEW x \in Templates PROVE linked'[x] <= Tops'[x]
    <3>1. linked[x] <= Tops[x] /\ linked[x] \in 0..MaxVersion BY DEF IInv, LinkedExist, TypeOK
    <3> QED BY <1>1, <1>15, <1>16, <3>1, BoundAssumption
  <2> QED BY <2>1 DEF LinkedExist
<1>19. PreviewComes'
  <2>1. \A q \in Requests : job[q].step = "answer" => job'[q] = job[q] BY <1>1, <1>11
  <2>2. \A row \in N : row.t # "activity_plan" BY <1>5, <1>7 DEF c
  <2> QED BY <1>1, <1>12, <1>13, <2>1, <2>2, PreviewStays
<1>20. Sound(job[r])'
  <2>1. j.link["risk_assessment"] = 0 BY <1>8, <1>9 DEF Templates, c
  <2>2. Shape(j) BY <1>3, <1>5, <1>7, <1>9, <2>1 DEF Shape, Making, Taking, c
  <2>3. Filed(job[r])' BY <1>1, <1>5, <1>7, <1>9, <1>11 DEF Filed, Making, Taking
  <2>4. \A row \in rest : row.n = Tops'[row.t] + 1
    <3>1. CASE rest = {} BY <3>1
    <3>2. CASE N = {} BY <1>5, <1>6, <1>7, <1>15, <3>2
    <3> QED BY <1>7, <3>1, <3>2
  <2>5. NumbersAreNext(job[r])' /\ Late(job[r])'
    BY <1>9, <1>11, <2>4 DEF NumbersAreNext, Late
  <2>6. LinksExist(job[r])'
    <3>1. n <= Tops'[c] \/ \E row \in rest : row.t = c /\ row.n = n
      <4>1. PICK row \in i.new : row.n = n BY <1>5
      <4>2. row.t = c /\ n = Tops[c] + 1 BY <1>5, <1>6, <4>1
      <4>3. CASE isNew
        <5>1. Tops'[c] = Tops[c] + 1 BY <1>15, <4>1, <4>2, <4>3
        <5> QED BY <1>4, <1>16, <4>2, <5>1
      <4>4. CASE ~isNew BY <4>1, <4>2, <4>4 DEF rest
      <4> QED BY <4>3, <4>4
    <3>2. \A x \in Templates : x # c => l[x] <= Tops'[x] BY <1>8, <1>15
    <3>3. 0 <= Tops'["security_plan"] BY <1>15 DEF Templates
    <3>4. \A x \in Templates : l[x] <= Tops'[x] \/ \E row \in rest : row.t = x /\ row.n = l[x]
      BY <1>8, <3>1, <3>2
    <3> QED BY <1>9, <1>11, <3>3, <3>4 DEF LinksExist
  <2>7. Behind(job[r])'
    <3>1. ASSUME NEW row \in rest PROVE Backed(row)'
      <4>1. Backed(row) BY <1>1, <1>3, <1>7, <3>1 DEF Behind
      <4> QED BY <1>1, <4>1 DEF Backed, Matches, Key
    <3> QED BY <1>9, <1>11, <3>1 DEF Behind
  <2> QED BY <1>11, <2>2, <2>3, <2>5, <2>6, <2>7 DEF Sound
<1>21. Less(job'[r], job[r]) BY <1>1, <1>7, <1>9, <1>11 DEF Less, Claims
<1>22. \A q \in Requests \ {r} : Apart(job[r], job[q])' BY <1>1, <1>11, <1>21, LessApart
<1> QED BY <1>12, <1>14, <1>17, <1>18, <1>19, <1>20, <1>22, StepOf

-----------------------------------------------------------------------------
LEMMA InitIInv == Init => IInv
<1> SUFFICES ASSUME Init PROVE IInv
  OBVIOUS
<1>1. rows = {} /\ \A r \in Requests : job[r] = NoJob BY DEF Init
<1>2. TypeOK
  <2>1. NoContent \in Contents \cup {NoContent} /\ 0 \in 0..MaxVersion BY BoundAssumption
  <2>2. docx \in [Templates -> [Numbers -> Contents \cup {NoContent}]] BY <2>1 DEF Init
  <2>3. current \in [Plans -> 0..MaxVersion] /\ linked \in [Templates -> 0..MaxVersion]
    BY <2>1 DEF Init
  <2>4. job \in [Requests -> Jobs] BY NoJobFacts DEF Init
  <2> QED BY <2>2, <2>3, <2>4 DEF Init, TypeOK
<1>3. Keys = {} BY <1>1 DEF Keys
<1>4. \A t : RowsOf(t) = {} BY <1>1 DEF RowsOf
<1>5. Tops = [t \in Templates |-> 0] BY <1>4, FS_EmptySet DEF Tops
<1>6. Counted BY <1>3, <1>5, BoundAssumption DEF Counted, Numbers
<1>7. KeysUnique /\ FilesExist /\ DocumentsMatch /\ RowsHaveMaterial
  BY <1>1 DEF KeysUnique, FilesExist, DocumentsMatch, RowsHaveMaterial
<1>8. PreviewComes BY <1>4 DEF PreviewComes
<1>9. NewestIsCurrent /\ LinkedExist
  BY <1>5, NewestFacts DEF Init, LinkedExist, Plans, Templates
<1>10. JobsAreSound
  <2>1. Sound(NoJob)
    <3>1. Shape(NoJob) BY NoJobFacts DEF Shape, Making, Taking
    <3>2. LinksExist(NoJob) BY <1>5, NoJobFacts DEF LinksExist, NoLinks, Templates
    <3>3. Filed(NoJob) BY NoJobFacts DEF Filed, Making, Taking
    <3>4. NumbersAreNext(NoJob) /\ Behind(NoJob) /\ Late(NoJob)
      BY NoJobFacts DEF NumbersAreNext, Behind, Late
    <3> QED BY <3>1, <3>2, <3>3, <3>4 DEF Sound
  <2> QED BY <1>1, <2>1 DEF JobsAreSound
<1>11. JobsAreApart BY <1>1, NoJobFacts DEF JobsAreApart, Apart, Claims
<1> QED BY <1>2, <1>6, <1>7, <1>8, <1>9, <1>10, <1>11 DEF IInv

LEMMA Invariant == Spec => []IInv
<1>1. ASSUME IInv, [Next]_vars PROVE IInv'
  <2>1. ASSUME NEW r \in Requests, Call(r) PROVE IInv'
    BY <1>1, <2>1, GenerateStep, SignStartStep, SignCommitmentStep, WriteCommitmentStep DEF Call
  <2>2. ASSUME NEW r \in Requests, Proceed(r) PROVE IInv'
    <3>1. CASE TakeNumber(r) \/ Upload(r) \/ Insert(r) \/ InsertFails(r)
      BY <1>1, <3>1, TakeNumberStep, UploadStep, InsertStep, InsertFailsStep
    <3>2. CASE SyncNext(r) \/ CommitVersion(r) \/ Answer(r) \/ Abandon(r)
      BY <1>1, <3>2, SyncNextStep, CommitVersionStep, AnswerStep, AbandonStep
    <3>3. CASE SignDocument(r) \/ SignDocumentOfNewMaterial(r) \/ CommitSignature(r)
      BY <1>1, <3>3, SignDocumentStep, SignDocumentOfNewMaterialStep, CommitSignatureStep
    <3>4. CASE LinkCommitment(r) \/ CommitCommitment(r)
      BY <1>1, <3>4, LinkCommitmentStep, CommitCommitmentStep
    <3> QED BY <2>2, <3>1, <3>2, <3>3, <3>4 DEF Proceed
  <2>3. CASE \E t \in Templates \ Plans : OpenMaterial(t)
    BY <1>1, <2>3, OpenMaterialStep
  <2>4. CASE \E k \in renders : Render(k) \/ RenderFails(k)
    BY <1>1, <2>4, RenderStep, RenderFailsStep
  <2>5. CASE UNCHANGED vars
    <3>1. /\ UNCHANGED <<rows, docx, current, linked, material, signed, audit, renders, job,
                         contested, unrendered>>
      BY <2>5 DEF vars, stored, history
    <3>2. TypeOK' BY <1>1, <3>1 DEF IInv, TypeOK
    <3>3. Follows({}, {}) BY <1>1, <3>1, UnwrittenFacts DEF IInv
    <3>4. PreviewComes' BY <1>1, <3>1, <3>3, PreviewStays
    <3> QED BY <1>1, <3>1, <3>2, <3>4, OutsideStep
  <2> QED BY <1>1, <2>1, <2>2, <2>3, <2>4, <2>5, SubmitForReviewStep DEF Next
<1> QED BY InitIInv, <1>1, PTL DEF Spec

-----------------------------------------------------------------------------
\* Every reachable state is well typed.
THEOREM TypeCorrect == Spec => []TypeOK
<1>1. IInv => TypeOK BY DEF IInv
<1> QED BY Invariant, <1>1, PTL

\* generate, the synchronisation of forms and the signatures number the versions of a
\* template 1, 2, 3 ..., whoever takes a number twice and whatever fails.
THEOREM NumbersStayInOrder == Spec => []NumbersInOrder
<1>1. IInv => NumbersInOrder
  <2> SUFFICES ASSUME IInv, NEW t \in Templates
               PROVE  {row.n : row \in RowsOf(t)} = 1..Cardinality(RowsOf(t))
    BY DEF NumbersInOrder
  <2>1. Tops[t] = Cardinality(RowsOf(t)) BY DEF Tops
  <2>2. \A row \in RowsOf(t) : row.n \in 1..Tops[t] BY TopFacts DEF IInv, RowsOf
  <2>3. \A n \in 1..Tops[t] : \E row \in RowsOf(t) : row.n = n
    BY TopFacts DEF IInv, Keys, Key, RowsOf
  <2> QED BY <2>1, <2>2, <2>3
<1> QED BY Invariant, <1>1, PTL

\* A plan points to its highest version, and the risk assessment is linked to its own, also
\* when a slow generation commits after a quick one.
THEOREM NewestStaysCurrent == Spec => []NewestIsCurrent
<1>1. IInv => NewestIsCurrent BY DEF IInv
<1> QED BY Invariant, <1>1, PTL

\* No row names an object that was not uploaded.
THEOREM FilesStayThere == Spec => []FilesExist
<1>1. IInv => FilesExist BY DEF IInv
<1> QED BY Invariant, <1>1, PTL

\* Only two generations that hold one number at the same time, or two signers that have
\* rendered one row with different signatures before either commits, can leave a row whose
\* document renders other data or another signature.
THEOREM DocumentsStayTrue == Spec => []DocumentsMatch
<1>1. IInv => DocumentsMatch BY DEF IInv
<1> QED BY Invariant, <1>1, PTL

\* A committed activity plan without its PDF has a rendering under way, about to be
\* scheduled, or failed.
THEOREM PreviewIsOnItsWay == Spec => []PreviewComes
<1>1. IInv => PreviewComes BY DEF IInv
<1> QED BY Invariant, <1>1, PTL
=============================================================================
