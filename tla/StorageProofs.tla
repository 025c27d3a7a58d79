----------------------------- MODULE StorageProofs -----------------------------
(***************************************************************************)
(* Storage for any number of files, packages and simultaneous requests:    *)
(* no row of documents loses its file to the cleanup, and the filing       *)
(* package linked to is there unless somebody else wrote or swept it.      *)
(***************************************************************************)
EXTENDS Storage, TLAPS

\* A file waiting for its row is young, and nothing that the cleanup is after; a file about
\* to be opened has a row.
Sound(j) ==
  /\ j.step = "insert" =>
       j.file \in (Uploads \cup Generated) \cap ((store \ old) \ sweep.names)
  /\ j.step = "open" => j.file \in documents
  /\ j.step \in {"link", "replace"} => j.file \in Packages

JobsAreSound == \A r \in Requests : Sound(job[r])

\* The cleanup is after no file that has a row; files, unlike packages, are deleted by
\* nobody else, so that no name it is after is free for an upload.
SweepIsSound ==
  sweep.names \cap documents = {} /\ sweep.names \subseteq store \cup Packages

\* A package about to be linked to is there, and nobody else links to it, is about to, or
\* will delete it as its predecessor.
LinksAreOwn ==
  \A r \in Requests :
    job[r].step = "link" /\ job[r].file \notin unsafe =>
      /\ job[r].file \in store /\ packUrl # job[r].file
      /\ \A q \in Requests : job[q].last # job[r].file
      /\ \A q \in Requests \ {r} : job[q].step = "link" => job[q].file # job[r].file

\* A package about to be replaced is linked to no longer.
ReplacedIsUnlinked ==
  \A r \in Requests :
    job[r].step = "replace" /\ job[r].last \notin unsafe \cup {job[r].file} =>
      packUrl # job[r].last

IInv ==
  /\ TypeOK
  /\ DocumentsHaveFiles
  /\ PackIsThere
  /\ JobsAreSound
  /\ SweepIsSound
  /\ LinksAreOwn
  /\ ReplacedIsUnlinked

-----------------------------------------------------------------------------
(* The data. *)

LEMMA NameFacts ==
  /\ Packages \subseteq Nat /\ 0 \notin Packages /\ 1 \in Packages
  /\ (Uploads \cup Generated) \cap Packages = {}
  /\ 0 \notin Uploads \cup Generated /\ Uploads \cap Generated = {}
BY NameAssumption, BoundAssumption DEF Packages

\* The lists are kept apart, so that the record need not be unfolded with an empty set in it.
LEMMA IdleFacts ==
  /\ Idle \in Jobs /\ Idle.step = "idle" /\ Idle.file = 0 /\ Idle.last = 0
  /\ NoList \in Lists /\ NoSweep \in Sweeps /\ NoSweep.names = {} /\ NoSweep.step = "idle"
<1>1. \A none : none \in SUBSET Uploads =>
        [step |-> "idle", file |-> 0, last |-> 0, list |-> none] \in Jobs
  BY DEF Jobs
<1>2. \A none : none \in SUBSET Uploads =>
        [there |-> FALSE, list |-> none, ttl |-> FALSE] \in Lists
  BY DEF Lists
<1>3. \A none : none \in SUBSET Names => [step |-> "idle", names |-> none] \in Sweeps
  BY DEF Sweeps
<1> QED BY <1>1, <1>2, <1>3 DEF Idle, NoList, NoSweep

LEMMA JobAfter ==
  ASSUME TypeOK, NEW r \in Requests, NEW j \in Jobs, job' = [job EXCEPT ![r] = j]
  PROVE  /\ job' \in [Requests -> Jobs] /\ job'[r] = j
         /\ \A q \in Requests \ {r} : job'[q] = job[q]
BY DEF TypeOK

\* Changing the step alone, as Go does.
LEMMA GoFacts ==
  ASSUME TypeOK, NEW r \in Requests, NEW s \in {"invalidate", "zip", "replace"}, Go(r, s)
  PROVE  /\ job' \in [Requests -> Jobs]
         /\ job'[r].step = s /\ job'[r].file = job[r].file /\ job'[r].last = job[r].last
         /\ \A q \in Requests \ {r} : job'[q] = job[q]
<1> DEFINE i == job[r]
           j == [i EXCEPT !.step = s]
<1>1. i \in Jobs /\ job' = [job EXCEPT ![r] = j] BY DEF TypeOK, Go
<1> HIDE DEF i
<1>2. j \in Jobs /\ j.step = s /\ j.file = i.file /\ j.last = i.last BY <1>1 DEF Jobs
<1> HIDE DEF j
<1> QED BY <1>1, <1>2, JobAfter DEF i

LEMMA BeginFacts ==
  ASSUME TypeOK, NEW r \in Requests, NEW j \in Jobs, Begin(r, j)
  PROVE  /\ job' \in [Requests -> Jobs] /\ job'[r] = j
         /\ \A q \in Requests \ {r} : job'[q] = job[q]
BY JobAfter DEF Begin

LEMMA FinishFacts ==
  ASSUME TypeOK, NEW r \in Requests, Finish(r)
  PROVE  /\ job' \in [Requests -> Jobs] /\ job'[r] = Idle
         /\ \A q \in Requests \ {r} : job'[q] = job[q]
BY JobAfter, IdleFacts DEF Finish

-----------------------------------------------------------------------------
(* Steps that leave the files, the rows that name them and the cleanup alone. *)

\* A request begins, goes on or ends; the cache and the links may change.
LEMMA JobStep ==
  ASSUME IInv, NEW r \in Requests, job' \in [Requests -> Jobs],
         \A q \in Requests \ {r} : job'[q] = job[q],
         job'[r].step \notin {"insert", "link", "replace"},
         job'[r].step = "open" => job'[r].file \in documents,
         job'[r].last \in {0, packUrl, job[r].last},
         linked' \in BOOLEAN, cache' \in Lists, redis' \in BOOLEAN,
         UNCHANGED <<store, old, documents, filled, packUrl, minute, sweep, unsafe>>
  PROVE  IInv'
<1>1. TypeOK' BY DEF IInv, TypeOK
<1>2. JobsAreSound'
  <2>1. \A q \in Requests : Sound(job'[q])
    BY DEF IInv, JobsAreSound, Sound
  <2> QED BY <2>1 DEF JobsAreSound, Sound
<1>3. DocumentsHaveFiles'
  BY DEF IInv, DocumentsHaveFiles
<1>4. SweepIsSound' BY DEF IInv, SweepIsSound
<1>5. PackIsThere' BY DEF IInv, PackIsThere
<1>6. LinksAreOwn'
  <2> SUFFICES ASSUME NEW x \in Requests, job'[x].step = "link", job'[x].file \notin unsafe
               PROVE  /\ job'[x].file \in store /\ packUrl # job'[x].file
                      /\ \A q \in Requests : job'[q].last # job'[x].file
                      /\ \A q \in Requests \ {x} :
                           job'[q].step = "link" => job'[q].file # job'[x].file
    BY DEF LinksAreOwn
  <2>1. x # r /\ job'[x] = job[x] OBVIOUS
  <2>2. job[x].file \in Packages BY <2>1 DEF IInv, JobsAreSound, Sound
  <2>3. job[x].file # 0 BY <2>2, NameFacts
  <2>4. /\ job[x].file \in store /\ packUrl # job[x].file
        /\ \A q \in Requests : job[q].last # job[x].file
        /\ \A q \in Requests \ {x} : job[q].step = "link" => job[q].file # job[x].file
    BY <2>1 DEF IInv, LinksAreOwn
  <2> QED BY <2>1, <2>3, <2>4
<1>7. ReplacedIsUnlinked' BY DEF IInv, ReplacedIsUnlinked
<1> QED BY <1>1, <1>2, <1>3, <1>4, <1>5, <1>6, <1>7 DEF IInv

LEMMA FinishStep ==
  ASSUME IInv, NEW r \in Requests, Finish(r), linked' \in BOOLEAN, cache' \in Lists,
         redis' \in BOOLEAN,
         UNCHANGED <<store, old, documents, filled, packUrl, minute, sweep, unsafe>>
  PROVE  IInv'
BY FinishFacts, IdleFacts, JobStep DEF IInv

LEMMA ReadListStep ==
  ASSUME IInv, NEW r \in Requests, ReadList(r)
  PROVE  IInv'
<1> DEFINE d == documents
           j == [Idle EXCEPT !.step = "fill", !.list = d]
<1>1. d \in SUBSET Uploads BY DEF IInv, TypeOK
<1> HIDE DEF d
<1>2. j \in Jobs /\ j.step = "fill" /\ j.last = 0 BY <1>1, IdleFacts DEF Jobs
<1>3. Begin(r, j) BY DEF ReadList, d
<1> HIDE DEF j
<1>4. /\ job' \in [Requests -> Jobs] /\ job'[r] = j
      /\ \A q \in Requests \ {r} : job'[q] = job[q]
  BY <1>2, <1>3, BeginFacts DEF IInv
<1>5. UNCHANGED <<store, old, documents, filled, packUrl, linked, cache, redis, minute, sweep,
                  unsafe>>
  BY DEF ReadList, filing
<1> QED BY <1>2, <1>4, <1>5, JobStep DEF IInv, TypeOK

LEMMA OpenStep ==
  ASSUME IInv, NEW r \in Requests, Open(r)
  PROVE  IInv'
<1>1. PICK d \in documents : Begin(r, [Idle EXCEPT !.step = "open", !.file = d])
  BY DEF Open
<1> DEFINE j == [Idle EXCEPT !.step = "open", !.file = d]
<1>2. d \in Names BY DEF IInv, TypeOK, Names
<1>3. j \in Jobs /\ j.step = "open" /\ j.file = d /\ j.last = 0
  BY <1>2, IdleFacts DEF Jobs
<1> HIDE DEF j
<1>4. /\ job' \in [Requests -> Jobs] /\ job'[r] = j
      /\ \A q \in Requests \ {r} : job'[q] = job[q]
  BY <1>1, <1>3, BeginFacts DEF IInv, j
<1>5. UNCHANGED <<store, old, documents, filled, packUrl, linked, cache, redis, minute, sweep,
                  unsafe>>
  BY DEF Open, filing
<1> QED BY <1>3, <1>4, <1>5, JobStep DEF IInv, TypeOK

LEMMA PackStep ==
  ASSUME IInv, NEW r \in Requests, Pack(r)
  PROVE  IInv'
<1> DEFINE s == IF linked THEN "zip" ELSE "join"
           j == [Idle EXCEPT !.step = s, !.last = packUrl]
<1>1. packUrl \in Packages \cup {0} /\ s \in {"zip", "join"} BY DEF IInv, TypeOK
<1>2. Begin(r, j) BY DEF Pack
<1> HIDE DEF s
<1>3. j \in Jobs /\ j.step = s /\ j.last = packUrl BY <1>1, IdleFacts DEF Jobs
<1> HIDE DEF j
<1>4. /\ job' \in [Requests -> Jobs] /\ job'[r] = j
      /\ \A q \in Requests \ {r} : job'[q] = job[q]
  BY <1>2, <1>3, BeginFacts DEF IInv
<1>5. UNCHANGED <<store, old, documents, filled, packUrl, linked, cache, redis, minute, sweep,
                  unsafe>>
  BY DEF Pack, filing
<1> QED BY <1>1, <1>3, <1>4, <1>5, JobStep DEF IInv, TypeOK

LEMMA JoinStep ==
  ASSUME IInv, NEW r \in Requests, Join(r)
  PROVE  IInv'
<1>1. /\ linked' = TRUE /\ UNCHANGED <<cache, redis>>
      /\ UNCHANGED <<store, old, documents, filled, packUrl, minute, sweep, unsafe>>
  BY DEF Join
<1>2. cache' \in Lists /\ redis' \in BOOLEAN BY <1>1 DEF IInv, TypeOK
<1>3. CASE linked BY <1>1, <1>2, <1>3, FinishStep DEF Join
<1>4. CASE ~linked
  <2>1. Go(r, "zip") BY <1>4 DEF Join
  <2>2. /\ job' \in [Requests -> Jobs]
        /\ job'[r].step = "zip" /\ job'[r].file = job[r].file /\ job'[r].last = job[r].last
        /\ \A q \in Requests \ {r} : job'[q] = job[q]
    BY <2>1, GoFacts DEF IInv
  <2> QED BY <2>2, <1>1, <1>2, JobStep
<1> QED BY <1>3, <1>4

\* Filling the cache, or emptying it after an upload, touches no file.
LEMMA CacheStep ==
  ASSUME IInv, NEW r \in Requests, Fill(r) \/ FillFails(r) \/ Invalidate(r) \/ Send(r)
                                   \/ Abandon(r)
  PROVE  IInv'
<1>1. /\ Finish(r) /\ UNCHANGED <<linked, redis>>
      /\ UNCHANGED <<store, old, documents, filled, packUrl, minute, sweep, unsafe>>
  BY DEF Fill, FillFails, Invalidate, Send, Abandon, filing
<1>2. cache' \in Lists
  <2>1. job[r].list \in SUBSET Uploads /\ cache \in Lists BY DEF IInv, TypeOK, Jobs
  <2>2. CASE Fill(r) BY <2>1, <2>2 DEF Fill, Lists
  <2>3. CASE Invalidate(r) BY <2>1, <2>3, IdleFacts DEF Invalidate
  <2> QED BY <2>1, <2>2, <2>3 DEF FillFails, Send, Abandon
<1> QED BY <1>1, <1>2, FinishStep DEF IInv, TypeOK

\* Time passes, the cache expires, Redis comes or goes.
LEMMA OutsideStep ==
  ASSUME IInv, Expire \/ RedisChanges \/ Tick
  PROVE  IInv'
<1>1. UNCHANGED <<store, old, documents, filled, packUrl, linked, job, sweep, unsafe>>
  BY DEF Expire, RedisChanges, Tick, filing
<1>2. cache' \in Lists
  BY IdleFacts DEF Expire, RedisChanges, Tick, IInv, TypeOK
<1>3. redis' \in BOOLEAN BY Zenon DEF Expire, RedisChanges, Tick, IInv, TypeOK
<1>4. minute' \in Packages
  <2>1. minute \in Packages BY DEF IInv, TypeOK
  <2> QED BY <2>1, BoundAssumption DEF Expire, RedisChanges, Tick, Packages
<1>5. TypeOK' BY <1>1, <1>2, <1>3, <1>4 DEF IInv, TypeOK
<1> QED
  BY <1>1, <1>5 DEF IInv, DocumentsHaveFiles, PackIsThere, JobsAreSound, Sound,
                    SweepIsSound, LinksAreOwn, ReplacedIsUnlinked
-----------------------------------------------------------------------------
(* Steps that write files and rows. *)

\* The name is free: no row, no other request and not the cleanup knows it.
LEMMA PutStep ==
  ASSUME IInv, NEW r \in Requests, Put(r)
  PROVE  IInv'
<1>1. PICK n \in Fresh :
        Begin(r, [Idle EXCEPT !.step = "insert", !.file = n]) /\ store' = store \cup {n}
  BY DEF Put
<1>2. UNCHANGED <<old, documents, filled, packUrl, linked, cache, redis, minute, sweep, unsafe>>
  BY DEF Put, filing
<1>3. /\ n \in Uploads \cup Generated /\ n \notin store /\ n \notin documents
      /\ n \notin Packages /\ n \in Names
  BY NameFacts DEF Fresh, Names
<1> DEFINE j == [Idle EXCEPT !.step = "insert", !.file = n]
<1>4. j \in Jobs /\ j.step = "insert" /\ j.file = n /\ j.last = 0
  BY <1>3, IdleFacts DEF Jobs
<1>5. Begin(r, j) BY <1>1
<1> HIDE DEF j
<1>6. /\ job' \in [Requests -> Jobs] /\ job'[r] = j
      /\ \A q \in Requests \ {r} : job'[q] = job[q]
  BY <1>4, <1>5, BeginFacts DEF IInv
<1>7. n \notin sweep.names /\ n \notin old
  BY <1>3 DEF IInv, SweepIsSound, TypeOK
<1>8. TypeOK' BY <1>1, <1>2, <1>3, <1>6 DEF IInv, TypeOK
<1>9. JobsAreSound'
  <2>1. \A q \in Requests : Sound(job[q])' 
    BY <1>1, <1>2, <1>3, <1>4, <1>6, <1>7 DEF IInv, JobsAreSound, Sound
  <2> QED BY <2>1 DEF JobsAreSound
<1>10. DocumentsHaveFiles' BY <1>1, <1>2, <1>4, <1>6 DEF IInv, DocumentsHaveFiles
<1>11. PackIsThere' BY <1>1, <1>2 DEF IInv, PackIsThere
<1>12. SweepIsSound' BY <1>1, <1>2 DEF IInv, SweepIsSound
<1>13. LinksAreOwn'
  <2>1. ASSUME NEW x \in Requests, job[x].step = "link" PROVE job[x].file # 0
    BY <2>1, NameFacts DEF IInv, JobsAreSound, Sound
  <2> QED BY <2>1, <1>1, <1>2, <1>4, <1>6 DEF IInv, LinksAreOwn
<1>14. ReplacedIsUnlinked' BY <1>2, <1>4, <1>6 DEF IInv, ReplacedIsUnlinked
<1> QED BY <1>8, <1>9, <1>10, <1>11, <1>12, <1>13, <1>14 DEF IInv

LEMMA InsertRowStep ==
  ASSUME IInv, NEW r \in Requests, InsertRow(r)
  PROVE  IInv'
<1> DEFINE f == job[r].file
<1>1. /\ job[r].step = "insert"
      /\ UNCHANGED <<store, old, packUrl, linked, cache, redis, minute, sweep, unsafe>>
  BY DEF InsertRow, filing
<1>2. f \in Uploads \cup Generated /\ f \in store /\ f \notin old /\ f \notin sweep.names
  BY <1>1 DEF IInv, JobsAreSound, Sound
<1>3. /\ job' \in [Requests -> Jobs]
      /\ job'[r].step \in {"invalidate", "idle"} /\ job'[r].last \in {0, job[r].last}
      /\ \A q \in Requests \ {r} : job'[q] = job[q]
  <2>1. Go(r, "invalidate") \/ Finish(r) BY DEF InsertRow
  <2>2. CASE Go(r, "invalidate") BY <2>2, GoFacts DEF IInv
  <2>3. CASE Finish(r) BY <2>3, FinishFacts, IdleFacts DEF IInv
  <2> QED BY <2>1, <2>2, <2>3
<1>4. /\ documents' \in {documents, documents \cup {f}} /\ documents' \subseteq Uploads
      /\ filled' \in {filled, filled \cup {f}} /\ filled' \subseteq Generated
  BY <1>2 DEF InsertRow, IInv, TypeOK
<1> HIDE DEF f
<1>5. TypeOK' BY <1>1, <1>3, <1>4 DEF IInv, TypeOK
<1>6. JobsAreSound'
  <2>1. \A q \in Requests : Sound(job[q])'
    BY <1>1, <1>3, <1>4 DEF IInv, JobsAreSound, Sound
  <2> QED BY <2>1 DEF JobsAreSound
<1>7. DocumentsHaveFiles' BY <1>1, <1>2, <1>3, <1>4 DEF IInv, DocumentsHaveFiles
<1>8. PackIsThere' BY <1>1 DEF IInv, PackIsThere
<1>9. SweepIsSound' BY <1>1, <1>2, <1>4 DEF IInv, SweepIsSound
<1>10. LinksAreOwn'
  <2>1. ASSUME NEW x \in Requests, job[x].step = "link" PROVE job[x].file # 0
    BY <2>1, NameFacts DEF IInv, JobsAreSound, Sound
  <2> QED BY <2>1, <1>1, <1>3 DEF IInv, LinksAreOwn
<1>11. ReplacedIsUnlinked' BY <1>1, <1>3 DEF IInv, ReplacedIsUnlinked
<1> QED BY <1>5, <1>6, <1>7, <1>8, <1>9, <1>10, <1>11 DEF IInv

\* A package uploaded under a name that is in use counts as unsafe; any other is this
\* request's own.
LEMMA UploadZipStep ==
  ASSUME IInv, NEW r \in Requests, UploadZip(r)
  PROVE  IInv'
<1> DEFINE i == job[r]
           j == [i EXCEPT !.step = "link", !.file = minute]
<1>1. /\ store' = store \cup {minute} /\ old' = old \ {minute}
      /\ unsafe' = unsafe \cup Reused
      /\ UNCHANGED <<documents, filled, packUrl, linked, cache, redis, minute>>
  BY DEF UploadZip, filing
<1>2. minute \in Packages /\ minute \in Names /\ minute # 0
      /\ minute \notin Uploads \cup Generated
  BY NameFacts DEF IInv, TypeOK, Names
<1>3. i \in Jobs /\ job' = [job EXCEPT ![r] = j] /\ i.step = "zip"
  BY DEF UploadZip, IInv, TypeOK
<1> HIDE DEF i
<1>4. j \in Jobs /\ j.step = "link" /\ j.file = minute /\ j.last = i.last
  BY <1>2, <1>3 DEF Jobs
<1> HIDE DEF j
<1>5. /\ job' \in [Requests -> Jobs] /\ job'[r] = j
      /\ \A q \in Requests \ {r} : job'[q] = job[q]
  BY <1>3, <1>4, JobAfter DEF IInv
<1>6. sweep' \in Sweeps /\ sweep'.names \subseteq sweep.names
  BY DEF UploadZip, IInv, TypeOK, Sweeps
<1>7. Reused \subseteq Packages BY <1>2 DEF Reused
<1>8. TypeOK' BY <1>1, <1>2, <1>5, <1>6, <1>7 DEF IInv, TypeOK
<1>9. JobsAreSound'
  <2>1. \A q \in Requests : Sound(job[q])'
    BY <1>1, <1>2, <1>4, <1>5, <1>6 DEF IInv, JobsAreSound, Sound
  <2> QED BY <2>1 DEF JobsAreSound
<1>10. DocumentsHaveFiles' BY <1>1, <1>4, <1>5 DEF IInv, DocumentsHaveFiles
<1>11. PackIsThere' BY <1>1 DEF IInv, PackIsThere
<1>12. SweepIsSound' BY <1>1, <1>6 DEF IInv, SweepIsSound
<1>13. LinksAreOwn'
  <2> SUFFICES ASSUME NEW x \in Requests, job'[x].step = "link", job'[x].file \notin unsafe'
               PROVE  /\ job'[x].file \in store' /\ packUrl # job'[x].file
                      /\ \A q \in Requests : job'[q].last # job'[x].file
                      /\ \A q \in Requests \ {x} :
                           job'[q].step = "link" => job'[q].file # job'[x].file
    BY <1>1 DEF LinksAreOwn
  <2>1. \A q \in Requests : job'[q].last = job[q].last BY <1>4, <1>5 DEF i
  <2>2. CASE x = r
    <3>1. minute \notin Reused BY <2>2, <1>1, <1>4, <1>5
    <3>2. /\ packUrl # minute
          /\ \A q \in Requests : job[q].last # minute /\ job[q].file # minute
      BY <3>1 DEF Reused
    <3> QED BY <2>1, <2>2, <3>2, <1>1, <1>4, <1>5
  <2>3. CASE x # r
    <3>1. job'[x] = job[x] BY <2>3, <1>5
    <3>2. /\ job[x].file \in store /\ packUrl # job[x].file
          /\ \A q \in Requests : job[q].last # job[x].file
          /\ \A q \in Requests \ {x} : job[q].step = "link" => job[q].file # job[x].file
      BY <3>1, <1>1 DEF IInv, LinksAreOwn
    <3>3. job[x].file # minute
      <4>1. CASE minute \in Reused BY <4>1, <3>1, <1>1
      <4>2. CASE minute \notin Reused BY <4>2 DEF Reused
      <4> QED BY <4>1, <4>2
    <3> QED BY <2>1, <3>1, <3>2, <3>3, <1>1, <1>4, <1>5
  <2> QED BY <2>2, <2>3
<1>14. ReplacedIsUnlinked' BY <1>1, <1>4, <1>5 DEF IInv, ReplacedIsUnlinked
<1> QED BY <1>8, <1>9, <1>10, <1>11, <1>12, <1>13, <1>14 DEF IInv

LEMMA LinkStep ==
  ASSUME IInv, NEW r \in Requests, Link(r)
  PROVE  IInv'
<1> DEFINE f == job[r].file
           l == job[r].last
<1>1. /\ job[r].step = "link" /\ packUrl' = (IF f = l THEN packUrl ELSE f)
      /\ UNCHANGED <<store, old, documents, filled, linked, cache, redis, minute, sweep, unsafe>>
  BY DEF Link
<1>2. f \in Packages BY <1>1 DEF IInv, JobsAreSound, Sound
<1>3. /\ job' \in [Requests -> Jobs]
      /\ job'[r].step = "replace" /\ job'[r].file = f /\ job'[r].last = l
      /\ \A q \in Requests \ {r} : job'[q] = job[q]
  BY GoFacts DEF IInv, Link
<1>4. f \notin unsafe =>
        /\ f \in store /\ packUrl # f
        /\ \A q \in Requests : job[q].last # f
        /\ \A q \in Requests \ {r} : job[q].step = "link" => job[q].file # f
  BY <1>1 DEF IInv, LinksAreOwn
<1> HIDE DEF f, l
<1>5. TypeOK' BY <1>1, <1>2, <1>3 DEF IInv, TypeOK
<1>6. JobsAreSound'
  <2>1. \A q \in Requests : Sound(job[q])'
    BY <1>1, <1>2, <1>3 DEF IInv, JobsAreSound, Sound
  <2> QED BY <2>1 DEF JobsAreSound
<1>7. DocumentsHaveFiles' BY <1>1, <1>3 DEF IInv, DocumentsHaveFiles
<1>8. PackIsThere' BY <1>1, <1>4 DEF IInv, PackIsThere
<1>9. SweepIsSound' BY <1>1 DEF IInv, SweepIsSound
<1>10. LinksAreOwn'
  <2> SUFFICES ASSUME NEW x \in Requests, job'[x].step = "link", job'[x].file \notin unsafe
               PROVE  /\ job'[x].file \in store /\ packUrl' # job'[x].file
                      /\ \A q \in Requests : job'[q].last # job'[x].file
                      /\ \A q \in Requests \ {x} :
                           job'[q].step = "link" => job'[q].file # job'[x].file
    BY <1>1 DEF LinksAreOwn
  <2>1. x # r /\ job'[x] = job[x] BY <1>3
  <2>2. /\ job[x].file \in store /\ packUrl # job[x].file
        /\ \A q \in Requests : job[q].last # job[x].file
        /\ \A q \in Requests \ {x} : job[q].step = "link" => job[q].file # job[x].file
    BY <2>1 DEF IInv, LinksAreOwn
  <2>3. f # job[x].file BY <2>1, <2>2, <1>1 DEF f
  <2>4. \A q \in Requests : job'[q].last = job[q].last BY <1>3 DEF l
  <2> QED BY <2>1, <2>2, <2>3, <2>4, <1>1, <1>3
<1>11. ReplacedIsUnlinked'
  <2> SUFFICES ASSUME NEW x \in Requests, job'[x].step = "replace",
                      job'[x].last \notin unsafe \cup {job'[x].file}
               PROVE  packUrl' # job'[x].last
    BY <1>1 DEF ReplacedIsUnlinked
  <2>1. CASE x = r BY <2>1, <1>1, <1>3
  <2>2. CASE x # r
    <3>1. job'[x] = job[x] /\ packUrl # job[x].last
      BY <2>2, <1>3 DEF IInv, ReplacedIsUnlinked
    <3>2. f = job[x].last => f \in unsafe BY <1>4
    <3> QED BY <3>1, <3>2, <1>1
  <2> QED BY <2>1, <2>2
<1> QED BY <1>5, <1>6, <1>7, <1>8, <1>9, <1>10, <1>11 DEF IInv

\* What Replace deletes is a package that is linked to no longer.
LEMMA ReplaceStep ==
  ASSUME IInv, NEW r \in Requests, Replace(r)
  PROVE  IInv'
<1> DEFINE gone == {job[r].last} \ {job[r].file}
<1>1. /\ job[r].step = "replace" /\ store' = store \ gone /\ old' = old \ gone /\ Finish(r)
      /\ UNCHANGED <<documents, filled, packUrl, linked, cache, redis, minute, sweep, unsafe>>
  BY DEF Replace, filing
<1>2. job[r].last \in Packages \cup {0} BY DEF IInv, TypeOK, Jobs
<1>3. gone \cap (Uploads \cup Generated) = {} BY <1>2, NameFacts
<1>4. packUrl \in gone => packUrl \in unsafe
  BY <1>1 DEF IInv, ReplacedIsUnlinked
<1>5. \A x \in Requests : job[x].step = "link" /\ job[x].file \notin unsafe =>
                            job[x].file \notin gone
  BY DEF IInv, LinksAreOwn
<1> HIDE DEF gone
<1>6. /\ job' \in [Requests -> Jobs] /\ job'[r] = Idle
      /\ \A q \in Requests \ {r} : job'[q] = job[q]
  BY <1>1, FinishFacts DEF IInv
<1>7. TypeOK' BY <1>1, <1>6 DEF IInv, TypeOK
<1>8. JobsAreSound'
  <2>1. \A q \in Requests : Sound(job[q])'
    BY <1>1, <1>3, <1>6, IdleFacts DEF IInv, JobsAreSound, Sound
  <2> QED BY <2>1 DEF JobsAreSound
<1>9. DocumentsHaveFiles'
  <2>1. documents \subseteq Uploads BY DEF IInv, TypeOK
  <2>2. documents \subseteq store' BY <2>1, <1>1, <1>3 DEF IInv, DocumentsHaveFiles
  <2> QED BY <2>2, <1>1, <1>6, IdleFacts DEF IInv, JobsAreSound, Sound, DocumentsHaveFiles
<1>10. PackIsThere' BY <1>1, <1>4 DEF IInv, PackIsThere
<1>11. SweepIsSound'
  <2>1. sweep.names \subseteq Names BY DEF IInv, TypeOK, Sweeps
  <2> QED BY <2>1, <1>1, <1>3 DEF IInv, SweepIsSound, Names
<1>12. LinksAreOwn'
  <2> SUFFICES ASSUME NEW x \in Requests, job'[x].step = "link", job'[x].file \notin unsafe
               PROVE  /\ job'[x].file \in store' /\ packUrl # job'[x].file
                      /\ \A q \in Requests : job'[q].last # job'[x].file
                      /\ \A q \in Requests \ {x} :
                           job'[q].step = "link" => job'[q].file # job'[x].file
    BY <1>1 DEF LinksAreOwn
  <2>1. x # r /\ job'[x] = job[x] BY <1>6, IdleFacts
  <2>2. job[x].file # 0 BY <2>1, NameFacts DEF IInv, JobsAreSound, Sound
  <2>3. /\ job[x].file \in store /\ packUrl # job[x].file
        /\ \A q \in Requests : job[q].last # job[x].file
        /\ \A q \in Requests \ {x} : job[q].step = "link" => job[q].file # job[x].file
    BY <2>1 DEF IInv, LinksAreOwn
  <2> QED BY <2>1, <2>2, <2>3, <1>1, <1>5, <1>6, IdleFacts
<1>13. ReplacedIsUnlinked' BY <1>1, <1>6, IdleFacts DEF IInv, ReplacedIsUnlinked
<1> QED BY <1>7, <1>8, <1>9, <1>10, <1>11, <1>12, <1>13 DEF IInv
-----------------------------------------------------------------------------
(* The cleanup. *)

\* The cleanup sets out after old objects without a row, or gives up.
LEMMA SweepStep ==
  ASSUME IInv, SweepRead \/ SweepList \/ SweepAbandoned
  PROVE  IInv'
<1>1. UNCHANGED <<store, old, documents, filled, packUrl, linked, cache, redis, minute, job,
                  unsafe>>
  BY DEF SweepRead, SweepList, SweepAbandoned, filing
<1>2. /\ sweep' \in Sweeps
      /\ sweep'.names \subseteq sweep.names \cup (old \ documents)
  <2> DEFINE a == old \ documents
             b == sweep.names \cap store
  <2>1. a \in SUBSET Names /\ b \in SUBSET Names BY DEF IInv, TypeOK, Sweeps
  <2>2. \/ sweep' = [step |-> "list", names |-> a]
        \/ sweep' = NoSweep
        \/ sweep' = [step |-> "delete", names |-> b]
    BY DEF SweepRead, SweepList, SweepAbandoned
  <2>3. b \subseteq sweep.names OBVIOUS
  <2> HIDE DEF a, b
  <2>4. sweep' \in Sweeps /\ (sweep'.names = a \/ sweep'.names = b \/ sweep'.names = {})
    BY <2>1, <2>2, IdleFacts DEF Sweeps
  <2> QED BY <2>3, <2>4 DEF a
<1>3. TypeOK' BY <1>1, <1>2 DEF IInv, TypeOK
<1>4. JobsAreSound'
  <2>1. \A q \in Requests : Sound(job[q])' BY <1>1, <1>2 DEF IInv, JobsAreSound, Sound
  <2> QED BY <2>1 DEF JobsAreSound
<1>5. SweepIsSound' BY <1>1, <1>2 DEF IInv, SweepIsSound, TypeOK
<1> QED
  BY <1>1, <1>3, <1>4, <1>5 DEF IInv, DocumentsHaveFiles, PackIsThere, LinksAreOwn,
                                ReplacedIsUnlinked

LEMMA SweepDeleteStep ==
  ASSUME IInv, SweepDelete
  PROVE  IInv'
<1>1. PICK n \in sweep.names :
        /\ store' = store \ {n} /\ old' = old \ {n}
        /\ unsafe' = unsafe \cup ({n} \cap Packages)
        /\ sweep' = IF sweep.names = {n} THEN NoSweep ELSE [sweep EXCEPT !.names = @ \ {n}]
  BY DEF SweepDelete
<1>2. UNCHANGED <<documents, filled, packUrl, linked, cache, redis, minute, job>>
  BY DEF SweepDelete, filing
<1>3. sweep \in Sweeps /\ sweep.names \in SUBSET Names BY DEF IInv, TypeOK, Sweeps
<1>4. sweep' \in Sweeps /\ sweep'.names = sweep.names \ {n}
  <2> DEFINE rest == sweep.names \ {n}
  <2>1. CASE sweep.names = {n} BY <2>1, <1>1, IdleFacts
  <2>2. CASE sweep.names # {n}
    <3>1. sweep' = [sweep EXCEPT !.names = rest] /\ rest \in SUBSET Names
      BY <2>2, <1>1, <1>3
    <3> HIDE DEF rest
    <3>2. sweep' \in Sweeps /\ sweep'.names = rest BY <3>1, <1>3 DEF Sweeps
    <3> QED BY <3>2 DEF rest
  <2> QED BY <2>1, <2>2
<1>5. n \notin documents BY DEF IInv, SweepIsSound
<1>6. \A q \in Requests : job[q].step = "insert" => job[q].file # n
  BY DEF IInv, JobsAreSound, Sound
<1>7. TypeOK' BY <1>1, <1>2, <1>4 DEF IInv, TypeOK
<1>8. JobsAreSound'
  <2>1. \A q \in Requests : Sound(job[q])'
    BY <1>1, <1>2, <1>4, <1>6 DEF IInv, JobsAreSound, Sound
  <2> QED BY <2>1 DEF JobsAreSound
<1>9. DocumentsHaveFiles'
  BY <1>1, <1>2, <1>5 DEF IInv, DocumentsHaveFiles, JobsAreSound, Sound
<1>10. PackIsThere'
  BY <1>1, <1>2 DEF IInv, PackIsThere, TypeOK
<1>11. SweepIsSound' BY <1>1, <1>2, <1>4 DEF IInv, SweepIsSound
<1>12. LinksAreOwn'
  <2>1. \A q \in Requests : job[q].step = "link" => job[q].file \in Packages
    BY DEF IInv, JobsAreSound, Sound
  <2> QED BY <2>1, <1>1, <1>2 DEF IInv, LinksAreOwn
<1>13. ReplacedIsUnlinked' BY <1>1, <1>2 DEF IInv, ReplacedIsUnlinked
<1> QED BY <1>7, <1>8, <1>9, <1>10, <1>11, <1>12, <1>13 DEF IInv

\* No file ages while a request still has to write its row.
LEMMA AgeStep ==
  ASSUME IInv, NEW n \in Names, Age(n)
  PROVE  IInv'
<1>1. /\ n \in store /\ old' = old \cup {n}
      /\ \A q \in Requests : job[q].step = "insert" => job[q].file # n
      /\ UNCHANGED <<store, documents, filled, packUrl, linked, cache, redis, minute, job, sweep,
                     unsafe>>
  BY DEF Age, filing
<1>2. TypeOK' BY <1>1 DEF IInv, TypeOK
<1>3. JobsAreSound'
  <2>1. \A q \in Requests : Sound(job[q])' BY <1>1 DEF IInv, JobsAreSound, Sound
  <2> QED BY <2>1 DEF JobsAreSound
<1> QED
  BY <1>1, <1>2, <1>3 DEF IInv, DocumentsHaveFiles, PackIsThere, SweepIsSound, LinksAreOwn,
                          ReplacedIsUnlinked

-----------------------------------------------------------------------------
LEMMA InitIInv == Init => IInv
<1> SUFFICES ASSUME Init PROVE IInv OBVIOUS
<1>1. \A q \in Requests : job[q] = Idle BY DEF Init
<1>2. TypeOK BY IdleFacts, NameFacts DEF Init, TypeOK
<1>3. JobsAreSound BY <1>1, IdleFacts DEF JobsAreSound, Sound
<1>4. SweepIsSound BY IdleFacts DEF Init, SweepIsSound
<1>5. DocumentsHaveFiles /\ PackIsThere
  BY <1>1, IdleFacts DEF Init, DocumentsHaveFiles, PackIsThere
<1>6. LinksAreOwn /\ ReplacedIsUnlinked
  BY <1>1, IdleFacts DEF LinksAreOwn, ReplacedIsUnlinked
<1> QED BY <1>2, <1>3, <1>4, <1>5, <1>6 DEF IInv

LEMMA Invariant == Spec => []IInv
<1>1. ASSUME IInv, [Next]_vars PROVE IInv'
  <2>1. ASSUME NEW r \in Requests, Continue(r) PROVE IInv'
    BY <1>1, <2>1, InsertRowStep, CacheStep, JoinStep, UploadZipStep, LinkStep, ReplaceStep
    DEF Continue
  <2>2. ASSUME NEW r \in Requests, Put(r) \/ ReadList(r) \/ Open(r) \/ Pack(r) \/ Abandon(r)
        PROVE  IInv'
    BY <1>1, <2>2, PutStep, ReadListStep, OpenStep, PackStep, CacheStep
  <2>3. CASE UNCHANGED vars
    BY <1>1, <2>3 DEF vars, filing, IInv, TypeOK, DocumentsHaveFiles, PackIsThere, JobsAreSound,
                      Sound, SweepIsSound, LinksAreOwn, ReplacedIsUnlinked
  <2> QED
    BY <1>1, <2>1, <2>2, <2>3, SweepStep, SweepDeleteStep, OutsideStep, AgeStep DEF Next
<1> QED BY InitIInv, <1>1, PTL DEF Spec

-----------------------------------------------------------------------------
\* Every reachable state is well typed.
THEOREM TypeCorrect == Spec => []TypeOK
<1>1. IInv => TypeOK BY DEF IInv
<1> QED BY Invariant, <1>1, PTL

\* No upload, however it is interleaved with cleanup_orphans and whatever dies, leaves a row
\* of documents without its file.
THEOREM FilesStay == Spec => []DocumentsHaveFiles
<1>1. IInv => DocumentsHaveFiles BY DEF IInv
<1> QED BY Invariant, <1>1, PTL

\* pack_materials leaves a package behind pack_url, unless another request wrote one under
\* the same minute or the cleanup deleted it.
THEOREM PackStays == Spec => []PackIsThere
<1>1. IInv => PackIsThere BY DEF IInv
<1> QED BY Invariant, <1>1, PTL
=============================================================================
