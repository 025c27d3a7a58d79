------------------------------- MODULE Storage -------------------------------
(***************************************************************************)
(* The files of one activity in the object store and the rows that name    *)
(* them: documents uploaded by users, documents generated from forms, the  *)
(* filing package; the cached list of documents; and the cleanup of        *)
(* orphans, a script run beside the server.                                *)
(*                                                                         *)
(* The object store, the database and Redis have no transaction in common: *)
(* a request is cut between its calls to them.  What is in the files is in *)
(* GeneratedDocuments.                                                     *)
(***************************************************************************)
EXTENDS Naturals, FiniteSets

CONSTANTS
  Requests,    \* requests served at the same time
  Uploads,     \* names of uploaded files (uuid4: each used once)
  Generated,   \* names of generated files (numbered versions)
  MaxMinute,   \* bound: minutes, which packages are named after
  Failures     \* whether requests and the cleanup may die

Packages == 1..MaxMinute
Names == Uploads \cup Generated \cup Packages

ASSUME NameAssumption == (Uploads \cup Generated) \cap (Nat \cup {"none"}) = {}
                         /\ Uploads \cap Generated = {}
ASSUME BoundAssumption == MaxMinute \in Nat \ {0}
ASSUME FailureAssumption == Failures \in BOOLEAN

VARIABLES
  store,     \* the objects
  old,       \* those that are older than --min-age-hours
  documents, \* the files that committed rows of documents name
  filled,    \* the files that committed rows of filled_documents name
  packUrl,   \* filing_docs.pack_url (0: none)
  linked,    \* whether filing_doc_materials has the rows of the materials
  cache,     \* activity:<id>:docs in Redis
  redis,     \* whether Redis answers
  minute,
  job,       \* what each request is doing
  sweep,     \* what the cleanup is doing
  unsafe     \* history: packages that two requests wrote or the cleanup deleted

filing == <<packUrl, linked>>
vars == <<store, old, documents, filled, filing, cache, redis, minute, job, sweep, unsafe>>

-----------------------------------------------------------------------------
NoList == [there |-> FALSE, list |-> {}, ttl |-> FALSE]
Lists == [there : BOOLEAN, list : SUBSET Uploads, ttl : BOOLEAN]

\* file: the object written or opened (0: none); last: pack_url as loaded; list: the rows
\* read.
Jobs == [step : {"idle", "insert", "invalidate", "fill", "open", "join", "zip", "link", "replace"},
         file : Names \cup {0}, last : Packages \cup {0}, list : SUBSET Uploads]
Idle == [step |-> "idle", file |-> 0, last |-> 0, list |-> {}]

Sweeps == [step : {"idle", "list", "delete"}, names : SUBSET Names]
NoSweep == [step |-> "idle", names |-> {}]

TypeOK ==
  /\ store \subseteq Names /\ old \subseteq store
  /\ documents \subseteq Uploads /\ filled \subseteq Generated
  /\ packUrl \in Packages \cup {0} /\ linked \in BOOLEAN
  /\ cache \in Lists /\ redis \in BOOLEAN
  /\ minute \in Packages
  /\ job \in [Requests -> Jobs]
  /\ sweep \in Sweeps
  /\ unsafe \subseteq Packages

Init ==
  /\ store = {} /\ old = {}
  /\ documents = {} /\ filled = {}
  /\ packUrl = 0 /\ linked = FALSE
  /\ cache = NoList /\ redis = TRUE
  /\ minute = 1
  /\ job = [r \in Requests |-> Idle]
  /\ sweep = NoSweep
  /\ unsafe = {}

Begin(r, j) == job[r] = Idle /\ job' = [job EXCEPT ![r] = j]
Go(r, s) == job' = [job EXCEPT ![r].step = s]
Finish(r) == job' = [job EXCEPT ![r] = Idle]

-----------------------------------------------------------------------------
(* Uploaded and generated documents: the file first, then the row.           *)

\* Names that no request has used yet.
Fresh == (Uploads \cup Generated)
           \ (store \cup documents \cup filled \cup {job[r].file : r \in Requests})

Put(r) ==
  /\ \E n \in Fresh :
       /\ Begin(r, [Idle EXCEPT !.step = "insert", !.file = n])
       /\ store' = store \cup {n}
  /\ UNCHANGED <<old, documents, filled, filing, cache, redis, minute, sweep, unsafe>>

InsertRow(r) ==
  /\ job[r].step = "insert"
  /\ IF job[r].file \in Uploads
     THEN /\ documents' = documents \cup {job[r].file}
          /\ Go(r, "invalidate")
          /\ UNCHANGED filled
     ELSE filled' = filled \cup {job[r].file} /\ Finish(r) /\ UNCHANGED documents
  /\ UNCHANGED <<store, old, filing, cache, redis, minute, sweep, unsafe>>

\* DEL, unless Redis does not answer.
Invalidate(r) ==
  /\ job[r].step = "invalidate"
  /\ cache' = IF redis THEN NoList ELSE cache
  /\ Finish(r)
  /\ UNCHANGED <<store, old, documents, filled, filing, redis, minute, sweep, unsafe>>

-----------------------------------------------------------------------------
(* The cached list.                                                          *)

\* Variant: the list is made of the objects.
ReadObjects(r) ==
  /\ redis /\ ~cache.there
  /\ Begin(r, [Idle EXCEPT !.step = "fill", !.list = store])
  /\ UNCHANGED <<store, old, documents, filled, filing, cache, redis, minute, sweep, unsafe>>

\* list_activity_documents: nothing cached, so the rows are read.  A list that is
\* cached, or read while Redis does not answer, leaves no trace.
ReadList(r) ==
  /\ redis /\ ~cache.there
  /\ Begin(r, [Idle EXCEPT !.step = "fill", !.list = documents])
  /\ UNCHANGED <<store, old, documents, filled, filing, cache, redis, minute, sweep, unsafe>>

\* Variant: the list is cached without an expiry.
FillForGood(r) ==
  /\ job[r].step = "fill"
  /\ redis
  /\ cache' = [there |-> TRUE, list |-> job[r].list, ttl |-> FALSE]
  /\ Finish(r)
  /\ UNCHANGED <<store, old, documents, filled, filing, redis, minute, sweep, unsafe>>

\* SET ex=300, whatever happened since.
Fill(r) ==
  /\ job[r].step = "fill"
  /\ redis
  /\ cache' = [there |-> TRUE, list |-> job[r].list, ttl |-> TRUE]
  /\ Finish(r)
  /\ UNCHANGED <<store, old, documents, filled, filing, redis, minute, sweep, unsafe>>

\* The connection was lost since the GET: the request fails.
FillFails(r) ==
  /\ job[r].step = "fill"
  /\ ~redis
  /\ Finish(r)
  /\ UNCHANGED <<store, old, documents, filled, filing, cache, redis, minute, sweep, unsafe>>

Expire ==
  /\ cache.ttl
  /\ cache' = NoList
  /\ UNCHANGED <<store, old, documents, filled, filing, redis, minute, job, sweep, unsafe>>

\* Redis goes away, keeping its data, or comes back.
RedisChanges ==
  /\ redis' = ~redis
  /\ UNCHANGED <<store, old, documents, filled, filing, cache, minute, job, sweep, unsafe>>

\* download_document and get_download_url: the row (or a copy of it in Redis: rows of
\* documents are never changed), and then the object, from the store itself.
Open(r) ==
  /\ \E d \in documents : Begin(r, [Idle EXCEPT !.step = "open", !.file = d])
  /\ UNCHANGED <<store, old, documents, filled, filing, cache, redis, minute, sweep, unsafe>>

Send(r) ==
  /\ job[r].step = "open"
  /\ Finish(r)
  /\ UNCHANGED <<store, old, documents, filled, filing, cache, redis, minute, sweep, unsafe>>

-----------------------------------------------------------------------------
(* The filing package: pack_materials, once it found every signature.  (Its  *)
(* list as a PDF, which no row names and nobody reads, is left out.)         *)

\* _link_materials_to_filing looks which rows are missing ...
Pack(r) ==
  /\ Begin(r, [Idle EXCEPT !.step = IF linked THEN "zip" ELSE "join", !.last = packUrl])
  /\ UNCHANGED <<store, old, documents, filled, filing, cache, redis, minute, sweep, unsafe>>

\* ... and inserts them; the key refuses rows that another request inserted meanwhile,
\* and that ends the request.
Join(r) ==
  /\ job[r].step = "join"
  /\ IF linked THEN Finish(r) ELSE Go(r, "zip")
  /\ linked' = TRUE
  /\ UNCHANGED <<store, old, documents, filled, packUrl, cache, redis, minute, sweep, unsafe>>

\* This minute's package, if another request's is or may come to be under that name
\* (for PackIsThere only).
Reused ==
  {n \in {minute} : n \in store \cup {packUrl}
                     \/ \E q \in Requests : n \in {job[q].file, job[q].last}}

\* Variant: the previous package is deleted as soon as the new one is there.
UploadInstead(r) ==
  /\ job[r].step = "zip"
  /\ store' = (store \ {job[r].last}) \cup {minute}
  /\ old' = old \ {minute, job[r].last}
  /\ sweep' = IF sweep.step = "list" THEN [sweep EXCEPT !.names = @ \ {minute}] ELSE sweep
  /\ unsafe' = unsafe \cup Reused
  /\ job' = [job EXCEPT ![r].step = "link", ![r].file = minute]
  /\ UNCHANGED <<documents, filled, filing, cache, redis, minute>>

\* Uploaded under the name of this minute; an object of that name is young again.
UploadZip(r) ==
  /\ job[r].step = "zip"
  /\ store' = store \cup {minute}
  /\ old' = old \ {minute}
  /\ sweep' = IF sweep.step = "list" THEN [sweep EXCEPT !.names = @ \ {minute}] ELSE sweep
  /\ unsafe' = unsafe \cup Reused
  /\ job' = [job EXCEPT ![r].step = "link", ![r].file = minute]
  /\ UNCHANGED <<documents, filled, filing, cache, redis, minute>>

\* pack_url is written if it differs from what was loaded.
Link(r) ==
  /\ job[r].step = "link"
  /\ packUrl' = IF job[r].file = job[r].last THEN packUrl ELSE job[r].file
  /\ Go(r, "replace")
  /\ UNCHANGED <<store, old, documents, filled, linked, cache, redis, minute, sweep, unsafe>>

\* The package that was loaded is deleted; if that fails it stays (Abandon).
Replace(r) ==
  /\ job[r].step = "replace"
  /\ store' = store \ ({job[r].last} \ {job[r].file})
  /\ old' = old \ ({job[r].last} \ {job[r].file})
  /\ Finish(r)
  /\ UNCHANGED <<documents, filled, filing, cache, redis, minute, sweep, unsafe>>

-----------------------------------------------------------------------------
(* cleanup_orphans --no-dry-run.                                             *)

\* Variant: without the check of the age.
SweepReadAll ==
  /\ sweep.step = "idle"
  /\ sweep' = [step |-> "list", names |-> Names \ documents]
  /\ UNCHANGED <<store, old, documents, filled, filing, cache, redis, minute, job, unsafe>>

\* The rows of documents are read and the time taken: what counts as an orphan is
\* settled, but for its being there.
SweepRead ==
  /\ sweep.step = "idle"
  /\ sweep' = [step |-> "list", names |-> old \ documents]
  /\ UNCHANGED <<store, old, documents, filled, filing, cache, redis, minute, job, unsafe>>

SweepList ==
  /\ sweep.step = "list"
  /\ sweep' = IF sweep.names \cap store = {} THEN NoSweep
              ELSE [step |-> "delete", names |-> sweep.names \cap store]
  /\ UNCHANGED <<store, old, documents, filled, filing, cache, redis, minute, job, unsafe>>

SweepDelete ==
  /\ sweep.step = "delete"
  /\ \E n \in sweep.names :
       /\ store' = store \ {n} /\ old' = old \ {n}
       /\ unsafe' = unsafe \cup ({n} \cap Packages)
       /\ sweep' = IF sweep.names = {n} THEN NoSweep ELSE [sweep EXCEPT !.names = @ \ {n}]
  /\ UNCHANGED <<documents, filled, filing, cache, redis, minute, job>>

-----------------------------------------------------------------------------
(* The rest of the world.                                                    *)

Tick ==
  /\ minute < MaxMinute /\ minute' = minute + 1
  /\ UNCHANGED <<store, old, documents, filled, filing, cache, redis, job, sweep, unsafe>>

\* An object passes --min-age-hours.  Assumed: a request ends before its file does.
Age(n) ==
  /\ n \in store \ old
  /\ \A r \in Requests : job[r].file # n \/ job[r].step = "open"
  /\ old' = old \cup {n}
  /\ UNCHANGED <<store, documents, filled, filing, cache, redis, minute, job, sweep, unsafe>>

\* A worker or the script dies, or a call of it fails.
Abandon(r) ==
  /\ Failures /\ job[r] # Idle
  /\ Finish(r)
  /\ UNCHANGED <<store, old, documents, filled, filing, cache, redis, minute, sweep, unsafe>>

SweepAbandoned ==
  /\ Failures /\ sweep # NoSweep
  /\ sweep' = NoSweep
  /\ UNCHANGED <<store, old, documents, filled, filing, cache, redis, minute, job, unsafe>>

Continue(r) ==
  \/ InsertRow(r) \/ Invalidate(r) \/ Fill(r) \/ FillFails(r)
  \/ Send(r) \/ Join(r) \/ UploadZip(r) \/ Link(r) \/ Replace(r)

Next ==
  \/ \E r \in Requests : Put(r) \/ ReadList(r) \/ Open(r) \/ Pack(r) \/ Continue(r) \/ Abandon(r)
  \/ SweepRead \/ SweepList \/ SweepDelete \/ SweepAbandoned
  \/ Expire \/ RedisChanges \/ Tick \/ \E n \in Names : Age(n)

\* Requests go on, and Redis drops expired keys.
Spec ==
  /\ Init /\ [][Next]_vars
  /\ \A r \in Requests : WF_vars(Continue(r))
  /\ WF_vars(Expire)

-----------------------------------------------------------------------------
(* Properties. *)

\* A row of documents has its file, and so has one that a user is about to open, whatever
\* dies and whenever the cleanup runs: the file is stored before the row, and the cleanup
\* reads the rows before the objects and passes over the young ones.
DocumentsHaveFiles ==
  /\ documents \subseteq store
  /\ \A r \in Requests : job[r].step = "open" => job[r].file \in store

\* A document is sooner or later in the cached list for good: a list read before the
\* upload may be cached after it, and the DEL may be lost with Redis, but such a list
\* expires and is read anew.
ListCatchesUp ==
  \A d \in Uploads : d \in documents ~> [](cache.there => d \in cache.list)

\* The package that filing_docs links to is there, unless two requests wrote a package
\* in the same minute, or the cleanup deleted it.
PackIsThere == packUrl \in store \cup unsafe \cup {0}

\* The cleanup deletes orphans only: no row of any table names a file that it deletes.
OnlyOrphansSwept ==
  [][\A n \in sweep.names :
       sweep.step = "delete" /\ n \notin sweep'.names /\ n \in store \ store'
         => n \notin documents \cup filled \cup {packUrl}]_vars
=============================================================================
