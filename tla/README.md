# CAMIS 2026: a TLA+ verification project

CAMIS manages the life of a public event ("activity") in a shopping centre: an
activity is created, planned, given a security plan, filed with the government,
approved, held and closed. The backend is FastAPI with SQLAlchemy (async) over
PostgreSQL, with MinIO for files and Redis for caches and login counters; the
frontend is a React client of its API. This directory models the backend.

Contents: 1 inventory, 2 modules, 3 runs and bounds, 4 fairness, 5 proofs,
6 assumptions, 7 known divergences, 8 what is not modelled, 9 what comes next.

## 1. Inventory

| Part | Source (src/app/...) | State | Operations |
|---|---|---|---|
| Activity workflow | `services/workflow_service.py`, `routers/workflows.py` | `activities.status`, `activity_status_log`, `implementation_records` | `transition`, `reject`, `force_cancel`, `force_postpone`; notifications after the commit |
| Activity records | `services/activity_service.py`, `routers/activities.py` | `activities` | `create` (two commits), automatic start on reading, lists with pages, counts of the home page, history, risk level |
| Security plan and generated documents | `services/template_service.py`, `routers/templates.py` | `security_plans`, `activity_plans`, `key_materials`, `filled_documents`, DOCX and PDF objects in MinIO | draft, generate a version, finalize, submit, sign, sign the commitment, reject; PDF rendering in the background |
| Filing | `services/filing_service.py`, `routers/filings.py` | `filing_docs`, `approval_records`, `key_materials.sign_status` | validate, pack, hand over, sign or audit one material, approval record |
| Sessions | `auth.py`, `services/auth_service.py`, `routers/auth.py` | `refresh_tokens`, `users`, login counters in Redis | registration, login, refresh, logout, e-mail change |
| Administration | `services/admin_service.py`, `routers/admin.py`, `services/auth_service.py` | `role_requests`, `user_roles`, `users.is_active`, `is_archived` | submit, approve or reject a role request; replace roles; disable, archive |
| Documents | `services/document_service.py`, `services/minio_client.py`, `routers/documents.py`, `scripts/cleanup_orphans.py` | `documents`, MinIO objects, a Redis cache of lists | upload, list, download, orphan cleanup |
| Notifications | `services/notification_service.py` | `notifications` | send, list, mark read |
| Dashboard and reports | `services/dashboard_service.py`, `report_*.py`, the report service | none of its own; report data in Redis, PDFs in MinIO | counts and groupings over all activities, export of a monthly report |

How they interact. Every HTTP request runs as an asyncio task in one of four
gunicorn workers with a database session of its own (READ COMMITTED, objects
kept across commits). Services call each other in the same session: filing and
templates call `WorkflowService.transition`, which calls
`NotificationService` after its commit. There is no lock but PostgreSQL's row
locks, taken by writes. So the hard behaviour is: a request reads a row,
decides, and writes after other requests ran; several commits in one request;
a worker killed between two of them; background tasks (PDF rendering, export)
that run beside the request; several queries that answer one question while the
rows change; caches filled from stale reads; three stores (PostgreSQL, MinIO,
Redis) with no transaction in common.

Per part, what makes it correct:

* workflow: the log explains the status; only matrix moves decided on the present
  status are applied; terminal statuses are final; every change is announced;
  every request returns;
* security plan and filing: the materials of a filed dossier are marked signed; a
  rejected plan comes back new; a decision and its record go together; a handover
  leaves its mark; the plan of an approved activity is audited;
* generated documents: versions are numbered in order and the newest is the
  current one; a row that names a file has it, and the file renders the row's
  data; a PDF is rendered or its failure is on record;
* sessions: a spent token opens nothing, a logout ends the sessions it saw; the
  lockout lets through a bounded number of guesses and ends;
* administration: a role request is decided one way; requests do not pile up;
  somebody can still administer;
* documents: a row has its file; the package linked to is there; a cached list is
  not stale for ever; the cleanup deletes orphans only;
* dashboard and reports: figures that share a page agree with each other; the
  pages of a list leave nothing out; a report holds the data of its month.

The hazards, with the line where each bites and the properties about it, are in
`PROJECT.json`; those without a property have a note saying why.

## 2. Modules

| Module | Models |
|---|---|
| `ActivityLifecycle` | abstract: the life of one activity as a walk along the matrix, and an administrator's right to close it |
| `Workflow` | `WorkflowService`, `ActivityService.create` and the automatic start: one activity row, several requests |
| `WorkflowProofs` | the inductive invariant of `Workflow` and the theorems |
| `Filing` | extends `Workflow` with the security plan, the signatures, the filing package and the approval records |
| `FilingProofs` | extends `WorkflowProofs` with the inductive invariant of `Filing` and the theorems |
| `GeneratedDocuments` | versions of the documents made from forms: rows, DOCX objects, links, signing, PDF rendering |
| `GeneratedDocumentsProofs` | its inductive invariant and the theorems |
| `Lockout` | the counter of failed logins in Redis |
| `LockoutProofs` | its inductive invariant and the theorems |
| `Sessions` | registration, refresh tokens, logout, change of e-mail |
| `SessionsProofs` | its inductive invariant and the theorems |
| `Accounts` | role requests, roles, disabling and archiving of users |
| `AccountsProofs` | its inductive invariant and the theorems |
| `Storage` | uploaded files and their rows, the cached list, the package's object, the orphan cleanup |
| `StorageProofs` | its inductive invariant and the theorems |
| `Monitoring` | counts of the home page and the panel, the monthly report and its export, the pages of a list |
| `MonitoringProofs` | its inductive invariant and the theorems |
| `MC...` | the instance of each for TLC: symmetry, and the sets that a `.cfg` cannot write |

`Workflow` implements `ActivityLifecycle`; `Filing` is `Workflow` composed with
the services that call it, and implements it; `Monitoring` uses
`ActivityLifecycle` for what may happen to an activity while it looks.
`GeneratedDocuments` and `Storage` see the same files from two sides: what is in
them, and whether they are there.

### Workflow

One activity row; the activities do not interact but for the venue (see 8).
`status`, `log` (entries written by status changes), `createdLog` (the entry of
the creation, a separate commit), `archive` (`implementation_records`), `due`
(whether `estimated_time` is past), `lock` (the row lock), and for each request
`pc`, `call` (target and the status read) and `outbox` (notifications left).

A request is cut where the code awaits something that others can see:

* `ReadForTransition`: `db.get` and all guards of `transition`;
* `CompareAndSet` / `CompareAndSetFails`: `UPDATE ... WHERE status = from_status`,
  which waits for the row lock and keeps it;
* `CommitTransition`: log entry and commit;
* `Notify`, `Answer`: one committed notification each, then the response;
* `ReadForForce`, `CommitForce`: the same for `_force_terminal`, whose UPDATE has
  no condition on the status. The UPDATE is emitted at the commit, so waiting for
  the lock, writing and committing are one step.
* `Create`, `CreateLog`: the two commits of `create`;
* `Abandon`: the request dies or fails; its session rolls back.

A call whose guards fail changes nothing and is not a step. `due` is all that is
kept of time.

### Filing

The rows beside the activity are not locked with it. `plan` holds
`audit_status`, whether the newest version is older than the last rejection,
whether `rejected_at` is set, and as history (`overtaken`) whether a submission
was committed that had looked at the plan before the rejection; `sign` the `sign_status` of each material;
`filing` the `filing_docs` row; `approvals` the approval records, tagged with the
log entry they decided. `job` is what a request loaded and has yet to write; its field `late` is history
too: a rejection, or a version older than it, came since the submission looked.

SQLAlchemy writes an attribute only if it differs from what the session loaded,
and objects survive commits (`expire_on_commit=False`). Both are modelled:
`Written(old, new, current)` is the value after such a write, and a plan that
the session already holds is not read again by `transition` (`SetAndLoad`).

Single-row, single-commit operations (`OpenPlan`, `OpenMaterial`, `Generate`,
`SignMaterial`) are one step of somebody else. The multi-step ones belong to a
request: `Submit`/`CommitSubmit`, `RejectPlan`/`CommitReject`,
`SignForms`/`CommitSomeForms`/`CommitSignature`, `SignCommitment`/
`CommitCommitment` and then the transition, `Pack`/`CommitPack`, and all that go
through `transition`. The content checks of a plan (fields, phone numbers) are
left out: a plan may be submitted or not.

### GeneratedDocuments

The same service seen from the side of its files. The review itself is in
`Filing`; here `audit` only opens and closes the signatures. `rows` is
`filled_documents` (number, form data, whether `minio_path` and `pdf_path` are
set), `docx` what lies in the object store under each template and number,
`current` the versions the two plans point to, `linked` those the materials point
to, `material` and `signed` the `key_materials`. The content of a form is a text
that the user chose, and the manager's signature: an image sent with the request
(`Signatures`), or none; a request without one uses that of the newest version
again (`Reused`).

`job` is a request of several steps, with what its transaction has yet to
commit:

* `Generate`, `TakeNumber` (`_next_version`: committed rows only), `Upload` (at
  once in the object store, and never taken back), `Insert` / `InsertFails`
  (UNIQUE, which waits for an uncommitted row with the same key), `SyncNext` for
  the two forms that get a new version with the plan's staff count,
  `CommitVersion`, `Answer` (the router schedules the PDF again). Only the
  activity plan is rendered at once; the other templates wait for the signature;
* `SignStart`, one `SignDocument` or `SignDocumentOfNewMaterial` per document
  (creating the material commits what was done so far), `CommitSignature`. Each
  signer renders the rows without a document that it finds, and overwrites what
  another put there and has not committed (`Rendered`);
* `SignCommitment` or `WriteCommitment`, `LinkCommitment`, `CommitCommitment`.

`renders` are the background tasks: each looks its row up in a session of its
own, so one that was scheduled before the commit may find nothing. Renderings
started while signing find rows that are committed already and are not followed.
`contested` (numbers that two generations held together, and rows that two signers
rendered with different signatures before either committed), `unrendered`
(versions of which a rendering failed) and `calls` (the bound) are history
variables.

Left out: drafts, the content of the forms, and `responsibility_letter`, which is
treated as `risk_assessment` is, but for the synchronisation.

### Lockout

One address, several logins. `count` and `ttl` are the Redis key and whether it
expires, `redis` whether Redis answers, `pc` what each login is about to do. A
login is `CheckBlocked` (the count is read; without Redis nobody is blocked),
`Authenticate` (the password is checked, which takes long), and after a wrong one
`Increment` and, by the login that created the key, `GiveExpiry`. `KeyExpires` is
the end of the 15 minutes; `RedisGoes` and `RedisReturns` are outages; `Abandon`
kills a login between INCR and EXPIRE. `orphaned` is a history variable: that
this happened.

### Sessions

`email` and `open` are the rows of `users` (registered, and neither disabled nor
archived), `tokens` the rows of `refresh_tokens` in the order of their creation,
`links` the links sent for a change of e-mail, `job` what a request is doing. A
refresh is four steps: `Refresh` (verify), `Spend` (revoke and commit), `Reload`
(the account), `CreateToken` (insert and commit). Registration and the change of
e-mail check the address in one step (`Register`, `VerifyEmail`) and write it in
another (`Insert`, `ApplyEmail`), where UNIQUE(email) decides. A logout, and a
change of e-mail, end in `RevokeAll`. Tokens record their parent (the token spent
for them), the login they descend from and the address in the access token
issued with them. Access tokens and links are signed alike and hold the same
claims, so that either passes for the other (`Signed`): `Authorised` is
`get_current_user`, `VerifyEmail` takes what `verify_email_change_token` accepts.
`closed` and `late` are history variables: the logins that a revocation was to
end, and those of them that a refresh had verified before it. Expiry of tokens
only takes behaviours away and is left out.

### Accounts

`roles`, `barred` (disabled, archived) and `rows` (`role_requests`). Every
operation checks the caller's permission and reads a row in one step (`Submit`,
`Decide`, `Replace`, `Mark`) and commits in another, unconditionally. What is
written follows SQLAlchemy: a verdict overwrites another, `Replaced` deletes the
roles read and not wanted and inserts those wanted and not read, a flag is
written if it differs from what was read. PRIMARY KEY(user_id, role_id) is the
only thing that refuses a commit. The permissions are those of the seed data.
History variables: `verdicts` and `contested` of each role request, and
`usurped`, that a change was committed by somebody no longer entitled to it.

### Storage

`store` are the objects of one activity, `old` those that the cleanup no longer
takes for uploads under way; `documents`, `filled` and `packUrl` the rows that
name objects; `linked` whether the materials are linked to the package's row; `cache` the cached list and whether it expires; `redis` whether
Redis answers; `minute`, which packages are named after; `job` and `sweep` what
the requests and the cleanup are doing.

* upload: `Put` (MinIO), `InsertRow` (the commit), `Invalidate` (DEL, lost when
  Redis does not answer); generated documents likewise, without the cache;
* list: `ReadList` (nothing cached, so the rows are read), `Fill` / `FillFails`
  (SET with an expiry), `Expire`;
* download: `Open` (the row), `Send` (the object);
* package: `Pack` (loads `pack_url` and looks which materials are not linked yet),
  `Join` (links them, or breaks the key of a request that was faster), `UploadZip`, `Link` (the commit), `Replace`
  (the package loaded at the start is deleted);
* cleanup: `SweepRead` (the rows of `documents`, and the time), `SweepList` (the
  objects), `SweepDelete` one by one.

`Age` is the passing of `--min-age-hours`; a request is taken to be shorter than
that. `unsafe` is a history variable: packages that two requests wrote under one
name, or that the cleanup deleted.

### Monitoring

`board` and `born` are the statuses of the activities and the order of their
creation, `handed` those with a log entry to handed over, `due` those whose time
has come. What other requests do to an activity is one step along
`ActivityLifecycle` (`Create`, `Move`, `ForceEnd`, `ComesDue`); that this is sound is
what `Workflow` implementing it means.

* figures: `Ask`, then one `Query` after the other in the order of the code
  (`Queries`), then `Return`. `got` keeps the rows that a query counted, where
  the code keeps their number; `Wanted` is the condition of each query, `Scope`
  the month that a report is about;
* export: a figure whose data is put under a new key (`Keep`), fetched and
  printed by the rendering service (`Render`, `RenderFails` when the key is
  gone), uploaded under the name of the month (`Upload`) and announced
  (`Notify`); `Expire` and `Fail` are what may come between;
* list: `OpenList`, `CountRows`, `ReadPage` (a page is the rows at its `Place`s,
  the newest first, which takes creation times to differ, see 6), then row by row
  `Pass`, `Start` or `StartFails` (the automatic start, which raises if somebody
  else was first), `ShowPage`, and the reader goes on (`TurnPage`) or leaves. `Shown` is what each
  role and tab lets through. The page of one activity (`OpenOne`) is a list of one
  row.

`base`, `walked`, `known` and `late` are history variables.

## 3. Runs and bounds

Requests are model values; two are enough for every race between a read and a
write, since each property relates one stale reader to one writer and the log
remembers the rest. The lockout has three logins: its bound depends on their
number.

| Run | Instance | Shows |
|---|---|---|
| `WorkflowSafety` | 2 requests, deaths, log of 6 | the log explains the status and chains along the matrix, archives belong to activities that are over; `TerminalIsFinal`; `Workflow` implements `ActivityLifecycle` |
| `WorkflowLiveness` | 2 requests, no deaths, log of 5 | every request returns, every change is announced, a due activity starts or is closed |
| `FilingScreens` | 2 requests, no deaths, log of 4 | the materials of a filed dossier are signed, records are decisions, handovers are recorded, a rejected plan comes back new unless the rejection overtook its submission (2.2 million states, one to two minutes) |
| `FilingLife` | 1 request, deaths, log of 8 | an approved activity keeps an audited plan, the composition implements `Workflow` |
| `Generation` | 2 requests, failures, 4 templates, 2 texts of the plan, 2 signatures, 2 versions, 4 calls | numbers in order, the newest is current, files exist and match their rows where nobody contested them, a PDF comes or its failure is on record (900 000 states, two minutes) |
| `Lockout` | 3 logins, limit 2, 2 outages | the counter passes its limit by the logins that run at once, per outage; a lockout ends |
| `Sessions` | 2 requests, deaths, 2 users, 2 addresses, 3 tokens | a token is spent before its successor exists; a logout ends all sessions but those of a refresh it overtook (1.2 million states, one minute) |
| `Accounts` | 2 requests, deaths, 2 users, 1 first administrator, 2 role requests, archiving | contradictory verdicts need simultaneous decisions, pending requests stay bounded, an administrator remains |
| `Storage` | 2 requests, failures, 1 upload, 2 minutes, the cleanup, Redis coming and going | rows keep their files, also while they are opened, the package linked to is there, the cached list catches up (750 000 states, two to three minutes) |
| `Monitoring` | 2 activities, pages of 1, a reader who asks anything, an exporter of another month | figures agree with themselves, lists are complete and show no due activity as waiting, a report is its month's (1 million states, one to two minutes) |

Two runs are expected to fail; each shows a disagreement between documentation
and code, quoted under `findings` in `PROJECT.json`:

| Run | Instance | Shows |
|---|---|---|
| `FilingHandover` | 1 request, log of 6 | a dossier is handed over although signatures are missing: after a request for supplements only the existence of a `filing_docs` row is asked for |
| `StorageSweep` | 2 requests, 1 upload, 1 generated document | the orphan cleanup compares with `documents` only, and deletes generated documents and packages |

The bounds:

* `MaxLog`: no new call starts when that many entries are there or under way (the
  automatic start may add one). Four entries lead to the approval, six to the
  end, eight to the end through a supplement and its second review.
* `Announcing = FALSE` drops the notifications, which nothing in `Filing` reads.
  `Forms` is one form of the three that are always signed together.
  `DirectMoves` is what the client's screens send to PUT /status.
* `MaxVersion`: two versions per template; `MaxCalls`: four calls, which is a
  generation that races another, a plan that is synchronised, signed and given
  its commitment. `Signatures`: two, so that two signers agree or differ.
  `Filled`: two texts of the activity plan, whose document is rendered at once,
  under a number that somebody else may hold with another text; the other
  documents are rendered from committed rows, and one text of each is enough.
* `MaxAttempts` is a parameter of the code (5), 2 here: what
  `FailuresBounded` says is relative to it. `MaxOutages`: a first outage lets all
  logins through again, a second shows that each one does.
* `MaxTokens`: a login, its successor, and the successor's rival or successor.
* `MaxRows`: two role requests, which may be of one user or of two.
* `MaxMinute`: two minutes, so that two packages have one name or different ones.
* `PageSize = 1`: two activities fill two pages.
* `Apart`: in `Monitoring` exports run only while there are no activities. What an
  export carries is the month, whatever is counted, so the product of both says
  nothing more.
* `PlainRoles = {}` and `Marks = {"archived"}` in `Accounts`: AdminManager already
  is a role that one may ask for; disabling is written as archiving is.

A deadlock is checked where the model goes on for ever (`Storage`, `Monitoring`).
The other runs have `CHECK_DEADLOCK FALSE`: an activity that is over and whose
requests have returned is really at an end, and so is a run that reached its
bound.

Every property of a passing run has a mutant: a `Variant` operator, defined next
to the action it replaces, with which TLC finds the property violated.

## 4. Fairness

* `Workflow!FairSpec`: strong fairness of `Proceed(r)`: the event loop runs every
  ready task, and PostgreSQL grants a row lock in order of arrival, so a waiter
  that is enabled again and again gets its turn. Time passes, and somebody keeps
  reading the activity (the lists and the detail page call the automatic start),
  since nothing else starts an activity. No fairness is assumed of calls, of
  crashes or of forced ends.
* `Lockout!Spec`: weak fairness of `Continue(r)`, a login that did not die goes
  on, and of `KeyExpires`, Redis drops keys that expired. Logins need not come,
  Redis need not return.
* `Storage!Spec`: weak fairness of `Continue(r)` and of `Expire`, for the same
  reasons. `Abandon` may still end any request.

The other modules state no liveness: their requests only wait for the database.

## 5. Proofs

`WorkflowProofs` proves, for every set of requests and all bounds, with crashes
and notifications or without:

| Theorem | Statement |
|---|---|
| `TypeCorrect` | `Spec => []TypeOK` |
| `LogExplains` | `Spec => []LogExplainsStatus` |
| `Chain` | `Spec => []TransitionsChain` |
| `Archived` | `Spec => []ArchivedIsOver` |
| `LockHolds` | `Spec => []LockProtectsDecision`: between its conditional write and its commit a request has the row to itself |
| `Final` | `Spec => TerminalIsFinal` |
| `Refinement` | `Spec => Lifecycle`: `Workflow` implements `ActivityLifecycle` |

The assumptions are those of `Workflow`: no request is called "nobody", `MaxLog`
is a natural number, the switches are Boolean.

The inductive invariant is

    IInv == TypeOK /\ LogExplainsStatus /\ TransitionsChain /\ ArchivedIsOver
            /\ LockProtectsDecision /\ CallsAreLegal

`TransitionsChain` alone is not inductive: that a committed entry continues the
previous one needs to know that the status is still the one that the request
compared (`LockProtectsDecision`), that the request's target was allowed for
the status it read (`CallsAreLegal`) and that the last entry led to the status
(`LogExplainsStatus`). `ArchivedIsOver` needs that no transition starts from a
terminal status, which the matrix gives once the chain is known. `Final` and
`Refinement` are step properties that follow from the invariant and the lemma
`StepKinds`, which says that every step either leaves status and log alone,
creates the activity, or appends one entry.

`LockoutProofs` proves, for every finite set of logins, every limit and every
number of outages:

| Theorem | Statement |
|---|---|
| `TypeCorrect` | `Spec => []TypeOK` |
| `FailuresStayBounded` | `Spec => []FailuresBounded` |

The bound on the counter is not inductive: a login that passed the check still
has its increment to come. `RoomLeft` counts those logins (`Admitted`) with the
counter, `count + Cardinality(Admitted) < MaxAttempts + N * (1 + outages)`, and
says that during an outage, when everybody passes the check, the counter stands
still below `MaxAttempts + N * outages`, so that all `N` logins at once still fit.

`AccountsProofs` proves, for every set of users and of roles, every finite set of
requests and every length of the table:

| Theorem | Statement |
|---|---|
| `TypeCorrect` | `Spec => []TypeOK` |
| `OneVerdict` | `Spec => []DecidedOnce` |
| `PendingStaysBounded` | `Spec => []PendingBounded` |
| `AnAdminRemains` | `Spec => []AdminsRemain` |

Its invariant adds to the properties `JobsAreSound` (a decision is about a row
that exists; who replaces roles or sets a flag does so to somebody else, which
is what keeps an administrator) and `VerdictsSettle` (a row with a verdict is no
longer pending, and a decision still under way on it is a contested one: without
it a second verdict could come from nowhere). `PendingBounded` counts the
submissions under way with the pending rows: the guard of a submission sees no
pending row, so that only those under way with it can pile up.

`SessionsProofs` proves, for every set of accounts, addresses and requests and
every number of tokens:

| Theorem | Statement |
|---|---|
| `TypeCorrect` | `Spec => []TypeOK` |
| `RotationIsSafe` | `Spec => []RotationSpends` |
| `LogoutIsFinal` | `Spec => []LogoutCloses` |

A refresh is four steps, so both need to say what a request on its way holds
(`Exchanges`): its token is revoked from the commit of `Spend` on, and if the
sign-in it descends from was closed meanwhile, that sign-in is late.
`TokensDescend` keeps parents and sign-ins among the tokens that exist.

`StorageProofs` proves, for every set of files and of requests and every number
of minutes:

| Theorem | Statement |
|---|---|
| `TypeCorrect` | `Spec => []TypeOK` |
| `FilesStay` | `Spec => []DocumentsHaveFiles` |
| `PackStays` | `Spec => []PackIsThere` |

The cleanup reads the rows, then the objects, and deletes later:
`DocumentsHaveFiles` needs that a file waiting for its row is young and on
nobody's list, and that what is on the list has no row (`JobsAreSound`,
`SweepIsSound`). For the package, `LinksAreOwn` says that nobody else is about to
link to, or to delete, the package that a request is about to link to.

`GeneratedDocumentsProofs` proves, for every set of requests, every number of
versions and of calls, with failures or without:

| Theorem | Statement |
|---|---|
| `TypeCorrect` | `Spec => []TypeOK` |
| `NumbersStayInOrder` | `Spec => []NumbersInOrder` |
| `NewestStaysCurrent` | `Spec => []NewestIsCurrent` |
| `FilesStayThere` | `Spec => []FilesExist` |
| `DocumentsStayTrue` | `Spec => []DocumentsMatch` |
| `PreviewIsOnItsWay` | `Spec => []PreviewComes` |

Its invariant relates the numbers that requests hold to the committed rows. A
number is taken from committed rows and inserted much later: it is the next one
or somebody else committed it (`NumbersAreNext`), then it is contested (`Late`);
what is inserted and not yet committed is the next one, since UNIQUE made
everybody else wait, and belongs to one request (`JobsAreApart`). A document
rendered and not yet committed carries its signer's signature, or its row is
contested. With
`KeysUnique` and `Counted` (the committed numbers of a template are 1 to their
count) this gives the order of the numbers and the newest version. `Behind` and
`Backed` say which document lies behind each row on its way: uploads are visible
before the commit, so this cannot be said of committed rows alone. `Shape`
and `Filed` say which fields of a job a step uses.

`FilingProofs` proves, for every set of requests, of forms, and every bound:

| Theorem | Under | Statement |
|---|---|---|
| `ImplementsWorkflow` | `Crashes` | `FSpec => WorkflowSpec` |
| `FilingTypes` | | `FSpec => []FTypeOK` |
| `ApprovalsDecide` | | `FSpec => []ApprovalsAreDecisions` |
| `FiledStaysSigned` | no client moves from the security phase to filing by PUT /status | `FSpec => []FiledIsSigned` |
| `HandoverStaysRecorded` | no client moves to the handover by PUT /status | `FSpec => []HandoverIsRecorded` |
| `ApprovedIsAudited` | one request at a time | `FSpec => []ApprovedStaysAudited` |
| `ResubmittedIsNew` | no client moves from the security phase to filing by PUT /status | `FSpec => []ReviewedIsNew` |

The conditions are what the code needs and does not enforce itself. The screens
keep to those on PUT /status (`MCFiling.ScreenMoves`), so all but
`ApprovedIsAudited` hold of the product with any number of simultaneous requests;
that one is false with two, as section 7 describes. `Crashes` is needed since a
commit that breaks UNIQUE(activity_id) of the plan rolls back, which `Workflow`
has only as the death of a request. `FiledIsSigned` is about `sign_status`, not
about which version of a document was signed; `ApprovedStaysAudited` about the
`audit_status` of the plan, not about the audits of single materials.

The invariant `FInv` is that of `Workflow` (its proof is reused: `StepOfWorkflow`
says that every step of the services is a step of `Workflow`, or such a
roll-back) and, per request, how its job goes with its call (`Agrees`) and what
it found that still holds: who is about to file has signed everything else
before (`Signs`), who is about to hand over found a package (`HandsOver`), and
with one request at a time what was found of the plan is still so
(`SeesPlan`). `FiledIsSigned` alone is not inductive because the
signatures are made in several commits before the move. The parts are
implications from the conditions above, so that one induction serves all but
`ResubmittedIsNew`, which has an invariant of its own on top, `Reviewed`: a
submission that nothing overtook still finds a new version, and the rejection it
found is the one that stands (`Resubmits`); an old version is one whose rejection
stands, and no such plan awaits a signature.

`MonitoringProofs` proves, for every finite set of activities, every set of
months and of requests, every page size:

| Theorem | Statement |
|---|---|
| `TypeCorrect` | `Spec => []TypeOK` |
| `FiguresStayInAgreement` | `Spec => []FiguresAgree` |
| `ListsStayRight` | `Spec => []ListsAreRight` |
| `ReportsStayTheirMonths` | `Spec => []ReportsAreTheirMonths` |

Each property speaks of a finished answer; the invariant says what holds in the
middle of one. `Slipping`: an activity met by the first of two counts was counted,
or is past what both ask for, or has a status that the second, still to come, asks
for; this is where the order of the queries and the matrix meet. `Growing`: what
was counted as approved has been handed over before (`BoardIsSound`), and what
was counted first is still among what is counted later. `Covers`: the places
before the page were shown, and those of the page are in its rows; without a new
activity places do not change (`PlacesStay`). `Started` is the loop over the rows, `Exports` the way of
the data from its key to the store.

Every safety property that a passing run checks is the statement of a theorem.
Only model-checked: liveness (`RequestsReturn`, `ChangesAnnounced`,
`DueActivityLeavesApproved`, `LockoutEnds`, `ListCatchesUp`), since fairness is
out of the prover's reach. The two runs that are expected to fail have no theorem.


## 6. What holds by assumption

* PostgreSQL: a transaction's writes become visible together; an UPDATE waits for
  the row lock and evaluates its WHERE on the committed row; a waiter is not
  overtaken for ever; a lost connection rolls back.
* MinIO: an upload is atomic and replaces the object of that name.
* Redis: each command is atomic; an outage keeps the data.
* A request is shorter than the cleanup's `--min-age-hours` (one hour).
* The screens: `MCFiling.ScreenMoves` is what the client's
  `getAvailableTransitions` sends to PUT /status.
* The permissions are those of the seed data.
* Activities are created at different times: lists are ordered by `created_at`
  with nothing to break a tie (`services/activity_service.py:158`), and two pages
  might show tied rows in different orders.
* A signer finds, renders and uploads the blank rows of a template in one step,
  and does not wait for a row that another signer has written and not committed
  (`Rendered`): the wait comes at the flush, after the uploads, and only delays.
* Constants: activities, logins and the requests of `Accounts` are finitely many;
  no request is called "nobody" or "stored", no text "auto" or "none", no signature "none", no file is a
  number, and nothing has the name that a module keeps for its absence. TLC
  evaluates these assumptions in the runs.

## 7. Known divergences

What the documents say and the code does not do, met while modelling. The first
two are runs; the others are behaviours of the models, or were read beside them.

* Handover without signatures: run `FilingHandover`.
* The cleanup deletes what other tables name: run `StorageSweep`. It also deletes
  the exported reports (`reports/<month>.pdf`), which no table names; `Monitoring`
  has no cleanup, so `ReportsAreTheirMonths` is about reports until then.
* `docs/state-machine.md:101` says that terminal statuses lock all further
  operations. A forced end that read the activity before it was closed
  overwrites one (`CommitForce`); the log then names a status the activity was
  no longer in. `TerminalIsFinal` is therefore about leaving the terminal
  statuses, which does hold.
* `docs/analysis-design-report.md:1383` says that `UPDATE WHERE
  status=old_status` detects conflicts. It compares the status, so a decision
  made before an activity went away from a status and back is still carried out.
* `docs/analysis-design-report.md:801`: creation writes the activity and its log
  entry. They are two commits, and the second may be missing.
* `docs/state-machine.md:108`: the government's decision leaves an
  ApprovalRecord. One made with PUT /status does not.
* `docs/state-machine.md:96`: a rejected plan needs a new version before it comes
  back. It does (`ReviewedIsNew`, run `FilingScreens`), except that a submission
  under way while the plan is rejected brings the old one back (`overtaken`). Nor
  is a version new that was made after an earlier rejection and before one that no
  longer stands: once the plan is submitted, `rejected_at` is forgotten.
* `docs/state-machine.md:94`: the leader's signature follows the submission. A second
  submission that read the plan before the signature puts it back to await one when
  it commits, even after the activity was approved (`ApprovedStaysAudited` is about
  one request at a time).
* `docs/adr/0006-document-template-system.md:17`: (activity, template, version)
  is unique. The row is; the object is uploaded before the row, so that of two
  generations with one number the loser's document may be the one that stays
  (`contested` in `GeneratedDocuments`).
* `docs/adr/0006-document-template-system.md:18`: on the manager's signature the
  documents are generated once, with it. Two signers with images of their own both
  render the rows that neither has committed (`template_service.py:503`): if the first commits and the second dies after its
  upload, the row has one signature and the document the other (`contested` too).
* `docs/analysis-design-report.md:289`: the package is the snapshot of the newest
  materials. A material generated again after its signature links to a version
  without a document, and the package lacks it.
* `docs/rbac.md:208`: one pending role request per user. Two submissions at once
  make two (`PendingBounded` says how many), and every later one fails.
* A role request rejected and approved at the same time may end as rejected with
  its role granted (`contested` in `Accounts`).
* `docs/rbac.md:159`: a user with several roles sees the union. `_visibility`
  takes the first role of a fixed order.
* `docs/data-layer.md:297`: a login that succeeds deletes the counter. Nothing
  deletes it.
* `docs/browser-tests.md:104`: the counter expires after 15 minutes. INCR and
  EXPIRE are two calls: a login that dies in between leaves a counter for ever
  (`orphaned` in `Lockout`).
* `docs/data-layer-report.md:247`: the cached list is deleted when a file is
  uploaded. A list read before may be cached after (`ListCatchesUp`: it expires).
* Two refreshes with one token make two successors; a refresh under way survives
  a logout (`late` in `Sessions`).
* Two packages made in one minute have one name; the second replaces the first
  (`unsafe` in `Storage`).
* A list answers 500 when another request started the same activity first
  (`StartFails`). Its option to sort by the latest operation
  (`frontend/src/components/activities/ActivityFilters.tsx:66`) is not read by
  the router.
* An activity cancelled between the two counts of the rate of compliance is in
  both; of two exports of one month the one with the older data may be the one
  that stays.

## 8. Not modelled

* The venue check of `create`: it is the only place where two activities meet, it
  only refuses new ones, and nothing relies on it later.
* The order of the status history by time: nothing decides by it.
* The inbox of notifications: single statements on a user's own rows.
* `audit_material` (round, opinion): the round may be lost between two audits, and
  nothing reads it.
* The contents of forms, drafts, templates and packages, their checks and layout;
  the risk level, a function of a form. So is the PDF that lists a package's
  materials: no row names it.
* Searches and filters of lists, the grouping of plans by audit status, the cache
  of single documents (their rows never change) and all other plain reads.
* The client, the rendering services (but for their outcomes), configuration,
  logging, migrations and seed data.

## 9. What comes next

1. `ApprovedStaysAudited` with races: it fails when a submission that read the plan
   before the signature commits after it. As for `ReviewedIsNew`, a history variable
   could name that case and nothing else.
2. `Storage`: `ListCatchesUp` stays with TLC, but that only a list read before an
   upload can be cached late is a safety fact that could be proved.
3. `GeneratedDocuments`: that a material marked signed points to a version that
   carries a signature, unless one was generated since.
4. `Accounts`: what it takes for `usurped`, a change by somebody no longer
   entitled to it.
