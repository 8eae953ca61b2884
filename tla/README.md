# A TLA+ model of ProofHire

ProofHire turns a user's GitHub repositories into reviewed evidence, compares a
job posting with it, and generates documents whose claims are checked against
it. This directory holds TLA+ modules for the parts of it where concurrency,
failure and ordering decide whether the result is right, TLC configurations that
check them on small instances, and TLAPS proofs of what matters most for all
instances.

All paths below are relative to the repository root; `api/` stands for
`apps/api/proofhire_api/`, `worker/` for `apps/worker/proofhire_worker/`, `web/`
for `apps/web/src/`.

## The system

One FastAPI process (uvicorn, one worker), one Dramatiq process with two threads,
PostgreSQL, and a Redis used for the queues, progress events, cancel flags, the
token denylist, rate limits and an embedding cache. In the deployed container
Redis has no persistence and everything restarts together
(`infra/docker/space-entrypoint.sh`).

| component | state | operations | talks to |
|---|---|---|---|
| job pipeline: `api/routers/jobs.py`, `worker/intelligence/job_analysis.py`, `coverage.py`, `worker/cancellation.py` | `Job.status`, `Requirement`, `EvidenceMatch`, Redis flag `cancel:job:{id}` | analyze, cancel; actors `analyze_job`, `compute_coverage` | queue `ai`, LLM, evidence search |
| repository sync: `api/routers/github.py`, `worker/ingestion/sync.py`, `staleness.py` | `SyncRun`, `Repository`, `SourceArtifact` | trigger, actor `sync_repositories`, disconnect | GitHub, queue `ingest`, evidence |
| extraction and review: `worker/intelligence/evidence_extraction.py`, `api/repositories/evidence.py`, `api/routers/evidence.py` | `Evidence`, `EvidenceSource`, `Skill` | actor `extract_evidence`, `save_candidates`, `PATCH /evidence/{id}` | queue `ai`, LLM, GitHub |
| task delivery: Dramatiq, `worker/broker.py` | messages in Redis | send, consume, retry, requeue | all actors |
| search, matching and graph: `api/repositories/evidence.py`, `worker/intelligence/coverage.py`, `match_label.py`, `api/services/evidence_graph.py` | `EvidenceMatch`; the graph is computed | hybrid search, rerank, coverage matrix, graph | evidence, LLM, generation |
| generation: `worker/intelligence/generation.py`, `claim_finalizer.py`, `fact_guard.py`, `positioning.py` | `GenerationRun`, `GeneratedDocument`, `GeneratedClaim` | write, verify, repair, remove | LLM, matches, confirmed facts, cancel flag |
| export: `worker/render/` | document references, files | render, parse back, accept or refuse | documents, supported claims |
| GitHub connection: `api/routers/github.py`, `api/services/github_oauth.py`, `github_client.py` | `GitHubConnection`, `Repository.selected` | connect, callback, refresh, select, disconnect | GitHub, sync |
| sessions, demo account, account deletion: `api/routers/auth.py`, `demo.py`, `api/security/`, `api/dependencies.py` | `User`, JWTs, Redis denylist | sign up, login, refresh, logout, demo, delete account | every request |
| rate limits: `api/security/rate_limit.py` | a Redis counter per window | consume | expensive endpoints |
| capture: `apps/extension/`, `web/components/capture-handoff.tsx`, `api/routers/jobs.py` | session store of the extension, `Job` | capture, read, submit, finish | extension, page, API |
| applications board: `api/routers/applications.py`, `web/components/applications-board.tsx` | `Application.stage`, the page's copy | track, set stage | captured jobs |
| progress events: `worker/events.py`, `api/routers/events.py`, `web/lib/events.ts`, `web/components/resume-workspace.tsx` | Redis channel, open streams, what the page shows | publish, stream, wait, load, export | generation |
| LLM retries, embedding cache: `worker/intelligence/retry.py`, `embedding_cache.py` | attempts; cached vectors | call, embed | LLM, Redis |
| classifiers, secret scanner, confidence | none | pure functions of strings | |
| profile, health, telemetry, migrations, evaluation | rows, metrics | CRUD and reads | |

What is hard in it, component by component:

- **Job pipeline.** The endpoint refuses to start a job whose status says it is in
  flight, so such a status must be backed by work; the status is committed before
  the message is sent; actors are retried, time out and are redelivered; two
  analyses or two coverage runs of a job can overlap; the session writes a status
  only when it differs from the one it loaded; the cancel flag outlives the run it
  was meant for. Correct means: nothing stays "in flight" for ever, one ranking per
  requirement, no duplicate requirements, "ready" means judged.
- **Sync and extraction.** A stored artifact is never offered to extraction again,
  so losing its batch loses it for good; a `finally` clause commits partial work;
  the repository moves while old batches are on their way; two syncs overlap; the
  user reviews at the same time. Correct means: live evidence describes the
  analyzed commit, every artifact reaches extraction, one live row per claim, a
  run ends.
- **Generation and export.** The document must not contain a sentence that
  verification refused; the loop is bounded; indices come from an LLM; runs stay
  `running` after a time limit; it shares the cancel flag with coverage.
- **Search and matching.** Each branch of the search is cut before the signals are
  added up; between the search and the commit of a match the user may reject the
  evidence, a push may make it stale, a disconnection may delete it. Correct means:
  a row is left out for better ones only, and a gap is shown only where a search has
  found one.
- **GitHub connection.** A refresh works for minutes on a connection and on rows read
  at its start. Correct means: no repositories without their connection, no selection
  taken back.
- **Sessions.** Check and revocation are separate Redis commands; the denylist
  expires with the token; Redis may be away or restarted; guests share one account.
- **Rate limits.** INCR and EXPIRE are separate; a fixed window has a boundary.
- **Capture and board.** Submissions repeated after a lost answer, in a second tab or
  under another account; optimistic updates with rollback and answers out of order.
- **Progress events.** Nothing is replayed, an event names a job and not a request, and
  the end may be published before the page listens.

`PROJECT.json` lists each hazard at its line with the properties aimed at it.

## Modules

### JobPipeline

One job. `status`, `rows`, `matches` are the committed `Job.status`, `Requirement`
and `EvidenceMatch` rows, `flag` the Redis key, `queue` the messages of the two
actors by retry number, `run[w]` what thread `w` executes with everything its open
session has read or written and not committed, `api[r]` a request inside its
handler. `judged`, `overlap`, `lost` and the colour of `flag` are history variables.

The actions follow the code from one commit, external call or statement that sees
other transactions to the next: `AnalyzeCheck`, `AnalyzeCommit`, `AnalyzeSend` are
the three steps of the endpoint; `AnalysisStart` .. `AnalysisSend` those of
`_analyze` with `save_analysis`; `CoverageStart` .. `CoverageClear` those of
`_compute_coverage`. The coverage transaction is modelled with what PostgreSQL at
READ COMMITTED and the unique constraint of `evidence_matches` make of it: the
DELETE takes its snapshot (`CoverageDelete`), waits for rows another open transaction
has deleted and skips those that are gone (`CoverageLock`), a row already visible is
updated and otherwise inserted (`Persist`), and the commit waits, succeeds or raises
(`MayCommit`, `Conflict`). A commit takes its deleted rows away from the other open
transactions as well (`gone`, `Bereft`): an UPDATE of such a row matches nothing.
The UPDATE of a kept row is taken to happen at the commit. `Assign` is SQLAlchemy's unit of work: assigning the value
the session loaded emits no UPDATE, also when the row has changed since. `Fail`
(an exception or time limit at any statement), `Crash` (redelivery), `AnalyzeDies`
and `Restart` (Redis forgets everything) are the faults.

A rerank, its retrieval and its embedding are one step with a free outcome:
verdict or not, row or not, any evidence. Scores, reasons and events are left out.

### RepositorySync

One repository. `tree` is the head of the default branch at GitHub, `artifacts` and
`evidence` the committed rows, `analyzed` the tree of `last_analyzed_sha`, `sync[r]`
the `SyncRun.status`, `queue` the messages with their batches, `run[w]` the state
of a thread with its flushed and uncommitted rows. `handled`, `past`, `mishaps` are
history variables.

`SyncTake` .. `SyncEnd` are the steps of `_run` and `_sync_one_repository` file by
file, in the order of the git tree: compare with the rows this transaction sees
(`SyncSkip`, `SyncChanged`), insert (`SyncInsert`, which waits for another
uncommitted insert of the same row), mark stale and commit (`SyncCommit`), send the
batch (`SyncSend`). `SyncConflict` is the unique or foreign key violation: the
session needs a rollback, so the commit in the `finally` clause raises too and
Dramatiq retries. `SyncRaises` is any other exception: the run is `failed` and the
`finally` clause commits what was flushed. `SyncTimesOut` is Dramatiq's time limit,
which is not an `Exception`: the commit happens, the status stays, the message comes
back. `ExtractTake` .. `ExtractDone` are `_extract_for_repository` group by group with
`save_candidates`. `Review` is the review endpoint with any status, `Disconnect` the
cascade from the repository row.

Abstractions: files that are deleted, excluded, binary or hold a secret are all
`Absent`; all files are P0 or P1, as P2 files never reach extraction; grouping by
size is any partition; an answer holds at most one new claim, since each item of an
answer is treated alike and saved in one commit; a review is one step, since the
code's read before it only checks ownership and can at most make it a no-op;
reconnecting after a disconnect makes rows of another repository.

### Generation

The generations of one job. `flag` is the cancel key, `queue` the messages, `rows`
the `GenerationRun` rows, `documents` the `GeneratedDocument` rows with their claims,
`run[w]` what a thread executes. A document is a tree of units of text, each named by
the draft and the place it was written at, so that the model sees which unit a
removal takes. `Units` are the numbered units the verifier is shown, where the `Number` of
a place is how many units come earlier in the document; `LocationForIndex` finds the place
again by counting bullets over the entries, as the code does. A removal leaves a blank
where the code drops the unit, since nothing counts the units again. The history fields are `invented` and `index` of a claim,
`verified` of a document (the draft the last verification saw), and `mishap` of a row.

`Generate` is the endpoint, `GenTake` the creation of the row, `GenEnter` and
`GenPosition` the two stages that end in a look at the flag, `GenWrite`, `GenVerify`,
`GenRepair`, `GenRemove` the loop of `_generate_resume` and `_generate_cover_letter`,
`GenPersist` the one commit of document, claims and status, `GenAnnounce` the event
after it, `GenCancelled` and `GenClear` the handler of `JobCancelled`. `GenRaises` is
`except Exception`, `GenCut` what that does not catch (time limit, a step outside the
try, a session that cannot commit in the handler), `GenCrash` a process that dies and
whose message is delivered again, `Restart` the container. `FlagVanishes` stands for
the expiry of the flag and for the coverage run that consumes it. `Export` is
the export endpoint with its gate `Exportable`.

Abstractions: the writer's answer is any of a few shapes, each draft is new text; a
claim is judged by its type, the sources in which the asserted value appears verbatim
and the verifier's opinion, and `FinalStatus` decides; an answer has at most
`MaxClaims` claims; a claim quotes a unit that stands in one place, word for word, or has
`OwnWords`: a paraphrase, a part of a unit, words that stand in several places. `export.py`
looks for the claim in the text of the PDF, and `MayBeFound` says what it can find there: a
unit only if it is printed, own words by chance. Whether they are found, and whether layout
or encoding breaks a text that is printed, is left open: `Export` may happen, and a refusal
changes nothing. Modes and positioning are wording.

The module implements `GenerationLife` (`ImplementsLife`), under the mapping `Life`:
the accepted requests, the rows without their faults, and the rows with a document.

### GenerationLife

What a generation promises to those who watch it from outside: a run begins for a
request that was asked for, ends once, and has a document exactly if it succeeded; the
only exception is `Overwrite`, a success whose announcement raised. A request may get
several runs (a worker died) or none (the message was lost). `Generation` implements it,
`DocumentPage` extends it, so that what the page is promised is what the actor does.

### DocumentPage

`resume-workspace.tsx` with `lib/events.ts` over `GenerationLife`: one job and one page.
`post[r]` is a press of the button Generate with its request, `wait` the one
`waitForCompletion` with its stream and timer, `loads` the calls of `loadDocument` under
way, `page` what is shown. `Publish` is the worker's `publish_event` after its commit,
heard only by who is subscribed then; `Subscribe` and `Forward` are the API's stream;
`StreamFails`, `StreamEndsQuietly`, `TimeOut`, `PostFails`, `LoadFails` and `Reload` are
what can go wrong. Streams carry ends only: the other events change nothing here.

### EvidenceMatching

One requirement and the evidence of its user. `signal` is how each row relates to the
requirement (text rank, cosine, shared skills), `status` the rows, `match` the committed
`EvidenceMatch`, `run` the coverage run with its hits; `verdict`, `late` and `erased` are
history. `LexicalBranch`, `VectorBranch`, `SkillBranch`, `CandidateSets`, `Score` and
`Ranked` are `hybrid_search`: three limited branches, their union, a weighted sum, an
ordered and limited answer. Ties come in any order, and the vector branch may return any
rows, since its IVFFlat index is approximate and filters after the scan. `Search`,
`NoHits`, `RerankFails`, `RerankNone`, `RerankPicks`, `RerankConflict` are
`_compute_coverage` for the requirement; `Extract`, `Review`, `GoStale`, `Disconnect` are
what happens to evidence meanwhile. `MatrixLabel`, `Facts` and `Visible` .. `Edges` are
its readers: the coverage matrix, a generation, and `project_graph` for every filter and
limit of the page.

Abstractions: coverage runs do not overlap (JobPipeline has that); rank and cosine are
counted in halves; a job is cancelled before the search only; rows come from the
repository of their one source; a `Disconnect` that would wait for rows of an open
coverage transaction, in which PostgreSQL may find a deadlock, is not enabled;
`project_graph` reads its tables at one moment, where the code has several SELECTs that a
commit may come between.

### GitHubConnection

The requests of one user, await by await: `CallbackEnter` .. `CallbackStore`,
`RefreshEnter`, `RefreshLoad`, `RefreshStore`, `PatchGet`, `PatchCommit`,
`DisconnectRead` .. `DisconnectCommit`, and `Fails` for any exception. `connection` and
`rows` are the committed rows, `call[r]` a request with what it has read or deleted and
not committed. The unique columns and row locks are PostgreSQL's. The state token of
the OAuth handshake is valid, as an invalid one changes nothing; a listing of GitHub is
one read; names, languages and dates of a repository are left out.

### Sessions

The endpoints of `auth.py` and `demo.py` await by await, for clients that keep the pairs
of tokens they were given. `pairs` are the token pairs with their issue time, login and
parent, `denied` the denylist with its expiry, `now` the clock in fractions (`Second`) of
the whole seconds that JWTs and Redis count in. `Presented`, `LoadUser` are the
dependency every request goes through; `Refresh` is the rotation, `LogoutAccess` and
`LogoutRefresh` the two commands of a logout, `DeleteAccount` the deletion,
`DemoSession` and `InsertUser` sign-up and the creation of the demo account.
`RedisRestarts` empties the denylist. `ended`, `raced`, `forgotten` are history.

### RateLimit

One bucket. `Incr`, `Expire`, `Refuse` are the commands of `_consume`, with other requests
in between; `WindowTick` is time and the expiry of the key; `RequestFails` is any failing
command (the limiter then lets the request through) or a dying process; `BucketIsLost`
empties it. `TimeToLive` is what Redis answers to TTL: whole seconds, rounded to the nearest;
a tick is a part of a second. `recent` tells how long ago the last `2 * Limit + 1` admissions were, so that
`AtMostTwiceTheLimit` compares one of them with the window. `LimitInit`, `LimitSpec` and the
like have names of their own, so that one module can reason about this one and Sessions.

### JobCapture, ApplicationsBoard

`JobCapture` is the extension's store (`store`), the capture pages (`tab`), the account
of the browser and `capture_job`: `CaptureGet`, `CaptureCommit`, `CaptureReread` are its
look, its insertion and what it does after a conflict. `ApplicationsBoard` extends it
with the board: `board` is the page's copy, `apps` the rows, and `TrackGet` ..
`Refresh` are the API statement by statement; `SetStage`, `StageAnswered`,
`TrackAnswered` are the optimistic page. Requests of both share `request`, the API's
requests under way, and the jobs that captures make are what the board lists. `mixed`
is history. Lost connections (`CaptureLost`, `BoardLost`) leave the API at work with
nobody to answer to; an error in the `refresh` after a commit is a `BoardLost` too. The board
is opened once, and an account stays (Sessions deletes).

### Proofs, instances, variants

The modules `*_proofs` have the proofs about the module they are named for;
`Security_proofs` has those about Sessions and RateLimit, which share no state. The `MC` modules hold values,
symmetry sets and state constraints for TLC. Definitions whose comment begins with
"Variant" are faulty forms of the definition after them; no specification uses them.
They show that each checked property does notice the mistake (`PROJECT.json`,
"mutants").

## Runs

| run | instance | checks |
|---|---|---|
| jobs_ready | 2 threads, 2 requests, 2 texts, 2 evidence items, 1 fault, 1 cancellation | ready and quiet means all judged; one match per requirement |
| jobs_settle | 2 threads, 2 requests, 1 text, 1 evidence item, 1 fault, weak fairness | types; a status in flight has work and leads to settled or lost; no duplicates without overlap |
| sync_artifacts | 2 files, 2 contents, 2 syncs, 2 threads, 1 push, 1 fault | types; stored artifacts reach extraction; one live row per claim; live evidence describes the analyzed commit |
| sync_settles | 1 file, 1 fault, a review, a disconnection, weak fairness | every accepted run ends, or something was lost |
| gen_documents | 1 thread, 1 request, 4 résumé shapes, letters of 1 and 2 paragraphs, 3 drafts, any 2 claims | types; refused units are gone; what lost a supported unit is not exported |
| gen_runs | 2 threads, 2 requests, 2 faults, 1 cancellation, documents without text or claims, weak fairness | a second document needs a crash; runs end; implements `GenerationLife` |
| page | 2 presses, 2 runs, 1 reload, fair answers and timer | types; the page shows its own document with its own claims; "generating" ends |
| search | 3 rows of 2 repositories, 4 kinds of signal, 2 keywords, limits of 2, 2 coverage runs, 1 review | types; who is left out of the hits; the graph agrees with the matrix and shows only gaps that were found; rejected evidence reaches a generation only if rejected too late |
| github | 3 requests, 2 accounts of one repository each, 2 callbacks, 2 inserting refreshes | types with the unique columns; repositories have their connection; selections are kept |
| sessions | 2 clients, the demo address, 2 accounts, 2 logins, 3 pairs, lives of 2 and 3 | types; logout ends a session; a refresh token is spent once; demo sessions are the demo account's |
| limits | 3 requests, limit 2, window of 2 seconds in thirds, 1 fault | types; twice the limit at most; no counter for good; Retry-After is right to within half a second |
| tracking | 2 accounts, 2 captures, 2 tabs, 2 requests, 3 stages | types; a capture is forgotten only once stored; pages say what is stored; one application per job; the board shows the database |

Two threads are what the deployment starts, and every hazard found needs at most
two runs at once. Two texts and two evidence items let a run be cancelled, or fail,
between requirements and let two rankings differ. The retries are the code's. In
sync, two contents give a change and a return, two files a flush before a
failure and two groups, two syncs an overlap. In generation, a résumé with an empty
entry before one with bullets, and one with bullets in two entries, show every way to
number a bullet wrongly; two claims can refuse one unit, two, or a unit that a supported
claim needs; `MaxRepairs` is the code's. What the text is does not change how a run
ends, so `gen_runs` has letters without paragraphs, no claims, and instead two faults, of which one
may hit the repetition of the other. In `page` two presses are what a completion needs
to reach the wait of another; the theorem is about any number. In `search` three rows exceed the limits of two, the
signals are strong on one branch, moderate on all, found by the vector alone and
unlike; `KeywordCount` 3 with two keywords is an answer that repeats one. In `github`
three requests are a refresh, what races it, and what the user does next. In `sessions`
two clients race on one pair or hold two; lives of two and three half-seconds let a
token be used in its last second and expire. In `limits` a third request finds the
bucket in the state two others left it in; thirds of a
second show each way of rounding: up, down, and to nothing. `MaxFaults`, `MaxCancels`, `MaxPushes`,
`MaxReviews`, `MaxDisconnects`, `MaxRuns`, `MaxReloads`, `MaxCallbacks`, `MaxStores`,
`MaxTime`, `MaxClaims`, `MaxUsers`, `MaxLogins`, `MaxPairs`, `MaxCount` and the sets of requests are
only there to make the instances finite. `CHECK_DEADLOCK FALSE`: with all requests used
up and everything processed the system rightly stops.

State constraints: `jobs_ready` stops where two coverage runs, or two analyses, have
overlapped (`NoCoverageOverlap`), `github` where a refresh has overlapped a
disconnection (`NoRace`), `sessions` where Redis has lost the denylist
(`NotForgotten`), and `tracking` where two changes of an application have been mixed: the
histories only grow, and the properties say nothing, or nothing new, from there on.
`tracking` explores the board with one capture and one capture page, and the extension
with two (`Bounds`).

**Guards and mishaps.** Several properties hold only outside events that a history
variable records. Each such event is a known gap of the code, listed as a hazard;
the property says that there is no other way. `lost` is set when a message was
dropped or never sent, `overlap` when two runs of the same actor were in their
transactions together, `mishaps` by a push that returns to an earlier content or
removes a file, a sync cut short after a flush, overlapping syncs, a batch
superseded on its way to the LLM, and a review that makes a dead row live.

In generation the row's `mishap` plays this part: `cut` when nothing handled what ended
the run (the status stays `running`), `crashed` when the message came back,
`unannounced` when the handler overwrote `succeeded` with `failed` because publishing
the event raised after the commit. A claim that the verifier returns under the number
of another unit, or under none, is outside `UnbackedUnitsAreGone`: its sentence stays
in the document, and the export gate looks at supported claims only.

On the page, `crossed` is an earlier press not settled, or still waited for, when the button
was pressed again, or a run started anew for it; `switched` a document replaced during an export. In
`Sessions`, `raced` is a refresh that overlapped another or a logout, and `LastSecond` the
second before a token expires; in `GitHubConnection`, `raced` and `switched` are a
refresh that overlapped a disconnection and an account put in place of another.

**Where the code and its words part.** Seen while modelling; the properties admit
exactly these and no run reports them as errors:

- What a failed sync had flushed is committed by the `finally` clause (`sync.py:219`) and
  looks unchanged to the next sync, so it is never extracted
  (`docs/product/CHECKLIST_STATUS.md:25` says changed artifacts are).
- A cancel request for a job that is not running stays for up to an hour and cancels its
  next coverage run (`jobs.py:130`).
- A rejected claim comes back as a new candidate when its file is extracted again;
  `save_candidates` looks at live rows only (ADR-0016).
- Coverage runs that overlap may leave the matches of two rankings, although
  `coverage.py:65` says old matches cannot survive.
- Matched evidence that is rejected, made private or goes stale afterwards is still used
  by the coverage matrix and by generation (`generation.py:395`); stale and private rows
  can still be found, since the search excludes `rejected` only.
- The coverage matrix says that no evidence was found also while a job is matching, was
  cancelled or has failed (`jobs.py:215`); the graph keeps these apart.
- Disconnecting GitHub deletes all evidence by cascade, although the docstring at
  `github.py:51` keeps it, and a requirement whose match went with it is shown as a gap.
- A refresh that overlaps a disconnection inserts repositories without a connection
  (`github.py:129`); another account put in place of the first keeps its repositories.
- `GitHubClient` compares GitHub's reset time with a monotonic clock
  (`github_client.py:31`) and so never waits for a rate limit.
- A supported claim whose wording is the verifier's own need not be found in the PDF, nor a
  text that the PDF breaks, and the export is refused with nothing wrong in the document
  (`export.py:60`; ADR-0009 takes a refusal for a rendering bug).
- `_consume` says it returns the seconds to the reset (`rate_limit.py:34`); TTL rounds them,
  so that a client may be told up to half a second too little, and in the last half second
  the whole window.
- The skills, employer, title and dates of a résumé entry are printed as the writer gave
  them, without having been verified.
- `list_evidence` filters by an attribute that does not exist (`routers/evidence.py:55`).
- A change of stage equal to the one loaded writes nothing, also when another request has
  changed the row since; two overlapping changes of one row may leave the board showing
  what the database does not hold.

## Fairness

JobPipeline, RepositorySync and Generation assume weak fairness of each worker thread
(Dramatiq threads take messages and run them as long as there are any) and of a request
that is already in its handler. Actors end because each has a time limit and each loop
runs over a finite list; LLM calls that never return are cut by it and are faults here.
DocumentPage assumes that a request is answered or fails and that the browser's timer
rings; nothing of the worker, the stream or the loads. No user action, fault, push or
flag expiry is assumed to happen anywhere. The other modules state safety only.

## Proofs

`JobPipeline_proofs` proves, for every number of threads, requests, texts, evidence
items and retries and without any bound on faults, and assuming only that the three
numeric constants are natural numbers (`BoundsAreNat`):

- `TypeCorrect`: `Spec => []TypeOK`, one lemma per group of actions.
- `BusyJobsHaveWork`: `Spec => []BusyHasWork`. `BusyHasWork` is not inductive as it
  stands: a run at "send" counts as pending coverage only if it is an analysis, and
  a coverage run counts only while it is open. `IInv` adds `RunShape`, which ties
  each run's program counter to its actor and to the status its session last wrote.
  The proof has a case per action; the two ideas behind it are `PendingKept` (a step
  of a run that was no witness leaves the pending work alone), with
  `RequeuedIsPending` for retries and redelivery, and `SettledOrNoWitness`: a coverage
  run that ends without writing had loaded a settled status, and then it was
  never counted as the work that backs the job.
- `RequirementsAreDistinct` and `MatchesAreDistinct` prove `NoDuplicateRequirement` and
  `OneMatchPerRequirement` from `RowsInv`. What a lone analysis is about to insert is not
  there (`NewIsNew`); a lone coverage run deletes every match of what it has read and
  adds one at most for each requirement it is done with (`GathersOwn`); two open runs of
  an actor are an overlap (`Alone`). Faults, cancellations and redelivery need no
  exception: what was not committed is gone.
- `ReadyIsJudged` proves `ReadyMeansJudged` from `VerdictsInv`, which adds that a lone
  coverage run has read all rows or another is awaited (`ReadIsAll`), that only a coverage
  run makes a job ready (`SeenReady`), and that a ready job has its verdicts, or an open
  or awaited run (`JudgedOrPending`). An analysis that commits during a coverage run is
  why each needs "or awaited": the older run may still write "ready" over rows it has not
  read, and the message of the analysis brings a run that judges them.

`Security_proofs` about RateLimit, for every number of requests, every limit and window that are
positive (`LimitsArePositive`), and any number of faults:

- `LimitTypeCorrect`, `CountersExpire` and `RetryAfterErrsLittle` prove `LimitTypeOK`,
  `CounterWillExpire` and `RetryAfterIsNear`. What makes them inductive is
  `OneExpiry`: while nothing has failed, at most one request is between its INCR and its
  EXPIRE, and the key it will set has none; so no refusal has been told a time yet. That
  TTL errs by half a second at most and never beyond the window is `RoundingIsNear`, for any
  number of ticks in a second and any window of whole seconds.
- `TwiceTheLimit` proves `AtMostTwiceTheLimit` from `OlderKeys`: admissions of earlier keys
  that are still recent are `Limit` at most, and older than the expiry of the key in force,
  so that the window has forgotten them by the time this key goes and the next one starts.

`ApplicationsBoard_proofs`, for every set of accounts, captures, tabs, requests and
stages (`SavedIsAStage`, `PagesAreTold`: the tabs are not the board), and without the
state constraints of the run:

- `BoardTypeCorrect`, `NothingForgottenEarly`, `PagesAreRight` and `OneApplication` prove
  `TypeOK`, `ForgottenOnlyOnceStored`, `PageSaysWhatIsStored` and `OneApplicationPerJob`.
  `IInv` adds what a request knows: what it has read of the jobs still holds when it
  answers, because rows are only added, under ids that have none (`SeenHolds`,
  `SeenStays`); a page waits for one request at most, and that one is for its capture
  and its account (`PagesWait`); the extension is told to forget only what is stored
  (`FinishStored`); an application that was found stays (`AppsKnown`).
- `BoardIsTrue` proves `BoardShowsServer` from `BoardInv` on top of `IInv`. The property
  speaks of applications nothing is under way for, so `BoardInv` says what a request under
  way will bring. Nothing is on its way before the board is shown (`NothingBefore`); an
  application not shown yet is still at Saved (`UnshownIsNew`); at each step a change of
  stage knows what the row holds, and the board what it falls back on (`RequestsBring`,
  `Undoes`); two changes of one application do not meet unnoticed (`PatchesAlone`).

`GitHubConnection_proofs`, for every set of requests, accounts and repositories, any access
of the accounts (`AccountsOwnRepos`) and any number of callbacks and refreshes
(`BoundsAreNat`):

- `TypesHold`, `ConnectionsOwnRepositories` and `SelectionsHold` prove `TypeOK` (with the
  unique columns), `RepositoriesComeFromConnection` and `SelectionIsKept`. `IInv` adds that
  a disconnection about to commit deletes all rows there are (`DeletesAll`) and that a
  refresh works for the connected account (`RefreshIsConnected`), both unless the overlap
  was noticed (`OverlapsAreNoticed`); that a key is never given out again
  (`KeysAreSpent`), so that a row a PATCH has loaded is not confused with a later one; and
  that the loaded value is still the row's (`PatchIsAlone`).

`Generation_proofs`, for every number of workers, requests, faults, cancellations and drafts
(`LimitsAreNat`, `TypesAreDocumentTypes`, `DraftsAreFinite`):

- `OneDocumentEach` proves `SecondDocumentNeedsCrash`. The status and mishap of a row tell
  how far its run is (`RowFollowsRun`), no two workers have one row (`RowsAreOwned`), a
  request whose message waits has crashed rows only (`WaitingOnce`), and so a second row of
  a request means that the earlier one crashed (`SecondRowNeedsCrash`).
- `Refinement` proves `Spec => ImplementsLife` as a step simulation: the initial state maps
  to the initial state of `GenerationLife`, and each action of a worker, a fault or the user
  to one action of it or to none. The types of documents are not needed, only that rows and
  documents are sequences of records with the fields the mapping reads (`Structure`).
- `TypesHold`, `UnbackedAreGone` and `ExportsAreUnhurt` prove `TypeOK`,
  `UnbackedUnitsAreGone` and `ExportedIsUnhurt`, for any drafts that are finite
  (`DraftsAreFinite`) and any number of claims. The heart is that the verifier and the
  removal mean the same unit: the number of a bullet is the number of bullets in the entries
  before its own plus its position, by cardinalities (`BulletsAdd`, `NumberOfBullet`), so
  counting leads back to it and to nothing else (`LocationOfBullet`), and a removal blanks
  exactly the units whose numbers were refused (`ResumeBlanks`, `LetterBlanks`). The
  invariant `TextsInv` says that a run verifies what the writer wrote (`IsDraft`), and that
  what it stores is this draft without the refused units, with the claims that refused
  them (`IsStored`); and that an exported document passes the gate. So a
  supported claim that quotes a refused unit is not printed, and never passes.

`DocumentPage_proofs`, for any number of presses, runs and reloads (`RequestsAreCounted`,
`BoundsAreNat`):

- `TypesHold` and `PageShows` prove `TypeOK` and `PageShowsItsOwn`. That a wait hears two
  ends of a run at most is a matter of counting: no event is heard that was not announced,
  and none twice (`HeardOnce`). That what it hears is its own needs the order of the presses
  (`PressesInOrder`), the truth of what was announced (`EndsAreTrue`: runs end once), and
  that only the last press waits while nothing more comes of the others (`LastPressWaits`);
  then completions heard, loads under way and the export belong to what is shown
  (`InboxIsOwn`, `LoadsAreOwn`, `ExportIsShown`).
- The proof found what two presses do not show: choosing a saved document during a wait
  sets the page to done, the button can be pressed again before the first wait has ended,
  and with a third press two waits meet. `crossed` therefore counts a press made while the
  page is still busy (`Busy`).

`Security_proofs` about Sessions, for any number of clients, addresses, accounts, logins and pairs, any
lifetimes and any length of a second (`DemoIsAnEmail`, `TimesAreNat`):

- `TypesHold`, `RefreshIsSpent`, `LogoutEnds` and `DemoIsDemo` prove `TypeOK`,
  `RefreshSpentOnce`, `LogoutEndsSession` and `DemoSessionsAreDemo`. A key of the denylist
  lasts to the last second of its token (`KeysLast`: the lifetime left is cut to whole
  seconds); a token exchanged, or older than a pair of an ended session, is spent, too late
  or excused by an overlap (`ExchangedIsSpent`, `SupersededIsSpent`, and
  `OverlapsAreNoticed` for requests under way); pairs of a session keep its login and come
  in order (`Ordered`); a guest's request never reaches the deletion
  (`GuestsDeleteNothing`). The types say that no key outlives its token, which is true for
  all lifetimes; a bound by `RefreshLife`, true on the instance, fails when access tokens
  live longer.

`RepositorySync_proofs`, for any number of threads, syncs, files, contents, claims and retries
and any bounds on pushes, reviews and faults (`ConstantsAreSane`):

- `TypesHold` proves `TypeOK`, with what the point a run has reached says about the rest of its
  record (`Shape`) and one lemma per action on what it does to the run of its thread.
- `StoredReachExtraction` proves `ArtifactsReachExtraction`. It is an account of batches: one
  lemma per group of actions says what enters and leaves `Underway` (`Flows`, `Keeps`,
  `CommitAdds`, `AckDrops`). Only an acknowledgement takes a batch away, so `ExtractsAll` says
  that an extraction that is done was answered for all of its batch; a repository that is gone
  has no artifacts to ask for (`GoneIsEmpty`).
- `LiveRowsAreDistinct` proves `OneLiveRowPerClaim`: what a lone extraction is about to insert
  has no live row (`SavesAlone`, `NewIsUnknown`), and no other step makes a row live, unless
  the user revives one (`NoRowRevived`).
- `EvidenceIsCurrent` proves `LiveEvidenceIsCurrent`. The commit analyzed last, the tree of
  the walk under way and the head come in this order, and what differs is new to the tables
  (`TreesFollow`, from `StoredIsPast` and pushes that bring no old content back). Behind it a
  walk has on its list what it found changed (`SupersededIsListed`). So what a commit outdates
  is on the list, and is marked stale, or was outdated before (`CommitOutdates`); and nothing
  outdated is on its way to the LLM (`UnderwayIsCurrent`), so no later answer cites it. Of the
  six events excluded, each step of the proof that needs one is named for it in the model.

`EvidenceMatching_proofs`, for any evidence (`EvidenceIsNumbered`: finite and numbered as
created), any signals of their type (`SignalsAreTyped`), any keywords and bounds of which
the branches' limit is at least the answer's (`LimitsAreSane`; the code takes the maximum):

- `TypesHold` proves `TypeOK`. What takes work is that a search is a short sequence of
  evidence (`RankedFacts`).
- `SearchIsComplete` proves `LeftOutOnlyWhenCrowded`, an action property: a row that matches
  the text or shares a keyword is left out for a worse one, or for an empty place, only if
  the branch that should have found it was full of rows at least as good there. A branch
  that leaves a row out is full (`BranchFacts`), and the ranking fills every place it has
  before it leaves out a candidate that scores (`RankedFacts`, `SearchLeavesOut`).
- `RejectionIsLate` proves `RejectedOnlyLate` from `NotRejected`, which says of the hits of a
  run under way what the property says of the match: a rejected row among them was rejected
  after the search.
- `GraphSaysWhatIsKnown` proves `GraphIsHonest`, for every filter and limit of the page.
  `GapsHaveReason` is what it needs of the behaviour: a job that is ready without a match was
  found to have a gap, or its match went with its evidence.

Every safety property of the runs is a theorem. Checked by TLC only is liveness:
`BusySettles`, `SyncRunSettles`, `RunEnds` and `GeneratingEnds`, whose proofs from fairness
need ENABLED, which TLAPS does not handle here.

## Plan

1. LLM retries and the embedding cache; the confirmation of résumé facts; the diff of
   two documents against a reference.
2. The cancel flag as one variable of JobPipeline and Generation; an abstract work
   ledger (offered, in flight, done or lost) for RepositorySync.

## Not modelled

The bodies of HTML and PDF rendering, file storage, remote LLM and GitHub services
beyond their failures, and résumé parsing are I/O; pattern tables (classifier, secret
scanner, technology extraction) and the confidence sum are functions of strings that unit
tests reach; drawing in the browser, migrations, telemetry, evaluation and the seed and
benchmark scripts keep no state a behaviour could corrupt. LLM retries, the embedding
cache and profile facts are planned. In the modules: the cascade of an account deletion
over the other tables, progress events other than the end of a generation, the type and
repository filters of the search, and the deadlock of PostgreSQL between a
disconnection and a coverage run.
