# CaptionForge: TLA+ models

A verification project for CaptionForge: TLA+ modules of its core logic, TLC
configurations that check them on small instances, and TLAPS proofs of what
matters most for instances of any size. Every definition is translated from the
code; `PROJECT.json` ("map") names the lines each one stands for.

## 1. The system

CaptionForge transcribes a video, lets a person correct the subtitles and burns,
translates or dubs them. Its parts, the state each keeps and what they say to
each other:

| Part | State | Operations | Talks to |
|---|---|---|---|
| API gateway, jobs (`apps/api-gateway/src/jobs/jobs.service.ts`) | none of its own between requests, but each request is cut at its awaits; a mutex per job for edits | create (transcribe, burn, translate, dub), cancel, read and edit the subtitles | PostgreSQL (`Job`), S3, BullMQ, the cancel channel |
| Reaper (`jobs/reaper.service.ts`) | a timer, the flag `running`, the page of rows of the pass | `reapOnce`: closes silent RUNNING rows and QUEUED rows that Redis lost | PostgreSQL, BullMQ, the cancel channel |
| Queues (`queue/queue.service.ts`) | four BullMQ queues and a pub/sub channel in Redis | add, exists, remove, publish | the workers |
| AI worker (`apps/ai-worker`, `worker.py`, `db.py`) | one slot per process, a cancel event per held job, the life of the process | consume, claim, heartbeat, run, complete, fail, cancel, shut down | PostgreSQL, S3, BullMQ, the API's internal channel |
| Runners (`transcribe.py`, `burn.py`, `translate.py`, `dub.py`) | a working directory, subprocesses | read the input `If-Match`, compute, upload | S3, ffmpeg, Whisper, providers |
| Workspaces (`workspaces/`) | memberships, invitations | invite, accept, change a role, remove, switch | PostgreSQL |
| Sign-in and API keys (`auth/`, `tenancy/`) | users, sessions, keys | first login, session, key | OAuth providers, PostgreSQL |
| External keys (`external-keys/`, `internal/`, worker `external_key.py`, `redaction.py`) | an encrypted key per workspace, the values to censor | put, remove, lend to a running job, retire | the worker |
| Outgoing requests (worker `provider_http.py`, `net_guard.py`, `pinned_transport.py`, `adapters.py`) | the address a connection is pinned to | guard, connect, retry | providers |
| Quotas and limits (`quota/`, `security/`) | counters in Redis, slots in memory | check, consume, acquire, release, expire | Redis, PostgreSQL |
| Event stream (`jobs.controller.ts`) | a connection, its slot, what was sent last | admit, look up, tick, end | the web client |
| Edit algorithm and quality (`jobs/segments.ts`, `quality/`) | none | apply edits; verify and fix cues | - |
| Web client, a job (`ui/tracker.js`, `domain/job-state.js`, `api/sse.js`) | what is shown, the controller in charge, the stream | follow, open, stop, reconnect | the event stream |
| Web client, uploads (`ui/app.js`, `domain/batch.js`, `ui/quick-mode.js`, `ui/follow-up.js`) | the queue of files, the upload, the plan, the burns to chain | select, begin, upload, retry, chain | the gateway |
| Web client, editor (`ui/segment-editor.js`, `ui/guided-editor.js`, `ui/results.js`, `ui/quality.js`, `domain/editor-state.js`) | saved subtitles, drafts, what is under way, the proposal | type, save, reload, overwrite, undo, propose, apply | the gateway |
| Web client, panels of a result (`ui/ai.js`, `ui/ai-panel.js`, `ui/burn.js`, `ui/spend-confirm.js`, `ui/source-audio.js`) | the question that is open, submissions under way, the job each panel follows, what is played | configure, ask, submit, follow, cancel, play | the gateway, the event stream |
| Web client, keys of the owner (`ui/external-keys.js`) | the list, the fields, the calls under way | unfold, paste, type, choose a service, save, delete | the gateway |
| Assistant (`ui/assistant.js`, `domain/assistant*.js`, `assistant/`) | the conversation, its cards, what `localStorage` keeps | ask, answer, apply or dismiss a card, forget the AI | a provider, through the gateway |
| Desktop application (`src/legacy`) | one job in memory, its files; the page's history and active job | upload, follow, cancel, edit, burn, resume | ffmpeg, Whisper |

### What is hard

* **One row, many writers.** The cancellation, the claim, the completion, the
  compensation of a failed enqueue, both halves of the reaper and the handlers
  of `failed` and `stalled` all write the status of a job, from different
  processes, with nothing but a conditional `UPDATE` between them.
* **Answers that get lost.** An `add` that timed out may have reached Redis; a
  claim that failed may have been committed; a published cancellation may have
  been heard by nobody, or by the wrong worker.
* **Processes that die**, with the requests, the slot, the locks and the
  subscriptions they held, and a Redis that may come back empty.
* **Reading first and deciding later.** The reaper asks PostgreSQL and then
  Redis and then writes; an edit compares an ETag and then writes two objects
  and a row; a dub takes the ETag of one version and reads the next one; the
  guards read a role and the handler runs later; a quota counts what is created
  only at the end of an upload.
* **Answers that come late.** The pages abort, forget and start over while the
  server still has something on its way for them.

### What makes each part correct

* Jobs: a terminal status stands; of all the writers one wins; only the worker
  that won the claim computes; nobody closes a job under a healthy worker; the
  input of a job that is being computed is there; a 202 to a cancellation means
  that it is delivered; every job ends.
* Reaper: it closes what is orphaned, all of it, and nothing else.
* Worker: one heavy job at a time; work nobody wants any more stops.
* Edits: no edit is lost, the files and the row agree; what is burned,
  translated or dubbed is what was approved, within the spending caps.
* Workspaces: never without an owner, and nobody without a workspace; an
  invitation is used once and lowers nobody; who stops being an owner leaves
  nothing alive behind; a sign-in is of the person the provider named.
* Keys: what is lent is censored from the moment it is received, goes to the
  address that was allowed and to nobody else, and is wiped.
* Limits: slots are counted and come back; quotas hold, but for what was already
  under way and what Redis did not see.
* Pages: what is shown never goes back; what was typed is not lost but where the
  person said so; a file is burned once, and the queue of files goes on; nothing
  that costs is sent without a question that said so, and what comes late for
  one transcription does not reach the panel of another.

## 2. Plan

The order in which the parts were modelled, most important first; all are done.

1. `JobState`, `GatewayJobs`, `Reaper`, `AiWorker`, composed by `JobLifecycle`,
   which implements the abstract `JobContract`. Proofs: `JobLifecycleProofs`.
2. `KeyedMutex`, `SubtitleEdits` (which implements the abstract `SubtitleStore`)
   and, over them, `DerivedJobs`. Proofs of all three: `DerivedJobsProofs`.
3. `Accounts`: sign-ins, workspaces, invitations, keys. Proofs: `AccountsProofs`.
4. `EventStream` and, over it, the page that follows a job: `Tracker`.
   Proofs: `TrackerProofs`.
5. `Quotas` and, over them, the page that uploads: `WebPage`. Proofs:
   `WebPageProofs`.
6. `KeyLoan`, `ProviderCalls` and, over both, `MediaRunner`. Proofs:
   `MediaRunnerProofs`.
7. `SegmentEdits`, `Quality`, `EditorState` and, over them, `GuidedEditor`.
   Proofs: `GuidedEditorProofs`.
8. `LegacyJobs` and, over it, `LegacyPage`. Proofs: `LegacyProofs`.
9. `JobClosing`: the lifecycle under fairness. Nothing of it can be proved here.
10. `ResultPanels`, `KeysPanel`, `Assistant`: checked side by side by `PanelsMC`.
   The panels of a result are proved about with the result, in
   `GuidedEditorProofs`; those of the page, with the page, in `WebPageProofs`.

## 3. Modules

Each component's module declares its own variables and one action per step of
the code between two awaits; a module that composes components `EXTENDS` them
and says what each step leaves alone. An action named `...Mutant` is a
deliberately wrong variant of the definition after it: putting it in must break
a property, which shows that the property depends on that piece of code.

### Jobs

| Module | Code | State and actions |
|---|---|---|
| `JobState` | `schema.prisma`, `db.py`, `queue.service.ts` | What the processes share: the status column `row`, `startedAt` (`started`), the age of `updatedAt` and `createdAt` against the thresholds of the reaper (`silent`, `cut`, `aged`), the BullMQ job (`queue`, `unlocked`), the cancel channel (`subscribed`, `mail`). `UpdateWhere` is the conditional UPDATE everybody uses |
| `GatewayJobs` | `jobs.service.ts`: create*, `failEnqueue`, `cancel` | A request is a process cut at its awaits: `create` and `cancel` are program counters, `inputs` the uploads in S3, `asked` what users asked to cancel |
| `Reaper` | `reaper.service.ts` | A pass cut at its awaits: scan, conditional close, one notification per row found, page of QUEUED rows, question to Redis, conditional close |
| `AiWorker` | `worker.py`, `db.py` | `task[w][j]` is the program counter of the coroutine `_process`, `flag` the cancel event of the job, `closers` the tasks of `_close_interrupted`, `mode` the life of the process |
| `JobLifecycle` | - | The composition, time, the safety properties |
| `JobClosing` | `docker-compose.yml`, ADR 0006 | `JobLifecycle` under fairness, in two situations that `attended` tells apart for a whole behaviour (section 5) |
| `JobContract` | `docs/architecture.md` | Abstract: what whoever reads the table may rely on |

Decisions a reader should know:

* **Time** is not counted. A row becomes `aged` or `silent` by a step that may
  happen whenever the code allows that much time to pass: a RUNNING row falls
  silent only when no worker is at it, or when the fault `"pause"` is allowed (a
  worker, or its way to PostgreSQL, stuck for JOB_STALE_MINUTES). `cut` is the
  set of rows older than the `staleBefore` of the current pass: a write takes
  a row out of it, which is what the `updatedAt <` of the UPDATE checks.
* **The channel** is Redis pub/sub: it delivers to whoever is subscribed at the
  moment of the PUBLISH, in any order and at any later time, and to nobody else.
* **BullMQ** is external and modelled from what the code asks of it: an id is
  added once, concurrency 1 per queue and worker, a lock that may lapse, and with
  `maxStalledCount: 0` a stalled job is failed and never handed out again.
* **PostgreSQL** answers, fails, or commits and loses the answer. The retry that
  follows finds the row changed; `Claim` shows what the code makes of that.
* **The runner** ends well, fails or is cancelled at any time; what it computes
  is not modelled. The writes of the progress have the effect of `Touch`.
* **Jobs** are numbered in the order of their rows, so that "the oldest page" of
  the reaper means something. `Cancellable` bounds which of them may be
  cancelled; it is all of them, or none where a run asks about something else.

### Subtitles

| Module | Code | State and actions |
|---|---|---|
| `KeyedMutex` | `keyed-mutex.ts` | The chain of promises of one key: `tail` is the entry of the map, `previous` the promise a task waits for. `ticket` numbers the arrivals for the properties: no guard reads it |
| `SubtitleEdits` | `jobs.service.ts`: `updateSegments`, `applySegmentEdits` | A PUT cut at its four awaits: read `segments.json`, write it, write `output.srt`, write the ETag to the row; every await may fail with or without effect and the process may die |
| `SubtitleStore` | the API's promise | Abstract: one register, each request takes effect at most once, in one step, on what its ETag names |
| `DerivedJobs` | `createBurn`, `createTranslate`, `createDub`; `burn.py`, `translate.py`, `dub.py` | The requests cut at their awaits (`request`, `pinned`), the row, and what the worker reads, checks and pays for (`run`, `source`), while the edits go on |

Decisions:

* An ETag is the MD5 of the content, so it is modelled by the version it names;
  two edits that lead back to the same content have the same ETag, as in S3.
* A call to S3 has its effect before it returns or not at all: a write that takes
  effect after its time-out is not modelled.
* There is one API process, as in `docker-compose.yml`; the mutex is in its
  memory. After a crash the mutex starts empty, and no write of the dead process
  is still under way.
* How a row moves between statuses is `JobLifecycle`'s matter. `DerivedJobs`
  lets any pending row be closed at any time and lets the worker go on with it.

### Persons and workspaces

| Module | Code | State and actions |
|---|---|---|
| `Accounts` | `workspaces.service.ts`, `auth.service.ts`, `tenant-auth.guard.ts`, `roles.ts`, the account and auth controllers | The tables, and requests (`req[r].pc`) cut where the guards end, at every statement that waits for a row, between two statements and at the commit. What a transaction holds is read off its step: the advisory lock on a person, the rows of owners it has selected `FOR UPDATE` (one by one, in the order of their ids), the row of the member it wrote, the invitations it claimed or revoked; who needs what another holds waits (`Needs`), and PostgreSQL ends one of a circle (`BreakCircle`). Sign-ins (`login`) race through find, create, find again, create without e-mail |

* A statement of a READ COMMITTED transaction sees what is committed when it
  starts, and an `UPDATE` or `SELECT ... FOR UPDATE` that waited for a row checks
  its condition on what the other one left. `LockOwners` is in two steps for
  that: the rows it finds, and, once they are free, those still of owners.
* Counting the pending invitations or keys and creating one are two steps with
  nothing between them, so their maximum is not an invariant, and none is stated.
* Which of her spaces is a person's when her session remembers none is the
  oldest one; the order of joining is left out, so it is any of hers.

### Following a job

| Module | Code | State and actions |
|---|---|---|
| `EventStream` | `jobs.controller.ts` `events`, `concurrency-limiter.ts` | A connection: asked, admitted with a slot, looked up, open, ended; what was sent and not read yet is `wire`. A slot is released by the end, the close, the failed lookup and its timer, whichever comes first |
| `Tracker` | `ui/tracker.js`, `domain/job-state.js`, `api/sse.js` | The page: each gesture (follow, open, stop) aborts what was going on and draws a new `controller`; `fol` is `followJob` with its failures in a row |

* Time is not counted: a healthy connection, a stale one, a waiting retry and the
  time limits of a stream may come whenever the code allows them. Pings are
  left out.
* One chunk that was read before the abort may still be handled after it: `Hang`.
* The statuses that a job goes through are those of `JobContract`.

### Uploading

| Module | Code | State and actions |
|---|---|---|
| `Quotas` | `quota/`, the uploads and burns of `jobs.controller.ts` | The table of jobs, an upload from its check to its answer, the counter of the hour in Redis, the slots of uploads in memory |
| `WebPage` | `ui/app.js`, `domain/batch.js`, `domain/upload-state.js`, `ui/quick-mode.js`, `domain/plan.js`, `ui/follow-up.js`, `api/upload.js` | The queue of files, `begin` cut at its wait for the files being read, the upload and its retries, the poll of `follow-up` and the burns it asks for |

### Running a job

| Module | Code | State and actions |
|---|---|---|
| `KeyLoan` | `external-keys.service.ts`, `internal-server.ts`, `external_key.py`, `redaction.py` | The saved key, the request for it (`fetch`), the lease, what is censored now (`live`) and what still is (`retired`) |
| `ProviderCalls` | `provider_http.py`, `net_guard.py`, `pinned_transport.py`, `adapters.py` | One request with its attempts; before each one the guard resolves the name and the connection is pinned to what it allowed |
| `MediaRunner` | `transcribe.py`, `burn.py`, `translate.py`, `dub.py`, `models.py`, `child.py`, `worker.py`, `workdir.py` | Each kind of job is the list of its steps (`plan`); a step begins, and ends or fails; the cancel event is looked at after a step, an abort cancels the runner at once and leaves threads behind (`stray`); another worker cleans the shared directory |

* The addresses a name may resolve to are told apart by their class: public,
  private, forbidden. A key goes with a base URL of its own or to the fixed host.
* A runner's heartbeat keeps the row fresh while it runs: `AiWorker` shows when
  it does not. Here the row falls silent only when nobody beats for it.

### Editing in the browser

| Module | Code | State and actions |
|---|---|---|
| `SegmentEdits` | `jobs/segments.ts` | What edits make of the subtitles, and which edits are refused |
| `Quality` | `quality/verifier.ts`, `fixer.ts`, `profiles.ts` | Errors and warnings of each rule, the repair, for the five profiles with their real limits |
| `EditorState` | `domain/editor-state.js` | What is saved, the drafts, undo, what is shown |
| `GuidedEditor` | `ui/segment-editor.js`, `ui/results.js`, `ui/guided-editor.js`, `ui/quality.js`, `domain/guided-session.js` | Each panel with the request it has under way; a request whose answer would be ignored (a generation, an epoch, a sequence was raised, or its signal aborted) is forgotten at once, except a PUT, which goes on as nobody's |

* A text is a sequence of lines, a line a sequence of words, a word its length.
* The server is one register with an ETag, which `edit_faults` shows that it is.
* Asked whether to leave with unsaved changes the person says yes: a no changes
  nothing.

### The panels of the page

| Module | Code | State and actions |
|---|---|---|
| `ResultPanels` | `ui/ai.js`, `ui/ai-panel.js`, `ui/burn.js`, `ui/spend-confirm.js`, `ui/source-audio.js`, the parts of `ui/app.js` that open and leave a job | Submissions (`sends[n].step`) cut at their awaits: the configuration, the subtitles, the question, the POST. `track` is what each panel follows, `question` the one dialog they share, `player` what is played and what is being fetched for it |
| `KeysPanel` | `ui/external-keys.js`, `api/external-keys.js`, `domain/ai-presets.js` | The fields, what the person meant them to be (`wanted`, which no guard reads), the list as it was last shown, the calls under way |
| `Assistant` | `ui/assistant.js`, `domain/assistant.js`, `domain/assistant-actions.js`, `assistant/chat.ts` | The conversation with its cards, the call under way, `localStorage` and what the tab remembers of it, what may be pressed on the page |

* The three share no state in the models, so each behaviour of `PanelsMC` is of
  one of them: `used` says which.
* The server of `ResultPanels` takes a POST or refuses it; its jobs end or are
  lost at any time. How they get there is what the other modules are about.
* The card of an action is a list of controls that are set and pressed in one
  slice of the event loop. What the AI answers is any card of the closed list.

### The desktop application

| Module | Code | State and actions |
|---|---|---|
| `LegacyJobs` | `jobs.py`, `pipeline.py`, `routes/` | The store that remembers one job, its work in the background, the files and what the routes serve of them. A cancelled job is an error at once, while its work goes on until it next writes to the store |
| `LegacyPage` | `static/app.js` | Uploads in a row, the stream and its reconnections, edits, the burn, what `localStorage` keeps, reloading |

* The event loop starts the burn it was asked for in the same slice, so the POST
  and the status `burning_subtitles` are one step; downloading the model is part
  of transcribing, and translating too.
* What the stream sends is read when it comes. A stream of a job the server does
  not know answers 200 with an error event, so every reconnection to it counts.

## 4. What is checked

TLC explores every state of these instances. The bounds are in the `.cfg` files
and, but for `LegacyPage`, in the module of the same instance that ends in `MC` (`JobLifecycleMC`,
`JobClosingMC`, `SubtitleEditsMC`, `DerivedJobsMC`, `AccountsMC`, `TrackerMC`, `WebPageMC`,
`MediaRunnerMC`, `GuidedEditorMC`, `PanelsMC`). Each run takes less than three minutes.

| Run | Instance | States | Question and answer |
|---|---|---|---|
| `job_races` | 1 transcription, 2 workers, enqueue, database, lock, worker, gateway and subscription failures | 232 926 | Every race for a row has one winner; a healthy worker keeps its row; what computes was claimed, has its input and its cancel event; the whole is a `JobContract` |
| `job_cancel` | 2 jobs of different queues, 1 worker, shutdowns, bad payloads, lost publications, crashes | 1 780 000 | The slot lets one job compute at a time; a 202 reaches the worker that computes; CANCELLED is only said of what was asked |
| `job_closing` | 1 job, 1 worker; attended: lost enqueues, an emptied Redis, lost locks, crashes, database failures; not attended: crashes, gateway deaths, pauses, cancellations | 26 784 | Every row ends in a terminal status while workers keep coming back, and the orphaned and the lost ones if none does; what was cancelled or closed stops computing even if none does |
| `edit_faults` | 3 edits (two different subtitles, one that does not exist), with no ETag or that of one version; S3, database and process fail | 166 244 | Order, no lost edit, files that part only behind a failure, one register, every edit answered |
| `derived_jobs` | 2 dubs and 1 translation, an edit that makes the text too long and one that makes it short, crashes | 1 770 000 | One active job of a kind, made of what was pinned, nothing too long is paid for |
| `accounts` | 2 owners (one may be less) and 2 spaces, an invitation, 2 first sign-ins, 2 requests | 337 487 | Nobody is orphaned, an invitation is used once and lowers nobody, a demotion revokes what was alive, whoever waits for rows of owners waits in their order, every request is answered |
| `follow` | 1 page, 2 connections of one address, room for one stream, 2 jobs of which one is gone, 2 gestures | 47 074 | Slots are counted and come back, the panel never goes back, following ends |
| `page` | 1 file in the queue and 1 to choose, 1 more upload of the tenant, one job at a time, two uploads an hour, 2 gestures | 3 134 356 | Limits hold as far as they can, a burn is chained once, a plan is made of facts that were read, its own file's but in a queue that replaced another, the queue goes on |
| `runner` | 2 jobs of any of five works, 3 credentials, a name that moves, one cleaning | 1 665 442 | Keys are censored and go where they may, at most one costly step after the event, live work is kept, the runner's own Whisper is released before a child loads its model |
| `editor` | 2 transcriptions, 5 actions of a person, another client's save, 2 profiles; 1000 samples to repair under 5 profiles | 505 372 | What is on the screen is of one job and what is called fresh is; typed text is lost only by leave; a repair never makes it worse |
| `panels` | 2 transcriptions (a video, an audio), 2 servers, 2 submissions and 2 jobs, 5 actions; 1 key of a person, 6 edits of the fields, 3 calls; 2 texts, 1 AI, 3 turns kept, 1 card a turn | 2 464 885 | Nothing is spent without a question about that transcription and provider; nothing late reaches the panel of something else; what was typed for a key survives every painting; the assistant only proposes |
| `legacy` | 2 uploads, a batch of 2 files, 1 edit, 2 stream errors, all failures, lost answers, reloads, other tabs | 409 643 | What is offered is whole, what is over stays over, what the page follows ends or is given up |

The properties of each run (P: also proved for every value of the constants,
section 7). Some name several facts that a reader would look for together.

| Run | Property | What it says |
|---|---|---|
| `job_races` | `ComputesWhatIsItsOwn` (P) | `TypeOK`, and what a worker computes it claimed, has its upload, and has an event to be cancelled with |
| | `HealthyWorkerKeepsRow` (P) | nobody closes a row under a worker whose lock and heartbeat hold |
| | `TerminalIsFinal` (P) | no step writes a terminal row |
| | `ImplementsContract` (P) | the system is a `JobContract` |
| `job_cancel` | `CancelsAreHonoured` (P) | an accepted cancellation reaches who computes, and CANCELLED was asked for |
| | `OneHeavyJobPerWorker` (P) | one job at a time holds the slot of a process |
| `job_closing` | `EveryJobCloses` | attended, every row ends in a terminal status; in both situations those do that no worker has and Redis lost |
| | `UnwantedWorkStops` | in both situations, what was cancelled or closed stops computing |
| `edit_faults` | `MutexIsKept` (P) | edits of a key go in order of arrival and the key is forgotten |
| | `FilesAgree`, `NoLostEdit`, `ImplementsStore` (P) | files part only behind a failure; each edit is of what it replaces; one register |
| | `EditsAreAnswered` | whatever became of the edits before |
| `derived_jobs` | `OneActivePerKind`, `MadeFromApproved`, `SpendsWithinCaps` (P) | one of a kind, of the pinned version, within the caps |
| `accounts` | `NobodyIsOrphaned`, `InviteUsedOnce`, `SignedInAsOneself` (P) | owners stay, an invitation lets one person in, a session is of who signed in |
| | `RolesAreRespected` (P) | no acceptance lowers a role, and what somebody had alive when her row was changed goes when the change commits |
| | `RequestsAreAnswered` | transactions that wait in a circle have one of them past the rows of owners; every request is answered, by an error at worst |
| `follow` | `SlotsAreKept` (P) | `TypeOK`, the limiter's counters are the slots held, streams within limits, no stream forgotten |
| | `PanelNeverGoesBack` (P) | what is shown of a job never goes back |
| | `FollowingEnds` | a slot comes back; a follow ends or says that it lost the job |
| `page` | `ActsOnceAndInformed` (P) | one burn for a file; no plan before what is under its key was read, and that of its own file, but in a queue that replaced one whose files were done (section 6) |
| | `LimitsHold`, `QueueGoesOn` (P) | the tenant's limits; an accepted file does not stop those behind it |
| `runner` | `KeysAreGuarded`, `StopsAfterOneStep` (P) | censored keys to their own host; one step after a cancellation |
| | `JobsDoNotCollide` (P) | directories in use stay; no child beside the Whisper that the runner itself loaded (section 6 tells of an aborted job's thread) |
| `editor` | `ScreenIsHonest` (P) | `TypeOK`, what is called fresh is current, nothing of two jobs is mixed, what the editor lets through the server accepts |
| | `TypedIsKept` (P), `FixesOnlyHelp` (P) | typed text stays until its writer changes it; a repair, whole or in part, makes nothing worse |
| `panels` | `SpendsAreAgreed` | a job of a provider that charges was asked about, for that kind, transcription and provider and, of a translation, a server the key had between the click and the question |
| | `PanelsAreHonest` | one submission a panel, of what is on the screen; followed and played is what is shown |
| | `KeysPanelIsHonest` | the fields say what was typed or what the list says; a key is sent once |
| | `AssistantOnlyProposes` | cards are applied as a whole or not at all; a forgotten key is used by nobody; no question is lost |
| `legacy` | `OffersWhatIsThere`, `OverIsOver` (P), `WaitingEnds` | whole files, jobs that stay over, streams and batches that come to an end, the burn's too if its request was answered |

Why these bounds are enough to meet the interesting cases:

* Jobs: the races over a row are between one job's request, cancellation, claim,
  result, reaper and handlers, and never involve a second job, except for the
  slot, which `job_cancel` exercises with two. Two workers are what it takes for
  one to see the other's job stalled. The number of failures is not bounded: each
  class may strike at every step. Where a run leaves out a class it is because
  the property does not survive it (locks, subscriptions and a second worker with
  `CancelsAreHonoured`: section 6) or because another run asks with it.
* Edits: three give one that runs, one that waits and one that arrives while the
  first one's `finally` is still to run. Two requests of one kind race for the
  unique index; a third of another kind must not count.
* Accounts: two requests are what the locks are between, and a change and her own
  acceptance make a circle; with two owners the last one is in reach, and the
  order of their rows matters, with two spaces a person has another one or not.
  The proofs cover any number.
* Following: one connection hung up and not seen yet keeps the next one out, so
  two connections, one slot and two failures meet the retries, the refusals and
  the end of the patience.
* Page: one upload of the page, one of another tab and one burn compete for one
  place in the queue, one slot and two uploads an hour; an hour starts once. A
  first "Generate" costs no gesture, so two gestures open a job and put a new file
  in the place of the one that is done, or add a second file and lose an answer.
* Runner: the second job meets what the first one left (threads, retired keys, the
  directory). Two kept retired values, two attempts and two calls let each limit
  be reached.
* Editor: five actions reach typing, saving, another edit during the save, a
  conflict, and the overwrite or the reload.
* Panels: two transcriptions are what something late can be mixed up between, and
  an audio is what has no burn; a second submission is what a question rejects,
  and what a dub of a translation takes, with four of the five actions: open, translate,
  dub, accept (choosing what is dubbed costs none). Three calls let a save, a delete and the
  list after one of them cross. A turn more than is kept drops the first one (the
  code keeps 20); a card a turn is enough, as no card reads another (the code
  takes up to 3).
* Legacy: the second upload supersedes the first; a page gives up after two errors
  in a row, four in the code.

`TypeOK` holds for the types only; the other invariants hold at every state and
the action properties at every step. Deadlock is checked in the runs of the
jobs: there is always a worker that may start or a process that may fail. The
other runs stop when everything was answered or a bound is reached, and say so.

## 5. Fairness

* `JobClosing!ClosingSpec`: the clock runs and the timer of the reaper keeps
  firing (strong fairness of each step of a pass: `tick` catches every error and
  the next tick starts over, so that an outage cuts passes, but not every one of
  them at the same step for ever); the event loop of a live worker runs what is
  ready (weak fairness; ADR 0006, rule 1, keeps heavy work off the loop). That
  is all where `attended` is false: nothing is said of how long a runner takes or
  of whether a worker ever comes back.
  Where it is true, workers are restarted (`restart: unless-stopped`), between one
  crash and the next they get to fetch a waiting job or to look for stalled ones
  (strong fairness), and runners end: every subprocess has a time limit (ADR
  0006, rule 4).
* `FairEditsSpec`: the event loop of the API goes on and calls to S3 and
  PostgreSQL return or throw. Nobody has to ask for an edit.
* `Accounts!FairSpec`: the process runs each request it has, and PostgreSQL
  grants a lock that becomes free and ends one transaction of each circle
  (its `deadlock_timeout`). Nobody has to ask for anything, sign-ins and
  expiries need not come, and a transaction need not fail.
* `Tracker!FairSpec`: timers fire and answers come; the event loop of the gateway
  reaches each connection; the job ends, which `job_closing` shows. Failures and the
  time limit of a stream are not counted on; the timer of a slot is, and only
  after its stream is over. With no time limit (EVENT_STREAM_MAX_MS = 0) there
  is no such timer: section 6.
* `LegacyPage!FairSpec`: the background work goes on or fails, a request is answered
  or fails, and the page reads its stream or reconnects.

The other runs ask for safety only.

## 6. Disagreements and surprises

What was met while modelling and holds of the code; none of the runs depends on
it. Jobs:

* The reaper notifies every row its SELECT found, also those its UPDATE left
  alone because a heartbeat came in between (`reaper.service.ts:78`): a live job
  that was not closed is told to stop, and ends CANCELLED.
* A worker that loses its BullMQ lock sets the same event as a cancellation, so
  the row says "Cancelado por el usuario." of a job that nobody cancelled.
* With two workers a cancellation is answered 202 although the only subscriber is
  not the worker that computes the job.
* A page of older rows that are alive in Redis hides the lost rows behind them
  from every pass of the reaper, for as long as they wait (`reaper.service.ts:87`).
  No property is about it: the runs have fewer jobs than a page has rows.
* A dub takes its ETag before it reads the text whose size it checks, so a job
  over the caps is queued. The worker checks again and spends nothing:
  `SpendsWithinCaps` holds in `derived_jobs`, and is proved.

Workspaces and sign-in:

* "Quien deja de ser Dueño no deja nada vivo" (`workspaces.service.ts:159`): the
  role of who invites was read by the guard, so an invitation or a key created
  behind the statements of a demotion (:164, :165) is left alive, and no demotion
  will revoke it any more. `RolesAreRespected` is about what was alive at :157.
* The order of the locks is there "para que dos transacciones no se bloqueen
  entre sí" and "para no crear ciclos" (:141-142, :149), which it does for the rows
  of the owners and not for what comes after. An owner who accepts an invitation of
  her own holds its row (:90) and waits at :102 for her membership, which a change
  has written (:157) while it waits at :164 for that invitation. And with three
  changes, a row that was locked and turned out to be no longer an owner's stays
  locked: a change of that person waits for it at :157 and holds an owner's row that
  the first one waits for. PostgreSQL ends one of them (40P01), and its request with
  a 500. Hence `OwnersAreLockedInOrder` speaks of circles with nobody past the rows
  of owners.
* The second `create`, without e-mail, of two first sign-ins that race throws
  P2002 uncaught, which the person sees as an error of the provider.

Streams, uploads, pages:

* With EVENT_STREAM_MAX_MS = 0 a connection that was closed before its listener
  of "close" was registered keeps its slot for ever.
* What quick mode knows of a file it keeps by the key of its item
  (`quick-mode.js:271-275`), and the keys of a new queue start at 1 again
  (`batch.js:17`, `app.js:380-381`). A file chosen when those before are done and
  the form is open (a job was opened, or the row that failed was removed) takes the
  key of the first of them: it is not read, and its profile and its burn are
  those of the other file's facts. "Empezar de nuevo" forgets them.
  `ActsOnceAndInformed` leaves such a queue out with `restarted`, and is violated
  without it.
* An upload whose answer is lost may leave a job the page does not know. A file
  selected while `begin` waits, after a start over, is uploaded at once. When
  `begin` resumes it stops following a job that was opened meanwhile. A 404 of
  the poll, or closing the tab, forgets the burns to chain.

Runner:

* After an abort the thread of Whisper, or its queued load, lives on, so the
  child of the next job may share the card with it, though `transcribe.py` says
  that the two models never live together. `WhisperIsReleasedFirst` is about the
  runner's own model.
* A value that is already retired keeps its old place, so a key that is used
  again may be evicted before sixteen later ones (`redaction.py:113`).
* A dub with the provider "openai" goes to the fixed host although the saved key
  may be for another base URL.
* Two writes of the progress may land in either order, though `progress.py:142`
  says it never goes back. The percentage is not modelled.

Editor:

* The fixer is not idempotent, though `fixer.ts:10` says so: with a text of three lines
  of one character in 200 ms under "netflix" a first pass only stretches the end
  and a second one flattens the lines. The line below is longer only in a tie
  (`fixer.ts:63`).
* Applying a proposal reloads the editor without asking: drafts typed after
  "Proponer", or during its PUT, are gone. So are those typed between a click on
  reload and its answer, and those of a panel hidden by another view.
* The retry button of the panel comes back after a reload or a download of the `.srt`
  that failed, with the editor open, and loads without asking: what was typed is gone
  (`results.js:95`, `206-210`).
* A reload answered after an overwriting save shows what was before it; the next
  save gets a 409. An overwrite may be refused although the editor found nothing
  wrong, because another client's change made it so.
* A second job opened while the profiles of the first are still requested is not
  measured until an edit, and after a check that failed nothing measures again
  until an edit.

Panels:

* The list of keys has no guard on the order of its answers, so an older one may
  overwrite a newer; and leaving the panel keeps what was typed in it, though
  `external-keys.js:405` says that nothing stays.
* What is typed in the address or the model between a save and the list that
  follows it is lost, and a second save in that window sends no model. Drawing the
  list again loses the focus without calling off a deletion half confirmed.
* "The button stays active" while the question is open (`ai.js:250`), but for an
  external translation the configuration that is asked for at 257 disables it
  (`ai.js:174`).
* A newer translation that takes the place of the chosen one while the question of
  the dub is open sends the original instead, which the question did not say
  (`ai.js:303`). In any case the question shows the characters of the original, also
  when a translation of it is to be dubbed (`ai.js:300-304`), and what the owner saves
  for a key once the question is shown is not in it: `SpendsAreAgreed` promises
  neither. The name of a downloaded video is read after its await
  (`burn.js:153`).
* A card proposed about one transcription acts on whichever is on the screen. A
  storage that refuses to forget the AI's key is not reported. Changing the
  language puts the saved values over what was typed in "My AI".
* In local mode `app.js:187` disables external keys, so the cards for a dub with
  one are never ready.

Desktop application:

* A failed burn, or work whose job is no longer remembered, may leave half a
  video or an `.srt` in a directory from which the routes serve an older job,
  although `results.py:42-50` calls that safe. The page never links to it:
  `OffersWhatIsThere`.
* The cancel message "must not be clobbered" (`pipeline.py`), yet when cancelled
  work fails later the general handler overwrites it.
* An upload that could not be written to disk leaves a queued job: every other
  one gets 409 until somebody cancels it or the program restarts.
* After a lost connection the next files of a batch are refused with a 409, and
  "one bad file doesn't block the rest" (`README.md`) does not hold for them.
* The request of a burn has no catch (`app.js:1146`): if it gets no answer, taken or
  not, its progress stays on the screen with no stream and no message. A lost answer
  to an edit leaves its button disabled (`app.js:792`), and the body of a 201 that
  breaks off stops the upload, and its batch, without a word (`app.js:1114`, `1045`).
  `WaitingEnds` is about what is answered, refused or followed.
* The burn button stays disabled after a refusal, and the progress beside its error.
  PUT has no lock: two of them may leave `.srt` and `segments.json` of different edits.

## 7. What is proved

For any sets of jobs, workers, persons, connections and requests, any kinds,
texts, edits and limits, and any classes of failure, from the assumptions named
in the modules, which TLC evaluates in every run. Theorems are about `Spec`: they
hold without fairness.

**`JobLifecycleProofs`.** The inductive invariant grows in layers, each of which
uses the ones before it.
1. `TypeOK` (`TypeCorrect`).
2. `CreationInv`: there is no row before the INSERT, a QUEUED row never ran, a
   request that may still delete its upload closed a job that never ran, and
   what is queued or was started has its upload. With it no step rewrites a
   terminal row (`TerminalStatusStands`): `CreateRow` would, were there a row.
3. `CoroutineInv`: what computes was claimed, the cancel event is there from
   before the wait for the slot, and the slot has one holder from the claim to the
   closing. Hence `OnlyTheClaimedAreComputed`, `CancelEventIsThere`,
   `OneJobAtATime` and, with layer 2, `ComputedHasItsInput`.
4. `LockInv`: a job is added to Redis at most once, nobody has touched a waiting
   job, and while its lock holds a job has one holder and nobody who would close
   it as interrupted. `HealthyRowsAreFresh` adds that the reaper's `silent` and
   `cut` do not hold the row of such a job. Hence `HealthyWorkIsNotClosed`.
5. `OneExecutor`, from layers 2 and 3: rows do not go back to QUEUED, so a
   second claim cannot succeed. It is what makes a completion of the
   system a completion of the contract: `SystemImplementsContract`, with
   `status <- row` and `computing <- Computing` as the refinement mapping.
6. `AskedInv`, from layers 2 and 4: a row that is silent or closed by the reaper
   has no worker at it, so the only notices a worker can receive, and the only
   event it can see set, come from a request (`MailWasAsked`,
   `AbortsWereAsked`). It needs `Undisturbed`: with pauses, lost locks or a
   Redis that comes back empty a heartbeat that fails stops work that nobody
   cancelled, as section 6 tells. Hence `CancelledIsAskedFor`.
7. `ToldInv`: a request that publishes saw the row past the queue
   (`PublishedIsStarted`), so whoever computes had subscribed before, and the
   message is in its mail until it sees it. `AcceptedIsTold` needs `OneListener`:
   one worker, and no fault that loses a subscription. A second worker that
   computes and is not subscribed is never told, as section 6 tells too.
   `CancelsAreHeard` states both halves, the property of `job_cancel`, for any
   jobs, under both hypotheses, which that run meets.

**`DerivedJobsProofs`.** First the mutex. `MutexInv`: arrivals have different
tickets; every active task that came before a waiting one is reached by the
chain of `previous` promises (`ChainIsComplete`); `tail` is the last of them.
Hence `OneAtATimeInOrder` and `KeyIsForgotten`. Then `EditsInv`: who is between two awaits of an edit holds
the mutex (`InsideRuns`), so nothing it read or wrote moves under it
(`InsideNothingMoves`), answers tell what happened (`AnswersAreTrue`) and come in
the order of arrival (`SavedCameFirst`). Hence `FilesStayTogether`,
`EditsAreNotLost` and the refinement `EditsImplementStore`, in which an edit lands
when its `segments.json` is written. The derived jobs do not disturb the edits
(`EditsUndisturbed: Spec => EditsSpec`), so all of the above holds there too.
`DerivedInv` says that a row comes from a request that was accepted and a run
from a row, and that what a worker read is what was pinned; with it
`OneActiveDerivedJob`, `CompletedFromPinned` and `NothingOverTheCapsIsSent`. The
proofs cover burning as well, which the run leaves out.

**`AccountsProofs`.** `AccountsInv`: a request names what its route takes in a
space that has an owner (`Shape`); what a transaction found stays true while it
holds its locks (`HoldsTrue`): the rows it locked are members', who decided to let
an owner go has another one among them, who removes a person found her in another
space (`RowsHold`), who claimed an invitation has it free (`InviteHolds`), and what
she had alive when her row was changed is dead, still to be looked at or among
what will be published (`CutsHold`); there is one transaction for each person, for
each row and for each invitation (`Exclusive`). The last owner is kept because
two changes of one space that both count owners share a locked row, and a
person keeps a space because the advisory lock lets one change of hers go on at
a time. Hence `AccountsNobodyIsOrphaned`, `AccountsInviteUsedOnce`,
`AccountsSignedInAsOneself`, and, about steps, `AccountsAcceptNeverLowers` and
`AccountsDemotionRevokes`, which `AccountsRolesAreRespected` joins into the
property of the run: while a change holds the row it wrote nobody else writes it
(`OnlyItsChange`), and what it had to revoke is gone when it commits
(`ChangeRevokes`). That no circle is among the rows of owners alone is left to
TLC: it takes the greatest of the ids that are waited for, an induction.

**`TrackerProofs`.** `TrackerInv`: of the statuses under way on a connection none
is before another that follows it, nor after the job as it is (`InOrder`, `Fine`),
and on the page's own connection none is before what the page shows (`IsNews`); a
connection the page does not follow is hung up, and what is left on it belongs to
a task that is over; whoever is between admission and release holds a slot, and
the counters are what is held (`CountInv`); while the GET of an opening is in
charge nothing else follows or has shown anything (`FetchInv`). Hence
`TrackerKeepsSlots` and `TrackerNeverGoesBack`, for any number of jobs,
connections, addresses and gestures and any limits.

**`WebPageProofs`.** `PageInv`: what the tenant has in its queue is counted once,
either in the table or as an upload past its check (`QueueWithinReach`: the
limit can be passed by the uploads that were under way and by no more); the rows
have no gaps and each transcription is held by one place of the page at a time
(`JobsAreHeldOnce`), which is why a burn is chained once however often the poll
answers; while the form is busy exactly one file of the queue says "uploading",
and it is the one on its way (`OneIsUploading`), and behind a file that is not
done there are only pending ones (`LaterIsPending`), without which the answer to
an upload could leave the next file behind a form that nobody unlocks; keys are
handed out once in a queue, so that each entry of quick mode stays its own item's
until a queue replaces another (`FilesAreKnown`). Hence
`LimitsAlwaysHold`, `PageActsOnce`, `NoFileIsLeft` and `QueueIsInOrder`, for any
number of files, tabs and uploads and any limits.

**`MediaRunnerProofs`.** `RunnerInv`: the worker has a key exactly while the
calls of a job are made (`KeyIsHeldInCalls`) and what it has is among what is
censored (`SecretsAreCensored`), so retiring one loan never uncovers another; a
request under way goes to an address the guard saw (`CallIsGuarded`), to the
host that was saved with the key (`KeyGoesWhereItMay`); nothing that costs has
begun since the event was set but the step under way, and only a step after
which nobody looks at the event lets another begin (`CostIsBounded`); a worker
that starts either listed the directories before that of a job that is running
was there, or asks the table after its row was RUNNING and finds it alive
(`DirIsSafe`); and what is left of a plan goes on as plans do (`PlanIsSound`: a
call comes after the lease or a call of the same loan). Hence `KeysStayGuarded`,
`KeysAreHeldForCalls`, `OneStepAfterCancel`, `LiveWorkStays` and
`WhisperGoesFirst`, the last two joined in `JobsStayApart`, for any number of jobs, credentials, texts and kept values.

**`GuidedEditorProofs`.** `ResultInv`: every GET under way is of the job whose
panel waits for it, and so is what it has read; a PUT somebody waits for is of
the job on the screen, there is one of the editor at most, and what it sends the
server accepts on the version it was made on (`PutInv`: what `issueOf` lets
through is what `parseEdits` and `applyEdits` take, `NoIssueIsAccepted`); whatever
is measured, about to be measured or measured already has the signature of what
is seen (`Measures`), and nothing is while the guide is paused or closed. Edits
change neither how many subtitles there are nor of which video they are
(`EditsKeepTheJob`). Hence `ScreenStaysHonest` and, with what `saved` makes of an
answer (`SavedKeepsTyped`: a field shows what was typed, or what was sent without
the blanks around it), `TypedStays`, for any transcriptions, texts and profiles.

Then the repairs, of which `RepairsOnlyHelp` is about any subtitles and any
profile, and `FixesHelp` about those of the run: any part of a repair leaves no
more errors, and no more errors and warnings, keeps every word with its time, and
is accepted, edit by edit. The fixer goes through the subtitles once, measures
one and its neighbours only, and the person may apply the edits of some subtitles and not of
others: that none needs another is what is proved.
1. What is counted is what the shares of the subtitles add up to
   (`QualityIsShared`): a share is a subtitle's own issues and those of the gap
   *after* it, so it depends on its text, its end and where the next one starts
   (`SharesAreLocal`). No repair moves a start, so no change touches a share but
   its own (`OneChanges`), and the neighbours measure that one exactly
   (`WindowChanges`). What `tryReplace` keeps therefore makes no share worse
   (`TryHelps`).
2. `Repaired` holds from step to step (`BreakLinesKeeps`, `TrimPreviousKeeps`,
   `StretchKeeps`, `ProposeFixKeeps`): no share is worse, no start has moved, a text
   is the one there was or a layout of its words, and what changed has time.
3. A layout is not trimmed until the server trims it, after it was measured. It
   then says the same, is as long and has no more lines, none of them longer
   (`LaidKeeps`, `TrimmedIsNoWorse`), so what is saved (`AfterRepair`) has a share
   no worse than what was proposed. Shares that are no worse, each taken from the
   repair or from before, add up to no more (`SomeOfTheRepair`,
   `BetterIsNoWorse`).

`Subtitles` have times that are not negative: `parseSegments` takes any finite
number, but a transcription starts at 0 and a PUT refuses a negative start. A repair
with an edit of a subtitle that starts before 0 would be refused. A total is a `Sum`, the
number of pairs of a part and a unit of it, so its laws are facts about finite
sets; what `ProposeFix` and the flattening of a text compute step by step is
followed by the least step that could go wrong, for the provers cannot use the
theorems of induction.

In the same module, `PanelsInv`, about `ResultPanels`. A submission that is not
`old` is about what is on the screen, whose subtitles have been read; one that
reads the configuration counts it among what the key had since it was sent; one
that asks owns the question, which is about its transcription, kind and provider; one that is to be
posted was agreed on, and dubs the original or a translation that is done
(`SendIs`, `QuestionIs`). Of each kind that is `starting` there is exactly one
that is not old (`OneEach`): it is what keeps a second click from a second
request while a new question rejects the one before. A panel follows a job that
is there, of its kind and of the screen, unless it is the burn of a chain
(`TrackIs`), and nothing is under way while something is being opened
(`ViewInv`); what a player plays is what it was last told to load (`PlayIs`).
That jobs only go forward, a completed one stays so, carries what was agreed on
from a state to the next (`Grows`). Hence `SpendsStayAgreed` and
`PanelsStayHonest`, for any transcriptions, providers on offer, servers, models
and bounds.

In `WebPageProofs`, `KeysInv`: whatever paints the panel of the keys (a list, a
failure, another language) leaves in the fields what was typed, or the defaults
of the list it shows (`IsHonest`, `PaintedIs`); a key is marked as being saved
while exactly one call saves it (`SavingIsOne`). `AssistantInv`: while a call is
under way the conversation ends with the question it is about, and what was asked
is there or in the field (`TalkInv`); no tab that lost its AI is waiting for an
answer, and what a tab writes to the storage never brings back one that was
forgotten (`PrefsInv`); cutting a conversation that is too long keeps answers
behind questions (`AddTurnIs`), and of it the AI hears a part that begins with
the person (`HeardIsAsked`). Hence `KeysPanelStaysHonest` and
`AssistantProposes`.

**`LegacyProofs`.** `LegacyInv`: what a job has behind it agrees with its status
(`StatusFollowsWork`), its files with its flags (`FilesFollowFlags`), and the
page's history and active job with both (`HistoryInv`, `PageInv`). Hence
`LegacyOffersWhatIsThere` and `LegacyOverIsOver`.

Only model-checked: what holds under fairness (`EveryJobCloses`,
`UnwantedWorkStops`, `EditsAreAnswered`, `RequestsAreAnswered`,
`FollowingEnds`, `WaitingEnds`), which is out of the prover's reach. All other
properties of the runs are theorems.

## 8. What is not modelled

* The downloads of the panels, and what a control does that a card sets or presses.
* A dub of a translation: the same steps on the objects of another job.
* The percentage of the progress, the heartbeat of a stream, the list of the
  history, which only reads.
* What the runners compute, encryption, the shape of addresses: I/O and algorithms
  without steps of several actors.
* The times given to the words of an edited subtitle and its `.srt`: told apart
  by where they come from only. The lists of issues of the verifier: only counted.
* Cookies and tokens: who holds a session is whose session it is.
* Closing the tab of the web client, and whether a chained burn comes in the end.
* Of the desktop application: subtitle formats, languages, thumbnails, the
  timeline, clearing the history, a `localStorage` that refuses writes, packaging,
  the cleaning of old directories; two edits at once.
* Start-up, configuration, metrics, health, pages, texts, themes, the JSON schemas
  of the messages (a payload is valid or not), deployment and CI.
