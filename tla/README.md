# A TLA+ model of the knowledge platform in `src/app`

The program is a Python modular monolith: a FastAPI backend, an arq worker
pool that ingests documents from connected sources, language-model agents that
answer questions and investigate incidents over what was ingested, an MCP
server that offers the same operations to tools, and a web frontend. PostgreSQL
holds all state (with row-level security per organization), Redis holds
queues, locks and rate limits.

This directory holds TLA+ modules translated from that code, the TLC
configurations that check them, and proofs that TLAPS checks. `PROJECT.json`
maps every definition to the lines it models, and lists the hazards of the code
with the properties that are about them.

## 1. Inventory

| Part | State | Operations | Modules |
|---|---|---|---|
| **Ingestion workers** `ingestion/workers`, `ingestion/service.py`, `repository.py` | `ingestion_jobs` rows; the connector's status, checkpoint, `last_synced_at`; a Redis lock; arq's entries and attempt counters | run a sync, retry it, dead-letter it, reconcile hourly, replay a dead run | `Ingestion`, `SyncContract` |
| **Documents** `ingestion/repository.py` | `documents`, one row per version | insert the next version, skip unchanged content | `Documents` |
| **Internal connectors** `ingestion/connectors/{incidents,runbooks}.py` | none; they page through our own tables | fetch a page since the last sync | `InternalSync` |
| **External connectors** `ingestion/connectors` | checkpoint, resume tokens, delta links | fetch a page | `SourceWalks` |
| **Processors** `ingestion/processors` | none | clean, cut into chunks, keep offsets | `Processing` |
| **Retrieval** `retrieval`, `agents/retrieval` | chunks | hybrid search, fusion, evidence, the room of a prompt | `Retrieval` |
| **Agents** `agents` | a run, its row, the day's budget | rewrite, retrieve, answer, critique, revise, route by confidence | `Asks`, `Grounding` |
| **Knowledge gaps** `agents/knowledge_gap` | gap reports | group questions, merge or insert, dismiss | `Gaps` |
| **Knowledge** `core/knowledge` | proposals, chunks | propose, edit, publish, reject | `KnowledgeReview` |
| **Graph, findings** `core/graph`, `core/proactive` | edges, findings, their evidence | discover, detect, withdraw, walk | `Evidence`, `Traversal` |
| **Incidents** `core/incidents` | incidents, postmortems | edit, draft, approve | `Incidents` |
| **Memory** `core/memory` | notes and their chains | create, supersede, edit, delete, recall | `Memory` |
| **Privacy** `core/privacy` | the tables that name a person | delete in eight steps | `Erasure` |
| **Tenancy** `core/tenancy` | organizations, projects, invitations, access rules | invite, accept, revoke, join | `Tenancy`, `Accounts` |
| **Auth, OAuth** `core/auth`, `mcp/oauth` | refresh tokens in families; flows, codes | sign up, log in, choose, rotate, log out, authorize a client | `Accounts`, `Sessions` |
| **Keys** `shared/security` | envelopes, the key service | seal, open, renew, replace processes | `Secrets` |
| **Limiters** `shared/*rate_limiter.py` | token buckets | acquire, try, expire | `Buckets` |
| **What a call runs in** `database/session.py`, `mcp/dispatch.py` | sessions, the pool, the tenant of a transaction, the log | begin, commit, cancel, log | `Serving` |
| **Frontend** `src/frontend/src` | tokens, user, organization, projects, cache of each page | log in, refresh, switch, log out | `Browser` |
| **Semantic benchmark** `evaluation/semantic`, `scripts` | annotations, resolutions | annotate, resolve, score | `GroundTruth` |

What makes these parts hard, and correct:

* **Ingestion.** Several replicas, an API click, a webhook and an hourly pass
  compete for one connector; workers die between commits; arq cancels, retries
  and re-runs; Redis may lose a reply. Correct means: one sync at a time, a
  cursor that never passes an item that is not durable, a success only for a
  complete window, a history that is not rewritten, no run shown as running
  for ever, and a deleted connector that stays deleted.
* **Documents, walks.** The source changes while it is read. Correct means a
  history without gaps in the order of the edits, and that what a walk passes
  over is only what the code cannot know of.
* **Requests on one row** (knowledge, incidents, memory, graph, tenancy,
  sessions). Each reads, waits (often for a model) and writes, without a lock.
  Correct means that only the pairs of requests that are named can harm each
  other, and only in the way that is named.
* **Agents.** Calls to the model fail and are repeated; the budget is looked
  at before and written after. Correct means that a reply claims no review and
  no source it did not have, and that overspending is bounded.
* **Calls, keys, limits.** A tenant, a key or a bucket outlives or is outlived
  by what uses it. Correct means that nobody reads in another's name, that
  what was sealed opens, and that a limit holds over every stretch of time.
* **Pages.** Answers arrive in any order. Correct means that a page shows what
  is of its session.

All database work runs at READ COMMITTED without row locks, through sessions
with `expire_on_commit=False`: an object read once is handed out again from
the session's identity map until a rollback expires it. A flush writes only
the attributes that differ from that copy. Requests commit when they return
and roll back everything when they raise. These rules decide what an action
is in every module.

## 2. Modules and code

Every component module declares its parameters and their assumptions, its
variables, an `...Init`, one action per operation or step, `...Next`,
`...Spec`, one type invariant and the properties. `MC...` modules put several
components that share no state into one run: each behaviour is one of one
`part`, chosen in the initial state, and the state of the other parts is fixed.
Definitions named `X_Y` are `X` with a plausible mistake. No specification uses
them; putting one in the place of `X` must break the property that
`PROJECT.json` lists with it.

Two devices recur. *Auxiliary overlaps*: a variable records which kinds of
requests were under way at one time (`overlaps`, `incOverlaps`, `disputed`,
`forked`, `together`, ...), so that a property can say which overlap it
excuses, and so that all others are harmless. *Copies*: reading and writing are
two actions, and the copy between them is part of the state.

### Ingestion and its sources

* `Ingestion`: one connector, any number of workers. An action ends at a
  COMMIT or at the loss of a process. `status`, `checkpoint`, `jobs` are the
  rows; `lock` the Redis key (free, held by a worker, or `Orphan`, held by a
  token that nobody will release before its TTL); `queue`, `tries` arq's
  entries; `pc, runs, job, page, item, outcome` where a worker is in
  `_execute_ingestion_job`. `seen` is the connector's status in the worker's
  session: the guard "a deleted connector must not be revived" looks at it, so
  reading and writing are separate steps; after a rollback it is read anew. The
  environment crashes workers, loses replies, cancels tasks, drops connections
  and lets the user delete the connector. `Archive` takes finished rows out of
  view so that a bounded `Jobs` stands for an unbounded history.
* `SyncContract`: the abstract specification. Items become durable, the cursor
  is saved behind them, the window closes when all are durable. `Ingestion`
  instantiates it (`Contract == INSTANCE SyncContract WITH ...`, the ledger and
  the checkpoint mapped to themselves); `KeepsContract` states the refinement.
* `Documents`: the versions of one source's items. Syncs fetch a page (a
  snapshot), read the latest version of an item, and insert the next: separate
  steps, since nothing locks the row. `Syncs` has several members when several
  connectors of one source run in an organization, which registration allows.
* `InternalSync`: OFFSET paging through our incidents or postmortems while
  people change the listing. There is no clock: `place` is where a record stands
  by its sort key, `fresh` what is not before `since`, `stale` what is not
  indexed as it is now. A page is the records of the ranks from the offset on. (In the code `updated_at` is the time at which a transaction
  begins; a slow commit is one more way to fall before `since`.)
* `SourceWalks`: the walks of seven external connectors of three families:
  slices of a listing computed anew at each call, a token that continues one
  listing, and a change feed whose last link is kept for the next sync. A slice
  is taken by rank in the listing of that moment; edits of the same time come in
  the same order (`Number`) at every call.
* `Processing`: cleaning and chunking as functions over texts of six kinds of
  characters, with offsets, compared with what a chunk must be.
* `Retrieval`: a search is several statements, each of which sees what is
  committed when it runs; fusion by reciprocal rank, reranking, evidence by
  source. Lists hold the matching chunks they happen to find, in any order. The
  evidence is cut to the cap when a source overruns it; with the bounds of the
  run only live lookups do, the proof covers the others. `Selections` has what
  `Retrieval` and `Grounding` share: the elements a filter keeps, and the first
  ones.

### Requests on shared rows

* `KnowledgeReview`: one proposal with its chunk, any number of requests that
  publish, edit and reject. From its first UPDATE a request holds the row, so
  UPDATE and COMMIT are one action. The UPDATE names the row by its id and
  succeeds whatever became of it.
* `Evidence`: the edges "document documents incident" and the finding that
  several documents are about one incident. Discovery, detection and rejection
  read, decide and write.
* `Traversal`: `get_neighborhood` as a loop, with its bounds on depth, nodes
  and relationships; the order of a node's relationships is any order.
* `Incidents`: an incident and its postmortems; drafting has a third step,
  the second look after the model has answered.
* `Memory`, `Erasure`: notes, and the deletion of a person's data while
  requests of that person are under way. Each statement sees what is committed
  when it runs; a failing statement poisons the transaction.
* `Tenancy`, `Accounts`: the ways into an organization. In `Tenancy` the second
  look at an invitation returns the copy of the first. `Accounts` keeps rows
  apart from addresses, since an erasure takes the address out of the row.
* `Sessions`: refresh tokens rotate within a family; flows, codes and issued
  sessions of the OAuth provider are in the memory of one process.

### Services

* `Asks`: one ask is one transaction from the check of the budget to the
  commit, with calls to the model and their retries between.
* `Grounding`: what those calls carry: confidence, the sentences of an answer
  with their markers, hypotheses with what they cite. What a model writes is
  any text; whether a chunk supports a claim is a fact of the two.
* `Gaps`: a run reads the questions, reads the open reports, and commits merges
  into copies. Vectors are abstracted to topics.
* `Serving`: the session of a call takes a connection for each transaction; the
  tenant is set for one transaction; a job commits in its middle.
* `Secrets`: envelopes, a local or a vault key service, renewals, and processes
  that are replaced one by one.
* `Buckets`: tokens in units, time in ticks; `level` is a reference meter that
  knows nothing of the implementation.
* `Browser`: a page has its access token, user, organization, projects and
  cache; the refresh token is shared by the pages of a browser. Answers arrive
  in any order, some never.
* `GroundTruth`: commands of the benchmark read, extend and write back one file
  of annotations, a sequence of entries; the text of one case may change. What
  counts for a case are sets of places in the file.

## 3. Runs

| Run | Bounds | What it asks |
|---|---|---|
| `ingestion_safety` | 2 workers, 2 entries, 3 rows, 2 pages of 2 items, 2 tries; Redis keeps the lock | one sync at a time and one running row, honest cursor, honest success, history, deletion, refinement |
| `ingestion_live` | 1 worker, 1 entry, 2 rows, 2 pages of 1 item, lock loss on | no row stays "running"; windows keep being completed |
| `ingestion_disconnect` (violation) | 2 workers, 2 entries, no lock loss | can a sync revive a deleted connector? |
| `ingestion_firstsync` (violation) | 1 worker, a connector that never synced | does a crash leave its row "running"? |
| `history` | documents: 1 sync, 2 items, 3 contents, item 2 may revert; walks: 4 records, pages of 2, both listings, quiet or not | order and number of versions, one current, whole walks, convergence |
| `documents_revert` (violation) | 1 sync, 2 items, reverts | is a restored content accepted? |
| `internal_lostapproval` (violation) | 3 postmortems, pages of 2 | is a late approval ingested? |
| `knowledge` | review: 3 requests, 2 texts, 2 edits; evidence: 3 documents, 2 passes, support 2; traversal: 4 entities, depth 2, 3 nodes, 4 relationships; incidents: 2 responders, 2 drafts, 2 causes | which pairs of requests harm each other, and that no other does |
| `people` | notes: 3 notes, 2 persons, 2 requests; deletion: 1 person, 1 request beside it, 2 notes; tenancy: 2 invitations, 2 callers; sessions: 3 tokens, 1 flow, 2 users | recall, erasure, entry, sessions |
| `services` | 2 asks at a budget of 3; 2 runs, 3 questions, 2 reports; texts of 7 characters; 6 chunks, 2 changes during a search; 2 visitors at one address; 2 calls, 2 tenants, 2 connections; 1 page, 2 users, 2 organizations; 2 passages, 3 claims | what answers, and in whose name |
| `surroundings` | 3 items in 2 places, pages of 1; 2 processes, 2 versions of a key, 2 deployments; capacities 3 and 7, rates 1, 2 and 5, 2 callers; 2 cases, 2 reviewers, 2 commands | walks over living sources, keys, limits, annotations |
| `walks_failure` (violation) | the walks alone | is the link kept on a failure earned? |

A property named by several words joins what belongs together, so that a run
asks it once: `OneAtATime` (`NoConcurrentSync`, `OneRunningRow`),
`ListingsAreWalkedWhole` (`QuietIncidentsAreKept`, `RunbooksAreNotSkipped`),
`WalksBringEdits` (`EarlierItemsCatchUp`, `SyncsComplete`),
`WalksPassOverNothing` (`NothingSlipsThrough`, `LinksAreEarned`),
`RepliesAreEarned` (`ReviewIsEarned`, `RepliesRest`), `PassagesAreSound`
(`ChunksAreExact`, `SearchIsSound`), `InvitationsDecide`, `SessionsAreChains`,
`PostmortemsAreSettled`, `RecallIsSound`, `EvidenceStands`, `SearchFollowsReview`.

Bounds. Two workers and two entries give a duplicate and a successor at once; a
third row lets a replay start while one row is running and one is finished. Two
pages of two items separate "page", "item" and "window"; two tries make the
last attempt differ from the first. In the walks, pages of less than the
listing give a second page with a record to lose. In `Documents` a second item
shows that a failing item holds up the next. Three requests on a proposal let
each pair of kinds overlap under a third; elsewhere two requests are enough,
since each reads once and writes once, and a third party is an action of its
own (`Others` in `Accounts`, the source in `SourceWalks`). A chain of notes
needs three to fork. Texts of up to seven plain characters are longer
than three chunks of two; up to four characters may be of all six kinds, those
that cleaning removes included. A budget of 3 lies below
what one ask may spend. Capacity 7 is not a multiple of the unit 3, and the
rates are below, at and above one token per tick. `Accounts` keeps to one
address; the signups of others under other addresses only appear as rows.
`FewLeftOut` and `Focus` are the constraints of the two runs that need one;
the first leaves the other six connectors alone, and the second narrows only
the deletion, whose notes the part "notes" examines in full.

Each violated property states what a comment or a document of the repository
says; `PROJECT.json` quotes it under `findings`.

* *A deleted connector is revived* and *a first run stays "running"*
  (`Ingestion`): the copy that the guard looks at is read long before the write;
  a row that never got a checkpoint is not recovered by the next run.
* *A restored content is refused* (`Documents`): the unique constraint is over
  all versions, so a source that returns to an old content blocks its page on
  every later sync. `EarlierItemsCatchUp` shows what still holds.
* *An approval is lost* (`InternalSync`): the walk selects postmortems by their
  creation, not by their approval. (An edit of an incident moves later records
  one place up under the walk: `QuietIncidentsAreKept` speaks of syncs left in
  peace.)
* *A link is not earned* (`SourceWalks`): the resume token of a last page is
  taken over before the page's items are processed, and kept if one fails.

Under `LockLoss` (Redis forgets a key, or its holder outlives the TTL) the lock
no longer keeps syncs apart; the code has no fencing token. Only the liveness
properties, checked by `ingestion_live`, and `DeletionSettles`, proved by
`DeletionIsSettled`, are claimed then. `OneCurrentVersion` holds for one
connector of a source: with two, two syncs can insert successors of the same
version, since the unique constraint names the content. `VersionsHaveNoGaps`
holds with any number.

### Fairness

* `Ingestion`: weak fairness of what a live process does by itself (answering,
  releasing, arq starting an entry, the cron pass, TTLs). Strong fairness of the
  steps that talk to Redis, the provider or the database: arq and the hourly
  pass try them again without end, and a dependency that fails every time is
  not assumed to work. Nothing is assumed of users, crashes or cancellations.
  `KeepsCompleting` thus says that attempts that are always cut short still
  make progress, because the cursor is kept.
* `Documents`: the same, strongly fair per item, because an attempt that always
  fails at the same item would satisfy fairness of the step as a whole.
* `InternalSync`: a sync runs on while it can, and from some time on a failed
  attempt only occurs where the walk cannot go on. People may edit for ever.
* All other modules: none. Their requests may fail or stop anywhere and nothing
  repeats them, so they promise only safety; `CHECK_DEADLOCK FALSE` in their
  runs stands for the end of the requests that a bound allows.

## 4. Proofs

Eight modules hold the proofs. A theorem speaks of one component, for every
value of its constants that the assumptions in its module allow; only
`RepliesAreAlwaysEarned` is about an `MC` module, whose property joins two. Each
proof has the same shape: an inductive invariant made of named parts, a lemma
that the initial states satisfy it, one lemma per action or group of actions,
and a temporal step. The parts that are not
themselves the property are listed here, because they are the argument.

**`IngestionProofs`** (workers, entries, rows, pages and items in any number):

* `TypeInv`: types, and what a stage implies of a worker's own variables;
* `LockInv`: a worker between acquiring and releasing holds the lock. This is
  `NoConcurrentSync` in a form that each step preserves by itself;
* `LedgerInv`: the cursor is covered, and so is what a worker has passed of its
  page. Needs `LockInv`: a second sync could close the window under the first;
* `RowInv`: a worker's row is "running" while it reports, and every row that
  says "running" while a worker reports is that worker's.

The action properties and the refinement (`KeepsContract`) follow from one step
each under this invariant. `TypeCorrect` and `DeletionIsSettled` hold with and
without `LockLoss`; all others assume that Redis keeps the lock. `DeletionIsSettled`
needs only `TypeInv`: a step can change a deleted connector's status only by
writing from a copy that says otherwise.

**`DocumentsProofs`**, two components.

* `Documents`: `VersionsHaveNoGaps`, for any number of syncs: the
  version a sync has read is still in the table, since rows are never deleted,
  so an insert has its predecessor. For a source with one connector
  (`\A r, t \in Syncs : r = t`): `OneCurrentVersion`, since the version read is
  then still the latest; and `Chronology`. For that an item is followed by the
  places of its contents in what the source showed: `ShownOnce` (an item that
  does not return to old contents has one place for each), `KnownContents`
  (what is stored or on a page has been shown), `PagesAreNewer` (no page is
  older than anything stored) and `InOrder`. `DocumentTypesHold` is the type
  invariant.
* `InternalSync`, for any number of records and any size of a page: `ReachInv`
  (a record that is out of date, and that nobody has changed meanwhile, is on
  the page in hand or has a rank in the listing that the offset has not passed)
  and `PeaceInv` (people who leave the sync in peace touch nothing). The listing
  of postmortems, by creation, never shifts towards pages already read; that of
  incidents only while people work on them.

**`KnowledgeReviewProofs`**, three components.

* `KnowledgeReview`, for any number of requests, contents and edits:
  `OverlapInv` (whatever is under way together is recorded), `LateInv` (a
  request that outlived a decision overlapped with it), `CopyInv` (a copy is
  current unless the kinds that can make it stale overlapped), `ChunkInv` (only
  a publication makes a chunk), `VersionsInv`. Each write is then covered:
  either the copy it relies on is current, or the overlap that the property
  excuses has been recorded.
* `Evidence`, for any finite set of documents and any number of passes:
  `MeetInv` (two passes under way have met), `DocsInv`, `DiscoverInv`,
  `DetectInv` and `RejectInv` (what a pass that has met nobody has read is
  what the tables say now). `EvidenceStands` and the action property
  `DetectionConverges` follow.
* `Traversal`, for any finite graph, depth and caps. `Within` is what can be
  reached at each depth, a recursive function, unfolded by the induction of
  `Foundations`. `ReachInv`: the walk holds nothing from beyond its depth.
  `FoundInv`: unless it is marked truncated, it holds everything of the depths
  before, and of the entities it is done with every relationship.

**`PeopleProofs`**, five components.

* `Tenancy`: `Holds`, what a request has read of an invitation is still so
  unless another request has read it too.
* `Sessions`: `FamiliesInv`, `LiveInv`, `Carries`, `WaitingInv`, `StageInv`: a
  family has one live token unless it is recorded as forked, and a request
  carries a token that was issued; one request confirms a flow that it has
  claimed, and a session that waits for its code was never handed out.
* `Incidents`: `DraftingInv` (who is about to insert has seen that there is
  nothing, and is alone) and `ReviewingInv` (an edit is of a row that is not
  approved yet, unless an approval is under way), each but for its overlap.
* `Memory`: `NotesMet` (two requests on one note are recorded), `WorkInv` (an
  edit of a note that has been deleted met the deletion), `SuccessionInv` (who
  is about to supersede a note that has a successor met the one who made it).
* `Erasure`, on top of the invariant of `Memory`: `Handled`, what each step of
  a deletion that is behind has removed, has recorded as failed, or has been
  written since. The proof takes the order of the steps as any sequence of the
  tables before the last three.

**`ServingProofs`**, three components.

* `Serving`: `HoldInv` (a connection is held once), `TenantInv` (the tenant of a
  connection is that of the transaction of its call, none in the pool),
  `SeenInv` (what a call has seen is its tenant's), `LogInv`.
* `Accounts`: `RowsHold` (rows are of accounts and organizations that are there)
  and `VisitsHold`: the organizations that a request has seen itself belong to
  exist, those to which it has belonged all the while are among those it read,
  and a mapping it found is of the organization it asks for. Whoever is let in
  is let in on what was read; the invariant ties that to what was so.
* `Browser`: what a page shows is compared with its session when nothing is
  under way, so the invariant says what holds in between. `UserHolds`: the user
  is the token's, but from the answer to a call until the user is there.
  `SwitchHolds`: a switch started from the user's token, and the pair it brings
  is the same person's; without it the organization that is looked up again
  could be another's. `FirmHolds`: once no listing is under way, the listed
  person, the organization and (once they have come) the projects are the
  user's. `CacheHolds` says it of the data that are there and of those still
  under way. `CallHolds`: tokens that are named have been issued.

**`SurroundingsProofs`**.

* `Secrets`: `SealInv` and `StoredInv` (an envelope, on its way or stored, names
  the key that opens it; a connector's row and its secret are stored together),
  `RefusedInv` (who was refused last is not the service that sealed).
* `SourceWalks`, first for the sources that hand out a token. `CoverHolds` (Jira,
  Slack, SharePoint): whatever is out of date is in the next window, and the
  walk that is under way still comes to it, or has it on the page in its hands;
  so does the walk that the checkpoint would take up again. `LinksHold` (Teams,
  SharePoint): every edit that a link vouches for is ingested, or a walk that
  goes on from that link still comes to it; it is said of the saved links, of
  those of the checkpoint and of those the sync has collected, and of the time
  at which the walk opened the listing it is in, which will be a link.
  `PageHolds` is what lets these survive an old version: a page may bring in a
  version that has been edited since, but then the edit is later than every
  link and position, and excused. `FirstsHold` (a channel has a first link
  exactly when it has one to go on from) and `WindowsHold` (a sync's window is
  the last one, or all there is) tie the links to the windows.
  `NothingIsPassed` is the heart: what must be brought in from the place of the
  walk is in what is left of its listing, whether the call opens the listing or
  continues it.
  For the sources that compute their listing at every call, an item is
  followed by its rank in the listing of the moment (`ListHolds`): whatever is
  out of date is in the next window, and its rank is not below the offset of the
  walk, nor of the one that the checkpoint would take up again. An edit shifts
  ranks: in a listing from the newest (GitHub) it only moves others back, so
  that some are seen twice; in one from the oldest it takes an item from before
  the offset, and the places where that happens are excused (`shifted`).
* `GroundTruth`: `VoiceInv` (what a command is about to write adds no second
  voice to a case) and `SoloInv`: as long as no two commands have overlapped,
  the copy of a command is the file, the file holds all that was recorded, its
  entries are in the order of their times and of the texts they saw, and what a
  command is about to add follows them. The property speaks of the foremost and
  the hindmost of a case's entries; their order is what makes these the right
  ones.

**`ServicesProofs`**, five components.

* `Buckets`: `MeterInv`, the reference meter and what the bucket would hold if
  refilled now together never exceed the capacity; `SleepInv`, a caller that was
  told to sleep wakes to a token if nobody is served before. They need that the
  time to live is at least the time an empty bucket takes to refill, which is
  how the code computes it.
* `Gaps`: `GapInv`, made of `ReadTogether` (runs that have read one topic are
  recorded), `CopiesHold` (a copy of a report is current, or the topic is
  recorded) and `NotMade`.
* `Asks`: `ReviewInv` (what an ask will say of its review is what its calls have
  given it); `SpendInv` (the calls so far, with their retries, are bounded by
  the stage); `BudgetInv`, for the sum over a day: what is committed and, for
  each ask in flight, the most that one may spend stay together within the bound
  that the property gives to what is committed. An ask is only let in while the
  committed sum is below the budget.
* `Grounding`: `PlacesHold` (types), `AnswerHolds` (before the reply there is
  none; the way to an answer has chunks, since a historical match alone does not
  reach the threshold, which is assumed to be above a tenth) and `DraftHolds`
  (what is under review cites evidence, each hypothesis some). What a filter
  keeps of a sequence, `Kept`, is given by ranks.

* `Retrieval`, for any finite set of chunks, any number of results, any room of a
  prompt and any changes while the search runs. `RunHolds`: the list
  of a statement is of chunks that were there and that its reader may read, each
  once. `FoundHolds`: so is what is fused, kept, reranked and cut of them, and
  those stand first that both lists have. This is arithmetic (`WeightFacts`): two
  shares of rank 61 (`1/(60+61)` each) are more than one of the first (`1/61`),
  two of a later rank may be less, so the property says it up to that number of
  results. Questions ask for 24 and evidence for 5. `EvidenceHolds`: the evidence is `Sound` (each piece
  of its source, once, by priority, and no postmortem that a runbook told), and
  what is still to be asked has a lower priority than what there is. That two
  sources read the documentation at two times and never give the same chunk
  rests on `SourcedApart`.

`RepliesAreAlwaysEarned` joins those of `Asks` and `Grounding` under the
specification of the run (`MCSpec`): a behaviour of the parts together is one of
each.

**`Foundations`**, which the others cite. The induction theorems of the library
take an operator, which the provers cannot instantiate. Here the property is
given as a set, and follows from the well-foundedness of the numbers:
`NaturalsByInduction`, `SetsByRemoval` (for finite sets), and from them the
existence of functions by recursion (`RecursionOnNumbers`,
`RecursionForever`), which unfolds a recursive definition. `RankIn` is the
number of what comes before, `RanksAreFilled` says that the ranks of a finite
set are all numbers below its size, and `PagesAreFull` what a page holds.

Only model-checked, and why:

* Liveness (`NoStuckRun`, `KeepsCompleting`, `EarlierItemsCatchUp`,
  `SyncsComplete`): fairness and `ENABLED` are beyond this prover.
* `ChunksAreExact`, the half of `PassagesAreSound` that is about `Processing`:
  what folds over the characters of a text give, which is induction over data.
  The other half, `SearchIsSound`, is proved.
* The type invariants of the `MC` modules: each joins those of its parts, of
  which all but that of `Processing` are proved as theorems, so that what only
  TLC checks of them is their conjunction.

## 5. Where the code and its text part without a run

These are noted where they were met; the models follow the code.

* *Rollbacks that take more than was meant.* The reuse of a refresh token
  revokes its family and raises, and the request's rollback undoes the
  revocation. A failed agent run's row is undone in the same way
  (`agents/service.py:812`). A database error while notes are recalled poisons
  the transaction of the answer, against `agents/service.py:193-197` ("A failure
  here must never cost the user their answer").
* *Calls.* The ceiling of two critique calls (`critique.py:84-88`) does not count
  the retries of each. A cancelled MCP call is logged with 200
  (`dispatch.py:127`, `166-173`). `ingestion/service.py:541` opens the
  credential before the row of the run exists (line 551), so a key service that
  is down leaves no trace of the run.
* *Limits.* With a rate below one per second a caller of `acquire` can sleep
  past the time to live of its bucket. `Buckets` states what still holds.
* *Gaps.* A topic that was dismissed comes back with the next run.
* *Chunks.* Offsets refer to the cleaned text (`cleaning.py:47-53`), while the
  docstring at `chunking.py:94-95` speaks of the original: `ChunksAreExact` is
  stated for contents that cleaning leaves alone.
* *Search.* A chunk that words and vectors both found "should outrank one only
  one method found, even if that one method ranked it #1" (`fusion.py:24-28`).
  A request for similar incidents may ask for any number of results
  (`api/routers/ask.py:84`), and from rank 63 on two shares are less than that of
  the first.
* *Grounding.* Citations that appear twice count twice (`critique.py:186-188`,
  `356-374`); a marker after the full stop is not its sentence's
  (`grounding.py:41`); a sentence is grounded by any chunk; indices of
  critique issues refer to lists of different lengths; 1.0 less the penalty
  of 0.2 still passes 0.75; a weak historical match lowers the score.
* *Pages.* `TenantContext.tsx:47-55` keeps an organization that line 86 says is
  dropped; projects and cache outlive a logout; cache keys do not name the
  organization; a late answer about projects overwrites a newer one; a late 401
  clears a new session; two tabs refresh one token.
* *Benchmark.* `usable_for_calibration` is read nowhere
  (`evaluation/semantic/schemas.py:576-579`); the agreement gate does not look at
  the rate; stale cases are missing from `excluded_case_count` while agreement
  counts their annotations; kappa is wrong beyond two reviewers; only the first
  annotation's hash is compared and a resolution's never; commands overwrite one
  another's file; a first annotation that is stale excludes its case for ever.

## 6. Not modelled

`PROJECT.json` lists, for each component, what is left and why. In short:
`reindex` (nothing in `app/` calls it); the size limits of pages and documents
(one more way for a step to fail, which `SyncRaises` and `SyncFails` include);
five external connectors, whose walks belong to the three families of
`SourceWalks`; authentication at providers and `normalize`; extraction from
office formats; prompts, the text of notes, titles and severities; relationships
made by hand; the audit trail, which is only appended to; the parsing of
settings; the older benchmark; layout of pages, operator scripts and
deployment. The policies of row-level security are taken for what their SQL
says.

Chunks of superseded versions stay searchable (`retrieval/pgvector/store.py`):
the model has the same, and no property speaks against it.

## 7. Running

`tlc -config <cfg> <Module>.tla` for a run; `PROJECT.json` names both. `tlapm
<Module>.tla` for each of `IngestionProofs`, `DocumentsProofs`,
`KnowledgeReviewProofs`, `PeopleProofs`, `ServingProofs`, `SurroundingsProofs`,
`ServicesProofs` and `Foundations`. The longest take a few minutes.
