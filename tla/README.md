# Vexic, specified in TLA+

Vexic is a provenance-first memory service. A host records its conversations
as *transcript* rows (Tier 1); *dream phases* turn them into candidates
(Light, Tier 2), label and promote them to facts (REM and Deep, Tier 3), and
summarize sessions (Summarize). A hosted deployment adds a control plane
(tenants, keys, sweep bookkeeping), an HTTP and MCP front with a rate limiter,
and a sweeper that schedules the phases; a host is set up by commands, records
with a hook at the end of a turn and is primed by one at the start of a session.
This directory holds TLA+ models of that program, the TLC configurations that
check them and proofs checked by TLAPS.

## Inventory

| component | code (`src/vexic/`) | state | operations | what is hard | what must hold |
| --- | --- | --- | --- | --- | --- |
| Dream sweeper, jobs, lease | `hosted_sweeper.py`, `hosted.py` 828-1296, 1478-1565, `hosted_local.py` 748-785, 1007-1242, `hosted_http.py` 872-912 | `dream_sweep_state`, `dream_sweep_lease`, the in-process in-flight set, tasks, worker threads | sweep, trigger, renew, run a phase, record, drain, restart | overlapping containers, threads that cannot be cancelled, lapsing leases, writes that fail or land unseen | one writer per scope; no row left unsummarized; stamps tell the truth; no wedged scope |
| Memory tiers | `pipeline.py`, `rem.py`, `deep.py`, `storage/candidates.py`, `storage/promotion.py`, `storage/longterm.py` | candidates and their embeddings, facts, `dream_runs` | run_light / rem / deep, commit cycles, dedup, merge, promote, retire | snapshots used after awaits, concurrent cycles, all-or-nothing batches | every message extracted at most once; one fact per candidate; provenance kept |
| Deletion and purge | `service.py`, `storage/purge.py` | `scope_tombstones`, all tiers | delete_scope, purge_scope, tombstone gates | gates checked before model calls, content committed after | nothing of an erased scope comes back |
| Session summaries | `summarize.py`, `storage/session_summaries.py` | `session_summaries` | leaf pass, condense pass, frontier, active and fresh context | concurrent runs, id ranges with gaps, budgets, contexts read on several connections | the frontier covers a prefix, each message once; a context neither drops nor repeats a message |
| Recorder and ingest | `recorders/*`, `storage/transcript.py` | file cursor, `messages`, `source_transcript_ledger` | record, batch, post, ingest | overlapping hooks, lost replies, partial lines, rewritten files | every line ingested exactly once; the cursor never passes a line not ingested |
| Control plane | `hosted_local.py`, `hosted_control_plane_http.py`, `operator_cli.py`, `restore.py` | tenants, projects, API keys, setup tokens, the databases of tenants | provision, retire, repoint, restore, create / revoke / exchange, authenticate | several writes of one call that commit apart, two processes, a decision that outlives its check | revoked keys and void tokens grant nothing; an active tenant has a whole database of its own |
| HTTP and MCP front | `hosted.py`, `hosted_http.py`, `hosted_mcp.py`, `mcp_http.py` | the limiter's buckets; audit and usage rows | receive, authenticate, limit, delegate, record, answer | an effect, two rows and an answer that fail apart | what a caller is told is true; nobody with allowance is turned away |
| Connections | `storage/connection.py`, `storage/errors.py`, `src/adapters/turso_adapter.py` of the repository | slots for driver calls, deadline of a connection, token cache | connect, probe, run, commit, retry, mint, invalidate | answers that come late, after the effect, or never; tokens that expire or are invalidated while they are minted | an unknown outcome is never retried as if it had failed; nobody waits for ever; a token that is served is honoured |
| Schema, repair, import | `storage/schema.py`, `storage/operators.py`, `migration.py` | the tables, indexes and counters of one database; the schema memo | init_db, init_vector_memory, repair, import, retrieval's counters | statements that commit apart, initialisers that race or die, live writers beside them | what is remembered as initialised is whole |
| Host setup and priming | `recorders/claude_setup.py`, `recorders/mcp_connect.py`, `recorders/setup_exchange.py`, `recorders/hosted_prime.py`, `fs_permissions.py` | the recorder's configuration, Claude Code's settings, the prime's status | setup, remove, restore, prime | several files without a lock, edits of other programs, a deadline inside a kill | a hook finds its configuration; a setup does all or nothing; a prime ends before its kill |
| Retrieval and tools | `tools.py`, `subagents/retrieval.py`, `storage/vectors.py` | retrieval events and counters | search, rank, format | - | the event and counter writes are in the schema and purge models; ranking and formatting change nothing and are not modelled |
| Evaluations | `run_evals.py`, `longmemeval*.py`, `live_retrieval_baseline.py` | none | benchmarks | - | not modelled |

The parts meet in few places. The sweeper reads the tenants and the sweep
rows of the control plane and `MAX(messages.id)` of a tenant's database,
and schedules the phases; each phase opens the tenant's database from a worker
thread, over the connections and the token cache when the database is remote;
hosts append and ingest messages at any time, through the front, whose consumers
ask the control plane about the key; an operator deletes and purges scopes,
retires tenants and repoints their databases at any time. The databases'
transactions are the only mutual exclusion between processes.

`PROJECT.json` lists the hazards of this code one by one, at their lines, with
the properties that cover them.

## Modules

| module | what it is |
| --- | --- |
| `ScopeLease` | abstract: what a durable lease promises for one scope |
| `DreamSweep` | the sweeper, the jobs, the claim and lease, the recorder, shutdown and restart, for one (tenant, agent) scope |
| `Tiers` | candidates and facts of one scope under concurrent Light and Deep cycles, on local SQLite and on managed libSQL |
| `ScopePurge` | deletion and purge of an agent's sessions beside writes, searches and dream phases |
| `SummarySpans` | what rows of `session_summaries` cover, and how they follow one another, on sets of rows |
| `SummaryScans` | the loops with which the code computes the same, compared with `SummarySpans` for every small table |
| `SessionSummaries` | Summarize runs of one session that overlap, and readers of its context |
| `SourceLog` | abstract: what the server promises of the messages it ingests |
| `TranscriptIngest` | the Stop hook's recorder, its file and cursor, the network, and the server's ledger |
| `ControlStore` | the control-plane database, calls of its processes, and soft deletion |
| `AgentKeys` | the key store: minting, listing, setup tokens and their exchange; extends `ControlStore` |
| `SetupToken` | abstract: what a setup token promises |
| `TenantCatalog` | tenants, projects, the databases of tenants, restore drills; extends `ControlStore` |
| `ControlPlane` | composes the two, and one request whose consumers share one lookup of its key |
| `HostedRequests` | the front: routes, failures and their answers, telemetry rows, the rate limiter, a crash |
| `RemoteCalls` | operations on a remote database through the deadline wrapper, its slots and worker threads |
| `TokenCache` | the cache of database tokens with its mints and invalidations |
| `Connections` | composes the two: a thread resolves its database, then works on it |
| `SchemaInit` | `init_db` statement by statement, beside other initialisers, writers, repairs and imports |
| `HostSetup` | the commands that set a host up and undo it, and other programs' edits |
| `PrimeHook` | the SessionStart hook's prime: legs, deadline, status, finisher and kill |
| `ClaudeHost` | composes the two: the hook fires if the settings name it and reads the configuration |
| `MC...` | one for each module a run checks: model values, bounds that are definitions, symmetries and state constraints |
| `...Proofs` | `ServiceProofs` (of `DreamSweep` and `HostedRequests`), `TiersProofs`, `ScopePurgeProofs`, `SessionSummariesProofs` (with the lemmas on `SummarySpans`), `StoreProofs` (of `TranscriptIngest` and `SchemaInit`), `ControlPlaneProofs`, `ConnectionsProofs`, `ClaudeHostProofs`: theorems and their proofs |

### DreamSweep

| state | in the code |
| --- | --- |
| `lastMessage` | `MAX(messages.id)` of the agent (ids are AUTOINCREMENT) |
| `active`, `enabled` | `tenants.active`, `tenants.dream_scheduling` |
| `watermark`, `completedAge`, `failedAge` | the `dream_sweep_state` row; a stamp is kept as its age |
| `leaseHolder`, `leaseLeft` | the `dream_sweep_lease` row; the expiry as the time left |
| `mode` | whether a container serves, or its shutdown drain has ended |
| `inflight` | the containers whose `_dream_trigger_inflight` has the scope |
| `sweep` | where a container's `_sweep_tenant` is, with what it has read |
| `job` | a slot: the asyncio job with its heartbeat, then its worker thread alone if it was cancelled, then its recorder |
| `covered`, `durableAge`, `lapsed` | history: the newest row visible to a SUMMARIZE that started; the age of the newest chain end that was durable; whether a lease ran out under a job still at work |

| actions | in the code |
| --- | --- |
| `SweepWatermark`, `SweepState`, `SweepSchedule`, `SweepSkip` | `_sweep_tenant` between its awaits: the agent's watermark, the state row, then `schedule_system_dream` without a yield |
| `TriggerDream`, `TriggerFault` | `trigger_dream_phase` → `_schedule_dream_trigger` |
| `RenewLease`, `LoseLease` | one beat of `_start_dream_lease_heartbeat` |
| `StartPhase`, `PhaseNotStarted` | the worker's prelude: live tenant resolved and phase entered, or refused |
| `PhaseSucceeds`, `PhaseFails` | the end of a phase: the next one is dispatched, or the job returns its `DreamJobOutcome`, drops its claim and releases the lease |
| `RecordWatermark`, `RecordCompleted`, `RecordFailed` | the recorder's writes, in its order |
| `Shutdown`, `Restart`, `Tick` | the end of the lifespan's drain; a crash at any point; time |
| `AppendMessage`, `SetDreamScheduling`, `SetTenantActive` | the world around |

Abstractions, and why they keep what the properties see:

* One scope. The lease, the sweep row, the in-flight set and the recorder are
  keyed by (tenant, agent), and nothing of one scope reads another's. What two
  scopes do share, the executor's threads, is left out (a listed hazard).
* Instants are ages capped at `Interval`: the due check compares an age with
  `Backoff` and `Interval` and two stamps with each other; the upserts keep the
  newer stamp. NULL behaves as a capped age in both. Two stamps beyond the cap
  compare as equal, where the due check finds the dream due either way.
* Containers share one clock, as the comparison of one container's `now` with
  another's `expires_at` assumes.
* The reads of `dream_scheduling_enabled`, `get_tenant` and `agent_watermarks`
  are one step. `now` is taken at the state read, not at the start of the tick:
  an older `now` only makes a due dream look younger.
* A process that comes back has a fresh holder identity (`hosted.py` 615), so
  `Restart` renames the row's holder to `Gone`.
* A call to the control plane that raises may have been applied: the claim
  (`ClaimFault`), the release (`ReleaseLease`), every write of the recorder.
  A renewal that raised and was applied is `RenewLease`; one that was not is no
  step.
* A phase is two steps. What the four phases do to the tenant's tables is the
  subject of `Tiers` and `SessionSummaries`.
* The branch of the recorder for a job that raised something other than a
  cancellation is left out: `_run_system_dream_job` turns every exception of a
  phase into an outcome and its release swallows its own.

### Tiers

| state | in the code |
| --- | --- |
| `autocommit` | the backend: managed libSQL, where a statement outside BEGIN commits by itself, or local SQLite |
| `lastMessage`, `watermark` | `MAX(messages.id)`; `MAX(last_processed_message_id)` over the `ok` and `partial` rows of `dream_runs` |
| `db` | `memory_candidates` (`sources`, the flags as `marks`, whether an embedding row exists, the retiring fact) and `long_term_memory` (status, sources, successor), as committed |
| `txnOwner`, `txnImage` | the implicit SQLite transaction of one Deep run: opened by its first UPDATE or INSERT, seen by that run alone |
| `light`, `deep` | the local variables of a cycle between its awaits and its statements |
| `commits` | history: how many committed Light cycles a row belonged to |
| `missed`, `db.fact[c].missed` | history: per Deep run, then in the fact it inserted, the sources merged into its candidate between its read and its claim |

| actions | in the code |
| --- | --- |
| `LightRead`, `LightExtract`, `LightLoad` | `run_light_phase`: the window after the watermark, the awaited agent with its source filter, the rows without embedding |
| `LightBackfill` | `backfill_missing_candidate_embeddings`, the second transaction's re-check included |
| `LightCommit` | `commit_dream_cycle`: compare-and-set on the watermark, dedup, audit row |
| `DeepRead`, `DeepJudge` | `run_deep_phase` up to the commit: selection, then one awaited judgement per candidate |
| `DeepRetire`, `DeepCheck`, `DeepClaim`, `DeepInsert`, `DeepEmbed`, `DeepLink`, `DeepSupersede`, `DeepBeat` | the statements of `commit_deep_cycle`, in its order |
| `DeepFinish` | its audit row and commit |
| `LightFails`, `DeepFails` | a raise, a lost write conflict, a deadline or the end of the process, anywhere |
| `AppendMessage` | a host records a message |

Abstractions, and why they keep what the properties see:

* Similarity, confidence, scores and the judge's verdicts are open choices: any
  live neighbour may match or be superseded, any selected candidate may win. What
  holds here holds for every ranking and every model's answer. For the same
  reason REM, which changes only `rem_boost`, and the hit and retrieval
  counters, which only feed scores, are left out.
* A Light window keeps one candidate at most. Several of one window are inserted
  or merged one after another inside one transaction, so they are seen together.
* Rows of the scope have consecutive ids, and onboarding's own sessions, which
  pass their rows by argument, are outside the model.
* A fact has the id of the candidate it came from: the unique index on
  `promoted_from_candidate_id` makes that a renaming. The candidate's link to it
  (`DeepLink`) is therefore a statement that may fail, or commit apart, and no more.
* What a fact cites was read before its candidate is claimed, and a merge may come
  between (`promotion.py` 178, 286). `Grounded` does not excuse a fact from
  citing anything else: `missed` holds exactly what came in that window.
* `_promote_candidate`, `_retire_candidate` and `retire_long_term_fact` are
  split at their statements, since on libSQL every one of them is a commit
  and on SQLite the process can end between any two.
* `Init` is a fresh database or one the canonical migration has filled: rows and
  candidates are imported, embeddings are not, so the backfill has work to do.

### ScopePurge

| state | in the code |
| --- | --- |
| `autocommit` | the backend, as in `Tiers` |
| `issued`, `session`, `present` | the last AUTOINCREMENT id, the session of each message ever stored, the rows of `messages` with their FTS and ledger rows |
| `drafted`, `cand`, `fact`, `recap` | `memory_candidates` and `long_term_memory` (their sources), the messages `session_summaries` stand for |
| `events` | the sessions with rows in `retrieval_events` or `candidate_retrieval_events` |
| `tombs` | `scope_tombstones`: target session (`All` for NULL), project and user as one `label`, `physical_purge_deferred` as `pending` |
| `writer`, `phase`, `purge` | what a call holds between its connections and awaits |
| `writer[w].kind` | an append or ingest, a search past its read gate, or the event row of a candidate fallback |
| `tombs[t].open`, `raced` | history: the calls admitted before a deletion and still in progress; the messages such a call stored, or may hold while they are erased |

| actions | in the code |
| --- | --- |
| `AdmitWrite`, then `StoreMessage` or `WriteFails` | `append_transcript`, `ingest_source_transcript`: the gate on one connection, the row on another |
| `AdmitSearch`, `FallBack`, `StoreEvent` | `search_long_term`: the gate of a read, which honours labels, then the facts' event, or past the gate of a write the candidates' |
| `AdmitPhase`, `ClearPhase` | the session's and the agent's gate of `_run_dream_phase_with_usage` |
| `ReadSources`, `ReadCandidate` | what Light, Summarize and Deep read before they await a model |
| `CommitLight`, `CommitSummary`, `CheckCandidate`, `ClaimCandidate`, `InsertFact`, `PhaseFails` | what they write afterwards; claim and insert are one transaction on SQLite and two on libSQL |
| `DeleteScope` | `delete_scope` |
| `LookUp`, `PurgeCommit`, `PurgeRollsBack` | `purge_scope`: the tombstones on one connection, `purge_scope_rows` on another; a dry run or a failure rolls back |

Abstractions, and why they keep what the properties see:

* One agent of one tenant: every query of gates and purge asks for both.
* Windows, spans, dedup and scores are open choices here (any part of what is
  there may be read, any live candidate merged into), and exact in `Tiers`.
  REM writes no content and is left out, as there.
* Dedup events, promotion labels and embeddings go with their candidate or
  their messages in the same transaction.
* `retire_fact` adds no content; the read, export and rebuild flags of a
  tombstone are set once and never cleared. Both are left out. So are the tool
  functions of `tools.py`, which a host runs on its own database without the
  service, and so without the gates.
* A pointer of a retired row to the fact that retired it may dangle after a
  purge. No reader follows it; it is not modelled.

What the exceptions mean: `ErasedForGood` excepts the messages that a call admitted
before the deletion stored, or may have held when the purge came. ADR 0022 takes that
risk knowingly ("operators stop recorders and pipelines first"). Such a phase
commits a candidate whose sources are gone, and since a purge of a session looks
for derived rows through the messages still there, no later purge of that
session finds it; only one of the whole agent does.

`DeletedStaysShut` excepts, with `PassesBy`, a search whose project and user differ from the
tombstone's. The fallback to candidates is skipped where any tombstone of the
session stands, since its telemetry and its notes "both are wrong for a scope marked
for erasure" (`service.py` 749), but the facts' own event is not: a search that the read
gate lets by, as its labels differ, writes its query into the events of a
session that is marked for erasure. `search_transcript`, the expansion of history and
the context ask with an unnamed session and treat any tombstone as theirs; a
fact drawn from a deleted session stays retrievable from other sessions until
the purge (ADR 0022).

### SessionSummaries

| state | in the code |
| --- | --- |
| `issued`, `own` | the last AUTOINCREMENT id of `messages`; the ids of this session, with gaps where other sessions wrote |
| `recorded`, `rows` | `session_summaries`: range, `replaces_summary_ids`, day of `created_at`; `about` is history: the messages a summary's text was made from |
| `today` | the UTC day |
| `run` | where a run of `run_summarize_phase` is in this session, with the row it is about to record |
| `reader` | a `fresh_context` or `load_active_context` request between its connections |
| `overlapped` | history: two runs were once in progress at the same time |

| actions | in the code |
| --- | --- |
| `Start`, `FindSpan`, `AskLeaf`, `RecordLeaf` | `_run_leaf_pass`: span, budget and source, the awaited agent, the insert; again until there is no span |
| `ReadFrontier`, `AskCondense`, `RecordCondensed` | `_run_condense_pass`: the frontier and its oldest run, budget and awaited agent, the insert |
| `RunFails` | the session's `except`, or the end of the process |
| `ReadFresh`, `FreshTail` | `load_fresh_context_rows`: the frontier, then what its budget keeps of it and the messages after that |
| `ReadTail`, `CheckBoundary`, `ReadAfterBoundary`, `ReadRecap` | `load_active_context_messages` and `render_session_recap`, one connection each |
| `EndRead` | the answer, or a read that raised |
| `AppendMessage`, `NewDay` | messages of this session and of others; midnight |

Abstractions, and why they keep what the properties see:

* Where a span ends (an idle gap, three o'clock, more than `TAU_SOFT` tokens),
  whether the frontier has too many tokens, and what a reader's budget cuts are
  open choices: a span may end at any message of the session, and only the count
  `CONDENSE_MAX_FRONTIER_LEAVES` is exact. The first of two reads of
  `find_session_compaction_span`, the rows, can be older than its frontier; the
  message it ends a span at is one of those the open choice offers.
* One session. A run visits sessions one after another, and what it records for
  another one only spends the same budget.
* A message has no parts: the trimming of tool rows without their partner is
  left out, as are texts, redaction and onboarding's sessions, which have no
  summaries. A purge that erases messages and summaries is in `ScopePurge`.
* `SummarySpans` says what the scans of the code compute, on sets of rows.
  `SummaryScans` has the scans as folds in the order of the query, and TLC
  compares the two before each run (`PrefixIsScan`, `CoversIsScan`,
  `RunIsScan`) for every table of up to three rows over four ids.

What `OneChain` is about: two runs that overlap can record two leaves over one
span. Nothing is lost by it (`TellsItsRange`, `ContextWhole`
and the proved `CoverageOnlyGrows` hold with any overlap), but the second leaf does not begin one past
the end of the first, so the oldest run of that frontier is one row, and every
later condense pass rewrites that row and leaves the frontier as long as it
was. ADR 0032's lease is what keeps runs apart.

### TranscriptIngest

| state | in the code |
| --- | --- |
| `file`, `tail`, `rewrites` | the transcript file: finished lines, a last one without newline, and how often it was changed other than by appending |
| `cursor` | the cursor file: session, offset and digest of the prefix |
| `pc`, `session`, `scan`, `full`, `pos`, `tries`, `seen` | a hook run: its payload's session, what it scanned, how far it is, the attempts of its batch, the offset it read before it replaces the cursor |
| `late` | requests whose client gave up and that still reach the server |
| `messages`, `ledger`, `lastId` | `messages` with its AUTOINCREMENT, `source_transcript_ledger` |

| actions | in the code |
| --- | --- |
| `AppendRow`, `EndLine`, `Rewrite` | the host writes, half writes, and rewrites (compaction) its file |
| `Open`, `Scan`, `ScanTooLarge` | `iter_new_rows` from the verified cursor; an oversized message ends the run |
| `Post`, `ServeLate` | one batch through `ingest_source_messages`: ledger, messages and index in one transaction |
| `AttemptFails`, `TimesOut`, `ReplyLost`, `Killed`, `LoseCursor` | faults of the network, the hook's timeout, an unreadable cursor |
| `ReadCursor`, `ReplaceCursor` | the cursor is compared with the file's and replaced |

Abstractions: all lines have one length, so a count of lines is a byte offset and a
rewrite of a line keeps the length, which is the hard case; a digest is what it is
the digest of. A plain rejection (4xx) ends the run as a failed last attempt
does; a cursor that cannot be written is a run killed at that point. What the model
takes from the code as it is: the cursor is all or nothing and names neither
project nor tenant nor database (`transcript_cursor.py` 5), and an oversized message
stops every later run of the file (`tests/test_claude_code_recorder_cli.py` 1981).

### ControlPlane

| state | in the code |
| --- | --- |
| `autocommit`, `work` | the backend; the call each process is busy with, between its statements |
| `gone`, `active`, `audits` | `revoked_at` and `retired_at`, `tenants.active`, the audit rows of deletions |
| `minted`, `listed`, `scope`, `handed` | `hosted_api_keys`, their metadata rows, what a key is for; history: keys that were given out |
| `issued`, `spent`, `expired`, `noted`, `voided` | `hosted_setup_tokens` with `consumed_at`, `expires_at`, `consumed_key_id`; history: tokens revoked or expired unused |
| `known`, `account`, `owner`, `member` | `tenants`, `customer_account_mappings`, `hosted_projects`, `tenant_projects` |
| `ready`, `target`, `drawn`, `dropped`, `content`, `stamped` | local files with a schema, where a tenant's memory is, and the replacement databases of restore drills |
| `request`, `consumers` | one request: its key and the decision its consumers share; `late` is history: whether the key was gone when it had to count |

| actions | in the code |
| --- | --- |
| `Start` (`ConsoleCall`, `IssueKey`, `HealTarget`, `Exchange`, `ConsoleRevokes...`, `OperatorDeletes`, `RestoreDrill`, `ActivateByHand`) | a call of the console, the operator's commands or a container's start |
| `Check`, `Delete`, `Audit` | soft deletion of keys, tokens, tenants, projects |
| `CreateKey`, `LoadKey`, `ListKey`, `Hand`, `HandOrUndo`, `CreateToken`, `ReadToken`, `SpendToken`, `NoteKey`, `FindKey`, `Expire` | `HostedApiKeyStore`, its two transactions for a key and the exchange |
| `MapAccount`, `ReadTenant`, `InsertTenant`, `InitFile`, `Enable`, `Route`, `Join`, `GetProject`, `SeekProject`, `PutProject` | `HostedTenantCatalog`: provisioning, statement by statement |
| `Replace`, `Import`, `Repair`, `Stamp`, `Verify`, `Discard`, `ReadActive`, `Repoint`, `Reload` | a restore drill and the activation of what it made |
| `Break` | a call that fails or whose process dies, between any two statements |
| `Arrive`, `Ask`, `Authenticate`, `Bind`, `EndRequest` | `_RequestAuthState`: consumers that share a decision under its lock, and tasks that outlive the response |

Abstractions: a read is a step of its own; on SQLite the writes up to a commit are
one step, on libSQL each is its own. The console's handlers are synchronous
between awaits, so calls cross only between containers and commands. A base a drill
still works on is not activated by hand. Local files are not told apart by
container. `retire_*`, `provision_project` and `activate_replacement` have no caller
but the drill script and tests, and the argument `customer_target` none at all.
`migrate_control_plane` is a copy made while nothing runs, and is left out.

What the model shows beside its properties. ADR 0028 says that audit rows "commit in
the same transaction" so that "a committed delete never lacks its audit row"; on a
libSQL control plane each statement commits apart, and two revocations that cross
both write one. `activate_replacement_database` racing a retirement leaves `active = 1`
with `retired_at` set, and `retire_tenant` then refuses; it also leaves the tenant's
`dream_sweep_state` alone. `generation` is bumped and never compared. `_load_key`
stands outside the `try` that undoes a key, so a fault there leaves a live key
without a name or metadata. On libSQL a tenant is active before its target is
set; provision's update of the target can overwrite a repoint that crosses it; the
repoint of a local path has no effect on a tenant that has a customer target; and
console writes make a retired tenant active again.

### HostedRequests

| state | in the code |
| --- | --- |
| `now`, `buckets`, `nextPrune` | the monotonic clock, `HostedInMemoryRateLimiter`'s table and when it is next pruned |
| `req` | a request: its place, route and key, when it was admitted, the exception under way, `Retry-After`, the answer |
| `effects`, `rows` | history: its effect on the memory; its audit and usage rows |
| `crashes` | restarts so far |

| actions | in the code |
| --- | --- |
| `Receive`, `TurnAway`, `WriteRefused`, `AnswerLocally` | the routes of `hosted_http.py`, `hosted_mcp.py` and `mcp_http.py` before they ask the service |
| `Admit`, `Refuse` | `check` of the limiter: prune, find or open the bucket, count |
| `CallFails`, `Lands`, `DelegateFails`, `LandsUnseen` | `_call`: authentication and scope, the delegated operation and its faults |
| `RecordAudit`, `RecordUsage`, `RecordFailure` | the two telemetry rows and the answer |
| `Crash`, `SecondPasses` | the process; time |

Abstractions: handlers share an event loop, so only the delegated operation is a
place where others run. The limiter is one process's and is forgotten at a
restart. Its branch that resets a bucket in place cannot be reached, since pruning
drops such a bucket first; the model folds the two. Setup's exchange is
in `ControlPlane`; a trigger shares the bucket of `run_dream_phase`.

What `AnswerHonest` leaves room for, because the code does: an audit row "ok" may
stand while the usage row fails, and the caller is told 5xx although the effect
landed (`hosted.py` 1383); a retried `append_transcript` then stores twice, while
ingest is idempotent; a write of unknown outcome is told as 500, a stream reaped
after its commit as 503; what the caller of a tool did wrong is an error inside a 200;
a read may be answered 400 after its row said ok; and fixed windows admit up to
one less than twice the limit in a sliding one, which `LimiterFair` states.

### Connections

| state | in the code |
| --- | --- |
| `free`, `calls` | the semaphore of outstanding driver calls, and the calls on their worker threads, abandoned ones included |
| `op` | per thread the operation: its shape, statement, step, connection, tries and error |
| `landed`, `lostAcks` | history: how often its write took effect; effects the remote reported as a fault |
| `cache`, `minting`, `tainted` | `TenantTokenCache`: entries in order of use, databases being minted for, those invalidated meanwhile |
| `thread` | where a thread is in `get_token`, with what it holds |
| `now`, `asked`, `issued`, `dropped` | the injected clock; history: calls, mints and invalidations |

| actions | in the code |
| --- | --- |
| `Resolve`, `Hit`, `Mint`, `Wait`, `GiveUp`, `Minted`, `MintFails`, `Publish`, `Invalidate` | `get_token`, the platform's call and `invalidate` |
| `Operate`, `Acquire`, `Start`, `NoCapacity`, `NotStarted`, `TimeOut`, `Refuse` | `DeadlineConnection`: a slot, a worker thread, a wait that ends at the deadline |
| `Answer` | the remote answers ok or with a fault, after the effect or not, to a caller who waits or who has left; or never |
| `Rebuild`, `Retry`, `End` | the probe's one rebuild, `retry_once_if_retryable`, the phase prelude and clients |

Abstractions: a remote operation's time is not counted, its deadline may pass wherever
it waits; the token's TTL is counted. A shape of operation stands for the
call sites that have it; `inside`, with the commit inside the try (`purge.py` 257,
`hosted_local.py` 1541), is in the model and in the proofs, not in the run. The driver's
close is assumed not to fail before it is sent; `invalidate` has no caller in the
tree. A thread that cannot be started at the close raises and
loses the result of an operation that succeeded, where a comment says that close
must never raise; a `scoped` operation of one statement may repeat a row that
committed by itself if its exit finds no slot.

### SchemaInit

| state | in the code |
| --- | --- |
| `backend`, `disk`, `db`, `writer` | SQLite or libSQL; the database as committed and as the process with the open transaction sees it |
| `disk.index`, `found`, `messages` | `messages_fts` in its old or current shape, and what it finds |
| `disk.ledger`, `keys`, `old`, `renamed` | the source ledger, and the one without agents while it is copied |
| `disk.cands`, `dated`, `shadow`, `triggers`, `shadowed` | candidates with their sources and day, the columns, the shadow index and its triggers |
| `disk.unique`, `twins`, `fact`, `count`, `events`, `meta` | the index of one live fact per candidate, facts that violate it, counters, the vectors' model |
| `disk.torn`, `proc[p].open` | history: parts left, or being worked on, between statements that have committed and the one that makes them whole |
| `proc` | a process: its job, statement, schema memo and what it has read |

| actions | in the code |
| --- | --- |
| `EnsureMessages` ... `EnsureRest`, `Commit` | `init_db`, in its order |
| `StartVectors`, `LookAtMeta`, `InsertMeta` | `init_vector_memory` |
| `StartAppend`, `InsertMessage`, `InsertEntry`, `IngestSource`, `Insert`, `Merge`, `Promote`, `Retrieve`, `LogEvent`, `CountEvent` | a process that serves |
| `StartRepair`, `Recount`, `StartImport`, `Import` | `repair_memory_projections`, with a recount of candidates and one of facts, and `import_canonical_migration` |
| `Break`, `Forget`, `RetireTwins` | a statement that raises or a process that dies; an evicted memo; an operator's repair |

Abstractions: a read sees what was committed; on SQLite a transaction begins with the first
INSERT, UPDATE or DELETE. One step fills the index where the code inserts row by
row. What needs nothing of the rows is `EnsureRest`; the facts' own index has the shape
of the candidates'; vectors of another model, labels and dates that cannot
be parsed are left out. The databases met at first are empty ones and those of an earlier
release with one message and a candidate of it (`ShapesAssumption`); an artifact holds what a
database held, so a candidate in it has the day of its sources or none
(`ArtifactAssumption`); that of a release without the column of days
(`~Artifact.dated`) is imported again over rows that have got theirs since, as the columns it
does not have are not compared (`SameRow`). A copy of the ledger that meets an id raises, which is `Break`.

`PartsWhole` excuses a part only while somebody is at it, or was broken off at it,
between statements that had committed (`open`, `torn`). Those windows are the
departures that the model found. An init that fails loud at the twins' preflight has on
SQLite already committed the rename and creation of the ledger, and rolls back
the copy alone: the keys stay in `source_transcript_ledger_old`, and no
later init copies them, where comments say that a failed init never poisons what comes after
(`schema.py` 27, 437). The same holds for `messages_fts`, created and not filled, and on
libSQL for the candidates' shadow. On libSQL `save_messages` commits a message and
its entry apart; an append between the delete and the fill of a rebuild is indexed
twice; and a recount that crosses a retrieval's two statements counts its event
once more. A repair recomputes a fact's counter from its events and so drops what
the fact took over from its candidate when it was promoted (`promotion.py` 279,
`operators.py` 86), where `schema.py` 494 calls the counters rebuild-safe and `longterm.py` 206
says that they cannot disagree. An export reads one table at a time beside writers.

### ClaudeHost

| state | in the code |
| --- | --- |
| `file` | the recorder's configuration and each client's file of credentials: absent, torn, or whose |
| `settings` | Claude Code's settings: whether they are JSON, and their hooks |
| `command` | each command's place, the settings it holds, what it will restore |
| `raced`, `added`, `command[c].alone`, `found` | history: hooks added while a command held older settings; whether rivals ran; what a setup found |
| `prime` | a process of the hook: its place, clock, legs and finisher |
| `status`, `printed`, `taken` | the status file; history: what was printed, and whether it was taken |

| actions | in the code |
| --- | --- |
| `Exchange`, `LoadSettings`, `ReadPrevious`, `WriteSecret`, `Verify`, `EditSettings` | a setup, in its order |
| `Withdraw`, `Restore`, `Rewrite`, `RestoreFails` | its undoing |
| `Remove`, `Dies`, `OtherAdds`, `OtherEdits` | a removal; a death anywhere; other programs and the user |
| `SessionStart`, `Up`, `ReadConfig`, `Skip`, `Mark`, `LegStep`, `Join`, `EmitContext`, `Reject`, `ReportError` | the prime: its clock, which starts before the hook's input is read, marker, legs, one deadline they share, what is printed |
| `StartFinisher`, `WriteFinished`, `SpawnTriggerDream`, `Exit`, `Tick`, `Kill` | status, the detached trigger, the margin before the kill |

Abstractions: a file's content is whose payload it is; the wording of contexts and
commands is left out; the clock counts five seconds at a time.

What the exceptions stand for. Undoing a setup writes the old bytes in place, even
where nothing had been replaced, so a full disk or a kill there leaves a torn
configuration or none; of two setups that run beside one another the
restore of one can remove the other's file; a client's setup that fails after its replace has
deleted the earlier credential; a setup token is spent before settings are even
read; a hook that another program adds between read and replace is lost. The status is
whoever's wrote last, so primes that overlap can hide a kill, and legs that were given
up may still read while the trigger is spawned.

## Runs

| run | shows | bounds |
| --- | --- | --- |
| `sweep_state` | `OneWriter`: two containers never have two worker threads on the scope, across claims that raise after they were written, failed releases, cancelled jobs, crashes and restarts, until a lease lapses under its job; `ClaimIsJob`, `WatermarkCovered`, `CompletedTruthful`, `StampsNeverRewind` and the refinement `LeaseRefined` of `ScopeLease` even then | 2 containers, 2 jobs, TTL, interval and backoff 1, 1 row; `NotBoth`: after a lapse the tenant is as at the start |
| `sweep_live` | `RowsEventuallySummarized`, `NeverWedged` under the fairness below | 1 container, 1 job, 1 row |
| `tiers` | `ExtractedOnce`, `OneFate`, `EvidenceKept`, `Grounded`, `RetiredByFact` on both backends, while cycles cross, fail and lose conflicts at any statement | 2 Light and 2 Deep slots, 3 cycles at a time, 2 rows, 2 candidates, batches of 1 |
| `purge` | `ErasedForGood`, `TiersStayLinked`, `DeletedStaysShut`, `FrozenWhilePending`: what is erased leaves no trace, what is deleted stays shut, what is pending freezes the agent | 2 sessions, 2 labels, 1 writer, 2 phases, 1 purge, 2 calls at a time, 2 messages, 1 candidate, 2 tombstones; `LabelsOrMessages`: two labels where fewer than two messages were stored |
| `summaries` | `TellsItsRange`, `OneChain`, `BudgetKept`, `ContextWhole`: two runs cross, fail and condense while messages arrive, the day changes and a context is read on several connections | 2 runs, 1 reader, 3 ids, 4 summaries, 2 days, frontier 1, budget 2; `DaysOrReaders`: no reader beside the second day or the fourth summary |
| `ingest` | `NothingSkipped`, `DeliveredInOrder`: overlapping hooks over a file that grows and is rewritten skip nothing, store each key once and in the file's order | 2 hooks, 3 messages (one oversized), 1 session, batches of 1, 2 attempts, 2 lines, 1 rewrite, 1 fault |
| `ingest_live` | `EventuallyStored` under the fairness below | the same with a rejected message and an ignored row, 1 attempt, no rewrite |
| `control` | `Admission`, `HomeWhole`, `KeysAccounted`: calls of two processes break off at any statement on either backend, beside a request | 2 processes, 3 keys, 1 token, 2 tenants, 1 project, 1 base, 1 organisation, 2 consumers, 2 calls, the request counted |
| `host` | `HookHasConfig`, `OthersKept`, `SetupAtomic`, `KilledOnlyLate`, `StatusTells`: commands overlap, fail and die beside other programs' edits and a session that is primed | 2 setups and 1 removal of the recorder, 1 setup of a client, 1 foreign hook, 1 prime with 2 legs, deadline 4, finish by 5, kill at 6; `Apart`: three commands, two at a time, the prime beside one while it starts |
| `hosted` | `AnswerHonest`, `LimiterFair`: what a caller is told is true, and who is turned away had no allowance or no room | 3 requests, 2 keys, limits 2, 1, 1 over windows 1, 1, 2, 2 buckets, time 2, 1 crash; `FewTroubles`: three requests where all go smoothly, two beside one that does not |
| `connections` | `WritesLandOnce`, `OutcomeHonest`, `CallersEnd`, `ServesLiveTokens`: threads take tokens and work over one slot of a remote that answers late, falsely or never | a writer (scoped or guarded, one retry) and a reader, 1 slot, 2 databases, 1 cache entry, TTL 1, life 2, latency 1, time 2, 3 asks, 1 invalidation; `Apart`: operations run where the first token was found at once, two databases meet undisturbed |
| `schema` | `PartsWhole`, `MentionFresh`: what an init builds is whole once it is remembered, beside a second init, writers, repairs and an import | 2 processes with 3 starts each, 2 messages; an empty database, one of an old release, one with twin facts |

Bounds. Two containers are what a rolling deploy overlaps; two job slots let
the old container's job, its drained worker or its recorder live beside the
new one's, and the mutants show that each property already fails there when the
code is changed. A TTL and an interval of one tick make every lapse and every
due dream happen. The transcript holds one row at most in the runs: a second adds
interleavings of the same comparison `seen > watermark`, and the proofs cover
any number. The liveness run has one container and one slot, so its job's
drained worker and its recorder delay the next job; liveness with two
containers is out of TLC's reach here.

`tiers` has two slots of each kind, so two Lights race for one window and two
Deeps for one candidate, and the cap of three lets the third cycle be of either
kind. Two candidates are the fewest that merge, supersede or beat one
another; a candidate and its fact can each be judged in a later cycle, so two
also give chains (a promotion that retires the fact of an earlier one). Batches
of one row over two rows give two windows, of which a loser may hold the first
while the winner reads the second. `MaxCycles` bounds only the cycles in
progress at one time, not how many run.

`purge` lets any two calls overlap: two phases, a phase and a purge, a write and
a purge. Two messages in two sessions are the fewest that one candidate can mix, two
tombstones the fewest of which one covers the other, or of which one is purged
and the other pending, or of which two name one session under two labels.
`MaxCalls` bounds what runs at one time, not how often.

`summaries`: three ids hold a gap between two messages of the session or a
session that starts late; four summaries hold two leaves of overlapping runs and a
condensed row of each. A frontier of one makes every second row a reason to
condense, a budget of two lets two runs both pass it. What a reader reads has no
day, and three summaries hold a frontier that is stale twice over.

`ingest`: one rewrite puts any line in place of any other before or behind the
cursor; one fault of any kind can strike either hook. `control`: three keys let two
exchanges of one token and a console's key meet. `MaxCalls = 3` was checked once by
hand without an error (3.2 million states). `host`: setup, removal and a
second setup are the fewest of which one restores what another took away; the
units keep the code's distances between deadline, margin and kill.
`connections`: with one slot, an abandoned call starves everybody else, and a retry
meets the call it left behind. The tokens' history and the operations' are bounded
apart, since an operation only needs its token to begin. `schema`: a third start
lets a process fail, initialise and then serve or repair.

The constraints are named in the `MC` modules and cut states, not steps within the
states they leave; in `connections` and `sweep_state` they could only hide an
error, and the proofs have no such bounds.

Fairness. Of the sweeper (`Fairness`): the loop of a container ticks again and again, so its
reads are strongly fair (a tenant that stays enabled is swept); a stopping
container is replaced; time passes; a phase that is tried again and again at
last starts and succeeds (otherwise no schedule could help), while any single
one may fail; the recorder goes on, and any of its writes may fail for ever.
Nothing obliges a renewal or a release to succeed. `RowsEventuallySummarized`
excepts behaviours in which triggers' claims raise for ever after they were
written: such a trigger leaves a live lease row behind each time. Of the recorder
(`ingest_live`): a host fires the hook again after every turn, so each hook's own steps are
weakly fair; faults end by their bound. Of the threads (`connections`): a
thread runs and its timed waits end, while remote, clock and other threads' mints owe
nothing. The other runs assume no fairness: nothing obliges an operator to
purge, an agent to ask or a session to be summarized.

Statements of the repository that its code does not keep, met while modelling:

* a draining worker outlives its lease, since the heartbeat is cancelled with the job
  (`hosted.py` 908, 993; ADR 0032 says that the drain is protected);
* a job whose lease was stolen starts further phases until its next heartbeat
  (`hosted.py` 951, 977);
* a dream can run again at once, as the sweep row is read before the claim and the
  lease is released before the row is stamped (`hosted_sweeper.py` 223, 353);
* on libSQL a fault between the claim and the insert leaves a promoted candidate
  without a fact, for good (`promotion.py` 170, 322);
* a purge flips the tombstones that equal its target in all fields, but erases by
  session and agent alone, so a tombstone of the same session under another project
  or user stays pending, with nothing left to erase, and keeps every dream phase of
  the agent out (`service.py` 1016, ADR 0022).

Those of the control plane, the schema, the connections and the host stand in
their sections above.

## Proofs

`ServiceProofs` proves of the sweeper, for any sets of containers and job slots, any number
of rows and any TTL, interval and backoff (`SweepAssumption`):

* `TypeCorrect`, from `TypeInv`: `TypeOK` and the shape of a job (a worker
  thread exists exactly while the job runs or drains, and has a phase in hand);
* `WritersExclusive` (`OneWriter`), from `WriterInv`: a second claim is refused
  because each worker's lease is held in its owner's name and has time left.
  `OneWriter` says nothing of the lease, so it is not inductive alone. It holds until
  a lease has lapsed under its job (`lapsed`);
* `NothingStranded` (`WatermarkCovered`), from `CoverInv`: what a sweep or a job
  carries was read from the transcript, a SUMMARIZE that has started has it in
  view, and only then may the recorder write it;
* `StampTruthful` (`CompletedTruthful`), from `StampInv`: the recorder that will
  write a completed stamp carries one no newer than the newest durable end;
* `ClaimHeld` (`ClaimIsJob`), inductive by itself: whatever ends a job ends the
  only running job of its container;
* `NoRewind` (`StampsNeverRewind`) and `LeaseImplemented` (`LeaseRefined`), step
  by step from `TypeInv`.

Of the sweeper, only liveness is model-checked and not proved
(`RowsEventuallySummarized`, `NeverWedged`): TLAPS does not reach it under
fairness. How the pool's threads make a renewal late is a choice of the model's: any
renewal may fail to come.

And of requests, for any requests, keys, limits, windows, table size and restarts
(`HostedAssumption`):

* `AnswersAreHonest` (`AnswerHonest`), from `AllAccounted`, which says at each stage of a
  request what its effect and its rows are: none before the delegate, one of the
  route's once it landed, a row of success only on top of an effect;
* `LimiterIsFair` (`LimiterFair`), step by step from `TableKnows`. That a refusal is
  just cannot be told from a count alone, so the invariant says what a
  bucket's count is of: its window began with an admission, it has counted those since
  (`Since`), and less than the allowance of the window before reach into it
  (`Before`); a bucket that was pruned or never opened has seen less than the
  allowance of late (`AbsentKnows`). The bound of twice the allowance is the sum of the two.

`TiersProofs` proves every invariant that `tiers` checks,
for any number of cycles, rows and candidates, any batch size and both backends
(`TiersAssumption`):

* `TypeCorrect`, from `TypeInv`: `TypeOK`, a window that lies after the
  watermark it was read at, a promotion in hand while one is committed;
* `EachRowOnce` (`ExtractedOnce`): inductive with `TypeInv`, since the
  compare-and-set lets only a window commit that starts at the watermark;
* `FateIsOne` (`OneFate`), from `FateInv`, which says the same of the image of
  the open transaction, as that image is what a commit makes the database;
* `CitesEvidence` (`Grounded`), from `CiteInv`: what a run that has not inserted its
  fact yet lacks of its candidate is what the run has missed (`InHand`), and a fact that
  is there lacks what it missed (`Cited`), in the database and in the image of an open
  transaction, whose candidates have the same sources (`SameSources`). It rests on
  three facts: no step takes a source away, Deep adds none, and Light merges into
  no candidate that is promoted, so after the claim nothing is missed any more;
* `RetirementsJustified` (`RetiredByFact`), from `SoundInv`. A step of
  Deep uses what it decided several steps ago, so the
  invariant must say that every fact a cycle has decided on exists in what it
  sees, that the evidence in hand is part of its candidate's sources, and that
  the candidate is still promoted when its fact is inserted. The cycles that do
  not move keep all that because stores only grow (`Grows`), and because the
  image of an open transaction has grown from the database (`TxnInv`);
* `DedupKeepsEvidence` (`EvidenceKept`), from `KeptInv`: a backfill merges into a
  row that itself stays, so the rows merged in one pass form no chains, and a
  later merge of the keeper takes everything along;
* `PromotionWhole` (`PromotionAtomic`, not a run's), from `AtomInv`: on SQLite a cycle between
  claim and embedding owns the open transaction, whose image is whole but for
  the promotion in hand.

`ScopePurgeProofs` proves every property that `purge` checks, for any sessions,
labels, calls and bounds, on both backends (`ScopePurgeAssumption`):

* `TypeCorrect`, with `HasCurrent`: a Deep call past its selection names a
  candidate. Part of `TypeOK` is that an id is never issued twice;
* `ErasureHolds` (`ErasedForGood`), from `ErasureInv`. That nothing cites what is gone
  (`CitedKept`) is not inductive: a purge keeps it only if whoever holds a
  doomed message was there before the deletion. That is what the gates give
  (`WritersOpen`, `PhasesOpen`): each tombstone knows the calls that came before
  it, `PurgedShut` says that a purged scope holds only what such a call stored,
  and `FoundSound` that a purge acts for tombstones on its own target;
* `ScopeStaysShut` (`DeletedStaysShut`) and `AgentFrozen` (`FrozenWhilePending`),
  step by step from the same invariant;
* `LinksHold` (`TiersStayLinked`), from `LinkInv`: an unwritten id is blank, what
  Deep holds of a candidate is still part of its sources if the row is there,
  and no claim is half done on SQLite.

`SessionSummariesProofs` proves, for every table of rows with numbers up to some
bound, that the query's order has a first and a last row, that the covered prefix
exists and is where coverage ends (`PrefixIs`, `PrefixIsAll`), that the oldest run
covers exactly the range of the row that replaces it (`RunIsWhole`) and that a
leaf after the prefix lengthens a chain (`RunGrows`). That the code's scans
compute these is model-checked, since a fold is an induction over the table.
From there it proves every property of `summaries`, for any runs, readers and
bounds (`SummariesAssumption`):

* `TypeCorrect`, with `InProgress`: a row replaces only older rows, so it never
  hides itself;
* `EachTellsItsRange` (`TellsItsRange`) and `CoverageOnlyGrows`
  (`CoverageGrows`, not a run's), from `RangeInv`: what a run holds between its read and its
  insert starts where something covered ended, and covers what it replaces. Both
  stay true whatever is recorded meanwhile, because coverage only grows, and give
  that an insert adds its range to the cover and takes nothing from it (`Grown`);
* `ContextIsWhole` (`ContextWhole`: nothing is lost and nothing told twice), from
  `ReadInv`: what a reader has read stays true of the rows it holds, since rows
  are never changed, and a boundary once covered stays so;
* `FrontierIsChain` (`OneChain`), from `AloneInv`: a single run's next leaf still
  begins where the frontier's prefix ends when it is recorded, and what it
  condenses is still the whole frontier;
* `BudgetHolds` (`BudgetKept`), from `BudgetInv`: rows recorded and rows being
  asked for together stay within the bound.

`StoreProofs` proves of the recorder and ingest, for any hooks, lines, batch sizes, attempts, faults and
rewrites (`SizesAssumption`, `LinesAssumption`, `CursorAssumption`):

* `TypesHold` (`TypeOK`);
* `NeverSkips` (`NothingSkipped`), from `Inv`: every line that a run has behind it
  (`ScansCovered`), that a late request leaves out (`LateCovered`) or that the cursor's
  prefix holds (`CursorCovered`) is covered. Storing only grows, and a
  run or the cursor names the lines themselves, so a rewrite of the file takes
  nothing away: a prefix that no longer matches is not resumed over;
* `InFileOrder` (`DeliveredInOrder`), from `OrderInv`: while the file only grows, what a
  run scanned, a late request carries and the cursor holds is a prefix of the file
  (`StillThere`) and what is stored is in it (`StoredThere`); what stands before a
  batch is covered, so the batch's rows come after it (`InOrder`);
* `LogImplemented` (not a run's): the tables implement `SourceLog`. Every step adds rows with
  new keys, none of them refused, under the next numbers, or leaves the tables alone. What
  a request adds is known by its place in the request, so the numbers are a one-to-one
  image of those places, as many as there are numbers (`AllTaken`).

And of a database's schema, for any processes, messages, days, artifact and starts, on both
backends (`SchemaAssumption`, `ArtifactAssumption`, `ShapesAssumption`):

* three invariants the rest stand on: `Transactions` (what the writer of the open transaction
  sees differs from what is committed only in that transaction), `Placed` (whether a
  process at a stage is in a transaction, and what it has open there; and that one process at
  most is between the rename and the drop of a ledger) and `Sure` (what an init has passed
  stays so, because no statement takes it back: `Onward`);
* `DaysAreOfSources` (`MentionFresh`), from `MentionsFresh`: what a backfill read still
  holds of the rows that have no day yet, since a merge that adds a source gives the day
  as well;
* `PartsAreWhole` (`PartsWhole`). A part is put together by several processes at once,
  so no step knows that it ends whole. `Fine` says of a part, a database and a set of
  processes that the part is whole or that one of them is at a statement that will make it
  so; `NowFine` says it of all processes and what the writer sees, `ThenFine` of all but
  the writer and what is committed, which is what a rollback returns to. A statement keeps the
  first (`IndexStep`, `LedgerStep`, `ShadowStep`, `CountersStep`), a commit makes
  the second out of it, and a crash the first out of the second (`BreakFine`). The
  counters count: a retrieval between its two statements is owed one
  (`Counting`). `IndexThere` adds that a dropped index is somebody's to create.

`ControlPlaneProofs`, for any processes, keys, tokens, tenants, databases and calls, on
both backends (`StoreAssumption`, `CatalogAssumption`, `HomesAssumption`):

* `ControlTyped`, from `TypeInv`: what each place of a call has in hand;
* `KeysAreSafe` (`KeysAccounted`), from `KeyInv`. That a token is worth one key is not
  inductive: between its spending and the key there is a call, so the invariant says
  that a spent token has one minter at most (`OneMinter`), that whoever mints has
  spent a token that was not void (`Minter`), and that what is void cannot be
  spent (`VoidForGood`: it is deleted for good, or expired and nobody who looked before
  that is still exchanging it);
* `TokensImplemented` (not a run's), from the same invariant: tokens implement `SetupToken`,
  of which they show what is spent, what is void, and which key was minted for which token
  (`Worth`). A spend of a token that expired meanwhile is a spend of one that is not
  void: time voids a token only if no exchange has looked at the clock before;
* `HomesAreSafe` (`HomeWhole`), from `HomeInv`: a base has one call that holds it, a call
  that fills one fills nobody's home, a stamp is only on whole bases, and
  who is active has a file with a schema;
* `AdmissionIsSafe` (`Admission`), from `RequestInv`: what is cached was found by a
  consumer of this request while it was live, so its key was not dead when it
  arrived; and a key that is gone stays gone.

`ConnectionsProofs`, for any threads, slots, retries, statements, databases, TTL, life
and latency with TTL + latency within the life (`RemoteAssumption`, `TokenAssumption`,
`ThreadsAssumption`):

* `ConnectionsSound`: types and the parts below are inductive together;
* `WritesAreOnce` (`WritesLandOnce`) and `OutcomesAreHonest` (`OutcomeHonest`), from
  `CallerInv`: of the calls on an operation's present connection there is at most
  one, the one it waits for or the one that poisoned the connection (`Exact`); a
  write that is out is on this connection, and is waited for, or its outcome is
  unknown and the operation only ends (`OutWaits`); so a retry starts with no write
  out, and how often it landed can be counted step by step (`Counted`);
* `TokensAreLive` (`ServesLiveTokens`), from `TokenInv`: a cached token, and one being
  minted for a database that is not tainted, was asked for after the last
  invalidation (`CacheLive`, `MintsLive`), and is older than its entry by no more than
  the latency;
* `SlotsAreCounted`: free slots, callers that hold one and calls on their threads
  add up to `Slots`, so an abandoned call gives its slot back only when it ends.

`ClaudeHostProofs`, for any commands, hooks of others, primes and legs, and any deadline,
margin and kill in their order (`HostAssumption`, `PrimeAssumption`):

* `HookFindsConfig` (`HookHasConfig`), `OthersAreKept` (`OthersKept`) and `SetupsAreAtomic`
  (`SetupAtomic`), from `HostInv`: two commands that run about one file have met
  (`Met`); a setup that met nobody knows what it found, and nothing but its own write
  has changed it since (`Stories`); a torn configuration is some setup's undoing
  (`TornByUndoing`); and what a command will write back holds every hook
  that was added, the raced ones apart (`HeldCopies`);
* `KillsComeLate` (`KilledOnlyLate`) and `StatusIsTrue` (`StatusTells`), from `PrimeInv`: a
  prime's clock is made up of what passed before it came up, stalls, reads within the one
  deadline, and a finisher that is waited for until the margin (`Timely`); and the status says
  of its writer what the writer's place says (`Telling`);
* `HostSound`: all of it is inductive.

Every safety invariant and action property that a run checks is proved. Only
model-checked, and why: the liveness properties (`RowsEventuallySummarized`,
`NeverWedged`, `EventuallyStored`, `CallersEnd`), since TLAPS does not reach fairness; and
that the scans are what `SummarySpans` says, since a fold is an induction over data.

## Plan

1. *Done*: `ScopeLease`, `DreamSweep`, `Tiers`, `ScopePurge`, `SessionSummaries` with
   `SummarySpans` and `SummaryScans`, `TranscriptIngest`, with runs and proofs.
2. *Done*: `ControlStore`, `AgentKeys`, `TenantCatalog` and `ControlPlane`;
   `RemoteCalls`, `TokenCache` and `Connections`; `HostSetup`, `PrimeHook` and
   `ClaudeHost`, with runs and proofs.
3. *Done*: `HostedRequests` and `SchemaInit`, with runs and proofs.
4. *Done*: `SourceLog` and `SetupToken`, abstract as `ScopeLease` is, and the proofs that
   ingest and the control plane implement them. TLC, given them as properties of the
   instances of `ingest` and `control` by hand, found no step that breaks them.
