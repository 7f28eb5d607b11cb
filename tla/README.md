# A TLA+ verification of MemoryForge

MemoryForge keeps a project's conversations and documents in one SQLite file,
`memory.db`, and hands a host model bounded contexts built from it. Host model,
hook scripts, MCP server, command line and sub-agents are processes of their
own; all they share is the database and, for the hooks, a directory of pending
turns. There is no server and no lock across processes: what keeps the data
right is the order of small SQLite transactions, a few unique indexes, and
checks made before writes.

This directory holds TLA+ models of the parts where that order matters, TLC
configurations that check them on small instances, and proofs that TLAPS checks
for every value of the constants. Paths below are relative to
`src/memoryforge/` unless they start with `src/`.

    tlc -workers 2 -config lcm_threads.cfg MCLCMCompaction   # a run
    tlapm LCMCompactionProofs.tla                            # a proof

`PROJECT.json` lists the runs, which definition models which lines, the fault
that each property is known to catch, the hazards and the theorems.

Contents: 1 the system, 2 the plan, 3 the modules, 4 the runs, 5 fairness,
6 the proofs, 7 what the code does not do as documented, 8 what is not
modelled, 9 what comes next.

---------------------------------------------------------------------------

## 1. The system

### 1.1 Components

"State" is what survives a call: rows of `memory.db`, files, or memory of one process.

| Component | Source | State | Operations that change it |
| --- | --- | --- | --- |
| Raw message log and view | `lcm/store/immutable.py`, `db/schema.py` | `messages`, `message_parts`, `context_items` | `append_message`, `swap_context_items`, `mark_parts_compacted` |
| Summary DAG | `lcm/summary/dag.py` | `summary_nodes` | `create_leaf`, `condense` |
| Compaction engine | `lcm/compaction/engine.py` | `_session_locks` of the process | `compact_if_needed` |
| Compactor | `lcm/compaction/compactor.py`, `file_ids.py`, `subagent_provider.py` | none | asks a model, falls back to a deterministic text |
| Tool output pruner | `lcm/compaction/pruner.py` | marks in `message_parts` | `prune` |
| Context builder | `lcm/context/builder.py` | none | `build` is a pure read |
| Event bus | `lcm/events/bus.py` | deferred events, in memory | `publish`, `drain` |
| Token estimator | `lcm/tokens/estimator.py` | none | - |
| Conversation ingestion | `lcm/conversation/store.py`, `api/memory_io.py` | - | `store_session`, `store_conversation`, `ingest_prompt`, `ingest_file` |
| Content table | `_core.py` | `content_store` with reference counts | `store`, `release`, `cleanup_unreferenced` |
| RLM chunker | `rlm/chunking.py` (`RLMContentChunker`) | none | `chunk_text` |
| RLM buffers | `rlm/chunking.py` (`RLMChunkMixin`), `rlm/schema.py` | `rlm_buffers`, `rlm_chunks` | `load` |
| RLM run records | `rlm/records.py` | leaves and messages of a run's session | `record_result`, `aggregate`, the recursive link |
| RLM runner and facade | `rlm/runner.py`, `api/rlm_facade.py` | rounds of one call | dispatch, retries, recursion |
| RLM search, storage | `rlm/search.py`, `storage.py`, `common.py` | none | queries |
| Long-term memory index | `memory/longterm/indexing.py` | `long_term_items`, `search_fts` | `index_rlm_buffer`, `index_messages`, `index_raw_items`, `merge_items_metadata` |
| Long-term recall | `memory/longterm/retrieval.py`, `store.py`, `models.py`, `utils.py` | none | ranking and selection |
| Memory lifecycle | `api/lifecycle.py` | metadata of items | corrections, contradictions |
| Lexical and vector search | `search/fts.py`, `search/vector.py` | `search_fts`, `vec_index`, an index in memory per process | `add_many`, `search`, migration of keys |
| Markdown autoload | `init/autoload.py` | `autoload_files` | `index_project_markdown` |
| Sub-agents | `agents/operators.py`, `runners.py`, `codex_sync.py` | result cache of the process | run a task |
| API facades | `api/*.py` | open connections | orchestration, context bundles |
| Host integration | `init/hooks.py`, `bootstrap.py`, `codex.py`, `mcp/`, `cli/`, `runtime.py` | a pending file per session | capture, commit, discard and expire turns |
| Benchmarks | `benchmark/` | none | measure |

### 1.2 How they interact

*Through tables.* `append_message` writes a message and its `context_items` row
in one transaction. The engine reads the view, asks the compactor (no
transaction is open while a model answers), writes a node through the DAG (a
transaction) and swaps rows of the view for one summary row (another one). The
builder reads the view and the nodes. RLM run records use the same three tables
for the session of a run. Loading a file goes through three components with a
transaction each: buffer, chunks, items, and a fourth when the autoloader
remembers the file. Storing a conversation takes one transaction per turn, one
per indexed item and one for the metadata. Active recall decides by metadata
that stored conversations, corrections and contradictions all write.

*Through calls.* The engine prunes, then asks the builder for an estimate
before it decides; facades call the engine after storing turns; the autoloader calls
`load` and `index_rlm_buffer` per file; a run of the RLM runner calls dispatch, a pool
of sub-agents, the run records, and itself again through a further round.
A context bundle adds recalled items to what the builder returns.

*Through files.* One hook process appends a prompt to the pending file of its
session, another one stores what is in it and removes it.

*Through processes.* Hooks, MCP, CLI and sub-agents each open the database. The
compaction lock is a `threading.Lock` (`lcm/compaction/engine.py:127`): it
serialises the threads of one process and nothing else.

### 1.3 What is hard

1. Every multi-step operation is a sequence of commits. A process can be killed
   between any two of them, and another one can run in between.
2. Several checks are made before the transaction that relies on them: the row
   position in `swap_context_items`, the recorded batch in `record_result`, the
   loaded buffer in `load`, the items in `index_rlm_buffer`, the row that a
   correction marks.
3. Pending files are read, extended and replaced by hooks without a lock.
4. Messages keep arriving while a model summarises older ones; corrections are
   recorded while a bundle is put together from several reads.
5. Sub-agents time out, fail, and are retried, while others of the pool run on.
6. Retries of the host: it asks again, and the first answer arrives after all.
7. Budgets: the context is cut to a limit and then compared with it; memory gets
   what the context has left.
8. What a model answers is untrusted: too long, empty, without the file ids.
9. A text has one row that many refer to and a vector that many find: who writes
   them, and who still refers to them, is decided by reads before.
10. Arithmetic over positions in the chunker: overlap, boundary, minimal progress.

### 1.4 What makes each component correct

| Component | Correct means |
| --- | --- |
| Log, view, DAG, engine | No raw message leaves the view unless a summary in the view stands for it; the newest stay verbatim; DAG and view agree; a leaf is not written twice; every call returns |
| Context builder | Never over the hard limit; `truncated` is exact; nothing is cut while everything fits |
| Compactor | Every file id of what is compacted is in the node and its text, on every level |
| Pruner | Protected and recent output survives; a second prune changes nothing |
| RLM run records | A recorded analysis is kept; an aggregate with an expected count has every batch once; it replaces exactly its analyses in the view, for good |
| RLM runner | Every planned chunk is covered or reported missing; the answer leads back to every analysis; nothing runs on after the call; every run ends |
| RLM chunker | Every character is in a draft; drafts advance; they are bounded |
| Buffers, index, autoload | What was loaded can be recalled; nothing is chunked or indexed twice; a skipped file is recallable |
| Hooks and conversation ingestion | A captured turn is waiting, was given up on purpose, was lost with a file that could not be read or rewritten, or is stored: once, in order, under its session |
| Lifecycle, index metadata | One current item per fact; supersession leads somewhere; a correction takes effect as a whole |
| Recall and bundles | Within the hard limit; the best match of each search is kept; a corrected item comes with its correction |
| Content table | A count is never below the references that exist; nothing referenced is deleted; a text is kept once |
| Vector search | A cached vector is that of the text it is returned for; what a process knows is found, whoever embedded it |

---------------------------------------------------------------------------

## 2. The plan

| Step | Modules | Abstract specification | State |
| --- | --- | --- | --- |
| 1 | `LCMCompaction`: log, view, DAG and engine | `LosslessView`, `OrderedView` | checked, proved |
| 2 | `ContextBuilder`: budget and decision of a build | - | checked, proved |
| 3 | `RLMRecords`: results of a run | `LosslessView` again | checked, proved |
| 4 | `RLMChunker` | coverage as a property | checked, proved |
| 5 | `DocumentIngestion`: load, index, autoload; `LoadHistory` on top of it | - | checked, proved |
| 6 | `RLMRun`: rounds, pool, retries, partial results, recursive link | coverage as a property | checked, proved |
| 7 | `HookCapture`: hooks, `store_session`, indexing of turns | captured is kept, as a property | checked, proved |
| 8 | `MemoryLifecycle`: metadata, supersession, corrections | one current item per fact, as a property | checked, proved |
| 9 | `ContextBundle`: recall and injection on top of `ContextBuilder` | `ContextBuilder` | checked, proved |
| 10 | `ToolOutputPruner`, `CompactionContent` on top of it | - | checked, proved |
| 11 | `ContentIndex`: reference counts, vector cache and what processes hold of it | - | checked, proved |
| 12 | `SubAgentCache`, `EventBus` | - | open |

Order: first what loses user data if it is wrong (1, 3, 5, 7), then what bounds
what the model sees (2, 4, 9), then what repeats or supersedes (6, 8), then what a
summary says (10), then caches.

Composition:

* `ContextBundle` EXTENDS `ContextBuilder`: a behaviour builds the context, then
  the memory blocks, so that the budget of one is what the other left.
* `CompactionContent` EXTENDS `ToolOutputPruner`: a call prunes, then compacts.
* `LCMCompaction` takes the outcome of the builder's estimate as an input, and
  `ContextBuilder` shows which outcome each view gives.
* `RLMRecords` writes to the same tables as `LCMCompaction` and implements the
  same abstract specification. `RLMRun` takes its two operations step by step,
  without a competitor, since every round has a run id of its own.
* `DocumentIngestion` takes all chunks of a buffer as one, and `RLMChunker` shows
  that they cover the source. `RLMRun` starts from a loaded buffer.
* `HookCapture` goes from the pending file through message and item to the
  metadata; what that metadata does is in `MemoryLifecycle`.

Each module is parameterised by constants with named assumptions, has one
action per transaction or per step between two, and declares no RECURSIVE
operator, so that it can be proved about.

---------------------------------------------------------------------------

## 3. The modules

Conventions. A definition keeps the name of the code where it can. A comment
`Fault:` marks a variant of the next definition that a plausible bug would give;
it is not used by the model, and a property is known to fail when it replaces
the definition. What bounds the exploration, not the program, has the word
`bound` in its comment. A history variable is one that the program does not
have: it remembers what callers got or what has overlapped, so that a property
can name its premise.

### 3.1 `LosslessView`, `OrderedView`: what the context layer promises

`LosslessView` has a log of messages and a view of positioned segments, each
standing for a set of messages. `Arrive` adds a message to the log and the end
of the view. `Compress` puts one segment in place of any set of segments, if it
stands for all they stood for. This is all that can be promised when several
processes compact one session and die at will.

`OrderedView` is stronger: the view is a sequence of sets; messages arrive at
its end and a merge replaces an interval of the sequence by its exact union. This
is what one process that never dies provides.

### 3.2 `LCMCompaction`: log, view, DAG and engine

| State | Code |
| --- | --- |
| `messages` | the rows of `messages`; id is the index; role and `is_summary` |
| `contextItems` | rows of `context_items`: type, id, position |
| `nodes`, `superseded` | rows of `summary_nodes` without and with the one column that changes |
| `locks` | `_session_locks[session]` of each process |
| `call` | locals of `compact_if_needed` of each thread, with a program counter |

| Actions | Code |
| --- | --- |
| `AppendMessage` | `append_message` and `_append_context_item`, one transaction |
| `Start`, `AcquireLock`, `LockTimeout`, `Return` | entry, lock with 5 s timeout, `finally` |
| `Assess` | decision and early returns of `_compact_with_lock` |
| `StopRounds`, `PickMessages`, `PickSummaries` | the head of a round and the choice of what to compact |
| `LookupLeaf` | the search for a leaf with the same input signature |
| `Skip` | a summary that does not shrink ends the call |
| `CreateLeaf`, `Condense` | the DAG's two writers, one transaction each |
| `SwapRead`, `SwapWrite`, `SwapConflict` | `swap_context_items`: position read before the transaction; the unique index on (session, position) may refuse |
| `RecordSummary` | the summary message, outside the view |
| `Crash` | a process is killed: its calls and its lock are gone |

Abstracted: contents (summaries have a set of messages they were written from
instead of text; `CompactionContent` gives them one); token counts (the estimate
and the test that a summary is smaller are inputs, so every outcome is
possible); a model call is the gap between two actions. The session is one;
sessions share no rows. `input_ref` is the set the signature was taken over:
signatures of equal input are equal, and different inputs give different ones
(SHA-256).

### 3.3 `ContextBuilder`: budget and decision

Inputs: sizes of the system prompt, the summaries and the messages of a view.
One step per loop turn of `_render_summary_nodes` and `_select_raw_tail`, so
that every intermediate sum is a state. `Fitted(max)` is the set of sizes
`_fit_message_to_budget` may give: the cut content is at most `max`, may be
shorter because white space is stripped, and is at least the marker;
nothing fits a budget smaller than the marker. `Decide` is `assess` and the two
early returns of `compact_if_needed`. It is explored as the first part of
`ContextBundle` (run `bundle`).

### 3.4 `RLMRecords`: the results of a run

`messages`, `nodes`, `contextItems` are the rows of the run's session. A call of
`record_result` is `StartRecord`, `LookupBatch` (idempotent answer),
`AppendAnalysis`, `CreateLeaf`; one of `aggregate` is `StartAggregate`,
`ReadAnalyses` (with the validation of the expected batches), `Condense`,
`SwapRead`, `SwapWrite` or `SwapConflict`, `AppendAggregate`. Between any two of them is
a gap another worker can run in or a worker can die in.

A batch and the chunks it covers are named by the same number: `dispatch` plans
disjoint batches, so the batch index is a function of the chunks. `BatchOf` is the code's fallback
for analyses recorded without an index: the place in the list.
`returned` is a history variable with the answers callers got.

### 3.5 `RLMRun`: one run, from the buffer to the answer

| State | Code |
| --- | --- |
| `options` | the arguments of `run` that steer it |
| `pc` | where the thread that called `run` is |
| `rounds` | the buffer, the plan and the results of each round |
| `jobs` | the futures of the round's `ThreadPoolExecutor`, with the attempts of each |
| `messages`, `nodes`, `shown` | rows of the runs' sessions |
| `aggregate`, `next_one`, `failed` | locals of the loop of `run` |
| `indexed` | the nodes `index_rlm_worker_result` has been called for |

| Actions | Code |
| --- | --- |
| `Load`, `Dispatch` | a buffer with some number of chunks; its first or best `limit` of them, in batches |
| `StartJob`, `JobAnswers`, `JobFails` | a thread of the pool; `_execute_analysis_job` with its retries |
| `Collect`, `JobsDone`, `Shutdown` | `as_completed`, the failure policy, leaving the `with` block of the pool |
| `RecordMessage`, `RecordLeaf`, `RecordsDone` | `record_result` for every answer, in the order of the plan |
| `Synthesize`, `Condense`, `Swap`, `Announce` | the synthesis by a sub-agent, then `aggregate` |
| `LinkNode`, `LinkSwap` | `_link_recursive_parent`: two commits |
| `NextRound`, `Finish` | the loop condition, `is_last_round`, the error of a reduction that failed |
| `IndexBuffers`, `IndexResults` | the facade's indexing of chunks and results |
| `Die` | the process is killed, at any step |

Abstracted: the size of an aggregate is whether it is too long; a timeout is a
failure that may be retried; loading is an action of its own here, because
`DocumentIngestion` has its commits.

### 3.6 `RLMChunker`: cutting a source

One step per turn of the loop of `chunk_text`. Text is abstracted to where
`_semantic_boundary` may cut: anywhere in the second half of the window, at its
end, and one character behind it (a blank line whose first newline is the last
character of the window). `chunk_size`, `overlap` and `min_progress` are the
code's clamps, so arguments range over values outside of them.

### 3.7 `DocumentIngestion`: from a file to recallable items

`files` are contents on disk with a version (for the autoloader's hash, size and
mtime); `buffers` are `rlm_buffers` in order of creation with what became of
their chunks; `items` the buffers that have `long_term_items`; `autoload` the
rows of `autoload_files`. Start of a call, the autoloader's check, the read of the source with the
lookup of an existing buffer, the insert of the buffer, that of the chunks, its
failure (the buffer is deleted again), the lookup of items, their insert, the
autoload record: one action each, and `Crash` between any two.
The user can `Edit` a file at any time.

Contents are identified with content ids: `load` compares ids. All chunks of a
buffer are one: they are written, and indexed, in one transaction. Everything is
loaded with one chunk configuration, which is part of the code's buffer lookup.
`returned` is a history variable. `LoadHistory` adds another one, `alone`: it is true as
long as no two calls have been under way at once, which is the premise of `IngestedOnce`.

### 3.8 `HookCapture`: from an event of the host to a stored turn

| State | Code |
| --- | --- |
| `pending`, `tmp` | the JSON file of each session and the temporary file next to it |
| `aged` | the pending files older than `PENDING_TTL_SECONDS` |
| `torn` | the pending files that are truncated and not rewritten yet |
| `messages`, `items` | the stored turns; for each long-term item, the turn its metadata is of |
| `hook` | the locals of every running hook process |

| Actions | Code |
| --- | --- |
| `Start` | the host starts `handle_hook_event` with one of six kinds of events |
| `ReadPending`, `WriteTemporary`, `Replace` | `_store_pending_turns` and `_write_json_atomic` |
| `ReplaceDenied`, `Rewrite`, `Tidy` | after a `PermissionError`: the file is truncated, then written in place, then the temporary file is removed if that is possible |
| `FindPending`, `ReadCommit` | `_candidate_pending_paths`, and the turns of a stop from file and payload |
| `ReadPendingFails`, `ReadCommitFails` | `_read_pending_file` answers `{}` for a file it cannot open: the capture goes on with its own turn, the stop unlinks the file |
| `StoreTurn`, `IndexMessage`, `MergeMetadata` | `store_session`, `index_messages`, `_merge_turn_metadata` |
| `UnlinkCommitted` | the pending file goes, after everything else |
| `Discard`, `CleanupStat`, `CleanupUnlink`, `CleanupEnd` | `discard-pending`; expiry at the start of a session |
| `Age`, `Die` | 24 hours pass; a hook is killed or ends by an exception |

A turn is named by the hook that brought it, so that a duplicate is seen as one.
History: `captured` (the hook reported the turn as pending), `dropped`
(discarded or expired), `lost` (in a file when a read of it failed, or when the hook that
rewrote it died), `overlapped` (two hooks at work on one file at a time),
`interrupted` (commits that ended between their first turn and the unlink).
A torn file is read as one without turns (`Read`), and one whose rewriting hook died has
none for good: every reader takes half a document for `{}`. (Cut in the middle of a
character it raises a `UnicodeDecodeError` instead, which ends the hook: that is `Die`.)
A half-written temporary file is never read, unless another hook renames it, and then the
file is noted in `overlapped`. A turn of a failed read counts as lost even if the hook dies
before it writes, when the file is still there: the history errs to that side.
Events that only save a snapshot of the context, and the hooks of sub-agents, do
not touch this state. Files a prompt mentions, and the compaction after a
commit, are in `DocumentIngestion` and `LCMCompaction`.

### 3.9 `MemoryLifecycle`: which memories hold

`items` are the rows of `long_term_items` with the metadata that decides about
currency and trust. `StoreConversation`, `IndexMessage`, `MergeMetadata` are
`store_conversation` with one transaction per message and one for the metadata;
`Record`, `IndexCorrection`, `IndexContradiction`, `ReadMark`, `WriteMark` are
`record_correction` and `record_contradiction`, whose marks are read first and
written, whole rows at a time, later. `Merged` keeps the code's order: the policy
marks rows of the table for each updated item, and the updated items themselves
are written last: `Policed` is the table after each of them, as a recursive function,
`Merging` what becomes of the item. `Score` is active recall's score, in hundredths.

The item a text is found to contest is any choice of items (the search ranks by
text). History: `corrected`, `contested` (a call returned), `restated` (a
statement recorded again: same digest, same item id), `stale` (a mark written
from a row that had changed since), `raced` (merge keys that two overlapping
conversations used).

### 3.10 `ContextBundle`: what the core model reads

From the built context on: `Recall` (both searches cut to four times `top_k`,
reciprocal rank fusion in `Fused`, the champions first in `Selected`),
`ActiveRecall`, `InjectLongTerm`, `InjectActive` (resolve the budget, try the
renderings from rich to short, then fewer items). Each
is one read or one computation of the code; `Correct` and `MarkCorrected` let another process
record a correction between them, in the two transactions of `record_correction`: the item
with the marks of the policy, then low confidence for what it corrects. `request.core = FALSE` is
`lcm_build_context_with_recall`, the entry point without active recall. Text is
its length in each rendering; the rankings of both searches are inputs, and the ranking
made of them is what its order says: the item at place k has k - 1 others before it.
"Rich" is the order of `recall_policy_chain`, not that of the lengths: nothing in
`_recall_text` makes a snippet shorter than the content, so a preferred rendering may
be the shorter one, and `MemoryExactWhenFits` speaks of the chain.

Active recall orders by `Score` and then by age. Of a correction the score is fixed by what
`record_correction` writes (1 + 4 + 0.5 + 0.35 + 0.15), of any other item it is a number
(`weight`) up to 3.5, the most a contradiction can have, that stands for kind, confidence and
freshness. On top come 0.35 for an item of the caller's session (`here`), which the bundle
passes on, 4 less for a superseded one and 3.5 less for one of low confidence. So a corrected
correction is still a candidate until the second transaction, and an older correction of the
session goes before a newer one of another. `controller_ignored`, which nothing in the program
sets, and an item that corrects and contradicts by hand-written metadata are left out.

The audit fields of a bundle, `raw_refs` and provenance, are not modelled: they are a function
of items, messages and summaries together with the `raw_refs` an item's metadata names, whether
that was delivered or not, and no later step reads them.

### 3.11 `ToolOutputPruner`, `CompactionContent`: what compaction does to a text

`ToolOutputPruner` is the scan of `prune` over the parts of messages: where it
ends, what it leaves alone, and its three thresholds.

`CompactionContent` follows one call from there: `PickMessages` or
`PickSummaries`, `Level1`, `Level2` with a model that may fail or answer
anything of `Replies`, the deterministic `Level3`, then `WriteSummary`,
`WriteReference` (the text gives way to a reference to it) or `Skip`. A text is
the tokens of its body, the file ids in it and its two footers; capping a body
may cut any of the ids in it (`Capped`), a text beyond the scan limit may hide
any of them (`Scans`).

One caller works alone, and a node and its swap are one step: the interleavings,
the search for cached leaves and crashes are in `LCMCompaction`. The footer of
source references is a count. Ids that a model invents and that are cut at an
anchor are left out.

### 3.12 `ContentIndex`: content that many share

`content` is `content_store`, `vectors` is `vec_index` by the text whose hash is the
key, `items` are the long-term items, `memory` is the index object that each process
searches. A call stores a text for its caller (`store`), has it indexed (`item`), or
stores a turn and then has it indexed (`turn`), in the steps of the code:
`LookupContent`, then `ShareContent` or `InsertContent`; `ReadVectors`, then
`WriteVectors` or `VectorsFail`, for a turn twice; `InsertItem`. `ReleaseRead` and
`ReleaseWrite` are the two halves of `release`, `Cleanup` may delete any content without
a reference, `Die` leaves what the process had counted. `Open` migrates the keys of the
table and `Load` reads it; `OpenOther` is the migration that an index object made later
by the same process runs.

`Joined` pairs a text with the message it is the first part of. The conversation store
embeds the whole message under the content id of the part; its index object is
not searched, so it has no `memory`.

There is one model identity, so `dimensions` and `model` always match. Ranks and
limits of a search are left out: a query is the set of texts it matches. `release` and
`cleanup_unreferenced` have no caller in the program; they belong to the exported
`ContentHashTable`. The history variables `doubled` and `raced` name the texts
on which two calls overlapped, `known` the items a process may expect to find.

---------------------------------------------------------------------------

## 4. The runs

State counts are those of a complete exploration.

| Run | Instance | Checks | States |
| --- | --- | --- | --- |
| `lcm_threads` | 2 threads of 1 process, 4 messages, 2 calls, 3 rounds, 1 crash, fair | `ViewMatchesDag`, `SpanIsExact`, `LeafReused`, `ImplementsOrderedView`, `EveryCallReturns` | 211 970 |
| `lcm_processes` | 2 processes, 3 messages, 2 calls, 2 rounds, 1 crash, symmetric | `LosslessCover`, `NewestKept`, `ImplementsLosslessView` | 248 848 |
| `lcm_crash_stale` | 1 thread, 3 calls, 1 crash | `NothingLeftMeansCompacted`: violated | - |
| `rlm_records` | 2 workers, 2 batches, 5 calls, 1 crash, all with an index, symmetric | `RecordIsKept`, `AggregateIsComplete`, `AggregateStands`, `ImplementsLosslessView` | 54 834 |
| `rlm_run` | first buffer of 0 to 3 chunks, later ones of 1 or 2, limits 2 and 3, batches of 1 and 2, no pool or one of 2, 0 or 1 retries, up to 2 recursive rounds, death anywhere, fair | `CoverageAddsUp`, `EvidenceReachable`, `ShownOnce`, `ReturnIsSettled`, `RunEnds` | 916 774 |
| `ingest_autoload` | 2 processes, 2 files, 2 edits, 3 calls, 1 crash, 1 failed insert | `IngestedOnce`, `SkippedIsRecallable` | 1 602 858 |
| `chunker` | sources of 0 to 25 characters, windows of 10 to 13, overlaps 0 to 20 | `Lossless`, `DraftsWellFormed` | 1 436 619 |
| `hooks` | 3 hooks, 2 at a time, 2 sessions and none, 1 death, 1 denied rename, 1 failed read, 1 expiry, symmetric | `CapturedOnce`, `OrderIsKept`, `TurnsKeepTheirOwn`, `DiscardedStaysOut` | 2 048 895 |
| `lifecycle` | 2 writers, 1 key, 4 items, conversations of 1 or 2 turns, 3 calls, 1 death, symmetric | `TypeOK`, `SupersessionIsSound`, `CorrectionTakesEffect`, `ContradictionIsFound` | 625 281 |
| `bundle` | prompt, 0-1 summaries, 0-2 messages, 5 queries, 7 requests, 5 items, a correction and 1 more meanwhile, of this session or another | `TruncatedIsExact`, `BundleTypeOK`, `BudgetIsUsed`, `EnsembleKeepsBest`, `CorrectionArrives` | 2 120 728 |
| `content` | up to 4 messages of 4 kinds, a model with 4 answers, 2 calls, 2 rounds | `FileIdsSurvive`, `PruneIsSafe` | 670 762 |
| `shared` | 2 processes, 3 texts, one of them the first part of another, 3 calls, 1 death, 1 failed embedding, symmetric | `ContentIsShared`, `FoundByVector` | 3 611 227 |

What the properties say, and why they could be wrong:

* `LosslessCover`: every raw message is in the view or named by a summary in the
  view. Two processes pick overlapping candidates, swap in any order, one dies
  between node and swap, or condenses nodes another one has just superseded.
* `NewestKept`: the newest `keep_recent_messages` stand as themselves, though
  candidates were chosen before newer messages arrived.
* `ViewMatchesDag`: outside of a swap, and until a process dies, the summaries in the view are the active
  nodes. The next round chooses by the DAG and swaps by the view.
* `SpanIsExact`: a leaf's span is that of its messages; a condensed node's, taken from the
  first and the last child in the order they were inserted, is that of its merged refs until a
  process dies.
* `LeafReused`: a leaf committed before a crash is found again. `EveryCallReturns`: section 5.
* `ImplementsLosslessView`, `ImplementsOrderedView`: every step is a step of the
  abstract specification or changes nothing of it. Beyond the invariants this
  says that a message arrives at the end, that a summary stands where its first
  source stood, and that nothing leaves the view in any other way.
* `RecordIsKept`: the node `record_result` answers with was written about the
  caller's chunks. `AggregateIsComplete`: a count alone would accept a duplicate
  for a missing batch. `AggregateStands`: overlapping aggregates neither leave an
  analysis in the view beside its summary nor displace a later aggregate.
* `CoverageAddsUp`: no chunk of a round is both covered and failed, or neither,
  whichever job of the pool fails and when; without `allow_partial` a round with a
  failed batch leaves nothing on record.
* `EvidenceReachable`: from the last aggregate every analysis of every round can
  be reached. `ShownOnce`: a run's view shows each message once, also after a death
  and between the two commits of a link.
* `ReturnIsSettled`: the answer is within the limit, every analysis can be
  recalled, and no thread is left when the caller closes the database.
* `IngestedOnce`: what loads that do not overlap read can be recalled and is
  chunked and indexed once, also after a failed insert. `SkippedIsRecallable` is
  subtle: the fingerprint is taken before the file is read again, so an edit in
  between pairs an old fingerprint with new content; that is safe in this order
  and unsafe in the other one (`FingerprintNow`).
* `Lossless`, `DraftsWellFormed`: section 1.4.
* `CapturedOnce`: a captured turn is waiting, was given up, or is stored, and at
  most once more for each commit that died before its unlink. It can be lost in two ways,
  which the property names: with a file that cannot be read, and by a death while a file is
  rewritten in place; a refused rename alone loses nothing, and no other death does. `OrderIsKept`: in the
  order of the events. `TurnsKeepTheirOwn`: under the session it was captured in,
  also when a stop without a session id commits it, and with its own metadata.
  `DiscardedStaysOut`: a step never stores what was discarded before. Their
  premise is that no two hooks worked on the file at once (`overlapped`): section 7.
* `SupersessionIsSound` (`OneCurrentPerKey`, `NoCircle`): supersession runs twice per conversation, on
  insert and on merge. `CorrectionTakesEffect`: from the first commit on
  the wrong item is superseded, and after the last one it does not surface.
  `ContradictionIsFound`: both sides know, unless a mark was lost.
* `BudgetIsUsed` (`BundleFits`, `ShortenedForWant`), `TruncatedIsExact`: context and both blocks
  fit together; what is cut is reported, and cut only for want of tokens.
* `EnsembleKeepsBest`: the selection keeps the best match of bm25 at every
  `top_k`, that of the vectors from 2 on and that of the fused ranking from 3 on.
* `CorrectionArrives`: a corrected item is not delivered without the correction that active
  recall saw, unless tokens were short, it was out of the window or corrected itself, or every
  place was taken by corrections that stand and are newer, or of the session when it is not.
* `FileIdsSurvive`: every file id of a searched message is in the column and in the
  text of every node that covers it. `PruneIsSafe`: section 1.4.

* `ContentIsShared` (`ReferencesAreKept`, `TextsAreShared`): each reference that is held, indexed or on its way is counted,
  so that no release takes a text from under the others; a text has one
  row, unless two stores of it overlapped. `FoundByVector`: an item
  embedded before a process opened, or by itself, is among what its search finds,
  also when another process embedded the text, its row is written again, rows are moved to
  other keys or other texts match.

### Bounds, and why they are enough

* *Compaction.* With `Keep = 1`, three messages give a leaf of two and an arrival
  during its summary; four give two leaves and a condensation in one call.
  `MaxMessages = 12` is never reached: it types ids and positions. In `lcm_threads`
  a call waits for the lock of another one, or finds what a dead one left: two calls and one
  crash at every point. In `lcm_processes` two calls overlap without a lock, which is
  what a conflict of positions takes.
* *Records.* Two batches are the least with a missing and a duplicate one; five
  calls are two records, a repeat and two aggregates.
* *Run.* Three chunks in batches of two leave a batch that is smaller; a limit of two
  cuts them; with a pool of two and three batches, one job waits while one fails
  and one runs. Two recursive rounds make an aggregate linked to one that was linked.
* *Ingestion.* Two files with equal and with different contents, so that
  deduplication across paths happens; a file edited there and back.
* *Chunker.* The code's constants (1000, 200, 100, 400) are scaled to 10, 2, 1, 4.
  The ratios that decide are kept: the window is longer than `TooShort`, half a
  window longer than `MinHalf`. The theorems need no scaling.
* *Hooks.* Three hooks are a capture, a stop that dies and a stop that repeats it,
  or two captures and a stop; a stop payload carries a prompt, turns, a tool
  output, an answer or nothing. One death, one refused rename and one failed read fall
  on any step each, also on the same file one after the other.
* *Lifecycle.* Three calls of two writers: an item, its correction, and a third
  call that overlaps with the second. Four items are two turns of two conversations,
  or a conversation, a correction and its correction.
* *Bundle.* Sizes 1, 3, 12 and prompts 0, 4, 13 against a budget of 12, a soft
  limit of 7, a marker of 3 and an overhead of 1: an item that fits, fills, exceeds,
  leaves room for a cut one, or less than the marker. Active recall's 50
  candidates and its limit are scaled to 4 and 2, so that with five items one is
  out of the window. What is corrected meanwhile are an old item and a correction
  (`Targets`), by this session or another: with one place, an older correction of this session
  takes it from a newer one of another, and a correction is corrected itself. Queries:
  nothing, one stream, streams that agree, streams that
  differ, a fused best that is first in neither.
* *Content.* A message's share of the prompt, the cap of a summary and the scan limit
  are 4, 5 and 5 (in the code 2 500, 7 200 and 25 000 tokens): one message and one answer
  are longer than all of them, and a text at the cap is tipped over the scan limit by
  its footer, which in the code takes some thousand ids.
* *Shared content.* Three calls are two stores and a third text beside them, or a turn,
  an item of the same text and an item of the whole message; with two references of one
  text two releases overlap, which is what `Cleanup` needs. Three texts are a part, its
  message and one that has to do with neither.

`Symmetry` permutes threads, workers, processes, hooks and sessions, or writers, which are
interchangeable in the runs that use it; none of those runs checks liveness.
Deadlock is checked in every run: the disjuncts `Quiescent`, `Stopped`, `Done` and
`Bundled` are the states in which all calls have returned and the bound is used up
(in `MemoryLifecycle` also those in which a call waits for a row beyond the bound).

The type invariants of `LCMCompaction`, `ContextBuilder`, `RLMChunker`,
`DocumentIngestion`, `RLMRecords`, `RLMRun`, `CompactionContent`, `ContentIndex`, `HookCapture`,
`MemoryLifecycle` and `ContextBundle` are theorems (section 6); runs check the last two, the builder's as a
part of `BundleTypeOK`.

### Instances that fail, kept as notes

These follow from the same modules by changing a constant or dropping a premise,
and are not runs of their own:

| Change | Fails | Cause |
| --- | --- | --- |
| `lcm_threads` with `HostOf <- OwnProcess`, `Hosts = {t1, t2}` | `ViewMatchesDag`, `ImplementsOrderedView` | the lock is one of the process; `lcm/compaction/engine.py:127` says "session-level advisory lock to prevent concurrent compaction" |
| `lcm_threads` with `Keep = 2`, 5 messages, and `SpanIsExact` for condensed nodes after a crash, too | `SpanIsExact` | a leaf of 1 and 2 is committed, the process dies, and a new message shortens the next leaf to 1 alone; condensing both takes the end of the span from the younger leaf, though the refs go to 2 (`lcm/summary/dag.py:174`) |
| `rlm_records` with `IndexGiven = {TRUE, FALSE}` | `RecordIsKept` | an analysis without an index is read as the batch at its place in the list (`rlm/records.py:300-302`) |
| `IngestedOnce` without `crashes = 0` | `IngestedOnce` | a buffer committed without chunks is found by the next load (`rlm/chunking.py:280`) |
| `IngestedOnce` without `alone` | `IngestedOnce` | lookup and insert of a buffer are apart (`rlm/chunking.py:230`) |
| `IngestedIsRecallable` without `LoadedBefore` | `IngestedOnce` | items of the same path are taken for items of the content (`memory/longterm/indexing.py:617`): an edited file is chunked but not indexed |
| the properties of `hooks` without `overlapped` | `CapturedOnce`, `OrderIsKept`, `DiscardedStaysOut` | a pending file is read, extended and replaced without a lock (`init/hooks.py:279`) |
| `NoCircle` without `raced` | `NoCircle` | overlapping conversations with one merge key (`memory/longterm/indexing.py:428`) |
| the properties of `lifecycle` without `stale` | `OneCurrentPerKey`, `CorrectionTakesEffect`, `ContradictionIsFound` | marks are written from rows read before (`api/lifecycle.py:269`) |
| those without `restated`, with 1 writer and 4 calls | `CorrectionTakesEffect`, `ContradictionIsFound` | a statement recorded again replaces its row, with the marks it had (`api/lifecycle.py:41`) |
| `TextsAreShared`, `FoundByVector` without `doubled` | the same | two overlapping stores of one text give it two content ids; its one vector names the last (`_core.py:97`) |
| `ReferencesAreKept`, `FoundByVector` without `raced` | the same | a release counts from a row it read before, and deletes what was shared since (`_core.py:168`) |
| `FoundByVector` for all items in place of `known` | `FoundByVector` | vectors are loaded once, and the table is searched only if nothing in memory matches (`search/vector.py:369`) |
| `FoundByVector` without its premise on `Joined` | `FoundByVector` | the vector of a message stands in for that of its first part (`search/vector.py:483`) |

---------------------------------------------------------------------------

## 5. Fairness

Two runs assume any.

`lcm_threads`: `FairSpec` is weak fairness of each thread's `Step`.

* A thread is scheduled by the operating system; every action of `Step` is one
  transaction or a computation without a wait of its own.
* Waiting for the lock is not a wait without end: `acquire(timeout=5)` fails
  (`LockTimeout`), and the call answers with the context as it is. A thread at
  `lock` therefore always has a step, and weak fairness is enough: nothing needs
  the lock to be free infinitely often.
* The compactor answers: runners have a timeout, and the last of its levels is
  deterministic text.

Nothing is assumed of arrivals, of new calls or of crashes. `EveryCallReturns`
(`~At(t,"idle") ~> At(t,"idle")`) then says that a call returns or dies with its
process. It would fail if a summary that does not shrink were tried again
(`AfterSkipRetry`).

`rlm_run`: `FairSpec` is weak fairness of `Main`, the thread that called `run`, and
of `Pool`, the threads of its executor together.

* `Main` is one thread that computes, commits, or waits for the pool.
* `Pool` starts a job when a thread is free; a sub-agent that runs answers, or is
  ended by its timeout (`JobFails`). Which job, and with what result, is open:
  fairness of the disjunction is enough, because attempts are bounded.

Nothing is assumed of `Die`. `RunEnds` says that a run returns, raises or dies,
whatever fails and in whatever order. It rests on the pool's habit of running
the jobs that wait after the main thread has given up: were they left
(`WhileCollecting`), the `with` block would wait for them for good.

---------------------------------------------------------------------------

## 6. The proofs

TLAPS proves the following for every value of the constants, from the named
assumptions only (constants are naturals, sets are what the comments say).

| Module | Theorem | States |
| --- | --- | --- |
| `LCMCompactionProofs` | `TypeCorrect` | `Spec => []TypeOK` |
| | `NothingLost` | `Spec => []LosslessCover` |
| | `Implements` | `Spec => ImplementsLosslessView` |
| | `NewestStay` | `Spec => []NewestKept` |
| | `OneCompactionAtATime` | `SameProcess`: two calls past the lock are one |
| | `LeavesReused` | `SameProcess`: `Spec => []LeafReused` |
| | `ViewAgreesWithDag` | `SameProcess`: `Spec => []ViewMatchesDag` |
| | `SpansAreExact` | `SameProcess`: `Spec => []SpanIsExact` |
| | `ImplementsOrdered` | `SameProcess`: `Spec => ImplementsOrderedView` |
| `ContextProofs` | `TypeCorrect` | `Spec => []TypeOK` |
| | `NeverOverBudget` | `Spec => []FitsBudget` |
| | `TruncationReported` | `Spec => []TruncatedIsExact` |
| | `ShownWholeWhenItFits` | `Spec => []ExactWhenFits` |
| | `BundleRefinesBuilder` | `BundleSpec => Spec` |
| | `BundleTypeCorrect` | `BundleSpec => []BundleTypeOK` |
| | `BudgetUsed` | `BundleSpec => []BudgetIsUsed` |
| | `EnsembleKept` | `BundleSpec => []EnsembleKeepsBest` |
| | `CorrectionDelivered` | `BundleSpec => []CorrectionArrives` |
| | `ContentTypeCorrect` | `ContentSpec => []ContentTypeOK` |
| | `FileIdsKept` | `ContentSpec => []FileIdsSurvive` |
| | `PruneSafe` | `ContentSpec => []PruneIsSafe` |
| `LoadingProofs` | `TypeCorrect` | `Spec => []TypeOK` (of `DocumentIngestion`) |
| | `SkippedRecallable` | `Spec => []SkippedIsRecallable` |
| | `LoadedOnce` | `HistorySpec => []IngestedOnce` |
| | `ChunkerTypeCorrect` | `ChunkerSpec => []ChunkerTypeOK` |
| | `ChunkingIsLossless` | `ChunkerSpec => []Lossless` |
| | `DraftsAreWellFormed` | `ChunkerSpec => []DraftsWellFormed` |
| `RLMRecordsProofs` | `TypeCorrect` | `Spec => []TypeOK` |
| | `RecordsKept` | `IndexGiven = {TRUE}`: `Spec => []RecordIsKept` |
| | `AggregatesComplete` | `IndexGiven = {TRUE}`: `Spec => []AggregateIsComplete` |
| | `AggregatesStand` | `Spec => []AggregateStands` |
| | `AnalysesCovered` | every analysis on the log is in the view, as it is or in a summary |
| | `Implements` | `Spec => ImplementsLosslessView` |
| `RLMRunProofs` | `TypeCorrect` | `Spec => []TypeOK` |
| | `CoverageIsRight` | `Spec => []CoverageAddsUp` |
| | `AnswersFit` | `Spec => []ReducedOrRaised` |
| | `NothingStillRuns` | `Spec => []JobsEndFirst` |
| | `AnswerLeadsBack` | `Spec => []EvidenceReachable` |
| | `ShownExactlyOnce` | `Spec => []ShownOnce` |
| | `SettledAfterReturn` | `Spec => []ReturnIsSettled` |
| `HookCaptureProofs` | `TypeCorrect` | `Spec => []TypeOK` |
| | `TurnsKeptApart` | `Spec => []TurnsKeepTheirOwn` |
| | `NothingCapturedIsLost` | `Spec => []CapturedOnce` |
| | `StoredInOrder` | `Spec => []OrderIsKept` |
| | `DiscardedForGood` | `Spec => DiscardedStaysOut` |
| `ContentIndexProofs` | `TypeCorrect` | `Spec => []TypeOK` |
| | `TextsShared` | `Spec => []TextsAreShared` |
| | `ReferencesCounted` | `Spec => []ReferencesAreKept` |
| | `ContentShared` | `Spec => []ContentIsShared` |
| | `FoundInMemoryOrTable` | `Spec => []FoundByVector` |
| `MemoryLifecycleProofs` | `TypeCorrect` | `Spec => []TypeOK` |
| | `SupersessionSound` | `Spec => []SupersessionIsSound` |
| | `CorrectionEffective` | `Spec => []CorrectionTakesEffect` |
| | `ContradictionFound` | `Spec => []ContradictionIsFound` |

`SameProcess` says that all threads are of one process. Several processes have no lock
in common: for the view and its refinement section 4 has the counterexample.

Each follows the same way: an inductive invariant, `Init` implies it, every step
of `[Next]_vars` keeps it, with one lemma or step per action, and it implies the
property.

*Compaction, any number of processes.* `LosslessCover` is not inductive: a swap is only
safe because of what the call that makes it has written before. `IInv` adds, for each call
between the node and the swap, that the node stands for everything the call
picked (`old`), and that ids in rows and calls exist. No part
of it speaks of another thread, of the lock or of crashes, which is why the
result holds with no lock at all: a node never
changes its refs, so what a call knows of its node stays true. For
`Implements`, `SwapWrite` maps to `Compress` with the rows still in the view as
`old`; every action but it and `AppendMessage` leaves log and view alone.
`NewestInv` orders the message rows as the messages, and says that what is about to be
replaced, however long ago it was picked, has `Keep` newer raw messages behind it;
arrivals only add to them.

*Compaction in one process.* `HoldsLock` (a thread past the lock holds it)
gives mutual exclusion. `LeafInv` says in addition that, from the search for a leaf to
its insert, there is no active leaf of the same input, because nobody else can write one. `DagInv`
holds until a process dies: `Consistent` relates, for every point of a call between node
and swap, the rows it is about to take out to the active nodes of the DAG, and keeps
nodes and rows in the order of their messages. From it follow
the agreement of view and DAG, and the exact spans: the first and last child are also
the outermost ones. For `ImplementsOrdered`, sorted by position
the rows taken out are neighbours, so that the swap is a splice of the abstract sequence.

*Builder.* What is used never exceeds what was left: the invariant (`BInv`) carries the sums of
the three kinds against the budget, per phase, and what `whole` and `cut` say of
`truncated` at each point of the loops. For `ShownWholeWhenItFits`, `WholeSoFar` says of a
view whose demand is within the hard limit that nothing has been cut so far and
that `used` is the sum of the costs of what was looked at, so that what is left is at
least the cost of what is not. Sums are a recursive function over sequences; that it
exists for every length and grows with each item is shown by a least
counterexample. It needs `Overhead` (5 tokens a message in the code)
to be above 0: the loops stop when nothing is left, and an item that fits costs something,
so they reach it.

*Bundle.* A step of the bundle is a step of the builder or leaves it alone
(`BundleRefinesBuilder`), so what is proved of the builder holds of the context the memory is
added to. `BundleInv` adds to the types, stage by stage: the limit holds, since
each block is within what the limit had left when it was put in (`FitsSoFar`), which
needs blocks to be naturals; results are what the selection gave of these searches, and
active items what it gave of the index as it is since (`Recalled`, `Surfaced`); nothing is
injected before its step (`NothingInjected`); and the long-term block is the most the
budget allowed (`WellUsed`, by a least or largest count). `Header` is above 0 because a block
begins with a line of its own: with no budget the code puts in no block, and indeed
none would have fitted.

*Bundle, rankings.* A strict total order on a finite set has exactly one element with k - 1
before it, for every k up to its size (`InOrderLists`), so a ranking lists every element
once. `Better` and `Before` are such orders: two items that are equal in score and
in both streams are the same. The selection begins with the champions; the fused best is one of
them or the first of the rest, hence at place 3 at the latest. And a correction that stands
scores 600 or, of the session, 635, which no item reaches that is not a correction that
stands (`ScoreOfCorrection`; it needs that low confidence comes with a supersession mark,
`LowIsSuperseded`). So what took the places before one that was not delivered are corrections
that stand, newer ones or, if it is not of the session itself, ones of the session.

*Compaction content.* `FileIdsSurvive` is not inductive: `ContentInv` adds that nodes cover
messages that exist, and, from the choice of the inputs to the summary's row, that the
inputs exist and that `scanned` has every id of the messages among them. A leaf gets `scanned`; a
condensed node gets the columns of its children, which is why it does not matter that
their texts may be too long to be searched again, nor what the model, a cap or a
reference summary leaves of the text: the footer is written from the column.

*Pruning.* A message that arrives only adds to what is newer than a marked part
(`SumGrows` for the tokens, cardinality for the turns), so what was old stays old. That
a second prune marks nothing is less obvious: marks take parts out of the scan, also
parts that are no candidates and stand before a marked one in their message. But what
is left is a subset of what was scanned, with no more output behind each part, so any
candidate was one before, and all of them were marked at once (`PruneSettles`).

*Chunker.* `IInv` says that the drafts cover the source up to `end`, that every
draft starts before `start` and ends at `end` at the latest, and that `start`
lies within the overlap of the last draft. One consequence: with overlap clamped
to half a chunk and boundaries in the second half, `end - overlap` is always
beyond `start`, so `min_progress` is never needed.

*Ingestion.* `IInv` relates what a call holds, what the autoloader remembers and
what was answered to the *present* version of a file: as long as the version is
still the one the fingerprint was taken of, the content read after it is the
file's content. An edit makes the premise false, a write of buffers leaves the
conclusion alone (contents of buffers never change, and what became of chunks is
final). A call that fills a buffer is alone with it (`OwnBuffer`), so a
failure never takes chunks from under items. `SerialInv` is about calls that follow each
other and are not killed: the one that is under way has the only buffer without
chunks, it found no other of its content when it inserted one, and what
was answered is settled: recallable, or from a path that had been loaded before.

*Run records.* What an aggregate reads is a prefix of the leaves in the order they
were created, so of two aggregates one covers the other, and the summary in the
view that stands for the longest prefix stands for everything any caller was
told. A swap replaces only what its own prefix covers. Every analysis without a
leaf is still in the view as a message. The theorems about batches need a second
invariant, for callers that pass an index: the batch a leaf is read as is that of
its chunk. For the refinement `SwapWrite` maps to `Compress`, as above, and one more
invariant keeps positions within its bounds: messages and pending calls together
never exceed the calls made.

*Run.* `IInv` has four parts besides the types. `PcOK` says what the thread relies on
at each step. `CoverInv` says that the plan of a round partitions its
chunks (the lemma `BatchesPartition`, by division with remainder), that
answered and refused batches are apart, that a leaf belongs to an answered batch of
a round that was collected completely, and that all are recorded when the round
goes on. `JobsInv` says that without a pool at most one started job has not been looked at
and that outside the pool nothing runs. `ReduceInv` says that a
round beyond the last allowed one was marked as such before it began.

*Run, from the answer back.* `Reach` follows the parents of a node by recursion. That
such a function exists at all, for nodes of any number, is shown by a least
counterexample: parents are older than the node that names them (`ReachExists`,
`ReachDown`), and a new node changes nothing of what older ones lead to (`ReachSame`).
`AnswerInv` then says of every step which analyses the nodes lead to that the thread
holds: a round's own aggregate to the leaves of its round, the last aggregate
to those of rounds 1 up to its own, the link of the two to both. `MessageInv` and
`ViewInv` say that every message but the one being written has its analysis, and that
a round's view is all of its messages or one summary that leads to all of them, which is
what a swap in one transaction and a link in two keep.

*Hooks.* `HookInv` has two halves. `Settled` holds however hooks interleave: each works on
one file at most, what a commit has stored so far is as long as its ids, and turns in files,
messages and items are of their sessions, and a file is torn only while a hook rewrites
it (`TornByHook`). `Quiet(k)` holds of a file as long as no two hooks
have worked on it at once: a hook that captures has the turns of the file and
its own behind them (`WellCaptured`), one that commits has the turns of the file
and then its own (`WellCommitted`), or the file could not be read and its turns are noted in
`lost`. So what it has stored is a prefix of what waits, which
gives the counts: a captured turn that waits and is not being committed was stored at
most once by each commit that was cut short (`Counted`), stored turns come before waiting
ones (`Behind`), dropped ones are in no file and no hook (`Dropped`).

*Shared content.* `TypeOK` says of each place in a call what it knows there: the id it
goes on with is one that was given out. `SharedInv` adds to `TextsAreShared` what a look up
leaves behind: a call that is about to insert a text nobody else has in hand finds
none of it when it does, and of two calls that have the same text in hand one was
noted in `doubled`. Nothing but a look up puts a call there, so releases, clean-ups
and deaths only take texts away.

*References.* `ReferenceInv` counts: what is owed of a content is its items, those who
hold it and the calls on the way to an item or about to release it, plus one if a call embedded the
text and died before its item, since that reference is never given back (`Floor`). The stored count is
no less. Whoever names a content names its one text (`NamesAgree`). A release that writes a
count it read earlier is safe because nobody has decided about that text since
(`ReleasesAlone`); whoever did was noted in `raced`.

*Vectors.* `VectorInv` is about clean texts: not noted in `doubled` or `raced`, and no part of a
longer message. The row under the key of a clean text is of that text and names its
content, and no other row does; so the migration of keys moves no such row, and an
embedding never overwrites one by another text. An item or a call that has been embedded
finds its row in the table and, in its own process, in memory. A row goes only with
the last reference of its content, which is why the count of an embedded text is never
given back by a process that died (`LastReference`).

*Lifecycle.* `LifecycleInv` says of rows that they stay the items they are, are about older
items, and, unless their key was noted in `raced`, are superseded by newer ones only. That
is what rules out a circle: the newest item of any set is superseded by none of it. A
conversation marks items a while after it has indexed its own, so it must not mark
newer ones. Hence `InHand`: a newer item of a key it has in hand is its own,
and then the merge leaves it out, or the key was noted; and no explicit list
names an item that came later (`StoreOK`, `Apart`, also for rows somebody else has read
and not yet written). Marks are only added, except by a write from a stale row (`RowOK`
says what such a row still is) or by a statement recorded again: `Kept` is what one
step leaves of a row. `Effect` sums up a step of one writer for all the others, whose
parts of the invariant follow from it (`OthersKept`, `ApartStays`, `HistoryStays`).
`Policed` is shown to exist, and to add only marks that the policy of some item of
the call asks for (`PolicedRecursion`, `PolicedMarks`), by least counterexamples.
That the corrected is not surfaced is arithmetic from there: low confidence and one mark
cost 700 of at most 585 points.

*Only model-checked.*

* Liveness (`EveryCallReturns`, `RunEnds`), which is beyond the prover.

Orders and sums can be proved about because the models state them by what they give:
`InOrder` and `Ordered` by how many elements come before one, `Sums` as a recursive
function, `SumOf` as the number of the units it adds up. The operators of the libraries
for the same (`SetToSortSeq`, folds) rest on definitions the prover cannot expand.

---------------------------------------------------------------------------

## 7. Where the code departs from its documentation

As a run that TLC finds violated, with the documented statement as its property:

`lcm_crash_stale`. `condense` commits the parent and the marks of the children
before the swap commits (`lcm/compaction/engine.py:517`). A process killed in
between leaves the old summary rows in the view; later rounds look at active
nodes only, so these rows are never taken out and the new node never gets in.
Nothing is lost (`LosslessCover` holds), but the view does not shrink again.

Met while modelling, without a run of their own; the models follow the code.

*Compaction.*

* `assess` compares the limits with the estimate of a context the builder has
  already cut to the hard limit (`lcm/compaction/engine.py:108`), so a view far over
  the limit can read as a soft overflow.
* The test whether a summary is shorter than what it replaces measures it before
  the DAG appends its footers; a stored node can cost more than its sources. The
  first level of the compactor compares before its footer, too.
* `_validate_candidate` promises "Not empty", but an empty answer with file ids
  passes, since its footer counts. The cap can be exceeded by a footer.
* `file_ids.py:4-6` says ids are preserved across every round; of a message only
  the first 100 000 characters are searched.
* The scan of the pruner ends at the newest summary message, so outputs that are
  kept in the view before it are never pruned afterwards.

*Run records and runner.*

* Lookup and writes of `record_result` are separate transactions
  (`rlm/records.py:41`): two workers that record one batch at the same time both write
  a leaf, and an aggregate with an expected count then fails for good.
* `_link_recursive_parent` promises an "atomic transaction" (`rlm/records.py:150`)
  and makes two commits.
* With `allow_partial`, a later round that fails entirely, or finds nothing, leaves
  the run without an aggregate and with `reduction_success`.
* The synthesis is neither retried nor covered by `allow_partial`.
* `limit` cuts the buffer before coverage is computed, which can then read 1.0.

*Hooks.*

* `_write_json_atomic` is not atomic when the rename is refused: it truncates the pending file
  and writes it in place (`init/hooks.py:842`), and a hook that dies in between has lost what
  waited. A file that cannot be read counts as empty (`init/hooks.py:831`): the next
  capture writes over it, the next stop unlinks it.
* Two hooks of a session that overlap lose or double turns; they also share one
  temporary file, so one can rename what the other is writing.
* A stop that dies between its first turn and the unlink stores turns again next time.
* Expiry takes a file's age and then unlinks it, whatever arrived in between.
* A stop without a session id commits the only pending file there is, of whichever session.
* After a tool output the metadata of items is paired with a neighbour's turn
  (`api/memory_io.py:269`).

*Lifecycle and recall.*

* Overlapping conversations with one merge key can end with nothing current.
* A correction recorded again replaces its row: if it had been corrected itself it is current again.
* A mark is written from a row read before, over what another writer marked since.
* With `top_k` 1 only the best of bm25 survives; the best of the fused ranking is
  sure from `top_k` 3 on.
* The tokens of a block leave out the frame of its message.
* The policy "legacy" tries snippets, then previews; without `include_content` every
  policy renders previews.
* `lcm_build_context_with_recall` lists everything it retrieved, also what was cut.
* Active recall looks at the newest 50 items, so a correction drops out of it in time; and
  0.35 for the caller's session lets an older correction displace a newer one of another session.
* The provenance of a bundle names what a delivered correction corrects, also when that was cut
  (`api/context_builder.py:475`).

*Content and vectors.*

* `docs/SECOND_BRAIN_ROADMAP.md:205` says that the key of a vector is its content hash,
  "with legacy `content_id` lookups kept only for migration fallback". `store_session`
  embeds all parts of a message as one text under the content id of the first part
  (`lcm/conversation/store.py:137`), so the look up by content id (`search/vector.py:483`)
  finds this row when the part is indexed as an item, and counts the part as cached: its own text is
  never embedded. The next index object that opens moves the row to the key of the part, with the
  embedding of the whole.
* Two overlapping stores of a text give it two content ids, and vector
  search names only the one embedded last.
* What other processes embed after a process opened is hidden from its search while
  anything it holds matches.

*Ingestion.* An edited file is chunked but not indexed
(`memory/longterm/indexing.py:617`).

---------------------------------------------------------------------------

## 8. What is not modelled

* *Text.* Prompts, rendering, wording, token estimation: pure functions, whose sizes
  and outcomes are inputs of the models.
* *Scores.* bm25 and vector similarity are floating point over a
  read-only state; the rankings they give are inputs of `ContextBundle`. The
  search for what a text contests is a free choice in `MemoryLifecycle`.
* *SQLite itself.* A transaction is atomic, and survives the death of
  its process (a power failure, which `synchronous=NORMAL` lets take back the
  latest commits, is left out); a statement refused by a
  unique index rolls its transaction back. Busy timeouts are not modelled: a
  writer that waits is a process that has not taken its step.
* *Event bus, sub-agent cache.* Both are in memory, and steer no write; see the plan.
* *RLM search and storage.* Read-only queries and connection handling.
* *Hosts.* Of the host integration the hooks that touch turns are modelled;
  `bootstrap` and `codex` write configuration, and MCP and CLI appear as the processes that
  call, compete and die. Opening, closing and statistics of the facades are left out,
  and so are the discovery of files and the host's plan in the autoloader.
* *`index_rlm_chunks`*, the insert of `index_rlm_buffer` for chunks named one by one.
* *Benchmarks.*

Limits of what is modelled: one session per instance of the context layer
(sessions share no rows of these tables); one chunk configuration; batch and chunks named alike; a file's version
never returns (an edit that restores hash, size and mtime restores the content
as well); one agent in `MemoryLifecycle` (items of agents are apart); at most one
message of several parts in `ContentIndex`.

---------------------------------------------------------------------------

## 9. What comes next

`SubAgentCache` (`agents/operators.py`), then `EventBus` (`lcm/events/bus.py`).
