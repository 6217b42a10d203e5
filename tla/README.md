# A verification of hybrid-rag-engine's ingestion

The engine accepts documents over HTTP, keeps one lifecycle record per document in
Qdrant, and hands parsing, chunking, indexing and deletion to a single worker process
through a queue of JSON files. Two processes share three stores with no lock and no
transaction among them. The code is short; what is hard about it is which of its steps
can come between which others. Around that control plane are the gateway that lets an
upload in, the way a file is written, and the parsers and the chunker that turn it into
chunks. These modules model the steps of all of them, TLC checks them on small instances,
and TLAPS proves most of their safety properties for every instance.

## Inventory

| Component | State | Operations | Interacts with |
|---|---|---|---|
| Job queue (`app/infrastructure/filesystem/manifest_queue.py`) | one manifest per job in `pending/`, `processing/`, `completed/`, `failed/` | `publish`, `claim_next`, `complete`, `fail`, `recover_stale`, `remove_for_document` | called by the document service (API process) and by the pipeline (worker process), at the same time |
| Document service (`app/application/documents.py`, `app/api/documents.py`) | none of its own; one task per request | `upload`, `delete`, `get`, `list` | records, storage, queue, in that order; cut short by the request timeout |
| Worker pipeline (`app/application/worker_pipeline.py`, `worker/main.py`) | the claimed job | `process_one`: `_ingest`, `_delete`, `_mark_failed`; recovery at start | queue, records, storage, parsers, chunker |
| Lifecycle records (`qdrant_documents.py`) | status per document | `get`, `upsert`, `set_status` (a read, a check, a write) | both processes |
| Lifecycle policy (`lifecycle.py`) | none | `can_transition` | `set_status` |
| Document storage (`document_storage.py`) | a directory per document; quarantine | `stage`, `promote`, `discard`, `persist_*`, `delete_document` (`rmtree`) | both processes |
| API keys (`qdrant_api_keys.py`, `main.py`, `provision_api_key.py`) | a record per key, the collections | `initialize`, `seed_key`, `authenticate` | every request; the start of the API; provisioning runs |
| Parsers and router (`parsers/`) | the loop over the lines of a file; the default thread pool | `parse` of five formats, the timeout of PDF conversion | pipeline |
| Chunker (`structure_aware.py`) | the groups it is filling | `chunk` | pipeline, on what a parser returns |
| Policies, configuration, HTTP shell | none | validation, wiring, error answers | all of them |

What makes each correct, and what is hard about it:

* **Queue.** A published job is delivered until an outcome is on file, across the death
  of either process. Hard: every operation is several file operations, and publishers,
  the worker's purge and its recovery act on the same names.
* **Service and pipeline.** READY means that everything derived is on disk; DELETED means
  that nothing derived is left; a recorded outcome agrees with both; every accepted
  document is moved on by some job. Hard: `set_status` and `upload` act on reads that are
  several awaits old; a killed worker's job starts over on top of what it left; `rmtree`
  runs while an upload promotes into the same directory; a request can be cancelled at
  any await.
* **Storage.** A reader never sees half a file, not after a loss of power either; a
  refused upload leaves no file; what is in quarantine can be accounted for. Hard: shared
  temporary names, cancellation between staging and promotion, threads that go on after
  the task that waits for them was cancelled.
* **API keys.** A rotated, expired or disabled key stops working, and every request is
  decided by what held at one instant. Hard: `seed_key` is another read followed by a
  write, run by several processes; a record is read before its secret is verified.
* **Parsers.** Every chunk cites the lines its text comes from and stands under the
  headings that enclose it; a failure has a reason; no line is dropped. Hard: starts and
  stacks that must be reset in the right places, what is still being gathered when the
  file ends; a conversion that times out keeps its thread.
* **Chunker.** Every token of a document's body is in some chunk, windows overlap by the
  configured amount, rows keep their table's header. Hard: boundaries of the window
  arithmetic, groups cut in the middle of a table, text the tokenizer refuses.

`PROJECT.json` lists the hazards one by one, at the lines where they bite.

## Modules

| Module | What it is |
|---|---|
| `DurableQueue` | The abstract queue: the set of live jobs, the set of recorded outcomes, the job in the worker's hands. |
| `ManifestQueue` | The real queue, one action per file operation between which the other process can run; its properties; the instance `Durable` with the refinement mapping. |
| `Lifecycle` | The transition table. |
| `Ingestion` | Extends `ManifestQueue` and `Lifecycle` with the requests, the records, the directories and the pipeline; a composed action conjoins the queue's own action with what the caller does. |
| `AtomicFile` | The abstract file: one version at a time, or none. |
| `AtomicWrite` | `_write_atomic` in system calls, by several writers, with kills and losses of power; the instance `File` with the refinement mapping. |
| `AccessControl` | The abstract access control: grants, withdrawals, and decisions taken at one instant. |
| `ApiKeys` | Start-up of the API and of provisioning runs, and `authenticate`, one action per await; the instance `AC` with the refinement mapping. |
| `Gateway` | Extends `ApiKeys` with an upload from its arrival to its answer: scopes, checks, quarantine, source volume. |
| `Chunking` | The chunker over sequences of tokens. |
| `Parsers` | Extends `Chunking` with the parsers' loops over kinds of lines. |
| `Extraction` | Extends `Parsers` with the worker that runs both, file after file, on a bounded thread pool. |
| `MC...` | Instances for TLC. |
| `ManifestQueue_proofs` | Type correctness and the inductive invariant of the queue. |
| `DurableQueue_proofs` | The queue implements `DurableQueue`. |
| `Ingestion_proofs` | The composed system runs the queue as specified, and its own invariants; accepted uploads are queued while requests take turns. |
| `AtomicWrite_proofs` | Writers that take turns implement `AtomicFile`; what concurrent ones cannot do. |
| `ApiKeys_proofs`, `Gateway_proofs` | Keys implement `AccessControl`, in the gateway too; the invariants of an upload. |
| `Chunking_proofs` | No token is lost; windows advance; groups stay within the target and rows keep their header. |
| `Extraction_proofs` | Every file the worker is given is chunked as the chunker promises; chunks lead back to their lines and carry their headings; log records stay whole; every body line reaches a chunk; documents fail only when they have to. |

`Ingestion` starts where `Gateway` ends: `Lookup`, `promote`, `upsert` and `publish` are
single outcomes there (found, raised, moved) and the detailed steps here. `Extraction` is
what `Ingestion` calls `Parse` and `ChunkText`.

### How state and actions correspond to the code

`pending[j]` and `processing[j]` are the manifest of job `j` in that directory, or
`Absent`. Of a manifest's fields the queue reads two: `retry_count` (kept, with the
schema's upper bound as `MaxRetry`, and one value above it, which is what the unvalidated
`model_copy` of `recover_stale` can write) and `updated_at` (kept as `old`: whether
`manifest_stale_seconds` have passed). `completed` and `failed` are sets, since nothing
but the presence of a file there is ever used. `call[c]` is a `publish` in progress: the
directory `_find` is looking at, and where in the function it is. `worker` is the worker's
place in the queue's operations: the names it listed (`todo`), the directory a purge has
reached (`at`) and the job it holds.

`record[d]` is the status in Qdrant, `stored[d]` the files in the document's directory,
`request[c]` the HTTP request whose `publish` is `call[c]`, `pipeline` where `process_one`
is and which status it is about to set. `set_status` is two steps, `get` and `put`, since
other requests and the other process run at the await between them. `rmtree` is a listing,
one unlink at a time, and an `rmdir` that raises when something came in meanwhile.

Python errors are part of the actions: a read of a file that has gone raises out of
`publish` (`ReadRaises`), out of `process_one` (`StampRaises`), out of the worker's start
(`RecoverRaises`); an error inside `_ingest` or `_delete` leads to `_mark_failed` (`Raise`),
whose own error still writes the job to `failed/` (the `finally`) and then ends the
process (`StatusInvalid` with `exiting`, `Exit`).

A write of a manifest or an artifact is one step in these modules. `AtomicWrite` says when
that is right: while writers of one destination take turns (`WritesAreAtomic`), which holds
of the worker's files and of publishers of different jobs, and not of two requests that
publish the same job at once (below). The read of a manifest followed by its
unlink in a purge is one step: the only thing a publisher can do in between is replace the
manifest by one of the same job or remove it, and the purge ends the same way.

`AtomicWrite`: `dir` maps the two names to inodes, `data` an inode to its blocks, each marked
with its writer; `diskDir` and `synced` are what a loss of power leaves. A rename takes the
inode that has the temporary name at that moment, whoever wrote it. A reader opens an inode
and gets what is in it, then or later.

`ApiKeys`: `pc[p]` is where a process is in `initialize`, `seed_key` and, for the API, the
creation of the document collection; `seed[p]` what it was started with, which the
environment may change from start to start. `call[r]` is `authenticate` for one request,
with the record it has read. `Gateway`: `step[r]` is where the handler is, `part[r]` the
blocks in its `.part` file, `source[r]` those it brought into the source volume, `answer[r]`
the code of the answer. A request whose deadline passes while a thread works for it
(`TimesOut` in `move` and `discard`) may still see that thread's effect.

`Parsers`: `doc.lines` is a sequence of kinds, `line`, `buffer`, `from`, `fenced`,
`hierarchy` and `rows` are the locals of the loops. Tokens are pairs of a line and a number,
so that properties can ask which lines a chunk's text is from. A text that `encode` refuses
has a token of `Reserved`: `Encoded` is the text the chunker's next step encodes, `Refused`
says whether that raises, `Raise` ends `chunk` and `ChunkRaises` fails the job.
`CsvFieldTooLong` is the error of `csv.reader`, which ends the parser before it has a row.
`Place` is an item's page, 0 when it has no provenance. `Chunking`: `prose` and `table` are
the buffers of `chunk` and `_append_table`, `todo` the groups handed to
`_append_element_group`, `start` the window's start in the first of them. `Extraction`:
`abandoned` counts the conversions `wait_for` has given up that still run.

### Abstractions to keep in mind

* One worker process, as the queue's docstring requires.
* Qdrant and the disk do not fail by themselves. `Abort` and `Kill` cut an operation at
  any step, which leaves the same state behind as most such failures; the branch that
  follows a failing Qdrant call (`_mark_failed` with the record unchanged) is not modelled
  for faults nobody in the model causes.
* Content that parses or chunks does so every time (`Unparsable`, `Blank`).
* Metadata, file names, versions and warnings carry no control in `Ingestion`.
* A failing call to Qdrant took effect completely or not at all before it raised. The
  payload indexes of the collections are left out.
* A hash is the secret it verifies. Secrets drawn by provisioning runs are nobody else's
  (`ProcessesAssumption`); otherwise re-provisioning could bring back an old secret.
* FastAPI receives the multipart body before the handler runs, so the stream that `stage`
  reads does not stall by itself; the deadline can pass at any await all the same.
* Separators between the elements of a group, what the tokenizer makes of a seam, and white
  space at the end of an element are left out, as is decoding: which bytes make a line, and
  that the first 64 KiB decide the encoding.
* A row of a CSV file has all of its text in its last field; the field limit of the `csv`
  module, 131072 characters, is `MaxFieldTokens`.
* The layout analysis of a PDF is Docling's: its result is any short sequence of items. An
  item has no provenance (`unplaced`), one, or two of which the parser reads the first
  (`spread`). Pages hold one item each.
* `promote` writes to `source` with the suffix of the upload's name, while the document id
  is made from the content alone: the same bytes under another suffix put a second source
  beside the first (document_storage.py:83). `Ingestion` has one source, as if a content
  always came under the same suffix. `rmtree` takes both, and a job names one of them.

## Runs

| Run | Instance | Shows |
|---|---|---|
| `queue` | 1 publisher, ingest job and deletion of one document, deletion's id first, any number of calls and crashes, retry limit 1 | types, `QueueInv`, the refinement `DurableSpec`; under fairness `PendingIsClaimed` and `StaleClaimRecovered`; no deadlock |
| `concurrent` | 1 document, 2 requests at a time, 3 in all, of every kind, any of them cut short, 2 kills, retry limit 1 | what READY, DELETED and an outcome promise; the refinement again, in the composed system |
| `sequential` | 2 documents, one without chunks, 4 requests one at a time, no kill, no cancellation | every accepted document has a job and ends in the status it deserves |
| `extraction` | every file up to 4 lines of text, log or CSV, 5 of Markdown, 3 items of PDF, over the kinds each parser tells apart; files over the line limit; code with more blank lines than a window, whose second window is blank; text the tokenizer refuses, in paragraphs, headings, code, rows and items; CSV fields over the limit; PDF items without a page or with two; two rows of three files that compete for 2 threads | nothing is lost, windows and table groups are in order, chunks cite their lines and their headings, every body line reaches a chunk, failures are deserved; under fairness every file is settled unless every thread is held for ever |
| `gateway` | the API with three environments, one provisioning run of any of three keys (two with dots somewhere), 1 request, bodies of 0 to 2 blocks with a limit of 1, 2 events | the refinement `AccessSpec`; quarantine, refusals and sources; under fairness the API comes up |
| `atomic_write` | 2 writers, payloads of 2 and of 1 block, 3 inodes, any number of calls, kills, losses of power and reads | the refinement `WritesAreAtomic`; what concurrent writers cannot do |
| `second_upload`, `redelivery`, `lost_deletion`, `second_deletion`, `early_restart`, `exhaustion` | the smallest instance of each | where the code does not do what its documents say (below) |

The bounds. Two jobs of one document are all that share any state in the queue: a job of
another document meets them only in the sorted listing, where the deletion's id already
comes first, and in a purge, which the `sequential` run exercises with two documents. The
counters that are bounded in `Ingestion` are requests (`MaxRequests`) and kills
(`MaxKills`); three requests are enough for upload, reindex and deletion to overlap
pairwise and for one more after them, two kills for a redelivery that is itself
interrupted. `MaxRetry` is 100 in the code and 0, 1 or 2 here; a manifest above the bound
is reached in every run with kills. `queue` has no such bound: its state is finite without
one. Callers are interchangeable and are declared symmetric where no liveness is checked.
Runs of `Ingestion` stop when their requests are used up, hence `CHECK_DEADLOCK FALSE`
there; `queue` checks for deadlock.

In `extraction` the sizes are 3, 4 and 1 for target, maximum and overlap and an element has
at most 8 tokens, so that a text takes up to three windows, the context included, a group is
closed by its second or third member, and code can have a whole window of blank lines. A CSV
field has at most 3 tokens, so that a quoted field of four lines is refused. A heading, a
paragraph under it, a second heading and its paragraph are four lines; five leave room for a
skipped level or a fence. Two threads are enough for the pool to be exhausted by what was
given up and for the worker to wait. In `gateway`, `MaxEvents` bounds failing calls, kills
and withdrawals together: a request is decided across at most two writes to its key (two
seedings, or a seeding and a withdrawal, or a failed one and its repetition). One request is
enough there because requests share the records only, which none of them writes; the proofs
are for any number. A file is one block or two, of which the limit permits one. In
`atomic_write` three inodes are enough for a destination, the version the disk still has,
and a new one; the run is without a bound otherwise and checks for deadlock. Inodes are
symmetric: the refinement maps to versions, which do not name them. `extraction` and
`gateway` stop when their files, or requests and events, are used up.

Fairness. Weak fairness of the worker's steps as a whole and of each request's steps:
the event loop of a live process keeps running, and compose restarts the worker whenever
it ends (`restart: unless-stopped`). Nothing makes a client call, a crash happen or time
pass. The liveness of the queue is stated for behaviours in which calls and crashes
eventually stop (`Quiet`) and no manifest has an exhausted retry count, since the worker
cannot get past such a manifest (`exhaustion` below).

`Extraction` assumes weak fairness of the worker, which includes giving up a conversion that
takes too long (`asyncio.wait_for`). Nothing is assumed of the thread it leaves behind: no
code bounds it (docling_pdf.py:45-58), and a pool all of whose threads are held for ever
stops the worker. `Gateway` assumes weak
fairness of the API's start (`WF_vars(SetUpStep(Api))`): its event loop runs and compose
restarts it; calls may fail, but only `MaxEvents` times.

Each property of a passing run has a mutant: a changed definition, beside the one it
changes, under which that run finds the property violated.

### What the properties say

* `DurableSpec`: a job loses its last manifest in `pending/` and `processing/` only after
  its outcome was written for the delivery in hand, or to a deletion of its document.
* `QueueInv` (with `ClaimKeepsManifest` as its first conjunct): what the worker listed
  stays there until it gets to it; a recovered job is in `pending/` before it leaves
  `processing/`; a purge never lists its own deletion.
* `ReadyIsComplete`, `DeletedIsErased`, `DerivedIsTraceable`, `OutcomeIsHonest`: statuses
  and outcomes against the files. They hold even though status updates can be lost: the
  files protect themselves by the order in which the worker does things.
* `JobHasRecord`: the silent return of `set_status` on a missing record is never taken.
* `AcceptedIsQueued`, `AcceptedIsSettled`: what a client is told with `202 Accepted`. These
  need the operating envelope of the `sequential` run: requests for one document do not
  overlap, none is cancelled between `upsert` and `publish`, and the worker is not killed.
  Outside it they fail: see `second_upload`; with a cancellation at that point, or inside
  `publish` after the superseded manifest was removed, no job is ever published; a publish
  that raises on a manifest the worker has just moved leaves none either, when uploads
  overlap; and a deletion that is delivered again after a kill withdraws the job of
  an upload that came after it.

* `WritesAreAtomic`: a reader, a killed writer or a loss of power never finds less than a
  whole version, as long as callers take turns. A version may be lost again with the power
  even after the call has returned, since the directory is never synchronised; the abstract
  file says so (`disk`). `TornOnlyIfMixed`, `FinishedLeavesFile`: with concurrent callers a
  torn file is possible and only then, and whatever a finished call leaves is a file.
* `AccessSpec`: authentication decides as if at one instant, although the secret is verified
  against a record that may be withdrawn meanwhile; a grant changes only together with the
  secret; a withdrawn key does not come back with the secret it had. `ApiComesUp`: the races
  for the two collections end.
* `QuarantineAccounted`, `RefusedLeavesNothing`, `SourcesAreWhole`: what a request may leave
  behind, at every point where it can be refused, time out, or die with its process.
* `NothingLost`, `WindowsAdvance`, `RowsFollowHeader`, `GroupsStayInTarget`: the chunker.
  They are also checked on every intermediate state where they make sense there.
* `ChunksTraceable`, `ContextEncloses`, `LogRecordsStandAlone`: from the chunk back to the
  lines of the file, by a definition that knows only the file. `ChunksTraceable` compares
  the text of a chunk's own window with its location: every line of that text is cited; the
  first chunk of a group cites the first line of its text first; and no line with text is
  cited that is not in the group's elements, unless one was cut. It does not say that a
  later window cites only its own lines, since it cites its whole group (below). Of a CSV
  file a location is a row's number, and stands for the lines of that row. Text of a PDF
  without a provenance of its own (`Unlocated`) is excepted. `LogRecordsStandAlone`: one
  record to a chunk's group, all of its lines up to the next stamp unless it was cut.
* `LinesReachChunks`: the way there. `NothingLost` starts from the elements; this one starts
  from the lines of the file, so that a parser that forgets the last paragraph, record or
  code block is caught.
* `OutcomeIsDeserved` says which files fail, by a definition that knows only the file and the
  rows `csv.reader` found in it: those with nothing to extract, over a limit, with an empty
  row, or with text the tokenizer refuses. Whether such text fails a file depends on what is
  encoded (a heading with nothing below it is not), so that the property says that
  nothing of it is chunked. It also says what may fail a file as an *unexpected* error: such
  text, an empty row, a field over the limit of the `csv` module, and nothing else.
* `EveryDocumentSettles`: conversions that run out of time delay later jobs, and stop them
  for good only when every thread of the pool is held for ever. The code does not rule that
  out, and the second disjunct of the property is that hazard.

### Where code and documents disagree

* `second_upload`: the slower of two concurrent uploads of the same content puts ACCEPTED
  over READY and finds the job of the other one, so publishes none. In the trace that job is
  still in `processing/`, just before the worker releases it; one step later it would be in
  `completed/`. The document stays ACCEPTED.
* `redelivery`: `_ingest` starts with PARSING, which the transition table allows only from
  ACCEPTED (and PARSING); a job delivered a second time fails a sound document.
* `lost_deletion`: `set_status` can overwrite a DELETING put after its read. The document
  becomes READY, the deletion then removes its files, cannot set DELETED, cannot set
  FAILED either, and ends the worker process.
* `second_deletion`: the deletion's job id depends on the document alone and `delete` does
  not pass `replace_completed`: the publish of a second deletion, after a
  re-upload, returns at the manifest the first one left in `completed/`, which is the last
  step of the trace. The document stays DELETING, and is never deleted.
* `early_restart`: recovery looks once, at start, and skips what is younger than
  `manifest_stale_seconds`; compose restarts a dead worker at once.
* `exhaustion`: no job ever leaves for `failed/` on account of its retries; one that
  exceeds the schema's limit cannot be read any more, by `claim_next` or at start.

Observations that no run is spent on, each visible in the modules at the lines quoted:

* Two requests that publish the same job share `<job>.json.tmp`: one can truncate or patch
  the inode the other has just renamed to `pending/` (`TornOnlyIfMixed` has `mixed` for
  that). `claim_next` raises on such a file and the worker ends.
* A request that times out after its upload was staged leaves the file in quarantine, and so
  does a killed process. Nothing removes them, though docs/ARCHITECTURE.md:98 says "remove
  quarantine data according to retention policy."
* Where a Markdown document or a PDF skips a heading level, the stack is cut at the wrong
  height (text.py:203): after `# A` and `### B`, a `### D` stands below B, and so does a
  `## C` after a first `### B`.
* Text that spells a special token of the tokenizer, such as `<|endoftext|>`, in a document
  fails it with `unexpected_processing_error`: `encode` is called with its default, which
  refuses it (structure_aware.py:112, 183).
* A blank line in a CSV file, or a row that is just `""`, fails the document with
  `unexpected_processing_error` (text.py:273-276), and so does a field of more than 131072
  characters, which an unclosed quote soon makes (text.py:259), while a row of the wrong
  width is only warned of. After a quoted field
  with a line break the line numbers of chunks are those of rows (text.py:280), against
  "Every chunk can be traced back to a tenant, document checksum, page or line range"
  (docs/IMPLEMENTATION_PLAN.md:233).
* Every window of a group cites the whole group (structure_aware.py:123, 159-180): the
  second window of a long paragraph cites lines that are not in its text, though
  docs/ARCHITECTURE.md:255 says "exact source spans remain available for citations." An item
  of a PDF without provenance has no page at all, and one that goes on on another page cites
  only the first (docling_pdf.py:209-212).
* A heading with nothing below it is in no chunk. Text of an element beyond
  `max_element_characters` is cut without a warning (text.py:70). A group of table rows
  longer than a window has its header in the first window only.
* A key id with a dot cannot be used, nor can a bootstrap secret with a dot be presented
  alone: a token is cut at its first dot (qdrant_api_keys.py:109-115). Seeding a key with
  the secret it has and other scopes changes nothing (qdrant_api_keys.py:52-57).
* A provisioning run whose upsert raises after it took effect has rotated the key and never
  prints the new token.

## Proofs

`ManifestQueue_proofs`, for any sets of jobs, deletions and callers and any retry bound,
from `QueueAssumption` (ids are positive numbers, deletions are jobs) and
`AbsentAssumption` (no file is not a manifest):

* `QueueTypeCorrect`, `QueueInvCorrect`, `ClaimIsKept`. The invariant that is inductive is
  `QueueTypeOK /\ QueueInv`. `ClaimKeepsManifest` alone is not: a purge in progress could
  have the deletion's own name left in its listing, so `QueueInv` says that it does not,
  and that purges run for deletions only. Likewise a recovery is safe because the names it
  has yet to visit are still in `processing/` and the one it has just written is in
  `pending/`. The argument for publishers is one lemma, `CallLeavesClaims`: they never
  touch `processing/` and only add to `pending/`. The worker's part goes action by action.

`DurableQueue_proofs`: `QueueIsDurable`, the refinement `QueueSpec => DurableSpec`. The
mapping takes a job to be live when it has a manifest in `pending/` or `processing/`, and
held from the rename of the claim to the unlink after the outcome. Publishing maps to
`Enqueue` and `Forget`, the rename to `Deliver`, the outcome to `Settle`, the last unlink
to `Finish`, a purged file to `Withdraw`, a crash to `Lapse`; everything else, the two
steps of a recovery included, to a stutter, for which `QueueInv` is needed.

`Ingestion_proofs`, for any documents, callers, kinds of request and bounds, from
`IngestionAssumption` besides the two above:

* `IngestionRunsQueue`: seen through the queue's variables every step is a step of
  `ManifestQueue` or a stutter. `IngestionIsDurable` and `IngestionKeepsClaim` follow from
  what is proved of the queue, whose invariant all of the rest builds on.
* `IngestionTypeCorrect`, with `PipelineAgrees`: where `process_one` is determines where the
  worker is in the queue's operations.
* `DeletedStaysErased`, `ReadyMeansComplete`, `OutcomesAreHonest`, from one inductive
  invariant of files and statuses, `FilesInv`. None of the three is inductive, since the
  record says little (anyone may have overwritten it): the invariant speaks of what the
  pipeline is about to write. `Progress`: the files an ingest's next status stands for are
  on disk. `Remaining` and `Erased`: `rmtree` still has every derived file on its list, and
  after it none is left. `TargetFits`: an ingest sets no status of a deletion and a deletion
  none of an ingest. `ActingLive`: an ingest that writes files is not over a record that
  says DELETED (its own status went there first, and only the worker writes DELETED).
  `OutcomeFits`: only a request can have changed the last status. One lemma per group of
  actions shows that they keep it; requests only add sources (`RequestFiles`).
* `JobsHaveRecords`, from `JobsKnown`: jobs in the queue, in a publish call and in a
  request that is about to publish all have a record, and no step takes a record away.
* `DerivedStaysTraceable`: a step that breaks the chain of files is `rmtree`'s, with the
  deletion in the queue, and when that leaves, nothing derived is left (`Erased`).
* `UploadsAreQueued`: `AcceptedIsQueued` for any documents and any number of requests, under
  `Sequential`: one caller, whose requests run to their end, no reindexing, and a worker that
  is not killed. TLC finds it violated as soon as any one of the four is dropped. The
  invariant is `OneAtATime`: what a publish call did not find is not there (`CallsFound`); a
  document that is new, deleted or accepted has no deletion to come (`DeletionsAreDue`), and
  one that is new or deleted no ingest job anywhere (`UnknownIsNowhere`); a purge leaves none
  in the directories it has been through (`PurgeClears`); and the worker takes a document out
  of accepted before it does anything else with it (`IngestBegins`).

`Chunking_proofs`, for every sequence of elements (`ChunkInit` takes any, more than the
parsers produce) and all sizes that `ValidChunking` allows, on `ChunkSpec`, whose steps are
the chunker's part of `Extraction`:

* `ChunkingTypeCorrect`; `NothingIsLost`. `NothingLost` speaks of the end only; what is
  inductive is `Kept`: the tokens of every element the loop has passed are in a chunk, or in
  a group being filled, or in a group handed over beyond its next window (`Held`). The
  windows keep it because a step is never longer than a window, which is where the settings'
  rules are needed (`Sizes`).
* `GroupsFit`, from `AllFit`: the limit holds of groups from the moment they are filled.
* `WindowsDoAdvance`, from `Seam`: between windows, the loop's `start` says where the next
  one begins, relative to the last chunk if that was of the same group. To know that a group
  is not handed over twice, `Ordered` says that the last members of the groups in `todo`
  and in the chunks follow the order of the document.
* `HeadersAreFirst`, from `Runs`: a group that begins with a row begins with the first of its
  run and takes in the others in order, and no table is given up in the middle of a run.

`Extraction_proofs`, for any batch of files of any length, from `ChunkingAssumption`,
`ParsersAssumption` and `ExtractionAssumption` (which says of `Reserved`
that it is the tokens of special text). The assumptions on limits are weaker than
what the settings enforce (config.py:70-73), but for one: `MaxColumns > 1`, because an
ordinary row of the model has two fields, leaves out a limit of one column. The kinds of lines
are those the parsers tell apart.

* `ExtractionTypeCorrect`, from `Control` (where the worker is determines what it holds, and
  that given-up conversions never outnumber the threads) and `Reading` (what the loops over
  lines have read so far: the lines of `buffer` are behind `line`, a fence is open only with
  its opening line in `buffer`).
* `DocumentsAreChunked`: `NothingLost`, `WindowsAdvance`, `RowsFollowHeader` and
  `GroupsStayInTarget` of every file. The theorems of `Chunking_proofs` do not apply as they
  are, since `elements` changes here while a file is parsed. What carries over is that each
  of the chunker's steps keeps `Chunker`, the conjunction of its invariants
  (`ChunkerSteps`), and that each parser hands over what `ChunkInit` asks (`ChunkerStarts`).
* `ChunksAreTraceable`, `LogRecordsAreWhole`. A chunk has lost track of how its elements
  came about, so that the invariant has to carry it from the lines on: `Good` says of an
  element that it begins with a token of its first line, that its tokens are of the lines it
  cites, that it has all of those that are not blank unless it was cut (`Traced`), that a
  log record goes from its stamp to the next (`OfRecord`), and that there are headings only
  in its path. An element of a PDF may have no page, or text that is on none it cites
  (`Unlocated`); `Lists` that elements follow each other in the order of the file;
  `RowsReading` does for the rows of `csv.reader` what `Reading` does for lines; and
  `AllSourced` says of groups and chunks that their tokens are those of their members and of
  the first one's path, that no member is from before the first, and that a log record has a
  group to itself. Where a group has text with a location, some token of it leads to the
  merged location's start (`Leads`). The steps over lines are one lemma per parser
  (`PlainTextReads` to `CsvReads`), those over elements `StepSources`. What a concatenation
  of lines contains is the lemma `Flattened`, by counting up to its length.
* `OutcomesAreDeserved`, from `Deserving` on top of all that. `OutcomeIsDeserved` looks at
  the whole file, `Deserving` at what the loop has passed: a body line behind `line` is in
  `buffer` or held by an element, in full unless that was cut (`LinesDeserve`, `RowsHeld`),
  so that an empty list of elements means that there was none; fences and quotes are counted
  up to `line` (`OddBefore`), which is what `fenced` and an open `buffer` stand for; every
  line outside quotes starts a row, the rows so far have fields within the limit, and those
  that are elements by now are neither empty nor too wide (`RowsThen`). That a document with
  body gets a chunk is `NothingLost`, put to use (`BodyIsChunked`). What the tokenizer
  refuses is in no chunk, because every group has been encoded before it is cut up.
* `BodyReachesChunks` (`LinesReachChunks`), from the same invariant and `NothingLost`: a
  line an element holds in full has its tokens in the chunks.
* `ContextsEnclose`, from `InContext`. `ContextEncloses` compares a chunk's context with all
  the headings before a line of its text; the parsers keep a stack. `Stacked` says what the
  stack is at a line: the headings around it, in order, if no level is skipped, and
  otherwise the innermost one on top. A heading keeps that (`StackDescends`), any other line
  leaves the headings around the next as they are. `Placed` says that an element's path is
  the stack of each of its lines (`Span`: those it cites, or in a PDF, whose citations may
  be missing, those of its text), and `PlacedThen` adds the stack the loop holds and the
  lines it is gathering, among which is no heading. That a heading's line in a fence is
  code, and no other is, comes from `Deserving`. `AllAgree` says that the members of a group
  have one path, because a heading hands over the group being filled: so asking the first
  member is enough.

`ApiKeys_proofs`, for any keys, secrets, seedings, processes and requests, from
`KeysAssumption`, `ProcessesAssumption` and `RecordAssumption`:

* `KeyTypeCorrect`; `KeysAreAccessControl`, the refinement `KeySpec => AccessSpec`. The
  mapping takes a request to be decided when its record has been read: the verification
  that follows can only find what the record says (`Verdict`). A seeding that is about to
  put its record maps to `Rotate`, which asks that the key has another secret: the inductive
  invariant says so (`SeedsOK`), as nobody else has this process's secret; `CallsOK` ties a
  request under way to the record it read. `SplitWhole` is the lemma about tokens: cutting
  at the first dot is the inverse of joining for exactly the tokens of `TokensFor`.

`Gateway_proofs`, from the same and `UploadsAssumption`:

* `GatewayIsAccessControl`: each step is a step of `ApiKeys` or leaves its variables alone.
* `GatewayTypeCorrect`, `QuarantineIsAccounted`, `RefusedLeaveNothing`, `SourcesStayWhole`,
  from one invariant per request, `RequestOK`, that says for each step of the handler what
  the file, the source and the grant are; requests do not touch each other's files.

`AtomicWrite_proofs`, for any writers, payloads and inodes, from `WritersAssumption`:

* `AtomicTypeCorrect`; `OnlyMixedTears`, `FinishedLeaveFile`, `AloneIsAtomic`. The invariant
  is `Quiet`, for behaviours in which no two writers have been at work at once: at most one
  writer is at work, its inode is nobody else's, and the inodes that names, the disk and the
  reader rely on (`Relied`) hold whole versions that are synchronised. A loss of power can
  therefore only hurt an inode nobody relies on. `Outcomes` is about finished writers, in
  every behaviour.

Only model-checked: the liveness properties (`PendingIsClaimed`, `StaleClaimRecovered`,
`AcceptedIsSettled`, `ApiComesUp`, `EveryDocumentSettles`), since liveness under fairness is
outside the prover's reach. What a run finds violated is a behaviour, for TLC alone. Every
other property of a passing run is proved, and the listed theorem names it.

## Plan

1. *Done.* Queue, abstract queue, lifecycle and the composed control plane; proofs of
   their safety properties.
2. *Done.* `_write_atomic` in system calls and the abstract file; `stage`, `promote`,
   `discard` and the quarantine under cancellation; API keys and the abstract access control;
   parsers and chunker on a bounded pool; proofs of their safety properties except as above.
3. *Done.* Proofs of the chunker's remaining invariants, of what the parsers hand it
   (outcomes, locations, log records, headings), and of `AcceptedIsQueued` under its
   envelope.
4. Faults of Qdrant in the pipeline (`_mark_failed` with the record unreachable).

## Not modelled

* Docling's conversion (an external step that succeeds, raises or takes too long), the
  tokenizer, and the hashing of secrets.
* What makes a name, a content type or a body acceptable (`policies/uploads.py`), the
  hashing of ids, encoding detection and the production checks of the configuration: pure
  functions of one input, for unit tests. When they run and what is left behind when they
  refuse is modelled.
* Rendering, request ids, logging and health probes: stateless.
* `get` and `list` of documents, which only read; warnings, versions and payload indexes of
  the control records.
* The contracts of later phases (`protocols.py`, `models/query.py`): no code behind them.
* Scripts outside the running system, except `provision_api_key.py`.
