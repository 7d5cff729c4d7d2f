# TLA+ models of papermake

papermake renders Typst templates to PDF. Templates, renders, batch jobs and
analytics are objects in one S3 bucket; the HTTP server and any number of worker
processes share nothing else. There is no database, no lock and no
compare-and-set, so what makes the system correct is the order in which each
process reads and writes objects, and what each process keeps in memory between
two of those calls. That is what this directory models.

Paths below are relative to `src/`; `registry/` stands for
`crates/papermake-registry/src/`.

## The system

| Component | State | Operations | Interacts with |
|---|---|---|---|
| Batch queue (`registry/registry/batch.rs`, worker loop in `crates/papermake-worker/src/main.rs`) | `jobs/{id}/job.json`; per shard `inputs.json`, `shard.json`, `results.json`; markers under `jobs/pending/` | enqueue, claim, run, heartbeat, release, finish, give up | render store (one PDF and meta.json per item), template store, retention |
| Job view (`registry/batch.rs`, `list_job_items`) | none, derived from descriptors and results | status, counts, pages of items | batch queue |
| Template store (`registry/registry/publish.rs`, `templates.rs`) | manifests, file blobs, tags; per process a reference cache and a manifest cache | publish, resolve, load, delete version, garbage collection | renders and batches resolve through it |
| Render records (`registry/registry/history.rs`, `render_storage/s3_buffered.rs`) | `renders/{id}/{data,pdf,meta.json}`; an in-memory buffer of records per process | render and store, flush (raw analytics, expiry index), re-stage, cap | retention, aggregation |
| Retention (`render_storage/retention.rs`) | consumes `expiry/`, `renders/`, `analytics/raw/`, `jobs/` | prune renders, raw files, jobs | races with renders and batches |
| Aggregation (`render_storage/aggregator.rs`, `summary.rs`) | `summary.json` | scan raw records, deduplicate, compute | reads what flush wrote and prune left |
| Render pool (`registry/registry/render.rs`) | semaphore permits, count of leaked threads | render with timeout, cached render | every render |
| S3 storage (`storage/s3_storage.rs`) | the bucket | put, get, exists, list, delete, each with deadline and retries; creation of the bucket | everything |
| References and keys (`reference.rs`, `address.rs`, `render_storage/layout.rs`) | none | parse and print references, build and parse object keys | everything |
| Bundles and manifests (`bundle.rs`, `manifest.rs`, `routes/templates.rs`) | none | form to bundle to manifest, validation on the way in and out | template store |
| Typesetting (`crates/papermake/src`, `registry/registry/render.rs`) | the warm world of a batch | hydrate, build or update a world, compile, PDF options, render id | render pool, batch queue |
| HTTP API (`crates/papermake-server/src`) | none | handlers, errors to statuses, pages | everything |

What is hard here, component by component:

* **Batch queue.** Two workers interleave between any two S3 calls. A lease may
  lapse while its owner is merely slow. A call that reports an error may have
  taken effect. Workers are killed, or told to stop in the middle of a shard.
  The descriptor is read, kept in memory for a whole run, and written back.
  Correct means: attempts are bounded, a worker only ever sees complete shards,
  Done means full results, success means there is a PDF, counts are right, the
  final status is final, and every job ends.
* **Template store.** Publishing is several writes; garbage collection lists
  first and deletes later; caches outlive what they cache. Correct means: what a
  tag resolves to can be loaded, and collection takes nothing that is in use.
* **Render records and retention.** The expiry entry of a render exists only in
  memory until a flush; prune decides on one read and deletes on it later, when the
  output may have been rendered anew.
  Flushes start in three places (a full buffer, a timer, the shutdown) and overlap.
  Correct means: an expiring render is pruned eventually and a live one never
  (which the code does not keep against a render that meets the prune), and what was
  counted stays counted.
* **Render pool.** A timed-out render cannot be cancelled, and a caller may be
  dropped at any await. Correct means: permits and the leaked count come back, the
  limits hold meanwhile, and every call returns.
* **S3 calls.** An attempt given up on may still be applied, after its retry or
  after somebody else's write. Correct means: what was acknowledged is there, an
  error is only reported when the attempts are used up, and every call returns.
* **Pure functions.** Splitting references, warm worlds, deduplication, percentiles
  and pages are sequential, but their edges (empty, last, repeated, out of range)
  are where tests are thin. Correct means: equal to a definition said in other
  words.

`PROJECT.json` lists every component, with the ones left out and why, and every
hazard at its line.

## Modules

| Module | Role |
|---|---|
| `BatchJob` | One job: the enqueueing server, the workers, the clock and the failures. All state, all actions, type invariant and the invariants that hold whatever fails |
| `JobView` | What clients see (`JobView::aggregate`, `list_job_items`), and the properties stated in those terms |
| `ShardLifecycle` | Abstract specification: what the queue promises of each shard |
| `TemplateStore` | Tags, manifests, blobs and the caches of each process, under concurrent publishes, deletes with their collection, loads and listings |
| `RenderStore` | Single renders, the record buffer and its flushes, shutdown, and the maintenance worker that aggregates and prunes |
| `RenderPool` | Render slots, timeouts, leaked compiles, callers that go away |
| `S3Calls` | Inside one storage call: attempts, deadlines, retries, late effects; and the creation of the bucket |
| `References`, `Typesetting`, `Bundles`, `Percentiles`, `Summaries`, `Api` | Pure functions, each with what it promises |
| `Inquiry` | How pure functions are checked: an initial state holds a question, one step answers it |
| `MCBatchJob`, `MCTemplates`, `MCRenders`, `MCParts` | Values for TLC; `MCParts` puts the parts that share no state side by side |
| `BatchJobProofs`, `JobViewProofs`, `TemplateStoreProofs`, `RenderStoreProofs`, `RenderPoolProofs`, `S3CallsProofs`, `PartsProofs` | Proofs about the module of that name; `PartsProofs` is about `Bundles`, `Typesetting`, `References`, `Percentiles`, `Summaries` and `Api` |
| `LeastNumber` | A nonempty set of naturals has a least element, and induction over a set of naturals, for the proofs that need it |

How they fit. The stateful modules are projections of one system along lines where
the code shares no state: a job's objects, the registry's objects, the render
objects with the server's buffer, a process's slots. `BatchJob`, `TemplateStore`
and `RenderStore` see a storage call as one step with an outcome (`ok`, `lost`,
`applied`), and `S3Calls` is what is inside that step: `applied` is an attempt whose
answer was lost, `ErrorIsEarned` is why an error is rare, and `AckedWriteHolds` is
what the others rely on when they take an `ok` for done. They do not have the one
case that `AckedWriteHolds` excepts, an attempt that arrives after its call has
returned.

### BatchJob and the code

State. `inputs`, `job`, `shard`, `results` and `marker` are the objects of the
job; `pdf` and `meta` those of the renders, by content address. A render id is a
member of `RenderIds`; `RenderIdOf` maps each item to one, so equal inputs may
share an id. `enq` is how far `enqueue_batch_job` has come. The rest is what each
worker knows: `pc` (which call it makes next), `todo` (the listed markers left),
`cur` and `local` (the shard and its in-memory descriptor), `items`, `done` and
`failed` (the locals of `run_claimed_shard`), `stop` (the shutdown flag).

Actions. One action per S3 call that others can observe, with the code up to the
next call as part of it:

| Code | Actions |
|---|---|
| `enqueue_batch_job` | `PutInputs`, `PutNewShard`, `PutJob`, `PutMarker` |
| `claim_next_shard` | `ListMarkers`; per marker `SkipLeased`, `FindStale`, `FindPoisoned` then `PoisonPut`, or `FindClaimable` then `ClaimPut` and `ReadBack`; `DropMarker`; `ScanEnds` |
| loading and `prepare_batch` | `Load`, `LoadFails`, `PrepareFails` |
| one item of `run_claimed_shard` | `Probe` (resume), `RenderOk` or `RenderFails`, `PutMeta` |
| `heartbeat_shard` | `NoHeartbeat`, or `Heartbeat` (the read) then `Renew` (the write), or `Abandon` |
| the end of a run | `PutResults`, `FinishPut`, `ClearMarker`; `StopMidShard` then `ReleasePut` on shutdown |
| environment | `LeaseLapses`, `Crash`, `SignalStop`, `Restart` |

Failing calls. `S3Storage::with_retry` gives up after some attempts without
knowing whether the last one took effect. Every call therefore has an outcome:
`ok`, `lost` (error, no effect) or `applied` (error, took effect). `MaxFaults`
bounds how many calls fail. What the code then does is in the action: ends the
enqueue, ends the run, ignores it, or fails open.

Abstractions, and why they lose nothing the properties see:

* A lease instant becomes whether the clock has passed it. `LeaseLapses` may
  happen at any moment after the lease is written. `claim_next_shard` is handed
  `now` once, before it lists the markers; an old `now` can only make a lapsed
  lease look live, which is the same as lapsing later.
* The per-worker hash order of the markers becomes any order.
* `job.json`, `inputs.json` and the template are only read by workers, so their
  loading is one step. `data.json` is never read back by the batch; its failing
  put is the `lost` outcome of `RenderOk`.
* A failing or empty listing changes nothing: it is a stuttering step.
* A crash of the server during an enqueue leaves what a lost call leaves.
* A worker that ends with a storage error leaves what a crash at that call
  leaves, which is why `BatchFaults` needs no crashes of its own.
* The analytics flush after each shard is not part of this model, but its error
  is: it turns a stored success into a failed item (`PutMeta`, outcome
  `applied`).
* A replaced worker has the same id as the one before (`PAPERMAKE_WORKER_ID` or a
  stable host name). A fresh id would be one more element of `Workers`.
* `JobView` is computed from one state; `list_job_shards` reads descriptors one by
  one, so a real client may see a mixture of states.

### TemplateStore and the code

State: `refs`, `manifests` and `blobs` are the objects of the registry; `refCache`
and `objects` are `ref_cache` and `blob_cache` of each process. A call in flight is a
record in `call`, whose `plan` is the sequence of the steps it has yet to take and
whose other fields are its locals (listed tags, surviving manifests, blobs to keep).
Each step is one storage call or one cache access.

| Code | Steps |
|---|---|
| `publish` | `PutFile` (main.typ, then the rest in any order), `PutManifest`, `PutRef`, `CacheRef` |
| `delete_version` | `FindRef`, `DropRef`, `ForgetRef` |
| `gc_orphaned` | `ListRefs`, `ReadRef` for each, `RefsRead`, `ReadOrphan`, `ReadLive` for each, `LiveRead`, `DropBlobs`, `DropManifest` |
| `resolve` | `Resolve` (cache or storage), `FillRefCache` with the check of a pinned hash |
| `load_template`, `hydrate_file_system` | `LoadManifest`, `LoadEntrypoint`, `HydrateFile` for each |
| `list_templates`, `get_template_info` | `Scan`, then for each name `ReadPreferred` and `Describe`; `Described` |
| environment | `Start` (a request reaches a process), `Expire` (an entry of the reference cache ages out) |

Manifests and blobs are content addressed, so which files a manifest has is a
constant. `blob_cache` never holds anything wrong and its eviction only repeats a
read, so it only grows. The documented exception of `delete_version`, a publish that
overlaps it, is the history variable `raced`; `blind` records that a collection
skipped what it could not read. `settled` follows whole calls: a publish or a delete
claims its tag when it starts, unless another write of the tag or a resolve of it at
the same process is in flight; the claim is lost to any such call that starts before
the write of the cache, and that write turns what is left of it into the process whose
cache is asked about. What the caches hold has no part in it.

### RenderStore and the code

State: `data`, `pdf`, `meta` are `renders/{id}/`; `raw`, `index`, `summary` are the
analytics objects; `buffer` is the buffer of `S3BufferedRenderStorage`, and `flight`
is what each flush has taken from it and not yet written, which exists only on the
stack of that flush. `request` is where each request of `render_and_store_with` is,
`worker` where the maintenance cycle is, `day` the date.

| Code | Actions |
|---|---|
| `render_and_store_with` | `Ask`, `PutData`, `Render`, `PutPdf`, `PutMeta`, `Stage` |
| `flush`, `write_drained` | `Drain` or `NothingToFlush`, `PutRaw` per date, `PutIndex` per expiry date; a failing put re-stages under the cap (`Restage`) |
| `main.rs` of the server | `Flush(Loop)` (timer), `SignalStop`, `Flush(Main)`, `Exit`, `Restart` |
| `aggregator::run` | `Aggregate`, `PutSummary` |
| `prune` | `ListExpiry`, `ReadExpiry`, `CheckMeta`, `DropArtifacts`, `DropIndex`, `ListRaw`, `DropRaw` |
| environment | `Crash`, `WorkerCrash`, `Cancel` (hyper drops the future of a request whose client left), `Midnight` |

Records of one id carry the expiry the request gave them; a date is a number, and 0
says never. Two history variables name the ways a record may be lost: `lost` (a
crash, the cap, a dropped request, a put of meta.json that was applied and reported
as failed), `cut` (an orderly shutdown). `clash` follows one pass of prune:
`open` are the ids that a request was storing when prune looked at their meta.json, or
came to store before the delete; `hit` are those of which the delete then took
something.

### RenderPool, S3Calls and the code

`RenderPool`: `phase` and `queue` are the callers of `render_typst_blocking` or its
cached twin, `permits` the semaphore, `task` the blocking threads, `owner` who holds
each `JoinHandle`, `leaked` the counter. `Spawn` grants a permit to the head of the
queue; `Release` drops it at the end of the closure, before the thread is over
(`Complete`) and before anybody has noticed (`Join`, `Watch`). `Timeout` hands the
handle to a watcher; `Drop` loses it.

`S3Calls`: one object, `late` the values of attempts that were abandoned and may still
reach it. `Transient`, `Terminal` and `TimedOut` are the three ways an attempt fails;
`LookForBucket` and `Create` are `ensure_bucket`, wrapped in the rounds of
`wait_for_bucket`. `BucketTrouble` is an error that is worth another attempt;
`BucketRefused` is one that is not, or a bucket that is said to exist and is not seen,
and ends the round at once.

### The pure functions

`References` takes texts as sequences of tokens (a letter class, a separator, a
hash), `Typesetting` a world as what it shows Typst, `Bundles` a form as its fields,
`Summaries` a log as a sequence of records, `Api` a handler as the sequence of its
steps and a list as its entries. Each has the code's definition and, in its
properties, another: a grammar of references, rendering alone, the form itself, the
log without repetition, whose fault an error is, the whole list. What a client does
with a page is modelled too, as external code: the pages of templates and of renders
say whether there is more, the items of a job are a bare list, and the client takes
the total from the job (`ItemsSeen`). `Summaries` extends
`Percentiles`, the part of it that is about numbers only. Sorting is everywhere a
function from places to values (`Sorted`, `Ascending`, `Ranked`): in the n-th place is
the value that so many are below. A sum is a number of cells (`Total`): a table has,
for each entry, as many cells as the entry's value. Both say what the code's sorts and
sums return and not how, and can be proved about where a recursion or a fold cannot.

## Runs

| Run | Instance | Question |
|---|---|---|
| `BatchFaults.cfg` | 2 workers, 1 shard of 2 items, 2 attempts, any one storage call fails, template may fail to load | Do bounded attempts, complete publication, full results, PDFs behind successes and counts survive any race and any failing call? |
| `BatchRecovery.cfg` | 1 worker, 3 items in 2 shards, 2 attempts, one crash, one shutdown, template may fail to load | Does a single worker that dies and is stopped lose or double nothing, keep final states final, and implement `ShardLifecycle`, its liveness included? |
| `BatchRaces.cfg` | 2 workers, 1 shard of 2 items, 3 attempts, nothing fails | Do workers that take shards from each other ever orphan one, and does the job always end? |
| `BatchBlip.cfg` (violation) | 1 worker, 1 failing call | A failing read takes the marker of a live shard |
| `BatchCompleted.cfg` (violation) | 1 worker, 1 crash, guard of 1 attempt, 2 shards | `completed` without all items |
| `BatchDoubleClaim.cfg` (violation) | 2 workers, nothing fails | A reported success whose PDF is refused |
| `Templates.cfg` | 2 requests of any kind at 2 processes, 2 tags of a name, 2 manifests that share a file, any one read or write fails | Does what a tag points to stay complete, is no manifest left behind, and do loads and listings miss only what is gone? |
| `TemplateGC.cfg` (violation) | deletes, one failing read | The collection deletes files of a template that is still tagged |
| `Renders.cfg` | 2 requests for one output, retention of a day or forever, 2 days, buffer flushed at 2 and capped at 1, any one mishap | Is an output served until it is due, taken early by nothing but a prune that meets a render of it, indexed while it expires, and pruned in the end? |
| `RendersStop.cfg` (violation) | 1 request, a signal | A record lost by an orderly shutdown |
| `RendersHistory.cfg` (violation) | 1 request, nothing fails | A render that leaves the summary with its raw file |
| `Parts.cfg` | pool: 2 callers, 2 slots, 3 compiles; S3: 2 processes, 2 attempts, 2 calls; every question up to the bounds in the file | Do slots add up and heal, do calls return and acknowledged writes hold, and do the pure functions do what they promise? |

Three more configurations are kept beside the runs, each for a counterexample that it
finds (What the violations show):

| Configuration | Instance | Counterexample |
|---|---|---|
| `TemplateStale.cfg` | 2 publishes of a tag at 1 process, nothing fails | To `RepublishIsSeen`: the process goes on to serve the older of two publishes that it has both acknowledged |
| `RendersClash.cfg` | 2 renders of one output, nothing fails | To `OnlyDueArePruned`: a render is deleted with the expired one that it replaces |
| `TemplateLeak.cfg` | 3 deletes, nothing fails | To `BlobsAreCollected`: a file that no manifest has is left behind |

### Bounds

Batch runs. Two workers give every race of a pair over one shard; the code treats
workers and shards independently of each other, and a third worker can only
repeat what the second does to the first. Two items make a shard with a first
item, a last item and a heartbeat between them; three items in shards of two make
a short last shard. Two attempts are the smallest number with a resume and with a
poisoned shard; three let a lost shard be lost again. One failure at each possible
place covers every call of every action; the proofs hold for any number of
failures. `WorkerSymmetry` is used for invariants only, never with liveness.

Templates. Two calls give every pair of kinds on the same or different tags of one
name; two manifests that share a file and have a file of their own make every answer
of a collection possible (kept manifest, kept blob, deleted blob). The initial states
are all registries over these tags, with cold or warm caches. Requests and processes
are interchangeable (`SYMMETRY`, invariants and an action property only). A call that
gets to read twice is what most of the state space is.

Renders. One id is enough for a render to meet its own renewal, its own flush and its
own prune; different ids share nothing but the buffer, where two records of one id
already overflow the cap. Two days are a render and its expiry. `RawDays` is 0, so a
raw file is old the next day. One mishap of any kind, at any moment.

Parts. Three compiles are one more than the slots: a leaked one, a running one and one
that waits. Two calls on an object are a write that was acknowledged and one that
overlaps it or its leftovers. References of up to four tokens have each separator once
and one twice; logs, lists and pages reach past their limits (`MaxList` against
`PageCap` and `U32Max`). Limits begin at 0 and walks begin anywhere up to `U32Max`, at
the end of the list and beyond it too.

Deadlock is not checked. In the batch runs, once no marker is left, the bucket is at
rest and workers poll without effect, which the model shows as a state without a step.
In the others the bounds on calls, days and renders run out, and a question is
answered once.

### Fairness

Batch (`Fairness`). The enqueueing request runs to its end, every worker keeps
stepping (its loop has no way to wait for another worker), a worker that stopped
is started again by its supervisor, and time passes, so a live lease lapses unless
it is renewed. Nothing obliges a crash, a signal or a failing call to happen, and
their numbers are bounded, so liveness is about what follows the last failure.
A successful render is not forced either: the choice between `RenderOk` and
`RenderFails` is free.

Renders (`FairSpec`). A request that was polled runs on; the flush loop and the
maintenance loop wake up by their timers; a server that is told to stop exits and is
restarted; days pass. No mishap is obliged to happen.

Pool (`PoolFairness`). Timers fire and tokio runs a finished task or a watcher.
Nothing is assumed of `Release`: a template may loop forever. So `RenderCallEnds` holds
whatever the templates do, and `PoolHeals` says what is promised if they end.

S3 (`S3Fairness`). An attempt is answered or its deadline passes: `tokio::time::timeout`
is around each.

### What the violations show

Batch. Each is a step away from a passing run. With one
failing read `OutstandingHasMarker` fails, so it is checked in `BatchRecovery`
without failing calls; and two live workers may delete a marker under a shard that
one of them has taken back, so for races the weaker `OutstandingAttended` is
stated: a shard without a marker is in a worker's hands. `SuccessIsServable` holds
with one worker and inputs of distinct content. It fails with two workers; and with
one, if two items have the same input and hence the same render id, since the failure
of the later overwrites the meta.json of the earlier (`put_render_meta`,
`registry/registry/batch.rs:734`).

Templates. `CollectionSparesTagged`, checked in the passing run, is
`CollectionSparesReferenced` with the excuse that the collection could not read
something; the code has no such excuse.

`registry/registry/mod.rs:27` and the architecture guide promise that a republish on a
process updates the entry of its cache at once. That is true of a write that has the
tag to itself (`OwnWriteIsSeen`), and there are two ways out of it, which
`RepublishIsSeen` does not excuse. Two publishes of a tag put their references in one
order and update the cache in the other (`TemplateStale.cfg`); and a resolve that read the
tag before a publish may cache it after. Either way the process serves an older
version than the tag's until the entry expires. What another process serves meanwhile
is bounded by the same expiry only, and no property speaks of it.

`TemplateLeak.cfg`, which takes half a minute, asks for `BlobsAreCollected`, the promise of
`gc_orphaned` said of files, in three concurrent deletes where nothing fails. Two
manifests share a file. Each of two deletes spares it for the other one's manifest,
which is still in the listing the delete has made; a third delete, of a second tag of
one of them, finds that manifest gone when it comes to read it (`read orphan`,
`registry/registry/publish.rs:171-176`) and so has no files to enumerate. The file
stays without an owner until somebody publishes and deletes a template that has it.
With two deletes it does not happen, and manifests are never left behind
(`OrphansAreCollected`, proved for any number).

Renders. Prune looks at meta.json, and deletes when it has looked at all ids of the
pass. A render of one of them in between is deleted with what it replaced, however
long it was to be kept (`RendersClash.cfg`); its record brings a new index entry, for an
output that is gone. `UndueIsKept` and `ServableUntilDue` except these ids and no
others, so nothing else makes prune take an output early. `StopLosesNothing` fails only
because the flush loop is detached: were it
awaited before the last flush, `cut` would stay empty. `HistorySurvives` needs a
summary that is merged, not recomputed.

## Proofs

`BatchJobProofs` proves every invariant of `BatchFaults.cfg` for all values of the
constants, from the named assumptions of `BatchJob` only: any number of workers,
shards, attempts, failing calls, crashes and shutdowns. The argument has two
layers.

1. *The base invariant* `TypeInv`: types, plus where each worker is in its shard
   (`At`) and where the server is in the job (`EnqueueAt`). Types alone are not
   inductive: `RenderId(w)` is a render id only because the item in hand is inside
   the shard, and results are full only because a worker reaches `results` with as
   many outcomes as the shard has items. One lemma per group of actions, one step
   per action.
2. *What a step writes.* `Writes` and `Edits`/`Takes`/`Collects` say, once for all
   actions, what a worker may put into the bucket and what it may do to the
   descriptor and the outcomes it holds. The other invariants follow from these
   without looking at the actions again:
   * `DescriptorsFit`: every descriptor, stored or in a worker's hands, has at most
     `MaxAttempts` attempts, at most as many counts as its shard has items, and full
     results if it says Done. It must speak of the copies in memory, since those
     are what is written later, over whatever is stored then. It gives
     `AttemptsBounded`, `CountsWithinShard` and `DoneHasFullResults`.
   * `Published`: the progress of the enqueue, and that workers never put the
     absence of a descriptor. It gives `MarkerImpliesReady`.
   * `SuccessesBacked`: a successful meta.json, a counted success in memory and one
     in results.json all have their PDF. It gives `SuccessHasPdf`.

`RenderPoolProofs`, for any number of callers, compiles (finitely many alive) and
slots. `PoolInv` is the types, `SlotsAddUp` and `UnusedIsFree`: a compile that has not
begun belongs to nobody, without which a watcher could hold it and the leak counter
would be off when it starts. The work is in the cardinalities, in the lemmas that say
how the sets of running and of watched compiles change by one. `RefusalMeansStuck`
follows by counting, and no run checks it apart: as many watched compiles as slots, all
running, are all the running compiles there are.

`S3CallsProofs`, for any number of processes, attempts and rounds. `AckedWriteHolds`
is not inductive, since an acknowledgement says nothing of attempts still on their
way. `S3Inv` adds `CleanIsAlone` (a write nobody overlapped is the only write) and
`SettledIsQuiet` (a settled object has no writer and no late attempt). A late attempt
that arrives cannot break it, because a write is only settled when there is none.

`JobViewProofs` proves what the job view and the life cycle promise, for any number of
shards, items and attempts. Without a lock or a compare-and-set these promises are not
unconditional, so each theorem names the part of the constants' space it is about;
within it, nothing is bounded.

| Assumption | Means | Theorems |
|---|---|---|
| `Calm` | no call fails, nobody crashes or is stopped; any number of workers, whose leases lapse at any time | `OutstandingAttended` |
| `OneWorker` | at most one worker; any number of failing calls, crashes and stops | `FinalStatusIsFinal`, `ResultsMatchCounts`, the safety half of `LifecycleSpec` |
| `OneWorker`, `MaxFaults = 0` | storage is reliable, the worker dies and is stopped at will | `OutstandingHasMarker` |
| and `DistinctItems` | no two items have the same render id | `SuccessIsServable` |

These are the limits of the system and not of the proofs: beyond them `batch_blip` (a
failing read) and `batch_double_claim` (a second worker) are counterexamples, and the
runs `batch_races` and `batch_recovery` are instances within them. Every proof starts
from `Early`: no worker sees a marker before the last descriptor is there.

* `Attended` (races): a worker that has written a claim holds a running descriptor of
  its own, a running shard belongs to somebody who is still at it, and who is about to
  delete a marker has seen that the shard is not pending. Ownership is in the stored
  descriptor, so losing a lease to another worker hands the duty over.
* `Held` (one worker): at each step the worker's copy is one step ahead of the stored
  descriptor, whatever failed calls did to it, and a terminal descriptor has no lease.
  Hence no terminal descriptor is written again. `FinalStatusIsFinal` and each step of
  `ShardLifecycle` follow; `Counting` adds that the worker's tally is the number of
  successes it holds, and that results precede the count that speaks of them.
* `Marked`: the one worker is the only one to delete markers, and what it has listed
  and not yet visited is there.
* `Servable`: results of an earlier attempt stay servable while a later one renders
  again, because an item that is rendered anew is not among their successes (`Probe`
  would have resumed it), and no other item has its id.

`TemplateStoreProofs`, for any number of clients, instances, names, versions, manifests,
calls and failures. `Typed` says that a plan is always in order (`Planned`), which is
what makes the locals of a call meaningful at each step. On it rest:

* `CollectionSparesTagged` and `LoadFailsOnlyWhenGone`, through `Sparing`: at each of its
  steps a delete either still has a tag to read, or keeps the tag's manifest and then
  all of its files. Other deletes only take tags away, which cannot hurt; a publish
  that overlaps is what `raced` excuses, an unread manifest what `blind` does.
* `OwnWriteIsSeen`, through `Owned`: while a call has its claim on a tag, it is the only
  one to write it and nobody caches it at the process (`Claimed`); once it has written
  the cache, no call that is about to write the tag is left, and whoever caches it there
  later has read what it wrote (`Rested`).
* `ListingIsComplete`, through `Listing`: a name nobody touched is found, or still in the
  listing, or in hand.
* `OrphansAreCollected`, through `Minded`: a manifest that no tag points to is in the
  hands of a call that will tag it or collect it, unless a republish took its tag.

`RenderStoreProofs`, for any number of requests, ids, days, mishaps and limits of the
buffer. `ExpiringIsIndexed` follows the expiry on its way (`Covered`): the request that
wrote meta.json announces it, then the buffer or a flush, then an index file; while
prune holds a file, the file is not used up as long as one of its ids is still to be
read. `ServableUntilDue` needs `Kept` (a request finds what it has put when it comes to
put meta.json, unless prune has hit it) and `DoomedIsDue` (what prune has decided to
delete is due and nobody is storing it, unless it is in `clash.open`). `UndueIsKept`
follows from the latter: what is due on the day of the pass is due on every later one.

`PartsProofs`, for the functions whose promise is about all inputs.

* `PublishedAreLoadable`: whatever a form holds, a bundle that passes `validate` makes a
  manifest that passes its own, and no file is lost on the way.
* `BatchIsFresh`: batches of any length, over any template, data and options. Each world
  of the batch is a world of the template built on a day up to the item's (`Warm`), by
  induction over the items; two such worlds with the same data compile to the same but
  for the date. `BatchesAreFresh` is the instance the run checks.
* `TagTellsOptionsApart`: lists of options of any length with the same tag ask for the
  same export. A list repeats a name exactly if one of its names is there more than once
  (`OnceEach`), so the multiplicities in the tag decide the validity of the list.
  `SameIdsSameRenders` is the instance the run checks.
* `SpecParsesAsWritten`, `SpecPublishedIsResolvable` and `SpecKeysReadBack`, for texts,
  names and tags of any length, from `TextBoundsAssumption` (the bounds are naturals),
  under `RefSpec`, whose invariant `Referred` says what each kind of answer is. A valid
  part has no separator in it, so the last separator of a joined text is the one it was
  joined with (`SplitAtLast`), and a reading is cut back into its own parts
  (`CutReading`); the other way round, whatever the parser accepts is one of its readings
  (`CutIsReading`), so a text has at most one. What publish accepts has no upper case
  and is therefore its own lower case, joined back by the same separators. Keys are told
  apart by how many segments they have and which of them are fixed (`OneSegmentOf`,
  `TwoSegmentsOf`).
* `SpecPercentilesAreRanks`, from `MaxLatenciesAssumption` (the bound is a natural). Each
  place of the sorted durations has its value: the least that so many durations are not
  above (`ValueAtPlace`, by `LeastNatural`). So the places are in order, and as many
  durations lie above a place as there are places after it, or fewer (`AbovePlace`).
  What rounding does to the place of a percentile is arithmetic (`PlaceOfPercentile`).
  `PercentileIsRank` says it for every percentage.
* `LogCountsOnce`, for logs of any length over records of any templates, tags, times
  and durations, and `SpecEachRenderCountsOnce` from it and
  `RecentNAssumption` (the length of a recent list is a natural). Every render has one
  record in `LatestRecords`, so there are as many records as renders
  (`OneRecordPerRender`: of the newest records of a render, one is the first, by
  `LeastNatural`). `PartsAddUp` is the one fact about sums: if each record belongs to
  one row, and each row's value is the number of its records, the records match the
  cells of the table. Days, tags, templates, buckets and bars are such tables
  (`VolumeAddsUp`, `TagsAddUp`, `TemplatesAddUp`, `HistogramAddsUp`, `BarsAddUp`);
  ranking the rows of a table permutes them (`RankedIsPermutation`), and the donut
  moves the cells of small rows to the slice for the others (`DonutAddsUp`). What is
  chosen from an order keeps it (`ChosenIsListing`), so the head of a recent list is
  the newest (`ListingKeepsNewest`).
* `SpecWalkSeesAll`, from `PageBoundsAssumption` (the bounds are naturals, and a page
  may hold something). A page and what is left from its `next` on make up what is left
  from its offset (`Tiles`), and offsets only grow, so by `SetInduction` from the far
  end a walk collects what is left from its start (`WalkTiles`). The lemmas for each
  list show that its pages tile: `PagesTile` by `more` being true exactly if there is
  more, `ItemsPaged` by the items of the two sides being one below the other
  (`AscendingJoin`) and every item's shard being among those a page reads
  (`ShardsOfPage`). With limit 0 pages do not tile: they lead nowhere, and are the last
  exactly if nothing is left (`PagesStuck`, `ItemsStuck`); the pages of renders do, since
  their limit is at least 1.
* `SpecStatusTellsWhoseFault`, along the way of an error: a step and a fault give an
  error of one kind, an outage, a mistake, something missing or a pool at its limits
  (`ErrorsOfFaults`), which `StatusOfErrors` keeps apart; most handlers pass it on as it
  is (`PlainTells`), the others are taken one by one. There are no constants in it: the
  proof says why it holds where the run enumerates.

Not proved, model-checked only: everything that must eventually happen (`JobEnds`,
`DueIsPruned`, `RenderCallEnds`, `PoolHeals`, `S3CallReturns`, the liveness half of
`LifecycleSpec`), since temporal reasoning with fairness and `ENABLED` is beyond the
installed provers. `BlobsAreCollected`, `RepublishIsSeen` and `OnlyDueArePruned` are
stated for their counterexamples.

## Not modelled

* Job pruning (`retention.rs:143-180`). It deletes jobs that are days old; to race with
  a shard, a worker would have to stall for that long.
* A batch whose tag moves while it runs: each shard resolves the tag once, so shards
  may render different versions. Nothing in the repository promises otherwise.
* Typst itself, its diagnostics and the comemo cache; moka's eviction by size.
* `MemoryRenderStorage` and `MemoryStorage`, which only tests use.
* The UI's HTML, translations, schema inference and styles; configuration and
  environment parsing; OpenAPI; health check. UI pages that answer a storage failure with
  an empty list or a 404 are not requests of `Api`.
* Clocks of different processes: a date is the same everywhere.

## Plan

1. Done: `BatchJob`, `JobView`, `ShardLifecycle`, `TemplateStore`, `RenderStore`,
   `RenderPool`, `S3Calls` and the pure functions, and proofs of every safety property
   of the stateful modules that the code has.
2. Done: proofs of the properties of the pure functions.
3. Left: the hazards that no property covers: a lost poison put, a flush error that
   counts a stored success as failed, a tag that moves while a job runs, and the pruning
   of a job that a stalled worker is still at. The losses of records that the code accepts
   (a crash, the cap, a dropped flush) are modelled and excused, not forbidden.

## Running

    tlc -workers 2 -config BatchFaults.cfg MCBatchJob
    tlc -workers 2 -config Templates.cfg MCTemplates
    tlc -workers 2 -config Renders.cfg MCRenders
    tlc -workers 2 -config Parts.cfg MCParts
    tlapm BatchJobProofs.tla
    tlc -workers 2 -config TemplateLeak.cfg MCTemplates
    tlc -workers 2 -config TemplateStale.cfg MCTemplates
    tlc -workers 2 -config RendersClash.cfg MCRenders

`BatchFaults`, `BatchRecovery`, `BatchRaces`, `Templates` and `Parts` take up to a
minute each, `Renders` two or three, the violations a few seconds. The proofs take a few
minutes per module, `TemplateStoreProofs` and `JobViewProofs` the longest. The last three
end with their counterexamples.
