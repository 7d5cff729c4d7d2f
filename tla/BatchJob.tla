------------------------------ MODULE BatchJob ------------------------------
(***************************************************************************)
(* One batch job of papermake: the server enqueues it as shards, and any    *)
(* number of workers claim, render, heartbeat, finish and reclaim them.     *)
(*                                                                          *)
(* All shared state is objects in an S3 bucket; there is no lock and no     *)
(* compare-and-set.  Every S3 call that another process can observe is an   *)
(* action of its own, so two workers interleave between any two calls.      *)
(* Sources: crates/papermake-registry/src/registry/batch.rs, batch.rs,      *)
(* render_storage/layout.rs and the loop of crates/papermake-worker.        *)
(***************************************************************************)
EXTENDS Integers, Sequences

CONSTANTS
    Workers,          \* worker processes; each has its own worker id
    NoWorker,         \* owner = None in a shard descriptor
    Total,            \* number of inputs of the job
    ShardSize,        \* Registry::batch_shard_size
    MaxAttempts,      \* WORKER_MAX_ATTEMPTS, the poison guard
    RenderIds,        \* content-addressed render ids
    RenderIdOf,       \* the render id of each input: same data, same id
    TemplateMayFail,  \* whether prepare_batch may fail to load the template
    MaxFaults,        \* bound: storage calls that return an error
    MaxCrashes,       \* bound: workers killed without warning
    MaxStops          \* bound: shutdown signals delivered to workers

\* div_ceil of enqueue_batch_job, and the items its shard k covers.
NumShards == (Total + ShardSize - 1) \div ShardSize
Shards == 0 .. NumShards - 1
Items == 0 .. Total - 1
Start(k) == k * ShardSize
ShardLen(k) == IF Total - Start(k) < ShardSize THEN Total - Start(k) ELSE ShardSize

ASSUME WorkersAssumption == NoWorker \notin Workers
ASSUME SizesAssumption == Total \in Nat /\ ShardSize \in Nat \ {0}
ASSUME AttemptsAssumption == MaxAttempts \in Nat
ASSUME RenderIdsAssumption == RenderIdOf \in [Items -> RenderIds]
ASSUME BoundsAssumption ==
    /\ TemplateMayFail \in BOOLEAN
    /\ MaxFaults \in Nat /\ MaxCrashes \in Nat /\ MaxStops \in Nat

VARIABLES
    inputs,   \* shards whose inputs.json is stored
    shard,    \* shard.json of each shard, or NoShard
    job,      \* whether job.json is stored
    marker,   \* shards with a key under jobs/pending/
    results,  \* results.json of each shard, or NoResults
    pdf,      \* render ids with a stored PDF
    meta,     \* meta.json of each render id: "none", "ok" (success) or "failed"
    enq,      \* progress of enqueue_batch_job in the server
    pc,       \* what each worker does next
    todo,     \* markers listed by claim_next_shard and not tried yet
    cur,      \* shard index the worker is trying or running
    local,    \* the worker's in-memory copy of that descriptor
    items,    \* outcomes of the items processed so far, in order
    done,     \* the two counters of run_claimed_shard
    failed,
    stop,     \* the worker's shutdown flag
    faults,   \* storage errors left
    crashes,  \* crashes left
    stops     \* shutdown signals left

jobVars == <<inputs, job>>
docVars == <<shard, marker, results>>
renderVars == <<pdf, meta>>
scanVars == <<pc, todo, cur, local>>
tallyVars == <<items, done, failed>>
envVars == <<stop, crashes, stops>>
vars == <<jobVars, docVars, renderVars, enq, scanVars, tallyVars, faults, envVars>>

NoShard == [status |-> "none", owner |-> NoWorker, lease |-> "none",
            attempts |-> 0, done |-> 0, failed |-> 0]
NoResults == <<>>

\* The lease instant is abstracted to whether the clock has passed it.
Descriptor ==
    [status : {"none", "pending", "running", "done", "failed"},
     owner : Workers \cup {NoWorker},
     lease : {"none", "live", "lapsed"},
     attempts : Nat, done : Nat, failed : Nat]

NewShard == [status |-> "pending", owner |-> NoWorker, lease |-> "none",
             attempts |-> 0, done |-> 0, failed |-> 0]
Terminal(d) == d.status \in {"done", "failed"}
Stored(d) == d.status # "none"

Init ==
    /\ inputs = {} /\ job = FALSE /\ marker = {}
    /\ shard = [k \in Shards |-> NoShard]
    /\ results = [k \in Shards |-> NoResults]
    /\ pdf = {} /\ meta = [r \in RenderIds |-> "none"]
    /\ enq = [step |-> "inputs", k |-> 0]
    /\ pc = [w \in Workers |-> "idle"]
    /\ todo = [w \in Workers |-> {}]
    /\ cur = [w \in Workers |-> 0]
    /\ local = [w \in Workers |-> NoShard]
    /\ items = [w \in Workers |-> <<>>]
    /\ done = [w \in Workers |-> 0]
    /\ failed = [w \in Workers |-> 0]
    /\ stop = [w \in Workers |-> FALSE]
    /\ faults = MaxFaults /\ crashes = MaxCrashes /\ stops = MaxStops

(***************************************************************************)
(* The edits of a descriptor: claimed by w, given up by the poison guard,   *)
(* given back, heartbeat with counts, and the last one of a run.            *)
(***************************************************************************)
Claimed(d, w) ==
    [d EXCEPT !.status = "running", !.owner = w, !.lease = "live", !.attempts = @ + 1]

Poisoned(d) == [d EXCEPT !.status = "failed", !.owner = NoWorker, !.lease = "none"]

\* Mutated: giving a shard back forgets its attempts.
ReleasedAfresh(d) ==
    [d EXCEPT !.status = "pending", !.owner = NoWorker, !.lease = "none", !.attempts = 0]

Released(d) == [d EXCEPT !.status = "pending", !.owner = NoWorker, !.lease = "none"]

Counted(d, n, m) == [d EXCEPT !.done = n, !.failed = m]

Finished(d, n, m) ==
    [d EXCEPT !.status = "done", !.owner = NoWorker, !.lease = "none",
              !.done = n, !.failed = m]

-----------------------------------------------------------------------------
(***************************************************************************)
(* Storage calls.  A call that fails may still have taken effect: S3Storage *)
(* gives up after its retries without knowing whether the last one landed.  *)
(***************************************************************************)
Outcomes == {"ok", "lost", "applied"}

\* o is the outcome of the one storage call of the step.
S3(o) ==
    \/ o = "ok" /\ UNCHANGED faults
    \/ o # "ok" /\ faults > 0 /\ faults' = faults - 1

\* A put or delete lands on the bucket unless its error means it was lost.
Write(var, new, o) == IF o = "lost" THEN var ELSE new

-----------------------------------------------------------------------------
(***************************************************************************)
(* enqueue_batch_job: per shard its inputs and its descriptor, then         *)
(* job.json, then the markers.  The first error ends it, leaving the        *)
(* objects written so far (a server crash is the same as a lost call).      *)
(***************************************************************************)
EnqueueGoesTo(step, k, o) ==
    enq' = IF o = "ok" THEN [step |-> step, k |-> k] ELSE [step |-> "failed", k |-> enq.k]

PutInputs(o) ==
    /\ enq.step = "inputs" /\ enq.k < NumShards
    /\ S3(o)
    /\ inputs' = Write(inputs, inputs \cup {enq.k}, o)
    /\ EnqueueGoesTo("shard", enq.k, o)
    /\ UNCHANGED <<job, docVars, renderVars, scanVars, tallyVars, envVars>>

\* Mutated: the marker is published together with the descriptor.
PutNewShardEarlyMarker(o) ==
    /\ enq.step = "shard"
    /\ S3(o)
    /\ shard' = Write(shard, [shard EXCEPT ![enq.k] = NewShard], o)
    /\ marker' = Write(marker, marker \cup {enq.k}, o)
    /\ EnqueueGoesTo("inputs", enq.k + 1, o)
    /\ UNCHANGED <<jobVars, results, renderVars, scanVars, tallyVars, envVars>>

PutNewShard(o) ==
    /\ enq.step = "shard"
    /\ S3(o)
    /\ shard' = Write(shard, [shard EXCEPT ![enq.k] = NewShard], o)
    /\ EnqueueGoesTo("inputs", enq.k + 1, o)
    /\ UNCHANGED <<jobVars, marker, results, renderVars, scanVars, tallyVars, envVars>>

PutJob(o) ==
    /\ enq.step = "inputs" /\ enq.k = NumShards
    /\ S3(o)
    /\ job' = Write(job, TRUE, o)
    /\ EnqueueGoesTo("marker", 0, o)
    /\ UNCHANGED <<inputs, docVars, renderVars, scanVars, tallyVars, envVars>>

\* Mutated: one marker too many.
PutMarkerPastEnd(o) ==
    /\ enq.step = "marker" /\ enq.k <= NumShards
    /\ S3(o)
    /\ marker' = Write(marker, marker \cup {enq.k}, o)
    /\ EnqueueGoesTo("marker", enq.k + 1, o)
    /\ UNCHANGED <<jobVars, shard, results, renderVars, scanVars, tallyVars, envVars>>

PutMarker(o) ==
    /\ enq.step = "marker" /\ enq.k < NumShards
    /\ S3(o)
    /\ marker' = Write(marker, marker \cup {enq.k}, o)
    /\ EnqueueGoesTo("marker", enq.k + 1, o)
    /\ UNCHANGED <<jobVars, shard, results, renderVars, scanVars, tallyVars, envVars>>

Enqueued == enq = [step |-> "marker", k |-> NumShards]

Enqueue(o) == PutInputs(o) \/ PutNewShard(o) \/ PutJob(o) \/ PutMarker(o)

-----------------------------------------------------------------------------
(***************************************************************************)
(* claim_next_shard.  The order in which a worker tries the markers is a    *)
(* hash of its id and the key: any order.  A listing that fails or finds    *)
(* no marker changes nothing, so it is a stuttering step.                   *)
(***************************************************************************)
Goto(w, step) == pc' = [pc EXCEPT ![w] = step]
Keep(w, d) == local' = [local EXCEPT ![w] = d]

\* Back to the worker's poll loop: the locals of the call are gone.
Return(w) ==
    /\ Goto(w, "idle")
    /\ Keep(w, NoShard)
    /\ todo' = [todo EXCEPT ![w] = {}]
    /\ cur' = [cur EXCEPT ![w] = 0]
    /\ items' = [items EXCEPT ![w] = <<>>]
    /\ done' = [done EXCEPT ![w] = 0]
    /\ failed' = [failed EXCEPT ![w] = 0]

ListMarkers(w) ==
    /\ pc[w] = "idle" /\ ~stop[w] /\ marker # {}
    /\ todo' = [todo EXCEPT ![w] = marker]
    /\ Goto(w, "scan")
    /\ UNCHANGED <<jobVars, docVars, renderVars, enq, cur, local, tallyVars, faults, envVars>>

ScanEnds(w) ==
    /\ pc[w] = "scan" /\ todo[w] = {}
    /\ Return(w)
    /\ UNCHANGED <<jobVars, docVars, renderVars, enq, faults, envVars>>

\* Mutated: a Done shard with a left-over marker is claimed once more.
ClaimableWhenDone(d) ==
    d.status \in {"pending", "done"} \/ (d.status = "running" /\ d.lease # "live")

Claimable(d) == d.status = "pending" \/ (d.status = "running" /\ d.lease # "live")

\* Takes the next marker; d is what the worker will write, if anything.
Try(w, k, step, d) ==
    /\ pc[w] = "scan" /\ k \in todo[w]
    /\ todo' = [todo EXCEPT ![w] = @ \ {k}]
    /\ cur' = [cur EXCEPT ![w] = k]
    /\ Keep(w, d)
    /\ Goto(w, step)
    /\ UNCHANGED <<jobVars, docVars, renderVars, enq, tallyVars, envVars>>

\* A live lease: somebody else works on it.
SkipLeased(w, k) ==
    /\ shard[k].status = "running" /\ shard[k].lease = "live"
    /\ Try(w, k, "scan", NoShard)
    /\ UNCHANGED faults

\* The descriptor is terminal or cannot be read, whatever the reason: the
\* marker is taken to be stale.
FindStale(w, k, o) ==
    /\ o = "lost" \/ (o = "ok" /\ (Terminal(shard[k]) \/ ~Stored(shard[k])))
    /\ S3(o)
    /\ Try(w, k, "drop", NoShard)

FindPoisoned(w, k) ==
    /\ Claimable(shard[k]) /\ shard[k].attempts >= MaxAttempts
    /\ Try(w, k, "poison", Poisoned(shard[k]))
    /\ UNCHANGED faults

\* Mutated: the poison guard lets one more attempt through.
FindClaimableOnceMore(w, k) ==
    /\ Claimable(shard[k]) /\ shard[k].attempts <= MaxAttempts
    /\ Try(w, k, "claim", Claimed(shard[k], w))
    /\ UNCHANGED faults

FindClaimable(w, k) ==
    /\ Claimable(shard[k]) /\ shard[k].attempts < MaxAttempts
    /\ Try(w, k, "claim", Claimed(shard[k], w))
    /\ UNCHANGED faults

PutLocal(w, o) == shard' = Write(shard, [shard EXCEPT ![cur[w]] = local[w]], o)

\* Both results are ignored: the marker goes even if the Failed write was lost.
PoisonPut(w, o) ==
    /\ pc[w] = "poison"
    /\ S3(o) /\ PutLocal(w, o)
    /\ Goto(w, "drop")
    /\ UNCHANGED <<jobVars, marker, results, renderVars, enq, todo, cur, local, tallyVars, envVars>>

DropMarker(w, o) ==
    /\ pc[w] = "drop"
    /\ S3(o)
    /\ marker' = Write(marker, marker \ {cur[w]}, o)
    /\ Goto(w, "scan")
    /\ UNCHANGED <<jobVars, shard, results, renderVars, enq, todo, cur, local, tallyVars, envVars>>

ClaimPut(w, o) ==
    /\ pc[w] = "claim"
    /\ S3(o) /\ PutLocal(w, o)
    /\ \/ o = "ok" /\ Goto(w, "readback") /\ UNCHANGED <<todo, cur, local, tallyVars>>
       \/ o # "ok" /\ Return(w)
    /\ UNCHANGED <<jobVars, marker, results, renderVars, enq, envVars>>

\* Only a read that shows another owner loses the claim; an unreadable
\* descriptor counts as ours.
ReadBack(w, o) ==
    /\ pc[w] = "readback" /\ o # "applied"
    /\ S3(o)
    /\ \/ /\ o = "ok" /\ shard[cur[w]].owner # w
          /\ Goto(w, "scan") /\ Keep(w, NoShard) /\ UNCHANGED todo
       \/ /\ o # "ok" \/ shard[cur[w]].owner = w
          /\ Goto(w, "load") /\ todo' = [todo EXCEPT ![w] = {}] /\ UNCHANGED local
    /\ UNCHANGED <<jobVars, docVars, renderVars, enq, cur, tallyVars, envVars>>

-----------------------------------------------------------------------------
(***************************************************************************)
(* run_claimed_shard.                                                       *)
(***************************************************************************)

\* Mutated: a reclaim goes on counting from the counts of the last heartbeat.
LoadKeepsCounts(w) ==
    /\ pc[w] = "load" /\ job /\ cur[w] \in inputs
    /\ done' = [done EXCEPT ![w] = local[w].done]
    /\ failed' = [failed EXCEPT ![w] = local[w].failed]
    /\ Goto(w, "item")
    /\ UNCHANGED <<jobVars, docVars, renderVars, enq, todo, cur, local, items, faults, envVars>>

\* job.json, inputs.json, then prepare_batch: reads only, so one step.
Load(w) ==
    /\ pc[w] = "load" /\ job /\ cur[w] \in inputs
    /\ Goto(w, "item")
    /\ UNCHANGED <<jobVars, docVars, renderVars, enq, todo, cur, local, tallyVars, faults, envVars>>

\* The claim returns an error and the shard stays Running until its lease ends.
LoadFails(w) ==
    /\ pc[w] = "load"
    /\ \/ (~job \/ cur[w] \notin inputs) /\ UNCHANGED faults
       \/ S3("lost")
    /\ Return(w)
    /\ UNCHANGED <<jobVars, docVars, renderVars, enq, envVars>>

\* prepare_batch fails: the shard is given back, its attempts kept.
PrepareFails(w) ==
    /\ pc[w] = "load" /\ job /\ cur[w] \in inputs
    /\ TemplateMayFail
    /\ Keep(w, Released(local[w]))
    /\ Goto(w, "release")
    /\ UNCHANGED <<jobVars, docVars, renderVars, enq, todo, cur, tallyVars, faults, envVars>>

\* should_stop() is polled before each item, after the last one no more.
StopMidShard(w) ==
    /\ pc[w] = "item" /\ stop[w]
    /\ Keep(w, Released(Counted(local[w], done[w], failed[w])))
    /\ Goto(w, "release")
    /\ UNCHANGED <<jobVars, docVars, renderVars, enq, todo, cur, tallyVars, faults, envVars>>

\* Mutated: giving a shard back clears its marker.
ReleasePutClearsMarker(w, o) ==
    /\ pc[w] = "release"
    /\ S3(o) /\ PutLocal(w, o)
    /\ marker' = marker \ {cur[w]}
    /\ Return(w)
    /\ UNCHANGED <<jobVars, results, renderVars, enq, envVars>>

ReleasePut(w, o) ==
    /\ pc[w] = "release"
    /\ S3(o) /\ PutLocal(w, o)
    /\ Return(w)
    /\ UNCHANGED <<jobVars, marker, results, renderVars, enq, envVars>>

\* The render id of the item in hand.
RenderId(w) == RenderIdOf[Start(cur[w]) + Len(items[w])]

\* Mutated: only the third attempt looks for earlier output.
IsLateResume(w) == local[w].attempts > 2

\* Only a reclaim (attempt > 1) looks for earlier output.
IsResume(w) == local[w].attempts > 1

\* Counts the item in hand as rendered or as failed.
Count(w, ok) ==
    /\ items' = [items EXCEPT ![w] = Append(@, ok)]
    /\ done' = [done EXCEPT ![w] = IF ok THEN @ + 1 ELSE @]
    /\ failed' = [failed EXCEPT ![w] = IF ok THEN @ ELSE @ + 1]
    /\ Goto(w, "beat")

\* The probe for earlier output: a success is taken over as it is; anything
\* else, an unreadable record too, is rendered.
Probe(w, o) ==
    /\ pc[w] = "item" /\ ~stop[w] /\ o # "applied"
    /\ o = "ok" \/ IsResume(w)
    /\ S3(o)
    /\ IF o = "ok" /\ IsResume(w) /\ meta[RenderId(w)] = "ok"
       THEN Count(w, TRUE)
       ELSE Goto(w, "render") /\ UNCHANGED tallyVars
    /\ UNCHANGED <<jobVars, docVars, renderVars, enq, todo, cur, local, envVars>>

\* Mutated: a lost put of the PDF goes unnoticed.
RenderOkUnchecked(w, o) ==
    /\ pc[w] = "render"
    /\ S3(o)
    /\ pdf' = Write(pdf, pdf \cup {RenderId(w)}, o)
    /\ Goto(w, "meta_ok")
    /\ UNCHANGED <<jobVars, docVars, meta, enq, todo, cur, local, tallyVars, envVars>>

\* Compiled: the PDF is put.  A failed put of data.json or of the PDF is an
\* error of render_one, which counts the item as failed.
RenderOk(w, o) ==
    /\ pc[w] = "render"
    /\ S3(o)
    /\ pdf' = Write(pdf, pdf \cup {RenderId(w)}, o)
    /\ \/ o = "ok" /\ Goto(w, "meta_ok") /\ UNCHANGED tallyVars
       \/ o # "ok" /\ Count(w, FALSE)
    /\ UNCHANGED <<jobVars, docVars, meta, enq, todo, cur, local, envVars>>

\* A template error, a timeout or an exhausted render pool: no PDF is put.
RenderFails(w) ==
    /\ pc[w] = "render"
    /\ Goto(w, "meta_failed")
    /\ UNCHANGED <<jobVars, docVars, renderVars, enq, todo, cur, local, tallyVars, faults, envVars>>

\* put_render_meta, then store_render, whose error ("applied": meta.json is
\* stored, the flush of the record buffer failed) also fails the item.
PutMeta(w, o) ==
    /\ pc[w] \in {"meta_ok", "meta_failed"}
    /\ S3(o)
    /\ LET outcome == IF pc[w] = "meta_ok" THEN "ok" ELSE "failed"
       IN  /\ meta' = Write(meta, [meta EXCEPT ![RenderId(w)] = outcome], o)
           /\ Count(w, outcome = "ok" /\ o = "ok")
    /\ UNCHANGED <<jobVars, docVars, pdf, enq, todo, cur, local, envVars>>

AfterItem(w) == IF Len(items[w]) < ShardLen(cur[w]) THEN "item" ELSE "results"

\* No heartbeat is due, or the descriptor cannot be read (then no write).
NoHeartbeat(w) ==
    /\ pc[w] = "beat"
    /\ Goto(w, AfterItem(w))
    /\ UNCHANGED <<jobVars, docVars, renderVars, enq, todo, cur, local, tallyVars, faults, envVars>>

\* heartbeat_shard reads the descriptor and compares the owner ...
Heartbeat(w) ==
    /\ pc[w] = "beat"
    /\ shard[cur[w]].owner = w
    /\ Keep(w, Counted(local[w], done[w], failed[w]))
    /\ Goto(w, "renew")
    /\ UNCHANGED <<jobVars, docVars, renderVars, enq, todo, cur, tallyVars, faults, envVars>>

\* Mutated: a worker that lost the shard gives it back.
AbandonReleases(w) ==
    /\ pc[w] = "beat"
    /\ shard[cur[w]].owner # w
    /\ shard' = [shard EXCEPT ![cur[w]] = Released(local[w])]
    /\ Return(w)
    /\ UNCHANGED <<jobVars, marker, results, renderVars, enq, faults, envVars>>

\* ... abandons the run when it is another worker's ...
Abandon(w) ==
    /\ pc[w] = "beat"
    /\ shard[cur[w]].owner # w
    /\ Return(w)
    /\ UNCHANGED <<jobVars, docVars, renderVars, enq, faults, envVars>>

\* ... and otherwise writes its own copy back, whatever became of the stored
\* one in between, ignoring the result.
Renew(w, o) ==
    /\ pc[w] = "renew"
    /\ S3(o) /\ PutLocal(w, o)
    /\ Goto(w, AfterItem(w))
    /\ UNCHANGED <<jobVars, marker, results, renderVars, enq, todo, cur, local, tallyVars, envVars>>

\* Mutated: Done keeps the counts of the last heartbeat.
PutResultsStaleCounts(w, o) ==
    /\ pc[w] = "results"
    /\ S3(o)
    /\ results' = Write(results, [results EXCEPT ![cur[w]] = items[w]], o)
    /\ \/ /\ o = "ok" /\ Goto(w, "finish") /\ UNCHANGED <<todo, cur, tallyVars>>
          /\ Keep(w, Finished(local[w], local[w].done, local[w].failed))
       \/ o # "ok" /\ Return(w)
    /\ UNCHANGED <<jobVars, shard, marker, renderVars, enq, envVars>>

\* Mutated: the error of the put is ignored.
PutResultsUnchecked(w, o) ==
    /\ pc[w] = "results"
    /\ S3(o)
    /\ results' = Write(results, [results EXCEPT ![cur[w]] = items[w]], o)
    /\ Keep(w, Finished(local[w], done[w], failed[w])) /\ Goto(w, "finish")
    /\ UNCHANGED <<jobVars, shard, marker, renderVars, enq, todo, cur, tallyVars, envVars>>

\* results.json is put first, and its error ends the run.
PutResults(w, o) ==
    /\ pc[w] = "results"
    /\ S3(o)
    /\ results' = Write(results, [results EXCEPT ![cur[w]] = items[w]], o)
    /\ \/ /\ o = "ok"
          /\ Keep(w, Finished(local[w], done[w], failed[w])) /\ Goto(w, "finish")
          /\ UNCHANGED <<todo, cur, tallyVars>>
       \/ o # "ok" /\ Return(w)
    /\ UNCHANGED <<jobVars, shard, marker, renderVars, enq, envVars>>

\* The Done descriptor is put without looking at the owner.
FinishPut(w, o) ==
    /\ pc[w] = "finish"
    /\ S3(o) /\ PutLocal(w, o)
    /\ \/ o = "ok" /\ Goto(w, "clear") /\ UNCHANGED <<todo, cur, local, tallyVars>>
       \/ o # "ok" /\ Return(w)
    /\ UNCHANGED <<jobVars, marker, results, renderVars, enq, envVars>>

ClearMarker(w, o) ==
    /\ pc[w] = "clear"
    /\ S3(o)
    /\ marker' = Write(marker, marker \ {cur[w]}, o)
    /\ Return(w)
    /\ UNCHANGED <<jobVars, shard, results, renderVars, enq, envVars>>

-----------------------------------------------------------------------------
(***************************************************************************)
(* The environment: the clock, the supervisor and the signals.              *)
(***************************************************************************)

\* The stored lease of a running shard expires, whether or not its owner lives:
\* the owner renews between items only, and an item may outlast the lease.
LeaseLapses(k) ==
    /\ shard[k].lease = "live"
    /\ shard' = [shard EXCEPT ![k].lease = "lapsed"]
    /\ UNCHANGED <<jobVars, marker, results, renderVars, enq, scanVars, tallyVars, faults, envVars>>

\* A worker dies and is started again: all it knew is gone.
Crash(w) ==
    /\ crashes > 0 /\ pc[w] # "idle"
    /\ crashes' = crashes - 1
    /\ stop' = [stop EXCEPT ![w] = FALSE]
    /\ Return(w)
    /\ UNCHANGED <<jobVars, docVars, renderVars, enq, faults, stops>>

SignalStop(w) ==
    /\ stops > 0 /\ ~stop[w]
    /\ stops' = stops - 1
    /\ stop' = [stop EXCEPT ![w] = TRUE]
    /\ UNCHANGED <<jobVars, docVars, renderVars, enq, scanVars, tallyVars, faults, crashes>>

\* A stopped worker has left its loop; its replacement has the same id.
Restart(w) ==
    /\ stop[w] /\ pc[w] = "idle"
    /\ stop' = [stop EXCEPT ![w] = FALSE]
    /\ UNCHANGED <<jobVars, docVars, renderVars, enq, scanVars, tallyVars, faults, crashes, stops>>

-----------------------------------------------------------------------------
Claim(w, o) ==
    \/ ListMarkers(w) \/ ScanEnds(w)
    \/ \E k \in Shards : \/ SkipLeased(w, k) \/ FindStale(w, k, o)
                         \/ FindPoisoned(w, k) \/ FindClaimable(w, k)
    \/ PoisonPut(w, o) \/ DropMarker(w, o) \/ ClaimPut(w, o) \/ ReadBack(w, o)

Run(w, o) ==
    \/ Load(w) \/ LoadFails(w) \/ PrepareFails(w)
    \/ StopMidShard(w) \/ ReleasePut(w, o)
    \/ Probe(w, o) \/ RenderOk(w, o) \/ RenderFails(w) \/ PutMeta(w, o)
    \/ NoHeartbeat(w) \/ Heartbeat(w) \/ Abandon(w) \/ Renew(w, o)
    \/ PutResults(w, o) \/ FinishPut(w, o) \/ ClearMarker(w, o)

Worker(w) == \E o \in Outcomes : Claim(w, o) \/ Run(w, o)
Server == \E o \in Outcomes : Enqueue(o)
Environment ==
    \/ \E k \in Shards : LeaseLapses(k)
    \/ \E w \in Workers : Crash(w) \/ SignalStop(w) \/ Restart(w)

Next == Server \/ (\E w \in Workers : Worker(w)) \/ Environment

Spec == Init /\ [][Next]_vars

(***************************************************************************)
(* The enqueueing request, every worker and the clock keep going.  Nothing  *)
(* obliges a crash, a signal or a storage error to happen.                  *)
(***************************************************************************)
Fairness ==
    /\ WF_vars(Server)
    /\ \A w \in Workers : WF_vars(Worker(w)) /\ WF_vars(Restart(w))
    /\ \A k \in Shards : WF_vars(LeaseLapses(k))

FairSpec == Spec /\ Fairness

-----------------------------------------------------------------------------
(***************************************************************************)
(* Properties that hold whatever fails and however workers interleave.      *)
(***************************************************************************)
Steps == {"idle", "scan", "drop", "poison", "claim", "readback", "load", "item",
          "render", "meta_ok", "meta_failed", "beat", "renew", "release",
          "results", "finish", "clear"}

BucketTypeOK ==
    /\ inputs \subseteq Shards /\ job \in BOOLEAN /\ marker \subseteq Shards
    /\ shard \in [Shards -> Descriptor]
    /\ results \in [Shards -> Seq(BOOLEAN)]
    /\ pdf \subseteq RenderIds /\ meta \in [RenderIds -> {"none", "ok", "failed"}]

WorkerTypeOK ==
    /\ pc \in [Workers -> Steps]
    /\ todo \in [Workers -> SUBSET Shards]
    /\ cur \in [Workers -> Nat]
    /\ local \in [Workers -> Descriptor]
    /\ items \in [Workers -> Seq(BOOLEAN)]
    /\ done \in [Workers -> Nat] /\ failed \in [Workers -> Nat]

\* The type of every variable.
TypeOK ==
    /\ BucketTypeOK /\ WorkerTypeOK
    /\ enq \in [step : {"inputs", "shard", "marker", "failed"}, k : Nat]
    /\ stop \in [Workers -> BOOLEAN]
    /\ faults \in Nat /\ crashes \in Nat /\ stops \in Nat

\* However claims race, no descriptor ever shows more than WORKER_MAX_ATTEMPTS
\* attempts: the poison guard of claim_next_shard.
AttemptsBounded == \A k \in Shards : shard[k].attempts <= MaxAttempts

\* Markers come last in enqueue_batch_job, and a failed enqueue leaves no marker
\* for a shard whose job.json, inputs or descriptor is missing: a worker never
\* lists a shard it cannot load.
MarkerImpliesReady ==
    \A k \in marker : job /\ k \in inputs /\ Stored(shard[k])

\* A shard shown as Done has results for each of its items, also when the
\* worker that wrote Done had lost the shard long before (run_claimed_shard
\* puts results.json first and stops if that fails).
DoneHasFullResults ==
    \A k \in Shards : shard[k].status = "done" => Len(results[k]) = ShardLen(k)

\* An item reported as a success has a stored PDF, whoever rendered it and
\* whether it was rendered or taken over from an earlier attempt.
SuccessHasPdf ==
    \A k \in Shards : \A i \in DOMAIN results[k] :
        results[k][i] => RenderIdOf[Start(k) + i - 1] \in pdf

\* Retried, resumed and doubly claimed items are not counted twice: the counts
\* a client sees never exceed the shard.
CountsWithinShard ==
    \A k \in Shards : Stored(shard[k]) => shard[k].done + shard[k].failed <= ShardLen(k)

=============================================================================
