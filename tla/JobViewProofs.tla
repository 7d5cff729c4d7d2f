---------------------------- MODULE JobViewProofs ----------------------------
(***************************************************************************)
(* What the job view promises, proved from the invariants of BatchJobProofs *)
(* for any number of shards, items and attempts.  Without a lock or a       *)
(* compare-and-set these promises are not unconditional, and each theorem   *)
(* states under what they hold:                                             *)
(*   - Calm (nothing fails, nobody dies, any number of workers): every      *)
(*     shard that needs work is attended to;                                *)
(*   - OneWorker (which may die, be stopped and see any storage error): the *)
(*     status is final, the shards follow their life cycle and the counts   *)
(*     match the results;                                                   *)
(*   - OneWorker and MaxFaults = 0 (crashes and stops only): no marker is   *)
(*     lost, and with distinct inputs every success is served.              *)
(* The runs batch_double_claim and batch_blip show what goes wrong beyond.  *)
(* The argument: Early (no worker before the last descriptor), then Held    *)
(* (the worker's copy is one step ahead of the stored descriptor, so no     *)
(* terminal descriptor is written again), then what is asked.               *)
(***************************************************************************)
EXTENDS JobView, BatchJobProofs, FiniteSetTheorems

\* The successes among the outcomes s.
Trues(s) == {i \in DOMAIN s : s[i]}

\* Appending an outcome adds one success, or none.
LEMMA TruesAppend ==
    ASSUME NEW s \in Seq(BOOLEAN), NEW ok \in BOOLEAN
    PROVE  /\ IsFiniteSet(Trues(s))
           /\ Cardinality(Trues(s)) \in Nat
           /\ Cardinality(Trues(Append(s, ok))) = Cardinality(Trues(s)) + (IF ok THEN 1 ELSE 0)
<1>1. DOMAIN s = 1 .. Len(s) /\ Len(s) \in Nat
  OBVIOUS
<1>2. IsFiniteSet(1 .. Len(s))
  BY <1>1, FS_Interval
<1>3. IsFiniteSet(Trues(s)) /\ Cardinality(Trues(s)) \in Nat
  BY <1>1, <1>2, FS_Subset, FS_CardinalityType DEF Trues
<1>4. Len(s) + 1 \notin Trues(s)
  BY <1>1 DEF Trues
<1>5. CASE ok
  <2>1. Trues(Append(s, ok)) = Trues(s) \cup {Len(s) + 1}
    BY <1>1, <1>5 DEF Trues
  <2>2. QED
    BY <1>3, <1>4, <1>5, <2>1, FS_AddElement
<1>6. CASE ~ok
  <2>1. Trues(Append(s, ok)) = Trues(s)
    BY <1>1, <1>6 DEF Trues
  <2>2. QED
    BY <1>3, <1>6, <2>1
<1>7. QED
  BY <1>3, <1>5, <1>6


-----------------------------------------------------------------------------
(***************************************************************************)
(* The server publishes every descriptor before any worker sees a marker.   *)
(***************************************************************************)
Early ==
    enq.step \in {"inputs", "shard"} =>
        /\ marker = {} /\ \A w \in Workers : pc[w] = "idle"
        /\ \A k \in Shards : k >= enq.k => shard[k] = NoShard

\* A worker at rest has nothing to do without a marker.
LEMMA IdleNeedsMarker ==
    ASSUME NEW w \in Workers, Worker(w), pc[w] = "idle"
    PROVE  marker # {}
BY DEF Worker, Claim, Run, ListMarkers, ScanEnds, SkipLeased, FindStale, FindPoisoned,
       FindClaimable, Try, PoisonPut, DropMarker, ClaimPut, ReadBack, Load, LoadFails,
       PrepareFails, StopMidShard, ReleasePut, Probe, RenderOk, RenderFails, PutMeta,
       NoHeartbeat, Heartbeat, Abandon, Renew, PutResults, FinishPut, ClearMarker

\* The server alone moves on, one descriptor at a time, and keeps its markers
\* for last.
LEMMA ServerEarly == TypeInv /\ Early /\ Server => Early'
<1> SUFFICES ASSUME TypeInv, Early, NEW o \in Outcomes, Enqueue(o) PROVE Early'
  BY DEF Server
<1>1. /\ enq \in EnqueueStates /\ enq.k \in Nat /\ EnqueueAt
      /\ shard \in [Shards -> Descriptor] /\ NumShards \in Nat
  BY NumShardsNat DEF TypeInv, TypeOK, BucketTypeOK, Position, EnqueueStates
<1>2. UNCHANGED pc
  BY ServerWrites DEF Server, scanVars
<1>3. CASE PutInputs(o)
  <2>1. /\ enq.step = "inputs" /\ UNCHANGED <<marker, shard>>
        /\ enq'.step = "failed" \/ (enq'.step = "shard" /\ enq'.k = enq.k)
    BY <1>1, <1>3, GoesToFacts DEF PutInputs, docVars
  <2>2. QED
    BY <1>2, <2>1 DEF Early
<1>4. CASE PutNewShard(o)
  <2>1. /\ enq.step = "shard" /\ UNCHANGED marker /\ enq.k < NumShards
        /\ EnqueueGoesTo("inputs", enq.k + 1, o) /\ enq.k + 1 \in Nat
        /\ shard' = shard \/ shard' = [shard EXCEPT ![enq.k] = NewShard]
    BY <1>1, <1>4 DEF PutNewShard, EnqueueAt, Write
  <2>2. enq'.step = "failed" \/ (enq'.step = "inputs" /\ enq'.k = enq.k + 1)
    BY <1>1, <2>1, GoesToFacts
  <2>3. ASSUME NEW k \in Shards, k >= enq.k + 1 PROVE shard'[k] = NoShard
    <3>1. k \in Nat /\ k >= enq.k /\ k # enq.k
      BY <1>1, <2>3, ShardBounds
    <3>2. shard'[k] = shard[k]
      BY <1>1, <2>1, <3>1
    <3>3. QED
      BY <2>1, <3>1, <3>2 DEF Early
  <2>4. QED
    BY <1>2, <2>1, <2>2, <2>3 DEF Early
<1>5. CASE PutJob(o) \/ PutMarker(o)
  <2>1. enq'.step \in {"marker", "failed"}
    <3>1. CASE PutJob(o)
      BY <1>1, <3>1, GoesToFacts DEF PutJob
    <3>2. CASE PutMarker(o)
      <4>1. EnqueueGoesTo("marker", enq.k + 1, o) /\ enq.k + 1 \in Nat
        BY <1>1, <3>2 DEF PutMarker
      <4>2. QED
        BY <1>1, <4>1, GoesToFacts
    <3>3. QED
      BY <1>5, <3>1, <3>2
  <2>2. QED
    BY <2>1 DEF Early
<1>6. QED
  BY <1>3, <1>4, <1>5 DEF Enqueue

\* Nobody else has anything to do before the first marker.
LEMMA NextEarly == TypeInv /\ Early /\ [Next]_vars => Early'
<1> SUFFICES ASSUME TypeInv, Early, [Next]_vars PROVE Early'
  OBVIOUS
<1>1. CASE Server
  BY <1>1, ServerEarly
<1>2. ASSUME NEW w \in Workers, Worker(w) PROVE Early'
  <2>1. UNCHANGED enq
    BY <1>2, WorkerSteps DEF Writes
  <2>2. ~(enq.step \in {"inputs", "shard"})
    BY <1>2, IdleNeedsMarker DEF Early
  <2>3. QED
    BY <2>1, <2>2 DEF Early
<1>3. ASSUME NEW k \in Shards, LeaseLapses(k) PROVE Early'
  <2>1. /\ UNCHANGED <<marker, enq, pc>> /\ shard[k].lease = "live"
        /\ shard' = [shard EXCEPT ![k].lease = "lapsed"]
    BY <1>3 DEF LeaseLapses, scanVars
  <2>2. ASSUME NEW j \in Shards, shard[j] = NoShard PROVE shard'[j] = NoShard
    <3>1. j # k
      BY <2>1, <2>2 DEF NoShard
    <3>2. shard \in [Shards -> Descriptor]
      BY DEF TypeInv, TypeOK, BucketTypeOK
    <3>3. QED
      BY <2>1, <2>2, <3>1, <3>2
  <2>3. QED
    BY <2>1, <2>2 DEF Early
<1>4. ASSUME NEW w \in Workers, Crash(w) PROVE Early'
  BY <1>4 DEF Crash, Early
<1>5. ASSUME NEW w \in Workers, SignalStop(w) \/ Restart(w) PROVE Early'
  BY <1>5 DEF SignalStop, Restart, Early, docVars, scanVars
<1>6. CASE UNCHANGED vars
  BY <1>6 DEF Early, vars, docVars, scanVars
<1>7. QED
  BY <1>1, <1>2, <1>3, <1>4, <1>5, <1>6 DEF Next, Environment

\* There is nothing yet.
LEMMA InitEarly == Init => Early
BY DEF Init, Early

\* No worker is busy and no marker is stored before the last descriptor is.
THEOREM SpecEarly == Spec => []Early
BY InitEarly, NextEarly, SpecTypeInv, PTL DEF Spec

-----------------------------------------------------------------------------
(***************************************************************************)
(* OutstandingAttended: however many workers take leases from each other,   *)
(* a running shard is in the hands of the worker its descriptor names.      *)
(***************************************************************************)
\* No call fails, no worker dies or is told to stop, every template loads.
Calm == MaxFaults = 0 /\ MaxCrashes = 0 /\ MaxStops = 0 /\ TemplateMayFail = FALSE

\* No call can fail any more, and none has.
Faultless == faults = 0 /\ enq.step # "failed"

Quiet == Faultless /\ crashes = 0 /\ stops = 0 /\ \A w \in Workers : stop[w] = FALSE

Owning == {"readback", "load", "item", "render", "meta_ok", "meta_failed", "beat", "renew",
           "results"}

\* What worker w has in hand.
Hand(w) ==
    /\ pc[w] # "release"
    /\ pc[w] # "idle" => enq.step = "marker"
    /\ pc[w] \in Owning \cup {"claim"} => local[w].owner = w /\ local[w].status = "running"
    /\ pc[w] = "poison" => local[w].status = "failed"
    /\ pc[w] = "finish" => local[w].status = "done"

Owner(k, w) == cur[w] = k /\ pc[w] \in Owning \cup {"finish"}

Attended ==
    /\ \A w \in Workers : Hand(w)
    /\ \A w \in Workers : pc[w] \in {"drop", "clear"} => shard[cur[w]].status # "pending"
    /\ \A k \in Shards :
          shard[k].status = "running" => shard[k].owner \in Workers /\ Owner(k, shard[k].owner)
    /\ enq.step = "marker" =>
          \A k \in Shards : k < enq.k /\ shard[k].status = "pending" => k \in marker

\* A bucket that has no failed call left never fails enqueue_batch_job.
LEMMA NextFaultless == TypeInv /\ Faultless /\ [Next]_vars => Faultless'
<1> SUFFICES ASSUME TypeInv, Faultless, [Next]_vars PROVE Faultless'
  OBVIOUS
<1>1. CASE Server
  <2>1. PICK o \in Outcomes :
            S3(o) /\ \E step \in {"inputs", "shard", "marker"} : \E k : EnqueueGoesTo(step, k, o)
    BY <1>1 DEF Server, Enqueue, PutInputs, PutNewShard, PutJob, PutMarker
  <2>2. faults = 0 /\ o = "ok" /\ UNCHANGED faults
    BY <2>1 DEF S3, Faultless
  <2>3. enq'.step # "failed"
    BY <2>1, <2>2 DEF EnqueueGoesTo
  <2>4. QED
    BY <2>2, <2>3 DEF Faultless
<1>2. ASSUME NEW w \in Workers, Worker(w) PROVE Faultless'
  BY <1>2, WorkerSteps DEF Writes, Faultless
<1>3. ASSUME NEW k \in Shards, LeaseLapses(k) PROVE Faultless'
  BY <1>3 DEF LeaseLapses, Faultless
<1>4. ASSUME NEW w \in Workers, Crash(w) \/ SignalStop(w) \/ Restart(w) PROVE Faultless'
  BY <1>4 DEF Crash, SignalStop, Restart, Faultless
<1>5. CASE UNCHANGED vars
  BY <1>5 DEF Faultless, vars
<1>6. QED
  BY <1>1, <1>2, <1>3, <1>4, <1>5 DEF Next, Environment

\* On reliable storage no call ever fails, and enqueue_batch_job comes to its
\* end.
THEOREM SpecFaultless == ASSUME MaxFaults = 0 PROVE Spec => []Faultless
<1>1. Init => Faultless
  BY DEF Init, Faultless
<1>2. QED
  BY <1>1, NextFaultless, SpecTypeInv, PTL DEF Spec

\* Nothing that was ruled out at the start happens later.
LEMMA NextQuiet == TypeInv /\ Quiet /\ [Next]_vars => Quiet'
<1> SUFFICES ASSUME TypeInv, Quiet, [Next]_vars PROVE Quiet'
  OBVIOUS
<1>0. Faultless'
  BY NextFaultless DEF Quiet
<1>1. CASE Server
  BY <1>0, <1>1 DEF Server, Enqueue, PutInputs, PutNewShard, PutJob, PutMarker, Quiet, envVars
<1>2. ASSUME NEW w \in Workers, Worker(w) PROVE Quiet'
  BY <1>0, <1>2, WorkerSteps DEF Writes, Quiet, envVars
<1>3. ASSUME NEW k \in Shards, LeaseLapses(k) PROVE Quiet'
  BY <1>0, <1>3 DEF LeaseLapses, Quiet, envVars
<1>4. ASSUME NEW w \in Workers, Crash(w) \/ SignalStop(w) \/ Restart(w) PROVE Quiet'
  BY <1>0, <1>4 DEF Crash, SignalStop, Restart, Quiet
<1>5. CASE UNCHANGED vars
  BY <1>0, <1>5 DEF Quiet, vars, envVars
<1>6. QED
  BY <1>1, <1>2, <1>3, <1>4, <1>5 DEF Next, Environment

\* The bounds are the budgets of failures.
LEMMA InitQuiet == Calm /\ Init => Quiet
BY DEF Calm, Init, Quiet, Faultless

\* Every call succeeds then.
LEMMA CallSucceeds == ASSUME Faultless, NEW o, S3(o) PROVE o = "ok"
BY DEF Faultless, S3

\* What is in a worker's hands, after a step of its own.
LEMMA ClaimHand ==
    ASSUME Calm, TypeInv, Published, Quiet, NEW w \in Workers, Hand(w), NEW o \in Outcomes,
           Claim(w, o), enq.step = "marker"
    PROVE  Hand(w)'
<1>1. /\ WorkerTypeOK /\ shard \in [Shards -> Descriptor] /\ UNCHANGED enq
      /\ \A k \in Shards : shard[k] \in Descriptor
  BY ClaimWrites DEF TypeInv, TypeOK, BucketTypeOK, Writes
<1>2. ASSUME NEW k \in Shards
      PROVE  /\ Poisoned(shard[k]).status = "failed"
             /\ Claimed(shard[k], w).status = "running" /\ Claimed(shard[k], w).owner = w
  <2>1. shard[k] \in Descriptor
    BY <1>1
  <2>2. Claimed(shard[k], w).owner = w
    BY <2>1 DEF Claimed, Descriptor
  <2>3. QED
    BY <2>1, <2>2, PoisonedFacts, ClaimedFacts
<1>3. CASE ListMarkers(w) \/ ScanEnds(w)
  BY <1>1, <1>3, ReturnFacts DEF ListMarkers, ScanEnds, Hand, Goto, WorkerTypeOK, Owning
<1>4. ASSUME NEW k \in Shards,
             SkipLeased(w, k) \/ FindStale(w, k, o) \/ FindPoisoned(w, k) \/ FindClaimable(w, k)
      PROVE  Hand(w)'
  BY <1>1, <1>2, <1>4
     DEF SkipLeased, FindStale, FindPoisoned, FindClaimable, Try, Goto, Keep, Hand,
         WorkerTypeOK, Owning
<1>5. CASE PoisonPut(w, o) \/ DropMarker(w, o)
  BY <1>1, <1>5 DEF PoisonPut, DropMarker, Goto, Hand, WorkerTypeOK, Owning
<1>6. CASE ClaimPut(w, o) \/ ReadBack(w, o)
  BY <1>1, <1>6, ReturnFacts DEF ClaimPut, ReadBack, Goto, Keep, Hand, WorkerTypeOK, Owning
<1>7. QED
  BY <1>3, <1>4, <1>5, <1>6 DEF Claim

\* run_claimed_shard keeps its own copy Running and owned, until the copy it
\* writes last.
LEMMA RunHand ==
    ASSUME Calm, TypeInv, Published, Quiet, NEW w \in Workers, Hand(w), NEW o \in Outcomes,
           Run(w, o), enq.step = "marker"
    PROVE  Hand(w)'
<1>1. WorkerTypeOK /\ UNCHANGED enq /\ stop[w] = FALSE
  BY RunWrites DEF TypeInv, TypeOK, Writes, Quiet
<1>2. /\ local[w] \in Descriptor /\ done[w] \in Nat /\ failed[w] \in Nat
  BY <1>1 DEF WorkerTypeOK
<1>3. /\ Counted(local[w], done[w], failed[w]).status = local[w].status
      /\ Counted(local[w], done[w], failed[w]).owner = local[w].owner
      /\ Finished(local[w], done[w], failed[w]).status = "done"
  <2>1. Counted(local[w], done[w], failed[w]).status = local[w].status
    BY <1>2, CountedFacts
  <2>2. Counted(local[w], done[w], failed[w]).owner = local[w].owner
    BY <1>2 DEF Counted, Descriptor
  <2>3. QED
    BY <1>2, <2>1, <2>2, FinishedFacts
<1>4. CASE \/ Load(w) \/ LoadFails(w) \/ Abandon(w) \/ ClearMarker(w, o) \/ NoHeartbeat(w)
           \/ Renew(w, o) \/ RenderFails(w)
  BY <1>1, <1>4, ReturnFacts
     DEF Load, LoadFails, Abandon, ClearMarker, NoHeartbeat, Renew, RenderFails, AfterItem,
         Goto, Hand, WorkerTypeOK, Owning
<1>5. CASE PrepareFails(w) \/ StopMidShard(w) \/ ReleasePut(w, o)
  BY <1>1, <1>5 DEF PrepareFails, StopMidShard, ReleasePut, Calm, Hand
<1>6. CASE Probe(w, o) \/ RenderOk(w, o) \/ PutMeta(w, o)
  BY <1>1, <1>6 DEF Probe, RenderOk, PutMeta, Count, Goto, Hand, WorkerTypeOK, Owning
<1>7. CASE Heartbeat(w)
  BY <1>1, <1>3, <1>7 DEF Heartbeat, Goto, Keep, Hand, WorkerTypeOK, Owning
<1>8. CASE PutResults(w, o) \/ FinishPut(w, o)
  BY <1>1, <1>3, <1>8, ReturnFacts
     DEF PutResults, FinishPut, Goto, Keep, Hand, WorkerTypeOK, Owning
<1>9. QED
  BY <1>4, <1>5, <1>6, <1>7, <1>8 DEF Run

\* A worker that is named as the owner goes on with its shard to the end.
LEMMA OwnerStays ==
    ASSUME Calm, TypeInv, Published, Quiet, NEW w \in Workers, Worker(w), Hand(w),
           NEW k \in Shards, Owner(k, w), shard[k].owner = w
    PROVE  Owner(k, w)' \/ pc[w] = "finish"
<1> PICK o \in Outcomes : Claim(w, o) \/ Run(w, o)
  BY DEF Worker
<1>1. /\ WorkerTypeOK /\ stop[w] = FALSE /\ cur[w] = k
      /\ pc[w] \in Owning \cup {"finish"}
      /\ job /\ k \in inputs
  BY DEF TypeInv, TypeOK, Quiet, Owner, Hand, Owning, Published, Ready
<1>2. CASE Claim(w, o)
  <2>1. ReadBack(w, o)
    BY <1>1, <1>2
       DEF Owning, Claim, ListMarkers, ScanEnds, SkipLeased, FindStale, FindPoisoned,
           FindClaimable, Try, PoisonPut, DropMarker, ClaimPut
  <2>2. o = "ok"
    BY <2>1, CallSucceeds DEF Quiet, ReadBack
  <2>3. QED
    BY <1>1, <2>1, <2>2 DEF ReadBack, Goto, WorkerTypeOK, Owner, Owning
<1>3. CASE Load(w) \/ NoHeartbeat(w) \/ Renew(w, o) \/ RenderFails(w) \/ Heartbeat(w)
  BY <1>1, <1>3
     DEF Load, NoHeartbeat, Renew, RenderFails, Heartbeat, AfterItem, Goto, WorkerTypeOK,
         Owner, Owning
<1>4. CASE LoadFails(w)
  BY <1>1, <1>4, CallSucceeds DEF Quiet, LoadFails
<1>5. CASE PrepareFails(w) \/ StopMidShard(w) \/ ReleasePut(w, o) \/ Abandon(w) \/ ClearMarker(w, o)
  BY <1>1, <1>5
     DEF PrepareFails, StopMidShard, ReleasePut, Abandon, ClearMarker, Calm, Owning
<1>6. CASE Probe(w, o) \/ RenderOk(w, o) \/ PutMeta(w, o)
  BY <1>1, <1>6 DEF Probe, RenderOk, PutMeta, Count, Goto, WorkerTypeOK, Owner, Owning
<1>7. CASE PutResults(w, o)
  <2>1. o = "ok"
    BY <1>7, CallSucceeds DEF Quiet, PutResults
  <2>2. QED
    BY <1>1, <1>7, <2>1 DEF PutResults, Goto, WorkerTypeOK, Owner, Owning
<1>8. CASE FinishPut(w, o)
  BY <1>8 DEF FinishPut
<1>9. QED
  BY <1>2, <1>3, <1>4, <1>5, <1>6, <1>7, <1>8 DEF Run

\* What a step of a worker puts, and to which shard.
LEMMA PutsFacts ==
    ASSUME Calm, TypeInv, Quiet, NEW w \in Workers, Worker(w), Hand(w), shard' # shard
    PROVE  /\ cur[w] \in Shards /\ shard' = [shard EXCEPT ![cur[w]] = local[w]]
           /\ local[w].status # "pending"
           /\ local[w].status = "running" => local[w].owner = w /\ pc'[w] \in Owning /\ cur'[w] = cur[w]
<1> PICK o \in Outcomes : Claim(w, o) \/ Run(w, o)
  BY DEF Worker
<1>1. /\ WorkerTypeOK /\ Writes(w) /\ At(w) /\ pc[w] \in Writing
      /\ shard' = [shard EXCEPT ![cur[w]] = local[w]]
  BY WorkerSteps DEF TypeInv, TypeOK, Position, Writes
<1>2. cur[w] \in Shards
  BY <1>1 DEF At, AtRest, Writing
<1>3. local[w].status # "pending"
  BY <1>1 DEF Hand, Writing, Owning
<1>4. ASSUME local[w].status = "running"
      PROVE  local[w].owner = w /\ pc'[w] \in Owning /\ cur'[w] = cur[w]
  <2>1. pc[w] \in {"claim", "renew"} /\ local[w].owner = w
    BY <1>1, <1>4 DEF Hand, Writing, Owning
  <2>2. CASE ClaimPut(w, o)
    <3>1. o = "ok"
      BY <2>2, CallSucceeds DEF Quiet, ClaimPut
    <3>2. QED
      BY <1>1, <2>1, <2>2, <3>1 DEF ClaimPut, Goto, WorkerTypeOK, Owner, Owning
  <2>3. CASE Renew(w, o)
    BY <1>1, <2>1, <2>3 DEF Renew, AfterItem, Goto, WorkerTypeOK, Owner, Owning
  <2>4. QED
    BY <2>1, <2>2, <2>3
       DEF Claim, ListMarkers, ScanEnds, SkipLeased, FindStale, FindPoisoned, FindClaimable,
           Try, PoisonPut, DropMarker, ReadBack, Run, Load, LoadFails, PrepareFails,
           StopMidShard, ReleasePut, Probe, RenderOk, RenderFails, PutMeta, NoHeartbeat,
           Heartbeat, Abandon, PutResults, FinishPut, ClearMarker
<1>5. QED
  BY <1>1, <1>2, <1>3, <1>4

\* A worker that finishes a shard leaves no descriptor behind that names it.
LEMMA FinishPuts ==
    ASSUME Calm, TypeInv, Quiet, NEW w \in Workers, Worker(w), Hand(w), pc[w] = "finish"
    PROVE  shard' = [shard EXCEPT ![cur[w]] = local[w]]
<1> PICK o \in Outcomes : Claim(w, o) \/ Run(w, o)
  BY DEF Worker
<1>1. FinishPut(w, o)
  BY DEF Claim, ListMarkers, ScanEnds, SkipLeased, FindStale, FindPoisoned, FindClaimable,
         Try, PoisonPut, DropMarker, ClaimPut, ReadBack, Run, Load, LoadFails, PrepareFails,
         StopMidShard, ReleasePut, Probe, RenderOk, RenderFails, PutMeta, NoHeartbeat,
         Heartbeat, Abandon, Renew, PutResults, ClearMarker
<1>2. o = "ok"
  BY <1>1, CallSucceeds DEF Quiet, FinishPut
<1>3. QED
  BY <1>1, <1>2 DEF FinishPut, PutLocal, Write

\* Markers are dropped of shards that nobody waits for.
LEMMA DropsFacts ==
    ASSUME TypeInv, Faultless, NEW w \in Workers, Worker(w),
           pc[w] # "idle" => \A k \in Shards : Stored(shard[k]),
           pc[w] = "poison" => local[w].status = "failed",
           pc[w] = "finish" => local[w].status = "done"
    PROVE  /\ marker' = marker \/ (pc[w] \in {"drop", "clear"} /\ marker' = marker \ {cur[w]})
           /\ pc'[w] \in {"drop", "clear"} =>
                 shard'[cur'[w]].status \in {"done", "failed"}
<1> PICK o \in Outcomes : Claim(w, o) \/ Run(w, o)
  BY DEF Worker
<1>1. WorkerTypeOK /\ At(w) /\ shard \in [Shards -> Descriptor]
  BY DEF TypeInv, TypeOK, BucketTypeOK, Position
<1>2. marker' = marker \/ (pc[w] \in {"drop", "clear"} /\ marker' = marker \ {cur[w]})
  BY DEF Claim, ListMarkers, ScanEnds, SkipLeased, FindStale, FindPoisoned, FindClaimable,
         Try, PoisonPut, DropMarker, ClaimPut, ReadBack, Run, Load, LoadFails, PrepareFails,
         StopMidShard, ReleasePut, Probe, RenderOk, RenderFails, PutMeta, NoHeartbeat,
         Heartbeat, Abandon, Renew, PutResults, FinishPut, ClearMarker, docVars, Write
<1>3. ASSUME pc'[w] \in {"drop", "clear"}
      PROVE  shard'[cur'[w]].status \in {"done", "failed"}
  <2>1. ASSUME NEW k \in Shards, FindStale(w, k, o)
        PROVE  shard'[cur'[w]].status \in {"done", "failed"}
    <3>1. o = "ok"
      BY <2>1, CallSucceeds DEF FindStale
    <3>2. Terminal(shard[k]) /\ cur'[w] = k /\ shard' = shard
      BY <1>1, <2>1, <3>1 DEF FindStale, Try, WorkerTypeOK, docVars
    <3>3. QED
      BY <3>2 DEF Terminal
  <2>2. CASE PoisonPut(w, o)
    <3>1. o = "ok"
      BY <2>2, CallSucceeds DEF PoisonPut
    <3>2. /\ cur[w] \in Shards /\ local[w].status = "failed" /\ cur'[w] = cur[w]
          /\ shard' = [shard EXCEPT ![cur[w]] = local[w]]
      BY <1>1, <2>2, <3>1 DEF PoisonPut, PutLocal, Write, At, AtRest
    <3>3. QED
      BY <1>1, <3>2
  <2>3. CASE FinishPut(w, o)
    <3>1. o = "ok"
      BY <2>3, CallSucceeds DEF FinishPut
    <3>2. /\ cur[w] \in Shards /\ local[w].status = "done" /\ cur'[w] = cur[w]
          /\ shard' = [shard EXCEPT ![cur[w]] = local[w]]
      BY <1>1, <2>3, <3>1 DEF FinishPut, PutLocal, Write, At, AtRest
    <3>3. QED
      BY <1>1, <3>2
  <2>4. ASSUME ~PoisonPut(w, o), \A k \in Shards : ~FindStale(w, k, o)
        PROVE  ~Claim(w, o)
    BY <1>1, <1>3, <2>4, ReturnFacts
       DEF Claim, ListMarkers, ScanEnds, SkipLeased, FindPoisoned, FindClaimable,
           Try, DropMarker, ClaimPut, ReadBack, Goto, WorkerTypeOK
  <2>5. ASSUME ~FinishPut(w, o)
        PROVE  ~Run(w, o)
    BY <1>1, <1>3, <2>5, ReturnFacts
       DEF Run, Load, LoadFails, PrepareFails, StopMidShard, ReleasePut, Probe, RenderOk,
           RenderFails, PutMeta, Count, NoHeartbeat, Heartbeat, Abandon, Renew, PutResults,
           ClearMarker, AfterItem, Goto, WorkerTypeOK
  <2>6. QED
    BY <2>1, <2>2, <2>3, <2>4, <2>5
<1>4. QED
  BY <1>2, <1>3

\* A worker that takes a shard over from another owns it by what it writes, and
\* the other sees that at its next heartbeat; a marker goes after the shard was
\* seen or made terminal.
LEMMA WorkerAttended ==
    ASSUME Calm, TypeInv, Published, Early, Quiet, Attended, NEW w \in Workers, Worker(w)
    PROVE  Attended'
<1>1. /\ Writes(w) /\ Moves(w) /\ Hand(w) /\ UNCHANGED enq
      /\ shard \in [Shards -> Descriptor] /\ \A v \in Workers : At(v)
  BY WorkerSteps DEF TypeInv, TypeOK, BucketTypeOK, Position, Attended, Writes
<1>2. enq.step = "marker"
  BY <1>1, IdleNeedsMarker DEF Hand, Early, Quiet, Faultless, TypeInv, TypeOK
<1>3. /\ Faultless /\ \A k \in Shards : Stored(shard[k])
      /\ pc[w] = "poison" => local[w].status = "failed"
      /\ pc[w] = "finish" => local[w].status = "done"
      /\ Hand(w)'
  BY <1>1, <1>2, ClaimHand, RunHand DEF Worker, Hand, Quiet, Published, Ready
<1>4. ASSUME NEW v \in Workers PROVE Hand(v)'
  BY <1>1, <1>3, <1>4 DEF Moves, Same, Hand, Attended
<1>5. ASSUME NEW k \in Shards, shard'[k].status = "pending"
      PROVE  shard[k].status = "pending" /\ shard'[k] = shard[k]
  BY <1>1, <1>5, PutsFacts
<1>6. ASSUME NEW v \in Workers, pc'[v] \in {"drop", "clear"}
      PROVE  shard'[cur'[v]].status # "pending"
  <2>1. CASE v = w
    BY <1>1, <1>3, <1>6, <2>1, DropsFacts
  <2>2. CASE v # w
    <3>1. pc'[v] = pc[v] /\ cur'[v] = cur[v] /\ cur[v] \in Shards
      BY <1>1, <1>6, <2>2 DEF Moves, Same, At, AtRest
    <3>2. QED
      BY <1>5, <1>6, <3>1 DEF Attended
  <2>3. QED
    BY <2>1, <2>2
<1>7. ASSUME NEW k \in Shards, shard'[k].status = "running"
      PROVE  shard'[k].owner \in Workers /\ Owner(k, shard[k].owner)'
  <2>1. CASE shard'[k] = shard[k]
    <3>1. PICK v \in Workers : v = shard[k].owner /\ Owner(k, v)
      BY <1>7, <2>1 DEF Attended
    <3>2. CASE v # w
      BY <1>1, <2>1, <3>1, <3>2 DEF Moves, Same, Owner
    <3>3. CASE v = w
      <4>1. CASE pc[w] = "finish"
        <5>1. shard' = [shard EXCEPT ![k] = local[w]] /\ local[w].status = "done"
          BY <1>1, <3>1, <3>3, <4>1, FinishPuts DEF Owner, Hand
        <5>2. QED
          BY <1>1, <1>7, <5>1
      <4>2. QED
        BY <1>1, <2>1, <3>1, <3>3, <4>1, OwnerStays
    <3>4. QED
      BY <3>2, <3>3
  <2>2. CASE shard'[k] # shard[k]
    <3>1. /\ cur[w] \in Shards /\ shard' = [shard EXCEPT ![cur[w]] = local[w]]
          /\ local[w].status = "running" => local[w].owner = w /\ pc'[w] \in Owning /\ cur'[w] = cur[w]
      BY <1>1, <2>2, PutsFacts
    <3>2. cur[w] = k /\ shard'[k] = local[w]
      BY <1>1, <2>2, <3>1
    <3>3. shard'[k].owner = w /\ pc'[w] \in Owning /\ cur'[w] = k
      BY <1>7, <3>1, <3>2
    <3>4. QED
      BY <3>3 DEF Owner
  <2>3. QED
    BY <2>1, <2>2
<1>8. ASSUME NEW k \in Shards, k < enq.k, shard'[k].status = "pending"
      PROVE  k \in marker'
  <2>1. k \in marker
    BY <1>2, <1>5, <1>8 DEF Attended
  <2>2. pc[w] \in {"drop", "clear"} => k # cur[w]
    BY <1>5, <1>8 DEF Attended
  <2>3. QED
    BY <1>1, <1>3, <2>1, <2>2, DropsFacts
<1>9. QED
  BY <1>1, <1>4, <1>6, <1>7, <1>8 DEF Attended

\* Markers are put one by one, each for a shard that waits.
LEMMA ServerAttended ==
    ASSUME TypeInv, Published, Early, Quiet, Attended, Server
    PROVE  Attended'
<1> PICK o \in Outcomes : Enqueue(o)
  BY DEF Server
<1>1. /\ enq \in EnqueueStates /\ enq.k \in Nat /\ EnqueueAt /\ NumShards \in Nat
      /\ shard \in [Shards -> Descriptor]
      /\ UNCHANGED <<pc, todo, cur, local>>
  BY NumShardsNat, ServerWrites
     DEF Server, TypeInv, TypeOK, BucketTypeOK, Position, EnqueueStates, scanVars
<1>2. \A w \in Workers : pc[w] # "idle" => enq.step = "marker"
  BY DEF Attended, Hand
<1>3. CASE PutInputs(o)
  <2>1. enq.step = "inputs" /\ enq'.step # "marker" /\ UNCHANGED <<shard, marker>>
    BY <1>1, <1>3, GoesToFacts DEF PutInputs, docVars
  <2>2. \A w \in Workers : pc[w] = "idle"
    BY <1>2, <2>1
  <2>3. QED
    BY <1>1, <2>1, <2>2 DEF Attended, Hand, Owner
<1>4. CASE PutNewShard(o)
  <2>1. /\ enq.step = "shard" /\ UNCHANGED marker /\ enq.k + 1 \in Nat
        /\ EnqueueGoesTo("inputs", enq.k + 1, o)
        /\ shard' = shard \/ shard' = [shard EXCEPT ![enq.k] = NewShard]
    BY <1>1, <1>4 DEF PutNewShard, Write
  <2>2. enq'.step # "marker"
    BY <1>1, <2>1, GoesToFacts
  <2>3. \A w \in Workers : pc[w] = "idle"
    BY <1>2, <2>1
  <2>4. ASSUME NEW k \in Shards, shard'[k].status = "running"
        PROVE  FALSE
    <3>1. shard'[k] = shard[k] \/ shard'[k] = NewShard
      BY <1>1, <2>1
    <3>2. shard[k].status = "running"
      BY <2>4, <3>1 DEF NewShard
    <3>3. PICK w \in Workers : pc[w] \in Owning \cup {"finish"}
      BY <3>2 DEF Attended, Owner
    <3>4. QED
      BY <2>3, <3>3 DEF Owning
  <2>5. QED
    BY <1>1, <2>1, <2>2, <2>3, <2>4 DEF Attended, Hand, Owner, Owning
<1>5. CASE PutJob(o)
  <2>1. /\ enq.step = "inputs" /\ UNCHANGED <<shard, marker>>
        /\ enq'.step = "failed" \/ enq'.k = 0
    BY <1>1, <1>5, GoesToFacts DEF PutJob, docVars
  <2>2. \A w \in Workers : pc[w] = "idle"
    BY <1>2, <2>1
  <2>3. \A k \in Shards : ~(k < 0)
    BY ShardBounds
  <2>4. QED
    BY <1>1, <2>1, <2>2, <2>3 DEF Attended, Hand, Owner, Owning
<1>6. CASE PutMarker(o)
  <2>1. o = "ok"
    BY <1>6, CallSucceeds DEF Quiet, PutMarker
  <2>2. /\ enq.step = "marker" /\ UNCHANGED shard /\ marker' = marker \cup {enq.k}
        /\ enq' = [step |-> "marker", k |-> enq.k + 1]
    BY <1>6, <2>1 DEF PutMarker, Write, EnqueueGoesTo
  <2>3. ASSUME NEW k \in Shards, k < enq'.k, shard'[k].status = "pending"
        PROVE  k \in marker'
    <3>1. k \in Nat /\ k < enq.k + 1
      BY <2>2, <2>3, ShardBounds
    <3>2. k = enq.k \/ k < enq.k
      BY <1>1, <3>1
    <3>3. QED
      BY <2>2, <2>3, <3>2 DEF Attended
  <2>4. QED
    BY <1>1, <2>2, <2>3 DEF Attended, Hand, Owner
<1>7. QED
  BY <1>3, <1>4, <1>5, <1>6 DEF Enqueue

\* The clock takes leases away, never the owner's name.
LEMMA NextAttended ==
    Calm /\ TypeInv /\ Published /\ Early /\ Quiet /\ Attended /\ [Next]_vars => Attended'
<1> SUFFICES ASSUME Calm, TypeInv, Published, Early, Quiet, Attended, [Next]_vars
             PROVE  Attended'
  OBVIOUS
<1>1. CASE Server
  BY <1>1, ServerAttended
<1>2. ASSUME NEW w \in Workers, Worker(w) PROVE Attended'
  BY <1>2, WorkerAttended
<1>3. ASSUME NEW k \in Shards, LeaseLapses(k) PROVE Attended'
  <2>1. /\ UNCHANGED <<marker, enq, pc, cur, local>>
        /\ shard' = [shard EXCEPT ![k].lease = "lapsed"]
        /\ shard \in [Shards -> Descriptor]
    BY <1>3 DEF LeaseLapses, scanVars, TypeInv, TypeOK, BucketTypeOK
  <2>2. ASSUME NEW j \in Shards
        PROVE  shard'[j].status = shard[j].status /\ shard'[j].owner = shard[j].owner
    BY <2>1 DEF Descriptor
  <2>3. \A w \in Workers : pc[w] \in {"drop", "clear"} => cur[w] \in Shards
    BY DEF TypeInv, Position, At, AtRest
  <2>4. QED
    BY <2>1, <2>2, <2>3 DEF Attended, Hand, Owner
<1>4. ASSUME NEW w \in Workers, Crash(w) PROVE Attended'
  BY <1>4 DEF Crash, Quiet
<1>5. ASSUME NEW w \in Workers, SignalStop(w) \/ Restart(w) PROVE Attended'
  BY <1>5 DEF SignalStop, Restart, Quiet
<1>6. CASE UNCHANGED vars
  BY <1>6 DEF Attended, Hand, Owner, vars, docVars, scanVars
<1>7. QED
  BY <1>1, <1>2, <1>3, <1>4, <1>5, <1>6 DEF Next, Environment

\* No shard is running, no marker is due.
LEMMA InitAttended == Init => Attended
BY DEF Init, Attended, Hand, Owning, NoShard

\* While nothing fails and nobody dies, any number of workers may take shards
\* from each other (claim_next_shard, heartbeat_shard): a shard that still
\* needs work has its marker or a worker that goes on with it.
THEOREM SpecOutstandingAttended ==
    ASSUME Calm
    PROVE  Spec => []OutstandingAttended
<1>1. Init => Quiet
  BY InitQuiet
<1>2. TypeInv /\ Quiet /\ [Next]_vars => Quiet'
  BY NextQuiet
<1>3. TypeInv /\ Published /\ Early /\ Quiet /\ Attended /\ [Next]_vars => Attended'
  BY NextAttended
<1>4. Spec => [](Quiet /\ Attended)
  BY <1>1, <1>2, <1>3, InitAttended, SpecTypeInv, SpecPublished, SpecEarly, PTL DEF Spec
<1>5. TypeInv /\ Published /\ Attended => OutstandingAttended
  <2> SUFFICES ASSUME TypeInv, Published, Attended, Enqueued, NEW k \in Shards,
                      ~Terminal(shard[k]), k \notin marker
               PROVE  \E w \in Workers : /\ cur[w] = k /\ shard[k].owner = w
                                         /\ pc[w] \notin {"idle", "scan", "drop", "poison", "release"}
    BY DEF OutstandingAttended
  <2>1. Stored(shard[k]) /\ shard[k] \in Descriptor /\ k < enq.k /\ enq.step = "marker"
    BY NumShardsNat DEF Enqueued, Published, Ready, Shards, TypeInv, TypeOK, BucketTypeOK
  <2>2. shard[k].status = "running"
    BY <2>1 DEF Stored, Terminal, Descriptor, Attended
  <2>3. QED
    BY <2>2 DEF Attended, Owner, Owning
<1>6. QED
  BY <1>4, <1>5, SpecTypeInv, SpecPublished, PTL

-----------------------------------------------------------------------------
(***************************************************************************)
(* One worker: nobody touches a shard that it has in hand, so its copy of   *)
(* the descriptor stays one step ahead of the stored one.                   *)
(***************************************************************************)
OneWorker == \A v, w \in Workers : v = w

\* The step p of a worker, its copy d of a descriptor, and the stored one, s.
Ahead(p, d, s) ==
    /\ p = "claim" => s.status \in {"pending", "running"} /\ d.status = "running"
                      /\ d.attempts = s.attempts + 1
    /\ p = "poison" => s.status \in {"pending", "running"} /\ d.status = "failed"
                      /\ d.attempts = s.attempts /\ s.attempts >= MaxAttempts
    /\ p \in Owning \cup {"release", "finish"} => s.status = "running" /\ d.attempts = s.attempts
    /\ p \in Owning => d.status = "running"
    /\ p = "release" => d.status = "pending"
    /\ p = "finish" => d.status = "done"
    /\ p = "clear" => s.status = "done"

\* A terminal descriptor has no lease to lapse.
Unleased(d) == Terminal(d) => d.lease = "none"

Held ==
    /\ \A w \in Workers : pc[w] \notin AtRest => Ahead(pc[w], local[w], shard[cur[w]])
    /\ \A w \in Workers : Unleased(local[w])
    /\ \A k \in Shards : Unleased(shard[k])

\* claim_next_shard takes a shard that is pending or running and counts the
\* attempt.
LEMMA ClaimHeld ==
    ASSUME TypeInv, Held, NEW w \in Workers, NEW o \in Outcomes, Claim(w, o)
    PROVE  pc'[w] \notin AtRest => Ahead(pc'[w], local'[w], shard'[cur'[w]])
<1>1. /\ WorkerTypeOK /\ At(w) /\ shard \in [Shards -> Descriptor]
      /\ pc[w] \notin AtRest => Ahead(pc[w], local[w], shard[cur[w]])
  BY DEF TypeInv, TypeOK, BucketTypeOK, Position, Held
<1>2. CASE ListMarkers(w) \/ ScanEnds(w)
  BY <1>1, <1>2, ReturnFacts DEF ListMarkers, ScanEnds, Goto, WorkerTypeOK, AtRest
<1>3. ASSUME NEW k \in Shards,
             SkipLeased(w, k) \/ FindStale(w, k, o) \/ FindPoisoned(w, k) \/ FindClaimable(w, k)
      PROVE  pc'[w] \notin AtRest => Ahead(pc'[w], local'[w], shard'[cur'[w]])
  <2>1. cur'[w] = k /\ shard' = shard /\ shard[k] \in Descriptor
    BY <1>1, <1>3
       DEF SkipLeased, FindStale, FindPoisoned, FindClaimable, Try, WorkerTypeOK, docVars
  <2>2. /\ Poisoned(shard[k]).status = "failed"
        /\ Poisoned(shard[k]).attempts = shard[k].attempts
    BY <2>1, PoisonedFacts
  <2>3. /\ Claimed(shard[k], w).status = "running"
        /\ Claimed(shard[k], w).attempts = shard[k].attempts + 1
    BY <2>1, ClaimedFacts
  <2>4. CASE SkipLeased(w, k) \/ FindStale(w, k, o)
    BY <1>1, <2>4 DEF SkipLeased, FindStale, Try, Goto, WorkerTypeOK, Ahead, AtRest, Owning
  <2>5. CASE FindPoisoned(w, k)
    <3>1. /\ pc'[w] = "poison" /\ local'[w] = Poisoned(shard[k])
          /\ shard[k].status \in {"pending", "running"} /\ shard[k].attempts >= MaxAttempts
      BY <1>1, <2>5 DEF FindPoisoned, Claimable, Try, Goto, Keep, WorkerTypeOK
    <3>2. QED
      BY <2>1, <2>2, <3>1 DEF Ahead, Owning
  <2>6. CASE FindClaimable(w, k)
    <3>1. /\ pc'[w] = "claim" /\ local'[w] = Claimed(shard[k], w)
          /\ shard[k].status \in {"pending", "running"}
      BY <1>1, <2>6 DEF FindClaimable, Claimable, Try, Goto, Keep, WorkerTypeOK
    <3>2. QED
      BY <2>1, <2>3, <3>1 DEF Ahead, Owning
  <2>7. QED
    BY <1>3, <2>4, <2>5, <2>6
<1>4. CASE PoisonPut(w, o) \/ DropMarker(w, o)
  BY <1>1, <1>4 DEF PoisonPut, DropMarker, Goto, WorkerTypeOK, Ahead, AtRest, Owning
<1>5. CASE ClaimPut(w, o)
  <2>1. CASE o = "ok"
    <3>1. /\ pc[w] = "claim" /\ pc'[w] = "readback" /\ cur'[w] = cur[w]
          /\ local'[w] = local[w] /\ cur[w] \in Shards
          /\ shard' = [shard EXCEPT ![cur[w]] = local[w]]
      BY <1>1, <1>5, <2>1
         DEF ClaimPut, Goto, WorkerTypeOK, PutLocal, Write, At, AtRest
    <3>2. shard'[cur'[w]] = local[w]
      BY <1>1, <3>1
    <3>3. local[w].status = "running"
      BY <1>1, <3>1 DEF Ahead, AtRest
    <3>4. QED
      BY <3>1, <3>2, <3>3 DEF Ahead, Owning
  <2>2. CASE o # "ok"
    BY <1>1, <1>5, <2>2, ReturnFacts DEF ClaimPut, AtRest
  <2>3. QED
    BY <2>1, <2>2
<1>6. CASE ReadBack(w, o)
  <2>1. /\ pc[w] = "readback" /\ UNCHANGED <<cur, shard>>
        /\ pc'[w] = "scan" \/ (pc'[w] = "load" /\ local' = local)
    BY <1>1, <1>6 DEF ReadBack, Goto, WorkerTypeOK, docVars
  <2>2. QED
    BY <1>1, <2>1 DEF Ahead, AtRest, Owning
<1>7. QED
  BY <1>2, <1>3, <1>4, <1>5, <1>6 DEF Claim

\* run_claimed_shard writes what follows from the descriptor it has claimed.
LEMMA RunHeld ==
    ASSUME TypeInv, Held, NEW w \in Workers, NEW o \in Outcomes, Run(w, o)
    PROVE  pc'[w] \notin AtRest => Ahead(pc'[w], local'[w], shard'[cur'[w]])
<1>1. /\ WorkerTypeOK /\ At(w) /\ shard \in [Shards -> Descriptor]
      /\ pc[w] \notin AtRest => Ahead(pc[w], local[w], shard[cur[w]])
  BY DEF TypeInv, TypeOK, BucketTypeOK, Position, Held
<1>2. /\ local[w] \in Descriptor /\ done[w] \in Nat /\ failed[w] \in Nat
  BY <1>1 DEF WorkerTypeOK
<1>3. /\ Released(local[w]).status = "pending"
      /\ Released(local[w]).attempts = local[w].attempts
  BY <1>2, ReleasedFacts
<1>4. /\ Counted(local[w], done[w], failed[w]) \in Descriptor
      /\ Counted(local[w], done[w], failed[w]).status = local[w].status
      /\ Counted(local[w], done[w], failed[w]).attempts = local[w].attempts
  <2>1. Counted(local[w], done[w], failed[w]) \in Descriptor
    BY <1>2, CountedFacts
  <2>2. Counted(local[w], done[w], failed[w]).status = local[w].status
    BY <1>2 DEF Counted, Descriptor
  <2>3. Counted(local[w], done[w], failed[w]).attempts = local[w].attempts
    BY <1>2 DEF Counted, Descriptor
  <2>4. QED
    BY <2>1, <2>2, <2>3
<1>5. /\ Released(Counted(local[w], done[w], failed[w])).status = "pending"
      /\ Released(Counted(local[w], done[w], failed[w])).attempts = local[w].attempts
  BY <1>4, ReleasedFacts
<1>6. /\ Finished(local[w], done[w], failed[w]).status = "done"
      /\ Finished(local[w], done[w], failed[w]).attempts = local[w].attempts
  <2>1. Finished(local[w], done[w], failed[w]).status = "done"
    BY <1>2, FinishedFacts
  <2>2. Finished(local[w], done[w], failed[w]).attempts = local[w].attempts
    BY <1>2 DEF Finished, Descriptor
  <2>3. QED
    BY <2>1, <2>2
<1>7. CASE LoadFails(w) \/ Abandon(w) \/ ClearMarker(w, o) \/ ReleasePut(w, o)
  BY <1>1, <1>7, ReturnFacts DEF LoadFails, Abandon, ClearMarker, ReleasePut, AtRest
<1>8. CASE Load(w) \/ NoHeartbeat(w) \/ RenderFails(w)
  <2>1. /\ pc[w] \in Owning /\ pc'[w] \in Owning /\ UNCHANGED <<cur, local, shard>>
    BY <1>1, <1>8
       DEF Load, NoHeartbeat, RenderFails, AfterItem, Goto, WorkerTypeOK, Owning, docVars
  <2>2. QED
    BY <1>1, <2>1 DEF Ahead, Owning, AtRest
<1>9. CASE Probe(w, o) \/ RenderOk(w, o) \/ PutMeta(w, o)
  <2>1. /\ pc[w] \in Owning /\ pc'[w] \in Owning /\ UNCHANGED <<cur, local, shard>>
    BY <1>1, <1>9
       DEF Probe, RenderOk, PutMeta, Count, Goto, WorkerTypeOK, Owning, docVars
  <2>2. QED
    BY <1>1, <2>1 DEF Ahead, Owning, AtRest
<1>10. CASE PrepareFails(w)
  <2>1. /\ pc[w] = "load" /\ pc'[w] = "release" /\ UNCHANGED <<cur, shard>>
        /\ local'[w] = Released(local[w])
    BY <1>1, <1>10 DEF PrepareFails, Goto, Keep, WorkerTypeOK, docVars
  <2>2. QED
    BY <1>1, <1>3, <2>1 DEF Ahead, Owning, AtRest
<1>11. CASE StopMidShard(w)
  <2>1. /\ pc[w] = "item" /\ pc'[w] = "release" /\ UNCHANGED <<cur, shard>>
        /\ local'[w] = Released(Counted(local[w], done[w], failed[w]))
    BY <1>1, <1>11 DEF StopMidShard, Goto, Keep, WorkerTypeOK, docVars
  <2>2. QED
    BY <1>1, <1>5, <2>1 DEF Ahead, Owning, AtRest
<1>12. CASE Heartbeat(w)
  <2>1. /\ pc[w] = "beat" /\ pc'[w] = "renew" /\ UNCHANGED <<cur, shard>>
        /\ local'[w] = Counted(local[w], done[w], failed[w])
    BY <1>1, <1>12 DEF Heartbeat, Goto, Keep, WorkerTypeOK, docVars
  <2>2. QED
    BY <1>1, <1>4, <2>1 DEF Ahead, Owning, AtRest
<1>13. CASE Renew(w, o)
  <2>1. /\ pc[w] = "renew" /\ pc'[w] \in {"item", "results"} /\ UNCHANGED <<cur, local>>
        /\ cur[w] \in Shards
        /\ shard' = shard \/ shard' = [shard EXCEPT ![cur[w]] = local[w]]
    BY <1>1, <1>13
       DEF Renew, AfterItem, Goto, WorkerTypeOK, PutLocal, Write, At, AtRest
  <2>2. shard'[cur[w]] = shard[cur[w]] \/ shard'[cur[w]] = local[w]
    BY <1>1, <2>1
  <2>3. QED
    BY <1>1, <2>1, <2>2 DEF Ahead, Owning, AtRest
<1>14. CASE PutResults(w, o)
  <2>1. CASE o = "ok"
    <3>1. /\ pc[w] = "results" /\ pc'[w] = "finish" /\ UNCHANGED <<cur, shard>>
          /\ local'[w] = Finished(local[w], done[w], failed[w])
      BY <1>1, <1>14, <2>1 DEF PutResults, Goto, Keep, WorkerTypeOK
    <3>2. QED
      BY <1>1, <1>6, <3>1 DEF Ahead, Owning, AtRest
  <2>2. CASE o # "ok"
    BY <1>1, <1>14, <2>2, ReturnFacts DEF PutResults, AtRest
  <2>3. QED
    BY <2>1, <2>2
<1>15. CASE FinishPut(w, o)
  <2>1. CASE o = "ok"
    <3>1. /\ pc[w] = "finish" /\ pc'[w] = "clear" /\ cur'[w] = cur[w] /\ cur[w] \in Shards
          /\ shard' = [shard EXCEPT ![cur[w]] = local[w]]
      BY <1>1, <1>15, <2>1 DEF FinishPut, Goto, WorkerTypeOK, PutLocal, Write, At, AtRest
    <3>2. shard'[cur'[w]] = local[w]
      BY <1>1, <3>1
    <3>3. QED
      BY <1>1, <3>1, <3>2 DEF Ahead, Owning, AtRest
  <2>2. CASE o # "ok"
    BY <1>1, <1>15, <2>2, ReturnFacts DEF FinishPut, AtRest
  <2>3. QED
    BY <2>1, <2>2
<1>16. QED
  BY <1>7, <1>8, <1>9, <1>10, <1>11, <1>12, <1>13, <1>14, <1>15 DEF Run

\* Terminal descriptors are written without a lease.
LEMMA LeaseFacts ==
    ASSUME NEW d \in Descriptor, NEW n \in Nat, NEW m \in Nat, NEW w \in Workers
    PROVE  /\ Unleased(Poisoned(d)) /\ Unleased(Released(d)) /\ Unleased(Finished(d, n, m))
           /\ Unleased(Released(Counted(d, n, m)))
           /\ ~Terminal(Claimed(d, w))
           /\ Unleased(d) => Unleased(Counted(d, n, m))
<1>1. Unleased(Poisoned(d)) /\ Unleased(Released(d))
  BY DEF Unleased, Poisoned, Released, Descriptor
<1>2. Unleased(Finished(d, n, m))
  BY DEF Unleased, Finished, Descriptor
<1>3. Counted(d, n, m) \in Descriptor
  BY CountedFacts
<1>4. Unleased(Released(Counted(d, n, m)))
  BY <1>3 DEF Unleased, Released, Descriptor
<1>5. ~Terminal(Claimed(d, w))
  BY ClaimedFacts DEF Terminal
<1>6. Unleased(d) => Unleased(Counted(d, n, m))
  BY DEF Unleased, Counted, Descriptor, Terminal
<1>7. QED
  BY <1>1, <1>2, <1>4, <1>5, <1>6

\* What a worker has left when it is at rest.
LEMMA RestHolds ==
    ASSUME WorkerTypeOK, NEW w \in Workers, NEW o \in Outcomes, Claim(w, o) \/ Run(w, o),
           pc'[w] \in AtRest
    PROVE  local'[w] \in {local[w], NoShard}
BY ReturnFacts
   DEF Claim, ListMarkers, ScanEnds, SkipLeased, FindStale, FindPoisoned, FindClaimable,
       PoisonPut, DropMarker, ClaimPut, ReadBack, Try, Run, Load, LoadFails, PrepareFails,
       StopMidShard, ReleasePut, Probe, RenderOk, RenderFails, PutMeta, Count, NoHeartbeat,
       Heartbeat, Abandon, Renew, AfterItem, PutResults, FinishPut, ClearMarker, Goto, Keep,
       WorkerTypeOK, AtRest

\* What the only worker holds stays one step ahead of what is stored.
LEMMA WorkerHeld ==
    ASSUME OneWorker, TypeInv, Held, NEW w \in Workers, Worker(w)
    PROVE  Held'
<1>1. /\ Writes(w) /\ WorkerTypeOK /\ shard \in [Shards -> Descriptor]
      /\ Unleased(local[w]) /\ local[w] \in Descriptor /\ done[w] \in Nat /\ failed[w] \in Nat
  BY WorkerSteps DEF TypeInv, TypeOK, BucketTypeOK, WorkerTypeOK, Held
<1>2. ASSUME NEW v \in Workers, pc'[v] \notin AtRest
      PROVE  Ahead(pc'[v], local'[v], shard'[cur'[v]])
  BY <1>2, ClaimHeld, RunHeld DEF OneWorker, Worker
<1>3. ASSUME NEW k \in Shards PROVE Unleased(shard'[k])
  <2>1. shard'[k] = shard[k] \/ shard'[k] = local[w]
    BY <1>1 DEF Writes
  <2>2. QED
    BY <1>1, <2>1 DEF Held
<1>4. Unleased(local'[w])
  <2>1. Unleased(NoShard)
    BY DEF Unleased, Terminal, NoShard
  <2>2. CASE pc'[w] \in AtRest
    BY <1>1, <2>1, <2>2, RestHolds DEF Worker
  <2>3. CASE Edits(w)
    BY <1>1, <2>3, LeaseFacts DEF Edits
  <2>4. ASSUME NEW k \in Shards, Takes(w, k) PROVE Unleased(local'[w])
    <3>1. shard[k] \in Descriptor
      BY <1>1
    <3>2. Unleased(Claimed(shard[k], w)) /\ Unleased(Poisoned(shard[k]))
      BY <1>1, <3>1, LeaseFacts DEF Unleased
    <3>3. QED
      BY <2>1, <2>4, <3>2 DEF Takes
  <2>5. QED
    BY <2>2, <2>3, <2>4, WorkerHolds
<1>5. \A v \in Workers : Unleased(local'[v])
  BY <1>4 DEF OneWorker
<1>6. QED
  BY <1>2, <1>3, <1>5 DEF Held, Unleased, Ahead, Terminal

\* The server publishes before any worker is busy, and the clock changes leases
\* only.
LEMMA NextHeld == OneWorker /\ TypeInv /\ Early /\ Held /\ [Next]_vars => Held'
<1> SUFFICES ASSUME OneWorker, TypeInv, Early, Held, [Next]_vars PROVE Held'
  OBVIOUS
<1>0. shard \in [Shards -> Descriptor] /\ WorkerTypeOK
  BY DEF TypeInv, TypeOK, BucketTypeOK
<1>1. CASE Server
  <2>1. UNCHANGED <<pc, cur, local>>
    BY <1>1, ServerWrites DEF scanVars
  <2>2. ASSUME NEW k \in Shards PROVE Unleased(shard'[k])
    <3>1. shard'[k] = shard[k] \/ shard'[k] = NewShard
      BY <1>0, <1>1, ServerWrites
    <3>2. Unleased(NewShard)
      BY DEF Unleased, Terminal, NewShard
    <3>3. QED
      BY <3>1, <3>2 DEF Held
  <2>3. ASSUME NEW w \in Workers, pc[w] \notin AtRest PROVE shard' = shard
    BY <1>1, <2>3, ServerWrites DEF Early, AtRest
  <2>4. QED
    BY <2>1, <2>2, <2>3 DEF Held, Ahead, Unleased, Terminal
<1>2. ASSUME NEW w \in Workers, Worker(w) PROVE Held'
  BY <1>2, WorkerHeld
<1>3. ASSUME NEW k \in Shards, LeaseLapses(k) PROVE Held'
  <2>1. /\ UNCHANGED <<pc, cur, local>> /\ shard[k].lease = "live"
        /\ shard' = [shard EXCEPT ![k].lease = "lapsed"]
    BY <1>3 DEF LeaseLapses, scanVars
  <2>2. ASSUME NEW j \in Shards
        PROVE  /\ shard'[j].status = shard[j].status /\ shard'[j].attempts = shard[j].attempts
               /\ Unleased(shard'[j])
    <3>1. shard'[j].status = shard[j].status /\ shard'[j].attempts = shard[j].attempts
      BY <1>0, <2>1 DEF Descriptor
    <3>2. CASE j = k
      <4>1. ~Terminal(shard[k])
        BY <2>1 DEF Held, Unleased
      <4>2. QED
        BY <3>1, <3>2, <4>1 DEF Unleased, Terminal
    <3>3. CASE j # k
      BY <1>0, <2>1, <3>3 DEF Held
    <3>4. QED
      BY <3>1, <3>2, <3>3
  <2>3. \A w \in Workers : pc[w] \notin AtRest => cur[w] \in Shards
    BY DEF TypeInv, Position, At
  <2>4. QED
    BY <2>1, <2>2, <2>3 DEF Held, Ahead, Unleased, Terminal
<1>4. ASSUME NEW w \in Workers, Crash(w) PROVE Held'
  <2>1. Return(w) /\ UNCHANGED shard
    BY <1>4 DEF Crash, docVars
  <2>2. pc'[w] = "idle" /\ local'[w] = NoShard
    BY <1>0, <2>1, ReturnFacts
  <2>3. \A v \in Workers : v = w
    BY DEF OneWorker
  <2>4. QED
    BY <2>1, <2>2, <2>3 DEF Held, AtRest, Unleased, Terminal, NoShard
<1>5. ASSUME NEW w \in Workers, SignalStop(w) \/ Restart(w) PROVE Held'
  BY <1>5 DEF SignalStop, Restart, docVars, scanVars, Held, Ahead, Unleased, Terminal
<1>6. CASE UNCHANGED vars
  BY <1>6 DEF vars, docVars, scanVars, Held, Ahead, Unleased, Terminal
<1>7. QED
  BY <1>1, <1>2, <1>3, <1>4, <1>5, <1>6 DEF Next, Environment

\* No worker is busy.
LEMMA InitHeld == Init => Held
BY DEF Init, Held, AtRest, Unleased, Terminal, NoShard

\* With one worker, its copy of the descriptor of the shard it works on never
\* lags behind the stored one, across crashes, stops and storage errors.
THEOREM SpecHeld == ASSUME OneWorker PROVE Spec => []Held
<1>1. TypeInv /\ Early /\ Held /\ [Next]_vars => Held'
  BY NextHeld
<1>2. QED
  BY <1>1, InitHeld, SpecTypeInv, SpecEarly, PTL DEF Spec

-----------------------------------------------------------------------------
(***************************************************************************)
(* A final status is final: with one worker no terminal descriptor is ever  *)
(* written again.                                                           *)
(***************************************************************************)
LEMMA TerminalStays ==
    ASSUME OneWorker, TypeInv, Early, Held, [Next]_vars, AllTerminal
    PROVE  shard' = shard
<1>0. shard \in [Shards -> Descriptor] /\ \A k \in Shards : Terminal(shard[k])
  BY DEF TypeInv, TypeOK, BucketTypeOK, AllTerminal, Settled
<1>1. CASE Server
  <2>1. ASSUME enq.step = "shard" PROVE FALSE
    <3>1. enq.k \in Nat /\ enq.k < NumShards /\ NumShards \in Nat
      BY <2>1, NumShardsNat DEF TypeInv, TypeOK, Position, EnqueueAt
    <3>2. enq.k \in Shards /\ enq.k >= enq.k
      BY <3>1 DEF Shards
    <3>3. shard[enq.k] = NoShard
      BY <2>1, <3>2 DEF Early
    <3>4. QED
      BY <1>0, <3>2, <3>3 DEF Terminal, NoShard
  <2>2. QED
    BY <1>1, <2>1, ServerWrites
<1>2. ASSUME NEW w \in Workers, Worker(w) PROVE shard' = shard
  <2>1. Writes(w) /\ At(w) /\ WorkerTypeOK
    BY <1>2, WorkerSteps DEF TypeInv, TypeOK, Position
  <2>2. ASSUME pc[w] \in Writing PROVE FALSE
    <3>1. cur[w] \in Shards /\ pc[w] \notin AtRest
      BY <2>1, <2>2 DEF Writing, At, AtRest
    <3>2. Ahead(pc[w], local[w], shard[cur[w]]) /\ Terminal(shard[cur[w]])
      BY <1>0, <3>1 DEF Held
    <3>3. QED
      BY <2>2, <3>2 DEF Ahead, Terminal, Writing, Owning
  <2>3. QED
    BY <2>1, <2>2 DEF Writes
<1>3. ASSUME NEW k \in Shards, LeaseLapses(k) PROVE FALSE
  BY <1>0, <1>3 DEF LeaseLapses, Held, Unleased
<1>4. ASSUME NEW w \in Workers, Crash(w) \/ SignalStop(w) \/ Restart(w) PROVE shard' = shard
  BY <1>4 DEF Crash, SignalStop, Restart, docVars
<1>5. CASE UNCHANGED vars
  BY <1>5 DEF vars, docVars
<1>6. QED
  BY <1>1, <1>2, <1>3, <1>4, <1>5 DEF Next, Environment

\* With one worker, a client that has seen a final status of the job
\* (JobView::aggregate) never sees another one, whatever fails.
THEOREM SpecFinalStatusIsFinal ==
    ASSUME OneWorker
    PROVE  Spec => FinalStatusIsFinal
<1>1. TypeInv /\ Early /\ Held /\ [Next]_vars => [AllTerminal => UNCHANGED JobStatus]_vars
  <2> SUFFICES ASSUME TypeInv, Early, Held, [Next]_vars, AllTerminal
               PROVE  UNCHANGED JobStatus
    OBVIOUS
  <2>1. shard' = shard
    BY TerminalStays
  <2>2. QED
    BY <2>1 DEF JobStatus
<1>2. QED
  BY <1>1, SpecTypeInv, SpecEarly, SpecHeld, PTL DEF Spec, FinalStatusIsFinal

-----------------------------------------------------------------------------
(***************************************************************************)
(* The life cycle of a shard: with one worker every step of the queue is a  *)
(* step of ShardLifecycle or none.                                          *)
(***************************************************************************)
\* The phase of each status.
LEMMA PhaseFacts ==
    ASSUME NEW d
    PROVE  /\ d.status = "none" => Phase(d) = "absent"
           /\ d.status = "pending" => Phase(d) = "waiting"
           /\ d.status = "running" => Phase(d) = "held"
           /\ d.status = "done" => Phase(d) = "done"
           /\ d.status = "failed" => Phase(d) = "failed"
BY DEF Phase, Terminal

\* How the steps of ShardLifecycle look in terms of descriptors.
LEMMA LifecycleMoves ==
    ASSUME shard \in [Shards -> Descriptor], NEW j \in Shards, NEW d \in Descriptor,
           shard' = [shard EXCEPT ![j] = d],
           \/ shard[j].status = "none" /\ d.status = "pending" /\ d.attempts = shard[j].attempts
           \/ /\ shard[j].status \in {"pending", "running"} /\ d.status = "running"
              /\ d.attempts = shard[j].attempts + 1 /\ d.attempts <= MaxAttempts
           \/ /\ shard[j].status = "running" /\ d.status \in {"running", "pending", "done"}
              /\ d.attempts = shard[j].attempts
           \/ /\ shard[j].status \in {"pending", "running"} /\ d.status = "failed"
              /\ d.attempts = shard[j].attempts /\ d.attempts = MaxAttempts
    PROVE  [Lifecycle!Next]_(Lifecycle!vars)
<1> DEFINE phase == [k \in Shards |-> Phase(shard[k])]
           tries == [k \in Shards |-> shard[k].attempts]
<1>1. /\ phase[j] = Phase(shard[j]) /\ tries[j] = shard[j].attempts
      /\ [k \in Shards |-> Phase(shard[k])]' = [phase EXCEPT ![j] = Phase(d)]
      /\ [k \in Shards |-> shard[k].attempts]' = [tries EXCEPT ![j] = d.attempts]
  <2>1. \A k \in Shards : shard'[k] = IF k = j THEN d ELSE shard[k]
    OBVIOUS
  <2>2. [k \in Shards |-> Phase(shard[k])]' = [k \in Shards |-> Phase(shard'[k])]
    OBVIOUS
  <2>3. \A k \in Shards : Phase(shard'[k]) = IF k = j THEN Phase(d) ELSE Phase(shard[k])
    BY <2>1
  <2>4. [k \in Shards |-> Phase(shard'[k])] = [phase EXCEPT ![j] = Phase(d)]
    BY <2>3
  <2>5. [k \in Shards |-> shard'[k].attempts] = [tries EXCEPT ![j] = d.attempts]
    BY <2>1
  <2>6. QED
    BY <2>2, <2>4, <2>5
<1>2. shard[j].attempts \in Nat /\ d.attempts \in Nat
  BY DEF Descriptor
<1>3. d.attempts = shard[j].attempts => [tries EXCEPT ![j] = d.attempts] = tries
  BY <1>1
<1>4. CASE shard[j].status = "none" /\ d.status = "pending" /\ d.attempts = shard[j].attempts
  <2>1. Phase(shard[j]) = "absent" /\ Phase(d) = "waiting"
    BY <1>4, PhaseFacts
  <2>2. Lifecycle!Publish(j)
    BY <1>1, <1>3, <1>4, <2>1 DEF Lifecycle!Publish, Lifecycle!Move
  <2>3. QED
    BY <2>2 DEF Lifecycle!Next
<1>5. CASE /\ shard[j].status \in {"pending", "running"} /\ d.status = "running"
           /\ d.attempts = shard[j].attempts + 1 /\ d.attempts <= MaxAttempts
  <2>1. Phase(shard[j]) \in {"waiting", "held"} /\ Phase(d) = "held"
    BY <1>5, PhaseFacts
  <2>2. shard[j].attempts < MaxAttempts
    BY <1>2, <1>5, AttemptsAssumption
  <2>3. Lifecycle!Take(j)
    BY <1>1, <1>5, <2>1, <2>2 DEF Lifecycle!Take, Lifecycle!Move
  <2>4. QED
    BY <2>3 DEF Lifecycle!Next
<1>6. CASE /\ shard[j].status = "running" /\ d.status \in {"running", "pending", "done"}
           /\ d.attempts = shard[j].attempts
  <2>1. /\ Phase(shard[j]) = "held"
        /\ d.status = "running" => Phase(d) = "held"
        /\ d.status = "pending" => Phase(d) = "waiting"
        /\ d.status = "done" => Phase(d) = "done"
    BY <1>6, PhaseFacts
  <2>2. CASE d.status = "running"
    <3>1. [phase EXCEPT ![j] = Phase(d)] = phase
      BY <1>1, <2>1, <2>2
    <3>2. QED
      BY <1>1, <1>3, <1>6, <3>1 DEF Lifecycle!vars
  <2>3. CASE d.status = "pending"
    <3>1. Lifecycle!GiveBack(j)
      BY <1>1, <1>3, <1>6, <2>1, <2>3 DEF Lifecycle!GiveBack, Lifecycle!Move
    <3>2. QED
      BY <3>1 DEF Lifecycle!Next
  <2>4. CASE d.status = "done"
    <3>1. Lifecycle!Complete(j)
      BY <1>1, <1>3, <1>6, <2>1, <2>4 DEF Lifecycle!Complete, Lifecycle!Move
    <3>2. QED
      BY <3>1 DEF Lifecycle!Next
  <2>5. QED
    BY <1>6, <2>2, <2>3, <2>4
<1>7. CASE /\ shard[j].status \in {"pending", "running"} /\ d.status = "failed"
           /\ d.attempts = shard[j].attempts /\ d.attempts = MaxAttempts
  <2>1. Phase(shard[j]) \in {"waiting", "held"} /\ Phase(d) = "failed"
    BY <1>7, PhaseFacts
  <2>2. Lifecycle!GiveUp(j)
    BY <1>1, <1>3, <1>7, <2>1 DEF Lifecycle!GiveUp, Lifecycle!Move
  <2>3. QED
    BY <2>2 DEF Lifecycle!Next
<1>8. QED
  BY <1>4, <1>5, <1>6, <1>7

\* A step that leaves statuses and attempts alone.
LEMMA LifecycleStays ==
    ASSUME \A k \in Shards : /\ shard'[k].status = shard[k].status
                             /\ shard'[k].attempts = shard[k].attempts
    PROVE  UNCHANGED Lifecycle!vars
<1>1. \A k \in Shards : Phase(shard'[k]) = Phase(shard[k])
  BY DEF Phase, Terminal
<1>2. [k \in Shards |-> Phase(shard'[k])] = [k \in Shards |-> Phase(shard[k])]
  BY <1>1
<1>3. [k \in Shards |-> shard'[k].attempts] = [k \in Shards |-> shard[k].attempts]
  OBVIOUS
<1>4. QED
  BY <1>2, <1>3 DEF Lifecycle!vars

\* Every step of the queue is one of the life cycle's, or none of them.
LEMMA LifecycleStep ==
    ASSUME OneWorker, TypeInv, Early, Held, DescriptorsFit, [Next]_vars
    PROVE  [Lifecycle!Next]_(Lifecycle!vars)
<1>0. shard \in [Shards -> Descriptor] /\ WorkerTypeOK
  BY DEF TypeInv, TypeOK, BucketTypeOK
<1>1. CASE shard' = shard
  BY <1>1, LifecycleStays
<1>2. CASE Server /\ shard' # shard
  <2>1. enq.step = "shard" /\ shard' = [shard EXCEPT ![enq.k] = NewShard]
    BY <1>2, ServerWrites
  <2>2. enq.k \in Nat /\ enq.k < NumShards /\ NumShards \in Nat
    BY <2>1, NumShardsNat DEF TypeInv, TypeOK, Position, EnqueueAt
  <2>3. enq.k \in Shards /\ enq.k >= enq.k
    BY <2>2 DEF Shards
  <2>4. shard[enq.k] = NoShard
    BY <2>1, <2>3 DEF Early
  <2>5. /\ shard[enq.k].status = "none" /\ NewShard.status = "pending"
        /\ NewShard.attempts = shard[enq.k].attempts
    BY <2>4 DEF NoShard, NewShard
  <2>6. QED
    BY <1>0, <2>1, <2>3, <2>5, ConstantsTyped, LifecycleMoves
<1>3. ASSUME NEW w \in Workers, Worker(w), shard' # shard
      PROVE  [Lifecycle!Next]_(Lifecycle!vars)
  <2>1. /\ pc[w] \in Writing /\ shard' = [shard EXCEPT ![cur[w]] = local[w]] /\ At(w)
    BY <1>3, WorkerSteps DEF Writes, TypeInv, Position
  <2>2. /\ cur[w] \in Shards /\ pc[w] \notin AtRest /\ local[w] \in Descriptor
        /\ shard[cur[w]] \in Descriptor
    BY <1>0, <2>1 DEF At, AtRest, Writing, WorkerTypeOK
  <2>3. Ahead(pc[w], local[w], shard[cur[w]])
    BY <2>2 DEF Held
  <2>4. local[w].attempts <= MaxAttempts /\ local[w].attempts \in Nat
    BY <2>2 DEF DescriptorsFit, Fits, Descriptor
  <2>5. CASE pc[w] = "claim"
    BY <1>0, <2>1, <2>2, <2>3, <2>4, <2>5, LifecycleMoves DEF Ahead
  <2>6. CASE pc[w] = "poison"
    <3>1. local[w].attempts = MaxAttempts
      BY <2>3, <2>4, <2>6, AttemptsAssumption DEF Ahead
    <3>2. QED
      BY <1>0, <2>1, <2>2, <2>3, <2>6, <3>1, LifecycleMoves DEF Ahead
  <2>7. CASE pc[w] \in {"renew", "release", "finish"}
    <3>1. /\ shard[cur[w]].status = "running" /\ local[w].attempts = shard[cur[w]].attempts
          /\ local[w].status \in {"running", "pending", "done"}
      BY <2>3, <2>7 DEF Ahead, Owning
    <3>2. QED
      BY <1>0, <2>1, <2>2, <3>1, LifecycleMoves
  <2>8. QED
    BY <2>1, <2>5, <2>6, <2>7 DEF Writing
<1>4. ASSUME NEW k \in Shards, LeaseLapses(k) PROVE [Lifecycle!Next]_(Lifecycle!vars)
  <2>1. shard' = [shard EXCEPT ![k].lease = "lapsed"]
    BY <1>4 DEF LeaseLapses
  <2>2. ASSUME NEW j \in Shards
        PROVE  shard'[j].status = shard[j].status /\ shard'[j].attempts = shard[j].attempts
    BY <1>0, <2>1 DEF Descriptor
  <2>3. QED
    BY <2>2, LifecycleStays
<1>5. ASSUME NEW w \in Workers, Crash(w) \/ SignalStop(w) \/ Restart(w) PROVE shard' = shard
  BY <1>5 DEF Crash, SignalStop, Restart, docVars
<1>6. CASE UNCHANGED vars
  BY <1>1, <1>6 DEF vars, docVars
<1>7. QED
  BY <1>1, <1>2, <1>3, <1>4, <1>5, <1>6 DEF Next, Environment

\* Every shard is absent and was never tried.
LEMMA InitLifecycle == Init => Lifecycle!Init
<1> SUFFICES ASSUME Init PROVE Lifecycle!Init
  OBVIOUS
<1>1. \A k \in Shards : Phase(shard[k]) = "absent" /\ shard[k].attempts = 0
  BY PhaseFacts DEF Init, NoShard
<1>2. QED
  BY <1>1 DEF Lifecycle!Init

\* With one worker the shards follow the safety part of ShardLifecycle,
\* whatever fails: attempts are made one after another and counted, and Done
\* and Failed are final.
THEOREM SpecLifecycle ==
    ASSUME OneWorker
    PROVE  Spec => Lifecycle!Safety
<1>1. TypeInv /\ Early /\ Held /\ DescriptorsFit /\ [Next]_vars
        => [Lifecycle!Next]_(Lifecycle!vars)
  BY LifecycleStep
<1>2. QED
  BY <1>1, InitLifecycle, SpecTypeInv, SpecEarly, SpecHeld, SpecDescriptorsFit, PTL
     DEF Spec, Lifecycle!Safety

-----------------------------------------------------------------------------
(***************************************************************************)
(* The counts of a Done descriptor: run_claimed_shard counts what it         *)
(* appends, and puts both.                                                  *)
(***************************************************************************)
Tally(w) ==
    /\ done[w] = Cardinality(Trues(items[w]))
    /\ failed[w] = Len(items[w]) - Cardinality(Trues(items[w]))

\* What a Done descriptor d of a shard with results s says.
Adds(d, s) ==
    /\ d.done = Cardinality(Trues(s))
    /\ d.failed = Len(s) - Cardinality(Trues(s))

Counting ==
    /\ \A w \in Workers : Tally(w)
    /\ \A w \in Workers : pc[w] = "finish" => Adds(local[w], results[cur[w]])
    /\ \A k \in Shards : shard[k].status = "done" => Adds(shard[k], results[k])

\* Nothing counts for nothing.
LEMMA TruesOfNone == Cardinality(Trues(<<>>)) = 0 /\ Len(<<>>) - 0 = 0
<1>1. Trues(<<>>) = {}
  BY DEF Trues
<1>2. Cardinality({}) = 0
  BY FS_EmptySet
<1>3. QED
  BY <1>1, <1>2

\* Return empties the worker's hands.
LEMMA ReturnTally ==
    ASSUME WorkerTypeOK, NEW w \in Workers, Return(w)
    PROVE  Tally(w)'
<1>1. items'[w] = <<>> /\ done'[w] = 0 /\ failed'[w] = 0
  BY DEF Return, WorkerTypeOK
<1>2. QED
  BY <1>1, TruesOfNone DEF Tally

\* One item more is one count more.
LEMMA CountTally ==
    ASSUME WorkerTypeOK, NEW w \in Workers, Tally(w), NEW ok \in BOOLEAN, Count(w, ok)
    PROVE  Tally(w)'
<1>1. /\ items[w] \in Seq(BOOLEAN) /\ Len(items[w]) \in Nat
      /\ items'[w] = Append(items[w], ok)
      /\ done'[w] = IF ok THEN done[w] + 1 ELSE done[w]
      /\ failed'[w] = IF ok THEN failed[w] ELSE failed[w] + 1
  BY DEF Count, WorkerTypeOK
<1>2. Len(Append(items[w], ok)) = Len(items[w]) + 1
  BY <1>1
<1>3. /\ Cardinality(Trues(items[w])) \in Nat
      /\ Cardinality(Trues(Append(items[w], ok)))
           = Cardinality(Trues(items[w])) + (IF ok THEN 1 ELSE 0)
  BY <1>1, TruesAppend
<1>4. done[w] = Cardinality(Trues(items[w])) /\ failed[w] = Len(items[w]) - Cardinality(Trues(items[w]))
  BY DEF Tally
<1> DEFINE n == Len(items[w]) + 1
           k == Cardinality(Trues(items[w])) + (IF ok THEN 1 ELSE 0)
<1>5. done'[w] = k /\ failed'[w] = n - k
  <2>1. PICK all \in Nat, trues \in Nat :
            all = Len(items[w]) /\ trues = Cardinality(Trues(items[w]))
    BY <1>1, <1>3
  <2>2. done[w] = trues /\ failed[w] = all - trues
    BY <1>4, <2>1, Zenon
  <2>3. k = trues + (IF ok THEN 1 ELSE 0) /\ n = all + 1
    BY <2>1
  <2> HIDE DEF n, k
  <2>4. CASE ok
    BY <1>1, <2>2, <2>3, <2>4
  <2>5. CASE ~ok
    BY <1>1, <2>2, <2>3, <2>5
  <2>6. QED
    BY <2>4, <2>5
<1>6. Len(items'[w]) = n /\ Cardinality(Trues(items'[w])) = k
  BY <1>1, <1>2, <1>3
<1> HIDE DEF n, k
<1>7. /\ done'[w] = Cardinality(Trues(items'[w]))
      /\ failed'[w] = Len(items'[w]) - Cardinality(Trues(items'[w]))
  BY <1>5, <1>6, Zenon
<1>8. QED
  BY <1>7 DEF Tally

\* The counters of run_claimed_shard are those of the outcomes it has
\* collected.
LEMMA WorkerTally ==
    ASSUME TypeInv, NEW w \in Workers, Tally(w), Worker(w)
    PROVE  Tally(w)'
<1> PICK o \in Outcomes : Claim(w, o) \/ Run(w, o)
  BY DEF Worker
<1>1. WorkerTypeOK
  BY DEF TypeInv, TypeOK
<1>2. ASSUME UNCHANGED tallyVars PROVE Tally(w)'
  BY <1>2 DEF tallyVars, Tally
<1>3. ASSUME NEW ok, ok \in BOOLEAN, Count(w, ok) PROVE Tally(w)'
  BY <1>1, <1>3, CountTally
<1>4. CASE Claim(w, o)
  BY <1>1, <1>2, <1>4, ReturnTally
     DEF Claim, ListMarkers, ScanEnds, SkipLeased, FindStale, FindPoisoned, FindClaimable,
         Try, PoisonPut, DropMarker, ClaimPut, ReadBack
<1>5. CASE Probe(w, o)
  <2>1. Count(w, TRUE) \/ UNCHANGED tallyVars
    BY <1>5 DEF Probe
  <2>2. QED
    BY <1>2, <1>3, <2>1
<1>6. CASE RenderOk(w, o)
  <2>1. Count(w, FALSE) \/ UNCHANGED tallyVars
    BY <1>6 DEF RenderOk
  <2>2. QED
    BY <1>2, <1>3, <2>1
<1>7. CASE PutMeta(w, o)
  <2>1. Count(w, (IF pc[w] = "meta_ok" THEN "ok" ELSE "failed") = "ok" /\ o = "ok")
    BY <1>7 DEF PutMeta
  <2>2. QED
    BY <1>3, <2>1
<1>8. CASE /\ Run(w, o) /\ ~Probe(w, o) /\ ~RenderOk(w, o) /\ ~PutMeta(w, o)
  BY <1>1, <1>2, <1>8, ReturnTally
     DEF Run, Load, LoadFails, PrepareFails, StopMidShard, ReleasePut, RenderFails,
         NoHeartbeat, Heartbeat, Abandon, Renew, PutResults, FinishPut, ClearMarker
<1>9. QED
  BY <1>4, <1>5, <1>6, <1>7, <1>8

\* A worker comes to its last put by putting the results it has counted.
LEMMA FinishFacts ==
    ASSUME TypeInv, NEW w \in Workers, Tally(w), Worker(w), pc'[w] = "finish"
    PROVE  Adds(local[w], results[cur[w]])'
<1> PICK o \in Outcomes : Claim(w, o) \/ Run(w, o)
  BY DEF Worker
<1>1. WorkerTypeOK /\ At(w) /\ results \in [Shards -> Seq(BOOLEAN)]
  BY DEF TypeInv, TypeOK, BucketTypeOK, Position
<1>2. ~Claim(w, o)
  BY <1>1, ReturnFacts
     DEF Claim, ListMarkers, ScanEnds, SkipLeased, FindStale, FindPoisoned, FindClaimable,
         Try, PoisonPut, DropMarker, ClaimPut, ReadBack, Goto, WorkerTypeOK
<1>3. PutResults(w, o)
  BY <1>1, <1>2, ReturnFacts
     DEF Run, Load, LoadFails, PrepareFails, StopMidShard, ReleasePut, Probe, RenderOk,
         RenderFails, PutMeta, Count, NoHeartbeat, Heartbeat, Abandon, Renew, AfterItem,
         FinishPut, ClearMarker, Goto, WorkerTypeOK
<1>4. o = "ok"
  BY <1>1, <1>3, ReturnFacts DEF PutResults
<1>5. /\ cur[w] \in Shards /\ cur'[w] = cur[w]
      /\ results' = [results EXCEPT ![cur[w]] = items[w]]
      /\ local'[w] = Finished(local[w], done[w], failed[w])
  BY <1>1, <1>3, <1>4 DEF PutResults, Write, Keep, WorkerTypeOK, At, AtRest
<1>6. results'[cur'[w]] = items[w]
  BY <1>1, <1>5
<1>7. local[w] \in Descriptor /\ done[w] \in Nat /\ failed[w] \in Nat
  BY <1>1 DEF WorkerTypeOK
<1>8. local'[w].done = done[w] /\ local'[w].failed = failed[w]
  BY <1>5, <1>7 DEF Finished, Descriptor
<1>9. QED
  BY <1>6, <1>8 DEF Adds, Tally

\* Done is written with the counts of the results just put, and no results are
\* put over those of a Done shard.
LEMMA WorkerCounting ==
    ASSUME OneWorker, TypeInv, Held, Counting, NEW w \in Workers, Worker(w)
    PROVE  Counting'
<1>1. /\ Writes(w) /\ At(w) /\ WorkerTypeOK /\ Tally(w)
      /\ shard \in [Shards -> Descriptor] /\ results \in [Shards -> Seq(BOOLEAN)]
  BY WorkerSteps DEF TypeInv, TypeOK, BucketTypeOK, Position, Counting
<1>2. Tally(w)'
  BY <1>1, WorkerTally
<1>3. pc'[w] = "finish" => Adds(local[w], results[cur[w]])'
  BY <1>1, FinishFacts
<1>4. ASSUME NEW k \in Shards, shard'[k].status = "done"
      PROVE  Adds(shard[k], results[k])'
  <2>1. CASE shard'[k] = shard[k]
    <3>1. results'[k] = results[k]
      <4>1. CASE pc[w] = "results" /\ k = cur[w]
        <5>1. shard[k].status = "running"
          BY <4>1 DEF Held, Ahead, Owning, AtRest
        <5>2. QED
          BY <1>4, <2>1, <5>1
      <4>2. QED
        BY <1>1, <4>1 DEF Writes
    <3>2. QED
      BY <1>4, <2>1, <3>1 DEF Counting, Adds
  <2>2. CASE shard'[k] # shard[k]
    <3>1. pc[w] \in Writing /\ k = cur[w] /\ shard'[k] = local[w]
      BY <1>1, <2>2 DEF Writes
    <3>2. Ahead(pc[w], local[w], shard[cur[w]])
      BY <3>1 DEF Held, Writing, AtRest
    <3>3. pc[w] = "finish"
      BY <1>4, <3>1, <3>2 DEF Ahead, Writing, Owning
    <3>4. results' = results
      BY <1>1, <3>3 DEF Writes
    <3>5. QED
      BY <3>1, <3>3, <3>4 DEF Counting, Adds
  <2>3. QED
    BY <2>1, <2>2
<1>5. \A v \in Workers : v = w
  BY DEF OneWorker
<1>6. QED
  BY <1>2, <1>3, <1>4, <1>5 DEF Counting

\* Nobody else writes counts or results.
LEMMA NextCounting == OneWorker /\ TypeInv /\ Early /\ Held /\ Counting /\ [Next]_vars => Counting'
<1> SUFFICES ASSUME OneWorker, TypeInv, Early, Held, Counting, [Next]_vars PROVE Counting'
  OBVIOUS
<1>0. shard \in [Shards -> Descriptor] /\ WorkerTypeOK
  BY DEF TypeInv, TypeOK, BucketTypeOK
<1>1. CASE Server
  <2>1. UNCHANGED <<results, pc, cur, local, items, done, failed>>
    BY <1>1, ServerWrites DEF scanVars, tallyVars
  <2>2. ASSUME NEW k \in Shards, shard'[k].status = "done" PROVE shard'[k] = shard[k]
    <3>1. shard'[k] = shard[k] \/ shard'[k] = NewShard
      BY <1>0, <1>1, ServerWrites
    <3>2. QED
      BY <2>2, <3>1 DEF NewShard
  <2>3. QED
    BY <2>1, <2>2 DEF Counting, Tally, Adds
<1>2. ASSUME NEW w \in Workers, Worker(w) PROVE Counting'
  BY <1>2, WorkerCounting
<1>3. ASSUME NEW k \in Shards, LeaseLapses(k) PROVE Counting'
  <2>1. /\ UNCHANGED <<results, pc, cur, local, items, done, failed>>
        /\ shard' = [shard EXCEPT ![k].lease = "lapsed"]
    BY <1>3 DEF LeaseLapses, scanVars, tallyVars
  <2>2. ASSUME NEW j \in Shards
        PROVE  /\ shard'[j].status = shard[j].status /\ shard'[j].done = shard[j].done
               /\ shard'[j].failed = shard[j].failed
    BY <1>0, <2>1 DEF Descriptor
  <2>3. QED
    BY <2>1, <2>2 DEF Counting, Tally, Adds
<1>4. ASSUME NEW w \in Workers, Crash(w) PROVE Counting'
  <2>1. Return(w) /\ UNCHANGED <<shard, results>>
    BY <1>4 DEF Crash, docVars
  <2>2. pc'[w] = "idle" /\ Tally(w)'
    BY <1>0, <2>1, ReturnFacts, ReturnTally
  <2>3. \A v \in Workers : v = w
    BY DEF OneWorker
  <2>4. QED
    BY <2>1, <2>2, <2>3 DEF Counting, Adds
<1>5. ASSUME NEW w \in Workers, SignalStop(w) \/ Restart(w) PROVE Counting'
  BY <1>5 DEF SignalStop, Restart, docVars, scanVars, tallyVars, Counting, Tally, Adds
<1>6. CASE UNCHANGED vars
  BY <1>6 DEF vars, docVars, scanVars, tallyVars, Counting, Tally, Adds
<1>7. QED
  BY <1>1, <1>2, <1>3, <1>4, <1>5, <1>6 DEF Next, Environment

\* Nothing is counted yet.
LEMMA InitCounting == Init => Counting
BY TruesOfNone DEF Init, Counting, Tally, NoShard

\* With one worker, the counts a client sees of a Done shard are those of its
\* results.json, whatever fails.
THEOREM SpecResultsMatchCounts ==
    ASSUME OneWorker
    PROVE  Spec => []ResultsMatchCounts
<1>1. TypeInv /\ Early /\ Held /\ Counting /\ [Next]_vars => Counting'
  BY NextCounting
<1>2. Counting => ResultsMatchCounts
  BY DEF Counting, ResultsMatchCounts, Adds, Trues, Successes
<1>3. QED
  BY <1>1, <1>2, InitCounting, SpecTypeInv, SpecEarly, SpecHeld, PTL DEF Spec

-----------------------------------------------------------------------------
(***************************************************************************)
(* OutstandingHasMarker: with one worker, which may die or be told to stop  *)
(* at any moment, a marker goes only when its shard is terminal.            *)
(***************************************************************************)
\* The markers worker w knows of are there: it alone takes them away.
Scanning(w) ==
    /\ todo[w] \subseteq marker
    /\ pc[w] \notin AtRest => cur[w] \in marker \ todo[w]

Marked ==
    /\ \A w \in Workers : Scanning(w)
    /\ \A w \in Workers : pc[w] \in {"drop", "clear"} => Terminal(shard[cur[w]])
    /\ enq.step = "marker" => \A k \in Shards : k < enq.k => Terminal(shard[k]) \/ k \in marker

\* Return empties the list of markers, too.
LEMMA ReturnScanning ==
    ASSUME WorkerTypeOK, NEW w \in Workers, Return(w)
    PROVE  pc'[w] = "idle" /\ todo'[w] = {} /\ Scanning(w)'
<1>1. pc'[w] = "idle" /\ todo'[w] = {}
  BY DEF Return, Goto, WorkerTypeOK
<1>2. QED
  BY <1>1 DEF Scanning, AtRest

\* claim_next_shard takes up each marker once, and deletes only the one it has
\* taken up.
LEMMA ClaimScanning ==
    ASSUME WorkerTypeOK, NEW w \in Workers, NEW o \in Outcomes, Claim(w, o), Scanning(w)
    PROVE  Scanning(w)'
<1>1. CASE ListMarkers(w)
  BY <1>1 DEF ListMarkers, Goto, Scanning, WorkerTypeOK, AtRest, docVars
<1>2. CASE ScanEnds(w)
  BY <1>2, ReturnScanning DEF ScanEnds
<1>8. CASE ClaimPut(w, o)
  BY <1>8, ReturnScanning DEF ClaimPut, Goto, Scanning, WorkerTypeOK, AtRest
<1>3. ASSUME NEW k \in Shards,
             SkipLeased(w, k) \/ FindStale(w, k, o) \/ FindPoisoned(w, k) \/ FindClaimable(w, k)
      PROVE  Scanning(w)'
  <2>1. /\ k \in todo[w] /\ UNCHANGED marker
        /\ todo'[w] = todo[w] \ {k} /\ cur'[w] = k
    BY <1>3
       DEF SkipLeased, FindStale, FindPoisoned, FindClaimable, Try, WorkerTypeOK, docVars
  <2>2. QED
    BY <2>1 DEF Scanning
<1>4. CASE PoisonPut(w, o)
  BY <1>4 DEF PoisonPut, Goto, Scanning, WorkerTypeOK, AtRest
<1>5. CASE DropMarker(w, o)
  <2>1. /\ cur[w] \notin todo[w] /\ UNCHANGED <<todo, cur>> /\ pc'[w] = "scan"
        /\ marker' = marker \/ marker' = marker \ {cur[w]}
    BY <1>5 DEF DropMarker, Goto, Write, Scanning, WorkerTypeOK, AtRest
  <2>2. QED
    BY <2>1 DEF Scanning, AtRest
<1>6. CASE ReadBack(w, o)
  <2>1. /\ pc[w] \notin AtRest /\ UNCHANGED <<marker, cur>>
        /\ todo'[w] = todo[w] \/ todo'[w] = {}
    BY <1>6 DEF ReadBack, WorkerTypeOK, AtRest, docVars
  <2>2. QED
    BY <2>1 DEF Scanning
<1>7. QED
  BY <1>1, <1>2, <1>3, <1>4, <1>5, <1>6, <1>8 DEF Claim

\* run_claimed_shard keeps the marker of the shard it runs until it is done.
LEMMA RunScanning ==
    ASSUME WorkerTypeOK, NEW w \in Workers, NEW o \in Outcomes, Run(w, o), Scanning(w)
    PROVE  Scanning(w)'
<1>1. CASE LoadFails(w) \/ ReleasePut(w, o) \/ Abandon(w) \/ ClearMarker(w, o)
  BY <1>1, ReturnScanning DEF LoadFails, ReleasePut, Abandon, ClearMarker
<1>2. CASE Load(w) \/ PrepareFails(w) \/ StopMidShard(w) \/ NoHeartbeat(w) \/ Heartbeat(w)
  BY <1>2
     DEF Load, PrepareFails, StopMidShard, NoHeartbeat, Heartbeat, Scanning, AtRest, docVars
<1>3. CASE Probe(w, o) \/ RenderOk(w, o) \/ RenderFails(w) \/ PutMeta(w, o) \/ Renew(w, o)
  BY <1>3
     DEF Probe, RenderOk, RenderFails, PutMeta, Renew, Scanning, AtRest, docVars
<1>4. CASE PutResults(w, o) \/ FinishPut(w, o)
  BY <1>4, ReturnScanning DEF PutResults, FinishPut, Scanning, AtRest
<1>5. QED
  BY <1>1, <1>2, <1>3, <1>4 DEF Run

\* The only worker deletes a marker after it has seen the shard terminal, or
\* made it so; no terminal shard is ever written again.
LEMMA WorkerMarked ==
    ASSUME OneWorker, TypeInv, Published, Early, Faultless, Held, Marked,
           NEW w \in Workers, Worker(w)
    PROVE  Marked'
<1>1. /\ Writes(w) /\ WorkerTypeOK /\ At(w) /\ Scanning(w) /\ UNCHANGED enq
      /\ shard \in [Shards -> Descriptor]
  BY WorkerSteps DEF TypeInv, TypeOK, BucketTypeOK, Position, Marked, Writes
<1>2. enq.step = "marker"
  BY IdleNeedsMarker DEF Early, Faultless, TypeInv, TypeOK
<1>3. /\ \A k \in Shards : Stored(shard[k])
      /\ pc[w] = "poison" => local[w].status = "failed"
      /\ pc[w] = "finish" => local[w].status = "done"
  BY <1>2 DEF Published, Ready, Held, Ahead, AtRest
<1>4. /\ marker' = marker \/ (pc[w] \in {"drop", "clear"} /\ marker' = marker \ {cur[w]})
      /\ pc'[w] \in {"drop", "clear"} => Terminal(shard[cur[w]])'
  BY <1>3, DropsFacts DEF Terminal
<1>5. Scanning(w)'
  BY <1>1, ClaimScanning, RunScanning DEF Worker
<1>6. ASSUME NEW k \in Shards, Terminal(shard[k]) PROVE shard'[k] = shard[k]
  <2>1. CASE pc[w] \in Writing /\ cur[w] = k
    BY <1>6, <2>1 DEF Held, Ahead, Writing, Owning, AtRest, Terminal
  <2>2. QED
    BY <1>1, <2>1 DEF Writes
<1>7. ASSUME NEW k \in Shards, k < enq.k PROVE Terminal(shard'[k]) \/ k \in marker'
  <2>1. Terminal(shard[k]) \/ k \in marker
    BY <1>2, <1>7 DEF Marked
  <2>2. pc[w] \in {"drop", "clear"} /\ k = cur[w] => Terminal(shard[k])
    BY DEF Marked
  <2>3. QED
    BY <1>4, <1>6, <2>1, <2>2
<1>8. \A v \in Workers : v = w
  BY DEF OneWorker
<1>9. QED
  BY <1>1, <1>4, <1>5, <1>7, <1>8 DEF Marked

\* Markers are put one by one, and none is skipped.
LEMMA ServerMarked ==
    ASSUME TypeInv, Early, Faultless, Marked, Server
    PROVE  Marked'
<1> PICK o \in Outcomes : Enqueue(o)
  BY DEF Server
<1>1. /\ enq \in EnqueueStates /\ enq.k \in Nat /\ shard \in [Shards -> Descriptor]
      /\ UNCHANGED <<pc, todo, cur>>
  BY ServerWrites DEF TypeInv, TypeOK, BucketTypeOK, EnqueueStates, scanVars
<1>2. marker \subseteq marker'
  BY DEF Enqueue, PutInputs, PutNewShard, PutJob, PutMarker, docVars, Write
<1>3. \A w \in Workers : Scanning(w)'
  BY <1>1, <1>2 DEF Marked, Scanning
<1>4. ASSUME enq.step # "marker" PROVE \A w \in Workers : pc[w] = "idle"
  BY <1>1, <1>4 DEF Early, Faultless, EnqueueStates
<1>5. CASE PutInputs(o) \/ PutNewShard(o)
  <2>1. enq.step # "marker" /\ enq.k + 1 \in Nat
    BY <1>1, <1>5 DEF PutInputs, PutNewShard
  <2>2. enq'.step # "marker"
    BY <1>1, <1>5, <2>1, GoesToFacts DEF PutInputs, PutNewShard
  <2>3. QED
    BY <1>1, <1>3, <1>4, <2>1, <2>2 DEF Marked
<1>6. CASE PutJob(o)
  <2>1. enq.step # "marker" /\ (enq'.step = "failed" \/ enq'.k = 0)
    BY <1>1, <1>6, GoesToFacts DEF PutJob
  <2>2. \A k \in Shards : ~(k < 0)
    BY ShardBounds
  <2>3. QED
    BY <1>1, <1>3, <1>4, <2>1, <2>2 DEF Marked
<1>7. CASE PutMarker(o)
  <2>1. o = "ok"
    BY <1>7, CallSucceeds DEF PutMarker
  <2>2. /\ enq.step = "marker" /\ UNCHANGED shard /\ marker' = marker \cup {enq.k}
        /\ enq' = [step |-> "marker", k |-> enq.k + 1]
    BY <1>7, <2>1 DEF PutMarker, Write, EnqueueGoesTo
  <2>3. ASSUME NEW k \in Shards, k < enq'.k PROVE Terminal(shard'[k]) \/ k \in marker'
    <3>1. k \in Nat /\ k < enq.k + 1
      BY <2>2, <2>3, ShardBounds
    <3>2. k = enq.k \/ k < enq.k
      BY <1>1, <3>1
    <3>3. QED
      BY <2>2, <3>2 DEF Marked
  <2>4. QED
    BY <1>1, <1>3, <2>2, <2>3 DEF Marked, Terminal
<1>8. QED
  BY <1>5, <1>6, <1>7 DEF Enqueue

\* A crash or a stop leaves the marker behind.
LEMMA NextMarked ==
    OneWorker /\ TypeInv /\ Published /\ Early /\ Faultless /\ Held /\ Marked /\ [Next]_vars
        => Marked'
<1> SUFFICES ASSUME OneWorker, TypeInv, Published, Early, Faultless, Held, Marked, [Next]_vars
             PROVE  Marked'
  OBVIOUS
<1>0. shard \in [Shards -> Descriptor] /\ WorkerTypeOK
  BY DEF TypeInv, TypeOK, BucketTypeOK
<1>1. CASE Server
  BY <1>1, ServerMarked
<1>2. ASSUME NEW w \in Workers, Worker(w) PROVE Marked'
  BY <1>2, WorkerMarked
<1>3. ASSUME NEW k \in Shards, LeaseLapses(k) PROVE Marked'
  <2>1. /\ UNCHANGED <<marker, enq, pc, todo, cur>>
        /\ shard' = [shard EXCEPT ![k].lease = "lapsed"]
    BY <1>3 DEF LeaseLapses, scanVars
  <2>2. ASSUME NEW j \in Shards PROVE shard'[j].status = shard[j].status
    BY <1>0, <2>1 DEF Descriptor
  <2>3. \A w \in Workers : pc[w] \in {"drop", "clear"} => cur[w] \in Shards
    BY DEF TypeInv, Position, At, AtRest
  <2>4. QED
    BY <2>1, <2>2, <2>3 DEF Marked, Scanning, Terminal
<1>4. ASSUME NEW w \in Workers, Crash(w) PROVE Marked'
  <2>1. Return(w) /\ UNCHANGED <<shard, marker, enq>>
    BY <1>4 DEF Crash, docVars
  <2>2. pc'[w] = "idle" /\ todo'[w] = {}
    BY <1>0, <2>1, ReturnScanning
  <2>3. \A v \in Workers : v = w
    BY DEF OneWorker
  <2>4. QED
    BY <2>1, <2>2, <2>3 DEF Marked, Scanning, AtRest
<1>5. ASSUME NEW w \in Workers, SignalStop(w) \/ Restart(w) PROVE Marked'
  BY <1>5 DEF SignalStop, Restart, docVars, scanVars, Marked, Scanning
<1>6. CASE UNCHANGED vars
  BY <1>6 DEF vars, docVars, scanVars, Marked, Scanning
<1>7. QED
  BY <1>1, <1>2, <1>3, <1>4, <1>5, <1>6 DEF Next, Environment

\* No marker is due.
LEMMA InitMarked == Init => Marked
BY DEF Init, Marked, Scanning, AtRest

\* With one worker on reliable storage, a shard that still needs work keeps its
\* marker, however often the worker dies or is stopped.
THEOREM SpecOutstandingHasMarker ==
    ASSUME OneWorker, MaxFaults = 0
    PROVE  Spec => []OutstandingHasMarker
<1>1. TypeInv /\ Published /\ Early /\ Faultless /\ Held /\ Marked /\ [Next]_vars => Marked'
  BY NextMarked
<1>2. Marked => OutstandingHasMarker
  <2>1. \A k \in Shards : k < NumShards
    BY NumShardsNat DEF Shards
  <2>2. QED
    BY <2>1 DEF Marked, OutstandingHasMarker, Enqueued
<1>3. Spec => []Faultless /\ []Held
  BY SpecFaultless, SpecHeld
<1>4. QED
  BY <1>1, <1>2, <1>3, InitMarked, SpecTypeInv, SpecPublished, SpecEarly, PTL DEF Spec

-----------------------------------------------------------------------------
(***************************************************************************)
(* SuccessIsServable: a render that fails overwrites the meta.json of its   *)
(* item, so no item that some results.json reports as a success may be      *)
(* rendered again.  A first attempt finds no results, and a later one       *)
(* takes over every item whose meta.json says success.                      *)
(***************************************************************************)
\* No two inputs of the job have the same content.
DistinctItems == \A a, b \in Items : RenderIdOf[a] = RenderIdOf[b] => a = b

IdAt(k, i) == RenderIdOf[Start(k) + i - 1]

\* Every success in s, the outcomes of the first items of shard k, is served.
Shown(k, s) == \A i \in Trues(s) : meta[IdAt(k, i)] = "ok"

AtRender == {"render", "meta_ok", "meta_failed"}

Servable ==
    /\ \A k \in Shards : Len(results[k]) <= ShardLen(k) /\ Shown(k, results[k])
    /\ \A k \in Shards : results[k] = <<>> \/ shard[k].attempts >= 1
    /\ \A w \in Workers : pc[w] \notin AtRest => Shown(cur[w], items[w])
    /\ \A w \in Workers : pc[w] \in Owning \cup {"claim"} =>
          /\ local[w].attempts >= 1
          /\ results[cur[w]] = <<>> \/ local[w].attempts > 1
    /\ \A w \in Workers : pc[w] \in AtRender => Len(items[w]) + 1 \notin Trues(results[cur[w]])

\* Every item of a shard has a render id of its own.
LEMMA IdsDiffer ==
    ASSUME DistinctItems, NEW j \in Shards, NEW k \in Shards,
           NEW h \in 1 .. ShardLen(j), NEW i \in 1 .. ShardLen(k), IdAt(j, h) = IdAt(k, i)
    PROVE  j = k /\ h = i
<1> DEFINE S == ShardSize
<1>1. /\ j \in Nat /\ k \in Nat /\ S \in Nat \ {0} /\ Total \in Nat
      /\ h \in Nat /\ 1 <= h /\ h <= ShardLen(j) /\ i \in Nat /\ 1 <= i /\ i <= ShardLen(k)
      /\ Start(j) = j * S /\ Start(k) = k * S /\ j * S \in Nat /\ k * S \in Nat
      /\ ShardLen(j) \in Nat /\ ShardLen(k) \in Nat
      /\ Start(j) + ShardLen(j) <= Total /\ Start(k) + ShardLen(k) <= Total
  BY ShardBounds, SizesAssumption DEF Start
<1>2. h <= S /\ i <= S
  BY <1>1 DEF ShardLen
<1>3. Start(j) + h - 1 \in Items /\ Start(k) + i - 1 \in Items
  BY <1>1 DEF Items
<1>4. j * S + h = k * S + i
  <2>1. Start(j) + h - 1 = Start(k) + i - 1
    BY <1>3 DEF DistinctItems, IdAt
  <2>2. QED
    BY <1>1, <2>1
<1>5. ASSUME NEW a \in Nat, NEW b \in Nat, a < b PROVE a * S + S <= b * S
  <2>1. PICK d \in Nat : b = a + 1 + d
    <3>1. b - (a + 1) \in Nat /\ b = a + 1 + (b - (a + 1))
      BY <1>5
    <3>2. QED
      BY <3>1
  <2>2. b * S = a * S + S + d * S /\ d * S \in Nat /\ a * S \in Nat
    BY <1>1, <2>1
  <2>3. QED
    BY <1>1, <2>2
<1>6. ~(j < k) /\ ~(k < j)
  <2>1. j < k => j * S + S <= k * S
    BY <1>1, <1>5
  <2>2. k < j => k * S + S <= j * S
    BY <1>1, <1>5
  <2>3. QED
    BY <1>1, <1>2, <1>4, <2>1, <2>2
<1>7. QED
  BY <1>1, <1>4, <1>6

\* The item in hand is the one after those counted.
LEMMA InHand ==
    ASSUME WorkerTypeOK, NEW w \in Workers, At(w), pc[w] \in AtItem
    PROVE  /\ cur[w] \in Shards /\ Len(items[w]) + 1 \in 1 .. ShardLen(cur[w])
           /\ RenderId(w) = IdAt(cur[w], Len(items[w]) + 1) /\ RenderId(w) \in RenderIds
<1>1. cur[w] \in Shards /\ Len(items[w]) \in Nat /\ Len(items[w]) < ShardLen(cur[w])
  BY DEF At, AtRest, AtItem, WorkerTypeOK
<1>2. Start(cur[w]) + (Len(items[w]) + 1) - 1 = Start(cur[w]) + Len(items[w])
  BY <1>1, ShardBounds
<1>3. QED
  BY <1>1, <1>2, ShardBounds, RenderIdType DEF RenderId, IdAt

\* A success counted is one that meta.json shows.
LEMMA OutcomeFacts ==
    ASSUME TypeInv, Faultless, NEW w \in Workers, Worker(w), pc'[w] \notin AtRest
    PROVE  \/ items'[w] = <<>>
           \/ /\ cur'[w] = cur[w] /\ pc[w] \notin AtRest
              /\ \/ items'[w] = items[w]
                 \/ /\ pc[w] \in AtItem
                    /\ \E ok \in BOOLEAN :
                          /\ items'[w] = Append(items[w], ok)
                          /\ ok => meta'[RenderId(w)] = "ok"
<1> PICK o \in Outcomes : Claim(w, o) \/ Run(w, o)
  BY DEF Worker
<1>1. WorkerTypeOK /\ At(w) /\ meta \in [RenderIds -> {"none", "ok", "failed"}]
  BY DEF TypeInv, TypeOK, BucketTypeOK, Position
<1>2. CASE Claim(w, o)
  BY <1>2, ClaimItems
<1>3. CASE Probe(w, o)
  <2>1. CASE Count(w, TRUE) /\ meta[RenderId(w)] = "ok"
    <3>1. pc[w] \in AtItem /\ UNCHANGED <<meta, todo, cur, local>>
      BY <1>3 DEF Probe, AtItem, renderVars
    <3>2. items'[w] = Append(items[w], TRUE)
      BY <1>1, <2>1, <3>1, CountFacts
    <3>3. meta'[RenderId(w)] = "ok" /\ pc[w] \notin AtRest
      BY <2>1, <3>1 DEF AtRest, AtItem
    <3>4. QED
      BY <3>1, <3>2, <3>3
  <2>2. CASE UNCHANGED tallyVars
    BY <1>3, <2>2 DEF Probe, AtRest, tallyVars
  <2>3. QED
    BY <1>3, <2>1, <2>2 DEF Probe
<1>4. CASE RenderOk(w, o)
  <2>1. o = "ok"
    BY <1>4, CallSucceeds DEF RenderOk
  <2>2. QED
    BY <1>4, <2>1 DEF RenderOk, AtRest, tallyVars
<1>5. CASE PutMeta(w, o)
  <2>1. o = "ok"
    BY <1>5, CallSucceeds DEF PutMeta
  <2>2. /\ pc[w] \in AtItem /\ pc[w] \notin AtRest /\ UNCHANGED <<todo, cur, local>>
        /\ Count(w, pc[w] = "meta_ok")
        /\ pc[w] = "meta_ok" => meta' = [meta EXCEPT ![RenderId(w)] = "ok"]
    BY <1>5, <2>1 DEF PutMeta, Write, AtItem, AtRest
  <2>3. RenderId(w) \in RenderIds
    BY <1>1, <2>2, InHand
  <2>4. DEFINE ok == pc[w] = "meta_ok"
  <2>5. ok \in BOOLEAN /\ items'[w] = Append(items[w], ok)
    BY <1>1, <2>2, CountFacts
  <2>6. ok => meta'[RenderId(w)] = "ok"
    BY <1>1, <2>2, <2>3
  <2>7. QED
    BY <2>2, <2>5, <2>6
<1>6. CASE Run(w, o) /\ ~Probe(w, o) /\ ~RenderOk(w, o) /\ ~PutMeta(w, o)
  BY <1>1, <1>6, ReturnFacts
     DEF Run, Load, LoadFails, PrepareFails, StopMidShard, ReleasePut, RenderFails,
         NoHeartbeat, Heartbeat, Abandon, Renew, PutResults, FinishPut, ClearMarker,
         tallyVars, AtRest
<1>7. QED
  BY <1>2, <1>3, <1>4, <1>5, <1>6

\* A worker comes to an item by claiming its shard, which puts no results.
LEMMA OwningSteps ==
    ASSUME WorkerTypeOK, NEW w \in Workers, NEW o \in Outcomes, Claim(w, o) \/ Run(w, o),
           pc'[w] \in Owning \cup {"claim"}
    PROVE  /\ results' = results
           /\ pc[w] = "scan" \/ pc[w] \in Owning \cup {"claim"}
<1>1. CASE Claim(w, o)
  BY <1>1, ReturnFacts
     DEF Claim, ListMarkers, ScanEnds, SkipLeased, FindStale, FindPoisoned, FindClaimable,
         PoisonPut, DropMarker, ClaimPut, ReadBack, Try, Goto, WorkerTypeOK, Owning, docVars
<1>2. CASE Run(w, o)
  BY <1>2, ReturnFacts
     DEF Run, Load, LoadFails, PrepareFails, StopMidShard, ReleasePut, Probe, RenderOk,
         RenderFails, PutMeta, Count, NoHeartbeat, Heartbeat, Abandon, Renew, AfterItem,
         PutResults, FinishPut, ClearMarker, Goto, WorkerTypeOK, Owning, docVars
<1>3. QED
  BY <1>1, <1>2

\* Edits of a descriptor keep its attempts.
LEMMA EditsKeepAttempts ==
    ASSUME WorkerTypeOK, NEW w \in Workers, Edits(w)
    PROVE  local'[w].attempts = local[w].attempts
<1>1. local[w] \in Descriptor /\ done[w] \in Nat /\ failed[w] \in Nat
  BY DEF WorkerTypeOK
<1>2. Counted(local[w], done[w], failed[w]) \in Descriptor
  BY <1>1, CountedFacts
<1>3. Counted(local[w], done[w], failed[w]).attempts = local[w].attempts
  BY <1>1 DEF Counted, Descriptor
<1>4. Finished(local[w], done[w], failed[w]).attempts = local[w].attempts
  BY <1>1 DEF Finished, Descriptor
<1>5. /\ Released(local[w]).attempts = local[w].attempts
      /\ Released(Counted(local[w], done[w], failed[w])).attempts = local[w].attempts
  BY <1>1, <1>2, <1>3, ReleasedFacts
<1>6. QED
  BY <1>3, <1>4, <1>5 DEF Edits

\* An item is rendered when it is nobody's success, or nobody has looked.
LEMMA RenderSteps ==
    ASSUME WorkerTypeOK, Faultless, NEW w \in Workers, NEW o \in Outcomes,
           Claim(w, o) \/ Run(w, o), pc'[w] \in AtRender
    PROVE  /\ cur'[w] = cur[w] /\ items'[w] = items[w] /\ results' = results
           /\ \/ pc[w] = "render"
              \/ pc[w] = "item" /\ (~IsResume(w) \/ meta[RenderId(w)] # "ok")
<1>1. ~Claim(w, o)
  BY ReturnFacts
     DEF Claim, ListMarkers, ScanEnds, SkipLeased, FindStale, FindPoisoned, FindClaimable,
         PoisonPut, DropMarker, ClaimPut, ReadBack, Try, Goto, WorkerTypeOK, AtRender
<1>2. CASE Probe(w, o)
  <2>1. o = "ok"
    BY <1>2, CallSucceeds DEF Probe
  <2>2. QED
    BY <1>2, <2>1 DEF Probe, Count, Goto, WorkerTypeOK, AtRender, docVars, tallyVars
<1>3. CASE RenderOk(w, o) \/ RenderFails(w)
  BY <1>3 DEF RenderOk, RenderFails, Count, Goto, WorkerTypeOK, AtRender, docVars, tallyVars
<1>4. CASE Run(w, o) /\ ~Probe(w, o) /\ ~RenderOk(w, o) /\ ~RenderFails(w)
  BY <1>4, ReturnFacts
     DEF Run, Load, LoadFails, PrepareFails, StopMidShard, ReleasePut, PutMeta, Count,
         NoHeartbeat, Heartbeat, Abandon, Renew, AfterItem, PutResults, FinishPut,
         ClearMarker, Goto, WorkerTypeOK, AtRender
<1>5. QED
  BY <1>1, <1>2, <1>3, <1>4

\* What was shown stays shown, unless it is the item rendered anew that fails.
LEMMA ShownStays ==
    ASSUME DistinctItems, TypeInv, NEW w \in Workers, Worker(w), NEW k \in Shards,
           NEW s \in Seq(BOOLEAN), Len(s) <= ShardLen(k), Shown(k, s),
           pc[w] = "meta_failed" => cur[w] # k \/ Len(items[w]) + 1 \notin Trues(s)
    PROVE  Shown(k, s)'
<1> SUFFICES ASSUME NEW i \in Trues(s) PROVE meta'[IdAt(k, i)] = "ok"
  BY DEF Shown
<1>1. /\ Writes(w) /\ WorkerTypeOK /\ At(w)
      /\ meta \in [RenderIds -> {"none", "ok", "failed"}] /\ meta[IdAt(k, i)] = "ok"
  BY WorkerSteps DEF TypeInv, TypeOK, BucketTypeOK, Position, Shown
<1>2. i \in 1 .. ShardLen(k)
  BY ShardBounds DEF Trues
<1>3. IdAt(k, i) \in RenderIds
  <2>1. Start(k) + i - 1 \in Items
    BY <1>2, ShardBounds, SizesAssumption DEF Items
  <2>2. QED
    BY <2>1, RenderIdsAssumption DEF IdAt
<1>4. CASE meta' = meta \/ (pc[w] = "meta_ok" /\ meta' = [meta EXCEPT ![RenderId(w)] = "ok"])
  BY <1>1, <1>3, <1>4
<1>5. CASE pc[w] = "meta_failed" /\ meta' = [meta EXCEPT ![RenderId(w)] = "failed"]
  <2>1. /\ cur[w] \in Shards /\ Len(items[w]) + 1 \in 1 .. ShardLen(cur[w])
        /\ RenderId(w) = IdAt(cur[w], Len(items[w]) + 1)
    BY <1>1, <1>5, InHand DEF AtItem
  <2>2. RenderId(w) # IdAt(k, i)
    BY <1>2, <1>5, <2>1, IdsDiffer
  <2>3. QED
    BY <1>1, <1>3, <1>5, <2>2
<1>6. QED
  BY <1>1, <1>4, <1>5 DEF Writes

\* The worker renders an item again only if no results report it as a success,
\* and reports a success only with its meta.json.
LEMMA WorkerServable ==
    ASSUME DistinctItems, OneWorker, TypeInv, Faultless, Held, Servable,
           NEW w \in Workers, Worker(w)
    PROVE  Servable'
<1> PICK o \in Outcomes : Claim(w, o) \/ Run(w, o)
  BY DEF Worker
<1>1. /\ Writes(w) /\ WorkerTypeOK /\ At(w) /\ shard \in [Shards -> Descriptor]
      /\ results \in [Shards -> Seq(BOOLEAN)] /\ items[w] \in Seq(BOOLEAN)
      /\ local[w].attempts \in Nat
  BY WorkerSteps DEF TypeInv, TypeOK, BucketTypeOK, WorkerTypeOK, Position, Descriptor
<1>2. /\ pc[w] \notin AtRest => cur[w] \in Shards /\ Shown(cur[w], items[w])
      /\ pc[w] \in Owning \cup {"claim"} =>
            /\ local[w].attempts >= 1
            /\ results[cur[w]] = <<>> \/ local[w].attempts > 1
      /\ pc[w] \in AtRender => Len(items[w]) + 1 \notin Trues(results[cur[w]])
  BY <1>1 DEF Servable, At
<1>3. ASSUME NEW k \in Shards
      PROVE  Len(results'[k]) <= ShardLen(k) /\ Shown(k, results[k])'
  <2>1. /\ results[k] \in Seq(BOOLEAN) /\ Len(results[k]) <= ShardLen(k)
        /\ Shown(k, results[k])
    BY <1>1 DEF Servable
  <2>2. pc[w] = "meta_failed" => cur[w] # k \/ Len(items[w]) + 1 \notin Trues(results[k])
    BY <1>2 DEF AtRender
  <2>3. ASSUME NEW s, s = results[k] PROVE Shown(k, s)'
    BY <2>1, <2>2, <2>3, ShownStays
  <2>4. CASE results'[k] = results[k]
    BY <2>1, <2>3, <2>4 DEF Shown
  <2>5. CASE results'[k] # results[k]
    <3>1. pc[w] = "results" /\ k = cur[w] /\ results'[k] = items[w] /\ meta' = meta
      BY <1>1, <2>5 DEF Writes
    <3>2. Len(items[w]) = ShardLen(k) /\ Shown(k, items[w]) /\ ShardLen(k) \in Nat
      BY <1>1, <1>2, <3>1, ShardBounds DEF At, AtRest
    <3>3. QED
      BY <3>1, <3>2 DEF Shown
  <2>6. QED
    BY <2>4, <2>5
<1>4. ASSUME NEW k \in Shards PROVE results'[k] = <<>> \/ shard'[k].attempts >= 1
  <2>1. shard[k].attempts \in Nat /\ (results[k] = <<>> \/ shard[k].attempts >= 1)
    BY <1>1 DEF Servable, Descriptor
  <2>2. shard'[k].attempts >= shard[k].attempts
    <3>1. CASE pc[w] \in Writing /\ k = cur[w] /\ shard'[k] = local[w]
      BY <1>1, <2>1, <3>1 DEF Held, Ahead, Writing, Owning, AtRest
    <3>2. CASE shard'[k] = shard[k]
      BY <2>1, <3>2
    <3>3. QED
      BY <1>1, <3>1, <3>2 DEF Writes
  <2>3. CASE results'[k] = results[k]
    <3>1. shard'[k].attempts \in Nat
      BY <1>1, NextTypeInv DEF Next, TypeInv, TypeOK, BucketTypeOK, Descriptor
    <3>2. QED
      BY <2>1, <2>2, <2>3, <3>1
  <2>4. CASE pc[w] = "results" /\ k = cur[w]
    <3>1. shard[k].attempts = local[w].attempts /\ local[w].attempts >= 1
      BY <1>2, <2>4 DEF Held, Ahead, Owning, AtRest
    <3>2. shard' = shard
      BY <1>1, <2>4 DEF Writes, Writing
    <3>3. QED
      BY <3>1, <3>2
  <2>5. QED
    BY <1>1, <2>3, <2>4 DEF Writes
<1>5. ASSUME pc'[w] \notin AtRest PROVE Shown(cur[w], items[w])'
  <2>1. CASE items'[w] = <<>>
    BY <2>1 DEF Shown, Trues
  <2>2. CASE cur'[w] = cur[w] /\ pc[w] \notin AtRest /\ items'[w] = items[w]
    <3>1. CASE meta' = meta
      BY <1>2, <2>2, <3>1 DEF Shown
    <3>2. CASE pc[w] \in {"meta_ok", "meta_failed"}
      <4>1. cur[w] \in Shards /\ Len(items[w]) \in Nat /\ Len(items[w]) < ShardLen(cur[w])
        BY <1>1, <1>2, <2>2, <3>2 DEF At, AtItem
      <4>2. Len(items[w]) <= ShardLen(cur[w]) /\ Len(items[w]) + 1 \notin Trues(items[w])
        BY <1>1, <4>1, ShardBounds DEF Trues
      <4>3. ASSUME NEW k, NEW s, k = cur[w], s = items[w] PROVE Shown(k, s)'
        BY <1>1, <1>2, <2>2, <4>1, <4>2, <4>3, ShownStays
      <4>4. QED
        BY <2>2, <4>3 DEF Shown
    <3>3. QED
      BY <1>1, <3>1, <3>2 DEF Writes
  <2>3. ASSUME NEW ok \in BOOLEAN, cur'[w] = cur[w], pc[w] \in AtItem,
               items'[w] = Append(items[w], ok), ok => meta'[RenderId(w)] = "ok"
        PROVE  Shown(cur[w], items[w])'
    <3>1. /\ cur[w] \in Shards /\ Len(items[w]) + 1 \in 1 .. ShardLen(cur[w])
          /\ RenderId(w) = IdAt(cur[w], Len(items[w]) + 1) /\ Len(items[w]) \in Nat
          /\ pc[w] \notin AtRest
      BY <1>1, <2>3, InHand DEF AtItem, AtRest
    <3>2. Len(items[w]) <= ShardLen(cur[w]) /\ Len(items[w]) + 1 \notin Trues(items[w])
      BY <1>1, <3>1, ShardBounds DEF Trues
    <3>3. ASSUME NEW k, NEW s, k = cur[w], s = items[w] PROVE Shown(k, s)'
      BY <1>1, <1>2, <3>1, <3>2, <3>3, ShownStays
    <3>4. ASSUME NEW i \in Trues(items'[w]) PROVE meta'[IdAt(cur'[w], i)] = "ok"
      <4>1. i \in Trues(items[w]) \/ (ok /\ i = Len(items[w]) + 1)
        BY <1>1, <2>3, <3>4 DEF Trues
      <4>2. QED
        BY <2>3, <3>1, <3>3, <4>1 DEF Shown
    <3>5. QED
      BY <3>4 DEF Shown
  <2>4. QED
    BY <1>5, <2>1, <2>2, <2>3, OutcomeFacts
<1>6. ASSUME pc'[w] \in Owning \cup {"claim"}
      PROVE  /\ local'[w].attempts >= 1
             /\ results'[cur'[w]] = <<>> \/ local'[w].attempts > 1
  <2>1. /\ results' = results /\ pc'[w] \notin AtRest
        /\ pc[w] = "scan" \/ pc[w] \in Owning \cup {"claim"}
    BY <1>1, <1>6, OwningSteps DEF Owning, AtRest
  <2>2. CASE Edits(w)
    BY <1>1, <1>2, <2>1, <2>2, EditsKeepAttempts DEF Edits, AtRest
  <2>3. ASSUME NEW k \in Shards, Takes(w, k)
        PROVE  /\ local'[w].attempts >= 1
               /\ results'[cur'[w]] = <<>> \/ local'[w].attempts > 1
    <3>1. cur'[w] = k /\ local'[w] = Claimed(shard[k], w)
      BY <1>6, <2>3 DEF Takes, Owning
    <3>2. shard[k] \in Descriptor /\ shard[k].attempts \in Nat
      BY <1>1 DEF Descriptor
    <3>3. local'[w].attempts = shard[k].attempts + 1
      BY <3>1, <3>2, ClaimedFacts
    <3>4. QED
      BY <2>1, <3>1, <3>2, <3>3 DEF Servable
  <2>4. QED
    BY <2>1, <2>2, <2>3, WorkerHolds
<1>7. ASSUME pc'[w] \in AtRender PROVE Len(items'[w]) + 1 \notin Trues(results'[cur'[w]])
  <2>1. /\ cur'[w] = cur[w] /\ items'[w] = items[w] /\ results' = results
        /\ \/ pc[w] = "render"
           \/ pc[w] = "item" /\ (~IsResume(w) \/ meta[RenderId(w)] # "ok")
    BY <1>1, <1>7, RenderSteps
  <2>2. CASE pc[w] = "render"
    BY <1>2, <2>1, <2>2 DEF AtRender
  <2>3. CASE pc[w] = "item" /\ ~IsResume(w)
    <3>1. results[cur[w]] = <<>>
      BY <1>1, <1>2, <2>3 DEF IsResume, Owning
    <3>2. QED
      BY <2>1, <3>1 DEF Trues
  <2>4. CASE pc[w] = "item" /\ meta[RenderId(w)] # "ok"
    <3>1. cur[w] \in Shards /\ RenderId(w) = IdAt(cur[w], Len(items[w]) + 1)
      BY <1>1, <2>4, InHand DEF AtItem
    <3>2. Shown(cur[w], results[cur[w]])
      BY <3>1 DEF Servable
    <3>3. QED
      BY <2>1, <2>4, <3>1, <3>2 DEF Shown
  <2>5. QED
    BY <2>1, <2>2, <2>3, <2>4
<1>8. \A v \in Workers : v = w
  BY DEF OneWorker
<1>9. QED
  BY <1>3, <1>4, <1>5, <1>6, <1>7, <1>8 DEF Servable, Shown

\* A shard that is published has no results yet.
LEMMA ServerServable ==
    ASSUME TypeInv, Early, Servable, Server
    PROVE  Servable'
<1>1. /\ UNCHANGED <<results, meta, pc, cur, local, items>>
      /\ shard \in [Shards -> Descriptor] /\ EnqueueAt /\ enq.k \in Nat /\ NumShards \in Nat
  BY ServerWrites, NumShardsNat
     DEF renderVars, scanVars, tallyVars, TypeInv, TypeOK, BucketTypeOK, Position
<1>2. ASSUME NEW k \in Shards PROVE results[k] = <<>> \/ shard'[k].attempts >= 1
  <2>1. results[k] = <<>> \/ shard[k].attempts >= 1
    BY DEF Servable
  <2>2. CASE shard'[k] = shard[k]
    BY <2>1, <2>2
  <2>3. CASE shard'[k] # shard[k]
    <3>1. enq.step = "shard" /\ k = enq.k
      BY <1>1, <2>3, ServerWrites
    <3>2. shard[k] = NoShard
      BY <1>1, <3>1, ShardBounds DEF Early
    <3>3. shard[k].attempts = 0
      BY <3>2 DEF NoShard
    <3>4. QED
      BY <2>1, <3>3
  <2>4. QED
    BY <2>2, <2>3
<1>3. QED
  BY <1>1, <1>2 DEF Servable, Shown

\* Nobody else writes results or meta.json.
LEMMA NextServable ==
    DistinctItems /\ OneWorker /\ TypeInv /\ Early /\ Faultless /\ Held /\ Servable /\ [Next]_vars
        => Servable'
<1> SUFFICES ASSUME DistinctItems, OneWorker, TypeInv, Early, Faultless, Held, Servable,
                    [Next]_vars
             PROVE  Servable'
  OBVIOUS
<1>0. shard \in [Shards -> Descriptor] /\ WorkerTypeOK
  BY DEF TypeInv, TypeOK, BucketTypeOK
<1>1. CASE Server
  BY <1>1, ServerServable
<1>2. ASSUME NEW w \in Workers, Worker(w) PROVE Servable'
  BY <1>2, WorkerServable
<1>3. ASSUME NEW k \in Shards, LeaseLapses(k) PROVE Servable'
  <2>1. /\ UNCHANGED <<results, meta, pc, cur, local, items>>
        /\ shard' = [shard EXCEPT ![k].lease = "lapsed"]
    BY <1>3 DEF LeaseLapses, renderVars, scanVars, tallyVars
  <2>2. ASSUME NEW j \in Shards PROVE shard'[j].attempts = shard[j].attempts
    BY <1>0, <2>1 DEF Descriptor
  <2>3. QED
    BY <2>1, <2>2 DEF Servable, Shown
<1>4. ASSUME NEW w \in Workers, Crash(w) PROVE Servable'
  <2>1. Return(w) /\ UNCHANGED <<shard, results, meta>>
    BY <1>4 DEF Crash, docVars, renderVars
  <2>2. pc'[w] = "idle"
    BY <1>0, <2>1, ReturnFacts
  <2>3. \A v \in Workers : v = w
    BY DEF OneWorker
  <2>4. QED
    BY <2>1, <2>2, <2>3 DEF Servable, Shown, AtRest, Owning, AtRender
<1>5. ASSUME NEW w \in Workers, SignalStop(w) \/ Restart(w) PROVE Servable'
  BY <1>5 DEF SignalStop, Restart, docVars, renderVars, scanVars, tallyVars, Servable, Shown
<1>6. CASE UNCHANGED vars
  BY <1>6 DEF vars, docVars, renderVars, scanVars, tallyVars, Servable, Shown
<1>7. QED
  BY <1>1, <1>2, <1>3, <1>4, <1>5, <1>6 DEF Next, Environment

\* Nothing is reported yet.
LEMMA InitServable == Init => Servable
<1> SUFFICES ASSUME Init PROVE Servable
  OBVIOUS
<1>1. /\ \A k \in Shards : results[k] = <<>> /\ ShardLen(k) \in Nat
      /\ \A w \in Workers : pc[w] = "idle"
  BY ShardBounds DEF Init, NoResults
<1>2. \A k \in Shards : Len(results[k]) <= ShardLen(k) /\ Shown(k, results[k])
  BY <1>1 DEF Shown, Trues
<1>3. QED
  BY <1>1, <1>2 DEF Servable, AtRest, Owning, AtRender

\* With one worker on reliable storage and inputs of distinct content,
\* get_render_pdf serves every item that a results.json reports as a success,
\* however often its shard is reclaimed.
THEOREM SpecSuccessIsServable ==
    ASSUME DistinctItems, OneWorker, MaxFaults = 0
    PROVE  Spec => []SuccessIsServable
<1>1. TypeInv /\ Early /\ Faultless /\ Held /\ Servable /\ [Next]_vars => Servable'
  BY NextServable
<1>2. Servable => SuccessIsServable
  BY DEF Servable, SuccessIsServable, Shown, IdAt, Trues, Successes
<1>3. Spec => []Faultless /\ []Held
  BY SpecFaultless, SpecHeld
<1>4. QED
  BY <1>1, <1>2, <1>3, InitServable, SpecTypeInv, SpecEarly, PTL DEF Spec
=============================================================================
