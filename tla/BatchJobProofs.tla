--------------------------- MODULE BatchJobProofs ---------------------------
(***************************************************************************)
(* Proofs of the safety properties of BatchJob, for every number of workers *)
(* and shards and every bound on failures.                                  *)
(*                                                                          *)
(* TypeInv is the base invariant: types, and where in its shard each worker *)
(* is.  The lemmas on what a step may write to the bucket are proved once   *)
(* from the actions; the other invariants rest on them.                     *)
(***************************************************************************)
EXTENDS BatchJob, TLAPS

-----------------------------------------------------------------------------
(***************************************************************************)
(* The shards of the job, and the edits of a descriptor.                    *)
(***************************************************************************)

\* div_ceil gives a natural number of shards.
LEMMA NumShardsNat == NumShards \in Nat
BY SizesAssumption DEF NumShards

\* No shard is empty and none reaches past the last input.
LEMMA ShardBounds ==
    ASSUME NEW k \in Shards
    PROVE  /\ k \in Nat
           /\ Start(k) \in Nat
           /\ ShardLen(k) \in Nat \ {0}
           /\ Start(k) + ShardLen(k) <= Total
<1>1. k \in Nat /\ k + 1 <= NumShards
  BY NumShardsNat DEF Shards
<1>2. NumShards * ShardSize <= Total + ShardSize - 1
  BY SizesAssumption DEF NumShards
<1>3. (k + 1) * ShardSize <= NumShards * ShardSize
  BY <1>1, NumShardsNat, SizesAssumption
<1>4. (k + 1) * ShardSize = k * ShardSize + ShardSize
  BY <1>1, SizesAssumption
<1>5. k * ShardSize \in Nat
  BY <1>1, SizesAssumption
<1>6. k * ShardSize < Total
  BY <1>2, <1>3, <1>4, <1>5, NumShardsNat, SizesAssumption
<1>7. QED
  BY <1>1, <1>5, <1>6, SizesAssumption DEF Start, ShardLen


\* The two descriptors the code starts from.
LEMMA ConstantsTyped == NoShard \in Descriptor /\ NewShard \in Descriptor
<1>1. NoShard \in Descriptor
  BY DEF Descriptor, NoShard
<1>2. NewShard \in Descriptor
  BY DEF Descriptor, NewShard
<1>3. QED
  BY <1>1, <1>2

\* A claim counts an attempt and keeps the counts.
LEMMA ClaimedFacts ==
    ASSUME NEW d \in Descriptor, NEW w \in Workers
    PROVE  /\ Claimed(d, w) \in Descriptor
           /\ Claimed(d, w).status = "running"
           /\ Claimed(d, w).attempts = d.attempts + 1
           /\ Claimed(d, w).done = d.done /\ Claimed(d, w).failed = d.failed
<1>1. d.attempts + 1 \in Nat
  BY DEF Descriptor
<1>2. Claimed(d, w) \in Descriptor
  BY <1>1 DEF Descriptor, Claimed
<1>3. Claimed(d, w).status = "running" /\ Claimed(d, w).attempts = d.attempts + 1
  BY DEF Descriptor, Claimed
<1>4. Claimed(d, w).done = d.done /\ Claimed(d, w).failed = d.failed
  BY DEF Descriptor, Claimed
<1>5. QED
  BY <1>2, <1>3, <1>4

\* Giving a shard up keeps its attempts and counts.
LEMMA PoisonedFacts ==
    ASSUME NEW d \in Descriptor
    PROVE  /\ Poisoned(d) \in Descriptor
           /\ Poisoned(d).status = "failed"
           /\ Poisoned(d).attempts = d.attempts
           /\ Poisoned(d).done = d.done /\ Poisoned(d).failed = d.failed
BY DEF Descriptor, Poisoned

\* So does giving it back.
LEMMA ReleasedFacts ==
    ASSUME NEW d \in Descriptor
    PROVE  /\ Released(d) \in Descriptor
           /\ Released(d).status = "pending"
           /\ Released(d).attempts = d.attempts
           /\ Released(d).done = d.done /\ Released(d).failed = d.failed
BY DEF Descriptor, Released

\* New counts leave status and attempts alone.
LEMMA CountedFacts ==
    ASSUME NEW d \in Descriptor, NEW n \in Nat, NEW m \in Nat
    PROVE  /\ Counted(d, n, m) \in Descriptor
           /\ Counted(d, n, m).status = d.status
           /\ Counted(d, n, m).attempts = d.attempts
           /\ Counted(d, n, m).done = n /\ Counted(d, n, m).failed = m
BY DEF Descriptor, Counted

\* The last descriptor of a run is Done with its final counts.
LEMMA FinishedFacts ==
    ASSUME NEW d \in Descriptor, NEW n \in Nat, NEW m \in Nat
    PROVE  /\ Finished(d, n, m) \in Descriptor
           /\ Finished(d, n, m).status = "done"
           /\ Finished(d, n, m).attempts = d.attempts
           /\ Finished(d, n, m).done = n /\ Finished(d, n, m).failed = m
BY DEF Descriptor, Finished

-----------------------------------------------------------------------------
(***************************************************************************)
(* The base invariant.                                                      *)
(***************************************************************************)
AtRest == {"idle", "scan"}
Claiming == {"drop", "poison", "claim", "readback", "load"}
AtItem == {"item", "render", "meta_ok", "meta_failed"}

\* Where worker w is in the shard it is busy with.
At(w) ==
    /\ pc[w] \notin AtRest => cur[w] \in Shards
    /\ pc[w] \in AtRest \cup Claiming => items[w] = <<>>
    /\ pc[w] \in AtItem => Len(items[w]) < ShardLen(cur[w])
    /\ pc[w] \in {"beat", "renew"} => Len(items[w]) <= ShardLen(cur[w])
    /\ pc[w] = "results" => Len(items[w]) = ShardLen(cur[w])
    /\ pc[w] = "release" => Len(items[w]) <= ShardLen(cur[w])
    /\ done[w] + failed[w] = Len(items[w])

\* Where the server is in the job it enqueues.
EnqueueAt ==
    /\ enq.step = "inputs" => enq.k <= NumShards
    /\ enq.step = "shard" => enq.k < NumShards

Position == EnqueueAt /\ \A w \in Workers : At(w)

TypeInv == TypeOK /\ Position

\* The render id of the item in hand is one of RenderIds.
LEMMA RenderIdType ==
    ASSUME WorkerTypeOK, NEW w \in Workers, At(w), pc[w] \in AtItem
    PROVE  RenderId(w) \in RenderIds
<1>1. cur[w] \in Shards /\ Len(items[w]) \in Nat /\ Len(items[w]) < ShardLen(cur[w])
  BY DEF WorkerTypeOK, At, AtItem, AtRest
<1>2. Start(cur[w]) + Len(items[w]) \in Items
  BY <1>1, ShardBounds, SizesAssumption DEF Items
<1>3. QED
  BY <1>2, RenderIdsAssumption DEF RenderId

\* The empty bucket and the idle workers the program starts with.
LEMMA InitTypeInv == Init => TypeInv
<1> SUFFICES ASSUME Init PROVE TypeInv
  OBVIOUS
<1>1. BucketTypeOK
  <2>1. /\ inputs \subseteq Shards /\ job \in BOOLEAN /\ marker \subseteq Shards
        /\ shard \in [Shards -> Descriptor]
    BY ConstantsTyped DEF Init
  <2>2. results \in [Shards -> Seq(BOOLEAN)]
    BY DEF Init, NoResults
  <2>3. pdf \subseteq RenderIds /\ meta \in [RenderIds -> {"none", "ok", "failed"}]
    BY DEF Init
  <2>4. QED
    BY <2>1, <2>2, <2>3 DEF BucketTypeOK
<1>2. WorkerTypeOK
  <2>1. pc \in [Workers -> Steps] /\ todo \in [Workers -> SUBSET Shards]
    BY DEF Init, Steps
  <2>2. cur \in [Workers -> Nat] /\ local \in [Workers -> Descriptor]
    BY ConstantsTyped DEF Init
  <2>3. /\ items \in [Workers -> Seq(BOOLEAN)]
        /\ done \in [Workers -> Nat] /\ failed \in [Workers -> Nat]
    BY DEF Init
  <2>4. QED
    BY <2>1, <2>2, <2>3 DEF WorkerTypeOK
<1>3. enq \in [step : {"inputs", "shard", "marker", "failed"}, k : Nat]
  BY DEF Init
<1>4. stop \in [Workers -> BOOLEAN] /\ faults \in Nat /\ crashes \in Nat /\ stops \in Nat
  BY BoundsAssumption DEF Init
<1>5. Position
  BY NumShardsNat DEF Init, Position, EnqueueAt, At, AtRest, Claiming, AtItem
<1>6. QED
  BY <1>1, <1>2, <1>3, <1>4, <1>5 DEF TypeInv, TypeOK

-----------------------------------------------------------------------------
(***************************************************************************)
(* What the shared parts of the actions do.                                 *)
(***************************************************************************)

\* Nothing that worker v knows changes.
Same(v) ==
    /\ pc'[v] = pc[v] /\ todo'[v] = todo[v] /\ cur'[v] = cur[v] /\ local'[v] = local[v]
    /\ items'[v] = items[v] /\ done'[v] = done[v] /\ failed'[v] = failed[v]

\* A worker nothing happens to stays where it is.
LEMMA SameAt == ASSUME NEW v \in Workers, At(v), Same(v) PROVE At(v)'
BY DEF At, Same

\* Return leaves a worker idle with empty hands.
LEMMA ReturnFacts ==
    ASSUME WorkerTypeOK, NEW w \in Workers, Return(w)
    PROVE  /\ WorkerTypeOK'
           /\ At(w)'
           /\ pc'[w] = "idle" /\ cur'[w] = 0 /\ local'[w] = NoShard
           /\ \A v \in Workers \ {w} : Same(v)
<1> USE DEF Return, WorkerTypeOK, Goto, Keep
<1>1. pc' \in [Workers -> Steps]
  BY DEF Steps
<1>2. todo' \in [Workers -> SUBSET Shards] /\ cur' \in [Workers -> Nat]
  OBVIOUS
<1>3. local' \in [Workers -> Descriptor]
  BY ConstantsTyped
<1>4. items' \in [Workers -> Seq(BOOLEAN)]
  OBVIOUS
<1>5. done' \in [Workers -> Nat] /\ failed' \in [Workers -> Nat]
  OBVIOUS
<1>6. At(w)'
  BY DEF At, AtRest, Claiming, AtItem
<1>7. pc'[w] = "idle" /\ cur'[w] = 0 /\ local'[w] = NoShard
  OBVIOUS
<1>8. ASSUME NEW v \in Workers \ {w} PROVE Same(v)
  BY <1>8 DEF Same
<1>9. QED
  BY <1>1, <1>2, <1>3, <1>4, <1>5, <1>6, <1>7, <1>8

\* Try takes a worker to a marker's shard with the descriptor it will write.
LEMMA TryFacts ==
    ASSUME WorkerTypeOK, NEW w \in Workers, At(w), NEW k \in Shards,
           NEW step \in {"scan", "drop", "poison", "claim"}, NEW d \in Descriptor,
           Try(w, k, step, d)
    PROVE  /\ WorkerTypeOK'
           /\ At(w)'
           /\ pc'[w] = step /\ cur'[w] = k /\ local'[w] = d
           /\ \A v \in Workers \ {w} : Same(v)
<1> USE DEF Try, WorkerTypeOK, Goto, Keep, tallyVars
<1>1. pc' \in [Workers -> Steps]
  BY DEF Steps
<1>2. todo' \in [Workers -> SUBSET Shards]
  OBVIOUS
<1>3. cur' \in [Workers -> Nat]
  BY ShardBounds
<1>4. local' \in [Workers -> Descriptor]
  OBVIOUS
<1>5. WorkerTypeOK'
  BY <1>1, <1>2, <1>3, <1>4
<1>6. At(w)'
  BY DEF At, AtRest, Claiming, AtItem
<1>7. pc'[w] = step /\ cur'[w] = k /\ local'[w] = d
  OBVIOUS
<1>8. ASSUME NEW v \in Workers \ {w} PROVE Same(v)
  BY <1>8 DEF Same
<1>9. QED
  BY <1>5, <1>6, <1>7, <1>8

\* Count moves on by one item and one count.
LEMMA CountFacts ==
    ASSUME WorkerTypeOK, NEW w \in Workers, At(w), pc[w] \in AtItem,
           NEW ok \in BOOLEAN, Count(w, ok), UNCHANGED <<todo, cur, local>>
    PROVE  /\ WorkerTypeOK'
           /\ At(w)'
           /\ pc'[w] = "beat" /\ items'[w] = Append(items[w], ok)
           /\ \A v \in Workers \ {w} : Same(v)
<1> USE DEF Count, WorkerTypeOK, Goto
<1>1. pc' \in [Workers -> Steps] /\ pc'[w] = "beat"
  BY DEF Steps
<1>2. Append(items[w], ok) \in Seq(BOOLEAN) /\ Len(Append(items[w], ok)) = Len(items[w]) + 1
  OBVIOUS
<1>3. items' = [items EXCEPT ![w] = Append(items[w], ok)]
  OBVIOUS
<1>4. items' \in [Workers -> Seq(BOOLEAN)] /\ items'[w] = Append(items[w], ok)
  BY <1>2, <1>3
<1>5. done' \in [Workers -> Nat] /\ failed' \in [Workers -> Nat]
  OBVIOUS
<1>6. done'[w] + failed'[w] = done[w] + failed[w] + 1
  OBVIOUS
<1>7. WorkerTypeOK'
  BY <1>1, <1>4, <1>5
<1>8. At(w)'
  <2>1. cur[w] \in Shards /\ cur'[w] = cur[w] /\ Len(items[w]) < ShardLen(cur[w])
    BY DEF At, AtRest, AtItem
  <2>2. Len(items'[w]) = Len(items[w]) + 1 /\ Len(items[w]) \in Nat
    BY <1>2, <1>4
  <2>3. Len(items'[w]) <= ShardLen(cur'[w])
    BY <2>1, <2>2, ShardBounds
  <2>4. done'[w] + failed'[w] = Len(items'[w])
    BY <1>6, <2>2 DEF At
  <2>5. QED
    BY <1>1, <2>1, <2>3, <2>4 DEF At, AtRest, Claiming, AtItem
<1>9. ASSUME NEW v \in Workers \ {w} PROVE Same(v)
  BY <1>9 DEF Same
<1>10. QED
  BY <1>1, <1>4, <1>7, <1>8, <1>9

\* A step that changes pc alone, or pc and the descriptor in hand.
LEMMA GotoFacts ==
    ASSUME WorkerTypeOK, NEW w \in Workers, NEW step \in Steps, Goto(w, step),
           UNCHANGED <<cur, tallyVars>>,
           todo' = todo \/ \E s \in SUBSET Shards : todo' = [todo EXCEPT ![w] = s],
           local' = local \/ \E d \in Descriptor : Keep(w, d)
    PROVE  /\ WorkerTypeOK'
           /\ pc'[w] = step
           /\ \A v \in Workers \ {w} : Same(v)
<1> USE DEF WorkerTypeOK, Goto, Keep, tallyVars
<1>1. pc' \in [Workers -> Steps] /\ pc'[w] = step
  OBVIOUS
<1>2. todo' \in [Workers -> SUBSET Shards]
  OBVIOUS
<1>3. local' \in [Workers -> Descriptor]
  OBVIOUS
<1>4. WorkerTypeOK'
  BY <1>1, <1>2, <1>3
<1>5. ASSUME NEW v \in Workers \ {w} PROVE Same(v)
  BY <1>5 DEF Same
<1>6. QED
  BY <1>1, <1>4, <1>5

-----------------------------------------------------------------------------
(***************************************************************************)
(* Every step of a worker keeps the types of what workers know, keeps the   *)
(* worker inside its shard, and leaves the other workers alone.             *)
(***************************************************************************)
Moves(w) == WorkerTypeOK' /\ At(w)' /\ \A v \in Workers \ {w} : Same(v)

\* claim_next_shard: the base invariant of the claiming worker.
LEMMA ClaimMoves ==
    ASSUME TypeInv, NEW w \in Workers, NEW o \in Outcomes, Claim(w, o)
    PROVE  Moves(w)
<1> USE DEF Moves, Steps
<1>0. BucketTypeOK /\ WorkerTypeOK /\ At(w)
  BY DEF TypeInv, TypeOK, Position
<1>1. CASE ListMarkers(w)
  <2>1. pc[w] = "idle" /\ Goto(w, "scan") /\ marker \subseteq Shards
    BY <1>0, <1>1 DEF ListMarkers, BucketTypeOK
  <2>2. WorkerTypeOK' /\ pc'[w] = "scan" /\ \A v \in Workers \ {w} : Same(v)
    BY <1>0, <1>1, <2>1, GotoFacts DEF ListMarkers
  <2>3. At(w)'
    BY <1>0, <1>1, <2>1, <2>2 DEF At, AtRest, Claiming, AtItem, ListMarkers, tallyVars
  <2>4. QED
    BY <2>2, <2>3
<1>2. CASE ScanEnds(w)
  BY <1>0, <1>2, ReturnFacts DEF ScanEnds
<1>3. ASSUME NEW k \in Shards,
             SkipLeased(w, k) \/ FindStale(w, k, o) \/ FindPoisoned(w, k) \/ FindClaimable(w, k)
      PROVE  Moves(w)
  <2>1. shard[k] \in Descriptor
    BY <1>0 DEF BucketTypeOK
  <2>2. /\ NoShard \in Descriptor
        /\ Poisoned(shard[k]) \in Descriptor
        /\ Claimed(shard[k], w) \in Descriptor
    BY <2>1, ConstantsTyped, PoisonedFacts, ClaimedFacts
  <2>3. CASE SkipLeased(w, k)
    BY <1>0, <2>2, <2>3, TryFacts DEF SkipLeased
  <2>4. CASE FindStale(w, k, o)
    BY <1>0, <2>2, <2>4, TryFacts DEF FindStale
  <2>5. CASE FindPoisoned(w, k)
    BY <1>0, <2>2, <2>5, TryFacts DEF FindPoisoned
  <2>6. CASE FindClaimable(w, k)
    BY <1>0, <2>2, <2>6, TryFacts DEF FindClaimable
  <2>7. QED
    BY <1>3, <2>3, <2>4, <2>5, <2>6
<1>4. CASE PoisonPut(w, o)
  <2>1. pc[w] = "poison" /\ Goto(w, "drop") /\ UNCHANGED <<todo, cur, local, tallyVars>>
    BY <1>4 DEF PoisonPut
  <2>2. WorkerTypeOK' /\ pc'[w] = "drop" /\ \A v \in Workers \ {w} : Same(v)
    BY <1>0, <2>1, GotoFacts
  <2>3. At(w)'
    BY <1>0, <2>1, <2>2 DEF At, AtRest, Claiming, AtItem, tallyVars
  <2>4. QED
    BY <2>2, <2>3
<1>5. CASE DropMarker(w, o)
  <2>1. pc[w] = "drop" /\ Goto(w, "scan") /\ UNCHANGED <<todo, cur, local, tallyVars>>
    BY <1>5 DEF DropMarker
  <2>2. WorkerTypeOK' /\ pc'[w] = "scan" /\ \A v \in Workers \ {w} : Same(v)
    BY <1>0, <2>1, GotoFacts
  <2>3. At(w)'
    BY <1>0, <2>1, <2>2 DEF At, AtRest, Claiming, AtItem, tallyVars
  <2>4. QED
    BY <2>2, <2>3
<1>6. CASE ClaimPut(w, o)
  <2>1. CASE Return(w)
    BY <1>0, <2>1, ReturnFacts
  <2>2. CASE Goto(w, "readback") /\ UNCHANGED <<todo, cur, local, tallyVars>>
    <3>1. WorkerTypeOK' /\ pc'[w] = "readback" /\ \A v \in Workers \ {w} : Same(v)
      BY <1>0, <2>2, GotoFacts
    <3>2. At(w)'
      BY <1>0, <1>6, <2>2, <3>1 DEF ClaimPut, At, AtRest, Claiming, AtItem, tallyVars
    <3>3. QED
      BY <3>1, <3>2
  <2>3. QED
    BY <1>6, <2>1, <2>2 DEF ClaimPut
<1>7. CASE ReadBack(w, o)
  <2>1. pc[w] = "readback" /\ UNCHANGED <<cur, tallyVars>>
    BY <1>7 DEF ReadBack
  <2>2. CASE Goto(w, "scan") /\ Keep(w, NoShard) /\ UNCHANGED todo
    <3>1. WorkerTypeOK' /\ pc'[w] = "scan" /\ \A v \in Workers \ {w} : Same(v)
      BY <1>0, <2>1, <2>2, ConstantsTyped, GotoFacts
    <3>2. At(w)'
      BY <1>0, <2>1, <2>2, <3>1 DEF At, AtRest, Claiming, AtItem, tallyVars
    <3>3. QED
      BY <3>1, <3>2
  <2>3. CASE Goto(w, "load") /\ todo' = [todo EXCEPT ![w] = {}] /\ UNCHANGED local
    <3>1. WorkerTypeOK' /\ pc'[w] = "load" /\ \A v \in Workers \ {w} : Same(v)
      BY <1>0, <2>1, <2>3, GotoFacts
    <3>2. At(w)'
      BY <1>0, <2>1, <2>3, <3>1 DEF At, AtRest, Claiming, AtItem, tallyVars
    <3>3. QED
      BY <3>1, <3>2
  <2>4. QED
    BY <1>7, <2>2, <2>3 DEF ReadBack
<1>8. QED
  BY <1>1, <1>2, <1>3, <1>4, <1>5, <1>6, <1>7 DEF Claim

\* run_claimed_shard: items are appended one by one and never past the shard.
LEMMA RunMoves ==
    ASSUME TypeInv, NEW w \in Workers, NEW o \in Outcomes, Run(w, o)
    PROVE  Moves(w)
<1> USE DEF Moves, Steps
<1>0. WorkerTypeOK /\ At(w)
  BY DEF TypeInv, TypeOK, Position
<1>1. /\ local[w] \in Descriptor /\ done[w] \in Nat /\ failed[w] \in Nat
      /\ Len(items[w]) \in Nat
  BY <1>0 DEF WorkerTypeOK
<1>2. /\ Released(local[w]) \in Descriptor
      /\ Counted(local[w], done[w], failed[w]) \in Descriptor
      /\ Released(Counted(local[w], done[w], failed[w])) \in Descriptor
      /\ Finished(local[w], done[w], failed[w]) \in Descriptor
  <2>1. Counted(local[w], done[w], failed[w]) \in Descriptor
    BY <1>1, CountedFacts
  <2>2. QED
    BY <1>1, <2>1, ReleasedFacts, FinishedFacts
<1>3. CASE Load(w)
  <2>1. pc[w] = "load" /\ Goto(w, "item") /\ UNCHANGED <<todo, cur, local, tallyVars>>
    BY <1>3 DEF Load
  <2>2. WorkerTypeOK' /\ pc'[w] = "item" /\ \A v \in Workers \ {w} : Same(v)
    BY <1>0, <2>1, GotoFacts
  <2>3. cur[w] \in Shards /\ items[w] = <<>>
    BY <1>0, <2>1 DEF At, AtRest, Claiming
  <2>4. At(w)'
    BY <1>0, <2>1, <2>2, <2>3, ShardBounds DEF At, AtRest, Claiming, AtItem, tallyVars
  <2>5. QED
    BY <2>2, <2>4
<1>4. CASE LoadFails(w)
  BY <1>0, <1>4, ReturnFacts DEF LoadFails
<1>5. CASE PrepareFails(w)
  <2>1. pc[w] = "load" /\ Goto(w, "release") /\ UNCHANGED <<todo, cur, tallyVars>>
    BY <1>5 DEF PrepareFails
  <2>2. WorkerTypeOK' /\ pc'[w] = "release" /\ \A v \in Workers \ {w} : Same(v)
    BY <1>0, <1>2, <1>5, <2>1, GotoFacts DEF PrepareFails
  <2>3. cur[w] \in Shards /\ items[w] = <<>>
    BY <1>0, <2>1 DEF At, AtRest, Claiming
  <2>4. At(w)'
    BY <1>0, <2>1, <2>2, <2>3, ShardBounds DEF At, AtRest, Claiming, AtItem, tallyVars
  <2>5. QED
    BY <2>2, <2>4
<1>6. CASE StopMidShard(w)
  <2>1. pc[w] = "item" /\ Goto(w, "release") /\ UNCHANGED <<todo, cur, tallyVars>>
    BY <1>6 DEF StopMidShard
  <2>2. WorkerTypeOK' /\ pc'[w] = "release" /\ \A v \in Workers \ {w} : Same(v)
    BY <1>0, <1>2, <1>6, <2>1, GotoFacts DEF StopMidShard
  <2>3. cur[w] \in Shards /\ Len(items[w]) < ShardLen(cur[w])
    BY <1>0, <2>1 DEF At, AtRest, AtItem
  <2>4. At(w)'
    BY <1>0, <1>1, <2>1, <2>2, <2>3, ShardBounds DEF At, AtRest, Claiming, AtItem, tallyVars
  <2>5. QED
    BY <2>2, <2>4
<1>7. CASE ReleasePut(w, o)
  BY <1>0, <1>7, ReturnFacts DEF ReleasePut
<1>8. CASE Probe(w, o)
  <2>1. pc[w] = "item" /\ pc[w] \in AtItem /\ UNCHANGED <<todo, cur, local>>
    BY <1>8 DEF Probe, AtItem
  <2>2. CASE Count(w, TRUE)
    BY <1>0, <2>1, <2>2, CountFacts
  <2>3. CASE Goto(w, "render") /\ UNCHANGED tallyVars
    <3>1. WorkerTypeOK' /\ pc'[w] = "render" /\ \A v \in Workers \ {w} : Same(v)
      BY <1>0, <2>1, <2>3, GotoFacts
    <3>2. At(w)'
      BY <1>0, <2>1, <2>3, <3>1 DEF At, AtRest, Claiming, AtItem, tallyVars
    <3>3. QED
      BY <3>1, <3>2
  <2>4. QED
    BY <1>8, <2>2, <2>3 DEF Probe
<1>9. CASE RenderOk(w, o)
  <2>1. pc[w] = "render" /\ pc[w] \in AtItem /\ UNCHANGED <<todo, cur, local>>
    BY <1>9 DEF RenderOk, AtItem
  <2>2. CASE Count(w, FALSE)
    BY <1>0, <2>1, <2>2, CountFacts
  <2>3. CASE Goto(w, "meta_ok") /\ UNCHANGED tallyVars
    <3>1. WorkerTypeOK' /\ pc'[w] = "meta_ok" /\ \A v \in Workers \ {w} : Same(v)
      BY <1>0, <2>1, <2>3, GotoFacts
    <3>2. At(w)'
      BY <1>0, <2>1, <2>3, <3>1 DEF At, AtRest, Claiming, AtItem, tallyVars
    <3>3. QED
      BY <3>1, <3>2
  <2>4. QED
    BY <1>9, <2>2, <2>3 DEF RenderOk
<1>10. CASE RenderFails(w)
  <2>1. pc[w] = "render" /\ Goto(w, "meta_failed") /\ UNCHANGED <<todo, cur, local, tallyVars>>
    BY <1>10 DEF RenderFails
  <2>2. WorkerTypeOK' /\ pc'[w] = "meta_failed" /\ \A v \in Workers \ {w} : Same(v)
    BY <1>0, <2>1, GotoFacts
  <2>3. At(w)'
    BY <1>0, <2>1, <2>2 DEF At, AtRest, Claiming, AtItem, tallyVars
  <2>4. QED
    BY <2>2, <2>3
<1>11. CASE PutMeta(w, o)
  <2>1. /\ pc[w] \in AtItem /\ UNCHANGED <<todo, cur, local>>
        /\ Count(w, pc[w] = "meta_ok" /\ o = "ok")
    BY <1>11 DEF PutMeta, AtItem
  <2>2. QED
    BY <1>0, <2>1, CountFacts
<1>12. ASSUME pc[w] \in {"beat", "renew"}, Goto(w, AfterItem(w)),
              UNCHANGED <<todo, cur, local, tallyVars>>
       PROVE  Moves(w)
  <2>1. cur[w] \in Shards /\ Len(items[w]) <= ShardLen(cur[w])
    BY <1>0, <1>12 DEF At, AtRest
  <2>2. CASE Len(items[w]) < ShardLen(cur[w])
    <3>1. Goto(w, "item")
      BY <1>12, <2>2 DEF AfterItem
    <3>2. WorkerTypeOK' /\ pc'[w] = "item" /\ \A v \in Workers \ {w} : Same(v)
      BY <1>0, <1>12, <3>1, GotoFacts
    <3>3. At(w)'
      BY <1>0, <1>12, <2>1, <2>2, <3>2 DEF At, AtRest, Claiming, AtItem, tallyVars
    <3>4. QED
      BY <3>2, <3>3
  <2>3. CASE ~(Len(items[w]) < ShardLen(cur[w]))
    <3>1. Goto(w, "results") /\ Len(items[w]) = ShardLen(cur[w])
      BY <1>1, <1>12, <2>1, <2>3, ShardBounds DEF AfterItem
    <3>2. WorkerTypeOK' /\ pc'[w] = "results" /\ \A v \in Workers \ {w} : Same(v)
      BY <1>0, <1>12, <3>1, GotoFacts
    <3>3. At(w)'
      BY <1>0, <1>12, <2>1, <3>1, <3>2 DEF At, AtRest, Claiming, AtItem, tallyVars
    <3>4. QED
      BY <3>2, <3>3
  <2>4. QED
    BY <2>2, <2>3
<1>13. CASE NoHeartbeat(w)
  BY <1>12, <1>13 DEF NoHeartbeat
<1>14. CASE Heartbeat(w)
  <2>1. pc[w] = "beat" /\ Goto(w, "renew") /\ UNCHANGED <<todo, cur, tallyVars>>
    BY <1>14 DEF Heartbeat
  <2>2. WorkerTypeOK' /\ pc'[w] = "renew" /\ \A v \in Workers \ {w} : Same(v)
    BY <1>0, <1>2, <1>14, <2>1, GotoFacts DEF Heartbeat
  <2>3. At(w)'
    BY <1>0, <2>1, <2>2 DEF At, AtRest, Claiming, AtItem, tallyVars
  <2>4. QED
    BY <2>2, <2>3
<1>15. CASE Abandon(w)
  BY <1>0, <1>15, ReturnFacts DEF Abandon
<1>16. CASE Renew(w, o)
  BY <1>12, <1>16 DEF Renew
<1>17. CASE PutResults(w, o)
  <2>1. CASE Return(w)
    BY <1>0, <2>1, ReturnFacts
  <2>2. CASE /\ Keep(w, Finished(local[w], done[w], failed[w])) /\ Goto(w, "finish")
             /\ UNCHANGED <<todo, cur, tallyVars>>
    <3>1. WorkerTypeOK' /\ pc'[w] = "finish" /\ \A v \in Workers \ {w} : Same(v)
      BY <1>0, <1>2, <2>2, GotoFacts
    <3>2. At(w)'
      BY <1>0, <1>17, <2>2, <3>1 DEF PutResults, At, AtRest, Claiming, AtItem, tallyVars
    <3>3. QED
      BY <3>1, <3>2
  <2>3. QED
    BY <1>17, <2>1, <2>2 DEF PutResults
<1>18. CASE FinishPut(w, o)
  <2>1. CASE Return(w)
    BY <1>0, <2>1, ReturnFacts
  <2>2. CASE Goto(w, "clear") /\ UNCHANGED <<todo, cur, local, tallyVars>>
    <3>1. WorkerTypeOK' /\ pc'[w] = "clear" /\ \A v \in Workers \ {w} : Same(v)
      BY <1>0, <2>2, GotoFacts
    <3>2. At(w)'
      BY <1>0, <1>18, <2>2, <3>1 DEF FinishPut, At, AtRest, Claiming, AtItem, tallyVars
    <3>3. QED
      BY <3>1, <3>2
  <2>3. QED
    BY <1>18, <2>1, <2>2 DEF FinishPut
<1>19. CASE ClearMarker(w, o)
  BY <1>0, <1>19, ReturnFacts DEF ClearMarker
<1>20. QED
  BY <1>3, <1>4, <1>5, <1>6, <1>7, <1>8, <1>9, <1>10, <1>11, <1>13, <1>14, <1>15,
     <1>16, <1>17, <1>18, <1>19 DEF Run

-----------------------------------------------------------------------------
(***************************************************************************)
(* What a worker may write to the bucket: its own copy of the descriptor in *)
(* five places, results.json in one, a PDF in one, and it only ever deletes *)
(* markers.                                                                 *)
(***************************************************************************)
Writing == {"poison", "claim", "release", "renew", "finish"}

Writes(w) ==
    /\ UNCHANGED <<jobVars, enq, envVars>>
    /\ faults' = faults \/ (faults > 0 /\ faults' = faults - 1)
    /\ marker' \subseteq marker
    /\ shard' = shard \/ (pc[w] \in Writing /\ shard' = [shard EXCEPT ![cur[w]] = local[w]])
    /\ results' = results
         \/ (pc[w] = "results" /\ results' = [results EXCEPT ![cur[w]] = items[w]])
    /\ pdf' = pdf \/ (pc[w] = "render" /\ pdf' = pdf \cup {RenderId(w)})
    /\ meta' = meta
         \/ (pc[w] = "meta_ok" /\ meta' = [meta EXCEPT ![RenderId(w)] = "ok"])
         \/ (pc[w] = "meta_failed" /\ meta' = [meta EXCEPT ![RenderId(w)] = "failed"])

\* claim_next_shard puts descriptors in two places, and deletes markers.
LEMMA ClaimWrites == ASSUME NEW w \in Workers, NEW o, Claim(w, o) PROVE Writes(w)
<1> USE DEF Claim, ListMarkers, ScanEnds, SkipLeased, FindStale, FindPoisoned, FindClaimable,
            PoisonPut, DropMarker, ClaimPut, ReadBack, Try, docVars, renderVars, PutLocal,
            Write, S3
<1>1. UNCHANGED <<jobVars, enq, envVars>>
  OBVIOUS
<1>2. faults' = faults \/ (faults > 0 /\ faults' = faults - 1)
  OBVIOUS
<1>3. marker' \subseteq marker
  OBVIOUS
<1>4. shard' = shard \/ (pc[w] \in Writing /\ shard' = [shard EXCEPT ![cur[w]] = local[w]])
  BY DEF Writing
<1>5. UNCHANGED <<results, pdf, meta>>
  OBVIOUS
<1>6. QED
  BY <1>1, <1>2, <1>3, <1>4, <1>5 DEF Writes

\* run_claimed_shard puts descriptors in three places, and the rest of Writes.
LEMMA RunWrites == ASSUME NEW w \in Workers, NEW o, Run(w, o) PROVE Writes(w)
<1> USE DEF Run, Load, LoadFails, PrepareFails, StopMidShard, ReleasePut, Probe, RenderOk,
            RenderFails, PutMeta, NoHeartbeat, Heartbeat, Abandon, Renew, PutResults,
            FinishPut, ClearMarker, docVars, renderVars, PutLocal, Write, S3
<1>1. UNCHANGED <<jobVars, enq, envVars>>
  OBVIOUS
<1>2. faults' = faults \/ (faults > 0 /\ faults' = faults - 1)
  OBVIOUS
<1>3. marker' \subseteq marker
  OBVIOUS
<1>4. shard' = shard \/ (pc[w] \in Writing /\ shard' = [shard EXCEPT ![cur[w]] = local[w]])
  BY DEF Writing
<1>5. results' = results
        \/ (pc[w] = "results" /\ results' = [results EXCEPT ![cur[w]] = items[w]])
  OBVIOUS
<1>6. pdf' = pdf \/ (pc[w] = "render" /\ pdf' = pdf \cup {RenderId(w)})
  OBVIOUS
<1>7. meta' = meta
        \/ (pc[w] = "meta_ok" /\ meta' = [meta EXCEPT ![RenderId(w)] = "ok"])
        \/ (pc[w] = "meta_failed" /\ meta' = [meta EXCEPT ![RenderId(w)] = "failed"])
  OBVIOUS
<1>8. QED
  BY <1>1, <1>2, <1>3, <1>4, <1>5, <1>6, <1>7 DEF Writes

\* Both, for any step of a worker.
LEMMA WorkerSteps ==
    ASSUME TypeInv, NEW w \in Workers, Worker(w)
    PROVE  Writes(w) /\ Moves(w)
BY ClaimWrites, RunWrites, ClaimMoves, RunMoves DEF Worker

-----------------------------------------------------------------------------
(***************************************************************************)
(* TypeInv is inductive.                                                    *)
(***************************************************************************)
LEMMA WorkerTypeInv ==
    ASSUME TypeInv, NEW w \in Workers, Worker(w)
    PROVE  TypeInv'
<1>1. Writes(w) /\ Moves(w) /\ BucketTypeOK /\ WorkerTypeOK /\ At(w)
  BY WorkerSteps DEF TypeInv, TypeOK, Position
<1>2. BucketTypeOK'
  <2>1. inputs' \subseteq Shards /\ job' \in BOOLEAN /\ marker' \subseteq Shards
    BY <1>1 DEF Writes, BucketTypeOK, jobVars
  <2>2. shard' \in [Shards -> Descriptor]
    BY <1>1 DEF Writes, BucketTypeOK, WorkerTypeOK
  <2>3. results' \in [Shards -> Seq(BOOLEAN)]
    BY <1>1 DEF Writes, BucketTypeOK, WorkerTypeOK
  <2>4. pdf' \subseteq RenderIds
    BY <1>1, RenderIdType DEF Writes, BucketTypeOK, AtItem
  <2>5. meta' \in [RenderIds -> {"none", "ok", "failed"}]
    BY <1>1 DEF Writes, BucketTypeOK
  <2>6. QED
    BY <2>1, <2>2, <2>3, <2>4, <2>5 DEF BucketTypeOK
<1>3. /\ enq' \in [step : {"inputs", "shard", "marker", "failed"}, k : Nat]
      /\ stop' \in [Workers -> BOOLEAN]
      /\ faults' \in Nat /\ crashes' \in Nat /\ stops' \in Nat
  BY <1>1 DEF Writes, envVars, TypeInv, TypeOK
<1>4. EnqueueAt'
  BY <1>1 DEF Writes, TypeInv, Position, EnqueueAt
<1>5. ASSUME NEW v \in Workers PROVE At(v)'
  BY <1>1, SameAt DEF Moves, TypeInv, Position
<1>6. QED
  BY <1>1, <1>2, <1>3, <1>4, <1>5 DEF Moves, TypeInv, TypeOK, Position

EnqueueStates == [step : {"inputs", "shard", "marker", "failed"}, k : Nat]

\* The server moves on as told, or stops at the failed call.
LEMMA GoesToFacts ==
    ASSUME enq \in EnqueueStates, NEW step \in {"inputs", "shard", "marker"}, NEW k \in Nat,
           NEW o, EnqueueGoesTo(step, k, o)
    PROVE  /\ enq' \in EnqueueStates
           /\ (enq'.step = step /\ enq'.k = k) \/ (enq'.step = "failed" /\ enq'.k = enq.k)
<1>1. enq.k \in Nat
  BY DEF EnqueueStates
<1>2. CASE o = "ok"
  BY <1>2 DEF EnqueueGoesTo, EnqueueStates
<1>3. CASE o # "ok"
  BY <1>1, <1>3 DEF EnqueueGoesTo, EnqueueStates
<1>4. QED
  BY <1>2, <1>3

\* enqueue_batch_job stays within the shards it computed.
LEMMA ServerTypeInv == TypeInv /\ Server => TypeInv'
<1> SUFFICES ASSUME TypeInv, NEW o \in Outcomes, Enqueue(o) PROVE TypeInv'
  BY DEF Server
<1>1. UNCHANGED <<scanVars, tallyVars, envVars, renderVars, results>>
  BY DEF Enqueue, PutInputs, PutNewShard, PutJob, PutMarker, docVars
<1>2. faults' \in Nat
  <2>1. faults \in Nat
    BY DEF TypeInv, TypeOK
  <2>2. S3(o)
    BY DEF Enqueue, PutInputs, PutNewShard, PutJob, PutMarker
  <2>3. QED
    BY <2>1, <2>2 DEF S3
<1>3. enq.k \in Nat /\ EnqueueAt /\ enq \in EnqueueStates
  BY DEF TypeInv, TypeOK, Position, EnqueueStates
<1>4. enq' \in EnqueueStates /\ EnqueueAt'
  <2>1. CASE PutInputs(o)
    BY <1>3, <2>1, GoesToFacts DEF PutInputs, EnqueueAt
  <2>2. CASE PutNewShard(o)
    <3>1. enq.k < NumShards /\ EnqueueGoesTo("inputs", enq.k + 1, o)
      BY <1>3, <2>2 DEF PutNewShard, EnqueueAt
    <3>2. enq.k + 1 \in Nat /\ enq.k + 1 <= NumShards
      BY <1>3, <3>1, NumShardsNat
    <3>3. QED
      BY <1>3, <3>1, <3>2, GoesToFacts DEF EnqueueAt
  <2>3. CASE PutJob(o)
    BY <1>3, <2>3, GoesToFacts DEF PutJob, EnqueueAt
  <2>4. CASE PutMarker(o)
    BY <1>3, <2>4, GoesToFacts DEF PutMarker, EnqueueAt
  <2>5. QED
    BY <2>1, <2>2, <2>3, <2>4 DEF Enqueue
<1>5. enq.k \in Shards \/ PutJob(o)
  BY <1>3, NumShardsNat DEF EnqueueAt, Enqueue, PutInputs, PutNewShard, PutMarker, Shards
<1>6. BucketTypeOK'
  <2> USE DEF TypeInv, TypeOK, BucketTypeOK
  <2>1. inputs' \subseteq Shards
    BY <1>5 DEF Enqueue, PutInputs, PutNewShard, PutJob, PutMarker, Write, jobVars
  <2>2. job' \in BOOLEAN
    BY DEF Enqueue, PutInputs, PutNewShard, PutJob, PutMarker, Write, jobVars
  <2>3. marker' \subseteq Shards
    BY <1>5 DEF Enqueue, PutInputs, PutNewShard, PutJob, PutMarker, Write, docVars
  <2>4. shard' \in [Shards -> Descriptor]
    BY ConstantsTyped DEF Enqueue, PutInputs, PutNewShard, PutJob, PutMarker, Write, docVars
  <2>5. QED
    BY <1>1, <2>1, <2>2, <2>3, <2>4 DEF renderVars
<1>7. WorkerTypeOK' /\ \A v \in Workers : At(v)'
  BY <1>1 DEF TypeInv, TypeOK, Position, WorkerTypeOK, At, scanVars, tallyVars
<1>8. QED
  BY <1>1, <1>2, <1>4, <1>6, <1>7 DEF TypeInv, TypeOK, Position, EnqueueStates, envVars

\* A lapsing lease changes nothing else.
LEMMA LeaseTypeInv ==
    ASSUME TypeInv, NEW k \in Shards, LeaseLapses(k)
    PROVE  /\ TypeInv'
           /\ [shard[k] EXCEPT !.lease = "lapsed"] \in Descriptor
<1>1. shard[k] \in Descriptor /\ shard \in [Shards -> Descriptor]
  BY DEF TypeInv, TypeOK, BucketTypeOK
<1>2. [shard[k] EXCEPT !.lease = "lapsed"] \in Descriptor
  BY <1>1 DEF Descriptor
<1>3. shard' = [shard EXCEPT ![k] = [shard[k] EXCEPT !.lease = "lapsed"]]
  BY <1>1 DEF LeaseLapses
<1>4. shard' \in [Shards -> Descriptor]
  BY <1>1, <1>2, <1>3
<1>5. UNCHANGED <<jobVars, marker, results, renderVars, enq, scanVars, tallyVars, faults, envVars>>
  BY DEF LeaseLapses
<1>6. BucketTypeOK'
  BY <1>4, <1>5 DEF TypeInv, TypeOK, BucketTypeOK, jobVars, renderVars
<1>7. WorkerTypeOK' /\ Position'
  BY <1>5 DEF TypeInv, TypeOK, WorkerTypeOK, Position, EnqueueAt, At, scanVars, tallyVars
<1>8. QED
  BY <1>2, <1>5, <1>6, <1>7 DEF TypeInv, TypeOK, envVars

\* A crash is a return from the middle of a run.
LEMMA CrashTypeInv ==
    ASSUME TypeInv, NEW w \in Workers, Crash(w)
    PROVE  TypeInv'
<1>1. /\ Return(w) /\ WorkerTypeOK
      /\ UNCHANGED <<jobVars, docVars, renderVars, enq, faults, stops>>
      /\ crashes > 0 /\ crashes' = crashes - 1 /\ stop' = [stop EXCEPT ![w] = FALSE]
  BY DEF Crash, TypeInv, TypeOK
<1>2. BucketTypeOK' /\ EnqueueAt'
  BY <1>1 DEF TypeInv, TypeOK, BucketTypeOK, Position, EnqueueAt, jobVars, docVars, renderVars
<1>3. WorkerTypeOK' /\ \A v \in Workers : At(v)'
  BY <1>1, ReturnFacts, SameAt DEF TypeInv, Position
<1>4. QED
  BY <1>1, <1>2, <1>3 DEF TypeInv, TypeOK, Position

\* Signals and restarts touch the shutdown flag only.
LEMMA SignalTypeInv ==
    ASSUME TypeInv, NEW w \in Workers, SignalStop(w) \/ Restart(w)
    PROVE  TypeInv'
<1>1. UNCHANGED <<jobVars, docVars, renderVars, enq, scanVars, tallyVars, faults, crashes>>
  BY DEF SignalStop, Restart
<1>2. stop' \in [Workers -> BOOLEAN] /\ stops' \in Nat
  <2>1. CASE SignalStop(w)
    BY <2>1 DEF SignalStop, TypeInv, TypeOK
  <2>2. CASE Restart(w)
    BY <2>2 DEF Restart, TypeInv, TypeOK
  <2>3. QED
    BY <2>1, <2>2
<1>3. BucketTypeOK' /\ WorkerTypeOK' /\ Position'
  BY <1>1 DEF TypeInv, TypeOK, BucketTypeOK, WorkerTypeOK, Position, EnqueueAt, At,
              jobVars, docVars, renderVars, scanVars, tallyVars
<1>4. QED
  BY <1>1, <1>2, <1>3 DEF TypeInv, TypeOK

\* Stuttering steps.
LEMMA StutterTypeInv == TypeInv /\ UNCHANGED vars => TypeInv'
BY DEF TypeInv, TypeOK, BucketTypeOK, WorkerTypeOK, Position, EnqueueAt, At,
       vars, jobVars, docVars, renderVars, scanVars, tallyVars, envVars

\* Every step keeps the base invariant.
LEMMA NextTypeInv == TypeInv /\ [Next]_vars => TypeInv'
BY WorkerTypeInv, ServerTypeInv, LeaseTypeInv, CrashTypeInv, SignalTypeInv, StutterTypeInv
   DEF Next, Environment

\* TypeInv holds of every reachable state: types, and no worker ever stands
\* outside the shard it runs.
THEOREM SpecTypeInv == Spec => []TypeInv
BY InitTypeInv, NextTypeInv, PTL DEF Spec

\* The type of every variable, whatever the constants.
THEOREM SpecTypeOK == Spec => []TypeOK
BY SpecTypeInv, PTL DEF TypeInv

-----------------------------------------------------------------------------
(***************************************************************************)
(* What a step does to the descriptor in a worker's hands: it takes a new   *)
(* one from the bucket, or edits the one it has.                            *)
(***************************************************************************)
Takes(w, k) ==
    /\ cur'[w] = k
    /\ \/ pc'[w] = "drop" /\ local'[w] = NoShard
       \/ pc'[w] = "poison" /\ local'[w] = Poisoned(shard[k])
       \/ pc'[w] = "claim" /\ local'[w] = Claimed(shard[k], w) /\ shard[k].attempts < MaxAttempts

Edits(w) ==
    /\ cur'[w] = cur[w] /\ pc[w] \notin AtRest \cup {"drop"}
    /\ \/ local'[w] = local[w]
       \/ local'[w] = Released(local[w])
       \/ pc[w] = "beat" /\ local'[w] = Counted(local[w], done[w], failed[w])
       \/ pc[w] = "item" /\ local'[w] = Released(Counted(local[w], done[w], failed[w]))
       \/ /\ local'[w] = Finished(local[w], done[w], failed[w])
          /\ pc[w] = "results" /\ results' = [results EXCEPT ![cur[w]] = items[w]]

\* claim_next_shard edits what it has just read.
LEMMA ClaimHolds ==
    ASSUME WorkerTypeOK, NEW w \in Workers, NEW o \in Outcomes, Claim(w, o)
    PROVE  pc'[w] \in AtRest \/ Edits(w) \/ \E k \in Shards : Takes(w, k)
BY ReturnFacts
   DEF Claim, ListMarkers, ScanEnds, SkipLeased, FindStale, FindPoisoned, FindClaimable,
       PoisonPut, DropMarker, ClaimPut, ReadBack, Try, Goto, Keep, WorkerTypeOK, AtRest,
       Edits, Takes

\* run_claimed_shard edits what it holds and never reads the descriptor anew.
LEMMA RunHolds ==
    ASSUME WorkerTypeOK, NEW w \in Workers, NEW o \in Outcomes, Run(w, o)
    PROVE  pc'[w] \in AtRest \/ Edits(w)
BY ReturnFacts
   DEF Run, Load, LoadFails, PrepareFails, StopMidShard, ReleasePut, Probe, RenderOk,
       RenderFails, PutMeta, NoHeartbeat, Heartbeat, Abandon, Renew, PutResults, FinishPut,
       ClearMarker, Goto, Keep, Write, WorkerTypeOK, AtRest, Edits

\* Both, for any step of a worker.
LEMMA WorkerHolds ==
    ASSUME TypeInv, NEW w \in Workers, Worker(w)
    PROVE  pc'[w] \in AtRest \/ Edits(w) \/ \E k \in Shards : Takes(w, k)
BY ClaimHolds, RunHolds DEF Worker, TypeInv, TypeOK

\* What the steps of the server and of the environment write to descriptors.
LEMMA ServerWrites ==
    ASSUME Server
    PROVE  /\ UNCHANGED <<results, renderVars, scanVars, tallyVars>>
           /\ shard' = shard
                \/ (enq.step = "shard" /\ shard' = [shard EXCEPT ![enq.k] = NewShard])
BY DEF Server, Enqueue, PutInputs, PutNewShard, PutJob, PutMarker, docVars, Write

-----------------------------------------------------------------------------
(***************************************************************************)
(* Descriptors: attempts and counts are bounded, and Done is backed by      *)
(* results.  Stored descriptors are copies of the ones workers hold, so the *)
(* invariant speaks of both.                                                *)
(***************************************************************************)
Full(k) == Len(results[k]) = ShardLen(k)

Fits(k, d) ==
    /\ d.attempts <= MaxAttempts
    /\ d.done + d.failed <= ShardLen(k)
    /\ d.status = "done" => Full(k)

DescriptorsFit ==
    /\ \A k \in Shards : Fits(k, shard[k])
    /\ \A w \in Workers : pc[w] \notin AtRest => Fits(cur[w], local[w])

\* Results, once full, stay full: every put of results.json is of a full one.
LEMMA FullStays ==
    ASSUME TypeInv, NEW w \in Workers, Writes(w), NEW k \in Shards, Full(k)
    PROVE  Full(k)'
<1>1. results \in [Shards -> Seq(BOOLEAN)] /\ At(w)
  BY DEF TypeInv, TypeOK, BucketTypeOK, Position
<1>2. CASE results' = results
  BY <1>2 DEF Full
<1>3. CASE pc[w] = "results" /\ results' = [results EXCEPT ![cur[w]] = items[w]]
  <2>1. Len(items[w]) = ShardLen(cur[w])
    BY <1>1, <1>3 DEF At
  <2>2. CASE k = cur[w]
    BY <1>1, <1>3, <2>1, <2>2 DEF Full
  <2>3. CASE k # cur[w]
    BY <1>1, <1>3, <2>3 DEF Full
  <2>4. QED
    BY <2>2, <2>3
<1>4. QED
  BY <1>2, <1>3 DEF Writes

\* A new descriptor fits any shard.
LEMMA NewFits ==
    ASSUME NEW k \in Shards
    PROVE  Fits(k, NoShard) /\ Fits(k, NewShard)
BY ShardBounds, AttemptsAssumption DEF Fits, NoShard, NewShard

\* What workers hold fits their shard, so what they put fits it too.
LEMMA WorkerDescriptorsFit ==
    ASSUME TypeInv, DescriptorsFit, NEW w \in Workers, Worker(w)
    PROVE  DescriptorsFit'
<1>1. Writes(w) /\ Moves(w) /\ BucketTypeOK /\ WorkerTypeOK /\ At(w) /\ At(w)'
  BY WorkerSteps DEF TypeInv, TypeOK, Position, Moves
<1>2. \A k \in Shards : Full(k) => Full(k)'
  BY <1>1, FullStays
<1>3. ASSUME NEW k \in Shards, NEW d, Fits(k, d) PROVE Fits(k, d)'
  BY <1>2, <1>3 DEF Fits
<1>4. ASSUME NEW k \in Shards PROVE Fits(k, shard[k])'
  <2>1. CASE shard' = shard
    BY <1>3, <2>1 DEF DescriptorsFit, Fits, Full
  <2>2. CASE pc[w] \in Writing /\ shard' = [shard EXCEPT ![cur[w]] = local[w]]
    <3>1. Fits(cur[w], local[w])
      BY <2>2 DEF DescriptorsFit, AtRest, Writing
    <3>2. shard'[k] = shard[k] \/ (k = cur[w] /\ shard'[k] = local[w])
      BY <1>1, <2>2 DEF BucketTypeOK
    <3>3. Fits(k, shard[k])
      BY DEF DescriptorsFit
    <3>4. QED
      BY <1>2, <3>1, <3>2, <3>3 DEF Fits
  <2>3. QED
    BY <1>1, <2>1, <2>2 DEF Writes
<1>5. ASSUME NEW v \in Workers, pc'[v] \notin AtRest PROVE Fits(cur[v], local[v])'
  <2>1. CASE v # w
    <3>1. pc[v] = pc'[v] /\ cur'[v] = cur[v] /\ local'[v] = local[v] /\ At(v)
      BY <1>1, <2>1 DEF Moves, Same, TypeInv, Position
    <3>2. cur[v] \in Shards /\ Fits(cur[v], local[v])
      BY <1>5, <3>1 DEF At, DescriptorsFit
    <3>3. QED
      BY <1>2, <3>1, <3>2 DEF Fits
  <2>2. CASE v = w /\ \E k \in Shards : Takes(w, k)
    <3>1. PICK k \in Shards : Takes(w, k)
      BY <2>2
    <3>2. shard[k] \in Descriptor /\ Fits(k, shard[k])
      BY <1>1 DEF BucketTypeOK, DescriptorsFit
    <3>3. CASE local'[w] = NoShard
      BY <2>2, <3>1, <3>3, NewFits DEF Takes, Fits, NoShard
    <3>4. CASE local'[w] = Poisoned(shard[k])
      BY <2>2, <3>1, <3>2, <3>4, PoisonedFacts DEF Takes, Fits
    <3>5. CASE local'[w] = Claimed(shard[k], w) /\ shard[k].attempts < MaxAttempts
      <4>1. shard[k].attempts \in Nat /\ shard[k].attempts + 1 <= MaxAttempts
        BY <3>2, <3>5, AttemptsAssumption DEF Descriptor
      <4>2. QED
        BY <2>2, <3>1, <3>2, <3>5, <4>1, ClaimedFacts DEF Takes, Fits
    <3>6. QED
      BY <3>1, <3>3, <3>4, <3>5 DEF Takes
  <2>3. CASE v = w /\ Edits(w)
    <3>1. /\ local[w] \in Descriptor /\ done[w] \in Nat /\ failed[w] \in Nat
          /\ cur[w] \in Shards /\ cur'[w] = cur[w]
          /\ Fits(cur[w], local[w])
      BY <1>1, <2>3 DEF WorkerTypeOK, At, Edits, DescriptorsFit
    <3>2. pc[w] \in {"beat", "item", "results"} => done[w] + failed[w] <= ShardLen(cur[w])
      BY <1>1, <3>1, ShardBounds DEF At, AtItem, WorkerTypeOK
    <3>3. CASE local'[w] = local[w]
      BY <1>2, <2>3, <3>1, <3>3 DEF Fits
    <3>4. CASE local'[w] = Released(local[w])
      BY <2>3, <3>1, <3>4, ReleasedFacts DEF Fits
    <3>5. CASE pc[w] = "beat" /\ local'[w] = Counted(local[w], done[w], failed[w])
      <4>1. /\ local'[w].attempts = local[w].attempts /\ local'[w].status = local[w].status
            /\ local'[w].done = done[w] /\ local'[w].failed = failed[w]
        <5>1. local[w] \in Descriptor /\ done[w] \in Nat /\ failed[w] \in Nat
          BY <3>1
        <5>2. /\ Counted(local[w], done[w], failed[w]).attempts = local[w].attempts
              /\ Counted(local[w], done[w], failed[w]).status = local[w].status
              /\ Counted(local[w], done[w], failed[w]).done = done[w]
              /\ Counted(local[w], done[w], failed[w]).failed = failed[w]
          BY <5>1 DEF Counted, Descriptor
        <5>3. QED
          BY <3>5, <5>2
      <4>2. local'[w].status = "done" => Full(cur[w])'
        BY <1>2, <3>1, <4>1 DEF Fits, Full
      <4>3. local'[w].attempts <= MaxAttempts
        BY <3>1, <4>1 DEF Fits
      <4>4. local'[w].done + local'[w].failed <= ShardLen(cur'[w])
        BY <3>1, <3>2, <3>5, <4>1
      <4>5. QED
        BY <2>3, <4>2, <4>3, <4>4 DEF Fits
    <3>6. CASE pc[w] = "item" /\ local'[w] = Released(Counted(local[w], done[w], failed[w]))
      <4>1. /\ Counted(local[w], done[w], failed[w]) \in Descriptor
            /\ Counted(local[w], done[w], failed[w]).attempts = local[w].attempts
            /\ Counted(local[w], done[w], failed[w]).done = done[w]
            /\ Counted(local[w], done[w], failed[w]).failed = failed[w]
        <5>1. local[w] \in Descriptor /\ done[w] \in Nat /\ failed[w] \in Nat
          BY <3>1
        <5>2. QED
          BY <5>1 DEF Counted, Descriptor
      <4>2. /\ local'[w].attempts = local[w].attempts /\ local'[w].status = "pending"
            /\ local'[w].done = done[w] /\ local'[w].failed = failed[w]
        BY <3>6, <4>1, ReleasedFacts
      <4>3. QED
        BY <2>3, <3>1, <3>2, <3>6, <4>2 DEF Fits
    <3>7. CASE /\ local'[w] = Finished(local[w], done[w], failed[w])
               /\ pc[w] = "results" /\ results' = [results EXCEPT ![cur[w]] = items[w]]
      <4>1. Full(cur[w])'
        BY <1>1, <3>1, <3>7 DEF At, Full, BucketTypeOK
      <4>2. /\ local'[w].attempts = local[w].attempts
            /\ local'[w].done = done[w] /\ local'[w].failed = failed[w]
        <5>1. /\ Finished(local[w], done[w], failed[w]).attempts = local[w].attempts
              /\ Finished(local[w], done[w], failed[w]).done = done[w]
              /\ Finished(local[w], done[w], failed[w]).failed = failed[w]
          BY <3>1 DEF Finished, Descriptor
        <5>2. QED
          BY <3>7, <5>1
      <4>3. local'[w].attempts <= MaxAttempts
        BY <3>1, <4>2 DEF Fits
      <4>4. local'[w].done + local'[w].failed <= ShardLen(cur'[w])
        BY <3>1, <3>2, <3>7, <4>2
      <4>5. QED
        BY <2>3, <4>1, <4>3, <4>4 DEF Fits
    <3>8. QED
      BY <2>3, <3>3, <3>4, <3>5, <3>6, <3>7 DEF Edits
  <2>4. QED
    BY <1>5, <2>1, <2>2, <2>3, WorkerHolds
<1>6. QED
  BY <1>4, <1>5 DEF DescriptorsFit

\* The server puts new descriptors only.
LEMMA ServerDescriptorsFit == TypeInv /\ DescriptorsFit /\ Server => DescriptorsFit'
<1> SUFFICES ASSUME TypeInv, DescriptorsFit, Server PROVE DescriptorsFit'
  OBVIOUS
<1>1. UNCHANGED <<results, pc, cur, local>> /\ shard \in [Shards -> Descriptor]
  BY ServerWrites DEF scanVars, TypeInv, TypeOK, BucketTypeOK
<1>2. ASSUME NEW k \in Shards PROVE shard'[k] = shard[k] \/ shard'[k] = NewShard
  BY <1>1, ServerWrites
<1>3. QED
  BY <1>1, <1>2, NewFits DEF DescriptorsFit, Fits, Full, NewShard

\* Attempts, counts and status outlive the lease.
LEMMA LeaseDescriptorsFit ==
    ASSUME TypeInv, DescriptorsFit, NEW k \in Shards, LeaseLapses(k)
    PROVE  DescriptorsFit'
<1>1. UNCHANGED <<results, pc, cur, local>> /\ shard \in [Shards -> Descriptor]
  BY DEF LeaseLapses, scanVars, TypeInv, TypeOK, BucketTypeOK
<1>2. ASSUME NEW j \in Shards
      PROVE  /\ shard'[j].status = shard[j].status /\ shard'[j].attempts = shard[j].attempts
             /\ shard'[j].done = shard[j].done /\ shard'[j].failed = shard[j].failed
  BY <1>1 DEF LeaseLapses, Descriptor
<1>3. QED
  BY <1>1, <1>2 DEF DescriptorsFit, Fits, Full

\* A crash takes the worker's copy away and stores nothing.
LEMMA CrashDescriptorsFit ==
    ASSUME TypeInv, DescriptorsFit, NEW w \in Workers, Crash(w)
    PROVE  DescriptorsFit'
<1>1. WorkerTypeOK /\ Return(w) /\ UNCHANGED docVars
  BY DEF Crash, TypeInv, TypeOK
<1>2. pc'[w] = "idle" /\ \A v \in Workers \ {w} : Same(v)
  BY <1>1, ReturnFacts
<1>3. QED
  BY <1>1, <1>2 DEF DescriptorsFit, Fits, Full, AtRest, Same, docVars

\* Every step keeps descriptors in bounds.
LEMMA NextDescriptorsFit == TypeInv /\ DescriptorsFit /\ [Next]_vars => DescriptorsFit'
<1> SUFFICES ASSUME TypeInv, DescriptorsFit, [Next]_vars PROVE DescriptorsFit'
  OBVIOUS
<1>1. CASE Server
  BY <1>1, ServerDescriptorsFit
<1>2. ASSUME NEW w \in Workers, Worker(w) PROVE DescriptorsFit'
  BY <1>2, WorkerDescriptorsFit
<1>3. ASSUME NEW k \in Shards, LeaseLapses(k) PROVE DescriptorsFit'
  BY <1>3, LeaseDescriptorsFit
<1>4. ASSUME NEW w \in Workers, Crash(w) PROVE DescriptorsFit'
  BY <1>4, CrashDescriptorsFit
<1>5. ASSUME NEW w \in Workers, SignalStop(w) \/ Restart(w) PROVE DescriptorsFit'
  BY <1>5 DEF SignalStop, Restart, DescriptorsFit, Fits, Full, docVars, scanVars
<1>6. CASE UNCHANGED vars
  BY <1>6 DEF DescriptorsFit, Fits, Full, vars, docVars, scanVars
<1>7. QED
  BY <1>1, <1>2, <1>3, <1>4, <1>5, <1>6 DEF Next, Environment

\* Nothing is stored and nobody holds anything at first.
LEMMA InitDescriptorsFit == Init => DescriptorsFit
BY NewFits DEF Init, DescriptorsFit, AtRest

\* Every descriptor, stored or in a worker's hands, fits its shard.
THEOREM SpecDescriptorsFit == Spec => []DescriptorsFit
BY InitDescriptorsFit, NextDescriptorsFit, SpecTypeInv, PTL DEF Spec

\* Whatever the number of workers and however their claims and crashes
\* interleave, no descriptor shows more than WORKER_MAX_ATTEMPTS attempts.
THEOREM SpecAttemptsBounded == Spec => []AttemptsBounded
<1>1. DescriptorsFit => AttemptsBounded
  BY DEF DescriptorsFit, Fits, AttemptsBounded
<1>2. QED
  BY <1>1, SpecDescriptorsFit, PTL

\* The counts of a stored shard never exceed its items.
THEOREM SpecCountsWithinShard == Spec => []CountsWithinShard
<1>1. DescriptorsFit => CountsWithinShard
  BY DEF DescriptorsFit, Fits, CountsWithinShard
<1>2. QED
  BY <1>1, SpecDescriptorsFit, PTL

\* A shard is shown as Done only with results for each of its items.
THEOREM SpecDoneHasFullResults == Spec => []DoneHasFullResults
<1>1. DescriptorsFit => DoneHasFullResults
  BY DEF DescriptorsFit, Fits, Full, DoneHasFullResults
<1>2. QED
  BY <1>1, SpecDescriptorsFit, PTL

-----------------------------------------------------------------------------
(***************************************************************************)
(* Publication: the first marker is put when everything else is stored, and *)
(* no worker ever takes a descriptor away again.                            *)
(***************************************************************************)
Ready(k) == k \in inputs /\ Stored(shard[k])

\* What a worker may put is a descriptor, not the absence of one.
HandsFull == \A w \in Workers : pc[w] \notin AtRest \cup {"drop"} => Stored(local[w])

Published ==
    /\ HandsFull
    /\ enq.step \in {"inputs", "shard"} => \A k \in Shards : k < enq.k => Ready(k)
    /\ enq.step = "shard" => enq.k \in inputs
    /\ enq.step = "marker" \/ marker # {} => job /\ \A k \in Shards : Ready(k)

\* A worker puts real descriptors and no markers.
LEMMA WorkerPublished ==
    ASSUME TypeInv, Published, NEW w \in Workers, Worker(w)
    PROVE  Published'
<1>1. Writes(w) /\ Moves(w) /\ BucketTypeOK /\ WorkerTypeOK /\ At(w)
  BY WorkerSteps DEF TypeInv, TypeOK, Position
<1>2. ASSUME NEW k \in Shards, Ready(k) PROVE Ready(k)'
  <2>1. CASE shard' = shard
    BY <1>1, <1>2, <2>1 DEF Writes, Ready, jobVars
  <2>2. CASE pc[w] \in Writing /\ shard' = [shard EXCEPT ![cur[w]] = local[w]]
    <3>1. Stored(local[w])
      BY <2>2 DEF Published, HandsFull, AtRest, Writing
    <3>2. shard'[k] = shard[k] \/ shard'[k] = local[w]
      BY <1>1, <2>2 DEF BucketTypeOK
    <3>3. QED
      BY <1>1, <1>2, <3>1, <3>2 DEF Writes, Ready, Stored, jobVars
  <2>3. QED
    BY <1>1, <2>1, <2>2 DEF Writes
<1>3. ASSUME NEW v \in Workers, pc'[v] \notin AtRest \cup {"drop"} PROVE Stored(local[v])'
  <2>1. CASE v # w
    BY <1>1, <1>3, <2>1 DEF Moves, Same, Published, HandsFull, Stored
  <2>2. CASE v = w /\ \E k \in Shards : Takes(w, k)
    <3>1. PICK k \in Shards : Takes(w, k)
      BY <2>2
    <3>2. local'[w] = Poisoned(shard[k]) \/ local'[w] = Claimed(shard[k], w)
      BY <1>3, <2>2, <3>1 DEF Takes
    <3>3. shard[k] \in Descriptor
      BY <1>1 DEF BucketTypeOK
    <3>4. Poisoned(shard[k]).status = "failed" /\ Claimed(shard[k], w).status = "running"
      BY <3>3, PoisonedFacts, ClaimedFacts
    <3>5. QED
      BY <2>2, <3>2, <3>4 DEF Stored
  <2>3. CASE v = w /\ Edits(w)
    <3>1. /\ local[w] \in Descriptor /\ done[w] \in Nat /\ failed[w] \in Nat
          /\ Stored(local[w])
      BY <1>1, <2>3 DEF WorkerTypeOK, Edits, Published, HandsFull
    <3>2. /\ Counted(local[w], done[w], failed[w]) \in Descriptor
          /\ Counted(local[w], done[w], failed[w]).status = local[w].status
          /\ Finished(local[w], done[w], failed[w]).status = "done"
      <4>1. local[w] \in Descriptor /\ done[w] \in Nat /\ failed[w] \in Nat
        BY <3>1
      <4>2. /\ Counted(local[w], done[w], failed[w]) \in Descriptor
            /\ Counted(local[w], done[w], failed[w]).status = local[w].status
        BY <4>1 DEF Counted, Descriptor
      <4>3. Finished(local[w], done[w], failed[w]).status = "done"
        BY <4>1 DEF Finished, Descriptor
      <4>4. QED
        BY <4>2, <4>3
    <3>3. /\ Released(local[w]).status = "pending"
          /\ Released(Counted(local[w], done[w], failed[w])).status = "pending"
      BY <3>1, <3>2, ReleasedFacts
    <3>4. QED
      BY <2>3, <3>1, <3>2, <3>3 DEF Edits, Stored
  <2>4. QED
    BY <1>3, <2>1, <2>2, <2>3, WorkerHolds
<1>4. QED
  BY <1>1, <1>2, <1>3 DEF Published, HandsFull, Writes, jobVars

\* The server writes inputs, descriptors, job.json and markers in this order.
LEMMA ServerPublished == TypeInv /\ Published /\ Server => Published'
<1> SUFFICES ASSUME TypeInv, Published, NEW o \in Outcomes, Enqueue(o) PROVE Published'
  BY DEF Server
<1>1. HandsFull'
  BY ServerWrites DEF Server, scanVars, Published, HandsFull, Stored
<1>2. /\ enq.k \in Nat /\ enq \in EnqueueStates /\ EnqueueAt
      /\ shard \in [Shards -> Descriptor] /\ NumShards \in Nat
  BY NumShardsNat DEF TypeInv, TypeOK, BucketTypeOK, Position, EnqueueStates
<1>3. ASSUME NEW k \in Shards, Ready(k) PROVE Ready(k)'
  <2>1. inputs \subseteq inputs'
    BY DEF Enqueue, PutInputs, PutNewShard, PutJob, PutMarker, Write, jobVars
  <2>2. shard'[k] = shard[k] \/ shard'[k] = NewShard
    BY <1>2, ServerWrites DEF Server
  <2>3. QED
    BY <1>3, <2>1, <2>2 DEF Ready, Stored, NewShard
<1>4. CASE PutInputs(o)
  <2>1. /\ enq'.step = "failed" \/ (enq'.step = "shard" /\ enq'.k = enq.k /\ enq.k \in inputs')
        /\ UNCHANGED <<job, marker>> /\ enq.step = "inputs"
    BY <1>2, <1>4, GoesToFacts DEF PutInputs, EnqueueGoesTo, Write, docVars
  <2>2. QED
    BY <1>1, <1>3, <2>1 DEF Published
<1>5. CASE PutNewShard(o)
  <2>1. /\ enq.step = "shard" /\ UNCHANGED <<jobVars, marker>> /\ enq.k < NumShards
        /\ EnqueueGoesTo("inputs", enq.k + 1, o) /\ enq.k + 1 \in Nat
    BY <1>2, <1>5 DEF PutNewShard, EnqueueAt
  <2>2. CASE o # "ok"
    <3>1. enq'.step = "failed"
      BY <2>1, <2>2 DEF EnqueueGoesTo
    <3>2. QED
      BY <1>1, <1>3, <2>1, <3>1 DEF Published, jobVars
  <2>3. CASE o = "ok"
    <3>1. /\ shard' = [shard EXCEPT ![enq.k] = NewShard]
          /\ enq'.step = "inputs" /\ enq'.k = enq.k + 1
      BY <1>2, <1>5, <2>1, <2>3 DEF PutNewShard, Write, EnqueueGoesTo
    <3>2. ASSUME NEW k \in Shards, k < enq.k + 1 PROVE Ready(k)'
      <4>1. CASE k = enq.k
        <5>1. shard'[k] = NewShard
          BY <1>2, <3>1, <4>1
        <5>2. k \in inputs'
          BY <2>1, <4>1 DEF Published, jobVars
        <5>3. QED
          BY <5>1, <5>2 DEF Ready, Stored, NewShard
      <4>2. CASE k < enq.k
        BY <1>3, <2>1, <4>2 DEF Published
      <4>3. QED
        BY <1>2, <3>2, <4>1, <4>2, ShardBounds
    <3>3. QED
      BY <1>1, <1>3, <2>1, <3>1, <3>2 DEF Published, jobVars
  <2>4. QED
    BY <2>2, <2>3
<1>6. CASE PutJob(o)
  <2>1. /\ enq.step = "inputs" /\ enq.k = NumShards
        /\ UNCHANGED <<inputs, docVars>>
        /\ enq'.step = "failed" \/ (enq'.step = "marker" /\ o = "ok")
        /\ (job => job') /\ (o = "ok" => job')
    BY <1>2, <1>6, GoesToFacts DEF PutJob, EnqueueGoesTo, Write
  <2>2. \A k \in Shards : Ready(k)
    BY <1>2, <2>1, ShardBounds DEF Published, Shards
  <2>3. QED
    BY <1>1, <1>3, <2>1, <2>2 DEF Published, docVars
<1>7. CASE PutMarker(o)
  <2>1. enq.step = "marker" /\ UNCHANGED jobVars
        /\ enq'.step \in {"failed", "marker"}
    BY <1>2, <1>7, GoesToFacts DEF PutMarker
  <2>2. QED
    BY <1>1, <1>3, <2>1 DEF Published, jobVars
<1>8. QED
  BY <1>4, <1>5, <1>6, <1>7 DEF Enqueue

\* Every step keeps the order of publication.
LEMMA NextPublished == TypeInv /\ Published /\ [Next]_vars => Published'
<1> SUFFICES ASSUME TypeInv, Published, [Next]_vars PROVE Published'
  OBVIOUS
<1>1. CASE Server
  BY <1>1, ServerPublished
<1>2. ASSUME NEW w \in Workers, Worker(w) PROVE Published'
  BY <1>2, WorkerPublished
<1>3. ASSUME NEW k \in Shards, LeaseLapses(k) PROVE Published'
  <2>1. ASSUME NEW j \in Shards PROVE shard'[j].status = shard[j].status
    <3>1. shard \in [Shards -> Descriptor]
      BY DEF TypeInv, TypeOK, BucketTypeOK
    <3>2. QED
      BY <1>3, <2>1, <3>1 DEF LeaseLapses, Descriptor
  <2>2. UNCHANGED <<jobVars, marker, enq, scanVars>>
    BY <1>3 DEF LeaseLapses
  <2>3. QED
    BY <2>1, <2>2 DEF Published, HandsFull, Ready, Stored, jobVars, scanVars
<1>4. ASSUME NEW w \in Workers, Crash(w) PROVE Published'
  <2>1. WorkerTypeOK /\ Return(w) /\ UNCHANGED <<jobVars, docVars, enq>>
    BY <1>4 DEF Crash, TypeInv, TypeOK
  <2>2. pc'[w] = "idle" /\ \A v \in Workers \ {w} : Same(v)
    BY <2>1, ReturnFacts
  <2>3. QED
    BY <2>1, <2>2 DEF Published, HandsFull, Ready, Stored, AtRest, Same, jobVars, docVars
<1>5. ASSUME NEW w \in Workers, SignalStop(w) \/ Restart(w) PROVE Published'
  BY <1>5 DEF SignalStop, Restart, Published, HandsFull, Ready, Stored, jobVars, docVars, scanVars
<1>6. CASE UNCHANGED vars
  BY <1>6 DEF Published, HandsFull, Ready, Stored, vars, jobVars, docVars, scanVars
<1>7. QED
  BY <1>1, <1>2, <1>3, <1>4, <1>5, <1>6 DEF Next, Environment

\* Nothing is published at first.
LEMMA InitPublished == Init => Published
<1> SUFFICES ASSUME Init PROVE Published
  OBVIOUS
<1>1. enq.step = "inputs" /\ enq.k = 0 /\ marker = {}
  BY DEF Init
<1>2. \A k \in Shards : ~(k < 0)
  BY ShardBounds
<1>3. HandsFull
  BY DEF Init, HandsFull, AtRest
<1>4. QED
  BY <1>1, <1>2, <1>3 DEF Published

\* The order of publication holds of every reachable state.
THEOREM SpecPublished == Spec => []Published
BY InitPublished, NextPublished, SpecTypeInv, PTL DEF Spec

\* A marker a worker can list belongs to a shard it can load, for every
\* interleaving of the enqueueing server, failing calls and crashing workers.
THEOREM SpecMarkerImpliesReady == Spec => []MarkerImpliesReady
<1>1. TypeInv /\ Published => MarkerImpliesReady
  BY DEF TypeInv, TypeOK, BucketTypeOK, Published, Ready, MarkerImpliesReady
<1>2. QED
  BY <1>1, SpecTypeInv, SpecPublished, PTL

-----------------------------------------------------------------------------
(***************************************************************************)
(* Successes: whoever counts an item as a success has seen a meta.json that *)
(* says so or has put one, and either way the PDF was put before.           *)
(***************************************************************************)

\* Every success in s, the outcomes of the first items of shard k, has a PDF.
Backed(k, s) == \A i \in DOMAIN s : s[i] => RenderIdOf[Start(k) + i - 1] \in pdf

SuccessesBacked ==
    /\ \A r \in RenderIds : meta[r] = "ok" => r \in pdf
    /\ \A k \in Shards : Backed(k, results[k])
    /\ \A w \in Workers : pc[w] = "meta_ok" => RenderId(w) \in pdf
    /\ \A w \in Workers : pc[w] \notin AtRest => Backed(cur[w], items[w])

\* What a step does to the outcomes a worker has collected.
Collects(w) ==
    /\ cur'[w] = cur[w] /\ pc[w] \notin AtRest
    /\ \/ items'[w] = items[w]
       \/ \E ok \in BOOLEAN :
             /\ pc[w] \in AtItem /\ items'[w] = Append(items[w], ok)
             /\ ok => meta[RenderId(w)] = "ok" \/ pc[w] = "meta_ok"

\* A worker that claims has no outcomes yet.
LEMMA ClaimItems ==
    ASSUME TypeInv, NEW w \in Workers, NEW o \in Outcomes, Claim(w, o)
    PROVE  pc'[w] \in AtRest \/ (pc'[w] \in Claiming /\ items'[w] = <<>>)
<1>1. WorkerTypeOK /\ Moves(w)
  BY ClaimMoves DEF TypeInv, TypeOK
<1>2. pc'[w] \in AtRest \cup Claiming
  BY <1>1, ReturnFacts
     DEF Claim, ListMarkers, ScanEnds, SkipLeased, FindStale, FindPoisoned, FindClaimable,
         PoisonPut, DropMarker, ClaimPut, ReadBack, Try, Goto, WorkerTypeOK, AtRest, Claiming
<1>3. QED
  BY <1>1, <1>2 DEF Moves, At

\* A success is counted only after a meta.json that says so was read or put,
\* and that put only follows the put of the PDF.
LEMMA RunItems ==
    ASSUME TypeInv, NEW w \in Workers, NEW o \in Outcomes, Run(w, o)
    PROVE  /\ pc'[w] \in AtRest \/ Collects(w)
           /\ pc'[w] = "meta_ok" =>
                 /\ pc[w] = "render" /\ pdf' = pdf \cup {RenderId(w)}
                 /\ cur'[w] = cur[w] /\ items'[w] = items[w]
<1>0. WorkerTypeOK /\ At(w)
  BY DEF TypeInv, TypeOK, Position
<1>1. CASE Probe(w, o)
  <2>1. CASE Count(w, TRUE) /\ meta[RenderId(w)] = "ok"
    BY <1>0, <1>1, <2>1, CountFacts DEF Probe, AtItem, AtRest, Collects
  <2>2. CASE Goto(w, "render") /\ UNCHANGED tallyVars
    BY <1>0, <1>1, <2>2 DEF Probe, Goto, tallyVars, WorkerTypeOK, AtRest, Collects
  <2>3. QED
    BY <1>1, <2>1, <2>2 DEF Probe
<1>2. CASE RenderOk(w, o)
  <2>1. CASE Count(w, FALSE)
    BY <1>0, <1>2, <2>1, CountFacts DEF RenderOk, AtItem, AtRest, Collects
  <2>2. CASE o = "ok" /\ Goto(w, "meta_ok") /\ UNCHANGED tallyVars
    BY <1>0, <1>2, <2>2 DEF RenderOk, Write, Goto, tallyVars, WorkerTypeOK, AtRest, Collects
  <2>3. QED
    BY <1>2, <2>1, <2>2 DEF RenderOk
<1>3. CASE PutMeta(w, o)
  <2>1. /\ pc[w] \in AtItem /\ pc[w] \notin AtRest /\ UNCHANGED <<todo, cur, local>>
        /\ Count(w, pc[w] = "meta_ok" /\ o = "ok")
    BY <1>3 DEF PutMeta, AtItem, AtRest
  <2>2. DEFINE ok == pc[w] = "meta_ok" /\ o = "ok"
  <2>3. pc'[w] = "beat" /\ items'[w] = Append(items[w], ok)
    BY <1>0, <2>1, CountFacts
  <2>4. ok \in BOOLEAN /\ (ok => pc[w] = "meta_ok")
    OBVIOUS
  <2>5. QED
    BY <2>1, <2>3, <2>4 DEF Collects
<1>4. ASSUME ~Probe(w, o), ~RenderOk(w, o), ~PutMeta(w, o)
      PROVE  /\ pc'[w] \in AtRest \/ Collects(w)
             /\ pc'[w] # "meta_ok"
  BY <1>0, <1>4, ReturnFacts
     DEF Run, Load, LoadFails, PrepareFails, StopMidShard, ReleasePut, RenderFails,
         NoHeartbeat, Heartbeat, Abandon, Renew, AfterItem, PutResults, FinishPut,
         ClearMarker, Goto, tallyVars, WorkerTypeOK, AtRest, Collects
<1>5. QED
  BY <1>1, <1>2, <1>3, <1>4

\* Appending an outcome: only a success needs the PDF of its item.
LEMMA BackedAppend ==
    ASSUME NEW k \in Shards, NEW s \in Seq(BOOLEAN), NEW ok \in BOOLEAN, Backed(k, s),
           ok => RenderIdOf[Start(k) + Len(s)] \in pdf
    PROVE  Backed(k, Append(s, ok))
<1> SUFFICES ASSUME NEW i \in DOMAIN Append(s, ok), Append(s, ok)[i]
             PROVE  RenderIdOf[Start(k) + i - 1] \in pdf
  BY DEF Backed
<1>1. Len(s) \in Nat /\ i \in 1 .. Len(s) + 1 /\ Start(k) \in Nat
  BY ShardBounds
<1>2. CASE i = Len(s) + 1
  <2>1. ok /\ Start(k) + i - 1 = Start(k) + Len(s)
    BY <1>1, <1>2
  <2>2. QED
    BY <2>1
<1>3. CASE i \in 1 .. Len(s)
  BY <1>3 DEF Backed
<1>4. QED
  BY <1>1, <1>2, <1>3

\* PDFs are never taken away, so a backed success stays backed.
LEMMA WorkerBacked ==
    ASSUME TypeInv, SuccessesBacked, NEW w \in Workers, Worker(w)
    PROVE  SuccessesBacked'
<1>1. Writes(w) /\ Moves(w) /\ BucketTypeOK /\ WorkerTypeOK /\ At(w) /\ At(w)'
  BY WorkerSteps DEF TypeInv, TypeOK, Position, Moves
<1>2. pdf \subseteq pdf'
  BY <1>1 DEF Writes
<1>3. ASSUME NEW k, NEW s, Backed(k, s) PROVE Backed(k, s)'
  BY <1>2, <1>3 DEF Backed
<1>4. ASSUME NEW r \in RenderIds, meta'[r] = "ok" PROVE r \in pdf'
  BY <1>1, <1>2, <1>4 DEF Writes, SuccessesBacked, BucketTypeOK
<1>5. ASSUME NEW k \in Shards PROVE Backed(k, results[k])'
  <2>1. results'[k] = results[k] \/ (pc[w] = "results" /\ k = cur[w] /\ results'[k] = items[w])
    BY <1>1 DEF Writes, BucketTypeOK
  <2>2. Backed(k, results[k]) /\ (pc[w] = "results" => Backed(cur[w], items[w]))
    BY DEF SuccessesBacked, AtRest
  <2>3. QED
    BY <1>2, <2>1, <2>2 DEF Backed
<1>6. ASSUME NEW v \in Workers, pc'[v] = "meta_ok" PROVE RenderId(v)' \in pdf'
  <2>1. CASE v # w
    BY <1>1, <1>2, <1>6, <2>1 DEF Moves, Same, SuccessesBacked, RenderId
  <2>2. CASE v = w
    BY <1>6, <2>2, ClaimItems, RunItems DEF Worker, RenderId, AtRest, Claiming
  <2>3. QED
    BY <2>1, <2>2
<1>7. ASSUME NEW v \in Workers, pc'[v] \notin AtRest PROVE Backed(cur[v], items[v])'
  <2>1. CASE v # w
    BY <1>1, <1>2, <1>7, <2>1 DEF Moves, Same, SuccessesBacked, Backed
  <2>2. CASE v = w /\ items'[w] = <<>>
    BY <2>2 DEF Backed
  <2>3. CASE v = w /\ Collects(w)
    <3>1. /\ cur[w] \in Shards /\ Backed(cur[w], items[w]) /\ items[w] \in Seq(BOOLEAN)
          /\ cur'[w] = cur[w]
      BY <1>1, <2>3 DEF Collects, SuccessesBacked, At, WorkerTypeOK
    <3>2. CASE items'[w] = items[w]
      BY <1>2, <2>3, <3>1, <3>2 DEF Backed
    <3>3. ASSUME NEW ok \in BOOLEAN,
                 pc[w] \in AtItem, items'[w] = Append(items[w], ok),
                 ok => meta[RenderId(w)] = "ok" \/ pc[w] = "meta_ok"
          PROVE  Backed(cur[v], items[v])'
      <4>1. ok => RenderId(w) \in pdf
        BY <1>1, <3>3, RenderIdType DEF SuccessesBacked
      <4>2. Backed(cur[w], Append(items[w], ok))
        BY <3>1, <4>1, BackedAppend DEF RenderId
      <4>3. QED
        BY <1>2, <2>3, <3>1, <3>3, <4>2 DEF Backed
    <3>4. QED
      BY <2>3, <3>2, <3>3 DEF Collects
  <2>4. QED
    BY <1>7, <2>1, <2>2, <2>3, ClaimItems, RunItems DEF Worker
<1>8. QED
  BY <1>4, <1>5, <1>6, <1>7 DEF SuccessesBacked

\* Every step keeps successes backed.
LEMMA NextBacked == TypeInv /\ SuccessesBacked /\ [Next]_vars => SuccessesBacked'
<1> SUFFICES ASSUME TypeInv, SuccessesBacked, [Next]_vars PROVE SuccessesBacked'
  OBVIOUS
<1>1. CASE Server
  BY <1>1, ServerWrites
     DEF SuccessesBacked, Backed, RenderId, renderVars, scanVars, tallyVars
<1>2. ASSUME NEW w \in Workers, Worker(w) PROVE SuccessesBacked'
  BY <1>2, WorkerBacked
<1>3. ASSUME NEW k \in Shards, LeaseLapses(k) PROVE SuccessesBacked'
  BY <1>3 DEF LeaseLapses, SuccessesBacked, Backed, RenderId, renderVars, scanVars, tallyVars
<1>4. ASSUME NEW w \in Workers, Crash(w) PROVE SuccessesBacked'
  <2>1. WorkerTypeOK /\ Return(w) /\ UNCHANGED <<docVars, renderVars>>
    BY <1>4 DEF Crash, TypeInv, TypeOK
  <2>2. pc'[w] = "idle" /\ \A v \in Workers \ {w} : Same(v)
    BY <2>1, ReturnFacts
  <2>3. QED
    BY <2>1, <2>2 DEF SuccessesBacked, Backed, RenderId, AtRest, Same, docVars, renderVars
<1>5. ASSUME NEW w \in Workers, SignalStop(w) \/ Restart(w) PROVE SuccessesBacked'
  BY <1>5 DEF SignalStop, Restart, SuccessesBacked, Backed, RenderId, docVars, renderVars,
              scanVars, tallyVars
<1>6. CASE UNCHANGED vars
  BY <1>6 DEF SuccessesBacked, Backed, RenderId, vars, docVars, renderVars, scanVars, tallyVars
<1>7. QED
  BY <1>1, <1>2, <1>3, <1>4, <1>5, <1>6 DEF Next, Environment

\* There are no outcomes at first.
LEMMA InitBacked == Init => SuccessesBacked
BY DEF Init, SuccessesBacked, Backed, NoResults, AtRest

\* Every success, stored or in a worker's hands, is backed by a PDF.
THEOREM SpecBacked == Spec => []SuccessesBacked
BY InitBacked, NextBacked, SpecTypeInv, PTL DEF Spec

\* Whatever fails and whoever renders an item twice, an item reported as a
\* success has a stored PDF.
THEOREM SpecSuccessHasPdf == Spec => []SuccessHasPdf
<1>1. SuccessesBacked => SuccessHasPdf
  BY DEF SuccessesBacked, Backed, SuccessHasPdf
<1>2. QED
  BY <1>1, SpecBacked, PTL

=============================================================================
