-------------------------- MODULE RenderPoolProofs --------------------------
(***************************************************************************)
(* Proofs of the invariants of RenderPool, for every number of callers,     *)
(* compiles and slots.                                                       *)
(*                                                                          *)
(* The inductive invariant PoolInv adds to the types and SlotsAddUp that an  *)
(* unused compile has no holder: without it a Spawn could take a handle from *)
(* a watcher, and leaked would count a watcher that is gone.                 *)
(***************************************************************************)
EXTENDS RenderPool, FiniteSetTheorems, TLAPS

UnusedIsFree == \A t \in Tasks : task[t] = "unused" => owner[t] = "nobody"

PoolInv == PoolTypeOK /\ UnusedIsFree /\ SlotsAddUp

Running == {t \in Tasks : Runs(t)}

-----------------------------------------------------------------------------
(* Counting                                                                  *)

\* Sets of compiles are finite.
LEMMA TaskSetsAreFinite ==
    ASSUME NEW S \in SUBSET Tasks
    PROVE  IsFiniteSet(S) /\ Cardinality(S) \in Nat
  BY TasksAreFinite, FS_Subset, FS_CardinalityType

\* A set of compiles that gains or loses one.
LEMMA OneMore ==
    ASSUME NEW S \in SUBSET Tasks, NEW t \in Tasks, t \notin S
    PROVE  Cardinality(S \cup {t}) = Cardinality(S) + 1
  BY TaskSetsAreFinite, FS_AddElement

LEMMA OneLess ==
    ASSUME NEW S \in SUBSET Tasks, NEW t \in S
    PROVE  Cardinality(S \ {t}) = Cardinality(S) - 1
  BY TaskSetsAreFinite, FS_RemoveElement

-----------------------------------------------------------------------------
(* The inductive invariant                                                   *)

\* A registry starts with every slot free and nothing leaked.
LEMMA PoolInvInit == PoolInit => PoolInv
  <1> SUFFICES ASSUME PoolInit PROVE PoolInv
    OBVIOUS
  <1>1. PoolTypeOK
    BY SlotsAssumption DEF PoolInit, PoolTypeOK, Ended
  <1>2. UnusedIsFree
    BY DEF PoolInit, UnusedIsFree
  <1>3. Running = {} /\ Held("watcher") = {}
    BY DEF PoolInit, Running, Runs, Held
  <1>4. Cardinality(Running) = 0 /\ Cardinality(Held("watcher")) = 0
    BY <1>3, FS_EmptySet
  <1>5. permits = Slots /\ leaked = 0
    BY DEF PoolInit
  <1>6. permits + Cardinality(Running) = Slots /\ leaked = Cardinality(Held("watcher"))
    BY <1>4, <1>5, SlotsAssumption
  <1>7. SlotsAddUp
    BY <1>6 DEF SlotsAddUp, Running
  <1> QED BY <1>1, <1>2, <1>7 DEF PoolInv

\* Every step, of a caller, a compile or a watcher, keeps PoolInv.
LEMMA PoolInvNext == PoolInv /\ [PoolNext]_poolVars => PoolInv'
  <1> SUFFICES ASSUME PoolInv, [PoolNext]_poolVars PROVE PoolInv'
    OBVIOUS
  <1> USE DEF PoolInv
  <1>1. SlotsAddUp <=> /\ permits + Cardinality(Running) = Slots
                       /\ leaked = Cardinality(Held("watcher"))
    BY DEF SlotsAddUp, Running
  <1>2. SlotsAddUp' <=> /\ permits' + Cardinality(Running') = Slots
                        /\ leaked' = Cardinality(Held("watcher")')
    BY DEF SlotsAddUp, Running
  <1>3. /\ Running \in SUBSET Tasks /\ Held("watcher") \in SUBSET Tasks
        /\ Cardinality(Running) \in Nat /\ Cardinality(Held("watcher")) \in Nat
        /\ permits \in Nat /\ leaked \in Nat /\ Slots \in Nat /\ permits <= Slots
    BY TaskSetsAreFinite, SlotsAssumption DEF Running, Held, PoolTypeOK
  \* Steps that touch neither a compile nor a count.
  <1>4. ASSUME UNCHANGED <<permits, task, owner, leaked>>,
               phase' \in [Callers -> Ended \cup {"queued", "running"}]
        PROVE  PoolInv'
    <2>1. Running' = Running /\ Held("watcher")' = Held("watcher")
      BY <1>4 DEF Running, Runs, Held
    <2>2. PoolTypeOK' /\ UnusedIsFree'
      BY <1>4 DEF PoolTypeOK, UnusedIsFree
    <2> QED BY <1>1, <1>2, <1>4, <2>1, <2>2
  <1>5. ASSUME NEW c \in Callers, Refuse(c) \/ Enqueue(c) \/ TimeoutInQueue(c)
        PROVE  PoolInv'
    <2>1. phase' \in [Callers -> Ended \cup {"queued", "running"}]
      BY <1>5 DEF Refuse, Enqueue, TimeoutInQueue, Ends, Ended, PoolTypeOK
    <2>2. UNCHANGED <<permits, task, owner, leaked>>
      BY <1>5 DEF Refuse, Enqueue, TimeoutInQueue
    <2> QED BY <1>4, <2>1, <2>2
  <1>6. ASSUME NEW c \in Callers, Drop(c)
        PROVE  PoolInv'
    <2>1. Running' = Running
      BY <1>6 DEF Drop, Running, Runs
    <2>2. Held("watcher")' = Held("watcher")
      BY <1>6, CallersAssumption DEF Drop, Held
    <2>3. PoolTypeOK'
      BY <1>6 DEF Drop, Ends, Ended, PoolTypeOK
    <2>4. UnusedIsFree'
      BY <1>6 DEF Drop, UnusedIsFree
    <2> QED BY <1>1, <1>2, <1>6, <2>1, <2>2, <2>3, <2>4 DEF Drop
  <1>7. ASSUME NEW c \in Callers, NEW t \in Tasks, Spawn(c, t)
        PROVE  PoolInv'
    <2>1. t \notin Running /\ t \notin Held("watcher")
      BY <1>7 DEF Spawn, Running, Runs, Held, UnusedIsFree
    <2>2. Running' = Running \cup {t}
      BY <1>7 DEF Spawn, Running, Runs, PoolTypeOK
    <2>3. Held("watcher")' = Held("watcher")
      BY <1>7, <2>1, CallersAssumption DEF Spawn, Held, PoolTypeOK
    <2>4. Cardinality(Running') = Cardinality(Running) + 1
      BY <1>3, <2>1, <2>2, OneMore
    <2>5. permits' = permits - 1 /\ permits > 0 /\ leaked' = leaked
      BY <1>7 DEF Spawn
    <2>6. PoolTypeOK'
      BY <1>3, <1>7, <2>5 DEF Spawn, PoolTypeOK
    <2>7. UnusedIsFree'
      BY <1>7 DEF Spawn, UnusedIsFree, PoolTypeOK
    <2> QED BY <1>1, <1>2, <1>3, <2>3, <2>4, <2>5, <2>6, <2>7
  <1>8. ASSUME NEW t \in Tasks, Release(t)
        PROVE  PoolInv'
    <2>1. t \in Running
      BY <1>8 DEF Release, Running
    <2>2. Running' = Running \ {t} /\ Held("watcher")' = Held("watcher")
      BY <1>8 DEF Release, Running, Runs, Held, PoolTypeOK
    <2>3. Cardinality(Running') = Cardinality(Running) - 1
      BY <1>3, <2>1, <2>2, OneLess
    <2>4. permits' = permits + 1 /\ leaked' = leaked
      BY <1>8 DEF Release
    <2>5. SlotsAddUp' /\ permits' \in 0..Slots
      <3>1. Cardinality(Running') \in Nat
        BY TaskSetsAreFinite, <1>3, <2>2
      <3> QED BY <1>1, <1>2, <1>3, <2>2, <2>3, <2>4, <3>1
    <2>6. PoolTypeOK'
      BY <1>8, <2>5 DEF Release, PoolTypeOK
    <2>7. UnusedIsFree'
      BY <1>8 DEF Release, UnusedIsFree, PoolTypeOK
    <2> QED BY <2>5, <2>6, <2>7
  <1>9. ASSUME NEW t \in Tasks, Complete(t)
        PROVE  PoolInv'
    <2>1. Running' = Running /\ Held("watcher")' = Held("watcher")
      BY <1>9 DEF Complete, Running, Runs, Held, PoolTypeOK
    <2>2. PoolTypeOK'
      BY <1>9 DEF Complete, PoolTypeOK
    <2>3. UnusedIsFree'
      BY <1>9 DEF Complete, UnusedIsFree, PoolTypeOK
    <2> QED BY <1>1, <1>2, <1>9, <2>1, <2>2, <2>3 DEF Complete
  <1>10. ASSUME NEW c \in Callers, NEW t \in Tasks, Join(c, t)
         PROVE  PoolInv'
    <2>1. Running' = Running
      BY <1>10 DEF Join, Reaped, Running, Runs, PoolTypeOK
    <2>2. Held("watcher")' = Held("watcher")
      BY <1>10, CallersAssumption DEF Join, Reaped, Held, PoolTypeOK
    <2>3. PoolTypeOK'
      BY <1>10 DEF Join, Reaped, Ends, Ended, PoolTypeOK
    <2>4. UnusedIsFree'
      BY <1>10 DEF Join, Reaped, UnusedIsFree, PoolTypeOK
    <2> QED BY <1>1, <1>2, <1>10, <2>1, <2>2, <2>3, <2>4 DEF Join
  <1>11. ASSUME NEW c \in Callers, NEW t \in Tasks, Timeout(c, t)
         PROVE  PoolInv'
    <2>1. t \notin Held("watcher")
      BY <1>11, CallersAssumption DEF Timeout, Held
    <2>2. Running' = Running /\ Held("watcher")' = Held("watcher") \cup {t}
      BY <1>11 DEF Timeout, Running, Runs, Held, PoolTypeOK
    <2>3. Cardinality(Held("watcher")') = Cardinality(Held("watcher")) + 1
      BY <1>3, <2>1, <2>2, OneMore
    <2>4. leaked' = leaked + 1 /\ permits' = permits
      BY <1>11 DEF Timeout
    <2>5. PoolTypeOK'
      BY <1>3, <1>11, <2>4 DEF Timeout, Ends, Ended, PoolTypeOK
    <2>6. UnusedIsFree'
      BY <1>11 DEF Timeout, UnusedIsFree, PoolTypeOK
    <2> QED BY <1>1, <1>2, <2>2, <2>3, <2>4, <2>5, <2>6
  <1>12. ASSUME NEW t \in Tasks, Watch(t)
         PROVE  PoolInv'
    <2>1. t \in Held("watcher")
      BY <1>12 DEF Watch, Held
    <2>2. Running' = Running /\ Held("watcher")' = Held("watcher") \ {t}
      BY <1>12 DEF Watch, Reaped, Running, Runs, Held, PoolTypeOK
    <2>3. Cardinality(Held("watcher")') = Cardinality(Held("watcher")) - 1
      BY <1>3, <2>1, <2>2, OneLess
    <2>4. leaked' = leaked - 1 /\ permits' = permits
      BY <1>12 DEF Watch
    <2>5. SlotsAddUp' /\ leaked' \in Nat
      <3>1. Cardinality(Held("watcher")') \in Nat
        BY TaskSetsAreFinite, <1>3, <2>2
      <3> QED BY <1>1, <1>2, <2>2, <2>3, <2>4, <3>1
    <2>6. PoolTypeOK'
      BY <1>12, <2>5 DEF Watch, Reaped, PoolTypeOK
    <2>7. UnusedIsFree'
      BY <1>12 DEF Watch, Reaped, UnusedIsFree, PoolTypeOK
    <2> QED BY <2>5, <2>6, <2>7
  <1>13. CASE UNCHANGED poolVars
    BY <1>4, <1>13 DEF poolVars, PoolTypeOK
  <1>14. CASE PoolNext
    BY <1>5, <1>6, <1>7, <1>8, <1>9, <1>10, <1>11, <1>12, <1>14 DEF PoolNext
  <1> QED BY <1>13, <1>14

\* The inductive invariant holds throughout.
THEOREM PoolInvariant == PoolSpec => []PoolInv
  <1>1. PoolInit => PoolInv
    BY PoolInvInit
  <1>2. PoolInv /\ [PoolNext]_poolVars => PoolInv'
    BY PoolInvNext
  <1> QED BY <1>1, <1>2, PTL DEF PoolSpec

-----------------------------------------------------------------------------
(* What follows                                                              *)

\* No slot is lost or freed twice, and each counted leak has its watcher, for
\* all the ways in which calls and compiles may end.
THEOREM SlotsAlwaysAddUp == PoolSpec => []SlotsAddUp
  BY PoolInvariant, PTL DEF PoolInv

\* The counts are within their types; the permits never exceed the slots.
THEOREM PoolTypesHold == PoolSpec => []PoolTypeOK
  BY PoolInvariant, PTL DEF PoolInv

\* Counting: as many running leaks as slots leave no permit and no other
\* running compile.
LEMMA StuckByCount == PoolInv => RefusalMeansStuck
  <1> SUFFICES ASSUME PoolInv, Exhausted, \A t \in Held("watcher") : Runs(t)
               PROVE  permits = 0 /\ \A t \in Tasks : Runs(t) => owner[t] = "watcher"
    BY DEF RefusalMeansStuck
  <1>1. Held("watcher") \in SUBSET Running /\ Running \in SUBSET Tasks
    BY DEF Held, Running
  <1>2. IsFiniteSet(Running) /\ Cardinality(Running) \in Nat
    BY <1>1, TaskSetsAreFinite
  <1>3. Cardinality(Held("watcher")) \in Nat
    BY TaskSetsAreFinite DEF Held
  <1>4. Cardinality(Held("watcher")) <= Cardinality(Running)
    BY <1>1, <1>2, FS_Subset
  <1>5. permits + Cardinality(Running) = Slots /\ leaked = Cardinality(Held("watcher"))
    BY DEF PoolInv, SlotsAddUp, Running
  <1>6. permits \in Nat /\ leaked >= Slots
    BY SlotsAssumption DEF PoolInv, PoolTypeOK, Exhausted
  <1>7. permits = 0 /\ Cardinality(Running) = Cardinality(Held("watcher"))
    BY <1>2, <1>3, <1>4, <1>5, <1>6, SlotsAssumption
  <1>8. Running = Held("watcher")
    BY <1>1, <1>2, <1>7, FS_Subset
  <1> QED BY <1>7, <1>8 DEF Running, Held

\* A render is refused only when every slot is under a compile that timed out,
\* up to the watchers that have yet to see one end.
THEOREM RefusalsAreEarned == PoolSpec => []RefusalMeansStuck
  BY PoolInvariant, StuckByCount, PTL
=============================================================================
