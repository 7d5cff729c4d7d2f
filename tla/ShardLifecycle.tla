--------------------------- MODULE ShardLifecycle ---------------------------
(***************************************************************************)
(* What the batch queue promises about every shard, without storage calls,  *)
(* leases, heartbeats or worker ids: it is published once, held by at most  *)
(* one attempt after another, MaxAttempts of them at most, and ends once    *)
(* and for all as done or given up.  Promised by the module comments of     *)
(* crates/papermake-registry/src/batch.rs.                                  *)
(***************************************************************************)
EXTENDS Naturals

CONSTANTS Shards, MaxAttempts

VARIABLES
    phase,  \* "absent", "waiting", "held", "done" or "failed"
    tries   \* attempts made so far

vars == <<phase, tries>>

Init ==
    /\ phase = [k \in Shards |-> "absent"]
    /\ tries = [k \in Shards |-> 0]

Move(k, from, to) == phase[k] \in from /\ phase' = [phase EXCEPT ![k] = to]

Publish(k) == Move(k, {"absent"}, "waiting") /\ UNCHANGED tries

\* An attempt begins, the first one or the one after a lost worker.
Take(k) ==
    /\ Move(k, {"waiting", "held"}, "held")
    /\ tries[k] < MaxAttempts
    /\ tries' = [tries EXCEPT ![k] = @ + 1]

GiveBack(k) == Move(k, {"held"}, "waiting") /\ UNCHANGED tries

Complete(k) == Move(k, {"held"}, "done") /\ UNCHANGED tries

GiveUp(k) ==
    /\ Move(k, {"waiting", "held"}, "failed")
    /\ tries[k] = MaxAttempts
    /\ UNCHANGED tries

Next == \E k \in Shards :
    Publish(k) \/ Take(k) \/ GiveBack(k) \/ Complete(k) \/ GiveUp(k)

Ends(k) == phase[k] \in {"done", "failed"}

Safety == Init /\ [][Next]_vars

\* A published shard ends: the liveness half of the promise.
Spec == Safety /\ \A k \in Shards : (phase[k] = "waiting") ~> Ends(k)

=============================================================================
