----------------------------- MODULE RenderPool -----------------------------
(***************************************************************************)
(* The render slots of a registry.  A compile runs on a blocking thread     *)
(* that cannot be cancelled and holds its slot until it ends by itself;     *)
(* whoever waits for it may give up first, on a timeout, and the compile is *)
(* then counted as leaked until a watcher sees it end, or because its       *)
(* request was dropped, and then nobody counts it.                          *)
(*                                                                          *)
(* Source: registry/render.rs, render_typst_blocking, its cached twin for   *)
(* batches and track_leaked_render.                                         *)
(***************************************************************************)
EXTENDS Integers, Sequences, FiniteSets

CONSTANTS
    Callers,  \* requests and batch jobs that render
    Tasks,    \* bound: compiles alive at once, in whatever state
    Slots     \* max_concurrent_renders

ASSUME SlotsAssumption == Slots \in Nat \ {0}
ASSUME TasksAreFinite == IsFiniteSet(Tasks)
ASSUME CallersAssumption == Callers \cap {"watcher", "nobody"} = {}

VARIABLES
    phase,    \* each caller: how its last call ended, or where it waits
    queue,    \* the callers at the semaphore, first come first served
    permits,  \* free permits of render_semaphore
    task,     \* each compile: its thread runs, has dropped its permit, is over
    owner,    \* who holds its JoinHandle: a caller, a watcher or nobody
    leaked    \* leaked_renders

poolVars == <<phase, queue, permits, task, owner, leaked>>

Ended == {"none", "rendered", "refused", "timeout", "dropped"}
Waiting(c) == phase[c] \in {"queued", "running"}
Runs(t) == task[t] = "running"
Held(c) == {t \in Tasks : owner[t] = c}

PoolInit ==
    /\ phase = [c \in Callers |-> "none"]
    /\ queue = <<>>
    /\ permits = Slots
    /\ task = [t \in Tasks |-> "unused"]
    /\ owner = [t \in Tasks |-> "nobody"]
    /\ leaked = 0

-----------------------------------------------------------------------------
Ends(c, how) == phase' = [phase EXCEPT ![c] = how]
Leaves(c) == queue' = SelectSeq(queue, LAMBDA d : d # c)

\* check_render_capacity refuses while every slot is counted as leaked.
Exhausted == leaked >= Slots

Refuse(c) ==
    /\ ~Waiting(c) /\ Exhausted
    /\ Ends(c, "refused")
    /\ UNCHANGED <<queue, permits, task, owner, leaked>>

Enqueue(c) ==
    /\ ~Waiting(c) /\ ~Exhausted
    /\ phase' = [phase EXCEPT ![c] = "queued"]
    /\ queue' = Append(queue, c)
    /\ UNCHANGED <<permits, task, owner, leaked>>

\* The permit moves into the blocking task, the handle stays with the caller.
Spawn(c, t) ==
    /\ queue # <<>> /\ Head(queue) = c
    /\ permits > 0 /\ task[t] = "unused"
    /\ phase' = [phase EXCEPT ![c] = "running"]
    /\ queue' = Tail(queue)
    /\ permits' = permits - 1
    /\ task' = [task EXCEPT ![t] = "running"]
    /\ owner' = [owner EXCEPT ![t] = c]
    /\ UNCHANGED leaked

\* The compile returns or panics: first its permit is dropped, then its
\* handle becomes ready.
Release(t) ==
    /\ Runs(t)
    /\ task' = [task EXCEPT ![t] = "released"]
    /\ permits' = permits + 1
    /\ UNCHANGED <<phase, queue, owner, leaked>>

Complete(t) ==
    /\ task[t] = "released"
    /\ task' = [task EXCEPT ![t] = IF owner[t] = "nobody" THEN "unused" ELSE "done"]
    /\ UNCHANGED <<phase, queue, permits, owner, leaked>>

Reaped(t) ==
    /\ task' = [task EXCEPT ![t] = "unused"]
    /\ owner' = [owner EXCEPT ![t] = "nobody"]

Join(c, t) ==
    /\ owner[t] = c /\ task[t] = "done"
    /\ Reaped(t)
    /\ Ends(c, "rendered")
    /\ UNCHANGED <<queue, permits, leaked>>

TimeoutInQueue(c) ==
    /\ phase[c] = "queued"
    /\ Leaves(c) /\ Ends(c, "timeout")
    /\ UNCHANGED <<permits, task, owner, leaked>>

\* track_leaked_render.  A compile that is over by then is joined instead.
TimeoutFreesSlot(c, t) == \* mutant
    /\ owner[t] = c /\ task[t] \in {"running", "released"}
    /\ Ends(c, "timeout")
    /\ permits' = permits + 1
    /\ owner' = [owner EXCEPT ![t] = "watcher"]
    /\ leaked' = leaked + 1
    /\ UNCHANGED <<queue, task>>
TimeoutOnlyWhenReleased(c, t) == \* mutant
    /\ owner[t] = c /\ task[t] = "released"
    /\ Ends(c, "timeout")
    /\ owner' = [owner EXCEPT ![t] = "watcher"]
    /\ leaked' = leaked + 1
    /\ UNCHANGED <<queue, permits, task>>
Timeout(c, t) ==
    /\ owner[t] = c /\ task[t] \in {"running", "released"}
    /\ Ends(c, "timeout")
    /\ owner' = [owner EXCEPT ![t] = "watcher"]
    /\ leaked' = leaked + 1
    /\ UNCHANGED <<queue, permits, task>>

\* The spawned watcher: the count drops once the handle is ready.
WatchForgets(t) == \* mutant
    /\ owner[t] = "watcher" /\ task[t] = "done"
    /\ Reaped(t)
    /\ UNCHANGED <<phase, queue, permits, leaked>>
Watch(t) ==
    /\ owner[t] = "watcher" /\ task[t] = "done"
    /\ Reaped(t)
    /\ leaked' = leaked - 1
    /\ UNCHANGED <<phase, queue, permits>>

\* The request is dropped at its await point, and the JoinHandle with it: the
\* compile runs on, uncounted.
Drop(c) ==
    /\ Waiting(c)
    /\ Leaves(c) /\ Ends(c, "dropped")
    /\ owner' = [t \in Tasks |-> IF owner[t] = c THEN "nobody" ELSE owner[t]]
    /\ task' = [t \in Tasks |-> IF owner[t] = c /\ task[t] = "done" THEN "unused" ELSE task[t]]
    /\ UNCHANGED <<permits, leaked>>

-----------------------------------------------------------------------------
PoolNext ==
    \/ \E c \in Callers : Refuse(c) \/ Enqueue(c) \/ TimeoutInQueue(c) \/ Drop(c)
    \/ \E c \in Callers, t \in Tasks : Spawn(c, t) \/ Join(c, t) \/ Timeout(c, t)
    \/ \E t \in Tasks : Release(t) \/ Complete(t) \/ Watch(t)

PoolSpec == PoolInit /\ [][PoolNext]_poolVars

\* Timers fire and tokio runs what is ready; nothing is assumed of Release,
\* since a template may never terminate.
PoolFairness ==
    /\ \A c \in Callers :
          WF_poolVars(TimeoutInQueue(c) \/ \E t \in Tasks : Join(c, t) \/ Timeout(c, t))
    /\ \A t \in Tasks : WF_poolVars(Complete(t) \/ Watch(t))

-----------------------------------------------------------------------------
PoolTypeOK ==
    /\ phase \in [Callers -> Ended \cup {"queued", "running"}]
    /\ permits \in 0..Slots
    /\ task \in [Tasks -> {"unused", "running", "released", "done"}]
    /\ owner \in [Tasks -> Callers \cup {"watcher", "nobody"}]
    /\ leaked \in Nat

\* "Permits and the leaked-render count must both come back": a slot is free
\* or under a running compile, and each counted leak has its watcher.
SlotsAddUp ==
    /\ permits + Cardinality({t \in Tasks : Runs(t)}) = Slots
    /\ leaked = Cardinality(Held("watcher"))

\* check_render_capacity rejects "if every slot is currently held by a
\* timed-out render": true as soon as no watcher is behind.
RefusalMeansStuck ==
    (Exhausted /\ \A t \in Held("watcher") : Runs(t)) =>
        permits = 0 /\ \A t \in Tasks : Runs(t) => owner[t] = "watcher"

\* No call waits forever, whatever the templates do.
RenderCallEnds == \A c \in Callers : Waiting(c) ~> ~Waiting(c)

\* "A slow but terminating render self-heals": if every compile ends, renders
\* are accepted again and again.
PoolHeals == (\A t \in Tasks : []<>~Runs(t)) => []<>~Exhausted
=============================================================================
