------------------------------- MODULE JobView -------------------------------
(***************************************************************************)
(* What a client of the batch API sees of the job, JobView::aggregate and   *)
(* list_job_items, and the properties stated in those terms.  The view is   *)
(* taken of one state: list_job_shards reads the descriptors one by one.    *)
(***************************************************************************)
EXTENDS BatchJob, FiniteSetsExt

\* JobView::aggregate(job, shards), s being the descriptors it is given.
StoredShards(s) == {k \in Shards : Stored(s[k])}
JobDone(s) == MapThenSumSet(LAMBDA k : s[k].done, StoredShards(s))
JobFailed(s) == MapThenSumSet(LAMBDA k : s[k].failed, StoredShards(s))

Settled(s) == \A k \in Shards : Terminal(s[k])
AllAbandoned(s) == \A k \in Shards : s[k].status = "failed"
Incomplete(s) == JobFailed(s) > 0 \/ JobDone(s) < Total

TerminalStatus(s) ==
    IF AllAbandoned(s) THEN "failed"
    ELSE IF Incomplete(s) THEN "completed_with_failures" ELSE "completed"

OpenStatus(s) ==
    IF \E k \in StoredShards(s) : s[k].status \in {"running", "done"}
    THEN "running" ELSE "queued"

Aggregate(s) ==
    IF NumShards = 0 THEN "completed"
    ELSE IF Settled(s) THEN TerminalStatus(s) ELSE OpenStatus(s)

AllTerminal == Settled(shard)
JobStatus == Aggregate(shard)

\* list_job_items over the whole job: the items of every results.json.
ListedItems ==
    UNION {{Start(k) + i - 1 : i \in DOMAIN results[k]} : k \in Shards}

Successes(k) == {i \in DOMAIN results[k] : results[k][i]}

-----------------------------------------------------------------------------
(***************************************************************************)
(* Properties.  The runs say under which failures each of them holds.       *)
(***************************************************************************)

\* A shard of an enqueued job that still needs work has its marker, so some
\* worker's listing finds it (render_storage/layout.rs on PENDING_PREFIX).
OutstandingHasMarker ==
    Enqueued => \A k \in Shards : Terminal(shard[k]) \/ k \in marker

\* A shard without a marker that is not terminal is in the hands of a worker
\* that goes on with it: claims that race may take a marker away from a running
\* shard, but never from an orphaned one.
OutstandingAttended ==
    Enqueued => \A k \in Shards :
        \/ Terminal(shard[k])
        \/ k \in marker
        \/ \E w \in Workers : cur[w] = k /\ shard[k].owner = w
              /\ pc[w] \notin {"idle", "scan", "drop", "poison", "release"}

\* The counts of a Done descriptor are those of its results.json.
ResultsMatchCounts ==
    \A k \in Shards : shard[k].status = "done" =>
        /\ shard[k].done = Cardinality(Successes(k))
        /\ shard[k].failed = Len(results[k]) - Cardinality(Successes(k))

\* get_render_pdf serves every item reported as a success: its meta.json still
\* says success.  Otherwise the client gets the render's error.
SuccessIsServable ==
    \A k \in Shards : \A i \in Successes(k) : meta[RenderIdOf[Start(k) + i - 1]] = "ok"

\* The same once every worker is through with the job.
SettledSuccessIsServable ==
    (AllTerminal /\ \A w \in Workers : pc[w] = "idle") => SuccessIsServable

\* A client that sees `completed` can list every item (routes/jobs.rs on
\* get_job_items).
CompletedMeansFullSet == JobStatus = "completed" => ListedItems = Items

\* Once the job's status is a final one, it is final: polling stops there.
FinalStatusIsFinal ==
    [][AllTerminal => UNCHANGED JobStatus]_vars

\* Every shard of an enqueued job ends, so polling ends.
JobEnds == Enqueued ~> AllTerminal

\* Each shard follows the life cycle of ShardLifecycle: attempts are made one
\* after another and counted, Done and Failed are final, and it ends.
Phase(d) ==
    CASE d.status = "none" -> "absent"
      [] d.status = "pending" -> "waiting"
      [] d.status = "running" -> "held"
      [] Terminal(d) -> d.status

Lifecycle == INSTANCE ShardLifecycle WITH
    phase <- [k \in Shards |-> Phase(shard[k])],
    tries <- [k \in Shards |-> shard[k].attempts]

LifecycleSpec == Lifecycle!Spec

=============================================================================
