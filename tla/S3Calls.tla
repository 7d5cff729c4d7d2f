------------------------------- MODULE S3Calls -------------------------------
(***************************************************************************)
(* One object in a bucket, and the calls of a few processes on it: attempts *)
(* with a deadline, transient failures retried a bounded number of times,   *)
(* writes of attempts that timed out and still reach the object later, and  *)
(* processes that create the bucket at the same time.                       *)
(*                                                                          *)
(* Source: storage/s3_storage.rs.  TemplateStore, RenderStore and BatchJob  *)
(* see a call as one step with an outcome; this is what is inside.          *)
(***************************************************************************)
EXTENDS Integers, FiniteSets

CONSTANTS
    Processes,  \* servers and workers
    MaxTries,   \* S3_MAX_ATTEMPTS
    Rounds,     \* rounds of wait_for_bucket
    MaxCalls    \* bound: calls on the object

ASSUME TriesAssumption == MaxTries \in Nat /\ Rounds \in Nat \ {0}
ASSUME CallLimitsAssumption == MaxCalls \in Nat

NoObject == "no object"
Unknown == "unknown"
Writes == {"put", "delete", "delete_many"}
Reads == {"get", "exists", "list"}

VARIABLES
    bucket,   \* the bucket exists
    object,   \* the value of the object, that of its writer, or NoObject
    late,     \* values that attempts given up on may still write
    call,     \* the call of each process
    result,   \* how its last call returned
    failed,   \* history: failing attempts behind that result
    calls,    \* calls left
    acked     \* history: what the last write of all, acknowledged, has left

s3Vars == <<bucket, object, late, call, result, failed, calls, acked>>

\* clean: no other write overlaps.
NoCall == [op |-> "none", step |-> "none", tries |-> 0, round |-> 1, clean |-> TRUE]

\* A process first waits for the bucket.
Starting == [NoCall EXCEPT !.op = "ensure", !.step = "exists"]

\* first: the call each process starts with.
S3InitOf(first) ==
    /\ bucket = FALSE /\ object = NoObject /\ late = {}
    /\ call = [p \in Processes |-> first]
    /\ result = [p \in Processes |-> "none"] /\ failed = [p \in Processes |-> 0]
    /\ calls = MaxCalls /\ acked = NoObject
S3Init == S3InitOf(Starting)

Writing == {p \in Processes : call[p].op \in Writes}
ValueOf(p) == IF call[p].op = "put" THEN p ELSE NoObject

-----------------------------------------------------------------------------
BeginCall(p, op) ==
    /\ call[p].op = "none" /\ calls > 0
    /\ calls' = calls - 1
    /\ LET new == [NoCall EXCEPT !.op = op, !.step = "send", !.clean = Writing = {}] IN
       call' = [q \in Processes |->
                   CASE q = p -> new
                     [] q # p /\ op \in Writes -> [call[q] EXCEPT !.clean = FALSE]
                     [] OTHER -> call[q]]
    /\ result' = [result EXCEPT ![p] = "none"]
    /\ acked' = IF op \in Writes THEN Unknown ELSE acked
    /\ UNCHANGED <<bucket, object, late, failed>>

\* A process that does not get its bucket exits.
Returned(p, how) ==
    /\ call' = [call EXCEPT ![p] =
           [NoCall EXCEPT !.op = IF call[p].op = "ensure" /\ how # "ok" THEN "exited" ELSE "none"]]
    /\ result' = [result EXCEPT ![p] = how]
Return(p, how) == Returned(p, how) /\ UNCHANGED failed

\* A write that was alone, from its first attempt to its acknowledgement,
\* with no older attempt on its way, settles the object.
Settles(p) == call[p].op \in Writes /\ call[p].clean /\ late = {}
Acknowledge(p, how) ==
    /\ Return(p, how)
    /\ acked' = IF Settles(p) THEN ValueOf(p) ELSE acked

\* The attempt reaches the object and its response comes back in time.  For
\* exists a missing object is an answer, for get it is NotFound.
Answered(p) ==
    /\ call[p].step = "send"
    /\ object' = IF call[p].op \in Writes THEN ValueOf(p) ELSE object
    /\ Acknowledge(p, IF call[p].op \in {"get", "exists"} /\ object = NoObject
                      THEN "missing" ELSE "ok")
    /\ UNCHANGED <<bucket, late, calls>>

\* with_retry: the next attempt starts the operation over; ensure_bucket gets
\* a new round from wait_for_bucket when it returns an error.
FirstStep(p) == IF call[p].op = "ensure" THEN "exists" ELSE "send"
NextRound(p, how) ==
    IF call[p].op = "ensure" /\ call[p].round < Rounds
    THEN /\ call' = [call EXCEPT ![p] = [Starting EXCEPT !.round = call[p].round + 1]]
         /\ UNCHANGED <<result, failed>>
    ELSE /\ Returned(p, how)
         /\ failed' = IF how = "error" THEN [failed EXCEPT ![p] = call[p].tries + 1] ELSE failed
LastTry(p) == call[p].tries + 1 >= MaxTries
TryForever(p) == \* mutant
    /\ call' = [call EXCEPT ![p].step = FirstStep(p)]
    /\ UNCHANGED <<result, failed>>
TryAgain(p) ==
    IF LastTry(p) THEN NextRound(p, "error")
    ELSE /\ call' = [call EXCEPT ![p].tries = @ + 1, ![p].step = FirstStep(p)]
         /\ UNCHANGED <<result, failed>>

\* What an attempt that fails has done to the object by then.
MayApply(p) == object' = object \/ (call[p].op \in Writes /\ object' = ValueOf(p))

\* 5xx, a refused connection, slow down; delete_objects that lists a failure.
TransientIsDone(p) == \* mutant
    /\ call[p].step = "send"
    /\ MayApply(p)
    /\ IF call[p].op = "delete_many" THEN Acknowledge(p, "ok") ELSE TryAgain(p) /\ UNCHANGED acked
    /\ UNCHANGED <<bucket, late, calls>>
Transient(p) ==
    /\ call[p].step = "send"
    /\ MayApply(p)
    /\ TryAgain(p)
    /\ UNCHANGED <<bucket, late, calls, acked>>

\* Access denied and the like are not retried.
Terminal(p) ==
    /\ call[p].step = "send"
    /\ Return(p, "denied")
    /\ UNCHANGED <<bucket, object, late, calls, acked>>

\* op_timeout: the future of the attempt is dropped; its request was lost,
\* has been served, or is still on its way.  A stalled backend answers none.
TimedOut(p) ==
    /\ call[p].step # "none"
    /\ IF call[p].op \in Writes
       THEN \/ MayApply(p) /\ UNCHANGED late
            \/ UNCHANGED object /\ late' = late \cup {ValueOf(p)}
       ELSE UNCHANGED <<object, late>>
    /\ TryAgain(p)
    /\ UNCHANGED <<bucket, calls, acked>>

ArrivesLate ==
    /\ \E v \in late :
          /\ late' = late \ {v}
          /\ object' \in {object, v}
    /\ UNCHANGED <<bucket, call, result, failed, calls, acked>>

-----------------------------------------------------------------------------
(* ensure_bucket: exists, create, and exists again if someone was faster    *)

GoesOn(p, step) == call' = [call EXCEPT ![p].step = step] /\ UNCHANGED <<result, failed>>

LookForBucket(p) ==
    /\ call[p].step \in {"exists", "confirm"}
    /\ IF bucket THEN Return(p, "ok")
       ELSE call[p].step = "exists" /\ GoesOn(p, "create")
    /\ UNCHANGED <<bucket, object, late, calls, acked>>

CreateOrFail(p) == \* mutant
    /\ call[p].step = "create"
    /\ bucket' = TRUE
    /\ Return(p, IF bucket THEN "error" ELSE "ok")
    /\ UNCHANGED <<object, late, calls, acked>>
Create(p) ==
    /\ call[p].step = "create"
    /\ bucket' = TRUE
    /\ IF bucket THEN GoesOn(p, "confirm") ELSE Return(p, "ok")
    /\ UNCHANGED <<object, late, calls, acked>>

\* Transient, as above; the bucket may have been created all the same.
BucketTrouble(p) ==
    /\ call[p].step \in {"exists", "create", "confirm"}
    /\ bucket' = bucket \/ (call[p].step = "create" /\ bucket' = TRUE)
    /\ TryAgain(p)
    /\ UNCHANGED <<object, late, calls, acked>>

\* Access denied and the like; or the bucket, said to exist already, is not seen:
\* no other attempt, the round is over.
BucketRefused(p) ==
    /\ call[p].step \in {"exists", "create", "confirm"}
    /\ NextRound(p, "denied")
    /\ UNCHANGED <<bucket, object, late, calls, acked>>

-----------------------------------------------------------------------------
S3Step(p) ==
    \/ Answered(p) \/ Transient(p) \/ Terminal(p) \/ TimedOut(p)
    \/ LookForBucket(p) \/ Create(p) \/ BucketTrouble(p) \/ BucketRefused(p)

S3Next ==
    \/ \E p \in Processes, op \in Writes \cup Reads : BeginCall(p, op)
    \/ \E p \in Processes : S3Step(p)
    \/ ArrivesLate

S3Spec == S3Init /\ [][S3Next]_s3Vars

\* An attempt is answered or its deadline passes.
S3Fairness == \A p \in Processes : WF_s3Vars(S3Step(p))

-----------------------------------------------------------------------------
S3TypeOK ==
    /\ bucket \in BOOLEAN
    /\ object \in Processes \cup {NoObject} /\ late \subseteq Processes \cup {NoObject}
    /\ \A p \in Processes :
          /\ call[p].op \in Writes \cup Reads \cup {"none", "ensure", "exited"}
          /\ call[p].step \in {"none", "send", "exists", "create", "confirm"}
          /\ call[p].tries \in Nat /\ call[p].round \in 1..Rounds
          /\ result[p] \in {"none", "ok", "missing", "denied", "error"}
    /\ acked \in Processes \cup {NoObject, Unknown}

\* A write that returned Ok is what the object holds, until somebody writes
\* again; an attempt that timed out and is still on its way is the exception.
AckedWriteHolds == acked # Unknown => object = acked

\* A call fails with a transient error only after MaxTries failing attempts;
\* so of two processes that create the bucket at once, none fails because the
\* other was faster, unless the store hides from it the bucket it says is there
\* (that is "denied", like everything the store refuses and with_retry does not
\* retry).
ErrorIsEarned == \A p \in Processes : result[p] = "error" => failed[p] >= MaxTries

\* "Without this a stalled backend hangs the op forever": every call returns.
S3CallReturns == \A p \in Processes : call[p].step # "none" ~> call[p].step = "none"
=============================================================================
