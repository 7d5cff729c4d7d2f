---------------------------- MODULE S3CallsProofs ----------------------------
(***************************************************************************)
(* Proofs of the safety properties of S3Calls, for every number of          *)
(* processes, attempts, rounds and calls.                                    *)
(*                                                                          *)
(* What a step makes of the call of its process is stated once (StepShape);  *)
(* the rest follows from it.  AckedWriteHolds needs more than itself: a      *)
(* write marked clean is the only one under way, and while the object is     *)
(* settled no write is under way and none arrives late.                      *)
(***************************************************************************)
EXTENDS S3Calls, TLAPS

Calls == [op : Writes \cup Reads \cup {"none", "ensure", "exited"},
          step : {"none", "send", "exists", "create", "confirm"},
          tries : Nat, round : Nat, clean : BOOLEAN]

CallsTyped ==
    /\ call \in [Processes -> Calls]
    /\ result \in [Processes -> {"none", "ok", "missing", "denied", "error"}]
    /\ failed \in [Processes -> Nat]

\* A clean write is the only one.
CleanIsAlone == \A p, q \in Processes :
    (call[p].op \in Writes /\ call[p].clean /\ call[q].op \in Writes) => p = q

\* The object is settled: nothing can change it.
SettledIsQuiet == acked # Unknown => (object = acked /\ late = {} /\ Writing = {})

S3Inv == CallsTyped /\ ErrorIsEarned /\ CleanIsAlone /\ SettledIsQuiet

-----------------------------------------------------------------------------
(* What a step does to the call of its process                               *)

\* The next call of a process keeps what makes it a write, or is none.
Follows(c, d) == d.op \in Writes => (d.op = c.op /\ d.clean = c.clean)

\* The call with which a process starts or is idle.
LEMMA IdleCalls ==
    /\ NoCall \in Calls /\ NoCall.op = "none"
    /\ Starting \in Calls /\ Starting.op = "ensure"
  BY DEF NoCall, Starting, Calls

\* How a call returns.
LEMMA ReturnedShape ==
    ASSUME CallsTyped, NEW p \in Processes,
           NEW how \in {"ok", "missing", "denied", "error"}, Returned(p, how)
    PROVE  /\ result' = [result EXCEPT ![p] = how]
           /\ \E d \in Calls : /\ call' = [call EXCEPT ![p] = d]
                               /\ d.op \notin Writes
  <1> DEFINE d == [NoCall EXCEPT !.op = IF call[p].op = "ensure" /\ how # "ok"
                                        THEN "exited" ELSE "none"]
  <1>1. d \in Calls /\ d.op \notin Writes
    BY DEF NoCall, Calls, Writes
  <1>2. call' = [call EXCEPT ![p] = d] /\ result' = [result EXCEPT ![p] = how]
    BY DEF Returned
  <1> QED BY <1>1, <1>2

\* What an error of ensure_bucket, or of the last attempt of another call, leads
\* to: the next round of waiting for the bucket, or the return of the call.
LEMMA NextRoundShape ==
    ASSUME CallsTyped, NEW p \in Processes, NEW how \in {"denied", "error"}, NextRound(p, how)
    PROVE  /\ \E d \in Calls : call' = [call EXCEPT ![p] = d] /\ Follows(call[p], d)
           /\ \/ UNCHANGED <<result, failed>>
              \/ /\ result' = [result EXCEPT ![p] = how]
                 /\ failed' = IF how = "error" THEN [failed EXCEPT ![p] = call[p].tries + 1] ELSE failed
  <1>0. call[p] \in Calls /\ call \in [Processes -> Calls]
    BY DEF CallsTyped
  <1>1. CASE call[p].op = "ensure" /\ call[p].round < Rounds
    <2> DEFINE d == [Starting EXCEPT !.round = call[p].round + 1]
    <2>1. call' = [call EXCEPT ![p] = d] /\ UNCHANGED <<result, failed>>
      BY <1>1 DEF NextRound
    <2>2. call[p].round + 1 \in Nat
      BY <1>0 DEF Calls
    <2>3. d \in Calls /\ d.op = Starting.op
      BY <2>2, IdleCalls DEF Calls
    <2>4. Follows(call[p], d)
      BY <2>3, IdleCalls DEF Follows, Writes
    <2> HIDE DEF d
    <2> QED BY <2>1, <2>3, <2>4
  <1>2. CASE ~(call[p].op = "ensure" /\ call[p].round < Rounds)
    <2>1. /\ Returned(p, how)
          /\ failed' = IF how = "error" THEN [failed EXCEPT ![p] = call[p].tries + 1] ELSE failed
      BY <1>2 DEF NextRound
    <2> QED BY <2>1, ReturnedShape DEF Follows
  <1> QED BY <1>1, <1>2

\* What a failed attempt leads to: another attempt of the same call, the next
\* round of waiting for the bucket, or an error after MaxTries attempts.
LEMMA TryAgainShape ==
    ASSUME CallsTyped, NEW p \in Processes, TryAgain(p)
    PROVE  /\ \E d \in Calls : /\ call' = [call EXCEPT ![p] = d]
                               /\ Follows(call[p], d)
           /\ \/ UNCHANGED <<result, failed>>
              \/ /\ result' = [result EXCEPT ![p] = "error"]
                 /\ \E n \in Nat : n >= MaxTries /\ failed' = [failed EXCEPT ![p] = n]
  <1>0. call[p] \in Calls /\ call \in [Processes -> Calls]
    BY DEF CallsTyped
  <1>1. CASE ~LastTry(p)
    <2> DEFINE d == [call[p] EXCEPT !.tries = call[p].tries + 1, !.step = FirstStep(p)]
    <2>1. call' = [call EXCEPT ![p] = d] /\ UNCHANGED <<result, failed>>
      BY <1>0, <1>1 DEF TryAgain
    <2>2. call[p].tries + 1 \in Nat /\ FirstStep(p) \in {"exists", "send"}
      BY <1>0 DEF Calls, FirstStep
    <2>3. d \in Calls /\ d.op = call[p].op /\ d.clean = call[p].clean
      BY <1>0, <2>2 DEF Calls
    <2> HIDE DEF d
    <2> QED BY <2>1, <2>3 DEF Follows
  <1>2. CASE LastTry(p)
    <2>1. NextRound(p, "error")
      BY <1>2 DEF TryAgain
    <2>2. call[p].tries + 1 \in Nat /\ call[p].tries + 1 >= MaxTries
      BY <1>0, <1>2 DEF LastTry, Calls
    <2> QED BY <2>1, <2>2, NextRoundShape
  <1> QED BY <1>1, <1>2

\* Every step of a process changes its own call only, never into a write or
\* into a cleaner one, and an error it returns is earned.
LEMMA StepShape ==
    ASSUME CallsTyped, NEW p \in Processes, S3Step(p)
    PROVE  /\ \E d \in Calls : /\ call' = [call EXCEPT ![p] = d]
                               /\ Follows(call[p], d)
           /\ \/ UNCHANGED <<result, failed>>
              \/ /\ \E how \in {"ok", "missing", "denied"} : result' = [result EXCEPT ![p] = how]
                 /\ UNCHANGED failed
              \/ /\ result' = [result EXCEPT ![p] = "error"]
                 /\ \E n \in Nat : n >= MaxTries /\ failed' = [failed EXCEPT ![p] = n]
  <1>0. call[p] \in Calls /\ call \in [Processes -> Calls]
    BY DEF CallsTyped
  <1>1. ASSUME NEW how \in {"ok", "missing", "denied"}, Return(p, how)
        PROVE  /\ \E d \in Calls : call' = [call EXCEPT ![p] = d] /\ Follows(call[p], d)
               /\ result' = [result EXCEPT ![p] = how] /\ UNCHANGED failed
    BY <1>1, ReturnedShape DEF Return, Follows
  <1>2. ASSUME NEW step \in {"create", "confirm"}, GoesOn(p, step)
        PROVE  /\ \E d \in Calls : call' = [call EXCEPT ![p] = d] /\ Follows(call[p], d)
               /\ UNCHANGED <<result, failed>>
    <2> DEFINE d == [call[p] EXCEPT !.step = step]
    <2>1. call' = [call EXCEPT ![p] = d] /\ UNCHANGED <<result, failed>>
      BY <1>0, <1>2 DEF GoesOn
    <2>2. d \in Calls /\ d.op = call[p].op /\ d.clean = call[p].clean
      BY <1>0 DEF Calls
    <2> QED BY <2>1, <2>2 DEF Follows
  <1>3. CASE Answered(p)
    <2>1. Return(p, "ok") \/ Return(p, "missing")
      BY <1>3 DEF Answered, Acknowledge
    <2> QED BY <1>1, <2>1
  <1>4. CASE Terminal(p)
    BY <1>1, <1>4 DEF Terminal
  <1>5. CASE Transient(p) \/ TimedOut(p) \/ BucketTrouble(p)
    <2>1. TryAgain(p)
      BY <1>5 DEF Transient, TimedOut, BucketTrouble
    <2> QED BY <2>1, TryAgainShape
  <1>6. CASE LookForBucket(p)
    <2>1. Return(p, "ok") \/ GoesOn(p, "create")
      BY <1>6 DEF LookForBucket
    <2> QED BY <1>1, <1>2, <2>1
  <1>7. CASE Create(p)
    <2>1. Return(p, "ok") \/ GoesOn(p, "confirm")
      BY <1>7 DEF Create
    <2> QED BY <1>1, <1>2, <2>1
  <1>8. CASE BucketRefused(p)
    <2>1. NextRound(p, "denied")
      BY <1>8 DEF BucketRefused
    <2> QED BY <2>1, NextRoundShape
  <1> QED BY <1>3, <1>4, <1>5, <1>6, <1>7, <1>8 DEF S3Step

\* A new call: its process gets it, a write takes the mark off the others.
LEMMA BeginShape ==
    ASSUME CallsTyped, NEW p \in Processes, NEW op \in Writes \cup Reads, BeginCall(p, op)
    PROVE  /\ call' \in [Processes -> Calls]
           /\ call[p].op = "none" /\ call'[p].op = op
           /\ call'[p].clean => Writing = {}
           /\ \A q \in Processes \ {p} :
                /\ call'[q].op = call[q].op
                /\ call'[q].clean => (call[q].clean /\ op \notin Writes)
           /\ result' = [result EXCEPT ![p] = "none"] /\ UNCHANGED <<object, late, failed>>
           /\ acked' = IF op \in Writes THEN Unknown ELSE acked
  <1> DEFINE new == [NoCall EXCEPT !.op = op, !.step = "send", !.clean = Writing = {}]
             other(q) == IF op \in Writes THEN [call[q] EXCEPT !.clean = FALSE] ELSE call[q]
  <1>0. call \in [Processes -> Calls]
    BY DEF CallsTyped
  <1>1. call' = [q \in Processes |-> IF q = p THEN new ELSE other(q)]
    BY DEF BeginCall
  <1>2. new \in Calls /\ new.op = op /\ (new.clean <=> Writing = {})
    BY DEF NoCall, Calls
  <1>3. ASSUME NEW q \in Processes
        PROVE  /\ other(q) \in Calls /\ other(q).op = call[q].op
               /\ other(q).clean => (call[q].clean /\ op \notin Writes)
    BY <1>0 DEF Calls
  <1>4. call' \in [Processes -> Calls]
    <2> HIDE DEF new, other
    <2> QED BY <1>1, <1>2, <1>3
  <1>5. call'[p] = new /\ \A q \in Processes \ {p} : call'[q] = other(q)
    <2> HIDE DEF new, other
    <2> QED BY <1>1
  <1>6. /\ call'[p].op = op /\ (call'[p].clean => Writing = {})
        /\ \A q \in Processes \ {p} :
             /\ call'[q].op = call[q].op
             /\ call'[q].clean => (call[q].clean /\ op \notin Writes)
    <2> HIDE DEF new, other
    <2> QED BY <1>2, <1>3, <1>5
  <1>7. call[p].op = "none" /\ result' = [result EXCEPT ![p] = "none"]
        /\ UNCHANGED <<object, late, failed>> /\ acked' = IF op \in Writes THEN Unknown ELSE acked
    BY DEF BeginCall
  <1> QED BY <1>4, <1>6, <1>7

-----------------------------------------------------------------------------
(* The inductive invariant                                                   *)

\* The processes start by waiting for the bucket, with nothing written.
LEMMA S3InvInit == S3Init => S3Inv
  <1> SUFFICES ASSUME S3Init PROVE S3Inv
    OBVIOUS
  <1>1. /\ call = [p \in Processes |-> Starting] /\ Starting.op = "ensure" /\ Starting \in Calls
        /\ result = [p \in Processes |-> "none"] /\ failed = [p \in Processes |-> 0]
        /\ object = NoObject /\ late = {} /\ acked = NoObject
    BY IdleCalls DEF S3Init, S3InitOf
  <1>2. \A p \in Processes : call[p].op = "ensure"
    BY <1>1
  <1>3. CallsTyped /\ ErrorIsEarned
    BY <1>1 DEF CallsTyped, ErrorIsEarned
  <1>4. CleanIsAlone /\ Writing = {}
    BY <1>2 DEF CleanIsAlone, Writing, Writes
  <1>5. SettledIsQuiet
    BY <1>1, <1>4 DEF SettledIsQuiet
  <1> QED BY <1>3, <1>4, <1>5 DEF S3Inv

\* A new call keeps S3Inv.
LEMMA S3InvBegin ==
    ASSUME S3Inv, NEW p \in Processes, NEW op \in Writes \cup Reads, BeginCall(p, op)
    PROVE  S3Inv'
  <1>0. CallsTyped /\ ErrorIsEarned /\ CleanIsAlone /\ SettledIsQuiet
    BY DEF S3Inv
  <1>1. CallsTyped'
    BY <1>0, BeginShape DEF CallsTyped
  <1>2. ErrorIsEarned'
    BY <1>0, BeginShape DEF ErrorIsEarned, CallsTyped
  <1>3. CleanIsAlone'
    <2> SUFFICES ASSUME NEW q \in Processes, NEW r \in Processes,
                        call'[q].op \in Writes, call'[q].clean, call'[r].op \in Writes
                 PROVE  q = r
      BY DEF CleanIsAlone
    <2>1. CASE q = p
      BY <1>0, <2>1, BeginShape DEF Writing
    <2>2. CASE q # p
      BY <1>0, <2>2, BeginShape DEF CleanIsAlone
    <2> QED BY <2>1, <2>2
  <1>4. SettledIsQuiet'
    <2> SUFFICES ASSUME acked' # Unknown
                 PROVE  object' = acked' /\ late' = {} /\ Writing' = {}
      BY DEF SettledIsQuiet
    <2>1. op \notin Writes /\ acked' = acked /\ object' = object /\ late' = late
      BY <1>0, BeginShape
    <2>2. \A q \in Processes : call'[q].op \in Writes => call[q].op \in Writes
      BY <1>0, <2>1, BeginShape
    <2>3. Writing' = {}
      BY <1>0, <2>1, <2>2 DEF SettledIsQuiet, Writing
    <2> QED BY <1>0, <2>1, <2>3 DEF SettledIsQuiet
  <1> QED BY <1>1, <1>2, <1>3, <1>4 DEF S3Inv

\* The object: a step that is not a write's acknowledgement leaves acked, and the
\* object and what is late too unless its process is writing.
LEMMA ObjectShape ==
    ASSUME NEW p \in Processes, S3Step(p)
    PROVE  /\ \/ acked' = acked
              \/ /\ Settles(p) /\ acked' = ValueOf(p) /\ object' = ValueOf(p) /\ late' = late
                 /\ Return(p, "ok") \/ Return(p, "missing")
           /\ call[p].op \notin Writes => UNCHANGED <<object, late>>
  <1>1. CASE Answered(p)
    BY <1>1 DEF Answered, Acknowledge, Settles
  <1>2. CASE Transient(p)
    BY <1>2 DEF Transient, MayApply
  <1>3. CASE TimedOut(p)
    BY <1>3 DEF TimedOut
  <1>4. CASE Terminal(p) \/ LookForBucket(p) \/ Create(p) \/ BucketTrouble(p) \/ BucketRefused(p)
    BY <1>4 DEF Terminal, LookForBucket, Create, BucketTrouble, BucketRefused
  <1> QED BY <1>1, <1>2, <1>3, <1>4 DEF S3Step

\* A step of a call keeps S3Inv.
LEMMA S3InvStep ==
    ASSUME S3Inv, NEW p \in Processes, S3Step(p)
    PROVE  S3Inv'
  <1>0. CallsTyped /\ ErrorIsEarned /\ CleanIsAlone /\ SettledIsQuiet
    BY DEF S3Inv
  <1>1. PICK d \in Calls : call' = [call EXCEPT ![p] = d] /\ Follows(call[p], d)
    BY <1>0, StepShape
  <1>2. /\ call' \in [Processes -> Calls] /\ call'[p] = d
        /\ \A q \in Processes \ {p} : call'[q] = call[q]
    BY <1>0, <1>1 DEF CallsTyped
  <1>3. \A q \in Processes : call'[q].op \in Writes =>
            call[q].op \in Writes /\ call'[q].clean = call[q].clean
    BY <1>1, <1>2 DEF Follows
  <1>4. CallsTyped'
    BY <1>0, <1>2, StepShape DEF CallsTyped
  <1>5. ErrorIsEarned'
    BY <1>0, StepShape DEF ErrorIsEarned, CallsTyped
  <1>6. CleanIsAlone'
    BY <1>0, <1>3 DEF CleanIsAlone
  <1>7. SettledIsQuiet'
    <2>1. CASE acked' = acked
      <3> SUFFICES ASSUME acked # Unknown
                   PROVE  object' = acked' /\ late' = {} /\ Writing' = {}
        BY <2>1 DEF SettledIsQuiet
      <3>1. object = acked /\ late = {} /\ Writing = {}
        BY <1>0 DEF SettledIsQuiet
      <3>2. UNCHANGED <<object, late>>
        BY <3>1, ObjectShape DEF Writing
      <3>3. Writing' = {}
        BY <1>3, <3>1 DEF Writing
      <3> QED BY <2>1, <3>1, <3>2, <3>3
    <2>2. CASE acked' # acked
      <3>1. /\ Settles(p) /\ object' = acked' /\ late' = late
            /\ Return(p, "ok") \/ Return(p, "missing")
        BY <2>2, ObjectShape
      <3>2. call'[p].op \notin Writes
        <4>1. \E e \in Calls : call' = [call EXCEPT ![p] = e] /\ e.op \notin Writes
          BY <1>0, <3>1, ReturnedShape DEF Return
        <4> QED BY <1>0, <4>1 DEF CallsTyped
      <3>3. \A q \in Processes \ {p} : call'[q].op \notin Writes
        BY <1>0, <1>2, <3>1 DEF Settles, CleanIsAlone
      <3>4. Writing' = {}
        BY <3>2, <3>3 DEF Writing
      <3> QED BY <3>1, <3>4 DEF SettledIsQuiet, Settles
    <2> QED BY <2>1, <2>2
  <1> QED BY <1>4, <1>5, <1>6, <1>7 DEF S3Inv

\* Every step keeps S3Inv; a late attempt arrives only at an unsettled object.
LEMMA S3InvNext == S3Inv /\ [S3Next]_s3Vars => S3Inv'
  <1> SUFFICES ASSUME S3Inv, [S3Next]_s3Vars PROVE S3Inv'
    OBVIOUS
  <1>1. CASE UNCHANGED s3Vars
    BY <1>1 DEF s3Vars, S3Inv, CallsTyped, ErrorIsEarned, CleanIsAlone, SettledIsQuiet, Writing
  <1>2. CASE ArrivesLate
    <2>1. late # {} /\ UNCHANGED <<call, result, failed, acked>>
      BY <1>2 DEF ArrivesLate
    <2>2. acked' = Unknown
      BY <2>1 DEF S3Inv, SettledIsQuiet
    <2> QED BY <2>1, <2>2 DEF S3Inv, CallsTyped, ErrorIsEarned, CleanIsAlone, SettledIsQuiet
  <1>3. CASE S3Next /\ ~ArrivesLate
    BY <1>3, S3InvBegin, S3InvStep DEF S3Next
  <1> QED BY <1>1, <1>2, <1>3

\* The inductive invariant holds throughout.
THEOREM S3Invariant == S3Spec => []S3Inv
  BY S3InvInit, S3InvNext, PTL DEF S3Spec

\* A write that was acknowledged, and that no other write or leftover attempt
\* overlapped, is what the object holds until somebody writes again.
THEOREM AckedWritesHold == S3Spec => []AckedWriteHolds
  <1>1. S3Inv => AckedWriteHolds
    BY DEF S3Inv, SettledIsQuiet, AckedWriteHolds
  <1> QED BY <1>1, S3Invariant, PTL

\* No call fails with a transient error before its last attempt, nor because
\* another process created the bucket first.
THEOREM ErrorsAreEarned == S3Spec => []ErrorIsEarned
  <1>1. S3Inv => ErrorIsEarned
    BY DEF S3Inv
  <1> QED BY <1>1, S3Invariant, PTL
=============================================================================
