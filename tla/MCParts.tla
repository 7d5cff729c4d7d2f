------------------------------- MODULE MCParts -------------------------------
(***************************************************************************)
(* The parts that share no state with the rest, side by side in one         *)
(* instance: a behaviour is one of the render pool, one of the calls on an   *)
(* object of the store, or one question to a pure function.                  *)
(***************************************************************************)
EXTENDS RenderPool, S3Calls, References, Typesetting, Bundles, Summaries, Api

VARIABLE part

CONSTANTS c1, c2, p1, p2  \* callers and processes

vars == <<part, poolVars, s3Vars, inquiry>>

Questions == <<RefQuestions, TypesettingQuestions, BundleQuestions, SummaryQuestions, ApiQuestions>>

Init ==
    /\ part \in {"pool", "s3", "questions"}
    /\ PoolInit
    /\ S3InitOf(IF part = "s3" THEN Starting ELSE NoCall)
    /\ IF part = "questions" THEN \E i \in DOMAIN Questions : Asked(Questions[i])
       ELSE Asked({NoQuestion})

Pool == part = "pool" /\ PoolNext /\ UNCHANGED <<part, s3Vars, inquiry>>
Store == part = "s3" /\ S3Next /\ UNCHANGED <<part, poolVars, inquiry>>
Ask == /\ part = "questions"
       /\ RefNext \/ TypesettingNext \/ BundleNext \/ SummaryNext \/ ApiNext
       /\ UNCHANGED <<part, poolVars, s3Vars>>

Next == Pool \/ Store \/ Ask

Spec == Init /\ [][Next]_vars /\ PoolFairness /\ S3Fairness
=============================================================================
