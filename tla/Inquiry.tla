------------------------------ MODULE Inquiry ------------------------------
(***************************************************************************)
(* The pure functions of papermake are checked by asking: an initial state  *)
(* holds a question, and the one step computes the answer as the code does. *)
(* The properties say what the answer should be, in other words.            *)
(***************************************************************************)
EXTENDS Integers, Sequences, FiniteSets

VARIABLES
    question,  \* what is asked, with its kind
    reply      \* what the code returns for it, once asked

inquiry == <<question, reply>>

NoQuestion == [kind |-> "none"]

Asked(questions) == question \in questions /\ reply = <<>>

Answer(kind, value) ==
    /\ question.kind = kind /\ reply = <<>>
    /\ reply' = <<value>>
    /\ UNCHANGED question

\* The question of this kind has been answered, and how.
Replied(kind) == question.kind = kind /\ reply # <<>>
answer == reply[1]

\* All sequences over S of at most n elements.
UpTo(S, n) == UNION {[1..k -> S] : k \in 0..n}

AtMost(n, m) == IF n < m THEN n ELSE m
AtLeast(n, m) == IF n > m THEN n ELSE m

\* The elements of a set, in order: in the n-th place the one that n are not above.
Ascending(S) ==
    [n \in 1..Cardinality(S) |-> CHOOSE i \in S : Cardinality({j \in S : j <= i}) = n]

\* The sum of the values of a function: as many as there are cells, if each x has
\* table[x] of them.
Cells(table) == UNION {{x} \X (1..table[x]) : x \in DOMAIN table}
Total(table) == Cardinality(Cells(table))
=============================================================================
