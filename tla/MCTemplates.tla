---------------------------- MODULE MCTemplates ----------------------------
(***************************************************************************)
(* The instances of TemplateStore that TLC checks.                          *)
(***************************************************************************)
EXTENDS TemplateStore, TLC
CONSTANTS s1, s2, a, b, d, m1, m2, f1, f2, f3, x

FileSets == m1 :> {f1, f2} @@ m2 :> {f3, f2}
Mains == m1 :> f1 @@ m2 :> f3

\* Neither the requests nor the processes have an identity of their own.
Alike == Permutations({a, b}) \cup Permutations({s1, s2})
AlikeThree == Permutations({a, b, d})
=============================================================================
