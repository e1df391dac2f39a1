---------------------------- MODULE MCScopeContext ----------------------------
(***************************************************************************)
(* Instances of ScopeContext for TLC.  Guards and scopes are given as      *)
(* model values, two of three of each for schema A, the middle one for B.   *)
(***************************************************************************)
EXTENDS ScopeContext, TLC

CONSTANTS A, B, g1, g2, g3, s1, s2, s3

MixedSchemas ==
  (g1 :> A) @@ (g2 :> B) @@ (g3 :> A) @@ (s1 :> A) @@ (s2 :> B) @@ (s3 :> A)

\* Threads are alike, and so are the two guards of schema A.
Alike == Permutations(Thread) \cup Permutations({g1, g3})

OneSchema == [e \in Event |-> A]
===============================================================================
