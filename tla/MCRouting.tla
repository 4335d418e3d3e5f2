----------------------------- MODULE MCRouting -----------------------------
(***************************************************************************)
(* Instances of Routing for TLC.                                           *)
(***************************************************************************)
EXTENDS Routing, TLC

\* Nodes, policies, providers and the admin requests are interchangeable.
Interchangeable == Permutations(Nodes) \cup Permutations(Policies)
                   \cup Permutations(Providers) \cup Permutations(Admins)
=============================================================================
