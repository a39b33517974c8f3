---------------------------- MODULE MCAuthMappings ----------------------------
(* Instances of AuthMappings for TLC. *)
EXTENDS AuthMappings, TLC

CONSTANTS l1, l2, k1, k2, n1, n2

\* Two upstream users, each with a login and a token; the second has no password.
Names == (l1 :> n1) @@ (l2 :> n2) @@ (k1 :> n1) @@ (k2 :> n2)

\* Ids are interchangeable, apart from those that Names tells apart.
Symmetry ==
  Permutations(Password) \cup Permutations(Server) \cup Permutations(Device) \cup Permutations(Task)
=============================================================================
