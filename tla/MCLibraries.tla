---------------------------- MODULE MCLibraries ----------------------------
(* Libraries on a small instance: a library on each of two servers, and two keys of *)
(* different types.                                                                 *)
EXTENDS Libraries, TLC

CONSTANTS A, B, movies, shows

MCHostOf == (1 :> A) @@ (2 :> B)
MCKindOf == (movies :> "movies") @@ (shows :> "tvshows")

\* Two groups are looked at while no listing is stored or under way.
Small == Cardinality(used) < 2 \/ refreshes \cup members = {}
SpecSmall == Init /\ [][Next /\ Small']_vars

\* Groups and viewers are interchangeable.
Symmetry == Permutations(Group) \cup Permutations(Viewer)
=============================================================================
