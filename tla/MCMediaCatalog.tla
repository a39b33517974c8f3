--------------------------- MODULE MCMediaCatalog ---------------------------
(* MediaCatalog on a small instance: server A has items 1 and 3, server B has item 2. *)
EXTENDS MediaCatalog, TLC

CONSTANTS A, B, x, y

MCHostOf == (1 :> A) @@ (2 :> B) @@ (3 :> A) @@ (A :> A) @@ (B :> B)

\* Item 2 has the alias of item 3, those of items 1 and 3, or none; item 3 may be gone.
MCAnswers ==
  (A :> {[m \in I |-> IF m = 1 THEN {x} ELSE {y}] : I \in {{1}, {1, 3}}}) @@
  (B :> {2 :> {y}, 2 :> {x, y}, 2 :> {}})

MCFiles == [m \in Mapping |-> IF m = 2 THEN {{}, {2}} ELSE {{m}}]
=============================================================================
