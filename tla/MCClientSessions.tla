-------------------------- MODULE MCClientSessions --------------------------
(* ClientSessions on a small instance. *)
EXTENDS ClientSessions

CONSTANT u1

MCUserOf == [p \in Place |-> u1]
=============================================================================
