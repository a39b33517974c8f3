------------------------------ MODULE PublicIds ------------------------------
(***************************************************************************)
(* What clients are promised of the ids under which an item of several     *)
(* servers is shown (rebuild_media_groups of media_storage_service.rs,     *)
(* with media_group_ids): an id is given to one group, groups are merged,  *)
(* and an id then leads to the group that is left.  It is never taken back *)
(* and never comes apart from an id that led to the same group.            *)
(***************************************************************************)
EXTENDS Integers, Sequences

CONSTANT Scope  \* the catalogs; each gives its own ids

VARIABLE leads  \* leads[c][v]: the group that id v of catalog c leads to

Init == leads = [c \in Scope |-> <<>>]

\* Ids are given to new groups, and groups are merged: what leads to one group leads
\* to one group afterwards, which still has its own id.
Regroup(c, after) ==
  LET before == leads[c]
  IN  /\ DOMAIN before \subseteq DOMAIN after
      /\ \A v \in DOMAIN after : after[v] \in DOMAIN after /\ after[after[v]] = after[v]
      /\ \A v \in DOMAIN before : after[v] = after[before[v]]

\* Each catalog by itself.
Next == \A c \in Scope : leads'[c] = leads[c] \/ Regroup(c, leads'[c])

Spec == Init /\ [][Next]_leads
=============================================================================
