-------------------------- MODULE MCSyncPlayGroups --------------------------
(* Playback in one group, and the queue of one, as the two scenes of a run.  *)
EXTENDS MCSyncPlay

VARIABLE scene

\* Bound on the scene of the queue: nothing has been played when it changes.
NothingPlayed ==
  \A id \in DOMAIN groups : groups[id].pos = 0 /\ groups[id].pending \in {NoPos, 0}

InitGroups ==
  \/ scene = "playback" /\ InitPlayback
  \/ scene = "queue" /\ InitQueue

NextGroups ==
  \/ scene = "playback" /\ NextPlayback /\ UNCHANGED scene
  \/ scene = "queue" /\ NextQueue /\ NothingPlayed' /\ UNCHANGED scene

SpecGroups == InitGroups /\ [][NextGroups]_<<vars, scene>>
=============================================================================
