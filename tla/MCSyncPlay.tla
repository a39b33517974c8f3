----------------------------- MODULE MCSyncPlay -----------------------------
(* SyncPlay on small instances: parts of its next-state relation, each with  *)
(* the bounds that let its own steps meet.                                   *)
EXTENDS SyncPlay, TLC

CONSTANTS a, b, s1  \* two items and the session that may see both

MCCanSee == [s \in Session |-> IF s = s1 THEN {a, b} ELSE {a}]

NoPayload   == {}
PlainOrRare == {<<a>>, <<a, b>>}
TicksZero   == {0}
TicksTwo    == {-1, 1}

\* Ids are interchangeable.
Ids == Permutations(GroupId) \cup Permutations(ConnId) \cup Permutations(GraceId)
         \cup Permutations(EntryId)

\* Sockets, timers, ends of sessions and memberships.
NextMembers == SocketStep \/ SessionEndStep \/ MembershipStep
SpecMembers == Init /\ [][NextMembers]_vars
FairMembers == SpecMembers /\ Fairness

\* Everybody has a connection, and nothing has been asked.
Connected ==
  \E up \in [Session -> ConnId] :
    /\ \A s, r \in Session : s # r => up[s] # up[r]
    /\ hub = up
    /\ tasks = [c \in ConnId |-> IF \E s \in Session : up[s] = c
                                THEN CHOOSE s \in Session : up[s] = c ELSE NoSession]
    /\ grace = [s \in Session |-> NoGrace]
    /\ timers = [d \in GraceId |-> NoSession]
    /\ entries = Session
    /\ ending = [s \in Session |-> "no"]
    /\ req = [s \in Session |-> NoReq]
    /\ unchecked = {}

\* Playback while members drop, come back, leave and rejoin, from the state after
\* s1 made a group and queued item a in it.
InitPlayback ==
  /\ Connected
  /\ \E id \in GroupId, ids \in FreshIds(<<>>, 1) :
       LET g == SetQueue(NewGroup(s1), Entries(<<a>>, ids), 0, 0)
       IN  /\ groups = [x \in {id} |-> g]
           /\ sessionGroup = [s \in Session |-> IF s = s1 THEN id ELSE NoGroup]
           /\ told = [s \in Session |-> IF s = s1 THEN Snapshot(id, g) ELSE Blank]
NextPlayback ==
  \/ SocketStep \/ ControlStep \/ ReportStep
  \/ \E s \in Session :
       (\E id \in GroupId : CheckJoin(s, id)) \/ JoinGroup(s) \/ LeaveGroup(s)

\* Library checks against changes of members and queue, and editing the queue, on
\* steady sockets.
InitQueue ==
  /\ Connected
  /\ groups = [id \in {} |-> {}]
  /\ sessionGroup = [s \in Session |-> NoGroup]
  /\ told = [s \in Session |-> Blank]
NextQueue == MembershipStep \/ QueueStep \/ EditStep
=============================================================================
