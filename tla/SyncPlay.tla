------------------------------ MODULE SyncPlay ------------------------------
(***************************************************************************)
(* The SyncPlay coordinator (handlers/syncplay/service.rs, routes.rs) with *)
(* the WebSocket hub it shares with the client sessions                    *)
(* (sessions/transport.rs, websocket.rs) and the two ways a client session *)
(* is ended (sessions/http.rs, sessions/mod.rs).                           *)
(*                                                                         *)
(* Every action is one critical section of the coordinator's lock.  What   *)
(* happens between two of them is interleaving: the library check of a     *)
(* join or queue request, which is awaited between a snapshot of the group *)
(* and the change; the 30 s a dropped session has to come back; the tasks  *)
(* of several sockets of one session; the two halves of ending a session.  *)
(*                                                                         *)
(* Uuids (groups, hub generations, grace ids, queue entries) are drawn     *)
(* from small sets, and one is drawn again only when nothing refers to it  *)
(* any more.  A queue entry's id may be drawn again once the entry is gone *)
(* though a client might still name it, which random Uuids rule out: the   *)
(* model allows more than the code there.                                  *)
(***************************************************************************)
EXTENDS SyncPlayGroup

CONSTANTS
  GroupId, ConnId, GraceId,
  NoGroup, NoConn, NoGrace, NoSession,
  CanSee,     \* CanSee[s]: the items the user of session s has library access to
  Payloads,   \* the item sequences a client may queue
  MaxQueue,   \* bound: length of a group's queue
  EmptyQueueControl  \* whether clients seek and report loading with nothing queued

ASSUME SessionAssumption == NoSession \notin Session
ASSUME GroupIdAssumption == NoGroup \notin GroupId
ASSUME ConnIdAssumption  == NoConn \notin ConnId
ASSUME GraceIdAssumption == NoGrace \notin GraceId
ASSUME CanSeeAssumption  == CanSee \in [Session -> SUBSET Item]
ASSUME PayloadsAssumption == Payloads \subseteq Seq(Item)
ASSUME MaxQueueAssumption == MaxQueue \in Nat
ASSUME EmptyQueueControlAssumption == EmptyQueueControl \in BOOLEAN

VARIABLES
  groups,        \* the live groups, by id
  sessionGroup,  \* session_to_group
  hub,           \* ConnectionHub: the current connection generation of a session
  tasks,         \* the WebSocket handler running under a generation, by its session
  grace,         \* disconnect_grace_ids
  timers,        \* the sleeping grace timers, by the session they watch
  entries,       \* client_sessions: the sessions that still exist
  ending,        \* the session ends that are half done
  req,           \* the join or queue request of a session that passed its library check
  told,          \* what was sent to a session on its current connection
  unchecked      \* (history) groups whose queue was changed without a library check

vars == <<groups, sessionGroup, hub, tasks, grace, timers, entries, ending,
          req, told, unchecked>>

\* What a client has been told, before any message.
Blank == [group |-> NoGroup, state |-> "Idle", queue |-> <<>>, index |-> 0]

NoReq == [op |-> "none"]

Init ==
  /\ groups = [id \in {} |-> {}]
  /\ sessionGroup = [s \in Session |-> NoGroup]
  /\ hub = [s \in Session |-> NoConn]
  /\ tasks = [c \in ConnId |-> NoSession]
  /\ grace = [s \in Session |-> NoGrace]
  /\ timers = [d \in GraceId |-> NoSession]
  /\ entries = Session
  /\ ending = [s \in Session |-> "no"]
  /\ req = [s \in Session |-> NoReq]
  /\ told = [s \in Session |-> Blank]
  /\ unchecked = {}

---------------------------------------------------------------------------
(* Messages: a send reaches the sessions with an entry in the hub.         *)

\* GroupJoined followed by the queue.
Snapshot(id, g) ==
  [group |-> id, state |-> g.state, queue |-> g.queue,
   index |-> IF HasCurrent(g) THEN g.index ELSE 0]

\* t after group g told its members its state, its queue, or both.
Broadcast(t, online, g, parts) ==
  [s \in Session |->
     IF s \notin g.members \cap online THEN t[s]
     ELSE [t[s] EXCEPT
             !.state = IF "state" \in parts THEN g.state ELSE @,
             !.queue = IF "queue" \in parts THEN g.queue ELSE @,
             !.index = IF "queue" \in parts THEN (IF HasCurrent(g) THEN g.index ELSE 0)
                       ELSE @]]

Online == {s \in Session : hub[s] # NoConn}

StateIf(b) == IF b THEN {"state"} ELSE {}

---------------------------------------------------------------------------
(* leave_locked, as what it makes of the coordinator's maps                *)

InGroup(s) == sessionGroup[s] # NoGroup

MyGroup(s) == groups[sessionGroup[s]]

\* The group s leaves behind, and what is resolved by its leaving.
LeftBehind(s) == RemoveMember(MyGroup(s), s)

\* Fault, for Membership: an emptied group stays.
GroupsWithoutEnd(s) ==
  IF ~InGroup(s) THEN groups
  ELSE [groups EXCEPT ![sessionGroup[s]] = Resolve(LeftBehind(s))]

\* Fault, for WaitsForSomebody: the wait of those who stay is not looked at.
GroupsWithoutResolve(s) ==
  IF ~InGroup(s) THEN groups
  ELSE IF LeftBehind(s).members = {}
       THEN [id \in DOMAIN groups \ {sessionGroup[s]} |-> groups[id]]
       ELSE [groups EXCEPT ![sessionGroup[s]] = LeftBehind(s)]

GroupsWithout(s) ==
  IF ~InGroup(s) THEN groups
  ELSE IF LeftBehind(s).members = {}
       THEN [id \in DOMAIN groups \ {sessionGroup[s]} |-> groups[id]]
       ELSE [groups EXCEPT ![sessionGroup[s]] = Resolve(LeftBehind(s))]

\* Fault, for MembersToldEverything: the others do not hear the wait's end.
ToldWithoutState(s, online) == IF InGroup(s) THEN [told EXCEPT ![s] = Blank] ELSE told

\* The leaver hears GroupLeft; the others a state change, if it resolves a wait.
ToldWithout(s, online) ==
  IF ~InGroup(s) THEN told
  ELSE [Broadcast(told, online, Resolve(LeftBehind(s)), StateIf(Resolves(LeftBehind(s))))
          EXCEPT ![s] = Blank]

Leave(s, online) ==
  /\ groups' = GroupsWithout(s)
  /\ sessionGroup' = [sessionGroup EXCEPT ![s] = NoGroup]
  /\ grace' = [grace EXCEPT ![s] = NoGrace]
  /\ told' = ToldWithout(s, online)
  /\ unchecked' = unchecked \cap DOMAIN groups'

---------------------------------------------------------------------------
(* Sockets and the reconnect grace                                         *)

\* register_websocket: a generation nobody refers to becomes current.
Register(s, c) ==
  /\ tasks[c] = NoSession
  /\ \A x \in Session : hub[x] # c
  /\ tasks' = [tasks EXCEPT ![c] = s]
  /\ hub' = [hub EXCEPT ![s] = c]
  /\ grace' = [grace EXCEPT ![s] = NoGrace]
  /\ IF InGroup(s)
     THEN \E p \in Estimated(MyGroup(s)) :
            LET g == Reconnect(MyGroup(s), s, p)
            IN  /\ groups' = [groups EXCEPT ![sessionGroup[s]] = g]
                /\ told' = [Broadcast(told, Online, g, StateIf(g.state = "Waiting"))
                              EXCEPT ![s] = Snapshot(sessionGroup[s], g)]
     ELSE /\ told' = [told EXCEPT ![s] = Blank]
          /\ UNCHANGED groups
  /\ UNCHANGED <<sessionGroup, timers, entries, ending, req, unchecked>>

\* Fault, for NewerSocketSurvives: any connection of s is unregistered.
IsCurrentAny(s, c) == hub[s] # NoConn

\* ConnectionHub::unregister: c is the connection that s has.
IsCurrent(s, c) == hub[s] = c

\* The handler of generation c ends (the client closed, fell silent, was
\* replaced or is no longer authorized) and calls unregister_websocket_with_grace.
SocketEnds(c) ==
  LET s == tasks[c]
  IN  /\ s # NoSession
      /\ tasks' = [tasks EXCEPT ![c] = NoSession]
      /\ IF ~IsCurrent(s, c)
         THEN UNCHANGED <<groups, hub, grace, timers, told>>
         ELSE /\ hub' = [hub EXCEPT ![s] = NoConn]
              /\ \E d \in GraceId :
                   /\ timers[d] = NoSession
                   /\ \A x \in Session : grace[x] # d
                   /\ grace' = [grace EXCEPT ![s] = d]
                   /\ timers' = [timers EXCEPT ![d] = s]
              /\ IF InGroup(s)
                 THEN LET g == Disconnect(MyGroup(s), s)
                      IN  /\ groups' = [groups EXCEPT ![sessionGroup[s]] = Resolve(g)]
                          /\ told' = [Broadcast(told, Online, Resolve(g),
                                                StateIf(Resolves(g)))
                                        EXCEPT ![s] = Blank]
                 ELSE /\ told' = [told EXCEPT ![s] = Blank]
                      /\ UNCHANGED groups
      /\ UNCHANGED <<sessionGroup, entries, ending, req, unchecked>>

\* Fault, for LatestTimerEvicts: any timer of a disconnected session evicts it.
StillGoneAny(s, d) == hub[s] = NoConn

\* Fault, for DroppedMemberLeaves: the test for a connection is inverted.
StillGoneInverted(s, d) == hub[s] # NoConn /\ grace[s] = d

\* Neither back nor dropped again since timer d was armed.
StillGone(s, d) == hub[s] = NoConn /\ grace[s] = d

\* leave_if_still_disconnected, 30 s after the disconnect that armed timer d.
TimerFires(d) ==
  LET s == timers[d]
  IN  /\ s # NoSession
      /\ timers' = [timers EXCEPT ![d] = NoSession]
      /\ IF StillGone(s, d)
         THEN Leave(s, Online)
         ELSE UNCHANGED <<groups, sessionGroup, grace, told, unchecked>>
      /\ UNCHANGED <<hub, tasks, entries, ending, req>>

---------------------------------------------------------------------------
(* Ending a client session                                                 *)

\* end_session: the hub entry goes first, so the leaver is not told.
EndSession(s) ==
  /\ hub' = [hub EXCEPT ![s] = NoConn]
  /\ Leave(s, Online \ {s})

\* client_sessions.remove: the session and its hub entry, the coordinator is not
\* asked.
RemoveEntry(s) ==
  /\ entries' = entries \ {s}
  /\ hub' = [hub EXCEPT ![s] = NoConn]

\* Sessions/Logout and an administrator's end_user_sessions: end, then remove.
Logout(s) ==
  /\ s \in entries /\ ending[s] = "no"
  /\ EndSession(s)
  /\ ending' = [ending EXCEPT ![s] = "logout"]
  /\ UNCHANGED <<tasks, timers, entries, req>>

FinishLogout(s) ==
  /\ ending[s] = "logout"
  /\ RemoveEntry(s)
  /\ ending' = [ending EXCEPT ![s] = "no"]
  /\ told' = [told EXCEPT ![s] = Blank]
  /\ UNCHANGED <<groups, sessionGroup, tasks, grace, timers, req, unchecked>>

\* valid_session of a token that is no longer valid: remove, then end.
Revoke(s) ==
  /\ s \in entries /\ ending[s] = "no"
  /\ RemoveEntry(s)
  /\ ending' = [ending EXCEPT ![s] = "revoke"]
  /\ told' = [told EXCEPT ![s] = Blank]
  /\ UNCHANGED <<groups, sessionGroup, tasks, grace, timers, req, unchecked>>

FinishRevoke(s) ==
  /\ ending[s] = "revoke"
  /\ EndSession(s)
  /\ ending' = [ending EXCEPT ![s] = "no"]
  /\ UNCHANGED <<tasks, timers, entries, req>>

---------------------------------------------------------------------------
(* Creating, joining and leaving groups                                    *)

\* The ids a request refers to are not drawn again.
FreshGroup(id) ==
  /\ id \notin DOMAIN groups
  /\ \A s \in Session : req[s].op = "join" => req[s].group # id

\* Fault, for MemberAttended: a session without a connection takes part.
MayParticipateAlways(s) == TRUE

\* make_participant: only a connected session becomes a member.
MayParticipate(s) == hub[s] # NoConn

CreateGroup(s, id) ==
  /\ MayParticipate(s)
  /\ FreshGroup(id)
  /\ groups' = [x \in DOMAIN GroupsWithout(s) \cup {id} |->
                  IF x = id THEN NewGroup(s) ELSE GroupsWithout(s)[x]]
  /\ sessionGroup' = [sessionGroup EXCEPT ![s] = id]
  /\ grace' = [grace EXCEPT ![s] = NoGrace]
  /\ told' = [ToldWithout(s, Online) EXCEPT ![s] = Snapshot(id, NewGroup(s))]
  /\ unchecked' = unchecked \cap DOMAIN GroupsWithout(s)
  /\ UNCHANGED <<hub, tasks, timers, entries, ending, req>>

\* The snapshot and the awaited library check of a join; a user without access
\* to everything queued is only told so.
CheckJoin(s, id) ==
  /\ req[s] = NoReq
  /\ id \in DOMAIN groups
  /\ \A i \in 1..Len(groups[id].queue) : groups[id].queue[i].item \in CanSee[s]
  /\ req' = [req EXCEPT ![s] = [op |-> "join", group |-> id,
                                expected |-> QueueItemIds(groups[id])]]
  /\ UNCHANGED <<groups, sessionGroup, hub, tasks, grace, timers, entries, ending,
                 told, unchecked>>

\* The position a joiner finds the group at.  A wait that ended a moment ago, when
\* s left this very group to join it again, has not moved on yet.
JoinPositions(s, id) ==
  IF sessionGroup[s] = id /\ Resolves(LeftBehind(s))
  THEN {GroupsWithout(s)[id].pos}
  ELSE Estimated(GroupsWithout(s)[id])

\* join_group once the check has passed.  The session has left its group before
\* the target turns out to be gone or to have another queue.
JoinGroup(s) ==
  LET id   == req[s].group
      rest == GroupsWithout(s)
  IN  /\ req[s].op = "join"
      /\ MayParticipate(s)
      /\ req' = [req EXCEPT ![s] = NoReq]
      /\ IF id \notin DOMAIN rest \/ QueueItemIds(rest[id]) # req[s].expected
         THEN Leave(s, Online)
         ELSE /\ \E p \in JoinPositions(s, id) :
                   LET g == AddMember(rest[id], s, p)
                   IN  /\ groups' = [rest EXCEPT ![id] = g]
                       /\ told' = [Broadcast(ToldWithout(s, Online), Online, g,
                                             StateIf(g.state = "Waiting"))
                                     EXCEPT ![s] = Snapshot(id, g)]
              /\ sessionGroup' = [sessionGroup EXCEPT ![s] = id]
              /\ grace' = [grace EXCEPT ![s] = NoGrace]
              /\ unchecked' = unchecked \cap DOMAIN rest
      /\ UNCHANGED <<hub, tasks, timers, entries, ending>>

\* A request that passed its check and is refused after all (no socket to join
\* from, no group, other members than expected), or whose client went away.
AbandonRequest(s) ==
  /\ req[s] # NoReq
  /\ req' = [req EXCEPT ![s] = NoReq]
  /\ UNCHANGED <<groups, sessionGroup, hub, tasks, grace, timers, entries, ending,
                 told, unchecked>>

\* leave_group, and all that comes of joining a group that does not exist.
LeaveGroup(s) ==
  /\ Leave(s, Online)
  /\ UNCHANGED <<hub, tasks, timers, entries, ending, req>>

---------------------------------------------------------------------------
(* Playback requests: with_group_for_session                               *)

\* The group of s becomes g and tells its members the given parts.
Update(s, g, parts) ==
  /\ groups' = [groups EXCEPT ![sessionGroup[s]] = g]
  /\ told' = Broadcast(told, Online, g, parts)
  /\ UNCHANGED <<sessionGroup, hub, tasks, grace, timers, entries, ending>>

\* A request without a library check.
Playback(s, g, parts) ==
  /\ InGroup(s)
  /\ Update(s, g, parts)
  /\ UNCHANGED <<req, unchecked>>

\* Distinct ids for n entries, none of them used in the queue q.
FreshIds(q, n) ==
  {f \in [1..n -> EntryId] :
     /\ \A i \in 1..n, j \in 1..Len(q) : f[i] # q[j].id
     /\ \A i, j \in 1..n : f[i] = f[j] => i = j}

Entries(items, ids) == [i \in 1..Len(items) |-> [item |-> items[i], id |-> ids[i]]]

\* The snapshot and the awaited library check of SetNewQueue ("set") and Queue
\* ("queue"): every member must see every item.  Without a group at this moment
\* nothing is checked and nothing is expected of the group later.
CheckQueue(s, op, items) ==
  /\ req[s] = NoReq
  /\ InGroup(s) => \A m \in MyGroup(s).members, i \in 1..Len(items) : items[i] \in CanSee[m]
  /\ req' = [req EXCEPT ![s] =
               [op |-> op, items |-> items, checked |-> InGroup(s),
                expected |-> IF InGroup(s) THEN MyGroup(s).members ELSE {}]]
  /\ UNCHANGED <<groups, sessionGroup, hub, tasks, grace, timers, entries, ending,
                 told, unchecked>>

\* Fault, for QueueWithinAccess: members who joined since are not checked.
StillExpectedAlways(s) == TRUE

\* The members the check was made for are still the members.
StillExpected(s) == req[s].checked => req[s].expected = MyGroup(s).members

SetNewQueue(s, at, t) ==
  /\ req[s].op = "set"
  /\ InGroup(s) /\ StillExpected(s)
  /\ \E ids \in FreshIds(MyGroup(s).queue, Len(req[s].items)) :
       Update(s, SetQueue(MyGroup(s), Entries(req[s].items, ids), at, t),
              {"queue", "state"})
  /\ req' = [req EXCEPT ![s] = NoReq]
  /\ unchecked' = IF req[s].checked THEN unchecked \ {sessionGroup[s]}
                  ELSE unchecked \cup {sessionGroup[s]}

QueueItems(s, next) ==
  /\ req[s].op = "queue"
  /\ InGroup(s) /\ StillExpected(s)
  /\ Len(MyGroup(s).queue) + Len(req[s].items) <= MaxQueue
  /\ \E ids \in FreshIds(MyGroup(s).queue, Len(req[s].items)) :
       Update(s, AddEntries(MyGroup(s), Entries(req[s].items, ids), next), {"queue"})
  /\ req' = [req EXCEPT ![s] = NoReq]
  /\ unchecked' = IF req[s].checked THEN unchecked ELSE unchecked \cup {sessionGroup[s]}

SetPlaylistItem(s, id) ==
  /\ PositionOf(MyGroup(s).queue, id) # 0
  /\ Playback(s, StartEntry(MyGroup(s), PositionOf(MyGroup(s).queue, id)),
              {"queue", "state"})

ClearPlaylist(s) == Playback(s, ClearQueue(MyGroup(s)), {"queue", "state"})

RemoveFromPlaylist(s, ids, clearCurrent) ==
  LET g == RemoveEntries(MyGroup(s), ids, clearCurrent)
  IN  Playback(s, g, {"queue"} \cup StateIf(g.queue = <<>>))

MovePlaylistItem(s, id, to) ==
  LET i == PositionOf(MyGroup(s).queue, id)
  IN  /\ i # 0
      /\ Playback(s, MoveEntry(MyGroup(s), i, to), {"queue"})

Unpause(s) == Playback(s, SetUnpaused(MyGroup(s)), {"state"})

Pause(s) ==
  \E p \in Estimated(MyGroup(s)) : Playback(s, SetPaused(MyGroup(s), p), {"state"})

Stop(s) == Playback(s, Stopped(MyGroup(s)), {"state"})

Seek(s, t) ==
  /\ EmptyQueueControl \/ MyGroup(s).queue # <<>>
  /\ Playback(s, SeekTo(MyGroup(s), t), {"state"})

\* try_send_playlist_correction: the report names another entry than the current
\* one (id), or none at all.
Outdated(g, id) == HasCurrent(g) /\ id # CurrentId(g)

CorrectPlaylist(s, id) ==
  /\ Outdated(MyGroup(s), id)
  /\ hub[s] # NoConn
  /\ told' = [told EXCEPT ![s].queue = MyGroup(s).queue, ![s].index = MyGroup(s).index]
  /\ UNCHANGED <<groups, sessionGroup, hub, tasks, grace, timers, entries, ending,
                 req, unchecked>>

Buffering(s, t, isPlaying) ==
  /\ EmptyQueueControl \/ MyGroup(s).queue # <<>>
  /\ \E p \in Estimated(MyGroup(s)) :
       Playback(s, ReportBuffering(MyGroup(s), s, t, isPlaying, p), {"state"})

\* Afterwards the wait is resolved if g makes everybody ready.
ResolvingPlayback(s, g) == Playback(s, Resolve(g), StateIf(Resolves(g)))

Ready(s, t) == ResolvingPlayback(s, ReportReady(MyGroup(s), s, t))

SetIgnoreWait(s, ignore) == ResolvingPlayback(s, SetIgnoring(MyGroup(s), s, ignore))

\* next_item (step 1) and previous_item (step -1).
ChangeItem(s, id, step) ==
  /\ MyGroup(s).queue # <<>>
  /\ Playback(s, Navigate(MyGroup(s), id, step), {"queue", "state"})

---------------------------------------------------------------------------
(* The specification                                                       *)

SocketStep ==
  \/ \E s \in Session, c \in ConnId : Register(s, c)
  \/ \E c \in ConnId : SocketEnds(c)
  \/ \E d \in GraceId : TimerFires(d)

SessionEndStep ==
  \E s \in Session : Logout(s) \/ FinishLogout(s) \/ Revoke(s) \/ FinishRevoke(s)

MembershipStep ==
  \E s \in Session :
    \/ \E id \in GroupId : CreateGroup(s, id) \/ CheckJoin(s, id)
    \/ JoinGroup(s)
    \/ AbandonRequest(s)
    \/ LeaveGroup(s)

QueueStep ==
  \E s \in Session :
    \/ \E op \in {"set", "queue"}, items \in Payloads : CheckQueue(s, op, items)
    \/ \E at \in 0..MaxQueue, t \in Ticks : SetNewQueue(s, at, t)
    \/ \E next \in BOOLEAN : QueueItems(s, next)

\* Every member commands the whole group.
EditStep ==
  \E s \in Session :
    /\ InGroup(s)
    /\ \/ ClearPlaylist(s)
       \/ \E ids \in SUBSET EntryId, b \in BOOLEAN : RemoveFromPlaylist(s, ids, b)
       \/ \E id \in EntryId :
            \/ SetPlaylistItem(s, id)
            \/ \E to \in 0..MaxQueue : MovePlaylistItem(s, id, to)
            \/ \E step \in {-1, 1} : ChangeItem(s, id, step)
            \/ CorrectPlaylist(s, id)

ControlStep ==
  \E s \in Session :
    /\ InGroup(s)
    /\ Unpause(s) \/ Pause(s) \/ Stop(s) \/ \E t \in Ticks : Seek(s, t)

ReportStep ==
  \E s \in Session :
    /\ InGroup(s)
    /\ \/ \E t \in Ticks : Ready(s, t) \/ \E b \in BOOLEAN : Buffering(s, t, b)
       \/ \E b \in BOOLEAN : SetIgnoreWait(s, b)

Next == \/ SocketStep \/ SessionEndStep \/ MembershipStep
        \/ QueueStep \/ EditStep \/ ControlStep \/ ReportStep

Spec == Init /\ [][Next]_vars

\* Sleeping timers wake and a session end that began is carried through; nothing
\* is assumed of clients, sockets or requests.
Fairness ==
  /\ \A d \in GraceId : WF_vars(TimerFires(d))
  /\ \A s \in Session : WF_vars(FinishLogout(s)) /\ WF_vars(FinishRevoke(s))

FairSpec == Spec /\ Fairness

---------------------------------------------------------------------------
(* Type invariant                                                          *)

Request == {NoReq}
  \cup [op : {"join"}, group : GroupId, expected : Seq(Item)]
  \cup [op : {"set", "queue"}, items : Payloads, checked : BOOLEAN,
        expected : SUBSET Session]

Told == [group : GroupId \cup {NoGroup}, state : GroupState, queue : Seq(Entry), index : Nat]

\* The types of the state.
TypeOK ==
  /\ groups \in [DOMAIN groups -> Group] /\ DOMAIN groups \subseteq GroupId
  /\ sessionGroup \in [Session -> GroupId \cup {NoGroup}]
  /\ hub \in [Session -> ConnId \cup {NoConn}]
  /\ tasks \in [ConnId -> Session \cup {NoSession}]
  /\ grace \in [Session -> GraceId \cup {NoGrace}]
  /\ timers \in [GraceId -> Session \cup {NoSession}]
  /\ entries \in SUBSET Session
  /\ ending \in [Session -> {"no", "logout", "revoke"}]
  /\ req \in [Session -> Request]
  /\ told \in [Session -> Told]
  /\ unchecked \in SUBSET GroupId

---------------------------------------------------------------------------
(* Safety                                                                  *)

\* session_to_group and the participants of the groups are one relation, kept in
\* two maps by every handler: a session is in the one group it maps to and in no
\* other, and a group nobody is in does not stay behind.
Membership ==
  /\ \A s \in Session : InGroup(s) => sessionGroup[s] \in DOMAIN groups
  /\ \A id \in DOMAIN groups :
       groups[id].members = {s \in Session : sessionGroup[s] = id} /\ groups[id].members # {}

\* A grace id stands for a disconnect that a sleeping timer will still act on:
\* the session has no connection, and its timer is there.
GraceWatched ==
  \A s \in Session :
    grace[s] # NoGrace => timers[grace[s]] = s /\ hub[s] = NoConn

\* Nobody stays in a group unattended: a member of a session that still exists
\* has a connection, or is in its reconnect grace.
MemberAttended ==
  \A s \in Session : InGroup(s) /\ s \in entries => hub[s] # NoConn \/ grace[s] # NoGrace

\* is_connected, on which waiting for a member and its pings depend, agrees with
\* the hub, which decides whether the member hears anything.
ConnectedAgreesWithHub ==
  \A s \in Session :
    InGroup(s) /\ s \in entries => (s \in MyGroup(s).connected <=> hub[s] # NoConn)

\* Whatever changes in a group, every member with a connection has been sent it:
\* its client knows the group, its state, its queue and what plays.  A client
\* outside of groups was told that it left.
MembersToldEverything ==
  \A s \in Session : hub[s] # NoConn =>
    told[s] = IF InGroup(s) THEN Snapshot(sessionGroup[s], MyGroup(s)) ELSE Blank

\* The current entry is an entry of the queue, so that QueueNext inserts within
\* the queue (Vec::insert panics beyond its end) and clients are sent an entry.
QueueIndexInBounds ==
  \A id \in DOMAIN groups : groups[id].index \in 0..Len(groups[id].queue)

\* A waiting group always has the position to go on from, and no other group has
\* one left over from an earlier wait; a group plays exactly when it says so,
\* outside of waits, in which is_playing is what clients reported.
WaitHasPosition ==
  \A id \in DOMAIN groups :
    LET g == groups[id]
    IN  /\ g.state = "Waiting" <=> g.pending # NoPos
        /\ g.state = "Playing" => g.playing
        /\ g.state \in {"Paused", "Idle"} => ~g.playing

\* A group waits for somebody: as long as it waits, a member is loading, whose
\* report, disconnect or departure will be looked at.  (With EmptyQueueControl a
\* wait can start in an empty queue, and a reconnect in such a group clears the
\* loading flag without a look at the wait.)
WaitsForSomebody ==
  \A id \in DOMAIN groups : groups[id].state = "Waiting" => groups[id].buffering # {}

\* Everybody in a group may see everything in its queue, whoever joined, left or
\* queued between a library check and the change it was made for.  The exception
\* is a group whose queue was changed by a request that found its session in no
\* group when it was to be checked.
QueueWithinAccess ==
  \A id \in DOMAIN groups \ unchecked :
    \A m \in groups[id].members, i \in 1..Len(groups[id].queue) :
      groups[id].queue[i].item \in CanSee[m]

\* (As a test puts it, sessions/tests.rs) after Sessions/Logout the session is no
\* group member: neither is it one, nor is anything left that would end it.
LoggedOutIsNoMember ==
  \A s \in Session :
    s \notin entries /\ ending[s] = "no" /\ hub[s] = NoConn /\ grace[s] = NoGrace
      => ~InGroup(s)

---------------------------------------------------------------------------
(* What a step may never do                                                *)

\* A session loses its connection only by the end of that very connection or of
\* the session: the late end of a socket it replaced does not cut it off.
NewerSocketSurvives ==
  [][\A s \in Session :
       hub[s] # NoConn /\ hub'[s] = NoConn
         => tasks'[hub[s]] = NoSession \/ ending'[s] # ending[s]]_vars

\* The timer of an earlier disconnect does not evict a member while the timer of
\* its latest disconnect is still asleep: it gets its whole grace.
LatestTimerEvicts ==
  [][\A d, e \in GraceId :
       /\ timers[d] # NoSession /\ timers'[d] = NoSession
       /\ e # d /\ timers[e] = timers[d] /\ grace[timers[d]] = e
       => sessionGroup' = sessionGroup]_vars

\* Where a group goes on from.
Target(g) == IF g.pending = NoPos THEN g.pos ELSE g.pending

\* The position a wait was started for (a seek, a new entry, the position the
\* group was interrupted at) is where it ends or still stands, whatever positions
\* the members report and whoever joins, leaves, drops or returns meanwhile.
WaitKeepsPosition ==
  [][(SocketStep \/ SessionEndStep \/ MembershipStep \/ ReportStep) =>
       \A id \in DOMAIN groups \cap DOMAIN groups' :
         groups[id].state = "Waiting" => Target(groups'[id]) = Target(groups[id])]_vars

---------------------------------------------------------------------------
(* Liveness                                                                *)

\* A member whose connection dropped does not stay: it comes back, leaves the
\* group or its session is ended (unregister arms a timer that is not lost).
DroppedMemberLeaves ==
  \A s \in Session :
    (InGroup(s) /\ hub[s] = NoConn /\ s \in entries)
      ~> (~InGroup(s) \/ hub[s] # NoConn \/ s \notin entries)
=============================================================================
