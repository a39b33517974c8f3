--------------------------- MODULE SyncPlayGroup ---------------------------
(***************************************************************************)
(* One SyncPlay playback group (handlers/syncplay/models.rs) and what each *)
(* playback request does to it (handlers/syncplay/routes.rs), as operators *)
(* on the group's record.  SyncPlay.tla puts groups, memberships, sockets  *)
(* and timers around it.                                                   *)
(*                                                                         *)
(* Data is abstracted to what the properties tell apart: a media item is a *)
(* member of Item, the Uuid of a queue entry a member of EntryId, a        *)
(* position in ticks a small number.  Playback time only shows in          *)
(* Estimated: while a group plays its position may have grown.  Pings, the *)
(* repeat and shuffle modes, names and timestamps are left out: no branch  *)
(* of these handlers reads them, except the test that drops an outdated    *)
(* client report, which is the same as the report not arriving.            *)
(*                                                                         *)
(* A definition introduced as a "fault" is not part of the model: it is    *)
(* its neighbour with a mistake in it, which a named property must notice  *)
(* when TLC is run with it in the neighbour's place.                       *)
(***************************************************************************)
EXTENDS Integers, Sequences, FiniteSets

CONSTANTS
  Session,  \* client sessions
  Item,     \* media items
  EntryId,  \* ids of queue entries (Uuid::new_v4 per entry)
  Ticks     \* positions a client sends, negative ones included

ASSUME TicksAssumption == Ticks \subseteq Int

\* SyncPlayQueueItem: entries are told apart by id, an item may be queued twice.
Entry == [item : Item, id : EntryId]

\* pending_position_ticks = None.
NoPos == -1

\* A client's position after position_ticks.max(0).
Clamp(t) == IF t < 0 THEN 0 ELSE t

\* The positions a group can have.
Position == {Clamp(t) : t \in Ticks} \cup {0}

GroupState == {"Idle", "Waiting", "Paused", "Playing"}

\* SyncPlayGroup.  The flags of a GroupParticipant are the sets of members that
\* have them; index is playing_item_index + 1, and 0 is None.
Group == [members   : SUBSET Session,
          connected : SUBSET Session,
          buffering : SUBSET Session,
          ignoring  : SUBSET Session,
          queue     : Seq(Entry),
          index     : Nat,
          state     : GroupState,
          pos       : Nat,
          pending   : Nat \cup {NoPos},
          playing   : BOOLEAN,
          resume    : BOOLEAN]

---------------------------------------------------------------------------
(* Reading a group *)

\* The media items of the queue, in order.
QueueItemIds(g) == [i \in 1..Len(g.queue) |-> g.queue[i].item]

\* playlist.iter().position(..) + 1, or 0 for None; no two entries share an id.
PositionOf(q, id) ==
  IF \E i \in 1..Len(q) : q[i].id = id
  THEN CHOOSE i \in 1..Len(q) : q[i].id = id
  ELSE 0

\* playing_item_index.and_then(|i| playlist.get(i)).
HasCurrent(g) == g.index \in 1..Len(g.queue)

CurrentId(g) == g.queue[g.index].id

\* Nobody who counts is still loading: a member without a socket and one that
\* asked not to be waited for do not hold the group up.
AllReady(g) == g.connected \cap g.buffering \subseteq g.ignoring

\* The position a group is at: time passes only while it plays.
Estimated(g) ==
  IF g.state = "Playing" /\ g.playing /\ g.pending = NoPos
  THEN {p \in Position : p >= g.pos}
  ELSE {IF g.pending = NoPos THEN g.pos ELSE g.pending}

---------------------------------------------------------------------------
(* The parts the handlers share *)

\* The wait ends here: everybody is ready.
Resolves(g) == g.state = "Waiting" /\ AllReady(g)

\* resolve_waiting: play or pause at the pending position.
Resolve(g) ==
  IF Resolves(g)
  THEN [g EXCEPT !.state   = IF g.resume THEN "Playing" ELSE "Paused",
                 !.playing = g.resume,
                 !.pos     = IF g.pending = NoPos THEN @ ELSE g.pending,
                 !.pending = NoPos]
  ELSE g

\* The group waits for every member, connected or not.
TransitionToWaiting(g, resume) ==
  [g EXCEPT !.state = "Waiting", !.resume = resume, !.buffering = g.members]

\* A member that (re)joins a queue holds the group at its estimated position p.
HoldFor(g, p) ==
  IF g.queue = <<>> THEN g
  ELSE [g EXCEPT !.pos = p, !.pending = p, !.state = "Waiting", !.resume = g.playing]

\* What an emptied queue and the Stop request leave behind.
Stopped(g) ==
  [g EXCEPT !.state = "Idle", !.playing = FALSE, !.resume = FALSE,
            !.pos = 0, !.pending = NoPos]

\* Start over at the beginning of the entry at index i.
StartEntry(g, i) ==
  TransitionToWaiting([g EXCEPT !.index = i, !.pos = 0, !.pending = 0], g.playing)

---------------------------------------------------------------------------
(* Membership changes, without the resolution that follows them *)

NewGroup(s) ==
  [members |-> {s}, connected |-> {s}, buffering |-> {}, ignoring |-> {},
   queue |-> <<>>, index |-> 0, state |-> "Idle", pos |-> 0, pending |-> NoPos,
   playing |-> FALSE, resume |-> FALSE]

AddMember(g, s, p) ==
  HoldFor([g EXCEPT !.members   = @ \cup {s},
                    !.connected = @ \cup {s},
                    !.ignoring  = @ \ {s},
                    !.buffering = IF g.queue = <<>> THEN @ \ {s} ELSE @ \cup {s}], p)

Reconnect(g, s, p) ==
  HoldFor([g EXCEPT !.connected = @ \cup {s},
                    !.buffering = IF g.queue = <<>> THEN @ \ {s} ELSE @ \cup {s}], p)

Disconnect(g, s) == [g EXCEPT !.connected = @ \ {s}]

RemoveMember(g, s) ==
  [g EXCEPT !.members   = @ \ {s}, !.connected = @ \ {s},
            !.buffering = @ \ {s}, !.ignoring  = @ \ {s}]

---------------------------------------------------------------------------
(* The playback requests; Ready and SetIgnoreWait resolve the wait afterwards *)

\* set_new_queue, starting at entry `at` (a 0-based wish) and position t.
SetQueue(g, entries, at, t) ==
  LET loaded == [g EXCEPT !.queue = entries,
                          !.index = IF at < Len(entries) THEN at + 1 ELSE Len(entries),
                          !.pos = Clamp(t), !.pending = Clamp(t), !.playing = TRUE]
  IN  IF entries = <<>> THEN Stopped(loaded) ELSE TransitionToWaiting(loaded, TRUE)

\* The entries that stay, in their order: the k-th is the kept one with k kept
\* entries up to it.
Retain(q, ids) ==
  LET keep    == {i \in 1..Len(q) : q[i].id \notin ids}
      rank(i) == Cardinality({j \in keep : j <= i})
  IN  [k \in 1..Cardinality(keep) |-> q[CHOOSE i \in keep : rank(i) = k]]

ClearQueue(g) == Stopped([g EXCEPT !.queue = <<>>, !.index = 0])

\* Fault, for QueueIndexInBounds: the index is not looked up again.
RemoveEntriesBelowIndex(g, ids, clearCurrent) ==
  LET rest == Retain(g.queue, ids)
      left == [g EXCEPT !.queue = rest, !.index = IF clearCurrent THEN 0 ELSE @]
  IN  IF rest = <<>> THEN Stopped(left) ELSE left

\* remove_from_playlist without ClearPlaylist: the group forgets what it plays
\* when that is removed, and stops only when nothing is left.
RemoveEntries(g, ids, clearCurrent) ==
  LET rest == Retain(g.queue, ids)
      left == [g EXCEPT !.queue = rest,
                        !.index = IF clearCurrent THEN 0
                                  ELSE IF HasCurrent(g) THEN PositionOf(rest, CurrentId(g))
                                  ELSE @]
  IN  IF rest = <<>> THEN Stopped(left) ELSE left

\* `entries` placed after the first n entries of q.
InsertAfter(q, n, entries) == SubSeq(q, 1, n) \o entries \o SubSeq(q, n + 1, Len(q))

\* move_playlist_item of the entry at i to the 0-based index `to`, capped.
MoveEntry(g, i, to) ==
  LET rest  == SubSeq(g.queue, 1, i - 1) \o SubSeq(g.queue, i + 1, Len(g.queue))
      moved == InsertAfter(rest, IF to < Len(rest) THEN to ELSE Len(rest), <<g.queue[i]>>)
  IN  [g EXCEPT !.queue = moved,
                !.index = IF HasCurrent(g) THEN PositionOf(moved, CurrentId(g)) ELSE @]

\* queue_items: at the end, or next after the current entry (at the front when
\* there is none).  Vec::insert panics past the end: see QueueIndexInBounds.
AddEntries(g, entries, next) ==
  LET longer == InsertAfter(g.queue, IF next THEN g.index ELSE Len(g.queue), entries)
  IN  [g EXCEPT !.queue = longer,
                !.index = IF g.index = 0 /\ longer # <<>> THEN 1 ELSE @]

SetUnpaused(g) ==
  [g EXCEPT !.state = "Playing", !.playing = TRUE, !.resume = TRUE, !.pending = NoPos]

SetPaused(g, p) ==
  [g EXCEPT !.pos = p, !.state = "Paused", !.playing = FALSE, !.resume = FALSE,
            !.pending = NoPos]

SeekTo(g, t) ==
  TransitionToWaiting([g EXCEPT !.pos = Clamp(t), !.pending = Clamp(t)], g.playing)

\* A member reports that it is loading, at client position t; p is the group's.
ReportBuffering(g, s, t, isPlaying, p) ==
  LET was == g.state = "Playing" /\ g.playing
      now == was \/ isPlaying
  IN  [g EXCEPT !.buffering = @ \cup {s},
                !.pos       = IF g.pending = NoPos /\ was THEN p ELSE @,
                !.pending   = IF @ # NoPos THEN @ ELSE IF was THEN p ELSE Clamp(t),
                !.playing   = now,
                !.resume    = IF g.state = "Waiting" THEN @ ELSE now,
                !.state     = "Waiting"]

\* Fault, for WaitKeepsPosition: the last report's position counts.
ReportReadyMoving(g, s, t) ==
  LET noted == [g EXCEPT !.buffering = @ \ {s}]
  IN  IF g.pending = NoPos /\ g.state # "Waiting" THEN noted
      ELSE [noted EXCEPT !.state = "Waiting", !.pending = Clamp(t)]

\* A member reports that it has loaded.  Outside of a wait that is only noted.
ReportReady(g, s, t) ==
  LET noted == [g EXCEPT !.buffering = @ \ {s}]
  IN  IF g.pending = NoPos /\ g.state # "Waiting" THEN noted
      ELSE [noted EXCEPT !.state = "Waiting",
                         !.pending = IF @ = NoPos THEN Clamp(t) ELSE @]

SetIgnoring(g, s, ignore) ==
  [g EXCEPT !.ignoring = IF ignore THEN @ \cup {s} ELSE @ \ {s}]

\* navigate_playlist: the entry after (step 1) or before (step -1) the one the
\* client names, the current one or the first, around the ends.
Navigate(g, id, step) ==
  LET named   == PositionOf(g.queue, id)
      current == IF named # 0 THEN named ELSE IF g.index # 0 THEN g.index ELSE 1
  IN  StartEntry(g, ((current - 1 + step) % Len(g.queue)) + 1)
=============================================================================
