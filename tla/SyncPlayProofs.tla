--------------------------- MODULE SyncPlayProofs ---------------------------
(***************************************************************************)
(* What holds of the SyncPlay coordinator for every set of sessions,       *)
(* items, ids and positions.  The invariant IInv puts together what each   *)
(* action needs of the state it starts in:                                 *)
(*   - Consistent: the two maps of the memberships agree, and every group  *)
(*     is as the operators on groups keep it (GroupInv);                   *)
(*   - OtherTypes: the types of the rest of the state;                     *)
(*   - GraceWatched: a grace id has its timer, and its session no          *)
(*     connection.                                                         *)
(* What is then proved of single sessions and groups stands on IInv:       *)
(*   - AllServed: what the handlers owe a session (to be attended, marked  *)
(*     and told);                                                          *)
(*   - Presence: what becomes of groups when members and sockets come and  *)
(*     go; Changes, PlaysOn and Queues: what members make of their group;  *)
(*   - AllWait and AllSee: who is waited for, and who may see the queue.   *)
(***************************************************************************)
EXTENDS SyncPlay, TLAPS, FiniteSetTheorems, SequenceTheorems

---------------------------------------------------------------------------
(* What every operator on a group keeps *)

\* The type of a group, flags only on its members, an index within the queue.
GroupShape(g) ==
  /\ g \in Group
  /\ g.connected \subseteq g.members
  /\ g.buffering \subseteq g.members
  /\ g.ignoring \subseteq g.members
  /\ g.index \in 0..Len(g.queue)

\* A pending position exactly in a wait; playing exactly when the state says so.
WaitShape(g) ==
  /\ g.state = "Waiting" <=> g.pending # NoPos
  /\ g.state = "Playing" => g.playing
  /\ g.state \in {"Paused", "Idle"} => ~g.playing

\* What every operator on a group keeps.
GroupInv(g) == GroupShape(g) /\ WaitShape(g)

\* max(0) makes a position of whatever a client sends.
LEMMA ClampNat == \A t \in Int : Clamp(t) \in Nat
BY DEF Clamp

LEMMA EstimatedNat ==
  ASSUME NEW g, GroupInv(g), NEW p \in Estimated(g)
  PROVE  p \in Nat
<1>1. Position \subseteq Nat
  <2>1. \A t \in Ticks : Clamp(t) \in Nat
    BY TicksAssumption, ClampNat
  <2>2. QED
    BY <2>1 DEF Position
<1>2. QED
  BY <1>1 DEF Estimated, GroupInv, GroupShape, Group, NoPos

\* A position found in a queue is an index of it.
LEMMA PositionOfRange ==
  ASSUME NEW q \in Seq(Entry), NEW id
  PROVE  PositionOf(q, id) \in 0..Len(q)
BY DEF PositionOf

\* The entries kept of a queue are a queue of no other entries (T): every rank up to their number is the
\* rank of a kept entry, because ranks are injective on equally many numbers.
LEMMA RetainType ==
  ASSUME NEW T, NEW q \in Seq(T), NEW ids
  PROVE  Retain(q, ids) \in Seq(T)
<1> DEFINE keep == {i \in 1..Len(q) : q[i].id \notin ids}
           upto(i) == {j \in keep : j <= i}
           rank == [i \in keep |-> Cardinality(upto(i))]
           n == Cardinality(keep)
<1>1. IsFiniteSet(keep) /\ n \in Nat
  <2>1. IsFiniteSet(1..Len(q))
    BY FS_Interval
  <2>2. QED
    BY <2>1, FS_Subset, FS_CardinalityType
<1>2. \A i \in keep : IsFiniteSet(upto(i)) /\ Cardinality(upto(i)) \in 1..n
  <2> SUFFICES ASSUME NEW i \in keep
               PROVE  IsFiniteSet(upto(i)) /\ Cardinality(upto(i)) \in 1..n
    OBVIOUS
  <2>1. upto(i) \in SUBSET keep
    OBVIOUS
  <2>2. IsFiniteSet(upto(i)) /\ Cardinality(upto(i)) <= n
    BY <1>1, <2>1, FS_Subset
  <2>3. i \in upto(i)
    OBVIOUS
  <2>4. Cardinality(upto(i)) \in Nat /\ Cardinality(upto(i)) # 0
    BY <2>2, <2>3, FS_CardinalityType, FS_EmptySet
  <2>5. QED
    BY <1>1, <2>2, <2>4
<1>3. \A i, j \in keep : i < j => rank[i] < rank[j]
  <2> SUFFICES ASSUME NEW i \in keep, NEW j \in keep, i < j
               PROVE  rank[i] < rank[j]
    OBVIOUS
  <2>1. upto(i) \in SUBSET upto(j) /\ j \in upto(j) /\ j \notin upto(i)
    OBVIOUS
  <2>2. Cardinality(upto(i)) <= Cardinality(upto(j))
        /\ (Cardinality(upto(i)) = Cardinality(upto(j)) => upto(i) = upto(j))
    BY <1>2, <2>1, FS_Subset
  <2>3. Cardinality(upto(i)) # Cardinality(upto(j))
    BY <2>1, <2>2
  <2>4. rank[i] = Cardinality(upto(i)) /\ rank[j] = Cardinality(upto(j))
    OBVIOUS
  <2>5. rank[i] \in Int /\ rank[j] \in Int /\ rank[i] <= rank[j] /\ rank[i] # rank[j]
    <3> HIDE DEF upto
    <3>1. Cardinality(upto(i)) \in 1..n /\ Cardinality(upto(j)) \in 1..n
      BY <1>2
    <3> HIDE DEF rank, n
    <3>2. QED
      BY <1>1, <2>2, <2>3, <2>4, <3>1
  <2>6. QED
    <3> HIDE DEF rank
    <3>1. QED
      BY <2>5
<1>4. rank \in Injection(keep, 1..n)
  <2>1. rank \in [keep -> 1..n]
    BY <1>2
  <2>2. \A i, j \in keep : rank[i] = rank[j] => i = j
    <3> SUFFICES ASSUME NEW i \in keep, NEW j \in keep, i # j
                 PROVE  rank[i] # rank[j]
      OBVIOUS
    <3>1. i < j \/ j < i
      OBVIOUS
    <3>2. rank[i] \in 1..n /\ rank[j] \in 1..n
      BY <2>1
    <3> HIDE DEF rank, n
    <3>3. QED
      BY <1>1, <1>3, <3>1, <3>2
  <2>3. QED
    BY <2>1, <2>2 DEF Injection, IsInjective
<1>5. rank \in Surjection(keep, 1..n)
  <2>1. IsFiniteSet(1..n) /\ Cardinality(1..n) = n
    BY <1>1, FS_Interval
  <2>2. QED
    BY <1>4, <2>1, FS_Injection
<1>6. \A k \in 1..n : \E i \in keep : Cardinality(upto(i)) = k
  BY <1>5 DEF Surjection
<1>7. \A k \in 1..n : q[CHOOSE i \in keep : Cardinality(upto(i)) = k] \in T
  <2> TAKE k \in 1..n
  <2> DEFINE at == CHOOSE i \in keep : Cardinality(upto(i)) = k
  <2>1. at \in keep
    <3> HIDE DEF upto, keep
    <3>1. QED
      BY <1>6
  <2>2. at \in 1..Len(q)
    BY <2>1
  <2> HIDE DEF at
  <2>3. q[at] \in T
    BY <2>2
  <2>4. QED
    BY <2>3 DEF at
<1>8. [k \in 1..n |-> q[CHOOSE i \in keep : Cardinality(upto(i)) = k]] \in Seq(T)
  <2> DEFINE kept == [k \in 1..n |-> q[CHOOSE i \in keep : Cardinality(upto(i)) = k]]
  <2>1. kept \in [1..n -> T]
    BY <1>7
  <2> HIDE DEF kept, n
  <2>2. kept \in Seq(T)
    BY <1>1, <2>1
  <2>3. QED
    BY <2>2 DEF kept
<1>9. QED
  BY <1>8 DEF Retain

\* The end of a wait.
LEMMA ResolveInv ==
  ASSUME NEW g, GroupInv(g)
  PROVE  GroupInv(Resolve(g)) /\ Resolve(g).members = g.members
BY DEF Resolve, Resolves, GroupInv, GroupShape, WaitShape, Group, GroupState, NoPos

\* A wait begins with a position.
LEMMA TransitionInv ==
  ASSUME NEW g, GroupShape(g), g.pending # NoPos, NEW resume \in BOOLEAN
  PROVE  /\ GroupInv(TransitionToWaiting(g, resume))
         /\ TransitionToWaiting(g, resume).members = g.members
BY DEF TransitionToWaiting, GroupInv, GroupShape, WaitShape, Group, GroupState, NoPos

LEMMA StoppedInv ==
  ASSUME NEW g, GroupShape(g)
  PROVE  GroupInv(Stopped(g)) /\ Stopped(g).members = g.members
BY DEF Stopped, GroupInv, GroupShape, WaitShape, Group, GroupState, NoPos

LEMMA HoldForInv ==
  ASSUME NEW g, GroupInv(g), NEW p \in Nat
  PROVE  GroupInv(HoldFor(g, p)) /\ HoldFor(g, p).members = g.members
<1> DEFINE h == [g EXCEPT !.pos = p, !.pending = p, !.state = "Waiting", !.resume = g.playing]
<1>1. p # NoPos
  BY DEF NoPos
<1>2. GroupInv(h) /\ h.members = g.members
  BY <1>1 DEF GroupInv, GroupShape, WaitShape, Group, GroupState
<1> HIDE DEF h
<1>3. HoldFor(g, p) = IF g.queue = <<>> THEN g ELSE h
  BY DEF HoldFor, h
<1>4. QED
  BY <1>2, <1>3

LEMMA NewGroupInv ==
  ASSUME NEW s \in Session
  PROVE  GroupInv(NewGroup(s)) /\ NewGroup(s).members = {s}
BY DEF NewGroup, GroupInv, GroupShape, WaitShape, Group, GroupState, NoPos

LEMMA AddMemberInv ==
  ASSUME NEW g, GroupInv(g), NEW s \in Session, NEW p \in Nat
  PROVE  GroupInv(AddMember(g, s, p)) /\ AddMember(g, s, p).members = g.members \cup {s}
<1> DEFINE h == [g EXCEPT !.members   = @ \cup {s},
                          !.connected = @ \cup {s},
                          !.ignoring  = @ \ {s},
                          !.buffering = IF g.queue = <<>> THEN @ \ {s} ELSE @ \cup {s}]
<1>1. GroupInv(h) /\ h.members = g.members \cup {s}
  BY DEF GroupInv, GroupShape, WaitShape, Group, GroupState, NoPos
<1> HIDE DEF h
<1>2. GroupInv(HoldFor(h, p)) /\ HoldFor(h, p).members = h.members
  BY <1>1, HoldForInv
<1>3. AddMember(g, s, p) = HoldFor(h, p)
  BY DEF AddMember, h
<1>4. QED
  BY <1>1, <1>2, <1>3

LEMMA ReconnectInv ==
  ASSUME NEW g, GroupInv(g), NEW s \in g.members, NEW p \in Nat
  PROVE  GroupInv(Reconnect(g, s, p)) /\ Reconnect(g, s, p).members = g.members
<1> DEFINE h == [g EXCEPT !.connected = @ \cup {s},
                          !.buffering = IF g.queue = <<>> THEN @ \ {s} ELSE @ \cup {s}]
<1>1. GroupInv(h) /\ h.members = g.members
  BY DEF GroupInv, GroupShape, WaitShape, Group, GroupState, NoPos
<1> HIDE DEF h
<1>2. GroupInv(HoldFor(h, p)) /\ HoldFor(h, p).members = h.members
  BY <1>1, HoldForInv
<1>3. Reconnect(g, s, p) = HoldFor(h, p)
  BY DEF Reconnect, h
<1>4. QED
  BY <1>1, <1>2, <1>3

LEMMA DisconnectInv ==
  ASSUME NEW g, GroupInv(g), NEW s
  PROVE  GroupInv(Disconnect(g, s)) /\ Disconnect(g, s).members = g.members
BY DEF Disconnect, GroupInv, GroupShape, WaitShape, Group, GroupState, NoPos

LEMMA RemoveMemberInv ==
  ASSUME NEW g, GroupInv(g), NEW s
  PROVE  GroupInv(RemoveMember(g, s)) /\ RemoveMember(g, s).members = g.members \ {s}
BY DEF RemoveMember, GroupInv, GroupShape, WaitShape, Group, GroupState, NoPos

LEMMA SetUnpausedInv ==
  ASSUME NEW g, GroupInv(g)
  PROVE  GroupInv(SetUnpaused(g)) /\ SetUnpaused(g).members = g.members
BY DEF SetUnpaused, GroupInv, GroupShape, WaitShape, Group, GroupState, NoPos

LEMMA SetPausedInv ==
  ASSUME NEW g, GroupInv(g), NEW p \in Nat
  PROVE  GroupInv(SetPaused(g, p)) /\ SetPaused(g, p).members = g.members
BY DEF SetPaused, GroupInv, GroupShape, WaitShape, Group, GroupState, NoPos

LEMMA SetIgnoringInv ==
  ASSUME NEW g, GroupInv(g), NEW s \in g.members, NEW ignore \in BOOLEAN
  PROVE  GroupInv(SetIgnoring(g, s, ignore)) /\ SetIgnoring(g, s, ignore).members = g.members
BY DEF SetIgnoring, GroupInv, GroupShape, WaitShape, Group, GroupState, NoPos

LEMMA ReportBufferingInv ==
  ASSUME NEW g, GroupInv(g), NEW s \in g.members, NEW t \in Int,
         NEW isPlaying \in BOOLEAN, NEW p \in Nat
  PROVE  /\ GroupInv(ReportBuffering(g, s, t, isPlaying, p))
         /\ ReportBuffering(g, s, t, isPlaying, p).members = g.members
<1> DEFINE was == g.state = "Playing" /\ g.playing
           now == was \/ isPlaying
           pos == IF g.pending = NoPos /\ was THEN p ELSE g.pos
           pending == IF g.pending # NoPos THEN g.pending ELSE IF was THEN p ELSE Clamp(t)
           resume == IF g.state = "Waiting" THEN g.resume ELSE now
<1>1. g.pos \in Nat /\ g.pending \in Nat \cup {NoPos} /\ g.resume \in BOOLEAN
      /\ g.playing \in BOOLEAN
  BY DEF GroupInv, GroupShape, Group
<1>2. pos \in Nat /\ pending \in Nat
  BY <1>1, ClampNat
<1>3. resume \in BOOLEAN /\ now \in BOOLEAN
  BY <1>1
<1> DEFINE h == [g EXCEPT !.buffering = g.buffering \cup {s}, !.pos = pos, !.pending = pending,
                          !.playing = now, !.resume = resume, !.state = "Waiting"]
<1>4. ReportBuffering(g, s, t, isPlaying, p) = h
  BY DEF ReportBuffering
<1> HIDE DEF pos, pending, resume, was, now
<1>5. g \in Group
  BY DEF GroupInv, GroupShape
<1>6. h \in Group
  <2>1. g.buffering \cup {s} \in SUBSET Session
    BY <1>5 DEF Group
  <2>2. "Waiting" \in GroupState
    BY DEF GroupState
  <2>3. QED
    BY <1>2, <1>3, <1>5, <2>1, <2>2 DEF Group
<1>7. /\ h.members = g.members /\ h.connected = g.connected /\ h.ignoring = g.ignoring
      /\ h.buffering = g.buffering \cup {s} /\ h.index = g.index /\ h.queue = g.queue
      /\ h.state = "Waiting" /\ h.pending = pending
  BY <1>5 DEF Group
<1> HIDE DEF h
<1>8. QED
  BY <1>2, <1>4, <1>6, <1>7 DEF GroupInv, GroupShape, WaitShape, NoPos

LEMMA ReportReadyInv ==
  ASSUME NEW g, GroupInv(g), NEW s \in g.members, NEW t \in Int
  PROVE  GroupInv(ReportReady(g, s, t)) /\ ReportReady(g, s, t).members = g.members
BY ClampNat DEF ReportReady, GroupInv, GroupShape, WaitShape, Group, GroupState, NoPos

\* A wait is about to start at entry i of queue q and position p.
Loaded(g, q, i, p, playing) ==
  [g EXCEPT !.queue = q, !.index = i, !.pos = p, !.pending = p, !.playing = playing]

LEMMA LoadShape ==
  ASSUME NEW g, GroupShape(g), NEW q \in Seq(Entry), NEW i \in 0..Len(q),
         NEW p \in Nat, NEW playing \in BOOLEAN
  PROVE  /\ GroupShape(Loaded(g, q, i, p, playing))
         /\ Loaded(g, q, i, p, playing).pending # NoPos
         /\ Loaded(g, q, i, p, playing).members = g.members
<1> DEFINE h == [g EXCEPT !.queue = q, !.index = i, !.pos = p, !.pending = p,
                          !.playing = playing]
<1>1. g \in Group /\ i \in Nat
  BY DEF GroupShape
<1>2. h \in Group
  BY <1>1 DEF Group
<1>3. /\ h.members = g.members /\ h.connected = g.connected /\ h.ignoring = g.ignoring
      /\ h.buffering = g.buffering /\ h.pending = p /\ h.queue = q /\ h.index = i
  BY <1>1 DEF Group
<1> HIDE DEF h
<1>4. GroupShape(h) /\ h.pending # NoPos /\ h.members = g.members
  BY <1>2, <1>3 DEF GroupShape, NoPos
<1>5. QED
  BY <1>4 DEF h, Loaded

\* To start an entry is a wait at position 0 of it.
LEMMA StartEntryInv ==
  ASSUME NEW g, GroupInv(g), NEW i \in 1..Len(g.queue)
  PROVE  GroupInv(StartEntry(g, i)) /\ StartEntry(g, i).members = g.members
<1> DEFINE h == [g EXCEPT !.index = i, !.pos = 0, !.pending = 0]
           k == Loaded(g, g.queue, i, 0, g.playing)
<1>1. GroupShape(g) /\ g \in Group
  BY DEF GroupInv, GroupShape
<1>2. g.queue \in Seq(Entry) /\ g.playing \in BOOLEAN /\ h = k
  BY <1>1 DEF Group, Loaded
<1>3. i \in 0..Len(g.queue)
  BY <1>2
<1>4. GroupShape(k) /\ k.pending # NoPos /\ k.members = g.members
  BY <1>1, <1>2, <1>3, LoadShape
<1> HIDE DEF h, k
<1>5. GroupInv(TransitionToWaiting(h, g.playing))
      /\ TransitionToWaiting(h, g.playing).members = h.members
  BY <1>2, <1>4, TransitionInv
<1>6. QED
  BY <1>2, <1>4, <1>5 DEF StartEntry, h

LEMMA SeekToInv ==
  ASSUME NEW g, GroupInv(g), NEW t \in Int
  PROVE  GroupInv(SeekTo(g, t)) /\ SeekTo(g, t).members = g.members
<1> DEFINE h == [g EXCEPT !.pos = Clamp(t), !.pending = Clamp(t)]
           k == Loaded(g, g.queue, g.index, Clamp(t), g.playing)
<1>1. GroupShape(g) /\ g \in Group /\ g.index \in 0..Len(g.queue)
  BY DEF GroupInv, GroupShape
<1>2. g.queue \in Seq(Entry) /\ g.playing \in BOOLEAN /\ h = k
  BY <1>1 DEF Group, Loaded
<1>3. Clamp(t) \in Nat
  BY ClampNat
<1>4. GroupShape(k) /\ k.pending # NoPos /\ k.members = g.members
  BY <1>1, <1>2, <1>3, LoadShape
<1> HIDE DEF h, k
<1>5. GroupInv(TransitionToWaiting(h, g.playing))
      /\ TransitionToWaiting(h, g.playing).members = h.members
  BY <1>2, <1>4, TransitionInv
<1>6. QED
  BY <1>2, <1>4, <1>5 DEF SeekTo, h

LEMMA SetQueueInv ==
  ASSUME NEW g, GroupInv(g), NEW q \in Seq(Entry), NEW at \in Nat, NEW t \in Int
  PROVE  GroupInv(SetQueue(g, q, at, t)) /\ SetQueue(g, q, at, t).members = g.members
<1> DEFINE i == IF at < Len(q) THEN at + 1 ELSE Len(q)
           h == Loaded(g, q, i, Clamp(t), TRUE)
<1>1. Clamp(t) \in Nat
  BY ClampNat
<1>2. i \in 0..Len(q)
  <2>1. Len(q) \in Nat
    OBVIOUS
  <2>2. QED
    BY <2>1
<1>3. SetQueue(g, q, at, t) = IF q = <<>> THEN Stopped(h) ELSE TransitionToWaiting(h, TRUE)
  BY DEF SetQueue, Loaded
<1> HIDE DEF i
<1>4. GroupShape(h) /\ h.pending # NoPos /\ h.members = g.members
  BY <1>1, <1>2, LoadShape DEF GroupInv
<1> HIDE DEF h
<1>5. /\ GroupInv(Stopped(h)) /\ Stopped(h).members = h.members
      /\ GroupInv(TransitionToWaiting(h, TRUE))
      /\ TransitionToWaiting(h, TRUE).members = h.members
  BY <1>4, StoppedInv, TransitionInv
<1>6. QED
  BY <1>3, <1>4, <1>5

\* Another queue with an index in it, nothing else changed.
LEMMA RequeueInv ==
  ASSUME NEW g, GroupInv(g), NEW q \in Seq(Entry), NEW i \in 0..Len(q)
  PROVE  /\ GroupInv([g EXCEPT !.queue = q, !.index = i])
         /\ [g EXCEPT !.queue = q, !.index = i].members = g.members
<1> DEFINE h == [g EXCEPT !.queue = q, !.index = i]
<1>1. g \in Group /\ i \in Nat
  BY DEF GroupInv, GroupShape
<1>2. h \in Group
  BY <1>1 DEF Group
<1>3. /\ h.members = g.members /\ h.connected = g.connected /\ h.ignoring = g.ignoring
      /\ h.buffering = g.buffering /\ h.state = g.state /\ h.pending = g.pending
      /\ h.playing = g.playing /\ h.queue = q /\ h.index = i
  BY <1>1 DEF Group
<1> HIDE DEF h
<1>4. GroupInv(h) /\ h.members = g.members
  BY <1>2, <1>3 DEF GroupInv, GroupShape, WaitShape
<1>5. QED
  BY <1>4 DEF h

LEMMA ClearQueueInv ==
  ASSUME NEW g, GroupInv(g)
  PROVE  GroupInv(ClearQueue(g)) /\ ClearQueue(g).members = g.members
<1> DEFINE h == [g EXCEPT !.queue = <<>>, !.index = 0]
<1>1. <<>> \in Seq(Entry) /\ 0 \in 0..Len(<<>>)
  OBVIOUS
<1>2. GroupInv(h) /\ h.members = g.members
  BY <1>1, RequeueInv
<1> HIDE DEF h
<1>3. GroupShape(h)
  BY <1>2 DEF GroupInv
<1>4. QED
  BY <1>2, <1>3, StoppedInv DEF ClearQueue, h

\* Without a current entry there is no index: it is never beyond the queue.
LEMMA NoCurrent ==
  ASSUME NEW g, GroupInv(g), ~HasCurrent(g)
  PROVE  g.index = 0
BY DEF HasCurrent, GroupInv, GroupShape, Group

LEMMA RemoveEntriesInv ==
  ASSUME NEW g, GroupInv(g), NEW ids, NEW clearCurrent \in BOOLEAN
  PROVE  /\ GroupInv(RemoveEntries(g, ids, clearCurrent))
         /\ RemoveEntries(g, ids, clearCurrent).members = g.members
<1> DEFINE rest == Retain(g.queue, ids)
           i == IF clearCurrent THEN 0
                ELSE IF HasCurrent(g) THEN PositionOf(rest, CurrentId(g)) ELSE g.index
           h == [g EXCEPT !.queue = rest, !.index = i]
<1>1. RemoveEntries(g, ids, clearCurrent) = IF rest = <<>> THEN Stopped(h) ELSE h
  BY DEF RemoveEntries
<1>2. rest \in Seq(Entry)
  BY RetainType DEF GroupInv, GroupShape, Group
<1> HIDE DEF rest
<1>3. i \in 0..Len(rest)
  BY <1>2, PositionOfRange, NoCurrent
<1> HIDE DEF i
<1>4. GroupInv(h) /\ h.members = g.members
  BY <1>2, <1>3, RequeueInv
<1> HIDE DEF h
<1>5. QED
  BY <1>1, <1>4, StoppedInv DEF GroupInv

LEMMA InsertAfterType ==
  ASSUME NEW T, NEW q \in Seq(T), NEW n \in 0..Len(q), NEW more \in Seq(T)
  PROVE  /\ InsertAfter(q, n, more) \in Seq(T)
         /\ Len(InsertAfter(q, n, more)) = Len(q) + Len(more)
<1>1. SubSeq(q, 1, n) \in Seq(T) /\ Len(SubSeq(q, 1, n)) = n
  BY SubSeqProperties
<1>2. SubSeq(q, n + 1, Len(q)) \in Seq(T) /\ Len(SubSeq(q, n + 1, Len(q))) = Len(q) - n
  BY SubSeqProperties
<1> DEFINE front == SubSeq(q, 1, n)
           upto == front \o more
           back == SubSeq(q, n + 1, Len(q))
<1>3. InsertAfter(q, n, more) = upto \o back
  BY DEF InsertAfter
<1>4. Len(q) \in Nat /\ Len(more) \in Nat
  OBVIOUS
<1> HIDE DEF front, back
<1>5. upto \in Seq(T) /\ Len(upto) = n + Len(more)
  BY <1>1, ConcatProperties DEF front
<1> HIDE DEF upto
<1>6. upto \o back \in Seq(T) /\ Len(upto \o back) = Len(upto) + Len(back)
  BY <1>2, <1>5, ConcatProperties DEF back
<1>7. Len(back) = Len(q) - n
  BY <1>2 DEF back
<1>8. QED
  BY <1>3, <1>4, <1>5, <1>6, <1>7

LEMMA MoveEntryInv ==
  ASSUME NEW g, GroupInv(g), NEW i \in 1..Len(g.queue), NEW to \in Nat
  PROVE  GroupInv(MoveEntry(g, i, to)) /\ MoveEntry(g, i, to).members = g.members
<1> DEFINE rest == SubSeq(g.queue, 1, i - 1) \o SubSeq(g.queue, i + 1, Len(g.queue))
           n == IF to < Len(rest) THEN to ELSE Len(rest)
           moved == InsertAfter(rest, n, <<g.queue[i]>>)
           j == IF HasCurrent(g) THEN PositionOf(moved, CurrentId(g)) ELSE g.index
<1>1. MoveEntry(g, i, to) = [g EXCEPT !.queue = moved, !.index = j]
  BY DEF MoveEntry
<1>2. g.queue \in Seq(Entry)
  BY DEF GroupInv, GroupShape, Group
<1>3. rest \in Seq(Entry)
  <2>1. SubSeq(g.queue, 1, i - 1) \in Seq(Entry)
    BY <1>2, SubSeqProperties
  <2>2. SubSeq(g.queue, i + 1, Len(g.queue)) \in Seq(Entry)
    BY <1>2, SubSeqProperties
  <2>3. QED
    BY <2>1, <2>2, ConcatProperties
<1> HIDE DEF rest
<1>4. moved \in Seq(Entry)
  <2>1. n \in 0..Len(rest)
    BY <1>3
  <2>2. <<g.queue[i]>> \in Seq(Entry)
    BY <1>2
  <2> HIDE DEF n
  <2>3. QED
    BY <1>3, <2>1, <2>2, InsertAfterType
<1> HIDE DEF moved
<1>5. j \in 0..Len(moved)
  BY <1>4, PositionOfRange, NoCurrent
<1> HIDE DEF j
<1>6. GroupInv([g EXCEPT !.queue = moved, !.index = j])
      /\ [g EXCEPT !.queue = moved, !.index = j].members = g.members
  BY <1>4, <1>5, RequeueInv
<1>7. QED
  BY <1>1, <1>6

LEMMA AddEntriesInv ==
  ASSUME NEW g, GroupInv(g), NEW more \in Seq(Entry), NEW next \in BOOLEAN
  PROVE  GroupInv(AddEntries(g, more, next)) /\ AddEntries(g, more, next).members = g.members
<1> DEFINE n == IF next THEN g.index ELSE Len(g.queue)
           longer == InsertAfter(g.queue, n, more)
           i == IF g.index = 0 /\ longer # <<>> THEN 1 ELSE g.index
<1>1. AddEntries(g, more, next) = [g EXCEPT !.queue = longer, !.index = i]
  BY DEF AddEntries
<1>2. g.queue \in Seq(Entry) /\ more \in Seq(Entry) /\ g.index \in 0..Len(g.queue)
  BY DEF GroupInv, GroupShape, Group
<1>3. n \in 0..Len(g.queue)
  BY <1>2
<1> HIDE DEF n
<1>4. longer \in Seq(Entry) /\ Len(longer) = Len(g.queue) + Len(more)
  <2> DEFINE q == g.queue
  <2>1. q \in Seq(Entry) /\ n \in 0..Len(q)
    BY <1>2, <1>3
  <2> HIDE DEF q
  <2>2. InsertAfter(q, n, more) \in Seq(Entry) /\ Len(InsertAfter(q, n, more)) = Len(q) + Len(more)
    BY <2>1, InsertAfterType
  <2>3. QED
    BY <2>2 DEF q
<1> HIDE DEF longer
<1>5. i \in 0..Len(longer)
  BY <1>2, <1>4
<1> HIDE DEF i
<1>6. GroupInv([g EXCEPT !.queue = longer, !.index = i])
      /\ [g EXCEPT !.queue = longer, !.index = i].members = g.members
  BY <1>4, <1>5, RequeueInv
<1>7. QED
  BY <1>1, <1>6

\* The next and the previous entry, around the ends, is an entry.
LEMMA NavigateInv ==
  ASSUME NEW g, GroupInv(g), g.queue # <<>>, NEW id, NEW step \in Int
  PROVE  GroupInv(Navigate(g, id, step)) /\ Navigate(g, id, step).members = g.members
<1> DEFINE named == PositionOf(g.queue, id)
           current == IF named # 0 THEN named ELSE IF g.index # 0 THEN g.index ELSE 1
           n == Len(g.queue)
           i == ((current - 1 + step) % n) + 1
<1>1. g.queue \in Seq(Entry) /\ g.index \in 0..n
  BY DEF GroupInv, GroupShape, Group
<1>2. named \in 0..n /\ n \in Nat /\ n # 0
  BY <1>1, PositionOfRange
<1> HIDE DEF named, n
<1>3. current \in Int
  BY <1>1, <1>2
<1> HIDE DEF current
<1>4. i \in 1..n
  BY <1>2, <1>3
<1>5. Navigate(g, id, step) = StartEntry(g, i)
  BY DEF Navigate, named, current, n
<1> HIDE DEF i
<1>6. QED
  BY <1>4, <1>5, StartEntryInv DEF n

---------------------------------------------------------------------------
(* What an operator tells the members, who it waits for, where it goes on   *)

QueuedItems(q) == {q[i].item : i \in 1..Len(q)}

\* The parts of a message say what g and h differ in.
Tells(g, h, parts) ==
  /\ h.state = g.state \/ "state" \in parts
  /\ (h.queue = g.queue /\ h.index = g.index) \/ "queue" \in parts

\* h has the connections of g, no other items, and the parts tell the difference.
Kept(g, h, parts) ==
  /\ h.connected = g.connected
  /\ QueuedItems(h.queue) \subseteq QueuedItems(g.queue)
  /\ Tells(g, h, parts)

\* A group waits for somebody, with something queued.
Waits(g) == g.state = "Waiting" => g.queue # <<>> /\ g.buffering # {}

\* Where a group goes on from.
GoesOnAt(g) == IF g.pending = NoPos THEN g.pos ELSE g.pending

\* The end of a wait only changes the state; the wait ended or somebody still loads.
LEMMA ResolveKeeps ==
  ASSUME NEW g, GroupInv(g)
  PROVE  /\ Resolve(g).connected = g.connected
         /\ Resolve(g).queue = g.queue /\ Resolve(g).index = g.index
         /\ ~Resolves(g) => Resolve(g) = g
         /\ (g.state = "Waiting" => g.queue # <<>>) => Waits(Resolve(g))
         /\ GoesOnAt(Resolve(g)) = GoesOnAt(g)
<1>1. g \in Group
  BY DEF GroupInv, GroupShape
<1>2. CASE ~Resolves(g)
  <2>1. Resolve(g) = g
    BY <1>2 DEF Resolve
  <2>2. g.state = "Waiting" => g.buffering # {}
    BY <1>2 DEF Resolves, AllReady
  <2>3. QED
    BY <2>1, <2>2 DEF Waits
<1>3. CASE Resolves(g)
  <2> DEFINE h == [g EXCEPT !.state   = IF g.resume THEN "Playing" ELSE "Paused",
                            !.playing = g.resume,
                            !.pos     = IF g.pending = NoPos THEN g.pos ELSE g.pending,
                            !.pending = NoPos]
  <2>1. Resolve(g) = h
    BY <1>3 DEF Resolve
  <2>2. /\ h.connected = g.connected /\ h.queue = g.queue /\ h.index = g.index
        /\ h.state # "Waiting" /\ h.pending = NoPos
        /\ h.pos = IF g.pending = NoPos THEN g.pos ELSE g.pending
    BY <1>1 DEF Group
  <2> HIDE DEF h
  <2>3. QED
    BY <1>3, <2>1, <2>2 DEF Waits, GoesOnAt
<1>4. QED
  BY <1>2, <1>3

LEMMA SetUnpausedKeeps ==
  ASSUME NEW g, GroupInv(g)
  PROVE  Kept(g, SetUnpaused(g), {"state"}) /\ Waits(SetUnpaused(g))
BY DEF SetUnpaused, GroupInv, GroupShape, Group, Kept, Tells, Waits

LEMMA SetPausedKeeps ==
  ASSUME NEW g, GroupInv(g), NEW p
  PROVE  Kept(g, SetPaused(g, p), {"state"}) /\ Waits(SetPaused(g, p))
BY DEF SetPaused, GroupInv, GroupShape, Group, Kept, Tells, Waits

LEMMA StoppedKeeps ==
  ASSUME NEW g, g \in Group
  PROVE  Kept(g, Stopped(g), {"state"}) /\ Waits(Stopped(g))
BY DEF Stopped, Group, Kept, Tells, Waits

\* A wait that is started by a request has somebody to wait for, in a group with
\* members and a queue.
LEMMA SeekToKeeps ==
  ASSUME NEW g, GroupInv(g), g.members # {}, NEW t
  PROVE  /\ Kept(g, SeekTo(g, t), {"state"})
         /\ g.queue # <<>> => Waits(SeekTo(g, t))
BY DEF SeekTo, TransitionToWaiting, GroupInv, GroupShape, Group, Kept, Tells, Waits

LEMMA StartEntryKeeps ==
  ASSUME NEW g, GroupInv(g), g.members # {}, g.queue # <<>>, NEW i
  PROVE  Kept(g, StartEntry(g, i), {"queue", "state"}) /\ Waits(StartEntry(g, i))
BY DEF StartEntry, TransitionToWaiting, GroupInv, GroupShape, Group, Kept, Tells, Waits

LEMMA NavigateKeeps ==
  ASSUME NEW g, GroupInv(g), g.members # {}, g.queue # <<>>, NEW id, NEW step
  PROVE  Kept(g, Navigate(g, id, step), {"queue", "state"}) /\ Waits(Navigate(g, id, step))
BY StartEntryKeeps DEF Navigate

\* Reports: of a member that loads, that has loaded, and that is not to be waited for.
LEMMA ReportBufferingKeeps ==
  ASSUME NEW g, GroupInv(g), NEW s, NEW t, NEW isPlaying, NEW p
  PROVE  LET h == ReportBuffering(g, s, t, isPlaying, p)
         IN  /\ Kept(g, h, {"state"})
             /\ g.queue # <<>> => Waits(h)
             /\ g.state = "Waiting" => GoesOnAt(h) = GoesOnAt(g)
<1> DEFINE was == g.state = "Playing" /\ g.playing
           now == was \/ isPlaying
           pos == IF g.pending = NoPos /\ was THEN p ELSE g.pos
           pending == IF g.pending # NoPos THEN g.pending ELSE IF was THEN p ELSE Clamp(t)
           resume == IF g.state = "Waiting" THEN g.resume ELSE now
           h == [g EXCEPT !.buffering = g.buffering \cup {s}, !.pos = pos, !.pending = pending,
                          !.playing = now, !.resume = resume, !.state = "Waiting"]
<1>1. ReportBuffering(g, s, t, isPlaying, p) = h
  BY DEF ReportBuffering
<1>2. g.pending # NoPos => pending = g.pending
  OBVIOUS
<1> HIDE DEF pos, pending, now, resume
<1>3. /\ h.connected = g.connected /\ h.queue = g.queue /\ h.index = g.index
      /\ h.buffering = g.buffering \cup {s} /\ h.pending = pending
  BY DEF GroupInv, GroupShape, Group
<1> HIDE DEF h
<1>4. g.state = "Waiting" => g.pending # NoPos
  BY DEF GroupInv, WaitShape
<1>5. QED
  BY <1>1, <1>2, <1>3, <1>4 DEF Kept, Tells, Waits, GoesOnAt

LEMMA ReportReadyKeeps ==
  ASSUME NEW g, GroupInv(g), NEW s, NEW t
  PROVE  LET h == ReportReady(g, s, t)
         IN  /\ Kept(g, h, {})
             /\ h.queue = g.queue
             /\ g.state = "Waiting" => GoesOnAt(h) = GoesOnAt(g)
<1>1. g.state = "Waiting" <=> g.pending # NoPos
  BY DEF GroupInv, WaitShape
<1>2. QED
  BY <1>1 DEF ReportReady, GroupInv, GroupShape, Group, Kept, Tells, GoesOnAt

LEMMA SetIgnoringKeeps ==
  ASSUME NEW g, GroupInv(g), NEW s, NEW ignore
  PROVE  LET h == SetIgnoring(g, s, ignore)
         IN  Kept(g, h, {}) /\ h.queue = g.queue /\ GoesOnAt(h) = GoesOnAt(g)
BY DEF SetIgnoring, GroupInv, GroupShape, Group, Kept, Tells, GoesOnAt

\* Members who come and go.
LEMMA NewGroupKeeps ==
  ASSUME NEW s
  PROVE  NewGroup(s).connected = {s} /\ NewGroup(s).queue = <<>> /\ Waits(NewGroup(s))
BY DEF NewGroup, Waits

LEMMA HoldForKeeps ==
  ASSUME NEW g, g \in Group, NEW p
  PROVE  LET h == HoldFor(g, p)
         IN  /\ h.connected = g.connected /\ h.queue = g.queue /\ h.index = g.index
             /\ h.state = g.state \/ h.state = "Waiting"
             /\ h.buffering = g.buffering
             /\ g.queue = <<>> => h = g
             /\ g.queue # <<>> => h.pending = p
BY DEF HoldFor, Group

LEMMA AddMemberKeeps ==
  ASSUME NEW g, GroupInv(g), NEW s \in Session, NEW p
  PROVE  LET h == AddMember(g, s, p)
         IN  /\ h.connected = g.connected \cup {s}
             /\ h.queue = g.queue /\ h.index = g.index
             /\ h.state = g.state \/ h.state = "Waiting"
             /\ Waits(g) => Waits(h)
             /\ p = GoesOnAt(g) /\ p # NoPos => GoesOnAt(h) = GoesOnAt(g)
<1> DEFINE k == [g EXCEPT !.members   = @ \cup {s},
                          !.connected = @ \cup {s},
                          !.ignoring  = @ \ {s},
                          !.buffering = IF g.queue = <<>> THEN @ \ {s} ELSE @ \cup {s}]
<1>1. AddMember(g, s, p) = HoldFor(k, p)
  BY DEF AddMember
<1>2. /\ k.connected = g.connected \cup {s} /\ k.queue = g.queue /\ k.index = g.index
      /\ k.state = g.state /\ k.pos = g.pos /\ k.pending = g.pending
      /\ k.buffering = IF g.queue = <<>> THEN g.buffering \ {s} ELSE g.buffering \cup {s}
  BY DEF GroupInv, GroupShape, Group
<1>3. k \in Group
  BY DEF GroupInv, GroupShape, Group
<1> HIDE DEF k
<1> DEFINE h == HoldFor(k, p)
<1>4. /\ h.connected = k.connected /\ h.queue = k.queue /\ h.index = k.index
      /\ h.state = k.state \/ h.state = "Waiting"
      /\ h.buffering = k.buffering
      /\ k.queue = <<>> => h = k
      /\ k.queue # <<>> => h.pending = p
  BY <1>3, HoldForKeeps
<1> HIDE DEF h
<1>5. QED
  BY <1>1, <1>2, <1>4 DEF Waits, GoesOnAt, h

LEMMA ReconnectKeeps ==
  ASSUME NEW g, GroupInv(g), NEW s \in Session, NEW p
  PROVE  LET h == Reconnect(g, s, p)
         IN  /\ h.connected = g.connected \cup {s}
             /\ h.queue = g.queue /\ h.index = g.index
             /\ h.state = g.state \/ h.state = "Waiting"
             /\ Waits(g) => Waits(h)
             /\ p = GoesOnAt(g) /\ p # NoPos => GoesOnAt(h) = GoesOnAt(g)
<1> DEFINE k == [g EXCEPT !.connected = @ \cup {s},
                          !.buffering = IF g.queue = <<>> THEN @ \ {s} ELSE @ \cup {s}]
<1>1. Reconnect(g, s, p) = HoldFor(k, p)
  BY DEF Reconnect
<1>2. /\ k.connected = g.connected \cup {s} /\ k.queue = g.queue /\ k.index = g.index
      /\ k.state = g.state /\ k.pos = g.pos /\ k.pending = g.pending
      /\ k.buffering = IF g.queue = <<>> THEN g.buffering \ {s} ELSE g.buffering \cup {s}
  BY DEF GroupInv, GroupShape, Group
<1>3. k \in Group
  BY DEF GroupInv, GroupShape, Group
<1> HIDE DEF k
<1> DEFINE h == HoldFor(k, p)
<1>4. /\ h.connected = k.connected /\ h.queue = k.queue /\ h.index = k.index
      /\ h.state = k.state \/ h.state = "Waiting"
      /\ h.buffering = k.buffering
      /\ k.queue = <<>> => h = k
      /\ k.queue # <<>> => h.pending = p
  BY <1>3, HoldForKeeps
<1> HIDE DEF h
<1>5. QED
  BY <1>1, <1>2, <1>4 DEF Waits, GoesOnAt, h

LEMMA DisconnectKeeps ==
  ASSUME NEW g, GroupInv(g), NEW s
  PROVE  LET h == Disconnect(g, s)
         IN  /\ h.connected = g.connected \ {s}
             /\ h.queue = g.queue /\ h.index = g.index /\ h.state = g.state
             /\ GoesOnAt(h) = GoesOnAt(g)
BY DEF Disconnect, GroupInv, GroupShape, Group, GoesOnAt

LEMMA RemoveMemberKeeps ==
  ASSUME NEW g, GroupInv(g), NEW s
  PROVE  LET h == RemoveMember(g, s)
         IN  /\ h.connected = g.connected \ {s}
             /\ h.queue = g.queue /\ h.index = g.index /\ h.state = g.state
             /\ GoesOnAt(h) = GoesOnAt(g)
BY DEF RemoveMember, GroupInv, GroupShape, Group, GoesOnAt

\* In a wait, there is one position that a member who comes can find the group at.
LEMMA WaitingAt ==
  ASSUME NEW g, GroupInv(g), g.state = "Waiting"
  PROVE  Estimated(g) = {GoesOnAt(g)} /\ GoesOnAt(g) \in Nat /\ GoesOnAt(g) # NoPos
BY DEF Estimated, GoesOnAt, GroupInv, GroupShape, WaitShape, Group, NoPos

---------------------------------------------------------------------------
(* Changes of the queue: what becomes of its items                         *)

\* The entries of items in S.
EntryOf(S) == {e \in Entry : e.item \in S}

\* To queue items of S only is to be a sequence of their entries.
LEMMA QueuedWithin ==
  ASSUME NEW q \in Seq(Entry), NEW S
  PROVE  QueuedItems(q) \subseteq S <=> q \in Seq(EntryOf(S))
<1>1. Len(q) \in Nat /\ q \in [1..Len(q) -> Entry]
  OBVIOUS
<1>2. QueuedItems(q) \subseteq S <=> \A i \in 1..Len(q) : q[i] \in EntryOf(S)
  BY <1>1 DEF QueuedItems, EntryOf
<1>3. (\A i \in 1..Len(q) : q[i] \in EntryOf(S)) => q \in Seq(EntryOf(S))
  <2> HAVE \A i \in 1..Len(q) : q[i] \in EntryOf(S)
  <2>1. q \in [1..Len(q) -> EntryOf(S)]
    BY <1>1
  <2>2. QED
    BY <1>1, <2>1
<1>4. q \in Seq(EntryOf(S)) => \A i \in 1..Len(q) : q[i] \in EntryOf(S)
  OBVIOUS
<1>5. QED
  BY <1>2, <1>3, <1>4

LEMMA ClearQueueKeeps ==
  ASSUME NEW g, GroupInv(g)
  PROVE  Kept(g, ClearQueue(g), {"queue", "state"}) /\ Waits(ClearQueue(g))
<1> DEFINE h == ClearQueue(g)
<1>1. h.connected = g.connected /\ h.queue = <<>> /\ h.state = "Idle"
  BY DEF ClearQueue, Stopped, GroupInv, GroupShape, Group
<1> HIDE DEF h
<1>2. QueuedItems(h.queue) = {}
  BY <1>1 DEF QueuedItems
<1>3. QED
  BY <1>1, <1>2 DEF Kept, Tells, Waits, h

LEMMA RemoveEntriesKeeps ==
  ASSUME NEW g, GroupInv(g), NEW ids, NEW clearCurrent
  PROVE  LET h == RemoveEntries(g, ids, clearCurrent)
         IN  /\ Kept(g, h, {"queue"} \cup IF h.queue = <<>> THEN {"state"} ELSE {})
             /\ Waits(g) => Waits(h)
<1> DEFINE rest == Retain(g.queue, ids)
           i == IF clearCurrent THEN 0
                ELSE IF HasCurrent(g) THEN PositionOf(rest, CurrentId(g)) ELSE g.index
           k == [g EXCEPT !.queue = rest, !.index = i]
           h == IF rest = <<>> THEN Stopped(k) ELSE k
<1>1. RemoveEntries(g, ids, clearCurrent) = h
  BY DEF RemoveEntries
<1>2. g.queue \in Seq(Entry)
  BY DEF GroupInv, GroupShape, Group
<1>3. QueuedItems(rest) \subseteq QueuedItems(g.queue)
  <2>1. g.queue \in Seq(EntryOf(QueuedItems(g.queue)))
    BY <1>2, QueuedWithin
  <2>2. rest \in Seq(Entry) /\ rest \in Seq(EntryOf(QueuedItems(g.queue)))
    BY <1>2, <2>1, RetainType
  <2> HIDE DEF rest
  <2>3. QED
    BY <2>2, QueuedWithin
<1> HIDE DEF rest, i
<1>4. /\ h.connected = g.connected /\ h.queue = rest
      /\ rest # <<>> => h.state = g.state /\ h.buffering = g.buffering
      /\ rest = <<>> => h.state = "Idle"
  BY DEF Stopped, GroupInv, GroupShape, Group
<1> HIDE DEF h
<1>5. QED
  BY <1>1, <1>3, <1>4 DEF Kept, Tells, Waits

LEMMA MoveEntryKeeps ==
  ASSUME NEW g, GroupInv(g), NEW i \in 1..Len(g.queue), NEW to \in Nat
  PROVE  /\ Kept(g, MoveEntry(g, i, to), {"queue"})
         /\ Waits(g) => Waits(MoveEntry(g, i, to))
<1> DEFINE T == EntryOf(QueuedItems(g.queue))
           rest == SubSeq(g.queue, 1, i - 1) \o SubSeq(g.queue, i + 1, Len(g.queue))
           n == IF to < Len(rest) THEN to ELSE Len(rest)
           moved == InsertAfter(rest, n, <<g.queue[i]>>)
           j == IF HasCurrent(g) THEN PositionOf(moved, CurrentId(g)) ELSE g.index
           h == [g EXCEPT !.queue = moved, !.index = j]
<1>1. MoveEntry(g, i, to) = h
  BY DEF MoveEntry
<1>2. g.queue \in Seq(Entry)
  BY DEF GroupInv, GroupShape, Group
<1>3. g.queue \in Seq(T)
  BY <1>2, QueuedWithin
<1> HIDE DEF T
<1>4. rest \in Seq(T)
  <2>1. SubSeq(g.queue, 1, i - 1) \in Seq(T)
    BY <1>3, SubSeqProperties
  <2>2. SubSeq(g.queue, i + 1, Len(g.queue)) \in Seq(T)
    BY <1>3, SubSeqProperties
  <2>3. QED
    BY <2>1, <2>2, ConcatProperties
<1> HIDE DEF rest
<1>5. moved \in Seq(T) /\ moved # <<>>
  <2>1. n \in 0..Len(rest)
    BY <1>4
  <2>2. <<g.queue[i]>> \in Seq(T) /\ Len(<<g.queue[i]>>) = 1
    BY <1>3
  <2> HIDE DEF n
  <2>3. moved \in Seq(T) /\ Len(moved) = Len(rest) + 1
    BY <1>4, <2>1, <2>2, InsertAfterType
  <2> HIDE DEF moved
  <2>4. Len(rest) \in Nat /\ Len(<<>>) = 0
    BY <1>4
  <2>5. QED
    BY <2>3, <2>4
<1> HIDE DEF moved
<1>6. QueuedItems(moved) \subseteq QueuedItems(g.queue)
  BY <1>5 DEF QueuedItems, T, EntryOf
<1>7. /\ h.connected = g.connected /\ h.queue = moved
      /\ h.state = g.state /\ h.buffering = g.buffering
  BY DEF GroupInv, GroupShape, Group
<1> HIDE DEF h
<1>8. QED
  BY <1>1, <1>5, <1>6, <1>7 DEF Kept, Tells, Waits

LEMMA AddEntriesKeeps ==
  ASSUME NEW g, GroupInv(g), NEW more \in Seq(Entry), NEW next \in BOOLEAN
  PROVE  LET h == AddEntries(g, more, next)
         IN  /\ h.connected = g.connected /\ Tells(g, h, {"queue"})
             /\ QueuedItems(h.queue) \subseteq QueuedItems(g.queue) \cup QueuedItems(more)
             /\ Waits(g) => Waits(h)
<1> DEFINE S == QueuedItems(g.queue) \cup QueuedItems(more)
           T == EntryOf(S)
           n == IF next THEN g.index ELSE Len(g.queue)
           longer == InsertAfter(g.queue, n, more)
           i == IF g.index = 0 /\ longer # <<>> THEN 1 ELSE g.index
           h == [g EXCEPT !.queue = longer, !.index = i]
<1>1. AddEntries(g, more, next) = h
  BY DEF AddEntries
<1>2. g.queue \in Seq(Entry) /\ g.index \in 0..Len(g.queue)
  BY DEF GroupInv, GroupShape, Group
<1>3. g.queue \in Seq(T) /\ more \in Seq(T)
  <2>1. QueuedItems(g.queue) \subseteq S /\ QueuedItems(more) \subseteq S
    OBVIOUS
  <2>2. QED
    BY <1>2, <2>1, QueuedWithin
<1>4. n \in 0..Len(g.queue)
  BY <1>2
<1> HIDE DEF n, T
<1>5. longer \in Seq(T) /\ Len(longer) = Len(g.queue) + Len(more)
  BY <1>3, <1>4, InsertAfterType
<1> HIDE DEF longer
<1> HIDE DEF S
<1>6. QueuedItems(longer) \subseteq S
  <2>1. T \subseteq Entry
    BY DEF T, EntryOf
  <2>2. longer \in Seq(Entry)
    BY ONLY <1>5, <2>1
  <2>3. longer \in Seq(EntryOf(S))
    BY <1>5 DEF T
  <2>4. QED
    BY ONLY <2>2, <2>3, QueuedWithin
<1>7. g.queue # <<>> => longer # <<>>
  BY <1>2, <1>5
<1> HIDE DEF i
<1>8. /\ h.connected = g.connected /\ h.queue = longer
      /\ h.state = g.state /\ h.buffering = g.buffering
  BY DEF GroupInv, GroupShape, Group
<1> HIDE DEF h
<1>9. QED
  BY <1>1, <1>6, <1>7, <1>8 DEF Tells, Waits, S

LEMMA SetQueueKeeps ==
  ASSUME NEW g, GroupInv(g), g.members # {}, NEW q, NEW at, NEW t
  PROVE  LET h == SetQueue(g, q, at, t)
         IN  h.connected = g.connected /\ h.queue = q /\ Waits(h)
<1> DEFINE i == IF at < Len(q) THEN at + 1 ELSE Len(q)
           k == [g EXCEPT !.queue = q, !.index = i, !.pos = Clamp(t), !.pending = Clamp(t),
                          !.playing = TRUE]
           h == IF q = <<>> THEN Stopped(k) ELSE TransitionToWaiting(k, TRUE)
<1>1. SetQueue(g, q, at, t) = h
  BY DEF SetQueue
<1> HIDE DEF i
<1>2. /\ h.connected = g.connected /\ h.queue = q
      /\ q = <<>> => h.state = "Idle"
      /\ q # <<>> => h.buffering = g.members
  BY DEF Stopped, TransitionToWaiting, GroupInv, GroupShape, Group
<1> HIDE DEF h
<1>3. QED
  BY <1>1, <1>2 DEF Waits

---------------------------------------------------------------------------
(* The coordinator *)

\* The groups gs and the map sg from sessions to groups.
Consistent(gs, sg) ==
  /\ gs = [id \in DOMAIN gs |-> gs[id]] /\ DOMAIN gs \subseteq GroupId
  /\ \A id \in DOMAIN gs : GroupInv(gs[id])
  /\ sg \in [Session -> GroupId \cup {NoGroup}]
  /\ \A s \in Session : sg[s] # NoGroup => sg[s] \in DOMAIN gs
  /\ \A id \in DOMAIN gs :
       gs[id].members = {s \in Session : sg[s] = id} /\ gs[id].members # {}

OtherTypes ==
  /\ hub \in [Session -> ConnId \cup {NoConn}]
  /\ tasks \in [ConnId -> Session \cup {NoSession}]
  /\ grace \in [Session -> GraceId \cup {NoGrace}]
  /\ timers \in [GraceId -> Session \cup {NoSession}]
  /\ entries \in SUBSET Session
  /\ ending \in [Session -> {"no", "logout", "revoke"}]
  /\ req \in [Session -> Request]
  /\ told \in [Session -> Told]
  /\ unchecked \in SUBSET GroupId

IInv == Consistent(groups, sessionGroup) /\ OtherTypes /\ GraceWatched

---------------------------------------------------------------------------
(* Facts about the state                                                   *)

LEMMA GroupsTyped ==
  ASSUME NEW gs, NEW sg, Consistent(gs, sg)
  PROVE  gs \in [DOMAIN gs -> Group]
<1>1. \A id \in DOMAIN gs : gs[id] \in Group
  BY DEF Consistent, GroupInv, GroupShape
<1>2. gs = [id \in DOMAIN gs |-> gs[id]]
  BY DEF Consistent
<1>3. QED
  BY <1>1, <1>2

\* The group of a session is a group, and the session a member of it.
LEMMA MyGroupFacts ==
  ASSUME Consistent(groups, sessionGroup), NEW s \in Session, InGroup(s)
  PROVE  /\ sessionGroup[s] \in DOMAIN groups /\ sessionGroup[s] \in GroupId
         /\ GroupInv(MyGroup(s)) /\ s \in MyGroup(s).members
         /\ MyGroup(s).queue \in Seq(Entry)
<1>1. sessionGroup[s] \in DOMAIN groups /\ sessionGroup[s] \in GroupId
  BY DEF Consistent, InGroup
<1>2. GroupInv(MyGroup(s)) /\ s \in MyGroup(s).members
  BY <1>1 DEF Consistent, MyGroup
<1>3. QED
  BY <1>1, <1>2 DEF GroupInv, GroupShape, Group

LEMMA BlankType == Blank \in Told
BY DEF Blank, Told, GroupState

LEMMA SnapshotType ==
  ASSUME NEW g, GroupInv(g), NEW id \in GroupId
  PROVE  Snapshot(id, g) \in Told
<1>1. g.state \in GroupState /\ g.queue \in Seq(Entry) /\ g.index \in Nat
  BY DEF GroupInv, GroupShape, Group
<1>2. QED
  BY <1>1 DEF Snapshot, Told

LEMMA BroadcastType ==
  ASSUME NEW t \in [Session -> Told], NEW online, NEW g, GroupInv(g), NEW parts
  PROVE  Broadcast(t, online, g, parts) \in [Session -> Told]
<1>1. g.state \in GroupState /\ g.queue \in Seq(Entry) /\ g.index \in Nat
  BY DEF GroupInv, GroupShape, Group
<1>2. QED
  BY <1>1 DEF Broadcast, Told

LEMMA EntriesType ==
  ASSUME NEW q, NEW items \in Seq(Item), NEW ids \in FreshIds(q, Len(items))
  PROVE  Entries(items, ids) \in Seq(Entry)
<1>1. Len(items) \in Nat /\ ids \in [1..Len(items) -> EntryId]
  BY DEF FreshIds
<1>2. Entries(items, ids) \in [1..Len(items) -> Entry]
  BY <1>1 DEF Entries, Entry
<1>3. QED
  BY <1>1, <1>2

LEMMA QueueItemIdsType ==
  ASSUME NEW g, GroupInv(g)
  PROVE  QueueItemIds(g) \in Seq(Item)
<1>1. g.queue \in Seq(Entry)
  BY DEF GroupInv, GroupShape, Group
<1>2. Len(g.queue) \in Nat /\ \A i \in 1..Len(g.queue) : g.queue[i] \in Entry
  BY <1>1
<1>3. QueueItemIds(g) \in [1..Len(g.queue) -> Item]
  BY <1>2 DEF QueueItemIds, Entry
<1>4. QED
  BY <1>2, <1>3

\* What a request that passed its check carries.
LEMMA RequestFacts ==
  ASSUME NEW r \in Request
  PROVE  /\ r.op = "join" => r.group \in GroupId
         /\ r.op \in {"set", "queue"} => r.items \in Seq(Item)
BY PayloadsAssumption DEF Request, NoReq

\* A group is exchanged for one with the same members.
LEMMA ConsistentUpdate ==
  ASSUME NEW gs, NEW sg, Consistent(gs, sg), NEW id \in DOMAIN gs,
         NEW g, GroupInv(g), g.members = gs[id].members
  PROVE  Consistent([gs EXCEPT ![id] = g], sg)
BY DEF Consistent

\* A session in no group becomes a member of a group, new or not.
LEMMA ConsistentAdd ==
  ASSUME NEW gs, NEW sg, Consistent(gs, sg), NEW s \in Session, sg[s] = NoGroup,
         NEW id \in GroupId, NEW g, GroupInv(g),
         g.members = (IF id \in DOMAIN gs THEN gs[id].members ELSE {}) \cup {s}
  PROVE  Consistent([x \in DOMAIN gs \cup {id} |-> IF x = id THEN g ELSE gs[x]],
                    [sg EXCEPT ![s] = id])
<1> DEFINE hs == [x \in DOMAIN gs \cup {id} |-> IF x = id THEN g ELSE gs[x]]
           sh == [sg EXCEPT ![s] = id]
<1>1. sh \in [Session -> GroupId \cup {NoGroup}] /\ DOMAIN gs \subseteq GroupId
      /\ DOMAIN hs \subseteq GroupId
  BY DEF Consistent
<1>2. \A x \in DOMAIN hs : GroupInv(hs[x])
  BY DEF Consistent
<1>3. \A r \in Session : sh[r] # NoGroup => sh[r] \in DOMAIN hs
  BY DEF Consistent
<1>4. \A x \in DOMAIN hs : hs[x].members = {r \in Session : sh[r] = x} /\ hs[x].members # {}
  <2> TAKE x \in DOMAIN hs
  <2>1. CASE x # id
    <3>1. {r \in Session : sh[r] = x} = {r \in Session : sg[r] = x}
      BY <2>1, <1>1, GroupIdAssumption DEF Consistent
    <3>2. QED
      BY <2>1, <3>1 DEF Consistent
  <2>2. CASE x = id /\ id \in DOMAIN gs
    <3>1. gs[id].members = {r \in Session : sg[r] = id}
      BY <2>2 DEF Consistent
    <3>2. {r \in Session : sh[r] = id} = {r \in Session : sg[r] = id} \cup {s}
      BY DEF Consistent
    <3>3. QED
      BY <2>2, <3>1, <3>2
  <2>3. CASE x = id /\ id \notin DOMAIN gs
    <3>1. \A r \in Session : sg[r] # id
      BY <2>3, GroupIdAssumption DEF Consistent
    <3>2. {r \in Session : sh[r] = id} = {s}
      BY <3>1 DEF Consistent
    <3>3. QED
      BY <2>3, <3>2
  <2>4. QED
    BY <2>1, <2>2, <2>3
<1>5. hs = [x \in DOMAIN hs |-> hs[x]]
  OBVIOUS
<1> HIDE DEF hs, sh
<1>6. Consistent(hs, sh)
  BY <1>1, <1>2, <1>3, <1>4, <1>5 DEF Consistent
<1>7. QED
  BY <1>6 DEF hs, sh

\* A grace id never loses its timer, nor gets a connection, as long as the timers
\* stay and a grace id is only ever given up.
LEMMA GraceKept ==
  ASSUME GraceWatched, timers' = timers,
         \A s \in Session : grace'[s] = NoGrace \/ (grace'[s] = grace[s] /\ hub'[s] \in {hub[s], NoConn})
  PROVE  GraceWatched'
BY DEF GraceWatched

---------------------------------------------------------------------------
(* Leaving a group                                                         *)

LEMMA LeftBehindFacts ==
  ASSUME Consistent(groups, sessionGroup), NEW s \in Session, InGroup(s)
  PROVE  /\ GroupInv(LeftBehind(s)) /\ GroupInv(Resolve(LeftBehind(s)))
         /\ LeftBehind(s).members = MyGroup(s).members \ {s}
         /\ Resolve(LeftBehind(s)).members = MyGroup(s).members \ {s}
<1>1. GroupInv(MyGroup(s))
  BY MyGroupFacts
<1>2. GroupInv(LeftBehind(s)) /\ LeftBehind(s).members = MyGroup(s).members \ {s}
  BY <1>1, RemoveMemberInv DEF LeftBehind
<1>3. QED
  BY <1>2, ResolveInv

\* What a session leaves behind is consistent: its group without it, or no group.
LEMMA LeaveConsistent ==
  ASSUME Consistent(groups, sessionGroup), NEW s \in Session
  PROVE  /\ Consistent(GroupsWithout(s), [sessionGroup EXCEPT ![s] = NoGroup])
         /\ DOMAIN GroupsWithout(s) \subseteq DOMAIN groups
<1> DEFINE sh == [sessionGroup EXCEPT ![s] = NoGroup]
<1>1. sh \in [Session -> GroupId \cup {NoGroup}] /\ sh[s] = NoGroup
      /\ \A r \in Session \ {s} : sh[r] = sessionGroup[r]
  BY DEF Consistent
<1>2. CASE ~InGroup(s)
  <2>1. sh = sessionGroup
    BY <1>2 DEF InGroup, Consistent
  <2>2. QED
    BY <1>2, <2>1 DEF GroupsWithout
<1>3. CASE InGroup(s)
  <2> DEFINE id == sessionGroup[s]
             gone == LeftBehind(s).members = {}
             hs == IF gone THEN [x \in DOMAIN groups \ {id} |-> groups[x]]
                   ELSE [groups EXCEPT ![id] = Resolve(LeftBehind(s))]
  <2>1. GroupsWithout(s) = hs
    BY <1>3 DEF GroupsWithout
  <2>2. id \in DOMAIN groups /\ id \in GroupId /\ id # NoGroup
    BY <1>3, MyGroupFacts, GroupIdAssumption
  <2>3. /\ GroupInv(Resolve(LeftBehind(s)))
        /\ LeftBehind(s).members = {r \in Session : sh[r] = id}
        /\ Resolve(LeftBehind(s)).members = LeftBehind(s).members
    <3>1. MyGroup(s).members = {r \in Session : sessionGroup[r] = id}
      BY <2>2 DEF Consistent, MyGroup
    <3>2. {r \in Session : sh[r] = id} = {r \in Session : sessionGroup[r] = id} \ {s}
      BY <1>1, <2>2
    <3>3. QED
      BY <1>3, <3>1, <3>2, LeftBehindFacts
  <2>4. \A x \in DOMAIN groups \ {id} :
          {r \in Session : sh[r] = x} = {r \in Session : sessionGroup[r] = x}
    <3> TAKE x \in DOMAIN groups \ {id}
    <3>1. x # NoGroup
      BY GroupIdAssumption DEF Consistent
    <3>2. QED
      BY <1>1, <3>1
  <2>5. CASE gone
    <3>1. DOMAIN hs = DOMAIN groups \ {id} /\ hs = [x \in DOMAIN hs |-> hs[x]]
          /\ \A x \in DOMAIN hs : hs[x] = groups[x]
      BY <2>5
    <3>2. \A r \in Session : sh[r] # NoGroup => sh[r] \in DOMAIN hs
      BY <1>1, <2>3, <2>5, <3>1 DEF Consistent
    <3> HIDE DEF hs, sh, id
    <3>3. Consistent(hs, sh)
      BY <1>1, <2>4, <3>1, <3>2 DEF Consistent
    <3>4. QED
      BY <2>1, <3>1, <3>3 DEF sh
  <2>6. CASE ~gone
    <3>1. DOMAIN hs = DOMAIN groups /\ hs = [x \in DOMAIN hs |-> hs[x]]
          /\ (\A x \in DOMAIN groups \ {id} : hs[x] = groups[x])
          /\ hs[id] = Resolve(LeftBehind(s))
      BY <2>2, <2>6 DEF Consistent
    <3>2. \A r \in Session : sh[r] # NoGroup => sh[r] \in DOMAIN hs
      BY <1>1, <3>1 DEF Consistent
    <3>3. hs[id].members # {}
      BY <2>3, <2>6, <3>1
    <3> HIDE DEF hs, sh, id
    <3>4. Consistent(hs, sh)
      BY <1>1, <2>3, <2>4, <3>1, <3>2, <3>3 DEF Consistent
    <3>5. QED
      BY <2>1, <3>1, <3>4 DEF sh
  <2>7. QED
    BY <2>5, <2>6
<1>4. QED
  BY <1>2, <1>3

LEMMA ToldWithoutType ==
  ASSUME Consistent(groups, sessionGroup), told \in [Session -> Told],
         NEW s \in Session, NEW online
  PROVE  ToldWithout(s, online) \in [Session -> Told]
<1>1. CASE ~InGroup(s)
  BY <1>1 DEF ToldWithout
<1>2. CASE InGroup(s)
  <2> DEFINE t == Broadcast(told, online, Resolve(LeftBehind(s)),
                            StateIf(Resolves(LeftBehind(s))))
  <2>1. t \in [Session -> Told]
    BY <1>2, LeftBehindFacts, BroadcastType
  <2>2. ToldWithout(s, online) = [t EXCEPT ![s] = Blank]
    BY <1>2 DEF ToldWithout
  <2> HIDE DEF t
  <2>3. QED
    BY <2>1, <2>2, BlankType
<1>3. QED
  BY <1>1, <1>2

LEMMA LeaveStep ==
  ASSUME IInv, NEW s \in Session, NEW online, Leave(s, online)
  PROVE  /\ Consistent(groups', sessionGroup')
         /\ grace' \in [Session -> GraceId \cup {NoGrace}]
         /\ grace' = [grace EXCEPT ![s] = NoGrace]
         /\ told' \in [Session -> Told]
         /\ unchecked' \in SUBSET GroupId
<1>1. Consistent(groups', sessionGroup')
  BY LeaveConsistent DEF IInv, Leave
<1>2. told' \in [Session -> Told]
  BY ToldWithoutType DEF IInv, OtherTypes, Leave
<1>3. QED
  BY <1>1, <1>2 DEF IInv, OtherTypes, Leave

---------------------------------------------------------------------------
(* Every step keeps IInv: sockets, timers and the ends of sessions         *)

LEMMA RegisterStep ==
  ASSUME IInv, NEW s \in Session, NEW c \in ConnId, Register(s, c)
  PROVE  IInv'
<1>1. /\ hub' \in [Session -> ConnId \cup {NoConn}]
      /\ tasks' \in [ConnId -> Session \cup {NoSession}]
      /\ grace' \in [Session -> GraceId \cup {NoGrace}]
  BY DEF IInv, OtherTypes, Register
<1>2. GraceWatched'
  <2>1. timers' = timers /\ GraceWatched
        /\ \A r \in Session : grace'[r] = NoGrace \/ (grace'[r] = grace[r] /\ hub'[r] = hub[r])
    BY DEF IInv, OtherTypes, Register
  <2>2. QED
    BY <2>1, GraceKept
<1>3. Consistent(groups', sessionGroup') /\ told' \in [Session -> Told]
  <2>1. CASE InGroup(s)
    <3>1. PICK p \in Estimated(MyGroup(s)) :
            LET g == Reconnect(MyGroup(s), s, p)
            IN  /\ groups' = [groups EXCEPT ![sessionGroup[s]] = g]
                /\ told' = [Broadcast(told, Online, g, StateIf(g.state = "Waiting"))
                              EXCEPT ![s] = Snapshot(sessionGroup[s], g)]
      BY <2>1 DEF Register
    <3> DEFINE g == Reconnect(MyGroup(s), s, p)
               t == Broadcast(told, Online, g, StateIf(g.state = "Waiting"))
    <3>2. p \in Nat
      BY <2>1, MyGroupFacts, EstimatedNat DEF IInv
    <3>3. GroupInv(g) /\ g.members = MyGroup(s).members
      BY <2>1, <3>2, MyGroupFacts, ReconnectInv DEF IInv
    <3>4. groups' = [groups EXCEPT ![sessionGroup[s]] = g]
          /\ told' = [t EXCEPT ![s] = Snapshot(sessionGroup[s], g)]
      BY <3>1
    <3> HIDE DEF g
    <3>5. t \in [Session -> Told]
      BY <3>3, BroadcastType DEF IInv, OtherTypes
    <3> HIDE DEF t
    <3>6. Snapshot(sessionGroup[s], g) \in Told
      BY <2>1, <3>3, MyGroupFacts, SnapshotType DEF IInv
    <3>7. Consistent([groups EXCEPT ![sessionGroup[s]] = g], sessionGroup)
      BY <2>1, <3>3, MyGroupFacts, ConsistentUpdate DEF IInv, MyGroup
    <3>8. sessionGroup' = sessionGroup
      BY DEF Register
    <3>9. QED
      BY <3>4, <3>5, <3>6, <3>7, <3>8
  <2>2. CASE ~InGroup(s)
    <3>1. groups' = groups /\ sessionGroup' = sessionGroup
          /\ told' = [told EXCEPT ![s] = Blank]
      BY <2>2 DEF Register
    <3>2. QED
      BY <3>1, BlankType DEF IInv, OtherTypes
  <2>3. QED
    BY <2>1, <2>2
<1>4. UNCHANGED <<timers, entries, ending, req, unchecked>>
  BY DEF Register
<1>5. QED
  BY <1>1, <1>2, <1>3, <1>4 DEF IInv, OtherTypes

LEMMA SocketEndsStep ==
  ASSUME IInv, NEW c \in ConnId, SocketEnds(c)
  PROVE  IInv'
<1> DEFINE s == tasks[c]
<1>1. s \in Session
  BY DEF IInv, OtherTypes, SocketEnds
<1>2. tasks' \in [ConnId -> Session \cup {NoSession}]
  BY DEF IInv, OtherTypes, SocketEnds
<1>3. UNCHANGED <<sessionGroup, entries, ending, req, unchecked>>
  BY DEF SocketEnds
<1>4. CASE ~IsCurrent(s, c)
  <2>1. UNCHANGED <<groups, hub, grace, timers, told>>
    BY <1>4 DEF SocketEnds
  <2>2. QED
    BY <1>2, <1>3, <2>1 DEF IInv, OtherTypes, GraceWatched
<1>5. CASE IsCurrent(s, c)
  <2>1. hub' = [hub EXCEPT ![s] = NoConn]
    BY <1>5 DEF SocketEnds
  <2>2. PICK d \in GraceId :
          /\ timers[d] = NoSession
          /\ \A x \in Session : grace[x] # d
          /\ grace' = [grace EXCEPT ![s] = d]
          /\ timers' = [timers EXCEPT ![d] = s]
    BY <1>5 DEF SocketEnds
  <2>3. hub' \in [Session -> ConnId \cup {NoConn}]
        /\ grace' \in [Session -> GraceId \cup {NoGrace}]
        /\ timers' \in [GraceId -> Session \cup {NoSession}]
    BY <1>1, <2>1, <2>2 DEF IInv, OtherTypes
  <2>4. GraceWatched'
    <3> SUFFICES ASSUME NEW r \in Session, grace'[r] # NoGrace
                 PROVE  timers'[grace'[r]] = r /\ hub'[r] = NoConn
      BY DEF GraceWatched
    <3>1. CASE r = s
      BY <1>1, <2>1, <2>2, <3>1 DEF IInv, OtherTypes
    <3>2. CASE r # s
      <4>1. grace'[r] = grace[r] /\ grace[r] # d /\ grace[r] \in GraceId
            /\ hub'[r] = hub[r]
        BY <1>1, <2>1, <2>2, <3>2 DEF IInv, OtherTypes
      <4>2. timers'[grace[r]] = timers[grace[r]]
        BY <2>2, <4>1 DEF IInv, OtherTypes
      <4>3. QED
        BY <4>1, <4>2 DEF IInv, GraceWatched
    <3>3. QED
      BY <3>1, <3>2
  <2>5. Consistent(groups', sessionGroup') /\ told' \in [Session -> Told]
    <3>1. CASE InGroup(s)
      <4> DEFINE g == Disconnect(MyGroup(s), s)
                 t == Broadcast(told, Online, Resolve(g), StateIf(Resolves(g)))
      <4>1. groups' = [groups EXCEPT ![sessionGroup[s]] = Resolve(g)]
            /\ told' = [t EXCEPT ![s] = Blank]
        BY <1>5, <3>1 DEF SocketEnds
      <4>2. GroupInv(g) /\ g.members = MyGroup(s).members
        BY <1>1, <3>1, MyGroupFacts, DisconnectInv DEF IInv
      <4> HIDE DEF g
      <4>3. GroupInv(Resolve(g)) /\ Resolve(g).members = MyGroup(s).members
        BY <4>2, ResolveInv
      <4>4. t \in [Session -> Told]
        BY <4>3, BroadcastType DEF IInv, OtherTypes
      <4> HIDE DEF t
      <4>5. Consistent([groups EXCEPT ![sessionGroup[s]] = Resolve(g)], sessionGroup)
        <5>1. sessionGroup[s] \in DOMAIN groups
          BY <1>1, <3>1, MyGroupFacts DEF IInv
        <5>2. QED
          BY <4>3, <5>1, ConsistentUpdate DEF IInv, MyGroup
      <4>6. QED
        BY <1>3, <4>1, <4>4, <4>5, BlankType
    <3>2. CASE ~InGroup(s)
      <4>1. groups' = groups /\ told' = [told EXCEPT ![s] = Blank]
        BY <1>5, <3>2 DEF SocketEnds
      <4>2. QED
        BY <1>3, <4>1, BlankType DEF IInv, OtherTypes
    <3>3. QED
      BY <3>1, <3>2
  <2>6. QED
    BY <1>2, <1>3, <2>3, <2>4, <2>5 DEF IInv, OtherTypes
<1>6. QED
  BY <1>4, <1>5

LEMMA TimerFiresStep ==
  ASSUME IInv, NEW d \in GraceId, TimerFires(d)
  PROVE  IInv'
<1> DEFINE s == timers[d]
<1>1. s \in Session
  BY DEF IInv, OtherTypes, TimerFires
<1>2. timers' = [timers EXCEPT ![d] = NoSession]
      /\ timers' \in [GraceId -> Session \cup {NoSession}]
  BY DEF IInv, OtherTypes, TimerFires
<1>3. UNCHANGED <<hub, tasks, entries, ending, req>>
  BY DEF TimerFires
<1>4. CASE StillGone(s, d)
  <2>1. Leave(s, Online)
    BY <1>4 DEF TimerFires
  <2>2. /\ Consistent(groups', sessionGroup')
        /\ grace' \in [Session -> GraceId \cup {NoGrace}]
        /\ grace' = [grace EXCEPT ![s] = NoGrace]
        /\ told' \in [Session -> Told]
        /\ unchecked' \in SUBSET GroupId
    BY <1>1, <2>1, LeaveStep
  <2>3. GraceWatched'
    <3> SUFFICES ASSUME NEW r \in Session, grace'[r] # NoGrace
                 PROVE  timers'[grace'[r]] = r /\ hub'[r] = NoConn
      BY DEF GraceWatched
    <3>1. r # s /\ grace'[r] = grace[r]
      BY <1>1, <2>2 DEF IInv, OtherTypes
    <3>2. timers[grace[r]] = r /\ hub[r] = NoConn /\ grace[r] # d
      BY <3>1 DEF IInv, GraceWatched
    <3>3. QED
      BY <1>2, <1>3, <3>1, <3>2 DEF IInv, OtherTypes
  <2>4. QED
    BY <1>2, <1>3, <2>2, <2>3 DEF IInv, OtherTypes
<1>5. CASE ~StillGone(s, d)
  <2>1. UNCHANGED <<groups, sessionGroup, grace, told, unchecked>>
    BY <1>5 DEF TimerFires
  <2>2. GraceWatched'
    <3> SUFFICES ASSUME NEW r \in Session, grace'[r] # NoGrace
                 PROVE  timers'[grace'[r]] = r /\ hub'[r] = NoConn
      BY DEF GraceWatched
    <3>1. timers[grace[r]] = r /\ hub[r] = NoConn
      BY <2>1 DEF IInv, GraceWatched
    <3>2. grace[r] # d
      BY <1>5, <3>1 DEF StillGone
    <3>3. QED
      BY <1>2, <1>3, <2>1, <3>1, <3>2 DEF IInv, OtherTypes
  <2>3. QED
    BY <1>2, <1>3, <2>1, <2>2 DEF IInv, OtherTypes
<1>6. QED
  BY <1>4, <1>5

LEMMA EndSessionStep ==
  ASSUME IInv, NEW s \in Session, EndSession(s), UNCHANGED <<tasks, timers, entries, req>>,
         ending' \in [Session -> {"no", "logout", "revoke"}]
  PROVE  IInv'
<1>1. Leave(s, Online \ {s}) /\ hub' = [hub EXCEPT ![s] = NoConn]
  BY DEF EndSession
<1>2. /\ Consistent(groups', sessionGroup')
      /\ grace' \in [Session -> GraceId \cup {NoGrace}]
      /\ grace' = [grace EXCEPT ![s] = NoGrace]
      /\ told' \in [Session -> Told]
      /\ unchecked' \in SUBSET GroupId
  BY <1>1, LeaveStep
<1>3. hub' \in [Session -> ConnId \cup {NoConn}]
  BY <1>1 DEF IInv, OtherTypes
<1>4. GraceWatched'
  <2>1. timers' = timers /\ GraceWatched
        /\ \A r \in Session : grace'[r] = NoGrace \/ (grace'[r] = grace[r] /\ hub'[r] = hub[r])
    BY <1>1, <1>2 DEF IInv, OtherTypes
  <2>2. QED
    BY <2>1, GraceKept
<1>5. QED
  BY <1>2, <1>3, <1>4 DEF IInv, OtherTypes

LEMMA RemoveEntryStep ==
  ASSUME IInv, NEW s \in Session, RemoveEntry(s), told' = [told EXCEPT ![s] = Blank],
         UNCHANGED <<groups, sessionGroup, tasks, grace, timers, req, unchecked>>,
         ending' \in [Session -> {"no", "logout", "revoke"}]
  PROVE  IInv'
<1>1. hub' = [hub EXCEPT ![s] = NoConn] /\ hub' \in [Session -> ConnId \cup {NoConn}]
      /\ entries' \in SUBSET Session
  BY DEF IInv, OtherTypes, RemoveEntry
<1>2. told' \in [Session -> Told]
  BY BlankType DEF IInv, OtherTypes
<1>3. GraceWatched'
  <2>1. \A r \in Session : grace'[r] = grace[r] /\ hub'[r] \in {hub[r], NoConn}
    BY <1>1 DEF IInv, OtherTypes
  <2>2. QED
    BY <2>1, GraceKept DEF IInv
<1>4. QED
  BY <1>1, <1>2, <1>3 DEF IInv, OtherTypes

LEMMA SessionEndSteps ==
  ASSUME IInv, SessionEndStep
  PROVE  IInv'
<1>1. PICK s \in Session : Logout(s) \/ FinishLogout(s) \/ Revoke(s) \/ FinishRevoke(s)
  BY DEF SessionEndStep
<1>2. ending' \in [Session -> {"no", "logout", "revoke"}]
  BY <1>1 DEF IInv, OtherTypes, Logout, FinishLogout, Revoke, FinishRevoke
<1>3. CASE Logout(s)
  BY <1>2, <1>3, EndSessionStep DEF Logout
<1>4. CASE FinishLogout(s)
  BY <1>2, <1>4, RemoveEntryStep DEF FinishLogout
<1>5. CASE Revoke(s)
  BY <1>2, <1>5, RemoveEntryStep DEF Revoke
<1>6. CASE FinishRevoke(s)
  BY <1>2, <1>6, EndSessionStep DEF FinishRevoke
<1>7. QED
  BY <1>1, <1>3, <1>4, <1>5, <1>6

---------------------------------------------------------------------------
(* Every step keeps IInv: memberships                                      *)

LEMMA CreateGroupStep ==
  ASSUME IInv, NEW s \in Session, NEW id \in GroupId, CreateGroup(s, id)
  PROVE  IInv'
<1> DEFINE rest == GroupsWithout(s)
           sh == [sessionGroup EXCEPT ![s] = NoGroup]
           t == ToldWithout(s, Online)
<1>1. Consistent(rest, sh) /\ DOMAIN rest \subseteq DOMAIN groups
  BY LeaveConsistent DEF IInv
<1>2. sh[s] = NoGroup /\ [sh EXCEPT ![s] = id] = [sessionGroup EXCEPT ![s] = id]
  BY DEF IInv, Consistent
<1>3. /\ groups' = [x \in DOMAIN rest \cup {id} |-> IF x = id THEN NewGroup(s) ELSE rest[x]]
      /\ sessionGroup' = [sh EXCEPT ![s] = id]
      /\ told' = [t EXCEPT ![s] = Snapshot(id, NewGroup(s))]
      /\ unchecked' = unchecked \cap DOMAIN rest
      /\ grace' = [grace EXCEPT ![s] = NoGrace]
      /\ UNCHANGED <<hub, tasks, timers, entries, ending, req>>
  BY <1>2 DEF CreateGroup
<1>4. id \notin DOMAIN rest
  BY <1>1 DEF CreateGroup, FreshGroup
<1>5. t \in [Session -> Told]
  BY ToldWithoutType DEF IInv, OtherTypes
<1> HIDE DEF rest, sh, t
<1>6. GroupInv(NewGroup(s))
      /\ NewGroup(s).members = (IF id \in DOMAIN rest THEN rest[id].members ELSE {}) \cup {s}
  BY <1>4, NewGroupInv
<1>7. Consistent(groups', sessionGroup')
  <2> DEFINE hs == [x \in DOMAIN rest \cup {id} |-> IF x = id THEN NewGroup(s) ELSE rest[x]]
  <2>1. sh[s] = NoGroup
    BY <1>2
  <2>2. Consistent(hs, [sh EXCEPT ![s] = id])
    BY <1>1, <1>6, <2>1, ConsistentAdd
  <2>3. groups' = hs
    BY <1>3
  <2> HIDE DEF hs
  <2>4. QED
    BY <1>3, <2>2, <2>3
<1>8. told' \in [Session -> Told]
  BY <1>3, <1>5, <1>6, SnapshotType
<1>9. GraceWatched'
  <2>1. \A r \in Session : grace'[r] = NoGrace \/ (grace'[r] = grace[r] /\ hub'[r] = hub[r])
    BY <1>3 DEF IInv, OtherTypes
  <2>2. QED
    BY <1>3, <2>1, GraceKept DEF IInv
<1>10. grace' \in [Session -> GraceId \cup {NoGrace}] /\ unchecked' \in SUBSET GroupId
  BY <1>3 DEF IInv, OtherTypes
<1>11. QED
  BY <1>3, <1>7, <1>8, <1>9, <1>10 DEF IInv, OtherTypes

\* A request is recorded or forgotten, and nothing else.
LEMMA RequestStep ==
  ASSUME IInv, NEW s \in Session, NEW r \in Request, req' = [req EXCEPT ![s] = r],
         UNCHANGED <<groups, sessionGroup, hub, tasks, grace, timers, entries, ending,
                     told, unchecked>>
  PROVE  IInv'
BY DEF IInv, OtherTypes, GraceWatched

LEMMA NoReqType == NoReq \in Request
BY DEF Request

LEMMA CheckJoinStep ==
  ASSUME IInv, NEW s \in Session, NEW id \in GroupId, CheckJoin(s, id)
  PROVE  IInv'
<1> DEFINE r == [op |-> "join", group |-> id, expected |-> QueueItemIds(groups[id])]
<1>1. GroupInv(groups[id])
  BY DEF CheckJoin, IInv, Consistent
<1>2. r \in Request
  BY <1>1, QueueItemIdsType DEF Request
<1>3. req' = [req EXCEPT ![s] = r]
  BY DEF CheckJoin
<1> HIDE DEF r
<1>4. QED
  BY <1>2, <1>3, RequestStep DEF CheckJoin

LEMMA JoinGroupStep ==
  ASSUME IInv, NEW s \in Session, JoinGroup(s)
  PROVE  IInv'
<1> DEFINE id == req[s].group
           rest == GroupsWithout(s)
           sh == [sessionGroup EXCEPT ![s] = NoGroup]
           left == ToldWithout(s, Online)
<1>1. UNCHANGED <<hub, tasks, timers, entries, ending>> /\ req' = [req EXCEPT ![s] = NoReq]
  BY DEF JoinGroup
<1>2. req' \in [Session -> Request]
  BY <1>1, NoReqType DEF IInv, OtherTypes
<1>3. id \in GroupId
  BY RequestFacts DEF IInv, OtherTypes, JoinGroup
<1>4. CASE id \notin DOMAIN rest \/ QueueItemIds(rest[id]) # req[s].expected
  <2>1. Leave(s, Online)
    BY <1>4 DEF JoinGroup
  <2>2. /\ Consistent(groups', sessionGroup')
        /\ grace' \in [Session -> GraceId \cup {NoGrace}]
        /\ grace' = [grace EXCEPT ![s] = NoGrace]
        /\ told' \in [Session -> Told]
        /\ unchecked' \in SUBSET GroupId
    BY <2>1, LeaveStep
  <2>3. GraceWatched'
    <3>1. \A r \in Session : grace'[r] = NoGrace \/ (grace'[r] = grace[r] /\ hub'[r] = hub[r])
      BY <1>1, <2>2 DEF IInv, OtherTypes
    <3>2. QED
      BY <1>1, <3>1, GraceKept DEF IInv
  <2>4. QED
    BY <1>1, <1>2, <2>2, <2>3 DEF IInv, OtherTypes
<1>5. CASE ~(id \notin DOMAIN rest \/ QueueItemIds(rest[id]) # req[s].expected)
  <2>1. PICK p \in JoinPositions(s, id) :
          LET g == AddMember(rest[id], s, p)
          IN  /\ groups' = [rest EXCEPT ![id] = g]
              /\ told' = [Broadcast(left, Online, g, StateIf(g.state = "Waiting"))
                            EXCEPT ![s] = Snapshot(id, g)]
    BY <1>5 DEF JoinGroup
  <2> DEFINE g == AddMember(rest[id], s, p)
             t == Broadcast(left, Online, g, StateIf(g.state = "Waiting"))
  <2>2. /\ groups' = [rest EXCEPT ![id] = g]
        /\ told' = [t EXCEPT ![s] = Snapshot(id, g)]
        /\ sessionGroup' = [sessionGroup EXCEPT ![s] = id]
        /\ grace' = [grace EXCEPT ![s] = NoGrace]
        /\ unchecked' = unchecked \cap DOMAIN rest
    BY <1>5, <2>1 DEF JoinGroup
  <2>3. Consistent(rest, sh) /\ sh[s] = NoGroup
        /\ [sh EXCEPT ![s] = id] = [sessionGroup EXCEPT ![s] = id]
    BY LeaveConsistent DEF IInv, Consistent
  <2>4. id \in DOMAIN rest /\ GroupInv(rest[id])
    BY <1>5, <2>3 DEF Consistent
  <2>5. p \in Nat
    <3>1. rest[id].pos \in Nat /\ Estimated(rest[id]) \subseteq Nat
      BY <2>4, EstimatedNat DEF GroupInv, GroupShape, Group
    <3>2. QED
      BY <3>1 DEF JoinPositions
  <2>6. left \in [Session -> Told]
    BY ToldWithoutType DEF IInv, OtherTypes
  <2> HIDE DEF left, sh
  <2>7. GroupInv(g) /\ g.members = rest[id].members \cup {s}
    BY <2>4, <2>5, AddMemberInv
  <2> HIDE DEF g
  <2>8. t \in [Session -> Told] /\ Snapshot(id, g) \in Told
    BY <1>3, <2>6, <2>7, BroadcastType, SnapshotType
  <2> HIDE DEF t, rest, id
  <2>9. Consistent(groups', sessionGroup')
    <3> DEFINE hs == [x \in DOMAIN rest \cup {id} |-> IF x = id THEN g ELSE rest[x]]
    <3>1. hs = [rest EXCEPT ![id] = g]
      <4>1. rest = [x \in DOMAIN rest |-> rest[x]] /\ DOMAIN rest \cup {id} = DOMAIN rest
        BY <2>3, <2>4 DEF Consistent
      <4>2. QED
        BY <4>1
    <3>2. Consistent(hs, [sh EXCEPT ![s] = id])
      <4>1. g.members = (IF id \in DOMAIN rest THEN rest[id].members ELSE {}) \cup {s}
        BY <2>4, <2>7
      <4>2. QED
        BY <1>3, <2>3, <2>7, <4>1, ConsistentAdd
    <3> HIDE DEF hs
    <3>3. QED
      BY <2>2, <2>3, <3>1, <3>2
  <2>10. told' \in [Session -> Told]
    BY <2>2, <2>8
  <2>11. GraceWatched'
    <3>1. \A r \in Session : grace'[r] = NoGrace \/ (grace'[r] = grace[r] /\ hub'[r] = hub[r])
      BY <1>1, <2>2 DEF IInv, OtherTypes
    <3>2. QED
      BY <1>1, <3>1, GraceKept DEF IInv
  <2>12. grace' \in [Session -> GraceId \cup {NoGrace}] /\ unchecked' \in SUBSET GroupId
    BY <2>2 DEF IInv, OtherTypes
  <2>13. QED
    BY <1>1, <1>2, <2>9, <2>10, <2>11, <2>12 DEF IInv, OtherTypes
<1>6. QED
  BY <1>4, <1>5

LEMMA LeaveGroupStep ==
  ASSUME IInv, NEW s \in Session, LeaveGroup(s)
  PROVE  IInv'
<1>1. Leave(s, Online) /\ UNCHANGED <<hub, tasks, timers, entries, ending, req>>
  BY DEF LeaveGroup
<1>2. /\ Consistent(groups', sessionGroup')
      /\ grace' \in [Session -> GraceId \cup {NoGrace}]
      /\ grace' = [grace EXCEPT ![s] = NoGrace]
      /\ told' \in [Session -> Told]
      /\ unchecked' \in SUBSET GroupId
  BY <1>1, LeaveStep
<1>3. GraceWatched'
  <2>1. \A r \in Session : grace'[r] = NoGrace \/ (grace'[r] = grace[r] /\ hub'[r] = hub[r])
    BY <1>1, <1>2 DEF IInv, OtherTypes
  <2>2. QED
    BY <1>1, <2>1, GraceKept DEF IInv
<1>4. QED
  BY <1>1, <1>2, <1>3 DEF IInv, OtherTypes

LEMMA MembershipSteps ==
  ASSUME IInv, MembershipStep
  PROVE  IInv'
<1>1. PICK s \in Session :
        \/ \E id \in GroupId : CreateGroup(s, id) \/ CheckJoin(s, id)
        \/ JoinGroup(s)
        \/ AbandonRequest(s)
        \/ LeaveGroup(s)
  BY DEF MembershipStep
<1>2. CASE \E id \in GroupId : CreateGroup(s, id) \/ CheckJoin(s, id)
  BY <1>2, CreateGroupStep, CheckJoinStep
<1>3. CASE JoinGroup(s)
  BY <1>3, JoinGroupStep
<1>4. CASE AbandonRequest(s)
  BY <1>4, NoReqType, RequestStep DEF AbandonRequest
<1>5. CASE LeaveGroup(s)
  BY <1>5, LeaveGroupStep
<1>6. QED
  BY <1>1, <1>2, <1>3, <1>4, <1>5

---------------------------------------------------------------------------
(* Every step keeps IInv: playback                                         *)

LEMMA UpdateStep ==
  ASSUME IInv, NEW s \in Session, InGroup(s), NEW g, GroupInv(g),
         g.members = MyGroup(s).members, NEW parts, Update(s, g, parts),
         req' \in [Session -> Request], unchecked' \in SUBSET GroupId
  PROVE  IInv'
<1>1. UNCHANGED <<sessionGroup, hub, tasks, grace, timers, entries, ending>>
      /\ groups' = [groups EXCEPT ![sessionGroup[s]] = g]
  BY DEF Update
<1>2. told' \in [Session -> Told]
  BY BroadcastType DEF Update, IInv, OtherTypes
<1>3. Consistent([groups EXCEPT ![sessionGroup[s]] = g], sessionGroup)
  <2>1. sessionGroup[s] \in DOMAIN groups
    BY MyGroupFacts DEF IInv
  <2>2. QED
    BY <2>1, ConsistentUpdate DEF IInv, MyGroup
<1>4. GraceWatched'
  BY <1>1 DEF IInv, GraceWatched
<1>5. Consistent(groups', sessionGroup')
  BY <1>1, <1>3
<1>6. QED
  BY <1>1, <1>2, <1>4, <1>5 DEF IInv, OtherTypes

LEMMA PlaybackStep ==
  ASSUME IInv, NEW s \in Session, InGroup(s), NEW g, GroupInv(g),
         g.members = MyGroup(s).members, NEW parts, Playback(s, g, parts)
  PROVE  IInv'
<1>1. Update(s, g, parts) /\ req' = req /\ unchecked' = unchecked
  BY DEF Playback
<1>2. QED
  BY <1>1, UpdateStep DEF IInv, OtherTypes

LEMMA QueueSteps ==
  ASSUME IInv, QueueStep
  PROVE  IInv'
<1>1. PICK s \in Session :
        \/ \E op \in {"set", "queue"}, items \in Payloads : CheckQueue(s, op, items)
        \/ \E at \in 0..MaxQueue, t \in Ticks : SetNewQueue(s, at, t)
        \/ \E next \in BOOLEAN : QueueItems(s, next)
  BY DEF QueueStep
<1>2. ASSUME NEW op \in {"set", "queue"}, NEW items \in Payloads, CheckQueue(s, op, items)
      PROVE  IInv'
  <2> DEFINE r == [op |-> op, items |-> items, checked |-> InGroup(s),
                   expected |-> IF InGroup(s) THEN MyGroup(s).members ELSE {}]
  <2>1. req' = [req EXCEPT ![s] = r]
    BY <1>2 DEF CheckQueue
  <2>2. InGroup(s) => MyGroup(s).members \in SUBSET Session
    BY MyGroupFacts DEF IInv, GroupInv, GroupShape, Group
  <2>3. r \in Request
    BY <2>2 DEF Request, InGroup
  <2> HIDE DEF r
  <2>4. QED
    BY <1>2, <2>1, <2>3, RequestStep DEF CheckQueue
<1>3. ASSUME NEW at \in 0..MaxQueue, NEW t \in Ticks, SetNewQueue(s, at, t)
      PROVE  IInv'
  <2>1. PICK ids \in FreshIds(MyGroup(s).queue, Len(req[s].items)) :
          Update(s, SetQueue(MyGroup(s), Entries(req[s].items, ids), at, t), {"queue", "state"})
    BY <1>3 DEF SetNewQueue
  <2>2. InGroup(s) /\ req[s].items \in Seq(Item) /\ req' \in [Session -> Request]
    BY <1>3, RequestFacts, NoReqType DEF SetNewQueue, IInv, OtherTypes
  <2>3. unchecked' \in SUBSET GroupId
    BY <1>3, <2>2, MyGroupFacts DEF SetNewQueue, IInv, OtherTypes
  <2>4. Entries(req[s].items, ids) \in Seq(Entry)
    BY <2>2, EntriesType
  <2> DEFINE g == SetQueue(MyGroup(s), Entries(req[s].items, ids), at, t)
  <2>5. GroupInv(g) /\ g.members = MyGroup(s).members
    <3>1. at \in Nat /\ t \in Int
      BY TicksAssumption, MaxQueueAssumption
    <3>2. GroupInv(MyGroup(s))
      BY <2>2, MyGroupFacts DEF IInv
    <3>3. QED
      BY <2>4, <3>1, <3>2, SetQueueInv
  <2> HIDE DEF g
  <2>6. Update(s, g, {"queue", "state"})
    BY <2>1 DEF g
  <2>7. QED
    BY <2>2, <2>3, <2>5, <2>6, UpdateStep
<1>4. ASSUME NEW next \in BOOLEAN, QueueItems(s, next)
      PROVE  IInv'
  <2>1. PICK ids \in FreshIds(MyGroup(s).queue, Len(req[s].items)) :
          Update(s, AddEntries(MyGroup(s), Entries(req[s].items, ids), next), {"queue"})
    BY <1>4 DEF QueueItems
  <2>2. InGroup(s) /\ req[s].items \in Seq(Item) /\ req' \in [Session -> Request]
    BY <1>4, RequestFacts, NoReqType DEF QueueItems, IInv, OtherTypes
  <2>3. unchecked' \in SUBSET GroupId
    BY <1>4, <2>2, MyGroupFacts DEF QueueItems, IInv, OtherTypes
  <2>4. Entries(req[s].items, ids) \in Seq(Entry)
    BY <2>2, EntriesType
  <2> DEFINE g == AddEntries(MyGroup(s), Entries(req[s].items, ids), next)
  <2>5. GroupInv(g) /\ g.members = MyGroup(s).members
    BY <2>2, <2>4, MyGroupFacts, AddEntriesInv DEF IInv
  <2> HIDE DEF g
  <2>6. Update(s, g, {"queue"})
    BY <2>1 DEF g
  <2>7. QED
    BY <2>2, <2>3, <2>5, <2>6, UpdateStep
<1>5. QED
  BY <1>1, <1>2, <1>3, <1>4

LEMMA EditSteps ==
  ASSUME IInv, EditStep
  PROVE  IInv'
<1>1. PICK s \in Session :
        /\ InGroup(s)
        /\ \/ ClearPlaylist(s)
           \/ \E ids \in SUBSET EntryId, b \in BOOLEAN : RemoveFromPlaylist(s, ids, b)
           \/ \E id \in EntryId :
                \/ SetPlaylistItem(s, id)
                \/ \E to \in 0..MaxQueue : MovePlaylistItem(s, id, to)
                \/ \E step \in {-1, 1} : ChangeItem(s, id, step)
                \/ CorrectPlaylist(s, id)
  BY DEF EditStep
<1> DEFINE g == MyGroup(s)
<1>2. GroupInv(g) /\ g.queue \in Seq(Entry)
  BY <1>1, MyGroupFacts DEF IInv
<1>3. CASE ClearPlaylist(s)
  BY <1>1, <1>2, <1>3, ClearQueueInv, PlaybackStep DEF ClearPlaylist
<1>4. ASSUME NEW ids \in SUBSET EntryId, NEW b \in BOOLEAN, RemoveFromPlaylist(s, ids, b)
      PROVE  IInv'
  BY <1>1, <1>2, <1>4, RemoveEntriesInv, PlaybackStep DEF RemoveFromPlaylist
<1>5. ASSUME NEW id \in EntryId, SetPlaylistItem(s, id)
      PROVE  IInv'
  <2>1. PositionOf(g.queue, id) \in 1..Len(g.queue)
    BY <1>2, <1>5, PositionOfRange DEF SetPlaylistItem
  <2>2. QED
    BY <1>1, <1>2, <1>5, <2>1, StartEntryInv, PlaybackStep DEF SetPlaylistItem
<1>6. ASSUME NEW id \in EntryId, NEW to \in 0..MaxQueue, MovePlaylistItem(s, id, to)
      PROVE  IInv'
  <2>1. PositionOf(g.queue, id) \in 1..Len(g.queue) /\ to \in Nat
    BY <1>2, <1>6, PositionOfRange, MaxQueueAssumption DEF MovePlaylistItem
  <2>2. QED
    BY <1>1, <1>2, <1>6, <2>1, MoveEntryInv, PlaybackStep DEF MovePlaylistItem
<1>7. ASSUME NEW id \in EntryId, NEW step \in {-1, 1}, ChangeItem(s, id, step)
      PROVE  IInv'
  BY <1>1, <1>2, <1>7, NavigateInv, PlaybackStep DEF ChangeItem
<1>8. ASSUME NEW id \in EntryId, CorrectPlaylist(s, id)
      PROVE  IInv'
  <2>1. /\ told' = [told EXCEPT ![s].queue = g.queue, ![s].index = g.index]
        /\ UNCHANGED <<groups, sessionGroup, hub, tasks, grace, timers, entries, ending,
                       req, unchecked>>
    BY <1>8 DEF CorrectPlaylist
  <2>2. g.index \in Nat
    BY <1>2 DEF GroupInv, GroupShape, Group
  <2>3. told' \in [Session -> Told]
    BY ZenonT(40), <1>2, <2>1, <2>2 DEF IInv, OtherTypes, Told
  <2>4. QED
    BY <2>1, <2>3 DEF IInv, OtherTypes, GraceWatched
<1>9. QED
  BY <1>1, <1>3, <1>4, <1>5, <1>6, <1>7, <1>8

LEMMA ControlSteps ==
  ASSUME IInv, ControlStep
  PROVE  IInv'
<1>1. PICK s \in Session :
        InGroup(s) /\ (Unpause(s) \/ Pause(s) \/ Stop(s) \/ \E t \in Ticks : Seek(s, t))
  BY DEF ControlStep
<1> DEFINE g == MyGroup(s)
<1>2. GroupInv(g)
  BY <1>1, MyGroupFacts DEF IInv
<1>3. CASE Unpause(s)
  BY <1>1, <1>2, <1>3, SetUnpausedInv, PlaybackStep DEF Unpause
<1>4. CASE Pause(s)
  <2>1. PICK p \in Estimated(g) : Playback(s, SetPaused(g, p), {"state"})
    BY <1>4 DEF Pause
  <2>2. QED
    BY <1>1, <1>2, <2>1, EstimatedNat, SetPausedInv, PlaybackStep
<1>5. CASE Stop(s)
  BY <1>1, <1>2, <1>5, StoppedInv, PlaybackStep DEF Stop, GroupInv
<1>6. ASSUME NEW t \in Ticks, Seek(s, t)
      PROVE  IInv'
  BY <1>1, <1>2, <1>6, TicksAssumption, SeekToInv, PlaybackStep DEF Seek
<1>7. QED
  BY <1>1, <1>3, <1>4, <1>5, <1>6

LEMMA ReportSteps ==
  ASSUME IInv, ReportStep
  PROVE  IInv'
<1>1. PICK s \in Session :
        /\ InGroup(s)
        /\ \/ \E t \in Ticks : Ready(s, t) \/ \E b \in BOOLEAN : Buffering(s, t, b)
           \/ \E b \in BOOLEAN : SetIgnoreWait(s, b)
  BY DEF ReportStep
<1> DEFINE g == MyGroup(s)
<1>2. GroupInv(g) /\ s \in g.members
  BY <1>1, MyGroupFacts DEF IInv
<1>3. ASSUME NEW h, GroupInv(h), h.members = g.members, ResolvingPlayback(s, h)
      PROVE  IInv'
  <2>1. GroupInv(Resolve(h)) /\ Resolve(h).members = g.members
    BY <1>3, ResolveInv
  <2>2. QED
    BY <1>1, <1>3, <2>1, PlaybackStep DEF ResolvingPlayback
<1>4. ASSUME NEW t \in Ticks, Ready(s, t)
      PROVE  IInv'
  BY <1>2, <1>3, <1>4, TicksAssumption, ReportReadyInv DEF Ready
<1>5. ASSUME NEW t \in Ticks, NEW b \in BOOLEAN, Buffering(s, t, b)
      PROVE  IInv'
  <2>1. PICK p \in Estimated(g) : Playback(s, ReportBuffering(g, s, t, b, p), {"state"})
    BY <1>5 DEF Buffering
  <2>2. p \in Nat /\ t \in Int
    BY <1>2, EstimatedNat, TicksAssumption
  <2>3. QED
    BY <1>1, <1>2, <2>1, <2>2, ReportBufferingInv, PlaybackStep
<1>6. ASSUME NEW b \in BOOLEAN, SetIgnoreWait(s, b)
      PROVE  IInv'
  BY <1>2, <1>3, <1>6, SetIgnoringInv DEF SetIgnoreWait
<1>7. QED
  BY <1>1, <1>4, <1>5, <1>6

---------------------------------------------------------------------------
(* The invariant                                                           *)

LEMMA InitIInv ==
  ASSUME Init
  PROVE  IInv
<1>1. Consistent(groups, sessionGroup)
  BY DEF Init, Consistent
<1>2. OtherTypes
  BY BlankType, NoReqType DEF Init, OtherTypes
<1>3. GraceWatched
  BY DEF Init, GraceWatched
<1>4. QED
  BY <1>1, <1>2, <1>3 DEF IInv

LEMMA NextIInv ==
  ASSUME IInv, [Next]_vars
  PROVE  IInv'
<1>1. CASE SocketStep
  BY <1>1, RegisterStep, SocketEndsStep, TimerFiresStep DEF SocketStep
<1>2. CASE SessionEndStep
  BY <1>2, SessionEndSteps
<1>3. CASE MembershipStep
  BY <1>3, MembershipSteps
<1>4. CASE QueueStep
  BY <1>4, QueueSteps
<1>5. CASE EditStep
  BY <1>5, EditSteps
<1>6. CASE ControlStep
  BY <1>6, ControlSteps
<1>7. CASE ReportStep
  BY <1>7, ReportSteps
<1>8. CASE UNCHANGED vars
  BY <1>8 DEF vars, IInv, OtherTypes, GraceWatched
<1>9. QED
  BY <1>1, <1>2, <1>3, <1>4, <1>5, <1>6, <1>7, <1>8 DEF Next

\* The invariant holds in every reachable state of the coordinator.
THEOREM Invariance == Spec => []IInv
<1>1. Init => IInv
  BY InitIInv
<1>2. IInv /\ [Next]_vars => IInv'
  BY NextIInv
<1>3. QED
  BY <1>1, <1>2, PTL DEF Spec

\* Every part of the state has its type: groups are well-formed records, no map
\* points outside the ids, and no position sent to a client is negative.
THEOREM TypeCorrect == Spec => []TypeOK
<1>1. IInv => TypeOK
  BY GroupsTyped DEF IInv, OtherTypes, Consistent, TypeOK
<1>2. QED
  BY <1>1, Invariance, PTL

\* session_to_group and the participants of the groups agree, and no group is
\* empty, whatever handlers, sockets and timers interleave.
THEOREM MembershipHolds == Spec => []Membership
<1>1. IInv => Membership
  BY DEF IInv, Consistent, Membership, InGroup
<1>2. QED
  BY <1>1, Invariance, PTL

\* The current entry is within the queue: Vec::insert at playing_item_index + 1
\* never panics, for queues of any length.
THEOREM QueueIndexHolds == Spec => []QueueIndexInBounds
<1>1. IInv => QueueIndexInBounds
  BY DEF IInv, Consistent, GroupInv, GroupShape, QueueIndexInBounds
<1>2. QED
  BY <1>1, Invariance, PTL

\* A group has a pending position exactly while it waits.
THEOREM WaitPositionHolds == Spec => []WaitHasPosition
<1>1. IInv => WaitHasPosition
  BY DEF IInv, Consistent, GroupInv, WaitShape, WaitHasPosition
<1>2. QED
  BY <1>1, Invariance, PTL

\* A disconnect in its grace has its own sleeping timer and no connection.
THEOREM GraceHolds == Spec => []GraceWatched
<1>1. IInv => GraceWatched
  BY DEF IInv
<1>2. QED
  BY <1>1, Invariance, PTL

---------------------------------------------------------------------------
(* What a step never does                                                  *)

LEMMA TimerStep ==
  ASSUME IInv, [Next]_vars, NEW d \in GraceId, timers[d] # NoSession, timers'[d] = NoSession
  PROVE  TimerFires(d)
<1>1. ~UNCHANGED timers
  OBVIOUS
<1>2. SocketStep
  BY ZenonT(40), <1>1 DEF Next, vars, SessionEndStep, MembershipStep, QueueStep, EditStep, ControlStep,
     ReportStep, Logout, FinishLogout, Revoke, FinishRevoke, CreateGroup, CheckJoin, JoinGroup,
     AbandonRequest, LeaveGroup, CheckQueue, SetNewQueue, QueueItems, Update, Playback,
     ClearPlaylist, RemoveFromPlaylist, SetPlaylistItem, MovePlaylistItem, ChangeItem,
     CorrectPlaylist, Unpause, Pause, Stop, Seek, Ready, Buffering, SetIgnoreWait,
     ResolvingPlayback
<1>3. ASSUME NEW c \in ConnId, SocketEnds(c)
      PROVE  FALSE
  <2>1. PICK e \in GraceId : timers' = [timers EXCEPT ![e] = tasks[c]]
    BY <1>1, <1>3 DEF SocketEnds
  <2>2. tasks[c] # NoSession /\ timers \in [GraceId -> Session \cup {NoSession}]
    BY <1>3 DEF SocketEnds, IInv, OtherTypes
  <2>3. QED
    BY <2>1, <2>2
<1>4. PICK e \in GraceId : TimerFires(e)
  BY <1>1, <1>2, <1>3 DEF SocketStep, Register
<1>5. timers' = [timers EXCEPT ![e] = NoSession] /\ timers \in [GraceId -> Session \cup {NoSession}]
  BY <1>4 DEF TimerFires, IInv, OtherTypes
<1>6. QED
  BY <1>4, <1>5

\* A stale grace timer evicts nobody: only the timer of the latest disconnect
\* acts, however many disconnects of a session are in their grace at once.
THEOREM LatestTimerHolds == Spec => LatestTimerEvicts
<1> DEFINE A == \A d, e \in GraceId :
                 /\ timers[d] # NoSession /\ timers'[d] = NoSession
                 /\ e # d /\ timers[e] = timers[d] /\ grace[timers[d]] = e
                 => sessionGroup' = sessionGroup
<1>1. IInv /\ [Next]_vars => [A]_vars
  <2> SUFFICES ASSUME IInv, [Next]_vars, NEW d \in GraceId, NEW e \in GraceId,
                      timers[d] # NoSession, timers'[d] = NoSession,
                      e # d, timers[e] = timers[d], grace[timers[d]] = e
               PROVE  sessionGroup' = sessionGroup
    OBVIOUS
  <2>1. TimerFires(d)
    BY TimerStep
  <2>2. ~StillGone(timers[d], d)
    BY DEF StillGone
  <2>3. QED
    BY <2>1, <2>2 DEF TimerFires
<1>2. QED
  BY <1>1, Invariance, PTL DEF Spec, LatestTimerEvicts

---------------------------------------------------------------------------
(* What a step makes of a group, as the properties below see it            *)

\* What is left of a group when s leaves its own.
LEMMA WithoutFacts ==
  ASSUME Consistent(groups, sessionGroup), NEW s \in Session,
         NEW id \in DOMAIN GroupsWithout(s)
  PROVE  LET h == GroupsWithout(s)[id]
         IN  /\ id \in DOMAIN groups
             /\ h.members = groups[id].members \ {s}
             /\ h.connected = groups[id].connected \ {s}
             /\ h.queue = groups[id].queue /\ h.index = groups[id].index
             /\ Waits(groups[id]) => Waits(h)
             /\ GoesOnAt(h) = GoesOnAt(groups[id])
             /\ id # sessionGroup[s] => h = groups[id]
             /\ id = sessionGroup[s] => InGroup(s) /\ h = Resolve(LeftBehind(s))
<1>1. id \in DOMAIN groups /\ id # NoGroup
  BY LeaveConsistent, GroupIdAssumption DEF Consistent
<1>2. CASE id # sessionGroup[s]
  <2>1. GroupsWithout(s)[id] = groups[id]
    BY <1>1, <1>2 DEF GroupsWithout
  <2>2. s \notin groups[id].members /\ groups[id].connected \subseteq groups[id].members
    BY <1>1, <1>2 DEF Consistent, GroupInv, GroupShape
  <2>3. QED
    BY <1>1, <1>2, <2>1, <2>2
<1>3. CASE id = sessionGroup[s]
  <2>1. InGroup(s) /\ MyGroup(s) = groups[id]
    BY <1>1, <1>3 DEF InGroup, MyGroup
  <2>2. GroupsWithout(s)[id] = Resolve(LeftBehind(s))
    BY <1>1, <1>3, <2>1 DEF GroupsWithout
  <2> DEFINE g == MyGroup(s)
             h == LeftBehind(s)
  <2>3. /\ GroupInv(g) /\ GroupInv(h)
        /\ Resolve(h).members = g.members \ {s}
    BY <2>1, MyGroupFacts, LeftBehindFacts
  <2>4. /\ h.connected = g.connected \ {s} /\ h.queue = g.queue /\ h.index = g.index
        /\ h.state = g.state /\ GoesOnAt(h) = GoesOnAt(g)
    BY <2>3, RemoveMemberKeeps DEF LeftBehind
  <2> HIDE DEF g, h
  <2>5. /\ Resolve(h).connected = h.connected
        /\ Resolve(h).queue = h.queue /\ Resolve(h).index = h.index
        /\ (h.state = "Waiting" => h.queue # <<>>) => Waits(Resolve(h))
        /\ GoesOnAt(Resolve(h)) = GoesOnAt(h)
    BY <2>3, ResolveKeeps
  <2>6. Waits(g) => Waits(Resolve(h))
    BY <2>4, <2>5 DEF Waits
  <2>7. QED
    BY <1>1, <1>3, <2>1, <2>2, <2>3, <2>4, <2>5, <2>6 DEF g, h
<1>4. QED
  BY <1>2, <1>3

\* The members of the group of s stay, with their connections, and are told what
\* changes; a wait of it is for somebody.
Changes(s, g, parts) ==
  /\ InGroup(s) /\ GroupInv(g) /\ g.members = MyGroup(s).members
  /\ g.connected = MyGroup(s).connected
  /\ Tells(MyGroup(s), g, parts)
  /\ ~EmptyQueueControl /\ Waits(MyGroup(s)) => Waits(g)

\* A change that queues nothing.
PlaysOn(s, g, parts) ==
  /\ Playback(s, g, parts) /\ Changes(s, g, parts)
  /\ QueuedItems(g.queue) \subseteq QueuedItems(MyGroup(s).queue)

LEMMA EditEffect ==
  ASSUME IInv, EditStep
  PROVE  \/ \E s \in Session, g \in Group, parts \in SUBSET {"queue", "state"} :
              PlaysOn(s, g, parts)
         \/ \E s \in Session, id \in EntryId : InGroup(s) /\ CorrectPlaylist(s, id)
<1>1. PICK s \in Session :
        /\ InGroup(s)
        /\ \/ ClearPlaylist(s)
           \/ \E ids \in SUBSET EntryId, b \in BOOLEAN : RemoveFromPlaylist(s, ids, b)
           \/ \E id \in EntryId :
                \/ SetPlaylistItem(s, id)
                \/ \E to \in 0..MaxQueue : MovePlaylistItem(s, id, to)
                \/ \E step \in {-1, 1} : ChangeItem(s, id, step)
                \/ CorrectPlaylist(s, id)
  BY DEF EditStep
<1> DEFINE g == MyGroup(s)
           Goal == \E r \in Session, h \in Group, parts \in SUBSET {"queue", "state"} :
                     PlaysOn(r, h, parts)
<1>2. GroupInv(g) /\ g.queue \in Seq(Entry) /\ g.members # {}
  BY <1>1, MyGroupFacts DEF IInv
<1>3. ASSUME NEW h, GroupInv(h), h.members = g.members, NEW parts \in SUBSET {"queue", "state"},
             Kept(g, h, parts), ~EmptyQueueControl /\ Waits(g) => Waits(h), Playback(s, h, parts)
      PROVE  Goal
  <2>1. h \in Group
    BY <1>3 DEF GroupInv, GroupShape
  <2>2. PlaysOn(s, h, parts)
    BY <1>1, <1>3 DEF PlaysOn, Changes, Kept
  <2>3. QED
    BY <2>1, <2>2
<1> HIDE DEF Goal
<1>4. ASSUME ClearPlaylist(s)
      PROVE  Goal
  BY <1>2, <1>3, <1>4, ClearQueueInv, ClearQueueKeeps DEF ClearPlaylist
<1>5. ASSUME NEW ids \in SUBSET EntryId, NEW b \in BOOLEAN, RemoveFromPlaylist(s, ids, b)
      PROVE  Goal
  <2> DEFINE h == RemoveEntries(g, ids, b)
             parts == {"queue"} \cup IF h.queue = <<>> THEN {"state"} ELSE {}
  <2>1. GroupInv(h) /\ h.members = g.members /\ Kept(g, h, parts) /\ (Waits(g) => Waits(h))
    BY <1>2, RemoveEntriesInv, RemoveEntriesKeeps
  <2>2. Playback(s, h, parts)
    BY <1>5 DEF RemoveFromPlaylist, StateIf
  <2>3. parts \in SUBSET {"queue", "state"}
    OBVIOUS
  <2> HIDE DEF h, parts
  <2>4. QED
    BY <1>3, <2>1, <2>2, <2>3
<1>6. ASSUME NEW id \in EntryId, SetPlaylistItem(s, id)
      PROVE  Goal
  <2>1. PositionOf(g.queue, id) \in 1..Len(g.queue)
    BY <1>2, <1>6, PositionOfRange DEF SetPlaylistItem
  <2>2. g.queue # <<>>
    BY <2>1
  <2>3. QED
    BY <1>2, <1>3, <1>6, <2>1, <2>2, StartEntryInv, StartEntryKeeps DEF SetPlaylistItem
<1>7. ASSUME NEW id \in EntryId, NEW to \in 0..MaxQueue, MovePlaylistItem(s, id, to)
      PROVE  Goal
  <2>1. PositionOf(g.queue, id) \in 1..Len(g.queue) /\ to \in Nat
    BY <1>2, <1>7, PositionOfRange, MaxQueueAssumption DEF MovePlaylistItem
  <2>2. QED
    BY <1>2, <1>3, <1>7, <2>1, MoveEntryInv, MoveEntryKeeps DEF MovePlaylistItem
<1>8. ASSUME NEW id \in EntryId, NEW step \in {-1, 1}, ChangeItem(s, id, step)
      PROVE  Goal
  BY <1>2, <1>3, <1>8, NavigateInv, NavigateKeeps DEF ChangeItem
<1>9. QED
  BY <1>1, <1>4, <1>5, <1>6, <1>7, <1>8 DEF Goal

LEMMA ControlEffect ==
  ASSUME IInv, ControlStep
  PROVE  \E s \in Session, g \in Group, parts \in SUBSET {"queue", "state"} :
           PlaysOn(s, g, parts)
<1>1. PICK s \in Session :
        InGroup(s) /\ (Unpause(s) \/ Pause(s) \/ Stop(s) \/ \E t \in Ticks : Seek(s, t))
  BY DEF ControlStep
<1> DEFINE g == MyGroup(s)
           Goal == \E r \in Session, h \in Group, parts \in SUBSET {"queue", "state"} :
                     PlaysOn(r, h, parts)
<1>2. GroupInv(g) /\ g \in Group /\ g.members # {}
  BY <1>1, MyGroupFacts DEF IInv, GroupInv, GroupShape
<1>3. ASSUME NEW h, GroupInv(h), h.members = g.members, Kept(g, h, {"state"}),
             ~EmptyQueueControl /\ Waits(g) => Waits(h), Playback(s, h, {"state"})
      PROVE  Goal
  <2>1. h \in Group
    BY <1>3 DEF GroupInv, GroupShape
  <2>2. PlaysOn(s, h, {"state"})
    BY <1>1, <1>3 DEF PlaysOn, Changes, Kept
  <2>3. QED
    BY <2>1, <2>2
<1> HIDE DEF Goal
<1>4. ASSUME Unpause(s)
      PROVE  Goal
  BY <1>2, <1>3, <1>4, SetUnpausedInv, SetUnpausedKeeps DEF Unpause
<1>5. ASSUME Pause(s)
      PROVE  Goal
  <2>1. PICK p \in Estimated(g) : Playback(s, SetPaused(g, p), {"state"})
    BY <1>5 DEF Pause
  <2>2. QED
    BY <1>2, <1>3, <2>1, EstimatedNat, SetPausedInv, SetPausedKeeps
<1>6. ASSUME Stop(s)
      PROVE  Goal
  BY <1>2, <1>3, <1>6, StoppedInv, StoppedKeeps DEF Stop, GroupInv
<1>7. ASSUME NEW t \in Ticks, Seek(s, t)
      PROVE  Goal
  BY <1>2, <1>3, <1>7, TicksAssumption, SeekToInv, SeekToKeeps DEF Seek
<1>8. QED
  BY <1>1, <1>4, <1>5, <1>6, <1>7 DEF Goal

\* A report moves no wait to another position.
LEMMA ReportEffect ==
  ASSUME IInv, ReportStep
  PROVE  \E s \in Session, g \in Group, parts \in SUBSET {"queue", "state"} :
           /\ PlaysOn(s, g, parts)
           /\ MyGroup(s).state = "Waiting" => GoesOnAt(g) = GoesOnAt(MyGroup(s))
<1>1. PICK s \in Session :
        /\ InGroup(s)
        /\ \/ \E t \in Ticks : Ready(s, t) \/ \E b \in BOOLEAN : Buffering(s, t, b)
           \/ \E b \in BOOLEAN : SetIgnoreWait(s, b)
  BY DEF ReportStep
<1> DEFINE g == MyGroup(s)
           Goal == \E r \in Session, h \in Group, parts \in SUBSET {"queue", "state"} :
                     /\ PlaysOn(r, h, parts)
                     /\ MyGroup(r).state = "Waiting" => GoesOnAt(h) = GoesOnAt(MyGroup(r))
<1>2. GroupInv(g) /\ s \in g.members
  BY <1>1, MyGroupFacts DEF IInv
<1>3. ASSUME NEW h, GroupInv(h), h.members = g.members, NEW parts \in SUBSET {"queue", "state"},
             Kept(g, h, parts), ~EmptyQueueControl /\ Waits(g) => Waits(h), Playback(s, h, parts),
             g.state = "Waiting" => GoesOnAt(h) = GoesOnAt(g)
      PROVE  Goal
  <2>1. h \in Group
    BY <1>3 DEF GroupInv, GroupShape
  <2>2. PlaysOn(s, h, parts)
    BY <1>1, <1>3 DEF PlaysOn, Changes, Kept
  <2>3. QED
    BY <1>3, <2>1, <2>2
<1> HIDE DEF Goal
<1>4. ASSUME NEW h, GroupInv(h), h.members = g.members, Kept(g, h, {}), h.queue = g.queue,
             g.state = "Waiting" => GoesOnAt(h) = GoesOnAt(g), ResolvingPlayback(s, h)
      PROVE  Goal
  <2> DEFINE k == Resolve(h)
             parts == StateIf(Resolves(h))
  <2>1. GroupInv(k) /\ k.members = g.members
    BY <1>4, ResolveInv
  <2>2. /\ k.connected = h.connected /\ k.queue = h.queue /\ k.index = h.index
        /\ ~Resolves(h) => k = h
        /\ (h.state = "Waiting" => h.queue # <<>>) => Waits(k)
        /\ GoesOnAt(k) = GoesOnAt(h)
    BY <1>4, ResolveKeeps
  <2>3. Playback(s, k, parts) /\ parts \in SUBSET {"queue", "state"}
        /\ (Resolves(h) => "state" \in parts)
    BY <1>4 DEF ResolvingPlayback, StateIf
  <2> HIDE DEF k, parts
  <2>4. Kept(g, k, parts) /\ (Waits(g) => Waits(k))
    BY <1>4, <2>2, <2>3 DEF Kept, Tells, Waits
  <2>5. QED
    BY <1>3, <1>4, <2>1, <2>2, <2>3, <2>4
<1>5. ASSUME NEW t \in Ticks, Ready(s, t)
      PROVE  Goal
  BY <1>2, <1>4, <1>5, TicksAssumption, ReportReadyInv, ReportReadyKeeps DEF Ready
<1>6. ASSUME NEW t \in Ticks, NEW b \in BOOLEAN, Buffering(s, t, b)
      PROVE  Goal
  <2>1. PICK p \in Estimated(g) : Playback(s, ReportBuffering(g, s, t, b, p), {"state"})
    BY <1>6 DEF Buffering
  <2> DEFINE h == ReportBuffering(g, s, t, b, p)
  <2>2. p \in Nat /\ t \in Int /\ (EmptyQueueControl \/ g.queue # <<>>)
    BY <1>2, <1>6, <2>1, EstimatedNat, TicksAssumption DEF Buffering
  <2>3. /\ GroupInv(h) /\ h.members = g.members /\ Kept(g, h, {"state"})
        /\ g.queue # <<>> => Waits(h)
        /\ g.state = "Waiting" => GoesOnAt(h) = GoesOnAt(g)
    BY <1>2, <2>2, ReportBufferingInv, ReportBufferingKeeps
  <2> HIDE DEF h
  <2>4. Playback(s, h, {"state"})
    BY <2>1 DEF h
  <2>5. QED
    BY <1>3, <2>2, <2>3, <2>4
<1>7. ASSUME NEW b \in BOOLEAN, SetIgnoreWait(s, b)
      PROVE  Goal
  BY <1>2, <1>4, <1>7, SetIgnoringInv, SetIgnoringKeeps DEF SetIgnoreWait
<1>8. QED
  BY <1>1, <1>5, <1>6, <1>7 DEF Goal

---------------------------------------------------------------------------
(* What a client has been told, and that its session is attended           *)

\* With the index within the queue, a snapshot is of the index as it stands.
LEMMA SnapshotIs ==
  ASSUME NEW g, GroupInv(g), NEW id
  PROVE  /\ Snapshot(id, g) = [group |-> id, state |-> g.state, queue |-> g.queue,
                               index |-> g.index]
         /\ (IF HasCurrent(g) THEN g.index ELSE 0) = g.index
BY NoCurrent DEF Snapshot

\* A broadcast reaches the members in the hub.
LEMMA BroadcastOthers ==
  ASSUME NEW t, NEW online, NEW g, NEW parts, NEW r \in Session, r \notin g.members \cap online
  PROVE  Broadcast(t, online, g, parts)[r] = t[r]
BY DEF Broadcast

\* A member that knew its group as h knows it as g after a broadcast of what has changed.
LEMMA BroadcastTells ==
  ASSUME NEW t \in [Session -> Told], NEW online, NEW g, GroupInv(g), NEW parts,
         NEW r \in g.members \cap online, r \in Session, NEW h, GroupInv(h), NEW id,
         t[r] = Snapshot(id, h), Tells(h, g, parts)
  PROVE  Broadcast(t, online, g, parts)[r] = Snapshot(id, g)
<1> DEFINE u == Broadcast(t, online, g, parts)
<1>1. t[r] = [group |-> id, state |-> h.state, queue |-> h.queue, index |-> h.index]
  BY SnapshotIs
<1>2. u[r] = [t[r] EXCEPT
           !.state = IF "state" \in parts THEN g.state ELSE t[r].state,
           !.queue = IF "queue" \in parts THEN g.queue ELSE t[r].queue,
           !.index = IF "queue" \in parts THEN g.index ELSE t[r].index]
  <2> DEFINE current == IF HasCurrent(g) THEN g.index ELSE 0
  <2>1. u[r] = [t[r] EXCEPT
           !.state = IF "state" \in parts THEN g.state ELSE t[r].state,
           !.queue = IF "queue" \in parts THEN g.queue ELSE t[r].queue,
           !.index = IF "queue" \in parts THEN current ELSE t[r].index]
    BY DEF Broadcast
  <2>2. current = g.index
    BY SnapshotIs
  <2> HIDE DEF current, u
  <2>3. QED
    BY <2>1, <2>2
<1> HIDE DEF u
<1> DEFINE x == IF "state" \in parts THEN g.state ELSE h.state
           y == IF "queue" \in parts THEN g.queue ELSE h.queue
           z == IF "queue" \in parts THEN g.index ELSE h.index
<1> HIDE DEF x, y, z
<1>3. u[r] = [[group |-> id, state |-> h.state, queue |-> h.queue, index |-> h.index]
                EXCEPT !.state = x, !.queue = y, !.index = z]
  BY <1>1, <1>2 DEF x, y, z
<1>4. u[r] = [group |-> id, state |-> x, queue |-> y, index |-> z]
  BY <1>3
<1>5. x = g.state /\ y = g.queue /\ z = g.index
  BY DEF Tells, x, y, z
<1>6. QED
  BY <1>4, <1>5, SnapshotIs DEF u

\* A session that stays when s leaves: its group stays, and it hears of a wait's end.
LEMMA StaysWithout ==
  ASSUME IInv, NEW s \in Session, NEW r \in Session, r # s, InGroup(r)
  PROVE  /\ sessionGroup[r] \in DOMAIN GroupsWithout(s)
         /\ sessionGroup[r] # NoGroup /\ r \in MyGroup(r).members
<1>1. Consistent(GroupsWithout(s), [sessionGroup EXCEPT ![s] = NoGroup])
  BY LeaveConsistent DEF IInv
<1>2. [sessionGroup EXCEPT ![s] = NoGroup][r] = sessionGroup[r]
  BY DEF IInv, Consistent
<1>3. QED
  BY <1>1, <1>2, MyGroupFacts DEF Consistent, InGroup, IInv

\* What the handlers owe a session: in a group it is attended and marked with the
\* connection it has, and on that connection it has been told where it is.
Served(r) ==
  /\ InGroup(r) /\ r \in entries =>
       /\ hub[r] # NoConn \/ grace[r] # NoGrace
       /\ r \in MyGroup(r).connected <=> hub[r] # NoConn
  /\ hub[r] # NoConn =>
       told[r] = IF InGroup(r) THEN Snapshot(sessionGroup[r], MyGroup(r)) ELSE Blank

AllServed == \A r \in Session : Served(r)

\* A session whose connection and membership stay is served as long as its mark
\* stays and it knows its group.
LEMMA ServedKept ==
  ASSUME NEW r \in Session, Served(r),
         hub'[r] = hub[r], grace'[r] = grace[r], entries' \subseteq entries,
         sessionGroup'[r] = sessionGroup[r],
         InGroup(r) => (r \in MyGroup(r)'.connected <=> r \in MyGroup(r).connected),
         InGroup(r) /\ hub[r] # NoConn => told'[r] = Snapshot(sessionGroup[r], MyGroup(r)'),
         ~InGroup(r) /\ hub[r] # NoConn => told'[r] = Blank
  PROVE  Served(r)'
<1>1. InGroup(r)' <=> InGroup(r)
  BY DEF InGroup
<1>2. CASE InGroup(r)
  BY <1>1, <1>2 DEF Served
<1>3. CASE ~InGroup(r)
  BY <1>1, <1>3 DEF Served
<1>4. QED
  BY <1>2, <1>3

\* What the others have been told when s has left.
LEMMA ToldWithoutFacts ==
  ASSUME IInv, AllServed, NEW s \in Session, NEW online, NEW r \in Session,
         hub[r] # NoConn, r # s => r \in online
  PROVE  ToldWithout(s, online)[r] =
           IF r # s /\ InGroup(r)
           THEN Snapshot(sessionGroup[r], GroupsWithout(s)[sessionGroup[r]])
           ELSE Blank
<1>1. told[r] = IF InGroup(r) THEN Snapshot(sessionGroup[r], MyGroup(r)) ELSE Blank
  BY DEF AllServed, Served
<1>2. CASE ~InGroup(s)
  BY <1>1, <1>2 DEF ToldWithout, GroupsWithout, MyGroup
<1>3. CASE InGroup(s)
  <2> DEFINE h == LeftBehind(s)
             g == Resolve(h)
             t == Broadcast(told, online, g, StateIf(Resolves(h)))
  <2>1. ToldWithout(s, online) = [t EXCEPT ![s] = Blank] /\ told \in [Session -> Told]
    BY <1>3 DEF ToldWithout, IInv, OtherTypes
  <2>2. /\ GroupInv(g) /\ GroupInv(h) /\ GroupInv(MyGroup(s))
        /\ g.members = MyGroup(s).members \ {s}
    BY <1>3, LeftBehindFacts, MyGroupFacts DEF IInv
  <2>3. Tells(MyGroup(s), g, StateIf(Resolves(h)))
    <3>1. h.queue = MyGroup(s).queue /\ h.index = MyGroup(s).index /\ h.state = MyGroup(s).state
      BY <2>2, RemoveMemberKeeps DEF LeftBehind
    <3>2. g.queue = h.queue /\ g.index = h.index /\ (~Resolves(h) => g = h)
      BY <2>2, ResolveKeeps
    <3> HIDE DEF h, g
    <3>3. QED
      BY <3>1, <3>2 DEF Tells, StateIf
  <2>4. t \in [Session -> Told]
    BY <2>1, <2>2, BroadcastType
  <2>5. CASE r = s
    <3> HIDE DEF t
    <3>1. QED
      BY <2>1, <2>4, <2>5
  <2>6. CASE r # s
    <3>1. ToldWithout(s, online)[r] = t[r]
      <4> HIDE DEF t
      <4>1. QED
        BY <2>1, <2>4, <2>6
    <3>2. r \in g.members <=> sessionGroup[r] = sessionGroup[s]
      BY <1>3, <2>2, <2>6, MyGroupFacts DEF IInv, Consistent, MyGroup
    <3>3. CASE sessionGroup[r] = sessionGroup[s]
      <4>1. InGroup(r) /\ MyGroup(r) = MyGroup(s)
        BY <1>3, <3>3 DEF InGroup, MyGroup
      <4>2. GroupsWithout(s)[sessionGroup[r]] = g
        BY <2>6, <3>3, <4>1, StaysWithout, WithoutFacts DEF IInv
      <4>3. r \in g.members \cap online /\ told[r] = Snapshot(sessionGroup[r], MyGroup(s))
        BY <1>1, <2>6, <3>2, <3>3, <4>1
      <4> HIDE DEF g, h
      <4>4. t[r] = Snapshot(sessionGroup[r], g)
        BY <2>1, <2>2, <2>3, <4>3, BroadcastTells
      <4>5. QED
        BY <2>6, <3>1, <4>1, <4>2, <4>4
    <3>4. CASE sessionGroup[r] # sessionGroup[s]
      <4>1. t[r] = told[r]
        BY <3>2, <3>4, BroadcastOthers
      <4>2. InGroup(r) => GroupsWithout(s)[sessionGroup[r]] = MyGroup(r)
        BY <2>6, <3>4, StaysWithout, WithoutFacts DEF IInv, MyGroup
      <4>3. QED
        BY <1>1, <2>6, <3>1, <4>1, <4>2
    <3>5. QED
      BY <3>3, <3>4
  <2>7. QED
    BY <2>5, <2>6
<1>4. QED
  BY <1>2, <1>3

LEMMA LeaveServes ==
  ASSUME IInv, AllServed, NEW s \in Session, NEW online, Leave(s, online),
         \A r \in Session \ {s} : hub'[r] = hub[r] /\ (hub[r] # NoConn => r \in online),
         hub'[s] \in {hub[s], NoConn}, entries' = entries
  PROVE  AllServed'
<1> SUFFICES ASSUME NEW r \in Session
             PROVE  Served(r)'
  BY DEF AllServed
<1>1. /\ groups' = GroupsWithout(s) /\ told' = ToldWithout(s, online)
      /\ sessionGroup' = [sessionGroup EXCEPT ![s] = NoGroup]
      /\ grace' = [grace EXCEPT ![s] = NoGrace]
  BY DEF Leave
<1>2. /\ sessionGroup \in [Session -> GroupId \cup {NoGroup}]
      /\ grace \in [Session -> GraceId \cup {NoGrace}]
  BY DEF IInv, OtherTypes, Consistent
<1>3. Served(r)
  BY DEF AllServed
<1>4. hub[r] # NoConn =>
        told'[r] = IF r # s /\ InGroup(r)
                   THEN Snapshot(sessionGroup[r], GroupsWithout(s)[sessionGroup[r]])
                   ELSE Blank
  BY <1>1, ToldWithoutFacts
<1>5. CASE r = s
  <2>1. ~InGroup(r)'
    BY <1>1, <1>2, <1>5 DEF InGroup
  <2>2. QED
    BY <1>4, <1>5, <2>1 DEF Served
<1>6. CASE r # s
  <2>1. sessionGroup'[r] = sessionGroup[r] /\ grace'[r] = grace[r] /\ hub'[r] = hub[r]
    BY <1>1, <1>2, <1>6
  <2>2. CASE InGroup(r)
    <3>1. MyGroup(r)' = GroupsWithout(s)[sessionGroup[r]]
      BY <1>1, <2>1 DEF MyGroup
    <3>2. r \in MyGroup(r)'.connected <=> r \in MyGroup(r).connected
      BY <1>6, <2>2, <3>1, StaysWithout, WithoutFacts DEF IInv, MyGroup
    <3>3. QED
      BY <1>3, <1>4, <1>6, <2>1, <2>2, <3>1, <3>2, ServedKept
  <2>3. CASE ~InGroup(r)
    BY <1>3, <1>4, <2>1, <2>3, ServedKept DEF Leave
  <2>4. QED
    BY <2>2, <2>3
<1>7. QED
  BY <1>5, <1>6

\* A session without a record or a connection is owed nothing.
LEMMA RemoveEntryServes ==
  ASSUME IInv, AllServed, NEW s \in Session, RemoveEntry(s), told' = [told EXCEPT ![s] = Blank],
         UNCHANGED <<groups, sessionGroup, grace>>
  PROVE  AllServed'
<1> SUFFICES ASSUME NEW r \in Session
             PROVE  Served(r)'
  BY DEF AllServed
<1>1. Served(r) /\ hub \in [Session -> ConnId \cup {NoConn}] /\ told \in [Session -> Told]
  BY DEF AllServed, IInv, OtherTypes
<1>2. entries' = entries \ {s} /\ hub' = [hub EXCEPT ![s] = NoConn]
  BY DEF RemoveEntry
<1>3. MyGroup(r)' = MyGroup(r) /\ InGroup(r)' = InGroup(r)
  BY DEF MyGroup, InGroup
<1>4. CASE r = s
  BY <1>1, <1>2, <1>4 DEF Served
<1>5. CASE r # s
  BY <1>1, <1>2, <1>3, <1>5 DEF Served
<1>6. QED
  BY <1>4, <1>5

\* The group of s becomes g and tells its members so: those who stay are served.
LEMMA ChangeServes ==
  ASSUME IInv, AllServed, NEW s \in Session, InGroup(s), NEW g, GroupInv(g),
         g.members = MyGroup(s).members, NEW parts, Tells(MyGroup(s), g, parts),
         groups' = [groups EXCEPT ![sessionGroup[s]] = g], sessionGroup' = sessionGroup,
         entries' = entries,
         NEW r \in Session, hub'[r] = hub[r], grace'[r] = grace[r],
         told'[r] = Broadcast(told, Online, g, parts)[r],
         r \in g.connected <=> r \in MyGroup(s).connected
  PROVE  Served(r)'
<1> DEFINE t == Broadcast(told, Online, g, parts)
<1>1. Served(r) /\ told \in [Session -> Told]
  BY DEF AllServed, IInv, OtherTypes
<1>2. sessionGroup[s] \in DOMAIN groups /\ GroupInv(MyGroup(s))
  BY MyGroupFacts DEF IInv
<1>3. told'[r] = t[r]
  OBVIOUS
<1>4. r \in g.members <=> sessionGroup[r] = sessionGroup[s]
  BY <1>2 DEF IInv, Consistent, MyGroup
<1>5. CASE sessionGroup[r] = sessionGroup[s]
  <2>1. InGroup(r) /\ MyGroup(r) = MyGroup(s) /\ MyGroup(r)' = g
    BY <1>2, <1>5 DEF InGroup, MyGroup
  <2>2. hub[r] # NoConn => told[r] = Snapshot(sessionGroup[r], MyGroup(s)) /\ r \in Online
    BY <1>1, <2>1 DEF Served, Online
  <2>3. ASSUME hub[r] # NoConn
        PROVE  told'[r] = Snapshot(sessionGroup[r], g)
    <3>1. r \in g.members \cap Online
      BY <1>4, <1>5, <2>2, <2>3
    <3>2. t[r] = Snapshot(sessionGroup[r], g)
      BY <1>1, <1>2, <2>2, <2>3, <3>1, BroadcastTells
    <3>3. QED
      BY <1>3, <3>2
  <2>4. QED
    BY <1>1, <2>1, <2>3, ServedKept
<1>6. CASE sessionGroup[r] # sessionGroup[s]
  <2>1. told'[r] = told[r]
    BY <1>3, <1>4, <1>6, BroadcastOthers
  <2>2. InGroup(r) => MyGroup(r)' = MyGroup(r)
    BY <1>6, MyGroupFacts DEF MyGroup, IInv
  <2>3. InGroup(r) /\ hub[r] # NoConn => told'[r] = Snapshot(sessionGroup[r], MyGroup(r)')
    BY <1>1, <2>1, <2>2 DEF Served
  <2>4. ~InGroup(r) /\ hub[r] # NoConn => told'[r] = Blank
    BY <1>1, <2>1 DEF Served
  <2>5. QED
    BY <1>1, <2>1, <2>2, <2>3, <2>4, ServedKept
<1>7. QED
  BY <1>5, <1>6

LEMMA RegisterServes ==
  ASSUME IInv, AllServed, NEW s \in Session, NEW c \in ConnId, Register(s, c)
  PROVE  AllServed'
<1> SUFFICES ASSUME NEW r \in Session
             PROVE  Served(r)'
  BY DEF AllServed
<1>1. /\ hub \in [Session -> ConnId \cup {NoConn}] /\ hub' = [hub EXCEPT ![s] = c]
      /\ grace \in [Session -> GraceId \cup {NoGrace}] /\ grace' = [grace EXCEPT ![s] = NoGrace]
      /\ told \in [Session -> Told] /\ c # NoConn
      /\ sessionGroup' = sessionGroup /\ entries' = entries
  BY ConnIdAssumption DEF Register, IInv, OtherTypes
<1>2. Served(r)
  BY DEF AllServed
<1>3. CASE InGroup(s)
  <2>1. PICK p \in Estimated(MyGroup(s)) :
          LET g == Reconnect(MyGroup(s), s, p)
          IN  /\ groups' = [groups EXCEPT ![sessionGroup[s]] = g]
              /\ told' = [Broadcast(told, Online, g, StateIf(g.state = "Waiting"))
                            EXCEPT ![s] = Snapshot(sessionGroup[s], g)]
    BY <1>3 DEF Register
  <2> DEFINE g == Reconnect(MyGroup(s), s, p)
             parts == StateIf(g.state = "Waiting")
             t == Broadcast(told, Online, g, parts)
  <2>2. groups' = [groups EXCEPT ![sessionGroup[s]] = g]
        /\ told' = [t EXCEPT ![s] = Snapshot(sessionGroup[s], g)]
    BY <2>1
  <2>3. p \in Nat /\ GroupInv(MyGroup(s)) /\ s \in MyGroup(s).members
        /\ sessionGroup[s] \in DOMAIN groups
    BY <1>3, MyGroupFacts, EstimatedNat DEF IInv
  <2>4. /\ GroupInv(g) /\ g.members = MyGroup(s).members
        /\ g.connected = MyGroup(s).connected \cup {s}
        /\ g.queue = MyGroup(s).queue /\ g.index = MyGroup(s).index
        /\ g.state = MyGroup(s).state \/ g.state = "Waiting"
    BY <2>3, ReconnectInv, ReconnectKeeps
  <2> HIDE DEF g
  <2>5. Tells(MyGroup(s), g, parts) /\ t \in [Session -> Told]
    BY <1>1, <2>4, BroadcastType DEF Tells, StateIf
  <2> HIDE DEF parts
  <2>6. CASE r = s
    <3>1. MyGroup(r)' = g /\ InGroup(r)'
      BY <1>1, <1>3, <2>2, <2>3, <2>6 DEF MyGroup, InGroup
    <3> HIDE DEF t
    <3>2. told'[r] = Snapshot(sessionGroup[r], g) /\ hub'[r] # NoConn /\ r \in g.connected
      BY <1>1, <2>2, <2>4, <2>5, <2>6
    <3>3. QED
      BY <1>1, <3>1, <3>2 DEF Served
  <2>7. CASE r # s
    <3>1. told'[r] = t[r]
      <4> HIDE DEF t
      <4>1. QED
        BY <2>2, <2>5, <2>7
    <3>2. QED
      BY <1>1, <1>3, <2>2, <2>4, <2>5, <2>7, <3>1, ChangeServes
  <2>8. QED
    BY <2>6, <2>7
<1>4. CASE ~InGroup(s)
  <2>1. groups' = groups /\ told' = [told EXCEPT ![s] = Blank]
    BY <1>4 DEF Register
  <2>2. InGroup(r)' = InGroup(r) /\ MyGroup(r)' = MyGroup(r)
    BY <1>1, <2>1 DEF InGroup, MyGroup
  <2>3. CASE r = s
    BY <1>1, <1>4, <2>1, <2>2, <2>3 DEF Served
  <2>4. CASE r # s
    BY <1>1, <1>2, <2>1, <2>2, <2>4 DEF Served
  <2>5. QED
    BY <2>3, <2>4
<1>5. QED
  BY <1>3, <1>4

LEMMA SocketEndsServes ==
  ASSUME IInv, AllServed, NEW c \in ConnId, SocketEnds(c)
  PROVE  AllServed'
<1> SUFFICES ASSUME NEW r \in Session
             PROVE  Served(r)'
  BY DEF AllServed
<1> DEFINE s == tasks[c]
<1>1. s \in Session /\ sessionGroup' = sessionGroup /\ entries' = entries
  BY DEF SocketEnds, IInv, OtherTypes
<1>2. Served(r)
  BY DEF AllServed
<1>3. CASE ~IsCurrent(s, c)
  <2>1. UNCHANGED <<groups, hub, grace, told>>
    BY <1>3 DEF SocketEnds
  <2>2. InGroup(r)' = InGroup(r) /\ MyGroup(r)' = MyGroup(r)
    BY <1>1, <2>1 DEF InGroup, MyGroup
  <2>3. QED
    BY <1>1, <1>2, <2>1, <2>2 DEF Served
<1>4. CASE IsCurrent(s, c)
  <2>1. PICK d \in GraceId : grace' = [grace EXCEPT ![s] = d]
    BY <1>4 DEF SocketEnds
  <2>2. /\ hub \in [Session -> ConnId \cup {NoConn}] /\ hub' = [hub EXCEPT ![s] = NoConn]
        /\ grace \in [Session -> GraceId \cup {NoGrace}] /\ d # NoGrace
        /\ told \in [Session -> Told]
    BY <1>4, GraceIdAssumption DEF SocketEnds, IInv, OtherTypes
  <2>3. CASE InGroup(s)
    <3> DEFINE h == Disconnect(MyGroup(s), s)
               g == Resolve(h)
               parts == StateIf(Resolves(h))
               t == Broadcast(told, Online, g, parts)
    <3>1. groups' = [groups EXCEPT ![sessionGroup[s]] = g] /\ told' = [t EXCEPT ![s] = Blank]
      BY <1>4, <2>3 DEF SocketEnds
    <3>2. GroupInv(MyGroup(s)) /\ sessionGroup[s] \in DOMAIN groups
      BY <1>1, <2>3, MyGroupFacts DEF IInv
    <3>3. /\ GroupInv(h) /\ h.members = MyGroup(s).members
          /\ h.connected = MyGroup(s).connected \ {s}
          /\ h.queue = MyGroup(s).queue /\ h.index = MyGroup(s).index
          /\ h.state = MyGroup(s).state
      BY <3>2, DisconnectInv, DisconnectKeeps
    <3> HIDE DEF h
    <3>4. /\ GroupInv(g) /\ g.members = h.members /\ g.connected = h.connected
          /\ g.queue = h.queue /\ g.index = h.index /\ (~Resolves(h) => g = h)
      BY <3>3, ResolveInv, ResolveKeeps
    <3> HIDE DEF g
    <3>5. Tells(MyGroup(s), g, parts) /\ t \in [Session -> Told]
      BY <2>2, <3>3, <3>4, BroadcastType DEF Tells, StateIf
    <3> HIDE DEF parts, s
    <3>6. CASE r = s
      <4>1. MyGroup(r)' = g
        BY <1>1, <3>1, <3>2, <3>6 DEF MyGroup
      <4>2. hub'[r] = NoConn /\ grace'[r] # NoGrace /\ r \notin g.connected
        BY <2>1, <2>2, <3>3, <3>4, <3>6
      <4>3. QED
        BY <4>1, <4>2 DEF Served
    <3>7. CASE r # s
      <4>1. told'[r] = t[r]
        <5> HIDE DEF t
        <5>1. QED
          BY <3>1, <3>5, <3>7
      <4>2. QED
        BY <1>1, <2>1, <2>2, <2>3, <3>1, <3>3, <3>4, <3>5, <3>7, <4>1, ChangeServes
    <3>8. QED
      BY <3>6, <3>7
  <2>4. CASE ~InGroup(s)
    <3>1. groups' = groups /\ told' = [told EXCEPT ![s] = Blank]
      BY <1>4, <2>4 DEF SocketEnds
    <3>2. InGroup(r)' = InGroup(r) /\ MyGroup(r)' = MyGroup(r)
      BY <1>1, <3>1 DEF InGroup, MyGroup
    <3>3. CASE r = s
      BY <1>1, <2>1, <2>2, <2>4, <3>1, <3>2, <3>3 DEF Served
    <3>4. CASE r # s
      BY <1>1, <1>2, <2>1, <2>2, <3>1, <3>2, <3>4 DEF Served
    <3>5. QED
      BY <3>3, <3>4
  <2>5. QED
    BY <2>3, <2>4
<1>5. QED
  BY <1>3, <1>4

LEMMA CreateGroupServes ==
  ASSUME IInv, AllServed, NEW s \in Session, NEW id \in GroupId, CreateGroup(s, id)
  PROVE  AllServed'
<1> SUFFICES ASSUME NEW r \in Session
             PROVE  Served(r)'
  BY DEF AllServed
<1> DEFINE rest == GroupsWithout(s)
           left == ToldWithout(s, Online)
<1>1. /\ groups' = [x \in DOMAIN rest \cup {id} |-> IF x = id THEN NewGroup(s) ELSE rest[x]]
      /\ sessionGroup' = [sessionGroup EXCEPT ![s] = id]
      /\ grace' = [grace EXCEPT ![s] = NoGrace]
      /\ told' = [left EXCEPT ![s] = Snapshot(id, NewGroup(s))]
      /\ hub' = hub /\ entries' = entries /\ hub[s] # NoConn /\ id \notin DOMAIN groups
  BY DEF CreateGroup, MayParticipate, FreshGroup
<1>2. /\ sessionGroup \in [Session -> GroupId \cup {NoGroup}]
      /\ grace \in [Session -> GraceId \cup {NoGrace}]
      /\ left \in [Session -> Told] /\ id # NoGroup /\ DOMAIN rest \subseteq DOMAIN groups
  BY ToldWithoutType, LeaveConsistent, GroupIdAssumption DEF IInv, OtherTypes, Consistent
<1>3. Served(r)
  BY DEF AllServed
<1>4. hub[r] # NoConn =>
        left[r] = IF r # s /\ InGroup(r)
                  THEN Snapshot(sessionGroup[r], rest[sessionGroup[r]]) ELSE Blank
  BY ToldWithoutFacts DEF Online
<1>5. r # s /\ InGroup(r) =>
        /\ sessionGroup[r] \in DOMAIN rest
        /\ r \in rest[sessionGroup[r]].connected <=> r \in MyGroup(r).connected
  BY StaysWithout, WithoutFacts DEF IInv, MyGroup
<1> HIDE DEF rest, left
<1>6. CASE r = s
  <2>1. InGroup(r)' /\ MyGroup(r)' = NewGroup(s)
    BY <1>1, <1>2, <1>6 DEF InGroup, MyGroup
  <2>2. told'[r] = Snapshot(sessionGroup'[r], NewGroup(s)) /\ hub'[r] # NoConn
    BY <1>1, <1>2, <1>6
  <2>3. r \in NewGroup(s).connected
    BY <1>6, NewGroupKeeps
  <2>4. QED
    BY <2>1, <2>2, <2>3 DEF Served
<1>7. CASE r # s
  <2>1. /\ sessionGroup'[r] = sessionGroup[r] /\ grace'[r] = grace[r] /\ hub'[r] = hub[r]
        /\ told'[r] = left[r] /\ entries' \subseteq entries
    BY <1>1, <1>2, <1>7
  <2>2. InGroup(r) => MyGroup(r)' = rest[sessionGroup[r]]
    BY <1>1, <1>2, <1>5, <1>7, <2>1 DEF MyGroup
  <2>3. QED
    BY <1>3, <1>4, <1>5, <1>7, <2>1, <2>2, ServedKept
<1>8. QED
  BY <1>6, <1>7

LEMMA JoinGroupServes ==
  ASSUME IInv, AllServed, NEW s \in Session, JoinGroup(s)
  PROVE  AllServed'
<1> DEFINE id == req[s].group
           rest == GroupsWithout(s)
           sh == [sessionGroup EXCEPT ![s] = NoGroup]
           left == ToldWithout(s, Online)
<1>1. hub' = hub /\ entries' = entries /\ hub[s] # NoConn
  BY DEF JoinGroup, MayParticipate
<1>2. CASE id \notin DOMAIN rest \/ QueueItemIds(rest[id]) # req[s].expected
  <2>1. Leave(s, Online)
    BY <1>2 DEF JoinGroup
  <2>2. \A r \in Session : hub[r] # NoConn => r \in Online
    BY DEF Online
  <2>3. QED
    BY <1>1, <2>1, <2>2, LeaveServes
<1>3. CASE ~(id \notin DOMAIN rest \/ QueueItemIds(rest[id]) # req[s].expected)
  <2> SUFFICES ASSUME NEW r \in Session
               PROVE  Served(r)'
    BY DEF AllServed
  <2>1. PICK p \in JoinPositions(s, id) :
          LET g == AddMember(rest[id], s, p)
          IN  /\ groups' = [rest EXCEPT ![id] = g]
              /\ told' = [Broadcast(left, Online, g, StateIf(g.state = "Waiting"))
                            EXCEPT ![s] = Snapshot(id, g)]
    BY <1>3 DEF JoinGroup
  <2> DEFINE g == AddMember(rest[id], s, p)
             parts == StateIf(g.state = "Waiting")
             t == Broadcast(left, Online, g, parts)
  <2>2. /\ groups' = [rest EXCEPT ![id] = g]
        /\ told' = [t EXCEPT ![s] = Snapshot(id, g)]
        /\ sessionGroup' = [sessionGroup EXCEPT ![s] = id]
        /\ grace' = [grace EXCEPT ![s] = NoGrace]
    BY <1>3, <2>1 DEF JoinGroup
  <2>3. Consistent(rest, sh)
    BY LeaveConsistent DEF IInv
  <2>4. id \in DOMAIN rest /\ GroupInv(rest[id]) /\ id # NoGroup
    BY <1>3, <2>3, GroupIdAssumption DEF Consistent
  <2>5. p \in Nat
    <3>1. rest[id].pos \in Nat /\ Estimated(rest[id]) \subseteq Nat
      BY <2>4, EstimatedNat DEF GroupInv, GroupShape, Group
    <3>2. QED
      BY <3>1 DEF JoinPositions
  <2>6. /\ left \in [Session -> Told]
        /\ sessionGroup \in [Session -> GroupId \cup {NoGroup}]
        /\ grace \in [Session -> GraceId \cup {NoGrace}]
    BY ToldWithoutType DEF IInv, OtherTypes, Consistent
  <2>7. /\ GroupInv(g) /\ g.members = rest[id].members \cup {s}
        /\ g.connected = rest[id].connected \cup {s}
        /\ g.queue = rest[id].queue /\ g.index = rest[id].index
        /\ g.state = rest[id].state \/ g.state = "Waiting"
    BY <2>4, <2>5, AddMemberInv, AddMemberKeeps
  <2> HIDE DEF g
  <2>8. Tells(rest[id], g, parts)
    BY <2>7 DEF Tells, StateIf
  <2> HIDE DEF parts
  <2>9. t \in [Session -> Told]
    BY <2>6, <2>7, BroadcastType
  <2>10. Served(r)
    BY DEF AllServed
  <2>11. hub[r] # NoConn =>
          left[r] = IF r # s /\ InGroup(r)
                    THEN Snapshot(sessionGroup[r], rest[sessionGroup[r]]) ELSE Blank
    BY ToldWithoutFacts DEF Online
  <2>12. r # s /\ InGroup(r) =>
          /\ sessionGroup[r] \in DOMAIN rest
          /\ r \in rest[sessionGroup[r]].connected <=> r \in MyGroup(r).connected
    BY StaysWithout, WithoutFacts DEF IInv, MyGroup
  <2>13. r # s => (r \in g.members <=> sessionGroup[r] = id)
    BY <2>3, <2>4, <2>6, <2>7 DEF Consistent
  <2> HIDE DEF rest, left, sh, id
  <2>14. CASE r = s
    <3>1. InGroup(r)' /\ MyGroup(r)' = g
      BY <2>2, <2>4, <2>6, <2>14 DEF InGroup, MyGroup
    <3> HIDE DEF t
    <3>2. told'[r] = Snapshot(sessionGroup'[r], g) /\ hub'[r] # NoConn /\ r \in g.connected
      BY <1>1, <2>2, <2>6, <2>7, <2>9, <2>14
    <3>3. QED
      BY <3>1, <3>2 DEF Served
  <2>15. CASE r # s
    <3>1. /\ sessionGroup'[r] = sessionGroup[r] /\ grace'[r] = grace[r] /\ hub'[r] = hub[r]
          /\ told'[r] = t[r] /\ entries' \subseteq entries
      <4> HIDE DEF t
      <4>1. QED
        BY <1>1, <2>2, <2>6, <2>9, <2>15
    <3>2. CASE sessionGroup[r] = id
      <4>1. InGroup(r) /\ MyGroup(r)' = g
        BY <2>2, <2>4, <3>1, <3>2 DEF InGroup, MyGroup
      <4>2. ASSUME hub[r] # NoConn
            PROVE  told'[r] = Snapshot(id, g)
        <5>1. r \in g.members \cap Online /\ left[r] = Snapshot(id, rest[id])
          BY <2>11, <2>13, <2>15, <3>2, <4>1, <4>2 DEF Online
        <5>2. t[r] = Snapshot(id, g)
          BY <2>4, <2>6, <2>7, <2>8, <5>1, BroadcastTells
        <5>3. QED
          BY <3>1, <5>2
      <4>3. r \in g.connected <=> r \in MyGroup(r).connected
        BY <2>7, <2>12, <2>15, <3>2, <4>1
      <4>4. QED
        BY <2>10, <3>1, <3>2, <4>1, <4>2, <4>3, ServedKept
    <3>3. CASE sessionGroup[r] # id
      <4>1. told'[r] = left[r]
        BY <2>13, <2>15, <3>1, <3>3, BroadcastOthers
      <4>2. InGroup(r) => MyGroup(r)' = rest[sessionGroup[r]]
        BY <2>2, <2>12, <2>15, <3>1, <3>3 DEF MyGroup
      <4>3. QED
        BY <2>10, <2>11, <2>12, <2>15, <3>1, <4>1, <4>2, ServedKept
    <3>4. QED
      BY <3>2, <3>3
  <2>16. QED
    BY <2>14, <2>15
<1>4. QED
  BY <1>2, <1>3

\* The part of an update the broadcast makes: everybody is as attended as before.
LEMMA UpdateServes ==
  ASSUME IInv, AllServed, NEW s \in Session, NEW g, NEW parts, Changes(s, g, parts),
         Update(s, g, parts)
  PROVE  AllServed'
<1> SUFFICES ASSUME NEW r \in Session
             PROVE  Served(r)'
  BY DEF AllServed
<1>1. /\ InGroup(s) /\ GroupInv(g) /\ g.members = MyGroup(s).members
      /\ g.connected = MyGroup(s).connected /\ Tells(MyGroup(s), g, parts)
  BY DEF Changes
<1>2. /\ groups' = [groups EXCEPT ![sessionGroup[s]] = g]
      /\ told' = Broadcast(told, Online, g, parts)
      /\ sessionGroup' = sessionGroup /\ hub' = hub /\ grace' = grace /\ entries' = entries
  BY DEF Update
<1>3. hub'[r] = hub[r] /\ grace'[r] = grace[r]
      /\ told'[r] = Broadcast(told, Online, g, parts)[r]
      /\ (r \in g.connected <=> r \in MyGroup(s).connected)
  BY <1>1, <1>2
<1>4. groups' = [groups EXCEPT ![sessionGroup[s]] = g] /\ sessionGroup' = sessionGroup
      /\ entries' = entries
  BY <1>2
<1>5. QED
  BY <1>1, <1>3, <1>4, ChangeServes

\* A correction tells a client what it knows.
LEMMA CorrectionServes ==
  ASSUME IInv, AllServed, NEW s \in Session, NEW id, InGroup(s), CorrectPlaylist(s, id)
  PROVE  UNCHANGED vars
<1> DEFINE g == MyGroup(s)
<1>1. /\ told' = [told EXCEPT ![s].queue = g.queue, ![s].index = g.index] /\ hub[s] # NoConn
      /\ UNCHANGED <<groups, sessionGroup, hub, tasks, grace, timers, entries, ending,
                     req, unchecked>>
  BY DEF CorrectPlaylist
<1>2. told[s] = Snapshot(sessionGroup[s], g) /\ told \in [Session -> Told] /\ GroupInv(g)
  BY <1>1, MyGroupFacts DEF AllServed, Served, IInv, OtherTypes
<1>3. told[s] = [group |-> sessionGroup[s], state |-> g.state, queue |-> g.queue,
                 index |-> g.index]
  BY <1>2, SnapshotIs
<1> HIDE DEF g
<1>4. told' = [told EXCEPT ![s] = [told[s] EXCEPT !.queue = g.queue, !.index = g.index]]
  BY <1>1, <1>2, <1>3
<1>5. [told[s] EXCEPT !.queue = g.queue, !.index = g.index] = told[s]
  <2> DEFINE a == sessionGroup[s]
             b == g.state
             q == g.queue
             i == g.index
             x == told[s]
  <2>1. x = [group |-> a, state |-> b, queue |-> q, index |-> i]
    BY <1>3
  <2> HIDE DEF a, b, q, i, x
  <2> DEFINE y == [x EXCEPT !.queue = q, !.index = i]
  <2>2. y = [[group |-> a, state |-> b, queue |-> q, index |-> i] EXCEPT !.queue = q, !.index = i]
    BY <2>1
  <2> HIDE DEF y
  <2>3. y = [group |-> a, state |-> b, queue |-> q, index |-> i]
    BY <2>2
  <2>4. y = x
    BY <2>1, <2>3
  <2>5. QED
    BY <2>4 DEF q, i, x, y
<1>6. told' = told
  BY <1>2, <1>4, <1>5
<1>7. QED
  BY <1>1, <1>6 DEF vars

\* A request of s that passed its check takes effect: g is the group of s with its
\* items instead of, or besides, the queue there was.
Queues(s, g, parts) ==
  LET items == {req[s].items[i] : i \in 1..Len(req[s].items)}
  IN  /\ Changes(s, g, parts) /\ Update(s, g, parts)
      /\ StillExpected(s) /\ req' = [req EXCEPT ![s] = NoReq]
      /\ \/ /\ req[s].op = "set"
            /\ QueuedItems(g.queue) = items
            /\ unchecked' = IF req[s].checked THEN unchecked \ {sessionGroup[s]}
                            ELSE unchecked \cup {sessionGroup[s]}
         \/ /\ req[s].op = "queue"
            /\ QueuedItems(g.queue) \subseteq QueuedItems(MyGroup(s).queue) \cup items
            /\ unchecked' = IF req[s].checked THEN unchecked
                            ELSE unchecked \cup {sessionGroup[s]}

LEMMA QueueEffect ==
  ASSUME IInv, QueueStep
  PROVE  \/ \E s \in Session, op \in {"set", "queue"}, items \in Payloads :
              CheckQueue(s, op, items)
         \/ \E s \in Session, g \in Group, parts \in SUBSET {"queue", "state"} :
              Queues(s, g, parts)
<1>1. PICK s \in Session :
        \/ \E op \in {"set", "queue"}, items \in Payloads : CheckQueue(s, op, items)
        \/ \E at \in 0..MaxQueue, t \in Ticks : SetNewQueue(s, at, t)
        \/ \E next \in BOOLEAN : QueueItems(s, next)
  BY DEF QueueStep
<1> DEFINE r == req[s]
           items == {r.items[i] : i \in 1..Len(r.items)}
<1>2. ASSUME InGroup(s)
      PROVE  GroupInv(MyGroup(s)) /\ MyGroup(s).members # {}
  BY <1>2, MyGroupFacts DEF IInv
<1>3. r.op \in {"set", "queue"} => r.items \in Seq(Item)
  BY RequestFacts DEF IInv, OtherTypes
<1>4. ASSUME r.items \in Seq(Item), NEW q, NEW ids \in FreshIds(q, Len(r.items))
      PROVE  QueuedItems(Entries(r.items, ids)) = items
  <2>1. Len(Entries(r.items, ids)) = Len(r.items)
        /\ \A i \in 1..Len(r.items) : Entries(r.items, ids)[i].item = r.items[i]
    BY <1>4 DEF Entries
  <2>2. QED
    BY <2>1 DEF QueuedItems
<1>5. ASSUME NEW at \in 0..MaxQueue, NEW t \in Ticks, SetNewQueue(s, at, t)
      PROVE  \E g \in Group, parts \in SUBSET {"queue", "state"} : Queues(s, g, parts)
  <2>1. PICK ids \in FreshIds(MyGroup(s).queue, Len(req[s].items)) :
          Update(s, SetQueue(MyGroup(s), Entries(req[s].items, ids), at, t), {"queue", "state"})
    BY <1>5 DEF SetNewQueue
  <2> DEFINE more == Entries(r.items, ids)
             g == SetQueue(MyGroup(s), more, at, t)
  <2>2. /\ InGroup(s) /\ r.op = "set" /\ r.items \in Seq(Item)
        /\ StillExpected(s) /\ req' = [req EXCEPT ![s] = NoReq]
        /\ unchecked' = IF r.checked THEN unchecked \ {sessionGroup[s]}
                        ELSE unchecked \cup {sessionGroup[s]}
    BY <1>3, <1>5 DEF SetNewQueue
  <2>3. more \in Seq(Entry) /\ QueuedItems(more) = items
    BY <1>4, <2>2, EntriesType
  <2>4. at \in Nat /\ t \in Int
    BY TicksAssumption, MaxQueueAssumption
  <2> HIDE DEF more
  <2>5. /\ GroupInv(g) /\ g.members = MyGroup(s).members
        /\ g.connected = MyGroup(s).connected /\ g.queue = more /\ Waits(g)
    <3>1. GroupInv(MyGroup(s)) /\ MyGroup(s).members # {}
      BY <1>2, <2>2
    <3>2. GroupInv(g) /\ g.members = MyGroup(s).members
      BY <2>3, <2>4, <3>1, SetQueueInv
    <3>3. g.connected = MyGroup(s).connected /\ g.queue = more /\ Waits(g)
      BY <3>1, SetQueueKeeps
    <3>4. QED
      BY <3>2, <3>3
  <2>6. Update(s, g, {"queue", "state"})
    BY <2>1 DEF more
  <2> HIDE DEF g
  <2>7. Changes(s, g, {"queue", "state"}) /\ g \in Group
    BY <2>2, <2>5 DEF Changes, Tells, GroupInv, GroupShape
  <2>8. Queues(s, g, {"queue", "state"})
    BY <2>2, <2>3, <2>5, <2>6, <2>7 DEF Queues
  <2>9. QED
    BY <2>7, <2>8
<1>6. ASSUME NEW next \in BOOLEAN, QueueItems(s, next)
      PROVE  \E g \in Group, parts \in SUBSET {"queue", "state"} : Queues(s, g, parts)
  <2>1. PICK ids \in FreshIds(MyGroup(s).queue, Len(req[s].items)) :
          Update(s, AddEntries(MyGroup(s), Entries(req[s].items, ids), next), {"queue"})
    BY <1>6 DEF QueueItems
  <2> DEFINE more == Entries(r.items, ids)
             g == AddEntries(MyGroup(s), more, next)
  <2>2. /\ InGroup(s) /\ r.op = "queue" /\ r.items \in Seq(Item)
        /\ StillExpected(s) /\ req' = [req EXCEPT ![s] = NoReq]
        /\ unchecked' = IF r.checked THEN unchecked ELSE unchecked \cup {sessionGroup[s]}
    BY <1>3, <1>6 DEF QueueItems
  <2>3. more \in Seq(Entry) /\ QueuedItems(more) = items
    BY <1>4, <2>2, EntriesType
  <2> HIDE DEF more
  <2>4. /\ GroupInv(g) /\ g.members = MyGroup(s).members
        /\ g.connected = MyGroup(s).connected /\ Tells(MyGroup(s), g, {"queue"})
        /\ QueuedItems(g.queue) \subseteq QueuedItems(MyGroup(s).queue) \cup items
        /\ Waits(MyGroup(s)) => Waits(g)
    BY <1>2, <2>2, <2>3, AddEntriesInv, AddEntriesKeeps
  <2>5. Update(s, g, {"queue"})
    BY <2>1 DEF more
  <2> HIDE DEF g
  <2>6. Changes(s, g, {"queue"}) /\ g \in Group
    BY <2>2, <2>4 DEF Changes, GroupInv, GroupShape
  <2>7. Queues(s, g, {"queue"})
    BY <2>2, <2>4, <2>5, <2>6 DEF Queues
  <2>8. QED
    BY <2>6, <2>7
<1>7. QED
  BY <1>1, <1>5, <1>6

\* Steps that no session hears of.
LEMMA QuietServes ==
  ASSUME AllServed, UNCHANGED <<groups, sessionGroup, hub, grace, entries, told>>
  PROVE  AllServed'
BY DEF AllServed, Served, InGroup, MyGroup

LEMMA NextServes ==
  ASSUME IInv, AllServed, [Next]_vars
  PROVE  AllServed'
<1>1. \A r \in Session : hub[r] # NoConn => r \in Online
  BY DEF Online
<1>2. CASE SocketStep
  <2>1. ASSUME NEW d \in GraceId, TimerFires(d)
        PROVE  AllServed'
    <3>1. timers[d] \in Session /\ UNCHANGED <<hub, entries>>
      BY <2>1 DEF TimerFires, IInv, OtherTypes
    <3>2. CASE StillGone(timers[d], d)
      <4>1. Leave(timers[d], Online)
        BY <2>1, <3>2 DEF TimerFires
      <4>2. QED
        BY <1>1, <3>1, <4>1, LeaveServes
    <3>3. CASE ~StillGone(timers[d], d)
      BY <2>1, <3>1, <3>3, QuietServes DEF TimerFires
    <3>4. QED
      BY <3>2, <3>3
  <2>2. QED
    BY <1>2, <2>1, RegisterServes, SocketEndsServes DEF SocketStep
<1>3. CASE SessionEndStep
  <2>1. PICK s \in Session : Logout(s) \/ FinishLogout(s) \/ Revoke(s) \/ FinishRevoke(s)
    BY <1>3 DEF SessionEndStep
  <2>2. ASSUME EndSession(s), entries' = entries
        PROVE  AllServed'
    <3>1. Leave(s, Online \ {s}) /\ hub' = [hub EXCEPT ![s] = NoConn]
      BY <2>2 DEF EndSession
    <3>2. /\ \A r \in Session \ {s} :
               hub'[r] = hub[r] /\ (hub[r] # NoConn => r \in Online \ {s})
          /\ hub'[s] \in {hub[s], NoConn}
      BY <1>1, <3>1 DEF IInv, OtherTypes
    <3>3. QED
      BY <2>2, <3>1, <3>2, LeaveServes
  <2>3. CASE Logout(s) \/ FinishRevoke(s)
    BY <2>2, <2>3 DEF Logout, FinishRevoke
  <2>4. CASE FinishLogout(s) \/ Revoke(s)
    BY <2>4, RemoveEntryServes DEF FinishLogout, Revoke
  <2>5. QED
    BY <2>1, <2>3, <2>4
<1>4. CASE MembershipStep
  <2>1. PICK s \in Session :
          \/ \E id \in GroupId : CreateGroup(s, id) \/ CheckJoin(s, id)
          \/ JoinGroup(s)
          \/ AbandonRequest(s)
          \/ LeaveGroup(s)
    BY <1>4 DEF MembershipStep
  <2>2. CASE \E id \in GroupId : CreateGroup(s, id) \/ CheckJoin(s, id)
    BY <2>2, CreateGroupServes, QuietServes DEF CheckJoin
  <2>3. CASE JoinGroup(s)
    BY <2>3, JoinGroupServes
  <2>4. CASE AbandonRequest(s)
    BY <2>4, QuietServes DEF AbandonRequest
  <2>5. CASE LeaveGroup(s)
    <3>1. Leave(s, Online) /\ UNCHANGED <<hub, entries>>
      BY <2>5 DEF LeaveGroup
    <3>2. QED
      BY <1>1, <3>1, LeaveServes
  <2>6. QED
    BY <2>1, <2>2, <2>3, <2>4, <2>5
<1>5. CASE QueueStep
  BY <1>5, QueueEffect, UpdateServes, QuietServes DEF CheckQueue, Queues
<1>6. CASE EditStep
  <2>1. ASSUME NEW s \in Session, NEW id \in EntryId, InGroup(s), CorrectPlaylist(s, id)
        PROVE  AllServed'
    BY <2>1, CorrectionServes, QuietServes DEF vars
  <2>2. QED
    BY <1>6, <2>1, EditEffect, UpdateServes DEF PlaysOn, Playback
<1>7. CASE ControlStep
  BY <1>7, ControlEffect, UpdateServes DEF PlaysOn, Playback
<1>8. CASE ReportStep
  BY <1>8, ReportEffect, UpdateServes DEF PlaysOn, Playback
<1>9. CASE UNCHANGED vars
  BY <1>9, QuietServes DEF vars
<1>10. QED
  BY <1>2, <1>3, <1>4, <1>5, <1>6, <1>7, <1>8, <1>9 DEF Next

LEMMA Service == Spec => []AllServed
<1>1. Init => AllServed
  BY DEF Init, AllServed, Served, InGroup
<1>2. IInv /\ AllServed /\ [Next]_vars => AllServed'
  BY NextServes
<1>3. QED
  BY <1>1, <1>2, Invariance, PTL DEF Spec

\* Nobody stays in a group unattended: a dropped member that is neither connected
\* nor in its grace would keep its group, and its place in it, for good.
THEOREM AttendedHolds == Spec => []MemberAttended
<1>1. AllServed => MemberAttended
  BY DEF AllServed, Served, MemberAttended
<1>2. QED
  BY <1>1, Service, PTL

\* is_connected is what the hub says, although sockets of one session come and go
\* in any order and the two are kept in different maps.
THEOREM ConnectedHolds == Spec => []ConnectedAgreesWithHub
<1>1. AllServed => ConnectedAgreesWithHub
  BY DEF AllServed, Served, ConnectedAgreesWithHub
<1>2. QED
  BY <1>1, Service, PTL

\* Whatever handler, socket, timer or session end changes a group, every connected
\* member has been sent its state, its queue and its current entry.
THEOREM ToldHolds == Spec => []MembersToldEverything
<1>1. AllServed => MembersToldEverything
  BY DEF AllServed, Served, MembersToldEverything
<1>2. QED
  BY <1>1, Service, PTL

\* A socket that was replaced takes the newer one with it on none of its ways out:
\* a connection ends with its own handler or with its session.
THEOREM NewerSocketHolds == Spec => NewerSocketSurvives
<1> DEFINE A == \A s \in Session :
                 hub[s] # NoConn /\ hub'[s] = NoConn
                 => tasks'[hub[s]] = NoSession \/ ending'[s] # ending[s]
<1>1. IInv /\ [Next]_vars => [A]_vars
  <2> SUFFICES ASSUME IInv, [Next]_vars, NEW r \in Session, hub[r] # NoConn, hub'[r] = NoConn
               PROVE  tasks'[hub[r]] = NoSession \/ ending'[r] # ending[r]
    OBVIOUS
  <2>1. /\ hub \in [Session -> ConnId \cup {NoConn}] /\ NoConn \notin ConnId
        /\ tasks \in [ConnId -> Session \cup {NoSession}]
        /\ ending \in [Session -> {"no", "logout", "revoke"}]
    BY ConnIdAssumption DEF IInv, OtherTypes
  <2>2. ~UNCHANGED hub
    OBVIOUS
  <2>3. SocketStep \/ SessionEndStep
    BY ZenonT(40), <2>2 DEF Next, vars, MembershipStep, QueueStep, EditStep, ControlStep,
       ReportStep, CreateGroup, CheckJoin, JoinGroup, AbandonRequest, LeaveGroup, CheckQueue,
       SetNewQueue, QueueItems, Update, Playback, ClearPlaylist, RemoveFromPlaylist,
       SetPlaylistItem, MovePlaylistItem, ChangeItem, CorrectPlaylist, Unpause, Pause, Stop,
       Seek, Ready, Buffering, SetIgnoreWait, ResolvingPlayback
  <2>4. ASSUME NEW s \in Session, NEW c \in ConnId, Register(s, c)
        PROVE  FALSE
    BY <2>1, <2>4 DEF Register
  <2>5. ASSUME NEW c \in ConnId, SocketEnds(c)
        PROVE  tasks'[hub[r]] = NoSession
    <3>1. /\ IsCurrent(tasks[c], c) /\ tasks' = [tasks EXCEPT ![c] = NoSession]
          /\ hub' = [hub EXCEPT ![tasks[c]] = NoConn]
      BY <2>2, <2>5 DEF SocketEnds
    <3>2. r = tasks[c]
      BY <2>1, <3>1
    <3>3. QED
      BY <2>1, <3>1, <3>2 DEF IsCurrent
  <2>6. ASSUME NEW d \in GraceId, TimerFires(d)
        PROVE  FALSE
    BY <2>2, <2>6 DEF TimerFires
  <2>7. ASSUME NEW s \in Session, Logout(s) \/ FinishLogout(s) \/ Revoke(s) \/ FinishRevoke(s)
        PROVE  ending'[r] # ending[r]
    <3>1. hub' = [hub EXCEPT ![s] = NoConn]
      BY <2>7 DEF Logout, FinishLogout, Revoke, FinishRevoke, EndSession, RemoveEntry
    <3>2. r = s
      BY <2>1, <3>1
    <3>3. ending'[s] # ending[s]
      BY <2>1, <2>7 DEF Logout, FinishLogout, Revoke, FinishRevoke
    <3>4. QED
      BY <3>2, <3>3
  <2>8. QED
    BY <2>3, <2>4, <2>5, <2>6, <2>7 DEF SocketStep, SessionEndStep
<1>2. QED
  BY <1>1, Invariance, PTL DEF Spec, NewerSocketSurvives

---------------------------------------------------------------------------
(* What becomes of a group when sockets, sessions and members come and go  *)

\* Its queue stays, a wait of it is for somebody and goes on where it stood, and
\* who is new has asked for the queue there is.
Attends(g, h) ==
  /\ h.queue = g.queue
  /\ Waits(g) => Waits(h)
  /\ g.state = "Waiting" => GoesOnAt(h) = GoesOnAt(g)
  /\ \A s \in h.members \ g.members :
       req[s].op = "join" /\ req[s].expected = QueueItemIds(g)

\* Every group is one that was there, and stays unchecked if it was, or a new one.
Presence ==
  \A id \in DOMAIN groups' :
    IF id \in DOMAIN groups
    THEN Attends(groups[id], groups'[id]) /\ (id \in unchecked => id \in unchecked')
    ELSE \E s \in Session : groups'[id] = NewGroup(s)

LEMMA QuietPresence ==
  ASSUME UNCHANGED <<groups, unchecked>>
  PROVE  Presence
BY DEF Presence, Attends

LEMMA WithoutAttends ==
  ASSUME IInv, NEW s \in Session, NEW id \in DOMAIN GroupsWithout(s)
  PROVE  id \in DOMAIN groups /\ Attends(groups[id], GroupsWithout(s)[id])
BY WithoutFacts DEF IInv, Attends

LEMMA LeavePresence ==
  ASSUME IInv, NEW s \in Session, NEW online, Leave(s, online)
  PROVE  Presence
<1>1. groups' = GroupsWithout(s) /\ unchecked' = unchecked \cap DOMAIN groups'
  BY DEF Leave
<1>2. QED
  BY <1>1, WithoutAttends DEF Presence

\* A group is exchanged, the others and the list of the unchecked ones stay.
LEMMA ExchangePresence ==
  ASSUME IInv, NEW id \in DOMAIN groups, NEW g, Attends(groups[id], g),
         groups' = [groups EXCEPT ![id] = g], unchecked' = unchecked
  PROVE  Presence
<1> SUFFICES ASSUME NEW x \in DOMAIN groups'
             PROVE  x \in DOMAIN groups /\ Attends(groups[x], groups'[x])
  BY DEF Presence
<1>1. x \in DOMAIN groups
  OBVIOUS
<1>2. CASE x = id
  BY <1>1, <1>2
<1>3. CASE x # id
  BY <1>1, <1>3 DEF Attends
<1>4. QED
  BY <1>2, <1>3

LEMMA RegisterPresence ==
  ASSUME IInv, NEW s \in Session, NEW c \in ConnId, Register(s, c)
  PROVE  Presence
<1>1. CASE InGroup(s)
  <2>1. PICK p \in Estimated(MyGroup(s)) :
          groups' = [groups EXCEPT ![sessionGroup[s]] = Reconnect(MyGroup(s), s, p)]
    BY <1>1 DEF Register
  <2> DEFINE g == Reconnect(MyGroup(s), s, p)
  <2>2. p \in Nat /\ GroupInv(MyGroup(s)) /\ s \in MyGroup(s).members
        /\ sessionGroup[s] \in DOMAIN groups
    BY <1>1, MyGroupFacts, EstimatedNat DEF IInv
  <2>3. /\ g.members = MyGroup(s).members /\ g.queue = MyGroup(s).queue
        /\ Waits(MyGroup(s)) => Waits(g)
        /\ p = GoesOnAt(MyGroup(s)) /\ p # NoPos => GoesOnAt(g) = GoesOnAt(MyGroup(s))
    BY <2>2, ReconnectInv, ReconnectKeeps
  <2>4. MyGroup(s).state = "Waiting" => p = GoesOnAt(MyGroup(s)) /\ p # NoPos
    BY <2>2, WaitingAt
  <2> HIDE DEF g
  <2>5. Attends(MyGroup(s), g)
    BY <2>3, <2>4 DEF Attends
  <2>6. unchecked' = unchecked /\ groups' = [groups EXCEPT ![sessionGroup[s]] = g]
    BY <2>1 DEF Register, g
  <2>7. QED
    BY <2>2, <2>5, <2>6, ExchangePresence DEF MyGroup
<1>2. CASE ~InGroup(s)
  BY <1>2, QuietPresence DEF Register
<1>3. QED
  BY <1>1, <1>2

LEMMA SocketEndsPresence ==
  ASSUME IInv, NEW c \in ConnId, SocketEnds(c)
  PROVE  Presence
<1> DEFINE s == tasks[c]
<1>1. s \in Session /\ unchecked' = unchecked
  BY DEF SocketEnds, IInv, OtherTypes
<1>2. CASE IsCurrent(s, c) /\ InGroup(s)
  <2> DEFINE h == Disconnect(MyGroup(s), s)
             g == Resolve(h)
  <2>1. groups' = [groups EXCEPT ![sessionGroup[s]] = g]
    BY <1>2 DEF SocketEnds
  <2>2. GroupInv(MyGroup(s)) /\ sessionGroup[s] \in DOMAIN groups
    BY <1>1, <1>2, MyGroupFacts DEF IInv
  <2>3. /\ GroupInv(h) /\ h.members = MyGroup(s).members
        /\ h.queue = MyGroup(s).queue /\ h.state = MyGroup(s).state
        /\ GoesOnAt(h) = GoesOnAt(MyGroup(s))
    BY <2>2, DisconnectInv, DisconnectKeeps
  <2> HIDE DEF h
  <2>4. /\ g.members = h.members /\ g.queue = h.queue
        /\ (h.state = "Waiting" => h.queue # <<>>) => Waits(g)
        /\ GoesOnAt(g) = GoesOnAt(h)
    BY <2>3, ResolveInv, ResolveKeeps
  <2> HIDE DEF g
  <2>5. Attends(MyGroup(s), g)
    BY <2>3, <2>4 DEF Attends, Waits
  <2> HIDE DEF s
  <2>6. QED
    BY <1>1, <2>1, <2>2, <2>5, ExchangePresence DEF MyGroup
<1>3. CASE ~(IsCurrent(s, c) /\ InGroup(s))
  <2>1. groups' = groups
    BY <1>3 DEF SocketEnds
  <2>2. QED
    BY <1>1, <2>1, QuietPresence
<1>4. QED
  BY <1>2, <1>3

LEMMA CreateGroupPresence ==
  ASSUME IInv, NEW s \in Session, NEW id \in GroupId, CreateGroup(s, id)
  PROVE  Presence
<1> DEFINE rest == GroupsWithout(s)
<1>1. /\ groups' = [x \in DOMAIN rest \cup {id} |-> IF x = id THEN NewGroup(s) ELSE rest[x]]
      /\ unchecked' = unchecked \cap DOMAIN rest /\ id \notin DOMAIN groups
  BY DEF CreateGroup, FreshGroup
<1>2. \A x \in DOMAIN rest : x \in DOMAIN groups /\ Attends(groups[x], rest[x])
  BY WithoutAttends
<1> HIDE DEF rest
<1>3. QED
  BY <1>1, <1>2 DEF Presence

LEMMA JoinGroupPresence ==
  ASSUME IInv, NEW s \in Session, JoinGroup(s)
  PROVE  Presence
<1> DEFINE id == req[s].group
           rest == GroupsWithout(s)
<1>1. CASE id \notin DOMAIN rest \/ QueueItemIds(rest[id]) # req[s].expected
  <2>1. Leave(s, Online)
    BY <1>1 DEF JoinGroup
  <2>2. QED
    BY <2>1, LeavePresence
<1>2. CASE ~(id \notin DOMAIN rest \/ QueueItemIds(rest[id]) # req[s].expected)
  <2>1. PICK p \in JoinPositions(s, id) :
          groups' = [rest EXCEPT ![id] = AddMember(rest[id], s, p)]
    BY <1>2 DEF JoinGroup
  <2> DEFINE g == AddMember(rest[id], s, p)
  <2>2. /\ unchecked' = unchecked \cap DOMAIN rest
        /\ req[s].op = "join" /\ QueueItemIds(rest[id]) = req[s].expected
    BY <1>2 DEF JoinGroup
  <2>3. \A x \in DOMAIN rest : x \in DOMAIN groups /\ Attends(groups[x], rest[x])
    BY WithoutAttends
  <2>4. id \in DOMAIN rest /\ GroupInv(rest[id]) /\ GroupInv(groups[id])
    BY <1>2, <2>3, LeaveConsistent DEF Consistent, IInv
  <2>5. p \in Nat
    <3>1. rest[id].pos \in Nat /\ Estimated(rest[id]) \subseteq Nat
      BY <2>4, EstimatedNat DEF GroupInv, GroupShape, Group
    <3>2. QED
      BY <3>1 DEF JoinPositions
  <2>6. /\ g.members = rest[id].members \cup {s} /\ g.queue = rest[id].queue
        /\ Waits(rest[id]) => Waits(g)
        /\ p = GoesOnAt(rest[id]) /\ p # NoPos => GoesOnAt(g) = GoesOnAt(rest[id])
    BY <2>4, <2>5, AddMemberInv, AddMemberKeeps
  <2>7. ASSUME groups[id].state = "Waiting"
        PROVE  p = GoesOnAt(rest[id]) /\ p # NoPos
    <3>1. /\ id # sessionGroup[s] => rest[id] = groups[id]
          /\ id = sessionGroup[s] =>
               InGroup(s) /\ MyGroup(s) = groups[id] /\ rest[id] = Resolve(LeftBehind(s))
      BY <2>4, WithoutFacts DEF IInv, MyGroup
    <3>2. CASE id = sessionGroup[s] /\ Resolves(LeftBehind(s))
      <4>1. GroupInv(LeftBehind(s))
        BY <3>1, <3>2, LeftBehindFacts DEF IInv
      <4>2. Resolve(LeftBehind(s)).pending = NoPos
        BY <3>2, <4>1 DEF Resolve, GroupInv, GroupShape, Group
      <4>3. p = rest[id].pos
        BY <3>2 DEF JoinPositions
      <4>4. QED
        BY <2>5, <3>1, <3>2, <4>2, <4>3 DEF GoesOnAt, NoPos
    <3>3. CASE ~(id = sessionGroup[s] /\ Resolves(LeftBehind(s)))
      <4>1. rest[id].state = "Waiting"
        <5>1. CASE id = sessionGroup[s]
          <6>1. rest[id] = LeftBehind(s)
            BY <3>1, <3>3, <5>1 DEF Resolve
          <6>2. LeftBehind(s).state = groups[id].state
            BY <2>4, <3>1, <5>1, RemoveMemberKeeps DEF LeftBehind
          <6>3. QED
            BY <2>7, <6>1, <6>2
        <5>2. CASE id # sessionGroup[s]
          BY <2>7, <3>1, <5>2
        <5>3. QED
          BY <5>1, <5>2
      <4>2. p \in Estimated(rest[id])
        BY <3>3 DEF JoinPositions
      <4>3. QED
        BY <2>4, <4>1, <4>2, WaitingAt
    <3>4. QED
      BY <3>2, <3>3
  <2> HIDE DEF g
  <2>8. Attends(groups[id], g)
    <3>1. Attends(groups[id], rest[id])
      BY <2>3, <2>4
    <3>2. QueueItemIds(rest[id]) = QueueItemIds(groups[id])
      BY <3>1 DEF Attends, QueueItemIds
    <3>3. \A x \in g.members \ groups[id].members :
            req[x].op = "join" /\ req[x].expected = QueueItemIds(groups[id])
      <4> TAKE x \in g.members \ groups[id].members
      <4>1. x \in rest[id].members \/ x = s
        BY <2>6
      <4>2. QED
        BY <2>2, <3>1, <3>2, <4>1 DEF Attends
    <3>4. QED
      BY <2>6, <2>7, <3>1, <3>3 DEF Attends
  <2>9. groups' = [rest EXCEPT ![id] = g]
    BY <2>1 DEF g
  <2> HIDE DEF rest, id
  <2>10. QED
    BY <2>2, <2>3, <2>4, <2>8, <2>9 DEF Presence
<1>3. QED
  BY <1>1, <1>2

LEMMA PresenceEffect ==
  ASSUME IInv, SocketStep \/ SessionEndStep \/ MembershipStep
  PROVE  Presence
<1>1. ASSUME NEW d \in GraceId, TimerFires(d)
      PROVE  Presence
  BY <1>1, LeavePresence, QuietPresence DEF TimerFires, IInv, OtherTypes
<1>2. ASSUME NEW s \in Session, Logout(s) \/ FinishLogout(s) \/ Revoke(s) \/ FinishRevoke(s)
      PROVE  Presence
  BY <1>2, LeavePresence, QuietPresence
     DEF Logout, FinishLogout, Revoke, FinishRevoke, EndSession
<1>3. ASSUME NEW s \in Session, NEW id \in GroupId, CreateGroup(s, id) \/ CheckJoin(s, id)
      PROVE  Presence
  BY <1>3, CreateGroupPresence, QuietPresence DEF CheckJoin
<1>4. ASSUME NEW s \in Session, JoinGroup(s) \/ AbandonRequest(s) \/ LeaveGroup(s)
      PROVE  Presence
  BY <1>4, JoinGroupPresence, LeavePresence, QuietPresence DEF AbandonRequest, LeaveGroup
<1>5. QED
  BY <1>1, <1>2, <1>3, <1>4, RegisterPresence, SocketEndsPresence
     DEF SocketStep, SessionEndStep, MembershipStep

---------------------------------------------------------------------------
(* Waits                                                                   *)

\* Somebody is waited for, with something queued to be loaded.
AllWait == \A id \in DOMAIN groups : Waits(groups[id])

LEMMA UpdateWaits ==
  ASSUME ~EmptyQueueControl, AllWait, NEW s \in Session, NEW g, NEW parts,
         IInv, Changes(s, g, parts), Update(s, g, parts)
  PROVE  AllWait'
<1>1. sessionGroup[s] \in DOMAIN groups
  BY MyGroupFacts DEF Changes, IInv
<1>2. groups' = [groups EXCEPT ![sessionGroup[s]] = g]
  BY DEF Update
<1>3. Waits(g)
  BY <1>1 DEF AllWait, Changes, MyGroup
<1>4. QED
  BY <1>1, <1>2, <1>3 DEF AllWait

LEMMA NextWaits ==
  ASSUME ~EmptyQueueControl, IInv, AllWait, [Next]_vars
  PROVE  AllWait'
<1>1. CASE groups' = groups
  BY <1>1 DEF AllWait
<1>2. CASE SocketStep \/ SessionEndStep \/ MembershipStep
  <2>1. Presence
    BY <1>2, PresenceEffect
  <2>2. QED
    BY <2>1, NewGroupKeeps DEF Presence, Attends, AllWait
<1>3. CASE QueueStep
  BY <1>1, <1>3, QueueEffect, UpdateWaits DEF CheckQueue, Queues
<1>4. CASE EditStep
  BY <1>1, <1>4, EditEffect, UpdateWaits DEF CorrectPlaylist, PlaysOn, Playback
<1>5. CASE ControlStep
  BY <1>5, ControlEffect, UpdateWaits DEF PlaysOn, Playback
<1>6. CASE ReportStep
  BY <1>6, ReportEffect, UpdateWaits DEF PlaysOn, Playback
<1>7. QED
  BY <1>1, <1>2, <1>3, <1>4, <1>5, <1>6 DEF Next, vars

\* As long as clients neither seek nor report loading with nothing queued, a group
\* that waits has a member to wait for, whose report, departure or loss ends the
\* wait: no group waits for nobody.
THEOREM WaitsHold == ASSUME ~EmptyQueueControl PROVE Spec => []WaitsForSomebody
<1>1. Init => AllWait
  BY DEF Init, AllWait
<1>2. IInv /\ AllWait /\ [Next]_vars => AllWait'
  BY NextWaits
<1>3. AllWait => WaitsForSomebody
  BY DEF AllWait, Waits, WaitsForSomebody
<1>4. QED
  BY <1>1, <1>2, <1>3, Invariance, PTL DEF Spec

\* Whoever reports, joins, leaves, drops or returns during a wait, the group goes
\* on from the position the wait was started for.
THEOREM WaitPositionKept == Spec => WaitKeepsPosition
<1> DEFINE A == (SocketStep \/ SessionEndStep \/ MembershipStep \/ ReportStep) =>
                 \A id \in DOMAIN groups \cap DOMAIN groups' :
                   groups[id].state = "Waiting" => Target(groups'[id]) = Target(groups[id])
<1>1. IInv /\ [Next]_vars => [A]_vars
  <2> SUFFICES ASSUME IInv, SocketStep \/ SessionEndStep \/ MembershipStep \/ ReportStep,
                      NEW id \in DOMAIN groups \cap DOMAIN groups',
                      groups[id].state = "Waiting"
               PROVE  Target(groups'[id]) = Target(groups[id])
    OBVIOUS
  <2>1. CASE SocketStep \/ SessionEndStep \/ MembershipStep
    BY <2>1, PresenceEffect DEF Presence, Attends, Target, GoesOnAt
  <2>2. CASE ReportStep
    <3>1. PICK s \in Session, g \in Group, parts \in SUBSET {"queue", "state"} :
            /\ PlaysOn(s, g, parts)
            /\ MyGroup(s).state = "Waiting" => GoesOnAt(g) = GoesOnAt(MyGroup(s))
      BY <2>2, ReportEffect
    <3>2. groups' = [groups EXCEPT ![sessionGroup[s]] = g]
      BY <3>1 DEF PlaysOn, Playback, Update
    <3>3. CASE id = sessionGroup[s]
      BY <3>1, <3>2, <3>3 DEF MyGroup, Target, GoesOnAt
    <3>4. CASE id # sessionGroup[s]
      BY <3>2, <3>4
    <3>5. QED
      BY <3>3, <3>4
  <2>3. QED
    BY <2>1, <2>2
<1>2. QED
  BY <1>1, Invariance, PTL DEF Spec, WaitKeepsPosition

---------------------------------------------------------------------------
(* Access to what is queued                                                *)

\* The users of all members have access to everything queued.
Sees(g) == \A m \in g.members : QueuedItems(g.queue) \subseteq CanSee[m]

\* What a check has found is what its request relies on.
Checked(r) ==
  /\ req[r].op = "join" =>
       \A i \in 1..Len(req[r].expected) : req[r].expected[i] \in CanSee[r]
  /\ req[r].op \in {"set", "queue"} /\ req[r].checked =>
       \A m \in req[r].expected, i \in 1..Len(req[r].items) : req[r].items[i] \in CanSee[m]

AllSee ==
  /\ \A id \in DOMAIN groups \ unchecked : Sees(groups[id])
  /\ \A r \in Session : Checked(r)

\* Requests that are forgotten or left alone.
LEMMA CheckedKept ==
  ASSUME AllSee, NEW r \in Session, req'[r] \in {req[r], NoReq}
  PROVE  Checked(r)'
BY DEF AllSee, Checked, NoReq

LEMMA CheckJoinSees ==
  ASSUME IInv, AllSee, NEW s \in Session, NEW id, CheckJoin(s, id)
  PROVE  AllSee'
<1>1. /\ UNCHANGED <<groups, unchecked>>
      /\ req' = [req EXCEPT ![s] = [op |-> "join", group |-> id,
                                    expected |-> QueueItemIds(groups[id])]]
      /\ \A i \in 1..Len(groups[id].queue) : groups[id].queue[i].item \in CanSee[s]
      /\ req \in [Session -> Request]
  BY DEF CheckJoin, IInv, OtherTypes
<1>2. ASSUME NEW r \in Session
      PROVE  Checked(r)'
  <2>1. CASE r = s
    <3> DEFINE q == QueueItemIds(groups[id])
    <3>1. /\ DOMAIN q = 1..Len(groups[id].queue)
          /\ \A i \in 1..Len(groups[id].queue) : q[i] = groups[id].queue[i].item
      BY DEF QueueItemIds
    <3>2. Len(q) = Len(groups[id].queue)
      <4>1. GroupInv(groups[id])
        BY DEF CheckJoin, IInv, Consistent
      <4>2. q \in Seq(Item) /\ Len(groups[id].queue) \in Nat
        BY <4>1, QueueItemIdsType DEF GroupInv, GroupShape, Group
      <4> HIDE DEF q
      <4>3. QED
        BY <3>1, <4>2
    <3>3. req'[r].op = "join" /\ req'[r].expected = q
      BY <1>1, <2>1
    <3> HIDE DEF q
    <3>4. QED
      BY <1>1, <2>1, <3>1, <3>2, <3>3 DEF Checked
  <2>2. CASE r # s
    BY <1>1, <2>2, CheckedKept
  <2>3. QED
    BY <2>1, <2>2
<1>3. QED
  BY <1>1, <1>2 DEF AllSee

LEMMA CheckQueueSees ==
  ASSUME IInv, AllSee, NEW s \in Session, NEW op \in {"set", "queue"}, NEW items \in Payloads,
         CheckQueue(s, op, items)
  PROVE  AllSee'
<1> DEFINE expected == IF InGroup(s) THEN MyGroup(s).members ELSE {}
<1>1. /\ UNCHANGED <<groups, unchecked>> /\ req \in [Session -> Request]
      /\ req' = [req EXCEPT ![s] = [op |-> op, items |-> items, checked |-> InGroup(s),
                                    expected |-> expected]]
      /\ InGroup(s) => \A m \in expected, i \in 1..Len(items) : items[i] \in CanSee[m]
  BY DEF CheckQueue, IInv, OtherTypes
<1> HIDE DEF expected
<1>2. ASSUME NEW r \in Session
      PROVE  Checked(r)'
  <2>1. CASE r = s
    BY <1>1, <2>1 DEF Checked
  <2>2. CASE r # s
    BY <1>1, <2>2, CheckedKept
  <2>3. QED
    BY <2>1, <2>2
<1>3. QED
  BY <1>1, <1>2 DEF AllSee

\* Members come and go: who joins has been checked for the queue as it still is.
LEMMA PresenceSees ==
  ASSUME IInv, AllSee, Presence, NEW id \in DOMAIN groups' \ unchecked',
         Consistent(groups', sessionGroup')
  PROVE  Sees(groups'[id])
<1>1. CASE id \in DOMAIN groups
  <2> DEFINE g == groups[id]
             h == groups'[id]
  <2>1. /\ h.queue = g.queue /\ Sees(g)
        /\ \A s \in h.members \ g.members :
             req[s].op = "join" /\ req[s].expected = QueueItemIds(g)
    BY <1>1 DEF Presence, Attends, AllSee
  <2>2. /\ h.members \subseteq Session
        /\ g.queue \in Seq(Entry) /\ QueueItemIds(g) \in Seq(Item)
    BY <1>1, QueueItemIdsType DEF IInv, Consistent, GroupInv, GroupShape, Group
  <2>3. Len(QueueItemIds(g)) = Len(g.queue)
        /\ \A i \in 1..Len(g.queue) : QueueItemIds(g)[i] = g.queue[i].item
    <3>1. DOMAIN QueueItemIds(g) = 1..Len(g.queue) /\ Len(g.queue) \in Nat
          /\ \A i \in 1..Len(g.queue) : QueueItemIds(g)[i] = g.queue[i].item
      BY <2>2 DEF QueueItemIds
    <3> HIDE DEF g
    <3>2. QED
      BY <2>2, <3>1
  <2> HIDE DEF g, h
  <2>4. ASSUME NEW m \in h.members \ g.members
        PROVE  QueuedItems(g.queue) \subseteq CanSee[m]
    <3>1. \A i \in 1..Len(QueueItemIds(g)) : QueueItemIds(g)[i] \in CanSee[m]
      BY <2>1, <2>2, <2>4 DEF AllSee, Checked
    <3>2. QED
      BY <2>3, <3>1 DEF QueuedItems
  <2>5. Sees(h)
    BY <2>1, <2>4 DEF Sees
  <2>6. QED
    BY <2>5 DEF h
<1>2. CASE id \notin DOMAIN groups
  <2>1. PICK s \in Session : groups'[id] = NewGroup(s)
    BY <1>2 DEF Presence
  <2>2. groups'[id].queue = <<>>
    BY <2>1, NewGroupKeeps
  <2>3. QED
    BY <2>2 DEF Sees, QueuedItems
<1>3. QED
  BY <1>1, <1>2

\* The group of s takes a queue of items that its members may see, or is unchecked.
LEMMA UpdateSees ==
  ASSUME IInv, AllSee, NEW s \in Session, NEW g, NEW parts, Changes(s, g, parts),
         Update(s, g, parts), sessionGroup[s] \notin unchecked' => Sees(g),
         \A id \in DOMAIN groups \ {sessionGroup[s]} : id \in unchecked => id \in unchecked',
         \A r \in Session : req'[r] \in {req[r], NoReq}
  PROVE  AllSee'
<1>1. groups' = [groups EXCEPT ![sessionGroup[s]] = g] /\ sessionGroup[s] \in DOMAIN groups
  BY MyGroupFacts DEF Update, Changes, IInv
<1>2. \A id \in DOMAIN groups' \ unchecked' : Sees(groups'[id])
  BY <1>1 DEF AllSee
<1>3. QED
  BY <1>2, CheckedKept DEF AllSee, Sees

LEMMA PlaysOnSees ==
  ASSUME IInv, AllSee, NEW s \in Session, NEW g, NEW parts, PlaysOn(s, g, parts)
  PROVE  AllSee'
<1>1. /\ Changes(s, g, parts) /\ Update(s, g, parts) /\ req' = req /\ unchecked' = unchecked
      /\ QueuedItems(g.queue) \subseteq QueuedItems(MyGroup(s).queue)
      /\ g.members = MyGroup(s).members /\ sessionGroup[s] \in DOMAIN groups
  BY MyGroupFacts DEF PlaysOn, Playback, Changes, IInv
<1>2. sessionGroup[s] \notin unchecked' => Sees(g)
  BY <1>1 DEF AllSee, Sees, MyGroup
<1>3. QED
  BY <1>1, <1>2, UpdateSees

LEMMA QueuesSees ==
  ASSUME IInv, AllSee, NEW s \in Session, NEW g, NEW parts, Queues(s, g, parts)
  PROVE  AllSee'
<1> DEFINE items == {req[s].items[i] : i \in 1..Len(req[s].items)}
           id == sessionGroup[s]
<1>1. /\ Changes(s, g, parts) /\ Update(s, g, parts)
      /\ StillExpected(s) /\ req' = [req EXCEPT ![s] = NoReq]
      /\ g.members = MyGroup(s).members /\ id \in DOMAIN groups
      /\ req \in [Session -> Request] /\ req[s].op \in {"set", "queue"}
  BY MyGroupFacts DEF Queues, Changes, IInv, OtherTypes
<1>2. ASSUME req[s].checked
      PROVE  \A m \in g.members : items \subseteq CanSee[m]
  BY <1>1, <1>2 DEF AllSee, Checked, StillExpected
<1>3. /\ \/ QueuedItems(g.queue) = items
            /\ unchecked' = IF req[s].checked THEN unchecked \ {id} ELSE unchecked \cup {id}
         \/ QueuedItems(g.queue) \subseteq QueuedItems(MyGroup(s).queue) \cup items
            /\ unchecked' = IF req[s].checked THEN unchecked ELSE unchecked \cup {id}
  BY DEF Queues
<1> HIDE DEF items
<1>4. id \notin unchecked' => Sees(g)
  <2> SUFFICES ASSUME id \notin unchecked', NEW m \in g.members
               PROVE  QueuedItems(g.queue) \subseteq CanSee[m]
    BY DEF Sees
  <2>1. req[s].checked
    BY <1>3
  <2>2. items \subseteq CanSee[m]
    BY <1>2, <2>1
  <2>3. CASE QueuedItems(g.queue) = items
    BY <2>2, <2>3
  <2>4. CASE /\ QueuedItems(g.queue) \subseteq QueuedItems(MyGroup(s).queue) \cup items
             /\ unchecked' = unchecked
    <3>1. QueuedItems(MyGroup(s).queue) \subseteq CanSee[m]
      BY <1>1, <2>4 DEF AllSee, Sees, MyGroup
    <3>2. QED
      BY <2>2, <2>4, <3>1
  <2>5. QED
    BY <1>3, <2>1, <2>3, <2>4
<1>5. \A x \in DOMAIN groups \ {id} : x \in unchecked => x \in unchecked'
  BY <1>3
<1>6. \A r \in Session : req'[r] \in {req[r], NoReq}
  BY <1>1
<1>7. QED
  BY <1>1, <1>4, <1>5, <1>6, UpdateSees

LEMMA NextSees ==
  ASSUME IInv, AllSee, [Next]_vars
  PROVE  AllSee'
<1>1. ASSUME UNCHANGED <<groups, unchecked, req>>
      PROVE  AllSee'
  BY <1>1 DEF AllSee, Checked
<1>2. ASSUME SocketStep \/ SessionEndStep \/ MembershipStep,
             \A r \in Session : req'[r] \in {req[r], NoReq}
      PROVE  AllSee'
  <2>1. Presence
    BY <1>2, PresenceEffect
  <2>2. Consistent(groups', sessionGroup')
    BY NextIInv DEF IInv
  <2>3. \A r \in Session : Checked(r)'
    BY <1>2, CheckedKept
  <2>4. \A id \in DOMAIN groups' \ unchecked' : Sees(groups'[id])
    BY <2>1, <2>2, PresenceSees
  <2>5. QED
    BY <2>3, <2>4 DEF AllSee, Sees
<1>3. CASE SocketStep \/ SessionEndStep
  <2>1. req' = req
    BY <1>3 DEF SocketStep, Register, SocketEnds, TimerFires, SessionEndStep, Logout,
       FinishLogout, Revoke, FinishRevoke
  <2>2. QED
    BY <1>2, <1>3, <2>1
<1>4. CASE MembershipStep
  <2>1. PICK s \in Session :
          \/ \E id \in GroupId : CreateGroup(s, id) \/ CheckJoin(s, id)
          \/ JoinGroup(s)
          \/ AbandonRequest(s)
          \/ LeaveGroup(s)
    BY <1>4 DEF MembershipStep
  <2>2. CASE \E id \in GroupId : CheckJoin(s, id)
    BY <2>2, CheckJoinSees
  <2>3. CASE ~\E id \in GroupId : CheckJoin(s, id)
    <3>1. req' = req \/ req' = [req EXCEPT ![s] = NoReq]
      BY <2>1, <2>3 DEF CreateGroup, JoinGroup, AbandonRequest, LeaveGroup
    <3>2. \A r \in Session : req'[r] \in {req[r], NoReq}
      BY <3>1 DEF IInv, OtherTypes
    <3>3. QED
      BY <1>2, <1>4, <3>2
  <2>4. QED
    BY <2>2, <2>3
<1>5. CASE QueueStep
  BY <1>5, QueueEffect, CheckQueueSees, QueuesSees
<1>6. CASE EditStep
  BY <1>1, <1>6, EditEffect, PlaysOnSees DEF CorrectPlaylist
<1>7. CASE ControlStep
  BY <1>7, ControlEffect, PlaysOnSees
<1>8. CASE ReportStep
  BY <1>8, ReportEffect, PlaysOnSees
<1>9. CASE UNCHANGED vars
  BY <1>1, <1>9 DEF vars
<1>10. QED
  BY <1>3, <1>4, <1>5, <1>6, <1>7, <1>8, <1>9 DEF Next

\* The library checks are awaited without the lock, and still nobody is in a group
\* with something queued that the user may not see, but for groups whose queue was
\* changed by a request that found no group to check when it was sent.
THEOREM AccessHolds == Spec => []QueueWithinAccess
<1>1. Init => AllSee
  BY DEF Init, AllSee, Checked, NoReq
<1>2. IInv /\ AllSee /\ [Next]_vars => AllSee'
  BY NextSees
<1>3. AllSee => QueueWithinAccess
  BY DEF AllSee, Sees, QueuedItems, QueueWithinAccess
<1>4. QED
  BY <1>1, <1>2, <1>3, Invariance, PTL DEF Spec
=============================================================================
