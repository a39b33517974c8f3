------------------------ MODULE ClientSessionsProofs ------------------------
(***************************************************************************)
(* Proofs about ClientSessions: its types, that clients of one place are   *)
(* kept apart, and that sessions do not go from under their connections.   *)
(*                                                                         *)
(* ClientsKeptApart needs to know that whoever acts for a session acts for *)
(* one whose id was drawn, so that a new session is nobody's yet.          *)
(***************************************************************************)
EXTENDS ClientSessions, TLAPS

Known == \A q \in Handler : Acts(q) => handlers[q].session \in drawn

IInv == TypeOK /\ Known /\ ClientsKeptApart

---------------------------------------------------------------------------
(* What the parts of the state give *)

\* A request with a step is of the kind of this step.
LEMMA HandlerKinds ==
  ASSUME TypeOK, NEW q \in Handler
  PROVE  /\ handlers[q].step = "arrived" => handlers[q] \in Arrived
         /\ Acts(q) => handlers[q] \in Acting
         /\ handlers[q] = Idle => ~Acts(q)
  BY DEF TypeOK, Acts, Arrived, Acting, Idle

\* Advancing a request that acts keeps what it acts for.
LEMMA Advancing ==
  ASSUME TypeOK, NEW q \in Handler, Acts(q),
         NEW step \in {"acting", "removing", "open", "checking", "closing"},
         Advance(q, step)
  PROVE  /\ handlers' \in [Handler -> {Idle} \cup Arrived \cup Acting]
         /\ \A r \in Handler : Acts(r)' =>
              /\ Acts(r)
              /\ handlers'[r].session = handlers[r].session
              /\ handlers'[r].client = handlers[r].client
  <1>1. handlers[q] \in Acting
    BY HandlerKinds
  <1>2. [handlers[q] EXCEPT !.step = step] \in Acting
    BY <1>1 DEF Acting
  <1>3. handlers' \in [Handler -> {Idle} \cup Arrived \cup Acting]
    BY <1>2 DEF Advance, TypeOK
  <1>4. ASSUME NEW r \in Handler, Acts(r)'
        PROVE  /\ Acts(r)
               /\ handlers'[r].session = handlers[r].session
               /\ handlers'[r].client = handlers[r].client
    <2>1. CASE r = q
      BY <2>1, <1>1 DEF Advance, TypeOK, Acting
    <2>2. CASE r # q
      BY <2>2, <1>4 DEF Advance, TypeOK, Acts
    <2> QED BY <2>1, <2>2
  <1> QED BY <1>3, <1>4

\* So does a request that ends, or one that arrives.
LEMMA Finishing ==
  ASSUME TypeOK, NEW q \in Handler, Finish(q)
  PROVE  /\ handlers' \in [Handler -> {Idle} \cup Arrived \cup Acting]
         /\ \A r \in Handler : Acts(r)' => Acts(r) /\ handlers'[r] = handlers[r]
  BY DEF TypeOK, Finish, Acts, Idle

\* A session is given to one request.
LEMMA Giving ==
  ASSUME TypeOK, NEW q \in Handler, handlers[q].step = "arrived",
         NEW s \in Session, Given(q, s)
  PROVE  /\ handlers' \in [Handler -> {Idle} \cup Arrived \cup Acting]
         /\ handlers'[q].session = s
         /\ handlers'[q].client = handlers[q].client
         /\ \A r \in Handler \ {q} : handlers'[r] = handlers[r]
  <1>1. handlers[q] \in Arrived
    BY HandlerKinds
  <1>2. [step |-> "acting", place |-> handlers[q].place, client |-> handlers[q].client,
         session |-> s] \in Acting
    BY <1>1 DEF Arrived, Acting
  <1> QED BY <1>2 DEF Given, TypeOK

\* What is taken off the list disturbs nobody.
LEMMA Fewer ==
  ASSUME IInv, NEW S, entries' = [s \in DOMAIN entries \cap S |-> entries[s]],
         drawn' = drawn,
         \A r \in Handler : Acts(r)' =>
           /\ Acts(r)
           /\ handlers'[r].session = handlers[r].session
           /\ handlers'[r].client = handlers[r].client
  PROVE  /\ DOMAIN entries' \subseteq drawn
         /\ entries' \in [DOMAIN entries' -> Entry]
         /\ Known' /\ ClientsKeptApart'
  <1>1. /\ DOMAIN entries' = DOMAIN entries \cap S
        /\ \A s \in DOMAIN entries' : entries'[s] = entries[s]
    OBVIOUS
  <1>2. DOMAIN entries' \subseteq drawn /\ entries' \in [DOMAIN entries' -> Entry]
    <2>1. \A s \in DOMAIN entries : entries[s] \in Entry
      BY DEF IInv, TypeOK
    <2> QED BY <1>1, <2>1 DEF IInv, TypeOK
  <1>3. Known'
    BY DEF IInv, Known
  <1>4. ClientsKeptApart'
    BY <1>1 DEF IInv, ClientsKeptApart
  <1> QED BY <1>2, <1>3, <1>4

---------------------------------------------------------------------------
(* ensure *)

\* What a client may be given.
LEMMA ExistingGives ==
  ASSUME NEW p, NEW c, NEW s \in Existing(p, c)
  PROVE  /\ s \in Kept /\ entries[s].place = p
         /\ c # Unknown => \/ entries[s].client = c
                           \/ entries[s].client = Unknown /\ Named(p, c) = {}
  BY DEF Existing, Sole, Named, Candidates

\* Where a client may be given nothing, there is no session under its name.
LEMMA NothingNamed ==
  ASSUME NEW p, NEW c, Existing(p, c) = {}
  PROVE  Named(p, c) = {}
  BY DEF Existing

\* A request that is given a session keeps the clients apart.
LEMMA ExistingKeeps ==
  ASSUME IInv, NEW q \in Handler, EnsureExisting(q)
  PROVE  IInv'
  <1> DEFINE p == handlers[q].place
             c == handlers[q].client
  <1>1. PICK s \in Existing(p, c) :
          /\ entries' = [r \in Kept |->
               IF r # s THEN entries[r]
               ELSE [entries[s] EXCEPT !.idle = FALSE,
                                       !.client = IF c = Unknown THEN @ ELSE c]]
          /\ Given(q, s)
    BY DEF EnsureExisting
  <1>2. /\ UNCHANGED <<users, drawn, hub, resetting>>
        /\ handlers[q].step = "arrived"
        /\ TypeOK
    BY DEF EnsureExisting, IInv
  <1>3. s \in Kept /\ entries[s].place = p
    BY ExistingGives
  <1>4. Kept \subseteq DOMAIN entries /\ Kept \subseteq drawn
    BY <1>2 DEF Kept, TypeOK
  <1>5. s \in Session /\ s \in drawn
    BY <1>2, <1>3, <1>4 DEF TypeOK
  <1>6. handlers[q] \in Arrived /\ c \in Name
    BY <1>2, HandlerKinds DEF Arrived
  <1>7. \A r \in Kept : entries[r] \in Entry
    BY <1>2, <1>4 DEF TypeOK
  <1>8. /\ DOMAIN entries' = Kept
        /\ \A r \in Kept \ {s} : entries'[r] = entries[r]
        /\ entries'[s] \in Entry
        /\ entries'[s].place = entries[s].place
        /\ entries'[s].client = IF c = Unknown THEN entries[s].client ELSE c
    BY <1>1, <1>3, <1>6, <1>7 DEF Entry
  <1>9. entries' \in [DOMAIN entries' -> Entry]
    <2>1. entries' = [r \in Kept |-> entries'[r]]
      BY <1>1
    <2>2. \A r \in Kept : entries'[r] \in Entry
      BY <1>7, <1>8
    <2> QED BY <2>1, <2>2, <1>8
  <1>10. /\ handlers' \in [Handler -> {Idle} \cup Arrived \cup Acting]
         /\ handlers'[q].session = s
         /\ handlers'[q].client = c
         /\ \A r \in Handler \ {q} : handlers'[r] = handlers[r]
    BY <1>1, <1>2, <1>5, Giving
  <1>11. TypeOK'
    BY <1>2, <1>4, <1>8, <1>9, <1>10 DEF TypeOK
  <1>12. Known'
    BY <1>2, <1>5, <1>10 DEF IInv, Known, Acts
  <1>13. entries[s].client # Unknown => entries'[s].client = entries[s].client
                                        \/ c = entries[s].client
    BY <1>8, ExistingGives
  <1>14. entries[s].client # Unknown => entries'[s].client = entries[s].client
    BY <1>8, <1>13
  <1>15. ASSUME NEW r \in DOMAIN entries', NEW t \in DOMAIN entries',
                entries'[r].place = entries'[t].place,
                entries'[r].client = entries'[t].client
         PROVE  r = t
    <2>1. CASE r # s /\ t # s
      BY <2>1, <1>4, <1>8, <1>15 DEF IInv, ClientsKeptApart
    <2>2. ASSUME NEW x \in Kept \ {s}, entries[x].place = p,
                 entries[x].client = entries'[s].client
          PROVE  FALSE
      <3>1. entries'[s].client = entries[s].client => x = s
        BY <2>2, <1>3, <1>4 DEF IInv, ClientsKeptApart
      <3>2. c # Unknown /\ entries[s].client = Unknown /\ Named(p, c) = {}
        BY <2>2, <3>1, <1>8, ExistingGives
      <3>3. x \in Named(p, c)
        BY <2>2, <3>2, <1>8 DEF Named, Candidates
      <3> QED BY <3>2, <3>3
    <2> QED BY <2>1, <2>2, <1>3, <1>8, <1>15
  <1>16. ASSUME NEW r \in Handler, Acts(r)', handlers'[r].client # Unknown,
                handlers'[r].session \in DOMAIN entries'
         PROVE  entries'[handlers'[r].session].client = handlers'[r].client
    <2>1. CASE r = q
      BY <2>1, <1>8, <1>10, <1>16
    <2>2. CASE r # q
      <3>1. Acts(r) /\ handlers'[r] = handlers[r]
        BY <2>2, <1>10, <1>16 DEF Acts
      <3>2. entries[handlers[r].session].client = handlers[r].client
        BY <3>1, <1>4, <1>8, <1>16 DEF IInv, ClientsKeptApart
      <3>3. CASE handlers[r].session = s
        BY <3>1, <3>2, <3>3, <1>14, <1>16
      <3>4. CASE handlers[r].session # s
        BY <3>1, <3>2, <3>4, <1>8, <1>16
      <3> QED BY <3>3, <3>4
    <2> QED BY <2>1, <2>2
  <1>17. ClientsKeptApart'
    BY <1>15, <1>16 DEF ClientsKeptApart
  <1> QED BY <1>11, <1>12, <1>17 DEF IInv

\* So does one that makes a session: nobody acts for it yet.
LEMMA NewKeeps ==
  ASSUME IInv, NEW q \in Handler, EnsureNew(q)
  PROVE  IInv'
  <1> DEFINE p == handlers[q].place
             c == handlers[q].client
             s == CHOOSE s \in Session : s \notin drawn
  <1>1. /\ UNCHANGED <<users, hub, resetting>>
        /\ handlers[q].step = "arrived"
        /\ Existing(p, c) = {}
        /\ drawn # Session
        /\ entries' = [r \in Kept \cup {s} |->
             IF r = s THEN [place |-> p, client |-> c, idle |-> FALSE] ELSE entries[r]]
        /\ drawn' = drawn \cup {s}
        /\ Given(q, s)
        /\ TypeOK
    BY DEF EnsureNew, IInv
  <1>2. s \in Session /\ s \notin drawn
    <2>1. \E x \in Session : x \notin drawn
      BY <1>1 DEF TypeOK
    <2> QED BY <2>1
  <1> HIDE DEF s
  <1>3. Kept \subseteq DOMAIN entries /\ Kept \subseteq drawn
    BY <1>1 DEF Kept, TypeOK
  <1>4. handlers[q] \in Arrived /\ p \in Place /\ c \in Name
    BY <1>1, HandlerKinds DEF Arrived
  <1>5. /\ DOMAIN entries' = Kept \cup {s}
        /\ \A r \in Kept : entries'[r] = entries[r]
        /\ entries'[s] = [place |-> p, client |-> c, idle |-> FALSE]
    BY <1>1, <1>2, <1>3
  <1>6. \A r \in DOMAIN entries' : entries'[r] \in Entry
    <2>1. \A r \in Kept : entries[r] \in Entry
      BY <1>1, <1>3 DEF TypeOK
    <2>2. entries'[s] \in Entry
      BY <1>4, <1>5 DEF Entry
    <2> QED BY <2>1, <2>2, <1>5
  <1>7. entries' \in [DOMAIN entries' -> Entry]
    <2>1. entries' = [r \in DOMAIN entries' |-> entries'[r]]
      BY <1>1, <1>5
    <2> QED BY <2>1, <1>6
  <1>8. /\ handlers' \in [Handler -> {Idle} \cup Arrived \cup Acting]
        /\ handlers'[q].session = s
        /\ handlers'[q].client = c
        /\ \A r \in Handler \ {q} : handlers'[r] = handlers[r]
    BY <1>1, <1>2, Giving
  <1>9. TypeOK'
    BY <1>1, <1>2, <1>3, <1>5, <1>7, <1>8 DEF TypeOK
  <1>10. Known'
    BY <1>1, <1>8 DEF IInv, Known, Acts
  <1>11. Named(p, c) = {}
    BY <1>1, NothingNamed
  <1>12. ASSUME NEW r \in Kept, entries[r].place = p, entries[r].client = c
         PROVE  FALSE
    BY <1>11, <1>12 DEF Named, Candidates
  <1>13. ASSUME NEW r \in DOMAIN entries', NEW t \in DOMAIN entries',
                entries'[r].place = entries'[t].place,
                entries'[r].client = entries'[t].client
         PROVE  r = t
    <2>1. CASE r \in Kept /\ t \in Kept
      BY <2>1, <1>3, <1>5, <1>13 DEF IInv, ClientsKeptApart
    <2>2. CASE r = s \/ t = s
      BY <2>2, <1>5, <1>12, <1>13
    <2> QED BY <2>1, <2>2, <1>5
  <1>14. ASSUME NEW r \in Handler, Acts(r)', handlers'[r].client # Unknown,
                handlers'[r].session \in DOMAIN entries'
         PROVE  entries'[handlers'[r].session].client = handlers'[r].client
    <2>1. CASE r = q
      BY <2>1, <1>5, <1>8
    <2>2. CASE r # q
      <3>1. Acts(r) /\ handlers'[r] = handlers[r]
        BY <2>2, <1>8, <1>14 DEF Acts
      <3>2. handlers[r].session \in Kept
        BY <3>1, <1>2, <1>5, <1>14 DEF IInv, Known
      <3> QED BY <3>1, <3>2, <1>3, <1>5, <1>14 DEF IInv, ClientsKeptApart
    <2> QED BY <2>1, <2>2
  <1>15. ClientsKeptApart'
    BY <1>13, <1>14 DEF ClientsKeptApart
  <1> QED BY <1>9, <1>10, <1>15 DEF IInv

---------------------------------------------------------------------------
(* The other steps, by what they change of the list *)

\* A step that leaves the list and the ids as they are.
LEMMA SameList ==
  ASSUME IInv, UNCHANGED <<users, entries, drawn, resetting>>,
         hub' \in [Session -> Handler \cup {None}],
         handlers' \in [Handler -> {Idle} \cup Arrived \cup Acting],
         \A r \in Handler : Acts(r)' =>
           /\ Acts(r)
           /\ handlers'[r].session = handlers[r].session
           /\ handlers'[r].client = handlers[r].client
  PROVE  IInv'
  <1>1. TypeOK'
    BY DEF IInv, TypeOK
  <1>2. Known' /\ ClientsKeptApart'
    BY DEF IInv, Known, ClientsKeptApart
  <1> QED BY <1>1, <1>2 DEF IInv

\* A step of the clock or a message of a client.
LEMMA Touched ==
  ASSUME IInv, NEW s \in DOMAIN entries, NEW b \in BOOLEAN,
         entries' = [entries EXCEPT ![s].idle = b],
         UNCHANGED <<users, drawn, hub, handlers, resetting>>
  PROVE  IInv'
  <1>1. /\ TypeOK
        /\ entries[s] \in Entry
    BY DEF IInv, TypeOK
  <1>2. [entries[s] EXCEPT !.idle = b] \in Entry
    BY <1>1 DEF Entry
  <1>3. /\ DOMAIN entries' = DOMAIN entries
        /\ entries' \in [DOMAIN entries' -> Entry]
    BY <1>1, <1>2 DEF TypeOK
  <1>4. \A r \in DOMAIN entries : /\ entries'[r].place = entries[r].place
                                  /\ entries'[r].client = entries[r].client
    BY <1>1 DEF Entry
  <1>5. TypeOK'
    BY <1>1, <1>3 DEF TypeOK
  <1>6. Known'
    BY DEF IInv, Known, Acts
  <1>7. ClientsKeptApart'
    BY <1>3, <1>4 DEF IInv, ClientsKeptApart, Acts
  <1> QED BY <1>5, <1>6, <1>7 DEF IInv

\* A step that takes sessions off the list.
LEMMA Shorter ==
  ASSUME IInv, NEW S, entries' = [s \in DOMAIN entries \cap S |-> entries[s]],
         UNCHANGED <<users, drawn>>,
         hub' \in [Session -> Handler \cup {None}],
         handlers' \in [Handler -> {Idle} \cup Arrived \cup Acting],
         resetting' \in drawn \cup {None},
         \A r \in Handler : Acts(r)' =>
           /\ Acts(r)
           /\ handlers'[r].session = handlers[r].session
           /\ handlers'[r].client = handlers[r].client
  PROVE  IInv'
  <1>1. /\ DOMAIN entries' \subseteq drawn
        /\ entries' \in [DOMAIN entries' -> Entry]
        /\ Known' /\ ClientsKeptApart'
    BY Fewer
  <1>2. TypeOK'
    BY <1>1 DEF IInv, TypeOK
  <1> QED BY <1>1, <1>2 DEF IInv

\* remove, as a step that takes one session off the list.
LEMMA Removing ==
  ASSUME TypeOK, NEW s \in Session, Remove(s)
  PROVE  /\ entries' = [r \in DOMAIN entries \cap (Session \ {s}) |-> entries[r]]
         /\ hub' \in [Session -> Handler \cup {None}]
  <1>1. DOMAIN entries \ {s} = DOMAIN entries \cap (Session \ {s})
    BY DEF TypeOK
  <1> QED BY <1>1 DEF Remove, Disconnected, TypeOK

\* What is kept is on the list.
LEMMA Keeping ==
  [s \in Kept |-> entries[s]] = [s \in DOMAIN entries \cap Kept |-> entries[s]]
  BY DEF Kept

---------------------------------------------------------------------------
\* The invariant holds before anybody has called.
LEMMA Initially == Init => IInv
  <1> SUFFICES ASSUME Init
               PROVE  IInv
    OBVIOUS
  <1>1. TypeOK
    BY DEF Init, TypeOK
  <1>2. \A q \in Handler : ~Acts(q)
    BY DEF Init, Acts, Idle
  <1>3. Known /\ ClientsKeptApart
    BY <1>2 DEF Init, Known, ClientsKeptApart
  <1> QED BY <1>1, <1>3 DEF IInv

\* Requests that find, make and end sessions keep it.
LEMMA RequestSteps ==
  ASSUME IInv, NEW q \in Handler, RequestStep(q)
  PROVE  IInv'
  <1> USE DEF IInv
  <1>1. ASSUME NEW p \in Place, NEW c \in Name, Arrive(q, p, c)
        PROVE  IInv'
    <2>1. [step |-> "arrived", place |-> p, client |-> c] \in Arrived
      BY DEF Arrived
    <2>2. handlers' \in [Handler -> {Idle} \cup Arrived \cup Acting]
      BY <1>1, <2>1 DEF Arrive, TypeOK
    <2>3. \A r \in Handler : Acts(r)' => Acts(r) /\ handlers'[r] = handlers[r]
      BY <1>1 DEF Arrive, TypeOK, Acts
    <2>4. UNCHANGED <<users, entries, drawn, hub, resetting>>
      BY <1>1 DEF Arrive
    <2> QED BY <2>2, <2>3, <2>4, SameList DEF TypeOK
  <1>2. CASE EnsureExisting(q)
    BY <1>2, ExistingKeeps
  <1>3. CASE EnsureNew(q)
    BY <1>3, NewKeeps
  <1>4. CASE Done(q)
    BY <1>4, Finishing, SameList DEF Done, TypeOK
  <1>5. CASE Logout(q)
    <2>1. Acts(q) /\ Advance(q, "removing")
      BY <1>5 DEF Logout, Acts
    <2>2. hub' \in [Session -> Handler \cup {None}]
      BY <1>5 DEF Logout, Disconnected, TypeOK
    <2>3. UNCHANGED <<users, entries, drawn, resetting>>
      BY <1>5 DEF Logout
    <2> QED BY <2>1, <2>2, <2>3, Advancing, SameList
  <1>6. CASE FinishLogout(q)
    <2>1. Acts(q) /\ Finish(q) /\ Remove(handlers[q].session)
      BY <1>6 DEF FinishLogout, Acts
    <2>2. handlers[q].session \in Session
      BY <2>1, HandlerKinds DEF Acting
    <2>3. UNCHANGED <<users, drawn, resetting>>
      BY <1>6 DEF FinishLogout
    <2> QED BY <2>1, <2>2, <2>3, Removing, Finishing, Shorter DEF TypeOK
  <1> QED BY <1>1, <1>2, <1>3, <1>4, <1>5, <1>6 DEF RequestStep

\* The steps of a socket keep it.
LEMMA SocketSteps ==
  ASSUME IInv, NEW q \in Handler, SocketStep(q)
  PROVE  IInv'
  <1> USE DEF IInv
  <1>1. CASE Register(q)
    <2>1. Acts(q) /\ Advance(q, "open")
      BY <1>1 DEF Register, Acts
    <2>2. hub' \in [Session -> Handler \cup {None}]
      BY <1>1 DEF Register, TypeOK
    <2>3. UNCHANGED <<users, entries, drawn, resetting>>
      BY <1>1 DEF Register
    <2> QED BY <2>1, <2>2, <2>3, Advancing, SameList
  <1>2. CASE Inbound(q)
    BY <1>2, Touched DEF Inbound
  <1>3. CASE Close(q) \/ Replaced(q)
    <2>1. Acts(q) /\ Advance(q, "closing")
      BY <1>3 DEF Close, Replaced, Acts
    <2>2. UNCHANGED <<users, entries, drawn, hub, resetting>>
      BY <1>3 DEF Close, Replaced
    <2> QED BY <2>1, <2>2, Advancing, SameList DEF TypeOK
  <1>4. CASE BeginCheck(q)
    <2>1. Acts(q) /\ \E step \in {"checking", "closing"} : Advance(q, step)
      BY <1>4 DEF BeginCheck, Acts
    <2>2. UNCHANGED <<users, entries, drawn, hub, resetting>>
      BY <1>4 DEF BeginCheck
    <2> QED BY <2>1, <2>2, Advancing, SameList DEF TypeOK
  <1>5. CASE FinishCheck(q)
    <2>1. Acts(q)
      BY <1>5 DEF FinishCheck, Acts
    <2>2. handlers[q].session \in Session
      BY <2>1, HandlerKinds DEF Acting
    <2>3. CASE UserOf[handlers[q].place] \in users
      BY <1>5, <2>1, <2>3, Advancing, SameList DEF FinishCheck, TypeOK
    <2>4. CASE UserOf[handlers[q].place] \notin users
      <3>1. Advance(q, "closing") /\ Remove(handlers[q].session)
        BY <1>5, <2>4 DEF FinishCheck
      <3>2. UNCHANGED <<users, drawn, resetting>>
        BY <1>5 DEF FinishCheck
      <3> QED BY <2>1, <2>2, <3>1, <3>2, Removing, Advancing, Shorter DEF TypeOK
    <2> QED BY <2>3, <2>4
  <1>6. CASE Unregister(q)
    <2>1. Finish(q) /\ UNCHANGED <<users, entries, drawn, resetting>>
      BY <1>6 DEF Unregister
    <2>2. hub' \in [Session -> Handler \cup {None}]
      BY <1>6 DEF Unregister, Disconnected, TypeOK
    <2> QED BY <2>1, <2>2, Finishing, SameList
  <1> QED BY <1>1, <1>2, <1>3, <1>4, <1>5, <1>6 DEF SocketStep

\* Steps of the administrator, of lists of sessions and of time.
LEMMA OtherSteps ==
  ASSUME IInv,
         \/ AdminStep \/ ForUser
         \/ \E s \in Session : Validate(s) \/ Age(s)
  PROVE  IInv'
  <1> USE DEF IInv
  <1>1. ASSUME NEW u \in User, DeleteUser(u)
        PROVE  IInv'
    <2>1. TypeOK'
      BY <1>1 DEF DeleteUser, TypeOK
    <2>2. Known' /\ ClientsKeptApart'
      BY <1>1 DEF DeleteUser, Known, ClientsKeptApart, Acts
    <2> QED BY <2>1, <2>2
  <1>2. ASSUME NEW s \in Session, BeginReset(s)
        PROVE  IInv'
    <2>1. TypeOK'
      BY <1>2 DEF BeginReset, Disconnected, TypeOK
    <2>2. Known' /\ ClientsKeptApart'
      BY <1>2 DEF BeginReset, Known, ClientsKeptApart, Acts
    <2> QED BY <2>1, <2>2
  <1>3. CASE FinishReset
    <2>1. /\ Remove(resetting) /\ resetting' = None
          /\ UNCHANGED <<users, drawn, handlers>>
      BY <1>3 DEF FinishReset
    <2>2. resetting \in Session
      BY <1>3 DEF FinishReset, TypeOK
    <2>3. \A r \in Handler : Acts(r)' = Acts(r)
      BY <2>1 DEF Acts
    <2> QED BY <2>1, <2>2, <2>3, Removing, Shorter DEF TypeOK
  <1>4. CASE AbandonReset
    <2>1. TypeOK'
      BY <1>4 DEF AbandonReset, TypeOK
    <2>2. Known' /\ ClientsKeptApart'
      BY <1>4 DEF AbandonReset, Known, ClientsKeptApart, Acts
    <2> QED BY <2>1, <2>2
  <1>5. CASE ForUser
    <2>1. \A r \in Handler : Acts(r)' = Acts(r)
      BY <1>5 DEF ForUser, Acts
    <2> QED BY <1>5, <2>1, Keeping, Shorter DEF ForUser, TypeOK
  <1>6. ASSUME NEW s \in Session, Validate(s)
        PROVE  IInv'
    <2>1. Remove(s) /\ UNCHANGED <<users, drawn, handlers, resetting>>
      BY <1>6 DEF Validate
    <2>2. \A r \in Handler : Acts(r)' = Acts(r)
      BY <2>1 DEF Acts
    <2> QED BY <2>1, <2>2, Removing, Shorter DEF TypeOK
  <1>7. ASSUME NEW s \in Session, Age(s)
        PROVE  IInv'
    BY <1>7, Touched DEF Age
  <1> QED BY <1>1, <1>2, <1>3, <1>4, <1>5, <1>6, <1>7 DEF AdminStep

\* Every step keeps it.
LEMMA Inductive == IInv /\ [Next]_vars => IInv'
  <1> SUFFICES ASSUME IInv, [Next]_vars
               PROVE  IInv'
    OBVIOUS
  <1>1. CASE UNCHANGED vars
    BY <1>1 DEF vars, IInv, TypeOK, Known, ClientsKeptApart, Acts
  <1>2. CASE Next
    BY <1>2, RequestSteps, SocketSteps, OtherSteps DEF Next
  <1> QED BY <1>1, <1>2

\* The inductive invariant holds in every reachable state: whoever acts for a session of
\* ClientSessionService acts for one that was made, under the name it was given.
THEOREM Invariance == Spec => []IInv
  BY Initially, Inductive, PTL DEF Spec

\* The state keeps its types, for any places, clients, sessions and requests.
THEOREM TypeCorrect == Spec => []TypeOK
  BY Invariance, PTL DEF IInv

\* No two clients that gave their names are given one session, for any numbers of
\* clients, devices and requests (sessions/service.rs, ensure).
THEOREM ClientsApart == Spec => []ClientsKeptApart
  BY Invariance, PTL DEF IInv

---------------------------------------------------------------------------
\* What a step takes off the list was not connected, or is not any more.
LEMMA OffTheList ==
  ASSUME IInv, Next, NEW s \in DOMAIN entries \ DOMAIN entries'
  PROVE  hub'[s] = None
  <1> USE DEF IInv
  <1>1. s \in Session
    BY DEF TypeOK
  <1>2. ASSUME NEW x \in Session, Remove(x)
        PROVE  hub'[s] = None
    BY <1>1, <1>2 DEF Remove, Disconnected, TypeOK
  <1>3. ASSUME hub' = hub, Kept \subseteq DOMAIN entries'
        PROVE  hub'[s] = None
    BY <1>3 DEF Kept
  <1>4. ASSUME NEW q \in Handler, RequestStep(q)
        PROVE  hub'[s] = None
    <2>1. CASE EnsureExisting(q)
      BY <2>1, <1>3 DEF EnsureExisting
    <2>2. CASE EnsureNew(q)
      BY <2>2, <1>3 DEF EnsureNew
    <2>3. CASE FinishLogout(q)
      <3>1. Acts(q) /\ Remove(handlers[q].session)
        BY <2>3 DEF FinishLogout, Acts
      <3>2. handlers[q].session \in Session
        BY <3>1, HandlerKinds DEF Acting
      <3> QED BY <3>1, <3>2, <1>2
    <2> QED BY <1>4, <2>1, <2>2, <2>3 DEF RequestStep, Arrive, Done, Logout
  <1>5. ASSUME NEW q \in Handler, SocketStep(q)
        PROVE  hub'[s] = None
    <2>1. CASE FinishCheck(q)
      <3>1. Acts(q) /\ Remove(handlers[q].session)
        BY <2>1 DEF FinishCheck, Acts
      <3>2. handlers[q].session \in Session
        BY <3>1, HandlerKinds DEF Acting
      <3> QED BY <3>1, <3>2, <1>2
    <2>2. CASE Inbound(q)
      BY <2>2 DEF Inbound, TypeOK
    <2> QED BY <1>5, <2>1, <2>2
            DEF SocketStep, Register, Close, Replaced, BeginCheck, Unregister
  <1>6. CASE AdminStep
    <2>1. CASE FinishReset
      <3>1. resetting \in Session /\ Remove(resetting)
        BY <2>1 DEF FinishReset, TypeOK
      <3> QED BY <3>1, <1>2
    <2> QED BY <1>6, <2>1 DEF AdminStep, DeleteUser, BeginReset, AbandonReset
  <1>7. CASE ForUser
    BY <1>7, <1>3 DEF ForUser
  <1>8. ASSUME NEW x \in Session, Validate(x)
        PROVE  hub'[s] = None
    BY <1>8, <1>2 DEF Validate
  <1>9. ASSUME NEW x \in Session, Age(x)
        PROVE  hub'[s] = None
    BY <1>9 DEF Age, TypeOK
  <1> QED BY <1>4, <1>5, <1>6, <1>7, <1>8, <1>9 DEF Next

\* No session goes from under its connection, whoever's request clears the list
\* (sessions/service.rs, ensure, for_user and remove).
THEOREM ConnectedStay == Spec => ConnectedKept
  <1>1. IInv /\ [Next]_vars =>
          [\A s \in DOMAIN entries \ DOMAIN entries' : hub'[s] = None]_vars
    BY OffTheList
  <1> QED BY <1>1, Invariance, PTL DEF Spec, ConnectedKept
=============================================================================
