--------------------------- MODULE ClientSessions ---------------------------
(***************************************************************************)
(* The sessions of clients (sessions/service.rs, mod.rs) and the sockets   *)
(* that attach to them (sessions/websocket.rs, transport.rs).              *)
(*                                                                         *)
(* Every request of a user finds or makes the session of its client.  A    *)
(* socket is such a request that goes on: between finding its session and  *)
(* registering the connection, and between the parts of its periodic       *)
(* check, sessions are logged out, reset by an administrator, expire, or   *)
(* lose their user.  A socket often names only its device, which several   *)
(* clients may share.                                                      *)
(*                                                                         *)
(* A place is a token with a device id: what a session is looked up by     *)
(* besides its client.  A client comes with its version; a header with the *)
(* literal version "Unknown" is left out.  Ids of sessions are not drawn   *)
(* twice, and which new one is drawn makes no difference.  The membership  *)
(* in groups that an end of a session also ends is in SyncPlay.            *)
(* Definitions introduced as a "fault" are not part of the model.          *)
(***************************************************************************)
EXTENDS FiniteSets

CONSTANTS
  User,
  Place,     \* a token and a device id
  UserOf,    \* the user whose token it is
  ReadOnly,  \* the places of tokens that may only read: API keys
  Client,    \* names of clients
  Unknown,   \* the name of a client that gives none
  Session,   \* ids of sessions; their number bounds how many are made
  Handler,   \* requests under way; their number is a bound.  A handler is also the
             \* generation of the connection it registers
  None

ASSUME PlaceAssumption == UserOf \in [Place -> User] /\ ReadOnly \subseteq Place
ASSUME UnknownAssumption == Unknown \notin Client
ASSUME NoneAssumption == None \notin Session \cup Handler

VARIABLES
  users,    \* the users there are
  entries,  \* ClientSessionService: the sessions by id
  drawn,    \* the ids drawn so far
  hub,      \* ConnectionHub: the generation a session is connected by
  handlers, \* the requests under way
  resetting \* the session that an administrator's reset is ending

vars == <<users, entries, drawn, hub, handlers, resetting>>

Name == Client \cup {Unknown}
Entry == [place : Place, client : Name, idle : BOOLEAN]
Idle == [step |-> "idle"]
Arrived == [step : {"arrived"}, place : Place, client : Name]
Acting == [step : {"acting", "removing", "open", "checking", "closing"},
           place : Place, client : Name, session : Session]

Acts(q) == handlers[q].step \in {"acting", "removing", "open", "checking", "closing"}

Init ==
  /\ users = User
  /\ entries = [s \in {} |-> None]
  /\ drawn = {}
  /\ hub = [s \in Session |-> None]
  /\ handlers = [q \in Handler |-> Idle]
  /\ resetting = None

---------------------------------------------------------------------------
(* Finding and making sessions *)

\* Fault, for ConnectedKept: a socket does not keep its session.
ActiveOnly == {s \in DOMAIN entries : ~entries[s].idle}

\* What retain keeps: a session is idle after half an hour without a request.
Kept == {s \in DOMAIN entries : hub[s] # None \/ ~entries[s].idle}

Candidates(p) == {s \in Kept : entries[s].place = p}

Named(p, c) == {s \in Candidates(p) : entries[s].client = c}

\* The only session of a place.
Sole(p) == {s \in Candidates(p) : Candidates(p) = {s}}

\* Fault, for ClientsKeptApart: the only session there is serves any client.
AnySole(p, c) ==
  IF Named(p, c) # {} THEN Named(p, c) ELSE Sole(p)

\* The sessions a client may be given.  One that gives its name takes over a single
\* session without one; one that gives none takes a single session whoever has it.
Existing(p, c) ==
  IF c = Unknown
  THEN IF Sole(p) # {} THEN Sole(p) ELSE Named(p, Unknown)
  ELSE IF Named(p, c) # {} THEN Named(p, c) ELSE Sole(p) \cap Named(p, Unknown)

Advance(q, step) == handlers' = [handlers EXCEPT ![q].step = step]

Finish(q) == handlers' = [handlers EXCEPT ![q] = Idle]

\* A request whose token has a user.
Arrive(q, p, c) ==
  /\ handlers[q] = Idle
  /\ UserOf[p] \in users
  /\ handlers' = [handlers EXCEPT ![q] = [step |-> "arrived", place |-> p, client |-> c]]
  /\ UNCHANGED <<users, entries, drawn, hub, resetting>>

Given(q, s) ==
  handlers' = [handlers EXCEPT ![q] =
    [step |-> "acting", place |-> @.place, client |-> @.client, session |-> s]]

\* ensure, where there is a session.  A client that gives its name leaves it there.
EnsureExisting(q) ==
  LET p == handlers[q].place
      c == handlers[q].client
  IN  /\ handlers[q].step = "arrived"
      /\ \E s \in Existing(p, c) :
           /\ entries' = [r \in Kept |->
                IF r # s THEN entries[r]
                ELSE [entries[s] EXCEPT !.idle = FALSE,
                                        !.client = IF c = Unknown THEN @ ELSE c]]
           /\ Given(q, s)
      /\ UNCHANGED <<users, drawn, hub, resetting>>

\* ensure, where there is none.
EnsureNew(q) ==
  LET p == handlers[q].place
      c == handlers[q].client
      s == CHOOSE s \in Session : s \notin drawn
  IN  /\ handlers[q].step = "arrived"
      /\ Existing(p, c) = {}
      /\ drawn # Session
      /\ entries' = [r \in Kept \cup {s} |->
           IF r = s THEN [place |-> p, client |-> c, idle |-> FALSE] ELSE entries[r]]
      /\ drawn' = drawn \cup {s}
      /\ Given(q, s)
      /\ UNCHANGED <<users, hub, resetting>>

\* A request that changes no session, and one that is given up or refused.
Done(q) ==
  /\ handlers[q].step \in {"arrived", "acting", "removing"}
  /\ Finish(q)
  /\ UNCHANGED <<users, entries, drawn, hub, resetting>>

---------------------------------------------------------------------------
(* Ending sessions *)

Disconnected(s) == hub' = [hub EXCEPT ![s] = None]

\* ClientSessionService::remove
Remove(s) ==
  /\ entries' = [r \in DOMAIN entries \ {s} |-> entries[r]]
  /\ Disconnected(s)

\* Sessions/Logout: end_session, and then remove.
Logout(q) ==
  /\ handlers[q].step = "acting"
  /\ handlers[q].place \notin ReadOnly
  /\ Disconnected(handlers[q].session)
  /\ Advance(q, "removing")
  /\ UNCHANGED <<users, entries, drawn, resetting>>

FinishLogout(q) ==
  /\ handlers[q].step = "removing"
  /\ Remove(handlers[q].session)
  /\ Finish(q)
  /\ UNCHANGED <<users, drawn, resetting>>

\* valid_session, as a list of sessions or a command asks it of s.
Validate(s) ==
  /\ s \in DOMAIN entries
  /\ UserOf[entries[s].place] \notin users
  /\ Remove(s)
  /\ UNCHANGED <<users, drawn, handlers, resetting>>

DeleteUser(u) ==
  /\ u \in users
  /\ users' = users \ {u}
  /\ UNCHANGED <<entries, drawn, hub, handlers, resetting>>

\* for_user, which a list of sessions also begins with.
ForUser ==
  /\ entries' = [s \in Kept |-> entries[s]]
  /\ UNCHANGED <<users, drawn, hub, handlers, resetting>>

\* end_user_sessions, after a user or all upstream sessions of one were deleted: what
\* the loop does with a session that was listed (ForUser) when it began.
BeginReset(s) ==
  /\ resetting = None
  /\ s \in drawn
  /\ Disconnected(s)
  /\ resetting' = s
  /\ UNCHANGED <<users, entries, drawn, handlers>>

FinishReset ==
  /\ resetting # None
  /\ Remove(resetting)
  /\ resetting' = None
  /\ UNCHANGED <<users, drawn, handlers>>

\* The administrator's browser hangs up.
AbandonReset ==
  /\ resetting # None
  /\ resetting' = None
  /\ UNCHANGED <<users, entries, drawn, hub, handlers>>

---------------------------------------------------------------------------
(* Sockets *)

\* register_websocket: the socket replaces the one that is there.
Register(q) ==
  /\ handlers[q].step = "acting"
  /\ hub' = [hub EXCEPT ![handlers[q].session] = q]
  /\ Advance(q, "open")
  /\ UNCHANGED <<users, entries, drawn, resetting>>

IsCurrent(q) == hub[handlers[q].session] = q

\* A message of the client: touch.
Inbound(q) ==
  LET s == handlers[q].session
  IN  /\ handlers[q].step = "open"
      /\ IsCurrent(q)
      /\ s \in DOMAIN entries
      /\ entries' = [entries EXCEPT ![s].idle = FALSE]
      /\ UNCHANGED <<users, drawn, hub, handlers, resetting>>

\* The client closes or falls silent, or a check fails.
Close(q) ==
  /\ handlers[q].step \in {"open", "checking"}
  /\ Advance(q, "closing")
  /\ UNCHANGED <<users, entries, drawn, hub, resetting>>

\* Every 250 ms: the connection was replaced or removed.
Replaced(q) ==
  /\ handlers[q].step = "open"
  /\ ~IsCurrent(q)
  /\ Advance(q, "closing")
  /\ UNCHANGED <<users, entries, drawn, hub, resetting>>

\* Fault, for UnauthorizedDisconnect: a socket outlives its session.
BeginCheckForgiving(q) ==
  /\ handlers[q].step = "open"
  /\ IsCurrent(q)
  /\ handlers[q].session \in DOMAIN entries
  /\ Advance(q, "checking")
  /\ UNCHANGED <<users, entries, drawn, hub, resetting>>

\* Every 15 s: is the session still there?
BeginCheck(q) ==
  /\ handlers[q].step = "open"
  /\ IsCurrent(q)
  /\ Advance(q, IF handlers[q].session \in DOMAIN entries THEN "checking" ELSE "closing")
  /\ UNCHANGED <<users, entries, drawn, hub, resetting>>

\* valid_session, with the session as it was read.
FinishCheck(q) ==
  /\ handlers[q].step = "checking"
  /\ IF UserOf[handlers[q].place] \in users
     THEN Advance(q, "open") /\ UNCHANGED <<entries, hub>>
     ELSE Advance(q, "closing") /\ Remove(handlers[q].session)
  /\ UNCHANGED <<users, drawn, resetting>>

\* unregister_websocket_with_grace
Unregister(q) ==
  /\ handlers[q].step = "closing"
  /\ IF IsCurrent(q) THEN Disconnected(handlers[q].session) ELSE UNCHANGED hub
  /\ Finish(q)
  /\ UNCHANGED <<users, entries, drawn, resetting>>

---------------------------------------------------------------------------
(* Time *)

\* Half an hour passes for a session, or the clock is set.
Age(s) ==
  /\ s \in DOMAIN entries
  /\ entries' = [entries EXCEPT ![s].idle = TRUE]
  /\ UNCHANGED <<users, drawn, hub, handlers, resetting>>

---------------------------------------------------------------------------
RequestStep(q) ==
  \/ \E p \in Place, c \in Name : Arrive(q, p, c)
  \/ EnsureExisting(q) \/ EnsureNew(q) \/ Done(q)
  \/ Logout(q) \/ FinishLogout(q)

SocketStep(q) ==
  \/ Register(q) \/ Inbound(q) \/ Close(q) \/ Replaced(q)
  \/ BeginCheck(q) \/ FinishCheck(q) \/ Unregister(q)

AdminStep ==
  \/ \E u \in User : DeleteUser(u)
  \/ \E s \in Session : BeginReset(s)
  \/ FinishReset \/ AbandonReset

Next ==
  \/ \E q \in Handler : RequestStep(q) \/ SocketStep(q)
  \/ AdminStep
  \/ ForUser
  \/ \E s \in Session : Validate(s) \/ Age(s)

Spec == Init /\ [][Next]_vars

\* A socket's loop ticks every 250 ms and each of its waits is bounded; a loop that
\* ended unregisters.
Fairness ==
  \A q \in Handler :
    /\ WF_vars(Replaced(q))
    /\ WF_vars(BeginCheck(q))
    /\ WF_vars(FinishCheck(q))
    /\ WF_vars(Unregister(q))

FairSpec == Spec /\ Fairness

---------------------------------------------------------------------------
(* Properties *)

\* The state keeps its types.
TypeOK ==
  /\ users \subseteq User
  /\ DOMAIN entries \subseteq drawn
  /\ entries \in [DOMAIN entries -> Entry]
  /\ drawn \subseteq Session
  /\ hub \in [Session -> Handler \cup {None}]
  /\ handlers \in [Handler -> {Idle} \cup Arrived \cup Acting]
  /\ resetting \in drawn \cup {None}

\* Two clients that share a token and a device id do not share a session: there is
\* one for each name, and whatever a client that gave its name is given, its socket
\* included, stays the session under this name as long as it exists.
ClientsKeptApart ==
  /\ \A s, r \in DOMAIN entries :
       entries[s].place = entries[r].place /\ entries[s].client = entries[r].client => s = r
  /\ \A q \in Handler :
       Acts(q) /\ handlers[q].client # Unknown /\ handlers[q].session \in DOMAIN entries
         => entries[handlers[q].session].client = handlers[q].client

\* A session never goes from under a connection: whatever takes it off the list, be it
\* somebody else's request that clears expired sessions away, leaves it unconnected.
ConnectedKept ==
  [][\A s \in DOMAIN entries \ DOMAIN entries' : hub'[s] = None]_vars

Authorized(s) == s \in DOMAIN entries /\ UserOf[entries[s].place] \in users

\* The connection of a session that was ended or expired, or whose user is gone, ends
\* too, also if it was registered only afterwards.
UnauthorizedDisconnect ==
  \A s \in Session : ~Authorized(s) ~> hub[s] = None
=============================================================================
