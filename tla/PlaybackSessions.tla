--------------------------- MODULE PlaybackSessions ---------------------------
(***************************************************************************)
(* Playback sessions (session_storage.rs): which upstream server a play    *)
(* session of a user runs on.  Entries are made when a playback is         *)
(* negotiated, started or streamed, refreshed by progress reports, removed *)
(* by stop reports (main.rs), and forgotten after twelve hours without a   *)
(* report or when their server is deleted (ui/admin/servers.rs).           *)
(*                                                                         *)
(* Every request awaits an upstream between reading the storage and        *)
(* changing it, so a report carries the revision of the binding that it    *)
(* was made for.  Every action is one critical section of the storage's    *)
(* lock, or one query of the servers' table.                               *)
(*                                                                         *)
(* The storage is a vector in the code, here a set: the only lookup that   *)
(* takes the newest of several entries reads no more of it than the server *)
(* and the revision, in which they agree (OneBinding).  Which servers hold *)
(* an item, and are healthy, is left open.  Definitions introduced as a    *)
(* "fault" are not part of the model.                                      *)
(***************************************************************************)
EXTENDS Integers

CONSTANTS
  PlayId, Item, User, Server,
  Request,      \* bound: requests under way at a time
  MaxRevision,  \* bound: entries that are ever added
  SessionTtl,   \* ticks that an entry lives without a report
  NoServer

ASSUME NoServerAssumption == NoServer \notin Server
ASSUME BoundAssumption == MaxRevision \in Nat /\ SessionTtl \in Nat

VARIABLES
  servers,    \* the servers in the database; their ids are not used again
  deleting,   \* deleted servers whose playback sessions are still to be removed
  sessions,   \* the tracked playback sessions
  revision,   \* the latest revision that was given to a binding
  requests,   \* the requests under way, with what they carry across their awaits
  overtaken   \* history: the requests whose binding was made anew meanwhile

vars == <<servers, deleting, sessions, revision, requests, overtaken>>

Report == {"start", "progress", "stopped"}

\* TrackedPlaybackSession; age is the time since updated_at.
Tracked ==
  [id : PlayId, item : Item, user : User, server : Server,
   revision : 1..MaxRevision, age : 0..SessionTtl]

\* A request that does not run.
Idle == [step |-> "idle"]

\* A request for a playback.  A report is resolved to its binding, sent, and then
\* changes the storage (PendingPlaybackSessionUpdate); a stream is routed and looked
\* up before it is sent; a negotiation tracks what was negotiated.
Call ==
  {x \in [step : {"resolved", "routed", "sent", "tracking"},
          kind : Report \cup {"stream", "negotiate"},
          id : PlayId, item : Item, user : User, server : Server \cup {NoServer},
          revision : 0..MaxRevision] :
     x.server = NoServer => x.step = "resolved"}

\* A request that has read the server of a tracked entry.
Found == [step : {"found"}, server : Server]

Init ==
  /\ servers = Server
  /\ deleting = {}
  /\ sessions = {}
  /\ revision = 0
  /\ requests = [q \in Request |-> Idle]
  /\ overtaken = {}

---------------------------------------------------------------------------
(* The storage *)

\* The two belong to one binding of a user's play session to a server.
SameAuthority(x, y) == x.id = y.id /\ x.user = y.user

\* The entries of the binding that x belongs to.
Binding(x) == {e \in sessions : SameAuthority(e, x)}

\* add_session keeps other bindings, and other items of the binding if the server stays.
Kept(e, x) == SameAuthority(e, x) => e.server = x.server /\ e.item # x.item

NewEntry(x, r) ==
  [id |-> x.id, item |-> x.item, user |-> x.user, server |-> x.server, revision |-> r, age |-> 0]

\* Fault, for LateReportsHarmless: an alias keeps the revision it was added with.
AddedAlone(x, r) == {e \in sessions : Kept(e, x)} \cup {NewEntry(x, r)}

\* add_session, as the storage it leaves: the whole binding has the new revision.
Added(x, r) ==
  {IF SameAuthority(e, x) THEN [e EXCEPT !.revision = r] ELSE e :
     e \in {e \in sessions : Kept(e, x)}}
  \cup {NewEntry(x, r)}

\* The entries a report is about: its binding, unless that was replaced.
Reported(x) == {e \in Binding(x) : e.revision = x.revision}

\* refresh_session_for_user
Refreshed(x) ==
  {IF e \in Reported(x) THEN [e EXCEPT !.age = 0] ELSE e : e \in sessions}

\* Fault, for ReportsTakeEffect: only the item that was reported is removed.
RemovedItem(x) == sessions \ {e \in Reported(x) : e.item = x.item}

\* remove_session_for_user
Removed(x) == sessions \ Reported(x)

\* remove_sessions_for_server
WithoutServer(v) == {e \in sessions : e.server # v}

\* Fault, for DeletedServerForgotten: entries do not grow old.
Ageless == sessions

\* live_sessions after another tick: what is older than the time to live is gone.  The
\* code drops it when it takes the lock the next time to read or add.
Aged == {[e EXCEPT !.age = @ + 1] : e \in {e \in sessions : e.age < SessionTtl}}

---------------------------------------------------------------------------
(* Requests *)

Calling(q, kind) == requests[q] # Idle /\ requests[q].step = "sent" /\ requests[q].kind = kind

Become(q, r) == requests' = [requests EXCEPT ![q] = r]

\* add_session for request q and the given play session and item.  Reports on this
\* binding that are under way are now about a revision of the past.
Track(q, id, item) ==
  LET x == [requests[q] EXCEPT !.id = id, !.item = item]
  IN  /\ revision < MaxRevision
      /\ revision' = revision + 1
      /\ sessions' = Added(x, revision + 1)
      /\ overtaken' = overtaken \cup
           {p \in Request \ {q} : requests[p] \in Call /\ SameAuthority(requests[p], x)}

\* preprocess_request of a report: resolve_report_session refuses a play session that
\* only others have, and finds the caller's binding if there is one.
ResolveReport(q, kind, id, item, user) ==
  LET Resolved(v, r) == [step |-> "resolved", kind |-> kind, id |-> id, item |-> item,
                         user |-> user, server |-> v, revision |-> r]
  IN  /\ requests[q] = Idle
      /\ \/ (\A e \in sessions : e.id # id) /\ Become(q, Resolved(NoServer, 0))
         \/ \E e \in sessions :
              e.id = id /\ e.user = user /\ Become(q, Resolved(e.server, e.revision))
      /\ overtaken' = overtaken \ {q}
      /\ UNCHANGED <<servers, deleting, sessions, revision>>

\* Fault, for ForgottenStaysForgotten: a server that once held the item is good enough.
EverKnown(x) == IF x.server = NoServer THEN Server ELSE {x.server}

\* Servers that a report may be sent to: those that hold its item, but only the server
\* of its binding if it has one, and only servers the user has a session on, which are
\* read from the database.
Candidates(x) == servers \cap (IF x.server = NoServer THEN servers ELSE {x.server})

\* resolve_playback_report_server: one server is left, and the report is sent there.
SendReport(q) ==
  /\ requests[q] # Idle /\ requests[q].step = "resolved"
  /\ \E v \in Candidates(requests[q]) :
       Become(q, [requests[q] EXCEPT !.step = "sent", !.server = v])
  /\ UNCHANGED <<servers, deleting, sessions, revision, overtaken>>

\* The upstream accepted a start: its session is tracked.
Started(q) ==
  /\ Calling(q, "start")
  /\ Track(q, requests[q].id, requests[q].item)
  /\ Become(q, Idle)
  /\ UNCHANGED <<servers, deleting>>

\* The upstream accepted a progress report: the binding it was made for is refreshed.
Progressed(q) ==
  /\ Calling(q, "progress")
  /\ sessions' = Refreshed(requests[q])
  /\ Become(q, Idle)
  /\ UNCHANGED <<servers, deleting, revision, overtaken>>

\* The upstream accepted a stop report: the binding it was made for is removed.
Stopped(q) ==
  /\ Calling(q, "stopped")
  /\ sessions' = Removed(requests[q])
  /\ Become(q, Idle)
  /\ UNCHANGED <<servers, deleting, revision, overtaken>>

\* preprocess_request of a stream or of a negotiation chooses a server.  The latter is
\* sent at once, and the upstream answers with an id for the play session.
Choose(q, kind, id, item, user) ==
  /\ requests[q] = Idle
  /\ \E v \in servers :
       Become(q, [step |-> IF kind = "stream" THEN "routed" ELSE "sent", kind |-> kind,
                  id |-> id, item |-> item, user |-> user, server |-> v, revision |-> 0])
  /\ overtaken' = overtaken \ {q}
  /\ UNCHANGED <<servers, deleting, sessions, revision>>

\* get_stream: a tracked entry tells the server; without one the chosen server is asked.
LookupStream(q) ==
  /\ requests[q] # Idle /\ requests[q].step = "routed"
  /\ LET hits == {e \in Binding(requests[q]) : e.item = requests[q].item}
     IN  IF hits = {} THEN Become(q, [requests[q] EXCEPT !.step = "sent"])
         ELSE \E e \in hits :
                Become(q, IF e.server = requests[q].server THEN Idle
                          ELSE [step |-> "found", server |-> e.server])
  /\ UNCHANGED <<servers, deleting, sessions, revision, overtaken>>

\* The stream was delivered: it is tracked from now on.
Streamed(q) ==
  /\ Calling(q, "stream")
  /\ Track(q, requests[q].id, requests[q].item)
  /\ Become(q, Idle)
  /\ UNCHANGED <<servers, deleting>>

\* track_play_session, once for every id and item in the upstream's answer ...
TrackSource(q, id, item) ==
  /\ requests[q] # Idle /\ requests[q].step \in {"sent", "tracking"}
  /\ requests[q].kind = "negotiate"
  /\ Track(q, id, item)
  /\ Become(q, [requests[q] EXCEPT !.step = "tracking"])
  /\ UNCHANGED <<servers, deleting>>

\* ... and track_playback_alias at the end of it, for the item that was asked for.
TrackAlias(q) ==
  /\ requests[q] # Idle /\ requests[q].step \in {"sent", "tracking"}
  /\ requests[q].kind = "negotiate"
  /\ Track(q, requests[q].id, requests[q].item)
  /\ Become(q, Idle)
  /\ UNCHANGED <<servers, deleting>>

\* Any other request that names a play session, or an item of one: a segment, an
\* image, a body with a play session id in it.
Lookup(q) ==
  /\ requests[q] = Idle
  /\ \E e \in sessions : Become(q, [step |-> "found", server |-> e.server])
  /\ overtaken' = overtaken \ {q}
  /\ UNCHANGED <<servers, deleting, sessions, revision>>

\* resolve_play_session_server: if that server is gone, so are its sessions.
ResolveServer(q) ==
  /\ requests[q] # Idle /\ requests[q].step = "found"
  /\ sessions' =
       IF requests[q].server \in servers THEN sessions ELSE WithoutServer(requests[q].server)
  /\ Become(q, Idle)
  /\ UNCHANGED <<servers, deleting, revision, overtaken>>

\* A request is refused, or fails upstream, or its client hangs up.
Drop(q) ==
  /\ requests[q] # Idle
  /\ Become(q, Idle)
  /\ UNCHANGED <<servers, deleting, sessions, revision, overtaken>>

---------------------------------------------------------------------------
(* Servers and time *)

\* delete_server removes the server from the database ...
DeleteServer(v) ==
  /\ v \in servers
  /\ servers' = servers \ {v}
  /\ deleting' = deleting \cup {v}
  /\ UNCHANGED <<sessions, revision, requests, overtaken>>

\* ... and then its playback sessions ...
EndDelete(v) ==
  /\ v \in deleting
  /\ deleting' = deleting \ {v}
  /\ sessions' = WithoutServer(v)
  /\ UNCHANGED <<servers, revision, requests, overtaken>>

\* ... if the administrator's browser does not hang up in between.
AbandonDelete(v) ==
  /\ v \in deleting
  /\ deleting' = deleting \ {v}
  /\ UNCHANGED <<servers, sessions, revision, requests, overtaken>>

Tick ==
  /\ sessions # {}
  /\ sessions' = Aged
  /\ UNCHANGED <<servers, deleting, revision, requests, overtaken>>

Next ==
  \/ \E q \in Request :
       \/ SendReport(q) \/ Started(q) \/ Progressed(q) \/ Stopped(q)
       \/ LookupStream(q) \/ Streamed(q) \/ TrackAlias(q)
       \/ Lookup(q) \/ ResolveServer(q) \/ Drop(q)
       \/ \E id \in PlayId, item \in Item : TrackSource(q, id, item)
       \/ \E id \in PlayId, item \in Item, user \in User :
            \/ \E kind \in Report : ResolveReport(q, kind, id, item, user)
            \/ \E kind \in {"stream", "negotiate"} : Choose(q, kind, id, item, user)
  \/ \E v \in Server : DeleteServer(v) \/ EndDelete(v) \/ AbandonDelete(v)
  \/ Tick

Spec == Init /\ [][Next]_vars

\* Time passes.
FairSpec == Spec /\ WF_vars(Tick)

---------------------------------------------------------------------------
(* Properties                                                              *)

\* The types of the state.
TypeOK ==
  /\ servers \subseteq Server
  /\ deleting \subseteq Server \ servers
  /\ sessions \subseteq Tracked
  /\ revision \in 0..MaxRevision
  /\ requests \in [Request -> {Idle} \cup Call \cup Found]
  /\ overtaken \subseteq Request

\* A play session of a user runs on one server, and all its aliases were confirmed
\* together: whichever entry a lookup comes across, it leads to the same place and a
\* report made for it is good for all of them.
OneBinding ==
  \A e, f \in sessions :
    SameAuthority(e, f) => e.server = f.server /\ e.revision = f.revision

\* A report that was overtaken, because its play session was negotiated, started or
\* streamed anew while the upstream was answering, ends without changing anything.
LateReportsHarmless ==
  [][\A q \in overtaken : Progressed(q) \/ Stopped(q) => sessions' = sessions]_vars

\* A report that was not overtaken holds for every alias of its play session: after a
\* stop none is left that would route to the server, and after progress none expires
\* before the others.
ReportsTakeEffect ==
  [][\A q \in Request \ overtaken :
       LET report == requests[q]
       IN  report \in Call /\ report.revision # 0 =>
             /\ Stopped(q) => \A e \in sessions' : ~SameAuthority(e, report)
             /\ Progressed(q) =>
                  \A e \in sessions' : SameAuthority(e, report) => e.age = 0]_vars

\* Whatever one user does, the bindings of others stay as they are, also when they
\* have the same play session id, which clients choose.
OthersUntouched ==
  [][\A q \in Request :
       requests[q] \in Call /\ requests'[q] # requests[q] =>
         {e \in sessions' : e.user # requests[q].user}
           = {e \in sessions : e.user # requests[q].user}]_vars

\* No request leads to server v, or will.
Forgotten(v) ==
  /\ v \notin servers
  /\ \A e \in sessions : e.server # v
  /\ \A q \in Request : requests[q] # Idle => requests[q].server # v

\* Once the last request for a deleted server has ended and its sessions are gone,
\* nothing brings the server back.
ForgottenStaysForgotten == [][\A v \in Server : Forgotten(v) => Forgotten(v)']_vars

\* Nothing is kept for a deleted server for good.  Requests that were under way may
\* add sessions for it after delete_server has removed them, and the administrator
\* may hang up before it does, but nobody can refresh these.
DeletedServerForgotten ==
  \A v \in Server : [](v \notin servers => <>[](\A e \in sessions : e.server # v))
=============================================================================
