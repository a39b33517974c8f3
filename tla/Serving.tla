------------------------------ MODULE Serving ------------------------------
(***************************************************************************)
(* How a request finds its server and its ids (request_preprocessing.rs,   *)
(* processors/, main.rs), over the database that Upgrade leaves, and with  *)
(* the caches and the health of the servers that only the process knows.   *)
(*                                                                         *)
(* A request is received: its body is looked through and the user's        *)
(* sessions are found.  It is routed: a server is chosen by the ids that   *)
(* it names.  It is sent: its ids are translated into those of the server. *)
(* The server answers: the ids in the answer become the proxy's.  Between  *)
(* these steps, and between finding that an id is not mapped and mapping   *)
(* it, other requests and the administrator go on.                         *)
(*                                                                         *)
(* The id of a row of media is the id that clients know it by.  They also  *)
(* know ids of aggregates and of libraries; who is in these is written by  *)
(* MediaCatalog and Libraries, and any change of it here (Regroup).  Which *)
(* server has a play session is kept by PlaybackSessions, and any here.    *)
(* Names of servers are in the order of their ids, a version's media       *)
(* source has the id of the version, and libraries are configured ones     *)
(* whose members have been listed.                                         *)
(***************************************************************************)
EXTENDS Upgrade, Sequences, FiniteSets

CONSTANTS
  Request,    \* requests, each made once
  Ask,        \* what requests may be
  Aggregate,  \* ids of aggregates
  Library,    \* ids of libraries
  Nobody,     \* the user of a request without one
  Blank,      \* no id
  MaxEvents   \* bound: what happens besides requests

VARIABLES
  priority,  \* of servers
  healthy,   \* health_status: the servers with that status
  members,   \* the media of aggregates and libraries
  issued,    \* sqlite_sequence: the last id given to a row of media
  byId,      \* mapping_with_server_cache: by id, the server as it was when it was read
  byItem,    \* original_mapping_cache: by item and server, the id
  requests,
  shown,     \* history: what clients were shown, as item, server and id
  events     \* what has happened besides requests

serving == <<priority, healthy, members, issued, byId, byItem, requests, shown, events>>
allVars == <<vars, serving>>

\* path: the id in the path; query: other ids in the URL, in their order; source: the
\* media source (of a report in the body); list and item: the ids of lists and of
\* fields in the body; about: the user that the body names; plays: it names a play session.
Ref == Id \cup Aggregate \cup Library
Asked == [kind : {"plain", "playlist", "report"}, user : User \cup {Nobody},
          signed : BOOLEAN, devices : SUBSET Device, path : Ref \cup {Blank},
          query : Seq(Ref), source : Ref \cup {Blank}, list : SUBSET Ref,
          item : Ref \cup {Blank}, about : User \cup {Nobody}, plays : BOOLEAN]

\* Reports have no id in their path.
ASSUME AskAssumption ==
  Ask \subseteq Asked /\ \A ask \in Ask : ask.kind = "report" => ask.path = Blank
ASSUME IdsApart == /\ Blank \notin Ref /\ Id \cap (Aggregate \cup Library) = {}
                   /\ Nobody \notin User

New == [phase |-> "new"]
Over == [phase |-> "over"]

---------------------------------------------------------------------------
(* Servers and media *)

Servers == DOMAIN db.servers

\* compare_virtual_library_routes, and the order of list_servers: the first of S, if any.
BestOf(S) ==
  {s \in S : \A t \in S : \/ priority[t] < priority[s]
                          \/ priority[t] = priority[s] /\ s <= t}

HostOf(m) == db.media[m].server
Hosts(p) == {HostOf(m) : m \in members[p]}

\* An aggregate has one version of a server.
IsVersions(M) == \A m, n \in M : HostOf(m) = HostOf(n) => m = n

\* get_media_mapping_with_server
Knows(v) == v \in DOMAIN byId \cup DOMAIN db.media
Entry(v) == IF v \in DOMAIN byId THEN byId[v]
            ELSE [server |-> HostOf(v), priority |-> priority[HostOf(v)]]

\* The ids in V are looked up, and those that are mapped are in the cache from then on.
Remember(V) ==
  byId' = [v \in DOMAIN byId \cup (V \cap DOMAIN db.media) |-> Entry(v)]

\* get_best_server
BestServer == BestOf(IF Servers \cap healthy = {} THEN Servers ELSE Servers \cap healthy)

---------------------------------------------------------------------------
(* extract_request_infos *)

BodyIds(ask) ==
  (ask.list \cup {ask.item} \cup (IF ask.kind = "report" THEN {ask.source} ELSE {})) \ {Blank}

Named(ask) ==
  ({ask.path, ask.source} \cup {ask.query[i] : i \in DOMAIN ask.query} \cup BodyIds(ask)) \ {Blank}

\* The servers that the body speaks for, as records that are counted alike only if they
\* are the same.
Votes(ask, bound) ==
  {<<v, Entry(v)>> : v \in {w \in BodyIds(ask) : Knows(w)}}
    \cup (UNION {{<<v, [server |-> s, priority |-> priority[s]]>> :
                    s \in BestOf(Hosts(v) \cap healthy)} : v \in BodyIds(ask) \cap Aggregate})
    \cup (IF ask.kind # "report" /\ bound \in Servers
          THEN {<<Blank, [server |-> bound, priority |-> priority[bound]]>>} ELSE {})

\* get_server: the most frequent ones.
Winners(votes) ==
  LET times(e) == Cardinality({w \in votes : w[2] = e})
  IN {w[2].server : w \in {u \in votes : \A t \in votes : times(t[2]) <= times(u[2])}}

\* The user's sessions on servers that are up.
Sessions(ask) ==
  {s \in DOMAIN db.sessions :
     /\ ask.signed
     /\ db.sessions[s].user = ask.user
     /\ db.sessions[s].device \in ask.devices
     /\ db.mappings[db.sessions[s].mapping].server \in healthy}
ServerOf(s) == db.mappings[db.sessions[s].mapping].server

\* Clients name ids that they have seen.  bound is the server of the play session that the
\* request names, if the user has it.
\* Of several sessions on a server any may come first.
Receive(r, ask, bound) ==
  /\ process = "serving"
  /\ requests[r] = New
  /\ Named(ask) \cap Id \subseteq 1..issued
  /\ ~ask.plays \/ ~ask.signed \/ ask.user = Nobody => bound = NoServer
  /\ \E found \in [{ServerOf(s) : s \in Sessions(ask)} -> Sessions(ask)] :
       /\ \A s \in DOMAIN found : ServerOf(found[s]) = s
       /\ requests' = [requests EXCEPT ![r] =
            IF ask.kind = "report" /\ (ask.item = Blank \/ ~ask.signed \/ ask.user = Nobody)
            THEN Over
            ELSE [phase |-> "read", ask |-> ask, bound |-> bound, found |-> found,
                  first |-> BestOf(DOMAIN found), votes |-> Winners(Votes(ask, bound)),
                  then |-> Servers]]
  /\ Remember(BodyIds(ask))
  /\ UNCHANGED <<vars, priority, healthy, members, issued, byItem, shown, events>>

---------------------------------------------------------------------------
(* preprocess_request: the server *)

\* VirtualLibraryAccessScope: a request without a user may use any server.
Allowed(q) == IF q.ask.user = Nobody THEN Id ELSE DOMAIN q.found

\* server_from_client_media_id; an id that is known, but to no server the user may use,
\* is an error.
Target(v, S) ==
  IF Knows(v) THEN {Entry(v).server} \cap S
  ELSE IF v \in Aggregate THEN BestOf(Hosts(v) \cap healthy \cap S)
  ELSE IF v \in Library THEN BestOf(Hosts(v) \cap S)
  ELSE {}

\* server_from_explicit_media_source, if v is one
OfUrl(q, v) ==
  IF v = q.ask.source /\ q.ask.path \in Aggregate
  THEN {HostOf(m) : m \in members[q.ask.path] \cap {v}} \cap Allowed(q)
  ELSE Target(v, Allowed(q))

\* Fault, for NamedServerAsked: ids of servers that the user may not use are passed over.
DecidesIfAllowed(q, v) == OfUrl(q, v) # {}

\* Whether v leads to a server or to an error; the URL's next id is looked at if not.
Decides(q, v) ==
  \/ OfUrl(q, v) # {}
  \/ Knows(v) \/ v \in Aggregate
  \/ v = q.ask.source /\ q.ask.path \in Aggregate

IfAny(v) == IF v = Blank THEN <<>> ELSE <<v>>

UrlIds(ask) ==
  (IF ask.kind = "report" THEN <<>> ELSE IfAny(ask.source)) \o IfAny(ask.path) \o ask.query

\* server_from_client_url
Deciding(q) ==
  {UrlIds(q.ask)[i] : i \in {j \in DOMAIN UrlIds(q.ask) :
     /\ Decides(q, UrlIds(q.ask)[j])
     /\ \A k \in 1..(j-1) : ~Decides(q, UrlIds(q.ask)[k])}}

\* server_from_body_media_aggregate_ids; the order of the ids is left open.
OfBodyAggregates(q) ==
  UNION {BestOf(Hosts(v) \cap healthy \cap Allowed(q)) : v \in BodyIds(q.ask) \cap Aggregate}

OneOf(S) == IF S = {} THEN {{}} ELSE {{s} : s \in S}

\* The server that the request asks for, or none.  Of several votes on a par any wins.
Wanted(q) ==
  IF Deciding(q) # {} THEN OneOf(UNION {OfUrl(q, v) : v \in Deciding(q)})
  ELSE {{s} : s \in q.votes \cap Allowed(q)}
         \cup (IF q.votes # {} /\ q.votes \subseteq Allowed(q) THEN {}
               ELSE OneOf(OfBodyAggregates(q)))

\* resolve_server; without an answer here the request fails.
ServersFor(q) ==
  IF Deciding(q) # {} /\ Wanted(q) = {{}} THEN {}
  ELSE IF DOMAIN q.found # {}
  THEN UNION {IF W # {} /\ W \subseteq DOMAIN q.found THEN W ELSE q.first : W \in Wanted(q)}
  ELSE IF q.ask.user # Nobody THEN {}
  ELSE UNION {IF W # {} THEN W ELSE BestServer : W \in Wanted(q)}

\* Fault, for OwnAccount: the first session there is.
SessionForFirst(q, s) == {q.found[t] : t \in q.first}

SessionFor(q, s) == {q.found[t] : t \in DOMAIN q.found \cap {s}}

\* The servers that have the item, and the source, of a report.
Candidates(ask) ==
  IF ask.item \in Aggregate
  THEN {HostOf(m) : m \in IF ask.source = Blank THEN members[ask.item]
                          ELSE members[ask.item] \cap {ask.source}}
  ELSE {Entry(v).server : v \in {w \in {ask.item} :
          /\ Knows(w)
          /\ ask.source # Blank => /\ Knows(ask.source)
                                   /\ Entry(ask.source).server = Entry(w).server}}

\* Fault, for ReportsExact: the play session has no say.
ServersForReportUnbound(q) ==
  LET fit == Candidates(q.ask) \cap DOMAIN q.found
  IN IF Cardinality(fit) = 1 THEN fit ELSE {}

\* resolve_playback_report_server: exactly one.
ServersForReport(q) ==
  LET fit == {s \in Candidates(q.ask) \cap DOMAIN q.found :
                q.bound # NoServer => s = q.bound}
  IN IF Cardinality(fit) = 1 THEN fit ELSE {}

---------------------------------------------------------------------------
(* The ids of a request, in the server's words: the row of media that v stands for *)

BestRow(M) == {m \in M : \A n \in M : n <= m}

\* client_media_mapping
UrlRow(q, v, s) ==
  IF s \notin Allowed(q) THEN {}
  ELSE IF v \in DOMAIN db.media THEN {m \in {v} : HostOf(m) = s}
  ELSE IF v \in Aggregate THEN {m \in members[v] : HostOf(m) = s /\ s \in healthy}
  ELSE IF v \in Library THEN BestRow({m \in members[v] : HostOf(m) = s})
  ELSE {}

\* Fault, for IdsBelong: the row on any server.
BodyRowAnywhere(v, s) ==
  IF v \in DOMAIN db.media THEN {v}
  ELSE IF v \in Aggregate THEN BestRow(members[v])
  ELSE {}

\* upstream_media_id
BodyRow(v, s) ==
  IF v \in DOMAIN db.media THEN {m \in {v} : HostOf(m) = s}
  ELSE IF v \in Aggregate THEN {m \in members[v] : HostOf(m) = s}
  ELSE {}

\* validate_playlist_url
PlaylistFits(q, s) ==
  q.ask.kind = "playlist" =>
    \A i \in DOMAIN UrlIds(q.ask) : UrlRow(q, UrlIds(q.ask)[i], s) # {}

Route(r) ==
  LET q == requests[r]
      S == IF q.ask.kind = "report" THEN ServersForReport(q) ELSE ServersFor(q)
      ids == {UrlIds(q.ask)[i] : i \in DOMAIN UrlIds(q.ask)}
  IN /\ q.phase = "read"
     /\ \/ /\ \E s \in S : ~PlaylistFits(q, s)
           /\ requests' = [requests EXCEPT ![r] = Over]
        \/ /\ S = {}
           /\ requests' = [requests EXCEPT ![r] = Over]
        \/ \E s \in S :
             /\ PlaylistFits(q, s)
             /\ requests' = [requests EXCEPT ![r] =
                  [phase |-> "routed", ask |-> q.ask, bound |-> q.bound, found |-> q.found,
                   then |-> q.then, server |-> s,
                   session |-> SessionFor(q, s)]]
     /\ Remember(IF q.ask.kind = "report" THEN {q.ask.item, q.ask.source} \ {Blank} ELSE ids)
     /\ UNCHANGED <<vars, priority, healthy, members, issued, byItem, shown, events>>

\* upstream_user_id: the user of the session, or one with a session on the server.
AccountFits(q) ==
  \/ q.ask.about = Nobody
  \/ q.session # {} /\ q.ask.about = q.ask.user
  \/ \E s \in DOMAIN db.sessions : db.sessions[s].user = q.ask.about /\ ServerOf(s) = q.server

\* What is sent for the ids, where they can be translated: an id and a row.
Sent(q) ==
  (UNION {{v} \X UrlRow(q, v, q.server) : v \in {UrlIds(q.ask)[i] : i \in DOMAIN UrlIds(q.ask)}})
    \cup (UNION {{v} \X BodyRow(v, q.server) : v \in BodyIds(q.ask)})

\* client_to_server_url and process_request_body: other ids are sent as they are, but
\* not in lists of a body.
Send(r) ==
  LET q == requests[r]
  IN /\ q.phase = "routed"
     /\ requests' = [requests EXCEPT ![r] =
          IF AccountFits(q) /\ \A v \in q.ask.list : BodyRow(v, q.server) # {}
          THEN [phase |-> "sent", ask |-> q.ask, bound |-> q.bound, then |-> q.then,
                server |-> q.server, session |-> q.session, sent |-> Sent(q)]
          ELSE Over]
     /\ UNCHANGED <<vars, priority, healthy, members, issued, byId, byItem, shown, events>>

---------------------------------------------------------------------------
(* proxy_handler: the answer *)

\* The server answers with an item, or fails.
Answer(r, i) ==
  LET q == requests[r]
  IN /\ q.phase = "sent"
     /\ \/ requests' = [requests EXCEPT ![r] = [phase |-> "answered", server |-> q.server, item |-> i]]
        \/ requests' = [requests EXCEPT ![r] = Over]
     /\ UNCHANGED <<vars, priority, healthy, members, issued, byId, byItem, shown, events>>

\* Fault, for OneIdPerItem: rows are found by their item alone.
RowsOfItem(i, s) == {m \in DOMAIN db.media : db.media[m].item = i}

RowsOf(i, s) == {m \in DOMAIN db.media : db.media[m].item = i /\ HostOf(m) = s}

\* The client is shown id v for the item of an answer.
Show(r, v) ==
  LET q == requests[r]
  IN /\ requests' = [requests EXCEPT ![r] = Over]
     /\ shown' = shown \cup {[item |-> q.item, server |-> q.server, id |-> v]}
     /\ byItem' = [k \in DOMAIN byItem \cup {<<q.item, q.server>>} |->
                     IF k = <<q.item, q.server>> THEN v ELSE byItem[k]]
     /\ UNCHANGED <<priority, healthy, members, byId, events>>

\* get_or_create_media_mapping: an id that is cached or stored is shown, ...
LookUp(r) ==
  LET q == requests[r]
      cached == {byItem[k] : k \in DOMAIN byItem \cap {<<q.item, q.server>>}}
  IN /\ q.phase = "answered"
     /\ \/ \E v \in IF cached # {} THEN cached ELSE RowsOf(q.item, q.server) : Show(r, v)
        \/ /\ cached = {} /\ RowsOf(q.item, q.server) = {}
           /\ requests' = [requests EXCEPT ![r] = [q EXCEPT !.phase = "unmapped"]]
           /\ UNCHANGED <<priority, healthy, members, byId, byItem, shown, events>>
     /\ UNCHANGED <<vars, issued>>

NewRow(r) == LET q == requests[r]
             IN [item |-> q.item, url |-> db.servers[q.server], server |-> q.server]

\* ... and otherwise one is made, unless another request has done so by now.  For a
\* server that is gone the answer fails.
Create(r) ==
  LET q == requests[r]
  IN /\ q.phase = "unmapped"
     /\ \/ /\ \E v \in RowsOf(q.item, q.server) : Show(r, v)
           /\ UNCHANGED <<db, issued>>
        \/ /\ RowsOf(q.item, q.server) = {} /\ q.server \in Servers
           /\ issued + 1 \in Id
           /\ db' = [db EXCEPT !.media = [m \in DOMAIN @ \cup {issued + 1} |->
                       IF m \in DOMAIN @ THEN @[m] ELSE NewRow(r)]]
           /\ issued' = issued + 1
           /\ Show(r, issued + 1)
        \/ /\ q.server \notin Servers
           /\ requests' = [requests EXCEPT ![r] = Over]
           /\ UNCHANGED <<db, issued, priority, healthy, members, byId, byItem, shown, events>>
     /\ UNCHANGED <<migrated, process, was>>

---------------------------------------------------------------------------
(* What happens besides requests *)

Without(f, S) == [k \in DOMAIN f \ S |-> f[k]]

Event ==
  /\ process = "serving"
  /\ events < MaxEvents
  /\ events' = events + 1

\* delete_server, with the rows that refer to it.  The caches are left as they are.
DeleteServer(s) ==
  LET mappings == {m \in DOMAIN db.mappings : db.mappings[m].server = s}
      media == {m \in DOMAIN db.media : HostOf(m) = s}
  IN /\ process = "serving"
     /\ s \in Servers
     /\ db' = [users |-> db.users,
               servers |-> Without(db.servers, {s}),
               admins |-> Without(db.admins, {a \in DOMAIN db.admins : db.admins[a] = s}),
               mappings |-> Without(db.mappings, mappings),
               sessions |-> Without(db.sessions, {t \in DOMAIN db.sessions :
                                                    db.sessions[t].mapping \in mappings}),
               media |-> Without(db.media, media)]
     /\ members' = [p \in DOMAIN members |-> members[p] \ media]
     /\ healthy' = healthy \ {s}
     /\ UNCHANGED <<migrated, process, was, priority, issued, byId, byItem, requests, shown, events>>

\* update_server_priority
UpdatePriority(s, n) ==
  /\ Event
  /\ s \in Servers /\ n # priority[s]
  /\ priority' = [priority EXCEPT ![s] = n]
  /\ UNCHANGED <<vars, healthy, members, issued, byId, byItem, requests, shown>>

\* check_servers_health, of the servers listed when it began.
CheckHealth(up) ==
  /\ Event
  /\ up # healthy
  /\ healthy' = up
  /\ UNCHANGED <<vars, priority, members, issued, byId, byItem, requests, shown>>

\* The media of an aggregate or a library change.
Regroup(p, M) ==
  /\ Event
  /\ M # members[p]
  /\ p \in Aggregate => IsVersions(M)
  /\ members' = [members EXCEPT ![p] = M]
  /\ UNCHANGED <<vars, priority, healthy, issued, byId, byItem, requests, shown>>

\* Entries of the caches live half an hour.
Expire ==
  /\ Event
  /\ \/ \E v \in DOMAIN byId : byId' = Without(byId, {v}) /\ UNCHANGED byItem
     \/ \E k \in DOMAIN byItem : byItem' = Without(byItem, {k}) /\ UNCHANGED byId
  /\ UNCHANGED <<vars, priority, healthy, members, issued, requests, shown>>

\* With the process go its caches, what it knows of the servers, and its requests.
StopServing ==
  /\ Stop
  /\ healthy' = {} /\ byId' = <<>> /\ byItem' = <<>>
  /\ requests' = [r \in Request |-> IF requests[r] = New THEN New ELSE Over]
  /\ UNCHANGED <<priority, members, issued, shown, events>>

---------------------------------------------------------------------------

RequestStep ==
  \E r \in Request :
    \/ \E ask \in Ask, bound \in DOMAIN was.servers \cup {NoServer} : Receive(r, ask, bound)
    \/ Route(r) \/ Send(r) \/ (\E i \in Item : Answer(r, i)) \/ LookUp(r) \/ Create(r)

EventStep ==
  \/ \E s \in Id : DeleteServer(s) \/ \E n \in {1, 2} : UpdatePriority(s, n)
  \/ \E up \in SUBSET DOMAIN was.servers : CheckHealth(up)
  \/ \E p \in Aggregate \cup Library, M \in SUBSET DOMAIN db.media : Regroup(p, M)
  \/ Expire

\* Old databases have no aggregates and libraries.
ServeInit ==
  /\ \/ Init
     \/ /\ db \in Database /\ Current(db) /\ was = db
        /\ migrated = 2 /\ process = "down"
  /\ priority \in [Id -> {1, 2}]
  /\ members \in [Aggregate \cup Library -> SUBSET DOMAIN db.media]
  /\ migrated = 0 => \A p \in Aggregate \cup Library : members[p] = {}
  /\ \A p \in Aggregate : IsVersions(members[p])
  /\ issued \in Id \cup {0} /\ \A v \in DOMAIN db.media : v <= issued
  /\ healthy = {} /\ byId = <<>> /\ byItem = <<>>
  /\ requests = [r \in Request |-> New]
  /\ shown = {} /\ events = 0

ServeNext ==
  \/ Advance /\ UNCHANGED serving
  \/ StopServing
  \/ RequestStep
  \/ EventStep

ServeSpec == ServeInit /\ [][ServeNext]_allVars

---------------------------------------------------------------------------
(* Properties *)

Under(phases) == {r \in Request : requests[r].phase \in phases}

\* Whatever happens between finding an item unmapped and mapping it, and whatever is
\* cached, deleted or restarted meanwhile: clients are never shown two ids for an item
\* of a server, nor one id for two.
OneIdPerItem ==
  \A x, y \in shown : x.id = y.id <=> x.item = y.item /\ x.server = y.server

\* Each id that is sent translated stands for an item of the server it is sent to, a
\* media id for its own; and a list of a body is sent translated as a whole.
IdsBelong ==
  \A r \in Under({"sent"}) :
    LET q == requests[r]
    IN /\ \A p \in q.sent : /\ p[2] \in DOMAIN db.media => HostOf(p[2]) = q.server
                            /\ p[1] \in Id => p[1] = p[2]
       /\ \A v \in q.ask.list : \E p \in q.sent : p[1] = v

\* A user's request is sent with a session of the user's on the server it is sent to, and
\* to a server that was there when it came in: what the caches and the health checks
\* still know of a deleted server leads nobody there.
OwnAccount ==
  \A r \in Under({"routed", "sent"}) :
    LET q == requests[r]
    IN q.ask.user # Nobody =>
         /\ q.server \in q.then
         /\ q.session # {}
         /\ \A s \in q.session \cap DOMAIN db.sessions :
              db.sessions[s].user = q.ask.user /\ ServerOf(s) = q.server

\* A request, but for reports, whose URL names a media id first is forwarded to the server
\* of that id, or to none: it never falls back to another one of the user's servers.
NamedServerAsked ==
  \A r \in Under({"routed", "sent"}) :
    LET q == requests[r]
        ids == UrlIds(q.ask)
    IN q.ask.kind # "report" /\ ids # <<>> /\ ids[1] \in DOMAIN db.media =>
         q.server = HostOf(ids[1])

\* A playback report goes to the server that the play session, the item and the source
\* that it names all belong to, or to none.
ReportsExact ==
  \A r \in Under({"routed", "sent"}) :
    LET q == requests[r]
    IN q.ask.kind = "report" =>
         /\ q.bound \in {NoServer, q.server}
         /\ \A v \in {q.ask.item, q.ask.source} \cap DOMAIN db.media : HostOf(v) = q.server
=============================================================================
