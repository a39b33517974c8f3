# Jellyswarrm in TLA+

Jellyswarrm is a proxy that presents several Jellyfin media servers as one. It
is an asynchronous Rust program (`src/crates/jellyswarrm-proxy`): every HTTP
request, WebSocket and timer is a task; the state they share is held behind
locks in memory, or in SQLite. This directory holds TLA+ specifications of its
stateful parts, TLC runs that check them on small instances, and TLAPS proofs
of the most important results for instances of every size.

Paths below are relative to `src/crates/jellyswarrm-proxy/src/`.

## The system

| Component | State | Operations | Talks to |
|---|---|---|---|
| SyncPlay (`handlers/syncplay/`) | groups, `session_to_group`, grace ids, all behind one lock | create, join, leave; 15 playback, queue and report requests; socket registered, socket gone, grace over; end of a session | the connection hub (sends); client sessions (who calls); libraries (access checks, awaited) |
| WebSocket transport (`sessions/transport.rs`, `websocket.rs`) | one connection per session, with a generation | register, unregister, remove, send | SyncPlay registers and unregisters; client sessions remove |
| Client sessions (`sessions/service.rs`, `mod.rs`, `http.rs`) | sessions by id, play state, capabilities | ensure, report, logout, revocation, remote commands | the hub, SyncPlay, user authorization |
| Quick Connect (`handlers/quick_connect.rs`, `ui/user/quick_connect.rs`) | pending sessions, by secret and by code | initiate, poll, approve, redeem, cleanup | user authorization and the upstreams (sign-in, awaited) |
| Playback sessions (`session_storage.rs`, `request_preprocessing.rs`, `main.rs`) | play session id to server, with revisions | start, refresh and remove, after the upstream answered | request forwarding, server deletion |
| Virtual libraries (`virtual_library_service.rs`, `handlers/federated/library_root.rs`, `ui/admin/libraries.rs`) | libraries seen on servers, groups of them that administrators make, automatic libraries per viewer, refresh generations | begin refresh, answer, reconcile; create, delete, assign, remove | SQLite, the upstreams |
| Media mappings and catalog (`media_storage_service.rs`, `media_catalog.rs`, `media_identity.rs`) | virtual ids, sightings, aliases, groups, public ids, source routes, caches | get or create, commit sightings, rebuild, record sources, delete | SQLite, caches, the federated handlers |
| User authorization (`user_authorization_service.rs`) | users, encrypted server mappings, upstream sessions | login, connect, change password, rebind, delete | SQLite, the upstreams |
| Upgrade (`legacy_server_identity.rs`, `migrations/`, `main.rs`) | the database of an earlier version | canonical server URLs at every start, migrations | SQLite |
| Servers (`server_storage.rs`) | servers, their priority and health | add, delete, health check, the best server | SQLite, the upstreams |
| Request forwarding (`request_preprocessing.rs`, `processors/`, `main.rs`) | two caches of mappings (`media_storage_service.rs`), else what a request carries | receive, choose a server, translate ids, send, map the ids of the answer | all of the above |
| Federation | none | fan-out and merge | all of the above |
| Web interface, configuration, API client, macros | login sessions, a settings file | forms | all of the above |

What is hard here is always the same shape: a handler reads shared state, awaits
an upstream, the database or a user, and then changes state that others changed
meanwhile; or two collections say the same thing and every path has to keep them
in agreement. `PROJECT.json` lists these hazards at their lines.

What makes the components correct:

* **SyncPlay**: the two membership maps agree; nobody stays in a group without a
  socket or a timer that will take it out; an old socket or an old timer does
  not act on a newer connection; a group that waits can end its wait, and goes
  on from where the wait began; everybody in a group is allowed to see what is
  queued, and has been told everything.
* **Transport, client sessions**: a generation ends only itself; an ended session
  is neither connected nor in a group, and a connected one is not taken off the list;
  clients that share a device id do not share a session.
* **Quick Connect**: a code leads to the one session that shows it, an approval
  reaches the device, a secret works once, nothing expired stays.
* **Playback sessions**: a late answer does not undo a later update; nothing is
  kept for a deleted server.
* **Virtual libraries**: what is stored is what the newest refresh found; a group
  holds libraries of one type; no library opens from two virtual libraries.
* **Media mappings, catalog**: no response gets behind a complete inventory; a group
  holds the items that their aliases connect and one item of a server, or is not
  shown; the id of a group keeps its meaning; nothing refers to what is gone.
* **Upgrade**: whatever the database of the earlier version, and wherever the process
  stops, the proxy starts; users keep their access, items their ids, devices
  their newest session; a further start changes nothing.
* **Request forwarding**: a request reaches the server that it names, with a session of
  its user there and with ids of that server, or fails; a client never sees two ids for
  an item, whatever is cached, deleted or restarted meanwhile.
* **User authorization**: a mapping can always be decrypted by its user; no upstream
  session survives the credentials it was opened with.

## Modules

| Module | Content |
|---|---|
| `SyncPlayGroup` | one group as a record, and what each request makes of it (operators) |
| `SyncPlay` | the coordinator: groups, memberships, hub, sockets, grace timers, ends of sessions, checked requests, what clients were told |
| `MCSyncPlay` | instances of it for TLC: parts of the next-state relation with their bounds |
| `MCSyncPlayGroups` | the playback of a group and the queue of one, as the two scenes of one run |
| `SyncPlayProofs` | lemmas on every operator of `SyncPlayGroup`, the inductive invariant of `SyncPlay` and the theorems that follow |
| `QuickConnect` | the storage of pending sessions and its handlers |
| `SignIns` | what a device that asks to be signed in is promised: the abstract specification that `QuickConnect` implements |
| `QuickConnectProofs` | its inductive invariant, theorems and the refinement |
| `PlaybackSessions` | the storage of playback sessions, the requests that use it, the deletion of servers |
| `PlaybackSessionsProofs` | its inductive invariant and theorems |
| `AuthMappings` | a local user's upstream mappings and sessions, and the tasks that read, await and write them |
| `MCAuthMappings` | its upstream users and the symmetry for TLC |
| `AuthMappingsProofs` | its inductive invariant and theorems |
| `MediaCatalog` | the catalog of items that several servers have, and the requests that write it and read it |
| `PublicIds` | what clients are promised of the ids of groups: the abstract specification that `MediaCatalog` implements |
| `MCMediaCatalog` | its servers, items and answers for TLC |
| `MediaCatalogProofs` | its inductive invariant, theorems and the refinement |
| `Libraries` | configured and automatic libraries, listings of the root, edits, restarts |
| `MCLibraries` | its libraries and keys for TLC, with a bound on what is looked at together |
| `LibrariesProofs` | its inductive invariants and theorems |
| `ClientSessions` | the sessions of clients, how requests find or make them, their ends, and the sockets that attach to them |
| `MCClientSessions` | its places for TLC |
| `ClientSessionsProofs` | its inductive invariant and theorems |
| `Upgrade` | a start on the database of an earlier version, and the two migrations that change rows |
| `Serving` | over that database: requests that find their server and their ids, caches, health, what administrators change |
| `MCServing` | small old databases, and a proxy with two servers, for TLC |
| `ServingProofs` | the invariants of both, and their theorems |

### SyncPlay

Every action is one critical section of the coordinator's `RwLock`, with all
that the handler does in it: `Register` and `SocketEnds` are
`register_websocket` and `unregister_websocket_with_grace`, `TimerFires` is
`leave_if_still_disconnected`, and each playback request is an action named
after its handler. Handlers that await between two critical sections are two
actions with a variable for what they carry along:

* `req[s]`: a join or queue request whose library check has passed, with the
  members or the queue it was made for (`CheckJoin`/`JoinGroup`,
  `CheckQueue`/`SetNewQueue`/`QueueItems`);
* `timers`: the 30 s tasks that sleep; `tasks`: the WebSocket handlers that have
  not unregistered yet, of which a session may have several;
* `ending[s]`: a session end that is half done. Logout and the administrator's
  reset end the group membership first and remove the session second; a revoked
  token is handled the other way round.

`told[s]` is what the messages sent on the session's current connection add up
to: group, state, queue and current entry. It is what the client shows.
`unchecked` is a history variable: the groups whose queue was changed by a
request that found its session in no group when it came to be checked.

Abstractions: positions are a few numbers, and `Estimated` lets a playing group
be at any later one; items, ids and sessions are model values; pings, names,
modes, timestamps and the delays of commands are left out, since no branch reads
them; a client report that is dropped as outdated is a report that does not
arrive. A participant's flags are sets in the group's record.

### Quick Connect

`sessions` is the storage's one map, keyed by secrets and codes. The n-th
session has the secret n and sessions expire in this order (`Tick`). A redemption
is `BeginRedeem`, the awaited sign-in upstream, and `EndRedeem`, which removes the
session whether the sign-in worked or not. `Initiate` stores and
`FinishInitiate` cleans up, as the handler does, in two critical sections.

`SignIns` says what a device is promised, without the copies under codes: it waits, is
approved by somebody who knows its code, is signed in as that user, and its secret is
then used up; before its time is up nothing else ends its wait. `QuickConnect` implements
it under the mapping `Waiting`: the devices that wait are the entries under secrets.
`SignIns` promises nothing of two devices with one code (see the finding).

### Playback sessions

A request is an element of `requests`, with what its handler carries across its
awaits. A report goes from *resolved* (its binding's server and revision were
read, `ResolveReport`) to *sent* (`SendReport`) to the storage (`Started`,
`Progressed`, `Stopped`: the end of `proxy_handler`). A stream is *routed*, looked
up and then sent (`Choose`, `LookupStream`, `Streamed`). A negotiation is sent and
then *tracking*: its answer names any number of ids and items, each of which is
an `add_session` of its own. `Lookup` and `ResolveServer` stand for every other
request that finds a tracked entry and asks the database for its server. `Drop` ends
a request at any of its awaits. `DeleteServer` and `EndDelete` are the two steps of the
administrator's deletion, which `AbandonDelete` cuts short.

`overtaken` is a history variable: the reports on whose play session another
request has added an entry since they were resolved. The code does not know it;
the properties say that its revisions amount to it.

Abstractions: the vector is a set, since the one lookup that takes the newest
entry reads no more than server and revision, in which all candidates agree
(`OneBinding`); a Uuid revision is a counter; time is a few ticks; which server
holds an item, is healthy and has credentials of the user is left open, so that
every existing server may be chosen or refused.

### User authorization

`account`, `mappings` and `sessions` are the rows of one user name in `users`,
`server_mappings` and `authorization_sessions`; every query of the service is
limited to one user. A mapping's password is `sealed`: what is in it and the key
that opens it, the user's password or the administrator's (`AdminKey`). `Read` is
`decrypt_server_mapping_password`, which takes a ciphertext that it cannot open for
a password in plain text; no upstream accepts that one, so it is one value,
`Garbled`.

A request to one server is a task that carries what it has read across its awaits:

| Step of the task | What the code has done | What comes next |
|---|---|---|
| *known* | found the user, whose password was right (a login), or who is signed in | `ReadMapping` lists and decrypts the mapping |
| *asked* | has a login to try upstream, before the user is looked up again | the upstream answers, `Resolve` finds or creates the user |
| *resolved* | the upstream has accepted the login | `Compare`, the read before the transaction of `add_server_mapping_by_id` |
| *compared* | knows whether the credentials changed | `AddMapping`, the transaction |
| *mapped* | the mapping is stored, or was a token to begin with | `StoreSession` |
| *verified* | a change of the password, the old one was right | `ChangePassword`, the transaction |

A login by password goes through *known*, *asked*, *resolved*, *compared* and
*mapped*, and that of somebody unknown begins at *asked*; a device that is signed in
skips *asked*, and with a token goes from *known* to *mapped*; connections of the
user and of the administrator begin at *resolved* and end with the mapping. `Drop`
ends a task anywhere: an upstream refuses, a query fails, the client is gone.
`AddToken`, `DeleteMapping`, `DeleteSessions` and `DeleteUser` are one transaction each.

Two history variables: `overtaken` are the tasks that have read the user's password or
the mapping before another request changed it, and `disturbed` the servers whose
mapping or sessions such a task wrote last. The code has neither. What holds of the
other servers is what the code promises; what can happen to these is the
finding of `AuthPasswords`.

Abstractions: a task for each server where the code awaits all of them before it
writes, which allows more orders than the code; passwords and upstream accounts are
model values, with the name an account belongs to (`NameOf`), and the password that
somebody unknown logs in with is not tied to the account that is tried with it;
records of old versions, and the rebinding of sessions between Android TV devices,
are left out.

### Media catalog

`catalog[c]` are the tables of one scope: a merged library or an aggregate show, as one
viewer sees it. `source`, `listed`, `tagged` and `routed` hold the generations that
decide which of two responses is the newer one; `seen` and `tags` say what is sighted
where and under which aliases (provider ids); `group`, `ids`, `ambiguous`,
`published`, `claims` and `routes` are what `rebuild_media_groups` and
`replace_media_version_sources` make of that.

A request draws its generation before it asks the servers and writes when they have
answered, so that any two are committed in any order. `BeginListing` and
`AnswerListing` are a listing: `Accepted` and `Stored` translate
`reconcile_media_catalog` (which inventories are new enough, sightings, tags, sources
that are pruned) and `Rebuilt` translates `rebuild_media_groups` (components of shared
aliases, the oldest candidate as their home, splits, merges, marks, claims, routes),
both in one transaction. `BeginDetails`, `AskMembers` and `AnswerDetails` are a details
or playback request: the group that an item is routed in, the members that are asked, and
the sources they report, unless one of them has left the group meanwhile. `DeleteServer` is
the deletion with its foreign keys. `Collapsed` translates `MediaDedupPlan`, which decides
what a listing shows as one; it is evaluated over every response the servers could give
in every state, since it reads the aliases of the response and the groups of the catalog.

`PublicIds` says what the ids of groups promise, with one variable. `MediaCatalog`
implements it under the mapping `leads <- [c \in Scope |-> catalog[c].ids]`.

Abstractions: an item's provider ids are a set of aliases, and the two kinds of items
that must not meet are told apart in the alias; a library has one source for each
parent folder; numbers that the database gives are drawn in its order (groups are
counted per scope); the rows of members without aliases that no source sights are
left where they are, as in the code; mappings are not deleted on their own. What is
written of presentation (names, pictures, order) is left out.

### Libraries

`known`, `groupKind` and `assigned` are the administrator's side:
`discovered_libraries`, `library_groups` and `library_group_members`. `automatic`,
`members` and `generations` are the viewers' side. A listing of the root is
`BeginRefresh`, which draws a generation and fixes the servers that the viewer has
sessions with; `AnswerRefresh`, where some of them have answered, assigned libraries
are taken out and the rest is presented by type and name; and `CommitRefresh`, the
transaction that replaces what was stored for the servers that answered, unless a
listing that began later was stored before. An assignment is `BeginAssign`, which looks
up the library's type, and `FinishAssign`, the transaction. `Restart` forgets
generations and everything under way, and keeps the database.

`assignedAs` and `newest` are history variables: the type with which a library was
assigned, and the newest listing that was stored for a viewer and a server.
`GroupOpens` and `AutomaticOpens` are what a virtual library opens to; requests that only
read go through them.

Abstractions: a key is a type and a name together; the order and the names of groups are
left out; any listing that a server could give is a function from some of its libraries
to keys.

### Client sessions

`entries` is the map of `ClientSessionService`, `hub` the connections, and a request is an
element of `handlers`. `Arrive` is the request's identity, `EnsureExisting` and `EnsureNew`
are `ensure`, which first clears away what is idle (`Kept`) and then finds or makes the
session (`Existing`). The request ends (`Done`), logs out (`Logout`, `FinishLogout`, two
critical sections) or is a socket: `Register` and then the loop of `websocket.rs`, with
`Inbound`, `Replaced` (each tick), `BeginCheck` and `FinishCheck` (every 15 s: the session is
read, then its user is looked up) and `Unregister`. `Validate` is `valid_session` as lists
and commands call it, `BeginReset` and `FinishReset` what the administrator's reset does
with a session, which `AbandonReset` cuts short. Group membership is in `SyncPlay`, which
takes sessions and sockets as given; the two modules share `register_websocket`,
`unregister_websocket_with_grace`, `end_session` and `remove`, each with its own part of
what they do.

Abstractions: a place is a token with a device id, which is what a session is looked up
by besides its client; a header with the literal version "Unknown" is left out; time is
whether a session is idle; the loop over the sessions of a user is one session at a
time, drawn from all that ever were.

### Upgrade

`db` has the tables whose rows identify servers and users, as functions from ids to
rows. `Start` is `canonicalize_legacy_server_identity`, one transaction at every start:
`Canonicalize` brings URLs to the form that `ServerUrl` has and merges the rows which
this makes equal. `MigrateUsers` and `MigrateServers` are the two migrations that change
rows, one transaction each: the first one makes one user of those of a name, the second
one replaces URLs by server ids. Both kinds of merges keep the first row of a key and the
newest session of a device (`Merge`). `Stop` ends the process between any two
transactions; what is not committed runs at the next start. `was` is a history
variable: the database before the first start, or the latest stop of a database that is
up to date.

Abstractions: a URL is a host with one of three forms: the canonical one, one with spaces or
slashes around it, which Rust and SQL trim alike, and any other one, which only Rust
brings to the canonical form; columns that no step looks at are left out; the order of
rows by time of creation and id is that of ids; every URL can be parsed (others end the
process with an error that names the row).

### Serving

`Serving` extends `Upgrade`: its database is the one that an upgrade leaves, or that this
version has made, and a stop (`StopServing`) leads back to `Start`. The process adds what only it
knows: `healthy`, the two caches `byId` and `byItem`, and the requests. A request goes
through the steps of `proxy_handler`, and between any two of them everything else may happen:

| Step | Code | What it reads |
|---|---|---|
| `Receive` | `extract_request_infos` | the user's sessions on servers that are up; the ids in the body, which vote for a server |
| `Route` | `preprocess_request` | the ids in the URL (`Deciding`), then the votes and the body's aggregates (`Wanted`), then the user's first server; for reports, the one server that item, source and play session agree on (`ServersForReport`) |
| `Send` | `client_to_server_url`, `process_request_body` | the rows of the ids, which have to be the server's (`UrlRow`, `BodyRow`), and the account that the body names |
| `Answer` | the upstream | an item, or a failure |
| `LookUp`, `Create` | `get_or_create_media_mapping` | the cache and the table, and then the insertion, which another request may have made first |

`DeleteServer` takes its rows along and leaves the caches as they are; `UpdatePriority`,
`CheckHealth`, `Regroup` (what `MediaCatalog` and `Libraries` do to the members of aggregates
and libraries) and `Expire` are the other events. `shown` is a history variable: what ids
clients were shown for which items. `then`, in a request, are the servers that there were
when it came in.

Abstractions: the id of a row of media is the id that clients know it by (the code draws
random ones, which are as fresh as the row); a body is the sets of ids that are looked at
differently; several sessions of a device on a server are one of them, any; the server
of a play session is any, since `PlaybackSessions` is about it; lookups of one
step are made together; other writes to the tables (logins, connections) are left to
`AuthMappings`, so that sessions and mappings of users only go while requests are served.

## Runs

| Run | What is explored | Properties |
|---|---|---|
| `SyncPlayMembers` | 2 sessions, 2 groups, 2 sockets, 2 timers, under fairness; sockets, timers, logouts, revocations, memberships | `Membership`, `MemberAttended`, `NewerSocketSurvives`, `LatestTimerEvicts`, `DroppedMemberLeaves` |
| `SyncPlayGroups` | two scenes. Playback: 2 sessions in a group with something queued, 3 sockets, every control and report with a negative and a positive position. Queue: 2 sessions of which one may see the second item, queues up to 2 entries, one item queued twice, every edit, joins and queue changes with their checks | `QueueIndexInBounds`, `QueueWithinAccess`, `WaitsForSomebody`, `MembersToldEverything`, `WaitKeepsPosition` |
| `SyncPlayLogout` | as `SyncPlayMembers`, smaller | `LoggedOutIsNoMember` is violated (finding) |
| `QuickConnect` | 3 sessions, 2 codes, 2 redemptions at a time, under fairness | `ApprovalReachesDevice`, `SignInsKept`, `ExpiredLeaves` |
| `PlaybackSessions` | 1 user, 2 items, 2 servers, 2 requests at a time, 2 additions, under fairness | `LateReportsHarmless`, `ReportsTakeEffect`, `ForgottenStaysForgotten`, `DeletedServerForgotten` |
| `AuthMappings` | 1 server, 2 upstream users of which one has no password, 2 devices, 2 passwords, 2 tasks at a time, 2 users of the name one after the other | `MappingsReadable`, `SessionsFit` |
| `AuthPasswords` | the same | `NothingLost` is violated (finding) |
| `MediaCatalog` | 1 library, server A with items 1 and 3, server B with item 2, 2 aliases; A always has 1 and may have 3, B gives item 2 the alias of 3, both or none; 3 generations | `FencesHold`, `SharedTagsShareGroup`, `OneVersionPerServer`, `ShownOnce`, `ReferencesHold`, `IdsKeepMeaning` |
| `Libraries` | 2 servers with a library each, 2 keys of different types, 2 groups, 1 viewer, 2 generations, 1 assignment at a time | `GroupKeepsKind`, `NewestStands`, `OpensOnce` |
| `ClientSessions` | 1 user, 1 token and device id, 2 named clients and one without a name, 3 sessions, 2 requests or sockets at a time, under fairness | `ClientsKeptApart`, `ConnectedKept`, `UnauthorizedDisconnect` |
| `Serving` | every database of 3 users, two of them of one name, 2 rows of servers, 3 of mappings and 2 of sessions, and every one of 2 rows of servers, of administrators and of media with 4 URLs, upgraded with stops in between; and a proxy with 2 servers, an item on each, 2 users, an aggregate and a library, 2 of 10 kinds of requests at a time, any deletions and restarts, and one other event | `StartsUp`, `DataKept`, `OneIdPerItem`, `IdsBelong`, `OwnAccount`, `NamedServerAsked`, `ReportsExact`, `NewestSessionKept`, `RestartChangesNothing` |
| `QuickConnectCodes` | `QuickConnect` with 2 users | `LiveCodesUnique` is violated (finding) |

Why the bounds are enough: two sockets of one session are an old one that has
not noticed and the one that replaced it; ids of sockets and timers are used again when
they are over, so that a session may drop and come back any number of times; two
timers of one session are the outdated one and that of the latest drop. Two sessions
are the one that acts and the one that is acted upon, also for the library checks: one
may see every item, the other joins or queues while the check is awaited. Two positions
tell a wait's own position from a reported one, and one is negative for the
clamp. Queues of two entries have a current entry at the front, at the end and
none. Two codes for three sessions force a code to be drawn again.
Two requests at a time are a report and the one that overtakes it; two
additions are the binding it was made for and what replaces it, is an alias of it or
comes after the deletion. Two tasks of
`AuthMappings` are again the one that has read and the one that writes in between;
one server is enough, since a password change is the only action that touches
several and treats each alone; of the two upstream users one has an empty password,
for which a token mapping counts as unchanged; the second local user comes after the
first one was deleted with requests under way. In `MediaCatalog`, items 1 and 3 are on one
server, and item 2 on the other is connected to neither, to one or to both: groups are
made, merge, become ambiguous, split and come back; three generations are two requests
that overlap and one after them. In `Libraries`, two generations are a listing and the
one that overtakes it; two groups are looked at while no listing is stored or under way
(`SpecSmall`), since assignments and listings meet only in whether a library is assigned, and
one group is enough for that. In `ClientSessions`, two names and none are the clients
that must not meet and the one that may be either; three sessions are one for each; two
requests are a socket and the request that replaces it, ends its session or clears it
away. The two scenes of `SyncPlayGroups` begin with everybody connected; in that of the queue
nothing is played (`NothingPlayed`), since the queue's edits do not read the position.
`EmptyQueueControl` is FALSE in it: clients do not seek or
report loading with nothing queued, because `WaitsForSomebody` does not hold of a
wait in an empty queue, in which a reconnect clears the loading flag (a hazard,
see `PROJECT.json`). In `Serving`, two rows are the ones that a merge makes equal, and
the third mapping is that of another user; two requests
are the one that acts on what it has read and the one, or the event, that overtakes it;
`MaxEvents` counts changes of priority and health, of members and of the caches, while
deletions and stops are free; old databases are upgraded but not served, since what they
become is what the other half starts with. Requests name ids of either server, of the aggregate
and of the library, in their path, query, source and body, for a user with accounts on both
servers, one with an account on one of them, and nobody. Ids and requests are symmetric in
the runs without liveness; in `MediaCatalog` items are numbers, whose order the code uses,
and nothing is symmetric.

A definition whose comment begins with "Fault" is not used by a specification:
it is its neighbour with a plausible mistake in it, and stands there because the
named property must be violated when it takes the neighbour's place.

### What the violations show

* `SyncPlayLogout`: `/Sessions/Logout` ends the membership and then removes the
  session, and its connection, in a second step. A client that reconnects and
  joins a group between the two stays a member without a connection, and without
  a grace timer that would ever take it out. A test asserts that after a logout
  the session is no member. Revocation uses the opposite order and does not
  have this; ending the membership again after the removal would be a repair.
* `QuickConnectCodes`: a code may be reused as soon as the session stored under
  it is expired, but the expired session's copy under its secret is cleaned up
  by removing whatever is stored under its code: the new session can no longer be
  approved and its code counts as free, so two live sessions may show the same
  code, which the comment on `store_session` rules out. Removing a code only if
  the entry has the same secret would be a repair.

* `AuthPasswords`: two changes of the password overlap. Both verify the old one
  before either has begun its transaction; the second then tries to open the
  mappings with a key that they no longer have, takes the ciphertext for the
  password and encrypts it. A login or sign-in that was under way during a first
  change has the same effect at the next one. Verifying the old password inside the
  transaction, and refusing to encrypt what could not be decrypted, would be a repair.

## Fairness

`FairSpec` of `SyncPlay` assumes that a sleeping timer wakes (`tokio::spawn` of a
`sleep`) and that a session end that began is carried through (two awaits on
locks that are held briefly). Nothing is assumed of clients, sockets, requests or
the network: `DroppedMemberLeaves` holds although no client ever returns.
`SyncPlayMembers` checks it with the same assumption (`FairMembers`).
`FairSpec` of `QuickConnect` assumes that the cleanup task, which runs every 60 s,
keeps running. Nobody is assumed to poll, to approve or to redeem.
`FairSpec` of `PlaybackSessions` assumes that time passes and nothing else: no
request has to be answered, and no deletion to be carried through.
`FairSpec` of `ClientSessions` assumes that the loop of a socket goes on: it ticks every
250 ms, and each of its waits is bounded by a timeout or a query. Clients need not say
anything or close, and a reset need not be carried through.

## Proofs

All theorems are of `Spec`, for any sets of sessions, groups, items, ids and
positions, under the named assumptions in the modules (the null values are not in
their sets, positions are integers, queued payloads are sequences of items).

`SyncPlayProofs` proves that `IInv` is inductive. `Membership`,
`WaitHasPosition`, `QueueIndexInBounds` and `GraceWatched` are not inductive on
their own: a resumed wait takes its position from `pending`, so the shape of
the group must be known; a group that a leaver leaves behind is known to exist
only because the maps agree; the flags must be those of members. `IInv` is
therefore the conjunction of the types of the coordinator's variables
(`OtherTypes`), `Consistent` (the maps agree, every group has the shape
`GroupInv`) and the grace condition. Each operator of `SyncPlayGroup` has a
lemma that says it keeps `GroupInv`; each action has a
lemma that reduces it to those. From `Invariance` follow `TypeCorrect`,
`MembershipHolds`, `QueueIndexHolds`, `WaitPositionHolds`, `GraceHolds`, and the
action property `LatestTimerHolds`: a timer evicts only if the grace id is its
own, and then the timer of no other id is the latest.

The other properties of the coordinator rest on `IInv` and an invariant of their own.
`AllServed` says what the handlers owe one session: in a group it is connected or in its
grace, it is marked as the hub has it, and on the connection it has it has been sent the
present state, queue and current entry. It is shown per session, for the one that acts and
for the others (`LeaveServes`, `RegisterServes`, `SocketEndsServes`, `ChangeServes`, ...);
`AttendedHolds`, `ConnectedHolds` and `ToldHolds` are its parts. `CorrectionServes` shows
besides that a playlist correction tells a client nothing it has not been told, since the
model loses no message to a connection that is up. `NewerSocketHolds` follows the
steps that end a connection. `Presence` is what becomes of a group when members and sockets
come and go (it keeps its position and its wait, ends the wait when nobody is left to
wait for, and gains only members that were checked), and `PlaysOn` and `Queues` what members make of their
group; `WaitsHold` (with `AllWait`), `WaitPositionKept` and `AccessHolds` (with `AllSee`, which
includes what the check of a request found and its answer relies on) follow from these without
a look at single handlers. `WaitsHold` assumes `~EmptyQueueControl`, as its run does: with
an empty queue the property does not hold (hazard at `service.rs:287`).

`QuickConnectProofs` proves that `StoreInv` is kept: entries are stored under
their own secret or code (`KeysMatch`), nothing is stored for a session that was not
initiated (`OnlyDrawn`), and a code of a session that is not expired leads to
the copy that is stored under the secret (`ApprovalReachesDevice`). Two lemmas
carry it, one for removing keys, one for storing both copies. `SignInsImplemented` is the
refinement, a lemma for each handler: whatever cleans up, polls or finds an expired entry
only forgets devices whose time is up (`RemovalForgets`, since a code is no secret); an
approval finds a live session by its code, and by the invariant the entry that waits under
its secret is the same one, so that it changes that device and puts none back; and the end of
a redemption takes away one secret, besides what it removes under a code. That nothing of it
depends on codes being unique is the point: the finding on codes does not break it.

`PlaybackSessionsProofs` proves that `IInv` is kept. `OneBinding` is inductive by
itself, but what reports do is not in it: `RevisionsOwned` says that a revision is
given to one binding and that the counter is ahead of all of them, and
`ReportKnows` that a report's revision is the one of its whole binding until it is
overtaken and of no entry from then on. Three lemmas carry the steps: one for steps
that add nothing (`Quiet`), one for requests that begin (`Begins`), one for
`add_session` (`Tracks`). `LateReportsHold` and `ReportsHold` are then one fact about
`Reported`, `OthersHold`, which only the proof shows since the run has one user, is about what adding
and reporting leave, and
`ForgottenHolds` follows the servers that a step can bring in.

`AuthMappingsProofs` proves that `IInv` is kept: what the rows say of each other
(`RowsInv`, with `RowsOwned`: a mapping has an owner and the name of its account) and,
for every task, what it carries (`Carries`) and what it knows of the user and the
mapping as long as nothing overtakes it (`Knows`). `MappingsReadable` needs the tasks'
part because a mapping is written with the key that a task carries, and `SessionsFit`
because a session survives an `AddMapping` whose comparison was made earlier. Three
lemmas carry the steps: a task's own step that changes no row (`TaskStep`), a task
that another one leaves alone or overtakes (`OtherTask`), and a mapping that is
replaced together with its sessions (`ReplacedIInv`). The theorems are `ExactlyOneHolds`,
`MappingsReadableHolds` and `SessionsFitHold`, for any numbers of servers, devices, tasks
and users and any logins and tokens.

`MediaCatalogProofs` proves that `CatalogsInv` is kept: the types, and for each catalog
`CatalogInv`, a conjunction of what `FencesHold`, `SharedTagsShareGroup`,
`OneVersionPerServer` and `ReferencesHold` say of one catalog, with what these need of each
other: ids lead to groups that lead to themselves, and a route stays with its member's
group. The first lemmas are about `Component`, a CHOOSE over sets: that the smallest closed
set exists (the set of mappings is finite) and that the components are disjoint and closed. On
them rest lemmas on the homes of components (different components get different ones: a
group that two of them claim is split) and on each table after a rebuild. `IdsImplemented`
shows the refinement, step by step: a response merges and adds groups (`Regroup`) and
everything else leaves the ids alone. `IdsShownOnce` needs no more than the invariant,
since what the response connects is bridged by groups that are told apart.

`LibrariesProofs` has two invariants. `GroupsInv` is about rows: an assigned library's group
exists and has the type it was assigned with, whatever assignments are under way.
`ListingsInv` is about listings: what a listing carries is of the servers it covers, no listing
stored for a server is newer than the committed generation, and the rows of a viewer and
a server are those of the newest. `LibrariesOpenOnce` follows because a listing has one key
for a library, and what is assigned is left out when an automatic library is opened.

`ClientSessionsProofs` proves that `IInv` is kept: the types, `ClientsKeptApart`, and `Known`:
whoever acts for a session acts for one whose id was drawn. `ClientsKeptApart` needs that
because a new session must be nobody's yet; it is what the comment in `ensure` is about, and
holds since a session is only renamed from no name, and only to its client's.
`ConnectedStay` then looks at the steps that take something off the list.

`ServingProofs` has two parts. The first one is about single databases. `Sound` says that
the tables have their types, foreign keys and unique keys, and `Covers(c, d)` that d holds
what c had: its servers, administrators' accounts, mappings and media, by host, name and item.
Each of the three transactions keeps `Sound` (or fails, which `MergeUsers` does only with three
users of one name, `Threefold`), and what comes out of it covers what went in. `Covers` is
transitive, so that `DbInv` can say it of the database that was found and the present one,
with how far the database has come: canonical URLs once a start was made, one user of a name after the
first migration, servers by id after the second one. The lemmas before
that are about `Firsts` and `FirstLike`: every key has a first row, and a merge keeps one session
that was used last, which needs ids and times to be bounded (`IdAssumption`). `UpgradeEnds`
follows because a database that is up to date has canonical URLs, of which no two are equal.

The second part is about `ServeSpec`, whose steps include all of `Upgrade`'s. `IInv` adds to
`DbInv`: `Quiet`, a process that does not serve has no caches and no requests under way;
`IdsIssued`, no id is ahead of the last one that was given; `ByIdRight`, `ShownRight` and
`ByItemRight`, what the caches have and what clients were shown agrees with the tables as far as the
rows are still there; `RequestsRight`, what a request in each phase has found. The
properties are not inductive by themselves. `OneIdPerItem` needs the table, since a cached or stored id
is shown again, and the counter, since a new id must not have been shown for a row that is
gone. `NamedServerAsked` and `IdsBelong` need that a cached server is that of the row, and
that an id that a request names is not given to another row later. `RowsStay` is what every step
does to the tables while the proxy serves, and all that a request's part of the invariant needs to know
of the steps of others. The five theorems on requests and the five on upgrades hold for any
numbers of servers, users, requests, events and ids, and the latter also after any serving in between.

Every safety and action property of the passing runs is proved. Some theorems state
invariants that no run has to check any more: the types, `GraceWatched`,
`ConnectedAgreesWithHub`, `WaitHasPosition`, `OneBinding` and `ExactlyOneUsed`. Only model-checked: the liveness properties `DroppedMemberLeaves`, `ExpiredLeaves`,
`DeletedServerForgotten` and `UnauthorizedDisconnect`, since liveness under
fairness is out of the prover's reach, and what the violation runs refute.

## What was met on the way

These are behaviours of the code that the models have and no document contradicts, so
that no run counts them as violations; a reader of the code may want to know them.

* The migration that makes one user of those of a name (20260221120000) deletes a mapping of a
  user that goes only if the user that stays has one for the same server. If there are three users
  of a name, and the two that go both have a mapping for a server for which the third has none,
  both are moved to it, which breaks `UNIQUE(user_id, server_url)`: the migration is rolled back and
  the process exits, at this start and at every later one. `StartsUp` is stated with this exception;
  TLC finds the database at once if it is left out and a third user has the name. Deleting all but the
  first mapping of a name and a server would be a repair.
* The servers that the ids of a body vote for are counted as whole records
  (`RequestBodyAnalysisResult::get_server`), and some of them come from a cache: after a change
  of a server's priority its votes may count as those of two.
* A server that is deleted stays in the cache of mappings for half an hour. Its ids then
  belong to no server that the user may use, and a request that names one fails.
* A source that was pruned is created again by an incomplete response with generation 0
  (`media_storage_service.rs`, `reconcile_media_catalog`), and then accepts a complete
  response that is older than the one that pruned it.
* A library whose type has changed since it was assigned is listed as if it were not
  assigned (`partition_library_root_inventory`), while opening its group still includes
  it and opening an automatic library leaves it out.
* The deletion of a server takes its assignments along by foreign key, but a group that
  this empties keeps its type; removing the last library by hand opens it.
* A listing of the root that reached servers which a newer, partial one did not reach is
  dropped entirely (`reconcile_automatic_library_members` compares one generation for all
  servers). `NewestStands` speaks of listings that were stored.
* A server that is deleted while a listing is under way fails the transaction of that
  listing, for all servers.
* A listing of a library that is read in pages counts as fetched in full even if the
  library changed between two pages; an item that slipped between them loses its
  sighting until the next listing.

## Not modelled

* The 64 messages that a connection buffers (a full buffer drops an update), periodic
  subscriptions, play state, capabilities and remote commands of client sessions.
  `SyncPlay` has no more than one end of a session at a time; `ClientSessions` does.
* The rebinding of upstream sessions between Android TV devices of one name; the
  creation and deletion of users on the servers; API keys; single sign-on, whose state
  belongs to a library.
* Health checks of single servers in the models other than `Serving`: there any server may be
  unavailable at any time. New servers: in `Serving` there are fewer and fewer.
* Authorization headers, the fields of a JSON document that count as ids (`json_processor.rs`,
  `field_matcher.rs`), delivery URLs, paging, sorting and merging of fields
  (`handlers/federated/`): sequential functions of one request that keep no state. They are a
  large part of the source, the longest files of which are tests, forms and data types besides.
* The web interface, the settings file, the API client and the macros.

`PROJECT.json` lists these by component.

## Plan

1. `SyncPlay`, `QuickConnect` with `SignIns`, `PlaybackSessions` and `AuthMappings`: done.
2. `MediaCatalog` with `PublicIds`, `Libraries` and `ClientSessions`: done.
3. `Upgrade` and `Serving`: done.
4. The rebinding of sessions in `AuthMappings`; the creation of servers and logins in
   `Serving`.
5. `Membership`, an abstract specification of who is in which group, with
   `SyncPlay` shown to implement it; the transport's bounded buffer and the
   client sessions' play state.
6. Proofs: all safety properties of the runs are done; the refinement of step 5 is left.
