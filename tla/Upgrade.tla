------------------------------ MODULE Upgrade ------------------------------
(***************************************************************************)
(* How the proxy starts on the database of an earlier version (main.rs).   *)
(* On every start legacy_server_identity.rs brings server URLs to their    *)
(* canonical form and merges the rows that this makes equal; then the      *)
(* migrations that are not committed yet run.  Two of them change rows:    *)
(* one merges users of one name (20260221120000), the other one identifies *)
(* servers by ids instead of URLs (20260508120000).  Each of these is one  *)
(* transaction; the process may stop between any two of them and starts    *)
(* again from the beginning.                                               *)
(*                                                                         *)
(* A table is a function from the ids of its rows, and ids grow with time. *)
(* What no step looks at (names of servers, credentials, ...) is left out. *)
(* Definitions introduced as a "fault" are not part of the model.          *)
(***************************************************************************)
EXTENDS Integers

CONSTANTS
  User,     \* ids of users, in the order of their creation
  NameOf,   \* names of users, as the merge compares them
  Host,     \* what canonical URLs tell apart
  Device,
  Item,     \* original ids of media
  Id,       \* ids of rows
  Time,     \* when a session was last updated
  NoServer  \* the server of a row that has only a URL

\* Sets of integers with a first and a last one in each of their subsets.
Bounded(I) ==
  /\ I \subseteq Int
  /\ \A S \in SUBSET I : S # {} => \E i, k \in S : \A j \in S : i <= j /\ j <= k

ASSUME IdAssumption == Bounded(User) /\ Bounded(Id) /\ Bounded(Time) /\ NoServer \notin Id

VARIABLES
  db,       \* the database
  migrated, \* the migrations of the two that are committed
  process,  \* what the process is about
  was       \* history: the database that this version, or a start of it, has to take over

vars == <<db, migrated, process, was>>

---------------------------------------------------------------------------
(* The tables *)

\* A URL leads to a host; only the canonical form is "plain".  SQL's trimming takes
\* the slashes off that make it "slashed", and nothing off what is "other" (a query, ...).
Url == [host : Host, form : {"plain", "slashed", "other"}]

Canonical(url) == [url EXCEPT !.form = "plain"]
Trimmed(url) == IF url.form = "slashed" THEN Canonical(url) ELSE url

Mapping == [user : User, url : Url, server : Id \cup {NoServer}]
Session == [user : User, mapping : Id, device : Device, used : Time]
Medium == [item : Item, url : Url, server : Id \cup {NoServer}]

Table(Row) == UNION {[S -> Row] : S \in SUBSET Id}

Database == [users : SUBSET User, servers : Table(Url), admins : Table(Id),
             mappings : Table(Mapping), sessions : Table(Session), media : Table(Medium)]

\* The ids of the first row for each key, and the one for the key of row i.
Firsts(key) == {i \in DOMAIN key : \A j \in DOMAIN key : key[j] = key[i] => i <= j}
FirstLike(key, i) == CHOOSE j \in Firsts(key) : key[j] = key[i]

\* Rows that a UNIQUE constraint tells apart.
Unique(key) == \A i, j \in DOMAIN key : key[i] = key[j] => i = j

MappingUrls(d) == [m \in DOMAIN d.mappings |-> <<d.mappings[m].user, d.mappings[m].url>>]
MediaUrls(d) == [v \in DOMAIN d.media |-> <<d.media[v].item, d.media[v].url>>]
SessionKeys(d) ==
  [s \in DOMAIN d.sessions |->
     <<d.sessions[s].user, d.sessions[s].mapping, d.sessions[s].device>>]

\* The constraints of the schema that the earliest versions have.
References(d) ==
  /\ \A a \in DOMAIN d.admins : d.admins[a] \in DOMAIN d.servers
  /\ \A m \in DOMAIN d.mappings : d.mappings[m].user \in d.users
  /\ \A s \in DOMAIN d.sessions : /\ d.sessions[s].mapping \in DOMAIN d.mappings
                                  /\ d.sessions[s].user \in d.users
UniqueKeys(d) ==
  Unique(d.admins) /\ Unique(MappingUrls(d)) /\ Unique(SessionKeys(d)) /\ Unique(MediaUrls(d))

\* A session belongs to the user of its mapping.
OwnSessions(d) ==
  \A s \in DOMAIN d.sessions : d.sessions[s].user = d.mappings[d.sessions[s].mapping].user

\* Rows name servers by URL only.
ByUrl(d) == /\ \A m \in DOMAIN d.mappings : d.mappings[m].server = NoServer
            /\ \A v \in DOMAIN d.media : d.media[v].server = NoServer

Legacy(d) == References(d) /\ UniqueKeys(d) /\ OwnSessions(d) /\ ByUrl(d)

\* One user of a name.
OneName(d) == \A u, v \in d.users : NameOf[u] = NameOf[v] => u = v

\* Rows name their server by id, and have its URL.
ById(d) ==
  /\ \A m \in DOMAIN d.mappings : /\ d.mappings[m].server \in DOMAIN d.servers
                                  /\ d.mappings[m].url = d.servers[d.mappings[m].server]
  /\ \A v \in DOMAIN d.media : /\ d.media[v].server \in DOMAIN d.servers
                               /\ d.media[v].url = d.servers[d.media[v].server]

\* A database of this version.
Current(d) ==
  /\ References(d) /\ UniqueKeys(d) /\ OwnSessions(d)
  /\ Unique(d.servers) /\ OneName(d) /\ ById(d)
  /\ \A s \in DOMAIN d.servers : d.servers[s].form = "plain"

Init == /\ db \in Database /\ Legacy(db)
        /\ migrated = 0
        /\ process = "down"
        /\ was = db

---------------------------------------------------------------------------
(* Rows that are merged.  Of those with one key the first one stays. *)

\* Accounts for servers that become one server.
MergeAdmins(admins, home) ==
  LET serves == [a \in DOMAIN admins |-> home[admins[a]]]
  IN [a \in Firsts(serves) |-> FirstLike(home, admins[a])]

\* Fault, for NewestSessionKept: the session that was updated first stays.
MergeSessionsOldest(sessions, to) ==
  LET key == [s \in {t \in DOMAIN sessions : sessions[t].mapping \in DOMAIN to} |->
                <<sessions[s].user, sessions[s].device, to[sessions[s].mapping]>>]
      earliest == {s \in DOMAIN key : \A t \in DOMAIN key :
                     key[t] = key[s] => \/ sessions[s].used < sessions[t].used
                                        \/ sessions[s].used = sessions[t].used /\ s <= t}
  IN [s \in earliest |-> [sessions[s] EXCEPT !.mapping = to[@]]]

\* Sessions whose mapping i becomes to[i]: of one user's on one device only the one that
\* was updated last stays.
MergeSessions(sessions, to) ==
  LET key == [s \in {t \in DOMAIN sessions : sessions[t].mapping \in DOMAIN to} |->
                <<sessions[s].user, sessions[s].device, to[sessions[s].mapping]>>]
      latest == {s \in DOMAIN key : \A t \in DOMAIN key :
                   key[t] = key[s] => \/ sessions[t].used < sessions[s].used
                                      \/ sessions[t].used = sessions[s].used /\ t <= s}
  IN [s \in latest |-> [sessions[s] EXCEPT !.mapping = to[@]]]

\* home, owner and means are the keys of servers, mappings and media; rows without a key
\* are deleted, and mappings and media are what becomes of the others.
Merge(d, home, owner, mappings, means, media) ==
  [users |-> d.users,
   servers |-> [s \in Firsts(home) |-> home[s]],
   admins |-> MergeAdmins(d.admins, home),
   mappings |-> [m \in Firsts(owner) |-> mappings[m]],
   sessions |-> MergeSessions(d.sessions, [m \in DOMAIN owner |-> FirstLike(owner, m)]),
   media |-> [v \in Firsts(means) |-> media[v]]]

---------------------------------------------------------------------------
(* canonicalize_legacy_server_identity *)

CanonicalHome(d) == [s \in DOMAIN d.servers |-> Canonical(d.servers[s])]

\* Fault, for DataKept: the URL as it was stored.
HomeOfRaw(d, row) == row.url

\* The canonical URL of a row: that of its server, if it has one.
HomeOf(d, row) == Canonical(IF row.server = NoServer THEN row.url ELSE d.servers[row.server])

Moved(d, row) ==
  [row EXCEPT !.url = HomeOf(d, row),
              !.server = IF @ = NoServer THEN @ ELSE FirstLike(CanonicalHome(d), @)]

Canonicalize(d) ==
  Merge(d, CanonicalHome(d),
        [m \in DOMAIN d.mappings |-> <<d.mappings[m].user, HomeOf(d, d.mappings[m])>>],
        [m \in DOMAIN d.mappings |-> Moved(d, d.mappings[m])],
        [v \in DOMAIN d.media |-> <<d.media[v].item, HomeOf(d, d.media[v])>>],
        [v \in DOMAIN d.media |-> Moved(d, d.media[v])])

\* Once there are server ids, a row without one is an error.
Refused(d) ==
  /\ migrated = 2
  /\ \/ \E m \in DOMAIN d.mappings : d.mappings[m].server = NoServer
     \/ \E v \in DOMAIN d.media : d.media[v].server = NoServer

\* Fault, for RestartChangesNothing: it runs when the migrations are done.
StartLate ==
  /\ process = "down"
  /\ process' = "starting"
  /\ db' = IF DOMAIN db.servers = {} \/ migrated < 2 THEN db ELSE Canonicalize(db)
  /\ UNCHANGED <<migrated, was>>

\* Without servers nothing is done.
Start ==
  /\ process = "down"
  /\ IF DOMAIN db.servers # {} /\ Refused(db)
     THEN process' = "failed" /\ UNCHANGED db
     ELSE /\ process' = "starting"
          /\ db' = IF DOMAIN db.servers = {} THEN db ELSE Canonicalize(db)
  /\ UNCHANGED <<migrated, was>>

---------------------------------------------------------------------------
(* The migrations *)

\* The user that a user becomes: the first one of the name.
Becomes(d) == LET name == [u \in d.users |-> NameOf[u]]
              IN [u \in d.users |-> FirstLike(name, u)]

\* Fault, for StartsUp: all of them move.
KeptMappingsAll(d) == DOMAIN d.mappings

\* Mappings of users that go, for servers that the user they become has one for, are
\* deleted, with their sessions.
KeptMappings(d) ==
  {m \in DOMAIN d.mappings :
     LET u == d.mappings[m].user
     IN Becomes(d)[u] # u =>
          ~\E n \in DOMAIN d.mappings :
             /\ d.mappings[n].user = Becomes(d)[u]
             /\ Trimmed(d.mappings[n].url) = Trimmed(d.mappings[m].url)}

MergeUsers(d) ==
  [d EXCEPT
     !.users = {u \in d.users : Becomes(d)[u] = u},
     !.mappings = [m \in KeptMappings(d) |-> [d.mappings[m] EXCEPT !.user = Becomes(d)[@]]],
     !.sessions = [s \in {t \in DOMAIN d.sessions : d.sessions[t].mapping \in KeptMappings(d)}
                     |-> [d.sessions[s] EXCEPT !.user = Becomes(d)[@]]]]

TrimmedHome(d) == [s \in DOMAIN d.servers |-> Trimmed(d.servers[s])]

\* The rows whose URL leads to a server, and the server.
Led(d, rows) == {i \in DOMAIN rows : \E s \in DOMAIN d.servers :
                                       TrimmedHome(d)[s] = Trimmed(rows[i].url)}
LeadsTo(d, row) ==
  CHOOSE s \in Firsts(TrimmedHome(d)) : TrimmedHome(d)[s] = Trimmed(row.url)

\* Rows that lead to no server are deleted, and those that lead to one are merged.
IdentifyServers(d) ==
  Merge(d, TrimmedHome(d),
        [m \in Led(d, d.mappings) |-> <<d.mappings[m].user, LeadsTo(d, d.mappings[m])>>],
        [m \in Led(d, d.mappings) |-> [d.mappings[m] EXCEPT !.server = LeadsTo(d, d.mappings[m])]],
        [v \in Led(d, d.media) |-> <<d.media[v].item, LeadsTo(d, d.media[v])>>],
        [v \in Led(d, d.media) |-> [d.media[v] EXCEPT !.server = LeadsTo(d, d.media[v])]])

\* A migration whose result breaks a UNIQUE constraint fails, and the process exits.
Migrate(result) ==
  /\ process = "starting"
  /\ IF UniqueKeys(result)
     THEN db' = result /\ migrated' = migrated + 1 /\ UNCHANGED process
     ELSE process' = "failed" /\ UNCHANGED <<db, migrated>>
  /\ UNCHANGED was

MigrateUsers == migrated = 0 /\ Migrate(MergeUsers(db))
MigrateServers == migrated = 1 /\ Migrate(IdentifyServers(db))

Serve == /\ process = "starting" /\ migrated = 2
         /\ process' = "serving"
         /\ UNCHANGED <<db, migrated, was>>

\* The process is stopped, crashes or has exited, and is to be started again.
Stop == /\ process # "down"
        /\ process' = "down"
        /\ was' = IF migrated = 2 THEN db ELSE was
        /\ UNCHANGED <<db, migrated>>

Advance == Start \/ MigrateUsers \/ MigrateServers \/ Serve

Next == Advance \/ Stop

Spec == Init /\ [][Next]_vars

---------------------------------------------------------------------------
(* Properties *)

\* The state keeps its types, the constraints of its tables included, whatever is
\* merged, and every session is one of the user of its mapping.
TypeOK ==
  /\ db \in Database /\ was \in Database
  /\ migrated \in 0..2
  /\ process \in {"down", "starting", "serving", "failed"}
  /\ References(db) /\ UniqueKeys(db) /\ OwnSessions(db)

\* The proxy starts on every database that it finds, but for one with three users of one
\* name.
StartsUp ==
  process = "failed" =>
    \E u, v, w \in was.users : /\ u # v /\ v # w /\ u # w
                               /\ NameOf[u] = NameOf[v] /\ NameOf[v] = NameOf[w]

\* The URL of a row leads to a server, in some form.
LedTo(d, row) == \E s \in DOMAIN d.servers : d.servers[s].host = row.url.host

\* The migrations are done, and the proxy is about to serve.
Ready == process = "starting" /\ migrated = 2

\* A user has, under a name, one mapping for each server for which a user of the name
\* had one, in any form of its URL.
AccessKept ==
  \A m \in DOMAIN was.mappings :
    LedTo(was, was.mappings[m]) =>
      \E n \in DOMAIN db.mappings :
        /\ NameOf[db.mappings[n].user] = NameOf[was.mappings[m].user]
        /\ db.servers[db.mappings[n].server].host = was.mappings[m].url.host
        /\ \A k \in DOMAIN db.mappings :
             /\ NameOf[db.mappings[k].user] = NameOf[db.mappings[n].user]
             /\ db.mappings[k].server = db.mappings[n].server
             => k = n

\* An item on a server has one id, the first that it was given.
IdsKept ==
  \A v \in DOMAIN was.media :
    LedTo(was, was.media[v]) =>
      \E w \in DOMAIN db.media :
        /\ w <= v
        /\ db.media[w].item = was.media[v].item
        /\ db.servers[db.media[w].server].host = was.media[v].url.host
        /\ \A x \in DOMAIN db.media :
             db.media[x].item = db.media[w].item /\ db.media[x].server = db.media[w].server
             => x = w

\* A server that had an administrator's account in any of its rows has one.
AdminsKept ==
  \A a \in DOMAIN was.admins :
    \E b \in DOMAIN db.admins :
      /\ b <= a
      /\ db.servers[db.admins[b]].host = was.servers[was.admins[a]].host

\* When the proxy begins to serve, users have the access that they had, items the ids
\* that clients know, and servers their administrators.
DataKept == Ready => AccessKept /\ IdsKept /\ AdminsKept

\* When servers are merged, a user keeps on every device the session used last.
NewestSessionKept ==
  [][Start \/ MigrateServers =>
       \A s \in DOMAIN db.sessions :
         LET m == db.mappings[db.sessions[s].mapping]
         IN LedTo(db, m) =>
              \E t \in DOMAIN db.sessions \cap DOMAIN db'.sessions :
                /\ db.sessions[t].used >= db.sessions[s].used
                /\ db'.sessions[t].user = db.sessions[s].user
                /\ db'.sessions[t].device = db.sessions[s].device
                /\ db'.mappings[db'.sessions[t].mapping].url.host = m.url.host]_vars

\* A start of a database that is up to date changes nothing in it.
RestartChangesNothing == [][process = "down" /\ migrated = 2 => UNCHANGED db]_vars
=============================================================================
