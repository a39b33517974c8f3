---------------------------- MODULE MediaCatalog ----------------------------
(***************************************************************************)
(* The catalog that lets an item which several servers have appear once    *)
(* (media_storage_service.rs, media_catalog.rs, media_identity.rs), and    *)
(* the requests that write it: the listings of a merged library or of an   *)
(* aggregate show (handlers/federated/media_reconciliation.rs), the        *)
(* details of an item and its playback info (handlers/items.rs,            *)
(* handlers/media_versions.rs).                                            *)
(*                                                                         *)
(* A request draws a generation from one clock before it asks the          *)
(* servers, and the catalog is written when they have answered: responses  *)
(* are committed in another order than they were asked for, under a lock   *)
(* and in one transaction each.  Inventories decide what is sighted where, *)
(* the provider ids of the items which of them belong together, and the    *)
(* groups made of that keep their public ids while they merge and split.   *)
(*                                                                         *)
(* A catalog has a scope (a library or an aggregate show, as one viewer    *)
(* sees it).  Mapping and group ids are the numbers the database gives;    *)
(* groups are numbered per scope, and a group's first public id has its    *)
(* number.  A source is a parent folder on a server.  Definitions          *)
(* introduced as a "fault" are not part of the model.                      *)
(***************************************************************************)
EXTENDS Integers, Sequences, FiniteSets

CONSTANTS
  Server,
  Mapping,   \* media mappings: ids of items on servers
  Source,    \* source keys
  HostOf,    \* the server of a mapping or a source
  Scope,     \* the catalogs of one viewer
  Alias,     \* provider ids, qualified by provider and kind of item
  Answers,   \* Answers[s]: the inventories source s may report
  Files,     \* Files[m]: the sets of media sources an item may report
  MaxClock,  \* bound: generations drawn
  None

ASSUME MappingAssumption == Mapping \subseteq Nat /\ IsFiniteSet(Mapping)
ASSUME HostAssumption == HostOf \in [Mapping \cup Source -> Server]
ASSUME AnswersAssumption ==
  \A s \in Source : \A r \in Answers[s] :
    /\ r \in UNION {[I -> SUBSET Alias] : I \in SUBSET Mapping}
    /\ \A m \in DOMAIN r : HostOf[m] = HostOf[s]
ASSUME FilesAssumption ==
  \A m \in Mapping : \A F \in Files[m] :
    F \subseteq {f \in Mapping : HostOf[f] = HostOf[m]}
ASSUME ClockAssumption == MaxClock \in Nat

VARIABLES
  servers,   \* the servers in the database
  clock,     \* movie_version_clock
  requests,  \* the requests under way, with what they carry across their awaits
  catalog    \* the tables of a scope

vars == <<servers, clock, requests, catalog>>

Absent == -1

\* source:    committed_generation of a source, or Absent
\* listed:    sources_generation of the scope
\* seen:      the generation of a sighting, 0 if there is none
\* tagged:    aliases_generation of a member, 0 if there is no such row
\* tags:      its aliases
\* routed:    its sources_generation
\* group:     its group, 0 if it has none
\* ids:       the group that a public id leads to
\* ambiguous, published: the groups with that mark
\* claims:    the group an alias was last seen in (group_aliases), 0 if none
\* routes:    the media sources known to belong to a member of a group
EmptyCatalog ==
  [source    |-> [s \in Source |-> Absent],
   listed    |-> 0,
   seen      |-> [s \in Source |-> [m \in Mapping |-> 0]],
   tagged    |-> [m \in Mapping |-> 0],
   tags      |-> [m \in Mapping |-> {}],
   routed    |-> [m \in Mapping |-> 0],
   group     |-> [m \in Mapping |-> 0],
   ids       |-> <<>>,
   ambiguous |-> {},
   published |-> {},
   claims    |-> [a \in Alias |-> 0],
   routes    |-> {}]

\* A listing; a details or playback request, with the group that its item was found
\* to be routed in (0 if it was none), and once the servers were asked also with the
\* members they are asked about.
Listing == [kind : {"list"}, gen : 1..MaxClock, scope : Scope]
Details == [kind : {"details"}, gen : 1..MaxClock, scope : Scope, group : Nat]
Asking == [kind : {"asking"}, gen : 1..MaxClock, scope : Scope, group : Nat \ {0},
            members : SUBSET Mapping]

Init ==
  /\ servers = Server
  /\ clock = 0
  /\ requests = {}
  /\ catalog = [c \in Scope |-> EmptyCatalog]

---------------------------------------------------------------------------
(* Who is with whom *)

Sighted(k) == {m \in Mapping : \E s \in Source : k.seen[s][m] # 0}
Active(k) == {m \in Sighted(k) : k.tags[m] # {}}
Untagged(k) == Sighted(k) \ Active(k)

\* The sets of members of M that share no alias with another member, and the smallest
\* of them: what shared aliases connect.
IsClosed(tags, M, S) == \A p \in S, q \in M \ S : tags[p] \cap tags[q] = {}
Component(tags, M, m) ==
  CHOOSE C \in SUBSET M : /\ m \in C /\ IsClosed(tags, M, C)
                          /\ \A S \in SUBSET C : m \in S /\ IsClosed(tags, M, S) => S = C
Components(tags, M) == {Component(tags, M, m) : m \in M}

\* get_media_version_members
Members(k, g) ==
  IF g \in k.ambiguous THEN {} ELSE {m \in Active(k) : k.group[m] = g}

\* The groups whose id is shown to clients.
Shown(k) == k.published \ k.ambiguous

OldestOf(S) == CHOOSE g \in S : \A h \in S : g <= h

Live(k) == {g \in DOMAIN k.ids : k.ids[g] = g}

---------------------------------------------------------------------------
(* reconcile_media_catalog: what a response reports *)

\* Fault, for FencesHold: inventories are accepted in any order.
AcceptedAlways(k, g, resp) == {s \in Source : resp[s] # None}

\* A response has for each source the inventory it got, or None.
Accepted(k, g, resp) ==
  {s \in Source : /\ resp[s] # None
                  /\ IF k.source[s] = Absent THEN g > k.listed ELSE g > k.source[s]}

Items(resp, s) == DOMAIN resp[s].items

\* What the sources in S report as aliases of m.
ReportedTags(resp, S, m) == UNION {resp[s].items[m] : s \in {t \in S : m \in Items(resp, t)}}

\* The sources that a listing of all sources does not know of any more.
Delisted(k, g, resp, all) ==
  IF ~all \/ g <= k.listed THEN {}
  ELSE {s \in Source : /\ resp[s] = None
                       /\ k.source[s] \in 0..g
                       /\ \A m \in Mapping : k.seen[s][m] <= g}

Sighting(k, g, resp, s, m) ==
  IF m \in Items(resp, s) THEN (IF g > k.seen[s][m] THEN g ELSE k.seen[s][m])
  ELSE IF resp[s].complete /\ k.seen[s][m] <= g THEN 0 ELSE k.seen[s][m]

\* The tables after a response of generation g, before the groups are made again.
Stored(k, g, resp, all) ==
  LET fresh   == Accepted(k, g, resp)
      retag   == {m \in UNION {Items(resp, s) : s \in fresh} : k.tagged[m] < g}
      removed == Delisted(k, g, resp, all)
  IN  [k EXCEPT
         !.source = [s \in Source |->
            IF s \in removed THEN Absent
            ELSE IF s \notin fresh THEN k.source[s]
            ELSE IF resp[s].complete THEN g
            ELSE IF k.source[s] = Absent THEN 0 ELSE k.source[s]],
         !.seen = [s \in Source |-> [m \in Mapping |->
            IF s \in removed THEN 0
            ELSE IF s \in fresh THEN Sighting(k, g, resp, s, m) ELSE k.seen[s][m]]],
         !.listed = IF all /\ g > @ THEN g ELSE @,
         !.tagged = [m \in Mapping |-> IF m \in retag THEN g ELSE k.tagged[m]],
         !.tags = [m \in Mapping |->
            IF m \in retag THEN ReportedTags(resp, fresh, m) ELSE k.tags[m]]]

---------------------------------------------------------------------------
(* rebuild_media_groups: the active members in their groups *)

AllTags(k, C) == UNION {k.tags[m] : m \in C}

\* The groups that a component C of the active members was in, or that its aliases
\* were last seen in.
Candidates(k, C) == ({k.group[m] : m \in C} \cup {k.claims[a] : a \in AllTags(k, C)}) \ {0}

SameHost(C) == \E m, n \in C : m # n /\ HostOf[m] = HostOf[n]
ManyHosts(C) == \E m, n \in C : HostOf[m] # HostOf[n]

\* The groups that more than one component comes from.  None of them keeps it.
Split(k, parts) ==
  {g \in DOMAIN k.ids : \E C, D \in parts :
     C # D /\ g \in Candidates(k, C) \cap Candidates(k, D)}

\* The components that need a new group; they are made in the order of the smallest
\* mapping id.
Homeless(k, parts, split) == {C \in parts : Candidates(k, C) \subseteq split}

HomeOf(k, parts, split, C) ==
  IF C \in Homeless(k, parts, split)
  THEN Len(k.ids) + Cardinality({D \in Homeless(k, parts, split) : OldestOf(D) <= OldestOf(C)})
  ELSE OldestOf(Candidates(k, C) \ split)

\* The components with the groups they get, and the groups merged into these.
Moves(k, parts, split) ==
  {[part |-> C, home |-> HomeOf(k, parts, split, C),
    lost |-> Candidates(k, C) \ (split \cup {HomeOf(k, parts, split, C)})] : C \in parts}

MovedGroup(moves, g) ==
  IF \E v \in moves : g \in v.lost THEN (CHOOSE v \in moves : g \in v.lost).home ELSE g

GroupAfter(k, moves, m) ==
  IF \E v \in moves : m \in v.part THEN (CHOOSE v \in moves : m \in v.part).home
  ELSE IF m \in Untagged(k) THEN 0 ELSE MovedGroup(moves, k.group[m])

\* Fault, for SharedTagsShareGroup: aliases seen earlier stay with their group.
ClaimAfterKept(k, moves, a) ==
  IF k.claims[a] # 0 THEN MovedGroup(moves, k.claims[a])
  ELSE IF \E v \in moves : a \in AllTags(k, v.part)
  THEN (CHOOSE v \in moves : a \in AllTags(k, v.part)).home ELSE 0

ClaimAfter(k, moves, a) ==
  IF \E v \in moves : a \in AllTags(k, v.part)
  THEN (CHOOSE v \in moves : a \in AllTags(k, v.part)).home
  ELSE IF \E v \in moves : k.claims[a] \in Candidates(k, v.part) THEN 0 ELSE k.claims[a]

KeptRoutes(k, moves) ==
  {r \in k.routes :
     /\ r.member \notin Untagged(k)
     /\ \A v \in moves : /\ r.member \in v.part => k.group[r.member] = v.home
                         /\ r.group \notin v.lost}

\* Fault, for IdsKeepMeaning: the ids of a merged group go with it.
IdsAfterLost(k, moves, new) ==
  [v \in 1..(Len(k.ids) + new) |->
     IF v \notin DOMAIN k.ids THEN v
     ELSE IF MovedGroup(moves, k.ids[v]) # k.ids[v] THEN 0 ELSE k.ids[v]]

IdsAfter(k, moves, new) ==
  [v \in 1..(Len(k.ids) + new) |->
     IF v \in DOMAIN k.ids THEN MovedGroup(moves, k.ids[v]) ELSE v]

\* Fault, for OneVersionPerServer: a group that was not ambiguous stays so.
AmbiguousAfterOnce(k, moves, split) ==
  ((k.ambiguous \ {v.home : v \in moves}) \cup split) \ UNION {v.lost : v \in moves}

AmbiguousAfter(k, moves, split) ==
  (((k.ambiguous \cup split) \ {v.home : v \in moves})
     \cup {v.home : v \in {w \in moves : SameHost(w.part)}}) \ UNION {v.lost : v \in moves}

PublishedAfter(k, moves) ==
  (k.published \cup {v.home : v \in {w \in moves : ~SameHost(w.part) /\ ManyHosts(w.part)}})
    \ UNION {v.lost : v \in moves}

Rebuilt(k) ==
  LET parts == Components(k.tags, Active(k))
      split == Split(k, parts)
      moves == Moves(k, parts, split)
  IN  [k EXCEPT
         !.group = [m \in Mapping |-> GroupAfter(k, moves, m)],
         !.ids = IdsAfter(k, moves, Cardinality(Homeless(k, parts, split))),
         !.ambiguous = AmbiguousAfter(k, moves, split),
         !.published = PublishedAfter(k, moves),
         !.claims = [a \in Alias |-> ClaimAfter(k, moves, a)],
         !.routes = KeptRoutes(k, moves)]

---------------------------------------------------------------------------
(* MediaDedupPlan: how a response is listed once the catalog has its groups.  The
   aliases of an item are those of the response, its group is that of the catalog.  *)

\* An item as one source lists it.
Occurrences(resp) ==
  UNION {{s} \X Items(resp, s) : s \in {t \in Source : resp[t] # None}}

Repeats(C) == \E o, p \in C : o # p /\ HostOf[o[2]] = HostOf[p[2]]

\* A part of the response that the catalog has in one public group.
IsStable(k, C) ==
  \E g \in Shown(k) : \A o \in C : o[2] \in Active(k) /\ k.group[o[2]] = g

\* Fault, for ShownOnce: only what the response connects is shown as one.
BridgedApart(k, parts) == {C \in parts : IsStable(k, C)}

\* The items to show as one, when parts are those that the response connects: of each
\* public group the parts together, since the alias that connects them may be missing
\* in the response.
Bridged(k, parts) ==
  LET stable == UNION {C \in parts : IsStable(k, C)}
  IN  {{p \in stable : k.group[p[2]] = k.group[o[2]]} : o \in stable}

\* The entries of the answer: what is shown as one under a group's id, and the other
\* items, with the server's name, under their own.
Collapsed(k, resp) ==
  LET tags   == [o \in Occurrences(resp) |-> resp[o[1]].items[o[2]]]
      parts  == Components(tags, {o \in Occurrences(resp) : tags[o] # {}})
      merged == {C \in Bridged(k, parts) : ~Repeats(C)}
  IN  {[group |-> k.group[(CHOOSE o \in C : TRUE)[2]], items |-> C] : C \in merged}
        \cup {[group |-> 0, items |-> {o}] : o \in Occurrences(resp) \ UNION merged}

---------------------------------------------------------------------------
(* Requests.  One that fails is never answered. *)

\* begin_media_reconciliation for a listing.
BeginListing(c) ==
  /\ clock < MaxClock
  /\ clock' = clock + 1
  /\ requests' = requests \cup {[kind |-> "list", gen |-> clock + 1, scope |-> c]}
  /\ UNCHANGED <<servers, catalog>>

\* What the sources of a listing answer.  An inventory that was not fetched in full, or
\* that belongs to a listing with filters or to an aggregate show, is not complete.
Responses ==
  {resp \in [Source -> {None} \cup UNION {[complete : BOOLEAN, items : Answers[s]] : s \in Source}] :
     /\ \E s \in Source : resp[s] # None
     /\ \A s \in Source : resp[s] # None => resp[s].items \in Answers[s]}

\* A listing is answered.  "all" says that it was one without filters, and that no server
\* failed or was skipped.  A source whose server was deleted fails the transaction.
AnswerListing(r, resp, all) ==
  LET k == catalog[r.scope]
  IN  /\ r.kind = "list"
      /\ \A s \in Accepted(k, r.gen, resp) : HostOf[s] \in servers
      /\ catalog' = [catalog EXCEPT ![r.scope] = Rebuilt(Stored(k, r.gen, resp, all))]
      /\ requests' = requests \ {r}
      /\ UNCHANGED <<servers, clock>>

\* get_media_version_detail_route: the groups that an item which is a media source or a
\* member may be taken for.  All its routes have to agree on the member and on who is
\* with it.
RoutesOf(m) ==
  {o \in Scope \X UNION {catalog[c].routes : c \in Scope} :
     LET k == catalog[o[1]]
     IN  /\ o[2] \in k.routes
         /\ m \in {o[2].source, o[2].member}
         /\ o[2].group \in Shown(k)
         /\ o[2].member \in Members(k, o[2].group)}

AgreedRoutes(m) ==
  {o \in RoutesOf(m) : \A p \in RoutesOf(m) :
     /\ o[2].member = p[2].member
     /\ Members(catalog[o[1]], o[2].group) = Members(catalog[p[1]], p[2].group)}

SelectedGroups(c) ==
  {o[2].group : o \in {p \in UNION {AgreedRoutes(m) : m \in Mapping} : p[1] = c}}

\* A details or playback request for an item, or for the public id of a group.
BeginDetails(c, g) ==
  /\ clock < MaxClock
  /\ clock' = clock + 1
  /\ requests' = requests \cup
       {[kind |-> "details", gen |-> clock + 1, scope |-> c, group |-> g]}
  /\ UNCHANGED <<servers, catalog>>

\* merge_media_detail, record_playback_sources: the members that the session can ask, and
\* the item itself, which need not be a member.
AskMembers(r, g, members) ==
  /\ r.kind = "details"
  /\ r.group \in {0, g}
  /\ members # {} /\ Cardinality(members \ Members(catalog[r.scope], g)) <= 1
  /\ \A m \in members : HostOf[m] \in servers
  /\ requests' = (requests \ {r}) \cup
       {[kind |-> "asking", gen |-> r.gen, scope |-> r.scope, group |-> g, members |-> members]}
  /\ UNCHANGED <<servers, clock, catalog>>

\* Fault, for ReferencesHold: members that have left the group are not refused.
StillRecordableAlways(k, r) == \A m \in r.members : k.routed[m] < r.gen

\* replace_media_version_sources refuses what was asked before something else was
\* recorded, and members that have left the group.
StillRecordable(k, r) ==
  \A m \in r.members : /\ k.group[m] = r.group
                       /\ r.group \notin k.ambiguous
                       /\ m \in Sighted(k)
                       /\ k.routed[m] < r.gen

\* The routes after members of g reported the sources in observed.
Rerouted(routes, g, members, observed) ==
  {o \in routes : o.group # g \/ ( /\ o.member \notin members
                                   /\ \A p \in observed : p.source # o.source )}
    \cup observed

\* The tables after the members answered; files[m] are the media sources member m reports.
Recorded(k, r, files) ==
  LET observed == {[group |-> r.group, source |-> o[2], member |-> o[1]] :
                     o \in {p \in r.members \X Mapping : p[2] \in files[p[1]]}}
  IN  [k EXCEPT
         !.routed = [m \in Mapping |-> IF m \in r.members THEN r.gen ELSE k.routed[m]],
         !.routes = Rerouted(@, r.group, r.members, observed)]

AnswerDetails(r, files) ==
  /\ r.kind = "asking"
  /\ catalog' = [catalog EXCEPT ![r.scope] =
       IF StillRecordable(@, r) THEN Recorded(@, r, files) ELSE @]
  /\ requests' = requests \ {r}
  /\ UNCHANGED <<servers, clock>>

---------------------------------------------------------------------------
(* Servers *)

\* What is left when the mappings of server v are gone: ON DELETE CASCADE.
WithoutServer(k, v) ==
  [k EXCEPT
     !.source = [s \in Source |-> IF HostOf[s] = v THEN Absent ELSE k.source[s]],
     !.seen = [s \in Source |-> [m \in Mapping |->
                 IF v \in {HostOf[s], HostOf[m]} THEN 0 ELSE k.seen[s][m]]],
     !.tagged = [m \in Mapping |-> IF HostOf[m] = v THEN 0 ELSE k.tagged[m]],
     !.tags = [m \in Mapping |-> IF HostOf[m] = v THEN {} ELSE k.tags[m]],
     !.routed = [m \in Mapping |-> IF HostOf[m] = v THEN 0 ELSE k.routed[m]],
     !.group = [m \in Mapping |-> IF HostOf[m] = v THEN 0 ELSE k.group[m]],
     !.routes = {r \in @ : v \notin {HostOf[r.member], HostOf[r.source]}}]

DeleteServer(v) ==
  /\ v \in servers
  /\ servers' = servers \ {v}
  /\ catalog' = [c \in Scope |-> WithoutServer(catalog[c], v)]
  /\ UNCHANGED <<clock, requests>>

---------------------------------------------------------------------------
Next ==
  \/ \E c \in Scope : BeginListing(c)
  \/ \E c \in Scope : \E g \in {0} \cup SelectedGroups(c) : BeginDetails(c, g)
  \/ \E r \in requests :
       \/ \E resp \in Responses, all \in BOOLEAN : AnswerListing(r, resp, all)
       \/ \E g \in Live(catalog[r.scope]), members \in SUBSET Mapping : AskMembers(r, g, members)
       \/ r.kind = "asking" /\ \E files \in [r.members -> UNION {Files[m] : m \in Mapping}] :
            /\ \A m \in r.members : files[m] \in Files[m]
            /\ AnswerDetails(r, files)
  \/ \E v \in Server : DeleteServer(v)

Spec == Init /\ [][Next]_vars

---------------------------------------------------------------------------
(* Properties *)

Catalog ==
  [source : [Source -> {Absent} \cup 0..MaxClock], listed : 0..MaxClock,
   seen : [Source -> [Mapping -> 0..MaxClock]], tagged : [Mapping -> 0..MaxClock],
   tags : [Mapping -> SUBSET Alias], routed : [Mapping -> 0..MaxClock],
   group : [Mapping -> Nat], ids : Seq(Nat \ {0}), ambiguous : SUBSET (Nat \ {0}),
   published : SUBSET (Nat \ {0}), claims : [Alias -> Nat],
   routes : SUBSET [group : Nat \ {0}, source : Mapping, member : Mapping]]

TypeOK ==
  /\ servers \subseteq Server
  /\ clock \in 0..MaxClock
  /\ requests \subseteq Listing \cup Details \cup Asking
  /\ catalog \in [Scope -> Catalog]

\* A complete inventory is a fence: no older response of its source gets behind it, and
\* what is sighted was reported by it or by a newer one (reconcile_media_catalog).
FencesHold ==
  \A c \in Scope, s \in Source, m \in Mapping :
    LET k == catalog[c]
    IN  k.seen[s][m] # 0 => /\ k.source[s] # Absent
                            /\ k.source[s] <= k.seen[s][m]
                            /\ k.seen[s][m] <= k.tagged[m]

\* Items that share an alias are in one group, and the group is the one that the alias
\* leads to when an item comes back: the groups are the components whatever merged or
\* split before (rebuild_media_groups).
SharedTagsShareGroup ==
  \A c \in Scope : \A m \in Active(catalog[c]) : \A a \in catalog[c].tags[m] :
    catalog[c].group[m] = catalog[c].claims[a]

\* A group whose id is offered has one item of a server, so that its sources are told
\* apart by their server (rebuild_media_groups: ambiguous).
OneVersionPerServer ==
  \A c \in Scope : \A m, n \in Active(catalog[c]) :
    /\ m # n /\ HostOf[m] = HostOf[n]
    /\ catalog[c].group[m] = catalog[c].group[n]
    => catalog[c].group[m] \in catalog[c].ambiguous

\* What a row refers to exists: members and aliases lead to groups that live, and a
\* route to a member of its group on the server of its source.  Otherwise the foreign
\* keys would fail every listing of the library from then on.
ReferencesHold ==
  \A c \in Scope :
    LET k == catalog[c]
    IN  /\ \A m \in Mapping : k.group[m] \in Live(k) \cup {0}
        /\ \A a \in Alias : k.claims[a] \in Live(k) \cup {0}
        /\ \A r \in k.routes : /\ k.group[r.member] = r.group
                               /\ HostOf[r.member] = HostOf[r.source]

\* Public ids keep their promise: bookmarks, favourites and play queues outlive merges
\* and splits of groups, and deletions of servers (rebuild_media_groups).
Public == INSTANCE PublicIds WITH leads <- [c \in Scope |-> catalog[c].ids]
IdsKeepMeaning == Public!Spec

\* Whatever the servers answer, an id is shown once, stands for items of different
\* servers, and leads to these items when it is opened (MediaDedupPlan::collapse).
ShownOnce ==
  \A c \in Scope, resp \in {r \in Responses : \A s \in Source : r[s] = None \/ ~r[s].complete} :
    LET entries == {e \in Collapsed(catalog[c], resp) : e.group # 0}
    IN  \A e \in entries : /\ \A f \in entries : f.group = e.group => f = e
                           /\ ~Repeats(e.items)
                           /\ \A o \in e.items : o[2] \in Members(catalog[c], e.group)
=============================================================================
