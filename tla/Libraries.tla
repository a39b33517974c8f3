----------------------------- MODULE Libraries -----------------------------
(***************************************************************************)
(* Virtual libraries: the groups that administrators make of libraries     *)
(* (virtual_library_service.rs, ui/admin/libraries.rs) and the automatic   *)
(* ones, which put libraries of one type and name together for a viewer    *)
(* (handlers/federated/library_root.rs).                                   *)
(*                                                                         *)
(* A listing of the root asks the viewer's servers for their libraries and *)
(* then replaces what is stored for the servers that answered.  Listings   *)
(* overlap, some servers fail, assignments are edited and servers deleted  *)
(* meanwhile.  Generations, which are in memory and lost with a restart,   *)
(* decide which listing is the newer one.                                  *)
(*                                                                         *)
(* A key is a type and a name: the merge key of an automatic library, and  *)
(* what a server reports of a library.  Definitions introduced as a        *)
(* "fault" are not part of the model.                                      *)
(***************************************************************************)
EXTENDS Integers, FiniteSets

CONSTANTS
  Server,
  Library,    \* libraries of the servers, by their original ids
  HostOf,     \* the server of a library
  Key,
  KindOf,     \* the collection type of a key
  Group,      \* ids of the groups that administrators make
  Viewer,
  MaxGen,     \* bound: listings a viewer begins between two restarts
  MaxAssigns, \* bound: assignments under way
  None

Kind == {KindOf[k] : k \in Key}

ASSUME HostAssumption == HostOf \in [Library -> Server]
ASSUME BoundsAssumption == MaxGen \in Nat /\ MaxAssigns \in Nat
ASSUME NoneAssumption == None \notin Key \cup Kind \cup Group

VARIABLES
  servers,     \* the servers in the database
  known,       \* discovered_libraries: the type a library was last seen with
  groupKind,   \* library_groups: collection_type of the groups there are
  used,        \* the group ids given so far
  assigned,    \* library_group_members: the group of a library
  automatic,   \* merged_libraries
  members,     \* automatic_library_members
  generations, \* automatic_refresh_generations of a viewer
  refreshes,   \* listings of the root under way
  assigns,     \* assignments under way
  assignedAs,  \* history: the type with which a library was assigned
  newest       \* history: the newest listing stored for a viewer and a server

config == <<known, groupKind, used, assigned, assigns, assignedAs>>
vars == <<servers, config, automatic, members, generations, refreshes, newest>>

LibrariesOf(S) == {l \in Library : HostOf[l] \in S}

Row == [viewer : Viewer, key : Key, library : Library]
Asked == [step : {"asked"}, viewer : Viewer, gen : 1..MaxGen, scope : SUBSET Server]
Answered == [step : {"answered"}, viewer : Viewer, gen : 1..MaxGen, covered : SUBSET Server,
             found : SUBSET (Key \X Library)]
Nothing == [gen |-> 0, found |-> {}]

Init ==
  /\ servers = Server
  /\ known = [l \in Library |-> None]
  /\ groupKind = [g \in {} |-> None]
  /\ used = {}
  /\ assigned = [l \in Library |-> None]
  /\ automatic = {}
  /\ members = {}
  /\ generations = [u \in Viewer |-> [started |-> 0, committed |-> 0]]
  /\ refreshes = {}
  /\ assigns = {}
  /\ assignedAs = [l \in Library |-> None]
  /\ newest = [u \in Viewer |-> [s \in Server |-> Nothing]]

---------------------------------------------------------------------------
(* What a virtual library opens to, for a viewer with sessions on the servers S *)

\* resolve_group
GroupOpens(g, S) == {l \in LibrariesOf(S) : assigned[l] = g}

\* get_automatic_library_members: whatever was assigned meanwhile is left out.
AutomaticOpens(u, k, S) ==
  {l \in LibrariesOf(S) : /\ [viewer |-> u, key |-> k, library |-> l] \in members
                          /\ assigned[l] = None}

---------------------------------------------------------------------------
(* Listings of the root.  One that fails is never answered or stored. *)

\* begin_automatic_library_refresh, for the servers the viewer has sessions with.
BeginRefresh(u, S) ==
  LET gen == generations[u].started + 1
  IN  /\ gen <= MaxGen
      /\ S # {} /\ S \subseteq servers
      /\ generations' = [generations EXCEPT ![u].started = gen]
      /\ refreshes' = refreshes \cup
           {[step |-> "asked", viewer |-> u, gen |-> gen, scope |-> S]}
      /\ UNCHANGED <<servers, config, automatic, members, newest>>

\* partition_library_root_inventory: libraries that are in no group, or in one of
\* another type than they have now.  They are presented by key.
Unassigned(listed) ==
  {l \in DOMAIN listed : assigned[l] = None \/ groupKind[assigned[l]] # KindOf[listed[l]]}

Sources(listed, k) == {l \in Unassigned(listed) : listed[l] = k}

\* present_automatic_library_group: two or more libraries make one, and a single one
\* stays in the one that was there if a server failed.
Presented(r, listed, complete) ==
  {k \in Key : \/ Cardinality(Sources(listed, k)) > 1
               \/ /\ Cardinality(Sources(listed, k)) = 1
                  /\ ~complete
                  /\ k \in automatic
                  /\ AutomaticOpens(r.viewer, k, r.scope) # {}}

\* The servers in covered answer a listing with the libraries in listed, and the rest
\* fail.  Libraries seen in an answer are remembered (track_discovered_libraries), unless
\* their server was deleted.
AnswerRefresh(r, covered, listed) ==
  LET keys == Presented(r, listed, covered = r.scope)
  IN  /\ r.step = "asked"
      /\ covered # {} /\ covered \subseteq r.scope
      /\ DOMAIN listed \subseteq LibrariesOf(covered)
      /\ known' = [l \in Library |-> IF l \in DOMAIN listed /\ HostOf[l] \in servers
                                    THEN KindOf[listed[l]] ELSE known[l]]
      /\ automatic' = automatic \cup keys
      /\ refreshes' = (refreshes \ {r}) \cup
           {[step |-> "answered", viewer |-> r.viewer, gen |-> r.gen, covered |-> covered,
             found |-> {o \in keys \X Library : o[2] \in Sources(listed, o[1])}]}
      /\ UNCHANGED <<servers, groupKind, used, assigned, assigns, assignedAs, members,
                     generations, newest>>

\* Fault, for NewestStands: listings are stored in the order in which they end.
SupersededNever(r) == FALSE

\* A listing that began later was stored before.
Superseded(r) == r.gen < generations[r.viewer].committed

\* Fault, for OpensOnce: only what was found again is replaced.
OutdatedFound(r) ==
  {m \in members : m.viewer = r.viewer /\ <<m.key, m.library>> \in r.found}

Outdated(r) == {m \in members : m.viewer = r.viewer /\ HostOf[m.library] \in r.covered}

\* reconcile_automatic_library_members.  A member whose server was deleted fails the
\* transaction.
CommitRefresh(r) ==
  /\ r.step = "answered"
  /\ refreshes' = refreshes \ {r}
  /\ IF Superseded(r) THEN UNCHANGED <<members, generations, newest>>
     ELSE /\ \A o \in r.found : HostOf[o[2]] \in servers
          /\ members' = (members \ Outdated(r)) \cup
               {[viewer |-> r.viewer, key |-> o[1], library |-> o[2]] : o \in r.found}
          /\ generations' = [generations EXCEPT ![r.viewer].committed = r.gen]
          /\ newest' = [newest EXCEPT ![r.viewer] = [s \in Server |->
               IF s \in r.covered /\ r.gen > @[s].gen
               THEN [gen |-> r.gen, found |-> {o \in r.found : HostOf[o[2]] = s}] ELSE @[s]]]
  /\ UNCHANGED <<servers, config, automatic>>

---------------------------------------------------------------------------
(* The administrators' pages *)

\* replace_discovered_libraries: what a server lists to its administrator.
Discover(s, listed) ==
  /\ s \in servers
  /\ known' = [l \in Library |-> IF HostOf[l] # s THEN known[l]
                                ELSE IF l \in DOMAIN listed THEN KindOf[listed[l]] ELSE None]
  /\ UNCHANGED <<servers, groupKind, used, assigned, assigns, assignedAs, automatic, members,
                 generations, refreshes, newest>>

\* create_group: a group gets its type from its first library.
CreateGroup(g) ==
  /\ g \notin used
  /\ used' = used \cup {g}
  /\ groupKind' = [h \in DOMAIN groupKind \cup {g} |-> IF h = g THEN None ELSE groupKind[h]]
  /\ UNCHANGED <<servers, known, assigned, assigns, assignedAs, automatic, members, generations,
                 refreshes, newest>>

\* ON DELETE CASCADE
LeftOver(g) == [l \in Library |-> IF assigned[l] = g THEN None ELSE assigned[l]]

\* delete_group
DeleteGroup(g) ==
  /\ g \in DOMAIN groupKind
  /\ groupKind' = [h \in DOMAIN groupKind \ {g} |-> groupKind[h]]
  /\ assigned' = LeftOver(g)
  /\ assignedAs' = [l \in Library |-> IF assigned[l] = g THEN None ELSE assignedAs[l]]
  /\ UNCHANGED <<servers, known, used, assigns, automatic, members, generations, refreshes, newest>>

\* assign_library looks up the library first.
BeginAssign(g, l) ==
  /\ g \in used
  /\ known[l] # None
  /\ Cardinality(assigns) < MaxAssigns
  /\ assigns' = assigns \cup {[group |-> g, library |-> l, kind |-> known[l]]}
  /\ UNCHANGED <<servers, known, groupKind, used, assigned, assignedAs, automatic, members,
                 generations, refreshes, newest>>

\* Fault, for GroupKeepsKind: the type of a group is open again when a library leaves it.
OpenedIfEmptyAlways(kinds, g, after) == [kinds EXCEPT ![g] = None]

\* reset_empty_group_type
OpenedIfEmpty(kinds, g, after) ==
  IF \E l \in Library : after[l] = g THEN kinds ELSE [kinds EXCEPT ![g] = None]

\* add_member refuses what is not of the group's type.
Accepts(t) ==
  /\ t.group \in DOMAIN groupKind
  /\ groupKind[t.group] \in {None, t.kind}
  /\ HostOf[t.library] \in servers

FinishAssign(t) ==
  LET typed == [groupKind EXCEPT ![t.group] = t.kind]
      after == [assigned EXCEPT ![t.library] = t.group]
      left  == assigned[t.library]
  IN  /\ assigns' = assigns \ {t}
      /\ IF ~Accepts(t) THEN UNCHANGED <<groupKind, assigned, assignedAs>>
         ELSE /\ assigned' = after
              /\ assignedAs' = [assignedAs EXCEPT ![t.library] = t.kind]
              /\ groupKind' = IF left \in {None, t.group} THEN typed
                              ELSE OpenedIfEmpty(typed, left, after)
      /\ UNCHANGED <<servers, known, used, automatic, members, generations, refreshes, newest>>

\* remove_member
RemoveMember(l) ==
  LET after == [assigned EXCEPT ![l] = None]
  IN  /\ assigned[l] # None
      /\ assigned' = after
      /\ assignedAs' = [assignedAs EXCEPT ![l] = None]
      /\ groupKind' = OpenedIfEmpty(groupKind, assigned[l], after)
      /\ UNCHANGED <<servers, known, used, assigns, automatic, members, generations, refreshes,
                     newest>>

\* delete_server, with its ON DELETE CASCADE.
DeleteServer(s) ==
  LET mine == LibrariesOf({s})
  IN  /\ s \in servers
      /\ servers' = servers \ {s}
      /\ known' = [l \in Library |-> IF l \in mine THEN None ELSE known[l]]
      /\ assigned' = [l \in Library |-> IF l \in mine THEN None ELSE assigned[l]]
      /\ assignedAs' = [l \in Library |-> IF l \in mine THEN None ELSE assignedAs[l]]
      /\ members' = {m \in members : m.library \notin mine}
      /\ newest' = [u \in Viewer |-> [newest[u] EXCEPT ![s].found = {}]]
      /\ UNCHANGED <<groupKind, used, assigns, automatic, generations, refreshes>>

\* What was under way is gone, and generations are counted anew.
Restart ==
  /\ refreshes' = {}
  /\ assigns' = {}
  /\ generations' = [u \in Viewer |-> [started |-> 0, committed |-> 0]]
  /\ newest' = [u \in Viewer |-> [s \in Server |-> [newest[u][s] EXCEPT !.gen = 0]]]
  /\ UNCHANGED <<servers, known, groupKind, used, assigned, assignedAs, automatic, members>>

---------------------------------------------------------------------------
\* What servers may list: any of their libraries, each with a type and name.
Listings(S) == UNION {[L -> Key] : L \in SUBSET LibrariesOf(S)}

Next ==
  \/ \E u \in Viewer, S \in SUBSET Server : BeginRefresh(u, S)
  \/ \E r \in refreshes :
       \/ \E covered \in SUBSET Server : \E listed \in Listings(covered) :
            AnswerRefresh(r, covered, listed)
       \/ CommitRefresh(r)
  \/ \E s \in Server : (\E listed \in Listings({s}) : Discover(s, listed)) \/ DeleteServer(s)
  \/ \E g \in Group : CreateGroup(g) \/ DeleteGroup(g) \/ \E l \in Library : BeginAssign(g, l)
  \/ \E t \in assigns : FinishAssign(t)
  \/ \E l \in Library : RemoveMember(l)
  \/ Restart

Spec == Init /\ [][Next]_vars

---------------------------------------------------------------------------
(* Properties *)

TypeOK ==
  /\ servers \subseteq Server
  /\ known \in [Library -> Kind \cup {None}]
  /\ used \subseteq Group
  /\ DOMAIN groupKind \subseteq used
  /\ groupKind \in [DOMAIN groupKind -> Kind \cup {None}]
  /\ assigned \in [Library -> DOMAIN groupKind \cup {None}]
  /\ automatic \subseteq Key
  /\ members \subseteq Row
  /\ generations \in [Viewer -> [started : 0..MaxGen, committed : 0..MaxGen]]
  /\ refreshes \subseteq Asked \cup Answered
  /\ assigns \subseteq [group : Group, library : Library, kind : Kind]
  /\ assignedAs \in [Library -> Kind \cup {None}]
  /\ newest \in [Viewer -> [Server -> [gen : 0..MaxGen, found : SUBSET (Key \X Library)]]]

\* A group holds libraries of one type, though a library's type is looked up before it
\* is assigned, may have changed since, and others assign, move and remove libraries
\* meanwhile (add_member, reset_empty_group_type).
GroupKeepsKind ==
  \A l \in Library : assigned[l] # None => groupKind[assigned[l]] = assignedAs[l]

\* What is stored for a viewer and a server is what the newest stored listing found
\* there, in whatever order listings end and whichever servers they reach
\* (reconcile_automatic_library_members).
NewestStands ==
  \A u \in Viewer, s \in Server :
    {<<m.key, m.library>> : m \in {n \in members : n.viewer = u /\ HostOf[n.library] = s}}
      = newest[u][s].found

\* No library opens from two virtual libraries, configured or automatic
\* (get_automatic_library_members, reconcile_automatic_library_members).
OpensOnce ==
  \A u \in Viewer :
    LET opens(v) == IF v \in Group THEN GroupOpens(v, Server) ELSE AutomaticOpens(u, v, Server)
    IN  \A v, w \in Group \cup Key : v # w => opens(v) \cap opens(w) = {}
=============================================================================
