--------------------------- MODULE LibrariesProofs ---------------------------
(***************************************************************************)
(* The properties of Libraries for any servers, libraries, groups, viewers *)
(* and numbers of listings.                                                *)
(***************************************************************************)
EXTENDS Libraries, TLAPS

(* What an answered listing carries *)

Found(r, listed, complete) ==
  {o \in Presented(r, listed, complete) \X Library : o[2] \in Sources(listed, o[1])}

\* Every library in what was found is one that was listed, under its own key.
LEMMA FoundListed ==
  ASSUME NEW r, NEW listed, NEW complete, NEW o \in Found(r, listed, complete)
  PROVE  /\ o \in Key \X Library
         /\ o[2] \in DOMAIN listed
         /\ o[1] = listed[o[2]]
  BY DEF Found, Presented, Sources, Unassigned

---------------------------------------------------------------------------
(* Types *)

LEMMA InitTypeOK == Init => TypeOK
<1>1. SUFFICES ASSUME Init PROVE TypeOK
  OBVIOUS
<1>2. newest \in [Viewer -> [Server -> [gen : 0..MaxGen, found : SUBSET (Key \X Library)]]]
  BY <1>1, BoundsAssumption DEF Init, Nothing
<1>3. DOMAIN groupKind \subseteq used /\ groupKind \in [DOMAIN groupKind -> Kind \cup {None}]
  BY <1>1 DEF Init
<1>4. generations \in [Viewer -> [started : 0..MaxGen, committed : 0..MaxGen]]
  BY <1>1, BoundsAssumption DEF Init
<1> QED
  BY <1>1, <1>2, <1>3, <1>4 DEF Init, TypeOK

\* A group's type that is opened again, or not.
LEMMA OpenedType ==
  ASSUME NEW D, NEW kinds \in [D -> Kind \cup {None}], NEW g, NEW after
  PROVE  OpenedIfEmpty(kinds, g, after) \in [D -> Kind \cup {None}]
  BY DEF OpenedIfEmpty

\* What is kept of the newest listing of a server.
LEMMA NewestType ==
  ASSUME NEW x \in [gen : 0..MaxGen, found : SUBSET (Key \X Library)]
  PROVE  /\ [x EXCEPT !.gen = 0] \in [gen : 0..MaxGen, found : SUBSET (Key \X Library)]
         /\ [x EXCEPT !.found = {}] \in [gen : 0..MaxGen, found : SUBSET (Key \X Library)]
  BY BoundsAssumption

LEMMA NextTypeOK == TypeOK /\ [Next]_vars => TypeOK'
<1> SUFFICES ASSUME TypeOK, [Next]_vars PROVE TypeOK'
  OBVIOUS
<1> USE DEF TypeOK
<1>k. \A k \in Key : KindOf[k] \in Kind
  BY DEF Kind
<1>1. ASSUME NEW u \in Viewer, NEW S \in SUBSET Server, BeginRefresh(u, S) PROVE TypeOK'
  <2>1. PICK n : n = [step |-> "asked", viewer |-> u, gen |-> generations[u].started + 1, scope |-> S]
    OBVIOUS
  <2>2. generations[u].started + 1 \in 1..MaxGen
    BY <1>1, BoundsAssumption DEF BeginRefresh
  <2>3. n \in Asked
    BY <2>1, <2>2 DEF Asked
  <2>4. generations' = [generations EXCEPT ![u].started = generations[u].started + 1]
    BY <1>1 DEF BeginRefresh
  <2>5. generations' \in [Viewer -> [started : 0..MaxGen, committed : 0..MaxGen]]
    BY SMTT(30), <2>2, <2>4
  <2>6. refreshes' = refreshes \cup {n}
    BY <1>1, <2>1 DEF BeginRefresh
  <2> QED BY <1>1, <2>3, <2>5, <2>6 DEF BeginRefresh, config
<1>2. ASSUME NEW r \in refreshes, NEW covered \in SUBSET Server, NEW listed \in Listings(covered),
             AnswerRefresh(r, covered, listed)
      PROVE  TypeOK'
  <2>0. r \in Asked
    BY <1>2 DEF AnswerRefresh, Asked, Answered
  <2>1. PICK f : f = Found(r, listed, covered = r.scope)
    OBVIOUS
  <2>2. f \in SUBSET (Key \X Library)
    BY <2>1, FoundListed
  <2>3. PICK n : n = [step |-> "answered", viewer |-> r.viewer, gen |-> r.gen,
                      covered |-> covered, found |-> f]
    OBVIOUS
  <2>4. n \in Answered
    BY <2>0, <2>2, <2>3 DEF Asked, Answered
  <2>5. refreshes' = (refreshes \ {r}) \cup {n}
    BY <1>2, <2>1, <2>3 DEF AnswerRefresh, Found
  <2>6. automatic' \subseteq Key
    BY <1>2 DEF AnswerRefresh, Presented
  <2>7. listed \in [DOMAIN listed -> Key]
    BY <1>2 DEF Listings
  <2>8. known' \in [Library -> Kind \cup {None}]
    BY <1>2, <1>k, <2>7 DEF AnswerRefresh
  <2> QED BY <1>2, <2>4, <2>5, <2>6, <2>8 DEF AnswerRefresh
<1>3. ASSUME NEW r \in refreshes, CommitRefresh(r) PROVE TypeOK'
  <2>0. r \in Answered
    BY <1>3 DEF CommitRefresh, Asked, Answered
  <2>1. refreshes' \subseteq Asked \cup Answered
    BY <1>3 DEF CommitRefresh
  <2>2. CASE Superseded(r)
    BY <1>3, <2>1, <2>2 DEF CommitRefresh, config
  <2>3. CASE ~Superseded(r)
    <3>1. \A o \in r.found : o \in Key \X Library
      BY <2>0 DEF Answered
    <3>2. \A o \in r.found : [viewer |-> r.viewer, key |-> o[1], library |-> o[2]] \in Row
      BY <2>0, <3>1 DEF Row, Answered
    <3>3. members' \subseteq Row
      BY <1>3, <2>3, <3>2 DEF CommitRefresh
    <3>4. generations' \in [Viewer -> [started : 0..MaxGen, committed : 0..MaxGen]]
      <4>1. generations' = [generations EXCEPT ![r.viewer].committed = r.gen]
        BY <1>3, <2>3 DEF CommitRefresh
      <4>2. r.gen \in 0..MaxGen /\ r.viewer \in Viewer
        BY <2>0, BoundsAssumption DEF Answered
      <4> QED BY <4>1, <4>2
    <3>5. newest' \in [Viewer -> [Server -> [gen : 0..MaxGen, found : SUBSET (Key \X Library)]]]
      <4>1. \A s \in Server : [gen |-> r.gen, found |-> {o \in r.found : HostOf[o[2]] = s}]
                                \in [gen : 0..MaxGen, found : SUBSET (Key \X Library)]
        BY <2>0, <3>1, BoundsAssumption DEF Answered
      <4>2. PICK w : w = [s \in Server |->
                           IF s \in r.covered /\ r.gen > newest[r.viewer][s].gen
                           THEN [gen |-> r.gen, found |-> {o \in r.found : HostOf[o[2]] = s}]
                           ELSE newest[r.viewer][s]]
        OBVIOUS
      <4>3. r.viewer \in Viewer
        BY <2>0 DEF Answered
      <4>4. w \in [Server -> [gen : 0..MaxGen, found : SUBSET (Key \X Library)]]
        BY <4>1, <4>2, <4>3
      <4>5. newest' = [newest EXCEPT ![r.viewer] = w]
        BY <1>3, <2>3, <4>2, <4>3 DEF CommitRefresh
      <4> QED BY <4>4, <4>5
    <3> QED BY <1>3, <2>1, <3>3, <3>4, <3>5 DEF CommitRefresh, config
  <2> QED BY <2>2, <2>3
<1>4. ASSUME NEW s \in Server, NEW listed \in Listings({s}), Discover(s, listed) PROVE TypeOK'
  <2>1. listed \in [DOMAIN listed -> Key]
    BY DEF Listings
  <2>2. known' \in [Library -> Kind \cup {None}]
    BY <1>4, <1>k, <2>1 DEF Discover
  <2> QED BY <1>4, <2>2 DEF Discover
<1>5. ASSUME NEW s \in Server, DeleteServer(s) PROVE TypeOK'
  <2>1. \A u \in Viewer : [newest[u] EXCEPT ![s].found = {}]
          \in [Server -> [gen : 0..MaxGen, found : SUBSET (Key \X Library)]]
    <3>1. TAKE u \in Viewer
    <3>2. PICK w : w = newest[u]
      OBVIOUS
    <3>3. w \in [Server -> [gen : 0..MaxGen, found : SUBSET (Key \X Library)]]
      BY <3>2
    <3>4. PICK x : x = [w[s] EXCEPT !.found = {}]
      OBVIOUS
    <3>5. x \in [gen : 0..MaxGen, found : SUBSET (Key \X Library)]
      BY <3>3, <3>4, NewestType
    <3>6. [w EXCEPT ![s] = x] \in [Server -> [gen : 0..MaxGen, found : SUBSET (Key \X Library)]]
      BY <3>3, <3>5
    <3> QED BY <3>2, <3>4, <3>6
  <2>2. newest' = [u \in Viewer |-> [newest[u] EXCEPT ![s].found = {}]]
    BY <1>5 DEF DeleteServer
  <2>3. newest' \in [Viewer -> [Server -> [gen : 0..MaxGen, found : SUBSET (Key \X Library)]]]
    BY <2>1, <2>2
  <2> QED BY <1>5, <2>3 DEF DeleteServer
<1>6. ASSUME NEW g \in Group, CreateGroup(g) PROVE TypeOK'
  <2>1. DOMAIN groupKind' = DOMAIN groupKind \cup {g}
    BY <1>6 DEF CreateGroup
  <2>2. groupKind' \in [DOMAIN groupKind' -> Kind \cup {None}]
    BY <1>6 DEF CreateGroup
  <2>3. DOMAIN groupKind' \subseteq used' /\ groupKind' \in [DOMAIN groupKind' -> Kind \cup {None}]
    BY <1>6, <2>1, <2>2 DEF CreateGroup
  <2> QED BY <1>6, <2>1, <2>3 DEF CreateGroup
<1>7. ASSUME NEW g \in Group, DeleteGroup(g) PROVE TypeOK'
  <2>1. DOMAIN groupKind' = DOMAIN groupKind \ {g}
    BY <1>7 DEF DeleteGroup
  <2>2. groupKind' \in [DOMAIN groupKind' -> Kind \cup {None}]
    BY <1>7 DEF DeleteGroup
  <2>3. DOMAIN groupKind' \subseteq used' /\ groupKind' \in [DOMAIN groupKind' -> Kind \cup {None}]
    BY <1>7, <2>1, <2>2 DEF DeleteGroup
  <2> QED BY <1>7, <2>1, <2>3 DEF DeleteGroup, LeftOver
<1>8. ASSUME NEW g \in Group, NEW l \in Library, BeginAssign(g, l) PROVE TypeOK'
  <2>1. [group |-> g, library |-> l, kind |-> known[l]]
          \in [group : Group, library : Library, kind : Kind]
    BY <1>8 DEF BeginAssign
  <2> QED BY <1>8, <2>1 DEF BeginAssign
<1>9. ASSUME NEW t \in assigns, FinishAssign(t) PROVE TypeOK'
  <2>1. CASE ~Accepts(t)
    BY <1>9, <2>1 DEF FinishAssign
  <2>2. CASE Accepts(t)
    <3>1. PICK typed : typed = [groupKind EXCEPT ![t.group] = t.kind]
      OBVIOUS
    <3>2. typed \in [DOMAIN groupKind -> Kind \cup {None}]
      BY <2>2, <3>1 DEF Accepts
    <3>3. groupKind' \in [DOMAIN groupKind -> Kind \cup {None}]
      BY <1>9, <2>2, <3>1, <3>2 DEF FinishAssign, OpenedIfEmpty
    <3>4. DOMAIN groupKind' \subseteq used' /\ groupKind' \in [DOMAIN groupKind' -> Kind \cup {None}]
      BY <1>9, <3>3 DEF FinishAssign
    <3>5. t.group \in DOMAIN groupKind'
      BY <2>2, <3>3 DEF Accepts
    <3>6. assigned' \in [Library -> DOMAIN groupKind' \cup {None}]
      BY <1>9, <2>2, <3>3, <3>5 DEF FinishAssign
    <3> QED BY <1>9, <2>2, <3>4, <3>6 DEF FinishAssign
  <2> QED BY <2>1, <2>2
<1>10. ASSUME NEW l \in Library, RemoveMember(l) PROVE TypeOK'
  <2>1. groupKind' \in [DOMAIN groupKind -> Kind \cup {None}]
    BY <1>10, OpenedType DEF RemoveMember
  <2>2. DOMAIN groupKind' \subseteq used' /\ groupKind' \in [DOMAIN groupKind' -> Kind \cup {None}]
    BY <1>10, <2>1 DEF RemoveMember
  <2> QED BY <1>10, <2>1, <2>2 DEF RemoveMember
<1>11. ASSUME Restart PROVE TypeOK'
  <2>1. newest' \in [Viewer -> [Server -> [gen : 0..MaxGen, found : SUBSET (Key \X Library)]]]
    <3>1. \A u \in Viewer, s \in Server :
            [newest[u][s] EXCEPT !.gen = 0] \in [gen : 0..MaxGen, found : SUBSET (Key \X Library)]
      <4>1. TAKE u \in Viewer, s \in Server
      <4>2. newest[u][s] \in [gen : 0..MaxGen, found : SUBSET (Key \X Library)]
        OBVIOUS
      <4> HIDE DEF TypeOK
      <4> QED BY <4>2, NewestType
    <3> QED BY <1>11, <3>1 DEF Restart
  <2>2. generations' \in [Viewer -> [started : 0..MaxGen, committed : 0..MaxGen]]
    BY <1>11, BoundsAssumption DEF Restart
  <2> QED BY <1>11, <2>1, <2>2 DEF Restart
<1>12. CASE UNCHANGED vars
  BY <1>12 DEF vars, config
<1> QED
  BY <1>1, <1>2, <1>3, <1>4, <1>5, <1>6, <1>7, <1>8, <1>9, <1>10, <1>11, <1>12 DEF Next

\* Types: in particular, a library is assigned only to a group that exists.
THEOREM TypeCorrect == Spec => []TypeOK
  BY InitTypeOK, NextTypeOK, PTL DEF Spec

---------------------------------------------------------------------------
(* Groups *)

\* What was assigned has a type, which its group has, too.
GroupsInv == GroupKeepsKind /\ \A l \in Library : assigned[l] # None => assignedAs[l] \in Kind

\* Opening the type of a group that became empty leaves the others alone.
LEMMA OthersKeepKind ==
  ASSUME NEW D, NEW kinds \in [D -> Kind \cup {None}], NEW g \in D, NEW after,
         NEW l \in Library, after[l] \in D
  PROVE  OpenedIfEmpty(kinds, g, after)[after[l]] = kinds[after[l]]
  BY DEF OpenedIfEmpty

LEMMA NextGroupsInv == TypeOK /\ GroupsInv /\ [Next]_vars => GroupsInv'
<1> SUFFICES ASSUME TypeOK, GroupsInv, [Next]_vars PROVE GroupsInv'
  OBVIOUS
<1>t. /\ assigned \in [Library -> DOMAIN groupKind \cup {None}]
      /\ groupKind \in [DOMAIN groupKind -> Kind \cup {None}]
      /\ assignedAs \in [Library -> Kind \cup {None}]
      /\ assigns \subseteq [group : Group, library : Library, kind : Kind]
      /\ DOMAIN groupKind \subseteq used /\ used \subseteq Group
  BY DEF TypeOK
<1>n. None \notin Group /\ None \notin Kind
  BY NoneAssumption
<1> USE DEF GroupsInv, GroupKeepsKind
<1>0. ASSUME UNCHANGED <<groupKind, assigned, assignedAs>> PROVE GroupsInv'
  BY <1>0
<1>1. ASSUME NEW u \in Viewer, NEW S \in SUBSET Server, BeginRefresh(u, S) PROVE GroupsInv'
  BY <1>0, <1>1 DEF BeginRefresh, config
<1>2. ASSUME NEW r \in refreshes, NEW covered \in SUBSET Server, NEW listed \in Listings(covered),
             AnswerRefresh(r, covered, listed)
      PROVE  GroupsInv'
  BY <1>0, <1>2 DEF AnswerRefresh
<1>3. ASSUME NEW r \in refreshes, CommitRefresh(r) PROVE GroupsInv'
  BY <1>0, <1>3 DEF CommitRefresh, config
<1>4. ASSUME NEW s \in Server, NEW listed \in Listings({s}), Discover(s, listed) PROVE GroupsInv'
  BY <1>0, <1>4 DEF Discover
<1>5. ASSUME NEW s \in Server, DeleteServer(s) PROVE GroupsInv'
  BY <1>5, <1>t DEF DeleteServer
<1>6. ASSUME NEW g \in Group, CreateGroup(g) PROVE GroupsInv'
  BY <1>6, <1>t, <1>n DEF CreateGroup
<1>7. ASSUME NEW g \in Group, DeleteGroup(g) PROVE GroupsInv'
  BY <1>7, <1>t, <1>n DEF DeleteGroup, LeftOver
<1>8. ASSUME NEW g \in Group, NEW l \in Library, BeginAssign(g, l) PROVE GroupsInv'
  BY <1>0, <1>8 DEF BeginAssign
<1>9. ASSUME NEW t \in assigns, FinishAssign(t) PROVE GroupsInv'
  <2>1. CASE ~Accepts(t)
    BY <1>0, <1>9, <2>1 DEF FinishAssign
  <2>2. CASE Accepts(t)
    <3>1. PICK typed : typed = [groupKind EXCEPT ![t.group] = t.kind]
      OBVIOUS
    <3>2. typed \in [DOMAIN groupKind -> Kind \cup {None}] /\ t.group \in DOMAIN groupKind
      BY <1>t, <2>2, <3>1 DEF Accepts
    <3>3. PICK after : after = [assigned EXCEPT ![t.library] = t.group]
      OBVIOUS
    <3>4. assigned' = after /\ assignedAs' = [assignedAs EXCEPT ![t.library] = t.kind]
      BY <1>9, <2>2, <3>3 DEF FinishAssign
    <3>5. after \in [Library -> DOMAIN groupKind \cup {None}]
      BY <1>t, <3>2, <3>3
    <3>6. groupKind' = typed \/ (/\ assigned[t.library] \in DOMAIN groupKind
                                 /\ groupKind' = OpenedIfEmpty(typed, assigned[t.library], after))
      BY <1>9, <1>t, <2>2, <3>1, <3>3 DEF FinishAssign
    <3>7. ASSUME NEW l \in Library, after[l] # None
          PROVE  /\ assignedAs'[l] \in Kind
                 /\ typed[after[l]] = assignedAs'[l]
      <4>1. CASE l = t.library
        BY <1>t, <3>1, <3>2, <3>3, <3>4, <4>1
      <4>2. CASE l # t.library /\ assigned[l] = t.group
        BY <1>t, <1>n, <2>2, <3>1, <3>2, <3>3, <3>4, <3>7, <4>2 DEF Accepts
      <4>3. CASE l # t.library /\ assigned[l] # t.group
        BY <1>t, <3>1, <3>2, <3>3, <3>4, <3>7, <4>3
      <4> QED BY <4>1, <4>2, <4>3
    <3>8. ASSUME NEW l \in Library, after[l] # None
          PROVE  groupKind'[after[l]] = typed[after[l]]
      <4>1. after[l] \in DOMAIN groupKind
        BY <3>5, <3>8
      <4> QED BY <3>2, <3>6, <4>1, OthersKeepKind
    <3> QED BY <3>4, <3>7, <3>8
  <2> QED BY <2>1, <2>2
<1>10. ASSUME NEW l \in Library, RemoveMember(l) PROVE GroupsInv'
  <2>1. PICK after : after = [assigned EXCEPT ![l] = None]
    OBVIOUS
  <2>2. /\ assigned' = after
        /\ assignedAs' = [assignedAs EXCEPT ![l] = None]
        /\ groupKind' = OpenedIfEmpty(groupKind, assigned[l], after)
        /\ assigned[l] \in DOMAIN groupKind
    BY <1>10, <1>t, <2>1 DEF RemoveMember
  <2>3. ASSUME NEW m \in Library, after[m] # None
        PROVE  assignedAs'[m] \in Kind /\ groupKind'[after[m]] = assignedAs'[m]
    <3>1. m # l /\ after[m] = assigned[m] /\ assigned[m] \in DOMAIN groupKind
      BY <1>t, <2>1, <2>3
    <3>2. groupKind'[after[m]] = groupKind[after[m]]
      BY <1>t, <2>2, <3>1, OthersKeepKind
    <3> QED BY <1>t, <2>2, <2>3, <3>1, <3>2
  <2> QED BY <2>2, <2>3
<1>11. ASSUME Restart PROVE GroupsInv'
  BY <1>0, <1>11 DEF Restart
<1>12. CASE UNCHANGED vars
  BY <1>0, <1>12 DEF vars, config
<1> QED
  BY <1>1, <1>2, <1>3, <1>4, <1>5, <1>6, <1>7, <1>8, <1>9, <1>10, <1>11, <1>12 DEF Next

\* Libraries of one group were assigned with one type, whatever is edited, discovered
\* or deleted meanwhile.
THEOREM GroupsHold == Spec => []GroupKeepsKind
<1>1. Init => GroupsInv
  BY DEF Init, GroupsInv, GroupKeepsKind
<1>2. GroupsInv => GroupKeepsKind
  BY DEF GroupsInv
<1> QED BY <1>1, <1>2, TypeCorrect, NextGroupsInv, PTL DEF Spec

---------------------------------------------------------------------------
(* Listings *)

\* No listing that is stored can be stored again, and listings are told apart by their
\* viewer and generation.
GensInv ==
  /\ \A u \in Viewer : generations[u].committed <= generations[u].started
  /\ \A u \in Viewer, s \in Server : newest[u][s].gen <= generations[u].committed
  /\ \A r \in refreshes : /\ r.gen <= generations[r.viewer].started
                          /\ r.gen # generations[r.viewer].committed
  /\ \A r, q \in refreshes : r.viewer = q.viewer /\ r.gen = q.gen => r = q

\* A listing found libraries of the servers that answered, each once.
FoundInv ==
  \A r \in refreshes : r.step = "answered" =>
    /\ \A o \in r.found : HostOf[o[2]] \in r.covered
    /\ \A o, p \in r.found : o[2] = p[2] => o = p

\* A viewer has a library in one automatic library.
RowsInv ==
  \A m, n \in members : m.viewer = n.viewer /\ m.library = n.library => m = n

ListingsInv == GensInv /\ FoundInv /\ RowsInv /\ NewestStands

\* The types that the proofs about listings need.
ListingsType ==
  /\ members \subseteq Row
  /\ generations \in [Viewer -> [started : 0..MaxGen, committed : 0..MaxGen]]
  /\ refreshes \subseteq Asked \cup Answered
  /\ newest \in [Viewer -> [Server -> [gen : 0..MaxGen, found : SUBSET (Key \X Library)]]]

LEMMA RefreshType ==
  ASSUME ListingsType, NEW r \in refreshes
  PROVE  r.viewer \in Viewer /\ r.gen \in 1..MaxGen
  BY DEF ListingsType, Asked, Answered

LEMMA BeginListingsInv ==
  ASSUME ListingsType, ListingsInv, NEW u \in Viewer, NEW S \in SUBSET Server, BeginRefresh(u, S)
  PROVE  ListingsInv'
<1>1. PICK n : n = [step |-> "asked", viewer |-> u, gen |-> generations[u].started + 1, scope |-> S]
  OBVIOUS
<1>2. /\ refreshes' = refreshes \cup {n}
      /\ generations' = [generations EXCEPT ![u].started = generations[u].started + 1]
      /\ members' = members /\ newest' = newest
  BY <1>1 DEF BeginRefresh
<1>3. \A v \in Viewer : /\ generations[v].started \in Nat /\ generations[v].committed \in Nat
                        /\ generations'[v].committed = generations[v].committed
                        /\ generations'[v].started = IF v = u THEN generations[u].started + 1
                                                    ELSE generations[v].started
  BY <1>2, BoundsAssumption DEF ListingsType
<1>4. n.viewer = u /\ n.gen = generations[u].started + 1 /\ n.step = "asked"
  BY <1>1
<1>5. \A r \in refreshes : r.viewer \in Viewer /\ r.gen \in Nat
  BY RefreshType, BoundsAssumption
<1>6. GensInv'
  <2>1. \A v \in Viewer : generations'[v].committed <= generations'[v].started
    BY <1>3 DEF ListingsInv, GensInv
  <2>2. \A v \in Viewer, s \in Server : newest'[v][s].gen <= generations'[v].committed
    BY <1>2, <1>3 DEF ListingsInv, GensInv
  <2>3. \A r \in refreshes' : /\ r.gen <= generations'[r.viewer].started
                              /\ r.gen # generations'[r.viewer].committed
    BY <1>2, <1>3, <1>4, <1>5 DEF ListingsInv, GensInv
  <2>4. \A r, q \in refreshes' : r.viewer = q.viewer /\ r.gen = q.gen => r = q
    BY <1>2, <1>3, <1>4, <1>5 DEF ListingsInv, GensInv
  <2> QED BY <2>1, <2>2, <2>3, <2>4 DEF GensInv
<1>7. FoundInv'
  BY <1>2, <1>4 DEF ListingsInv, FoundInv
<1> QED BY <1>2, <1>6, <1>7 DEF ListingsInv, RowsInv, NewestStands

LEMMA AnswerListingsInv ==
  ASSUME ListingsType, ListingsInv, NEW r \in refreshes, NEW covered \in SUBSET Server,
         NEW listed \in Listings(covered), AnswerRefresh(r, covered, listed)
  PROVE  ListingsInv'
<1>1. PICK f : f = Found(r, listed, covered = r.scope)
  OBVIOUS
<1>2. PICK n : n = [step |-> "answered", viewer |-> r.viewer, gen |-> r.gen,
                    covered |-> covered, found |-> f]
  OBVIOUS
<1>3. /\ refreshes' = (refreshes \ {r}) \cup {n}
      /\ UNCHANGED <<generations, members, newest>>
  BY <1>1, <1>2 DEF AnswerRefresh, Found
<1>4. n.viewer = r.viewer /\ n.gen = r.gen /\ n.covered = covered /\ n.found = f
  BY <1>2
<1>5. /\ \A o \in f : HostOf[o[2]] \in covered
      /\ \A o, p \in f : o[2] = p[2] => o = p
  <2>1. \A o \in f : o \in Key \X Library /\ o[2] \in DOMAIN listed /\ o[1] = listed[o[2]]
    BY <1>1, FoundListed
  <2>2. \A l \in DOMAIN listed : HostOf[l] \in covered
    BY DEF Listings, LibrariesOf
  <2> QED BY <2>1, <2>2
<1>6. GensInv'
  BY <1>3, <1>4 DEF ListingsInv, GensInv
<1>7. FoundInv'
  BY <1>3, <1>4, <1>5 DEF ListingsInv, FoundInv
<1> QED BY <1>3, <1>6, <1>7 DEF ListingsInv, RowsInv, NewestStands

\* A listing that is stored is newer than all that was stored for its viewer.
LEMMA StoredNewer ==
  ASSUME ListingsType, ListingsInv, NEW r \in refreshes, ~Superseded(r)
  PROVE  /\ r.gen > generations[r.viewer].committed
         /\ \A s \in Server : r.gen > newest[r.viewer][s].gen
<1>1. /\ r.viewer \in Viewer /\ r.gen \in Nat /\ generations[r.viewer].committed \in Nat
      /\ \A s \in Server : newest[r.viewer][s].gen \in Nat
  BY RefreshType, BoundsAssumption DEF ListingsType
<1>2. r.gen > generations[r.viewer].committed
  BY <1>1 DEF ListingsInv, GensInv, Superseded
<1> QED BY <1>1, <1>2 DEF ListingsInv, GensInv

\* The rows of viewer u for server s.
RowsOf(u, s) == {<<m.key, m.library>> : m \in {n \in members : n.viewer = u /\ HostOf[n.library] = s}}

\* The rows after a listing r is stored.
LEMMA StoredRows ==
  ASSUME ListingsType, NEW r \in refreshes, r.step = "answered", ~Superseded(r), CommitRefresh(r),
         \A o \in r.found : HostOf[o[2]] \in r.covered,
         NEW u \in Viewer, NEW s \in Server
  PROVE  RowsOf(u, s)' = IF u = r.viewer /\ s \in r.covered
                         THEN {o \in r.found : HostOf[o[2]] = s} ELSE RowsOf(u, s)
<1>1. r \in Answered
  BY DEF ListingsType, Asked, Answered
<1>2. PICK new : new = {[viewer |-> r.viewer, key |-> o[1], library |-> o[2]] : o \in r.found}
  OBVIOUS
<1>3. members' = (members \ Outdated(r)) \cup new
  BY <1>2 DEF CommitRefresh
<1>4. \A o \in r.found : o \in Key \X Library /\ o = <<o[1], o[2]>>
  BY <1>1 DEF Answered
<1>5. \A m \in new : /\ m.viewer = r.viewer
                     /\ <<m.key, m.library>> \in r.found
                     /\ HostOf[m.library] \in r.covered
  BY <1>2, <1>4
<1>6. \A o \in r.found : \E m \in new : m.viewer = r.viewer /\ m.key = o[1] /\ m.library = o[2]
  <2>1. TAKE o \in r.found
  <2>2. PICK m : m = [viewer |-> r.viewer, key |-> o[1], library |-> o[2]]
    OBVIOUS
  <2>3. m \in new
    BY <1>2, <2>2
  <2>4. m.viewer = r.viewer /\ m.key = o[1] /\ m.library = o[2]
    BY <2>2
  <2> QED BY <2>3, <2>4
<1>7. CASE u = r.viewer /\ s \in r.covered
  <2>1. \A m \in members' : m.viewer = u /\ HostOf[m.library] = s => m \in new
    BY <1>3, <1>7 DEF Outdated
  <2>2. RowsOf(u, s)' \subseteq {o \in r.found : HostOf[o[2]] = s}
    BY <1>5, <2>1 DEF RowsOf
  <2>3. {o \in r.found : HostOf[o[2]] = s} \subseteq RowsOf(u, s)'
    BY <1>3, <1>4, <1>6, <1>7 DEF RowsOf
  <2> QED BY <1>7, <2>2, <2>3
<1>8. CASE ~(u = r.viewer /\ s \in r.covered)
  <2>1. {n \in members' : n.viewer = u /\ HostOf[n.library] = s}
          = {n \in members : n.viewer = u /\ HostOf[n.library] = s}
    BY <1>3, <1>5, <1>8 DEF Outdated
  <2> QED BY <1>8, <2>1 DEF RowsOf
<1> QED BY <1>7, <1>8

LEMMA CommitListingsInv ==
  ASSUME ListingsType, ListingsInv, NEW r \in refreshes, CommitRefresh(r)
  PROVE  ListingsInv'
<1>1. r \in Answered
  BY DEF CommitRefresh, ListingsType, Asked, Answered
<1>2. refreshes' = refreshes \ {r} /\ r.step = "answered"
  BY DEF CommitRefresh
<1>3. CASE Superseded(r)
  <2>1. UNCHANGED <<members, generations, newest>>
    BY <1>3 DEF CommitRefresh
  <2> QED BY <1>2, <2>1 DEF ListingsInv, GensInv, FoundInv, RowsInv, NewestStands
<1>4. CASE ~Superseded(r)
  <2>1. /\ \A o \in r.found : HostOf[o[2]] \in r.covered
        /\ \A o, p \in r.found : o[2] = p[2] => o = p
    BY <1>2 DEF ListingsInv, FoundInv
  <2>2. /\ r.viewer \in Viewer /\ r.gen \in Nat
        /\ r.gen > generations[r.viewer].committed
        /\ \A s \in Server : r.gen > newest[r.viewer][s].gen
    BY <1>4, StoredNewer, RefreshType, BoundsAssumption
  <2>3. generations' = [generations EXCEPT ![r.viewer].committed = r.gen]
    BY <1>4 DEF CommitRefresh
  <2>4. \A v \in Viewer : /\ generations[v].started \in Nat /\ generations[v].committed \in Nat
                          /\ generations'[v].started = generations[v].started
                          /\ generations'[v].committed = IF v = r.viewer THEN r.gen
                                                        ELSE generations[v].committed
    BY <2>3, BoundsAssumption DEF ListingsType
  <2>5. \A v \in Viewer, s \in Server :
          newest'[v][s] = IF v = r.viewer /\ s \in r.covered
                          THEN [gen |-> r.gen, found |-> {o \in r.found : HostOf[o[2]] = s}]
                          ELSE newest[v][s]
    <3>1. PICK w : w = [s \in Server |->
                         IF s \in r.covered /\ r.gen > newest[r.viewer][s].gen
                         THEN [gen |-> r.gen, found |-> {o \in r.found : HostOf[o[2]] = s}]
                         ELSE newest[r.viewer][s]]
      OBVIOUS
    <3>2. newest' = [newest EXCEPT ![r.viewer] = w]
      BY <1>4, <2>2, <3>1 DEF CommitRefresh, ListingsType
    <3> QED BY <2>2, <3>1, <3>2 DEF ListingsType
  <2>6. GensInv'
    <3>1. \A v \in Viewer : generations'[v].committed <= generations'[v].started
      BY <2>2, <2>4 DEF ListingsInv, GensInv
    <3>2. \A v \in Viewer, s \in Server : newest'[v][s].gen <= generations'[v].committed
      <4>1. TAKE v \in Viewer, s \in Server
      <4>2. newest[v][s].gen \in Nat
        BY BoundsAssumption DEF ListingsType
      <4>3. newest[v][s].gen <= generations[v].committed
        BY DEF ListingsInv, GensInv
      <4>4. CASE v = r.viewer /\ s \in r.covered
        <5>1. newest'[v][s] = [gen |-> r.gen, found |-> {o \in r.found : HostOf[o[2]] = s}]
          BY <2>5, <4>4
        <5>2. newest'[v][s].gen = r.gen
          BY <5>1
        <5> QED BY <2>2, <2>4, <4>4, <5>2
      <4>5. CASE ~(v = r.viewer /\ s \in r.covered)
        <5>1. newest'[v][s] = newest[v][s]
          BY <2>5, <4>5
        <5> QED BY <2>2, <2>4, <4>2, <4>3, <5>1
      <4> QED BY <4>4, <4>5
    <3>3. \A q \in refreshes' : /\ q.gen <= generations'[q.viewer].started
                                /\ q.gen # generations'[q.viewer].committed
      BY <1>2, <2>4, RefreshType DEF ListingsInv, GensInv
    <3>4. \A p, q \in refreshes' : p.viewer = q.viewer /\ p.gen = q.gen => p = q
      BY <1>2 DEF ListingsInv, GensInv
    <3> QED BY <3>1, <3>2, <3>3, <3>4 DEF GensInv
  <2>7. FoundInv'
    BY <1>2 DEF ListingsInv, FoundInv
  <2>8. RowsInv'
    <3>1. PICK new : new = {[viewer |-> r.viewer, key |-> o[1], library |-> o[2]] : o \in r.found}
      OBVIOUS
    <3>2. members' = (members \ Outdated(r)) \cup new
      BY <1>4, <3>1 DEF CommitRefresh
    <3>3. \A m \in new : m.viewer = r.viewer /\ HostOf[m.library] \in r.covered
      BY <2>1, <3>1
    <3>4. \A m, n \in new : m.library = n.library => m = n
      BY <2>1, <3>1
    <3>5. \A m \in members \ Outdated(r) : m.viewer = r.viewer => HostOf[m.library] \notin r.covered
      BY DEF Outdated
    <3> QED BY <3>2, <3>3, <3>4, <3>5 DEF ListingsInv, RowsInv
  <2>9. NewestStands'
    <3>1. \A u \in Viewer, s \in Server : RowsOf(u, s)' = newest'[u][s].found
      <4>1. TAKE u \in Viewer, s \in Server
      <4>2. RowsOf(u, s) = newest[u][s].found
        BY DEF ListingsInv, NewestStands, RowsOf
      <4>3. RowsOf(u, s)' = IF u = r.viewer /\ s \in r.covered
                            THEN {o \in r.found : HostOf[o[2]] = s} ELSE RowsOf(u, s)
        BY <1>2, <1>4, <2>1, StoredRows
      <4>4. CASE u = r.viewer /\ s \in r.covered
        <5>1. newest'[u][s] = [gen |-> r.gen, found |-> {o \in r.found : HostOf[o[2]] = s}]
          BY <2>5, <4>4
        <5>2. newest'[u][s].found = {o \in r.found : HostOf[o[2]] = s}
          BY <5>1
        <5> QED BY <4>3, <4>4, <5>2
      <4>5. CASE ~(u = r.viewer /\ s \in r.covered)
        <5>1. newest'[u][s] = newest[u][s]
          BY <2>5, <4>5
        <5> QED BY <4>2, <4>3, <4>5, <5>1
      <4> QED BY <4>4, <4>5
    <3> QED BY <3>1 DEF NewestStands, RowsOf
  <2> QED BY <2>6, <2>7, <2>8, <2>9 DEF ListingsInv
<1> QED BY <1>3, <1>4

LEMMA DeleteListingsInv ==
  ASSUME ListingsType, ListingsInv, NEW v \in Server, DeleteServer(v)
  PROVE  ListingsInv'
<1>1. /\ members' = {m \in members : m.library \notin LibrariesOf({v})}
      /\ newest' = [u \in Viewer |-> [newest[u] EXCEPT ![v].found = {}]]
      /\ UNCHANGED <<generations, refreshes>>
  BY DEF DeleteServer
<1>2. \A m \in members : m.library \in Library
  BY DEF ListingsType, Row
<1>3. \A u \in Viewer, s \in Server : /\ newest'[u][s].gen = newest[u][s].gen
                                      /\ newest'[u][s].found = IF s = v THEN {} ELSE newest[u][s].found
  <2>1. TAKE u \in Viewer, s \in Server
  <2>2. PICK w : w = newest[u]
    OBVIOUS
  <2>3. w \in [Server -> [gen : 0..MaxGen, found : SUBSET (Key \X Library)]]
    BY <2>2 DEF ListingsType
  <2>4. newest'[u][s] = IF s = v THEN [w[v] EXCEPT !.found = {}] ELSE w[s]
    BY <1>1, <2>2, <2>3
  <2>5. /\ [w[v] EXCEPT !.found = {}].gen = w[v].gen
        /\ [w[v] EXCEPT !.found = {}].found = {}
    BY <2>3
  <2> QED BY <2>2, <2>4, <2>5
<1>4. NewestStands'
  <2>1. \A u \in Viewer, s \in Server : RowsOf(u, s)' = newest'[u][s].found
    <3>1. TAKE u \in Viewer, s \in Server
    <3>2. CASE s = v
      <4>1. {n \in members' : n.viewer = u /\ HostOf[n.library] = s} = {}
        BY <1>1, <1>2, <3>2 DEF LibrariesOf
      <4> QED BY <1>3, <3>2, <4>1 DEF RowsOf
    <3>3. CASE s # v
      <4>1. {n \in members' : n.viewer = u /\ HostOf[n.library] = s}
              = {n \in members : n.viewer = u /\ HostOf[n.library] = s}
        BY <1>1, <1>2, <3>3 DEF LibrariesOf
      <4>2. RowsOf(u, s) = newest[u][s].found
        BY DEF ListingsInv, NewestStands, RowsOf
      <4> QED BY <1>3, <3>3, <4>1, <4>2 DEF RowsOf
    <3> QED BY <3>2, <3>3
  <2> QED BY <2>1 DEF NewestStands, RowsOf
<1>5. GensInv'
  BY <1>1, <1>3 DEF ListingsInv, GensInv
<1> QED BY <1>1, <1>4, <1>5 DEF ListingsInv, FoundInv, RowsInv

LEMMA RestartListingsInv ==
  ASSUME ListingsType, ListingsInv, Restart
  PROVE  ListingsInv'
<1>1. /\ refreshes' = {} /\ members' = members
      /\ generations' = [u \in Viewer |-> [started |-> 0, committed |-> 0]]
  BY DEF Restart
<1>2. \A u \in Viewer, s \in Server : newest'[u][s].gen = 0 /\ newest'[u][s].found = newest[u][s].found
  <2>1. TAKE u \in Viewer, s \in Server
  <2>2. PICK x \in [gen : 0..MaxGen, found : SUBSET (Key \X Library)] : x = newest[u][s]
    BY DEF ListingsType
  <2>3. newest'[u][s] = [x EXCEPT !.gen = 0]
    BY <2>2 DEF Restart
  <2> QED BY <2>2, <2>3
<1>3. GensInv' /\ FoundInv'
  BY <1>1, <1>2 DEF GensInv, FoundInv
<1> QED BY <1>1, <1>2, <1>3 DEF ListingsInv, RowsInv, NewestStands

LEMMA NextListingsInv == TypeOK /\ ListingsInv /\ [Next]_vars => ListingsInv'
<1> SUFFICES ASSUME TypeOK, ListingsInv, [Next]_vars PROVE ListingsInv'
  OBVIOUS
<1>t. ListingsType
  BY DEF TypeOK, ListingsType
<1>0. ASSUME UNCHANGED <<refreshes, generations, members, newest>> PROVE ListingsInv'
  BY <1>0 DEF ListingsInv, GensInv, FoundInv, RowsInv, NewestStands
<1>1. ASSUME NEW s \in Server, NEW listed \in Listings({s}), Discover(s, listed) PROVE ListingsInv'
  BY <1>0, <1>1 DEF Discover
<1>2. ASSUME NEW g \in Group, CreateGroup(g) PROVE ListingsInv'
  BY <1>0, <1>2 DEF CreateGroup
<1>3. ASSUME NEW g \in Group, DeleteGroup(g) PROVE ListingsInv'
  BY <1>0, <1>3 DEF DeleteGroup
<1>4. ASSUME NEW g \in Group, NEW l \in Library, BeginAssign(g, l) PROVE ListingsInv'
  BY <1>0, <1>4 DEF BeginAssign
<1>5. ASSUME NEW t \in assigns, FinishAssign(t) PROVE ListingsInv'
  BY <1>0, <1>5 DEF FinishAssign
<1>6. ASSUME NEW l \in Library, RemoveMember(l) PROVE ListingsInv'
  BY <1>0, <1>6 DEF RemoveMember
<1>7. CASE UNCHANGED vars
  BY <1>0, <1>7 DEF vars
<1> QED
  BY <1>t, <1>1, <1>2, <1>3, <1>4, <1>5, <1>6, <1>7, BeginListingsInv, AnswerListingsInv,
     CommitListingsInv, DeleteListingsInv, RestartListingsInv DEF Next

\* Every library opens from one virtual library at most.
LEMMA OneKeyOpensOnce == RowsInv => OpensOnce
<1> SUFFICES ASSUME RowsInv, NEW u \in Viewer, NEW l \in Library,
                    NEW v \in Group \cup Key, NEW w \in Group \cup Key,
                    l \in (IF v \in Group THEN GroupOpens(v, Server) ELSE AutomaticOpens(u, v, Server)),
                    l \in (IF w \in Group THEN GroupOpens(w, Server) ELSE AutomaticOpens(u, w, Server))
             PROVE  v = w
  BY DEF OpensOnce, GroupOpens, AutomaticOpens, LibrariesOf
<1>1. CASE v \in Group \/ w \in Group
  BY <1>1, NoneAssumption DEF GroupOpens, AutomaticOpens
<1>2. CASE v \notin Group /\ w \notin Group
  <2>1. /\ [viewer |-> u, key |-> v, library |-> l] \in members
        /\ [viewer |-> u, key |-> w, library |-> l] \in members
    BY <1>2 DEF AutomaticOpens
  <2>2. [viewer |-> u, key |-> v, library |-> l] = [viewer |-> u, key |-> w, library |-> l]
    BY <2>1 DEF RowsInv
  <2> QED BY <2>2
<1> QED BY <1>1, <1>2

LEMMA ListingsHold == Spec => []ListingsInv
<1>1. Init => ListingsInv
  BY DEF Init, Nothing, ListingsInv, GensInv, FoundInv, RowsInv, NewestStands
<1> QED BY <1>1, TypeCorrect, NextListingsInv, PTL DEF Spec

\* Whatever the order in which listings end and the servers they reach, what is stored
\* for a viewer and a server is what the newest of the stored listings found there.
THEOREM NewestListingStands == Spec => []NewestStands
<1>1. ListingsInv => NewestStands
  BY DEF ListingsInv
<1> QED BY <1>1, ListingsHold, PTL

\* No library opens from two virtual libraries, while listings, assignments and
\* deletions overlap.
THEOREM LibrariesOpenOnce == Spec => []OpensOnce
<1>1. ListingsInv => OpensOnce
  BY OneKeyOpensOnce DEF ListingsInv
<1> QED BY <1>1, ListingsHold, PTL
=============================================================================
