------------------------- MODULE MediaCatalogProofs -------------------------
(***************************************************************************)
(* The properties of MediaCatalog for any servers, items, aliases,         *)
(* answers and numbers of requests, and that it implements PublicIds.      *)
(***************************************************************************)
EXTENDS MediaCatalog, FiniteSetTheorems, WellFoundedInduction, TLAPS

(* What shared aliases connect *)

\* The sets of members that m is in and that share nothing with other members.
Around(tags, M, m) == {S \in SUBSET M : m \in S /\ IsClosed(tags, M, S)}

\* A member is in a smallest one of them.
LEMMA ComponentExists ==
  ASSUME NEW tags, NEW M, NEW m \in M
  PROVE  LET C == Component(tags, M, m)
         IN  /\ C \in Around(tags, M, m)
             /\ \A S \in Around(tags, M, m) : S \subseteq C => S = C
<1>1. PICK C0 : C0 = {p \in M : \A S \in Around(tags, M, m) : p \in S}
  OBVIOUS
<1>2. C0 \in SUBSET M /\ m \in C0
  BY <1>1 DEF Around
<1>3. IsClosed(tags, M, C0)
  <2>1. SUFFICES ASSUME NEW p \in C0, NEW q \in M \ C0 PROVE tags[p] \cap tags[q] = {}
    BY DEF IsClosed
  <2>2. PICK S \in Around(tags, M, m) : q \notin S
    BY <1>1, <2>1
  <2>3. p \in S
    BY <1>1, <2>1, <2>2
  <2> QED BY <2>1, <2>2, <2>3 DEF Around, IsClosed
<1>4. \A S \in SUBSET C0 : m \in S /\ IsClosed(tags, M, S) => S = C0
  BY <1>1, <1>2 DEF Around
<1>5. \E C \in SUBSET M : /\ m \in C /\ IsClosed(tags, M, C)
                          /\ \A S \in SUBSET C : m \in S /\ IsClosed(tags, M, S) => S = C
  BY <1>2, <1>3, <1>4
<1> QED BY <1>5 DEF Component, Around

\* What two closed sets have in common is closed, and so is what one has more.
LEMMA ClosedMeet ==
  ASSUME NEW tags, NEW M, NEW C \in SUBSET M, NEW D \in SUBSET M,
         IsClosed(tags, M, C), IsClosed(tags, M, D)
  PROVE  IsClosed(tags, M, C \cap D) /\ IsClosed(tags, M, C \ D)
<1>1. IsClosed(tags, M, C \cap D)
  BY DEF IsClosed
<1>2. ASSUME NEW p \in C \ D, NEW q \in M \ (C \ D) PROVE tags[p] \cap tags[q] = {}
  <2>1. CASE q \notin C
    BY <1>2, <2>1 DEF IsClosed
  <2>2. CASE q \in D
    BY <1>2, <2>2 DEF IsClosed
  <2> QED BY <1>2, <2>1, <2>2
<1> QED BY <1>1, <1>2 DEF IsClosed

\* The component of whoever is in a component is that component.
LEMMA ComponentShared ==
  ASSUME NEW tags, NEW M, NEW m \in M, NEW n \in Component(tags, M, m)
  PROVE  n \in M /\ Component(tags, M, n) = Component(tags, M, m)
<1>1. PICK C : C = Component(tags, M, m)
  OBVIOUS
<1>2. /\ C \in SUBSET M /\ m \in C /\ n \in C /\ IsClosed(tags, M, C)
      /\ \A S \in Around(tags, M, m) : S \subseteq C => S = C
  BY <1>1, ComponentExists DEF Around
<1>3. PICK D : D = Component(tags, M, n)
  OBVIOUS
<1>4. /\ D \in SUBSET M /\ n \in D /\ IsClosed(tags, M, D)
      /\ \A S \in Around(tags, M, n) : S \subseteq D => S = D
  BY <1>2, <1>3, ComponentExists DEF Around
<1>5. IsClosed(tags, M, C \cap D) /\ IsClosed(tags, M, C \ D)
  BY <1>2, <1>4, ClosedMeet
<1>6. m \in D
  <2>1. SUFFICES ASSUME m \notin D PROVE FALSE
    OBVIOUS
  <2>2. C \ D \in Around(tags, M, m)
    BY <1>2, <1>5, <2>1 DEF Around
  <2> QED BY <1>2, <1>4, <2>2
<1>7. C \cap D \in Around(tags, M, m) /\ C \cap D \in Around(tags, M, n)
  BY <1>2, <1>4, <1>5, <1>6 DEF Around
<1> QED BY <1>1, <1>2, <1>3, <1>4, <1>7

\* The components: every member is in one, and members of two share no alias.
LEMMA ComponentsPartition ==
  ASSUME NEW tags, NEW M
  PROVE  /\ \A C \in Components(tags, M) : C \subseteq M /\ C # {}
         /\ \A m \in M : \E C \in Components(tags, M) : m \in C
         /\ \A C, D \in Components(tags, M) :
              (\E m \in C, n \in D : tags[m] \cap tags[n] # {} \/ m = n) => C = D
<1>1. \A m \in M : /\ Component(tags, M, m) \subseteq M
                   /\ m \in Component(tags, M, m)
                   /\ IsClosed(tags, M, Component(tags, M, m))
  BY ComponentExists DEF Around
<1>2. ASSUME NEW C \in Components(tags, M), NEW D \in Components(tags, M),
             NEW m \in C, NEW n \in D, tags[m] \cap tags[n] # {} \/ m = n
      PROVE  C = D
  <2>1. PICK a \in M, b \in M : C = Component(tags, M, a) /\ D = Component(tags, M, b)
    BY <1>2 DEF Components
  <2>2. n \in C
    BY <1>1, <1>2, <2>1 DEF IsClosed
  <2> QED BY <2>1, <2>2, <1>2, ComponentShared
<1>3. \A C \in Components(tags, M) : C \subseteq M /\ C # {}
  BY <1>1 DEF Components
<1>4. \A m \in M : \E C \in Components(tags, M) : m \in C
  BY <1>1 DEF Components
<1> QED BY <1>2, <1>3, <1>4

---------------------------------------------------------------------------
(* The smallest of some numbers *)

LEMMA OldestIsLeast ==
  ASSUME NEW S \in SUBSET Nat, S # {}
  PROVE  OldestOf(S) \in S /\ \A h \in S : OldestOf(S) <= h
<1>1. PICK T : T = {0..h : h \in S}
  OBVIOUS
<1>2. T \subseteq FiniteSubsetsOf(Nat) /\ T # {}
  <2>1. ASSUME NEW h \in S PROVE 0..h \in FiniteSubsetsOf(Nat)
    <3>1. IsFiniteSet(0..h)
      BY FS_Interval
    <3> QED BY <3>1 DEF FiniteSubsetsOf
  <2> QED BY <1>1, <2>1
<1>3. PICK x \in T : \A y \in T : ~ (<<y, x>> \in StrictSubsetOrdering(Nat))
  BY <1>2, WFMin, FS_StrictSubsetOrderingWellFounded
<1>4. PICK g \in S : x = 0..g
  BY <1>1
<1>5. \A h \in S : g <= h
  <2>1. SUFFICES ASSUME NEW h \in S, h < g PROVE FALSE
    OBVIOUS
  <2>2. 0..h \in T
    BY <1>1
  <2>3. 0..h \in SUBSET Nat /\ 0..g \in SUBSET Nat /\ 0..h \subseteq 0..g /\ g \notin 0..h /\ g \in 0..g
    BY <2>1
  <2>4. <<0..h, 0..g>> \in StrictSubsetOrdering(Nat)
    BY <2>3 DEF StrictSubsetOrdering
  <2> QED BY <1>3, <1>4, <2>2, <2>4
<1> QED BY <1>5 DEF OldestOf

---------------------------------------------------------------------------
(* How groups are made again *)

PartsOf(k) == Components(k.tags, Active(k))
SplitOf(k) == Split(k, PartsOf(k))
MovesOf(k) == Moves(k, PartsOf(k), SplitOf(k))
HomelessOf(k) == Homeless(k, PartsOf(k), SplitOf(k))
Home(k, C) == HomeOf(k, PartsOf(k), SplitOf(k), C)
NewOf(k) == Cardinality(HomelessOf(k))

\* Members, aliases and public ids lead to groups that live.
RefsLive(k) ==
  /\ \A m \in Mapping : k.group[m] \in Live(k) \cup {0}
  /\ \A a \in Alias : k.claims[a] \in Live(k) \cup {0}
  /\ \A v \in DOMAIN k.ids : k.ids[v] \in Live(k)

LEMMA PartsFacts ==
  ASSUME NEW k \in Catalog
  PROVE  /\ \A C \in PartsOf(k) : C \subseteq Active(k) /\ C # {} /\ C \subseteq Mapping
         /\ \A m \in Active(k) : \E C \in PartsOf(k) : m \in C
         /\ \A C, D \in PartsOf(k) : C \cap D # {} => C = D
         /\ \A C, D \in PartsOf(k) : AllTags(k, C) \cap AllTags(k, D) # {} => C = D
<1>1. Active(k) \subseteq Mapping
  BY DEF Active, Sighted
<1>2. \A C, D \in PartsOf(k) : AllTags(k, C) \cap AllTags(k, D) # {} => C = D
  BY ComponentsPartition DEF PartsOf, AllTags
<1>3. /\ \A C \in PartsOf(k) : C \subseteq Active(k) /\ C # {}
      /\ \A m \in Active(k) : \E C \in PartsOf(k) : m \in C
  BY ComponentsPartition DEF PartsOf
<1>4. \A C, D \in PartsOf(k) : C \cap D # {} => C = D
  BY ComponentsPartition DEF PartsOf
<1> QED BY <1>1, <1>2, <1>3, <1>4

LEMMA CandidatesLive ==
  ASSUME NEW k \in Catalog, RefsLive(k), NEW C \in PartsOf(k)
  PROVE  Candidates(k, C) \subseteq Live(k) /\ Candidates(k, C) \subseteq Nat \ {0}
<1>1. C \subseteq Mapping
  BY PartsFacts
<1>2. AllTags(k, C) \subseteq Alias
  BY <1>1 DEF AllTags, Catalog
<1>3. Candidates(k, C) \subseteq Live(k)
  BY <1>1, <1>2 DEF Candidates, RefsLive
<1>4. Live(k) \subseteq Nat \ {0}
  BY DEF Live, Catalog
<1> QED BY <1>3, <1>4

LEMMA LenIds == ASSUME NEW k \in Catalog PROVE Len(k.ids) \in Nat /\ DOMAIN k.ids = 1..Len(k.ids)
  BY DEF Catalog

\* There are finitely many components.
LEMMA HomelessFinite ==
  ASSUME NEW k \in Catalog
  PROVE  IsFiniteSet(HomelessOf(k)) /\ NewOf(k) \in Nat
<1>1. HomelessOf(k) \subseteq SUBSET Mapping
  BY PartsFacts DEF HomelessOf, Homeless
<1>2. IsFiniteSet(SUBSET Mapping)
  BY MappingAssumption, FS_SUBSET
<1>3. IsFiniteSet(HomelessOf(k))
  BY <1>1, <1>2, FS_Subset
<1> QED BY <1>3, FS_CardinalityType DEF NewOf

\* The rank of a homeless component.
Rank(k, C) == Cardinality({D \in HomelessOf(k) : OldestOf(D) <= OldestOf(C)})

\* Ranks count from 1, and two components have two ranks.
LEMMA Ranks ==
  ASSUME NEW k \in Catalog, NEW C \in HomelessOf(k)
  PROVE  /\ Rank(k, C) \in 1..NewOf(k)
         /\ \A D \in HomelessOf(k) : Rank(k, D) = Rank(k, C) => C = D
<1> DEFINE Upto(D) == {B \in HomelessOf(k) : OldestOf(B) <= OldestOf(D)}
<1>1. \A D \in HomelessOf(k) : D \in PartsOf(k) /\ OldestOf(D) \in D /\ OldestOf(D) \in Nat
  BY PartsFacts, OldestIsLeast, MappingAssumption DEF HomelessOf, Homeless
<1>2. \A D \in HomelessOf(k) : IsFiniteSet(Upto(D)) /\ Cardinality(Upto(D)) <= NewOf(k)
  BY HomelessFinite, FS_Subset DEF NewOf
<1>3. \A D \in HomelessOf(k) : Rank(k, D) = Cardinality(Upto(D)) /\ Cardinality(Upto(D)) \in Nat
  BY <1>2, FS_CardinalityType DEF Rank
<1>4. C \in Upto(C)
  BY <1>1
<1>5. Cardinality(Upto(C)) # 0
  BY <1>2, <1>4, FS_EmptySet
<1>6. Rank(k, C) \in 1..NewOf(k)
  <2> HIDE DEF Upto
  <2>1. /\ Cardinality(Upto(C)) \in Nat /\ Cardinality(Upto(C)) # 0
        /\ Cardinality(Upto(C)) <= NewOf(k) /\ NewOf(k) \in Nat
    BY <1>2, <1>3, <1>5, HomelessFinite
  <2>2. Rank(k, C) = Cardinality(Upto(C))
    BY <1>3
  <2> QED BY <2>1, <2>2
<1>7. ASSUME NEW D \in HomelessOf(k), Rank(k, D) = Rank(k, C) PROVE C = D
  <2>1. Upto(C) \subseteq Upto(D) \/ Upto(D) \subseteq Upto(C)
    BY <1>1
  <2>2. Upto(C) = Upto(D)
    BY <1>2, <1>3, <1>7, <2>1, FS_Subset
  <2>3. D \in Upto(C) /\ C \in Upto(D)
    BY <1>1, <2>2
  <2>4. OldestOf(C) = OldestOf(D)
    BY <1>1, <2>3
  <2>5. C \cap D # {}
    BY <1>1, <2>4
  <2> QED BY <1>1, <2>5, PartsFacts
<1> QED BY <1>6, <1>7

\* A component keeps a group that was only its own, or gets a new one.
LEMMA Homes ==
  ASSUME NEW k \in Catalog, RefsLive(k), NEW C \in PartsOf(k)
  PROVE  \/ /\ C \in HomelessOf(k)
            /\ Home(k, C) = Len(k.ids) + Rank(k, C)
            /\ Home(k, C) \in (Len(k.ids) + 1)..(Len(k.ids) + NewOf(k))
         \/ /\ C \notin HomelessOf(k)
            /\ Home(k, C) \in Candidates(k, C) \ SplitOf(k)
            /\ Home(k, C) \in Live(k)
<1>1. CASE C \in HomelessOf(k)
  <2>1. Home(k, C) = Len(k.ids) + Rank(k, C)
    BY <1>1 DEF Home, HomeOf, HomelessOf, Rank
  <2>2. Rank(k, C) \in 1..NewOf(k)
    BY <1>1, Ranks
  <2> QED BY <1>1, <2>1, <2>2, LenIds, HomelessFinite
<1>2. CASE C \notin HomelessOf(k)
  <2>1. Candidates(k, C) \ SplitOf(k) # {}
    BY <1>2 DEF HomelessOf, Homeless
  <2>2. Home(k, C) = OldestOf(Candidates(k, C) \ SplitOf(k))
    BY <1>2 DEF Home, HomeOf, HomelessOf
  <2>3. Home(k, C) \in Candidates(k, C) \ SplitOf(k)
    BY <2>1, <2>2, CandidatesLive, OldestIsLeast
  <2> QED BY <1>2, <2>3, CandidatesLive
<1> QED BY <1>1, <1>2

LEMMA LiveInIds == ASSUME NEW k \in Catalog PROVE Live(k) \subseteq DOMAIN k.ids /\ Live(k) \subseteq 1..Len(k.ids)
  BY LenIds DEF Live

\* No two components get one group.
LEMMA HomesApart ==
  ASSUME NEW k \in Catalog, RefsLive(k), NEW C \in PartsOf(k), NEW D \in PartsOf(k),
         Home(k, C) = Home(k, D)
  PROVE  C = D
<1>1. CASE C \in HomelessOf(k) /\ D \in HomelessOf(k)
  <2>1. /\ Home(k, C) = Len(k.ids) + Rank(k, C) /\ Home(k, D) = Len(k.ids) + Rank(k, D)
        /\ Rank(k, C) \in Nat /\ Rank(k, D) \in Nat
    BY <1>1, Homes, Ranks, HomelessFinite
  <2>2. PICK a, b, n : a = Rank(k, C) /\ b = Rank(k, D) /\ n = Len(k.ids)
    OBVIOUS
  <2>3. n \in Nat /\ a \in Nat /\ b \in Nat /\ n + a = n + b
    BY <2>1, <2>2, LenIds
  <2>4. a = b
    BY <2>3
  <2> QED BY <1>1, <2>2, <2>4, Ranks
<1>2. CASE C \notin HomelessOf(k) /\ D \notin HomelessOf(k)
  <2>1. /\ Home(k, C) \in (Candidates(k, C) \cap Candidates(k, D)) \ SplitOf(k)
        /\ Home(k, C) \in DOMAIN k.ids
    BY <1>2, Homes, LiveInIds
  <2> QED BY <2>1 DEF SplitOf, Split
<1>3. CASE (C \in HomelessOf(k)) # (D \in HomelessOf(k))
  BY <1>3, Homes, LiveInIds, LenIds, HomelessFinite
<1> QED BY <1>1, <1>2, <1>3

LEMMA MovesFacts ==
  ASSUME NEW k, NEW v \in MovesOf(k)
  PROVE  /\ v.part \in PartsOf(k)
         /\ v.home = Home(k, v.part)
         /\ v.lost = Candidates(k, v.part) \ (SplitOf(k) \cup {v.home})
  BY DEF MovesOf, Moves, Home

LEMMA MoveOfPart ==
  ASSUME NEW k, NEW C \in PartsOf(k)
  PROVE  \E v \in MovesOf(k) : v.part = C
<1>1. PICK v : v = [part |-> C, home |-> HomeOf(k, PartsOf(k), SplitOf(k), C),
                    lost |-> Candidates(k, C)
                               \ (SplitOf(k) \cup {HomeOf(k, PartsOf(k), SplitOf(k), C)})]
  OBVIOUS
<1>2. v \in MovesOf(k)
  BY <1>1 DEF MovesOf, Moves
<1> QED BY <1>1, <1>2

\* Moves are told apart by their components.
LEMMA MovesApart ==
  ASSUME NEW k, NEW v \in MovesOf(k), NEW w \in MovesOf(k), v.part = w.part
  PROVE  v = w
<1>1. \A u \in MovesOf(k) :
        u = [part |-> u.part, home |-> Home(k, u.part),
             lost |-> Candidates(k, u.part) \ (SplitOf(k) \cup {Home(k, u.part)})]
  BY DEF MovesOf, Moves, Home
<1> QED BY <1>1

\* The group of a component is not merged into another one.
LEMMA HomeKept ==
  ASSUME NEW k \in Catalog, RefsLive(k), NEW v \in MovesOf(k), NEW w \in MovesOf(k)
  PROVE  v.home \notin w.lost
<1>1. SUFFICES ASSUME v.home \in w.lost PROVE FALSE
  OBVIOUS
<1>2. v.home \in Candidates(k, w.part) \ SplitOf(k) /\ v.home # w.home
  BY <1>1, MovesFacts
<1>3. v.home \in DOMAIN k.ids /\ v.home \in 1..Len(k.ids)
  BY <1>2, CandidatesLive, LiveInIds, MovesFacts
<1>4. v.home \in Candidates(k, v.part)
  BY <1>3, Homes, MovesFacts, LenIds, HomelessFinite
<1>5. v.part = w.part
  BY <1>2, <1>3, <1>4, MovesFacts DEF SplitOf, Split
<1> QED BY <1>2, <1>5, MovesFacts

---------------------------------------------------------------------------
(* Public ids *)

\* The groups that live afterwards.
LiveAfter(k) ==
  {g \in 1..(Len(k.ids) + NewOf(k)) : IdsAfter(k, MovesOf(k), NewOf(k))[g] = g}

LEMMA IdsAfterFacts ==
  ASSUME NEW k \in Catalog
  PROVE  LET a == IdsAfter(k, MovesOf(k), NewOf(k))
         IN  /\ DOMAIN a = 1..(Len(k.ids) + NewOf(k))
             /\ \A v \in DOMAIN a : a[v] = IF v \in DOMAIN k.ids
                                           THEN MovedGroup(MovesOf(k), k.ids[v]) ELSE v
             /\ DOMAIN k.ids \subseteq DOMAIN a
  BY LenIds, HomelessFinite DEF IdsAfter

LEMMA HomesLive ==
  ASSUME NEW k \in Catalog, RefsLive(k), NEW v \in MovesOf(k)
  PROVE  v.home \in LiveAfter(k)
<1>1. CASE v.part \in HomelessOf(k)
  <2>1. v.home \in 1..(Len(k.ids) + NewOf(k)) /\ v.home \notin DOMAIN k.ids
    BY <1>1, MovesFacts, Homes, LenIds, HomelessFinite
  <2> QED BY <2>1, IdsAfterFacts DEF LiveAfter
<1>2. CASE v.part \notin HomelessOf(k)
  <2>1. v.home \in Live(k)
    BY <1>2, MovesFacts, Homes
  <2>2. MovedGroup(MovesOf(k), v.home) = v.home
    BY HomeKept DEF MovedGroup
  <2>3. v.home \in 1..(Len(k.ids) + NewOf(k)) /\ v.home \in DOMAIN k.ids /\ k.ids[v.home] = v.home
    BY <2>1, LenIds, HomelessFinite DEF Live
  <2> QED BY <2>2, <2>3, IdsAfterFacts DEF LiveAfter
<1> QED BY <1>1, <1>2

\* Where a group that lives leads to lives.
LEMMA MovedLive ==
  ASSUME NEW k \in Catalog, RefsLive(k), NEW g \in Live(k)
  PROVE  MovedGroup(MovesOf(k), g) \in LiveAfter(k)
<1>1. CASE \E v \in MovesOf(k) : g \in v.lost
  <2>1. \E v \in MovesOf(k) : MovedGroup(MovesOf(k), g) = v.home
    BY <1>1 DEF MovedGroup
  <2> QED BY <2>1, HomesLive
<1>2. CASE ~ \E v \in MovesOf(k) : g \in v.lost
  <2>1. MovedGroup(MovesOf(k), g) = g
    BY <1>2 DEF MovedGroup
  <2>2. g \in 1..(Len(k.ids) + NewOf(k)) /\ g \in DOMAIN k.ids /\ k.ids[g] = g
    BY LenIds, HomelessFinite DEF Live
  <2> QED BY <2>1, <2>2, IdsAfterFacts DEF LiveAfter
<1> QED BY <1>1, <1>2

\* Ids keep their meaning when the groups are made again.
LEMMA RebuiltRegroups ==
  ASSUME NEW k \in Catalog, RefsLive(k)
  PROVE  LET a == IdsAfter(k, MovesOf(k), NewOf(k))
         IN  /\ DOMAIN k.ids \subseteq DOMAIN a
             /\ \A v \in DOMAIN a : a[v] \in LiveAfter(k)
             /\ \A v \in DOMAIN a : a[v] \in DOMAIN a /\ a[a[v]] = a[v]
             /\ \A v \in DOMAIN k.ids : a[v] = a[k.ids[v]]
<1> DEFINE a == IdsAfter(k, MovesOf(k), NewOf(k))
<1>1. /\ DOMAIN a = 1..(Len(k.ids) + NewOf(k)) /\ DOMAIN k.ids \subseteq DOMAIN a
      /\ \A v \in DOMAIN a : a[v] = IF v \in DOMAIN k.ids
                                    THEN MovedGroup(MovesOf(k), k.ids[v]) ELSE v
  BY IdsAfterFacts
<1>2. ASSUME NEW v \in DOMAIN a PROVE a[v] \in LiveAfter(k)
  <2>1. CASE v \in DOMAIN k.ids
    BY <1>1, <2>1, MovedLive DEF RefsLive
  <2>2. CASE v \notin DOMAIN k.ids
    BY <1>1, <2>2 DEF LiveAfter
  <2> QED BY <2>1, <2>2
<1>3. \A v \in DOMAIN a : a[v] \in DOMAIN a /\ a[a[v]] = a[v]
  BY <1>1, <1>2 DEF LiveAfter
<1>4. ASSUME NEW v \in DOMAIN k.ids PROVE a[v] = a[k.ids[v]]
  <2>1. k.ids[v] \in DOMAIN k.ids /\ k.ids[k.ids[v]] = k.ids[v]
    BY DEF RefsLive, Live
  <2> QED BY <1>1, <2>1
<1> QED BY <1>1, <1>2, <1>3, <1>4

---------------------------------------------------------------------------
(* What rebuild_media_groups makes of a catalog *)

\* Items that share an alias are in the group the alias leads to.
TagsShare(k) == \A m \in Active(k) : \A a \in k.tags[m] : k.group[m] = k.claims[a]

\* Groups with two items of a server are marked.
MarkedApart(k) ==
  \A m, n \in Active(k) :
    m # n /\ HostOf[m] = HostOf[n] /\ k.group[m] = k.group[n] => k.group[m] \in k.ambiguous

\* Routes lead to a member of their group on the server of their source.
RoutesMeet(k) ==
  \A r \in k.routes : k.group[r.member] = r.group /\ HostOf[r.member] = HostOf[r.source]

\* Sightings stay between the fence of their source and what their tags are of.
Fenced(k) ==
  \A s \in Source, m \in Mapping :
    k.seen[s][m] # 0 => /\ k.source[s] # Absent
                        /\ k.source[s] <= k.seen[s][m]
                        /\ k.seen[s][m] <= k.tagged[m]

LEMMA RebuiltFields ==
  ASSUME NEW k \in Catalog, NEW j, j = Rebuilt(k)
  PROVE  /\ j.source = k.source /\ j.listed = k.listed /\ j.seen = k.seen
         /\ j.tagged = k.tagged /\ j.tags = k.tags /\ j.routed = k.routed
         /\ \A m \in Mapping : j.group[m] = GroupAfter(k, MovesOf(k), m)
         /\ j.ids = IdsAfter(k, MovesOf(k), NewOf(k))
         /\ j.ambiguous = AmbiguousAfter(k, MovesOf(k), SplitOf(k))
         /\ j.published = PublishedAfter(k, MovesOf(k))
         /\ \A a \in Alias : j.claims[a] = ClaimAfter(k, MovesOf(k), a)
         /\ j.routes = KeptRoutes(k, MovesOf(k))
         /\ Active(j) = Active(k)
<1>1. j = [k EXCEPT
             !.group = [m \in Mapping |-> GroupAfter(k, MovesOf(k), m)],
             !.ids = IdsAfter(k, MovesOf(k), NewOf(k)),
             !.ambiguous = AmbiguousAfter(k, MovesOf(k), SplitOf(k)),
             !.published = PublishedAfter(k, MovesOf(k)),
             !.claims = [a \in Alias |-> ClaimAfter(k, MovesOf(k), a)],
             !.routes = KeptRoutes(k, MovesOf(k))]
  BY DEF Rebuilt, PartsOf, SplitOf, MovesOf, HomelessOf, NewOf
<1>2. /\ j.source = k.source /\ j.listed = k.listed /\ j.seen = k.seen
      /\ j.tagged = k.tagged /\ j.tags = k.tags /\ j.routed = k.routed
  BY <1>1 DEF Catalog
<1>3. Active(j) = Active(k)
  BY <1>2 DEF Active, Sighted
<1> QED BY <1>1, <1>2, <1>3 DEF Catalog

\* Only groups, ids, marks, claims and routes are made again.
LEMMA RebuiltTyped ==
  ASSUME NEW k \in Catalog, NEW j, j = Rebuilt(k),
         j.group \in [Mapping -> Nat], j.ids \in Seq(Nat \ {0}),
         j.ambiguous \subseteq Nat \ {0}, j.published \subseteq Nat \ {0},
         j.claims \in [Alias -> Nat], j.routes \subseteq k.routes
  PROVE  j \in Catalog
<1>1. PICK group, ids, ambiguous, published, claims, routes :
        j = [k EXCEPT !.group = group, !.ids = ids, !.ambiguous = ambiguous,
                      !.published = published, !.claims = claims, !.routes = routes]
  BY DEF Rebuilt
<1> QED BY <1>1 DEF Catalog

\* The groups and claims are functions.
LEMMA RebuiltFunctions ==
  ASSUME NEW k \in Catalog, NEW j, j = Rebuilt(k),
         \A m \in Mapping : j.group[m] \in Nat, \A a \in Alias : j.claims[a] \in Nat
  PROVE  j.group \in [Mapping -> Nat] /\ j.claims \in [Alias -> Nat]
<1>1. PICK group : group = [m \in Mapping |-> GroupAfter(k, MovesOf(k), m)]
  OBVIOUS
<1>2. PICK claims : claims = [a \in Alias |-> ClaimAfter(k, MovesOf(k), a)]
  OBVIOUS
<1>3. j = [k EXCEPT
             !.group = group,
             !.ids = IdsAfter(k, MovesOf(k), NewOf(k)),
             !.ambiguous = AmbiguousAfter(k, MovesOf(k), SplitOf(k)),
             !.published = PublishedAfter(k, MovesOf(k)),
             !.claims = claims,
             !.routes = KeptRoutes(k, MovesOf(k))]
  BY <1>1, <1>2 DEF Rebuilt, PartsOf, SplitOf, MovesOf, HomelessOf, NewOf
<1>4. j.group = group /\ j.claims = claims
  BY <1>3 DEF Catalog
<1>5. \A m \in Mapping : group[m] \in Nat
  BY <1>4
<1>6. \A a \in Alias : claims[a] \in Nat
  BY <1>4
<1>7. group \in [Mapping -> Nat]
  BY <1>1, <1>5
<1>8. claims \in [Alias -> Nat]
  BY <1>2, <1>6
<1> QED BY <1>4, <1>7, <1>8

LEMMA RebuiltLive ==
  ASSUME NEW k \in Catalog, RefsLive(k), NEW j, j = Rebuilt(k)
  PROVE  Live(j) = LiveAfter(k) /\ LiveAfter(k) \subseteq Nat \ {0}
<1>1. j.ids = IdsAfter(k, MovesOf(k), NewOf(k))
  BY RebuiltFields
<1>2. DOMAIN j.ids = 1..(Len(k.ids) + NewOf(k))
  BY <1>1, IdsAfterFacts
<1> QED BY <1>1, <1>2, LenIds, HomelessFinite DEF Live, LiveAfter

\* The member of a component is in its group, and in no other component.
LEMMA PlacedOnce ==
  ASSUME NEW k \in Catalog, NEW v \in MovesOf(k), NEW m \in v.part
  PROVE  /\ GroupAfter(k, MovesOf(k), m) = v.home
         /\ \A a \in k.tags[m] : ClaimAfter(k, MovesOf(k), a) = v.home
<1>1. \A w \in MovesOf(k) : w.part \in PartsOf(k)
  BY MovesFacts
<1>2. \A w \in MovesOf(k) : m \in w.part => w = v
  <2>1. SUFFICES ASSUME NEW w \in MovesOf(k), m \in w.part PROVE w = v
    OBVIOUS
  <2>2. w.part = v.part
    BY <1>1, <2>1, PartsFacts
  <2> QED BY <2>2, MovesApart
<1>3. GroupAfter(k, MovesOf(k), m) = v.home
  BY <1>2 DEF GroupAfter
<1>4. ASSUME NEW a \in k.tags[m] PROVE ClaimAfter(k, MovesOf(k), a) = v.home
  <2>1. a \in AllTags(k, v.part)
    BY DEF AllTags
  <2>2. \A w \in MovesOf(k) : a \in AllTags(k, w.part) => w = v
    <3>1. SUFFICES ASSUME NEW w \in MovesOf(k), a \in AllTags(k, w.part) PROVE w = v
      OBVIOUS
    <3>2. w.part = v.part
      BY <1>1, <2>1, <3>1, PartsFacts
    <3> QED BY <3>2, MovesApart
  <2> QED BY <2>1, <2>2 DEF ClaimAfter
<1> QED BY <1>3, <1>4

LEMMA ActivePlaced ==
  ASSUME NEW k \in Catalog, NEW m \in Active(k)
  PROVE  \E v \in MovesOf(k) : m \in v.part
<1>1. PICK C \in PartsOf(k) : m \in C
  BY PartsFacts
<1> QED BY <1>1, MoveOfPart

\* Items that share an alias share their group afterwards.
LEMMA RebuiltShares ==
  ASSUME NEW k \in Catalog, NEW j, j = Rebuilt(k)
  PROVE  TagsShare(j)
<1>1. SUFFICES ASSUME NEW m \in Active(j), NEW a \in j.tags[m] PROVE j.group[m] = j.claims[a]
  BY DEF TagsShare
<1>2. m \in Active(k) /\ a \in k.tags[m]
  BY <1>1, RebuiltFields
<1>3. m \in Mapping /\ a \in Alias
  BY <1>2 DEF Active, Sighted, Catalog
<1>4. j.group[m] = GroupAfter(k, MovesOf(k), m) /\ j.claims[a] = ClaimAfter(k, MovesOf(k), a)
  BY <1>3, RebuiltFields
<1>5. PICK v \in MovesOf(k) : m \in v.part
  BY <1>2, ActivePlaced
<1> QED BY <1>2, <1>4, <1>5, PlacedOnce

\* Two items of one server are not offered under one id.
LEMMA RebuiltMarks ==
  ASSUME NEW k \in Catalog, RefsLive(k), NEW j, j = Rebuilt(k)
  PROVE  MarkedApart(j)
<1>1. SUFFICES ASSUME NEW m \in Active(j), NEW n \in Active(j),
                      m # n, HostOf[m] = HostOf[n], j.group[m] = j.group[n]
               PROVE  j.group[m] \in j.ambiguous
  BY DEF MarkedApart
<1>2. m \in Active(k) /\ n \in Active(k) /\ m \in Mapping /\ n \in Mapping
  BY <1>1, RebuiltFields DEF Active, Sighted
<1>3. PICK v \in MovesOf(k), w \in MovesOf(k) : m \in v.part /\ n \in w.part
  BY <1>2, ActivePlaced
<1>4. j.group[m] = v.home /\ j.group[n] = w.home
  BY <1>2, <1>3, PlacedOnce, RebuiltFields
<1>5. v.part = w.part
  <2>1. Home(k, v.part) = Home(k, w.part) /\ v.part \in PartsOf(k) /\ w.part \in PartsOf(k)
    BY <1>1, <1>4, MovesFacts
  <2> QED BY <2>1, HomesApart
<1>6. v \in {u \in MovesOf(k) : SameHost(u.part)}
  BY <1>1, <1>3, <1>5 DEF SameHost
<1>7. v.home \notin UNION {u.lost : u \in MovesOf(k)}
  BY HomeKept
<1>8. v.home \in AmbiguousAfter(k, MovesOf(k), SplitOf(k))
  BY <1>6, <1>7 DEF AmbiguousAfter
<1> QED BY <1>4, <1>8, RebuiltFields

\* What leads nowhere still does.
LEMMA MovedNone ==
  ASSUME NEW k \in Catalog
  PROVE  MovedGroup(MovesOf(k), 0) = 0
  BY MovesFacts DEF MovedGroup, Candidates

\* Members and aliases lead to groups that live afterwards.
LEMMA RebuiltRefs ==
  ASSUME NEW k \in Catalog, RefsLive(k), NEW j, j = Rebuilt(k)
  PROVE  RefsLive(j)
<1>1. Live(j) = LiveAfter(k)
  BY RebuiltLive
<1>2. ASSUME NEW m \in Mapping PROVE j.group[m] \in Live(j) \cup {0}
  <2>1. j.group[m] = GroupAfter(k, MovesOf(k), m)
    BY RebuiltFields
  <2>2. CASE \E v \in MovesOf(k) : m \in v.part
    BY <1>1, <2>1, <2>2, PlacedOnce, HomesLive
  <2>3. CASE ~ \E v \in MovesOf(k) : m \in v.part
    <3>1. j.group[m] = 0 \/ j.group[m] = MovedGroup(MovesOf(k), k.group[m])
      BY <2>1, <2>3 DEF GroupAfter
    <3>2. k.group[m] \in Live(k) \/ k.group[m] = 0
      BY DEF RefsLive
    <3> QED BY <1>1, <3>1, <3>2, MovedLive, MovedNone
  <2> QED BY <2>2, <2>3
<1>3. ASSUME NEW a \in Alias PROVE j.claims[a] \in Live(j) \cup {0}
  <2>1. j.claims[a] = ClaimAfter(k, MovesOf(k), a)
    BY RebuiltFields
  <2>2. CASE \E v \in MovesOf(k) : a \in AllTags(k, v.part)
    <3>1. \E v \in MovesOf(k) : j.claims[a] = v.home
      BY <2>1, <2>2 DEF ClaimAfter
    <3> QED BY <1>1, <3>1, HomesLive
  <2>3. CASE ~ \E v \in MovesOf(k) : a \in AllTags(k, v.part)
    <3>1. \/ j.claims[a] = 0
          \/ /\ j.claims[a] = k.claims[a]
             /\ \A v \in MovesOf(k) : k.claims[a] \notin Candidates(k, v.part)
      BY <2>1, <2>3 DEF ClaimAfter
    <3>2. CASE j.claims[a] # 0
      <4>1. MovedGroup(MovesOf(k), k.claims[a]) = k.claims[a]
        BY <3>1, <3>2, MovesFacts DEF MovedGroup
      <4>2. k.claims[a] \in Live(k)
        BY <3>1, <3>2 DEF RefsLive
      <4> QED BY <1>1, <3>1, <3>2, <4>1, <4>2, MovedLive
    <3> QED BY <3>2
  <2> QED BY <2>2, <2>3
<1>4. \A v \in DOMAIN j.ids : j.ids[v] \in Live(j)
  BY <1>1, RebuiltFields, RebuiltRegroups
<1> QED BY <1>2, <1>3, <1>4 DEF RefsLive

\* A route that is kept leads to the same member of the same group.
LEMMA RebuiltRoutes ==
  ASSUME NEW k \in Catalog, RoutesMeet(k), NEW j, j = Rebuilt(k)
  PROVE  RoutesMeet(j)
<1>1. SUFFICES ASSUME NEW r \in j.routes
               PROVE  j.group[r.member] = r.group /\ HostOf[r.member] = HostOf[r.source]
  BY DEF RoutesMeet
<1>2. PICK m : m = r.member
  OBVIOUS
<1>3. /\ r \in k.routes /\ m \notin Untagged(k)
      /\ \A v \in MovesOf(k) : (m \in v.part => k.group[m] = v.home) /\ r.group \notin v.lost
  BY <1>2, RebuiltFields DEF KeptRoutes
<1>4. m \in Mapping /\ k.group[m] = r.group /\ HostOf[m] = HostOf[r.source]
  BY <1>2, <1>3 DEF RoutesMeet, Catalog
<1>5. j.group[m] = GroupAfter(k, MovesOf(k), m)
  BY <1>4, RebuiltFields
<1>6. CASE \E v \in MovesOf(k) : m \in v.part
  BY <1>2, <1>3, <1>4, <1>5, <1>6, PlacedOnce
<1>7. CASE ~ \E v \in MovesOf(k) : m \in v.part
  <2>1. j.group[m] = MovedGroup(MovesOf(k), k.group[m])
    BY <1>3, <1>5, <1>7 DEF GroupAfter
  <2>2. MovedGroup(MovesOf(k), r.group) = r.group
    BY <1>3 DEF MovedGroup
  <2> QED BY <1>2, <1>4, <2>1, <2>2
<1> QED BY <1>6, <1>7

\* What the groups become is a catalog.
LEMMA RebuiltType ==
  ASSUME NEW k \in Catalog, RefsLive(k), NEW j, j = Rebuilt(k)
  PROVE  j \in Catalog
<1>1. RefsLive(j) /\ Live(j) \subseteq Nat \ {0}
  BY RebuiltRefs, RebuiltLive
<1>2. j.group \in [Mapping -> Nat] /\ j.claims \in [Alias -> Nat]
  BY <1>1, RebuiltFunctions DEF RefsLive
<1>3. j.ids \in Seq(Nat \ {0})
  <2>1. PICK n : n = Len(k.ids) + NewOf(k)
    OBVIOUS
  <2>2. n \in Nat
    BY <2>1, LenIds, HomelessFinite
  <2>3. \A v \in 1..n : j.ids[v] \in Nat \ {0}
    BY <1>1, <2>1, RebuiltFields, IdsAfterFacts DEF RefsLive
  <2>4. PICK x : x = j.ids
    OBVIOUS
  <2>5. x = [v \in 1..n |-> IF v \in DOMAIN k.ids THEN MovedGroup(MovesOf(k), k.ids[v]) ELSE v]
    BY <2>1, <2>4, RebuiltFields DEF IdsAfter
  <2>6. x \in [1..n -> Nat \ {0}]
    BY <2>3, <2>4, <2>5
  <2> QED BY <2>2, <2>4, <2>6
<1>4. \A v \in MovesOf(k) : v.home \in Nat \ {0}
  BY HomesLive, RebuiltLive
<1>5. SplitOf(k) \subseteq Nat \ {0}
  <2>1. SplitOf(k) \subseteq DOMAIN k.ids
    BY DEF SplitOf, Split
  <2> QED BY <2>1, LenIds
<1>6. j.ambiguous \subseteq Nat \ {0}
  <2>1. k.ambiguous \subseteq Nat \ {0}
    BY DEF Catalog
  <2>2. {v.home : v \in {w \in MovesOf(k) : SameHost(w.part)}} \subseteq Nat \ {0}
    BY <1>4
  <2> QED BY <1>5, <2>1, <2>2, RebuiltFields DEF AmbiguousAfter
<1>7. j.published \subseteq Nat \ {0}
  <2>1. k.published \subseteq Nat \ {0}
    BY DEF Catalog
  <2>2. {v.home : v \in {w \in MovesOf(k) : ~SameHost(w.part) /\ ManyHosts(w.part)}}
          \subseteq Nat \ {0}
    BY <1>4
  <2> QED BY <2>1, <2>2, RebuiltFields DEF PublishedAfter
<1>8. j.routes \subseteq k.routes
  BY RebuiltFields DEF KeptRoutes
<1> QED BY <1>2, <1>3, <1>6, <1>7, <1>8, RebuiltTyped

---------------------------------------------------------------------------
(* What a response stores *)

\* The items that are reported are of the source's server.
LEMMA ItemsFacts ==
  ASSUME NEW resp \in Responses, NEW s \in Source, resp[s] # None
  PROVE  /\ Items(resp, s) \subseteq Mapping
         /\ \A m \in Items(resp, s) : resp[s].items[m] \in SUBSET Alias /\ HostOf[m] = HostOf[s]
<1>1. PICK r : r = resp[s].items
  OBVIOUS
<1>2. r \in Answers[s]
  BY <1>1 DEF Responses
<1>3. PICK I \in SUBSET Mapping : r \in [I -> SUBSET Alias]
  BY <1>2, AnswersAssumption
<1>4. DOMAIN r = I /\ \A m \in I : r[m] \in SUBSET Alias
  BY <1>3
<1>5. \A m \in DOMAIN r : HostOf[m] = HostOf[s]
  BY <1>2, AnswersAssumption
<1> QED BY <1>1, <1>4, <1>5 DEF Items

LEMMA ReportedType ==
  ASSUME NEW resp \in Responses, NEW k, NEW g, NEW m \in Mapping
  PROVE  ReportedTags(resp, Accepted(k, g, resp), m) \in SUBSET Alias
<1>1. ASSUME NEW s \in Accepted(k, g, resp), m \in Items(resp, s)
      PROVE  resp[s].items[m] \in SUBSET Alias
  BY <1>1, ItemsFacts DEF Accepted
<1> QED BY <1>1 DEF ReportedTags

\* The tables after a response of generation g.
LEMMA StoredFields ==
  ASSUME NEW k \in Catalog, NEW g \in 1..MaxClock, NEW resp \in Responses, NEW all \in BOOLEAN,
         NEW j, j = Stored(k, g, resp, all)
  PROVE  /\ j.routed = k.routed /\ j.group = k.group /\ j.ids = k.ids
         /\ j.ambiguous = k.ambiguous /\ j.published = k.published
         /\ j.claims = k.claims /\ j.routes = k.routes
         /\ j.listed = IF all /\ g > k.listed THEN g ELSE k.listed
         /\ \A s \in Source : j.source[s] =
              IF s \in Delisted(k, g, resp, all) THEN Absent
              ELSE IF s \notin Accepted(k, g, resp) THEN k.source[s]
              ELSE IF resp[s].complete THEN g
              ELSE IF k.source[s] = Absent THEN 0 ELSE k.source[s]
         /\ \A s \in Source, m \in Mapping : j.seen[s][m] =
              IF s \in Delisted(k, g, resp, all) THEN 0
              ELSE IF s \in Accepted(k, g, resp) THEN Sighting(k, g, resp, s, m)
              ELSE k.seen[s][m]
         /\ \A m \in Mapping : j.tagged[m] =
              IF /\ \E s \in Accepted(k, g, resp) : m \in Items(resp, s)
                 /\ k.tagged[m] < g
              THEN g ELSE k.tagged[m]
         /\ \A m \in Mapping :
              j.tags[m] \in {k.tags[m], ReportedTags(resp, Accepted(k, g, resp), m)}
<1>1. \A m \in Mapping :
        m \in {n \in UNION {Items(resp, s) : s \in Accepted(k, g, resp)} : k.tagged[n] < g}
          <=> (\E s \in Accepted(k, g, resp) : m \in Items(resp, s)) /\ k.tagged[m] < g
  OBVIOUS
<1>2. PICK retag :
        retag = {n \in UNION {Items(resp, s) : s \in Accepted(k, g, resp)} : k.tagged[n] < g}
  OBVIOUS
<1>3. PICK source : source = [s \in Source |->
              IF s \in Delisted(k, g, resp, all) THEN Absent
              ELSE IF s \notin Accepted(k, g, resp) THEN k.source[s]
              ELSE IF resp[s].complete THEN g
              ELSE IF k.source[s] = Absent THEN 0 ELSE k.source[s]]
  OBVIOUS
<1>4. PICK seen : seen = [s \in Source |-> [m \in Mapping |->
              IF s \in Delisted(k, g, resp, all) THEN 0
              ELSE IF s \in Accepted(k, g, resp) THEN Sighting(k, g, resp, s, m)
              ELSE k.seen[s][m]]]
  OBVIOUS
<1>5. PICK tagged : tagged = [m \in Mapping |-> IF m \in retag THEN g ELSE k.tagged[m]]
  OBVIOUS
<1>6. PICK tags : tags = [m \in Mapping |->
              IF m \in retag THEN ReportedTags(resp, Accepted(k, g, resp), m) ELSE k.tags[m]]
  OBVIOUS
<1>7. j = [k EXCEPT !.source = source, !.seen = seen,
                    !.listed = IF all /\ g > @ THEN g ELSE @,
                    !.tagged = tagged, !.tags = tags]
  BY <1>2, <1>3, <1>4, <1>5, <1>6 DEF Stored
<1>8. /\ j.source = source /\ j.seen = seen /\ j.tagged = tagged /\ j.tags = tags
      /\ j.routed = k.routed /\ j.group = k.group /\ j.ids = k.ids
      /\ j.ambiguous = k.ambiguous /\ j.published = k.published
      /\ j.claims = k.claims /\ j.routes = k.routes
      /\ j.listed = IF all /\ g > k.listed THEN g ELSE k.listed
  BY <1>7 DEF Catalog
<1> QED BY <1>1, <1>2, <1>3, <1>4, <1>5, <1>6, <1>8

LEMMA StoredType ==
  ASSUME NEW k \in Catalog, NEW g \in 1..MaxClock, NEW resp \in Responses, NEW all \in BOOLEAN,
         NEW j, j = Stored(k, g, resp, all)
  PROVE  j \in Catalog
<1>1. /\ \A s \in Source : k.source[s] \in {Absent} \cup 0..MaxClock
      /\ \A s \in Source, m \in Mapping : k.seen[s][m] \in 0..MaxClock
      /\ \A m \in Mapping : k.tagged[m] \in 0..MaxClock /\ k.tags[m] \in SUBSET Alias
      /\ k.listed \in 0..MaxClock
  BY DEF Catalog
<1>2. ASSUME NEW s \in Source PROVE j.source[s] \in {Absent} \cup 0..MaxClock
  <2>1. j.source[s] \in {Absent, k.source[s], g, 0}
    BY StoredFields
  <2> QED BY <1>1, <2>1, ClockAssumption
<1>3. ASSUME NEW s \in Source, NEW m \in Mapping PROVE j.seen[s][m] \in 0..MaxClock
  <2>1. Sighting(k, g, resp, s, m) \in {0, g, k.seen[s][m]}
    BY DEF Sighting
  <2>2. j.seen[s][m] \in {0, g, k.seen[s][m]}
    BY <2>1, StoredFields
  <2> QED BY <1>1, <2>2, ClockAssumption
<1>4. ASSUME NEW m \in Mapping PROVE j.tagged[m] \in 0..MaxClock
  BY <1>1, StoredFields
<1>5. ASSUME NEW m \in Mapping PROVE j.tags[m] \in SUBSET Alias
  <2>1. j.tags[m] \in {k.tags[m], ReportedTags(resp, Accepted(k, g, resp), m)}
    BY StoredFields
  <2> QED BY <1>1, <2>1, ReportedType
<1>6. j.listed \in 0..MaxClock
  BY <1>1, StoredFields
<1> DEFINE removed == Delisted(k, g, resp, all)
           fresh == Accepted(k, g, resp)
<1>7. PICK source : source = [s \in Source |->
          IF s \in removed THEN Absent
          ELSE IF s \notin fresh THEN k.source[s]
          ELSE IF resp[s].complete THEN g
          ELSE IF k.source[s] = Absent THEN 0 ELSE k.source[s]]
  OBVIOUS
<1>8. PICK seen : seen = [s \in Source |-> [m \in Mapping |->
          IF s \in removed THEN 0
          ELSE IF s \in fresh THEN Sighting(k, g, resp, s, m) ELSE k.seen[s][m]]]
  OBVIOUS
<1>9. PICK retag : retag = {m \in UNION {Items(resp, s) : s \in fresh} : k.tagged[m] < g}
  OBVIOUS
<1>10. PICK tagged : tagged = [m \in Mapping |-> IF m \in retag THEN g ELSE k.tagged[m]]
  OBVIOUS
<1>11. PICK tags : tags = [m \in Mapping |->
          IF m \in retag THEN ReportedTags(resp, fresh, m) ELSE k.tags[m]]
  OBVIOUS
<1>12. j = [k EXCEPT !.source = source, !.seen = seen,
                     !.listed = IF all /\ g > @ THEN g ELSE @,
                     !.tagged = tagged, !.tags = tags]
  BY <1>7, <1>8, <1>9, <1>10, <1>11 DEF Stored
<1>13. j.source = source /\ j.seen = seen /\ j.tagged = tagged /\ j.tags = tags
  BY <1>12 DEF Catalog
<1> HIDE DEF removed, fresh
<1>14. source \in [Source -> {Absent} \cup 0..MaxClock]
  BY <1>2, <1>7, <1>13
<1>15. seen \in [Source -> [Mapping -> 0..MaxClock]]
  BY <1>3, <1>8, <1>13
<1>16. tagged \in [Mapping -> 0..MaxClock] /\ tags \in [Mapping -> SUBSET Alias]
  BY <1>4, <1>5, <1>10, <1>11, <1>13
<1> QED BY <1>6, <1>12, <1>13, <1>14, <1>15, <1>16 DEF Catalog

\* Groups, claims, ids and routes are not touched by what is stored.
LEMMA StoredKeeps ==
  ASSUME NEW k \in Catalog, NEW g \in 1..MaxClock, NEW resp \in Responses, NEW all \in BOOLEAN,
         NEW j, j = Stored(k, g, resp, all), RefsLive(k), RoutesMeet(k)
  PROVE  RefsLive(j) /\ RoutesMeet(j) /\ j.ids = k.ids
<1>1. j.group = k.group /\ j.ids = k.ids /\ j.claims = k.claims /\ j.routes = k.routes
  BY StoredFields
<1> QED BY <1>1 DEF RefsLive, RoutesMeet, Live

\* Fences hold whatever is answered: an inventory is only accepted from behind the fence,
\* a complete one puts the fence and sweeps what is before it.
LEMMA StoredFenced ==
  ASSUME NEW k \in Catalog, NEW g \in 1..MaxClock, NEW resp \in Responses, NEW all \in BOOLEAN,
         NEW j, j = Stored(k, g, resp, all), Fenced(k)
  PROVE  Fenced(j)
<1>1. SUFFICES ASSUME NEW s \in Source, NEW m \in Mapping, j.seen[s][m] # 0
               PROVE  /\ j.source[s] # Absent
                      /\ j.source[s] <= j.seen[s][m]
                      /\ j.seen[s][m] <= j.tagged[m]
  BY DEF Fenced
<1>2. PICK seen, source, tagged, listed :
        seen = k.seen[s][m] /\ source = k.source[s] /\ tagged = k.tagged[m] /\ listed = k.listed
  OBVIOUS
<1>3. PICK seen1, source1, tagged1 :
        seen1 = j.seen[s][m] /\ source1 = j.source[s] /\ tagged1 = j.tagged[m]
  OBVIOUS
<1>4. /\ source \in {Absent} \cup 0..MaxClock /\ seen \in 0..MaxClock
      /\ tagged \in 0..MaxClock /\ listed \in 0..MaxClock
  BY <1>2 DEF Catalog
<1>5. seen # 0 => source # Absent /\ source <= seen /\ seen <= tagged
  BY <1>2 DEF Fenced
<1>6. tagged1 \in {tagged, g} /\ tagged <= tagged1
  BY <1>2, <1>3, <1>4, StoredFields
<1>7. s \notin Delisted(k, g, resp, all)
  BY <1>1, StoredFields
<1>8. CASE s \in Accepted(k, g, resp)
  <2>1. /\ IF source = Absent THEN g > listed ELSE g > source
        /\ resp[s] # None
    BY <1>2, <1>8 DEF Accepted
  <2>2. seen1 = Sighting(k, g, resp, s, m)
    BY <1>3, <1>7, <1>8, StoredFields
  <2>3. source1 = IF resp[s].complete THEN g ELSE IF source = Absent THEN 0 ELSE source
    BY <1>2, <1>3, <1>7, <1>8, StoredFields
  <2>4. CASE m \in Items(resp, s)
    <3>1. seen1 = IF g > seen THEN g ELSE seen
      BY <1>2, <2>2, <2>4 DEF Sighting
    <3>2. tagged1 = IF tagged < g THEN g ELSE tagged
      BY <1>2, <1>3, <1>8, <2>4, StoredFields
    <3>3. source1 # Absent /\ source1 <= g
      BY <1>4, <2>1, <2>3 DEF Absent
    <3>4. source1 <= seen1
      <4>1. source1 \in Int
        BY <1>4, <2>3 DEF Absent
      <4> QED BY <1>4, <3>1, <3>3, <4>1
    <3>5. seen1 <= tagged1
      BY <1>4, <1>5, <3>1, <3>2
    <3> QED BY <1>3, <3>3, <3>4, <3>5
  <2>5. CASE m \notin Items(resp, s)
    <3>1. seen1 = IF resp[s].complete /\ seen <= g THEN 0 ELSE seen
      BY <1>2, <2>2, <2>5 DEF Sighting
    <3>2. seen1 = seen /\ seen # 0 /\ ~(resp[s].complete /\ seen <= g)
      BY <1>1, <1>3, <3>1
    <3>3. source # Absent /\ source <= seen /\ seen <= tagged
      BY <1>5, <3>2
    <3>4. source1 # Absent /\ source1 <= seen
      BY <1>4, <2>3, <3>2, <3>3 DEF Absent
    <3>5. seen <= tagged1
      BY <1>4, <1>6, <3>3
    <3> QED BY <1>3, <3>2, <3>4, <3>5
  <2> QED BY <2>4, <2>5
<1>9. CASE s \notin Accepted(k, g, resp)
  <2>1. seen1 = seen /\ source1 = source
    BY <1>2, <1>3, <1>7, <1>9, StoredFields
  <2> QED BY <1>1, <1>3, <1>4, <1>5, <1>6, <2>1
<1> QED BY <1>8, <1>9

---------------------------------------------------------------------------
(* The rest of what is written *)

\* What holds of a catalog while nobody writes it.
CatalogInv(k) ==
  /\ k \in Catalog
  /\ RefsLive(k)
  /\ Fenced(k)
  /\ TagsShare(k)
  /\ MarkedApart(k)
  /\ RoutesMeet(k)

\* A listing is answered.
LEMMA Answered ==
  ASSUME NEW k, CatalogInv(k), NEW g \in 1..MaxClock, NEW resp \in Responses, NEW all \in BOOLEAN,
         NEW j, j = Rebuilt(Stored(k, g, resp, all))
  PROVE  /\ CatalogInv(j)
         /\ DOMAIN k.ids \subseteq DOMAIN j.ids
         /\ \A v \in DOMAIN j.ids : j.ids[v] \in DOMAIN j.ids /\ j.ids[j.ids[v]] = j.ids[v]
         /\ \A v \in DOMAIN k.ids : j.ids[v] = j.ids[k.ids[v]]
<1>1. PICK i : i = Stored(k, g, resp, all)
  OBVIOUS
<1>2. k \in Catalog /\ RefsLive(k) /\ Fenced(k) /\ RoutesMeet(k)
  BY DEF CatalogInv
<1>3. i \in Catalog /\ RefsLive(i) /\ RoutesMeet(i) /\ Fenced(i) /\ i.ids = k.ids
  BY <1>1, <1>2, StoredType, StoredKeeps, StoredFenced
<1>4. j = Rebuilt(i)
  BY <1>1
<1>5. /\ j \in Catalog /\ RefsLive(j) /\ TagsShare(j)
      /\ MarkedApart(j) /\ RoutesMeet(j)
  BY <1>3, <1>4, RebuiltType, RebuiltRefs, RebuiltShares, RebuiltMarks, RebuiltRoutes
<1>6. Fenced(j)
  <2>1. j.seen = i.seen /\ j.source = i.source /\ j.tagged = i.tagged
    BY <1>3, <1>4, RebuiltFields
  <2> QED BY <1>3, <2>1 DEF Fenced
<1>7. j.ids = IdsAfter(i, MovesOf(i), NewOf(i))
  BY <1>3, <1>4, RebuiltFields
<1> QED BY <1>3, <1>5, <1>6, <1>7, RebuiltRegroups DEF CatalogInv

\* The mappings of a server go.
LEMMA WithoutFields ==
  ASSUME NEW k \in Catalog, NEW v \in Server, NEW j, j = WithoutServer(k, v)
  PROVE  /\ j \in Catalog
         /\ j.listed = k.listed /\ j.ids = k.ids /\ j.ambiguous = k.ambiguous
         /\ j.published = k.published /\ j.claims = k.claims
         /\ j.routes = {r \in k.routes : v \notin {HostOf[r.member], HostOf[r.source]}}
         /\ \A s \in Source : j.source[s] = IF HostOf[s] = v THEN Absent ELSE k.source[s]
         /\ \A s \in Source, m \in Mapping :
              j.seen[s][m] = IF v \in {HostOf[s], HostOf[m]} THEN 0 ELSE k.seen[s][m]
         /\ \A m \in Mapping : j.tagged[m] = IF HostOf[m] = v THEN 0 ELSE k.tagged[m]
         /\ \A m \in Mapping : j.tags[m] = IF HostOf[m] = v THEN {} ELSE k.tags[m]
         /\ \A m \in Mapping : j.group[m] = IF HostOf[m] = v THEN 0 ELSE k.group[m]
<1>1. /\ k.source \in [Source -> {Absent} \cup 0..MaxClock]
      /\ k.seen \in [Source -> [Mapping -> 0..MaxClock]] /\ k.tagged \in [Mapping -> 0..MaxClock]
      /\ k.tags \in [Mapping -> SUBSET Alias] /\ k.routed \in [Mapping -> 0..MaxClock]
      /\ k.group \in [Mapping -> Nat]
  BY DEF Catalog
<1>2. PICK source : source = [s \in Source |-> IF HostOf[s] = v THEN Absent ELSE k.source[s]]
  OBVIOUS
<1>3. PICK seen : seen = [s \in Source |-> [m \in Mapping |->
                    IF v \in {HostOf[s], HostOf[m]} THEN 0 ELSE k.seen[s][m]]]
  OBVIOUS
<1>4. PICK tagged : tagged = [m \in Mapping |-> IF HostOf[m] = v THEN 0 ELSE k.tagged[m]]
  OBVIOUS
<1>5. PICK tags : tags = [m \in Mapping |-> IF HostOf[m] = v THEN {} ELSE k.tags[m]]
  OBVIOUS
<1>6. PICK routed : routed = [m \in Mapping |-> IF HostOf[m] = v THEN 0 ELSE k.routed[m]]
  OBVIOUS
<1>7. PICK group : group = [m \in Mapping |-> IF HostOf[m] = v THEN 0 ELSE k.group[m]]
  OBVIOUS
<1>8. PICK routes : routes = {r \in k.routes : v \notin {HostOf[r.member], HostOf[r.source]}}
  OBVIOUS
<1>9. j = [k EXCEPT !.source = source, !.seen = seen, !.tagged = tagged, !.tags = tags,
                    !.routed = routed, !.group = group, !.routes = routes]
  BY <1>2, <1>3, <1>4, <1>5, <1>6, <1>7, <1>8 DEF WithoutServer
<1>10. /\ j.source = source /\ j.seen = seen /\ j.tagged = tagged /\ j.tags = tags
       /\ j.group = group /\ j.routes = routes
       /\ j.listed = k.listed /\ j.ids = k.ids /\ j.ambiguous = k.ambiguous
       /\ j.published = k.published /\ j.claims = k.claims
  BY <1>9 DEF Catalog
<1>11. source \in [Source -> {Absent} \cup 0..MaxClock]
  BY <1>1, <1>2
<1>12. seen \in [Source -> [Mapping -> 0..MaxClock]]
  BY <1>1, <1>3, ClockAssumption
<1>13. /\ tagged \in [Mapping -> 0..MaxClock] /\ tags \in [Mapping -> SUBSET Alias]
       /\ routed \in [Mapping -> 0..MaxClock] /\ group \in [Mapping -> Nat]
  BY <1>1, <1>4, <1>5, <1>6, <1>7, ClockAssumption
<1>14. routes \subseteq k.routes
  BY <1>8
<1>15. j \in Catalog
  BY ZenonT(60), <1>9, <1>11, <1>12, <1>13, <1>14 DEF Catalog
<1> QED BY <1>2, <1>3, <1>4, <1>5, <1>7, <1>8, <1>10, <1>15

LEMMA WithoutInv ==
  ASSUME NEW k, CatalogInv(k), NEW v \in Server, NEW j, j = WithoutServer(k, v)
  PROVE  CatalogInv(j) /\ j.ids = k.ids
<1>1. /\ k \in Catalog /\ RefsLive(k) /\ Fenced(k) /\ TagsShare(k)
      /\ MarkedApart(k) /\ RoutesMeet(k)
  BY DEF CatalogInv
<1>2. j \in Catalog /\ j.ids = k.ids
  BY <1>1, WithoutFields
<1>3. RefsLive(j)
  <2>1. Live(j) = Live(k)
    BY <1>2 DEF Live
  <2>2. \A m \in Mapping : j.group[m] \in {0, k.group[m]}
    BY <1>1, WithoutFields
  <2>3. j.claims = k.claims
    BY <1>1, WithoutFields
  <2> QED BY <1>1, <1>2, <2>1, <2>2, <2>3 DEF RefsLive
<1>4. Fenced(j)
  <2>1. SUFFICES ASSUME NEW s \in Source, NEW m \in Mapping, j.seen[s][m] # 0
                 PROVE  /\ j.source[s] # Absent
                        /\ j.source[s] <= j.seen[s][m]
                        /\ j.seen[s][m] <= j.tagged[m]
    BY DEF Fenced
  <2>2. v \notin {HostOf[s], HostOf[m]} /\ j.seen[s][m] = k.seen[s][m]
    BY <1>1, <2>1, WithoutFields
  <2>3. j.source[s] = k.source[s] /\ j.tagged[m] = k.tagged[m]
    BY <1>1, <2>2, WithoutFields
  <2> QED BY <1>1, <2>1, <2>2, <2>3 DEF Fenced
<1>5. ASSUME NEW m \in Active(j)
      PROVE  /\ m \in Active(k) /\ m \in Mapping /\ HostOf[m] # v
             /\ j.tags[m] = k.tags[m] /\ j.group[m] = k.group[m]
  <2>1. m \in Mapping /\ j.tags[m] # {}
    BY <1>5 DEF Active, Sighted
  <2>2. HostOf[m] # v /\ j.tags[m] = k.tags[m] /\ j.group[m] = k.group[m]
    BY <1>1, <2>1, WithoutFields
  <2>3. PICK s \in Source : j.seen[s][m] # 0
    BY <1>5 DEF Active, Sighted
  <2>4. k.seen[s][m] # 0
    BY <1>1, <2>1, <2>3, WithoutFields
  <2> QED BY <2>1, <2>2, <2>4 DEF Active, Sighted
<1>6. TagsShare(j)
  <2>1. j.claims = k.claims
    BY <1>1, WithoutFields
  <2> QED BY <1>1, <1>5, <2>1 DEF TagsShare
<1>7. MarkedApart(j)
  <2>1. j.ambiguous = k.ambiguous
    BY <1>1, WithoutFields
  <2> QED BY <1>1, <1>5, <2>1 DEF MarkedApart
<1>8. RoutesMeet(j)
  <2>1. SUFFICES ASSUME NEW r \in j.routes
                 PROVE  j.group[r.member] = r.group /\ HostOf[r.member] = HostOf[r.source]
    BY DEF RoutesMeet
  <2>2. r \in k.routes /\ HostOf[r.member] # v
    BY <1>1, <2>1, WithoutFields
  <2>3. r.member \in Mapping
    BY <1>1, <2>2 DEF Catalog
  <2>4. j.group[r.member] = k.group[r.member]
    BY <1>1, <2>2, <2>3, WithoutFields
  <2> QED BY <1>1, <2>2, <2>4 DEF RoutesMeet
<1> QED BY <1>2, <1>3, <1>4, <1>6, <1>7, <1>8 DEF CatalogInv

\* What the members of a group reported is recorded.
LEMMA RecordedInv ==
  ASSUME NEW k, CatalogInv(k), NEW r \in Asking, StillRecordable(k, r),
         NEW files, \A m \in r.members : files[m] \in Files[m],
         NEW j, j = Recorded(k, r, files)
  PROVE  CatalogInv(j) /\ j.ids = k.ids
<1>0. PICK observed : observed = {[group |-> r.group, source |-> o[2], member |-> o[1]] :
                                    o \in {p \in r.members \X Mapping : p[2] \in files[p[1]]}}
  OBVIOUS
<1>1. /\ k \in Catalog /\ RefsLive(k) /\ Fenced(k) /\ TagsShare(k)
      /\ MarkedApart(k) /\ RoutesMeet(k)
  BY DEF CatalogInv
<1>2. r.members \subseteq Mapping /\ r.group \in Nat \ {0} /\ r.gen \in 1..MaxClock
  BY DEF Asking
<1>3. ASSUME NEW o \in observed
      PROVE  /\ o \in [group : Nat \ {0}, source : Mapping, member : Mapping]
             /\ k.group[o.member] = o.group /\ HostOf[o.member] = HostOf[o.source]
  <2>1. PICK m \in r.members, f \in Mapping :
          f \in files[m] /\ o = [group |-> r.group, source |-> f, member |-> m]
    BY <1>0, <1>3
  <2>2. k.group[m] = r.group
    BY <2>1 DEF StillRecordable
  <2>3. HostOf[f] = HostOf[m]
    BY <1>2, <2>1, FilesAssumption
  <2> QED BY <1>2, <2>1, <2>2, <2>3
<1>4. PICK routes : routes = Rerouted(k.routes, r.group, r.members, observed)
  OBVIOUS
<1>5. routes \subseteq k.routes \cup observed
  BY <1>4 DEF Rerouted
<1>6. PICK routed :
        routed = [m \in Mapping |-> IF m \in r.members THEN r.gen ELSE k.routed[m]]
  OBVIOUS
<1>7. routed \in [Mapping -> 0..MaxClock]
  <2>1. k.routed \in [Mapping -> 0..MaxClock]
    BY <1>1 DEF Catalog
  <2> QED BY <1>2, <1>6, <2>1
<1>8. j = [k EXCEPT !.routed = routed, !.routes = routes]
  BY <1>0, <1>4, <1>6 DEF Recorded
<1>9. /\ j.source = k.source /\ j.seen = k.seen /\ j.tagged = k.tagged /\ j.tags = k.tags
      /\ j.group = k.group /\ j.ids = k.ids /\ j.ambiguous = k.ambiguous
      /\ j.claims = k.claims /\ j.routes = routes
  BY <1>1, <1>8 DEF Catalog
<1>10. j \in Catalog
  <2>1. routes \subseteq [group : Nat \ {0}, source : Mapping, member : Mapping]
    <3>1. k.routes \subseteq [group : Nat \ {0}, source : Mapping, member : Mapping]
      BY <1>1 DEF Catalog
    <3> QED BY <1>3, <1>5, <3>1
  <2> QED BY <1>1, <1>7, <1>8, <2>1 DEF Catalog
<1>11. RoutesMeet(j)
  BY <1>1, <1>3, <1>5, <1>9 DEF RoutesMeet
<1>12. Active(j) = Active(k)
  BY <1>9 DEF Active, Sighted
<1>13. RefsLive(j)
  BY <1>1, <1>9 DEF RefsLive, Live
<1>14. Fenced(j)
  BY <1>1, <1>9 DEF Fenced
<1>15. TagsShare(j) /\ MarkedApart(j)
  BY <1>1, <1>9, <1>12 DEF TagsShare, MarkedApart
<1> QED BY <1>9, <1>10, <1>11, <1>13, <1>14, <1>15 DEF CatalogInv

---------------------------------------------------------------------------
(* The specification *)

\* The inductive invariant: what a request carries, and what holds of the catalogs.
CatalogsInv == TypeOK /\ \A c \in Scope : CatalogInv(catalog[c])

LEMMA RequestKinds ==
  ASSUME TypeOK, NEW r \in requests
  PROVE  /\ r.kind = "list" => r \in Listing
         /\ r.kind = "details" => r \in Details
         /\ r.kind = "asking" => r \in Asking
         /\ r.scope \in Scope /\ r.gen \in 1..MaxClock
  BY DEF TypeOK, Listing, Details, Asking

LEMMA InitHolds == Init => CatalogsInv
<1> SUFFICES ASSUME Init PROVE CatalogsInv
  OBVIOUS
<1>1. PICK k : k = EmptyCatalog
  OBVIOUS
<1>2. k \in Catalog
  BY <1>1, ClockAssumption DEF EmptyCatalog, Catalog
<1>3. /\ \A m \in Mapping : k.group[m] = 0 /\ k.tags[m] = {}
      /\ \A a \in Alias : k.claims[a] = 0
      /\ k.ids = <<>> /\ k.routes = {}
      /\ \A s \in Source, m \in Mapping : k.seen[s][m] = 0
  BY <1>1 DEF EmptyCatalog
<1>4. Active(k) = {}
  BY <1>3 DEF Active, Sighted
<1>5. CatalogInv(k)
  BY <1>2, <1>3, <1>4 DEF CatalogInv, RefsLive, Fenced, TagsShare, MarkedApart, RoutesMeet
<1>6. \A c \in Scope : catalog[c] = k
  BY <1>1 DEF Init
<1>7. catalog \in [Scope -> Catalog]
  BY <1>1, <1>2 DEF Init
<1> QED BY <1>5, <1>6, <1>7, ClockAssumption DEF Init, TypeOK, CatalogsInv

\* How the ids of one catalog change: not at all, or as the abstract ids do.
IdsStep(before, after) ==
  \/ after = before
  \/ /\ DOMAIN before \subseteq DOMAIN after
     /\ \A v \in DOMAIN after : after[v] \in DOMAIN after /\ after[after[v]] = after[v]
     /\ \A v \in DOMAIN before : after[v] = after[before[v]]

\* A step that writes one catalog.
LEMMA OneWritten ==
  ASSUME CatalogsInv, NEW c \in Scope, NEW j, CatalogInv(j), IdsStep(catalog[c].ids, j.ids),
         catalog' = [catalog EXCEPT ![c] = j]
  PROVE  /\ catalog' \in [Scope -> Catalog]
         /\ \A b \in Scope : CatalogInv(catalog'[b]) /\ IdsStep(catalog[b].ids, catalog'[b].ids)
<1>1. catalog \in [Scope -> Catalog] /\ j \in Catalog
  BY DEF CatalogsInv, TypeOK, CatalogInv
<1>2. \A b \in Scope : catalog'[b] = IF b = c THEN j ELSE catalog[b]
  BY <1>1
<1> QED BY <1>1, <1>2 DEF CatalogsInv, IdsStep

\* The group of an item that is routed.
LEMMA SelectedType ==
  ASSUME TypeOK, NEW c \in Scope, NEW g \in {0} \cup SelectedGroups(c)
  PROVE  g \in Nat
<1>1. CASE g = 0
  BY <1>1
<1>2. CASE g # 0
  <2>1. PICK m \in Mapping : \E o \in RoutesOf(m) : g = o[2].group
    BY <1>2 DEF SelectedGroups, AgreedRoutes
  <2>2. PICK o \in RoutesOf(m) : g = o[2].group
    BY <2>1
  <2>3. o[1] \in Scope /\ o[2] \in catalog[o[1]].routes
    BY DEF RoutesOf
  <2>4. o[2] \in [group : Nat \ {0}, source : Mapping, member : Mapping]
    BY <2>3 DEF TypeOK, Catalog
  <2> QED BY <2>2, <2>4
<1> QED BY <1>1, <1>2

\* What a step preserves and does to the ids.
Stepped ==
  /\ CatalogsInv'
  /\ \A c \in Scope : IdsStep(catalog[c].ids, catalog'[c].ids)

LEMMA BeginStep ==
  ASSUME CatalogsInv, NEW c \in Scope,
         BeginListing(c) \/ \E g \in {0} \cup SelectedGroups(c) : BeginDetails(c, g)
  PROVE  Stepped
<1>1. clock + 1 \in 1..MaxClock
  BY ClockAssumption DEF CatalogsInv, TypeOK, BeginListing, BeginDetails
<1>2. UNCHANGED <<servers, catalog>> /\ clock' = clock + 1
  BY DEF BeginListing, BeginDetails
<1>3. requests' \subseteq Listing \cup Details \cup Asking
  <2>1. CASE BeginListing(c)
    <3>1. [kind |-> "list", gen |-> clock + 1, scope |-> c] \in Listing
      BY <1>1 DEF Listing
    <3> QED BY <2>1, <3>1 DEF CatalogsInv, TypeOK, BeginListing
  <2>2. CASE \E g \in {0} \cup SelectedGroups(c) : BeginDetails(c, g)
    <3>1. PICK g \in {0} \cup SelectedGroups(c) : BeginDetails(c, g)
      BY <2>2
    <3>2. g \in Nat
      BY SelectedType DEF CatalogsInv
    <3>3. [kind |-> "details", gen |-> clock + 1, scope |-> c, group |-> g] \in Details
      BY <1>1, <3>2 DEF Details
    <3> QED BY <3>1, <3>3 DEF CatalogsInv, TypeOK, BeginDetails
  <2> QED BY <2>1, <2>2
<1>4. CatalogsInv'
  BY <1>1, <1>2, <1>3 DEF CatalogsInv, TypeOK
<1> QED BY <1>2, <1>4 DEF Stepped, IdsStep

LEMMA AnswerListingStep ==
  ASSUME CatalogsInv, NEW r \in requests, NEW resp \in Responses, NEW all \in BOOLEAN,
         AnswerListing(r, resp, all)
  PROVE  Stepped
<1>1. r.scope \in Scope /\ r.gen \in 1..MaxClock
  BY RequestKinds DEF CatalogsInv
<1>2. PICK j : j = Rebuilt(Stored(catalog[r.scope], r.gen, resp, all))
  OBVIOUS
<1>3. catalog' = [catalog EXCEPT ![r.scope] = j]
  BY <1>2 DEF AnswerListing
<1>4. CatalogInv(j) /\ IdsStep(catalog[r.scope].ids, j.ids)
  <2>1. CatalogInv(catalog[r.scope])
    BY <1>1 DEF CatalogsInv
  <2> QED BY <1>1, <1>2, <2>1, Answered DEF IdsStep
<1>5. /\ catalog' \in [Scope -> Catalog]
      /\ \A b \in Scope : CatalogInv(catalog'[b]) /\ IdsStep(catalog[b].ids, catalog'[b].ids)
  BY <1>1, <1>3, <1>4, OneWritten
<1>6. servers' = servers /\ clock' = clock /\ requests' \subseteq requests
  BY DEF AnswerListing
<1> QED BY <1>5, <1>6 DEF Stepped, CatalogsInv, TypeOK

LEMMA AskMembersStep ==
  ASSUME CatalogsInv, NEW r \in requests, NEW g \in Live(catalog[r.scope]),
         NEW members \in SUBSET Mapping, AskMembers(r, g, members)
  PROVE  Stepped
<1>1. r.scope \in Scope /\ r.gen \in 1..MaxClock
  BY RequestKinds DEF CatalogsInv
<1>2. g \in Nat \ {0}
  <2>1. catalog[r.scope] \in Catalog
    BY <1>1 DEF CatalogsInv, TypeOK
  <2> QED BY <2>1, LenIds DEF Live
<1>3. [kind |-> "asking", gen |-> r.gen, scope |-> r.scope, group |-> g, members |-> members]
        \in Asking
  BY <1>1, <1>2 DEF Asking
<1>4. UNCHANGED <<servers, clock, catalog>>
  BY DEF AskMembers
<1>5. requests' \subseteq Listing \cup Details \cup Asking
  BY <1>3 DEF AskMembers, CatalogsInv, TypeOK
<1> QED BY <1>4, <1>5 DEF Stepped, CatalogsInv, TypeOK, IdsStep

LEMMA AnswerDetailsStep ==
  ASSUME CatalogsInv, NEW r \in requests, r.kind = "asking", NEW files,
         \A m \in r.members : files[m] \in Files[m], AnswerDetails(r, files)
  PROVE  Stepped
<1>1. r \in Asking /\ r.scope \in Scope
  BY RequestKinds DEF CatalogsInv
<1>2. PICK k : k = catalog[r.scope]
  OBVIOUS
<1>3. CatalogInv(k)
  BY <1>1, <1>2 DEF CatalogsInv
<1>4. servers' = servers /\ clock' = clock /\ requests' \subseteq requests
  BY DEF AnswerDetails
<1>5. CASE StillRecordable(k, r)
  <2>1. PICK j : j = Recorded(k, r, files)
    OBVIOUS
  <2>2. CatalogInv(j) /\ j.ids = k.ids
    BY <1>1, <1>3, <1>5, <2>1, RecordedInv
  <2>3. catalog' = [catalog EXCEPT ![r.scope] = j]
    BY <1>1, <1>2, <1>5, <2>1 DEF AnswerDetails, CatalogsInv, TypeOK
  <2>4. /\ catalog' \in [Scope -> Catalog]
        /\ \A b \in Scope : CatalogInv(catalog'[b]) /\ IdsStep(catalog[b].ids, catalog'[b].ids)
    BY <1>1, <1>2, <2>2, <2>3, OneWritten DEF IdsStep
  <2> QED BY <1>4, <2>4 DEF Stepped, CatalogsInv, TypeOK
<1>6. CASE ~StillRecordable(k, r)
  <2>1. catalog' = catalog
    BY <1>1, <1>2, <1>6 DEF AnswerDetails, CatalogsInv, TypeOK
  <2> QED BY <1>4, <2>1 DEF Stepped, CatalogsInv, TypeOK, IdsStep
<1> QED BY <1>5, <1>6

LEMMA DeleteServerStep ==
  ASSUME CatalogsInv, NEW v \in Server, DeleteServer(v)
  PROVE  Stepped
<1>1. \A c \in Scope : catalog'[c] = WithoutServer(catalog[c], v)
  BY DEF DeleteServer
<1>2. ASSUME NEW c \in Scope
      PROVE  CatalogInv(catalog'[c]) /\ catalog'[c].ids = catalog[c].ids
  BY <1>1, WithoutInv DEF CatalogsInv
<1>3. catalog' \in [Scope -> Catalog]
  <2>1. \A c \in Scope : WithoutServer(catalog[c], v) \in Catalog
    BY <1>1, <1>2 DEF CatalogInv
  <2> QED BY <2>1 DEF DeleteServer
<1>4. servers' \subseteq servers /\ clock' = clock /\ requests' = requests
  BY DEF DeleteServer
<1> QED BY <1>2, <1>3, <1>4 DEF Stepped, CatalogsInv, TypeOK, IdsStep

LEMMA NextHolds == CatalogsInv /\ [Next]_vars => Stepped
<1> SUFFICES ASSUME CatalogsInv, [Next]_vars PROVE Stepped
  OBVIOUS
<1>1. CASE \E c \in Scope : BeginListing(c)
  BY <1>1, BeginStep
<1>2. CASE \E c \in Scope : \E g \in {0} \cup SelectedGroups(c) : BeginDetails(c, g)
  BY <1>2, BeginStep
<1>3. CASE \E r \in requests, resp \in Responses, all \in BOOLEAN : AnswerListing(r, resp, all)
  BY <1>3, AnswerListingStep
<1>4. CASE \E r \in requests : \E g \in Live(catalog[r.scope]), members \in SUBSET Mapping :
             AskMembers(r, g, members)
  BY <1>4, AskMembersStep
<1>5. CASE \E r \in requests :
             r.kind = "asking" /\ \E files \in [r.members -> UNION {Files[n] : n \in Mapping}] :
               (\A m \in r.members : files[m] \in Files[m]) /\ AnswerDetails(r, files)
  BY <1>5, AnswerDetailsStep
<1>6. CASE \E v \in Server : DeleteServer(v)
  BY <1>6, DeleteServerStep
<1>7. CASE UNCHANGED vars
  BY <1>7 DEF vars, Stepped, CatalogsInv, TypeOK, IdsStep
<1> QED BY <1>1, <1>2, <1>3, <1>4, <1>5, <1>6, <1>7 DEF Next

LEMMA CatalogsHold == Spec => []CatalogsInv
<1>1. CatalogsInv /\ [Next]_vars => CatalogsInv'
  BY NextHolds DEF Stepped
<1> QED BY InitHolds, <1>1, PTL DEF Spec

\* The tables, the clock and what the requests carry stay what they are, however listings,
\* details and deletions of servers are interleaved.
THEOREM TypeCorrect == Spec => []TypeOK
<1>1. CatalogsInv => TypeOK
  BY DEF CatalogsInv
<1> QED BY CatalogsHold, <1>1, PTL

\* No older response gets behind a complete inventory (reconcile_media_catalog), for any
\* number of sources, items and requests.
THEOREM FencesStand == Spec => []FencesHold
<1>1. CatalogsInv => FencesHold
  BY DEF CatalogsInv, CatalogInv, Fenced, FencesHold
<1> QED BY CatalogsHold, <1>1, PTL

\* Items that share an alias are in the group that the alias leads to, whatever merged or
\* split before (rebuild_media_groups).
THEOREM GroupsConnect == Spec => []SharedTagsShareGroup
<1>1. CatalogsInv => SharedTagsShareGroup
  BY DEF CatalogsInv, CatalogInv, TagsShare, SharedTagsShareGroup
<1> QED BY CatalogsHold, <1>1, PTL

\* A group with two items of one server is never offered under one id
\* (rebuild_media_groups).
THEOREM VersionsToldApart == Spec => []OneVersionPerServer
<1>1. CatalogsInv => OneVersionPerServer
  BY DEF CatalogsInv, CatalogInv, MarkedApart, OneVersionPerServer
<1> QED BY CatalogsHold, <1>1, PTL

\* Members, aliases and routes refer to groups and members that exist, so that the foreign
\* keys hold (rebuild_media_groups, replace_media_version_sources).
THEOREM ReferencesStand == Spec => []ReferencesHold
<1>1. CatalogsInv => ReferencesHold
  BY DEF CatalogsInv, CatalogInv, RefsLive, RoutesMeet, ReferencesHold
<1> QED BY CatalogsHold, <1>1, PTL

\* The catalog implements PublicIds: an id that was given leads to one group for ever, and
\* ids that led to one group never come apart (rebuild_media_groups, media_group_ids).
THEOREM IdsImplemented == Spec => IdsKeepMeaning
<1>1. Init => Public!Init
  BY DEF Init, Public!Init, EmptyCatalog
<1>2. CatalogsInv /\ [Next]_vars => [Public!Next]_([c \in Scope |-> catalog[c].ids])
  <2> SUFFICES ASSUME CatalogsInv, [Next]_vars PROVE Public!Next
    OBVIOUS
  <2>1. \A c \in Scope : IdsStep(catalog[c].ids, catalog'[c].ids)
    BY NextHolds DEF Stepped
  <2> QED BY <2>1 DEF Public!Next, Public!Regroup, IdsStep
<1> QED BY CatalogsHold, <1>1, <1>2, PTL DEF Spec, IdsKeepMeaning, Public!Spec

\* What a response connects, and what of it the catalog has in public groups.
TagsIn(resp) == [o \in Occurrences(resp) |-> resp[o[1]].items[o[2]]]
PartsIn(resp) == Components(TagsIn(resp), {o \in Occurrences(resp) : TagsIn(resp)[o] # {}})
StableIn(k, resp) == UNION {C \in PartsIn(resp) : IsStable(k, C)}

\* The entry of a public group has all that the catalog has in it.
LEMMA CollapsedFacts ==
  ASSUME NEW k, NEW resp, NEW e \in Collapsed(k, resp), e.group # 0
  PROVE  /\ \A p : p \in e.items <=> p \in StableIn(k, resp) /\ k.group[p[2]] = e.group
         /\ ~Repeats(e.items)
         /\ e = [group |-> e.group, items |-> e.items]
<1>1. PICK merged : merged = {C \in Bridged(k, PartsIn(resp)) : ~Repeats(C)}
  OBVIOUS
<1>2. Collapsed(k, resp) =
        {[group |-> k.group[(CHOOSE o \in C : TRUE)[2]], items |-> C] : C \in merged}
          \cup {[group |-> 0, items |-> {o}] : o \in Occurrences(resp) \ UNION merged}
  BY <1>1 DEF Collapsed, PartsIn, TagsIn
<1>3. PICK C \in merged : e = [group |-> k.group[(CHOOSE o \in C : TRUE)[2]], items |-> C]
  BY <1>2
<1>4. e.items = C /\ e.group = k.group[(CHOOSE o \in C : TRUE)[2]]
  BY <1>3
<1>5. PICK o \in StableIn(k, resp) :
        C = {p \in StableIn(k, resp) : k.group[p[2]] = k.group[o[2]]}
  BY <1>1 DEF Bridged, StableIn
<1>6. (CHOOSE q \in C : TRUE) \in C
  BY <1>5
<1>7. e.group = k.group[o[2]]
  BY <1>4, <1>5, <1>6
<1> QED BY <1>1, <1>3, <1>4, <1>5, <1>7

\* The ids in an answer are each shown once, for items of different servers that the group
\* leads to (MediaDedupPlan::collapse, get_media_version_members), whatever the servers list.
THEOREM IdsShownOnce == Spec => []ShownOnce
<1>1. ShownOnce
  <2>1. SUFFICES ASSUME NEW c \in Scope, NEW resp \in Responses,
                        NEW e \in Collapsed(catalog[c], resp), e.group # 0
                 PROVE  /\ \A f \in Collapsed(catalog[c], resp) : f.group = e.group => f = e
                        /\ ~Repeats(e.items)
                        /\ \A o \in e.items : o[2] \in Members(catalog[c], e.group)
    BY DEF ShownOnce
  <2>2. PICK k : k = catalog[c]
    OBVIOUS
  <2>3. ASSUME NEW f \in Collapsed(k, resp), f.group = e.group PROVE f = e
    <3>1. f.items = e.items
      <4>1. \A p : p \in f.items <=> p \in e.items
        BY <2>1, <2>2, <2>3, CollapsedFacts
      <4> QED BY <2>1, <2>2, <2>3, <4>1, CollapsedFacts, SetExtensionality
    <3> QED BY <2>1, <2>2, <2>3, <3>1, CollapsedFacts
  <2>4. ASSUME NEW o \in e.items PROVE o[2] \in Members(k, e.group)
    <3>1. o \in StableIn(k, resp) /\ k.group[o[2]] = e.group
      BY <2>1, <2>2, <2>4, CollapsedFacts
    <3>2. PICK C \in PartsIn(resp) : o \in C /\ IsStable(k, C)
      BY <3>1 DEF StableIn
    <3>3. PICK g \in Shown(k) : o[2] \in Active(k) /\ k.group[o[2]] = g
      BY <3>2 DEF IsStable
    <3> QED BY <3>1, <3>3 DEF Shown, Members
  <2> QED BY <2>1, <2>2, <2>3, <2>4, CollapsedFacts
<1> QED BY <1>1, PTL
=============================================================================
