---------------------------- MODULE ServingProofs ----------------------------
(***************************************************************************)
(* What holds of upgrades, whatever rows an old database has, and of       *)
(* requests, whatever they ask.                                            *)
(*                                                                         *)
(* Each transaction of an upgrade keeps the constraints of the tables      *)
(* (Sound) and what the rows lead to (Covers, which is transitive and so   *)
(* holds from the database that was found to the present one).  The        *)
(* invariant IInv puts together                                            *)
(*   - DbInv: how far the database has come, and what it has kept;         *)
(*   - Quiet: a process that does not serve has no requests and no caches; *)
(*   - IdsIssued, ByIdRight, ShownRight, ByItemRight: tables, caches and   *)
(*     what clients were shown agree, as far as there are the rows;        *)
(*   - RequestsRight: for each phase of a request, what its later phases   *)
(*     need of the state that it was found in.                             *)
(* RowsStay is what every step does while the proxy serves, and all that   *)
(* the last of these need of one.                                          *)
(***************************************************************************)
EXTENDS Serving, TLAPS

---------------------------------------------------------------------------
(* First rows *)

\* What the first rows of a table are.
LEMMA FirstsAre ==
  ASSUME NEW I, Bounded(I), NEW key, DOMAIN key \subseteq I
  PROVE  /\ Firsts(key) \subseteq DOMAIN key
         /\ \A i \in DOMAIN key : /\ FirstLike(key, i) \in Firsts(key)
                                  /\ key[FirstLike(key, i)] = key[i]
                                  /\ FirstLike(key, i) <= i
         /\ \A i, j \in Firsts(key) : key[i] = key[j] => i = j
         /\ \A i \in Firsts(key) : FirstLike(key, i) = i
         /\ \A i, j \in DOMAIN key : key[i] = key[j] => FirstLike(key, i) = FirstLike(key, j)
<1>1. ASSUME NEW i \in DOMAIN key
      PROVE  \E j \in Firsts(key) : key[j] = key[i]
  <2> DEFINE S == {j \in DOMAIN key : key[j] = key[i]}
  <2>1. S \in SUBSET I /\ S # {}
    OBVIOUS
  <2>2. PICK j \in S : \A k \in S : j <= k
    BY <2>1 DEF Bounded
  <2>3. j \in Firsts(key)
    BY <2>2 DEF Firsts
  <2>4. QED
    BY <2>2, <2>3
<1>2. \A i \in DOMAIN key : FirstLike(key, i) \in Firsts(key) /\ key[FirstLike(key, i)] = key[i]
  BY <1>1 DEF FirstLike
<1> DOMAIN key \subseteq Int
  BY DEF Bounded
<1>3. \A i, j \in Firsts(key) : key[i] = key[j] => i = j
  BY DEF Firsts
<1>4. Firsts(key) \subseteq DOMAIN key
  BY DEF Firsts
<1>5. \A i \in DOMAIN key : FirstLike(key, i) <= i
  BY <1>2 DEF Firsts
<1>6. QED
  BY <1>2, <1>3, <1>4, <1>5

LEMMA FirstsOfUnique ==
  ASSUME NEW I, Bounded(I), NEW key, DOMAIN key \subseteq I, Unique(key)
  PROVE  Firsts(key) = DOMAIN key /\ \A i \in DOMAIN key : FirstLike(key, i) = i
<1> DOMAIN key \subseteq Int
  BY DEF Bounded
<1>1. Firsts(key) = DOMAIN key
  BY DEF Firsts, Unique
<1>2. QED
  BY <1>1, FirstsAre

\* What a table is.
LEMMA TableIs ==
  ASSUME NEW Row, NEW T
  PROVE  T \in Table(Row) <=> /\ T = [i \in DOMAIN T |-> T[i]] /\ DOMAIN T \subseteq Id
                              /\ \A i \in DOMAIN T : T[i] \in Row
BY DEF Table

---------------------------------------------------------------------------
(* Merged rows *)

LEMMA MergedAdmins ==
  ASSUME NEW admins \in Table(Id), NEW home, DOMAIN home \subseteq Id,
         \A a \in DOMAIN admins : admins[a] \in DOMAIN home
  PROVE  LET e == MergeAdmins(admins, home)
         IN  /\ e \in Table(Id) /\ Unique(e)
             /\ \A a \in DOMAIN e : e[a] \in Firsts(home)
             /\ \A a \in DOMAIN admins :
                  \E b \in DOMAIN e : b <= a /\ home[e[b]] = home[admins[a]]
<1> DEFINE serves == [a \in DOMAIN admins |-> home[admins[a]]]
           e == [a \in Firsts(serves) |-> FirstLike(home, admins[a])]
<1>1. Bounded(Id)
  BY IdAssumption
<1>2. DOMAIN admins \subseteq Id /\ DOMAIN serves = DOMAIN admins
  BY TableIs
<1>3. Firsts(serves) \subseteq DOMAIN admins
  BY <1>1, <1>2, FirstsAre
<1>4. \A a \in DOMAIN admins : /\ FirstLike(serves, a) \in Firsts(serves)
                               /\ serves[FirstLike(serves, a)] = serves[a]
                               /\ FirstLike(serves, a) <= a
  BY <1>1, <1>2, FirstsAre
<1>5. \A a, b \in Firsts(serves) : serves[a] = serves[b] => a = b
  BY <1>1, <1>2, FirstsAre
<1>6. /\ Firsts(home) \subseteq DOMAIN home
      /\ \A i \in DOMAIN home : FirstLike(home, i) \in Firsts(home) /\ home[FirstLike(home, i)] = home[i]
  BY <1>1, FirstsAre
<1>7. \A a \in Firsts(serves) : e[a] \in Firsts(home) /\ home[e[a]] = serves[a]
  BY <1>3, <1>6
<1>8. Unique(e)
  BY <1>5, <1>7 DEF Unique
<1>9. e \in Table(Id)
  BY <1>2, <1>3, <1>6, <1>7, TableIs
<1>10. \A a \in DOMAIN admins : \E b \in DOMAIN e : b <= a /\ home[e[b]] = home[admins[a]]
  BY <1>4, <1>7
<1>11. QED
  BY <1>7, <1>8, <1>9, <1>10 DEF MergeAdmins

LEMMA MergedSessions ==
  ASSUME NEW sessions \in Table(Session), NEW to, DOMAIN to \subseteq Id,
         \A m \in DOMAIN to : to[m] \in Id
  PROVE  LET e == MergeSessions(sessions, to)
         IN  /\ e \in Table(Session) /\ DOMAIN e \subseteq DOMAIN sessions
             /\ \A s \in DOMAIN e : /\ sessions[s].mapping \in DOMAIN to
                                    /\ e[s] = [sessions[s] EXCEPT !.mapping = to[@]]
             /\ \A s, t \in DOMAIN e :
                  /\ sessions[s].user = sessions[t].user
                  /\ sessions[s].device = sessions[t].device
                  /\ to[sessions[s].mapping] = to[sessions[t].mapping]
                  => s = t
             /\ \A s \in DOMAIN sessions : sessions[s].mapping \in DOMAIN to =>
                  \E t \in DOMAIN e : /\ sessions[t].used >= sessions[s].used
                                      /\ sessions[t].user = sessions[s].user
                                      /\ sessions[t].device = sessions[s].device
                                      /\ to[sessions[t].mapping] = to[sessions[s].mapping]
<1> DEFINE K == {t \in DOMAIN sessions : sessions[t].mapping \in DOMAIN to}
           key == [s \in K |-> <<sessions[s].user, sessions[s].device, to[sessions[s].mapping]>>]
           latest == {s \in DOMAIN key : \A t \in DOMAIN key :
                        key[t] = key[s] => \/ sessions[t].used < sessions[s].used
                                           \/ sessions[t].used = sessions[s].used /\ t <= s}
           e == [s \in latest |-> [sessions[s] EXCEPT !.mapping = to[@]]]
<1>1. /\ DOMAIN sessions \subseteq Id /\ DOMAIN sessions \subseteq Int
      /\ \A s \in DOMAIN sessions : /\ sessions[s] \in Session
                                    /\ sessions[s].used \in Time /\ sessions[s].used \in Int
  <2>1. DOMAIN sessions \subseteq Id /\ \A s \in DOMAIN sessions : sessions[s] \in Session
    BY TableIs
  <2>2. Id \subseteq Int /\ Time \subseteq Int
    BY IdAssumption DEF Bounded
  <2>3. \A r \in Session : r.used \in Time
    BY DEF Session
  <2>4. QED
    BY <2>1, <2>2, <2>3
<1>2. latest \subseteq K /\ K \subseteq DOMAIN sessions
  OBVIOUS
<1>3. e \in Table(Session)
  <2>1. \A s \in latest : e[s] \in Session
    BY <1>1, <1>2 DEF Session
  <2>2. DOMAIN e = latest /\ latest \subseteq Id /\ e = [s \in DOMAIN e |-> e[s]]
    BY <1>1, <1>2
  <2> HIDE DEF e
  <2>3. QED
    BY <2>1, <2>2, TableIs
<1>4. \A s, t \in latest : key[s] = key[t] => s = t
  BY <1>1
<1>5. ASSUME NEW s \in K
      PROVE  \E t \in latest : key[t] = key[s] /\ sessions[t].used >= sessions[s].used
  <2> DEFINE S == {t \in K : key[t] = key[s]}
             U == {sessions[t].used : t \in S}
  <2>1. U \in SUBSET Time /\ U # {}
    BY <1>1 DEF Session
  <2>2. PICK k \in U : \A j \in U : j <= k
    BY <2>1, IdAssumption DEF Bounded
  <2> DEFINE L == {t \in S : sessions[t].used = k}
  <2>3. L \in SUBSET Id /\ L # {}
    BY <1>1, <2>2
  <2>4. PICK t \in L : \A r \in L : r <= t
    BY <2>3, IdAssumption DEF Bounded
  <2>5. ASSUME NEW r \in K, key[r] = key[t]
        PROVE  \/ sessions[r].used < sessions[t].used
               \/ sessions[r].used = sessions[t].used /\ r <= t
    <3>1. r \in S
      BY <2>4, <2>5
    <3>2. sessions[r].used <= k /\ sessions[t].used = k
      BY <2>2, <2>4, <3>1
    <3>3. sessions[r].used = k => r <= t
      BY <2>4, <3>1
    <3>4. QED
      BY <1>1, <3>1, <3>2, <3>3
  <2>6. t \in latest
    BY <2>4, <2>5
  <2>7. sessions[t].used >= sessions[s].used
    BY <1>1, <2>2, <2>4
  <2>8. QED
    BY <2>4, <2>6, <2>7
<1>6. \A s \in latest : /\ sessions[s].mapping \in DOMAIN to
                        /\ e[s] = [sessions[s] EXCEPT !.mapping = to[@]]
  OBVIOUS
<1>7. MergeSessions(sessions, to) = e /\ DOMAIN e = latest
  BY DEF MergeSessions
<1>8. \A s, t \in K : key[s] = key[t] <=> /\ sessions[s].user = sessions[t].user
                                          /\ sessions[s].device = sessions[t].device
                                          /\ to[sessions[s].mapping] = to[sessions[t].mapping]
  OBVIOUS
<1>9. \A s \in DOMAIN sessions : sessions[s].mapping \in DOMAIN to => s \in K
  OBVIOUS
<1> HIDE DEF K, key, latest, e
<1>10. QED
  BY <1>2, <1>3, <1>4, <1>5, <1>6, <1>7, <1>8, <1>9

---------------------------------------------------------------------------
(* A merge of all tables *)

\* The constraints of the tables.
Sound(d) == d \in Database /\ References(d) /\ UniqueKeys(d) /\ OwnSessions(d)

\* Rows that a merge keeps have its key; rows of one key are of one user or item, and of
\* one host.
Fits(d, home, owner, mappings, means, media) ==
  /\ home \in [DOMAIN d.servers -> Url]
  /\ \A s \in DOMAIN home : home[s].host = d.servers[s].host
  /\ DOMAIN owner \subseteq DOMAIN d.mappings
  /\ \A m \in DOMAIN owner : /\ mappings[m] \in Mapping
                             /\ mappings[m].user = d.mappings[m].user
                             /\ mappings[m].url.host = d.mappings[m].url.host
  /\ \A m, n \in DOMAIN owner :
       /\ owner[m] = owner[n] => /\ mappings[m].user = mappings[n].user
                                 /\ mappings[m].url.host = mappings[n].url.host
       /\ mappings[m].user = mappings[n].user /\ mappings[m].url = mappings[n].url
          => owner[m] = owner[n]
  /\ DOMAIN means \subseteq DOMAIN d.media
  /\ \A v \in DOMAIN means : /\ media[v] \in Medium
                             /\ media[v].item = d.media[v].item
                             /\ media[v].url.host = d.media[v].url.host
  /\ \A v, w \in DOMAIN means :
       /\ means[v] = means[w] => /\ media[v].item = media[w].item
                                 /\ media[v].url.host = media[w].url.host
       /\ media[v].item = media[w].item /\ media[v].url = media[w].url
          => means[v] = means[w]

\* The rows of d with an owner or a meaning are covered by those of e.
RowsCovered(d, owner, means, e) ==
  /\ e.users = d.users
  /\ \A a \in DOMAIN d.admins :
       \E b \in DOMAIN e.admins :
         b <= a /\ e.servers[e.admins[b]].host = d.servers[d.admins[a]].host
  /\ \A m \in DOMAIN owner :
       \E n \in DOMAIN e.mappings : /\ e.mappings[n].user = d.mappings[m].user
                                    /\ e.mappings[n].url.host = d.mappings[m].url.host
  /\ \A v \in DOMAIN means :
       \E w \in DOMAIN e.media : /\ w <= v
                                 /\ e.media[w].item = d.media[v].item
                                 /\ e.media[w].url.host = d.media[v].url.host

\* The session of d that is used last, of a user's on a device and a host, stays in e.
SessionsCovered(d, owner, e) ==
  \A s \in DOMAIN d.sessions : d.sessions[s].mapping \in DOMAIN owner =>
    \E t \in DOMAIN d.sessions \cap DOMAIN e.sessions :
      /\ d.sessions[t].used >= d.sessions[s].used
      /\ e.sessions[t].user = d.sessions[s].user
      /\ e.sessions[t].device = d.sessions[s].device
      /\ e.mappings[e.sessions[t].mapping].url.host
           = d.mappings[d.sessions[s].mapping].url.host

LEMMA DatabaseIs ==
  ASSUME NEW d \in Database
  PROVE  /\ d.users \subseteq User /\ d.servers \in Table(Url) /\ d.admins \in Table(Id)
         /\ d.mappings \in Table(Mapping) /\ d.sessions \in Table(Session)
         /\ d.media \in Table(Medium)
         /\ DOMAIN d.servers \subseteq Id /\ DOMAIN d.admins \subseteq Id
         /\ DOMAIN d.mappings \subseteq Id /\ DOMAIN d.sessions \subseteq Id
         /\ DOMAIN d.media \subseteq Id
         /\ \A s \in DOMAIN d.servers : d.servers[s] \in Url
         /\ \A m \in DOMAIN d.mappings : d.mappings[m] \in Mapping
         /\ \A s \in DOMAIN d.sessions : d.sessions[s] \in Session
         /\ \A v \in DOMAIN d.media : d.media[v] \in Medium
<1>1. /\ d.users \subseteq User /\ d.servers \in Table(Url) /\ d.admins \in Table(Id)
      /\ d.mappings \in Table(Mapping) /\ d.sessions \in Table(Session)
      /\ d.media \in Table(Medium)
  BY DEF Database
<1>2. QED
  BY <1>1, TableIs

LEMMA Merged ==
  ASSUME NEW d, Sound(d), NEW home, NEW owner, NEW mappings, NEW means, NEW media,
         Fits(d, home, owner, mappings, means, media)
  PROVE  LET e == Merge(d, home, owner, mappings, means, media)
         IN  /\ Sound(e)
             /\ RowsCovered(d, owner, means, e)
             /\ SessionsCovered(d, owner, e)
             /\ \A s \in DOMAIN d.servers : \E t \in DOMAIN e.servers : e.servers[t] = home[s]
             /\ \A t \in DOMAIN e.servers : t \in DOMAIN home /\ e.servers[t] = home[t]
             /\ Unique(e.servers)
             /\ \A n \in DOMAIN e.mappings : n \in DOMAIN owner /\ e.mappings[n] = mappings[n]
             /\ \A w \in DOMAIN e.media : w \in DOMAIN means /\ e.media[w] = media[w]
<1> DEFINE to == [m \in DOMAIN owner |-> FirstLike(owner, m)]
           servers == [s \in Firsts(home) |-> home[s]]
           admins == MergeAdmins(d.admins, home)
           kept == [m \in Firsts(owner) |-> mappings[m]]
           sessions == MergeSessions(d.sessions, to)
           items == [v \in Firsts(means) |-> media[v]]
           e == Merge(d, home, owner, mappings, means, media)
<1>1. /\ e.users = d.users /\ e.servers = servers /\ e.admins = admins
      /\ e.mappings = kept /\ e.sessions = sessions /\ e.media = items
      /\ e = [users |-> d.users, servers |-> servers, admins |-> admins, mappings |-> kept,
              sessions |-> sessions, media |-> items]
  BY DEF Merge
<1>2. d \in Database /\ References(d) /\ UniqueKeys(d) /\ OwnSessions(d)
  BY DEF Sound
<1>3. Bounded(Id) /\ Id \subseteq Int
  BY IdAssumption DEF Bounded
<1>4. /\ DOMAIN home = DOMAIN d.servers /\ DOMAIN home \subseteq Id
      /\ DOMAIN owner \subseteq DOMAIN d.mappings /\ DOMAIN owner \subseteq Id
      /\ DOMAIN means \subseteq DOMAIN d.media /\ DOMAIN means \subseteq Id
  BY <1>2, DatabaseIs DEF Fits
<1>5. /\ Firsts(home) \subseteq DOMAIN home
      /\ \A s \in DOMAIN home : FirstLike(home, s) \in Firsts(home) /\ home[FirstLike(home, s)] = home[s]
      /\ \A s, t \in Firsts(home) : home[s] = home[t] => s = t
  BY <1>3, <1>4, FirstsAre
<1>6. /\ Firsts(owner) \subseteq DOMAIN owner
      /\ \A m \in DOMAIN owner : to[m] \in Firsts(owner) /\ owner[to[m]] = owner[m]
      /\ \A m, n \in Firsts(owner) : owner[m] = owner[n] => m = n
  BY <1>3, <1>4, FirstsAre
<1>7. /\ Firsts(means) \subseteq DOMAIN means
      /\ \A v \in DOMAIN means : /\ FirstLike(means, v) \in Firsts(means)
                                 /\ means[FirstLike(means, v)] = means[v]
                                 /\ FirstLike(means, v) <= v
      /\ \A v, w \in Firsts(means) : means[v] = means[w] => v = w
  BY <1>3, <1>4, FirstsAre
<1>8. servers \in Table(Url) /\ Unique(servers)
  <2>1. /\ DOMAIN servers = Firsts(home) /\ Firsts(home) \subseteq Id
        /\ \A s \in Firsts(home) : servers[s] \in Url
    BY <1>4, <1>5 DEF Fits
  <2>2. servers \in Table(Url)
    BY <2>1, TableIs
  <2>3. QED
    BY <1>5, <2>2 DEF Unique
<1>9. kept \in Table(Mapping)
  <2>1. /\ DOMAIN kept = Firsts(owner) /\ Firsts(owner) \subseteq Id
        /\ \A m \in Firsts(owner) : kept[m] \in Mapping
    BY <1>4, <1>6 DEF Fits
  <2>2. QED
    BY <2>1, TableIs
<1>10. items \in Table(Medium)
  <2>1. /\ DOMAIN items = Firsts(means) /\ Firsts(means) \subseteq Id
        /\ \A v \in Firsts(means) : items[v] \in Medium
    BY <1>4, <1>7 DEF Fits
  <2>2. QED
    BY <2>1, TableIs
<1>11. /\ admins \in Table(Id) /\ Unique(admins)
       /\ \A a \in DOMAIN admins : admins[a] \in Firsts(home)
       /\ \A a \in DOMAIN d.admins : \E b \in DOMAIN admins : b <= a /\ home[admins[b]] = home[d.admins[a]]
  <2>1. d.admins \in Table(Id) /\ \A a \in DOMAIN d.admins : d.admins[a] \in DOMAIN home
    BY <1>2, <1>4, DatabaseIs DEF References
  <2>2. QED
    BY <1>4, <2>1, MergedAdmins
<1>12. /\ sessions \in Table(Session) /\ DOMAIN sessions \subseteq DOMAIN d.sessions
       /\ \A s \in DOMAIN sessions : /\ d.sessions[s].mapping \in DOMAIN to
                                     /\ sessions[s] = [d.sessions[s] EXCEPT !.mapping = to[@]]
       /\ \A s, t \in DOMAIN sessions : /\ d.sessions[s].user = d.sessions[t].user
                                        /\ d.sessions[s].device = d.sessions[t].device
                                        /\ to[d.sessions[s].mapping] = to[d.sessions[t].mapping]
                                        => s = t
       /\ \A s \in DOMAIN d.sessions : d.sessions[s].mapping \in DOMAIN to =>
            \E t \in DOMAIN sessions : /\ d.sessions[t].used >= d.sessions[s].used
                                       /\ d.sessions[t].user = d.sessions[s].user
                                       /\ d.sessions[t].device = d.sessions[s].device
                                       /\ to[d.sessions[t].mapping] = to[d.sessions[s].mapping]
  <2>1. d.sessions \in Table(Session)
    BY <1>2, DatabaseIs
  <2>2. DOMAIN to \subseteq Id /\ \A m \in DOMAIN to : to[m] \in Id
    BY <1>4, <1>6
  <2> HIDE DEF to
  <2>3. QED
    BY <2>1, <2>2, MergedSessions
<1>13. \A s \in DOMAIN d.sessions : d.sessions[s] \in Session
  BY <1>2, DatabaseIs
<1>14. \A s \in DOMAIN sessions : /\ sessions[s].user = d.sessions[s].user
                                  /\ sessions[s].device = d.sessions[s].device
                                  /\ sessions[s].mapping = to[d.sessions[s].mapping]
                                  /\ sessions[s].mapping \in Firsts(owner)
                                  /\ kept[sessions[s].mapping].user = sessions[s].user
  <2> SUFFICES ASSUME NEW s \in DOMAIN sessions
               PROVE  /\ sessions[s].user = d.sessions[s].user
                      /\ sessions[s].device = d.sessions[s].device
                      /\ sessions[s].mapping = to[d.sessions[s].mapping]
                      /\ sessions[s].mapping \in Firsts(owner)
                      /\ kept[sessions[s].mapping].user = sessions[s].user
    OBVIOUS
  <2>1. s \in DOMAIN d.sessions /\ d.sessions[s].mapping \in DOMAIN owner
    BY <1>12
  <2>2. /\ sessions[s].user = d.sessions[s].user
        /\ sessions[s].device = d.sessions[s].device
        /\ sessions[s].mapping = to[d.sessions[s].mapping]
    <3>1. sessions[s] = [d.sessions[s] EXCEPT !.mapping = to[@]] /\ d.sessions[s] \in Session
      BY <1>12, <1>13, <2>1
    <3> HIDE DEF to, sessions
    <3>2. QED
      BY <3>1 DEF Session
  <2>3. to[d.sessions[s].mapping] \in Firsts(owner) /\ owner[to[d.sessions[s].mapping]] = owner[d.sessions[s].mapping]
    BY <1>6, <2>1
  <2>4. mappings[to[d.sessions[s].mapping]].user = mappings[d.sessions[s].mapping].user
    BY <1>6, <2>1, <2>3 DEF Fits
  <2>5. mappings[d.sessions[s].mapping].user = d.sessions[s].user
    BY <1>2, <2>1 DEF Fits, OwnSessions
  <2> HIDE DEF to, sessions
  <2>6. QED
    BY <2>2, <2>3, <2>4, <2>5
<1>15. e \in Database
  BY <1>1, <1>2, <1>8, <1>9, <1>10, <1>11, <1>12 DEF Database
<1>16. References(e)
  <2>1. \A m \in Firsts(owner) : kept[m].user \in d.users
    BY <1>2, <1>4, <1>6 DEF Fits, References
  <2>2. \A s \in DOMAIN sessions : sessions[s].user \in d.users
    BY <1>2, <1>12, <1>14 DEF References
  <2> HIDE DEF to, admins, sessions
  <2>3. QED
    BY <1>1, <1>11, <1>14, <2>1, <2>2 DEF References
<1>17. OwnSessions(e)
  <2> HIDE DEF to, sessions, kept
  <2>1. QED
    BY <1>1, <1>14 DEF OwnSessions
<1>18. UniqueKeys(e)
  <2>1. Unique(MappingUrls(e))
    <3>1. ASSUME NEW m \in DOMAIN e.mappings, NEW n \in DOMAIN e.mappings,
                 <<e.mappings[m].user, e.mappings[m].url>> = <<e.mappings[n].user, e.mappings[n].url>>
          PROVE  m = n
      <4>1. m \in Firsts(owner) /\ n \in Firsts(owner) /\ m \in DOMAIN owner /\ n \in DOMAIN owner
        BY <1>1, <1>6
      <4>2. mappings[m].user = mappings[n].user /\ mappings[m].url = mappings[n].url
        BY <1>1, <3>1, <4>1
      <4>3. owner[m] = owner[n]
        BY <4>1, <4>2 DEF Fits
      <4>4. QED
        BY <1>6, <4>1, <4>3
    <3> HIDE DEF e
    <3>2. QED
      BY <3>1 DEF Unique, MappingUrls
  <2>2. Unique(MediaUrls(e))
    <3>1. ASSUME NEW v \in DOMAIN e.media, NEW w \in DOMAIN e.media,
                 <<e.media[v].item, e.media[v].url>> = <<e.media[w].item, e.media[w].url>>
          PROVE  v = w
      <4>1. v \in Firsts(means) /\ w \in Firsts(means) /\ v \in DOMAIN means /\ w \in DOMAIN means
        BY <1>1, <1>7
      <4>2. media[v].item = media[w].item /\ media[v].url = media[w].url
        BY <1>1, <3>1, <4>1
      <4>3. means[v] = means[w]
        BY <4>1, <4>2 DEF Fits
      <4>4. QED
        BY <1>7, <4>1, <4>3
    <3> HIDE DEF e
    <3>2. QED
      BY <3>1 DEF Unique, MediaUrls
  <2>3. Unique(SessionKeys(e))
    <3>1. ASSUME NEW s \in DOMAIN e.sessions, NEW t \in DOMAIN e.sessions,
                 <<e.sessions[s].user, e.sessions[s].mapping, e.sessions[s].device>>
                   = <<e.sessions[t].user, e.sessions[t].mapping, e.sessions[t].device>>
          PROVE  s = t
      <4> HIDE DEF to, sessions
      <4>1. QED
        BY <1>1, <1>12, <1>14, <3>1
    <3> HIDE DEF e
    <3>2. QED
      BY <3>1 DEF Unique, SessionKeys
  <2>4. Unique(e.admins)
    BY <1>1, <1>11
  <2>5. QED
    BY <2>1, <2>2, <2>3, <2>4 DEF UniqueKeys
<1>19. RowsCovered(d, owner, means, e)
  <2>1. ASSUME NEW a \in DOMAIN d.admins
        PROVE  \E b \in DOMAIN admins :
                 b <= a /\ servers[admins[b]].host = d.servers[d.admins[a]].host
    <3>1. PICK b \in DOMAIN admins : b <= a /\ home[admins[b]] = home[d.admins[a]]
      BY <1>11
    <3>2. admins[b] \in Firsts(home) /\ d.admins[a] \in DOMAIN home
      BY <1>2, <1>4, <1>11 DEF References
    <3>3. servers[admins[b]] = home[d.admins[a]]
      BY <3>1, <3>2
    <3>4. home[d.admins[a]].host = d.servers[d.admins[a]].host
      BY <3>2 DEF Fits
    <3> HIDE DEF servers, admins
    <3>5. QED
      BY <3>1, <3>3, <3>4
  <2>2. ASSUME NEW m \in DOMAIN owner
        PROVE  \E n \in DOMAIN kept : /\ kept[n].user = d.mappings[m].user
                                      /\ kept[n].url.host = d.mappings[m].url.host
    <3>1. /\ to[m] \in DOMAIN kept /\ to[m] \in DOMAIN owner /\ owner[to[m]] = owner[m]
          /\ kept[to[m]] = mappings[to[m]]
      BY <1>6
    <3>2. QED
      BY <3>1 DEF Fits
  <2>3. ASSUME NEW v \in DOMAIN means
        PROVE  \E w \in DOMAIN items : /\ w <= v
                                       /\ items[w].item = d.media[v].item
                                       /\ items[w].url.host = d.media[v].url.host
    <3> DEFINE w == FirstLike(means, v)
    <3>1. /\ w \in DOMAIN items /\ w \in DOMAIN means /\ means[w] = means[v] /\ w <= v
          /\ items[w] = media[w]
      BY <1>7
    <3> HIDE DEF w
    <3>2. media[w].item = d.media[v].item /\ media[w].url.host = d.media[v].url.host
      BY <3>1 DEF Fits
    <3>3. QED
      BY <3>1, <3>2
  <2> HIDE DEF servers, admins, kept, items
  <2>4. QED
    BY <1>1, <2>1, <2>2, <2>3 DEF RowsCovered
<1>20. SessionsCovered(d, owner, e)
  <2>1. ASSUME NEW s \in DOMAIN d.sessions, d.sessions[s].mapping \in DOMAIN owner
        PROVE  \E t \in DOMAIN d.sessions \cap DOMAIN sessions :
                 /\ d.sessions[t].used >= d.sessions[s].used
                 /\ sessions[t].user = d.sessions[s].user
                 /\ sessions[t].device = d.sessions[s].device
                 /\ kept[sessions[t].mapping].url.host = d.mappings[d.sessions[s].mapping].url.host
    <3>1. PICK t \in DOMAIN sessions : /\ d.sessions[t].used >= d.sessions[s].used
                                       /\ d.sessions[t].user = d.sessions[s].user
                                       /\ d.sessions[t].device = d.sessions[s].device
                                       /\ to[d.sessions[t].mapping] = to[d.sessions[s].mapping]
      BY <1>12, <2>1
    <3>2. t \in DOMAIN d.sessions /\ d.sessions[t].mapping \in DOMAIN owner
      BY <1>12
    <3> DEFINE n == to[d.sessions[s].mapping]
    <3>3. n \in Firsts(owner) /\ n \in DOMAIN owner /\ owner[n] = owner[d.sessions[s].mapping]
      BY <1>6, <2>1
    <3>4. /\ mappings[n].url.host = mappings[d.sessions[s].mapping].url.host
          /\ mappings[d.sessions[s].mapping].url.host = d.mappings[d.sessions[s].mapping].url.host
      BY <2>1, <3>3 DEF Fits
    <3>5. sessions[t].mapping = n /\ kept[n] = mappings[n]
      BY <1>14, <3>1, <3>3
    <3> HIDE DEF n, to, sessions, kept
    <3>6. QED
      BY <1>14, <3>1, <3>2, <3>4, <3>5
  <2> HIDE DEF sessions, kept
  <2>2. QED
    BY <1>1, <2>1 DEF SessionsCovered
<1>21. \A s \in DOMAIN d.servers : \E t \in DOMAIN e.servers : e.servers[t] = home[s]
  BY <1>1, <1>4, <1>5
<1>22. /\ \A t \in DOMAIN e.servers : t \in DOMAIN home /\ e.servers[t] = home[t]
       /\ \A n \in DOMAIN e.mappings : n \in DOMAIN owner /\ e.mappings[n] = mappings[n]
       /\ \A w \in DOMAIN e.media : w \in DOMAIN means /\ e.media[w] = media[w]
  BY <1>1, <1>5, <1>6, <1>7
<1> HIDE DEF to, servers, admins, kept, sessions, items, e
<1>23. Sound(e) /\ Unique(e.servers)
  BY <1>1, <1>8, <1>15, <1>16, <1>17, <1>18 DEF Sound
<1>24. QED
  BY <1>19, <1>20, <1>21, <1>22, <1>23 DEF e

---------------------------------------------------------------------------
(* Canonicalization *)

\* All URLs are canonical.
Plain(d) ==
  /\ \A s \in DOMAIN d.servers : d.servers[s].form = "plain"
  /\ \A m \in DOMAIN d.mappings : d.mappings[m].url.form = "plain"
  /\ \A v \in DOMAIN d.media : d.media[v].url.form = "plain"

\* What c held for users, by its servers, is held by d.
Covers(c, d) ==
  /\ \A s \in DOMAIN c.servers : \E t \in DOMAIN d.servers : d.servers[t].host = c.servers[s].host
  /\ \A a \in DOMAIN c.admins :
       \E b \in DOMAIN d.admins :
         b <= a /\ d.servers[d.admins[b]].host = c.servers[c.admins[a]].host
  /\ \A m \in DOMAIN c.mappings : LedTo(c, c.mappings[m]) =>
       \E n \in DOMAIN d.mappings :
         /\ NameOf[d.mappings[n].user] = NameOf[c.mappings[m].user]
         /\ d.mappings[n].url.host = c.mappings[m].url.host
  /\ \A v \in DOMAIN c.media : LedTo(c, c.media[v]) =>
       \E w \in DOMAIN d.media : /\ w <= v
                                 /\ d.media[w].item = c.media[v].item
                                 /\ d.media[w].url.host = c.media[v].url.host

\* A user keeps the session of d used last on a device and a host.
NewestKept(d, e) ==
  \A s \in DOMAIN d.sessions :
    LET m == d.mappings[d.sessions[s].mapping]
    IN LedTo(d, m) =>
         \E t \in DOMAIN d.sessions \cap DOMAIN e.sessions :
           /\ d.sessions[t].used >= d.sessions[s].used
           /\ e.sessions[t].user = d.sessions[s].user
           /\ e.sessions[t].device = d.sessions[s].device
           /\ e.mappings[e.sessions[t].mapping].url.host = m.url.host

LEMMA CoversItself ==
  ASSUME NEW d \in Database
  PROVE  Covers(d, d)
<1>1. DOMAIN d.admins \subseteq Int /\ DOMAIN d.media \subseteq Int
  BY DatabaseIs, IdAssumption DEF Bounded
<1>2. QED
  BY <1>1 DEF Covers

LEMMA CoversTransitive ==
  ASSUME NEW b \in Database, NEW c \in Database, NEW d \in Database, Covers(b, c), Covers(c, d)
  PROVE  Covers(b, d)
<1>1. /\ DOMAIN b.admins \subseteq Int /\ DOMAIN c.admins \subseteq Int /\ DOMAIN d.admins \subseteq Int
      /\ DOMAIN b.media \subseteq Int /\ DOMAIN c.media \subseteq Int /\ DOMAIN d.media \subseteq Int
  BY DatabaseIs, IdAssumption DEF Bounded
<1>2. \A s \in DOMAIN b.servers : \E t \in DOMAIN d.servers : d.servers[t].host = b.servers[s].host
  BY DEF Covers
<1>3. ASSUME NEW a \in DOMAIN b.admins
      PROVE  \E x \in DOMAIN d.admins :
               x <= a /\ d.servers[d.admins[x]].host = b.servers[b.admins[a]].host
  <2>1. PICK y \in DOMAIN c.admins : y <= a /\ c.servers[c.admins[y]].host = b.servers[b.admins[a]].host
    BY DEF Covers
  <2>2. PICK x \in DOMAIN d.admins : x <= y /\ d.servers[d.admins[x]].host = c.servers[c.admins[y]].host
    BY DEF Covers
  <2>3. QED
    BY <1>1, <2>1, <2>2
<1>4. ASSUME NEW m \in DOMAIN b.mappings, LedTo(b, b.mappings[m])
      PROVE  \E n \in DOMAIN d.mappings :
               /\ NameOf[d.mappings[n].user] = NameOf[b.mappings[m].user]
               /\ d.mappings[n].url.host = b.mappings[m].url.host
  <2>1. PICK k \in DOMAIN c.mappings : /\ NameOf[c.mappings[k].user] = NameOf[b.mappings[m].user]
                                       /\ c.mappings[k].url.host = b.mappings[m].url.host
    BY <1>4 DEF Covers
  <2>2. LedTo(c, c.mappings[k])
    BY <1>4, <2>1 DEF LedTo, Covers
  <2>3. QED
    BY <2>1, <2>2 DEF Covers
<1>5. ASSUME NEW v \in DOMAIN b.media, LedTo(b, b.media[v])
      PROVE  \E w \in DOMAIN d.media : /\ w <= v
                                       /\ d.media[w].item = b.media[v].item
                                       /\ d.media[w].url.host = b.media[v].url.host
  <2>1. PICK k \in DOMAIN c.media : /\ k <= v
                                    /\ c.media[k].item = b.media[v].item
                                    /\ c.media[k].url.host = b.media[v].url.host
    BY <1>5 DEF Covers
  <2>2. LedTo(c, c.media[k])
    BY <1>5, <2>1 DEF LedTo, Covers
  <2>3. PICK w \in DOMAIN d.media : /\ w <= k
                                    /\ d.media[w].item = c.media[k].item
                                    /\ d.media[w].url.host = c.media[k].url.host
    BY <2>2 DEF Covers
  <2>4. QED
    BY <1>1, <2>1, <2>3
<1>6. QED
  BY <1>2, <1>3, <1>4, <1>5 DEF Covers

\* Whatever rows an old database has, canonicalization keeps what they lead to.
LEMMA Canonicalized ==
  ASSUME NEW d, Sound(d), ByUrl(d)
  PROVE  LET e == Canonicalize(d)
         IN  /\ Sound(e) /\ ByUrl(e) /\ Plain(e)
             /\ e.users = d.users /\ DOMAIN e.media \subseteq DOMAIN d.media
             /\ Covers(d, e) /\ NewestKept(d, e)
<1> DEFINE home == CanonicalHome(d)
           owner == [m \in DOMAIN d.mappings |-> <<d.mappings[m].user, HomeOf(d, d.mappings[m])>>]
           mappings == [m \in DOMAIN d.mappings |-> Moved(d, d.mappings[m])]
           means == [v \in DOMAIN d.media |-> <<d.media[v].item, HomeOf(d, d.media[v])>>]
           media == [v \in DOMAIN d.media |-> Moved(d, d.media[v])]
           e == Canonicalize(d)
<1>1. d \in Database /\ \A s \in DOMAIN d.servers : d.servers[s] \in Url
  BY DatabaseIs DEF Sound
<1>2. \A m \in DOMAIN d.mappings : d.mappings[m] \in Mapping /\ d.mappings[m].server = NoServer
  BY <1>1, DatabaseIs DEF ByUrl
<1>3. \A v \in DOMAIN d.media : d.media[v] \in Medium /\ d.media[v].server = NoServer
  BY <1>1, DatabaseIs DEF ByUrl
<1>4. \A url \in Url : /\ Canonical(url) \in Url
                       /\ Canonical(url).host = url.host /\ Canonical(url).form = "plain"
  BY DEF Canonical, Url
<1>5. \A m \in DOMAIN d.mappings : /\ owner[m] = <<d.mappings[m].user, Canonical(d.mappings[m].url)>>
                                   /\ mappings[m] \in Mapping
                                   /\ mappings[m].user = d.mappings[m].user
                                   /\ mappings[m].url = Canonical(d.mappings[m].url)
                                   /\ mappings[m].server = NoServer
                                   /\ d.mappings[m].url \in Url
  BY <1>2, <1>4 DEF Moved, HomeOf, Mapping
<1>6. \A v \in DOMAIN d.media : /\ means[v] = <<d.media[v].item, Canonical(d.media[v].url)>>
                                /\ media[v] \in Medium
                                /\ media[v].item = d.media[v].item
                                /\ media[v].url = Canonical(d.media[v].url)
                                /\ media[v].server = NoServer
                                /\ d.media[v].url \in Url
  BY <1>3, <1>4 DEF Moved, HomeOf, Medium
<1>7. home \in [DOMAIN d.servers -> Url] /\ \A s \in DOMAIN home : home[s] = Canonical(d.servers[s])
  BY <1>1, <1>4 DEF CanonicalHome
<1>8. DOMAIN owner = DOMAIN d.mappings /\ DOMAIN means = DOMAIN d.media
  OBVIOUS
<1>9. e = Merge(d, home, owner, mappings, means, media)
  BY DEF Canonicalize
<1> HIDE DEF home, owner, mappings, means, media, e
<1>10. Fits(d, home, owner, mappings, means, media)
  <2>1. \A s \in DOMAIN home : home[s].host = d.servers[s].host
    BY <1>1, <1>4, <1>7
  <2>2. \A m \in DOMAIN owner : mappings[m].url.host = d.mappings[m].url.host
    BY <1>4, <1>5, <1>8
  <2>3. \A m, n \in DOMAIN owner :
          owner[m] = owner[n] <=> mappings[m].user = mappings[n].user /\ mappings[m].url = mappings[n].url
    BY <1>5, <1>8
  <2>4. \A v \in DOMAIN means : media[v].url.host = d.media[v].url.host
    BY <1>4, <1>6, <1>8
  <2>5. \A v, w \in DOMAIN means :
          means[v] = means[w] <=> media[v].item = media[w].item /\ media[v].url = media[w].url
    BY <1>6, <1>8
  <2>6. QED
    BY <1>5, <1>6, <1>7, <1>8, <2>1, <2>2, <2>3, <2>4, <2>5 DEF Fits
<1>11. /\ Sound(e)
       /\ RowsCovered(d, owner, means, e)
       /\ SessionsCovered(d, owner, e)
       /\ \A s \in DOMAIN d.servers : \E t \in DOMAIN e.servers : e.servers[t] = home[s]
       /\ \A t \in DOMAIN e.servers : t \in DOMAIN home /\ e.servers[t] = home[t]
       /\ \A n \in DOMAIN e.mappings : n \in DOMAIN owner /\ e.mappings[n] = mappings[n]
       /\ \A w \in DOMAIN e.media : w \in DOMAIN means /\ e.media[w] = media[w]
  BY <1>9, <1>10, Merged
<1>12. Plain(e)
  BY <1>1, <1>4, <1>5, <1>6, <1>7, <1>8, <1>11 DEF Plain
<1>13. ByUrl(e)
  BY <1>5, <1>6, <1>8, <1>11 DEF ByUrl
<1>14. \A s \in DOMAIN d.servers : \E t \in DOMAIN e.servers : e.servers[t].host = d.servers[s].host
  BY <1>1, <1>4, <1>7, <1>11
<1>15. Covers(d, e)
  BY <1>8, <1>11, <1>14 DEF Covers, RowsCovered
<1>16. NewestKept(d, e)
  <2>1. \A s \in DOMAIN d.sessions : d.sessions[s].mapping \in DOMAIN owner
    BY <1>8 DEF Sound, References
  <2>2. QED
    BY <1>11, <2>1 DEF NewestKept, SessionsCovered
<1>17. e.users = d.users /\ DOMAIN e.media \subseteq DOMAIN d.media
  BY <1>8, <1>11 DEF RowsCovered
<1>18. QED
  BY <1>11, <1>12, <1>13, <1>15, <1>16, <1>17 DEF e

\* A database of this version is canonical.
LEMMA CanonicalUnchanged ==
  ASSUME NEW d \in Database, Current(d)
  PROVE  Canonicalize(d) = d
<1> DEFINE home == CanonicalHome(d)
           owner == [m \in DOMAIN d.mappings |-> <<d.mappings[m].user, HomeOf(d, d.mappings[m])>>]
           mappings == [m \in DOMAIN d.mappings |-> Moved(d, d.mappings[m])]
           means == [v \in DOMAIN d.media |-> <<d.media[v].item, HomeOf(d, d.media[v])>>]
           media == [v \in DOMAIN d.media |-> Moved(d, d.media[v])]
<1>1. Bounded(Id) /\ NoServer \notin Id
  BY IdAssumption
<1>2. \A url \in Url : url.form = "plain" => Canonical(url) = url
  BY DEF Canonical, Url
<1>3. home = d.servers
  <2>1. d.servers \in Table(Url) /\ \A s \in DOMAIN d.servers : d.servers[s] \in Url
    BY DatabaseIs
  <2>2. \A s \in DOMAIN d.servers : Canonical(d.servers[s]) = d.servers[s]
    BY <1>2, <2>1 DEF Current
  <2>3. d.servers = [s \in DOMAIN d.servers |-> d.servers[s]]
    BY <2>1, TableIs
  <2>4. QED
    BY <2>2, <2>3 DEF CanonicalHome
<1>4. /\ Firsts(home) = DOMAIN d.servers /\ DOMAIN home = DOMAIN d.servers
      /\ \A s \in DOMAIN d.servers : FirstLike(home, s) = s
  <2>1. Unique(d.servers) /\ DOMAIN d.servers \subseteq Id
    BY DatabaseIs DEF Current
  <2>2. QED
    BY <1>1, <1>3, <2>1, FirstsOfUnique
<1>5. \A m \in DOMAIN d.mappings : /\ HomeOf(d, d.mappings[m]) = d.mappings[m].url
                                   /\ Moved(d, d.mappings[m]) = d.mappings[m]
  <2> SUFFICES ASSUME NEW m \in DOMAIN d.mappings
               PROVE  /\ HomeOf(d, d.mappings[m]) = d.mappings[m].url
                      /\ Moved(d, d.mappings[m]) = d.mappings[m]
    OBVIOUS
  <2>1. /\ d.mappings[m] \in Mapping /\ d.mappings[m].server \in DOMAIN d.servers
        /\ d.mappings[m].server \in Id /\ d.mappings[m].url = d.servers[d.mappings[m].server]
        /\ d.mappings[m].url \in Url
    BY DatabaseIs DEF Current, ById
  <2>2. HomeOf(d, d.mappings[m]) = d.mappings[m].url
    BY <1>1, <1>2, <2>1 DEF HomeOf, Current
  <2>3. FirstLike(CanonicalHome(d), d.mappings[m].server) = d.mappings[m].server
    BY <1>4, <2>1
  <2>4. QED
    BY <1>1, <2>1, <2>2, <2>3 DEF Moved, Mapping
<1>6. \A v \in DOMAIN d.media : /\ HomeOf(d, d.media[v]) = d.media[v].url
                                /\ Moved(d, d.media[v]) = d.media[v]
  <2> SUFFICES ASSUME NEW v \in DOMAIN d.media
               PROVE  /\ HomeOf(d, d.media[v]) = d.media[v].url
                      /\ Moved(d, d.media[v]) = d.media[v]
    OBVIOUS
  <2>1. /\ d.media[v] \in Medium /\ d.media[v].server \in DOMAIN d.servers
        /\ d.media[v].server \in Id /\ d.media[v].url = d.servers[d.media[v].server]
        /\ d.media[v].url \in Url
    BY DatabaseIs DEF Current, ById
  <2>2. HomeOf(d, d.media[v]) = d.media[v].url
    BY <1>1, <1>2, <2>1 DEF HomeOf, Current
  <2>3. FirstLike(CanonicalHome(d), d.media[v].server) = d.media[v].server
    BY <1>4, <2>1
  <2>4. QED
    BY <1>1, <2>1, <2>2, <2>3 DEF Moved, Medium
<1>7. /\ DOMAIN owner = DOMAIN d.mappings /\ Firsts(owner) = DOMAIN d.mappings
      /\ \A m \in DOMAIN d.mappings : FirstLike(owner, m) = m
  <2>1. owner = MappingUrls(d)
    BY <1>5 DEF MappingUrls
  <2>2. Unique(owner) /\ DOMAIN owner \subseteq Id
    BY <2>1, DatabaseIs DEF Current, UniqueKeys
  <2>3. QED
    BY <1>1, <2>2, FirstsOfUnique
<1>8. DOMAIN means = DOMAIN d.media /\ Firsts(means) = DOMAIN d.media
  <2>1. means = MediaUrls(d)
    BY <1>6 DEF MediaUrls
  <2>2. Unique(means) /\ DOMAIN means \subseteq Id
    BY <2>1, DatabaseIs DEF Current, UniqueKeys
  <2>3. QED
    BY <1>1, <2>2, FirstsOfUnique
<1>9. [m \in Firsts(owner) |-> mappings[m]] = d.mappings
  <2>1. d.mappings = [m \in DOMAIN d.mappings |-> d.mappings[m]]
    BY DatabaseIs, TableIs
  <2>2. QED
    BY <1>5, <1>7, <2>1
<1>10. [v \in Firsts(means) |-> media[v]] = d.media
  <2>1. d.media = [v \in DOMAIN d.media |-> d.media[v]]
    BY DatabaseIs, TableIs
  <2>2. QED
    BY <1>6, <1>8, <2>1
<1>11. MergeAdmins(d.admins, home) = d.admins
  <2> DEFINE serves == [a \in DOMAIN d.admins |-> home[d.admins[a]]]
  <2>1. /\ \A a \in DOMAIN d.admins : d.admins[a] \in DOMAIN d.servers
        /\ Unique(d.admins) /\ DOMAIN d.admins \subseteq Id
        /\ d.admins = [a \in DOMAIN d.admins |-> d.admins[a]]
    BY DatabaseIs, TableIs DEF Current, References, UniqueKeys
  <2>2. Unique(serves) /\ DOMAIN serves = DOMAIN d.admins
    BY <1>3, <2>1 DEF Unique, Current
  <2>3. Firsts(serves) = DOMAIN d.admins
    BY <1>1, <2>1, <2>2, FirstsOfUnique
  <2>4. QED
    BY <1>4, <2>1, <2>3 DEF MergeAdmins
<1>12. MergeSessions(d.sessions, [m \in DOMAIN owner |-> FirstLike(owner, m)]) = d.sessions
  <2> DEFINE to == [m \in DOMAIN owner |-> FirstLike(owner, m)]
             key == [s \in {t \in DOMAIN d.sessions : d.sessions[t].mapping \in DOMAIN to} |->
                       <<d.sessions[s].user, d.sessions[s].device, to[d.sessions[s].mapping]>>]
             latest == {s \in DOMAIN key : \A t \in DOMAIN key :
                          key[t] = key[s] => \/ d.sessions[t].used < d.sessions[s].used
                                             \/ d.sessions[t].used = d.sessions[s].used /\ t <= s}
  <2>1. /\ \A s \in DOMAIN d.sessions : d.sessions[s] \in Session /\ d.sessions[s].mapping \in DOMAIN d.mappings
        /\ DOMAIN d.sessions \subseteq Int
        /\ d.sessions = [s \in DOMAIN d.sessions |-> d.sessions[s]]
        /\ Unique(SessionKeys(d))
    BY <1>1, DatabaseIs, TableIs DEF Current, References, UniqueKeys, Bounded
  <2>2. DOMAIN key = DOMAIN d.sessions /\ \A m \in DOMAIN d.mappings : to[m] = m
    BY <1>7, <2>1
  <2>3. \A s, t \in DOMAIN d.sessions : key[s] = key[t] => s = t
    BY <2>1, <2>2 DEF Unique, SessionKeys
  <2>4. latest = DOMAIN d.sessions
    <3>1. \A s \in DOMAIN d.sessions : d.sessions[s].used \in Int /\ s \in Int
      BY <2>1, IdAssumption DEF Session, Bounded
    <3>2. ASSUME NEW s \in DOMAIN d.sessions, NEW t \in DOMAIN key, key[t] = key[s]
          PROVE  d.sessions[t].used = d.sessions[s].used /\ t <= s
      <4> HIDE DEF key
      <4>1. t = s
        BY <2>2, <2>3, <3>2
      <4>2. QED
        BY <3>1, <4>1
    <3> HIDE DEF key
    <3>3. QED
      BY <2>2, <3>2
  <2>5. \A s \in DOMAIN d.sessions : [d.sessions[s] EXCEPT !.mapping = to[@]] = d.sessions[s]
    BY <2>1, <2>2 DEF Session
  <2>6. MergeSessions(d.sessions, to) = [s \in latest |-> [d.sessions[s] EXCEPT !.mapping = to[@]]]
    BY DEF MergeSessions
  <2>7. QED
    BY <2>1, <2>4, <2>5, <2>6
<1>13. [s \in Firsts(home) |-> home[s]] = d.servers
  <2>1. d.servers = [s \in DOMAIN d.servers |-> d.servers[s]]
    BY DatabaseIs, TableIs
  <2>2. QED
    BY <1>3, <1>4, <2>1
<1>14. Canonicalize(d) = [users |-> d.users, servers |-> d.servers, admins |-> d.admins,
                          mappings |-> d.mappings, sessions |-> d.sessions, media |-> d.media]
  BY <1>9, <1>10, <1>11, <1>12, <1>13 DEF Canonicalize, Merge
<1>15. QED
  BY <1>14 DEF Database

\* Three users have one name.
Threefold(d) ==
  \E u, v, w \in d.users : /\ u # v /\ v # w /\ u # w
                           /\ NameOf[u] = NameOf[v] /\ NameOf[v] = NameOf[w]

\* The first migration leaves one user of a name with what all of them had; its result
\* breaks no constraint unless there are three of one name.
LEMMA UsersMerged ==
  ASSUME NEW d, Sound(d)
  PROVE  LET e == MergeUsers(d)
         IN  /\ e \in Database /\ References(e) /\ OwnSessions(e) /\ OneName(e)
             /\ Covers(d, e)
             /\ e.servers = d.servers /\ e.media = d.media
             /\ ByUrl(d) => ByUrl(e)
             /\ Plain(d) => Plain(e)
             /\ UniqueKeys(e) \/ Threefold(d)
<1> DEFINE name == [u \in d.users |-> NameOf[u]]
           to == Becomes(d)
           kept == KeptMappings(d)
           mappings == [m \in kept |-> [d.mappings[m] EXCEPT !.user = to[@]]]
           K == {t \in DOMAIN d.sessions : d.sessions[t].mapping \in kept}
           sessions == [s \in K |-> [d.sessions[s] EXCEPT !.user = to[@]]]
           e == MergeUsers(d)
<1>1. d \in Database /\ References(d) /\ UniqueKeys(d) /\ OwnSessions(d)
  BY DEF Sound
<1>2. /\ d.users \subseteq User /\ d.servers \in Table(Url) /\ d.admins \in Table(Id)
      /\ d.media \in Table(Medium)
      /\ DOMAIN d.admins \subseteq Int /\ DOMAIN d.media \subseteq Int
      /\ DOMAIN d.mappings \subseteq Id /\ DOMAIN d.sessions \subseteq Id
      /\ \A m \in DOMAIN d.mappings : d.mappings[m] \in Mapping /\ d.mappings[m].user \in d.users
      /\ \A s \in DOMAIN d.sessions : /\ d.sessions[s] \in Session /\ d.sessions[s].user \in d.users
                                      /\ d.sessions[s].mapping \in DOMAIN d.mappings
  BY <1>1, DatabaseIs, IdAssumption DEF References, Bounded
<1>3. /\ e.users = {u \in d.users : to[u] = u} /\ e.servers = d.servers /\ e.admins = d.admins
      /\ e.mappings = mappings /\ e.sessions = sessions /\ e.media = d.media
      /\ e = [users |-> {u \in d.users : to[u] = u}, servers |-> d.servers, admins |-> d.admins,
              mappings |-> mappings, sessions |-> sessions, media |-> d.media]
  <2> DEFINE users == {u \in d.users : to[u] = u}
  <2>1. e = [d EXCEPT !.users = users, !.mappings = mappings, !.sessions = sessions]
    BY DEF MergeUsers
  <2>2. d = [users |-> d.users, servers |-> d.servers, admins |-> d.admins,
             mappings |-> d.mappings, sessions |-> d.sessions, media |-> d.media]
    BY <1>1 DEF Database
  <2> HIDE DEF users, mappings, sessions, e
  <2>3. e = [users |-> users, servers |-> d.servers, admins |-> d.admins,
             mappings |-> mappings, sessions |-> sessions, media |-> d.media]
    BY <2>1, <2>2
  <2>4. QED
    BY <2>3 DEF users
<1>4. \A u \in d.users : /\ to[u] \in d.users /\ NameOf[to[u]] = NameOf[u] /\ to[to[u]] = to[u]
                         /\ to[u] \in User
  <2>1. Bounded(User) /\ DOMAIN name = d.users
    BY IdAssumption
  <2>2. /\ Firsts(name) \subseteq d.users
        /\ \A u \in d.users : FirstLike(name, u) \in Firsts(name) /\ name[FirstLike(name, u)] = name[u]
        /\ \A u \in Firsts(name) : FirstLike(name, u) = u
    BY <1>2, <2>1, FirstsAre
  <2>3. to = [u \in d.users |-> FirstLike(name, u)]
    BY DEF Becomes
  <2> HIDE DEF to
  <2>4. \A u \in d.users : to[u] = FirstLike(name, u)
    BY <2>3
  <2>5. \A u \in d.users : to[u] \in d.users
    BY <2>2, <2>4
  <2>6. \A u \in d.users : name[u] = NameOf[u]
    OBVIOUS
  <2> HIDE DEF name
  <2>7. QED
    BY <1>2, <2>2, <2>4, <2>5, <2>6
<1>5. \A u, v \in d.users : NameOf[u] = NameOf[v] => to[u] = to[v]
  <2>1. Bounded(User) /\ DOMAIN name = d.users
    BY IdAssumption
  <2>2. \A u, v \in d.users : name[u] = name[v] => FirstLike(name, u) = FirstLike(name, v)
    BY <1>2, <2>1, FirstsAre
  <2>3. QED
    BY <2>2 DEF Becomes
<1>6. /\ kept \subseteq DOMAIN d.mappings
      /\ \A m \in DOMAIN d.mappings :
           m \in kept <=> \/ to[d.mappings[m].user] = d.mappings[m].user
                          \/ ~\E n \in DOMAIN d.mappings :
                                /\ d.mappings[n].user = to[d.mappings[m].user]
                                /\ Trimmed(d.mappings[n].url) = Trimmed(d.mappings[m].url)
  BY DEF KeptMappings
<1> HIDE DEF name, to, kept, e
<1>7. \A m \in kept : /\ mappings[m] \in Mapping
                      /\ mappings[m].user = to[d.mappings[m].user]
                      /\ mappings[m].url = d.mappings[m].url
                      /\ mappings[m].server = d.mappings[m].server
  BY <1>2, <1>4, <1>6 DEF Mapping
<1>8. /\ K \subseteq DOMAIN d.sessions
      /\ \A s \in K : /\ d.sessions[s].mapping \in kept
                      /\ sessions[s] \in Session
                      /\ sessions[s].user = to[d.sessions[s].user]
                      /\ sessions[s].mapping = d.sessions[s].mapping
                      /\ sessions[s].device = d.sessions[s].device
  <2>1. K \subseteq DOMAIN d.sessions
    OBVIOUS
  <2>2. \A s \in K : d.sessions[s].mapping \in kept
    OBVIOUS
  <2>3. \A s \in K : sessions[s] = [d.sessions[s] EXCEPT !.user = to[@]]
    OBVIOUS
  <2>4. QED
    BY <1>2, <1>4, <2>1, <2>2, <2>3 DEF Session
<1>9. mappings \in Table(Mapping) /\ DOMAIN mappings = kept
  BY <1>2, <1>6, <1>7, TableIs
<1>10. sessions \in Table(Session) /\ DOMAIN sessions = K
  BY <1>2, <1>8, TableIs
<1> HIDE DEF mappings, sessions, K
<1>11. e \in Database
  BY <1>2, <1>3, <1>9, <1>10 DEF Database
<1>12. References(e)
  <2>1. \A m \in kept : mappings[m].user \in e.users
    BY <1>2, <1>3, <1>4, <1>6, <1>7
  <2>2. \A s \in K : sessions[s].user \in e.users
    BY <1>2, <1>3, <1>4, <1>8
  <2>3. QED
    BY <1>1, <1>3, <1>8, <1>9, <1>10, <2>1, <2>2 DEF References
<1>13. OwnSessions(e)
  BY <1>1, <1>3, <1>7, <1>8, <1>9, <1>10 DEF OwnSessions
<1>14. OneName(e)
  BY <1>3, <1>5 DEF OneName
<1>15. \A url1, url2 \in Url : Trimmed(url1) = Trimmed(url2) => url1.host = url2.host
  BY DEF Trimmed, Canonical, Url
<1>16. \A m \in DOMAIN d.mappings :
         \E n \in kept : /\ NameOf[mappings[n].user] = NameOf[d.mappings[m].user]
                         /\ mappings[n].url.host = d.mappings[m].url.host
  <2> SUFFICES ASSUME NEW m \in DOMAIN d.mappings
               PROVE  \E n \in kept : /\ NameOf[mappings[n].user] = NameOf[d.mappings[m].user]
                                      /\ mappings[n].url.host = d.mappings[m].url.host
    OBVIOUS
  <2>1. CASE m \in kept
    BY <1>2, <1>4, <1>7, <2>1
  <2>2. CASE m \notin kept
    <3>1. PICK n \in DOMAIN d.mappings : /\ d.mappings[n].user = to[d.mappings[m].user]
                                         /\ Trimmed(d.mappings[n].url) = Trimmed(d.mappings[m].url)
      BY <1>6, <2>2
    <3>2. d.mappings[n].url.host = d.mappings[m].url.host
      BY <1>2, <1>15, <3>1 DEF Mapping
    <3>3. to[d.mappings[n].user] = d.mappings[n].user
      BY <1>2, <1>4, <3>1
    <3>4. QED
      BY <1>2, <1>4, <1>6, <1>7, <3>1, <3>2, <3>3
  <2>3. QED
    BY <2>1, <2>2
<1>17. Covers(d, e)
  BY <1>2, <1>3, <1>9, <1>16 DEF Covers
<1>18. ByUrl(d) => ByUrl(e)
  BY <1>3, <1>6, <1>7, <1>9 DEF ByUrl
<1>19. Plain(d) => Plain(e)
  BY <1>3, <1>6, <1>7, <1>9 DEF Plain
<1>20. ASSUME ~Threefold(d)
       PROVE  UniqueKeys(e)
  <2>1. ASSUME NEW m \in kept, NEW n \in kept,
               mappings[m].user = mappings[n].user, mappings[m].url = mappings[n].url
        PROVE  m = n
    <3> DEFINE u == d.mappings[m].user
               v == d.mappings[n].user
    <3>1. /\ u \in d.users /\ v \in d.users /\ to[u] \in d.users /\ to[u] = to[v]
          /\ NameOf[to[u]] = NameOf[u] /\ NameOf[to[v]] = NameOf[v]
          /\ d.mappings[m].url = d.mappings[n].url
          /\ m \in DOMAIN d.mappings /\ n \in DOMAIN d.mappings
      BY <1>2, <1>4, <1>6, <1>7, <2>1
    <3>2. u = v
      <4>1. u = to[u] \/ v = to[v] \/ u = v
        BY <1>20, <3>1 DEF Threefold
      <4>2. u = to[u] => v = to[v]
        BY <1>6, <3>1
      <4>3. v = to[v] => u = to[u]
        BY <1>6, <3>1
      <4>4. QED
        BY <3>1, <4>1, <4>2, <4>3
    <3>3. MappingUrls(d)[m] = MappingUrls(d)[n] /\ Unique(MappingUrls(d))
      BY <1>1, <3>1, <3>2 DEF MappingUrls, UniqueKeys
    <3>4. QED
      BY <3>1, <3>3 DEF Unique, MappingUrls
  <2>2. Unique(MappingUrls(e))
    BY <1>3, <1>9, <2>1 DEF Unique, MappingUrls
  <2>3. ASSUME NEW s \in K, NEW t \in K, sessions[s].mapping = sessions[t].mapping,
               sessions[s].device = sessions[t].device
        PROVE  s = t
    <3>1. /\ s \in DOMAIN d.sessions /\ t \in DOMAIN d.sessions
          /\ d.sessions[s].mapping = d.sessions[t].mapping
          /\ d.sessions[s].device = d.sessions[t].device
          /\ d.sessions[s].user = d.sessions[t].user
      BY <1>1, <1>8, <2>3 DEF OwnSessions
    <3>2. SessionKeys(d)[s] = SessionKeys(d)[t] /\ Unique(SessionKeys(d))
      BY <1>1, <3>1 DEF SessionKeys, UniqueKeys
    <3>3. QED
      BY <3>1, <3>2 DEF Unique, SessionKeys
  <2>4. Unique(SessionKeys(e))
    BY <1>3, <1>10, <2>3 DEF Unique, SessionKeys
  <2>5. MediaUrls(e) = MediaUrls(d)
    BY <1>3 DEF MediaUrls
  <2>6. QED
    BY <1>1, <1>3, <2>2, <2>4, <2>5 DEF UniqueKeys
<1>21. QED
  BY <1>3, <1>11, <1>12, <1>13, <1>14, <1>17, <1>18, <1>19, <1>20 DEF e

\* The second migration gives canonical rows the ids of their servers, and so makes the
\* database one of this version.
LEMMA Identified ==
  ASSUME NEW d, Sound(d), ByUrl(d), OneName(d), DOMAIN d.servers = {} \/ Plain(d)
  PROVE  LET e == IdentifyServers(d)
         IN  /\ e \in Database /\ Current(e)
             /\ DOMAIN e.media \subseteq DOMAIN d.media
             /\ Covers(d, e) /\ NewestKept(d, e)
<1> DEFINE home == TrimmedHome(d)
           mine == Led(d, d.mappings)
           known == Led(d, d.media)
           owner == [m \in mine |-> <<d.mappings[m].user, LeadsTo(d, d.mappings[m])>>]
           mappings == [m \in mine |-> [d.mappings[m] EXCEPT !.server = LeadsTo(d, d.mappings[m])]]
           means == [v \in known |-> <<d.media[v].item, LeadsTo(d, d.media[v])>>]
           media == [v \in known |-> [d.media[v] EXCEPT !.server = LeadsTo(d, d.media[v])]]
           e == IdentifyServers(d)
<1>1. d \in Database /\ References(d) /\ UniqueKeys(d) /\ OwnSessions(d)
  BY DEF Sound
<1>2. /\ \A s \in DOMAIN d.servers : d.servers[s] \in Url
      /\ \A m \in DOMAIN d.mappings : d.mappings[m] \in Mapping /\ d.mappings[m].url \in Url
      /\ \A v \in DOMAIN d.media : d.media[v] \in Medium /\ d.media[v].url \in Url
      /\ DOMAIN d.servers \subseteq Id
  BY <1>1, DatabaseIs DEF Mapping, Medium
<1>3. \A url \in Url : /\ Trimmed(url) \in Url /\ Trimmed(url).host = url.host
                       /\ url.form = "plain" => Trimmed(url) = url
  BY DEF Trimmed, Canonical, Url
<1>4. /\ home \in [DOMAIN d.servers -> Url] /\ DOMAIN home = DOMAIN d.servers
      /\ \A s \in DOMAIN d.servers : home[s] = Trimmed(d.servers[s]) /\ home[s].host = d.servers[s].host
  BY <1>2, <1>3 DEF TrimmedHome
<1>5. /\ Firsts(home) \subseteq DOMAIN d.servers
      /\ \A s \in DOMAIN d.servers : \E t \in Firsts(home) : home[t] = home[s]
      /\ \A s, t \in Firsts(home) : home[s] = home[t] => s = t
  <2> HIDE DEF home
  <2>1. Bounded(Id) /\ DOMAIN home \subseteq Id
    BY <1>2, <1>4, IdAssumption
  <2>2. /\ Firsts(home) \subseteq DOMAIN home
        /\ \A s \in DOMAIN home : FirstLike(home, s) \in Firsts(home) /\ home[FirstLike(home, s)] = home[s]
        /\ \A s, t \in Firsts(home) : home[s] = home[t] => s = t
    BY <2>1, FirstsAre
  <2>3. QED
    BY <1>4, <2>2
<1>6. ASSUME NEW row, NEW s \in DOMAIN d.servers, home[s] = Trimmed(row.url)
      PROVE  LeadsTo(d, row) \in Firsts(home) /\ home[LeadsTo(d, row)] = Trimmed(row.url)
  BY <1>5, <1>6 DEF LeadsTo
<1>7. \A m \in mine : /\ m \in DOMAIN d.mappings
                      /\ LeadsTo(d, d.mappings[m]) \in Firsts(home)
                      /\ home[LeadsTo(d, d.mappings[m])] = Trimmed(d.mappings[m].url)
  BY <1>6 DEF Led
<1>8. \A v \in known : /\ v \in DOMAIN d.media
                       /\ LeadsTo(d, d.media[v]) \in Firsts(home)
                       /\ home[LeadsTo(d, d.media[v])] = Trimmed(d.media[v].url)
  BY <1>6 DEF Led
<1>9. e = Merge(d, home, owner, mappings, means, media)
  BY DEF IdentifyServers
<1>10. DOMAIN owner = mine /\ DOMAIN means = known
  OBVIOUS
<1>11. \A m \in mine : /\ owner[m] = <<d.mappings[m].user, LeadsTo(d, d.mappings[m])>>
                       /\ mappings[m] \in Mapping
                       /\ mappings[m].user = d.mappings[m].user
                       /\ mappings[m].url = d.mappings[m].url
                       /\ mappings[m].server = LeadsTo(d, d.mappings[m])
  BY <1>2, <1>5, <1>7 DEF Mapping
<1>12. \A v \in known : /\ means[v] = <<d.media[v].item, LeadsTo(d, d.media[v])>>
                        /\ media[v] \in Medium
                        /\ media[v].item = d.media[v].item
                        /\ media[v].url = d.media[v].url
                        /\ media[v].server = LeadsTo(d, d.media[v])
  BY <1>2, <1>5, <1>8 DEF Medium
<1>13. \A m \in DOMAIN d.mappings :
         m \in mine <=> \E s \in DOMAIN d.servers : home[s] = Trimmed(d.mappings[m].url)
  BY DEF Led
<1>14. \A v \in DOMAIN d.media :
         v \in known <=> \E s \in DOMAIN d.servers : home[s] = Trimmed(d.media[v].url)
  BY DEF Led
<1> HIDE DEF home, mine, known, owner, mappings, means, media, e
<1>15. Fits(d, home, owner, mappings, means, media)
  <2>1. \A m, n \in mine :
          owner[m] = owner[n] <=> /\ mappings[m].user = mappings[n].user
                                  /\ LeadsTo(d, d.mappings[m]) = LeadsTo(d, d.mappings[n])
    BY <1>11
  <2>2. \A m, n \in mine :
          LeadsTo(d, d.mappings[m]) = LeadsTo(d, d.mappings[n]) => mappings[m].url.host = mappings[n].url.host
    BY <1>2, <1>3, <1>7, <1>11
  <2>3. \A m, n \in mine :
          mappings[m].url = mappings[n].url => LeadsTo(d, d.mappings[m]) = LeadsTo(d, d.mappings[n])
    BY <1>5, <1>7, <1>11
  <2>4. \A v, w \in known :
          means[v] = means[w] <=> /\ media[v].item = media[w].item
                                  /\ LeadsTo(d, d.media[v]) = LeadsTo(d, d.media[w])
    BY <1>12
  <2>5. \A v, w \in known :
          LeadsTo(d, d.media[v]) = LeadsTo(d, d.media[w]) => media[v].url.host = media[w].url.host
    BY <1>2, <1>3, <1>8, <1>12
  <2>6. \A v, w \in known :
          media[v].url = media[w].url => LeadsTo(d, d.media[v]) = LeadsTo(d, d.media[w])
    BY <1>5, <1>8, <1>12
  <2>7. /\ mine \subseteq DOMAIN d.mappings
        /\ known \subseteq DOMAIN d.media
        /\ \A m \in mine : mappings[m].url.host = d.mappings[m].url.host
        /\ \A v \in known : media[v].url.host = d.media[v].url.host
    BY <1>7, <1>8, <1>11, <1>12
  <2>8. QED
    BY <1>4, <1>10, <1>11, <1>12, <2>1, <2>2, <2>3, <2>4, <2>5, <2>6, <2>7 DEF Fits
<1>16. /\ Sound(e)
       /\ RowsCovered(d, owner, means, e)
       /\ SessionsCovered(d, owner, e)
       /\ \A s \in DOMAIN d.servers : \E t \in DOMAIN e.servers : e.servers[t] = home[s]
       /\ \A t \in DOMAIN e.servers : t \in DOMAIN home /\ e.servers[t] = home[t]
       /\ Unique(e.servers)
       /\ \A n \in DOMAIN e.mappings : n \in DOMAIN owner /\ e.mappings[n] = mappings[n]
       /\ \A w \in DOMAIN e.media : w \in DOMAIN means /\ e.media[w] = media[w]
  BY <1>9, <1>15, Merged
<1>17. \A s \in Firsts(home) : \E t \in DOMAIN e.servers : e.servers[t] = home[s]
  BY <1>5, <1>16
<1>18. \A s \in Firsts(home) : s \in DOMAIN e.servers /\ e.servers[s] = home[s]
  <2>1. e.servers = [s \in Firsts(home) |-> home[s]]
    BY <1>9 DEF Merge
  <2>2. QED
    BY <2>1
<1>19. \A m \in DOMAIN d.mappings : LedTo(d, d.mappings[m]) => m \in mine
  <2> SUFFICES ASSUME NEW m \in DOMAIN d.mappings, NEW s \in DOMAIN d.servers,
                      d.servers[s].host = d.mappings[m].url.host
               PROVE  m \in mine
    BY DEF LedTo
  <2>1. d.servers[s].form = "plain" /\ d.mappings[m].url.form = "plain"
    BY DEF Plain
  <2>2. d.servers[s] = d.mappings[m].url
    BY <1>2, <2>1 DEF Url
  <2>3. QED
    BY <1>4, <1>13, <2>2
<1>20. \A v \in DOMAIN d.media : LedTo(d, d.media[v]) => v \in known
  <2> SUFFICES ASSUME NEW v \in DOMAIN d.media, NEW s \in DOMAIN d.servers,
                      d.servers[s].host = d.media[v].url.host
               PROVE  v \in known
    BY DEF LedTo
  <2>1. d.servers[s].form = "plain" /\ d.media[v].url.form = "plain"
    BY DEF Plain
  <2>2. d.servers[s] = d.media[v].url
    BY <1>2, <2>1 DEF Url
  <2>3. QED
    BY <1>4, <1>14, <2>2
<1>21. ById(e)
  <2>1. \A m \in mine : /\ mappings[m].server \in DOMAIN e.servers
                        /\ mappings[m].url = e.servers[mappings[m].server]
    <3>1. \A m \in mine : /\ mappings[m].server \in DOMAIN e.servers
                          /\ e.servers[mappings[m].server] = Trimmed(d.mappings[m].url)
      BY <1>7, <1>11, <1>18
    <3>2. \A m \in mine : Trimmed(d.mappings[m].url) = mappings[m].url
      BY <1>2, <1>3, <1>5, <1>7, <1>11 DEF Plain
    <3>3. QED
      BY <3>1, <3>2
  <2>2. \A v \in known : /\ media[v].server \in DOMAIN e.servers
                         /\ media[v].url = e.servers[media[v].server]
    <3>1. \A v \in known : /\ media[v].server \in DOMAIN e.servers
                           /\ e.servers[media[v].server] = Trimmed(d.media[v].url)
      BY <1>8, <1>12, <1>18
    <3>2. \A v \in known : Trimmed(d.media[v].url) = media[v].url
      BY <1>2, <1>3, <1>5, <1>8, <1>12 DEF Plain
    <3>3. QED
      BY <3>1, <3>2
  <2>3. QED
    BY <1>10, <1>16, <2>1, <2>2 DEF ById
<1>22. \A s \in DOMAIN e.servers : e.servers[s].form = "plain"
  BY <1>2, <1>3, <1>4, <1>16 DEF Plain
<1>23. e \in Database /\ Current(e)
  BY <1>16, <1>21, <1>22 DEF Current, Sound, OneName, RowsCovered
<1>24. Covers(d, e)
  <2>1. \A s \in DOMAIN d.servers : \E t \in DOMAIN e.servers : e.servers[t].host = d.servers[s].host
    BY <1>4, <1>16
  <2>2. QED
    BY <1>10, <1>16, <1>19, <1>20, <2>1 DEF Covers, RowsCovered
<1>25. NewestKept(d, e)
  BY <1>1, <1>10, <1>16, <1>19 DEF NewestKept, SessionsCovered, References
<1>26. DOMAIN e.media \subseteq DOMAIN d.media
  BY <1>8, <1>10, <1>16
<1>27. QED
  BY <1>23, <1>24, <1>25, <1>26 DEF e

---------------------------------------------------------------------------
(* The database *)

\* How far the database has come, and what it has kept.
DbInv ==
  /\ migrated \in 0..2
  /\ process \in {"down", "starting", "serving", "failed"}
  /\ Sound(db) /\ was \in Database
  /\ migrated < 2 => ByUrl(db)
  /\ migrated > 0 => OneName(db)
  /\ migrated = 2 => Current(db)
  /\ process = "starting" /\ migrated < 2 => DOMAIN db.servers = {} \/ Plain(db)
  /\ process = "serving" => migrated = 2
  /\ process = "failed" => migrated = 0 /\ Threefold(was)
  /\ migrated = 0 => db.users = was.users
  /\ migrated < 2 \/ process \in {"down", "starting"} => Covers(was, db)

LEMMA CurrentIsSound ==
  ASSUME NEW d \in Database, Current(d)
  PROVE  Sound(d) /\ OneName(d)
BY DEF Current, Sound

LEMMA DbInvInit == ServeInit => DbInv
<1> SUFFICES ASSUME ServeInit PROVE DbInv
  OBVIOUS
<1>1. CASE Init
  <2>1. db \in Database /\ Legacy(db) /\ migrated = 0 /\ process = "down" /\ was = db
    BY <1>1 DEF Init
  <2>2. Covers(was, db)
    BY <2>1, CoversItself
  <2>3. QED
    BY <2>1, <2>2 DEF DbInv, Legacy, Sound
<1>2. CASE db \in Database /\ Current(db) /\ was = db /\ migrated = 2 /\ process = "down"
  <2>1. Sound(db) /\ OneName(db) /\ Covers(was, db)
    BY <1>2, CoversItself, CurrentIsSound
  <2>2. QED
    BY <1>2, <2>1 DEF DbInv
<1>3. QED
  BY <1>1, <1>2 DEF ServeInit

LEMMA NeverRefused ==
  ASSUME DbInv
  PROVE  ~Refused(db)
<1> SUFFICES ASSUME migrated = 2
             PROVE  /\ \A m \in DOMAIN db.mappings : db.mappings[m].server # NoServer
                    /\ \A v \in DOMAIN db.media : db.media[v].server # NoServer
  BY DEF Refused
<1>1. db \in Database /\ ById(db)
  BY DEF DbInv, Sound, Current
<1>2. DOMAIN db.servers \subseteq Id /\ NoServer \notin Id
  BY <1>1, DatabaseIs, IdAssumption
<1>3. QED
  BY <1>1, <1>2 DEF ById

\* A start brings URLs into their canonical form, and does nothing once that is done.
LEMMA Started ==
  ASSUME DbInv, Start
  PROVE  /\ DbInv'
         /\ migrated = 2 => UNCHANGED db
         /\ DOMAIN db'.media \subseteq DOMAIN db.media
         /\ NewestKept(db, db')
<1>1. /\ process' = "starting" /\ process = "down" /\ migrated' = migrated /\ was' = was
      /\ db' = IF DOMAIN db.servers = {} THEN db ELSE Canonicalize(db)
  BY NeverRefused DEF Start
<1>2. db \in Database /\ Sound(db) /\ was \in Database /\ Covers(was, db)
  BY <1>1 DEF DbInv, Sound
<1>3. NewestKept(db, db)
  <2>1. \A s \in DOMAIN db.sessions : db.sessions[s].used \in Int
    BY <1>2, DatabaseIs, IdAssumption DEF Session, Bounded
  <2>2. QED
    BY <2>1 DEF NewestKept
<1>4. CASE migrated = 2 \/ DOMAIN db.servers = {}
  <2>1. db' = db
    BY <1>1, <1>2, <1>4, CanonicalUnchanged DEF DbInv
  <2>2. QED
    BY <1>1, <1>2, <1>3, <1>4, <2>1 DEF DbInv
<1>5. CASE migrated < 2 /\ DOMAIN db.servers # {}
  <2>1. ByUrl(db) /\ db' = Canonicalize(db)
    BY <1>1, <1>5 DEF DbInv
  <2>2. /\ Sound(db') /\ ByUrl(db') /\ Plain(db')
        /\ db'.users = db.users /\ DOMAIN db'.media \subseteq DOMAIN db.media
        /\ Covers(db, db') /\ NewestKept(db, db')
    BY <1>2, <2>1, Canonicalized
  <2>3. Covers(was, db')
    BY <1>2, <2>2, CoversTransitive DEF Sound
  <2>4. OneName(db) => OneName(db')
    BY <2>2 DEF OneName
  <2>5. DbInv'
    BY <1>1, <1>2, <1>5, <2>2, <2>3, <2>4 DEF DbInv
  <2>6. QED
    BY <1>5, <2>2, <2>5
<1>6. QED
  BY <1>4, <1>5 DEF DbInv

LEMMA UsersMigrated ==
  ASSUME DbInv, MigrateUsers
  PROVE  DbInv' /\ migrated < 2 /\ DOMAIN db'.media = DOMAIN db.media
<1> DEFINE e == MergeUsers(db)
<1>1. /\ process = "starting" /\ migrated = 0 /\ was' = was
      /\ Sound(db) /\ db \in Database /\ was \in Database /\ Covers(was, db)
      /\ db.users = was.users /\ ByUrl(db)
      /\ DOMAIN db.servers = {} \/ Plain(db)
  BY DEF MigrateUsers, Migrate, DbInv, Sound
<1>2. /\ e \in Database /\ References(e) /\ OwnSessions(e) /\ OneName(e)
      /\ Covers(db, e) /\ e.servers = db.servers /\ e.media = db.media
      /\ ByUrl(e) /\ (Plain(db) => Plain(e))
      /\ UniqueKeys(e) \/ Threefold(db)
  BY <1>1, UsersMerged
<1>3. Covers(was, e)
  BY <1>1, <1>2, CoversTransitive
<1> HIDE DEF e
<1>4. CASE UniqueKeys(e)
  <2>1. db' = e /\ migrated' = 1 /\ process' = "starting"
    BY <1>1, <1>4 DEF MigrateUsers, Migrate, e
  <2>2. QED
    BY <1>1, <1>2, <1>3, <1>4, <2>1 DEF DbInv, Sound
<1>5. CASE ~UniqueKeys(e)
  <2>1. db' = db /\ migrated' = migrated /\ process' = "failed"
    BY <1>1, <1>5 DEF MigrateUsers, Migrate, e
  <2>2. Threefold(was)
    BY <1>1, <1>2, <1>5 DEF Threefold
  <2>3. QED
    BY <1>1, <2>1, <2>2 DEF DbInv
<1>6. QED
  BY <1>4, <1>5

LEMMA ServersMigrated ==
  ASSUME DbInv, MigrateServers
  PROVE  /\ DbInv' /\ migrated < 2 /\ DOMAIN db'.media \subseteq DOMAIN db.media
         /\ NewestKept(db, db')
<1> DEFINE e == IdentifyServers(db)
<1>1. /\ process = "starting" /\ migrated = 1 /\ was' = was
      /\ Sound(db) /\ db \in Database /\ was \in Database /\ Covers(was, db)
      /\ ByUrl(db) /\ OneName(db)
      /\ DOMAIN db.servers = {} \/ Plain(db)
  BY DEF MigrateServers, Migrate, DbInv, Sound
<1>2. /\ e \in Database /\ Current(e) /\ DOMAIN e.media \subseteq DOMAIN db.media
      /\ Covers(db, e) /\ NewestKept(db, e)
  BY <1>1, Identified
<1>3. Covers(was, e) /\ Sound(e) /\ OneName(e)
  BY <1>1, <1>2, CoversTransitive, CurrentIsSound
<1> HIDE DEF e
<1>4. db' = e /\ migrated' = 2 /\ process' = "starting"
  BY <1>1, <1>2 DEF MigrateServers, Migrate, Current, e
<1>5. QED
  BY <1>1, <1>2, <1>3, <1>4 DEF DbInv

---------------------------------------------------------------------------
(* What is true while the proxy serves *)

\* A process that does not serve has no requests and no caches, and before the
\* migrations nothing was ever shown.
Quiet ==
  /\ process # "serving" =>
       /\ \A r \in Request : requests[r].phase \in {"new", "over"}
       /\ DOMAIN byId = {} /\ DOMAIN byItem = {}
  /\ migrated < 2 => /\ shown = {}
                     /\ \A p \in Aggregate \cup Library : members[p] = {}

\* The ids of media that were ever given are up to issued.
IdsIssued ==
  /\ issued \in Int
  /\ \A v \in DOMAIN db.media : v \in Id /\ v <= issued
  /\ DOMAIN members = Aggregate \cup Library
  /\ \A p \in Aggregate \cup Library : members[p] \subseteq DOMAIN db.media

\* The cache by id is right about the media that there are.
ByIdRight ==
  \A v \in DOMAIN byId :
    /\ v \in Id /\ v <= issued
    /\ v \in DOMAIN db.media => byId[v].server = HostOf(v)

\* What was shown is what the tables have, as long as there is the server.
ShownRight ==
  /\ OneIdPerItem
  /\ \A x \in shown :
       /\ x.id \in Id /\ x.id <= issued
       /\ x = [item |-> x.item, server |-> x.server, id |-> x.id]
       /\ x.server \in Servers => x.id \in DOMAIN db.media
       /\ x.id \in DOMAIN db.media => /\ db.media[x.id].item = x.item
                                      /\ HostOf(x.id) = x.server

\* The cache by item has what was shown.
ByItemRight ==
  \A k \in DOMAIN byItem :
    \E x \in shown : k = <<x.item, x.server>> /\ byItem[k] = x.id

\* Clients name ids that were given.
NamesIssued(ask) == Named(ask) \cap Id \subseteq 1..issued

\* The sessions found are the user's, as long as there are such.
ReadRight(q) ==
  /\ q.ask \in Ask /\ NamesIssued(q.ask)
  /\ q.ask.user = Nobody => DOMAIN q.found = {}
  /\ DOMAIN q.found \subseteq q.then
  /\ q.first \subseteq DOMAIN q.found
  /\ \A s \in DOMAIN q.found : q.found[s] \in DOMAIN db.sessions =>
       db.sessions[q.found[s]].user = q.ask.user /\ ServerOf(q.found[s]) = s

\* The parts of OwnAccount, NamedServerAsked, ReportsExact and IdsBelong for a request.
OwnAccountOf(q) ==
  q.ask.user # Nobody =>
    /\ q.server \in q.then
    /\ q.session # {}
    /\ \A s \in q.session \cap DOMAIN db.sessions :
         db.sessions[s].user = q.ask.user /\ ServerOf(s) = q.server

NamedServerOf(q) ==
  q.ask.kind # "report" /\ UrlIds(q.ask) # <<>> /\ UrlIds(q.ask)[1] \in DOMAIN db.media =>
    q.server = HostOf(UrlIds(q.ask)[1])

ReportOf(q) ==
  q.ask.kind = "report" =>
    /\ q.bound \in {NoServer, q.server}
    /\ \A v \in {q.ask.item, q.ask.source} \cap DOMAIN db.media : HostOf(v) = q.server

IdsOf(q) ==
  /\ \A p \in q.sent : /\ p[2] \in DOMAIN db.media => HostOf(p[2]) = q.server
                       /\ p[1] \in Id => p[1] = p[2]
  /\ \A v \in q.ask.list : \E p \in q.sent : p[1] = v

RoutedRight(q) ==
  /\ q.ask \in Ask /\ NamesIssued(q.ask)
  /\ OwnAccountOf(q) /\ NamedServerOf(q) /\ ReportOf(q)

SentRight(q) == RoutedRight(q) /\ IdsOf(q) /\ \A p \in q.sent : p[2] \in Id /\ p[2] <= issued

RequestRight(q) ==
  /\ q.phase \in {"new", "over", "read", "routed", "sent", "answered", "unmapped"}
  /\ q.phase = "read" => ReadRight(q)
  /\ q.phase = "routed" => RoutedRight(q)
  /\ q.phase = "sent" => SentRight(q)
  /\ q.phase \in {"answered", "unmapped"} =>
       q.item \in Item /\ q = [phase |-> q.phase, server |-> q.server, item |-> q.item]

RequestsRight ==
  /\ DOMAIN requests = Request
  /\ \A r \in Request : RequestRight(requests[r])

IInv == /\ DbInv /\ Quiet /\ IdsIssued /\ ByIdRight /\ ShownRight /\ ByItemRight
        /\ RequestsRight

\* Rows stay as they are as long as they exist, no id is given twice, there is no new
\* server or session, and media stay with their server.
RowsStay ==
  /\ issued <= issued' /\ issued' \in Int
  /\ DOMAIN db'.media \subseteq Id
  /\ \A v \in DOMAIN db'.media : \/ v \in DOMAIN db.media /\ db'.media[v] = db.media[v]
                                 \/ issued < v
  /\ \A s \in DOMAIN db'.sessions :
       /\ s \in DOMAIN db.sessions /\ db'.sessions[s] = db.sessions[s]
       /\ db'.mappings[db.sessions[s].mapping] = db.mappings[db.sessions[s].mapping]
  /\ DOMAIN db'.servers \subseteq DOMAIN db.servers
  /\ \A v \in DOMAIN db.media : HostOf(v) \in DOMAIN db'.servers => v \in DOMAIN db'.media

LEMMA SameRows ==
  ASSUME IdsIssued, UNCHANGED <<db, issued>>
  PROVE  RowsStay
BY DEF RowsStay, IdsIssued

LEMMA FromOneOfTwo ==
  ASSUME NEW S, NEW s \in Seq(S), NEW t \in Seq(S), NEW i \in DOMAIN (s \o t)
  PROVE  (\E j \in DOMAIN s : (s \o t)[i] = s[j]) \/ (\E j \in DOMAIN t : (s \o t)[i] = t[j])
<1>1. CASE i <= Len(s)
  <2>1. i \in DOMAIN s /\ (s \o t)[i] = s[i]
    BY <1>1
  <2>2. QED
    BY <2>1
<1>2. CASE ~(i <= Len(s))
  <2>1. i - Len(s) \in DOMAIN t /\ (s \o t)[i] = t[i - Len(s)]
    BY <1>2
  <2>2. QED
    BY <2>1
<1>3. QED
  BY <1>1, <1>2

\* What is true of the ids that requests name.
LEMMA IdsAre ==
  ASSUME NEW ask \in Ask
  PROVE  /\ Blank \notin Ref /\ Blank \notin Id
         /\ \A i \in DOMAIN UrlIds(ask) : UrlIds(ask)[i] \in Named(ask) \cap Ref
         /\ UrlIds(ask) \in Seq(Ref)
         /\ UrlIds(ask) # <<>> => 1 \in DOMAIN UrlIds(ask)
         /\ BodyIds(ask) \subseteq Named(ask)
         /\ \A v \in ask.list : v \in BodyIds(ask)
         /\ \A v \in {ask.item, ask.source} \cap Id : v \in Named(ask)
<1>1. /\ ask \in Asked /\ Blank \notin Ref /\ Id \subseteq Ref
      /\ ask.path \in Ref \cup {Blank} /\ ask.source \in Ref \cup {Blank}
      /\ ask.query \in Seq(Ref) /\ ask.list \subseteq Ref
  BY AskAssumption, IdsApart DEF Asked, Ref
<1>2. \A v \in Ref \cup {Blank} : /\ IfAny(v) \in Seq(Ref)
                                  /\ \A i \in DOMAIN IfAny(v) : IfAny(v)[i] = v /\ v # Blank
  BY DEF IfAny
<1> DEFINE a == IF ask.kind = "report" THEN <<>> ELSE IfAny(ask.source)
           b == IfAny(ask.path)
<1>3. /\ a \in Seq(Ref) /\ b \in Seq(Ref)
      /\ \A i \in DOMAIN a : a[i] = ask.source /\ ask.source # Blank
      /\ \A i \in DOMAIN b : b[i] = ask.path /\ ask.path # Blank
  BY <1>1, <1>2
<1>4. UrlIds(ask) = a \o b \o ask.query
  BY DEF UrlIds
<1> HIDE DEF a, b
<1>5. UrlIds(ask) \in Seq(Ref)
  BY <1>1, <1>3, <1>4
<1>6. \A i \in DOMAIN UrlIds(ask) : \/ \E j \in DOMAIN a : UrlIds(ask)[i] = a[j]
                                    \/ \E j \in DOMAIN b : UrlIds(ask)[i] = b[j]
                                    \/ \E j \in DOMAIN ask.query : UrlIds(ask)[i] = ask.query[j]
  <2>1. a \o b \in Seq(Ref)
    BY <1>3
  <2>2. ASSUME NEW ab \in Seq(Ref), NEW i \in DOMAIN (ab \o ask.query)
        PROVE  \/ \E j \in DOMAIN ab : (ab \o ask.query)[i] = ab[j]
               \/ \E j \in DOMAIN ask.query : (ab \o ask.query)[i] = ask.query[j]
    <3>1. ask.query \in Seq(Ref)
      BY <1>1
    <3>2. QED
      BY <3>1, FromOneOfTwo
  <2>3. \A i \in DOMAIN (a \o b) : \/ \E j \in DOMAIN a : (a \o b)[i] = a[j]
                                   \/ \E j \in DOMAIN b : (a \o b)[i] = b[j]
    BY <1>3, FromOneOfTwo
  <2> DEFINE ab == a \o b
  <2>4. ab \in Seq(Ref) /\ UrlIds(ask) = ab \o ask.query
    BY <1>4, <2>1
  <2>5. \A i \in DOMAIN ab : (\E j \in DOMAIN a : ab[i] = a[j]) \/ \E j \in DOMAIN b : ab[i] = b[j]
    BY <2>3
  <2> HIDE DEF ab
  <2>6. \A i \in DOMAIN UrlIds(ask) : \/ \E j \in DOMAIN ab : UrlIds(ask)[i] = ab[j]
                                      \/ \E j \in DOMAIN ask.query : UrlIds(ask)[i] = ask.query[j]
    BY <2>2, <2>4
  <2>7. QED
    BY <2>5, <2>6
<1>7. \A i \in DOMAIN UrlIds(ask) : UrlIds(ask)[i] \in Named(ask) \cap Ref
  <2>1. /\ ask.path # Blank => ask.path \in Named(ask)
        /\ ask.source # Blank => ask.source \in Named(ask)
        /\ \A j \in DOMAIN ask.query : ask.query[j] \in Ref /\ ask.query[j] \in Named(ask)
    BY <1>1 DEF Named
  <2>2. QED
    BY <1>1, <1>3, <1>6, <2>1
<1>8. /\ BodyIds(ask) \subseteq Named(ask)
      /\ \A v \in ask.list : v \in BodyIds(ask)
      /\ \A v \in {ask.item, ask.source} \cap Id : v \in Named(ask)
  BY <1>1 DEF BodyIds, Named
<1>9. UrlIds(ask) # <<>> => 1 \in DOMAIN UrlIds(ask)
  BY <1>5
<1>10. QED
  BY <1>1, <1>5, <1>7, <1>8, <1>9

---------------------------------------------------------------------------
(* What stays true when rows stay *)

\* Rows of a database of this version have servers, and an item on a server has one.
LEMMA CurrentRows ==
  ASSUME NEW d \in Database, Current(d)
  PROVE  /\ DOMAIN d.servers \subseteq Id
         /\ \A v \in DOMAIN d.media : v \in Id /\ d.media[v].server \in DOMAIN d.servers
         /\ \A v, w \in DOMAIN d.media :
              /\ d.media[v].item = d.media[w].item
              /\ d.media[v].server = d.media[w].server
              => v = w
         /\ \A s \in DOMAIN d.sessions :
              /\ d.sessions[s].user \in User
              /\ d.sessions[s].mapping \in DOMAIN d.mappings
              /\ d.mappings[d.sessions[s].mapping].server \in DOMAIN d.servers
<1>1. /\ DOMAIN d.media \subseteq Id /\ DOMAIN d.servers \subseteq Id
      /\ \A s \in DOMAIN d.sessions : d.sessions[s] \in Session
  BY DatabaseIs
<1>2. \A v \in DOMAIN d.media : /\ d.media[v].server \in DOMAIN d.servers
                                /\ d.media[v].url = d.servers[d.media[v].server]
  BY DEF Current, ById
<1>3. \A s \in DOMAIN d.sessions :
        /\ d.sessions[s].user \in User
        /\ d.sessions[s].mapping \in DOMAIN d.mappings
        /\ d.mappings[d.sessions[s].mapping].server \in DOMAIN d.servers
  BY <1>1 DEF Current, References, ById, Session
<1>4. ASSUME NEW v \in DOMAIN d.media, NEW w \in DOMAIN d.media,
             d.media[v].item = d.media[w].item, d.media[v].server = d.media[w].server
      PROVE  v = w
  <2>1. MediaUrls(d)[v] = MediaUrls(d)[w]
    BY <1>2, <1>4 DEF MediaUrls
  <2>2. Unique(MediaUrls(d))
    BY DEF Current, UniqueKeys
  <2>3. QED
    BY <2>1, <2>2 DEF Unique, MediaUrls
<1>5. QED
  BY <1>1, <1>2, <1>3, <1>4

LEMMA RowsHaveServers ==
  ASSUME DbInv, migrated = 2
  PROVE  \A s \in DOMAIN db.sessions : db.sessions[s].user \in User /\ ServerOf(s) \in Servers
<1>1. db \in Database /\ Current(db)
  BY DEF DbInv, Sound
<1>2. QED
  BY <1>1, CurrentRows DEF ServerOf, Servers

LEMMA RequestStays ==
  ASSUME IdsIssued, RowsStay, NEW q, RequestRight(q)
  PROVE  RequestRight(q)'
<1>1. issued \in Int /\ issued' \in Int /\ issued <= issued'
  BY DEF IdsIssued, RowsStay
<1>2. \A v \in DOMAIN db'.media :
        v \in Int /\ v <= issued => v \in DOMAIN db.media /\ HostOf(v)' = HostOf(v)
  BY <1>1 DEF RowsStay, HostOf
<1> Id \subseteq Int /\ DOMAIN db'.media \subseteq Id
  BY IdAssumption DEF Bounded, RowsStay
<1>3. \A s \in DOMAIN db'.sessions :
        s \in DOMAIN db.sessions /\ db'.sessions[s].user = db.sessions[s].user /\ ServerOf(s)' = ServerOf(s)
  BY DEF RowsStay, ServerOf
<1>4. NamesIssued(q.ask) => NamesIssued(q.ask)'
  BY <1>1 DEF NamesIssued
<1>5. ReadRight(q) => ReadRight(q)'
  BY <1>3, <1>4 DEF ReadRight
<1>6. ASSUME RoutedRight(q)
      PROVE  RoutedRight(q)'
  <2>1. q.ask \in Ask /\ NamesIssued(q.ask) /\ NamesIssued(q.ask)'
    BY <1>4, <1>6 DEF RoutedRight
  <2>2. OwnAccountOf(q)'
    BY <1>3, <1>6 DEF RoutedRight, OwnAccountOf
  <2>3. \A v \in DOMAIN db'.media : v \in Named(q.ask) => v \in DOMAIN db.media /\ HostOf(v)' = HostOf(v)
    BY <1>1, <1>2, <2>1 DEF NamesIssued
  <2>4. NamedServerOf(q)'
    BY <1>6, <2>1, <2>3, IdsAre DEF RoutedRight, NamedServerOf
  <2>5. ReportOf(q)'
    BY <1>6, <2>1, <2>3, IdsAre DEF RoutedRight, ReportOf
  <2>6. QED
    BY <2>1, <2>2, <2>4, <2>5 DEF RoutedRight
<1>7. ASSUME SentRight(q)
      PROVE  SentRight(q)'
  <2>1. RoutedRight(q)' /\ IdsOf(q) /\ \A p \in q.sent : p[2] \in Id /\ p[2] <= issued
    BY <1>6, <1>7 DEF SentRight
  <2>2. IdsOf(q)'
    BY <1>2, <2>1 DEF IdsOf
  <2>3. \A n \in Int : n <= issued => n <= issued'
    BY <1>1
  <2>4. QED
    BY <2>1, <2>2, <2>3 DEF SentRight
<1>8. QED
  BY <1>5, <1>6, <1>7 DEF RequestRight

\* What was shown stays right when rows stay.
LEMMA ShownStaysRight ==
  ASSUME IdsIssued, ShownRight, RowsStay, NEW x \in shown
  PROVE  /\ x.id \in Id /\ x.id <= issued'
         /\ x = [item |-> x.item, server |-> x.server, id |-> x.id]
         /\ x.server \in DOMAIN db'.servers => x.id \in DOMAIN db'.media
         /\ x.id \in DOMAIN db'.media => /\ db'.media[x.id].item = x.item
                                         /\ db'.media[x.id].server = x.server
<1>0. issued \in Int /\ issued' \in Int /\ issued <= issued' /\ Id \subseteq Int
  BY IdAssumption DEF IdsIssued, RowsStay, Bounded
<1>1. /\ x.id \in Id /\ x.id \in Int /\ x.id <= issued
      /\ x = [item |-> x.item, server |-> x.server, id |-> x.id]
      /\ x.server \in DOMAIN db.servers => x.id \in DOMAIN db.media
      /\ x.id \in DOMAIN db.media => /\ db.media[x.id].item = x.item
                                     /\ db.media[x.id].server = x.server
  BY <1>0 DEF ShownRight, Servers, HostOf
<1>2. x.id <= issued'
  BY <1>0, <1>1
<1>3. x.server \in DOMAIN db'.servers => x.id \in DOMAIN db'.media
  BY <1>1 DEF RowsStay, HostOf
<1>4. x.id \in DOMAIN db'.media => x.id \in DOMAIN db.media /\ db'.media[x.id] = db.media[x.id]
  BY <1>0, <1>1 DEF RowsStay
<1>5. QED
  BY <1>1, <1>2, <1>3, <1>4

LEMMA ShownStays ==
  ASSUME IdsIssued, ShownRight, RowsStay, shown' = shown
  PROVE  ShownRight'
<1>1. OneIdPerItem'
  BY DEF ShownRight, OneIdPerItem
<1>2. QED
  BY <1>1, ShownStaysRight DEF ShownRight, Servers, HostOf

\* The cache by id stays right when rows stay, whatever entries it loses.
LEMMA ByIdStays ==
  ASSUME IdsIssued, ByIdRight, RowsStay, DOMAIN byId' \subseteq DOMAIN byId,
         \A v \in DOMAIN byId' : byId'[v] = byId[v]
  PROVE  ByIdRight'
<1>1. issued \in Int /\ issued' \in Int /\ issued <= issued' /\ Id \subseteq Int
  BY IdAssumption DEF IdsIssued, RowsStay, Bounded
<1>2. ASSUME NEW v \in DOMAIN byId'
      PROVE  /\ v \in Id /\ v <= issued'
             /\ v \in DOMAIN db'.media => byId'[v].server = db'.media[v].server
  <2>1. /\ v \in Id /\ v \in Int /\ v <= issued
        /\ v \in DOMAIN db.media => byId[v].server = db.media[v].server
    BY <1>1, <1>2 DEF ByIdRight, HostOf
  <2>2. v <= issued'
    BY <1>1, <2>1
  <2>3. v \in DOMAIN db'.media => v \in DOMAIN db.media /\ db'.media[v] = db.media[v]
    BY <1>1, <2>1 DEF RowsStay
  <2>4. QED
    BY <1>2, <2>1, <2>2, <2>3
<1>3. QED
  BY <1>2 DEF ByIdRight, HostOf

LEMMA EntryRight ==
  ASSUME ByIdRight, NEW v \in DOMAIN db.media
  PROVE  Knows(v) /\ Entry(v).server = HostOf(v)
BY DEF ByIdRight, Knows, Entry

LEMMA Remembered ==
  ASSUME IdsIssued, ByIdRight, NEW V, Remember(V), UNCHANGED <<db, issued>>
  PROVE  ByIdRight'
<1>1. \A v \in DOMAIN byId' : /\ v \in DOMAIN byId \/ v \in DOMAIN db.media
                              /\ byId'[v] = Entry(v)
  BY DEF Remember
<1>2. \A v \in DOMAIN byId' : v \in Id /\ v <= issued
  BY <1>1 DEF IdsIssued, ByIdRight
<1>3. \A v \in DOMAIN byId' : v \in DOMAIN db.media => byId'[v].server = HostOf(v)
  BY <1>1, EntryRight
<1>4. QED
  BY <1>2, <1>3 DEF ByIdRight, HostOf

LEMMA OneRequest ==
  ASSUME IdsIssued, RequestsRight, RowsStay, NEW r \in Request, NEW q,
         requests' = [requests EXCEPT ![r] = q], RequestRight(q)'
  PROVE  RequestsRight'
<1>1. DOMAIN requests' = Request
  BY DEF RequestsRight
<1>2. ASSUME NEW t \in Request
      PROVE  \E p : requests'[t] = p /\ RequestRight(p)'
  <2>1. CASE t = r
    BY <2>1 DEF RequestsRight
  <2>2. CASE t # r
    <3>1. requests'[t] = requests[t] /\ RequestRight(requests[t])
      BY <2>2 DEF RequestsRight
    <3>2. QED
      BY <3>1, RequestStays
  <2>3. QED
    BY <2>1, <2>2
<1>3. QED
  BY <1>1, <1>2 DEF RequestsRight

LEMMA SameRequests ==
  ASSUME IdsIssued, RequestsRight, RowsStay, requests' = requests
  PROVE  RequestsRight'
<1>1. ASSUME NEW t \in Request
      PROVE  \E p : requests'[t] = p /\ RequestRight(p)'
  <2>1. RequestRight(requests[t])
    BY DEF RequestsRight
  <2>2. QED
    BY <2>1, RequestStays
<1>2. QED
  BY <1>1 DEF RequestsRight

\* Requests on their way are ones of a process that serves.
LEMMA BusyIsServing ==
  ASSUME IInv, NEW r \in Request, requests[r].phase \notin {"new", "over"}
  PROVE  process = "serving" /\ migrated = 2
BY DEF IInv, Quiet, DbInv

---------------------------------------------------------------------------
(* Requests *)

\* A step of a request that leaves the tables alone.
LEMMA RequestStepKeeps ==
  ASSUME IInv, migrated = 2, NEW r \in Request, NEW q, NEW V,
         requests' = [requests EXCEPT ![r] = q], RequestRight(q),
         process = "serving", Remember(V) \/ UNCHANGED byId,
         UNCHANGED <<db, migrated, process, was, members, issued, byItem, shown>>
  PROVE  IInv'
<1>1. RowsStay
  BY SameRows DEF IInv
<1>2. DbInv' /\ IdsIssued'
  BY DEF IInv, DbInv, IdsIssued
<1>3. Quiet'
  BY DEF Quiet
<1>4. ByIdRight'
  BY <1>1, Remembered, ByIdStays DEF IInv
<1>5. ShownRight' /\ ByItemRight'
  BY <1>1, ShownStays DEF IInv, ByItemRight
<1>6. RequestRight(q)'
  BY <1>1, RequestStays DEF IInv
<1>7. RequestsRight'
  BY <1>1, <1>6, OneRequest DEF IInv
<1>8. QED
  BY <1>2, <1>3, <1>4, <1>5, <1>7 DEF IInv

LEMMA OverIsRight == RequestRight(Over)
BY DEF Over, RequestRight

LEMMA Received ==
  ASSUME IInv, NEW r \in Request, NEW ask \in Ask, NEW bound, Receive(r, ask, bound)
  PROVE  IInv'
<1>1. process = "serving" /\ migrated = 2 /\ NamesIssued(ask)
  BY DEF Receive, IInv, DbInv, NamesIssued
<1>2. PICK found \in [{ServerOf(s) : s \in Sessions(ask)} -> Sessions(ask)] :
        /\ \A s \in DOMAIN found : ServerOf(found[s]) = s
        /\ requests' = [requests EXCEPT ![r] =
             IF ask.kind = "report" /\ (ask.item = Blank \/ ~ask.signed \/ ask.user = Nobody)
             THEN Over
             ELSE [phase |-> "read", ask |-> ask, bound |-> bound, found |-> found,
                   first |-> BestOf(DOMAIN found), votes |-> Winners(Votes(ask, bound)),
                   then |-> Servers]]
  BY DEF Receive
<1> DEFINE q == [phase |-> "read", ask |-> ask, bound |-> bound, found |-> found,
                 first |-> BestOf(DOMAIN found), votes |-> Winners(Votes(ask, bound)),
                 then |-> Servers]
<1>3. /\ Remember(BodyIds(ask))
      /\ UNCHANGED <<db, migrated, process, was, members, issued, byItem, shown>>
  BY DEF Receive, vars
<1>4. \A s \in Sessions(ask) : /\ s \in DOMAIN db.sessions /\ db.sessions[s].user = ask.user
                               /\ ServerOf(s) \in Servers /\ ask.user \in User
  BY <1>1, RowsHaveServers DEF Sessions, IInv
<1>5. ReadRight(q)
  <2>1. ask.user = Nobody => DOMAIN found = {}
    BY <1>4, IdsApart
  <2>2. DOMAIN found \subseteq Servers
    BY <1>4
  <2>3. BestOf(DOMAIN found) \subseteq DOMAIN found
    BY DEF BestOf
  <2>4. \A s \in DOMAIN found : found[s] \in Sessions(ask)
    OBVIOUS
  <2>5. QED
    BY <1>1, <1>2, <1>4, <2>1, <2>2, <2>3, <2>4 DEF ReadRight
<1>6. RequestRight(q)
  BY <1>5 DEF RequestRight
<1> HIDE DEF q
<1>7. \E p : requests' = [requests EXCEPT ![r] = p] /\ RequestRight(p)
  <2>1. requests' = [requests EXCEPT ![r] = Over] \/ requests' = [requests EXCEPT ![r] = q]
    BY <1>2 DEF q
  <2>2. QED
    BY <1>6, <2>1, OverIsRight
<1>8. QED
  BY <1>1, <1>3, <1>7, RequestStepKeeps

\* A user's request goes to a server where a session was found.
LEMMA FoundServer ==
  ASSUME NEW q, ReadRight(q), q.ask.user # Nobody, NEW s \in ServersFor(q)
  PROVE  s \in DOMAIN q.found
<1>1. DOMAIN q.found # {}
  BY DEF ServersFor
<1>2. \E W \in Wanted(q) : s \in (IF W # {} /\ W \subseteq DOMAIN q.found THEN W ELSE q.first)
  BY <1>1 DEF ServersFor
<1>3. QED
  BY <1>2 DEF ReadRight

LEMMA NamedServer ==
  ASSUME ByIdRight, NEW q, ReadRight(q), UrlIds(q.ask) # <<>>, NEW s \in ServersFor(q),
         UrlIds(q.ask)[1] \in DOMAIN db.media
  PROVE  s = HostOf(UrlIds(q.ask)[1])
<1> DEFINE ids == UrlIds(q.ask)
           v == ids[1]
<1>1. ids \in Seq(Ref) /\ 1 \in DOMAIN ids
  BY IdsAre DEF ReadRight
<1>2. Knows(v) /\ Entry(v).server = HostOf(v)
  BY EntryRight
<1>3. Decides(q, v)
  BY <1>2 DEF Decides
<1>4. Deciding(q) = {v}
  <2>1. \A j \in DOMAIN ids : (\A k \in 1..(j-1) : ~Decides(q, ids[k])) => j = 1
    BY <1>1, <1>3
  <2>2. \A k \in 1..(1-1) : ~Decides(q, ids[k])
    OBVIOUS
  <2>3. QED
    BY <1>1, <1>3, <2>1, <2>2 DEF Deciding
<1>5. OfUrl(q, v) \subseteq {HostOf(v)} \cap Allowed(q)
  BY <1>2 DEF OfUrl, Target
<1> HIDE DEF v
<1>6. Wanted(q) = OneOf(OfUrl(q, v)) /\ Deciding(q) # {}
  BY <1>4 DEF Wanted
<1>7. CASE OfUrl(q, v) = {}
  <2>1. Wanted(q) = {{}}
    BY <1>6, <1>7 DEF OneOf
  <2>2. QED
    BY <1>6, <2>1 DEF ServersFor
<1>8. CASE OfUrl(q, v) = {HostOf(v)} /\ HostOf(v) \in Allowed(q)
  <2>1. Wanted(q) = {{HostOf(v)}}
    BY <1>6, <1>8 DEF OneOf
  <2>2. CASE DOMAIN q.found # {}
    <3>1. HostOf(v) \in DOMAIN q.found
      BY <1>8, <2>2 DEF Allowed, ReadRight
    <3>2. ServersFor(q) = {HostOf(v)}
      BY <2>1, <2>2, <3>1 DEF ServersFor
    <3>3. QED
      BY <3>2 DEF v
  <2>3. CASE DOMAIN q.found = {}
    <3>1. s \in UNION {IF W # {} THEN W ELSE BestServer : W \in Wanted(q)}
      BY <2>1, <2>3 DEF ServersFor
    <3>2. QED
      BY <2>1, <3>1 DEF v
  <2>4. QED
    BY <2>2, <2>3
<1>9. QED
  BY <1>5, <1>7, <1>8

\* A report goes to a server where a session was found, that of all that it names.
LEMMA ReportServer ==
  ASSUME IdsIssued, ByIdRight, NEW q, ReadRight(q), NEW s \in ServersForReport(q)
  PROVE  /\ s \in DOMAIN q.found
         /\ q.bound \in {NoServer, s}
         /\ \A v \in {q.ask.item, q.ask.source} \cap DOMAIN db.media : HostOf(v) = s
<1>1. s \in Candidates(q.ask) \cap DOMAIN q.found /\ (q.bound # NoServer => s = q.bound)
  BY DEF ServersForReport
<1>2. \A v \in DOMAIN db.media : /\ v \in Id /\ v # Blank /\ v \notin Aggregate
                                 /\ Knows(v) /\ Entry(v).server = HostOf(v)
  BY EntryRight, IdsApart DEF IdsIssued, Ref
<1>3. CASE q.ask.item \in Aggregate
  <2>1. q.ask.source # Blank => \A m \in members[q.ask.item] \cap {q.ask.source} : m = q.ask.source
    OBVIOUS
  <2>2. q.ask.source # Blank => s = HostOf(q.ask.source)
    BY <1>1, <1>3 DEF Candidates
  <2>3. QED
    BY <1>1, <1>2, <1>3, <2>2
<1>4. CASE q.ask.item \notin Aggregate
  <2>1. /\ s = Entry(q.ask.item).server
        /\ q.ask.source # Blank => Entry(q.ask.source).server = s
    BY <1>1, <1>4 DEF Candidates
  <2>2. QED
    BY <1>1, <1>2, <2>1
<1>5. QED
  BY <1>3, <1>4

LEMMA Routed ==
  ASSUME IInv, NEW r \in Request, Route(r)
  PROVE  IInv'
<1> DEFINE q == requests[r]
           S == IF q.ask.kind = "report" THEN ServersForReport(q) ELSE ServersFor(q)
           sent(s) == [phase |-> "routed", ask |-> q.ask, bound |-> q.bound, found |-> q.found,
                       then |-> q.then, server |-> s, session |-> SessionFor(q, s)]
<1>1. /\ q.phase = "read" /\ process = "serving" /\ migrated = 2
      /\ ReadRight(q) /\ ByIdRight /\ IdsIssued
  <2>1. q.phase = "read" /\ RequestRight(q)
    BY DEF Route, IInv, RequestsRight
  <2>2. QED
    BY <2>1, BusyIsServing DEF RequestRight, IInv
<1>2. ASSUME NEW s \in S
      PROVE  RequestRight(sent(s))
  <2>1. q.ask.user # Nobody => s \in DOMAIN q.found
    BY <1>1, FoundServer, ReportServer
  <2>2. OwnAccountOf(sent(s))
    <3>1. SUFFICES ASSUME q.ask.user # Nobody
                   PROVE  /\ s \in q.then /\ SessionFor(q, s) # {}
                          /\ \A t \in SessionFor(q, s) \cap DOMAIN db.sessions :
                               db.sessions[t].user = q.ask.user /\ ServerOf(t) = s
      BY DEF OwnAccountOf
    <3>2. s \in DOMAIN q.found /\ SessionFor(q, s) = {q.found[s]}
      BY <2>1, <3>1 DEF SessionFor
    <3>3. QED
      BY <1>1, <3>2 DEF ReadRight
  <2>3. NamedServerOf(sent(s))
    BY <1>1, NamedServer DEF NamedServerOf
  <2>4. ReportOf(sent(s))
    BY <1>1, ReportServer DEF ReportOf
  <2>5. sent(s).phase = "routed" /\ sent(s).ask = q.ask
    OBVIOUS
  <2> HIDE DEF sent
  <2>6. RoutedRight(sent(s))
    BY <1>1, <2>2, <2>3, <2>4, <2>5 DEF RoutedRight, ReadRight
  <2>7. QED
    BY <2>5, <2>6 DEF RequestRight
<1>3. \/ requests' = [requests EXCEPT ![r] = Over]
      \/ \E s \in S : requests' = [requests EXCEPT ![r] = sent(s)]
  BY DEF Route
<1>4. /\ \E V : Remember(V)
      /\ UNCHANGED <<db, migrated, process, was, members, issued, byItem, shown>>
  BY DEF Route, vars
<1> HIDE DEF q, S, sent
<1>5. QED
  BY <1>1, <1>2, <1>3, <1>4, OverIsRight, RequestStepKeeps

LEMMA SentIs ==
  ASSUME NEW q, NEW p
  PROVE  p \in Sent(q) <=>
           \/ \E v \in {UrlIds(q.ask)[i] : i \in DOMAIN UrlIds(q.ask)} :
                \E m \in UrlRow(q, v, q.server) : p = <<v, m>>
           \/ \E v \in BodyIds(q.ask) : \E m \in BodyRow(v, q.server) : p = <<v, m>>
<1> DEFINE url == {UrlIds(q.ask)[i] : i \in DOMAIN UrlIds(q.ask)}
           ofUrl == {{v} \X UrlRow(q, v, q.server) : v \in url}
           ofBody == {{v} \X BodyRow(v, q.server) : v \in BodyIds(q.ask)}
<1>1. \A v, M : p \in {v} \X M <=> \E m \in M : p = <<v, m>>
  OBVIOUS
<1>2. p \in UNION ofUrl <=> \E v \in url : p \in {v} \X UrlRow(q, v, q.server)
  OBVIOUS
<1>3. p \in UNION ofBody <=> \E v \in BodyIds(q.ask) : p \in {v} \X BodyRow(v, q.server)
  OBVIOUS
<1>4. Sent(q) = (UNION ofUrl) \cup (UNION ofBody)
  BY DEF Sent
<1> HIDE DEF ofUrl, ofBody
<1>5. p \in UNION ofUrl <=> \E v \in url : \E m \in UrlRow(q, v, q.server) : p = <<v, m>>
  BY <1>1, <1>2
<1>6. p \in UNION ofBody <=> \E v \in BodyIds(q.ask) : \E m \in BodyRow(v, q.server) : p = <<v, m>>
  BY <1>1, <1>3
<1>7. p \in Sent(q) <=> p \in UNION ofUrl \/ p \in UNION ofBody
  BY <1>4
<1>8. QED
  BY <1>5, <1>6, <1>7, Zenon

LEMMA Translated ==
  ASSUME IInv, NEW r \in Request, Send(r)
  PROVE  IInv'
<1> DEFINE q == requests[r]
           s == q.server
           next == [phase |-> "sent", ask |-> q.ask, bound |-> q.bound, then |-> q.then,
                    server |-> q.server, session |-> q.session, sent |-> Sent(q)]
<1>1. /\ q.phase = "routed" /\ process = "serving" /\ migrated = 2
      /\ RoutedRight(q) /\ IdsIssued
  <2>1. q.phase = "routed" /\ RequestRight(q)
    BY DEF Send, IInv, RequestsRight
  <2>2. QED
    BY <2>1, BusyIsServing DEF RequestRight, IInv
<1>2. \A v : \A m \in UrlRow(q, v, s) : /\ m \in DOMAIN db.media /\ HostOf(m) = s
                                        /\ v \in Id => m = v
  BY <1>1, IdsApart DEF UrlRow, BestRow, IdsIssued
<1>3. \A v : \A m \in BodyRow(v, s) : /\ m \in DOMAIN db.media /\ HostOf(m) = s
                                      /\ v \in Id => m = v
  BY <1>1, IdsApart DEF BodyRow, IdsIssued
<1>4. \A p \in Sent(q) : /\ p[2] \in DOMAIN db.media /\ HostOf(p[2]) = s
                         /\ p[1] \in Id => p[1] = p[2]
  <2>1. \A p \in Sent(q) : \/ \E v : \E m \in UrlRow(q, v, s) : p = <<v, m>>
                           \/ \E v : \E m \in BodyRow(v, s) : p = <<v, m>>
    BY SentIs
  <2>2. QED
    BY <1>2, <1>3, <2>1
<1>5. \A v \in q.ask.list : BodyRow(v, s) # {} => \E p \in Sent(q) : p[1] = v
  <2> SUFFICES ASSUME NEW v \in q.ask.list, NEW m \in BodyRow(v, s)
               PROVE  \E p \in Sent(q) : p[1] = v
    OBVIOUS
  <2>1. v \in BodyIds(q.ask)
    BY <1>1, IdsAre DEF RoutedRight
  <2>2. <<v, m>> \in Sent(q)
    BY <2>1, SentIs
  <2>3. QED
    BY <2>2
<1>6. ASSUME \A v \in q.ask.list : BodyRow(v, s) # {}
      PROVE  RequestRight(next)
  <2>1. \A p \in Sent(q) : p[2] \in Id /\ p[2] <= issued
    <3>1. \A m \in DOMAIN db.media : m \in Id /\ m <= issued
      BY <1>1 DEF IdsIssued
    <3> HIDE DEF q, s
    <3>2. QED
      BY <1>4, <3>1
  <2>2. IdsOf(next)
    <3>1. next.sent = Sent(q) /\ next.server = s /\ next.ask = q.ask
      OBVIOUS
    <3> HIDE DEF next, q, s
    <3>2. QED
      BY <1>4, <1>5, <1>6, <3>1 DEF IdsOf
  <2>3. RoutedRight(next)
    BY <1>1 DEF RoutedRight, OwnAccountOf, NamedServerOf, ReportOf
  <2>4. SentRight(next)
    BY <2>1, <2>2, <2>3 DEF SentRight
  <2>5. QED
    BY <2>4 DEF RequestRight
<1>7. \/ requests' = [requests EXCEPT ![r] = Over]
      \/ /\ requests' = [requests EXCEPT ![r] = next]
         /\ \A v \in q.ask.list : BodyRow(v, s) # {}
  BY DEF Send
<1>8. UNCHANGED <<db, migrated, process, was, members, issued, byId, byItem, shown>>
  BY DEF Send, vars
<1> HIDE DEF q, s, next
<1>9. QED
  BY <1>1, <1>6, <1>7, <1>8, OverIsRight, RequestStepKeeps

LEMMA Answered ==
  ASSUME IInv, NEW r \in Request, NEW i \in Item, Answer(r, i)
  PROVE  IInv'
<1> DEFINE next == [phase |-> "answered", server |-> requests[r].server, item |-> i]
<1>1. requests[r].phase = "sent" /\ process = "serving" /\ migrated = 2
  BY BusyIsServing DEF Answer
<1>2. RequestRight(next)
  BY DEF RequestRight
<1>3. requests' = [requests EXCEPT ![r] = next] \/ requests' = [requests EXCEPT ![r] = Over]
  BY DEF Answer
<1>4. UNCHANGED <<db, migrated, process, was, members, issued, byId, byItem, shown>>
  BY DEF Answer, vars
<1> HIDE DEF next
<1>5. QED
  BY <1>1, <1>2, <1>3, <1>4, OverIsRight, RequestStepKeeps

\* A client is shown an id that it was shown before, or that of the row there is.
LEMMA Shows ==
  ASSUME IInv, process = "serving", migrated = 2,
         UNCHANGED <<migrated, process>>, RowsStay, DbInv', IdsIssued',
         NEW r \in Request, NEW v, Show(r, v),
         \/ [item |-> requests[r].item, server |-> requests[r].server, id |-> v] \in shown
         \/ /\ v \in DOMAIN db'.media
            /\ db'.media[v].item = requests[r].item /\ db'.media[v].server = requests[r].server
  PROVE  IInv'
<1> DEFINE q == requests[r]
           x == [item |-> q.item, server |-> q.server, id |-> v]
<1>1. /\ requests' = [requests EXCEPT ![r] = Over]
      /\ shown' = shown \cup {x}
      /\ byItem' = [k \in DOMAIN byItem \cup {<<q.item, q.server>>} |->
                      IF k = <<q.item, q.server>> THEN v ELSE byItem[k]]
      /\ UNCHANGED <<members, byId>>
  BY DEF Show
<1>2. Quiet'
  BY DEF Quiet
<1>3. ByIdRight'
  BY <1>1, ByIdStays DEF IInv
<1>4. RequestsRight'
  <2>1. RequestRight(Over)'
    BY RequestStays, OverIsRight DEF IInv
  <2>2. QED
    BY <1>1, <2>1, OneRequest DEF IInv
<1>5. ByItemRight'
  <2> SUFFICES ASSUME NEW k \in DOMAIN byItem'
               PROVE  \E y \in shown' : k = <<y.item, y.server>> /\ byItem'[k] = y.id
    BY DEF ByItemRight
  <2>1. CASE k = <<q.item, q.server>>
    BY <1>1, <2>1
  <2>2. CASE k # <<q.item, q.server>>
    BY <1>1, <2>2 DEF IInv, ByItemRight
  <2>3. QED
    BY <2>1, <2>2
<1>6. ShownRight'
  <2>1. CASE x \in shown
    <3>1. shown' = shown
      BY <1>1, <2>1
    <3>2. QED
      BY <3>1, ShownStays DEF IInv
  <2>2. CASE x \notin shown
    <3>1. /\ v \in DOMAIN db'.media /\ v \in Id /\ v <= issued'
          /\ db'.media[v].item = x.item /\ db'.media[v].server = x.server
          /\ x.id = v /\ x = [item |-> x.item, server |-> x.server, id |-> x.id]
      BY <2>2 DEF IdsIssued
    <3>2. db' \in Database /\ Current(db')
      BY DEF DbInv, Sound
    <3> HIDE DEF x, q
    <3>3. \A y \in shown :
            /\ y.id \in Id /\ y.id <= issued'
            /\ y = [item |-> y.item, server |-> y.server, id |-> y.id]
            /\ y.server \in DOMAIN db'.servers => y.id \in DOMAIN db'.media
            /\ y.id \in DOMAIN db'.media => /\ db'.media[y.id].item = y.item
                                            /\ db'.media[y.id].server = y.server
      BY ShownStaysRight DEF IInv
    <3>4. \A y \in shown : x.id = y.id <=> x.item = y.item /\ x.server = y.server
      BY <3>1, <3>2, <3>3, CurrentRows
    <3>5. \A y, z \in shown : y.id = z.id <=> y.item = z.item /\ y.server = z.server
      BY DEF IInv, ShownRight, OneIdPerItem
    <3>6. \A y, z \in shown' : y.id = z.id <=> y.item = z.item /\ y.server = z.server
      BY <1>1, <3>4, <3>5
    <3>7. QED
      BY <1>1, <3>1, <3>3, <3>6 DEF ShownRight, OneIdPerItem, Servers, HostOf
  <2>3. QED
    BY <2>1, <2>2
<1>7. QED
  BY <1>2, <1>3, <1>4, <1>5, <1>6 DEF IInv

LEMMA LookedUp ==
  ASSUME IInv, NEW r \in Request, LookUp(r)
  PROVE  IInv'
<1> DEFINE q == requests[r]
           cached == {byItem[k] : k \in DOMAIN byItem \cap {<<q.item, q.server>>}}
           next == [q EXCEPT !.phase = "unmapped"]
<1>1. /\ q.phase = "answered" /\ process = "serving" /\ migrated = 2
      /\ UNCHANGED <<db, migrated, process, was, issued>>
  BY BusyIsServing DEF LookUp, vars
<1>2. RequestRight(q)
  BY DEF IInv, RequestsRight
<1>3. CASE \E v \in IF cached # {} THEN cached ELSE RowsOf(q.item, q.server) : Show(r, v)
  <2>1. PICK v \in IF cached # {} THEN cached ELSE RowsOf(q.item, q.server) : Show(r, v)
    BY <1>3
  <2>2. members' = members
    BY <2>1 DEF Show
  <2>3. RowsStay /\ DbInv' /\ IdsIssued'
    BY <1>1, <2>2, SameRows DEF IInv, DbInv, IdsIssued
  <2>4. CASE cached # {}
    <3>1. <<q.item, q.server>> \in DOMAIN byItem /\ v = byItem[<<q.item, q.server>>]
      BY <2>1, <2>4
    <3>2. PICK x \in shown : <<q.item, q.server>> = <<x.item, x.server>> /\ v = x.id
      BY <3>1 DEF IInv, ByItemRight
    <3>3. x = [item |-> q.item, server |-> q.server, id |-> v]
      BY <3>2 DEF IInv, ShownRight
    <3>4. QED
      BY <1>1, <2>1, <2>3, <3>3, Shows
  <2>5. CASE cached = {}
    <3>1. v \in RowsOf(q.item, q.server)
      BY <2>1, <2>5
    <3>2. /\ v \in DOMAIN db'.media
          /\ db'.media[v].item = q.item /\ db'.media[v].server = q.server
      BY <1>1, <3>1 DEF RowsOf, HostOf
    <3>3. QED
      BY <1>1, <2>1, <2>3, <3>2, Shows
  <2>6. QED
    BY <2>4, <2>5
<1>4. CASE /\ requests' = [requests EXCEPT ![r] = next]
           /\ UNCHANGED <<members, byId, byItem, shown>>
  <2>1. next = [phase |-> "unmapped", server |-> q.server, item |-> q.item] /\ q.item \in Item
    BY <1>1, <1>2 DEF RequestRight
  <2> HIDE DEF next, q
  <2>2. RequestRight(next)
    BY <2>1 DEF RequestRight
  <2>3. QED
    BY <1>1, <1>4, <2>2, RequestStepKeeps
<1>5. QED
  BY <1>3, <1>4 DEF LookUp

\* A database of this version stays one when an item gets its first row on a server.
LEMMA RowAdded ==
  ASSUME NEW d \in Database, Current(d), NEW n \in Id, n \notin DOMAIN d.media,
         NEW i \in Item, NEW s \in DOMAIN d.servers,
         ~\E v \in DOMAIN d.media : d.media[v].item = i /\ d.media[v].server = s,
         NEW media, media = [v \in DOMAIN media |-> media[v]],
         DOMAIN media = DOMAIN d.media \cup {n},
         \A v \in DOMAIN d.media : media[v] = d.media[v],
         media[n] = [item |-> i, url |-> d.servers[s], server |-> s]
  PROVE  LET e == [d EXCEPT !.media = media]
         IN  /\ e \in Database /\ Current(e)
             /\ e.servers = d.servers /\ e.mappings = d.mappings /\ e.sessions = d.sessions
             /\ e.media = media
<1> DEFINE e == [d EXCEPT !.media = media]
           row == [item |-> i, url |-> d.servers[s], server |-> s]
<1>1. d = [users |-> d.users, servers |-> d.servers, admins |-> d.admins,
           mappings |-> d.mappings, sessions |-> d.sessions, media |-> d.media]
  BY DEF Database
<1>2. /\ e = [users |-> d.users, servers |-> d.servers, admins |-> d.admins,
              mappings |-> d.mappings, sessions |-> d.sessions, media |-> media]
      /\ e.users = d.users /\ e.servers = d.servers /\ e.admins = d.admins
      /\ e.mappings = d.mappings /\ e.sessions = d.sessions /\ e.media = media
  BY <1>1
<1>3. /\ d.users \subseteq User /\ d.servers \in Table(Url) /\ d.admins \in Table(Id)
      /\ d.mappings \in Table(Mapping) /\ d.sessions \in Table(Session)
      /\ DOMAIN d.media \subseteq Id /\ DOMAIN d.servers \subseteq Id
      /\ d.servers[s] \in Url
      /\ \A v \in DOMAIN d.media : d.media[v] \in Medium
  BY DatabaseIs
<1>4. row \in Medium
  BY <1>3 DEF Medium
<1>5. media[n] = row
  OBVIOUS
<1> HIDE DEF e
<1>6. media \in Table(Medium)
  <2>1. \A v \in DOMAIN media : media[v] \in Medium
    BY <1>3, <1>4, <1>5
  <2>2. QED
    BY <1>3, <2>1, TableIs
<1>7. e \in Database
  BY <1>2, <1>3, <1>6 DEF Database
<1>8. \A v \in DOMAIN media : /\ media[v].server \in DOMAIN d.servers
                              /\ media[v].url = d.servers[media[v].server]
  BY <1>5 DEF Current, ById
<1>9. ASSUME NEW v \in DOMAIN media, NEW w \in DOMAIN media,
             media[v].item = media[w].item, media[v].url = media[w].url
      PROVE  v = w
  <2>1. media[v].server = media[w].server
    <3>1. d.servers[media[v].server] = d.servers[media[w].server]
      BY <1>8, <1>9
    <3>2. Unique(d.servers)
      BY DEF Current
    <3>3. QED
      BY <1>8, <3>1, <3>2 DEF Unique
  <2>2. \A x, y \in DOMAIN d.media :
          d.media[x].item = d.media[y].item /\ d.media[x].server = d.media[y].server => x = y
    BY CurrentRows
  <2>3. QED
    BY <1>5, <1>9, <2>1, <2>2
<1>10. Unique(MediaUrls(e))
  BY <1>2, <1>9 DEF Unique, MediaUrls
<1>11. MappingUrls(e) = MappingUrls(d) /\ SessionKeys(e) = SessionKeys(d)
  BY <1>2 DEF MappingUrls, SessionKeys
<1>12. Current(e)
  BY <1>2, <1>8, <1>10, <1>11
     DEF Current, References, UniqueKeys, OwnSessions, OneName, ById
<1>13. QED
  BY <1>2, <1>7, <1>12 DEF e

LEMMA Created ==
  ASSUME IInv, NEW r \in Request, Create(r)
  PROVE  IInv'
<1> DEFINE q == requests[r]
<1>1. /\ q.phase = "unmapped" /\ process = "serving" /\ migrated = 2
      /\ UNCHANGED <<migrated, process, was>> /\ q.item \in Item
      /\ db \in Database /\ Current(db) /\ IdsIssued
  <2>1. q.phase = "unmapped" /\ RequestRight(q)
    BY DEF Create, IInv, RequestsRight
  <2>2. process = "serving" /\ migrated = 2
    BY <2>1, BusyIsServing
  <2>3. QED
    BY <2>1, <2>2 DEF Create, IInv, RequestRight, DbInv, Sound
<1>2. CASE (\E v \in RowsOf(q.item, q.server) : Show(r, v)) /\ UNCHANGED <<db, issued>>
  <2>1. PICK v \in RowsOf(q.item, q.server) : Show(r, v)
    BY <1>2
  <2>2. members' = members
    BY <2>1 DEF Show
  <2>3. RowsStay /\ DbInv' /\ IdsIssued'
    BY <1>1, <1>2, <2>2, SameRows DEF IInv, DbInv, IdsIssued
  <2>4. /\ v \in DOMAIN db'.media
        /\ db'.media[v].item = q.item /\ db'.media[v].server = q.server
    BY <1>2, <2>1 DEF RowsOf, HostOf
  <2>5. QED
    BY <1>1, <2>1, <2>3, <2>4, Shows
<1>3. CASE /\ RowsOf(q.item, q.server) = {} /\ q.server \in Servers
           /\ issued + 1 \in Id
           /\ db' = [db EXCEPT !.media = [m \in DOMAIN @ \cup {issued + 1} |->
                       IF m \in DOMAIN @ THEN @[m] ELSE NewRow(r)]]
           /\ issued' = issued + 1
           /\ Show(r, issued + 1)
  <2> DEFINE n == issued + 1
             media == [m \in DOMAIN db.media \cup {n} |->
                         IF m \in DOMAIN db.media THEN db.media[m]
                         ELSE [item |-> q.item, url |-> db.servers[q.server], server |-> q.server]]
  <2>1. n \in Id /\ issued \in Int /\ n \notin DOMAIN db.media
    BY <1>1, <1>3 DEF IdsIssued
  <2>2. db' = [db EXCEPT !.media = media]
    BY <1>3 DEF NewRow
  <2>3. ~\E v \in DOMAIN db.media : db.media[v].item = q.item /\ db.media[v].server = q.server
    BY <1>3 DEF RowsOf, HostOf
  <2>4. q.server \in DOMAIN db.servers
    BY <1>3 DEF Servers
  <2> HIDE DEF q, n
  <2>5. /\ media = [v \in DOMAIN media |-> media[v]]
        /\ DOMAIN media = DOMAIN db.media \cup {n}
        /\ \A v \in DOMAIN db.media : media[v] = db.media[v]
        /\ media[n] = [item |-> q.item, url |-> db.servers[q.server], server |-> q.server]
    BY <2>1
  <2> HIDE DEF media
  <2>6. /\ db' \in Database /\ Current(db')
        /\ db'.servers = db.servers /\ db'.mappings = db.mappings /\ db'.sessions = db.sessions
        /\ DOMAIN db'.media = DOMAIN db.media \cup {n} /\ db'.media[n].item = q.item
        /\ db'.media[n].server = q.server
        /\ \A v \in DOMAIN db.media : db'.media[v] = db.media[v]
    <3>1. /\ db' \in Database /\ Current(db')
          /\ db'.servers = db.servers /\ db'.mappings = db.mappings /\ db'.sessions = db.sessions
          /\ db'.media = media
      BY <1>1, <2>1, <2>2, <2>3, <2>4, <2>5, RowAdded
    <3>2. QED
      BY <2>5, <3>1
  <2>7. issued' = n /\ issued <= n /\ n \in Int /\ ~(n <= issued) /\ members' = members
    BY <1>3, <2>1 DEF n, Show
  <2>8. RowsStay
    BY <1>1, <2>1, <2>6, <2>7 DEF RowsStay, IdsIssued
  <2>9. IdsIssued'
    <3>1. \A v \in DOMAIN db.media : v \in Id /\ v <= n
      <4>1. \A v \in Int : v <= issued => v <= n
        BY <2>1 DEF n
      <4>2. QED
        BY <1>1, <4>1, IdAssumption DEF IdsIssued, Bounded
    <3>2. QED
      BY <1>1, <2>1, <2>6, <2>7, <3>1 DEF IdsIssued
  <2>10. DbInv'
    <3>1. Sound(db') /\ OneName(db')
      BY <2>6, CurrentIsSound
    <3>2. QED
      BY <1>1, <2>6, <3>1 DEF IInv, DbInv
  <2>11. Show(r, n)
    BY <1>3 DEF n
  <2>12. QED
    BY <1>1, <2>6, <2>8, <2>9, <2>10, <2>11, Shows DEF q
<1>4. CASE /\ requests' = [requests EXCEPT ![r] = Over]
           /\ UNCHANGED <<db, issued, members, byId, byItem, shown>>
  BY <1>1, <1>4, OverIsRight, RequestStepKeeps
<1>5. QED
  BY <1>2, <1>3, <1>4 DEF Create

---------------------------------------------------------------------------
(* What happens besides requests *)

LEMMA WithoutIs ==
  ASSUME NEW Row, NEW T \in Table(Row), NEW S
  PROVE  /\ Without(T, S) \in Table(Row)
         /\ DOMAIN Without(T, S) = DOMAIN T \ S
         /\ \A i \in DOMAIN Without(T, S) : Without(T, S)[i] = T[i]
<1> DEFINE W == Without(T, S)
<1>1. W = [i \in DOMAIN T \ S |-> T[i]]
  BY DEF Without
<1>2. DOMAIN W = DOMAIN T \ S /\ \A i \in DOMAIN W : W[i] = T[i]
  BY <1>1
<1>3. W = [i \in DOMAIN W |-> W[i]]
  BY <1>1
<1> HIDE DEF W
<1>4. DOMAIN T \subseteq Id /\ \A i \in DOMAIN T : T[i] \in Row
  BY TableIs
<1>5. W \in Table(Row)
  BY <1>2, <1>3, <1>4, TableIs
<1>6. QED
  BY <1>2, <1>5 DEF W

\* The database without a server, and without the rows that refer to it.
Left(d, s) ==
  LET mappings == {m \in DOMAIN d.mappings : d.mappings[m].server = s}
      media == {v \in DOMAIN d.media : d.media[v].server = s}
  IN [users |-> d.users,
      servers |-> Without(d.servers, {s}),
      admins |-> Without(d.admins, {a \in DOMAIN d.admins : d.admins[a] = s}),
      mappings |-> Without(d.mappings, mappings),
      sessions |-> Without(d.sessions, {t \in DOMAIN d.sessions :
                                          d.sessions[t].mapping \in mappings}),
      media |-> Without(d.media, media)]

\* A database of this version stays one when a server goes.
LEMMA ServerDeleted ==
  ASSUME NEW d \in Database, Current(d), NEW s
  PROVE  LET e == Left(d, s)
         IN  /\ e \in Database /\ Current(e)
             /\ DOMAIN e.servers = DOMAIN d.servers \ {s}
             /\ \A v \in DOMAIN d.media : v \in DOMAIN e.media <=> d.media[v].server # s
             /\ \A v \in DOMAIN e.media : v \in DOMAIN d.media /\ e.media[v] = d.media[v]
             /\ \A t \in DOMAIN e.sessions :
                  /\ t \in DOMAIN d.sessions /\ e.sessions[t] = d.sessions[t]
                  /\ e.mappings[d.sessions[t].mapping] = d.mappings[d.sessions[t].mapping]
<1> DEFINE mappings == {m \in DOMAIN d.mappings : d.mappings[m].server = s}
           media == {v \in DOMAIN d.media : d.media[v].server = s}
           servers == Without(d.servers, {s})
           admins == Without(d.admins, {a \in DOMAIN d.admins : d.admins[a] = s})
           maps == Without(d.mappings, mappings)
           sessions == Without(d.sessions, {t \in DOMAIN d.sessions : d.sessions[t].mapping \in mappings})
           items == Without(d.media, media)
           e == [users |-> d.users, servers |-> servers, admins |-> admins,
                 mappings |-> maps, sessions |-> sessions, media |-> items]
<1>1. /\ d.users \subseteq User /\ d.servers \in Table(Url) /\ d.admins \in Table(Id)
      /\ d.mappings \in Table(Mapping) /\ d.sessions \in Table(Session)
      /\ d.media \in Table(Medium)
  BY DatabaseIs
<1>2. /\ servers \in Table(Url) /\ DOMAIN servers = DOMAIN d.servers \ {s}
      /\ \A i \in DOMAIN servers : servers[i] = d.servers[i]
  <2>1. d.servers \in Table(Url)
    BY <1>1
  <2>2. QED
    BY <2>1, WithoutIs
<1>3. /\ admins \in Table(Id)
      /\ \A a \in DOMAIN admins : /\ a \in DOMAIN d.admins
                                  /\ admins[a] = d.admins[a] /\ d.admins[a] # s
  <2> DEFINE S == {a \in DOMAIN d.admins : d.admins[a] = s}
  <2>1. d.admins \in Table(Id) /\ admins = Without(d.admins, S)
    BY <1>1
  <2>2. \A a \in DOMAIN d.admins : a \notin S => d.admins[a] # s
    OBVIOUS
  <2> HIDE DEF S, admins
  <2>3. /\ Without(d.admins, S) \in Table(Id)
        /\ DOMAIN Without(d.admins, S) = DOMAIN d.admins \ S
        /\ \A i \in DOMAIN Without(d.admins, S) : Without(d.admins, S)[i] = d.admins[i]
    BY <2>1, WithoutIs
  <2>4. QED
    BY <2>1, <2>2, <2>3
<1>4. /\ maps \in Table(Mapping) /\ DOMAIN maps = DOMAIN d.mappings \ mappings
      /\ \A m \in DOMAIN maps : maps[m] = d.mappings[m] /\ d.mappings[m].server # s
  <2>1. d.mappings \in Table(Mapping) /\ maps = Without(d.mappings, mappings)
    BY <1>1
  <2>2. \A m \in DOMAIN d.mappings : m \notin mappings => d.mappings[m].server # s
    OBVIOUS
  <2> HIDE DEF maps, mappings
  <2>3. /\ Without(d.mappings, mappings) \in Table(Mapping)
        /\ DOMAIN Without(d.mappings, mappings) = DOMAIN d.mappings \ mappings
        /\ \A i \in DOMAIN Without(d.mappings, mappings) : Without(d.mappings, mappings)[i] = d.mappings[i]
    BY <2>1, WithoutIs
  <2>4. QED
    BY <2>1, <2>2, <2>3
<1>5. /\ sessions \in Table(Session)
      /\ \A t \in DOMAIN sessions : /\ t \in DOMAIN d.sessions /\ sessions[t] = d.sessions[t]
                                    /\ d.sessions[t].mapping \notin mappings
  <2> DEFINE S == {t \in DOMAIN d.sessions : d.sessions[t].mapping \in mappings}
  <2>1. d.sessions \in Table(Session) /\ sessions = Without(d.sessions, S)
    BY <1>1
  <2>2. \A t \in DOMAIN d.sessions : t \notin S => d.sessions[t].mapping \notin mappings
    OBVIOUS
  <2> HIDE DEF S, sessions, mappings
  <2>3. /\ Without(d.sessions, S) \in Table(Session)
        /\ DOMAIN Without(d.sessions, S) = DOMAIN d.sessions \ S
        /\ \A i \in DOMAIN Without(d.sessions, S) : Without(d.sessions, S)[i] = d.sessions[i]
    BY <2>1, WithoutIs
  <2>4. QED
    BY <2>1, <2>2, <2>3
<1>6. /\ items \in Table(Medium) /\ DOMAIN items = DOMAIN d.media \ media
      /\ \A v \in DOMAIN items : items[v] = d.media[v] /\ d.media[v].server # s
  <2>1. d.media \in Table(Medium) /\ items = Without(d.media, media)
    BY <1>1
  <2>2. \A v \in DOMAIN d.media : v \notin media => d.media[v].server # s
    OBVIOUS
  <2> HIDE DEF items, media
  <2>3. /\ Without(d.media, media) \in Table(Medium)
        /\ DOMAIN Without(d.media, media) = DOMAIN d.media \ media
        /\ \A i \in DOMAIN Without(d.media, media) : Without(d.media, media)[i] = d.media[i]
    BY <2>1, WithoutIs
  <2>4. QED
    BY <2>1, <2>2, <2>3
<1> HIDE DEF servers, admins, maps, sessions, items, mappings, media
<1>7. e \in Database
  BY <1>1, <1>2, <1>3, <1>4, <1>5, <1>6 DEF Database
<1>8. References(e)
  <2>1. \A a \in DOMAIN admins : admins[a] \in DOMAIN servers
    BY <1>2, <1>3 DEF Current, References
  <2>2. \A m \in DOMAIN maps : maps[m].user \in d.users
    BY <1>4 DEF Current, References
  <2>3. \A t \in DOMAIN sessions : sessions[t].mapping \in DOMAIN maps /\ sessions[t].user \in d.users
    BY <1>4, <1>5 DEF Current, References
  <2>4. QED
    BY <2>1, <2>2, <2>3 DEF References
<1>9. UniqueKeys(e)
  <2>1. Unique(d.admins) /\ Unique(MappingUrls(d)) /\ Unique(SessionKeys(d)) /\ Unique(MediaUrls(d))
    BY DEF Current, UniqueKeys
  <2>2. Unique(admins)
    BY <1>3, <2>1 DEF Unique
  <2>3. Unique(MappingUrls(e))
    <3>1. DOMAIN MappingUrls(e) \subseteq DOMAIN MappingUrls(d)
      BY <1>4 DEF MappingUrls
    <3>2. \A m \in DOMAIN MappingUrls(e) : MappingUrls(e)[m] = MappingUrls(d)[m]
      BY <1>4 DEF MappingUrls
    <3>3. QED
      BY <2>1, <3>1, <3>2 DEF Unique
  <2>4. Unique(SessionKeys(e))
    <3>1. DOMAIN SessionKeys(e) \subseteq DOMAIN SessionKeys(d)
      BY <1>5 DEF SessionKeys
    <3>2. \A t \in DOMAIN SessionKeys(e) : SessionKeys(e)[t] = SessionKeys(d)[t]
      BY <1>5 DEF SessionKeys
    <3>3. QED
      BY <2>1, <3>1, <3>2 DEF Unique
  <2>5. Unique(MediaUrls(e))
    <3>1. DOMAIN MediaUrls(e) \subseteq DOMAIN MediaUrls(d)
      BY <1>6 DEF MediaUrls
    <3>2. \A v \in DOMAIN MediaUrls(e) : MediaUrls(e)[v] = MediaUrls(d)[v]
      BY <1>6 DEF MediaUrls
    <3>3. QED
      BY <2>1, <3>1, <3>2 DEF Unique
  <2>6. QED
    BY <2>2, <2>3, <2>4, <2>5 DEF UniqueKeys
<1>10. OwnSessions(e)
  BY <1>4, <1>5 DEF Current, OwnSessions, References
<1>11. Unique(servers) /\ OneName(e) /\ \A i \in DOMAIN servers : servers[i].form = "plain"
  BY <1>2 DEF Current, Unique, OneName
<1>12. ById(e)
  BY <1>2, <1>4, <1>6 DEF Current, ById
<1>13. Current(e)
  BY <1>8, <1>9, <1>10, <1>11, <1>12 DEF Current
<1>14. \A t \in DOMAIN sessions : maps[d.sessions[t].mapping] = d.mappings[d.sessions[t].mapping]
  BY <1>4, <1>5 DEF Current, References
<1>15. \A v \in DOMAIN d.media : v \in DOMAIN items <=> d.media[v].server # s
  BY <1>6 DEF media
<1>16. e = Left(d, s)
  BY DEF Left, servers, admins, maps, sessions, items, mappings, media
<1>17. /\ e.servers = servers /\ e.mappings = maps /\ e.sessions = sessions /\ e.media = items
  OBVIOUS
<1> HIDE DEF e
<1>18. /\ DOMAIN e.servers = DOMAIN d.servers \ {s}
       /\ \A v \in DOMAIN d.media : v \in DOMAIN e.media <=> d.media[v].server # s
       /\ \A v \in DOMAIN e.media : v \in DOMAIN d.media /\ e.media[v] = d.media[v]
       /\ \A t \in DOMAIN e.sessions :
            /\ t \in DOMAIN d.sessions /\ e.sessions[t] = d.sessions[t]
            /\ e.mappings[d.sessions[t].mapping] = d.mappings[d.sessions[t].mapping]
  BY <1>2, <1>5, <1>6, <1>14, <1>15, <1>17
<1>19. QED
  BY <1>7, <1>13, <1>16, <1>18

LEMMA DeletedServer ==
  ASSUME IInv, NEW s, DeleteServer(s)
  PROVE  IInv'
<1>1. /\ process = "serving" /\ migrated = 2 /\ db \in Database /\ Current(db) /\ IdsIssued
      /\ db' = Left(db, s)
      /\ UNCHANGED <<migrated, process, was, issued, byId, byItem, requests, shown>>
  BY DEF DeleteServer, Left, HostOf, IInv, DbInv, Sound
<1>2. /\ DOMAIN members' = DOMAIN members
      /\ \A p \in DOMAIN members :
           \A v \in members'[p] : v \in members[p] /\ (v \in DOMAIN db.media => HostOf(v) # s)
  BY <1>1 DEF DeleteServer
<1>3. /\ db' \in Database /\ Current(db')
      /\ DOMAIN db'.servers = DOMAIN db.servers \ {s}
      /\ \A v \in DOMAIN db.media : v \in DOMAIN db'.media <=> db.media[v].server # s
      /\ \A v \in DOMAIN db'.media : v \in DOMAIN db.media /\ db'.media[v] = db.media[v]
      /\ \A t \in DOMAIN db'.sessions :
           /\ t \in DOMAIN db.sessions /\ db'.sessions[t] = db.sessions[t]
           /\ db'.mappings[db.sessions[t].mapping] = db.mappings[db.sessions[t].mapping]
  BY <1>1, ServerDeleted
<1>4. RowsStay
  BY <1>1, <1>3 DEF RowsStay, IdsIssued, HostOf
<1>5. IdsIssued'
  BY <1>1, <1>2, <1>3 DEF IdsIssued, HostOf
<1>6. DbInv'
  <2>1. Sound(db') /\ OneName(db')
    BY <1>3, CurrentIsSound
  <2>2. QED
    BY <1>1, <1>3, <2>1 DEF IInv, DbInv
<1>7. Quiet' /\ ByIdRight' /\ ShownRight' /\ ByItemRight' /\ RequestsRight'
  BY <1>1, <1>4, ByIdStays, ShownStays, SameRequests DEF IInv, Quiet, ByItemRight
<1>8. QED
  BY <1>5, <1>6, <1>7 DEF IInv

\* What only changes priorities, health or members, or forgets what is cached.
LEMMA EventKeeps ==
  ASSUME IInv, process = "serving", migrated = 2,
         UNCHANGED <<db, migrated, process, was, issued, requests, shown>>,
         DOMAIN byId' \subseteq DOMAIN byId, \A v \in DOMAIN byId' : byId'[v] = byId[v],
         DOMAIN byItem' \subseteq DOMAIN byItem,
         \A k \in DOMAIN byItem' : byItem'[k] = byItem[k],
         DOMAIN members' = DOMAIN members,
         \A p \in Aggregate \cup Library : members'[p] \subseteq DOMAIN db.media
  PROVE  IInv'
<1>1. RowsStay
  BY SameRows DEF IInv
<1>2. DbInv' /\ IdsIssued' /\ Quiet'
  BY DEF IInv, DbInv, IdsIssued, Quiet
<1>3. ByIdRight' /\ ShownRight' /\ RequestsRight'
  BY <1>1, ByIdStays, ShownStays, SameRequests DEF IInv
<1>4. ByItemRight'
  BY DEF IInv, ByItemRight
<1>5. QED
  BY <1>2, <1>3, <1>4 DEF IInv

LEMMA EventsKeep ==
  ASSUME IInv, EventStep
  PROVE  IInv'
<1>1. ASSUME NEW s, NEW n, UpdatePriority(s, n)
      PROVE  IInv'
  <2>1. /\ process = "serving" /\ migrated = 2
        /\ UNCHANGED <<db, migrated, process, was, issued, requests, shown, byId, byItem, members>>
    BY <1>1 DEF UpdatePriority, Event, IInv, DbInv, vars
  <2>2. \A p \in Aggregate \cup Library : members[p] \subseteq DOMAIN db.media
    BY DEF IInv, IdsIssued
  <2>3. QED
    BY <2>1, <2>2, EventKeeps
<1>2. ASSUME NEW up, CheckHealth(up)
      PROVE  IInv'
  <2>1. /\ process = "serving" /\ migrated = 2
        /\ UNCHANGED <<db, migrated, process, was, issued, requests, shown, byId, byItem, members>>
    BY <1>2 DEF CheckHealth, Event, IInv, DbInv, vars
  <2>2. \A p \in Aggregate \cup Library : members[p] \subseteq DOMAIN db.media
    BY DEF IInv, IdsIssued
  <2>3. QED
    BY <2>1, <2>2, EventKeeps
<1>3. ASSUME NEW p, NEW M \in SUBSET DOMAIN db.media, Regroup(p, M)
      PROVE  IInv'
  <2>1. /\ process = "serving" /\ migrated = 2
        /\ UNCHANGED <<db, migrated, process, was, issued, requests, shown, byId, byItem>>
        /\ members' = [members EXCEPT ![p] = M]
    BY <1>3 DEF Regroup, Event, IInv, DbInv, vars
  <2>2. \A a \in Aggregate \cup Library : members[a] \subseteq DOMAIN db.media
    BY DEF IInv, IdsIssued
  <2>3. DOMAIN members' = DOMAIN members /\ DOMAIN members = Aggregate \cup Library
    BY <2>1 DEF IInv, IdsIssued
  <2>4. \A a \in Aggregate \cup Library : members'[a] \subseteq DOMAIN db.media
    BY <2>1, <2>2, <2>3
  <2>5. QED
    BY <2>1, <2>3, <2>4, EventKeeps
<1>4. ASSUME Expire
      PROVE  IInv'
  <2>1. /\ process = "serving" /\ migrated = 2
        /\ UNCHANGED <<db, migrated, process, was, issued, requests, shown, members>>
    BY <1>4 DEF Expire, Event, IInv, DbInv, vars
  <2>2. /\ DOMAIN byId' \subseteq DOMAIN byId /\ \A v \in DOMAIN byId' : byId'[v] = byId[v]
        /\ DOMAIN byItem' \subseteq DOMAIN byItem
        /\ \A k \in DOMAIN byItem' : byItem'[k] = byItem[k]
    BY <1>4 DEF Expire, Without
  <2>3. \A a \in Aggregate \cup Library : members[a] \subseteq DOMAIN db.media
    BY DEF IInv, IdsIssued
  <2>4. QED
    BY <2>1, <2>2, <2>3, EventKeeps
<1>5. QED
  BY <1>1, <1>2, <1>3, <1>4, DeletedServer DEF EventStep

LEMMA RequestsKeep ==
  ASSUME IInv, RequestStep
  PROVE  IInv'
BY Received, Routed, Translated, Answered, LookedUp, Created DEF RequestStep

\* A stop leaves new requests and finished ones.
LEMMA Stopped ==
  ASSUME IInv, StopServing
  PROVE  IInv'
<1>1. /\ process' = "down" /\ was' = (IF migrated = 2 THEN db ELSE was)
      /\ UNCHANGED <<db, migrated, members, issued, shown>>
      /\ byId' = <<>> /\ byItem' = <<>>
      /\ requests' = [r \in Request |-> IF requests[r] = New THEN New ELSE Over]
  BY DEF StopServing, Stop
<1>2. DOMAIN <<>> = {}
  OBVIOUS
<1>3. DbInv'
  <2>1. CASE migrated = 2
    <3>1. db \in Database /\ was' = db /\ Covers(db, db)
      BY <1>1, <2>1, CoversItself DEF IInv, DbInv, Sound
    <3>2. QED
      BY <1>1, <2>1, <3>1 DEF IInv, DbInv
  <2>2. CASE migrated # 2
    <3>1. was' = was /\ migrated < 2
      BY <1>1, <2>2 DEF IInv, DbInv
    <3>2. QED
      BY <1>1, <3>1 DEF IInv, DbInv
  <2>3. QED
    BY <2>1, <2>2
<1>4. \A r \in Request : requests'[r] \in {New, Over}
  BY <1>1
<1>5. RequestsRight'
  BY <1>1, <1>4 DEF RequestsRight, RequestRight, New, Over
<1>6. Quiet'
  BY <1>1, <1>2, <1>4 DEF IInv, Quiet, New, Over
<1>7. RowsStay
  BY <1>1, SameRows DEF IInv
<1>8. ByIdRight' /\ ByItemRight'
  BY <1>1, <1>2 DEF ByIdRight, ByItemRight
<1>9. ShownRight' /\ IdsIssued'
  BY <1>1, <1>7, ShownStays DEF IInv, IdsIssued
<1>10. QED
  BY <1>3, <1>5, <1>6, <1>8, <1>9 DEF IInv

\* When the proxy starts or migrates, nothing but the database matters.
LEMMA Advanced ==
  ASSUME IInv, Advance, UNCHANGED serving
  PROVE  IInv'
<1>1. UNCHANGED <<members, issued, byId, byItem, requests, shown>>
  BY DEF serving
<1>2. process \in {"down", "starting"}
  BY DEF Advance, Start, MigrateUsers, MigrateServers, Migrate, Serve
<1>3. /\ DbInv' /\ DOMAIN db'.media \subseteq DOMAIN db.media
      /\ db' = db \/ migrated < 2
      /\ migrated' = migrated \/ migrated < 2
  <2>1. CASE Start
    BY <2>1, Started DEF IInv, DbInv, Start
  <2>2. CASE MigrateUsers
    BY <2>2, UsersMigrated DEF IInv
  <2>3. CASE MigrateServers
    BY <2>3, ServersMigrated DEF IInv
  <2>4. CASE Serve
    BY <2>4 DEF IInv, DbInv, Serve
  <2>5. QED
    BY <2>1, <2>2, <2>3, <2>4 DEF Advance
<1>4. /\ \A r \in Request : requests[r].phase \in {"new", "over"}
      /\ DOMAIN byId = {} /\ DOMAIN byItem = {}
      /\ migrated < 2 => shown = {} /\ \A p \in Aggregate \cup Library : members[p] = {}
  BY <1>2 DEF IInv, Quiet
<1>5. RequestsRight'
  BY <1>1, <1>4 DEF IInv, RequestsRight, RequestRight
<1>6. ByIdRight' /\ ByItemRight'
  BY <1>1, <1>4 DEF ByIdRight, ByItemRight
<1>7. IdsIssued'
  BY <1>1, <1>3, <1>4 DEF IInv, IdsIssued
<1>8. Quiet'
  BY <1>1, <1>3, <1>4 DEF IInv, Quiet, DbInv
<1>9. ShownRight'
  <2>1. CASE migrated < 2
    BY <1>1, <1>4, <2>1 DEF ShownRight, OneIdPerItem
  <2>2. CASE db' = db
    BY <1>1, <2>2, SameRows, ShownStays DEF IInv
  <2>3. QED
    BY <1>3, <2>1, <2>2
<1>10. QED
  BY <1>3, <1>5, <1>6, <1>7, <1>8, <1>9 DEF IInv

LEMMA IInvInit == ServeInit => IInv
<1> SUFFICES ASSUME ServeInit PROVE IInv
  OBVIOUS
<1>1. /\ DbInv /\ members \in [Aggregate \cup Library -> SUBSET DOMAIN db.media]
      /\ migrated = 0 => \A p \in Aggregate \cup Library : members[p] = {}
      /\ issued \in Id \cup {0} /\ \A v \in DOMAIN db.media : v <= issued
      /\ byId = <<>> /\ byItem = <<>> /\ requests = [r \in Request |-> New] /\ shown = {}
      /\ migrated \in {0, 2}
  BY DbInvInit DEF ServeInit, Init
<1>2. DOMAIN <<>> = {} /\ Id \subseteq Int
  BY IdAssumption DEF Bounded
<1>3. DOMAIN db.media \subseteq Id
  BY <1>1, DatabaseIs DEF DbInv, Sound
<1>4. IdsIssued
  BY <1>1, <1>2, <1>3 DEF IdsIssued
<1>5. Quiet /\ RequestsRight
  BY <1>1, <1>2 DEF Quiet, RequestsRight, RequestRight, New
<1>6. ByIdRight /\ ShownRight /\ ByItemRight
  BY <1>1, <1>2 DEF ByIdRight, ShownRight, ByItemRight, OneIdPerItem
<1>7. QED
  BY <1>1, <1>4, <1>5, <1>6 DEF IInv

LEMMA IInvKeeps == IInv /\ [ServeNext]_allVars => IInv'
<1> SUFFICES ASSUME IInv, [ServeNext]_allVars PROVE IInv'
  OBVIOUS
<1>1. CASE UNCHANGED allVars
  <2>1. UNCHANGED <<db, migrated, process, was, members, issued, byId, byItem, requests, shown>>
    BY <1>1 DEF allVars, vars, serving
  <2>2. RowsStay
    BY <2>1, SameRows DEF IInv
  <2>3. DbInv' /\ Quiet' /\ IdsIssued' /\ ByItemRight'
    BY <2>1 DEF IInv, DbInv, Quiet, IdsIssued, ByItemRight
  <2>4. ByIdRight' /\ ShownRight' /\ RequestsRight'
    BY <2>1, <2>2, ByIdStays, ShownStays, SameRequests DEF IInv
  <2>5. QED
    BY <2>3, <2>4 DEF IInv
<1>2. QED
  BY <1>1, Advanced, Stopped, RequestsKeep, EventsKeep DEF ServeNext

\* Whatever requests and the administrator do, the tables, the caches, what clients were
\* shown and the requests on their way fit together.
THEOREM ServingInvariant == ServeSpec => []IInv
BY IInvInit, IInvKeeps, PTL DEF ServeSpec

---------------------------------------------------------------------------
(* What follows: upgrades *)

\* Whatever is merged and whenever the process stops: tables keep their types and their
\* constraints, and every session is one of the user of its mapping.
THEOREM UpgradeTypes == ServeSpec => []TypeOK
<1>1. IInv => TypeOK
  BY DEF IInv, DbInv, Sound, TypeOK
<1>2. QED
  BY <1>1, ServingInvariant, PTL

\* The proxy starts on every database in which no three users have one name, whichever
\* rows its servers, users, mappings, sessions and media have.
THEOREM UpgradeStartsUp == ServeSpec => []StartsUp
<1>1. IInv => StartsUp
  BY DEF IInv, DbInv, StartsUp, Threefold
<1>2. QED
  BY <1>1, ServingInvariant, PTL

\* When the proxy begins to serve, users have the access that they had, items the ids
\* that clients know, and servers their administrators, however often the upgrade was
\* interrupted.
THEOREM UpgradeDataKept == ServeSpec => []DataKept
<1>1. IInv => DataKept
  <2> SUFFICES ASSUME IInv, Ready PROVE AccessKept /\ IdsKept /\ AdminsKept
    BY DEF DataKept
  <2>1. db \in Database /\ Current(db) /\ Covers(was, db)
    BY DEF IInv, DbInv, Sound, Ready
  <2>2. AccessKept
    <3> SUFFICES ASSUME NEW m \in DOMAIN was.mappings, LedTo(was, was.mappings[m])
                 PROVE  \E n \in DOMAIN db.mappings :
                          /\ NameOf[db.mappings[n].user] = NameOf[was.mappings[m].user]
                          /\ db.servers[db.mappings[n].server].host = was.mappings[m].url.host
                          /\ \A k \in DOMAIN db.mappings :
                               /\ NameOf[db.mappings[k].user] = NameOf[db.mappings[n].user]
                               /\ db.mappings[k].server = db.mappings[n].server
                               => k = n
      BY DEF AccessKept
    <3>1. PICK n \in DOMAIN db.mappings :
            /\ NameOf[db.mappings[n].user] = NameOf[was.mappings[m].user]
            /\ db.mappings[n].url.host = was.mappings[m].url.host
      BY <2>1 DEF Covers
    <3>2. /\ \A k \in DOMAIN db.mappings : /\ db.mappings[k].user \in db.users
                                           /\ db.mappings[k].url = db.servers[db.mappings[k].server]
          /\ OneName(db) /\ Unique(MappingUrls(db))
      BY <2>1 DEF Current, References, ById, UniqueKeys
    <3>3. ASSUME NEW k \in DOMAIN db.mappings,
                 NameOf[db.mappings[k].user] = NameOf[db.mappings[n].user],
                 db.mappings[k].server = db.mappings[n].server
          PROVE  k = n
      <4>1. db.mappings[k].user = db.mappings[n].user /\ db.mappings[k].url = db.mappings[n].url
        BY <3>2, <3>3 DEF OneName
      <4>2. MappingUrls(db)[k] = MappingUrls(db)[n]
        BY <4>1 DEF MappingUrls
      <4>3. QED
        BY <3>2, <4>2 DEF Unique, MappingUrls
    <3>4. QED
      BY <3>1, <3>2, <3>3
  <2>3. IdsKept
    <3> SUFFICES ASSUME NEW v \in DOMAIN was.media, LedTo(was, was.media[v])
                 PROVE  \E w \in DOMAIN db.media :
                          /\ w <= v
                          /\ db.media[w].item = was.media[v].item
                          /\ db.servers[db.media[w].server].host = was.media[v].url.host
                          /\ \A x \in DOMAIN db.media :
                               /\ db.media[x].item = db.media[w].item
                               /\ db.media[x].server = db.media[w].server
                               => x = w
      BY DEF IdsKept
    <3>1. PICK w \in DOMAIN db.media : /\ w <= v
                                       /\ db.media[w].item = was.media[v].item
                                       /\ db.media[w].url.host = was.media[v].url.host
      BY <2>1 DEF Covers
    <3>2. db.media[w].url = db.servers[db.media[w].server]
      BY <2>1 DEF Current, ById
    <3>3. QED
      BY <2>1, <3>1, <3>2, CurrentRows
  <2>4. AdminsKept
    BY <2>1 DEF Covers, AdminsKept
  <2>5. QED
    BY <2>2, <2>3, <2>4
<1>2. QED
  BY <1>1, ServingInvariant, PTL

\* When servers are merged, a user keeps on every device the session used last.
THEOREM UpgradeKeepsSessions == ServeSpec => NewestSessionKept
<1>1. ASSUME IInv, Start \/ MigrateServers
      PROVE  NewestKept(db, db')
  BY <1>1, Started, ServersMigrated DEF IInv
<1>2. IInv /\ [ServeNext]_allVars =>
        [Start \/ MigrateServers =>
           \A s \in DOMAIN db.sessions :
             LET m == db.mappings[db.sessions[s].mapping]
             IN LedTo(db, m) =>
                  \E t \in DOMAIN db.sessions \cap DOMAIN db'.sessions :
                    /\ db.sessions[t].used >= db.sessions[s].used
                    /\ db'.sessions[t].user = db.sessions[s].user
                    /\ db'.sessions[t].device = db.sessions[s].device
                    /\ db'.mappings[db'.sessions[t].mapping].url.host = m.url.host]_vars
  BY <1>1 DEF NewestKept
<1>3. QED
  BY <1>2, ServingInvariant, PTL DEF ServeSpec, NewestSessionKept

\* A start of a database that is up to date changes nothing in it.
THEOREM UpgradeEnds == ServeSpec => RestartChangesNothing
<1>1. ASSUME IInv, [ServeNext]_allVars, process = "down", migrated = 2
      PROVE  UNCHANGED db
  <2>1. CASE Advance
    <3>1. Start
      BY <1>1, <2>1 DEF Advance, MigrateUsers, MigrateServers, Migrate, Serve
    <3>2. QED
      BY <1>1, <3>1, Started DEF IInv
  <2>2. CASE StopServing \/ UNCHANGED allVars
    BY <1>1, <2>2 DEF StopServing, Stop, allVars, vars
  <2>3. CASE RequestStep
    <3>1. ASSUME NEW r \in Request, Create(r)
          PROVE  UNCHANGED db
      <4>1. requests[r].phase = "unmapped"
        BY <3>1 DEF Create
      <4>2. QED
        BY <1>1, <4>1, BusyIsServing
    <3>2. QED
      BY <2>3, <3>1 DEF RequestStep, Receive, Route, Send, Answer, LookUp, vars
  <2>4. CASE EventStep
    BY <1>1, <2>4
       DEF EventStep, DeleteServer, UpdatePriority, CheckHealth, Regroup, Expire, Event
  <2>5. QED
    BY <1>1, <2>1, <2>2, <2>3, <2>4 DEF ServeNext
<1>2. IInv /\ [ServeNext]_allVars => [process = "down" /\ migrated = 2 => UNCHANGED db]_vars
  BY <1>1
<1>3. QED
  BY <1>2, ServingInvariant, PTL DEF ServeSpec, RestartChangesNothing

---------------------------------------------------------------------------
(* What follows: requests *)

\* Whatever is cached, deleted or restarted between finding an item unmapped and mapping
\* it, clients are never shown two ids for an item of a server, nor one id for two.
THEOREM ServingOneIdPerItem == ServeSpec => []OneIdPerItem
<1>1. IInv => OneIdPerItem
  BY DEF IInv, ShownRight
<1>2. QED
  BY <1>1, ServingInvariant, PTL

LEMMA SentIsRight ==
  ASSUME IInv, NEW r \in Request
  PROVE  /\ requests[r].phase = "sent" => SentRight(requests[r])
         /\ requests[r].phase \in {"routed", "sent"} => RoutedRight(requests[r])
BY DEF IInv, RequestsRight, RequestRight, SentRight

\* Ids are sent translated only to the server that they belong to.
THEOREM ServingIdsBelong == ServeSpec => []IdsBelong
<1>1. IInv => IdsBelong
  BY SentIsRight DEF IdsBelong, Under, SentRight, IdsOf
<1>2. QED
  BY <1>1, ServingInvariant, PTL

\* A user's request is sent with a session of the user's on the server it is sent to,
\* whatever health checks, caches and deletions have done since it was received.
THEOREM ServingOwnAccount == ServeSpec => []OwnAccount
<1>1. IInv => OwnAccount
  BY SentIsRight DEF OwnAccount, Under, RoutedRight, OwnAccountOf
<1>2. QED
  BY <1>1, ServingInvariant, PTL

\* A request whose URL names a media id first goes to the server of that id, or nowhere.
THEOREM ServingNamedServer == ServeSpec => []NamedServerAsked
<1>1. IInv => NamedServerAsked
  BY SentIsRight DEF NamedServerAsked, Under, RoutedRight, NamedServerOf
<1>2. QED
  BY <1>1, ServingInvariant, PTL

\* A report goes to the one server that all that it names belongs to, or nowhere.
THEOREM ServingReportsExact == ServeSpec => []ReportsExact
<1>1. IInv => ReportsExact
  BY SentIsRight DEF ReportsExact, Under, RoutedRight, ReportOf
<1>2. QED
  BY <1>1, ServingInvariant, PTL
=============================================================================
