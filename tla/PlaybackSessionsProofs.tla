------------------------ MODULE PlaybackSessionsProofs ------------------------
(***************************************************************************)
(* The inductive invariant of PlaybackSessions, and the theorems that      *)
(* follow from it for any ids, users, servers and numbers of requests.     *)
(***************************************************************************)
EXTENDS PlaybackSessions, TLAPS

\* Revisions are given to one binding only, in increasing order.
RevisionsOwned ==
  \A e \in sessions :
    /\ e.revision <= revision
    /\ \A f \in sessions : e.revision = f.revision => SameAuthority(e, f)

\* A report knows the revision of its binding until it is overtaken, and of no
\* entry at all from then on.
ReportKnows(q) ==
  LET report == requests[q]
  IN  report \in Call /\ report.revision # 0 =>
        /\ report.kind \in Report
        /\ report.revision <= revision
        /\ \A e \in sessions : e.revision = report.revision => SameAuthority(e, report)
        /\ q \in overtaken => \A e \in sessions : e.revision # report.revision
        /\ q \notin overtaken =>
             \A e \in sessions : SameAuthority(e, report) => e.revision = report.revision

IInv ==
  /\ TypeOK
  /\ OneBinding
  /\ RevisionsOwned
  /\ \A q \in Request : ReportKnows(q)

\* Two calls about the same binding, with the same memory of it.
SameCall(x, y) == SameAuthority(x, y) /\ x.kind = y.kind /\ x.revision = y.revision

---------------------------------------------------------------------------
(* The kinds of steps *)

\* The initial state satisfies the invariant.
LEMMA InitIInv == Init => IInv
BY BoundAssumption DEF Init, IInv, TypeOK, OneBinding, RevisionsOwned, ReportKnows, Call, Idle

\* A step that adds no entry and resolves no report, whatever else it does.
LEMMA Quiet ==
  ASSUME IInv, TypeOK', revision' = revision, overtaken' = overtaken,
         \A e \in sessions' : \E f \in sessions :
           SameAuthority(e, f) /\ e.server = f.server /\ e.revision = f.revision,
         \A p \in Request : requests'[p] \in Call =>
           requests[p] \in Call /\ SameCall(requests'[p], requests[p])
  PROVE  IInv'
<1>1. OneBinding'
  BY DEF IInv, OneBinding, SameAuthority
<1>2. RevisionsOwned'
  BY DEF IInv, RevisionsOwned, SameAuthority
<1>3. ASSUME NEW q \in Request PROVE ReportKnows(q)'
  <2>1. SUFFICES ASSUME requests'[q] \in Call, requests'[q].revision # 0
                 PROVE  ReportKnows(q)'
    BY DEF ReportKnows
  <2>2. requests[q] \in Call /\ SameCall(requests'[q], requests[q]) /\ ReportKnows(q)
    BY <2>1 DEF IInv
  <2>3. QED
    BY <2>1, <2>2 DEF ReportKnows, SameCall, SameAuthority
<1>4. QED
  BY <1>1, <1>2, <1>3 DEF IInv

\* A request begins: it knows nothing, or the revision of the binding it was resolved to.
LEMMA Begins ==
  ASSUME IInv, TypeOK', NEW q \in Request, UNCHANGED <<sessions, revision>>,
         overtaken' = overtaken \ {q},
         \A p \in Request \ {q} : requests'[p] = requests[p],
         requests'[q] \in Call /\ requests'[q].revision # 0 =>
           /\ requests'[q].kind \in Report
           /\ \E e \in sessions :
                SameAuthority(e, requests'[q]) /\ e.revision = requests'[q].revision
  PROVE  IInv'
<1>1. OneBinding' /\ RevisionsOwned'
  BY DEF IInv, OneBinding, RevisionsOwned
<1>2. ASSUME NEW p \in Request, p # q PROVE ReportKnows(p)'
  BY <1>2 DEF IInv, ReportKnows
<1>3. ReportKnows(q)'
  <2>1. SUFFICES ASSUME requests'[q] \in Call, requests'[q].revision # 0
                 PROVE  ReportKnows(q)'
    BY DEF ReportKnows
  <2>2. PICK e \in sessions :
          SameAuthority(e, requests'[q]) /\ e.revision = requests'[q].revision
    BY <2>1
  <2>3. q \notin overtaken' /\ requests'[q].kind \in Report
    BY <2>1
  <2>4. requests'[q].revision <= revision'
    BY <2>2 DEF IInv, RevisionsOwned
  <2>5. \A f \in sessions' :
          f.revision = requests'[q].revision <=> SameAuthority(f, requests'[q])
    BY <2>2 DEF IInv, OneBinding, RevisionsOwned, SameAuthority
  <2>6. QED
    BY <2>1, <2>3, <2>4, <2>5 DEF ReportKnows
<1>4. QED
  BY <1>1, <1>2, <1>3 DEF IInv

\* What add_session leaves: entries of other bindings, entries of this binding with the
\* same server, and the new one, all of this binding with the new revision.
LEMMA AddedEntries ==
  ASSUME sessions \subseteq Tracked, NEW x \in Call, x.server \in Server,
         NEW r \in 1..MaxRevision
  PROVE  /\ Added(x, r) \subseteq Tracked
         /\ \A e \in Added(x, r) :
              \/ e \in sessions /\ ~SameAuthority(e, x)
              \/ SameAuthority(e, x) /\ e.server = x.server /\ e.revision = r
<1>1. SUFFICES ASSUME NEW e \in Added(x, r)
               PROVE  /\ e \in Tracked
                      /\ \/ e \in sessions /\ ~SameAuthority(e, x)
                         \/ SameAuthority(e, x) /\ e.server = x.server /\ e.revision = r
  OBVIOUS
<1>2. CASE e = NewEntry(x, r)
  BY <1>2, BoundAssumption DEF NewEntry, SameAuthority, Call, Tracked
<1>3. CASE e # NewEntry(x, r)
  <2>1. PICK f \in sessions :
          Kept(f, x) /\ e = IF SameAuthority(f, x) THEN [f EXCEPT !.revision = r] ELSE f
    BY <1>3 DEF Added
  <2>2. CASE ~SameAuthority(f, x)
    BY <2>1, <2>2
  <2>3. CASE SameAuthority(f, x)
    <3>1. f \in Tracked /\ e = [f EXCEPT !.revision = r]
      BY <2>1, <2>3
    <3>2. e \in Tracked /\ e.id = f.id /\ e.user = f.user /\ e.server = f.server /\ e.revision = r
      BY <3>1 DEF Tracked
    <3>3. QED
      BY <2>1, <2>3, <3>2 DEF Kept, SameAuthority
  <2>4. QED
    BY <2>2, <2>3
<1>4. QED
  BY <1>2, <1>3

\* add_session on behalf of request q, which either ends or goes on as it was.
LEMMA Tracks ==
  ASSUME IInv, NEW q \in Request, NEW id \in PlayId, NEW item \in Item,
         requests[q] \in Call, requests[q].server \in Server, Track(q, id, item),
         \A p \in Request \ {q} : requests'[p] = requests[p],
         requests' \in [Request -> {Idle} \cup Call \cup Found],
         requests'[q] \in Call => requests'[q].revision = 0,
         UNCHANGED <<servers, deleting>>
  PROVE  IInv'
<1> DEFINE x == [requests[q] EXCEPT !.id = id, !.item = item]
           r == revision + 1
<1>1. x \in Call /\ x.server \in Server
  BY DEF Call
<1>2. /\ revision < MaxRevision /\ revision' = r /\ sessions' = Added(x, r)
      /\ overtaken' = overtaken \cup
           {p \in Request \ {q} : requests[p] \in Call /\ SameAuthority(requests[p], x)}
  BY DEF Track
<1>3. revision \in 0..MaxRevision /\ sessions \subseteq Tracked /\ overtaken \subseteq Request
  BY DEF IInv, TypeOK
<1>4. r \in 1..MaxRevision
  BY <1>2, <1>3, BoundAssumption
<1> HIDE DEF x, r
<1>5. /\ Added(x, r) \subseteq Tracked
      /\ \A e \in Added(x, r) :
           \/ e \in sessions /\ ~SameAuthority(e, x)
           \/ SameAuthority(e, x) /\ e.server = x.server /\ e.revision = r
  BY <1>1, <1>3, <1>4, AddedEntries
<1>6. \A e \in sessions : e.revision \in Int /\ e.revision < r
  BY <1>3 DEF IInv, RevisionsOwned, Tracked, r
<1>7. TypeOK'
  BY <1>2, <1>3, <1>4, <1>5 DEF IInv, TypeOK
<1>8. OneBinding'
  BY <1>2, <1>5 DEF IInv, OneBinding, SameAuthority
<1>9. RevisionsOwned'
  <2>1. \A e \in sessions' : e.revision <= r
    BY <1>2, <1>4, <1>5, <1>6
  <2>2. ASSUME NEW e \in sessions', NEW f \in sessions', e.revision = f.revision
        PROVE  SameAuthority(e, f)
    <3>1. CASE e \in sessions /\ f \in sessions
      BY <2>2, <3>1 DEF IInv, RevisionsOwned
    <3>2. CASE SameAuthority(e, x) /\ SameAuthority(f, x)
      BY <3>2 DEF SameAuthority
    <3>3. QED
      BY <1>2, <1>5, <1>6, <2>2, <3>1, <3>2
  <2>3. QED
    BY <1>2, <2>1, <2>2 DEF RevisionsOwned
<1>10. ASSUME NEW p \in Request PROVE ReportKnows(p)'
  <2>1. SUFFICES ASSUME requests'[p] \in Call, requests'[p].revision # 0
                 PROVE  ReportKnows(p)'
    BY DEF ReportKnows
  <2> DEFINE known == requests[p].revision
  <2>2. CASE p = q
    \* A request that goes on tracking is no report: it has no revision to go by.
    BY <2>1, <2>2
  <2>3. CASE p # q
    <3>1. requests'[p] = requests[p] /\ ReportKnows(p)
      BY <2>3 DEF IInv
    <3>2. known \in Int /\ known < r /\ known <= r
      BY <1>3, <2>1, <3>1 DEF ReportKnows, Call, r
    <3>3. \A e \in sessions' : e.revision = known => e \in sessions /\ ~SameAuthority(e, x)
      BY <1>2, <1>5, <3>2
    <3>4. \A e \in sessions' : e.revision = known => SameAuthority(e, requests[p])
      BY <2>1, <3>1, <3>3 DEF ReportKnows
    <3>5. ASSUME p \in overtaken' PROVE \A e \in sessions' : e.revision # known
      <4>1. CASE p \in overtaken
        BY <2>1, <3>1, <3>3, <4>1 DEF ReportKnows
      <4>2. CASE SameAuthority(requests[p], x)
        BY <3>3, <3>4, <4>2 DEF SameAuthority
      <4>3. QED
        BY <1>2, <3>5, <4>1, <4>2
    <3>6. ASSUME p \notin overtaken'
          PROVE  \A e \in sessions' : SameAuthority(e, requests[p]) => e.revision = known
      <4>1. p \notin overtaken /\ ~SameAuthority(requests[p], x)
        BY <1>2, <2>1, <2>3, <3>1, <3>6
      <4>2. QED
        BY <1>2, <1>5, <2>1, <3>1, <4>1 DEF ReportKnows, SameAuthority
    <3>7. QED
      BY <1>2, <2>1, <3>1, <3>2, <3>4, <3>5, <3>6 DEF ReportKnows
  <2>4. QED
    BY <2>2, <2>3
<1>11. QED
  BY <1>7, <1>8, <1>9, <1>10 DEF IInv

---------------------------------------------------------------------------
(* The requests *)

\* A call that is changed in its step, or in its step and server, is a call.
LEMMA CallSteps ==
  ASSUME NEW x \in Call,
         NEW step \in {"resolved", "routed", "sent", "tracking"}, NEW v \in Server
  PROVE  /\ x.server \in Server => [x EXCEPT !.step = step] \in Call
         /\ SameCall([x EXCEPT !.step = step], x)
         /\ [x EXCEPT !.step = step, !.server = v] \in Call
         /\ SameCall([x EXCEPT !.step = step, !.server = v], x)
BY NoServerAssumption DEF Call, SameCall, SameAuthority

\* A request that is neither idle nor about an entry it found is a call.
LEMMA Calls ==
  ASSUME IInv, NEW q \in Request, requests[q] # Idle, requests[q].step # "found"
  PROVE  requests[q] \in Call
BY DEF IInv, TypeOK, Found

\* A request that ends, or goes on as Quiet allows, while entries are at most refreshed,
\* aged or removed.
LEMMA QuietRequest ==
  ASSUME IInv, NEW q \in Request, NEW x, Become(q, x),
         x \in {Idle} \cup Call \cup Found,
         x \in Call => requests[q] \in Call /\ SameCall(x, requests[q]),
         sessions' \subseteq Tracked,
         \A e \in sessions' : \E f \in sessions :
           SameAuthority(e, f) /\ e.server = f.server /\ e.revision = f.revision,
         UNCHANGED <<servers, deleting, revision, overtaken>>
  PROVE  IInv'
<1>1. requests \in [Request -> {Idle} \cup Call \cup Found]
  BY DEF IInv, TypeOK
<1>2. requests' = [requests EXCEPT ![q] = x]
  BY DEF Become
<1>3. requests' \in [Request -> {Idle} \cup Call \cup Found]
  BY <1>1, <1>2
<1>4. TypeOK'
  BY <1>3 DEF IInv, TypeOK
<1>5. \A p \in Request : requests'[p] \in Call =>
        requests[p] \in Call /\ SameCall(requests'[p], requests[p])
  BY <1>1, <1>2 DEF SameCall, SameAuthority
<1>6. QED
  BY <1>4, <1>5, Quiet

\* The storage after refreshing, aging or removing has no entry with another binding,
\* server or revision than it had before.
LEMMA Shrinks ==
  ASSUME sessions \subseteq Tracked, NEW x, NEW v,
         NEW S \in {sessions, Refreshed(x), Removed(x), WithoutServer(v), Aged}
  PROVE  /\ S \subseteq Tracked
         /\ \A e \in S : \E f \in sessions :
              SameAuthority(e, f) /\ e.server = f.server /\ e.revision = f.revision
<1>1. \A f \in sessions : \A n \in 0..SessionTtl :
        /\ [f EXCEPT !.age = n] \in Tracked
        /\ SameAuthority([f EXCEPT !.age = n], f)
        /\ [f EXCEPT !.age = n].server = f.server /\ [f EXCEPT !.age = n].revision = f.revision
  BY DEF Tracked, SameAuthority
<1>2. SUFFICES ASSUME NEW e \in S
               PROVE  /\ e \in Tracked
                      /\ \E f \in sessions :
                           SameAuthority(e, f) /\ e.server = f.server /\ e.revision = f.revision
  OBVIOUS
<1>3. CASE e \in sessions
  BY <1>3 DEF SameAuthority
<1>4. CASE e \in Refreshed(x) /\ e \notin sessions
  <2>1. PICK f \in sessions : e = IF f \in Reported(x) THEN [f EXCEPT !.age = 0] ELSE f
    BY <1>4 DEF Refreshed
  <2>2. e = [f EXCEPT !.age = 0] /\ 0 \in 0..SessionTtl
    BY <1>4, <2>1, BoundAssumption
  <2>3. QED
    BY <1>1, <2>2
<1>5. CASE e \in Aged
  <2>1. PICK f \in sessions : f.age < SessionTtl /\ e = [f EXCEPT !.age = f.age + 1]
    BY <1>5 DEF Aged
  <2>2. f.age + 1 \in 0..SessionTtl
    BY <2>1, BoundAssumption DEF Tracked
  <2>3. QED
    BY <1>1, <2>1, <2>2
<1>6. QED
  BY <1>3, <1>4, <1>5 DEF Removed, WithoutServer

---------------------------------------------------------------------------
(* The invariant *)

LEMMA ResolveReportKeeps ==
  ASSUME IInv, NEW q \in Request, NEW kind \in Report, NEW id \in PlayId, NEW item \in Item,
         NEW user \in User, ResolveReport(q, kind, id, item, user)
  PROVE  IInv'
<1> DEFINE Resolved(v, r) == [step |-> "resolved", kind |-> kind, id |-> id, item |-> item,
                              user |-> user, server |-> v, revision |-> r]
<1>1. requests \in [Request -> {Idle} \cup Call \cup Found] /\ sessions \subseteq Tracked
  BY DEF IInv, TypeOK
<1>2. Resolved(NoServer, 0) \in Call
  BY BoundAssumption DEF Call
<1>3. \A e \in sessions : e.id = id /\ e.user = user =>
        Resolved(e.server, e.revision) \in Call /\ SameAuthority(e, Resolved(e.server, e.revision))
  BY <1>1 DEF SameAuthority, Call, Tracked
<1>4. PICK x : /\ Become(q, x) /\ x \in Call /\ x.kind \in Report
               /\ x.revision # 0 =>
                    \E e \in sessions : SameAuthority(e, x) /\ e.revision = x.revision
  <2>1. CASE Become(q, Resolved(NoServer, 0))
    BY <1>2, <2>1
  <2>2. CASE \E e \in sessions :
               e.id = id /\ e.user = user /\ Become(q, Resolved(e.server, e.revision))
    BY <1>3, <2>2
  <2>3. QED
    BY <2>1, <2>2 DEF ResolveReport
<1>5. requests' = [requests EXCEPT ![q] = x]
  BY <1>4 DEF Become
<1>6. UNCHANGED <<servers, deleting, sessions, revision>> /\ overtaken' = overtaken \ {q}
  BY DEF ResolveReport
<1>7. TypeOK'
  BY <1>1, <1>4, <1>5, <1>6 DEF IInv, TypeOK
<1>8. requests'[q] = x /\ \A p \in Request \ {q} : requests'[p] = requests[p]
  BY <1>1, <1>5
<1>9. QED
  BY <1>4, <1>6, <1>7, <1>8, Begins

\* A request that begins without a revision.
LEMMA BeginsFresh ==
  ASSUME IInv, NEW q \in Request, NEW x \in Call \cup Found, Become(q, x),
         x \in Call => x.revision = 0,
         overtaken' = overtaken \ {q}, UNCHANGED <<servers, deleting, sessions, revision>>
  PROVE  IInv'
<1>1. requests \in [Request -> {Idle} \cup Call \cup Found]
  BY DEF IInv, TypeOK
<1>2. requests' = [requests EXCEPT ![q] = x]
  BY DEF Become
<1>3. TypeOK'
  BY <1>1, <1>2 DEF IInv, TypeOK
<1>4. requests'[q] = x /\ \A p \in Request \ {q} : requests'[p] = requests[p]
  BY <1>1, <1>2
<1>5. QED
  BY <1>3, <1>4, Begins

\* The requests that track a session and then end, or go on tracking.
LEMMA TrackKeeps ==
  ASSUME IInv, NEW q \in Request, NEW id \in PlayId, NEW item \in Item, NEW x,
         requests[q] \in Call, requests[q].server \in Server, Track(q, id, item), Become(q, x),
         x = Idle \/ (x \in Call /\ x.revision = 0), UNCHANGED <<servers, deleting>>
  PROVE  IInv'
<1>1. requests \in [Request -> {Idle} \cup Call \cup Found]
  BY DEF IInv, TypeOK
<1>2. requests' = [requests EXCEPT ![q] = x]
  BY DEF Become
<1>3. /\ requests' \in [Request -> {Idle} \cup Call \cup Found]
      /\ requests'[q] = x /\ \A p \in Request \ {q} : requests'[p] = requests[p]
  BY <1>1, <1>2
<1>4. x \in Call => x.revision = 0
  BY DEF Idle, Call
<1>5. QED
  BY <1>3, <1>4, Tracks

\* Every step of a request keeps the invariant.
LEMMA RequestStep ==
  ASSUME IInv, NEW q \in Request,
         \/ SendReport(q) \/ Started(q) \/ Progressed(q) \/ Stopped(q)
         \/ LookupStream(q) \/ Streamed(q) \/ TrackAlias(q)
         \/ Lookup(q) \/ ResolveServer(q) \/ Drop(q)
         \/ \E id \in PlayId, item \in Item : TrackSource(q, id, item)
         \/ \E id \in PlayId, item \in Item, user \in User :
              \/ \E kind \in Report : ResolveReport(q, kind, id, item, user)
              \/ \E kind \in {"stream", "negotiate"} : Choose(q, kind, id, item, user)
  PROVE  IInv'
<1> DEFINE x == requests[q]
<1>1. /\ requests \in [Request -> {Idle} \cup Call \cup Found]
      /\ sessions \subseteq Tracked /\ servers \subseteq Server
  BY DEF IInv, TypeOK
<1>2. sessions' = sessions =>
        /\ sessions' \subseteq Tracked
        /\ \A e \in sessions' : \E f \in sessions :
             SameAuthority(e, f) /\ e.server = f.server /\ e.revision = f.revision
  BY <1>1 DEF SameAuthority
<1>3. Idle \notin Call
  BY DEF Idle, Call
<1>4. CASE SendReport(q)
  <2>1. x \in Call
    BY <1>4, Calls DEF SendReport
  <2>2. PICK v \in Server : Become(q, [x EXCEPT !.step = "sent", !.server = v])
    BY <1>1, <1>4 DEF SendReport, Candidates
  <2>3. [x EXCEPT !.step = "sent", !.server = v] \in Call
          /\ SameCall([x EXCEPT !.step = "sent", !.server = v], x)
    BY <2>1, CallSteps
  <2>4. UNCHANGED <<servers, deleting, sessions, revision, overtaken>>
    BY <1>4 DEF SendReport
  <2>5. QED
    BY <1>2, <2>1, <2>2, <2>3, <2>4, QuietRequest
<1>5. CASE Started(q) \/ Streamed(q) \/ TrackAlias(q)
  <2>1. /\ x \in Call /\ x.server \in Server /\ x.id \in PlayId /\ x.item \in Item
    BY <1>5, Calls DEF Started, Streamed, TrackAlias, Calling, Call
  <2>2. /\ Track(q, x.id, x.item) /\ Become(q, Idle) /\ UNCHANGED <<servers, deleting>>
    BY <1>5 DEF Started, Streamed, TrackAlias
  <2>3. QED
    BY <2>1, <2>2, TrackKeeps
<1>6. CASE \E id \in PlayId, item \in Item : TrackSource(q, id, item)
  <2>1. PICK id \in PlayId, item \in Item : TrackSource(q, id, item)
    BY <1>6
  <2>2. x \in Call /\ x.server \in Server /\ x.kind = "negotiate"
    BY <2>1, Calls DEF TrackSource, Call
  <2>3. x.revision = 0
    BY <2>2 DEF IInv, ReportKnows, Report
  <2>4. [x EXCEPT !.step = "tracking"] \in Call /\ [x EXCEPT !.step = "tracking"].revision = 0
    BY <2>2, <2>3, CallSteps DEF SameCall
  <2>5. /\ Track(q, id, item) /\ Become(q, [x EXCEPT !.step = "tracking"])
        /\ UNCHANGED <<servers, deleting>>
    BY <2>1 DEF TrackSource
  <2>6. QED
    BY <2>2, <2>4, <2>5, TrackKeeps
<1>7. CASE Progressed(q) \/ Stopped(q)
  <2>1. /\ sessions' = Refreshed(x) \/ sessions' = Removed(x)
        /\ Become(q, Idle) /\ UNCHANGED <<servers, deleting, revision, overtaken>>
    BY <1>7 DEF Progressed, Stopped
  <2>2. /\ sessions' \subseteq Tracked
        /\ \A e \in sessions' : \E f \in sessions :
             SameAuthority(e, f) /\ e.server = f.server /\ e.revision = f.revision
    BY <1>1, <2>1, Shrinks
  <2>3. QED
    BY <1>3, <2>1, <2>2, QuietRequest
<1>8. CASE LookupStream(q)
  <2>1. x \in Call /\ x.server \in Server
    BY <1>8, Calls DEF LookupStream, Call
  <2>2. [x EXCEPT !.step = "sent"] \in Call /\ SameCall([x EXCEPT !.step = "sent"], x)
    BY <2>1, CallSteps
  <2>3. PICK y : /\ Become(q, y) /\ y \in {Idle} \cup Call \cup Found
                 /\ y \in Call => SameCall(y, x)
    <3>1. \A e \in sessions : [step |-> "found", server |-> e.server] \in Found \ Call
      BY <1>1 DEF Found, Call, Tracked
    <3>2. QED
      BY <1>3, <1>8, <2>2, <3>1 DEF LookupStream, Binding
  <2>4. UNCHANGED <<servers, deleting, sessions, revision, overtaken>>
    BY <1>8 DEF LookupStream
  <2>5. QED
    BY <1>2, <2>1, <2>3, <2>4, QuietRequest
<1>9. CASE Lookup(q)
  <2>1. PICK e \in sessions : Become(q, [step |-> "found", server |-> e.server])
    BY <1>9 DEF Lookup
  <2>2. [step |-> "found", server |-> e.server] \in Found \ Call
    BY <1>1 DEF Found, Call, Tracked
  <2>3. QED
    BY <1>9, <2>1, <2>2, BeginsFresh DEF Lookup
<1>10. CASE ResolveServer(q)
  <2>1. /\ sessions' = sessions \/ sessions' = WithoutServer(x.server)
        /\ Become(q, Idle) /\ UNCHANGED <<servers, deleting, revision, overtaken>>
    BY <1>10 DEF ResolveServer
  <2>2. /\ sessions' \subseteq Tracked
        /\ \A e \in sessions' : \E f \in sessions :
             SameAuthority(e, f) /\ e.server = f.server /\ e.revision = f.revision
    BY <1>1, <2>1, Shrinks
  <2>3. QED
    BY <1>3, <2>1, <2>2, QuietRequest
<1>11. CASE Drop(q)
  BY <1>2, <1>3, <1>11, QuietRequest DEF Drop
<1>12. CASE \E id \in PlayId, item \in Item, user \in User :
              \E kind \in Report : ResolveReport(q, kind, id, item, user)
  BY <1>12, ResolveReportKeeps
<1>13. CASE \E id \in PlayId, item \in Item, user \in User :
              \E kind \in {"stream", "negotiate"} : Choose(q, kind, id, item, user)
  <2>1. PICK id \in PlayId, item \in Item, user \in User, kind \in {"stream", "negotiate"} :
          Choose(q, kind, id, item, user)
    BY <1>13
  <2>2. PICK v \in Server, step \in {"routed", "sent"} :
          Become(q, [step |-> step, kind |-> kind, id |-> id, item |-> item, user |-> user,
                     server |-> v, revision |-> 0])
    BY <1>1, <2>1 DEF Choose
  <2>3. [step |-> step, kind |-> kind, id |-> id, item |-> item, user |-> user,
         server |-> v, revision |-> 0] \in Call
    BY BoundAssumption, NoServerAssumption DEF Call
  <2>4. QED
    BY <2>1, <2>2, <2>3, BeginsFresh DEF Choose
<1>14. QED
  BY <1>4, <1>5, <1>6, <1>7, <1>8, <1>9, <1>10, <1>11, <1>12, <1>13

\* The steps that are no request's keep the invariant.
LEMMA OtherStep ==
  ASSUME IInv, NEW v \in Server, DeleteServer(v) \/ EndDelete(v) \/ AbandonDelete(v) \/ Tick
  PROVE  IInv'
<1>1. UNCHANGED <<revision, requests, overtaken>>
  BY DEF DeleteServer, EndDelete, AbandonDelete, Tick
<1>2. sessions' \in {sessions, WithoutServer(v), Aged}
  BY DEF DeleteServer, EndDelete, AbandonDelete, Tick
<1>3. /\ sessions' \subseteq Tracked
      /\ \A e \in sessions' : \E f \in sessions :
           SameAuthority(e, f) /\ e.server = f.server /\ e.revision = f.revision
  BY <1>2, Shrinks DEF IInv, TypeOK
<1>4. servers' \subseteq Server /\ deleting' \subseteq Server \ servers'
  BY DEF DeleteServer, EndDelete, AbandonDelete, Tick, IInv, TypeOK
<1>5. TypeOK'
  BY <1>1, <1>3, <1>4 DEF IInv, TypeOK
<1>6. \A p \in Request : requests'[p] \in Call =>
        requests[p] \in Call /\ SameCall(requests'[p], requests[p])
  BY <1>1 DEF SameCall, SameAuthority
<1>7. QED
  BY <1>1, <1>3, <1>5, <1>6, Quiet

\* No step breaks the invariant.
LEMMA StepIInv == IInv /\ [Next]_vars => IInv'
<1>1. SUFFICES ASSUME IInv, [Next]_vars PROVE IInv'
  OBVIOUS
<1>2. CASE \E q \in Request :
             \/ SendReport(q) \/ Started(q) \/ Progressed(q) \/ Stopped(q)
             \/ LookupStream(q) \/ Streamed(q) \/ TrackAlias(q)
             \/ Lookup(q) \/ ResolveServer(q) \/ Drop(q)
             \/ \E id \in PlayId, item \in Item : TrackSource(q, id, item)
             \/ \E id \in PlayId, item \in Item, user \in User :
                  \/ \E kind \in Report : ResolveReport(q, kind, id, item, user)
                  \/ \E kind \in {"stream", "negotiate"} : Choose(q, kind, id, item, user)
  BY <1>1, <1>2, RequestStep
<1>3. CASE \E v \in Server : DeleteServer(v) \/ EndDelete(v) \/ AbandonDelete(v)
  BY <1>1, <1>3, OtherStep
<1>4. CASE Tick
  <2>1. PICK e \in sessions : e.server \in Server
    BY <1>1, <1>4 DEF Tick, IInv, TypeOK, Tracked
  <2>2. QED
    BY <1>1, <1>4, <2>1, OtherStep
<1>5. CASE UNCHANGED vars
  BY <1>1, <1>5
     DEF vars, IInv, TypeOK, OneBinding, RevisionsOwned, ReportKnows, SameAuthority
<1>6. QED
  BY <1>1, <1>2, <1>3, <1>4, <1>5 DEF Next

\* The invariant holds in every state the storage can reach.
THEOREM Invariance == Spec => []IInv
BY InitIInv, StepIInv, PTL DEF Spec

\* Every variable keeps its type.
THEOREM TypeCorrect == Spec => []TypeOK
BY Invariance, PTL DEF IInv

\* All aliases of a user's play session lead to one server and share one revision
\* (add_session).
THEOREM OneBindingHolds == Spec => []OneBinding
BY Invariance, PTL DEF IInv

---------------------------------------------------------------------------
(* What reports change *)

\* The entries of an overtaken report are gone; those of another are its whole binding.
LEMMA ReportedEntries ==
  ASSUME IInv, NEW q \in Request, requests[q] \in Call
  PROVE  /\ q \in overtaken => Reported(requests[q]) = {}
         /\ q \notin overtaken /\ requests[q].revision # 0 =>
              Reported(requests[q]) = Binding(requests[q])
<1>1. \A e \in sessions : e.revision # 0
  BY DEF IInv, TypeOK, Tracked
<1>2. QED
  BY <1>1 DEF IInv, ReportKnows, Reported, Binding, SameAuthority

\* (refresh_session_for_user, remove_session_for_user) A late report changes nothing.
THEOREM LateReportsHold == Spec => LateReportsHarmless
<1>1. ASSUME IInv, NEW q \in overtaken, Progressed(q) \/ Stopped(q)
      PROVE  sessions' = sessions
  <2>1. q \in Request
    BY <1>1 DEF IInv, TypeOK
  <2>2. requests[q] \in Call
    BY <1>1, <2>1, Calls DEF Progressed, Stopped, Calling
  <2>3. Reported(requests[q]) = {}
    BY <1>1, <2>1, <2>2, ReportedEntries
  <2>4. QED
    BY <1>1, <2>3 DEF Progressed, Stopped, Refreshed, Removed
<1>2. IInv => \A q \in overtaken : Progressed(q) \/ Stopped(q) => sessions' = sessions
  BY <1>1
<1>3. QED
  BY <1>2, Invariance, PTL DEF LateReportsHarmless

\* (the same) A report that was not overtaken holds for the whole binding.
THEOREM ReportsHold == Spec => ReportsTakeEffect
<1> DEFINE Effect(q) ==
      requests[q] \in Call /\ requests[q].revision # 0 =>
        /\ Stopped(q) => \A e \in sessions' : ~SameAuthority(e, requests[q])
        /\ Progressed(q) => \A e \in sessions' : SameAuthority(e, requests[q]) => e.age = 0
<1>1. ASSUME IInv, NEW q \in Request \ overtaken PROVE Effect(q)
  <2>1. SUFFICES ASSUME requests[q] \in Call, requests[q].revision # 0 PROVE Effect(q)
    OBVIOUS
  <2>2. Reported(requests[q]) = Binding(requests[q])
    BY <1>1, <2>1, ReportedEntries
  <2>3. ASSUME Stopped(q), NEW e \in sessions' PROVE ~SameAuthority(e, requests[q])
    BY <2>2, <2>3 DEF Stopped, Removed, Binding
  <2>4. ASSUME Progressed(q), NEW e \in sessions', SameAuthority(e, requests[q])
        PROVE  e.age = 0
    <3>1. PICK f \in sessions :
            e = IF f \in Binding(requests[q]) THEN [f EXCEPT !.age = 0] ELSE f
      BY <2>2, <2>4 DEF Progressed, Refreshed
    <3>2. f \in Tracked
      BY <1>1 DEF IInv, TypeOK
    <3>3. CASE f \in Binding(requests[q])
      BY <3>1, <3>2, <3>3 DEF Tracked
    <3>4. CASE f \notin Binding(requests[q])
      BY <2>4, <3>1, <3>4 DEF Binding
    <3>5. QED
      BY <3>3, <3>4
  <2>5. QED
    BY <2>3, <2>4
<1>2. IInv => \A q \in Request \ overtaken : Effect(q)
  BY <1>1
<1>3. QED
  BY <1>2, Invariance, PTL DEF ReportsTakeEffect

---------------------------------------------------------------------------
(* What others keep *)

\* The entries of other users than u.
Others(S, u) == {e \in S : e.user # u}

\* Neither adding nor reporting touches the entries of others.
LEMMA OthersKept ==
  ASSUME IInv, NEW x \in Call
  PROVE  /\ x.server \in Server /\ revision < MaxRevision =>
              Others(Added(x, revision + 1), x.user) = Others(sessions, x.user)
         /\ Others(Refreshed(x), x.user) = Others(sessions, x.user)
         /\ Others(Removed(x), x.user) = Others(sessions, x.user)
<1>1. sessions \subseteq Tracked /\ revision \in 0..MaxRevision
  BY DEF IInv, TypeOK
<1>2. ASSUME x.server \in Server, revision < MaxRevision
      PROVE  Others(Added(x, revision + 1), x.user) = Others(sessions, x.user)
  <2>1. revision + 1 \in 1..MaxRevision
    BY <1>1, <1>2, BoundAssumption
  <2>2. \A e \in Added(x, revision + 1) : e.user # x.user => e \in sessions
    BY <1>1, <1>2, <2>1, AddedEntries DEF SameAuthority
  <2>3. ASSUME NEW e \in sessions, e.user # x.user PROVE e \in Added(x, revision + 1)
    <3>1. ~SameAuthority(e, x)
      BY <2>3 DEF SameAuthority
    <3>2. QED
      BY <3>1 DEF Added, Kept
  <2>4. QED
    BY <2>2, <2>3 DEF Others
<1>3. Others(Refreshed(x), x.user) = Others(sessions, x.user)
  <2>1. ASSUME NEW e \in Refreshed(x), e.user # x.user PROVE e \in sessions
    <3>1. PICK f \in sessions : e = IF f \in Reported(x) THEN [f EXCEPT !.age = 0] ELSE f
      BY DEF Refreshed
    <3>2. CASE f \in Reported(x)
      <4>1. f.user = x.user /\ f \in Tracked
        BY <1>1, <3>2 DEF Reported, Binding, SameAuthority
      <4>2. QED
        BY <2>1, <3>1, <3>2, <4>1 DEF Tracked
    <3>3. QED
      BY <3>1, <3>2
  <2>2. ASSUME NEW e \in sessions, e.user # x.user PROVE e \in Refreshed(x)
    <3>1. e \notin Reported(x)
      BY <2>2 DEF Reported, Binding, SameAuthority
    <3>2. QED
      BY <3>1 DEF Refreshed
  <2>3. QED
    BY <2>1, <2>2 DEF Others
<1>4. Others(Removed(x), x.user) = Others(sessions, x.user)
  BY DEF Others, Removed, Reported, Binding, SameAuthority
<1>5. QED
  BY <1>2, <1>3, <1>4

\* (add_session and the reports) One user's requests leave the bindings of others.
THEOREM OthersHold == Spec => OthersUntouched
<1>1. ASSUME IInv, [Next]_vars, NEW q \in Request, requests[q] \in Call,
             requests'[q] # requests[q]
      PROVE  Others(sessions', requests[q].user) = Others(sessions, requests[q].user)
  <2> DEFINE u == requests[q].user
  <2>1. requests \in [Request -> {Idle} \cup Call \cup Found] /\ requests[q] # Idle
          /\ requests[q].step # "found"
    BY <1>1 DEF IInv, TypeOK, Idle, Call
  <2>2. \A p \in Request : \A y : Become(p, y) => p = q
    BY <1>1, <2>1 DEF Become
  <2>3. CASE sessions' = sessions
    BY <2>3
  <2>4. CASE Progressed(q) \/ Stopped(q)
    BY <1>1, <2>4, OthersKept DEF Progressed, Stopped
  <2>5. ASSUME NEW id \in PlayId, NEW item \in Item, Track(q, id, item),
               requests[q].step # "resolved"
        PROVE  Others(sessions', u) = Others(sessions, u)
    <3> DEFINE x == [requests[q] EXCEPT !.id = id, !.item = item]
    <3>1. x \in Call /\ x.user = u /\ x.server \in Server
      BY <1>1, <2>5 DEF Call
    <3>2. revision < MaxRevision /\ sessions' = Added(x, revision + 1)
      BY <2>5 DEF Track
    <3> HIDE DEF x
    <3>3. QED
      BY <1>1, <3>1, <3>2, OthersKept
  <2>6. CASE Started(q) \/ Streamed(q) \/ TrackAlias(q)
    <3>1. /\ requests[q].id \in PlayId /\ requests[q].item \in Item
          /\ requests[q].step # "resolved" /\ Track(q, requests[q].id, requests[q].item)
      BY <1>1, <2>6 DEF Started, Streamed, TrackAlias, Calling, Call
    <3>2. QED
      BY <2>5, <3>1
  <2>7. CASE \E id \in PlayId, item \in Item : TrackSource(q, id, item)
    BY <2>5, <2>7 DEF TrackSource
  <2>8. CASE UNCHANGED vars \/ Tick
    BY <1>1, <2>8 DEF vars, Tick
  <2>9. CASE \E v \in Server : DeleteServer(v) \/ EndDelete(v) \/ AbandonDelete(v)
    BY <1>1, <2>9 DEF DeleteServer, EndDelete, AbandonDelete
  <2>10. ASSUME NEW p \in Request,
                \/ SendReport(p) \/ LookupStream(p) \/ Lookup(p) \/ Drop(p)
                \/ \E id \in PlayId, item \in Item, user \in User :
                     \/ \E kind \in Report : ResolveReport(p, kind, id, item, user)
                     \/ \E kind \in {"stream", "negotiate"} : Choose(p, kind, id, item, user)
         PROVE  sessions' = sessions
    BY <2>10 DEF SendReport, LookupStream, Lookup, Drop, ResolveReport, Choose
  <2>11. ASSUME NEW p \in Request, ResolveServer(p) PROVE FALSE
    BY <2>1, <2>2, <2>11 DEF ResolveServer
  <2>12. ASSUME NEW p \in Request,
                \/ Started(p) \/ Progressed(p) \/ Stopped(p) \/ Streamed(p) \/ TrackAlias(p)
                \/ \E id \in PlayId, item \in Item : TrackSource(p, id, item)
         PROVE  p = q
    BY <2>2, <2>12 DEF Started, Progressed, Stopped, Streamed, TrackAlias, TrackSource
  <2>13. QED
    BY <1>1, <2>3, <2>4, <2>6, <2>7, <2>8, <2>9, <2>10, <2>11, <2>12 DEF Next
<1>2. IInv /\ [Next]_vars =>
        \A q \in Request :
          requests[q] \in Call /\ requests'[q] # requests[q] =>
            {e \in sessions' : e.user # requests[q].user}
              = {e \in sessions : e.user # requests[q].user}
  BY <1>1 DEF Others
<1>3. QED
  BY <1>2, Invariance, PTL DEF OthersUntouched, Spec

---------------------------------------------------------------------------
(* Deleted servers *)

\* A step of request q brings in no server but one of the database, or the one that q
\* or an entry already leads to.
LEMMA ServersOfRequest ==
  ASSUME IInv, NEW q \in Request, NEW v \in Server, Forgotten(v),
         \/ SendReport(q) \/ Started(q) \/ Progressed(q) \/ Stopped(q)
         \/ LookupStream(q) \/ Streamed(q) \/ TrackAlias(q)
         \/ Lookup(q) \/ ResolveServer(q) \/ Drop(q)
         \/ \E id \in PlayId, item \in Item : TrackSource(q, id, item)
         \/ \E id \in PlayId, item \in Item, user \in User :
              \/ \E kind \in Report : ResolveReport(q, kind, id, item, user)
              \/ \E kind \in {"stream", "negotiate"} : Choose(q, kind, id, item, user)
  PROVE  Forgotten(v)'
<1> DEFINE x == requests[q]
<1>1. /\ requests \in [Request -> {Idle} \cup Call \cup Found] /\ sessions \subseteq Tracked
      /\ revision \in 0..MaxRevision
  BY DEF IInv, TypeOK
<1>2. /\ v \notin servers /\ (\A e \in sessions : e.server # v)
      /\ \A p \in Request : requests[p] # Idle => requests[p].server # v
  BY DEF Forgotten
<1>3. servers' = servers
  BY DEF SendReport, Started, Progressed, Stopped, LookupStream, Streamed, TrackAlias, Lookup,
         ResolveServer, Drop, TrackSource, ResolveReport, Choose
<1>4. ASSUME NEW y, Become(q, y), y # Idle => y.server # v
      PROVE  \A p \in Request : requests'[p] # Idle => requests'[p].server # v
  BY <1>1, <1>2, <1>4 DEF Become
<1>5. ASSUME NEW id \in PlayId, NEW item \in Item, Track(q, id, item),
             x # Idle, x.step \in {"sent", "tracking"}
      PROVE  \A e \in sessions' : e.server # v
  <2> DEFINE y == [x EXCEPT !.id = id, !.item = item]
  <2>1. x \in Call /\ x.server # v
    BY <1>2, <1>5, Calls
  <2>2. y \in Call /\ y.server \in Server /\ y.server # v
    BY <1>5, <2>1 DEF Call
  <2>3. sessions' = Added(y, revision + 1) /\ revision + 1 \in 1..MaxRevision
    BY <1>1, <1>5, BoundAssumption DEF Track
  <2> HIDE DEF y
  <2>4. QED
    BY <1>1, <1>2, <2>2, <2>3, AddedEntries
<1>6. CASE SendReport(q)
  <2>1. PICK w \in servers : Become(q, [x EXCEPT !.step = "sent", !.server = w])
    BY <1>6 DEF SendReport, Candidates
  <2>2. x \in Call
    BY <1>6, Calls DEF SendReport
  <2>3. [x EXCEPT !.step = "sent", !.server = w].server = w
    BY <2>2 DEF Call
  <2>4. sessions' = sessions /\ w # v
    BY <1>2, <1>6 DEF SendReport
  <2>5. QED
    BY <1>2, <1>3, <1>4, <2>1, <2>3, <2>4 DEF Forgotten
<1>7. CASE Started(q) \/ Streamed(q) \/ TrackAlias(q)
  <2>1. /\ x # Idle /\ x.step \in {"sent", "tracking"} /\ Track(q, x.id, x.item)
        /\ Become(q, Idle)
    BY <1>7 DEF Started, Streamed, TrackAlias, Calling
  <2>2. x.id \in PlayId /\ x.item \in Item
    BY <2>1, Calls DEF Call
  <2>3. QED
    BY <1>2, <1>3, <1>4, <1>5, <2>1, <2>2 DEF Forgotten
<1>8. CASE \E id \in PlayId, item \in Item : TrackSource(q, id, item)
  <2>1. PICK id \in PlayId, item \in Item : TrackSource(q, id, item)
    BY <1>8
  <2>2. /\ x # Idle /\ x.step \in {"sent", "tracking"} /\ Track(q, id, item)
        /\ Become(q, [x EXCEPT !.step = "tracking"])
    BY <2>1 DEF TrackSource
  <2>3. [x EXCEPT !.step = "tracking"].server = x.server
    BY <2>2, Calls DEF Call
  <2>4. QED
    BY <1>2, <1>3, <1>4, <1>5, <2>2, <2>3 DEF Forgotten
<1>9. CASE Progressed(q) \/ Stopped(q) \/ ResolveServer(q) \/ Drop(q)
  <2>1. /\ sessions' \in {sessions, Refreshed(x), Removed(x), WithoutServer(x.server)}
        /\ Become(q, Idle)
    BY <1>9 DEF Progressed, Stopped, ResolveServer, Drop
  <2>2. \A e \in sessions' : \E f \in sessions : e.server = f.server
    BY <1>1, <2>1, Shrinks
  <2>3. QED
    BY <1>2, <1>3, <1>4, <2>1, <2>2 DEF Forgotten
<1>10. CASE LookupStream(q)
  <2>1. /\ sessions' = sessions /\ x # Idle /\ x.step = "routed"
    BY <1>10 DEF LookupStream
  <2>2. [x EXCEPT !.step = "sent"].server = x.server
    BY <2>1, Calls DEF Call
  <2>3. \/ Become(q, [x EXCEPT !.step = "sent"]) \/ Become(q, Idle)
        \/ \E e \in sessions : Become(q, [step |-> "found", server |-> e.server])
    BY <1>10 DEF LookupStream, Binding
  <2>4. \E y : Become(q, y) /\ (y # Idle => y.server # v)
    <3>1. \A e \in sessions : [step |-> "found", server |-> e.server].server # v
      BY <1>2
    <3>2. [x EXCEPT !.step = "sent"].server # v
      BY <1>2, <2>1, <2>2
    <3>3. QED
      BY <2>3, <3>1, <3>2
  <2>5. QED
    BY <1>2, <1>3, <1>4, <2>1, <2>4 DEF Forgotten
<1>11. CASE Lookup(q)
  <2>1. PICK e \in sessions : Become(q, [step |-> "found", server |-> e.server])
    BY <1>11 DEF Lookup
  <2>2. sessions' = sessions
    BY <1>11 DEF Lookup
  <2>3. QED
    BY <1>2, <1>3, <1>4, <2>1, <2>2 DEF Forgotten
<1>12. CASE \E id \in PlayId, item \in Item, user \in User :
              \/ \E kind \in Report : ResolveReport(q, kind, id, item, user)
              \/ \E kind \in {"stream", "negotiate"} : Choose(q, kind, id, item, user)
  <2>1. PICK id \in PlayId, item \in Item, user \in User :
          \/ \E kind \in Report : ResolveReport(q, kind, id, item, user)
          \/ \E kind \in {"stream", "negotiate"} : Choose(q, kind, id, item, user)
    BY <1>12
  <2>2. ASSUME NEW kind \in Report, ResolveReport(q, kind, id, item, user)
        PROVE  \E y : Become(q, y) /\ y.server # v
    <3> DEFINE Resolved(w, r) == [step |-> "resolved", kind |-> kind, id |-> id, item |-> item,
                                  user |-> user, server |-> w, revision |-> r]
    <3>1. \/ Become(q, Resolved(NoServer, 0))
          \/ \E e \in sessions : Become(q, Resolved(e.server, e.revision))
      BY <2>2 DEF ResolveReport
    <3>2. Resolved(NoServer, 0).server # v
      BY NoServerAssumption
    <3>3. \A e \in sessions : Resolved(e.server, e.revision).server # v
      BY <1>2
    <3> HIDE DEF Resolved
    <3>4. QED
      BY <3>1, <3>2, <3>3
  <2>3. ASSUME NEW kind \in {"stream", "negotiate"}, Choose(q, kind, id, item, user)
        PROVE  \E y : Become(q, y) /\ y.server # v
    <3> DEFINE Chosen(w) == [step |-> IF kind = "stream" THEN "routed" ELSE "sent", kind |-> kind,
                             id |-> id, item |-> item, user |-> user, server |-> w,
                             revision |-> 0]
    <3>1. \E w \in servers : Become(q, Chosen(w))
      BY <2>3 DEF Choose
    <3>2. \A w \in servers : Chosen(w).server # v
      BY <1>2
    <3> HIDE DEF Chosen
    <3>3. QED
      BY <3>1, <3>2
  <2>4. sessions' = sessions
    BY <1>12 DEF ResolveReport, Choose
  <2>5. QED
    BY <1>2, <1>3, <1>4, <2>1, <2>2, <2>3, <2>4 DEF Forgotten
<1>13. QED
  BY <1>6, <1>7, <1>8, <1>9, <1>10, <1>11, <1>12

\* (resolve_playback_report_server, get_server_by_id) Once nothing leads to a deleted
\* server any more, nothing will.
THEOREM ForgottenHolds == Spec => ForgottenStaysForgotten
<1>1. ASSUME IInv, [Next]_vars, NEW v \in Server, Forgotten(v) PROVE Forgotten(v)'
  <2>1. CASE \E q \in Request :
             \/ SendReport(q) \/ Started(q) \/ Progressed(q) \/ Stopped(q)
             \/ LookupStream(q) \/ Streamed(q) \/ TrackAlias(q)
             \/ Lookup(q) \/ ResolveServer(q) \/ Drop(q)
             \/ \E id \in PlayId, item \in Item : TrackSource(q, id, item)
             \/ \E id \in PlayId, item \in Item, user \in User :
                  \/ \E kind \in Report : ResolveReport(q, kind, id, item, user)
                  \/ \E kind \in {"stream", "negotiate"} : Choose(q, kind, id, item, user)
    BY <1>1, <2>1, ServersOfRequest
  <2>2. CASE Tick \/ \E w \in Server : DeleteServer(w) \/ EndDelete(w) \/ AbandonDelete(w)
    <3>1. PICK w : sessions' \in {sessions, WithoutServer(w), Aged}
      BY <2>2 DEF Tick, DeleteServer, EndDelete, AbandonDelete
    <3>2. \A e \in sessions' : \E f \in sessions : e.server = f.server
      BY <1>1, <3>1, Shrinks DEF IInv, TypeOK
    <3>3. servers' \subseteq servers /\ requests' = requests
      BY <2>2 DEF Tick, DeleteServer, EndDelete, AbandonDelete
    <3>4. QED
      BY <1>1, <3>2, <3>3 DEF Forgotten
  <2>3. CASE UNCHANGED vars
    BY <1>1, <2>3 DEF vars, Forgotten
  <2>4. QED
    BY <1>1, <2>1, <2>2, <2>3 DEF Next
<1>2. IInv /\ [Next]_vars => \A v \in Server : Forgotten(v) => Forgotten(v)'
  BY <1>1
<1>3. QED
  BY <1>2, Invariance, PTL DEF ForgottenStaysForgotten, Spec
=============================================================================
