------------------------- MODULE QuickConnectProofs -------------------------
(***************************************************************************)
(* The safety properties of QuickConnect for every set of codes and users, *)
(* every number of sessions and of redemptions in progress.                *)
(***************************************************************************)
EXTENDS QuickConnect, TLAPS

\* A session is stored under its own secret and its own code.
KeysMatch ==
  \A k \in Keys : /\ k \in Secret => sessions[k].secret = k
                  /\ k \in Code => sessions[k].code = k

\* Nothing is stored for a session that was not initiated.
OnlyDrawn == \A k \in Keys : sessions[k].secret <= drawn

\* What the handlers keep of the store.
StoreInv ==
  /\ Keys \subseteq Secret \cup Code
  /\ sessions \in [Keys -> Session]
  /\ KeysMatch
  /\ OnlyDrawn
  /\ ApprovalReachesDevice

IInv == TypeOK /\ StoreInv

USE MaxSessionsAssumption, CodeAssumption

\* Removing keys from the store is safe when no session that is not expired loses
\* the copy under its secret without the one under its code.
LEMMA WithoutStep ==
  ASSUME StoreInv, NEW keys, sessions' = Without(keys), UNCHANGED <<drawn, expired>>,
         \A c \in Code \cap Keys :
           ~Expired(sessions[c]) /\ sessions[c].secret \in keys => c \in keys
  PROVE  StoreInv'
<1>1. Keys' = Keys \ keys /\ \A k \in Keys' : sessions'[k] = sessions[k]
  BY DEF Without, Keys
<1>2. (Keys \subseteq Secret \cup Code)' /\ (sessions \in [Keys -> Session])'
  BY <1>1 DEF StoreInv, Without, Keys
<1>3. KeysMatch' /\ OnlyDrawn'
  BY <1>1 DEF StoreInv, KeysMatch, OnlyDrawn, Secret
<1>4. ApprovalReachesDevice'
  <2> SUFFICES ASSUME NEW c \in Code \cap Keys', (~Expired(sessions[c]))'
               PROVE  /\ sessions'[c].secret \in Keys'
                      /\ sessions'[sessions'[c].secret] = sessions'[c]
    BY DEF ApprovalReachesDevice
  <2>1. c \in Keys /\ c \notin keys /\ sessions'[c] = sessions[c] /\ ~Expired(sessions[c])
    BY <1>1 DEF Expired
  <2>2. sessions[c].secret \in Keys \ keys /\ sessions[sessions[c].secret] = sessions[c]
    BY <2>1 DEF StoreInv, ApprovalReachesDevice
  <2> QED BY <1>1, <2>1, <2>2
<1> QED BY <1>2, <1>3, <1>4 DEF StoreInv

\* Storing both copies of a session is safe when no other code leads to its secret.
LEMMA StoredStep ==
  ASSUME StoreInv, NEW x \in Session, sessions' = Stored(x), expired' = expired,
         drawn \in Nat, drawn' \in Nat, drawn <= drawn', x.secret <= drawn',
         \A c \in Code \cap Keys :
           ~Expired(sessions[c]) /\ sessions[c].secret = x.secret => c = x.code
  PROVE  StoreInv'
<1>1. x.secret \in Secret /\ x.code \in Code
  BY DEF Session
<1>2. /\ Keys' = Keys \cup {x.secret, x.code}
      /\ sessions'[x.secret] = x /\ sessions'[x.code] = x
      /\ \A k \in Keys \ {x.secret, x.code} : sessions'[k] = sessions[k]
  BY DEF Stored, Keys
<1>3. (Keys \subseteq Secret \cup Code)'
  BY <1>1, <1>2 DEF StoreInv
<1>4. (sessions \in [Keys -> Session])'
  BY <1>2 DEF StoreInv, Stored, Keys
<1>5. x.secret \notin Code /\ x.code \notin Secret
  BY <1>1 DEF Secret
<1>6. KeysMatch'
  BY <1>1, <1>2, <1>5 DEF StoreInv, KeysMatch, Secret
<1>7. OnlyDrawn'
  <2> SUFFICES ASSUME NEW k \in Keys' PROVE sessions'[k].secret <= drawn'
    BY DEF OnlyDrawn
  <2>1. CASE k \in {x.secret, x.code}
    BY <1>2, <2>1
  <2>2. CASE k \in Keys \ {x.secret, x.code}
    <3>1. sessions'[k] = sessions[k] /\ sessions[k] \in Session /\ sessions[k].secret <= drawn
      BY <1>2, <2>2 DEF StoreInv, OnlyDrawn
    <3> QED BY <3>1 DEF Session, Secret
  <2> QED BY <1>2, <2>1, <2>2
<1>8. ApprovalReachesDevice'
  <2> SUFFICES ASSUME NEW c \in Code \cap Keys', (~Expired(sessions[c]))'
               PROVE  /\ sessions'[c].secret \in Keys'
                      /\ sessions'[sessions'[c].secret] = sessions'[c]
    BY DEF ApprovalReachesDevice
  <2>1. CASE c = x.code
    BY <1>2, <2>1
  <2>2. CASE c # x.code
    <3>1. c \in Keys /\ sessions'[c] = sessions[c] /\ ~Expired(sessions[c])
      BY <1>1, <1>2, <1>5, <2>2 DEF Expired
    <3>2. sessions[c].secret \in Keys /\ sessions[sessions[c].secret] = sessions[c]
      BY <3>1 DEF StoreInv, ApprovalReachesDevice
    <3>3. sessions[c].secret # x.secret
      BY <2>2, <3>1
    <3>4. sessions[c].secret \in Secret
      BY <3>1 DEF StoreInv, Session
    <3> QED BY <1>1, <1>2, <1>5, <3>1, <3>2, <3>3, <3>4
  <2> QED BY <2>1, <2>2
<1> QED BY <1>3, <1>4, <1>6, <1>7, <1>8 DEF StoreInv

\* Only codes that are not expired count, and a code that leads to the secret of
\* an expired entry is expired as well.
LEMMA ExpiredTogether ==
  ASSUME StoreInv, NEW k \in Keys, Expired(sessions[k]), NEW c \in Code \cap Keys,
         ~Expired(sessions[c])
  PROVE  sessions[c].secret # sessions[k].secret
BY DEF Expired

\* The expired entries' keys: no secret among them is one of a session that is
\* not expired.
LEMMA CleanedStep ==
  ASSUME StoreInv, sessions' = Cleaned, UNCHANGED <<drawn, expired>>
  PROVE  StoreInv'
<1> DEFINE keys == {sessions[k].secret : k \in ExpiredKeys}
                     \cup {sessions[k].code : k \in ExpiredKeys}
<1>1. ASSUME NEW c \in Code \cap Keys, ~Expired(sessions[c])
      PROVE  sessions[c].secret \notin keys
  <2>1. sessions[c].secret \in Secret
    BY DEF StoreInv, Session
  <2>2. \A k \in ExpiredKeys : sessions[k].code \in Code
    BY DEF ExpiredKeys, StoreInv, Session
  <2>3. \A k \in ExpiredKeys : sessions[k].secret # sessions[c].secret
    BY <1>1, ExpiredTogether DEF ExpiredKeys
  <2> QED BY <2>1, <2>2, <2>3 DEF Secret
<1> QED BY <1>1, WithoutStep DEF Cleaned

\* The state the proxy starts in.
LEMMA InitInv == Init => IInv
<1> SUFFICES ASSUME Init PROVE IInv
  OBVIOUS
<1>1. Keys = {}
  BY DEF Init, Keys
<1>2. TypeOK
  BY <1>1 DEF Init, TypeOK, Keys
<1> QED
  BY <1>1, <1>2 DEF IInv, StoreInv, TypeOK, KeysMatch, OnlyDrawn, ApprovalReachesDevice

\* Every handler keeps the store's invariant.
LEMMA StoreStep == IInv /\ [Next]_vars => StoreInv'
<1> SUFFICES ASSUME IInv, [Next]_vars PROVE StoreInv'
  OBVIOUS
<1> USE DEF IInv
<1>0. drawn \in Nat /\ expired \in Nat /\ drawn <= MaxSessions
  BY DEF TypeOK
<1>1. ASSUME NEW c \in Code, Initiate(c) PROVE StoreInv'
  <2> DEFINE x == [secret |-> drawn + 1, code |-> c, user |-> NoUser]
  <2>1. x \in Session /\ drawn' \in Nat /\ drawn <= drawn' /\ x.secret <= drawn'
    BY <1>0, <1>1 DEF Initiate, Session, Secret
  <2>2. ASSUME NEW d \in Code \cap Keys PROVE sessions[d].secret # x.secret
    <3>1. d \in Keys /\ sessions[d] \in Session
      BY DEF StoreInv
    <3>2. sessions[d].secret \in Nat
      BY <3>1 DEF Session, Secret
    <3>3. sessions[d].secret <= drawn
      BY <3>1 DEF StoreInv, OnlyDrawn
    <3> QED BY <1>0, <3>2, <3>3
  <2>3. sessions' = Stored(x) /\ expired' = expired
    BY <1>1 DEF Initiate
  <2> HIDE DEF x
  <2> QED BY <1>0, <2>1, <2>2, <2>3, StoredStep
<1>2. CASE FinishInitiate
  BY <1>2, CleanedStep DEF FinishInitiate
<1>3. CASE Tick
  <2>1. sessions' = sessions /\ drawn' = drawn /\ expired' = expired + 1 /\ Keys' = Keys
    BY <1>3 DEF Tick, Keys
  <2>2. \A k \in Keys : ~Expired(sessions[k])' => ~Expired(sessions[k])
    BY <1>0, <2>1 DEF StoreInv, Session, Secret, Expired
  <2>3. ApprovalReachesDevice'
    BY <2>1, <2>2 DEF StoreInv, ApprovalReachesDevice, Expired
  <2> QED BY <2>1, <2>3 DEF StoreInv, KeysMatch, OnlyDrawn
<1>4. CASE Cleanup
  BY <1>4, CleanedStep DEF Cleanup
<1>5. ASSUME NEW k \in Secret \cup Code, Poll(k) PROVE StoreInv'
  <2>1. CASE k \in Keys /\ Expired(sessions[k])
    <3> DEFINE keys == {sessions[k].secret, sessions[k].code}
    <3>1. ASSUME NEW c \in Code \cap Keys, ~Expired(sessions[c])
          PROVE  sessions[c].secret \notin keys
      <4>1. sessions[c].secret \in Secret /\ sessions[k].code \in Code
        BY <2>1 DEF StoreInv, Session
      <4>2. sessions[c].secret # sessions[k].secret
        BY <2>1, <3>1, ExpiredTogether
      <4> QED BY <4>1, <4>2 DEF Secret
    <3> QED BY <1>5, <2>1, <3>1, WithoutStep DEF Poll, Dropping
  <2>2. CASE ~(k \in Keys /\ Expired(sessions[k]))
    BY <1>5, <2>2
       DEF Poll, Dropping, StoreInv, KeysMatch, OnlyDrawn, ApprovalReachesDevice, Keys, Expired
  <2> QED BY <2>1, <2>2
<1>6. ASSUME NEW k \in Secret \cup Code, NEW u \in User, Approve(u, k) PROVE StoreInv'
  <2>1. CASE Expired(sessions[k])
    <3> DEFINE keys == {sessions[k].secret, k}
    <3>1. ASSUME NEW c \in Code \cap Keys, ~Expired(sessions[c]), sessions[c].secret \in keys
          PROVE  FALSE
      <4>1. k \in Keys /\ sessions[c].secret # sessions[k].secret
        BY <1>6, <2>1, <3>1, ExpiredTogether DEF Approve
      <4>2. k \in Secret
        BY <3>1, <4>1 DEF StoreInv, Session, Secret
      <4>3. sessions[k].secret = k
        BY <4>1, <4>2 DEF StoreInv, KeysMatch
      <4> QED BY <3>1, <4>1, <4>3
    <3>2. sessions' = Without(keys) /\ UNCHANGED <<drawn, expired>>
      BY <1>6, <2>1 DEF Approve
    <3> QED BY <3>1, <3>2, WithoutStep
  <2>2. CASE ~Expired(sessions[k])
    <3> DEFINE x == [sessions[k] EXCEPT !.user = u]
    <3>1. k \in Keys /\ sessions[k].code = k /\ sessions[k] \in Session
      BY <1>6, <2>2 DEF Approve, StoreInv
    <3>2. x \in Session /\ x.secret = sessions[k].secret /\ x.code = k
      BY <3>1 DEF Session
    <3>3. sessions' = Stored(x) /\ UNCHANGED <<drawn, expired>>
      BY <1>6, <2>2 DEF Approve, Approved
    <3>4. x.secret <= drawn'
      BY <3>1, <3>2, <3>3 DEF StoreInv, OnlyDrawn
    <3>5. ASSUME NEW c \in Code \cap Keys, ~Expired(sessions[c]), sessions[c].secret = x.secret
          PROVE  c = x.code
      <4>1. k \in Code
        BY <3>1 DEF Session
      <4>2. sessions[x.secret] = sessions[k] /\ sessions[x.secret] = sessions[c]
        BY <2>2, <3>1, <3>2, <3>5, <4>1 DEF StoreInv, ApprovalReachesDevice
      <4>3. sessions[c].code = c
        BY DEF StoreInv, KeysMatch
      <4> QED BY <3>1, <3>2, <4>2, <4>3
    <3> HIDE DEF x
    <3> QED BY <1>0, <3>2, <3>3, <3>4, <3>5, StoredStep
  <2> QED BY <2>1, <2>2
<1>7. ASSUME NEW r \in Redeemer, EndRedeem(r) PROVE StoreInv'
  <2> DEFINE s == signing[r].secret
  <2>1. s \in Secret
    BY <1>7 DEF EndRedeem, TypeOK
  <2>2. UNCHANGED <<drawn, expired>> /\ sessions' = Removed(s)
    BY <1>7 DEF EndRedeem
  <2>3. CASE s \in Keys /\ sessions[s].secret = s
    <3> DEFINE keys == {s, sessions[s].code}
    <3>1. ASSUME NEW c \in Code \cap Keys, ~Expired(sessions[c]), sessions[c].secret \in keys
          PROVE  c \in keys
      <4>1. sessions[c].secret = s
        <5>1. sessions[c].secret \in Secret /\ sessions[s].code \in Code
          BY <2>3 DEF StoreInv, Session
        <5> QED BY <3>1, <5>1 DEF Secret
      <4>2. sessions[s] = sessions[c] /\ sessions[c].code = c
        BY <3>1, <4>1 DEF StoreInv, ApprovalReachesDevice, KeysMatch
      <4> QED BY <4>2
    <3> QED BY <2>2, <2>3, <3>1, WithoutStep DEF Removed
  <2>4. CASE ~(s \in Keys /\ sessions[s].secret = s)
    BY <2>2, <2>4
       DEF Removed, StoreInv, KeysMatch, OnlyDrawn, ApprovalReachesDevice, Keys, Expired
  <2> QED BY <2>3, <2>4
<1>8. ASSUME UNCHANGED <<sessions, drawn, expired>> PROVE StoreInv'
  BY <1>8 DEF StoreInv, KeysMatch, OnlyDrawn, ApprovalReachesDevice, Keys, Expired
<1> QED
  BY <1>1, <1>2, <1>3, <1>4, <1>5, <1>6, <1>7, <1>8
     DEF Next, vars, AbandonRedeem, BeginRedeem

\* The store's part of the type invariant comes with StoreInv.
LEMMA TypeStep == IInv /\ [Next]_vars => TypeOK'
<1> SUFFICES ASSUME IInv, [Next]_vars PROVE TypeOK'
  OBVIOUS
<1>1. StoreInv'
  BY StoreStep
<1>2. drawn' \in 0..MaxSessions /\ expired' \in 0..drawn' /\ storing' \in 0..drawn'
  <2>1. /\ drawn \in Nat /\ expired \in Nat /\ storing \in Nat /\ MaxSessions \in Nat
        /\ drawn <= MaxSessions /\ expired <= drawn /\ storing <= drawn
    BY DEF IInv, TypeOK
  <2>2. \/ UNCHANGED <<drawn, expired, storing>>
        \/ /\ drawn < MaxSessions /\ drawn' = drawn + 1 /\ storing' = storing + 1
           /\ expired' = expired
        \/ storing > 0 /\ storing' = storing - 1 /\ UNCHANGED <<drawn, expired>>
        \/ expired < drawn /\ expired' = expired + 1 /\ UNCHANGED <<drawn, storing>>
    BY DEF Next, vars, Initiate, FinishInitiate, Tick, Cleanup, Poll, Approve, BeginRedeem,
           EndRedeem, AbandonRedeem
  <2> QED BY <2>1, <2>2
<1>3. signing' \in [Redeemer -> [secret : Secret, user : User] \cup {Idle}]
  <2>1. ASSUME NEW r \in Redeemer, NEW s \in Secret, BeginRedeem(r, s)
        PROVE  [secret |-> s, user |-> sessions[s].user] \in [secret : Secret, user : User]
    BY <2>1 DEF BeginRedeem, Found, IInv, StoreInv, Session
  <2> QED
    BY <2>1 DEF IInv, TypeOK, Next, vars, Initiate, FinishInitiate, Tick, Cleanup, Poll,
                Approve, BeginRedeem, EndRedeem, AbandonRedeem
<1> QED BY <1>1, <1>2, <1>3 DEF TypeOK, StoreInv

\* The inductive invariant holds throughout.
THEOREM Invariance == Spec => []IInv
<1>1. IInv /\ [Next]_vars => IInv'
  BY StoreStep, TypeStep DEF IInv
<1> QED BY InitInv, <1>1, PTL DEF Spec

\* What is approved by code is what the device finds by secret, in every state.
THEOREM ApprovalArrives == Spec => []ApprovalReachesDevice
<1>1. IInv => ApprovalReachesDevice
  BY DEF IInv, StoreInv
<1> QED BY Invariance, <1>1, PTL

\* A step that removes keys from the store is one that forgets devices, if the time of
\* those whose secrets it removes is up.
LEMMA RemovalForgets ==
  ASSUME IInv, NEW keys, sessions' = Without(keys), UNCHANGED <<drawn, expired, signing>>,
         \A s \in keys \cap Keys \cap Secret : s <= expired
  PROVE  Devices!Forget
<1> DEFINE late == keys \cap Keys \cap Secret
<1>1. Keys' = Keys \ keys /\ \A k \in Keys' : sessions'[k] = sessions[k]
  BY DEF Without, Keys
<1>2. Waiting' = [s \in DOMAIN Waiting \ late |-> Waiting[s]]
  BY <1>1 DEF Waiting
<1>3. late \in SUBSET (DOMAIN Waiting \cap 1..expired)
  <2> SUFFICES ASSUME NEW s \in late PROVE s \in DOMAIN Waiting /\ s \in 1..expired
    OBVIOUS
  <2> QED BY DEF Waiting, Secret, IInv, TypeOK
<1> QED BY <1>2, <1>3 DEF Devices!Forget

\* A step that leaves the store and the rest alone stutters.
LEMMA Stutters ==
  ASSUME UNCHANGED <<sessions, drawn, expired, signing>>
  PROVE  UNCHANGED <<Waiting, drawn, expired, signing>>
BY DEF Waiting, Keys

\* An expired entry is stored for a secret whose time is up; its code is no secret.
LEMMA ExpiredSecret ==
  ASSUME IInv, NEW k \in Keys, Expired(sessions[k])
  PROVE  sessions[k].secret <= expired /\ sessions[k].code \notin Secret
BY DEF IInv, StoreInv, Session, Expired, Secret

\* cleanup_expired forgets devices.
LEMMA CleaningForgets ==
  ASSUME IInv, sessions' = Cleaned, UNCHANGED <<drawn, expired, signing>>
  PROVE  Devices!Forget
<1> DEFINE keys == {sessions[k].secret : k \in ExpiredKeys}
                     \cup {sessions[k].code : k \in ExpiredKeys}
<1>1. \A s \in keys \cap Keys \cap Secret : s <= expired
  BY ExpiredSecret DEF ExpiredKeys
<1>2. sessions' = Without(keys)
  BY DEF Cleaned
<1> HIDE DEF keys
<1> QED BY <1>1, <1>2, RemovalForgets

\* get_session forgets at most the device it looked for.
LEMMA PollForgets ==
  ASSUME IInv, NEW k \in Secret \cup Code, Poll(k)
  PROVE  Devices!Forget \/ UNCHANGED <<Waiting, drawn, expired, signing>>
<1>1. CASE k \in Keys /\ Expired(sessions[k])
  <2> DEFINE keys == {sessions[k].secret, sessions[k].code}
  <2>1. \A s \in keys \cap Keys \cap Secret : s <= expired
    BY <1>1, ExpiredSecret
  <2>2. sessions' = Without(keys)
    BY <1>1 DEF Poll, Dropping
  <2> HIDE DEF keys
  <2> QED BY <2>1, <2>2, RemovalForgets DEF Poll
<1>2. CASE ~(k \in Keys /\ Expired(sessions[k]))
  BY <1>2, Stutters DEF Poll, Dropping
<1> QED BY <1>1, <1>2

\* Initiate: the new secret is none that waits, and storing the session under a code
\* that another session had does not touch the entry under that one's secret.
LEMMA InitiateAsks ==
  ASSUME IInv, NEW c \in Code, Initiate(c)
  PROVE  Devices!Ask(c)
<1> DEFINE x == [secret |-> drawn + 1, code |-> c, user |-> NoUser]
<1>1. drawn \in Nat /\ drawn + 1 \in Secret /\ c \notin Secret
  BY DEF IInv, TypeOK, Initiate, Secret
<1>2. /\ Keys' = Keys \cup {drawn + 1, c}
      /\ sessions'[drawn + 1] = x
      /\ \A k \in Keys \ {drawn + 1, c} : sessions'[k] = sessions[k]
  BY DEF Initiate, Stored, Keys
<1>3. Keys' \cap Secret = (Keys \cap Secret) \cup {drawn + 1}
  BY <1>1, <1>2
<1>4. \A s \in Keys' \cap Secret :
        sessions'[s] = IF s = drawn + 1 THEN x ELSE sessions[s]
  BY <1>1, <1>2
<1>5. \A s \in Keys' \cap Secret :
        Waiting'[s] = IF s = drawn + 1 THEN [code |-> c, user |-> NoUser] ELSE Waiting[s]
  BY <1>3, <1>4 DEF Waiting
<1>6. Waiting' = [s \in DOMAIN Waiting \cup {drawn + 1} |->
                    IF s = drawn + 1 THEN [code |-> c, user |-> NoUser] ELSE Waiting[s]]
  BY <1>3, <1>5 DEF Waiting
<1> QED BY <1>6 DEF Devices!Ask, Initiate

\* update_session_by_code: what is found under a code in time is the session of the
\* device that shows it, and only its entry changes.
LEMMA ApprovalApproves ==
  ASSUME IInv, NEW u \in User, NEW k \in Secret \cup Code, Approve(u, k)
  PROVE  Devices!Forget \/ (k \in Code /\ Devices!Approve(u, k))
<1>1. CASE Expired(sessions[k])
  <2> DEFINE keys == {sessions[k].secret, k}
  <2>1. \A s \in keys \cap Keys \cap Secret : s <= expired
    <3>1. k \in Keys /\ sessions[k].secret <= expired
      BY <1>1, ExpiredSecret DEF Approve
    <3>2. k \in Secret => sessions[k].secret = k
      BY <3>1 DEF IInv, StoreInv, KeysMatch
    <3> QED BY <3>1, <3>2
  <2>2. sessions' = Without(keys)
    BY <1>1 DEF Approve
  <2> HIDE DEF keys
  <2> QED BY <2>1, <2>2, RemovalForgets DEF Approve
<1>2. CASE ~Expired(sessions[k])
  <2> DEFINE s == sessions[k].secret
             x == [sessions[k] EXCEPT !.user = u]
  <2>1. k \in Keys /\ sessions[k].code = k /\ sessions' = Stored(x)
    BY <1>2 DEF Approve, Approved
  <2>2. /\ sessions[k] \in Session /\ s \in Secret /\ k \in Code /\ k \notin Secret
        /\ x.secret = s /\ x.code = k /\ x.user = u
    BY <2>1 DEF IInv, StoreInv, Session, Secret
  <2>3. s \in Keys /\ sessions[s] = sessions[k] /\ s > expired
    BY <1>2, <2>1, <2>2 DEF IInv, StoreInv, ApprovalReachesDevice, Expired, TypeOK, Secret
  <2>4. /\ Keys' = Keys
        /\ sessions'[s] = x
        /\ \A t \in (Keys \cap Secret) \ {s} : sessions'[t] = sessions[t]
    BY <2>1, <2>2, <2>3 DEF Stored, Keys
  <2>5. Waiting[s] = [code |-> k, user |-> sessions[k].user] /\ s \in DOMAIN Waiting
    BY <2>1, <2>2, <2>3 DEF Waiting
  <2>6. Waiting' = [Waiting EXCEPT ![s].user = u]
    <3> HIDE DEF s, x
    <3>1. DOMAIN Waiting = Keys \cap Secret /\ DOMAIN Waiting' = Keys \cap Secret
      BY <2>4 DEF Waiting
    <3>2. Waiting'[s] = [code |-> k, user |-> u]
      BY <2>2, <2>3, <2>4 DEF Waiting
    <3>3. \A t \in (Keys \cap Secret) \ {s} : Waiting'[t] = Waiting[t]
      BY <2>4 DEF Waiting
    <3>4. [Waiting[s] EXCEPT !.user = u] = [code |-> k, user |-> u]
      BY <2>5
    <3>5. Waiting' = [t \in Keys \cap Secret |-> Waiting'[t]]
      BY <2>4 DEF Waiting
    <3>6. Waiting = [t \in Keys \cap Secret |-> Waiting[t]]
      BY DEF Waiting
    <3> QED BY <3>1, <3>2, <3>3, <3>4, <3>5, <3>6
  <2>7. Waiting[s].code = k /\ UNCHANGED <<drawn, expired, signing>>
    BY <2>5 DEF Approve
  <2> HIDE DEF s, x
  <2>8. Devices!Approve(u, k)
    BY <2>3, <2>5, <2>6, <2>7 DEF Devices!Approve
  <2> QED BY <2>2, <2>8
<1> QED BY <1>1, <1>2

\* A redemption signs in the device that waits under its secret.
LEMMA RedemptionBegins ==
  ASSUME IInv, NEW r \in Redeemer, NEW s \in Secret, BeginRedeem(r, s)
  PROVE  s \in DOMAIN Waiting /\ Devices!Begin(r, s)
<1>1. s \in DOMAIN Waiting /\ Waiting[s].user = sessions[s].user
  BY DEF BeginRedeem, Found, Waiting
<1>2. s > expired
  BY DEF BeginRedeem, Found, Expired, Secret, IInv, TypeOK
<1>3. UNCHANGED <<Waiting, drawn, expired>>
  BY DEF BeginRedeem, Waiting, Keys
<1> QED BY <1>1, <1>2, <1>3 DEF BeginRedeem, Devices!Begin, Idle, Devices!Idle

\* remove_session takes away the device that was signed in, and no other: what it takes
\* away besides is stored under a code.
LEMMA RedemptionEnds ==
  ASSUME IInv, NEW r \in Redeemer, EndRedeem(r)
  PROVE  Devices!End(r)
<1> DEFINE s == signing[r].secret
<1>1. s \in Secret /\ sessions' = Removed(s)
  BY DEF EndRedeem, IInv, TypeOK
<1>2. Waiting' = [t \in DOMAIN Waiting \ {s} |-> Waiting[t]]
  <2>1. CASE s \in Keys
    <3>1. sessions[s].secret = s /\ sessions[s].code \notin Secret
      BY <1>1, <2>1 DEF IInv, StoreInv, KeysMatch, Session, Secret
    <3>2. sessions' = Without({s, sessions[s].code})
      BY <1>1, <2>1, <3>1 DEF Removed
    <3>3. Keys' \cap Secret = (Keys \cap Secret) \ {s}
      BY <3>1, <3>2 DEF Without, Keys
    <3>4. \A t \in Keys' \cap Secret : sessions'[t] = sessions[t]
      BY <3>2 DEF Without, Keys
    <3> QED BY <3>3, <3>4 DEF Waiting
  <2>2. CASE s \notin Keys
    <3>1. sessions' = sessions /\ s \notin DOMAIN Waiting
      BY <1>1, <2>2 DEF Removed, Waiting
    <3>2. Waiting' = Waiting
      BY <3>1 DEF Waiting, Keys
    <3> QED BY <3>1, <3>2 DEF Waiting
  <2> QED BY <2>1, <2>2
<1> QED BY <1>2 DEF EndRedeem, Devices!End, Idle, Devices!Idle

\* Every step of the storage and its handlers is a step of SignIns, or none.
LEMMA DevicesStep ==
  ASSUME IInv, [Next]_vars
  PROVE  [Devices!Next]_<<Waiting, drawn, expired, signing>>
<1> DEFINE Kept == [Devices!Next]_<<Waiting, drawn, expired, signing>>
<1>1. ASSUME NEW c \in Code, Initiate(c) PROVE Kept
  BY <1>1, InitiateAsks DEF Devices!Next
<1>2. CASE FinishInitiate
  BY <1>2, CleaningForgets DEF FinishInitiate, Devices!Next
<1>3. CASE Tick
  BY <1>3 DEF Tick, Waiting, Keys, Devices!Next, Devices!TimeUp
<1>4. CASE Cleanup
  BY <1>4, CleaningForgets DEF Cleanup, Devices!Next
<1>5. ASSUME NEW k \in Secret \cup Code, Poll(k) PROVE Kept
  BY <1>5, PollForgets DEF Devices!Next
<1>6. ASSUME NEW k \in Secret \cup Code, NEW u \in User, Approve(u, k) PROVE Kept
  BY <1>6, ApprovalApproves DEF Devices!Next
<1>7. ASSUME NEW r \in Redeemer, EndRedeem(r) PROVE Kept
  BY <1>7, RedemptionEnds DEF Devices!Next
<1>8. ASSUME NEW r \in Redeemer, AbandonRedeem(r) PROVE Kept
  BY <1>8 DEF AbandonRedeem, Waiting, Keys, Devices!Next, Devices!Abandon, Idle, Devices!Idle
<1>9. ASSUME NEW r \in Redeemer, NEW s \in Secret, BeginRedeem(r, s) PROVE Kept
  BY <1>9, RedemptionBegins DEF Devices!Next
<1>10. CASE UNCHANGED vars
  BY <1>10, Stutters DEF vars
<1> QED
  BY <1>1, <1>2, <1>3, <1>4, <1>5, <1>6, <1>7, <1>8, <1>9, <1>10 DEF Next

\* Quick Connect implements SignIns (handlers/quick_connect.rs): devices wait until they
\* are signed in as who approved them or until their time is up, and not again after that.
THEOREM SignInsImplemented == Spec => SignInsKept
<1>1. Init => Devices!Init
  BY DEF Init, Waiting, Keys, Idle, Devices!Init, Devices!Idle
<1>2. IInv /\ [Next]_vars => [Devices!Next]_<<Waiting, drawn, expired, signing>>
  BY DevicesStep
<1> QED BY Invariance, <1>1, <1>2, PTL DEF Spec, SignInsKept, Devices!Spec
=============================================================================
