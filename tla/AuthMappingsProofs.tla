-------------------------- MODULE AuthMappingsProofs --------------------------
(***************************************************************************)
(* The inductive invariant of AuthMappings, and the theorems that follow   *)
(* from it for any passwords, logins, tokens, servers and numbers of tasks *)
(* and users.                                                              *)
(***************************************************************************)
EXTENDS AuthMappings, TLAPS

\* The user has an id that was given out.  Mappings belong to the user, and have the
\* name of the account that they are for.
RowsOwned ==
  /\ account # None => account.id <= users
  /\ \A s \in Server : mappings[s] # None =>
       /\ account # None
       /\ mappings[s].token # None => mappings[s].name = NameOf[mappings[s].token]
       /\ mappings[s].sealed # None /\ mappings[s].sealed.text \in Login
            => mappings[s].name = NameOf[mappings[s].sealed.text]

\* The mapping is for what the login is for: writing the login changes nothing.
Unchanged(m, login) ==
  /\ m.name = NameOf[login]
  /\ IF m.sealed = None THEN login \in BlankLogin ELSE m.sealed.text = login

\* What a task carries at its step.
Carries(x) ==
  /\ x # Idle => x.user <= users
  /\ x \in SignIn /\ x.step = "asked" => x.text \in Login /\ x.key \in Password
  /\ x \in SignIn /\ x.step = "known"
       => x.device \in Device /\ (x.check => x.key \in Password)
  /\ x \in SignIn /\ x.step \in {"resolved", "compared"} => x.text \in Login
  /\ x \in SignIn /\ x.step = "mapped" => x.text \in Login \cup Token /\ x.device \in Device

\* What a task that was not overtaken knows of the user and the mapping.
Knows(x) ==
  LET m == mappings[x.server]
  IN  /\ x \in SignIn \cup Change /\ x.step \in {"known", "resolved", "compared", "verified"}
           => x.key \in {account.password, AdminKey}
      /\ x \in SignIn /\ x.step = "compared" /\ ~x.changed /\ m # None => Unchanged(m, x.text)
      /\ x \in SignIn /\ x.step = "mapped" /\ m # None /\ x.server \notin disturbed
           => Fits(x.text, m)

TaskInv(t) ==
  /\ Carries(tasks[t])
  /\ tasks[t] # Idle /\ Exists(tasks[t].user) /\ t \notin overtaken => Knows(tasks[t])

RowsInv == RowsOwned /\ ExactlyOneUsed /\ MappingsReadable /\ SessionsFit

IInv ==
  /\ TypeOK
  /\ RowsInv
  /\ \A t \in Task : TaskInv(t)

---------------------------------------------------------------------------
(* The kinds of steps *)

\* The initial state satisfies the invariant.
LEMMA InitIInv == Init => IInv
<1>1. SUFFICES ASSUME Init PROVE IInv
  OBVIOUS
<1>2. TypeOK
  BY <1>1, BoundAssumption DEF Init, TypeOK
<1>3. RowsInv
  BY <1>1 DEF Init, RowsInv, RowsOwned, ExactlyOneUsed, MappingsReadable, SessionsFit
<1>4. \A t \in Task : TaskInv(t)
  BY <1>1 DEF Init, TaskInv, Carries, Idle, SignIn
<1>5. QED
  BY <1>2, <1>3, <1>4 DEF IInv

\* The steps of a task tell which kind of task it is.
LEMMA KindOfTask ==
  ASSUME TypeOK, NEW t \in Task, tasks[t] # Idle
  PROVE  /\ tasks[t].step = "verified" => tasks[t] \in Change /\ tasks[t] \notin SignIn
         /\ tasks[t].step # "verified" => tasks[t] \in SignIn /\ tasks[t] \notin Change
BY DEF TypeOK, SignIn, Change

\* A task goes on knowing what it knew while the others leave the user and the
\* mapping alone or see to it that it counts as overtaken.
LEMMA OtherTask ==
  ASSUME TypeOK, NEW u \in Task, TaskInv(u), tasks'[u] = tasks[u], users <= users',
         users' \in Nat,
         tasks[u] # Idle /\ Exists(tasks[u].user)' /\ u \notin overtaken' =>
           /\ Exists(tasks[u].user)
           /\ u \notin overtaken
           /\ tasks[u].step # "mapped" => account' = account
           /\ tasks[u] \in SignIn /\ tasks[u].step = "compared"
                => mappings'[tasks[u].server] \in {mappings[tasks[u].server], None}
           /\ tasks[u] \in SignIn /\ tasks[u].step = "mapped"
                /\ mappings'[tasks[u].server] # None /\ tasks[u].server \notin disturbed'
                => /\ mappings[tasks[u].server] # None
                   /\ tasks[u].server \notin disturbed
                   /\ Fits(tasks[u].text, mappings[tasks[u].server])
                        => Fits(tasks[u].text, mappings'[tasks[u].server])
  PROVE  TaskInv(u)'
<1> DEFINE x == tasks[u]
<1>1. Carries(x)'
  <2>1. x # Idle => x.user \in Nat
    BY BoundAssumption DEF TypeOK, SignIn, Change
  <2>2. users \in Nat
    BY BoundAssumption DEF TypeOK
  <2>3. QED
    BY <2>1, <2>2 DEF TaskInv, Carries
<1>2. ASSUME x # Idle, Exists(x.user)', u \notin overtaken' PROVE Knows(x)'
  <2>1. Knows(x)
    BY <1>2 DEF TaskInv
  <2>2. x \in SignIn \cup Change /\ x.step \in {"known", "resolved", "compared", "verified"}
          => x.key \in {account'.password, AdminKey}
    BY <1>2, <2>1 DEF Knows
  <2>3. x \in SignIn /\ x.step = "compared" /\ ~x.changed /\ mappings'[x.server] # None
          => Unchanged(mappings'[x.server], x.text)
    BY <1>2, <2>1 DEF Knows
  <2>4. x \in SignIn /\ x.step = "mapped" /\ mappings'[x.server] # None /\ x.server \notin disturbed'
          => Fits(x.text, mappings'[x.server])
    BY <1>2, <2>1 DEF Knows
  <2>5. QED
    BY <2>2, <2>3, <2>4 DEF Knows, Unchanged, Fits
<1>3. QED
  BY <1>1, <1>2 DEF TaskInv

\* A step of one task that changes no row.
LEMMA TaskStep ==
  ASSUME IInv, NEW t \in Task, NEW r \in {Idle} \cup SignIn \cup Change,
         tasks' = [tasks EXCEPT ![t] = r], overtaken' \in {overtaken, overtaken \ {t}},
         r = Idle \/ overtaken' = overtaken,
         UNCHANGED <<account, users, mappings, sessions, disturbed>>,
         Carries(r), r # Idle /\ Exists(r.user) /\ t \notin overtaken => Knows(r)
  PROVE  IInv'
<1>1. TypeOK'
  BY DEF IInv, TypeOK
<1>2. RowsInv'
  BY DEF IInv, RowsInv, RowsOwned, ExactlyOneUsed, MappingsReadable, SessionsFit, Fits
<1>3. ASSUME NEW u \in Task, u # t PROVE TaskInv(u)'
  BY <1>3, BoundAssumption, OtherTask DEF IInv, TypeOK, Exists
<1>4. TaskInv(t)'
  BY DEF IInv, TypeOK, TaskInv, Carries, Knows, Exists, Unchanged, Fits
<1>5. QED
  BY <1>1, <1>2, <1>3, <1>4 DEF IInv

\* A task begins.
LEMMA Starts ==
  ASSUME IInv, NEW t \in Task, NEW r \in SignIn \cup Change, Start(t, r), Carries(r),
         Exists(r.user) /\ t \notin overtaken => Knows(r)
  PROVE  IInv'
BY TaskStep DEF Start

---------------------------------------------------------------------------
(* Requests begin *)

LEMMA CreateUserIInv ==
  ASSUME IInv, NEW p \in Password, CreateUser(p)
  PROVE  IInv'
<1>1. TypeOK'
  BY BoundAssumption DEF IInv, TypeOK, CreateUser, User
<1>2. RowsInv'
  BY BoundAssumption DEF IInv, TypeOK, CreateUser, RowsInv, RowsOwned, ExactlyOneUsed,
     MappingsReadable, SessionsFit, Fits
<1>3. ASSUME NEW u \in Task PROVE TaskInv(u)'
  <2>1. tasks[u] # Idle => tasks[u].user \in Nat /\ tasks[u].user <= users
    BY BoundAssumption DEF IInv, TypeOK, TaskInv, Carries, SignIn, Change
  <2>2. users \in Nat
    BY BoundAssumption DEF IInv, TypeOK
  <2>3. tasks[u] # Idle => ~Exists(tasks[u].user)'
    BY <2>1, <2>2 DEF CreateUser, Exists
  <2>4. QED
    BY <2>2, <2>3, OtherTask DEF IInv, CreateUser
<1>4. QED
  BY <1>1, <1>2, <1>3 DEF IInv

\* The user there is has an id that was given out.
LEMMA AccountKnown ==
  ASSUME IInv, account # None
  PROVE  /\ account \in User /\ account.id \in 1..MaxUsers /\ account.password \in Password
         /\ account.id <= users
BY DEF IInv, TypeOK, User, RowsInv, RowsOwned

LEMMA BeginLoginIInv ==
  ASSUME IInv, NEW t \in Task, NEW s \in Server, NEW d \in Device, NEW p \in Password,
         BeginLogin(t, s, d, p)
  PROVE  IInv'
<1>1. ASSUME account # None, account.password = p,
             Start(t, NewTask("known", account.id, p, s, d, None, TRUE))
      PROVE  IInv'
  <2> DEFINE r == NewTask("known", account.id, p, s, d, None, TRUE)
  <2>1. r \in SignIn /\ r.step = "known" /\ r.user = account.id /\ r.key = p /\ r \notin Change
        /\ r.device = d
    BY <1>1, AccountKnown, BoundAssumption DEF NewTask, SignIn, Change, Key
  <2>2. Carries(r) /\ Knows(r)
    BY <1>1, <2>1, AccountKnown DEF Carries, Knows
  <2>3. QED
    BY <1>1, <2>1, <2>2, Starts
<1>2. ASSUME NEW login \in Login, Start(t, NewTask("asked", 0, p, s, d, login, TRUE))
      PROVE  IInv'
  <2> DEFINE r == NewTask("asked", 0, p, s, d, login, TRUE)
  <2>1. r \in SignIn /\ r.step = "asked" /\ r.user = 0 /\ r.key = p /\ r.text = login /\ r \notin Change
    BY BoundAssumption DEF NewTask, SignIn, Change, Key
  <2>2. users \in Nat /\ 0 <= users
    BY BoundAssumption DEF IInv, TypeOK
  <2> HIDE DEF r
  <2>3. Carries(r) /\ ~Exists(0)
    BY <2>1, <2>2, AccountKnown DEF Carries, Exists
  <2>4. QED
    BY <1>2, <2>1, <2>3, Starts DEF r
<1>3. QED
  BY <1>1, <1>2 DEF BeginLogin

LEMMA BeginSignInIInv ==
  ASSUME IInv, NEW t \in Task, NEW s \in Server, NEW d \in Device, BeginSignIn(t, s, d)
  PROVE  IInv'
<1> DEFINE r == NewTask("known", account.id, account.password, s, d, None, FALSE)
<1>1. account # None /\ Start(t, r)
  BY DEF BeginSignIn
<1>2. r \in SignIn /\ r.step = "known" /\ r.user = account.id /\ r.key = account.password
      /\ r.check = FALSE /\ r.device = d /\ r \notin Change
  BY <1>1, AccountKnown, BoundAssumption DEF NewTask, SignIn, Change, Key
<1>3. Carries(r) /\ Knows(r)
  BY <1>1, <1>2, AccountKnown DEF Carries, Knows
<1>4. QED
  BY <1>1, <1>2, <1>3, Starts

LEMMA BeginMappingIInv ==
  ASSUME IInv, NEW t \in Task, NEW s \in Server, NEW login \in Login,
         BeginConnect(t, s, login) \/ BeginAdd(t, s, login)
  PROVE  IInv'
<1>1. PICK key \in {account.password, AdminKey} :
        account # None /\ Start(t, NewTask("resolved", account.id, key, s, None, login, FALSE))
  BY DEF BeginConnect, BeginAdd
<1> DEFINE r == NewTask("resolved", account.id, key, s, None, login, FALSE)
<1>2. r \in SignIn /\ r.step = "resolved" /\ r.user = account.id /\ r.key = key /\ r.text = login
      /\ r \notin Change
  BY <1>1, AccountKnown, BoundAssumption DEF NewTask, SignIn, Change, Key
<1>3. Carries(r) /\ Knows(r)
  BY <1>1, <1>2, AccountKnown DEF Carries, Knows
<1>4. QED
  BY <1>1, <1>2, <1>3, Starts

LEMMA BeginChangeIInv ==
  ASSUME IInv, NEW t \in Task, NEW p \in Password, NEW q \in Password, BeginChange(t, p, q)
  PROVE  IInv'
<1> DEFINE r == [step |-> "verified", user |-> account.id, key |-> p, new |-> q]
<1>1. account # None /\ account.password = p /\ Start(t, r)
  BY DEF BeginChange
<1>2. r \in Change /\ r \notin SignIn
  BY <1>1, AccountKnown DEF Change, SignIn
<1>3. Carries(r) /\ Knows(r)
  BY <1>1, <1>2, AccountKnown DEF Carries, Knows
<1>4. QED
  BY <1>1, <1>2, <1>3, Starts

---------------------------------------------------------------------------
(* Requests go on *)

LEMMA ReadMappingIInv ==
  ASSUME IInv, NEW t \in Task, ReadMapping(t)
  PROVE  IInv'
<1> DEFINE x == tasks[t]
           m == mappings[x.server]
<1>1. x \in SignIn /\ x.step = "known" /\ x # Idle /\ Exists(x.user) /\ m \in Mapping
  BY KindOfTask DEF ReadMapping, At, IInv, TypeOK, SignIn
<1>2. Carries(x) /\ (t \notin overtaken => Knows(x))
  BY <1>1 DEF IInv, TaskInv
<1>3. CASE m.token # None /\ ~x.check /\ tasks' = [tasks EXCEPT ![t].step = "mapped", ![t].text = m.token]
  <2> DEFINE r == [x EXCEPT !.step = "mapped", !.text = m.token]
  <2>1. r \in SignIn /\ r \notin Change /\ r.step = "mapped" /\ r.text = m.token /\ r.user = x.user
        /\ r.server = x.server /\ r.device = x.device
    BY <1>1, <1>3 DEF SignIn, Change, Mapping
  <2>2. Carries(r) /\ Knows(r)
    BY <1>1, <1>2, <1>3, <2>1 DEF Carries, Knows, Fits, Mapping
  <2>3. tasks' = [tasks EXCEPT ![t] = r]
    BY <1>1, <1>3 DEF IInv, TypeOK
  <2>4. QED
    BY <2>1, <2>2, <2>3, TaskStep DEF ReadMapping
<1>4. CASE /\ Read(m.sealed, x.key) \in Login
           /\ tasks' = [tasks EXCEPT ![t].step = IF x.check THEN "asked" ELSE "resolved",
                                     ![t].text = Read(m.sealed, x.key)]
  <2> DEFINE r == [x EXCEPT !.step = IF x.check THEN "asked" ELSE "resolved",
                            !.text = Read(m.sealed, x.key)]
  <2>1. r \in SignIn /\ r \notin Change /\ r.step = (IF x.check THEN "asked" ELSE "resolved")
        /\ r.text \in Login /\ r.user = x.user /\ r.server = x.server /\ r.key = x.key
    BY <1>1, <1>4 DEF SignIn, Change
  <2>2. Carries(r) /\ (t \notin overtaken => Knows(r))
    BY <1>1, <1>2, <2>1 DEF Carries, Knows
  <2>3. tasks' = [tasks EXCEPT ![t] = r]
    BY <1>1, <1>4 DEF IInv, TypeOK
  <2>4. QED
    BY <2>1, <2>2, <2>3, TaskStep DEF ReadMapping
<1>5. QED
  BY <1>3, <1>4 DEF ReadMapping

\* A login that was accepted finds or creates the user, whose password it has given.
LEMMA ResolveIInv ==
  ASSUME IInv, NEW t \in Task, Resolve(t)
  PROVE  IInv'
<1> DEFINE x == tasks[t]
<1>1. x \in SignIn /\ x.step = "asked" /\ x # Idle
  BY KindOfTask DEF Resolve, At, IInv
<1>2. Carries(x) /\ x.text \in Login /\ x.key \in Password
  BY <1>1 DEF IInv, TaskInv, Carries
<1>3. users \in Nat /\ users' \in 0..MaxUsers /\ users <= users'
  BY BoundAssumption DEF IInv, TypeOK, Resolve
<1>4. account' \in User /\ account'.password = x.key /\ account'.id <= users' /\ account' # None
  <2>1. CASE account = None
    BY <2>1, <1>2, <1>3, BoundAssumption, NoneAssumption DEF Resolve, User, IInv, TypeOK
  <2>2. CASE account # None
    BY <2>2, AccountKnown DEF Resolve
  <2>3. QED
    BY <2>1, <2>2
<1>5. account # None => account' = account
  BY DEF Resolve
<1>6. account'.id \in 1..MaxUsers
  BY <1>4 DEF User
<1>7. PICK id \in 1..MaxUsers : id = account'.id
  BY <1>6
<1>8. PICK r : r = [x EXCEPT !.step = "resolved", !.user = id]
  OBVIOUS
<1>9. r \in SignIn /\ r \notin Change /\ r.step = "resolved" /\ r.user = id
      /\ r.key = x.key /\ r.text = x.text
  <2>1. id \in 0..MaxUsers
    BY BoundAssumption
  <2> HIDE DEF x
  <2>2. r \in SignIn /\ r.step = "resolved" /\ r.user = id /\ r.key = x.key /\ r.text = x.text
    BY <1>1, <1>8, <2>1 DEF SignIn
  <2>3. QED
    BY <2>2 DEF Change
<1>16. tasks' = [tasks EXCEPT ![t] = r]
  BY <1>1, <1>7, <1>8 DEF IInv, TypeOK, Resolve
<1>10. tasks' \in [Task -> {Idle} \cup SignIn \cup Change] /\ tasks'[t] = r
       /\ \A u \in Task \ {t} : tasks'[u] = tasks[u]
  BY <1>16, <1>9 DEF IInv, TypeOK
<1>11. TypeOK'
  BY <1>3, <1>4, <1>10 DEF IInv, TypeOK, Resolve
<1>12. RowsInv'
  BY <1>3, <1>4, <1>5 DEF IInv, Resolve, RowsInv, RowsOwned, ExactlyOneUsed, MappingsReadable,
     SessionsFit, Fits
<1>13. ASSUME NEW u \in Task, u # t PROVE TaskInv(u)'
  <2>1. tasks'[u] = tasks[u]
    BY <1>10, <1>13
  <2>2. tasks[u] # Idle /\ account'.id = tasks[u].user => account # None /\ account' = account
    <3>1. CASE account # None
      BY <3>1, <1>5
    <3>2. CASE account = None
      <4>1. account'.id = users + 1
        BY <3>2 DEF Resolve
      <4>2. tasks[u] # Idle => tasks[u].user \in Nat /\ tasks[u].user <= users
        BY BoundAssumption DEF IInv, TypeOK, TaskInv, Carries, SignIn, Change
      <4>3. QED
        BY <4>1, <4>2, <1>3
    <3>3. QED
      BY <3>1, <3>2
  <2>3. u \notin overtaken' => u \notin overtaken
    BY <1>13 DEF Resolve
  <2>4. users' \in Nat
    BY <1>3
  <2> HIDE DEF x
  <2>5. QED
    BY <1>3, <2>1, <2>2, <2>3, <2>4, OtherTask DEF IInv, Resolve, Exists
<1>14. TaskInv(t)'
  <2> HIDE DEF x
  <2>1. Carries(r)'
    BY <1>2, <1>4, <1>7, <1>9 DEF Carries
  <2>2. Knows(r)'
    BY <1>4, <1>9 DEF Knows
  <2>3. QED
    BY <1>10, <2>1, <2>2 DEF TaskInv, Carries, Knows
<1>15. QED
  BY <1>11, <1>12, <1>13, <1>14 DEF IInv

LEMMA CompareIInv ==
  ASSUME IInv, NEW t \in Task, Compare(t)
  PROVE  IInv'
<1> DEFINE x == tasks[t]
           m == mappings[x.server]
           changed == Exists(x.user) /\ m # None /\ Changed(m, x.text, x.key)
           r == [x EXCEPT !.step = "compared", !.changed = changed]
<1>1. x \in SignIn /\ x.step = "resolved" /\ x # Idle /\ x.server \in Server
  BY KindOfTask DEF Compare, At, IInv, SignIn
<1>2. Carries(x) /\ x.text \in Login /\ (Exists(x.user) /\ t \notin overtaken => Knows(x))
  BY <1>1 DEF IInv, TaskInv, Carries
<1>3. changed \in BOOLEAN
  BY DEF Exists, Changed
<1>4. r \in SignIn /\ r \notin Change /\ r.step = "compared" /\ r.user = x.user /\ r.text = x.text
      /\ r.key = x.key /\ r.server = x.server /\ r.changed = changed
  BY <1>1, <1>3 DEF SignIn, Change
<1>5. Exists(x.user) /\ m # None /\ ~changed => Unchanged(m, x.text)
  BY DEF Changed, Unchanged
<1>6. Carries(r)
  BY <1>1, <1>2, <1>4 DEF Carries
<1>7. Exists(r.user) /\ t \notin overtaken => Knows(r)
  BY <1>1, <1>2, <1>4, <1>5 DEF Knows
<1>8. tasks' = [tasks EXCEPT ![t] = r]
  BY <1>1 DEF IInv, TypeOK, Compare
<1>9. QED
  BY <1>4, <1>6, <1>7, <1>8, TaskStep DEF Compare

LEMMA DropIInv ==
  ASSUME IInv, NEW t \in Task, Drop(t)
  PROVE  IInv'
<1>1. Carries(Idle)
  BY DEF Carries, Idle, SignIn
<1>2. QED
  BY <1>1, TaskStep DEF Drop

\* A login that was compared without a difference leaves the sessions fitting.
LEMMA UnchangedFits ==
  ASSUME NEW m \in Mapping, NEW login \in Login, NEW key \in Key, NEW by \in Login \cup Token,
         Unchanged(m, login), Fits(by, m), (m.sealed = None) # (m.token = None),
         m.token # None => m.name = NameOf[m.token]
  PROVE  Fits(by, [name |-> NameOf[login], sealed |-> [text |-> login, key |-> key], token |-> None])
<1>1. [text |-> login, key |-> key] # None /\ by # None /\ None \notin Token
  BY NoneAssumption DEF Sealed
<1>2. CASE m.sealed = None
  <2>1. login \in BlankLogin /\ by = m.token /\ m.token \in Token
    BY <1>1, <1>2 DEF Unchanged, Fits, Mapping
  <2>2. NameOf[by] = NameOf[login]
    BY <1>1, <2>1 DEF Unchanged
  <2>3. QED
    BY <1>1, <2>1, <2>2 DEF Fits
<1>3. CASE m.sealed # None
  BY <1>1, <1>3 DEF Unchanged, Fits, Mapping
<1>4. QED
  BY <1>2, <1>3

LEMMA AddMappingIInv ==
  ASSUME IInv, NEW t \in Task, AddMapping(t)
  PROVE  IInv'
<1>1. PICK x \in SignIn : x = tasks[t] /\ x.step = "compared" /\ x # Idle
  BY KindOfTask DEF AddMapping, At, IInv
<1>2. PICK s \in Server : s = x.server
  BY DEF SignIn
<1>3. PICK m \in Mapping :
        m = [name |-> NameOf[x.text], sealed |-> [text |-> x.text, key |-> x.key], token |-> None]
  <2>1. x.text \in Login /\ x.key \in Key
    BY <1>1 DEF IInv, TaskInv, Carries, SignIn
  <2>2. QED
    BY <2>1, LoginAssumption DEF Mapping, Sealed
<1>4. x.text \in Login /\ x.key \in Key /\ m.name = NameOf[x.text] /\ m.token = None
      /\ m.sealed = [text |-> x.text, key |-> x.key] /\ m.sealed # None /\ m # None
  BY <1>1, <1>3, NoneAssumption DEF IInv, TaskInv, Carries, SignIn, Sealed
<1>5. account # None /\ account.id = x.user /\ (t \notin overtaken => Knows(x))
  BY <1>1 DEF AddMapping, Exists, IInv, TaskInv
<1>6. PICK r \in {Idle} \cup SignIn :
        /\ r = IF x.device = None THEN Idle ELSE [x EXCEPT !.step = "mapped"]
        /\ r # Idle => r \notin Change /\ r.step = "mapped" /\ r.device \in Device
                         /\ r.text = x.text /\ r.user = x.user /\ r.server = s
  <2>1. CASE x.device = None
    BY <2>1
  <2>2. CASE x.device # None
    <3>1. PICK y : y = [x EXCEPT !.step = "mapped"]
      OBVIOUS
    <3>2. y \in SignIn /\ y.step = "mapped" /\ y.device \in Device /\ y.text = x.text
          /\ y.user = x.user /\ y.server = s
      BY <1>1, <1>2, <2>2, <3>1 DEF SignIn
    <3>3. y \notin Change
      BY <3>2 DEF Change
    <3>4. QED
      BY <2>2, <3>1, <3>2, <3>3
  <2>3. QED
    BY <2>1, <2>2
<1>7. mappings' = [mappings EXCEPT ![s] = m] /\ tasks' = [tasks EXCEPT ![t] = r]
  BY <1>1, <1>2, <1>3, <1>6 DEF AddMapping
<1>8. /\ sessions' = (IF x.changed THEN Without(s) ELSE sessions)
      /\ overtaken' = (overtaken \cup Watching(s)) \ {t}
      /\ disturbed' = (IF t \in overtaken THEN disturbed \cup {s}
                       ELSE IF x.changed THEN disturbed \ {s} ELSE disturbed)
      /\ account' = account /\ users' = users
  BY <1>1, <1>2 DEF AddMapping
<1>9. TypeOK'
  BY <1>7, <1>8 DEF IInv, TypeOK, Watching, Without
<1>10. /\ mappings'[s] = m
       /\ \A q \in Server \ {s} : mappings'[q] = mappings[q] /\ (q \in disturbed' <=> q \in disturbed)
  BY <1>7, <1>8 DEF IInv, TypeOK
<1>11. RowsOwned' /\ ExactlyOneUsed'
  BY <1>4, <1>5, <1>8, <1>10 DEF IInv, RowsInv, RowsOwned, ExactlyOneUsed
<1>12. MappingsReadable'
  <2>1. s \notin disturbed' => x.key \in {account.password, AdminKey}
    BY <1>1, <1>5, <1>8 DEF Knows
  <2>2. QED
    BY <1>4, <1>5, <1>8, <1>10, <2>1 DEF IInv, RowsInv, MappingsReadable
<1>13. SessionsFit'
  <2>1. ASSUME NEW e \in sessions', e.server # s
        PROVE  mappings'[e.server] # None
               /\ (e.server \notin disturbed' => Fits(e.by, mappings'[e.server]))
    <3>1. e \in sessions /\ e.server \in Server
      BY <1>8, <2>1 DEF Without, IInv, TypeOK, Session
    <3>2. QED
      BY <1>10, <2>1, <3>1 DEF IInv, RowsInv, SessionsFit
  <2>2. ASSUME NEW e \in sessions', e.server = s, s \notin disturbed'
        PROVE  Fits(e.by, m)
    <3>1. ~x.changed /\ e \in sessions /\ t \notin overtaken /\ s \notin disturbed
      BY <1>8, <2>2 DEF Without
    <3>2. mappings[s] # None /\ mappings[s] \in Mapping /\ Fits(e.by, mappings[s])
          /\ e.by \in Login \cup Token
      BY <2>2, <3>1 DEF IInv, TypeOK, RowsInv, SessionsFit, Session
    <3>3. Unchanged(mappings[s], x.text)
      BY <1>1, <1>2, <1>5, <3>1, <3>2 DEF Knows
    <3>4. QED
      BY <1>3, <1>4, <3>2, <3>3, UnchangedFits DEF IInv, RowsInv, RowsOwned, ExactlyOneUsed
  <2>3. ASSUME NEW e \in sessions'
        PROVE  mappings'[e.server] # None
               /\ (e.server \notin disturbed' => Fits(e.by, mappings'[e.server]))
    BY <1>4, <1>10, <2>1, <2>2
  <2>4. QED
    BY <2>3 DEF SessionsFit, Fits
<1>14. TaskInv(t)'
  <2>1. tasks'[t] = r
    BY <1>7 DEF IInv, TypeOK
  <2>2. Carries(r)'
    BY <1>1, <1>4, <1>6, <1>8 DEF IInv, TaskInv, Carries, SignIn, Idle
  <2>3. r # Idle => Knows(r)'
    BY <1>4, <1>6, <1>10 DEF Knows, Fits
  <2>4. QED
    BY <2>1, <2>2, <2>3 DEF TaskInv, Carries, Knows
<1>15. ASSUME NEW u \in Task, u # t PROVE TaskInv(u)'
  <2>1. tasks'[u] = tasks[u]
    BY <1>7, <1>15 DEF IInv, TypeOK
  <2>2. users \in Nat
    BY BoundAssumption DEF IInv, TypeOK
  <2>3. u \notin overtaken' => u \notin overtaken /\ u \notin Watching(s)
    BY <1>8, <1>15
  <2>4. ASSUME tasks[u] # Idle, u \notin Watching(s), tasks[u] \in SignIn,
               tasks[u].step \in {"compared", "mapped"}
        PROVE  /\ mappings'[tasks[u].server] = mappings[tasks[u].server]
               /\ tasks[u].server \notin disturbed' => tasks[u].server \notin disturbed
    <3>1. tasks[u].server \in Server \ {s}
      BY <2>4 DEF Watching, SignIn
    <3>2. QED
      BY <1>10, <3>1
  <2>5. QED
    BY <1>8, <2>1, <2>2, <2>3, <2>4, OtherTask DEF IInv, Exists
<1>16. QED
  BY <1>9, <1>11, <1>12, <1>13, <1>14, <1>15 DEF IInv, RowsInv

LEMMA StoreSessionIInv ==
  ASSUME IInv, NEW t \in Task, StoreSession(t)
  PROVE  IInv'
<1>1. PICK x \in SignIn : x = tasks[t] /\ x.step = "mapped" /\ x # Idle
  BY KindOfTask DEF StoreSession, At, IInv
<1>2. PICK s \in Server : s = x.server
  BY DEF SignIn
<1>3. x.text \in Login \cup Token /\ x.device \in Device
      /\ (Exists(x.user) /\ t \notin overtaken => Knows(x))
  BY <1>1 DEF IInv, TaskInv, Carries
<1>4. PICK e \in Session : e = [server |-> s, device |-> x.device, by |-> x.text]
  BY <1>3 DEF Session
<1>5. /\ sessions' \subseteq sessions \cup {e}
      /\ Exists(x.user) /\ mappings[s] # None
      /\ tasks' = [tasks EXCEPT ![t] = Idle]
      /\ overtaken' = overtaken \ {t}
      /\ disturbed' = (IF t \in overtaken THEN disturbed \cup {s} ELSE disturbed)
      /\ account' = account /\ users' = users /\ mappings' = mappings
  BY <1>1, <1>2, <1>4 DEF StoreSession
<1>6. TypeOK'
  BY <1>5 DEF IInv, TypeOK
<1>7. RowsOwned' /\ ExactlyOneUsed' /\ MappingsReadable'
  BY <1>5 DEF IInv, RowsInv, RowsOwned, ExactlyOneUsed, MappingsReadable
<1>8. SessionsFit'
  <2>1. s \notin disturbed' => Fits(e.by, mappings[s])
    BY <1>1, <1>2, <1>3, <1>4, <1>5 DEF Knows
  <2>2. e.server = s
    BY <1>4
  <2>3. QED
    BY <1>5, <2>1, <2>2 DEF IInv, RowsInv, SessionsFit, Fits
<1>9. TaskInv(t)'
  <2>1. tasks'[t] = Idle
    BY <1>5 DEF IInv, TypeOK
  <2>2. Idle \notin SignIn
    BY DEF Idle, SignIn
  <2>3. QED
    BY <2>1, <2>2 DEF TaskInv, Carries
<1>10. ASSUME NEW u \in Task, u # t PROVE TaskInv(u)'
  <2>1. tasks'[u] = tasks[u]
    BY <1>5, <1>10 DEF IInv, TypeOK
  <2>2. users \in Nat
    BY BoundAssumption DEF IInv, TypeOK
  <2>3. QED
    BY <1>5, <1>10, <2>1, <2>2, OtherTask DEF IInv, Exists
<1>11. QED
  BY <1>6, <1>7, <1>8, <1>9, <1>10 DEF IInv, RowsInv

\* Re-encryption leaves all of a mapping but the password that it holds, and that too
\* if one of the keys opens it.
LEMMA ResealedMapping ==
  ASSUME NEW m \in Mapping, NEW old \in Key, NEW new \in Key,
         (m.sealed = None) # (m.token = None)
  PROVE  LET n == Resealed(m, old, new)
         IN  /\ n \in Mapping /\ n.name = m.name /\ n.token = m.token
             /\ m.sealed = None => n = m
             /\ m.sealed # None =>
                  /\ n.sealed # None
                  /\ n.sealed.key = new
                  /\ n.sealed.text \in Login => n.sealed.text = m.sealed.text
                  /\ m.sealed.key \in {old, AdminKey} => n.sealed.text = m.sealed.text
<1>1. m # None
  BY NoneAssumption
<1>2. CASE m.sealed = None
  BY <1>2 DEF Resealed
<1>3. CASE m.sealed # None
  <2>1. m.sealed \in Sealed /\ m.sealed.text \in Login \cup {Garbled}
    BY <1>3 DEF Mapping, Sealed
  <2>2. PICK text \in Login \cup {Garbled} : text = Read(m.sealed, old)
    BY <2>1 DEF Read
  <2>3. /\ text \in Login => text = m.sealed.text
        /\ m.sealed.key \in {old, AdminKey} => text = m.sealed.text
    BY <2>2, LoginAssumption DEF Read
  <2>4. PICK c \in Sealed : c = [text |-> text, key |-> new]
    BY DEF Sealed
  <2>5. c.text = text /\ c.key = new /\ c # None
    BY <2>4, NoneAssumption
  <2>6. Resealed(m, old, new) = [m EXCEPT !.sealed = c]
    BY <1>1, <1>3, <2>2, <2>4 DEF Resealed
  <2>7. [m EXCEPT !.sealed = c] \in Mapping /\ [m EXCEPT !.sealed = c].sealed = c
        /\ [m EXCEPT !.sealed = c].name = m.name /\ [m EXCEPT !.sealed = c].token = m.token
    BY DEF Mapping
  <2>8. QED
    BY <1>3, <2>3, <2>5, <2>6, <2>7
<1>4. QED
  BY <1>2, <1>3

LEMMA ChangePasswordIInv ==
  ASSUME IInv, NEW t \in Task, ChangePassword(t)
  PROVE  IInv'
<1>1. PICK x \in Change : x = tasks[t] /\ x # Idle
  BY KindOfTask DEF ChangePassword, At, IInv
<1>2. x.key \in Password /\ x.new \in Password /\ x.key \in Key /\ x.new \in Key
  BY DEF Change, Key
<1>3. account # None /\ account \in User /\ account.id <= users
  BY <1>1, AccountKnown DEF ChangePassword, Exists
<1>4. /\ account' \in User /\ account' # None
      /\ account'.password = x.new /\ account'.id = account.id
  BY <1>1, <1>2, <1>3, NoneAssumption DEF ChangePassword, User
<1>5. t \notin overtaken => x.key = account.password
  <2>1. Exists(x.user)
    BY <1>1 DEF ChangePassword
  <2>2. x.step = "verified"
    BY DEF Change
  <2>3. QED
    BY <1>1, <1>2, <2>1, <2>2, KeyAssumption DEF IInv, TaskInv, Knows
<1>6. /\ mappings' = [q \in Server |-> Resealed(mappings[q], x.key, x.new)]
      /\ tasks' = [tasks EXCEPT ![t] = Idle]
      /\ overtaken' = (overtaken \cup {u \in Task : tasks[u] # Idle /\ tasks[u].step # "mapped"}) \ {t}
      /\ disturbed' = (IF t \in overtaken
                       THEN disturbed \cup {q \in Server : mappings[q] # None /\ mappings[q].sealed # None}
                       ELSE disturbed)
      /\ users' = users /\ sessions' = sessions
  BY <1>1 DEF ChangePassword
<1>7. ASSUME NEW q \in Server, mappings[q] = None
      PROVE  mappings'[q] = None
  BY <1>6, <1>7 DEF Resealed
<1>8. ASSUME NEW q \in Server, mappings[q] # None
      PROVE  LET m == mappings[q]
                 n == mappings'[q]
             IN  /\ m \in Mapping /\ n \in Mapping /\ n # None /\ n.name = m.name /\ n.token = m.token
                 /\ m.sealed = None => n = m
                 /\ m.sealed # None =>
                      /\ n.sealed # None
                      /\ n.sealed.key = x.new
                      /\ n.sealed.text \in Login => n.sealed.text = m.sealed.text
                      /\ m.sealed.key \in {x.key, AdminKey} => n.sealed.text = m.sealed.text
  <2>1. mappings[q] \in Mapping /\ (mappings[q].sealed = None) # (mappings[q].token = None)
    BY <1>8 DEF IInv, TypeOK, RowsInv, ExactlyOneUsed
  <2>2. QED
    BY <1>2, <1>6, <1>8, <2>1, ResealedMapping, NoneAssumption
<1>9. ASSUME NEW q \in Server, q \notin disturbed', mappings[q] # None
      PROVE  /\ q \notin disturbed
             /\ mappings[q].sealed # None =>
                  mappings[q].sealed.text \in Login /\ mappings'[q].sealed.text = mappings[q].sealed.text
  <2>1. q \notin disturbed
    BY <1>6, <1>9
  <2>2. ASSUME mappings[q].sealed # None
        PROVE  mappings[q].sealed.text \in Login /\ mappings'[q].sealed.text = mappings[q].sealed.text
    <3>1. t \notin overtaken
      BY <1>6, <1>9, <2>2
    <3>2. mappings[q].sealed.text \in Login /\ mappings[q].sealed.key \in {x.key, AdminKey}
      BY <1>5, <1>9, <2>1, <2>2, <3>1 DEF IInv, RowsInv, MappingsReadable
    <3>3. QED
      BY <1>8, <1>9, <2>2, <3>2
  <2>3. QED
    BY <2>1, <2>2
<1>10. ASSUME NEW q \in Server, q \notin disturbed', mappings[q] # None, NEW by, Fits(by, mappings[q])
       PROVE  Fits(by, mappings'[q])
  <2>1. CASE mappings[q].sealed = None
    BY <1>8, <1>10, <2>1
  <2>2. CASE mappings[q].sealed # None
    BY <1>8, <1>9, <1>10, <2>2 DEF Fits
  <2>3. QED
    BY <2>1, <2>2
<1>11. TypeOK'
  <2>1. mappings' \in [Server -> Mapping \cup {None}]
    BY <1>6, <1>7, <1>8
  <2>2. QED
    BY <1>4, <1>6, <2>1 DEF IInv, TypeOK
<1>12. RowsOwned'
  BY <1>3, <1>4, <1>6, <1>7, <1>8 DEF IInv, RowsInv, RowsOwned
<1>13. ExactlyOneUsed'
  BY <1>7, <1>8 DEF IInv, RowsInv, ExactlyOneUsed
<1>14. MappingsReadable'
  BY <1>4, <1>7, <1>8, <1>9 DEF MappingsReadable
<1>15. SessionsFit'
  <2>1. ASSUME NEW e \in sessions'
        PROVE  mappings'[e.server] # None
               /\ (e.server \notin disturbed' => Fits(e.by, mappings'[e.server]))
    <3>1. e \in sessions /\ e.server \in Server
      BY <1>6, <2>1 DEF IInv, TypeOK, Session
    <3>2. mappings[e.server] # None /\ (e.server \notin disturbed => Fits(e.by, mappings[e.server]))
      BY <3>1 DEF IInv, RowsInv, SessionsFit
    <3>3. QED
      BY <1>8, <1>9, <1>10, <3>1, <3>2
  <2>2. QED
    BY <2>1 DEF SessionsFit, Fits
<1>16. TaskInv(t)'
  <2>1. tasks'[t] = Idle
    BY <1>6 DEF IInv, TypeOK
  <2>2. Idle \notin SignIn
    BY DEF Idle, SignIn
  <2>3. QED
    BY <2>1, <2>2 DEF TaskInv, Carries
<1>17. ASSUME NEW u \in Task, u # t PROVE TaskInv(u)'
  <2>1. tasks'[u] = tasks[u]
    BY <1>6, <1>17 DEF IInv, TypeOK
  <2>2. users \in Nat
    BY BoundAssumption DEF IInv, TypeOK
  <2>3. tasks[u] # Idle /\ u \notin overtaken' => u \notin overtaken /\ tasks[u].step = "mapped"
    BY <1>6, <1>17
  <2>4. Exists(tasks[u].user)' => Exists(tasks[u].user)
    BY <1>3, <1>4, <2>1 DEF Exists
  <2>5. ASSUME tasks[u] \in SignIn, mappings'[tasks[u].server] # None, tasks[u].server \notin disturbed'
        PROVE  /\ mappings[tasks[u].server] # None
               /\ tasks[u].server \notin disturbed
               /\ Fits(tasks[u].text, mappings[tasks[u].server])
                    => Fits(tasks[u].text, mappings'[tasks[u].server])
    <3>1. tasks[u].server \in Server
      BY <2>5 DEF SignIn
    <3>2. PICK q \in Server : q = tasks[u].server
      BY <3>1
    <3>3. mappings[q] # None /\ q \notin disturbed
      BY <1>7, <1>9, <2>5, <3>2
    <3>4. Fits(tasks[u].text, mappings[q]) => Fits(tasks[u].text, mappings'[q])
      BY <1>10, <2>5, <3>2, <3>3
    <3>5. QED
      BY <3>2, <3>3, <3>4
  <2>6. ASSUME tasks[u] # Idle, Exists(tasks[u].user)', u \notin overtaken'
        PROVE  Exists(tasks[u].user) /\ u \notin overtaken /\ tasks[u].step = "mapped"
    BY <2>3, <2>4, <2>6
  <2>7. TypeOK /\ TaskInv(u) /\ users <= users' /\ users' \in Nat
    BY <1>6, <2>2 DEF IInv
  <2>8. "mapped" # "compared"
    OBVIOUS
  <2>9. QED
    BY <2>1, <2>5, <2>6, <2>7, <2>8, OtherTask
<1>18. QED
  BY <1>11, <1>12, <1>13, <1>14, <1>15, <1>16, <1>17 DEF IInv, RowsInv

---------------------------------------------------------------------------
(* Requests of one transaction *)

\* A mapping is replaced or deleted, and its sessions with it.
LEMMA ReplacedIInv ==
  ASSUME IInv, NEW s \in Server, NEW m \in Mapping \cup {None},
         mappings' = [mappings EXCEPT ![s] = m], sessions' = Without(s),
         overtaken' = overtaken \cup Watching(s), disturbed' = disturbed \ {s},
         UNCHANGED <<account, users, tasks>>,
         m # None => /\ account # None
                     /\ m.sealed = None /\ m.token # None /\ m.name = NameOf[m.token]
  PROVE  IInv'
<1>1. TypeOK'
  BY DEF IInv, TypeOK, Watching, Without
<1>2. mappings'[s] = m /\ \A q \in Server \ {s} : mappings'[q] = mappings[q]
  BY DEF IInv, TypeOK
<1>3. RowsOwned' /\ ExactlyOneUsed' /\ MappingsReadable'
  BY <1>2 DEF IInv, RowsInv, RowsOwned, ExactlyOneUsed, MappingsReadable
<1>4. SessionsFit'
  <2>1. ASSUME NEW e \in sessions'
        PROVE  mappings'[e.server] # None
               /\ (e.server \notin disturbed' => Fits(e.by, mappings'[e.server]))
    <3>1. e \in sessions /\ e.server \in Server \ {s}
      BY <2>1 DEF Without, IInv, TypeOK, Session
    <3>2. QED
      BY <1>2, <3>1 DEF IInv, RowsInv, SessionsFit
  <2>2. QED
    BY <2>1 DEF SessionsFit, Fits
<1>5. ASSUME NEW u \in Task PROVE TaskInv(u)'
  <2>1. users \in Nat
    BY BoundAssumption DEF IInv, TypeOK
  <2>2. ASSUME tasks[u] # Idle, u \notin Watching(s), tasks[u] \in SignIn,
               tasks[u].step \in {"compared", "mapped"}
        PROVE  /\ mappings'[tasks[u].server] = mappings[tasks[u].server]
               /\ tasks[u].server \notin disturbed' => tasks[u].server \notin disturbed
    <3>1. tasks[u].server \in Server \ {s}
      BY <2>2 DEF Watching, SignIn
    <3>2. QED
      BY <1>2, <3>1
  <2>3. QED
    BY <2>1, <2>2, OtherTask DEF IInv, Exists
<1>6. QED
  BY <1>1, <1>3, <1>4, <1>5 DEF IInv, RowsInv

LEMMA AddTokenIInv ==
  ASSUME IInv, NEW s \in Server, NEW k \in Token, AddToken(s, k)
  PROVE  IInv'
<1>1. PICK m \in Mapping : m = [name |-> NameOf[k], sealed |-> None, token |-> k]
  BY LoginAssumption DEF Mapping
<1>2. m.sealed = None /\ m.token # None /\ m.name = NameOf[m.token]
  BY <1>1, NoneAssumption
<1>3. mappings' = [mappings EXCEPT ![s] = m]
  BY <1>1 DEF AddToken
<1>4. QED
  BY <1>2, <1>3, ReplacedIInv DEF AddToken

LEMMA DeleteMappingIInv ==
  ASSUME IInv, NEW s \in Server, DeleteMapping(s)
  PROVE  IInv'
BY ReplacedIInv DEF DeleteMapping

LEMMA DeleteSessionsIInv ==
  ASSUME IInv, DeleteSessions
  PROVE  IInv'
<1>1. TypeOK'
  BY DEF IInv, TypeOK, DeleteSessions
<1>2. RowsInv'
  BY DEF IInv, RowsInv, RowsOwned, ExactlyOneUsed, MappingsReadable, SessionsFit, Fits, DeleteSessions
<1>3. ASSUME NEW u \in Task PROVE TaskInv(u)'
  <2>1. users \in Nat
    BY BoundAssumption DEF IInv, TypeOK
  <2>2. QED
    BY <2>1, OtherTask DEF IInv, Exists, DeleteSessions
<1>4. QED
  BY <1>1, <1>2, <1>3 DEF IInv

LEMMA DeleteUserIInv ==
  ASSUME IInv, DeleteUser
  PROVE  IInv'
<1>1. TypeOK'
  BY DEF IInv, TypeOK, DeleteUser
<1>2. RowsInv'
  BY DEF IInv, RowsInv, RowsOwned, ExactlyOneUsed, MappingsReadable, SessionsFit, DeleteUser
<1>3. ASSUME NEW u \in Task PROVE TaskInv(u)'
  <2>1. users \in Nat
    BY BoundAssumption DEF IInv, TypeOK
  <2>2. ~Exists(tasks[u].user)'
    BY DEF Exists, DeleteUser
  <2>3. QED
    BY <2>1, <2>2, OtherTask DEF IInv, DeleteUser
<1>4. QED
  BY <1>1, <1>2, <1>3 DEF IInv

---------------------------------------------------------------------------
(* The theorems *)

LEMMA StutterIInv ==
  ASSUME IInv, UNCHANGED vars
  PROVE  IInv'
<1>1. TypeOK' /\ RowsInv'
  BY DEF vars, IInv, TypeOK, RowsInv, RowsOwned, ExactlyOneUsed, MappingsReadable, SessionsFit, Fits
<1>2. ASSUME NEW u \in Task PROVE TaskInv(u)'
  <2>1. users \in Nat
    BY BoundAssumption DEF IInv, TypeOK
  <2>2. QED
    BY <2>1, OtherTask DEF vars, IInv, Exists
<1>3. QED
  BY <1>1, <1>2 DEF IInv

\* Every step preserves the invariant.
LEMMA NextIInv == IInv /\ [Next]_vars => IInv'
<1> SUFFICES ASSUME IInv, [Next]_vars PROVE IInv'
  OBVIOUS
<1>1. ASSUME NEW t \in Task, Begin(t) PROVE IInv'
  BY <1>1, BeginLoginIInv, BeginSignInIInv, BeginMappingIInv, BeginChangeIInv DEF Begin
<1>2. ASSUME NEW t \in Task, GoOn(t) PROVE IInv'
  BY <1>2, ReadMappingIInv, ResolveIInv, CompareIInv, AddMappingIInv, StoreSessionIInv,
     ChangePasswordIInv, DropIInv DEF GoOn
<1>3. CASE Next
  BY <1>1, <1>2, <1>3, CreateUserIInv, AddTokenIInv, DeleteMappingIInv, DeleteSessionsIInv,
     DeleteUserIInv DEF Next
<1>4. CASE UNCHANGED vars
  BY <1>4, StutterIInv
<1>5. QED
  BY <1>3, <1>4

\* The invariant holds in every reachable state.
THEOREM Invariance == Spec => []IInv
BY InitIInv, NextIInv, PTL DEF Spec

\* The variables have their types.
THEOREM TypeCorrect == Spec => []TypeOK
<1>1. IInv => TypeOK
  BY DEF IInv
<1>2. QED
  BY <1>1, Invariance, PTL

\* However logins, connections, deletions and changes of the password overlap, a mapping
\* has a password or a token, and not both.
THEOREM ExactlyOneHolds == Spec => []ExactlyOneUsed
<1>1. IInv => ExactlyOneUsed
  BY DEF IInv, RowsInv
<1>2. QED
  BY <1>1, Invariance, PTL

\* With any number of requests under way, a mapping stays readable for its user unless a
\* request that had been overtaken wrote it.
THEOREM MappingsReadableHolds == Spec => []MappingsReadable
<1>1. IInv => MappingsReadable
  BY DEF IInv, RowsInv
<1>2. QED
  BY <1>1, Invariance, PTL

\* With any number of requests under way, a session belongs to a mapping, and was opened
\* with its credential unless a request that had been overtaken wrote either of them.
THEOREM SessionsFitHold == Spec => []SessionsFit
<1>1. IInv => SessionsFit
  BY DEF IInv, RowsInv
<1>2. QED
  BY <1>1, Invariance, PTL
=============================================================================
