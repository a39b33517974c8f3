---------------------------- MODULE AuthMappings ----------------------------
(***************************************************************************)
(* User authorization (user_authorization_service.rs): the mappings of a   *)
(* local user to accounts on the upstream servers, and the upstream        *)
(* sessions of the user's devices.  A mapping keeps either the password of *)
(* the upstream account, encrypted with the user's own password or with    *)
(* the administrator's, or an upstream token.                              *)
(*                                                                         *)
(* Logins (handlers/users.rs), sign-ins of devices (handlers/              *)
(* quick_connect.rs), connections of servers (ui/user/servers.rs,          *)
(* federated_users.rs), mappings made by the administrator                 *)
(* (ui/admin/users.rs) and changes of the password (ui/user/profile.rs)    *)
(* read the database, await an upstream and write to the database what     *)
(* they have read.  Every action is one query or transaction.              *)
(*                                                                         *)
(* One user name is modelled, since every query is limited to one user.    *)
(* A request to several servers is several tasks, one for each of them.    *)
(* Records of old versions, in plain text or encrypted with a password     *)
(* that was not hashed, are left out.  Definitions introduced as a "fault" *)
(* are not part of the model.                                              *)
(***************************************************************************)
EXTENDS Integers

CONSTANTS
  Password,    \* passwords of the local user
  Login,       \* names with passwords that an upstream server accepts
  BlankLogin,  \* those whose password is empty
  Token,       \* tokens that an upstream server has given to a user
  Name,        \* names of upstream users
  NameOf,      \* the name in a login, or of the user that a token is for
  Server, Device,
  Task,        \* bound: tasks under way at a time
  MaxUsers,    \* bound: users that are ever created under the name
  AutoCreate,  \* auto_create_users_on_login
  AdminKey,    \* the key that is made of the administrator's password
  Garbled,     \* a ciphertext that was taken for a password: no upstream accepts it
  None

ASSUME KeyAssumption == AdminKey \notin Password
ASSUME LoginAssumption ==
  /\ BlankLogin \subseteq Login
  /\ Login \cap Token = {}
  /\ Garbled \notin Login
  /\ NameOf \in [Login \cup Token -> Name]
ASSUME BoundAssumption == MaxUsers \in Nat

VARIABLES
  account,    \* the local user, if there is one
  users,      \* how many have been created so far
  mappings,   \* server_mappings, by server
  sessions,   \* authorization_sessions
  tasks,      \* the tasks under way, with what they carry across their awaits
  overtaken,  \* history: the tasks that have read what was changed since
  disturbed   \* history: the servers whose mapping or sessions an overtaken task wrote

vars == <<account, users, mappings, sessions, tasks, overtaken, disturbed>>

Key == Password \cup {AdminKey}

User == [id : 1..MaxUsers, password : Password]

\* An EncryptedPassword: what is in it, and the key it was encrypted with.
Sealed == [text : Login \cup {Garbled}, key : Key]

\* ServerMapping.  None stands for an empty mapped_password and for no upstream_token.
Mapping == [name : Name, sealed : Sealed \cup {None}, token : Token \cup {None}]

\* AuthorizationSession, with the credential that it was opened with.
Session == [server : Server, device : Device, by : Login \cup Token]

ASSUME NoneAssumption == None \notin Login \cup Token \cup Device \cup User \cup Sealed \cup Mapping

Idle == [step |-> "idle"]

\* A task that brings a mapping or a session.  It knows its user ("known"), has a
\* login that it tries upstream before it looks for the user ("asked") or after that
\* ("resolved"), has compared the login with the mapping ("compared"), and has
\* stored the mapping ("mapped").  A login with a password is checked again.  There
\* is no device if no session is wanted, and no text before a mapping was read.
SignIn ==
  [step : {"known", "asked", "resolved", "compared", "mapped"}, user : 0..MaxUsers,
   key : Key, server : Server, device : Device \cup {None},
   text : Login \cup Token \cup {None}, changed : BOOLEAN, check : BOOLEAN]

\* A change of the password that has verified the old one.
Change == [step : {"verified"}, user : 1..MaxUsers, key : Password, new : Password]

Init ==
  /\ account = None
  /\ users = 0
  /\ mappings = [s \in Server |-> None]
  /\ sessions = {}
  /\ tasks = [t \in Task |-> Idle]
  /\ overtaken = {}
  /\ disturbed = {}

---------------------------------------------------------------------------
(* Mappings *)

\* Fault, for MappingsReadable: the administrator's key is not tried.
ReadAsUser(sealed, key) == IF sealed.key = key THEN sealed.text ELSE Garbled

\* decrypt_server_mapping_password: a ciphertext that neither key opens is taken for
\* the password itself.
Read(sealed, key) == IF sealed.key \in {key, AdminKey} THEN sealed.text ELSE Garbled

\* Fault, for SessionsFit: a token mapping has no password that could have changed.
ChangedPassword(m, login, key) ==
  \/ m.name # NameOf[login]
  \/ m.sealed # None /\ m.sealed # [text |-> login, key |-> key]

\* mapping_credentials_changed: another name or password.  A password that the key
\* does not open counts as another one.
Changed(m, login, key) ==
  \/ m.name # NameOf[login]
  \/ IF m.sealed = None THEN login \notin BlankLogin
     ELSE m.sealed # [text |-> login, key |-> key]

\* What update_user_password makes of a mapping.
Resealed(m, old, new) ==
  IF m = None \/ m.token # None THEN m
  ELSE [m EXCEPT !.sealed = [text |-> Read(@, old), key |-> new]]

Without(s) == {x \in sessions : x.server # s}

\* The user with this id is still there, so that rows can refer to it.
Exists(id) == account # None /\ account.id = id

\* Tasks that have read the mapping of s and will write by what they have read.
Watching(s) ==
  {u \in Task : tasks[u] # Idle /\ tasks[u].step \in {"compared", "mapped"} /\ tasks[u].server = s}

Start(t, r) ==
  /\ tasks[t] = Idle
  /\ tasks' = [tasks EXCEPT ![t] = r]
  /\ UNCHANGED <<account, users, mappings, sessions, overtaken, disturbed>>

At(t, step) == tasks[t] # Idle /\ tasks[t].step = step

---------------------------------------------------------------------------
(* Requests begin *)

\* A user is created, with federated mappings still to come, or for an identity of
\* single sign-on.
CreateUser(p) ==
  /\ account = None
  /\ users < MaxUsers
  /\ account' = [id |-> users + 1, password |-> p]
  /\ users' = users + 1
  /\ UNCHANGED <<mappings, sessions, tasks, overtaken, disturbed>>

NewTask(step, id, key, s, d, text, check) ==
  [step |-> step, user |-> id, key |-> key, server |-> s, device |-> d, text |-> text,
   changed |-> FALSE, check |-> check]

\* A login by name and password: of the user, or of somebody who is not known yet
\* and whose name and password are then tried on every server.
BeginLogin(t, s, d, p) ==
  \/ /\ account # None
     /\ account.password = p
     /\ Start(t, NewTask("known", account.id, p, s, d, None, TRUE))
  \/ /\ account = None
     /\ AutoCreate
     /\ \E login \in Login : Start(t, NewTask("asked", 0, p, s, d, login, TRUE))

\* A device is signed in for a user who is authorized already.
BeginSignIn(t, s, d) ==
  /\ account # None
  /\ Start(t, NewTask("known", account.id, account.password, s, d, None, FALSE))

\* The user connects a server with a password, or a new user is given its servers.
BeginConnect(t, s, login) ==
  /\ account # None
  /\ Start(t, NewTask("resolved", account.id, account.password, s, None, login, FALSE))

\* The administrator adds a mapping.
BeginAdd(t, s, login) ==
  /\ account # None
  /\ Start(t, NewTask("resolved", account.id, AdminKey, s, None, login, FALSE))

\* The user changes the password, and has given the old one.
BeginChange(t, p, q) ==
  /\ account # None
  /\ account.password = p
  /\ Start(t, [step |-> "verified", user |-> account.id, key |-> p, new |-> q])

---------------------------------------------------------------------------
(* Requests go on *)

\* The mapping is listed and decrypted, to be tried upstream; a device is signed in
\* with the token, if there is one.
ReadMapping(t) ==
  LET x == tasks[t]
      m == mappings[x.server]
  IN  /\ At(t, "known")
      /\ Exists(x.user)
      /\ m # None
      /\ \/ /\ m.token # None
            /\ ~x.check
            /\ tasks' = [tasks EXCEPT ![t].step = "mapped", ![t].text = m.token]
         \/ /\ m.token = None
            /\ Read(m.sealed, x.key) \in Login
            /\ tasks' = [tasks EXCEPT ![t].step = IF x.check THEN "asked" ELSE "resolved",
                                      ![t].text = Read(m.sealed, x.key)]
      /\ UNCHANGED <<account, users, mappings, sessions, overtaken, disturbed>>

\* resolve_or_create_login_user, when the upstream has accepted the login.
Resolve(t) ==
  /\ At(t, "asked")
  /\ \/ /\ account = None
        /\ users < MaxUsers
        /\ account' = [id |-> users + 1, password |-> tasks[t].key]
        /\ users' = users + 1
     \/ /\ account # None
        /\ account.password = tasks[t].key
        /\ UNCHANGED <<account, users>>
  /\ tasks' = [tasks EXCEPT ![t].step = "resolved", ![t].user = account'.id]
  /\ overtaken' = overtaken \ {t}
  /\ UNCHANGED <<mappings, sessions, disturbed>>

\* add_server_mapping_by_id reads the mapping that it is about to replace.
Compare(t) ==
  LET x == tasks[t]
      m == mappings[x.server]
  IN  /\ At(t, "resolved")
      /\ tasks' = [tasks EXCEPT ![t].step = "compared",
                                ![t].changed = Exists(x.user) /\ m # None /\ Changed(m, x.text, x.key)]
      /\ UNCHANGED <<account, users, mappings, sessions, overtaken, disturbed>>

\* The transaction of add_server_mapping_by_id.
AddMapping(t) ==
  LET x == tasks[t]
      s == x.server
  IN  /\ At(t, "compared")
      /\ Exists(x.user)
      /\ mappings' = [mappings EXCEPT ![s] =
            [name |-> NameOf[x.text], sealed |-> [text |-> x.text, key |-> x.key], token |-> None]]
      /\ sessions' = IF x.changed THEN Without(s) ELSE sessions
      /\ tasks' = [tasks EXCEPT ![t] = IF x.device = None THEN Idle ELSE [@ EXCEPT !.step = "mapped"]]
      /\ overtaken' = (overtaken \cup Watching(s)) \ {t}
      /\ disturbed' = IF t \in overtaken THEN disturbed \cup {s}
                      ELSE IF x.changed THEN disturbed \ {s} ELSE disturbed
      /\ UNCHANGED <<account, users>>

\* store_authorization_session_by_id: the device has one session for each mapping.
StoreSession(t) ==
  LET x == tasks[t]
      s == x.server
  IN  /\ At(t, "mapped")
      /\ Exists(x.user)
      /\ mappings[s] # None
      /\ sessions' = {e \in sessions : e.server # s \/ e.device # x.device}
                       \cup {[server |-> s, device |-> x.device, by |-> x.text]}
      /\ tasks' = [tasks EXCEPT ![t] = Idle]
      /\ overtaken' = overtaken \ {t}
      /\ disturbed' = IF t \in overtaken THEN disturbed \cup {s} ELSE disturbed
      /\ UNCHANGED <<account, users, mappings>>

\* The transaction of update_user_password.
ChangePassword(t) ==
  LET x == tasks[t]
  IN  /\ At(t, "verified")
      /\ Exists(x.user)
      /\ account' = [account EXCEPT !.password = x.new]
      /\ mappings' = [s \in Server |-> Resealed(mappings[s], x.key, x.new)]
      /\ tasks' = [tasks EXCEPT ![t] = Idle]
      /\ overtaken' = (overtaken \cup {u \in Task : tasks[u] # Idle /\ tasks[u].step # "mapped"}) \ {t}
      /\ disturbed' = IF t \in overtaken
                      THEN disturbed \cup {s \in Server : mappings[s] # None /\ mappings[s].sealed # None}
                      ELSE disturbed
      /\ UNCHANGED <<users, sessions>>

\* A task ends without success: an upstream or the database refuses, or the client is gone.
Drop(t) ==
  /\ tasks[t] # Idle
  /\ tasks' = [tasks EXCEPT ![t] = Idle]
  /\ overtaken' = overtaken \ {t}
  /\ UNCHANGED <<account, users, mappings, sessions, disturbed>>

---------------------------------------------------------------------------
(* Requests of one transaction *)

\* add_token_server_mapping, when the user has connected the server by Quick Connect.
AddToken(s, k) ==
  /\ account # None
  /\ mappings' = [mappings EXCEPT ![s] = [name |-> NameOf[k], sealed |-> None, token |-> k]]
  /\ sessions' = Without(s)
  /\ overtaken' = overtaken \cup Watching(s)
  /\ disturbed' = disturbed \ {s}
  /\ UNCHANGED <<account, users, tasks>>

DeleteMapping(s) ==
  /\ mappings[s] # None
  /\ mappings' = [mappings EXCEPT ![s] = None]
  /\ sessions' = Without(s)
  /\ overtaken' = overtaken \cup Watching(s)
  /\ disturbed' = disturbed \ {s}
  /\ UNCHANGED <<account, users, tasks>>

\* delete_all_sessions_for_user, by the administrator
DeleteSessions ==
  /\ sessions' = {}
  /\ UNCHANGED <<account, users, mappings, tasks, overtaken, disturbed>>

\* The mappings and sessions go with the user.
DeleteUser ==
  /\ account # None
  /\ account' = None
  /\ mappings' = [s \in Server |-> None]
  /\ sessions' = {}
  /\ disturbed' = {}
  /\ UNCHANGED <<users, tasks, overtaken>>

---------------------------------------------------------------------------
Begin(t) ==
  \/ \E s \in Server, d \in Device, p \in Password : BeginLogin(t, s, d, p)
  \/ \E s \in Server, d \in Device : BeginSignIn(t, s, d)
  \/ \E s \in Server, login \in Login : BeginConnect(t, s, login) \/ BeginAdd(t, s, login)
  \/ \E p \in Password, q \in Password : BeginChange(t, p, q)

GoOn(t) ==
  \/ ReadMapping(t)
  \/ Resolve(t)
  \/ Compare(t)
  \/ AddMapping(t)
  \/ StoreSession(t)
  \/ ChangePassword(t)
  \/ Drop(t)

Next ==
  \/ \E p \in Password : CreateUser(p)
  \/ \E t \in Task : Begin(t) \/ GoOn(t)
  \/ \E s \in Server : DeleteMapping(s) \/ \E k \in Token : AddToken(s, k)
  \/ DeleteSessions
  \/ DeleteUser

Spec == Init /\ [][Next]_vars

---------------------------------------------------------------------------
(* Properties *)

\* The variables have their types.
TypeOK ==
  /\ account \in User \cup {None}
  /\ users \in 0..MaxUsers
  /\ mappings \in [Server -> Mapping \cup {None}]
  /\ sessions \subseteq Session
  /\ tasks \in [Task -> {Idle} \cup SignIn \cup Change]
  /\ overtaken \subseteq Task
  /\ disturbed \subseteq Server

\* A mapping has a password or a token, never both and never neither, whatever
\* replaces it and however often the user's password is changed.
ExactlyOneUsed ==
  \A s \in Server : mappings[s] # None => (mappings[s].sealed = None) # (mappings[s].token = None)

\* The password in a mapping can be decrypted with the user's present password or
\* with the administrator's, and is one that was accepted upstream, unless the
\* mapping was last written by a request that had been overtaken: one that had read
\* the user's password, or the mapping, before another request changed it.
MappingsReadable ==
  \A s \in Server \ disturbed :
    mappings[s] # None /\ mappings[s].sealed # None
      => /\ mappings[s].sealed.text \in Login
         /\ account # None
         /\ mappings[s].sealed.key \in {account.password, AdminKey}

\* A session opened with this credential is of the account that the mapping is for.
Fits(by, m) ==
  \/ by = m.token
  \/ m.sealed # None /\ by = m.sealed.text
  \/ /\ m.sealed # None
     /\ m.sealed.text \in BlankLogin
     /\ by \in Token
     /\ NameOf[by] = m.name

\* A device's session belongs to a mapping, and was opened with the credential that
\* the mapping has now (or with a token of the same upstream user, if that user has
\* no password), unless a request that had been overtaken wrote it or the mapping.
SessionsFit ==
  \A x \in sessions :
    /\ mappings[x.server] # None
    /\ x.server \notin disturbed => Fits(x.by, mappings[x.server])

\* A change of the password re-encrypts what the mappings hold: no mapping's password
\* is lost, however the requests overlap.
NothingLost ==
  \A s \in Server : mappings[s] # None /\ mappings[s].sealed # None => mappings[s].sealed.text # Garbled
=============================================================================
