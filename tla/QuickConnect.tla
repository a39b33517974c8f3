---------------------------- MODULE QuickConnect ----------------------------
(***************************************************************************)
(* Quick Connect (handlers/quick_connect.rs, ui/user/quick_connect.rs): a  *)
(* device asks for a secret and a short code, a user approves the code,    *)
(* the device redeems the secret for a login.                              *)
(*                                                                         *)
(* QuickConnectStorage is one map that holds a copy of every session under *)
(* its secret and another under its code.  Every action is one critical    *)
(* section of its mutex.  Between two of them run the other requests, the  *)
(* cleanup task, the clock, and the sign-in upstream, which a redemption   *)
(* awaits between looking its session up and removing it.                  *)
(*                                                                         *)
(* The n-th session that is initiated has the secret n: secrets are Uuids, *)
(* sessions live equally long, so they expire in this order.               *)
(*                                                                         *)
(* As in SyncPlayGroup, a definition introduced as a "fault" is not part   *)
(* of the model: a named property must notice it in its neighbour's place. *)
(***************************************************************************)
EXTENDS Integers

CONSTANTS
  Code,         \* the codes generate_code draws from
  User,         \* users with a login
  Redeemer,     \* bound: redemptions in progress at a time
  MaxSessions,  \* bound: sessions that are ever initiated
  NoUser

ASSUME MaxSessionsAssumption == MaxSessions \in Nat
ASSUME CodeAssumption == Code \cap Nat = {}
ASSUME NoUserAssumption == NoUser \notin User

Secret == 1..MaxSessions

VARIABLES
  sessions,  \* the stored sessions, by secret and by code
  drawn,     \* how many sessions were initiated
  expired,   \* how many of them are expired by now
  storing,   \* how many Initiate handlers have stored their session, not cleaned up
  signing    \* the redemptions that await a sign-in

vars == <<sessions, drawn, expired, storing, signing>>

\* QuickConnectSession; authenticated and user_id are set together.
Session == [secret : Secret, code : Code, user : User \cup {NoUser}]

\* A redemption that does not run.
Idle == [secret |-> 0, user |-> NoUser]

Keys == DOMAIN sessions

Expired(x) == x.secret <= expired

\* The map without the given keys.
Without(keys) == [k \in Keys \ keys |-> sessions[k]]

Init ==
  /\ sessions = [k \in {} |-> {}]
  /\ drawn = 0
  /\ expired = 0
  /\ storing = 0
  /\ signing = [r \in Redeemer |-> Idle]

---------------------------------------------------------------------------
(* The storage *)

\* Codes that store_session accepts: no session that is not expired is stored
\* under them.
Free(c) == c \in Keys => Expired(sessions[c])

\* store_session, as the map it leaves: both copies of x are put in.
Stored(x) ==
  [k \in Keys \cup {x.secret, x.code} |-> IF k \in {x.secret, x.code} THEN x ELSE sessions[k]]

\* get_session drops an expired session it comes across, under either key.
Dropping(k) ==
  IF k \in Keys /\ Expired(sessions[k])
  THEN Without({sessions[k].secret, sessions[k].code})
  ELSE sessions

\* get_session finds a session: a code is not taken for a secret.
Found(k) == k \in Keys /\ ~Expired(sessions[k]) /\ sessions[k].secret = k

\* Fault, for ApprovalReachesDevice: only the copy under the code is updated.
ApprovedOnce(k, u) ==
  [sessions EXCEPT ![k] = [@ EXCEPT !.user = u]]

\* update_session_by_code of a session that is found under its code k.
Approved(k, u) == Stored([sessions[k] EXCEPT !.user = u])

\* Fault, for SignInsKept: the copy under the code is left.
RemovedSecret(s) == Without({s})

\* remove_session: both copies of the session with secret s.
Removed(s) ==
  IF s \in Keys /\ sessions[s].secret = s THEN Without({s, sessions[s].code}) ELSE sessions

ExpiredKeys == {k \in Keys : Expired(sessions[k])}

\* Fault, for ExpiredLeaves: codes are not cleaned up.
CleanedSecrets == Without({sessions[k].secret : k \in ExpiredKeys})

\* cleanup_expired: the secret and the code of every expired entry.
Cleaned ==
  Without({sessions[k].secret : k \in ExpiredKeys} \cup {sessions[k].code : k \in ExpiredKeys})

---------------------------------------------------------------------------
(* The handlers *)

\* QuickConnect/Initiate: the session is stored under a code that is free.
Initiate(c) ==
  /\ drawn < MaxSessions
  /\ Free(c)
  /\ drawn' = drawn + 1
  /\ sessions' = Stored([secret |-> drawn + 1, code |-> c, user |-> NoUser])
  /\ storing' = storing + 1
  /\ UNCHANGED <<expired, signing>>

\* The same handler's cleanup_expired, before it answers.
FinishInitiate ==
  /\ storing > 0
  /\ storing' = storing - 1
  /\ sessions' = Cleaned
  /\ UNCHANGED <<drawn, expired, signing>>

\* Ten minutes after the oldest session that has not expired was initiated.
Tick ==
  /\ expired < drawn
  /\ expired' = expired + 1
  /\ UNCHANGED <<sessions, drawn, storing, signing>>

\* cleanup_expired, by the task that runs every 60 s.
Cleanup ==
  /\ ExpiredKeys # {}
  /\ sessions' = Cleaned
  /\ UNCHANGED <<drawn, expired, storing, signing>>

\* QuickConnect/Connect with key k, which a poller may have from anywhere.
Poll(k) ==
  /\ sessions' = Dropping(k)
  /\ UNCHANGED <<drawn, expired, storing, signing>>

\* update_session_by_code, by QuickConnect/Authorize or in the web interface, with
\* whatever u typed as the code.  What is expired under k is dropped: the copy
\* under its secret and the one under k.
Approve(u, k) ==
  /\ k \in Keys
  /\ IF Expired(sessions[k])
     THEN sessions' = Without({sessions[k].secret, k})
     ELSE sessions[k].code = k /\ sessions' = Approved(k, u)
  /\ UNCHANGED <<drawn, expired, storing, signing>>

\* AuthenticateWithQuickConnect up to its sign-in.  A session that is not found or
\* not approved is looked up and refused, as by Poll.
BeginRedeem(r, s) ==
  /\ signing[r] = Idle
  /\ Found(s) /\ sessions[s].user # NoUser
  /\ signing' = [signing EXCEPT ![r] = [secret |-> s, user |-> sessions[s].user]]
  /\ UNCHANGED <<sessions, drawn, expired, storing>>

\* The sign-in has succeeded or failed: the session is used up either way.
EndRedeem(r) ==
  /\ signing[r] # Idle
  /\ sessions' = Removed(signing[r].secret)
  /\ signing' = [signing EXCEPT ![r] = Idle]
  /\ UNCHANGED <<drawn, expired, storing>>

\* The approving user is gone, or the device hung up: the session stays.
AbandonRedeem(r) ==
  /\ signing[r] # Idle
  /\ signing' = [signing EXCEPT ![r] = Idle]
  /\ UNCHANGED <<sessions, drawn, expired, storing>>

Next ==
  \/ \E c \in Code : Initiate(c)
  \/ FinishInitiate \/ Tick \/ Cleanup
  \/ \E k \in Secret \cup Code : Poll(k) \/ \E u \in User : Approve(u, k)
  \/ \E r \in Redeemer :
       EndRedeem(r) \/ AbandonRedeem(r) \/ \E s \in Secret : BeginRedeem(r, s)

Spec == Init /\ [][Next]_vars

\* The cleanup task wakes up every minute.
FairSpec == Spec /\ WF_vars(Cleanup)

---------------------------------------------------------------------------
(* Properties                                                              *)

\* The types of the state.
TypeOK ==
  /\ Keys \subseteq Secret \cup Code
  /\ sessions \in [Keys -> Session]
  /\ drawn \in 0..MaxSessions
  /\ expired \in 0..drawn
  /\ storing \in 0..drawn
  /\ signing \in [Redeemer -> [secret : Secret, user : User] \cup {Idle}]

\* An approval, which goes by the code, reaches the device, which polls and redeems
\* by the secret: as long as a session is not expired, what is stored under its
\* code is what is stored under its secret.
ApprovalReachesDevice ==
  \A c \in Code \cap Keys :
    LET x == sessions[c]
    IN  ~Expired(x) => x.secret \in Keys /\ sessions[x.secret] = x

\* The storage keeps every promise of SignIns, where a session that is stored under its
\* secret is a device that waits: an approval, which goes by the code, is one of the
\* device that shows it; a device that waits is not thrown out by what is removed or
\* overwritten under its code (store_session, cleanup_expired, remove_session of others),
\* and no late approval or second redemption puts a session back that is gone.
Waiting == [s \in Keys \cap Secret |-> [code |-> sessions[s].code, user |-> sessions[s].user]]

Devices == INSTANCE SignIns WITH waiting <- Waiting, asked <- drawn

SignInsKept == Devices!Spec

\* Nothing that is expired stays in memory, under whichever key it is stored.
ExpiredLeaves ==
  \A k \in Secret \cup Code :
    (k \in Keys /\ Expired(sessions[k])) ~> ~(k \in Keys /\ Expired(sessions[k]))

\* (The comment on store_session) the code stays unique across all live sessions.
LiveCodesUnique ==
  \A s, t \in Secret \cap Keys :
    ~Expired(sessions[s]) /\ ~Expired(sessions[t]) /\ sessions[s].code = sessions[t].code
      => s = t
=============================================================================
