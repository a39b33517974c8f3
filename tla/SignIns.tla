------------------------------- MODULE SignIns -------------------------------
(***************************************************************************)
(* What Quick Connect promises a device that asks to be signed in          *)
(* (handlers/quick_connect.rs).  It is given a secret and a code to show;  *)
(* whoever knows the code may sign it in until its time is up.  It waits   *)
(* until it is signed in, or refused, as the user who approved it, or      *)
(* until its time is up, whatever happens to other devices and codes.      *)
(* Then its secret is worth nothing for ever.                              *)
(*                                                                         *)
(* Nothing is promised of codes: that two devices never show the same one  *)
(* is not true of the code.                                                *)
(***************************************************************************)
EXTENDS Integers

CONSTANTS
  Code,      \* the codes that devices show
  User,      \* users with a login
  Redeemer,  \* places of requests to be signed in
  NoUser

VARIABLES
  waiting,  \* by its secret: a device's code and who approved it
  asked,    \* the secrets 1..asked were given out
  expired,  \* the time of the secrets 1..expired is up
  signing   \* the devices that are being signed in, and as whom

Idle == [secret |-> 0, user |-> NoUser]

Init ==
  /\ waiting = [s \in {} |-> {}]
  /\ asked = 0
  /\ expired = 0
  /\ signing = [r \in Redeemer |-> Idle]

\* A device is given a secret nobody had, and a code.
Ask(c) ==
  /\ asked' = asked + 1
  /\ waiting' = [s \in DOMAIN waiting \cup {asked + 1} |->
                   IF s = asked + 1 THEN [code |-> c, user |-> NoUser] ELSE waiting[s]]
  /\ UNCHANGED <<expired, signing>>

\* u approves one device that shows the code c, in time.
Approve(u, c) ==
  /\ \E s \in DOMAIN waiting :
       /\ s > expired /\ waiting[s].code = c
       /\ waiting' = [waiting EXCEPT ![s].user = u]
  /\ UNCHANGED <<asked, expired, signing>>

\* Devices whose time is up are forgotten, sooner or later.
Forget ==
  /\ \E late \in SUBSET (DOMAIN waiting \cap 1..expired) :
       waiting' = [s \in DOMAIN waiting \ late |-> waiting[s]]
  /\ UNCHANGED <<asked, expired, signing>>

\* A device that was approved is signed in as the user who approved it.
Begin(r, s) ==
  /\ signing[r] = Idle
  /\ s \in DOMAIN waiting /\ s > expired /\ waiting[s].user # NoUser
  /\ signing' = [signing EXCEPT ![r] = [secret |-> s, user |-> waiting[s].user]]
  /\ UNCHANGED <<waiting, asked, expired>>

\* It is signed in or refused, and its secret is used up.
End(r) ==
  /\ signing[r] # Idle
  /\ waiting' = [s \in DOMAIN waiting \ {signing[r].secret} |-> waiting[s]]
  /\ signing' = [signing EXCEPT ![r] = Idle]
  /\ UNCHANGED <<asked, expired>>

\* The attempt comes to nothing, and the device may try again.
Abandon(r) ==
  /\ signing[r] # Idle
  /\ signing' = [signing EXCEPT ![r] = Idle]
  /\ UNCHANGED <<waiting, asked, expired>>

\* The oldest device's time is up.
TimeUp ==
  /\ expired < asked
  /\ expired' = expired + 1
  /\ UNCHANGED <<waiting, asked, signing>>

Next ==
  \/ \E c \in Code : Ask(c) \/ \E u \in User : Approve(u, c)
  \/ \E r \in Redeemer : End(r) \/ Abandon(r) \/ \E s \in DOMAIN waiting : Begin(r, s)
  \/ Forget \/ TimeUp

Spec == Init /\ [][Next]_<<waiting, asked, expired, signing>>
=============================================================================
