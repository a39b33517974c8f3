----------------------------- MODULE MCServing -----------------------------
(* Upgrades of small databases, and requests to two servers. *)
EXTENDS Serving, TLC

CONSTANTS bob, eve, x, y, d1, i1, i2, agg, lib

\* Two users of one name and one of another.
Names == (1 :> bob) @@ (2 :> bob) @@ (3 :> eve)
MCNameOf == Names

U(host, form) == [host |-> host, form |-> form]
Empty == <<>>
Tables(S, Row) == UNION {[T -> Row] : T \in SUBSET S}

Urls == {U(x, "plain"), U(x, "slashed"), U(x, "other"), U(y, "plain")}

\* Mappings and sessions of users on one device.
People ==
  [users : {User}, servers : Tables({1, 2}, {U(x, "plain"), U(x, "other")}), admins : {Empty},
   mappings : Tables({1, 2, 3}, [user : User, url : {U(x, "plain"), U(x, "other")},
                                 server : {NoServer}]),
   sessions : Tables({1, 2}, [user : User, mapping : {1, 2, 3}, device : Device, used : Time]),
   media : {Empty}]

\* Media, and accounts of administrators.
Content ==
  [users : {{}}, servers : Tables({1, 2}, Urls), admins : Tables({1, 2}, {1, 2}),
   mappings : {Empty}, sessions : {Empty},
   media : Tables({1, 2}, [item : {i1}, url : Urls, server : {NoServer}])]

\* Two servers with an item each: bob has accounts on both, eve on the first one.
Account(u, s) == [user |-> u, url |-> U(IF s = 1 THEN x ELSE y, "plain"), server |-> s]
Signed(u, m) == [user |-> u, mapping |-> m, device |-> d1, used |-> 1]
Served ==
  [users |-> {1, 3}, servers |-> <<U(x, "plain"), U(y, "plain")>>, admins |-> Empty,
   mappings |-> <<Account(1, 1), Account(1, 2), Account(3, 1)>>,
   sessions |-> <<Signed(1, 1), Signed(1, 2), Signed(3, 3)>>,
   media |-> <<[item |-> i1, url |-> U(x, "plain"), server |-> 1],
               [item |-> i1, url |-> U(y, "plain"), server |-> 2]>>]

\* What requests ask: of users, of nobody, and of a user that only the body names.
Plain == [kind |-> "plain", user |-> 1, signed |-> TRUE, devices |-> {d1}, path |-> Blank,
          query |-> <<>>, source |-> Blank, list |-> {}, item |-> Blank, about |-> Nobody,
          plays |-> FALSE]
Asks ==
  {[Plain EXCEPT !.user = 3, !.path = 2]}
    \cup {[Plain EXCEPT !.user = Nobody, !.signed = FALSE, !.path = v] : v \in {2, Blank}}
    \cup {[Plain EXCEPT !.path = agg, !.source = 2],
          [Plain EXCEPT !.path = lib, !.query = <<1>>, !.about = 3],
          [Plain EXCEPT !.item = agg, !.list = {1, 2}, !.plays = TRUE],
          [Plain EXCEPT !.kind = "playlist", !.path = agg, !.query = <<2>>],
          [Plain EXCEPT !.kind = "report", !.item = agg, !.plays = TRUE]}
    \cup {[Plain EXCEPT !.kind = "report", !.item = 1, !.source = v, !.plays = TRUE] : v \in {1, 2}}

MCAsk == Asks

Requests == Permutations(Request)

\* Old databases are only upgraded; and a proxy serves that has found its servers healthy
\* and has shown both items.
InitSmall ==
  /\ byId = Empty /\ byItem = Empty
  /\ \/ /\ db \in People \cup Content /\ Legacy(db)
        /\ process = "down" /\ healthy = {}
        /\ migrated = 0 /\ events = MaxEvents /\ issued = 3
        /\ priority = [s \in Id |-> 1]
        /\ members = [p \in Aggregate \cup Library |-> {}]
        /\ requests = [r \in Request |-> Over]
        /\ shown = {}
     \/ /\ db = Served
        /\ process = "serving" /\ healthy = {1, 2}
        /\ migrated = 2 /\ events = 0 /\ issued = 2
        /\ priority = [s \in Id |-> 1]
        /\ members = [p \in Aggregate \cup Library |-> {1, 2}]
        /\ requests = [r \in Request |-> New]
        /\ shown = {[item |-> i1, server |-> s, id |-> s] : s \in {1, 2}}
  /\ was = db
SpecSmall == InitSmall /\ [][ServeNext]_allVars
=============================================================================
