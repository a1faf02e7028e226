----------------------------- MODULE MCGateway ------------------------------
(***************************************************************************)
(* Small gateways for TLC.  A byte has four values, so a word has sixteen, *)
(* and a digit of 2 or 3 is a negative char: the ids 4 and 5 survive the   *)
(* wire, 7 does not.  The table has two slots; 4 goes to slot 0 and 5 and  *)
(* 7 to slot 1 unless the slot is taken.                                   *)
(***************************************************************************)
EXTENDS GatewayProps, TLC

Once == [i \in Ids |-> 1]
Twice == [i \in Ids |-> 2]
SevenThrice == [i \in Ids |-> IF i = 7 THEN 3 ELSE 1]
SevenOnce == [i \in Ids |-> IF i = 7 THEN 1 ELSE 0]
FiveOnce == [i \in Ids |-> IF i = 5 THEN 1 ELSE 0]

Hs(devs) == [kind : {"handshake"}, dev : devs]
To(ids) == [kind : {"message"}, to : {WriteBlock(i) : i \in ids}]

\* More connections than the table holds, all of which may claim to be the
\* server.
Newcomers ==
    (4 :> Hs({"S"}))
    @@ (5 :> Hs({"S"}))
    @@ (7 :> Hs({"S", "unknown"}))

\* Two connections, one of which talks.  Both may be the server, so that one
\* may be refused; the one that comes second sits in slot 0, and 7 is not
\* readable.
Talkers ==
    (5 :> Hs({"S"}))
    @@ (7 :> Hs({"S", "C", "D"}) \cup To({5, 7}))

\* A client in slot 0 and a server that writes to it.
ClientInSlotZero == (4 :> Hs({"C"})) @@ (5 :> Hs({"S"}) \cup To({4}))

\* A client that sends several packets at once.
Hasty == (4 :> Hs({"S"})) @@ (5 :> Hs({"C"}) \cup To({4}))
=============================================================================
