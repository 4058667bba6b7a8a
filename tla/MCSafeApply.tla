---------------------------- MODULE MCSafeApply ----------------------------
(***************************************************************************)
(* Instances of SafeApply for TLC.  Three valid configurations: "a" is     *)
(* the seed; "b" changes the address of the LAN interface, adds a VLAN and *)
(* a static route; "c" has the LAN address of the seed and moves the       *)
(* static route to another gateway.  "x" does not validate.                *)
(***************************************************************************)
EXTENDS SafeApply

MCKeyOf == [s \in {"s1", "s2"} |-> s]

MCIfcOf ==
  [c \in Cfgs |->
     CASE c = "a" -> [i \in Ifaces |-> IF i = "lan" THEN "s1" ELSE Absent]
       [] c = "b" -> [i \in Ifaces |-> IF i = "lan" THEN "s2" ELSE "s1"]
       [] c = "c" -> [i \in Ifaces |-> IF i = "lan" THEN "s1" ELSE Absent]
       [] OTHER   -> [i \in Ifaces |-> "s2"]]

Route(g) == [id |-> "r", net |-> "n", gw |-> g, on |-> TRUE]

MCRoutesOf ==
  [c \in Cfgs |->
     CASE c = "b" -> {Route("g1")}
       [] c = "c" -> {Route("g2")}
       [] OTHER   -> {}]

(* The route has another ID in "c", so that it is a new one there.         *)
RenamedRoute ==
  [MCRoutesOf EXCEPT !["c"] = {[Route("g1") EXCEPT !.id = "q"]}]

(* For the run that asks about timers, files and restarts only.            *)
NoRoutesOf == [c \in Cfgs |-> {}]
=============================================================================
