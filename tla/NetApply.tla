------------------------------ MODULE NetApply ------------------------------
(***************************************************************************)
(* What one application of a configuration does to the interfaces and the  *)
(* static routes of the machine: Engine.applyInterfaces and                *)
(* Engine.applyStaticRoutes (pkg/engine/engine.go) with the adapter calls  *)
(* they make (pkg/adapter/network/adapter.go), as functions from the state *)
(* of the kernel to the state of the kernel.                               *)
(*                                                                         *)
(* An interface is its ID in the configuration; what the configuration     *)
(* (or the kernel) says of it is a Setting, or Absent.  KeyOf is the part  *)
(* of a setting that the code compares when it asks whether an interface   *)
(* has to be touched.  A kernel routing table maps a destination to a      *)
(* gateway, or to NoGateway.                                               *)
(***************************************************************************)
EXTENDS Naturals, FiniteSets

CONSTANTS
  Ifaces,    \* interface IDs
  Vlans,     \* those of them that are VLAN subinterfaces
  Settings,  \* what can be configured on an interface
  Absent,    \* not configured / the device does not exist
  KeyOf,     \* [Settings -> compared part of the setting]
  RouteIds,  \* IDs of static routes
  Dests,     \* destination networks
  Gateways,
  NoGateway  \* no route to a destination

ASSUME NetConstants ==
  /\ Vlans \subseteq Ifaces
  /\ Absent \notin Settings
  /\ DOMAIN KeyOf = Settings
  /\ NoGateway \notin Gateways

(* The interface list and the route list of a configuration.               *)
IfaceTable == [Ifaces -> Settings \cup {Absent}]
StaticRoute == [id : RouteIds, net : Dests, gw : Gateways, on : BOOLEAN]
RouteTable == [Dests -> Gateways \cup {NoGateway}]

(* No earlier configuration to compare with: prevCfg == nil (boot).        *)
NoIfaces == [i \in Ifaces |-> Absent]

-----------------------------------------------------------------------------
(* interfaceConfigDiffers                                                  *)
InterfaceConfigDiffers(a, b) == KeyOf[a] # KeyOf[b]

(* MatchesSystemState: link state, addresses and default route agree.      *)
MatchesSystemState(kern, s) == kern # Absent /\ KeyOf[kern] = KeyOf[s]

(* The first pass of applyInterfaces: the interfaces that must be touched. *)
Touched(new, prev, kern) ==
  {i \in Ifaces :
     /\ new[i] # Absent
     /\ \/ prev[i] # Absent /\ InterfaceConfigDiffers(prev[i], new[i])
        \/ prev[i] = Absent /\ ~MatchesSystemState(kern[i], new[i])
        \/ i \in Vlans /\ kern[i] = Absent}

(* The interfaces of prev that new no longer has: torn down or flushed.    *)
Removed(new, prev) == {i \in Ifaces : prev[i] # Absent /\ new[i] = Absent}

(* applyInterfaces: touched interfaces take their new setting, removed     *)
(* ones are taken away, the rest is left exactly as it is.                 *)
ApplyInterfaces(new, prev, kern) ==
  [i \in Ifaces |->
     IF i \in Touched(new, prev, kern) THEN new[i]
     ELSE IF i \in Removed(new, prev) THEN Absent
     ELSE kern[i]]

-----------------------------------------------------------------------------
(* The enabled routes of a list (two of them never share a destination:    *)
(* validateStaticRoutes).                                                  *)
Enabled(routes) == {r \in routes : r.on}

UniqueDests(routes) ==
  \A r, s \in Enabled(routes) : r.net = s.net => r = s

(* ApplyStaticRoute: `ip route replace` of every enabled route.            *)
ReplaceRoutes(new, kern) ==
  [d \in Dests |->
     IF \E r \in Enabled(new) : r.net = d
     THEN (CHOOSE r \in Enabled(new) : r.net = d).gw
     ELSE kern[d]]

(* The routes of prev whose ID is gone, disabled or moved to another       *)
(* network in new.                                                         *)
Withdrawn(new, prev) ==
  {p \in prev : ~\E r \in Enabled(new) : r.id = p.id /\ r.net = p.net}

(* DeleteStaticRoute: `ip route del NET via GW` takes away a route with    *)
(* that network and that gateway, whoever asked for it.                    *)
DeleteRoutes(gone, kern) ==
  [d \in Dests |->
     IF \E p \in gone : p.net = d /\ p.gw = kern[d] THEN NoGateway ELSE kern[d]]

(* applyStaticRoutes: the enabled routes first, the deletions after them.  *)
ApplyStaticRoutes(new, prev, kern) ==
  DeleteRoutes(Withdrawn(new, prev), ReplaceRoutes(new, kern))

(* The table a configuration describes.                                    *)
TableOf(routes) == ReplaceRoutes(routes, [d \in Dests |-> NoGateway])
=============================================================================
