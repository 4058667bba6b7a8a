---------------------------- MODULE NetworkCards ----------------------------
(***************************************************************************)
(* What a configuration says of the network cards and what each layer      *)
(* makes of it: the profiles written for the layer that owns the network   *)
(* (netplan.go, networkd.go, networkmanager.go of pkg/adapter/network),    *)
(* the direct ip commands (adapter.go), the comparison with the kernel,    *)
(* and the reading back of what a card has.                                *)
(*                                                                         *)
(* A configuration maps interface IDs to settings, or to Absent.  Of a     *)
(* card in the kernel: it exists, is up, its permanent addresses, whether  *)
(* it has a lease, and the gateway of its default route.  MTU, MAC address *)
(* and DNS servers are left out.                                           *)
(***************************************************************************)
EXTENDS Naturals, FiniteSets

CONSTANTS
    Absent,   \* not in the configuration; no profile
    NoAddr,   \* no IPv4 address given
    Leased,   \* the address a DHCP server hands out
    NoRoute,  \* no default route
    FromISP   \* the default route of a lease

Gone == [exists |-> FALSE, up |-> FALSE, perm |-> {}, lease |-> FALSE, route |-> NoRoute]

Ids(cfg) == { i \in DOMAIN cfg : cfg[i] # Absent }

isStatic(s) == s.type = "static" /\ s.ip # NoAddr

(* CarriesDefaultRoute: the WAN, or any card when no WAN is enabled. *)
CarriesDefaultRoute(s, cfg) ==
    \/ s.zone = "WAN"
    \/ \A i \in Ids(cfg) : ~(cfg[i].on /\ cfg[i].zone = "WAN")

(* renderInterfaceBody, renderNetworkdNetwork, nmSettingsFor: the gateway  *)
(* of a static card is written for the WAN only.                           *)
Rendered(s, cfg) ==
    [on |-> s.on, ip |-> IF isStatic(s) THEN s.ip ELSE NoAddr,
     route |-> CASE isStatic(s) /\ s.zone = "WAN" -> s.gw
                 [] ~isStatic(s) /\ CarriesDefaultRoute(s, cfg) -> FromISP
                 [] OTHER -> NoRoute]

(* interfaceConfigDiffers: neither the zone nor the gateway is compared. *)
interfaceConfigDiffers(a, b) ==
    \/ a.on # b.on
    \/ a.dev # b.dev
    \/ a.type # b.type
    \/ a.ip # b.ip

systemHasDefaultRoute(kern) == \E d \in DOMAIN kern : kern[d].route # NoRoute

(* MatchesSystemState that looks at the addresses only. *)
MatchesAddresses(s, cfg, kern) ==
    LET k == kern[s.dev] IN
    IF s.on
    THEN k.exists /\ k.up /\ IF isStatic(s) THEN s.ip \in k.perm ELSE k.lease
    ELSE ~k.up

(* MatchesSystemState *)
MatchesSystemState(s, cfg, kern) ==
    LET k == kern[s.dev] IN
    /\ k.exists => k.up = s.on
    /\ ~k.exists => ~s.on
    /\ s.on =>
        /\ k.route # NoRoute => CarriesDefaultRoute(s, cfg)
        /\ CarriesDefaultRoute(s, cfg) => systemHasDefaultRoute(kern)
        /\ IF isStatic(s) THEN s.ip \in k.perm /\ ~k.lease ELSE k.lease /\ k.perm = {}
-----------------------------------------------------------------------------
(* ip link set down takes the routes of a card with it. *)
Down(k) == [k EXCEPT !.up = FALSE, !.route = NoRoute]

(* The ip commands of ApplyInterfaceConfig: what a card may look like      *)
(* after them.  They do nothing to a physical card that is missing, and    *)
(* flushing the addresses may or may not take the default route along.     *)
ApplyInterfaceConfig(k, s, isVLAN) ==
    IF ~k.exists /\ ~isVLAN THEN {k}
    ELSE IF ~s.on THEN { Down([k EXCEPT !.exists = TRUE]) }
    ELSE LET here == [k EXCEPT !.exists = TRUE, !.up = TRUE] IN
         IF isStatic(s)
         THEN { [here EXCEPT !.perm = {s.ip}, !.lease = FALSE, !.route = r] : r \in {k.route, NoRoute} }
         ELSE IF s.type = "dhcp" THEN { [here EXCEPT !.perm = {}] }
         ELSE {here}

(* Any of them may fail, for an address that the kernel does not take, or  *)
(* since the helper has used up the time of the application (main.go:112): *)
(* without the VLAN none is run, and the addresses are cleared even if     *)
(* none can be added afterwards.                                           *)
Addressed(k, s) ==
    {k} \cup IF isStatic(s)
             THEN { [k EXCEPT !.perm = p, !.lease = FALSE, !.route = r] :
                      p \in {{}, {s.ip}}, r \in {k.route, NoRoute} }
             ELSE { [k EXCEPT !.perm = p] : p \in IF s.type = "dhcp" THEN {{}} ELSE {} }

ApplyFails(k, s, isVLAN) ==
    LET here == [k EXCEPT !.exists = TRUE] IN
    {k} \cup IF ~k.exists /\ ~isVLAN THEN {}
             ELSE IF ~s.on THEN {here}
             ELSE Addressed(here, s) \cup Addressed([here EXCEPT !.up = TRUE], s)

(* RemoveDefaultRoute *)
RemoveDefaultRoute(k) == [k EXCEPT !.route = NoRoute]

(* Engine.applyInterfaces: whatever the way, no default route via an       *)
(* internal card.                                                          *)
Cleared(k, s, cfg) ==
    IF s.on /\ ~CarriesDefaultRoute(s, cfg) THEN RemoveDefaultRoute(k) ELSE k

(* DeleteVLANInterface, DeconfigureInterface *)
Deconfigured(k, isVLAN) == IF isVLAN \/ ~k.exists THEN Gone
                           ELSE [k EXCEPT !.perm = {}, !.lease = FALSE, !.route = NoRoute]

(* nmcli connection up, which NetworkManager's Reconfigure uses, brings a  *)
(* card up even if its profile has autoconnect off.                        *)
Activated(p) == [p EXCEPT !.on = TRUE]

(* External: what the owner of the network makes of a card with profile p. *)
(* A DHCP server may or may not answer, and a route that the profile does  *)
(* not ask for may stay (engine.go:485).                                   *)
Configured(k, p) ==
    LET may(r) == IF r = NoRoute THEN {NoRoute, k.route} ELSE {r}
        up == [k EXCEPT !.exists = TRUE, !.up = TRUE, !.perm = {}, !.lease = FALSE]
    IN  IF ~p.on THEN { [Gone EXCEPT !.exists = TRUE] }
        ELSE IF p.ip # NoAddr THEN { [up EXCEPT !.perm = {p.ip}, !.route = r] : r \in may(p.route) }
        ELSE { [up EXCEPT !.lease = TRUE, !.route = r] : r \in may(p.route) }
             \cup { [up EXCEPT !.route = r] : r \in may(NoRoute) }

(* External: a card comes up after a boot.  Without a profile of the agent *)
(* a physical card is as the installation found it, or gets a lease from   *)
(* the catch-all (netplan.go:8), or nothing.                               *)
Booted(p, before, isVLAN) ==
    IF p # Absent THEN Configured(Gone, p)
    ELSE IF isVLAN THEN {Gone}
    ELSE { before, [Gone EXCEPT !.exists = TRUE],
           [Gone EXCEPT !.exists = TRUE, !.up = TRUE, !.lease = TRUE, !.route = FromISP] }
-----------------------------------------------------------------------------
(* AdoptSystemAddressing: with the lease first, or with a permanent        *)
(* address first, whichever the kernel lists first.                        *)
AdoptSystemAddressing(k) ==
    LET dhcp == [type |-> "dhcp", ip |-> NoAddr, gw |-> NoRoute] IN
    (IF k.lease \/ k.perm = {} THEN {dhcp} ELSE {})
      \cup { [type |-> "static", ip |-> a, gw |-> k.route] : a \in k.perm }

(* adoptSystemAddressing: the gateway is kept for the WAN only. *)
Adopted(dev, zone, k) ==
    { [dev |-> dev, zone |-> zone, on |-> TRUE, type |-> a.type, ip |-> a.ip,
       gw |-> IF zone = "WAN" THEN a.gw ELSE NoRoute] : a \in AdoptSystemAddressing(k) }

(* resolveSeedDevices: the card with the (first) default route, or, if it  *)
(* is excluded or there is none, the first physical one that is not.       *)
Picks(phys, kern, exclude) ==
    LET routed == { d \in phys : kern[d].route # NoRoute } IN
    (routed \ exclude)
      \cup (IF routed = {} \/ routed \cap exclude # {} THEN phys \ exclude ELSE {})

(* PopulateDynamicIPs: the configuration as a client reads it.  Of several *)
(* addresses the first is taken; which one is does not matter here.        *)
PopulateDynamicIPs(cfg, kern) ==
    [i \in DOMAIN cfg |->
        IF cfg[i] = Absent \/ isStatic(cfg[i]) THEN cfg[i]
        ELSE LET k == kern[cfg[i].dev]
                 addressed == IF k.lease THEN [cfg[i] EXCEPT !.ip = Leased]
                              ELSE IF k.perm # {} THEN [cfg[i] EXCEPT !.ip = CHOOSE a \in k.perm : TRUE]
                              ELSE cfg[i]
             IN  IF cfg[i].type = "dhcp" /\ cfg[i].zone = "WAN" /\ k.route # NoRoute
                 THEN [addressed EXCEPT !.gw = k.route] ELSE addressed]
=============================================================================
