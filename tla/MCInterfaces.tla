---------------------------- MODULE MCInterfaces ----------------------------
(* Instances of Interfaces: each backend, with what can go wrong of it. *)
EXTENDS Interfaces, TLC

Card(up, perm, lease, route) ==
    [exists |-> TRUE, up |-> up, perm |-> perm, lease |-> lease, route |-> route]
WithLease == Card(TRUE, {}, TRUE, FromISP)
WithAddress(a) == Card(TRUE, {a}, FALSE, NoRoute)
Idle == Card(FALSE, {}, FALSE, NoRoute)

Dhcp(dev, zone) ==
    [dev |-> dev, zone |-> zone, on |-> TRUE, type |-> "dhcp", ip |-> NoAddr, gw |-> NoRoute]
Static(dev, zone, a, g) == [Dhcp(dev, zone) EXCEPT !.type = "static", !.ip = a, !.gw = g]
Off(s) == [s EXCEPT !.on = FALSE]

Cfg(wan, lan) == ("wan" :> wan) @@ ("lan" :> lan)
CfgV(wan, lan, vlan) == Cfg(wan, lan) @@ ("vlan" :> vlan)

Wan == Dhcp("eth0", "WAN")
Lan == Static("eth1", "LAN", "a1", NoRoute)
Vlan == Static("eth1.9", "DMZ", "a2", NoRoute)

Base == [backend |-> "netplan", host |-> FALSE, phys |-> {"eth0", "eth1"}, vlans |-> {},
         ids |-> {"wan", "lan"}, zones |-> {"WAN", "LAN", "DMZ", "HOST"}, configs |-> {}, addrs |-> {"a1", "a2"}, gateways |-> {"g1"},
         found |-> {("eth0" :> WithLease) @@ ("eth1" :> WithAddress("a1"))},
         applies |-> 0, faults |-> 0, drifts |-> 0, renews |-> 0, reboots |-> 0, restarts |-> 0]

Backends == {"netplan", "networkd", "NetworkManager", "none"}

(* What an installation may find. *)
Founds == { ("eth0" :> a) @@ ("eth1" :> b) :
              a \in { WithLease, Card(TRUE, {"a1"}, FALSE, "g1"), Idle },
              b \in { WithLease, WithAddress("a2"), Idle, Card(TRUE, {"a2"}, TRUE, NoRoute) } }

Two == { Cfg(Wan, Lan), Cfg(Static("eth0", "WAN", "a2", "g1"), Lan), Cfg(Wan, Dhcp("eth1", "LAN")),
         Cfg(Dhcp("eth0", "LAN"), Dhcp("eth1", "WAN")), Cfg(Off(Wan), Lan) }

WithVlan == {("eth0" :> WithLease) @@ ("eth1" :> WithAddress("a1")) @@ ("eth1.9" :> Gone)}

Three == { CfgV(Wan, Lan, Vlan), CfgV(Wan, Lan, Off(Vlan)), CfgV(Wan, Lan, Absent),
           CfgV(Wan, Absent, Dhcp("eth1.9", "DMZ")), CfgV(Wan, Absent, Lan),
           CfgV(Wan, [Vlan EXCEPT !.zone = "LAN"], Absent) }

Host == { "host" :> s : s \in { Dhcp("eth0", "HOST"), Static("eth0", "HOST", "a1", NoRoute),
                                Static("eth1", "HOST", "a2", NoRoute) } }

MCScenarios ==
    { [Base EXCEPT !.backend = b, !.found = Founds, !.reboots = 1, !.restarts = 1] : b \in Backends }
    \cup
    { [Base EXCEPT !.backend = b, !.configs = Two, !.applies = 2, !.faults = 1, !.reboots = 1] : b \in Backends }
    \cup
    { [Base EXCEPT !.backend = b, !.configs = Three, !.applies = 2, !.faults = 1, !.restarts = 1,
                   !.vlans = {"eth1.9"}, !.ids = {"wan", "lan", "vlan"},
                   !.found = WithVlan]
        : b \in Backends }
    \cup
    { [Base EXCEPT !.backend = b, !.configs = Three, !.applies = 1, !.faults = 2,
                   !.vlans = {"eth1.9"}, !.ids = {"wan", "lan", "vlan"},
                   !.found = WithVlan]
        : b \in Backends }
    \cup
    { [Base EXCEPT !.backend = b, !.configs = Two, !.applies = 1, !.drifts = 1, !.renews = 1, !.restarts = 1]
        : b \in Backends }
    \cup
    { [Base EXCEPT !.backend = b, !.host = TRUE, !.ids = {"host"}, !.configs = Host,
                   !.found = { ("eth0" :> k) @@ ("eth1" :> Idle)
                                 : k \in { WithLease, Card(TRUE, {"a1"}, FALSE, "g1") } },
                   !.applies = 2, !.faults = 1, !.renews = 1, !.reboots = 1] : b \in Backends }

(* What the theorems about cards and profiles suppose. *)
ASSUME OneCardEach
=============================================================================
