-------------------------- MODULE ConfigMigration ---------------------------
(***************************************************************************)
(* The configuration an installation begins with, and what the store adds  *)
(* to a configuration of an earlier version when it loads it: the policies *)
(* that block addresses, their objects, and the policy for the GUI itself  *)
(* (pkg/store/store.go).                                                   *)
(***************************************************************************)
EXTENDS FirewallConfig

IpsBlockPolicyID == "sys-ips-autoblock-deny"
IpsObjectID == "obj-ips-autoblock"
IpsObjectName == "IPS - Auto block"
VpnObjectID == "obj-vpn-autoblock"
VpnObjectName == "VPN - Auto block"

(* A policy for forwarded traffic that restricts nothing.                  *)
AnyPolicy(id, action) ==
    [id |-> id, on |-> TRUE, local |-> FALSE, action |-> action,
     srcZone |-> {}, dstZone |-> {}, srcObj |-> "ANY", dstObj |-> "ANY",
     service |-> "ANY", sched |-> "none", nat |-> NoNat]

LocalPolicy(id, zone, service) ==
    [AnyPolicy(id, "accept") EXCEPT !.local = TRUE, !.srcZone = {zone}, !.dstZone = {"SELF"},
                                    !.service = service]

mgmtAPIPolicy(zone) == LocalPolicy(MgmtAPIPolicyID, zone, "ANY")

ipsAutoBlockDenyPolicy(object) ==
    [AnyPolicy(IpsBlockPolicyID, "drop") EXCEPT !.on = FALSE, !.srcObj = object]

vpnAutoBlockDenyPolicy == [AnyPolicy(VpnBlockPolicyID, "drop") EXCEPT !.srcObj = VpnObjectID]

BlockObject(id, name) == [id |-> id, name |-> name, group |-> FALSE, values |-> {}]

Iface(id, dev, zone) ==
    [id |-> id, dev |-> dev, zone |-> zone, on |-> TRUE, dhcp |-> FALSE, addr |-> NoAddr]

(* In host mode there is one card and one zone, and the local policies are *)
(* for that zone.                                                          *)
defaultSeedConfig(mode, hostDev, wanDev, lanDev, apiPort) ==
    LET zone == IF mode = "host" THEN "HOST" ELSE "LAN"
    IN  [mode      |-> mode,
         ifaces    |-> IF mode = "host" THEN <<Iface("host0", hostDev, "HOST")>>
                       ELSE <<Iface("wan0", wanDev, "WAN"), Iface("lan0", lanDev, "LAN")>>,
         policies  |-> <<LocalPolicy("sys-ssh-lan", zone, "22"), mgmtAPIPolicy(zone),
                         ipsAutoBlockDenyPolicy(IpsObjectID)>>,
         objects   |-> <<BlockObject(IpsObjectID, IpsObjectName)>>,
         services  |-> [id \in {"22"} |-> [kind |-> "typed", parts |-> <<[proto |-> "", port |-> 22]>>]],
         ids       |-> "",
         wireguard |-> [on |-> FALSE, port |-> 0],
         openvpn   |-> [on |-> FALSE, port |-> 0, proto |-> ""],
         sni |-> {}, dns |-> FALSE, ntp |-> FALSE, apiPort |-> apiPort]

-----------------------------------------------------------------------------
(* Migrations *)

Positions(c, id) == {i \in DOMAIN c.policies : c.policies[i].id = id}

(* The object of IDS auto-block: the one it writes to, or one of that name,*)
(* or a new one.                                                           *)
CanonicalObject(c) ==
    LET named == {i \in DOMAIN c.objects : c.objects[i].name = IpsObjectName}
    IN  IF c.ids \in ObjectIds(c) THEN c.ids
        ELSE IF named # {} THEN c.objects[Min(named)].id
        ELSE IpsObjectID

HasCanonicalObject(c) ==
    \/ c.ids \in ObjectIds(c)
    \/ \E i \in DOMAIN c.objects : c.objects[i].name = IpsObjectName

Referenced(c) ==
    {c.ids} \union UNION {{c.policies[i].srcObj, c.policies[i].dstObj} : i \in DOMAIN c.policies}

Objects(c) == {c.objects[i] : i \in DOMAIN c.objects}

(* The elements of a sequence that are in a set, in their order.           *)
Selected(s, S) ==
    LET upTo[n \in 0 .. Len(s)] ==
          IF n = 0 THEN <<>>
          ELSE IF s[n] \in S THEN Append(upTo[n - 1], s[n]) ELSE upTo[n - 1]
    IN  upTo[Len(s)]

(* Duplicates of the object that an earlier migration left behind go, if   *)
(* they are empty and nothing refers to them.                              *)
(* Deviation: filled or in use, they go as well.                           *)
WithoutAnyDuplicates(c, canonical) ==
    [c EXCEPT !.objects =
        Selected(@, {o \in Objects(c) : o.name # IpsObjectName \/ o.id = canonical})]

StaysObject(c, canonical, o) ==
    \/ o.name # IpsObjectName
    \/ o.id = canonical
    \/ o.values # {}
    \/ o.id \in Referenced(c)

WithoutDuplicates(c, canonical) ==
    [c EXCEPT !.objects = Selected(@, {o \in Objects(c) : StaysObject(c, canonical, o)})]

WithIpsObject(c) ==
    IF HasCanonicalObject(c) THEN c
    ELSE [c EXCEPT !.objects = Append(@, BlockObject(IpsObjectID, IpsObjectName))]

(* The deny policy refers to the object, and not to all zones besides.     *)
WithIpsPolicy(c, canonical) ==
    LET deny == Positions(c, IpsBlockPolicyID)
    IN  IF deny = {} THEN [c EXCEPT !.policies = <<ipsAutoBlockDenyPolicy(canonical)>> \o @]
        ELSE [c EXCEPT !.policies[Min(deny)].srcObj = canonical,
                       !.policies[Min(deny)].srcZone = IF @ = {"ANY"} THEN {} ELSE @]

ensureDefaultAutoBlock(c) ==
    LET canonical == CanonicalObject(c)
    IN  WithoutDuplicates(WithIpsPolicy(WithIpsObject(c), canonical), canonical)

HasVpnObject(c) == \E o \in Objects(c) : o.id = VpnObjectID \/ o.name = VpnObjectName

WithVpnObject(c) ==
    IF HasVpnObject(c) THEN c
    ELSE [c EXCEPT !.objects = Append(@, BlockObject(VpnObjectID, VpnObjectName))]

WithVpnPolicy(c) ==
    LET deny == Positions(c, VpnBlockPolicyID)
    IN  IF deny = {} THEN [c EXCEPT !.policies = <<vpnAutoBlockDenyPolicy>> \o @]
        ELSE [c EXCEPT !.policies[Min(deny)].srcObj = VpnObjectID]

ensureDefaultVPNAutoBlock(c) == WithVpnPolicy(WithVpnObject(c))

(* The policy for the GUI goes last, so as not to decide for any other.    *)
ensureDefaultMgmtAPIPolicy(c) ==
    IF Positions(c, MgmtAPIPolicyID) # {} THEN c
    ELSE [c EXCEPT !.policies = Append(@, mgmtAPIPolicy(IF c.mode = "host" THEN "HOST" ELSE "LAN"))]

Migrated(c) ==
    ensureDefaultMgmtAPIPolicy(ensureDefaultVPNAutoBlock(ensureDefaultAutoBlock(c)))
=============================================================================
