--------------------------- MODULE FirewallConfig ---------------------------
(***************************************************************************)
(* A configuration as the packet filter reads it: what its names resolve   *)
(* to (pkg/adapter/nftables/adapter.go), and what the engine demands of it *)
(* before it is applied (ValidateCandidate, pkg/engine/engine.go).         *)
(*                                                                         *)
(* A configuration is a record with                                        *)
(*   mode       "gateway" or "host"                                        *)
(*   ifaces     a sequence of [id, dev, zone, on, dhcp, addr]              *)
(*   policies   a sequence of policies, in the administrator's order       *)
(*   objects    a sequence of [id, name, group, values]: addresses, or IDs *)
(*   ids        the object that IDS auto-block fills, "" for none          *)
(*   services   from service IDs to services; a string typed in a policy,  *)
(*              like "80,udp:53", is a service of kind "typed"             *)
(*   wireguard, openvpn, sni, dns, ntp, apiPort   what the box itself runs *)
(* Lists of prefixes are sets of addresses, a comma list of zones is a set *)
(* of zone names, and a port stands for a port or a range of ports.        *)
(***************************************************************************)
EXTENDS Naturals, Sequences, FiniteSets, FiniteSetsExt, SequencesExt

CONSTANTS
    Port,       \* the ports the instance tells apart
    NoDevice,   \* the device of an interface that has no card yet
    NoAddr,     \* an address that is not known, or not given
    NoNat       \* the NAT settings of a policy that has none

MaxPort == 65535

validPort(p) == p \in 1 .. MaxPort

(* A rule tells services apart by protocol and destination port.           *)
WholeProtocol == 0
AllServices == ({"tcp", "udp"} \X Port) \union {<<"icmp", WholeProtocol>>}

-----------------------------------------------------------------------------
(* Interfaces and zones *)

EnabledIfaces(c) == {c.ifaces[i] : i \in {j \in DOMAIN c.ifaces : c.ifaces[j].on}}

DevicesWhere(c, test(_)) ==
    {f.dev : f \in {g \in EnabledIfaces(c) : test(g)}} \ {NoDevice}

wanDevices(c) == DevicesWhere(c, LAMBDA f : f.zone = "WAN")

lanDevices(c) == DevicesWhere(c, LAMBDA f : f.zone # "WAN")

dhcpDevices(c) == DevicesWhere(c, LAMBDA f : f.zone # "WAN" /\ f.dhcp)

(* The address under which the box is known outside, if it is known.       *)
primaryWANAddress(c) ==
    LET known == {i \in DOMAIN c.ifaces :
                    /\ c.ifaces[i].on
                    /\ c.ifaces[i].zone = "WAN"
                    /\ c.ifaces[i].addr # NoAddr}
    IN  IF known = {} THEN NoAddr ELSE c.ifaces[Min(known)].addr

AnyZone(spec) == spec = {} \/ "ANY" \in spec

(* The devices that a list of zones names, two of them made up by the GUI. *)
ZoneDevices(c, spec) ==
    UNION {CASE z = "Any-External (WAN)" -> wanDevices(c)
             [] z = "Any-Trusted (LAN)"  -> lanDevices(c)
             [] OTHER -> DevicesWhere(c, LAMBDA f : f.zone = z) : z \in spec}

(* What a match contributes to a rule: nothing if any is TRUE, otherwise   *)
(* membership of set. A match with nothing in it must not be emitted,      *)
(* because a rule without a match matches everything.                      *)
Unrestricted == [any |-> TRUE, set |-> {}]
OneOf(S) == [any |-> FALSE, set |-> S]
Empty(match) == ~match.any /\ match.set = {}

zoneMatchExpr(c, spec) ==
    IF AnyZone(spec) THEN Unrestricted ELSE OneOf(ZoneDevices(c, spec))

(* Local policies are laid on internal devices only, whatever the zone.    *)
localPolicyDevices(c, spec) ==
    IF AnyZone(spec) THEN lanDevices(c) ELSE ZoneDevices(c, spec) \intersect lanDevices(c)

-----------------------------------------------------------------------------
(* Objects and services. Both may be groups of groups; what was visited is *)
(* not visited again, so that groups may contain each other.               *)

Visited(start, members(_), bound) ==
    LET after[n \in 0 .. bound] ==
          IF n = 0 THEN {start}
          ELSE after[n - 1] \union UNION {members(x) : x \in after[n - 1]}
    IN  after[bound]

ObjectIds(c) == {c.objects[i].id : i \in DOMAIN c.objects}

(* The first object with the ID.                                           *)
ObjectOf(c, id) ==
    c.objects[Min({i \in DOMAIN c.objects : c.objects[i].id = id})]

resolveObjectCIDRs(c, id) ==
    LET ids == ObjectIds(c)
        isGroup(x) == x \in ids /\ ObjectOf(c, x).group
        members(x) == IF isGroup(x) THEN ObjectOf(c, x).values ELSE {}
        reached == Visited(id, members, Cardinality(ids))
    IN  UNION {ObjectOf(c, x).values : x \in {y \in reached \intersect ids : ~isGroup(y)}}

objectMatchExpr(c, id) ==
    IF id \in {"", "ANY"} THEN Unrestricted ELSE OneOf(resolveObjectCIDRs(c, id))

(* A part of a typed service without a protocol takes that of the last     *)
(* part before it that has one, and tcp if there is none.                  *)
PartProto(parts) ==
    [i \in DOMAIN parts |->
       LET given == {j \in 1 .. i : parts[j].proto # ""}
       IN  IF given = {} THEN "tcp" ELSE parts[Max(given)].proto]

PortMatch(proto, p) ==
    IF p = WholeProtocol THEN {s \in AllServices : s[1] = proto} ELSE {<<proto, p>>}

(* serviceMatchExpr for a single part, parseMultiProtocolServiceSets for   *)
(* several: only the former knows icmp and protocols without a port.       *)
TypedService(parts) ==
    LET partOK(i) == IF Len(parts) = 1 /\ parts[i].proto # "" /\ parts[i].port = WholeProtocol
                     THEN TRUE
                     ELSE parts[i].proto # "icmp" /\ validPort(parts[i].port)
    IN  [ok   |-> parts # <<>> /\ \A i \in DOMAIN parts : partOK(i),
         sets |-> {PortMatch(PartProto(parts)[i], parts[i].port) : i \in DOMAIN parts}]

(* A service object: one match per port, for tcp unless it says otherwise, *)
(* or its whole protocol.                                                  *)
ServiceObject(svc) ==
    LET proto == IF svc.proto \in {"", "any"} THEN "tcp" ELSE svc.proto
    IN  IF svc.ports = {}
        THEN [ok   |-> TRUE,
              sets |-> {IF svc.proto \in {"", "any"} THEN AllServices
                                                     ELSE PortMatch(proto, WholeProtocol)}]
        ELSE [ok   |-> proto # "icmp" /\ \A p \in svc.ports : validPort(p),
              sets |-> {PortMatch(proto, p) : p \in svc.ports}]

(* The matches of a service, one rule for each, and whether all of it      *)
(* could be understood. A group with nothing in it has none and is OK.     *)
resolveServiceMatchExprSets(c, ref) ==
    LET ids == DOMAIN c.services
        isGroup(x) == x \in ids /\ c.services[x].kind = "group"
        members(x) == IF isGroup(x) THEN c.services[x].members ELSE {}
        leaf(x) == CASE x \in {"", "ANY"} -> [ok |-> TRUE, sets |-> {AllServices}]
                     [] x \notin ids \union {"", "ANY"} -> [ok |-> FALSE, sets |-> {}]
                     [] OTHER -> IF c.services[x].kind = "typed" THEN TypedService(c.services[x].parts)
                                 ELSE ServiceObject(c.services[x])
        leaves == {x \in Visited(ref, members, Cardinality(ids)) : ~isGroup(x)}
    IN  [ok   |-> \A x \in leaves : leaf(x).ok,
         sets |-> UNION {leaf(x).sets : x \in leaves}]

(* A schedule that is enabled and says nothing restricts to nothing, and   *)
(* is refused rather than left out.                                        *)
scheduleMatchExpr(sched) ==
    CASE sched = "none"  -> [ok |-> TRUE, when |-> BOOLEAN]
      [] sched = "hours" -> [ok |-> TRUE, when |-> {TRUE}]
      [] sched = "empty" -> [ok |-> FALSE, when |-> {}]

actionVerdictExpr(action) ==
    [ok |-> action \in {"accept", "drop", "reject"}, verdict |-> action]

-----------------------------------------------------------------------------
(* Remote access *)

(* OpenVPN behind a shared port listens on loopback only.                  *)
OpenVPNFrontedBySNI(c) == \E r \in c.sni : r.on /\ r.openvpn

NatProto(nat) == IF nat.proto = "" THEN "tcp" ELSE nat.proto

ActiveDNAT(c) ==
    {c.policies[i] : i \in {j \in DOMAIN c.policies :
        /\ c.policies[j].on
        /\ c.policies[j].action = "dnat"
        /\ c.policies[j].nat # NoNat}}

-----------------------------------------------------------------------------
(* Validation *)

MgmtAPIPolicyID == "sys-mgmt-api-lan"
VpnBlockPolicyID == "sys-vpn-autoblock-deny"

(* Only the first policy with the ID counts.                               *)
MgmtPolicyStands(c) ==
    LET mgmt == {i \in DOMAIN c.policies : c.policies[i].id = MgmtAPIPolicyID}
    IN  mgmt # {} /\ c.policies[Min(mgmt)].on

validatePolicyService(c, pol) == resolveServiceMatchExprSets(c, pol.service).ok

validatePolicySchedule(pol) == pol.sched # "empty"

validatePolicyNAT(pol) ==
    /\ pol.nat # NoNat
    /\ pol.nat.intIP # NoAddr
    /\ validPort(pol.nat.extPort) /\ validPort(pol.nat.intPort)
    /\ pol.nat.proto \in {"", "tcp", "udp"}

(* Deviation: an interface that is switched off counts.                    *)
ZoneOfAnyIface(c, spec) ==
    \/ AnyZone(spec)
    \/ \A z \in spec \ {"Any-External (WAN)", "Any-Trusted (LAN)"} :
          \E i \in DOMAIN c.ifaces : c.ifaces[i].zone = z

(* Every zone is one of the GUI's or that of an enabled interface.         *)
validatePolicyZone(c, spec) ==
    \/ AnyZone(spec)
    \/ \A z \in spec \ {"Any-External (WAN)", "Any-Trusted (LAN)"} :
          \E f \in EnabledIfaces(c) : f.zone = z

validatePolicies(c) ==
    /\ MgmtPolicyStands(c)
    /\ \A i \in DOMAIN c.policies :
          LET pol == c.policies[i] IN
          pol.on => /\ validatePolicyService(c, pol)
                    /\ validatePolicySchedule(pol)
                    /\ IF pol.action = "dnat" THEN validatePolicyNAT(pol)
                       ELSE pol.local \/ /\ validatePolicyZone(c, pol.srcZone)
                                         /\ validatePolicyZone(c, pol.dstZone)

(* A shared port is used once, and by nobody else on this box. A route has *)
(* a target, and OpenVPN can only be one if it runs over tcp.              *)
validateSNIRoutes(c) ==
    \A r \in {q \in c.sni : q.on} :
       /\ validPort(r.port)
       /\ \A q \in {s \in c.sni : s.on} : q.port = r.port => q = r
       /\ r.port # c.apiPort
       /\ \A pol \in ActiveDNAT(c) : pol.nat.extPort # r.port
       /\ r.servers # {} \/ r.openvpn
       /\ r.openvpn => c.openvpn.on /\ c.openvpn.proto = "tcp"

ValidateCandidate(c) ==
    /\ c.ifaces # <<>>
    /\ validatePolicies(c)
    /\ validateSNIRoutes(c)
=============================================================================
