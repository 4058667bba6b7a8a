---------------------------- MODULE PacketFilter ----------------------------
(***************************************************************************)
(* The rule set that RenderJSON (pkg/adapter/nftables/adapter.go) makes of *)
(* a configuration, and what the kernel does with a packet under it, while *)
(* an administrator changes the configuration and background jobs refresh  *)
(* its objects.                                                            *)
(*                                                                         *)
(* A chain is a sequence of rules, the first that matches decides. A rule  *)
(* is a record of sets: the values of a packet it matches. The code emits  *)
(* one rule per device and per service match; here they are one rule,      *)
(* because they differ in nothing else and stand next to each other.       *)
(***************************************************************************)
EXTENDS ConfigMigration

CONSTANTS
    Addr,             \* addresses: the box's own, and those of hosts
    SelfAddr,         \* the box's own
    Device,           \* network cards
    Home,             \* the card behind which a host is
    Packets,          \* packets that arrive, see Packet
    Policies,         \* policies an administrator may add, or replace others with
    MaxPolicies,      \* bound on their number
    Ifaces,           \* what an administrator may make of an interface
    Features,         \* services the box may run
    Contents,         \* what an object may be refreshed to
    Backups,          \* configurations of earlier versions
    Seed,             \* the configuration the installation begins with
    MaxChanges        \* bound on the changes made to what was last loaded

VARIABLES
    cfg,      \* the configuration in force
    hours,    \* whether it is within the hours of schedules
    changes   \* how often it was changed since it was loaded

vars == <<cfg, hours, changes>>

Hosts == Addr \ SelfAddr

Packet == [in: Device, src: Hosts, dst: Addr, svc: AllServices,
           est: BOOLEAN,      \* belongs to a connection that is tracked
           flood: BOOLEAN]    \* its source sends more than a meter allows

(* The parts of a configuration that the packet filter reads.              *)
IfaceType ==
    [id: STRING, dev: Device \union {NoDevice}, zone: STRING,
     on: BOOLEAN, dhcp: BOOLEAN, addr: SelfAddr \union {NoAddr}]

NatType ==
    [extIP: Addr \union {NoAddr}, proto: STRING, extPort: Nat,
     intIP: Addr, intPort: Port \union {0}]

(* What a policy calls objects, services and zones by is not restricted.   *)
IsPolicy(pol) ==
    /\ pol = [part \in {"id", "on", "local", "action", "srcZone", "dstZone", "srcObj", "dstObj",
                        "service", "sched", "nat"} |-> pol[part]]
    /\ pol.on \in BOOLEAN /\ pol.local \in BOOLEAN
    /\ pol.sched \in {"none", "hours", "empty"}
    /\ pol.nat \in NatType \union {NoNat}

IsObject(o) ==
    /\ o = [part \in {"id", "name", "group", "values"} |-> o[part]]
    /\ o.group \in BOOLEAN

WireGuardType == [on: BOOLEAN, port: Port \union {0}]
OpenVPNType == [on: BOOLEAN, port: Port \union {0}, proto: {"", "tcp", "udp"}]

Protocols == {"tcp", "udp", "icmp"}

IsService(svc) ==
    \/ svc.kind = "group"
    \/ /\ svc.kind = "typed"
       /\ svc.parts \in Seq([proto: Protocols \union {""}, port: Nat])
    \/ /\ svc.kind = "object"
       /\ svc.proto \in Protocols \union {"", "any"}
       /\ svc.ports \subseteq Nat

IsConfig(c) ==
    /\ c = [part \in {"mode", "ifaces", "policies", "objects", "ids", "services", "wireguard",
                      "openvpn", "sni", "dns", "ntp", "apiPort"} |-> c[part]]
    /\ c.mode \in {"gateway", "host"}
    /\ c.ifaces \in Seq(IfaceType)
    /\ c.policies \in Seq({c.policies[i] : i \in DOMAIN c.policies})
    /\ \A i \in DOMAIN c.policies : IsPolicy(c.policies[i])
    /\ c.objects \in Seq(Objects(c))
    /\ \A o \in Objects(c) : IsObject(o)
    /\ \A id \in DOMAIN c.services : IsService(c.services[id])
    /\ c.wireguard \in WireGuardType /\ c.openvpn \in OpenVPNType

ASSUME PacketFilterConstants ==
    /\ SelfAddr \subseteq Addr /\ SelfAddr # {}
    /\ Port \subseteq 1 .. MaxPort /\ Port # {}
    /\ Home \in [Hosts -> Device]
    /\ NoDevice \notin Device /\ {"lo", "self"} \intersect Device = {}
    /\ {NoAddr, "masquerade", "unchanged"} \intersect Addr = {} /\ NoNat \notin NatType
    /\ Packets \subseteq {p \in Packet : Home[p.src] = p.in /\ p.src # p.dst}
    /\ MaxChanges \in Nat
    /\ Ifaces \subseteq IfaceType /\ \A pol \in Policies : IsPolicy(pol)
    /\ \A f \in Features : f.wireguard \in WireGuardType /\ f.openvpn \in OpenVPNType
    /\ \A c \in Backups \union {Seed} : IsConfig(c)
    /\ ValidateCandidate(Seed)

-----------------------------------------------------------------------------
(* Rules *)

AllDevices == Device \union {"lo", "self"}

(* A rule with no match but its verdict.                                   *)
Always(verdict) ==
    [in |-> AllDevices, out |-> AllDevices, src |-> Addr, dst |-> Addr,
     svc |-> AllServices, when |-> BOOLEAN, est |-> BOOLEAN, dnat |-> BOOLEAN,
     flood |-> BOOLEAN, verdict |-> verdict]

(* What a match with no expression leaves of All: all of it.               *)
Within(match, All) == IF match.set = {} THEN All ELSE match.set

Matches(rule, p) ==
    /\ p.in \in rule.in /\ p.out \in rule.out
    /\ p.src \in rule.src /\ p.dst \in rule.dst /\ p.svc \in rule.svc
    /\ p.now \in rule.when /\ p.est \in rule.est /\ p.dnat \in rule.dnat
    /\ p.flood \in rule.flood

FirstMatch(chain, p, policy) ==
    LET hits == {i \in DOMAIN chain : Matches(chain[i], p)}
    IN  IF hits = {} THEN policy ELSE chain[Min(hits)].verdict

(* The rules made of the policies that pass test, in their order. A policy *)
(* that renders none stands as one that matches nothing, so that a rule    *)
(* has the place of its policy.                                            *)
Nothing == [Always("drop") EXCEPT !.in = {}]

RulesOf(c, test(_), rule(_)) ==
    [i \in DOMAIN c.policies |->
       IF test(c.policies[i]) THEN rule(c.policies[i]) ELSE Nothing]

Established(verdict) == <<[Always(verdict) EXCEPT !.est = {TRUE}]>>

(* The early drop of addresses that VPN auto-block collected.              *)
VpnBlock(c) ==
    LET block == {i \in DOMAIN c.policies :
                    c.policies[i].id = VpnBlockPolicyID /\ c.policies[i].on}
        match == objectMatchExpr(c, c.policies[Min(block)].srcObj)
    IN  IF block = {} \/ match.set = {} THEN <<>>
        ELSE <<[Always("drop") EXCEPT !.src = match.set]>>

(* A port on some devices, behind a limit per source.                      *)
Metered(devices, service) ==
    <<[Always("drop") EXCEPT !.in = devices, !.svc = {service}, !.flood = {TRUE}],
      [Always("accept") EXCEPT !.in = devices, !.svc = {service}]>>

WireGuard(c) ==
    IF c.wireguard.on /\ c.wireguard.port > 0
    THEN Metered(wanDevices(c), <<"udp", c.wireguard.port>>) ELSE <<>>

OpenVPN(c) ==
    IF c.openvpn.on /\ c.openvpn.port > 0 /\ ~OpenVPNFrontedBySNI(c)
    THEN Metered(wanDevices(c),
                 <<IF c.openvpn.proto = "" THEN "udp" ELSE c.openvpn.proto, c.openvpn.port>>)
    ELSE <<>>

(* Ports that HAProxy shares out by name, inside or outside.               *)
SniPorts(c, devices) ==
    <<[Always("accept") EXCEPT !.in = devices,
         !.svc = {<<"tcp", r.port>> : r \in {q \in c.sni : q.on /\ validPort(q.port)}}]>>

HardWanDrop(c) == <<[Always("drop") EXCEPT !.in = wanDevices(c)]>>

(* A local policy says who may reach the box itself. One without an action *)
(* accepts, and the GUI's port is that of the settings.                    *)
LocalAction(pol) == IF pol.action = "" THEN "accept" ELSE pol.action

LocalService(c, pol) ==
    IF pol.id = MgmtAPIPolicyID THEN [ok |-> TRUE, sets |-> {{<<"tcp", c.apiPort>>}}]
    ELSE resolveServiceMatchExprSets(c, pol.service)

RendersLocally(c, pol) ==
    /\ pol.local /\ pol.on
    /\ actionVerdictExpr(LocalAction(pol)).ok
    /\ LocalService(c, pol).ok
    /\ scheduleMatchExpr(pol.sched).ok
    /\ ~Empty(objectMatchExpr(c, pol.srcObj))

(* Deviation: the source object is not read (the code before 2026-08-26).  *)
LocalRuleForAll(c, pol) ==
    [Always(LocalAction(pol)) EXCEPT
       !.in   = localPolicyDevices(c, pol.srcZone),
       !.when = scheduleMatchExpr(pol.sched).when,
       !.svc  = UNION LocalService(c, pol).sets]

LocalRule(c, pol) ==
    [Always(LocalAction(pol)) EXCEPT
       !.in   = localPolicyDevices(c, pol.srcZone),
       !.src  = Within(objectMatchExpr(c, pol.srcObj), Addr),
       !.when = scheduleMatchExpr(pol.sched).when,
       !.svc  = UNION LocalService(c, pol).sets]

LocalPolicies(c) ==
    RulesOf(c, LAMBDA pol : RendersLocally(c, pol), LAMBDA pol : LocalRule(c, pol))

(* What the box offers to internal networks by itself.                     *)
OwnServices(c) ==
    LET open(devices, services) ==
          [Always("accept") EXCEPT !.in = devices, !.svc = services]
    IN  <<open(dhcpDevices(c), {<<"udp", 67>>})>>
        \o (IF c.ntp THEN <<open(lanDevices(c), {<<"udp", 123>>})>> ELSE <<>>)
        \o (IF c.dns THEN Metered(lanDevices(c), <<"udp", 53>>)
                          \o <<open(lanDevices(c), {<<"tcp", 53>>})>> ELSE <<>>)

InputChain(c) ==
    <<[Always("accept") EXCEPT !.in = {"lo"}]>>
    \o Established("accept")
    \o VpnBlock(c)
    \o WireGuard(c) \o OpenVPN(c) \o SniPorts(c, wanDevices(c))
    \o HardWanDrop(c)
    \o LocalPolicies(c)
    \o OwnServices(c)
    \o SniPorts(c, lanDevices(c))
    \o <<Always("drop")>>

-----------------------------------------------------------------------------
(* Forwarding *)

(* A port forward is accepted if prerouting translated the packet, whoever *)
(* sent it; its zones, objects, service and schedule are not looked at.    *)
DnatRule(pol) ==
    [Always("accept") EXCEPT
       !.dnat = {TRUE},
       !.dst  = {pol.nat.intIP},
       !.svc  = IF pol.nat.intPort > 0 THEN {<<NatProto(pol.nat), pol.nat.intPort>>}
                ELSE AllServices]

isDnat(pol) == pol.action = "dnat" /\ pol.nat # NoNat

(* Deviation: an action that is not a verdict is rendered.                 *)
RendersForwardAnyAction(c, pol) ==
    /\ pol.on /\ ~pol.local /\ pol.id # VpnBlockPolicyID
    /\ \/ isDnat(pol)
       \/ /\ ~Empty(objectMatchExpr(c, pol.srcObj))
          /\ ~Empty(zoneMatchExpr(c, pol.srcZone))
          /\ ~Empty(zoneMatchExpr(c, pol.dstZone))

RendersForward(c, pol) ==
    /\ pol.on /\ ~pol.local /\ pol.id # VpnBlockPolicyID
    /\ \/ isDnat(pol)
       \/ /\ ~Empty(objectMatchExpr(c, pol.srcObj))
          /\ ~Empty(objectMatchExpr(c, pol.dstObj))
          /\ ~Empty(zoneMatchExpr(c, pol.srcZone))
          /\ ~Empty(zoneMatchExpr(c, pol.dstZone))
          /\ actionVerdictExpr(pol.action).ok
          /\ resolveServiceMatchExprSets(c, pol.service).ok
          /\ scheduleMatchExpr(pol.sched).ok

(* Deviation: the zones are not read (the code before 2026-08-19).         *)
FilterRuleAnyZone(c, pol) ==
    [Always(pol.action) EXCEPT
       !.src  = Within(objectMatchExpr(c, pol.srcObj), Addr),
       !.dst  = Within(objectMatchExpr(c, pol.dstObj), Addr),
       !.when = scheduleMatchExpr(pol.sched).when,
       !.svc  = UNION resolveServiceMatchExprSets(c, pol.service).sets]

FilterRule(c, pol) ==
    [Always(pol.action) EXCEPT
       !.in   = Within(zoneMatchExpr(c, pol.srcZone), AllDevices),
       !.out  = Within(zoneMatchExpr(c, pol.dstZone), AllDevices),
       !.src  = Within(objectMatchExpr(c, pol.srcObj), Addr),
       !.dst  = Within(objectMatchExpr(c, pol.dstObj), Addr),
       !.when = scheduleMatchExpr(pol.sched).when,
       !.svc  = UNION resolveServiceMatchExprSets(c, pol.service).sets]

ForwardRule(c, pol) == IF isDnat(pol) THEN DnatRule(pol) ELSE FilterRule(c, pol)

ForwardChain(c) ==
    Established("accept")
    \o VpnBlock(c)
    \o RulesOf(c, LAMBDA pol : RendersForward(c, pol), LAMBDA pol : ForwardRule(c, pol))
    \o <<Always("drop")>>

(* Address translation before routing: from outside, and from inside to    *)
(* the address the box has outside, if that is known. The verdict is where *)
(* the packet then goes.                                                   *)
Target(nat) == [dst |-> nat.intIP, port |-> nat.intPort]

(* Deviation: from any device (the code before 2026-08-25).                *)
DnatRulesAnyDevice(c, pol) ==
    <<[Always(Target(pol.nat)) EXCEPT
         !.svc = {<<NatProto(pol.nat), pol.nat.extPort>>},
         !.dst = IF pol.nat.extIP # NoAddr THEN {pol.nat.extIP} ELSE Addr],
      Nothing>>

DnatRules(c, pol) ==
    LET service == {<<NatProto(pol.nat), pol.nat.extPort>>}
        external == IF pol.nat.extIP # NoAddr THEN pol.nat.extIP ELSE primaryWANAddress(c)
        incoming == [Always(Target(pol.nat)) EXCEPT
                       !.in = wanDevices(c), !.svc = service,
                       !.dst = IF pol.nat.extIP # NoAddr THEN {pol.nat.extIP} ELSE Addr]
        hairpin  == [Always(Target(pol.nat)) EXCEPT
                       !.in = AllDevices \ wanDevices(c), !.svc = service,
                       !.dst = {external}]
    IN  IF wanDevices(c) = {} THEN <<Nothing, Nothing>>
        ELSE <<incoming, IF external = NoAddr THEN Nothing ELSE hairpin>>

(* Two places for each policy.                                             *)
Prerouting(c) ==
    [j \in 1 .. 2 * Len(c.policies) |->
       LET pol == c.policies[(j + 1) \div 2]
       IN  IF pol.on /\ isDnat(pol) THEN DnatRules(c, pol)[IF j % 2 = 1 THEN 1 ELSE 2]
           ELSE Nothing]

(* Address translation after routing: whose address the packet gets.       *)
SnatRules(c) ==
    RulesOf(c,
      LAMBDA pol : /\ pol.on /\ pol.action = "snat" /\ pol.nat # NoNat
                   /\ pol.nat.extIP # NoAddr /\ ~Empty(objectMatchExpr(c, pol.srcObj)),
      LAMBDA pol : [Always(pol.nat.extIP) EXCEPT
                      !.src = Within(objectMatchExpr(c, pol.srcObj), Addr)])

(* Deviation: matched by the port that prerouting has replaced.            *)
HairpinMasqueradeOuterPort(c) ==
    RulesOf(c,
      LAMBDA pol : pol.on /\ isDnat(pol) /\ pol.nat.intIP # NoAddr,
      LAMBDA pol : [Always("masquerade") EXCEPT
                      !.in = AllDevices \ wanDevices(c), !.dst = {pol.nat.intIP},
                      !.svc = {<<NatProto(pol.nat), pol.nat.extPort>>}])

HairpinMasquerade(c) ==
    IF wanDevices(c) = {} THEN <<>>
    ELSE RulesOf(c,
           LAMBDA pol : pol.on /\ isDnat(pol) /\ pol.nat.intIP # NoAddr,
           LAMBDA pol : [DnatRule(pol) EXCEPT
                           !.in = AllDevices \ wanDevices(c), !.dnat = BOOLEAN,
                           !.verdict = "masquerade"])

Postrouting(c) ==
    SnatRules(c) \o HairpinMasquerade(c)
    \o <<[Always("masquerade") EXCEPT !.out = wanDevices(c)]>>

-----------------------------------------------------------------------------
(* The way of a packet. Only the first packet of a connection passes the   *)
(* nat chains; the others arrive as the tracked connection translates them.*)

RenderJSON(c) ==
    LET box == [input |-> InputChain(c), forward |-> <<>>, prerouting |-> <<>>, postrouting |-> <<>>]
    IN  IF c.mode = "host" THEN box
        ELSE [box EXCEPT !.forward = ForwardChain(c), !.prerouting = Prerouting(c),
                         !.postrouting = Postrouting(c)]

Arrived(p, now) ==
    [in |-> p.in, out |-> "self", src |-> p.src, dst |-> p.dst, svc |-> p.svc,
     est |-> p.est, flood |-> p.flood, dnat |-> FALSE, now |-> now]

Translated(rules, a) ==
    LET to == FirstMatch(rules.prerouting, a, NoNat)
    IN  IF a.est \/ to = NoNat THEN a
        ELSE [a EXCEPT !.dst = to.dst, !.svc = <<a.svc[1], to.port>>, !.dnat = TRUE]

Routed(rules, p, now) ==
    LET t == Translated(rules, Arrived(p, now))
    IN  IF t.dst \in SelfAddr THEN t ELSE [t EXCEPT !.out = Home[t.dst]]

(* In host mode the forward chain is empty, and the kernel forwards nothing.*)
Verdict(rules, r) ==
    FirstMatch(IF r.out = "self" THEN rules.input ELSE rules.forward, r, "drop")

SourceBecomes(rules, r) == FirstMatch(rules.postrouting, r, "unchanged")

-----------------------------------------------------------------------------
Init ==
    /\ cfg = Seed
    /\ hours = FALSE
    /\ changes = 0

Change(to) ==
    /\ changes < MaxChanges
    /\ cfg' = to
    /\ changes' = changes + 1
    /\ UNCHANGED hours

(* A candidate is applied if it is valid; the running connections stay     *)
(* tracked, for the rule set is replaced and the connection table is not.  *)
Apply(candidate) ==
    /\ ValidateCandidate(candidate)
    /\ Change(candidate)

AddPolicy ==
    \E pol \in Policies :
        /\ Len(cfg.policies) < MaxPolicies
        /\ Positions(cfg, pol.id) = {}
        /\ Apply([cfg EXCEPT !.policies = Append(@, pol)])

ReplacePolicy ==
    \E pol \in Policies : \E i \in Positions(cfg, pol.id) :
        Apply([cfg EXCEPT !.policies[i] = pol])

RemovePolicy ==
    \E i \in DOMAIN cfg.policies :
        Apply([cfg EXCEPT !.policies = RemoveAt(@, i)])

ChangeInterface ==
    \E i \in DOMAIN cfg.ifaces : \E f \in Ifaces :
        /\ f.id = cfg.ifaces[i].id
        /\ Apply([cfg EXCEPT !.ifaces[i] = f])

ChangeFeatures ==
    \E f \in Features :
        Apply([cfg EXCEPT !.wireguard = f.wireguard, !.openvpn = f.openvpn, !.sni = f.sni,
                          !.dns = f.dns, !.ntp = f.ntp])

(* Feeds, name look-ups and blocks fill objects of the running             *)
(* configuration, which is rendered again and not validated again.         *)
RefreshObject ==
    \E i \in DOMAIN cfg.objects : \E S \in Contents :
        /\ ~cfg.objects[i].group
        /\ Change([cfg EXCEPT !.objects[i].values = S])

(* The agent starts, with the configuration it had or with one of an older *)
(* version, and applies what it has loaded without validating it.          *)
Restart ==
    /\ cfg' = Migrated(cfg)
    /\ UNCHANGED <<hours, changes>>

Restore ==
    \E stored \in Backups :
        /\ cfg' = Migrated(stored)
        /\ changes' = 0
        /\ UNCHANGED hours

HoursTurn ==
    /\ hours' = ~hours
    /\ UNCHANGED <<cfg, changes>>

Next ==
    \/ AddPolicy \/ ReplacePolicy \/ RemovePolicy
    \/ ChangeInterface \/ ChangeFeatures
    \/ RefreshObject \/ Restart \/ Restore \/ HoursTurn

Spec == Init /\ [][Next]_vars

-----------------------------------------------------------------------------
(* What the policies mean, without chains: the first enabled policy that   *)
(* speaks of a packet decides, and what nothing speaks of is refused.      *)

(* Addresses of the object that the first enabled policy of VPN auto-block *)
(* names.                                                                  *)
AutoBlocked(c, addr) ==
    LET block == {i \in DOMAIN c.policies :
                    c.policies[i].id = VpnBlockPolicyID /\ c.policies[i].on}
    IN  /\ block # {}
        /\ c.policies[Min(block)].srcObj \notin {"", "ANY"}
        /\ addr \in resolveObjectCIDRs(c, c.policies[Min(block)].srcObj)

InZone(c, device, spec) == AnyZone(spec) \/ device \in ZoneDevices(c, spec)

InObject(c, addr, id) == id \in {"", "ANY"} \/ addr \in resolveObjectCIDRs(c, id)

InService(c, svc, ref) == \E S \in resolveServiceMatchExprSets(c, ref).sets : svc \in S

Speaks(c, pol, r) ==
    /\ pol.on /\ ~pol.local /\ pol.id # VpnBlockPolicyID
    /\ \/ /\ pol.action \in {"accept", "drop", "reject"}
          /\ InZone(c, r.in, pol.srcZone) /\ InZone(c, r.out, pol.dstZone)
          /\ InObject(c, r.src, pol.srcObj) /\ InObject(c, r.dst, pol.dstObj)
          /\ InService(c, r.svc, pol.service)
          /\ pol.sched = "hours" => r.now
       \/ /\ pol.action = "dnat"
          /\ r.dnat /\ r.dst = pol.nat.intIP
          /\ r.svc = <<NatProto(pol.nat), pol.nat.intPort>>

MayForward(c, r) ==
    LET speaking == {i \in DOMAIN c.policies : Speaks(c, c.policies[i], r)}
    IN  /\ ~AutoBlocked(c, r.src)
        /\ speaking # {}
        /\ c.policies[Min(speaking)].action \in {"accept", "dnat"}

SpeaksLocally(c, pol, r) ==
    /\ pol.on /\ pol.local
    /\ pol.action \in {"", "accept", "drop", "reject"}
    /\ InZone(c, r.in, pol.srcZone) /\ InObject(c, r.src, pol.srcObj)
    /\ IF pol.id = MgmtAPIPolicyID THEN r.svc = <<"tcp", c.apiPort>>
       ELSE InService(c, r.svc, pol.service)
    /\ pol.sched = "hours" => r.now

SharedPorts(c) == {<<"tcp", r.port>> : r \in {q \in c.sni : q.on}}

(* What VPN clients come in by, each client up to a limit.                 *)
VpnPorts(c) ==
    (IF c.wireguard.on THEN {<<"udp", c.wireguard.port>>} ELSE {})
    \union (IF c.openvpn.on /\ ~OpenVPNFrontedBySNI(c)
            THEN {<<IF c.openvpn.proto = "tcp" THEN "tcp" ELSE "udp", c.openvpn.port>>}
            ELSE {})

OfferedOutside(c, r) ==
    /\ r.svc \in SharedPorts(c) \union VpnPorts(c)
    /\ r.flood => r.svc \notin VpnPorts(c)

OfferedInside(c, r) ==
    \/ r.svc \in SharedPorts(c)
    \/ r.in \in dhcpDevices(c) /\ r.svc = <<"udp", 67>>
    \/ c.ntp /\ r.svc = <<"udp", 123>>
    \/ c.dns /\ r.svc \in {<<"tcp", 53>>, <<"udp", 53>>} /\ ~(r.flood /\ r.svc[1] = "udp")

MayEnter(c, r) ==
    LET speaking == {i \in DOMAIN c.policies : SpeaksLocally(c, c.policies[i], r)}
    IN  /\ ~AutoBlocked(c, r.src)
        /\ \/ r.in \in wanDevices(c) /\ OfferedOutside(c, r)
           \/ /\ r.in \in lanDevices(c) \ wanDevices(c)
              /\ IF speaking # {} THEN LocalAction(c.policies[Min(speaking)]) = "accept"
                 ELSE OfferedInside(c, r)

-----------------------------------------------------------------------------
Valid == ValidateCandidate(cfg)

New(p) == ~p.est

(* Configurations have the parts the rest of the specification reads, and  *)
(* every verdict is one the kernel knows.                                  *)
TypeOK ==
    /\ hours \in BOOLEAN
    /\ IsConfig(cfg)
    /\ changes \in 0 .. MaxChanges
    /\ LET rules == RenderJSON(cfg) IN
       \A p \in Packets :
          Verdict(rules, Routed(rules, p, hours)) \in {"accept", "drop", "reject"}

(* A connection through the box begins exactly if the first policy that    *)
(* speaks of it allows it, and one that has begun goes on: zones, objects, *)
(* services, schedules and the order of policies all count, no rule is     *)
(* wider than its policy, and none in force is left out.                   *)
PoliciesDecide ==
    Valid /\ cfg.mode = "gateway" =>
      LET rules == RenderJSON(cfg) IN
      \A p \in Packets :
        LET r == Routed(rules, p, hours) IN
        r.out # "self" => (Verdict(rules, r) = "accept" <=> r.est \/ MayForward(cfg, r))

(* Nothing from outside reaches the box but what it offers there, nothing  *)
(* from inside but what a local policy or an own service allows, nothing   *)
(* from an address that is blocked - and a shared port is never taken away *)
(* by a port forward.                                                      *)
SelfIsGuarded ==
    Valid =>
      LET rules == RenderJSON(cfg) IN
      \A p \in Packets :
        LET r == Routed(rules, p, hours) IN
        /\ r.out = "self" => (Verdict(rules, r) = "accept" <=> r.est \/ MayEnter(cfg, r))
        /\ p.dst \in SelfAddr /\ p.svc \in SharedPorts(cfg) => r.out = "self"

(* A port forward takes what comes from outside and what is meant for the  *)
(* box, and never a client's traffic to somebody else.                     *)
RedirectsOnlyItsOwn ==
    LET rules == RenderJSON(cfg) IN
    \A p \in Packets :
      LET r == Routed(rules, p, hours) IN
      r.dnat =>
        \E pol \in ActiveDNAT(cfg) :
          /\ r.dst = pol.nat.intIP
          /\ p.svc = <<NatProto(pol.nat), pol.nat.extPort>>
          /\ \/ p.in \in wanDevices(cfg)
             \/ p.dst \in SelfAddr \union {pol.nat.extIP}

(* Answers come back the way they went: a client inside that leaves for    *)
(* the outside, or reaches its own neighbour by the box's outer address,   *)
(* does so under another address, and a server sees who calls from outside.*)
AnswersComeBack ==
    Valid /\ cfg.mode = "gateway" =>
      LET rules == RenderJSON(cfg) IN
      \A p \in {q \in Packets : New(q)} :
        LET r == Routed(rules, p, hours)
            inside == r.in \notin wanDevices(cfg)
        IN  r.out # "self" /\ Verdict(rules, r) = "accept" =>
              /\ inside /\ (r.out \in wanDevices(cfg) \/ (r.dnat /\ r.in = r.out))
                   => SourceBecomes(rules, r) # "unchanged"
              /\ ~inside /\ r.out \notin wanDevices(cfg)
                   /\ (\A i \in DOMAIN cfg.policies : cfg.policies[i].action # "snat")
                   => SourceBecomes(rules, r) = "unchanged"

(* Translation does to a connection what it is for, in both directions.    *)
TranslationIsSound == RedirectsOnlyItsOwn /\ AnswersComeBack

(* Validation and rendering agree: a policy in a valid configuration is    *)
(* rendered to a rule that some packet can match - if what it refers to    *)
(* is not empty, every enabled interface has a card, there are both sides, *)
(* and its action is one for its chain.                                    *)
Complete(c) ==
    /\ \A f \in EnabledIfaces(c) : f.dev # NoDevice
    /\ wanDevices(c) # {} /\ lanDevices(c) # {}

Resolves(c, pol) ==
    /\ ~Empty(objectMatchExpr(c, pol.srcObj)) /\ ~Empty(objectMatchExpr(c, pol.dstObj))
    /\ resolveServiceMatchExprSets(c, pol.service).sets # {}

CanMatch(rule) == rule.in # {} /\ rule.out # {} /\ rule.src # {} /\ rule.dst # {} /\ rule.svc # {}

ValidMeansRendered ==
    Valid /\ Complete(cfg) =>
      \A i \in DOMAIN cfg.policies :
        LET pol == cfg.policies[i] IN
        pol.on /\ ~pol.local /\ pol.id # VpnBlockPolicyID
               /\ (isDnat(pol) \/ pol.action \in {"accept", "drop", "reject"})
               /\ Resolves(cfg, pol)
          => RendersForward(cfg, pol) /\ CanMatch(ForwardRule(cfg, pol))

(* The policies decide, none that was validated is lost on the way, and    *)
(* the way to the box itself is guarded: together every packet that is     *)
(* forwarded or delivered is one somebody allowed.                         *)
OnlyAllowedPasses == PoliciesDecide /\ SelfIsGuarded /\ ValidMeansRendered

(* The two blocks do not share an object: IDS does not fill that of the VPN*)
(* before it is there, and no policy of the VPN's refers to one that IDS   *)
(* has or had.                                                             *)
IdsObjects ==
    {IpsObjectID} \union {o.id : o \in {x \in UNION {Objects(c) : c \in Backups \union {Seed}} :
                                          x.name = IpsObjectName}}

KnownPolicies ==
    Policies \union UNION {{c.policies[i] : i \in DOMAIN c.policies} : c \in Backups \union {Seed}}

BlocksApart ==
    /\ \A c \in Backups \union {Seed} : c.ids = VpnObjectID => HasVpnObject(c)
    /\ \A pol \in KnownPolicies :
          pol.id = VpnBlockPolicyID => pol.srcObj \notin IdsObjects \ {VpnObjectID}

(* Loading changes nothing the second time, leaves the administrator's     *)
(* policies alone, and wires the deny policy to the object that IDS fills. *)
LoadSettles(stored) ==
    LET m == Migrated(stored)
        own == {pol \in {m.policies[i] : i \in DOMAIN m.policies}
                        \union {stored.policies[i] : i \in DOMAIN stored.policies} :
                  pol.id \notin {IpsBlockPolicyID, VpnBlockPolicyID, MgmtAPIPolicyID}}
        deny == m.policies[Min(Positions(m, IpsBlockPolicyID))]
    IN  /\ Migrated(m) = m
        /\ Selected(m.policies, own) = Selected(stored.policies, own)
        /\ deny.srcObj \in ObjectIds(m)
        /\ m.ids \in ObjectIds(stored) => deny.srcObj = m.ids
        /\ \A o \in Objects(stored) : o.values # {} => o.id \in ObjectIds(m)

MigrationSettles == \A stored \in Backups \union {cfg} : LoadSettles(stored)

-----------------------------------------------------------------------------
(* Promises of the code that do not hold; see the README.                  *)

(* Valid means that somebody inside still reaches the GUI. It does not:    *)
(* only the presence of the policy and its switch are looked at, not its   *)
(* action, zone, object or schedule, nor a local policy before it.         *)
AdminGetsIn ==
    Valid =>
      LET rules == RenderJSON(cfg) IN
      \E p \in Packets :
         /\ New(p) /\ p.svc = <<"tcp", cfg.apiPort>> /\ p.in \in lanDevices(cfg)
         /\ LET r == Routed(rules, p, hours) IN r.out = "self" /\ Verdict(rules, r) = "accept"

(* Valid means that no enabled policy is silently skipped. It does not: an *)
(* object may be empty, and a zone may have no card.                       *)
NothingSkipped ==
    Valid /\ cfg.mode = "gateway" =>
      \A i \in DOMAIN cfg.policies :
        LET pol == cfg.policies[i] IN
        pol.on /\ ~pol.local /\ pol.action \in {"accept", "drop", "reject"}
               /\ pol.id # VpnBlockPolicyID
          => RendersForward(cfg, pol)

(* A SNAT policy changes the source of outgoing traffic only. It changes   *)
(* it between internal networks too.                                       *)
SnatOnlyOutgoing ==
    LET rules == RenderJSON(cfg) IN
    \A p \in Packets :
      LET r == Routed(rules, p, hours) IN
      New(p) /\ r.out \notin {"self"} \union wanDevices(cfg) /\ Verdict(rules, r) = "accept"
        => SourceBecomes(rules, r) \in {"masquerade", "unchanged"}

(* A server inside sees who calls it from inside, unless the call went to  *)
(* the outer address. It does not, if a port is forwarded to it.           *)
HairpinOnly ==
    LET rules == RenderJSON(cfg) IN
    \A p \in Packets :
      LET r == Routed(rules, p, hours) IN
      New(p) /\ r.out \notin {"self"} \union wanDevices(cfg) /\ Verdict(rules, r) = "accept"
             /\ SourceBecomes(rules, r) = "masquerade"
        => r.dnat

(* All traffic from a blocked address is dropped. That of a connection     *)
(* which was open before is not.                                           *)
BlockedIsCut ==
    LET rules == RenderJSON(cfg) IN
    \A p \in Packets :
      LET r == Routed(rules, p, hours) IN
      AutoBlocked(cfg, p.src) => Verdict(rules, r) # "accept"

(* A port forward with a schedule is open within its hours. It is open at  *)
(* any time, though its schedule is validated.                             *)
ForwardsKeepHours ==
    LET rules == RenderJSON(cfg) IN
    \A p \in Packets :
      Routed(rules, p, hours).dnat =>
        \E pol \in ActiveDNAT(cfg) :
           /\ p.svc = <<NatProto(pol.nat), pol.nat.extPort>>
           /\ pol.sched = "hours" => hours

(* The policy of VPN auto-block is there from the start. A new installation*)
(* gets it when the agent starts for the second time.                      *)
BlockOnFromStart == changes = 0 => Positions(cfg, VpnBlockPolicyID) # {}
=============================================================================
