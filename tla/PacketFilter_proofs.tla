------------------------- MODULE PacketFilter_proofs -------------------------
(***************************************************************************)
(* Proofs about PacketFilter, for any network, any policies and any        *)
(* packets.                                                                *)
(*                                                                         *)
(* The chains are taken apart: what a chain does to a packet is what its   *)
(* first segment does, with the rest of the chain as what happens          *)
(* otherwise (OneAfterTheOther). Each segment is given its meaning by a    *)
(* lemma, each policy's rule is compared with what the policy says, and    *)
(* the first rule that matches is the first policy that speaks because a   *)
(* rule has the place of its policy.                                       *)
(*                                                                         *)
(* What a packet is after translation and routing is a lemma of its own    *)
(* (RoutedPacket). The invariant is that what is in force is a well-formed *)
(* configuration, through every edit, migration and restore (Typed); the   *)
(* properties hold of each such configuration. For the migrations the      *)
(* invariant is also that each block keeps to its own object (Apart,       *)
(* LoadingSettles).                                                        *)
(***************************************************************************)
EXTENDS PacketFilter, SequenceTheorems, WellFoundedInduction, TLAPS

(* The least of a set of numbers is in it, and no greater than any other.  *)
Less == {pair \in Nat \X Nat : pair[1] < pair[2]}

LEMMA LessIsWellFounded == IsWellFoundedOn(Less, Nat)
  BY NatLessThanWellFounded DEF OpToRel, Less

LEMMA MinIsLeast ==
  ASSUME NEW S \in SUBSET Nat, S # {}
  PROVE  Min(S) \in S /\ \A n \in S : Min(S) <= n
<1>1. PICK m \in S : \A n \in S : <<n, m>> \notin Less
  BY LessIsWellFounded, WFMin
<1>2. ASSUME NEW n \in S PROVE m <= n
  <2>1. m \in Nat /\ n \in Nat
    OBVIOUS
  <2>2. ~(n < m)
    BY <1>1, <2>1 DEF Less
  <2> QED
    BY <2>1, <2>2
<1> QED
  BY <1>2 DEF Min

(* A chain is a sequence of rules, of any kind.                            *)
IsChain(s) == s \in Seq({s[i] : i \in DOMAIN s})

LEMMA ChainForm ==
  ASSUME NEW s, IsChain(s)
  PROVE  Len(s) \in Nat /\ DOMAIN s = 1 .. Len(s)
  BY LenProperties DEF IsChain

LEMMA ChainInSeq ==
  ASSUME NEW R, NEW s \in Seq(R)
  PROVE  IsChain(s)
<1>1. Len(s) \in Nat /\ DOMAIN s = 1 .. Len(s) /\ s = [i \in 1 .. Len(s) |-> s[i]]
  BY LenProperties
<1> DEFINE S == {s[i] : i \in DOMAIN s}
<1>2. s \in [1 .. Len(s) -> S]
  BY <1>1
<1> HIDE DEF S
<1>3. s \in Seq(S)
  BY <1>1, <1>2
<1> QED
  BY <1>3 DEF IsChain, S

(* Rules laid out by their position make a chain.                          *)
LEMMA TableIsChain ==
  ASSUME NEW n \in Nat, NEW s, DOMAIN s = 1 .. n, s = [i \in 1 .. n |-> s[i]]
  PROVE  IsChain(s) /\ Len(s) = n
<1>1. s \in [1 .. n -> {s[i] : i \in 1 .. n}]
  OBVIOUS
<1>2. s \in Seq({s[i] : i \in 1 .. n})
  BY <1>1
<1> QED
  BY <1>2, ChainInSeq, LenProperties

(* The first rule that matches decides.                                    *)
LEMMA FirstHit ==
  ASSUME NEW s, IsChain(s), NEW p, NEW d, NEW i \in DOMAIN s, Matches(s[i], p),
         \A j \in DOMAIN s : Matches(s[j], p) => i <= j
  PROVE  FirstMatch(s, p, d) = s[i].verdict
<1> DEFINE hits == {j \in DOMAIN s : Matches(s[j], p)}
<1>1. hits \in SUBSET Nat /\ i \in hits
  BY ChainForm
<1>2. Min(hits) = i
  <2>1. Min(hits) \in hits /\ Min(hits) <= i
    BY <1>1, MinIsLeast
  <2> QED
    BY <1>1, <2>1
<1> QED
  BY <1>1, <1>2 DEF FirstMatch

LEMMA NoHit ==
  ASSUME NEW s, NEW p, NEW d, \A i \in DOMAIN s : ~Matches(s[i], p)
  PROVE  FirstMatch(s, p, d) = d
  BY DEF FirstMatch

(* What does not match in one chain goes on to the next.                   *)
LEMMA OneAfterTheOther ==
  ASSUME NEW s, IsChain(s), NEW t, IsChain(t)
  PROVE  /\ IsChain(s \o t)
         /\ \A p, d : FirstMatch(s \o t, p, d) = FirstMatch(s, p, FirstMatch(t, p, d))
<1> DEFINE R == {s[i] : i \in DOMAIN s} \cup {t[i] : i \in DOMAIN t}
           u == s \o t
<1>1. s \in Seq(R) /\ t \in Seq(R)
  <2>1. /\ s \in [1 .. Len(s) -> R] /\ Len(s) \in Nat
        /\ t \in [1 .. Len(t) -> R] /\ Len(t) \in Nat
    BY LenProperties, ChainForm DEF IsChain
  <2> QED
    BY <2>1
<1>2. /\ u \in Seq(R) /\ Len(u) = Len(s) + Len(t)
      /\ \A i \in 1 .. Len(s) + Len(t) :
            u[i] = IF i <= Len(s) THEN s[i] ELSE t[i - Len(s)]
  BY <1>1, ConcatProperties
<1>3. IsChain(u)
  BY <1>2, ChainInSeq
<1>4. /\ Len(s) \in Nat /\ DOMAIN s = 1 .. Len(s)
      /\ Len(t) \in Nat /\ DOMAIN t = 1 .. Len(t)
      /\ DOMAIN u = 1 .. Len(s) + Len(t)
  BY <1>2, <1>3, ChainForm
<1> HIDE DEF u, R
<1>5. ASSUME NEW p, NEW d
      PROVE  FirstMatch(u, p, d) = FirstMatch(s, p, FirstMatch(t, p, d))
  <2> DEFINE first == {i \in DOMAIN s : Matches(s[i], p)}
             second == {i \in DOMAIN t : Matches(t[i], p)}
  <2>1. CASE first # {}
    <3> HIDE DEF first
    <3>0. first \in SUBSET Nat
      BY <1>4 DEF first
    <3>1. PICK i \in first : \A j \in first : i <= j
      BY <2>1, <3>0, MinIsLeast
    <3> USE DEF first
    <3>2. FirstMatch(s, p, FirstMatch(t, p, d)) = s[i].verdict
      BY <3>1, FirstHit
    <3>3. i \in DOMAIN u /\ u[i] = s[i]
      BY <1>2, <1>4, <3>1
    <3>4. \A j \in DOMAIN u : Matches(u[j], p) => i <= j
      <4> SUFFICES ASSUME NEW j \in DOMAIN u, Matches(u[j], p), j < i PROVE FALSE
        BY <1>4, <3>1
      <4>1. j \in DOMAIN s /\ u[j] = s[j]
        BY <1>2, <1>4, <3>1
      <4> QED
        BY <1>4, <3>1, <4>1
    <3> QED
      BY <1>3, <3>1, <3>2, <3>3, <3>4, FirstHit
  <2>2. CASE first = {} /\ second # {}
    <3> HIDE DEF second
    <3>0. second \in SUBSET Nat
      BY <1>4 DEF second
    <3>1. PICK i \in second : \A j \in second : i <= j
      BY <2>2, <3>0, MinIsLeast
    <3> USE DEF second
    <3>2. FirstMatch(t, p, d) = t[i].verdict
      BY <3>1, FirstHit
    <3>3. FirstMatch(s, p, FirstMatch(t, p, d)) = t[i].verdict
      BY <2>2, <3>2, NoHit
    <3>4. i + Len(s) \in DOMAIN u /\ u[i + Len(s)] = t[i]
      BY <1>2, <1>4, <3>1
    <3>5. \A j \in DOMAIN u : Matches(u[j], p) => i + Len(s) <= j
      <4> SUFFICES ASSUME NEW j \in DOMAIN u, Matches(u[j], p) PROVE i + Len(s) <= j
        OBVIOUS
      <4>1. ~(j <= Len(s))
        BY <1>2, <1>4, <2>2
      <4>2. j - Len(s) \in DOMAIN t /\ u[j] = t[j - Len(s)]
        BY <1>2, <1>4, <4>1
      <4> QED
        BY <1>4, <3>1, <4>2
    <3> QED
      BY <1>3, <3>1, <3>3, <3>4, <3>5, FirstHit
  <2>3. CASE first = {} /\ second = {}
    <3>1. FirstMatch(s, p, FirstMatch(t, p, d)) = d
      BY <2>3, NoHit
    <3>2. \A j \in DOMAIN u : ~Matches(u[j], p)
      <4> SUFFICES ASSUME NEW j \in DOMAIN u PROVE ~Matches(u[j], p)
        OBVIOUS
      <4>1. CASE j <= Len(s)
        BY <1>2, <1>4, <2>3, <4>1
      <4>2. CASE ~(j <= Len(s))
        <5>1. j - Len(s) \in DOMAIN t /\ u[j] = t[j - Len(s)]
          BY <1>2, <1>4, <4>2
        <5> QED
          BY <2>3, <5>1
      <4> QED
        BY <4>1, <4>2
    <3> QED
      BY <3>1, <3>2, NoHit
  <2> QED
    BY <2>1, <2>2, <2>3
<1> QED
  BY <1>3, <1>5 DEF u

(* Chains of one rule and of none.                                         *)
LEMMA SingleRule ==
  ASSUME NEW r
  PROVE  /\ IsChain(<<r>>)
         /\ \A p, d : FirstMatch(<<r>>, p, d) = IF Matches(r, p) THEN r.verdict ELSE d
<1> DEFINE s == <<r>>
<1>1. IsChain(s) /\ DOMAIN s = {1} /\ s[1] = r
  <2>1. s \in Seq({r}) /\ DOMAIN s = {1} /\ s[1] = r
    OBVIOUS
  <2> QED
    BY <2>1, ChainInSeq
<1> HIDE DEF s
<1>2. ASSUME NEW p, NEW d
      PROVE  FirstMatch(s, p, d) = IF Matches(r, p) THEN r.verdict ELSE d
  <2>1. CASE Matches(r, p)
    BY <1>1, <2>1, FirstHit
  <2>2. CASE ~Matches(r, p)
    BY <1>1, <2>2, NoHit
  <2> QED
    BY <2>1, <2>2
<1> QED
  BY <1>1, <1>2 DEF s

LEMMA NoRule ==
  IsChain(<<>>) /\ \A p, d : FirstMatch(<<>>, p, d) = d
<1>1. IsChain(<<>>)
  BY ChainInSeq, EmptySeq
<1> QED
  BY <1>1, NoHit
-----------------------------------------------------------------------------
(* A packet on its way through a chain of the filter.                      *)
OnItsWay(r) ==
  /\ r.in \in Device /\ r.out \in Device \cup {"self"}
  /\ r.src \in Addr /\ r.dst \in Addr /\ r.svc \in AllServices
  /\ r.est \in BOOLEAN /\ r.flood \in BOOLEAN /\ r.dnat \in BOOLEAN /\ r.now \in BOOLEAN

(* The parts of the assumption on the constants that most steps need.      *)
LEMMA Places ==
  /\ "lo" \notin Device /\ "self" \notin Device /\ NoDevice \notin Device
  /\ \A port \in Port : port \in Nat /\ port > 0 /\ validPort(port)
  /\ \A port : validPort(port) => port \in Nat /\ port > 0
<1>1. {"lo", "self"} \intersect Device = {} /\ NoDevice \notin Device
  BY PacketFilterConstants
<1>2. Port \subseteq 1 .. MaxPort
  BY PacketFilterConstants
<1>3. MaxPort \in Nat
  BY DEF MaxPort
<1> QED
  BY <1>1, <1>2, <1>3 DEF validPort

(* What a rule that was not narrowed down matches of it.                   *)
LEMMA AlwaysMatches ==
  ASSUME NEW r, OnItsWay(r), NEW v
  PROVE  Matches(Always(v), r)
  BY DEF OnItsWay, Matches, Always, AllDevices

LEMMA NothingMatches ==
  ASSUME NEW r, OnItsWay(r)
  PROVE  ~Matches(Nothing, r)
  BY DEF Matches, Nothing, Always

(* Services that rules may name are those of packets or none.              *)
LEMMA ServiceForm ==
  ASSUME NEW s \in AllServices, NEW proto, NEW port, s = <<proto, port>>, proto # "icmp"
  PROVE  port \in Port /\ port > 0 /\ validPort(port)
<1>1. \/ s \in {"tcp", "udp"} \X Port
      \/ s = <<"icmp", WholeProtocol>>
  BY DEF AllServices
<1>2. s # <<"icmp", WholeProtocol>>
  OBVIOUS
<1>3. port \in Port
  BY <1>1, <1>2
<1> QED
  BY <1>3, Places

-----------------------------------------------------------------------------
(* The segments of the chains *)

LEMMA EstablishedFirst ==
  ASSUME NEW r, OnItsWay(r), NEW v
  PROVE  /\ IsChain(Established(v))
         /\ \A d : FirstMatch(Established(v), r, d) = IF r.est THEN v ELSE d
<1>1. Matches([Always(v) EXCEPT !.est = {TRUE}], r) <=> r.est
  BY DEF OnItsWay, Matches, Always, AllDevices
<1>2. [Always(v) EXCEPT !.est = {TRUE}].verdict = v
  BY DEF Always
<1> QED
  BY <1>1, <1>2, SingleRule DEF Established

LEMMA LoopbackOnly ==
  ASSUME NEW r, OnItsWay(r)
  PROVE  /\ IsChain(<<[Always("accept") EXCEPT !.in = {"lo"}]>>)
         /\ \A d : FirstMatch(<<[Always("accept") EXCEPT !.in = {"lo"}]>>, r, d) = d
<1>1. ~Matches([Always("accept") EXCEPT !.in = {"lo"}], r)
  BY Places DEF OnItsWay, Matches, Always
<1> QED
  BY <1>1, SingleRule

LEMMA BlockedAreDropped ==
  ASSUME NEW c, NEW r, OnItsWay(r)
  PROVE  /\ IsChain(VpnBlock(c))
         /\ \A d : FirstMatch(VpnBlock(c), r, d) =
                     IF AutoBlocked(c, r.src) THEN "drop" ELSE d
<1> DEFINE block == {i \in DOMAIN c.policies :
                       c.policies[i].id = VpnBlockPolicyID /\ c.policies[i].on}
           id == c.policies[Min(block)].srcObj
           match == objectMatchExpr(c, id)
           rule == [Always("drop") EXCEPT !.src = match.set]
<1>1. match.set = IF id \in {"", "ANY"} THEN {} ELSE resolveObjectCIDRs(c, id)
  BY DEF objectMatchExpr, Unrestricted, OneOf
<1>2. AutoBlocked(c, r.src) <=> block # {} /\ r.src \in match.set
  BY <1>1 DEF AutoBlocked
<1>3. VpnBlock(c) = IF block = {} \/ match.set = {} THEN <<>> ELSE <<rule>>
  BY DEF VpnBlock
<1> HIDE DEF match, block
<1>4. (Matches(rule, r) <=> r.src \in match.set) /\ rule.verdict = "drop"
  BY DEF OnItsWay, Matches, Always, AllDevices
<1> HIDE DEF rule
<1> QED
  BY <1>2, <1>3, <1>4, SingleRule, NoRule

LEMMA MeteredPort ==
  ASSUME NEW devices, NEW service, NEW r, OnItsWay(r)
  PROVE  /\ IsChain(Metered(devices, service))
         /\ \A d : FirstMatch(Metered(devices, service), r, d) =
              IF r.in \in devices /\ r.svc = service
              THEN IF r.flood THEN "drop" ELSE "accept"
              ELSE d
<1> DEFINE over == [Always("drop") EXCEPT !.in = devices, !.svc = {service}, !.flood = {TRUE}]
           below == [Always("accept") EXCEPT !.in = devices, !.svc = {service}]
<1>1. /\ Matches(over, r) <=> r.in \in devices /\ r.svc = service /\ r.flood
      /\ Matches(below, r) <=> r.in \in devices /\ r.svc = service
      /\ over.verdict = "drop" /\ below.verdict = "accept"
  BY DEF OnItsWay, Matches, Always, AllDevices
<1>2. Metered(devices, service) = <<over>> \o <<below>>
  BY DEF Metered
<1> HIDE DEF over, below
<1>3. /\ IsChain(<<over>>) /\ IsChain(<<below>>)
      /\ \A d : FirstMatch(<<over>>, r, d) = IF Matches(over, r) THEN over.verdict ELSE d
      /\ \A d : FirstMatch(<<below>>, r, d) = IF Matches(below, r) THEN below.verdict ELSE d
  BY SingleRule
<1>4. /\ IsChain(<<over>> \o <<below>>)
      /\ \A d : FirstMatch(<<over>> \o <<below>>, r, d)
                  = FirstMatch(<<over>>, r, FirstMatch(<<below>>, r, d))
  BY <1>3, OneAfterTheOther
<1> QED
  BY <1>1, <1>2, <1>3, <1>4

(* A rule that accepts some services from some devices.                    *)
Open(devices, services) == [Always("accept") EXCEPT !.in = devices, !.svc = services]

LEMMA OpenPort ==
  ASSUME NEW devices, NEW services, NEW r, OnItsWay(r)
  PROVE  /\ IsChain(<<Open(devices, services)>>)
         /\ \A d : FirstMatch(<<Open(devices, services)>>, r, d) =
                     IF r.in \in devices /\ r.svc \in services THEN "accept" ELSE d
<1>1. /\ Matches(Open(devices, services), r) <=> r.in \in devices /\ r.svc \in services
      /\ Open(devices, services).verdict = "accept"
  BY DEF OnItsWay, Matches, Always, AllDevices, Open
<1> QED
  BY <1>1, SingleRule

LEMMA SharedPortsOpen ==
  ASSUME NEW c, NEW devices, NEW r, OnItsWay(r)
  PROVE  /\ IsChain(SniPorts(c, devices))
         /\ \A d : FirstMatch(SniPorts(c, devices), r, d) =
              IF r.in \in devices /\ r.svc \in SharedPorts(c) THEN "accept" ELSE d
<1> DEFINE open == {<<"tcp", q.port>> : q \in {s \in c.sni : s.on /\ validPort(s.port)}}
<1>1. r.svc \in open <=> r.svc \in SharedPorts(c)
  <2>1. \A q : r.svc = <<"tcp", q.port>> => validPort(q.port)
    BY ServiceForm DEF OnItsWay
  <2> QED
    BY <2>1 DEF SharedPorts
<1>2. SniPorts(c, devices) = <<Open(devices, open)>>
  BY DEF SniPorts, Open
<1> HIDE DEF open
<1>3. /\ IsChain(<<Open(devices, open)>>)
      /\ \A d : FirstMatch(<<Open(devices, open)>>, r, d) =
                  IF r.in \in devices /\ r.svc \in open THEN "accept" ELSE d
  BY OpenPort
<1> QED
  BY <1>1, <1>2, <1>3

LEMMA OutsideIsDropped ==
  ASSUME NEW c, NEW r, OnItsWay(r)
  PROVE  /\ IsChain(HardWanDrop(c))
         /\ \A d : FirstMatch(HardWanDrop(c), r, d) =
                     IF r.in \in wanDevices(c) THEN "drop" ELSE d
<1>1. Matches([Always("drop") EXCEPT !.in = wanDevices(c)], r) <=> r.in \in wanDevices(c)
  BY DEF OnItsWay, Matches, Always, AllDevices
<1>2. [Always("drop") EXCEPT !.in = wanDevices(c)].verdict = "drop"
  BY DEF Always
<1> QED
  BY <1>1, <1>2, SingleRule DEF HardWanDrop

LEMMA RestIsDropped ==
  ASSUME NEW r, OnItsWay(r)
  PROVE  IsChain(<<Always("drop")>>) /\ \A d : FirstMatch(<<Always("drop")>>, r, d) = "drop"
<1>1. Always("drop").verdict = "drop"
  BY DEF Always
<1> QED
  BY <1>1, AlwaysMatches, SingleRule

(* The ports of WireGuard and OpenVPN together.                            *)
LEMMA VpnPortsMetered ==
  ASSUME NEW c, IsConfig(c), NEW r, OnItsWay(r)
  PROVE  /\ IsChain(WireGuard(c)) /\ IsChain(OpenVPN(c))
         /\ \A d : FirstMatch(WireGuard(c), r, FirstMatch(OpenVPN(c), r, d)) =
              IF r.in \in wanDevices(c) /\ r.svc \in VpnPorts(c)
              THEN IF r.flood THEN "drop" ELSE "accept"
              ELSE d
<1> DEFINE proto == IF c.openvpn.proto = "tcp" THEN "tcp" ELSE "udp"
           wg == <<"udp", c.wireguard.port>>
           ovpn == <<proto, c.openvpn.port>>
           wan == wanDevices(c)
<1>1. /\ r.svc = wg => c.wireguard.port > 0
      /\ r.svc = ovpn => c.openvpn.port > 0
  BY ServiceForm DEF OnItsWay
<1>2. WireGuard(c) = IF c.wireguard.on /\ c.wireguard.port > 0 THEN Metered(wan, wg) ELSE <<>>
  BY DEF WireGuard
<1>3. OpenVPN(c) = IF c.openvpn.on /\ c.openvpn.port > 0 /\ ~OpenVPNFrontedBySNI(c)
                   THEN Metered(wan, ovpn) ELSE <<>>
  BY DEF OpenVPN, IsConfig, OpenVPNType
<1>4. r.svc \in VpnPorts(c) <=>
        \/ c.wireguard.on /\ r.svc = wg
        \/ c.openvpn.on /\ ~OpenVPNFrontedBySNI(c) /\ r.svc = ovpn
  BY DEF VpnPorts
<1> HIDE DEF proto, wg, ovpn, wan
<1>5. /\ IsChain(WireGuard(c))
      /\ \A d : FirstMatch(WireGuard(c), r, d) =
           IF r.in \in wan /\ c.wireguard.on /\ r.svc = wg
           THEN IF r.flood THEN "drop" ELSE "accept" ELSE d
  <2>1. CASE c.wireguard.on /\ c.wireguard.port > 0
    <3>1. /\ IsChain(Metered(wan, wg))
          /\ \A d : FirstMatch(Metered(wan, wg), r, d) =
               IF r.in \in wan /\ r.svc = wg
               THEN IF r.flood THEN "drop" ELSE "accept" ELSE d
      BY MeteredPort
    <3> QED
      BY <1>2, <2>1, <3>1
  <2>2. CASE ~(c.wireguard.on /\ c.wireguard.port > 0)
    BY <1>1, <1>2, <2>2, NoRule
  <2> QED
    BY <2>1, <2>2
<1>6. /\ IsChain(OpenVPN(c))
      /\ \A d : FirstMatch(OpenVPN(c), r, d) =
           IF r.in \in wan /\ c.openvpn.on /\ ~OpenVPNFrontedBySNI(c) /\ r.svc = ovpn
           THEN IF r.flood THEN "drop" ELSE "accept" ELSE d
  <2> DEFINE opened == c.openvpn.on /\ c.openvpn.port > 0 /\ ~OpenVPNFrontedBySNI(c)
  <2>1. CASE opened
    <3>1. /\ IsChain(Metered(wan, ovpn))
          /\ \A d : FirstMatch(Metered(wan, ovpn), r, d) =
               IF r.in \in wan /\ r.svc = ovpn
               THEN IF r.flood THEN "drop" ELSE "accept" ELSE d
      BY MeteredPort
    <3> QED
      BY <1>3, <2>1, <3>1
  <2>2. CASE ~opened
    BY <1>1, <1>3, <2>2, NoRule
  <2> QED
    BY <2>1, <2>2
<1> QED
  BY <1>4, <1>5, <1>6 DEF wan
-----------------------------------------------------------------------------
(* Policies and their rules *)

LEMMA PolicyForm ==
  ASSUME NEW c, IsConfig(c)
  PROVE  /\ Len(c.policies) \in Nat /\ DOMAIN c.policies = 1 .. Len(c.policies)
         /\ IsChain(c.policies) /\ \A i \in DOMAIN c.policies : IsPolicy(c.policies[i])
  BY ChainForm DEF IsConfig, IsChain

(* What validation says of an enabled policy.                              *)
LEMMA ValidPolicy ==
  ASSUME NEW c, ValidateCandidate(c), NEW i \in DOMAIN c.policies, c.policies[i].on
  PROVE  /\ validatePolicyService(c, c.policies[i])
         /\ validatePolicySchedule(c.policies[i])
         /\ c.policies[i].action = "dnat" => validatePolicyNAT(c.policies[i])
         /\ c.policies[i].action # "dnat" /\ ~c.policies[i].local =>
              /\ validatePolicyZone(c, c.policies[i].srcZone)
              /\ validatePolicyZone(c, c.policies[i].dstZone)
  BY DEF ValidateCandidate, validatePolicies

(* An address is in what is left of an object exactly if the object has    *)
(* it, and rendering does not leave it out.                                *)
LEMMA ObjectMatch ==
  ASSUME NEW c, NEW id, NEW addr \in Addr
  PROVE  ~Empty(objectMatchExpr(c, id)) /\ addr \in Within(objectMatchExpr(c, id), Addr)
           <=> InObject(c, addr, id)
  BY DEF Empty, Within, objectMatchExpr, Unrestricted, OneOf, InObject

LEMMA ZoneMatch ==
  ASSUME NEW c, NEW spec, NEW dev \in AllDevices
  PROVE  ~Empty(zoneMatchExpr(c, spec)) /\ dev \in Within(zoneMatchExpr(c, spec), AllDevices)
           <=> InZone(c, dev, spec)
  BY DEF Empty, Within, zoneMatchExpr, Unrestricted, OneOf, InZone

LEMMA ScheduleMatch ==
  ASSUME NEW sched \in {"none", "hours"}, NEW now \in BOOLEAN
  PROVE  /\ scheduleMatchExpr(sched).ok
         /\ now \in scheduleMatchExpr(sched).when <=> (sched = "hours" => now)
<1>1. CASE sched = "none"
  BY <1>1 DEF scheduleMatchExpr
<1>2. CASE sched = "hours"
  BY <1>2 DEF scheduleMatchExpr
<1> QED
  BY <1>1, <1>2

(* A local policy is rendered to a rule that matches what the policy       *)
(* speaks of, from internal devices.                                       *)
LEMMA LocalPolicyMatch ==
  ASSUME NEW c, IsConfig(c), ValidateCandidate(c), NEW r, OnItsWay(r),
         NEW i \in DOMAIN c.policies
  PROVE  LET pol == c.policies[i] IN
         RendersLocally(c, pol) /\ Matches(LocalRule(c, pol), r)
           <=> r.in \in lanDevices(c) /\ SpeaksLocally(c, pol, r)
<1> DEFINE pol == c.policies[i]
           services == UNION LocalService(c, pol).sets
           match == objectMatchExpr(c, pol.srcObj)
           when == scheduleMatchExpr(pol.sched).when
           devices == localPolicyDevices(c, pol.srcZone)
<1>1. IsPolicy(pol)
  BY PolicyForm
<1> SUFFICES ASSUME pol.on, pol.local
             PROVE  RendersLocally(c, pol) /\ Matches(LocalRule(c, pol), r)
                      <=> r.in \in lanDevices(c) /\ SpeaksLocally(c, pol, r)
  BY DEF RendersLocally, SpeaksLocally
<1>2. LocalService(c, pol).ok
  BY ValidPolicy DEF LocalService, validatePolicyService
<1>3. r.svc \in services <=> IF pol.id = MgmtAPIPolicyID THEN r.svc = <<"tcp", c.apiPort>>
                             ELSE InService(c, r.svc, pol.service)
  BY DEF LocalService, InService
<1>4. scheduleMatchExpr(pol.sched).ok /\ (r.now \in when <=> (pol.sched = "hours" => r.now))
  <2>1. pol.sched \in {"none", "hours"}
    BY <1>1, ValidPolicy DEF IsPolicy, validatePolicySchedule
  <2> QED
    BY <2>1, ScheduleMatch DEF OnItsWay
<1>5. ~Empty(match) /\ r.src \in Within(match, Addr) <=> InObject(c, r.src, pol.srcObj)
  BY ObjectMatch DEF OnItsWay
<1>6. r.in \in devices <=> r.in \in lanDevices(c) /\ InZone(c, r.in, pol.srcZone)
  BY DEF localPolicyDevices, InZone
<1>7. actionVerdictExpr(LocalAction(pol)).ok <=> pol.action \in {"", "accept", "drop", "reject"}
  BY DEF actionVerdictExpr, LocalAction
<1>8. Matches(LocalRule(c, pol), r) <=>
        r.in \in devices /\ r.src \in Within(match, Addr) /\ r.now \in when /\ r.svc \in services
  BY DEF Matches, LocalRule, Always, OnItsWay, AllDevices
<1>9. RendersLocally(c, pol) <=>
        /\ actionVerdictExpr(LocalAction(pol)).ok
        /\ LocalService(c, pol).ok
        /\ scheduleMatchExpr(pol.sched).ok
        /\ ~Empty(match)
  BY DEF RendersLocally
<1>10. SpeaksLocally(c, pol, r) <=>
        /\ pol.action \in {"", "accept", "drop", "reject"}
        /\ InZone(c, r.in, pol.srcZone) /\ InObject(c, r.src, pol.srcObj)
        /\ IF pol.id = MgmtAPIPolicyID THEN r.svc = <<"tcp", c.apiPort>>
           ELSE InService(c, r.svc, pol.service)
        /\ pol.sched = "hours" => r.now
  BY DEF SpeaksLocally
<1> HIDE DEF pol, services, match, when, devices
<1> QED
  BY <1>2, <1>3, <1>4, <1>5, <1>6, <1>7, <1>8, <1>9, <1>10

(* What nothing speaks of from the policies on goes on; else the first     *)
(* that speaks of it decides.                                              *)
LEMMA LocalPoliciesDecide ==
  ASSUME NEW c, IsConfig(c), ValidateCandidate(c), NEW r, OnItsWay(r)
  PROVE  LET speaking == {i \in DOMAIN c.policies : SpeaksLocally(c, c.policies[i], r)} IN
         /\ IsChain(LocalPolicies(c))
         /\ \A d : FirstMatch(LocalPolicies(c), r, d) =
              IF r.in \in lanDevices(c) /\ speaking # {}
              THEN LocalAction(c.policies[Min(speaking)]) ELSE d
<1> DEFINE chain == LocalPolicies(c)
           speaking == {i \in DOMAIN c.policies : SpeaksLocally(c, c.policies[i], r)}
           hits == {i \in DOMAIN chain : Matches(chain[i], r)}
<1>1. /\ DOMAIN chain = DOMAIN c.policies
      /\ \A i \in DOMAIN c.policies :
           chain[i] = IF RendersLocally(c, c.policies[i])
                      THEN LocalRule(c, c.policies[i]) ELSE Nothing
      /\ chain = [i \in DOMAIN c.policies |-> chain[i]]
  BY DEF LocalPolicies, RulesOf
<1>2. IsChain(chain)
  <2> HIDE DEF chain
  <2> QED
    BY <1>1, PolicyForm, TableIsChain
<1>3. \A i \in DOMAIN c.policies :
        Matches(chain[i], r) <=> r.in \in lanDevices(c) /\ SpeaksLocally(c, c.policies[i], r)
  <2> HIDE DEF chain
  <2> QED
    BY <1>1, LocalPolicyMatch, NothingMatches
<1>4. hits = IF r.in \in lanDevices(c) THEN speaking ELSE {}
  <2> HIDE DEF chain
  <2> QED
    BY <1>1, <1>3
<1>5. \A i \in hits : chain[i].verdict = LocalAction(c.policies[i])
  <2> SUFFICES ASSUME NEW i \in hits PROVE chain[i].verdict = LocalAction(c.policies[i])
    OBVIOUS
  <2>1. i \in DOMAIN c.policies /\ Matches(chain[i], r)
    BY <1>1
  <2> HIDE DEF chain
  <2>2. chain[i] = LocalRule(c, c.policies[i])
    BY <1>1, <2>1, NothingMatches
  <2> QED
    BY <2>2 DEF LocalRule, Always
<1>6. hits # {} => Min(hits) \in hits
  <2> HIDE DEF chain
  <2>1. hits \in SUBSET Nat
    BY <1>1, PolicyForm
  <2> HIDE DEF hits
  <2> QED
    BY <2>1, MinIsLeast
<1>7. \A d : FirstMatch(chain, r, d) = IF hits = {} THEN d ELSE chain[Min(hits)].verdict
  BY DEF FirstMatch
<1> HIDE DEF chain, hits, speaking
<1>8. \A d : FirstMatch(chain, r, d) =
              IF r.in \in lanDevices(c) /\ speaking # {}
              THEN LocalAction(c.policies[Min(speaking)]) ELSE d
  BY <1>4, <1>5, <1>6, <1>7
<1> QED
  BY <1>2, <1>8 DEF chain, speaking
-----------------------------------------------------------------------------
(* The chain for packets to the box itself *)

(* Own services on internal networks, one after the other.                 *)
LEMMA OwnServicesOpen ==
  ASSUME NEW c, NEW r, OnItsWay(r)
  PROVE  /\ IsChain(OwnServices(c))
         /\ \A d : FirstMatch(OwnServices(c), r, d) =
              IF r.in \in dhcpDevices(c) /\ r.svc = <<"udp", 67>> THEN "accept"
              ELSE IF r.in \in lanDevices(c) /\ c.ntp /\ r.svc = <<"udp", 123>> THEN "accept"
              ELSE IF r.in \in lanDevices(c) /\ c.dns /\ r.svc = <<"udp", 53>>
                   THEN IF r.flood THEN "drop" ELSE "accept"
              ELSE IF r.in \in lanDevices(c) /\ c.dns /\ r.svc = <<"tcp", 53>> THEN "accept"
              ELSE d
<1> DEFINE lan == lanDevices(c)
           dhcp == <<Open(dhcpDevices(c), {<<"udp", 67>>})>>
           time == <<Open(lan, {<<"udp", 123>>})>>
           query == <<"udp", 53>>
           udp == Metered(lan, query)
           tcp == <<Open(lan, {<<"tcp", 53>>})>>
           ntp == IF c.ntp THEN time ELSE <<>>
           dns == IF c.dns THEN udp \o tcp ELSE <<>>
<1>1. OwnServices(c) = (dhcp \o ntp) \o dns
  BY DEF OwnServices, Open
<1>2. /\ IsChain(dhcp)
      /\ \A d : FirstMatch(dhcp, r, d) =
           IF r.in \in dhcpDevices(c) /\ r.svc \in {<<"udp", 67>>} THEN "accept" ELSE d
  BY OpenPort
<1>3. /\ IsChain(time)
      /\ \A d : FirstMatch(time, r, d) =
           IF r.in \in lan /\ r.svc \in {<<"udp", 123>>} THEN "accept" ELSE d
  BY OpenPort
<1>4. /\ IsChain(tcp)
      /\ \A d : FirstMatch(tcp, r, d) =
           IF r.in \in lan /\ r.svc \in {<<"tcp", 53>>} THEN "accept" ELSE d
  BY OpenPort
<1>5. /\ IsChain(udp)
      /\ \A d : FirstMatch(udp, r, d) =
           IF r.in \in lan /\ r.svc = query
           THEN IF r.flood THEN "drop" ELSE "accept" ELSE d
  <2> HIDE DEF lan, query
  <2> QED
    BY MeteredPort
<1> HIDE DEF lan, dhcp, time, udp, tcp, query
<1>6. /\ IsChain(ntp)
      /\ \A d : FirstMatch(ntp, r, d) =
           IF r.in \in lan /\ c.ntp /\ r.svc = <<"udp", 123>> THEN "accept" ELSE d
  BY <1>3, NoRule
<1>7. /\ IsChain(udp \o tcp)
      /\ \A d : FirstMatch(udp \o tcp, r, d) = FirstMatch(udp, r, FirstMatch(tcp, r, d))
  BY <1>4, <1>5, OneAfterTheOther
<1>8. /\ IsChain(dns)
      /\ \A d : FirstMatch(dns, r, d) =
           IF c.dns THEN FirstMatch(udp, r, FirstMatch(tcp, r, d)) ELSE d
  BY <1>7, NoRule
<1> HIDE DEF ntp, dns
<1>9. /\ IsChain(dhcp \o ntp)
      /\ \A d : FirstMatch(dhcp \o ntp, r, d) = FirstMatch(dhcp, r, FirstMatch(ntp, r, d))
  BY <1>2, <1>6, OneAfterTheOther
<1> DEFINE both == dhcp \o ntp
<1>10. IsChain(both)
  BY <1>9
<1>11. /\ IsChain(both \o dns)
       /\ \A d : FirstMatch(both \o dns, r, d) = FirstMatch(both, r, FirstMatch(dns, r, d))
  <2> HIDE DEF both
  <2> QED
    BY <1>8, <1>10, OneAfterTheOther
<1>12. \A d : FirstMatch(OwnServices(c), r, d) =
                FirstMatch(dhcp, r, FirstMatch(ntp, r, FirstMatch(dns, r, d)))
  BY <1>1, <1>9, <1>11
<1>13. /\ \A d : FirstMatch(dns, r, d) =
            IF r.in \in lan /\ c.dns /\ r.svc = query
            THEN IF r.flood THEN "drop" ELSE "accept"
            ELSE IF r.in \in lan /\ c.dns /\ r.svc = <<"tcp", 53>> THEN "accept" ELSE d
  BY <1>4, <1>5, <1>8
<1>14. \A d : FirstMatch(OwnServices(c), r, d) =
         IF r.in \in dhcpDevices(c) /\ r.svc = <<"udp", 67>> THEN "accept"
         ELSE IF r.in \in lan /\ c.ntp /\ r.svc = <<"udp", 123>> THEN "accept"
         ELSE IF r.in \in lan /\ c.dns /\ r.svc = query
              THEN IF r.flood THEN "drop" ELSE "accept"
         ELSE IF r.in \in lan /\ c.dns /\ r.svc = <<"tcp", 53>> THEN "accept"
         ELSE d
  BY <1>2, <1>6, <1>12, <1>13
<1>15. IsChain(OwnServices(c))
  BY <1>1, <1>11
<1> QED
  BY <1>14, <1>15 DEF lan, query

LEMMA DhcpIsInside ==
  ASSUME NEW c
  PROVE  dhcpDevices(c) \subseteq lanDevices(c)
  BY DEF dhcpDevices, lanDevices, DevicesWhere

(* What nobody decided before is offered to internal networks, or refused. *)
LEMMA InsideOffers ==
  ASSUME NEW c, NEW r, OnItsWay(r)
  PROVE  FirstMatch(OwnServices(c), r, FirstMatch(SniPorts(c, lanDevices(c)), r, "drop"))
           = IF r.in \in lanDevices(c) /\ OfferedInside(c, r) THEN "accept" ELSE "drop"
<1> DEFINE rest == FirstMatch(SniPorts(c, lanDevices(c)), r, "drop")
<1>1. rest = IF r.in \in lanDevices(c) /\ r.svc \in SharedPorts(c) THEN "accept" ELSE "drop"
  BY SharedPortsOpen
<1>2. r.svc = <<"udp", 53>> => r.svc \notin SharedPorts(c)
  BY DEF SharedPorts
<1> HIDE DEF rest
<1>3. FirstMatch(OwnServices(c), r, rest) =
        IF r.in \in dhcpDevices(c) /\ r.svc = <<"udp", 67>> THEN "accept"
        ELSE IF r.in \in lanDevices(c) /\ c.ntp /\ r.svc = <<"udp", 123>> THEN "accept"
        ELSE IF r.in \in lanDevices(c) /\ c.dns /\ r.svc = <<"udp", 53>>
             THEN IF r.flood THEN "drop" ELSE "accept"
        ELSE IF r.in \in lanDevices(c) /\ c.dns /\ r.svc = <<"tcp", 53>> THEN "accept"
        ELSE rest
  BY OwnServicesOpen
<1> DEFINE accepts == r.in \in lanDevices(c) /\ OfferedInside(c, r)
<1>4. accepts <=>
        \/ r.in \in lanDevices(c) /\ r.svc \in SharedPorts(c)
        \/ r.in \in dhcpDevices(c) /\ r.svc = <<"udp", 67>>
        \/ r.in \in lanDevices(c) /\ c.ntp /\ r.svc = <<"udp", 123>>
        \/ r.in \in lanDevices(c) /\ c.dns /\ r.svc = <<"tcp", 53>>
        \/ r.in \in lanDevices(c) /\ c.dns /\ r.svc = <<"udp", 53>> /\ ~r.flood
  BY DhcpIsInside DEF OfferedInside
<1>5. /\ r.svc = <<"udp", 67>> => r.svc # <<"udp", 53>>
      /\ r.svc = <<"udp", 123>> => r.svc # <<"udp", 53>>
      /\ r.svc = <<"tcp", 53>> => r.svc # <<"udp", 53>>
  OBVIOUS
<1> HIDE DEF accepts
<1>6. FirstMatch(OwnServices(c), r, rest) = IF accepts THEN "accept" ELSE "drop"
  BY <1>1, <1>2, <1>3, <1>4, <1>5
<1> QED
  BY <1>6 DEF rest, accepts

(* The whole chain.                                                        *)
LEMMA InputDecides ==
  ASSUME NEW c, IsConfig(c), ValidateCandidate(c), NEW r, OnItsWay(r)
  PROVE  FirstMatch(InputChain(c), r, "drop") = "accept" <=> r.est \/ MayEnter(c, r)
<1> DEFINE s1 == <<[Always("accept") EXCEPT !.in = {"lo"}]>>
           s2 == Established("accept")
           s3 == VpnBlock(c)
           s4 == WireGuard(c)
           s5 == OpenVPN(c)
           s6 == SniPorts(c, wanDevices(c))
           s7 == HardWanDrop(c)
           s8 == LocalPolicies(c)
           s9 == OwnServices(c)
           s10 == SniPorts(c, lanDevices(c))
           s11 == <<Always("drop")>>
<1>1. /\ IsChain(s1) /\ IsChain(s2) /\ IsChain(s3) /\ IsChain(s4) /\ IsChain(s5)
      /\ IsChain(s6) /\ IsChain(s7) /\ IsChain(s8) /\ IsChain(s9) /\ IsChain(s10)
      /\ IsChain(s11)
  BY LoopbackOnly, EstablishedFirst, BlockedAreDropped, VpnPortsMetered, SharedPortsOpen,
     OutsideIsDropped, LocalPoliciesDecide, OwnServicesOpen, RestIsDropped
<1>2. InputChain(c) = s1 \o s2 \o s3 \o s4 \o s5 \o s6 \o s7 \o s8 \o s9 \o s10 \o s11
  BY DEF InputChain
<1> DEFINE F(s, d) == FirstMatch(s, r, d)
           speaking == {i \in DOMAIN c.policies : SpeaksLocally(c, c.policies[i], r)}
<1>3. /\ \A d : F(s1, d) = d
      /\ \A d : F(s2, d) = IF r.est THEN "accept" ELSE d
      /\ \A d : F(s3, d) = IF AutoBlocked(c, r.src) THEN "drop" ELSE d
      /\ \A d : F(s4, F(s5, d)) = IF r.in \in wanDevices(c) /\ r.svc \in VpnPorts(c)
                                  THEN IF r.flood THEN "drop" ELSE "accept" ELSE d
      /\ \A d : F(s6, d) = IF r.in \in wanDevices(c) /\ r.svc \in SharedPorts(c)
                           THEN "accept" ELSE d
      /\ \A d : F(s7, d) = IF r.in \in wanDevices(c) THEN "drop" ELSE d
      /\ \A d : F(s8, d) = IF r.in \in lanDevices(c) /\ speaking # {}
                           THEN LocalAction(c.policies[Min(speaking)]) ELSE d
      /\ F(s9, F(s10, "drop")) = IF r.in \in lanDevices(c) /\ OfferedInside(c, r)
                                 THEN "accept" ELSE "drop"
      /\ \A d : F(s11, d) = "drop"
  <2>1. \A d : F(s1, d) = d
    BY LoopbackOnly
  <2>2. \A d : F(s2, d) = IF r.est THEN "accept" ELSE d
    BY EstablishedFirst
  <2>3. \A d : F(s3, d) = IF AutoBlocked(c, r.src) THEN "drop" ELSE d
    BY BlockedAreDropped
  <2>4. \A d : F(s4, F(s5, d)) = IF r.in \in wanDevices(c) /\ r.svc \in VpnPorts(c)
                                 THEN IF r.flood THEN "drop" ELSE "accept" ELSE d
    BY VpnPortsMetered
  <2>5. \A d : F(s6, d) = IF r.in \in wanDevices(c) /\ r.svc \in SharedPorts(c)
                          THEN "accept" ELSE d
    BY SharedPortsOpen
  <2>6. \A d : F(s7, d) = IF r.in \in wanDevices(c) THEN "drop" ELSE d
    BY OutsideIsDropped
  <2>7. \A d : F(s8, d) = IF r.in \in lanDevices(c) /\ speaking # {}
                          THEN LocalAction(c.policies[Min(speaking)]) ELSE d
    BY LocalPoliciesDecide
  <2>8. /\ F(s9, F(s10, "drop")) = IF r.in \in lanDevices(c) /\ OfferedInside(c, r)
                                   THEN "accept" ELSE "drop"
        /\ \A d : F(s11, d) = "drop"
    BY InsideOffers, RestIsDropped
  <2> QED
    BY <2>1, <2>2, <2>3, <2>4, <2>5, <2>6, <2>7, <2>8
<1>4. MayEnter(c, r) <=>
        /\ ~AutoBlocked(c, r.src)
        /\ \/ /\ r.in \in wanDevices(c)
              /\ r.svc \in SharedPorts(c) \/ r.svc \in VpnPorts(c)
              /\ r.flood => r.svc \notin VpnPorts(c)
           \/ /\ r.in \in lanDevices(c) /\ r.in \notin wanDevices(c)
              /\ IF speaking # {} THEN LocalAction(c.policies[Min(speaking)]) = "accept"
                 ELSE OfferedInside(c, r)
  BY DEF MayEnter, OfferedOutside
<1> HIDE DEF s1, s2, s3, s4, s5, s6, s7, s8, s9, s10, s11, speaking
<1>5. F(InputChain(c), "drop") =
        F(s1, F(s2, F(s3, F(s4, F(s5, F(s6, F(s7, F(s8, F(s9, F(s10, F(s11, "drop")))))))))))
  BY <1>1, <1>2, OneAfterTheOther
<1>6. r.est \in BOOLEAN /\ r.flood \in BOOLEAN
  BY DEF OnItsWay
<1> HIDE DEF F
<1>7. F(InputChain(c), "drop") = "accept" <=> r.est \/ MayEnter(c, r)
  BY <1>3, <1>4, <1>5, <1>6
<1> QED
  BY <1>7 DEF F
-----------------------------------------------------------------------------
(* The chain for packets through the box *)

LEMMA ServiceMatch ==
  ASSUME NEW c, NEW svc, NEW ref
  PROVE  svc \in UNION resolveServiceMatchExprSets(c, ref).sets <=> InService(c, svc, ref)
  BY DEF InService

(* A filter policy is rendered to a rule that matches what it speaks of.   *)
LEMMA FilterPolicyMatch ==
  ASSUME NEW c, IsConfig(c), ValidateCandidate(c), NEW r, OnItsWay(r),
         NEW i \in DOMAIN c.policies, c.policies[i].on, ~c.policies[i].local,
         c.policies[i].id # VpnBlockPolicyID, c.policies[i].action # "dnat"
  PROVE  LET pol == c.policies[i] IN
         RendersForward(c, pol) /\ Matches(FilterRule(c, pol), r) <=> Speaks(c, pol, r)
<1> DEFINE pol == c.policies[i]
           src == objectMatchExpr(c, pol.srcObj)
           dst == objectMatchExpr(c, pol.dstObj)
           from == zoneMatchExpr(c, pol.srcZone)
           to == zoneMatchExpr(c, pol.dstZone)
           when == scheduleMatchExpr(pol.sched).when
           service == resolveServiceMatchExprSets(c, pol.service)
<1>1. IsPolicy(pol)
  BY PolicyForm
<1>2. service.ok
  BY ValidPolicy DEF validatePolicyService
<1>3. scheduleMatchExpr(pol.sched).ok /\ (r.now \in when <=> (pol.sched = "hours" => r.now))
  <2>1. pol.sched \in {"none", "hours"}
    BY <1>1, ValidPolicy DEF IsPolicy, validatePolicySchedule
  <2> QED
    BY <2>1, ScheduleMatch DEF OnItsWay
<1>4. /\ ~Empty(src) /\ r.src \in Within(src, Addr) <=> InObject(c, r.src, pol.srcObj)
      /\ ~Empty(dst) /\ r.dst \in Within(dst, Addr) <=> InObject(c, r.dst, pol.dstObj)
  BY ObjectMatch DEF OnItsWay
<1>5. r.in \in AllDevices /\ r.out \in AllDevices
  BY DEF OnItsWay, AllDevices
<1>6. /\ ~Empty(from) /\ r.in \in Within(from, AllDevices) <=> InZone(c, r.in, pol.srcZone)
      /\ ~Empty(to) /\ r.out \in Within(to, AllDevices) <=> InZone(c, r.out, pol.dstZone)
  BY <1>5, ZoneMatch
<1>7. r.svc \in UNION service.sets <=> InService(c, r.svc, pol.service)
  BY ServiceMatch
<1>8. Matches(FilterRule(c, pol), r) <=>
        /\ r.in \in Within(from, AllDevices) /\ r.out \in Within(to, AllDevices)
        /\ r.src \in Within(src, Addr) /\ r.dst \in Within(dst, Addr)
        /\ r.now \in when /\ r.svc \in UNION service.sets
  BY DEF Matches, FilterRule, Always, OnItsWay
<1>9. RendersForward(c, pol) <=>
        /\ ~Empty(src) /\ ~Empty(dst) /\ ~Empty(from) /\ ~Empty(to)
        /\ pol.action \in {"accept", "drop", "reject"}
        /\ service.ok /\ scheduleMatchExpr(pol.sched).ok
  BY DEF RendersForward, isDnat, actionVerdictExpr
<1>10. Speaks(c, pol, r) <=>
        /\ pol.action \in {"accept", "drop", "reject"}
        /\ InZone(c, r.in, pol.srcZone) /\ InZone(c, r.out, pol.dstZone)
        /\ InObject(c, r.src, pol.srcObj) /\ InObject(c, r.dst, pol.dstObj)
        /\ InService(c, r.svc, pol.service)
        /\ pol.sched = "hours" => r.now
  BY DEF Speaks
<1> HIDE DEF pol, src, dst, from, to, when, service
<1>11. RendersForward(c, pol) /\ Matches(FilterRule(c, pol), r) <=> Speaks(c, pol, r)
  BY <1>2, <1>3, <1>4, <1>6, <1>7, <1>8, <1>9, <1>10
<1> QED
  BY <1>11 DEF pol

(* A port forward is rendered to a rule that matches what was translated   *)
(* to its target.                                                          *)
LEMMA DnatPolicyMatch ==
  ASSUME NEW c, IsConfig(c), ValidateCandidate(c), NEW r, OnItsWay(r),
         NEW i \in DOMAIN c.policies, c.policies[i].on, ~c.policies[i].local,
         c.policies[i].id # VpnBlockPolicyID, c.policies[i].action = "dnat"
  PROVE  LET pol == c.policies[i] IN
         /\ isDnat(pol) /\ RendersForward(c, pol)
         /\ Matches(DnatRule(pol), r) <=> Speaks(c, pol, r)
<1> DEFINE pol == c.policies[i]
<1>1. pol.nat # NoNat /\ validPort(pol.nat.intPort)
  BY ValidPolicy DEF validatePolicyNAT
<1>2. pol.nat.intPort > 0
  BY <1>1, Places
<1>3. isDnat(pol) /\ RendersForward(c, pol)
  BY <1>1 DEF isDnat, RendersForward
<1>4. Matches(DnatRule(pol), r) <=>
        /\ r.dnat /\ r.dst = pol.nat.intIP
        /\ r.svc = <<NatProto(pol.nat), pol.nat.intPort>>
  <2> DEFINE service == <<NatProto(pol.nat), pol.nat.intPort>>
  <2>1. DnatRule(pol) = [Always("accept") EXCEPT !.dnat = {TRUE}, !.dst = {pol.nat.intIP},
                                                 !.svc = {service}]
    BY <1>2 DEF DnatRule
  <2> HIDE DEF service, pol
  <2> DEFINE target == pol.nat.intIP
             rule == [Always("accept") EXCEPT !.dnat = {TRUE}, !.dst = {target},
                                              !.svc = {service}]
  <2> HIDE DEF target
  <2>2. Matches(rule, r) <=> r.dnat /\ r.dst = target /\ r.svc = service
    BY DEF Matches, Always, OnItsWay, AllDevices
  <2> USE DEF target
  <2>3. Matches(DnatRule(pol), r) <=> r.dnat /\ r.dst = pol.nat.intIP /\ r.svc = service
    BY <2>1, <2>2
  <2> QED
    BY <2>3 DEF service
<1>5. Speaks(c, pol, r) <=>
        /\ r.dnat /\ r.dst = pol.nat.intIP
        /\ r.svc = <<NatProto(pol.nat), pol.nat.intPort>>
  BY DEF Speaks
<1> QED
  BY <1>3, <1>4, <1>5

LEMMA ForwardPolicyMatch ==
  ASSUME NEW c, IsConfig(c), ValidateCandidate(c), NEW r, OnItsWay(r),
         NEW i \in DOMAIN c.policies
  PROVE  LET pol == c.policies[i] IN
         /\ RendersForward(c, pol) /\ Matches(ForwardRule(c, pol), r) <=> Speaks(c, pol, r)
         /\ RendersForward(c, pol) =>
              (ForwardRule(c, pol).verdict = "accept" <=> pol.action \in {"accept", "dnat"})
<1> DEFINE pol == c.policies[i]
<1>1. CASE ~pol.on \/ pol.local \/ pol.id = VpnBlockPolicyID
  BY <1>1 DEF RendersForward, Speaks
<1>2. CASE pol.on /\ ~pol.local /\ pol.id # VpnBlockPolicyID /\ pol.action # "dnat"
  <2>1. ForwardRule(c, pol) = FilterRule(c, pol) /\ FilterRule(c, pol).verdict = pol.action
    BY <1>2 DEF ForwardRule, isDnat, FilterRule, Always
  <2> QED
    BY <1>2, <2>1, FilterPolicyMatch
<1>3. CASE pol.on /\ ~pol.local /\ pol.id # VpnBlockPolicyID /\ pol.action = "dnat"
  <2>1. isDnat(pol) /\ RendersForward(c, pol) /\ (Matches(DnatRule(pol), r) <=> Speaks(c, pol, r))
    BY <1>3, DnatPolicyMatch
  <2>2. ForwardRule(c, pol) = DnatRule(pol) /\ DnatRule(pol).verdict = "accept"
    BY <2>1 DEF ForwardRule, DnatRule, Always
  <2> QED
    BY <1>3, <2>1, <2>2
<1> QED
  BY <1>1, <1>2, <1>3

ForwardRules(c) ==
  RulesOf(c, LAMBDA pol : RendersForward(c, pol), LAMBDA pol : ForwardRule(c, pol))

(* The first policy that speaks of a packet decides on it.                 *)
LEMMA ForwardPoliciesDecide ==
  ASSUME NEW c, IsConfig(c), ValidateCandidate(c), NEW r, OnItsWay(r)
  PROVE  LET speaking == {i \in DOMAIN c.policies : Speaks(c, c.policies[i], r)} IN
         /\ IsChain(ForwardRules(c))
         /\ FirstMatch(ForwardRules(c), r, "drop") = "accept" <=>
              speaking # {} /\ c.policies[Min(speaking)].action \in {"accept", "dnat"}
<1> DEFINE chain == ForwardRules(c)
           speaking == {i \in DOMAIN c.policies : Speaks(c, c.policies[i], r)}
<1>1. /\ DOMAIN chain = DOMAIN c.policies
      /\ \A i \in DOMAIN c.policies :
           chain[i] = IF RendersForward(c, c.policies[i])
                      THEN ForwardRule(c, c.policies[i]) ELSE Nothing
      /\ chain = [i \in DOMAIN c.policies |-> chain[i]]
  BY DEF ForwardRules, RulesOf
<1> HIDE DEF chain
<1>2. IsChain(chain)
  BY <1>1, PolicyForm, TableIsChain
<1>3. \A i \in DOMAIN c.policies : Matches(chain[i], r) <=> Speaks(c, c.policies[i], r)
  BY <1>1, ForwardPolicyMatch, NothingMatches
<1>4. {i \in DOMAIN chain : Matches(chain[i], r)} = speaking
  BY <1>1, <1>3
<1>5. FirstMatch(chain, r, "drop") = IF speaking = {} THEN "drop" ELSE chain[Min(speaking)].verdict
  BY <1>4 DEF FirstMatch
<1>6. \A i \in speaking :
        chain[i].verdict = "accept" <=> c.policies[i].action \in {"accept", "dnat"}
  <2> SUFFICES ASSUME NEW i \in speaking
               PROVE  chain[i].verdict = "accept" <=> c.policies[i].action \in {"accept", "dnat"}
    OBVIOUS
  <2>1. i \in DOMAIN c.policies /\ RendersForward(c, c.policies[i])
    BY ForwardPolicyMatch
  <2> QED
    BY <1>1, <2>1, ForwardPolicyMatch
<1>7. speaking # {} => Min(speaking) \in speaking
  <2>1. speaking \in SUBSET Nat
    BY PolicyForm
  <2> HIDE DEF speaking
  <2> QED
    BY <2>1, MinIsLeast
<1> HIDE DEF speaking
<1>8. FirstMatch(chain, r, "drop") = "accept" <=>
        speaking # {} /\ c.policies[Min(speaking)].action \in {"accept", "dnat"}
  BY <1>5, <1>6, <1>7
<1> QED
  BY <1>2, <1>8 DEF chain, speaking

LEMMA ForwardDecides ==
  ASSUME NEW c, IsConfig(c), ValidateCandidate(c), NEW r, OnItsWay(r)
  PROVE  FirstMatch(ForwardChain(c), r, "drop") = "accept" <=> r.est \/ MayForward(c, r)
<1> DEFINE s1 == Established("accept")
           s2 == VpnBlock(c)
           s3 == ForwardRules(c)
           s4 == <<Always("drop")>>
<1>1. IsChain(s1) /\ IsChain(s2) /\ IsChain(s3) /\ IsChain(s4)
  BY EstablishedFirst, BlockedAreDropped, ForwardPoliciesDecide, RestIsDropped
<1>2. ForwardChain(c) = s1 \o s2 \o s3 \o s4
  BY DEF ForwardChain, ForwardRules
<1> DEFINE F(s, d) == FirstMatch(s, r, d)
<1>3. /\ \A d : F(s1, d) = IF r.est THEN "accept" ELSE d
      /\ \A d : F(s2, d) = IF AutoBlocked(c, r.src) THEN "drop" ELSE d
      /\ F(s4, "drop") = "drop"
  BY EstablishedFirst, BlockedAreDropped, RestIsDropped
<1>4. MayForward(c, r) <=> ~AutoBlocked(c, r.src) /\ F(s3, "drop") = "accept"
  BY ForwardPoliciesDecide DEF MayForward
<1> HIDE DEF s1, s2, s3, s4
<1>5. F(ForwardChain(c), "drop") = F(s1, F(s2, F(s3, F(s4, "drop"))))
  BY <1>1, <1>2, OneAfterTheOther
<1>6. r.est \in BOOLEAN
  BY DEF OnItsWay
<1> HIDE DEF F
<1>7. F(ForwardChain(c), "drop") = "accept" <=> r.est \/ MayForward(c, r)
  BY <1>3, <1>4, <1>5, <1>6
<1> QED
  BY <1>7 DEF F
-----------------------------------------------------------------------------
(* Translation and routing *)

LEMMA RuleSet ==
  ASSUME NEW c
  PROVE  LET rules == RenderJSON(c) IN
         /\ rules.input = InputChain(c)
         /\ rules.forward = IF c.mode = "host" THEN <<>> ELSE ForwardChain(c)
         /\ rules.prerouting = IF c.mode = "host" THEN <<>> ELSE Prerouting(c)
         /\ rules.postrouting = IF c.mode = "host" THEN <<>> ELSE Postrouting(c)
  BY DEF RenderJSON

(* The address outside is one of the box's own.                            *)
LEMMA OuterAddress ==
  ASSUME NEW c, IsConfig(c)
  PROVE  primaryWANAddress(c) \in SelfAddr \cup {NoAddr}
<1> DEFINE known == {i \in DOMAIN c.ifaces : /\ c.ifaces[i].on
                                             /\ c.ifaces[i].zone = "WAN"
                                             /\ c.ifaces[i].addr # NoAddr}
<1>1. /\ Len(c.ifaces) \in Nat /\ DOMAIN c.ifaces = 1 .. Len(c.ifaces)
      /\ \A i \in DOMAIN c.ifaces : c.ifaces[i] \in IfaceType
  BY LenProperties DEF IsConfig
<1>2. known \in SUBSET Nat /\ \A i \in known : c.ifaces[i].addr \in SelfAddr \cup {NoAddr}
  BY <1>1 DEF IfaceType
<1>3. primaryWANAddress(c) = IF known = {} THEN NoAddr ELSE c.ifaces[Min(known)].addr
  BY DEF primaryWANAddress
<1> HIDE DEF known
<1> QED
  BY <1>2, <1>3, MinIsLeast

(* What a rule of prerouting stands for.                                   *)
Redirects(c, pol, a, to) ==
  /\ to = Target(pol.nat)
  /\ a.svc = <<NatProto(pol.nat), pol.nat.extPort>>
  /\ a.in \in wanDevices(c) \/ a.dst \in SelfAddr \cup {pol.nat.extIP}
  /\ wanDevices(c) # {}

LEMMA DnatRulesMatch ==
  ASSUME NEW c, IsConfig(c), NEW pol, NEW a, OnItsWay(a), NEW k \in {1, 2},
         Matches(DnatRules(c, pol)[k], a)
  PROVE  Redirects(c, pol, a, DnatRules(c, pol)[k].verdict)
<1> DEFINE service == <<NatProto(pol.nat), pol.nat.extPort>>
           external == IF pol.nat.extIP # NoAddr THEN pol.nat.extIP ELSE primaryWANAddress(c)
           meant == IF pol.nat.extIP # NoAddr THEN {pol.nat.extIP} ELSE Addr
           target == Target(pol.nat)
           wan == wanDevices(c)
           incoming == [Always(target) EXCEPT !.in = wan, !.svc = {service}, !.dst = meant]
           hairpin == [Always(target) EXCEPT !.in = AllDevices \ wan, !.svc = {service},
                                             !.dst = {external}]
           rules == DnatRules(c, pol)
<1>1. rules = IF wan = {} THEN <<Nothing, Nothing>>
              ELSE <<incoming, IF external = NoAddr THEN Nothing ELSE hairpin>>
  BY DEF DnatRules
<1>2. external \in SelfAddr \cup {pol.nat.extIP, NoAddr}
  BY OuterAddress
<1>3. a.dst # NoAddr
  BY PacketFilterConstants DEF OnItsWay
<1> HIDE DEF service, external, meant, target, wan, rules
<1>4. Matches(incoming, a) => a.in \in wan /\ a.svc = service
  BY DEF Matches, Always
<1>5. Matches(hairpin, a) => a.dst = external /\ a.svc = service
  BY DEF Matches, Always
<1>6. incoming.verdict = target /\ hairpin.verdict = target
  BY DEF Always
<1>7. ~Matches(Nothing, a)
  BY NothingMatches
<1> HIDE DEF incoming, hairpin
<1>8. \/ rules[k] = Nothing
      \/ wan # {} /\ (rules[k] = incoming \/ rules[k] = hairpin)
  <2>1. CASE wan = {}
    BY <1>1, <2>1
  <2>2. CASE wan # {}
    <3> DEFINE second == IF external = NoAddr THEN Nothing ELSE hairpin
    <3>1. rules = <<incoming, second>>
      BY <1>1, <2>2
    <3>2. second = Nothing \/ second = hairpin
      OBVIOUS
    <3> HIDE DEF second
    <3> QED
      BY <2>2, <3>1, <3>2
  <2> QED
    BY <2>1, <2>2
<1>9. Matches(rules[k], a)
  BY DEF rules
<1>10. rules[k].verdict = target /\ a.svc = service
         /\ (a.in \in wan \/ a.dst = external) /\ wan # {}
  BY <1>4, <1>5, <1>6, <1>7, <1>8, <1>9
<1> QED
  BY <1>2, <1>3, <1>10 DEF Redirects, rules, target, service, wan

LEMMA TranslatesOnlyItsOwn ==
  ASSUME NEW c, IsConfig(c), NEW a, OnItsWay(a)
  PROVE  LET to == FirstMatch(Prerouting(c), a, NoNat) IN
         to = NoNat \/ \E pol \in ActiveDNAT(c) : Redirects(c, pol, a, to)
<1> DEFINE chain == Prerouting(c)
           hits == {j \in DOMAIN chain : Matches(chain[j], a)}
           n == Len(c.policies)
<1>1. n \in Nat /\ DOMAIN c.policies = 1 .. n
  BY PolicyForm
<1>2. /\ DOMAIN chain = 1 .. 2 * n
      /\ \A j \in 1 .. 2 * n :
           LET pol == c.policies[(j + 1) \div 2] IN
           chain[j] = IF pol.on /\ isDnat(pol)
                      THEN DnatRules(c, pol)[IF j % 2 = 1 THEN 1 ELSE 2] ELSE Nothing
  BY DEF Prerouting
<1>3. \A j \in 1 .. 2 * n : (j + 1) \div 2 \in 1 .. n
  <2> HIDE DEF n
  <2> QED
    BY <1>1
<1> HIDE DEF chain, n
<1>4. ASSUME NEW j \in hits
      PROVE  \E pol \in ActiveDNAT(c) : Redirects(c, pol, a, chain[j].verdict)
  <2> DEFINE i == (j + 1) \div 2
             pol == c.policies[i]
             k == IF j % 2 = 1 THEN 1 ELSE 2
  <2>1. j \in 1 .. 2 * n /\ Matches(chain[j], a)
    BY <1>2
  <2>2. i \in DOMAIN c.policies
    BY <1>1, <1>3, <2>1
  <2>3. chain[j] = IF pol.on /\ isDnat(pol) THEN DnatRules(c, pol)[k] ELSE Nothing
    BY <1>2, <2>1
  <2>4. k \in {1, 2}
    OBVIOUS
  <2> HIDE DEF i, k
  <2>5. pol.on /\ isDnat(pol) /\ chain[j] = DnatRules(c, pol)[k]
    BY <2>1, <2>3, NothingMatches
  <2>6. pol \in ActiveDNAT(c)
    BY <2>2, <2>5 DEF ActiveDNAT, isDnat
  <2> HIDE DEF pol
  <2>7. Redirects(c, pol, a, DnatRules(c, pol)[k].verdict)
    BY <2>1, <2>4, <2>5, DnatRulesMatch
  <2> QED
    BY <2>5, <2>6, <2>7
<1>5. hits # {} => Min(hits) \in hits
  <2>1. hits \in SUBSET Nat
    BY <1>1, <1>2
  <2> HIDE DEF hits
  <2> QED
    BY <2>1, MinIsLeast
<1>6. FirstMatch(chain, a, NoNat) = IF hits = {} THEN NoNat ELSE chain[Min(hits)].verdict
  BY DEF FirstMatch
<1> HIDE DEF hits
<1>7. \/ FirstMatch(chain, a, NoNat) = NoNat
      \/ \E pol \in ActiveDNAT(c) : Redirects(c, pol, a, FirstMatch(chain, a, NoNat))
  BY <1>4, <1>5, <1>6
<1> QED
  BY <1>7 DEF chain
LEMMA ArrivedPacket ==
  ASSUME NEW p \in Packets, NEW now \in BOOLEAN
  PROVE  /\ OnItsWay(Arrived(p, now))
         /\ p.in \in Device /\ p.src \in Addr /\ p.dst \in Addr /\ p.svc \in AllServices
         /\ p.est \in BOOLEAN /\ p.flood \in BOOLEAN
<1>1. Packets \subseteq {q \in Packet : Home[q.src] = q.in /\ q.src # q.dst}
  BY PacketFilterConstants
<1>2. /\ p.in \in Device /\ p.src \in Addr /\ p.dst \in Addr /\ p.svc \in AllServices
      /\ p.est \in BOOLEAN /\ p.flood \in BOOLEAN
  BY <1>1 DEF Packet, Hosts
<1> QED
  BY <1>2 DEF OnItsWay, Arrived

LEMMA ActivePolicy ==
  ASSUME NEW c, IsConfig(c), NEW pol \in ActiveDNAT(c)
  PROVE  /\ pol.nat \in NatType /\ pol.nat.intIP \in Addr /\ isDnat(pol) /\ pol.on
         /\ IsPolicy(pol) /\ \E i \in DOMAIN c.policies : pol = c.policies[i]
         /\ ValidateCandidate(c) => validatePolicyNAT(pol)
<1>1. PICK i \in DOMAIN c.policies :
        /\ pol = c.policies[i] /\ pol.on /\ pol.action = "dnat" /\ pol.nat # NoNat
  BY DEF ActiveDNAT
<1>2. IsPolicy(pol)
  BY <1>1, PolicyForm
<1>3. pol.nat \in NatType
  BY <1>1, <1>2 DEF IsPolicy
<1>4. pol.nat.intIP \in Addr
  BY <1>3 DEF NatType
<1>5. ValidateCandidate(c) => validatePolicyNAT(pol)
  BY <1>1, ValidPolicy
<1> QED
  BY <1>1, <1>2, <1>3, <1>4, <1>5 DEF isDnat

(* A packet after translation: as it arrived, or sent to the target of a   *)
(* port forward that speaks of it.                                         *)
TranslatedTo(c, a, t) ==
  \/ t = a
  \/ /\ c.mode # "host" /\ ~a.est
     /\ \E pol \in ActiveDNAT(c) :
          /\ Redirects(c, pol, a, Target(pol.nat))
          /\ t = [a EXCEPT !.dst = pol.nat.intIP,
                           !.svc = <<a.svc[1], pol.nat.intPort>>, !.dnat = TRUE]

LEMMA TranslatedPacket ==
  ASSUME NEW c, IsConfig(c), NEW a, OnItsWay(a)
  PROVE  TranslatedTo(c, a, Translated(RenderJSON(c), a))
<1> DEFINE t == Translated(RenderJSON(c), a)
           to == FirstMatch(RenderJSON(c).prerouting, a, NoNat)
<1>2. t = IF a.est \/ to = NoNat THEN a
          ELSE [a EXCEPT !.dst = to.dst, !.svc = <<a.svc[1], to.port>>, !.dnat = TRUE]
  BY DEF Translated
<1>3. CASE c.mode = "host"
  <2>1. to = NoNat
    BY <1>3, RuleSet, NoRule
  <2> QED
    BY <1>2, <2>1 DEF TranslatedTo
<1>4. CASE c.mode # "host" /\ to # NoNat /\ ~a.est
  <2>1. to = FirstMatch(Prerouting(c), a, NoNat)
    BY <1>4, RuleSet
  <2> HIDE DEF to
  <2>2. PICK pol \in ActiveDNAT(c) : Redirects(c, pol, a, to)
    BY <1>4, <2>1, TranslatesOnlyItsOwn
  <2>3. to = Target(pol.nat)
    BY <2>2 DEF Redirects
  <2>4. to.dst = pol.nat.intIP /\ to.port = pol.nat.intPort
    BY <2>3 DEF Target
  <2>5. t = [a EXCEPT !.dst = pol.nat.intIP,
                      !.svc = <<a.svc[1], pol.nat.intPort>>, !.dnat = TRUE]
    BY <1>2, <1>4, <2>4
  <2> QED
    BY <1>4, <2>2, <2>3, <2>5 DEF TranslatedTo
<1>5. CASE to = NoNat \/ a.est
  BY <1>2, <1>5 DEF TranslatedTo
<1> QED
  BY <1>3, <1>4, <1>5 DEF OnItsWay

(* A packet once it is routed.                                             *)
LEMMA RoutedPacket ==
  ASSUME NEW c, IsConfig(c), NEW p \in Packets, NEW now \in BOOLEAN,
         NEW r, r = Routed(RenderJSON(c), p, now)
  PROVE  /\ r.in = p.in /\ r.src = p.src /\ r.est = p.est /\ r.flood = p.flood
         /\ r.now = now /\ r.dnat \in BOOLEAN /\ r.dst \in Addr
         /\ r.out \in Device \cup {"self"} /\ (r.out = "self" <=> r.dst \in SelfAddr)
         /\ r.out # "self" => r.out = Home[r.dst]
         /\ ~r.dnat => r.svc = p.svc /\ r.dst = p.dst
         /\ r.dnat =>
              /\ c.mode # "host" /\ ~p.est
              /\ \E pol \in ActiveDNAT(c) :
                   /\ Redirects(c, pol, Arrived(p, now), Target(pol.nat))
                   /\ r.dst = pol.nat.intIP
                   /\ r.svc = <<p.svc[1], pol.nat.intPort>>
<1> DEFINE a == Arrived(p, now)
           t == Translated(RenderJSON(c), a)
<1>1. /\ a = [in |-> p.in, out |-> "self", src |-> p.src, dst |-> p.dst, svc |-> p.svc,
              est |-> p.est, flood |-> p.flood, dnat |-> FALSE, now |-> now]
      /\ p.dst \in Addr
  BY ArrivedPacket DEF Arrived
<1>0. TranslatedTo(c, a, t)
  BY ArrivedPacket, TranslatedPacket
<1> HIDE DEF a, t
<1>2. \/ t = a
      \/ /\ c.mode # "host" /\ ~a.est
         /\ \E pol \in ActiveDNAT(c) :
              /\ Redirects(c, pol, a, Target(pol.nat))
              /\ t = [a EXCEPT !.dst = pol.nat.intIP,
                               !.svc = <<a.svc[1], pol.nat.intPort>>, !.dnat = TRUE]
  BY <1>0 DEF TranslatedTo
<1>3. r = IF t.dst \in SelfAddr THEN t ELSE [t EXCEPT !.out = Home[t.dst]]
  BY DEF Routed, a, t
<1>4. /\ t = [in |-> p.in, out |-> "self", src |-> p.src, dst |-> t.dst, svc |-> t.svc,
              est |-> p.est, flood |-> p.flood, dnat |-> t.dnat, now |-> now]
      /\ t.dnat \in BOOLEAN /\ t.dst \in Addr
      /\ ~t.dnat => t.svc = p.svc /\ t.dst = p.dst
      /\ t.dnat =>
           /\ c.mode # "host" /\ ~p.est
           /\ \E pol \in ActiveDNAT(c) :
                /\ Redirects(c, pol, a, Target(pol.nat))
                /\ t.dst = pol.nat.intIP
                /\ t.svc = <<p.svc[1], pol.nat.intPort>>
  <2>1. CASE t = a
    BY <1>1, <2>1
  <2>2. CASE t # a
    <3>1. PICK pol \in ActiveDNAT(c) :
              /\ Redirects(c, pol, a, Target(pol.nat))
              /\ t = [a EXCEPT !.dst = pol.nat.intIP,
                               !.svc = <<a.svc[1], pol.nat.intPort>>, !.dnat = TRUE]
      BY <1>2, <2>2
    <3>2. pol.nat.intIP \in Addr
      BY ActivePolicy
    <3>3. c.mode # "host" /\ ~p.est
      BY <1>1, <1>2, <2>2
    <3>4. /\ t = [in |-> p.in, out |-> "self", src |-> p.src, dst |-> pol.nat.intIP,
                  svc |-> <<p.svc[1], pol.nat.intPort>>,
                  est |-> p.est, flood |-> p.flood, dnat |-> TRUE, now |-> now]
      BY <1>1, <3>1
    <3>5. /\ t.dst = pol.nat.intIP /\ t.svc = <<p.svc[1], pol.nat.intPort>> /\ t.dnat = TRUE
          /\ t = [in |-> p.in, out |-> "self", src |-> p.src, dst |-> t.dst, svc |-> t.svc,
                  est |-> p.est, flood |-> p.flood, dnat |-> t.dnat, now |-> now]
      BY <3>4
    <3> HIDE DEF t
    <3> QED
      BY <3>1, <3>2, <3>3, <3>5
  <2> QED
    BY <2>1, <2>2
<1>5. t.dst \notin SelfAddr => Home[t.dst] \in Device
  <2>1. Home \in [Hosts -> Device]
    BY PacketFilterConstants
  <2> QED
    BY <1>4, <2>1 DEF Hosts
<1>6. r = [in |-> p.in, out |-> IF t.dst \in SelfAddr THEN "self" ELSE Home[t.dst],
           src |-> p.src, dst |-> t.dst, svc |-> t.svc,
           est |-> p.est, flood |-> p.flood, dnat |-> t.dnat, now |-> now]
  BY <1>3, <1>4
<1>7. /\ r.in = p.in /\ r.src = p.src /\ r.est = p.est /\ r.flood = p.flood
      /\ r.now = now /\ r.dnat = t.dnat /\ r.dst = t.dst /\ r.svc = t.svc
      /\ r.out = IF t.dst \in SelfAddr THEN "self" ELSE Home[t.dst]
  BY <1>6
<1> QED
  BY <1>4, <1>5, <1>7, Places DEF a

LEMMA RoutedOnItsWay ==
  ASSUME NEW c, IsConfig(c), ValidateCandidate(c), NEW p \in Packets, NEW now \in BOOLEAN,
         NEW r, r = Routed(RenderJSON(c), p, now)
  PROVE  OnItsWay(r)
<1>1. r.svc \in AllServices
  <2>1. CASE ~r.dnat
    BY <2>1, RoutedPacket, ArrivedPacket
  <2>2. CASE r.dnat
    <3>1. PICK pol \in ActiveDNAT(c) :
            /\ Redirects(c, pol, Arrived(p, now), Target(pol.nat))
            /\ r.svc = <<p.svc[1], pol.nat.intPort>>
      BY <2>2, RoutedPacket
    <3>2. Arrived(p, now).svc = p.svc
      BY DEF Arrived
    <3>3. p.svc[1] = NatProto(pol.nat)
      BY <3>1, <3>2 DEF Redirects
    <3>4. /\ validPort(pol.nat.intPort) /\ pol.nat.proto \in {"", "tcp", "udp"}
          /\ pol.nat \in NatType
      BY ActivePolicy DEF validatePolicyNAT
    <3>5. NatProto(pol.nat) \in {"tcp", "udp"}
      BY <3>4 DEF NatProto
    <3>6. pol.nat.intPort \in Port
      <4>1. pol.nat.intPort \in Port \cup {0}
        BY <3>4 DEF NatType
      <4>2. pol.nat.intPort # 0
        <5> DEFINE port == pol.nat.intPort
        <5>1. validPort(port)
          BY <3>4
        <5> HIDE DEF port
        <5>2. port \in Nat /\ port > 0
          BY <5>1, Places
        <5> QED
          BY <5>2 DEF port
      <4> QED
        BY <4>1, <4>2
    <3> QED
      BY <3>1, <3>3, <3>5, <3>6 DEF AllServices
  <2> QED
    BY <2>1, <2>2
<1>2. /\ r.in \in Device /\ r.out \in Device \cup {"self"}
      /\ r.src \in Addr /\ r.dst \in Addr
      /\ r.est \in BOOLEAN /\ r.flood \in BOOLEAN /\ r.dnat \in BOOLEAN /\ r.now \in BOOLEAN
  BY RoutedPacket, ArrivedPacket
<1> QED
  BY <1>1, <1>2 DEF OnItsWay
-----------------------------------------------------------------------------
(* What holds of every configuration *)

LEMMA PoliciesHold ==
  ASSUME IsConfig(cfg), hours \in BOOLEAN
  PROVE  PoliciesDecide
<1> DEFINE rules == RenderJSON(cfg)
<1> SUFFICES ASSUME ValidateCandidate(cfg), cfg.mode = "gateway", NEW p \in Packets,
                    Routed(rules, p, hours).out # "self"
             PROVE  Verdict(rules, Routed(rules, p, hours)) = "accept"
                      <=> Routed(rules, p, hours).est \/ MayForward(cfg, Routed(rules, p, hours))
  BY DEF PoliciesDecide, Valid
<1> DEFINE r == Routed(rules, p, hours)
<1>1. OnItsWay(r)
  BY RoutedOnItsWay
<1>2. rules.forward = ForwardChain(cfg)
  BY RuleSet
<1>3. r.out # "self"
  OBVIOUS
<1> HIDE DEF r, rules
<1>4. Verdict(rules, r) = FirstMatch(ForwardChain(cfg), r, "drop")
  BY <1>2, <1>3 DEF Verdict
<1>5. Verdict(rules, r) = "accept" <=> r.est \/ MayForward(cfg, r)
  BY <1>1, <1>4, ForwardDecides
<1> QED
  BY <1>5 DEF r

LEMMA SelfHolds ==
  ASSUME IsConfig(cfg), hours \in BOOLEAN
  PROVE  SelfIsGuarded
<1> DEFINE rules == RenderJSON(cfg)
<1> SUFFICES ASSUME ValidateCandidate(cfg), NEW p \in Packets, NEW r,
                    r = Routed(rules, p, hours)
             PROVE  /\ r.out = "self" =>
                         (Verdict(rules, r) = "accept" <=> r.est \/ MayEnter(cfg, r))
                    /\ p.dst \in SelfAddr /\ p.svc \in SharedPorts(cfg) => r.out = "self"
  BY DEF SelfIsGuarded, Valid
<1>1. OnItsWay(r)
  BY RoutedOnItsWay
<1>2. rules.input = InputChain(cfg)
  BY RuleSet
<1>3. ASSUME p.dst \in SelfAddr, p.svc \in SharedPorts(cfg) PROVE r.out = "self"
  <2>1. ~r.dnat
    <3> SUFFICES ASSUME r.dnat PROVE FALSE
      OBVIOUS
    <3>1. PICK pol \in ActiveDNAT(cfg) :
            Redirects(cfg, pol, Arrived(p, hours), Target(pol.nat))
      BY RoutedPacket
    <3>2. p.svc = <<NatProto(pol.nat), pol.nat.extPort>>
      BY <3>1 DEF Redirects, Arrived
    <3>3. PICK q \in cfg.sni : q.on /\ p.svc = <<"tcp", q.port>>
      BY <1>3 DEF SharedPorts
    <3>4. pol.nat.extPort # q.port
      BY <3>3 DEF ValidateCandidate, validateSNIRoutes
    <3> QED
      BY <3>2, <3>3, <3>4
  <2> QED
    BY <1>3, <2>1, RoutedPacket
<1>4. r.out = "self" => Verdict(rules, r) = FirstMatch(InputChain(cfg), r, "drop")
  BY <1>2 DEF Verdict
<1> HIDE DEF rules
<1>5. r.out = "self" => (Verdict(rules, r) = "accept" <=> r.est \/ MayEnter(cfg, r))
  BY <1>1, <1>4, InputDecides
<1> QED
  BY <1>3, <1>5

LEMMA RedirectsHold ==
  ASSUME IsConfig(cfg), hours \in BOOLEAN
  PROVE  RedirectsOnlyItsOwn
<1> DEFINE rules == RenderJSON(cfg)
<1> SUFFICES ASSUME NEW p \in Packets, NEW r, r = Routed(rules, p, hours), r.dnat
             PROVE  \E pol \in ActiveDNAT(cfg) :
                      /\ r.dst = pol.nat.intIP
                      /\ p.svc = <<NatProto(pol.nat), pol.nat.extPort>>
                      /\ \/ p.in \in wanDevices(cfg)
                         \/ p.dst \in SelfAddr \union {pol.nat.extIP}
  BY DEF RedirectsOnlyItsOwn
<1>1. PICK pol \in ActiveDNAT(cfg) :
        /\ Redirects(cfg, pol, Arrived(p, hours), Target(pol.nat))
        /\ r.dst = pol.nat.intIP
  BY RoutedPacket
<1>2. Arrived(p, hours).svc = p.svc /\ Arrived(p, hours).in = p.in
        /\ Arrived(p, hours).dst = p.dst
  BY DEF Arrived
<1> QED
  BY <1>1, <1>2 DEF Redirects

-----------------------------------------------------------------------------
(* Validation and rendering *)

LEMMA PortMatchSome ==
  ASSUME NEW proto \in Protocols, NEW port \in Nat
  PROVE  PortMatch(proto, port) # {}
<1>1. PICK q \in Port : TRUE
  BY PacketFilterConstants
<1>2. <<"icmp", WholeProtocol>> \in AllServices /\ <<"tcp", q>> \in AllServices
        /\ <<"udp", q>> \in AllServices
  BY <1>1 DEF AllServices
<1>3. \E s \in AllServices : s[1] = proto
  <2>1. proto = "tcp" \/ proto = "udp" \/ proto = "icmp"
    BY DEF Protocols
  <2>2. /\ <<"icmp", WholeProtocol>>[1] = "icmp" /\ <<"tcp", q>>[1] = "tcp"
        /\ <<"udp", q>>[1] = "udp"
    OBVIOUS
  <2> QED
    BY <1>2, <2>1, <2>2
<1>4. {s \in AllServices : s[1] = proto} # {}
  BY <1>3
<1> QED
  BY <1>4 DEF PortMatch

LEMMA NoPort == ~validPort(WholeProtocol)
<1> SUFFICES ASSUME NEW port, port = 0, validPort(port) PROVE FALSE
  BY DEF WholeProtocol
<1>1. port > 0
  BY Places
<1> QED
  BY <1>1

(* The greatest of one number is that number.                              *)
LEMMA OnlyPart ==
  ASSUME NEW n \in Nat, n = 1, NEW i \in 1 .. n, NEW S \in SUBSET (1 .. i),
         i \in S <=> i \in 1 .. i
  PROVE  Max(S) = i /\ S # {}
<1>1. i = 1 /\ i \in Nat
  OBVIOUS
<1>2. \A x \in S : x = i
  BY <1>1
<1>3. \A y \in S : i >= y
  BY <1>1, <1>2
<1>4. i \in S
  BY <1>1
<1>5. Max(S) \in S
  BY <1>3, <1>4 DEF Max
<1> QED
  BY <1>2, <1>4, <1>5

(* A service that is valid has no match that nothing matches.              *)
LEMMA TypedServiceSome ==
  ASSUME NEW parts \in Seq([proto: Protocols \union {""}, port: Nat]), TypedService(parts).ok,
         NEW S \in TypedService(parts).sets
  PROVE  S # {}
<1>1. PICK i \in DOMAIN parts : S = PortMatch(PartProto(parts)[i], parts[i].port)
  BY DEF TypedService
<1>2. /\ parts[i] \in [proto: Protocols \union {""}, port: Nat]
      /\ Len(parts) \in Nat /\ DOMAIN parts = 1 .. Len(parts)
  BY <1>1, LenProperties
<1>3. CASE parts[i].port # WholeProtocol
  BY <1>1, <1>3 DEF PortMatch
<1>4. CASE parts[i].port = WholeProtocol
  <2>1. ~validPort(parts[i].port)
    BY <1>4, NoPort
  <2>2. Len(parts) = 1 /\ parts[i].proto # ""
    BY <2>1 DEF TypedService
  <2> DEFINE given == {j \in 1 .. i : parts[j].proto # ""}
             n == Len(parts)
  <2>3. PartProto(parts)[i] = IF given = {} THEN "tcp" ELSE parts[Max(given)].proto
    BY <1>1 DEF PartProto
  <2>4. \A j \in 1 .. i : j \in given <=> parts[j].proto # ""
    OBVIOUS
  <2>5. given \in SUBSET (1 .. i)
    OBVIOUS
  <2>6. i \in given <=> i \in 1 .. i
    BY <2>2, <2>4, <2>5
  <2> HIDE DEF n, given
  <2>7. n \in Nat /\ n = 1 /\ i \in 1 .. n
    <3>1. n \in Nat /\ i \in 1 .. n
      BY <1>1, <1>2 DEF n
    <3>2. n = 1
      BY <2>2 DEF n
    <3> QED
      BY <3>1, <3>2
  <2>10. Max(given) = i /\ given # {}
    BY <2>5, <2>6, <2>7, OnlyPart
  <2>11. PartProto(parts)[i] = parts[i].proto
    BY <2>3, <2>10
  <2>8. parts[i].proto \in Protocols /\ parts[i].port \in Nat
    BY <1>2, <2>2
  <2> QED
    BY <1>1, <2>8, <2>11, PortMatchSome
<1> QED
  BY <1>3, <1>4

LEMMA ServiceObjectSome ==
  ASSUME NEW svc, svc.proto \in Protocols \union {"", "any"}, svc.ports \subseteq Nat,
         NEW S \in ServiceObject(svc).sets
  PROVE  S # {}
<1> DEFINE proto == IF svc.proto \in {"", "any"} THEN "tcp" ELSE svc.proto
<1>1. proto \in Protocols
  BY DEF Protocols
<1>2. <<"icmp", WholeProtocol>> \in AllServices
  BY DEF AllServices
<1>3. WholeProtocol \in Nat
  BY DEF WholeProtocol
<1>4. \/ S = AllServices
      \/ S = PortMatch(proto, WholeProtocol)
      \/ \E p \in svc.ports : S = PortMatch(proto, p)
  BY DEF ServiceObject
<1> HIDE DEF proto
<1> QED
  BY <1>1, <1>2, <1>3, <1>4, PortMatchSome

LEMMA ServicesSome ==
  ASSUME NEW c, IsConfig(c), NEW ref, resolveServiceMatchExprSets(c, ref).ok,
         NEW S \in resolveServiceMatchExprSets(c, ref).sets
  PROVE  S # {}
<1> DEFINE ids == DOMAIN c.services
           isGroup(x) == x \in ids /\ c.services[x].kind = "group"
           members(x) == IF isGroup(x) THEN c.services[x].members ELSE {}
           leaf(x) == CASE x \in {"", "ANY"} -> [ok |-> TRUE, sets |-> {AllServices}]
                     [] x \notin ids \union {"", "ANY"} -> [ok |-> FALSE, sets |-> {}]
                     [] OTHER -> IF c.services[x].kind = "typed" THEN TypedService(c.services[x].parts)
                                 ELSE ServiceObject(c.services[x])
           leaves == {x \in Visited(ref, members, Cardinality(ids)) : ~isGroup(x)}
<1>1. resolveServiceMatchExprSets(c, ref) =
        [ok |-> \A x \in leaves : leaf(x).ok, sets |-> UNION {leaf(x).sets : x \in leaves}]
  BY DEF resolveServiceMatchExprSets
<1>2. ASSUME NEW x \in leaves, leaf(x).ok, S \in leaf(x).sets PROVE S # {}
  <2>1. CASE x \in {"", "ANY"}
    <3>1. leaf(x).sets = {AllServices}
      BY <2>1
    <3>2. <<"icmp", WholeProtocol>> \in AllServices
      BY DEF AllServices
    <3> QED
      BY <1>2, <3>1, <3>2
  <2>2. CASE x \notin ids \union {"", "ANY"}
    BY <1>2, <2>2
  <2>3. CASE x \in ids /\ x \notin {"", "ANY"}
    <3>1. IsService(c.services[x]) /\ c.services[x].kind # "group"
      BY <2>3 DEF IsConfig
    <3>2. CASE c.services[x].kind = "typed"
      <4> DEFINE parts == c.services[x].parts
      <4>1. parts \in Seq([proto: Protocols \union {""}, port: Nat])
        BY <3>1, <3>2 DEF IsService
      <4>2. leaf(x) = TypedService(parts)
        BY <2>3, <3>2
      <4> HIDE DEF parts
      <4> QED
        BY <1>2, <4>1, <4>2, TypedServiceSome
    <3>3. CASE c.services[x].kind = "object"
      <4> DEFINE svc == c.services[x]
      <4>1. svc.proto \in Protocols \union {"", "any"} /\ svc.ports \subseteq Nat
        BY <3>1, <3>3 DEF IsService
      <4>2. leaf(x) = ServiceObject(svc)
        BY <2>3, <3>3
      <4> HIDE DEF svc
      <4> QED
        BY <1>2, <4>1, <4>2, ServiceObjectSome
    <3> QED
      BY <3>1, <3>2, <3>3 DEF IsService
  <2> QED
    BY <2>1, <2>2, <2>3
<1> HIDE DEF leaf, leaves, members, isGroup
<1> QED
  BY <1>1, <1>2

LEMMA ZoneSome ==
  ASSUME NEW c, Complete(c), NEW spec, validatePolicyZone(c, spec)
  PROVE  ~Empty(zoneMatchExpr(c, spec))
<1>1. CASE AnyZone(spec)
  BY <1>1 DEF zoneMatchExpr, Empty, Unrestricted
<1>2. CASE ~AnyZone(spec)
  <2>1. PICK z \in spec : TRUE
    BY <1>2 DEF AnyZone
  <2> DEFINE Of(y) == CASE y = "Any-External (WAN)" -> wanDevices(c)
                        [] y = "Any-Trusted (LAN)"  -> lanDevices(c)
                        [] OTHER -> DevicesWhere(c, LAMBDA f : f.zone = y)
             devices == Of(z)
  <2>2. devices # {}
    <3>1. CASE z = "Any-External (WAN)"
      BY <3>1 DEF Complete
    <3>2. CASE z = "Any-Trusted (LAN)"
      BY <3>2 DEF Complete
    <3>3. CASE z \notin {"Any-External (WAN)", "Any-Trusted (LAN)"}
      <4>1. PICK f \in EnabledIfaces(c) : f.zone = z
        BY <1>2, <2>1, <3>3 DEF validatePolicyZone
      <4>2. f.dev # NoDevice
        BY DEF Complete
      <4>3. f.dev \in DevicesWhere(c, LAMBDA g : g.zone = z)
        BY <4>1, <4>2 DEF DevicesWhere
      <4>4. devices = DevicesWhere(c, LAMBDA g : g.zone = z)
        BY <3>3
      <4> QED
        BY <4>3, <4>4
    <3> QED
      BY <3>1, <3>2, <3>3
  <2>3. ZoneDevices(c, spec) = UNION {Of(y) : y \in spec}
    BY DEF ZoneDevices
  <2> HIDE DEF Of
  <2>4. ZoneDevices(c, spec) # {}
    BY <2>1, <2>2, <2>3
  <2> QED
    BY <1>2, <2>4 DEF zoneMatchExpr, Empty, OneOf
<1> QED
  BY <1>1, <1>2

LEMMA WithinSome ==
  ASSUME NEW match, NEW All, All # {}
  PROVE  Within(match, All) # {}
  BY DEF Within

LEMMA RenderedHolds ==
  ASSUME IsConfig(cfg)
  PROVE  ValidMeansRendered
<1> SUFFICES ASSUME ValidateCandidate(cfg), Complete(cfg), NEW i \in DOMAIN cfg.policies,
                    NEW pol, pol = cfg.policies[i],
                    pol.on, ~pol.local, pol.id # VpnBlockPolicyID,
                    isDnat(pol) \/ pol.action \in {"accept", "drop", "reject"},
                    Resolves(cfg, pol)
             PROVE  RendersForward(cfg, pol) /\ CanMatch(ForwardRule(cfg, pol))
  BY DEF ValidMeansRendered, Valid
<1>1. AllDevices # {} /\ Addr # {} /\ AllServices # {}
  <2>1. "lo" \in AllDevices /\ <<"icmp", WholeProtocol>> \in AllServices
    BY DEF AllDevices, AllServices
  <2> QED
    BY <2>1, PacketFilterConstants
<1>2. CASE isDnat(pol)
  <2>1. RendersForward(cfg, pol)
    BY <1>2 DEF RendersForward
  <2>2. CanMatch(DnatRule(pol))
    BY <1>1 DEF CanMatch, DnatRule, Always
  <2> QED
    BY <1>2, <2>1, <2>2 DEF ForwardRule
<1>3. CASE ~isDnat(pol)
  <2>1. /\ validatePolicyService(cfg, pol) /\ validatePolicySchedule(pol)
        /\ validatePolicyZone(cfg, pol.srcZone) /\ validatePolicyZone(cfg, pol.dstZone)
    <3>1. pol.action # "dnat"
      BY <1>3
    <3> QED
      BY <3>1 DEF ValidateCandidate, validatePolicies
  <2>2. ~Empty(zoneMatchExpr(cfg, pol.srcZone)) /\ ~Empty(zoneMatchExpr(cfg, pol.dstZone))
    BY <2>1, ZoneSome
  <2>3. scheduleMatchExpr(pol.sched).ok
    <3>1. IsPolicy(pol)
      BY PolicyForm
    <3>2. pol.sched \in {"none", "hours"}
      BY <2>1, <3>1 DEF IsPolicy, validatePolicySchedule
    <3> QED
      BY <3>2 DEF scheduleMatchExpr
  <2>4. RendersForward(cfg, pol)
    BY <1>3, <2>1, <2>2, <2>3
       DEF RendersForward, Resolves, actionVerdictExpr, validatePolicyService
  <2> DEFINE sets == resolveServiceMatchExprSets(cfg, pol.service).sets
  <2>5. UNION sets # {}
    <3>1. \A S \in sets : S # {}
      BY <2>1, ServicesSome DEF validatePolicyService
    <3>2. sets # {}
      BY DEF Resolves
    <3> HIDE DEF sets
    <3> QED
      BY <3>1, <3>2
  <2>6. CanMatch(FilterRule(cfg, pol))
    <3> DEFINE rule == FilterRule(cfg, pol)
    <3>1. /\ rule.in = Within(zoneMatchExpr(cfg, pol.srcZone), AllDevices)
          /\ rule.out = Within(zoneMatchExpr(cfg, pol.dstZone), AllDevices)
          /\ rule.src = Within(objectMatchExpr(cfg, pol.srcObj), Addr)
          /\ rule.dst = Within(objectMatchExpr(cfg, pol.dstObj), Addr)
          /\ rule.svc = UNION sets
      BY DEF FilterRule, Always
    <3> HIDE DEF rule, sets
    <3>2. /\ rule.in # {} /\ rule.out # {} /\ rule.src # {} /\ rule.dst # {}
      BY <1>1, <3>1, WithinSome
    <3> QED
      BY <2>5, <3>1, <3>2 DEF CanMatch, rule
  <2> QED
    BY <1>3, <2>4, <2>6 DEF ForwardRule
<1> QED
  BY <1>2, <1>3
-----------------------------------------------------------------------------
(* Verdicts: a chain of the filter decides with one the kernel knows.      *)
Known == {"accept", "drop", "reject"}

Decided(s) == IsChain(s) /\ \A p, d : d \in Known => FirstMatch(s, p, d) \in Known

LEMMA RuleDecided ==
  ASSUME NEW r, r.verdict \in Known
  PROVE  Decided(<<r>>)
  BY SingleRule DEF Decided

LEMMA NoneDecided == Decided(<<>>)
  BY NoRule DEF Decided

LEMMA BothDecided ==
  ASSUME NEW s, NEW t, Decided(s), Decided(t)
  PROVE  Decided(s \o t)
<1>1. IsChain(s) /\ IsChain(t)
  BY DEF Decided
<1>2. /\ IsChain(s \o t)
      /\ \A p, d : FirstMatch(s \o t, p, d) = FirstMatch(s, p, FirstMatch(t, p, d))
  BY <1>1, OneAfterTheOther
<1> QED
  BY <1>2 DEF Decided

LEMMA TableDecided ==
  ASSUME NEW s, IsChain(s), \A i \in DOMAIN s : s[i].verdict \in Known
  PROVE  Decided(s)
<1> SUFFICES ASSUME NEW p, NEW d \in Known PROVE FirstMatch(s, p, d) \in Known
  BY DEF Decided
<1> DEFINE hits == {i \in DOMAIN s : Matches(s[i], p)}
<1>1. hits \in SUBSET Nat
  BY ChainForm
<1>2. FirstMatch(s, p, d) = IF hits = {} THEN d ELSE s[Min(hits)].verdict
  BY DEF FirstMatch
<1>3. \A i \in hits : s[i].verdict \in Known
  OBVIOUS
<1> HIDE DEF hits
<1> QED
  BY <1>1, <1>2, <1>3, MinIsLeast

LEMMA MeteredDecided ==
  ASSUME NEW devices, NEW service
  PROVE  Decided(Metered(devices, service))
<1> DEFINE over == [Always("drop") EXCEPT !.in = devices, !.svc = {service}, !.flood = {TRUE}]
           below == [Always("accept") EXCEPT !.in = devices, !.svc = {service}]
<1>1. over.verdict \in Known /\ below.verdict \in Known
  BY DEF Always, Known
<1>2. Metered(devices, service) = <<over>> \o <<below>>
  BY DEF Metered
<1> HIDE DEF over, below
<1>3. Decided(<<over>>) /\ Decided(<<below>>)
  BY <1>1, RuleDecided
<1> QED
  BY <1>2, <1>3, BothDecided

(* The fixed parts of both chains.                                         *)
LEMMA FixedDecided ==
  ASSUME NEW c
  PROVE  /\ Decided(Established("accept")) /\ Decided(<<Always("drop")>>)
         /\ Decided(<<[Always("accept") EXCEPT !.in = {"lo"}]>>)
         /\ Decided(VpnBlock(c)) /\ Decided(HardWanDrop(c))
         /\ \A devices : Decided(SniPorts(c, devices))
<1>1. /\ \A S : [Always("accept") EXCEPT !.est = S].verdict \in Known
      /\ \A S : [Always("accept") EXCEPT !.in = S].verdict \in Known
      /\ \A S : [Always("drop") EXCEPT !.in = S].verdict \in Known
      /\ \A S : [Always("drop") EXCEPT !.src = S].verdict \in Known
      /\ \A S, T : [Always("accept") EXCEPT !.in = S, !.svc = T].verdict \in Known
      /\ Always("drop").verdict \in Known
  BY DEF Always, Known
<1>2. Decided(Established("accept"))
  BY <1>1, RuleDecided DEF Established
<1>3. Decided(<<Always("drop")>>) /\ Decided(<<[Always("accept") EXCEPT !.in = {"lo"}]>>)
  BY <1>1, RuleDecided
<1>4. Decided(HardWanDrop(c))
  BY <1>1, RuleDecided DEF HardWanDrop
<1>5. ASSUME NEW devices PROVE Decided(SniPorts(c, devices))
  BY <1>1, RuleDecided DEF SniPorts
<1>6. Decided(VpnBlock(c))
  <2> DEFINE block == {i \in DOMAIN c.policies :
                         c.policies[i].id = VpnBlockPolicyID /\ c.policies[i].on}
             match == objectMatchExpr(c, c.policies[Min(block)].srcObj)
             rule == [Always("drop") EXCEPT !.src = match.set]
  <2>1. VpnBlock(c) = <<>> \/ VpnBlock(c) = <<rule>>
    BY DEF VpnBlock
  <2>2. rule.verdict \in Known
    BY <1>1
  <2> HIDE DEF rule
  <2> QED
    BY <2>1, <2>2, RuleDecided, NoneDecided
<1> QED
  BY <1>2, <1>3, <1>4, <1>5, <1>6

LEMMA LocalDecided ==
  ASSUME NEW c, IsConfig(c)
  PROVE  Decided(LocalPolicies(c))
<1> DEFINE chain == LocalPolicies(c)
<1>1. /\ DOMAIN chain = DOMAIN c.policies
      /\ \A i \in DOMAIN c.policies :
           chain[i] = IF RendersLocally(c, c.policies[i])
                      THEN LocalRule(c, c.policies[i]) ELSE Nothing
      /\ chain = [i \in DOMAIN c.policies |-> chain[i]]
  BY DEF LocalPolicies, RulesOf
<1>2. Nothing.verdict \in Known
  BY DEF Nothing, Always, Known
<1>3. ASSUME NEW pol, RendersLocally(c, pol) PROVE LocalRule(c, pol).verdict \in Known
  <2>1. LocalRule(c, pol).verdict = LocalAction(pol)
    BY DEF LocalRule, Always
  <2>2. LocalAction(pol) \in Known
    BY <1>3 DEF RendersLocally, actionVerdictExpr, Known
  <2> QED
    BY <2>1, <2>2
<1> HIDE DEF chain
<1>4. IsChain(chain)
  BY <1>1, PolicyForm, TableIsChain
<1>5. \A i \in DOMAIN chain : chain[i].verdict \in Known
  BY <1>1, <1>2, <1>3
<1>6. Decided(chain)
  BY <1>4, <1>5, TableDecided
<1> QED
  BY <1>6 DEF chain

LEMMA ForwardPoliciesDecided ==
  ASSUME NEW c, IsConfig(c)
  PROVE  Decided(ForwardRules(c))
<1> DEFINE chain == ForwardRules(c)
<1>1. /\ DOMAIN chain = DOMAIN c.policies
      /\ \A i \in DOMAIN c.policies :
           chain[i] = IF RendersForward(c, c.policies[i])
                      THEN ForwardRule(c, c.policies[i]) ELSE Nothing
      /\ chain = [i \in DOMAIN c.policies |-> chain[i]]
  BY DEF ForwardRules, RulesOf
<1>2. Nothing.verdict \in Known
  BY DEF Nothing, Always, Known
<1>3. ASSUME NEW pol, RendersForward(c, pol) PROVE ForwardRule(c, pol).verdict \in Known
  <2>1. CASE isDnat(pol)
    BY <2>1 DEF ForwardRule, DnatRule, Always, Known
  <2>2. CASE ~isDnat(pol)
    <3>1. pol.action \in Known
      BY <1>3, <2>2 DEF RendersForward, actionVerdictExpr, Known
    <3>2. ForwardRule(c, pol).verdict = pol.action
      BY <2>2 DEF ForwardRule, FilterRule, Always
    <3> QED
      BY <3>1, <3>2
  <2> QED
    BY <2>1, <2>2
<1> HIDE DEF chain
<1>4. IsChain(chain)
  BY <1>1, PolicyForm, TableIsChain
<1>5. \A i \in DOMAIN chain : chain[i].verdict \in Known
  BY <1>1, <1>2, <1>3
<1>6. Decided(chain)
  BY <1>4, <1>5, TableDecided
<1> QED
  BY <1>6 DEF chain

LEMMA OwnServicesDecided ==
  ASSUME NEW c
  PROVE  Decided(OwnServices(c))
<1>1. \A devices, services : Decided(<<Open(devices, services)>>)
  <2>1. \A devices, services : Open(devices, services).verdict \in Known
    BY DEF Open, Always, Known
  <2> QED
    BY <2>1, RuleDecided
<1> DEFINE s1 == <<Open(dhcpDevices(c), {<<"udp", 67>>})>>
           s2 == IF c.ntp THEN <<Open(lanDevices(c), {<<"udp", 123>>})>> ELSE <<>>
           s3 == IF c.dns THEN Metered(lanDevices(c), <<"udp", 53>>)
                               \o <<Open(lanDevices(c), {<<"tcp", 53>>})>> ELSE <<>>
<1>2. OwnServices(c) = s1 \o s2 \o s3
  BY DEF OwnServices, Open
<1>3. Decided(s1) /\ Decided(s2)
  BY <1>1, NoneDecided
<1>4. Decided(s3)
  <2> DEFINE t1 == Metered(lanDevices(c), <<"udp", 53>>)
             t2 == <<Open(lanDevices(c), {<<"tcp", 53>>})>>
  <2>1. Decided(t1) /\ Decided(t2)
    BY <1>1, MeteredDecided
  <2>2. s3 = IF c.dns THEN t1 \o t2 ELSE <<>>
    OBVIOUS
  <2> HIDE DEF t1, t2, s3
  <2> QED
    BY <2>1, <2>2, BothDecided, NoneDecided
<1> HIDE DEF s1, s2, s3
<1> QED
  BY <1>2, <1>3, <1>4, BothDecided

LEMMA InputDecided ==
  ASSUME NEW c, IsConfig(c)
  PROVE  Decided(InputChain(c))
<1> DEFINE s1 == <<[Always("accept") EXCEPT !.in = {"lo"}]>>
           s2 == Established("accept")
           s3 == VpnBlock(c)
           s4 == WireGuard(c)
           s5 == OpenVPN(c)
           s6 == SniPorts(c, wanDevices(c))
           s7 == HardWanDrop(c)
           s8 == LocalPolicies(c)
           s9 == OwnServices(c)
           s10 == SniPorts(c, lanDevices(c))
           s11 == <<Always("drop")>>
<1>1. InputChain(c) = s1 \o s2 \o s3 \o s4 \o s5 \o s6 \o s7 \o s8 \o s9 \o s10 \o s11
  BY DEF InputChain
<1>2. Decided(s1) /\ Decided(s2) /\ Decided(s3) /\ Decided(s6) /\ Decided(s7)
      /\ Decided(s10) /\ Decided(s11)
  BY FixedDecided
<1>3. Decided(s4)
  BY MeteredDecided, NoneDecided DEF WireGuard
<1>4. Decided(s5)
  BY MeteredDecided, NoneDecided DEF OpenVPN
<1>5. Decided(s8) /\ Decided(s9)
  BY LocalDecided, OwnServicesDecided
<1> HIDE DEF s1, s2, s3, s4, s5, s6, s7, s8, s9, s10, s11
<1>6. Decided(s1 \o s2 \o s3 \o s4 \o s5 \o s6)
  BY <1>2, <1>3, <1>4, BothDecided
<1>7. Decided(s1 \o s2 \o s3 \o s4 \o s5 \o s6 \o s7 \o s8 \o s9)
  BY <1>2, <1>5, <1>6, BothDecided
<1> QED
  BY <1>1, <1>2, <1>7, BothDecided

LEMMA ForwardDecided ==
  ASSUME NEW c, IsConfig(c)
  PROVE  Decided(ForwardChain(c))
<1> DEFINE s1 == Established("accept")
           s2 == VpnBlock(c)
           s3 == ForwardRules(c)
           s4 == <<Always("drop")>>
<1>1. ForwardChain(c) = s1 \o s2 \o s3 \o s4
  BY DEF ForwardChain, ForwardRules
<1>2. Decided(s1) /\ Decided(s2) /\ Decided(s4) /\ Decided(s3)
  BY FixedDecided, ForwardPoliciesDecided
<1> HIDE DEF s1, s2, s3, s4
<1> QED
  BY <1>1, <1>2, BothDecided

LEMMA VerdictsKnown ==
  ASSUME NEW c, IsConfig(c), NEW r
  PROVE  Verdict(RenderJSON(c), r) \in Known
<1> DEFINE rules == RenderJSON(c)
<1>1. /\ rules.input = InputChain(c)
      /\ rules.forward = IF c.mode = "host" THEN <<>> ELSE ForwardChain(c)
  BY RuleSet
<1> HIDE DEF rules
<1>2. Decided(rules.input) /\ Decided(rules.forward)
  BY <1>1, InputDecided, ForwardDecided, NoneDecided
<1>3. Verdict(rules, r) \in Known
  BY <1>2 DEF Verdict, Decided, Known
<1> QED
  BY <1>3 DEF rules
-----------------------------------------------------------------------------
(* Addresses after routing: what no rule matches keeps its own.            *)
Rewritten(s, r) == \E i \in DOMAIN s : Matches(s[i], r)

Rewrites(s) == IsChain(s) /\ \A i \in DOMAIN s : s[i].verdict # "unchanged"

LEMMA RewrittenOrNot ==
  ASSUME NEW s, Rewrites(s), NEW r, NEW d
  PROVE  /\ ~Rewritten(s, r) => FirstMatch(s, r, d) = d
         /\ Rewritten(s, r) => FirstMatch(s, r, d) # "unchanged"
<1>1. ~Rewritten(s, r) => FirstMatch(s, r, d) = d
  BY NoHit DEF Rewritten
<1>2. ASSUME Rewritten(s, r) PROVE FirstMatch(s, r, d) # "unchanged"
  <2> DEFINE hits == {i \in DOMAIN s : Matches(s[i], r)}
  <2>1. hits \in SUBSET Nat /\ hits # {}
    BY <1>2, ChainForm DEF Rewrites, Rewritten
  <2>2. FirstMatch(s, r, d) = s[Min(hits)].verdict
    BY <2>1 DEF FirstMatch
  <2>3. \A i \in hits : s[i].verdict # "unchanged"
    BY DEF Rewrites
  <2> HIDE DEF hits
  <2> QED
    BY <2>1, <2>2, <2>3, MinIsLeast
<1> QED
  BY <1>1, <1>2

LEMMA SnatRewrites ==
  ASSUME NEW c, IsConfig(c), NEW r, OnItsWay(r)
  PROVE  /\ Rewrites(SnatRules(c))
         /\ (\A i \in DOMAIN c.policies : c.policies[i].action # "snat")
              => ~Rewritten(SnatRules(c), r)
<1> DEFINE renders(pol) == /\ pol.on /\ pol.action = "snat" /\ pol.nat # NoNat
                           /\ pol.nat.extIP # NoAddr /\ ~Empty(objectMatchExpr(c, pol.srcObj))
           rule(pol) == [Always(pol.nat.extIP) EXCEPT
                           !.src = Within(objectMatchExpr(c, pol.srcObj), Addr)]
           chain == SnatRules(c)
<1>1. /\ DOMAIN chain = DOMAIN c.policies
      /\ \A i \in DOMAIN c.policies :
           chain[i] = IF renders(c.policies[i]) THEN rule(c.policies[i]) ELSE Nothing
      /\ chain = [i \in DOMAIN c.policies |-> chain[i]]
  BY DEF SnatRules, RulesOf
<1>2. ASSUME NEW i \in DOMAIN c.policies, renders(c.policies[i])
      PROVE  rule(c.policies[i]).verdict # "unchanged"
  <2>1. IsPolicy(c.policies[i])
    BY PolicyForm
  <2>2. c.policies[i].nat \in NatType
    BY <1>2, <2>1 DEF IsPolicy
  <2>3. c.policies[i].nat.extIP \in Addr
    BY <1>2, <2>2 DEF NatType
  <2>4. rule(c.policies[i]).verdict = c.policies[i].nat.extIP
    BY DEF Always
  <2> QED
    BY <2>3, <2>4, PacketFilterConstants
<1>3. Nothing.verdict # "unchanged"
  BY DEF Nothing, Always
<1>4. \A pol : renders(pol) => pol.action = "snat"
  OBVIOUS
<1> HIDE DEF chain, renders, rule
<1>5. IsChain(chain)
  BY <1>1, PolicyForm, TableIsChain
<1>6. Rewrites(chain)
  BY <1>1, <1>2, <1>3, <1>5 DEF Rewrites
<1>7. ASSUME \A i \in DOMAIN c.policies : c.policies[i].action # "snat"
      PROVE  ~Rewritten(chain, r)
  BY <1>1, <1>4, <1>7, NothingMatches DEF Rewritten
<1> QED
  BY <1>6, <1>7 DEF chain

LEMMA HairpinRewrites ==
  ASSUME NEW c, IsConfig(c), NEW r, OnItsWay(r)
  PROVE  /\ Rewrites(HairpinMasquerade(c))
         /\ r.in \in wanDevices(c) => ~Rewritten(HairpinMasquerade(c), r)
         /\ \A pol \in ActiveDNAT(c) :
              /\ wanDevices(c) # {} /\ r.in \notin wanDevices(c)
              /\ pol.nat.intIP # NoAddr /\ r.dst = pol.nat.intIP
              /\ r.svc = <<NatProto(pol.nat), pol.nat.intPort>>
              => Rewritten(HairpinMasquerade(c), r)
<1> DEFINE wan == wanDevices(c)
           renders(pol) == pol.on /\ isDnat(pol) /\ pol.nat.intIP # NoAddr
           rule(pol) == [DnatRule(pol) EXCEPT !.in = AllDevices \ wan, !.dnat = BOOLEAN,
                                              !.verdict = "masquerade"]
           table == [i \in DOMAIN c.policies |->
                       IF renders(c.policies[i]) THEN rule(c.policies[i]) ELSE Nothing]
           chain == HairpinMasquerade(c)
<1>1. chain = IF wan = {} THEN <<>> ELSE table
  BY DEF HairpinMasquerade, RulesOf
<1>2. /\ DOMAIN table = DOMAIN c.policies
      /\ \A i \in DOMAIN c.policies :
           table[i] = IF renders(c.policies[i]) THEN rule(c.policies[i]) ELSE Nothing
      /\ table = [i \in DOMAIN c.policies |-> table[i]]
  OBVIOUS
<1>3. Nothing.verdict # "unchanged" /\ \A pol : rule(pol).verdict # "unchanged"
  BY DEF Nothing, DnatRule, Always
<1>4. \A pol : Matches(rule(pol), r) => r.in \notin wan
  BY DEF Matches, DnatRule, Always
<1>5. ASSUME NEW pol, renders(pol), r.in \notin wan, r.dst = pol.nat.intIP,
             r.svc = <<NatProto(pol.nat), pol.nat.intPort>>
      PROVE  Matches(rule(pol), r)
  <2>1. /\ rule(pol).in = AllDevices \ wan /\ rule(pol).out = AllDevices
        /\ rule(pol).src = Addr /\ rule(pol).dst = {pol.nat.intIP}
        /\ rule(pol).svc = IF pol.nat.intPort > 0
                           THEN {<<NatProto(pol.nat), pol.nat.intPort>>} ELSE AllServices
        /\ rule(pol).when = BOOLEAN /\ rule(pol).est = BOOLEAN
        /\ rule(pol).dnat = BOOLEAN /\ rule(pol).flood = BOOLEAN
    BY DEF DnatRule, Always
  <2> HIDE DEF rule
  <2>2. r.svc \in rule(pol).svc
    BY <1>5, <2>1 DEF OnItsWay
  <2>3. r.in \in rule(pol).in /\ r.out \in rule(pol).out /\ r.src \in rule(pol).src
        /\ r.dst \in rule(pol).dst
    BY <1>5, <2>1 DEF OnItsWay, AllDevices
  <2> QED
    BY <2>1, <2>2, <2>3 DEF Matches, OnItsWay
<1>6. \A pol \in ActiveDNAT(c) :
         \E i \in DOMAIN c.policies : pol = c.policies[i] /\ pol.on /\ isDnat(pol)
  BY DEF ActiveDNAT, isDnat
<1>7. \A pol : pol.on /\ isDnat(pol) /\ pol.nat.intIP # NoAddr => renders(pol)
  OBVIOUS
<1> HIDE DEF chain, table, renders, rule
<1>8. IsChain(table)
  BY <1>2, PolicyForm, TableIsChain
<1>9. Rewrites(table)
  BY <1>2, <1>3, <1>8 DEF Rewrites
<1>10. Rewrites(<<>>) /\ ~Rewritten(<<>>, r)
  BY NoRule DEF Rewrites, Rewritten
<1>11. r.in \in wan => ~Rewritten(table, r)
  BY <1>2, <1>4, NothingMatches DEF Rewritten
<1>12. ASSUME NEW pol \in ActiveDNAT(c), r.in \notin wan, pol.nat.intIP # NoAddr,
              r.dst = pol.nat.intIP, r.svc = <<NatProto(pol.nat), pol.nat.intPort>>
       PROVE  Rewritten(table, r)
  <2>1. PICK i \in DOMAIN c.policies : pol = c.policies[i] /\ pol.on /\ isDnat(pol)
    BY <1>6
  <2>2. renders(pol)
    BY <1>7, <1>12, <2>1
  <2>3. Matches(rule(pol), r)
    BY <1>5, <1>12, <2>2
  <2> QED
    BY <1>2, <2>1, <2>2, <2>3 DEF Rewritten
<1> QED
  BY <1>1, <1>9, <1>10, <1>11, <1>12 DEF chain

LEMMA OuterMasquerade ==
  ASSUME NEW c, NEW r, OnItsWay(r)
  PROVE  LET last == <<[Always("masquerade") EXCEPT !.out = wanDevices(c)]>> IN
         /\ IsChain(last)
         /\ FirstMatch(last, r, "unchanged") =
              IF r.out \in wanDevices(c) THEN "masquerade" ELSE "unchanged"
<1> DEFINE rule == [Always("masquerade") EXCEPT !.out = wanDevices(c)]
<1>1. (Matches(rule, r) <=> r.out \in wanDevices(c)) /\ rule.verdict = "masquerade"
  BY DEF OnItsWay, Matches, Always, AllDevices
<1> HIDE DEF rule
<1>2. IsChain(<<rule>>)
      /\ FirstMatch(<<rule>>, r, "unchanged") =
           IF Matches(rule, r) THEN rule.verdict ELSE "unchanged"
  BY SingleRule
<1>3. IsChain(<<rule>>)
      /\ FirstMatch(<<rule>>, r, "unchanged") =
           IF r.out \in wanDevices(c) THEN "masquerade" ELSE "unchanged"
  BY <1>1, <1>2
<1> QED
  BY <1>3 DEF rule

LEMMA PostroutingDecides ==
  ASSUME NEW c, IsConfig(c), NEW r, OnItsWay(r)
  PROVE  FirstMatch(Postrouting(c), r, "unchanged") = "unchanged" <=>
           /\ ~Rewritten(SnatRules(c), r) /\ ~Rewritten(HairpinMasquerade(c), r)
           /\ r.out \notin wanDevices(c)
<1> DEFINE s1 == SnatRules(c)
           s2 == HairpinMasquerade(c)
           s3 == <<[Always("masquerade") EXCEPT !.out = wanDevices(c)]>>
<1>1. Rewrites(s1) /\ Rewrites(s2)
  BY SnatRewrites, HairpinRewrites
<1>2. IsChain(s3) /\ FirstMatch(s3, r, "unchanged") =
                       IF r.out \in wanDevices(c) THEN "masquerade" ELSE "unchanged"
  BY OuterMasquerade
<1>3. Postrouting(c) = s1 \o s2 \o s3
  BY DEF Postrouting
<1> HIDE DEF s1, s2, s3
<1>4. IsChain(s1) /\ IsChain(s2)
  BY <1>1 DEF Rewrites
<1>5. FirstMatch(Postrouting(c), r, "unchanged") =
        FirstMatch(s1, r, FirstMatch(s2, r, FirstMatch(s3, r, "unchanged")))
  BY <1>2, <1>3, <1>4, OneAfterTheOther
<1>6. FirstMatch(Postrouting(c), r, "unchanged") = "unchanged" <=>
        ~Rewritten(s1, r) /\ ~Rewritten(s2, r) /\ r.out \notin wanDevices(c)
  BY <1>1, <1>2, <1>5, RewrittenOrNot
<1> QED
  BY <1>6 DEF s1, s2

LEMMA AnswersHold ==
  ASSUME IsConfig(cfg), hours \in BOOLEAN
  PROVE  AnswersComeBack
<1> DEFINE rules == RenderJSON(cfg)
<1> SUFFICES ASSUME ValidateCandidate(cfg), cfg.mode = "gateway",
                    NEW p \in Packets, NEW r, r = Routed(rules, p, hours)
             PROVE  /\ r.in \notin wanDevices(cfg)
                         /\ (r.out \in wanDevices(cfg) \/ (r.dnat /\ r.in = r.out))
                         => SourceBecomes(rules, r) # "unchanged"
                    /\ r.in \in wanDevices(cfg) /\ r.out \notin wanDevices(cfg)
                         /\ (\A i \in DOMAIN cfg.policies : cfg.policies[i].action # "snat")
                         => SourceBecomes(rules, r) = "unchanged"
  BY DEF AnswersComeBack, Valid
<1>1. OnItsWay(r)
  BY RoutedOnItsWay
<1>2. SourceBecomes(rules, r) = FirstMatch(Postrouting(cfg), r, "unchanged")
  <2>1. rules.postrouting = Postrouting(cfg)
    BY RuleSet
  <2> QED
    BY <2>1 DEF SourceBecomes
<1>3. ASSUME r.dnat, r.in \notin wanDevices(cfg) PROVE Rewritten(HairpinMasquerade(cfg), r)
  <2>1. PICK pol \in ActiveDNAT(cfg) :
          /\ Redirects(cfg, pol, Arrived(p, hours), Target(pol.nat))
          /\ r.dst = pol.nat.intIP
          /\ r.svc = <<p.svc[1], pol.nat.intPort>>
    BY <1>3, RoutedPacket
  <2>2. Arrived(p, hours).svc = p.svc
    BY DEF Arrived
  <2>3. p.svc[1] = NatProto(pol.nat) /\ wanDevices(cfg) # {}
    BY <2>1, <2>2 DEF Redirects
  <2>4. pol.nat.intIP # NoAddr
    BY ActivePolicy DEF validatePolicyNAT
  <2> QED
    BY <1>1, <1>3, <2>1, <2>3, <2>4, HairpinRewrites
<1> HIDE DEF rules
<1> QED
  BY <1>1, <1>2, <1>3, PostroutingDecides, SnatRewrites, HairpinRewrites

-----------------------------------------------------------------------------
(* What is selected from a sequence. A set that holds 0 and, with a        *)
(* number, the next one holds them all.                                    *)
LEMMA InductiveSet ==
  ASSUME NEW S, 0 \in S, \A n \in Nat : n \in S => n + 1 \in S
  PROVE  Nat \subseteq S
<1> SUFFICES ASSUME Nat \ S # {} PROVE FALSE
  OBVIOUS
<1>1. PICK m \in Nat \ S : \A n \in Nat \ S : <<n, m>> \notin Less
  <2>1. Nat \ S \subseteq Nat
    OBVIOUS
  <2> QED
    BY <2>1, LessIsWellFounded, WFMin
<1>2. \A n \in Nat \ S : ~(n < m)
  BY <1>1 DEF Less
<1>3. m # 0 /\ m - 1 \in Nat /\ m - 1 < m
  BY <1>1
<1> QED
  BY <1>1, <1>2, <1>3

(* What has been selected after each of the first n elements.              *)
Selecting(s, S, t, n) ==
    t = [i \in 0 .. n |->
           IF i = 0 THEN <<>> ELSE IF s[i] \in S THEN Append(t[i - 1], s[i]) ELSE t[i - 1]]

LEMMA SelectingOnce ==
  ASSUME NEW s, NEW S, NEW N \in Nat
  PROVE  \E t : Selecting(s, S, t, N)
<1> DEFINE M == {n \in Nat : \E t : Selecting(s, S, t, n)}
<1>1. 0 \in M
  <2>1. Selecting(s, S, [i \in 0 .. 0 |-> <<>>], 0)
    BY DEF Selecting
  <2> QED
    BY <2>1
<1>2. ASSUME NEW n \in Nat, n \in M PROVE n + 1 \in M
  <2>1. PICK t : Selecting(s, S, t, n)
    BY <1>2
  <2> DEFINE step(u, i) == IF i = 0 THEN <<>>
                           ELSE IF s[i] \in S THEN Append(u[i - 1], s[i]) ELSE u[i - 1]
             nx == [i \in 0 .. n + 1 |-> step(t, i)]
             ny == [i \in 0 .. n + 1 |-> step(nx, i)]
  <2>1a. \A i \in 0 .. n : t[i] = step(t, i)
    BY <2>1, Zenon DEF Selecting
  <2>3. \A i \in 0 .. n + 1 : i # 0 => i - 1 \in 0 .. n
    OBVIOUS
  <2>4. \A i \in 0 .. n + 1 : nx[i] = step(t, i) /\ ny[i] = step(nx, i)
    OBVIOUS
  <2>2. \A i \in 0 .. n : nx[i] = t[i]
    <3> HIDE DEF nx, ny, step
    <3> QED
      BY <2>1a, <2>4
  <2>5. nx = [i \in 0 .. n + 1 |-> nx[i]] /\ ny = [i \in 0 .. n + 1 |-> ny[i]]
    OBVIOUS
  <2>6. Selecting(s, S, nx, n + 1) <=> nx = ny
    BY DEF Selecting
  <2> HIDE DEF nx, ny
  <2>7. \A i \in 0 .. n + 1 : nx[i] = ny[i]
    BY <2>2, <2>3, <2>4
  <2>8. nx = ny
    BY <2>5, <2>7
  <2>9. \E u : Selecting(s, S, u, n + 1)
    BY <2>6, <2>8
  <2> QED
    BY <2>9
<1>3. Nat \subseteq M
  <2> HIDE DEF M
  <2> QED
    BY <1>1, <1>2, InductiveSet
<1> QED
  BY <1>3

SelectedBy(s, S, t) ==
    /\ Selected(s, S) = t[Len(s)]
    /\ t[0] = <<>>
    /\ \A i \in 1 .. Len(s) : t[i] = IF s[i] \in S THEN Append(t[i - 1], s[i]) ELSE t[i - 1]

LEMMA SelectedSteps ==
  ASSUME NEW s, IsChain(s), NEW S
  PROVE  \E t : SelectedBy(s, S, t)
<1> DEFINE t == CHOOSE u : Selecting(s, S, u, Len(s))
<1>1. Len(s) \in Nat
  BY ChainForm
<1>2. Selecting(s, S, t, Len(s))
  BY <1>1, SelectingOnce
<1>3. Selected(s, S) = t[Len(s)]
  BY DEF Selected, Selecting
<1> HIDE DEF t
<1>4. \A i \in 0 .. Len(s) :
         t[i] = IF i = 0 THEN <<>> ELSE IF s[i] \in S THEN Append(t[i - 1], s[i]) ELSE t[i - 1]
  BY <1>2, Zenon DEF Selecting
<1>5. 0 \in 0 .. Len(s) /\ \A i \in 1 .. Len(s) : i \in 0 .. Len(s) /\ i # 0
  BY <1>1
<1>6. /\ t[0] = <<>>
      /\ \A i \in 1 .. Len(s) : t[i] = IF s[i] \in S THEN Append(t[i - 1], s[i]) ELSE t[i - 1]
  BY <1>4, <1>5
<1> QED
  BY <1>3, <1>6 DEF SelectedBy

(* An induction over the elements of a sequence.                           *)
LEMMA UpToLength ==
  ASSUME NEW L \in Nat, NEW M, 0 \in M, \A n \in 0 .. L - 1 : n \in M => n + 1 \in M
  PROVE  \A n \in 0 .. L : n \in M
<1> DEFINE P == {n \in Nat : n <= L => n \in M}
<1>1. 0 \in P
  OBVIOUS
<1>2. \A n \in Nat : n \in P => n + 1 \in P
  OBVIOUS
<1> HIDE DEF P
<1>3. Nat \subseteq P
  BY <1>1, <1>2, InductiveSet
<1> QED
  BY <1>3 DEF P

(* Exactly the elements that are in the set.                               *)
LEMMA SelectedElements ==
  ASSUME NEW s, IsChain(s), NEW S
  PROVE  /\ IsChain(Selected(s, S))
         /\ {Selected(s, S)[j] : j \in DOMAIN Selected(s, S)} = {s[i] : i \in DOMAIN s} \cap S
<1> DEFINE R == {s[i] : i \in DOMAIN s}
<1>0. Len(s) \in Nat /\ DOMAIN s = 1 .. Len(s)
  BY ChainForm
<1>t. PICK t : SelectedBy(s, S, t)
  BY SelectedSteps
<1>1. /\ Selected(s, S) = t[Len(s)]
      /\ t[0] = <<>>
      /\ \A i \in 1 .. Len(s) :
            t[i] = IF s[i] \in S THEN Append(t[i - 1], s[i]) ELSE t[i - 1]
  BY <1>t DEF SelectedBy
<1> DEFINE M == {n \in 0 .. Len(s) :
                   /\ t[n] \in Seq(R \cap S)
                   /\ \A i \in 1 .. n : s[i] \in S => \E j \in 1 .. Len(t[n]) : t[n][j] = s[i]}
<1>2. 0 \in M
  <2>1. <<>> \in Seq(R \cap S) /\ 0 \in 0 .. Len(s) /\ 1 .. 0 = {}
    BY <1>0
  <2> HIDE DEF R
  <2> QED
    BY <1>1, <2>1
<1>3. ASSUME NEW n \in 0 .. Len(s) - 1, n \in M PROVE n + 1 \in M
  <2>1. n + 1 \in 1 .. Len(s) /\ (n + 1) - 1 = n /\ s[n + 1] \in R
    BY <1>0
  <2>2. t[n + 1] = IF s[n + 1] \in S THEN Append(t[n], s[n + 1]) ELSE t[n]
    BY <1>1, <2>1
  <2> DEFINE a == t[n]
             x == s[n + 1]
  <2>3. a \in Seq(R \cap S) /\ \A i \in 1 .. n : s[i] \in S => \E j \in 1 .. Len(a) : a[j] = s[i]
    BY <1>3
  <2>4. \A i \in 1 .. n + 1 : i \in 1 .. n \/ i = n + 1
    OBVIOUS
  <2> HIDE DEF R, a
  <2>5. CASE x \in S
    <3>1. t[n + 1] = Append(a, x)
      BY <2>2, <2>5 DEF a
    <3>2. x \in R \cap S
      BY <2>1, <2>5
    <3>3. /\ Append(a, x) \in Seq(R \cap S) /\ Len(Append(a, x)) = Len(a) + 1
          /\ \A j \in 1 .. Len(a) : Append(a, x)[j] = a[j]
          /\ Append(a, x)[Len(a) + 1] = x
      <4> HIDE DEF x
      <4> QED
        BY <2>3, <3>2, AppendProperties
    <3>4. Len(a) \in Nat
      BY <2>3, LenProperties
    <3>5. \A i \in 1 .. n + 1 : s[i] \in S =>
            \E j \in 1 .. Len(t[n + 1]) : t[n + 1][j] = s[i]
      <4> TAKE i \in 1 .. n + 1
      <4> HAVE s[i] \in S
      <4>1. CASE i \in 1 .. n
        <5>1. PICK j \in 1 .. Len(a) : a[j] = s[i]
          BY <2>3, <4>1
        <5>2. j \in 1 .. Len(a) + 1
          BY <3>4
        <5> QED
          BY <3>1, <3>3, <5>1, <5>2
      <4>2. CASE i = n + 1
        <5>1. Len(a) + 1 \in 1 .. Len(a) + 1
          BY <3>4
        <5> QED
          BY <3>1, <3>3, <4>2, <5>1
      <4> QED
        BY <2>4, <4>1, <4>2
    <3>6. t[n + 1] \in Seq(R \cap S)
      BY <3>1, <3>3
    <3>7. n + 1 \in 0 .. Len(s)
      BY <1>0
    <3> QED
      BY <3>5, <3>6, <3>7
  <2>6. CASE x \notin S
    <3>1. t[n + 1] = a
      BY <2>2, <2>6 DEF a
    <3> QED
      BY <1>0, <2>3, <2>4, <2>6, <3>1
  <2> QED
    BY <2>5, <2>6
<1>4. Len(s) \in M
  <2> HIDE DEF M
  <2>1. \A n \in 0 .. Len(s) : n \in M
    BY <1>0, <1>2, <1>3, UpToLength
  <2> QED
    BY <1>0, <2>1
<1> DEFINE k == Selected(s, S)
<1>5. k \in Seq(R \cap S) /\ \A i \in 1 .. Len(s) : s[i] \in S => \E j \in 1 .. Len(k) : k[j] = s[i]
  BY <1>1, <1>4
<1> HIDE DEF k
<1>6. DOMAIN k = 1 .. Len(k) /\ \A j \in 1 .. Len(k) : k[j] \in R \cap S
  <2> HIDE DEF R
  <2> QED
    BY <1>5, LenProperties
<1>7. IsChain(k)
  <2> HIDE DEF R
  <2> QED
    BY <1>5, ChainInSeq
<1>8. {k[j] : j \in DOMAIN k} = R \cap S
  BY <1>0, <1>5, <1>6
<1> QED
  BY <1>7, <1>8 DEF k

(* All of it, if all of it is in the set.                                  *)
LEMMA SelectedAll ==
  ASSUME NEW s, IsChain(s), NEW S, \A i \in DOMAIN s : s[i] \in S
  PROVE  Selected(s, S) = s
<1> DEFINE R == {s[i] : i \in DOMAIN s}
<1>0. Len(s) \in Nat /\ DOMAIN s = 1 .. Len(s) /\ s \in Seq(R)
  BY ChainForm DEF IsChain
<1>t. PICK t : SelectedBy(s, S, t)
  BY SelectedSteps
<1>1. /\ Selected(s, S) = t[Len(s)]
      /\ t[0] = <<>>
      /\ \A i \in 1 .. Len(s) :
            t[i] = IF s[i] \in S THEN Append(t[i - 1], s[i]) ELSE t[i - 1]
  BY <1>t DEF SelectedBy
<1> DEFINE M == {n \in 0 .. Len(s) :
                   /\ t[n] \in Seq(R) /\ Len(t[n]) = n
                   /\ \A i \in 1 .. n : t[n][i] = s[i]}
<1>2. 0 \in M
  <2>1. <<>> \in Seq(R) /\ Len(<<>>) = 0 /\ 0 \in 0 .. Len(s) /\ 1 .. 0 = {}
    BY <1>0
  <2> HIDE DEF R
  <2> QED
    BY <1>1, <2>1
<1>3. ASSUME NEW n \in 0 .. Len(s) - 1, n \in M PROVE n + 1 \in M
  <2>1. n + 1 \in 1 .. Len(s) /\ (n + 1) - 1 = n /\ s[n + 1] \in R /\ s[n + 1] \in S
    BY <1>0
  <2>2. t[n + 1] = Append(t[n], s[n + 1])
    BY <1>1, <2>1
  <2> DEFINE a == t[n]
  <2>3. a \in Seq(R) /\ Len(a) = n /\ \A i \in 1 .. n : a[i] = s[i]
    BY <1>3
  <2> HIDE DEF R, a
  <2>4. /\ Append(a, s[n + 1]) \in Seq(R) /\ Len(Append(a, s[n + 1])) = n + 1
        /\ \A i \in 1 .. n : Append(a, s[n + 1])[i] = a[i]
        /\ Append(a, s[n + 1])[n + 1] = s[n + 1]
    BY <2>1, <2>3, AppendProperties
  <2>5. \A i \in 1 .. n + 1 : i \in 1 .. n \/ i = n + 1
    OBVIOUS
  <2>6. t[n + 1] = Append(a, s[n + 1]) /\ n + 1 \in 0 .. Len(s)
    BY <1>0, <2>2 DEF a
  <2> QED
    BY <2>3, <2>4, <2>5, <2>6
<1>4. Len(s) \in M
  <2> HIDE DEF M
  <2>1. \A n \in 0 .. Len(s) : n \in M
    BY <1>0, <1>2, <1>3, UpToLength
  <2> QED
    BY <1>0, <2>1
<1> DEFINE k == Selected(s, S)
<1>5. k \in Seq(R) /\ Len(k) = Len(s) /\ \A i \in 1 .. Len(s) : k[i] = s[i]
  BY <1>1, <1>4
<1> HIDE DEF k, R
<1>6. k = [i \in 1 .. Len(k) |-> k[i]] /\ s = [i \in 1 .. Len(s) |-> s[i]]
  BY <1>0, <1>5, LenProperties
<1>7. k = s
  BY <1>5, <1>6
<1> QED
  BY <1>7 DEF k

(* The first element with a property stays the first, if it is selected:   *)
(* what was before it had not the property.                                *)
LEMMA SelectedFirst ==
  ASSUME NEW s, IsChain(s), NEW S, NEW P, NEW k \in DOMAIN s, s[k] \in S,
         \A j \in 1 .. k - 1 : s[j] \notin P
  PROVE  \E i \in DOMAIN Selected(s, S) :
            /\ Selected(s, S)[i] = s[k]
            /\ \A j \in 1 .. i - 1 : Selected(s, S)[j] \notin P
<1> DEFINE R == {s[i] : i \in DOMAIN s}
<1>0. Len(s) \in Nat /\ DOMAIN s = 1 .. Len(s)
  BY ChainForm
<1>t. PICK t : SelectedBy(s, S, t)
  BY SelectedSteps
<1>1. /\ Selected(s, S) = t[Len(s)]
      /\ t[0] = <<>>
      /\ \A i \in 1 .. Len(s) :
            t[i] = IF s[i] \in S THEN Append(t[i - 1], s[i]) ELSE t[i - 1]
  BY <1>t DEF SelectedBy
<1> DEFINE found(a) == \E i \in 1 .. Len(a) : a[i] = s[k] /\ \A j \in 1 .. i - 1 : a[j] \notin P
           M == {n \in 0 .. Len(s) :
                   /\ t[n] \in Seq(R)
                   /\ n < k => \A j \in 1 .. Len(t[n]) : t[n][j] \notin P
                   /\ n >= k => found(t[n])}
<1>2. 0 \in M
  <2>1. <<>> \in Seq(R) /\ 0 \in 0 .. Len(s) /\ 1 .. Len(<<>>) = {} /\ ~(0 >= k)
    BY <1>0
  <2> HIDE DEF R, found
  <2> QED
    BY <1>1, <2>1
<1>3. ASSUME NEW n \in 0 .. Len(s) - 1, n \in M PROVE n + 1 \in M
  <2>1. n + 1 \in 1 .. Len(s) /\ (n + 1) - 1 = n /\ s[n + 1] \in R /\ n + 1 \in 0 .. Len(s)
    BY <1>0
  <2>2. t[n + 1] = IF s[n + 1] \in S THEN Append(t[n], s[n + 1]) ELSE t[n]
    BY <1>1, <2>1
  <2> DEFINE a == t[n]
             x == s[n + 1]
             b == Append(a, x)
  <2>3. /\ a \in Seq(R)
        /\ n < k => \A j \in 1 .. Len(a) : a[j] \notin P
        /\ n >= k => found(a)
    BY <1>3
  <2>4. t[n + 1] = IF x \in S THEN b ELSE a
    BY <2>2
  <2>5. Len(a) \in Nat
    <3> HIDE DEF a, R
    <3> QED
      BY <2>3, LenProperties
  <2>6. /\ b \in Seq(R) /\ Len(b) = Len(a) + 1
        /\ \A j \in 1 .. Len(a) : b[j] = a[j]
        /\ b[Len(a) + 1] = x
    <3> HIDE DEF a, R, x
    <3> QED
      BY <2>1, <2>3, AppendProperties DEF x
  <2> HIDE DEF a, R, x, b
  <2>7. CASE n + 1 < k
    <3>1. x \notin P
      <4>1. n + 1 \in 1 .. k - 1
        BY <1>0, <2>1, <2>7
      <4> QED
        BY <4>1 DEF x
    <3>2. \A j \in 1 .. Len(b) : b[j] \notin P
      <4>1. n < k
        BY <2>7
      <4> QED
        BY <2>3, <2>5, <2>6, <3>1, <4>1
    <3>3. \A j \in 1 .. Len(a) : a[j] \notin P
      BY <2>3, <2>7
    <3>4. ~(n + 1 >= k)
      BY <1>0, <2>7
    <3> QED
      BY <2>1, <2>3, <2>4, <2>6, <3>2, <3>3, <3>4
  <2>8. CASE n + 1 = k
    <3>1. x = s[k] /\ x \in S /\ t[n + 1] = b
      BY <2>4, <2>8 DEF x
    <3>2. \A j \in 1 .. (Len(a) + 1) - 1 : b[j] \notin P
      BY <2>3, <2>5, <2>6, <2>8
    <3>3. found(b)
      <4>1. Len(a) + 1 \in 1 .. Len(b)
        BY <2>5, <2>6
      <4> QED
        BY <2>6, <3>1, <3>2, <4>1
    <3> HIDE DEF found
    <3>4. ~(n + 1 < k)
      BY <1>0, <2>8
    <3> QED
      BY <2>1, <2>6, <3>1, <3>3, <3>4
  <2>9. CASE n + 1 > k
    <3>1. n >= k /\ ~(n + 1 < k)
      BY <1>0, <2>9
    <3>2. found(a)
      BY <2>3, <3>1
    <3>3. PICK i \in 1 .. Len(a) : a[i] = s[k] /\ \A j \in 1 .. i - 1 : a[j] \notin P
      BY <3>2
    <3>4. i \in 1 .. Len(b) /\ b[i] = s[k] /\ \A j \in 1 .. i - 1 : b[j] \notin P
      <4>1. i \in 1 .. Len(a) + 1 /\ \A j \in 1 .. i - 1 : j \in 1 .. Len(a)
        BY <2>5
      <4> QED
        BY <2>6, <3>3, <4>1
    <3>5. found(b)
      BY <3>4
    <3> HIDE DEF found
    <3> QED
      BY <2>1, <2>3, <2>4, <2>6, <3>1, <3>2, <3>5
  <2> QED
    BY <1>0, <2>7, <2>8, <2>9
<1>4. Len(s) \in M
  <2> HIDE DEF M
  <2>1. \A n \in 0 .. Len(s) : n \in M
    BY <1>0, <1>2, <1>3, UpToLength
  <2> QED
    BY <1>0, <2>1
<1> DEFINE u == Selected(s, S)
<1>5. u \in Seq(R) /\ found(u)
  <2>1. Len(s) >= k
    BY <1>0
  <2> HIDE DEF found, R
  <2> QED
    BY <1>1, <1>4, <2>1
<1> HIDE DEF u, R
<1>6. DOMAIN u = 1 .. Len(u)
  BY <1>5, LenProperties
<1> QED
  BY <1>5, <1>6 DEF u

(* The same, if the sequences differ in what is not in the set only.       *)
LEMMA SelectedSame ==
  ASSUME NEW s, IsChain(s), NEW r, IsChain(r), NEW S, Len(s) = Len(r),
         \A i \in DOMAIN s : s[i] = r[i] \/ (s[i] \notin S /\ r[i] \notin S)
  PROVE  Selected(s, S) = Selected(r, S)
<1>0. Len(s) \in Nat /\ DOMAIN s = 1 .. Len(s)
  BY ChainForm
<1>t. PICK t : SelectedBy(s, S, t)
  BY SelectedSteps
<1>1. /\ Selected(s, S) = t[Len(s)]
      /\ t[0] = <<>>
      /\ \A i \in 1 .. Len(s) :
            t[i] = IF s[i] \in S THEN Append(t[i - 1], s[i]) ELSE t[i - 1]
  BY <1>t DEF SelectedBy
<1>u. PICK u : SelectedBy(r, S, u)
  BY SelectedSteps
<1>2. /\ Selected(r, S) = u[Len(r)]
      /\ u[0] = <<>>
      /\ \A i \in 1 .. Len(r) :
            u[i] = IF r[i] \in S THEN Append(u[i - 1], r[i]) ELSE u[i - 1]
  BY <1>u DEF SelectedBy
<1> DEFINE M == {n \in 0 .. Len(s) : t[n] = u[n]}
<1>3. 0 \in M
  BY <1>0, <1>1, <1>2
<1>4. ASSUME NEW n \in 0 .. Len(s) - 1, n \in M PROVE n + 1 \in M
  <2>1. n + 1 \in 1 .. Len(s) /\ (n + 1) - 1 = n /\ n + 1 \in 0 .. Len(s)
    BY <1>0
  <2>2. /\ t[n + 1] = IF s[n + 1] \in S THEN Append(t[n], s[n + 1]) ELSE t[n]
        /\ u[n + 1] = IF r[n + 1] \in S THEN Append(u[n], r[n + 1]) ELSE u[n]
    BY <1>1, <1>2, <2>1
  <2>3. s[n + 1] = r[n + 1] \/ (s[n + 1] \notin S /\ r[n + 1] \notin S)
    BY <1>0, <2>1
  <2>4. t[n] = u[n]
    BY <1>4
  <2>5. t[n + 1] = u[n + 1]
    BY <2>2, <2>3, <2>4
  <2> QED
    BY <2>1, <2>5
<1>5. Len(s) \in M
  <2> HIDE DEF M
  <2>1. \A n \in 0 .. Len(s) : n \in M
    BY <1>0, <1>3, <1>4, UpToLength
  <2> QED
    BY <1>0, <2>1
<1> QED
  BY <1>1, <1>2, <1>5

(* What is added at the end or in front, and is not in the set, adds       *)
(* nothing.                                                                *)
LEMMA SelectedBeforeLast ==
  ASSUME NEW s, IsChain(s), NEW S, NEW x, x \notin S, IsChain(Append(s, x))
  PROVE  Selected(Append(s, x), S) = Selected(s, S)
<1> DEFINE r == Append(s, x)
<1>0. Len(s) \in Nat /\ Len(r) = Len(s) + 1 /\ r[Len(s) + 1] = x
      /\ \A i \in 1 .. Len(s) : r[i] = s[i]
  <2> DEFINE R == {s[i] : i \in DOMAIN s} \cup {x}
  <2>1. s \in Seq(R) /\ x \in R
    <3>1. Len(s) \in Nat /\ s \in [1 .. Len(s) -> R]
      BY ChainForm, LenProperties DEF IsChain
    <3> QED
      BY <3>1
  <2> HIDE DEF R
  <2> QED
    BY <2>1, AppendProperties, LenProperties
<1>a. IsChain(r)
  OBVIOUS
<1> HIDE DEF r
<1>t. PICK t : SelectedBy(s, S, t)
  BY SelectedSteps
<1>1. /\ Selected(s, S) = t[Len(s)]
      /\ t[0] = <<>>
      /\ \A i \in 1 .. Len(s) :
            t[i] = IF s[i] \in S THEN Append(t[i - 1], s[i]) ELSE t[i - 1]
  BY <1>t DEF SelectedBy
<1>u. PICK u : SelectedBy(r, S, u)
  BY <1>a, SelectedSteps
<1>2. /\ Selected(r, S) = u[Len(r)]
      /\ u[0] = <<>>
      /\ \A i \in 1 .. Len(r) :
            u[i] = IF r[i] \in S THEN Append(u[i - 1], r[i]) ELSE u[i - 1]
  BY <1>u DEF SelectedBy
<1> DEFINE M == {n \in 0 .. Len(s) : t[n] = u[n]}
<1>3. 0 \in M
  BY <1>0, <1>1, <1>2
<1>4. ASSUME NEW n \in 0 .. Len(s) - 1, n \in M PROVE n + 1 \in M
  <2>1. /\ n + 1 \in 1 .. Len(s) /\ n + 1 \in 1 .. Len(r)
        /\ (n + 1) - 1 = n /\ n + 1 \in 0 .. Len(s)
    BY <1>0
  <2>2. /\ t[n + 1] = IF s[n + 1] \in S THEN Append(t[n], s[n + 1]) ELSE t[n]
        /\ u[n + 1] = IF r[n + 1] \in S THEN Append(u[n], r[n + 1]) ELSE u[n]
    BY <1>1, <1>2, <2>1
  <2>3. s[n + 1] = r[n + 1] /\ t[n] = u[n]
    BY <1>0, <1>4, <2>1
  <2> QED
    BY <2>1, <2>2, <2>3
<1>5. Len(s) \in M
  <2> HIDE DEF M
  <2>1. \A n \in 0 .. Len(s) : n \in M
    BY <1>0, <1>3, <1>4, UpToLength
  <2> QED
    BY <1>0, <2>1
<1>6. u[Len(s) + 1] = u[Len(s)]
  <2>1. Len(s) + 1 \in 1 .. Len(r) /\ (Len(s) + 1) - 1 = Len(s)
    BY <1>0
  <2> QED
    BY <1>0, <1>2, <2>1
<1>7. Selected(r, S) = Selected(s, S)
  BY <1>0, <1>1, <1>2, <1>5, <1>6
<1> QED
  BY <1>7 DEF r

LEMMA InFront ==
  ASSUME NEW s, IsChain(s), NEW x
  PROVE  /\ Len(<<x>> \o s) = Len(s) + 1
         /\ DOMAIN (<<x>> \o s) = 1 .. Len(s) + 1
         /\ (<<x>> \o s)[1] = x
         /\ \A i \in 1 .. Len(s) : (<<x>> \o s)[i + 1] = s[i]
<1> DEFINE R == {s[i] : i \in DOMAIN s} \cup {x}
<1>1. s \in Seq(R) /\ x \in R
  <2>1. Len(s) \in Nat /\ s \in [1 .. Len(s) -> R]
    BY ChainForm, LenProperties DEF IsChain
  <2> QED
    BY <2>1
<1> HIDE DEF R
<1>2. <<x>> \in Seq(R) /\ Len(<<x>>) = 1 /\ <<x>>[1] = x
  BY <1>1
<1>3. Len(s) \in Nat
  BY ChainForm
<1>4. /\ <<x>> \o s \in Seq(R) /\ Len(<<x>> \o s) = Len(<<x>>) + Len(s)
      /\ \A i \in 1 .. Len(<<x>>) + Len(s) :
           (<<x>> \o s)[i] = IF i <= Len(<<x>>) THEN <<x>>[i] ELSE s[i - Len(<<x>>)]
  BY <1>1, <1>2, ConcatProperties
<1> HIDE DEF R
<1>5. DOMAIN (<<x>> \o s) = 1 .. Len(<<x>> \o s)
  BY <1>4, LenProperties
<1>6. \A i \in 1 .. Len(s) : /\ i + 1 \in 1 .. Len(s) + 1 /\ ~(i + 1 <= 1) /\ (i + 1) - 1 = i
  BY <1>3
<1>7. 1 \in 1 .. Len(s) + 1 /\ 1 + Len(s) = Len(s) + 1
  BY <1>3
<1> QED
  BY <1>2, <1>4, <1>5, <1>6, <1>7

LEMMA SelectedAfterFirst ==
  ASSUME NEW s, IsChain(s), NEW S, NEW x, x \notin S, IsChain(<<x>> \o s)
  PROVE  Selected(<<x>> \o s, S) = Selected(s, S)
<1> DEFINE r == <<x>> \o s
<1>0. Len(s) \in Nat /\ Len(r) = Len(s) + 1 /\ r[1] = x
      /\ \A i \in 1 .. Len(s) : r[i + 1] = s[i]
  BY InFront, ChainForm
<1>a. IsChain(r)
  OBVIOUS
<1> HIDE DEF r
<1>t. PICK t : SelectedBy(s, S, t)
  BY SelectedSteps
<1>1. /\ Selected(s, S) = t[Len(s)]
      /\ t[0] = <<>>
      /\ \A i \in 1 .. Len(s) :
            t[i] = IF s[i] \in S THEN Append(t[i - 1], s[i]) ELSE t[i - 1]
  BY <1>t DEF SelectedBy
<1>u. PICK u : SelectedBy(r, S, u)
  BY <1>a, SelectedSteps
<1>2. /\ Selected(r, S) = u[Len(r)]
      /\ u[0] = <<>>
      /\ \A i \in 1 .. Len(r) :
            u[i] = IF r[i] \in S THEN Append(u[i - 1], r[i]) ELSE u[i - 1]
  BY <1>u DEF SelectedBy
<1> DEFINE M == {n \in 0 .. Len(s) : t[n] = u[n + 1]}
<1>3. 0 \in M
  <2>1. 1 \in 1 .. Len(r) /\ 1 - 1 = 0 /\ 0 + 1 = 1 /\ 0 \in 0 .. Len(s)
    BY <1>0
  <2>2. u[1] = u[0]
    BY <1>0, <1>2, <2>1
  <2> QED
    BY <1>1, <1>2, <2>1, <2>2
<1>4. ASSUME NEW n \in 0 .. Len(s) - 1, n \in M PROVE n + 1 \in M
  <2>1. /\ n + 1 \in 1 .. Len(s) /\ (n + 1) + 1 \in 1 .. Len(r)
        /\ (n + 1) - 1 = n /\ ((n + 1) + 1) - 1 = n + 1 /\ n + 1 \in 0 .. Len(s)
    BY <1>0
  <2>2. /\ t[n + 1] = IF s[n + 1] \in S THEN Append(t[n], s[n + 1]) ELSE t[n]
        /\ u[(n + 1) + 1] = IF r[(n + 1) + 1] \in S THEN Append(u[n + 1], r[(n + 1) + 1])
                            ELSE u[n + 1]
    BY <1>1, <1>2, <2>1
  <2>3. r[(n + 1) + 1] = s[n + 1] /\ t[n] = u[n + 1]
    BY <1>0, <1>4, <2>1
  <2> QED
    BY <2>1, <2>2, <2>3
<1>5. Len(s) \in M
  <2> HIDE DEF M
  <2>1. \A n \in 0 .. Len(s) : n \in M
    BY <1>0, <1>3, <1>4, UpToLength
  <2> QED
    BY <1>0, <2>1
<1>7. Selected(r, S) = Selected(s, S)
  BY <1>0, <1>1, <1>2, <1>5
<1> QED
  BY <1>7 DEF r

-----------------------------------------------------------------------------
(* Steps: what becomes of a configuration                                  *)

(* What stands in the place of another, at the front, at the end, or taken *)
(* out of a sequence, leaves a sequence of what was there and what is new. *)
LEMMA ChainsStay ==
  ASSUME NEW R, NEW s \in Seq(R), NEW x \in R
  PROVE  /\ Append(s, x) \in Seq(R)
         /\ <<x>> \o s \in Seq(R)
         /\ \A i \in DOMAIN s : [s EXCEPT ![i] = x] \in Seq(R)
         /\ \A i \in DOMAIN s : RemoveAt(s, i) \in Seq(R)
<1>1. Len(s) \in Nat /\ DOMAIN s = 1 .. Len(s)
  BY LenProperties
<1>2. Append(s, x) \in Seq(R)
  BY AppendProperties
<1>3. <<x>> \o s \in Seq(R)
  <2>1. <<x>> \in Seq(R)
    OBVIOUS
  <2> QED
    BY <2>1, ConcatProperties
<1>4. ASSUME NEW i \in DOMAIN s PROVE [s EXCEPT ![i] = x] \in Seq(R)
  BY <1>1, ExceptSeq
<1>5. ASSUME NEW i \in DOMAIN s PROVE RemoveAt(s, i) \in Seq(R)
  <2>1. SubSeq(s, 1, i - 1) \in Seq(R)
    BY <1>1, SubSeqProperties
  <2>2. SubSeq(s, i + 1, Len(s)) \in Seq(R)
    BY <1>1, SubSeqProperties
  <2> QED
    BY <2>1, <2>2, ConcatProperties DEF RemoveAt
<1> QED
  BY <1>2, <1>3, <1>4, <1>5

IsPolicies(s) == IsChain(s) /\ \A i \in DOMAIN s : IsPolicy(s[i])

LEMMA PoliciesOf ==
  ASSUME NEW R, \A x \in R : IsPolicy(x), NEW s \in Seq(R)
  PROVE  IsPolicies(s)
<1>1. IsChain(s)
  BY ChainInSeq
<1>2. \A i \in DOMAIN s : s[i] \in R
  BY LenProperties
<1> QED
  BY <1>1, <1>2 DEF IsPolicies

LEMMA PoliciesStay ==
  ASSUME NEW s, IsPolicies(s), NEW pol, IsPolicy(pol)
  PROVE  /\ IsPolicies(Append(s, pol))
         /\ IsPolicies(<<pol>> \o s)
         /\ \A i \in DOMAIN s : IsPolicies([s EXCEPT ![i] = pol])
         /\ \A i \in DOMAIN s : IsPolicies(RemoveAt(s, i))
<1> DEFINE R == {s[i] : i \in DOMAIN s} \cup {pol}
<1>1. s \in Seq(R) /\ pol \in R
  <2>1. Len(s) \in Nat /\ s \in [1 .. Len(s) -> R]
    BY ChainForm, LenProperties DEF IsPolicies, IsChain
  <2> QED
    BY <2>1
<1>2. \A x \in R : IsPolicy(x)
  BY DEF IsPolicies
<1> HIDE DEF R
<1> QED
  BY <1>1, <1>2, ChainsStay, PoliciesOf

IsObjects(s) == IsChain(s) /\ \A i \in DOMAIN s : IsObject(s[i])

LEMMA ObjectsStay ==
  ASSUME NEW s, IsObjects(s)
  PROVE  /\ \A o : IsObject(o) => IsObjects(Append(s, o))
         /\ \A i \in DOMAIN s : \A o : IsObject(o) => IsObjects([s EXCEPT ![i] = o])
         /\ \A S : IsObjects(Selected(s, S))
<1>0. Len(s) \in Nat /\ DOMAIN s = 1 .. Len(s)
  BY ChainForm DEF IsObjects
<1>1. ASSUME NEW o, IsObject(o)
      PROVE  /\ IsObjects(Append(s, o))
             /\ \A i \in DOMAIN s : IsObjects([s EXCEPT ![i] = o])
  <2> DEFINE R == {s[i] : i \in DOMAIN s} \cup {o}
  <2>1. s \in Seq(R) /\ o \in R
    <3>1. s \in [1 .. Len(s) -> R]
      BY <1>0, LenProperties DEF IsObjects, IsChain
    <3> QED
      BY <1>0, <3>1
  <2>2. \A x \in R : IsObject(x)
    BY <1>1 DEF IsObjects
  <2> HIDE DEF R
  <2>3. ASSUME NEW r \in Seq(R) PROVE IsObjects(r)
    <3>1. \A i \in DOMAIN r : r[i] \in R
      BY LenProperties
    <3>2. IsChain(r)
      BY ChainInSeq
    <3> QED
      BY <2>2, <3>1, <3>2 DEF IsObjects
  <2> QED
    BY <2>1, <2>3, ChainsStay
<1>2. ASSUME NEW S PROVE IsObjects(Selected(s, S))
  <2> DEFINE k == Selected(s, S)
  <2>1. IsChain(s)
    BY DEF IsObjects
  <2>2. IsChain(k) /\ {k[j] : j \in DOMAIN k} = {s[i] : i \in DOMAIN s} \cap S
    BY <2>1, SelectedElements
  <2> HIDE DEF k
  <2>3. \A j \in DOMAIN k : \E i \in DOMAIN s : k[j] = s[i]
    BY <2>2
  <2>4. IsObjects(k)
    BY <2>2, <2>3 DEF IsObjects
  <2> QED
    BY <2>4 DEF k
<1> QED
  BY <1>1, <1>2

(* A configuration with other policies or objects in it.                   *)
LEMMA PartsStay ==
  ASSUME NEW c, IsConfig(c)
  PROVE  /\ IsPolicies(c.policies) /\ IsObjects(c.objects)
         /\ \A s : IsPolicies(s) => IsConfig([c EXCEPT !.policies = s])
         /\ \A s \in Seq(IfaceType) : IsConfig([c EXCEPT !.ifaces = s])
         /\ \A s : IsObjects(s) => IsConfig([c EXCEPT !.objects = s])
         /\ \A w \in WireGuardType, o \in OpenVPNType : \A s, d, n :
              IsConfig([c EXCEPT !.wireguard = w, !.openvpn = o, !.sni = s, !.dns = d, !.ntp = n])
<1>1. IsPolicies(c.policies)
  BY PolicyForm DEF IsPolicies
<1>a. IsObjects(c.objects)
  BY DEF IsConfig, IsObjects, IsChain, Objects
<1>2. ASSUME NEW s, IsPolicies(s) PROVE IsConfig([c EXCEPT !.policies = s])
  BY <1>2 DEF IsConfig, IsPolicies, IsChain, Objects
<1>3. ASSUME NEW s \in Seq(IfaceType) PROVE IsConfig([c EXCEPT !.ifaces = s])
  BY DEF IsConfig, Objects
<1>4. ASSUME NEW s, IsObjects(s) PROVE IsConfig([c EXCEPT !.objects = s])
  BY <1>4 DEF IsConfig, Objects, IsObjects, IsChain
<1>5. ASSUME NEW w \in WireGuardType, NEW o \in OpenVPNType, NEW s, NEW d, NEW n
      PROVE  IsConfig([c EXCEPT !.wireguard = w, !.openvpn = o, !.sni = s, !.dns = d, !.ntp = n])
  <2> DEFINE e == [c EXCEPT !.wireguard = w, !.openvpn = o, !.sni = s, !.dns = d, !.ntp = n]
             Fields == {"mode", "ifaces", "policies", "objects", "ids", "services", "wireguard",
                        "openvpn", "sni", "dns", "ntp", "apiPort"}
  <2>1. c = [part \in Fields |-> c[part]]
    BY DEF IsConfig
  <2>2. e = [part \in Fields |-> e[part]]
    BY <2>1
  <2>3. e.wireguard = w /\ e.openvpn = o
    BY <2>1
  <2> QED
    BY <2>2, <2>3 DEF IsConfig, Objects
<1> QED
  BY <1>1, <1>a, <1>2, <1>3, <1>4, <1>5

(* The policies the store adds.                                            *)
LEMMA AddedPolicies ==
  /\ \A object : IsPolicy(ipsAutoBlockDenyPolicy(object))
  /\ IsPolicy(vpnAutoBlockDenyPolicy)
  /\ \A zone : IsPolicy(mgmtAPIPolicy(zone))
<1>1. ASSUME NEW object PROVE IsPolicy(ipsAutoBlockDenyPolicy(object))
  BY DEF ipsAutoBlockDenyPolicy, AnyPolicy, IsPolicy
<1>2. IsPolicy(vpnAutoBlockDenyPolicy)
  BY DEF vpnAutoBlockDenyPolicy, AnyPolicy, IsPolicy
<1>3. ASSUME NEW zone PROVE IsPolicy(mgmtAPIPolicy(zone))
  BY DEF mgmtAPIPolicy, LocalPolicy, AnyPolicy, IsPolicy
<1> QED
  BY <1>1, <1>2, <1>3

LEMMA PartsOther ==
  ASSUME NEW c, IsConfig(c), NEW s
  PROVE  /\ [c EXCEPT !.policies = s].policies = s
         /\ [c EXCEPT !.policies = s].objects = c.objects
         /\ [c EXCEPT !.policies = s].ids = c.ids
         /\ [c EXCEPT !.policies = s].mode = c.mode
         /\ [c EXCEPT !.objects = s].objects = s
         /\ [c EXCEPT !.objects = s].policies = c.policies
         /\ [c EXCEPT !.objects = s].ids = c.ids
         /\ [c EXCEPT !.objects = s].mode = c.mode
         /\ [c EXCEPT !.policies = c.policies] = c
         /\ [c EXCEPT !.objects = c.objects] = c
  BY DEF IsConfig

-----------------------------------------------------------------------------
(* Migration. The first policy with an ID, and what stands for the object  *)
(* that IDS fills: the one it is told to fill, or the first of the name.   *)
FirstAt(c, id, k) ==
    /\ k \in DOMAIN c.policies
    /\ c.policies[k].id = id
    /\ \A j \in 1 .. k - 1 : c.policies[j].id # id

Fills(c, x) ==
    \/ c.ids \in ObjectIds(c) /\ x = c.ids
    \/ /\ c.ids \notin ObjectIds(c)
       /\ \E k \in DOMAIN c.objects :
             /\ c.objects[k].name = IpsObjectName /\ x = c.objects[k].id
             /\ \A j \in 1 .. k - 1 : c.objects[j].name # IpsObjectName

LEMMA FirstPolicy ==
  ASSUME NEW c, IsConfig(c), NEW id
  PROVE  /\ Positions(c, id) # {} => FirstAt(c, id, Min(Positions(c, id)))
         /\ \A k : FirstAt(c, id, k) => Positions(c, id) # {} /\ Min(Positions(c, id)) = k
<1> DEFINE S == Positions(c, id)
<1>1. S \in SUBSET Nat /\ \A i : i \in S <=> i \in DOMAIN c.policies /\ c.policies[i].id = id
  BY PolicyForm DEF Positions
<1>2. DOMAIN c.policies = 1 .. Len(c.policies) /\ Len(c.policies) \in Nat
  BY PolicyForm
<1> HIDE DEF S
<1>3. S # {} => Min(S) \in S /\ \A n \in S : Min(S) <= n
  BY <1>1, MinIsLeast
<1>4. ASSUME S # {} PROVE FirstAt(c, id, Min(S))
  BY <1>1, <1>2, <1>3, <1>4 DEF FirstAt
<1>5. ASSUME NEW k, FirstAt(c, id, k) PROVE S # {} /\ Min(S) = k
  <2>1. k \in S /\ k \in Nat
    BY <1>1, <1>2, <1>5 DEF FirstAt
  <2>2. Min(S) \in S /\ Min(S) <= k /\ Min(S) \in Nat
    BY <1>1, <1>3, <2>1
  <2>3. ~(Min(S) < k)
    <3>1. ASSUME Min(S) < k PROVE FALSE
      <4>1. Min(S) \in 1 .. k - 1
        BY <1>1, <1>2, <2>1, <2>2, <3>1
      <4> QED
        BY <1>1, <1>5, <2>2, <4>1 DEF FirstAt
    <3> QED
      BY <3>1
  <2> QED
    BY <2>1, <2>2, <2>3
<1> QED
  BY <1>4, <1>5 DEF S

LEMMA ObjectForm ==
  ASSUME NEW c, IsConfig(c)
  PROVE  /\ IsChain(c.objects) /\ Len(c.objects) \in Nat
         /\ DOMAIN c.objects = 1 .. Len(c.objects)
         /\ \A i \in DOMAIN c.objects : c.objects[i] \in Objects(c)
         /\ \A o \in Objects(c) : IsObject(o) /\ \E i \in DOMAIN c.objects : o = c.objects[i]
         /\ \A id : id \in ObjectIds(c) <=> \E o \in Objects(c) : o.id = id
<1>1. IsChain(c.objects)
  BY DEF IsConfig, IsChain, Objects
<1> QED
  BY <1>1, ChainForm DEF Objects, ObjectIds, IsConfig

LEMMA CanonicalIs ==
  ASSUME NEW c, IsConfig(c), NEW x, Fills(c, x)
  PROVE  CanonicalObject(c) = x /\ HasCanonicalObject(c) /\ x \in ObjectIds(c)
<1> DEFINE named == {i \in DOMAIN c.objects : c.objects[i].name = IpsObjectName}
<1>1. CASE c.ids \in ObjectIds(c)
  BY <1>1 DEF Fills, CanonicalObject, HasCanonicalObject
<1>2. CASE c.ids \notin ObjectIds(c)
  <2>1. PICK k \in DOMAIN c.objects :
           /\ c.objects[k].name = IpsObjectName /\ x = c.objects[k].id
           /\ \A j \in 1 .. k - 1 : c.objects[j].name # IpsObjectName
    BY <1>2 DEF Fills
  <2>2. DOMAIN c.objects = 1 .. Len(c.objects) /\ Len(c.objects) \in Nat
    BY ObjectForm
  <2>3. named \in SUBSET Nat /\ k \in named
    BY <2>1, <2>2
  <2>4. \A n \in named : n \in 1 .. Len(c.objects) /\ n \notin 1 .. k - 1
    BY <2>1, <2>2
  <2>5. CanonicalObject(c) = IF named # {} THEN c.objects[Min(named)].id ELSE IpsObjectID
    BY <1>2 DEF CanonicalObject
  <2> HIDE DEF named
  <2>6. Min(named) \in named /\ Min(named) <= k
    BY <2>3, MinIsLeast
  <2>7. Min(named) = k
    <3>1. Min(named) \in 1 .. Len(c.objects) /\ Min(named) \notin 1 .. k - 1 /\ k \in Nat
      BY <2>2, <2>3, <2>4, <2>6
    <3> QED
      BY <2>2, <2>6, <3>1
  <2> QED
    BY <2>1, <2>3, <2>5, <2>7 DEF HasCanonicalObject, ObjectIds
<1> QED
  BY <1>1, <1>2

LEMMA CanonicalFilled ==
  ASSUME NEW c, IsConfig(c)
  PROVE  /\ HasCanonicalObject(c) => Fills(c, CanonicalObject(c))
         /\ ~HasCanonicalObject(c) => CanonicalObject(c) = IpsObjectID
<1> DEFINE named == {i \in DOMAIN c.objects : c.objects[i].name = IpsObjectName}
<1>1. CASE c.ids \in ObjectIds(c)
  BY <1>1 DEF Fills, CanonicalObject, HasCanonicalObject
<1>2. CASE c.ids \notin ObjectIds(c)
  <2>1. CanonicalObject(c) = IF named # {} THEN c.objects[Min(named)].id ELSE IpsObjectID
    BY <1>2 DEF CanonicalObject
  <2>2. HasCanonicalObject(c) <=> named # {}
    BY <1>2 DEF HasCanonicalObject
  <2>3. DOMAIN c.objects = 1 .. Len(c.objects) /\ Len(c.objects) \in Nat
    BY ObjectForm
  <2>4. named \in SUBSET Nat /\ \A i : i \in named <=> i \in DOMAIN c.objects /\ c.objects[i].name = IpsObjectName
    BY <2>3
  <2> HIDE DEF named
  <2>5. ASSUME named # {} PROVE Fills(c, CanonicalObject(c))
    <3>1. Min(named) \in named /\ \A n \in named : Min(named) <= n
      BY <2>4, <2>5, MinIsLeast
    <3>2. \A j \in 1 .. Min(named) - 1 : j \in Nat /\ j \in DOMAIN c.objects /\ ~(Min(named) <= j)
      BY <2>3, <2>4, <3>1
    <3>3. \A j \in 1 .. Min(named) - 1 : c.objects[j].name # IpsObjectName
      BY <2>4, <3>1, <3>2
    <3> QED
      BY <1>2, <2>1, <2>4, <2>5, <3>1, <3>3 DEF Fills
  <2> QED
    BY <2>1, <2>2, <2>5
<1> QED
  BY <1>1, <1>2

(* A change of the policies with one ID: the others stay, in their order.  *)
KeepsPolicies(c, d, id) ==
    /\ \A S : (\A pol \in S : pol.id # id) => Selected(d.policies, S) = Selected(c.policies, S)
    /\ \A other, k : other # id /\ FirstAt(c, other, k) =>
          \E i : FirstAt(d, other, i) /\ d.policies[i] = c.policies[k]
    /\ \A i \in DOMAIN d.policies : d.policies[i].id # id =>
          \E j \in DOMAIN c.policies : d.policies[i] = c.policies[j]

KeepsOthers(c, d, id) ==
    /\ IsConfig(d)
    /\ d.objects = c.objects /\ d.ids = c.ids /\ d.mode = c.mode
    /\ KeepsPolicies(c, d, id)

(* A configuration that names the same IDS object as another one and holds *)
(* each of its policies refers to every object the other refers to.        *)
CarriesAll(c, d) ==
    /\ d.ids = c.ids
    /\ \A i \in DOMAIN c.policies : \E j \in DOMAIN d.policies : d.policies[j] = c.policies[i]

LEMMA ReferencedStay ==
  ASSUME NEW c, NEW d, CarriesAll(c, d)
  PROVE  Referenced(c) \subseteq Referenced(d)
<1> SUFFICES ASSUME NEW x \in Referenced(c), x # c.ids PROVE x \in Referenced(d)
  BY DEF Referenced, CarriesAll
<1>1. PICK i \in DOMAIN c.policies : x \in {c.policies[i].srcObj, c.policies[i].dstObj}
  BY DEF Referenced
<1>2. PICK j \in DOMAIN d.policies : d.policies[j] = c.policies[i]
  BY DEF CarriesAll
<1> QED
  BY <1>1, <1>2 DEF Referenced, CarriesAll

LEMMA PutInFront ==
  ASSUME NEW c, IsConfig(c), NEW pol, IsPolicy(pol), NEW d,
         d = [c EXCEPT !.policies = <<pol>> \o c.policies]
  PROVE  /\ KeepsOthers(c, d, pol.id)
         /\ FirstAt(d, pol.id, 1) /\ d.policies[1] = pol
         /\ Referenced(c) \subseteq Referenced(d)
<1> DEFINE s == c.policies
           r == <<pol>> \o s
<1>1. IsConfig(d)
  BY PartsStay, PoliciesStay
<1>2. d.policies = r /\ d.objects = c.objects /\ d.ids = c.ids /\ d.mode = c.mode
  BY PartsOther
<1>3. /\ IsChain(s) /\ Len(s) \in Nat /\ DOMAIN s = 1 .. Len(s) /\ DOMAIN r = 1 .. Len(s) + 1
      /\ r[1] = pol /\ \A i \in 1 .. Len(s) : r[i + 1] = s[i]
  BY PolicyForm, InFront
<1>4. IsChain(r)
  BY <1>1, <1>2, PolicyForm
<1>5. \A S : (\A p \in S : p.id # pol.id) => Selected(r, S) = Selected(s, S)
  <2> HIDE DEF s
  <2> TAKE S
  <2> HAVE \A p \in S : p.id # pol.id
  <2>1. pol \notin S
    OBVIOUS
  <2> QED
    BY <1>3, <1>4, <2>1, SelectedAfterFirst
<1> HIDE DEF r
<1>6. \A i \in 2 .. Len(s) + 1 : i - 1 \in 1 .. Len(s) /\ r[i] = s[i - 1]
  <2> TAKE i \in 2 .. Len(s) + 1
  <2>1. i - 1 \in 1 .. Len(s) /\ (i - 1) + 1 = i
    BY <1>3
  <2> QED
    BY <1>3, <2>1
<1>7. ASSUME NEW other, NEW k, other # pol.id, FirstAt(c, other, k)
      PROVE  \E i : FirstAt(d, other, i) /\ d.policies[i] = s[k]
  <2>1. k \in 1 .. Len(s) /\ s[k].id = other /\ \A j \in 1 .. k - 1 : s[j].id # other
    BY <1>3, <1>7 DEF FirstAt
  <2>2. k + 1 \in DOMAIN r /\ r[k + 1] = s[k]
    BY <1>3, <2>1
  <2>3. ASSUME NEW j \in 1 .. (k + 1) - 1 PROVE r[j].id # other
    <3>1. CASE j = 1
      BY <1>3, <1>7, <3>1
    <3>2. CASE j # 1
      <4>1. j \in 2 .. Len(s) + 1 /\ j - 1 \in 1 .. k - 1
        BY <1>3, <2>1, <3>2
      <4> QED
        BY <1>6, <2>1, <4>1
    <3> QED
      BY <3>1, <3>2
  <2>4. FirstAt(d, other, k + 1)
    BY <1>2, <2>1, <2>2, <2>3 DEF FirstAt
  <2> QED
    BY <1>2, <2>2, <2>4
<1>8. ASSUME NEW i \in DOMAIN r, r[i].id # pol.id PROVE \E j \in DOMAIN s : r[i] = s[j]
  <2>1. i \in 2 .. Len(s) + 1
    BY <1>3, <1>8
  <2> QED
    BY <1>3, <1>6, <2>1
<1>9. FirstAt(d, pol.id, 1)
  <2>1. 1 \in DOMAIN r /\ 1 .. 1 - 1 = {}
    BY <1>3
  <2> QED
    BY <1>2, <1>3, <2>1 DEF FirstAt
<1>10. \A i \in DOMAIN s : \E j \in DOMAIN r : r[j] = s[i]
  <2> TAKE i \in DOMAIN s
  <2>1. i + 1 \in DOMAIN r /\ r[i + 1] = s[i]
    BY <1>3
  <2> QED
    BY <2>1
<1>11. Referenced(c) \subseteq Referenced(d)
  <2>1. \A i \in DOMAIN c.policies : \E j \in DOMAIN d.policies : d.policies[j] = c.policies[i]
    BY <1>2, <1>10
  <2>2. d.ids = c.ids
    BY <1>2
  <2>3. CarriesAll(c, d)
    BY <2>1, <2>2, Zenon DEF CarriesAll
  <2> QED
    BY <2>3, ReferencedStay, Zenon
<1>12. KeepsOthers(c, d, pol.id)
  <2>0. ASSUME NEW other, NEW n, other # pol.id, FirstAt(c, other, n)
        PROVE  \E i : FirstAt(d, other, i) /\ d.policies[i] = s[n]
    BY <1>7, <2>0
  <2>1. ASSUME NEW i \in DOMAIN r, r[i].id # pol.id PROVE \E j \in DOMAIN s : r[i] = s[j]
    BY <1>8, <2>1
  <2> HIDE DEF s
  <2>2. s = c.policies /\ r = d.policies
    BY <1>2 DEF s
  <2>3. \A S : (\A p \in S : p.id # pol.id) =>
           Selected(d.policies, S) = Selected(c.policies, S)
    BY <1>5, <2>2, Zenon
  <2>4. \A other, n : other # pol.id /\ FirstAt(c, other, n) =>
           \E i : FirstAt(d, other, i) /\ d.policies[i] = c.policies[n]
    <3> TAKE other, n
    <3> HAVE other # pol.id /\ FirstAt(c, other, n)
    <3>1. PICK i : FirstAt(d, other, i) /\ d.policies[i] = s[n]
      BY <2>0
    <3> QED
      BY <2>2, <3>1
  <2>5. \A i \in DOMAIN d.policies : d.policies[i].id # pol.id =>
           \E j \in DOMAIN c.policies : d.policies[i] = c.policies[j]
    BY <2>1, <2>2
  <2> QED
    BY <1>1, <1>2, <2>3, <2>4, <2>5, Zenon DEF KeepsOthers, KeepsPolicies
<1> QED
  BY <1>2, <1>3, <1>9, <1>11, <1>12

LEMMA AtTheEnd ==
  ASSUME NEW s, IsChain(s), NEW x
  PROVE  /\ DOMAIN Append(s, x) = 1 .. Len(s) + 1
         /\ Append(s, x)[Len(s) + 1] = x
         /\ \A i \in 1 .. Len(s) : Append(s, x)[i] = s[i]
<1> DEFINE R == {s[i] : i \in DOMAIN s} \cup {x}
<1>1. s \in Seq(R) /\ x \in R
  <2>1. Len(s) \in Nat /\ s \in [1 .. Len(s) -> R]
    BY ChainForm, LenProperties DEF IsChain
  <2> QED
    BY <2>1
<1> HIDE DEF R
<1> QED
  BY <1>1, AppendProperties, LenProperties

LEMMA PutLast ==
  ASSUME NEW c, IsConfig(c), NEW pol, IsPolicy(pol), NEW d,
         d = [c EXCEPT !.policies = Append(c.policies, pol)]
  PROVE  /\ KeepsOthers(c, d, pol.id)
         /\ Positions(c, pol.id) = {} => FirstAt(d, pol.id, Len(c.policies) + 1)
         /\ Referenced(c) \subseteq Referenced(d)
<1> DEFINE s == c.policies
           r == Append(s, pol)
<1>1. IsConfig(d)
  BY PartsStay, PoliciesStay
<1>2. d.policies = r /\ d.objects = c.objects /\ d.ids = c.ids /\ d.mode = c.mode
  BY PartsOther
<1>3. /\ IsChain(s) /\ Len(s) \in Nat /\ DOMAIN s = 1 .. Len(s) /\ DOMAIN r = 1 .. Len(s) + 1
      /\ r[Len(s) + 1] = pol /\ \A i \in 1 .. Len(s) : r[i] = s[i]
  BY PolicyForm, AtTheEnd
<1>4. IsChain(r)
  BY <1>1, <1>2, PolicyForm
<1>5. \A S : (\A p \in S : p.id # pol.id) => Selected(r, S) = Selected(s, S)
  <2> HIDE DEF s
  <2> TAKE S
  <2> HAVE \A p \in S : p.id # pol.id
  <2>1. pol \notin S
    OBVIOUS
  <2> QED
    BY <1>3, <1>4, <2>1, SelectedBeforeLast
<1> HIDE DEF r
<1>7. ASSUME NEW other, NEW k, other # pol.id, FirstAt(c, other, k)
      PROVE  \E i : FirstAt(d, other, i) /\ d.policies[i] = s[k]
  <2>1. k \in 1 .. Len(s) /\ s[k].id = other /\ \A j \in 1 .. k - 1 : s[j].id # other
    BY <1>3, <1>7 DEF FirstAt
  <2>2. k \in DOMAIN r /\ r[k] = s[k] /\ \A j \in 1 .. k - 1 : r[j] = s[j]
    BY <1>3, <2>1
  <2>4. FirstAt(d, other, k)
    BY <1>2, <2>1, <2>2 DEF FirstAt
  <2> QED
    BY <1>2, <2>2, <2>4
<1>8. ASSUME NEW i \in DOMAIN r, r[i].id # pol.id PROVE \E j \in DOMAIN s : r[i] = s[j]
  <2>1. i \in 1 .. Len(s)
    BY <1>3, <1>8
  <2> QED
    BY <1>3, <2>1
<1>9. ASSUME Positions(c, pol.id) = {} PROVE FirstAt(d, pol.id, Len(s) + 1)
  <2>1. \A j \in 1 .. Len(s) : s[j].id # pol.id
    BY <1>3, <1>9 DEF Positions
  <2>2. Len(s) + 1 \in DOMAIN r /\ (Len(s) + 1) - 1 = Len(s)
    BY <1>3
  <2> QED
    BY <1>2, <1>3, <2>1, <2>2 DEF FirstAt
<1>10. \A i \in DOMAIN s : \E j \in DOMAIN r : r[j] = s[i]
  BY <1>3
<1>11. Referenced(c) \subseteq Referenced(d)
  <2>1. \A i \in DOMAIN c.policies : \E j \in DOMAIN d.policies : d.policies[j] = c.policies[i]
    BY <1>2, <1>10
  <2>2. d.ids = c.ids
    BY <1>2
  <2>3. CarriesAll(c, d)
    BY <2>1, <2>2, Zenon DEF CarriesAll
  <2> QED
    BY <2>3, ReferencedStay, Zenon
<1>12. KeepsOthers(c, d, pol.id)
  <2>0. ASSUME NEW other, NEW n, other # pol.id, FirstAt(c, other, n)
        PROVE  \E i : FirstAt(d, other, i) /\ d.policies[i] = s[n]
    BY <1>7, <2>0
  <2>1. ASSUME NEW i \in DOMAIN r, r[i].id # pol.id PROVE \E j \in DOMAIN s : r[i] = s[j]
    BY <1>8, <2>1
  <2> HIDE DEF s
  <2>2. s = c.policies /\ r = d.policies
    BY <1>2 DEF s
  <2>3. \A S : (\A p \in S : p.id # pol.id) =>
           Selected(d.policies, S) = Selected(c.policies, S)
    BY <1>5, <2>2, Zenon
  <2>4. \A other, n : other # pol.id /\ FirstAt(c, other, n) =>
           \E i : FirstAt(d, other, i) /\ d.policies[i] = c.policies[n]
    <3> TAKE other, n
    <3> HAVE other # pol.id /\ FirstAt(c, other, n)
    <3>1. PICK i : FirstAt(d, other, i) /\ d.policies[i] = s[n]
      BY <2>0
    <3> QED
      BY <2>2, <3>1
  <2>5. \A i \in DOMAIN d.policies : d.policies[i].id # pol.id =>
           \E j \in DOMAIN c.policies : d.policies[i] = c.policies[j]
    BY <2>1, <2>2
  <2> QED
    BY <1>1, <1>2, <2>3, <2>4, <2>5, Zenon DEF KeepsOthers, KeepsPolicies
<1> QED
  BY <1>2, <1>3, <1>9, <1>11, <1>12

LEMMA Rewire ==
  ASSUME NEW c, IsConfig(c), NEW k \in DOMAIN c.policies, NEW pol, IsPolicy(pol), NEW d,
         d = [c EXCEPT !.policies = [c.policies EXCEPT ![k] = pol]],
         pol.id = c.policies[k].id, pol.dstObj = c.policies[k].dstObj
  PROVE  /\ KeepsOthers(c, d, pol.id)
         /\ FirstAt(c, pol.id, k) => FirstAt(d, pol.id, k)
         /\ d.policies[k] = pol
         /\ Referenced(c) \subseteq Referenced(d) \union {c.policies[k].srcObj}
         /\ pol.srcObj \in Referenced(d)
         /\ DOMAIN d.policies = DOMAIN c.policies
         /\ \A i \in DOMAIN c.policies : i # k => d.policies[i] = c.policies[i]
<1> DEFINE s == c.policies
           r == [s EXCEPT ![k] = pol]
<1>1. IsConfig(d)
  BY PartsStay, PoliciesStay
<1>2. d.policies = r /\ d.objects = c.objects /\ d.ids = c.ids /\ d.mode = c.mode
  BY PartsOther
<1>3. /\ IsChain(s) /\ Len(s) \in Nat /\ DOMAIN s = 1 .. Len(s) /\ DOMAIN r = 1 .. Len(s)
      /\ r[k] = pol /\ \A i \in 1 .. Len(s) : i # k => r[i] = s[i]
  BY PolicyForm
<1>4. IsChain(r) /\ Len(r) = Len(s)
  <2> HIDE DEF r
  <2>1. IsChain(r)
    BY <1>1, <1>2, PolicyForm
  <2>2. Len(r) \in Nat /\ 1 .. Len(r) = 1 .. Len(s)
    BY <1>3, <2>1, ChainForm
  <2> QED
    BY <1>3, <2>1, <2>2
<1>5. \A S : (\A p \in S : p.id # pol.id) => Selected(r, S) = Selected(s, S)
  <2> HIDE DEF r
  <2> TAKE S
  <2> HAVE \A p \in S : p.id # pol.id
  <2>1. pol \notin S /\ s[k] \notin S
    OBVIOUS
  <2>2. \A i \in DOMAIN s : s[i] = r[i] \/ (s[i] \notin S /\ r[i] \notin S)
    BY <1>3, <2>1
  <2> HIDE DEF s
  <2> QED
    BY <1>3, <1>4, <2>2, SelectedSame
<1> HIDE DEF r
<1>6. \A i \in 1 .. Len(s) : r[i].id = s[i].id
  BY <1>3
<1>7. ASSUME NEW other, NEW n, FirstAt(c, other, n)
      PROVE  FirstAt(d, other, n) /\ (other # pol.id => d.policies[n] = s[n])
  <2>1. n \in 1 .. Len(s) /\ s[n].id = other /\ \A j \in 1 .. n - 1 : s[j].id # other
    BY <1>3, <1>7 DEF FirstAt
  <2>2. \A j \in 1 .. n - 1 : j \in 1 .. Len(s)
    BY <1>3, <2>1
  <2>3. other # pol.id => n # k
    BY <2>1
  <2> QED
    BY <1>2, <1>3, <1>6, <2>1, <2>2, <2>3 DEF FirstAt
<1>8. ASSUME NEW i \in DOMAIN r, r[i].id # pol.id PROVE \E j \in DOMAIN s : r[i] = s[j]
  BY <1>3, <1>8
<1>9. k \in 1 .. Len(s) /\ s[k].dstObj = r[k].dstObj
  BY <1>3
<1>10. Referenced(c) = {c.ids} \union UNION {{s[i].srcObj, s[i].dstObj} : i \in 1 .. Len(s)}
  BY <1>3 DEF Referenced
<1>11. Referenced(d) = {c.ids} \union UNION {{r[i].srcObj, r[i].dstObj} : i \in 1 .. Len(s)}
  BY <1>2, <1>3 DEF Referenced
<1>12. ASSUME NEW x \in Referenced(c), x # s[k].srcObj PROVE x \in Referenced(d)
  <2>1. CASE x = c.ids
    BY <1>11, <2>1
  <2>2. CASE \E i \in 1 .. Len(s) : x \in {s[i].srcObj, s[i].dstObj}
    <3>1. PICK i \in 1 .. Len(s) : x \in {s[i].srcObj, s[i].dstObj}
      BY <2>2
    <3>2. x \in {r[i].srcObj, r[i].dstObj}
      BY <1>3, <1>9, <1>12, <3>1
    <3> QED
      BY <1>11, <3>2
  <2> QED
    BY <1>10, <2>1, <2>2
<1>13. pol.srcObj \in Referenced(d)
  <2>1. pol.srcObj \in {r[k].srcObj, r[k].dstObj}
    BY <1>3
  <2> QED
    BY <1>9, <1>11, <2>1
<1>14. KeepsOthers(c, d, pol.id)
  <2>0. ASSUME NEW other, NEW n, other # pol.id, FirstAt(c, other, n)
        PROVE  \E i : FirstAt(d, other, i) /\ d.policies[i] = s[n]
    BY <1>7, <2>0
  <2> HIDE DEF s
  <2>1. s = c.policies
    BY DEF s
  <2> QED
    BY <1>1, <1>2, <1>5, <1>8, <2>0, <2>1 DEF KeepsOthers, KeepsPolicies
<1>15. Referenced(c) \subseteq Referenced(d) \union {s[k].srcObj}
  BY <1>12
<1>16. FirstAt(c, pol.id, k) => FirstAt(d, pol.id, k)
  BY <1>7
<1> QED
  BY <1>2, <1>3, <1>13, <1>14, <1>15, <1>16

LEMMA KeepsSame ==
  ASSUME NEW c, NEW d, NEW e, NEW f, NEW id,
         e.policies = c.policies, f.policies = d.policies, KeepsPolicies(c, d, id)
  PROVE  KeepsPolicies(e, f, id)
<1>1. \A other, k : (FirstAt(e, other, k) <=> FirstAt(c, other, k))
                    /\ (FirstAt(f, other, k) <=> FirstAt(d, other, k))
  BY DEF FirstAt
<1>2. \A S : (\A pol \in S : pol.id # id) => Selected(f.policies, S) = Selected(e.policies, S)
  BY Zenon DEF KeepsPolicies
<1>3. \A other, k : other # id /\ FirstAt(e, other, k) =>
          \E i : FirstAt(f, other, i) /\ f.policies[i] = e.policies[k]
  <2> TAKE other, k
  <2> HAVE other # id /\ FirstAt(e, other, k)
  <2>1. PICK i : FirstAt(d, other, i) /\ d.policies[i] = c.policies[k]
    BY <1>1 DEF KeepsPolicies
  <2> QED
    BY <1>1, <2>1
<1>4. \A i \in DOMAIN f.policies : f.policies[i].id # id =>
          \E j \in DOMAIN e.policies : f.policies[i] = e.policies[j]
  BY DEF KeepsPolicies
<1> QED
  BY <1>2, <1>3, <1>4, Zenon DEF KeepsPolicies

LEMMA KeepsItself ==
  ASSUME NEW c, NEW d, NEW id, d.policies = c.policies
  PROVE  KeepsPolicies(c, d, id)
<1>1. \A other, k : FirstAt(d, other, k) <=> FirstAt(c, other, k)
  BY DEF FirstAt
<1> QED
  BY <1>1, Zenon DEF KeepsPolicies

(* What has been loaded: the deny policies refer to their objects, and no  *)
(* duplicate is left.                                                      *)
Denies(c, x) ==
    \E k : /\ FirstAt(c, IpsBlockPolicyID, k)
           /\ c.policies[k].srcObj = x /\ c.policies[k].srcZone # {"ANY"}

DeniesVpn(c) == \E k : FirstAt(c, VpnBlockPolicyID, k) /\ c.policies[k].srcObj = VpnObjectID

NoDuplicates(c, x) == \A o \in Objects(c) : StaysObject(c, x, o)

LEMMA DeniesKept ==
  ASSUME NEW c, NEW d, NEW x, NEW id, KeepsPolicies(c, d, id)
  PROVE  /\ id # IpsBlockPolicyID /\ Denies(c, x) => Denies(d, x)
         /\ id # VpnBlockPolicyID /\ DeniesVpn(c) => DeniesVpn(d)
<1>1. \A other, k : other # id /\ FirstAt(c, other, k) =>
          \E i : FirstAt(d, other, i) /\ d.policies[i] = c.policies[k]
  BY DEF KeepsPolicies
<1>2. ASSUME id # IpsBlockPolicyID, Denies(c, x) PROVE Denies(d, x)
  <2>1. PICK k : /\ FirstAt(c, IpsBlockPolicyID, k)
                 /\ c.policies[k].srcObj = x /\ c.policies[k].srcZone # {"ANY"}
    BY <1>2 DEF Denies
  <2>2. PICK i : FirstAt(d, IpsBlockPolicyID, i) /\ d.policies[i] = c.policies[k]
    BY <1>1, <1>2, <2>1
  <2> QED
    BY <2>1, <2>2 DEF Denies
<1>3. ASSUME id # VpnBlockPolicyID, DeniesVpn(c) PROVE DeniesVpn(d)
  <2>1. PICK k : FirstAt(c, VpnBlockPolicyID, k) /\ c.policies[k].srcObj = VpnObjectID
    BY <1>3 DEF DeniesVpn
  <2>2. PICK i : FirstAt(d, VpnBlockPolicyID, i) /\ d.policies[i] = c.policies[k]
    BY <1>1, <1>3, <2>1
  <2> QED
    BY <2>1, <2>2 DEF DeniesVpn
<1> QED
  BY <1>2, <1>3

LEMMA FillsSame ==
  ASSUME NEW c, NEW d, NEW x, d.objects = c.objects, d.ids = c.ids, Fills(c, x)
  PROVE  Fills(d, x)
<1>1. ObjectIds(d) = ObjectIds(c)
  BY DEF ObjectIds
<1> QED
  BY <1>1, Zenon DEF Fills

LEMMA PutObject ==
  ASSUME NEW c, IsConfig(c), NEW o, IsObject(o), NEW d,
         d = [c EXCEPT !.objects = Append(c.objects, o)]
  PROVE  /\ IsConfig(d)
         /\ d.policies = c.policies /\ d.ids = c.ids /\ d.mode = c.mode
         /\ Objects(d) = Objects(c) \union {o}
         /\ \A x : Fills(c, x) /\ (c.ids = o.id => c.ids \in ObjectIds(c)) => Fills(d, x)
         /\ ~HasCanonicalObject(c) /\ o.name = IpsObjectName => Fills(d, o.id)
<1> DEFINE s == c.objects
           r == Append(s, o)
<1>1. IsConfig(d)
  BY PartsStay, ObjectsStay
<1>2. d.objects = r /\ d.policies = c.policies /\ d.ids = c.ids /\ d.mode = c.mode
  BY PartsOther
<1>3. /\ Len(s) \in Nat /\ DOMAIN s = 1 .. Len(s) /\ DOMAIN r = 1 .. Len(s) + 1
      /\ r[Len(s) + 1] = o /\ \A i \in 1 .. Len(s) : r[i] = s[i]
  BY ObjectForm, AtTheEnd
<1> HIDE DEF r
<1>4. Objects(d) = Objects(c) \union {o}
  <2>1. Objects(d) = {r[i] : i \in 1 .. Len(s) + 1} /\ Objects(c) = {s[i] : i \in 1 .. Len(s)}
    BY <1>2, <1>3 DEF Objects
  <2>2. \A i \in 1 .. Len(s) + 1 : i \in 1 .. Len(s) \/ i = Len(s) + 1
    BY <1>3
  <2>3. \A i \in 1 .. Len(s) : i \in 1 .. Len(s) + 1
    BY <1>3
  <2>4. Len(s) + 1 \in 1 .. Len(s) + 1
    BY <1>3
  <2> HIDE DEF s
  <2> QED
    BY <1>3, <2>1, <2>2, <2>3, <2>4
<1>5. \A id : id \in ObjectIds(d) <=> id \in ObjectIds(c) \/ id = o.id
  <2>1. /\ \A id : id \in ObjectIds(d) <=> \E y \in Objects(d) : y.id = id
        /\ \A id : id \in ObjectIds(c) <=> \E y \in Objects(c) : y.id = id
    BY <1>1, ObjectForm
  <2> HIDE DEF s
  <2> QED
    BY <1>4, <2>1
<1>6. ASSUME NEW x, Fills(c, x), c.ids = o.id => c.ids \in ObjectIds(c)
      PROVE  Fills(d, x)
  <2>1. CASE c.ids \in ObjectIds(c)
    <3>1. x = c.ids
      BY <1>6, <2>1 DEF Fills
    <3>2. d.ids \in ObjectIds(d) /\ x = d.ids
      BY <1>2, <1>5, <2>1, <3>1
    <3> QED
      BY <3>2 DEF Fills
  <2>2. CASE c.ids \notin ObjectIds(c)
    <3>1. d.ids \notin ObjectIds(d)
      BY <1>2, <1>5, <1>6, <2>2
    <3>2. PICK k \in DOMAIN s :
             /\ s[k].name = IpsObjectName /\ x = s[k].id
             /\ \A j \in 1 .. k - 1 : s[j].name # IpsObjectName
      BY <1>6, <2>2 DEF Fills
    <3>3. k \in 1 .. Len(s) /\ k \in 1 .. Len(s) + 1 /\ \A j \in 1 .. k - 1 : j \in 1 .. Len(s)
      BY <1>3, <3>2
    <3>4. /\ k \in DOMAIN d.objects
          /\ d.objects[k].name = IpsObjectName /\ x = d.objects[k].id
          /\ \A j \in 1 .. k - 1 : d.objects[j].name # IpsObjectName
      BY <1>2, <1>3, <3>2, <3>3
    <3> QED
      BY <3>1, <3>4 DEF Fills
  <2> QED
    BY <2>1, <2>2
<1>7. ASSUME ~HasCanonicalObject(c), o.name = IpsObjectName PROVE Fills(d, o.id)
  <2>1. c.ids \notin ObjectIds(c) /\ \A i \in 1 .. Len(s) : s[i].name # IpsObjectName
    BY <1>3, <1>7 DEF HasCanonicalObject
  <2>2. CASE c.ids = o.id
    BY <1>2, <1>5, <2>2 DEF Fills
  <2>3. CASE c.ids # o.id
    <3>1. d.ids \notin ObjectIds(d)
      BY <1>2, <1>5, <2>1, <2>3
    <3>2. (Len(s) + 1) - 1 = Len(s) /\ Len(s) + 1 \in DOMAIN d.objects
      BY <1>2, <1>3
    <3>3. /\ d.objects[Len(s) + 1].name = IpsObjectName /\ o.id = d.objects[Len(s) + 1].id
          /\ \A j \in 1 .. (Len(s) + 1) - 1 : d.objects[j].name # IpsObjectName
      BY <1>2, <1>3, <1>7, <2>1, <3>2
    <3> QED
      BY <3>1, <3>2, <3>3 DEF Fills
  <2> QED
    BY <2>2, <2>3
<1> QED
  BY <1>1, <1>2, <1>4, <1>6, <1>7

LEMMA BlockObjects ==
  \A id, name : IsObject(BlockObject(id, name)) /\ BlockObject(id, name).id = id
                /\ BlockObject(id, name).name = name /\ BlockObject(id, name).values = {}
  BY DEF IsObject, BlockObject

LEMMA IpsObjectLoads ==
  ASSUME NEW c, IsConfig(c), NEW d, d = WithIpsObject(c)
  PROVE  /\ IsConfig(d) /\ Fills(d, CanonicalObject(c))
         /\ d.policies = c.policies /\ d.ids = c.ids /\ d.mode = c.mode
         /\ Objects(c) \subseteq Objects(d)
         /\ Objects(d) \subseteq Objects(c) \union {BlockObject(IpsObjectID, IpsObjectName)}
<1>1. CASE HasCanonicalObject(c)
  BY <1>1, CanonicalFilled DEF WithIpsObject
<1>2. CASE ~HasCanonicalObject(c)
  <2> DEFINE o == BlockObject(IpsObjectID, IpsObjectName)
  <2>1. d = [c EXCEPT !.objects = Append(c.objects, o)]
    BY <1>2 DEF WithIpsObject
  <2>2. IsObject(o) /\ o.id = IpsObjectID /\ o.name = IpsObjectName
    BY BlockObjects
  <2>3. CanonicalObject(c) = IpsObjectID
    BY <1>2, CanonicalFilled
  <2> HIDE DEF o
  <2>4. /\ IsConfig(d) /\ d.policies = c.policies /\ d.ids = c.ids /\ d.mode = c.mode
        /\ Objects(d) = Objects(c) \union {o} /\ Fills(d, o.id)
    BY <1>2, <2>1, <2>2, PutObject
  <2> QED
    BY <2>2, <2>3, <2>4 DEF o
<1> QED
  BY <1>1, <1>2

LEMMA IpsPolicyRewired ==
  ASSUME NEW c, IsConfig(c), NEW k \in DOMAIN c.policies, IsPolicy(c.policies[k]), NEW x
  PROVE  [c EXCEPT !.policies[k].srcObj = x,
                   !.policies[k].srcZone = IF @ = {"ANY"} THEN {} ELSE @]
           = [c EXCEPT !.policies = [c.policies EXCEPT ![k] =
                [c.policies[k] EXCEPT
                   !.srcObj = x,
                   !.srcZone = IF c.policies[k].srcZone = {"ANY"} THEN {} ELSE c.policies[k].srcZone]]]
  BY DEF IsPolicy, IsConfig

LEMMA IpsPolicyLoads ==
  ASSUME NEW c, IsConfig(c), NEW x, NEW d, d = WithIpsPolicy(c, x)
  PROVE  KeepsOthers(c, d, IpsBlockPolicyID) /\ Denies(d, x)
<1> DEFINE deny == Positions(c, IpsBlockPolicyID)
           k == Min(deny)
           old == c.policies[k]
           pol == ipsAutoBlockDenyPolicy(x)
           new == [old EXCEPT !.srcObj = x,
                              !.srcZone = IF old.srcZone = {"ANY"} THEN {} ELSE old.srcZone]
<1>1. CASE deny = {}
  <2>1. d = [c EXCEPT !.policies = <<pol>> \o c.policies]
    BY <1>1 DEF WithIpsPolicy
  <2>2. IsPolicy(pol) /\ pol.id = IpsBlockPolicyID /\ pol.srcObj = x /\ pol.srcZone = {}
    BY AddedPolicies DEF ipsAutoBlockDenyPolicy, AnyPolicy
  <2> HIDE DEF pol
  <2>3. KeepsOthers(c, d, pol.id) /\ FirstAt(d, pol.id, 1) /\ d.policies[1] = pol
    BY <2>1, <2>2, PutInFront
  <2>4. Denies(d, x)
    BY <2>2, <2>3 DEF Denies
  <2> QED
    BY <2>2, <2>3, <2>4
<1>2. CASE deny # {}
  <2>1. FirstAt(c, IpsBlockPolicyID, k)
    BY <1>2, FirstPolicy
  <2>2. k \in DOMAIN c.policies /\ old.id = IpsBlockPolicyID /\ IsPolicy(old)
    BY <2>1, PolicyForm DEF FirstAt
  <2>3. d = [c EXCEPT !.policies = [c.policies EXCEPT ![k] = new]]
    <3>1. d = [c EXCEPT !.policies[k].srcObj = x,
                        !.policies[k].srcZone = IF @ = {"ANY"} THEN {} ELSE @]
      BY <1>2 DEF WithIpsPolicy
    <3> HIDE DEF k
    <3> QED
      BY <2>2, <3>1, IpsPolicyRewired
  <2> HIDE DEF old, k
  <2>4. /\ IsPolicy(new) /\ new.id = old.id /\ new.dstObj = old.dstObj
        /\ new.srcObj = x /\ new.srcZone # {"ANY"}
    BY <2>2 DEF IsPolicy
  <2> HIDE DEF new
  <2>5. /\ KeepsOthers(c, d, new.id) /\ d.policies[k] = new
        /\ FirstAt(c, new.id, k) => FirstAt(d, new.id, k)
    BY <2>2, <2>3, <2>4, Rewire DEF old
  <2>6. Denies(d, x)
    BY <2>1, <2>2, <2>4, <2>5 DEF Denies
  <2> QED
    BY <2>2, <2>4, <2>5, <2>6
<1> QED
  BY <1>1, <1>2

LEMMA DuplicatesGo ==
  ASSUME NEW c, IsConfig(c), NEW x, Fills(c, x), NEW d, d = WithoutDuplicates(c, x)
  PROVE  /\ IsConfig(d) /\ Fills(d, x) /\ NoDuplicates(d, x)
         /\ d.policies = c.policies /\ d.ids = c.ids /\ d.mode = c.mode
         /\ Objects(d) = {o \in Objects(c) : StaysObject(c, x, o)}
<1> DEFINE S == {o \in Objects(c) : StaysObject(c, x, o)}
           s == c.objects
           r == Selected(s, S)
<1>1. d = [c EXCEPT !.objects = r]
  BY DEF WithoutDuplicates
<1>2. IsConfig(d)
  <2>1. IsObjects(r)
    BY PartsStay, ObjectsStay
  <2> HIDE DEF r
  <2>2. IsConfig([c EXCEPT !.objects = r])
    BY <2>1, PartsStay
  <2> QED
    BY <1>1, <2>2
<1>3. d.objects = r /\ d.policies = c.policies /\ d.ids = c.ids /\ d.mode = c.mode
  BY <1>1, PartsOther
<1>4. IsChain(s) /\ Len(s) \in Nat /\ DOMAIN s = 1 .. Len(s) /\ Objects(c) = {s[i] : i \in DOMAIN s}
  BY ObjectForm DEF Objects
<1> HIDE DEF S
<1>5. Objects(d) = Objects(c) \cap S
  <2>1. {r[j] : j \in DOMAIN r} = {s[i] : i \in DOMAIN s} \cap S
    <3> HIDE DEF s
    <3> QED
      BY <1>4, SelectedElements
  <2> HIDE DEF r
  <2> QED
    BY <1>3, <1>4, <2>1 DEF Objects
<1>6. Referenced(d) = Referenced(c)
  BY <1>3 DEF Referenced
<1>7. Objects(d) = {o \in Objects(c) : StaysObject(c, x, o)}
  BY <1>5 DEF S
<1>8. NoDuplicates(d, x)
  BY <1>6, <1>7 DEF NoDuplicates, StaysObject
<1>9. Fills(d, x)
  <2>1. CASE c.ids \in ObjectIds(c)
    <3>1. x = c.ids
      BY <2>1 DEF Fills
    <3>2. PICK o \in Objects(c) : o.id = x
      BY <2>1, <3>1, ObjectForm
    <3>3. o \in Objects(d)
      BY <1>7, <3>2 DEF StaysObject
    <3>4. d.ids \in ObjectIds(d) /\ x = d.ids
      BY <1>2, <1>3, <3>1, <3>2, <3>3, ObjectForm
    <3> QED
      BY <3>4 DEF Fills
  <2>2. CASE c.ids \notin ObjectIds(c)
    <3>1. PICK k \in DOMAIN s :
             /\ s[k].name = IpsObjectName /\ x = s[k].id
             /\ \A j \in 1 .. k - 1 : s[j].name # IpsObjectName
      BY <2>2 DEF Fills
    <3>2. d.ids \notin ObjectIds(d)
      BY <1>2, <1>3, <1>7, <2>2, ObjectForm
    <3> DEFINE P == {o \in Objects(c) : o.name = IpsObjectName}
    <3>3. s[k] \in S
      BY <1>4, <3>1 DEF S, StaysObject
    <3>4. \A j \in 1 .. k - 1 : s[j] \notin P
      BY <3>1
    <3>5. \A i \in DOMAIN r : r[i] \in Objects(c)
      BY <1>3, <1>5 DEF Objects
    <3>6. PICK i \in DOMAIN r : r[i] = s[k] /\ \A j \in 1 .. i - 1 : r[j] \notin P
      <4> HIDE DEF s, P
      <4>1. IsChain(s) /\ k \in DOMAIN s
        BY <1>4, <3>1
      <4>2. \E i \in DOMAIN Selected(s, S) :
               /\ Selected(s, S)[i] = s[k]
               /\ \A j \in 1 .. i - 1 : Selected(s, S)[j] \notin P
        BY <3>3, <3>4, <4>1, SelectedFirst
      <4> QED
        BY <4>2
    <3>7. DOMAIN r = 1 .. Len(r) /\ Len(r) \in Nat
      BY <1>2, <1>3, ObjectForm
    <3> HIDE DEF r
    <3>8. \A j \in 1 .. i - 1 : j \in DOMAIN r
      BY <3>6, <3>7
    <3>9. \A j \in 1 .. i - 1 : r[j].name # IpsObjectName
      BY <3>5, <3>6, <3>8
    <3> QED
      BY <1>3, <3>1, <3>2, <3>6, <3>9 DEF Fills
  <2> QED
    BY <2>1, <2>2
<1> QED
  BY <1>2, <1>3, <1>7, <1>8, <1>9

LEMMA AutoBlockLoads ==
  ASSUME NEW c, IsConfig(c), NEW d, d = ensureDefaultAutoBlock(c)
  PROVE  /\ IsConfig(d) /\ Fills(d, CanonicalObject(c))
         /\ Denies(d, CanonicalObject(c)) /\ NoDuplicates(d, CanonicalObject(c))
         /\ d.ids = c.ids /\ d.mode = c.mode /\ KeepsPolicies(c, d, IpsBlockPolicyID)
         /\ \A o \in Objects(c) :
               o.name # IpsObjectName \/ o.values # {} \/ o.id = c.ids => o \in Objects(d)
         /\ Objects(d) \subseteq Objects(c) \union {BlockObject(IpsObjectID, IpsObjectName)}
<1> DEFINE x == CanonicalObject(c)
           p == WithIpsObject(c)
           q == WithIpsPolicy(p, x)
<1>1. d = WithoutDuplicates(q, x)
  BY DEF ensureDefaultAutoBlock
<1>2. /\ IsConfig(p) /\ Fills(p, x)
      /\ p.policies = c.policies /\ p.ids = c.ids /\ p.mode = c.mode
      /\ Objects(c) \subseteq Objects(p)
      /\ Objects(p) \subseteq Objects(c) \union {BlockObject(IpsObjectID, IpsObjectName)}
  BY IpsObjectLoads
<1> HIDE DEF p, x
<1>3. KeepsOthers(p, q, IpsBlockPolicyID) /\ Denies(q, x)
  BY <1>2, IpsPolicyLoads
<1> HIDE DEF q
<1>4. /\ IsConfig(q) /\ q.objects = p.objects /\ q.ids = p.ids /\ q.mode = p.mode
      /\ KeepsPolicies(p, q, IpsBlockPolicyID)
  BY <1>3 DEF KeepsOthers
<1>5. Fills(q, x) /\ Objects(q) = Objects(p)
  BY <1>2, <1>4, FillsSame DEF Objects
<1>6. /\ IsConfig(d) /\ Fills(d, x) /\ NoDuplicates(d, x)
      /\ d.policies = q.policies /\ d.ids = q.ids /\ d.mode = q.mode
      /\ Objects(d) = {o \in Objects(q) : StaysObject(q, x, o)}
  BY <1>1, <1>4, <1>5, DuplicatesGo
<1>7. Denies(d, x) /\ KeepsPolicies(c, d, IpsBlockPolicyID)
  <2>1. KeepsPolicies(c, d, IpsBlockPolicyID)
    BY <1>2, <1>4, <1>6, KeepsSame
  <2>2. \A k : FirstAt(q, IpsBlockPolicyID, k) => FirstAt(d, IpsBlockPolicyID, k)
    BY <1>6 DEF FirstAt
  <2>3. Denies(d, x)
    BY <1>3, <1>6, <2>2 DEF Denies
  <2> QED
    BY <2>1, <2>3
<1>8. ASSUME NEW o \in Objects(c), o.name # IpsObjectName \/ o.values # {} \/ o.id = c.ids
      PROVE  o \in Objects(d)
  <2>1. o \in Objects(q)
    BY <1>2, <1>5
  <2>2. o.id = c.ids => o.id \in Referenced(q)
    BY <1>2, <1>4 DEF Referenced
  <2>3. StaysObject(q, x, o)
    BY <1>8, <2>2 DEF StaysObject
  <2> QED
    BY <1>6, <2>1, <2>3
<1>9. Objects(d) \subseteq Objects(c) \union {BlockObject(IpsObjectID, IpsObjectName)}
  BY <1>2, <1>5, <1>6
<1>10. d.ids = c.ids /\ d.mode = c.mode
  BY <1>2, <1>4, <1>6
<1> QED
  BY <1>6, <1>7, <1>8, <1>9, <1>10 DEF x

(* The objects of the two blocks are not mixed up.                         *)
Apart(c) ==
    /\ c.ids = VpnObjectID => HasVpnObject(c)
    /\ \A o \in Objects(c) : o.name = IpsObjectName => o.id \in IdsObjects
    /\ \A i \in DOMAIN c.policies :
          c.policies[i].id = VpnBlockPolicyID => c.policies[i].srcObj \notin IdsObjects \ {VpnObjectID}

LEMMA AutoBlockApart ==
  ASSUME NEW c, IsConfig(c), Apart(c), NEW d, d = ensureDefaultAutoBlock(c)
  PROVE  Apart(d)
<1>1. /\ d.ids = c.ids /\ KeepsPolicies(c, d, IpsBlockPolicyID)
      /\ \A o \in Objects(c) :
            o.name # IpsObjectName \/ o.values # {} \/ o.id = c.ids => o \in Objects(d)
      /\ Objects(d) \subseteq Objects(c) \union {BlockObject(IpsObjectID, IpsObjectName)}
  BY AutoBlockLoads
<1>2. ASSUME d.ids = VpnObjectID PROVE HasVpnObject(d)
  <2>1. PICK o \in Objects(c) : o.id = VpnObjectID \/ o.name = VpnObjectName
    BY <1>1, <1>2 DEF Apart, HasVpnObject
  <2>2. o.id = c.ids \/ o.name # IpsObjectName
    BY <1>1, <1>2, <2>1 DEF VpnObjectName, IpsObjectName
  <2> QED
    BY <1>1, <2>1, <2>2 DEF HasVpnObject
<1>3. ASSUME NEW o \in Objects(d), o.name = IpsObjectName PROVE o.id \in IdsObjects
  <2>1. CASE o \in Objects(c)
    BY <1>3, <2>1 DEF Apart
  <2>2. CASE o = BlockObject(IpsObjectID, IpsObjectName)
    <3>1. o.id = IpsObjectID
      BY <2>2, BlockObjects
    <3> QED
      BY <3>1 DEF IdsObjects
  <2> QED
    BY <1>1, <2>1, <2>2
<1>4. ASSUME NEW i \in DOMAIN d.policies, d.policies[i].id = VpnBlockPolicyID
      PROVE  d.policies[i].srcObj \notin IdsObjects \ {VpnObjectID}
  <2>1. d.policies[i].id # IpsBlockPolicyID
    BY <1>4 DEF VpnBlockPolicyID, IpsBlockPolicyID
  <2>2. PICK j \in DOMAIN c.policies : d.policies[i] = c.policies[j]
    BY <1>1, <2>1 DEF KeepsPolicies
  <2> QED
    BY <1>4, <2>2 DEF Apart
<1> QED
  BY <1>2, <1>3, <1>4 DEF Apart

LEMMA VpnObjectLoads ==
  ASSUME NEW c, IsConfig(c), NEW d, d = WithVpnObject(c)
  PROVE  /\ IsConfig(d) /\ HasVpnObject(d)
         /\ d.policies = c.policies /\ d.ids = c.ids /\ d.mode = c.mode
         /\ Objects(c) \subseteq Objects(d)
         /\ Objects(d) \subseteq Objects(c) \union {BlockObject(VpnObjectID, VpnObjectName)}
         /\ \A x : Fills(c, x) /\ (c.ids = VpnObjectID => HasVpnObject(c)) => Fills(d, x)
<1>1. CASE HasVpnObject(c)
  BY <1>1 DEF WithVpnObject
<1>2. CASE ~HasVpnObject(c)
  <2> DEFINE o == BlockObject(VpnObjectID, VpnObjectName)
  <2>1. d = [c EXCEPT !.objects = Append(c.objects, o)]
    BY <1>2 DEF WithVpnObject
  <2>2. IsObject(o) /\ o.id = VpnObjectID
    BY BlockObjects
  <2> HIDE DEF o
  <2>3. /\ IsConfig(d) /\ d.policies = c.policies /\ d.ids = c.ids /\ d.mode = c.mode
        /\ Objects(d) = Objects(c) \union {o}
        /\ \A x : Fills(c, x) /\ (c.ids = o.id => c.ids \in ObjectIds(c)) => Fills(d, x)
    BY <2>1, <2>2, PutObject
  <2>4. HasVpnObject(d)
    BY <2>2, <2>3 DEF HasVpnObject
  <2>5. \A x : Fills(c, x) /\ (c.ids = VpnObjectID => HasVpnObject(c)) => Fills(d, x)
    BY <1>2, <2>2, <2>3
  <2> QED
    BY <2>3, <2>4, <2>5 DEF o
<1> QED
  BY <1>1, <1>2

LEMMA VpnPolicyLoads ==
  ASSUME NEW c, IsConfig(c), NEW d, d = WithVpnPolicy(c)
  PROVE  /\ KeepsOthers(c, d, VpnBlockPolicyID) /\ DeniesVpn(d)
         /\ \A i \in DOMAIN d.policies : d.policies[i].id = VpnBlockPolicyID =>
               \/ d.policies[i].srcObj = VpnObjectID
               \/ \E j \in DOMAIN c.policies : d.policies[i] = c.policies[j]
         /\ \/ Referenced(c) \subseteq Referenced(d)
            \/ /\ VpnObjectID \in Referenced(d)
               /\ \E k \in DOMAIN c.policies :
                     /\ c.policies[k].id = VpnBlockPolicyID
                     /\ Referenced(c) \subseteq Referenced(d) \union {c.policies[k].srcObj}
<1> DEFINE deny == Positions(c, VpnBlockPolicyID)
           k == Min(deny)
           old == c.policies[k]
           pol == vpnAutoBlockDenyPolicy
           new == [old EXCEPT !.srcObj = VpnObjectID]
<1>1. CASE deny = {}
  <2>1. d = [c EXCEPT !.policies = <<pol>> \o c.policies]
    BY <1>1 DEF WithVpnPolicy
  <2>2. IsPolicy(pol)
    BY AddedPolicies
  <2>3. pol.id = VpnBlockPolicyID /\ pol.srcObj = VpnObjectID
    BY DEF vpnAutoBlockDenyPolicy, AnyPolicy
  <2> HIDE DEF pol
  <2>4. /\ KeepsOthers(c, d, pol.id) /\ FirstAt(d, pol.id, 1) /\ d.policies[1] = pol
        /\ Referenced(c) \subseteq Referenced(d)
    BY <2>1, <2>2, PutInFront
  <2>5. DeniesVpn(d)
    BY <2>3, <2>4 DEF DeniesVpn
  <2>6. ASSUME NEW i \in DOMAIN d.policies, d.policies[i].id = VpnBlockPolicyID
        PROVE  d.policies[i].srcObj = VpnObjectID
    <3>1. /\ Len(c.policies) \in Nat /\ DOMAIN c.policies = 1 .. Len(c.policies)
          /\ IsChain(c.policies) /\ d.policies = <<pol>> \o c.policies
      BY <2>1, PolicyForm, PartsOther
    <3>2. /\ DOMAIN d.policies = 1 .. Len(c.policies) + 1 /\ d.policies[1] = pol
          /\ \A j \in 1 .. Len(c.policies) : d.policies[j + 1] = c.policies[j]
      BY <3>1, InFront
    <3>3. i = 1
      <4>1. ASSUME i # 1 PROVE FALSE
        <5>1. i - 1 \in 1 .. Len(c.policies) /\ (i - 1) + 1 = i
          BY <3>1, <3>2, <4>1
        <5>2. d.policies[i] = c.policies[i - 1]
          BY <3>2, <5>1
        <5> QED
          BY <1>1, <2>6, <3>1, <5>1, <5>2 DEF Positions
      <4> QED
        BY <4>1
    <3> QED
      BY <2>3, <3>2, <3>3
  <2> QED
    BY <2>3, <2>4, <2>5, <2>6
<1>2. CASE deny # {}
  <2>1. FirstAt(c, VpnBlockPolicyID, k)
    BY <1>2, FirstPolicy
  <2>2. k \in DOMAIN c.policies /\ old.id = VpnBlockPolicyID /\ IsPolicy(old)
    BY <2>1, PolicyForm DEF FirstAt
  <2>3. d = [c EXCEPT !.policies = [c.policies EXCEPT ![k] = new]]
    <3>1. d = [c EXCEPT !.policies[k].srcObj = VpnObjectID]
      BY <1>2 DEF WithVpnPolicy
    <3> HIDE DEF k
    <3> QED
      BY <2>2, <3>1 DEF IsPolicy, IsConfig
  <2> HIDE DEF old, k
  <2>4. IsPolicy(new) /\ new.id = old.id /\ new.dstObj = old.dstObj /\ new.srcObj = VpnObjectID
    BY <2>2 DEF IsPolicy
  <2> HIDE DEF new
  <2>5. /\ KeepsOthers(c, d, new.id) /\ d.policies[k] = new
        /\ FirstAt(c, new.id, k) => FirstAt(d, new.id, k)
        /\ Referenced(c) \subseteq Referenced(d) \union {old.srcObj}
        /\ new.srcObj \in Referenced(d)
        /\ DOMAIN d.policies = DOMAIN c.policies
        /\ \A i \in DOMAIN c.policies : i # k => d.policies[i] = c.policies[i]
    BY <2>2, <2>3, <2>4, Rewire DEF old
  <2>6. DeniesVpn(d)
    BY <2>1, <2>2, <2>4, <2>5 DEF DeniesVpn
  <2>7. \A i \in DOMAIN d.policies :
           \/ d.policies[i].srcObj = VpnObjectID
           \/ \E j \in DOMAIN c.policies : d.policies[i] = c.policies[j]
    BY <2>4, <2>5
  <2> QED
    BY <2>2, <2>4, <2>5, <2>6, <2>7 DEF old
<1> QED
  BY <1>1, <1>2

LEMMA VpnBlockLoads ==
  ASSUME NEW c, IsConfig(c), NEW x, Fills(c, x), Denies(c, x), NoDuplicates(c, x), Apart(c),
         NEW d, d = ensureDefaultVPNAutoBlock(c)
  PROVE  /\ IsConfig(d) /\ Fills(d, x) /\ Denies(d, x) /\ NoDuplicates(d, x) /\ Apart(d)
         /\ HasVpnObject(d) /\ DeniesVpn(d) /\ d.ids = c.ids
         /\ KeepsPolicies(c, d, VpnBlockPolicyID) /\ Objects(c) \subseteq Objects(d)
<1> DEFINE p == WithVpnObject(c)
<1>1. d = WithVpnPolicy(p)
  BY DEF ensureDefaultVPNAutoBlock
<1>2. /\ IsConfig(p) /\ HasVpnObject(p)
      /\ p.policies = c.policies /\ p.ids = c.ids /\ p.mode = c.mode
      /\ Objects(c) \subseteq Objects(p)
      /\ Objects(p) \subseteq Objects(c) \union {BlockObject(VpnObjectID, VpnObjectName)}
      /\ \A y : Fills(c, y) /\ (c.ids = VpnObjectID => HasVpnObject(c)) => Fills(p, y)
  BY VpnObjectLoads
<1> HIDE DEF p
<1>3. Fills(p, x)
  BY <1>2 DEF Apart
<1>4. /\ KeepsOthers(p, d, VpnBlockPolicyID) /\ DeniesVpn(d)
      /\ \A i \in DOMAIN d.policies : d.policies[i].id = VpnBlockPolicyID =>
            \/ d.policies[i].srcObj = VpnObjectID
            \/ \E j \in DOMAIN p.policies : d.policies[i] = p.policies[j]
      /\ \/ Referenced(p) \subseteq Referenced(d)
         \/ /\ VpnObjectID \in Referenced(d)
            /\ \E k \in DOMAIN p.policies :
                  /\ p.policies[k].id = VpnBlockPolicyID
                  /\ Referenced(p) \subseteq Referenced(d) \union {p.policies[k].srcObj}
  BY <1>1, <1>2, VpnPolicyLoads
<1>5. /\ IsConfig(d) /\ d.objects = p.objects /\ d.ids = c.ids
      /\ KeepsPolicies(p, d, VpnBlockPolicyID)
  BY <1>2, <1>4 DEF KeepsOthers
<1>6. Fills(d, x) /\ Objects(d) = Objects(p) /\ HasVpnObject(d)
  BY <1>2, <1>3, <1>5, FillsSame DEF Objects, HasVpnObject
<1>7. KeepsPolicies(c, d, VpnBlockPolicyID)
  BY <1>2, <1>5, KeepsSame
<1>8. Denies(d, x)
  BY <1>7, DeniesKept DEF VpnBlockPolicyID, IpsBlockPolicyID
<1>9. ASSUME NEW o \in Objects(d) PROVE StaysObject(d, x, o)
  <2>1. CASE o.name # IpsObjectName \/ o.id = x \/ o.values # {}
    BY <2>1 DEF StaysObject
  <2>2. CASE ~(o.name # IpsObjectName \/ o.id = x \/ o.values # {})
    <3>1. o \in Objects(c)
      <4>1. o # BlockObject(VpnObjectID, VpnObjectName)
        <5>1. BlockObject(VpnObjectID, VpnObjectName).name = VpnObjectName
          BY BlockObjects
        <5>2. VpnObjectName # IpsObjectName
          BY DEF VpnObjectName, IpsObjectName
        <5> QED
          BY <2>2, <5>1, <5>2
      <4> QED
        BY <1>2, <1>6, <4>1
    <3>2. o.id \in Referenced(c) /\ o.id \in IdsObjects
      BY <2>2, <3>1 DEF NoDuplicates, StaysObject, Apart
    <3>3. o.id \in Referenced(p)
      BY <1>2, <3>2 DEF Referenced
    <3>4. o.id \in Referenced(d)
      <4>1. CASE Referenced(p) \subseteq Referenced(d)
        BY <3>3, <4>1
      <4>2. CASE /\ VpnObjectID \in Referenced(d)
                 /\ \E k \in DOMAIN p.policies :
                       /\ p.policies[k].id = VpnBlockPolicyID
                       /\ Referenced(p) \subseteq Referenced(d) \union {p.policies[k].srcObj}
        <5>1. PICK k \in DOMAIN p.policies :
                 /\ p.policies[k].id = VpnBlockPolicyID
                 /\ Referenced(p) \subseteq Referenced(d) \union {p.policies[k].srcObj}
          BY <4>2
        <5>2. p.policies[k].srcObj \notin IdsObjects \ {VpnObjectID}
          BY <1>2, <5>1 DEF Apart
        <5> QED
          BY <3>2, <3>3, <4>2, <5>1, <5>2
      <4> QED
        BY <1>4, <4>1, <4>2
    <3> QED
      BY <3>4 DEF StaysObject
  <2> QED
    BY <2>1, <2>2
<1>10. Apart(d)
  <2>1. ASSUME NEW o \in Objects(d), o.name = IpsObjectName PROVE o.id \in IdsObjects
    <3>1. o # BlockObject(VpnObjectID, VpnObjectName)
      <4>1. BlockObject(VpnObjectID, VpnObjectName).name = VpnObjectName
        BY BlockObjects
      <4>2. VpnObjectName # IpsObjectName
        BY DEF VpnObjectName, IpsObjectName
      <4> QED
        BY <2>1, <4>1, <4>2
    <3>2. o \in Objects(c)
      BY <1>2, <1>6, <3>1
    <3> QED
      BY <2>1, <3>2 DEF Apart
  <2>2. ASSUME NEW i \in DOMAIN d.policies, d.policies[i].id = VpnBlockPolicyID
        PROVE  d.policies[i].srcObj \notin IdsObjects \ {VpnObjectID}
    <3>1. CASE d.policies[i].srcObj = VpnObjectID
      BY <3>1
    <3>2. CASE \E j \in DOMAIN p.policies : d.policies[i] = p.policies[j]
      BY <1>2, <2>2, <3>2 DEF Apart
    <3> QED
      BY <1>4, <2>2, <3>1, <3>2
  <2> QED
    BY <1>6, <2>1, <2>2 DEF Apart
<1> QED
  BY <1>2, <1>4, <1>5, <1>6, <1>7, <1>8, <1>9, <1>10 DEF NoDuplicates

LEMMA GuiPolicyLoads ==
  ASSUME NEW c, IsConfig(c), NEW d, d = ensureDefaultMgmtAPIPolicy(c)
  PROVE  /\ IsConfig(d) /\ d.objects = c.objects /\ d.ids = c.ids
         /\ KeepsPolicies(c, d, MgmtAPIPolicyID)
         /\ Positions(d, MgmtAPIPolicyID) # {}
         /\ Referenced(c) \subseteq Referenced(d)
<1> DEFINE pol == mgmtAPIPolicy(IF c.mode = "host" THEN "HOST" ELSE "LAN")
<1>1. CASE Positions(c, MgmtAPIPolicyID) # {}
  BY <1>1, KeepsItself DEF ensureDefaultMgmtAPIPolicy
<1>2. CASE Positions(c, MgmtAPIPolicyID) = {}
  <2>1. d = [c EXCEPT !.policies = Append(c.policies, pol)]
    BY <1>2 DEF ensureDefaultMgmtAPIPolicy
  <2>2. IsPolicy(pol)
    BY AddedPolicies
  <2>3. pol.id = MgmtAPIPolicyID
    BY DEF mgmtAPIPolicy, LocalPolicy, AnyPolicy
  <2> HIDE DEF pol
  <2>4. /\ KeepsOthers(c, d, pol.id) /\ FirstAt(d, pol.id, Len(c.policies) + 1)
        /\ Referenced(c) \subseteq Referenced(d)
    BY <1>2, <2>1, <2>2, <2>3, PutLast
  <2>5. IsConfig(d)
    BY <2>4 DEF KeepsOthers
  <2>6. Positions(d, MgmtAPIPolicyID) # {}
    BY <2>3, <2>4, <2>5, FirstPolicy
  <2> QED
    BY <2>3, <2>4, <2>6 DEF KeepsOthers
<1> QED
  BY <1>1, <1>2

(* What a load leaves, which a second load does not change.                *)
Loaded(c, x) ==
    /\ Fills(c, x) /\ Denies(c, x) /\ NoDuplicates(c, x)
    /\ HasVpnObject(c) /\ DeniesVpn(c) /\ Positions(c, MgmtAPIPolicyID) # {}

LEMMA GuiPolicyLoadsLast ==
  ASSUME NEW c, IsConfig(c), NEW x, Fills(c, x), Denies(c, x), NoDuplicates(c, x), Apart(c),
         HasVpnObject(c), DeniesVpn(c), NEW d, d = ensureDefaultMgmtAPIPolicy(c)
  PROVE  Loaded(d, x) /\ Apart(d)
<1>1. /\ IsConfig(d) /\ d.objects = c.objects /\ d.ids = c.ids
      /\ KeepsPolicies(c, d, MgmtAPIPolicyID)
      /\ Positions(d, MgmtAPIPolicyID) # {} /\ Referenced(c) \subseteq Referenced(d)
  BY GuiPolicyLoads
<1>2. Objects(d) = Objects(c) /\ Fills(d, x)
  BY <1>1, FillsSame DEF Objects
<1>3. Denies(d, x) /\ DeniesVpn(d)
  BY <1>1, DeniesKept DEF MgmtAPIPolicyID, IpsBlockPolicyID, VpnBlockPolicyID
<1>4. NoDuplicates(d, x)
  BY <1>1, <1>2 DEF NoDuplicates, StaysObject
<1>5. HasVpnObject(d)
  BY <1>2 DEF HasVpnObject
<1>6. ASSUME NEW i \in DOMAIN d.policies, d.policies[i].id = VpnBlockPolicyID
      PROVE  d.policies[i].srcObj \notin IdsObjects \ {VpnObjectID}
  <2>1. d.policies[i].id # MgmtAPIPolicyID
    BY <1>6 DEF VpnBlockPolicyID, MgmtAPIPolicyID
  <2>2. PICK j \in DOMAIN c.policies : d.policies[i] = c.policies[j]
    BY <1>1, <2>1 DEF KeepsPolicies
  <2> QED
    BY <1>6, <2>2 DEF Apart
<1>7. Apart(d)
  BY <1>1, <1>2, <1>5, <1>6 DEF Apart
<1> QED
  BY <1>1, <1>2, <1>3, <1>4, <1>5, <1>7 DEF Loaded

LEMMA LoadedAgain ==
  ASSUME NEW c, IsConfig(c), NEW x, Loaded(c, x)
  PROVE  Migrated(c) = c
<1>1. CanonicalObject(c) = x /\ HasCanonicalObject(c)
  BY CanonicalIs DEF Loaded
<1>2. WithIpsObject(c) = c
  BY <1>1 DEF WithIpsObject
<1>3. WithIpsPolicy(c, x) = c
  <2>1. PICK k : /\ FirstAt(c, IpsBlockPolicyID, k)
                 /\ c.policies[k].srcObj = x /\ c.policies[k].srcZone # {"ANY"}
    BY DEF Loaded, Denies
  <2>2. Positions(c, IpsBlockPolicyID) # {} /\ Min(Positions(c, IpsBlockPolicyID)) = k
    BY <2>1, FirstPolicy
  <2>3. WithIpsPolicy(c, x)
          = [c EXCEPT !.policies[k].srcObj = x,
                      !.policies[k].srcZone = IF @ = {"ANY"} THEN {} ELSE @]
    BY <2>2 DEF WithIpsPolicy
  <2> DEFINE pol == c.policies[k]
             new == [pol EXCEPT !.srcObj = x,
                                !.srcZone = IF pol.srcZone = {"ANY"} THEN {} ELSE pol.srcZone]
  <2>4. k \in DOMAIN c.policies /\ IsPolicy(pol) /\ IsChain(c.policies)
    BY <2>1, PolicyForm DEF FirstAt
  <2>5. WithIpsPolicy(c, x) = [c EXCEPT !.policies = [c.policies EXCEPT ![k] = new]]
    <3>1. [c EXCEPT !.policies[k].srcObj = x,
                    !.policies[k].srcZone = IF @ = {"ANY"} THEN {} ELSE @]
            = [c EXCEPT !.policies = [c.policies EXCEPT ![k] = new]]
      BY <2>4 DEF IsPolicy, IsConfig
    <3> QED
      BY <2>3, <3>1, Zenon
  <2>6. pol.srcObj = x /\ pol.srcZone # {"ANY"}
    BY <2>1
  <2> HIDE DEF pol
  <2>7. new = pol
    BY <2>4, <2>6 DEF IsPolicy
  <2>8. [c.policies EXCEPT ![k] = pol] = c.policies
    BY <2>4 DEF pol, IsChain
  <2> HIDE DEF new
  <2> QED
    BY <2>5, <2>7, <2>8, PartsOther
<1>4. WithoutDuplicates(c, x) = c
  <2> DEFINE S == {o \in Objects(c) : StaysObject(c, x, o)}
             s == c.objects
  <2>1. IsChain(s) /\ \A i \in DOMAIN s : s[i] \in S
    BY ObjectForm DEF Loaded, NoDuplicates
  <2>2. WithoutDuplicates(c, x) = [c EXCEPT !.objects = Selected(s, S)]
    BY DEF WithoutDuplicates
  <2>3. [c EXCEPT !.objects = s] = c
    BY PartsOther
  <2> HIDE DEF S, s
  <2>4. Selected(s, S) = s
    BY <2>1, SelectedAll
  <2> QED
    BY <2>2, <2>3, <2>4
<1>5. ensureDefaultAutoBlock(c) = c
  BY <1>1, <1>2, <1>3, <1>4 DEF ensureDefaultAutoBlock
<1>6. WithVpnPolicy(c) = c
  <2>1. PICK k : FirstAt(c, VpnBlockPolicyID, k) /\ c.policies[k].srcObj = VpnObjectID
    BY DEF Loaded, DeniesVpn
  <2>2. Positions(c, VpnBlockPolicyID) # {} /\ Min(Positions(c, VpnBlockPolicyID)) = k
    BY <2>1, FirstPolicy
  <2>3. WithVpnPolicy(c) = [c EXCEPT !.policies[k].srcObj = VpnObjectID]
    BY <2>2 DEF WithVpnPolicy
  <2> DEFINE pol == c.policies[k]
             new == [pol EXCEPT !.srcObj = VpnObjectID]
  <2>4. k \in DOMAIN c.policies /\ IsPolicy(pol) /\ IsChain(c.policies)
    BY <2>1, PolicyForm DEF FirstAt
  <2>5. WithVpnPolicy(c) = [c EXCEPT !.policies = [c.policies EXCEPT ![k] = new]]
    BY <2>3, <2>4 DEF IsPolicy, IsConfig
  <2>6. pol.srcObj = VpnObjectID
    BY <2>1
  <2> HIDE DEF pol
  <2>7. new = pol
    BY <2>4, <2>6 DEF IsPolicy
  <2>8. [c.policies EXCEPT ![k] = pol] = c.policies
    BY <2>4 DEF pol, IsChain
  <2> HIDE DEF new
  <2> QED
    BY <2>5, <2>7, <2>8, PartsOther
<1>7. ensureDefaultVPNAutoBlock(c) = c
  BY <1>6 DEF Loaded, WithVpnObject, ensureDefaultVPNAutoBlock
<1>8. ensureDefaultMgmtAPIPolicy(c) = c
  BY DEF Loaded, ensureDefaultMgmtAPIPolicy
<1> QED
  BY <1>5, <1>7, <1>8 DEF Migrated

LEMMA MigratedStays ==
  ASSUME NEW c, IsConfig(c)
  PROVE  IsConfig(Migrated(c))
<1> DEFINE d1 == ensureDefaultAutoBlock(c)
           d2 == ensureDefaultVPNAutoBlock(d1)
           d3 == ensureDefaultMgmtAPIPolicy(d2)
<1>1. IsConfig(d1)
  BY AutoBlockLoads
<1>2. IsConfig(d2)
  <2> HIDE DEF d1
  <2>1. IsConfig(WithVpnObject(d1))
    BY <1>1, VpnObjectLoads
  <2> QED
    BY <2>1, VpnPolicyLoads DEF ensureDefaultVPNAutoBlock, KeepsOthers
<1>3. IsConfig(d3)
  <2> HIDE DEF d2
  <2> QED
    BY <1>2, GuiPolicyLoads
<1> QED
  BY <1>3 DEF Migrated

LEMMA MigratedLoads ==
  ASSUME NEW c, IsConfig(c), Apart(c)
  PROVE  /\ Loaded(Migrated(c), CanonicalObject(c)) /\ Apart(Migrated(c))
         /\ LoadSettles(c)
<1> DEFINE x == CanonicalObject(c)
           d1 == ensureDefaultAutoBlock(c)
           d2 == ensureDefaultVPNAutoBlock(d1)
           m == Migrated(c)
<1>1. /\ IsConfig(d1) /\ Fills(d1, x) /\ Denies(d1, x) /\ NoDuplicates(d1, x)
      /\ d1.ids = c.ids /\ KeepsPolicies(c, d1, IpsBlockPolicyID)
      /\ \A o \in Objects(c) :
            o.name # IpsObjectName \/ o.values # {} \/ o.id = c.ids => o \in Objects(d1)
  BY AutoBlockLoads
<1>2. Apart(d1)
  BY AutoBlockApart
<1>3. m = ensureDefaultMgmtAPIPolicy(d2)
  BY DEF Migrated
<1>4. x = c.ids \/ c.ids \notin ObjectIds(c)
  BY DEF CanonicalObject
<1> HIDE DEF x, d1, m
<1>5. /\ IsConfig(d2) /\ Fills(d2, x) /\ Denies(d2, x) /\ NoDuplicates(d2, x) /\ Apart(d2)
      /\ HasVpnObject(d2) /\ DeniesVpn(d2) /\ d2.ids = d1.ids
      /\ KeepsPolicies(d1, d2, VpnBlockPolicyID) /\ Objects(d1) \subseteq Objects(d2)
  BY <1>1, <1>2, VpnBlockLoads
<1> HIDE DEF d2
<1>6. /\ IsConfig(m) /\ m.objects = d2.objects /\ m.ids = d2.ids
      /\ KeepsPolicies(d2, m, MgmtAPIPolicyID)
  BY <1>3, <1>5, GuiPolicyLoads
<1>7. Loaded(m, x) /\ Apart(m)
  BY <1>3, <1>5, GuiPolicyLoadsLast
<1>8. Migrated(m) = m
  BY <1>6, <1>7, LoadedAgain
<1> DEFINE own == {pol \in {m.policies[i] : i \in DOMAIN m.policies}
                            \union {c.policies[i] : i \in DOMAIN c.policies} :
                     pol.id \notin {IpsBlockPolicyID, VpnBlockPolicyID, MgmtAPIPolicyID}}
<1>9. Selected(m.policies, own) = Selected(c.policies, own)
  <2>1. \A pol \in own : /\ pol.id # IpsBlockPolicyID
                         /\ pol.id # VpnBlockPolicyID /\ pol.id # MgmtAPIPolicyID
    OBVIOUS
  <2> HIDE DEF own
  <2>2. Selected(d1.policies, own) = Selected(c.policies, own)
    BY <1>1, <2>1 DEF KeepsPolicies
  <2>3. Selected(d2.policies, own) = Selected(d1.policies, own)
    BY <1>5, <2>1 DEF KeepsPolicies
  <2>4. Selected(m.policies, own) = Selected(d2.policies, own)
    BY <1>6, <2>1 DEF KeepsPolicies
  <2> QED
    BY <2>2, <2>3, <2>4
<1>10. m.policies[Min(Positions(m, IpsBlockPolicyID))].srcObj = x
  <2>1. PICK k : FirstAt(m, IpsBlockPolicyID, k) /\ m.policies[k].srcObj = x
    BY <1>7 DEF Loaded, Denies
  <2>2. Min(Positions(m, IpsBlockPolicyID)) = k
    BY <1>6, <2>1, FirstPolicy
  <2> QED
    BY <2>1, <2>2
<1>11. x \in ObjectIds(m)
  BY <1>6, <1>7, CanonicalIs DEF Loaded
<1>12. m.ids = c.ids
  BY <1>1, <1>5, <1>6
<1>13. ASSUME NEW o \in Objects(c), o.values # {} PROVE o.id \in ObjectIds(m)
  <2>1. o \in Objects(m)
    <3>1. Objects(m) = Objects(d2)
      BY <1>6 DEF Objects
    <3> QED
      BY <1>1, <1>5, <1>13, <3>1
  <2> QED
    BY <1>6, <2>1, ObjectForm
<1>14. LoadSettles(c)
  <2>1. m = Migrated(c)
    BY DEF m
  <2>2. m.ids \in ObjectIds(c) => x = m.ids
    BY <1>4, <1>12
  <2>3. LoadSettles(c) <=>
           /\ Migrated(m) = m
           /\ Selected(m.policies, own) = Selected(c.policies, own)
           /\ m.policies[Min(Positions(m, IpsBlockPolicyID))].srcObj \in ObjectIds(m)
           /\ m.ids \in ObjectIds(c) =>
                 m.policies[Min(Positions(m, IpsBlockPolicyID))].srcObj = m.ids
           /\ \A o \in Objects(c) : o.values # {} => o.id \in ObjectIds(m)
    BY <2>1, Zenon DEF LoadSettles
  <2> HIDE DEF own
  <2> QED
    BY <1>8, <1>9, <1>10, <1>11, <1>13, <2>2, <2>3
<1> QED
  BY <1>7, <1>14 DEF m, x

-----------------------------------------------------------------------------
(* The invariant: what is in force is a configuration.                     *)
Typed == hours \in BOOLEAN /\ IsConfig(cfg) /\ changes \in 0 .. MaxChanges

LEMMA TypedInit == Init => Typed
<1> SUFFICES ASSUME Init PROVE Typed
  OBVIOUS
<1>1. IsConfig(Seed) /\ MaxChanges \in Nat
  BY PacketFilterConstants
<1>2. cfg = Seed /\ hours = FALSE /\ changes = 0
  BY DEF Init
<1>3. changes \in 0 .. MaxChanges
  BY <1>1, <1>2
<1> QED
  BY <1>1, <1>2, <1>3 DEF Typed

LEMMA ChangeKeepsTypes ==
  ASSUME Typed, NEW to, IsConfig(to), Change(to)
  PROVE  Typed'
<1>1. MaxChanges \in Nat
  BY PacketFilterConstants
<1>2. changes' \in 0 .. MaxChanges
  BY <1>1 DEF Typed, Change
<1>3. cfg' = to /\ hours' = hours
  BY DEF Change
<1> QED
  BY <1>2, <1>3 DEF Typed

LEMMA TypedNext == Typed /\ [Next]_vars => Typed'
<1> SUFFICES ASSUME Typed, [Next]_vars PROVE Typed'
  OBVIOUS
<1>1. IsConfig(cfg) /\ IsPolicies(cfg.policies)
  BY PartsStay DEF Typed
<1>2. CASE AddPolicy
  <2>1. PICK pol \in Policies : Apply([cfg EXCEPT !.policies = Append(@, pol)])
    BY <1>2 DEF AddPolicy
  <2>2. IsPolicy(pol)
    BY PacketFilterConstants
  <2>3. IsConfig([cfg EXCEPT !.policies = Append(@, pol)])
    BY <1>1, <2>2, PoliciesStay, PartsStay
  <2> QED
    BY <2>1, <2>3, ChangeKeepsTypes DEF Apply
<1>3. CASE ReplacePolicy
  <2>0. PICK pol \in Policies :
          \E i \in Positions(cfg, pol.id) : Apply([cfg EXCEPT !.policies[i] = pol])
    BY <1>3 DEF ReplacePolicy
  <2>1. PICK i \in Positions(cfg, pol.id) : Apply([cfg EXCEPT !.policies[i] = pol])
    BY <2>0
  <2>2. IsPolicy(pol) /\ i \in DOMAIN cfg.policies
    BY PacketFilterConstants DEF Positions
  <2>3. IsConfig([cfg EXCEPT !.policies = [cfg.policies EXCEPT ![i] = pol]])
    BY <1>1, <2>2, PoliciesStay, PartsStay
  <2> QED
    BY <2>1, <2>3, ChangeKeepsTypes DEF Apply
<1>4. CASE RemovePolicy
  <2>1. PICK i \in DOMAIN cfg.policies : Apply([cfg EXCEPT !.policies = RemoveAt(@, i)])
    BY <1>4 DEF RemovePolicy
  <2>2. IsPolicies(RemoveAt(cfg.policies, i))
    <3>1. IsPolicy(cfg.policies[i])
      BY <1>1 DEF IsPolicies
    <3> QED
      BY <1>1, <3>1, PoliciesStay
  <2>3. IsConfig([cfg EXCEPT !.policies = RemoveAt(@, i)])
    BY <1>1, <2>2, PartsStay
  <2> QED
    BY <2>1, <2>3, ChangeKeepsTypes DEF Apply
<1>5. CASE ChangeInterface
  <2>1. PICK i \in DOMAIN cfg.ifaces, f \in Ifaces : Apply([cfg EXCEPT !.ifaces[i] = f])
    BY <1>5 DEF ChangeInterface
  <2>2. f \in IfaceType /\ cfg.ifaces \in Seq(IfaceType)
    BY <1>1, PacketFilterConstants DEF IsConfig
  <2>3. [cfg.ifaces EXCEPT ![i] = f] \in Seq(IfaceType)
    BY <2>2, ChainsStay
  <2>4. IsConfig([cfg EXCEPT !.ifaces = [cfg.ifaces EXCEPT ![i] = f]])
    BY <1>1, <2>3, PartsStay
  <2> QED
    BY <2>1, <2>4, ChangeKeepsTypes DEF Apply
<1>6. CASE ChangeFeatures
  <2>1. PICK f \in Features :
          Apply([cfg EXCEPT !.wireguard = f.wireguard, !.openvpn = f.openvpn, !.sni = f.sni,
                            !.dns = f.dns, !.ntp = f.ntp])
    BY <1>6 DEF ChangeFeatures
  <2>2. f.wireguard \in WireGuardType /\ f.openvpn \in OpenVPNType
    BY PacketFilterConstants
  <2>3. IsConfig([cfg EXCEPT !.wireguard = f.wireguard, !.openvpn = f.openvpn, !.sni = f.sni,
                             !.dns = f.dns, !.ntp = f.ntp])
    BY <1>1, <2>2, PartsStay
  <2> QED
    BY <2>1, <2>3, ChangeKeepsTypes DEF Apply
<1>7. CASE RefreshObject
  <2>1. PICK i \in DOMAIN cfg.objects, S \in Contents :
          Change([cfg EXCEPT !.objects[i].values = S])
    BY <1>7 DEF RefreshObject
  <2> DEFINE o == [cfg.objects[i] EXCEPT !.values = S]
  <2>2. IsObject(o)
    <3>1. IsObject(cfg.objects[i])
      BY <1>1, ObjectForm
    <3> QED
      BY <3>1 DEF IsObject
  <2>3. [cfg EXCEPT !.objects[i].values = S]
          = [cfg EXCEPT !.objects = [cfg.objects EXCEPT ![i] = o]]
    OBVIOUS
  <2> HIDE DEF o
  <2>4. IsObjects([cfg.objects EXCEPT ![i] = o])
    BY <1>1, <2>2, PartsStay, ObjectsStay
  <2>5. IsConfig([cfg EXCEPT !.objects = [cfg.objects EXCEPT ![i] = o]])
    BY <1>1, <2>4, PartsStay
  <2> QED
    BY <2>1, <2>3, <2>5, ChangeKeepsTypes
<1>8. CASE Restart
  BY <1>1, <1>8, MigratedStays DEF Restart, Typed
<1>9. CASE Restore
  <2>1. PICK stored \in Backups : cfg' = Migrated(stored)
    BY <1>9 DEF Restore
  <2>2. IsConfig(stored)
    BY PacketFilterConstants
  <2>3. hours' \in BOOLEAN /\ changes' \in 0 .. MaxChanges
    BY <1>9, PacketFilterConstants DEF Restore, Typed
  <2> QED
    BY <2>1, <2>2, <2>3, MigratedStays DEF Typed
<1>10. CASE HoursTurn
  BY <1>10 DEF HoursTurn, Typed
<1>11. CASE UNCHANGED vars
  BY <1>11 DEF vars, Typed
<1> QED
  BY <1>2, <1>3, <1>4, <1>5, <1>6, <1>7, <1>8, <1>9, <1>10, <1>11 DEF Next

LEMMA TypedHolds == Spec => []Typed
  BY TypedInit, TypedNext, PTL DEF Spec

(* The two blocks stay apart: a change of the configuration's other parts, *)
(* or of policies to some that keep them apart, and a load.                *)
LEMMA StoredApart ==
  ASSUME BlocksApart, NEW c \in Backups \union {Seed}
  PROVE  Apart(c)
<1>1. c.ids = VpnObjectID => HasVpnObject(c)
  BY DEF BlocksApart
<1>2. \A o \in Objects(c) : o.name = IpsObjectName => o.id \in IdsObjects
  BY DEF IdsObjects
<1>3. \A i \in DOMAIN c.policies : c.policies[i] \in KnownPolicies
  BY DEF KnownPolicies
<1> QED
  BY <1>1, <1>2, <1>3 DEF Apart, BlocksApart

LEMMA EditApart ==
  ASSUME BlocksApart, NEW c, Apart(c), NEW d, d.objects = c.objects, d.ids = c.ids,
         \A i \in DOMAIN d.policies :
            d.policies[i] \in Policies \union {c.policies[j] : j \in DOMAIN c.policies}
  PROVE  Apart(d)
<1>1. Objects(d) = Objects(c)
  BY DEF Objects
<1>2. ASSUME NEW i \in DOMAIN d.policies, d.policies[i].id = VpnBlockPolicyID
      PROVE  d.policies[i].srcObj \notin IdsObjects \ {VpnObjectID}
  <2>1. CASE d.policies[i] \in Policies
    <3>1. d.policies[i] \in KnownPolicies
      BY <2>1 DEF KnownPolicies
    <3> QED
      BY <1>2, <3>1 DEF BlocksApart
  <2>2. CASE \E j \in DOMAIN c.policies : d.policies[i] = c.policies[j]
    BY <1>2, <2>2 DEF Apart
  <2> QED
    BY <2>1, <2>2
<1>3. d.ids = VpnObjectID => HasVpnObject(d)
  BY <1>1 DEF Apart, HasVpnObject
<1>4. \A o \in Objects(d) : o.name = IpsObjectName => o.id \in IdsObjects
  BY <1>1 DEF Apart
<1> QED
  BY <1>2, <1>3, <1>4 DEF Apart

LEMMA ApartNext ==
  ASSUME BlocksApart, Typed, Apart(cfg), [Next]_vars
  PROVE  Apart(cfg')
<1> DEFINE s == cfg.policies
           R == Policies \union {s[j] : j \in DOMAIN s}
<1>1. IsConfig(cfg)
  BY DEF Typed
<1>2. s \in Seq(R) /\ \A i \in DOMAIN s : s[i] \in R
  <2>1. IsChain(s) /\ Len(s) \in Nat /\ DOMAIN s = 1 .. Len(s)
    BY <1>1, PolicyForm
  <2>2. s \in [1 .. Len(s) -> R]
    BY <2>1, LenProperties DEF IsChain
  <2> QED
    BY <2>1, <2>2
<1>3. ASSUME NEW r \in Seq(R), cfg' = [cfg EXCEPT !.policies = r] PROVE Apart(cfg')
  <2>1. cfg'.policies = r /\ cfg'.objects = cfg.objects /\ cfg'.ids = cfg.ids
    BY <1>1, <1>3, PartsOther
  <2>2. \A i \in DOMAIN r : r[i] \in R
    <3> HIDE DEF R
    <3> QED
      BY LenProperties
  <2> QED
    BY <2>1, <2>2, EditApart
<1>4. CASE AddPolicy
  <2>1. PICK pol \in Policies : cfg' = [cfg EXCEPT !.policies = Append(s, pol)]
    BY <1>4 DEF AddPolicy, Apply, Change
  <2>2. Append(s, pol) \in Seq(R)
    <3>1. pol \in R
      OBVIOUS
    <3> HIDE DEF R, s
    <3> QED
      BY <1>2, <3>1, ChainsStay
  <2> QED
    BY <1>3, <2>1, <2>2
<1>5. CASE ReplacePolicy
  <2>0. PICK pol \in Policies : \E i \in Positions(cfg, pol.id) :
           cfg' = [cfg EXCEPT !.policies[i] = pol]
    BY <1>5 DEF ReplacePolicy, Apply, Change
  <2>1. PICK i \in Positions(cfg, pol.id) : cfg' = [cfg EXCEPT !.policies[i] = pol]
    BY <2>0
  <2>2. cfg' = [cfg EXCEPT !.policies = [s EXCEPT ![i] = pol]]
    BY <2>1
  <2>3. [s EXCEPT ![i] = pol] \in Seq(R)
    <3>1. pol \in R /\ i \in DOMAIN s
      BY DEF Positions
    <3> HIDE DEF R, s
    <3> QED
      BY <1>2, <3>1, ChainsStay
  <2> QED
    BY <1>3, <2>2, <2>3
<1>6. CASE RemovePolicy
  <2>1. PICK i \in DOMAIN s : cfg' = [cfg EXCEPT !.policies = RemoveAt(s, i)]
    BY <1>6 DEF RemovePolicy, Apply, Change
  <2>2. RemoveAt(s, i) \in Seq(R)
    <3>1. s[i] \in R
      BY <1>2
    <3> HIDE DEF R, s
    <3> QED
      BY <1>2, <3>1, ChainsStay
  <2> QED
    BY <1>3, <2>1, <2>2
<1>7. ASSUME cfg'.policies = s, cfg'.objects = cfg.objects, cfg'.ids = cfg.ids
      PROVE  Apart(cfg')
  BY <1>2, <1>7, EditApart
<1>8. CASE ChangeInterface
  <2>1. PICK i \in DOMAIN cfg.ifaces, f \in Ifaces : cfg' = [cfg EXCEPT !.ifaces[i] = f]
    BY <1>8 DEF ChangeInterface, Apply, Change
  <2>2. cfg'.policies = s /\ cfg'.objects = cfg.objects /\ cfg'.ids = cfg.ids
    BY <1>1, <2>1 DEF IsConfig
  <2> QED
    BY <1>7, <2>2
<1>9. CASE ChangeFeatures
  <2>1. PICK f \in Features :
          cfg' = [cfg EXCEPT !.wireguard = f.wireguard, !.openvpn = f.openvpn, !.sni = f.sni,
                             !.dns = f.dns, !.ntp = f.ntp]
    BY <1>9 DEF ChangeFeatures, Apply, Change
  <2>2. cfg'.policies = s /\ cfg'.objects = cfg.objects /\ cfg'.ids = cfg.ids
    BY <1>1, <2>1 DEF IsConfig
  <2> QED
    BY <1>7, <2>2
<1>10. CASE RefreshObject
  <2>1. PICK i \in DOMAIN cfg.objects, S \in Contents :
          cfg' = [cfg EXCEPT !.objects[i].values = S]
    BY <1>10 DEF RefreshObject, Change
  <2> DEFINE t == [cfg.objects EXCEPT ![i] = [cfg.objects[i] EXCEPT !.values = S]]
  <2>2. cfg' = [cfg EXCEPT !.objects = t]
    BY <2>1
  <2>3. IsObject(cfg.objects[i])
    BY <1>1, ObjectForm
  <2>4. /\ DOMAIN t = DOMAIN cfg.objects
        /\ \A j \in DOMAIN cfg.objects :
              t[j].id = cfg.objects[j].id /\ t[j].name = cfg.objects[j].name
    BY <2>3 DEF IsObject
  <2> HIDE DEF t
  <2>5. cfg'.policies = s /\ cfg'.objects = t /\ cfg'.ids = cfg.ids
    BY <1>1, <2>2, PartsOther
  <2>6. ASSUME cfg'.ids = VpnObjectID PROVE HasVpnObject(cfg')
    <3>1. PICK o \in Objects(cfg) : o.id = VpnObjectID \/ o.name = VpnObjectName
      BY <2>5, <2>6 DEF Apart, HasVpnObject
    <3>2. PICK j \in DOMAIN cfg.objects : o = cfg.objects[j]
      BY DEF Objects
    <3>3. t[j] \in Objects(cfg') /\ (t[j].id = VpnObjectID \/ t[j].name = VpnObjectName)
      BY <2>4, <2>5, <3>1, <3>2 DEF Objects
    <3> QED
      BY <3>3 DEF HasVpnObject
  <2>7. ASSUME NEW o \in Objects(cfg'), o.name = IpsObjectName PROVE o.id \in IdsObjects
    <3>1. PICK j \in DOMAIN cfg.objects : o = t[j]
      BY <2>4, <2>5 DEF Objects
    <3>2. cfg.objects[j] \in Objects(cfg) /\ cfg.objects[j].name = IpsObjectName
      BY <2>4, <2>7, <3>1 DEF Objects
    <3> QED
      BY <2>4, <3>1, <3>2 DEF Apart
  <2> QED
    BY <2>5, <2>6, <2>7 DEF Apart
<1>11. CASE Restart
  BY <1>1, <1>11, MigratedLoads DEF Restart
<1>12. CASE Restore
  <2>1. PICK stored \in Backups : cfg' = Migrated(stored)
    BY <1>12 DEF Restore
  <2>2. IsConfig(stored) /\ Apart(stored)
    BY PacketFilterConstants, StoredApart
  <2> QED
    BY <2>1, <2>2, MigratedLoads
<1>13. CASE HoursTurn
  BY <1>13 DEF HoursTurn
<1>14. CASE UNCHANGED vars
  BY <1>14 DEF vars
<1> QED
  BY <1>4, <1>5, <1>6, <1>8, <1>9, <1>10, <1>11, <1>12, <1>13, <1>14 DEF Next

(* The configuration in force has the parts the packet filter reads,       *)
(* whatever was restored, and every packet gets a verdict the kernel knows,*)
(* also under a configuration that does not validate.                      *)
THEOREM TypeCorrect == Spec => []TypeOK
<1>1. Typed => TypeOK
  BY VerdictsKnown DEF Typed, TypeOK, Known
<1> QED
  BY <1>1, TypedHolds, PTL

(* What passes the box or reaches it is what the policies and the services *)
(* it offers allow, and no policy that was validated is lost in rendering. *)
THEOREM OnlyAllowed == Spec => []OnlyAllowedPasses
<1>1. Typed => OnlyAllowedPasses
  BY PoliciesHold, SelfHolds, RenderedHolds DEF Typed, OnlyAllowedPasses
<1> QED
  BY <1>1, TypedHolds, PTL

(* A port forward takes what is meant for the box and never a client's     *)
(* traffic to somebody else, and answers come back the way they went.      *)
THEOREM TranslationSound == Spec => []TranslationIsSound
<1>1. Typed => TranslationIsSound
  BY RedirectsHold, AnswersHold DEF Typed, TranslationIsSound
<1> QED
  BY <1>1, TypedHolds, PTL
(* Loading a configuration of an earlier version, or the present one again,*)
(* settles at once: a second load changes nothing, the administrator's     *)
(* policies are as they were and in their order, nothing filled is thrown  *)
(* away, and the deny policy refers to the object that IDS fills. This     *)
(* holds of configurations in which the objects of the two blocks are not  *)
(* mixed up (BlocksApart); the README says what happens in others.         *)
THEOREM LoadingSettles ==
  ASSUME BlocksApart
  PROVE  Spec => []MigrationSettles
<1>1. Init => Apart(cfg)
  BY StoredApart DEF Init
<1>2. Typed /\ Apart(cfg) /\ [Next]_vars => Apart(cfg)'
  BY ApartNext
<1>3. Spec => []Apart(cfg)
  BY <1>1, <1>2, TypedHolds, PTL DEF Spec
<1>4. Typed /\ Apart(cfg) => MigrationSettles
  <2> SUFFICES ASSUME Typed, Apart(cfg), NEW stored \in Backups \union {cfg}
               PROVE  LoadSettles(stored)
    BY DEF MigrationSettles
  <2>1. IsConfig(stored) /\ Apart(stored)
    BY PacketFilterConstants, StoredApart DEF Typed
  <2> QED
    BY <2>1, MigratedLoads
<1> QED
  BY <1>3, <1>4, TypedHolds, PTL
=============================================================================
