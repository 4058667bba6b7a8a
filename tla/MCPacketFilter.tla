--------------------------- MODULE MCPacketFilter ---------------------------
(***************************************************************************)
(* An instance of PacketFilter for TLC: a router with a card outside and   *)
(* two inside, a client and a server behind one of them and a camera       *)
(* behind the other. Its Seed is that of the factory, with a third         *)
(* interface and a few objects; Backups has one from before auto-block, a  *)
(* grown one, one of a box in host mode, and one that does not validate.   *)
(***************************************************************************)
EXTENDS PacketFilter

MCHome == [h \in {"pc", "srv", "cam", "net1"} |->
             CASE h = "cam" -> "iot0" [] h = "net1" -> "wan0" [] OTHER -> "lan0"]

Pairs == {<<s, d>> \in Hosts \X Addr :
            d \in SelfAddr \/ (Home[s] # Home[d] /\ "srv" # s)}

MCPackets ==
    {[in |-> Home[pr[1]], src |-> pr[1], dst |-> pr[2], svc |-> k[1], est |-> k[2], flood |-> k[3]] :
        pr \in Pairs,
        k \in {<<<<"tcp", 22>>, FALSE, FALSE>>, <<<<"tcp", 22>>, TRUE, FALSE>>,
               <<<<"udp", 53>>, FALSE, FALSE>>, <<<<"udp", 53>>, FALSE, TRUE>>,
               <<<<"tcp", 443>>, FALSE, FALSE>>, <<<<"tcp", 8443>>, FALSE, FALSE>>,
               <<<<"udp", 67>>, FALSE, FALSE>>, <<<<"icmp", 0>>, FALSE, FALSE>>,
               <<<<"udp", 51820>>, FALSE, FALSE>>, <<<<"udp", 51820>>, FALSE, TRUE>>}}

Typed(parts) == [kind |-> "typed", parts |-> parts]
Part(proto, port) == [proto |-> proto, port |-> port]

MCServices ==
    [s \in {"22", "icmp", "tcp:443,8443", "names", "web", "nothing"} |->
       CASE s = "22" -> Typed(<<Part("", 22)>>)
         [] s = "icmp" -> Typed(<<Part("icmp", 0)>>)
         [] s = "tcp:443,8443" -> Typed(<<Part("tcp", 443), Part("", 8443)>>)
         [] s = "names" -> [kind |-> "object", proto |-> "udp", ports |-> {53}]
         [] s = "web" -> [kind |-> "group", members |-> {"tcp:443,8443", "names", "web"}]
         [] s = "nothing" -> [kind |-> "group", members |-> {}]]

Object(id, group, values) == [id |-> id, name |-> id, group |-> group, values |-> values]

MCObjects ==
    <<Object("admins", FALSE, {"pc"}), Object("srvs", FALSE, {"srv"}),
      Object("staff", TRUE, {"admins", "staff"})>>

MCSeed ==
    LET s == defaultSeedConfig("gateway", NoDevice, "wan0", "lan0", 8443)
    IN  [s EXCEPT !.ifaces = Append(@, Iface("iot0", "iot0", "IOT")),
                  !.objects = @ \o MCObjects, !.services = MCServices]

NatOf(ext, proto, port, to) ==
    [extIP |-> ext, proto |-> proto, extPort |-> port, intIP |-> "srv", intPort |-> to]

GoOut == [AnyPolicy("out", "accept") EXCEPT !.srcZone = {"Any-Trusted (LAN)"}, !.dstZone = {"WAN"}]
Camera == [AnyPolicy("cam", "accept") EXCEPT !.srcZone = {"IOT"}, !.dstZone = {"LAN", "WAN"},
                                             !.dstObj = "srvs", !.service = "web", !.sched = "hours"]
NoStaff == [AnyPolicy("staff", "reject") EXCEPT !.srcObj = "staff", !.dstZone = {"IOT"}]
ForwardTls == [AnyPolicy("tls", "dnat") EXCEPT !.nat = NatOf(NoAddr, "", 443, 8443)]
ForwardVpn == [AnyPolicy("vpn", "dnat") EXCEPT !.nat = NatOf("wanIp", "udp", 51820, 53),
                                             !.sched = "hours"]
Outer == [AnyPolicy("outer", "snat") EXCEPT !.srcObj = "srvs", !.nat = NatOf("wanIp", "", 0, 0)]
SshForStaff == [LocalPolicy("sys-ssh-lan", "LAN", "22") EXCEPT !.srcObj = "staff", !.sched = "hours"]
GuiForAdmins == [mgmtAPIPolicy("LAN") EXCEPT !.srcObj = "admins"]
NoPing == [LocalPolicy("ping", "ANY", "icmp") EXCEPT !.action = "drop"]

MCPolicies ==
    {GoOut, Camera, NoStaff, ForwardTls, ForwardVpn, Outer, SshForStaff, GuiForAdmins, NoPing,
     [AnyPolicy("cam", "drop") EXCEPT !.srcZone = {"IOT"}, !.service = "nothing"]}

MCIfaces ==
    {[Iface("wan0", "wan0", "WAN") EXCEPT !.addr = "wanIp"],
     [Iface("lan0", "lan0", "LAN") EXCEPT !.dhcp = TRUE],
     [Iface("iot0", "iot0", "IOT") EXCEPT !.on = FALSE],
     Iface("iot0", "iot0", "LAN"), Iface("iot0", NoDevice, "IOT")}

Off == [wireguard |-> [on |-> FALSE, port |-> 0], openvpn |-> [on |-> FALSE, port |-> 0, proto |-> ""],
        sni |-> {}, dns |-> FALSE, ntp |-> FALSE]
Route(servers, openvpn) ==
    [id |-> "r", on |-> TRUE, port |-> 443, servers |-> servers, openvpn |-> openvpn]

MCFeatures ==
    {[Off EXCEPT !.wireguard = [on |-> TRUE, port |-> 51820], !.dns = TRUE],
     [Off EXCEPT !.openvpn = [on |-> TRUE, port |-> 53, proto |-> ""]],
     [Off EXCEPT !.openvpn = [on |-> TRUE, port |-> 22, proto |-> "tcp"], !.sni = {Route({}, TRUE)}],
     [Off EXCEPT !.sni = {Route({"srv"}, FALSE)}, !.ntp = TRUE]}

Old ==
    [MCSeed EXCEPT !.policies = <<GoOut>>, !.ids = "obj-2",
       !.objects = <<[Object("obj-1", FALSE, {}) EXCEPT !.name = IpsObjectName],
                     [Object("obj-2", FALSE, {"net1"}) EXCEPT !.name = IpsObjectName],
                     [Object("obj-3", FALSE, {"cam"}) EXCEPT !.name = IpsObjectName]>> \o MCObjects]

Grown ==
    [MCSeed EXCEPT
       !.ifaces[1].addr = "wanIp", !.dns = TRUE, !.wireguard = [on |-> TRUE, port |-> 51820],
       !.policies = <<[ipsAutoBlockDenyPolicy("admins") EXCEPT !.on = TRUE, !.srcZone = {"ANY"}],
                      NoStaff, Camera, ForwardTls, NoPing, SshForStaff, GuiForAdmins, GoOut>>]

Host ==
    [defaultSeedConfig("host", "lan0", NoDevice, NoDevice, 8443) EXCEPT
       !.services = MCServices, !.objects = @ \o MCObjects]

NotValid == [MCSeed EXCEPT !.policies[2].on = FALSE]

MCBackups == {Old, Grown, Host, NotValid}

(* What the proof that loading settles assumes is so of this instance.     *)
ASSUME BlocksApart
=============================================================================
