----------------------------- MODULE Interfaces -----------------------------
(***************************************************************************)
(* How the network cards come to be what the configuration says:           *)
(* Engine.applyInterfaces step by step (pkg/engine/engine.go), with the    *)
(* helper that writes the profiles and has the owner of the network apply  *)
(* them card by card (helper.go, persist.go of pkg/adapter/network), the   *)
(* ip commands that take over when it cannot, the requests for leases that *)
(* both leave behind or an administrator makes (adapter.go,                *)
(* handleRenewDHCP), the start of the agent, and the first start after the *)
(* installation (adoptSystemAddressing of pkg/store).  NetApply is one     *)
(* such application as a function.                                         *)
(*                                                                         *)
(* External: the owner of the network works on its own (Settle), with the  *)
(* profiles; something else may disturb a card; the machine may go down.   *)
(* An apply compares with the configuration in force (SafeApply says when  *)
(* the code compares with another one).                                    *)
(***************************************************************************)
EXTENDS NetworkCards

CONSTANTS
    Scenarios,  \* bounds of a run: backend, cards, configurations, faults
    NoJob       \* no application under way

(* Addresses, gateways, settings of an interface, cards, and profiles of a *)
(* scenario.                                                               *)
Addresses(s) == s.addrs \cup {Leased}
Routes(s) == s.gateways \cup {NoRoute, FromISP}
Settings(s) == [dev : s.phys \cup s.vlans, zone : s.zones, on : BOOLEAN, type : {"dhcp", "static"},
                ip : Addresses(s) \cup {NoAddr}, gw : Routes(s)]
Configs(s) == [s.ids -> Settings(s) \cup {Absent}]
Cards(s) == [exists : BOOLEAN, up : BOOLEAN, perm : SUBSET Addresses(s), lease : BOOLEAN, route : Routes(s)]
Profiles(s) == [on : BOOLEAN, ip : Addresses(s) \cup {NoAddr}, route : Routes(s)]
Jobs(s) == [new : Configs(s), prev : Configs(s), touch : SUBSET s.ids, rest : SUBSET s.ids,
            waits : SUBSET s.ids, stage : {"boot", "ask", "write", "reconfigure", "saved", "ip"}]

(* What the kernel allows of a card. *)
CardOK(k, isPhysical) ==
    /\ isPhysical => k.exists
    /\ ~k.exists => k = Gone
    /\ ~k.up => k.route = NoRoute

(* A scenario is a record of these fields; a card of the machine is there, *)
(* a VLAN is not before the agent has made it; Absent and NoJob are no     *)
(* settings, profiles, applications, and NoAddr is no address.             *)
IsScenario(s) ==
    /\ s = [backend |-> s.backend, host |-> s.host, phys |-> s.phys, vlans |-> s.vlans, ids |-> s.ids, zones |-> s.zones,
            configs |-> s.configs, addrs |-> s.addrs, gateways |-> s.gateways, found |-> s.found,
            applies |-> s.applies, faults |-> s.faults, drifts |-> s.drifts, renews |-> s.renews,
            reboots |-> s.reboots, restarts |-> s.restarts]
    /\ s.phys \cap s.vlans = {}
    /\ {"WAN", "LAN", "HOST"} \subseteq s.zones
    /\ IF s.host THEN s.ids = {"host"} ELSE {"wan", "lan"} \subseteq s.ids
    /\ s.configs \subseteq Configs(s)
    /\ \A f \in s.found :
         /\ f \in [s.phys \cup s.vlans -> Cards(s)]
         /\ \A d \in s.phys : CardOK(f[d], TRUE)
         /\ \A d \in s.vlans : f[d] = Gone
    /\ Absent \notin Settings(s) /\ Absent \notin Profiles(s) /\ NoJob \notin Jobs(s)
    /\ NoAddr \notin Addresses(s)

ASSUME InterfacesConstants == \A s \in Scenarios : IsScenario(s)

VARIABLES
    setup,     \* the scenario; its counts are what is left of them
    force,     \* the interfaces of the configuration in force
    kernel,    \* the cards
    profile,   \* what the owner of the network has on disk for each card
    job,       \* applyInterfaces: [new, prev, touch, rest, stage, waits]
    pending,   \* the cards that the owner of the network has still to apply
    leasing,   \* requests for a lease: runDHClientOnce
    warned,    \* interfaceWarnings: the last application could not be saved
    excused,   \* history: cards that something else has changed, or that a
               \* command has failed for, since they were last compared with
               \* the configuration
    found,     \* history: the cards that the installation took over
    edited     \* history: an apply has been asked for

vars == <<setup, force, kernel, profile, job, pending, leasing, warned, excused, found, edited>>

Devices == setup.phys \cup setup.vlans
isVLAN(d) == d \in setup.vlans
ByNetworkd == setup.backend \in {"netplan", "networkd"}
HasBackend == setup.backend # "none"

Spend(field) == /\ setup[field] > 0
                /\ setup' = [setup EXCEPT ![field] = @ - 1]

DevicesOf(cfg, ids) == { cfg[i].dev : i \in ids }
Unused(cfg) == Devices \ DevicesOf(cfg, Ids(cfg))

(* No two interfaces of a configuration on one card.  validateInterfaces   *)
(* does not look; what the cards are promised presupposes it.              *)
DistinctCards(cfg) == \A i, j \in Ids(cfg) : cfg[i].dev = cfg[j].dev => i = j
OneCardEach == \A s \in Scenarios : \A cfg \in s.configs : DistinctCards(cfg)

(* applyHelperMu is held by the application. *)
HelperBusy == job # NoJob /\ job.stage \in {"write", "reconfigure"}

AtRest == job = NoJob /\ pending = {} /\ leasing = {}
-----------------------------------------------------------------------------
(* A VLAN that has moved to another card: the old one is deleted in the   *)
(* course of the first pass, even if another interface has it now.         *)
MovedVlans(new, prev) ==
    { prev[i].dev : i \in { j \in Ids(new) \cap Ids(prev) :
        isVLAN(prev[j].dev) /\ prev[j].dev # new[j].dev } }

Without(cards) == [d \in Devices |-> IF d \in cards THEN Gone ELSE kernel[d]]

(* The first pass of applyInterfaces: the interfaces to touch; `later` are *)
(* those that come in the list after the VLANs that have moved.            *)
Touched(new, prev, later) ==
    LET seen(i) == IF i \in later THEN Without(MovedVlans(new, prev)) ELSE kernel IN
    { i \in Ids(new) :
        \/ prev[i] # Absent /\ interfaceConfigDiffers(prev[i], new[i])
        \/ prev[i] = Absent /\ ~MatchesSystemState(new[i], new, seen(i))
        \/ isVLAN(new[i].dev) /\ ~seen(i)[new[i].dev].exists }

(* FirstStage that always asks the helper. *)
AlwaysAsk == "ask"

(* DetectPersistBackend: without a backend there is only the direct way. *)
FirstStage == IF HasBackend THEN "ask" ELSE "ip"

Begin(new, prev, touch) ==
    /\ job' = [new |-> new, prev |-> prev, touch |-> touch, rest |-> touch, waits |-> {}, stage |-> FirstStage]
    /\ warned' = ~HasBackend
    /\ kernel' = Without(MovedVlans(new, prev))
    /\ leasing' = { [r EXCEPT !.late = @ \/ r.dev \notin DevicesOf(new, (Ids(new) \cap Ids(prev)) \ touch)]
                        : r \in leasing }

(* What the comparison of two configurations does not see: that a card     *)
(* ceases to carry the default route.                                      *)
Unseen(new, prev, touch) ==
    { new[i].dev : i \in { j \in Ids(new) \ touch :
        /\ prev[j] # Absent
        /\ CarriesDefaultRoute(prev[j], prev)
        /\ ~CarriesDefaultRoute(new[j], new) } }

(* A card that its interface leaves for another one: nothing cleans it up. *)
Left(new, prev) ==
    { prev[i].dev : i \in { j \in Ids(new) \cap Ids(prev) : prev[j].dev # new[j].dev } }
      \ DevicesOf(new, Ids(new))

(* Engine.ApplyCandidate: `new` as edited, or as read and sent back. *)
Apply(cfg, read) ==
    LET new == IF read THEN PopulateDynamicIPs(cfg, kernel) ELSE cfg IN
    /\ job = NoJob /\ Spend("applies")
    /\ \E later \in SUBSET Ids(new) :
         LET touch == Touched(new, force, later) IN
         /\ Begin(new, force, touch)
         /\ excused' = ((excused \cup MovedVlans(new, force)) \ DevicesOf(new, touch))
                        \cup Unseen(new, force, touch) \cup Left(new, force)
    /\ edited' = TRUE
    /\ UNCHANGED <<force, profile, pending, found>>

(* ApplyRunningConfigAtBoot: there is nothing to compare with but the      *)
(* kernel.                                                                 *)
NoConfig == [i \in DOMAIN force |-> Absent]
BootApply ==
    /\ job # NoJob /\ job.stage = "boot"
    /\ Begin(force, NoConfig, Touched(force, NoConfig, {}))
    /\ excused' = Unused(force)
    /\ UNCHANGED <<setup, force, profile, pending, found, edited>>

Booting == [new |-> force, prev |-> NoConfig, touch |-> {}, rest |-> {}, waits |-> {}, stage |-> "boot"]

(* The agent is started anew, in the middle of an application too, but for *)
(* the time of the helper (HelperService has that).                        *)
AgentRestart ==
    /\ ~HelperBusy /\ Spend("restarts")
    /\ job' = Booting /\ leasing' = {} /\ warned' = FALSE
    /\ UNCHANGED <<force, kernel, profile, pending, excused, found, edited>>

(* The machine goes down, whatever is under way, and comes up. *)
Reboot ==
    /\ Spend("reboots")
    /\ LET after(d) == Booted(profile[d], found[d], isVLAN(d)) IN
       kernel' \in { k \in [Devices -> UNION { after(d) : d \in Devices }] :
                       \A d \in Devices : k[d] \in after(d) }
    /\ job' = Booting /\ leasing' = {} /\ pending' = {} /\ warned' = FALSE
    /\ UNCHANGED <<force, profile, excused, found, edited>>
-----------------------------------------------------------------------------
(* Write that skips an application without a card to touch. *)
WrittenIfTouched(new) ==
    IF job.touch = {} THEN profile
    ELSE [d \in Devices |->
            IF \E i \in Ids(new) : new[i].dev = d
            THEN Rendered(new[CHOOSE i \in Ids(new) : new[i].dev = d], new) ELSE Absent]

(* What a complete Write leaves on disk.  NetworkManager keeps the         *)
(* profiles of interfaces that are no longer in the list.                  *)
Written(new) ==
    LET on == { i \in Ids(new) : new[i].on \/ ~isVLAN(new[i].dev) } IN
    [d \in Devices |->
        IF d \in DevicesOf(new, on)
        THEN Rendered(new[CHOOSE i \in on : new[i].dev = d], new)
        ELSE IF setup.backend = "NetworkManager" /\ d \notin DevicesOf(new, Ids(new)) THEN profile[d]
        ELSE Absent]

(* ApplyPersistent has the helper started. *)
HelperStarts ==
    /\ job # NoJob /\ job.stage = "ask"
    /\ job' = [job EXCEPT !.stage = "write"]
    /\ UNCHANGED <<setup, force, kernel, profile, pending, leasing, warned, excused, found, edited>>

Write ==
    /\ job # NoJob /\ job.stage = "write"
    /\ profile' = Written(job.new)
    /\ job' = [job EXCEPT !.stage = "reconfigure"]
    /\ UNCHANGED <<setup, force, kernel, pending, leasing, warned, excused, found, edited>>

(* ApplyPersistent returns an error: the ip commands take over. *)
Unsaved == /\ warned' = TRUE
           /\ job' = [job EXCEPT !.stage = "ip", !.rest = job.touch, !.waits = {}]

(* Netplan rejects the file and the old one is put back; the other two     *)
(* write card by card and stop at the one that fails.  Or the helper is    *)
(* not started at all.                                                     *)
WriteFails ==
    /\ job # NoJob /\ job.stage = "write" /\ Spend("faults")
    /\ \E some \in SUBSET { d \in Devices : ByNetworkd => Written(job.new)[d] # Absent } :
         /\ setup.backend = "netplan" => some = {}
         /\ profile' = [d \in Devices |-> IF d \in some THEN Written(job.new)[d] ELSE profile[d]]
    /\ Unsaved
    /\ UNCHANGED <<force, kernel, pending, leasing, excused, found, edited>>

(* backend.Reconfigure of one card; it only asks.  networkctl creates the  *)
(* cards that have a profile and fails for one that has none and does not  *)
(* exist; NetworkManager disconnects a card without a profile.             *)
Reconfigure(i) ==
    LET d == job.new[i].dev IN
    /\ job # NoJob /\ job.stage = "reconfigure" /\ job.waits = {} /\ i \in job.rest
    /\ ByNetworkd /\ profile[d] = Absent => kernel[d].exists
    /\ pending' = IF profile[d] = Absent THEN pending ELSE pending \cup {d}
    /\ kernel' = IF profile[d] = Absent /\ ~ByNetworkd /\ kernel[d].exists
                 THEN [kernel EXCEPT ![d] = [Gone EXCEPT !.exists = TRUE]] ELSE kernel
    /\ job' = [job EXCEPT !.rest = @ \ {i}, !.waits = {i}]
    /\ UNCHANGED <<setup, force, profile, leasing, warned, excused, found, edited>>

ReconfigureFails(i) ==
    LET d == job.new[i].dev IN
    /\ job # NoJob /\ job.stage = "reconfigure" /\ job.waits = {} /\ i \in job.rest
    /\ IF ByNetworkd /\ profile[d] = Absent /\ ~kernel[d].exists THEN UNCHANGED setup ELSE Spend("faults")
    /\ Unsaved
    /\ UNCHANGED <<force, kernel, profile, pending, leasing, excused, found, edited>>

(* The profile of a card is an older one, since Write has failed, or one   *)
(* of an interface that is no more.                                        *)
isStale(d) ==
    LET cfg == IF job = NoJob THEN force ELSE job.new IN
    d \in Unused(cfg) \/ \E i \in Ids(cfg) :
        /\ cfg[i].dev = d /\ profile[d] # Rendered(cfg[i], cfg)
        /\ job # NoJob => job.stage = "ip" \/ i \notin job.touch

(* The owner of the network gets round to a card. *)
Settled(d) ==
    IF profile[d] = Absent THEN {kernel[d]}
    ELSE Configured(kernel[d], IF ByNetworkd THEN profile[d] ELSE Activated(profile[d]))

Settle(d) ==
    /\ d \in pending /\ pending' = pending \ {d}
    /\ \E k \in Settled(d) : kernel' = [kernel EXCEPT ![d] = k]
    /\ excused' = IF isStale(d) THEN excused \cup {d} ELSE excused
    /\ UNCHANGED <<setup, force, profile, job, leasing, warned, found, edited>>

(* waitForAddress: the address is there, ... *)
isThere(i) ==
    LET s == job.new[i] IN
    ~s.on \/ IF isStatic(s) THEN s.ip \in kernel[s.dev].perm ELSE kernel[s.dev].lease

AddressIsThere(i) ==
    /\ job # NoJob /\ job.waits = {i} /\ isThere(i)
    /\ job' = [job EXCEPT !.waits = {}]
    /\ UNCHANGED <<setup, force, kernel, profile, pending, leasing, warned, excused, found, edited>>

(* ... or the time is up: without a lease the helper goes on, without the  *)
(* static address it gives up.                                             *)
LeaseTimeout(i) ==
    /\ job # NoJob /\ job.waits = {i} /\ ~isThere(i) /\ ~isStatic(job.new[i])
    /\ IF job.new[i].dev \in pending THEN Spend("faults") ELSE UNCHANGED setup
    /\ job' = [job EXCEPT !.waits = {}]
    /\ UNCHANGED <<force, kernel, profile, pending, leasing, warned, excused, found, edited>>

AddressTimeout(i) ==
    /\ job # NoJob /\ job.waits = {i} /\ ~isThere(i) /\ isStatic(job.new[i])
    /\ IF job.new[i].dev \in pending THEN Spend("faults") ELSE UNCHANGED setup
    /\ Unsaved
    /\ UNCHANGED <<force, kernel, profile, pending, leasing, excused, found, edited>>

(* The helper is done; its answer lets the second pass begin. *)
Saved ==
    /\ job # NoJob /\ job.stage = "reconfigure" /\ job.waits = {} /\ job.rest = {}
    /\ job' = [job EXCEPT !.stage = "saved", !.rest = job.touch]
    /\ UNCHANGED <<setup, force, kernel, profile, pending, leasing, warned, excused, found, edited>>
-----------------------------------------------------------------------------
(* The request for a lease that ApplyInterfaceConfig leaves behind.        *)
AsksForLease(s, made) ==
    leasing' = IF job.stage = "ip" /\ made /\ s.on /\ s.type = "dhcp"
               THEN leasing \cup {[dev |-> s.dev, wan |-> s.zone = "WAN", late |-> FALSE]}
               ELSE leasing

(* The second pass, for one card: the ip commands if the profiles could    *)
(* not do it, and in any case no default route via an internal card.       *)
SecondPass(i) ==
    LET s == job.new[i]
        outcomes == IF job.stage = "ip" THEN ApplyInterfaceConfig(kernel[s.dev], s, isVLAN(s.dev))
                    ELSE {kernel[s.dev]}
    IN
    /\ job # NoJob /\ job.stage \in {"ip", "saved"} /\ i \in job.rest
    /\ \E k \in outcomes : kernel' = [kernel EXCEPT ![s.dev] = Cleared(k, s, job.new)]
    /\ AsksForLease(s, TRUE)
    /\ job' = [job EXCEPT !.rest = @ \ {i}]
    /\ UNCHANGED <<setup, force, profile, pending, warned, excused, found, edited>>

(* A command fails, which is only logged.                                  *)
SecondPassFails(i) ==
    LET s == job.new[i]
        outcomes == IF job.stage = "ip" THEN ApplyFails(kernel[s.dev], s, isVLAN(s.dev))
                    ELSE {kernel[s.dev]}
    IN
    /\ job # NoJob /\ job.stage \in {"ip", "saved"} /\ i \in job.rest /\ Spend("faults")
    /\ \E k \in outcomes : /\ \E after \in {k, Cleared(k, s, job.new)} : kernel' = [kernel EXCEPT ![s.dev] = after]
                          /\ AsksForLease(s, k.exists)
    /\ job' = [job EXCEPT !.rest = @ \ {i}]
    /\ excused' = excused \cup {s.dev}
    /\ UNCHANGED <<force, profile, pending, warned, found, edited>>

(* The interfaces that are gone from the configuration are taken down,     *)
(* even if their card has been given to another one, but for those that    *)
(* this fails for; the application ends.                                   *)
Finish(fails) ==
    LET removed == DevicesOf(job.prev, Ids(job.prev) \ Ids(job.new)) IN
    /\ job # NoJob /\ job.stage \in {"ip", "saved"} /\ job.rest = {}
    /\ fails \subseteq removed /\ IF fails = {} THEN UNCHANGED setup ELSE Spend("faults")
    /\ kernel' = [d \in Devices |-> IF d \in removed \ fails THEN Deconfigured(kernel[d], isVLAN(d)) ELSE kernel[d]]
    /\ force' = job.new /\ job' = NoJob
    /\ excused' = (excused \ removed) \cup (removed \ Unused(job.new)) \cup fails
    /\ UNCHANGED <<profile, pending, leasing, warned, found, edited>>

(* handleRenewDHCP: of the configuration in force, without the engine's    *)
(* lock, but not before the first application has made way for the API.    *)
RenewDHCP(i) ==
    /\ force[i] # Absent /\ force[i].on /\ force[i].type = "dhcp"
    /\ job # NoJob => job.prev # NoConfig
    /\ Spend("renews")
    /\ leasing' = leasing \cup {[dev |-> force[i].dev, wan |-> force[i].zone = "WAN", late |-> job # NoJob]}
    /\ UNCHANGED <<force, kernel, profile, job, pending, warned, excused, found, edited>>

(* runDHClientOnce with dhclient, which brings the card up; whatever it    *)
(* answers, only the WAN keeps a default route.                            *)
Leasing(k, wan, answered) ==
    LET up == [k EXCEPT !.up = TRUE, !.lease = @ \/ answered] IN
    IF ~wan THEN RemoveDefaultRoute(up)
    ELSE IF answered THEN [up EXCEPT !.route = FromISP] ELSE up

DHClientEnds(r, answered) ==
    /\ ~HasBackend /\ r \in leasing /\ kernel[r.dev].exists
    /\ kernel' = [kernel EXCEPT ![r.dev] = Leasing(@, r.wan, answered)]
    /\ leasing' = leasing \ {r}
    /\ excused' = IF r.late THEN excused \cup {r.dev} ELSE excused
    /\ UNCHANGED <<setup, force, profile, job, pending, warned, found, edited>>

DHClientFails(r) ==
    /\ ~HasBackend /\ r \in leasing /\ ~kernel[r.dev].exists
    /\ leasing' = leasing \ {r}
    /\ UNCHANGED <<setup, force, kernel, profile, job, pending, warned, excused, found, edited>>

(* runDHClientOnce with the helper: networkctl asks for a lease where the  *)
(* profile says DHCP; NetworkManager applies the profile once more.        *)
HelperRenews(r) ==
    /\ HasBackend /\ r \in leasing /\ ~HelperBusy
    /\ leasing' = leasing \ {r}
    /\ IF ByNetworkd
       THEN /\ pending' = pending
            /\ kernel' = IF /\ kernel[r.dev].up /\ r.dev \notin pending
                            /\ profile[r.dev] # Absent /\ profile[r.dev].on /\ profile[r.dev].ip = NoAddr
                         THEN [kernel EXCEPT ![r.dev].lease = TRUE,
                                             ![r.dev].route = IF profile[r.dev].route = FromISP THEN FromISP ELSE @]
                         ELSE kernel
       ELSE /\ pending' = IF profile[r.dev] = Absent THEN pending ELSE pending \cup {r.dev}
            /\ UNCHANGED kernel
    /\ excused' = IF (r.late \/ isStale(r.dev)) /\ kernel' # kernel THEN excused \cup {r.dev} ELSE excused
    /\ UNCHANGED <<setup, force, profile, job, warned, found, edited>>

(* Something else has its way with a card. *)
Drift(d) ==
    /\ kernel[d].exists /\ Spend("drifts")
    /\ \E k \in { Down(kernel[d]),
                  [kernel[d] EXCEPT !.up = TRUE, !.perm = {}, !.lease = TRUE, !.route = FromISP],
                  IF isVLAN(d) THEN Gone ELSE [kernel[d] EXCEPT !.lease = TRUE] } :
         k # kernel[d] /\ kernel' = [kernel EXCEPT ![d] = k]
    /\ excused' = excused \cup {d}
    /\ UNCHANGED <<force, profile, job, pending, leasing, warned, found, edited>>
-----------------------------------------------------------------------------
(* The first start: the seed points at the machine's cards and adopts what *)
(* they have.  There are no profiles of ours.                              *)
Seeded ==
    LET none == [i \in setup.ids |-> Absent]
        wanCards == Picks(setup.phys, found, {})
    IN  IF setup.host
        THEN \E d \in wanCards : \E s \in Adopted(d, "HOST", found[d]) : force = [none EXCEPT !["host"] = s]
        ELSE \E d \in wanCards : \E e \in Picks(setup.phys, found, {d}) :
             \E w \in Adopted(d, "WAN", found[d]), l \in Adopted(e, "LAN", found[e]) :
                force = [none EXCEPT !["wan"] = w, !["lan"] = l]

Init ==
    /\ setup \in Scenarios
    /\ found \in setup.found
    /\ kernel = found
    /\ Seeded
    /\ profile = [d \in Devices |-> Absent]
    /\ job = Booting
    /\ pending = {} /\ leasing = {}
    /\ warned = FALSE /\ excused = Unused(force) /\ edited = FALSE

(* Nothing is under way. *)
Quiet == AtRest /\ UNCHANGED vars

Next ==
    \/ \E cfg \in setup.configs, read \in BOOLEAN : Apply(cfg, read)
    \/ BootApply \/ AgentRestart \/ Reboot
    \/ HelperStarts \/ Write \/ WriteFails \/ Saved
    \/ \E fails \in SUBSET Devices : Finish(fails)
    \/ \E i \in setup.ids :
         \/ Reconfigure(i) \/ ReconfigureFails(i)
         \/ AddressIsThere(i) \/ LeaseTimeout(i) \/ AddressTimeout(i)
         \/ SecondPass(i) \/ SecondPassFails(i) \/ RenewDHCP(i)
    \/ \E r \in leasing : \/ \E answered \in BOOLEAN : DHClientEnds(r, answered)
                          \/ DHClientFails(r) \/ HelperRenews(r)
    \/ \E d \in Devices : Settle(d) \/ Drift(d)
    \/ Quiet

Spec == Init /\ [][Next]_vars
-----------------------------------------------------------------------------
(* What the kernel allows of a card, and that only an application that can *)
(* be saved is in the hands of the helper.                                 *)
TypeOK ==
    /\ kernel \in [Devices -> Cards(setup)]
    /\ \A d \in Devices : CardOK(kernel[d], d \in setup.phys)
    /\ profile \in [Devices -> Profiles(setup) \cup {Absent}]
    /\ force \in Configs(setup)
    /\ job \in Jobs(setup) \cup {NoJob}
    /\ job # NoJob => job.touch \subseteq Ids(job.new) /\ job.rest \subseteq job.touch
    /\ HelperBusy => HasBackend
    /\ pending \subseteq Devices /\ excused \subseteq Devices
    /\ leasing \subseteq [dev : Devices, wan : BOOLEAN, late : BOOLEAN]
    /\ warned \in BOOLEAN /\ edited \in BOOLEAN

(* A card that is switched off is down.                                    *)
OffIsDown(s) == ~s.on => ~kernel[s.dev].up

(* A card is as its setting says.  OffIsDown does not hold in two cases: a *)
(* VLAN that is switched off has no profile, so that networkd is not told  *)
(* to take it down, and NetworkManager activates what is switched off.     *)
Follows(s) ==
    LET k == kernel[s.dev] IN
    IF ~s.on THEN OffIsDown(s) \/ (HasBackend /\ (isVLAN(s.dev) <=> ByNetworkd))
    ELSE /\ k.exists /\ k.up
         /\ isStatic(s) => k.perm \in {{s.ip}, found[s.dev].perm} /\ s.ip \in k.perm /\ ~k.lease
         /\ s.type = "dhcp" => k.perm = {}
         /\ ~CarriesDefaultRoute(s, force) => k.route = NoRoute

(* A card that has come with one static address still has it, and one that *)
(* has come with a lease has got no other address.                         *)
TakenOver(d) ==
    (/\ found[d].up /\ \A a, b \in found[d].perm : a = b
     /\ found[d].perm # {} => ~found[d].lease) => kernel[d].perm = found[d].perm

(* Whatever way it went - by profile or by ip commands, first application, *)
(* trial, return, reboot or a new start of the agent that finds the cards  *)
(* in any state - when all is quiet the cards are as the configuration in  *)
(* force says, with no address too many and no default route inside; a     *)
(* card that was removed has no static address any more; and the first     *)
(* configuration says what the machine already had.                        *)
QuietCards ==
    /\ \A i \in Ids(force) : force[i].dev \notin excused =>
         Follows(force[i]) /\ (~edited => TakenOver(force[i].dev))
    /\ \A d \in Unused(force) \ excused : kernel[d].perm = {}

(* The owner of the network works on its own, but once the helper has      *)
(* answered, and the services are restarted, the static addresses that     *)
(* they bind to are there.                                                 *)
BoundInTime ==
    \A i \in job.touch :
        job.new[i].on /\ isStatic(job.new[i]) /\ job.new[i].dev \notin excused =>
            job.new[i].ip \in kernel[job.new[i].dev].perm

CardsFollow ==
    /\ AtRest => QuietCards
    /\ job # NoJob /\ (job.stage = "saved" \/ (job.stage = "ip" /\ job.rest = {})) => BoundInTime

(* What is on disk for the next boot is the configuration in force, unless *)
(* a warning says that it could not be saved: a Write that failed, halfway *)
(* or not at all, is made good by the next one, whatever that touches.     *)
ProfilesFollow ==
    job = NoJob /\ HasBackend /\ ~warned =>
        /\ \A i \in Ids(force) :
             force[i].on \/ ~isVLAN(force[i].dev) => profile[force[i].dev] = Rendered(force[i], force)
        /\ ByNetworkd => \A d \in Devices \ DevicesOf(force, Ids(force)) : profile[d] = Absent
-----------------------------------------------------------------------------
(* What the code says and does not keep (README, section 8); each for an   *)
(* instance in which nothing else disturbs a card.                         *)

(* What is switched off is down (netplan.go:83-86).                        *)
SwitchedOffIsDown == AtRest => \A i \in Ids(force) : OffIsDown(force[i])

(* In host mode the one card keeps the default route (adapter.go:260-262). *)
HostKeepsRoute ==
    AtRest => \A i \in Ids(force) :
        LET s == force[i] IN
        s.on /\ s.type = "dhcp" /\ CarriesDefaultRoute(s, force) /\ kernel[s.dev].lease
          => kernel[s.dev].route # NoRoute

(* A machine with a static address stays as it is (store.go:1193-1199).    *)
RouteTakenOver ==
    AtRest /\ ~edited => \A i \in Ids(force) :
        LET d == force[i].dev IN
        found[d].perm # {} /\ ~found[d].lease /\ found[d].route # NoRoute => kernel[d].route # NoRoute

(* No default route via an internal card, whatever way (engine.go:489).    *)
NoRouteInside ==
    AtRest => \A i \in Ids(force) :
        force[i].on /\ ~CarriesDefaultRoute(force[i], force) => kernel[force[i].dev].route = NoRoute

(* Profiles of removed interfaces go as well (engine.go:506-507).          *)
NoProfileLeft ==
    job = NoJob /\ ~warned => \A d \in Unused(force) : profile[d] = Absent

(* If it could not be saved, it holds now all the same (engine.go:472-473).*)
HoldsNow ==
    AtRest /\ warned => \A i \in Ids(force) : force[i].on =>
        kernel[force[i].dev].perm = IF isStatic(force[i]) THEN {force[i].ip} ELSE {}

(* What does not hold is warned of (engine.go:92-97).                      *)
WarnedOf ==
    AtRest /\ HasBackend /\ ~warned => \A i \in Ids(force) :
        force[i].on /\ isStatic(force[i]) => force[i].ip \in kernel[force[i].dev].perm

(* A change of one interface does not touch the others (engine.go:371-372).*)
OthersUntouched ==
    [][\A cfg \in setup.configs, i \in Ids(force) :
         Apply(cfg, TRUE) /\ cfg[i] = force[i] => i \notin job'.touch]_vars
=============================================================================
