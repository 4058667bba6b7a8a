------------------------------ MODULE Services ------------------------------
(***************************************************************************)
(* The services behind the configuration: what applyBackends              *)
(* (pkg/engine/engine.go) and its adapters (pkg/adapter/...) do to files   *)
(* and units, one file and one systemctl call at a time; ReapplyDNSOnly,   *)
(* which does the DNS part without the engine's mutex; the restart         *)
(* request and the failure watcher of pkg/api/services.go.                 *)
(*                                                                         *)
(* A configuration gives each service a record: on, and what distinguishes *)
(* it (version).  For DNS: whether a block list or static records are      *)
(* configured; for IDS: whether its interface is disabled.  The content    *)
(* of a main file is that record.                                          *)
(*                                                                         *)
(* External: systemd and ip.  A unit that starts reads its files; a unit   *)
(* may fail at any start and at any time; the machine may start units      *)
(* before the agent has configured the interfaces.                         *)
(***************************************************************************)
EXTENDS Naturals, Sequences, FiniteSets, RuleSelection

CONSTANTS
    Orders,     \* the orders in which a Go map may be written
    Scenarios   \* bounds of a run: services, configurations, applies, lists fetched,
                \* requests, rule requests, disturbances

Order == <<"dhcp", "wireguard", "openvpn", "dns", "syslog", "ntp", "ids", "sni">>
AllServices == { Order[i] : i \in 1 .. Len(Order) }

(* The files of a service, in the order of writing. *)
PartOrder == <<"main", "blocklist", "hosts">>
PartNames == { PartOrder[i] : i \in 1 .. Len(PartOrder) }

(* The first of a set, in such an order. *)
First(order, S) ==
    order[CHOOSE i \in 1 .. Len(order) : /\ order[i] \in S
                                         /\ \A j \in 1 .. (i - 1) : order[j] \notin S]

(* Lists and static records are settings of DNS; only the interface of the *)
(* IDS can be disabled.                                                    *)
Setting == [on : BOOLEAN, version : Nat, list : BOOLEAN, hosts : BOOLEAN, down : BOOLEAN]

ConfigFits(c, services) ==
    /\ c \in [services -> Setting]
    /\ \A s \in services : /\ c[s].list \/ c[s].hosts => s = "dns"
                           /\ c[s].down => s = "ids"

Scenario(configs) ==
    [services : SUBSET AllServices, configs : {configs}, applies : Nat, lists : Nat,
     requests : Nat, rules : Nat, ruleSteps : BOOLEAN, faults : Nat, watch : BOOLEAN]

ASSUME ServicesConstants ==
    \A sc \in Scenarios : /\ sc \in Scenario(sc.configs)
                          /\ \A c \in sc.configs : ConfigFits(c, sc.services)

(* managedServices, without the agent itself. *)
Managed == {"dns", "dhcp", "ids", "sni", "openvpn", "syslog"}

(* The services whose error becomes a warning. *)
Soft == {"ntp", "ids"}

VARIABLES
    running,    \* Store.runningCfg
    trial,      \* <<c>> while c is applied and not confirmed, else <<>>
    file,       \* [service -> [part -> content]]
    unit,       \* [service -> [state, runs, deaf, falls]]
    eng,        \* the apply in progress
    ref,        \* ReapplyDNSOnly in progress
    warned,     \* Engine.degradedBackends
    feed,       \* the cached block list
    agent,      \* "up" or "down"
    request,    \* a restart request that has passed its check
    seen,       \* the watcher's prev
    told,       \* history: notifications per service
    blind,      \* history: answers "unknown" and new watchers, per service
    spoiled,    \* history: services that something besides an apply has changed, or an
                \* apply has left half done, since the last apply that completed them
    left        \* what remains of the scenario

applyVars == <<running, trial, eng, warned>>
watchVars == <<seen, told, blind>>
otherVars == <<feed, agent, request>>
vars == <<running, trial, file, unit, eng, ref, warned, feed, agent, request, seen, told, blind,
          spoiled, left, ruleVars>>

Svcs == left.services
Configs == left.configs
Nothing == [p \in {} |-> 0]
Disturb == left.faults > 0 /\ left' = [left EXCEPT !.faults = @ - 1]

-----------------------------------------------------------------------------
(* applyBackends leaves DHCP and the IDS alone in host mode: a scenario in  *)
(* host mode has only these services.                                      *)
HostServices == AllServices \ {"dhcp", "ids"}

(* The adapters: which files of the service are written and in which order, *)
(* whether they are removed, and what happens to the unit then:            *)
(* "needed" is RestartIfNeeded, "always" a restart, reload or set-up       *)
(* whatever has changed, "none" leaves the unit alone.                     *)

Plan(write, unitStep) == [write |-> write, remove |-> FALSE, unit |-> unitStep]
RemoveThen(unitStep) == [write |-> {}, remove |-> TRUE, unit |-> unitStep]

Dhcp(c, atBoot) == Plan({"main"}, IF atBoot THEN "always" ELSE "needed")

Wireguard(c) == IF c.on THEN Plan({"main"}, "always") ELSE Plan({}, "stop")

Openvpn(c) == IF c.on THEN Plan({"main"}, "always") ELSE Plan({}, "stop")

Parts(c) == {"main"} \cup (IF c.list THEN {"blocklist"} ELSE {})
                     \cup (IF c.hosts THEN {"hosts"} ELSE {})

Dns(c) == IF c.on THEN Plan(Parts(c), "needed") ELSE Plan({}, "stop")

Syslog(c) ==
    IF c.on THEN Plan({"main"}, "always")
    ELSE IF file["syslog"] = Nothing THEN Plan({}, "none") ELSE RemoveThen("always")

Ntp(c) ==
    IF c.on THEN Plan({"main"}, "needed")
    ELSE IF file["ntp"] = Nothing THEN Plan({}, "none") ELSE RemoveThen("always")

Ids(c) == IF c.on /\ ~c.down THEN Plan({"main"}, "needed") ELSE Plan({}, "stop")

Sni(c) == IF c.on THEN Plan({"main"}, "needed") ELSE Plan({}, "stop")

PlanOf(s, c, atBoot) ==
    CASE s = "dhcp" -> Dhcp(c, atBoot)
      [] s = "wireguard" -> Wireguard(c)
      [] s = "openvpn" -> Openvpn(c)
      [] s = "dns" -> Dns(c)
      [] s = "syslog" -> Syslog(c)
      [] s = "ntp" -> Ntp(c)
      [] s = "ids" -> Ids(c)
      [] s = "sni" -> Sni(c)

(* GenerateBlocklistConfig walks a map. *)
BlocklistContents(domains) == [domains : {domains}, order : Orders]

(* Writing a file creates or replaces it. *)
Put(files, p, content) ==
    [q \in DOMAIN files \cup {p} |-> IF q = p THEN content ELSE files[q]]

Contents(p, c, domains) == IF p = "blocklist" THEN BlocklistContents(domains) ELSE {c}

(* A unit reads the files of its directory, those of DNS all: unbound.conf *)
(* includes the whole of it.                                               *)
Active(s) == unit[s].state = "active"
Stale(u, files) == u.state = "active" /\ (u.runs # files \/ u.deaf)

Runs(s, state) ==
    [unit EXCEPT ![s] = [state |-> state,
                         runs |-> IF state = "active" THEN file[s] ELSE Nothing,
                         deaf |-> FALSE,
                         falls |-> @.falls + IF state = "failed" THEN 1 ELSE 0]]

-----------------------------------------------------------------------------
(* A worker: an apply, or ReapplyDNSOnly.  It begins a service, writes its  *)
(* files, and then turns to the unit.                                      *)

NoCfg == [s \in {} |-> 0]
Off == [kind |-> "off", cfg |-> NoCfg, todo |-> {}, at |-> "begin", plan |-> Plan({}, "none"),
        changed |-> FALSE, domains |-> 0, warnings |-> {}]

Work(kind, c, services) == [Off EXCEPT !.kind = kind, !.cfg = c, !.todo = services]

Service(w) == First(Order, w.todo)

ChangedStays(w) == [w EXCEPT !.todo = @ \ {Service(w)}, !.at = "begin"]

NextService(w) == [w EXCEPT !.todo = @ \ {Service(w)}, !.at = "begin", !.changed = FALSE]

Begun(w) ==
    [w EXCEPT !.at = "files", !.domains = feed,
              !.plan = PlanOf(Service(w), w.cfg[Service(w)], w.kind = "boot")]

(* A file of the plan is written; what the write reports is accumulated.   *)
ChangedByThis(w, different) == different

Changed(w, different) == w.changed \/ different

FileWritten(w, w2) ==
    LET s == Service(w)
        p == First(PartOrder, w.plan.write)
    IN  /\ w.at = "files" /\ w.plan.write # {}
        /\ \E content \in Contents(p, w.cfg[s], w.domains) :
             /\ file' = [file EXCEPT ![s] = Put(@, p, content)]
             /\ w2 = [w EXCEPT !.plan.write = @ \ {p},
                               !.changed = Changed(w, file'[s] # file[s])]

FilesRemoved(w, w2) ==
    /\ w.at = "files" /\ w.plan.write = {}
    /\ file' = IF w.plan.remove THEN [file EXCEPT ![Service(w)] = Nothing] ELSE file
    /\ w2 = [w EXCEPT !.at = "unit"]

(* RestartIfNeeded. *)
Restarts(w) ==
    \/ w.plan.unit = "always"
    \/ w.plan.unit = "needed" /\ (w.changed \/ ~Active(Service(w)))

(* A restart that reports an error: the unit has failed, or the restart was *)
(* refused and the unit goes on as it was, or the context was over and      *)
(* systemd starts the unit all the same.                                   *)
AfterFailedRestart(s) == {Runs(s, "failed"), unit, Runs(s, "active")}

(* A stopped unit keeps its failure; only the IDS adapter resets it.       *)
Stopped(s) ==
    IF unit[s].state = "failed" /\ s \notin {"ids", "wireguard"} THEN unit ELSE Runs(s, "inactive")

UnitDone(w) ==
    /\ w.at = "unit"
    /\ unit' = IF w.plan.unit = "stop" THEN Stopped(Service(w))
               ELSE IF Restarts(w) THEN Runs(Service(w), "active") ELSE unit

(* The clean end of a service, unless the unit was left alone although its *)
(* files are newer, or the files are not those of this apply.              *)
Settled(s) ==
    LET disturbed == \/ Stale(unit'[s], file[s])
                     \/ s = "dns" /\ (ref # Off \/ eng.domains # feed)
                     \/ /\ unit'[s].state = "active" /\ file[s] # Nothing
                        /\ \E p \in Parts(eng.cfg[s]) \ {"blocklist"} : file[s][p] # eng.cfg[s]
    IN  spoiled' = IF disturbed THEN spoiled ELSE spoiled \ {s}

-----------------------------------------------------------------------------
(* The apply.  SafeApply has the timer, the candidate and what a second     *)
(* apply does to an unconfirmed one; here is one apply at a time.          *)

(* main starts everything else after the boot apply. *)
Serving == agent = "up" /\ eng.kind # "boot"

Begin(kind, c) == eng = Off /\ agent = "up" /\ eng' = Work(kind, c, Svcs)

OverlapsRefresh == spoiled' = spoiled \cup (IF ref # Off THEN {"dns"} ELSE {})

Apply(c) ==
    /\ left.applies > 0 /\ left' = [left EXCEPT !.applies = @ - 1]
    /\ trial = <<>> /\ Begin("trial", c) /\ OverlapsRefresh
    /\ UNCHANGED <<running, trial, file, unit, ref, warned, otherVars, watchVars, ruleVars>>

Rollback ==
    /\ trial # <<>>
    /\ Begin("rollback", running) /\ OverlapsRefresh
    /\ UNCHANGED <<running, trial, file, unit, ref, warned, otherVars, watchVars, left, ruleVars>>

Confirm ==
    /\ trial # <<>> /\ eng = Off /\ agent = "up"
    /\ running' = trial[1] /\ trial' = <<>>
    /\ UNCHANGED <<file, unit, eng, ref, warned, otherVars, watchVars, spoiled, left, ruleVars>>

EngBegin ==
    /\ eng.todo # {} /\ eng.at = "begin" /\ eng' = Begun(eng)
    /\ UNCHANGED <<running, trial, file, unit, ref, warned, otherVars, watchVars, spoiled, left,
                   ruleVars>>

EngFile ==
    /\ eng.todo # {} /\ (FileWritten(eng, eng') \/ FilesRemoved(eng, eng'))
    /\ UNCHANGED <<running, trial, unit, ref, warned, otherVars, watchVars, spoiled, left,
                   ruleVars>>

EngUnit ==
    /\ eng.todo # {} /\ UnitDone(eng) /\ eng' = NextService(eng)
    /\ Settled(Service(eng))
    /\ UNCHANGED <<running, trial, file, ref, warned, otherVars, watchVars, left, ruleVars>>

(* A stop that fails is ignored. *)
EngStopFails ==
    /\ eng.todo # {} /\ eng.at = "unit" /\ eng.plan.unit = "stop" /\ Active(Service(eng))
    /\ Disturb /\ eng' = NextService(eng) /\ spoiled' = spoiled \cup {Service(eng)}
    /\ UNCHANGED <<running, trial, file, unit, ref, warned, otherVars, watchVars, ruleVars>>

(* applyBackends is over: its warnings replace those of the last apply.    *)
EngDone ==
    /\ eng # Off /\ eng.todo = {}
    /\ warned' = eng.warnings
    /\ trial' = IF eng.kind = "trial" THEN <<eng.cfg>>
                ELSE IF eng.kind = "rollback" THEN <<>> ELSE trial
    /\ eng' = Off
    /\ UNCHANGED <<running, file, unit, ref, otherVars, watchVars, spoiled, left, ruleVars>>

(* A write fails, or a restart reports an error.  An apply that fails is   *)
(* followed by the running configuration, everything else is given up.  A  *)
(* unit left on older files stays on them: the next apply sees a file that *)
(* has not changed and a unit that is active.                              *)
LeftStale(s) == IF Stale(unit'[s], file[s]) THEN {s} ELSE {}

EngError ==
    LET s == Service(eng) IN
    /\ eng.todo # {} /\ Disturb
    /\ \/ eng.at = "files" /\ eng.plan.write # {} /\ UNCHANGED unit
       \/ eng.at = "unit" /\ Restarts(eng) /\ unit' \in AfterFailedRestart(s)
    /\ IF s \in Soft
       THEN /\ eng' = [NextService(eng) EXCEPT !.warnings = @ \cup {s}]
            /\ spoiled' = spoiled \cup LeftStale(s) /\ UNCHANGED <<trial, warned>>
       ELSE /\ warned' = eng.warnings
            /\ IF eng.kind = "trial"
               THEN eng' = Work("restore", running, Svcs) /\ spoiled' = spoiled \cup LeftStale(s)
               ELSE eng' = Off /\ spoiled' = spoiled \cup eng.todo
            /\ trial' = IF eng.kind \in {"rollback", "trial"} THEN <<>> ELSE trial
    /\ UNCHANGED <<running, file, ref, otherVars, watchVars, ruleVars>>

-----------------------------------------------------------------------------
(* RefreshDNSBlocklist and ReapplyDNSOnly. *)

(* The list is fetched and cached; its status is stored, or that fails.    *)
Refresh(stored) ==
    /\ ref = Off /\ Serving /\ "dns" \in Svcs
    /\ left.lists > 0 /\ feed' = feed + 1
    /\ IF stored THEN left' = [left EXCEPT !.lists = @ - 1]
       ELSE left.faults > 0 /\ left' = [left EXCEPT !.lists = @ - 1, !.faults = @ - 1]
    /\ ref' = IF stored /\ running["dns"].on THEN Work("refresh", running, {"dns"}) ELSE Off
    /\ spoiled' = spoiled \cup (IF ~stored \/ eng # Off \/ trial # <<>> THEN {"dns"} ELSE {})
    /\ UNCHANGED <<applyVars, file, unit, agent, request, watchVars, ruleVars>>

RefBegin ==
    /\ ref.todo # {} /\ ref.at = "begin" /\ ref' = Begun(ref)
    /\ UNCHANGED <<applyVars, file, unit, otherVars, watchVars, spoiled, left, ruleVars>>

RefFile ==
    /\ ref.todo # {} /\ (FileWritten(ref, ref') \/ FilesRemoved(ref, ref'))
    /\ UNCHANGED <<applyVars, unit, otherVars, watchVars, spoiled, left, ruleVars>>

RefUnit ==
    /\ ref.todo # {} /\ UnitDone(ref) /\ ref' = Off
    /\ UNCHANGED <<applyVars, file, otherVars, watchVars, spoiled, left, ruleVars>>

RefError ==
    /\ ref.todo # {} /\ Disturb
    /\ \/ ref.at = "files" /\ ref.plan.write # {} /\ UNCHANGED unit
       \/ ref.at = "unit" /\ Restarts(ref) /\ unit' \in AfterFailedRestart("dns")
    /\ ref' = Off /\ spoiled' = spoiled \cup {"dns"}
    /\ UNCHANGED <<applyVars, file, otherVars, watchVars, ruleVars>>

-----------------------------------------------------------------------------
(* handleServiceRestart: the check against the running configuration ...   *)
ServiceConfigured(s) == running[s].on

RestartRequest(s) ==
    /\ s \in Managed \cap Svcs /\ Serving /\ request = {}
    /\ left.requests > 0 /\ left' = [left EXCEPT !.requests = @ - 1]
    /\ ServiceConfigured(s) /\ request' = {s}
    /\ UNCHANGED <<applyVars, file, unit, ref, feed, agent, watchVars, spoiled, ruleVars>>

(* ... and the restart, whatever has happened since, unless it is refused. *)
Restarted ==
    \E s \in request :
      /\ unit' \in {Runs(s, "active"), unit} /\ request' = {}
      /\ spoiled' = spoiled \cup (IF running[s].on /\ ~running[s].down /\ trial = <<>> /\ eng = Off
                                  THEN {} ELSE {s})
      /\ UNCHANGED <<applyVars, file, ref, feed, agent, watchVars, left, ruleVars>>

-----------------------------------------------------------------------------
(* StartServiceFailureWatcher: a reading of one unit, and one that gets no *)
(* answer in time.                                                         *)
NotRemembered(s, state) == UNCHANGED seen

Remembered(s, state) == seen' = [seen EXCEPT ![s] = state]

Poll(s) ==
    /\ Serving /\ s \in Managed /\ left.watch
    /\ seen[s] # unit[s].state
    /\ told' = [told EXCEPT ![s] = @ + IF unit[s].state = "failed" THEN 1 ELSE 0]
    /\ Remembered(s, unit[s].state)
    /\ UNCHANGED <<applyVars, file, unit, ref, otherVars, blind, spoiled, left, ruleVars>>

PollFails(s) ==
    /\ Serving /\ s \in Managed /\ left.watch /\ Disturb
    /\ Remembered(s, "unknown") /\ blind' = [blind EXCEPT ![s] = @ + 1]
    /\ UNCHANGED <<applyVars, file, unit, ref, otherVars, told, spoiled, ruleVars>>

-----------------------------------------------------------------------------
(* The environment. *)

UnitFails(s) ==
    /\ Active(s) /\ Disturb
    /\ unit' = Runs(s, "failed") /\ spoiled' = spoiled \cup {s}
    /\ UNCHANGED <<applyVars, file, ref, otherVars, watchVars, ruleVars>>

(* The agent ends, alone or with the machine; what a worker has written    *)
(* for a unit that runs on stays unread.                                   *)
Exit(reboot) ==
    /\ agent = "up" /\ Disturb
    /\ agent' = "down" /\ eng' = Off /\ ref' = Off /\ request' = {} /\ trial' = <<>>
    /\ unit' \in IF reboot
                 THEN { [s \in Svcs |->
                          IF s = "wireguard" \/ ~up
                          THEN [unit[s] EXCEPT !.state = "inactive", !.runs = Nothing]
                          ELSE [unit[s] EXCEPT !.state = "active", !.runs = file[s],
                                               !.deaf = (s = "dhcp")]] : up \in BOOLEAN }
                 ELSE {unit}
    /\ spoiled' = { s \in Svcs : Stale(unit'[s], file[s]) \/ (s = "dns" /\ ref # Off) }
    /\ CallsEnd(reboot)
    /\ UNCHANGED <<running, file, warned, feed, watchVars>>

(* main: the store is loaded, the boot apply, a new watcher.               *)
Start ==
    /\ agent = "down" /\ agent' = "up"
    /\ eng' = Work("boot", running, Svcs)
    /\ warned' = {}
    /\ seen' = [s \in Svcs |-> "none"] /\ blind' = [s \in Svcs |-> blind[s] + 1]
    /\ LoadSelection
    /\ UNCHANGED <<running, trial, file, unit, ref, feed, request, told, spoiled, left>>

(* The requests about IDS rules, and what fails of them. *)
RuleRequest ==
    /\ left.ruleSteps
    /\ \/ /\ Serving /\ left.rules > 0 /\ left' = [left EXCEPT !.rules = @ - 1]
          /\ \E h \in Handlers, r \in Rules, off \in BOOLEAN : Ask(h, r, off)
       \/ Serving /\ (LoadCandidate \/ PutCandidate \/ CommitSelection) /\ UNCHANGED left
       \/ Disturb /\ RuleFailures
    /\ UNCHANGED <<applyVars, file, unit, ref, otherVars, watchVars, spoiled>>

RuleStep ==
    /\ left.ruleSteps /\ (RuleSteps \/ DailyTimer)
    /\ UNCHANGED <<applyVars, file, unit, ref, otherVars, watchVars, spoiled, left>>

Init ==
    /\ left \in Scenarios
    /\ running \in left.configs /\ trial = <<>>
    /\ file = [s \in Svcs |-> Nothing]
    /\ unit = [s \in Svcs |-> [state |-> "inactive", runs |-> Nothing, deaf |-> FALSE, falls |-> 0]]
    /\ eng = Off /\ ref = Off /\ warned = {}
    /\ feed = 0 /\ agent = "down" /\ request = {}
    /\ seen = [s \in Svcs |-> "none"]
    /\ told = [s \in Svcs |-> 0] /\ blind = [s \in Svcs |-> 0]
    /\ spoiled = {}
    /\ RulesInit

Next ==
    \/ (\E c \in Configs : Apply(c)) \/ Rollback \/ Confirm
    \/ EngBegin \/ EngFile \/ EngUnit \/ EngStopFails \/ EngDone \/ EngError
    \/ (\E stored \in BOOLEAN : Refresh(stored)) \/ RefBegin \/ RefFile \/ RefUnit \/ RefError
    \/ (\E s \in Svcs : RestartRequest(s)) \/ Restarted
    \/ \E s \in Svcs : Poll(s) \/ PollFails(s) \/ UnitFails(s)
    \/ (\E reboot \in BOOLEAN : Exit(reboot)) \/ Start
    \/ RuleRequest \/ RuleStep

Spec == Init /\ [][Next]_vars

(* A handler goes on, the timer fires, the unit runs and does not fail for *)
(* ever (a run that fails is one of the bounded disturbances).             *)
FairSpec ==
    /\ Spec
    /\ \A h \in Handlers : WF_vars(RuleStep /\ calls'[h] # calls[h])
    /\ WF_vars(RuleStep /\ update' # update)

-----------------------------------------------------------------------------
Kinds == {"off", "trial", "rollback", "restore", "boot", "refresh"}
WorkerOK(w) ==
    /\ w.kind \in Kinds /\ w.at \in {"begin", "files", "unit"}
    /\ w.at = "begin" => ~w.changed
    /\ w.todo \subseteq Svcs /\ w.changed \in BOOLEAN
    /\ w.domains \in 0 .. feed /\ w.warnings \subseteq Soft

(* The shape of the workers, units and records. *)
TypeOK ==
    /\ running \in Configs /\ Len(trial) <= 1 /\ (trial # <<>> => trial[1] \in Configs)
    /\ WorkerOK(eng) /\ WorkerOK(ref)
    /\ \A s \in Svcs : /\ unit[s].state \in {"active", "inactive", "failed"}
                        /\ DOMAIN file[s] \cup DOMAIN unit[s].runs
                             \subseteq {"main", "blocklist", "hosts"}
    /\ warned \subseteq Soft /\ spoiled \subseteq Svcs /\ request \subseteq Svcs
    /\ agent \in {"up", "down"}
    /\ RulesTypeOK

(* The machine does what the configuration says.  With a service on, its   *)
(* unit runs, on the files of that configuration and the last list that    *)
(* was fetched; with a service off, it does not run, or not for us.        *)
ShouldRun(s, c) == s = "dhcp" \/ (c.on /\ ~c.down)

Follows(s, c) ==
    LET runs == unit[s].runs IN
    IF ShouldRun(s, c)
    THEN /\ Active(s) /\ ~unit[s].deaf
         /\ Parts(c) \subseteq DOMAIN runs /\ runs["main"] = c
         /\ c.list => runs["blocklist"].domains = feed
         /\ c.hosts => runs["hosts"] = c
    ELSE IF s \in {"syslog", "ntp"} THEN runs = Nothing ELSE ~Active(s)

InForce == IF trial = <<>> THEN running ELSE trial[1]
Quiet == agent = "up" /\ eng = Off /\ ref = Off /\ request = {}

(* Whenever nothing is in progress, after any sequence of applies, failed  *)
(* applies, restores, rollbacks, refreshes, restarts of the agent and of   *)
(* the machine, every service follows the configuration in force, or a     *)
(* warning names it, or something besides the applies is to blame.         *)
ServicesFollow ==
    Quiet => \A s \in Svcs \ (spoiled \cup warned) :
               Follows(s, InForce[s])

(* An apply does not interrupt a service that already runs what it should, *)
(* where the adapter restarts only if needed and no block list is written. *)
NoNeedlessRestart ==
    \A w \in {eng, ref} :
      w.todo # {} /\ w.at = "unit" /\ w.plan.unit = "needed" =>
        LET s == Service(w) IN
        Active(s) /\ unit[s].runs = file[s] /\ s \notin spoiled /\ ~w.cfg[s].list => ~w.changed

(* A failure is reported once: between two reports of a unit lie a second  *)
(* failure, a reading without an answer, or a restart of the agent.        *)
ToldOncePerFall == \A s \in Svcs : told[s] <= unit[s].falls + blind[s]

(* What an administrator switches off gets switched off in Suricata, even  *)
(* if the start of the update joined one that had read the older file, or  *)
(* was refused, or the agent ended before it: the daily run repairs that.  *)
(* Unless disable.conf was not written at all, handlers overlapped, or     *)
(* another selection was committed or loaded.                              *)
RulesCatchUp ==
    <>[](left.ruleSteps /\ Idle /\ ~crossed /\ ~replaced /\ ~unwritten => offRules = asked)

-----------------------------------------------------------------------------
(* What the comments say and the code does not do (README, section 8). *)

(* server.go:1421-1423 of pkg/api: changes are sent as deltas so that two  *)
(* concurrent administrators do not erase each other's choices.  The       *)
(* handler makes the change to a copy and stores the whole list.           *)
DeltasSurvive == Idle /\ ~replaced => selection = asked

(* rules.go:17-19 of pkg/adapter/suricata: disable.conf is regenerated from *)
(* the configuration at each apply.  Only a request about rules writes it. *)
RegeneratedAtApply ==
    [][eng # Off /\ eng' = Off /\ agent' = "up" /\ Idle => disableConf = selection]_vars

(* svc.go:14-16 of pkg/adapter/svc: a restart is called for only if the     *)
(* configuration has changed or the service does not run.  After a restart *)
(* that was refused, the service runs, with the older configuration.       *)
NoRestartMissed ==
    \A w \in {eng, ref} :
      w.todo # {} /\ w.at = "unit" /\ w.plan.unit = "needed" /\ ~Restarts(w) =>
        ~Stale(unit[Service(w)], file[Service(w)])

(* engine.go:632-635: at boot the confirmed configuration takes effect in  *)
(* all backends.  A service whose file was written, but which was not      *)
(* restarted when the agent ended, goes on with the older one.             *)
BootRestores ==
    [][eng.kind = "boot" /\ eng.todo = {} /\ eng' = Off /\ agent' = "up" =>
         \A s \in Svcs \ warned' :
           Active(s) /\ ShouldRun(s, running[s]) /\ unit[s].runs # Nothing =>
             unit[s].runs["main"] = running[s]]_vars

(* engine.go:757-759: the selection of the running configuration comes     *)
(* back when a put one is empty or has fewer rules.  Only when empty.      *)
FewerRulesComeBack ==
    [][page \subseteq selection /\ candSelection' # candSelection /\ selection' = selection
         => candSelection' = selection]_ruleVars

(* adapter.go:299-301 of pkg/adapter/dns: without a source the block list  *)
(* is not included.  Its file stays where unbound.conf includes it.        *)
NothingLeftIncluded ==
    Quiet /\ "dns" \in Svcs \ spoiled /\ Active("dns") =>
      DOMAIN unit["dns"].runs = Parts(InForce["dns"])

(* adapter.go:344-350 of pkg/adapter/dns: DNS stays up when nothing has    *)
(* changed.  The block list is written in the order of a map.              *)
NoNeedlessDNSRestart ==
    eng.todo # {} /\ eng.at = "unit" /\ Service(eng) = "dns" /\ eng.plan.unit = "needed"
      /\ ref = Off /\ "dns" \notin spoiled /\ Active("dns") /\ Follows("dns", eng.cfg["dns"])
      => ~eng.changed

(* services.go:191-196 of pkg/api: no restart starts a service that the    *)
(* configuration has off.  A trial, a disabled IDS interface, or an apply  *)
(* between check and restart lets one.                                     *)
OffStaysOff ==
    [][\A s \in request :
         request' = {} /\ agent' = "up" /\ ~Active(s) /\ unit'[s].state = "active"
           => ShouldRun(s, InForce[s])]_vars

=============================================================================
