--------------------------- MODULE Services_proofs ---------------------------
(***************************************************************************)
(* Proofs about the service backends, for any scenarios: any applies,      *)
(* refreshes, restart requests and failures, in any number.                *)
(*                                                                         *)
(* TypeCorrect       the state stays within its types;                     *)
(* ServicesFollowed  when nothing is in progress, every service follows    *)
(*                   the configuration in force, or is accounted for;      *)
(* RestartsNeeded    no service is restarted that runs what it should;     *)
(* ReportsOnce       a failure is reported once.                           *)
(*                                                                         *)
(* That a service follows is established one service at a time: FollowInv  *)
(* says it of those an apply has done with, and turns into the property    *)
(* when the apply is done.  A service is done with when its unit has been  *)
(* seen to; then the unit runs what the files say (FreshInv: a unit that   *)
(* does not is the next worker's to restart), and the files are those of   *)
(* the configuration (FilesInv: what is no longer in the plan is written). *)
(* Neither holds of a service that two workers write at a time; KindsInv   *)
(* says that these are DNS only, and spoiled.  For the restarts it takes   *)
(* that a change is one the unit does not run yet (ChangeInv), and for the *)
(* reports that the watcher is never ahead of the failures (ToldInv).      *)
(***************************************************************************)
EXTENDS Services, WellFoundedInduction, TLAPS

-----------------------------------------------------------------------------
(* The smaller of two numbers.                                             *)
Less == {ss \in Nat \X Nat : ss[1] < ss[2]}

(* What the choice of a least index rests on.                              *)
LEMMA LessIsWellFounded == IsWellFoundedOn(Less, Nat)
  BY NatLessThanWellFounded DEF OpToRel, Less

(* The first of a set in an order is one of the set, for the least index   *)
(* of an element exists.                                                   *)
LEMMA FirstIsIn ==
  ASSUME NEW V, NEW order \in Seq(V), NEW S,
         \E i \in 1 .. Len(order) : order[i] \in S
  PROVE  First(order, S) \in S
<1> DEFINE I == {i \in 1 .. Len(order) : order[i] \in S}
<1>1. I \subseteq Nat /\ I # {}
  OBVIOUS
<1>2. PICK m \in I : \A n \in I : <<n, m>> \notin Less
  <2> HIDE DEF I
  <2> QED
    BY <1>1, LessIsWellFounded, WFMin
<1>3. ASSUME NEW j \in 1 .. (m - 1) PROVE order[j] \notin S
  <2>1. j \in 1 .. Len(order) /\ j \in Nat /\ m \in Nat /\ j < m
    BY <1>2
  <2>2. <<j, m>> \in Less
    BY <2>1 DEF Less
  <2> QED
    BY <1>2, <2>1, <2>2
<1>4. \E i \in 1 .. Len(order) : /\ order[i] \in S
                                 /\ \A j \in 1 .. (i - 1) : order[j] \notin S
  BY <1>2, <1>3
<1> QED
  BY <1>4 DEF First

(* A worker with something to do has a service, ...                        *)
LEMMA ServiceIsNext ==
  ASSUME NEW S, S \subseteq AllServices, S # {}
  PROVE  First(Order, S) \in S
<1>1. Order \in Seq(AllServices)
  BY DEF Order, AllServices
<1>2. \E i \in 1 .. Len(Order) : Order[i] \in S
  BY DEF AllServices
<1> QED
  BY <1>1, <1>2, FirstIsIn

(* ... and one with something to write has a part.                         *)
LEMMA PartIsNext ==
  ASSUME NEW S, S \subseteq PartNames, S # {}
  PROVE  First(PartOrder, S) \in S
<1>1. PartOrder \in Seq(PartNames)
  BY DEF PartOrder, PartNames
<1>2. \E i \in 1 .. Len(PartOrder) : PartOrder[i] \in S
  BY DEF PartNames
<1> QED
  BY <1>1, <1>2, FirstIsIn

(* The names of the services and of the parts.                             *)
LEMMA Names ==
  /\ AllServices = {"dhcp", "wireguard", "openvpn", "dns", "syslog", "ntp",
                    "ids", "sni"}
  /\ PartNames = {"main", "blocklist", "hosts"}
  BY DEF AllServices, PartNames, Order, PartOrder

-----------------------------------------------------------------------------
(* The types.                                                              *)
States == {"active", "inactive", "failed"}
Content == Setting \cup [domains : Nat, order : Orders]
Files == UNION {[P -> Content] : P \in SUBSET PartNames}
Units == [state : States, runs : Files, deaf : BOOLEAN, falls : Nat]

Plans == [write : SUBSET PartNames, remove : BOOLEAN,
          unit : {"needed", "always", "none", "stop"}]

Workers ==
  [kind : Kinds, cfg : Configs \cup {NoCfg}, todo : SUBSET Svcs,
   at : {"begin", "files", "unit"}, plan : Plans, changed : BOOLEAN,
   domains : Nat, warnings : SUBSET Soft]

WorkerTyped(w) ==
  /\ w \in Workers /\ w.domains <= feed
  /\ w.at = "begin" => ~w.changed
  /\ w.kind = "off" => w = Off
  /\ w # Off => w.cfg \in Configs

LeftTyped ==
  /\ left \in Scenario(Configs)
  /\ \A c \in Configs : ConfigFits(c, Svcs)

ConfigsTyped ==
  /\ running \in Configs
  /\ trial = << >> \/ \E c \in Configs : trial = <<c>>

RestTyped ==
  /\ warned \subseteq Soft /\ spoiled \subseteq Svcs /\ request \subseteq Svcs
  /\ agent \in {"up", "down"} /\ feed \in Nat
  /\ seen \in [Svcs -> States \cup {"none", "unknown"}]
  /\ told \in [Svcs -> Nat] /\ blind \in [Svcs -> Nat]

Typed ==
  /\ LeftTyped /\ ConfigsTyped /\ RestTyped
  /\ file \in [Svcs -> Files] /\ unit \in [Svcs -> Units]
  /\ WorkerTyped(eng) /\ WorkerTyped(ref)

(* What a service is to do in a configuration of the scenario.             *)
LEMMA SettingOfService ==
  ASSUME LeftTyped, NEW c \in Configs, NEW s \in Svcs
  PROVE  /\ c[s] \in Setting /\ s \in AllServices
         /\ c[s].list \/ c[s].hosts => s = "dns"
         /\ c[s].down => s = "ids"
  BY DEF LeftTyped, Scenario, ConfigFits, Configs, Svcs

(* No files are files.                                                     *)
LEMMA NothingIsTyped == Nothing \in Files /\ DOMAIN Nothing = {}
<1>1. Nothing \in [{} -> Content]
  BY DEF Nothing
<1> QED
  BY <1>1 DEF Files, Nothing

(* Files have the names of parts.                                          *)
LEMMA FilesAreParts ==
  ASSUME NEW f \in Files PROVE DOMAIN f \subseteq PartNames
  BY DEF Files

(* A part that is put into the files of a service.                         *)
LEMMA PutTyped ==
  ASSUME NEW f \in Files, NEW p \in PartNames, NEW content \in Content
  PROVE  Put(f, p, content) \in Files
<1>1. PICK P \in SUBSET PartNames : f \in [P -> Content]
  BY DEF Files
<1>2. Put(f, p, content) \in [P \cup {p} -> Content]
  BY <1>1 DEF Put
<1> QED
  BY <1>2 DEF Files

(* The worker that does nothing, ...                                       *)
LEMMA OffIsTyped ==
  /\ Off.kind = "off" /\ Off.todo = {} /\ Off.at = "begin" /\ ~Off.changed
  /\ Off.warnings = {} /\ Off \in Workers
  /\ feed \in Nat => WorkerTyped(Off)
  BY Names DEF Off, Plan, WorkerTyped, Workers, Plans, Kinds, Soft

(* ... and one that is given something to do.                              *)
LEMMA WorkTyped ==
  ASSUME NEW c \in Configs, NEW kind \in Kinds \ {"off"}, NEW S \in SUBSET Svcs
  PROVE  LET w == Work(kind, c, S) IN
         /\ feed \in Nat => WorkerTyped(w)
         /\ w # Off /\ w.kind = kind /\ w.cfg = c /\ w.todo = S /\ w.at = "begin"
         /\ ~w.changed /\ w.warnings = {}
<1> DEFINE w == Work(kind, c, S)
<1>1. /\ w.kind = kind /\ w.cfg = c /\ w.todo = S /\ w.at = Off.at
      /\ w.changed = Off.changed /\ w.warnings = Off.warnings
      /\ w.domains = Off.domains
  BY OffIsTyped DEF Work, Workers
<1>2. Off.domains = 0
  BY DEF Off
<1>3. w # Off
  BY <1>1, OffIsTyped
<1>4. w \in Workers
  BY OffIsTyped DEF Work, Workers
<1> HIDE DEF w
<1> QED
  BY <1>1, <1>2, <1>3, <1>4, OffIsTyped DEF WorkerTyped, w

(* A plan is one.                                                          *)
LEMMA PlanTyped ==
  ASSUME LeftTyped, NEW s \in Svcs, NEW c \in Setting, NEW boot \in BOOLEAN
  PROVE  PlanOf(s, c, boot) \in Plans
<1>1. s \in AllServices
  BY DEF LeftTyped, Scenario, Svcs
<1>2. \A p : p = "main" \/ p = "blocklist" \/ p = "hosts" => p \in PartNames
  BY Names
<1>3. Parts(c) \subseteq PartNames
  BY <1>2 DEF Parts
<1>4. \A S \in SUBSET PartNames, u \in {"needed", "always", "none", "stop"} :
        Plan(S, u) \in Plans /\ RemoveThen(u) \in Plans
  BY DEF Plan, RemoveThen, Plans
<1>5. {"main"} \in SUBSET PartNames /\ {} \in SUBSET PartNames
      /\ Parts(c) \in SUBSET PartNames
  BY <1>2, <1>3
<1> QED
  BY <1>1, <1>4, <1>5, Names
     DEF PlanOf, Dhcp, Wireguard, Openvpn, Dns, Syslog, Ntp, Ids, Sni

-----------------------------------------------------------------------------
(* The steps of a worker, in terms of its fields.                          *)
Same(v, w) ==
  /\ v.kind = w.kind /\ v.cfg = w.cfg /\ v.domains = w.domains
  /\ v.warnings = w.warnings

(* Who has something to do has a configuration and a service.              *)
LEMMA WorkerIsOn ==
  ASSUME LeftTyped, NEW w, WorkerTyped(w), w.todo # {}
  PROVE  /\ w # Off /\ w.kind # "off" /\ w.cfg \in Configs
         /\ Service(w) \in w.todo /\ Service(w) \in Svcs
<1>1. w # Off /\ w.kind # "off" /\ w.cfg \in Configs
  BY OffIsTyped DEF WorkerTyped
<1>2. w.todo \subseteq Svcs /\ Svcs \subseteq AllServices
  BY DEF WorkerTyped, Workers, LeftTyped, Scenario, Svcs
<1> QED
  BY <1>1, <1>2, ServiceIsNext DEF Service

(* A service is begun.                                                     *)
LEMMA BegunMeans ==
  ASSUME LeftTyped, feed \in Nat, NEW w, WorkerTyped(w), w.todo # {},
         w.at = "begin"
  PROVE  LET v == Begun(w) IN
         /\ WorkerTyped(v) /\ v # Off
         /\ v.kind = w.kind /\ v.cfg = w.cfg /\ v.warnings = w.warnings
         /\ v.todo = w.todo /\ v.at = "files" /\ ~v.changed /\ v.domains = feed
         /\ v.plan = PlanOf(Service(w), w.cfg[Service(w)], w.kind = "boot")
<1> DEFINE v == Begun(w)
           p == PlanOf(Service(w), w.cfg[Service(w)], w.kind = "boot")
<1>1. p \in Plans
  BY WorkerIsOn, SettingOfService, PlanTyped
<1>2. /\ v.kind = w.kind /\ v.cfg = w.cfg /\ v.warnings = w.warnings
      /\ v.todo = w.todo /\ v.at = "files" /\ v.changed = w.changed
      /\ v.domains = feed /\ v.plan = p
  BY DEF Begun, WorkerTyped, Workers
<1>3. v \in Workers
  BY <1>1 DEF Begun, WorkerTyped, Workers
<1>4. v # Off
  BY <1>2, OffIsTyped
<1> HIDE DEF v, p
<1>5. v.kind # "off" /\ v.cfg \in Configs /\ ~v.changed
  BY <1>2, WorkerIsOn DEF WorkerTyped
<1>6. WorkerTyped(v)
  BY <1>2, <1>3, <1>4, <1>5 DEF WorkerTyped
<1> QED
  BY <1>2, <1>4, <1>5, <1>6 DEF v, p

(* A worker goes on to the next service.                                   *)
LEMMA NextServiceMeans ==
  ASSUME LeftTyped, NEW w, WorkerTyped(w), w.todo # {}
  PROVE  LET v == NextService(w) IN
         /\ WorkerTyped(v) /\ v # Off /\ Same(v, w)
         /\ v.todo = w.todo \ {Service(w)} /\ v.at = "begin" /\ ~v.changed
<1> DEFINE v == NextService(w)
<1>1. v.kind = w.kind /\ v.cfg = w.cfg /\ v.domains = w.domains
      /\ v.warnings = w.warnings /\ v.todo = w.todo \ {Service(w)}
      /\ v.at = "begin" /\ v.changed = FALSE
  BY DEF NextService, WorkerTyped, Workers
<1>2. v \in Workers
  BY DEF NextService, WorkerTyped, Workers
<1> HIDE DEF v
<1>3. v # Off
  BY <1>1, WorkerIsOn, OffIsTyped
<1>4. WorkerTyped(v)
  BY <1>1, <1>2, <1>3, WorkerIsOn DEF WorkerTyped
<1> QED
  BY <1>1, <1>3, <1>4 DEF v, Same

(* A part has been written, with one of the contents it may have.          *)
Writes(w, v, p, content) ==
  /\ file' = [file EXCEPT ![Service(w)] = Put(file[Service(w)], p, content)]
  /\ Same(v, w) /\ v.todo = w.todo /\ v.at = "files"
  /\ v.plan = [w.plan EXCEPT !.write = @ \ {p}]
  /\ v.changed = (w.changed \/ Put(file[Service(w)], p, content) # file[Service(w)])

(* FileWritten writes one part of the plan.                                *)
LEMMA WritingMeans ==
  ASSUME Typed, NEW w, NEW v, WorkerTyped(w), w.todo # {}, FileWritten(w, v)
  PROVE  /\ w.at = "files" /\ v # Off /\ WorkerTyped(v)
         /\ file' \in [Svcs -> Files]
         /\ \E p \in w.plan.write :
              \E content \in Contents(p, w.cfg[Service(w)], w.domains) :
                Writes(w, v, p, content)
<1> DEFINE s == Service(w)
           p == First(PartOrder, w.plan.write)
           c == w.cfg[s]
<1>1. s \in Svcs /\ w.cfg \in Configs /\ c \in Setting
  BY WorkerIsOn, SettingOfService DEF Typed
<1>2. p \in w.plan.write /\ p \in PartNames
  <2>1. w.plan.write \subseteq PartNames /\ w.plan.write # {}
    BY DEF FileWritten, WorkerTyped, Workers, Plans
  <2> QED
    BY <2>1, PartIsNext
<1>3. PICK content \in Contents(p, c, w.domains) :
        /\ file' = [file EXCEPT ![s] = Put(@, p, content)]
        /\ v = [w EXCEPT !.plan.write = @ \ {p},
                         !.changed = Changed(w, file'[s] # file[s])]
  BY DEF FileWritten
<1>4. content \in Content
  BY <1>1 DEF Contents, BlocklistContents, Content, WorkerTyped, Workers
<1>5. file[s] \in Files /\ Put(file[s], p, content) \in Files
  BY <1>1, <1>2, <1>4, PutTyped DEF Typed
<1>6. file' \in [Svcs -> Files] /\ file'[s] = Put(file[s], p, content)
  BY <1>1, <1>3, <1>5 DEF Typed
<1>7. w.at = "files" /\ w \in Workers
  BY DEF FileWritten, WorkerTyped
<1> HIDE DEF s, p, c
<1>8. /\ Same(v, w) /\ v.todo = w.todo /\ v.at = "files"
      /\ v.plan = [w.plan EXCEPT !.write = @ \ {p}]
      /\ v.changed = (w.changed \/ file'[s] # file[s])
  BY <1>3, <1>7 DEF Same, Changed, Workers, Plans
<1>9. v \in Workers
  BY <1>3, <1>7 DEF Changed, Workers, Plans
<1>10. v # Off
  BY <1>8, OffIsTyped
<1>11. WorkerTyped(v)
  BY <1>8, <1>9, <1>10, WorkerIsOn DEF Same, WorkerTyped, Typed
<1>12. Writes(w, v, p, content)
  BY <1>3, <1>6, <1>8 DEF Writes, s
<1> QED
  BY <1>2, <1>3, <1>6, <1>7, <1>10, <1>11, <1>12 DEF s, c

(* FilesRemoved ends the work on the files.                                *)
LEMMA RemovingMeans ==
  ASSUME Typed, NEW w, NEW v, WorkerTyped(w), w.todo # {}, FilesRemoved(w, v)
  PROVE  /\ w.at = "files" /\ w.plan.write = {} /\ v # Off /\ WorkerTyped(v)
         /\ file' \in [Svcs -> Files]
         /\ file' = IF w.plan.remove THEN [file EXCEPT ![Service(w)] = Nothing]
                    ELSE file
         /\ Same(v, w) /\ v.todo = w.todo /\ v.at = "unit"
         /\ v.plan = w.plan /\ v.changed = w.changed
<1>1. w.at = "files" /\ w.plan.write = {} /\ v = [w EXCEPT !.at = "unit"]
      /\ file' = IF w.plan.remove THEN [file EXCEPT ![Service(w)] = Nothing]
                 ELSE file
  BY DEF FilesRemoved
<1>2. file' \in [Svcs -> Files]
  BY <1>1, WorkerIsOn, NothingIsTyped DEF Typed
<1>3. v \in Workers /\ Same(v, w) /\ v.todo = w.todo /\ v.at = "unit"
      /\ v.plan = w.plan /\ v.changed = w.changed
  BY <1>1 DEF WorkerTyped, Workers, Same
<1>4. v # Off
  BY <1>3, OffIsTyped
<1>5. WorkerTyped(v)
  BY <1>3, <1>4, WorkerIsOn DEF Same, WorkerTyped, Typed
<1> QED
  BY <1>1, <1>2, <1>3, <1>4, <1>5

(* A unit that is started, stopped or fails.                               *)
LEMMA RunsMeans ==
  ASSUME Typed, NEW s \in Svcs, NEW state \in States
  PROVE  LET u == Runs(s, state) IN
         /\ u \in [Svcs -> Units]
         /\ \A t \in Svcs \ {s} : u[t] = unit[t]
         /\ u[s].state = state /\ ~u[s].deaf
         /\ u[s].runs = IF state = "active" THEN file[s] ELSE Nothing
         /\ u[s].falls = unit[s].falls + (IF state = "failed" THEN 1 ELSE 0)
<1>1. unit[s] \in Units /\ file[s] \in Files /\ Nothing \in Files
  BY NothingIsTyped DEF Typed
<1> QED
  BY <1>1 DEF Runs, Units, States, Typed

(* A unit that is to stop is left failed, or does not run.                 *)
LEMMA StoppedMeans ==
  ASSUME Typed, NEW s \in Svcs
  PROVE  LET u == Stopped(s) IN
         /\ u \in [Svcs -> Units]
         /\ \A t \in Svcs \ {s} : u[t] = unit[t]
         /\ (u = unit /\ unit[s].state = "failed") \/ u = Runs(s, "inactive")
  BY RunsMeans DEF Stopped, Typed, States

(* A restart that reports an error leaves the unit as it was, or failed or *)
(* started.                                                                *)
LEMMA FailedMeans ==
  ASSUME Typed, NEW s \in Svcs, unit' = unit \/ unit' \in AfterFailedRestart(s)
  PROVE  /\ unit' \in [Svcs -> Units]
         /\ \A t \in Svcs \ {s} : unit'[t] = unit[t]
         /\ unit' = unit \/ \E state \in States : unit' = Runs(s, state)
<1>1. unit' = unit \/ unit' = Runs(s, "failed") \/ unit' = Runs(s, "active")
  BY DEF AfterFailedRestart
<1> QED
  BY <1>1, RunsMeans DEF States, Typed

(* The bounds of a scenario that a step may use up.                        *)
Spends ==
  \/ left' = left \/ Disturb
  \/ left.applies > 0 /\ left' = [left EXCEPT !.applies = @ - 1]
  \/ left.requests > 0 /\ left' = [left EXCEPT !.requests = @ - 1]
  \/ left.rules > 0 /\ left' = [left EXCEPT !.rules = @ - 1]
  \/ left.lists > 0 /\ left' = [left EXCEPT !.lists = @ - 1]
  \/ /\ left.lists > 0 /\ left.faults > 0
     /\ left' = [left EXCEPT !.lists = @ - 1, !.faults = @ - 1]

(* The scenario keeps its services and configurations.                     *)
LEMMA SpendStep ==
  ASSUME LeftTyped, Spends
  PROVE  LeftTyped' /\ Svcs' = Svcs /\ Configs' = Configs
<1>1. left' \in Scenario(Configs) /\ Svcs' = Svcs /\ Configs' = Configs
  <2>1. CASE left' = left
    BY <2>1 DEF LeftTyped, Disturb, Scenario, Svcs, Configs
  <2>2. CASE Disturb
    BY <2>2 DEF LeftTyped, Disturb, Scenario, Svcs, Configs
  <2>3. CASE left.applies > 0 /\ left' = [left EXCEPT !.applies = @ - 1]
    BY <2>3 DEF LeftTyped, Disturb, Scenario, Svcs, Configs
  <2>4. CASE left.requests > 0 /\ left' = [left EXCEPT !.requests = @ - 1]
    BY <2>4 DEF LeftTyped, Disturb, Scenario, Svcs, Configs
  <2>5. CASE left.rules > 0 /\ left' = [left EXCEPT !.rules = @ - 1]
    BY <2>5 DEF LeftTyped, Disturb, Scenario, Svcs, Configs
  <2>6. CASE left.lists > 0 /\ left' = [left EXCEPT !.lists = @ - 1]
    BY <2>6 DEF LeftTyped, Disturb, Scenario, Svcs, Configs
  <2>7. CASE /\ left.lists > 0 /\ left.faults > 0
             /\ left' = [left EXCEPT !.lists = @ - 1, !.faults = @ - 1]
    <3> DEFINE l == [left EXCEPT !.lists = @ - 1]
    <3>1. l \in Scenario(Configs) /\ l.services = Svcs /\ l.configs = Configs
          /\ l.faults = left.faults
      BY <2>7 DEF LeftTyped, Scenario, Svcs, Configs
    <3>2. left' = [l EXCEPT !.faults = @ - 1]
      BY <2>7
    <3> HIDE DEF l
    <3> QED
      BY <2>7, <3>1, <3>2 DEF Scenario, Svcs, Configs
  <2> QED
    BY <2>1, <2>2, <2>3, <2>4, <2>5, <2>6, <2>7 DEF Spends
<1> QED
  BY <1>1 DEF LeftTyped

(* Every step does.                                                        *)
LEMMA LeftStep ==
  ASSUME LeftTyped, [Next]_vars PROVE LeftTyped' /\ Svcs' = Svcs /\ Configs' = Configs
<1>1. ASSUME NEW c \in Configs, Apply(c)
      PROVE  LeftTyped' /\ Svcs' = Svcs /\ Configs' = Configs
  BY <1>1, SpendStep DEF Spends, Disturb, Apply
<1>2. CASE Rollback
  BY <1>2, SpendStep DEF Spends, Disturb, Rollback
<1>3. CASE Confirm
  BY <1>3, SpendStep DEF Spends, Disturb, Confirm
<1>4. CASE EngBegin
  BY <1>4, SpendStep DEF Spends, Disturb, EngBegin
<1>5. CASE EngFile
  BY <1>5, SpendStep DEF Spends, Disturb, EngFile
<1>6. CASE EngUnit
  BY <1>6, SpendStep DEF Spends, Disturb, EngUnit
<1>7. CASE EngStopFails
  BY <1>7, SpendStep DEF Spends, Disturb, EngStopFails
<1>8. CASE EngDone
  BY <1>8, SpendStep DEF Spends, Disturb, EngDone
<1>9. CASE EngError
  BY <1>9, SpendStep DEF Spends, Disturb, EngError
<1>10. ASSUME NEW stored \in BOOLEAN, Refresh(stored)
      PROVE  LeftTyped' /\ Svcs' = Svcs /\ Configs' = Configs
  BY <1>10, SpendStep DEF Spends, Disturb, Refresh
<1>11. CASE RefBegin
  BY <1>11, SpendStep DEF Spends, Disturb, RefBegin
<1>12. CASE RefFile
  BY <1>12, SpendStep DEF Spends, Disturb, RefFile
<1>13. CASE RefUnit
  BY <1>13, SpendStep DEF Spends, Disturb, RefUnit
<1>14. CASE RefError
  BY <1>14, SpendStep DEF Spends, Disturb, RefError
<1>15. ASSUME NEW s \in Svcs, RestartRequest(s)
      PROVE  LeftTyped' /\ Svcs' = Svcs /\ Configs' = Configs
  BY <1>15, SpendStep DEF Spends, Disturb, RestartRequest
<1>16. CASE Restarted
  BY <1>16, SpendStep DEF Spends, Disturb, Restarted
<1>17. ASSUME NEW s \in Svcs, Poll(s)
      PROVE  LeftTyped' /\ Svcs' = Svcs /\ Configs' = Configs
  BY <1>17, SpendStep DEF Spends, Disturb, Poll
<1>18. ASSUME NEW s \in Svcs, PollFails(s)
      PROVE  LeftTyped' /\ Svcs' = Svcs /\ Configs' = Configs
  BY <1>18, SpendStep DEF Spends, Disturb, PollFails
<1>19. ASSUME NEW s \in Svcs, UnitFails(s)
      PROVE  LeftTyped' /\ Svcs' = Svcs /\ Configs' = Configs
  BY <1>19, SpendStep DEF Spends, Disturb, UnitFails
<1>20. ASSUME NEW reboot \in BOOLEAN, Exit(reboot)
      PROVE  LeftTyped' /\ Svcs' = Svcs /\ Configs' = Configs
  BY <1>20, SpendStep DEF Spends, Disturb, Exit
<1>21. CASE Start
  BY <1>21, SpendStep DEF Spends, Disturb, Start
<1>22. CASE RuleRequest
  BY <1>22, SpendStep DEF Spends, Disturb, RuleRequest
<1>23. CASE RuleStep
  BY <1>23, SpendStep DEF Spends, Disturb, RuleStep
<1>24. CASE UNCHANGED vars
  BY <1>24, SpendStep DEF Spends, Disturb, vars
<1> QED
  BY <1>1, <1>2, <1>3, <1>4, <1>5, <1>6, <1>7, <1>8, <1>9, <1>10, <1>11,
     <1>12, <1>13, <1>14, <1>15, <1>16, <1>17, <1>18, <1>19, <1>20, <1>21,
     <1>22, <1>23, <1>24
     DEF Next

-----------------------------------------------------------------------------
(* What a step leaves, in terms of the scenario before it.                 *)
NextTyped ==
  /\ running' \in Configs /\ (trial' = << >> \/ \E c \in Configs : trial' = <<c>>)
  /\ warned' \subseteq Soft /\ spoiled' \subseteq Svcs /\ request' \subseteq Svcs
  /\ agent' \in {"up", "down"} /\ feed' \in Nat /\ feed <= feed'
  /\ seen' \in [Svcs -> States \cup {"none", "unknown"}]
  /\ told' \in [Svcs -> Nat] /\ blind' \in [Svcs -> Nat]
  /\ file' \in [Svcs -> Files] /\ unit' \in [Svcs -> Units]
  /\ WorkerTyped(eng') /\ WorkerTyped(ref')

(* The types of the next state are as those of this one.                   *)
LEMMA NextIsTyped ==
  ASSUME Typed, NextTyped, LeftTyped', Svcs' = Svcs, Configs' = Configs
  PROVE  Typed'
<1>1. WorkerTyped(eng)' /\ WorkerTyped(ref)'
  <2>1. feed \in Nat /\ feed' \in Nat /\ feed <= feed'
    BY DEF Typed, RestTyped, NextTyped
  <2>2. WorkerTyped(eng') /\ WorkerTyped(ref')
    BY DEF NextTyped
  <2>3. eng'.domains \in Nat /\ ref'.domains \in Nat
    BY <2>2 DEF WorkerTyped, Workers
  <2>4. eng'.domains <= feed' /\ ref'.domains <= feed'
    BY <2>1, <2>2, <2>3 DEF WorkerTyped
  <2>5. eng' \in Workers' /\ ref' \in Workers'
    BY <2>2 DEF WorkerTyped, Workers
  <2> QED
    BY <2>2, <2>4, <2>5 DEF WorkerTyped
<1>2. ConfigsTyped' /\ RestTyped'
  BY DEF NextTyped, ConfigsTyped, RestTyped
<1>3. file' \in [Svcs' -> Files] /\ unit' \in [Svcs' -> Units]
  BY DEF NextTyped
<1> QED
  BY <1>1, <1>2, <1>3 DEF Typed

(* Every step keeps the types.                                             *)
(* While a list is made effective, DNS is the service.                     *)
RefInv == ref # Off => ref.todo = {"dns"} /\ "dns" \in Svcs

(* Every step keeps the types.                                             *)
LEMMA TypeStep ==
  ASSUME Typed, RefInv, [Next]_vars PROVE Typed'
<1> SUFFICES NextTyped
  BY LeftStep, NextIsTyped DEF Typed
<1>1. ASSUME NEW c \in Configs, Apply(c) PROVE NextTyped
  <2>1. WorkerTyped(Work("trial", c, Svcs))
    BY WorkTyped DEF Typed, RestTyped, Kinds
  <2>2. spoiled' \subseteq Svcs
    BY <1>1 DEF Apply, OverlapsRefresh, RefInv, Typed, RestTyped
  <2> QED
    BY <1>1, <2>1, <2>2
       DEF Typed, ConfigsTyped, RestTyped, NextTyped, applyVars, otherVars,
           watchVars, Apply, Begin
<1>2. CASE Rollback
  <2>1. WorkerTyped(Work("rollback", running, Svcs))
    BY WorkTyped DEF Typed, ConfigsTyped, RestTyped, Kinds
  <2>2. spoiled' \subseteq Svcs
    BY <1>2 DEF Rollback, OverlapsRefresh, RefInv, Typed, RestTyped
  <2> QED
    BY <1>2, <2>1, <2>2
       DEF Typed, ConfigsTyped, RestTyped, NextTyped, applyVars, otherVars,
           watchVars, Rollback, Begin
<1>3. CASE Confirm
  BY <1>3
     DEF Typed, ConfigsTyped, RestTyped, NextTyped, applyVars, otherVars,
         watchVars, Confirm
<1>4. CASE EngBegin
  BY <1>4, BegunMeans
     DEF Typed, ConfigsTyped, RestTyped, NextTyped, applyVars, otherVars,
         watchVars, EngBegin
<1>5. CASE EngFile
  BY <1>5, WritingMeans, RemovingMeans
     DEF Typed, ConfigsTyped, RestTyped, NextTyped, applyVars, otherVars,
         watchVars, EngFile
<1>6. CASE EngUnit
  <2>1. Service(eng) \in Svcs /\ WorkerTyped(eng')
    BY <1>6, WorkerIsOn, NextServiceMeans DEF EngUnit, Typed
  <2>2. unit' \in [Svcs -> Units]
    BY <1>6, <2>1, StoppedMeans, RunsMeans
       DEF EngUnit, UnitDone, States, Typed
  <2> QED
    BY <1>6, <2>1, <2>2
       DEF Typed, ConfigsTyped, RestTyped, NextTyped, applyVars, otherVars,
           watchVars, EngUnit, Settled
<1>7. CASE EngStopFails
  BY <1>7, WorkerIsOn, NextServiceMeans
     DEF Typed, ConfigsTyped, RestTyped, NextTyped, applyVars, otherVars,
         watchVars, EngStopFails
<1>8. CASE EngDone
  <2>1. eng.cfg \in Configs /\ eng.warnings \subseteq Soft
    BY <1>8 DEF EngDone, Typed, WorkerTyped, Workers
  <2> QED
    BY <1>8, <2>1, OffIsTyped
       DEF Typed, ConfigsTyped, RestTyped, NextTyped, applyVars, otherVars,
           watchVars, EngDone
<1>9. CASE EngError
  <2> DEFINE s == Service(eng)
  <2>1. s \in Svcs /\ eng # Off /\ eng.todo \subseteq Svcs /\ eng.warnings \subseteq Soft
    BY <1>9, WorkerIsOn DEF EngError, Typed, WorkerTyped, Workers
  <2>2. unit' \in [Svcs -> Units]
    BY <1>9, <2>1, FailedMeans DEF EngError
  <2>3. WorkerTyped(NextService(eng)) /\ NextService(eng) # Off
        /\ NextService(eng).kind = eng.kind
    BY <1>9, NextServiceMeans DEF EngError, Typed, Same
  <2>4. ASSUME s \in Soft
        PROVE  WorkerTyped([NextService(eng) EXCEPT !.warnings = @ \cup {s}])
    <3> DEFINE v == NextService(eng)
               x == [v EXCEPT !.warnings = @ \cup {s}]
    <3>1. v \in Workers
      BY <2>3 DEF WorkerTyped
    <3> HIDE DEF v, s
    <3>2. /\ x \in Workers /\ x.kind = v.kind /\ x.at = v.at
          /\ x.changed = v.changed /\ x.domains = v.domains /\ x.cfg = v.cfg
      BY <2>4, <3>1 DEF Workers
    <3>3. v.kind # "off"
      BY <1>9, <2>3, WorkerIsOn DEF EngError, Typed, v
    <3> QED
      BY <2>3, <3>2, <3>3 DEF WorkerTyped, v
  <2>5. WorkerTyped(Work("restore", running, Svcs)) /\ WorkerTyped(Off)
    BY WorkTyped, OffIsTyped DEF Typed, ConfigsTyped, RestTyped, Kinds
  <2>6. WorkerTyped(eng')
    BY <1>9, <2>4, <2>5 DEF EngError
  <2>7. spoiled' \subseteq Svcs /\ warned' \subseteq Soft
        /\ (trial' = trial \/ trial' = << >>)
    BY <1>9, <2>1 DEF EngError, LeftStale, Typed, RestTyped
  <2> QED
    BY <1>9, <2>2, <2>6, <2>7
       DEF EngError, Typed, ConfigsTyped, RestTyped, NextTyped, otherVars, watchVars
<1>10. ASSUME NEW stored \in BOOLEAN, Refresh(stored) PROVE NextTyped
  <2>1. WorkerTyped(Work("refresh", running, {"dns"})) /\ WorkerTyped(Off)
    <3>1. {"dns"} \in SUBSET Svcs /\ running \in Configs /\ feed \in Nat
          /\ "refresh" \in Kinds \ {"off"}
      BY <1>10 DEF Refresh, Typed, ConfigsTyped, RestTyped, Kinds
    <3> QED
      BY <3>1, WorkTyped, OffIsTyped
  <2>2. WorkerTyped(ref') /\ spoiled' \subseteq Svcs
    BY <1>10, <2>1 DEF Refresh, Typed, RestTyped
  <2>3. feed' \in Nat /\ feed <= feed'
    BY <1>10 DEF Refresh, Typed, RestTyped
  <2> QED
    BY <1>10, <2>2, <2>3
       DEF Typed, ConfigsTyped, RestTyped, NextTyped, applyVars, otherVars,
           watchVars, Refresh
<1>11. CASE RefBegin
  BY <1>11, BegunMeans
     DEF Typed, ConfigsTyped, RestTyped, NextTyped, applyVars, otherVars,
         watchVars, RefBegin
<1>12. CASE RefFile
  BY <1>12, WritingMeans, RemovingMeans
     DEF Typed, ConfigsTyped, RestTyped, NextTyped, applyVars, otherVars,
         watchVars, RefFile
<1>13. CASE RefUnit
  <2>1. Service(ref) \in Svcs
    BY <1>13, WorkerIsOn DEF RefUnit, Typed
  <2>2. unit' \in [Svcs -> Units]
    BY <1>13, <2>1, StoppedMeans, RunsMeans
       DEF RefUnit, UnitDone, States, Typed
  <2> QED
    BY <1>13, <2>2, OffIsTyped
       DEF Typed, ConfigsTyped, RestTyped, NextTyped, applyVars, otherVars,
           watchVars, RefUnit
<1>14. CASE RefError
  <2>1. "dns" \in Svcs
    BY <1>14, OffIsTyped DEF RefError, RefInv
  <2>2. unit' \in [Svcs -> Units]
    BY <1>14, <2>1, FailedMeans DEF RefError
  <2> QED
    BY <1>14, <2>1, <2>2, OffIsTyped
       DEF Typed, ConfigsTyped, RestTyped, NextTyped, applyVars, otherVars,
           watchVars, RefError
<1>15. ASSUME NEW s \in Svcs, RestartRequest(s) PROVE NextTyped
  BY <1>15
     DEF Typed, ConfigsTyped, RestTyped, NextTyped, applyVars, otherVars,
         watchVars, RestartRequest
<1>16. CASE Restarted
  <2>1. PICK s \in request :
          unit' \in {Runs(s, "active"), unit} /\ spoiled' \subseteq spoiled \cup {s}
    BY <1>16 DEF Restarted
  <2>2. unit' \in [Svcs -> Units]
    BY <2>1, RunsMeans DEF States, Typed, RestTyped
  <2> QED
    BY <1>16, <2>1, <2>2
       DEF Typed, ConfigsTyped, RestTyped, NextTyped, applyVars, otherVars,
           watchVars, Restarted
<1>17. ASSUME NEW s \in Svcs, Poll(s) PROVE NextTyped
  <2>1. unit[s].state \in States
    BY DEF Typed, Units
  <2> QED
    BY <1>17, <2>1
       DEF Typed, ConfigsTyped, RestTyped, NextTyped, applyVars, otherVars,
           watchVars, Poll, Remembered
<1>18. ASSUME NEW s \in Svcs, PollFails(s) PROVE NextTyped
  BY <1>18
     DEF Typed, ConfigsTyped, RestTyped, NextTyped, applyVars, otherVars,
         watchVars, PollFails, Remembered
<1>19. ASSUME NEW s \in Svcs, UnitFails(s) PROVE NextTyped
  BY <1>19, RunsMeans
     DEF Typed, ConfigsTyped, RestTyped, NextTyped, applyVars, otherVars,
         watchVars, UnitFails, States
<1>20. ASSUME NEW reboot \in BOOLEAN, Exit(reboot) PROVE NextTyped
  <2>1. ASSUME NEW up \in BOOLEAN
        PROVE  [s \in Svcs |->
                  IF s = "wireguard" \/ ~up
                  THEN [unit[s] EXCEPT !.state = "inactive", !.runs = Nothing]
                  ELSE [unit[s] EXCEPT !.state = "active", !.runs = file[s],
                                       !.deaf = (s = "dhcp")]] \in [Svcs -> Units]
    <3>1. ASSUME NEW s \in Svcs
          PROVE  /\ [unit[s] EXCEPT !.state = "inactive", !.runs = Nothing] \in Units
                 /\ [unit[s] EXCEPT !.state = "active", !.runs = file[s],
                                    !.deaf = (s = "dhcp")] \in Units
      <4>1. unit[s] \in Units /\ file[s] \in Files
        BY DEF Typed
      <4> QED
        BY <4>1, NothingIsTyped DEF Units, States
    <3> QED
      BY <3>1
  <2>2. unit' \in [Svcs -> Units]
    <3>1. CASE reboot
      <4>1. PICK up \in BOOLEAN :
               unit' = [s \in Svcs |->
                          IF s = "wireguard" \/ ~up
                          THEN [unit[s] EXCEPT !.state = "inactive", !.runs = Nothing]
                          ELSE [unit[s] EXCEPT !.state = "active", !.runs = file[s],
                                               !.deaf = (s = "dhcp")]]
        BY <1>20, <3>1 DEF Exit
      <4> QED
        BY <2>1, <4>1
    <3>2. CASE ~reboot
      <4>1. unit' = unit
        BY <1>20, <3>2 DEF Exit
      <4> QED
        BY <4>1 DEF Typed
    <3> QED
      BY <3>1, <3>2
  <2>3. spoiled' \subseteq Svcs
    BY <1>20 DEF Exit
  <2> QED
    <3>1. eng' = Off /\ ref' = Off /\ trial' = << >> /\ request' = {}
          /\ agent' = "down" /\ WorkerTyped(Off)
      BY <1>20, OffIsTyped DEF Exit, Typed, RestTyped
    <3>2. UNCHANGED <<running, file, warned, feed, seen, told, blind>>
      BY <1>20 DEF Exit, watchVars
    <3> QED
      BY <2>2, <2>3, <3>1, <3>2
         DEF Typed, ConfigsTyped, RestTyped, NextTyped
<1>21. CASE Start
  <2>1. WorkerTyped(Work("boot", running, Svcs))
    BY WorkTyped DEF Typed, ConfigsTyped, RestTyped, Kinds
  <2> QED
    BY <1>21, <2>1
       DEF Typed, ConfigsTyped, RestTyped, NextTyped, applyVars, otherVars,
           watchVars, Start
<1>22. CASE RuleRequest
  BY <1>22
     DEF Typed, ConfigsTyped, RestTyped, NextTyped, applyVars, otherVars,
         watchVars, RuleRequest, Disturb
<1>23. CASE RuleStep
  BY <1>23
     DEF Typed, ConfigsTyped, RestTyped, NextTyped, applyVars, otherVars,
         watchVars, RuleStep
<1>24. CASE UNCHANGED vars
  BY <1>24
     DEF Typed, ConfigsTyped, RestTyped, NextTyped, applyVars, otherVars,
         watchVars, vars
<1> QED
  BY <1>1, <1>2, <1>3, <1>4, <1>5, <1>6, <1>7, <1>8, <1>9, <1>10, <1>11,
     <1>12, <1>13, <1>14, <1>15, <1>16, <1>17, <1>18, <1>19, <1>20, <1>21,
     <1>22, <1>23, <1>24
     DEF Next

-----------------------------------------------------------------------------
(* The rule selection.                                                     *)
Calls == [step : {"none", "asked", "stored", "rendered", "written"},
          rule : SUBSET Rules, list : SUBSET Rules]

RulesTyped ==
  /\ onDisk \in [running : SUBSET Rules, candidate : SUBSET Rules]
  /\ selection \subseteq Rules /\ candSelection \subseteq Rules /\ page \subseteq Rules
  /\ disableConf \subseteq Rules /\ updateReads \subseteq Rules
  /\ offRules \subseteq Rules /\ asked \subseteq Rules
  /\ calls \in [Handlers -> Calls]
  /\ update \in {"off", "starting", "reading"}
  /\ crossed \in BOOLEAN /\ replaced \in BOOLEAN /\ unwritten \in BOOLEAN

(* A step of the rest leaves it alone.                                     *)
RuleChange ==
  \/ \E h \in Handlers, r \in Rules, off \in BOOLEAN : Ask(h, r, off)
  \/ \E h \in Handlers : Stored(h) \/ Render(h) \/ Written(h) \/ Started(h)
  \/ DailyTimer \/ UpdateReads \/ \E well \in BOOLEAN : UpdateEnds(well)
  \/ LoadCandidate \/ PutCandidate \/ CommitSelection
  \/ \E h \in Handlers : StoreFails(h) \/ WriteFails(h) \/ StartFails(h)
  \/ (\E reboot \in BOOLEAN : CallsEnd(reboot)) \/ LoadSelection

(* Only their own steps change the rules.                                  *)
LEMMA RulesChange ==
  ASSUME [Next]_vars PROVE RuleChange \/ UNCHANGED ruleVars
<1>1. ASSUME NEW c \in Configs, Apply(c)
      PROVE  RuleChange \/ UNCHANGED ruleVars
  BY <1>1 DEF Apply
<1>2. CASE Rollback
  BY <1>2 DEF Rollback
<1>3. CASE Confirm
  BY <1>3 DEF Confirm
<1>4. CASE EngBegin
  BY <1>4 DEF EngBegin
<1>5. CASE EngFile
  BY <1>5 DEF EngFile
<1>6. CASE EngUnit
  BY <1>6 DEF EngUnit
<1>7. CASE EngStopFails
  BY <1>7 DEF EngStopFails
<1>8. CASE EngDone
  BY <1>8 DEF EngDone
<1>9. CASE EngError
  BY <1>9 DEF EngError
<1>10. ASSUME NEW stored \in BOOLEAN, Refresh(stored)
      PROVE  RuleChange \/ UNCHANGED ruleVars
  BY <1>10 DEF Refresh
<1>11. CASE RefBegin
  BY <1>11 DEF RefBegin
<1>12. CASE RefFile
  BY <1>12 DEF RefFile
<1>13. CASE RefUnit
  BY <1>13 DEF RefUnit
<1>14. CASE RefError
  BY <1>14 DEF RefError
<1>15. ASSUME NEW s \in Svcs, RestartRequest(s)
      PROVE  RuleChange \/ UNCHANGED ruleVars
  BY <1>15 DEF RestartRequest
<1>16. CASE Restarted
  BY <1>16 DEF Restarted
<1>17. ASSUME NEW s \in Svcs, Poll(s) PROVE RuleChange \/ UNCHANGED ruleVars
  BY <1>17 DEF Poll
<1>18. ASSUME NEW s \in Svcs, PollFails(s)
      PROVE  RuleChange \/ UNCHANGED ruleVars
  BY <1>18 DEF PollFails
<1>19. ASSUME NEW s \in Svcs, UnitFails(s)
      PROVE  RuleChange \/ UNCHANGED ruleVars
  BY <1>19 DEF UnitFails
<1>20. ASSUME NEW reboot \in BOOLEAN, Exit(reboot)
      PROVE  RuleChange \/ UNCHANGED ruleVars
  BY <1>20 DEF Exit, RuleChange
<1>21. CASE Start
  BY <1>21 DEF Start, RuleChange
<1>22. CASE RuleRequest
  BY <1>22 DEF RuleRequest, RuleFailures, RuleChange
<1>23. CASE RuleStep
  BY <1>23 DEF RuleStep, RuleSteps, RuleChange
<1>24. CASE UNCHANGED vars
  BY <1>24 DEF vars
<1> QED
  BY <1>1, <1>2, <1>3, <1>4, <1>5, <1>6, <1>7, <1>8, <1>9, <1>10, <1>11,
     <1>12, <1>13, <1>14, <1>15, <1>16, <1>17, <1>18, <1>19, <1>20, <1>21,
     <1>22, <1>23, <1>24
     DEF Next

(* Every step keeps the types of the rules.                                *)
LEMMA RulesStep ==
  ASSUME RulesTyped, [Next]_vars PROVE RulesTyped'
<1>1. ASSUME NEW h \in Handlers, NEW r \in Rules, NEW off \in BOOLEAN, Ask(h, r, off)
      PROVE  RulesTyped'
  BY <1>1 DEF RulesTyped, Calls, selections, unitVars, ruleHistory, Ask, NoCall, Switched
<1>2. ASSUME NEW h \in Handlers, Stored(h) PROVE RulesTyped'
  BY <1>2 DEF RulesTyped, Calls, selections, unitVars, ruleHistory, Stored, StoreList
<1>3. ASSUME NEW h \in Handlers, Render(h) PROVE RulesTyped'
  <2>1. PICK c : /\ c = [calls[h] EXCEPT !.step = "rendered", !.list = selection]
                 /\ calls' = [calls EXCEPT ![h] = c]
    BY <1>3 DEF RulesTyped, Render
  <2>2. c \in Calls
    BY <1>3, <2>1 DEF RulesTyped, Calls
  <2> QED
    BY <1>3, <2>1, <2>2 DEF RulesTyped, selections, unitVars, ruleHistory, Render
<1>4. ASSUME NEW h \in Handlers, Written(h) PROVE RulesTyped'
  <2>1. calls' \in [Handlers -> Calls]
    BY <1>4 DEF RulesTyped, Calls, Written
  <2>2. disableConf' \subseteq Rules
    BY <1>4 DEF RulesTyped, Calls, Written, WriteDisableConf
  <2> QED
    BY <1>4, <2>1, <2>2 DEF RulesTyped, selections, unitVars, Written
<1>5. ASSUME NEW h \in Handlers, Started(h) PROVE RulesTyped'
  BY <1>5 DEF RulesTyped, Calls, selections, unitVars, ruleHistory, Started, EndOfCall, NoCall, StartUpdate
<1>6. CASE DailyTimer
  BY <1>6 DEF RulesTyped, Calls, selections, unitVars, ruleHistory, DailyTimer, StartUpdate
<1>7. CASE UpdateReads
  BY <1>7 DEF RulesTyped, Calls, selections, unitVars, ruleHistory, UpdateReads
<1>8. ASSUME NEW well \in BOOLEAN, UpdateEnds(well) PROVE RulesTyped'
  BY <1>8 DEF RulesTyped, Calls, selections, unitVars, ruleHistory, UpdateEnds
<1>9. CASE LoadCandidate
  BY <1>9 DEF RulesTyped, Calls, selections, unitVars, ruleHistory, LoadCandidate
<1>10. CASE PutCandidate
  BY <1>10
     DEF RulesTyped, Calls, selections, unitVars, ruleHistory, PutCandidate,
         PreserveIDSRuleSelection
<1>11. CASE CommitSelection
  BY <1>11 DEF RulesTyped, Calls, selections, unitVars, ruleHistory, CommitSelection
<1>12. CASE UNCHANGED ruleVars
  BY <1>12 DEF RulesTyped, ruleVars, selections, unitVars, ruleHistory
<1>13. ASSUME NEW h \in Handlers, StoreFails(h) PROVE RulesTyped'
  BY <1>13
     DEF RulesTyped, Calls, selections, unitVars, ruleHistory, StoreFails, StoreList, GivenUp,
         NoCall
<1>14. ASSUME NEW h \in Handlers, WriteFails(h) PROVE RulesTyped'
  BY <1>14
     DEF RulesTyped, Calls, selections, unitVars, ruleHistory, WriteFails, GivenUp, NoCall
<1>15. ASSUME NEW h \in Handlers, StartFails(h) PROVE RulesTyped'
  BY <1>15
     DEF RulesTyped, Calls, selections, unitVars, ruleHistory, StartFails, EndOfCall, NoCall
<1>16. ASSUME NEW reboot \in BOOLEAN, CallsEnd(reboot) PROVE RulesTyped'
  <2>1. /\ UNCHANGED <<onDisk, selection, candSelection, page, disableConf, updateReads, offRules,
                      asked, crossed, replaced>>
        /\ update' \in {"off", update} /\ unwritten' \in BOOLEAN
    BY <1>16 DEF CallsEnd, selections, RulesTyped
  <2>2. calls' \in [Handlers -> Calls]
    BY <1>16 DEF CallsEnd, Calls, NoCall
  <2> QED
    BY <2>1, <2>2 DEF RulesTyped
<1>17. CASE LoadSelection
  BY <1>17
     DEF RulesTyped, selections, unitVars, LoadSelection, EnsureDisabledRulesPreserved
<1> QED
  BY RulesChange, <1>1, <1>2, <1>3, <1>4, <1>5, <1>6, <1>7, <1>8, <1>9, <1>10, <1>11, <1>12,
     <1>13, <1>14, <1>15, <1>16, <1>17
     DEF RuleChange

(* The selection begins typed, ...                                         *)
LEMMA RulesInitTyped == RulesInit => RulesTyped
<1>1. NoCall \in Calls
  BY DEF NoCall, Calls
<1>2. ASSUME RulesInit PROVE crossed \in BOOLEAN /\ replaced \in BOOLEAN /\ unwritten \in BOOLEAN
  BY <1>2 DEF RulesInit
<1>3. ASSUME RulesInit PROVE calls \in [Handlers -> Calls]
  BY <1>1, <1>3 DEF RulesInit
<1>4. ASSUME RulesInit PROVE onDisk \in [running : SUBSET Rules, candidate : SUBSET Rules]
  BY <1>4 DEF RulesInit
<1> QED
  BY <1>2, <1>3, <1>4 DEF RulesInit, RulesTyped

(* ... and its types are those of RuleSelection.                           *)
LEMMA RulesAreTyped == RulesTyped => RulesTypeOK
<1> SUFFICES ASSUME RulesTyped PROVE RulesTypeOK
  OBVIOUS
<1>1. ASSUME NEW h \in Handlers
      PROVE  /\ calls[h].step \in {"none", "asked", "stored", "rendered", "written"}
             /\ calls[h].list \subseteq Rules
  BY DEF RulesTyped, Calls
<1> QED
  BY <1>1 DEF RulesTyped, RulesTypeOK

-----------------------------------------------------------------------------
(* The watcher: a unit that has failed and is not remembered as failed     *)
(* leaves room for one more report.                                        *)
ToldInv ==
  \A s \in Svcs :
    /\ told[s] <= unit[s].falls + blind[s]
    /\ unit[s].state = "failed" /\ seen[s] # "failed" =>
         told[s] < unit[s].falls + blind[s]

(* What becomes of a unit: whoever finds it failed finds the failure       *)
(* counted.                                                                *)
Counted ==
  \A s \in Svcs :
    /\ unit'[s].falls \in Nat /\ unit'[s].falls >= unit[s].falls
    /\ unit'[s].state = "failed" =>
         \/ unit[s].state = "failed"
         \/ unit'[s].falls > unit[s].falls

(* The counters are numbers.                                               *)
LEMMA FallsAreNumbers ==
  ASSUME Typed, NEW s \in Svcs
  PROVE  unit[s].falls \in Nat /\ unit[s].state \in States
         /\ told[s] \in Nat /\ blind[s] \in Nat
  BY DEF Typed, RestTyped, Units

(* Every way a unit changes counts its failures.                           *)
LEMMA RunsIsCounted ==
  ASSUME Typed, NEW s \in Svcs, NEW state \in States, unit' = Runs(s, state)
  PROVE  Counted
<1> SUFFICES ASSUME NEW t \in Svcs
             PROVE  /\ unit'[t].falls \in Nat /\ unit'[t].falls >= unit[t].falls
                    /\ unit'[t].state = "failed" =>
                         \/ unit[t].state = "failed"
                         \/ unit'[t].falls > unit[t].falls
  BY DEF Counted
<1>1. CASE t = s
  BY <1>1, RunsMeans, FallsAreNumbers
<1>2. CASE t # s
  BY <1>2, RunsMeans, FallsAreNumbers
<1> QED
  BY <1>1, <1>2

(* No change is counted, too, ...                                          *)
LEMMA SameIsCounted == ASSUME Typed, unit' = unit PROVE Counted
  BY FallsAreNumbers DEF Counted

(* ... and so is what a worker does.                                       *)
LEMMA UnitDoneIsCounted ==
  ASSUME Typed, NEW w, WorkerTyped(w), w.todo # {}, UnitDone(w)
  PROVE  Counted
<1>1. Service(w) \in Svcs
  BY WorkerIsOn DEF Typed
<1>2. unit' = unit \/ unit' = Runs(Service(w), "inactive")
      \/ unit' = Runs(Service(w), "active")
  BY DEF UnitDone, Stopped
<1> QED
  BY <1>1, <1>2, RunsIsCounted, SameIsCounted DEF States

(* What the watcher has not seen leaves its reports as they are.           *)
LEMMA ToldKept ==
  ASSUME Typed, Typed', Svcs' = Svcs, ToldInv, Counted,
         UNCHANGED <<told, blind, seen>>
  PROVE  ToldInv'
<1> SUFFICES ASSUME NEW s \in Svcs
             PROVE  /\ told[s] <= unit'[s].falls + blind[s]
                    /\ unit'[s].state = "failed" /\ seen[s] # "failed" =>
                         told[s] < unit'[s].falls + blind[s]
  BY DEF ToldInv
<1>1. /\ told[s] <= unit[s].falls + blind[s]
      /\ unit[s].state = "failed" /\ seen[s] # "failed" =>
           told[s] < unit[s].falls + blind[s]
      /\ told[s] \in Nat /\ blind[s] \in Nat /\ unit[s].falls \in Nat
  BY FallsAreNumbers DEF ToldInv
<1>2. /\ unit'[s].falls \in Nat /\ unit'[s].falls >= unit[s].falls
      /\ unit'[s].state = "failed" =>
           unit[s].state = "failed" \/ unit'[s].falls > unit[s].falls
  BY DEF Counted
<1> QED
  BY <1>1, <1>2

(* Every step keeps that.                                                  *)
LEMMA ToldStep ==
  ASSUME Typed, Typed', Svcs' = Svcs, RefInv, ToldInv, [Next]_vars PROVE ToldInv'
<1>1. ASSUME NEW c \in Configs, Apply(c) PROVE ToldInv'
  <2>1. UNCHANGED <<told, blind, seen>>
    BY <1>1 DEF Apply, watchVars
  <2>2. Counted
    BY <1>1, SameIsCounted DEF Apply
  <2> QED
    BY <2>1, <2>2, ToldKept
<1>2. CASE Rollback
  <2>1. UNCHANGED <<told, blind, seen>>
    BY <1>2 DEF Rollback, watchVars
  <2>2. Counted
    BY <1>2, SameIsCounted DEF Rollback
  <2> QED
    BY <2>1, <2>2, ToldKept
<1>3. CASE Confirm
  <2>1. UNCHANGED <<told, blind, seen>>
    BY <1>3 DEF Confirm, watchVars
  <2>2. Counted
    BY <1>3, SameIsCounted DEF Confirm
  <2> QED
    BY <2>1, <2>2, ToldKept
<1>4. CASE EngBegin
  <2>1. UNCHANGED <<told, blind, seen>>
    BY <1>4 DEF EngBegin, watchVars
  <2>2. Counted
    BY <1>4, SameIsCounted DEF EngBegin
  <2> QED
    BY <2>1, <2>2, ToldKept
<1>5. CASE EngFile
  <2>1. UNCHANGED <<told, blind, seen>>
    BY <1>5 DEF EngFile, watchVars
  <2>2. Counted
    BY <1>5, SameIsCounted DEF EngFile
  <2> QED
    BY <2>1, <2>2, ToldKept
<1>6. CASE EngUnit
  <2>1. UNCHANGED <<told, blind, seen>>
    BY <1>6 DEF EngUnit, watchVars
  <2>2. Counted
    BY <1>6, UnitDoneIsCounted DEF EngUnit, Typed
  <2> QED
    BY <2>1, <2>2, ToldKept
<1>7. CASE EngStopFails
  <2>1. UNCHANGED <<told, blind, seen>>
    BY <1>7 DEF EngStopFails, watchVars
  <2>2. Counted
    BY <1>7, SameIsCounted DEF EngStopFails
  <2> QED
    BY <2>1, <2>2, ToldKept
<1>8. CASE EngDone
  <2>1. UNCHANGED <<told, blind, seen>>
    BY <1>8 DEF EngDone, watchVars
  <2>2. Counted
    BY <1>8, SameIsCounted DEF EngDone
  <2> QED
    BY <2>1, <2>2, ToldKept
<1>9. CASE EngError
  <2>1. UNCHANGED <<told, blind, seen>>
    BY <1>9 DEF EngError, watchVars
  <2>2. Counted
    <3>1. Service(eng) \in Svcs
      BY <1>9, WorkerIsOn DEF EngError, Typed
    <3>2. unit' = unit \/ \E state \in States : unit' = Runs(Service(eng), state)
      BY <1>9, <3>1, FailedMeans DEF EngError
    <3> QED
      BY <3>1, <3>2, RunsIsCounted, SameIsCounted
  <2> QED
    BY <2>1, <2>2, ToldKept
<1>10. ASSUME NEW stored \in BOOLEAN, Refresh(stored) PROVE ToldInv'
  <2>1. UNCHANGED <<told, blind, seen>>
    BY <1>10 DEF Refresh, watchVars
  <2>2. Counted
    BY <1>10, SameIsCounted DEF Refresh, applyVars
  <2> QED
    BY <2>1, <2>2, ToldKept
<1>11. CASE RefBegin
  <2>1. UNCHANGED <<told, blind, seen>>
    BY <1>11 DEF RefBegin, watchVars
  <2>2. Counted
    BY <1>11, SameIsCounted DEF RefBegin, applyVars
  <2> QED
    BY <2>1, <2>2, ToldKept
<1>12. CASE RefFile
  <2>1. UNCHANGED <<told, blind, seen>>
    BY <1>12 DEF RefFile, watchVars
  <2>2. Counted
    BY <1>12, SameIsCounted DEF RefFile, applyVars
  <2> QED
    BY <2>1, <2>2, ToldKept
<1>13. CASE RefUnit
  <2>1. UNCHANGED <<told, blind, seen>>
    BY <1>13 DEF RefUnit, watchVars
  <2>2. Counted
    BY <1>13, UnitDoneIsCounted DEF RefUnit, Typed
  <2> QED
    BY <2>1, <2>2, ToldKept
<1>14. CASE RefError
  <2>1. UNCHANGED <<told, blind, seen>>
    BY <1>14 DEF RefError, watchVars
  <2>2. Counted
    <3>1. "dns" \in Svcs
      BY <1>14, OffIsTyped DEF RefError, RefInv
    <3>2. unit' = unit \/ \E state \in States : unit' = Runs("dns", state)
      BY <1>14, <3>1, FailedMeans DEF RefError
    <3> QED
      BY <3>1, <3>2, RunsIsCounted, SameIsCounted
  <2> QED
    BY <2>1, <2>2, ToldKept
<1>15. ASSUME NEW s \in Svcs, RestartRequest(s) PROVE ToldInv'
  <2>1. UNCHANGED <<told, blind, seen>>
    BY <1>15 DEF RestartRequest, watchVars
  <2>2. Counted
    BY <1>15, SameIsCounted DEF RestartRequest, applyVars
  <2> QED
    BY <2>1, <2>2, ToldKept
<1>16. CASE Restarted
  <2>1. UNCHANGED <<told, blind, seen>>
    BY <1>16 DEF Restarted, watchVars
  <2>2. Counted
    <3>1. PICK s \in request : unit' \in {Runs(s, "active"), unit}
      BY <1>16 DEF Restarted
    <3> QED
      BY <3>1, RunsIsCounted, SameIsCounted DEF States, Typed, RestTyped
  <2> QED
    BY <2>1, <2>2, ToldKept
<1>17. ASSUME NEW s \in Svcs, Poll(s) PROVE ToldInv'
  <2> SUFFICES ASSUME NEW t \in Svcs
               PROVE  /\ told'[t] <= unit'[t].falls + blind'[t]
                      /\ unit'[t].state = "failed" /\ seen'[t] # "failed" =>
                           told'[t] < unit'[t].falls + blind'[t]
    BY DEF ToldInv
  <2>1. /\ told[t] <= unit[t].falls + blind[t]
        /\ unit[t].state = "failed" /\ seen[t] # "failed" =>
             told[t] < unit[t].falls + blind[t]
        /\ told[t] \in Nat /\ blind[t] \in Nat /\ unit[t].falls \in Nat
    BY FallsAreNumbers DEF ToldInv
  <2> QED
    BY <1>17, <2>1 DEF Poll, Remembered, Typed, RestTyped
<1>18. ASSUME NEW s \in Svcs, PollFails(s) PROVE ToldInv'
  <2> SUFFICES ASSUME NEW t \in Svcs
               PROVE  /\ told'[t] <= unit'[t].falls + blind'[t]
                      /\ unit'[t].state = "failed" /\ seen'[t] # "failed" =>
                           told'[t] < unit'[t].falls + blind'[t]
    BY DEF ToldInv
  <2>1. /\ told[t] <= unit[t].falls + blind[t]
        /\ unit[t].state = "failed" /\ seen[t] # "failed" =>
             told[t] < unit[t].falls + blind[t]
        /\ told[t] \in Nat /\ blind[t] \in Nat /\ unit[t].falls \in Nat
    BY FallsAreNumbers DEF ToldInv
  <2> QED
    BY <1>18, <2>1 DEF PollFails, Remembered, Typed, RestTyped
<1>19. ASSUME NEW s \in Svcs, UnitFails(s) PROVE ToldInv'
  <2>1. UNCHANGED <<told, blind, seen>>
    BY <1>19 DEF UnitFails, watchVars
  <2>2. Counted
    BY <1>19, RunsIsCounted DEF UnitFails, States
  <2> QED
    BY <2>1, <2>2, ToldKept
<1>20. ASSUME NEW reboot \in BOOLEAN, Exit(reboot) PROVE ToldInv'
  <2>1. UNCHANGED <<told, blind, seen>>
    BY <1>20 DEF Exit, watchVars
  <2>2. Counted
    <3>1. ASSUME NEW s \in Svcs, NEW up \in BOOLEAN
          PROVE  LET u == IF s = "wireguard" \/ ~up
                          THEN [unit[s] EXCEPT !.state = "inactive", !.runs = Nothing]
                          ELSE [unit[s] EXCEPT !.state = "active", !.runs = file[s],
                                               !.deaf = (s = "dhcp")]
                 IN  u.falls = unit[s].falls /\ u.state # "failed"
      <4>1. unit[s] \in Units
        BY DEF Typed
      <4> QED
        BY <4>1 DEF Units
    <3>2. CASE unit' = unit
      BY <3>2, SameIsCounted
    <3>3. CASE unit' # unit
      <4>1. PICK up \in BOOLEAN :
              unit' = [s \in Svcs |->
                          IF s = "wireguard" \/ ~up
                          THEN [unit[s] EXCEPT !.state = "inactive", !.runs = Nothing]
                          ELSE [unit[s] EXCEPT !.state = "active", !.runs = file[s],
                                               !.deaf = (s = "dhcp")]]
        BY <1>20, <3>3 DEF Exit
      <4>2. \A s \in Svcs : unit'[s].falls = unit[s].falls /\ unit'[s].state # "failed"
        BY <3>1, <4>1
      <4> QED
        BY <4>2, FallsAreNumbers DEF Counted
    <3> QED
      BY <3>2, <3>3
  <2> QED
    BY <2>1, <2>2, ToldKept
<1>21. CASE Start
  <2> SUFFICES ASSUME NEW t \in Svcs
               PROVE  /\ told'[t] <= unit'[t].falls + blind'[t]
                      /\ unit'[t].state = "failed" /\ seen'[t] # "failed" =>
                           told'[t] < unit'[t].falls + blind'[t]
    BY DEF ToldInv
  <2>1. /\ told[t] <= unit[t].falls + blind[t]
        /\ unit[t].state = "failed" /\ seen[t] # "failed" =>
             told[t] < unit[t].falls + blind[t]
        /\ told[t] \in Nat /\ blind[t] \in Nat /\ unit[t].falls \in Nat
    BY FallsAreNumbers DEF ToldInv
  <2> QED
    BY <1>21, <2>1 DEF Start, Typed, RestTyped
<1>22. CASE RuleRequest
  <2>1. UNCHANGED <<told, blind, seen>>
    BY <1>22 DEF RuleRequest, watchVars
  <2>2. Counted
    BY <1>22, SameIsCounted DEF RuleRequest, applyVars
  <2> QED
    BY <2>1, <2>2, ToldKept
<1>23. CASE RuleStep
  <2>1. UNCHANGED <<told, blind, seen>>
    BY <1>23 DEF RuleStep, watchVars
  <2>2. Counted
    BY <1>23, SameIsCounted DEF RuleStep, applyVars
  <2> QED
    BY <2>1, <2>2, ToldKept
<1>24. CASE UNCHANGED vars
  <2>1. UNCHANGED <<told, blind, seen>>
    BY <1>24 DEF vars, watchVars
  <2>2. Counted
    BY <1>24, SameIsCounted DEF vars
  <2> QED
    BY <2>1, <2>2, ToldKept
<1> QED
  BY <1>1, <1>2, <1>3, <1>4, <1>5, <1>6, <1>7, <1>8, <1>9, <1>10, <1>11,
     <1>12, <1>13, <1>14, <1>15, <1>16, <1>17, <1>18, <1>19, <1>20, <1>21,
     <1>22, <1>23, <1>24
     DEF Next

-----------------------------------------------------------------------------
(* Which configuration a worker applies.  A list is made effective beside  *)
(* an apply or a trial only at the price of a spoiled DNS.                 *)
KindsInv ==
  /\ eng.kind # "refresh" /\ ref.kind \in {"off", "refresh"}
  /\ eng.kind \in {"rollback", "restore", "boot"} => eng.cfg = running
  /\ eng.kind \in {"trial", "restore", "boot"} => trial = << >>
  /\ agent = "down" => eng = Off /\ ref = Off /\ request = {} /\ trial = << >>
  /\ ref # Off => /\ ref.cfg["dns"].on /\ agent = "up"
                  /\ "dns" \notin spoiled =>
                       eng = Off /\ trial = << >> /\ ref.cfg = running

(* The engine goes on with what it is doing.                               *)
LEMMA EngineGoesOn ==
  ASSUME Typed, eng.todo # {}, EngBegin \/ EngFile \/ EngUnit \/ EngStopFails
  PROVE  /\ eng # Off /\ eng' # Off /\ eng'.kind = eng.kind /\ eng'.cfg = eng.cfg
         /\ eng'.warnings = eng.warnings
<1>1. CASE EngBegin
  BY <1>1, BegunMeans, WorkerIsOn DEF EngBegin, Typed, RestTyped
<1>2. CASE EngFile
  BY <1>2, WritingMeans, RemovingMeans, WorkerIsOn DEF EngFile, Typed, Writes, Same
<1>3. CASE EngUnit \/ EngStopFails
  BY <1>3, NextServiceMeans, WorkerIsOn DEF EngUnit, EngStopFails, Typed, Same
<1> QED
  BY <1>1, <1>2, <1>3

(* A refresh goes on with what it is doing.                                *)
LEMMA RefreshGoesOn ==
  ASSUME Typed, RefBegin \/ RefFile
  PROVE  /\ ref # Off /\ ref' # Off /\ ref'.kind = ref.kind /\ ref'.cfg = ref.cfg
         /\ ref'.todo = ref.todo
<1>1. CASE RefBegin
  BY <1>1, BegunMeans, WorkerIsOn DEF RefBegin, Typed, RestTyped
<1>2. CASE RefFile
  BY <1>2, WritingMeans, RemovingMeans, WorkerIsOn DEF RefFile, Typed, Writes, Same
<1> QED
  BY <1>1, <1>2

(* A service that does not start, or whose file cannot be written: a       *)
(* warning, or the end of the apply.                                       *)
LEMMA EngineFails ==
  ASSUME Typed, EngError
  PROVE  LET s == Service(eng) IN
         /\ eng # Off /\ s \in eng.todo /\ s \in Svcs
         /\ \/ /\ s \in Soft /\ eng' # Off
               /\ eng'.kind = eng.kind /\ eng'.cfg = eng.cfg
               /\ eng'.todo = eng.todo \ {s} /\ eng'.at = "begin"
               /\ eng'.warnings = eng.warnings \cup {s}
               /\ UNCHANGED <<trial, warned>> /\ spoiled \subseteq spoiled'
               /\ Stale(unit'[s], file[s]) => s \in spoiled'
            \/ /\ s \notin Soft /\ eng.kind = "trial" /\ warned' = eng.warnings
               /\ eng' = Work("restore", running, Svcs) /\ trial' = << >>
               /\ spoiled \subseteq spoiled'
               /\ Stale(unit'[s], file[s]) => s \in spoiled'
            \/ /\ s \notin Soft /\ eng.kind # "trial" /\ warned' = eng.warnings
               /\ eng' = Off /\ spoiled' = spoiled \cup eng.todo
               /\ trial' = IF eng.kind = "rollback" THEN << >> ELSE trial
<1> DEFINE s == Service(eng)
<1>1. eng # Off /\ s \in eng.todo /\ s \in Svcs /\ eng.kind # "off"
  BY WorkerIsOn DEF EngError, Typed
<1>2. CASE s \in Soft
  <2>1. eng' = [NextService(eng) EXCEPT !.warnings = @ \cup {s}]
        /\ UNCHANGED <<trial, warned>> /\ spoiled' = spoiled \cup LeftStale(s)
    BY <1>2 DEF EngError
  <2>2. LET v == NextService(eng) IN
        /\ v \in Workers /\ v.kind = eng.kind /\ v.cfg = eng.cfg
        /\ v.warnings = eng.warnings /\ v.todo = eng.todo \ {s} /\ v.at = "begin"
    BY NextServiceMeans DEF EngError, Typed, WorkerTyped, Same
  <2> HIDE DEF s
  <2>3. /\ eng'.kind = eng.kind /\ eng'.cfg = eng.cfg
        /\ eng'.todo = eng.todo \ {s} /\ eng'.at = "begin"
        /\ eng'.warnings = eng.warnings \cup {s}
    BY <2>1, <2>2 DEF Workers
  <2>4. eng' # Off
    BY <1>1, <2>3, OffIsTyped
  <2> QED
    BY <1>1, <1>2, <2>1, <2>3, <2>4 DEF s, LeftStale
<1>3. CASE s \notin Soft /\ eng.kind = "trial"
  BY <1>1, <1>3 DEF EngError, LeftStale
<1>4. CASE s \notin Soft /\ eng.kind # "trial"
  BY <1>1, <1>4 DEF EngError
<1> QED
  BY <1>2, <1>3, <1>4

(* Every step keeps that.                                                  *)
LEMMA KindsStep ==
  ASSUME Typed, KindsInv, [Next]_vars PROVE KindsInv'
<1>1. ASSUME NEW c \in Configs, Apply(c) PROVE KindsInv'
  <2>1. eng' = Work("trial", c, Svcs) /\ eng' # Off /\ eng'.kind = "trial"
    BY <1>1, WorkTyped DEF Apply, Begin, Kinds
  <2> QED
    BY <1>1, <2>1 DEF KindsInv, Apply, Begin, OverlapsRefresh, otherVars
<1>2. CASE Rollback
  <2>1. eng' # Off /\ eng'.kind = "rollback" /\ eng'.cfg = running
    BY <1>2, WorkTyped DEF Rollback, Begin, Kinds, Typed, ConfigsTyped
  <2> QED
    BY <1>2, <2>1 DEF KindsInv, Rollback, Begin, OverlapsRefresh, otherVars
<1>3. CASE Confirm
  <2>1. eng = Off /\ eng.kind = "off"
    BY <1>3, OffIsTyped DEF Confirm
  <2> QED
    BY <1>3, <2>1 DEF KindsInv, Confirm, otherVars
<1>4. CASE EngBegin
  <2>1. /\ eng # Off /\ eng' # Off /\ eng'.kind = eng.kind /\ eng'.cfg = eng.cfg
    BY <1>4, EngineGoesOn DEF EngBegin
  <2> QED
    BY <1>4, <2>1 DEF KindsInv, EngBegin, otherVars
<1>5. CASE EngFile
  <2>1. /\ eng # Off /\ eng' # Off /\ eng'.kind = eng.kind /\ eng'.cfg = eng.cfg
    BY <1>5, EngineGoesOn DEF EngFile
  <2> QED
    BY <1>5, <2>1 DEF KindsInv, EngFile, otherVars
<1>6. CASE EngUnit
  <2>1. /\ eng # Off /\ eng' # Off /\ eng'.kind = eng.kind /\ eng'.cfg = eng.cfg
    BY <1>6, EngineGoesOn DEF EngUnit
  <2> QED
    BY <1>6, <2>1 DEF KindsInv, EngUnit, otherVars, Settled
<1>7. CASE EngStopFails
  <2>1. /\ eng # Off /\ eng' # Off /\ eng'.kind = eng.kind /\ eng'.cfg = eng.cfg
    BY <1>7, EngineGoesOn DEF EngStopFails
  <2> QED
    BY <1>7, <2>1 DEF KindsInv, EngStopFails, otherVars
<1>8. CASE EngDone
  BY <1>8, OffIsTyped DEF KindsInv, EngDone, otherVars
<1>9. CASE EngError
  <2>1. eng # Off /\ spoiled \subseteq spoiled' /\ agent = "up"
    BY <1>9, EngineFails DEF KindsInv, Typed, RestTyped
  <2>2. UNCHANGED <<running, ref, agent, request>>
    BY <1>9 DEF EngError, otherVars
  <2>3. \/ eng'.kind = eng.kind /\ eng'.cfg = eng.cfg /\ trial' = trial
        \/ eng' = Off /\ eng'.kind = "off"
        \/ eng'.kind = "restore" /\ eng'.cfg = running /\ trial' = << >>
    <3>1. LET v == Work("restore", running, Svcs) IN v.kind = "restore" /\ v.cfg = running
      BY WorkTyped DEF Typed, ConfigsTyped, Kinds
    <3> QED
      BY <1>9, <3>1, EngineFails, OffIsTyped
  <2> QED
    BY <2>1, <2>2, <2>3 DEF KindsInv
<1>10. ASSUME NEW stored \in BOOLEAN, Refresh(stored) PROVE KindsInv'
  <2>1. LET v == Work("refresh", running, {"dns"}) IN
        v.kind = "refresh" /\ v.cfg = running
    BY <1>10, WorkTyped DEF Refresh, Typed, ConfigsTyped, Kinds
  <2> QED
    BY <1>10, <2>1, OffIsTyped DEF KindsInv, Refresh, Serving, applyVars
<1>11. CASE RefBegin
  BY <1>11, RefreshGoesOn DEF KindsInv, RefBegin, applyVars, otherVars
<1>12. CASE RefFile
  BY <1>12, RefreshGoesOn DEF KindsInv, RefFile, applyVars, otherVars
<1>13. CASE RefUnit
  BY <1>13, OffIsTyped DEF KindsInv, RefUnit, applyVars, otherVars
<1>14. CASE RefError
  BY <1>14, OffIsTyped DEF KindsInv, RefError, applyVars, otherVars
<1>15. ASSUME NEW s \in Svcs, RestartRequest(s) PROVE KindsInv'
  BY <1>15 DEF KindsInv, RestartRequest, Serving, applyVars
<1>16. CASE Restarted
  BY <1>16 DEF KindsInv, Restarted, applyVars
<1>17. ASSUME NEW s \in Svcs, Poll(s) PROVE KindsInv'
  BY <1>17 DEF KindsInv, Poll, applyVars, otherVars
<1>18. ASSUME NEW s \in Svcs, PollFails(s) PROVE KindsInv'
  BY <1>18 DEF KindsInv, PollFails, applyVars, otherVars
<1>19. ASSUME NEW s \in Svcs, UnitFails(s) PROVE KindsInv'
  BY <1>19 DEF KindsInv, UnitFails, applyVars, otherVars
<1>20. ASSUME NEW reboot \in BOOLEAN, Exit(reboot) PROVE KindsInv'
  BY <1>20, OffIsTyped DEF KindsInv, Exit
<1>21. CASE Start
  <2>1. LET v == Work("boot", running, Svcs) IN
        v.kind = "boot" /\ v.cfg = running
    BY WorkTyped DEF Typed, ConfigsTyped, Kinds
  <2> QED
    BY <1>21, <2>1 DEF KindsInv, Start
<1>22. CASE RuleRequest
  BY <1>22 DEF KindsInv, RuleRequest, applyVars, otherVars
<1>23. CASE RuleStep
  BY <1>23 DEF KindsInv, RuleStep, applyVars, otherVars
<1>24. CASE UNCHANGED vars
  BY <1>24 DEF KindsInv, vars
<1> QED
  BY <1>1, <1>2, <1>3, <1>4, <1>5, <1>6, <1>7, <1>8, <1>9, <1>10, <1>11,
     <1>12, <1>13, <1>14, <1>15, <1>16, <1>17, <1>18, <1>19, <1>20, <1>21,
     <1>22, <1>23, <1>24
     DEF Next

(* DNS stays the service of a list.                                        *)
LEMMA RefStep ==
  ASSUME Typed, RefInv, Svcs' = Svcs, [Next]_vars PROVE RefInv'
<1>1. ASSUME NEW c \in Configs, Apply(c) PROVE RefInv'
  BY <1>1 DEF RefInv, Apply
<1>2. CASE Rollback
  BY <1>2 DEF RefInv, Rollback
<1>3. CASE Confirm
  BY <1>3 DEF RefInv, Confirm
<1>4. CASE EngBegin
  BY <1>4 DEF RefInv, EngBegin
<1>5. CASE EngFile
  BY <1>5 DEF RefInv, EngFile
<1>6. CASE EngUnit
  BY <1>6 DEF RefInv, EngUnit
<1>7. CASE EngStopFails
  BY <1>7 DEF RefInv, EngStopFails
<1>8. CASE EngDone
  BY <1>8 DEF RefInv, EngDone
<1>9. CASE EngError
  BY <1>9 DEF RefInv, EngError
<1>10. ASSUME NEW stored \in BOOLEAN, Refresh(stored) PROVE RefInv'
  <2>1. LET v == Work("refresh", running, {"dns"}) IN v.todo = {"dns"}
    <3>1. running \in Configs /\ {"dns"} \in SUBSET Svcs /\ "refresh" \in Kinds \ {"off"}
      BY <1>10 DEF Refresh, Typed, ConfigsTyped, Kinds
    <3> QED
      BY <3>1, WorkTyped
  <2> QED
    BY <1>10, <2>1 DEF RefInv, Refresh
<1>11. CASE RefBegin
  BY <1>11, RefreshGoesOn DEF RefInv, RefBegin
<1>12. CASE RefFile
  BY <1>12, RefreshGoesOn DEF RefInv, RefFile
<1>13. CASE RefUnit
  BY <1>13 DEF RefInv, RefUnit
<1>14. CASE RefError
  BY <1>14 DEF RefInv, RefError
<1>15. ASSUME NEW s \in Svcs, RestartRequest(s) PROVE RefInv'
  BY <1>15 DEF RefInv, RestartRequest
<1>16. CASE Restarted
  BY <1>16 DEF RefInv, Restarted
<1>17. ASSUME NEW s \in Svcs, Poll(s) PROVE RefInv'
  BY <1>17 DEF RefInv, Poll
<1>18. ASSUME NEW s \in Svcs, PollFails(s) PROVE RefInv'
  BY <1>18 DEF RefInv, PollFails
<1>19. ASSUME NEW s \in Svcs, UnitFails(s) PROVE RefInv'
  BY <1>19 DEF RefInv, UnitFails
<1>20. ASSUME NEW reboot \in BOOLEAN, Exit(reboot) PROVE RefInv'
  BY <1>20 DEF RefInv, Exit
<1>21. CASE Start
  BY <1>21 DEF RefInv, Start
<1>22. CASE RuleRequest
  BY <1>22 DEF RefInv, RuleRequest
<1>23. CASE RuleStep
  BY <1>23 DEF RefInv, RuleStep
<1>24. CASE UNCHANGED vars
  BY <1>24 DEF RefInv, vars
<1> QED
  BY <1>1, <1>2, <1>3, <1>4, <1>5, <1>6, <1>7, <1>8, <1>9, <1>10, <1>11,
     <1>12, <1>13, <1>14, <1>15, <1>16, <1>17, <1>18, <1>19, <1>20, <1>21,
     <1>22, <1>23, <1>24
     DEF Next

-----------------------------------------------------------------------------
(* What a worker has in hand: the plan fits the setting, what is no longer *)
(* to be written is there, as the configuration has it unless something    *)
(* else meddles (sp), and lists are the last ones if the worker has the    *)
(* last one.  f are the files of the service, fd is the number of lists.   *)
PlanFits(s, c, p, f) ==
  /\ ShouldRun(s, c) =>
       ~p.remove /\ p.unit \in {"needed", "always"} /\ p.write \subseteq Parts(c)
  /\ ~ShouldRun(s, c) =>
       /\ p.write = {}
       /\ s \notin {"syslog", "ntp"} => p.unit = "stop" /\ ~p.remove
       /\ s \in {"syslog", "ntp"} =>
            \/ p.remove /\ p.unit = "always"
            \/ ~p.remove /\ p.unit = "none" /\ f = Nothing

PartFits(w, p, c, f, sp, fd) ==
  /\ p \in DOMAIN f
  /\ p # "blocklist" /\ ~sp => f[p] = c
  /\ p = "blocklist" /\ w.domains = fd /\ (w.kind = "refresh" => ~sp) =>
       f[p].domains = fd

FilesFit(w, s, c, f, sp, fd) ==
  /\ PlanFits(s, c, w.plan, f)
  /\ w.at = "unit" => w.plan.write = {} /\ (w.plan.remove => f = Nothing)
  /\ ShouldRun(s, c) => \A p \in Parts(c) \ w.plan.write : PartFits(w, p, c, f, sp, fd)
  /\ ~ShouldRun(s, c) => ~w.changed
  /\ s \in Soft /\ w.at = "files" /\ w.plan.write # {} => ~w.changed

Busy(w) == w.todo # {} /\ w.at # "begin"

EngFiles(w, files, sp, fd) ==
  Busy(w) =>
    LET s == Service(w) IN
    /\ FilesFit(w, s, w.cfg[s], files[s], s \in sp, fd)
    /\ s = "dns" /\ s \notin sp => w.domains = fd

RefFiles(w, files, sp, fd) ==
  Busy(w) =>
    /\ FilesFit(w, "dns", w.cfg["dns"], files["dns"], "dns" \in sp, fd)
    /\ w.domains = fd

FilesInv == EngFiles(eng, file, spoiled, feed) /\ RefFiles(ref, file, spoiled, feed)

(* The parts of a setting.                                                 *)
LEMMA PartsOf ==
  ASSUME NEW c
  PROVE  /\ "main" \in Parts(c) /\ Parts(c) \subseteq PartNames
         /\ ~c.list => "blocklist" \notin Parts(c)
         /\ c.list => "blocklist" \in Parts(c)
         /\ c.hosts => "hosts" \in Parts(c)
         /\ ~c.list /\ ~c.hosts => Parts(c) = {"main"}
  BY Names DEF Parts

(* The plan of every adapter fits, ...                                     *)
LEMMA PlanOfFits ==
  ASSUME LeftTyped, NEW s \in Svcs, NEW cfg \in Configs, NEW boot \in BOOLEAN
  PROVE  LET c == cfg[s]
             p == PlanOf(s, c, boot)
         IN  /\ PlanFits(s, c, p, file[s])
             /\ ShouldRun(s, c) => p.write = Parts(c)
<1> DEFINE c == cfg[s]
           p == PlanOf(s, c, boot)
<1>1. /\ c \in Setting /\ s \in AllServices
      /\ c.list \/ c.hosts => s = "dns"
      /\ c.down => s = "ids"
  BY SettingOfService
<1>2. s # "dns" => Parts(c) = {"main"}
  BY <1>1, PartsOf
<1> HIDE DEF c
<1>3. PlanFits(s, c, p, file[s])
  BY <1>1, <1>2, Names
     DEF PlanFits, ShouldRun, PlanOf, Dhcp, Wireguard, Openvpn, Dns, Syslog, Ntp,
         Ids, Sni, Plan, RemoveThen
<1>4. ShouldRun(s, c) => p.write = Parts(c)
  BY <1>1, <1>2, Names
     DEF ShouldRun, PlanOf, Dhcp, Wireguard, Openvpn, Dns, Syslog, Ntp, Ids, Sni,
         Plan, RemoveThen
<1> QED
  BY <1>3, <1>4 DEF c

(* ... so that what has just been begun does.                              *)
LEMMA BegunFits ==
  ASSUME Typed, NEW w, WorkerTyped(w), w.todo # {}, w.at = "begin",
         NEW sp \in BOOLEAN, NEW fd
  PROVE  LET s == Service(w) IN
         FilesFit(Begun(w), s, w.cfg[s], file[s], sp, fd)
<1> DEFINE s == Service(w)
           v == Begun(w)
<1>1. s \in Svcs /\ w.cfg \in Configs /\ (w.kind = "boot") \in BOOLEAN
  BY WorkerIsOn DEF Typed
<1>2. v.plan = PlanOf(s, w.cfg[s], w.kind = "boot") /\ ~v.changed /\ v.at = "files"
  BY BegunMeans DEF Typed, RestTyped
<1>3. PlanFits(s, w.cfg[s], v.plan, file[s])
      /\ (ShouldRun(s, w.cfg[s]) => v.plan.write = Parts(w.cfg[s]))
  BY <1>1, <1>2, PlanOfFits DEF Typed
<1> HIDE DEF s, v
<1> QED
  BY <1>2, <1>3 DEF FilesFit, s, v

(* Writing a part, ...                                                     *)
LEMMA WriteFits ==
  ASSUME NEW w, NEW v, NEW s, NEW c, NEW f, NEW p \in w.plan.write,
         NEW content \in Contents(p, c, w.domains), NEW sp \in BOOLEAN, NEW fd,
         w.plan \in Plans, w.at = "files", s # "dns" => Parts(c) = {"main"},
         FilesFit(w, s, c, f, sp, fd), Same(v, w), v.at = "files",
         v.plan = [w.plan EXCEPT !.write = @ \ {p}]
  PROVE  FilesFit(v, s, c, Put(f, p, content), sp, fd)
<1> DEFINE g == Put(f, p, content)
<1>1. ShouldRun(s, c) /\ w.plan.write \subseteq Parts(c)
  BY DEF FilesFit, PlanFits
<1>2. /\ v.plan.write = w.plan.write \ {p} /\ v.plan.remove = w.plan.remove
      /\ v.plan.unit = w.plan.unit
  BY DEF Plans
<1>3. DOMAIN g = DOMAIN f \cup {p} /\ g[p] = content
      /\ \A q \in DOMAIN f : q # p => g[q] = f[q]
  BY DEF Put
<1>4. p # "blocklist" => content = c
  BY DEF Contents
<1>5. p = "blocklist" => content.domains = w.domains
  BY DEF Contents, BlocklistContents
<1>6. ASSUME NEW q \in Parts(c) \ v.plan.write PROVE PartFits(v, q, c, g, sp, fd)
  <2>1. CASE q = p
    BY <1>3, <1>4, <1>5, <2>1 DEF PartFits, Same
  <2>2. CASE q # p
    <3>1. PartFits(w, q, c, f, sp, fd)
      BY <1>1, <1>2, <1>6, <2>2 DEF FilesFit
    <3> HIDE DEF g
    <3> QED
      BY <1>3, <2>2, <3>1 DEF PartFits, Same
  <2> QED
    BY <2>1, <2>2
<1>7. s \in Soft => v.plan.write = {}
  <2>1. s \in Soft => s # "dns"
    BY DEF Soft
  <2> QED
    BY <1>1, <1>2, <2>1
<1>8. PlanFits(s, c, v.plan, g)
  BY <1>1, <1>2 DEF FilesFit, PlanFits
<1> HIDE DEF g
<1> QED
  BY <1>1, <1>6, <1>7, <1>8 DEF FilesFit, g

(* ... removing the files, ...                                             *)
LEMMA RemoveFits ==
  ASSUME NEW w, NEW v, NEW s, NEW c, NEW f, NEW sp \in BOOLEAN, NEW fd,
         FilesFit(w, s, c, f, sp, fd), w.plan.write = {}, Same(v, w), v.at = "unit",
         v.plan = w.plan, v.changed = w.changed
  PROVE  FilesFit(v, s, c, IF w.plan.remove THEN Nothing ELSE f, sp, fd)
<1> DEFINE g == IF w.plan.remove THEN Nothing ELSE f
<1>1. PlanFits(s, c, v.plan, g)
  BY DEF FilesFit, PlanFits
<1>2. ShouldRun(s, c) => g = f
  BY DEF FilesFit, PlanFits
<1>3. ShouldRun(s, c) => \A p \in Parts(c) \ v.plan.write : PartFits(v, p, c, g, sp, fd)
  BY <1>2 DEF FilesFit, PartFits, Same
<1> QED
  BY <1>1, <1>3 DEF FilesFit

(* ... and what others do meanwhile: meddle, fetch a list, or write a part *)
(* of DNS, where this spoils.                                              *)
LEMMA SpoiledFits ==
  ASSUME NEW w, NEW s, NEW c, NEW f, NEW sp \in BOOLEAN, NEW fd, NEW sq \in BOOLEAN,
         FilesFit(w, s, c, f, sp, fd), sp => sq
  PROVE  FilesFit(w, s, c, f, sq, fd)
  BY DEF FilesFit, PartFits

(* A new list makes the one in hand an old one, ...                        *)
LEMMA FetchedFits ==
  ASSUME NEW w, NEW s, NEW c, NEW f, NEW sp \in BOOLEAN, NEW fd, NEW ge,
         FilesFit(w, s, c, f, sp, fd), w.domains # ge
  PROVE  FilesFit(w, s, c, f, sp, ge)
  BY DEF FilesFit, PartFits

(* ... and another writer may put its own part.                            *)
LEMMA MeddledFits ==
  ASSUME NEW w, NEW c, NEW f, NEW fd, NEW p, NEW d, NEW domains,
         NEW content \in Contents(p, d, domains),
         FilesFit(w, "dns", c, f, TRUE, fd), w.kind = "refresh" \/ domains = fd
  PROVE  FilesFit(w, "dns", c, Put(f, p, content), TRUE, fd)
<1> DEFINE g == Put(f, p, content)
<1>1. DOMAIN g = DOMAIN f \cup {p} /\ g[p] = content
      /\ \A q \in DOMAIN f : q # p => g[q] = f[q]
  BY DEF Put
<1>2. p = "blocklist" => content.domains = domains
  BY DEF Contents, BlocklistContents
<1> HIDE DEF g
<1>3. ASSUME NEW q, PartFits(w, q, c, f, TRUE, fd)
      PROVE  PartFits(w, q, c, g, TRUE, fd)
  BY <1>1, <1>2, <1>3 DEF PartFits
<1>4. PlanFits("dns", c, w.plan, g)
  BY DEF FilesFit, PlanFits
<1>5. w.plan.remove => FALSE
  BY DEF FilesFit, PlanFits
<1> QED
  BY <1>3, <1>4, <1>5 DEF FilesFit, g

(* What does not concern the files of the engine, ...                      *)
LEMMA EngFilesStay ==
  ASSUME FilesInv, eng' = eng, file' = file, feed' = feed, spoiled \subseteq spoiled'
  PROVE  EngFiles(eng', file', spoiled', feed')
<1> DEFINE s == Service(eng)
<1>1. CASE Busy(eng)
  <2>1. FilesFit(eng, s, eng.cfg[s], file[s], s \in spoiled, feed)
        /\ (s = "dns" /\ s \notin spoiled => eng.domains = feed)
    BY <1>1 DEF FilesInv, EngFiles
  <2>2. (s \in spoiled) \in BOOLEAN /\ (s \in spoiled') \in BOOLEAN
        /\ (s \in spoiled => s \in spoiled')
    OBVIOUS
  <2> HIDE DEF s
  <2>3. FilesFit(eng, s, eng.cfg[s], file[s], s \in spoiled', feed)
    BY <2>1, <2>2, SpoiledFits
  <2> QED
    BY <2>1, <2>3 DEF EngFiles, s
<1>2. CASE ~Busy(eng)
  BY <1>2 DEF EngFiles
<1> QED
  BY <1>1, <1>2

(* ... or those of the refresh.                                            *)
LEMMA RefFilesStay ==
  ASSUME FilesInv, ref' = ref, file' = file, feed' = feed,
         Busy(ref) /\ "dns" \in spoiled => "dns" \in spoiled'
  PROVE  RefFiles(ref', file', spoiled', feed')
<1>1. CASE Busy(ref)
  <2>1. FilesFit(ref, "dns", ref.cfg["dns"], file["dns"], "dns" \in spoiled, feed)
        /\ ref.domains = feed
    BY <1>1 DEF FilesInv, RefFiles
  <2>2. ("dns" \in spoiled) \in BOOLEAN /\ ("dns" \in spoiled') \in BOOLEAN
    OBVIOUS
  <2>3. FilesFit(ref, "dns", ref.cfg["dns"], file["dns"], "dns" \in spoiled', feed)
    BY <1>1, <2>1, <2>2, SpoiledFits
  <2> QED
    BY <2>1, <2>3 DEF RefFiles
<1>2. CASE ~Busy(ref)
  BY <1>2 DEF RefFiles
<1> QED
  BY <1>1, <1>2

(* Who is busy has a service; a list that is busy is one of DNS.           *)
LEMMA RefreshIsOfDns ==
  ASSUME Typed, RefInv, KindsInv, ref # Off
  PROVE  /\ ref.todo = {"dns"} /\ Service(ref) = "dns" /\ "dns" \in Svcs
         /\ ref.kind = "refresh" /\ ref.cfg \in Configs
         /\ ref.cfg["dns"].on /\ ShouldRun("dns", ref.cfg["dns"])
         /\ eng # Off => "dns" \in spoiled
<1>1. ref.todo = {"dns"} /\ "dns" \in Svcs /\ ref.cfg \in Configs
  BY DEF RefInv, Typed, WorkerTyped
<1>2. Service(ref) = "dns"
  BY <1>1, WorkerIsOn DEF Typed
<1>3. ref.kind = "refresh"
  BY DEF KindsInv, Typed, WorkerTyped
<1>4. ref.cfg["dns"].on /\ ~ref.cfg["dns"].down
  BY <1>1, SettingOfService DEF KindsInv, Typed
<1> QED
  BY <1>1, <1>2, <1>3, <1>4 DEF KindsInv, ShouldRun

(* Services other than DNS have one file.                                  *)
LEMMA PartsOfOthers ==
  ASSUME LeftTyped, NEW s \in Svcs, NEW c \in Configs, s # "dns"
  PROVE  Parts(c[s]) = {"main"}
  BY SettingOfService, PartsOf

(* The part that a worker writes fits its plan.                            *)
LEMMA WrittenFits ==
  ASSUME Typed, NEW w, NEW v, WorkerTyped(w), w.todo # {}, w.at = "files",
         NEW p \in w.plan.write,
         NEW content \in Contents(p, w.cfg[Service(w)], w.domains),
         Writes(w, v, p, content), NEW sp \in BOOLEAN,
         FilesFit(w, Service(w), w.cfg[Service(w)], file[Service(w)], sp, feed)
  PROVE  FilesFit(v, Service(w), w.cfg[Service(w)], file'[Service(w)], sp, feed)
<1> DEFINE s == Service(w)
<1>1. s \in Svcs /\ w.cfg \in Configs
  BY WorkerIsOn DEF Typed
<1>2. file'[s] = Put(file[s], p, content)
  BY <1>1 DEF Writes, Typed
<1>3. s # "dns" => Parts(w.cfg[s]) = {"main"}
  BY <1>1, PartsOfOthers DEF Typed
<1>4. w.plan \in Plans
  BY DEF WorkerTyped, Workers
<1>5. Same(v, w) /\ v.at = "files" /\ v.plan = [w.plan EXCEPT !.write = @ \ {p}]
  BY DEF Writes
<1>6. content \in Contents(p, w.cfg[s], w.domains)
      /\ FilesFit(w, s, w.cfg[s], file[s], sp, feed)
  OBVIOUS
<1> HIDE DEF s
<1>7. FilesFit(v, s, w.cfg[s], Put(file[s], p, content), sp, feed)
  BY <1>3, <1>4, <1>5, <1>6, WriteFits
<1> QED
  BY <1>2, <1>7 DEF s

FilesNext ==
  EngFiles(eng', file', spoiled', feed') /\ RefFiles(ref', file', spoiled', feed')

(* Every step keeps the files as far as they are written.                  *)
LEMMA FilesStep ==
  ASSUME Typed, RefInv, KindsInv, FilesInv, [Next]_vars PROVE FilesInv'
<1> SUFFICES FilesNext
  BY DEF FilesNext, FilesInv, EngFiles, RefFiles, FilesFit, PlanFits, PartFits, Busy, Service, ShouldRun
<1> USE DEF FilesNext
<1>1. ASSUME NEW c \in Configs, Apply(c) PROVE FilesNext
  <2>1. eng' = Off \/ eng'.at = "begin"
    <3>1. Work("trial", c, Svcs).at = "begin"
      BY WorkTyped DEF Kinds
    <3> QED
      BY <1>1, <3>1 DEF Apply, Begin
  <2>2. UNCHANGED <<ref, file, feed>>
        /\ (Busy(ref) /\ "dns" \in spoiled => "dns" \in spoiled')
    BY <1>1 DEF Apply, OverlapsRefresh, otherVars
  <2>3. EngFiles(eng', file', spoiled', feed')
    BY <2>1, OffIsTyped DEF EngFiles, Busy
  <2> QED
    BY <2>2, <2>3, RefFilesStay
<1>2. CASE Rollback
  <2>1. eng' = Off \/ eng'.at = "begin"
    BY <1>2, WorkTyped DEF Rollback, Begin, Kinds, Typed, ConfigsTyped
  <2>2. UNCHANGED <<ref, file, feed>>
        /\ (Busy(ref) /\ "dns" \in spoiled => "dns" \in spoiled')
    BY <1>2 DEF Rollback, OverlapsRefresh, otherVars
  <2>3. EngFiles(eng', file', spoiled', feed')
    BY <2>1, OffIsTyped DEF EngFiles, Busy
  <2> QED
    BY <2>2, <2>3, RefFilesStay
<1>3. CASE Confirm
  <2>1. UNCHANGED <<eng, ref, file, feed>> /\ spoiled \subseteq spoiled'
    BY <1>3 DEF Confirm, otherVars
  <2> QED
    BY <2>1, EngFilesStay, RefFilesStay
<1>4. CASE EngBegin
  <2> DEFINE s == Service(eng)
  <2>1. s \in Svcs /\ eng # Off /\ eng' = Begun(eng) /\ eng'.todo = eng.todo
        /\ eng'.cfg = eng.cfg /\ eng'.domains = feed
    BY <1>4, WorkerIsOn, BegunMeans DEF EngBegin, Typed, RestTyped
  <2>2. UNCHANGED <<ref, file, feed, spoiled>>
    BY <1>4 DEF EngBegin, otherVars
  <2>3. FilesFit(eng', s, eng.cfg[s], file[s], s \in spoiled, feed)
    <3>1. (s \in spoiled) \in BOOLEAN
      OBVIOUS
    <3> QED
      BY <1>4, <2>1, <3>1, BegunFits DEF EngBegin, Typed
  <2>4. Service(eng') = s
    BY <2>1 DEF Service
  <2> HIDE DEF s
  <2>5. EngFiles(eng', file', spoiled', feed')
    BY <2>1, <2>2, <2>3, <2>4 DEF EngFiles
  <2> QED
    BY <2>2, <2>5, RefFilesStay
<1>5. CASE EngFile
  <2> DEFINE s == Service(eng)
  <2>1. s \in Svcs /\ eng # Off /\ eng.todo # {}
    BY <1>5, WorkerIsOn DEF EngFile, Typed
  <2>2. UNCHANGED <<ref, feed, spoiled>>
    BY <1>5 DEF EngFile, otherVars
  <2>3. CASE FileWritten(eng, eng')
    <3>1. eng.at = "files"
      BY <2>1, <2>3, WritingMeans DEF Typed
    <3>2. PICK p \in eng.plan.write : \E content \in Contents(p, eng.cfg[s], eng.domains) :
            Writes(eng, eng', p, content)
      BY <2>1, <2>3, WritingMeans DEF Typed
    <3>3. PICK content \in Contents(p, eng.cfg[s], eng.domains) :
            Writes(eng, eng', p, content)
      BY <3>2
    <3>4. /\ Same(eng', eng) /\ eng'.todo = eng.todo
          /\ file' = [file EXCEPT ![s] = Put(file[s], p, content)]
      BY <3>3 DEF Writes
    <3>5. Service(eng') = s
      BY <3>4 DEF Service
    <3>6. FilesFit(eng, s, eng.cfg[s], file[s], s \in spoiled, feed)
          /\ (s = "dns" /\ s \notin spoiled => eng.domains = feed)
      BY <2>1, <3>1 DEF FilesInv, EngFiles, Busy
    <3>7. FilesFit(eng', s, eng.cfg[s], file'[s], s \in spoiled, feed)
      <4>1. (s \in spoiled) \in BOOLEAN
        OBVIOUS
      <4> QED
        BY <2>1, <3>1, <3>3, <3>6, <4>1, WrittenFits DEF Typed
    <3> HIDE DEF s
    <3>8. EngFiles(eng', file', spoiled', feed')
      BY <2>2, <3>4, <3>5, <3>6, <3>7 DEF EngFiles, Same
    <3>9. ASSUME Busy(ref) PROVE RefFiles(ref', file', spoiled', feed')
      <4>1. ref # Off
        BY <3>9, OffIsTyped DEF Busy
      <4>2. ref.kind = "refresh" /\ "dns" \in spoiled /\ "dns" \in Svcs
        BY <2>1, <4>1, RefreshIsOfDns
      <4>3. FilesFit(ref, "dns", ref.cfg["dns"], file["dns"], TRUE, feed)
            /\ ref.domains = feed
        BY <3>9, <4>2 DEF FilesInv, RefFiles
      <4>4. FilesFit(ref, "dns", ref.cfg["dns"], file'["dns"], TRUE, feed)
        <5>1. CASE s = "dns"
          <6>1. file'["dns"] = Put(file["dns"], p, content)
            BY <2>1, <3>4, <5>1 DEF Typed
          <6> QED
            BY <3>3, <4>2, <4>3, <6>1, MeddledFits
        <5>2. CASE s # "dns"
          BY <3>4, <4>2, <4>3, <5>2 DEF Typed
        <5> QED
          BY <5>1, <5>2
      <4> QED
        BY <2>2, <4>2, <4>3, <4>4 DEF RefFiles
    <3> QED
      BY <2>2, <3>8, <3>9 DEF RefFiles
  <2>4. CASE FilesRemoved(eng, eng')
    <3>1. /\ eng.at = "files" /\ eng.plan.write = {} /\ Same(eng', eng)
          /\ eng'.todo = eng.todo /\ eng'.at = "unit" /\ eng'.plan = eng.plan
          /\ eng'.changed = eng.changed
          /\ file' = IF eng.plan.remove THEN [file EXCEPT ![s] = Nothing] ELSE file
      BY <2>1, <2>4, RemovingMeans DEF Typed
    <3>2. Service(eng') = s
      BY <3>1 DEF Service
    <3>3. FilesFit(eng, s, eng.cfg[s], file[s], s \in spoiled, feed)
          /\ (s = "dns" /\ s \notin spoiled => eng.domains = feed)
      BY <2>1, <3>1 DEF FilesInv, EngFiles, Busy
    <3> HIDE DEF s
    <3>4. file'[s] = IF eng.plan.remove THEN Nothing ELSE file[s]
      BY <2>1, <3>1 DEF Typed
    <3>5. FilesFit(eng', s, eng.cfg[s], file'[s], s \in spoiled, feed)
      <4>1. (s \in spoiled) \in BOOLEAN
        OBVIOUS
      <4>2. FilesFit(eng', s, eng.cfg[s],
                     IF eng.plan.remove THEN Nothing ELSE file[s],
                     s \in spoiled, feed)
        BY <3>1, <3>3, <4>1, RemoveFits
      <4> QED
        BY <3>4, <4>2
    <3>6. EngFiles(eng', file', spoiled', feed')
      BY <2>2, <3>1, <3>2, <3>3, <3>5 DEF EngFiles, Same
    <3>7. file'["dns"] = file["dns"]
      <4>1. s = "dns" => ~eng.plan.remove
        BY <3>3 DEF FilesFit, PlanFits
      <4> QED
        BY <3>1, <4>1 DEF Typed
    <3>8. RefFiles(ref', file', spoiled', feed')
      BY <2>2, <3>7 DEF FilesInv, RefFiles
    <3> QED
      BY <3>6, <3>8
  <2> QED
    BY <1>5, <2>3, <2>4 DEF EngFile
<1>6. CASE EngUnit
  <2>1. eng' = Off \/ eng'.at = "begin"
    BY <1>6, NextServiceMeans DEF EngUnit, Typed
  <2>2. UNCHANGED <<ref, file, feed>>
        /\ (Busy(ref) /\ "dns" \in spoiled => "dns" \in spoiled')
    BY <1>6, OffIsTyped DEF EngUnit, Settled, Busy, otherVars
  <2>3. EngFiles(eng', file', spoiled', feed')
    BY <2>1, OffIsTyped DEF EngFiles, Busy
  <2> QED
    BY <2>2, <2>3, RefFilesStay
<1>7. CASE EngStopFails
  <2>1. eng' = Off \/ eng'.at = "begin"
    BY <1>7, NextServiceMeans DEF EngStopFails, Typed
  <2>2. UNCHANGED <<ref, file, feed>>
        /\ (Busy(ref) /\ "dns" \in spoiled => "dns" \in spoiled')
    BY <1>7 DEF EngStopFails, otherVars
  <2>3. EngFiles(eng', file', spoiled', feed')
    BY <2>1, OffIsTyped DEF EngFiles, Busy
  <2> QED
    BY <2>2, <2>3, RefFilesStay
<1>8. CASE EngDone
  <2>1. eng' = Off \/ eng'.at = "begin"
    BY <1>8 DEF EngDone
  <2>2. UNCHANGED <<ref, file, feed>>
        /\ (Busy(ref) /\ "dns" \in spoiled => "dns" \in spoiled')
    BY <1>8 DEF EngDone, otherVars
  <2>3. EngFiles(eng', file', spoiled', feed')
    BY <2>1, OffIsTyped DEF EngFiles, Busy
  <2> QED
    BY <2>2, <2>3, RefFilesStay
<1>9. CASE EngError
  <2>1. eng' = Off \/ eng'.at = "begin"
    <3>1. Work("restore", running, Svcs).at = "begin"
      BY WorkTyped DEF Kinds, Typed, ConfigsTyped
    <3> QED
      BY <1>9, <3>1, EngineFails
  <2>2. UNCHANGED <<ref, file, feed>>
        /\ (Busy(ref) /\ "dns" \in spoiled => "dns" \in spoiled')
    <3>1. spoiled \subseteq spoiled'
      BY <1>9, EngineFails
    <3> QED
      BY <1>9, <3>1 DEF EngError, otherVars
  <2>3. EngFiles(eng', file', spoiled', feed')
    BY <2>1, OffIsTyped DEF EngFiles, Busy
  <2> QED
    BY <2>2, <2>3, RefFilesStay
<1>10. ASSUME NEW stored \in BOOLEAN, Refresh(stored) PROVE FilesNext
  <2> DEFINE s == Service(eng)
  <2>1. ref' = Off \/ ref'.at = "begin"
    <3>1. running \in Configs /\ {"dns"} \in SUBSET Svcs /\ "refresh" \in Kinds \ {"off"}
      BY <1>10 DEF Refresh, Typed, ConfigsTyped, Kinds
    <3>2. Work("refresh", running, {"dns"}).at = "begin"
      BY <3>1, WorkTyped
    <3> QED
      BY <1>10, <3>2 DEF Refresh
  <2>2. RefFiles(ref', file', spoiled', feed')
    BY <2>1, OffIsTyped DEF RefFiles, Busy
  <2>3. UNCHANGED <<eng, file>> /\ spoiled \subseteq spoiled' /\ feed' = feed + 1
        /\ (eng # Off => "dns" \in spoiled')
    BY <1>10 DEF Refresh, applyVars
  <2>4. ASSUME Busy(eng) PROVE EngFiles(eng', file', spoiled', feed')
    <3>1. eng # Off
      BY <2>4, OffIsTyped DEF Busy
    <3>2. FilesFit(eng, s, eng.cfg[s], file[s], s \in spoiled, feed)
      BY <2>4 DEF FilesInv, EngFiles
    <3>3. eng.domains # feed'
      <4>1. eng.domains \in Nat /\ eng.domains <= feed /\ feed \in Nat
        BY DEF Typed, RestTyped, WorkerTyped, Workers
      <4> QED
        BY <2>3, <4>1
    <3> HIDE DEF s
    <3>4. (s \in spoiled) \in BOOLEAN /\ (s \in spoiled') \in BOOLEAN
          /\ (s \in spoiled => s \in spoiled')
      BY <2>3
    <3>5. FilesFit(eng, s, eng.cfg[s], file[s], s \in spoiled', feed)
      BY <3>2, <3>4, SpoiledFits
    <3>6. FilesFit(eng, s, eng.cfg[s], file[s], s \in spoiled', feed')
      BY <3>3, <3>4, <3>5, FetchedFits
    <3> QED
      BY <2>3, <3>1, <3>6 DEF EngFiles, s
  <2> QED
    BY <2>2, <2>3, <2>4 DEF EngFiles
<1>11. CASE RefBegin
  <2>1. ref # Off /\ ref.todo # {} /\ ref.at = "begin"
    BY <1>11, RefreshGoesOn DEF RefBegin
  <2>2. Service(ref) = "dns"
    BY <2>1, RefreshIsOfDns
  <2>3. ref' = Begun(ref) /\ ref'.cfg = ref.cfg /\ ref'.domains = feed
    BY <1>11, <2>1, BegunMeans DEF RefBegin, Typed, RestTyped
  <2>4. FilesFit(ref', "dns", ref.cfg["dns"], file["dns"], "dns" \in spoiled, feed)
    <3>1. ("dns" \in spoiled) \in BOOLEAN
      OBVIOUS
    <3> QED
      BY <2>1, <2>2, <2>3, <3>1, BegunFits DEF Typed
  <2>5. UNCHANGED <<eng, file, feed, spoiled>>
    BY <1>11 DEF RefBegin, applyVars, otherVars
  <2>6. RefFiles(ref', file', spoiled', feed')
    BY <2>3, <2>4, <2>5 DEF RefFiles
  <2> QED
    BY <2>5, <2>6, EngFilesStay
<1>12. CASE RefFile
  <2> DEFINE s == Service(eng)
  <2>1. ref # Off /\ ref.todo # {}
    BY <1>12, RefreshGoesOn DEF RefFile
  <2>2. Service(ref) = "dns" /\ "dns" \in Svcs /\ (eng # Off => "dns" \in spoiled)
    BY <2>1, RefreshIsOfDns
  <2>3. UNCHANGED <<eng, feed, spoiled>>
    BY <1>12 DEF RefFile, applyVars, otherVars
  <2>4. CASE FileWritten(ref, ref')
    <3>1. ref.at = "files"
      BY <2>1, <2>4, WritingMeans DEF Typed
    <3>2. PICK p \in ref.plan.write :
            \E content \in Contents(p, ref.cfg["dns"], ref.domains) :
              Writes(ref, ref', p, content)
      BY <2>1, <2>2, <2>4, WritingMeans DEF Typed
    <3>3. PICK content \in Contents(p, ref.cfg["dns"], ref.domains) :
            Writes(ref, ref', p, content)
      BY <3>2
    <3>4. /\ Same(ref', ref) /\ ref'.todo = ref.todo
          /\ file' = [file EXCEPT !["dns"] = Put(file["dns"], p, content)]
      BY <2>2, <3>3 DEF Writes
    <3>5. FilesFit(ref, "dns", ref.cfg["dns"], file["dns"], "dns" \in spoiled, feed)
          /\ ref.domains = feed
      BY <2>1, <3>1 DEF FilesInv, RefFiles, Busy
    <3>6. FilesFit(ref', "dns", ref.cfg["dns"], file'["dns"], "dns" \in spoiled, feed)
      <4>1. ("dns" \in spoiled) \in BOOLEAN
        OBVIOUS
      <4> QED
        BY <2>1, <2>2, <3>1, <3>3, <3>5, <4>1, WrittenFits DEF Typed
    <3>7. RefFiles(ref', file', spoiled', feed')
      BY <2>3, <3>4, <3>5, <3>6 DEF RefFiles, Same
    <3>8. ASSUME Busy(eng) PROVE EngFiles(eng', file', spoiled', feed')
      <4>1. eng # Off /\ s \in Svcs
        BY <3>8, OffIsTyped, WorkerIsOn DEF Busy, Typed
      <4>2. FilesFit(eng, s, eng.cfg[s], file[s], s \in spoiled, feed)
        BY <3>8 DEF FilesInv, EngFiles
      <4>3. FilesFit(eng, s, eng.cfg[s], file'[s], s \in spoiled, feed)
        <5>1. CASE s = "dns"
          <6>1. file'["dns"] = Put(file["dns"], p, content)
            BY <2>2, <3>4 DEF Typed
          <6>2. FilesFit(eng, "dns", eng.cfg["dns"], file["dns"], TRUE, feed)
            BY <2>2, <4>1, <4>2, <5>1
          <6>3. FilesFit(eng, "dns", eng.cfg["dns"], file'["dns"], TRUE, feed)
            BY <3>3, <3>5, <6>1, <6>2, MeddledFits
          <6> QED
            BY <2>2, <4>1, <5>1, <6>3
        <5>2. CASE s # "dns"
          <6>1. file'[s] = file[s]
            BY <3>4, <4>1, <5>2 DEF Typed
          <6> QED
            BY <4>2, <6>1
        <5> QED
          BY <5>1, <5>2
      <4> HIDE DEF s
      <4> QED
        BY <2>2, <2>3, <4>1, <4>3 DEF EngFiles, s
    <3> QED
      BY <2>3, <3>7, <3>8 DEF EngFiles
  <2>5. CASE FilesRemoved(ref, ref')
    <3>1. /\ ref.at = "files" /\ ref.plan.write = {} /\ Same(ref', ref)
          /\ ref'.todo = ref.todo /\ ref'.at = "unit" /\ ref'.plan = ref.plan
          /\ ref'.changed = ref.changed
          /\ file' = IF ref.plan.remove THEN [file EXCEPT !["dns"] = Nothing] ELSE file
      BY <2>1, <2>2, <2>5, RemovingMeans DEF Typed
    <3>2. FilesFit(ref, "dns", ref.cfg["dns"], file["dns"], "dns" \in spoiled, feed)
          /\ ref.domains = feed
      BY <2>1, <3>1 DEF FilesInv, RefFiles, Busy
    <3>3. ~ref.plan.remove
      BY <3>2 DEF FilesFit, PlanFits
    <3>4. FilesFit(ref', "dns", ref.cfg["dns"], file["dns"], "dns" \in spoiled, feed)
      <4> DEFINE sp == "dns" \in spoiled
                 c == ref.cfg["dns"]
                 f == file["dns"]
      <4>1. sp \in BOOLEAN
        OBVIOUS
      <4>2. FilesFit(ref, "dns", c, f, sp, feed)
        BY <3>2
      <4> HIDE DEF sp, c, f
      <4>3. FilesFit(ref', "dns", c, IF ref.plan.remove THEN Nothing ELSE f, sp, feed)
        BY <3>1, <4>1, <4>2, RemoveFits
      <4>4. FilesFit(ref', "dns", c, f, sp, feed)
        BY <3>3, <4>3
      <4> QED
        BY <4>4 DEF sp, c, f
    <3>5. RefFiles(ref', file', spoiled', feed')
      BY <2>3, <3>1, <3>2, <3>3, <3>4 DEF RefFiles, Same
    <3> QED
      BY <2>3, <3>1, <3>3, <3>5, EngFilesStay
  <2> QED
    BY <1>12, <2>4, <2>5 DEF RefFile
<1>13. CASE RefUnit
  <2>1. ref' = Off \/ ref'.at = "begin"
    BY <1>13 DEF RefUnit
  <2>2. UNCHANGED <<eng, file, feed>> /\ spoiled \subseteq spoiled'
    BY <1>13 DEF RefUnit, applyVars, otherVars
  <2>3. RefFiles(ref', file', spoiled', feed')
    BY <2>1, OffIsTyped DEF RefFiles, Busy
  <2> QED
    BY <2>2, <2>3, EngFilesStay
<1>14. CASE RefError
  <2>1. ref' = Off \/ ref'.at = "begin"
    BY <1>14 DEF RefError
  <2>2. UNCHANGED <<eng, file, feed>> /\ spoiled \subseteq spoiled'
    BY <1>14 DEF RefError, applyVars, otherVars
  <2>3. RefFiles(ref', file', spoiled', feed')
    BY <2>1, OffIsTyped DEF RefFiles, Busy
  <2> QED
    BY <2>2, <2>3, EngFilesStay
<1>15. ASSUME NEW s \in Svcs, RestartRequest(s) PROVE FilesNext
  <2>1. UNCHANGED <<eng, ref, file, feed>> /\ spoiled \subseteq spoiled'
    BY <1>15 DEF RestartRequest, applyVars
  <2> QED
    BY <2>1, EngFilesStay, RefFilesStay
<1>16. CASE Restarted
  <2>1. UNCHANGED <<eng, ref, file, feed>> /\ spoiled \subseteq spoiled'
    BY <1>16 DEF Restarted, applyVars
  <2> QED
    BY <2>1, EngFilesStay, RefFilesStay
<1>17. ASSUME NEW s \in Svcs, Poll(s) PROVE FilesNext
  <2>1. UNCHANGED <<eng, ref, file, feed>> /\ spoiled \subseteq spoiled'
    BY <1>17 DEF Poll, applyVars, otherVars
  <2> QED
    BY <2>1, EngFilesStay, RefFilesStay
<1>18. ASSUME NEW s \in Svcs, PollFails(s) PROVE FilesNext
  <2>1. UNCHANGED <<eng, ref, file, feed>> /\ spoiled \subseteq spoiled'
    BY <1>18 DEF PollFails, applyVars, otherVars
  <2> QED
    BY <2>1, EngFilesStay, RefFilesStay
<1>19. ASSUME NEW s \in Svcs, UnitFails(s) PROVE FilesNext
  <2>1. UNCHANGED <<eng, ref, file, feed>> /\ spoiled \subseteq spoiled'
    BY <1>19 DEF UnitFails, applyVars, otherVars
  <2> QED
    BY <2>1, EngFilesStay, RefFilesStay
<1>20. ASSUME NEW reboot \in BOOLEAN, Exit(reboot) PROVE FilesNext
  <2>1. eng' = Off /\ ref' = Off
    BY <1>20 DEF Exit
  <2> QED
    BY <2>1, OffIsTyped DEF EngFiles, RefFiles, Busy
<1>21. CASE Start
  <2>1. eng' = Off \/ eng'.at = "begin"
    BY <1>21, WorkTyped DEF Start, Kinds, Typed, ConfigsTyped
  <2>2. UNCHANGED <<ref, file, feed>>
        /\ (Busy(ref) /\ "dns" \in spoiled => "dns" \in spoiled')
    BY <1>21 DEF Start
  <2>3. EngFiles(eng', file', spoiled', feed')
    BY <2>1, OffIsTyped DEF EngFiles, Busy
  <2> QED
    BY <2>2, <2>3, RefFilesStay
<1>22. CASE RuleRequest
  <2>1. UNCHANGED <<eng, ref, file, feed>> /\ spoiled \subseteq spoiled'
    BY <1>22 DEF RuleRequest, applyVars, otherVars
  <2> QED
    BY <2>1, EngFilesStay, RefFilesStay
<1>23. CASE RuleStep
  <2>1. UNCHANGED <<eng, ref, file, feed>> /\ spoiled \subseteq spoiled'
    BY <1>23 DEF RuleStep, applyVars, otherVars
  <2> QED
    BY <2>1, EngFilesStay, RefFilesStay
<1>24. CASE UNCHANGED vars
  <2>1. UNCHANGED <<eng, ref, file, feed>> /\ spoiled \subseteq spoiled'
    BY <1>24 DEF vars
  <2> QED
    BY <2>1, EngFilesStay, RefFilesStay
<1> QED
  BY <1>1, <1>2, <1>3, <1>4, <1>5, <1>6, <1>7, <1>8, <1>9, <1>10, <1>11,
     <1>12, <1>13, <1>14, <1>15, <1>16, <1>17, <1>18, <1>19, <1>20, <1>21,
     <1>22, <1>23, <1>24
     DEF Next

-----------------------------------------------------------------------------
(* A unit runs what its files say, or a worker is about to see to it, or   *)
(* something has spoiled the service; what does not run has nothing.       *)
Due(w, s) ==
  /\ Busy(w) /\ s = Service(w)
  /\ w.changed \/ (w.at = "unit" /\ w.plan.unit = "always")

FreshInv ==
  \A s \in Svcs :
    /\ unit[s].state # "active" => unit[s].runs = Nothing
    /\ s \notin spoiled /\ Stale(unit[s], file[s]) => Due(eng, s) \/ Due(ref, s)

FreshNext(s) ==
  /\ unit'[s].state # "active" => unit'[s].runs = Nothing
  /\ s \notin spoiled' /\ Stale(unit'[s], file'[s]) => Due(eng', s) \/ Due(ref', s)

(* A unit that is started, stopped or fails is up to date.                 *)
LEMMA FreshlyRun ==
  ASSUME Typed, NEW s \in Svcs, NEW state \in States, NEW t \in Svcs
  PROVE  LET u == Runs(s, state) IN
         /\ t = s => ~Stale(u[t], file[t])
                     /\ (u[t].state # "active" => u[t].runs = Nothing)
         /\ t # s => u[t] = unit[t]
<1>1. CASE t = s
  BY <1>1, RunsMeans DEF Stale
<1>2. CASE t # s
  BY <1>2, RunsMeans
<1> QED
  BY <1>1, <1>2

(* Nothing has changed for a service.                                      *)
LEMMA FreshKept ==
  ASSUME FreshInv, NEW s \in Svcs, unit'[s] = unit[s], file'[s] = file[s],
         spoiled \subseteq spoiled' \/ s \notin spoiled \/ s \in spoiled',
         Due(eng, s) => Due(eng', s) \/ s \in spoiled',
         Due(ref, s) => Due(ref', s) \/ s \in spoiled'
  PROVE  FreshNext(s)
  BY DEF FreshInv, FreshNext

(* A worker that turns to the unit leaves it stopped, restarted, or as it  *)
(* was since nothing had changed.                                          *)
LEMMA UnitTurns ==
  ASSUME Typed, NEW w, WorkerTyped(w), w.todo # {}, UnitDone(w),
         NEW sp \in BOOLEAN, NEW fd,
         FilesFit(w, Service(w), w.cfg[Service(w)], file[Service(w)], sp, fd)
  PROVE  LET s == Service(w) IN
         /\ \A t \in Svcs \ {s} : unit'[t] = unit[t]
         /\ \/ unit'[s].state # "active"
            \/ unit' = Runs(s, "active")
            \/ unit' = unit /\ ~w.changed /\ w.plan.unit \in {"needed", "none"}
         /\ w.plan.unit = "stop" => unit'[s].state # "active"
         /\ w.plan.unit = "always" => unit' = Runs(s, "active")
         /\ w.plan.unit = "needed" => unit'[s].state = "active"
         /\ w.plan.unit = "none" => unit' = unit
<1> DEFINE s == Service(w)
<1>1. s \in Svcs /\ w.plan \in Plans /\ w.plan.unit \in {"needed", "always", "none", "stop"}
  BY WorkerIsOn DEF Typed, WorkerTyped, Workers, Plans
<1>2. PlanFits(s, w.cfg[s], w.plan, file[s]) /\ (~ShouldRun(s, w.cfg[s]) => ~w.changed)
  BY DEF FilesFit
<1> HIDE DEF s
<1>3. CASE w.plan.unit = "stop"
  <2>1. unit' = Stopped(s)
    BY <1>3 DEF UnitDone, s
  <2>2. /\ \A t \in Svcs \ {s} : Stopped(s)[t] = unit[t]
        /\ \/ Stopped(s) = unit /\ unit[s].state = "failed"
           \/ Stopped(s) = Runs(s, "inactive")
    BY <1>1, StoppedMeans
  <2>3. unit'[s].state # "active"
    BY <1>1, <2>1, <2>2, RunsMeans DEF States
  <2> QED
    BY <1>3, <2>1, <2>2, <2>3 DEF s
<1>4. CASE w.plan.unit = "always"
  <2>1. unit' = Runs(s, "active")
    BY <1>4 DEF UnitDone, Restarts, s
  <2> QED
    BY <1>1, <1>4, <2>1, RunsMeans DEF States, s
<1>5. CASE w.plan.unit = "needed"
  <2>1. CASE w.changed \/ ~Active(s)
    <3>1. unit' = Runs(s, "active")
      BY <1>5, <2>1 DEF UnitDone, Restarts, s
    <3> QED
      BY <1>1, <1>5, <3>1, RunsMeans DEF States, s
  <2>2. CASE ~w.changed /\ Active(s)
    <3>1. unit' = unit
      BY <1>5, <2>2 DEF UnitDone, Restarts, s
    <3> QED
      BY <1>5, <2>2, <3>1 DEF Active, s
  <2> QED
    BY <2>1, <2>2
<1>6. CASE w.plan.unit = "none"
  <2>1. unit' = unit
    BY <1>6 DEF UnitDone, Restarts, s
  <2>2. ~w.changed
    BY <1>2, <1>6 DEF PlanFits
  <2> QED
    BY <1>6, <2>1, <2>2 DEF s
<1> QED
  BY <1>1, <1>3, <1>4, <1>5, <1>6

(* Every step keeps that.                                                  *)
LEMMA FreshStep ==
  ASSUME Typed, RefInv, KindsInv, FilesInv, FreshInv, Svcs' = Svcs, [Next]_vars
  PROVE  FreshInv'
<1> SUFFICES ASSUME NEW t \in Svcs PROVE FreshNext(t)
  BY DEF FreshInv, FreshNext, Due, Busy, Service, Stale
<1>1. ASSUME NEW c \in Configs, Apply(c) PROVE FreshNext(t)
  <2>1. UNCHANGED <<unit, file>> /\ spoiled \subseteq spoiled'
    BY <1>1 DEF Apply, OverlapsRefresh
  <2>2. (Due(eng, t) => Due(eng', t) \/ t \in spoiled')
        /\ (Due(ref, t) => Due(ref', t) \/ t \in spoiled')
    BY <1>1, OffIsTyped DEF Apply, Begin, Due, Busy
  <2> QED
    BY <2>1, <2>2, FreshKept
<1>2. CASE Rollback
  <2>1. UNCHANGED <<unit, file>> /\ spoiled \subseteq spoiled'
    BY <1>2 DEF Rollback, OverlapsRefresh
  <2>2. (Due(eng, t) => Due(eng', t) \/ t \in spoiled')
        /\ (Due(ref, t) => Due(ref', t) \/ t \in spoiled')
    BY <1>2, OffIsTyped DEF Rollback, Begin, Due, Busy
  <2> QED
    BY <2>1, <2>2, FreshKept
<1>3. CASE Confirm
  <2>1. UNCHANGED <<unit, file>> /\ spoiled \subseteq spoiled'
    BY <1>3 DEF Confirm, otherVars
  <2>2. (Due(eng, t) => Due(eng', t) \/ t \in spoiled')
        /\ (Due(ref, t) => Due(ref', t) \/ t \in spoiled')
    BY <1>3 DEF Confirm, otherVars
  <2> QED
    BY <2>1, <2>2, FreshKept
<1>4. CASE EngBegin
  <2>1. UNCHANGED <<unit, file>> /\ spoiled \subseteq spoiled'
    BY <1>4 DEF EngBegin
  <2>2. (Due(eng, t) => Due(eng', t) \/ t \in spoiled')
        /\ (Due(ref, t) => Due(ref', t) \/ t \in spoiled')
    BY <1>4 DEF EngBegin, Due, Busy
  <2> QED
    BY <2>1, <2>2, FreshKept
<1>5. CASE EngFile
  <2>1. UNCHANGED <<unit, ref, spoiled>> /\ eng.todo # {}
    BY <1>5 DEF EngFile
  <2> DEFINE s == Service(eng)
  <2>2. s \in Svcs
    BY <2>1, WorkerIsOn DEF Typed
  <2>3. CASE FileWritten(eng, eng')
    <3>1. PICK p \in eng.plan.write : \E content \in Contents(p, eng.cfg[s], eng.domains) :
            Writes(eng, eng', p, content)
      BY <2>1, <2>3, WritingMeans DEF Typed
    <3>2. PICK content : Writes(eng, eng', p, content)
      BY <3>1
    <3>3. /\ file' = [file EXCEPT ![s] = Put(file[s], p, content)]
          /\ eng'.todo = eng.todo /\ eng'.at = "files"
          /\ eng'.changed = (eng.changed \/ Put(file[s], p, content) # file[s])
      BY <3>2 DEF Writes
    <3>4. eng.at = "files"
      BY <2>1, <2>3, WritingMeans DEF Typed
    <3>5. Service(eng') = s
      BY <3>3 DEF Service
    <3>6. file'[s] = Put(file[s], p, content) /\ \A x \in Svcs \ {s} : file'[x] = file[x]
      BY <2>2, <3>3 DEF Typed
    <3> HIDE DEF s
    <3>7. Due(eng, t) => Due(eng', t)
      BY <2>1, <3>3, <3>4, <3>5 DEF Due, Busy, s
    <3>8. CASE file'[t] = file[t]
      BY <2>1, <3>7, <3>8, FreshKept
    <3>9. CASE file'[t] # file[t]
      <4>1. t = s /\ eng'.changed
        BY <3>3, <3>6, <3>9
      <4>2. Due(eng', t)
        BY <2>1, <3>3, <3>5, <4>1 DEF Due, Busy
      <4> QED
        BY <2>1, <4>2 DEF FreshInv, FreshNext
    <3> QED
      BY <3>8, <3>9
  <2>4. CASE FilesRemoved(eng, eng')
    <3>1. /\ eng.at = "files" /\ eng'.todo = eng.todo /\ eng'.at = "unit"
          /\ eng'.plan = eng.plan /\ eng'.changed = eng.changed
          /\ file' = IF eng.plan.remove THEN [file EXCEPT ![s] = Nothing] ELSE file
      BY <2>1, <2>4, RemovingMeans DEF Typed
    <3>2. Service(eng') = s
      BY <3>1 DEF Service
    <3>3. Due(eng, t) => Due(eng', t)
      BY <2>1, <3>1, <3>2 DEF Due, Busy
    <3>4. CASE file'[t] = file[t]
      BY <2>1, <3>3, <3>4, FreshKept
    <3>5. CASE file'[t] # file[t]
      <4>1. t = s /\ eng.plan.remove
        BY <3>1, <3>5 DEF Typed
      <4>2. eng.plan.unit = "always"
        <5>1. FilesFit(eng, s, eng.cfg[s], file[s], s \in spoiled, feed)
          BY <2>1, <3>1 DEF FilesInv, EngFiles, Busy
        <5> QED
          BY <4>1, <5>1 DEF FilesFit, PlanFits
      <4>3. Due(eng', t)
        BY <2>1, <3>1, <3>2, <4>1, <4>2 DEF Due, Busy
      <4> QED
        BY <2>1, <4>3 DEF FreshInv, FreshNext
    <3> QED
      BY <3>4, <3>5
  <2> QED
    BY <1>5, <2>3, <2>4 DEF EngFile
<1>6. CASE EngUnit
  <2> DEFINE s == Service(eng)
  <2>1. /\ UNCHANGED <<file, ref>> /\ eng.todo # {} /\ eng.at = "unit"
        /\ UnitDone(eng) /\ Settled(s)
    BY <1>6 DEF EngUnit, UnitDone
  <2>2. s \in Svcs /\ eng # Off
    BY <2>1, WorkerIsOn DEF Typed
  <2>3. FilesFit(eng, s, eng.cfg[s], file[s], s \in spoiled, feed)
    BY <2>1 DEF FilesInv, EngFiles, Busy
  <2>4. /\ \A x \in Svcs \ {s} : unit'[x] = unit[x]
        /\ \/ unit'[s].state # "active"
           \/ unit' = Runs(s, "active")
           \/ unit' = unit /\ ~eng.changed /\ eng.plan.unit \in {"needed", "none"}
    <3>1. (s \in spoiled) \in BOOLEAN
      OBVIOUS
    <3> QED
      BY <2>1, <2>3, <3>1, UnitTurns DEF Typed
  <2>5. spoiled' = spoiled \/ (spoiled' = spoiled \ {s} /\ ~Stale(unit'[s], file[s]))
    BY <2>1 DEF Settled
  <2>6. CASE t # s
    <3>1. ~Due(eng, t)
      BY <2>6 DEF Due
    <3>2. unit'[t] = unit[t] /\ (t \notin spoiled \/ t \in spoiled')
      BY <2>4, <2>5, <2>6
    <3> QED
      BY <2>1, <3>1, <3>2, FreshKept
  <2>7. CASE t = s
    <3>1. unit'[s].state # "active" => unit'[s].runs = Nothing
      <4>1. CASE eng.plan.unit = "stop"
        <5>1. unit' = Stopped(s)
          BY <2>1, <4>1 DEF UnitDone
        <5>2. unit' = unit \/ unit' = Runs(s, "inactive")
          BY <5>1 DEF Stopped
        <5> QED
          BY <2>2, <5>2, FreshlyRun DEF FreshInv, States
      <4>2. CASE eng.plan.unit # "stop"
        <5>1. unit' = unit \/ unit' = Runs(s, "active")
          BY <2>1, <4>2 DEF UnitDone
        <5> QED
          BY <2>2, <5>1, FreshlyRun DEF FreshInv, States
      <4> QED
        BY <4>1, <4>2
    <3>2. ASSUME s \notin spoiled', Stale(unit'[s], file[s]) PROVE FALSE
      <4>1. spoiled' = spoiled /\ unit'[s].state = "active"
        BY <2>5, <3>2 DEF Stale
      <4>2. unit' = unit /\ ~eng.changed /\ eng.plan.unit \in {"needed", "none"}
        BY <2>2, <2>4, <3>2, <4>1, FreshlyRun DEF States
      <4>3. Due(ref, s)
        BY <2>2, <3>2, <4>1, <4>2 DEF FreshInv, Due
      <4>4. ref # Off /\ s = "dns"
        BY <4>3, OffIsTyped, RefreshIsOfDns DEF Due, Busy
      <4> QED
        BY <2>2, <3>2, <4>1, <4>4, RefreshIsOfDns
    <3> QED
      BY <2>1, <2>7, <3>1, <3>2 DEF FreshNext
  <2> QED
    BY <2>6, <2>7
<1>7. CASE EngStopFails
  <2>1. UNCHANGED <<unit, file, ref>> /\ spoiled' = spoiled \cup {Service(eng)}
    BY <1>7 DEF EngStopFails
  <2>2. Due(eng, t) => t \in spoiled'
    BY <2>1 DEF Due
  <2> QED
    BY <2>1, <2>2, FreshKept
<1>8. CASE EngDone
  <2>1. UNCHANGED <<unit, file>> /\ spoiled \subseteq spoiled'
    BY <1>8 DEF EngDone
  <2>2. (Due(eng, t) => Due(eng', t) \/ t \in spoiled')
        /\ (Due(ref, t) => Due(ref', t) \/ t \in spoiled')
    BY <1>8 DEF EngDone, Due, Busy
  <2> QED
    BY <2>1, <2>2, FreshKept
<1>9. CASE EngError
  <2> DEFINE s == Service(eng)
  <2>1. s \in Svcs /\ eng.todo # {} /\ s \in eng.todo /\ spoiled \subseteq spoiled'
    BY <1>9, EngineFails DEF EngError
  <2>2. UNCHANGED <<file, ref>>
    BY <1>9 DEF EngError
  <2>3. /\ \A x \in Svcs \ {s} : unit'[x] = unit[x]
        /\ unit' = unit \/ \E state \in States : unit' = Runs(s, state)
    BY <1>9, <2>1, FailedMeans DEF EngError
  <2>4. CASE t # s
    <3>1. ~Due(eng, t)
      BY <2>4 DEF Due
    <3> QED
      BY <2>1, <2>2, <2>3, <2>4, <3>1, FreshKept
  <2>5. CASE t = s
    <3>1. Stale(unit'[s], file[s]) => s \in spoiled'
      BY <1>9, <2>1, EngineFails
    <3>2. unit'[s].state # "active" => unit'[s].runs = Nothing
      BY <2>1, <2>3, FreshlyRun DEF FreshInv
    <3> QED
      BY <2>2, <2>5, <3>1, <3>2 DEF FreshNext
  <2> QED
    BY <2>4, <2>5
<1>10. ASSUME NEW stored \in BOOLEAN, Refresh(stored) PROVE FreshNext(t)
  <2>1. UNCHANGED <<unit, file>> /\ spoiled \subseteq spoiled'
    BY <1>10 DEF Refresh
  <2>2. (Due(eng, t) => Due(eng', t) \/ t \in spoiled')
        /\ (Due(ref, t) => Due(ref', t) \/ t \in spoiled')
    BY <1>10, OffIsTyped DEF Refresh, applyVars, Due, Busy
  <2> QED
    BY <2>1, <2>2, FreshKept
<1>11. CASE RefBegin
  <2>1. UNCHANGED <<unit, file>> /\ spoiled \subseteq spoiled'
    BY <1>11 DEF RefBegin
  <2>2. (Due(eng, t) => Due(eng', t) \/ t \in spoiled')
        /\ (Due(ref, t) => Due(ref', t) \/ t \in spoiled')
    BY <1>11 DEF RefBegin, applyVars, Due, Busy
  <2> QED
    BY <2>1, <2>2, FreshKept
<1>12. CASE RefFile
  <2>1. UNCHANGED <<unit, eng, spoiled>> /\ ref.todo # {}
    BY <1>12 DEF RefFile, applyVars
  <2> DEFINE s == Service(ref)
  <2>2. s \in Svcs
    BY <2>1, WorkerIsOn DEF Typed
  <2>3. CASE FileWritten(ref, ref')
    <3>1. PICK p \in ref.plan.write : \E content \in Contents(p, ref.cfg[s], ref.domains) :
            Writes(ref, ref', p, content)
      BY <2>1, <2>3, WritingMeans DEF Typed
    <3>2. PICK content : Writes(ref, ref', p, content)
      BY <3>1
    <3>3. /\ file' = [file EXCEPT ![s] = Put(file[s], p, content)]
          /\ ref'.todo = ref.todo /\ ref'.at = "files"
          /\ ref'.changed = (ref.changed \/ Put(file[s], p, content) # file[s])
      BY <3>2 DEF Writes
    <3>4. ref.at = "files"
      BY <2>1, <2>3, WritingMeans DEF Typed
    <3>5. Service(ref') = s
      BY <3>3 DEF Service
    <3>6. file'[s] = Put(file[s], p, content) /\ \A x \in Svcs \ {s} : file'[x] = file[x]
      BY <2>2, <3>3 DEF Typed
    <3> HIDE DEF s
    <3>7. Due(ref, t) => Due(ref', t)
      BY <2>1, <3>3, <3>4, <3>5 DEF Due, Busy, s
    <3>8. CASE file'[t] = file[t]
      BY <2>1, <3>7, <3>8, FreshKept
    <3>9. CASE file'[t] # file[t]
      <4>1. t = s /\ ref'.changed
        BY <3>3, <3>6, <3>9
      <4>2. Due(ref', t)
        BY <2>1, <3>3, <3>5, <4>1 DEF Due, Busy
      <4> QED
        BY <2>1, <4>2 DEF FreshInv, FreshNext
    <3> QED
      BY <3>8, <3>9
  <2>4. CASE FilesRemoved(ref, ref')
    <3>1. /\ ref.at = "files" /\ ref'.todo = ref.todo /\ ref'.at = "unit"
          /\ ref'.plan = ref.plan /\ ref'.changed = ref.changed
          /\ file' = IF ref.plan.remove THEN [file EXCEPT ![s] = Nothing] ELSE file
      BY <2>1, <2>4, RemovingMeans DEF Typed
    <3>2. Service(ref') = s
      BY <3>1 DEF Service
    <3>3. Due(ref, t) => Due(ref', t)
      BY <2>1, <3>1, <3>2 DEF Due, Busy
    <3>4. CASE file'[t] = file[t]
      BY <2>1, <3>3, <3>4, FreshKept
    <3>5. CASE file'[t] # file[t]
      <4>1. t = s /\ ref.plan.remove
        BY <3>1, <3>5 DEF Typed
      <4>2. ref.plan.unit = "always"
        <5>1. FilesFit(ref, "dns", ref.cfg["dns"], file["dns"], "dns" \in spoiled, feed)
          BY <2>1, <3>1 DEF FilesInv, RefFiles, Busy
        <5> QED
          BY <4>1, <5>1 DEF FilesFit, PlanFits
      <4>3. Due(ref', t)
        BY <2>1, <3>1, <3>2, <4>1, <4>2 DEF Due, Busy
      <4> QED
        BY <2>1, <4>3 DEF FreshInv, FreshNext
    <3> QED
      BY <3>4, <3>5
  <2> QED
    BY <1>12, <2>3, <2>4 DEF RefFile
<1>13. CASE RefUnit
  <2>1. UNCHANGED <<file, eng, spoiled>> /\ ref.todo # {} /\ UnitDone(ref) /\ ref' = Off
        /\ ref.at = "unit"
    BY <1>13 DEF RefUnit, UnitDone, applyVars
  <2>2. Service(ref) = "dns" /\ "dns" \in Svcs /\ ShouldRun("dns", ref.cfg["dns"])
        /\ (eng # Off => "dns" \in spoiled)
    BY <2>1, OffIsTyped, RefreshIsOfDns
  <2>3. FilesFit(ref, "dns", ref.cfg["dns"], file["dns"], "dns" \in spoiled, feed)
    BY <2>1 DEF FilesInv, RefFiles, Busy
  <2>4. /\ \A x \in Svcs \ {"dns"} : unit'[x] = unit[x]
        /\ unit' = Runs("dns", "active") \/ (unit' = unit /\ ~ref.changed)
    <3>1. ("dns" \in spoiled) \in BOOLEAN /\ ref.plan.unit \in {"needed", "always"}
      BY <2>2, <2>3 DEF FilesFit, PlanFits
    <3>2. unit' = Runs("dns", "active") \/ (unit' = unit /\ ~ref.changed)
      BY <2>1, <2>2, <3>1 DEF UnitDone, Restarts
    <3> QED
      BY <2>2, <3>2, RunsMeans DEF States
  <2>5. CASE t # "dns"
    <3>1. ~Due(ref, t)
      BY <2>2, <2>5 DEF Due
    <3> QED
      BY <2>1, <2>4, <2>5, <3>1, FreshKept
  <2>6. CASE t = "dns" /\ unit' = Runs("dns", "active")
    BY <2>1, <2>2, <2>6, FreshlyRun DEF FreshNext, States
  <2>7. CASE t = "dns" /\ unit' = unit /\ ~ref.changed
    <3>1. ASSUME "dns" \notin spoiled, Stale(unit["dns"], file["dns"])
          PROVE  ref.plan.unit = "always"
      <4>1. Due(eng, "dns") \/ Due(ref, "dns")
        BY <2>2, <3>1 DEF FreshInv
      <4>2. ~Due(eng, "dns")
        BY <2>2, <3>1, OffIsTyped DEF Due, Busy
      <4> QED
        BY <2>7, <4>1, <4>2 DEF Due
    <3>2. ref.plan.unit = "always" => unit' = Runs("dns", "active")
      BY <2>1, <2>2 DEF UnitDone, Restarts
    <3>3. "dns" \in spoiled \/ ~Stale(unit'["dns"], file["dns"])
      BY <2>2, <2>7, <3>1, <3>2, FreshlyRun DEF States
    <3> QED
      BY <2>1, <2>2, <2>7, <3>3 DEF FreshInv, FreshNext
  <2> QED
    BY <2>4, <2>5, <2>6, <2>7
<1>14. CASE RefError
  <2>1. UNCHANGED <<file, eng>> /\ spoiled' = spoiled \cup {"dns"}
        /\ (unit' = unit \/ unit' \in AfterFailedRestart("dns"))
    BY <1>14 DEF RefError, applyVars
  <2>2. "dns" \in Svcs /\ Service(ref) = "dns"
    BY <1>14, OffIsTyped, RefreshIsOfDns DEF RefError
  <2>3. Due(ref, t) => t \in spoiled'
    BY <2>1, <2>2 DEF Due
  <2>4. CASE t # "dns"
    <3>1. unit'[t] = unit[t]
      BY <2>1, <2>2, <2>4, FailedMeans
    <3> QED
      BY <2>1, <2>3, <3>1, FreshKept
  <2>5. CASE t = "dns"
    <3>1. unit' = unit \/ \E state \in States : unit' = Runs("dns", state)
      BY <2>1, <2>2, FailedMeans
    <3>2. unit'["dns"].state # "active" => unit'["dns"].runs = Nothing
      BY <2>2, <3>1, FreshlyRun DEF FreshInv
    <3> QED
      BY <2>1, <2>5, <3>2 DEF FreshNext
  <2> QED
    BY <2>4, <2>5
<1>15. ASSUME NEW s \in Svcs, RestartRequest(s) PROVE FreshNext(t)
  <2>1. UNCHANGED <<unit, file>> /\ spoiled \subseteq spoiled'
    BY <1>15 DEF RestartRequest, applyVars
  <2>2. (Due(eng, t) => Due(eng', t) \/ t \in spoiled')
        /\ (Due(ref, t) => Due(ref', t) \/ t \in spoiled')
    BY <1>15 DEF RestartRequest, applyVars
  <2> QED
    BY <2>1, <2>2, FreshKept
<1>16. CASE Restarted
  <2>1. PICK s \in request : unit' \in {Runs(s, "active"), unit} /\ spoiled \subseteq spoiled'
    BY <1>16 DEF Restarted
  <2>2. UNCHANGED <<file, eng, ref>> /\ s \in Svcs
    BY <1>16 DEF Restarted, applyVars, Typed, RestTyped
  <2>3. CASE t # s
    <3>1. unit'[t] = unit[t]
      BY <2>1, <2>2, <2>3, FreshlyRun DEF States
    <3> QED
      BY <2>1, <2>2, <3>1, FreshKept
  <2>4. CASE t = s /\ unit' = Runs(s, "active")
    BY <2>1, <2>2, <2>4, FreshlyRun DEF FreshNext, States
  <2>5. CASE unit' = unit
    BY <2>1, <2>2, <2>5, FreshKept
  <2> QED
    BY <2>1, <2>3, <2>4, <2>5
<1>17. ASSUME NEW s \in Svcs, Poll(s) PROVE FreshNext(t)
  <2>1. UNCHANGED <<unit, file>> /\ spoiled \subseteq spoiled'
    BY <1>17 DEF Poll, applyVars, otherVars
  <2>2. (Due(eng, t) => Due(eng', t) \/ t \in spoiled')
        /\ (Due(ref, t) => Due(ref', t) \/ t \in spoiled')
    BY <1>17 DEF Poll, applyVars, otherVars
  <2> QED
    BY <2>1, <2>2, FreshKept
<1>18. ASSUME NEW s \in Svcs, PollFails(s) PROVE FreshNext(t)
  <2>1. UNCHANGED <<unit, file>> /\ spoiled \subseteq spoiled'
    BY <1>18 DEF PollFails, applyVars, otherVars
  <2>2. (Due(eng, t) => Due(eng', t) \/ t \in spoiled')
        /\ (Due(ref, t) => Due(ref', t) \/ t \in spoiled')
    BY <1>18 DEF PollFails, applyVars, otherVars
  <2> QED
    BY <2>1, <2>2, FreshKept
<1>19. ASSUME NEW s \in Svcs, UnitFails(s) PROVE FreshNext(t)
  <2>1. UNCHANGED <<file, eng, ref>> /\ unit' = Runs(s, "failed")
        /\ spoiled' = spoiled \cup {s}
    BY <1>19 DEF UnitFails, applyVars
  <2>2. CASE t # s
    <3>1. unit'[t] = unit[t]
      BY <2>1, <2>2, FreshlyRun DEF States
    <3> QED
      BY <2>1, <3>1, FreshKept
  <2>3. CASE t = s
    BY <2>1, <2>3, FreshlyRun DEF FreshNext, States
  <2> QED
    BY <2>2, <2>3
<1>20. ASSUME NEW reboot \in BOOLEAN, Exit(reboot) PROVE FreshNext(t)
  <2>1. file' = file /\ (t \notin spoiled' => ~Stale(unit'[t], file[t]))
    BY <1>20 DEF Exit
  <2>2. unit'[t].state # "active" => unit'[t].runs = Nothing
    <3>1. CASE unit' = unit
      BY <3>1 DEF FreshInv
    <3>2. CASE unit' # unit
      <4>1. PICK up \in BOOLEAN :
              unit' = [s \in Svcs |->
                          IF s = "wireguard" \/ ~up
                          THEN [unit[s] EXCEPT !.state = "inactive", !.runs = Nothing]
                          ELSE [unit[s] EXCEPT !.state = "active", !.runs = file[s],
                                               !.deaf = (s = "dhcp")]]
        BY <1>20, <3>2 DEF Exit
      <4>2. unit[t] \in Units
        BY DEF Typed
      <4> QED
        BY <4>1, <4>2 DEF Units
    <3> QED
      BY <3>1, <3>2
  <2> QED
    BY <2>1, <2>2 DEF FreshNext
<1>21. CASE Start
  <2>1. UNCHANGED <<unit, file>> /\ spoiled \subseteq spoiled'
    BY <1>21 DEF Start
  <2>2. (Due(eng, t) => Due(eng', t) \/ t \in spoiled')
        /\ (Due(ref, t) => Due(ref', t) \/ t \in spoiled')
    BY <1>21, OffIsTyped DEF Start, KindsInv, Due, Busy
  <2> QED
    BY <2>1, <2>2, FreshKept
<1>22. CASE RuleRequest
  <2>1. UNCHANGED <<unit, file>> /\ spoiled \subseteq spoiled'
    BY <1>22 DEF RuleRequest, applyVars, otherVars
  <2>2. (Due(eng, t) => Due(eng', t) \/ t \in spoiled')
        /\ (Due(ref, t) => Due(ref', t) \/ t \in spoiled')
    BY <1>22 DEF RuleRequest, applyVars, otherVars
  <2> QED
    BY <2>1, <2>2, FreshKept
<1>23. CASE RuleStep
  <2>1. UNCHANGED <<unit, file>> /\ spoiled \subseteq spoiled'
    BY <1>23 DEF RuleStep, applyVars, otherVars
  <2>2. (Due(eng, t) => Due(eng', t) \/ t \in spoiled')
        /\ (Due(ref, t) => Due(ref', t) \/ t \in spoiled')
    BY <1>23 DEF RuleStep, applyVars, otherVars
  <2> QED
    BY <2>1, <2>2, FreshKept
<1>24. CASE UNCHANGED vars
  <2>1. UNCHANGED <<unit, file>> /\ spoiled \subseteq spoiled'
    BY <1>24 DEF vars
  <2>2. (Due(eng, t) => Due(eng', t) \/ t \in spoiled')
        /\ (Due(ref, t) => Due(ref', t) \/ t \in spoiled')
    BY <1>24 DEF vars
  <2> QED
    BY <2>1, <2>2, FreshKept
<1> QED
  BY <1>1, <1>2, <1>3, <1>4, <1>5, <1>6, <1>7, <1>8, <1>9, <1>10, <1>11,
     <1>12, <1>13, <1>14, <1>15, <1>16, <1>17, <1>18, <1>19, <1>20, <1>21,
     <1>22, <1>23, <1>24
     DEF Next

-----------------------------------------------------------------------------
(* What a unit does, in the terms of Follows.                              *)
Does(s, c, u, fd) ==
  IF ShouldRun(s, c)
  THEN /\ u.state = "active" /\ ~u.deaf
       /\ Parts(c) \subseteq DOMAIN u.runs /\ u.runs["main"] = c
       /\ c.list => u.runs["blocklist"].domains = fd
       /\ c.hosts => u.runs["hosts"] = c
  ELSE IF s \in {"syslog", "ntp"} THEN u.runs = Nothing ELSE u.state # "active"

(* It is what Follows says.                                                *)
LEMMA DoesIsFollows ==
  \A s, c : Follows(s, c) <=> Does(s, c, unit[s], feed)
  BY DEF Follows, Does, Active

(* Only a list makes a difference to a list.                               *)
LEMMA DoesWithoutList ==
  ASSUME NEW s, NEW c, NEW u, NEW fd, NEW ge, Does(s, c, u, fd),
         ~(ShouldRun(s, c) /\ c.list)
  PROVE  Does(s, c, u, ge)
  BY DEF Does

(* A unit that is up to date with files that are as the plan wants them,   *)
(* and that has been started or stopped as the plan says, does what the    *)
(* configuration says.                                                     *)
LEMMA DoesAsWritten ==
  ASSUME NEW w, NEW s, NEW c, NEW f, NEW u, NEW sp \in BOOLEAN, NEW fd,
         FilesFit(w, s, c, f, sp, fd), w.at = "unit", ~Stale(u, f),
         u.state # "active" => u.runs = Nothing,
         w.plan.unit \in {"needed", "always"} => u.state = "active",
         w.plan.unit = "stop" => u.state # "active",
         c.list => w.domains = fd /\ (w.kind = "refresh" => ~sp),
         u.state = "active" /\ f # Nothing =>
           \A p \in Parts(c) \ {"blocklist"} : f[p] = c
  PROVE  Does(s, c, u, fd)
<1>1. CASE ShouldRun(s, c)
  <2>1. u.state = "active" /\ u.runs = f /\ ~u.deaf
    BY <1>1 DEF FilesFit, PlanFits, Stale
  <2>2. \A p \in Parts(c) : PartFits(w, p, c, f, sp, fd)
    BY <1>1 DEF FilesFit
  <2>3. Parts(c) \subseteq DOMAIN f
    BY <2>2 DEF PartFits
  <2>4. f # Nothing
    BY <2>3, PartsOf, NothingIsTyped
  <2>5. \A p \in Parts(c) \ {"blocklist"} : f[p] = c
    BY <2>1, <2>4
  <2>6. c.list => f["blocklist"].domains = fd
    BY <2>2, PartsOf DEF PartFits
  <2>7. f["main"] = c /\ (c.hosts => f["hosts"] = c)
    BY <2>5, PartsOf
  <2> QED
    BY <1>1, <2>1, <2>3, <2>6, <2>7 DEF Does
<1>2. CASE ~ShouldRun(s, c) /\ s \in {"syslog", "ntp"}
  <2>1. f = Nothing
    BY <1>2 DEF FilesFit, PlanFits
  <2>2. u.runs = Nothing
    BY <2>1 DEF Stale
  <2> QED
    BY <1>2, <2>2 DEF Does
<1>3. CASE ~ShouldRun(s, c) /\ s \notin {"syslog", "ntp"}
  BY <1>3 DEF FilesFit, PlanFits, Does
<1> QED
  BY <1>1, <1>2, <1>3

(* The services that an apply has done with, and, between applies, all     *)
(* services, do what their configuration says: unless something has        *)
(* spoiled them, a warning names them, or a list is about to be.           *)
FollowInv ==
  /\ eng # Off => \A s \in Svcs \ (spoiled \cup eng.warnings \cup eng.todo) :
                    Does(s, eng.cfg[s], unit[s], feed)
  /\ agent = "up" /\ eng = Off =>
       \A s \in Svcs \ (spoiled \cup warned) :
         (s = "dns" /\ ref # Off) \/ Does(s, InForce[s], unit[s], feed)

FollowNext(s) ==
  /\ eng' # Off /\ s \notin spoiled' \cup eng'.warnings \cup eng'.todo =>
       Does(s, eng'.cfg[s], unit'[s], feed')
  /\ agent' = "up" /\ eng' = Off /\ s \notin spoiled' \cup warned' =>
       (s = "dns" /\ ref' # Off) \/ Does(s, InForce'[s], unit'[s], feed')

(* What does not concern a service, ...                                    *)
LEMMA FollowKept ==
  ASSUME FollowInv, NEW s \in Svcs, unit'[s] = unit[s], feed' = feed,
         s \in spoiled => s \in spoiled',
         UNCHANGED <<eng, agent, warned, running, trial>>,
         s = "dns" => (ref' = Off <=> ref = Off)
  PROVE  FollowNext(s)
  BY DEF FollowInv, FollowNext, InForce

(* ... the beginning of an apply, and the next step of one.                *)
LEMMA FollowBegun ==
  ASSUME NEW s \in Svcs, eng' # Off, eng'.todo = Svcs
  PROVE  FollowNext(s)
  BY DEF FollowNext

(* The next step of an apply.                                              *)
LEMMA FollowGoesOn ==
  ASSUME FollowInv, NEW s \in Svcs, unit'[s] = unit[s], feed' = feed,
         s \in spoiled => s \in spoiled', eng # Off, eng' # Off,
         eng'.cfg = eng.cfg, s \in eng.todo => s \in eng'.todo \cup eng'.warnings,
         eng.warnings \subseteq eng'.warnings
  PROVE  FollowNext(s)
  BY DEF FollowInv, FollowNext

(* An apply that is over has put a configuration in force: its own.        *)
LEMMA DoneIsInForce ==
  ASSUME Typed, KindsInv, eng # Off, running' = running,
         trial' = IF eng.kind = "trial" THEN <<eng.cfg>>
                  ELSE IF eng.kind = "rollback" THEN << >> ELSE trial
  PROVE  InForce' = eng.cfg
<1>1. eng.kind \in {"trial", "rollback", "restore", "boot"}
  BY DEF Typed, WorkerTyped, Workers, Kinds, KindsInv
<1>2. CASE eng.kind = "trial"
  BY <1>2 DEF InForce
<1>3. CASE eng.kind # "trial"
  BY <1>1, <1>3 DEF InForce, KindsInv
<1> QED
  BY <1>2, <1>3

(* The end of a service: the apply, ...                                    *)
LEMMA UnitSettles ==
  ASSUME Typed, RefInv, KindsInv, FilesInv, FreshInv, FreshInv', Svcs' = Svcs,
         EngUnit, Service(eng) \notin spoiled'
  PROVE  LET s == Service(eng) IN Does(s, eng.cfg[s], unit'[s], feed)
<1> DEFINE s == Service(eng)
           c == eng.cfg[s]
<1>1. /\ UNCHANGED <<file, ref>> /\ eng.todo # {} /\ eng.at = "unit"
      /\ UnitDone(eng) /\ Settled(s) /\ eng' = NextService(eng)
  BY DEF EngUnit, UnitDone
<1>2. s \in Svcs /\ eng # Off /\ eng'.at = "begin" /\ eng.cfg \in Configs
  BY <1>1, WorkerIsOn, NextServiceMeans DEF Typed
<1>3. FilesFit(eng, s, c, file[s], s \in spoiled, feed)
      /\ (s = "dns" /\ s \notin spoiled => eng.domains = feed)
  BY <1>1 DEF FilesInv, EngFiles, Busy
<1>4. (s \in spoiled) \in BOOLEAN
  OBVIOUS
<1>5. /\ eng.plan.unit \in {"needed", "always"} => unit'[s].state = "active"
      /\ eng.plan.unit = "stop" => unit'[s].state # "active"
  <2>1. /\ eng.plan.unit = "always" => unit' = Runs(s, "active")
        /\ eng.plan.unit = "needed" => unit'[s].state = "active"
        /\ eng.plan.unit = "stop" => unit'[s].state # "active"
    BY <1>1, <1>3, <1>4, UnitTurns DEF Typed
  <2>2. Runs(s, "active")[s].state = "active"
    BY <1>2, RunsMeans DEF States
  <2> QED
    BY <2>1, <2>2
<1>6. c.list => s = "dns"
  BY <1>2, SettingOfService DEF Typed
<1>7. unit'[s].state # "active" => unit'[s].runs = Nothing
  BY <1>2 DEF FreshInv
<1>8. ~Stale(unit'[s], file[s])
  <2>1. Stale(unit'[s], file[s]) => Due(eng', s) \/ Due(ref, s)
    BY <1>1, <1>2 DEF FreshInv, Stale, Due, Busy, Service
  <2>2. ~Due(eng', s)
    BY <1>2 DEF Due, Busy
  <2>3. Due(ref, s) => ref # Off /\ s = "dns"
    BY OffIsTyped, RefreshIsOfDns DEF Due, Busy
  <2>4. ref # Off /\ s = "dns" => FALSE
    <3>1. ref # Off /\ s = "dns" => s \in spoiled
      BY <1>2, RefreshIsOfDns
    <3> QED
      BY <1>1, <3>1 DEF Settled
  <2> QED
    BY <2>1, <2>2, <2>3, <2>4
<1>9. c.list => eng.domains = feed
  <2>1. s \in spoiled => (s = "dns" => eng.domains = feed)
    BY <1>1 DEF Settled
  <2> QED
    BY <1>3, <1>6, <2>1
<1>10. unit'[s].state = "active" /\ file[s] # Nothing =>
         \A p \in Parts(c) \ {"blocklist"} : file[s][p] = c
  <2>1. CASE s \in spoiled
    BY <1>1, <2>1 DEF Settled
  <2>2. CASE s \notin spoiled /\ ShouldRun(s, c)
    BY <1>1, <1>3, <2>2 DEF FilesFit, PartFits
  <2>3. CASE s \notin spoiled /\ ~ShouldRun(s, c)
    <3>1. eng.plan.unit = "stop" \/ file[s] = Nothing
      BY <1>1, <1>3, <2>3 DEF FilesFit, PlanFits
    <3> QED
      BY <1>5, <3>1
  <2> QED
    BY <2>1, <2>2, <2>3
<1>11. eng.kind # "refresh"
  BY DEF KindsInv
<1> HIDE DEF s, c
<1>12. Does(s, c, unit'[s], feed)
  BY <1>1, <1>3, <1>4, <1>5, <1>7, <1>8, <1>9, <1>10, <1>11, DoesAsWritten
<1> QED
  BY <1>12 DEF s, c

(* ... and the refresh of a list.                                          *)
LEMMA RefreshSettles ==
  ASSUME Typed, RefInv, KindsInv, FilesInv, FreshInv, FreshInv', Svcs' = Svcs,
         RefUnit, "dns" \notin spoiled
  PROVE  Does("dns", ref.cfg["dns"], unit'["dns"], feed)
<1> DEFINE c == ref.cfg["dns"]
<1>1. /\ UNCHANGED <<file, eng, spoiled>> /\ ref.todo # {} /\ ref.at = "unit"
      /\ UnitDone(ref) /\ ref' = Off
  BY DEF RefUnit, UnitDone, applyVars
<1>2. Service(ref) = "dns" /\ "dns" \in Svcs /\ eng = Off /\ ShouldRun("dns", c)
  BY <1>1, OffIsTyped, RefreshIsOfDns
<1>3. FilesFit(ref, "dns", c, file["dns"], FALSE, feed) /\ ref.domains = feed
  <2>1. FilesFit(ref, "dns", c, file["dns"], "dns" \in spoiled, feed)
        /\ ref.domains = feed
    BY <1>1 DEF FilesInv, RefFiles, Busy
  <2>2. ("dns" \in spoiled) = FALSE
    OBVIOUS
  <2> QED
    BY <2>1, <2>2
<1>4. /\ ref.plan.unit \in {"needed", "always"} => unit'["dns"].state = "active"
      /\ ref.plan.unit = "stop" => unit'["dns"].state # "active"
  <2>1. /\ ref.plan.unit = "always" => unit' = Runs("dns", "active")
        /\ ref.plan.unit = "needed" => unit'["dns"].state = "active"
        /\ ref.plan.unit = "stop" => unit'["dns"].state # "active"
    BY <1>1, <1>2, <1>3, UnitTurns DEF Typed
  <2>2. Runs("dns", "active")["dns"].state = "active"
    BY <1>2, RunsMeans DEF States
  <2> QED
    BY <2>1, <2>2
<1>5. unit'["dns"].state # "active" => unit'["dns"].runs = Nothing
  BY <1>2 DEF FreshInv
<1>6. ~Stale(unit'["dns"], file["dns"])
  <2>1. Stale(unit'["dns"], file["dns"]) => Due(eng', "dns") \/ Due(ref', "dns")
    BY <1>1, <1>2 DEF FreshInv, Stale, Due, Busy, Service
  <2> QED
    BY <1>1, <1>2, <2>1, OffIsTyped DEF Due, Busy
<1>7. \A p \in Parts(c) \ {"blocklist"} : file["dns"][p] = c
  BY <1>1, <1>2, <1>3 DEF FilesFit, PartFits
<1> HIDE DEF c
<1>8. Does("dns", c, unit'["dns"], feed)
  BY <1>1, <1>3, <1>4, <1>5, <1>6, <1>7, DoesAsWritten
<1> QED
  BY <1>8 DEF c

(* Every step keeps that.                                                  *)
LEMMA FollowStep ==
  ASSUME Typed, RefInv, KindsInv, FilesInv, FreshInv, FreshInv', FollowInv,
         Svcs' = Svcs, [Next]_vars
  PROVE  FollowInv'
<1> SUFFICES ASSUME NEW t \in Svcs PROVE FollowNext(t)
  BY DEF FollowInv, FollowNext, Does, InForce
<1>1. ASSUME NEW c \in Configs, Apply(c) PROVE FollowNext(t)
  <2>1. "trial" \in Kinds \ {"off"} /\ Svcs \in SUBSET Svcs /\ c \in Configs
    BY <1>1 DEF Kinds, Typed, ConfigsTyped
  <2>2. LET v == Work("trial", c, Svcs) IN v # Off /\ v.todo = Svcs
    BY <2>1, WorkTyped
  <2> QED
    BY <1>1, <2>2, FollowBegun DEF Apply, Begin
<1>2. CASE Rollback
  <2>1. "rollback" \in Kinds \ {"off"} /\ Svcs \in SUBSET Svcs /\ running \in Configs
    BY <1>2 DEF Kinds, Typed, ConfigsTyped
  <2>2. LET v == Work("rollback", running, Svcs) IN v # Off /\ v.todo = Svcs
    BY <2>1, WorkTyped
  <2> QED
    BY <1>2, <2>2, FollowBegun DEF Rollback, Begin
<1>3. CASE Confirm
  <2>1. /\ UNCHANGED <<unit, feed, eng, agent, warned, ref, spoiled>>
        /\ eng = Off
    BY <1>3 DEF Confirm, otherVars
  <2>2. InForce' = InForce
    BY <1>3 DEF Confirm, InForce
  <2> QED
    BY <2>1, <2>2 DEF FollowInv, FollowNext
<1>4. CASE EngBegin
  <2>1. eng # Off /\ eng' # Off /\ eng'.cfg = eng.cfg /\ eng'.warnings = eng.warnings
        /\ UNCHANGED <<unit, feed, spoiled>> /\ eng.todo # {}
    BY <1>4, EngineGoesOn DEF EngBegin, otherVars
  <2>2. eng'.todo = eng.todo
    BY <1>4, <2>1, BegunMeans DEF EngBegin, Typed, RestTyped
  <2> QED
    BY <2>1, <2>2, FollowGoesOn
<1>5. CASE EngFile
  <2>1. eng # Off /\ eng' # Off /\ eng'.cfg = eng.cfg /\ eng'.warnings = eng.warnings
        /\ UNCHANGED <<unit, feed, spoiled>> /\ eng.todo # {}
    BY <1>5, EngineGoesOn DEF EngFile, otherVars
  <2>2. eng'.todo = eng.todo
    BY <1>5, <2>1, WritingMeans, RemovingMeans DEF EngFile, Typed, Writes
  <2> QED
    BY <2>1, <2>2, FollowGoesOn
<1>6. CASE EngUnit
  <2> DEFINE s == Service(eng)
  <2>1. eng # Off /\ eng' # Off /\ eng'.cfg = eng.cfg /\ eng'.warnings = eng.warnings
        /\ feed' = feed /\ eng.todo # {} /\ eng.at = "unit" /\ UnitDone(eng) /\ Settled(s)
    BY <1>6, EngineGoesOn DEF EngUnit, UnitDone, otherVars
  <2>2. eng'.todo = eng.todo \ {s} /\ (t \in spoiled /\ t # s => t \in spoiled')
    BY <1>6, <2>1, NextServiceMeans DEF EngUnit, Typed, Settled
  <2>3. CASE t # s
    <3>1. unit'[t] = unit[t]
      <4>1. FilesFit(eng, s, eng.cfg[s], file[s], s \in spoiled, feed)
        BY <2>1 DEF FilesInv, EngFiles, Busy
      <4>2. (s \in spoiled) \in BOOLEAN
        OBVIOUS
      <4> QED
        BY <2>1, <2>3, <4>1, <4>2, UnitTurns DEF Typed
    <3> QED
      BY <2>1, <2>2, <2>3, <3>1, FollowGoesOn
  <2>4. CASE t = s
    <3>1. t \notin spoiled' => Does(t, eng.cfg[t], unit'[t], feed)
      BY <1>6, <2>4, UnitSettles
    <3> QED
      BY <2>1, <3>1 DEF FollowNext
  <2> QED
    BY <2>3, <2>4
<1>7. CASE EngStopFails
  <2>1. eng # Off /\ eng' # Off /\ eng'.cfg = eng.cfg /\ eng'.warnings = eng.warnings
        /\ UNCHANGED <<unit, feed>> /\ eng.todo # {}
        /\ spoiled' = spoiled \cup {Service(eng)}
    BY <1>7, EngineGoesOn DEF EngStopFails, otherVars
  <2>2. eng'.todo = eng.todo \ {Service(eng)}
    BY <1>7, <2>1, NextServiceMeans DEF EngStopFails, Typed
  <2> QED
    BY <2>1, <2>2, FollowGoesOn DEF FollowNext
<1>8. CASE EngDone
  <2>1. /\ UNCHANGED <<unit, feed, spoiled, ref, agent, running>> /\ eng # Off
        /\ eng.todo = {} /\ eng' = Off /\ warned' = eng.warnings
    BY <1>8 DEF EngDone, otherVars
  <2>2. InForce' = eng.cfg
    BY <1>8, <2>1, DoneIsInForce DEF EngDone
  <2> QED
    BY <2>1, <2>2 DEF FollowInv, FollowNext
<1>9. CASE EngError
  <2> DEFINE s == Service(eng)
  <2>1. eng # Off /\ s \in eng.todo /\ s \in Svcs /\ UNCHANGED <<feed, running, agent, ref>>
    BY <1>9, EngineFails DEF EngError, otherVars
  <2>2. t # s => unit'[t] = unit[t]
    <3>1. unit' = unit \/ unit' \in AfterFailedRestart(s)
      BY <1>9 DEF EngError
    <3> QED
      BY <2>1, <3>1, FailedMeans
  <2>3. CASE eng'.at = "begin" /\ eng' # Off /\ eng'.warnings = eng.warnings \cup {s}
             /\ eng'.cfg = eng.cfg /\ eng'.todo = eng.todo \ {s} /\ spoiled \subseteq spoiled'
    <3>1. CASE t # s
      BY <2>1, <2>2, <2>3, <3>1, FollowGoesOn
    <3>2. CASE t = s
      BY <2>3, <3>2 DEF FollowNext
    <3> QED
      BY <3>1, <3>2
  <2>4. CASE eng' = Work("restore", running, Svcs)
    <3>1. "restore" \in Kinds \ {"off"} /\ Svcs \in SUBSET Svcs /\ running \in Configs
      BY DEF Kinds, Typed, ConfigsTyped
    <3>2. LET v == Work("restore", running, Svcs) IN v # Off /\ v.todo = Svcs
      BY <3>1, WorkTyped
    <3> QED
      BY <2>4, <3>2, FollowBegun
  <2>5. CASE /\ eng.kind # "trial" /\ warned' = eng.warnings
             /\ eng' = Off /\ spoiled' = spoiled \cup eng.todo
             /\ trial' = IF eng.kind = "rollback" THEN << >> ELSE trial
    <3>1. InForce' = eng.cfg
      BY <2>1, <2>5, DoneIsInForce
    <3>2. CASE t \in eng.todo
      BY <2>5, <3>2 DEF FollowNext
    <3>3. CASE t \notin eng.todo
      BY <2>1, <2>2, <2>5, <3>1, <3>3 DEF FollowInv, FollowNext
    <3> QED
      BY <3>2, <3>3
  <2> QED
    BY <1>9, <2>3, <2>4, <2>5, EngineFails
<1>10. ASSUME NEW stored \in BOOLEAN, Refresh(stored) PROVE FollowNext(t)
  <2>1. /\ UNCHANGED <<unit, eng, agent, warned, running, trial>> /\ ref = Off
        /\ spoiled \subseteq spoiled'
        /\ (eng # Off \/ trial # << >> \/ ~stored => "dns" \in spoiled')
        /\ "dns" \in Svcs
        /\ ref' = IF stored /\ running["dns"].on
                  THEN Work("refresh", running, {"dns"}) ELSE Off
    BY <1>10 DEF Refresh, applyVars
  <2>2. CASE t # "dns"
    <3>1. \A c \in Configs : ~c[t].list
      BY <2>2, SettingOfService DEF Typed
    <3>2. (eng # Off => ~eng.cfg[t].list) /\ ~InForce[t].list
      BY <3>1 DEF Typed, WorkerTyped, ConfigsTyped, InForce
    <3>3. InForce' = InForce
      BY <2>1 DEF InForce
    <3> QED
      BY <2>1, <2>2, <3>2, <3>3, DoesWithoutList DEF FollowInv, FollowNext
  <2>3. CASE t = "dns" /\ t \notin spoiled'
    <3>1. eng = Off /\ stored /\ InForce' = running /\ InForce = running
      BY <2>1, <2>3 DEF InForce
    <3>2. CASE running["dns"].on
      <4>1. running \in Configs /\ {"dns"} \in SUBSET Svcs /\ "refresh" \in Kinds \ {"off"}
        BY <2>1 DEF Typed, ConfigsTyped, Kinds
      <4>2. Work("refresh", running, {"dns"}) # Off
        BY <4>1, WorkTyped
      <4> QED
        BY <2>1, <2>3, <3>1, <3>2, <4>2 DEF FollowNext
    <3>3. CASE ~running["dns"].on
      <4>1. ~ShouldRun("dns", running["dns"])
        BY <3>3 DEF ShouldRun
      <4> QED
        BY <2>1, <2>3, <3>1, <4>1, DoesWithoutList DEF FollowInv, FollowNext
    <3> QED
      BY <3>2, <3>3
  <2>4. CASE t \in spoiled'
    BY <2>4 DEF FollowNext
  <2> QED
    BY <2>2, <2>3, <2>4
<1>11. CASE RefBegin
  <2>1. /\ UNCHANGED <<unit, feed, eng, agent, warned, running, trial, spoiled>>
        /\ ref # Off /\ ref' # Off
    BY <1>11, RefreshGoesOn DEF RefBegin, applyVars, otherVars
  <2> QED
    BY <2>1, FollowKept
<1>12. CASE RefFile
  <2>1. /\ UNCHANGED <<unit, feed, eng, agent, warned, running, trial, spoiled>>
        /\ ref # Off /\ ref' # Off
    BY <1>12, RefreshGoesOn DEF RefFile, applyVars, otherVars
  <2> QED
    BY <2>1, FollowKept
<1>13. CASE RefUnit
  <2>1. /\ UNCHANGED <<feed, eng, agent, warned, running, trial, spoiled>>
        /\ ref.todo # {} /\ UnitDone(ref) /\ ref # Off /\ ref.at = "unit"
    BY <1>13, OffIsTyped DEF RefUnit, UnitDone, applyVars, otherVars
  <2>2. CASE t # "dns"
    <3>1. unit'[t] = unit[t]
      <4>1. FilesFit(ref, "dns", ref.cfg["dns"], file["dns"], "dns" \in spoiled, feed)
        BY <2>1 DEF FilesInv, RefFiles, Busy
      <4>2. ("dns" \in spoiled) \in BOOLEAN /\ Service(ref) = "dns"
        BY <2>1, RefreshIsOfDns
      <4> QED
        BY <2>1, <2>2, <4>1, <4>2, UnitTurns DEF Typed
    <3> QED
      BY <2>1, <2>2, <3>1, FollowKept
  <2>3. CASE t = "dns" /\ "dns" \notin spoiled
    <3>1. eng = Off /\ trial = << >> /\ ref.cfg = running
      BY <2>1, <2>3 DEF KindsInv
    <3>2. InForce' = running
      BY <2>1, <3>1 DEF InForce
    <3>3. Does("dns", running["dns"], unit'["dns"], feed)
      BY <1>13, <2>3, <3>1, RefreshSettles
    <3> QED
      BY <2>1, <2>3, <3>1, <3>2, <3>3 DEF FollowNext
  <2>4. CASE t \in spoiled'
    BY <2>4 DEF FollowNext
  <2> QED
    BY <2>1, <2>2, <2>3, <2>4
<1>14. CASE RefError
  <2>1. /\ UNCHANGED <<feed, eng, agent, warned, running, trial>> /\ ref.todo # {}
        /\ spoiled' = spoiled \cup {"dns"}
        /\ (unit' = unit \/ unit' \in AfterFailedRestart("dns"))
    BY <1>14 DEF RefError, applyVars, otherVars
  <2>2. CASE t # "dns"
    <3>1. "dns" \in Svcs
      BY <2>1, OffIsTyped, RefreshIsOfDns
    <3>2. unit'[t] = unit[t]
      BY <2>1, <2>2, <3>1, FailedMeans
    <3> QED
      BY <2>1, <2>2, <3>2, FollowKept
  <2>3. CASE t = "dns"
    BY <2>1, <2>3 DEF FollowNext
  <2> QED
    BY <2>2, <2>3
<1>15. ASSUME NEW s \in Svcs, RestartRequest(s) PROVE FollowNext(t)
  <2>1. /\ UNCHANGED <<unit, feed, eng, agent, warned, running, trial, ref>>
        /\ spoiled \subseteq spoiled'
    BY <1>15 DEF RestartRequest, applyVars, otherVars
  <2> QED
    BY <2>1, FollowKept
<1>16. CASE Restarted
  <2>1. PICK s \in request :
          /\ unit' \in {Runs(s, "active"), unit}
          /\ spoiled' = spoiled \cup
                          (IF running[s].on /\ ~running[s].down /\ trial = << >> /\ eng = Off
                           THEN {} ELSE {s})
    BY <1>16 DEF Restarted
  <2>2. /\ UNCHANGED <<feed, eng, agent, warned, running, trial, ref, file>> /\ s \in Svcs
    BY <1>16 DEF Restarted, applyVars, Typed, RestTyped
  <2>3. CASE t # s
    <3>1. unit'[t] = unit[t]
      BY <2>1, <2>2, <2>3, RunsMeans DEF States
    <3> QED
      BY <2>1, <2>2, <2>3, <3>1, FollowKept
  <2>4. CASE t = s /\ t \in spoiled'
    BY <2>4 DEF FollowNext
  <2>5. CASE t = s /\ t \notin spoiled' /\ s = "dns" /\ ref # Off
    <3>1. eng' = Off
      BY <2>1, <2>2, <2>5
    <3> QED
      BY <2>2, <2>5, <3>1 DEF FollowNext
  <2>6. CASE unit' = unit
    BY <2>1, <2>2, <2>6, FollowKept
  <2>7. CASE /\ t = s /\ t \notin spoiled' /\ ~(s = "dns" /\ ref # Off)
             /\ unit' = Runs(s, "active")
    <3>1. /\ s \notin spoiled /\ ShouldRun(s, running[s]) /\ eng = Off
          /\ InForce = running /\ InForce' = running
      BY <2>1, <2>2, <2>7 DEF ShouldRun, InForce
    <3>2. ~Due(eng, s) /\ ~Due(ref, s)
      BY <2>7, <3>1, OffIsTyped, RefreshIsOfDns DEF Due, Busy
    <3>3. ~Stale(unit[s], file[s])
      BY <2>2, <3>1, <3>2 DEF FreshInv
    <3>4. /\ unit'[s].state = "active" /\ unit'[s].runs = file[s] /\ ~unit'[s].deaf
      BY <2>2, <2>7, RunsMeans DEF States
    <3>5. ASSUME Does(s, running[s], unit[s], feed)
          PROVE  Does(s, running[s], unit'[s], feed)
      <4>1. unit[s].state = "active" /\ unit[s].runs = file[s]
        BY <3>1, <3>3, <3>5 DEF Does, Stale
      <4> QED
        BY <3>1, <3>4, <3>5, <4>1 DEF Does
    <3> QED
      BY <2>2, <2>7, <3>1, <3>5 DEF FollowInv, FollowNext
  <2> QED
    BY <2>1, <2>3, <2>4, <2>5, <2>6, <2>7
<1>17. ASSUME NEW s \in Svcs, Poll(s) PROVE FollowNext(t)
  <2>1. /\ UNCHANGED <<unit, feed, eng, agent, warned, running, trial, ref>>
        /\ spoiled \subseteq spoiled'
    BY <1>17 DEF Poll, applyVars, otherVars
  <2> QED
    BY <2>1, FollowKept
<1>18. ASSUME NEW s \in Svcs, PollFails(s) PROVE FollowNext(t)
  <2>1. /\ UNCHANGED <<unit, feed, eng, agent, warned, running, trial, ref>>
        /\ spoiled \subseteq spoiled'
    BY <1>18 DEF PollFails, applyVars, otherVars
  <2> QED
    BY <2>1, FollowKept
<1>19. ASSUME NEW s \in Svcs, UnitFails(s) PROVE FollowNext(t)
  <2>1. /\ UNCHANGED <<feed, eng, agent, warned, running, trial, ref>>
        /\ unit' = Runs(s, "failed") /\ spoiled' = spoiled \cup {s}
    BY <1>19 DEF UnitFails, applyVars, otherVars
  <2>2. CASE t # s
    <3>1. unit'[t] = unit[t]
      BY <2>1, <2>2, RunsMeans DEF States
    <3> QED
      BY <2>1, <2>2, <3>1, FollowKept
  <2>3. CASE t = s
    BY <2>1, <2>3 DEF FollowNext
  <2> QED
    BY <2>2, <2>3
<1>20. ASSUME NEW reboot \in BOOLEAN, Exit(reboot) PROVE FollowNext(t)
  BY <1>20 DEF Exit, FollowNext
<1>21. CASE Start
  <2>1. "boot" \in Kinds \ {"off"} /\ Svcs \in SUBSET Svcs /\ running \in Configs
    BY <1>21 DEF Kinds, Typed, ConfigsTyped
  <2>2. LET v == Work("boot", running, Svcs) IN v # Off /\ v.todo = Svcs
    BY <2>1, WorkTyped
  <2> QED
    BY <1>21, <2>2, FollowBegun DEF Start
<1>22. CASE RuleRequest
  <2>1. /\ UNCHANGED <<unit, feed, eng, agent, warned, running, trial, ref>>
        /\ spoiled \subseteq spoiled'
    BY <1>22 DEF RuleRequest, applyVars, otherVars
  <2> QED
    BY <2>1, FollowKept
<1>23. CASE RuleStep
  <2>1. /\ UNCHANGED <<unit, feed, eng, agent, warned, running, trial, ref>>
        /\ spoiled \subseteq spoiled'
    BY <1>23 DEF RuleStep, applyVars, otherVars
  <2> QED
    BY <2>1, FollowKept
<1>24. CASE UNCHANGED vars
  <2>1. /\ UNCHANGED <<unit, feed, eng, agent, warned, running, trial, ref>>
        /\ spoiled \subseteq spoiled'
    BY <1>24 DEF vars
  <2> QED
    BY <2>1, FollowKept
<1> QED
  BY <1>1, <1>2, <1>3, <1>4, <1>5, <1>6, <1>7, <1>8, <1>9, <1>10, <1>11,
     <1>12, <1>13, <1>14, <1>15, <1>16, <1>17, <1>18, <1>19, <1>20, <1>21,
     <1>22, <1>23, <1>24
     DEF Next

-----------------------------------------------------------------------------
(* What a change means: an apply that has changed a file of a running      *)
(* service, without a list, has written a part that the unit does not run; *)
(* a refresh that nothing meddles with finds the other parts as they are   *)
(* to be, and without a list changes nothing.                              *)
EngChange(w, u, sp) ==
  Busy(w) =>
    LET s == Service(w)
        c == w.cfg[s]
    IN  s \notin sp /\ ~c.list /\ w.changed /\ u[s].state = "active" =>
          \E p \in Parts(c) \ w.plan.write : p \in DOMAIN u[s].runs => u[s].runs[p] # c

RefChange(w, files, sp) ==
  w # Off /\ "dns" \notin sp =>
    LET c == w.cfg["dns"]
        f == files["dns"]
    IN  /\ \A p \in Parts(c) \ {"blocklist"} : p \in DOMAIN f /\ f[p] = c
        /\ ~c.list => ~w.changed

ChangeInv == EngChange(eng, unit, spoiled) /\ RefChange(ref, file, spoiled)

ChangeNext == EngChange(eng', unit', spoiled') /\ RefChange(ref', file', spoiled')

(* To put what is there changes nothing.                                   *)
LEMMA PutSame ==
  ASSUME NEW f \in Files, NEW p \in DOMAIN f
  PROVE  Put(f, p, f[p]) = f
<1>1. PICK P \in SUBSET PartNames : f \in [P -> Content]
  BY DEF Files
<1>2. Put(f, p, f[p]) \in [P -> Content]
  BY <1>1 DEF Put
<1>3. \A q \in P : Put(f, p, f[p])[q] = f[q]
  BY <1>1 DEF Put
<1> QED
  BY <1>1, <1>2, <1>3

(* What does not concern the engine's service, ...                         *)
LEMMA EngChangeStays ==
  ASSUME ChangeInv, eng' = eng, spoiled \subseteq spoiled',
         eng # Off => \A s \in eng.todo : s \in spoiled' \/ unit'[s] = unit[s],
         Busy(eng) => eng # Off /\ Service(eng) \in eng.todo
  PROVE  EngChange(eng', unit', spoiled')
  BY DEF ChangeInv, EngChange

(* ... the end of a service, ...                                           *)
LEMMA EngChangeEnds ==
  ASSUME eng' = Off \/ eng'.at = "begin"
  PROVE  EngChange(eng', unit', spoiled')
  BY OffIsTyped DEF EngChange, Busy

(* ... and what does not concern a refresh.                                *)
LEMMA RefChangeStays ==
  ASSUME ChangeInv, ref' = ref,
         ref # Off /\ "dns" \in spoiled => "dns" \in spoiled',
         ref # Off => file'["dns"] = file["dns"] \/ "dns" \in spoiled'
  PROVE  RefChange(ref', file', spoiled')
  BY DEF ChangeInv, RefChange

(* Who is busy has a service.                                              *)
LEMMA BusyIsOn ==
  ASSUME Typed, NEW w, WorkerTyped(w), Busy(w)
  PROVE  w # Off /\ Service(w) \in w.todo /\ Service(w) \in Svcs
  BY WorkerIsOn DEF Busy, Typed

(* Nobody else has anything to do with a service of the engine that is not *)
(* spoiled: its unit runs what its files say until the engine changes one. *)
LEMMA EngineIsAlone ==
  ASSUME Typed, RefInv, KindsInv, FreshInv, eng # Off, NEW s \in Svcs,
         s \notin spoiled, ~Due(eng, s), unit[s].state = "active"
  PROVE  unit[s].runs = file[s]
<1>1. ~Due(ref, s)
  BY OffIsTyped, RefreshIsOfDns DEF Due, Busy
<1> QED
  BY <1>1 DEF FreshInv, Stale

(* Every step keeps that.                                                  *)
LEMMA ChangeStep ==
  ASSUME Typed, RefInv, KindsInv, FilesInv, FreshInv, FollowInv, ChangeInv,
         [Next]_vars
  PROVE  ChangeInv'
<1> SUFFICES ChangeNext
  BY DEF ChangeInv, ChangeNext, EngChange, RefChange, Busy, Service
<1> USE DEF ChangeNext
<1>a. Busy(eng) => eng # Off /\ Service(eng) \in eng.todo
  BY BusyIsOn DEF Typed
<1>1. ASSUME NEW c \in Configs, Apply(c) PROVE ChangeNext
  <2>1. "trial" \in Kinds \ {"off"} /\ Svcs \in SUBSET Svcs /\ c \in Configs
    BY <1>1 DEF Kinds, Typed, ConfigsTyped
  <2>2. Work("trial", c, Svcs).at = "begin"
    BY <2>1, WorkTyped
  <2>3. eng'.at = "begin" /\ UNCHANGED <<ref, file>> /\ spoiled \subseteq spoiled'
    BY <1>1, <2>2 DEF Apply, Begin, OverlapsRefresh
  <2> QED
    BY <2>3, EngChangeEnds, RefChangeStays
<1>2. CASE Rollback
  <2>1. "rollback" \in Kinds \ {"off"} /\ Svcs \in SUBSET Svcs /\ running \in Configs
    BY <1>2 DEF Kinds, Typed, ConfigsTyped
  <2>2. Work("rollback", running, Svcs).at = "begin"
    BY <2>1, WorkTyped
  <2>3. eng'.at = "begin" /\ UNCHANGED <<ref, file>> /\ spoiled \subseteq spoiled'
    BY <1>2, <2>2 DEF Rollback, Begin, OverlapsRefresh
  <2> QED
    BY <2>3, EngChangeEnds, RefChangeStays
<1>3. CASE Confirm
  <2>1. UNCHANGED <<eng, ref, unit, file>> /\ spoiled \subseteq spoiled'
    BY <1>3 DEF Confirm, applyVars, otherVars
  <2> QED
    BY <2>1, <1>a, EngChangeStays, RefChangeStays
<1>4. CASE EngBegin
  <2>1. ~eng'.changed /\ UNCHANGED <<ref, file, spoiled>>
    BY <1>4, BegunMeans DEF EngBegin, Typed, RestTyped
  <2>2. EngChange(eng', unit', spoiled')
    BY <2>1 DEF EngChange
  <2> QED
    BY <2>1, <2>2, RefChangeStays
<1>5. CASE EngFile
  <2> DEFINE s == Service(eng)
             c == eng.cfg[s]
  <2>1. eng # Off /\ eng.todo # {} /\ s \in Svcs /\ eng.cfg \in Configs
        /\ UNCHANGED <<unit, ref, spoiled>>
    BY <1>5, WorkerIsOn DEF EngFile, Typed
  <2>2. ref # Off => "dns" \in spoiled
    BY <2>1, RefreshIsOfDns
  <2>3. RefChange(ref', file', spoiled')
    BY <2>1, <2>2, RefChangeStays
  <2>4. CASE FileWritten(eng, eng')
    <3>1. eng.at = "files"
      BY <2>1, <2>4, WritingMeans DEF Typed
    <3>2. PICK p \in eng.plan.write : \E content \in Contents(p, c, eng.domains) :
            Writes(eng, eng', p, content)
      BY <2>1, <2>4, WritingMeans DEF Typed
    <3>3. PICK content \in Contents(p, c, eng.domains) : Writes(eng, eng', p, content)
      BY <3>2
    <3>4. /\ Same(eng', eng) /\ eng'.todo = eng.todo
          /\ eng'.changed = (eng.changed \/ Put(file[s], p, content) # file[s])
          /\ eng'.plan = [eng.plan EXCEPT !.write = @ \ {p}]
      BY <3>3 DEF Writes
    <3>5. eng'.plan.write = eng.plan.write \ {p} /\ Service(eng') = s /\ eng'.cfg = eng.cfg
      BY <3>4 DEF Service, Same, Typed, WorkerTyped, Workers, Plans
    <3>6. p \in Parts(c)
      <4>1. FilesFit(eng, s, c, file[s], s \in spoiled, feed)
        BY <2>1, <3>1 DEF FilesInv, EngFiles, Busy
      <4> QED
        BY <4>1 DEF FilesFit, PlanFits
    <3>7. ASSUME s \notin spoiled, ~c.list, eng.changed, unit[s].state = "active"
          PROVE  \E q \in Parts(c) \ eng'.plan.write :
                   q \in DOMAIN unit[s].runs => unit[s].runs[q] # c
      BY <2>1, <3>1, <3>5, <3>7 DEF ChangeInv, EngChange, Busy
    <3>8. ASSUME s \notin spoiled, ~c.list, ~eng.changed, unit[s].state = "active",
                 Put(file[s], p, content) # file[s]
          PROVE  p \in DOMAIN unit[s].runs => unit[s].runs[p] # c
      <4>1. ~Due(eng, s)
        BY <3>1, <3>8 DEF Due
      <4>2. unit[s].runs = file[s]
        BY <2>1, <3>8, <4>1, EngineIsAlone
      <4>3. content = c
        BY <3>6, <3>8, PartsOf DEF Contents
      <4>4. file[s] \in Files
        BY <2>1 DEF Typed
      <4> QED
        BY <3>8, <4>2, <4>3, <4>4, PutSame
    <3> HIDE DEF s, c
    <3>9. EngChange(eng', unit', spoiled')
      BY <2>1, <3>4, <3>5, <3>6, <3>7, <3>8 DEF EngChange, c
    <3> QED
      BY <2>3, <3>9
  <2>5. CASE FilesRemoved(eng, eng')
    <3>1. /\ eng.at = "files" /\ Same(eng', eng) /\ eng'.todo = eng.todo
          /\ eng'.plan = eng.plan /\ eng'.changed = eng.changed
      BY <2>1, <2>5, RemovingMeans DEF Typed
    <3>2. Service(eng') = s /\ eng'.cfg = eng.cfg
      BY <3>1 DEF Service, Same
    <3>3. EngChange(eng', unit', spoiled')
      BY <2>1, <3>1, <3>2 DEF ChangeInv, EngChange, Busy
    <3> QED
      BY <2>3, <3>3
  <2> QED
    BY <1>5, <2>4, <2>5 DEF EngFile
<1>6. CASE EngUnit
  <2>1. eng'.at = "begin" /\ eng.todo # {} /\ UNCHANGED <<ref, file>>
    BY <1>6, NextServiceMeans DEF EngUnit, Typed
  <2>2. ref # Off /\ "dns" \in spoiled => "dns" \in spoiled'
    BY <1>6 DEF EngUnit, Settled
  <2> QED
    BY <2>1, <2>2, EngChangeEnds, RefChangeStays
<1>7. CASE EngStopFails
  <2>1. eng'.at = "begin" /\ UNCHANGED <<ref, file>> /\ spoiled \subseteq spoiled'
    BY <1>7, NextServiceMeans DEF EngStopFails, Typed
  <2> QED
    BY <2>1, EngChangeEnds, RefChangeStays
<1>8. CASE EngDone
  <2>1. eng' = Off /\ UNCHANGED <<ref, file, spoiled>>
    BY <1>8 DEF EngDone
  <2> QED
    BY <2>1, EngChangeEnds, RefChangeStays
<1>9. CASE EngError
  <2>1. Work("restore", running, Svcs).at = "begin"
    <3>1. "restore" \in Kinds \ {"off"} /\ Svcs \in SUBSET Svcs /\ running \in Configs
      BY DEF Kinds, Typed, ConfigsTyped
    <3> QED
      BY <3>1, WorkTyped
  <2>2. (eng' = Off \/ eng'.at = "begin") /\ spoiled \subseteq spoiled'
    BY <1>9, <2>1, EngineFails
  <2>3. UNCHANGED <<ref, file>>
    BY <1>9 DEF EngError
  <2> QED
    BY <2>2, <2>3, EngChangeEnds, RefChangeStays
<1>10. ASSUME NEW stored \in BOOLEAN, Refresh(stored) PROVE ChangeNext
  <2>1. UNCHANGED <<eng, unit, file, trial, running>> /\ spoiled \subseteq spoiled'
        /\ "dns" \in Svcs /\ ref = Off /\ agent = "up"
    BY <1>10 DEF Refresh, applyVars, Serving
  <2>2. EngChange(eng', unit', spoiled')
    BY <1>a, <2>1, EngChangeStays
  <2>3. ASSUME ref' # Off, "dns" \notin spoiled'
        PROVE  /\ \A p \in Parts(running["dns"]) \ {"blocklist"} :
                    p \in DOMAIN file["dns"] /\ file["dns"][p] = running["dns"]
               /\ ref'.cfg = running /\ ~ref'.changed
    <3>1. /\ running["dns"].on /\ ref' = Work("refresh", running, {"dns"})
          /\ eng = Off /\ trial = << >> /\ "dns" \notin spoiled
      BY <1>10, <2>3 DEF Refresh
    <3>2. ref'.cfg = running /\ ~ref'.changed
      <4>1. running \in Configs /\ {"dns"} \in SUBSET Svcs /\ "refresh" \in Kinds \ {"off"}
        BY <2>1 DEF Typed, ConfigsTyped, Kinds
      <4> QED
        BY <3>1, <4>1, WorkTyped
    <3>3. Does("dns", running["dns"], unit["dns"], feed)
      <4>1. "dns" \notin warned /\ InForce = running
        BY <3>1 DEF Typed, RestTyped, Soft, InForce
      <4> QED
        BY <2>1, <3>1, <4>1 DEF FollowInv
    <3>4. ~Stale(unit["dns"], file["dns"])
      BY <2>1, <3>1, OffIsTyped DEF FreshInv, Due, Busy
    <3>5. running["dns"] \in Setting /\ ~running["dns"].down
      BY <2>1, SettingOfService DEF Typed, ConfigsTyped
    <3>6. /\ Parts(running["dns"]) \subseteq DOMAIN file["dns"]
          /\ file["dns"]["main"] = running["dns"]
          /\ running["dns"].hosts => file["dns"]["hosts"] = running["dns"]
      BY <3>1, <3>3, <3>4, <3>5 DEF Does, Stale, ShouldRun
    <3> QED
      BY <3>2, <3>6 DEF Parts
  <2>4. RefChange(ref', file', spoiled')
    BY <2>1, <2>3 DEF RefChange
  <2> QED
    BY <2>2, <2>4
<1>11. CASE RefBegin
  <2>1. /\ ref # Off /\ ref'.cfg = ref.cfg /\ ~ref'.changed
        /\ UNCHANGED <<eng, unit, file, spoiled>>
    BY <1>11, RefreshGoesOn, BegunMeans DEF RefBegin, applyVars, Typed, RestTyped
  <2>2. EngChange(eng', unit', spoiled')
    BY <1>a, <2>1, EngChangeStays
  <2> QED
    BY <2>1, <2>2 DEF ChangeInv, RefChange
<1>12. CASE RefFile
  <2> DEFINE c == ref.cfg["dns"]
  <2>1. /\ ref # Off /\ ref.todo # {} /\ ref'.cfg = ref.cfg
        /\ UNCHANGED <<eng, unit, spoiled>>
    BY <1>12, RefreshGoesOn DEF RefFile, applyVars
  <2>2. Service(ref) = "dns" /\ "dns" \in Svcs
    BY <2>1, RefreshIsOfDns
  <2>3. EngChange(eng', unit', spoiled')
    BY <1>a, <2>1, EngChangeStays
  <2>4. CASE FileWritten(ref, ref')
    <3>1. ref.at = "files"
      BY <2>1, <2>4, WritingMeans DEF Typed
    <3>2. PICK p \in ref.plan.write : \E content \in Contents(p, c, ref.domains) :
            Writes(ref, ref', p, content)
      BY <2>1, <2>2, <2>4, WritingMeans DEF Typed
    <3>3. PICK content \in Contents(p, c, ref.domains) : Writes(ref, ref', p, content)
      BY <3>2
    <3>4. /\ file' = [file EXCEPT !["dns"] = Put(file["dns"], p, content)]
          /\ ref'.changed = (ref.changed \/ Put(file["dns"], p, content) # file["dns"])
      BY <2>2, <3>3 DEF Writes
    <3>5. file'["dns"] = Put(file["dns"], p, content) /\ file["dns"] \in Files
      BY <2>2, <3>4 DEF Typed
    <3>6. p \in Parts(c)
      <4>1. FilesFit(ref, "dns", c, file["dns"], "dns" \in spoiled, feed)
        BY <2>1, <3>1 DEF FilesInv, RefFiles, Busy
      <4> QED
        BY <4>1 DEF FilesFit, PlanFits
    <3>7. ASSUME "dns" \notin spoiled
          PROVE  /\ \A q \in Parts(c) \ {"blocklist"} :
                      q \in DOMAIN file'["dns"] /\ file'["dns"][q] = c
                 /\ ~c.list => ~ref'.changed
      <4>1. /\ \A q \in Parts(c) \ {"blocklist"} :
                 q \in DOMAIN file["dns"] /\ file["dns"][q] = c
            /\ ~c.list => ~ref.changed
        BY <2>1, <3>7 DEF ChangeInv, RefChange
      <4>2. CASE p = "blocklist"
        <5>1. c.list
          BY <3>6, <4>2, PartsOf
        <5>2. \A q \in DOMAIN file["dns"] \ {p} :
                q \in DOMAIN file'["dns"] /\ file'["dns"][q] = file["dns"][q]
          BY <3>5 DEF Put
        <5> QED
          BY <4>1, <4>2, <5>1, <5>2
      <4>3. CASE p # "blocklist"
        <5>1. content = c /\ p \in DOMAIN file["dns"] /\ file["dns"][p] = c
          BY <3>6, <4>1, <4>3 DEF Contents
        <5>2. Put(file["dns"], p, content) = file["dns"]
          BY <3>5, <5>1, PutSame
        <5> QED
          BY <3>4, <3>5, <4>1, <5>2
      <4> QED
        BY <4>2, <4>3
    <3>8. RefChange(ref', file', spoiled')
      BY <2>1, <3>7 DEF RefChange
    <3> QED
      BY <2>3, <3>8
  <2>5. CASE FilesRemoved(ref, ref')
    <3>1. /\ ref.at = "files" /\ ref'.changed = ref.changed
          /\ file' = IF ref.plan.remove THEN [file EXCEPT !["dns"] = Nothing] ELSE file
      BY <2>1, <2>2, <2>5, RemovingMeans DEF Typed
    <3>2. FilesFit(ref, "dns", c, file["dns"], "dns" \in spoiled, feed)
      BY <2>1, <3>1 DEF FilesInv, RefFiles, Busy
    <3>3. ~ref.plan.remove
      BY <2>1, <3>2, RefreshIsOfDns DEF FilesFit, PlanFits
    <3> QED
      BY <2>1, <2>3, <3>1, <3>3 DEF ChangeInv, RefChange
  <2> QED
    BY <1>12, <2>4, <2>5 DEF RefFile
<1>13. CASE RefUnit
  <2>1. /\ UNCHANGED <<eng, file, spoiled>> /\ ref' = Off /\ ref # Off /\ ref.todo # {}
        /\ UnitDone(ref) /\ ref.at = "unit"
    BY <1>13, OffIsTyped DEF RefUnit, UnitDone, applyVars
  <2>2. \A s \in Svcs \ {"dns"} : unit'[s] = unit[s]
    <3>1. FilesFit(ref, "dns", ref.cfg["dns"], file["dns"], "dns" \in spoiled, feed)
      BY <2>1 DEF FilesInv, RefFiles, Busy
    <3>2. ("dns" \in spoiled) \in BOOLEAN /\ Service(ref) = "dns"
      BY <2>1, RefreshIsOfDns
    <3> QED
      BY <2>1, <3>1, <3>2, UnitTurns DEF Typed
  <2>3. eng # Off => "dns" \in spoiled
    BY <2>1, RefreshIsOfDns
  <2>4. eng.todo \subseteq Svcs
    BY DEF Typed, WorkerTyped, Workers
  <2>5. EngChange(eng', unit', spoiled')
    BY <1>a, <2>1, <2>2, <2>3, <2>4, EngChangeStays
  <2> QED
    BY <2>1, <2>5 DEF RefChange
<1>14. CASE RefError
  <2>1. /\ UNCHANGED <<eng, file>> /\ ref' = Off /\ spoiled' = spoiled \cup {"dns"}
        /\ (unit' = unit \/ unit' \in AfterFailedRestart("dns")) /\ ref.todo # {}
    BY <1>14 DEF RefError, applyVars
  <2>2. "dns" \in Svcs
    BY <2>1, OffIsTyped, RefreshIsOfDns
  <2>3. \A s \in Svcs \ {"dns"} : unit'[s] = unit[s]
    BY <2>1, <2>2, FailedMeans
  <2>4. eng.todo \subseteq Svcs
    BY DEF Typed, WorkerTyped, Workers
  <2>5. EngChange(eng', unit', spoiled')
    BY <1>a, <2>1, <2>3, <2>4, EngChangeStays
  <2> QED
    BY <2>1, <2>5 DEF RefChange
<1>15. ASSUME NEW s \in Svcs, RestartRequest(s) PROVE ChangeNext
  <2>1. UNCHANGED <<eng, ref, unit, file>> /\ spoiled \subseteq spoiled'
    BY <1>15 DEF RestartRequest, applyVars, otherVars
  <2> QED
    BY <2>1, <1>a, EngChangeStays, RefChangeStays
<1>16. CASE Restarted
  <2>1. PICK s \in request :
          /\ unit' \in {Runs(s, "active"), unit}
          /\ spoiled \subseteq spoiled' /\ (eng # Off => s \in spoiled')
    BY <1>16 DEF Restarted
  <2>2. UNCHANGED <<eng, ref, file>> /\ s \in Svcs
    BY <1>16 DEF Restarted, applyVars, Typed, RestTyped
  <2>3. \A x \in Svcs \ {s} : unit'[x] = unit[x]
    BY <2>1, <2>2, RunsMeans DEF States
  <2>4. eng.todo \subseteq Svcs
    BY DEF Typed, WorkerTyped, Workers
  <2> QED
    BY <1>a, <2>1, <2>2, <2>3, <2>4, EngChangeStays, RefChangeStays
<1>17. ASSUME NEW s \in Svcs, Poll(s) PROVE ChangeNext
  <2>1. UNCHANGED <<eng, ref, unit, file>> /\ spoiled \subseteq spoiled'
    BY <1>17 DEF Poll, applyVars, otherVars
  <2> QED
    BY <2>1, <1>a, EngChangeStays, RefChangeStays
<1>18. ASSUME NEW s \in Svcs, PollFails(s) PROVE ChangeNext
  <2>1. UNCHANGED <<eng, ref, unit, file>> /\ spoiled \subseteq spoiled'
    BY <1>18 DEF PollFails, applyVars, otherVars
  <2> QED
    BY <2>1, <1>a, EngChangeStays, RefChangeStays
<1>19. ASSUME NEW s \in Svcs, UnitFails(s) PROVE ChangeNext
  <2>1. /\ UNCHANGED <<eng, ref, file>> /\ unit' = Runs(s, "failed")
        /\ spoiled' = spoiled \cup {s}
    BY <1>19 DEF UnitFails, applyVars
  <2>2. \A x \in Svcs \ {s} : unit'[x] = unit[x]
    BY <2>1, RunsMeans DEF States
  <2>3. eng.todo \subseteq Svcs
    BY DEF Typed, WorkerTyped, Workers
  <2> QED
    BY <1>a, <2>1, <2>2, <2>3, EngChangeStays, RefChangeStays
<1>20. ASSUME NEW reboot \in BOOLEAN, Exit(reboot) PROVE ChangeNext
  <2>1. eng' = Off /\ ref' = Off
    BY <1>20 DEF Exit
  <2> QED
    BY <2>1, EngChangeEnds DEF RefChange
<1>21. CASE Start
  <2>1. "boot" \in Kinds \ {"off"} /\ Svcs \in SUBSET Svcs /\ running \in Configs
    BY <1>21 DEF Kinds, Typed, ConfigsTyped
  <2>2. Work("boot", running, Svcs).at = "begin"
    BY <2>1, WorkTyped
  <2>3. eng'.at = "begin" /\ UNCHANGED <<ref, file>> /\ spoiled \subseteq spoiled'
    BY <1>21, <2>2 DEF Start
  <2> QED
    BY <2>3, EngChangeEnds, RefChangeStays
<1>22. CASE RuleRequest
  <2>1. UNCHANGED <<eng, ref, unit, file>> /\ spoiled \subseteq spoiled'
    BY <1>22 DEF RuleRequest, applyVars, otherVars
  <2> QED
    BY <2>1, <1>a, EngChangeStays, RefChangeStays
<1>23. CASE RuleStep
  <2>1. UNCHANGED <<eng, ref, unit, file>> /\ spoiled \subseteq spoiled'
    BY <1>23 DEF RuleStep, applyVars, otherVars
  <2> QED
    BY <2>1, <1>a, EngChangeStays, RefChangeStays
<1>24. CASE UNCHANGED vars
  <2>1. UNCHANGED <<eng, ref, unit, file>> /\ spoiled \subseteq spoiled'
    BY <1>24 DEF vars
  <2> QED
    BY <2>1, <1>a, EngChangeStays, RefChangeStays
<1> QED
  BY <1>1, <1>2, <1>3, <1>4, <1>5, <1>6, <1>7, <1>8, <1>9, <1>10, <1>11,
     <1>12, <1>13, <1>14, <1>15, <1>16, <1>17, <1>18, <1>19, <1>20, <1>21,
     <1>22, <1>23, <1>24
     DEF Next

-----------------------------------------------------------------------------
(* The inductive invariant.                                                *)
IInv ==
  /\ Typed /\ RulesTyped /\ RefInv /\ KindsInv /\ FilesInv /\ FreshInv
  /\ FollowInv /\ ChangeInv /\ ToldInv

(* It holds at the start, ...                                              *)
LEMMA InitHolds == Init => IInv
<1> SUFFICES ASSUME Init PROVE IInv
  OBVIOUS
<1>1. LeftTyped
  BY ServicesConstants DEF Init, LeftTyped, Svcs, Configs
<1>2. ConfigsTyped
  BY DEF Init, ConfigsTyped, Configs
<1>3. RestTyped
  BY DEF Init, RestTyped, Soft, States
<1>4. file \in [Svcs -> Files] /\ unit \in [Svcs -> Units]
  BY NothingIsTyped DEF Init, Units, States
<1>5. WorkerTyped(eng) /\ WorkerTyped(ref)
  BY OffIsTyped DEF Init
<1>6. Typed
  BY <1>1, <1>2, <1>3, <1>4, <1>5 DEF Typed
<1>7. RulesTyped
  BY RulesInitTyped DEF Init
<1>8. RefInv /\ KindsInv
  BY OffIsTyped DEF Init, RefInv, KindsInv
<1>9. FilesInv /\ ChangeInv
  BY OffIsTyped
     DEF Init, FilesInv, EngFiles, RefFiles, ChangeInv, EngChange, RefChange, Busy
<1>10. FreshInv /\ ToldInv
  BY DEF Init, FreshInv, ToldInv, Stale
<1>11. FollowInv
  BY DEF Init, FollowInv
<1> QED
  BY <1>6, <1>7, <1>8, <1>9, <1>10, <1>11 DEF IInv

(* ... and every step keeps it.                                            *)
LEMMA StepHolds == IInv /\ [Next]_vars => IInv'
<1> SUFFICES ASSUME IInv, [Next]_vars PROVE IInv'
  OBVIOUS
<1> USE DEF IInv
<1>1. Svcs' = Svcs
  BY LeftStep DEF Typed
<1>2. Typed' /\ RulesTyped' /\ RefInv' /\ KindsInv'
  BY <1>1, TypeStep, RulesStep, RefStep, KindsStep
<1>3. FilesInv' /\ FreshInv'
  BY <1>1, FilesStep, FreshStep
<1>4. FollowInv' /\ ChangeInv' /\ ToldInv'
  BY <1>1, <1>2, <1>3, FollowStep, ChangeStep, ToldStep
<1> QED
  BY <1>2, <1>3, <1>4

(* The invariant that the properties follow from (Services, all actions). *)
THEOREM InvHolds == Spec => []IInv
  BY InitHolds, StepHolds, PTL DEF Spec

(* The state stays within its types (applyBackends, ReapplyDNSOnly and     *)
(* what they keep).                                                        *)
THEOREM TypeCorrect == Spec => []TypeOK
<1>1. IInv => TypeOK
  <2> SUFFICES ASSUME IInv PROVE TypeOK
    OBVIOUS
  <2>1. Typed /\ RulesTypeOK
    BY RulesAreTyped DEF IInv
  <2>2. WorkerOK(eng) /\ WorkerOK(ref)
    BY <2>1 DEF Typed, RestTyped, WorkerTyped, Workers, WorkerOK
  <2>3. ASSUME NEW s \in Svcs
        PROVE  /\ unit[s].state \in {"active", "inactive", "failed"}
               /\ DOMAIN file[s] \cup DOMAIN unit[s].runs
                    \subseteq {"main", "blocklist", "hosts"}
    <3>1. file[s] \in Files /\ unit[s] \in Units
      BY <2>1 DEF Typed
    <3>2. unit[s].state \in States /\ unit[s].runs \in Files
      BY <3>1 DEF Units
    <3> QED
      BY <3>1, <3>2, FilesAreParts, Names DEF States
  <2>4. running \in Configs /\ Len(trial) <= 1 /\ (trial # << >> => trial[1] \in Configs)
    <3>1. running \in Configs
      BY <2>1 DEF Typed, ConfigsTyped
    <3>2. CASE trial = << >>
      BY <3>1, <3>2
    <3>3. ASSUME NEW c \in Configs, trial = <<c>>
          PROVE  Len(trial) <= 1 /\ trial[1] \in Configs
      BY <3>3
    <3> QED
      BY <2>1, <3>1, <3>2, <3>3 DEF Typed, ConfigsTyped
  <2> QED
    BY <2>1, <2>2, <2>3, <2>4 DEF Typed, RestTyped, TypeOK
<1> QED
  BY <1>1, InvHolds, PTL

(* After any sequence of applies, failures, rollbacks, refreshes, restarts *)
(* and restarts of agent and machine, when nothing is in progress every    *)
(* service follows the configuration in force, or a warning names it, or   *)
(* something besides an apply is to blame (applyBackends, ReapplyDNSOnly). *)
THEOREM ServicesFollowed == Spec => []ServicesFollow
<1>1. IInv => ServicesFollow
  BY DoesIsFollows DEF IInv, FollowInv, ServicesFollow, Quiet
<1> QED
  BY <1>1, InvHolds, PTL

(* No apply and no refresh restarts a service that runs what its           *)
(* configuration says, where the adapter restarts only if needed           *)
(* (RestartIfNeeded) and no block list is written.                         *)
THEOREM RestartsNeeded == Spec => []NoNeedlessRestart
<1>1. ASSUME IInv, NEW w \in {eng, ref}, w.todo # {}, w.at = "unit",
             LET s == Service(w) IN
               /\ Active(s) /\ unit[s].runs = file[s] /\ s \notin spoiled
               /\ ~w.cfg[s].list
      PROVE  ~w.changed
  <2> DEFINE s == Service(w)
             c == w.cfg[s]
  <2> USE DEF IInv
  <2>1. CASE w = eng
    <3>1. FilesFit(eng, s, c, file[s], s \in spoiled, feed) /\ eng.plan.write = {}
      BY <1>1, <2>1 DEF FilesInv, EngFiles, Busy, FilesFit
    <3>2. CASE ShouldRun(s, c)
      <4>1. \A p \in Parts(c) : p \in DOMAIN file[s] /\ file[s][p] = c
        BY <1>1, <2>1, <3>1, <3>2, PartsOf DEF FilesFit, PartFits
      <4>2. eng.changed => \E p \in Parts(c) :
                             p \in DOMAIN unit[s].runs => unit[s].runs[p] # c
        BY <1>1, <2>1, <3>1 DEF ChangeInv, EngChange, Busy, Active
      <4> QED
        BY <1>1, <2>1, <4>1, <4>2
    <3>3. CASE ~ShouldRun(s, c)
      BY <2>1, <3>1, <3>3 DEF FilesFit
    <3> QED
      BY <3>2, <3>3
  <2>2. CASE w = ref
    <3>1. ref # Off /\ Service(ref) = "dns"
      BY <1>1, <2>2, OffIsTyped, RefreshIsOfDns
    <3> QED
      BY <1>1, <2>2, <3>1 DEF ChangeInv, RefChange
  <2> QED
    BY <2>1, <2>2
<1>2. IInv => NoNeedlessRestart
  BY <1>1 DEF NoNeedlessRestart
<1> QED
  BY <1>2, InvHolds, PTL

(* Between two reports of a unit lie a second failure, a reading without   *)
(* an answer, or a restart of the agent (StartServiceFailureWatcher).      *)
THEOREM ReportsOnce == Spec => []ToldOncePerFall
<1>1. IInv => ToldOncePerFall
  BY DEF IInv, ToldInv, ToldOncePerFall
<1> QED
  BY <1>1, InvHolds, PTL
====
