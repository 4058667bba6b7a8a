------------------------------ MODULE SafeApply ------------------------------
(***************************************************************************)
(* Safe Apply: how a configuration goes from candidate to running          *)
(* (pkg/engine/engine.go, pkg/store/store.go, the boot of                  *)
(* cmd/security-harbor-agent/main.go).                                     *)
(*                                                                         *)
(* ApplyCandidate, ConfirmConfig, RollbackConfig and the timer callback    *)
(* hold the engine's mutex e.mu from start to end; op is what its holder   *)
(* is doing.  UpdateCandidate and the background ReapplyNftablesOnly do    *)
(* not take it and interleave with every step of the holder, and so does   *)
(* security-harbor-emergency-restore, outside the agent.  The process      *)
(* can die between any two steps; systemd starts it again.                 *)
(*                                                                         *)
(* A configuration is a model value: its identity stands for its whole     *)
(* content, IfcOf and RoutesOf give its interfaces and static routes.      *)
(* Values the agent writes into a configuration in place (object values,   *)
(* list status) are not part of this identity.                             *)
(***************************************************************************)
EXTENDS NetApply, Sequences

CONSTANTS
  Cfgs, NoCfg,
  Stored,            \* a job whose change is stored, before it reads
  Valid,             \* the configurations ValidateCandidate accepts
  IfcOf, RoutesOf,   \* [Cfgs -> ...]
  Seed,              \* the configuration of a fresh installation
  HistoryKeep,       \* historyKeep, pkg/store/history.go
  Failsafe,          \* the ruleset the machine boots with
  Mixed,             \* services left half way between two configurations
  MaxApplies,        \* bound on calls of ApplyCandidate
  MaxBoots,          \* bound on restarts
  StrictClient,      \* TRUE: no edit and no new apply while unconfirmed
  Background,        \* TRUE: ReapplyNftablesOnly runs in the background
  RescueTool,        \* TRUE: security-harbor-emergency-restore may be run
  BackendMayFail,    \* TRUE: nft or a service may refuse a configuration
  DiskMayFail,       \* TRUE: a write under the data directory may fail
  DevicesMayBeGone   \* TRUE: no configured device may exist at boot

ASSUME SafeApplyConstants ==
  /\ NoCfg \notin Cfgs /\ Stored \notin Cfgs \cup {NoCfg}
  /\ Valid \subseteq Cfgs
  /\ Seed \in Valid
  /\ IfcOf \in [Cfgs -> IfaceTable]
  /\ RoutesOf \in [Cfgs -> SUBSET StaticRoute]
  /\ HistoryKeep \in Nat \ {0}
  /\ Failsafe \notin Cfgs /\ Mixed \notin Cfgs
  /\ MaxApplies \in Nat /\ MaxBoots \in Nat
  /\ StrictClient \in BOOLEAN /\ Background \in BOOLEAN
  /\ BackendMayFail \in BOOLEAN /\ DiskMayFail \in BOOLEAN
  /\ DevicesMayBeGone \in BOOLEAN /\ RescueTool \in BOOLEAN

(* validateStaticRoutes: no valid configuration routes a network twice.    *)
ASSUME ValidRoutes == \A c \in Valid : UniqueDests(RoutesOf[c])

VARIABLES
  running, candidate,      \* Store.runningCfg, Store.candidateCfg
  runningJson,             \* running.json
  candidateJson,           \* candidate.json, NoCfg when there is none
  history,                 \* the archived configurations, newest first
  state, unconfirmed,      \* Engine.state, Engine.unconfirmedCfg
  timer,                   \* Engine.confirmTimer: which apply made it, 0 = nil
  armed,                   \* timers that have neither fired nor been stopped
  due,                     \* timers whose callback waits for e.mu
  op,                      \* what the holder of e.mu is doing
  job,                     \* a background job: none, Stored, or what it has read
  kNft, kSvc,              \* configuration the kernel's ruleset / services have
  kIfc, kRts,              \* the kernel's interfaces and routes
  osIfc,                   \* the interface configuration the OS boots with
  applies, boots,          \* counters for the bounds
  rescue,                  \* how far security-harbor-emergency-restore is
  confirmed,               \* history variable: last one confirmed with success
  attempted,               \* history variable: those a confirm since then has
                           \* made the running one in memory, failing to save
  degraded                 \* history variable: no backend state is known, the
                           \* last restore, rollback or boot having failed

store == <<running, candidate, runningJson, candidateJson, history>>
engine == <<state, unconfirmed, timer, armed, due>>
kernel == <<kNft, kSvc, kIfc, kRts, osIfc>>
outside == <<applies, boots, rescue>>
ghosts == <<confirmed, attempted, degraded>>
vars == <<store, engine, op, job, kernel, outside, ghosts>>

-----------------------------------------------------------------------------
Kinds == {"none", "apply", "restore", "rollback", "boot"}
Steps == {"none", "ifaces", "routes", "nft", "svc", "finish"}

Op(k, s, c, p) == [kind |-> k, step |-> s, cfg |-> c, prev |-> p]
Free == Op("none", "none", NoCfg, NoCfg)
MutexFree == op = Free

Goto(s) == op' = [op EXCEPT !.step = s]

IfcPrev(c) == IF c = NoCfg THEN NoIfaces ELSE IfcOf[c]
RoutesPrev(c) == IF c = NoCfg THEN {} ELSE RoutesOf[c]

(* A write of candidate.json that may fail; the caller ignores or reports  *)
(* the error but keeps what it put in memory.                              *)
SaveCandidateJson(c) ==
  candidateJson' \in {c} \cup (IF DiskMayFail THEN {candidateJson} ELSE {})

TypeOK ==
  /\ running \in Cfgs /\ candidate \in Cfgs
  /\ runningJson \in Cfgs /\ candidateJson \in Cfgs \cup {NoCfg}
  /\ history \in Seq(Cfgs) /\ Len(history) <= HistoryKeep
  /\ state \in {"Idle", "Unconfirmed"}
  /\ unconfirmed \in Cfgs \cup {NoCfg}
  /\ timer \in 0..MaxApplies
  /\ armed \subseteq 1..MaxApplies /\ due \subseteq 1..MaxApplies
  /\ op \in [kind : Kinds, step : Steps,
             cfg : Cfgs \cup {NoCfg}, prev : Cfgs \cup {NoCfg}]
  /\ job \in Cfgs \cup {NoCfg, Stored}
  /\ kNft \in Cfgs \cup {Failsafe}
  /\ kSvc \in Cfgs \cup {Mixed}
  /\ kIfc \in IfaceTable /\ osIfc \in IfaceTable
  /\ kRts \in RouteTable
  /\ applies \in 0..MaxApplies /\ boots \in 0..MaxBoots
  /\ rescue \in {"none", "loaded", "copied", "done"}
  /\ confirmed \in Cfgs /\ attempted \subseteq Cfgs
  /\ degraded \in BOOLEAN

(* The first start after an installation: NewStore has seeded running.json *)
(* from the addresses the machine had, candidate.json does not exist.      *)
Init ==
  /\ running = Seed /\ candidate = Seed
  /\ runningJson = Seed /\ candidateJson = NoCfg
  /\ history = <<>>
  /\ state = "Idle" /\ unconfirmed = NoCfg
  /\ timer = 0 /\ armed = {} /\ due = {}
  /\ op = Op("boot", "ifaces", Seed, NoCfg)
  /\ job = NoCfg
  /\ kNft = Failsafe /\ kSvc = Mixed
  /\ kIfc = IfcOf[Seed] /\ osIfc = IfcOf[Seed]
  /\ kRts = [d \in Dests |-> NoGateway]
  /\ applies = 0 /\ boots = 0 /\ rescue = "none"
  /\ confirmed = Seed /\ attempted = {} /\ degraded = FALSE

-----------------------------------------------------------------------------
(* The API handlers and jobs that do not take e.mu.                        *)

InTrial == state = "Unconfirmed" \/ ~MutexFree

(* PUT /config/candidate: UpdateCandidate and Store.SetCandidateConfig.    *)
UpdateCandidate(c) ==
  /\ op.kind # "boot"
  /\ StrictClient => ~InTrial
  /\ candidate' = c
  /\ SaveCandidateJson(c)
  /\ UNCHANGED <<running, runningJson, history>>
  /\ UNCHANGED <<engine, op, job, kernel, outside, ghosts>>

(* Deviation: the job saves the candidate as the running configuration.    *)
BackgroundSaveSwapped ==
  /\ Background
  /\ op.kind # "boot"
  /\ job = NoCfg
  /\ runningJson' = candidate /\ candidateJson' = candidate
  /\ job' \in {NoCfg, Stored}
  /\ UNCHANGED <<running, candidate, history>>
  /\ UNCHANGED <<engine, op, kernel, outside, ghosts>>

(* A hot list was refreshed, an address blocked, a rule silenced or the    *)
(* status of a list updated: the store saves the running configuration it  *)
(* has in memory, then the candidate; the first error ends the job.  Not   *)
(* every job goes on to reapply the ruleset.                               *)
BackgroundSave ==
  /\ Background
  /\ op.kind # "boot"
  /\ job = NoCfg
  /\ \/ /\ runningJson' = running /\ candidateJson' = candidate
        /\ job' \in {NoCfg, Stored}
     \/ /\ DiskMayFail
        /\ runningJson' \in {running, runningJson}
        /\ UNCHANGED <<candidateJson, job>>
  /\ UNCHANGED <<running, candidate, history>>
  /\ UNCHANGED <<engine, op, kernel, outside, ghosts>>

(* ReapplyNftablesOnly reads the running configuration ...                 *)
ReapplyRead ==
  /\ job = Stored
  /\ job' = running
  /\ UNCHANGED <<store, engine, op, kernel, outside, ghosts>>

(* ... and loads its ruleset, unless nft refuses it.                       *)
ReapplyNft ==
  /\ job \in Cfgs
  /\ kNft' \in {job} \cup (IF BackendMayFail THEN {kNft} ELSE {})
  /\ job' = NoCfg
  /\ UNCHANGED <<store, engine, op, kSvc, kIfc, kRts, osIfc, outside, ghosts>>

(* RestoreConfigFromHistory: takes e.mu, refuses while unconfirmed.        *)
RestoreFromHistory(i) ==
  /\ MutexFree
  /\ state # "Unconfirmed"
  /\ history[i] \in Valid
  /\ candidate' = history[i]
  /\ SaveCandidateJson(history[i])
  /\ UNCHANGED <<running, runningJson, history>>
  /\ UNCHANGED <<engine, op, job, kernel, outside, ghosts>>

-----------------------------------------------------------------------------
(* ApplyCandidate: e.mu is taken, the candidate read and validated.  (One  *)
(* that is not valid is refused and nothing changes.)                      *)
BeginApply ==
  /\ MutexFree
  /\ StrictClient => state = "Idle"
  /\ applies < MaxApplies
  /\ candidate \in Valid
  /\ applies' = applies + 1
  /\ op' = Op("apply", "ifaces", candidate, running)
  /\ UNCHANGED <<store, engine, job, kernel, boots, rescue, ghosts>>

(* The steps that ApplyCandidate, its restore, rollbackLocked and the boot *)
(* have in common.                                                         *)
InterfacesStep ==
  /\ op.step = "ifaces"
  /\ kIfc' = ApplyInterfaces(IfcOf[op.cfg], IfcPrev(op.prev), kIfc)
  /\ osIfc' = IfcOf[op.cfg]
  /\ Goto(IF op.kind \in {"apply", "boot"} THEN "routes" ELSE "nft")
  /\ UNCHANGED <<store, engine, job, kNft, kSvc, kRts, outside, ghosts>>

RoutesStep ==
  /\ op.step = "routes"
  /\ kRts' = ApplyStaticRoutes(RoutesOf[op.cfg], RoutesPrev(op.prev), kRts)
  /\ Goto("nft")
  /\ UNCHANGED <<store, engine, job, kNft, kSvc, kIfc, osIfc, outside, ghosts>>

(* applyBackends: the ruleset is one nft transaction ...                   *)
NftStep ==
  /\ op.step = "nft"
  /\ kNft' = op.cfg
  /\ Goto("svc")
  /\ UNCHANGED <<store, engine, job, kSvc, kIfc, kRts, osIfc, outside, ghosts>>

(* ... the services are many steps, the first fatal error ends them.       *)
ServicesStep ==
  /\ op.step = "svc"
  /\ kSvc' = op.cfg
  /\ degraded' = FALSE
  /\ Goto("finish")
  /\ UNCHANGED <<store, engine, job, kNft, kIfc, kRts, osIfc, outside, confirmed, attempted>>

(* Deviation: a failed apply returns its error and restores nothing (the   *)
(* code before 2026-08-20).                                                *)
AfterBackendErrorNoRestore ==
  IF op.kind = "rollback" THEN [op EXCEPT !.step = "finish"] ELSE Free

(* What the caller of applyBackends does with its error: ApplyCandidate    *)
(* puts the running configuration back, the restore gives up, rollback and *)
(* boot log it and go on.                                                  *)
AfterBackendError ==
  IF op.kind = "apply" THEN Op("restore", "ifaces", running, op.cfg)
  ELSE IF op.kind = "rollback" THEN [op EXCEPT !.step = "finish"]
  ELSE Free

BackendError ==
  /\ BackendMayFail
  /\ op.step \in {"nft", "svc"}
  /\ kSvc' = IF op.step = "svc" THEN Mixed ELSE kSvc
  /\ degraded' = (op.kind # "apply")
  /\ op' = AfterBackendError
  /\ UNCHANGED <<store, engine, job, kNft, kIfc, kRts, osIfc, outside, confirmed, attempted>>

(* Deviation: the apply writes running.json, before any confirm.           *)
FinishApplyCommits ==
  /\ op.kind = "apply" /\ op.step = "finish"
  /\ state' = "Unconfirmed"
  /\ unconfirmed' = op.cfg
  /\ timer' = applies
  /\ armed' = (armed \ {timer}) \cup {applies}
  /\ op' = Free
  /\ runningJson' = op.cfg
  /\ UNCHANGED <<running, candidate, candidateJson, history>>
  /\ UNCHANGED <<due, job, kernel, outside, ghosts>>

(* Deviation: the stop comes after the start, and stops the new timer.     *)
FinishApplyStopsLate ==
  /\ op.kind = "apply" /\ op.step = "finish"
  /\ state' = "Unconfirmed"
  /\ unconfirmed' = op.cfg
  /\ timer' = applies
  /\ UNCHANGED armed
  /\ op' = Free
  /\ UNCHANGED <<due, store, job, kernel, outside, ghosts>>

(* The apply succeeded: the old timer is stopped (a callback that already  *)
(* runs is not), a new one is started.                                     *)
FinishApply ==
  /\ op.kind = "apply" /\ op.step = "finish"
  /\ state' = "Unconfirmed"
  /\ unconfirmed' = op.cfg
  /\ timer' = applies
  /\ armed' = (armed \ {timer}) \cup {applies}
  /\ op' = Free
  /\ UNCHANGED <<due, store, job, kernel, outside, ghosts>>

(* The restore after a failed apply, or the boot, is over.                 *)
FinishQuietly ==
  /\ op.kind \in {"restore", "boot"} /\ op.step = "finish"
  /\ op' = Free
  /\ UNCHANGED <<store, engine, job, kernel, outside, ghosts>>

-----------------------------------------------------------------------------
(* Deviation: the history is pruned before the new entry is added.         *)
ArchivedUnpruned == <<running>> \o history

(* archiveConfigLocked and pruneHistoryLocked.                             *)
Archived == SubSeq(<<running>> \o history, 1,
                   IF Len(history) < HistoryKeep THEN Len(history) + 1
                                                 ELSE HistoryKeep)

(* Deviation: the timer is forgotten, not stopped.                         *)
ConfirmLeavesTimer ==
  /\ MutexFree
  /\ state = "Unconfirmed"
  /\ timer' = 0
  /\ history' = Archived
  /\ running' = candidate
  /\ runningJson' = candidate
  /\ state' = "Idle"
  /\ unconfirmed' = NoCfg
  /\ confirmed' = candidate /\ attempted' = {}
  /\ UNCHANGED <<armed, candidate, candidateJson, due, op, job, kernel, outside, degraded>>

(* ConfirmConfig: the timer is stopped and Store.CommitCandidate makes the *)
(* store's candidate the running configuration.                            *)
Confirm ==
  /\ MutexFree
  /\ state = "Unconfirmed"
  /\ armed' = armed \ {timer}
  /\ timer' = 0
  /\ history' \in {Archived} \cup (IF DiskMayFail THEN {history} ELSE {})
  /\ running' = candidate
  /\ runningJson' = candidate
  /\ state' = "Idle"
  /\ unconfirmed' = NoCfg
  /\ confirmed' = candidate /\ attempted' = {}
  /\ UNCHANGED <<candidate, candidateJson, due, op, job, kernel, outside, degraded>>

(* The same when running.json cannot be written: memory has already        *)
(* changed, the error is returned before the state does.                   *)
ConfirmSaveFails ==
  /\ DiskMayFail
  /\ MutexFree
  /\ state = "Unconfirmed"
  /\ armed' = armed \ {timer}
  /\ timer' = 0
  /\ history' \in {Archived, history}
  /\ running' = candidate
  /\ attempted' = attempted \cup {candidate}
  /\ UNCHANGED <<candidate, runningJson, candidateJson, state, unconfirmed, due,
                 op, job, kernel, outside, confirmed, degraded>>

-----------------------------------------------------------------------------
(* Deviation: a rollback restores the backends and leaves the interfaces   *)
(* (the code before 2026-08-24).                                           *)
StartRollbackBackendsOnly ==
  /\ armed' = armed \ {timer}
  /\ timer' = 0
  /\ op' = Op("rollback", "nft", running, unconfirmed)
  /\ UNCHANGED <<state, unconfirmed>>

(* rollbackLocked, from its first line.                                    *)
StartRollback ==
  /\ armed' = armed \ {timer}
  /\ timer' = 0
  /\ op' = Op("rollback", "ifaces", running, unconfirmed)
  /\ UNCHANGED <<state, unconfirmed>>

(* RollbackConfig: the administrator asks, in whatever state.              *)
RollbackRequest ==
  /\ MutexFree
  /\ StartRollback
  /\ UNCHANGED <<due, store, job, kernel, outside, ghosts>>

(* time.AfterFunc: the timeout is over, the callback starts and waits for  *)
(* e.mu.                                                                   *)
TimerFires(t) ==
  /\ t \in armed
  /\ armed' = armed \ {t}
  /\ due' = due \cup {t}
  /\ UNCHANGED <<state, unconfirmed, timer, store, op, job, kernel, outside, ghosts>>

(* The callback has e.mu: it looks at the state, not at whose timer it is. *)
TimerRollback(t) ==
  /\ MutexFree
  /\ t \in due
  /\ state = "Unconfirmed"
  /\ due' = due \ {t}
  /\ StartRollback
  /\ UNCHANGED <<store, job, kernel, outside, ghosts>>

TimerTooLate(t) ==
  /\ MutexFree
  /\ t \in due
  /\ state # "Unconfirmed"
  /\ due' = due \ {t}
  /\ UNCHANGED <<state, unconfirmed, timer, armed, op, store, job, kernel, outside, ghosts>>

(* The end of rollbackLocked: the candidate becomes the running one.       *)
FinishRollback ==
  /\ op.kind = "rollback" /\ op.step = "finish"
  /\ state' = "Idle"
  /\ unconfirmed' = NoCfg
  /\ candidate' = running
  /\ SaveCandidateJson(running)
  /\ op' = Free
  /\ UNCHANGED <<running, runningJson, history, timer, armed, due, job, kernel,
                 outside, ghosts>>

-----------------------------------------------------------------------------
(* A new process: NewStore reads both files, NewEngine starts idle, and    *)
(* ApplyRunningConfigAtBoot begins, or leaves the kernel alone because no  *)
(* configured device exists.                                               *)
NewProcess ==
  /\ boots < MaxBoots
  /\ boots' = boots + 1
  /\ running' = runningJson
  /\ attempted' = attempted \cap {runningJson}
  /\ candidate' = IF candidateJson = NoCfg THEN runningJson ELSE candidateJson
  /\ state' = "Idle" /\ unconfirmed' = NoCfg
  /\ timer' = 0 /\ armed' = {} /\ due' = {}
  /\ job' = NoCfg
  /\ \/ /\ op' = Op("boot", "ifaces", runningJson, NoCfg)
        /\ UNCHANGED degraded
     \/ /\ DevicesMayBeGone
        /\ op' = Free
        /\ degraded' = TRUE
  /\ UNCHANGED <<runningJson, candidateJson, history, applies, confirmed>>

(* The agent dies and is started again; the kernel stays as it was.  If it *)
(* died among the services, some have the new configuration.               *)
AgentEnds ==
  /\ NewProcess
  /\ kSvc' \in {kSvc} \cup (IF op.step = "svc" THEN {Mixed} ELSE {})
  /\ UNCHANGED <<kNft, kIfc, kRts, osIfc>>

AgentRestart == AgentEnds /\ UNCHANGED rescue

(* The machine restarts: the failsafe ruleset, the interfaces as the OS    *)
(* configuration has them, no static route.                                *)
MachineReboot ==
  /\ NewProcess
  /\ kNft' = Failsafe
  /\ kSvc' \in {kSvc} \cup (IF op.step = "svc" THEN {Mixed} ELSE {})
  /\ kIfc' = osIfc
  /\ kRts' = [d \in Dests |-> NoGateway]
  /\ rescue' = "none"
  /\ UNCHANGED osIfc

-----------------------------------------------------------------------------
(* security-harbor-emergency-restore, which an administrator who is locked *)
(* out runs as root beside the agent.  It goes on after every error.       *)

(* It loads the failsafe ruleset; as its last step restarts the agent, it  *)
(* is run only while there is a restart left ...                           *)
RescueNft ==
  /\ RescueTool
  /\ rescue = "none" /\ boots < MaxBoots
  /\ rescue' = "loaded"
  /\ kNft' \in {Failsafe} \cup (IF BackendMayFail THEN {kNft} ELSE {})
  /\ UNCHANGED <<store, engine, op, job, kSvc, kIfc, kRts, osIfc, applies, boots, ghosts>>

(* ... copies running.json over candidate.json; one that could be written  *)
(* in part only is not read, as if there were none ...                     *)
RescueCopy ==
  /\ rescue = "loaded"
  /\ rescue' = "copied"
  /\ candidateJson' \in {runningJson} \cup (IF DiskMayFail THEN {candidateJson, NoCfg} ELSE {})
  /\ UNCHANGED <<running, candidate, runningJson, history>>
  /\ UNCHANGED <<engine, op, job, kernel, applies, boots, ghosts>>

(* ... and has the agent restarted.                                        *)
RescueRestart ==
  /\ rescue = "copied"
  /\ rescue' = "done"
  /\ AgentEnds

RescueUnderWay == rescue \in {"loaded", "copied"}

-----------------------------------------------------------------------------
(* The steps of the holder of e.mu once it has it.                         *)
HolderStep ==
  \/ InterfacesStep \/ RoutesStep \/ NftStep \/ ServicesStep \/ BackendError
  \/ FinishApply \/ FinishQuietly \/ FinishRollback

TimerStep ==
  \E t \in 1..MaxApplies : TimerFires(t) \/ TimerRollback(t) \/ TimerTooLate(t)

ClientStep ==
  \/ \E c \in Cfgs : UpdateCandidate(c)
  \/ \E i \in 1..Len(history) : RestoreFromHistory(i)
  \/ BeginApply \/ Confirm \/ ConfirmSaveFails \/ RollbackRequest

Next ==
  \/ ClientStep \/ HolderStep \/ TimerStep
  \/ BackgroundSave \/ ReapplyRead \/ ReapplyNft
  \/ AgentRestart \/ MachineReboot
  \/ RescueNft \/ RescueCopy \/ RescueRestart

Spec == Init /\ [][Next]_vars

(* Go runs a goroutine that is ready and fires a timer that is due; no     *)
(* backend call lasts for ever (every command has a context deadline).     *)
(* Nothing is assumed of the administrator.                                *)
Fairness ==
  /\ WF_vars(HolderStep)
  /\ \A t \in 1..MaxApplies :
       /\ WF_vars(TimerFires(t))
       /\ SF_vars(TimerRollback(t) \/ TimerTooLate(t))

FairSpec == Spec /\ Fairness
-----------------------------------------------------------------------------
(* Properties.                                                             *)

(* The configuration that ought to be in force.                            *)
InForce == IF state = "Unconfirmed" THEN unconfirmed ELSE running

(* No operation under way, and the last way back to a known state did not  *)
(* itself fail (the code only logs that).                                  *)
Settled == MutexFree /\ ~degraded

(* When nothing is under way, the ruleset and the services of the machine  *)
(* are those of the configuration on trial, or of the running one if there *)
(* is no trial - after an apply, a confirm, a rollback, a failed apply     *)
(* that was restored, a boot (ApplyCandidate, rollbackLocked,              *)
(* ApplyRunningConfigAtBoot) - and once the rescue tool, which loads the   *)
(* failsafe ruleset beside all of these, has had the agent restarted.      *)
BackendsFollowState == Settled /\ ~RescueUnderWay => kNft = InForce /\ kSvc = InForce

(* The same for the interfaces the configuration names: after any sequence *)
(* of applies, rollbacks and restarts each has the configured setting      *)
(* (applyInterfaces touches only what it believes to have changed).        *)
InterfacesFollowState ==
  Settled => \A i \in Ifaces :
    IfcOf[InForce][i] # Absent => MatchesSystemState(kIfc[i], IfcOf[InForce][i])

(* The whole machine does.                                                 *)
MachineFollowsState == BackendsFollowState /\ InterfacesFollowState

(* While a configuration is on trial the interfaces are those it names,    *)
(* also when it was applied over another one still on trial (an interface  *)
(* that has drifted from its configuration is touched: applyInterfaces).   *)
TrialInterfaces ==
  Settled /\ state = "Unconfirmed" => \A i \in Ifaces :
    IfcOf[unconfirmed][i] # Absent =>
      MatchesSystemState(kIfc[i], IfcOf[unconfirmed][i])

(* An apply sets all enabled routes of its configuration, and they stay    *)
(* (applyStaticRoutes).  A route that has another ID now is set before the *)
(* old one is deleted, by its destination and gateway.                     *)
TrialRoutes ==
  Settled /\ state = "Unconfirmed" =>
    \A r \in Enabled(RoutesOf[unconfirmed]) : kRts[r.net] = r.gw

(* No ruleset reaches the kernel that ValidateCandidate has not accepted.  *)
OnlyValidatedInKernel == kNft \in Valid \cup {Failsafe}

(* At most one timer can still fire, it is the engine's, and when no       *)
(* configuration is unconfirmed none can (Confirm, rollback and a second   *)
(* Apply all stop the one before).                                         *)
OneLiveTimer ==
  /\ armed \subseteq {timer}
  /\ state = "Idle" => armed = {}

(* A step that restarts the agent.                                         *)
Restarts == boots' # boots

(* Whatever was on trial, half applied or half rolled back: a restarted    *)
(* agent runs the last configuration that an administrator confirmed with  *)
(* success - or, if a confirm has failed since then, the one that confirm  *)
(* left in memory, which a background job may have saved.                  *)
RestartRecoversConfirmed ==
  [][Restarts => running' \in {confirmed} \cup attempted]_vars

(* Only a confirm changes the running configuration, and what becomes the  *)
(* running configuration is what is on trial in the kernel.                *)
CommitsWhatWasTried ==
  [][running' # running /\ ~Restarts =>
       state = "Unconfirmed" /\ MutexFree /\ running' = unconfirmed]_vars

(* A timer rolls back the apply that started it and no later one (the      *)
(* callback says that no confirm arrived within ITS timeout).              *)
TimerHitsOwnTrial ==
  [][\A t \in due : t \notin due' /\ ~Restarts /\ op'.kind = "rollback" =>
       t = timer]_vars

(* A rollback ends in the configuration that was last confirmed            *)
(* (its audit line: restored to the last known safe running config).       *)
RollbackRestoresConfirmed ==
  [][op.kind = "rollback" /\ MutexFree' /\ ~Restarts /\ ~degraded =>
       kNft = confirmed]_vars

(* After a rollback the static routes are those of the running             *)
(* configuration.                                                          *)
RollbackRestoresRoutes ==
  [][op.kind = "rollback" /\ MutexFree' /\ ~Restarts =>
       kRts = TableOf(RoutesOf[running])]_vars

(* A boot leaves exactly the interfaces of the running configuration.      *)
BootLeavesOnlyConfirmed ==
  [][op.kind = "boot" /\ op.step = "finish" /\ ~Restarts =>
       kIfc = IfcOf[running]]_vars

(* The rescue tool says that it leaves the machine in the safe basic state *)
(* (security-harbor-emergency-restore main.go:43): the start of the agent  *)
(* with which it ends keeps the failsafe ruleset.                          *)
RescueHolds ==
  [][rescue = "done" /\ op.kind = "boot" /\ kNft = Failsafe => kNft' = Failsafe]_vars

(* A trial nobody guards any more: its timer was stopped by a confirm that *)
(* then could not write running.json.                                      *)
ConfirmFailed ==
  state = "Unconfirmed" /\ timer = 0 /\ op.kind # "rollback"

(* A trial ends: confirmed, rolled back by hand, or by the timer -         *)
(* whatever the administrator does, unless a confirm fails half way.       *)
TrialEnds == (state = "Unconfirmed") ~> (state = "Idle" \/ ConfirmFailed)

(* What a restart would come back with, and what is on trial.              *)
Lifecycle == INSTANCE ConfigLifecycle
  WITH committed <- runningJson,
       trial <- IF state = "Unconfirmed" THEN unconfirmed ELSE NoCfg

(* Safe Apply keeps the promise of ConfigLifecycle.                        *)
KeepsLifecycle == Lifecycle!Spec
=============================================================================
