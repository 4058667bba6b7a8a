--------------------------- MODULE SafeApply_proofs ---------------------------
(***************************************************************************)
(* Theorems about SafeApply, for all values of its constants: first for    *)
(* any administrator and any failures, then, from TrialInv on, for one who *)
(* neither edits the candidate nor applies again while a configuration is  *)
(* unconfirmed (StrictClient).  The run SafeApply_v_edit shows that the    *)
(* latter do not hold without that discipline, which the engine does not   *)
(* impose.                                                                 *)
(***************************************************************************)
EXTENDS SafeApply, SequenceTheorems, TLAPS

(* What applyInterfaces makes of a table of interfaces is such a table.    *)
LEMMA ApplyInterfacesType ==
  ASSUME NEW new \in IfaceTable, NEW prev, NEW kern \in IfaceTable
  PROVE  ApplyInterfaces(new, prev, kern) \in IfaceTable
BY DEF ApplyInterfaces, IfaceTable

(* `ip route replace` of the enabled routes leaves a routing table.        *)
LEMMA ReplaceRoutesType ==
  ASSUME NEW new \in SUBSET StaticRoute, NEW kern \in RouteTable
  PROVE  ReplaceRoutes(new, kern) \in RouteTable
<1>1. ASSUME NEW d \in Dests, \E r \in Enabled(new) : r.net = d
      PROVE  (CHOOSE r \in Enabled(new) : r.net = d).gw \in Gateways
  BY <1>1 DEF Enabled, StaticRoute
<1> QED BY <1>1 DEF ReplaceRoutes, RouteTable

(* What applyStaticRoutes makes of a routing table is a routing table.     *)
LEMMA ApplyStaticRoutesType ==
  ASSUME NEW new \in SUBSET StaticRoute, NEW prev, NEW kern \in RouteTable
  PROVE  ApplyStaticRoutes(new, prev, kern) \in RouteTable
BY ReplaceRoutesType DEF ApplyStaticRoutes, DeleteRoutes, RouteTable

(* The archive after archiveConfigLocked and pruneHistoryLocked never      *)
(* exceeds historyKeep.                                                    *)
LEMMA ArchivedType ==
  ASSUME running \in Cfgs, history \in Seq(Cfgs), Len(history) <= HistoryKeep
  PROVE  Archived \in Seq(Cfgs) /\ Len(Archived) <= HistoryKeep
<1> DEFINE all == <<running>> \o history
           n == IF Len(history) < HistoryKeep THEN Len(history) + 1
                                              ELSE HistoryKeep
<1>1. all \in Seq(Cfgs) /\ Len(all) = Len(history) + 1
  <2>1. <<running>> \in Seq(Cfgs) /\ Len(<<running>>) = 1
    OBVIOUS
  <2> QED BY <2>1, ConcatProperties
<1>2. HistoryKeep \in Nat \ {0} /\ Len(history) \in Nat
  BY SafeApplyConstants, LenProperties
<1>3. n \in 1..(Len(history) + 1) /\ n <= HistoryKeep
  BY <1>2
<1> HIDE DEF all, n
<1>4. SubSeq(all, 1, n) \in Seq(Cfgs) /\ Len(SubSeq(all, 1, n)) <= HistoryKeep
  BY <1>1, <1>2, <1>3, SubSeqProperties
<1> QED BY <1>4 DEF Archived, all, n

-----------------------------------------------------------------------------
(* TypeOK is not inductive: an operation under way must have a             *)
(* configuration to work with, and an apply under way has been counted.    *)
OpUnderWay ==
  /\ op # Free => op.cfg \in Cfgs /\ op.kind # "none" /\ op.step # "none"
  /\ op.kind = "apply" => applies \in 1..MaxApplies

TypeInv == TypeOK /\ OpUnderWay

LEMMA TypeInit == Init => TypeInv
<1> SUFFICES ASSUME Init PROVE TypeInv
  OBVIOUS
<1>1. history \in Seq(Cfgs) /\ Len(history) <= HistoryKeep
  BY SafeApplyConstants DEF Init
<1>2. op \in [kind : Kinds, step : Steps,
              cfg : Cfgs \cup {NoCfg}, prev : Cfgs \cup {NoCfg}]
  BY SafeApplyConstants DEF Init, Op, Kinds, Steps
<1>3. kIfc \in IfaceTable /\ osIfc \in IfaceTable /\ kRts \in RouteTable
  BY SafeApplyConstants DEF Init, RouteTable
<1>4. OpUnderWay
  BY SafeApplyConstants DEF Init, OpUnderWay, Op, Free
<1>5. armed \subseteq 1..MaxApplies /\ due \subseteq 1..MaxApplies
  BY DEF Init
<1>6. /\ timer \in 0..MaxApplies /\ applies \in 0..MaxApplies
      /\ boots \in 0..MaxBoots /\ rescue \in {"none", "loaded", "copied", "done"}
  BY SafeApplyConstants DEF Init
<1>8. degraded \in BOOLEAN
  BY DEF Init
<1>7. /\ running \in Cfgs /\ candidate \in Cfgs
      /\ runningJson \in Cfgs /\ candidateJson \in Cfgs \cup {NoCfg}
      /\ state \in {"Idle", "Unconfirmed"}
      /\ unconfirmed \in Cfgs \cup {NoCfg} /\ job \in Cfgs \cup {NoCfg, Stored}
      /\ kNft \in Cfgs \cup {Failsafe} /\ kSvc \in Cfgs \cup {Mixed}
      /\ confirmed \in Cfgs /\ attempted \subseteq Cfgs
  BY SafeApplyConstants DEF Init
<1> QED BY <1>1, <1>2, <1>3, <1>4, <1>5, <1>6, <1>7, <1>8 DEF TypeInv, TypeOK

(* The steps of the operation that holds the mutex.                        *)
LEMMA TypeHolder == TypeInv /\ HolderStep => TypeInv'
<1> SUFFICES ASSUME TypeInv, HolderStep PROVE TypeInv'
  OBVIOUS
<1> USE SafeApplyConstants DEF TypeInv, OpUnderWay, Kinds, Steps, Op, Free,
        store, engine, kernel, outside, ghosts
<1>1. CASE InterfacesStep
  <2>1. IfcOf[op.cfg] \in IfaceTable
    BY <1>1 DEF InterfacesStep, TypeOK
  <2>2. kIfc' \in IfaceTable /\ osIfc' \in IfaceTable
    BY <1>1, <2>1, ApplyInterfacesType DEF InterfacesStep, TypeOK
  <2> QED BY <1>1, <2>2 DEF InterfacesStep, TypeOK, Goto
<1>2. CASE RoutesStep
  <2>1. RoutesOf[op.cfg] \in SUBSET StaticRoute
    BY <1>2 DEF RoutesStep, TypeOK
  <2>2. kRts' \in RouteTable
    BY <1>2, <2>1, ApplyStaticRoutesType DEF RoutesStep, TypeOK
  <2> QED BY <1>2, <2>2 DEF RoutesStep, TypeOK, Goto
<1>3. CASE NftStep
  BY <1>3 DEF NftStep, TypeOK, Goto
<1>4. CASE ServicesStep
  <2>1. degraded' \in BOOLEAN
    BY <1>4 DEF ServicesStep
  <2>2. kSvc' \in Cfgs \cup {Mixed}
    BY <1>4 DEF ServicesStep, TypeOK
  <2>3. op' \in [kind : Kinds, step : Steps,
              cfg : Cfgs \cup {NoCfg}, prev : Cfgs \cup {NoCfg}]
    BY <1>4 DEF ServicesStep, TypeOK, Goto
  <2>4. OpUnderWay'
    BY <1>4 DEF ServicesStep, TypeOK, Goto
  <2> QED BY <1>4, <2>1, <2>2, <2>3, <2>4 DEF ServicesStep, TypeOK
<1>5. CASE BackendError
  BY <1>5 DEF BackendError, AfterBackendError, TypeOK
<1>6. CASE FinishApply
  BY <1>6 DEF FinishApply, TypeOK
<1>7. CASE FinishQuietly
  BY <1>7 DEF FinishQuietly, TypeOK
<1>8. CASE FinishRollback
  BY <1>8 DEF FinishRollback, SaveCandidateJson, TypeOK
<1> QED BY <1>1, <1>2, <1>3, <1>4, <1>5, <1>6, <1>7, <1>8 DEF HolderStep

(* What clients, timers, background jobs and the rescue tool do.           *)
LEMMA TypeOthers ==
  TypeInv /\ (ClientStep \/ TimerStep \/ BackgroundSave \/ ReapplyRead
               \/ ReapplyNft \/ RescueNft \/ RescueCopy) => TypeInv'
<1> SUFFICES ASSUME TypeInv,
                    ClientStep \/ TimerStep \/ BackgroundSave \/ ReapplyRead
                      \/ ReapplyNft \/ RescueNft \/ RescueCopy
             PROVE  TypeInv'
  OBVIOUS
<1> USE SafeApplyConstants DEF TypeInv, OpUnderWay, Kinds, Steps, Op, Free,
        store, engine, kernel, outside, ghosts, MutexFree
<1>1. ASSUME NEW c \in Cfgs, UpdateCandidate(c) PROVE TypeInv'
  BY <1>1 DEF UpdateCandidate, SaveCandidateJson, TypeOK
<1>2. ASSUME NEW i \in 1..Len(history), RestoreFromHistory(i) PROVE TypeInv'
  BY <1>2 DEF RestoreFromHistory, SaveCandidateJson, TypeOK
<1>3. CASE BeginApply
  BY <1>3 DEF BeginApply, TypeOK
<1>4. Archived \in Seq(Cfgs) /\ Len(Archived) <= HistoryKeep
  BY ArchivedType DEF TypeOK
<1>5. CASE Confirm
  <2>1. history' \in Seq(Cfgs) /\ Len(history') <= HistoryKeep
    BY <1>4, <1>5 DEF Confirm, TypeOK
  <2> QED BY <1>5, <2>1 DEF Confirm, TypeOK
<1>6. CASE ConfirmSaveFails
  <2>1. history' \in Seq(Cfgs) /\ Len(history') <= HistoryKeep
    BY <1>4, <1>6 DEF ConfirmSaveFails, TypeOK
  <2> QED BY <1>6, <2>1 DEF ConfirmSaveFails, TypeOK
<1>7. CASE RollbackRequest
  BY <1>7 DEF RollbackRequest, StartRollback, TypeOK
<1>8. ASSUME NEW t \in 1..MaxApplies,
             TimerFires(t) \/ TimerRollback(t) \/ TimerTooLate(t)
      PROVE  TypeInv'
  <2>1. CASE TimerFires(t)
    BY <1>8, <2>1 DEF TimerFires, TypeOK
  <2>2. CASE TimerRollback(t)
    BY <1>8, <2>2 DEF TimerRollback, StartRollback, TypeOK
  <2>3. CASE TimerTooLate(t)
    BY <1>8, <2>3 DEF TimerTooLate, TypeOK
  <2> QED BY <1>8, <2>1, <2>2, <2>3
<1>9. CASE ReapplyRead
  BY <1>9 DEF ReapplyRead, TypeOK
<1>13. CASE BackgroundSave
  BY <1>13 DEF BackgroundSave, TypeOK
<1>10. CASE ReapplyNft
  BY <1>10 DEF ReapplyNft, TypeOK
<1>11. CASE RescueNft
  BY <1>11 DEF RescueNft, TypeOK
<1>12. CASE RescueCopy
  BY <1>12 DEF RescueCopy, TypeOK
<1> QED BY <1>1, <1>2, <1>3, <1>5, <1>6, <1>7, <1>8, <1>9, <1>10, <1>11, <1>12,
           <1>13 DEF ClientStep, TimerStep

(* A process that starts again, with or without the machine.               *)
LEMMA TypeRestart ==
  TypeInv /\ (AgentRestart \/ MachineReboot \/ RescueRestart) => TypeInv'
<1> SUFFICES ASSUME TypeInv, AgentRestart \/ MachineReboot \/ RescueRestart
             PROVE  TypeInv'
  OBVIOUS
<1> USE SafeApplyConstants DEF TypeInv, OpUnderWay, Kinds, Steps, Op, Free,
        store, engine, kernel, outside, ghosts
<1>2. NewProcess
  BY DEF AgentRestart, MachineReboot, RescueRestart, AgentEnds
<1> USE <1>2
<1>3. /\ op' \in [kind : Kinds, step : Steps,
                 cfg : Cfgs \cup {NoCfg}, prev : Cfgs \cup {NoCfg}]
      /\ OpUnderWay'
  BY DEF NewProcess, TypeOK
<1>6. degraded' \in BOOLEAN
  BY DEF NewProcess, TypeOK
<1>4. /\ running' \in Cfgs /\ candidate' \in Cfgs
      /\ armed' \subseteq 1..MaxApplies /\ due' \subseteq 1..MaxApplies
      /\ timer' \in 0..MaxApplies
      /\ boots' \in 0..MaxBoots
  BY DEF NewProcess, TypeOK
<1>5. /\ runningJson' \in Cfgs /\ candidateJson' \in Cfgs \cup {NoCfg}
      /\ history' \in Seq(Cfgs) /\ Len(history') <= HistoryKeep
      /\ state' \in {"Idle", "Unconfirmed"}
      /\ unconfirmed' \in Cfgs \cup {NoCfg}
      /\ job' \in Cfgs \cup {NoCfg, Stored}
      /\ applies' \in 0..MaxApplies
      /\ confirmed' \in Cfgs /\ attempted' \subseteq Cfgs
  BY DEF NewProcess, TypeOK
<1>1. CASE AgentRestart \/ RescueRestart
  <2>1. /\ kNft' \in Cfgs \cup {Failsafe} /\ kSvc' \in Cfgs \cup {Mixed}
        /\ kRts' \in RouteTable /\ kIfc' \in IfaceTable /\ osIfc' \in IfaceTable
    BY <1>1 DEF AgentRestart, RescueRestart, AgentEnds, TypeOK
  <2>2. rescue' \in {"none", "loaded", "copied", "done"}
    BY <1>1 DEF AgentRestart, RescueRestart, TypeOK
  <2> QED BY <1>3, <1>4, <1>5, <1>6, <2>1, <2>2 DEF TypeOK
<1>7. CASE MachineReboot
  <2>1. kNft' \in Cfgs \cup {Failsafe} /\ kSvc' \in Cfgs \cup {Mixed}
    BY <1>7 DEF MachineReboot, TypeOK
  <2>2. kRts' \in RouteTable /\ kIfc' \in IfaceTable /\ osIfc' \in IfaceTable
    BY <1>7 DEF MachineReboot, RouteTable, TypeOK
  <2>3. rescue' \in {"none", "loaded", "copied", "done"}
    BY <1>7 DEF MachineReboot
  <2> QED BY <1>3, <1>4, <1>5, <1>6, <2>1, <2>2, <2>3 DEF TypeOK
<1> QED BY <1>1, <1>7

LEMMA TypeStep == TypeInv /\ [Next]_vars => TypeInv'
<1>1. TypeInv /\ UNCHANGED vars => TypeInv'
  BY DEF vars, store, engine, kernel, outside, ghosts, TypeInv, TypeOK, OpUnderWay
<1> QED BY <1>1, TypeHolder, TypeOthers, TypeRestart DEF Next

LEMMA TypeInvariant == Spec => []TypeInv
BY TypeInit, TypeStep, PTL DEF Spec

(* Every variable keeps its type; in particular the history never exceeds  *)
(* historyKeep and every operation that holds the engine's mutex works     *)
(* with configurations, never with none.                                   *)
THEOREM TypeCorrect == Spec => []TypeOK
<1>1. TypeInv => TypeOK
  BY DEF TypeInv
<1> QED BY <1>1, TypeInvariant, PTL

-----------------------------------------------------------------------------
(* OneLiveTimer needs one more fact: a rollback stops the timer first, so  *)
(* that none can fire while it works.                                      *)
TimerInv ==
  /\ OneLiveTimer
  /\ op.kind = "rollback" => armed = {}

LEMMA TimerInit == Init => TimerInv
BY DEF Init, TimerInv, OneLiveTimer, Op

LEMMA TimerHolder == TypeInv /\ TimerInv /\ HolderStep => TimerInv'
<1> SUFFICES ASSUME TypeInv, TimerInv, HolderStep PROVE TimerInv'
  OBVIOUS
<1> USE DEF TimerInv, OneLiveTimer, engine, Op, Free, Goto
<1>0. op \in [kind : Kinds, step : Steps,
              cfg : Cfgs \cup {NoCfg}, prev : Cfgs \cup {NoCfg}]
      /\ state \in {"Idle", "Unconfirmed"}
  BY DEF TypeInv, TypeOK
<1>1. CASE InterfacesStep \/ RoutesStep \/ NftStep \/ ServicesStep
  BY <1>0, <1>1 DEF InterfacesStep, RoutesStep, NftStep, ServicesStep
<1>2. CASE BackendError
  BY <1>0, <1>2 DEF BackendError, AfterBackendError
<1>3. CASE FinishApply
  BY <1>3 DEF FinishApply
<1>4. CASE FinishQuietly
  BY <1>4 DEF FinishQuietly
<1>5. CASE FinishRollback
  BY <1>5 DEF FinishRollback
<1> QED BY <1>1, <1>2, <1>3, <1>4, <1>5 DEF HolderStep

LEMMA TimerOthers ==
  TimerInv /\ (ClientStep \/ TimerStep
               \/ BackgroundSave \/ ReapplyRead \/ ReapplyNft
               \/ AgentRestart \/ MachineReboot
               \/ RescueNft \/ RescueCopy \/ RescueRestart) => TimerInv'
<1> SUFFICES ASSUME TimerInv,
                    ClientStep \/ TimerStep
                      \/ BackgroundSave \/ ReapplyRead \/ ReapplyNft
                      \/ AgentRestart \/ MachineReboot
                      \/ RescueNft \/ RescueCopy \/ RescueRestart
             PROVE  TimerInv'
  OBVIOUS
<1> USE DEF TimerInv, OneLiveTimer, engine, Op, Free, MutexFree
<1>1. ASSUME NEW c \in Cfgs, UpdateCandidate(c) PROVE TimerInv'
  BY <1>1 DEF UpdateCandidate
<1>2. ASSUME NEW i \in 1..Len(history), RestoreFromHistory(i) PROVE TimerInv'
  BY <1>2 DEF RestoreFromHistory
<1>3. CASE BeginApply
  BY <1>3 DEF BeginApply
<1>4. CASE Confirm \/ ConfirmSaveFails
  BY <1>4 DEF Confirm, ConfirmSaveFails
<1>5. CASE RollbackRequest
  BY <1>5 DEF RollbackRequest, StartRollback
<1>6. ASSUME NEW t \in 1..MaxApplies,
             TimerFires(t) \/ TimerRollback(t) \/ TimerTooLate(t)
      PROVE  TimerInv'
  BY <1>6 DEF TimerFires, TimerRollback, TimerTooLate, StartRollback
<1>7. CASE BackgroundSave \/ ReapplyRead \/ ReapplyNft
  BY <1>7 DEF BackgroundSave, ReapplyRead, ReapplyNft
<1>8. CASE AgentRestart \/ MachineReboot \/ RescueRestart
  BY <1>8 DEF AgentRestart, MachineReboot, RescueRestart, AgentEnds, NewProcess
<1>9. CASE RescueNft \/ RescueCopy
  BY <1>9 DEF RescueNft, RescueCopy
<1> QED BY <1>1, <1>2, <1>3, <1>4, <1>5, <1>6, <1>7, <1>8, <1>9
        DEF ClientStep, TimerStep

LEMMA TimerStepInv == TypeInv /\ TimerInv /\ [Next]_vars => TimerInv'
<1>1. TimerInv /\ UNCHANGED vars => TimerInv'
  BY DEF vars, engine, TimerInv, OneLiveTimer
<1> QED BY <1>1, TimerHolder, TimerOthers DEF Next

LEMMA TimerInvariant == Spec => [](TypeInv /\ TimerInv)
BY TypeInvariant, TimerInit, TimerStepInv, PTL DEF Spec

(* Whatever the order of applies, confirms, rollbacks and restarts: there  *)
(* is never a second timer that could roll something back, and none at all *)
(* once the engine is idle.                                                *)
THEOREM AtMostOneLiveTimer == Spec => []OneLiveTimer
<1>1. TimerInv => OneLiveTimer
  BY DEF TimerInv
<1> QED BY <1>1, TimerInvariant, PTL

-----------------------------------------------------------------------------
(* What memory and running.json hold is what was last confirmed with       *)
(* success, or what a confirm since then tried to keep.                    *)
KeptOrAttempted == {confirmed} \cup attempted

CommittedInv == running \in KeptOrAttempted /\ runningJson \in KeptOrAttempted

LEMMA CommittedInvariant == Spec => []CommittedInv
<1>1. Init => CommittedInv
  BY DEF Init, CommittedInv, KeptOrAttempted
<1>2. CommittedInv /\ [Next]_vars => CommittedInv'
  <2> SUFFICES ASSUME CommittedInv, [Next]_vars PROVE CommittedInv'
    OBVIOUS
  <2> USE DEF CommittedInv, KeptOrAttempted, store, ghosts
  <2>1. CASE HolderStep
    BY <2>1 DEF HolderStep, InterfacesStep, RoutesStep, NftStep, ServicesStep,
           BackendError, FinishApply, FinishQuietly, FinishRollback
  <2>2. CASE BackgroundSave \/ ReapplyRead \/ ReapplyNft
    BY <2>2 DEF BackgroundSave, ReapplyRead, ReapplyNft
  <2>3. CASE Confirm \/ ConfirmSaveFails
    BY <2>3 DEF Confirm, ConfirmSaveFails
  <2>4. CASE ClientStep /\ ~Confirm /\ ~ConfirmSaveFails
    BY <2>4 DEF ClientStep, UpdateCandidate, RestoreFromHistory, BeginApply,
           RollbackRequest
  <2>5. CASE TimerStep
    BY <2>5 DEF TimerStep, TimerFires, TimerRollback, TimerTooLate
  <2>6. CASE AgentRestart \/ MachineReboot \/ RescueRestart
    BY <2>6 DEF AgentRestart, MachineReboot, RescueRestart, AgentEnds, NewProcess
  <2>7. CASE UNCHANGED vars
    BY <2>7 DEF vars
  <2>8. CASE RescueNft \/ RescueCopy
    BY <2>8 DEF RescueNft, RescueCopy
  <2> QED BY <2>1, <2>2, <2>3, <2>4, <2>5, <2>6, <2>7, <2>8 DEF Next, ClientStep
<1> QED BY <1>1, <1>2, PTL DEF Spec

(* A restart at any point - during a trial, half way through an apply or a *)
(* rollback - comes back with the configuration of the last successful     *)
(* confirm, also while background jobs save what is in memory; only a      *)
(* confirm that failed can have put another one there.                     *)
THEOREM RestartIsSafe == Spec => RestartRecoversConfirmed
<1> DEFINE Safe == Restarts => running' \in {confirmed} \cup attempted
<1>1. CommittedInv /\ Next => Safe
  <2> SUFFICES ASSUME CommittedInv, Next, boots' # boots
               PROVE  running' \in {confirmed} \cup attempted
    BY DEF Restarts
  <2> USE DEF outside
  <2>1. ~HolderStep
    BY DEF HolderStep, InterfacesStep, RoutesStep, NftStep, ServicesStep,
           BackendError, FinishApply, FinishQuietly, FinishRollback
  <2>2. ~ClientStep /\ ~BackgroundSave /\ ~ReapplyRead /\ ~ReapplyNft
    BY DEF ClientStep, UpdateCandidate, RestoreFromHistory, BeginApply, Confirm,
           ConfirmSaveFails, RollbackRequest, BackgroundSave, ReapplyRead, ReapplyNft
  <2>3. ~TimerStep
    BY DEF TimerStep, TimerFires, TimerRollback, TimerTooLate
  <2>4. NewProcess
    BY <2>1, <2>2, <2>3 DEF Next, AgentRestart, MachineReboot, AgentEnds,
       RescueNft, RescueCopy, RescueRestart
  <2> QED BY <2>4 DEF NewProcess, CommittedInv, KeptOrAttempted
<1>2. CommittedInv /\ [Next]_vars => [Safe]_vars
  BY <1>1
<1>3. []CommittedInv /\ [][Next]_vars => [][Safe]_vars
  BY <1>2, PTL
<1> QED BY <1>3, CommittedInvariant, PTL DEF Spec, RestartRecoversConfirmed
-----------------------------------------------------------------------------
(* What is on trial is the store's candidate, and so is what an apply is   *)
(* putting in force.                                                       *)
TrialInv ==
  /\ state = "Unconfirmed" => unconfirmed = candidate
  /\ op.kind = "apply" => op.cfg = candidate /\ state = "Idle"

LEMMA TrialInit == Init => TrialInv
BY DEF Init, TrialInv, Op

LEMMA TrialStep ==
  ASSUME StrictClient
  PROVE  TypeInv /\ TrialInv /\ [Next]_vars => TrialInv'
<1> SUFFICES ASSUME TypeInv, TrialInv, [Next]_vars PROVE TrialInv'
  OBVIOUS
<1> USE DEF TrialInv, engine, store, Op, Free, MutexFree, Goto
<1>0. op \in [kind : Kinds, step : Steps,
              cfg : Cfgs \cup {NoCfg}, prev : Cfgs \cup {NoCfg}]
      /\ state \in {"Idle", "Unconfirmed"}
  BY DEF TypeInv, TypeOK
<1>1. CASE InterfacesStep \/ RoutesStep \/ NftStep \/ ServicesStep
  BY <1>0, <1>1 DEF InterfacesStep, RoutesStep, NftStep, ServicesStep
<1>2. CASE BackendError
  BY <1>0, <1>2 DEF BackendError, AfterBackendError
<1>3. CASE FinishApply \/ FinishQuietly \/ FinishRollback
  BY <1>3 DEF FinishApply, FinishQuietly, FinishRollback
<1>4. ASSUME NEW c \in Cfgs, UpdateCandidate(c) PROVE TrialInv'
  BY <1>4 DEF UpdateCandidate, InTrial
<1>5. ASSUME NEW i \in 1..Len(history), RestoreFromHistory(i) PROVE TrialInv'
  BY <1>5 DEF RestoreFromHistory
<1>6. CASE BeginApply
  BY <1>0, <1>6 DEF BeginApply
<1>7. CASE Confirm \/ ConfirmSaveFails
  BY <1>7 DEF Confirm, ConfirmSaveFails
<1>8. CASE RollbackRequest
  BY <1>8 DEF RollbackRequest, StartRollback
<1>9. ASSUME NEW t \in 1..MaxApplies,
             TimerFires(t) \/ TimerRollback(t) \/ TimerTooLate(t)
      PROVE  TrialInv'
  BY <1>9 DEF TimerFires, TimerRollback, TimerTooLate, StartRollback
<1>10. CASE BackgroundSave \/ ReapplyRead \/ ReapplyNft
  BY <1>10 DEF BackgroundSave, ReapplyRead, ReapplyNft
<1>11. CASE AgentRestart \/ MachineReboot \/ RescueRestart
  BY <1>11 DEF AgentRestart, MachineReboot, RescueRestart, AgentEnds, NewProcess
<1>12. CASE UNCHANGED vars
  BY <1>12 DEF vars
<1>13. CASE RescueNft \/ RescueCopy
  BY <1>0, <1>13 DEF RescueNft, RescueCopy
<1> QED BY <1>1, <1>2, <1>3, <1>4, <1>5, <1>6, <1>7, <1>8, <1>9, <1>10,
           <1>11, <1>12, <1>13 DEF Next, HolderStep, ClientStep, TimerStep

LEMMA TrialInvariant ==
  ASSUME StrictClient PROVE Spec => [](TypeInv /\ TrialInv)
BY TypeInvariant, TrialInit, TrialStep, PTL DEF Spec

-----------------------------------------------------------------------------
(* Memory and running.json part only where a confirm fails to save; a      *)
(* background job then writes what nobody kept.  Where one of the two      *)
(* cannot happen, no job changes what a restart comes back with.           *)
JobsKeepFiles == ~Background \/ ~DiskMayFail

SameInv == ~DiskMayFail => runningJson = running

LEMMA SameStep == SameInv /\ [Next]_vars => SameInv'
<1> SUFFICES ASSUME ~DiskMayFail, runningJson = running, [Next]_vars
             PROVE  runningJson' = running'
  BY DEF SameInv
<1> USE DEF store
<1>1. CASE HolderStep
  BY <1>1 DEF HolderStep, InterfacesStep, RoutesStep, NftStep, ServicesStep,
         BackendError, FinishApply, FinishQuietly, FinishRollback
<1>2. CASE ClientStep
  BY <1>2 DEF ClientStep, UpdateCandidate, RestoreFromHistory, BeginApply, Confirm,
         ConfirmSaveFails, RollbackRequest
<1>3. CASE TimerStep \/ BackgroundSave \/ ReapplyRead \/ ReapplyNft
  BY <1>3 DEF TimerStep, TimerFires, TimerRollback, TimerTooLate, BackgroundSave,
         ReapplyRead, ReapplyNft
<1>4. CASE AgentRestart \/ MachineReboot \/ RescueRestart
  BY <1>4 DEF AgentRestart, MachineReboot, RescueRestart, AgentEnds, NewProcess
<1>5. CASE UNCHANGED vars \/ RescueNft \/ RescueCopy
  BY <1>5 DEF vars, RescueNft, RescueCopy
<1> QED BY <1>1, <1>2, <1>3, <1>4, <1>5 DEF Next

LEMMA SameInvariant == Spec => []SameInv
<1>1. Init => SameInv
  BY DEF Init, SameInv
<1> QED BY <1>1, SameStep, PTL DEF Spec

OnTrial == IF state = "Unconfirmed" THEN unconfirmed ELSE NoCfg

(* A step of Safe Apply is a step of its life cycle, or a stutter.         *)
LEMMA LifecycleStep ==
  ASSUME StrictClient, JobsKeepFiles
  PROVE  TypeInv /\ TrialInv /\ SameInv /\ [Next]_vars
           => [Lifecycle!Next]_(Lifecycle!lifecycleVars)
<1> SUFFICES ASSUME TypeInv, TrialInv, SameInv, [Next]_vars,
                    ~(runningJson' = runningJson /\ OnTrial' = OnTrial)
             PROVE  Lifecycle!Next
  BY DEF Lifecycle!lifecycleVars, OnTrial
<1> USE DEF OnTrial, engine, store, MutexFree
<1>0. state \in {"Idle", "Unconfirmed"} /\ NoCfg \notin Cfgs /\ candidate \in Cfgs
  BY SafeApplyConstants DEF TypeInv, TypeOK
<1>1. CASE FinishApply
  <2>1. op.cfg \in Cfgs
    BY <1>1 DEF FinishApply, TypeInv, OpUnderWay, Free, Op
  <2>2. Lifecycle!Try(op.cfg)
    BY <1>1 DEF FinishApply, Lifecycle!Try
  <2> QED BY <2>1, <2>2 DEF Lifecycle!Next
<1>2. CASE Confirm
  <2>1. Lifecycle!Keep
    BY <1>0, <1>2 DEF Confirm, TrialInv, Lifecycle!Keep
  <2> QED BY <2>1 DEF Lifecycle!Next
<1>3. CASE FinishRollback \/ AgentRestart \/ MachineReboot \/ RescueRestart
  <2>1. Lifecycle!Drop
    BY <1>3 DEF FinishRollback, AgentRestart, MachineReboot, RescueRestart,
                AgentEnds, NewProcess, Lifecycle!Drop
  <2> QED BY <2>1 DEF Lifecycle!Next
<1>4. ~InterfacesStep /\ ~RoutesStep /\ ~NftStep /\ ~ServicesStep
      /\ ~BackendError /\ ~FinishQuietly
  BY DEF InterfacesStep, RoutesStep, NftStep, ServicesStep, BackendError,
         FinishQuietly
<1>5. /\ ~\E c \in Cfgs : UpdateCandidate(c)
      /\ ~\E i \in 1..Len(history) : RestoreFromHistory(i)
      /\ ~BeginApply /\ ~ConfirmSaveFails /\ ~RollbackRequest
  BY DEF UpdateCandidate, RestoreFromHistory, BeginApply, ConfirmSaveFails,
         RollbackRequest, StartRollback
<1>6. ~TimerStep /\ ~ReapplyRead /\ ~ReapplyNft /\ ~UNCHANGED vars
      /\ ~RescueNft /\ ~RescueCopy
  BY DEF TimerStep, TimerFires, TimerRollback, TimerTooLate, StartRollback,
         ReapplyRead, ReapplyNft, RescueNft, RescueCopy, vars
<1>7. ~BackgroundSave
  BY DEF BackgroundSave, JobsKeepFiles, SameInv
<1> QED BY <1>1, <1>2, <1>3, <1>4, <1>5, <1>6, <1>7 DEF Next, HolderStep, ClientStep

(* Safe Apply implements ConfigLifecycle: nothing becomes the committed    *)
(* configuration that was not applied and on trial first, and a trial that *)
(* fails, times out or is cut short by a restart leaves it as it was -     *)
(* unless a confirm failed to save and a background job then did.          *)
THEOREM KeepsTheLifecycle ==
  ASSUME StrictClient, JobsKeepFiles PROVE Spec => KeepsLifecycle
<1>1. Init => Lifecycle!Init
  BY SafeApplyConstants DEF Init, Lifecycle!Init
<1>2. [](TypeInv /\ TrialInv) /\ []SameInv /\ [][Next]_vars
        => [][Lifecycle!Next]_(Lifecycle!lifecycleVars)
  BY LifecycleStep, PTL
<1> QED BY <1>1, <1>2, TrialInvariant, SameInvariant, PTL
        DEF Spec, KeepsLifecycle, Lifecycle!Spec

(* What a confirm makes the running configuration is what the kernel has   *)
(* been running on trial.                                                  *)
THEOREM CommitsTheTrial == ASSUME StrictClient PROVE Spec => CommitsWhatWasTried
<1> DEFINE Safe == running' # running /\ ~Restarts =>
                     state = "Unconfirmed" /\ MutexFree /\ running' = unconfirmed
<1>1. TypeInv /\ TrialInv /\ Next => Safe
  <2> SUFFICES ASSUME TypeInv, TrialInv, Next, running' # running, boots' = boots
               PROVE  state = "Unconfirmed" /\ MutexFree /\ running' = unconfirmed
    BY DEF Restarts
  <2> USE DEF store, outside
  <2>0. boots \in Nat
    BY SafeApplyConstants DEF TypeInv, TypeOK
  <2>1. ~HolderStep
    BY DEF HolderStep, InterfacesStep, RoutesStep, NftStep, ServicesStep,
           BackendError, FinishApply, FinishQuietly, FinishRollback
  <2>2. ~TimerStep /\ ~BackgroundSave /\ ~ReapplyRead /\ ~ReapplyNft
    BY DEF TimerStep, TimerFires, TimerRollback, TimerTooLate,
           BackgroundSave, ReapplyRead, ReapplyNft
  <2>3. ~AgentRestart /\ ~MachineReboot /\ ~RescueNft /\ ~RescueCopy /\ ~RescueRestart
    BY <2>0 DEF AgentRestart, MachineReboot, AgentEnds, NewProcess,
                RescueNft, RescueCopy, RescueRestart
  <2>4. Confirm \/ ConfirmSaveFails
    BY <2>1, <2>2, <2>3 DEF Next, ClientStep, UpdateCandidate,
       RestoreFromHistory, BeginApply, RollbackRequest
  <2> QED BY <2>4 DEF Confirm, ConfirmSaveFails, TrialInv
<1>2. TypeInv /\ TrialInv /\ [Next]_vars => [Safe]_vars
  BY <1>1
<1>3. [](TypeInv /\ TrialInv) /\ [][Next]_vars => [][Safe]_vars
  BY <1>2, PTL
<1> QED BY <1>3, TrialInvariant, PTL DEF Spec, CommitsWhatWasTried

-----------------------------------------------------------------------------
(* BackendsFollowState is not inductive either: what an operation under    *)
(* way has already put into the kernel must be what it will end with, and  *)
(* a restore, a rollback and a boot work towards the running configuration.*)
BackendInv ==
  /\ job = NoCfg
  /\ BackendsFollowState
  /\ op.kind \in {"restore", "boot"} => state = "Idle"
  /\ op.kind \in {"restore", "boot", "rollback"} => op.cfg = running
  /\ op.step = "svc" /\ ~RescueUnderWay => kNft = op.cfg
  /\ op.step = "finish" /\ ~RescueUnderWay => degraded \/ (kNft = op.cfg /\ kSvc = op.cfg)

LEMMA BackendInit == Init => BackendInv
BY DEF Init, BackendInv, BackendsFollowState, Settled, MutexFree, Op, Free

LEMMA BackendStep ==
  ASSUME StrictClient, ~Background
  PROVE  TypeInv /\ TrialInv /\ BackendInv /\ [Next]_vars => BackendInv'
<1> SUFFICES ASSUME TypeInv, TrialInv, BackendInv, [Next]_vars
             PROVE  BackendInv'
  OBVIOUS
<1> USE DEF BackendInv, BackendsFollowState, Settled, InForce, engine, store,
        kernel, outside, ghosts, RescueUnderWay, Op, Free, MutexFree, Goto
<1>0. op \in [kind : Kinds, step : Steps,
              cfg : Cfgs \cup {NoCfg}, prev : Cfgs \cup {NoCfg}]
      /\ state \in {"Idle", "Unconfirmed"}
  BY DEF TypeInv, TypeOK
<1>1. CASE InterfacesStep \/ RoutesStep
  BY <1>0, <1>1 DEF InterfacesStep, RoutesStep
<1>2. CASE NftStep \/ ServicesStep
  BY <1>0, <1>2 DEF NftStep, ServicesStep
<1>3. CASE BackendError
  BY <1>0, <1>3 DEF BackendError, AfterBackendError, TrialInv
<1>4. CASE FinishApply
  BY <1>4 DEF FinishApply
<1>5. CASE FinishQuietly \/ FinishRollback
  BY <1>5 DEF FinishQuietly, FinishRollback
<1>6. ASSUME NEW c \in Cfgs, UpdateCandidate(c) PROVE BackendInv'
  BY <1>6 DEF UpdateCandidate
<1>7. ASSUME NEW i \in 1..Len(history), RestoreFromHistory(i) PROVE BackendInv'
  BY <1>7 DEF RestoreFromHistory
<1>8. CASE BeginApply
  BY <1>8 DEF BeginApply
<1>9. CASE Confirm \/ ConfirmSaveFails
  BY <1>9 DEF Confirm, ConfirmSaveFails, TrialInv
<1>10. CASE RollbackRequest
  BY <1>10 DEF RollbackRequest, StartRollback
<1>11. ASSUME NEW t \in 1..MaxApplies,
              TimerFires(t) \/ TimerRollback(t) \/ TimerTooLate(t)
       PROVE  BackendInv'
  BY <1>11 DEF TimerFires, TimerRollback, TimerTooLate, StartRollback
<1>12. ~BackgroundSave /\ ~ReapplyRead /\ ~ReapplyNft
  BY SafeApplyConstants DEF BackgroundSave, ReapplyRead, ReapplyNft
<1>13. CASE AgentRestart \/ MachineReboot \/ RescueRestart
  BY <1>13 DEF AgentRestart, MachineReboot, RescueRestart, AgentEnds, NewProcess
<1>14. CASE UNCHANGED vars
  BY <1>14 DEF vars
<1>15. CASE RescueNft \/ RescueCopy
  BY <1>0, <1>15 DEF RescueNft, RescueCopy
<1> QED BY <1>1, <1>2, <1>3, <1>4, <1>5, <1>6, <1>7, <1>8, <1>9, <1>10,
           <1>11, <1>12, <1>13, <1>14, <1>15 DEF Next, HolderStep, ClientStep, TimerStep

(* After every operation - also an apply that failed half way, and a       *)
(* rollback of one that did not - ruleset and services are those of the    *)
(* configuration that ought to be in force, as long as no background job   *)
(* loads a ruleset in between and no way back has itself failed.           *)
THEOREM BackendsAgree ==
  ASSUME StrictClient, ~Background PROVE Spec => []BackendsFollowState
<1>1. BackendInv => BackendsFollowState
  BY DEF BackendInv
<1> QED BY <1>1, TrialInvariant, BackendInit, BackendStep, PTL DEF Spec

-----------------------------------------------------------------------------
(* Every interface that a table names has the setting it names.            *)
Agrees(table, kern) ==
  \A i \in Ifaces : table[i] # Absent => MatchesSystemState(kern[i], table[i])

(* applyInterfaces does not look at the kernel for an interface that the   *)
(* previous configuration names too: it brings the kernel in line with the *)
(* new table only if it was in line with the previous one.                 *)
LEMMA ApplyInterfacesAgrees ==
  ASSUME NEW new \in IfaceTable, NEW prev \in IfaceTable, NEW kern \in IfaceTable,
         Agrees(prev, kern)
  PROVE  Agrees(new, ApplyInterfaces(new, prev, kern))
<1> SUFFICES ASSUME NEW i \in Ifaces, new[i] # Absent
             PROVE  MatchesSystemState(ApplyInterfaces(new, prev, kern)[i], new[i])
  BY DEF Agrees
<1>1. CASE i \in Touched(new, prev, kern)
  BY <1>1 DEF ApplyInterfaces, MatchesSystemState
<1>2. CASE i \notin Touched(new, prev, kern)
  <2>1. ApplyInterfaces(new, prev, kern)[i] = kern[i]
    BY <1>2 DEF ApplyInterfaces, Removed
  <2>2. CASE prev[i] = Absent
    BY <1>2, <2>1, <2>2 DEF Touched
  <2>3. CASE prev[i] # Absent
    BY <1>2, <2>1, <2>3 DEF Touched, Agrees, MatchesSystemState,
                            InterfaceConfigDiffers
  <2> QED BY <2>2, <2>3
<1> QED BY <1>1, <1>2

(* Before an operation has done its interfaces the kernel agrees with what *)
(* it takes for the previous configuration, afterwards with its own.       *)
InterfaceInv ==
  /\ op.step = "none" => Agrees(IfcOf[InForce], kIfc)
  /\ op.step = "ifaces" => Agrees(IfcPrev(op.prev), kIfc)
  /\ op.step \notin {"none", "ifaces"} => Agrees(IfcOf[op.cfg], kIfc)
  /\ op.kind \in {"restore", "boot"} => state = "Idle"
  /\ op.kind \in {"restore", "boot", "rollback"} => op.cfg = running
  /\ op.kind # "none" <=> op.step # "none"
  /\ state = "Idle" => unconfirmed = NoCfg

LEMMA InterfaceInit == Init => InterfaceInv
<1>1. Agrees(NoIfaces, kIfc)
  BY DEF Agrees, NoIfaces
<1> QED BY <1>1 DEF Init, InterfaceInv, Op, IfcPrev

LEMMA InterfaceStep ==
  ASSUME StrictClient, ~DevicesMayBeGone
  PROVE  TypeInv /\ TrialInv /\ InterfaceInv /\ [Next]_vars => InterfaceInv'
<1> SUFFICES ASSUME TypeInv, TrialInv, InterfaceInv, [Next]_vars
             PROVE  InterfaceInv'
  OBVIOUS
<1> USE DEF InterfaceInv, InForce, IfcPrev, engine, store, kernel, Op, Free,
            MutexFree, Goto
<1>0. /\ op \in [kind : Kinds, step : Steps,
                 cfg : Cfgs \cup {NoCfg}, prev : Cfgs \cup {NoCfg}]
      /\ state \in {"Idle", "Unconfirmed"}
      /\ NoIfaces \in IfaceTable /\ Agrees(NoIfaces, kIfc) /\ Agrees(NoIfaces, kIfc')
      /\ NoCfg \notin Cfgs /\ running \in Cfgs /\ candidate \in Cfgs
      /\ IfcOf \in [Cfgs -> IfaceTable] /\ kIfc \in IfaceTable
  BY SafeApplyConstants
     DEF TypeInv, TypeOK, NoIfaces, IfaceTable, Agrees
<1>1. CASE InterfacesStep
  <2>1. op.cfg \in Cfgs /\ IfcPrev(op.prev) \in IfaceTable
    BY <1>0, <1>1 DEF InterfacesStep, TypeInv, OpUnderWay
  <2>2. Agrees(IfcOf[op.cfg], kIfc')
    BY <1>0, <1>1, <2>1, ApplyInterfacesAgrees DEF InterfacesStep
  <2> QED BY <1>0, <1>1, <2>2 DEF InterfacesStep
<1>2. CASE RoutesStep \/ NftStep \/ ServicesStep
  BY <1>0, <1>2 DEF RoutesStep, NftStep, ServicesStep
<1>3. CASE BackendError
  <2>0. /\ Agrees(IfcOf[op.cfg], kIfc) /\ op.kind \in Kinds \ {"none"}
        /\ UNCHANGED <<state, unconfirmed, running, kIfc>>
    BY <1>0, <1>3 DEF BackendError, Kinds
  <2>1. CASE op.kind = "apply"
    BY <1>0, <1>3, <2>0, <2>1 DEF BackendError, AfterBackendError, TrialInv
  <2>2. CASE op.kind = "rollback"
    BY <1>0, <1>3, <2>0, <2>2 DEF BackendError, AfterBackendError
  <2>3. CASE op.kind \in {"restore", "boot"}
    BY <1>0, <1>3, <2>0, <2>3 DEF BackendError, AfterBackendError
  <2> QED BY <2>0, <2>1, <2>2, <2>3 DEF Kinds
<1>4. CASE FinishApply
  BY <1>4 DEF FinishApply
<1>5. CASE FinishQuietly \/ FinishRollback
  BY <1>5 DEF FinishQuietly, FinishRollback
<1>6. ASSUME NEW c \in Cfgs, UpdateCandidate(c) PROVE InterfaceInv'
  BY <1>6 DEF UpdateCandidate
<1>7. ASSUME NEW i \in 1..Len(history), RestoreFromHistory(i) PROVE InterfaceInv'
  BY <1>7 DEF RestoreFromHistory
<1>8. CASE BeginApply
  BY <1>0, <1>8 DEF BeginApply
<1>9. CASE Confirm \/ ConfirmSaveFails
  BY <1>9 DEF Confirm, ConfirmSaveFails, TrialInv
<1>10. CASE RollbackRequest
  BY <1>0, <1>10 DEF RollbackRequest, StartRollback, TrialInv
<1>11. ASSUME NEW t \in 1..MaxApplies,
              TimerFires(t) \/ TimerRollback(t) \/ TimerTooLate(t)
       PROVE  InterfaceInv'
  BY <1>0, <1>11 DEF TimerFires, TimerRollback, TimerTooLate, StartRollback, TrialInv
<1>12. CASE BackgroundSave \/ ReapplyRead \/ ReapplyNft
  BY <1>12 DEF BackgroundSave, ReapplyRead, ReapplyNft
<1>13. CASE AgentRestart \/ MachineReboot \/ RescueRestart
  BY <1>0, <1>13 DEF AgentRestart, MachineReboot, RescueRestart, AgentEnds, NewProcess
<1>14. CASE UNCHANGED vars
  BY <1>14 DEF vars
<1>15. CASE RescueNft \/ RescueCopy
  BY <1>0, <1>15 DEF RescueNft, RescueCopy
<1> QED BY <1>1, <1>2, <1>3, <1>4, <1>5, <1>6, <1>7, <1>8, <1>9, <1>10,
           <1>11, <1>12, <1>13, <1>14, <1>15 DEF Next, HolderStep, ClientStep, TimerStep

(* After every operation each interface the configuration in force names   *)
(* has the setting it names, although applyInterfaces touches only what it *)
(* believes to have changed.                                               *)
THEOREM InterfacesAgree ==
  ASSUME StrictClient, ~DevicesMayBeGone
  PROVE  Spec => []InterfacesFollowState
<1>1. InterfaceInv => InterfacesFollowState
  BY DEF InterfaceInv, InterfacesFollowState, Settled, MutexFree, Free, Op, Agrees
<1> QED BY <1>1, TrialInvariant, InterfaceInit, InterfaceStep, PTL DEF Spec

(* Both together: what the run SafeApply_strict checks.                    *)
THEOREM MachineAgrees ==
  ASSUME StrictClient, ~Background, ~DevicesMayBeGone
  PROVE  Spec => []MachineFollowsState
<1>1. BackendsFollowState /\ InterfacesFollowState => MachineFollowsState
  BY DEF MachineFollowsState
<1> QED BY <1>1, BackendsAgree, InterfacesAgree, PTL

-----------------------------------------------------------------------------
(* Whatever can still reach the kernel - the running configuration, the    *)
(* one a restart reads, the one on trial, the one a job has read - was     *)
(* accepted by ValidateCandidate.                                          *)
ValidInv ==
  /\ running \in Valid /\ runningJson \in Valid
  /\ state = "Unconfirmed" => unconfirmed \in Valid
  /\ op.kind # "none" => op.cfg \in Valid
  /\ op.kind = "none" <=> op.step = "none"
  /\ job \in Valid \cup {NoCfg, Stored}
  /\ OnlyValidatedInKernel

LEMMA ValidInit == Init => ValidInv
BY SafeApplyConstants DEF Init, ValidInv, OnlyValidatedInKernel, Op

LEMMA ValidStep ==
  ASSUME StrictClient
  PROVE  TypeInv /\ TrialInv /\ ValidInv /\ [Next]_vars => ValidInv'
<1> SUFFICES ASSUME TypeInv, TrialInv, ValidInv, [Next]_vars
             PROVE  ValidInv'
  OBVIOUS
<1> USE DEF ValidInv, OnlyValidatedInKernel, engine, store, kernel, Op, Free,
            MutexFree, Goto
<1>0. op \in [kind : Kinds, step : Steps,
              cfg : Cfgs \cup {NoCfg}, prev : Cfgs \cup {NoCfg}]
  BY DEF TypeInv, TypeOK
<1>1. CASE InterfacesStep \/ RoutesStep \/ NftStep \/ ServicesStep
  BY <1>0, <1>1 DEF InterfacesStep, RoutesStep, NftStep, ServicesStep
<1>2. CASE BackendError
  BY <1>0, <1>2 DEF BackendError, AfterBackendError
<1>3. CASE FinishApply \/ FinishQuietly \/ FinishRollback
  BY <1>3 DEF FinishApply, FinishQuietly, FinishRollback
<1>4. ASSUME NEW c \in Cfgs, UpdateCandidate(c) PROVE ValidInv'
  BY <1>4 DEF UpdateCandidate
<1>5. ASSUME NEW i \in 1..Len(history), RestoreFromHistory(i) PROVE ValidInv'
  BY <1>5 DEF RestoreFromHistory
<1>6. CASE BeginApply
  BY <1>6 DEF BeginApply
<1>7. CASE Confirm \/ ConfirmSaveFails
  BY <1>7 DEF Confirm, ConfirmSaveFails, TrialInv
<1>8. CASE RollbackRequest
  BY <1>8 DEF RollbackRequest, StartRollback
<1>9. ASSUME NEW t \in 1..MaxApplies,
             TimerFires(t) \/ TimerRollback(t) \/ TimerTooLate(t)
      PROVE  ValidInv'
  BY <1>9 DEF TimerFires, TimerRollback, TimerTooLate, StartRollback
<1>10. CASE BackgroundSave \/ ReapplyRead \/ ReapplyNft
  BY SafeApplyConstants, <1>10 DEF BackgroundSave, ReapplyRead, ReapplyNft
<1>11. CASE AgentRestart \/ MachineReboot \/ RescueRestart
  BY <1>11 DEF AgentRestart, MachineReboot, RescueRestart, AgentEnds, NewProcess
<1>12. CASE UNCHANGED vars
  BY <1>12 DEF vars
<1>13. CASE RescueNft \/ RescueCopy
  BY <1>0, <1>13 DEF RescueNft, RescueCopy
<1> QED BY <1>1, <1>2, <1>3, <1>4, <1>5, <1>6, <1>7, <1>8, <1>9, <1>10,
           <1>11, <1>12, <1>13 DEF Next, HolderStep, ClientStep, TimerStep

(* No ruleset that was not validated is ever loaded, not by a background   *)
(* job and not by the boot after a restart either.                         *)
THEOREM KernelIsValidated ==
  ASSUME StrictClient PROVE Spec => []OnlyValidatedInKernel
<1>1. ValidInv => OnlyValidatedInKernel
  BY DEF ValidInv
<1> QED BY <1>1, TrialInvariant, ValidInit, ValidStep, PTL DEF Spec
=============================================================================
