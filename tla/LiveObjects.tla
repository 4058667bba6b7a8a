---------------------------- MODULE LiveObjects ----------------------------
(***************************************************************************)
(* Object values the agent writes by itself, beside Safe Apply: IDS and    *)
(* VPN auto-block (pkg/engine/engine.go) put addresses into an object of   *)
(* the running and of the candidate configuration                          *)
(* (UpdateObjectValuesDirect, pkg/store/store.go), RefreshObjectSource     *)
(* replaces the values of one by a list it has fetched                     *)
(* (UpdateObjectValues), and both render nftables again, while clients     *)
(* replace the candidate and Safe Apply replaces the running one.          *)
(*                                                                         *)
(* Store.runningCfg and Store.candidateCfg are pointers, and so is what an *)
(* apply or a job holds on to; a configuration is written in place.  The   *)
(* heap is therefore explicit, and a pointer is a member of Refs. A        *)
(* ruleset is rendered first and loaded later, by nft -f -; the jobs do    *)
(* not take the engine's mutex, so other rulesets are rendered and loaded  *)
(* between the two.  What SafeApply.tla says of interfaces, routes,        *)
(* services and failed commits is left out here.  Of a configuration only  *)
(* the values of these objects are kept.                                   *)
(***************************************************************************)
EXTENDS Naturals, FiniteSets

CONSTANTS
  IdsJobs,   \* {} or the goroutine of ProcessIDSAutoBlock
  VpnJobs,   \* {} or the goroutine of ProcessVPNAutoBlock
  FeedJobs,  \* calls of RefreshObjectSource: by the ticker, by a client
  Ticker,    \* those of them by the ticker
  Objs,      \* objects in the configuration
  ObjOf,     \* [Jobs -> Objs], the object each job fills
  Ips,       \* addresses
  Lists,     \* what a source may offer
  MaxBoots,  \* bound on restarts
  Scenarios, \* sets of Circumstances, see there
  NoFile,    \* a candidate.json that does not exist; no ruleset rendered
  Holder     \* the holder of the engine's mutex, beside the jobs

BlockJobs == IdsJobs \cup VpnJobs
Jobs == BlockJobs \cup FeedJobs
Loaders == Jobs \cup {Holder}

(* "ids", "vpn": that auto-block is switched on; "feed": an object has a   *)
(* source; "unreachable": it does not always answer. "stale": a client   *)
(* sends back what it fetched earlier; "history": an archived one is       *)
(* made the candidate; "disk": a file cannot be written, or the process    *)
(* ends between the two files of an update; "nft": a ruleset is refused;   *)
(* "late": an alert is logged with the time of one already handled, or an  *)
(* earlier one; "edit": the candidate is replaced while an apply or a      *)
(* rollback is going on; "remove": an administrator takes addresses out of *)
(* an object.                                                              *)
Circumstances ==
  {"ids", "vpn", "feed", "unreachable", "stale", "history", "disk", "nft",
   "late", "edit", "remove"}

ASSUME LiveObjectsConstants ==
  /\ ObjOf \in [Jobs -> Objs]
  /\ IdsJobs \cap VpnJobs = {} /\ BlockJobs \cap FeedJobs = {}
  /\ Ticker \subseteq FeedJobs /\ IsFiniteSet(Jobs) /\ Holder \notin Jobs
  /\ Lists \subseteq SUBSET Ips \ {{}}
  /\ MaxBoots \in Nat /\ Scenarios \subseteq SUBSET Circumstances

VARIABLES
  scenario,              \* the scenario of this behaviour; never changes
  heap,                  \* [Refs -> configurations]
  running, candidate,    \* the Store's pointers
  runFile, candFile,     \* running.json, candidate.json
  archive,               \* configurations in the history
  gui,                   \* a client's copy of the candidate
  op,                    \* what the holder of the engine's mutex does
  trial,                 \* state = StateUnconfirmed
  job,                   \* where each goroutine is
  fresh, done,           \* addresses in a job's log: not yet read, read
  source,                \* the list at the source of an object
  rendered,              \* the ruleset each Loader has yet to load
  kernel,                \* the configuration nftables was rendered from
  boots,
  must,                  \* history variable: addresses a job has blocked and
                         \* no administrator has taken out since
  overtaken,             \* history variable: those between whose rendering
                         \* and loading another ruleset has been loaded
  overlapped             \* history variable: the ruleset loaded last was
                         \* that of one who had been overtaken

system == <<heap, running, candidate, runFile, candFile, archive, gui, op,
            trial, job, fresh, done, source, rendered, kernel, boots, must,
            overtaken, overlapped>>
nft == <<rendered, kernel, overtaken, overlapped>>
vars == <<scenario, system>>

Values == [Objs -> SUBSET Ips]
NoValues == [o \in Objs |-> {}]

(* Two pointers of the Store, one of an apply or rollback, one of each job. *)
Refs == 1..(3 + Cardinality(Jobs))
NilRef == 0

NoOp == [kind |-> "none", ref |-> NilRef]
NoJob == [pc |-> "idle", ref |-> NilRef, values |-> {}]

Live == {running, candidate, op.ref} \cup {job[j].ref : j \in Jobs}

(* A new struct for one of the Store's two pointers, the other being p: it  *)
(* may lie where the one it takes the place of was, if nothing points       *)
(* there.                                                                   *)
Kept(p) == {p, op.ref} \cup {job[j].ref : j \in Jobs}
NewRef(p) == CHOOSE r \in Refs : r \notin Kept(p)

(* The heap becomes new; what nothing points to is forgotten.              *)
HeapIs(new) ==
  LET live == Live'
  IN heap' = [r \in Refs |-> IF r \in live THEN new[r] ELSE NoValues]

TypeOK ==
  /\ scenario \in Scenarios
  /\ heap \in [Refs -> Values]
  /\ running \in Refs /\ candidate \in Refs
  /\ runFile \in Values /\ candFile \in Values \cup {NoFile}
  /\ archive \subseteq Values /\ gui \in Values
  /\ op \in [kind : {"none", "apply", "restore", "rollback"}, ref : Refs \cup {NilRef}]
  /\ trial \in BOOLEAN
  /\ job \in [Jobs -> [pc : {"idle", "read", "write", "reapply"},
                       ref : Refs \cup {NilRef}, values : SUBSET Ips]]
  /\ fresh \in [Jobs -> SUBSET Ips] /\ done \in [Jobs -> SUBSET Ips]
  /\ source \in SUBSET Ips
  /\ rendered \in [Loaders -> Values \cup {NoFile}]
  /\ kernel \in Values /\ boots \in 0..MaxBoots
  /\ must \in Values
  /\ overtaken \subseteq Loaders /\ overlapped \in BOOLEAN

Init ==
  /\ scenario \in Scenarios
  /\ running = 1 /\ candidate = 2
  /\ heap = [r \in Refs |-> NoValues]
  /\ runFile = NoValues /\ candFile = NoFile /\ archive = {}
  /\ gui = NoValues /\ op = NoOp /\ trial = FALSE
  /\ job = [j \in Jobs |-> NoJob]
  /\ fresh = [j \in Jobs |-> {}] /\ done = [j \in Jobs |-> {}]
  /\ source = {}
  /\ rendered = [l \in Loaders |-> NoFile] /\ kernel = NoValues
  /\ boots = 0 /\ must = NoValues
  /\ overtaken = {} /\ overlapped = FALSE

StoreSame == UNCHANGED <<heap, running, candidate, runFile, candFile, archive>>
JobsSame == UNCHANGED <<job, fresh, done, source>>
-----------------------------------------------------------------------------
(* nftables.ApplyConfig: RenderJSON of what a pointer points to now ...    *)
Render(l, r) ==
  /\ rendered[l] = NoFile
  /\ rendered' = [rendered EXCEPT ![l] = heap[r]]
  /\ UNCHANGED <<kernel, overtaken, overlapped>>

(* ... and, once nft has been started, one transaction that replaces the   *)
(* ruleset, or none when nft refuses it.                                   *)
Load(l) ==
  /\ rendered[l] # NoFile
  /\ rendered' = [rendered EXCEPT ![l] = NoFile]
  /\ kernel' = rendered[l]
  /\ overlapped' = (l \in overtaken)
  /\ overtaken' = {k \in Loaders \ {l} : rendered[k] # NoFile}

Refused(l) ==
  /\ "nft" \in scenario
  /\ rendered[l] # NoFile
  /\ rendered' = [rendered EXCEPT ![l] = NoFile]
  /\ overtaken' = overtaken \ {l}
  /\ UNCHANGED <<kernel, overlapped>>
-----------------------------------------------------------------------------
(* GET /config/candidate.                                                  *)
Fetch ==
  /\ "stale" \in scenario
  /\ gui' = heap[candidate]
  /\ StoreSame /\ JobsSame /\ UNCHANGED <<op, trial, nft, boots, must>>

(* SetCandidateConfig of a new struct, written to candidate.json as well.  *)
SetCandidate(c) ==
  /\ candidate' = NewRef(running)
  /\ UNCHANGED <<running, op, job>>
  /\ HeapIs([heap EXCEPT ![NewRef(running)] = c])
  /\ candFile' = c
  /\ UNCHANGED <<runFile, archive>>

(* PUT /config/candidate: the client may have taken addresses out of       *)
(* object o. UpdateCandidate restores some fields from running, but no     *)
(* object values.                                                          *)
Put(o, out) ==
  LET base == IF "stale" \in scenario THEN gui ELSE heap[candidate]
  IN /\ op = NoOp \/ "edit" \in scenario
     /\ out = {} \/ "remove" \in scenario
     /\ SetCandidate([base EXCEPT ![o] = @ \ out])
     /\ must' = [must EXCEPT ![o] = @ \ out]
     /\ UNCHANGED <<gui, op, trial, job, fresh, done, source, nft, boots>>

(* RestoreConfigFromHistory.                                               *)
FromHistory(c) ==
  /\ "history" \in scenario /\ op = NoOp /\ ~trial
  /\ SetCandidate(c)
  /\ UNCHANGED <<gui, op, trial, job, fresh, done, source, nft, boots, must>>
-----------------------------------------------------------------------------
(* ApplyCandidate takes the pointer first and renders nftables from what   *)
(* it points to then, after the interfaces and routes; so do a rollback    *)
(* and the restore.                                                        *)
ApplyBegin ==
  /\ op = NoOp
  /\ op' = [kind |-> "apply", ref |-> candidate]
  /\ StoreSame /\ JobsSame /\ UNCHANGED <<gui, trial, nft, boots, must>>

HolderRenders ==
  /\ op # NoOp
  /\ Render(Holder, op.ref)
  /\ StoreSame /\ JobsSame /\ UNCHANGED <<gui, op, trial, boots, must>>

ApplyEnd ==
  /\ op.kind = "apply"
  /\ op' = NoOp /\ trial' = TRUE
  /\ Load(Holder)
  /\ UNCHANGED <<running, candidate, job>> /\ HeapIs(heap)
  /\ UNCHANGED <<runFile, candFile, archive, gui, fresh, done, source, boots, must>>

(* The ruleset, or a service after it, may be refused: running again ...   *)
ApplyFails ==
  /\ "nft" \in scenario
  /\ op.kind = "apply"
  /\ Load(Holder) \/ Refused(Holder)
  /\ op' = [kind |-> "restore", ref |-> running]
  /\ UNCHANGED <<running, candidate, job, trial>> /\ HeapIs(heap)
  /\ UNCHANGED <<runFile, candFile, archive, gui, fresh, done, source, boots, must>>

(* ... which may be refused as well.                                       *)
RestoreEnd ==
  /\ op.kind = "restore"
  /\ op' = NoOp
  /\ Load(Holder) \/ Refused(Holder)
  /\ UNCHANGED <<running, candidate, job, trial>> /\ HeapIs(heap)
  /\ UNCHANGED <<runFile, candFile, archive, gui, fresh, done, source, boots, must>>

(* ConfirmConfig and CommitCandidate: running becomes a clone.             *)
Confirm ==
  /\ op = NoOp /\ trial
  /\ trial' = FALSE
  /\ archive' = IF "history" \in scenario THEN archive \cup {heap[running]} ELSE {}
  /\ running' = NewRef(candidate)
  /\ UNCHANGED <<candidate, op, job>>
  /\ HeapIs([heap EXCEPT ![NewRef(candidate)] = heap[candidate]])
  /\ runFile' = heap[candidate]
  /\ UNCHANGED <<candFile, gui, fresh, done, source, nft, boots, must>>

(* RollbackConfig, and the timer while a trial is on.                      *)
RollbackBegin ==
  /\ op = NoOp
  /\ op' = [kind |-> "rollback", ref |-> running]
  /\ StoreSame /\ JobsSame /\ UNCHANGED <<gui, trial, nft, boots, must>>

(* SetCandidateConfig(running): the very same struct.                      *)
RollbackEnd ==
  /\ op.kind = "rollback"
  /\ op' = NoOp /\ trial' = FALSE
  /\ Load(Holder) \/ Refused(Holder)
  /\ candidate' = op.ref /\ candFile' = heap[op.ref]
  /\ UNCHANGED <<running, job>> /\ HeapIs(heap)
  /\ UNCHANGED <<runFile, archive, gui, fresh, done, source, boots, must>>
-----------------------------------------------------------------------------
(* IDSAutoBlockEnabled, VPNAutoBlockEnabled.                               *)
Enabled(j) ==
  (j \in IdsJobs /\ "ids" \in scenario) \/ (j \in VpnJobs /\ "vpn" \in scenario)

(* An alert that is severe enough is logged, or an address fails the last   *)
(* of VPNAutoBlockThreshold logins.                                         *)
Alert(j, ip) ==
  /\ Enabled(j)
  /\ ip \notin fresh[j] \cup done[j]
  /\ \/ fresh' = [fresh EXCEPT ![j] = @ \cup {ip}] /\ done' = done
     \/ /\ "late" \in scenario /\ j \in IdsJobs
        /\ done' = [done EXCEPT ![j] = @ \cup {ip}] /\ fresh' = fresh
  /\ StoreSame
  /\ UNCHANGED <<gui, op, trial, job, source, nft, boots, must>>

(* The running configuration is looked up, with the setting; VPN           *)
(* auto-block copies the values now, IDS auto-block once it has read the   *)
(* log.                                                                    *)
JobBegin(j) ==
  /\ Enabled(j)
  /\ job[j] = NoJob
  /\ job' = [job EXCEPT ![j] =
       [pc |-> "read", ref |-> running,
        values |-> IF j \in VpnJobs THEN heap[running][ObjOf[j]] ELSE {}]]
  /\ StoreSame /\ UNCHANGED <<gui, op, trial, fresh, done, source, nft, boots, must>>

Copied(j) ==
  IF j \in VpnJobs THEN job[j].values ELSE heap[job[j].ref][ObjOf[j]]

(* The log is read and idsLastAlertTS or vpnJournalCursor moves on, before  *)
(* anything is saved.                                                       *)
JobRead(j) ==
  /\ job[j].pc = "read"
  /\ fresh' = [fresh EXCEPT ![j] = {}]
  /\ done' = [done EXCEPT ![j] = @ \cup fresh[j]]
  /\ job' = [job EXCEPT ![j] =
       IF fresh[j] \subseteq Copied(j) THEN NoJob
       ELSE [pc |-> "write", ref |-> NilRef, values |-> Copied(j) \cup fresh[j]]]
  /\ UNCHANGED <<running, candidate, op>> /\ HeapIs(heap)
  /\ UNCHANGED <<runFile, candFile, archive, gui, trial, source, nft, boots, must>>

(* Deviation: only the running configuration is written.                   *)
WrittenRunning(c, r) == r = running


(* apply(s.runningCfg); apply(s.candidateCfg)                              *)
Written(c, r) == r \in {running, candidate}

(* UpdateObjectValuesDirect, UpdateObjectValues. Memory is changed in any  *)
(* case; the two files are written one after the other.                    *)
JobWrite(j) ==
  /\ job[j].pc = "write"
  /\ LET o == ObjOf[j]
         new == [r \in Refs |-> IF Written(j, r)
                   THEN [heap[r] EXCEPT ![o] = job[j].values] ELSE heap[r]]
         blocked == IF j \in FeedJobs THEN must
                    ELSE [must EXCEPT
                           ![o] = @ \cup (job[j].values \ heap[running][o])]
     IN /\ heap' = new
        /\ \/ /\ runFile' = new[running] /\ candFile' = new[candidate]
              /\ job' = [job EXCEPT ![j] = [NoJob EXCEPT !.pc = "reapply"]]
              /\ must' = blocked
           \/ /\ "disk" \in scenario
              /\ runFile' = new[running] /\ candFile' = candFile
              /\ job' = [job EXCEPT ![j] = NoJob]
              /\ must' = blocked
           \/ /\ "disk" \in scenario
              /\ UNCHANGED <<runFile, candFile, must>>
              /\ job' = [job EXCEPT ![j] = NoJob]
  /\ UNCHANGED <<running, candidate, archive, gui, op, trial, fresh, done,
                 source, nft, boots>>

(* ReapplyNftablesOnly, without the engine's mutex.                        *)
JobRenders(j) ==
  /\ job[j].pc = "reapply"
  /\ Render(j, running)
  /\ StoreSame /\ JobsSame /\ UNCHANGED <<gui, op, trial, boots, must>>

JobLoads(j) ==
  /\ job[j].pc = "reapply"
  /\ job' = [job EXCEPT ![j] = NoJob]
  /\ Load(j) \/ Refused(j)
  /\ StoreSame /\ UNCHANGED <<gui, op, trial, fresh, done, source, boots, must>>
-----------------------------------------------------------------------------
(* The list changes where it comes from.  An empty one is never accepted.  *)
Publish(list) ==
  /\ "feed" \in scenario /\ list # source
  /\ source' = list
  /\ StoreSame /\ UNCHANGED <<gui, op, trial, job, fresh, done, nft, boots, must>>

(* RefreshObjectSource fetches, with no lock held; what it fetched is       *)
(* written later, by JobWrite.                                             *)
FeedFetch(j) ==
  /\ j \in FeedJobs /\ "feed" \in scenario
  /\ source # {} /\ job[j] = NoJob
  /\ job' = [job EXCEPT ![j] = [pc |-> "write", ref |-> NilRef, values |-> source]]
  /\ StoreSame /\ UNCHANGED <<gui, op, trial, fresh, done, source, nft, boots, must>>

(* Deviation: a list that cannot be fetched is an empty one.               *)
AfterFailureEmpty(j) == [r \in Refs |->
  IF Written(j, r) THEN [heap[r] EXCEPT ![ObjOf[j]] = {}] ELSE heap[r]]

(* The values stay when the list cannot be fetched; the error is noted in   *)
(* the object and both files are written.                                   *)
AfterFailure(j) == heap

FeedFails(j) ==
  /\ {"feed", "unreachable"} \subseteq scenario /\ job[j] = NoJob
  /\ heap' = AfterFailure(j)
  /\ runFile' = heap'[running] /\ candFile' = heap'[candidate]
  /\ UNCHANGED <<running, candidate, archive>> /\ JobsSame
  /\ UNCHANGED <<gui, op, trial, nft, boots, must>>
-----------------------------------------------------------------------------
(* Deviation: candidate.json is taken as it is.                            *)
LoadedCandidateAsIs == candFile

(* loadCandidateOrFallback.                                                *)
LoadedCandidate == IF candFile = NoFile THEN runFile ELSE candFile

(* The process ends anywhere and starts again: loadOrInit, and             *)
(* ApplyRunningConfigAtBoot. Timestamps and cursors are lost; the IDS log   *)
(* is read again, of the VPN journal at most the last five minutes.         *)
Restart ==
  /\ boots < MaxBoots /\ boots' = boots + 1
  /\ running' = 1 /\ candidate' = 2
  /\ op' = NoOp /\ trial' = FALSE
  /\ job' = [j \in Jobs |-> NoJob]
  /\ HeapIs([r \in Refs |-> IF r = 2 THEN LoadedCandidate ELSE runFile])
  /\ kernel' = runFile /\ rendered' = [l \in Loaders |-> NoFile]
  /\ overtaken' = {} /\ overlapped' = FALSE
  /\ \E again \in [VpnJobs -> SUBSET Ips] :
       /\ \A j \in VpnJobs : again[j] \subseteq fresh[j] \cup done[j]
       /\ fresh' = [j \in Jobs |-> CASE j \in IdsJobs -> fresh[j] \cup done[j]
                                     [] j \in VpnJobs -> again[j]
                                     [] j \in FeedJobs -> {}]
  /\ done' = [j \in Jobs |-> {}]
  /\ UNCHANGED <<runFile, candFile, archive, gui, source, must>>

JobStep(j) ==
  \/ JobBegin(j) \/ JobRead(j) \/ FeedFetch(j) \/ JobWrite(j)
  \/ JobRenders(j) \/ JobLoads(j)

HolderStep == HolderRenders \/ ApplyEnd \/ ApplyFails \/ RestoreEnd \/ RollbackEnd

Step ==
  \/ Fetch
  \/ \E o \in Objs, out \in SUBSET Ips : Put(o, out)
  \/ \E c \in archive : FromHistory(c)
  \/ ApplyBegin \/ HolderStep \/ Confirm \/ RollbackBegin
  \/ \E j \in BlockJobs, ip \in Ips : Alert(j, ip)
  \/ \E list \in Lists : Publish(list)
  \/ \E j \in FeedJobs : FeedFails(j)
  \/ \E j \in Jobs : JobStep(j)
  \/ Restart

Next == Step /\ UNCHANGED scenario

Spec == Init /\ [][Next]_vars

(* The tickers go on, and what is begun finishes; no client need ask for a *)
(* refresh.                                                                *)
FairSpec ==
  /\ Spec /\ WF_system(HolderStep)
  /\ \A j \in BlockJobs \cup Ticker : WF_system(JobStep(j))
  /\ \A j \in FeedJobs \ Ticker : WF_system(JobWrite(j) \/ JobRenders(j) \/ JobLoads(j))
-----------------------------------------------------------------------------
(* An address a job has blocked stays in the running configuration until   *)
(* an administrator takes it out, through applies, rollbacks and restarts. *)
KeepsBlocked == \A o \in Objs : must[o] \subseteq heap[running][o]

(* It is so while clients send back what is current, nothing is restored   *)
(* from the history and every file can be written - even if rulesets are   *)
(* refused and the candidate is replaced while it is being applied.        *)
Orderly == scenario \cap {"stale", "history", "disk"} = {}
(* The candidate has them too, so that the next confirm keeps them.        *)
BlockedStays ==
  Orderly => KeepsBlocked /\ \A o \in Objs : must[o] \subseteq heap[candidate][o]

(* Once no job has a ruleset left to load, the kernel's has every address  *)
(* that was blocked and that nobody has taken out - unless the one loaded  *)
(* last had been rendered before another was loaded.  Then an address is   *)
(* missing until the next load.                                            *)
KernelBlocks ==
  /\ Orderly /\ scenario \cap {"nft", "edit"} = {}
  /\ ~overlapped /\ \A j \in Jobs : job[j].pc # "reapply"
  => \A o \in Objs : must[o] \subseteq kernel[o]

(* What was blocked is blocked: in the configurations and in the ruleset.  *)
BlocksHold == BlockedStays /\ KernelBlocks


(* Once its source has stopped changing, the kernel has the list of an     *)
(* object and keeps it, though it may not always be fetched and two        *)
(* refreshes, of which each writes what it fetched earlier, may overlap.   *)
FeedsArrive ==
  scenario \subseteq {"feed", "unreachable", "edit"} /\ <>[][FALSE]_source
    => <>[](source # {} => \A j \in FeedJobs : kernel[ObjOf[j]] = source)
-----------------------------------------------------------------------------
(* Promises of comments that the code does not keep (README.md names the   *)
(* scenarios).  Running and candidate are two structs, and no update of    *)
(* one writes into the other; a rollback makes them one.                   *)
SeparateObjects == running # candidate

(* What a job has written takes effect as soon as the job has ended; an    *)
(* apply that rendered before it and loads after it takes it out again.    *)
TakesEffectAtOnce ==
  /\ Orderly /\ scenario \cap {"nft", "edit"} = {}
  /\ op = NoOp /\ \A j \in Jobs : job[j].pc # "reapply"
  => \A o \in Objs : must[o] \subseteq kernel[o]
=============================================================================
