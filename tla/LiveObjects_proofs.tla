-------------------------- MODULE LiveObjects_proofs --------------------------
(***************************************************************************)
(* What an auto-block job has blocked stays blocked (BlocksHold), and the  *)
(* types, for any number of jobs, objects, addresses and restarts.         *)
(*                                                                         *)
(* The argument follows the pointers.  What a job has looked up stays what *)
(* the job may add to (CarriedInv), although a confirm has made another    *)
(* struct the running one since: nobody but this job adds addresses to its *)
(* object.  What both configurations and both files have of must, they     *)
(* have after every step (BlockInv), because a new struct is a copy of the *)
(* candidate, and what an apply or a rollback has taken hold of is still   *)
(* the candidate or the running configuration when it ends (RefInv).  A    *)
(* ruleset that lacks something was rendered before it was written, so     *)
(* that the job that wrote it has yet to load, or another has been loaded  *)
(* in between (KernelInv).                                                 *)
(***************************************************************************)
EXTENDS LiveObjects, FiniteSetTheorems, TLAPS

(* No other job writes into the object of an auto-block job. The engine    *)
(* does not insist on it; two jobs that share an object lose addresses     *)
(* (README.md, section 8).                                                 *)
OwnObject == \A j \in BlockJobs, k \in Jobs : k # j => ObjOf[k] # ObjOf[j]

(* What an apply or a rollback, or a job, has got hold of.                 *)
RefInv ==
  /\ op.kind = "none" => op = NoOp
  /\ op.kind = "apply" =>
       op.ref \in Refs /\ ("edit" \in scenario \/ op.ref = candidate)
  /\ op.kind \in {"restore", "rollback"} => op.ref = running
  /\ \A j \in Jobs : job[j].pc = "read" => job[j].ref \in Refs /\ j \in BlockJobs

Within(m, c) == \A o \in Objs : m[o] \subseteq c[o]

(* A block job puts back all that it has blocked before.                   *)
Carried(j) ==
  /\ job[j].pc = "read" => must[ObjOf[j]] \subseteq Copied(j)
  /\ job[j].pc = "write" => must[ObjOf[j]] \subseteq job[j].values

CarriedInv == \A j \in BlockJobs : Carried(j)

(* Only block jobs block.                                                  *)
OnlyJobsBlock ==
  \A o \in Objs : (\A j \in BlockJobs : ObjOf[j] # o) => must[o] = {}

BlockInv ==
  Orderly =>
    /\ Within(must, heap[running]) /\ Within(must, heap[candidate])
    /\ Within(must, runFile) /\ Within(must, LoadedCandidate)
    /\ CarriedInv /\ OnlyJobsBlock

(* Who has a ruleset to load, is at it.                                    *)
RenderedByBusy ==
  /\ rendered[Holder] # NoFile => op # NoOp
  /\ \A j \in Jobs : rendered[j] # NoFile => job[j].pc = "reapply"

(* Another job than l has yet to load what it has written.                 *)
OtherToLoad(l) == \E k \in Jobs \ {l} : job[k].pc = "reapply"

Quiet == Orderly /\ scenario \cap {"nft", "edit"} = {}
KernelInv ==
  Quiet =>
    /\ ~overlapped => Within(must, kernel) \/ \E k \in Jobs : job[k].pc = "reapply"
    /\ \A l \in Loaders :
         rendered[l] # NoFile /\ l \notin overtaken
           => Within(must, rendered[l]) \/ OtherToLoad(l)

IInv == TypeOK /\ RefInv /\ RenderedByBusy /\ BlockInv /\ KernelInv
-----------------------------------------------------------------------------
(* One element more makes a set by at most one larger.                     *)
LEMMA OneMore ==
  ASSUME NEW S, IsFiniteSet(S), NEW n \in Nat, Cardinality(S) <= n, NEW x
  PROVE  IsFiniteSet(S \cup {x}) /\ Cardinality(S \cup {x}) <= n + 1
<1>1. Cardinality(S) \in Nat
  BY FS_CardinalityType
<1>2. /\ IsFiniteSet(S \cup {x})
      /\ Cardinality(S \cup {x}) = IF x \in S THEN Cardinality(S) ELSE Cardinality(S) + 1
  BY FS_AddElement
<1> QED BY <1>1, <1>2

(* There are more pointers than holders of pointers, so that a new one can *)
(* always be had.                                                          *)
LEMMA NewRefIsNew ==
  ASSUME NEW p
  PROVE  NewRef(p) \in Refs /\ NewRef(p) \notin Kept(p)
<1> DEFINE held == {job[j].ref : j \in Jobs}
           f == [j \in Jobs |-> job[j].ref]
           n == Cardinality(Jobs)
           S == held \cup {p}
<1>1. IsFiniteSet(Jobs) /\ n \in Nat
  BY LiveObjectsConstants, FS_CardinalityType
<1>2. f \in Surjection(Jobs, held)
  BY DEF Surjection
<1>3. IsFiniteSet(held) /\ Cardinality(held) <= n
  BY <1>1, <1>2, FS_Surjection
<1>4. Kept(p) = S \cup {op.ref}
  BY DEF Kept
<1>5. Cardinality(Refs) = 3 + n
  BY <1>1, FS_Interval DEF Refs
<1> HIDE DEF held, f, n
<1>n. n \in Nat /\ n + 1 \in Nat
  BY <1>1
<1>6. IsFiniteSet(S) /\ Cardinality(S) <= n + 1
  BY <1>1, <1>3, OneMore
<1> HIDE DEF S
<1>7. IsFiniteSet(Kept(p)) /\ Cardinality(Kept(p)) <= n + 2
  <2>1. IsFiniteSet(S \cup {op.ref}) /\ Cardinality(S \cup {op.ref}) <= (n + 1) + 1
    BY <1>n, <1>6, OneMore
  <2> QED BY <2>1, <1>n, <1>4
<1>8. ~(Refs \subseteq Kept(p))
  <2> SUFFICES ASSUME Refs \in SUBSET Kept(p) PROVE FALSE
    OBVIOUS
  <2>1. Cardinality(Refs) <= Cardinality(Kept(p)) /\ Cardinality(Kept(p)) \in Nat
    BY <1>7, FS_Subset, FS_CardinalityType
  <2> QED BY <2>1, <1>1, <1>5, <1>7
<1> QED BY <1>8 DEF NewRef

(* The two pointers of a process that has just started.                    *)
LEMMA RefsType == 1 \in Refs /\ 2 \in Refs /\ NilRef \notin Refs
<1>1. Cardinality(Jobs) \in Nat
  BY LiveObjectsConstants, FS_CardinalityType
<1> QED BY <1>1 DEF Refs, NilRef

(* Every job fills an object of the configuration.                         *)
LEMMA JobObject == \A j \in Jobs : ObjOf[j] \in Objs
BY LiveObjectsConstants

(* What something points to keeps what it has, the rest is forgotten.      *)
LEMMA HeapType ==
  ASSUME NEW new \in [Refs -> Values], HeapIs(new)
  PROVE  heap' \in [Refs -> Values]
<1>1. NoValues \in Values
  BY DEF NoValues, Values
<1> QED BY <1>1 DEF HeapIs

(* A struct that somebody still points to after a step has what the step    *)
(* has given it.                                                           *)
LEMMA HeapKeeps ==
  ASSUME NEW new, HeapIs(new), NEW r \in Refs, r \in Live'
  PROVE  heap'[r] = new[r]
BY DEF HeapIs
-----------------------------------------------------------------------------
(* Types, and what is held on to.                                          *)
(* An agent starts with nothing blocked and nobody waiting.                *)
LEMMA InitHolds == Init => IInv
<1> SUFFICES ASSUME Init PROVE IInv
  OBVIOUS
<1>1. NoValues \in Values /\ \A o \in Objs : NoValues[o] = {}
  BY DEF NoValues, Values
<1>2. 0 \in 0..MaxBoots
  BY LiveObjectsConstants
<1>3. TypeOK
  <2>1. heap \in [Refs -> Values] /\ must \in Values
    BY <1>1 DEF Init
  <2>2. running \in Refs /\ candidate \in Refs
    BY RefsType DEF Init
  <2>3. /\ job \in [Jobs -> [pc : {"idle", "read", "write", "reapply"},
                            ref : Refs \cup {NilRef}, values : SUBSET Ips]]
        /\ op \in [kind : {"none", "apply", "restore", "rollback"},
                  ref : Refs \cup {NilRef}]
    BY DEF Init, NoOp, NoJob
  <2>4. fresh \in [Jobs -> SUBSET Ips] /\ done \in [Jobs -> SUBSET Ips]
    BY DEF Init
  <2> QED BY <1>1, <1>2, <2>1, <2>2, <2>3, <2>4 DEF Init, TypeOK
<1>4. RefInv
  BY DEF Init, RefInv, NoOp, NoJob
<1>5. BlockInv
  BY <1>1, RefsType DEF Init, BlockInv, Within, CarriedInv, Carried, OnlyJobsBlock,
                        NoJob, BlockJobs, Jobs, LoadedCandidate
<1>6. \A l \in Loaders : rendered[l] = NoFile
  BY DEF Init
<1>7. RenderedByBusy
  BY <1>6 DEF RenderedByBusy, Loaders
<1>8. KernelInv
  BY <1>1, <1>6 DEF Init, KernelInv, Within
<1> QED BY <1>3, <1>4, <1>5, <1>7, <1>8 DEF IInv

(* What is rendered and loaded are configurations.                         *)
LEMMA NftType ==
  ASSUME TypeOK, NEW l \in Loaders,
         Load(l) \/ Refused(l) \/ \E r \in Refs : Render(l, r)
  PROVE  /\ rendered' \in [Loaders -> Values \cup {NoFile}]
         /\ kernel' \in Values
         /\ overtaken' \subseteq Loaders /\ overlapped' \in BOOLEAN
<1> USE DEF TypeOK
<1>1. CASE Load(l)
  <2>1. rendered[l] \in Values
    BY <1>1 DEF Load
  <2> QED BY <1>1, <2>1 DEF Load
<1>2. CASE Refused(l)
  BY <1>2 DEF Refused
<1>3. ASSUME NEW r \in Refs, Render(l, r)
      PROVE  /\ rendered' \in [Loaders -> Values \cup {NoFile}]
             /\ UNCHANGED <<kernel, overtaken, overlapped>>
  <2>1. heap[r] \in Values
    OBVIOUS
  <2> QED BY <1>3, <2>1 DEF Render
<1> QED BY <1>1, <1>2, <1>3

(* A new candidate leaves a heap of configurations.                        *)
LEMMA SetCandidateType ==
  ASSUME TypeOK, NEW c \in Values, SetCandidate(c)
  PROVE  /\ heap' \in [Refs -> Values] /\ candidate' \in Refs
         /\ candFile' \in Values
BY NewRefIsNew, HeapType DEF TypeOK, SetCandidate

(* Every step keeps the types.                                             *)
LEMMA TypeStep ==
  ASSUME TypeOK, RefInv, Next
  PROVE  TypeOK'
<1> USE DEF TypeOK, StoreSame, JobsSame, nft
<1>0. scenario' = scenario /\ Step
  BY DEF Next
<1>h. Holder \in Loaders /\ Jobs \subseteq Loaders
  BY DEF Loaders
<1>1. CASE Fetch
  BY <1>0, <1>1 DEF Fetch
<1>2. ASSUME NEW o \in Objs, NEW out \in SUBSET Ips, Put(o, out) PROVE TypeOK'
  <2> DEFINE base == IF "stale" \in scenario THEN gui ELSE heap[candidate]
             c == [base EXCEPT ![o] = @ \ out]
  <2>1. c \in Values /\ SetCandidate(c)
    BY <1>2 DEF Put, Values
  <2>2. heap' \in [Refs -> Values] /\ candidate' \in Refs /\ candFile' \in Values
    BY <2>1, SetCandidateType
  <2>3. UNCHANGED <<running, op, job, runFile, archive>>
    BY <2>1 DEF SetCandidate
  <2>4. must' \in Values
    BY <1>2 DEF Put, Values
  <2> QED BY <1>0, <1>2, <2>2, <2>3, <2>4 DEF Put
<1>3. ASSUME NEW c \in archive, FromHistory(c) PROVE TypeOK'
  <2>1. c \in Values /\ SetCandidate(c)
    BY <1>3 DEF FromHistory
  <2>2. heap' \in [Refs -> Values] /\ candidate' \in Refs /\ candFile' \in Values
    BY <2>1, SetCandidateType
  <2>3. UNCHANGED <<running, op, job, runFile, archive>>
    BY <2>1 DEF SetCandidate
  <2> QED BY <1>0, <1>3, <2>2, <2>3 DEF FromHistory
<1>4. CASE ApplyBegin
  BY <1>0, <1>4 DEF ApplyBegin
<1>5. CASE ApplyEnd \/ ApplyFails \/ RestoreEnd
  <2>1. heap' \in [Refs -> Values]
    BY <1>5, HeapType DEF ApplyEnd, ApplyFails, RestoreEnd
  <2>2. Load(Holder) \/ Refused(Holder)
    BY <1>5 DEF ApplyEnd, ApplyFails, RestoreEnd
  <2>3. /\ rendered' \in [Loaders -> Values \cup {NoFile}]
        /\ kernel' \in Values
        /\ overtaken' \subseteq Loaders /\ overlapped' \in BOOLEAN
    BY <2>2, <1>h, NftType
  <2>4. trial' \in BOOLEAN
    BY <1>5 DEF ApplyEnd, ApplyFails, RestoreEnd
  <2>5. op' \in [kind : {"none", "apply", "restore", "rollback"},
                ref : Refs \cup {NilRef}]
    BY <1>5 DEF ApplyEnd, ApplyFails, RestoreEnd, NoOp
  <2> QED BY <1>0, <1>5, <2>1, <2>3, <2>4, <2>5 DEF ApplyEnd, ApplyFails, RestoreEnd
<1>6. CASE Confirm
  <2>1. heap[candidate] \in Values /\ heap[running] \in Values /\ NewRef(candidate) \in Refs
    BY NewRefIsNew
  <2>2. [heap EXCEPT ![NewRef(candidate)] = heap[candidate]] \in [Refs -> Values]
    BY <2>1
  <2>3. heap' \in [Refs -> Values]
    BY <1>6, <2>2, HeapType DEF Confirm
  <2> QED BY <1>0, <1>6, <2>1, <2>3 DEF Confirm
<1>7. CASE RollbackBegin
  BY <1>0, <1>7 DEF RollbackBegin
<1>8. CASE RollbackEnd
  <2>1. heap' \in [Refs -> Values]
    BY <1>8, HeapType DEF RollbackEnd
  <2>2. op.ref \in Refs /\ heap[op.ref] \in Values
    BY <1>8 DEF RollbackEnd, RefInv
  <2>3. Load(Holder) \/ Refused(Holder)
    BY <1>8 DEF RollbackEnd
  <2>4. /\ rendered' \in [Loaders -> Values \cup {NoFile}]
        /\ kernel' \in Values
        /\ overtaken' \subseteq Loaders /\ overlapped' \in BOOLEAN
    BY <2>3, <1>h, NftType
  <2> QED BY <1>0, <1>8, <2>1, <2>2, <2>4 DEF RollbackEnd, NoOp
<1>9. ASSUME NEW j \in BlockJobs, NEW ip \in Ips, Alert(j, ip) PROVE TypeOK'
  BY <1>0, <1>9 DEF Alert, Jobs
<1>10. ASSUME NEW list \in Lists, Publish(list) PROVE TypeOK'
  BY <1>0, <1>10, LiveObjectsConstants DEF Publish
<1>11. ASSUME NEW j \in FeedJobs, FeedFails(j) PROVE TypeOK'
  BY <1>0, <1>11 DEF FeedFails, AfterFailure
<1>12. ASSUME NEW j \in Jobs, JobBegin(j) PROVE TypeOK'
  <2>1. heap[running][ObjOf[j]] \in SUBSET Ips
    BY JobObject DEF Values
  <2> QED BY <1>0, <1>12, <2>1 DEF JobBegin
<1>13. ASSUME NEW j \in Jobs, JobRead(j) PROVE TypeOK'
  <2>1. heap' \in [Refs -> Values]
    BY <1>13, HeapType DEF JobRead
  <2>2. Copied(j) \in SUBSET Ips
    BY <1>13, JobObject DEF Copied, JobRead, RefInv, Values
  <2> QED BY <1>0, <1>13, <2>1, <2>2 DEF JobRead, NoJob, NilRef
<1>14. ASSUME NEW j \in Jobs, FeedFetch(j) PROVE TypeOK'
  BY <1>0, <1>14 DEF FeedFetch, NilRef
<1>15. ASSUME NEW j \in Jobs, JobWrite(j) PROVE TypeOK'
  <2> DEFINE new == [r \in Refs |-> IF Written(j, r)
                       THEN [heap[r] EXCEPT ![ObjOf[j]] = job[j].values] ELSE heap[r]]
  <2>1. job[j].values \in SUBSET Ips
    OBVIOUS
  <2>2. new \in [Refs -> Values]
    BY <2>1 DEF Values
  <2>3. new[running] \in Values /\ new[candidate] \in Values
    BY <2>2
  <2>4. must' = must \/ must' = [must EXCEPT ![ObjOf[j]] = @ \cup (job[j].values \ heap[running][ObjOf[j]])]
    BY <1>15 DEF JobWrite
  <2>5. must' \in Values
    BY <2>1, <2>4 DEF Values
  <2>6. heap' = new
    BY <1>15 DEF JobWrite
  <2>7. job' \in [Jobs -> [pc : {"idle", "read", "write", "reapply"},
                           ref : Refs \cup {NilRef}, values : SUBSET Ips]]
    BY <1>15 DEF JobWrite, NoJob
  <2>8. runFile' \in Values /\ candFile' \in Values \cup {NoFile}
    BY <1>15, <2>3 DEF JobWrite
  <2> QED BY <1>0, <1>15, <2>2, <2>5, <2>6, <2>7, <2>8 DEF JobWrite
<1>16. ASSUME NEW j \in Jobs, JobRenders(j) PROVE TypeOK'
  <2>1. Render(j, running) /\ running \in Refs
    BY <1>16 DEF JobRenders
  <2>2. /\ rendered' \in [Loaders -> Values \cup {NoFile}]
        /\ kernel' \in Values
        /\ overtaken' \subseteq Loaders /\ overlapped' \in BOOLEAN
    BY <2>1, <1>h, NftType
  <2> QED BY <1>0, <1>16, <2>2 DEF JobRenders
<1>18. ASSUME NEW j \in Jobs, JobLoads(j) PROVE TypeOK'
  <2>1. Load(j) \/ Refused(j)
    BY <1>18 DEF JobLoads
  <2>2. /\ rendered' \in [Loaders -> Values \cup {NoFile}]
        /\ kernel' \in Values
        /\ overtaken' \subseteq Loaders /\ overlapped' \in BOOLEAN
    BY <2>1, <1>h, NftType
  <2> QED BY <1>0, <1>18, <2>2 DEF JobLoads, NoJob
<1>19. CASE HolderRenders
  <2>1. op.ref \in Refs
    <3>1. op.kind \in {"apply", "restore", "rollback"}
      BY <1>19 DEF HolderRenders, RefInv
    <3> QED BY <3>1 DEF RefInv
  <2>2. /\ rendered' \in [Loaders -> Values \cup {NoFile}]
        /\ kernel' \in Values
        /\ overtaken' \subseteq Loaders /\ overlapped' \in BOOLEAN
    BY <1>19, <2>1, <1>h, NftType DEF HolderRenders
  <2> QED BY <1>0, <1>19, <2>2 DEF HolderRenders
<1>17. CASE Restart
  <2>1. LoadedCandidate \in Values
    BY DEF LoadedCandidate
  <2>2. [r \in Refs |-> IF r = 2 THEN LoadedCandidate ELSE runFile] \in [Refs -> Values]
    BY <2>1
  <2>3. heap' \in [Refs -> Values]
    BY <1>17, <2>2, HeapType DEF Restart
  <2>4. fresh' \in [Jobs -> SUBSET Ips]
    <3> PICK again \in [VpnJobs -> SUBSET Ips] :
          fresh' = [j \in Jobs |-> CASE j \in IdsJobs -> fresh[j] \cup done[j]
                                     [] j \in VpnJobs -> again[j]
                                     [] j \in FeedJobs -> {}]
      BY <1>17 DEF Restart
    <3>1. ASSUME NEW j \in Jobs PROVE fresh'[j] \in SUBSET Ips
      <4>1. CASE j \in IdsJobs
        <5>1. j \notin VpnJobs /\ j \notin FeedJobs
          BY <4>1, LiveObjectsConstants DEF BlockJobs
        <5>2. fresh'[j] = fresh[j] \cup done[j]
          BY <4>1, <5>1
        <5> QED BY <5>2
      <4>2. CASE j \in VpnJobs
        <5>1. j \notin IdsJobs /\ j \notin FeedJobs
          BY <4>2, LiveObjectsConstants DEF BlockJobs
        <5>2. fresh'[j] = again[j]
          BY <4>2, <5>1
        <5> QED BY <4>2, <5>2
      <4>3. CASE j \in FeedJobs
        <5>1. j \notin IdsJobs /\ j \notin VpnJobs
          BY <4>3, LiveObjectsConstants DEF BlockJobs
        <5>2. fresh'[j] = {}
          BY <4>3, <5>1
        <5> QED BY <5>2
      <4> QED BY <4>1, <4>2, <4>3 DEF Jobs, BlockJobs
    <3> QED BY <3>1
  <2>5. boots' \in 0..MaxBoots
    BY <1>17, LiveObjectsConstants DEF Restart
  <2> QED BY <1>0, <1>17, <2>3, <2>4, <2>5, RefsType DEF Restart, NoOp, NoJob
<1> QED BY <1>0, <1>1, <1>2, <1>3, <1>4, <1>5, <1>6, <1>7, <1>8, <1>9, <1>10, <1>11,
           <1>12, <1>13, <1>14, <1>15, <1>16, <1>17, <1>18, <1>19
        DEF Step, JobStep, HolderStep
(* Every step keeps what an apply, a rollback or a job has got hold of:     *)
(* nobody else changes the candidate, or the running configuration, before *)
(* it ends.                                                                *)
LEMMA RefStep ==
  ASSUME TypeOK, RefInv, Next
  PROVE  RefInv'
<1> USE DEF TypeOK, RefInv, StoreSame, JobsSame
<1>0. scenario' = scenario /\ Step
  BY DEF Next
<1>1. CASE Fetch \/ RollbackBegin \/ HolderRenders
  BY <1>0, <1>1 DEF Fetch, RollbackBegin, HolderRenders
<1>2. ASSUME NEW o \in Objs, NEW out \in SUBSET Ips, Put(o, out) PROVE RefInv'
  BY <1>0, <1>2 DEF Put, SetCandidate, NoOp
<1>3. ASSUME NEW c \in archive, FromHistory(c) PROVE RefInv'
  BY <1>0, <1>3 DEF FromHistory, SetCandidate, NoOp
<1>4. CASE ApplyBegin
  BY <1>0, <1>4 DEF ApplyBegin
<1>5. CASE ApplyEnd \/ ApplyFails \/ RestoreEnd \/ RollbackEnd
  BY <1>0, <1>5 DEF ApplyEnd, ApplyFails, RestoreEnd, RollbackEnd, NoOp
<1>6. CASE Confirm
  BY <1>0, <1>6 DEF Confirm, NoOp
<1>7. ASSUME NEW j \in BlockJobs, NEW ip \in Ips, Alert(j, ip) PROVE RefInv'
  BY <1>0, <1>7 DEF Alert
<1>8. ASSUME NEW list \in Lists, Publish(list) PROVE RefInv'
  BY <1>0, <1>8 DEF Publish
<1>9. ASSUME NEW j \in FeedJobs, FeedFails(j) PROVE RefInv'
  BY <1>0, <1>9 DEF FeedFails
<1>10. ASSUME NEW j \in Jobs, JobBegin(j) PROVE RefInv'
  BY <1>0, <1>10 DEF JobBegin, Enabled, BlockJobs
<1>11. ASSUME NEW j \in Jobs, JobRead(j) PROVE RefInv'
  BY <1>0, <1>11 DEF JobRead, NoJob
<1>12. ASSUME NEW j \in Jobs, FeedFetch(j) PROVE RefInv'
  BY <1>0, <1>12 DEF FeedFetch
<1>13. ASSUME NEW j \in Jobs, JobWrite(j) PROVE RefInv'
  <2>1. \A k \in Jobs : job'[k] = job[k] \/ job'[k].pc # "read"
    BY <1>13 DEF JobWrite, NoJob
  <2> QED BY <1>0, <1>13, <2>1 DEF JobWrite
<1>14. ASSUME NEW j \in Jobs, JobRenders(j) \/ JobLoads(j) PROVE RefInv'
  BY <1>0, <1>14 DEF JobRenders, JobLoads, NoJob
<1>15. CASE Restart
  BY <1>0, <1>15 DEF Restart, NoOp, NoJob
<1> QED BY <1>0, <1>1, <1>2, <1>3, <1>4, <1>5, <1>6, <1>7, <1>8, <1>9, <1>10, <1>11,
           <1>12, <1>13, <1>14, <1>15 DEF Step, JobStep, HolderStep
(* A ruleset is rendered by one who is at it, and loaded or refused before *)
(* he is done.                                                             *)
LEMMA BusyStep ==
  ASSUME TypeOK, RefInv, RenderedByBusy, Next
  PROVE  RenderedByBusy'
<1> USE DEF TypeOK, RenderedByBusy, StoreSame, JobsSame, nft
<1>0. scenario' = scenario /\ Step
  BY DEF Next
<1>h. Holder \in Loaders /\ Jobs \subseteq Loaders /\ Holder \notin Jobs
  BY LiveObjectsConstants DEF Loaders
<1>1. ASSUME UNCHANGED <<op, job, rendered>> PROVE RenderedByBusy'
  BY <1>1
<1>2. CASE Fetch \/ Confirm
  BY <1>1, <1>2 DEF Fetch, Confirm
<1>3. ASSUME NEW o \in Objs, NEW out \in SUBSET Ips, Put(o, out) PROVE RenderedByBusy'
  BY <1>1, <1>3 DEF Put, SetCandidate
<1>4. ASSUME NEW c \in archive, FromHistory(c) PROVE RenderedByBusy'
  BY <1>1, <1>4 DEF FromHistory, SetCandidate
<1>5. CASE ApplyBegin \/ RollbackBegin
  BY <1>5 DEF ApplyBegin, RollbackBegin, NoOp
<1>6. CASE HolderRenders
  BY <1>6, <1>h DEF HolderRenders, Render
<1>7. CASE ApplyEnd \/ ApplyFails \/ RestoreEnd \/ RollbackEnd
  <2>1. UNCHANGED job /\ (Load(Holder) \/ Refused(Holder))
    BY <1>7 DEF ApplyEnd, ApplyFails, RestoreEnd, RollbackEnd
  <2>2. rendered' = [rendered EXCEPT ![Holder] = NoFile]
    BY <2>1 DEF Load, Refused
  <2> QED BY <2>1, <2>2, <1>h
<1>8. ASSUME NEW j \in BlockJobs, NEW ip \in Ips, Alert(j, ip) PROVE RenderedByBusy'
  BY <1>1, <1>8 DEF Alert
<1>9. ASSUME NEW list \in Lists, Publish(list) PROVE RenderedByBusy'
  BY <1>1, <1>9 DEF Publish
<1>10. ASSUME NEW j \in FeedJobs, FeedFails(j) PROVE RenderedByBusy'
  BY <1>1, <1>10 DEF FeedFails
<1>11. ASSUME NEW j \in Jobs, JobBegin(j) \/ JobRead(j) \/ FeedFetch(j) \/ JobWrite(j)
       PROVE  RenderedByBusy'
  <2>1. UNCHANGED <<op, rendered>> /\ job[j].pc # "reapply"
    BY <1>11 DEF JobBegin, JobRead, FeedFetch, JobWrite, NoJob
  <2>2. \A k \in Jobs \ {j} : job'[k] = job[k]
    BY <1>11 DEF JobBegin, JobRead, FeedFetch, JobWrite
  <2> QED BY <2>1, <2>2
<1>12. ASSUME NEW j \in Jobs, JobRenders(j) PROVE RenderedByBusy'
  BY <1>12, <1>h DEF JobRenders, Render
<1>13. ASSUME NEW j \in Jobs, JobLoads(j) PROVE RenderedByBusy'
  <2>1. UNCHANGED op /\ (Load(j) \/ Refused(j)) /\ \A k \in Jobs \ {j} : job'[k] = job[k]
    BY <1>13 DEF JobLoads
  <2>2. rendered' = [rendered EXCEPT ![j] = NoFile]
    BY <2>1 DEF Load, Refused
  <2> QED BY <2>1, <2>2, <1>h
<1>14. CASE Restart
  BY <1>14, <1>h DEF Restart
<1> QED BY <1>0, <1>2, <1>3, <1>4, <1>5, <1>6, <1>7, <1>8, <1>9, <1>10, <1>11,
           <1>12, <1>13, <1>14 DEF Step, JobStep, HolderStep
-----------------------------------------------------------------------------
(* What is blocked stays.                                                  *)

(* A job that goes on undisturbed carries what it has to.                  *)
LEMMA CarriedKept ==
  ASSUME NEW j \in BlockJobs, Carried(j), job'[j] = job[j],
         must'[ObjOf[j]] \subseteq must[ObjOf[j]],
         job[j].pc = "read" =>
           heap'[job[j].ref][ObjOf[j]] = heap[job[j].ref][ObjOf[j]]
  PROVE  Carried(j)'
BY DEF Carried, Copied

(* The structs that jobs hold are not written over.                        *)
KeptForJobs(new) ==
  \A j \in Jobs : job[j].ref \in Refs => new[job[j].ref] = heap[job[j].ref]

(* As long as no struct is touched that somebody holds, no job is          *)
(* disturbed.                                                              *)
LEMMA AllCarriedKept ==
  ASSUME TypeOK, RefInv, CarriedInv, job' = job,
         \A o \in Objs : must'[o] \subseteq must[o],
         heap' = heap \/ \E new : HeapIs(new) /\ KeptForJobs(new)
  PROVE  CarriedInv'
<1> SUFFICES ASSUME NEW j \in BlockJobs PROVE Carried(j)'
  BY DEF CarriedInv
<1>1. j \in Jobs /\ ObjOf[j] \in Objs /\ Carried(j)
  BY JobObject DEF Jobs, CarriedInv
<1>2. must'[ObjOf[j]] \subseteq must[ObjOf[j]] /\ job'[j] = job[j]
  BY <1>1
<1>3. ASSUME job[j].pc = "read" PROVE heap'[job[j].ref] = heap[job[j].ref]
  <2>1. CASE heap' = heap
    BY <2>1
  <2>2. ASSUME NEW new, HeapIs(new), KeptForJobs(new)
        PROVE  heap'[job[j].ref] = heap[job[j].ref]
    <3>1. job[j].ref \in Refs /\ job[j].ref \in Live'
      BY <1>1, <1>3 DEF RefInv, Live
    <3>2. new[job[j].ref] = heap[job[j].ref]
      BY <1>1, <2>2, <3>1 DEF KeptForJobs
    <3> QED BY <2>2, <3>1, <3>2, HeapKeeps
  <2> QED BY <2>1, <2>2
<1> QED BY <1>1, <1>2, <1>3, CarriedKept

(* The candidate is replaced by c.                                         *)
LEMMA SetCandidateBlocks ==
  ASSUME TypeOK, RefInv, NEW c \in Values, SetCandidate(c), Within(must, heap[running])
  PROVE  /\ heap'[running'] = heap[running] /\ heap'[candidate'] = c
         /\ runFile' = runFile /\ candFile' = c
         /\ \E new : HeapIs(new) /\ KeptForJobs(new)
         /\ job' = job
<1> DEFINE ref == NewRef(running)
           new == [heap EXCEPT ![ref] = c]
<1>1. HeapIs(new) /\ candidate' = ref /\ running' = running
  BY DEF SetCandidate
<1>2. ref \in Refs /\ ref \notin Kept(running)
  BY NewRefIsNew
<1>3. running \in Refs /\ running \in Live' /\ candidate' \in Live'
  BY <1>1 DEF TypeOK, Live
<1>4. new[ref] = c /\ new[running] = heap[running] /\ KeptForJobs(new)
  BY <1>2 DEF TypeOK, Kept, KeptForJobs
<1> HIDE DEF ref
<1> HIDE DEF new
<1>5. heap'[running'] = heap[running]
  BY <1>1, <1>3, <1>4, HeapKeeps
<1>6. heap'[candidate'] = c
  BY <1>1, <1>2, <1>3, <1>4, HeapKeeps
<1> QED BY <1>1, <1>4, <1>5, <1>6 DEF SetCandidate
(* Every step leaves in both configurations and in both files what a job   *)
(* has blocked, unless an administrator takes it out.                      *)
LEMMA BlockStep ==
  ASSUME OwnObject, TypeOK, RefInv, BlockInv, Next
  PROVE  BlockInv'
<1> SUFFICES ASSUME Orderly'
             PROVE  /\ Within(must', heap'[running']) /\ Within(must', heap'[candidate'])
                    /\ Within(must', runFile') /\ Within(must', LoadedCandidate')
                    /\ CarriedInv' /\ OnlyJobsBlock'
  BY DEF BlockInv
<1> DEFINE Goal == /\ Within(must', heap'[running']) /\ Within(must', heap'[candidate'])
                   /\ Within(must', runFile') /\ Within(must', LoadedCandidate')
                   /\ CarriedInv' /\ OnlyJobsBlock'
<1>0. /\ scenario' = scenario /\ Step /\ Orderly
      /\ "stale" \notin scenario /\ "history" \notin scenario /\ "disk" \notin scenario
  BY DEF Next, Orderly
<1>i. /\ Within(must, heap[running]) /\ Within(must, heap[candidate])
      /\ Within(must, runFile) /\ Within(must, LoadedCandidate)
      /\ CarriedInv /\ OnlyJobsBlock
  BY <1>0 DEF BlockInv
<1>t. /\ running \in Refs /\ candidate \in Refs /\ running \in Live /\ candidate \in Live
      /\ heap \in [Refs -> Values] /\ must \in Values
  BY DEF TypeOK, Live
<1>h. Live' = {running', candidate', op'.ref} \cup {job'[j].ref : j \in Jobs}
  BY DEF Live
<1>u. ASSUME UNCHANGED <<heap, running, candidate, runFile, candFile, must, job>> PROVE Goal
  <2>1. LoadedCandidate' = LoadedCandidate /\ OnlyJobsBlock'
    BY <1>u, <1>i DEF LoadedCandidate, OnlyJobsBlock
  <2>2. CarriedInv'
    BY <1>u, <1>i, AllCarriedKept
  <2> QED BY <1>u, <1>i, <2>1, <2>2
<1>1. CASE Fetch \/ HolderRenders
  BY <1>1, <1>u DEF Fetch, HolderRenders, StoreSame, JobsSame
<1>2. ASSUME NEW o \in Objs, NEW out \in SUBSET Ips, Put(o, out) PROVE Goal
  <2> DEFINE c == [heap[candidate] EXCEPT ![o] = @ \ out]
  <2>1. SetCandidate(c) /\ must' = [must EXCEPT ![o] = @ \ out]
    BY <1>0, <1>2 DEF Put
  <2>2. c \in Values
    BY <1>t DEF Values
  <2>3. Within(must', c)
    BY <2>1, <1>i, <1>t DEF Within, Values
  <2>4. \A p \in Objs : must'[p] \subseteq must[p]
    BY <2>1, <1>t DEF Values
  <2> HIDE DEF c
  <2>5. /\ heap'[running'] = heap[running] /\ heap'[candidate'] = c
        /\ runFile' = runFile /\ candFile' = c /\ job' = job
        /\ \E new : HeapIs(new) /\ KeptForJobs(new)
    BY <2>1, <2>2, <1>i, SetCandidateBlocks
  <2>6. CarriedInv'
    BY <1>i, <2>4, <2>5, AllCarriedKept
  <2>7. Within(must', heap[running]) /\ Within(must', runFile)
    BY <2>4, <1>i DEF Within
  <2>8. OnlyJobsBlock'
    BY <2>4, <1>i DEF OnlyJobsBlock
  <2>9. LoadedCandidate' = c \/ LoadedCandidate' = runFile
    BY <2>5 DEF LoadedCandidate
  <2> QED BY <2>3, <2>5, <2>6, <2>7, <2>8, <2>9
<1>3. ASSUME NEW c \in archive, FromHistory(c) PROVE Goal
  BY <1>0, <1>3 DEF FromHistory
<1>4. CASE ApplyBegin \/ RollbackBegin
  BY <1>4, <1>u DEF ApplyBegin, RollbackBegin, StoreSame, JobsSame
<1>5. CASE ApplyEnd \/ ApplyFails \/ RestoreEnd \/ RollbackEnd
  <2>1. HeapIs(heap) /\ UNCHANGED <<running, job, runFile, must>>
    BY <1>5 DEF ApplyEnd, ApplyFails, RestoreEnd, RollbackEnd
  <2>2. candidate' \in {candidate, running}
    BY <1>5 DEF ApplyEnd, ApplyFails, RestoreEnd, RollbackEnd, RefInv
  <2>3. heap'[running'] = heap[running] /\ heap'[candidate'] = heap[candidate']
    BY <2>1, <2>2, <1>t, <1>h, HeapKeeps
  <2>4. CarriedInv'
    BY <1>i, <2>1, AllCarriedKept DEF KeptForJobs
  <2>5. candFile' = candFile \/ candFile' = heap[running]
    BY <1>5 DEF ApplyEnd, ApplyFails, RestoreEnd, RollbackEnd, RefInv
  <2>6. Within(must', LoadedCandidate')
    BY <2>1, <2>5, <1>i DEF LoadedCandidate
  <2>7. OnlyJobsBlock'
    BY <1>i, <2>1 DEF OnlyJobsBlock
  <2> QED BY <1>i, <2>1, <2>2, <2>3, <2>4, <2>6, <2>7
<1>6. CASE Confirm
  <2> DEFINE ref == NewRef(candidate)
             new == [heap EXCEPT ![ref] = heap[candidate]]
  <2>1. /\ HeapIs(new) /\ running' = ref
        /\ UNCHANGED <<candidate, job, candFile, must>> /\ runFile' = heap[candidate]
    BY <1>6 DEF Confirm
  <2>2. ref \in Refs /\ ref \notin Kept(candidate)
    BY NewRefIsNew
  <2>3. /\ new[ref] = heap[candidate] /\ new[candidate] = heap[candidate]
        /\ KeptForJobs(new)
    BY <2>2, <1>t DEF Kept, KeptForJobs
  <2> HIDE DEF new, ref
  <2>4. heap'[running'] = heap[candidate] /\ heap'[candidate'] = heap[candidate]
    BY <2>1, <2>2, <2>3, <1>t, <1>h, HeapKeeps
  <2>5. CarriedInv'
    BY <1>i, <2>1, <2>3, AllCarriedKept
  <2>6. Within(must', LoadedCandidate')
    BY <2>1, <1>i DEF LoadedCandidate
  <2>7. OnlyJobsBlock'
    BY <1>i, <2>1 DEF OnlyJobsBlock
  <2> QED BY <1>i, <2>1, <2>4, <2>5, <2>6, <2>7
<1>7. ASSUME NEW j \in BlockJobs, NEW ip \in Ips, Alert(j, ip) PROVE Goal
  BY <1>7, <1>u DEF Alert, StoreSame
<1>8. ASSUME NEW list \in Lists, Publish(list) PROVE Goal
  BY <1>8, <1>u DEF Publish, StoreSame
<1>9. ASSUME NEW j \in FeedJobs, FeedFails(j) PROVE Goal
  <2>1. UNCHANGED <<heap, running, candidate, job, must>>
    BY <1>9 DEF FeedFails, AfterFailure, JobsSame
  <2>2. runFile' = heap[running] /\ candFile' = heap[candidate]
    BY <1>9, <2>1 DEF FeedFails
  <2>3. CarriedInv'
    BY <1>i, <2>1, AllCarriedKept
  <2>4. OnlyJobsBlock'
    BY <1>i, <2>1 DEF OnlyJobsBlock
  <2>5. LoadedCandidate' \in {heap[candidate], heap[running]}
    BY <2>2 DEF LoadedCandidate
  <2>6. Within(must', LoadedCandidate') /\ Within(must', runFile')
    BY <1>i, <2>1, <2>2, <2>5
  <2> QED BY <1>i, <2>1, <2>3, <2>4, <2>6
<1>10. ASSUME NEW j \in Jobs, JobBegin(j) PROVE Goal
  <2>1. /\ UNCHANGED <<heap, running, candidate, runFile, candFile, must>>
        /\ \A k \in Jobs \ {j} : job'[k] = job[k]
        /\ job'[j] = [pc |-> "read", ref |-> running,
                      values |-> IF j \in VpnJobs THEN heap[running][ObjOf[j]] ELSE {}]
    BY <1>10 DEF JobBegin, StoreSame, TypeOK
  <2>2. ASSUME NEW k \in BlockJobs PROVE Carried(k)'
    <3>1. k \in Jobs /\ ObjOf[k] \in Objs
      BY JobObject DEF Jobs
    <3>2. CASE k # j
      BY <3>1, <3>2, <2>1, <1>i, CarriedKept DEF CarriedInv
    <3>3. CASE k = j
      <4>1. must'[ObjOf[k]] \subseteq heap[running][ObjOf[k]]
        BY <1>i, <2>1, <3>1 DEF Within
      <4>2. Copied(k)' = heap[running][ObjOf[k]]
        BY <2>1, <3>3 DEF Copied
      <4> QED BY <2>1, <3>3, <4>1, <4>2 DEF Carried
    <3> QED BY <3>2, <3>3
  <2>3. LoadedCandidate' = LoadedCandidate /\ OnlyJobsBlock'
    BY <2>1, <1>i DEF LoadedCandidate, OnlyJobsBlock
  <2> QED BY <1>i, <2>1, <2>2, <2>3 DEF CarriedInv
<1>11. ASSUME NEW j \in Jobs, JobRead(j) PROVE Goal
  <2>1. /\ HeapIs(heap) /\ UNCHANGED <<running, candidate, runFile, candFile, must>>
        /\ job[j].pc = "read" /\ \A k \in Jobs \ {j} : job'[k] = job[k]
        /\ \/ job'[j] = NoJob
           \/ job'[j] = [pc |-> "write", ref |-> NilRef, values |-> Copied(j) \cup fresh[j]]
    BY <1>11 DEF JobRead, TypeOK
  <2>2. heap'[running'] = heap[running] /\ heap'[candidate'] = heap[candidate]
    BY <2>1, <1>t, <1>h, HeapKeeps
  <2>3. ASSUME NEW k \in BlockJobs PROVE Carried(k)'
    <3>1. k \in Jobs /\ ObjOf[k] \in Objs /\ Carried(k)
      BY <1>i, JobObject DEF Jobs, CarriedInv
    <3>2. CASE k # j
      <4>1. job'[k] = job[k] /\ must'[ObjOf[k]] \subseteq must[ObjOf[k]]
        BY <2>1, <3>1, <3>2
      <4>2. ASSUME job[k].pc = "read" PROVE heap'[job[k].ref] = heap[job[k].ref]
        <5>1. job[k].ref \in Refs /\ job[k].ref \in Live'
          BY <3>1, <4>1, <4>2, <1>h DEF RefInv
        <5> QED BY <5>1, <2>1, HeapKeeps
      <4> QED BY <3>1, <4>1, <4>2, CarriedKept
    <3>3. CASE k = j
      <4>1. must'[ObjOf[k]] \subseteq Copied(k)
        BY <2>1, <3>1, <3>3 DEF Carried
      <4> QED BY <2>1, <3>3, <4>1 DEF Carried, NoJob
    <3> QED BY <3>2, <3>3
  <2>4. LoadedCandidate' = LoadedCandidate /\ OnlyJobsBlock'
    BY <2>1, <1>i DEF LoadedCandidate, OnlyJobsBlock
  <2> QED BY <1>i, <2>1, <2>2, <2>3, <2>4 DEF CarriedInv
<1>12. ASSUME NEW j \in Jobs, FeedFetch(j) PROVE Goal
  <2>1. /\ UNCHANGED <<heap, running, candidate, runFile, candFile, must>>
        /\ j \in FeedJobs /\ \A k \in Jobs \ {j} : job'[k] = job[k]
    BY <1>12 DEF FeedFetch, StoreSame, TypeOK
  <2>2. ASSUME NEW k \in BlockJobs PROVE Carried(k)'
    <3>1. k \in Jobs /\ ObjOf[k] \in Objs /\ k # j
      BY <2>1, JobObject, LiveObjectsConstants DEF Jobs
    <3> QED BY <3>1, <2>1, <1>i, CarriedKept DEF CarriedInv
  <2>3. LoadedCandidate' = LoadedCandidate /\ OnlyJobsBlock'
    BY <2>1, <1>i DEF LoadedCandidate, OnlyJobsBlock
  <2> QED BY <1>i, <2>1, <2>2, <2>3 DEF CarriedInv
<1>13. ASSUME NEW j \in Jobs, JobWrite(j) PROVE Goal
  <2> DEFINE o == ObjOf[j]
             v == job[j].values
             new == [r \in Refs |-> IF Written(j, r)
                       THEN [heap[r] EXCEPT ![o] = v] ELSE heap[r]]
  <2>1. /\ heap' = new /\ UNCHANGED <<running, candidate>>
        /\ runFile' = new[running] /\ candFile' = new[candidate]
        /\ job[j].pc = "write"
        /\ job'[j].pc = "reapply" /\ \A k \in Jobs \ {j} : job'[k] = job[k]
        /\ must' = IF j \in FeedJobs THEN must
                   ELSE [must EXCEPT ![o] = @ \cup (v \ heap[running][o])]
    BY <1>0, <1>13 DEF JobWrite, TypeOK, NoJob
  <2>2. o \in Objs
    BY JobObject
  <2>3. /\ new[running] = [heap[running] EXCEPT ![o] = v]
        /\ new[candidate] = [heap[candidate] EXCEPT ![o] = v]
    BY <1>t DEF Written
  <2>4. \A r \in Refs, p \in Objs : p # o => new[r][p] = heap[r][p]
    BY <1>t DEF Values
  <2> HIDE DEF new
  <2>5. \A p \in Objs : p # o => must'[p] = must[p]
    BY <2>1, <1>t DEF Values
  <2>6. must'[o] \subseteq v
    <3>1. CASE j \in FeedJobs
      <4>1. \A k \in BlockJobs : ObjOf[k] # o
        BY <3>1, LiveObjectsConstants DEF OwnObject, Jobs
      <4> QED BY <3>1, <4>1, <2>1, <2>2, <1>i DEF OnlyJobsBlock
    <3>2. CASE j \notin FeedJobs
      <4>1. must[o] \subseteq v
        BY <3>2, <2>1, <1>i DEF CarriedInv, Carried, Jobs
      <4>2. must'[o] = must[o] \cup (v \ heap[running][o])
        BY <3>2, <2>1, <2>2, <1>t DEF Values
      <4> QED BY <4>1, <4>2
    <3> QED BY <3>1, <3>2
  <2>7. new[running][o] = v /\ new[candidate][o] = v
    BY <2>2, <2>3, <1>t DEF Values
  <2>8. Within(must', new[running]) /\ Within(must', new[candidate])
    BY <2>4, <2>5, <2>6, <2>7, <1>i, <1>t DEF Within
  <2>9. LoadedCandidate' \in {new[candidate], new[running]}
    BY <2>1 DEF LoadedCandidate
  <2>10. Within(must', LoadedCandidate')
    BY <2>8, <2>9
  <2>11. OnlyJobsBlock'
    <3> SUFFICES ASSUME NEW p \in Objs, \A k \in BlockJobs : ObjOf[k] # p
                 PROVE  must'[p] = {}
      BY DEF OnlyJobsBlock
    <3>1. must[p] = {}
      BY <1>i DEF OnlyJobsBlock
    <3>2. CASE j \in FeedJobs
      BY <3>1, <3>2, <2>1
    <3>3. CASE j \notin FeedJobs
      BY <3>1, <3>3, <2>5 DEF Jobs
    <3> QED BY <3>2, <3>3
  <2>12. ASSUME NEW k \in BlockJobs PROVE Carried(k)'
    <3>1. k \in Jobs /\ ObjOf[k] \in Objs /\ Carried(k)
      BY <1>i, JobObject DEF Jobs, CarriedInv
    <3>2. CASE k = j
      BY <2>1, <3>2 DEF Carried
    <3>3. CASE k # j
      <4>1. ObjOf[k] # o /\ must'[ObjOf[k]] = must[ObjOf[k]]
        BY <2>5, <3>1, <3>3 DEF OwnObject
      <4>2. ASSUME job[k].pc = "read"
            PROVE  heap'[job[k].ref][ObjOf[k]] = heap[job[k].ref][ObjOf[k]]
        <5>1. job[k].ref \in Refs
          BY <3>1, <4>2 DEF RefInv
        <5> QED BY <5>1, <2>1, <2>4, <3>1, <4>1
      <4> QED BY <2>1, <3>1, <3>3, <4>1, <4>2, CarriedKept
    <3> QED BY <3>2, <3>3
  <2> QED BY <2>1, <2>8, <2>10, <2>11, <2>12 DEF CarriedInv
<1>14. ASSUME NEW j \in Jobs, JobLoads(j) PROVE Goal
  <2>1. /\ UNCHANGED <<heap, running, candidate, runFile, candFile, must>>
        /\ job'[j] = NoJob /\ \A k \in Jobs \ {j} : job'[k] = job[k]
    BY <1>14 DEF JobLoads, StoreSame, TypeOK
  <2>2. ASSUME NEW k \in BlockJobs PROVE Carried(k)'
    <3>1. k \in Jobs /\ ObjOf[k] \in Objs
      BY JobObject DEF Jobs
    <3>2. CASE k = j
      BY <2>1, <3>2 DEF Carried, NoJob
    <3>3. CASE k # j
      BY <3>1, <3>3, <2>1, <1>i, CarriedKept DEF CarriedInv
    <3> QED BY <3>2, <3>3
  <2>3. LoadedCandidate' = LoadedCandidate /\ OnlyJobsBlock'
    BY <2>1, <1>i DEF LoadedCandidate, OnlyJobsBlock
  <2> QED BY <1>i, <2>1, <2>2, <2>3 DEF CarriedInv
<1>16. ASSUME NEW j \in Jobs, JobRenders(j) PROVE Goal
  BY <1>16, <1>u DEF JobRenders, StoreSame, JobsSame
<1>15. CASE Restart
  <2> DEFINE new == [r \in Refs |-> IF r = 2 THEN LoadedCandidate ELSE runFile]
  <2>1. /\ HeapIs(new) /\ running' = 1 /\ candidate' = 2
        /\ \A j \in Jobs : job'[j] = NoJob
        /\ UNCHANGED <<runFile, candFile, must>>
    BY <1>15 DEF Restart
  <2>2. new[1] = runFile /\ new[2] = LoadedCandidate
    BY RefsType
  <2> HIDE DEF new
  <2>3. heap'[running'] = runFile /\ heap'[candidate'] = LoadedCandidate
    BY <2>1, <2>2, <1>h, RefsType, HeapKeeps
  <2>4. LoadedCandidate' = LoadedCandidate /\ OnlyJobsBlock'
    BY <2>1, <1>i DEF LoadedCandidate, OnlyJobsBlock
  <2>5. CarriedInv'
    BY <2>1 DEF CarriedInv, Carried, NoJob, Jobs
  <2> QED BY <1>i, <2>1, <2>3, <2>4, <2>5
<1> QED BY <1>0, <1>1, <1>2, <1>3, <1>4, <1>5, <1>6, <1>7, <1>8, <1>9, <1>10, <1>11,
           <1>12, <1>13, <1>14, <1>15, <1>16 DEF Step, JobStep, HolderStep
(* What is rendered from the running configuration, or from the candidate  *)
(* while it is not replaced, has all that is blocked.                      *)
LEMMA RendersAll ==
  ASSUME TypeOK, KernelInv, Quiet, UNCHANGED <<must, job, scenario>>,
         NEW l \in Loaders, NEW r \in Refs, Render(l, r), Within(must, heap[r])
  PROVE  KernelInv'
<1>1. Quiet' = Quiet
  BY DEF Quiet, Orderly
<1>2. UNCHANGED <<kernel, overtaken, overlapped>>
  BY DEF Render
<1>3. ASSUME NEW m \in Loaders, rendered'[m] # NoFile, m \notin overtaken'
      PROVE  Within(must', rendered'[m]) \/ OtherToLoad(m)'
  <2>1. CASE m = l
    BY <2>1 DEF Render, TypeOK
  <2>2. CASE m # l
    <3>1. rendered'[m] = rendered[m]
      BY <2>2 DEF Render, TypeOK
    <3> QED BY <1>2, <1>3, <3>1 DEF KernelInv, OtherToLoad
  <2> QED BY <2>1, <2>2
<1>4. ~overlapped' => Within(must', kernel') \/ \E k \in Jobs : job'[k].pc = "reapply"
  BY <1>2 DEF KernelInv
<1> QED BY <1>3, <1>4 DEF KernelInv

(* A ruleset that none has overtaken has all that is blocked, or a job has  *)
(* yet to load; every other is overtaken by it.                            *)
LEMMA LoadsAll ==
  ASSUME TypeOK, KernelInv, Quiet, UNCHANGED <<must, scenario>>,
         NEW l \in Loaders, Load(l), \A k \in Jobs \ {l} : job'[k] = job[k]
  PROVE  KernelInv'
<1>1. /\ kernel' = rendered[l] /\ rendered[l] # NoFile
      /\ overlapped' = (l \in overtaken)
      /\ rendered' = [rendered EXCEPT ![l] = NoFile]
      /\ overtaken' = {k \in Loaders \ {l} : rendered[k] # NoFile}
  BY DEF Load
<1>2. ASSUME NEW m \in Loaders, rendered'[m] # NoFile PROVE m \in overtaken'
  <2>1. m # l
    BY <1>1, <1>2 DEF TypeOK
  <2> QED BY <1>1, <1>2, <2>1 DEF TypeOK
<1>3. ASSUME ~overlapped'
      PROVE  Within(must', kernel') \/ \E k \in Jobs : job'[k].pc = "reapply"
  <2>1. Within(must, rendered[l]) \/ OtherToLoad(l)
    BY <1>1, <1>3 DEF KernelInv
  <2> QED BY <1>1, <2>1 DEF OtherToLoad
<1> QED BY <1>2, <1>3 DEF KernelInv

(* A step that loads nothing and takes no job from its loading keeps what  *)
(* is known of the rulesets, as long as nothing more is blocked.           *)
LEMMA KernelKept ==
  ASSUME KernelInv, UNCHANGED <<nft, scenario>>,
         \A o \in Objs : must'[o] \subseteq must[o],
         \A k \in Jobs : job[k].pc = "reapply" => job'[k].pc = "reapply"
  PROVE  KernelInv'
BY DEF KernelInv, Quiet, Orderly, Within, OtherToLoad, nft

(* The ruleset has what is blocked once no job has one to load: what was   *)
(* loaded last lacks nothing, or was overtaken.                            *)
LEMMA KernelStep ==
  ASSUME TypeOK, RefInv, RenderedByBusy, BlockInv, KernelInv, Next
  PROVE  KernelInv'
<1> SUFFICES ASSUME Quiet' PROVE KernelInv'
  BY DEF KernelInv
<1> USE DEF StoreSame, JobsSame
<1>0. /\ scenario' = scenario /\ Step /\ Quiet /\ Orderly
      /\ "disk" \notin scenario /\ "nft" \notin scenario /\ "edit" \notin scenario
  BY DEF Next, Quiet, Orderly
<1>i. /\ Within(must, heap[running]) /\ Within(must, heap[candidate]) /\ Within(must, runFile)
  BY <1>0 DEF BlockInv
<1>t. /\ Holder \in Loaders /\ Jobs \subseteq Loaders /\ Holder \notin Jobs
      /\ running \in Refs /\ candidate \in Refs
  BY LiveObjectsConstants DEF Loaders, TypeOK
<1>1. CASE Fetch \/ Confirm \/ ApplyBegin \/ RollbackBegin
  BY <1>0, <1>1, KernelKept DEF Fetch, Confirm, ApplyBegin, RollbackBegin
<1>2. ASSUME NEW o \in Objs, NEW out \in SUBSET Ips, Put(o, out) PROVE KernelInv'
  <2>1. UNCHANGED <<job, nft>> /\ \A p \in Objs : must'[p] \subseteq must[p]
    BY <1>2 DEF Put, TypeOK, Values, SetCandidate
  <2> QED BY <1>0, <2>1, KernelKept
<1>3. ASSUME NEW c \in archive, FromHistory(c) PROVE KernelInv'
  BY <1>0, <1>3, KernelKept DEF FromHistory, SetCandidate
<1>4. CASE HolderRenders
  <2>1. op.kind \in {"apply", "restore", "rollback"}
    BY <1>4 DEF HolderRenders, RefInv, TypeOK
  <2>2. op.ref \in {running, candidate}
    BY <1>0, <2>1 DEF RefInv
  <2>3. op.ref \in Refs /\ Within(must, heap[op.ref])
    BY <2>2, <1>i, <1>t
  <2>4. UNCHANGED <<must, job>> /\ Render(Holder, op.ref)
    BY <1>4 DEF HolderRenders
  <2> QED BY <1>0, <1>t, <2>3, <2>4, RendersAll
<1>5. CASE ApplyEnd \/ ApplyFails \/ RestoreEnd \/ RollbackEnd
  <2>1. UNCHANGED <<must, job>> /\ Load(Holder)
    BY <1>0, <1>5 DEF ApplyEnd, ApplyFails, RestoreEnd, RollbackEnd, Refused
  <2> QED BY <1>0, <1>t, <2>1, LoadsAll
<1>6. ASSUME NEW j \in BlockJobs, NEW ip \in Ips, Alert(j, ip) PROVE KernelInv'
  BY <1>0, <1>6, KernelKept DEF Alert
<1>7. ASSUME NEW list \in Lists, Publish(list) PROVE KernelInv'
  BY <1>0, <1>7, KernelKept DEF Publish
<1>8. ASSUME NEW j \in FeedJobs, FeedFails(j) PROVE KernelInv'
  BY <1>0, <1>8, KernelKept DEF FeedFails
<1>9. ASSUME NEW j \in Jobs, JobBegin(j) \/ JobRead(j) \/ FeedFetch(j) PROVE KernelInv'
  <2>1. UNCHANGED <<must, nft>> /\ job[j].pc # "reapply"
    BY <1>9 DEF JobBegin, JobRead, FeedFetch, NoJob
  <2>2. \A k \in Jobs \ {j} : job'[k] = job[k]
    BY <1>9 DEF JobBegin, JobRead, FeedFetch, TypeOK
  <2> QED BY <1>0, <2>1, <2>2, KernelKept
<1>10. ASSUME NEW j \in Jobs, JobWrite(j) PROVE KernelInv'
  <2>1. /\ job[j].pc = "write" /\ job'[j].pc = "reapply" /\ UNCHANGED nft
        /\ \A k \in Jobs \ {j} : job'[k] = job[k]
    BY <1>0, <1>10 DEF JobWrite, NoJob, TypeOK
  <2>2. rendered[j] = NoFile
    BY <2>1 DEF RenderedByBusy
  <2>3. ASSUME NEW l \in Loaders, rendered[l] # NoFile PROVE OtherToLoad(l)'
    BY <2>1, <2>2, <2>3 DEF OtherToLoad
  <2> QED BY <2>1, <2>3 DEF KernelInv, nft
<1>11. ASSUME NEW j \in Jobs, JobRenders(j) PROVE KernelInv'
  BY <1>0, <1>11, <1>i, <1>t, RendersAll DEF JobRenders
<1>12. ASSUME NEW j \in Jobs, JobLoads(j) PROVE KernelInv'
  <2>1. Load(j) /\ UNCHANGED must /\ \A k \in Jobs \ {j} : job'[k] = job[k]
    BY <1>0, <1>12 DEF JobLoads, Refused, TypeOK
  <2> QED BY <1>0, <1>t, <2>1, LoadsAll
<1>13. CASE Restart
  <2>1. kernel' = runFile /\ must' = must /\ \A l \in Loaders : rendered'[l] = NoFile
    BY <1>13 DEF Restart
  <2> QED BY <2>1, <1>i DEF KernelInv, Within
<1> QED BY <1>0, <1>1, <1>2, <1>3, <1>4, <1>5, <1>6, <1>7, <1>8, <1>9, <1>10, <1>11,
           <1>12, <1>13 DEF Step, JobStep, HolderStep
-----------------------------------------------------------------------------
(* Nothing that the invariant speaks of changes by itself.                 *)
LEMMA StutterHolds == IInv /\ UNCHANGED vars => IInv'
<1> SUFFICES ASSUME IInv, UNCHANGED vars PROVE IInv'
  OBVIOUS
<1> USE DEF IInv, vars, system
<1>1. TypeOK'
  BY DEF TypeOK, Values
<1>2. RefInv' /\ RenderedByBusy'
  BY DEF RefInv, RenderedByBusy
<1>3. BlockInv'
  BY DEF BlockInv, Orderly, Within, CarriedInv, Carried, Copied, OnlyJobsBlock,
         LoadedCandidate
<1>4. KernelInv'
  BY KernelKept DEF nft
<1> QED BY <1>1, <1>2, <1>3, <1>4

(* TypeOK and RefInv hold whatever objects the jobs have.                  *)
LEMMA TypeInvariant == Spec => [](TypeOK /\ RefInv)
<1>1. Init => TypeOK /\ RefInv
  BY InitHolds DEF IInv
<1>2. TypeOK /\ RefInv /\ [Next]_vars => (TypeOK /\ RefInv)'
  <2>1. CASE UNCHANGED vars
    BY <2>1 DEF vars, system, TypeOK, RefInv, Values
  <2> QED BY <2>1, TypeStep, RefStep
<1> QED BY <1>1, <1>2, PTL DEF Spec

(* The inductive invariant, for jobs that have objects of their own.       *)
LEMMA InvHolds == ASSUME OwnObject PROVE Spec => []IInv
<1>1. IInv /\ [Next]_vars => IInv'
  BY StutterHolds, TypeStep, RefStep, BusyStep, BlockStep, KernelStep DEF IInv
<1> QED BY <1>1, InitHolds, PTL DEF Spec

(* The heap has well-formed configurations at every pointer, whatever the  *)
(* interleaving; no pointer is nil when it is used (store.go, engine.go).  *)
THEOREM TypeCorrect == Spec => []TypeOK
BY TypeInvariant, PTL

(* An address that IDS or VPN auto-block has blocked stays in the running  *)
(* and in the candidate configuration until an administrator takes it out, *)
(* and, once no job has a ruleset to load, in the kernel's unless the one  *)
(* loaded last was rendered before another was loaded - through applies    *)
(* that overlap the jobs, rollbacks that make the two configurations one,  *)
(* refreshes of other objects and restarts.                                *)
THEOREM BlockedStaysBlocked == ASSUME OwnObject PROVE Spec => []BlocksHold
<1>1. IInv => BlocksHold
  BY DEF IInv, BlockInv, BlocksHold, BlockedStays, KeepsBlocked, KernelInv,
         KernelBlocks, Quiet, Within
<1> QED BY <1>1, InvHolds, PTL
=============================================================================
