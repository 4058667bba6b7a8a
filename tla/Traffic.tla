------------------------------ MODULE Traffic ------------------------------
(***************************************************************************)
(* Traffic per device.  The kernel counts bytes per address in a table of  *)
(* its own (pkg/adapter/nftables/accounting.go), the collection loop of    *)
(* pkg/engine/traffic.go turns the counters into amounts and books them in *)
(* the history (Store), and books the flows that Suricata reports in the   *)
(* category store.  Both stores are saved by the same loop, which is one   *)
(* goroutine: it samples, saves and prunes, one at a time.                 *)
(*                                                                         *)
(* External: what nft and the kernel do with the table.  nft -f of a table *)
(* that exists adds its rules to the chain once more; every counting rule  *)
(* adds the bytes of a packet to the element of its address; an element    *)
(* goes away when its address has been silent for a day.                   *)
(***************************************************************************)
EXTENDS RingStore, EveReader

CONSTANTS
    Ips,            \* the devices, one in each local network
    HistRes,        \* Resolutions, by name
    CatRes,         \* catResolutions, by name
    Domains,        \* the name of the category store's last file
    FlowCategory,   \* the category that Classify gives the name of a flow
    Unknown,        \* the category of a flow whose name is not known
    MaxDomains,     \* maxDomainsPerDevice
    MaxAge,         \* trafficRetention
    MaxRules,       \* bound: counting rules of one network
    Scenarios       \* bounds of a run: the devices that send, packets, log lines,
                    \* hours, disturbances

ASSUME TrafficAssumption ==
    /\ DOMAIN Interval = HistRes \cup CatRes
    /\ Domains \notin HistRes \cup CatRes
    /\ \A f, c \in HistRes : Interval[f] < Interval[c] => Interval[c] % Interval[f] = 0
    /\ MaxDomains \in Nat /\ MaxDomains >= 2 /\ MaxRules \in Nat /\ MaxRules >= 2
    /\ MaxCount[Domains] \in Nat /\ MaxAge \in Nat
    /\ Scenarios \subseteq [devices : SUBSET Ips, packets : Nat, lines : Nat, faults : Nat, time : Nat]

(* The clock is not set back, in all, by more than the retention: it takes *)
(* a disturbance each time.                                                *)
ClockStays == \A s \in Scenarios : s.faults <= MaxAge

(* No slot of the history comes to its limit. *)
NoSlotFull == \A s \in Scenarios : \A r \in HistRes : s.packets * MaxRules <= MaxCount[r]

VARIABLES
    nets,       \* the local networks of the running configuration
    rules,      \* kernel: how many rules count each network
    bytes,      \* kernel: the elements of the set, with their counters
    coll,       \* the Collector: based, and the last reading
    hist,       \* the Store
    cats,       \* the CategoryStore
    run,        \* "loop", "stopping" (the context is cancelled) or "down"
    saving,     \* which store the loop is writing: "no", "hist", "cats"
    now,        \* the clock of the machine
    sent, counted, booked,  \* history: bytes forwarded, counted, booked
    left        \* what remains of the scenario

kernelVars == <<rules, bytes, sent, counted>>
storeVars == <<coll, hist, cats, booked>>
loopVars == <<run, saving>>
vars == <<nets, rules, bytes, coll, hist, cats, run, saving, now, sent, counted, booked, left,
          log, tail, seen, gen, reader>>

NoCounters == [ip \in {} |-> 0]
NoPrev == [based |-> FALSE, prev |-> NoCounters]
CatFiles == CatRes \cup {Domains}

-----------------------------------------------------------------------------
(* The accounting table. *)

(* ApplyAccounting: nothing without local networks. *)
AccountingAdded(local, has) ==
    [ip \in Ips |-> IF ip \in local THEN Min({has[ip] + 1, MaxRules}) ELSE has[ip]]

NoRules == [ip \in Ips |-> 0]

(* applyBackends: flush ruleset, the new ruleset, then the table. *)
TableAfterApply == rules' = AccountingAdded(nets', NoRules) /\ bytes' = NoCounters

Forward(ip) ==
    /\ ip \in left.devices /\ left.packets > 0
    /\ left' = [left EXCEPT !.packets = @ - 1]
    /\ sent' = [sent EXCEPT ![ip] = @ + 1]
    /\ counted' = [counted EXCEPT ![ip] = @ + rules[ip]]
    /\ bytes' = IF rules[ip] = 0 THEN bytes
                ELSE With(bytes, ip, (IF ip \in DOMAIN bytes THEN bytes[ip] ELSE 0) + rules[ip])
    /\ UNCHANGED <<nets, rules, storeVars, loopVars, now, eveVars>>

Disturb == left.faults > 0 /\ left' = [left EXCEPT !.faults = @ - 1]

Expire(ip) ==
    /\ Disturb /\ ip \in DOMAIN bytes
    /\ bytes' = [k \in DOMAIN bytes \ {ip} |-> bytes[k]]
    /\ UNCHANGED <<nets, rules, sent, counted, storeVars, loopVars, now, eveVars>>

(* An apply makes another configuration the running one. *)
Apply(local) ==
    /\ Disturb /\ run = "loop" /\ nets' = local
    /\ TableAfterApply
    /\ UNCHANGED <<sent, counted, storeVars, loopVars, now, eveVars>>

(* ReapplyNftablesOnly flushes the table and does not make it again. *)
ReapplyNftablesOnly ==
    /\ Disturb /\ run = "loop"
    /\ rules' = NoRules /\ bytes' = NoCounters
    /\ UNCHANGED <<nets, sent, counted, storeVars, loopVars, now, eveVars>>

-----------------------------------------------------------------------------
(* The Collector. *)

(* A counter that has gone down was reset, and all of it is new. *)
DeltaOfRepeated(cur, ip) ==
    IF ip \notin DOMAIN coll.prev \/ cur <= coll.prev[ip] THEN cur ELSE cur - coll.prev[ip]

Delta(cur, ip) ==
    IF ip \notin DOMAIN coll.prev \/ cur < coll.prev[ip] THEN cur ELSE cur - coll.prev[ip]

Positive(amounts) ==
    [k \in { x \in DOMAIN amounts : amounts[x] > 0 } |-> amounts[k]]

(* The first reading only sets the base. *)
Sampled ==
    IF coll.based THEN Positive([ip \in DOMAIN bytes |-> Delta(bytes[ip], ip)]) ELSE NoCounters

(* An empty reading is taken as a missing table, which is made (again). *)
EnsureNothing == UNCHANGED rules

EnsureAccounting == rules' = AccountingAdded(nets, rules)

SampleTraffic ==
    IF DOMAIN bytes = {}
    THEN EnsureAccounting /\ UNCHANGED <<coll, hist, booked>>
    ELSE /\ coll' = [based |-> TRUE, prev |-> bytes]
         /\ hist' = [hist EXCEPT
                       !.mem = [r \in HistRes |-> BucketAdd(@[r], r, now, Sampled)],
                       !.dirty = @ \/ DOMAIN Sampled # {}]
         /\ booked' = [ip \in Ips |->
                         booked[ip] + IF ip \in DOMAIN Sampled THEN Sampled[ip] ELSE 0]
         /\ UNCHANGED rules

-----------------------------------------------------------------------------
(* The categories. *)

HitCategory(h) == IF h.named THEN FlowCategory[h.id] ELSE Unknown

CatKey(h) == <<FlowIp[h.id], HitCategory(h)>>

HitsOf(hits, key) == Cardinality({ i \in 1 .. Len(hits) : CatKey(hits[i]) = key })

(* trimSmallest: half of the names stay, none of them smaller than one     *)
(* that goes.                                                              *)
Trims(d) ==
    IF Cardinality(DOMAIN d) < MaxDomains THEN {d}
    ELSE { [x \in keep |-> d[x]] : keep \in
             { k \in kSubset(MaxDomains \div 2, DOMAIN d) :
                 \A x \in k, y \in DOMAIN d \ k : d[x] >= d[y] } }

(* The domain list of a hit's device; the choice is that of an unstable    *)
(* sort.  The name of a flow stands for its domain.                        *)
DomainAdd(doms, h) ==
    LET ip == FlowIp[h.id]
        d == IF ip \in DOMAIN doms THEN doms[ip] ELSE NoCounters
        room == IF h.id \in DOMAIN d THEN d ELSE CHOOSE t \in Trims(d) : TRUE
        old == IF h.id \in DOMAIN room THEN room[h.id] ELSE 0
    IN  IF ~h.named THEN doms ELSE With(doms, ip, With(room, h.id, Min({old + 1, MaxCount[Domains]})))

DomainsAdded(doms, hits) ==
    LET after[n \in 0 .. Len(hits)] == IF n = 0 THEN doms ELSE DomainAdd(after[n - 1], hits[n])
    IN  after

CatsBooked(hits) ==
    LET amounts == [k \in { CatKey(hits[i]) : i \in 1 .. Len(hits) } |-> HitsOf(hits, k)]
    IN  [cats EXCEPT
           !.mem = [r \in CatFiles |->
                      IF r = Domains THEN DomainsAdded(@[r], hits)[Len(hits)]
                      ELSE BucketAdd(@[r], r, now, amounts)],
           !.dirty = @ \/ hits # <<>>]

(* The reader is made at the first round that finds local networks, and    *)
(* keeps those networks.                                                   *)
ClassifyTraffic ==
    IF reader.made
    THEN cats' = CatsBooked(Hits) /\ reader' = ReaderAfterRead
    ELSE IF nets # {} THEN reader' = NewEveReader(nets) /\ UNCHANGED cats
    ELSE UNCHANGED <<cats, reader>>

-----------------------------------------------------------------------------
(* The loop. *)

Tick ==
    /\ run = "loop" /\ saving = "no"
    /\ SampleTraffic
    /\ ClassifyTraffic
    /\ UNCHANGED <<nets, bytes, sent, counted, loopVars, now, left, logVars>>

DirtyAsBefore(kept) == hist.dirty

DirtyAfterPrune(kept) == hist.dirty \/ kept # hist.mem

Prune ==
    /\ run = "loop" /\ saving = "no"
    /\ LET kept == [r \in HistRes |-> Kept(hist.mem[r], r, now, MaxAge)]
       IN  hist' = [hist EXCEPT !.mem = kept, !.dirty = DirtyAfterPrune(kept)]
    /\ UNCHANGED <<nets, kernelVars, coll, cats, booked, loopVars, now, left, eveVars>>

(* The save timer, or the end of the loop: first the history, then the     *)
(* categories.  A store that is not dirty is not written.                  *)
SaveBegin ==
    /\ run \in {"loop", "stopping"} /\ saving = "no"
    /\ \/ hist.dirty /\ hist' = SaveBegun(hist) /\ saving' = "hist" /\ UNCHANGED cats
       \/ ~hist.dirty /\ cats.dirty /\ cats' = SaveBegun(cats) /\ saving' = "cats"
            /\ UNCHANGED hist
    /\ UNCHANGED <<nets, kernelVars, coll, booked, run, now, left, eveVars>>

(* The files in the order of a map, the domains after all of them. *)
SaveFile ==
    /\ run # "down"
    /\ \/ /\ saving = "hist" /\ UNCHANGED cats
          /\ \E r \in hist.todo : hist' = FileWritten(hist, r)
          /\ saving' = IF hist'.todo # {} THEN "hist" ELSE "no"
       \/ /\ saving = "cats" /\ UNCHANGED hist
          /\ \E r \in cats.todo :
               (r = Domains => cats.todo = {Domains}) /\ cats' = FileWritten(cats, r)
          /\ saving' = IF cats'.todo # {} THEN "cats" ELSE "no"
    /\ UNCHANGED <<nets, kernelVars, coll, booked, run, now, left, eveVars>>

SaveFails ==
    /\ Disturb /\ run # "down" /\ saving' = "no"
    /\ \/ saving = "hist" /\ hist' = SaveStopped(hist) /\ UNCHANGED cats
       \/ saving = "cats" /\ cats' = SaveStopped(cats) /\ UNCHANGED hist
    /\ UNCHANGED <<nets, kernelVars, coll, booked, run, now, eveVars>>

(* main cancels the loop and does not wait for its last save. *)
Stop ==
    /\ Disturb /\ run = "loop" /\ run' = "stopping"
    /\ UNCHANGED <<nets, kernelVars, storeVars, saving, now, eveVars>>

(* The process ends: at any point of the last save, or by a crash; with    *)
(* the machine or without.                                                 *)
Exit(reboot) ==
    /\ \/ run = "stopping" /\ UNCHANGED left
       \/ run = "loop" /\ Disturb
    /\ run' = "down" /\ saving' = "no"
    /\ IF reboot THEN rules' = NoRules /\ bytes' = NoCounters ELSE UNCHANGED <<rules, bytes>>
    /\ UNCHANGED <<nets, sent, counted, storeVars, now, eveVars>>

(* The boot apply makes the table and the start of the loop makes it once  *)
(* more; the histories are loaded, the collector and the reader are new.   *)
Start ==
    /\ run = "down" /\ run' = "loop"
    /\ rules' = AccountingAdded(nets, AccountingAdded(nets, NoRules)) /\ bytes' = NoCounters
    /\ coll' = NoPrev /\ hist' = Loaded(hist) /\ cats' = Loaded(cats)
    /\ reader' = NoReader
    /\ UNCHANGED <<nets, sent, counted, booked, saving, now, left, logVars>>

-----------------------------------------------------------------------------
(* The clock, and Suricata's log. *)

Pass ==
    /\ left.time > 0 /\ left' = [left EXCEPT !.time = @ - 1] /\ now' = now + 1
    /\ UNCHANGED <<nets, kernelVars, storeVars, loopVars, eveVars>>

ClockSetBack ==
    /\ Disturb /\ now > 0 /\ now' = now - 1
    /\ UNCHANGED <<nets, kernelVars, storeVars, loopVars, eveVars>>

Suricata ==
    /\ \/ left.lines > 0 /\ left' = [left EXCEPT !.lines = @ - 1]
            /\ \E line \in Lines : WriteLine(line)
       \/ FinishLine /\ UNCHANGED left
       \/ Disturb /\ Rotate
    /\ UNCHANGED <<nets, kernelVars, storeVars, loopVars, now>>

Init ==
    /\ left \in Scenarios
    /\ nets = Ips
    /\ rules = NoRules /\ bytes = NoCounters
    /\ coll = NoPrev
    /\ hist = EmptyStore(HistRes) /\ cats = EmptyStore(CatFiles)
    /\ run = "down" /\ saving = "no" /\ now = 0
    /\ sent = NoRules /\ counted = NoRules /\ booked = NoRules
    /\ EveInit

Next ==
    \/ \E ip \in Ips : Forward(ip) \/ Expire(ip)
    \/ \E local \in SUBSET Ips : Apply(local)
    \/ ReapplyNftablesOnly
    \/ Tick \/ Prune \/ SaveBegin \/ SaveFile \/ SaveFails
    \/ Stop \/ (\E reboot \in BOOLEAN : Exit(reboot)) \/ Start
    \/ Pass \/ ClockSetBack \/ Suricata

Spec == Init /\ [][Next]_vars

(* The ticker fires as long as the process runs, so a round that finds no  *)
(* counter comes (the one kind of round the property needs); the files of  *)
(* a save get written or the save fails; a process that is stopping ends,  *)
(* and systemd starts one that has ended.                                  *)
EmptyRound ==
    run = "loop" /\ saving = "no" /\ DOMAIN bytes = {} /\ EnsureAccounting

FairSpec ==
    /\ Spec
    /\ WF_rules(EmptyRound)
    /\ WF_vars(SaveFile)
    /\ WF_vars(\E reboot \in BOOLEAN : run = "stopping" /\ Exit(reboot))
    /\ WF_vars(Start)

-----------------------------------------------------------------------------
(* Types of the two stores, the collector and the table. *)
TypeOK ==
    /\ nets \subseteq Ips
    /\ \A ip \in Ips : rules[ip] \in 0 .. MaxRules
    /\ DOMAIN bytes \subseteq Ips /\ DOMAIN coll.prev \subseteq Ips
    /\ \A r \in HistRes : \A ip \in DOMAIN hist.mem[r] : ip \in Ips /\ SeriesType(hist.mem[r][ip], r)
    /\ \A r \in CatRes : \A k \in DOMAIN cats.mem[r] : SeriesType(cats.mem[r][k], r)
    /\ \A ip \in DOMAIN cats.mem[Domains] :
         Cardinality(DOMAIN cats.mem[Domains][ip]) <= MaxDomains
    /\ hist.todo \subseteq HistRes /\ cats.todo \subseteq CatFiles
    /\ run \in {"loop", "stopping", "down"} /\ saving \in {"no", "hist", "cats"}
    /\ EveTypeOK

(* Whatever resets the counters (a flush, an element that expires, a new    *)
(* table, a restart of the agent or of the machine), in any order with the *)
(* readings, the agent never books more bytes for a device than the kernel *)
(* counted for it.                                                         *)
NothingInvented == \A ip \in Ips : booked[ip] <= counted[ip]

(* What a history shows for a slot is what was booked in it: no value of   *)
(* an earlier lap of the ring, across gaps, clock changes, prunes and      *)
(* restarts, in either store.                                              *)
HistoryIsTrue ==
    /\ \A r \in HistRes : \A ip \in DOMAIN hist.mem[r] : TrueHistory(hist.mem[r][ip], r)
    /\ \A r \in CatRes : \A k \in DOMAIN cats.mem[r] : TrueHistory(cats.mem[r][k], r)

(* The resolutions of one device tell the same story: a coarse slot has at *)
(* least what the fine slots inside it have, unless a process once started *)
(* from the files of a save that was broken off.                           *)
CoarseCoversFine ==
    ~hist.torn =>
    \A f, c \in HistRes : Interval[f] < Interval[c] =>
      \A ip \in DOMAIN hist.mem[f] :
        /\ ip \in DOMAIN hist.mem[c]
        /\ LET fine == PointsSince(hist.mem[f][ip], f, Points[f])
               coarse == PointsSince(hist.mem[c][ip], c, Points[c])
               inside(k) == { j \in DOMAIN fine : (j * Interval[f]) \div Interval[c] = k }
           IN  \A k \in DOMAIN coarse :
                 Total([j \in inside(k) |-> fine[j]]) <= coarse[k]

(* A store that is not dirty has its contents on disk, unless its last     *)
(* save was broken off.                                                    *)
CleanMeansSaved ==
    \A st \in {hist, cats} : run # "down" /\ ~st.dirty /\ ~st.partial => st.mem = st.file

(* Every flow of a local device in the part of the log that has been read  *)
(* was reported exactly once by this reader, and none beyond it, as long   *)
(* as no reading met a line without its newline and none passed over part  *)
(* of the log.                                                             *)
FlowsReportedOnce ==
    reader.made /\ reader.gen = gen /\ ~reader.cut /\ ~reader.skipped =>
    \A i \in 1 .. Len(log) :
      log[i].kind = "flow" /\ FlowIp[log[i].id] \in reader.nets =>
        reader.times[log[i].id] = IF LineUnits * i <= reader.offset THEN 1 ELSE 0

(* Nothing is reported twice: neither the kernel's counters nor the log.   *)
CountedOnce == NothingInvented /\ FlowsReportedOnce

(* What the GUI draws happened, at every zoom.                             *)
HistoriesAreTrue == HistoryIsTrue /\ CoarseCoversFine

(* The measuring comes back by itself: a flush that took the table with it *)
(* is repaired for good, as long as there is a network to measure.         *)
MeasuringResumes ==
    <>[](run = "loop" /\ nets # {} => \E ip \in Ips : rules[ip] > 0)

-----------------------------------------------------------------------------
(* What the comments say and the code does not do (README, section 8). *)

(* accounting.go:88: the counters are an address's bytes since the table   *)
(* was made.  The start of the loop, and an empty reading of a table that  *)
(* exists, add the counting rules a second time.                           *)
StoredWasSent == \A ip \in Ips : booked[ip] <= sent[ip]

(* eve.go:89 and traffic.go:46 of pkg/engine: what was read before is not  *)
(* read again.  A new process starts at the top of the log.                *)
CategoryBytes(r) ==
    Total([k \in DOMAIN cats.mem[r] |-> Total(cats.mem[r][k].log)])

FlowsBookedOnce ==
    \A r \in CatRes : CategoryBytes(r) <= Cardinality({ l \in seen : l.kind = "flow" })

(* main.go:261: the loop saves the history before the agent goes down.     *)
StopSaves == [][run = "stopping" /\ run' = "down" => ~hist.dirty /\ ~hist.partial]_vars

(* traffic.go:288 of pkg/engine: totals of the chosen window.  The ring is *)
(* summed whole, also that of a device that has been silent since.         *)
TotalsOfTheWindow ==
    \A r \in HistRes : \A ip \in DOMAIN hist.mem[r] :
      hist.mem[r][ip].last <= Slot(r, now) - Points[r] => SeriesTotal(hist.mem[r][ip]) = 0

=============================================================================
