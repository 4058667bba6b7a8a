--------------------------- MODULE RuleSelection ---------------------------
(***************************************************************************)
(* Which IDS rules are switched off.  A request switches one rule (or      *)
(* category) off or on; the new list is stored in the running and in the   *)
(* candidate configuration, written to disable.conf, and made effective by *)
(* a unit that runs suricata-update; a daily timer runs the same unit      *)
(* (postIDSRules of pkg/api/server.go, UpdateIDSRuleSelection of           *)
(* pkg/engine and pkg/store, pkg/adapter/suricata/rules.go).  No lock      *)
(* spans the steps of a handler; any of them may fail, and with the agent  *)
(* every handler ends.                                                     *)
(*                                                                         *)
(* External: the unit is a oneshot service, which reads disable.conf when  *)
(* it begins and writes the rules when it ends; starting one that runs     *)
(* starts nothing.                                                         *)
(***************************************************************************)
EXTENDS Naturals, FiniteSets

CONSTANTS
    Handlers,   \* calls of the rules API
    Rules       \* the signatures one can silence (categories go the same way)

VARIABLES
    selection,      \* running: DisabledSignatures and DisabledCategories
    candSelection,  \* the same of the candidate
    onDisk,         \* the same in running.json and candidate.json
    page,           \* the selection in the configuration a client has loaded
    disableConf,    \* disable.conf
    calls,          \* the running handlers: their step and the list they carry
    update,         \* the unit: "off", "starting", "reading"
    updateReads,    \* the disable.conf this run of the unit has read
    offRules,       \* the rules that are off in what Suricata loaded
    asked,          \* history: the rules that the stored requests switched off
    crossed,        \* history: two handlers have overlapped
    replaced,       \* history: a commit, or a load of the files, has changed the selection
    unwritten       \* history: the last selection stored was not written to disable.conf

selections == <<selection, candSelection, onDisk>>
unitVars == <<update, updateReads, offRules>>
ruleHistory == <<asked, crossed, replaced, unwritten>>
ruleVars == <<selections, page, disableConf, calls, unitVars, ruleHistory>>

NoCall == [step |-> "none", rule |-> {}, list |-> {}]
Idle == \A h \in Handlers : calls[h] = NoCall

RulesInit ==
    /\ selection = {} /\ candSelection = {} /\ page = {}
    /\ onDisk = [running |-> {}, candidate |-> {}]
    /\ disableConf = {} /\ offRules = {}
    /\ calls = [h \in Handlers |-> NoCall]
    /\ update = "off" /\ updateReads = {}
    /\ asked = {} /\ crossed = FALSE /\ replaced = FALSE /\ unwritten = FALSE

Switched(list, r, off) == IF off THEN list \cup {r} ELSE list \ {r}

(* postIDSRules: the change is made to a copy of the running list. *)
Ask(h, r, off) ==
    /\ calls[h] = NoCall
    /\ calls' = [calls EXCEPT ![h] = [step |-> "asked", rule |-> {r},
                                     list |-> Switched(selection, r, off)]]
    /\ crossed' = (crossed \/ ~Idle)
    /\ UNCHANGED <<selections, page, disableConf, unitVars, asked, replaced, unwritten>>

(* Store.UpdateIDSRuleSelection: the whole list, in both configurations and *)
(* then in their files.                                                    *)
StoreList(h, files) ==
    /\ calls[h].step = "asked"
    /\ selection' = calls[h].list /\ candSelection' = calls[h].list
    /\ onDisk' = [f \in DOMAIN onDisk |-> IF f \in files THEN calls[h].list ELSE onDisk[f]]
    /\ asked' = (asked \ calls[h].rule) \cup (calls[h].rule \cap calls[h].list)
    /\ UNCHANGED <<page, disableConf, unitVars, crossed, replaced>>

Stored(h) ==
    /\ StoreList(h, {"running", "candidate"})
    /\ calls' = [calls EXCEPT ![h].step = "stored"] /\ UNCHANGED unwritten

(* A handler that fails before disable.conf is written. *)
GivenUp(h) == calls' = [calls EXCEPT ![h] = NoCall] /\ unwritten' = TRUE

(* running.json comes first, and nothing is taken back in memory. *)
StoreFails(h) == GivenUp(h) /\ \E files \in {{}, {"running"}} : StoreList(h, files)

(* GenerateDisableConf, of the running configuration at this moment. *)
Render(h) ==
    /\ calls[h].step = "stored"
    /\ calls' = [calls EXCEPT ![h].step = "rendered", ![h].list = selection]
    /\ UNCHANGED <<selections, page, disableConf, unitVars, ruleHistory>>

(* WriteDisableConf. *)
WriteNothing(h) == UNCHANGED disableConf

WriteDisableConf(h) == disableConf' = calls[h].list

Written(h) ==
    /\ calls[h].step = "rendered"
    /\ WriteDisableConf(h)
    /\ calls' = [calls EXCEPT ![h].step = "written"] /\ unwritten' = FALSE
    /\ UNCHANGED <<selections, page, unitVars, asked, crossed, replaced>>

WriteFails(h) ==
    /\ calls[h].step = "rendered" /\ GivenUp(h)
    /\ UNCHANGED <<selections, page, disableConf, unitVars, asked, crossed, replaced>>

(* systemctl start --no-block, which may be refused.                       *)
StartUpdate == update' = IF update = "off" THEN "starting" ELSE update

EndOfCall(h) ==
    /\ calls[h].step = "written" /\ calls' = [calls EXCEPT ![h] = NoCall]
    /\ UNCHANGED <<selections, page, disableConf, updateReads, offRules, ruleHistory>>

Started(h) == EndOfCall(h) /\ StartUpdate

StartFails(h) == EndOfCall(h) /\ UNCHANGED update

DailyTimer ==
    /\ update = "off" /\ StartUpdate
    /\ UNCHANGED <<selections, page, disableConf, calls, updateReads, offRules, ruleHistory>>

UpdateReads ==
    /\ update = "starting" /\ update' = "reading" /\ updateReads' = disableConf
    /\ UNCHANGED <<selections, page, disableConf, calls, offRules, ruleHistory>>

(* The rules are written and Suricata loads them, or nothing happens. *)
UpdateEnds(well) ==
    /\ update = "reading" /\ update' = "off"
    /\ offRules' = IF well THEN updateReads ELSE offRules
    /\ UNCHANGED <<selections, page, disableConf, calls, updateReads, ruleHistory>>

(* A client loads the candidate ... *)
LoadCandidate ==
    /\ page # candSelection /\ page' = candSelection
    /\ UNCHANGED <<selections, disableConf, calls, unitVars, ruleHistory>>

(* ... and puts it back: preserveIDSRuleSelection repairs an empty one. *)
PreserveIDSRuleSelection(incoming) == IF incoming = {} THEN selection ELSE incoming

PutCandidate ==
    /\ candSelection' = PreserveIDSRuleSelection(page)
    /\ candSelection' # candSelection
    /\ onDisk' = [onDisk EXCEPT !.candidate = candSelection']
    /\ UNCHANGED <<selection, page, disableConf, calls, unitVars, ruleHistory>>

(* The candidate is applied and confirmed: nothing writes disable.conf. *)
CommitSelection ==
    /\ selection # candSelection /\ selection' = candSelection
    /\ onDisk' = [onDisk EXCEPT !.running = candSelection]
    /\ replaced' = TRUE
    /\ UNCHANGED <<candSelection, page, disableConf, calls, unitVars, asked, crossed, unwritten>>

(* The agent ends, and its handlers; with the machine the unit ends too.   *)
CallsEnd(reboot) ==
    /\ calls' = [h \in Handlers |-> NoCall]
    /\ unwritten' = (unwritten \/ \E h \in Handlers : calls[h].step \in {"stored", "rendered"})
    /\ update' = IF reboot THEN "off" ELSE update
    /\ UNCHANGED <<selections, page, disableConf, updateReads, offRules, asked, crossed, replaced>>

(* The store is loaded: ensureDisabledRulesPreserved takes an empty         *)
(* selection from disable.conf; one of the candidate that is still empty is *)
(* the running one.                                                        *)
EnsureDisabledRulesPreserved(list) == IF list = {} THEN disableConf ELSE list

LoadSelection ==
    LET ours == EnsureDisabledRulesPreserved(onDisk.running)
        cand == EnsureDisabledRulesPreserved(onDisk.candidate)
    IN  /\ selection' = ours /\ candSelection' = IF cand = {} THEN ours ELSE cand
        /\ onDisk' = [running |-> ours, candidate |-> candSelection']
        /\ replaced' = (replaced \/ ours # selection)
        /\ UNCHANGED <<page, disableConf, calls, unitVars, asked, crossed, unwritten>>

RuleSteps ==
    \/ \E h \in Handlers : Stored(h) \/ Render(h) \/ Written(h) \/ Started(h)
    \/ UpdateReads \/ UpdateEnds(TRUE)

RuleFailures ==
    \/ \E h \in Handlers : StoreFails(h) \/ WriteFails(h) \/ StartFails(h)
    \/ UpdateEnds(FALSE)

RulesTypeOK ==
    /\ {selection, candSelection, page, disableConf, updateReads, offRules, asked} \subseteq SUBSET Rules
    /\ onDisk \in [running : SUBSET Rules, candidate : SUBSET Rules]
    /\ \A h \in Handlers : calls[h].step \in {"none", "asked", "stored", "rendered", "written"}
                           /\ calls[h].list \subseteq Rules
    /\ update \in {"off", "starting", "reading"} /\ {crossed, replaced, unwritten} \subseteq BOOLEAN

=============================================================================
