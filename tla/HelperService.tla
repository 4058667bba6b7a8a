--------------------------- MODULE HelperService ---------------------------
(***************************************************************************)
(* A privileged helper: the agent writes a request file, has systemd start *)
(* a oneshot unit as root and wait for it, and reads the result file the   *)
(* runner wrote.  Three units are driven this way:                         *)
(*   "network"  ApplyPersistent (pkg/adapter/network/helper.go) and        *)
(*              cmd/security-harbor-network-runner;                        *)
(*   "scan"     nmap and tcpdump (pkg/api/server.go, their cmd/ runners),  *)
(*              which leave the request in place.                          *)
(* systemd is modelled from how the code uses it: one unit, one run at a   *)
(* time; starting it while it runs joins that run; killing systemctl does  *)
(* not stop it; TimeoutStartSec does.  The agent's RuntimeDirectory goes   *)
(* away with the agent, and both files with it.  A file is read and        *)
(* written in one step here.                                               *)
(***************************************************************************)
EXTENDS Naturals

CONSTANTS
  Calls,            \* calls of the helper: each one goroutine, with its own request
  HelperScenarios,  \* records of the calls that may give up and of what may fail
  Error,            \* stands for a result that reports an error
  None              \* no file, no call

(* "restart": the agent is restarted; "hang": a run exceeds                *)
(* TimeoutStartSec; "disk": a result cannot be written.                    *)
Faults == {"restart", "hang", "disk"}

ASSUME HelperConstants ==
  /\ HelperScenarios \subseteq [hasty : SUBSET Calls, faults : SUBSET Faults]
  /\ Error # None /\ {Error, None} \cap Calls = {}

VARIABLES
  scenario, helper,  \* chosen at the start; never change
  agent,             \* the agent's process
  pc,                \* where each call is
  expired,           \* calls whose context has ended
  holder,            \* the call that holds the helper's mutex
  request, result,   \* the two files: whose request, the answer to whose
  unit,              \* where the run of the unit is
  status,            \* how the last run ended
  doing,             \* the request that run has read
  executed,          \* how often each request has been carried out
  got                \* the answer each call has returned

helperVars == <<scenario, helper, agent, pc, expired, holder, request, result, unit,
                status, doing, executed, got>>

Places == {"idle", "waiting", "cleared", "requested", "joined",
           "answered", "failed", "lost"}
Returned == {"answered", "failed", "lost"}

HelperTypeOK ==
  /\ scenario \in HelperScenarios /\ helper \in {"network", "scan"}
  /\ agent \in {"up", "down", "back"}
  /\ pc \in [Calls -> Places] /\ expired \subseteq scenario.hasty
  /\ holder \in Calls \cup {None}
  /\ request \in Calls \cup {None} /\ result \in Calls \cup {Error, None}
  /\ unit \in {"off", "reading", "working", "hung", "answering", "removing"}
  /\ status \in {"ok", "failed"} /\ doing \in Calls \cup {Error, None}
  /\ executed \in [Calls -> Nat] /\ got \in [Calls -> Calls \cup {None}]

HelperInit ==
  /\ scenario \in HelperScenarios /\ helper \in {"network", "scan"}
  /\ agent = "up" /\ pc = [c \in Calls |-> "idle"] /\ expired = {}
  /\ holder = None /\ request = None /\ result = None
  /\ unit = "off" /\ status = "ok" /\ doing = None
  /\ executed = [c \in Calls |-> 0] /\ got = [c \in Calls |-> None]

Fault(f) == f \in scenario.faults
Fixed == UNCHANGED <<scenario, helper>>
GoTo(c, place) == pc' = [pc EXCEPT ![c] = place]

-----------------------------------------------------------------------------
(* A call.  The mutex is taken whether or not the context has ended, and   *)
(* given back by every return.                                             *)
AgentRuns == agent # "down"

AgentOnly == /\ Fixed
             /\ UNCHANGED <<agent, unit, status, doing, executed>>

Call(c) ==
  /\ AgentRuns /\ pc[c] = "idle" /\ GoTo(c, "waiting")
  /\ AgentOnly /\ UNCHANGED <<expired, holder, request, result, got>>

NoMutex == TRUE
MutexIsFree == holder = None
OldResultStays == result
ResultCleared == None

LockAndClear(c) ==
  /\ pc[c] = "waiting" /\ MutexIsFree
  /\ holder' = c /\ result' = ResultCleared /\ GoTo(c, "cleared")
  /\ AgentOnly /\ UNCHANGED <<expired, request, got>>

WriteRequest(c) ==
  /\ pc[c] = "cleared" /\ request' = c /\ GoTo(c, "requested")
  /\ AgentOnly /\ UNCHANGED <<expired, holder, result, got>>

(* systemctl start --wait: a new run, or the one that is going on.         *)
StartUnit(c) ==
  /\ pc[c] = "requested" /\ c \notin expired /\ GoTo(c, "joined")
  /\ IF unit = "off" THEN unit' = "reading" /\ doing' = None
                     ELSE UNCHANGED <<unit, doing>>
  /\ Fixed
  /\ UNCHANGED <<agent, expired, holder, request, result, status, executed,
                 got>>

Fail(c) ==
  /\ GoTo(c, "failed") /\ holder' = None
  /\ AgentOnly /\ UNCHANGED <<expired, request, result, got>>

AnyMayExpire(c) == TRUE
MayExpire(c) == c \in scenario.hasty

(* The context ends: the client went away, or 35 s, 13 s, 5 min are over.  *)
Expire(c) ==
  /\ MayExpire(c) /\ c \notin expired
  /\ pc[c] \in {"waiting", "cleared", "requested", "joined"}
  /\ expired' = expired \cup {c}
  /\ AgentOnly /\ UNCHANGED <<pc, holder, request, result, got>>

GiveUp(c) == c \in expired /\ pc[c] \in {"requested", "joined"} /\ Fail(c)

(* The run that was joined has ended: systemctl reports how, the result    *)
(* file says what.                                                         *)
RunEnded(c) == pc[c] = "joined" /\ unit = "off"

ReturnError(c) ==
  RunEnded(c) /\ (status = "failed" \/ result \in {Error, None}) /\ Fail(c)

ReturnAnswer(c) ==
  /\ RunEnded(c) /\ status = "ok" /\ result \in Calls
  /\ got' = [got EXCEPT ![c] = result]
  /\ GoTo(c, "answered") /\ holder' = None
  /\ AgentOnly /\ UNCHANGED <<expired, request, result>>

-----------------------------------------------------------------------------
(* The run: read the request, carry it out, write the result; the network  *)
(* runner then removes the request.                                        *)
RunnerOnly == /\ Fixed
              /\ UNCHANGED <<agent, pc, expired, holder, got>>

ReadRequest ==
  /\ unit = "reading"
  /\ IF request = None THEN unit' = "answering" /\ doing' = Error
                       ELSE unit' = "working" /\ doing' = request
  /\ RunnerOnly /\ UNCHANGED <<request, result, status, executed>>

(* Its own time limit, 75 s or 4 min, ends it with an error too.           *)
CarryOut ==
  /\ unit = "working" /\ unit' = "answering"
  /\ \/ executed' = [executed EXCEPT ![doing] = @ + 1] /\ UNCHANGED doing
     \/ doing' = Error /\ UNCHANGED executed
  /\ RunnerOnly /\ UNCHANGED <<request, result, status>>

Hang ==
  /\ Fault("hang") /\ unit = "working" /\ unit' = "hung"
  /\ RunnerOnly /\ UNCHANGED <<request, result, status, doing, executed>>

EndRun(how) == unit' = "off" /\ status' = how /\ doing' = None

WriteResult ==
  /\ unit = "answering" /\ AgentRuns /\ result' = doing
  /\ IF helper = "network"
     THEN unit' = "removing" /\ UNCHANGED <<status, doing>>
     ELSE EndRun("ok")
  /\ RunnerOnly /\ UNCHANGED <<request, executed>>

(* Only the network runner makes its exit status tell.                     *)
CannotWriteResult ==
  /\ unit = "answering" /\ (agent = "down" \/ Fault("disk"))
  /\ EndRun(IF helper = "network" THEN "failed" ELSE "ok")
  /\ RunnerOnly /\ UNCHANGED <<request, result, executed>>

RequestStays == request
RequestUsedUp == None

RemoveRequest ==
  /\ unit = "removing" /\ request' = RequestUsedUp /\ EndRun("ok")
  /\ RunnerOnly /\ UNCHANGED <<result, executed>>

NoTimeLimit == FALSE
TimeLimit == unit # "off"

TimeoutStart ==
  /\ Fault("hang") /\ TimeLimit /\ EndRun("failed")
  /\ RunnerOnly /\ UNCHANGED <<request, result, executed>>

-----------------------------------------------------------------------------
(* The agent ends, and systemctl with it; the unit does not.               *)
AgentStops ==
  /\ Fault("restart") /\ agent = "up" /\ agent' = "down"
  /\ pc' = [c \in Calls |-> IF pc[c] = "idle" \/ pc[c] \in Returned
                            THEN pc[c] ELSE "lost"]
  /\ holder' = None /\ request' = None /\ result' = None
  /\ Fixed /\ UNCHANGED <<expired, unit, status, doing, executed, got>>

AgentStarts ==
  /\ agent = "down" /\ agent' = "back" /\ Fixed
  /\ UNCHANGED <<pc, expired, holder, request, result, unit, status, doing,
                 executed, got>>

CallStep(c) ==
  \/ LockAndClear(c) \/ WriteRequest(c) \/ StartUnit(c) \/ GiveUp(c)
  \/ ReturnError(c) \/ ReturnAnswer(c)

RunnerStep ==
  ReadRequest \/ CarryOut \/ WriteResult \/ CannotWriteResult \/ RemoveRequest

HelperNext ==
  \/ \E c \in Calls : Call(c) \/ CallStep(c) \/ Expire(c)
  \/ RunnerStep \/ Hang \/ TimeoutStart
  \/ AgentStops \/ AgentStarts

(* The goroutines and the runner keep going, systemd kills a run that      *)
(* hangs and restarts the agent (Restart=always).  Nothing makes a client  *)
(* call or give up.                                                        *)
HelperSpec == HelperInit /\ [][HelperNext]_helperVars

HelperFairSpec ==
  /\ HelperSpec
  /\ \A c \in Calls : WF_helperVars(CallStep(c))
  /\ WF_helperVars(RunnerStep) /\ WF_helperVars(TimeoutStart /\ unit = "hung")
  /\ WF_helperVars(AgentStarts)

-----------------------------------------------------------------------------
Patient == scenario.hasty = {} /\ ~Fault("restart")

(* Where no call gives up and the agent keeps running, a call that returns *)
(* success has had its own request carried out, and returns the answer to  *)
(* it: the mutex keeps calls from getting each other's.                    *)
OwnAnswer ==
  Patient =>
    \A c \in Calls : pc[c] = "answered" => got[c] = c /\ executed[c] = 1

(* Whatever happens, an answer is used once: one that reaches another call *)
(* than it is for was never returned to its own, and no two calls return   *)
(* the same one (the old result is removed first).                         *)
AnswerUsedOnce ==
  \A c, d \in Calls : got[c] # None /\ c # d =>
    /\ got[c] # got[d]
    /\ got[c] = d => pc[d] \in {"failed", "lost"}

(* The answers a call returns are those to its own request.                *)
AnswersAreOwn == OwnAnswer /\ AnswerUsedOnce

(* The network runner uses a request up: as long as it can finish a run,   *)
(* none is carried out a second time by a later start, whoever gave up or  *)
(* died in between.                                                        *)
CarriedOutOnce ==
  helper = "network" /\ scenario.faults \subseteq {"restart"} =>
    \A c \in Calls : executed[c] <= 1

(* No call waits for ever: not on the mutex behind a call whose client has *)
(* gone away, and not on a unit that hangs in "activating".                *)
EveryCallReturns ==
  \A c \in Calls : pc[c] = "waiting" ~> pc[c] \in Returned

-----------------------------------------------------------------------------
(* A promise of the comments that the code does not keep: no call gets the *)
(* answer to another one's request.  A call that gives up leaves its run   *)
(* going; the next one joins it, takes its result for its own, and has its *)
(* own request removed unread.                                             *)
NobodyElsesAnswer == \A c \in Calls : got[c] \in {None, c}
=============================================================================
