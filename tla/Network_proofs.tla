--------------------------- MODULE Network_proofs ---------------------------
(***************************************************************************)
(* Proofs about the network of the machine (pkg/adapter/network): the      *)
(* privileged helper, for any set of calls and any of the faults           *)
(* (HelperService), and the cards, for any cards, interfaces, addresses    *)
(* and configurations, any number of applications, failures, drifts,       *)
(* restarts and boots (Interfaces).                                        *)
(***************************************************************************)
EXTENDS HelperService, Interfaces, TLAPS

Active == {"cleared", "requested", "joined"}
NotAnswered == {"failed", "lost"}

(* Who is past the mutex holds it, and the request is then its own, if it  *)
(* is there.                                                               *)
MutexInv ==
  /\ \A c \in Calls : pc[c] \in Active <=> holder = c
  /\ \A c \in Calls : pc[c] \in {"requested", "joined"} => request \in {c, None}

(* The answer to d may still reach a call.                                 *)
Obtainable(d) ==
  \/ unit # "off" /\ doing = d
  \/ unit = "reading" /\ request = d
  \/ holder # None /\ result = d

AnswerInv ==
  /\ \A d \in Calls : Obtainable(d) =>
       (\A c \in Calls : got[c] # d) /\ (holder = d \/ pc[d] \in NotAnswered)
  /\ \A c, d \in Calls : got[c] = d =>
       pc[c] = "answered" /\ (c = d \/ pc[d] \in NotAnswered)
  /\ \A c, d \in Calls : got[c] # None /\ got[c] = got[d] => c = d

(* Where nobody gives up, the run belongs to the call that holds the mutex.*)
PatientInv ==
  /\ expired = {} /\ agent = "up"
  /\ \A c \in Calls : pc[c] \in {"idle", "waiting", "cleared", "requested"} =>
                        executed[c] = 0
  /\ \A c \in Calls : pc[c] = "answered" => got[c] = c /\ executed[c] = 1
  /\ \A c \in Calls : pc[c] \in {"cleared", "requested"} =>
                        unit = "off" /\ result = None
  /\ \A c \in Calls : pc[c] = "requested" => request = c
  /\ \A c \in Calls : pc[c] = "joined" =>
       /\ unit \in {"reading", "working", "hung"} =>
            request = c /\ executed[c] = 0
       /\ unit \in {"working", "hung"} => doing = c
       /\ unit \in {"answering", "removing"} => doing \in {c, Error}
       /\ unit = "answering" /\ doing = c => executed[c] = 1
       /\ unit \in {"reading", "working", "hung", "answering"} => result = None
       /\ unit \in {"off", "removing"} =>
            result \in {c, Error, None} /\ (result = c => executed[c] = 1)
  /\ unit # "off" => holder # None /\ pc[holder] = "joined"

(* Where nothing but the agent's restart goes wrong, the network runner    *)
(* meets a request that was carried out only between carrying it out and   *)
(* removing it, and only a call that has not asked yet writes one.         *)
OnlyRestarts == helper = "network" /\ scenario.faults \subseteq {"restart"}

OnceInv ==
  /\ agent = "down" =>
       request = None /\ \A c \in Calls : pc[c] \in {"idle"} \cup Returned
  /\ unit # "hung" /\ (unit = "working" => doing \in Calls)
  /\ \A c \in Calls : executed[c] <= 1
  /\ \A c \in Calls : pc[c] \in {"idle", "waiting", "cleared"} =>
                        executed[c] = 0 /\ request # c /\ doing # c
  /\ \A c \in Calls : unit = "working" /\ doing = c => executed[c] = 0
  /\ \A c \in Calls : unit \notin {"answering", "removing"} /\ request = c =>
                        executed[c] = 0

HelperInv ==
  /\ HelperTypeOK /\ MutexInv /\ AnswerInv
  /\ Patient => PatientInv
  /\ OnlyRestarts => OnceInv

-----------------------------------------------------------------------------
(* Every run starts in the invariant.                                      *)
LEMMA HelperInvInit == HelperInit => HelperInv
  BY HelperConstants DEF HelperInit, HelperInv, HelperTypeOK, MutexInv, AnswerInv, Obtainable,
     PatientInv, Patient, Fault, Places, Active, NotAnswered, OnlyRestarts, OnceInv

(* Every step keeps the types.                                              *)
LEMMA StepKeepsType ==
  ASSUME HelperTypeOK, [HelperNext]_helperVars PROVE HelperTypeOK'
<1>1. ASSUME NEW k \in Calls, Call(k) PROVE HelperTypeOK'
  BY <1>1, HelperConstants
     DEF HelperTypeOK, Places, Call, AgentOnly, AgentRuns, Fixed, GoTo
<1>2. ASSUME NEW k \in Calls, LockAndClear(k) PROVE HelperTypeOK'
  BY <1>2, HelperConstants
     DEF HelperTypeOK, Places, LockAndClear, MutexIsFree, ResultCleared, AgentOnly,
         Fixed, GoTo
<1>3. ASSUME NEW k \in Calls, WriteRequest(k) PROVE HelperTypeOK'
  BY <1>3, HelperConstants
     DEF HelperTypeOK, Places, WriteRequest, AgentOnly, Fixed, GoTo
<1>4. ASSUME NEW k \in Calls, StartUnit(k) PROVE HelperTypeOK'
  BY <1>4, HelperConstants DEF HelperTypeOK, Places, StartUnit, Fixed, GoTo
<1>5. ASSUME NEW k \in Calls, GiveUp(k) PROVE HelperTypeOK'
  BY <1>5, HelperConstants
     DEF HelperTypeOK, Places, GiveUp, Fail, AgentOnly, Fixed, GoTo
<1>6. ASSUME NEW k \in Calls, ReturnError(k) PROVE HelperTypeOK'
  BY <1>6, HelperConstants
     DEF HelperTypeOK, Places, ReturnError, RunEnded, Fail, AgentOnly, Fixed, GoTo
<1>7. ASSUME NEW k \in Calls, ReturnAnswer(k) PROVE HelperTypeOK'
  BY <1>7, HelperConstants
     DEF HelperTypeOK, Places, ReturnAnswer, RunEnded, AgentOnly, Fixed, GoTo
<1>8. ASSUME NEW k \in Calls, Expire(k) PROVE HelperTypeOK'
  BY <1>8, HelperConstants
     DEF HelperTypeOK, Places, Expire, MayExpire, AgentOnly, Fixed
<1>9. CASE ReadRequest
  BY <1>9, HelperConstants DEF HelperTypeOK, Places, ReadRequest, RunnerOnly, Fixed
<1>10. CASE CarryOut
  BY <1>10, HelperConstants DEF HelperTypeOK, Places, CarryOut, RunnerOnly, Fixed
<1>11. CASE WriteResult
  BY <1>11, HelperConstants
     DEF HelperTypeOK, Places, WriteResult, RunnerOnly, EndRun, AgentRuns, Fixed
<1>12. CASE CannotWriteResult
  BY <1>12, HelperConstants
     DEF HelperTypeOK, Places, CannotWriteResult, RunnerOnly, EndRun, Fixed, Fault
<1>13. CASE RemoveRequest
  BY <1>13, HelperConstants
     DEF HelperTypeOK, Places, RemoveRequest, RequestUsedUp, RunnerOnly, EndRun,
         Fixed
<1>14. CASE Hang
  BY <1>14, HelperConstants
     DEF HelperTypeOK, Places, Hang, RunnerOnly, Fixed, Fault
<1>15. CASE TimeoutStart
  BY <1>15, HelperConstants
     DEF HelperTypeOK, Places, TimeoutStart, TimeLimit, RunnerOnly, EndRun, Fixed,
         Fault
<1>16. CASE AgentStops
  BY <1>16, HelperConstants
     DEF HelperTypeOK, Places, AgentStops, Returned, Fixed, Fault
<1>17. CASE AgentStarts
  BY <1>17, HelperConstants DEF HelperTypeOK, Places, AgentStarts, Fixed
<1>18. CASE UNCHANGED helperVars
  BY <1>18 DEF HelperTypeOK, Places, helperVars
<1> QED
  BY <1>1, <1>2, <1>3, <1>4, <1>5, <1>6, <1>7, <1>8, <1>9, <1>10, <1>11,
     <1>12, <1>13, <1>14, <1>15, <1>16, <1>17, <1>18
     DEF HelperNext, CallStep, RunnerStep

(* Every step keeps the mutex: past it, a call holds it.                   *)
LEMMA StepKeepsMutex ==
  ASSUME HelperTypeOK, MutexInv, [HelperNext]_helperVars PROVE MutexInv'
<1>1. ASSUME NEW k \in Calls, Call(k) PROVE MutexInv'
  BY <1>1, HelperConstants
     DEF HelperTypeOK, Places, MutexInv, Active, Call, AgentOnly, AgentRuns, Fixed,
         GoTo
<1>2. ASSUME NEW k \in Calls, LockAndClear(k) PROVE MutexInv'
  BY <1>2, HelperConstants
     DEF HelperTypeOK, Places, MutexInv, Active, LockAndClear, MutexIsFree,
         ResultCleared, AgentOnly, Fixed, GoTo
<1>3. ASSUME NEW k \in Calls, WriteRequest(k) PROVE MutexInv'
  BY <1>3, HelperConstants
     DEF HelperTypeOK, Places, MutexInv, Active, WriteRequest, AgentOnly, Fixed,
         GoTo
<1>4. ASSUME NEW k \in Calls, StartUnit(k) PROVE MutexInv'
  BY <1>4, HelperConstants
     DEF HelperTypeOK, Places, MutexInv, Active, StartUnit, Fixed, GoTo
<1>5. ASSUME NEW k \in Calls, GiveUp(k) PROVE MutexInv'
  BY <1>5, HelperConstants
     DEF HelperTypeOK, Places, MutexInv, Active, GiveUp, Fail, AgentOnly, Fixed,
         GoTo
<1>6. ASSUME NEW k \in Calls, ReturnError(k) PROVE MutexInv'
  BY <1>6, HelperConstants
     DEF HelperTypeOK, Places, MutexInv, Active, ReturnError, RunEnded, Fail,
         AgentOnly, Fixed, GoTo
<1>7. ASSUME NEW k \in Calls, ReturnAnswer(k) PROVE MutexInv'
  BY <1>7, HelperConstants
     DEF HelperTypeOK, Places, MutexInv, Active, ReturnAnswer, RunEnded, AgentOnly,
         Fixed, GoTo
<1>8. ASSUME NEW k \in Calls, Expire(k) PROVE MutexInv'
  BY <1>8, HelperConstants
     DEF HelperTypeOK, Places, MutexInv, Active, Expire, MayExpire, AgentOnly, Fixed
<1>9. CASE ReadRequest
  BY <1>9, HelperConstants
     DEF HelperTypeOK, Places, MutexInv, Active, ReadRequest, RunnerOnly, Fixed
<1>10. CASE CarryOut
  BY <1>10, HelperConstants
     DEF HelperTypeOK, Places, MutexInv, Active, CarryOut, RunnerOnly, Fixed
<1>11. CASE WriteResult
  BY <1>11, HelperConstants
     DEF HelperTypeOK, Places, MutexInv, Active, WriteResult, RunnerOnly, EndRun,
         AgentRuns, Fixed
<1>12. CASE CannotWriteResult
  BY <1>12, HelperConstants
     DEF HelperTypeOK, Places, MutexInv, Active, CannotWriteResult, RunnerOnly,
         EndRun, Fixed, Fault
<1>13. CASE RemoveRequest
  BY <1>13, HelperConstants
     DEF HelperTypeOK, Places, MutexInv, Active, RemoveRequest, RequestUsedUp,
         RunnerOnly, EndRun, Fixed
<1>14. CASE Hang
  BY <1>14, HelperConstants
     DEF HelperTypeOK, Places, MutexInv, Active, Hang, RunnerOnly, Fixed, Fault
<1>15. CASE TimeoutStart
  BY <1>15, HelperConstants
     DEF HelperTypeOK, Places, MutexInv, Active, TimeoutStart, TimeLimit,
         RunnerOnly, EndRun, Fixed, Fault
<1>16. CASE AgentStops
  BY <1>16, HelperConstants
     DEF HelperTypeOK, Places, MutexInv, Active, AgentStops, Returned, Fixed, Fault
<1>17. CASE AgentStarts
  BY <1>17, HelperConstants
     DEF HelperTypeOK, Places, MutexInv, Active, AgentStarts, Fixed
<1>18. CASE UNCHANGED helperVars
  BY <1>18 DEF HelperTypeOK, Places, MutexInv, Active, helperVars
<1> QED
  BY <1>1, <1>2, <1>3, <1>4, <1>5, <1>6, <1>7, <1>8, <1>9, <1>10, <1>11,
     <1>12, <1>13, <1>14, <1>15, <1>16, <1>17, <1>18
     DEF HelperNext, CallStep, RunnerStep

(* Every step keeps an answer for one call.                                *)
LEMMA StepKeepsAnswer ==
  ASSUME HelperTypeOK, MutexInv, AnswerInv, [HelperNext]_helperVars PROVE AnswerInv'
<1>1. ASSUME NEW k \in Calls, Call(k) PROVE AnswerInv'
  BY <1>1, HelperConstants
     DEF HelperTypeOK, Places, MutexInv, Active, AnswerInv, Obtainable, NotAnswered, Call,
         AgentOnly, AgentRuns, Fixed, GoTo
<1>2. ASSUME NEW k \in Calls, LockAndClear(k) PROVE AnswerInv'
  BY <1>2, HelperConstants
     DEF HelperTypeOK, Places, MutexInv, Active, AnswerInv, Obtainable, NotAnswered,
         LockAndClear, MutexIsFree, ResultCleared, AgentOnly, Fixed, GoTo
<1>3. ASSUME NEW k \in Calls, WriteRequest(k) PROVE AnswerInv'
  BY <1>3, HelperConstants
     DEF HelperTypeOK, Places, MutexInv, Active, AnswerInv, Obtainable, NotAnswered,
         WriteRequest, AgentOnly, Fixed, GoTo
<1>4. ASSUME NEW k \in Calls, StartUnit(k) PROVE AnswerInv'
  BY <1>4, HelperConstants
     DEF HelperTypeOK, Places, MutexInv, Active, AnswerInv, Obtainable, NotAnswered,
         StartUnit, Fixed, GoTo
<1>5. ASSUME NEW k \in Calls, GiveUp(k) PROVE AnswerInv'
  BY <1>5, HelperConstants
     DEF HelperTypeOK, Places, MutexInv, Active, AnswerInv, Obtainable, NotAnswered,
         GiveUp, Fail, AgentOnly, Fixed, GoTo
<1>6. ASSUME NEW k \in Calls, ReturnError(k) PROVE AnswerInv'
  BY <1>6, HelperConstants
     DEF HelperTypeOK, Places, MutexInv, Active, AnswerInv, Obtainable, NotAnswered,
         ReturnError, RunEnded, Fail, AgentOnly, Fixed, GoTo
<1>7. ASSUME NEW k \in Calls, ReturnAnswer(k) PROVE AnswerInv'
  BY <1>7, HelperConstants
     DEF HelperTypeOK, Places, MutexInv, Active, AnswerInv, Obtainable, NotAnswered,
         ReturnAnswer, RunEnded, AgentOnly, Fixed, GoTo
<1>8. ASSUME NEW k \in Calls, Expire(k) PROVE AnswerInv'
  BY <1>8, HelperConstants
     DEF HelperTypeOK, Places, MutexInv, Active, AnswerInv, Obtainable, NotAnswered,
         Expire, MayExpire, AgentOnly, Fixed
<1>9. CASE ReadRequest
  BY <1>9, HelperConstants
     DEF HelperTypeOK, Places, MutexInv, Active, AnswerInv, Obtainable, NotAnswered,
         ReadRequest, RunnerOnly, Fixed
<1>10. CASE CarryOut
  BY <1>10, HelperConstants
     DEF HelperTypeOK, Places, MutexInv, Active, AnswerInv, Obtainable, NotAnswered,
         CarryOut, RunnerOnly, Fixed
<1>11. CASE WriteResult
  BY <1>11, HelperConstants
     DEF HelperTypeOK, Places, MutexInv, Active, AnswerInv, Obtainable, NotAnswered,
         WriteResult, RunnerOnly, EndRun, AgentRuns, Fixed
<1>12. CASE CannotWriteResult
  BY <1>12, HelperConstants
     DEF HelperTypeOK, Places, MutexInv, Active, AnswerInv, Obtainable, NotAnswered,
         CannotWriteResult, RunnerOnly, EndRun, Fixed, Fault
<1>13. CASE RemoveRequest
  BY <1>13, HelperConstants
     DEF HelperTypeOK, Places, MutexInv, Active, AnswerInv, Obtainable, NotAnswered,
         RemoveRequest, RequestUsedUp, RunnerOnly, EndRun, Fixed
<1>14. CASE Hang
  BY <1>14, HelperConstants
     DEF HelperTypeOK, Places, MutexInv, Active, AnswerInv, Obtainable, NotAnswered, Hang,
         RunnerOnly, Fixed, Fault
<1>15. CASE TimeoutStart
  BY <1>15, HelperConstants
     DEF HelperTypeOK, Places, MutexInv, Active, AnswerInv, Obtainable, NotAnswered,
         TimeoutStart, TimeLimit, RunnerOnly, EndRun, Fixed, Fault
<1>16. CASE AgentStops
  BY <1>16, HelperConstants
     DEF HelperTypeOK, Places, MutexInv, Active, AnswerInv, Obtainable, NotAnswered,
         AgentStops, Returned, Fixed, Fault
<1>17. CASE AgentStarts
  BY <1>17, HelperConstants
     DEF HelperTypeOK, Places, MutexInv, Active, AnswerInv, Obtainable, NotAnswered,
         AgentStarts, Fixed
<1>18. CASE UNCHANGED helperVars
  BY <1>18
     DEF HelperTypeOK, Places, MutexInv, Active, AnswerInv, Obtainable, NotAnswered, helperVars
<1> QED
  BY <1>1, <1>2, <1>3, <1>4, <1>5, <1>6, <1>7, <1>8, <1>9, <1>10, <1>11,
     <1>12, <1>13, <1>14, <1>15, <1>16, <1>17, <1>18
     DEF HelperNext, CallStep, RunnerStep

(* Every step keeps the run with the call that started it, where no call   *)
(* gives up.                                                               *)
LEMMA StepKeepsPatient ==
  ASSUME HelperTypeOK, MutexInv, Patient, PatientInv, [HelperNext]_helperVars PROVE PatientInv'
<1>1. ASSUME NEW k \in Calls, Call(k) PROVE PatientInv'
  BY <1>1, HelperConstants
     DEF HelperTypeOK, Places, MutexInv, Active, Patient, Fault, PatientInv, Call,
         AgentOnly, AgentRuns, Fixed, GoTo
<1>2. ASSUME NEW k \in Calls, LockAndClear(k) PROVE PatientInv'
  BY <1>2, HelperConstants
     DEF HelperTypeOK, Places, MutexInv, Active, Patient, Fault, PatientInv,
         LockAndClear, MutexIsFree, ResultCleared, AgentOnly, Fixed, GoTo
<1>3. ASSUME NEW k \in Calls, WriteRequest(k) PROVE PatientInv'
  BY <1>3, HelperConstants
     DEF HelperTypeOK, Places, MutexInv, Active, Patient, Fault, PatientInv,
         WriteRequest, AgentOnly, Fixed, GoTo
<1>4. ASSUME NEW k \in Calls, StartUnit(k) PROVE PatientInv'
  BY <1>4, HelperConstants
     DEF HelperTypeOK, Places, MutexInv, Active, Patient, Fault, PatientInv,
         StartUnit, Fixed, GoTo
<1>5. ASSUME NEW k \in Calls, GiveUp(k) PROVE PatientInv'
  BY <1>5, HelperConstants
     DEF HelperTypeOK, Places, MutexInv, Active, Patient, Fault, PatientInv, GiveUp,
         Fail, AgentOnly, Fixed, GoTo
<1>6. ASSUME NEW k \in Calls, ReturnError(k) PROVE PatientInv'
  BY <1>6, HelperConstants
     DEF HelperTypeOK, Places, MutexInv, Active, Patient, Fault, PatientInv,
         ReturnError, RunEnded, Fail, AgentOnly, Fixed, GoTo
<1>7. ASSUME NEW k \in Calls, ReturnAnswer(k) PROVE PatientInv'
  BY <1>7, HelperConstants
     DEF HelperTypeOK, Places, MutexInv, Active, Patient, Fault, PatientInv,
         ReturnAnswer, RunEnded, AgentOnly, Fixed, GoTo
<1>8. ASSUME NEW k \in Calls, Expire(k) PROVE PatientInv'
  BY <1>8, HelperConstants
     DEF HelperTypeOK, Places, MutexInv, Active, Patient, Fault, PatientInv, Expire,
         MayExpire, AgentOnly, Fixed
<1>9. CASE ReadRequest
  BY <1>9, HelperConstants
     DEF HelperTypeOK, Places, MutexInv, Active, Patient, Fault, PatientInv,
         ReadRequest, RunnerOnly, Fixed
<1>10. CASE CarryOut
  BY <1>10, HelperConstants
     DEF HelperTypeOK, Places, MutexInv, Active, Patient, Fault, PatientInv,
         CarryOut, RunnerOnly, Fixed
<1>11. CASE WriteResult
  BY <1>11, HelperConstants
     DEF HelperTypeOK, Places, MutexInv, Active, Patient, Fault, PatientInv,
         WriteResult, RunnerOnly, EndRun, AgentRuns, Fixed
<1>12. CASE CannotWriteResult
  BY <1>12, HelperConstants
     DEF HelperTypeOK, Places, MutexInv, Active, Patient, Fault, PatientInv,
         CannotWriteResult, RunnerOnly, EndRun, Fixed
<1>13. CASE RemoveRequest
  BY <1>13, HelperConstants
     DEF HelperTypeOK, Places, MutexInv, Active, Patient, Fault, PatientInv,
         RemoveRequest, RequestUsedUp, RunnerOnly, EndRun, Fixed
<1>14. CASE Hang
  BY <1>14, HelperConstants
     DEF HelperTypeOK, Places, MutexInv, Active, Patient, Fault, PatientInv, Hang,
         RunnerOnly, Fixed
<1>15. CASE TimeoutStart
  BY <1>15, HelperConstants
     DEF HelperTypeOK, Places, MutexInv, Active, Patient, Fault, PatientInv,
         TimeoutStart, TimeLimit, RunnerOnly, EndRun, Fixed
<1>16. CASE AgentStops
  BY <1>16, HelperConstants
     DEF HelperTypeOK, Places, MutexInv, Active, Patient, Fault, PatientInv,
         AgentStops, Returned, Fixed
<1>17. CASE AgentStarts
  BY <1>17, HelperConstants
     DEF HelperTypeOK, Places, MutexInv, Active, Patient, Fault, PatientInv,
         AgentStarts, Fixed
<1>18. CASE UNCHANGED helperVars
  BY <1>18
     DEF HelperTypeOK, Places, MutexInv, Active, Patient, Fault, PatientInv, helperVars
<1> QED
  BY <1>1, <1>2, <1>3, <1>4, <1>5, <1>6, <1>7, <1>8, <1>9, <1>10, <1>11,
     <1>12, <1>13, <1>14, <1>15, <1>16, <1>17, <1>18
     DEF HelperNext, CallStep, RunnerStep

(* With restarts only, every step keeps a request from being carried out   *)
(* again.                                                                  *)
LEMMA StepKeepsOnce ==
  ASSUME HelperTypeOK, MutexInv, OnlyRestarts, OnceInv, [HelperNext]_helperVars PROVE OnceInv'
<1>1. ASSUME NEW k \in Calls, Call(k) PROVE OnceInv'
  BY <1>1, HelperConstants
     DEF HelperTypeOK, Places, MutexInv, Active, Returned, OnlyRestarts, OnceInv,
         Call, AgentOnly, AgentRuns, Fixed, GoTo
<1>2. ASSUME NEW k \in Calls, LockAndClear(k) PROVE OnceInv'
  BY <1>2, HelperConstants
     DEF HelperTypeOK, Places, MutexInv, Active, Returned, OnlyRestarts, OnceInv,
         LockAndClear, MutexIsFree, ResultCleared, AgentOnly, Fixed, GoTo
<1>3. ASSUME NEW k \in Calls, WriteRequest(k) PROVE OnceInv'
  BY <1>3, HelperConstants
     DEF HelperTypeOK, Places, MutexInv, Active, Returned, OnlyRestarts, OnceInv,
         WriteRequest, AgentOnly, Fixed, GoTo
<1>4. ASSUME NEW k \in Calls, StartUnit(k) PROVE OnceInv'
  BY <1>4, HelperConstants
     DEF HelperTypeOK, Places, MutexInv, Active, Returned, OnlyRestarts, OnceInv,
         StartUnit, Fixed, GoTo
<1>5. ASSUME NEW k \in Calls, GiveUp(k) PROVE OnceInv'
  BY <1>5, HelperConstants
     DEF HelperTypeOK, Places, MutexInv, Active, Returned, OnlyRestarts, OnceInv,
         GiveUp, Fail, AgentOnly, Fixed, GoTo
<1>6. ASSUME NEW k \in Calls, ReturnError(k) PROVE OnceInv'
  BY <1>6, HelperConstants
     DEF HelperTypeOK, Places, MutexInv, Active, Returned, OnlyRestarts, OnceInv,
         ReturnError, RunEnded, Fail, AgentOnly, Fixed, GoTo
<1>7. ASSUME NEW k \in Calls, ReturnAnswer(k) PROVE OnceInv'
  BY <1>7, HelperConstants
     DEF HelperTypeOK, Places, MutexInv, Active, Returned, OnlyRestarts, OnceInv,
         ReturnAnswer, RunEnded, AgentOnly, Fixed, GoTo
<1>8. ASSUME NEW k \in Calls, Expire(k) PROVE OnceInv'
  BY <1>8, HelperConstants
     DEF HelperTypeOK, Places, MutexInv, Active, Returned, OnlyRestarts, OnceInv,
         Expire, MayExpire, AgentOnly, Fixed
<1>9. CASE ReadRequest
  BY <1>9, HelperConstants
     DEF HelperTypeOK, Places, MutexInv, Active, Returned, OnlyRestarts, OnceInv,
         ReadRequest, RunnerOnly, Fixed
<1>10. CASE CarryOut
  BY <1>10, HelperConstants
     DEF HelperTypeOK, Places, MutexInv, Active, Returned, OnlyRestarts, OnceInv,
         CarryOut, RunnerOnly, Fixed
<1>11. CASE WriteResult
  BY <1>11, HelperConstants
     DEF HelperTypeOK, Places, MutexInv, Active, Returned, OnlyRestarts, OnceInv,
         WriteResult, RunnerOnly, EndRun, AgentRuns, Fixed
<1>12. CASE CannotWriteResult
  BY <1>12, HelperConstants
     DEF HelperTypeOK, Places, MutexInv, Active, Returned, OnlyRestarts, OnceInv,
         CannotWriteResult, RunnerOnly, EndRun, Fixed, Fault
<1>13. CASE RemoveRequest
  BY <1>13, HelperConstants
     DEF HelperTypeOK, Places, MutexInv, Active, Returned, OnlyRestarts, OnceInv,
         RemoveRequest, RequestUsedUp, RunnerOnly, EndRun, Fixed
<1>14. CASE Hang
  BY <1>14, HelperConstants
     DEF HelperTypeOK, Places, MutexInv, Active, Returned, OnlyRestarts, OnceInv,
         Hang, RunnerOnly, Fixed, Fault
<1>15. CASE TimeoutStart
  BY <1>15, HelperConstants
     DEF HelperTypeOK, Places, MutexInv, Active, Returned, OnlyRestarts, OnceInv,
         TimeoutStart, TimeLimit, RunnerOnly, EndRun, Fixed, Fault
<1>16. CASE AgentStops
  BY <1>16, HelperConstants
     DEF HelperTypeOK, Places, MutexInv, Active, Returned, OnlyRestarts, OnceInv,
         AgentStops, Fixed, Fault
<1>17. CASE AgentStarts
  BY <1>17, HelperConstants
     DEF HelperTypeOK, Places, MutexInv, Active, Returned, OnlyRestarts, OnceInv,
         AgentStarts, Fixed
<1>18. CASE UNCHANGED helperVars
  BY <1>18 DEF OnceInv, helperVars
<1> QED
  BY <1>1, <1>2, <1>3, <1>4, <1>5, <1>6, <1>7, <1>8, <1>9, <1>10, <1>11,
     <1>12, <1>13, <1>14, <1>15, <1>16, <1>17, <1>18
     DEF HelperNext, CallStep, RunnerStep

(* The scenario is the environment's, and never changes; nor does what the *)
(* helper is for.                                                          *)
LEMMA ScenarioIsFixed == [HelperNext]_helperVars => UNCHANGED <<scenario, helper>>
  BY DEF HelperNext, helperVars, Fixed, RunnerOnly, AgentOnly, CallStep, RunnerStep, Call,
     LockAndClear, WriteRequest, StartUnit, GiveUp, ReturnError, ReturnAnswer,
     Fail, Expire, ReadRequest, CarryOut, WriteResult, CannotWriteResult,
     RemoveRequest, Hang, TimeoutStart, AgentStops, AgentStarts

(* The invariant is inductive.                                             *)
LEMMA StepKeepsInv == HelperInv /\ [HelperNext]_helperVars => HelperInv'
<1> SUFFICES ASSUME HelperInv, [HelperNext]_helperVars PROVE HelperInv'
  OBVIOUS
<1>1. HelperTypeOK' /\ MutexInv' /\ AnswerInv'
  BY StepKeepsType, StepKeepsMutex, StepKeepsAnswer DEF HelperInv
<1>2. ASSUME Patient' PROVE PatientInv'
  <2>1. Patient
    BY <1>2, ScenarioIsFixed DEF Patient, Fault
  <2> QED
    BY <2>1, StepKeepsPatient DEF HelperInv
<1>3. ASSUME OnlyRestarts' PROVE OnceInv'
  <2>1. OnlyRestarts
    BY <1>3, ScenarioIsFixed DEF OnlyRestarts
  <2> QED
    BY <2>1, StepKeepsOnce DEF HelperInv
<1> QED
  BY <1>1, <1>2, <1>3 DEF HelperInv

(* The inductive invariant, from which the other theorems follow.          *)
THEOREM HelperInvHolds == HelperSpec => []HelperInv
  BY HelperInvInit, StepKeepsInv, PTL DEF HelperSpec

-----------------------------------------------------------------------------
(* The variables stay within their types.                                  *)
THEOREM HelperTypeCorrect == HelperSpec => []HelperTypeOK
<1>1. HelperInv => HelperTypeOK
  BY DEF HelperInv
<1> QED
  BY <1>1, HelperInvHolds, PTL

(* With any number of calls, where none gives up and the agent keeps       *)
(* running, success means that the call's own request has been carried out *)
(* (ApplyPersistent and the nmap and tcpdump helpers).                     *)
THEOREM SuccessMeansDone == HelperSpec => []OwnAnswer
<1>1. HelperInv => OwnAnswer
  BY DEF HelperInv, PatientInv, OwnAnswer
<1> QED
  BY <1>1, HelperInvHolds, PTL

(* With any number of calls giving up, any fault and any restart, no       *)
(* answer reaches two calls, and none reaches another call than its own    *)
(* after its own has returned it.                                          *)
THEOREM NoAnswerTwice == HelperSpec => []AnswerUsedOnce
<1>1. HelperInv => AnswerUsedOnce
  BY DEF HelperInv, AnswerInv, AnswerUsedOnce, NotAnswered
<1> QED
  BY <1>1, HelperInvHolds, PTL

(* Both together: what the run of HelperService checks for three calls.    *)
THEOREM AnswersKept == HelperSpec => []AnswersAreOwn
<1>1. OwnAnswer /\ AnswerUsedOnce => AnswersAreOwn
  BY DEF AnswersAreOwn
<1> QED
  BY <1>1, SuccessMeansDone, NoAnswerTwice, PTL

(* With any number of calls, given up or not, and however often the agent  *)
(* is restarted, cmd/security-harbor-network-runner carries no request of  *)
(* ApplyPersistent out twice.                                              *)
THEOREM NoRequestTwice == HelperSpec => []CarriedOutOnce
<1>1. HelperInv => CarriedOutOnce
  BY DEF HelperInv, OnlyRestarts, OnceInv, CarriedOutOnce
<1> QED
  BY <1>1, HelperInvHolds, PTL
-----------------------------------------------------------------------------
(* Interfaces.                                                             *)

(* A step counts down the scenario's bounds and leaves the rest of it. *)
SameScenario ==
    /\ setup'.backend = setup.backend /\ setup'.host = setup.host
    /\ setup'.phys = setup.phys /\ setup'.vlans = setup.vlans /\ setup'.ids = setup.ids /\ setup'.zones = setup.zones
    /\ setup'.configs = setup.configs /\ setup'.addrs = setup.addrs
    /\ setup'.gateways = setup.gateways /\ setup'.found = setup.found

LEMMA SpendKeeps ==
    ASSUME IsScenario(setup),
           NEW field \in {"applies", "faults", "drifts", "renews", "reboots", "restarts"}, Spend(field)
    PROVE  IsScenario(setup)' /\ SameScenario
<1>1. setup' = [setup EXCEPT ![field] = @ - 1]
  BY DEF Spend
<1>2. setup = [backend |-> setup.backend, host |-> setup.host, phys |-> setup.phys, vlans |-> setup.vlans, ids |-> setup.ids, zones |-> setup.zones,
            configs |-> setup.configs, addrs |-> setup.addrs, gateways |-> setup.gateways, found |-> setup.found,
            applies |-> setup.applies, faults |-> setup.faults, drifts |-> setup.drifts, renews |-> setup.renews,
            reboots |-> setup.reboots, restarts |-> setup.restarts]
  BY DEF IsScenario
<1>3. SameScenario
  BY <1>1, <1>2 DEF SameScenario
<1>4. setup' = [backend |-> setup'.backend, host |-> setup'.host, phys |-> setup'.phys, vlans |-> setup'.vlans, ids |-> setup'.ids, zones |-> setup'.zones,
            configs |-> setup'.configs, addrs |-> setup'.addrs, gateways |-> setup'.gateways, found |-> setup'.found,
            applies |-> setup'.applies, faults |-> setup'.faults, drifts |-> setup'.drifts, renews |-> setup'.renews,
            reboots |-> setup'.reboots, restarts |-> setup'.restarts]
  BY <1>1, <1>2
<1>5. /\ Configs(setup') = Configs(setup) /\ Settings(setup') = Settings(setup)
      /\ Cards(setup') = Cards(setup) /\ Profiles(setup') = Profiles(setup) /\ Jobs(setup') = Jobs(setup)
      /\ Addresses(setup') = Addresses(setup)
  BY <1>3 DEF SameScenario, Configs, Settings, Cards, Profiles, Jobs, Addresses, Routes
<1>6. IsScenario(setup')
  BY <1>3, <1>4, <1>5 DEF IsScenario, SameScenario
<1> QED
  BY <1>3, <1>6

LEMMA RenderedType ==
    ASSUME NEW s \in Settings(setup), NEW cfg
    PROVE  Rendered(s, cfg) \in Profiles(setup)
  BY DEF Settings, Profiles, Rendered, isStatic, Routes

(* A card with these fields. *)
Looks(c, exists, up, perm, lease, route) ==
    /\ c \in Cards(setup)
    /\ c.exists = exists /\ c.up = up /\ c.perm = perm /\ c.lease = lease /\ c.route = route

LEMMA CardChanges ==
    ASSUME NEW k \in Cards(setup)
    PROVE  /\ Looks([k EXCEPT !.exists = TRUE, !.up = TRUE, !.perm = {}, !.lease = FALSE], TRUE, TRUE, {}, FALSE, k.route)
           /\ Looks(Down(k), k.exists, FALSE, k.perm, k.lease, NoRoute)
           /\ Looks(RemoveDefaultRoute(k), k.exists, k.up, k.perm, k.lease, NoRoute)
           /\ Looks([k EXCEPT !.exists = TRUE, !.up = TRUE], TRUE, TRUE, k.perm, k.lease, k.route)
           /\ Looks([k EXCEPT !.exists = TRUE], TRUE, k.up, k.perm, k.lease, k.route)
           /\ Looks([k EXCEPT !.lease = TRUE], k.exists, k.up, k.perm, TRUE, k.route)
           /\ Looks([Gone EXCEPT !.exists = TRUE], TRUE, FALSE, {}, FALSE, NoRoute)
           /\ Looks(Gone, FALSE, FALSE, {}, FALSE, NoRoute)
<1>0. NoRoute \in Routes(setup)
  BY DEF Routes
<1>1. Looks([k EXCEPT !.exists = TRUE, !.up = TRUE, !.perm = {}, !.lease = FALSE], TRUE, TRUE, {}, FALSE, k.route)
  BY <1>0 DEF Looks, Cards
<1>2. Looks(Down(k), k.exists, FALSE, k.perm, k.lease, NoRoute)
  BY <1>0 DEF Looks, Cards, Down
<1>3. Looks(RemoveDefaultRoute(k), k.exists, k.up, k.perm, k.lease, NoRoute)
  BY <1>0 DEF Looks, Cards, RemoveDefaultRoute
<1>4. Looks([k EXCEPT !.exists = TRUE, !.up = TRUE], TRUE, TRUE, k.perm, k.lease, k.route)
  BY <1>0 DEF Looks, Cards
<1>5. Looks([k EXCEPT !.exists = TRUE], TRUE, k.up, k.perm, k.lease, k.route)
  BY <1>0 DEF Looks, Cards
<1>6. Looks([k EXCEPT !.lease = TRUE], k.exists, k.up, k.perm, TRUE, k.route)
  BY <1>0 DEF Looks, Cards
<1>7. Looks([Gone EXCEPT !.exists = TRUE], TRUE, FALSE, {}, FALSE, NoRoute)
  BY <1>0 DEF Looks, Cards, Gone
<1>8. Looks(Gone, FALSE, FALSE, {}, FALSE, NoRoute)
  BY <1>0 DEF Looks, Cards, Gone
<1> QED
  BY <1>1, <1>2, <1>3, <1>4, <1>5, <1>6, <1>7, <1>8

(* What a profile makes of a card. *)
LEMMA ConfiguredIs ==
    ASSUME NEW k \in Cards(setup), NEW p \in Profiles(setup), NEW c \in Configured(k, p)
    PROVE  IF ~p.on THEN Looks(c, TRUE, FALSE, {}, FALSE, NoRoute)
           ELSE \E l \in BOOLEAN, r \in {p.route, NoRoute, k.route} :
                  /\ Looks(c, TRUE, TRUE, IF p.ip = NoAddr THEN {} ELSE {p.ip}, l, r)
                  /\ p.ip # NoAddr => ~l
                  /\ p.route = NoRoute => r \in {NoRoute, k.route}
<1> DEFINE up == [k EXCEPT !.exists = TRUE, !.up = TRUE, !.perm = {}, !.lease = FALSE]
<1>1. Looks(up, TRUE, TRUE, {}, FALSE, k.route)
  BY CardChanges
<1>2. CASE ~p.on
  <2>1. c = [Gone EXCEPT !.exists = TRUE]
    BY <1>2 DEF Configured
  <2> QED
    BY <1>2, <2>1, CardChanges
<1>3. \A r \in {p.route, NoRoute, k.route} : r \in Routes(setup)
  BY DEF Profiles, Cards, Routes
<1>4. CASE p.on /\ p.ip # NoAddr
  <2>1. PICK r \in {p.route, NoRoute, k.route} :
            /\ c = [up EXCEPT !.perm = {p.ip}, !.route = r]
            /\ p.route = NoRoute => r \in {NoRoute, k.route}
    BY <1>4 DEF Configured
  <2>2. {p.ip} \in SUBSET Addresses(setup)
    BY <1>4 DEF Profiles
  <2> HIDE DEF up
  <2>3. Looks(c, TRUE, TRUE, {p.ip}, FALSE, r)
    BY <1>1, <1>3, <2>1, <2>2 DEF Looks, Cards
  <2> QED
    BY <1>4, <2>1, <2>3
<1>5. CASE p.on /\ p.ip = NoAddr
  <2>1. PICK r \in {p.route, NoRoute, k.route} :
            /\ c = [up EXCEPT !.lease = TRUE, !.route = r] \/ c = [up EXCEPT !.route = r]
            /\ p.route = NoRoute => r \in {NoRoute, k.route}
    BY <1>5 DEF Configured
  <2> HIDE DEF up
  <2>2. Looks(c, TRUE, TRUE, {}, TRUE, r) \/ Looks(c, TRUE, TRUE, {}, FALSE, r)
    BY <1>1, <1>3, <2>1 DEF Looks, Cards
  <2> QED
    BY <1>5, <2>1, <2>2
<1> QED
  BY <1>2, <1>4, <1>5

LEMMA CardOKIs ==
    ASSUME NEW c \in Cards(setup), NEW b \in BOOLEAN, c.exists, ~c.up => c.route = NoRoute
    PROVE  CardOK(c, b)
  BY DEF CardOK

LEMMA ConfiguredType ==
    ASSUME NEW k \in Cards(setup), NEW p \in Profiles(setup), NEW b \in BOOLEAN, NEW c \in Configured(k, p)
    PROVE  c \in Cards(setup) /\ CardOK(c, b)
<1>1. c \in Cards(setup) /\ c.exists /\ (~c.up => c.route = NoRoute)
  BY ConfiguredIs DEF Looks
<1> QED
  BY <1>1, CardOKIs

(* What the ip commands make of a card. *)
LEMMA AppliedIs ==
    ASSUME NEW k \in Cards(setup), NEW s \in Settings(setup), NEW v \in BOOLEAN, CardOK(k, ~v),
           NEW c \in ApplyInterfaceConfig(k, s, v)
    PROVE  /\ c \in Cards(setup) /\ CardOK(c, ~v)
           /\ ~s.on => ~c.up
           /\ s.on => /\ c.exists /\ c.up
                      /\ isStatic(s) => c.perm = {s.ip} /\ ~c.lease
                      /\ s.type = "dhcp" => c.perm = {}
<1> DEFINE e == [k EXCEPT !.exists = TRUE]
           here == [k EXCEPT !.exists = TRUE, !.up = TRUE]
<1>1. k.exists \/ v
  BY DEF CardOK
<1>2. Looks(e, TRUE, k.up, k.perm, k.lease, k.route) /\ Looks(here, TRUE, TRUE, k.perm, k.lease, k.route)
  BY CardChanges
<1> HIDE DEF e, here
<1>3. Looks(Down(e), TRUE, FALSE, k.perm, k.lease, NoRoute)
  BY <1>2, CardChanges DEF Looks
<1>4. CASE ~s.on
  <2>1. c = Down(e)
    BY <1>1, <1>4 DEF ApplyInterfaceConfig, e
  <2> QED
    BY <1>3, <1>4, <2>1, CardOKIs DEF Looks
<1>5. CASE s.on /\ isStatic(s)
  <2>1. PICK r \in {k.route, NoRoute} : c = [here EXCEPT !.perm = {s.ip}, !.lease = FALSE, !.route = r]
    BY <1>1, <1>5 DEF ApplyInterfaceConfig, here
  <2>2. {s.ip} \in SUBSET Addresses(setup) /\ r \in Routes(setup)
    BY <1>5 DEF Settings, isStatic, Routes, Cards
  <2>3. Looks(c, TRUE, TRUE, {s.ip}, FALSE, r)
    BY <1>2, <2>1, <2>2 DEF Looks, Cards
  <2> QED
    BY <1>5, <2>3, CardOKIs DEF Looks, isStatic
<1>6. CASE s.on /\ ~isStatic(s)
  <2>1. c = [here EXCEPT !.perm = {}] \/ (s.type # "dhcp" /\ c = here)
    BY <1>1, <1>6 DEF ApplyInterfaceConfig, here
  <2>2. Looks(c, TRUE, TRUE, {}, k.lease, k.route) \/ (s.type # "dhcp" /\ Looks(c, TRUE, TRUE, k.perm, k.lease, k.route))
    BY <1>2, <2>1 DEF Looks, Cards
  <2> QED
    BY <1>6, <2>2, CardOKIs DEF Looks
<1> QED
  BY <1>4, <1>5, <1>6

(* The same of commands that fail.                                         *)
LEMMA AddressedIs ==
    ASSUME NEW k \in Cards(setup), NEW s \in Settings(setup), NEW c \in Addressed(k, s)
    PROVE  /\ c \in Cards(setup) /\ c.exists = k.exists /\ c.up = k.up /\ c.route \in {k.route, NoRoute}
           /\ c.perm \in {k.perm, {s.ip}, {}}
<1>1. CASE c = k
  BY <1>1
<1>2. CASE isStatic(s) /\ c # k
  <2>1. PICK q \in {{}, {s.ip}}, r \in {k.route, NoRoute} : c = [k EXCEPT !.perm = q, !.lease = FALSE, !.route = r]
    BY <1>2 DEF Addressed
  <2>2. q \in SUBSET Addresses(setup) /\ r \in Routes(setup)
    BY <1>2 DEF Settings, isStatic, Routes, Cards
  <2> QED
    BY <2>1, <2>2 DEF Cards
<1>3. CASE ~isStatic(s) /\ c # k
  <2>1. c = [k EXCEPT !.perm = {}]
    BY <1>3 DEF Addressed
  <2> QED
    BY <2>1 DEF Cards
<1> QED
  BY <1>1, <1>2, <1>3

LEMMA FailsIs ==
    ASSUME NEW k \in Cards(setup), NEW s \in Settings(setup), NEW v \in BOOLEAN, CardOK(k, ~v),
           NEW c \in ApplyFails(k, s, v)
    PROVE  c \in Cards(setup) /\ CardOK(c, ~v) /\ c.perm \in {k.perm, {s.ip}, {}}
<1> DEFINE e == [k EXCEPT !.exists = TRUE]
           here == [e EXCEPT !.up = TRUE]
<1>1. Looks(e, TRUE, k.up, k.perm, k.lease, k.route) /\ Looks(here, TRUE, TRUE, k.perm, k.lease, k.route)
  <2>1. Looks(e, TRUE, k.up, k.perm, k.lease, k.route)
    BY CardChanges
  <2> QED
    BY <2>1 DEF Looks, Cards
<1>2. ~k.up => k.route = NoRoute
  BY DEF CardOK, Gone
<1>3. c \in {k, e} \/ c \in Addressed(e, s) \/ c \in Addressed(here, s)
  BY DEF ApplyFails
<1> HIDE DEF e, here
<1>4. CASE c \in {k, e}
  BY <1>1, <1>2, <1>4, CardOKIs DEF Looks
<1>5. CASE c \in Addressed(e, s) \/ c \in Addressed(here, s)
  <2>1. /\ c \in Cards(setup) /\ c.exists /\ (~c.up => c.route = NoRoute)
        /\ c.perm \in {k.perm, {s.ip}, {}}
    BY <1>1, <1>2, <1>5, AddressedIs DEF Looks
  <2> QED
    BY <2>1, CardOKIs
<1> QED
  BY <1>3, <1>4, <1>5

LEMMA ClearedIs ==
    ASSUME NEW k \in Cards(setup), NEW s, NEW cfg, NEW b \in BOOLEAN, CardOK(k, b)
    PROVE  /\ Cleared(k, s, cfg) \in Cards(setup) /\ CardOK(Cleared(k, s, cfg), b)
           /\ Cleared(k, s, cfg).exists = k.exists /\ Cleared(k, s, cfg).up = k.up
           /\ Cleared(k, s, cfg).perm = k.perm /\ Cleared(k, s, cfg).lease = k.lease
           /\ s.on /\ ~CarriesDefaultRoute(s, cfg) => Cleared(k, s, cfg).route = NoRoute
<1>1. Looks(RemoveDefaultRoute(k), k.exists, k.up, k.perm, k.lease, NoRoute)
  BY CardChanges
<1>2. ~k.exists => k.route = NoRoute /\ RemoveDefaultRoute(k) = k
  BY DEF CardOK, Gone, RemoveDefaultRoute
<1> QED
  BY <1>1, <1>2 DEF Looks, Cleared, CardOK

LEMMA DeconfiguredIs ==
    ASSUME NEW k \in Cards(setup), NEW v \in BOOLEAN, CardOK(k, ~v)
    PROVE  LET c == Deconfigured(k, v) IN c \in Cards(setup) /\ CardOK(c, ~v) /\ c.perm = {}
<1>1. Looks(Gone, FALSE, FALSE, {}, FALSE, NoRoute)
  BY CardChanges
<1>2. CASE v \/ ~k.exists
  BY <1>1, <1>2 DEF Looks, CardOK, Deconfigured
<1>3. CASE ~v /\ k.exists
  <2>1. Deconfigured(k, v) = [k EXCEPT !.perm = {}, !.lease = FALSE, !.route = NoRoute]
    BY <1>3 DEF Deconfigured
  <2>2. Looks(Deconfigured(k, v), TRUE, k.up, {}, FALSE, NoRoute)
    BY <1>3, <2>1 DEF Looks, Cards, Routes
  <2> QED
    BY <2>2, CardOKIs DEF Looks
<1> QED
  BY <1>2, <1>3

LEMMA BootedType ==
    ASSUME NEW p \in Profiles(setup) \cup {Absent}, NEW f \in Cards(setup), NEW v \in BOOLEAN, CardOK(f, ~v),
           NEW c \in Booted(p, f, v)
    PROVE  c \in Cards(setup) /\ CardOK(c, ~v)
<1>0. Looks(Gone, FALSE, FALSE, {}, FALSE, NoRoute) /\ Looks([Gone EXCEPT !.exists = TRUE], TRUE, FALSE, {}, FALSE, NoRoute)
  BY CardChanges
<1>1. CASE p # Absent
  BY <1>0, <1>1, ConfiguredType DEF Booted, Looks
<1>2. CASE p = Absent /\ v
  <2>1. c = Gone
    BY <1>2 DEF Booted
  <2> QED
    BY <1>0, <1>2, <2>1 DEF Looks, CardOK
<1>3. CASE p = Absent /\ ~v
  <2>1. CASE c = f
    BY <1>3, <2>1
  <2>2. CASE c = [Gone EXCEPT !.exists = TRUE]
    BY <1>0, <2>2, CardOKIs DEF Looks
  <2>3. CASE c = [Gone EXCEPT !.exists = TRUE, !.up = TRUE, !.lease = TRUE, !.route = FromISP]
    <3>1. Looks(c, TRUE, TRUE, {}, TRUE, FromISP)
      BY <2>3 DEF Looks, Cards, Gone, Routes
    <3> QED
      BY <3>1, CardOKIs DEF Looks
  <2> QED
    BY <1>3, <2>1, <2>2, <2>3 DEF Booted
<1> QED
  BY <1>1, <1>2, <1>3

(* A client that reads a configuration and sends it back changes addresses *)
(* and gateways only.                                                      *)
LEMMA PopulatedIs ==
    ASSUME IsScenario(setup), NEW cfg \in Configs(setup), NEW kern \in [Devices -> Cards(setup)]
    PROVE  LET new == PopulateDynamicIPs(cfg, kern) IN
           /\ new \in Configs(setup)
           /\ Ids(new) = Ids(cfg)
           /\ \A i \in Ids(cfg) : new[i].dev = cfg[i].dev
<1> DEFINE new == PopulateDynamicIPs(cfg, kern)
<1>1. DOMAIN cfg = setup.ids
  BY DEF Configs
<1>2. ASSUME NEW i \in setup.ids, cfg[i] # Absent
      PROVE  new[i] \in Settings(setup) /\ new[i].dev = cfg[i].dev
  <2> DEFINE s == cfg[i]
             k == kern[s.dev]
             a == IF k.lease THEN [s EXCEPT !.ip = Leased]
                  ELSE IF k.perm # {} THEN [s EXCEPT !.ip = CHOOSE x \in k.perm : TRUE]
                  ELSE s
  <2>1. s \in Settings(setup)
    BY <1>2 DEF Configs
  <2>2. k \in Cards(setup)
    BY <2>1 DEF Settings, Devices
  <2>3. \A x \in Addresses(setup) : /\ [s EXCEPT !.ip = x] \in Settings(setup)
                                    /\ [s EXCEPT !.ip = x].dev = s.dev
    BY <2>1 DEF Settings
  <2>4. Leased \in Addresses(setup) /\ (k.perm # {} => (CHOOSE x \in k.perm : TRUE) \in Addresses(setup))
    BY <2>2 DEF Addresses, Cards
  <2>5. a \in Settings(setup) /\ a.dev = s.dev
    BY <2>1, <2>3, <2>4
  <2>6. k.route \in Routes(setup)
    BY <2>2 DEF Cards
  <2> HIDE DEF a
  <2>7. [a EXCEPT !.gw = k.route] \in Settings(setup) /\ [a EXCEPT !.gw = k.route].dev = s.dev
    BY <2>5, <2>6 DEF Settings
  <2>8. new[i] \in {s, a, [a EXCEPT !.gw = k.route]}
    BY <1>1, <1>2 DEF PopulateDynamicIPs, a
  <2> QED
    BY <2>1, <2>5, <2>7, <2>8
<1>3. ASSUME NEW i \in setup.ids, cfg[i] = Absent PROVE new[i] = Absent
  BY <1>1, <1>3 DEF PopulateDynamicIPs
<1>4. DOMAIN new = setup.ids /\ new = [i \in setup.ids |-> new[i]]
  BY <1>1 DEF PopulateDynamicIPs
<1> HIDE DEF new
<1>5. new \in Configs(setup)
  BY <1>2, <1>3, <1>4 DEF Configs
<1>6. Absent \notin Settings(setup)
  BY DEF IsScenario
<1> QED
  BY <1>1, <1>2, <1>3, <1>4, <1>5, <1>6 DEF Ids, new

(* TypeOK, and that a helper is asked only where there is a backend. *)
TypeInv ==
    /\ TypeOK
    /\ IsScenario(setup) /\ found \in setup.found
    /\ job # NoJob /\ job.stage \in {"ask", "write", "reconfigure", "saved"} => HasBackend

Stages == {"boot", "ask", "write", "reconfigure", "saved", "ip"}

LEMMA JobChanges ==
    ASSUME NEW j \in Jobs(setup), NEW i
    PROVE  /\ \A st \in Stages : [j EXCEPT !.stage = st] = [j EXCEPT !.stage = st, !.rest = j.rest, !.waits = j.waits]
           /\ [j EXCEPT !.rest = @ \ {i}, !.waits = {i}]
                = [j EXCEPT !.stage = j.stage, !.rest = j.rest \ {i}, !.waits = {i}]
           /\ [j EXCEPT !.waits = {}] = [j EXCEPT !.stage = j.stage, !.rest = j.rest, !.waits = {}]
           /\ [j EXCEPT !.stage = "saved", !.rest = j.touch]
                = [j EXCEPT !.stage = "saved", !.rest = j.touch, !.waits = j.waits]
           /\ [j EXCEPT !.rest = @ \ {i}] = [j EXCEPT !.stage = j.stage, !.rest = j.rest \ {i}, !.waits = j.waits]
  BY DEF Jobs

(* What has to be shown of a step for TypeInv', in terms of the types of   *)
(* the scenario before it.                                                 *)
KernelNext == /\ kernel' \in [Devices -> Cards(setup)]
              /\ \A d \in Devices : CardOK(kernel'[d], d \in setup.phys)
ProfileNext == profile' \in [Devices -> Profiles(setup) \cup {Absent}]
JobNext == /\ force' \in Configs(setup)
           /\ job' \in Jobs(setup) \cup {NoJob}
           /\ job' # NoJob =>
                /\ job'.touch \subseteq Ids(job'.new) /\ job'.rest \subseteq job'.touch
                /\ job'.stage \in {"ask", "write", "reconfigure", "saved"} => HasBackend
OtherNext == /\ pending' \subseteq Devices /\ excused' \subseteq Devices
             /\ leasing' \subseteq [dev : Devices, wan : BOOLEAN, late : BOOLEAN]
             /\ warned' \in BOOLEAN /\ edited' \in BOOLEAN

LEMMA SameTypes ==
    ASSUME SameScenario
    PROVE  /\ Devices' = Devices /\ HasBackend' = HasBackend /\ ByNetworkd' = ByNetworkd
           /\ Configs(setup)' = Configs(setup) /\ Settings(setup)' = Settings(setup)
           /\ Cards(setup)' = Cards(setup) /\ Profiles(setup)' = Profiles(setup) /\ Jobs(setup)' = Jobs(setup)
           /\ Addresses(setup)' = Addresses(setup) /\ Routes(setup)' = Routes(setup)
           /\ \A d : isVLAN(d)' <=> isVLAN(d)
  BY DEF SameScenario, Devices, HasBackend, ByNetworkd, Configs, Settings, Cards, Profiles, Jobs, Addresses, Routes, isVLAN

LEMMA TypeStep ==
    ASSUME IsScenario(setup)', SameScenario, found \in setup.found, found' = found,
           KernelNext, ProfileNext, JobNext, OtherNext
    PROVE  TypeInv'
<1>1. /\ Devices' = Devices /\ HasBackend' = HasBackend
      /\ Configs(setup)' = Configs(setup) /\ Cards(setup)' = Cards(setup)
      /\ Profiles(setup)' = Profiles(setup) /\ Jobs(setup)' = Jobs(setup)
      /\ setup'.phys = setup.phys /\ setup'.found = setup.found
  BY SameTypes DEF SameScenario
<1>2. TypeOK'
  BY <1>1 DEF KernelNext, ProfileNext, JobNext, OtherNext, TypeOK, HelperBusy, Ids
<1> QED
  BY <1>1, <1>2 DEF JobNext, TypeInv

(* What TypeInv says, for use one by one. *)
LEMMA TypeFacts ==
    ASSUME TypeInv
    PROVE  /\ IsScenario(setup)
           /\ kernel \in [Devices -> Cards(setup)]
           /\ \A d \in Devices : CardOK(kernel[d], ~isVLAN(d)) /\ kernel[d] \in Cards(setup)
           /\ profile \in [Devices -> Profiles(setup) \cup {Absent}]
           /\ force \in Configs(setup)
           /\ job \in Jobs(setup) \cup {NoJob}
           /\ job # NoJob => /\ job \in Jobs(setup)
                             /\ job.new \in Configs(setup) /\ job.prev \in Configs(setup)
                             /\ job.touch \subseteq Ids(job.new) /\ job.rest \subseteq job.touch
                             /\ job.touch \subseteq setup.ids /\ job.waits \subseteq setup.ids
                             /\ job.stage \in Stages
           /\ found \in [Devices -> Cards(setup)]
           /\ \A d \in Devices : CardOK(found[d], ~isVLAN(d))
           /\ \A d \in Devices : (d \in setup.phys) <=> ~isVLAN(d)
           /\ pending \subseteq Devices /\ excused \subseteq Devices
           /\ \A r \in leasing : r.dev \in Devices /\ r \in [dev : Devices, wan : BOOLEAN, late : BOOLEAN]
           /\ warned \in BOOLEAN /\ edited \in BOOLEAN
<1>1. \A d \in Devices : (d \in setup.phys) <=> ~isVLAN(d)
  BY DEF TypeInv, IsScenario, Devices, isVLAN
<1>2. \A d \in Devices : CardOK(kernel[d], ~isVLAN(d)) /\ kernel[d] \in Cards(setup)
  <2> TAKE d \in Devices
  <2>1. CardOK(kernel[d], d \in setup.phys) /\ kernel[d] \in Cards(setup)
    BY DEF TypeInv, TypeOK
  <2> QED
    BY <1>1, <2>1 DEF CardOK
<1>3. found \in [Devices -> Cards(setup)]
  BY DEF TypeInv, IsScenario, Devices
<1>4. \A d \in Devices : CardOK(found[d], ~isVLAN(d))
  <2> TAKE d \in Devices
  <2>1. CASE isVLAN(d)
    <3>1. found[d] = Gone
      BY <2>1 DEF TypeInv, IsScenario, isVLAN
    <3> QED
      BY <2>1, <3>1 DEF CardOK, Gone
  <2>2. CASE ~isVLAN(d)
    <3>1. CardOK(found[d], TRUE)
      BY <2>2, <1>1 DEF TypeInv, IsScenario
    <3> QED
      BY <2>2, <3>1 DEF CardOK
  <2> QED
    BY <2>1, <2>2
<1>5. job # NoJob => /\ job \in Jobs(setup)
                     /\ job.new \in Configs(setup) /\ job.prev \in Configs(setup)
                     /\ job.touch \subseteq Ids(job.new) /\ job.rest \subseteq job.touch
                     /\ job.touch \subseteq setup.ids /\ job.waits \subseteq setup.ids
                     /\ job.stage \in Stages
  BY DEF TypeInv, TypeOK, Jobs, Stages
<1> QED
  BY <1>1, <1>2, <1>3, <1>4, <1>5 DEF TypeInv, TypeOK

LEMMA SettingIs ==
    ASSUME IsScenario(setup), NEW cfg \in Configs(setup), NEW i \in Ids(cfg)
    PROVE  cfg[i] \in Settings(setup) /\ cfg[i].dev \in Devices /\ i \in setup.ids
  BY DEF IsScenario, Configs, Ids, Settings, Devices

LEMMA WrittenType ==
    ASSUME TypeInv, NEW cfg \in Configs(setup)
    PROVE  Written(cfg) \in [Devices -> Profiles(setup) \cup {Absent}]
<1> DEFINE on == { i \in Ids(cfg) : cfg[i].on \/ ~isVLAN(cfg[i].dev) }
<1>1. ASSUME NEW d \in Devices PROVE Written(cfg)[d] \in Profiles(setup) \cup {Absent}
  <2>1. CASE d \in DevicesOf(cfg, on)
    <3> DEFINE i == CHOOSE i \in on : cfg[i].dev = d
    <3>1. i \in on
      BY <2>1 DEF DevicesOf
    <3>2. cfg[i] \in Settings(setup)
      BY <3>1, TypeFacts, SettingIs
    <3>3. Written(cfg)[d] = Rendered(cfg[i], cfg)
      BY <2>1 DEF Written
    <3> QED
      BY <3>2, <3>3, RenderedType
  <2>2. CASE d \notin DevicesOf(cfg, on)
    BY <2>2, TypeFacts DEF Written
  <2> QED
    BY <2>1, <2>2
<1> QED
  BY <1>1 DEF Written

LEMMA BeginType ==
    ASSUME TypeInv, NEW new \in Configs(setup), NEW prev \in Configs(setup), NEW touch \in SUBSET Ids(new),
           Begin(new, prev, touch)
    PROVE  /\ KernelNext /\ warned' \in BOOLEAN
           /\ leasing' \subseteq [dev : Devices, wan : BOOLEAN, late : BOOLEAN]
           /\ job' \in Jobs(setup) /\ job'.touch = touch /\ job'.rest = touch /\ job'.new = new
           /\ job'.stage \in {"ask", "write", "reconfigure", "saved"} => HasBackend
<1>1. KernelNext
  <2>1. kernel' = [d \in Devices |-> IF d \in MovedVlans(new, prev) THEN Gone ELSE kernel[d]]
    BY DEF Begin, Without
  <2>2. ASSUME NEW d \in Devices, d \in MovedVlans(new, prev)
        PROVE  kernel'[d] \in Cards(setup) /\ CardOK(kernel'[d], d \in setup.phys)
    <3>1. isVLAN(d) /\ d \notin setup.phys
      BY <2>2, TypeFacts DEF MovedVlans
    <3>2. Looks(Gone, FALSE, FALSE, {}, FALSE, NoRoute)
      BY TypeFacts, CardChanges
    <3> QED
      BY <2>1, <2>2, <3>1, <3>2 DEF Looks, CardOK
  <2> QED
    BY <2>1, <2>2, TypeFacts DEF KernelNext
<1>2. leasing' \subseteq [dev : Devices, wan : BOOLEAN, late : BOOLEAN]
  <2> SUFFICES ASSUME NEW q \in leasing' PROVE q \in [dev : Devices, wan : BOOLEAN, late : BOOLEAN]
    OBVIOUS
  <2>1. PICK r \in leasing : q = [r EXCEPT !.late = @ \/ r.dev \notin DevicesOf(new, (Ids(new) \cap Ids(prev)) \ touch)]
    BY DEF Begin
  <2> QED
    BY <2>1, TypeFacts
<1>3. /\ job' \in Jobs(setup) /\ job'.touch = touch /\ job'.rest = touch /\ job'.new = new
      /\ job'.stage \in {"ask", "write", "reconfigure", "saved"} => HasBackend
  <2>1. touch \in SUBSET setup.ids
    BY DEF Ids, Configs
  <2> QED
    BY <2>1 DEF Begin, FirstStage, Jobs
<1> QED
  BY <1>1, <1>2, <1>3 DEF Begin, HasBackend

LEMMA ScenarioStep ==
    ASSUME TypeInv, [Next]_vars
    PROVE  IsScenario(setup)' /\ SameScenario /\ found' = found
<1> DEFINE Fields == {"applies", "faults", "drifts", "renews", "reboots", "restarts"}
<1>1. found' = found /\ (setup' = setup \/ \E field \in Fields : Spend(field))
  <2>1. CASE UNCHANGED vars
    BY <2>1 DEF vars
  <2>2. ASSUME NEW cfg \in setup.configs, NEW read \in BOOLEAN, Apply(cfg, read)
        PROVE  found' = found /\ \E field \in Fields : Spend(field)
    BY <2>2 DEF Apply
  <2>3. CASE BootApply \/ HelperStarts \/ Write \/ Saved \/ Quiet
    BY <2>3 DEF BootApply, HelperStarts, Write, Saved, Quiet, vars
  <2>4. CASE AgentRestart \/ Reboot \/ WriteFails
    BY <2>4 DEF AgentRestart, Reboot, WriteFails
  <2>8. ASSUME NEW fails \in SUBSET Devices, Finish(fails)
        PROVE  found' = found /\ (setup' = setup \/ \E field \in Fields : Spend(field))
    BY <2>8 DEF Finish
  <2>5. ASSUME NEW i \in setup.ids,
               \/ Reconfigure(i) \/ ReconfigureFails(i) \/ AddressIsThere(i) \/ LeaseTimeout(i)
               \/ AddressTimeout(i) \/ SecondPass(i) \/ SecondPassFails(i) \/ RenewDHCP(i)
        PROVE  found' = found /\ (setup' = setup \/ \E field \in Fields : Spend(field))
    BY <2>5 DEF Reconfigure, ReconfigureFails, AddressIsThere, LeaseTimeout, AddressTimeout, SecondPass,
                SecondPassFails, RenewDHCP
  <2>6. ASSUME NEW r \in leasing, (\E answered \in BOOLEAN : DHClientEnds(r, answered)) \/ DHClientFails(r) \/ HelperRenews(r)
        PROVE  found' = found /\ setup' = setup
    BY <2>6 DEF DHClientEnds, DHClientFails, HelperRenews
  <2>7. ASSUME NEW d \in Devices, Settle(d) \/ Drift(d)
        PROVE  found' = found /\ (setup' = setup \/ \E field \in Fields : Spend(field))
    BY <2>7 DEF Settle, Drift
  <2> QED
    BY <2>1, <2>2, <2>3, <2>4, <2>5, <2>6, <2>7, <2>8 DEF Next
<1>2. IsScenario(setup)
  BY TypeFacts
<1>3. CASE setup' = setup
  BY <1>1, <1>2, <1>3 DEF SameScenario
<1>4. CASE \E field \in Fields : Spend(field)
  BY <1>1, <1>2, <1>4, SpendKeeps
<1> QED
  BY <1>1, <1>3, <1>4

(* A step of an application that goes on. *)
LEMMA JobGoesOn ==
    ASSUME TypeInv, job # NoJob, UNCHANGED force, NEW r \in SUBSET job.touch, NEW w \in SUBSET setup.ids,
           NEW st \in Stages, st \in {"ask", "write", "reconfigure", "saved"} => HasBackend,
           job' = [job EXCEPT !.stage = st, !.rest = r, !.waits = w]
    PROVE  JobNext
<1>1. job \in Jobs(setup) /\ r \in SUBSET setup.ids
  BY TypeFacts
<1>2. /\ job' \in Jobs(setup) /\ job'.new = job.new /\ job'.touch = job.touch
      /\ job'.stage = st /\ job'.rest = r
  BY <1>1 DEF Jobs, Stages
<1> QED
  BY <1>2, TypeFacts DEF JobNext

LEMMA SameJobType ==
    ASSUME TypeInv, UNCHANGED <<force, job>>
    PROVE  JobNext
  BY TypeFacts DEF JobNext, TypeInv

LEMMA SettledType ==
    ASSUME TypeInv, NEW d \in Devices, NEW k \in Settled(d)
    PROVE  k \in Cards(setup) /\ CardOK(k, d \in setup.phys)
<1>1. CASE profile[d] = Absent
  BY <1>1, TypeFacts DEF Settled
<1>2. CASE profile[d] # Absent
  <2>1. profile[d] \in Profiles(setup) /\ Activated(profile[d]) \in Profiles(setup)
    <3>1. profile[d] \in Profiles(setup)
      BY <1>2, TypeFacts
    <3> QED
      BY <3>1 DEF Activated, Profiles
  <2>2. PICK p \in Profiles(setup) : k \in Configured(kernel[d], p)
    BY <1>2, <2>1 DEF Settled
  <2>3. kernel[d] \in Cards(setup) /\ (d \in setup.phys) \in BOOLEAN
    BY TypeFacts
  <2> QED
    BY <2>2, <2>3, ConfiguredType
<1> QED
  BY <1>1, <1>2

(* One card changes. *)
LEMMA OneCardType ==
    ASSUME TypeInv, NEW d \in Devices, NEW k \in Cards(setup), CardOK(k, ~isVLAN(d)),
           kernel' = [kernel EXCEPT ![d] = k]
    PROVE  KernelNext
  BY TypeFacts DEF KernelNext

LEMMA SameKernelType ==
    ASSUME TypeInv, UNCHANGED kernel
    PROVE  KernelNext
  BY TypeFacts DEF KernelNext

LEMMA TypeSteps ==
    ASSUME TypeInv, [Next]_vars
    PROVE  TypeInv'
<1>0. /\ IsScenario(setup)' /\ SameScenario /\ found' = found /\ found \in setup.found
      /\ IsScenario(setup)
  BY ScenarioStep DEF TypeInv
<1>j. job # NoJob => /\ job \in Jobs(setup)
                     /\ \A X : job.rest \ X \subseteq job.touch
                     /\ job.touch \in SUBSET setup.ids /\ job.waits \in SUBSET setup.ids /\ job.rest \in SUBSET job.touch
                     /\ job.stage \in Stages
  BY TypeFacts
<1>o. /\ pending \subseteq Devices /\ excused \subseteq Devices
      /\ leasing \subseteq [dev : Devices, wan : BOOLEAN, late : BOOLEAN]
      /\ warned \in BOOLEAN /\ edited \in BOOLEAN
  BY DEF TypeInv, TypeOK
<1> SUFFICES KernelNext /\ ProfileNext /\ JobNext /\ OtherNext
  BY <1>0, TypeStep
<1>p. UNCHANGED profile => ProfileNext
  BY TypeFacts DEF ProfileNext
<1>h. HasBackend \in BOOLEAN
  BY DEF HasBackend
<1>1. CASE UNCHANGED vars
  BY <1>1, <1>p, <1>o, SameKernelType, SameJobType DEF vars, OtherNext
<1>2. ASSUME NEW cfg \in setup.configs, NEW read \in BOOLEAN, Apply(cfg, read)
      PROVE  KernelNext /\ ProfileNext /\ JobNext /\ OtherNext
  <2> DEFINE new == IF read THEN PopulateDynamicIPs(cfg, kernel) ELSE cfg
  <2>1. new \in Configs(setup)
    <3>1. cfg \in Configs(setup)
      BY <1>0 DEF IsScenario
    <3> QED
      BY <1>0, <3>1, TypeFacts, PopulatedIs
  <2>2. PICK later \in SUBSET Ids(new) :
           LET touch == Touched(new, force, later) IN
           /\ Begin(new, force, touch)
           /\ excused' = ((excused \cup MovedVlans(new, force)) \ DevicesOf(new, touch))
                            \cup Unseen(new, force, touch) \cup Left(new, force)
    BY <1>2 DEF Apply
  <2> DEFINE touch == Touched(new, force, later)
  <2>3. touch \in SUBSET Ids(new) /\ force \in Configs(setup)
    BY TypeFacts DEF Touched
  <2>4. MovedVlans(new, force) \subseteq Devices /\ Unseen(new, force, touch) \subseteq Devices
         /\ Left(new, force) \subseteq Devices
    BY <1>0, <2>1, <2>3, SettingIs DEF MovedVlans, Unseen, Left
  <2>5. UNCHANGED <<force, profile, pending, found>> /\ edited' = TRUE
    BY <1>2 DEF Apply
  <2> HIDE DEF new, touch
  <2>6. /\ KernelNext /\ warned' \in BOOLEAN
        /\ leasing' \subseteq [dev : Devices, wan : BOOLEAN, late : BOOLEAN]
        /\ job' \in Jobs(setup) /\ job'.touch = touch /\ job'.rest = touch /\ job'.new = new
        /\ job'.stage \in {"ask", "write", "reconfigure", "saved"} => HasBackend
    BY <2>1, <2>2, <2>3, BeginType DEF touch
  <2> QED
    BY <1>o, <1>p, <2>2, <2>3, <2>4, <2>5, <2>6 DEF JobNext, OtherNext, touch
<1>3. CASE BootApply
  <2> DEFINE touch == Touched(force, NoConfig, {})
  <2>1. NoConfig \in Configs(setup) /\ force \in Configs(setup)
    BY TypeFacts DEF NoConfig, Configs
  <2>2. touch \in SUBSET Ids(force) /\ Unused(force) \subseteq Devices
    BY DEF Touched, Unused
  <2>3. Begin(force, NoConfig, touch) /\ excused' = Unused(force)
        /\ UNCHANGED <<setup, force, profile, pending, found, edited>>
    BY <1>3 DEF BootApply
  <2> HIDE DEF touch
  <2>4. /\ KernelNext /\ warned' \in BOOLEAN
        /\ leasing' \subseteq [dev : Devices, wan : BOOLEAN, late : BOOLEAN]
        /\ job' \in Jobs(setup) /\ job'.touch = touch /\ job'.rest = touch /\ job'.new = force
        /\ job'.stage \in {"ask", "write", "reconfigure", "saved"} => HasBackend
    BY <2>1, <2>2, <2>3, BeginType
  <2> QED
    BY <1>o, <1>p, <2>1, <2>2, <2>3, <2>4 DEF JobNext, OtherNext
<1>b. job' = Booting /\ UNCHANGED force => JobNext
  <2>1. NoConfig \in Configs(setup) /\ force \in Configs(setup)
    BY TypeFacts DEF NoConfig, Configs
  <2> QED
    BY <2>1 DEF JobNext, Booting, Jobs
<1>4. CASE AgentRestart
  BY <1>4, <1>b, <1>o, <1>p, SameKernelType DEF AgentRestart, OtherNext
<1>5. CASE Reboot
  <2>1. KernelNext
    <3>1. kernel' \in [Devices -> UNION { Booted(profile[d], found[d], isVLAN(d)) : d \in Devices }]
          /\ \A d \in Devices : kernel'[d] \in Booted(profile[d], found[d], isVLAN(d))
      BY <1>5 DEF Reboot
    <3>2. ASSUME NEW d \in Devices PROVE kernel'[d] \in Cards(setup) /\ CardOK(kernel'[d], d \in setup.phys)
      <4>1. kernel'[d] \in Cards(setup) /\ CardOK(kernel'[d], ~isVLAN(d))
        <5>1. /\ profile[d] \in Profiles(setup) \cup {Absent} /\ found[d] \in Cards(setup)
              /\ CardOK(found[d], ~isVLAN(d)) /\ isVLAN(d) \in BOOLEAN
          BY TypeFacts DEF isVLAN
        <5> QED
          BY <3>1, <5>1, BootedType
      <4> QED
        BY <4>1, TypeFacts DEF CardOK
    <3> QED
      BY <3>1, <3>2 DEF KernelNext
  <2> QED
    BY <1>5, <1>b, <1>o, <1>p, <2>1 DEF Reboot, OtherNext
<1>6. CASE HelperStarts
  <2>1. job' = [job EXCEPT !.stage = "write", !.rest = job.rest, !.waits = job.waits]
    BY <1>6, <1>j, JobChanges DEF HelperStarts, Stages
  <2>2. JobNext
    BY <1>6, <1>j, <2>1, JobGoesOn DEF HelperStarts, Stages, TypeInv
  <2> QED
    BY <1>6, <1>o, <1>p, <2>2, SameKernelType DEF HelperStarts, OtherNext
<1>7. CASE Write
  <2>1. job' = [job EXCEPT !.stage = "reconfigure", !.rest = job.rest, !.waits = job.waits]
    BY <1>7, <1>j, JobChanges DEF Write, Stages
  <2>2. JobNext
    BY <1>7, <1>j, <2>1, JobGoesOn DEF Write, Stages, TypeInv
  <2>3. ProfileNext
    BY <1>7, TypeFacts, WrittenType DEF Write, ProfileNext
  <2> QED
    BY <1>7, <1>o, <2>2, <2>3, SameKernelType DEF Write, OtherNext
<1>u. job # NoJob /\ Unsaved /\ UNCHANGED force => JobNext
  <2> SUFFICES ASSUME job # NoJob, Unsaved, UNCHANGED force PROVE JobNext
    OBVIOUS
  <2>1. job' = [job EXCEPT !.stage = "ip", !.rest = job.touch, !.waits = {}]
    BY DEF Unsaved
  <2> QED
    BY <1>j, <2>1, JobGoesOn DEF Stages
<1>8. CASE WriteFails
  <2>1. ProfileNext
    <3>1. PICK some \in SUBSET Devices :
             profile' = [d \in Devices |-> IF d \in some THEN Written(job.new)[d] ELSE profile[d]]
      BY <1>8 DEF WriteFails
    <3>2. Written(job.new) \in [Devices -> Profiles(setup) \cup {Absent}]
      BY <1>8, TypeFacts, WrittenType DEF WriteFails
    <3> QED
      BY <3>1, <3>2, TypeFacts DEF ProfileNext
  <2> QED
    BY <1>8, <1>o, <1>u, <2>1, SameKernelType DEF WriteFails, Unsaved, OtherNext
<1>9. CASE Saved
  <2>1. job' = [job EXCEPT !.stage = "saved", !.rest = job.touch, !.waits = job.waits]
    BY <1>9, <1>j, JobChanges DEF Saved
  <2>2. JobNext
    BY <1>9, <1>j, <2>1, JobGoesOn DEF Saved, Stages, TypeInv
  <2> QED
    BY <1>9, <1>o, <1>p, <2>2, SameKernelType DEF Saved, OtherNext
<1>10. ASSUME NEW fails \in SUBSET Devices, Finish(fails)
       PROVE  KernelNext /\ ProfileNext /\ JobNext /\ OtherNext
  <2> DEFINE removed == DevicesOf(job.prev, Ids(job.prev) \ Ids(job.new))
  <2>1. job # NoJob /\ job.new \in Configs(setup) /\ job.prev \in Configs(setup)
    BY <1>10, TypeFacts DEF Finish
  <2>2. removed \subseteq Devices
    BY <1>0, <2>1, SettingIs DEF DevicesOf
  <2>3. /\ kernel' = [d \in Devices |-> IF d \in removed \ fails THEN Deconfigured(kernel[d], isVLAN(d)) ELSE kernel[d]]
        /\ force' = job.new /\ job' = NoJob
        /\ excused' = (excused \ removed) \cup (removed \ Unused(job.new)) \cup fails
        /\ UNCHANGED <<profile, pending, leasing, warned, found, edited>>
    BY <1>10 DEF Finish
  <2> HIDE DEF removed
  <2>4. ASSUME NEW d \in Devices PROVE kernel'[d] \in Cards(setup) /\ CardOK(kernel'[d], d \in setup.phys)
    <3>1. /\ kernel[d] \in Cards(setup) /\ CardOK(kernel[d], ~isVLAN(d)) /\ isVLAN(d) \in BOOLEAN
          /\ (d \in setup.phys) = ~isVLAN(d)
      BY TypeFacts DEF isVLAN
    <3>2. Deconfigured(kernel[d], isVLAN(d)) \in Cards(setup) /\ CardOK(Deconfigured(kernel[d], isVLAN(d)), ~isVLAN(d))
      BY <3>1, DeconfiguredIs
    <3> QED
      BY <2>3, <3>1, <3>2
  <2>5. KernelNext
    BY <2>3, <2>4 DEF KernelNext
  <2>6. JobNext
    BY <2>1, <2>3 DEF JobNext
  <2> QED
    BY <1>o, <1>p, <2>2, <2>3, <2>5, <2>6 DEF OtherNext
<1>11. ASSUME NEW i \in setup.ids, Reconfigure(i)
       PROVE  KernelNext /\ ProfileNext /\ JobNext /\ OtherNext
  <2> DEFINE d == job.new[i].dev
  <2>1. job # NoJob /\ job.stage = "reconfigure" /\ i \in job.rest
    BY <1>11 DEF Reconfigure
  <2>2. d \in Devices
    BY <2>1, <1>0, TypeFacts, SettingIs
  <2>3. KernelNext
    <3>1. Looks([Gone EXCEPT !.exists = TRUE], TRUE, FALSE, {}, FALSE, NoRoute)
      BY <2>2, TypeFacts, CardChanges
    <3>2. CardOK([Gone EXCEPT !.exists = TRUE], ~isVLAN(d)) /\ [Gone EXCEPT !.exists = TRUE] \in Cards(setup)
      BY <3>1, CardOKIs DEF Looks, isVLAN
    <3>3. UNCHANGED kernel \/ kernel' = [kernel EXCEPT ![d] = [Gone EXCEPT !.exists = TRUE]]
      BY <1>11 DEF Reconfigure
    <3> QED
      BY <2>2, <3>2, <3>3, SameKernelType, OneCardType
  <2>4. job' = [job EXCEPT !.stage = job.stage, !.rest = job.rest \ {i}, !.waits = {i}]
    BY <1>11, <1>j, <2>1, JobChanges DEF Reconfigure
  <2>5. JobNext
    <3>1. job.rest \ {i} \in SUBSET job.touch /\ {i} \in SUBSET setup.ids /\ UNCHANGED force /\ HasBackend
      BY <1>j, <1>11, <2>1 DEF Reconfigure, TypeInv
    <3> QED
      BY <1>j, <2>1, <2>4, <3>1, JobGoesOn
  <2> QED
    BY <1>11, <1>o, <1>p, <2>2, <2>3, <2>5 DEF Reconfigure, OtherNext
<1>12. ASSUME NEW i \in setup.ids, ReconfigureFails(i) \/ AddressTimeout(i)
       PROVE  KernelNext /\ ProfileNext /\ JobNext /\ OtherNext
  BY <1>12, <1>u, <1>o, <1>p, SameKernelType DEF ReconfigureFails, AddressTimeout, Unsaved, OtherNext
<1>13. ASSUME NEW i \in setup.ids, AddressIsThere(i) \/ LeaseTimeout(i)
       PROVE  KernelNext /\ ProfileNext /\ JobNext /\ OtherNext
  <2>1. job # NoJob /\ job' = [job EXCEPT !.waits = {}] /\ UNCHANGED force
    BY <1>13 DEF AddressIsThere, LeaseTimeout
  <2>2. job' = [job EXCEPT !.stage = job.stage, !.rest = job.rest, !.waits = {}]
    BY <1>j, <2>1, JobChanges
  <2>3. job.stage \in {"ask", "write", "reconfigure", "saved"} => HasBackend
    BY <2>1 DEF TypeInv
  <2>4. JobNext
    BY <1>j, <2>1, <2>2, <2>3, JobGoesOn
  <2> QED
    BY <1>13, <1>o, <1>p, <2>4, SameKernelType DEF AddressIsThere, LeaseTimeout, OtherNext
<1>14. ASSUME NEW i \in setup.ids, SecondPass(i)
       PROVE  KernelNext /\ ProfileNext /\ JobNext /\ OtherNext
  <2> DEFINE s == job.new[i]
  <2>1. job # NoJob /\ job.stage \in {"ip", "saved"} /\ i \in job.rest
    BY <1>14 DEF SecondPass
  <2>2. s \in Settings(setup) /\ s.dev \in Devices
    BY <2>1, <1>0, TypeFacts, SettingIs
  <2>3. PICK k \in (IF job.stage = "ip" THEN ApplyInterfaceConfig(kernel[s.dev], s, isVLAN(s.dev)) ELSE {kernel[s.dev]}) :
           kernel' = [kernel EXCEPT ![s.dev] = Cleared(k, s, job.new)]
    BY <1>14 DEF SecondPass
  <2>4. k \in Cards(setup) /\ CardOK(k, ~isVLAN(s.dev))
    <3>1. kernel[s.dev] \in Cards(setup) /\ CardOK(kernel[s.dev], ~isVLAN(s.dev)) /\ isVLAN(s.dev) \in BOOLEAN
      BY <2>2, TypeFacts DEF isVLAN
    <3> QED
      BY <2>2, <2>3, <3>1, AppliedIs
  <2>5. KernelNext
    <3>1. Cleared(k, s, job.new) \in Cards(setup) /\ CardOK(Cleared(k, s, job.new), ~isVLAN(s.dev))
      BY <2>4, ClearedIs DEF isVLAN
    <3> QED
      BY <2>2, <2>3, <3>1, OneCardType
  <2>6. JobNext
    <3>1. job' = [job EXCEPT !.stage = job.stage, !.rest = job.rest \ {i}, !.waits = job.waits]
      BY <1>14, <1>j, <2>1, JobChanges DEF SecondPass
    <3>2. UNCHANGED force /\ job.rest \ {i} \in SUBSET job.touch
      BY <1>14, <1>j, <2>1 DEF SecondPass
    <3>3. job.stage \in {"ask", "write", "reconfigure", "saved"} => HasBackend
      BY <2>1 DEF TypeInv
    <3> QED
      BY <1>j, <2>1, <3>1, <3>2, <3>3, JobGoesOn
  <2>7. leasing' \subseteq [dev : Devices, wan : BOOLEAN, late : BOOLEAN]
    <3>1. [dev |-> s.dev, wan |-> s.zone = "WAN", late |-> FALSE] \in [dev : Devices, wan : BOOLEAN, late : BOOLEAN]
      BY <2>2
    <3>2. leasing' = leasing \/ leasing' = leasing \cup {[dev |-> s.dev, wan |-> s.zone = "WAN", late |-> FALSE]}
      BY <1>14 DEF SecondPass, AsksForLease
    <3> QED
      BY <1>o, <3>1, <3>2
  <2> QED
    BY <1>14, <1>o, <1>p, <2>5, <2>6, <2>7 DEF SecondPass, OtherNext
<1>22. ASSUME NEW i \in setup.ids, SecondPassFails(i)
       PROVE  KernelNext /\ ProfileNext /\ JobNext /\ OtherNext
  <2> DEFINE s == job.new[i]
  <2>1. job # NoJob /\ job.stage \in {"ip", "saved"} /\ i \in job.rest
    BY <1>22 DEF SecondPassFails
  <2>2. s \in Settings(setup) /\ s.dev \in Devices
    BY <2>1, <1>0, TypeFacts, SettingIs
  <2>3. PICK k \in (IF job.stage = "ip" THEN ApplyFails(kernel[s.dev], s, isVLAN(s.dev)) ELSE {kernel[s.dev]}) :
           /\ \E after \in {k, Cleared(k, s, job.new)} : kernel' = [kernel EXCEPT ![s.dev] = after]
           /\ AsksForLease(s, k.exists)
    BY <1>22 DEF SecondPassFails
  <2>4. k \in Cards(setup) /\ CardOK(k, ~isVLAN(s.dev))
    <3>1. kernel[s.dev] \in Cards(setup) /\ CardOK(kernel[s.dev], ~isVLAN(s.dev)) /\ isVLAN(s.dev) \in BOOLEAN
      BY <2>2, TypeFacts DEF isVLAN
    <3> QED
      BY <2>2, <2>3, <3>1, FailsIs
  <2>5. KernelNext
    <3>1. PICK after \in {k, Cleared(k, s, job.new)} : kernel' = [kernel EXCEPT ![s.dev] = after]
      BY <2>3
    <3>2. Cleared(k, s, job.new) \in Cards(setup) /\ CardOK(Cleared(k, s, job.new), ~isVLAN(s.dev))
      BY <2>4, ClearedIs DEF isVLAN
    <3>3. after \in Cards(setup) /\ CardOK(after, ~isVLAN(s.dev))
      BY <2>4, <3>1, <3>2
    <3> QED
      BY <2>2, <3>1, <3>3, OneCardType
  <2>6. JobNext
    <3>1. job' = [job EXCEPT !.stage = job.stage, !.rest = job.rest \ {i}, !.waits = job.waits]
      BY <1>22, <1>j, <2>1, JobChanges DEF SecondPassFails
    <3>2. UNCHANGED force /\ job.rest \ {i} \in SUBSET job.touch
      BY <1>22, <1>j, <2>1 DEF SecondPassFails
    <3>3. job.stage \in {"ask", "write", "reconfigure", "saved"} => HasBackend
      BY <2>1 DEF TypeInv
    <3> QED
      BY <1>j, <2>1, <3>1, <3>2, <3>3, JobGoesOn
  <2>7. leasing' \subseteq [dev : Devices, wan : BOOLEAN, late : BOOLEAN]
    <3>1. [dev |-> s.dev, wan |-> s.zone = "WAN", late |-> FALSE] \in [dev : Devices, wan : BOOLEAN, late : BOOLEAN]
      BY <2>2
    <3>2. leasing' = leasing \/ leasing' = leasing \cup {[dev |-> s.dev, wan |-> s.zone = "WAN", late |-> FALSE]}
      BY <2>3 DEF AsksForLease
    <3> QED
      BY <1>o, <3>1, <3>2
  <2>8. excused' \subseteq Devices
    BY <1>22, <1>o, <2>2 DEF SecondPassFails
  <2> QED
    BY <1>22, <1>o, <1>p, <2>5, <2>6, <2>7, <2>8 DEF SecondPassFails, OtherNext
<1>15. ASSUME NEW i \in setup.ids, RenewDHCP(i)
       PROVE  KernelNext /\ ProfileNext /\ JobNext /\ OtherNext
  <2>1. i \in Ids(force) /\ force[i].dev \in Devices
    <3>1. i \in Ids(force)
      BY <1>15, TypeFacts DEF RenewDHCP, Ids, Configs
    <3> QED
      BY <1>0, <3>1, TypeFacts, SettingIs
  <2>2. [dev |-> force[i].dev, wan |-> force[i].zone = "WAN", late |-> job # NoJob]
           \in [dev : Devices, wan : BOOLEAN, late : BOOLEAN]
    BY <2>1
  <2> QED
    BY <1>15, <1>o, <1>p, <2>2, SameKernelType, SameJobType DEF RenewDHCP, OtherNext
<1>16. ASSUME NEW r \in leasing, NEW answered \in BOOLEAN, DHClientEnds(r, answered)
       PROVE  KernelNext /\ ProfileNext /\ JobNext /\ OtherNext
  <2>1. r.dev \in Devices /\ kernel[r.dev].exists /\ kernel' = [kernel EXCEPT ![r.dev] = Leasing(kernel[r.dev], r.wan, answered)]
    BY <1>16, TypeFacts DEF DHClientEnds
  <2> DEFINE k == kernel[r.dev]
             up == [k EXCEPT !.up = TRUE, !.lease = k.lease \/ answered]
             c == Leasing(k, r.wan, answered)
  <2>2. k \in Cards(setup)
    BY <2>1, TypeFacts
  <2> HIDE DEF k
  <2>3. Looks(up, k.exists, TRUE, k.perm, k.lease \/ answered, k.route)
    BY <2>2 DEF Looks, Cards
  <2> HIDE DEF up
  <2>4. Looks(RemoveDefaultRoute(up), k.exists, TRUE, k.perm, k.lease \/ answered, NoRoute)
    <3>1. up \in Cards(setup)
      BY <2>3 DEF Looks
    <3>2. Looks(RemoveDefaultRoute(up), up.exists, up.up, up.perm, up.lease, NoRoute)
      BY <3>1, CardChanges
    <3> QED
      BY <2>3, <3>2 DEF Looks
  <2>5. Looks([up EXCEPT !.route = FromISP], k.exists, TRUE, k.perm, k.lease \/ answered, FromISP)
    BY <2>3 DEF Looks, Cards, Routes
  <2>6. c \in {RemoveDefaultRoute(up), [up EXCEPT !.route = FromISP], up}
    BY DEF Leasing, up
  <2> HIDE DEF c
  <2>7. c \in Cards(setup) /\ c.exists /\ c.up
    BY <2>1, <2>3, <2>4, <2>5, <2>6 DEF Looks, k
  <2>8. KernelNext
    BY <2>1, <2>7, CardOKIs, OneCardType DEF c, k, isVLAN
  <2> QED
    BY <1>16, <1>o, <1>p, <2>1, <2>8, SameJobType DEF DHClientEnds, OtherNext
<1>17. ASSUME NEW r \in leasing, DHClientFails(r)
       PROVE  KernelNext /\ ProfileNext /\ JobNext /\ OtherNext
  BY <1>17, <1>o, <1>p, SameKernelType, SameJobType DEF DHClientFails, OtherNext
<1>18. ASSUME NEW r \in leasing, HelperRenews(r)
       PROVE  KernelNext /\ ProfileNext /\ JobNext /\ OtherNext
  <2>1. r.dev \in Devices
    BY TypeFacts
  <2>2. KernelNext
    <3> DEFINE k == kernel[r.dev]
    <3>1. k \in Cards(setup)
      BY <2>1, TypeFacts
    <3>2. CASE UNCHANGED kernel
      BY <3>2, SameKernelType
    <3>3. CASE ~UNCHANGED kernel
      <4> DEFINE ro == IF profile[r.dev].route = FromISP THEN FromISP ELSE k.route
                 c == [k EXCEPT !.lease = TRUE, !.route = ro]
      <4>1. /\ k.up
            /\ kernel' = [kernel EXCEPT ![r.dev].lease = TRUE,
                             ![r.dev].route = IF profile[r.dev].route = FromISP THEN FromISP ELSE @]
        BY <1>18, <3>3 DEF HelperRenews
      <4>2. kernel' = [kernel EXCEPT ![r.dev] = c]
        BY <2>1, <4>1, TypeFacts
      <4>3. ro \in Routes(setup)
        BY <3>1 DEF Cards, Routes
      <4> HIDE DEF k, ro
      <4>4. c \in Cards(setup) /\ c.up /\ c.exists = k.exists
        BY <3>1, <4>1, <4>3 DEF Cards, k
      <4>5. k.exists
        BY <2>1, <4>1, TypeFacts DEF CardOK, Gone, k
      <4> HIDE DEF c
      <4> QED
        BY <2>1, <4>2, <4>4, <4>5, CardOKIs, OneCardType DEF isVLAN
    <3> QED
      BY <3>2, <3>3
  <2> QED
    BY <1>18, <1>o, <1>p, <2>1, <2>2, SameJobType DEF HelperRenews, OtherNext
<1>19. ASSUME NEW d \in Devices, Settle(d)
       PROVE  KernelNext /\ ProfileNext /\ JobNext /\ OtherNext
  <2>1. PICK k \in Settled(d) : kernel' = [kernel EXCEPT ![d] = k]
    BY <1>19 DEF Settle
  <2>2. k \in Cards(setup) /\ CardOK(k, ~isVLAN(d))
    BY SettledType, TypeFacts
  <2>3. KernelNext
    BY <2>1, <2>2, OneCardType
  <2> QED
    BY <1>19, <1>o, <1>p, <2>3, SameJobType DEF Settle, OtherNext
<1>20. ASSUME NEW d \in Devices, Drift(d)
       PROVE  KernelNext /\ ProfileNext /\ JobNext /\ OtherNext
  <2> DEFINE k == kernel[d]
             leased == [k EXCEPT !.up = TRUE, !.perm = {}, !.lease = TRUE, !.route = FromISP]
             both == [k EXCEPT !.lease = TRUE]
  <2>1. k \in Cards(setup) /\ CardOK(k, ~isVLAN(d)) /\ k.exists
    BY <1>20, TypeFacts DEF Drift
  <2>2. PICK c \in {Down(k), leased, IF isVLAN(d) THEN Gone ELSE both} : kernel' = [kernel EXCEPT ![d] = c]
    BY <1>20 DEF Drift
  <2> HIDE DEF k
  <2>3. Looks(Down(k), k.exists, FALSE, k.perm, k.lease, NoRoute) /\ Looks(both, k.exists, k.up, k.perm, TRUE, k.route)
        /\ Looks(Gone, FALSE, FALSE, {}, FALSE, NoRoute)
    BY <2>1, CardChanges
  <2>4. Looks(leased, k.exists, TRUE, {}, TRUE, FromISP)
    BY <2>1 DEF Looks, Cards, Routes
  <2> HIDE DEF leased, both
  <2>5. c \in Cards(setup) /\ CardOK(c, ~isVLAN(d))
    <3>1. CASE c = Gone /\ isVLAN(d)
      BY <2>3, <3>1 DEF Looks, CardOK
    <3>2. CASE c \in {Down(k), leased, both}
      <4>1. c \in Cards(setup) /\ c.exists /\ (~c.up => c.route = NoRoute)
        BY <2>1, <2>3, <2>4, <3>2 DEF Looks, CardOK
      <4> QED
        BY <4>1, CardOKIs DEF isVLAN
    <3> QED
      BY <2>2, <3>1, <3>2
  <2>6. KernelNext
    BY <2>2, <2>5, OneCardType
  <2> QED
    BY <1>20, <1>o, <1>p, <2>6, SameJobType DEF Drift, OtherNext
<1>21. CASE Quiet
  BY <1>1, <1>21 DEF Quiet
<1> QED
  BY <1>1, <1>2, <1>3, <1>4, <1>5, <1>6, <1>7, <1>8, <1>9, <1>10, <1>11, <1>12, <1>13, <1>14, <1>15,
     <1>16, <1>17, <1>18, <1>19, <1>20, <1>21, <1>22 DEF Next

(* The first configuration is a configuration, with at most one interface  *)
(* on a card.                                                              *)
LEMMA AdoptedIs ==
    ASSUME NoAddr \notin Addresses(setup), NEW d \in Devices, NEW zone \in setup.zones, NEW k \in Cards(setup),
           NEW s \in Adopted(d, zone, k)
    PROVE  /\ s \in Settings(setup)
           /\ s.dev = d /\ s.on
           /\ IF isStatic(s) THEN s.ip \in k.perm ELSE s.type = "dhcp" /\ (k.lease \/ k.perm = {})
<1>1. PICK a \in AdoptSystemAddressing(k) :
         s = [dev |-> d, zone |-> zone, on |-> TRUE, type |-> a.type, ip |-> a.ip,
              gw |-> IF zone = "WAN" THEN a.gw ELSE NoRoute]
  BY DEF Adopted
<1>2. k.perm \subseteq Addresses(setup) /\ k.route \in Routes(setup) /\ NoRoute \in Routes(setup)
  BY DEF Cards, Routes
<1>3. d \in setup.phys \cup setup.vlans
  BY DEF Devices
<1>4. CASE a = [type |-> "dhcp", ip |-> NoAddr, gw |-> NoRoute] /\ (k.lease \/ k.perm = {})
  <2>1. s = [dev |-> d, zone |-> zone, on |-> TRUE, type |-> "dhcp", ip |-> NoAddr, gw |-> NoRoute]
    BY <1>1, <1>4
  <2> QED
    BY <1>2, <1>3, <1>4, <2>1 DEF Settings, isStatic
<1>5. ASSUME NEW x \in k.perm, a = [type |-> "static", ip |-> x, gw |-> k.route]
      PROVE  s \in Settings(setup) /\ s.dev = d /\ s.on /\ isStatic(s) /\ s.ip \in k.perm
  <2>1. PICK g \in Routes(setup) :
           s = [dev |-> d, zone |-> zone, on |-> TRUE, type |-> "static", ip |-> x, gw |-> g]
    BY <1>1, <1>2, <1>5
  <2> QED
    BY <1>2, <1>3, <2>1 DEF Settings, isStatic
<1> QED
  BY <1>1, <1>4, <1>5 DEF AdoptSystemAddressing

LEMMA PicksIs ==
    ASSUME NEW kern, NEW x, NEW d \in Picks(setup.phys, kern, x)
    PROVE  d \in Devices /\ d \notin x
  BY DEF Picks, Devices

LEMMA SeedIs ==
    ASSUME IsScenario(setup), found \in [Devices -> Cards(setup)], Seeded
    PROVE  /\ force \in Configs(setup) /\ DistinctCards(force)
           /\ \A i \in Ids(force) : \E zone \in {"HOST", "WAN", "LAN"} :
                 force[i] \in Adopted(force[i].dev, zone, found[force[i].dev])
<1> DEFINE none == [i \in setup.ids |-> Absent]
<1>0. Absent \notin Settings(setup)
  BY DEF IsScenario
<1>1. NoAddr \notin Addresses(setup) /\ {"WAN", "LAN", "HOST"} \subseteq setup.zones
  BY DEF IsScenario
<1>2. CASE setup.host
  <2>9. PICK d \in Picks(setup.phys, found, {}) :
           \E s \in Adopted(d, "HOST", found[d]) : force = [none EXCEPT !["host"] = s]
    BY <1>2, Zenon DEF Seeded
  <2>0. PICK s \in Adopted(d, "HOST", found[d]) : force = [none EXCEPT !["host"] = s]
    BY <2>9
  <2>1. d \in Devices /\ found[d] \in Cards(setup)
    BY <2>0, PicksIs
  <2>2. s \in Settings(setup) /\ s.dev = d
    BY <1>1, <2>1, AdoptedIs
  <2>3. setup.ids = {"host"}
    BY <1>2 DEF IsScenario
  <2>4. force \in Configs(setup) /\ Ids(force) = {"host"} /\ force["host"] = s
    BY <1>0, <2>0, <2>2, <2>3 DEF Configs, Ids
  <2> QED
    BY <2>0, <2>2, <2>4 DEF DistinctCards
<1>3. CASE ~setup.host
  <2>8. PICK d \in Picks(setup.phys, found, {}) : \E e \in Picks(setup.phys, found, {d}) :
           \E w \in Adopted(d, "WAN", found[d]), l \in Adopted(e, "LAN", found[e]) :
              force = [none EXCEPT !["wan"] = w, !["lan"] = l]
    BY <1>3, Zenon DEF Seeded
  <2>9. PICK e \in Picks(setup.phys, found, {d}) :
           \E w \in Adopted(d, "WAN", found[d]), l \in Adopted(e, "LAN", found[e]) :
              force = [none EXCEPT !["wan"] = w, !["lan"] = l]
    BY <2>8
  <2>0. PICK w \in Adopted(d, "WAN", found[d]), l \in Adopted(e, "LAN", found[e]) :
           force = [none EXCEPT !["wan"] = w, !["lan"] = l]
    BY <2>9
  <2>1. d \in Devices /\ e \in Devices /\ d # e /\ found[d] \in Cards(setup) /\ found[e] \in Cards(setup)
    BY <2>8, <2>9, PicksIs
  <2>2. w \in Settings(setup) /\ w.dev = d /\ l \in Settings(setup) /\ l.dev = e
    BY <1>1, <2>1, AdoptedIs
  <2>4. {"wan", "lan"} \subseteq setup.ids
    BY <1>3 DEF IsScenario
  <2>5. force \in Configs(setup) /\ Ids(force) = {"wan", "lan"} /\ force["wan"] = w /\ force["lan"] = l
    BY <1>0, <2>0, <2>2, <2>4 DEF Configs, Ids
  <2> QED
    BY <2>0, <2>1, <2>2, <2>5 DEF DistinctCards
<1> QED
  BY <1>2, <1>3

LEMMA TypeInit ==
    ASSUME Init
    PROVE  TypeInv
<1>1. IsScenario(setup)
  BY InterfacesConstants DEF Init
<1>2. found \in setup.found /\ found \in [Devices -> Cards(setup)] /\ kernel = found
  BY <1>1 DEF Init, IsScenario, Devices
<1>3. force \in Configs(setup)
  BY <1>1, <1>2, SeedIs DEF Init
<1>4. NoConfig \in Configs(setup)
  BY <1>3 DEF NoConfig, Configs
<1>5. job \in Jobs(setup) /\ job.stage = "boot" /\ job.touch = {} /\ job.rest = {}
  BY <1>3, <1>4 DEF Init, Booting, Jobs
<1>6. \A d \in Devices : CardOK(kernel[d], d \in setup.phys)
  <2> TAKE d \in Devices
  <2>1. CASE d \in setup.phys
    <3>1. CardOK(found[d], TRUE)
      BY <1>1, <1>2, <2>1 DEF IsScenario
    <3> QED
      BY <1>2, <2>1, <3>1 DEF CardOK
  <2>2. CASE d \notin setup.phys
    <3>1. found[d] = Gone
      BY <1>1, <1>2, <2>2 DEF IsScenario, Devices
    <3> QED
      BY <1>2, <2>2, <3>1 DEF CardOK, Gone
  <2> QED
    BY <2>1, <2>2
<1>7. profile \in [Devices -> Profiles(setup) \cup {Absent}] /\ excused \subseteq Devices
  BY DEF Init, Unused
<1> QED
  BY <1>1, <1>2, <1>3, <1>5, <1>6, <1>7 DEF Init, TypeInv, TypeOK, HelperBusy

(* The cards, the profiles, the configurations and the application under   *)
(* way stay what they can be, in every scenario: no step leaves an address *)
(* on a card that is not there, or a route on one that is down, and the    *)
(* helper is only asked where there is a backend.                          *)
THEOREM TypeCorrect == Spec => []TypeOK
<1>1. Init => TypeInv
  BY TypeInit
<1>2. TypeInv /\ [Next]_vars => TypeInv'
  BY TypeSteps
<1>3. TypeInv => TypeOK
  BY DEF TypeInv
<1> QED
  BY <1>1, <1>2, <1>3, PTL DEF Spec
-----------------------------------------------------------------------------
(* An application goes on: at this stage, with these interfaces still to   *)
(* do and to wait for.                                                     *)
Goes(stage, rest, waits) ==
    /\ job # NoJob /\ job' # NoJob /\ UNCHANGED force
    /\ job'.new = job.new /\ job'.prev = job.prev /\ job'.touch = job.touch
    /\ job'.stage = stage /\ job'.rest = rest /\ job'.waits = waits

Starts(new, prev, touch, stage) ==
    /\ job' # NoJob
    /\ job'.new = new /\ job'.prev = prev /\ job'.touch = touch
    /\ job'.stage = stage /\ job'.rest = touch /\ job'.waits = {}

LEMMA GoesOn ==
    ASSUME TypeInv, job # NoJob, UNCHANGED force, NEW st \in Stages, NEW r \in SUBSET setup.ids, NEW w \in SUBSET setup.ids,
           job' = [job EXCEPT !.stage = st, !.rest = r, !.waits = w]
    PROVE  Goes(st, r, w)
<1>1. job \in Jobs(setup) /\ NoJob \notin Jobs(setup)
  BY TypeFacts DEF IsScenario
<1>2. /\ job' \in Jobs(setup)
      /\ job'.new = job.new /\ job'.prev = job.prev /\ job'.touch = job.touch
      /\ job'.stage = st /\ job'.rest = r /\ job'.waits = w
  BY <1>1 DEF Jobs, Stages
<1> QED
  BY <1>1, <1>2 DEF Goes

LEMMA JobEffects ==
    ASSUME TypeInv
    PROVE  /\ HelperStarts => Goes("write", job.rest, job.waits)
           /\ Write => Goes("reconfigure", job.rest, job.waits)
           /\ WriteFails => Goes("ip", job.touch, {})
           /\ \A i \in setup.ids : Reconfigure(i) => Goes("reconfigure", job.rest \ {i}, {i})
           /\ \A i : ReconfigureFails(i) \/ AddressTimeout(i) => Goes("ip", job.touch, {})
           /\ \A i : AddressIsThere(i) \/ LeaseTimeout(i) => Goes(job.stage, job.rest, {})
           /\ Saved => Goes("saved", job.touch, job.waits)
           /\ \A i : SecondPass(i) \/ SecondPassFails(i) => Goes(job.stage, job.rest \ {i}, job.waits)
<1>1. job # NoJob => /\ job \in Jobs(setup) /\ job.stage \in Stages
                     /\ job.rest \in SUBSET setup.ids /\ job.waits \in SUBSET setup.ids /\ job.touch \in SUBSET setup.ids
                     /\ \A X : job.rest \ X \in SUBSET setup.ids
  BY TypeFacts
<1>2. \A st \in Stages : job # NoJob => [job EXCEPT !.stage = st] = [job EXCEPT !.stage = st, !.rest = job.rest, !.waits = job.waits]
  BY <1>1, JobChanges
<1>3. {"boot", "ask", "write", "reconfigure", "saved", "ip"} = Stages /\ {} \in SUBSET setup.ids
  BY DEF Stages
<1>4. HelperStarts => Goes("write", job.rest, job.waits)
  BY <1>1, <1>2, <1>3, GoesOn DEF HelperStarts
<1>5. Write => Goes("reconfigure", job.rest, job.waits)
  BY <1>1, <1>2, <1>3, GoesOn DEF Write
<1>6. job # NoJob /\ Unsaved /\ UNCHANGED force => Goes("ip", job.touch, {})
  <2> SUFFICES ASSUME job # NoJob, Unsaved, UNCHANGED force PROVE Goes("ip", job.touch, {})
    OBVIOUS
  <2>1. job' = [job EXCEPT !.stage = "ip", !.rest = job.touch, !.waits = {}]
    BY DEF Unsaved
  <2> QED
    BY <1>1, <1>3, <2>1, GoesOn
<1>7. WriteFails => Goes("ip", job.touch, {})
  BY <1>6 DEF WriteFails
<1>8. ASSUME NEW i, ReconfigureFails(i) \/ AddressTimeout(i) PROVE Goes("ip", job.touch, {})
  BY <1>6, <1>8 DEF ReconfigureFails, AddressTimeout
<1>9. ASSUME NEW i \in setup.ids, Reconfigure(i) PROVE Goes("reconfigure", job.rest \ {i}, {i})
  <2>1. job # NoJob /\ job.stage = "reconfigure" /\ UNCHANGED force /\ job' = [job EXCEPT !.rest = @ \ {i}, !.waits = {i}]
    BY <1>9 DEF Reconfigure
  <2>2. job' = [job EXCEPT !.stage = job.stage, !.rest = job.rest \ {i}, !.waits = {i}]
    BY <1>1, <2>1, JobChanges
  <2>3. {i} \in SUBSET setup.ids /\ job.rest \ {i} \in SUBSET setup.ids
    BY <1>1, <2>1
  <2> QED
    BY <1>1, <2>1, <2>2, <2>3, GoesOn
<1>10. ASSUME NEW i, AddressIsThere(i) \/ LeaseTimeout(i) PROVE Goes(job.stage, job.rest, {})
  <2>1. job # NoJob /\ UNCHANGED force /\ job' = [job EXCEPT !.waits = {}]
    BY <1>10 DEF AddressIsThere, LeaseTimeout
  <2>2. job' = [job EXCEPT !.stage = job.stage, !.rest = job.rest, !.waits = {}]
    BY <1>1, <2>1, JobChanges
  <2> QED
    BY <1>1, <1>3, <2>1, <2>2, GoesOn
<1>11. Saved => Goes("saved", job.touch, job.waits)
  <2> SUFFICES ASSUME Saved PROVE Goes("saved", job.touch, job.waits)
    OBVIOUS
  <2>1. job # NoJob /\ UNCHANGED force /\ job' = [job EXCEPT !.stage = "saved", !.rest = job.touch]
    BY DEF Saved
  <2>2. job' = [job EXCEPT !.stage = "saved", !.rest = job.touch, !.waits = job.waits]
    BY <1>1, <2>1, JobChanges
  <2> QED
    BY <1>1, <1>3, <2>1, <2>2, GoesOn
<1>12. ASSUME NEW i, SecondPass(i) \/ SecondPassFails(i) PROVE Goes(job.stage, job.rest \ {i}, job.waits)
  <2>1. job # NoJob /\ UNCHANGED force /\ job' = [job EXCEPT !.rest = @ \ {i}]
    BY <1>12 DEF SecondPass, SecondPassFails
  <2>2. job' = [job EXCEPT !.stage = job.stage, !.rest = job.rest \ {i}, !.waits = job.waits]
    BY <1>1, <2>1, JobChanges
  <2> QED
    BY <1>1, <2>1, <2>2, GoesOn
<1> QED
  BY <1>4, <1>5, <1>7, <1>8, <1>9, <1>10, <1>11, <1>12

LEMMA JobStarts ==
    ASSUME TypeInv, NEW new \in Configs(setup), NEW prev \in Configs(setup), NEW touch \in SUBSET Ids(new)
    PROVE  /\ Begin(new, prev, touch) => Starts(new, prev, touch, FirstStage)
           /\ job' = Booting => Starts(force, NoConfig, {}, "boot")
<1>1. touch \in SUBSET setup.ids /\ NoConfig \in Configs(setup) /\ force \in Configs(setup) /\ NoJob \notin Jobs(setup)
  BY TypeFacts DEF Ids, Configs, NoConfig, IsScenario
<1>2. Begin(new, prev, touch) => job' \in Jobs(setup)
  BY <1>1 DEF Begin, FirstStage, Jobs
<1>3. job' = Booting => job' \in Jobs(setup)
  BY <1>1 DEF Booting, Jobs
<1>4. Begin(new, prev, touch) => Starts(new, prev, touch, FirstStage)
  BY <1>1, <1>2 DEF Begin, Starts
<1>5. job' = Booting => Starts(force, NoConfig, {}, "boot")
  BY <1>1, <1>3 DEF Booting, Starts
<1> QED
  BY <1>4, <1>5
-----------------------------------------------------------------------------
CfgInv ==
    /\ \A cfg \in setup.configs : DistinctCards(cfg)
    /\ DistinctCards(force)
    /\ job # NoJob => DistinctCards(job.new)

LEMMA CfgInit ==
    ASSUME OneCardEach, Init
    PROVE  CfgInv
<1>1. TypeInv
  BY TypeInit
<1>2. DistinctCards(force)
  BY <1>1, TypeFacts, SeedIs DEF Init
<1> QED
  BY <1>2 DEF Init, Booting, OneCardEach, CfgInv

LEMMA CfgSteps ==
    ASSUME TypeInv, CfgInv, [Next]_vars
    PROVE  CfgInv'
<1>0. SameScenario
  BY ScenarioStep
<1> SUFFICES DistinctCards(force)' /\ (job' # NoJob => DistinctCards(job'.new))
  BY <1>0 DEF CfgInv, SameScenario, DistinctCards, Ids
<1>k. \A new : DistinctCards(new)' <=> DistinctCards(new)
  BY DEF DistinctCards, Ids
<1>s. UNCHANGED <<force, job>> => DistinctCards(force)' /\ (job' # NoJob => DistinctCards(job'.new))
  BY DEF CfgInv, DistinctCards, Ids
<1>g. ASSUME NEW st, NEW r, NEW w, Goes(st, r, w)
      PROVE  DistinctCards(force)' /\ (job' # NoJob => DistinctCards(job'.new))
  BY <1>g DEF CfgInv, DistinctCards, Ids, Goes
<1>1. CASE UNCHANGED vars \/ Quiet
  BY <1>1, <1>s DEF vars, Quiet
<1>2. ASSUME NEW cfg \in setup.configs, NEW read \in BOOLEAN, Apply(cfg, read)
      PROVE  DistinctCards(force)' /\ (job' # NoJob => DistinctCards(job'.new))
  <2> DEFINE new == IF read THEN PopulateDynamicIPs(cfg, kernel) ELSE cfg
  <2>1. job'.new = new /\ UNCHANGED force
    BY <1>2 DEF Apply, Begin
  <2>2. cfg \in Configs(setup) /\ DistinctCards(cfg)
    BY TypeFacts DEF IsScenario, CfgInv
  <2>3. DistinctCards(new)
    BY <2>2, TypeFacts, PopulatedIs DEF DistinctCards
  <2> QED
    BY <2>1, <2>3 DEF CfgInv, DistinctCards, Ids
<1>3. CASE BootApply \/ AgentRestart \/ Reboot
  BY <1>3 DEF BootApply, Begin, AgentRestart, Reboot, Booting, CfgInv, DistinctCards, Ids
<1>4. CASE HelperStarts \/ Write \/ WriteFails \/ Saved
  BY <1>4, <1>g, JobEffects
<1>5. CASE \E fails \in SUBSET Devices : Finish(fails)
  BY <1>5 DEF Finish, CfgInv, DistinctCards, Ids
<1>6. ASSUME NEW i \in setup.ids,
             \/ Reconfigure(i) \/ ReconfigureFails(i) \/ AddressIsThere(i) \/ LeaseTimeout(i)
             \/ AddressTimeout(i) \/ SecondPass(i) \/ SecondPassFails(i)
      PROVE  DistinctCards(force)' /\ (job' # NoJob => DistinctCards(job'.new))
  BY <1>6, <1>g, JobEffects
<1>7. ASSUME NEW i \in setup.ids, RenewDHCP(i) PROVE UNCHANGED <<force, job>>
  BY <1>7 DEF RenewDHCP
<1>8. ASSUME NEW r \in leasing, (\E answered \in BOOLEAN : DHClientEnds(r, answered)) \/ DHClientFails(r) \/ HelperRenews(r)
      PROVE  UNCHANGED <<force, job>>
  BY <1>8 DEF DHClientEnds, DHClientFails, HelperRenews
<1>9. ASSUME NEW d \in Devices, Settle(d) \/ Drift(d) PROVE UNCHANGED <<force, job>>
  BY <1>9 DEF Settle, Drift
<1> QED
  BY <1>s, <1>1, <1>2, <1>3, <1>4, <1>5, <1>6, <1>7, <1>8, <1>9 DEF Next
-----------------------------------------------------------------------------
(* The profiles on disk are those of a configuration. *)
OnDisk(s, prof, cfg) ==
    /\ \A i \in Ids(cfg) : cfg[i].on \/ cfg[i].dev \notin s.vlans => prof[cfg[i].dev] = Rendered(cfg[i], cfg)
    /\ \A i \in Ids(cfg) : ~cfg[i].on /\ cfg[i].dev \in s.vlans => prof[cfg[i].dev] = Absent
    /\ s.backend \in {"netplan", "networkd"} =>
         \A d \in (s.phys \cup s.vlans) \ DevicesOf(cfg, Ids(cfg)) : prof[d] = Absent

VlanProfiles == \A d \in Devices : profile[d] # Absent => HasBackend /\ (isVLAN(d) => profile[d].on)

ProfileInv ==
    /\ job # NoJob /\ job.stage \in {"reconfigure", "saved"} => OnDisk(setup, profile, job.new)
    /\ job # NoJob /\ job.stage = "ip" /\ HasBackend => warned
    /\ job = NoJob /\ HasBackend /\ ~warned => OnDisk(setup, profile, force)
    /\ VlanProfiles

LEMMA WrittenIs ==
    ASSUME TypeInv, NEW cfg \in Configs(setup), DistinctCards(cfg)
    PROVE  /\ \A i \in Ids(cfg) : cfg[i].on \/ ~isVLAN(cfg[i].dev) => Written(cfg)[cfg[i].dev] = Rendered(cfg[i], cfg)
           /\ \A i \in Ids(cfg) : ~cfg[i].on /\ isVLAN(cfg[i].dev) => Written(cfg)[cfg[i].dev] = Absent
           /\ ByNetworkd => \A d \in Devices \ DevicesOf(cfg, Ids(cfg)) : Written(cfg)[d] = Absent
           /\ \A d \in Devices : isVLAN(d) /\ Written(cfg)[d] # Absent =>
                Written(cfg)[d] = profile[d] \/ Written(cfg)[d].on
<1> DEFINE on == { i \in Ids(cfg) : cfg[i].on \/ ~isVLAN(cfg[i].dev) }
<1>0. IsScenario(setup)
  BY TypeFacts
<1>1. ASSUME NEW i \in Ids(cfg), i \in on PROVE Written(cfg)[cfg[i].dev] = Rendered(cfg[i], cfg)
  <2> DEFINE d == cfg[i].dev
             c == CHOOSE j \in on : cfg[j].dev = d
  <2>1. d \in DevicesOf(cfg, on) /\ d \in Devices
    BY <1>0, <1>1, SettingIs DEF DevicesOf
  <2>2. c \in on /\ cfg[c].dev = d
    BY <1>1
  <2>3. c = i
    BY <1>1, <2>2 DEF DistinctCards
  <2>4. Written(cfg)[d] = Rendered(cfg[c], cfg)
    BY <2>1 DEF Written
  <2> QED
    BY <2>3, <2>4
<1>2. ASSUME NEW i \in Ids(cfg), i \notin on PROVE Written(cfg)[cfg[i].dev] = Absent
  <2> DEFINE d == cfg[i].dev
  <2>1. d \in Devices /\ d \in DevicesOf(cfg, Ids(cfg))
    BY <1>0, SettingIs DEF DevicesOf
  <2>2. d \notin DevicesOf(cfg, on)
    BY <1>2 DEF DevicesOf, DistinctCards
  <2> QED
    BY <2>1, <2>2 DEF Written
<1>3. ASSUME ByNetworkd, NEW d \in Devices, d \notin DevicesOf(cfg, Ids(cfg)) PROVE Written(cfg)[d] = Absent
  <2>1. d \notin DevicesOf(cfg, on) /\ setup.backend # "NetworkManager"
    BY <1>3 DEF DevicesOf, ByNetworkd
  <2> QED
    BY <1>3, <2>1 DEF Written
<1>4. ASSUME NEW d \in Devices, isVLAN(d), Written(cfg)[d] # Absent
      PROVE  Written(cfg)[d] = profile[d] \/ Written(cfg)[d].on
  <2>1. CASE d \in DevicesOf(cfg, on)
    <3>1. PICK i \in on : cfg[i].dev = d
      BY <2>1 DEF DevicesOf
    <3>2. Written(cfg)[d] = Rendered(cfg[i], cfg) /\ cfg[i].on
      BY <1>1, <1>4, <3>1
    <3> QED
      BY <3>2 DEF Rendered
  <2>2. CASE d \notin DevicesOf(cfg, on)
    BY <1>4, <2>2 DEF Written
  <2> QED
    BY <2>1, <2>2
<1> QED
  BY <1>1, <1>2, <1>3, <1>4

LEMMA WrittenOnDisk ==
    ASSUME TypeInv, NEW cfg \in Configs(setup), DistinctCards(cfg)
    PROVE  OnDisk(setup, Written(cfg), cfg)
  BY WrittenIs DEF OnDisk, isVLAN, ByNetworkd, Devices

LEMMA ProfileSteps ==
    ASSUME TypeInv, CfgInv, ProfileInv, [Next]_vars
    PROVE  ProfileInv'
<1>0. SameScenario /\ Devices' = Devices /\ HasBackend' = HasBackend /\ \A d : isVLAN(d)' <=> isVLAN(d)
  BY ScenarioStep, SameTypes
<1>d. UNCHANGED profile => VlanProfiles'
  BY <1>0 DEF ProfileInv, VlanProfiles
<1>k. \A prof, cfg : OnDisk(setup', prof, cfg) <=> OnDisk(setup, prof, cfg)
  BY <1>0 DEF OnDisk, SameScenario
<1>s. UNCHANGED <<force, job, profile, warned>> => ProfileInv'
  BY <1>0, <1>d, <1>k DEF ProfileInv
<1>g. ASSUME NEW st, NEW r, NEW w, Goes(st, r, w), UNCHANGED <<profile, warned>>,
             st \in {"reconfigure", "saved"} => job.stage \in {"reconfigure", "saved"},
             st = "ip" => job.stage = "ip"
      PROVE  ProfileInv'
  BY <1>0, <1>d, <1>k, <1>g DEF ProfileInv, Goes
<1>i. ASSUME Goes("ip", job.touch, {}), warned', VlanProfiles' PROVE ProfileInv'
  BY <1>i DEF ProfileInv, Goes
<1>1. CASE UNCHANGED vars \/ Quiet
  BY <1>1, <1>s DEF vars, Quiet
<1>b. ASSUME NEW new, NEW prev, NEW touch, NEW st, Starts(new, prev, touch, st), UNCHANGED profile,
             st \notin {"reconfigure", "saved"}, st = "ip" => ~HasBackend
      PROVE  ProfileInv'
  BY <1>0, <1>b, <1>d DEF ProfileInv, Starts
<1>f. FirstStage \notin {"reconfigure", "saved"} /\ (FirstStage = "ip" => ~HasBackend)
  BY DEF FirstStage
<1>2. ASSUME NEW cfg \in setup.configs, NEW read \in BOOLEAN, Apply(cfg, read)
      PROVE  ProfileInv'
  <2> DEFINE new == IF read THEN PopulateDynamicIPs(cfg, kernel) ELSE cfg
  <2>1. new \in Configs(setup) /\ force \in Configs(setup)
    <3>1. cfg \in Configs(setup) /\ IsScenario(setup)
      BY TypeFacts DEF IsScenario
    <3> QED
      BY <3>1, TypeFacts, PopulatedIs
  <2>2. UNCHANGED profile /\ \E later : Begin(new, force, Touched(new, force, later))
    BY <1>2 DEF Apply
  <2>3. \A later : Touched(new, force, later) \in SUBSET Ids(new)
    BY DEF Touched
  <2> HIDE DEF new
  <2> QED
    BY <1>b, <1>f, <2>1, <2>2, <2>3, JobStarts
<1>3. CASE BootApply \/ AgentRestart \/ Reboot
  <2>1. UNCHANGED profile /\ (job' = Booting \/ Begin(force, NoConfig, Touched(force, NoConfig, {})))
    BY <1>3 DEF BootApply, AgentRestart, Reboot
  <2>2. Touched(force, NoConfig, {}) \in SUBSET Ids(force) /\ {} \in SUBSET Ids(force)
    BY DEF Touched
  <2>3. force \in Configs(setup) /\ NoConfig \in Configs(setup)
    BY TypeFacts DEF NoConfig, Configs
  <2> QED
    BY <1>b, <1>f, <2>1, <2>2, <2>3, JobStarts
<1>4. CASE HelperStarts
  BY <1>4, <1>g, JobEffects DEF HelperStarts
<1>w. ASSUME job # NoJob, job.stage = "write"
      PROVE  /\ HasBackend /\ job.new \in Configs(setup) /\ DistinctCards(job.new)
             /\ Written(job.new) \in [Devices -> Profiles(setup) \cup {Absent}]
             /\ OnDisk(setup, Written(job.new), job.new)
             /\ \A d \in Devices : isVLAN(d) /\ Written(job.new)[d] # Absent =>
                   Written(job.new)[d] = profile[d] \/ Written(job.new)[d].on
  BY <1>w, TypeFacts, WrittenType, WrittenIs, WrittenOnDisk DEF TypeInv, CfgInv
<1>5. CASE Write
  <2>1. profile' = Written(job.new) /\ Goes("reconfigure", job.rest, job.waits) /\ job # NoJob /\ job.stage = "write"
    BY <1>5, JobEffects DEF Write
  <2>2. VlanProfiles'
    BY <1>0, <1>w, <2>1 DEF VlanProfiles, ProfileInv
  <2> QED
    BY <1>0, <1>k, <1>w, <2>1, <2>2 DEF Goes, ProfileInv
<1>6. CASE WriteFails
  <2>1. /\ Goes("ip", job.touch, {}) /\ job # NoJob /\ job.stage = "write" /\ warned'
        /\ \E some \in SUBSET Devices :
             profile' = [d \in Devices |-> IF d \in some THEN Written(job.new)[d] ELSE profile[d]]
    BY <1>6, JobEffects DEF WriteFails, Unsaved
  <2>2. VlanProfiles'
    BY <1>0, <1>w, <2>1 DEF VlanProfiles, ProfileInv
  <2> QED
    BY <1>i, <2>1, <2>2
<1>7. CASE Saved
  BY <1>7, <1>g, JobEffects DEF Saved
<1>8. CASE \E fails \in SUBSET Devices : Finish(fails)
  <2>1. job # NoJob /\ job.stage \in {"ip", "saved"} /\ force' = job.new /\ job' = NoJob /\ UNCHANGED <<profile, warned>>
    BY <1>8 DEF Finish
  <2> QED
    BY <1>0, <1>d, <1>k, <2>1 DEF ProfileInv
<1>9. ASSUME NEW i \in setup.ids, Reconfigure(i) PROVE ProfileInv'
  BY <1>9, <1>g, JobEffects DEF Reconfigure
<1>10. ASSUME NEW i \in setup.ids, ReconfigureFails(i) \/ AddressTimeout(i) PROVE ProfileInv'
  BY <1>10, <1>d, <1>i, JobEffects DEF ReconfigureFails, AddressTimeout, Unsaved
<1>11. ASSUME NEW i \in setup.ids, AddressIsThere(i) \/ LeaseTimeout(i) PROVE ProfileInv'
  BY <1>11, <1>g, JobEffects DEF AddressIsThere, LeaseTimeout
<1>12. ASSUME NEW i \in setup.ids, SecondPass(i) \/ SecondPassFails(i) PROVE ProfileInv'
  BY <1>12, <1>g, JobEffects DEF SecondPass, SecondPassFails
<1>13. ASSUME NEW i \in setup.ids, RenewDHCP(i) PROVE ProfileInv'
  BY <1>13, <1>s DEF RenewDHCP
<1>14. ASSUME NEW r \in leasing, (\E answered \in BOOLEAN : DHClientEnds(r, answered)) \/ DHClientFails(r) \/ HelperRenews(r)
      PROVE  ProfileInv'
  BY <1>14, <1>s DEF DHClientEnds, DHClientFails, HelperRenews
<1>15. ASSUME NEW d \in Devices, Settle(d) \/ Drift(d) PROVE ProfileInv'
  BY <1>15, <1>s DEF Settle, Drift
<1> QED
  BY <1>1, <1>2, <1>3, <1>4, <1>5, <1>6, <1>7, <1>8, <1>9, <1>10, <1>11, <1>12, <1>13, <1>14, <1>15 DEF Next

LEMMA ProfileInit ==
    ASSUME Init
    PROVE  ProfileInv
<1>1. job = Booting /\ profile = [d \in Devices |-> Absent] /\ job # NoJob /\ job.stage = "boot"
  <2>1. TypeInv /\ NoConfig \in Configs(setup) /\ force \in Configs(setup)
    BY TypeInit, TypeFacts DEF NoConfig, Configs
  <2>2. job \in Jobs(setup) /\ NoJob \notin Jobs(setup) /\ job = Booting
    BY <2>1, TypeFacts DEF Init, Booting, Jobs, IsScenario
  <2> QED
    BY <2>2 DEF Init, Booting
<1> QED
  BY <1>1 DEF ProfileInv, VlanProfiles

(* What is on disk for the next boot is the configuration in force, unless *)
(* a warning says otherwise, in every sequence of applications with failed *)
(* and half-done writes, restarts and boots, whatever the cards do.        *)
THEOREM ProfilesFollowing ==
    ASSUME OneCardEach
    PROVE  Spec => []ProfilesFollow
<1>1. Init => TypeInv /\ CfgInv /\ ProfileInv
  BY TypeInit, CfgInit, ProfileInit
<1>2. TypeInv /\ CfgInv /\ ProfileInv /\ [Next]_vars => (TypeInv /\ CfgInv /\ ProfileInv)'
  BY TypeSteps, CfgSteps, ProfileSteps
<1>3. TypeInv /\ CfgInv /\ ProfileInv => ProfilesFollow
  BY DEF ProfileInv, ProfilesFollow, OnDisk, isVLAN, ByNetworkd, Devices
<1> QED
  BY <1>1, <1>2, <1>3, PTL DEF Spec
-----------------------------------------------------------------------------
(* The configuration that the cards are to follow, and how far they do: an *)
(* interface that the application leaves alone, whose card it has dealt    *)
(* with, whose default route it has seen to, which it has asked a lease    *)
(* for, which the owner of the network is to apply, and whose address the  *)
(* helper has waited for.                                                  *)
Config(f, j) == IF j = NoJob THEN f ELSE j.new

Untouched(j, i) == j = NoJob \/ (j.stage # "boot" /\ i \notin j.touch)
Done(j, i) == \/ Untouched(j, i) \/ j.stage = "saved"
              \/ j.stage \in {"reconfigure", "ip"} /\ i \notin j.rest
Cleaned(j, i) == Untouched(j, i) \/ (j.stage \in {"saved", "ip"} /\ i \notin j.rest)
Asked(j, i) == Untouched(j, i) \/ (j.stage = "ip" /\ i \notin j.rest)
InHand(j, i) == j # NoJob /\ j.stage \in {"reconfigure", "saved"} /\ i \in j.touch
There(j, i) == /\ j # NoJob /\ i \in j.touch
               /\ \/ j.stage = "saved"
                  \/ j.stage \in {"reconfigure", "ip"} /\ i \notin j.rest \cup j.waits

(* The parts of Follows.                                                   *)
Tolerated(sc, d) == sc.backend # "none" /\ (d \in sc.vlans <=> sc.backend \in {"netplan", "networkd"})

Placed(sc, s, k, p) ==
    IF ~s.on THEN ~k.up \/ Tolerated(sc, s.dev)
    ELSE /\ k.exists /\ k.up
         /\ isStatic(s) => k.perm \in {{s.ip}, p} /\ s.ip \in k.perm /\ ~k.lease
         /\ s.type = "dhcp" => k.perm = {}

Routed(s, cfg, k) == s.on /\ ~CarriesDefaultRoute(s, cfg) => k.route = NoRoute

Bound(s, k) == s.on /\ isStatic(s) => s.ip \in k.perm

(* What holds of the card of an interface.  While the owner of the network *)
(* has still to apply its profile it may be anything.                      *)
FineAt(cfg, i) ==
    LET d == cfg[i].dev IN
    d \notin excused =>
        /\ Done(job, i) => \/ Placed(setup, cfg[i], kernel[d], found[d].perm)
                           \/ d \in pending /\ (InHand(job, i) => profile[d] # Absent)
        /\ Cleaned(job, i) => Routed(cfg[i], cfg, kernel[d])
        /\ There(job, i) => Bound(cfg[i], kernel[d])

CardInv == \A i \in Ids(Config(force, job)) : FineAt(Config(force, job), i)

(* A card that no interface has, and that the end of the application does  *)
(* not take down either.                                                   *)
UnusedInv ==
    (job # NoJob => job.stage # "boot") =>
        \A d \in Devices \ excused :
            /\ d \notin DevicesOf(Config(force, job), Ids(Config(force, job)))
            /\ job # NoJob => d \notin DevicesOf(job.prev, Ids(job.prev) \ Ids(job.new))
            => kernel[d].perm = {}

(* A request for a lease that nothing has overtaken is for a card that is  *)
(* to have one.                                                            *)
IsFor(cfg, i, r) ==
    /\ cfg[i].dev = r.dev /\ cfg[i].on /\ cfg[i].type = "dhcp"
    /\ r.wan => CarriesDefaultRoute(cfg[i], cfg) \/ r.dev \in excused
    /\ Asked(job, i)

LeasingInv ==
    \A r \in leasing : r.late \/ \E i \in Ids(Config(force, job)) : IsFor(Config(force, job), i, r)

(* Only the installation leaves a card with several addresses.             *)
PermInv == \A d \in Devices : \/ kernel[d].perm = found[d].perm
                              \/ \A a, b \in kernel[d].perm : a = b

JobInv ==
    /\ job # NoJob =>
         /\ job.stage # "reconfigure" => job.waits = {}
         /\ job.stage = "boot" => leasing = {} /\ job.new = force /\ job.prev = NoConfig /\ job.touch = {}
         /\ job.stage \in {"ask", "write"} => job.rest = job.touch
    /\ pending # {} => HasBackend

(* Until the first apply the configuration is the one of the installation. *)
SeedInv ==
    ~edited =>
        /\ job # NoJob => job.new = force
        /\ \A i \in Ids(force) : LET s == force[i] IN
             /\ s.on
             /\ IF isStatic(s) THEN s.ip \in found[s.dev].perm
                ELSE s.type = "dhcp" /\ (found[s.dev].lease \/ found[s.dev].perm = {})

LEMMA Unaffected ==
    ASSUME SameScenario, UNCHANGED found, NEW c, NEW i, FineAt(c, i),
           kernel'[c[i].dev] = kernel[c[i].dev],
           c[i].dev \in excused => c[i].dev \in excused',
           c[i].dev \in pending => c[i].dev \in pending',
           Done(job', i) => Done(job, i), Cleaned(job', i) => Cleaned(job, i), There(job', i) => There(job, i),
           InHand(job', i) => InHand(job, i) /\ profile'[c[i].dev] = profile[c[i].dev]
    PROVE  FineAt(c, i)'
  BY DEF FineAt, SameScenario, Placed, Tolerated

LEMMA CardsFine ==
    ASSUME NEW c, Config(force, job)' = c, \A i \in Ids(c) : FineAt(c, i)'
    PROVE  CardInv'
  BY DEF CardInv, FineAt, Config

(* Of the interfaces of the configuration. *)
LEMMA ConfigIs ==
    ASSUME TypeInv, CfgInv, NEW c, c = Config(force, job)
    PROVE  /\ c \in Configs(setup) /\ DistinctCards(c)
           /\ \A i \in Ids(c) : c[i] \in Settings(setup) /\ c[i].dev \in Devices /\ i \in setup.ids
  BY TypeFacts, SettingIs DEF Config, CfgInv

(* What the owner of the network has for a card that is done with. *)
LEMMA Fresh ==
    ASSUME TypeInv, CfgInv, ProfileInv, JobInv, NEW c, c = Config(force, job), NEW i \in Ids(c),
           Done(job, i), ~isStale(c[i].dev)
    PROVE  \/ profile[c[i].dev] = Rendered(c[i], c)
           \/ profile[c[i].dev] = Absent /\ InHand(job, i) /\ ~c[i].on /\ isVLAN(c[i].dev)
<1>1. \/ profile[c[i].dev] = Rendered(c[i], c)
      \/ job # NoJob /\ job.stage # "ip" /\ i \in job.touch
  BY DEF isStale, Config
<1>2. CASE job # NoJob /\ job.stage # "ip" /\ i \in job.touch
  <2>1. job.stage \in {"reconfigure", "saved"} /\ c = job.new
    BY <1>2 DEF Done, Untouched, Config
  <2>2. OnDisk(setup, profile, c)
    BY <1>2, <2>1 DEF ProfileInv
  <2> QED
    BY <1>2, <2>1, <2>2 DEF OnDisk, InHand, isVLAN
<1> QED
  BY <1>1, <1>2

(* A card that is as its profile, and a card that is as the first pass     *)
(* wants it without touching it, is as its setting.                        *)
LEMMA SettlesAs ==
    ASSUME TypeInv, VlanProfiles, NEW s \in Settings(setup), NEW cfg, NEW k, s.dev \in Devices, NEW p,
           profile[s.dev] = Rendered(s, cfg), k \in Settled(s.dev)
    PROVE  /\ Placed(setup, s, k, p) /\ Bound(s, k)
           /\ Routed(s, cfg, kernel[s.dev]) => Routed(s, cfg, k)
<1> DEFINE d == s.dev
           q == Rendered(s, cfg)
           a == IF ByNetworkd THEN q ELSE Activated(q)
<1>1. q \in Profiles(setup) /\ Absent \notin Profiles(setup) /\ kernel[d] \in Cards(setup)
  BY RenderedType, TypeFacts DEF IsScenario
<1>2. HasBackend /\ (isVLAN(d) => q.on) /\ profile[d] # Absent
  BY <1>1 DEF VlanProfiles
<1>3. a \in Profiles(setup) /\ a.ip = q.ip /\ a.route = q.route /\ (a.on <=> q.on \/ ~ByNetworkd)
  BY <1>1 DEF Activated, Profiles
<1>4. k \in Configured(kernel[d], a)
  BY <1>2 DEF Settled
<1>5. /\ q.on = s.on /\ q.ip = (IF isStatic(s) THEN s.ip ELSE NoAddr)
      /\ ~CarriesDefaultRoute(s, cfg) => q.route = NoRoute
  BY DEF Rendered, CarriesDefaultRoute
<1> HIDE DEF a, q
<1>6. IF ~a.on THEN Looks(k, TRUE, FALSE, {}, FALSE, NoRoute)
      ELSE \E l \in BOOLEAN, r \in {a.route, NoRoute, kernel[d].route} :
             /\ Looks(k, TRUE, TRUE, IF a.ip = NoAddr THEN {} ELSE {a.ip}, l, r)
             /\ a.ip # NoAddr => ~l
             /\ a.route = NoRoute => r \in {NoRoute, kernel[d].route}
  BY <1>1, <1>3, <1>4, ConfiguredIs
<1>7. CASE ~s.on
  <2>1. ~ByNetworkd \/ ~k.up
    BY <1>3, <1>5, <1>6, <1>7 DEF Looks
  <2>2. ~ByNetworkd => Tolerated(setup, d)
    BY <1>2, <1>5, <1>7 DEF Tolerated, HasBackend, ByNetworkd, isVLAN
  <2> QED
    BY <1>7, <2>1, <2>2 DEF Placed, Bound, Routed
<1>8. CASE s.on
  <2>1. PICK l \in BOOLEAN, r \in {a.route, NoRoute, kernel[d].route} :
             /\ Looks(k, TRUE, TRUE, IF a.ip = NoAddr THEN {} ELSE {a.ip}, l, r)
             /\ a.ip # NoAddr => ~l
             /\ a.route = NoRoute => r \in {NoRoute, kernel[d].route}
    BY <1>3, <1>5, <1>6, <1>8
  <2>2. k.exists /\ k.up /\ k.perm = (IF a.ip = NoAddr THEN {} ELSE {a.ip}) /\ k.lease = l /\ k.route = r
    BY <2>1 DEF Looks
  <2>3. CASE isStatic(s)
    BY <1>3, <1>5, <1>8, <2>1, <2>2, <2>3 DEF Placed, Bound, Routed, isStatic
  <2>4. CASE ~isStatic(s)
    BY <1>3, <1>5, <1>8, <2>1, <2>2, <2>4 DEF Placed, Bound, Routed
  <2> QED
    BY <2>3, <2>4
<1> QED
  BY <1>7, <1>8

LEMMA MatchesAs ==
    ASSUME TypeInv, PermInv, NEW s \in Settings(setup), NEW cfg, NEW kern, s.dev \in Devices,
           kern[s.dev] = kernel[s.dev], MatchesSystemState(s, cfg, kern)
    PROVE  /\ Placed(setup, s, kernel[s.dev], found[s.dev].perm)
           /\ Routed(s, cfg, kernel[s.dev])
<1> DEFINE k == kernel[s.dev]
<1>1. CardOK(k, ~isVLAN(s.dev)) /\ k \in Cards(setup)
  BY TypeFacts
<1>2. k.perm = found[s.dev].perm \/ \A a, b \in k.perm : a = b
  BY DEF PermInv
<1>3. CASE ~s.on
  <2>1. ~k.up
    BY <1>1, <1>3 DEF MatchesSystemState, CardOK, Gone
  <2> QED
    BY <1>3, <2>1 DEF Placed, Routed
<1>4. CASE s.on
  <2>1. k.exists /\ k.up /\ Routed(s, cfg, k)
    BY <1>1, <1>4 DEF MatchesSystemState, Cards, Routed
  <2>2. CASE isStatic(s)
    BY <1>2, <1>4, <2>1, <2>2 DEF MatchesSystemState, Placed, isStatic
  <2>3. CASE ~isStatic(s)
    BY <1>4, <2>1, <2>3 DEF MatchesSystemState, Placed
  <2> QED
    BY <2>1, <2>2, <2>3
<1> QED
  BY <1>3, <1>4

LEMMA OneAddress ==
    ASSUME TypeInv, NEW v \in BOOLEAN, NEW k \in Cards(setup)
    PROVE  /\ \A s \in Settings(setup) : \A c \in ApplyInterfaceConfig(k, s, v) : c.perm \in {k.perm, {s.ip}, {}}
           /\ \A p \in Profiles(setup) : \A c \in Configured(k, p) : c.perm \in {{p.ip}, {}}
           /\ \A p \in Profiles(setup) \cup {Absent} : \A c \in Booted(p, k, v) :
                 c.perm = k.perm \/ \A a, b \in c.perm : a = b
<1>1. ASSUME NEW p \in Profiles(setup), NEW g \in Cards(setup), NEW c \in Configured(g, p) PROVE c.perm \in {{p.ip}, {}}
  BY <1>1, ConfiguredIs DEF Looks
<1>2. ASSUME NEW s \in Settings(setup), NEW c \in ApplyInterfaceConfig(k, s, v)
      PROVE  c.perm \in {k.perm, {s.ip}, {}}
  BY <1>2 DEF ApplyInterfaceConfig, Cards, Down
<1>3. Looks(Gone, FALSE, FALSE, {}, FALSE, NoRoute) /\ Looks([Gone EXCEPT !.exists = TRUE], TRUE, FALSE, {}, FALSE, NoRoute)
  BY CardChanges
<1>4. ASSUME NEW p \in Profiles(setup) \cup {Absent}, NEW c \in Booted(p, k, v)
      PROVE  c.perm = k.perm \/ \A a, b \in c.perm : a = b
  <2>1. CASE p # Absent
    <3>1. c \in Configured(Gone, p) /\ p \in Profiles(setup) /\ Gone \in Cards(setup)
      BY <1>3, <1>4, <2>1 DEF Booted, Looks
    <3> QED
      BY <1>1, <3>1
  <2>2. CASE p = Absent
    <3>1. c \in {k, Gone, [Gone EXCEPT !.exists = TRUE], [Gone EXCEPT !.exists = TRUE, !.up = TRUE, !.lease = TRUE, !.route = FromISP]}
      BY <1>4, <2>2 DEF Booted
    <3>2. [Gone EXCEPT !.exists = TRUE, !.up = TRUE, !.lease = TRUE, !.route = FromISP].perm = {}
      BY DEF Gone
    <3> QED
      BY <1>3, <3>1, <3>2 DEF Looks
  <2> QED
    BY <2>1, <2>2
<1> QED
  BY <1>1, <1>2, <1>4

LEMMA PermSteps ==
    ASSUME TypeInv, PermInv, [Next]_vars
    PROVE  PermInv'
<1>0. SameScenario /\ Devices' = Devices /\ found' = found /\ IsScenario(setup)
  BY ScenarioStep, SameTypes, TypeFacts
<1>t. /\ kernel \in [Devices -> Cards(setup)]
      /\ \A d \in Devices : kernel[d] \in Cards(setup) /\ found[d] \in Cards(setup) /\ isVLAN(d) \in BOOLEAN
      /\ profile \in [Devices -> Profiles(setup) \cup {Absent}]
  BY TypeFacts DEF isVLAN
<1> DEFINE Kept(d) == kernel'[d].perm \in {kernel[d].perm, found[d].perm} \/ \A a, b \in kernel'[d].perm : a = b
<1> SUFFICES \A d \in Devices : Kept(d)
  <2>1. ASSUME NEW d \in Devices
        PROVE  kernel'[d].perm = found'[d].perm \/ \A a, b \in kernel'[d].perm : a = b
    <3>1. Kept(d) /\ (kernel[d].perm = found[d].perm \/ \A a, b \in kernel[d].perm : a = b)
      BY <2>1 DEF PermInv
    <3> QED
      BY <1>0, <3>1
  <2> QED
    BY <1>0, <2>1 DEF PermInv
<1>e. \A k : k.perm = {} => \A a, b \in k.perm : a = b
  OBVIOUS
<1>s. UNCHANGED kernel => \A d \in Devices : Kept(d)
  OBVIOUS
<1>c. ASSUME NEW d \in Devices, NEW k, kernel' = [kernel EXCEPT ![d] = k], k.perm = kernel[d].perm \/ \A a, b \in k.perm : a = b
      PROVE  \A e \in Devices : Kept(e)
  BY <1>c, <1>t
<1>g. Gone.perm = {} /\ [Gone EXCEPT !.exists = TRUE].perm = {}
  BY DEF Gone
<1>1. CASE UNCHANGED vars \/ Quiet
  BY <1>1, <1>s DEF vars, Quiet
<1>2. ASSUME NEW new, NEW prev, NEW touch, Begin(new, prev, touch) PROVE \A d \in Devices : Kept(d)
  BY <1>2, <1>g DEF Begin, Without
<1>3. CASE \E cfg \in setup.configs, read \in BOOLEAN : Apply(cfg, read)
  BY <1>2, <1>3 DEF Apply
<1>4. CASE BootApply
  BY <1>2, <1>4 DEF BootApply
<1>5. CASE AgentRestart \/ HelperStarts \/ Write \/ WriteFails \/ Saved
  BY <1>5, <1>s DEF AgentRestart, HelperStarts, Write, WriteFails, Saved
<1>6. CASE Reboot
  <2>1. \A d \in Devices : kernel'[d] \in Booted(profile[d], found[d], isVLAN(d))
    BY <1>6 DEF Reboot
  <2> QED
    BY <1>t, <2>1, OneAddress
<1>7. CASE \E fails \in SUBSET Devices : Finish(fails)
  <2>1. \A d \in Devices : kernel'[d] \in {kernel[d], Deconfigured(kernel[d], isVLAN(d))}
    BY <1>7 DEF Finish
  <2>2. \A d \in Devices : Deconfigured(kernel[d], isVLAN(d)).perm = {}
    BY <1>t, TypeFacts, DeconfiguredIs
  <2> QED
    BY <2>1, <2>2
<1>8. ASSUME NEW i \in setup.ids, Reconfigure(i) PROVE \A d \in Devices : Kept(d)
  <2>1. kernel' = kernel \/ kernel' = [kernel EXCEPT ![job.new[i].dev] = [Gone EXCEPT !.exists = TRUE]]
    BY <1>8 DEF Reconfigure
  <2> QED
    BY <1>g, <1>t, <2>1
<1>9. ASSUME NEW i \in setup.ids, ReconfigureFails(i) \/ AddressTimeout(i) \/ AddressIsThere(i) \/ LeaseTimeout(i) \/ RenewDHCP(i)
      PROVE  \A d \in Devices : Kept(d)
  BY <1>9, <1>s DEF ReconfigureFails, AddressTimeout, AddressIsThere, LeaseTimeout, RenewDHCP
<1>10. ASSUME NEW i \in setup.ids, SecondPass(i) PROVE \A d \in Devices : Kept(d)
  <2> DEFINE s == job.new[i]
  <2>1. s \in Settings(setup) /\ s.dev \in Devices
    BY <1>10, <1>0, TypeFacts, SettingIs DEF SecondPass
  <2>2. PICK k \in (IF job.stage = "ip" THEN ApplyInterfaceConfig(kernel[s.dev], s, isVLAN(s.dev)) ELSE {kernel[s.dev]}) :
           kernel' = [kernel EXCEPT ![s.dev] = Cleared(k, s, job.new)]
    BY <1>10 DEF SecondPass
  <2>3. k \in Cards(setup) /\ CardOK(k, ~isVLAN(s.dev)) /\ k.perm \in {kernel[s.dev].perm, {s.ip}, {}}
    BY <1>t, <2>1, <2>2, TypeFacts, AppliedIs, OneAddress
  <2>4. Cleared(k, s, job.new).perm = k.perm
    BY <2>3 DEF Cleared, RemoveDefaultRoute, Cards
  <2> QED
    BY <1>c, <2>1, <2>2, <2>3, <2>4
<1>16. ASSUME NEW i \in setup.ids, SecondPassFails(i) PROVE \A d \in Devices : Kept(d)
  <2> DEFINE s == job.new[i]
  <2>1. s \in Settings(setup) /\ s.dev \in Devices
    BY <1>16, <1>0, TypeFacts, SettingIs DEF SecondPassFails
  <2>2. PICK k \in (IF job.stage = "ip" THEN ApplyFails(kernel[s.dev], s, isVLAN(s.dev)) ELSE {kernel[s.dev]}) :
           \E after \in {k, Cleared(k, s, job.new)} : kernel' = [kernel EXCEPT ![s.dev] = after]
    BY <1>16 DEF SecondPassFails
  <2>3. k \in Cards(setup) /\ k.perm \in {kernel[s.dev].perm, {s.ip}, {}}
    <3>1. /\ kernel[s.dev] \in Cards(setup) /\ isVLAN(s.dev) \in BOOLEAN
          /\ CardOK(kernel[s.dev], ~isVLAN(s.dev))
      BY <1>t, <2>1, TypeFacts
    <3>2. CASE job.stage = "ip"
      BY <2>1, <2>2, <3>1, <3>2, FailsIs
    <3>3. CASE job.stage # "ip"
      BY <2>2, <3>1, <3>3
    <3> QED
      BY <3>2, <3>3
  <2>4. Cleared(k, s, job.new).perm = k.perm
    BY <2>3 DEF Cleared, RemoveDefaultRoute, Cards
  <2> QED
    BY <1>c, <2>1, <2>2, <2>3, <2>4
<1>11. ASSUME NEW r \in leasing, NEW answered \in BOOLEAN, DHClientEnds(r, answered) PROVE \A d \in Devices : Kept(d)
  <2>1. r.dev \in Devices /\ kernel' = [kernel EXCEPT ![r.dev] = Leasing(kernel[r.dev], r.wan, answered)]
    BY <1>11, TypeFacts DEF DHClientEnds
  <2>2. Leasing(kernel[r.dev], r.wan, answered).perm = kernel[r.dev].perm
    BY <1>t, <2>1 DEF Leasing, Cards, RemoveDefaultRoute
  <2> QED
    BY <1>c, <2>1, <2>2
<1>12. ASSUME NEW r \in leasing, DHClientFails(r) PROVE \A d \in Devices : Kept(d)
  BY <1>12, <1>s DEF DHClientFails
<1>13. ASSUME NEW r \in leasing, HelperRenews(r) PROVE \A d \in Devices : Kept(d)
  <2>1. \/ UNCHANGED kernel
        \/ kernel' = [kernel EXCEPT ![r.dev].lease = TRUE,
                             ![r.dev].route = IF profile[r.dev].route = FromISP THEN FromISP ELSE @]
    BY <1>13 DEF HelperRenews
  <2>2. \A d \in Devices : kernel'[d].perm = kernel[d].perm
    BY <1>t, <2>1 DEF Cards
  <2> QED
    BY <2>2
<1>14. ASSUME NEW d \in Devices, Settle(d) PROVE \A e \in Devices : Kept(e)
  <2>1. PICK k \in Settled(d) : kernel' = [kernel EXCEPT ![d] = k]
    BY <1>14 DEF Settle
  <2>2. CASE profile[d] = Absent
    BY <1>c, <2>1, <2>2 DEF Settled
  <2>3. CASE profile[d] # Absent
    <3>1. profile[d] \in Profiles(setup) /\ Activated(profile[d]) \in Profiles(setup)
      <4>1. profile[d] \in Profiles(setup)
        BY <1>t, <2>3
      <4> QED
        BY <4>1 DEF Activated, Profiles
    <3>2. PICK p \in Profiles(setup) : k \in Configured(kernel[d], p)
      BY <2>1, <2>3, <3>1 DEF Settled
    <3>3. k.perm \in {{p.ip}, {}}
      BY <1>t, <3>2, OneAddress
    <3> QED
      BY <1>c, <2>1, <3>3
  <2> QED
    BY <2>2, <2>3
<1>15. ASSUME NEW d \in Devices, Drift(d) PROVE \A e \in Devices : Kept(e)
  <2>1. PICK k \in { Down(kernel[d]), [kernel[d] EXCEPT !.up = TRUE, !.perm = {}, !.lease = TRUE, !.route = FromISP],
                     IF isVLAN(d) THEN Gone ELSE [kernel[d] EXCEPT !.lease = TRUE] } :
           kernel' = [kernel EXCEPT ![d] = k]
    BY <1>15 DEF Drift
  <2>2. k.perm \in {kernel[d].perm, {}}
    BY <1>g, <1>t, <2>1 DEF Down, Cards
  <2> QED
    BY <1>c, <2>1, <2>2
<1> QED
  BY <1>1, <1>3, <1>4, <1>5, <1>6, <1>7, <1>8, <1>9, <1>10, <1>11, <1>12, <1>13, <1>14, <1>15, <1>16 DEF Next

LEMMA JobSteps ==
    ASSUME TypeInv, JobInv, [Next]_vars
    PROVE  JobInv'
<1>0. HasBackend' = HasBackend
  BY ScenarioStep, SameTypes
<1>s. UNCHANGED <<force, job>> /\ (pending' # {} => HasBackend) /\ (job # NoJob /\ job.stage = "boot" => leasing' = {}) => JobInv'
  BY <1>0 DEF JobInv, NoConfig
<1>g. ASSUME NEW st, NEW r, NEW w, Goes(st, r, w), UNCHANGED leasing, pending' # {} => HasBackend,
             st # "reconfigure" => w = {}, st # "boot",
             st \in {"ask", "write"} => r = job.touch
      PROVE  JobInv'
  BY <1>0, <1>g DEF JobInv, Goes
<1>b. ASSUME NEW new, NEW prev, NEW touch, NEW st, Starts(new, prev, touch, st), UNCHANGED force, pending' # {} => HasBackend,
             st = "boot" => leasing' = {} /\ new = force /\ prev = NoConfig /\ touch = {}
      PROVE  JobInv'
  BY <1>0, <1>b DEF JobInv, Starts, NoConfig
<1>p. pending # {} => HasBackend
  BY DEF JobInv
<1>1. CASE UNCHANGED vars \/ Quiet
  BY <1>1, <1>s, <1>p DEF vars, Quiet, JobInv
<1>2. ASSUME NEW new \in Configs(setup), NEW prev \in Configs(setup), NEW touch \in SUBSET Ids(new),
             Begin(new, prev, touch), UNCHANGED <<force, pending>>
      PROVE  JobInv'
  <2>1. FirstStage # "boot" /\ Starts(new, prev, touch, FirstStage)
    BY <1>2, JobStarts DEF FirstStage
  <2> QED
    BY <1>b, <1>2, <1>p, <2>1
<1>3. ASSUME NEW cfg \in setup.configs, NEW read \in BOOLEAN, Apply(cfg, read) PROVE JobInv'
  <2> DEFINE new == IF read THEN PopulateDynamicIPs(cfg, kernel) ELSE cfg
  <2>1. new \in Configs(setup) /\ force \in Configs(setup)
    <3>1. cfg \in Configs(setup) /\ IsScenario(setup)
      BY TypeFacts DEF IsScenario
    <3> QED
      BY <3>1, TypeFacts, PopulatedIs
  <2>2. UNCHANGED <<force, pending>> /\ \E later : Begin(new, force, Touched(new, force, later))
    BY <1>3 DEF Apply
  <2>3. \A later : Touched(new, force, later) \in SUBSET Ids(new)
    BY DEF Touched
  <2> HIDE DEF new
  <2> QED
    BY <1>2, <2>1, <2>2, <2>3
<1>4. CASE BootApply
  <2>1. NoConfig \in Configs(setup) /\ force \in Configs(setup)
    BY TypeFacts DEF NoConfig, Configs
  <2>2. Touched(force, NoConfig, {}) \in SUBSET Ids(force)
    BY DEF Touched
  <2> QED
    BY <1>2, <1>4, <2>1, <2>2 DEF BootApply
<1>5. CASE AgentRestart \/ Reboot
  <2>1. Starts(force, NoConfig, {}, "boot")
    <3>1. force \in Configs(setup) /\ {} \in SUBSET Ids(force)
      BY TypeFacts
    <3> QED
      BY <1>5, <3>1, JobStarts DEF AgentRestart, Reboot
  <2>2. UNCHANGED force /\ leasing' = {} /\ (pending' = pending \/ pending' = {})
    BY <1>5 DEF AgentRestart, Reboot
  <2> QED
    BY <1>b, <1>p, <2>1, <2>2
<1>w. job # NoJob => /\ job.stage \in Stages
                     /\ job.stage # "reconfigure" => job.waits = {}
                     /\ job.stage \in {"ask", "write"} => job.rest = job.touch
  BY TypeFacts DEF JobInv
<1>6. CASE HelperStarts
  <2>1. Goes("write", job.rest, job.waits) /\ UNCHANGED <<pending, leasing>> /\ job # NoJob /\ job.stage = "ask"
    BY <1>6, JobEffects DEF HelperStarts
  <2> QED
    BY <1>g, <1>p, <1>w, <2>1
<1>7. CASE Write
  <2>1. Goes("reconfigure", job.rest, job.waits) /\ UNCHANGED <<pending, leasing>>
    BY <1>7, JobEffects DEF Write
  <2> QED
    BY <1>g, <1>p, <2>1
<1>8. CASE WriteFails
  <2>1. Goes("ip", job.touch, {}) /\ UNCHANGED <<pending, leasing>>
    BY <1>8, JobEffects DEF WriteFails
  <2> QED
    BY <1>g, <1>p, <2>1
<1>9. CASE Saved
  <2>1. Goes("saved", job.touch, job.waits) /\ UNCHANGED <<pending, leasing>> /\ job.waits = {}
    BY <1>9, JobEffects DEF Saved
  <2> QED
    BY <1>g, <1>p, <2>1
<1>10. CASE \E fails \in SUBSET Devices : Finish(fails)
  <2>1. job' = NoJob /\ UNCHANGED pending
    BY <1>10 DEF Finish
  <2> QED
    BY <1>0, <1>p, <2>1 DEF JobInv
<1>11. ASSUME NEW i \in setup.ids, Reconfigure(i) PROVE JobInv'
  <2>1. Goes("reconfigure", job.rest \ {i}, {i}) /\ UNCHANGED leasing /\ HasBackend
    BY <1>11, JobEffects DEF Reconfigure, TypeInv
  <2> QED
    BY <1>g, <2>1
<1>12. ASSUME NEW i \in setup.ids, ReconfigureFails(i) \/ AddressTimeout(i) PROVE JobInv'
  <2>1. Goes("ip", job.touch, {}) /\ UNCHANGED <<pending, leasing>>
    BY <1>12, JobEffects DEF ReconfigureFails, AddressTimeout
  <2> QED
    BY <1>g, <1>p, <2>1
<1>13. ASSUME NEW i \in setup.ids, AddressIsThere(i) \/ LeaseTimeout(i) PROVE JobInv'
  <2>1. Goes(job.stage, job.rest, {}) /\ UNCHANGED <<pending, leasing>> /\ job # NoJob /\ job.stage = "reconfigure"
    BY <1>13, <1>w, JobEffects DEF AddressIsThere, LeaseTimeout
  <2> QED
    BY <1>g, <1>p, <2>1
<1>14. ASSUME NEW i \in setup.ids, SecondPass(i) \/ SecondPassFails(i) PROVE JobInv'
  <2>1. Goes(job.stage, job.rest \ {i}, job.waits) /\ UNCHANGED pending /\ job # NoJob /\ job.stage \in {"ip", "saved"}
    BY <1>14, JobEffects DEF SecondPass, SecondPassFails
  <2> QED
    BY <1>0, <1>p, <1>w, <2>1 DEF Goes, JobInv
<1>15. ASSUME NEW i \in setup.ids, RenewDHCP(i) PROVE JobInv'
  <2>1. job # NoJob => job.prev # NoConfig
    BY <1>15 DEF RenewDHCP
  <2> QED
    BY <1>15, <1>s, <1>p DEF RenewDHCP, JobInv
<1>16. ASSUME NEW r \in leasing, (\E answered \in BOOLEAN : DHClientEnds(r, answered)) \/ DHClientFails(r) \/ HelperRenews(r) PROVE JobInv'
  <2>1. UNCHANGED <<force, job>> /\ leasing' \subseteq leasing /\ (pending' = pending \/ HasBackend)
    BY <1>16 DEF DHClientEnds, DHClientFails, HelperRenews
  <2> QED
    BY <1>s, <1>p, <2>1 DEF JobInv
<1>17. ASSUME NEW d \in Devices, Settle(d) \/ Drift(d) PROVE JobInv'
  <2>1. UNCHANGED <<force, job, leasing>> /\ pending' \subseteq pending
    BY <1>17 DEF Settle, Drift
  <2> QED
    BY <1>s, <1>p, <2>1 DEF JobInv
<1> QED
  BY <1>1, <1>3, <1>4, <1>5, <1>6, <1>7, <1>8, <1>9, <1>10, <1>11, <1>12, <1>13, <1>14, <1>15, <1>16, <1>17 DEF Next

-----------------------------------------------------------------------------
LEMMA SeedSteps ==
    ASSUME TypeInv, SeedInv, [Next]_vars
    PROVE  SeedInv'
<1>0. found' = found
  BY ScenarioStep
<1>s. UNCHANGED <<force, job, edited>> => SeedInv'
  BY <1>0 DEF SeedInv
<1>g. ASSUME NEW st, NEW r, NEW w, Goes(st, r, w), UNCHANGED edited
      PROVE  SeedInv'
  BY <1>0, <1>g DEF SeedInv, Goes
<1>b. ASSUME NEW prev, NEW touch, NEW st, Starts(force, prev, touch, st), UNCHANGED <<force, edited>>
      PROVE  SeedInv'
  BY <1>0, <1>b DEF SeedInv, Starts
<1>1. CASE UNCHANGED vars \/ Quiet
  BY <1>1, <1>s DEF vars, Quiet
<1>2. CASE \E cfg \in setup.configs, read \in BOOLEAN : Apply(cfg, read)
  BY <1>2 DEF Apply, SeedInv
<1>3. CASE BootApply \/ AgentRestart \/ Reboot
  <2>1. force \in Configs(setup) /\ NoConfig \in Configs(setup)
    BY TypeFacts DEF NoConfig, Configs
  <2>2. Touched(force, NoConfig, {}) \in SUBSET Ids(force) /\ {} \in SUBSET Ids(force)
    BY DEF Touched
  <2>3. \E touch, st : Starts(force, NoConfig, touch, st)
    BY <1>3, <2>1, <2>2, JobStarts DEF BootApply, AgentRestart, Reboot
  <2> QED
    BY <1>3, <1>b, <2>3 DEF BootApply, AgentRestart, Reboot
<1>4. CASE HelperStarts \/ Write \/ WriteFails \/ Saved
  <2>1. (\E st, r, w : Goes(st, r, w)) /\ UNCHANGED edited
    BY <1>4, JobEffects DEF HelperStarts, Write, WriteFails, Saved
  <2> QED
    BY <1>g, <2>1
<1>5. CASE \E fails \in SUBSET Devices : Finish(fails)
  BY <1>0, <1>5 DEF Finish, SeedInv
<1>6. ASSUME NEW i \in setup.ids,
             \/ Reconfigure(i) \/ ReconfigureFails(i) \/ AddressIsThere(i) \/ LeaseTimeout(i)
             \/ AddressTimeout(i) \/ SecondPass(i) \/ SecondPassFails(i)
      PROVE  SeedInv'
  <2>1. (\E st, r, w : Goes(st, r, w)) /\ UNCHANGED edited
    BY <1>6, JobEffects DEF Reconfigure, ReconfigureFails, AddressIsThere, LeaseTimeout, AddressTimeout, SecondPass,
                      SecondPassFails
  <2> QED
    BY <1>g, <2>1
<1>7. ASSUME NEW i \in setup.ids, RenewDHCP(i) PROVE SeedInv'
  BY <1>7, <1>s DEF RenewDHCP
<1>8. ASSUME NEW r \in leasing, (\E answered \in BOOLEAN : DHClientEnds(r, answered)) \/ DHClientFails(r) \/ HelperRenews(r)
      PROVE  SeedInv'
  BY <1>8, <1>s DEF DHClientEnds, DHClientFails, HelperRenews
<1>9. ASSUME NEW d \in Devices, Settle(d) \/ Drift(d) PROVE SeedInv'
  BY <1>9, <1>s DEF Settle, Drift
<1> QED
  BY <1>1, <1>2, <1>3, <1>4, <1>5, <1>6, <1>7, <1>8, <1>9 DEF Next

(* The invariants that the steps of an application rest on. *)
Standing == TypeInv /\ CfgInv /\ ProfileInv /\ JobInv /\ PermInv /\ CardInv

LEMMA StandingConfig ==
    ASSUME Standing, NEW c, c = Config(force, job)
    PROVE  /\ c \in Configs(setup) /\ DistinctCards(c)
           /\ \A i \in Ids(c) : c[i] \in Settings(setup) /\ c[i].dev \in Devices /\ i \in setup.ids
           /\ \A i \in Ids(c) : FineAt(c, i)
  BY ConfigIs DEF Standing, CardInv

(* Something happens to a card while the application stands still. *)
LEMMA OneCardFine ==
    ASSUME Standing, [Next]_vars, UNCHANGED <<force, job, profile>>, NEW d \in Devices,
           \A e \in Devices : e # d =>
               kernel'[e] = kernel[e] /\ (e \in excused => e \in excused') /\ (e \in pending => e \in pending'),
           \A c, i : c = Config(force, job) /\ i \in Ids(c) /\ c[i].dev = d => FineAt(c, i)'
    PROVE  CardInv'
<1>0. SameScenario /\ UNCHANGED found
  BY ScenarioStep DEF Standing
<1> DEFINE c == Config(force, job)
<1>1. PICK g : g = c
  OBVIOUS
<1>2. Config(force, job)' = g
  BY <1>1 DEF Config
<1>3. ASSUME NEW i \in Ids(g) PROVE FineAt(g, i)'
  <2>1. g[i].dev \in Devices /\ FineAt(g, i)
    BY <1>1, StandingConfig
  <2>2. CASE g[i].dev = d
    BY <1>1, <1>3, <2>2
  <2>3. CASE g[i].dev # d
    BY <1>0, <2>1, <2>3, Unaffected
  <2> QED
    BY <2>2, <2>3
<1> QED
  BY <1>2, <1>3, CardsFine

(* A card that is left to others, and one that nothing happens to. *)
LEMMA ExcusedIsFine ==
    ASSUME NEW c, NEW i, c[i].dev \in excused'
    PROVE  FineAt(c, i)'
  BY DEF FineAt

(* The application takes a step, which may concern the card of i. *)
LEMMA StepFine ==
    ASSUME Standing, [Next]_vars, job # NoJob, NEW st, NEW r, NEW w, Goes(st, r, w), UNCHANGED excused,
           NEW i, pending \subseteq pending',
           \A e \in Devices : (i \in Ids(job.new) => e # job.new[i].dev) => kernel'[e] = kernel[e],
           \A j \in Ids(job.new) \ {i} :
               /\ Done(job', j) => Done(job, j)
               /\ Cleaned(job', j) => Cleaned(job, j)
               /\ There(job', j) => There(job, j)
               /\ InHand(job', j) => InHand(job, j) /\ UNCHANGED profile,
           i \in Ids(job.new) => \A c : c = job.new => FineAt(c, i)'
    PROVE  CardInv'
<1>0. SameScenario /\ UNCHANGED found
  BY ScenarioStep DEF Standing
<1>1. PICK g : g = job.new
  OBVIOUS
<1>2. Config(force, job)' = g /\ Config(force, job) = g
  BY <1>1 DEF Config, Goes
<1>3. ASSUME NEW j \in Ids(g) PROVE FineAt(g, j)'
  <2>1. g[j].dev \in Devices /\ FineAt(g, j) /\ DistinctCards(g)
    BY <1>2, StandingConfig
  <2>2. CASE j = i
    BY <1>1, <1>3, <2>2
  <2>3. CASE j # i
    <3>1. kernel'[g[j].dev] = kernel[g[j].dev]
      BY <1>1, <2>1, <2>3 DEF DistinctCards
    <3> QED
      BY <1>0, <1>1, <2>1, <2>3, <3>1, Unaffected
  <2> QED
    BY <2>2, <2>3
<1> QED
  BY <1>2, <1>3, CardsFine

LEMMA SettleFine ==
    ASSUME Standing, [Next]_vars, NEW d \in Devices, Settle(d)
    PROVE  CardInv'
<1>0. SameScenario /\ UNCHANGED found /\ TypeInv /\ CfgInv /\ ProfileInv /\ JobInv /\ VlanProfiles
  BY ScenarioStep DEF Standing, ProfileInv
<1>1. UNCHANGED <<force, job, profile>> /\ excused \subseteq excused' /\ pending' = pending \ {d}
      /\ (isStale(d) => d \in excused')
  BY DEF Settle
<1>2. PICK k \in Settled(d) : kernel' = [kernel EXCEPT ![d] = k]
  BY DEF Settle
<1>3. kernel'[d] = k /\ \A e \in Devices : e # d => kernel'[e] = kernel[e]
  BY <1>0, <1>2, TypeFacts
<1>4. ASSUME NEW c, NEW i, c = Config(force, job), i \in Ids(c), c[i].dev = d PROVE FineAt(c, i)'
  <2>1. CASE d \in excused'
    BY <1>4, <2>1, ExcusedIsFine
  <2>2. CASE d \notin excused'
    <3>1. ~isStale(d) /\ d \notin excused /\ FineAt(c, i) /\ c[i] \in Settings(setup)
      BY <1>1, <1>4, <2>2, StandingConfig
    <3>2. Cleaned(job, i) \/ There(job, i) => Done(job, i)
      BY DEF Cleaned, There, Done
    <3>3. CASE ~Done(job, i)
      BY <1>1, <3>2, <3>3 DEF FineAt
    <3>4. CASE Done(job, i) /\ profile[d] = Rendered(c[i], c)
      <4>1. /\ Placed(setup, c[i], k, found[d].perm) /\ Bound(c[i], k)
            /\ Routed(c[i], c, kernel[d]) => Routed(c[i], c, k)
        BY <1>0, <1>2, <1>4, <3>1, <3>4, SettlesAs
      <4>2. Cleaned(job, i) => Routed(c[i], c, kernel[d])
        BY <1>4, <3>1 DEF FineAt
      <4>3. Placed(setup', c[i], k, found[d].perm)
        BY <1>0, <4>1 DEF Placed, Tolerated, SameScenario
      <4> QED
        BY <1>0, <1>1, <1>3, <1>4, <4>1, <4>2, <4>3 DEF FineAt
    <3>5. CASE Done(job, i) /\ profile[d] = Absent /\ InHand(job, i)
      <4>1. k = kernel[d]
        BY <3>5 DEF Settled
      <4>2. Placed(setup, c[i], kernel[d], found[d].perm)
        BY <1>4, <3>1, <3>5 DEF FineAt
      <4>3. Placed(setup', c[i], kernel[d], found[d].perm)
        BY <1>0, <4>2 DEF Placed, Tolerated, SameScenario
      <4> QED
        BY <1>0, <1>1, <1>3, <1>4, <3>1, <4>1, <4>3 DEF FineAt
    <3>6. Done(job, i) => \/ profile[d] = Rendered(c[i], c)
                          \/ profile[d] = Absent /\ InHand(job, i)
      BY <1>0, <1>4, <3>1, Fresh
    <3> QED
      BY <3>3, <3>4, <3>5, <3>6
  <2> QED
    BY <2>1, <2>2
<1> QED
  BY <1>1, <1>3, <1>4, OneCardFine

LEMMA DriftFine ==
    ASSUME Standing, [Next]_vars, NEW d \in Devices, Drift(d)
    PROVE  CardInv'
<1>1. UNCHANGED <<force, job, profile, pending>> /\ excused' = excused \cup {d}
  BY DEF Drift
<1>2. \A e \in Devices : e # d => kernel'[e] = kernel[e]
  BY TypeFacts DEF Drift, Standing
<1>3. ASSUME NEW c, NEW i, c[i].dev = d PROVE FineAt(c, i)'
  BY <1>1, <1>3, ExcusedIsFine
<1> QED
  BY <1>1, <1>2, <1>3, OneCardFine

(* The interface that a request is for, and its card. *)
LEMMA RequestIs ==
    ASSUME Standing, LeasingInv, NEW r \in leasing, ~r.late, NEW c, c = Config(force, job)
    PROVE  \E i \in Ids(c) : /\ IsFor(c, i, r) /\ Done(job, i) /\ ~isStatic(c[i])
                             /\ \A j \in Ids(c) : c[j].dev = r.dev => j = i
<1>1. PICK i \in Ids(c) : IsFor(c, i, r)
  BY DEF LeasingInv
<1>2. DistinctCards(c) /\ c[i].dev = r.dev
  BY <1>1, StandingConfig DEF IsFor
<1> QED
  BY <1>1, <1>2 DEF DistinctCards, IsFor, isStatic, Asked, Done

LEMMA DHClientFine ==
    ASSUME Standing, LeasingInv, [Next]_vars, NEW r \in leasing, NEW answered \in BOOLEAN, DHClientEnds(r, answered)
    PROVE  CardInv'
<1>0. SameScenario /\ UNCHANGED found /\ TypeInv /\ JobInv
  BY ScenarioStep DEF Standing
<1> DEFINE d == r.dev
           k == Leasing(kernel[d], r.wan, answered)
<1>1. d \in Devices /\ kernel' = [kernel EXCEPT ![d] = k] /\ kernel[d].exists /\ pending = {}
  BY <1>0, TypeFacts DEF DHClientEnds, JobInv
<1>2. UNCHANGED <<force, job, profile, pending>> /\ (IF r.late THEN excused' = excused \cup {d} ELSE excused' = excused)
  BY DEF DHClientEnds
<1>3. kernel'[d] = k /\ \A e \in Devices : e # d => kernel'[e] = kernel[e]
  BY <1>0, <1>1, TypeFacts
<1>4. k.up /\ k.exists /\ k.perm = kernel[d].perm /\ (~r.wan => k.route = NoRoute)
  <2>1. kernel[d] \in Cards(setup)
    BY <1>0, <1>1, TypeFacts
  <2> QED
    BY <1>1, <2>1 DEF Leasing, RemoveDefaultRoute, Cards
<1> HIDE DEF k
<1>5. ASSUME NEW c, NEW i, c = Config(force, job), i \in Ids(c), c[i].dev = d PROVE FineAt(c, i)'
  <2>1. CASE r.late \/ d \in excused
    BY <1>2, <1>5, <2>1, ExcusedIsFine
  <2>2. CASE ~r.late /\ d \notin excused
    <3>1. IsFor(c, i, r) /\ ~isStatic(c[i]) /\ Done(job, i) /\ FineAt(c, i)
      BY <1>5, <2>2, RequestIs, StandingConfig
    <3>2. Placed(setup, c[i], kernel[d], found[d].perm) /\ c[i].on
      BY <1>1, <1>5, <2>2, <3>1 DEF FineAt, IsFor
    <3>3. Placed(setup', c[i], k, found[d].perm) /\ Bound(c[i], k)
      BY <1>0, <1>4, <3>1, <3>2 DEF Placed, Bound
    <3>4. Routed(c[i], c, k)
      BY <1>4, <1>5, <2>2, <3>1 DEF IsFor, Routed
    <3> QED
      BY <1>0, <1>2, <1>3, <1>5, <3>3, <3>4 DEF FineAt
  <2> QED
    BY <2>1, <2>2
<1> QED
  BY <1>1, <1>2, <1>3, <1>5, OneCardFine

LEMMA HelperFine ==
    ASSUME Standing, LeasingInv, [Next]_vars, NEW r \in leasing, HelperRenews(r)
    PROVE  CardInv'
<1>0. SameScenario /\ UNCHANGED found /\ TypeInv /\ JobInv /\ CfgInv /\ ProfileInv
  BY ScenarioStep DEF Standing
<1> DEFINE d == r.dev
<1>1. /\ UNCHANGED <<force, job, profile>> /\ excused \subseteq excused' /\ pending \subseteq pending'
      /\ r.late \/ isStale(d) => UNCHANGED kernel \/ d \in excused'
  BY DEF HelperRenews
<1>2. \/ UNCHANGED kernel
      \/ /\ profile[d] # Absent /\ profile[d].ip = NoAddr
         /\ kernel' = [kernel EXCEPT ![d].lease = TRUE,
                           ![d].route = IF profile[d].route = FromISP THEN FromISP ELSE @]
  BY DEF HelperRenews
<1>3. d \in Devices
  BY <1>0, TypeFacts
<1>4. \A e \in Devices : e # d => kernel'[e] = kernel[e]
  BY <1>0, <1>2, TypeFacts
<1>5. ASSUME NEW c, NEW i, c = Config(force, job), i \in Ids(c), c[i].dev = d PROVE FineAt(c, i)'
  <2>0. FineAt(c, i)
    BY <1>5, StandingConfig
  <2>1. CASE d \in excused'
    BY <1>5, <2>1, ExcusedIsFine
  <2>2. CASE UNCHANGED kernel
    BY <1>0, <1>1, <1>5, <2>0, <2>2, Unaffected
  <2>3. CASE d \notin excused' /\ ~UNCHANGED kernel
    <3>1. ~r.late /\ ~isStale(d) /\ d \notin excused
      BY <1>1, <2>3
    <3>2. IsFor(c, i, r) /\ ~isStatic(c[i]) /\ Done(job, i)
      BY <1>5, <3>1, RequestIs
    <3>3. profile[d] = Rendered(c[i], c)
      BY <1>0, <1>2, <1>5, <2>3, <3>1, <3>2, Fresh
    <3>4. CarriesDefaultRoute(c[i], c) \/ profile[d].route = NoRoute
      BY <3>2, <3>3 DEF Rendered, CarriesDefaultRoute, IsFor
    <3>5. kernel[d] \in Cards(setup) /\ kernel' = [kernel EXCEPT ![d].lease = TRUE,
                           ![d].route = IF profile[d].route = FromISP THEN FromISP ELSE @]
      BY <1>0, <1>2, <1>3, <2>3, TypeFacts
    <3>6. /\ kernel'[d].exists = kernel[d].exists /\ kernel'[d].up = kernel[d].up /\ kernel'[d].perm = kernel[d].perm
          /\ CarriesDefaultRoute(c[i], c) \/ kernel'[d].route \in {kernel[d].route, NoRoute}
      BY <1>0, <1>3, <3>4, <3>5, TypeFacts DEF Cards
    <3>7. Placed(setup, c[i], kernel[d], found[d].perm) => Placed(setup', c[i], kernel'[d], found[d].perm)
      BY <1>0, <3>2, <3>6 DEF Placed, Tolerated, SameScenario
    <3>8. Bound(c[i], kernel'[d]) /\ (Routed(c[i], c, kernel[d]) => Routed(c[i], c, kernel'[d]))
      BY <3>2, <3>6 DEF Bound, Routed
    <3> QED
      BY <1>0, <1>1, <1>5, <2>0, <3>1, <3>7, <3>8 DEF FineAt
  <2> QED
    BY <2>1, <2>2, <2>3
<1> QED
  BY <1>1, <1>3, <1>4, <1>5, OneCardFine

LEMMA StandsFine ==
    ASSUME Standing, [Next]_vars, UNCHANGED <<force, job, profile, kernel, pending>>, excused \subseteq excused'
    PROVE  CardInv'
<1>0. SameScenario /\ UNCHANGED found
  BY ScenarioStep DEF Standing
<1>1. PICK g : g = Config(force, job)
  OBVIOUS
<1>2. Config(force, job)' = g
  BY <1>1 DEF Config
<1>3. ASSUME NEW i \in Ids(g) PROVE FineAt(g, i)'
  BY <1>0, <1>1, StandingConfig, Unaffected
<1> QED
  BY <1>2, <1>3, CardsFine

(* The steps of the helper. *)
LEMMA HelperStepsFine ==
    ASSUME Standing, [Next]_vars, HelperStarts \/ Write \/ WriteFails \/ Saved
    PROVE  CardInv'
<1>0. job # NoJob /\ JobInv /\ TypeInv /\ job.rest \subseteq job.touch /\ UNCHANGED <<kernel, pending, excused>>
  BY TypeFacts DEF Standing, HelperStarts, Write, WriteFails, Saved
<1>1. PICK i : i \notin Ids(job.new)
  BY NoSetContainsEverything
<1> DEFINE Follow(j) == /\ Done(job', j) => Done(job, j)
                        /\ Cleaned(job', j) => Cleaned(job, j)
                        /\ There(job', j) => There(job, j)
                        /\ InHand(job', j) => InHand(job, j) /\ UNCHANGED profile
<1>2. CASE HelperStarts
  <2>1. Goes("write", job.rest, job.waits) /\ job.stage = "ask" /\ job.rest = job.touch
    BY <1>0, <1>2, JobEffects DEF HelperStarts, JobInv
  <2>2. \A j : Follow(j)
    BY <1>0, <2>1 DEF Goes, Done, Cleaned, There, InHand, Untouched
  <2> QED
    BY <1>0, <1>1, <2>1, <2>2, StepFine
<1>3. CASE Write \/ WriteFails
  <2>1. PICK st \in {"reconfigure", "ip"} : \E w : Goes(st, job.touch, w) /\ job.stage = "write" /\ job.rest = job.touch
    BY <1>0, <1>3, JobEffects DEF Write, WriteFails, JobInv
  <2>2. PICK w : Goes(st, job.touch, w)
    BY <2>1
  <2>3. \A j : Untouched(job', j) => Untouched(job, j)
    BY <1>0, <2>1, <2>2 DEF Goes, Untouched
  <2>4. PICK g : g = job.new
    OBVIOUS
  <2>5. ASSUME NEW j \in Ids(g) PROVE FineAt(g, j)'
    <3>1. FineAt(g, j)
      BY <1>0, <2>4, StandingConfig DEF Config
    <3>2. Done(job', j) \/ Cleaned(job', j) => Untouched(job, j) /\ ~InHand(job', j)
      BY <1>0, <2>1, <2>2 DEF Goes, Done, Cleaned, Untouched, InHand
    <3>3. ~There(job', j)
      BY <1>0, <2>1, <2>2 DEF Goes, There
    <3>4. SameScenario /\ UNCHANGED found
      BY <1>0, ScenarioStep
    <3>5. Untouched(job, j) => Done(job, j) /\ Cleaned(job, j)
      BY DEF Done, Cleaned
    <3> QED
      BY <1>0, <3>1, <3>2, <3>3, <3>4, <3>5 DEF FineAt, Placed, Tolerated, SameScenario
  <2>6. Config(force, job)' = g
    BY <2>2, <2>4 DEF Goes, Config
  <2> QED
    BY <2>5, <2>6, CardsFine
<1>4. CASE Saved
  <2>1. Goes("saved", job.touch, job.waits) /\ job.stage = "reconfigure" /\ job.rest = {} /\ job.waits = {} /\ UNCHANGED profile
    BY <1>0, <1>4, JobEffects DEF Saved
  <2>2. \A j : Follow(j)
    BY <1>0, <2>1 DEF Goes, Done, Cleaned, There, InHand, Untouched
  <2> QED
    BY <1>0, <1>1, <2>1, <2>2, StepFine
<1> QED
  BY <1>2, <1>3, <1>4

LEMMA ReconfigureFine ==
    ASSUME Standing, [Next]_vars, NEW i \in setup.ids, Reconfigure(i)
    PROVE  CardInv'
<1>0. SameScenario /\ UNCHANGED found /\ TypeInv /\ JobInv /\ CfgInv /\ ProfileInv
  BY ScenarioStep DEF Standing
<1> DEFINE d == job.new[i].dev
<1>1. /\ job # NoJob /\ job.stage = "reconfigure" /\ job.waits = {} /\ i \in job.rest /\ UNCHANGED <<profile, excused>>
      /\ pending' = IF profile[d] = Absent THEN pending ELSE pending \cup {d}
      /\ kernel' = IF profile[d] = Absent /\ ~ByNetworkd /\ kernel[d].exists
                 THEN [kernel EXCEPT ![d] = [Gone EXCEPT !.exists = TRUE]] ELSE kernel
  BY DEF Reconfigure
<1>2. Goes("reconfigure", job.rest \ {i}, {i})
  BY <1>0, JobEffects
<1>3. i \in Ids(job.new) /\ i \in job.touch /\ d \in Devices
  BY <1>0, <1>1, TypeFacts, SettingIs
<1>4. \A e \in Devices : e # d => kernel'[e] = kernel[e]
  BY <1>0, <1>1, TypeFacts
<1>5. \A j \in Ids(job.new) \ {i} :
         /\ Done(job', j) => Done(job, j)
         /\ Cleaned(job', j) => Cleaned(job, j)
         /\ There(job', j) => There(job, j)
         /\ InHand(job', j) => InHand(job, j)
  BY <1>1, <1>2 DEF Goes, Done, Cleaned, There, InHand, Untouched
<1>6. ASSUME NEW c, c = job.new PROVE FineAt(c, i)'
  <2>1. ~Cleaned(job', i) /\ ~There(job', i)
    BY <1>1, <1>2, <1>3 DEF Goes, Cleaned, There, Untouched
  <2>2. CASE profile[d] # Absent
    BY <1>1, <1>6, <2>1, <2>2 DEF FineAt
  <2>3. CASE profile[d] = Absent
    <3>1. OnDisk(setup, profile, c) /\ c[i] \in Settings(setup) /\ Absent \notin Profiles(setup)
      BY <1>0, <1>1, <1>3, <1>6, TypeFacts, SettingIs DEF ProfileInv, IsScenario
    <3>2. ~c[i].on /\ isVLAN(d)
      BY <1>3, <1>6, <2>3, <3>1, RenderedType DEF OnDisk, isVLAN
    <3>3. CASE ByNetworkd
      <4>1. Tolerated(setup', d)
        BY <1>0, <3>2, <3>3 DEF Tolerated, SameScenario, isVLAN, ByNetworkd
      <4> QED
        BY <1>6, <2>1, <3>2, <4>1 DEF FineAt, Placed
    <3>4. CASE ~ByNetworkd
      <4>1. CardOK(kernel[d], ~isVLAN(d)) /\ kernel \in [Devices -> Cards(setup)]
        BY <1>0, <1>3, TypeFacts
      <4>2. ~kernel'[d].up
        BY <1>1, <1>3, <2>3, <3>4, <4>1 DEF Gone, CardOK
      <4> QED
        BY <1>6, <2>1, <3>2, <4>2 DEF FineAt, Placed
    <3> QED
      BY <3>3, <3>4
  <2> QED
    BY <2>2, <2>3
<1> QED
  BY <1>1, <1>2, <1>3, <1>4, <1>5, <1>6, StepFine

LEMMA SecondPassFine ==
    ASSUME Standing, [Next]_vars, NEW i \in setup.ids, SecondPass(i)
    PROVE  CardInv'
<1>0. SameScenario /\ UNCHANGED found /\ TypeInv /\ JobInv /\ IsScenario(setup)
  BY ScenarioStep, TypeFacts DEF Standing
<1> DEFINE s == job.new[i]
           d == s.dev
<1>1. job # NoJob /\ job.stage \in {"ip", "saved"} /\ i \in job.rest /\ UNCHANGED <<profile, pending, excused>>
  BY DEF SecondPass
<1>2. Goes(job.stage, job.rest \ {i}, job.waits)
  BY <1>0, JobEffects
<1>3. i \in Ids(job.new) /\ i \in job.touch /\ s \in Settings(setup) /\ d \in Devices
  BY <1>0, <1>1, TypeFacts, SettingIs
<1>4. PICK k \in (IF job.stage = "ip" THEN ApplyInterfaceConfig(kernel[d], s, isVLAN(d)) ELSE {kernel[d]}) :
           kernel' = [kernel EXCEPT ![d] = Cleared(k, s, job.new)]
  BY DEF SecondPass
<1>5. \A e \in Devices : e # d => kernel'[e] = kernel[e]
  BY <1>0, <1>4, TypeFacts
<1>6. \A j \in Ids(job.new) \ {i} :
         /\ Done(job', j) => Done(job, j)
         /\ Cleaned(job', j) => Cleaned(job, j)
         /\ There(job', j) => There(job, j)
         /\ InHand(job', j) => InHand(job, j)
  BY <1>1, <1>2 DEF Goes, Done, Cleaned, There, InHand, Untouched
<1>7. /\ kernel[d] \in Cards(setup) /\ CardOK(kernel[d], ~isVLAN(d)) /\ isVLAN(d) \in BOOLEAN
  BY <1>0, <1>3, TypeFacts DEF isVLAN
<1>8. k \in Cards(setup) /\ CardOK(k, ~isVLAN(d))
  BY <1>3, <1>4, <1>7, AppliedIs
<1>9. /\ kernel'[d].exists = k.exists /\ kernel'[d].up = k.up
      /\ kernel'[d].perm = k.perm /\ kernel'[d].lease = k.lease
      /\ Routed(s, job.new, kernel'[d])
  <2>1. kernel'[d] = Cleared(k, s, job.new)
    BY <1>0, <1>3, <1>4, TypeFacts
  <2> QED
    BY <1>8, <2>1 DEF Cleared, RemoveDefaultRoute, Cards, Routed
<1>10. ASSUME NEW c, c = job.new PROVE FineAt(c, i)'
  <2>0. FineAt(c, i) /\ c[i] = s
    BY <1>1, <1>3, <1>10, StandingConfig DEF Config
  <2>1. CASE job.stage = "ip"
    <3>1. /\ ~s.on => ~k.up
          /\ s.on => /\ k.exists /\ k.up
                     /\ isStatic(s) => k.perm = {s.ip} /\ ~k.lease
                     /\ s.type = "dhcp" => k.perm = {}
      BY <1>3, <1>4, <1>7, <2>1, AppliedIs
    <3>2. Placed(setup', s, kernel'[d], found[d].perm) /\ Bound(s, kernel'[d])
      BY <1>9, <3>1 DEF Placed, Bound
    <3> QED
      BY <1>0, <1>9, <1>10, <2>0, <3>2 DEF FineAt
  <2>2. CASE job.stage = "saved"
    <3>1. k = kernel[d] /\ Done(job, i) /\ There(job, i) /\ InHand(job, i)
      BY <1>1, <1>3, <1>4, <2>2 DEF Done, There, InHand
    <3>2. /\ Placed(setup, s, kernel[d], found[d].perm) => Placed(setup', s, kernel'[d], found[d].perm)
          /\ Bound(s, kernel[d]) => Bound(s, kernel'[d])
      BY <1>0, <1>9, <3>1 DEF Placed, Bound, Tolerated, SameScenario
    <3> QED
      BY <1>0, <1>1, <1>9, <1>10, <2>0, <3>1, <3>2 DEF FineAt
  <2> QED
    BY <1>1, <2>1, <2>2
<1> QED
  BY <1>1, <1>2, <1>3, <1>5, <1>6, <1>10, StepFine

LEMMA SecondPassFailsFine ==
    ASSUME Standing, [Next]_vars, NEW i \in setup.ids, SecondPassFails(i)
    PROVE  CardInv'
<1>0. SameScenario /\ UNCHANGED found /\ TypeInv /\ IsScenario(setup)
  BY ScenarioStep, TypeFacts DEF Standing
<1>1. /\ job # NoJob /\ job.stage \in {"ip", "saved"} /\ i \in job.rest
      /\ UNCHANGED <<profile, pending>> /\ excused' = excused \cup {job.new[i].dev}
  BY DEF SecondPassFails
<1>2. Goes(job.stage, job.rest \ {i}, job.waits)
  BY <1>0, JobEffects
<1>3. PICK g : g = job.new
  OBVIOUS
<1>4. Config(force, job)' = g /\ Config(force, job) = g
  BY <1>1, <1>2, <1>3 DEF Config, Goes
<1>5. \A e \in Devices : e # g[i].dev => kernel'[e] = kernel[e]
  <2>1. \E k : kernel' = [kernel EXCEPT ![g[i].dev] = k]
    BY <1>3 DEF SecondPassFails
  <2> QED
    BY <1>0, <2>1, TypeFacts
<1>6. ASSUME NEW j \in Ids(g) PROVE FineAt(g, j)'
  <2>1. g[j].dev \in Devices /\ FineAt(g, j)
    BY <1>4, StandingConfig
  <2>2. CASE g[j].dev = g[i].dev
    BY <1>1, <1>3, <2>2, ExcusedIsFine
  <2>3. CASE g[j].dev # g[i].dev
    <3>1. /\ Done(job', j) => Done(job, j)
          /\ Cleaned(job', j) => Cleaned(job, j)
          /\ There(job', j) => There(job, j)
          /\ InHand(job', j) => InHand(job, j)
      BY <1>1, <1>2, <2>3 DEF Goes, Done, Cleaned, There, InHand, Untouched
    <3> QED
      BY <1>0, <1>1, <1>5, <2>1, <2>3, <3>1, Unaffected
  <2> QED
    BY <2>2, <2>3
<1> QED
  BY <1>4, <1>6, CardsFine

(* The helper has waited for a card, or gives up. *)
LEMMA WaitFine ==
    ASSUME Standing, [Next]_vars, NEW i \in setup.ids, AddressIsThere(i) \/ LeaseTimeout(i)
    PROVE  CardInv'
<1>0. JobInv /\ TypeInv /\ SameScenario /\ UNCHANGED found
  BY ScenarioStep DEF Standing
<1>1. /\ job # NoJob /\ job.waits = {i} /\ UNCHANGED <<kernel, profile, pending, excused>>
      /\ Bound(job.new[i], kernel[job.new[i].dev])
  BY DEF AddressIsThere, LeaseTimeout, isThere, Bound
<1>2. Goes(job.stage, job.rest, {}) /\ job.stage = "reconfigure"
  BY <1>0, <1>1, JobEffects DEF JobInv
<1>3. \A j \in Ids(job.new) :
         /\ Done(job', j) => Done(job, j)
         /\ Cleaned(job', j) => Cleaned(job, j)
         /\ There(job', j) /\ j # i => There(job, j)
         /\ InHand(job', j) => InHand(job, j)
  BY <1>1, <1>2 DEF Goes, Done, Cleaned, There, InHand, Untouched
<1>4. ASSUME NEW c, c = job.new, i \in Ids(c) PROVE FineAt(c, i)'
  <2>1. FineAt(c, i)
    BY <1>1, <1>4, StandingConfig DEF Config
  <2> QED
    BY <1>0, <1>1, <1>3, <1>4, <2>1 DEF FineAt, Placed, Tolerated, SameScenario
<1> QED
  BY <1>1, <1>2, <1>3, <1>4, StepFine

LEMMA GiveUpFine ==
    ASSUME Standing, [Next]_vars, NEW i \in setup.ids, ReconfigureFails(i) \/ AddressTimeout(i)
    PROVE  CardInv'
<1>0. JobInv /\ TypeInv
  BY DEF Standing
<1>1. job # NoJob /\ UNCHANGED <<kernel, profile, pending, excused>>
  BY DEF ReconfigureFails, AddressTimeout
<1>2. Goes("ip", job.touch, {}) /\ job.stage = "reconfigure"
  <2>1. job.stage = "reconfigure"
    BY <1>0 DEF ReconfigureFails, AddressTimeout, JobInv
  <2> QED
    BY <1>0, <2>1, JobEffects
<1>3. PICK x : x \notin Ids(job.new)
  BY NoSetContainsEverything
<1>4. \A j : /\ Done(job', j) => Done(job, j)
             /\ Cleaned(job', j) => Cleaned(job, j)
             /\ There(job', j) => There(job, j)
             /\ InHand(job', j) => InHand(job, j)
  BY <1>1, <1>2 DEF Goes, Done, Cleaned, There, InHand, Untouched
<1> QED
  BY <1>1, <1>2, <1>3, <1>4, StepFine

LEMMA BootingFine ==
    ASSUME Standing, AgentRestart \/ Reboot
    PROVE  CardInv' /\ UnusedInv' /\ LeasingInv'
<1>1. Starts(force, NoConfig, {}, "boot") /\ leasing' = {}
  <2>1. force \in Configs(setup) /\ {} \in SUBSET Ids(force) /\ TypeInv
    BY TypeFacts DEF Standing
  <2> QED
    BY <2>1, JobStarts DEF AgentRestart, Reboot
<1>2. \A i : ~Done(job', i) /\ ~Cleaned(job', i) /\ ~There(job', i)
  BY <1>1 DEF Starts, Done, Cleaned, There, Untouched
<1>3. CardInv'
  BY <1>2 DEF CardInv, FineAt
<1> QED
  BY <1>1, <1>3 DEF UnusedInv, LeasingInv, Starts

LEMMA FinishFine ==
    ASSUME Standing, [Next]_vars, NEW fails \in SUBSET Devices, Finish(fails)
    PROVE  CardInv'
<1>0. SameScenario /\ UNCHANGED found /\ TypeInv
  BY ScenarioStep DEF Standing
<1> DEFINE removed == DevicesOf(job.prev, Ids(job.prev) \ Ids(job.new))
<1>1. /\ job # NoJob /\ job.stage \in {"ip", "saved"} /\ job.rest = {}
      /\ kernel' = [d \in Devices |-> IF d \in removed \ fails THEN Deconfigured(kernel[d], isVLAN(d)) ELSE kernel[d]]
      /\ force' = job.new /\ job' = NoJob
      /\ excused' = (excused \ removed) \cup (removed \ Unused(job.new)) \cup fails
      /\ UNCHANGED <<profile, pending, leasing, warned, found, edited>>
  BY DEF Finish
<1>2. PICK g : g = job.new
  OBVIOUS
<1>3. Config(force, job) = g /\ Config(force, job)' = g
  BY <1>1, <1>2 DEF Config
<1> HIDE DEF removed
<1>4. ASSUME NEW i \in Ids(g) PROVE FineAt(g, i)'
  <2> DEFINE d == g[i].dev
  <2>1. d \in Devices /\ FineAt(g, i)
    BY <1>3, StandingConfig
  <2>2. d \notin Unused(g)
    BY DEF Unused, DevicesOf
  <2>3. CASE d \in removed
    BY <1>1, <1>2, <2>2, <2>3, ExcusedIsFine
  <2>4. CASE d \notin removed
    <3>1. kernel'[d] = kernel[d] /\ (d \in excused => d \in excused')
      BY <1>1, <2>1, <2>4
    <3>2. Done(job, i) /\ Cleaned(job, i) /\ ~There(job', i) /\ ~InHand(job', i)
      BY <1>1 DEF Done, Cleaned, There, InHand
    <3> QED
      BY <1>0, <1>1, <2>1, <3>1, <3>2, Unaffected
  <2> QED
    BY <2>3, <2>4
<1> QED
  BY <1>3, <1>4, CardsFine

(* An application begins: of the first pass. *)
LEMMA BeginFine ==
    ASSUME Standing, [Next]_vars, job = NoJob \/ job.stage = "boot", NEW new \in Configs(setup), DistinctCards(new),
           NEW prev \in Configs(setup), job = NoJob => prev = force, job # NoJob => prev = NoConfig,
           NEW later \in SUBSET Ids(new), NEW touch, touch = Touched(new, prev, later), Begin(new, prev, touch),
           UNCHANGED <<profile, pending>>,
           \A i \in Ids(new) \ touch : new[i].dev \notin excused' =>
               /\ prev[i] # Absent => new[i].dev \notin excused
               /\ new[i].dev \notin MovedVlans(new, prev)
               /\ new[i].dev \notin Unseen(new, prev, touch)
    PROVE  CardInv'
<1>0. SameScenario /\ UNCHANGED found /\ TypeInv /\ PermInv /\ IsScenario(setup)
  BY ScenarioStep, TypeFacts DEF Standing
<1>1. Starts(new, prev, touch, FirstStage) /\ FirstStage \in {"ask", "ip"}
  BY <1>0, JobStarts DEF Touched, FirstStage
<1>2. Config(force, job)' = new
  BY <1>1 DEF Config, Starts
<1>3. ASSUME NEW i \in Ids(new) PROVE FineAt(new, i)'
  <2> DEFINE d == new[i].dev
             s == new[i]
  <2>1. s \in Settings(setup) /\ d \in Devices
    BY <1>0, SettingIs
  <2>2. CASE i \in touch
    <3>1. ~Done(job', i) /\ ~Cleaned(job', i) /\ ~There(job', i)
      BY <1>1, <2>2 DEF Starts, Done, Cleaned, There, Untouched
    <3> QED
      BY <3>1 DEF FineAt
  <2>3. CASE i \notin touch /\ d \in excused'
    BY <2>3, ExcusedIsFine
  <2>4. CASE i \notin touch /\ d \notin excused'
    <3>1. kernel'[d] = kernel[d] /\ \A x \in {TRUE, FALSE} : (IF x THEN Without(MovedVlans(new, prev)) ELSE kernel)[d] = kernel[d]
      BY <2>1, <2>4 DEF Begin, Without
    <3>2. ~InHand(job', i) /\ ~There(job', i)
      BY <1>1, <2>4 DEF Starts, InHand, There
    <3>3. CASE prev[i] = Absent
      <4> DEFINE seen == IF i \in later THEN Without(MovedVlans(new, prev)) ELSE kernel
      <4>1. MatchesSystemState(s, new, seen) /\ seen[d] = kernel[d]
        BY <2>4, <3>1, <3>3 DEF Touched
      <4> HIDE DEF seen
      <4>2. Placed(setup, s, kernel[d], found[d].perm) /\ Routed(s, new, kernel[d])
        BY <1>0, <2>1, <4>1, MatchesAs
      <4>3. Placed(setup', s, kernel[d], found[d].perm)
        BY <1>0, <4>2 DEF Placed, Tolerated, SameScenario
      <4> QED
        BY <1>0, <3>1, <3>2, <4>2, <4>3 DEF FineAt
    <3>4. CASE prev[i] # Absent
      <4> DEFINE p == prev[i]
      <4>1. i \in Ids(prev) /\ p \in Settings(setup) /\ prev # NoConfig
        BY <1>0, <3>4, SettingIs DEF Ids, Configs, NoConfig
      <4>2. job = NoJob /\ prev = force /\ FineAt(prev, i)
        <5>1. job = NoJob /\ prev = force
          BY <4>1
        <5> QED
          BY <4>1, <5>1, StandingConfig DEF Config
      <4>3. p.on = s.on /\ p.dev = s.dev /\ p.type = s.type /\ p.ip = s.ip
        BY <2>4, <3>4 DEF Touched, interfaceConfigDiffers
      <4>4. Done(job, i) /\ Cleaned(job, i) /\ ~InHand(job, i) /\ d \notin excused
        BY <2>4, <3>4, <4>2 DEF Done, Cleaned, Untouched, InHand
      <4>5. (Placed(setup, p, kernel[d], found[d].perm) \/ d \in pending) /\ Routed(p, prev, kernel[d])
        BY <4>2, <4>3, <4>4 DEF FineAt
      <4>6. Placed(setup, p, kernel[d], found[d].perm) => Placed(setup', s, kernel[d], found[d].perm)
        BY <1>0, <4>3 DEF Placed, Tolerated, SameScenario, isStatic
      <4>7. CarriesDefaultRoute(p, prev) => CarriesDefaultRoute(s, new)
        BY <2>4, <3>4 DEF Unseen
      <4>8. Routed(s, new, kernel[d])
        BY <4>3, <4>5, <4>7 DEF Routed
      <4> QED
        BY <1>0, <3>1, <3>2, <4>5, <4>6, <4>8 DEF FineAt
    <3> QED
      BY <3>3, <3>4
  <2> QED
    BY <2>2, <2>3, <2>4
<1> QED
  BY <1>2, <1>3, CardsFine

(* What Apply starts with. *)
LEMMA ApplyIs ==
    ASSUME Standing, NEW cfg \in setup.configs, NEW read \in BOOLEAN, Apply(cfg, read)
    PROVE  \E new \in Configs(setup) : DistinctCards(new) /\ \E later \in SUBSET Ids(new) :
              LET touch == Touched(new, force, later) IN
              /\ Begin(new, force, touch)
              /\ excused' = ((excused \cup MovedVlans(new, force)) \ DevicesOf(new, touch))
                               \cup Unseen(new, force, touch) \cup Left(new, force)
<1> DEFINE new == IF read THEN PopulateDynamicIPs(cfg, kernel) ELSE cfg
<1>1. cfg \in Configs(setup) /\ DistinctCards(cfg) /\ IsScenario(setup) /\ TypeInv
  BY TypeFacts DEF Standing, IsScenario, CfgInv
<1>2. new \in Configs(setup) /\ DistinctCards(new)
  BY <1>1, TypeFacts, PopulatedIs DEF DistinctCards
<1>3. \E later \in SUBSET Ids(new) :
           LET touch == Touched(new, force, later) IN
           /\ Begin(new, force, touch)
           /\ excused' = ((excused \cup MovedVlans(new, force)) \ DevicesOf(new, touch))
                            \cup Unseen(new, force, touch) \cup Left(new, force)
  BY DEF Apply
<1> QED
  BY <1>2, <1>3

LEMMA ApplyFine ==
    ASSUME Standing, [Next]_vars, NEW cfg \in setup.configs, NEW read \in BOOLEAN, Apply(cfg, read)
    PROVE  CardInv'
<1>1. PICK new \in Configs(setup) : DistinctCards(new) /\ \E later \in SUBSET Ids(new) :
              LET touch == Touched(new, force, later) IN
              /\ Begin(new, force, touch)
              /\ excused' = ((excused \cup MovedVlans(new, force)) \ DevicesOf(new, touch))
                               \cup Unseen(new, force, touch) \cup Left(new, force)
  BY ApplyIs
<1>2. PICK later \in SUBSET Ids(new) :
              LET touch == Touched(new, force, later) IN
              /\ Begin(new, force, touch)
              /\ excused' = ((excused \cup MovedVlans(new, force)) \ DevicesOf(new, touch))
                               \cup Unseen(new, force, touch) \cup Left(new, force)
  BY <1>1
<1>3. PICK touch : touch = Touched(new, force, later)
  OBVIOUS
<1>4. PICK prev \in Configs(setup) : prev = force
  BY TypeFacts DEF Standing
<1>5. job = NoJob /\ UNCHANGED <<profile, pending>>
  BY DEF Apply
<1>6. ASSUME NEW i \in Ids(new) \ touch, new[i].dev \notin excused'
      PROVE  /\ new[i].dev \notin excused
             /\ new[i].dev \notin MovedVlans(new, prev)
             /\ new[i].dev \notin Unseen(new, prev, touch)
  <2>1. touch \subseteq Ids(new)
    BY <1>3 DEF Touched
  <2>2. new[i].dev \notin DevicesOf(new, touch)
    BY <1>1, <2>1 DEF DevicesOf, DistinctCards
  <2> QED
    BY <1>2, <1>3, <1>4, <1>6, <2>2
<1> QED
  BY <1>1, <1>2, <1>3, <1>4, <1>5, <1>6, BeginFine

LEMMA BootApplyFine ==
    ASSUME Standing, [Next]_vars, BootApply
    PROVE  CardInv'
<1>1. PICK new \in Configs(setup) : new = force
  BY TypeFacts DEF Standing
<1>2. PICK prev \in Configs(setup) : prev = NoConfig
  BY <1>1 DEF NoConfig, Configs
<1>3. PICK later \in SUBSET Ids(new) : later = {}
  OBVIOUS
<1>4. PICK touch : touch = Touched(new, prev, later)
  OBVIOUS
<1>5. job # NoJob /\ job.stage = "boot" /\ UNCHANGED <<profile, pending>> /\ Begin(new, prev, touch) /\ DistinctCards(new)
  BY <1>1, <1>2, <1>3, <1>4 DEF BootApply, Standing, CfgInv
<1>6. Ids(prev) = {} /\ \A i \in Ids(new) : prev[i] = Absent
  BY <1>1, <1>2 DEF NoConfig, Ids
<1>7. MovedVlans(new, prev) = {} /\ Unseen(new, prev, touch) = {}
  BY <1>6 DEF MovedVlans, Unseen
<1> QED
  BY <1>2, <1>4, <1>5, <1>6, <1>7, BeginFine

(* Everything that the two invariants of the cards that no interface has,  *)
(* and of the requests for leases, need of a step that neither begins nor  *)
(* ends an application.                                                    *)
LEMMA OthersKept ==
    ASSUME Standing, UnusedInv, LeasingInv, Devices' = Devices, excused \subseteq excused',
           UNCHANGED <<force, job>> \/ (job # NoJob /\ job.stage # "boot" /\ \E st, r, w : st # "boot" /\ Goes(st, r, w)),
           \A d \in Devices : \/ d \in excused' \/ kernel'[d].perm = kernel[d].perm
                              \/ d \in DevicesOf(Config(force, job), Ids(Config(force, job))),
           \A i : Asked(job, i) => Asked(job', i),
           \A r \in leasing' : \/ r \in leasing \/ r.late
                               \/ \E i \in Ids(Config(force, job)) :
                                    LET c == Config(force, job) IN
                                    /\ c[i].dev = r.dev /\ c[i].on /\ c[i].type = "dhcp"
                                    /\ r.wan => CarriesDefaultRoute(c[i], c)
                                    /\ Asked(job', i)
    PROVE  UnusedInv' /\ LeasingInv'
<1>1. PICK c : c = Config(force, job)
  OBVIOUS
<1>2. Config(force, job)' = c
  BY <1>1 DEF Config, Goes
<1>3. UnusedInv'
  <2>1. /\ job' # NoJob <=> job # NoJob
        /\ job # NoJob => job'.prev = job.prev /\ job'.new = job.new /\ (job'.stage = "boot" <=> job.stage = "boot")
    BY DEF Goes
  <2>2. SUFFICES ASSUME job' # NoJob => job'.stage # "boot", NEW d \in Devices \ excused',
                        d \notin DevicesOf(c, Ids(c)),
                        job' # NoJob => d \notin DevicesOf(job'.prev, Ids(job'.prev) \ Ids(job'.new))
                 PROVE  kernel'[d].perm = {}
    BY <1>2 DEF UnusedInv
  <2>3. kernel[d].perm = {}
    BY <1>1, <2>1, <2>2 DEF UnusedInv
  <2> QED
    BY <1>1, <2>2, <2>3
<1>4. LeasingInv'
  <2>1. ASSUME NEW r \in leasing', ~r.late
        PROVE  \E i \in Ids(c) : /\ c[i].dev = r.dev /\ c[i].on /\ c[i].type = "dhcp"
                                 /\ r.wan => CarriesDefaultRoute(c[i], c) \/ r.dev \in excused'
                                 /\ Asked(job', i)
    <3>1. CASE r \in leasing
      <4>1. PICK i \in Ids(c) : IsFor(c, i, r)
        BY <1>1, <2>1, <3>1 DEF LeasingInv
      <4> QED
        BY <4>1 DEF IsFor
    <3>2. CASE r \notin leasing
      BY <1>1, <2>1, <3>2
    <3> QED
      BY <3>1, <3>2
  <2> QED
    BY <1>2, <2>1 DEF LeasingInv, IsFor
<1> QED
  BY <1>3, <1>4

LEMMA OthersSteps ==
    ASSUME Standing, UnusedInv, LeasingInv, [Next]_vars
    PROVE  UnusedInv' /\ LeasingInv'
<1>0. /\ SameScenario /\ UNCHANGED found /\ Devices' = Devices
      /\ TypeInv /\ JobInv /\ IsScenario(setup) /\ kernel \in [Devices -> Cards(setup)]
  BY ScenarioStep, SameTypes, TypeFacts DEF Standing
<1> DEFINE Cfg == Config(force, job)
           Used(d) == d \in DevicesOf(Cfg, Ids(Cfg))
<1>s. ASSUME UNCHANGED <<force, job>>, excused \subseteq excused', leasing' \subseteq leasing,
             \A d \in Devices : d \in excused' \/ kernel'[d].perm = kernel[d].perm \/ Used(d)
      PROVE  UnusedInv' /\ LeasingInv'
  BY <1>0, <1>s, OthersKept
<1>g. ASSUME job # NoJob, job.stage # "boot", NEW st, NEW r, NEW w, st # "boot", Goes(st, r, w), UNCHANGED <<excused, leasing>>,
             \A d \in Devices : kernel'[d].perm = kernel[d].perm \/ Used(d),
             r \subseteq job.touch,
             st = "ip" => job.stage # "ip",
             job.stage # "ip"
      PROVE  UnusedInv' /\ LeasingInv'
  <2>1. \A i : Asked(job, i) => Asked(job', i)
    BY <1>g DEF Goes, Asked, Untouched
  <2> HIDE DEF Cfg
  <2> QED
    BY <1>0, <1>g, <2>1, OthersKept DEF Cfg
<1>1. CASE UNCHANGED vars \/ Quiet
  <2>1. UNCHANGED <<force, job, excused, leasing, kernel>>
    BY <1>1 DEF vars, Quiet
  <2> QED
    BY <1>s, <2>1
<1>2. ASSUME NEW cfg \in setup.configs, NEW read \in BOOLEAN, Apply(cfg, read)
      PROVE  UnusedInv' /\ LeasingInv'
  <2>1. PICK new \in Configs(setup) : DistinctCards(new) /\ \E later \in SUBSET Ids(new) :
              LET touch == Touched(new, force, later) IN
              /\ Begin(new, force, touch)
              /\ excused' = ((excused \cup MovedVlans(new, force)) \ DevicesOf(new, touch))
                               \cup Unseen(new, force, touch) \cup Left(new, force)
    BY <1>2, ApplyIs
  <2>2. PICK touch : /\ touch \in SUBSET Ids(new)
                     /\ Begin(new, force, touch)
                     /\ excused' = ((excused \cup MovedVlans(new, force)) \ DevicesOf(new, touch))
                               \cup Unseen(new, force, touch) \cup Left(new, force)
                     /\ \A i \in Ids(new) \ touch : force[i] = Absent \/ ~interfaceConfigDiffers(force[i], new[i])
    BY <2>1 DEF Touched
  <2>3. job = NoJob /\ Starts(new, force, touch, FirstStage) /\ FirstStage # "boot" /\ DistinctCards(force)
        /\ force \in Configs(setup)
    BY <1>0, <1>2, <2>1, <2>2, TypeFacts, JobStarts DEF Apply, FirstStage, Standing, CfgInv
  <2>4. Config(force, job)' = new /\ Config(force, job) = force
    BY <2>3 DEF Config, Starts
  <2>5. UnusedInv'
    <3>1. SUFFICES ASSUME NEW d \in Devices \ excused', d \notin DevicesOf(new, Ids(new)),
                          d \notin DevicesOf(force, Ids(force) \ Ids(new))
                   PROVE  kernel'[d].perm = {}
      BY <1>0, <2>3, <2>4 DEF UnusedInv, Starts
    <3>2. CASE d \in MovedVlans(new, force)
      <4>1. kernel'[d] = Gone
        BY <2>2, <3>1, <3>2 DEF Begin, Without
      <4> QED
        BY <4>1 DEF Gone
    <3>3. CASE d \notin MovedVlans(new, force)
      <4>1. kernel'[d] = kernel[d]
        BY <2>2, <3>1, <3>3 DEF Begin, Without
      <4>2. d \notin excused /\ d \notin Left(new, force)
        BY <2>2, <3>1 DEF DevicesOf
      <4>3. d \notin DevicesOf(force, Ids(force))
        BY <3>1, <4>2 DEF DevicesOf, Left
      <4> QED
        BY <2>3, <2>4, <3>1, <4>1, <4>2, <4>3 DEF UnusedInv
    <3> QED
      BY <3>2, <3>3
  <2>6. LeasingInv'
    <3>1. SUFFICES ASSUME NEW q \in leasing', ~q.late PROVE \E i \in Ids(new) : IsFor(new, i, q)'
      BY <2>4 DEF LeasingInv, IsFor
    <3>2. PICK r \in leasing : q = [r EXCEPT !.late = @ \/ r.dev \notin DevicesOf(new, (Ids(new) \cap Ids(force)) \ touch)]
      BY <2>2 DEF Begin
    <3>3. r \in [dev : Devices, wan : BOOLEAN, late : BOOLEAN]
      BY <1>0, TypeFacts
    <3>4. ~r.late /\ q.dev = r.dev /\ q.wan = r.wan /\ r.dev \in DevicesOf(new, (Ids(new) \cap Ids(force)) \ touch)
      BY <3>1, <3>2, <3>3
    <3>5. PICK j \in (Ids(new) \cap Ids(force)) \ touch : new[j].dev = r.dev
      BY <3>4 DEF DevicesOf
    <3>6. PICK i \in Ids(force) : IsFor(force, i, r)
      BY <2>4, <3>4 DEF LeasingInv
    <3>7. new[j].on = force[j].on /\ new[j].dev = force[j].dev /\ new[j].type = force[j].type /\ force[j] # Absent
      BY <2>2, <3>5 DEF interfaceConfigDiffers, Ids
    <3>8. i = j
      BY <2>3, <3>5, <3>6, <3>7 DEF DistinctCards, IsFor
    <3>9. r.wan => CarriesDefaultRoute(new[j], new) \/ r.dev \in excused'
      <4>1. SUFFICES ASSUME r.wan, ~CarriesDefaultRoute(new[j], new) PROVE r.dev \in excused'
        OBVIOUS
      <4>2. CASE CarriesDefaultRoute(force[j], force)
        <5>1. r.dev \in Unseen(new, force, touch)
          BY <3>5, <3>7, <4>1, <4>2 DEF Unseen
        <5> QED
          BY <2>2, <5>1
      <4>3. CASE ~CarriesDefaultRoute(force[j], force)
        <5>1. r.dev \in excused
          BY <3>6, <3>8, <4>1, <4>3 DEF IsFor
        <5>2. r.dev \notin DevicesOf(new, touch)
          BY <2>1, <2>2, <3>5 DEF DevicesOf, DistinctCards
        <5> QED
          BY <2>2, <5>1, <5>2
      <4> QED
        BY <4>2, <4>3
    <3>10. Asked(job', j)
      BY <2>3, <3>5 DEF Starts, Asked, Untouched
    <3> QED
      BY <3>4, <3>5, <3>6, <3>7, <3>8, <3>9, <3>10 DEF IsFor
  <2> QED
    BY <2>5, <2>6
<1>3. CASE BootApply
  <2>1. leasing = {} /\ excused' = Unused(force) /\ UNCHANGED force /\ force \in Configs(setup) /\ NoConfig \in Configs(setup)
        /\ Begin(force, NoConfig, Touched(force, NoConfig, {})) /\ Touched(force, NoConfig, {}) \in SUBSET Ids(force)
    BY <1>0, <1>3, TypeFacts DEF BootApply, JobInv, NoConfig, Configs, Touched
  <2>2. Starts(force, NoConfig, Touched(force, NoConfig, {}), FirstStage) /\ leasing' = {}
    BY <1>0, <2>1, JobStarts DEF Begin
  <2>3. Config(force, job)' = force
    BY <2>2 DEF Config, Starts
  <2>4. UnusedInv'
    BY <1>0, <2>1, <2>3 DEF UnusedInv, Unused
  <2> QED
    BY <2>2, <2>4 DEF LeasingInv
<1>4. CASE AgentRestart \/ Reboot
  BY <1>4, BootingFine
<1>w. job # NoJob => /\ job.stage \in Stages /\ \A X : job.rest \ X \subseteq job.touch
                     /\ job.rest \subseteq job.touch
                     /\ job.stage # "reconfigure" => job.waits = {}
  BY <1>0, TypeFacts DEF JobInv
<1>5. CASE HelperStarts \/ Write \/ WriteFails \/ Saved
  <2>1. /\ job # NoJob /\ job.stage \in {"ask", "write", "reconfigure"} /\ UNCHANGED <<excused, leasing, kernel>>
        /\ \E st \in {"write", "reconfigure", "ip", "saved"}, r \in SUBSET job.touch : \E w : Goes(st, r, w)
    BY <1>0, <1>5, <1>w, JobEffects DEF HelperStarts, Write, WriteFails, Saved
  <2> QED
    BY <1>g, <2>1
<1>6. ASSUME NEW fails \in SUBSET Devices, Finish(fails) PROVE UnusedInv' /\ LeasingInv'
  <2> DEFINE removed == DevicesOf(job.prev, Ids(job.prev) \ Ids(job.new))
  <2>1. /\ job # NoJob /\ job.stage \in {"ip", "saved"} /\ job.rest = {}
        /\ kernel' = [d \in Devices |-> IF d \in removed \ fails THEN Deconfigured(kernel[d], isVLAN(d)) ELSE kernel[d]]
        /\ force' = job.new /\ job' = NoJob
        /\ excused' = (excused \ removed) \cup (removed \ Unused(job.new)) \cup fails
        /\ UNCHANGED <<profile, pending, leasing, warned, found, edited>>
    BY <1>6 DEF Finish
  <2>2. PICK g : g = job.new
    OBVIOUS
  <2>3. Config(force, job) = g /\ Config(force, job)' = g
    BY <2>1, <2>2 DEF Config
  <2>4. UnusedInv'
    <3>1. SUFFICES ASSUME NEW d \in Devices \ excused', d \notin DevicesOf(g, Ids(g)) PROVE kernel'[d].perm = {}
      BY <1>0, <2>1, <2>3 DEF UnusedInv
    <3>2. CASE d \in removed
      <4>1. kernel'[d] = Deconfigured(kernel[d], isVLAN(d))
        BY <2>1, <3>1, <3>2
      <4>2. kernel[d] \in Cards(setup) /\ CardOK(kernel[d], ~isVLAN(d)) /\ isVLAN(d) \in BOOLEAN
        BY <1>0, TypeFacts DEF isVLAN
      <4> QED
        BY <4>1, <4>2, DeconfiguredIs
    <3>3. CASE d \notin removed
      <4>1. kernel'[d] = kernel[d] /\ d \notin excused
        BY <2>1, <3>1, <3>3
      <4> QED
        BY <2>1, <2>2, <2>3, <3>1, <3>3, <4>1 DEF UnusedInv
    <3> QED
      BY <3>2, <3>3
  <2> HIDE DEF removed
  <2>5. LeasingInv'
    <3>1. SUFFICES ASSUME NEW r \in leasing, ~r.late PROVE \E i \in Ids(g) : IsFor(g, i, r)'
      BY <2>1, <2>3 DEF LeasingInv, IsFor
    <3>2. PICK i \in Ids(g) : IsFor(g, i, r)
      BY <2>3, <3>1 DEF LeasingInv
    <3>3. r.dev \in excused => r.dev \in excused'
      BY <2>1, <2>2, <3>2 DEF IsFor, Unused, DevicesOf
    <3>4. Asked(job', i)
      BY <2>1 DEF Asked, Untouched
    <3> QED
      BY <3>2, <3>3, <3>4 DEF IsFor
  <2> QED
    BY <2>4, <2>5
<1>7. ASSUME NEW i \in setup.ids, Reconfigure(i) PROVE UnusedInv' /\ LeasingInv'
  <2>1. /\ Goes("reconfigure", job.rest \ {i}, {i}) /\ UNCHANGED <<excused, leasing>> /\ job # NoJob /\ job.stage = "reconfigure"
        /\ i \in job.rest
    BY <1>0, <1>7, JobEffects DEF Reconfigure
  <2>2. job.new[i].dev \in DevicesOf(job.new, Ids(job.new)) /\ Cfg = job.new
    BY <1>0, <2>1, TypeFacts DEF DevicesOf, Config
  <2>3. \A d \in Devices : d # job.new[i].dev => kernel'[d] = kernel[d]
    BY <1>0, <1>7 DEF Reconfigure
  <2> HIDE DEF Cfg
  <2> QED
    BY <1>g, <1>w, <2>1, <2>2, <2>3
<1>8. ASSUME NEW i \in setup.ids, ReconfigureFails(i) \/ AddressTimeout(i) \/ AddressIsThere(i) \/ LeaseTimeout(i)
      PROVE  UnusedInv' /\ LeasingInv'
  <2>1. /\ job # NoJob /\ job.stage = "reconfigure" /\ UNCHANGED <<excused, leasing, kernel>>
        /\ \E st \in {"reconfigure", "ip"}, r \in SUBSET job.touch : \E w : Goes(st, r, w)
    <3>1. job # NoJob /\ job.stage = "reconfigure" /\ UNCHANGED <<excused, leasing, kernel>>
      BY <1>8, <1>w DEF ReconfigureFails, AddressTimeout, AddressIsThere, LeaseTimeout
    <3> QED
      BY <1>0, <1>8, <1>w, <3>1, JobEffects
  <2> QED
    BY <1>g, <2>1
<1>9. ASSUME NEW i \in setup.ids, SecondPass(i) PROVE UnusedInv' /\ LeasingInv'
  <2> DEFINE s == job.new[i]
             q == [dev |-> s.dev, wan |-> s.zone = "WAN", late |-> FALSE]
  <2>1. /\ Goes(job.stage, job.rest \ {i}, job.waits) /\ UNCHANGED excused /\ job # NoJob /\ job.stage \in {"ip", "saved"}
        /\ i \in job.rest /\ i \in job.touch
        /\ leasing' = IF job.stage = "ip" /\ s.on /\ s.type = "dhcp" THEN leasing \cup {q} ELSE leasing
    BY <1>0, <1>9, <1>w, JobEffects DEF SecondPass, AsksForLease
  <2>2. i \in Ids(job.new) /\ s.dev \in DevicesOf(job.new, Ids(job.new)) /\ Cfg = job.new
    BY <1>0, <2>1, TypeFacts DEF DevicesOf, Config
  <2>3. \A d \in Devices : d # s.dev => kernel'[d] = kernel[d]
    <3>1. \E k : kernel' = [kernel EXCEPT ![s.dev] = k]
      BY <1>9 DEF SecondPass
    <3> QED
      BY <1>0, <3>1
  <2>4. \A j : Asked(job, j) => Asked(job', j)
    BY <2>1 DEF Goes, Asked, Untouched
  <2>5. ASSUME NEW r \in leasing', r \notin leasing
        PROVE  /\ Cfg[i].dev = r.dev /\ Cfg[i].on /\ Cfg[i].type = "dhcp"
               /\ r.wan => CarriesDefaultRoute(Cfg[i], Cfg)
               /\ Asked(job', i)
    <3>1. r = q /\ job.stage = "ip" /\ s.on /\ s.type = "dhcp"
      BY <2>1, <2>5
    <3>2. Asked(job', i)
      BY <2>1, <3>1 DEF Goes, Asked
    <3> QED
      BY <2>2, <3>1, <3>2 DEF CarriesDefaultRoute
  <2> HIDE DEF Cfg, s, q
  <2>6. \A d \in Devices : d \in excused' \/ kernel'[d].perm = kernel[d].perm \/ Used(d)
    BY <2>2, <2>3
  <2>7. \E st, r, w : st # "boot" /\ Goes(st, r, w)
    BY <2>1
  <2> QED
    BY <1>0, <2>1, <2>2, <2>4, <2>5, <2>6, <2>7, OthersKept DEF Cfg
<1>16. ASSUME NEW i \in setup.ids, SecondPassFails(i) PROVE UnusedInv' /\ LeasingInv'
  <2> DEFINE s == job.new[i]
             q == [dev |-> s.dev, wan |-> s.zone = "WAN", late |-> FALSE]
  <2>1. /\ Goes(job.stage, job.rest \ {i}, job.waits) /\ excused' = excused \cup {s.dev}
        /\ job # NoJob /\ job.stage \in {"ip", "saved"} /\ i \in job.rest /\ i \in job.touch
        /\ leasing' = leasing \/ (job.stage = "ip" /\ s.on /\ s.type = "dhcp" /\ leasing' = leasing \cup {q})
    BY <1>0, <1>16, <1>w, JobEffects DEF SecondPassFails, AsksForLease
  <2>2. i \in Ids(job.new) /\ Cfg = job.new
    BY <1>0, <2>1, TypeFacts DEF DevicesOf, Config
  <2>3. \A d \in Devices : d # s.dev => kernel'[d] = kernel[d]
    <3>1. \E k : kernel' = [kernel EXCEPT ![s.dev] = k]
      BY <1>16 DEF SecondPassFails
    <3> QED
      BY <1>0, <3>1
  <2>4. \A j : Asked(job, j) => Asked(job', j)
    BY <2>1 DEF Goes, Asked, Untouched
  <2>5. ASSUME NEW r \in leasing', r \notin leasing
        PROVE  /\ Cfg[i].dev = r.dev /\ Cfg[i].on /\ Cfg[i].type = "dhcp"
               /\ r.wan => CarriesDefaultRoute(Cfg[i], Cfg)
               /\ Asked(job', i)
    <3>1. r = q /\ job.stage = "ip" /\ s.on /\ s.type = "dhcp"
      BY <2>1, <2>5
    <3>2. Asked(job', i)
      BY <2>1, <3>1 DEF Goes, Asked
    <3> QED
      BY <2>2, <3>1, <3>2 DEF CarriesDefaultRoute
  <2> HIDE DEF Cfg, s, q
  <2>6. \A d \in Devices : d \in excused' \/ kernel'[d].perm = kernel[d].perm
    BY <2>1, <2>3
  <2>7. \E st, r, w : st # "boot" /\ Goes(st, r, w)
    BY <2>1
  <2> QED
    BY <1>0, <2>1, <2>2, <2>4, <2>5, <2>6, <2>7, OthersKept DEF Cfg
<1>10. ASSUME NEW i \in setup.ids, RenewDHCP(i) PROVE UnusedInv' /\ LeasingInv'
  <2> DEFINE q == [dev |-> force[i].dev, wan |-> force[i].zone = "WAN", late |-> job # NoJob]
  <2>1. /\ UNCHANGED <<force, job, excused, kernel>> /\ leasing' = leasing \cup {q}
        /\ i \in Ids(force) /\ force[i].on /\ force[i].type = "dhcp"
    BY <1>0, <1>10, TypeFacts DEF RenewDHCP, Ids, Configs
  <2>2. ASSUME NEW r \in leasing', r \notin leasing, ~r.late
        PROVE  /\ Cfg[i].dev = r.dev /\ Cfg[i].on /\ Cfg[i].type = "dhcp" /\ i \in Ids(Cfg)
               /\ r.wan => CarriesDefaultRoute(Cfg[i], Cfg)
               /\ Asked(job', i)
    <3>1. r = q /\ job = NoJob /\ Cfg = force
      <4>1. r = q /\ r.late = (job # NoJob)
        BY <2>1, <2>2
      <4> QED
        BY <2>2, <4>1 DEF Config
    <3> QED
      BY <2>1, <3>1 DEF CarriesDefaultRoute, Asked, Untouched
  <2> HIDE DEF Cfg
  <2> QED
    BY <1>0, <2>1, <2>2, OthersKept DEF Cfg
<1>11. ASSUME NEW r \in leasing, NEW answered \in BOOLEAN, DHClientEnds(r, answered) PROVE UnusedInv' /\ LeasingInv'
  <2>1. /\ UNCHANGED <<force, job>> /\ excused \subseteq excused' /\ leasing' \subseteq leasing
        /\ r.dev \in Devices /\ kernel' = [kernel EXCEPT ![r.dev] = Leasing(kernel[r.dev], r.wan, answered)]
    BY <1>0, <1>11, TypeFacts DEF DHClientEnds
  <2>2. Leasing(kernel[r.dev], r.wan, answered).perm = kernel[r.dev].perm
    BY <1>0, <2>1 DEF Leasing, Cards, RemoveDefaultRoute
  <2>3. \A d \in Devices : kernel'[d].perm = kernel[d].perm
    BY <1>0, <2>1, <2>2
  <2> QED
    BY <1>s, <2>1, <2>3
<1>12. ASSUME NEW r \in leasing, DHClientFails(r) PROVE UnusedInv' /\ LeasingInv'
  <2>1. UNCHANGED <<force, job, excused, kernel>> /\ leasing' \subseteq leasing
    BY <1>12 DEF DHClientFails
  <2> QED
    BY <1>s, <2>1
<1>13. ASSUME NEW r \in leasing, HelperRenews(r) PROVE UnusedInv' /\ LeasingInv'
  <2>1. UNCHANGED <<force, job>> /\ leasing' \subseteq leasing /\ excused \subseteq excused'
    BY <1>13 DEF HelperRenews
  <2>2. \/ UNCHANGED kernel
        \/ kernel' = [kernel EXCEPT ![r.dev].lease = TRUE,
                             ![r.dev].route = IF profile[r.dev].route = FromISP THEN FromISP ELSE @]
    BY <1>13 DEF HelperRenews
  <2>3. \A d \in Devices : kernel'[d].perm = kernel[d].perm
    BY <1>0, <2>2 DEF Cards
  <2> QED
    BY <1>s, <2>1, <2>3
<1>14. ASSUME NEW d \in Devices, Settle(d) PROVE UnusedInv' /\ LeasingInv'
  <2>1. /\ UNCHANGED <<force, job, leasing>> /\ excused \subseteq excused' /\ (isStale(d) => d \in excused')
        /\ \E k : kernel' = [kernel EXCEPT ![d] = k]
    BY <1>14 DEF Settle
  <2>2. Used(d) \/ isStale(d)
    BY <1>14 DEF isStale, Unused, Config
  <2>3. \A e \in Devices : e \in excused' \/ kernel'[e].perm = kernel[e].perm \/ Used(e)
    BY <1>0, <2>1, <2>2
  <2> QED
    BY <1>s, <2>1, <2>3
<1>15. ASSUME NEW d \in Devices, Drift(d) PROVE UnusedInv' /\ LeasingInv'
  <2>1. /\ UNCHANGED <<force, job, leasing>> /\ excused' = excused \cup {d} /\ \E k : kernel' = [kernel EXCEPT ![d] = k]
    BY <1>15 DEF Drift
  <2>2. \A e \in Devices : e \in excused' \/ kernel'[e].perm = kernel[e].perm
    BY <1>0, <2>1
  <2> QED
    BY <1>s, <2>1, <2>2
<1> QED
  BY <1>1, <1>2, <1>3, <1>4, <1>5, <1>6, <1>7, <1>8, <1>9, <1>10, <1>11, <1>12, <1>13, <1>14, <1>15, <1>16 DEF Next

LEMMA CardSteps ==
    ASSUME Standing, LeasingInv, [Next]_vars
    PROVE  CardInv'
<1>1. CASE UNCHANGED vars \/ Quiet
  BY <1>1, StandsFine DEF vars, Quiet
<1>2. CASE \E cfg \in setup.configs, read \in BOOLEAN : Apply(cfg, read)
  BY <1>2, ApplyFine
<1>3. CASE BootApply \/ AgentRestart \/ Reboot
  BY <1>3, BootApplyFine, BootingFine
<1>4. CASE HelperStarts \/ Write \/ WriteFails \/ Saved
  BY <1>4, HelperStepsFine
<1>5. CASE \E fails \in SUBSET Devices : Finish(fails)
  BY <1>5, FinishFine
<1>6. ASSUME NEW i \in setup.ids,
             \/ Reconfigure(i) \/ ReconfigureFails(i) \/ AddressIsThere(i) \/ LeaseTimeout(i)
             \/ AddressTimeout(i) \/ SecondPass(i) \/ SecondPassFails(i)
      PROVE  CardInv'
  BY <1>6, ReconfigureFine, WaitFine, GiveUpFine, SecondPassFine, SecondPassFailsFine
<1>7. ASSUME NEW i \in setup.ids, RenewDHCP(i) PROVE CardInv'
  BY <1>7, StandsFine DEF RenewDHCP
<1>8. ASSUME NEW r \in leasing, NEW answered \in BOOLEAN, DHClientEnds(r, answered) PROVE CardInv'
  BY <1>8, DHClientFine
<1>9. ASSUME NEW r \in leasing, DHClientFails(r) PROVE CardInv'
  BY <1>9, StandsFine DEF DHClientFails
<1>10. ASSUME NEW r \in leasing, HelperRenews(r) PROVE CardInv'
  BY <1>10, HelperFine
<1>11. ASSUME NEW d \in Devices, Settle(d) \/ Drift(d) PROVE CardInv'
  BY <1>11, SettleFine, DriftFine
<1> QED
  BY <1>1, <1>2, <1>3, <1>4, <1>5, <1>6, <1>7, <1>8, <1>9, <1>10, <1>11 DEF Next

CardsInv == Standing /\ UnusedInv /\ LeasingInv /\ SeedInv

LEMMA CardsInit ==
    ASSUME OneCardEach, Init
    PROVE  CardsInv
<1>1. TypeInv /\ CfgInv /\ ProfileInv
  BY TypeInit, CfgInit, ProfileInit
<1>2. job # NoJob /\ job.stage = "boot" /\ job.touch = {} /\ job.rest = {} /\ job.waits = {} /\ job.new = force /\ job.prev = NoConfig
  <2>1. job = Booting /\ job # NoJob
    <3>1. NoConfig \in Configs(setup) /\ force \in Configs(setup) /\ NoJob \notin Jobs(setup)
      BY <1>1, TypeFacts DEF NoConfig, Configs, IsScenario
    <3> QED
      BY <3>1 DEF Init, Booting, Jobs
  <2> QED
    BY <2>1 DEF Booting
<1>3. JobInv /\ UnusedInv /\ LeasingInv /\ PermInv
  BY <1>2 DEF Init, JobInv, UnusedInv, LeasingInv, PermInv
<1>4. CardInv
  BY <1>2 DEF CardInv, FineAt, Done, Cleaned, There, Untouched
<1>5. SeedInv
  <2>1. ASSUME NEW i \in Ids(force)
        PROVE  /\ force[i].on
               /\ IF isStatic(force[i]) THEN force[i].ip \in found[force[i].dev].perm
                  ELSE force[i].type = "dhcp" /\ (found[force[i].dev].lease \/ found[force[i].dev].perm = {})
    <3>1. PICK zone \in {"HOST", "WAN", "LAN"} : force[i] \in Adopted(force[i].dev, zone, found[force[i].dev])
      BY <1>1, TypeFacts, SeedIs DEF Init
    <3>2. /\ force[i].dev \in Devices /\ found[force[i].dev] \in Cards(setup)
          /\ zone \in setup.zones /\ NoAddr \notin Addresses(setup)
      BY <1>1, TypeFacts, SettingIs DEF IsScenario
    <3> QED
      BY <3>1, <3>2, AdoptedIs
  <2> QED
    BY <1>2, <2>1 DEF SeedInv
<1> QED
  BY <1>1, <1>3, <1>4, <1>5 DEF CardsInv, Standing

LEMMA CardsFollowFrom ==
    ASSUME CardsInv
    PROVE  CardsFollow
<1>0. TypeInv /\ CardInv /\ JobInv
  BY DEF CardsInv, Standing
<1>1. ASSUME AtRest PROVE QuietCards
  <2>1. job = NoJob /\ pending = {} /\ Config(force, job) = force
    BY <1>1 DEF AtRest, Config
  <2>2. ASSUME NEW i \in Ids(force), force[i].dev \notin excused
        PROVE  Follows(force[i]) /\ (~edited => TakenOver(force[i].dev))
    <3> DEFINE s == force[i]
               d == s.dev
    <3>1. FineAt(force, i) /\ Done(job, i) /\ Cleaned(job, i)
      BY <1>0, <2>1, <2>2 DEF CardInv, Done, Cleaned, Untouched
    <3>2. Placed(setup, s, kernel[d], found[d].perm) /\ Routed(s, force, kernel[d])
      BY <2>1, <2>2, <3>1 DEF FineAt
    <3>3. Follows(s)
      BY <3>2 DEF Follows, OffIsDown, Placed, Routed, Tolerated, HasBackend, ByNetworkd, isVLAN
    <3>4. ~edited => TakenOver(d)
      <4>1. SUFFICES ASSUME ~edited, \A a, b \in found[d].perm : a = b, found[d].perm # {} => ~found[d].lease
                     PROVE  kernel[d].perm = found[d].perm
        BY DEF TakenOver
      <4>2. s.on /\ IF isStatic(s) THEN s.ip \in found[d].perm
                    ELSE s.type = "dhcp" /\ (found[d].lease \/ found[d].perm = {})
        BY <2>2, <4>1 DEF CardsInv, SeedInv
      <4>3. CASE isStatic(s)
        <5>1. found[d].perm = {s.ip}
          BY <4>1, <4>2, <4>3
        <5> QED
          BY <3>2, <4>2, <4>3, <5>1 DEF Placed
      <4>4. CASE ~isStatic(s)
        BY <3>2, <4>1, <4>2, <4>4 DEF Placed
      <4> QED
        BY <4>3, <4>4
    <3> QED
      BY <3>3, <3>4
  <2>3. \A d \in Unused(force) \ excused : kernel[d].perm = {}
    BY <2>1 DEF CardsInv, UnusedInv, Unused
  <2> QED
    BY <2>2, <2>3 DEF QuietCards
<1>2. ASSUME job # NoJob, job.stage = "saved" \/ (job.stage = "ip" /\ job.rest = {}) PROVE BoundInTime
  <2>1. ASSUME NEW i \in job.touch, job.new[i].dev \notin excused PROVE Bound(job.new[i], kernel[job.new[i].dev])
    <3>1. i \in Ids(job.new) /\ Config(force, job) = job.new /\ There(job, i)
      BY <1>0, <1>2, <2>1, TypeFacts DEF Config, There, JobInv
    <3> QED
      BY <1>0, <2>1, <3>1 DEF CardInv, FineAt
  <2> QED
    BY <2>1 DEF BoundInTime, Bound
<1> QED
  BY <1>1, <1>2 DEF CardsFollow

(* Whatever way it went, with failures, drifts, restarts and boots at any  *)
(* moment: when all is quiet the cards are as the configuration says, and  *)
(* the addresses are there in time for the services.                       *)
THEOREM CardsFollowing ==
    ASSUME OneCardEach
    PROVE  Spec => []CardsFollow
<1>1. Init => CardsInv
  BY CardsInit
<1>2. CardsInv /\ [Next]_vars => CardsInv'
  BY TypeSteps, CfgSteps, ProfileSteps, JobSteps, PermSteps, SeedSteps, CardSteps, OthersSteps DEF CardsInv, Standing
<1>3. CardsInv => CardsFollow
  BY CardsFollowFrom
<1> QED
  BY <1>1, <1>2, <1>3, PTL DEF Spec
=============================================================================
