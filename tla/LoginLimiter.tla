---------------------------- MODULE LoginLimiter ----------------------------
(***************************************************************************)
(* The brake on failed logins: AuthManager's counters and lockouts, one    *)
(* per source address and one per user name (pkg/api/auth.go), and the way *)
(* handleLogin uses them (pkg/api/server.go): it asks IsLockedOut, checks  *)
(* the password without any lock of the AuthManager, and then calls        *)
(* RecordFailedAttempt or CreateSession, so that requests overlap.         *)
(*                                                                         *)
(* Time is counted in ticks, of which attemptTTL and the lockout are       *)
(* small numbers; an instant is represented by its distance from now, so   *)
(* that time need not be bounded.                                          *)
(***************************************************************************)
EXTENDS Naturals, FiniteSets

CONSTANTS
  Ips, LoginNames,  \* the keys of the two pairs of maps
  Logins,           \* requests that may be under way at once
  Limit,            \* failed attempts that lead to a lockout
  TTL,              \* attemptTTL
  LockTime          \* length of a lockout

Keys == Ips \cup LoginNames

ASSUME LimiterConstants ==
  /\ Ips \cap LoginNames = {}
  /\ Limit \in Nat \ {0} /\ TTL \in Nat \ {0} /\ LockTime \in Nat \ {0}
  /\ IsFiniteSet(Logins)

VARIABLES
  attempts,  \* ipAttempts and userAttempts: count, and age of the last one;
             \* count 0 stands for a key that is not in the map
  lockout,   \* ipLockouts and userLockouts: ticks left, 0 when over or absent
  login,     \* the login requests
  streak,    \* history variable: failures of a key in a row, none of them
             \* more than TTL after the one before
  late       \* history variable: passwords checked for a key since it was locked

limiterVars == <<attempts, lockout, login, streak, late>>

NoAttempt == [count |-> 0, age |-> 0]
NoRequest == [pc |-> "idle"]
Requests ==
  {NoRequest} \cup [pc : {"verify", "create", "record"}, ip : Ips, name : LoginNames]

LimiterTypeOK ==
  /\ attempts \in [Keys -> [count : 0..(Limit - 1), age : 0..(TTL + 1)]]
  /\ lockout \in [Keys -> 0..LockTime]
  /\ login \in [Logins -> Requests]
  /\ streak \in [Keys -> [n : 0..Limit, age : 0..(TTL + 1)]]
  /\ late \in [Keys -> 0..Cardinality(Logins)]

LimiterInit ==
  /\ attempts = [k \in Keys |-> NoAttempt]
  /\ lockout = [k \in Keys |-> 0]
  /\ login = [c \in Logins |-> NoRequest]
  /\ streak = [k \in Keys |-> [n |-> 0, age |-> 0]]
  /\ late = [k \in Keys |-> 0]

-----------------------------------------------------------------------------
Locked(k) == lockout[k] > 0

(* Deviation: only the address is asked for.                               *)
IsLockedOutIpOnly(ip, name) == Locked(ip)

IsLockedOut(ip, name) == Locked(ip) \/ Locked(name)

(* Deviation: a counter never grows too old.                               *)
StaleNever(c) == FALSE

(* now.Sub(c.last) > attemptTTL                                            *)
Stale(c) == c.age > TTL

(* pruneLocked, for the attempts; lockouts that are over are 0 already.    *)
Pruned == [k \in Keys |-> IF Stale(attempts[k]) THEN NoAttempt ELSE attempts[k]]

(* The count of recordFailedAttemptLocked after one more failure of key k. *)
Count(k) ==
  IF Pruned[k].count > 0 /\ Stale(Pruned[k]) THEN 1 ELSE Pruned[k].count + 1

(* handleLogin: a request that is locked out is answered with 429 and      *)
(* changes nothing.                                                        *)
Begin(c, ip, name) ==
  /\ login[c] = NoRequest
  /\ ~IsLockedOut(ip, name)
  /\ login' = [login EXCEPT ![c] = [pc |-> "verify", ip |-> ip, name |-> name]]
  /\ UNCHANGED <<attempts, lockout, streak, late>>

(* VerifyUserCredentials, with whatever answer.                            *)
Verify(c) ==
  /\ login[c].pc = "verify"
  /\ \E answer \in {"create", "record"} : login' = [login EXCEPT ![c].pc = answer]
  /\ late' = [k \in Keys |-> IF k \in {login[c].ip, login[c].name} /\ Locked(k)
                             THEN late[k] + 1 ELSE late[k]]
  /\ UNCHANGED <<attempts, lockout, streak>>

(* CreateSession prunes; a login that succeeds resets no counter.          *)
Create(c) ==
  /\ login[c].pc = "create"
  /\ attempts' = Pruned
  /\ login' = [login EXCEPT ![c] = NoRequest]
  /\ UNCHANGED <<lockout, streak, late>>

(* The failures in a row when key k fails now (saturated).                 *)
Streak(k) ==
  IF streak[k].n = 0 \/ streak[k].age > TTL THEN 1
  ELSE IF streak[k].n < Limit THEN streak[k].n + 1 ELSE Limit

(* Deviation: one failure more than allowed.                               *)
ReachedLate(k) == Count(k) > Limit

(* c.count >= 5, after counting the failure.                               *)
Reached(k) == Count(k) >= Limit

(* Deviation: a failure that does not lock ends the lockout there is.      *)
LockoutsOverwritten(keys) ==
  [k \in Keys |-> IF k \notin keys THEN lockout[k]
                  ELSE IF Reached(k) THEN LockTime ELSE 0]

(* recordFailedAttemptLocked on the lockouts of the given keys.            *)
Lockouts(keys) ==
  [k \in Keys |-> IF k \in keys /\ Reached(k) THEN LockTime ELSE lockout[k]]

(* RecordFailedAttempt: both counters, independently; one that reaches the *)
(* limit is deleted.                                                       *)
RecordFailed(c) ==
  /\ login[c].pc = "record"
  /\ LET keys == {login[c].ip, login[c].name}
     IN /\ attempts' = [k \in Keys |->
              IF k \notin keys THEN Pruned[k]
              ELSE IF Reached(k) THEN NoAttempt
              ELSE [count |-> Count(k), age |-> 0]]
        /\ lockout' = Lockouts(keys)
        /\ streak' = [k \in Keys |-> IF k \in keys THEN [n |-> Streak(k), age |-> 0]
                                     ELSE streak[k]]
        /\ late' = [k \in Keys |->
              IF k \in keys /\ Reached(k) /\ ~Locked(k) THEN 0 ELSE late[k]]
  /\ login' = [login EXCEPT ![c] = NoRequest]

(* DeleteSession (a logout) prunes too.                                    *)
Logout ==
  /\ attempts' = Pruned
  /\ UNCHANGED <<lockout, login, streak, late>>

Tick ==
  /\ attempts' = [k \in Keys |->
       IF attempts[k].count > 0 /\ attempts[k].age <= TTL
       THEN [attempts[k] EXCEPT !.age = @ + 1] ELSE attempts[k]]
  /\ lockout' = [k \in Keys |-> IF Locked(k) THEN lockout[k] - 1 ELSE 0]
  /\ streak' = [k \in Keys |->
       IF streak[k].n > 0 /\ streak[k].age <= TTL
       THEN [streak[k] EXCEPT !.age = @ + 1] ELSE streak[k]]
  /\ UNCHANGED <<login, late>>

(* The maps live in memory only: NewAuthManager starts with empty ones.    *)
RestartLimiter ==
  /\ attempts' = [k \in Keys |-> NoAttempt]
  /\ lockout' = [k \in Keys |-> 0]
  /\ login' = [c \in Logins |-> NoRequest]
  /\ streak' = [k \in Keys |-> [n |-> 0, age |-> 0]]
  /\ late' = [k \in Keys |-> 0]

LimiterNext ==
  \/ \E c \in Logins :
       \/ \E ip \in Ips, name \in LoginNames : Begin(c, ip, name)
       \/ Verify(c) \/ Create(c) \/ RecordFailed(c)
  \/ Logout \/ Tick \/ RestartLimiter

LimiterSpec == LimiterInit /\ [][LimiterNext]_limiterVars
-----------------------------------------------------------------------------
(* Requests that overlap with the one that causes a lockout still have     *)
(* their password checked, but no others: IsLockedOut is asked before the  *)
(* check, without a common lock, so each other request under way gets at   *)
(* most one more.                                                          *)
LateChecksAreBounded ==
  \A k \in Keys : Locked(k) => late[k] <= Cardinality(Logins) - 1

(* Only Limit failures of one key in a row, each within attemptTTL of the  *)
(* one before, lock it: failures scattered over days never add up.         *)
MeansBurst(k) == lockout'[k] > lockout[k] => streak'[k].n >= Limit

(* Nothing but time (and a restart) shortens a lockout: not a failure of   *)
(* the other key, not pruning, not a request that was under way.           *)
RunsItsTime(k) == lockout'[k] < lockout[k] => Tick \/ RestartLimiter

(* A lockout is deserved, is served in full, and keeps out all but those   *)
(* whose password was about to be checked.                                 *)
LockoutsAreFair ==
  [][LateChecksAreBounded' /\ \A k \in Keys : MeansBurst(k) /\ RunsItsTime(k)]_limiterVars
=============================================================================
