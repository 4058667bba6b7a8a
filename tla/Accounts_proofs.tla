--------------------------- MODULE Accounts_proofs ---------------------------
(***************************************************************************)
(* Proofs about accounts and sessions, for any number of requests under    *)
(* way, names, accounts, passwords and logins, and any scenarios:          *)
(*                                                                         *)
(* TypeCorrect     the state stays within its types, tokens are unique;    *)
(* AccountsSound   there is always an administrator, names and IDs are     *)
(*                 unique, and while nothing interferes every valid login  *)
(*                 is that of an account as it is now;                     *)
(* PasswordsKept   no password is set back but by a restore or a reset;    *)
(* StartsKept      a start finds the valid logins, and after a restore its *)
(*                 accounts.                                               *)
(*                                                                         *)
(* The invariants that a run checks are not inductive: that a login is     *)
(* current needs what a request between its steps remembers of the account *)
(* and of the session (ReqInv, CurrentInv); that there is an administrator *)
(* needs it of every file the accounts may be loaded from (StoreInv); and  *)
(* what a start finds needs when file and memory agree (LoginInv, FileInv). *)
(*                                                                         *)
(* The second part is about the brake on failed logins:                    *)
(*                                                                         *)
(* LimiterTypeCorrect  its counters stay within their types;               *)
(* LateChecksBounded   a lockout lets through at most the requests whose   *)
(*                     password was about to be checked;                   *)
(* LockoutFairness     it is deserved, and is served in full.              *)
(***************************************************************************)
EXTENDS Accounts, LoginLimiter, FiniteSetTheorems, TLAPS

(* The requests under way, with what each has to remember.                 *)
UserNames == Names \cup {"master"}
Roles == {"admin", "viewer"}
Ids == 0..MaxId
Proofs == Ids \X (0..MaxPw)

Request ==
  {Idle}
  \cup [pc : {"createSession"}, name : UserNames, role : Roles, of : Proofs]
  \cup [pc : {"createUser"}, name : UserNames, role : Roles]
  \cup [pc : {"deleteUser"}, id : Ids, name : UserNames]
  \cup [pc : {"reset", "resetLookup"}, id : Ids]
  \cup [pc : {"own"}, name : UserNames, token : Nat]
  \cup [pc : {"ownChange"}, id : Ids, name : UserNames, token : Nat,
        pw : 0..MaxPw]
  \cup [pc : {"kill"}, name : UserNames]
  \cup [pc : {"kill"}, name : UserNames, keep : Nat, id : Ids, pw : 0..MaxPw]
  \cup [pc : {"wipe"}, name : UserNames]
  \cup [pc : {"wipeFiles", "restore"}]

(* TypeOK in two parts, what the requests hold apart.                      *)
AccountsTyped ==
  /\ users \subseteq Account
  /\ usersFile \in {Missing, Torn} \/ usersFile \subseteq Account
  /\ backup = NoBackup \/ backup \subseteq Account
  /\ agent \in {"up", "exiting", "dead"} /\ nextId \in 1..(MaxId + 1)
  /\ promised \in Promise \cup {None}

LoginsTyped ==
  /\ scenario \in Scenarios /\ nextToken \in 0..MaxToken
  /\ sessions \subseteq Session /\ sessFile \subseteq Session
  /\ \A s, t \in sessions : s.token = t.token => s = t

(* What a request remembers of an account stays true of it, and of a       *)
(* session: names never change and passwords go forward.                   *)
Remembers(r) ==
  /\ r.pc \in {"deleteUser", "ownChange"} =>
       /\ r.id < nextId
       /\ \A u \in users : u.id = r.id => u.name = r.name
  /\ r.pc = "ownChange" => \A u \in users : u.id = r.id => r.pw <= u.pw
  /\ r.pc \in {"own", "ownChange"} =>
       /\ r.token < nextToken
       /\ \A s \in sessions : s.token = r.token => s.name = r.name
  /\ r.pc = "restore" => backup # NoBackup

ReqInv ==
  req \in [Clients -> Request] /\ \A c \in Clients : Remembers(req[c])

(* Accounts as they may be loaded: one of them administers, and no two     *)
(* share a name or an ID.                                                  *)
Sound(us) ==
  /\ \E u \in us : u.role = "admin"
  /\ \A u, v \in us : u.name = v.name \/ u.id = v.id => u = v
  /\ \A u \in us : u.id < nextId

StoreInv ==
  /\ Sound(users)
  /\ usersFile \notin {Missing, Torn} => Sound(usersFile)
  /\ backup # NoBackup => Sound(backup)

(* Sessions are told apart by their tokens, and those that are valid are   *)
(* those in the file.                                                      *)
LoginInv ==
  /\ \A s, t \in sessFile : s.token = t.token => s = t
  /\ \A s \in sessions \cup sessFile : s.token < nextToken
  /\ "write" \notin faults => Valid(sessFile) = Valid(sessions)

(* The file and the accounts in memory differ only after a restore or a    *)
(* reset, until the agent starts again.                                    *)
FileInv ==
  /\ agent = "exiting" <=> promised # None
  /\ "write" \notin faults => usersFile # Torn /\ agent # "dead"
  /\ "overlap" \notin faults =>
       \A c, d \in Clients : req[c] # Idle /\ req[d] # Idle => c = d
  /\ faults \cap {"write", "cli"} = {} /\ promised = None => usersFile = users
  /\ faults \subseteq {"crash"} /\ promised # None =>
       /\ Quiet
       /\ \/ usersFile = promised.users
          \/ usersFile = Missing /\ promised.users = Seed

(* While nothing fails and requests come one at a time, every valid login  *)
(* is current but those the request under way is about to end; the session *)
(* it keeps has proved the new password.                                   *)
Current(s) ==
  \E u \in users : s.of = <<u.id, u.pw>> /\ u.name = s.name /\ u.role = s.role

Settles(r, s) ==
  \/ r.pc = "kill" /\ (s.name = r.name \/ Keeps(r, s))
  \/ r.pc = "resetLookup" /\ \E u \in users : u.id = r.id /\ u.name = s.name

ProvesNew(r, s) ==
  r.pc = "kill" /\ Keeps(r, s) =>
    \E u \in users :
      u.id = r.id /\ u.pw = r.pw /\ u.name = s.name /\ u.role = s.role

LoginsCurrent ==
  \A s \in Valid(sessions) : s.of # Earlier =>
    /\ Current(s) \/ \E c \in Clients : Settles(req[c], s)
    /\ \A c \in Clients : ProvesNew(req[c], s)

KnowsAccount(r) ==
  /\ r.pc = "createSession" =>
       \E u \in users :
         u.name = r.name /\ u.role = r.role /\ r.of = <<u.id, u.pw>>
  /\ r.pc = "ownChange" => \A u \in users : u.id = r.id => u.pw = r.pw

AllCurrent == LoginsCurrent /\ \A c \in Clients : KnowsAccount(req[c])

CurrentInv == faults = {} /\ agent = "up" => AllCurrent

IInv ==
  /\ AccountsTyped /\ LoginsTyped /\ ReqInv /\ StoreInv /\ LoginInv
  /\ FileInv /\ CurrentInv

-----------------------------------------------------------------------------
(* What a request holds at each of its steps.                              *)
LEMMA RequestForm ==
  ASSUME NEW r \in Request
  PROVE  /\ r.pc \in {"idle", "createSession", "createUser", "deleteUser",
                      "reset", "resetLookup", "own", "ownChange", "kill",
                      "wipe", "wipeFiles", "restore"}
         /\ r.pc = "idle" <=> r = Idle
         /\ r.pc = "createSession" =>
              r.name \in UserNames /\ r.role \in Roles /\ r.of \in Proofs
         /\ r.pc = "createUser" => r.name \in UserNames /\ r.role \in Roles
         /\ r.pc = "deleteUser" => r.id \in Ids /\ r.name \in UserNames
         /\ r.pc \in {"reset", "resetLookup"} => r.id \in Ids
         /\ r.pc = "own" => r.name \in UserNames /\ r.token \in Nat
         /\ r.pc = "ownChange" =>
              /\ r.id \in Ids /\ r.name \in UserNames
              /\ r.token \in Nat /\ r.pw \in 0..MaxPw
         /\ r.pc = "kill" =>
              /\ r.name \in UserNames
              /\ "keep" \in DOMAIN r => r.id \in Ids /\ r.pw \in 0..MaxPw
  BY DEF Request, Idle

(* What makes up a session.                                                *)
LEMMA SessionForm ==
  ASSUME NEW s \in Session
  PROVE  /\ s.token \in 0..(MaxToken - 1) /\ s.name \in UserNames
         /\ s.role \in Roles /\ s.over \in BOOLEAN
         /\ s.of \in Proofs \cup {Earlier}
  BY DEF Session, UserNames, Roles, Proofs, Ids

(* Sessions that expire, that are of earlier accounts, and that have proved *)
(* a new password are the same sessions otherwise.                         *)
SameLogin(s, t) == s.token = t.token /\ s.name = t.name /\ s.role = t.role

LEMMA ExpiredSessions ==
  ASSUME NEW ss \in SUBSET Session, NEW token
  PROVE  /\ Expired(ss, token) \subseteq Session
         /\ \A t \in Expired(ss, token) : \E s \in ss : SameLogin(s, t)
         /\ (\A s, t \in ss : s.token = t.token => s = t) =>
              \A s, t \in Expired(ss, token) : s.token = t.token => s = t
         /\ Valid(Expired(ss, token)) = {s \in Valid(ss) : s.token # token}
<1> DEFINE E(s) == [s EXCEPT !.over = @ \/ s.token = token]
<1>1. ASSUME NEW s \in ss
      PROVE  E(s) \in Session /\ SameLogin(s, E(s))
             /\ E(s).over = (s.over \/ s.token = token)
             /\ (s.token # token => E(s) = s)
  BY DEF Session, SameLogin
<1>2. Expired(ss, token) = {E(s) : s \in ss}
  BY DEF Expired
<1> HIDE DEF E
<1>3. Valid(Expired(ss, token)) = {s \in Valid(ss) : s.token # token}
  <2>1. ASSUME NEW t \in Valid(Expired(ss, token))
        PROVE  t \in Valid(ss) /\ t.token # token
    <3>1. PICK s \in ss : t = E(s)
      BY <1>2, <2>1 DEF Valid
    <3>2. ~t.over
      BY <2>1 DEF Valid
    <3>3. s.token # token /\ t = s
      BY <1>1, <3>1, <3>2
    <3> QED
      BY <3>2, <3>3 DEF Valid
  <2>2. ASSUME NEW t \in Valid(ss), t.token # token
        PROVE  t \in Valid(Expired(ss, token))
    BY <1>1, <1>2, <2>2 DEF Valid
  <2> QED
    BY <2>1, <2>2
<1> QED
  BY <1>1, <1>2, <1>3 DEF SameLogin

LEMMA EarlierSessions ==
  ASSUME NEW ss \in SUBSET Session
  PROVE  /\ OfEarlier(ss) \subseteq Session
         /\ \A t \in OfEarlier(ss) : t.of = Earlier
         /\ \A t \in OfEarlier(ss) :
              \E s \in ss : SameLogin(s, t) /\ s.over = t.over
         /\ (\A s, t \in ss : s.token = t.token => s = t) =>
              \A s, t \in OfEarlier(ss) : s.token = t.token => s = t
         /\ Valid(OfEarlier(ss)) = OfEarlier(Valid(ss))
         /\ Who(OfEarlier(ss)) = Who(ss)
<1> DEFINE E(s) == [s EXCEPT !.of = Earlier]
<1>1. ASSUME NEW s \in ss
      PROVE  E(s) \in Session /\ SameLogin(s, E(s)) /\ E(s).over = s.over
             /\ E(s).of = Earlier
  BY DEF Session, SameLogin
<1>2. OfEarlier(ss) = {E(s) : s \in ss}
  BY DEF OfEarlier
<1>3. OfEarlier(Valid(ss)) = {E(s) : s \in Valid(ss)}
  BY DEF OfEarlier
<1> HIDE DEF E
<1>4. Valid(OfEarlier(ss)) = OfEarlier(Valid(ss))
  BY <1>1, <1>2, <1>3 DEF Valid
<1>5. Who(OfEarlier(ss)) = Who(ss)
  BY <1>1, <1>2 DEF Who, SameLogin
<1> QED
  BY <1>1, <1>2, <1>4, <1>5 DEF SameLogin

AllProved(r, ss) == {Proved(r, s) : s \in ss}

LEMMA ProvedSessions ==
  ASSUME NEW ss \in SUBSET Session, NEW r \in Request, r.pc = "kill"
  PROVE  /\ AllProved(r, ss) \subseteq Session
         /\ \A t \in AllProved(r, ss) : \E s \in ss : SameLogin(s, t)
         /\ \A t \in AllProved(r, ss) : \E s \in ss :
              /\ SameLogin(s, t) /\ s.over = t.over /\ t = Proved(r, s)
              /\ t.of = IF Keeps(r, s) /\ s.of # Earlier
                        THEN <<r.id, r.pw>> ELSE s.of
              /\ t.of = Earlier <=> s.of = Earlier
         /\ (\A s, t \in ss : s.token = t.token => s = t) =>
              \A s, t \in AllProved(r, ss) : s.token = t.token => s = t
         /\ Valid(AllProved(r, ss)) = AllProved(r, Valid(ss))
<1>1. "keep" \in DOMAIN r => <<r.id, r.pw>> \in Proofs
  BY RequestForm DEF Proofs
<1>2. ASSUME NEW s \in ss
      PROVE  /\ Proved(r, s) \in Session /\ SameLogin(s, Proved(r, s))
             /\ Proved(r, s).over = s.over
             /\ Proved(r, s).of = IF Keeps(r, s) /\ s.of # Earlier
                                  THEN <<r.id, r.pw>> ELSE s.of
             /\ Proved(r, s).of = Earlier <=> s.of = Earlier
  <2>1. CASE Keeps(r, s) /\ s.of # Earlier
    <3>1. <<r.id, r.pw>> \in Proofs /\ <<r.id, r.pw>> # Earlier
      BY <1>1, <2>1, AccountsConstants DEF Keeps, Proofs, Ids
    <3>2. Proved(r, s) = [s EXCEPT !.of = <<r.id, r.pw>>]
      BY <2>1 DEF Proved
    <3> QED
      BY <2>1, <3>1, <3>2 DEF Session, SameLogin, Proofs, Ids
  <2>2. CASE ~(Keeps(r, s) /\ s.of # Earlier)
    BY <2>2 DEF Proved, SameLogin
  <2> QED
    BY <2>1, <2>2
<1>3. Valid(AllProved(r, ss)) = AllProved(r, Valid(ss))
  BY <1>2 DEF Valid, AllProved
<1> QED
  BY <1>2, <1>3 DEF SameLogin, AllProved

(* A changed password: every account is there as it was, but for that.     *)
LEMMA NextPw ==
  ASSUME NEW id, users \subseteq Account, Sound(users), MayChangePw(id)
  PROVE  /\ WithNextPw(id) \subseteq Account
         /\ \A v \in WithNextPw(id) : \E u \in users :
              /\ u.id = v.id /\ u.name = v.name /\ u.role = v.role
              /\ v.pw = IF u.id = id THEN u.pw + 1 ELSE u.pw
         /\ \A u \in users : \E v \in WithNextPw(id) :
              /\ u.id = v.id /\ u.name = v.name /\ u.role = v.role
              /\ v.pw = IF u.id = id THEN u.pw + 1 ELSE u.pw
         /\ \A v, w \in WithNextPw(id) :
              v.name = w.name \/ v.id = w.id => v = w
<1> DEFINE P(u) == IF u.id = id THEN [u EXCEPT !.pw = @ + 1] ELSE u
<1>1. ASSUME NEW u \in users
      PROVE  /\ P(u) \in Account
             /\ u.id = P(u).id /\ u.name = P(u).name /\ u.role = P(u).role
             /\ P(u).pw = IF u.id = id THEN u.pw + 1 ELSE u.pw
  <2>1. u \in Account /\ (u.id = id => u.pw < MaxPw)
    BY DEF MayChangePw, Sound
  <2>2. CASE u.id = id
    BY <2>1, <2>2, AccountsConstants DEF Account
  <2>3. CASE u.id # id
    BY <2>1, <2>3
  <2> QED
    BY <2>2, <2>3
<1>2. WithNextPw(id) = {P(u) : u \in users}
  BY DEF WithNextPw
<1> HIDE DEF P
<1> QED
  BY <1>1, <1>2 DEF Sound

-----------------------------------------------------------------------------
(* Most steps leave either the accounts or the sessions alone.             *)
LEMMA AccountSteps ==
  ASSUME Step \/ UNCHANGED vars
  PROVE  \/ UsersSame
         \/ \E c \in Clients :
              \/ CreateUser(c) \/ DeleteUser(c) \/ ResetPassword(c)
              \/ OwnChange(c) \/ Restore(c) \/ FactoryReset(c)
         \/ \E s \in sessions : Backup(s)
         \/ Restart \/ CliReset
<1>1. ASSUME NEW c \in Clients,
             \/ \E u \in users : VerifyCredentials(c, u)
             \/ \E s \in sessions :
                  \/ DeleteSession(c, s) \/ OwnRequest(c, s)
                  \/ \E r \in AdminRequests(s) : AdminRequest(c, s, r)
      PROVE  UsersSame
  BY <1>1 DEF VerifyCredentials, DeleteSession, OwnRequest, AdminRequest, UsersSame
<1>2. ASSUME NEW c \in Clients,
             \/ CreateSession(c) \/ Refused(c) \/ ResetLookup(c) \/ OwnVerify(c)
             \/ KillSessions(c) \/ WipeVerify(c)
      PROVE  UsersSame
  BY <1>2 DEF CreateSession, Refused, ResetLookup, OwnVerify, KillSessions, WipeVerify, UsersSame
<1>3. ASSUME (\E s \in sessions : Expire(s)) \/ Prune \/ UNCHANGED vars PROVE UsersSame
  BY <1>3 DEF Expire, Prune, UsersSame, vars
<1> QED
  BY <1>1, <1>2, <1>3 DEF Step

LEMMA LoginSteps ==
  ASSUME Step \/ UNCHANGED vars
  PROVE  \/ SessionsSame
         \/ \E c \in Clients :
              \/ \E s \in sessions : DeleteSession(c, s)
              \/ CreateSession(c) \/ KillSessions(c)
         \/ \E s \in sessions : Expire(s)
         \/ Prune \/ Restart
<1>1. ASSUME NEW c \in Clients,
             \/ \E u \in users : VerifyCredentials(c, u)
             \/ \E s \in sessions :
                  \/ OwnRequest(c, s) \/ \E r \in AdminRequests(s) : AdminRequest(c, s, r)
      PROVE  SessionsSame
  BY <1>1 DEF VerifyCredentials, OwnRequest, AdminRequest, SessionsSame
<1>2. ASSUME NEW c \in Clients,
             \/ Refused(c) \/ CreateUser(c) \/ DeleteUser(c) \/ ResetPassword(c)
             \/ ResetLookup(c) \/ OwnVerify(c)
      PROVE  SessionsSame
  BY <1>2 DEF Refused, CreateUser, DeleteUser, ResetPassword, ResetLookup, OwnVerify, SessionsSame
<1>3. ASSUME NEW c \in Clients, OwnChange(c) \/ Restore(c) \/ WipeVerify(c) \/ FactoryReset(c)
      PROVE  SessionsSame
  BY <1>3 DEF OwnChange, Restore, WipeVerify, FactoryReset, SessionsSame
<1>4. ASSUME (\E s \in sessions : Backup(s)) \/ CliReset \/ UNCHANGED vars PROVE SessionsSame
  BY <1>4 DEF Backup, CliReset, SessionsSame, vars
<1> QED
  BY <1>1, <1>2, <1>3, <1>4 DEF Step

(* Every step keeps the types of the accounts.                             *)
LEMMA StepKeepsAccounts ==
  ASSUME AccountsTyped, ReqInv, StoreInv,
         Step \/ UNCHANGED vars PROVE AccountsTyped'
<1>1. CASE UsersSame
  BY <1>1, RequestForm, AccountsConstants
     DEF AccountsTyped, ReqInv, Remembers, Account, SaveUsers, UsersSame
<1>2. ASSUME NEW c \in Clients, CreateUser(c) PROVE AccountsTyped'
  <2>1. req[c] \in Request /\ req[c].pc = "createUser"
    BY <1>2 DEF ReqInv, CreateUser, At
  <2>2. CASE UNCHANGED <<users, usersFile, nextId>>
    BY <1>2, <2>2 DEF CreateUser, AccountsTyped
  <2>3. CASE /\ nextId <= MaxId /\ nextId' = nextId + 1
             /\ users' = users \cup {[id |-> nextId, name |-> req[c].name,
                                     role |-> req[c].role, pw |-> 0]}
             /\ \E ok \in Outcomes : SaveUsers(ok)
    <3>1. [id |-> nextId, name |-> req[c].name, role |-> req[c].role, pw |-> 0]
            \in Account
      BY <2>1, <2>3, RequestForm, AccountsConstants
         DEF AccountsTyped, Account, UserNames, Roles
    <3>2. users' \subseteq Account
      BY <2>3, <3>1 DEF AccountsTyped
    <3>3. usersFile' \in {Missing, Torn} \/ usersFile' \subseteq Account
      BY <2>3, <3>2 DEF AccountsTyped, SaveUsers
    <3>4. nextId' \in 1..(MaxId + 1)
      BY <2>3, AccountsConstants DEF AccountsTyped
    <3> QED
      BY <1>2, <3>2, <3>3, <3>4 DEF CreateUser, AccountsTyped
  <2> QED
    BY <1>2, <2>2, <2>3 DEF CreateUser
<1>3. ASSUME NEW c \in Clients, DeleteUser(c) PROVE AccountsTyped'
  BY <1>3, RequestForm, AccountsConstants
     DEF AccountsTyped, ReqInv, Remembers, Account, SaveUsers, DeleteUser, At,
         Ends, Goes, SessionsSame
<1>4. ASSUME NEW c \in Clients, ResetPassword(c) PROVE AccountsTyped'
  <2>1. CASE UNCHANGED <<users, usersFile>>
    BY <1>4, <2>1 DEF ResetPassword, AccountsTyped
  <2>2. CASE /\ MayChangePw(req[c].id) /\ users' = WithNextPw(req[c].id)
             /\ \E ok \in Outcomes : SaveUsers(ok)
    <3>1. users' \subseteq Account
      BY <2>2, NextPw DEF AccountsTyped, StoreInv
    <3>2. usersFile' \in {Missing, Torn} \/ usersFile' \subseteq Account
      BY <2>2, <3>1 DEF AccountsTyped, SaveUsers
    <3> QED
      BY <1>4, <3>1, <3>2 DEF ResetPassword, AccountsTyped
  <2> QED
    BY <1>4, <2>1, <2>2 DEF ResetPassword
<1>5. ASSUME NEW c \in Clients, OwnChange(c) PROVE AccountsTyped'
  <2>1. CASE UNCHANGED <<users, usersFile>>
    BY <1>5, <2>1 DEF OwnChange, AccountsTyped
  <2>2. CASE /\ MayChangePw(req[c].id) /\ users' = WithNextPw(req[c].id)
             /\ \E ok \in Outcomes : SaveUsers(ok)
    <3>1. users' \subseteq Account
      BY <2>2, NextPw DEF AccountsTyped, StoreInv
    <3>2. usersFile' \in {Missing, Torn} \/ usersFile' \subseteq Account
      BY <2>2, <3>1 DEF AccountsTyped, SaveUsers
    <3> QED
      BY <1>5, <3>1, <3>2 DEF OwnChange, AccountsTyped
  <2> QED
    BY <1>5, <2>1, <2>2 DEF OwnChange
<1>6. ASSUME NEW c \in Clients, Restore(c) PROVE AccountsTyped'
  BY <1>6, RequestForm, AccountsConstants
     DEF AccountsTyped, ReqInv, Remembers, Account, SaveUsers, Restore, At,
         Ends, Goes, SessionsSame, Promise
<1>7. ASSUME NEW c \in Clients, FactoryReset(c) PROVE AccountsTyped'
  BY <1>7, RequestForm, AccountsConstants
     DEF AccountsTyped, ReqInv, Remembers, Account, SaveUsers, FactoryReset,
         At, Ends, Goes, SessionsSame, AfterReset, Promise, Seed
<1>8. ASSUME NEW s \in sessions, Backup(s) PROVE AccountsTyped'
  BY <1>8, RequestForm, AccountsConstants
     DEF AccountsTyped, ReqInv, Remembers, Account, SaveUsers, Backup,
         SessionsSame
<1>9. CASE Restart
  BY <1>9, RequestForm, AccountsConstants
     DEF AccountsTyped, ReqInv, Remembers, Account, SaveUsers, Restart,
         LoadedSessions, Seed
<1>10. CASE CliReset
  BY <1>10, RequestForm, AccountsConstants
     DEF AccountsTyped, ReqInv, Remembers, Account, SaveUsers, CliReset,
         SessionsSame, Seed
<1> QED
  BY <1>1, <1>2, <1>3, <1>4, <1>5, <1>6, <1>7, <1>8, <1>9, <1>10, AccountSteps

(* Every step keeps the sessions apart and in the file.                    *)
LEMMA StepKeepsLogins ==
  ASSUME LoginsTyped, ReqInv, LoginInv,
         Step \/ UNCHANGED vars, UNCHANGED scenario
  PROVE  LoginsTyped' /\ LoginInv'
<1>1. CASE SessionsSame
  BY <1>1, RequestForm, AccountsConstants
     DEF LoginsTyped, LoginInv, ReqInv, SaveSessions, faults, MaxToken,
         Session, SessionsSame
<1>2. ASSUME NEW c \in Clients, NEW s \in sessions, DeleteSession(c, s)
      PROVE  LoginsTyped' /\ LoginInv'
  BY <1>2, RequestForm, AccountsConstants
     DEF LoginsTyped, LoginInv, ReqInv, SaveSessions, faults, MaxToken,
         Session, DeleteSession, Arrives, Valid, UsersSame
<1>3. ASSUME NEW c \in Clients, CreateSession(c)
      PROVE  LoginsTyped' /\ LoginInv'
  <2> DEFINE s0 == [token |-> nextToken, name |-> req[c].name,
                    role |-> req[c].role, over |-> FALSE, of |-> req[c].of]
  <2>1. req[c] \in Request /\ req[c].pc = "createSession"
    BY <1>3 DEF ReqInv, CreateSession, At
  <2>2. nextToken < MaxToken /\ nextToken' = nextToken + 1
        /\ sessions' = Valid(sessions) \cup {s0} /\ SaveSessions
    BY <1>3 DEF CreateSession, FreshToken
  <2>3. MaxToken \in Nat /\ MaxToken' = MaxToken /\ Session' = Session
    BY AccountsConstants DEF LoginsTyped, MaxToken, Session
  <2>4. s0 \in Session /\ s0.token = nextToken /\ ~s0.over
    BY <2>1, <2>2, <2>3, RequestForm
       DEF LoginsTyped, Session, UserNames, Roles, Proofs, Ids
  <2> HIDE DEF s0
  <2>5. nextToken \in Nat /\ \A s \in sessions \cup sessFile : s.token \in Nat
    BY <2>3, SessionForm DEF LoginsTyped
  <2>6. /\ sessFile' \in {sessions', sessFile}
        /\ Valid(sessions) \subseteq sessions
        /\ ("write" \notin faults => sessFile' = sessions')
    BY <2>2 DEF SaveSessions, Valid
  <2>7. nextToken' \in 0..MaxToken'
    BY <2>2, <2>3, <2>5
  <2>8. LoginsTyped'
    BY <2>2, <2>3, <2>4, <2>5, <2>6, <2>7 DEF LoginsTyped, LoginInv
  <2>9. LoginInv'
    BY <2>2, <2>4, <2>5, <2>6 DEF LoginsTyped, LoginInv, faults, Valid
  <2> QED
    BY <2>8, <2>9
<1>4. ASSUME NEW c \in Clients, KillSessions(c)
      PROVE  LoginsTyped' /\ LoginInv'
  <2> DEFINE r == req[c]
             gone == {s \in sessions : s.name = r.name /\ ~Keeps(r, s)}
  <2>1. r \in Request /\ r.pc = "kill"
    BY <1>4 DEF ReqInv, KillSessions, At
  <2>2. /\ sessions' = AllProved(r, sessions \ gone)
        /\ \/ sessFile' = sessions'
           \/ "write" \in faults /\ sessFile' = sessFile
           \/ gone = {} /\ sessFile' = AllProved(r, sessFile)
        /\ nextToken' = nextToken
    BY <1>4 DEF KillSessions, SaveSessions, AllProved
  <2>3. MaxToken' = MaxToken /\ Session' = Session
    BY DEF MaxToken, Session
  <2> HIDE DEF r, gone
  <2>4. /\ sessions \ gone \in SUBSET Session /\ sessFile \in SUBSET Session
        /\ sessions \in SUBSET Session
    BY DEF LoginsTyped
  <2>5. /\ sessions' \subseteq Session
        /\ \A s, t \in sessions' : s.token = t.token => s = t
        /\ \A s \in sessions' : s.token < nextToken
        /\ Valid(sessions') = AllProved(r, Valid(sessions \ gone))
    <3> DEFINE new == AllProved(r, sessions \ gone)
    <3>1. new \subseteq Session
      BY <2>1, <2>4, ProvedSessions
    <3>2. \A t \in new : \E s \in sessions \ gone : SameLogin(s, t)
      BY <2>1, <2>4, ProvedSessions
    <3>3. \A s, t \in sessions \ gone : s.token = t.token => s = t
      BY DEF LoginsTyped
    <3>4. \A s, t \in new : s.token = t.token => s = t
      BY <2>1, <2>4, <3>3, ProvedSessions
    <3>5. Valid(new) = AllProved(r, Valid(sessions \ gone))
      BY <2>1, <2>4, ProvedSessions
    <3>6. \A s \in new : s.token < nextToken
      BY <3>2 DEF LoginInv, SameLogin
    <3> QED
      BY <2>2, <3>1, <3>4, <3>5, <3>6
  <2>6. /\ AllProved(r, sessFile) \subseteq Session
        /\ \A s, t \in AllProved(r, sessFile) : s.token = t.token => s = t
        /\ \A s \in AllProved(r, sessFile) : s.token < nextToken
    <3> DEFINE new == AllProved(r, sessFile)
    <3>1. new \subseteq Session
      BY <2>1, <2>4, ProvedSessions
    <3>2. \A t \in new : \E s \in sessFile : SameLogin(s, t)
      BY <2>1, <2>4, ProvedSessions
    <3>3. \A s, t \in sessFile : s.token = t.token => s = t
      BY DEF LoginInv
    <3>4. \A s, t \in new : s.token = t.token => s = t
      BY <2>1, <2>4, <3>3, ProvedSessions
    <3>5. \A s \in new : s.token < nextToken
      BY <3>2 DEF LoginInv, SameLogin
    <3> QED
      BY <3>1, <3>4, <3>5
  <2>7. Valid(AllProved(r, sessFile)) = AllProved(r, Valid(sessFile))
    BY <2>1, <2>4, ProvedSessions
  <2>8. LoginsTyped'
    BY <2>2, <2>3, <2>4, <2>5, <2>6 DEF LoginsTyped
  <2>9. CASE sessFile' = sessions'
    BY <2>2, <2>5, <2>8, <2>9 DEF LoginInv
  <2>10. CASE "write" \in faults /\ sessFile' = sessFile
    BY <2>2, <2>5, <2>8, <2>10 DEF LoginInv, faults
  <2>11. CASE gone = {} /\ sessFile' = AllProved(r, sessFile)
    BY <2>2, <2>5, <2>6, <2>7, <2>8, <2>11 DEF LoginInv, faults
  <2> QED
    BY <2>2, <2>8, <2>9, <2>10, <2>11
<1>5. ASSUME NEW s \in sessions, Expire(s) PROVE LoginsTyped' /\ LoginInv'
  <2>1. /\ sessions' = Expired(sessions, s.token)
        /\ sessFile' = Expired(sessFile, s.token) /\ nextToken' = nextToken
    BY <1>5 DEF Expire
  <2>2. MaxToken' = MaxToken /\ Session' = Session
    BY DEF MaxToken, Session
  <2>3. sessions \subseteq Session /\ sessFile \subseteq Session
    BY DEF LoginsTyped
  <2>4. LoginsTyped'
    BY <2>1, <2>2, <2>3, ExpiredSessions DEF LoginsTyped
  <2>5. Valid(sessFile) = Valid(sessions) =>
          Valid(sessFile') = Valid(sessions')
    <3>1. /\ Valid(sessFile') = {t \in Valid(sessFile) : t.token # s.token}
          /\ Valid(sessions') = {t \in Valid(sessions) : t.token # s.token}
      BY <2>1, <2>3, ExpiredSessions
    <3> QED
      BY <3>1
  <2>6. LoginInv'
    BY <2>1, <2>3, <2>5, ExpiredSessions DEF LoginInv, SameLogin, faults
  <2> QED
    BY <2>4, <2>6
<1>6. CASE Prune
  BY <1>6, RequestForm, AccountsConstants
     DEF LoginsTyped, LoginInv, ReqInv, SaveSessions, faults, MaxToken,
         Session, Prune, UsersSame, Valid
<1>7. CASE Restart
  <2>1. MaxToken' = MaxToken /\ Session' = Session /\ nextToken' = nextToken
    BY <1>7 DEF Restart, MaxToken, Session
  <2>2. /\ sessFile \subseteq Session /\ Valid(sessFile) \subseteq sessFile
        /\ Valid(sessFile) \subseteq Session
    BY DEF LoginsTyped, Valid
  <2>3. CASE UNCHANGED <<sessions, sessFile>>
    BY <2>1, <2>3 DEF LoginsTyped, LoginInv, faults
  <2>4. CASE sessions' = Valid(sessFile) /\ sessFile' = sessFile
    BY <2>1, <2>2, <2>4 DEF LoginsTyped, LoginInv, Valid
  <2>5. CASE /\ sessions' = OfEarlier(Valid(sessFile))
             /\ sessFile' = OfEarlier(sessFile)
    <3>1. LoginsTyped'
      BY <2>1, <2>2, <2>5, EarlierSessions DEF LoginsTyped, LoginInv
    <3>2. Valid(sessFile') = sessions' /\ Valid(sessions') = sessions'
      <4>1. Valid(Valid(sessFile)) = Valid(sessFile)
        BY DEF Valid
      <4> QED
        BY <2>2, <2>5, <4>1, EarlierSessions
    <3>3. LoginInv'
      BY <2>1, <2>2, <2>5, <3>2, EarlierSessions
         DEF LoginInv, SameLogin, faults
    <3> QED
      BY <3>1, <3>3
  <2> QED
    BY <1>7, <2>3, <2>4, <2>5 DEF Restart, LoadedSessions
<1> QED
  BY <1>1, <1>2, <1>3, <1>4, <1>5, <1>6, <1>7, LoginSteps

(* A step that changes accounts and sessions only in what requests do not  *)
(* remember of them.                                                       *)
Gentle ==
  /\ nextId <= nextId' /\ nextToken <= nextToken'
  /\ \A v \in users' :
       \/ nextId <= v.id
       \/ \E u \in users : u.id = v.id /\ u.name = v.name /\ u.pw <= v.pw
  /\ \A t \in sessions' :
       \/ nextToken <= t.token
       \/ \E s \in sessions : s.token = t.token /\ s.name = t.name
  /\ backup # NoBackup => backup' # NoBackup
LEMMA SameIsGentle ==
  ASSUME AccountsTyped, LoginsTyped,
         UNCHANGED <<users, sessions, nextId, nextToken, backup>>
  PROVE  Gentle
  BY AccountsConstants DEF AccountsTyped, LoginsTyped, Gentle, Account

LEMMA RequestsRemember ==
  ASSUME AccountsTyped, AccountsTyped', LoginsTyped, LoginsTyped', ReqInv,
         Gentle, NEW d \in Clients, req'[d] = req[d]
  PROVE  Remembers(req[d])'
<1>1. req[d] \in Request /\ Remembers(req[d])
  BY DEF ReqInv
<1>2. /\ \A u \in users' : u.id \in Nat /\ u.pw \in Nat
      /\ \A u \in users : u.id \in Nat /\ u.pw \in Nat
      /\ nextId \in Nat /\ nextId' \in Nat
      /\ nextToken \in Nat /\ nextToken' \in Nat
      /\ \A s \in sessions' : s.token \in Nat
  BY AccountsConstants DEF AccountsTyped, LoginsTyped, Account, Session
<1> QED
  BY <1>1, <1>2, RequestForm, AccountsConstants DEF Gentle, Remembers, Ids

LEMMA OneRequestMoves ==
  ASSUME AccountsTyped, AccountsTyped', LoginsTyped, LoginsTyped', ReqInv,
         Gentle, NEW c \in Clients, req' \in [Clients -> Request],
         Remembers(req[c])', \A d \in Clients : d # c => req'[d] = req[d]
  PROVE  ReqInv'
  BY RequestsRemember DEF ReqInv

LEMMA NoRequestMoves ==
  ASSUME AccountsTyped, AccountsTyped', LoginsTyped, LoginsTyped', ReqInv,
         Gentle, UNCHANGED req
  PROVE  ReqInv'
  BY RequestsRemember DEF ReqInv

(* Every step keeps what requests remember.                                *)
LEMMA StepKeepsReq ==
  ASSUME AccountsTyped, AccountsTyped', LoginsTyped, LoginsTyped',
         ReqInv, StoreInv, LoginInv,
         Step \/ UNCHANGED vars, UNCHANGED scenario PROVE ReqInv'
<1>1. ASSUME NEW c \in Clients, NEW u \in users, VerifyCredentials(c, u)
      PROVE  ReqInv'
  <2>1. req' \in [Clients -> Request]
        /\ \A d \in Clients : d # c => req'[d] = req[d]
    BY <1>1, RequestForm, AccountsConstants
       DEF ReqInv, Request, Idle, AccountsTyped, LoginsTyped, Account,
           Session, UserNames, Roles, Ids, Proofs, VerifyCredentials, Arrives,
           Goes
  <2>2. Gentle
    BY <1>1, SameIsGentle DEF VerifyCredentials, UsersSame, SessionsSame
  <2>3. Remembers(req[c])'
    BY <1>1
       DEF ReqInv, Remembers, Idle, VerifyCredentials, Arrives, Goes,
           UsersSame, SessionsSame
  <2> QED
    BY <2>1, <2>2, <2>3, OneRequestMoves
<1>2. ASSUME NEW c \in Clients, NEW s \in sessions, DeleteSession(c, s)
      PROVE  ReqInv'
  <2>1. Gentle /\ UNCHANGED req
    BY <1>2, AccountsConstants
       DEF Gentle, AccountsTyped, LoginsTyped, Account, DeleteSession,
           UsersSame, Valid
  <2> QED
    BY <2>1, NoRequestMoves
<1>3. ASSUME NEW c \in Clients, NEW s \in sessions, OwnRequest(c, s)
      PROVE  ReqInv'
  <2>1. req' \in [Clients -> Request]
        /\ \A d \in Clients : d # c => req'[d] = req[d]
    BY <1>3, RequestForm, AccountsConstants
       DEF ReqInv, Request, Idle, AccountsTyped, LoginsTyped, Account,
           Session, UserNames, Roles, Ids, Proofs, OwnRequest, Arrives, Goes,
           Valid
  <2>2. Gentle
    BY <1>3, SameIsGentle DEF OwnRequest, UsersSame, SessionsSame
  <2>3. Remembers(req[c])'
    <3>1. req'[c] = [pc |-> "own", name |-> s.name, token |-> s.token]
          /\ UNCHANGED <<sessions, nextToken>>
      BY <1>3 DEF ReqInv, OwnRequest, Goes, SessionsSame
    <3>2. s.token < nextToken
      BY DEF LoginInv
    <3>3. \A t \in sessions : t.token = s.token => t.name = s.name
      BY DEF LoginsTyped
    <3> QED
      BY <3>1, <3>2, <3>3 DEF Remembers
  <2> QED
    BY <2>1, <2>2, <2>3, OneRequestMoves
<1>4. ASSUME NEW c \in Clients, NEW s \in sessions,
             NEW r \in AdminRequests(s), AdminRequest(c, s, r)
      PROVE  ReqInv'
  <2>1. req' \in [Clients -> Request]
        /\ \A d \in Clients : d # c => req'[d] = req[d]
    BY <1>4, RequestForm, AccountsConstants
       DEF ReqInv, Request, Idle, AccountsTyped, LoginsTyped, Account,
           Session, UserNames, Roles, Ids, Proofs, AdminRequest, Arrives,
           Goes, Valid, AdminRequests
  <2>2. Gentle
    BY <1>4, SameIsGentle DEF AdminRequest, UsersSame, SessionsSame
  <2>3. Remembers(req[c])'
    <3>1. req'[c] = r /\ UNCHANGED <<users, backup, nextId>>
      BY <1>4 DEF ReqInv, AdminRequest, Goes, UsersSame
    <3>2. /\ r.pc \notin {"own", "ownChange"}
          /\ r.pc = "restore" => backup # NoBackup
          /\ r.pc = "deleteUser" =>
               \E u \in users : r.id = u.id /\ r.name = u.name
      BY DEF AdminRequests
    <3> QED
      BY <3>1, <3>2 DEF Remembers, StoreInv, Sound
  <2> QED
    BY <2>1, <2>2, <2>3, OneRequestMoves
<1>5. ASSUME NEW c \in Clients, CreateSession(c) PROVE ReqInv'
  <2>1. req' \in [Clients -> Request]
        /\ \A d \in Clients : d # c => req'[d] = req[d]
    BY <1>5, RequestForm, AccountsConstants
       DEF ReqInv, Request, Idle, AccountsTyped, LoginsTyped, Account,
           Session, UserNames, Roles, Ids, Proofs, CreateSession, At, Ends,
           Goes, Valid, FreshToken
  <2>2. Gentle
    BY <1>5, AccountsConstants
       DEF Gentle, AccountsTyped, LoginsTyped, Account, Session,
           CreateSession, At, Ends, Goes, Valid, FreshToken, UsersSame
  <2>3. Remembers(req[c])'
    BY <1>5
       DEF ReqInv, Remembers, Idle, CreateSession, At, Ends, Goes, Valid,
           FreshToken, UsersSame
  <2> QED
    BY <2>1, <2>2, <2>3, OneRequestMoves
<1>6. ASSUME NEW c \in Clients, Refused(c) PROVE ReqInv'
  <2>1. req' \in [Clients -> Request]
        /\ \A d \in Clients : d # c => req'[d] = req[d]
    BY <1>6, RequestForm, AccountsConstants
       DEF ReqInv, Request, Idle, AccountsTyped, LoginsTyped, Account,
           Session, UserNames, Roles, Ids, Proofs, Refused, At, Ends, Goes
  <2>2. Gentle
    BY <1>6, SameIsGentle DEF Refused, UsersSame, SessionsSame
  <2>3. Remembers(req[c])'
    BY <1>6
       DEF ReqInv, Remembers, Idle, Refused, At, Ends, Goes, UsersSame,
           SessionsSame
  <2> QED
    BY <2>1, <2>2, <2>3, OneRequestMoves
<1>7. ASSUME NEW c \in Clients, CreateUser(c) PROVE ReqInv'
  <2>1. req' \in [Clients -> Request]
        /\ \A d \in Clients : d # c => req'[d] = req[d]
    BY <1>7, RequestForm, AccountsConstants
       DEF ReqInv, Request, Idle, AccountsTyped, LoginsTyped, Account,
           Session, UserNames, Roles, Ids, Proofs, CreateUser, At, Ends, Goes,
           NameTaken
  <2>2. Gentle
    BY <1>7, AccountsConstants
       DEF Gentle, AccountsTyped, LoginsTyped, Account, Session, CreateUser,
           At, Ends, Goes, NameTaken, SessionsSame
  <2>3. Remembers(req[c])'
    BY <1>7
       DEF ReqInv, Remembers, Idle, CreateUser, At, Ends, Goes, NameTaken,
           SessionsSame
  <2> QED
    BY <2>1, <2>2, <2>3, OneRequestMoves
<1>8. ASSUME NEW c \in Clients, DeleteUser(c) PROVE ReqInv'
  <2>1. req' \in [Clients -> Request]
        /\ \A d \in Clients : d # c => req'[d] = req[d]
    BY <1>8, RequestForm, AccountsConstants
       DEF ReqInv, Request, Idle, AccountsTyped, LoginsTyped, Account,
           Session, UserNames, Roles, Ids, Proofs, DeleteUser, At, Ends, Goes
  <2>2. Gentle
    BY <1>8, AccountsConstants
       DEF Gentle, AccountsTyped, LoginsTyped, Account, Session, DeleteUser,
           At, Ends, Goes, SessionsSame
  <2>3. Remembers(req[c])'
    BY <1>8
       DEF ReqInv, Remembers, Idle, DeleteUser, At, Ends, Goes, SessionsSame
  <2> QED
    BY <2>1, <2>2, <2>3, OneRequestMoves
<1>9. ASSUME NEW c \in Clients, ResetPassword(c) PROVE ReqInv'
  <2>1. req' \in [Clients -> Request]
        /\ \A d \in Clients : d # c => req'[d] = req[d]
    BY <1>9, RequestForm, AccountsConstants
       DEF ReqInv, Request, Idle, AccountsTyped, LoginsTyped, Account,
           Session, UserNames, Roles, Ids, Proofs, ResetPassword, At, Ends,
           Goes, WithNextPw, MayChangePw
  <2>2. Gentle
    BY <1>9, AccountsConstants
       DEF Gentle, AccountsTyped, LoginsTyped, Account, Session,
           ResetPassword, At, Ends, Goes, SessionsSame, WithNextPw,
           MayChangePw
  <2>3. Remembers(req[c])'
    BY <1>9
       DEF ReqInv, Remembers, Idle, ResetPassword, At, Ends, Goes,
           SessionsSame, WithNextPw, MayChangePw
  <2> QED
    BY <2>1, <2>2, <2>3, OneRequestMoves
<1>10. ASSUME NEW c \in Clients, ResetLookup(c) PROVE ReqInv'
  <2>1. req' \in [Clients -> Request]
        /\ \A d \in Clients : d # c => req'[d] = req[d]
    BY <1>10, RequestForm, AccountsConstants
       DEF ReqInv, Request, Idle, AccountsTyped, LoginsTyped, Account,
           Session, UserNames, Roles, Ids, Proofs, ResetLookup, At, Ends, Goes
  <2>2. Gentle
    BY <1>10, SameIsGentle DEF ResetLookup, UsersSame, SessionsSame
  <2>3. Remembers(req[c])'
    BY <1>10
       DEF ReqInv, Remembers, Idle, ResetLookup, At, Ends, Goes, UsersSame,
           SessionsSame
  <2> QED
    BY <2>1, <2>2, <2>3, OneRequestMoves
<1>11. ASSUME NEW c \in Clients, OwnVerify(c) PROVE ReqInv'
  <2>1. req' \in [Clients -> Request]
        /\ \A d \in Clients : d # c => req'[d] = req[d]
    BY <1>11, RequestForm, AccountsConstants
       DEF ReqInv, Request, Idle, AccountsTyped, LoginsTyped, Account,
           Session, UserNames, Roles, Ids, Proofs, OwnVerify, At, Ends, Goes
  <2>2. Gentle
    BY <1>11, SameIsGentle DEF OwnVerify, UsersSame, SessionsSame
  <2>3. Remembers(req[c])'
    <3>1. Remembers(req[c]) /\ req[c].pc = "own"
          /\ UNCHANGED <<users, sessions, nextId, nextToken>>
      BY <1>11 DEF ReqInv, OwnVerify, At, UsersSame, SessionsSame
    <3>2. CASE req'[c] = Idle
      BY <3>2 DEF Remembers, Idle
    <3>3. ASSUME NEW u \in users, u.name = req[c].name,
                 req'[c] = [pc |-> "ownChange", id |-> u.id, name |-> u.name,
                            token |-> req[c].token, pw |-> u.pw]
          PROVE  Remembers(req[c])'
      <4>1. u.id < nextId /\ \A v \in users : v.id = u.id => v = u
        BY DEF StoreInv, Sound
      <4>2. u.pw <= u.pw
        BY AccountsConstants DEF AccountsTyped, Account
      <4> QED
        BY <3>1, <3>3, <4>1, <4>2 DEF Remembers
    <3> QED
      BY <1>11, <3>2, <3>3 DEF ReqInv, OwnVerify, Ends, Goes
  <2> QED
    BY <2>1, <2>2, <2>3, OneRequestMoves
<1>12. ASSUME NEW c \in Clients, OwnChange(c) PROVE ReqInv'
  <2>1. req' \in [Clients -> Request]
        /\ \A d \in Clients : d # c => req'[d] = req[d]
    <3>1. req[c] \in Request /\ req[c].pc = "ownChange" /\ Remembers(req[c])
      BY <1>12 DEF ReqInv, OwnChange, At
    <3>2. CASE Ends(c)
      BY <3>2 DEF ReqInv, Ends, Goes, Request
    <3>3. CASE /\ MayChangePw(req[c].id)
               /\ Goes(c, [pc |-> "kill", name |-> req[c].name,
                           keep |-> req[c].token, id |-> req[c].id,
                           pw |-> req[c].pw + 1])
      <4>1. PICK u \in users : u.id = req[c].id /\ u.pw < MaxPw
        BY <3>3 DEF MayChangePw
      <4>2. req[c].pw <= u.pw /\ u.pw \in Nat
        BY <3>1, <4>1 DEF Remembers, AccountsTyped, Account
      <4>3. /\ req[c].name \in UserNames /\ req[c].token \in Nat
            /\ req[c].id \in Ids /\ req[c].pw \in 0..MaxPw
        BY <3>1, RequestForm
      <4>4. req[c].pw + 1 \in 0..MaxPw
        BY <4>1, <4>2, <4>3, AccountsConstants
      <4>5. [pc |-> "kill", name |-> req[c].name, keep |-> req[c].token,
             id |-> req[c].id, pw |-> req[c].pw + 1] \in Request
        BY <4>3, <4>4 DEF Request
      <4> QED
        BY <3>3, <4>5 DEF ReqInv, Goes
    <3> QED
      BY <1>12, <3>2, <3>3 DEF OwnChange
  <2>2. Gentle
    BY <1>12, AccountsConstants
       DEF Gentle, AccountsTyped, LoginsTyped, Account, Session, OwnChange,
           At, Ends, Goes, SessionsSame, WithNextPw, MayChangePw
  <2>3. Remembers(req[c])'
    BY <1>12
       DEF ReqInv, Remembers, Idle, OwnChange, At, Ends, Goes, SessionsSame,
           WithNextPw, MayChangePw
  <2> QED
    BY <2>1, <2>2, <2>3, OneRequestMoves
<1>13. ASSUME NEW c \in Clients, KillSessions(c) PROVE ReqInv'
  <2>1. req' \in [Clients -> Request]
        /\ \A d \in Clients : d # c => req'[d] = req[d]
    BY <1>13, RequestForm, AccountsConstants
       DEF ReqInv, Request, Idle, AccountsTyped, LoginsTyped, Account,
           Session, UserNames, Roles, Ids, Proofs, KillSessions, At, Ends,
           Goes
  <2>2. Gentle
    <3>1. req[c] \in Request /\ req[c].pc = "kill"
      BY <1>13 DEF ReqInv, KillSessions, At
    <3>2. PICK ss \in SUBSET sessions : sessions' = AllProved(req[c], ss)
      BY <1>13 DEF KillSessions, AllProved
    <3>3. ss \in SUBSET Session
      BY DEF LoginsTyped
    <3>4. \A t \in sessions' : \E s \in ss : SameLogin(s, t)
      BY <3>1, <3>2, <3>3, ProvedSessions
    <3>5. UNCHANGED <<users, backup, nextId, nextToken>>
      BY <1>13 DEF KillSessions, UsersSame
    <3> QED
      BY <3>4, <3>5, AccountsConstants
         DEF Gentle, SameLogin, AccountsTyped, LoginsTyped, Account
  <2>3. Remembers(req[c])'
    BY <1>13
       DEF ReqInv, Remembers, Idle, KillSessions, At, Ends, Goes, UsersSame
  <2> QED
    BY <2>1, <2>2, <2>3, OneRequestMoves
<1>14. ASSUME NEW c \in Clients, Restore(c) PROVE ReqInv'
  <2>1. req' \in [Clients -> Request]
        /\ \A d \in Clients : d # c => req'[d] = req[d]
    BY <1>14, RequestForm, AccountsConstants
       DEF ReqInv, Request, Idle, AccountsTyped, LoginsTyped, Account,
           Session, UserNames, Roles, Ids, Proofs, Restore, At, Ends, Goes
  <2>2. Gentle
    BY <1>14, SameIsGentle DEF Restore, SessionsSame
  <2>3. Remembers(req[c])'
    BY <1>14
       DEF ReqInv, Remembers, Idle, Restore, At, Ends, Goes, SessionsSame
  <2> QED
    BY <2>1, <2>2, <2>3, OneRequestMoves
<1>15. ASSUME NEW c \in Clients, WipeVerify(c) PROVE ReqInv'
  <2>1. req' \in [Clients -> Request]
        /\ \A d \in Clients : d # c => req'[d] = req[d]
    BY <1>15, RequestForm, AccountsConstants
       DEF ReqInv, Request, Idle, AccountsTyped, LoginsTyped, Account,
           Session, UserNames, Roles, Ids, Proofs, WipeVerify, At, Ends, Goes
  <2>2. Gentle
    BY <1>15, SameIsGentle DEF WipeVerify, UsersSame, SessionsSame
  <2>3. Remembers(req[c])'
    BY <1>15
       DEF ReqInv, Remembers, Idle, WipeVerify, At, Ends, Goes, UsersSame,
           SessionsSame
  <2> QED
    BY <2>1, <2>2, <2>3, OneRequestMoves
<1>16. ASSUME NEW c \in Clients, FactoryReset(c) PROVE ReqInv'
  <2>1. req' \in [Clients -> Request]
        /\ \A d \in Clients : d # c => req'[d] = req[d]
    BY <1>16, RequestForm, AccountsConstants
       DEF ReqInv, Request, Idle, AccountsTyped, LoginsTyped, Account,
           Session, UserNames, Roles, Ids, Proofs, FactoryReset, At, Ends,
           Goes, AfterReset
  <2>2. Gentle
    BY <1>16, SameIsGentle DEF FactoryReset, SessionsSame
  <2>3. Remembers(req[c])'
    BY <1>16
       DEF ReqInv, Remembers, Idle, FactoryReset, At, Ends, Goes,
           SessionsSame, AfterReset
  <2> QED
    BY <2>1, <2>2, <2>3, OneRequestMoves
<1>17. ASSUME NEW s \in sessions, Expire(s) PROVE ReqInv'
  <2>1. sessions' = Expired(sessions, s.token) /\ sessions \in SUBSET Session
        /\ UNCHANGED <<users, backup, nextId, nextToken, req>>
    BY <1>17 DEF Expire, UsersSame, LoginsTyped
  <2>2. \A t \in sessions' : \E u \in sessions : SameLogin(u, t)
    BY <2>1, ExpiredSessions
  <2>3. Gentle
    BY <2>1, <2>2, AccountsConstants
       DEF Gentle, SameLogin, AccountsTyped, LoginsTyped, Account
  <2> QED
    BY <2>1, <2>3, NoRequestMoves
<1>18. ASSUME NEW s \in sessions, Backup(s) PROVE ReqInv'
  <2>1. Gentle /\ UNCHANGED req
    BY <1>18, AccountsConstants
       DEF Gentle, AccountsTyped, LoginsTyped, Account, Backup, SessionsSame
  <2> QED
    BY <2>1, NoRequestMoves
<1>19. CASE Prune
  <2>1. Gentle /\ UNCHANGED req
    BY <1>19, AccountsConstants
       DEF Gentle, AccountsTyped, LoginsTyped, Account, Prune, UsersSame,
           Valid
  <2> QED
    BY <2>1, NoRequestMoves
<1>20. CASE Restart
  <2>1. req' = [c \in Clients |-> Idle]
    BY <1>20 DEF Restart
  <2>2. Idle \in Request
    BY DEF Request
  <2>3. ASSUME NEW c \in Clients PROVE Remembers(req[c])'
    BY <2>1 DEF Remembers, Idle
  <2> QED
    BY <2>1, <2>2, <2>3 DEF ReqInv
<1>21. CASE CliReset
  <2>1. Gentle /\ UNCHANGED req
    BY <1>21, AccountsConstants
       DEF Gentle, AccountsTyped, LoginsTyped, Account, CliReset, SessionsSame
  <2> QED
    BY <2>1, NoRequestMoves
<1>22. CASE UNCHANGED vars
  <2>1. Gentle /\ UNCHANGED req
    BY <1>22, AccountsConstants
       DEF Gentle, AccountsTyped, LoginsTyped, Account, vars
  <2> QED
    BY <2>1, NoRequestMoves
<1> QED
  BY <1>1, <1>2, <1>3, <1>4, <1>5, <1>6, <1>7, <1>8, <1>9, <1>10, <1>11,
     <1>12, <1>13, <1>14, <1>15, <1>16, <1>17, <1>18, <1>19, <1>20, <1>21,
     <1>22
     DEF Step

(* The seeded administrator is a sound set of accounts.                    *)
LEMMA SeedSound ==
  ASSUME AccountsTyped
  PROVE  Sound(Seed) /\ Seed \subseteq Account /\ Seed \notin {Missing, Torn}
<1>1. Seed \subseteq Account
  BY AccountsConstants DEF Seed, Account
<1> QED
  BY <1>1, AccountsConstants DEF Sound, Seed, AccountsTyped

(* What the reset tool stores is sound as well.                            *)
LEMMA CliStores ==
  ASSUME AccountsTyped, StoreInv, CliReset
  PROVE  usersFile' \subseteq Account /\ Sound(usersFile)'
<1> DEFINE stored == IF usersFile = Missing THEN Seed ELSE usersFile
<1>1. stored \subseteq Account /\ Sound(stored) /\ nextId' = nextId
  BY SeedSound DEF CliReset, StoreInv, AccountsTyped
<1>2. PICK u \in stored :
        /\ u.pw < MaxPw
        /\ usersFile' = (stored \ {u}) \cup {[u EXCEPT !.pw = @ + 1]}
  BY DEF CliReset
<1> DEFINE v == [u EXCEPT !.pw = @ + 1]
<1>3. v \in Account /\ v.id = u.id /\ v.name = u.name /\ v.role = u.role
  BY <1>1, <1>2, AccountsConstants DEF Account
<1> HIDE DEF stored, v
<1>4. \A x \in usersFile' : x = v \/ (x \in stored /\ x # u)
  BY <1>2 DEF v
<1>5. \A x \in stored : x = u \/ x \in usersFile'
  BY <1>2
<1>6. v \in usersFile'
  BY <1>2 DEF v
<1>7. \E x \in usersFile' : x.role = "admin"
  BY <1>1, <1>3, <1>5, <1>6 DEF Sound
<1>8. \A x, y \in usersFile' : x.name = y.name \/ x.id = y.id => x = y
  BY <1>1, <1>2, <1>3, <1>4 DEF Sound
<1>9. \A x \in usersFile' : x \in Account /\ x.id < nextId
  BY <1>1, <1>2, <1>3, <1>4 DEF Sound
<1> QED
  BY <1>1, <1>7, <1>8, <1>9 DEF Sound

(* Every step keeps the accounts sound, wherever they are.                 *)
LEMMA StepKeepsStore ==
  ASSUME AccountsTyped, ReqInv, StoreInv,
         Step \/ UNCHANGED vars PROVE StoreInv'
<1>1. CASE UsersSame
  BY <1>1, SeedSound, AccountsConstants
     DEF StoreInv, Sound, AccountsTyped, ReqInv, Remembers, Account,
         SaveUsers, UsersSame
<1>2. ASSUME NEW c \in Clients, CreateUser(c) PROVE StoreInv'
  BY <1>2, SeedSound, AccountsConstants
     DEF StoreInv, Sound, AccountsTyped, ReqInv, Remembers, Account,
         SaveUsers, CreateUser, At, Ends, Goes, NameTaken, SessionsSame
<1>3. ASSUME NEW c \in Clients, DeleteUser(c) PROVE StoreInv'
  <2>1. nextId' = nextId /\ backup' = backup
    BY <1>3 DEF DeleteUser
  <2>2. CASE UNCHANGED <<users, usersFile>>
    BY <2>1, <2>2 DEF StoreInv, Sound
  <2>3. CASE /\ users' = users \
                  {u \in users : u.id = req[c].id /\ MayDelete(u)}
             /\ \E ok \in Outcomes : SaveUsers(ok)
    <3>1. \E v \in users' : v.role = "admin"
      <4>1. PICK a \in users : a.role = "admin"
        BY DEF StoreInv, Sound
      <4>2. CASE a \in users'
        BY <4>1, <4>2
      <4>3. CASE a.id = req[c].id /\ MayDelete(a)
        <5>1. PICK v \in users : v.role = "admin" /\ v.id # a.id
          BY <4>1, <4>3 DEF MayDelete
        <5> QED
          BY <2>3, <4>3, <5>1
      <4> QED
        BY <2>3, <4>2, <4>3
    <3>2. Sound(users)'
      BY <2>1, <2>3, <3>1 DEF StoreInv, Sound
    <3>3. usersFile' \in {users', usersFile, Torn}
      BY <2>3 DEF SaveUsers
    <3> QED
      BY <2>1, <3>2, <3>3 DEF StoreInv, Sound
  <2> QED
    BY <1>3, <2>2, <2>3 DEF DeleteUser
<1>4. ASSUME NEW c \in Clients, ResetPassword(c) PROVE StoreInv'
  <2>1. CASE UNCHANGED <<users, usersFile>>
    BY <1>4, <2>1 DEF ResetPassword, StoreInv, Sound
  <2>2. CASE /\ MayChangePw(req[c].id) /\ users' = WithNextPw(req[c].id)
             /\ \E ok \in Outcomes : SaveUsers(ok)
    <3>1. nextId' = nextId /\ backup' = backup
      BY <1>4 DEF ResetPassword
    <3>2. Sound(users)'
      BY <2>2, <3>1, NextPw DEF StoreInv, AccountsTyped, Sound
    <3>3. usersFile' \in {users', usersFile, Torn}
      BY <2>2 DEF SaveUsers
    <3> QED
      BY <3>1, <3>2, <3>3 DEF StoreInv, Sound
  <2> QED
    BY <1>4, <2>1, <2>2 DEF ResetPassword
<1>5. ASSUME NEW c \in Clients, OwnChange(c) PROVE StoreInv'
  <2>1. CASE UNCHANGED <<users, usersFile>>
    BY <1>5, <2>1 DEF OwnChange, StoreInv, Sound
  <2>2. CASE /\ MayChangePw(req[c].id) /\ users' = WithNextPw(req[c].id)
             /\ \E ok \in Outcomes : SaveUsers(ok)
    <3>1. nextId' = nextId /\ backup' = backup
      BY <1>5 DEF OwnChange
    <3>2. Sound(users)'
      BY <2>2, <3>1, NextPw DEF StoreInv, AccountsTyped, Sound
    <3>3. usersFile' \in {users', usersFile, Torn}
      BY <2>2 DEF SaveUsers
    <3> QED
      BY <3>1, <3>2, <3>3 DEF StoreInv, Sound
  <2> QED
    BY <1>5, <2>1, <2>2 DEF OwnChange
<1>6. ASSUME NEW c \in Clients, Restore(c) PROVE StoreInv'
  BY <1>6, SeedSound, AccountsConstants
     DEF StoreInv, Sound, AccountsTyped, ReqInv, Remembers, Account,
         SaveUsers, Restore, At, Ends, Goes, SessionsSame
<1>7. ASSUME NEW c \in Clients, FactoryReset(c) PROVE StoreInv'
  BY <1>7, SeedSound, AccountsConstants
     DEF StoreInv, Sound, AccountsTyped, ReqInv, Remembers, Account,
         SaveUsers, FactoryReset, At, Ends, Goes, SessionsSame, AfterReset
<1>8. ASSUME NEW s \in sessions, Backup(s) PROVE StoreInv'
  BY <1>8, SeedSound, AccountsConstants
     DEF StoreInv, Sound, AccountsTyped, ReqInv, Remembers, Account,
         SaveUsers, Backup, SessionsSame
<1>9. CASE Restart
  BY <1>9, SeedSound, AccountsConstants
     DEF StoreInv, Sound, AccountsTyped, ReqInv, Remembers, Account,
         SaveUsers, Restart, LoadedSessions
<1>10. CASE CliReset
  <2>1. UNCHANGED <<users, backup, nextId>>
    BY <1>10 DEF CliReset
  <2> QED
    BY <1>10, <2>1, CliStores DEF StoreInv, Sound
<1> QED
  BY <1>1, <1>2, <1>3, <1>4, <1>5, <1>6, <1>7, <1>8, <1>9, <1>10, AccountSteps

LEMMA SavesKeepFile ==
  ASSUME AccountsTyped, AccountsTyped', ReqInv, FileInv, NEW c \in Clients,
         req[c] # Idle, UNCHANGED <<scenario, agent, promised>>,
         \A d \in Clients : d # c => req'[d] = req[d],
         UNCHANGED <<users, usersFile>> \/ \E ok \in Outcomes : SaveUsers(ok)
  PROVE  FileInv'
<1>1. "overlap" \notin faults =>
        \A d, e \in Clients : req'[d] # Idle /\ req'[e] # Idle => d = e
  BY DEF FileInv
<1>2. "write" \notin faults =>
        usersFile' = users' \/ UNCHANGED <<users, usersFile>>
  BY DEF SaveUsers, Outcomes
<1>3. users' # Torn
  BY AccountsConstants DEF AccountsTyped
<1>4. "write" \notin faults => usersFile' # Torn
  BY <1>2, <1>3 DEF FileInv
<1>5. ~(faults \subseteq {"crash"} /\ promised # None)
  BY DEF FileInv, Quiet
<1>6. faults' = faults
  BY DEF faults
<1> QED
  BY <1>1, <1>2, <1>4, <1>5, <1>6 DEF FileInv

(* Every step keeps what file and memory have to do with each other.       *)
LEMMA StepKeepsFile ==
  ASSUME AccountsTyped, AccountsTyped', ReqInv, StoreInv, FileInv,
         Step \/ UNCHANGED vars, UNCHANGED scenario PROVE FileInv'
<1>1. ASSUME NEW c \in Clients, NEW u \in users, VerifyCredentials(c, u)
      PROVE  FileInv'
  BY <1>1, SeedSound, AccountsConstants
     DEF FileInv, faults, Quiet, AccountsTyped, ReqInv, Idle, SaveUsers,
         Outcomes, Promise, VerifyCredentials, Arrives, Goes, UsersSame,
         SessionsSame
<1>2. ASSUME NEW c \in Clients, NEW s \in sessions, DeleteSession(c, s)
      PROVE  FileInv'
  BY <1>2, SeedSound, AccountsConstants
     DEF FileInv, faults, Quiet, AccountsTyped, ReqInv, Idle, SaveUsers,
         Outcomes, Promise, DeleteSession, Arrives, Valid, UsersSame
<1>3. ASSUME NEW c \in Clients, NEW s \in sessions, OwnRequest(c, s)
      PROVE  FileInv'
  BY <1>3, SeedSound, AccountsConstants
     DEF FileInv, faults, Quiet, AccountsTyped, ReqInv, Idle, SaveUsers,
         Outcomes, Promise, OwnRequest, Arrives, Goes, Valid, UsersSame,
         SessionsSame
<1>4. ASSUME NEW c \in Clients, NEW s \in sessions,
             NEW r \in AdminRequests(s), AdminRequest(c, s, r)
      PROVE  FileInv'
  BY <1>4, SeedSound, AccountsConstants
     DEF FileInv, faults, Quiet, AccountsTyped, ReqInv, Idle, SaveUsers,
         Outcomes, Promise, AdminRequest, Arrives, Goes, Valid, UsersSame,
         SessionsSame, AdminRequests
<1>5. ASSUME NEW c \in Clients, CreateSession(c) PROVE FileInv'
  BY <1>5, SeedSound, AccountsConstants
     DEF FileInv, faults, Quiet, AccountsTyped, ReqInv, Idle, SaveUsers,
         Outcomes, Promise, CreateSession, At, Ends, Goes, Valid, FreshToken,
         UsersSame
<1>6. ASSUME NEW c \in Clients, Refused(c) PROVE FileInv'
  BY <1>6, SeedSound, AccountsConstants
     DEF FileInv, faults, Quiet, AccountsTyped, ReqInv, Idle, SaveUsers,
         Outcomes, Promise, Refused, At, Ends, Goes, UsersSame, SessionsSame
<1>7. ASSUME NEW c \in Clients, CreateUser(c) PROVE FileInv'
  <2>1. /\ req[c] # Idle /\ UNCHANGED <<agent, promised>>
        /\ \A d \in Clients : d # c => req'[d] = req[d]
        /\ \/ UNCHANGED <<users, usersFile>>
           \/ \E ok \in Outcomes : SaveUsers(ok)
    BY <1>7 DEF CreateUser, ReqInv, Idle, At, Ends, Goes
  <2> QED
    BY <2>1, SavesKeepFile
<1>8. ASSUME NEW c \in Clients, DeleteUser(c) PROVE FileInv'
  <2>1. /\ req[c] # Idle /\ UNCHANGED <<agent, promised>>
        /\ \A d \in Clients : d # c => req'[d] = req[d]
        /\ \/ UNCHANGED <<users, usersFile>>
           \/ \E ok \in Outcomes : SaveUsers(ok)
    BY <1>8 DEF DeleteUser, ReqInv, Idle, At, Ends, Goes
  <2> QED
    BY <2>1, SavesKeepFile
<1>9. ASSUME NEW c \in Clients, ResetPassword(c) PROVE FileInv'
  <2>1. /\ req[c] # Idle /\ UNCHANGED <<agent, promised>>
        /\ \A d \in Clients : d # c => req'[d] = req[d]
        /\ \/ UNCHANGED <<users, usersFile>>
           \/ \E ok \in Outcomes : SaveUsers(ok)
    BY <1>9 DEF ResetPassword, ReqInv, Idle, At, Ends, Goes
  <2> QED
    BY <2>1, SavesKeepFile
<1>10. ASSUME NEW c \in Clients, ResetLookup(c) PROVE FileInv'
  BY <1>10, SeedSound, AccountsConstants
     DEF FileInv, faults, Quiet, AccountsTyped, ReqInv, Idle, SaveUsers,
         Outcomes, Promise, ResetLookup, At, Ends, Goes, UsersSame,
         SessionsSame
<1>11. ASSUME NEW c \in Clients, OwnVerify(c) PROVE FileInv'
  BY <1>11, SeedSound, AccountsConstants
     DEF FileInv, faults, Quiet, AccountsTyped, ReqInv, Idle, SaveUsers,
         Outcomes, Promise, OwnVerify, At, Ends, Goes, UsersSame, SessionsSame
<1>12. ASSUME NEW c \in Clients, OwnChange(c) PROVE FileInv'
  <2>1. /\ req[c] # Idle /\ UNCHANGED <<agent, promised>>
        /\ \A d \in Clients : d # c => req'[d] = req[d]
        /\ \/ UNCHANGED <<users, usersFile>>
           \/ \E ok \in Outcomes : SaveUsers(ok)
    BY <1>12 DEF OwnChange, ReqInv, Idle, At, Ends, Goes
  <2> QED
    BY <2>1, SavesKeepFile
<1>13. ASSUME NEW c \in Clients, KillSessions(c) PROVE FileInv'
  BY <1>13, SeedSound, AccountsConstants
     DEF FileInv, faults, Quiet, AccountsTyped, ReqInv, Idle, SaveUsers,
         Outcomes, Promise, KillSessions, At, Ends, Goes, UsersSame
<1>14. ASSUME NEW c \in Clients, Restore(c) PROVE FileInv'
  <2>1. /\ req[c].pc = "restore" /\ req[c] # Idle /\ req'[c] = Idle
        /\ \A d \in Clients : d # c => req'[d] = req[d]
        /\ users' = users /\ faults' = faults
    BY <1>14 DEF Restore, At, Ends, Goes, ReqInv, Idle, faults
  <2>2. backup \in SUBSET Account /\ backup # Torn
    BY <2>1, AccountsConstants DEF ReqInv, Remembers, AccountsTyped
  <2>3. CASE /\ usersFile' = backup /\ agent' = "exiting"
             /\ promised' = [by |-> "restore", users |-> backup]
    <3>1. promised' # None /\ promised'.users = backup
      BY <2>2, <2>3, AccountsConstants DEF Promise
    <3>2. "overlap" \notin faults => Quiet'
      BY <2>1 DEF FileInv, Quiet
    <3> QED
      BY <2>1, <2>2, <2>3, <3>1, <3>2 DEF FileInv, Quiet
  <2>4. CASE "write" \in faults /\ UNCHANGED <<agent, promised>>
    BY <2>1, <2>4 DEF FileInv
  <2> QED
    BY <1>14, <2>3, <2>4 DEF Restore
<1>15. ASSUME NEW c \in Clients, WipeVerify(c) PROVE FileInv'
  BY <1>15, SeedSound, AccountsConstants
     DEF FileInv, faults, Quiet, AccountsTyped, ReqInv, Idle, SaveUsers,
         Outcomes, Promise, WipeVerify, At, Ends, Goes, UsersSame,
         SessionsSame
<1>16. ASSUME NEW c \in Clients, FactoryReset(c) PROVE FileInv'
  BY <1>16, SeedSound, AccountsConstants
     DEF FileInv, faults, Quiet, AccountsTyped, ReqInv, Idle, SaveUsers,
         Outcomes, Promise, FactoryReset, At, Ends, Goes, SessionsSame,
         AfterReset
<1>17. ASSUME NEW s \in sessions, Expire(s) PROVE FileInv'
  BY <1>17, SeedSound, AccountsConstants
     DEF FileInv, faults, Quiet, AccountsTyped, ReqInv, Idle, SaveUsers,
         Outcomes, Promise, Expire, UsersSame
<1>18. ASSUME NEW s \in sessions, Backup(s) PROVE FileInv'
  BY <1>18, SeedSound, AccountsConstants
     DEF FileInv, faults, Quiet, AccountsTyped, ReqInv, Idle, SaveUsers,
         Outcomes, Promise, Backup, SessionsSame
<1>19. CASE Prune
  BY <1>19, SeedSound, AccountsConstants
     DEF FileInv, faults, Quiet, AccountsTyped, ReqInv, Idle, SaveUsers,
         Outcomes, Promise, Prune, UsersSame, Valid
<1>20. CASE Restart
  BY <1>20, SeedSound, AccountsConstants
     DEF FileInv, faults, Quiet, AccountsTyped, ReqInv, Idle, SaveUsers,
         Outcomes, Promise, Restart, LoadedSessions, Seed
<1>21. CASE CliReset
  <2>1. "cli" \in faults /\ usersFile' # Torn
    BY <1>21, CliStores, AccountsConstants DEF CliReset
  <2>2. UNCHANGED <<agent, promised, users, req>> /\ faults' = faults
    BY <1>21 DEF CliReset, faults
  <2> QED
    BY <2>1, <2>2 DEF FileInv
<1>22. CASE UNCHANGED vars
  BY <1>22, SeedSound, AccountsConstants
     DEF FileInv, faults, Quiet, AccountsTyped, ReqInv, Idle, SaveUsers,
         Outcomes, Promise, vars
<1> QED
  BY <1>1, <1>2, <1>3, <1>4, <1>5, <1>6, <1>7, <1>8, <1>9, <1>10, <1>11,
     <1>12, <1>13, <1>14, <1>15, <1>16, <1>17, <1>18, <1>19, <1>20, <1>21,
     <1>22
     DEF Step

(* Requests come one at a time as long as nothing fails: beside the one    *)
(* under way there is none, and if it has nothing to settle every login is *)
(* current.                                                                *)
Settled ==
  \A s \in Valid(sessions) : s.of # Earlier => Current(s)

Alone(c) == \A d \in Clients : d # c => req[d] = Idle

LEMMA IdleIsDone ==
  ASSUME NEW r,
         r.pc \notin {"kill", "resetLookup", "createSession", "ownChange"}
  PROVE  KnowsAccount(r) /\ \A s : ~Settles(r, s) /\ ProvesNew(r, s)
  BY DEF KnowsAccount, Settles, ProvesNew

LEMMA RequestIsAlone ==
  ASSUME ReqInv, FileInv, faults = {}, NEW c \in Clients, req[c] # Idle
  PROVE  Alone(c)
  BY DEF FileInv, Alone

LEMMA LoginsSettled ==
  ASSUME CurrentInv, faults = {}, agent = "up",
         \A d \in Clients : req[d].pc \notin {"kill", "resetLookup"}
  PROVE  Settled
  BY DEF CurrentInv, AllCurrent, LoginsCurrent, Settled, Settles

(* A step that keeps accounts and leaves no new login keeps them current.  *)
LEMMA StaysSettled ==
  ASSUME Settled, Valid(sessions') \subseteq Valid(sessions),
         \A s \in Valid(sessions) : Current(s) => Current(s)',
         NEW c \in Clients, Alone(c)', KnowsAccount(req[c])',
         req'[c].pc \notin {"kill", "resetLookup"}
  PROVE  AllCurrent'
<1>1. \A d \in Clients : req'[d].pc \notin {"kill", "resetLookup"}
  BY DEF Alone, Idle
<1>2. \A d \in Clients : KnowsAccount(req[d])'
  BY DEF Alone, Idle, KnowsAccount
<1>3. Settled'
  BY DEF Settled, Valid
<1> QED
  BY <1>1, <1>2, <1>3 DEF AllCurrent, LoginsCurrent, Settled, ProvesNew

(* So does one that leaves to the request what is no longer current.       *)
LEMMA LeavesToSettle ==
  ASSUME NEW c \in Clients, Alone(c)', KnowsAccount(req[c])',
         \A s \in Valid(sessions') : s.of # Earlier =>
           (Current(s)' \/ Settles(req[c], s)') /\ ProvesNew(req[c], s)'
  PROVE  AllCurrent'
<1>1. ASSUME NEW d \in Clients, d # c
      PROVE  KnowsAccount(req[d])' /\ \A s : ProvesNew(req[d], s)'
  BY <1>1 DEF Alone, Idle, KnowsAccount, ProvesNew
<1>2. \A d \in Clients : KnowsAccount(req[d])'
  BY <1>1
<1>3. LoginsCurrent'
  BY <1>1 DEF LoginsCurrent, Valid
<1> QED
  BY <1>2, <1>3 DEF AllCurrent

(* Every step keeps logins current, or leaves a request to settle them.    *)
LEMMA StepKeepsCurrent ==
  ASSUME AccountsTyped, LoginsTyped, ReqInv, StoreInv, LoginInv, FileInv,
         CurrentInv, Step \/ UNCHANGED vars,
         UNCHANGED scenario
  PROVE  CurrentInv'
<1> SUFFICES ASSUME faults = {}, agent' = "up" PROVE AllCurrent'
  BY DEF CurrentInv, faults
<1>1. ASSUME NEW c \in Clients, NEW u \in users, VerifyCredentials(c, u)
      PROVE  AllCurrent'
  <2>1. /\ req[c] = Idle /\ Quiet /\ agent = "up"
        /\ UNCHANGED <<users, sessions>>
    BY <1>1 DEF VerifyCredentials, Arrives, UsersSame, SessionsSame
  <2>2. Settled
    BY <2>1, LoginsSettled DEF Quiet, Idle
  <2>3. Alone(c)' /\ req'[c].pc \notin {"kill", "resetLookup"}
    BY <1>1, <2>1 DEF VerifyCredentials, Goes, Quiet, Alone, ReqInv
  <2>4. KnowsAccount(req[c])'
    BY <1>1, <2>1 DEF VerifyCredentials, Goes, ReqInv, KnowsAccount
  <2> QED
    BY <2>1, <2>2, <2>3, <2>4, StaysSettled DEF Current
<1>2. ASSUME NEW c \in Clients, NEW s \in sessions, DeleteSession(c, s)
      PROVE  AllCurrent'
  <2>1. /\ req[c] = Idle /\ Quiet /\ agent = "up" /\ UNCHANGED <<users, req>>
        /\ sessions' = Valid(sessions) \ {s}
    BY <1>2 DEF DeleteSession, Arrives, UsersSame
  <2>2. Settled
    BY <2>1, LoginsSettled DEF Quiet, Idle
  <2>3. Alone(c)' /\ req'[c].pc = "idle" /\ KnowsAccount(req[c])'
    BY <2>1 DEF Alone, Quiet, Idle, KnowsAccount
  <2>4. Valid(sessions') \subseteq Valid(sessions)
    BY <2>1 DEF Valid
  <2> QED
    BY <2>1, <2>2, <2>3, <2>4, StaysSettled DEF Current
<1>3. ASSUME NEW c \in Clients, NEW s \in sessions, OwnRequest(c, s)
      PROVE  AllCurrent'
  <2>1. /\ req[c] = Idle /\ Quiet /\ agent = "up"
        /\ UNCHANGED <<users, sessions>>
    BY <1>3 DEF OwnRequest, Arrives, UsersSame, SessionsSame
  <2>2. Settled
    BY <2>1, LoginsSettled DEF Quiet, Idle
  <2>3. Alone(c)' /\ req'[c].pc \notin {"kill", "resetLookup"}
    BY <1>3, <2>1 DEF OwnRequest, Goes, Quiet, Alone, ReqInv
  <2>4. KnowsAccount(req[c])'
    BY <1>3, <2>1 DEF OwnRequest, Goes, ReqInv, KnowsAccount
  <2> QED
    BY <2>1, <2>2, <2>3, <2>4, StaysSettled DEF Current
<1>4. ASSUME NEW c \in Clients, NEW s \in sessions,
             NEW r \in AdminRequests(s), AdminRequest(c, s, r)
      PROVE  AllCurrent'
  <2>1. /\ req[c] = Idle /\ Quiet /\ agent = "up"
        /\ UNCHANGED <<users, sessions>>
    BY <1>4 DEF AdminRequest, Arrives, UsersSame, SessionsSame
  <2>2. Settled
    BY <2>1, LoginsSettled DEF Quiet, Idle
  <2>3. Alone(c)' /\ req'[c].pc \notin {"kill", "resetLookup"}
    BY <1>4, <2>1 DEF AdminRequest, Goes, Quiet, Alone, ReqInv, AdminRequests
  <2>4. KnowsAccount(req[c])'
    BY <1>4, <2>1 DEF AdminRequest, Goes, ReqInv, KnowsAccount, AdminRequests
  <2> QED
    BY <2>1, <2>2, <2>3, <2>4, StaysSettled DEF Current
<1>5. ASSUME NEW c \in Clients, CreateSession(c) PROVE AllCurrent'
  <2>1. /\ req[c].pc = "createSession" /\ req[c] # Idle
        /\ agent = "up" /\ users' = users
        /\ sessions' = Valid(sessions) \cup
             {[token |-> nextToken, name |-> req[c].name,
               role |-> req[c].role, over |-> FALSE, of |-> req[c].of]}
    BY <1>5 DEF CreateSession, FreshToken, At, Idle, UsersSame
  <2>2. Alone(c)
    BY <2>1, RequestIsAlone
  <2>3. Settled
    BY <2>1, <2>2, LoginsSettled DEF Alone, Idle
  <2>4. req' = [d \in Clients |-> Idle]
    BY <1>5, <2>2 DEF CreateSession, Ends, Goes, Alone, ReqInv
  <2>5. KnowsAccount(req[c])
    BY <2>1 DEF CurrentInv, AllCurrent
  <2>6. Settled'
    BY <2>1, <2>3, <2>5 DEF Settled, Current, KnowsAccount, Valid
  <2> QED
    BY <2>4, <2>6 DEF AllCurrent, LoginsCurrent, Settled, KnowsAccount,
                      ProvesNew, Idle
<1>6. ASSUME NEW c \in Clients, Refused(c) PROVE AllCurrent'
  <2>1. /\ req[c].pc \in {"createSession", "createUser", "reset", "ownChange"}
        /\ req[c] # Idle
        /\ agent = "up" /\ UNCHANGED <<users, sessions>>
    BY <1>6 DEF Refused, At, Idle, UsersSame, SessionsSame
  <2>2. Alone(c)
    BY <2>1, RequestIsAlone
  <2>3. Settled
    BY <2>1, <2>2, LoginsSettled DEF Alone, Idle
  <2>4. Alone(c)' /\ req'[c].pc \notin {"kill", "resetLookup"}
    BY <1>6, <2>2 DEF Refused, Ends, Goes, Alone, ReqInv, Idle
  <2>5. KnowsAccount(req[c])'
    BY <1>6 DEF Refused, Ends, Goes, ReqInv, Idle, KnowsAccount
  <2> QED
    BY <2>1, <2>3, <2>4, <2>5, StaysSettled DEF Current
<1>7. ASSUME NEW c \in Clients, CreateUser(c) PROVE AllCurrent'
  <2>1. /\ req[c].pc = "createUser" /\ req[c] # Idle
        /\ agent = "up" /\ sessions' = sessions /\ users \subseteq users'
    BY <1>7 DEF CreateUser, At, Idle, SessionsSame
  <2>2. Alone(c)
    BY <2>1, RequestIsAlone
  <2>3. Settled
    BY <2>1, <2>2, LoginsSettled DEF Alone, Idle
  <2>4. Alone(c)' /\ req'[c] = Idle
    BY <1>7, <2>2 DEF CreateUser, Ends, Goes, Alone, ReqInv
  <2>5. KnowsAccount(req[c])' /\ req'[c].pc = "idle"
    BY <2>4 DEF KnowsAccount, Idle
  <2> QED
    BY <2>1, <2>3, <2>4, <2>5, StaysSettled DEF Current
<1>8. ASSUME NEW c \in Clients, DeleteUser(c) PROVE AllCurrent'
  <2>1. /\ req[c].pc = "deleteUser" /\ req[c] # Idle
        /\ agent = "up" /\ sessions' = sessions
    BY <1>8 DEF DeleteUser, At, Idle, SessionsSame
  <2>2. Alone(c)
    BY <2>1, RequestIsAlone
  <2>3. Settled
    BY <2>1, <2>2, LoginsSettled DEF Alone, Idle
  <2>4. Alone(c)'
    BY <1>8, <2>2 DEF DeleteUser, Ends, Goes, Alone, ReqInv
  <2>5. CASE Ends(c) /\ users' = users
    <3>1. req'[c] = Idle
      BY <2>5 DEF Ends, Goes, ReqInv
    <3>2. KnowsAccount(req[c])' /\ req'[c].pc = "idle"
      BY <3>1 DEF KnowsAccount, Idle
    <3> QED
      BY <2>1, <2>3, <2>4, <2>5, <3>2, StaysSettled DEF Current
  <2>6. CASE /\ users' = users \
                  {u \in users : u.id = req[c].id /\ MayDelete(u)}
             /\ Goes(c, [pc |-> "kill", name |-> req[c].name])
    <3>1. req'[c] = [pc |-> "kill", name |-> req[c].name]
      BY <2>6 DEF Goes, ReqInv
    <3>2. Remembers(req[c])
      BY DEF ReqInv
    <3>3. ASSUME NEW s \in Valid(sessions), s.of # Earlier
          PROVE  Current(s)' \/ Settles(req[c], s)'
      <4>1. PICK u \in users : s.of = <<u.id, u.pw>> /\ u.name = s.name
                               /\ u.role = s.role
        BY <2>3, <3>3 DEF Settled, Current
      <4>2. CASE u \in users'
        BY <4>1, <4>2 DEF Current
      <4>3. CASE u.id = req[c].id
        BY <2>1, <3>1, <3>2, <4>1, <4>3 DEF Remembers, Settles
      <4> QED
        BY <2>6, <4>2, <4>3
    <3>4. KnowsAccount(req[c])' /\ \A s : ProvesNew(req[c], s)'
      BY <3>1 DEF KnowsAccount, ProvesNew, Keeps
    <3> QED
      BY <2>1, <2>4, <3>3, <3>4, LeavesToSettle
  <2> QED
    BY <1>8, <2>5, <2>6 DEF DeleteUser, Outcomes
<1>9. ASSUME NEW c \in Clients, ResetPassword(c) PROVE AllCurrent'
  <2>1. /\ req[c].pc = "reset" /\ req[c] # Idle
        /\ agent = "up" /\ sessions' = sessions
    BY <1>9 DEF ResetPassword, At, Idle, SessionsSame
  <2>2. Alone(c)
    BY <2>1, RequestIsAlone
  <2>3. Settled
    BY <2>1, <2>2, LoginsSettled DEF Alone, Idle
  <2>4. Alone(c)'
    BY <1>9, <2>2 DEF ResetPassword, Ends, Goes, Alone, ReqInv
  <2>5. CASE Ends(c) /\ users' = users
    <3>1. req'[c] = Idle
      BY <2>5 DEF Ends, Goes, ReqInv
    <3>2. KnowsAccount(req[c])' /\ req'[c].pc = "idle"
      BY <3>1 DEF KnowsAccount, Idle
    <3> QED
      BY <2>1, <2>3, <2>4, <2>5, <3>2, StaysSettled DEF Current
  <2>6. CASE /\ MayChangePw(req[c].id) /\ users' = WithNextPw(req[c].id)
             /\ Goes(c, [pc |-> "resetLookup", id |-> req[c].id])
    <3>1. req'[c] = [pc |-> "resetLookup", id |-> req[c].id]
      BY <2>6 DEF Goes, ReqInv
    <3>2. \A u \in users : \E v \in users' :
            /\ u.id = v.id /\ u.name = v.name /\ u.role = v.role
            /\ v.pw = IF u.id = req[c].id THEN u.pw + 1 ELSE u.pw
      BY <2>6, NextPw DEF AccountsTyped, StoreInv
    <3>3. ASSUME NEW s \in Valid(sessions), s.of # Earlier
          PROVE  Current(s)' \/ Settles(req[c], s)'
      <4>1. PICK u \in users : s.of = <<u.id, u.pw>> /\ u.name = s.name
                               /\ u.role = s.role
        BY <2>3, <3>3 DEF Settled, Current
      <4>2. PICK v \in users' :
              /\ u.id = v.id /\ u.name = v.name /\ u.role = v.role
              /\ v.pw = IF u.id = req[c].id THEN u.pw + 1 ELSE u.pw
        BY <3>2
      <4>3. CASE u.id = req[c].id
        <5>1. v.id = req[c].id /\ v.name = s.name
          BY <4>1, <4>2, <4>3
        <5> QED
          BY <3>1, <5>1 DEF Settles
      <4>4. CASE u.id # req[c].id
        BY <4>1, <4>2, <4>4 DEF Current
      <4> QED
        BY <4>3, <4>4
    <3>4. KnowsAccount(req[c])' /\ \A s : ProvesNew(req[c], s)'
      BY <3>1 DEF KnowsAccount, ProvesNew
    <3> QED
      BY <2>1, <2>4, <3>3, <3>4, LeavesToSettle
  <2> QED
    BY <1>9, <2>5, <2>6 DEF ResetPassword, Outcomes
<1>10. ASSUME NEW c \in Clients, ResetLookup(c) PROVE AllCurrent'
  <2>1. /\ req[c].pc = "resetLookup" /\ req[c] # Idle
        /\ agent = "up" /\ UNCHANGED <<users, sessions>>
    BY <1>10 DEF ResetLookup, At, Idle, UsersSame, SessionsSame
  <2>2. Alone(c)
    BY <2>1, RequestIsAlone
  <2>3. Alone(c)'
    BY <1>10, <2>2 DEF ResetLookup, Ends, Goes, Alone, ReqInv
  <2>4. ASSUME NEW s \in Valid(sessions), s.of # Earlier
        PROVE  \/ Current(s)
               \/ \E u \in users : u.id = req[c].id /\ u.name = s.name
    BY <2>1, <2>2, <2>4
       DEF CurrentInv, AllCurrent, LoginsCurrent, Settles, Alone, Idle
  <2>5. CASE req'[c] = Idle /\ \A u \in users : u.id # req[c].id
    <3>1. KnowsAccount(req[c])' /\ \A s : ProvesNew(req[c], s)'
      BY <2>5 DEF KnowsAccount, ProvesNew, Idle
    <3> QED
      BY <2>1, <2>3, <2>4, <2>5, <3>1, LeavesToSettle DEF Current
  <2>6. ASSUME NEW v \in users, v.id = req[c].id,
               req'[c] = [pc |-> "kill", name |-> v.name]
        PROVE  AllCurrent'
    <3>1. KnowsAccount(req[c])' /\ \A s : ProvesNew(req[c], s)'
      BY <2>6 DEF KnowsAccount, ProvesNew, Keeps
    <3>2. \A u \in users : u.id = req[c].id => u = v
      BY <2>6 DEF StoreInv, Sound
    <3>3. \A s \in Valid(sessions) : s.of # Earlier =>
            Current(s)' \/ Settles(req[c], s)'
      BY <2>1, <2>4, <2>6, <3>2 DEF Current, Settles
    <3> QED
      BY <2>1, <2>3, <3>1, <3>3, LeavesToSettle
  <2> QED
    BY <1>10, <2>5, <2>6 DEF ResetLookup, Ends, Goes, ReqInv
<1>11. ASSUME NEW c \in Clients, OwnVerify(c) PROVE AllCurrent'
  <2>1. /\ req[c].pc = "own" /\ req[c] # Idle
        /\ agent = "up" /\ UNCHANGED <<users, sessions>>
    BY <1>11 DEF OwnVerify, At, Idle, UsersSame, SessionsSame
  <2>2. Alone(c)
    BY <2>1, RequestIsAlone
  <2>3. Settled
    BY <2>1, <2>2, LoginsSettled DEF Alone, Idle
  <2>4. Alone(c)' /\ req'[c].pc \notin {"kill", "resetLookup"}
    BY <1>11, <2>2 DEF OwnVerify, Ends, Goes, Alone, ReqInv, Idle
  <2>5. KnowsAccount(req[c])'
    BY <1>11, <2>1
       DEF OwnVerify, Ends, Goes, ReqInv, Idle, KnowsAccount, StoreInv, Sound
  <2> QED
    BY <2>1, <2>3, <2>4, <2>5, StaysSettled DEF Current
<1>12. ASSUME NEW c \in Clients, OwnChange(c) PROVE AllCurrent'
  <2>1. /\ req[c].pc = "ownChange" /\ req[c] # Idle
        /\ agent = "up" /\ sessions' = sessions
    BY <1>12 DEF OwnChange, At, Idle, SessionsSame
  <2>2. Alone(c)
    BY <2>1, RequestIsAlone
  <2>3. Settled
    BY <2>1, <2>2, LoginsSettled DEF Alone, Idle
  <2>4. Alone(c)'
    BY <1>12, <2>2 DEF OwnChange, Ends, Goes, Alone, ReqInv
  <2>5. CASE Ends(c) /\ users' = users
    <3>1. req'[c] = Idle
      BY <2>5 DEF Ends, Goes, ReqInv
    <3>2. KnowsAccount(req[c])' /\ req'[c].pc = "idle"
      BY <3>1 DEF KnowsAccount, Idle
    <3> QED
      BY <2>1, <2>3, <2>4, <2>5, <3>2, StaysSettled DEF Current
  <2>6. CASE /\ MayChangePw(req[c].id) /\ users' = WithNextPw(req[c].id)
             /\ Goes(c, [pc |-> "kill", name |-> req[c].name,
                         keep |-> req[c].token, id |-> req[c].id,
                         pw |-> req[c].pw + 1])
    <3> DEFINE r == [pc |-> "kill", name |-> req[c].name,
                     keep |-> req[c].token, id |-> req[c].id,
                     pw |-> req[c].pw + 1]
    <3>1. /\ req'[c] = r /\ Remembers(req[c]) /\ KnowsAccount(req[c])
          /\ \A s : Keeps(r, s) <=> s.token = req[c].token
      BY <2>1, <2>6 DEF Goes, ReqInv, CurrentInv, AllCurrent, Keeps
    <3>2. \A u \in users : \E v \in users' :
            /\ u.id = v.id /\ u.name = v.name /\ u.role = v.role
            /\ v.pw = IF u.id = req[c].id THEN u.pw + 1 ELSE u.pw
      BY <2>6, NextPw DEF AccountsTyped, StoreInv
    <3>3. PICK a \in users : a.id = req[c].id
      BY <2>6 DEF MayChangePw
    <3>4. a.name = req[c].name /\ a.pw = req[c].pw
      BY <2>1, <3>1, <3>3 DEF Remembers, KnowsAccount
    <3>5. ASSUME NEW s \in Valid(sessions), s.of # Earlier
          PROVE  (Current(s)' \/ Settles(req[c], s)') /\ ProvesNew(req[c], s)'
      <4>1. PICK u \in users : s.of = <<u.id, u.pw>> /\ u.name = s.name
                               /\ u.role = s.role
        BY <2>3, <3>5 DEF Settled, Current
      <4>2. PICK v \in users' :
              /\ u.id = v.id /\ u.name = v.name /\ u.role = v.role
              /\ v.pw = IF u.id = req[c].id THEN u.pw + 1 ELSE u.pw
        BY <3>2
      <4>3. CASE u.id = req[c].id
        <5>1. s.name = req[c].name
          BY <2>1, <3>1, <4>1, <4>3 DEF Remembers
        <5>2. v.id = req[c].id /\ v.pw = req[c].pw + 1
          BY <2>1, <3>1, <4>2, <4>3 DEF KnowsAccount
        <5>3. v.name = s.name /\ v.role = s.role
          BY <4>1, <4>2
        <5>4. Settles(req[c], s)'
          BY <3>1, <5>1 DEF Settles
        <5>5. ProvesNew(req[c], s)'
          BY <3>1, <5>2, <5>3 DEF ProvesNew
        <5> QED
          BY <5>4, <5>5
      <4>4. CASE u.id # req[c].id
        <5>1. s.name # req[c].name
          BY <3>3, <3>4, <4>1, <4>4 DEF StoreInv, Sound
        <5>2. ~Keeps(req'[c], s)
          BY <2>1, <3>1, <5>1 DEF Remembers, Valid
        <5>3. Current(s)'
          BY <4>1, <4>2, <4>4 DEF Current
        <5> QED
          BY <5>2, <5>3 DEF ProvesNew
      <4> QED
        BY <4>3, <4>4
    <3>6. KnowsAccount(req[c])'
      BY <3>1 DEF KnowsAccount
    <3> QED
      BY <2>1, <2>4, <3>5, <3>6, LeavesToSettle
  <2> QED
    BY <1>12, <2>5, <2>6 DEF OwnChange, Outcomes
<1>13. ASSUME NEW c \in Clients, KillSessions(c) PROVE AllCurrent'
  <2>1. /\ req[c] \in Request /\ req[c].pc = "kill" /\ req[c] # Idle
        /\ agent = "up" /\ users' = users
    BY <1>13 DEF KillSessions, At, Idle, UsersSame, ReqInv
  <2>2. Alone(c)
    BY <2>1, RequestIsAlone
  <2>3. Alone(c)' /\ req'[c] = Idle
    BY <1>13, <2>2 DEF KillSessions, Ends, Goes, Alone, ReqInv
  <2> DEFINE left ==
        {s \in sessions : s.name # req[c].name \/ Keeps(req[c], s)}
  <2>4. left \in SUBSET Session /\ sessions' = AllProved(req[c], left)
    BY <1>13 DEF KillSessions, AllProved, LoginsTyped
  <2> HIDE DEF left
  <2>5. ASSUME NEW t \in Valid(sessions'), t.of # Earlier PROVE Current(t)'
    <3>1. PICK s \in left :
            /\ SameLogin(s, t) /\ s.over = t.over /\ t = Proved(req[c], s)
            /\ t.of = IF Keeps(req[c], s) /\ s.of # Earlier
                      THEN <<req[c].id, req[c].pw>> ELSE s.of
            /\ t.of = Earlier <=> s.of = Earlier
      BY <2>1, <2>4, ProvedSessions DEF Valid
    <3>2. s \in Valid(sessions) /\ s.of # Earlier
      BY <2>5, <3>1 DEF Valid, left
    <3>3. /\ Current(s) \/ Settles(req[c], s)
          /\ ProvesNew(req[c], s)
      BY <2>2, <3>2, <2>1
         DEF CurrentInv, AllCurrent, LoginsCurrent, Alone, Settles, Idle
    <3>4. CASE Keeps(req[c], s)
      BY <2>1, <3>1, <3>2, <3>3, <3>4 DEF ProvesNew, Current, SameLogin
    <3>5. CASE ~Keeps(req[c], s)
      <4>1. s.name # req[c].name /\ t.of = s.of
        BY <3>1, <3>5 DEF left
      <4> QED
        BY <2>1, <3>1, <3>3, <3>5, <4>1 DEF Settles, Current, SameLogin
    <3> QED
      BY <3>4, <3>5
  <2>6. KnowsAccount(req[c])' /\ \A s : ProvesNew(req[c], s)'
    BY <2>3 DEF KnowsAccount, ProvesNew, Idle
  <2> QED
    BY <2>3, <2>5, <2>6, LeavesToSettle
<1>14. ASSUME NEW c \in Clients, Restore(c) PROVE AllCurrent'
  BY <1>14 DEF Restore
<1>15. ASSUME NEW c \in Clients, WipeVerify(c) PROVE AllCurrent'
  <2>1. /\ req[c].pc = "wipe" /\ req[c] # Idle
        /\ agent = "up" /\ UNCHANGED <<users, sessions>>
    BY <1>15 DEF WipeVerify, At, Idle, UsersSame, SessionsSame
  <2>2. Alone(c)
    BY <2>1, RequestIsAlone
  <2>3. Settled
    BY <2>1, <2>2, LoginsSettled DEF Alone, Idle
  <2>4. Alone(c)' /\ req'[c].pc \notin {"kill", "resetLookup"}
    BY <1>15, <2>2 DEF WipeVerify, Ends, Goes, Alone, ReqInv, Idle
  <2>5. KnowsAccount(req[c])'
    BY <1>15 DEF WipeVerify, Ends, Goes, ReqInv, Idle, KnowsAccount
  <2> QED
    BY <2>1, <2>3, <2>4, <2>5, StaysSettled DEF Current
<1>16. ASSUME NEW c \in Clients, FactoryReset(c) PROVE AllCurrent'
  BY <1>16 DEF FactoryReset
<1>17. ASSUME NEW s \in sessions, Expire(s) PROVE AllCurrent'
  <2>1. UNCHANGED <<users, req, agent>> /\ AllCurrent
    BY <1>17 DEF Expire, UsersSame, CurrentInv
  <2>2. Valid(sessions') \subseteq Valid(sessions)
    <3>1. Valid(Expired(sessions, s.token)) \subseteq Valid(sessions)
      BY ExpiredSessions DEF LoginsTyped
    <3> QED
      BY <1>17, <3>1 DEF Expire
  <2> QED
    BY <2>1, <2>2 DEF AllCurrent, LoginsCurrent, Current, Settles, ProvesNew,
                      KnowsAccount
<1>18. ASSUME NEW s \in sessions, Backup(s) PROVE AllCurrent'
  <2>1. UNCHANGED <<users, req, agent>> /\ AllCurrent
    BY <1>18 DEF Backup, CurrentInv
  <2>2. Valid(sessions') \subseteq Valid(sessions)
    BY <1>18 DEF Backup, SessionsSame
  <2> QED
    BY <2>1, <2>2 DEF AllCurrent, LoginsCurrent, Current, Settles, ProvesNew,
                      KnowsAccount
<1>19. CASE Prune
  <2>1. UNCHANGED <<users, req, agent>> /\ AllCurrent
    BY <1>19 DEF Prune, UsersSame, CurrentInv
  <2>2. Valid(sessions') \subseteq Valid(sessions)
    BY <1>19 DEF Prune, Valid
  <2> QED
    BY <2>1, <2>2 DEF AllCurrent, LoginsCurrent, Current, Settles, ProvesNew,
                      KnowsAccount
<1>20. CASE Restart
  <2>1. /\ req' = [c \in Clients |-> Idle] /\ usersFile # Torn
        /\ users' = IF usersFile = Missing THEN Seed ELSE usersFile
    BY <1>20 DEF Restart
  <2>2. Settled'
    <3>1. CASE promised # None
      <4>1. sessions' = OfEarlier(Valid(sessFile))
        BY <1>20, <2>1, <3>1 DEF Restart, LoadedSessions
      <4>2. Valid(sessFile) \in SUBSET Session
        BY DEF LoginsTyped, Valid
      <4>3. \A s \in sessions' : s.of = Earlier
        BY <4>1, <4>2, EarlierSessions
      <4> QED
        BY <4>3 DEF Settled, Valid
    <3>2. CASE promised = None
      <4>1. agent = "up" /\ usersFile = users
        BY <3>2 DEF FileInv, AccountsTyped
      <4>2. users' = users
        BY <2>1, <4>1, AccountsConstants DEF AccountsTyped
      <4>3. sessions' = Valid(sessFile) /\ Valid(sessFile) = Valid(sessions)
        BY <1>20, <2>1, <3>2 DEF Restart, LoadedSessions, LoginInv
      <4>4. Valid(sessions') = Valid(sessions)
        BY <4>3 DEF Valid
      <4>5. Settled
        BY <1>20, <4>1, LoginsSettled DEF Restart, Quiet, Idle
      <4> QED
        BY <4>2, <4>4, <4>5 DEF Settled, Current
    <3> QED
      BY <3>1, <3>2
  <2> QED
    BY <2>1, <2>2 DEF AllCurrent, LoginsCurrent, Settled, KnowsAccount,
                      ProvesNew, Idle
<1>21. CASE CliReset
  BY <1>21 DEF CliReset
<1>22. CASE UNCHANGED vars
  <2>1. UNCHANGED <<users, req, agent>> /\ AllCurrent
    BY <1>22 DEF vars, CurrentInv
  <2>2. Valid(sessions') \subseteq Valid(sessions)
    BY <1>22 DEF vars
  <2> QED
    BY <2>1, <2>2 DEF AllCurrent, LoginsCurrent, Current, Settles, ProvesNew,
                      KnowsAccount
<1> QED
  BY <1>1, <1>2, <1>3, <1>4, <1>5, <1>6, <1>7, <1>8, <1>9, <1>10, <1>11,
     <1>12, <1>13, <1>14, <1>15, <1>16, <1>17, <1>18, <1>19, <1>20, <1>21,
     <1>22
     DEF Step

-----------------------------------------------------------------------------
LEMMA InitInv == Init => IInv
<1> SUFFICES ASSUME Init PROVE IInv
  OBVIOUS
<1>1. AccountsTyped
  BY AccountsConstants DEF Init, AccountsTyped, Seed, Account
<1>2. LoginsTyped
  BY AccountsConstants DEF Init, LoginsTyped, MaxToken
<1>3. ReqInv
  BY DEF Init, ReqInv, Remembers, Request, Idle
<1>4. StoreInv
  BY <1>1, SeedSound DEF Init, StoreInv
<1>5. LoginInv
  BY DEF Init, LoginInv
<1>6. FileInv
  BY <1>1, SeedSound DEF Init, FileInv
<1>7. CurrentInv
  BY DEF Init, CurrentInv, AllCurrent, LoginsCurrent, KnowsAccount, Idle, Valid
<1> QED
  BY <1>1, <1>2, <1>3, <1>4, <1>5, <1>6, <1>7 DEF IInv

(* The invariant is inductive.                                             *)
LEMMA StepKeepsInv == IInv /\ [Next]_vars => IInv'
<1> SUFFICES ASSUME IInv, [Next]_vars PROVE IInv'
  OBVIOUS
<1>1. (Step \/ UNCHANGED vars) /\ UNCHANGED scenario
  BY DEF Next, vars
<1>2. AccountsTyped'
  BY <1>1, StepKeepsAccounts DEF IInv
<1>3. LoginsTyped' /\ LoginInv'
  BY <1>1, StepKeepsLogins DEF IInv
<1>4. ReqInv'
  BY <1>1, <1>2, <1>3, StepKeepsReq DEF IInv
<1>5. StoreInv'
  BY <1>1, StepKeepsStore DEF IInv
<1>6. FileInv'
  BY <1>1, <1>2, StepKeepsFile DEF IInv
<1>7. CurrentInv'
  BY <1>1, StepKeepsCurrent DEF IInv
<1> QED
  BY <1>2, <1>3, <1>4, <1>5, <1>6, <1>7 DEF IInv

(* The inductive invariant, from which the other theorems follow.          *)
THEOREM InvHolds == Spec => []IInv
  BY InitInv, StepKeepsInv, PTL DEF Spec

-----------------------------------------------------------------------------
(* The state stays within its types; no two logins share a token           *)
(* (CreateSession and what the session file goes through).                 *)
THEOREM TypeCorrect == Spec => []TypeOK
<1>1. IInv => TypeOK
  <2> SUFFICES ASSUME IInv PROVE TypeOK
    OBVIOUS
  <2>1. \A c \in Clients :
          req[c].pc \in {"idle", "createSession", "createUser", "deleteUser",
                        "reset", "resetLookup", "own", "ownChange", "kill",
                        "wipe", "wipeFiles", "restore"}
    BY RequestForm DEF IInv, ReqInv
  <2> QED
    BY <2>1 DEF IInv, AccountsTyped, LoginsTyped, TypeOK
<1> QED
  BY <1>1, InvHolds, PTL

(* There is always an administrator, in memory and in every file that may  *)
(* be loaded; names and IDs are unique; and as long as nothing interferes  *)
(* every valid login is that of an account as it is now (CreateUser,       *)
(* DeleteUser, the two password changes and the sessions they end).        *)
THEOREM AccountsSound == Spec => []AccountsStaySound
<1>1. IInv => AccountsStaySound
  <2> SUFFICES ASSUME IInv PROVE AccountsStaySound
    OBVIOUS
  <2>1. LastAdmin /\ UniqueNames
    BY DEF IInv, StoreInv, Sound, LastAdmin, UniqueNames
  <2>2. SessionsAreCurrent
    <3> SUFFICES ASSUME faults = {}, Quiet, agent = "up" PROVE Settled
      BY DEF SessionsAreCurrent, CurrentSessions, Settled, Current
    <3> QED
      BY LoginsSettled DEF IInv, Quiet, Idle
  <2> QED
    BY <2>1, <2>2 DEF AccountsStaySound
<1> QED
  BY <1>1, InvHolds, PTL

(* No password goes back, in memory or in the file, but by a restore or a  *)
(* reset: a restart reads what was saved last (UserStore.saveLocked, load). *)
LEMMA StepGoesForward ==
  ASSUME IInv, [Next]_vars, promised = None, promised' = None,
         faults \cap {"write", "cli"} = {}
  PROVE  NotSetBack(users, users') /\ usersFile = users /\ usersFile' = users'
<1>1. (Step \/ UNCHANGED vars) /\ UNCHANGED scenario
  BY DEF Next, vars
<1>2. usersFile = users
  BY DEF IInv, FileInv
<1>3. usersFile' = users'
  <2>1. FileInv' /\ faults' = faults
    BY <1>1, StepKeepsInv DEF IInv, faults
  <2> QED
    BY <2>1 DEF FileInv
<1>4. \A u \in users : u.pw \in Nat /\ u.id \in Nat /\ u.id < nextId
  BY AccountsConstants DEF IInv, AccountsTyped, Account, StoreInv, Sound
<1>5. \A u, v \in users : u.id = v.id => u = v
  BY DEF IInv, StoreInv, Sound
<1>6. ASSUME users' \subseteq users PROVE NotSetBack(users, users')
  BY <1>4, <1>5, <1>6 DEF NotSetBack
<1>7. ASSUME NEW c \in Clients, CreateUser(c)
      PROVE  NotSetBack(users, users')
  <2>1. CASE users' = users
    BY <1>6, <2>1
  <2>2. ASSUME NEW w, users' = users \cup {w}, w.id = nextId
        PROVE  NotSetBack(users, users')
    <3>1. nextId \in Nat
      BY AccountsConstants DEF IInv, AccountsTyped
    <3> QED
      BY <1>4, <1>5, <2>2, <3>1 DEF NotSetBack
  <2> QED
    BY <1>7, <2>1, <2>2 DEF CreateUser
<1>8. ASSUME NEW id, MayChangePw(id), users' = WithNextPw(id)
      PROVE  NotSetBack(users, users')
  <2>1. \A v \in users' : \E u \in users :
          /\ u.id = v.id /\ u.name = v.name /\ u.role = v.role
          /\ v.pw = IF u.id = id THEN u.pw + 1 ELSE u.pw
    BY <1>8, NextPw DEF IInv, StoreInv, AccountsTyped
  <2> QED
    BY <1>4, <1>5, <2>1 DEF NotSetBack
<1>9. ASSUME Restart PROVE NotSetBack(users, users')
  <2>1. users' = users
    BY <1>2, <1>9, AccountsConstants DEF Restart, IInv, AccountsTyped, FileInv
  <2> QED
    BY <1>6, <2>1
<1>10. NotSetBack(users, users')
  BY <1>1, <1>6, <1>7, <1>8, <1>9, AccountSteps
     DEF UsersSame, DeleteUser, ResetPassword, OwnChange, Restore,
         FactoryReset, Backup, CliReset
<1> QED
  BY <1>2, <1>3, <1>10

(* No request and no start sets the password of an account back to an      *)
(* earlier one, in memory or in the file (ResetPassword, the change of     *)
(* one's own, UserStore.load), but a restore or a reset.                   *)
THEOREM PasswordsKept == Spec => PasswordsNeverRevert
<1> DEFINE Forward ==
      promised = None /\ promised' = None
        /\ faults \cap {"write", "cli"} = {} =>
        /\ NotSetBack(users, users')
        /\ {usersFile, usersFile'} \cap {Missing, Torn} = {} =>
             NotSetBack(usersFile, usersFile')
<1>1. IInv /\ [Next]_vars => [Forward]_vars
  BY StepGoesForward
<1> QED
  BY <1>1, InvHolds, PTL DEF Spec, PasswordsNeverRevert

(* The next start finds the logins that were valid, and after a restore or *)
(* a reset the accounts of it (loadSessions, UserStore.load, Restore,      *)
(* FactoryReset).                                                          *)
LEMMA StartFinds ==
  ASSUME IInv, Restart, agent' = "up"
  PROVE  KeepsLogins /\ TakesBackup
<1>1. usersFile # Torn
  BY DEF Restart
<1>2. KeepsLogins
  <2> SUFFICES ASSUME "write" \notin faults
               PROVE  Who(sessions') = Who(Valid(sessions))
    BY DEF KeepsLogins
  <2>1. Valid(sessFile) = Valid(sessions)
    BY DEF IInv, LoginInv
  <2>2. Valid(sessFile) \in SUBSET Session
    BY DEF IInv, LoginsTyped, Valid
  <2>3. CASE sessions' = Valid(sessFile)
    BY <2>1, <2>3
  <2>4. CASE sessions' = OfEarlier(Valid(sessFile))
    BY <2>1, <2>2, <2>4, EarlierSessions
  <2> QED
    BY <1>1, <2>3, <2>4 DEF Restart, LoadedSessions
<1>3. TakesBackup
  <2> SUFFICES ASSUME promised # None, faults \subseteq {"crash"}
               PROVE  users' = promised.users
    BY DEF TakesBackup
  <2>1. promised.users \subseteq Account
    BY DEF IInv, AccountsTyped, Promise
  <2> QED
    BY <1>1, <2>1, AccountsConstants DEF Restart, IInv, FileInv
<1> QED
  BY <1>2, <1>3

(* Every start finds the logins that were valid, and the accounts of the   *)
(* restore or reset before it (loadSessions, UserStore.load, Restore).     *)
THEOREM StartsKept == Spec => StartsAsPromised
<1> DEFINE Start == Restart /\ agent' = "up" => KeepsLogins /\ TakesBackup
<1>1. IInv /\ [Next]_vars => [Start]_vars
  BY StartFinds
<1> QED
  BY <1>1, InvHolds, PTL DEF Spec, StartsAsPromised
-----------------------------------------------------------------------------
(***************************************************************************)
(* The login limiter, for any keys, any limit and times, and any finite    *)
(* number of requests that overlap.                                        *)
(***************************************************************************)

(* The requests that will check their password for key k once more,        *)
(* whatever is locked in between.                                          *)
Checking(k) ==
  {c \in Logins : login[c].pc = "verify" /\ k \in {login[c].ip, login[c].name}}

(* A counter counts failures of the present streak only.                   *)
Counted(k) ==
  attempts[k].count > 0 =>
    streak[k].n >= attempts[k].count /\ streak[k].age = attempts[k].age

CountsInv == \A k \in Keys : Counted(k)

(* What was checked since a lockout and what is still to be checked never  *)
(* exceed the requests other than the one that locked.                     *)
LateInv ==
  \A k \in Keys : Locked(k) =>
    late[k] + Cardinality(Checking(k)) <= Cardinality(Logins) - 1

LimiterInv == LimiterTypeOK /\ CountsInv /\ LateInv

-----------------------------------------------------------------------------
(* The requests that check key k are finitely many, at most all of them.   *)
LEMMA CheckingFinite ==
  ASSUME NEW k \in Keys
  PROVE  /\ IsFiniteSet(Checking(k)) /\ Cardinality(Checking(k)) \in Nat
         /\ Cardinality(Logins) \in Nat
         /\ Cardinality(Checking(k)) <= Cardinality(Logins)
<1>1. Checking(k) \subseteq Logins
  BY DEF Checking
<1> QED
  BY <1>1, LimiterConstants, FS_CardinalityType, FS_Subset

(* A request that is past its check leaves room for the others only.       *)
LEMMA RoomForOthers ==
  ASSUME NEW k \in Keys, NEW c \in Logins, c \notin Checking(k)
  PROVE  Cardinality(Checking(k)) <= Cardinality(Logins) - 1
<1>1. Checking(k) \subseteq Logins \ {c}
  BY DEF Checking
<1>2. IsFiniteSet(Logins \ {c}) /\
      Cardinality(Logins \ {c}) = Cardinality(Logins) - 1
  BY LimiterConstants, FS_RemoveElement
<1>3. Cardinality(Checking(k)) <= Cardinality(Logins \ {c})
  BY <1>1, <1>2, FS_Subset
<1> QED
  BY <1>2, <1>3

-----------------------------------------------------------------------------
(* Every start is in the invariant.                                        *)
LEMMA LimiterInvInit == LimiterInit => LimiterInv
<1> SUFFICES ASSUME LimiterInit PROVE LimiterInv
  OBVIOUS
<1>1. Cardinality(Logins) \in Nat
  BY LimiterConstants, FS_CardinalityType
<1>2. LimiterTypeOK
  BY <1>1, LimiterConstants DEF LimiterInit, LimiterTypeOK, NoAttempt, NoRequest, Requests
<1>3. CountsInv /\ LateInv
  BY DEF LimiterInit, CountsInv, Counted, NoAttempt, LateInv, Locked
<1> QED
  BY <1>2, <1>3 DEF LimiterInv

(* Pruning keeps a counter within its type, and never sets it to another   *)
(* value than none.                                                        *)
LEMMA PrunedType ==
  ASSUME LimiterTypeOK
  PROVE  /\ Pruned \in [Keys -> [count : 0..(Limit - 1), age : 0..(TTL + 1)]]
         /\ \A k \in Keys : Pruned[k] = attempts[k] \/ Pruned[k] = NoAttempt
         /\ \A k \in Keys : Pruned[k].count > 0 =>
              Pruned[k] = attempts[k] /\ attempts[k].age <= TTL
<1>1. \A k \in Keys : Stale(attempts[k]) \/ attempts[k].age <= TTL
  BY LimiterConstants DEF Stale, LimiterTypeOK
<1> QED
  BY <1>1, LimiterConstants DEF LimiterTypeOK, Pruned, NoAttempt

(* One more failure is counted on top of what pruning leaves.              *)
LEMMA CountType ==
  ASSUME LimiterTypeOK, NEW k \in Keys
  PROVE  Count(k) = Pruned[k].count + 1 /\ Count(k) \in 1..Limit
<1>1. ~(Pruned[k].count > 0 /\ Stale(Pruned[k]))
  BY PrunedType, LimiterConstants DEF Stale, LimiterTypeOK
<1>2. Pruned[k].count \in 0..(Limit - 1)
  BY PrunedType
<1> QED
  BY <1>1, <1>2, LimiterConstants DEF Count

(* The failures in a row are at least those that were counted.             *)
LEMMA StreakCounts ==
  ASSUME LimiterTypeOK, CountsInv, NEW k \in Keys
  PROVE  Streak(k) \in 1..Limit /\ Streak(k) >= Count(k)
<1>1. streak[k].n \in 0..Limit /\ streak[k].age \in 0..(TTL + 1)
  BY DEF LimiterTypeOK
<1>2. Streak(k) \in 1..Limit
  BY <1>1, LimiterConstants DEF Streak
<1>3. CASE Pruned[k].count = 0
  BY <1>2, <1>3, CountType, LimiterConstants
<1>4. CASE Pruned[k].count > 0
  <2>1. attempts[k].count > 0 /\ attempts[k].age <= TTL /\
        attempts[k].count = Pruned[k].count
    BY <1>4, PrunedType
  <2>2. streak[k].n >= Pruned[k].count /\ streak[k].age <= TTL
    BY <2>1 DEF CountsInv, Counted
  <2>3. Pruned[k].count \in 0..(Limit - 1)
    BY PrunedType
  <2>4. Streak(k) >= Pruned[k].count + 1
    BY <1>1, <1>4, <2>2, <2>3, LimiterConstants DEF Streak
  <2> QED
    BY <1>2, <2>4, CountType
<1>5. Pruned[k].count \in Nat
  BY PrunedType, LimiterConstants
<1> QED
  BY <1>3, <1>4, <1>5

-----------------------------------------------------------------------------
(* What RecordFailedAttempt does to key k, if it is one of the request's   *)
(* and if it is not.                                                       *)
Recorded(k) ==
  /\ streak'[k] = [n |-> Streak(k), age |-> 0]
  /\ \/ /\ Reached(k) /\ lockout'[k] = LockTime /\ attempts'[k] = NoAttempt
        /\ late'[k] = IF Locked(k) THEN late[k] ELSE 0
     \/ /\ ~Reached(k) /\ lockout'[k] = lockout[k] /\ late'[k] = late[k]
        /\ attempts'[k] = [count |-> Count(k), age |-> 0]

NotRecorded(k) ==
  /\ attempts'[k] = Pruned[k]
  /\ lockout'[k] = lockout[k] /\ streak'[k] = streak[k] /\ late'[k] = late[k]

(* RecordFailedAttempt does one or the other to each key.                  *)
LEMMA RecordFailedEffect ==
  ASSUME NEW c \in Logins, RecordFailed(c), NEW k \in Keys
  PROVE  Recorded(k) \/ NotRecorded(k)
  BY DEF RecordFailed, Lockouts, Recorded, NotRecorded

(* Every step keeps the types.                                             *)
LEMMA StepKeepsType ==
  ASSUME LimiterInv, [LimiterNext]_limiterVars PROVE LimiterTypeOK'
<1> USE DEF LimiterInv
<1>0. Cardinality(Logins) \in Nat
  BY LimiterConstants, FS_CardinalityType
<1>1. ASSUME NEW c \in Logins, NEW ip \in Ips, NEW name \in LoginNames,
             Begin(c, ip, name)
      PROVE  LimiterTypeOK'
  BY <1>1 DEF LimiterTypeOK, Begin, Requests
<1>2. ASSUME NEW c \in Logins, Verify(c) PROVE LimiterTypeOK'
  <2>1. login' \in [Logins -> Requests]
    <3>1. login[c] \in Requests \ {NoRequest}
      BY <1>2 DEF LimiterTypeOK, Verify, Requests, NoRequest
    <3>2. PICK answer \in {"create", "record"} :
            login' = [login EXCEPT ![c].pc = answer]
      BY <1>2 DEF Verify
    <3>3. login'[c] \in Requests
      BY <3>1, <3>2 DEF LimiterTypeOK, Requests
    <3> QED
      BY <3>2, <3>3 DEF LimiterTypeOK
  <2>2. ASSUME NEW k \in Keys PROVE late'[k] \in 0..Cardinality(Logins)
    <3>1. CASE k \in {login[c].ip, login[c].name} /\ Locked(k)
      <4>1. c \in Checking(k)
        BY <1>2, <3>1 DEF Verify, Checking
      <4>2. Cardinality(Checking(k)) # 0
        BY <4>1, CheckingFinite, FS_EmptySet
      <4>3. late[k] + 1 <= Cardinality(Logins)
        BY <1>0, <3>1, <4>2, CheckingFinite DEF LateInv, LimiterTypeOK
      <4> QED
        BY <1>0, <1>2, <3>1, <4>3 DEF Verify, LimiterTypeOK
    <3>2. CASE ~(k \in {login[c].ip, login[c].name} /\ Locked(k))
      BY <1>2, <3>2 DEF Verify, LimiterTypeOK
    <3> QED
      BY <3>1, <3>2
  <2>3. late' \in [Keys -> 0..Cardinality(Logins)]
    BY <1>2, <2>2 DEF Verify
  <2> QED
    BY <1>2, <2>1, <2>3 DEF LimiterTypeOK, Verify
<1>3. ASSUME NEW c \in Logins, Create(c) PROVE LimiterTypeOK'
  BY <1>3, PrunedType DEF LimiterTypeOK, Create, Requests
<1>4. ASSUME NEW c \in Logins, RecordFailed(c) PROVE LimiterTypeOK'
  <2>1. login' \in [Logins -> Requests]
    BY <1>4 DEF LimiterTypeOK, RecordFailed, Requests
  <2>2. ASSUME NEW k \in Keys
        PROVE  /\ attempts'[k] \in [count : 0..(Limit - 1), age : 0..(TTL + 1)]
               /\ lockout'[k] \in 0..LockTime
               /\ streak'[k] \in [n : 0..Limit, age : 0..(TTL + 1)]
               /\ late'[k] \in 0..Cardinality(Logins)
    <3>1. Count(k) \in 1..Limit /\ Streak(k) \in 1..Limit
      BY CountType, StreakCounts
    <3>2. ~Reached(k) => Count(k) \in 0..(Limit - 1)
      BY <3>1, LimiterConstants DEF Reached
    <3>3. /\ attempts[k] \in [count : 0..(Limit - 1), age : 0..(TTL + 1)]
          /\ Pruned[k] \in [count : 0..(Limit - 1), age : 0..(TTL + 1)]
          /\ lockout[k] \in 0..LockTime /\ late[k] \in 0..Cardinality(Logins)
          /\ streak[k] \in [n : 0..Limit, age : 0..(TTL + 1)]
      BY PrunedType DEF LimiterTypeOK
    <3>4. CASE Recorded(k)
      BY <1>0, <3>1, <3>2, <3>3, <3>4, LimiterConstants
         DEF Recorded, NoAttempt
    <3>5. CASE NotRecorded(k)
      BY <3>3, <3>5 DEF NotRecorded
    <3> QED
      BY <1>4, <3>4, <3>5, RecordFailedEffect
  <2>3. /\ attempts' = [k \in Keys |-> attempts'[k]]
        /\ lockout' = [k \in Keys |-> lockout'[k]]
        /\ streak' = [k \in Keys |-> streak'[k]]
        /\ late' = [k \in Keys |-> late'[k]]
    BY <1>4 DEF RecordFailed, Lockouts
  <2> QED
    BY <2>1, <2>2, <2>3 DEF LimiterTypeOK
<1>5. CASE Logout
  BY <1>5, PrunedType DEF LimiterTypeOK, Logout
<1>6. CASE Tick
  <2>1. ASSUME NEW k \in Keys
        PROVE  /\ attempts'[k] \in [count : 0..(Limit - 1), age : 0..(TTL + 1)]
               /\ lockout'[k] \in 0..LockTime
               /\ streak'[k] \in [n : 0..Limit, age : 0..(TTL + 1)]
    <3>1. /\ attempts[k] \in [count : 0..(Limit - 1), age : 0..(TTL + 1)]
          /\ lockout[k] \in 0..LockTime
          /\ streak[k] \in [n : 0..Limit, age : 0..(TTL + 1)]
      BY DEF LimiterTypeOK
    <3>2. /\ attempts[k].age <= TTL => attempts[k].age + 1 \in 0..(TTL + 1)
          /\ streak[k].age <= TTL => streak[k].age + 1 \in 0..(TTL + 1)
          /\ lockout[k] > 0 => lockout[k] - 1 \in 0..LockTime
      BY <3>1, LimiterConstants
    <3> QED
      BY <1>6, <3>1, <3>2, LimiterConstants DEF Tick, Locked
  <2>2. /\ attempts' = [k \in Keys |-> attempts'[k]]
        /\ lockout' = [k \in Keys |-> lockout'[k]]
        /\ streak' = [k \in Keys |-> streak'[k]]
    BY <1>6 DEF Tick
  <2> QED
    BY <1>6, <2>1, <2>2 DEF LimiterTypeOK, Tick
<1>7. CASE RestartLimiter
  BY <1>0, <1>7, LimiterConstants DEF LimiterTypeOK, RestartLimiter, NoAttempt, Requests
<1>8. CASE UNCHANGED limiterVars
  BY <1>8 DEF LimiterTypeOK, limiterVars
<1> QED
  BY <1>1, <1>2, <1>3, <1>4, <1>5, <1>6, <1>7, <1>8 DEF LimiterNext

(* Every step keeps the counters within the streaks.                       *)
LEMMA StepKeepsCounts ==
  ASSUME LimiterInv, [LimiterNext]_limiterVars PROVE CountsInv'
<1> USE DEF LimiterInv
<1> SUFFICES ASSUME NEW k \in Keys PROVE Counted(k)'
  BY DEF CountsInv
<1>0. Counted(k) /\ attempts[k].count \in Nat /\ attempts[k].age \in Nat
  BY LimiterConstants DEF CountsInv, LimiterTypeOK
<1>1. ASSUME UNCHANGED <<attempts, streak>> PROVE Counted(k)'
  BY <1>0, <1>1 DEF Counted
<1>2. ASSUME attempts' = Pruned, UNCHANGED streak PROVE Counted(k)'
  BY <1>0, <1>2, PrunedType DEF Counted, NoAttempt
<1>3. ASSUME NEW c \in Logins, RecordFailed(c) PROVE Counted(k)'
  <2>1. CASE Recorded(k)
    BY <2>1, StreakCounts DEF Recorded, Counted, NoAttempt
  <2>2. CASE NotRecorded(k)
    BY <1>0, <2>2, PrunedType DEF NotRecorded, Counted, NoAttempt
  <2> QED
    BY <1>3, <2>1, <2>2, RecordFailedEffect
<1>4. CASE Tick
  <2>1. CASE attempts[k].count > 0
    <3>1. streak[k].n > 0 /\ streak[k].age = attempts[k].age
      BY <1>0, <2>1, LimiterConstants DEF Counted, LimiterTypeOK
    <3> QED
      BY <1>0, <1>4, <2>1, <3>1 DEF Tick, Counted, LimiterTypeOK
  <2>2. CASE ~(attempts[k].count > 0)
    BY <1>4, <2>2 DEF Tick, Counted
  <2> QED
    BY <2>1, <2>2
<1>5. CASE RestartLimiter
  BY <1>5 DEF RestartLimiter, Counted, NoAttempt
<1> QED
  BY <1>1, <1>2, <1>3, <1>4, <1>5
     DEF LimiterNext, Begin, Verify, Create, Logout, limiterVars

(* A step that neither locks a key nor changes who still checks it.        *)
LEMMA QuietStepKeepsLate ==
  ASSUME LimiterInv, NEW k \in Keys, Locked(k)' => Locked(k),
         late'[k] = late[k], Checking(k)' = Checking(k)
  PROVE  (Locked(k) =>
            late[k] + Cardinality(Checking(k)) <= Cardinality(Logins) - 1)'
  BY DEF LimiterInv, LateInv

(* Every step keeps the bound on late checks.                              *)
LEMMA StepKeepsLate ==
  ASSUME LimiterInv, [LimiterNext]_limiterVars PROVE LateInv'
<1> DEFINE Bounded(k) == Locked(k) =>
             late[k] + Cardinality(Checking(k)) <= Cardinality(Logins) - 1
<1> SUFFICES ASSUME NEW k \in Keys PROVE Bounded(k)'
  BY DEF LateInv
<1>0. /\ late[k] \in Nat /\ Cardinality(Logins) \in Nat
      /\ lockout[k] \in Nat /\ login \in [Logins -> Requests]
  BY LimiterConstants, FS_CardinalityType DEF LimiterInv, LimiterTypeOK
<1>1. ASSUME NEW c \in Logins, NEW ip \in Ips, NEW name \in LoginNames,
             Begin(c, ip, name)
      PROVE  Bounded(k)'
  <2>1. Locked(k) => k \notin {ip, name}
    BY <1>1 DEF Begin, IsLockedOut
  <2>2. Locked(k) => Checking(k)' = Checking(k)
    BY <1>0, <1>1, <2>1 DEF Begin, Checking, NoRequest
  <2>3. late'[k] = late[k] /\ (Locked(k)' <=> Locked(k))
    BY <1>1 DEF Begin, Locked
  <2> QED
    BY <2>2, <2>3, QuietStepKeepsLate
<1>2. ASSUME NEW c \in Logins, Verify(c) PROVE Bounded(k)'
  <2>1. Locked(k)' <=> Locked(k)
    BY <1>2 DEF Verify, Locked
  <2>2. Checking(k)' = Checking(k) \ {c}
    BY <1>0, <1>2 DEF Verify, Checking, Requests, NoRequest
  <2>3. CASE k \in {login[c].ip, login[c].name} /\ Locked(k)
    <3>1. c \in Checking(k)
      BY <1>2, <2>3 DEF Verify, Checking
    <3>2. Cardinality(Checking(k) \ {c}) = Cardinality(Checking(k)) - 1
      BY <3>1, CheckingFinite, FS_RemoveElement
    <3>3. late'[k] = late[k] + 1
      BY <1>2, <2>3 DEF Verify
    <3> QED
      BY <1>0, <2>2, <2>3, <3>2, <3>3, CheckingFinite DEF LimiterInv, LateInv
  <2>4. CASE ~(k \in {login[c].ip, login[c].name} /\ Locked(k))
    <3>1. late'[k] = late[k]
      BY <1>2, <2>4 DEF Verify
    <3>2. Locked(k) => Checking(k)' = Checking(k)
      BY <2>2, <2>4 DEF Checking
    <3> QED
      BY <2>1, <3>1, <3>2, QuietStepKeepsLate
  <2> QED
    BY <2>3, <2>4
<1>3. ASSUME NEW c \in Logins, Create(c) PROVE Bounded(k)'
  <2>1. Checking(k)' = Checking(k)
    BY <1>0, <1>3 DEF Create, Checking, NoRequest
  <2> QED
    BY <1>3, <2>1, QuietStepKeepsLate DEF Create, Locked
<1>4. ASSUME NEW c \in Logins, RecordFailed(c) PROVE Bounded(k)'
  <2>1. Checking(k)' = Checking(k) /\ c \notin Checking(k)
    BY <1>0, <1>4 DEF RecordFailed, Checking, NoRequest
  <2>2. CASE Locked(k) \/ lockout'[k] = lockout[k]
    <3>1. CASE Recorded(k)
      BY <1>0, <2>1, <2>2, <3>1, QuietStepKeepsLate, LimiterConstants
         DEF Recorded, Locked
    <3>2. CASE NotRecorded(k)
      BY <2>1, <3>2, QuietStepKeepsLate DEF NotRecorded, Locked
    <3> QED
      BY <1>4, <3>1, <3>2, RecordFailedEffect
  <2>3. CASE ~(Locked(k) \/ lockout'[k] = lockout[k])
    <3>1. late'[k] = 0
      BY <1>4, <2>3, RecordFailedEffect DEF Recorded, NotRecorded
    <3> QED
      BY <1>0, <2>1, <3>1, RoomForOthers, CheckingFinite
  <2> QED
    BY <2>2, <2>3
<1>5. CASE Logout
  BY <1>5, QuietStepKeepsLate DEF Logout, Locked, Checking
<1>6. CASE Tick
  BY <1>0, <1>6, QuietStepKeepsLate DEF Tick, Locked, Checking
<1>7. CASE RestartLimiter
  BY <1>7 DEF RestartLimiter, Locked
<1>8. CASE UNCHANGED limiterVars
  BY <1>8, QuietStepKeepsLate DEF limiterVars, Locked, Checking
<1> QED
  BY <1>1, <1>2, <1>3, <1>4, <1>5, <1>6, <1>7, <1>8 DEF LimiterNext

(* The invariant is inductive.                                             *)
LEMMA StepKeepsLimiterInv == LimiterInv /\ [LimiterNext]_limiterVars => LimiterInv'
  BY StepKeepsType, StepKeepsCounts, StepKeepsLate DEF LimiterInv

(* The inductive invariant, from which the other theorems follow.          *)
THEOREM LimiterInvHolds == LimiterSpec => []LimiterInv
  BY LimiterInvInit, StepKeepsLimiterInv, PTL DEF LimiterSpec

-----------------------------------------------------------------------------
(* Counters stay below the limit, lockouts within their length.            *)
THEOREM LimiterTypeCorrect == LimiterSpec => []LimiterTypeOK
<1>1. LimiterInv => LimiterTypeOK
  BY DEF LimiterInv
<1> QED
  BY <1>1, LimiterInvHolds, PTL

(* Whatever overlaps, a key that is locked gets at most one more password  *)
(* checked for each other request under way: handleLogin asks IsLockedOut  *)
(* before the check, without a common lock.                                *)
THEOREM LateChecksBounded == LimiterSpec => []LateChecksAreBounded
<1>1. LimiterInv => LateChecksAreBounded
  BY CheckingFinite, LimiterConstants DEF LimiterInv, LimiterTypeOK, LateInv,
     LateChecksAreBounded
<1> QED
  BY <1>1, LimiterInvHolds, PTL

(* A step locks a key only after Limit failures in a row, and only time or *)
(* a restart shortens a lockout (RecordFailedAttempt).                     *)
LEMMA StepIsFair ==
  ASSUME LimiterInv, [LimiterNext]_limiterVars, NEW k \in Keys
  PROVE  MeansBurst(k) /\ RunsItsTime(k)
<1> USE DEF MeansBurst, RunsItsTime
<1>0. lockout[k] \in 0..LockTime
  BY DEF LimiterInv, LimiterTypeOK
<1>1. CASE lockout'[k] = lockout[k]
  BY <1>0, <1>1, LimiterConstants
<1>2. ASSUME NEW c \in Logins, RecordFailed(c)
      PROVE  MeansBurst(k) /\ RunsItsTime(k)
  <2>1. CASE lockout'[k] # lockout[k]
    <3>0. Recorded(k)
      BY <1>2, <2>1, RecordFailedEffect DEF NotRecorded
    <3>1. Reached(k) /\ streak'[k].n = Streak(k) /\ lockout'[k] = LockTime
      BY <2>1, <3>0 DEF Recorded
    <3>2. Count(k) >= Limit /\ Streak(k) >= Count(k) /\ Count(k) \in Nat
          /\ Streak(k) \in Nat
      BY <3>1, StreakCounts, CountType, LimiterConstants DEF LimiterInv, Reached
    <3> QED
      BY <1>0, <3>1, <3>2, LimiterConstants
  <2> QED
    BY <1>1, <2>1
<1>3. CASE Tick
  BY <1>0, <1>3, LimiterConstants DEF Tick, Locked
<1>4. CASE RestartLimiter
  BY <1>0, <1>4, LimiterConstants DEF RestartLimiter
<1> QED
  BY <1>1, <1>2, <1>3, <1>4
     DEF LimiterNext, Begin, Verify, Create, Logout, limiterVars

(* A lockout is deserved, served in full, and leaves through only those    *)
(* whose password was about to be checked: IsLockedOut, RecordFailedAttempt *)
(* and pruneLocked, for any keys, limit and times.                         *)
THEOREM LockoutFairness == LimiterSpec => LockoutsAreFair
<1> DEFINE Fair == LateChecksAreBounded' /\
                   \A k \in Keys : MeansBurst(k) /\ RunsItsTime(k)
<1>1. LimiterInv /\ [LimiterNext]_limiterVars /\ LateChecksAreBounded' => [Fair]_limiterVars
  BY StepIsFair
<1>2. []LimiterInv /\ [][LimiterNext]_limiterVars /\ []LateChecksAreBounded => [][Fair]_limiterVars
  BY <1>1, PTL
<1> QED
  BY <1>2, LimiterInvHolds, LateChecksBounded, PTL DEF LimiterSpec, LockoutsAreFair
=============================================================================
