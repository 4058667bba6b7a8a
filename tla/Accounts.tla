------------------------------ MODULE Accounts ------------------------------
(***************************************************************************)
(* Accounts and login sessions: the UserStore with its file users.enc      *)
(* (pkg/store/users.go), the sessions of the AuthManager with sessions.json *)
(* (pkg/api/auth.go), the handlers that use both (pkg/api/server.go), and   *)
(* what a backup, a restore and a factory reset do to them                  *)
(* (pkg/store/backup.go).                                                   *)
(*                                                                          *)
(* Each of the two has a lock of its own and a handler takes them one after *)
(* the other, so a request is a sequence of steps; the steps of several     *)
(* requests interleave, and the process may end between any two of them.    *)
(*                                                                          *)
(* A password is a number, the generation of the account's password: who    *)
(* knows it presents it, and a change gives the next number.                *)
(***************************************************************************)
EXTENDS Naturals, FiniteSets

CONSTANTS
  Clients,   \* requests that may be under way at once
  Names,     \* user names apart from "master" (equal-fold classes)
  MaxId,     \* bound: accounts ever created beside the seeded one
  MaxPw,     \* bound: password changes of one account
  Scenarios, \* what may go wrong, and a bound on the sessions ever created
  Missing, Torn, NoBackup, None, Earlier  \* stand for no accounts, see below

(* "overlap": several requests are under way at once; "crash": the process *)
(* ends in the middle of a request; "write": a file cannot be written;     *)
(* "window": requests arrive in the 500 ms between a restore or reset and  *)
(* the restart; "cli": security-harbor-reset-password is run beside the    *)
(* agent.                                                                  *)
AllFaults == {"overlap", "crash", "write", "window", "cli"}

Account == [id : 0..MaxId, name : Names \cup {"master"},
            role : {"admin", "viewer"}, pw : 0..MaxPw]
Promise == [by : {"restore", "reset"}, users : SUBSET Account]

ASSUME AccountsConstants ==
  /\ MaxId \in Nat /\ MaxPw \in Nat /\ "master" \notin Names
  /\ \A s \in Scenarios : s.faults \subseteq AllFaults /\ s.logins \in Nat
  /\ \A us \in SUBSET Account : us \notin {Missing, Torn, NoBackup}
  /\ Missing # Torn
  /\ None \notin Promise /\ Earlier \notin (0..MaxId) \X (0..MaxPw)

VARIABLES
  scenario,   \* the scenario this behaviour belongs to; never changes
  users,      \* UserStore.users
  usersFile,  \* users.enc: accounts, Missing, or Torn (cannot be decrypted)
  sessions,   \* AuthManager.sessions
  sessFile,   \* sessions.json
  req,        \* what each request under way has still to do
  backup,     \* the accounts in the administrator's backup file, or NoBackup
  agent,      \* "up", "exiting" (os.Exit is due), "dead" (cannot start)
  nextId, nextToken,
  promised    \* history variable: what the restore or reset that was just
              \* acknowledged promises for the next start, or None

vars == <<scenario, users, usersFile, sessions, sessFile, req, backup,
          agent, nextId, nextToken, promised>>

faults == scenario.faults
MaxToken == scenario.logins

(* "over": ExpiresAt has passed.  "of" is a history field: the account and *)
(* the password generation that the holder proved to know; Earlier: those  *)
(* of a users.enc since replaced.                                          *)
Session == [token : 0..(MaxToken - 1), name : Names \cup {"master"},
            role : {"admin", "viewer"}, over : BOOLEAN,
            of : ((0..MaxId) \X (0..MaxPw)) \cup {Earlier}]

Idle == [pc |-> "idle"]
Valid(ss) == {s \in ss : ~s.over}
Quiet == \A c \in Clients : req[c] = Idle

(* UserStore.load of a missing file seeds one administrator.               *)
Seed == {[id |-> 0, name |-> "master", role |-> "admin", pw |-> 0]}

TypeOK ==
  /\ scenario \in Scenarios
  /\ users \subseteq Account
  /\ usersFile \in {Missing, Torn} \/ usersFile \subseteq Account
  /\ sessions \subseteq Session /\ sessFile \subseteq Session
  /\ \A s, t \in sessions : s.token = t.token => s = t
  /\ backup = NoBackup \/ backup \subseteq Account
  /\ agent \in {"up", "exiting", "dead"}
  /\ nextId \in 1..(MaxId + 1) /\ nextToken \in 0..MaxToken
  /\ promised \in Promise \cup {None}
  /\ \A c \in Clients :
       req[c].pc \in {"idle", "createSession", "createUser", "deleteUser",
                      "reset", "resetLookup", "own", "ownChange", "kill",
                      "wipe", "wipeFiles", "restore"}

Init ==
  /\ scenario \in Scenarios
  /\ users = Seed /\ usersFile = Seed
  /\ sessions = {} /\ sessFile = {}
  /\ req = [c \in Clients |-> Idle]
  /\ backup = NoBackup /\ agent = "up"
  /\ nextId = 1 /\ nextToken = 0
  /\ promised = None
-----------------------------------------------------------------------------
(* A request goes on as r, or ends.                                        *)
Goes(c, r) == req' = [req EXCEPT ![c] = r]
Ends(c) == Goes(c, Idle)
At(c, pc) == agent # "dead" /\ req[c].pc = pc

(* Deviation: a change is not saved.                                       *)
SaveUsersNever(ok) == usersFile' = usersFile

(* UserStore.saveLocked: os.WriteFile truncates users.enc before it writes, *)
(* so that a write that fails may leave either the old file or a torn one.  *)
SaveUsers(ok) ==
  IF ok THEN usersFile' = users' ELSE usersFile' \in {usersFile, Torn}

(* saveSessionsLocked: temporary file and rename; errors are ignored.      *)
SaveSessions ==
  sessFile' \in {sessions'} \cup (IF "write" \in faults THEN {sessFile} ELSE {})

(* The answers a file operation can have.                                  *)
Outcomes == IF "write" \in faults THEN BOOLEAN ELSE {TRUE}

UsersSame == UNCHANGED <<users, usersFile, backup, agent, nextId, promised>>
SessionsSame == UNCHANGED <<sessions, sessFile, nextToken>>
-----------------------------------------------------------------------------
(* A request arrives.                                                      *)
Arrives(c) ==
  /\ agent = "up" \/ (agent = "exiting" /\ "window" \in faults)
  /\ req[c] = Idle
  /\ Quiet \/ "overlap" \in faults

(* handleLogin with the right password; a wrong one is Prune.              *)
VerifyCredentials(c, u) ==
  /\ Arrives(c) /\ u \in users
  /\ Goes(c, [pc |-> "createSession", name |-> u.name, role |-> u.role,
              of |-> <<u.id, u.pw>>])
  /\ UsersSame /\ SessionsSame

(* Deviation: the random bytes are never read.                             *)
FreshTokenZero == 0

FreshToken == nextToken

(* CreateSession, with pruneLocked.                                        *)
CreateSession(c) ==
  /\ At(c, "createSession") /\ nextToken < MaxToken
  /\ sessions' = Valid(sessions) \cup
       {[token |-> FreshToken, name |-> req[c].name, role |-> req[c].role,
         over |-> FALSE, of |-> req[c].of]}
  /\ SaveSessions
  /\ nextToken' = nextToken + 1
  /\ Ends(c)
  /\ UsersSame

(* pruneLocked, called by RecordFailedAttempt; DeleteSession, which prunes, *)
(* for the token of handleLogout.                                           *)
Prune ==
  /\ agent # "dead" /\ Valid(sessions) # sessions
  /\ sessions' = Valid(sessions)
  /\ SaveSessions
  /\ UsersSame /\ UNCHANGED <<req, nextToken>>

DeleteSession(c, s) ==
  /\ Arrives(c) /\ s \in Valid(sessions)
  /\ sessions' = Valid(sessions) \ {s}
  /\ SaveSessions
  /\ UsersSame /\ UNCHANGED <<req, nextToken>>

(* ExpiresAt passes: the clock is the same for the memory and the file.    *)
Expired(ss, token) == {[s EXCEPT !.over = @ \/ s.token = token] : s \in ss}

Expire(s) ==
  /\ s \in Valid(sessions)
  /\ sessions' = Expired(sessions, s.token)
  /\ sessFile' = Expired(sessFile, s.token)
  /\ UsersSame /\ UNCHANGED <<nextToken, req>>

(* The random source, the password policy or bcrypt refuse, before anything *)
(* is changed; the requests that exceed a bound end here as well.           *)
Refused(c) ==
  /\ \E pc \in {"createSession", "createUser", "reset", "ownChange"} : At(c, pc)
  /\ Ends(c)
  /\ UsersSame /\ SessionsSame

(* authMiddlewareAdmin lets the request of session s in; from then on the   *)
(* session is not looked at again. handleDeleteUser looks the name up first; *)
(* a name never changes, so the lookup is part of this step.                *)
AdminRequest(c, s, r) ==
  /\ Arrives(c)
  /\ s \in Valid(sessions) /\ s.role = "admin"
  /\ Goes(c, r)
  /\ UsersSame /\ SessionsSame

AdminRequests(s) ==
  {[pc |-> "createUser", name |-> n, role |-> role] :
     n \in Names \cup {"master"}, role \in {"admin", "viewer"}}
  \cup {[pc |-> "deleteUser", id |-> u.id, name |-> u.name] : u \in users}
  \cup {[pc |-> "reset", id |-> u.id] : u \in users}
  \cup {[pc |-> "wipe", name |-> s.name]}
  \cup {[pc |-> "restore"] : x \in IF backup = NoBackup THEN {} ELSE {1}}

(* authMiddleware, for handleChangePassword.                               *)
OwnRequest(c, s) ==
  /\ Arrives(c) /\ s \in Valid(sessions)
  /\ Goes(c, [pc |-> "own", name |-> s.name, token |-> s.token])
  /\ UsersSame /\ SessionsSame
-----------------------------------------------------------------------------
(* Deviation: the name is not looked for.                                  *)
NameTakenNever(n) == FALSE

NameTaken(n) == \E u \in users : u.name = n

(* UserStore.CreateUser.                                                   *)
CreateUser(c) ==
  /\ At(c, "createUser")
  /\ Ends(c)
  /\ IF NameTaken(req[c].name)
     THEN UNCHANGED <<users, usersFile, nextId>>
     ELSE /\ nextId <= MaxId
          /\ users' = users \cup {[id |-> nextId, name |-> req[c].name,
                                   role |-> req[c].role, pw |-> 0]}
          /\ nextId' = nextId + 1
          /\ \E ok \in Outcomes : SaveUsers(ok)
  /\ SessionsSame /\ UNCHANGED <<backup, agent, promised>>

(* Deviation: any administrator may go.                                    *)
MayDeleteAny(u) == TRUE

(* The last administrator stays.                                           *)
MayDelete(u) ==
  u.role = "admin" => \E v \in users : v.role = "admin" /\ v.id # u.id

(* UserStore.DeleteUser in handleDeleteUser: sessions are dropped only if   *)
(* it returned no error, but the account is gone from memory even if it     *)
(* could not be saved.                                                      *)
DeleteUser(c) ==
  /\ At(c, "deleteUser")
  /\ LET found == {u \in users : u.id = req[c].id /\ MayDelete(u)}
     IN IF found = {}
        THEN Ends(c) /\ UNCHANGED <<users, usersFile>>
        ELSE /\ users' = users \ found
             /\ \E ok \in Outcomes :
                  /\ SaveUsers(ok)
                  /\ IF ok THEN Goes(c, [pc |-> "kill", name |-> req[c].name])
                           ELSE Ends(c)
  /\ SessionsSame
  /\ UNCHANGED <<backup, agent, nextId, promised>>

(* UserStore.ChangePassword of account id; no account, no change.          *)
WithNextPw(id) ==
  {IF u.id = id THEN [u EXCEPT !.pw = @ + 1] ELSE u : u \in users}
MayChangePw(id) == \E u \in users : u.id = id /\ u.pw < MaxPw

(* AdminResetPassword in handleResetUserPassword.                          *)
ResetPassword(c) ==
  /\ At(c, "reset")
  /\ LET id == req[c].id
     IN IF \A u \in users : u.id # id
        THEN Ends(c) /\ UNCHANGED <<users, usersFile>>
        ELSE /\ MayChangePw(id)
             /\ users' = WithNextPw(id)
             /\ \E ok \in Outcomes :
                  /\ SaveUsers(ok)
                  /\ IF ok THEN Goes(c, [pc |-> "resetLookup", id |-> id])
                           ELSE Ends(c)
  /\ SessionsSame
  /\ UNCHANGED <<backup, agent, nextId, promised>>

(* Deviation: a reset leaves the sessions of the account alone.            *)
ResetLookupNone(c) ==
  /\ At(c, "resetLookup")
  /\ Ends(c)
  /\ UsersSame /\ SessionsSame

(* UsernameByID, after the change: no name, no sessions to drop.           *)
ResetLookup(c) ==
  /\ At(c, "resetLookup")
  /\ LET found == {u \in users : u.id = req[c].id}
     IN IF found = {} THEN Ends(c)
        ELSE \E u \in found : Goes(c, [pc |-> "kill", name |-> u.name])
  /\ UsersSame /\ SessionsSame

(* FindUserByUsername and VerifyPasswordByID, the right password given.    *)
OwnVerify(c) ==
  /\ At(c, "own")
  /\ LET found == {u \in users : u.name = req[c].name}
     IN \/ Ends(c)
        \/ \E u \in found :
             Goes(c, [pc |-> "ownChange", id |-> u.id, name |-> u.name,
                      token |-> req[c].token, pw |-> u.pw])
  /\ UsersSame /\ SessionsSame

(* ChangePassword in ChangeOwnPassword, the lock released in between.      *)
OwnChange(c) ==
  /\ At(c, "ownChange")
  /\ LET id == req[c].id
     IN IF \A u \in users : u.id # id
        THEN Ends(c) /\ UNCHANGED <<users, usersFile>>
        ELSE /\ MayChangePw(id)
             /\ users' = WithNextPw(id)
             /\ \E ok \in Outcomes :
                  /\ SaveUsers(ok)
                  /\ IF ok
                     THEN Goes(c, [pc |-> "kill", name |-> req[c].name,
                                   keep |-> req[c].token, id |-> id,
                                   pw |-> req[c].pw + 1])
                     ELSE Ends(c)
  /\ SessionsSame
  /\ UNCHANGED <<backup, agent, nextId, promised>>

Keeps(r, s) == "keep" \in DOMAIN r /\ s.token = r.keep
Proved(r, s) ==
  IF Keeps(r, s) /\ s.of # Earlier THEN [s EXCEPT !.of = <<r.id, r.pw>>] ELSE s

(* DeleteSessionsForUserExcept; the session that stays has proved the new   *)
(* password. Saved only when something was removed.                         *)
KillSessions(c) ==
  /\ At(c, "kill")
  /\ LET r == req[c]
         gone == {s \in sessions : s.name = r.name /\ ~Keeps(r, s)}
     IN /\ sessions' = {Proved(r, s) : s \in sessions \ gone}
        /\ IF gone # {} THEN SaveSessions
           ELSE sessFile' = {Proved(r, s) : s \in sessFile}
  /\ Ends(c)
  /\ UsersSame /\ UNCHANGED nextToken
-----------------------------------------------------------------------------
(* Store.Backup reads users.enc. One taken while the file is missing has    *)
(* no accounts in it, and is left out.                                      *)
Backup(s) ==
  /\ agent = "up" /\ s \in Valid(sessions) /\ s.role = "admin"
  /\ usersFile \notin {Missing, Torn}
  /\ backup' = usersFile
  /\ UNCHANGED <<users, usersFile, agent, nextId, promised, req>>
  /\ SessionsSame

(* Restore replaces users.enc by a rename, not the accounts in memory. It   *)
(* may fail before that file, or after it; only if it succeeds is the       *)
(* process to end.                                                          *)
Restore(c) ==
  /\ At(c, "restore")
  /\ Ends(c)
  /\ \/ /\ usersFile' = backup /\ agent' = "exiting"
        /\ promised' = [by |-> "restore", users |-> backup]
     \/ /\ "write" \in faults
        /\ usersFile' \in {usersFile, backup} /\ UNCHANGED <<agent, promised>>
  /\ SessionsSame /\ UNCHANGED <<users, backup, nextId>>

(* handleFactoryReset: the password of the logged in user first.           *)
WipeVerify(c) ==
  /\ At(c, "wipe")
  /\ \/ Ends(c)
     \/ NameTaken(req[c].name) /\ Goes(c, [pc |-> "wipeFiles"])
  /\ UsersSame /\ SessionsSame

(* Deviation: users.enc is not among backupFiles.                          *)
AfterResetKept == usersFile

(* What a reset leaves of users.enc.                                       *)
AfterReset == Missing

(* FactoryReset removes the backupFiles, and sessions.json is not one.     *)
FactoryReset(c) ==
  /\ At(c, "wipeFiles")
  /\ Ends(c)
  /\ \/ /\ usersFile' = AfterReset /\ agent' = "exiting"
        /\ promised' = [by |-> "reset", users |-> Seed]
     \/ /\ "write" \in faults
        /\ usersFile' \in {usersFile, AfterReset} /\ UNCHANGED <<agent, promised>>
  /\ SessionsSame /\ UNCHANGED <<users, backup, nextId>>

(* Deviation: sessions whose time is over are loaded too.                  *)
LoadedSessionsAll == sessFile

(* loadSessions.                                                           *)
LoadedSessions == Valid(sessFile)

OfEarlier(ss) == {[s EXCEPT !.of = Earlier] : s \in ss}

(* The process ends and systemd starts it again, from the files. A torn     *)
(* users.enc stops it, however often it is started.                         *)
Restart ==
  /\ agent = "exiting" \/ "crash" \in faults \/ Quiet
  /\ req' = [c \in Clients |-> Idle]
  /\ IF usersFile = Torn
     THEN agent' = "dead" /\ UNCHANGED <<users, usersFile, sessions>>
     ELSE /\ agent' = "up"
          /\ users' = IF usersFile = Missing THEN Seed ELSE usersFile
          /\ usersFile' = users'
          /\ sessions' = IF promised = None THEN LoadedSessions
                         ELSE OfEarlier(LoadedSessions)
  /\ sessFile' = IF agent' = "up" /\ promised # None
                 THEN OfEarlier(sessFile) ELSE sessFile
  /\ promised' = None
  /\ UNCHANGED <<backup, nextId, nextToken>>

(* security-harbor-reset-password opens a UserStore of its own: it changes  *)
(* the file, and the agent does not notice.                                 *)
CliReset ==
  /\ "cli" \in faults /\ usersFile # Torn
  /\ LET stored == IF usersFile = Missing THEN Seed ELSE usersFile
     IN \E u \in stored :
          /\ u.pw < MaxPw
          /\ usersFile' = (stored \ {u}) \cup {[u EXCEPT !.pw = @ + 1]}
  /\ SessionsSame
  /\ UNCHANGED <<users, backup, agent, nextId, promised, req>>

Step ==
  \/ \E c \in Clients :
       \/ \E u \in users : VerifyCredentials(c, u)
       \/ \E s \in sessions :
            \/ DeleteSession(c, s) \/ OwnRequest(c, s)
            \/ \E r \in AdminRequests(s) : AdminRequest(c, s, r)
       \/ CreateSession(c) \/ Refused(c) \/ CreateUser(c) \/ DeleteUser(c)
       \/ ResetPassword(c) \/ ResetLookup(c)
       \/ OwnVerify(c) \/ OwnChange(c) \/ KillSessions(c)
       \/ Restore(c) \/ WipeVerify(c) \/ FactoryReset(c)
  \/ \E s \in sessions : Expire(s) \/ Backup(s)
  \/ Prune \/ Restart \/ CliReset

Next == Step /\ UNCHANGED scenario

Spec == Init /\ [][Next]_vars
-----------------------------------------------------------------------------
(* No sequence of requests, restarts, restores and failed writes leaves the *)
(* agent running without an administrator: DeleteUser keeps the last one,   *)
(* and so does every file the accounts can be loaded from.                  *)
LastAdmin == agent # "dead" => \E u \in users : u.role = "admin"

(* Two accounts never share a name or an ID: a login would find one of them *)
(* only, and what ends the sessions of one would end those of the other.    *)
UniqueNames ==
  \A u, v \in users : u # v => u.name # v.name /\ u.id # v.id

(* Every session that is valid is one whose holder proved the password its *)
(* account has now: deleting an account and changing a password end the    *)
(* other sessions, before the next request comes.                          *)
CurrentSessions ==
  Quiet /\ agent = "up" =>
    \A s \in Valid(sessions) : s.of # Earlier =>
      \E u \in users : s.of = <<u.id, u.pw>> /\ u.name = s.name /\ u.role = s.role

(* It is so as long as requests do not overlap and nothing fails.          *)
SessionsAreCurrent == faults = {} => CurrentSessions

(* Somebody can always administer, a name or an ID always means one        *)
(* account, and who is logged in has an account as it is now.              *)
AccountsStaySound == LastAdmin /\ UniqueNames /\ SessionsAreCurrent

(* A restart, even in the middle of requests, keeps exactly the sessions   *)
(* that were valid: none is lost, and none that was ended comes back.      *)
Who(ss) == {[token |-> s.token, name |-> s.name, role |-> s.role] : s \in ss}
KeepsLogins == "write" \notin faults => Who(sessions') = Who(Valid(sessions))

(* A password is never set back to an earlier one, in memory or in the     *)
(* file, but by a restore or a reset - if nobody else writes the file.     *)
NotSetBack(old, new) ==
  \A u \in old, v \in new : u.id = v.id => v.pw >= u.pw
PasswordsNeverRevert ==
  [][promised = None /\ promised' = None /\ faults \cap {"write", "cli"} = {} =>
       /\ NotSetBack(users, users')
       /\ {usersFile, usersFile'} \cap {Missing, Torn} = {} =>
            NotSetBack(usersFile, usersFile')]_vars

(* The start that follows a restore or a factory reset has the accounts of *)
(* the backup, or the seeded one, if no other request is under way.        *)
TakesBackup ==
  promised # None /\ faults \subseteq {"crash"} => users' = promised.users

(* So every start of the agent finds what the requests before it promised: *)
(* the logins that were valid, and the accounts of a restore.              *)
StartsAsPromised ==
  [][Restart /\ agent' = "up" => KeepsLogins /\ TakesBackup]_vars
-----------------------------------------------------------------------------
(* Promises of the code's comments that it does not keep; README.md names  *)
(* the scenario in which TLC finds each of them, or CurrentSessions,       *)
(* violated.                                                               *)

(* The start that follows a factory reset finds nobody logged in           *)
(* (FactoryReset leaves sessions.json).                                    *)
FreshStart ==
  [][Restart /\ agent' = "up" /\ promised # None /\ promised.by = "reset" =>
       sessions' = {}]_vars

(* An own password change is made by someone who gave the password that is *)
(* being replaced (ChangeOwnPassword lets the lock go in between).         *)
OwnChangeKnowsPassword ==
  [][\A c \in Clients : OwnChange(c) /\ users' # users =>
       \E u \in users : u.id = req[c].id /\ u.pw = req[c].pw]_vars
=============================================================================
