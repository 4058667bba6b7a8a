------------------------------ MODULE Updater ------------------------------
(***************************************************************************)
(* Self-update and going back to an earlier version.  The agent downloads  *)
(* a release into a staging directory (pkg/updater/updater.go) and starts  *)
(* a root unit; systemd/update-runner.sh installs what is staged,          *)
(* systemd/rollback-runner.sh an archived version.  Both archive the       *)
(* outgoing version first (systemd/lib-archive-version.sh, which keeps the *)
(* latest Keep) and exclude each other with a lock they do not wait for;   *)
(* the agent does not take that lock.                                      *)
(*                                                                         *)
(* Of the installed files three are kept: the agent, the web UI and the    *)
(* network helper, which is installed but not archived.  A signature is    *)
(* named by the version it belongs to.                                     *)
(***************************************************************************)
EXTENDS Naturals, Sequences, SequencesExt

CONSTANTS
  MaxVersion,  \* bound on releases: versions are 1 .. MaxVersion
  Keep,        \* archived versions kept; 3 in the code
  Downloads,   \* requests that download at the same time
  Scenarios,   \* sets of Circumstances, see there
  None, Torn   \* no file, no holder; a file that is not written to its end

Versions == 1 .. MaxVersion
Parts == {"agent", "ui", "helper"}
Archived == Parts \ {"helper"}

(* "back": the administrator goes back to archived versions; "withdrawn":  *)
(* the manifest may name an earlier version again; "mislabelled": the      *)
(* bundle it points to may be of another version than it says; "crash":    *)
(* the power goes or a runner is killed, once, and leaves the file it was  *)
(* writing unusable; "disk": there may be no room to archive.              *)
Circumstances == {"back", "withdrawn", "mislabelled", "crash", "disk"}

ASSUME UpdaterConstants ==
  /\ MaxVersion \in Nat \ {0} /\ Keep \in Nat \ {0, 1}
  /\ Scenarios \subseteq SUBSET Circumstances
  /\ {None, Torn} \cap (0 .. MaxVersion) = {} /\ None # Torn
  /\ None \notin [Archived -> Versions \cup {Torn, None}]

(* The oneshot units: one to update, one to go back to each version.       *)
Update == 0
Runners == {Update} \cup Versions

VARIABLES
  scenario,     \* the scenario of this behaviour; never changes
  latest,       \* the version the manifest names
  process,      \* the version of the running agent; Torn: none runs
  installed,    \* the version of each part on disk
  index,        \* versions/index.json, the latest archived first
  dir,          \* versions/<v>: the version of each part in it
  tarball, sig, \* the staged files
  download,     \* where each request is, and the version it fetches
  at,           \* where each runner is
  lock,         \* the runner that holds .install.lock
  target,       \* what each runner installs
  previous,     \* history variable: the version before the latest change
  crashed

vars == <<scenario, latest, process, installed, index, dir, tarball, sig,
          download, at, lock, target, previous, crashed>>

Places == {"off", "started", "check", "unpack", "archive", "keep agent",
           "keep ui", "index", "prune", "agent", "helper", "ui", "restart",
           "clean"}
NoDownload == [at |-> "idle", version |-> None]

TypeOK ==
  /\ scenario \in Scenarios /\ latest \in Versions
  /\ process \in Versions \cup {Torn}
  /\ installed \in [Parts -> Versions \cup {Torn}]
  /\ index \in Seq(Versions) /\ Len(index) <= Keep /\ IsInjective(index)
  /\ dir \in [Versions -> [Archived -> Versions \cup {Torn, None}] \cup {None}]
  /\ tarball \in Versions \cup {None, Torn} /\ sig \in Versions \cup {None}
  /\ download \in [Downloads -> [at : {"idle", "fetched", "writing", "signing"},
                                 version : Versions \cup {None}]]
  /\ at \in [Runners -> Places]
  /\ lock \in Runners \cup {None}
  /\ target \in [Runners -> Versions \cup {None}]
  /\ previous \in Versions \cup {None} /\ crashed \in BOOLEAN

Init ==
  /\ scenario \in Scenarios /\ latest = 1 /\ process = 1
  /\ installed = [p \in Parts |-> 1] /\ index = <<>>
  /\ dir = [v \in Versions |-> None] /\ tarball = None /\ sig = None
  /\ download = [d \in Downloads |-> NoDownload]
  /\ at = [r \in Runners |-> "off"] /\ lock = None
  /\ target = [r \in Runners |-> IF r = Update THEN None ELSE r]
  /\ previous = None /\ crashed = FALSE

-----------------------------------------------------------------------------
(* A new release, or one withdrawn.                                        *)
Release ==
  /\ latest' \in (IF "withdrawn" \in scenario THEN Versions ELSE {latest + 1})
  /\ latest' <= MaxVersion
  /\ UNCHANGED <<scenario, process, installed, index, dir, tarball, sig,
                 download, at, lock, target, previous, crashed>>

(* handleUpdateDownload: nothing that the manifest says is older than the  *)
(* running agent; what is fetched is verified before it is written, but    *)
(* the signature is of the bundle alone and nobody reads its version.      *)
AnyVersion(v) == TRUE
NotOlder(v) == v >= process

Staging == UNCHANGED <<scenario, latest, process, installed, index, dir, at,
                       lock, target, previous, crashed>>

Fetch(d, bundle) ==
  /\ process \in Versions /\ download[d].at = "idle" /\ NotOlder(latest)
  /\ bundle = latest \/ "mislabelled" \in scenario
  /\ download' = [download EXCEPT ![d] = [at |-> "fetched", version |-> bundle]]
  /\ Staging /\ UNCHANGED <<tarball, sig>>

BeginTarball(d) ==
  /\ download[d].at = "fetched" /\ tarball' = Torn
  /\ download' = [download EXCEPT ![d].at = "writing"]
  /\ Staging /\ UNCHANGED sig

EndTarball(d) ==
  /\ download[d].at = "writing" /\ tarball' = download[d].version
  /\ download' = [download EXCEPT ![d].at = "signing"]
  /\ Staging /\ UNCHANGED sig

WriteSig(d) ==
  /\ download[d].at = "signing" /\ sig' = download[d].version
  /\ download' = [download EXCEPT ![d] = NoDownload]
  /\ Staging /\ UNCHANGED tarball

(* handleUpdateApply, handleRollbackVersion: a unit that runs already is   *)
(* not started again.                                                      *)
Verified == tarball \in Versions /\ tarball = sig

Requests == UNCHANGED <<scenario, latest, process, installed, index, dir,
                        tarball, sig, download, lock, target, previous, crashed>>

Apply ==
  /\ process \in Versions /\ Verified /\ at[Update] = "off"
  /\ at' = [at EXCEPT ![Update] = "started"] /\ Requests

Rollback(v) ==
  /\ "back" \in scenario /\ process \in Versions
  /\ v # process /\ v \in ToSet(index) /\ at[v] = "off"
  /\ at' = [at EXCEPT ![v] = "started"] /\ Requests

-----------------------------------------------------------------------------
(* The runners.                                                            *)
GoTo(r, place) == at' = [at EXCEPT ![r] = place]
Exit(r) == GoTo(r, "off") /\ lock' = None

LockIgnored == TRUE
LockIsFree == lock = None

TakeLock(r) ==
  /\ at[r] = "started"
  /\ IF LockIsFree THEN lock' = r /\ GoTo(r, "check")
                   ELSE GoTo(r, "off") /\ UNCHANGED lock
  /\ UNCHANGED <<scenario, latest, process, installed, index, dir, tarball, sig,
                 download, target, previous, crashed>>

(* The installed agent verifies the staged files; those that do not verify *)
(* are removed, and all of them when that agent does not run.              *)
Old == installed["agent"]
VerifiedByRoot == Verified /\ Old \in Versions

CheckUpdate ==
  /\ at[Update] = "check"
  /\ \/ VerifiedByRoot /\ GoTo(Update, "unpack") /\ UNCHANGED <<lock, tarball, sig>>
     \/ /\ None \in {tarball, sig}
        /\ Exit(Update) /\ UNCHANGED <<tarball, sig>>
     \/ /\ ~VerifiedByRoot /\ None \notin {tarball, sig}
        /\ Exit(Update) /\ tarball' = None /\ sig' = None
  /\ UNCHANGED <<scenario, latest, process, installed, index, dir, download,
                 target, previous, crashed>>

Unpack ==
  /\ at[Update] = "unpack"
  /\ IF tarball = Torn
     THEN Exit(Update) /\ UNCHANGED target
     ELSE /\ target' = [target EXCEPT ![Update] = tarball]
          /\ GoTo(Update, "archive") /\ UNCHANGED lock
  /\ UNCHANGED <<scenario, latest, process, installed, index, dir, tarball, sig,
                 download, previous, crashed>>

CheckRollback(v) ==
  /\ at[v] = "check"
  /\ IF dir[v] # None /\ v \in ToSet(index) /\ Old # v
     THEN GoTo(v, "archive") /\ UNCHANGED lock
     ELSE Exit(v)
  /\ UNCHANGED <<scenario, latest, process, installed, index, dir, tarball, sig,
                 download, target, previous, crashed>>

(* archive_current_version: skipped when the installed agent does not say  *)
(* its version, for the same version and without room; else one part after *)
(* the other is written over what the directory holds.                     *)
ArchiveBegin(r) ==
  /\ at[r] = "archive"
  /\ \/ /\ Old \notin Versions \/ Old = target[r] \/ "disk" \in scenario
        /\ GoTo(r, "agent") /\ UNCHANGED dir
     \/ /\ Old \in Versions /\ Old # target[r] /\ GoTo(r, "keep agent")
        /\ dir' = IF dir[Old] # None THEN dir
                  ELSE [dir EXCEPT ![Old] = [p \in Archived |-> None]]
  /\ UNCHANGED <<scenario, latest, process, installed, index, tarball, sig,
                 download, lock, target, previous, crashed>>

KeepPlace(p) == IF p = "agent" THEN "keep agent" ELSE "keep ui"

ArchiveCopy(r, p) ==
  /\ at[r] = KeepPlace(p)
  /\ GoTo(r, IF p = "agent" THEN "keep ui" ELSE "index")
  /\ dir' = [dir EXCEPT ![Old][p] = installed[p]]
  /\ UNCHANGED <<scenario, latest, process, installed, index, tarball, sig,
                 download, lock, target, previous, crashed>>

(* _index_add_and_prune: the outgoing version first, the Keep latest kept. *)
(* Without is map(select(.version != $v)), as a function over the entries  *)
(* seen so far.                                                            *)
Others(s, v) ==
  LET others[i \in 0 .. Len(s)] ==
        IF i = 0 THEN << >>
        ELSE IF s[i] = v THEN others[i - 1] ELSE Append(others[i - 1], s[i])
  IN  others
Without(s, v) == Others(s, v)[Len(s)]

First(s, n) == SubSeq(s, 1, IF Len(s) < n THEN Len(s) ELSE n)
AddedUncut(v) == <<v>> \o Without(index, v)
Added(v) == First(<<v>> \o Without(index, v), Keep)

ArchiveIndex(r) ==
  /\ at[r] = "index" /\ index' = Added(Old) /\ GoTo(r, "prune")
  /\ UNCHANGED <<scenario, latest, process, installed, dir, tarball, sig,
                 download, lock, target, previous, crashed>>

KeptOneLess == ToSet(First(index, Keep - 1))
Kept == ToSet(index)

ArchivePrune(r) ==
  /\ at[r] = "prune" /\ GoTo(r, "agent")
  /\ dir' = [v \in Versions |-> IF v \in Kept THEN dir[v] ELSE None]
  /\ UNCHANGED <<scenario, latest, process, installed, index, tarball, sig,
                 download, lock, target, previous, crashed>>

(* Copying, one part after the other.  What is not in an archived version  *)
(* is left as it is.                                                       *)
InstallOrder == <<"agent", "helper", "ui", "restart">>
After(place) == InstallOrder[1 + CHOOSE i \in 1 .. 3 : InstallOrder[i] = place]

IsArchived(v, p) == p \in Archived /\ dir[v] # None /\ dir[v][p] # None
ArchivedPart(v, p) == IF IsArchived(v, p) THEN dir[v][p] ELSE installed[p]
NewPart(r, p) ==
  IF r = Update THEN target[r] ELSE ArchivedPart(r, p)

Install(r, p) ==
  /\ at[r] = p /\ GoTo(r, After(p))
  /\ installed' = [installed EXCEPT ![p] = NewPart(r, p)]
  /\ previous' = IF Old \in Versions /\ installed'["agent"] # Old
                 THEN Old ELSE previous
  /\ UNCHANGED <<scenario, latest, process, index, dir, tarball, sig, download,
                 lock, target, crashed>>

(* The new agent starts; downloads of the old one are gone.                *)
StartsAgent(version) == process' = version
                        /\ download' = [d \in Downloads |-> NoDownload]

RestartAgent(r) ==
  /\ at[r] = "restart" /\ GoTo(r, "clean") /\ StartsAgent(Old)
  /\ UNCHANGED <<scenario, latest, installed, index, dir, tarball, sig, lock,
                 target, previous, crashed>>

Clean(r) ==
  /\ at[r] = "clean" /\ Exit(r)
  /\ IF r = Update THEN tarball' = None /\ sig' = None
                     ELSE UNCHANGED <<tarball, sig>>
  /\ UNCHANGED <<scenario, latest, process, installed, index, dir, download,
                 target, previous, crashed>>

(* The power goes, or TimeoutStartSec ends the run that holds the lock.    *)
(* The copy that is being made, if any, may be left cut short: an archived *)
(* part (which may also be gone) or an installed one.                      *)
WholeCopies == UNCHANGED <<dir, installed>>
CutArchiving ==
  \E p \in Archived, left \in {Torn, None} :
    /\ at[lock] = KeepPlace(p)
    /\ dir' = [dir EXCEPT ![Old][p] = left] /\ UNCHANGED installed
CutInstalling ==
  \E p \in Parts :
    /\ at[lock] = p /\ (lock # Update => IsArchived(lock, p))
    /\ installed' = [installed EXCEPT ![p] = Torn] /\ UNCHANGED dir

Crash ==
  /\ "crash" \in scenario /\ ~crashed /\ crashed' = TRUE
  /\ WholeCopies \/ (lock # None /\ (CutArchiving \/ CutInstalling))
  /\ \/ at' = [r \in Runners |-> "off"] /\ StartsAgent(installed'["agent"])
     \/ /\ lock # None /\ GoTo(lock, "off") /\ UNCHANGED <<process, download>>
  /\ lock' = None
  /\ UNCHANGED <<scenario, latest, index, tarball, sig, target, previous>>

RunnerStep(r) ==
  \/ TakeLock(r) \/ ArchiveBegin(r) \/ ArchiveIndex(r) \/ ArchivePrune(r)
  \/ \E p \in Archived : ArchiveCopy(r, p)
  \/ \E p \in Parts : Install(r, p)
  \/ RestartAgent(r) \/ Clean(r)

Next ==
  \/ Release \/ Crash
  \/ \E d \in Downloads :
       \/ \E bundle \in Versions : Fetch(d, bundle)
       \/ BeginTarball(d) \/ EndTarball(d) \/ WriteSig(d)
  \/ Apply \/ CheckUpdate \/ Unpack
  \/ \E v \in Versions : Rollback(v) \/ CheckRollback(v)
  \/ \E r \in Runners : RunnerStep(r)

Spec == Init /\ [][Next]_vars

-----------------------------------------------------------------------------
Quiet == lock = None /\ ~crashed

(* Every version the administrator is shown is there to go back to, also   *)
(* when a run was cut short: what that leaves unusable can only be the     *)
(* entry of the version that is installed, which is archived again before  *)
(* it is left, unless there is no room.  Without a crash every entry is    *)
(* whole, agent and web UI of the same version.                            *)
ArchivedAgain == ~({"crash", "disk"} \subseteq scenario)

ListedIsThere ==
  ArchivedAgain =>
    \A v \in ToSet(index) :
      /\ dir[v] # None
      /\ v # Old => dir[v]["agent"] = v
      /\ ~crashed => dir[v]["agent"] = v /\ dir[v]["ui"] = v

(* Between runs the agent on disk, the running one and the web UI are of   *)
(* one version, whatever was requested at the same time.                   *)
OneVersion ==
  Quiet => installed["agent"] = process /\ installed["ui"] = process

(* After a change of version the one before it is among those listed, and  *)
(* what is listed is there.                                                *)
CanGoBack ==
  /\ ListedIsThere
  /\ Quiet /\ "disk" \notin scenario /\ previous # None => previous \in ToSet(index)

(* A run that comes to its end has installed what was asked for, unless    *)
(* archiving the outgoing version has pushed that out of the archive.      *)
ArrivesIfKept ==
  ArchivedAgain =>
    \A r \in Runners : at[r] = "clean" =>
      \/ installed["agent"] = target[r]
      \/ r # Update /\ dir[r] = None

(* Changing the version works, there and back.                             *)
VersionsAreSound == OneVersion /\ CanGoBack /\ ArrivesIfKept

(* An update never installs an earlier version than the one it replaces,   *)
(* whatever the manifest names as long as it names what the bundle holds,  *)
(* though the two are compared when the download starts and not when it is *)
(* installed: downloads of the replaced agent end with it, and what they   *)
(* have staged is removed.                                                 *)
UpdateNeverDowngrades ==
  [][at[Update] = "agent" /\ at'[Update] = "helper" /\ ~crashed
       /\ "mislabelled" \notin scenario
       /\ ~({"back", "withdrawn"} \subseteq scenario)
       => installed'["agent"] >= installed["agent"]]_vars

-----------------------------------------------------------------------------
(* Promises that the code does not keep.                                   *)

(* Every version that is listed can be gone back to.  Going back to the    *)
(* oldest of a full list archives the running version, which removes the   *)
(* one asked for; the copies that follow find nothing and are skipped.     *)
Arrives ==
  \A r \in Runners : at[r] = "clean" => installed["agent"] = target[r]

(* Nor does a bundle that the manifest takes for another one.              *)
NeverDowngrades ==
  [][at[Update] = "agent" /\ at'[Update] = "helper" /\ ~crashed
       /\ ~({"back", "withdrawn"} \subseteq scenario)
       => installed'["agent"] >= installed["agent"]]_vars

(* A listed version is there also when a run was cut short and the next    *)
(* found no room to archive again.                                         *)
ListedIsThereAlways ==
  \A v \in ToSet(index) : dir[v] # None /\ (v # Old => dir[v]["agent"] = v)

(* An archived version is the whole installation: the network helper stays *)
(* at the version that is left.                                            *)
WholeInstallation == Quiet => installed["helper"] = installed["agent"]
=============================================================================
