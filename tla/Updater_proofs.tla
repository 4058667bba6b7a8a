--------------------------- MODULE Updater_proofs ---------------------------
(***************************************************************************)
(* Proofs about Updater, for any number of versions and downloads, and any *)
(* length of the archive from two on.                                      *)
(***************************************************************************)
EXTENDS Updater, SequenceTheorems, WellFoundedInduction, TLAPS

-----------------------------------------------------------------------------
(* Induction over the natural numbers, for a set rather than a predicate.  *)
Less == {ss \in Nat \X Nat : ss[1] < ss[2]}

LEMMA LessIsWellFounded == IsWellFoundedOn(Less, Nat)
  BY NatLessThanWellFounded DEF OpToRel, Less

(* A set that holds 0 and, with a number, the next one holds them all.     *)
LEMMA InductiveSet ==
  ASSUME NEW S, 0 \in S, \A n \in Nat : n \in S => n + 1 \in S
  PROVE  Nat \subseteq S
<1> SUFFICES ASSUME Nat \ S # {} PROVE FALSE
  OBVIOUS
<1>1. PICK m \in Nat \ S : \A n \in Nat \ S : <<n, m>> \notin Less
  <2>1. Nat \ S \subseteq Nat
    OBVIOUS
  <2> QED
    BY <2>1, LessIsWellFounded, WFMin
<1>2. \A n \in Nat \ S : ~(n < m)
  BY <1>1 DEF Less
<1>3. m # 0 /\ m - 1 \in Nat /\ m - 1 < m
  BY <1>1
<1> QED
  BY <1>1, <1>2, <1>3

-----------------------------------------------------------------------------
(* f is what Others computes for the first n entries of s.                 *)
KeptUpTo(f, s, v, n) ==
  f = [i \in 0 .. n |->
         IF i = 0 THEN << >>
         ELSE IF s[i] = v THEN f[i - 1] ELSE Append(f[i - 1], s[i])]

(* Its recursion defines a function.                                       *)
LEMMA OthersDefined ==
  ASSUME NEW V, NEW s \in Seq(V), NEW v
  PROVE  KeptUpTo(Others(s, v), s, v, Len(s))
<1> DEFINE S == {n \in Nat : \E f : KeptUpTo(f, s, v, n)}
<1>1. 0 \in S
  <2>1. KeptUpTo([i \in 0 .. 0 |-> << >>], s, v, 0)
    BY DEF KeptUpTo
  <2> QED
    BY <2>1
<1>2. ASSUME NEW n \in Nat, n \in S PROVE n + 1 \in S
  <2>1. PICK f : KeptUpTo(f, s, v, n)
    BY <1>2
  <2> DEFINE next(g, i) == IF i = 0 THEN << >>
                           ELSE IF s[i] = v THEN g[i - 1]
                           ELSE Append(g[i - 1], s[i])
             g == [i \in 0 .. n + 1 |-> IF i <= n THEN f[i] ELSE next(f, i)]
  <2>2. ASSUME NEW i \in 0 .. n + 1 PROVE g[i] = next(g, i)
    <3>1. CASE i <= n
      <4>1. i \in 0 .. n /\ (i = 0 \/ i - 1 \in 0 .. n)
        BY <3>1
      <4>2. f[i] = next(f, i)
        BY <2>1, <4>1 DEF KeptUpTo
      <4>3. g[i] = f[i] /\ (i # 0 => g[i - 1] = f[i - 1])
        BY <3>1, <4>1
      <4> QED
        BY <4>2, <4>3
    <3>2. CASE i = n + 1
      BY <3>2
    <3> QED
      BY <3>1, <3>2
  <2>3. KeptUpTo(g, s, v, n + 1)
    BY <2>2, Zenon DEF KeptUpTo
  <2> QED
    BY <2>3
<1>3. Nat \subseteq S
  <2> HIDE DEF S
  <2> QED
    BY <1>1, <1>2, InductiveSet
<1>4. \E f : KeptUpTo(f, s, v, Len(s))
  BY <1>3, LenProperties
<1> QED
  BY <1>4 DEF Others, KeptUpTo

(* What is kept of the first n entries: the others, once each if each is   *)
(* there once, and in their order.                                         *)
KeptWell(w, s, v, n) ==
  /\ w \in Seq(ToSet(s)) /\ Len(w) <= n
  /\ \A i \in 1 .. Len(w) : \E j \in 1 .. n : w[i] = s[j] /\ s[j] # v
  /\ IsInjective(s) => IsInjective(w)
  /\ n >= 1 /\ s[1] # v => Len(w) >= 1 /\ w[1] = s[1]
  /\ n >= 2 /\ s[1] = v /\ s[2] # v => Len(w) >= 1 /\ w[1] = s[2]

LEMMA OthersKept ==
  ASSUME NEW V, NEW s \in Seq(V), NEW v
  PROVE  KeptWell(Without(s, v), s, v, Len(s))
<1> DEFINE f == Others(s, v)
           S == {n \in Nat : n <= Len(s) => KeptWell(f[n], s, v, n)}
<1>0. Len(s) \in Nat /\ DOMAIN s = 1 .. Len(s)
  BY LenProperties
<1>1. KeptUpTo(f, s, v, Len(s))
  BY OthersDefined
<1> HIDE DEF f
<1>2. 0 \in S
  <2>1. f[0] = << >>
    BY <1>0, <1>1 DEF KeptUpTo
  <2>2. << >> \in Seq(ToSet(s)) /\ Len(<< >>) = 0 /\ DOMAIN << >> = {}
    BY EmptySeq, LenProperties
  <2>3. KeptWell(<< >>, s, v, 0)
    BY <2>2 DEF KeptWell, IsInjective
  <2> QED
    BY <2>1, <2>3
<1>3. ASSUME NEW n \in Nat, n \in S PROVE n + 1 \in S
  <2> SUFFICES ASSUME n + 1 <= Len(s)
               PROVE  KeptWell(f[n + 1], s, v, n + 1)
    OBVIOUS
  <2> DEFINE w == f[n]
  <2>1. KeptWell(w, s, v, n) /\ n + 1 \in 1 .. Len(s)
    BY <1>0, <1>3
  <2>2. f[n + 1] = IF s[n + 1] = v THEN w ELSE Append(w, s[n + 1])
    <3>1. n + 1 \in 0 .. Len(s) /\ n + 1 # 0 /\ (n + 1) - 1 = n
      BY <1>0, <2>1
    <3> QED
      BY <1>1, <3>1 DEF KeptUpTo
  <2>3. CASE s[n + 1] = v
    <3>1. ASSUME NEW i \in 1 .. Len(w)
          PROVE  \E j \in 1 .. n + 1 : w[i] = s[j] /\ s[j] # v
      <4>1. PICK j \in 1 .. n : w[i] = s[j] /\ s[j] # v
        BY <2>1 DEF KeptWell
      <4>2. j \in 1 .. n + 1
        OBVIOUS
      <4> QED
        BY <4>1, <4>2
    <3>2. /\ n + 1 >= 1 /\ s[1] # v => Len(w) >= 1 /\ w[1] = s[1]
          /\ n + 1 >= 2 /\ s[1] = v /\ s[2] # v => Len(w) >= 1 /\ w[1] = s[2]
      BY <2>1, <2>3 DEF KeptWell
    <3>3. Len(w) <= n + 1
      BY <2>1, LenProperties DEF KeptWell
    <3> QED
      BY <2>1, <2>2, <2>3, <3>1, <3>2, <3>3 DEF KeptWell
  <2>4. CASE s[n + 1] # v
    <3> DEFINE x == Append(w, s[n + 1])
    <3>1. s[n + 1] \in ToSet(s)
      BY <1>0, <2>1 DEF ToSet
    <3>2. /\ x \in Seq(ToSet(s)) /\ Len(x) = Len(w) + 1
          /\ \A i \in 1 .. Len(w) : x[i] = w[i]
          /\ x[Len(w) + 1] = s[n + 1] /\ Len(w) \in Nat
      BY <2>1, <3>1, AppendProperties, LenProperties DEF KeptWell
    <3>3. ASSUME NEW i \in 1 .. Len(x)
          PROVE  \E j \in 1 .. n + 1 : x[i] = s[j] /\ s[j] # v
      <4>1. CASE i = Len(w) + 1
        BY <2>4, <3>2, <4>1
      <4>2. CASE i # Len(w) + 1
        <5>1. i \in 1 .. Len(w)
          BY <3>2, <4>2
        <5>2. PICK j \in 1 .. n : w[i] = s[j] /\ s[j] # v
          BY <2>1, <5>1 DEF KeptWell
        <5>3. j \in 1 .. n + 1 /\ x[i] = s[j]
          BY <3>2, <5>1, <5>2
        <5> QED
          BY <5>2, <5>3
      <4> QED
        BY <4>1, <4>2
    <3>4. ASSUME IsInjective(s) PROVE IsInjective(x)
      <4>1. ASSUME NEW i \in 1 .. Len(w) PROVE x[i] # x[Len(w) + 1]
        <5>1. PICK j \in 1 .. n : w[i] = s[j] /\ s[j] # v
          BY <2>1 DEF KeptWell
        <5>2. j # n + 1 /\ j \in DOMAIN s /\ n + 1 \in DOMAIN s
          BY <1>0, <2>1
        <5>3. s[j] # s[n + 1]
          BY <3>4, <5>2 DEF IsInjective
        <5> QED
          BY <3>2, <5>1, <5>3
      <4>2. DOMAIN x = 1 .. Len(w) + 1 /\ DOMAIN w = 1 .. Len(w)
        BY <2>1, <3>2, LenProperties DEF KeptWell
      <4>3. IsInjective(w)
        BY <2>1, <3>4 DEF KeptWell
      <4> HIDE DEF x
      <4>4. ASSUME NEW a \in DOMAIN x, NEW b \in DOMAIN x, x[a] = x[b] PROVE a = b
        <5>1. CASE a \in 1 .. Len(w) /\ b \in 1 .. Len(w)
          <6>1. w[a] = w[b]
            BY <3>2, <4>4, <5>1
          <6> QED
            BY <4>2, <4>3, <5>1, <6>1 DEF IsInjective
        <5>2. ASSUME NEW i \in DOMAIN x, i \notin 1 .. Len(w) PROVE i = Len(w) + 1
          BY <3>2, <4>2, <5>2
        <5> QED
          BY <4>1, <4>4, <5>1, <5>2
      <4> QED
        BY <4>4 DEF IsInjective
    <3>5. /\ n + 1 >= 1 /\ s[1] # v => Len(x) >= 1 /\ x[1] = s[1]
          /\ n + 1 >= 2 /\ s[1] = v /\ s[2] # v => Len(x) >= 1 /\ x[1] = s[2]
      BY <2>1, <2>4, <3>2 DEF KeptWell
    <3>6. x \in Seq(ToSet(s)) /\ Len(x) <= n + 1
      BY <2>1, <3>2 DEF KeptWell
    <3> QED
      BY <2>2, <2>4, <3>3, <3>4, <3>5, <3>6 DEF KeptWell
  <2> QED
    BY <2>3, <2>4
<1>4. Len(s) \in S
  <2> HIDE DEF S
  <2> QED
    BY <1>0, <1>2, <1>3, InductiveSet
<1> QED
  BY <1>0, <1>4 DEF Without, f

(* The list after archiving v: v first, then what was there, in its order. *)
LEMMA AddedKept ==
  ASSUME index \in Seq(Versions), IsInjective(index), NEW v \in Versions
  PROVE  /\ Added(v) \in Seq(Versions) /\ Len(Added(v)) \in 1 .. Keep
         /\ IsInjective(Added(v)) /\ Added(v)[1] = v
         /\ \A u \in ToSet(Added(v)) : u = v \/ u \in ToSet(index)
         /\ Len(index) >= 1 /\ index[1] # v =>
              Len(Added(v)) >= 2 /\ Added(v)[2] = index[1]
         /\ Len(index) >= 2 /\ index[1] = v =>
              Len(Added(v)) >= 2 /\ Added(v)[2] = index[2]
<1> DEFINE w == Without(index, v)
           s == <<v>> \o w
           n == IF Len(s) < Keep THEN Len(s) ELSE Keep
<1>1. KeptWell(w, index, v, Len(index))
  BY OthersKept
<1> HIDE DEF w
<1>2. Len(index) \in Nat /\ DOMAIN index = 1 .. Len(index)
  BY LenProperties
<1>3. ToSet(index) \subseteq Versions
  BY <1>2, ElementOfSeq DEF ToSet
<1>4. w \in Seq(Versions) /\ Len(w) \in Nat /\ DOMAIN w = 1 .. Len(w)
  BY <1>1, <1>3, SeqMonotonic, LenProperties DEF KeptWell
<1>5. /\ s \in Seq(Versions) /\ Len(s) = Len(w) + 1 /\ s[1] = v
      /\ \A i \in 1 .. Len(w) : s[i + 1] = w[i]
  <2>1. <<v>> \in Seq(Versions) /\ Len(<<v>>) = 1 /\ <<v>>[1] = v
    OBVIOUS
  <2> QED
    BY <1>4, <2>1, ConcatProperties
<1> HIDE DEF s
<1>6. n \in 1 .. Keep /\ n <= Len(s)
  BY <1>4, <1>5, UpdaterConstants
<1>7. /\ Added(v) \in Seq(Versions) /\ Len(Added(v)) = n
      /\ \A i \in 1 .. n : Added(v)[i] = s[i]
  BY <1>4, <1>5, <1>6, SubSeqProperties DEF Added, First, s, w
<1>8. ASSUME NEW i \in 2 .. n
      PROVE  i - 1 \in 1 .. Len(w) /\ Added(v)[i] = w[i - 1]
  <2>1. i \in 1 .. n /\ i - 1 \in 1 .. Len(w) /\ (i - 1) + 1 = i
    BY <1>4, <1>5, <1>6
  <2> QED
    BY <1>5, <1>7, <2>1
<1>9. ASSUME NEW i \in 2 .. n
      PROVE  Added(v)[i] # v /\ Added(v)[i] \in ToSet(index)
  <2>1. PICK j \in 1 .. Len(index) : w[i - 1] = index[j] /\ index[j] # v
    BY <1>1, <1>8 DEF KeptWell
  <2> QED
    BY <1>2, <1>8, <2>1 DEF ToSet
<1>10. Added(v)[1] = v /\ DOMAIN Added(v) = 1 .. n
  BY <1>5, <1>6, <1>7, LenProperties
<1>11. ASSUME NEW i \in 1 .. n PROVE i = 1 \/ i \in 2 .. n
  BY <1>6
<1>12. IsInjective(Added(v))
  <2>1. ASSUME NEW i \in 2 .. n, NEW j \in 2 .. n, Added(v)[i] = Added(v)[j]
        PROVE  i = j
    <3>1. w[i - 1] = w[j - 1] /\ {i - 1, j - 1} \subseteq DOMAIN w
      BY <1>4, <1>8, <2>1
    <3>2. IsInjective(w)
      BY <1>1 DEF KeptWell
    <3>3. i - 1 = j - 1
      BY <3>1, <3>2 DEF IsInjective
    <3> QED
      BY <3>3
  <2> QED
    BY <1>9, <1>10, <1>11, <2>1 DEF IsInjective
<1>13. \A u \in ToSet(Added(v)) : u = v \/ u \in ToSet(index)
  BY <1>9, <1>10, <1>11 DEF ToSet
<1>14. ASSUME Len(w) >= 1
       PROVE  Len(Added(v)) >= 2 /\ Added(v)[2] = w[1]
  <2>1. n >= 2 /\ 2 \in 2 .. n
    BY <1>4, <1>5, <1>14, UpdaterConstants
  <2> QED
    BY <1>7, <1>8, <2>1
<1>15. Len(index) >= 1 /\ index[1] # v => Len(w) >= 1 /\ w[1] = index[1]
  BY <1>1 DEF KeptWell
<1>16. ASSUME Len(index) >= 2, index[1] = v
       PROVE  Len(w) >= 1 /\ w[1] = index[2]
  <2>1. index[2] # v
    BY <1>2, <1>16 DEF IsInjective
  <2> QED
    BY <1>1, <1>16, <2>1 DEF KeptWell
<1> QED
  BY <1>6, <1>7, <1>10, <1>12, <1>13, <1>14, <1>15, <1>16

(* The order in which the parts are installed.                             *)
LEMMA InstallOrderIs ==
  ASSUME NEW r, NEW p \in Parts, Install(r, p)
  PROVE  \/ p = "agent" /\ at[r] = "agent" /\ GoTo(r, "helper")
         \/ p = "helper" /\ at[r] = "helper" /\ GoTo(r, "ui")
         \/ p = "ui" /\ at[r] = "ui" /\ GoTo(r, "restart")
<1>1. \A i \in 1 .. 3 : i = 1 \/ i = 2 \/ i = 3
  OBVIOUS
<1>2. After("agent") = "helper"
  <2>1. (CHOOSE i \in 1 .. 3 : InstallOrder[i] = "agent") = 1
    BY <1>1 DEF InstallOrder
  <2> QED
    BY <2>1 DEF After, InstallOrder
<1>3. After("helper") = "ui"
  <2>1. (CHOOSE i \in 1 .. 3 : InstallOrder[i] = "helper") = 2
    BY <1>1 DEF InstallOrder
  <2> QED
    BY <2>1 DEF After, InstallOrder
<1>4. After("ui") = "restart"
  <2>1. (CHOOSE i \in 1 .. 3 : InstallOrder[i] = "ui") = 3
    BY <1>1 DEF InstallOrder
  <2> QED
    BY <2>1 DEF After, InstallOrder
<1> QED
  BY <1>2, <1>3, <1>4 DEF Install, Parts

-----------------------------------------------------------------------------
(* The runners exclude each other: past the lock, a runner holds it.  What *)
(* it installs is known from the unpacking or the request on, and is not   *)
(* what is installed already when that is archived.  Downloads fetch a     *)
(* version.                                                                *)
Installing == {"archive", "keep agent", "keep ui", "index", "prune", "agent",
               "helper", "ui", "restart", "clean"}

RunnersInv ==
  /\ \A r \in Runners : at[r] \notin {"off", "started"} <=> lock = r
  /\ \A v \in Versions : at[v] # "unpack" /\ target[v] = v
  /\ at[Update] = "unpack" => tarball # None
  /\ at[Update] \in Installing => target[Update] \in Versions
  /\ \A v \in Versions :
       at[v] \in {"archive", "keep agent", "keep ui", "index", "prune", "agent"} =>
         Old # v
  /\ \A r \in Runners :
       at[r] \in {"keep agent", "keep ui", "index", "prune"} =>
         Old # target[r] /\ Old \in Versions
  /\ \A d \in Downloads :
       download[d].at # "idle" => download[d].version \in Versions

(* What is listed is there, and whole as long as nothing was cut short;    *)
(* after that still an agent of that version, but for the installed one,   *)
(* and that also while it is archived again and left.                      *)
Sound == ~crashed \/ ArchivedAgain

ListInv ==
  /\ crashed => "crash" \in scenario
  /\ \A v \in ToSet(index) : dir[v] # None
  /\ ~crashed =>
       \A v \in ToSet(index) : dir[v]["agent"] = v /\ dir[v]["ui"] = v
  /\ Sound => \A v \in ToSet(index) : v # Old => dir[v]["agent"] = v

Copying == {"archive", "keep agent", "keep ui", "index", "prune", "agent",
            "helper", "ui"}

RunInv(r) ==
  /\ at[r] \in {"keep agent", "keep ui", "index"} => dir[Old] # None
  /\ Sound =>
       /\ at[r] \in {"keep ui", "index"} => dir[Old]["agent"] = Old
       /\ at[r] \in {"prune", "agent"} /\ Old # target[r] /\ Old \in ToSet(index) =>
            dir[Old]["agent"] = Old
       /\ r # Update /\ at[r] \in Copying /\ dir[r] # None =>
            dir[r]["agent"] = r
  /\ ~crashed =>
       /\ at[r] = "index" => dir[Old]["ui"] = Old
       /\ r # Update /\ at[r] \in Copying /\ dir[r] # None => dir[r]["ui"] = r

ArchiveInv == ListInv /\ \A r \in Runners : RunInv(r)

(* How far the parts on disk and the running agent have come.              *)
PartsInv ==
  /\ ~crashed =>
       /\ process \in Versions /\ Old \in Versions
       /\ lock = None =>
            installed["agent"] = process /\ installed["ui"] = process
       /\ \A r \in Runners :
            /\ at[r] \in {"check", "unpack", "archive", "keep agent",
                          "keep ui", "index", "prune", "agent"} =>
                 installed["agent"] = process /\ installed["ui"] = process
            /\ at[r] \in {"helper", "ui"} =>
                 /\ installed["ui"] = process
                 /\ r # Update /\ dir[r] = None => installed["agent"] = process
            /\ at[r] \in {"restart", "clean"} =>
                 installed["ui"] = installed["agent"]
            /\ at[r] = "clean" => process = installed["agent"]
  /\ Sound =>
       \A r \in Runners : at[r] \in {"helper", "ui", "restart", "clean"} =>
         installed["agent"] = target[r] \/ (r # Update /\ dir[r] = None)

(* The version before the latest change stays first in the list, or second *)
(* behind the installed one, when that was archived for a change that did  *)
(* not come about.                                                         *)
BackInv ==
  /\ ~crashed => previous # Old
  /\ ~crashed /\ "disk" \notin scenario =>
       /\ previous # None =>
            \/ Len(index) >= 1 /\ index[1] = previous
            \/ Len(index) >= 2 /\ index[1] = Old /\ index[2] = previous
       /\ \A r \in Runners : at[r] \in {"prune", "agent"} /\ Old # target[r] =>
            Len(index) >= 1 /\ index[1] = Old

(* The versions that downloads are about to stage, and those there are.    *)
Fetching ==
  {download[d].version : d \in {e \in Downloads : download[e].at # "idle"}}
Present == {Old} \cup {v \in Versions : dir[v] # None}

(* As long as no release is withdrawn and every bundle is what the         *)
(* manifest says, nothing staged or about to be is older than anything     *)
(* there is, but while an update that has replaced the *)
(* agent has not yet restarted it and cleaned up.                          *)
GrowInv ==
  ~crashed /\ {"withdrawn", "mislabelled"} \cap scenario = {} =>
    /\ process <= latest /\ \A v \in Present : v <= latest
    /\ \A s \in Fetching : s <= latest
    /\ tarball \in Versions => tarball <= latest
    /\ at[Update] \in Installing => target[Update] <= latest
    /\ at[Update] \in {"archive", "keep agent", "keep ui", "index", "prune",
                         "agent"} =>
         \A v \in Present : v <= target[Update]
    /\ at[Update] \notin {"helper", "ui", "restart"} =>
         \A v \in Present, s \in Fetching : v <= s
    /\ tarball \in Versions
         /\ at[Update] \notin {"helper", "ui", "restart", "clean"} =>
         \A v \in Present : v <= tarball

(* As long as nobody goes back, nothing staged or about to be is older     *)
(* than the running agent, but while an update has yet to clean up.        *)
StayInv ==
  ~crashed /\ {"back", "mislabelled"} \cap scenario = {} =>
    /\ \A v \in Versions : at[v] = "off"
    /\ \A s \in Fetching : process <= s
    /\ at[Update] # "clean" /\ tarball \in Versions => process <= tarball
    /\ at[Update] \in {"archive", "keep agent", "keep ui", "index", "prune",
                         "agent"} =>
         process <= target[Update]

IInv ==
  /\ TypeOK /\ RunnersInv /\ ArchiveInv /\ PartsInv /\ BackInv
  /\ GrowInv /\ StayInv

-----------------------------------------------------------------------------
(* Sets that the steps tell apart.                                         *)
LEMMA Distinct ==
  /\ Update \in Runners /\ Versions \subseteq Runners /\ Update \notin Versions
  /\ \A r \in Runners : r # Update => r \in Versions
  /\ None \notin Runners /\ Torn \notin Runners /\ None # Torn
  /\ 1 \in Versions /\ Versions \subseteq Nat /\ Torn \notin Versions
  BY UpdaterConstants DEF Update, Runners, Versions

(* What a crash leaves: no run, and one file more that is cut short.       *)
DirType == [Versions -> [Archived -> Versions \cup {Torn, None}] \cup {None}]

LEMMA EntryIsNotNone ==
  \A entry \in [Archived -> Versions \cup {Torn, None}] : entry # None
  BY UpdaterConstants

(* Writing one part of an entry that is there.                             *)
LEMMA EntryWritten ==
  ASSUME TypeOK, Old \in Versions, dir[Old] # None, NEW p \in Archived,
         NEW part \in Versions \cup {Torn, None},
         dir' = [dir EXCEPT ![Old][p] = part]
  PROVE  /\ dir' \in DirType /\ dir'[Old] # None /\ dir'[Old][p] = part
         /\ \A q \in Archived : q # p => dir'[Old][q] = dir[Old][q]
         /\ \A v \in Versions : v # Old => dir'[v] = dir[v]
<1> DEFINE entry == [dir[Old] EXCEPT ![p] = part]
<1>1. dir[Old] \in [Archived -> Versions \cup {Torn, None}]
  BY DEF TypeOK
<1>2. /\ entry \in [Archived -> Versions \cup {Torn, None}]
      /\ entry[p] = part /\ \A q \in Archived : q # p => entry[q] = dir[Old][q]
  BY <1>1
<1>3. entry # None
  BY <1>2, EntryIsNotNone
<1>4. dir' = [dir EXCEPT ![Old] = entry]
  OBVIOUS
<1> HIDE DEF entry
<1>5. /\ dir' \in DirType /\ dir'[Old] = entry
      /\ \A v \in Versions : v # Old => dir'[v] = dir[v]
  BY <1>2, <1>4 DEF TypeOK, DirType
<1> QED
  BY <1>2, <1>3, <1>5

Crashed ==
  /\ ~crashed /\ crashed' /\ "crash" \in scenario /\ lock' = None
  /\ \A r \in Runners : at'[r] \in {"off", "started"}
  /\ UNCHANGED <<scenario, latest, index, tarball, sig, target, previous>>
  /\ installed' \in [Parts -> Versions \cup {Torn}] /\ Old' \in {Old, Torn}
  /\ dir' \in DirType /\ \A v \in Versions :
       (v # Old => dir'[v] = dir[v]) /\ (dir[v] # None => dir'[v] # None)
  /\ dir' = dir \/ Old' = Old

LEMMA CrashEffect ==
  ASSUME TypeOK, RunnersInv, ArchiveInv, Crash PROVE Crashed
<1>1. /\ ~crashed /\ crashed' /\ "crash" \in scenario /\ lock' = None
      /\ UNCHANGED <<scenario, latest, index, tarball, sig, target, previous>>
  BY DEF Crash
<1>2. \A r \in Runners : at'[r] \in {"off", "started"}
  <2>1. CASE at' = [r \in Runners |-> "off"]
    BY <2>1
  <2>2. CASE lock # None /\ GoTo(lock, "off")
    <3>1. lock \in Runners
      BY <2>2 DEF TypeOK
    <3>2. /\ at'[lock] = "off"
          /\ \A r \in Runners : r # lock => at'[r] = at[r]
      BY <2>2, <3>1 DEF TypeOK, GoTo
    <3>3. \A r \in Runners : r # lock => at[r] \in {"off", "started"}
      BY DEF RunnersInv
    <3> QED
      BY <3>2, <3>3
  <2> QED
    BY <2>1, <2>2 DEF Crash
<1>3. CASE WholeCopies
  BY <1>1, <1>2, <1>3 DEF Crashed, WholeCopies, TypeOK, Old, DirType
<1>4. CASE lock # None /\ CutArchiving
  <2>1. PICK p \in Archived, left \in {Torn, None} :
          /\ at[lock] = KeepPlace(p) /\ UNCHANGED installed
          /\ dir' = [dir EXCEPT ![Old][p] = left]
    BY <1>4 DEF CutArchiving
  <2>2. lock \in Runners /\ at[lock] \in {"keep agent", "keep ui"}
    BY <1>4, <2>1 DEF TypeOK, KeepPlace
  <2>3. Old \in Versions /\ dir[Old] # None
    BY <2>2 DEF RunnersInv, ArchiveInv, RunInv
  <2>4. /\ dir' \in DirType /\ dir'[Old] # None
        /\ \A v \in Versions : v # Old => dir'[v] = dir[v]
    BY <2>1, <2>3, EntryWritten
  <2> QED
    BY <1>1, <1>2, <2>1, <2>4 DEF Crashed, TypeOK, Old
<1>5. CASE lock # None /\ CutInstalling
  <2>1. PICK p \in Parts :
          installed' = [installed EXCEPT ![p] = Torn] /\ UNCHANGED dir
    BY <1>5 DEF CutInstalling
  <2>2. installed' \in [Parts -> Versions \cup {Torn}] /\ Old' \in {Old, Torn}
    BY <2>1 DEF TypeOK, Old, Parts
  <2> QED
    BY <1>1, <1>2, <2>1, <2>2 DEF Crashed, TypeOK, DirType
<1> QED
  BY <1>3, <1>4, <1>5 DEF Crash

(* One runner moves; while it holds the lock the others wait.              *)
LEMMA GoToEffect ==
  ASSUME TypeOK, RunnersInv, NEW r \in Runners, NEW place, GoTo(r, place)
  PROVE  /\ \A q \in Runners : at'[q] = IF q = r THEN place ELSE at[q]
         /\ place \in Places => at' \in [Runners -> Places]
         /\ at[r] \notin {"off", "started"} =>
              lock = r /\ \A q \in Runners : q # r => at[q] \in {"off", "started"}
  BY DEF TypeOK, RunnersInv, GoTo

Moved(r, from, to) ==
  /\ at[r] \in from /\ at'[r] \in to
  /\ \A q \in Runners : q # r => at'[q] = at[q]
  /\ "off" \notin from /\ "started" \notin from =>
       lock = r /\ \A q \in Runners : q # r => at[q] \in {"off", "started"}

LEMMA MoveSteps ==
  ASSUME TypeOK, RunnersInv
  PROVE  /\ CheckUpdate => Moved(Update, {"check"}, {"unpack", "off"})
         /\ Unpack => Moved(Update, {"unpack"}, {"archive", "off"})
         /\ \A v \in Versions :
              CheckRollback(v) => Moved(v, {"check"}, {"archive", "off"})
         /\ \A r \in Runners :
              /\ TakeLock(r) => Moved(r, {"started"}, {"check", "off"})
              /\ ArchiveBegin(r) => Moved(r, {"archive"}, {"keep agent", "agent"})
              /\ \A p \in Archived : ArchiveCopy(r, p) =>
                   Moved(r, {"keep agent", "keep ui"}, {"keep ui", "index"})
              /\ ArchiveIndex(r) => Moved(r, {"index"}, {"prune"})
              /\ ArchivePrune(r) => Moved(r, {"prune"}, {"agent"})
              /\ RestartAgent(r) => Moved(r, {"restart"}, {"clean"})
              /\ Clean(r) => Moved(r, {"clean"}, {"off"})
         /\ Apply => Moved(Update, {"off"}, {"started"})
         /\ \A v \in Versions : Rollback(v) => Moved(v, {"off"}, {"started"})
<1>1. ASSUME NEW r \in Runners, NEW place, GoTo(r, place),
             NEW from, at[r] \in from, NEW to, place \in to
      PROVE  Moved(r, from, to)
  BY <1>1, GoToEffect DEF Moved
<1>2. CheckUpdate => Moved(Update, {"check"}, {"unpack", "off"})
  BY <1>1, Distinct DEF CheckUpdate, Exit
<1>3. Unpack => Moved(Update, {"unpack"}, {"archive", "off"})
  BY <1>1, Distinct DEF Unpack, Exit
<1>4. \A v \in Versions : CheckRollback(v) => Moved(v, {"check"}, {"archive", "off"})
  BY <1>1, Distinct DEF CheckRollback, Exit
<1>5. ASSUME NEW r \in Runners
      PROVE  /\ TakeLock(r) => Moved(r, {"started"}, {"check", "off"})
             /\ ArchiveBegin(r) => Moved(r, {"archive"}, {"keep agent", "agent"})
             /\ \A p \in Archived : ArchiveCopy(r, p) =>
                  Moved(r, {"keep agent", "keep ui"}, {"keep ui", "index"})
             /\ ArchiveIndex(r) => Moved(r, {"index"}, {"prune"})
             /\ ArchivePrune(r) => Moved(r, {"prune"}, {"agent"})
             /\ RestartAgent(r) => Moved(r, {"restart"}, {"clean"})
             /\ Clean(r) => Moved(r, {"clean"}, {"off"})
  <2>1. TakeLock(r) => Moved(r, {"started"}, {"check", "off"})
    BY <1>1 DEF TakeLock
  <2>2. ArchiveBegin(r) => Moved(r, {"archive"}, {"keep agent", "agent"})
    BY <1>1 DEF ArchiveBegin
  <2>3. \A p \in Archived : ArchiveCopy(r, p) =>
          Moved(r, {"keep agent", "keep ui"}, {"keep ui", "index"})
    BY <1>1 DEF ArchiveCopy, KeepPlace
  <2>4. /\ ArchiveIndex(r) => Moved(r, {"index"}, {"prune"})
        /\ ArchivePrune(r) => Moved(r, {"prune"}, {"agent"})
    BY <1>1 DEF ArchiveIndex, ArchivePrune
  <2>5. /\ RestartAgent(r) => Moved(r, {"restart"}, {"clean"})
        /\ Clean(r) => Moved(r, {"clean"}, {"off"})
    BY <1>1 DEF RestartAgent, Clean, Exit
  <2> QED
    BY <2>1, <2>2, <2>3, <2>4, <2>5
<1>6. /\ Apply => Moved(Update, {"off"}, {"started"})
      /\ \A v \in Versions : Rollback(v) => Moved(v, {"off"}, {"started"})
  BY <1>1, Distinct DEF Apply, Rollback, GoTo
<1> QED
  BY <1>2, <1>3, <1>4, <1>5, <1>6

(* Every step keeps the types.                                             *)
LEMMA StepKeepsType ==
  ASSUME TypeOK, RunnersInv, ArchiveInv, [Next]_vars PROVE TypeOK'
<1>1. CASE Release
  <2>1. latest' \in Versions
    BY <1>1, UpdaterConstants DEF TypeOK, Release, Versions
  <2> QED
    BY <1>1, <2>1 DEF TypeOK, Release
<1>2. CASE Crash
  <2>1. at' \in [Runners -> Places]
    BY <1>2 DEF TypeOK, Crash, GoTo, Places
  <2>2. process' \in Versions \cup {Torn} /\ Crashed
    BY <1>2, CrashEffect DEF Crashed, TypeOK, Crash, StartsAgent, Parts
  <2>3. download' \in [Downloads -> [at : {"idle", "fetched", "writing", "signing"},
                                    version : Versions \cup {None}]]
    BY <1>2 DEF TypeOK, Crash, StartsAgent, NoDownload
  <2> QED
    BY <2>1, <2>2, <2>3 DEF TypeOK, Crashed, DirType
<1>3. ASSUME NEW d \in Downloads, NEW bundle \in Versions,
             Fetch(d, bundle) PROVE TypeOK'
  BY <1>3, Distinct
     DEF TypeOK, Places, Parts, Archived, Fetch, NotOlder, Staging
<1>4. ASSUME NEW d \in Downloads, BeginTarball(d) PROVE TypeOK'
  <2>1. tarball' \in Versions \cup {None, Torn}
    BY <1>4 DEF BeginTarball
  <2>2. download' \in [Downloads -> [at : {"idle", "fetched", "writing", "signing"},
                                    version : Versions \cup {None}]]
    BY <1>4 DEF TypeOK, BeginTarball
  <2> QED
    BY <1>4, <2>1, <2>2 DEF TypeOK, BeginTarball, Staging
<1>5. ASSUME NEW d \in Downloads, EndTarball(d) PROVE TypeOK'
  <2>1. /\ tarball' \in Versions \cup {None, Torn}
        /\ download' \in [Downloads -> [at : {"idle", "fetched", "writing", "signing"},
                                       version : Versions \cup {None}]]
    BY <1>5 DEF TypeOK, EndTarball
  <2> QED
    BY <1>5, <2>1 DEF TypeOK, EndTarball, Staging
<1>6. ASSUME NEW d \in Downloads, WriteSig(d) PROVE TypeOK'
  BY <1>6, Distinct
     DEF TypeOK, Places, Parts, Archived, WriteSig, Staging, NoDownload
<1>7. CASE Apply
  BY <1>7, Distinct
     DEF TypeOK, Places, Parts, Archived, Apply, Verified, Requests
<1>8. ASSUME NEW v \in Versions, Rollback(v) PROVE TypeOK'
  BY <1>8, Distinct DEF TypeOK, Places, Parts, Archived, Rollback, Requests
<1>9. CASE CheckUpdate
  <2>1. /\ tarball' \in Versions \cup {None, Torn} /\ sig' \in Versions \cup {None}
        /\ lock' \in Runners \cup {None}
    BY <1>9 DEF TypeOK, CheckUpdate, Exit
  <2>2. at' \in [Runners -> Places]
    BY <1>9 DEF TypeOK, CheckUpdate, Exit, GoTo, Places
  <2> QED
    BY <1>9, <2>1, <2>2 DEF TypeOK, CheckUpdate
<1>10. CASE Unpack
  <2>1. target' \in [Runners -> Versions \cup {None}]
    <3>1. tarball # Torn => tarball \in Versions \cup {None}
      BY DEF TypeOK
    <3>2. \/ target' = target
          \/ tarball # Torn /\ target' = [target EXCEPT ![Update] = tarball]
      BY <1>10 DEF Unpack
    <3> QED
      BY <3>1, <3>2 DEF TypeOK
  <2>2. at' \in [Runners -> Places] /\ lock' \in Runners \cup {None}
    BY <1>10, Distinct DEF TypeOK, Unpack, GoTo, Exit, Places
  <2> QED
    BY <1>10, <2>1, <2>2 DEF TypeOK, Unpack, Places
<1>11. ASSUME NEW v \in Versions, CheckRollback(v) PROVE TypeOK'
  <2>1. at' \in [Runners -> Places] /\ lock' \in Runners \cup {None}
    BY <1>11, Distinct DEF TypeOK, CheckRollback, GoTo, Exit, Places
  <2> QED
    BY <1>11, <2>1 DEF TypeOK, CheckRollback, Places
<1>12. ASSUME NEW r \in Runners, TakeLock(r) PROVE TypeOK'
  BY <1>12, Distinct
     DEF TypeOK, Places, Parts, Archived, TakeLock, LockIsFree, GoTo
<1>13. ASSUME NEW r \in Runners, ArchiveBegin(r) PROVE TypeOK'
  <2>1. at' \in [Runners -> Places]
    BY <1>13 DEF TypeOK, ArchiveBegin, GoTo, Places
  <2>2. dir' \in DirType
    <3>1. [p \in Archived |-> None] \in [Archived -> Versions \cup {Torn, None}]
      OBVIOUS
    <3>2. dir \in DirType
      BY DEF TypeOK, DirType
    <3> QED
      BY <1>13, <3>1, <3>2 DEF ArchiveBegin, DirType
  <2> QED
    BY <1>13, <2>1, <2>2 DEF TypeOK, ArchiveBegin, DirType
<1>20. ASSUME NEW r \in Runners, NEW p \in Archived, ArchiveCopy(r, p)
      PROVE  TypeOK'
  <2>1. at' \in [Runners -> Places]
    BY <1>20 DEF TypeOK, ArchiveCopy, GoTo, Places
  <2>2. Old \in Versions /\ dir[Old] # None
    BY <1>20 DEF ArchiveCopy, KeepPlace, RunnersInv, ArchiveInv, RunInv
  <2>3. installed[p] \in Versions \cup {Torn, None}
    BY DEF TypeOK, Archived
  <2>4. dir' \in DirType
    BY <1>20, <2>2, <2>3, EntryWritten DEF ArchiveCopy
  <2> QED
    BY <1>20, <2>1, <2>4 DEF TypeOK, ArchiveCopy, DirType
<1>14. ASSUME NEW r \in Runners, ArchiveIndex(r) PROVE TypeOK'
  <2>1. Old \in Versions
    BY <1>14 DEF RunnersInv, ArchiveIndex
  <2>2. /\ index' \in Seq(Versions) /\ Len(index') <= Keep
        /\ IsInjective(index')
    BY <1>14, <2>1, AddedKept DEF TypeOK, ArchiveIndex
  <2> QED
    BY <1>14, <2>2 DEF TypeOK, ArchiveIndex, GoTo, Places
<1>15. ASSUME NEW r \in Runners, ArchivePrune(r) PROVE TypeOK'
  BY <1>15, Distinct
     DEF TypeOK, Places, Parts, Archived, ArchivePrune, Kept, GoTo
<1>16. ASSUME NEW r \in Runners, NEW p \in Parts, Install(r, p) PROVE TypeOK'
  <2>1. at' \in [Runners -> Places]
    BY <1>16, InstallOrderIs DEF TypeOK, GoTo, Places
  <2>2. NewPart(r, p) \in Versions \cup {Torn}
    <3>1. CASE r = Update
      BY <1>16, <3>1, InstallOrderIs
         DEF RunnersInv, Installing, NewPart
    <3>2. CASE r # Update
      BY <3>2, Distinct DEF TypeOK, NewPart, ArchivedPart, IsArchived
    <3> QED
      BY <3>1, <3>2
  <2>3. installed' \in [Parts -> Versions \cup {Torn}]
    BY <1>16, <2>2 DEF TypeOK, Install
  <2>4. previous' \in Versions \cup {None}
    BY <1>16 DEF TypeOK, Install
  <2> QED
    BY <1>16, <2>1, <2>3, <2>4 DEF TypeOK, Install, Places
<1>17. ASSUME NEW r \in Runners, RestartAgent(r) PROVE TypeOK'
  <2>1. /\ process' \in Versions \cup {Torn} /\ at' \in [Runners -> Places]
        /\ download' \in [Downloads -> [at : {"idle", "fetched", "writing", "signing"},
                                       version : Versions \cup {None}]]
    BY <1>17
       DEF TypeOK, RestartAgent, StartsAgent, NoDownload, Old, Parts, GoTo,
           Places
  <2> QED
    BY <1>17, <2>1 DEF TypeOK, RestartAgent
<1>18. ASSUME NEW r \in Runners, Clean(r) PROVE TypeOK'
  BY <1>18, Distinct DEF TypeOK, Places, Parts, Archived, Clean, GoTo, Exit
<1>19. CASE UNCHANGED vars
  BY <1>19, Distinct DEF TypeOK, Places, Parts, Archived, vars
<1> QED
  BY <1>1, <1>2, <1>3, <1>4, <1>5, <1>6, <1>7, <1>8, <1>9, <1>10, <1>11,
     <1>12, <1>13, <1>14, <1>15, <1>16, <1>17, <1>18, <1>19, <1>20
     DEF Next, RunnerStep

(* Every step keeps the runners apart.                                     *)
LEMMA StepKeepsRunners ==
  ASSUME TypeOK, RunnersInv, ArchiveInv, [Next]_vars PROVE RunnersInv'
<1>1. CASE Release
  BY <1>1, Distinct DEF TypeOK, RunnersInv, Installing, Old, Parts, Release
<1>2. CASE Crash
  <2>1. Crashed
    BY <1>2, CrashEffect
  <2>2. \A d \in Downloads : download'[d] = download[d]
                              \/ download'[d].at = "idle"
    BY <1>2 DEF Crash, StartsAgent, NoDownload
  <2>3. /\ UNCHANGED target /\ lock' = None
        /\ \A r \in Runners : at'[r] \in {"off", "started"}
    BY <2>1 DEF Crashed
  <2> QED
    BY <2>2, <2>3, Distinct DEF RunnersInv, Installing
<1>3. ASSUME NEW d \in Downloads, NEW bundle \in Versions,
             Fetch(d, bundle) PROVE RunnersInv'
  BY <1>3, Distinct
     DEF TypeOK, RunnersInv, Installing, Old, Parts, Fetch, NotOlder, Staging
<1>4. ASSUME NEW d \in Downloads, BeginTarball(d) PROVE RunnersInv'
  <2>1. /\ UNCHANGED <<installed, at, lock, target>> /\ Old' = Old
        /\ tarball' # None
    BY <1>4, Distinct DEF BeginTarball, Staging, Old, RunnersInv
  <2>2. \A e \in Downloads :
          /\ download'[e].at # "idle" => download[e].at # "idle"
          /\ download'[e].version = download[e].version
    BY <1>4 DEF TypeOK, BeginTarball
  <2> QED
    BY <2>1, <2>2 DEF RunnersInv, Installing
<1>5. ASSUME NEW d \in Downloads, EndTarball(d) PROVE RunnersInv'
  <2>1. /\ UNCHANGED <<installed, at, lock, target>> /\ Old' = Old
        /\ tarball' # None
    BY <1>5, Distinct DEF EndTarball, Staging, Old, RunnersInv
  <2>2. \A e \in Downloads :
          /\ download'[e].at # "idle" => download[e].at # "idle"
          /\ download'[e].version = download[e].version
    BY <1>5 DEF TypeOK, EndTarball
  <2> QED
    BY <2>1, <2>2 DEF RunnersInv, Installing
<1>6. ASSUME NEW d \in Downloads, WriteSig(d) PROVE RunnersInv'
  BY <1>6, Distinct
     DEF TypeOK, RunnersInv, Installing, Old, Parts, WriteSig, Staging,
         NoDownload
<1>7. CASE Apply
  BY <1>7, Distinct
     DEF TypeOK, RunnersInv, Installing, Old, Parts, Apply, Verified, Requests
<1>8. ASSUME NEW v \in Versions, Rollback(v) PROVE RunnersInv'
  <2>1. Moved(v, {"off"}, {"started"}) /\ v \in Runners
    BY <1>8, MoveSteps, Distinct
  <2>2. UNCHANGED <<installed, lock, target, tarball, download>> /\ Old' = Old
    BY <1>8 DEF Rollback, Requests, Old
  <2> QED
    BY <2>1, <2>2, Distinct DEF Moved, RunnersInv, Installing
<1>9. CASE CheckUpdate
  <2>1. lock = Update /\ at[Update] = "check" /\ Update \in Runners
        /\ UNCHANGED <<target, download, installed>>
    BY <1>9, Distinct DEF CheckUpdate, RunnersInv
  <2>2. CASE GoTo(Update, "unpack") /\ UNCHANGED <<lock, tarball>>
                /\ VerifiedByRoot
    <3>1. /\ at'[Update] = "unpack"
          /\ \A r \in Runners \ {Update} : at'[r] = at[r] /\ at[r] \in {"off", "started"}
      BY <2>1, <2>2 DEF TypeOK, RunnersInv, GoTo
    <3>2. tarball' # None
      BY <2>2, Distinct DEF VerifiedByRoot, Verified
    <3> QED
      BY <2>1, <2>2, <3>1, <3>2, Distinct DEF RunnersInv, Installing, Old
  <2>3. CASE Exit(Update)
    <3>1. /\ at'[Update] = "off" /\ lock' = None
          /\ \A r \in Runners \ {Update} : at'[r] = at[r] /\ at[r] \in {"off", "started"}
      BY <2>1, <2>3 DEF TypeOK, RunnersInv, GoTo, Exit
    <3>2. \A r \in Runners : at'[r] \in {"off", "started"} /\ lock' # r
      BY <3>1, Distinct
    <3> QED
      BY <2>1, <3>1, <3>2, Distinct DEF RunnersInv, Installing, Old
  <2> QED
    BY <1>9, <2>2, <2>3 DEF CheckUpdate
<1>10. CASE Unpack
  <2>1. lock = Update /\ at[Update] = "unpack" /\ Update \in Runners
    BY <1>10, Distinct DEF Unpack, RunnersInv
  <2>2. CASE tarball = Torn
    <3>1. /\ at' = [at EXCEPT ![Update] = "off"] /\ lock' = None
          /\ UNCHANGED <<target, download>>
      BY <1>10, <2>2 DEF Unpack, GoTo, Exit
    <3>2. /\ at'[Update] = "off"
          /\ \A r \in Runners \ {Update} : at'[r] = at[r] /\ at[r] \in {"off", "started"}
      BY <2>1, <3>1 DEF TypeOK, RunnersInv
    <3>3. \A r \in Runners : at'[r] \in {"off", "started"} /\ lock' # r
      BY <3>1, <3>2, Distinct
    <3> QED
      BY <3>1, <3>3, Distinct DEF RunnersInv, Installing
  <2>3. CASE tarball # Torn
    <3>1. /\ GoTo(Update, "archive") /\ target'[Update] \in Versions
          /\ \A v \in Versions : target'[v] = target[v]
          /\ UNCHANGED <<installed, lock, download>> /\ Old' = Old
      BY <1>10, <2>1, <2>3, Distinct DEF TypeOK, Unpack, Old, RunnersInv
    <3>2. /\ \A q \in Runners : at'[q] = IF q = Update THEN "archive" ELSE at[q]
          /\ \A q \in Runners : q # Update => at[q] \in {"off", "started"}
      BY <2>1, <3>1, GoToEffect
    <3> QED
      BY <2>1, <3>1, <3>2, Distinct DEF RunnersInv, Installing
  <2> QED
    BY <2>2, <2>3
<1>11. ASSUME NEW v \in Versions, CheckRollback(v) PROVE RunnersInv'
  <2>1. Moved(v, {"check"}, {"archive", "off"}) /\ v # Update /\ v \in Runners
    BY <1>11, MoveSteps, Distinct
  <2>2. UNCHANGED <<installed, target, tarball, download>> /\ Old' = Old
    BY <1>11 DEF CheckRollback, Old
  <2>3. \/ at'[v] = "archive" /\ lock' = lock /\ Old # v
        \/ at'[v] = "off" /\ lock' = None
    BY <1>11, <2>1 DEF TypeOK, CheckRollback, GoTo, Exit
  <2>4. lock = v /\ \A q \in Runners : q # v =>
          at[q] \in {"off", "started"} /\ at'[q] = at[q]
    BY <2>1 DEF Moved
  <2>5. \A q \in Runners : at'[q] \notin {"off", "started"} <=> lock' = q
    BY <2>1, <2>3, <2>4, Distinct
  <2> QED
    BY <2>1, <2>2, <2>3, <2>4, <2>5, Distinct DEF RunnersInv, Installing
<1>12. ASSUME NEW r \in Runners, TakeLock(r) PROVE RunnersInv'
  <2>1. /\ UNCHANGED <<installed, target, tarball, download>> /\ Old' = Old
        /\ at[r] = "started"
    BY <1>12 DEF TakeLock, Old
  <2>2. CASE lock = None /\ lock' = r /\ GoTo(r, "check")
    <3>1. \A q \in Runners : at'[q] = IF q = r THEN "check" ELSE at[q]
      BY <2>2, GoToEffect
    <3> QED
      BY <2>1, <2>2, <3>1, Distinct DEF RunnersInv, Installing
  <2>3. CASE GoTo(r, "off") /\ UNCHANGED lock
    <3>1. \A q \in Runners : at'[q] = IF q = r THEN "off" ELSE at[q]
      BY <2>3, GoToEffect
    <3> QED
      BY <2>1, <2>3, <3>1, Distinct DEF RunnersInv, Installing
  <2> QED
    BY <1>12, <2>2, <2>3 DEF TakeLock, LockIsFree
<1>13. ASSUME NEW r \in Runners, ArchiveBegin(r) PROVE RunnersInv'
  <2>1. /\ UNCHANGED <<installed, lock, target, tarball, download>> /\ Old' = Old
        /\ at[r] = "archive"
    BY <1>13 DEF ArchiveBegin, Old
  <2>2. PICK place \in {"agent", "keep agent"} :
          /\ GoTo(r, place)
          /\ place = "keep agent" => Old # target[r] /\ Old \in Versions
    BY <1>13 DEF ArchiveBegin
  <2>3. /\ \A q \in Runners : at'[q] = IF q = r THEN place ELSE at[q]
        /\ lock = r
    BY <2>1, <2>2, GoToEffect
  <2> QED
    BY <2>1, <2>2, <2>3, Distinct DEF RunnersInv, Installing
<1>20. ASSUME NEW r \in Runners, NEW p \in Archived, ArchiveCopy(r, p)
      PROVE  RunnersInv'
  <2>1. PICK place \in {"keep ui", "index"} : GoTo(r, place)
    BY <1>20 DEF ArchiveCopy
  <2>2. lock = r /\ at[r] \in {"keep agent", "keep ui"}
    BY <1>20 DEF ArchiveCopy, KeepPlace, RunnersInv
  <2>3. \A q \in Runners : at'[q] = IF q = r THEN place ELSE at[q]
    BY <2>1 DEF TypeOK, GoTo
  <2>4. UNCHANGED <<installed, lock, target, download, tarball>> /\ Old' = Old
    BY <1>20 DEF ArchiveCopy, Old
  <2> QED
    BY <2>2, <2>3, <2>4, Distinct DEF RunnersInv, Installing
<1>14. ASSUME NEW r \in Runners, ArchiveIndex(r) PROVE RunnersInv'
  <2>1. Moved(r, {"index"}, {"prune"})
    BY <1>14, MoveSteps
  <2>2. UNCHANGED <<installed, lock, target, tarball, download>> /\ Old' = Old
    BY <1>14 DEF ArchiveIndex, Old
  <2> QED
    BY <2>1, <2>2, Distinct DEF Moved, RunnersInv, Installing
<1>15. ASSUME NEW r \in Runners, ArchivePrune(r) PROVE RunnersInv'
  <2>1. Moved(r, {"prune"}, {"agent"})
    BY <1>15, MoveSteps
  <2>2. UNCHANGED <<installed, lock, target, tarball, download>> /\ Old' = Old
    BY <1>15 DEF ArchivePrune, Old
  <2> QED
    BY <2>1, <2>2, Distinct DEF Moved, RunnersInv, Installing
<1>16. ASSUME NEW r \in Runners, NEW p \in Parts, Install(r, p)
      PROVE  RunnersInv'
  <2>1. lock = r /\ at[r] \in Installing
    BY <1>16, InstallOrderIs DEF TypeOK, RunnersInv, Installing
  <2>2. PICK place \in {"helper", "ui", "restart"} : GoTo(r, place)
    BY <1>16, InstallOrderIs
  <2>3. \A q \in Runners :
          /\ q # r => at'[q] = at[q] /\ at[q] \in {"off", "started"}
          /\ at'[r] = place
    BY <2>1, <2>2 DEF TypeOK, GoTo, RunnersInv
  <2>4. lock' = r /\ UNCHANGED <<target, tarball, download>>
    BY <1>16, <2>1 DEF Install
  <2>5. \A q \in Runners : at'[q] \notin {"off", "started"} <=> lock' = q
    BY <2>3, <2>4
  <2>6. \A q \in Runners :
          at'[q] \notin {"keep agent", "keep ui", "index", "prune",
                         "archive", "agent", "unpack"}
    BY <2>3
  <2>7. at'[Update] \in Installing => target'[Update] \in Versions
    BY <2>1, <2>3, <2>4, Distinct DEF RunnersInv, Installing
  <2> QED
    BY <2>4, <2>5, <2>6, <2>7, Distinct DEF RunnersInv
<1>17. ASSUME NEW r \in Runners, RestartAgent(r) PROVE RunnersInv'
  BY <1>17, Distinct
     DEF TypeOK, RunnersInv, Installing, Old, Parts, RestartAgent,
         StartsAgent, NoDownload, GoTo
<1>18. ASSUME NEW r \in Runners, Clean(r) PROVE RunnersInv'
  <2>1. /\ UNCHANGED <<installed, target, download>> /\ Old' = Old
        /\ at[r] = "clean" /\ lock' = None /\ GoTo(r, "off")
    BY <1>18 DEF Clean, Exit, Old
  <2>2. \A q \in Runners : at'[q] \in {"off", "started"}
    BY <2>1, GoToEffect
  <2> QED
    BY <2>1, <2>2, Distinct DEF RunnersInv, Installing
<1>19. CASE UNCHANGED vars
  BY <1>19, Distinct DEF TypeOK, RunnersInv, Installing, Old, Parts, vars
<1> QED
  BY <1>1, <1>2, <1>3, <1>4, <1>5, <1>6, <1>7, <1>8, <1>9, <1>10, <1>11,
     <1>12, <1>13, <1>14, <1>15, <1>16, <1>17, <1>18, <1>19, <1>20
     DEF Next, RunnerStep

(* What Install does, all of it: one part of one runner, the others wait.  *)
Installed(r, p) ==
  /\ lock = r /\ UNCHANGED lock
  /\ \A q \in Runners : q # r =>
       at[q] \in {"off", "started"} /\ at'[q] = at[q]
  /\ \/ p = "agent" /\ at[r] = "agent" /\ at'[r] = "helper"
     \/ p = "helper" /\ at[r] = "helper" /\ at'[r] = "ui"
     \/ p = "ui" /\ at[r] = "ui" /\ at'[r] = "restart"
  /\ installed'[p] = NewPart(r, p)
  /\ \A q \in Parts : q # p => installed'[q] = installed[q]
  /\ previous' = IF Old \in Versions /\ installed'["agent"] # Old
                 THEN Old ELSE previous
  /\ UNCHANGED <<scenario, latest, process, index, dir, tarball, sig, download,
                 target, crashed>>

LEMMA InstallEffect ==
  ASSUME TypeOK, RunnersInv, NEW r \in Runners, NEW p \in Parts, Install(r, p)
  PROVE  Installed(r, p)
<1>1. PICK place \in {"helper", "ui", "restart"} :
        /\ GoTo(r, place)
        /\ \/ p = "agent" /\ at[r] = "agent" /\ place = "helper"
           \/ p = "helper" /\ at[r] = "helper" /\ place = "ui"
           \/ p = "ui" /\ at[r] = "ui" /\ place = "restart"
  BY InstallOrderIs
<1>2. lock = r
  BY <1>1 DEF RunnersInv
<1>3. at'[r] = place /\ \A q \in Runners : q # r => at'[q] = at[q]
  BY <1>1 DEF TypeOK, GoTo
<1>4. \A q \in Runners : q # r => at[q] \in {"off", "started"}
  BY <1>2 DEF RunnersInv
<1>5. installed' = [installed EXCEPT ![p] = NewPart(r, p)]
  BY DEF Install
<1>6. /\ installed'[p] = NewPart(r, p)
      /\ \A q \in Parts : q # p => installed'[q] = installed[q]
  BY <1>5 DEF TypeOK
<1> QED
  BY <1>1, <1>2, <1>3, <1>4, <1>6 DEF Installed, Install

(* What is installed: what was asked for, if it is there.                  *)
LEMMA NewPartIs ==
  ASSUME TypeOK, RunnersInv, ArchiveInv, NEW r \in Runners, NEW p \in Parts
  PROVE  /\ r = Update => NewPart(r, p) = target[r]
         /\ r # Update => target[r] = r
         /\ r # Update /\ dir[r] = None => NewPart(r, p) = installed[p]
         /\ r # Update /\ dir[r] # None /\ at[r] = "agent" /\ p = "agent"
              /\ Sound => NewPart(r, p) = r
         /\ r # Update /\ dir[r] # None /\ at[r] = "ui" /\ p = "ui" /\ ~crashed =>
              NewPart(r, p) = r
<1>1. r # Update => r \in Versions /\ r # None
  BY Distinct
<1>2. /\ r = Update => NewPart(r, p) = target[r]
      /\ r # Update => target[r] = r
      /\ r # Update /\ dir[r] = None => NewPart(r, p) = installed[p]
  BY <1>1 DEF RunnersInv, NewPart, ArchivedPart, IsArchived
<1>3. ASSUME r # Update, dir[r] # None, at[r] = "agent", p = "agent", Sound
      PROVE  NewPart(r, p) = r
  BY <1>1, <1>3
     DEF ArchiveInv, RunInv, Copying, NewPart, ArchivedPart, IsArchived,
         Archived, Parts
<1>4. ASSUME r # Update, dir[r] # None, at[r] = "ui", p = "ui", ~crashed
      PROVE  NewPart(r, p) = r
  BY <1>1, <1>4
     DEF ArchiveInv, RunInv, Copying, NewPart, ArchivedPart, IsArchived,
         Archived, Parts
<1> QED
  BY <1>2, <1>3, <1>4

(* The list is of versions.                                                *)
LEMMA ListedType ==
  ASSUME TypeOK PROVE ToSet(index) \subseteq Versions
  BY ElementOfSeq, LenProperties DEF TypeOK, ToSet

(* A step that leaves the files alone, and a runner where it is or takes   *)
(* it where nothing is archived or copied.                                 *)
Elsewhere(r) ==
  \/ at'[r] = at[r] /\ target'[r] = target[r]
  \/ at'[r] \in {"off", "started", "check", "unpack", "restart", "clean"}
  \/ at'[r] = "archive" /\ r = Update

LEMMA ArchiveKept ==
  ASSUME ArchiveInv, UNCHANGED <<installed, dir, index, scenario, crashed>>,
         \A r \in Runners : Elsewhere(r)
  PROVE  ArchiveInv'
<1>1. Old' = Old /\ Sound' = Sound
  BY DEF Old, Sound, ArchivedAgain
<1>2. ListInv'
  BY <1>1 DEF ArchiveInv, ListInv
<1>3. ASSUME NEW r \in Runners PROVE RunInv(r)'
  <2>1. RunInv(r) /\ Elsewhere(r)
    BY DEF ArchiveInv
  <2> QED
    BY <1>1, <2>1 DEF RunInv, Elsewhere, Copying
<1> QED
  BY <1>2, <1>3 DEF ArchiveInv

(* Every step keeps what is listed there and whole.                        *)
LEMMA StepKeepsArchive ==
  ASSUME TypeOK, RunnersInv, ArchiveInv, PartsInv,
         [Next]_vars PROVE ArchiveInv'
<1>1. CASE Release
  <2>1. UNCHANGED <<installed, dir, index, scenario, crashed>>
    BY <1>1 DEF Release
  <2>2. \A q \in Runners : Elsewhere(q)
    BY <1>1, Distinct DEF TypeOK, Elsewhere, Release, GoTo
  <2> QED
    BY <2>1, <2>2, ArchiveKept
<1>2. CASE Crash
  <2>1. Crashed
    BY <1>2, CrashEffect
  <2>2. \A r \in Runners : RunInv(r)'
    BY <2>1 DEF Crashed, RunInv, Copying
  <2>3. UNCHANGED <<scenario, index>> /\ "crash" \in scenario
        /\ \A v \in ToSet(index) : v \in Versions /\ dir'[v] # None
    BY <2>1, ListedType DEF Crashed, ArchiveInv, ListInv
  <2>4. ASSUME NEW v \in ToSet(index), v # Old' PROVE dir'[v]["agent"] = v
    <3>1. v \in Versions /\ dir[v]["agent"] = v
      BY <2>1, ListedType DEF Crashed, ArchiveInv, ListInv
    <3>2. CASE dir' = dir
      BY <3>1, <3>2
    <3>3. CASE Old' = Old
      BY <2>1, <2>4, <3>1, <3>3 DEF Crashed
    <3> QED
      BY <2>1, <3>2, <3>3 DEF Crashed
  <2> QED
    BY <2>1, <2>2, <2>3, <2>4 DEF Crashed, ArchiveInv, ListInv
<1>3. ASSUME NEW d \in Downloads, NEW bundle \in Versions,
             Fetch(d, bundle) PROVE ArchiveInv'
  <2>1. UNCHANGED <<installed, dir, index, scenario, crashed>>
    BY <1>3 DEF Fetch, Staging
  <2>2. \A q \in Runners : Elsewhere(q)
    BY <1>3, Distinct DEF TypeOK, Elsewhere, Fetch, Staging, GoTo
  <2> QED
    BY <2>1, <2>2, ArchiveKept
<1>4. ASSUME NEW d \in Downloads, BeginTarball(d) PROVE ArchiveInv'
  <2>1. UNCHANGED <<installed, dir, index, scenario, crashed>>
    BY <1>4 DEF BeginTarball, Staging
  <2>2. \A q \in Runners : Elsewhere(q)
    BY <1>4, Distinct DEF TypeOK, Elsewhere, BeginTarball, Staging, GoTo
  <2> QED
    BY <2>1, <2>2, ArchiveKept
<1>5. ASSUME NEW d \in Downloads, EndTarball(d) PROVE ArchiveInv'
  <2>1. UNCHANGED <<installed, dir, index, scenario, crashed>>
    BY <1>5 DEF EndTarball, Staging
  <2>2. \A q \in Runners : Elsewhere(q)
    BY <1>5, Distinct DEF TypeOK, Elsewhere, EndTarball, Staging, GoTo
  <2> QED
    BY <2>1, <2>2, ArchiveKept
<1>6. ASSUME NEW d \in Downloads, WriteSig(d) PROVE ArchiveInv'
  <2>1. UNCHANGED <<installed, dir, index, scenario, crashed>>
    BY <1>6 DEF WriteSig, Staging
  <2>2. \A q \in Runners : Elsewhere(q)
    BY <1>6, Distinct DEF TypeOK, Elsewhere, WriteSig, Staging, GoTo
  <2> QED
    BY <2>1, <2>2, ArchiveKept
<1>7. CASE Apply
  <2>1. UNCHANGED <<installed, dir, index, scenario, crashed>>
    BY <1>7 DEF Apply, Requests
  <2>2. \A q \in Runners : Elsewhere(q)
    BY <1>7, Distinct DEF TypeOK, Elsewhere, Apply, Requests, GoTo
  <2> QED
    BY <2>1, <2>2, ArchiveKept
<1>8. ASSUME NEW v \in Versions, Rollback(v) PROVE ArchiveInv'
  <2>1. UNCHANGED <<installed, dir, index, scenario, crashed>>
    BY <1>8 DEF Rollback, Requests
  <2>2. \A q \in Runners : Elsewhere(q)
    BY <1>8, Distinct DEF TypeOK, Elsewhere, Rollback, Requests, GoTo
  <2> QED
    BY <2>1, <2>2, ArchiveKept
<1>9. CASE CheckUpdate
  <2>1. UNCHANGED <<installed, dir, index, scenario, crashed>>
    BY <1>9 DEF CheckUpdate, Exit
  <2>2. \A q \in Runners : Elsewhere(q)
    BY <1>9, Distinct DEF TypeOK, Elsewhere, CheckUpdate, Exit, GoTo
  <2> QED
    BY <2>1, <2>2, ArchiveKept
<1>10. CASE Unpack
  <2>1. UNCHANGED <<installed, dir, index, scenario, crashed>>
    BY <1>10 DEF Unpack, Exit
  <2>2. \A q \in Runners : Elsewhere(q)
    BY <1>10, Distinct DEF TypeOK, Elsewhere, Unpack, Exit, GoTo
  <2> QED
    BY <2>1, <2>2, ArchiveKept
<1>11. ASSUME NEW v \in Versions, CheckRollback(v) PROVE ArchiveInv'
  <2>1. UNCHANGED <<installed, dir, index, scenario, crashed, target>> /\ v \in Runners
        /\ Old' = Old
    BY <1>11, Distinct DEF CheckRollback, Old
  <2>2. CASE Exit(v)
    <3>1. \A q \in Runners : Elsewhere(q)
      BY <2>1, <2>2, Distinct DEF TypeOK, Elsewhere, Exit, GoTo
    <3> QED
      BY <2>1, <3>1, ArchiveKept
  <2>3. CASE GoTo(v, "archive") /\ v \in ToSet(index) /\ Old # v
    <3>1. /\ ~crashed => dir[v]["ui"] = v
          /\ Sound => dir[v]["agent"] = v
      BY <2>3 DEF ArchiveInv, ListInv
    <3>2. \A q \in Runners : at'[q] = IF q = v THEN "archive" ELSE at[q]
      BY <2>3 DEF TypeOK, GoTo
    <3>3. Sound' = Sound
      BY <2>1 DEF Sound, ArchivedAgain
    <3>4. ASSUME NEW q \in Runners PROVE RunInv(q)'
      <4>1. RunInv(q)
        BY DEF ArchiveInv
      <4> QED
        BY <2>1, <3>1, <3>2, <3>3, <4>1 DEF RunInv
    <3> QED
      BY <2>1, <3>3, <3>4 DEF ArchiveInv, ListInv
  <2> QED
    BY <1>11, <2>2, <2>3 DEF CheckRollback
<1>12. ASSUME NEW r \in Runners, TakeLock(r) PROVE ArchiveInv'
  <2>1. UNCHANGED <<installed, dir, index, scenario, crashed>>
    BY <1>12 DEF TakeLock
  <2>2. \A q \in Runners : Elsewhere(q)
    BY <1>12, Distinct DEF TypeOK, Elsewhere, TakeLock, GoTo
  <2> QED
    BY <2>1, <2>2, ArchiveKept
<1>13. ASSUME NEW r \in Runners, ArchiveBegin(r) PROVE ArchiveInv'
  <2>1. /\ UNCHANGED <<installed, index, scenario, crashed, target>> /\ Old' = Old
        /\ Sound' = Sound /\ lock = r /\ at[r] = "archive"
    BY <1>13 DEF ArchiveBegin, Old, Sound, ArchivedAgain, RunnersInv
  <2>2. RunInv(r) /\ ListInv
    BY DEF ArchiveInv
  <2>3. \A q \in Runners : q # r => at[q] \in {"off", "started"}
    BY <2>1 DEF RunnersInv
  <2>4. CASE /\ Old \notin Versions \/ Old = target[r] \/ "disk" \in scenario
             /\ GoTo(r, "agent") /\ UNCHANGED dir
    <3>1. \A q \in Runners : at'[q] = IF q = r THEN "agent" ELSE at[q]
      BY <2>4 DEF TypeOK, GoTo
    <3>2. ASSUME Sound, Old # target[r], Old \in ToSet(index)
          PROVE  dir[Old]["agent"] = Old
      <4>1. "disk" \in scenario
        BY <2>4, <3>2, ListedType
      <4>2. ~crashed
        BY <2>2, <3>2, <4>1 DEF Sound, ArchivedAgain, ListInv
      <4> QED
        BY <2>2, <3>2, <4>2 DEF ListInv
    <3>3. RunInv(r)'
      BY <2>1, <2>2, <2>4, <3>1, <3>2 DEF RunInv, Copying
    <3>4. \A q \in Runners : q # r => RunInv(q)'
      BY <2>3, <3>1 DEF RunInv, Copying
    <3> QED
      BY <2>1, <2>2, <2>4, <3>3, <3>4 DEF ArchiveInv, ListInv
  <2>5. CASE /\ Old \in Versions /\ Old # target[r] /\ GoTo(r, "keep agent")
             /\ dir' = IF dir[Old] # None THEN dir
                       ELSE [dir EXCEPT ![Old] = [p \in Archived |-> None]]
    <3>1. \A q \in Runners : at'[q] = IF q = r THEN "keep agent" ELSE at[q]
      BY <2>5 DEF TypeOK, GoTo
    <3>2. /\ dir'[Old] # None
          /\ \A v \in Versions : v # Old \/ dir[Old] # None => dir'[v] = dir[v]
      <4>1. [p \in Archived |-> None] # None
        BY EntryIsNotNone
      <4> QED
        BY <2>5, <4>1 DEF TypeOK
    <3>3. r # Update => r \in Versions /\ r # Old
      BY <2>1, Distinct DEF RunnersInv
    <3>4. RunInv(r)'
      BY <2>1, <2>2, <3>1, <3>2, <3>3 DEF RunInv, Copying
    <3>5. \A q \in Runners : q # r => RunInv(q)'
      BY <2>3, <3>1 DEF RunInv, Copying
    <3>6. \A v \in ToSet(index) : dir'[v] = dir[v]
      BY <2>2, <3>2, ListedType DEF ListInv
    <3> QED
      BY <2>1, <2>2, <3>4, <3>5, <3>6 DEF ArchiveInv, ListInv
  <2> QED
    BY <1>13, <2>4, <2>5 DEF ArchiveBegin
<1>20. ASSUME NEW r \in Runners, NEW p \in Archived, ArchiveCopy(r, p)
      PROVE  ArchiveInv'
  <2>1. /\ UNCHANGED <<installed, index, scenario, crashed, target>> /\ Old' = Old
        /\ Sound' = Sound /\ lock = r
        /\ at[r] = KeepPlace(p) /\ at[r] \in {"keep agent", "keep ui"}
    BY <1>20
       DEF ArchiveCopy, KeepPlace, Old, Sound, ArchivedAgain, RunnersInv
  <2>2. RunInv(r) /\ ListInv
    BY DEF ArchiveInv
  <2>3. \A q \in Runners : q # r => at[q] \in {"off", "started"}
    BY <2>1 DEF RunnersInv
  <2>4. Old \in Versions /\ dir[Old] # None
    BY <2>1, <2>2 DEF RunnersInv, RunInv
  <2>5. installed[p] \in Versions \cup {Torn, None}
    BY DEF TypeOK, Archived
  <2>6. /\ dir'[Old] # None /\ dir'[Old][p] = installed[p]
        /\ \A q \in Archived : q # p => dir'[Old][q] = dir[Old][q]
        /\ \A v \in Versions : v # Old => dir'[v] = dir[v]
    BY <1>20, <2>4, <2>5, EntryWritten DEF ArchiveCopy
  <2>7. \A q \in Runners :
          at'[q] = IF q # r THEN at[q]
                   ELSE IF p = "agent" THEN "keep ui" ELSE "index"
    BY <1>20 DEF TypeOK, ArchiveCopy, GoTo
  <2>8. ~crashed => installed["ui"] = Old
    BY <2>1 DEF PartsInv, Old
  <2>9. p \in {"agent", "ui"} /\ {"agent", "ui"} = Archived
    BY DEF Archived, Parts
  <2>10. r # Update => r \in Versions /\ r # Old
    BY <2>1, Distinct DEF RunnersInv
  <2>11. /\ p = "agent" => dir'[Old]["agent"] = Old /\ dir'[Old]["ui"] = dir[Old]["ui"]
         /\ p = "ui" => /\ dir'[Old]["agent"] = dir[Old]["agent"]
                        /\ at[r] = "keep ui" /\ (~crashed => dir'[Old]["ui"] = Old)
    BY <2>1, <2>6, <2>8, <2>9 DEF Old, KeepPlace
  <2>12. RunInv(r)'
    BY <2>1, <2>2, <2>6, <2>7, <2>9, <2>10, <2>11 DEF RunInv, Copying
  <2>13. \A q \in Runners : q # r => RunInv(q)'
    BY <2>3, <2>7 DEF RunInv, Copying
  <2>14. \A v \in ToSet(index) : dir'[v] # None /\ (v # Old => dir'[v] = dir[v])
    BY <2>2, <2>6, ListedType DEF ListInv
  <2>15. ~crashed /\ Old \in ToSet(index) =>
           dir'[Old]["agent"] = Old /\ dir'[Old]["ui"] = Old
    BY <2>2, <2>9, <2>11 DEF ListInv
  <2> QED
    BY <2>1, <2>2, <2>12, <2>13, <2>14, <2>15 DEF ArchiveInv, ListInv
<1>14. ASSUME NEW r \in Runners, ArchiveIndex(r) PROVE ArchiveInv'
  <2>1. /\ UNCHANGED <<installed, dir, scenario, crashed, target>> /\ Old' = Old
        /\ Sound' = Sound /\ lock = r /\ at[r] = "index"
    BY <1>14 DEF ArchiveIndex, Old, Sound, ArchivedAgain, RunnersInv
  <2>2. RunInv(r) /\ ListInv
    BY DEF ArchiveInv
  <2>3. \A q \in Runners : at'[q] = IF q = r THEN "prune" ELSE at[q]
    BY <1>14 DEF TypeOK, ArchiveIndex, GoTo
  <2>4. Old \in Versions /\ \A q \in Runners : q # r => at[q] \in {"off", "started"}
    BY <2>1 DEF RunnersInv
  <2>5. \A v \in ToSet(index') : v = Old \/ v \in ToSet(index)
    BY <1>14, <2>4, AddedKept DEF TypeOK, ArchiveIndex
  <2>6. RunInv(r)'
    BY <2>1, <2>2, <2>3 DEF RunInv, Copying
  <2>7. \A q \in Runners : q # r => RunInv(q)'
    BY <2>3, <2>4 DEF RunInv, Copying
  <2>8. /\ dir[Old] # None
        /\ ~crashed => dir[Old]["agent"] = Old /\ dir[Old]["ui"] = Old
    BY <2>1, <2>2 DEF RunInv, Sound
  <2> QED
    BY <2>1, <2>2, <2>5, <2>6, <2>7, <2>8 DEF ArchiveInv, ListInv
<1>15. ASSUME NEW r \in Runners, ArchivePrune(r) PROVE ArchiveInv'
  <2>1. /\ UNCHANGED <<installed, index, scenario, crashed, target>> /\ Old' = Old
        /\ Sound' = Sound /\ lock = r /\ at[r] = "prune" /\ Old \in Versions
    BY <1>15 DEF ArchivePrune, Old, Sound, ArchivedAgain, RunnersInv
  <2>2. \A v \in Versions :
          dir'[v] = IF v \in ToSet(index) THEN dir[v] ELSE None
    BY <1>15 DEF ArchivePrune, Kept
  <2>3. \A q \in Runners : at'[q] = IF q = r THEN "agent" ELSE at[q]
    BY <1>15 DEF TypeOK, ArchivePrune, GoTo
  <2>4. \A q \in Runners : q # r => at[q] \in {"off", "started"}
    BY <2>1 DEF RunnersInv
  <2>5. RunInv(r) /\ ListInv /\ (r # Update => r \in Versions)
    BY Distinct DEF ArchiveInv
  <2>6. RunInv(r)'
    BY <2>1, <2>2, <2>3, <2>5 DEF RunInv, Copying
  <2>7. \A q \in Runners : q # r => RunInv(q)'
    BY <2>3, <2>4 DEF RunInv, Copying
  <2>8. \A v \in ToSet(index) : dir'[v] = dir[v]
    BY <2>2, ListedType
  <2> QED
    BY <2>1, <2>5, <2>6, <2>7, <2>8 DEF ArchiveInv, ListInv
<1>16. ASSUME NEW r \in Runners, NEW p \in Parts, Install(r, p)
      PROVE  ArchiveInv'
  <2>1. Installed(r, p)
    BY <1>16, InstallEffect
  <2>2. /\ UNCHANGED <<index, dir, crashed, scenario, target>> /\ Sound' = Sound
        /\ Old' = IF p = "agent" THEN NewPart(r, p) ELSE Old
    BY <2>1 DEF Installed, Sound, ArchivedAgain, Old, Parts
  <2>3. RunInv(r) /\ ListInv
    BY DEF ArchiveInv
  <2>4. RunInv(r)'
    <3>1. /\ at'[r] \in {"helper", "ui", "restart"}
          /\ at[r] \in Copying
      BY <2>1 DEF Installed, Copying
    <3> QED
      BY <2>2, <2>3, <3>1 DEF RunInv, Copying
  <2>5. \A q \in Runners : q # r => RunInv(q)'
    BY <2>1 DEF Installed, RunInv, Copying
  <2>6. ASSUME Sound, Old' # Old, Old \in ToSet(index)
        PROVE  dir[Old]["agent"] = Old
    <3>1. p = "agent" /\ at[r] = "agent"
      BY <2>1, <2>2, <2>6 DEF Installed
    <3>2. Old # target[r]
      BY <2>2, <2>6, <3>1, NewPartIs, Distinct DEF RunnersInv
    <3> QED
      BY <2>3, <2>6, <3>1, <3>2 DEF RunInv
  <2>7. Sound => \A v \in ToSet(index) : v # Old' => dir[v]["agent"] = v
    BY <2>3, <2>6 DEF ListInv
  <2> QED
    BY <2>2, <2>3, <2>4, <2>5, <2>7 DEF ArchiveInv, ListInv
<1>17. ASSUME NEW r \in Runners, RestartAgent(r) PROVE ArchiveInv'
  <2>1. UNCHANGED <<installed, dir, index, scenario, crashed>>
    BY <1>17 DEF RestartAgent
  <2>2. \A q \in Runners : Elsewhere(q)
    BY <1>17, Distinct DEF TypeOK, Elsewhere, RestartAgent, GoTo
  <2> QED
    BY <2>1, <2>2, ArchiveKept
<1>18. ASSUME NEW r \in Runners, Clean(r) PROVE ArchiveInv'
  <2>1. UNCHANGED <<installed, dir, index, scenario, crashed>>
    BY <1>18 DEF Clean, Exit
  <2>2. \A q \in Runners : Elsewhere(q)
    BY <1>18, Distinct DEF TypeOK, Elsewhere, Clean, Exit, GoTo
  <2> QED
    BY <2>1, <2>2, ArchiveKept
<1>19. CASE UNCHANGED vars
  <2>1. UNCHANGED <<installed, dir, index, scenario, crashed>>
    BY <1>19 DEF vars
  <2>2. \A q \in Runners : Elsewhere(q)
    BY <1>19, Distinct DEF TypeOK, Elsewhere, vars, GoTo
  <2> QED
    BY <2>1, <2>2, ArchiveKept
<1> QED
  BY <1>1, <1>2, <1>3, <1>4, <1>5, <1>6, <1>7, <1>8, <1>9, <1>10, <1>11,
     <1>12, <1>13, <1>14, <1>15, <1>16, <1>17, <1>18, <1>19, <1>20
     DEF Next, RunnerStep

(* A step that installs nothing: no runner comes to where that has begun,  *)
(* and one that lets the lock go had not begun it.                         *)
Before == {"check", "unpack", "archive", "keep agent", "keep ui", "index",
           "prune", "agent"}
NotBegun == lock = None \/ \E r \in Runners : at[r] \in Before

Waits(r) ==
  \/ at'[r] = at[r] /\ target'[r] = target[r]
       /\ (dir' = dir \/ at[r] \in {"off", "started"})
  \/ at'[r] \in {"off", "started"}
  \/ at'[r] \in Before /\ NotBegun

LEMMA PartsKept ==
  ASSUME PartsInv, UNCHANGED <<installed, process, scenario, crashed>>,
         lock' = None => NotBegun, \A r \in Runners : Waits(r)
  PROVE  PartsInv'
<1>1. Old' = Old /\ Sound' = Sound
  BY DEF Old, Sound, ArchivedAgain
<1>2. ~crashed /\ NotBegun =>
        installed["agent"] = process /\ installed["ui"] = process
  BY DEF PartsInv, NotBegun, Before
<1>3. ASSUME Sound, NEW r \in Runners,
             at'[r] \in {"helper", "ui", "restart", "clean"}
      PROVE  installed["agent"] = target'[r] \/ (r # Update /\ dir'[r] = None)
  <2>1. at'[r] = at[r] /\ target'[r] = target[r] /\ dir' = dir
    BY <1>3 DEF Waits, Before
  <2> QED
    BY <1>3, <2>1 DEF PartsInv
<1>4. ASSUME ~crashed, NEW r \in Runners
      PROVE  /\ at'[r] \in Before =>
                  installed["agent"] = process /\ installed["ui"] = process
             /\ at'[r] \in {"helper", "ui"} =>
                  /\ installed["ui"] = process
                  /\ r # Update /\ dir'[r] = None => installed["agent"] = process
             /\ at'[r] \in {"restart", "clean"} =>
                  installed["ui"] = installed["agent"]
             /\ at'[r] = "clean" => process = installed["agent"]
  <2>1. CASE at'[r] \in Before
    BY <1>2, <1>4, <2>1 DEF PartsInv, Waits, Before
  <2>2. CASE at'[r] \notin Before
    BY <1>4, <2>2 DEF PartsInv, Waits
  <2> QED
    BY <2>1, <2>2 DEF Before
<1> QED
  BY <1>1, <1>2, <1>3, <1>4 DEF PartsInv, Before

(* Every step keeps the parts as far as the runner has come.               *)
LEMMA StepKeepsParts ==
  ASSUME TypeOK, RunnersInv, ArchiveInv, PartsInv,
         [Next]_vars PROVE PartsInv'
<1>1. CASE Release
  BY <1>1, Distinct
     DEF TypeOK, RunnersInv, PartsInv, Sound, ArchivedAgain, Installing, Old, Parts,
         Archived, Release
<1>2. CASE Crash
  <2>1. Crashed
    BY <1>2, CrashEffect
  <2> QED
    BY <2>1 DEF Crashed, PartsInv
<1>3. ASSUME NEW d \in Downloads, NEW bundle \in Versions,
             Fetch(d, bundle) PROVE PartsInv'
  BY <1>3, Distinct
     DEF TypeOK, RunnersInv, PartsInv, Sound, ArchivedAgain, Installing, Old, Parts,
         Archived, Fetch, NotOlder, Staging
<1>4. ASSUME NEW d \in Downloads, BeginTarball(d) PROVE PartsInv'
  BY <1>4, Distinct
     DEF TypeOK, RunnersInv, PartsInv, Sound, ArchivedAgain, Installing, Old, Parts,
         Archived, BeginTarball, Staging
<1>5. ASSUME NEW d \in Downloads, EndTarball(d) PROVE PartsInv'
  BY <1>5, Distinct
     DEF TypeOK, RunnersInv, PartsInv, Sound, ArchivedAgain, Installing, Old, Parts,
         Archived, EndTarball, Staging
<1>6. ASSUME NEW d \in Downloads, WriteSig(d) PROVE PartsInv'
  BY <1>6, Distinct
     DEF TypeOK, RunnersInv, PartsInv, Sound, ArchivedAgain, Installing, Old, Parts,
         Archived, WriteSig, Staging, NoDownload
<1>7. CASE Apply
  <2>1. Moved(Update, {"off"}, {"started"})
    BY <1>7, MoveSteps
  <2>2. UNCHANGED <<installed, process, scenario, crashed>>
    BY <1>7 DEF Apply, Requests
  <2>3. lock' = None => NotBegun
    BY <1>7, <2>1, Distinct DEF Moved, NotBegun, Before, Apply, Requests
  <2>4. \A q \in Runners : Waits(q)
    BY <1>7, <2>1, Distinct
       DEF TypeOK, Moved, Waits, NotBegun, Before, Apply, Requests
  <2> QED
    BY <2>2, <2>3, <2>4, PartsKept
<1>8. ASSUME NEW v \in Versions, Rollback(v) PROVE PartsInv'
  <2>1. Moved(v, {"off"}, {"started"})
    BY <1>8, MoveSteps
  <2>2. UNCHANGED <<installed, process, scenario, crashed>>
    BY <1>8 DEF Rollback, Requests
  <2>3. lock' = None => NotBegun
    BY <1>8, <2>1, Distinct DEF Moved, NotBegun, Before, Rollback, Requests
  <2>4. \A q \in Runners : Waits(q)
    BY <1>8, <2>1, Distinct
       DEF TypeOK, Moved, Waits, NotBegun, Before, Rollback, Requests
  <2> QED
    BY <2>2, <2>3, <2>4, PartsKept
<1>9. CASE CheckUpdate
  <2>1. Moved(Update, {"check"}, {"unpack", "off"})
    BY <1>9, MoveSteps
  <2>2. UNCHANGED <<installed, process, scenario, crashed>>
    BY <1>9 DEF CheckUpdate
  <2>3. lock' = None => NotBegun
    BY <1>9, <2>1, Distinct DEF Moved, NotBegun, Before, CheckUpdate
  <2>4. \A q \in Runners : Waits(q)
    BY <1>9, <2>1, Distinct
       DEF TypeOK, Moved, Waits, NotBegun, Before, CheckUpdate
  <2> QED
    BY <2>2, <2>3, <2>4, PartsKept
<1>10. CASE Unpack
  <2>1. Moved(Update, {"unpack"}, {"archive", "off"})
    BY <1>10, MoveSteps
  <2>2. UNCHANGED <<installed, process, scenario, crashed>>
    BY <1>10 DEF Unpack
  <2>3. lock' = None => NotBegun
    BY <1>10, <2>1, Distinct DEF Moved, NotBegun, Before, Unpack
  <2>4. \A q \in Runners : Waits(q)
    BY <1>10, <2>1, Distinct
       DEF TypeOK, Moved, Waits, NotBegun, Before, Unpack
  <2> QED
    BY <2>2, <2>3, <2>4, PartsKept
<1>11. ASSUME NEW v \in Versions, CheckRollback(v) PROVE PartsInv'
  <2>1. Moved(v, {"check"}, {"archive", "off"})
    BY <1>11, MoveSteps
  <2>2. UNCHANGED <<installed, process, scenario, crashed>>
    BY <1>11 DEF CheckRollback
  <2>3. lock' = None => NotBegun
    BY <1>11, <2>1, Distinct DEF Moved, NotBegun, Before, CheckRollback
  <2>4. \A q \in Runners : Waits(q)
    BY <1>11, <2>1, Distinct
       DEF TypeOK, Moved, Waits, NotBegun, Before, CheckRollback
  <2> QED
    BY <2>2, <2>3, <2>4, PartsKept
<1>12. ASSUME NEW r \in Runners, TakeLock(r) PROVE PartsInv'
  <2>1. Moved(r, {"started"}, {"check", "off"})
    BY <1>12, MoveSteps
  <2>2. UNCHANGED <<installed, dir, target, process, scenario, crashed>>
    BY <1>12 DEF TakeLock
  <2>3. /\ lock' = None => lock = None
        /\ at'[r] = "check" => lock = None
    BY <1>12, Distinct DEF TypeOK, TakeLock, LockIsFree, GoTo
  <2> QED
    BY <2>1, <2>2, <2>3, PartsKept DEF Moved, Waits, NotBegun, Before
<1>13. ASSUME NEW r \in Runners, ArchiveBegin(r) PROVE PartsInv'
  <2>1. Moved(r, {"archive"}, {"keep agent", "agent"})
    BY <1>13, MoveSteps
  <2>2. UNCHANGED <<installed, process, scenario, crashed>>
    BY <1>13 DEF ArchiveBegin
  <2>3. lock' = None => NotBegun
    BY <1>13, <2>1, Distinct DEF Moved, NotBegun, Before, ArchiveBegin
  <2>4. \A q \in Runners : Waits(q)
    BY <1>13, <2>1, Distinct
       DEF TypeOK, Moved, Waits, NotBegun, Before, ArchiveBegin
  <2> QED
    BY <2>2, <2>3, <2>4, PartsKept
<1>20. ASSUME NEW r \in Runners, NEW p \in Archived, ArchiveCopy(r, p)
      PROVE  PartsInv'
  <2>1. Moved(r, {"keep agent", "keep ui"}, {"keep ui", "index"})
    BY <1>20, MoveSteps
  <2>2. UNCHANGED <<installed, process, scenario, crashed>>
    BY <1>20 DEF ArchiveCopy
  <2>3. lock' = None => NotBegun
    BY <1>20, <2>1, Distinct DEF Moved, NotBegun, Before, ArchiveCopy
  <2>4. \A q \in Runners : Waits(q)
    BY <1>20, <2>1, Distinct
       DEF TypeOK, Moved, Waits, NotBegun, Before, ArchiveCopy
  <2> QED
    BY <2>2, <2>3, <2>4, PartsKept
<1>14. ASSUME NEW r \in Runners, ArchiveIndex(r) PROVE PartsInv'
  <2>1. Moved(r, {"index"}, {"prune"})
    BY <1>14, MoveSteps
  <2>2. UNCHANGED <<installed, process, scenario, crashed>>
    BY <1>14 DEF ArchiveIndex
  <2>3. lock' = None => NotBegun
    BY <1>14, <2>1, Distinct DEF Moved, NotBegun, Before, ArchiveIndex
  <2>4. \A q \in Runners : Waits(q)
    BY <1>14, <2>1, Distinct
       DEF TypeOK, Moved, Waits, NotBegun, Before, ArchiveIndex
  <2> QED
    BY <2>2, <2>3, <2>4, PartsKept
<1>15. ASSUME NEW r \in Runners, ArchivePrune(r) PROVE PartsInv'
  <2>1. Moved(r, {"prune"}, {"agent"})
    BY <1>15, MoveSteps
  <2>2. UNCHANGED <<installed, process, scenario, crashed>>
    BY <1>15 DEF ArchivePrune
  <2>3. lock' = None => NotBegun
    BY <1>15, <2>1, Distinct DEF Moved, NotBegun, Before, ArchivePrune
  <2>4. \A q \in Runners : Waits(q)
    BY <1>15, <2>1, Distinct
       DEF TypeOK, Moved, Waits, NotBegun, Before, ArchivePrune
  <2> QED
    BY <2>2, <2>3, <2>4, PartsKept
<1>16. ASSUME NEW r \in Runners, NEW p \in Parts, Install(r, p)
      PROVE  PartsInv'
  <2>1. Installed(r, p)
    BY <1>16, InstallEffect
  <2>2. installed'["agent"] = IF p = "agent" THEN NewPart(r, p) ELSE Old
    BY <2>1 DEF Installed, Old, Parts
  <2>3. installed'["ui"] = IF p = "ui" THEN NewPart(r, p) ELSE installed["ui"]
    BY <2>1 DEF Installed, Parts
  <2>4. /\ UNCHANGED <<dir, crashed, target, process>>
        /\ lock' = r /\ lock' # None /\ lock = r /\ Sound' = Sound
    BY <2>1, Distinct DEF Installed, Sound, ArchivedAgain
  <2>5. \A q \in Runners : at'[q] # "clean" /\
          (at'[q] \in {"helper", "ui", "restart"} => q = r)
    BY <2>1 DEF Installed
  <2>6. ASSUME Sound, p = "agent"
        PROVE  Old' = target[r] \/ (r # Update /\ dir[r] = None)
    BY <2>1, <2>2, <2>6, NewPartIs, Distinct DEF Installed, Old
  <2>7. ASSUME ~crashed
        PROVE  /\ process \in Versions /\ Old' \in Versions
               /\ at'[r] \in {"helper", "ui"} => installed'["ui"] = process
               /\ at'[r] \in {"helper", "ui"} /\ r # Update /\ dir[r] = None =>
                    Old' = process
               /\ at'[r] = "restart" => installed'["ui"] = Old'
    <3>1. process \in Versions /\ Old \in Versions /\ Sound
      BY <2>7 DEF PartsInv, Sound
    <3>2. CASE p = "agent"
      <4>1. Old = process /\ installed["ui"] = process /\ at[r] = "agent"
            /\ at'[r] = "helper"
        BY <2>1, <2>7, <3>2 DEF PartsInv, Installed, Old
      <4>2. Old' \in Versions
        <5>1. r = Update => target[r] \in Versions
          BY <4>1 DEF RunnersInv, Installing
        <5>2. r # Update => target[r] \in Versions
          BY Distinct DEF RunnersInv
        <5> QED
          BY <2>2, <2>6, <3>1, <3>2, <4>1, <5>1, <5>2, NewPartIs DEF Old
      <4>3. r # Update /\ dir[r] = None => Old' = process
        BY <2>2, <3>2, <4>1, NewPartIs DEF Old
      <4> QED
        BY <2>3, <3>1, <3>2, <4>1, <4>2, <4>3
    <3>3. CASE p = "helper"
      BY <2>1, <2>2, <2>3, <2>7, <3>1, <3>3 DEF Installed, PartsInv, Old
    <3>4. CASE p = "ui"
      <4>1. /\ at[r] = "ui" /\ at'[r] = "restart" /\ Old' = Old
            /\ installed'["ui"] = NewPart(r, p)
        BY <2>1, <2>2, <2>3, <3>4 DEF Installed, Old
      <4>2. /\ installed["ui"] = process
            /\ r # Update /\ dir[r] = None => Old = process
            /\ Old = target[r] \/ (r # Update /\ dir[r] = None)
        BY <2>7, <3>1, <4>1 DEF PartsInv, Old
      <4>3. NewPart(r, p) = Old
        BY <2>7, <3>4, <4>1, <4>2, NewPartIs
      <4> QED
        BY <3>1, <4>1, <4>3
    <3> QED
      BY <3>2, <3>3, <3>4 DEF Parts
  <2>8. ASSUME Sound, p # "agent"
        PROVE  Old' = target[r] \/ (r # Update /\ dir[r] = None)
    BY <2>1, <2>2, <2>8 DEF Installed, PartsInv, Old
  <2>9. at'[r] \in {"helper", "ui", "restart"}
    BY <2>1 DEF Installed
  <2>10. \A q \in Runners : q # r => at'[q] \in {"off", "started"}
    BY <2>1 DEF Installed
  <2> QED
    BY <2>4, <2>6, <2>7, <2>8, <2>9, <2>10 DEF PartsInv, Old
<1>17. ASSUME NEW r \in Runners, RestartAgent(r) PROVE PartsInv'
  <2>1. Moved(r, {"restart"}, {"clean"})
    BY <1>17, MoveSteps
  <2>2. /\ UNCHANGED <<installed, dir, target, lock, scenario, crashed>>
        /\ process' = Old /\ Old' = Old /\ Sound' = Sound /\ lock = r
    BY <1>17, <2>1
       DEF RestartAgent, StartsAgent, Old, Sound, ArchivedAgain, Moved
  <2> QED
    BY <2>1, <2>2, Distinct DEF Moved, PartsInv, Old
<1>18. ASSUME NEW r \in Runners, Clean(r) PROVE PartsInv'
  <2>1. Moved(r, {"clean"}, {"off"})
    BY <1>18, MoveSteps
  <2>2. /\ UNCHANGED <<installed, dir, target, process, scenario, crashed>>
        /\ Old' = Old /\ Sound' = Sound
    BY <1>18 DEF Clean, Old, Sound, ArchivedAgain
  <2> QED
    BY <2>1, <2>2, Distinct DEF Moved, PartsInv
<1>19. CASE UNCHANGED vars
  BY <1>19, Distinct
     DEF TypeOK, RunnersInv, PartsInv, Sound, ArchivedAgain, Installing, Old, Parts,
         Archived, vars
<1> QED
  BY <1>1, <1>2, <1>3, <1>4, <1>5, <1>6, <1>7, <1>8, <1>9, <1>10, <1>11,
     <1>12, <1>13, <1>14, <1>15, <1>16, <1>17, <1>18, <1>19, <1>20
     DEF Next, RunnerStep

(* A step that changes neither what is installed nor the list.             *)
LEMMA BackKept ==
  ASSUME BackInv, UNCHANGED <<installed, index, previous, scenario, crashed>>,
         \A r \in Runners :
           \/ at'[r] = at[r] /\ target'[r] = target[r]
           \/ at'[r] \notin {"prune", "agent"}
           \/ crashed \/ "disk" \in scenario \/ Old = target'[r]
           \/ at[r] = "prune" /\ target'[r] = target[r]
  PROVE  BackInv'
<1>1. Old' = Old
  BY DEF Old
<1> QED
  BY <1>1 DEF BackInv

(* Every step keeps the way back open.                                     *)
LEMMA StepKeepsBack ==
  ASSUME TypeOK, RunnersInv, ArchiveInv, PartsInv,
         BackInv, [Next]_vars PROVE BackInv'
<1>1. CASE Release
  <2>2. UNCHANGED <<installed, index, previous, scenario, crashed>>
    BY <1>1 DEF Release
  <2>3. \A q \in Runners :
          \/ at'[q] = at[q] /\ target'[q] = target[q]
          \/ at'[q] \notin {"prune", "agent"}
          \/ crashed \/ "disk" \in scenario \/ Old = target'[q]
          \/ at[q] = "prune" /\ target'[q] = target[q]
    BY <1>1, Distinct DEF TypeOK, Moved, PartsInv, Release
  <2> QED
    BY <2>2, <2>3, BackKept
<1>2. CASE Crash
  <2>1. crashed'
    BY <1>2 DEF Crash
  <2> QED
    BY <2>1 DEF BackInv
<1>3. ASSUME NEW d \in Downloads, NEW bundle \in Versions,
             Fetch(d, bundle) PROVE BackInv'
  <2>2. UNCHANGED <<installed, index, previous, scenario, crashed>>
    BY <1>3 DEF Fetch, Staging
  <2>3. \A q \in Runners :
          \/ at'[q] = at[q] /\ target'[q] = target[q]
          \/ at'[q] \notin {"prune", "agent"}
          \/ crashed \/ "disk" \in scenario \/ Old = target'[q]
          \/ at[q] = "prune" /\ target'[q] = target[q]
    BY <1>3, Distinct DEF TypeOK, Moved, PartsInv, Fetch, Staging
  <2> QED
    BY <2>2, <2>3, BackKept
<1>4. ASSUME NEW d \in Downloads, BeginTarball(d) PROVE BackInv'
  <2>2. UNCHANGED <<installed, index, previous, scenario, crashed>>
    BY <1>4 DEF BeginTarball, Staging
  <2>3. \A q \in Runners :
          \/ at'[q] = at[q] /\ target'[q] = target[q]
          \/ at'[q] \notin {"prune", "agent"}
          \/ crashed \/ "disk" \in scenario \/ Old = target'[q]
          \/ at[q] = "prune" /\ target'[q] = target[q]
    BY <1>4, Distinct DEF TypeOK, Moved, PartsInv, BeginTarball, Staging
  <2> QED
    BY <2>2, <2>3, BackKept
<1>5. ASSUME NEW d \in Downloads, EndTarball(d) PROVE BackInv'
  <2>2. UNCHANGED <<installed, index, previous, scenario, crashed>>
    BY <1>5 DEF EndTarball, Staging
  <2>3. \A q \in Runners :
          \/ at'[q] = at[q] /\ target'[q] = target[q]
          \/ at'[q] \notin {"prune", "agent"}
          \/ crashed \/ "disk" \in scenario \/ Old = target'[q]
          \/ at[q] = "prune" /\ target'[q] = target[q]
    BY <1>5, Distinct DEF TypeOK, Moved, PartsInv, EndTarball, Staging
  <2> QED
    BY <2>2, <2>3, BackKept
<1>6. ASSUME NEW d \in Downloads, WriteSig(d) PROVE BackInv'
  <2>2. UNCHANGED <<installed, index, previous, scenario, crashed>>
    BY <1>6 DEF WriteSig, Staging
  <2>3. \A q \in Runners :
          \/ at'[q] = at[q] /\ target'[q] = target[q]
          \/ at'[q] \notin {"prune", "agent"}
          \/ crashed \/ "disk" \in scenario \/ Old = target'[q]
          \/ at[q] = "prune" /\ target'[q] = target[q]
    BY <1>6, Distinct DEF TypeOK, Moved, PartsInv, WriteSig, Staging
  <2> QED
    BY <2>2, <2>3, BackKept
<1>7. CASE Apply
  <2>1. Moved(Update, {"off"}, {"started"})
    BY <1>7, MoveSteps
  <2>2. UNCHANGED <<installed, index, previous, scenario, crashed>>
    BY <1>7 DEF Apply, Requests
  <2>3. \A q \in Runners :
          \/ at'[q] = at[q] /\ target'[q] = target[q]
          \/ at'[q] \notin {"prune", "agent"}
          \/ crashed \/ "disk" \in scenario \/ Old = target'[q]
          \/ at[q] = "prune" /\ target'[q] = target[q]
    BY <1>7, <2>1, Distinct DEF TypeOK, Moved, PartsInv, Apply, Requests
  <2> QED
    BY <2>2, <2>3, BackKept
<1>8. ASSUME NEW v \in Versions, Rollback(v) PROVE BackInv'
  <2>1. Moved(v, {"off"}, {"started"})
    BY <1>8, MoveSteps
  <2>2. UNCHANGED <<installed, index, previous, scenario, crashed>>
    BY <1>8 DEF Rollback, Requests
  <2>3. \A q \in Runners :
          \/ at'[q] = at[q] /\ target'[q] = target[q]
          \/ at'[q] \notin {"prune", "agent"}
          \/ crashed \/ "disk" \in scenario \/ Old = target'[q]
          \/ at[q] = "prune" /\ target'[q] = target[q]
    BY <1>8, <2>1, Distinct DEF TypeOK, Moved, PartsInv, Rollback, Requests
  <2> QED
    BY <2>2, <2>3, BackKept
<1>9. CASE CheckUpdate
  <2>1. Moved(Update, {"check"}, {"unpack", "off"})
    BY <1>9, MoveSteps
  <2>2. UNCHANGED <<installed, index, previous, scenario, crashed>>
    BY <1>9 DEF CheckUpdate
  <2>3. \A q \in Runners :
          \/ at'[q] = at[q] /\ target'[q] = target[q]
          \/ at'[q] \notin {"prune", "agent"}
          \/ crashed \/ "disk" \in scenario \/ Old = target'[q]
          \/ at[q] = "prune" /\ target'[q] = target[q]
    BY <1>9, <2>1, Distinct DEF TypeOK, Moved, PartsInv, CheckUpdate
  <2> QED
    BY <2>2, <2>3, BackKept
<1>10. CASE Unpack
  <2>1. Moved(Update, {"unpack"}, {"archive", "off"})
    BY <1>10, MoveSteps
  <2>2. UNCHANGED <<installed, index, previous, scenario, crashed>>
    BY <1>10 DEF Unpack
  <2>3. \A q \in Runners :
          \/ at'[q] = at[q] /\ target'[q] = target[q]
          \/ at'[q] \notin {"prune", "agent"}
          \/ crashed \/ "disk" \in scenario \/ Old = target'[q]
          \/ at[q] = "prune" /\ target'[q] = target[q]
    BY <1>10, <2>1, Distinct DEF TypeOK, Moved, PartsInv, Unpack
  <2> QED
    BY <2>2, <2>3, BackKept
<1>11. ASSUME NEW v \in Versions, CheckRollback(v) PROVE BackInv'
  <2>1. Moved(v, {"check"}, {"archive", "off"})
    BY <1>11, MoveSteps
  <2>2. UNCHANGED <<installed, index, previous, scenario, crashed>>
    BY <1>11 DEF CheckRollback
  <2>3. \A q \in Runners :
          \/ at'[q] = at[q] /\ target'[q] = target[q]
          \/ at'[q] \notin {"prune", "agent"}
          \/ crashed \/ "disk" \in scenario \/ Old = target'[q]
          \/ at[q] = "prune" /\ target'[q] = target[q]
    BY <1>11, <2>1, Distinct DEF TypeOK, Moved, PartsInv, CheckRollback
  <2> QED
    BY <2>2, <2>3, BackKept
<1>12. ASSUME NEW r \in Runners, TakeLock(r) PROVE BackInv'
  <2>1. Moved(r, {"started"}, {"check", "off"})
    BY <1>12, MoveSteps
  <2>2. UNCHANGED <<installed, index, previous, scenario, crashed>>
    BY <1>12 DEF TakeLock
  <2>3. \A q \in Runners :
          \/ at'[q] = at[q] /\ target'[q] = target[q]
          \/ at'[q] \notin {"prune", "agent"}
          \/ crashed \/ "disk" \in scenario \/ Old = target'[q]
          \/ at[q] = "prune" /\ target'[q] = target[q]
    BY <1>12, <2>1, Distinct DEF TypeOK, Moved, PartsInv, TakeLock
  <2> QED
    BY <2>2, <2>3, BackKept
<1>13. ASSUME NEW r \in Runners, ArchiveBegin(r) PROVE BackInv'
  <2>1. Moved(r, {"archive"}, {"keep agent", "agent"})
    BY <1>13, MoveSteps
  <2>2. UNCHANGED <<installed, index, previous, scenario, crashed, target>>
    BY <1>13 DEF ArchiveBegin
  <2>3. at'[r] = "keep agent" \/ Old = target[r] \/ "disk" \in scenario
        \/ Old \notin Versions
    BY <1>13 DEF TypeOK, ArchiveBegin, GoTo
  <2>4. Old \notin Versions => crashed
    BY DEF PartsInv
  <2> QED
    BY <2>1, <2>2, <2>3, <2>4, BackKept DEF Moved
<1>20. ASSUME NEW r \in Runners, NEW p \in Archived, ArchiveCopy(r, p)
      PROVE  BackInv'
  <2>1. Moved(r, {"keep agent", "keep ui"}, {"keep ui", "index"})
    BY <1>20, MoveSteps
  <2>2. UNCHANGED <<installed, index, previous, scenario, crashed>>
    BY <1>20 DEF ArchiveCopy
  <2>3. \A q \in Runners :
          \/ at'[q] = at[q] /\ target'[q] = target[q]
          \/ at'[q] \notin {"prune", "agent"}
          \/ crashed \/ "disk" \in scenario \/ Old = target'[q]
          \/ at[q] = "prune" /\ target'[q] = target[q]
    BY <1>20, <2>1, Distinct DEF TypeOK, Moved, PartsInv, ArchiveCopy
  <2> QED
    BY <2>2, <2>3, BackKept
<1>14. ASSUME NEW r \in Runners, ArchiveIndex(r) PROVE BackInv'
  <2>1. /\ Old \in Versions
        /\ UNCHANGED <<installed, previous, scenario, crashed, target>>
    BY <1>14 DEF RunnersInv, ArchiveIndex
  <2>2. index' = Added(Old) /\ index'[1] = Old /\ Len(index') \in 1 .. Keep
    BY <1>14, <2>1, AddedKept DEF TypeOK, ArchiveIndex
  <2>3. /\ ~crashed /\ Len(index) >= 1 /\ index[1] = previous =>
             Len(index') >= 2 /\ index'[2] = previous
        /\ Len(index) >= 2 /\ index[1] = Old /\ index[2] = previous =>
             Len(index') >= 2 /\ index'[2] = previous
    BY <2>1, <2>2, AddedKept DEF TypeOK, BackInv
  <2>4. Old' = Old
    BY <2>1 DEF Old
  <2> QED
    BY <2>1, <2>2, <2>3, <2>4 DEF BackInv
<1>15. ASSUME NEW r \in Runners, ArchivePrune(r) PROVE BackInv'
  <2>1. Moved(r, {"prune"}, {"agent"})
    BY <1>15, MoveSteps
  <2>2. UNCHANGED <<installed, index, previous, scenario, crashed>>
    BY <1>15 DEF ArchivePrune
  <2>3. \A q \in Runners :
          \/ at'[q] = at[q] /\ target'[q] = target[q]
          \/ at'[q] \notin {"prune", "agent"}
          \/ crashed \/ "disk" \in scenario \/ Old = target'[q]
          \/ at[q] = "prune" /\ target'[q] = target[q]
    BY <1>15, <2>1, Distinct DEF TypeOK, Moved, PartsInv, ArchivePrune
  <2> QED
    BY <2>2, <2>3, BackKept
<1>16. ASSUME NEW r \in Runners, NEW p \in Parts, Install(r, p) PROVE BackInv'
  <2>1. Installed(r, p)
    BY <1>16, InstallEffect
  <2>2. \A q \in Runners : at'[q] \notin {"prune", "agent"}
    BY <2>1 DEF Installed
  <2>3. CASE Old' = Old
    BY <2>1, <2>2, <2>3 DEF Installed, BackInv, Old
  <2>4. CASE crashed
    BY <2>1, <2>4 DEF Installed, BackInv
  <2>5. CASE Old' # Old /\ ~crashed
    <3>1. p = "agent" /\ at[r] = "agent" /\ Sound
      BY <2>1, <2>5 DEF Installed, Old, Parts, Sound
    <3>2. Old' = target[r]
      BY <2>1, <2>5, <3>1, NewPartIs DEF Installed, Old
    <3>3. Old \in Versions /\ Old # None
      BY <2>5, UpdaterConstants, Distinct DEF PartsInv, Versions
    <3>4. UNCHANGED <<index, scenario, crashed>> /\ previous' = Old
      BY <2>1, <2>5, <3>3 DEF Installed, Old
    <3> QED
      BY <2>2, <2>5, <3>1, <3>2, <3>3, <3>4 DEF BackInv
  <2> QED
    BY <2>3, <2>4, <2>5
<1>17. ASSUME NEW r \in Runners, RestartAgent(r) PROVE BackInv'
  <2>1. Moved(r, {"restart"}, {"clean"})
    BY <1>17, MoveSteps
  <2>2. UNCHANGED <<installed, index, previous, scenario, crashed>>
    BY <1>17 DEF RestartAgent
  <2>3. \A q \in Runners :
          \/ at'[q] = at[q] /\ target'[q] = target[q]
          \/ at'[q] \notin {"prune", "agent"}
          \/ crashed \/ "disk" \in scenario \/ Old = target'[q]
          \/ at[q] = "prune" /\ target'[q] = target[q]
    BY <1>17, <2>1, Distinct DEF TypeOK, Moved, PartsInv, RestartAgent
  <2> QED
    BY <2>2, <2>3, BackKept
<1>18. ASSUME NEW r \in Runners, Clean(r) PROVE BackInv'
  <2>1. Moved(r, {"clean"}, {"off"})
    BY <1>18, MoveSteps
  <2>2. UNCHANGED <<installed, index, previous, scenario, crashed>>
    BY <1>18 DEF Clean
  <2>3. \A q \in Runners :
          \/ at'[q] = at[q] /\ target'[q] = target[q]
          \/ at'[q] \notin {"prune", "agent"}
          \/ crashed \/ "disk" \in scenario \/ Old = target'[q]
          \/ at[q] = "prune" /\ target'[q] = target[q]
    BY <1>18, <2>1, Distinct DEF TypeOK, Moved, PartsInv, Clean
  <2> QED
    BY <2>2, <2>3, BackKept
<1>19. CASE UNCHANGED vars
  <2>2. UNCHANGED <<installed, index, previous, scenario, crashed>>
    BY <1>19 DEF vars
  <2>3. \A q \in Runners :
          \/ at'[q] = at[q] /\ target'[q] = target[q]
          \/ at'[q] \notin {"prune", "agent"}
          \/ crashed \/ "disk" \in scenario \/ Old = target'[q]
          \/ at[q] = "prune" /\ target'[q] = target[q]
    BY <1>19, Distinct DEF TypeOK, Moved, PartsInv, vars
  <2> QED
    BY <2>2, <2>3, BackKept
<1> QED
  BY <1>1, <1>2, <1>3, <1>4, <1>5, <1>6, <1>7, <1>8, <1>9, <1>10, <1>11,
     <1>12, <1>13, <1>14, <1>15, <1>16, <1>17, <1>18, <1>19, <1>20
     DEF Next, RunnerStep

(* What is there, staged or running is a version, a number.                *)
LEMMA StagedType ==
  ASSUME TypeOK, RunnersInv, PartsInv, ~crashed
  PROVE  /\ Present \subseteq Nat /\ Fetching \subseteq Nat /\ Old \in Nat
         /\ latest \in Nat /\ process \in Nat /\ Old \in Present
         /\ (at[Update] \in Installing => target[Update] \in Nat)
<1>1. Old \in Versions /\ process \in Versions
  BY DEF PartsInv
<1>2. Present \subseteq Versions /\ Old \in Present
  BY <1>1 DEF Present
<1>3. Fetching \subseteq Versions
  BY DEF RunnersInv, Fetching
<1>4. latest \in Versions
  BY DEF TypeOK
<1>5. at[Update] \in Installing => target[Update] \in Versions
  BY DEF RunnersInv
<1> QED
  BY <1>1, <1>2, <1>3, <1>4, <1>5, Distinct

(* The other steps install nothing, stage nothing but what a download has  *)
(* fetched, and let an update install what is staged.                      *)
Calm ==
  \/ \E d \in Downloads : BeginTarball(d) \/ EndTarball(d) \/ WriteSig(d)
  \/ Apply \/ CheckUpdate \/ Unpack
  \/ \E v \in Versions : Rollback(v) \/ CheckRollback(v)
  \/ \E r \in Runners :
       \/ TakeLock(r) \/ ArchiveBegin(r) \/ ArchiveIndex(r) \/ ArchivePrune(r)
       \/ \E p \in Archived : ArchiveCopy(r, p)
  \/ UNCHANGED vars

Early == {"archive", "keep agent", "keep ui", "index", "prune", "agent"}

UpdateMoves ==
  LET from == at[Update]
      to == at'[Update]
  IN  \/ to = from /\ target'[Update] = target[Update]
      \/ from \notin {"helper", "ui", "restart", "clean"}
           /\ to \in {"off", "started", "check", "unpack"}
      \/ from \in Early /\ to \in Early /\ target'[Update] = target[Update]
      \/ /\ from = "unpack" /\ to = "archive"
         /\ tarball \in Versions /\ target'[Update] = tarball

Calmly ==
  /\ UNCHANGED <<scenario, crashed, latest, process>> /\ UpdateMoves
  /\ Present' \subseteq Present /\ Fetching' \subseteq Fetching
  /\ tarball' = tarball \/ tarball' \notin Versions \/ tarball' \in Fetching
  /\ "back" \notin scenario => \A v \in Versions : at[v] = "off" => at'[v] = "off"

LEMMA CalmEffect ==
  ASSUME TypeOK, RunnersInv, ArchiveInv, Calm PROVE Calmly
<1> DEFINE Still == UNCHANGED <<scenario, crashed, latest, process>>
           Same == Present' \subseteq Present /\ Fetching' \subseteq Fetching
           Staged == tarball' = tarball \/ tarball' \notin Versions
                     \/ tarball' \in Fetching
           Away == "back" \notin scenario =>
                     \A v \in Versions : at[v] = "off" => at'[v] = "off"
<1>1. ASSUME UNCHANGED <<installed, dir>> PROVE Present' = Present
  BY <1>1 DEF Present, Old
<1>2. ASSUME NEW d \in Downloads, BeginTarball(d) \/ EndTarball(d) \/ WriteSig(d)
      PROVE  Calmly
  <2>1. Still /\ UNCHANGED <<installed, dir, at, target>>
    BY <1>2 DEF BeginTarball, EndTarball, WriteSig, Staging
  <2>2. \A e \in Downloads : download'[e].at # "idle" =>
          download[e].at # "idle" /\ download'[e].version = download[e].version
    BY <1>2 DEF TypeOK, BeginTarball, EndTarball, WriteSig, NoDownload
  <2>3. Fetching' \subseteq Fetching
    BY <2>2 DEF Fetching
  <2>4. Staged
    BY <1>2, Distinct DEF BeginTarball, EndTarball, WriteSig, Fetching
  <2> QED
    BY <1>1, <2>1, <2>3, <2>4 DEF Calmly, UpdateMoves
<1>3. ASSUME UNCHANGED download PROVE Fetching' = Fetching
  BY <1>3 DEF Fetching
<1>4. CASE Apply
  <2>1. Moved(Update, {"off"}, {"started"})
    BY <1>4, MoveSteps
  <2> QED
    BY <1>1, <1>3, <1>4, <2>1, Distinct
       DEF Apply, Requests, Moved, Calmly, UpdateMoves
<1>5. CASE CheckUpdate
  <2>1. Moved(Update, {"check"}, {"unpack", "off"})
    BY <1>5, MoveSteps
  <2> QED
    BY <1>1, <1>3, <1>5, <2>1, Distinct
       DEF CheckUpdate, Moved, Calmly, UpdateMoves
<1>6. CASE Unpack
  <2>1. Moved(Update, {"unpack"}, {"archive", "off"})
    BY <1>6, MoveSteps
  <2>2. Still /\ UNCHANGED <<installed, dir, download, tarball>>
    BY <1>6 DEF Unpack
  <2>3. at'[Update] = "archive" => tarball # Torn
    BY <1>6, Distinct DEF TypeOK, Unpack, Exit, GoTo
  <2>4. tarball # Torn => tarball \in Versions /\ target'[Update] = tarball
    BY <1>6, Distinct DEF TypeOK, RunnersInv, Unpack
  <2> QED
    BY <1>1, <1>3, <2>1, <2>2, <2>3, <2>4, Distinct
       DEF Moved, Calmly, UpdateMoves
<1>7. ASSUME NEW v \in Versions, Rollback(v) PROVE Calmly
  <2>1. Moved(v, {"off"}, {"started"})
    BY <1>7, MoveSteps
  <2> QED
    BY <1>1, <1>3, <1>7, <2>1, Distinct
       DEF Rollback, Requests, Moved, Calmly, UpdateMoves
<1>8. ASSUME NEW v \in Versions, CheckRollback(v) PROVE Calmly
  <2>1. Moved(v, {"check"}, {"archive", "off"})
    BY <1>8, MoveSteps
  <2> QED
    BY <1>1, <1>3, <1>8, <2>1, Distinct
       DEF CheckRollback, Moved, Calmly, UpdateMoves
<1>9. ASSUME NEW r \in Runners, NEW from, NEW to, Moved(r, from, to),
             \/ from = {"started"} /\ to = {"check", "off"}
             \/ from \subseteq Early /\ to \subseteq Early,
             UNCHANGED <<scenario, crashed, latest, process, tarball, download,
                         target>>,
             Present' \subseteq Present
      PROVE  Calmly
  <2>1. UpdateMoves
    BY <1>9, Distinct DEF Moved, UpdateMoves, Early
  <2>2. \A v \in Versions : at[v] = "off" => at'[v] = "off"
    BY <1>9, Distinct DEF Moved, Early
  <2> QED
    BY <1>3, <1>9, <2>1, <2>2 DEF Calmly
<1>10. ASSUME NEW r \in Runners, TakeLock(r) PROVE Calmly
  <2>1. Moved(r, {"started"}, {"check", "off"})
    BY <1>10, MoveSteps
  <2> QED
    BY <1>1, <1>9, <1>10, <2>1 DEF TakeLock
<1>11. ASSUME NEW r \in Runners, ArchiveBegin(r) PROVE Calmly
  <2>1. Moved(r, {"archive"}, {"keep agent", "agent"})
    BY <1>11, MoveSteps
  <2>2. Present' \subseteq Present
    BY <1>11 DEF TypeOK, ArchiveBegin, Present, Old
  <2> QED
    BY <1>9, <1>11, <2>1, <2>2 DEF ArchiveBegin, Early
<1>12. ASSUME NEW r \in Runners, NEW p \in Archived, ArchiveCopy(r, p)
       PROVE  Calmly
  <2>1. Moved(r, {"keep agent", "keep ui"}, {"keep ui", "index"})
    BY <1>12, MoveSteps
  <2>2. Old \in Versions /\ dir[Old] # None
    BY <2>1 DEF Moved, RunnersInv, ArchiveInv, RunInv
  <2>3. installed[p] \in Versions \cup {Torn, None}
    BY DEF TypeOK, Archived
  <2>4. \A v \in Versions : v # Old => dir'[v] = dir[v]
    BY <1>12, <2>2, <2>3, EntryWritten DEF ArchiveCopy
  <2>5. Present' \subseteq Present
    BY <1>12, <2>4 DEF ArchiveCopy, Present, Old
  <2> QED
    BY <1>9, <1>12, <2>1, <2>5 DEF ArchiveCopy, Early
<1>13. ASSUME NEW r \in Runners, ArchiveIndex(r) PROVE Calmly
  <2>1. Moved(r, {"index"}, {"prune"})
    BY <1>13, MoveSteps
  <2> QED
    BY <1>1, <1>9, <1>13, <2>1 DEF ArchiveIndex, Early
<1>14. ASSUME NEW r \in Runners, ArchivePrune(r) PROVE Calmly
  <2>1. Moved(r, {"prune"}, {"agent"})
    BY <1>14, MoveSteps
  <2>2. Present' \subseteq Present
    BY <1>14 DEF ArchivePrune, Present, Old
  <2> QED
    BY <1>9, <1>14, <2>1, <2>2 DEF ArchivePrune, Early
<1>15. CASE UNCHANGED vars
  BY <1>1, <1>3, <1>15 DEF vars, Calmly, UpdateMoves
<1> QED
  BY <1>2, <1>4, <1>5, <1>6, <1>7, <1>8, <1>10, <1>11, <1>12, <1>13, <1>14,
     <1>15 DEF Calm

(* Every step keeps what is staged as new as what is there.                *)
LEMMA StepKeepsGrow ==
  ASSUME TypeOK, RunnersInv, ArchiveInv, PartsInv,
         GrowInv, [Next]_vars PROVE GrowInv'
<1>1. CASE Release
  <2>1. Present' = Present /\ Fetching' = Fetching
    BY <1>1 DEF Release, Present, Fetching, Old
  <2>2. UNCHANGED <<scenario, crashed, process, tarball, at, target>>
    BY <1>1 DEF Release
  <2>3. "withdrawn" \notin scenario => latest' = latest + 1
    BY <1>1 DEF Release
  <2>4. tarball \in Versions => tarball \in Nat
    BY Distinct
  <2>5. CASE crashed \/ {"withdrawn", "mislabelled"} \cap scenario # {}
    BY <2>2, <2>5 DEF GrowInv
  <2>6. CASE ~crashed /\ {"withdrawn", "mislabelled"} \cap scenario = {}
    <3>1. \A n \in Nat : n <= latest => n <= latest'
      BY <2>3, <2>6, StagedType
    <3>2. process <= latest' /\ \A v \in Present : v <= latest'
      BY <2>6, <3>1, StagedType DEF GrowInv
    <3>3. /\ \A s \in Fetching : s <= latest'
          /\ tarball \in Versions => tarball <= latest'
          /\ at[Update] \in Installing => target[Update] <= latest'
      BY <2>4, <2>6, <3>1, StagedType DEF GrowInv
    <3> QED
      BY <2>1, <2>2, <2>6, <3>2, <3>3 DEF GrowInv
  <2> QED
    BY <2>5, <2>6
<1>2. CASE Crash
  <2>1. crashed'
    BY <1>2 DEF Crash
  <2> QED
    BY <2>1 DEF GrowInv
<1>3. ASSUME NEW d \in Downloads, NEW bundle \in Versions,
             Fetch(d, bundle) PROVE GrowInv'
  <2>1. /\ UNCHANGED <<scenario, crashed, process, latest, tarball, at, target>>
        /\ Present' = Present
    BY <1>3 DEF Fetch, Staging, Present, Old
  <2>2. CASE crashed \/ {"withdrawn", "mislabelled"} \cap scenario # {}
    BY <2>1, <2>2 DEF GrowInv
  <2>3. CASE ~crashed /\ {"withdrawn", "mislabelled"} \cap scenario = {}
    <3>1. \A s \in Fetching' : s \in Fetching \/ s = latest
      BY <1>3, <2>3 DEF TypeOK, Fetch, Fetching
    <3>2. latest \in Nat /\ latest <= latest
      BY <2>3, StagedType
    <3>3. /\ \A v \in Present : v <= latest
          /\ \A s \in Fetching : s <= latest
          /\ at[Update] \notin {"helper", "ui", "restart"} =>
               \A v \in Present, s \in Fetching : v <= s
      BY <2>3 DEF GrowInv
    <3>4. /\ \A s \in Fetching' : s <= latest
          /\ at[Update] \notin {"helper", "ui", "restart"} =>
               \A v \in Present, s \in Fetching' : v <= s
      BY <3>1, <3>2, <3>3
    <3> QED
      BY <2>1, <2>3, <3>3, <3>4 DEF GrowInv
  <2> QED
    BY <2>2, <2>3
<1>4. CASE Calm
  <2>1. Calmly
    BY <1>4, CalmEffect
  <2>2. CASE crashed \/ {"withdrawn", "mislabelled"} \cap scenario # {}
    BY <2>1, <2>2 DEF Calmly, GrowInv
  <2>3. CASE ~crashed /\ {"withdrawn", "mislabelled"} \cap scenario = {}
    <3>1. at'[Update] \in Early => \A v \in Present : v <= target'[Update]
      BY <2>1, <2>3 DEF Calmly, UpdateMoves, GrowInv, Early
    <3>2. at'[Update] \in Installing => target'[Update] <= latest
      BY <2>1, <2>3 DEF Calmly, UpdateMoves, GrowInv, Early, Installing
    <3>3. /\ at'[Update] \notin {"helper", "ui", "restart"} =>
               at[Update] \notin {"helper", "ui", "restart"}
          /\ at'[Update] \notin {"helper", "ui", "restart", "clean"} =>
               at[Update] \notin {"helper", "ui", "restart", "clean"}
      BY <2>1 DEF Calmly, UpdateMoves, Early
    <3>4. tarball' \in Versions => tarball' <= latest
      BY <2>1, <2>3 DEF Calmly, GrowInv
    <3>5. tarball' \in Versions
            /\ at'[Update] \notin {"helper", "ui", "restart", "clean"} =>
              \A v \in Present : v <= tarball'
      BY <2>1, <2>3, <3>3 DEF Calmly, GrowInv
    <3> QED
      BY <2>1, <2>3, <3>1, <3>2, <3>3, <3>4, <3>5 DEF Calmly, GrowInv, Early
  <2> QED
    BY <2>2, <2>3
<1>5. ASSUME NEW r \in Runners, NEW p \in Parts, Install(r, p) PROVE GrowInv'
  <2>1. Installed(r, p)
    BY <1>5, InstallEffect
  <2>2. UNCHANGED <<scenario, crashed, latest, process, tarball, target>>
        /\ Fetching' = Fetching
    BY <2>1 DEF Installed, Fetching
  <2>3. CASE Old' = Old
    <3>1. Present' = Present
      BY <2>1, <2>3 DEF Installed, Present
    <3>2. \/ at'[Update] = at[Update]
          \/ at'[Update] \in {"helper", "ui", "restart"}
             /\ at[Update] \in {"agent", "helper", "ui"}
      BY <2>1, Distinct DEF Installed
    <3> QED
      BY <2>2, <3>1, <3>2 DEF GrowInv, Installing
  <2>4. CASE Old' # Old
    <3>1. p = "agent" /\ at[r] = "agent" /\ at'[r] = "helper"
          /\ Old' = NewPart(r, p) /\ UNCHANGED dir
      BY <2>1, <2>4 DEF Installed, Old, Parts
    <3>2. CASE r = Update
      <4>1. (Old' = target[Update] /\ target[Update] <= latest) \/ crashed
            \/ {"withdrawn", "mislabelled"} \cap scenario # {}
        BY <3>1, <3>2, NewPartIs DEF GrowInv, Installing
      <4>2. \A v \in Present' : v = Old' \/ v \in Present
        BY <3>1 DEF Present
      <4> QED
        BY <2>2, <3>1, <3>2, <4>1, <4>2 DEF GrowInv, Installing
    <3>4. CASE crashed
      BY <2>2, <3>4 DEF GrowInv
    <3>3. CASE r # Update /\ ~crashed
      <4>1. r \in Versions /\ dir[r] # None /\ Old' = r
        BY <2>4, <3>1, <3>3, NewPartIs, Distinct DEF Old, Sound
      <4>2. Present' \subseteq Present
        BY <3>1, <4>1 DEF Present
      <4>3. at'[Update] = at[Update]
        BY <2>1, <3>3, Distinct DEF Installed
      <4> QED
        BY <2>2, <4>2, <4>3 DEF GrowInv
    <3> QED
      BY <3>2, <3>3, <3>4
  <2> QED
    BY <2>3, <2>4
<1>6. ASSUME NEW r \in Runners, RestartAgent(r) PROVE GrowInv'
  <2>1. /\ UNCHANGED <<scenario, crashed, latest, tarball, target>>
        /\ Present' = Present /\ process' = Old /\ Fetching' = {}
    BY <1>6
       DEF RestartAgent, StartsAgent, Present, Old, Fetching, NoDownload
  <2>2. \A q \in Runners : at'[q] = IF q = r THEN "clean" ELSE at[q]
    BY <1>6 DEF TypeOK, RestartAgent, GoTo
  <2>3. Old \in Present /\ at[r] = "restart"
    BY <1>6 DEF Present, RestartAgent
  <2>4. at[Update] \in {"helper", "ui", "restart"} => at'[Update] = "clean"
                                               \/ at'[Update] = at[Update]
    BY <2>2, Distinct
  <2>5. CASE r = Update
    BY <2>1, <2>2, <2>3, <2>5, Distinct DEF GrowInv, Installing
  <2>6. CASE r # Update
    BY <2>1, <2>2, <2>3, <2>6, Distinct DEF GrowInv, Installing
  <2> QED
    BY <2>5, <2>6
<1>7. ASSUME NEW r \in Runners, Clean(r) PROVE GrowInv'
  <2>1. Present' = Present /\ Fetching' = Fetching
    BY <1>7 DEF Clean, Present, Fetching, Old
  <2>2. UNCHANGED <<scenario, crashed, latest, process, target>>
    BY <1>7 DEF Clean
  <2>3. CASE r = Update
    <3>1. /\ at[Update] = "clean" /\ at'[Update] = "off"
          /\ tarball' \notin Versions
      BY <1>7, <2>3, Distinct DEF TypeOK, Clean, Exit, GoTo, Runners
    <3> QED
      BY <2>1, <2>2, <3>1 DEF GrowInv, Installing
  <2>4. CASE r # Update
    <3>1. at'[Update] = at[Update] /\ tarball' = tarball
      BY <1>7, <2>4, Distinct DEF TypeOK, Clean, Exit, GoTo
    <3> QED
      BY <2>1, <2>2, <3>1 DEF GrowInv
  <2> QED
    BY <2>3, <2>4
<1> QED
  BY <1>1, <1>2, <1>3, <1>4, <1>5, <1>6, <1>7 DEF Next, RunnerStep, Calm

(* Every step keeps what is staged as new as what runs.                    *)
LEMMA StepKeepsStay ==
  ASSUME TypeOK, RunnersInv, ArchiveInv, PartsInv,
         StayInv, [Next]_vars PROVE StayInv'
<1>1. CASE Release
  <2>1. /\ UNCHANGED <<scenario, crashed, process, tarball, at, target>>
        /\ Fetching' = Fetching
    BY <1>1 DEF Release, Fetching
  <2> QED
    BY <2>1 DEF StayInv
<1>2. CASE Crash
  <2>1. crashed'
    BY <1>2 DEF Crash
  <2> QED
    BY <2>1 DEF StayInv
<1>3. ASSUME NEW d \in Downloads, NEW bundle \in Versions,
             Fetch(d, bundle) PROVE StayInv'
  <2>1. UNCHANGED <<scenario, crashed, process, tarball, at, target>>
    BY <1>3 DEF Fetch, Staging
  <2>2. CASE crashed \/ {"back", "mislabelled"} \cap scenario # {}
    BY <2>1, <2>2 DEF StayInv
  <2>3. CASE ~crashed /\ {"back", "mislabelled"} \cap scenario = {}
    <3>1. \A s \in Fetching' : s \in Fetching \/ s = latest
      BY <1>3, <2>3 DEF TypeOK, Fetch, Fetching
    <3>2. process <= latest
      BY <1>3, Distinct DEF Fetch, NotOlder, TypeOK
    <3> QED
      BY <2>1, <2>3, <3>1, <3>2 DEF StayInv
  <2> QED
    BY <2>2, <2>3
<1>4. CASE Calm
  <2>1. Calmly
    BY <1>4, CalmEffect
  <2>2. CASE crashed \/ {"back", "mislabelled"} \cap scenario # {}
    BY <2>1, <2>2 DEF Calmly, StayInv
  <2>3. CASE ~crashed /\ {"back", "mislabelled"} \cap scenario = {}
    <3>1. at'[Update] \in Early => process <= target'[Update]
      BY <2>1, <2>3 DEF Calmly, UpdateMoves, StayInv, Early
    <3>2. at'[Update] # "clean" /\ tarball' \in Versions => process <= tarball'
      BY <2>1, <2>3 DEF Calmly, UpdateMoves, StayInv, Early
    <3>3. \A v \in Versions : at'[v] = "off"
      BY <2>1, <2>3 DEF Calmly, StayInv
    <3> QED
      BY <2>1, <2>3, <3>1, <3>2, <3>3 DEF Calmly, StayInv, Early
  <2> QED
    BY <2>2, <2>3
<1>5. ASSUME NEW r \in Runners, NEW p \in Parts, Install(r, p) PROVE StayInv'
  <2>1. Installed(r, p)
    BY <1>5, InstallEffect
  <2>2. UNCHANGED <<scenario, crashed, process, tarball, target, download>>
    BY <2>1 DEF Installed
  <2>3. CASE crashed \/ {"back", "mislabelled"} \cap scenario # {}
    BY <2>2, <2>3 DEF StayInv
  <2>4. CASE ~crashed /\ {"back", "mislabelled"} \cap scenario = {}
    <3>1. r = Update
      BY <2>1, <2>4, Distinct DEF Installed, StayInv
    <3>2. at[Update] # "clean" /\ at'[Update] \in {"helper", "ui", "restart"}
          /\ \A v \in Versions : at'[v] = at[v]
      BY <2>1, <3>1, Distinct DEF Installed
    <3> QED
      BY <2>2, <2>4, <3>2 DEF StayInv, Fetching
  <2> QED
    BY <2>3, <2>4
<1>6. ASSUME NEW r \in Runners, RestartAgent(r) PROVE StayInv'
  <2>1. Moved(r, {"restart"}, {"clean"})
    BY <1>6, MoveSteps
  <2>2. /\ UNCHANGED <<tarball, target, scenario, crashed>>
        /\ Fetching' = {}
    BY <1>6 DEF RestartAgent, StartsAgent, Fetching, NoDownload
  <2>3. CASE crashed \/ {"back", "mislabelled"} \cap scenario # {}
    BY <2>2, <2>3 DEF StayInv
  <2>4. CASE ~crashed /\ {"back", "mislabelled"} \cap scenario = {}
    <3>1. r = Update
      BY <2>1, <2>4, Distinct DEF Moved, StayInv
    <3>2. at'[Update] = "clean" /\ \A v \in Versions : at'[v] = at[v]
      BY <2>1, <3>1, Distinct DEF Moved
    <3> QED
      BY <2>2, <2>4, <3>2 DEF StayInv
  <2> QED
    BY <2>3, <2>4
<1>7. ASSUME NEW r \in Runners, Clean(r) PROVE StayInv'
  <2>1. UNCHANGED <<scenario, crashed, process, target, download>>
    BY <1>7 DEF Clean
  <2>2. CASE crashed \/ {"back", "mislabelled"} \cap scenario # {}
    BY <2>1, <2>2 DEF StayInv
  <2>3. CASE ~crashed /\ {"back", "mislabelled"} \cap scenario = {}
    <3>1. r = Update
      BY <1>7, <2>3, Distinct DEF Clean, StayInv
    <3>2. /\ at'[Update] = "off" /\ tarball' \notin Versions
          /\ \A v \in Versions : at'[v] = at[v]
      BY <1>7, <3>1, Distinct DEF TypeOK, Clean, Exit, GoTo, Runners
    <3> QED
      BY <2>1, <2>3, <3>2 DEF StayInv, Fetching
  <2> QED
    BY <2>2, <2>3
<1> QED
  BY <1>1, <1>2, <1>3, <1>4, <1>5, <1>6, <1>7 DEF Next, RunnerStep, Calm

(* Every start is in the invariant.                                        *)
LEMMA InitInv == Init => IInv
<1> SUFFICES ASSUME Init PROVE IInv
  OBVIOUS
<1>1. index \in Seq(Versions) /\ Len(index) = 0 /\ DOMAIN index = {}
  BY EmptySeq, LenProperties DEF Init
<1>2. TypeOK
  <2>1. installed \in [Parts -> Versions \cup {Torn}] /\ dir \in [Versions -> {None}]
    BY Distinct DEF Init
  <2>2. IsInjective(index) /\ Len(index) <= Keep
    BY <1>1, UpdaterConstants DEF IsInjective
  <2>3. at \in [Runners -> {"off"}] /\ download \in [Downloads -> {NoDownload}]
    BY DEF Init
  <2>4. NoDownload \in [at : {"idle", "fetched", "writing", "signing"},
                        version : Versions \cup {None}]
    BY DEF NoDownload
  <2>5. target \in [Runners -> Versions \cup {None}]
    BY Distinct DEF Init
  <2>6. /\ dir \in [Versions -> [Archived -> Versions \cup {Torn, None}] \cup {None}]
        /\ at \in [Runners -> Places]
        /\ download \in [Downloads ->
             [at : {"idle", "fetched", "writing", "signing"},
              version : Versions \cup {None}]]
    BY <2>1, <2>3, <2>4 DEF Places
  <2>7. /\ scenario \in Scenarios /\ latest \in Versions
        /\ process \in Versions \cup {Torn} /\ index \in Seq(Versions)
        /\ tarball = None /\ sig = None /\ lock = None /\ previous = None
        /\ crashed = FALSE
    BY <1>1, Distinct DEF Init
  <2> QED
    BY <2>1, <2>2, <2>5, <2>6, <2>7 DEF TypeOK
<1>3. Fetching = {} /\ Present = {1} /\ ToSet(index) = {}
  BY <1>1, Distinct DEF Init, Fetching, NoDownload, Present, Old, Parts, ToSet
<1>4. RunnersInv /\ ArchiveInv /\ PartsInv
  BY <1>3, Distinct, UpdaterConstants
     DEF Init, NoDownload, RunnersInv, ArchiveInv, ListInv, RunInv, Copying,
         PartsInv, Installing, Parts, Old
<1>5. BackInv
  BY Distinct, UpdaterConstants DEF Init, BackInv, Old, Parts, Versions
<1>6. tarball \notin Versions
  BY Distinct DEF Init, Runners
<1>7. GrowInv /\ StayInv
  BY <1>3, <1>6, Distinct DEF Init, GrowInv, StayInv, Installing
<1> QED
  BY <1>2, <1>4, <1>5, <1>7 DEF IInv

(* The invariant is inductive.                                             *)
LEMMA StepKeepsInv == IInv /\ [Next]_vars => IInv'
  BY StepKeepsType, StepKeepsRunners, StepKeepsArchive, StepKeepsParts,
     StepKeepsBack, StepKeepsGrow, StepKeepsStay DEF IInv

(* The inductive invariant, from which the other theorems follow.          *)
THEOREM InvHolds == Spec => []IInv
  BY InitInv, StepKeepsInv, PTL DEF Spec

-----------------------------------------------------------------------------
(* The files, the list and the runners keep their types; in particular the *)
(* list never names a version twice and never more than Keep of them.      *)
THEOREM TypeCorrect == Spec => []TypeOK
<1>1. IInv => TypeOK
  BY DEF IInv
<1> QED
  BY <1>1, InvHolds, PTL

(* update-runner.sh and rollback-runner.sh never work at the same time.    *)
OneRunner ==
  \A q, r \in Runners :
    at[q] \notin {"off", "started"} /\ at[r] \notin {"off", "started"} => q = r

(* At most one runner works (the locks of both scripts).                   *)
THEOREM RunnersExclude == Spec => []OneRunner
<1>1. IInv => OneRunner
  BY DEF IInv, RunnersInv, OneRunner
<1> QED
  BY <1>1, InvHolds, PTL

(* For any number of versions and downloads and whatever is requested at   *)
(* the same time: as long as no run is cut short, agent and web UI are of  *)
(* one version between runs and the version before the latest change is    *)
(* listed; wherever a run is cut short, also in the middle of a copy over  *)
(* an earlier one, what is listed and not installed is there, and a run    *)
(* that ends has installed what it was asked for, unless archiving has     *)
(* removed that (after a crash only with room to archive).                 *)
THEOREM VersionsSound == Spec => []VersionsAreSound
<1>1. IInv => OneVersion
  BY DEF IInv, PartsInv, OneVersion, Quiet
<1>2. IInv => ListedIsThere
  BY ListedType DEF IInv, ArchiveInv, ListInv, Sound, ListedIsThere
<1>3. ASSUME IInv, Quiet, "disk" \notin scenario, previous # None
      PROVE  previous \in ToSet(index)
  <2>1. Len(index) \in Nat /\ DOMAIN index = 1 .. Len(index)
    BY <1>3, LenProperties DEF IInv, TypeOK
  <2> QED
    BY <1>3, <2>1 DEF IInv, BackInv, Quiet, ToSet
<1>4. IInv => CanGoBack
  BY <1>2, <1>3 DEF CanGoBack
<1>5. IInv => ArrivesIfKept
  BY DEF IInv, PartsInv, Sound, ArrivesIfKept
<1>6. IInv => VersionsAreSound
  BY <1>1, <1>4, <1>5 DEF VersionsAreSound
<1> QED
  BY <1>6, InvHolds, PTL

(* An update does not install an earlier version than it replaces, though  *)
(* handleUpdateDownload compares them long before, unless releases are     *)
(* withdrawn and the administrator goes back as well, or a bundle is not   *)
(* of the version that the manifest says.                                  *)
THEOREM NoDowngrade == Spec => UpdateNeverDowngrades
<1> DEFINE Upward ==
      at[Update] = "agent" /\ at'[Update] = "helper" /\ ~crashed
        /\ "mislabelled" \notin scenario
        /\ ~({"back", "withdrawn"} \subseteq scenario)
        => installed'["agent"] >= installed["agent"]
<1>1. ASSUME IInv, [Next]_vars, at[Update] = "agent", at'[Update] = "helper",
             ~crashed, "mislabelled" \notin scenario,
             ~({"back", "withdrawn"} \subseteq scenario)
      PROVE  installed'["agent"] >= installed["agent"]
  <2> USE DEF IInv
  <2>1. lock = Update /\ \A r \in Runners : r # Update =>
                            at[r] \in {"off", "started"}
    BY <1>1, Distinct DEF RunnersInv
  <2>2. Old \in Nat /\ target[Update] \in Nat /\ Old = process
        /\ process \in Nat /\ Old \in Present
    BY <1>1, StagedType, Distinct DEF Installing, PartsInv, Old
  <2>3. target[Update] >= Old
    <3>1. \/ {"withdrawn", "mislabelled"} \cap scenario = {}
          \/ {"back", "mislabelled"} \cap scenario = {}
      BY <1>1
    <3> QED
      BY <1>1, <2>2, <3>1 DEF GrowInv, StayInv
  <2>4. installed'["agent"] \in {Old, target[Update]}
    <3>1. ASSUME NEW r \in Runners, NEW p \in Parts, Install(r, p)
          PROVE  installed'["agent"] \in {Old, target[Update]}
      <4>1. Installed(r, p) /\ r = lock
        BY <1>1, <3>1, InstallEffect DEF Installed
      <4>2. p = "agent" /\ NewPart(r, p) = target[Update]
        BY <1>1, <2>1, <4>1, NewPartIs DEF Installed
      <4> QED
        BY <4>1, <4>2 DEF Installed
    <3>2. ASSUME UNCHANGED installed
          PROVE  installed'["agent"] \in {Old, target[Update]}
      BY <3>2 DEF Old
    <3>3. ~Crash
      <4>1. Crash => Crashed
        BY <1>1, CrashEffect
      <4> QED
        BY <1>1, <4>1, Distinct DEF Crashed
    <3> QED
      BY <1>1, <3>1, <3>2, <3>3
         DEF Next, RunnerStep, vars, Release, Fetch, BeginTarball,
             EndTarball, WriteSig, Staging, Apply, Rollback, Requests,
             CheckUpdate, Unpack, CheckRollback, TakeLock, ArchiveBegin,
             ArchiveCopy, ArchiveIndex, ArchivePrune, RestartAgent, Clean
  <2> QED
    BY <2>2, <2>3, <2>4 DEF Old
<1>2. IInv /\ [Next]_vars => [Upward]_vars
  BY <1>1
<1>3. []IInv /\ [][Next]_vars => [][Upward]_vars
  BY <1>2, PTL
<1> QED
  BY <1>3, InvHolds, PTL DEF Spec, UpdateNeverDowngrades
=============================================================================
