----------------------------- MODULE RingStore -----------------------------
(***************************************************************************)
(* The fixed-size histories of pkg/traffic.  A Series is a ring buffer for *)
(* one key (a device, or a device and a category) in one resolution; a     *)
(* store holds one Series per key in every resolution and has one file per *)
(* resolution.  Both Store and CategoryStore are built from it.            *)
(*                                                                         *)
(* Rx and Tx are treated alike by every line of the code, so one number    *)
(* stands for the pair.  The field log of a series is a history variable:  *)
(* what was added to each absolute slot.  The code has no such field and   *)
(* nothing below reads it except the properties.                           *)
(***************************************************************************)
EXTENDS Integers, Sequences, FiniteSets, FiniteSetsExt, Functions

CONSTANTS
    Interval,   \* the length of a slot, for each resolution
    Points,     \* the number of slots a series keeps, for each resolution
    MaxCount    \* bound: where a slot stops counting, for each file

ASSUME ResolutionAssumption ==
    /\ DOMAIN Interval = DOMAIN Points
    /\ \A r \in DOMAIN Interval :
         Interval[r] \in Nat \ {0} /\ Points[r] \in Nat \ {0} /\ MaxCount[r] \in Nat

Nothing == <<>>

With(f, x, y) == [z \in DOMAIN f \cup {x} |-> IF z = x THEN y ELSE f[z]]

Slot(r, now) == now \div Interval[r]

NewSeries(r, slot) ==
    [pts |-> [i \in 0 .. Points[r] - 1 |-> 0], last |-> slot, log |-> Nothing]

(* The slots jumped over since the last write are zeroed, at most one lap. *)
SkippedSlotsOneLess(s, r, slot) ==
    { (s.last + k) % Points[r] : k \in 1 .. Min({slot - s.last, Points[r]}) - 1 }

SkippedSlots(s, r, slot) ==
    { (s.last + k) % Points[r] : k \in 1 .. Min({slot - s.last, Points[r]}) }

Advanced(s, r, slot) ==
    IF slot <= s.last THEN s
    ELSE [s EXCEPT !.pts = [i \in DOMAIN s.pts |->
                              IF i \in SkippedSlots(s, r, slot) THEN 0 ELSE s.pts[i]],
                   !.last = slot]

LoggedIn(s, slot) == IF slot \in DOMAIN s.log THEN s.log[slot] ELSE 0

(* A write for a slot older than the last one is dropped. *)
SeriesAdd(s, r, slot, n) ==
    IF slot < s.last THEN s
    ELSE [Advanced(s, r, slot) EXCEPT
             !.pts[slot % Points[r]] = Min({@ + n, MaxCount[r]}),
             !.log = With(@, slot, Min({LoggedIn(s, slot) + n, MaxCount[r]}))]

(* Store.Add for a set of keys at one moment: amounts gives the bytes of    *)
(* each key that has any.                                                   *)
BucketAdd(b, r, now, amounts) ==
    [key \in DOMAIN b \cup DOMAIN amounts |->
        LET s == IF key \in DOMAIN b THEN b[key] ELSE NewSeries(r, Slot(r, now))
        IN  IF key \in DOMAIN amounts THEN SeriesAdd(s, r, Slot(r, now), amounts[key]) ELSE s]

(* Series.pointsSince: the points of the last count slots, oldest first. *)
PointsSince(s, r, count) ==
    LET n == Min({count, Points[r]})
        slots == { k \in s.last - n + 1 .. s.last : k >= 0 }
    IN  [k \in slots |-> s.pts[k % Points[r]]]

(* Totals of one series: the whole ring, whatever the time is now. *)
Total(f) == FoldFunction(+, 0, f)

SeriesTotal(s) == Total(s.pts)

(* Prune drops the keys whose last write is older than the retention,      *)
(* each resolution by its own slots.                                       *)
CutoffOfFinest(r, now, maxAge) == (now - maxAge) \div Min(Range(Interval))

Cutoff(r, now, maxAge) == Slot(r, now - maxAge)

Kept(b, r, now, maxAge) ==
    [key \in { k \in DOMAIN b : b[k].last >= Cutoff(r, now, maxAge) } |-> b[key]]

-----------------------------------------------------------------------------
(* A store as the process sees it: the buckets, the dirty flag, the files  *)
(* and the files a Save that is under way has not written yet.  History:   *)
(* partial, the files are not all of one Save; torn, some process started  *)
(* from such files.                                                        *)

EmptyStore(names) ==
    [mem |-> [r \in names |-> Nothing], dirty |-> FALSE,
     file |-> [r \in names |-> Nothing], todo |-> {}, partial |-> FALSE, torn |-> FALSE]

(* Save clears the flag before it writes the first file. *)
SaveBegun(st) ==
    [st EXCEPT !.dirty = FALSE, !.todo = DOMAIN st.mem, !.partial = TRUE]

(* One file: written beside the old one and renamed over it. *)
FileWritten(st, r) ==
    [st EXCEPT !.file[r] = st.mem[r], !.todo = @ \ {r}, !.partial = st.todo # {r}]

(* The first error ends the Save; nothing sets the flag again. *)
SaveStopped(st) == [st EXCEPT !.todo = {}]

(* What a new process starts from: an empty store, then Load. *)
Loaded(st) ==
    [st EXCEPT !.mem = st.file, !.dirty = FALSE, !.todo = {}, !.torn = @ \/ st.partial]

-----------------------------------------------------------------------------
SeriesType(s, r) ==
    /\ DOMAIN s.pts = 0 .. Points[r] - 1
    /\ \A i \in DOMAIN s.pts : s.pts[i] \in Nat
    /\ s.last \in Int
    /\ \A k \in DOMAIN s.log : k <= s.last /\ s.log[k] \in Nat

(* What a reader of the history is shown is what was booked in those slots. *)
TrueHistory(s, r) ==
    LET shown == PointsSince(s, r, Points[r])
    IN  /\ \A k \in DOMAIN shown : shown[k] = LoggedIn(s, k)
        /\ SeriesTotal(s) = Total([k \in DOMAIN shown |-> LoggedIn(s, k)])

=============================================================================
