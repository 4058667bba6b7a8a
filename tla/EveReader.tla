----------------------------- MODULE EveReader -----------------------------
(***************************************************************************)
(* Suricata's event log (external) and the reader of pkg/traffic/eve.go.   *)
(* The reader keeps a byte position between calls.  Bytes are counted in   *)
(* units: a line is two units of JSON and one of newline, so a last line   *)
(* that Suricata has not finished has one unit (half of the JSON) or two   *)
(* (all of it, without the newline).                                       *)
(***************************************************************************)
EXTENDS Integers, Sequences, FiniteSets, FiniteSetsExt

CONSTANTS
    Flows,      \* the flow_ids
    FlowIp,     \* the device at the inner end of each flow
    MaxNames,   \* newFlowNames(20000)
    MaxRead     \* maxEveBytesPerRead, in units

ASSUME EveAssumption == MaxNames \in Nat \ {0} /\ MaxRead \in Nat \ {0}

VARIABLES
    log,        \* the finished lines of eve.json
    tail,       \* the line being written: <<>> or <<line, units>>
    seen,       \* history: every line begun so far
    gen,        \* history: the number of rotations so far
    reader      \* the agent's EveReader

logVars == <<log, tail, seen, gen>>
eveVars == <<log, tail, seen, gen, reader>>

LineUnits == 3

Lines ==  [kind : {"name", "flow"}, id : Flows] \cup [kind : {"long"}]

TailUnits == IF tail = <<>> THEN 0 ELSE tail[2]

Size == LineUnits * Len(log) + TailUnits

(* A fresh reader starts at the top of the file; nets are the local        *)
(* networks of the moment it was made.  The last four fields are history:  *)
(* how often each flow was reported by this reader, whether it has read a  *)
(* line without its newline, whether it has passed over part of the log,   *)
(* and the file it read last.                                              *)
NewEveReader(nets) ==
    [made |-> TRUE, offset |-> 0, names |-> {}, nets |-> nets,
     times |-> [f \in Flows |-> 0], cut |-> FALSE, skipped |-> FALSE, gen |-> gen]

NoReader == [NewEveReader({}) EXCEPT !.made = FALSE, !.gen = 0]

EveInit == log = <<>> /\ tail = <<>> /\ seen = {} /\ gen = 0 /\ reader = NoReader

-----------------------------------------------------------------------------
(* Suricata: a name record when a flow opens, a flow record when it ends,  *)
(* each once; a line reaches the file whole or in pieces; logrotate copies *)
(* the log away and truncates it (copytruncate), and what is left of an    *)
(* unfinished line does not parse.                                         *)

WriteLine(line) ==
    /\ tail = <<>> /\ line \notin seen
    /\ line.kind = "name" => [line EXCEPT !.kind = "flow"] \notin seen
    /\ seen' = seen \cup {line}
    /\ \/ log' = Append(log, line) /\ tail' = tail
       \/ \E units \in 1 .. LineUnits - 1 :
            line.kind # "long" /\ log' = log /\ tail' = <<line, units>>
    /\ UNCHANGED <<gen, reader>>

FinishLine ==
    /\ tail # <<>>
    /\ IF tail[2] = 1 THEN tail' = <<tail[1], 2>> /\ log' = log
                      ELSE tail' = <<>> /\ log' = Append(log, tail[1])
    /\ UNCHANGED <<seen, gen, reader>>

Rotate ==
    /\ Len(log) > 0
    /\ log' = <<>> /\ tail' = <<>> /\ gen' = gen + 1
    /\ UNCHANGED <<seen, reader>>

-----------------------------------------------------------------------------
(* flowNames.put empties the map when it is full. *)
PutAlways(names, id) == names \cup {id}

Put(names, id) == (IF Cardinality(names) >= MaxNames THEN {} ELSE names) \cup {id}

(* consume: a name is kept for its flow; a flow record of a local device   *)
(* is a hit, under the name that was kept.                                 *)
Consume(acc, line) ==
    CASE line.kind = "name" -> [acc EXCEPT !.names = Put(acc.names, line.id)]
      [] line.kind = "flow" ->
           [acc EXCEPT !.names = @ \ {line.id},
                       !.hits = IF FlowIp[line.id] \in acc.nets
                                THEN Append(@, [id |-> line.id, named |-> line.id \in acc.names])
                                ELSE @]

(* Where Read starts: a file smaller than the position is taken as rotated;*)
(* a file that has grown too much is read from near its end.               *)
TurnedBackNever == reader.offset

TurnedBack == IF Size < reader.offset THEN 0 ELSE reader.offset

StartAt == IF Size - TurnedBack > MaxRead THEN Size - MaxRead ELSE TurnedBack

(* The lines read: from the first that starts at or after the position (a  *)
(* fragment before it does not parse), to the end; an unfinished last line *)
(* is read too and parses when all of its JSON is there.  A line over the  *)
(* scanner's 1 MiB stops the reading in front of it.                       *)
FirstLine == (StartAt + LineUnits - 1) \div LineUnits + 1

LongLine == { i \in FirstLine .. Len(log) : log[i].kind = "long" }

LinesRead ==
    LET upTo == IF LongLine = {} THEN Len(log) ELSE Min(LongLine) - 1
        open == LongLine = {} /\ TailUnits = 2 /\ StartAt <= LineUnits * Len(log)
    IN  SubSeq(log, FirstLine, upTo) \o (IF open THEN <<tail[1]>> ELSE <<>>)

(* Every line counts its length plus a newline, the last one as well when  *)
(* it has none.                                                            *)
EndsAt ==
    IF LongLine # {} THEN LineUnits * (Min(LongLine) - 1)
    ELSE IF tail = <<>> THEN Size ELSE Size + 1

ConsumedUpTo(lines) ==
    LET after[n \in 0 .. Len(lines)] ==
          IF n = 0 THEN [names |-> reader.names, nets |-> reader.nets, hits |-> <<>>]
          ELSE Consume(after[n - 1], lines[n])
    IN  after

Consumed == ConsumedUpTo(LinesRead)[Len(LinesRead)]

(* The hits the engine books: none when the scanner failed. *)
Hits == IF Size = StartAt \/ LongLine # {} THEN <<>> ELSE Consumed.hits

HitTimes(f) == Cardinality({ i \in 1 .. Len(Hits) : Hits[i].id = f })

ReaderAfterRead ==
    LET read == IF Size = StartAt THEN [reader EXCEPT !.offset = StartAt]
                ELSE [reader EXCEPT !.offset = EndsAt,
                                    !.names = Consumed.names,
                                    !.cut = @ \/ tail # <<>>]
    IN  [read EXCEPT
           !.times = [f \in Flows |-> Min({@[f] + HitTimes(f), 2})],
           !.skipped = @ \/ LongLine # {} \/ StartAt # TurnedBack
                         \/ (reader.gen # gen /\ reader.offset # 0 /\ Size >= reader.offset),
           !.gen = gen]

-----------------------------------------------------------------------------
EveTypeOK ==
    /\ \A i \in 1 .. Len(log) : log[i] \in Lines
    /\ tail = <<>> \/ (tail[1] \in Lines /\ tail[2] \in 1 .. LineUnits - 1)
    /\ seen \subseteq Lines /\ gen \in Nat
    /\ reader.offset \in Nat /\ reader.names \subseteq Flows
    /\ Cardinality(reader.names) <= MaxNames
    /\ \A f \in Flows : reader.times[f] \in 0 .. 2

=============================================================================
