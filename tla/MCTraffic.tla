----------------------------- MODULE MCTraffic -----------------------------
(* Instances of Traffic: two devices in two networks, rings of two slots.  *)
EXTENDS Traffic, TLC

MCIps == {"a", "b"}
MCHistRes == {"1m", "1h"}
MCCatRes == {"cat1h"}
MCInterval == [r \in MCHistRes \cup MCCatRes |-> IF r \in {"1m", "cat1h"} THEN 1 ELSE 2]
MCPoints == [r \in MCHistRes \cup MCCatRes |-> 2]
MCMaxCount == [r \in MCHistRes \cup MCCatRes \cup {"domains"} |->
                 IF r \in MCHistRes THEN 6 ELSE 2]
MCFlows == {1, 2}
MCFlowIp == (1 :> "a" @@ 2 :> "b")
MCFlowCategory == (1 :> "video" @@ 2 :> "work")

(* A run is about the counters or about the log: they share the loop, the  *)
(* clock and the saves, and nothing else.                                  *)
MCScenarios ==
    { [devices |-> MCIps, packets |-> 3, lines |-> 0, faults |-> 2, time |-> 0],
      [devices |-> {"a"}, packets |-> 3, lines |-> 0, faults |-> 1, time |-> 4],
      [devices |-> {}, packets |-> 0, lines |-> 4, faults |-> 0, time |-> 0],
      [devices |-> {}, packets |-> 0, lines |-> 3, faults |-> 1, time |-> 0],
      [devices |-> {}, packets |-> 0, lines |-> 2, faults |-> 0, time |-> 3] }

(* The hypotheses of HistoriesTellTheTruth hold here.                      *)
ASSUME ClockStays /\ NoSlotFull
=============================================================================
