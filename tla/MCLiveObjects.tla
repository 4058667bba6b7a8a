--------------------------- MODULE MCLiveObjects ---------------------------
(* Instances of LiveObjects for TLC.                                       *)
EXTENDS LiveObjects

OwnObjects ==
  [j \in Jobs |-> CASE j \in IdsJobs -> "ips" [] j \in VpnJobs -> "vpn"
                    [] j \in FeedJobs -> "hotlist"]

(* Either auto-block, with late alerts or addresses taken out; what goes   *)
(* wrong, one thing at a time; a list that is refreshed.                   *)
MCScenarios ==
  {{"ids", "late"}, {"ids", "remove"}, {"vpn"}, {"ids", "nft", "edit"},
   {"ids", "disk"}, {"stale"}, {"history"}, {"feed", "unreachable"}}

(* A client sends back a candidate it fetched earlier.                     *)
StaleClient == {{"ids", "stale"}}
=============================================================================
