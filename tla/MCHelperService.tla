-------------------------- MODULE MCHelperService --------------------------
(* Instances of HelperService for TLC.                                     *)
EXTENDS HelperService

(* Nobody gives up and nothing fails, or a run hangs or cannot write; any  *)
(* call may give up and the agent be restarted; everything at once.        *)
MCScenarios ==
  [hasty : {{}}, faults : {{}, {"hang"}, {"disk"}}]
    \cup [hasty : {Calls}, faults : {{"restart"}, Faults}]

Impatient == [hasty : {Calls}, faults : {{}}]
=============================================================================
