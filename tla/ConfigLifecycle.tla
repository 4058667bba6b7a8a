-------------------------- MODULE ConfigLifecycle --------------------------
(***************************************************************************)
(* What Safe Apply promises: `candidate -> apply -> confirm`.  There is    *)
(* one committed configuration.  A configuration becomes the committed one *)
(* only by being on trial (applied, not yet confirmed) and being kept; a   *)
(* trial that is not kept leaves the committed configuration as it was.    *)
(***************************************************************************)
CONSTANTS Cfgs, NoCfg

VARIABLES
  committed,  \* the configuration a restart of the agent comes back with
  trial       \* the configuration on trial, or NoCfg

lifecycleVars == <<committed, trial>>

Init == committed \in Cfgs /\ trial = NoCfg

(* A configuration goes on trial, in place of the one on trial if any.     *)
Try(c) == trial' = c /\ UNCHANGED committed

(* The administrator keeps what is on trial.                               *)
Keep == trial # NoCfg /\ committed' = trial /\ trial' = NoCfg

(* Rolled back: by hand, by the timer, or by a restart.                    *)
Drop == trial' = NoCfg /\ UNCHANGED committed

Next == Keep \/ Drop \/ \E c \in Cfgs : Try(c)

Spec == Init /\ [][Next]_lifecycleVars
=============================================================================
