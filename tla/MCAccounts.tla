----------------------------- MODULE MCAccounts -----------------------------
(* Instances of Accounts for TLC.                                          *)
EXTENDS Accounts, TLC

Scenario(f, n) == [faults |-> f, logins |-> n]

(* Requests one at a time and nothing fails; restarts in the middle of     *)
(* requests; everything but overlapping requests; requests that overlap,   *)
(* and restarts in the middle of them.                                     *)
MCScenarios ==
  {Scenario({}, 2), Scenario({"crash"}, 2),
   Scenario({"crash", "write", "window", "cli"}, 1),
   Scenario({"overlap", "crash"}, 2)}

(* Requests overlap, and nothing else happens.                             *)
Overlapping == {Scenario({"overlap"}, 2)}

Symmetry == Permutations(Clients)
=============================================================================
