----------------------------- MODULE MCServices -----------------------------
(* Instances of Services: some services at a time, and what disturbs them. *)
EXTENDS Services, TLC

MCHandlers == {"h1", "h2"}
MCRules == {1, 2}
MCOrders == {1, 2}

Cfg(on, version) ==
    [on |-> on, version |-> version, list |-> FALSE, hosts |-> FALSE, down |-> FALSE]
With(c, field) == [c EXCEPT ![field] = TRUE]

On == Cfg(TRUE, 1)
New == Cfg(TRUE, 2)
No == Cfg(FALSE, 1)

Base == [services |-> {}, configs |-> {<<>>}, applies |-> 0, lists |-> 0, requests |-> 0, rules |-> 0,
         ruleSteps |-> FALSE, faults |-> 0, watch |-> FALSE]

DnsConfigs == { ("dns" :> c) : c \in { With(With(On, "list"), "hosts"), New, With(New, "hosts"), No } }

Everything == { [s \in AllServices |-> On],
                [s \in AllServices |-> IF s \in {"dhcp", "openvpn", "syslog", "ids"} THEN New ELSE No] }

Kept == { [s \in {"dhcp", "ntp", "ids"} |-> On],
          [s \in {"dhcp", "ntp", "ids"} |-> IF s = "ids" THEN With(On, "down") ELSE New] }

(* DNS and its lists; all services in their order; those of host mode;     *)
(* three that restart only if needed, with requests; the watcher; the IDS  *)
(* rules.                                                                  *)
MCScenarios ==
    { [Base EXCEPT !.services = {"dns"}, !.configs = DnsConfigs, !.applies = 2, !.lists = 1,
                   !.faults = 1],
      [Base EXCEPT !.services = AllServices, !.configs = Everything, !.applies = 2, !.faults = 1],
      [Base EXCEPT !.services = {"dhcp", "ntp", "ids"}, !.configs = Kept, !.applies = 1,
                   !.requests = 1, !.faults = 2],
      [Base EXCEPT !.services = {"ids"}, !.configs = { ("ids" :> c) : c \in {On, No} },
                   !.applies = 1, !.faults = 3, !.watch = TRUE],
      [Base EXCEPT !.services = HostServices,
                   !.configs = { [s \in HostServices |-> c] : c \in {On, No} },
                   !.applies = 1, !.faults = 1],
      [Base EXCEPT !.rules = 2, !.ruleSteps = TRUE, !.faults = 2] }
=============================================================================
