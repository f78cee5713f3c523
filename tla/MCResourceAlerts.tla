-------------------------- MODULE MCResourceAlerts --------------------------
(* One rule at a time: redis evicts nothing where the load of a container  *)
(* changes, and that load is followed for four minutes; one thing goes     *)
(* wrong in a run; a second pass of the collector comes in the first       *)
(* minute only; the rules are evaluated in the order of their ids.  Only a *)
(* snapshot reads the counter, so redis can evict just before one, a key   *)
(* at a time; and where redis has evicted, a pass of the sampler is one    *)
(* moment, as only the evaluation of the evictions reads what changes.     *)
EXTENDS ResourceAlerts

CONSTANTS c1

AllLow == [c \in Container |-> "low"]

MCNext ==
    /\ AlertsNext
    /\ cpu' = AllLow \/ (evicted' = 0 /\ clock' <= 3 /\ collector' = collector)
    /\ changes' + failures' <= 1
    /\ passes' <= 1 \/ clock' = 0
    /\ todo' # {"cpu"}
    /\ evicted = 0 \/ todo = {} \/ todo' # todo
    /\ \/ evicted' = evicted
       \/ /\ collector = Idle /\ todo = {}
          /\ counter = IF baseline = None THEN 0 ELSE baseline

(* What is left out above is the collector's and the clock's; only the     *)
(* sampler has to go on.                                                   *)
MCSpec == AlertsInit /\ [][MCNext]_alertsVars /\ WF_alertsVars(Pass)
=============================================================================
