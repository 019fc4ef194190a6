--------------------------- MODULE ExporterTargets --------------------------
(***************************************************************************)
(* ExporterDiscovery: after an installation every accelerator node must be   *)
(* covered by a ready exporter Pod, and Prometheus must report every one of  *)
(* those Pods up before a deadline.  Meanwhile Pods are replaced, become     *)
(* ready and fail, scrapes come and go, series of old Pods linger, and       *)
(* Prometheus itself may still be rolling out.                               *)
(***************************************************************************)
EXTENDS Naturals, FiniteSets

CONSTANTS Kinds, Nodes, Generations, Timeout, MaxExternal, None

Pods == Kinds \X Nodes \X Generations
Place == Kinds \X Nodes

VARIABLES
    current,   \* current[<<k, n>>]: generation of the exporter Pod there, and ready
    series,    \* series[p]: the values of the Pod's "up" series in Prometheus
    rolling,   \* Prometheus does not answer yet
    targets,   \* targets[k]: the Pods that discovery found, before that None
    pending,   \* kinds that have not been seen up
    clock, result, external,
    seen       \* Pods that a query reported up during the wait

vars == <<current, series, rolling, targets, pending, clock, result, external, seen>>

Init ==
    /\ current \in [Place -> {[generation |-> g, ready |-> r] : g \in {0}, r \in BOOLEAN}]
    /\ series = [p \in Pods |-> {}] /\ rolling \in BOOLEAN /\ targets = [k \in Kinds |-> None]
    /\ pending = Kinds /\ clock = 0 /\ result = None /\ external = 0 /\ seen = {}

PodAt(k, n) == <<k, n, current[<<k, n>>].generation>>

\* daemonset_pods_on_nodes: the ready Pods, when there is one on every node
Covering(k) ==
    IF \A n \in Nodes : current[<<k, n>>].ready THEN {PodAt(k, n) : n \in Nodes} ELSE {}

\* find_monitor: an exporter that does not cover the nodes ends the installation
Discover ==
    \E k \in Kinds :
        /\ result = None /\ targets[k] = None
        /\ IF Covering(k) = {} THEN result' = "uncovered" /\ UNCHANGED targets
           ELSE targets' = [targets EXCEPT ![k] = Covering(k)] /\ UNCHANGED result
        /\ UNCHANGED <<current, series, rolling, pending, clock, external, seen>>

Discovered == \A k \in Kinds : targets[k] # None

\* every series of the Pod says so, and there is one
Up(p) == series[p] = {"1"}

\* one round of require_prometheus_targets: the kinds that are not up throughout
Failed == {k \in pending : rolling \/ \E p \in targets[k] : ~Up(p)}

Poll ==
    /\ result = None /\ Discovered /\ pending' = Failed
    /\ seen' = IF rolling THEN seen ELSE seen \union {p \in UNION {targets[k] : k \in pending} : series[p] = {"1"}}
    /\ result' = IF Failed = {} THEN "collected" ELSE IF clock >= Timeout THEN "missing" ELSE None
    /\ UNCHANGED <<current, series, rolling, targets, clock, external>>

Tick == clock < Timeout /\ clock' = clock + 1 /\ UNCHANGED <<current, series, rolling, targets, pending, result, external, seen>>

\* Pods are replaced and turn ready or not, Prometheus scrapes and forgets
Cluster ==
    /\ external < MaxExternal /\ external' = external + 1 /\ result = None
    /\ \/ \E q \in Place : /\ current[q].generation + 1 \in Generations
                           /\ current' = [current EXCEPT ![q] = [generation |-> @.generation + 1, ready |-> FALSE]]
                           /\ UNCHANGED <<series, rolling>>
       \/ \E q \in Place : current' = [current EXCEPT ![q].ready = ~@] /\ UNCHANGED <<series, rolling>>
       \/ \E k \in Kinds, n \in Nodes, value \in {{"0"}, {"1"}, {"0", "1"}} :
             /\ ~rolling
             /\ series' = [series EXCEPT ![PodAt(k, n)] = value]
             /\ UNCHANGED <<current, rolling>>
       \/ \E p \in Pods : series' = [series EXCEPT ![p] = {}] /\ UNCHANGED <<current, rolling>>
       \/ rolling' = ~rolling /\ UNCHANGED <<current, series>>
    /\ UNCHANGED <<targets, pending, clock, result, seen>>

Next == Discover \/ Poll \/ Tick \/ Cluster

Spec == Init /\ [][Next]_vars

\* "Require every exporter target to report up": a successful wait has seen every
\* node's exporter Pod up in Prometheus, however its rounds were interleaved with
\* failures, though not all in the same round.
CollectedMeansSeen ==
    result = "collected" => \A k \in Kinds, n \in Nodes : \E g \in Generations : <<k, n, g>> \in seen
=============================================================================
