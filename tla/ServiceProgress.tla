--------------------------- MODULE ServiceProgress ---------------------------
(***************************************************************************)
(* How deploy and stop decide that a service has reached the requested      *)
(* state (cli/foretoken/deployment/status.py): resource_progress reads one  *)
(* object while its controller publishes conditions one by one, each for    *)
(* the generation it was made for, and while others change the object.      *)
(*                                                                          *)
(*   kind     ModelService or FrontendService                               *)
(*   spec     generation, suspend, whether alert rules are selected, the    *)
(*            revision of the deployment that wrote it, deletion            *)
(*   status   observedGeneration, servingGeneration, the conditions         *)
(*   seen     the spec in the controller's cache                            *)
(*   did      history: what the controller has brought about, by generation *)
(*   wait     the waiting command: its expected revision and its result     *)
(***************************************************************************)
EXTENDS Integers

CONSTANTS
    Kinds,      \* {"ModelService", "FrontendService"}
    MaxGen,     \* bound: generations
    None

VARIABLES kind, spec, status, seen, did, wait

vars == <<kind, spec, status, seen, did, wait>>

Conditions == {"Ready", "TargetReady", "AlertsReady"}
Absent == [gen |-> 0, value |-> "Absent", reason |-> None]
Has(c) == status.cond[c] # Absent
Current(c) == status.cond[c].gen = spec.gen
Is(c, value) == status.cond[c].value = value

\* service_requires_execution, of a service with replicas
ExecutionRequired == ~spec.suspend

\* the condition of a service that was scaled to zero as requested
Stopped ==
    /\ Is("Ready", "False") /\ status.cond["Ready"].reason = "ScaledToZero" /\ ~ExecutionRequired
    /\ \/ kind = "FrontendService"
       \/ /\ kind = "ModelService" /\ Current("TargetReady") /\ Is("TargetReady", "True")
          /\ status.cond["TargetReady"].reason = "ScaledToZero"

AlertsSettled ==
    spec.suspend \/ IF spec.alerts THEN Current("AlertsReady") /\ Is("AlertsReady", "True")
                    ELSE ~Has("AlertsReady")

\* Mutant of Reconciled: the status of an earlier generation is accepted.
ReconciledOnce == status.observed # 0

Reconciled == status.observed = spec.gen /\ Current("Ready")

\* resource_progress: the early returns in their order.
Progress(expected) ==
    CASE spec.deleted -> "Terminating"
      [] expected # None /\ spec.revision # expected -> "Failed"
      [] ~spec.suspend /\ Current("AlertsReady") /\ Is("AlertsReady", "False") -> "Failed"
      [] ~Has("Ready") \/ ~Reconciled -> "Progressing"
      [] Current("TargetReady") /\ Is("TargetReady", "False") -> "Failed"
      [] Is("Ready", "True") /\ Has("TargetReady") /\ Current("TargetReady")
            /\ ~Is("TargetReady", "True") -> "Progressing"
      [] Is("Ready", "True") \/ Stopped ->
            IF (kind = "ModelService" /\ status.serving # spec.gen) \/ ~AlertsSettled
            THEN "Progressing" ELSE "Converged"
      [] status.cond["Ready"].reason = "InvalidIntent" -> "Failed"
      [] OTHER -> "Progressing"

\* wait_for_resources: one poll; other states poll again until the deadline.
Poll ==
    /\ wait.result = "waiting"
    /\ LET p == Progress(wait.expected) IN
          \/ p \in {"Converged", "Failed"} /\ wait' = [wait EXCEPT !.result = p]
          \/ p \notin {"Converged", "Failed"} /\ wait' = [wait EXCEPT !.result = "expired"]
    /\ UNCHANGED <<kind, spec, status, seen, did>>

----------------------------------------------------------------------------
\* The controller, and the commands that change the service

\* A deployment writes its revision; stop and others keep it.
Change ==
    /\ spec.gen < MaxGen /\ ~spec.deleted
    /\ \E s, a, deploys \in BOOLEAN :
          spec' = [spec EXCEPT !.gen = @ + 1, !.suspend = s, !.alerts = a,
                               !.revision = IF deploys THEN spec.gen + 1 ELSE @]
    /\ UNCHANGED <<kind, status, seen, did, wait>>

Delete ==
    /\ ~spec.deleted
    /\ spec' = [spec EXCEPT !.deleted = TRUE]
    /\ UNCHANGED <<kind, status, seen, did, wait>>

Observe ==
    /\ seen # spec /\ ~spec.deleted
    /\ seen' = spec
    /\ UNCHANGED <<kind, spec, status, did, wait>>

\* What the controller does for the generation it has seen.
Facts == IF seen.suspend THEN {"stopped"}
         ELSE {"serving", IF seen.alerts THEN "rules" ELSE "no rules"}

Establish ==
    /\ \E f \in Facts : <<seen.gen, f>> \notin did /\ did' = did \union {<<seen.gen, f>>}
    /\ UNCHANGED <<kind, spec, status, seen, wait>>

\* One status write.  Ready may still be True for the workload of an earlier
\* generation; TargetReady and servingGeneration tell that of the current one.
Done(f) == <<seen.gen, f>> \in did
Cond(v, r) == [gen |-> seen.gen, value |-> v, reason |-> r]
Target == CASE seen.suspend /\ Done("stopped") -> Cond("True", "ScaledToZero")
            [] Done("serving") -> Cond("True", "Serving")
            [] OTHER -> Cond("Unknown", "Starting")
ReadyChoices ==
    CASE seen.suspend /\ Done("stopped") -> {Cond("False", "ScaledToZero")}
      [] Done("serving") -> {Cond("True", "Serving")}
      [] OTHER -> {Cond("False", "Starting"), Cond("False", "InvalidIntent")}
                   \union IF kind = "ModelService" /\ did # {} THEN {Cond("True", "Serving")} ELSE {}

PublishReady ==
    /\ \E r \in ReadyChoices :
          status' = [status EXCEPT !.observed = seen.gen, !.cond["Ready"] = r,
                        !.cond["TargetReady"] = IF kind = "ModelService" THEN Target ELSE Absent,
                        !.serving = IF Done("serving") \/ Done("stopped") THEN seen.gen ELSE @]
    /\ UNCHANGED <<kind, spec, seen, did, wait>>

PublishAlerts ==
    /\ ~seen.suspend
    /\ IF seen.alerts
       THEN \E v \in {"False"} \union (IF Done("rules") THEN {"True"} ELSE {"Unknown"}) :
               status' = [status EXCEPT !.cond["AlertsReady"] = Cond(v, "Rules")]
       ELSE Done("no rules") /\ status' = [status EXCEPT !.cond["AlertsReady"] = Absent]
    /\ UNCHANGED <<kind, spec, seen, did, wait>>

Init ==
    /\ kind \in Kinds
    /\ spec \in [gen : {1}, suspend : BOOLEAN, alerts : BOOLEAN, revision : {1}, deleted : {FALSE}]
    /\ status = [observed |-> 0, serving |-> 0, cond |-> [c \in Conditions |-> Absent]]
    /\ seen = spec
    /\ did = {}
    /\ wait \in [expected : {None, 1}, result : {"waiting"}]

Next == Poll \/ Change \/ Delete \/ Observe \/ Establish \/ PublishReady \/ PublishAlerts

Spec == Init /\ [][Next]_vars

----------------------------------------------------------------------------
\* The wait ends well only when the controller has brought about everything that
\* the current generation asks for: a workload of this generation that serves, or
\* the stop, and the selected alert rules; and only for the awaited deployment.
ConvergedIsReached ==
    wait'.result = "Converged" /\ wait.result = "waiting" =>
       /\ ~spec.deleted
       /\ wait.expected # None => spec.revision = wait.expected
       /\ IF spec.suspend THEN <<spec.gen, "stopped">> \in did
          ELSE <<spec.gen, "serving">> \in did

\* Alerts are part of what is awaited: the rules that a running service selects were
\* made for this generation.
AlertsAreReached ==
    wait'.result = "Converged" /\ wait.result = "waiting" /\ ~spec.suspend /\ spec.alerts
       => <<spec.gen, "rules">> \in did
=============================================================================
