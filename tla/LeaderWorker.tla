---------------------------- MODULE LeaderWorker ----------------------------
(***************************************************************************)
(* LeaderWorkerLifecycle: the controller of LeaderWorkerSets that model     *)
(* groups need.  A controller that somebody else installed is found through *)
(* the webhooks that select it and is reused as it is; else a release of    *)
(* our own is installed, upgraded, and removed when nothing uses it.        *)
(***************************************************************************)
EXTENDS Naturals, FiniteSets

CONSTANTS Deployments,  \* controllers that others may have installed
          MaxExternal, None

VARIABLES
    rel,       \* our release: "none", "managed", "legacy" or "foreign"
    provider,  \* gangSchedulingManagement among the values of our release
    hooks,     \* admission webhooks for LeaderWorkerSets outside our release:
               \* [by: "lws" or "kueue", picks: the Deployments their Service selects]
    volcano,   \* the Deployments whose own configuration enables Volcano
    served,    \* leaderworkerset.x-k8s.io/v1 is served
    sets,      \* resources of the controller's API groups exist
    op, young, refusal,
    external   \* bound: changes by other owners so far

vars == <<rel, provider, hooks, volcano, served, sets, op, young, refusal, external>>

Idle == [phase |-> "idle"]

Hooks == [by : {"lws", "kueue"}, picks : SUBSET Deployments]

Init ==
    /\ rel \in {"none", "foreign"} /\ provider = None
    /\ hooks \in {h \in SUBSET Hooks : Cardinality(h) <= 2}
    /\ volcano \in SUBSET Deployments /\ served \in BOOLEAN /\ sets = FALSE
    /\ op = Idle /\ young = FALSE /\ refusal = FALSE /\ external = 0

\* the webhooks of Kueue also admit LeaderWorkerSets and belong to another owner
Services == {h \in hooks : h.by = "lws"}

Controllers == UNION {h.picks : h \in Services}

\* resolve_install, _require_api, _require_volcano_controller
Resolve(queue) ==
    CASE rel = "managed" -> [action |-> "Upgrade"]
      [] rel # "managed" /\ Services # {} ->
             IF Cardinality(Controllers) = 1 /\ served
                    /\ (queue = "volcano" => Controllers \subseteq volcano)
             THEN [action |-> "Reuse", controller |-> CHOOSE d \in Controllers : TRUE]
             ELSE [action |-> "Refuse"]
      [] OTHER -> IF rel # "none" THEN [action |-> "Refuse"] ELSE [action |-> "Install"]

Quiet == UNCHANGED <<hooks, volcano, sets, external>>

\* queue: the scheduler that workload.leaderWorkerScheduling names; its API is there
BeginInstall(queue) ==
    LET plan == Resolve(queue) IN
    /\ op = Idle
    /\ refusal' = (plan.action = "Refuse")
    /\ op' = IF plan.action \in {"Refuse", "Reuse"} THEN Idle
             ELSE [phase |-> "apply", queue |-> queue, action |-> plan.action]
    /\ UNCHANGED <<rel, provider, served, young>> /\ Quiet

\* stored_chart_values, and Volcano added to them where it is requested
Provider == IF op.queue = "volcano" THEN "volcano" ELSE provider

\* apply: definitions first when the release is upgraded, then helm upgrade
\* --install, then the served API; a failure may come after either
Apply ==
    /\ op.phase = "apply"
    /\ \/ UNCHANGED <<rel, provider>> /\ served' \in {served, op.action = "Upgrade" \/ served}
       \/ rel' = "managed" /\ provider' = Provider /\ served' \in {served, TRUE}
    /\ op' = Idle /\ refusal' = FALSE /\ UNCHANGED young /\ Quiet

\* finish_uninstall: users of the API preserve the controller
CheckUninstall ==
    /\ op = Idle /\ rel \in {"managed", "legacy"} /\ ~sets
    /\ op' = [phase |-> "remove"] /\ young' = FALSE /\ refusal' = FALSE
    /\ UNCHANGED <<rel, provider, served>> /\ Quiet

Remove ==
    /\ op.phase = "remove"
    /\ \/ UNCHANGED <<rel, provider>>
       \/ rel' = "none" /\ provider' = None
    /\ op' = Idle /\ refusal' = FALSE /\ UNCHANGED <<served, young>> /\ Quiet

\* others use the API, and install or remove a controller of their own
External ==
    /\ external < MaxExternal /\ external' = external + 1
    /\ \/ served /\ sets' = ~sets /\ young' = (young \/ sets') /\ UNCHANGED <<hooks, served>>
       \/ \E d \in Deployments :
             /\ hooks' = hooks \union {[by |-> "lws", picks |-> {d}]} /\ served' = TRUE
             /\ UNCHANGED <<sets, young>>
       \/ \E h \in hooks : hooks' = hooks \ {h} /\ UNCHANGED <<sets, young, served>>
    /\ refusal' = FALSE /\ UNCHANGED <<rel, provider, volcano, op>>

Next ==
    \/ \E queue \in {None, "volcano", "kueue"} : BeginInstall(queue)
    \/ Apply \/ CheckUninstall \/ Remove \/ External

Spec == Init /\ [][Next]_vars

\* "Retained applications can still resume Volcano groups after platform
\* defaults change": as long as our release stays, its provider stays.
VolcanoStays ==
    provider = "volcano" /\ rel' # "none" => provider' = "volcano"

\* "Remove our controller only when no LWS-managed custom resources remain":
\* those that exist when it is removed came after the command's look.
ControllerOutlivesSets ==
    op.phase = "remove" /\ rel' # rel => ~sets \/ young

\* Our own release, however far an earlier command came, and the webhooks of
\* Kueue are no reason to refuse an installation.
RefusedOnlyForOthers ==
    refusal => rel \in {"legacy", "foreign"} \/ \E h \in hooks : h.by = "lws"
=============================================================================
