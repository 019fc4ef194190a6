-------------------------- MODULE GatewayController -------------------------
(***************************************************************************)
(* GatewayControllerLifecycle: which Envoy Gateway release serves the       *)
(* platform's GatewayClass, and when that release may be removed.  Commands *)
(* (install, uninstall) are sequences of steps any of which may fail; other *)
(* owners of the cluster add and remove GatewayClasses and Gateways at any  *)
(* time.                                                                    *)
(***************************************************************************)
EXTENDS Naturals, FiniteSets

CONSTANTS Ports, MaxExternal, None

VARIABLES
    own,      \* the release with our name and namespace: "none", "managed" (our
              \* label), "legacy" (an older tool's label) or "foreign"
    shared,   \* a release of our name and label exists in another namespace
    plat,     \* the frontend values of the platform release, or None
    classes,  \* the controllers named by GatewayClasses outside the platform
    users,    \* Gateways outside the platform use the platform's GatewayClass
    op,       \* the running command
    young,    \* history: controllers named by a class added since the last check
    refusal,  \* history: the last step refused an installation
    external  \* bound: changes by other owners so far

vars == <<own, shared, plat, classes, users, op, young, refusal, external>>

Managed == "foretoken"      \* envoy_gateway_controller
Default == "envoy"          \* envoy_gateway_default_controller
Controllers == {Managed, Default}

\* PlatformGatewayConfig; kept: frontend.gateway.port is among the user's values
Local == [mode |-> "local", create |-> FALSE, ctl |-> "", port |-> None, kept |-> FALSE]

Idle == [phase |-> "idle"]

Installed(p) == IF p = None THEN Local ELSE p

Creates(p) == p # None /\ p.mode = "gateway" /\ p.create

\* _gateway_classes_for_controller, with the platform's own class
Classes(ctl) ==
    (IF ctl \in classes THEN {"other"} ELSE {})
        \union (IF Creates(plat) /\ plat.ctl = ctl THEN {"platform"} ELSE {})

\* _other_controller_gateway_classes with exclude_release=platform
OtherClasses(ctl) == Classes(ctl) \ {"platform"}

\* _require_no_external_platform_gateways
InUse == Creates(plat) /\ users

\* _managed_release: more than one is an error
Releases(legacy) ==
    (IF own = "managed" \/ (legacy /\ own = "legacy") THEN {"own"} ELSE {})
        \union (IF shared THEN {"shared"} ELSE {})

Init ==
    /\ own \in {"none", "managed", "legacy", "foreign"} /\ shared \in BOOLEAN
    /\ plat \in {None, Local} \union
           {[mode |-> "gateway", create |-> TRUE, ctl |-> Managed, port |-> p, kept |-> FALSE] : p \in Ports}
    /\ Creates(plat) => own = "managed" \/ shared
    /\ classes \in SUBSET Controllers /\ users = FALSE
    /\ op = Idle /\ young = {} /\ refusal = FALSE /\ external = 0

\* _installation_config, _effective_gateway_config: explicit intent, the stored
\* values, and for a release that stored no port the one it listens on
Config(want, port, default) ==
    [mode |-> want.mode, create |-> want.create,
     ctl |-> IF want.given /\ ~Installed(plat).create THEN "" ELSE Installed(plat).ctl,
     port |-> IF port # None THEN port
              ELSE IF Installed(plat).kept \/ Creates(plat) THEN Installed(plat).port
              ELSE default,
     kept |-> TRUE]

Plan(action, release, ctl, isManaged) ==
    [action |-> action, release |-> release, ctl |-> ctl, managed |-> isManaged]

Refuse == Plan("Refuse", "own", "", FALSE)

\* frontend mode local: the controller is not needed by the platform any more
PlanLocal(release) ==
    IF release = None THEN Plan(IF own = "none" THEN "Skip" ELSE "Preserve", "own", "", FALSE)
    ELSE Plan(IF OtherClasses(Managed) = {} THEN "Remove" ELSE "Preserve", release, Managed, TRUE)

PlanCreate(config, release) ==
    LET preferred == IF config.ctl = "" THEN Default ELSE config.ctl
        discovered == release = None /\ preferred # Managed /\ Classes(preferred) # {}
        recovering == plat # None /\ config.ctl = Managed
    IN  CASE release = "own" -> Plan("Upgrade", "own", Managed, TRUE)
          [] release = "shared" -> Plan("Reuse", "shared", Managed, TRUE)
          [] discovered -> Plan("Reuse", "own", preferred, FALSE)
          [] ~discovered /\ release = None /\ own # "none" -> Refuse
          [] OTHER -> IF Classes(Managed) # {} /\ ~recovering THEN Refuse
                      ELSE Plan("Install", "own", Managed, TRUE)

\* Mutant of Resolve: a controller release that got lost is not recovered.
ResolveNoRecovery(config, valid) ==
    LET found == Releases(FALSE)
        release == IF found = {} THEN None ELSE CHOOSE r \in found : TRUE
    IN  IF release = None /\ config.create /\ own = "none" /\ Classes(Managed) # {}
        THEN Refuse
        ELSE IF config.create THEN PlanCreate(config, release) ELSE PlanLocal(release)

\* resolve_install; valid: _validate_reused_gateway
Resolve(config, valid) ==
    LET found == Releases(FALSE)
        release == IF found = {} THEN None ELSE CHOOSE r \in found : TRUE
        relevant == IF release = "own" \/ config.ctl = Managed THEN release ELSE None
    IN  CASE ~(config.mode = "gateway" /\ config.create) /\ InUse -> Refuse
          [] Cardinality(found) > 1 -> Refuse
          [] config.mode # "gateway" -> PlanLocal(relevant)
          [] ~config.create ->
                 IF ~valid THEN Refuse
                 ELSE Plan("Reuse", IF relevant = None THEN "own" ELSE relevant,
                           IF relevant = None THEN "" ELSE Managed, relevant # None)
          [] OTHER -> PlanCreate(config, release)

Wants == {[mode |-> "local", create |-> FALSE, given |-> TRUE],
          [mode |-> "gateway", create |-> TRUE, given |-> TRUE],
          [mode |-> "gateway", create |-> FALSE, given |-> TRUE],
          [mode |-> Installed(plat).mode, create |-> Installed(plat).create, given |-> FALSE]}

Quiet == UNCHANGED <<classes, users, external>>

BeginInstall(want, port, default, valid) ==
    LET config == Config(want, port, default)
        plan == Resolve(config, valid)
        ctl == IF plan.ctl # "" THEN plan.ctl ELSE config.ctl
    IN  /\ op = Idle
        /\ refusal' = (plan.action = "Refuse" /\ valid)
        /\ op' = IF plan.action = "Refuse" THEN Idle
                 ELSE [phase |-> "apply", plan |-> plan, config |-> [config EXCEPT !.ctl = ctl],
                       explicit |-> port # None]
        /\ UNCHANGED <<own, shared, plat, young>> /\ Quiet

Fails == op' = Idle

\* apply_before_platform: helm upgrade --install with our label; a failed
\* upgrade may leave the release behind
Apply ==
    /\ op.phase = "apply"
    /\ IF op.plan.action \in {"Install", "Upgrade"}
       THEN own' \in {own, "managed"}
       ELSE UNCHANGED own
    /\ \/ Fails
       \/ /\ op.plan.action \in {"Install", "Upgrade"} => own' = "managed"
          /\ op' = [op EXCEPT !.phase = "platform"]
    /\ refusal' = FALSE /\ UNCHANGED <<shared, plat, young>> /\ Quiet

\* install_platform: the platform's chart creates or drops its GatewayClass
UpgradePlatform ==
    /\ op.phase = "platform" /\ "config" \in DOMAIN op
    /\ plat' \in {plat, op.config}
    /\ \/ Fails
       \/ /\ plat' = op.config
          /\ op' = IF op.plan.action = "Remove" THEN [op EXCEPT !.phase = "check"] ELSE Idle
    /\ refusal' = FALSE /\ UNCHANGED <<own, shared, young>> /\ Quiet

\* resolve_uninstall
BeginUninstall ==
    LET found == Releases(TRUE)
        release == IF found = {} THEN None ELSE CHOOSE r \in found : TRUE
        relevant == IF release = "own" \/ Installed(plat).ctl = Managed THEN release ELSE None
        plan == PlanLocal(relevant)
    IN  /\ op = Idle /\ Cardinality(found) <= 1
        /\ ~InUse
        /\ op' = [phase |-> "platform", plan |-> plan]
        /\ refusal' = FALSE /\ UNCHANGED <<own, shared, plat, young>> /\ Quiet

RemovePlatform ==
    /\ op.phase = "platform" /\ "config" \notin DOMAIN op
    /\ plat' \in {plat, None}
    /\ \/ Fails
       \/ /\ plat' = None
          /\ op' = IF op.plan.managed THEN [op EXCEPT !.phase = "check"] ELSE Idle
    /\ refusal' = FALSE /\ UNCHANGED <<own, shared, young>> /\ Quiet

\* finish_update, finish_uninstall: any class of the controller preserves it
Check ==
    /\ op.phase = "check"
    /\ op' = IF Classes(op.plan.ctl) = {} THEN [op EXCEPT !.phase = "remove"] ELSE Idle
    /\ refusal' = FALSE /\ young' = {} /\ UNCHANGED <<own, shared, plat>> /\ Quiet

Remove ==
    /\ op.phase = "remove"
    /\ IF op.plan.release = "own" THEN own' \in {own, "none"} /\ UNCHANGED shared
       ELSE shared' \in {shared, FALSE} /\ UNCHANGED own
    /\ op' = Idle /\ refusal' = FALSE
    /\ UNCHANGED <<plat, young>> /\ Quiet

\* other owners: classes and Gateways come and go, the controller release is
\* removed by hand
External ==
    /\ external < MaxExternal /\ external' = external + 1
    /\ \/ \E c \in Controllers :
             classes' = (classes \union {c}) /\ young' = young \union {c} /\ UNCHANGED <<own, users>>
       \/ \E c \in classes : classes' = classes \ {c} /\ UNCHANGED <<own, users, young>>
       \/ Creates(plat) /\ users' = ~users /\ UNCHANGED <<own, classes, young>>
       \/ own = "managed" /\ own' = "none" /\ op = Idle /\ UNCHANGED <<classes, users, young>>
    /\ refusal' = FALSE /\ UNCHANGED <<shared, plat, op>>

Next ==
    \/ \E want \in Wants, port \in Ports \union {None}, default \in Ports, valid \in BOOLEAN :
          BeginInstall(want, port, default, valid)
    \/ Apply \/ UpgradePlatform \/ BeginUninstall \/ RemovePlatform \/ Check \/ Remove
    \/ External

Spec == Init /\ [][Next]_vars

\* "Remove a managed Controller only after its final GatewayClass is gone": a
\* command that removes a controller release leaves behind no GatewayClass of
\* that controller older than the command's last look.
ControllerOutlivesClasses ==
    op.phase = "remove" /\ <<own, shared>> # <<own', shared'>>
        => Classes(Managed) \subseteq (IF Managed \in young THEN {"other"} ELSE {})

\* "A new default must not move the entry point of running instances": while
\* the platform keeps a Gateway of its own its port changes only on request.
EntryPointStays ==
    Creates(plat) /\ Creates(plat') /\ plat'.port # plat.port => op.explicit

\* Our own commands, failed at whatever step and repeated, never bring about a
\* state in which an installation is refused: a refusal has another owner behind
\* it (a release or class that is not ours, or a Gateway on our class).
RefusedOnlyForOthers ==
    refusal => \/ own \in {"legacy", "foreign"} \/ (own = "managed" /\ shared)
               \/ users \/ Managed \in classes
=============================================================================
