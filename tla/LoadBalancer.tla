---------------------------- MODULE LoadBalancer ----------------------------
(***************************************************************************)
(* LoadBalancerLifecycle: the optional MetalLB release with its address     *)
(* pool and advertisement, beside whatever else assigns LoadBalancer        *)
(* addresses in the cluster.  A command may fail after every step.          *)
(***************************************************************************)
EXTENDS Naturals, FiniteSets

CONSTANTS Addresses, Nodes, MaxExternal, None

VARIABLES
    rel,      \* our release: "none", "managed", "legacy" or "foreign"
    stored,   \* the addresses among the values of our release, or None
    crds,     \* the MetalLB API is served
    objects,  \* the objects with our name: pool and advertisement, each "none",
              \* "foreign" (without our label) or the addresses applied by us
    config,   \* other MetalLB configuration exists
    services, \* Services of the default class: "none", "pending" or "allocated"
    k3s,      \* k3s[n]: what a node says of its ServiceLB
    cloud,    \* a node names a cloud provider
    op, young, refusal,
    external  \* bound: changes by other owners so far

vars == <<rel, stored, crds, objects, config, services, k3s, cloud, op, young, refusal, external>>

Kinds == {"pool", "advertisement"}

Idle == [phase |-> "idle"]

Exists == rel # "none"

\* _k3s_service_lb_state; "agent": no server arguments, "garbled": not JSON
K3sState ==
    LET known == {n \in Nodes : k3s[n] # "other"}
        servers == {n \in known : k3s[n] \in {"on", "off"}}
    IN  CASE known = {} -> "not-k3s"
          [] \E n \in known : k3s[n] = "garbled" -> "unknown"
          [] servers = {} -> "unknown"
          [] \E n \in servers : k3s[n] = "off" -> "disabled"
          [] OTHER -> "enabled"

Init ==
    /\ rel \in {"none", "legacy", "foreign"}
    /\ crds \in BOOLEAN /\ (Exists => crds) /\ stored = None
    /\ objects \in [Kinds -> {"none", "foreign"}]
    /\ config \in BOOLEAN
    /\ config \/ (\E k \in Kinds : objects[k] # "none") => crds
    /\ services \in {"none", "pending", "allocated"}
    /\ k3s \in [Nodes -> {"other", "agent", "garbled", "on", "off"}] /\ cloud \in BOOLEAN
    /\ op = Idle /\ young = FALSE /\ refusal = FALSE /\ external = 0

\* _managed_resource_collision
Collision == \E k \in Kinds : objects[k] = "foreign"

\* _managed_install_conflict: another implementation may serve the same Services
InstallConflict ==
    crds \/ config \/ K3sState \in {"enabled", "unknown"} \/ services = "allocated" \/ cloud

\* resolve_install: what is requested, else what the managed release stored
Resolve(want) ==
    LET addresses == IF want # None THEN want ELSE IF rel = "managed" THEN stored ELSE None
    IN  CASE rel \in {"legacy", "foreign"} /\ want # None -> "refuse"
          [] addresses = None -> "observe"       \* _automatic_plan, or "Needs configuration"
          [] Collision \/ (rel # "managed" /\ InstallConflict) -> "refuse"
          [] OTHER -> "install"

Quiet == UNCHANGED <<config, services, k3s, cloud, external>>

BeginInstall(want, observed) ==
    /\ op = Idle
    /\ IF ~observed    \* _observe_cluster failed: blocking when addresses are requested
       THEN UNCHANGED op /\ refusal' = FALSE
       ELSE /\ refusal' = (Resolve(want) = "refuse")
            /\ op' = IF Resolve(want) # "install" THEN Idle
                     ELSE [phase |-> "release",
                           addresses |-> IF want # None THEN want ELSE stored]
    /\ young' = FALSE
    /\ UNCHANGED <<rel, stored, crds, objects>> /\ Quiet

\* Mutant of ApplyRelease: the addresses are not stored with the release.
ApplyReleaseForgetful ==
    /\ op.phase = "release"
    /\ \/ UNCHANGED <<rel, stored, crds>> /\ op' = Idle
       \/ /\ rel' = "managed" /\ UNCHANGED stored
          /\ \/ crds' \in {crds, TRUE} /\ op' = Idle
             \/ crds' = TRUE /\ op' = [op EXCEPT !.phase = "objects"]
    /\ refusal' = FALSE /\ UNCHANGED <<objects, young>> /\ Quiet

\* apply: helm upgrade --install stores the addresses with the release; one that
\* fails may have come as far as the release or its definitions
ApplyRelease ==
    /\ op.phase = "release"
    /\ \/ UNCHANGED <<rel, stored, crds>> /\ op' = Idle
       \/ /\ rel' = "managed" /\ stored' = op.addresses
          /\ \/ crds' \in {crds, TRUE} /\ op' = Idle
             \/ crds' = TRUE /\ op' = [op EXCEPT !.phase = "objects"]
    /\ refusal' = FALSE /\ UNCHANGED <<objects, young>> /\ Quiet

\* the pool and then its advertisement are applied with our label
ApplyObjects ==
    /\ op.phase = "objects"
    /\ \E done \in {{}, {"pool"}, Kinds} :
          objects' = [k \in Kinds |-> IF k \in done THEN op.addresses ELSE objects[k]]
    /\ op' = Idle /\ refusal' = FALSE
    /\ UNCHANGED <<rel, stored, crds, young>> /\ Quiet

\* finish_uninstall: every reason to preserve is looked for before the first write
CheckUninstall ==
    /\ op = Idle /\ rel \in {"managed", "legacy"}
    /\ ~config /\ services = "none" /\ ~Collision
    /\ op' = [phase |-> "delete"] /\ young' = FALSE /\ refusal' = FALSE
    /\ UNCHANGED <<rel, stored, crds, objects>> /\ Quiet

DeleteObjects ==
    /\ op.phase = "delete"
    /\ \E kept \in {Kinds, {"advertisement"}, {}} :
          /\ objects' = [k \in Kinds |-> IF k \in kept THEN objects[k] ELSE "none"]
          /\ op' = IF kept = {} THEN [phase |-> "remove"] ELSE Idle
    /\ refusal' = FALSE /\ UNCHANGED <<rel, stored, crds, young>> /\ Quiet

\* helm uninstall: the chart's definitions, and all that is of them, go with it
RemoveRelease ==
    /\ op.phase = "remove"
    /\ \/ UNCHANGED <<rel, stored, crds, config>>
       \/ rel' = "none" /\ stored' = None /\ crds' = FALSE /\ config' = FALSE
    /\ op' = Idle /\ refusal' = FALSE
    /\ UNCHANGED <<objects, young, services, k3s, cloud, external>>

\* Services and other configuration come and go; a running controller with a
\* pool assigns addresses
External ==
    /\ external < MaxExternal /\ external' = external + 1
    /\ \/ services' \in {"none", "pending"} /\ services' # services
          /\ young' = (young \/ services' = "pending") /\ UNCHANGED config
       \/ services = "pending" /\ rel = "managed" /\ objects["pool"] \in Addresses
          /\ services' = "allocated" /\ UNCHANGED <<config, young>>
       \/ crds /\ config' = ~config /\ young' = (young \/ config') /\ UNCHANGED services
    /\ refusal' = FALSE
    /\ UNCHANGED <<rel, stored, crds, objects, k3s, cloud, op>>

Next ==
    \/ \E want \in Addresses \union {None}, observed \in BOOLEAN : BeginInstall(want, observed)
    \/ ApplyRelease \/ ApplyObjects \/ CheckUninstall \/ DeleteObjects \/ RemoveRelease
    \/ External

Spec == Init /\ [][Next]_vars

\* "Retain the requested address pool with the release so an interrupted update
\* can resume without repeating it": the release knows the addresses that are
\* served, or newer ones that were requested since; an installation that names
\* none applies the ones last requested.
PoolIsResumable ==
    /\ \A k \in Kinds : objects[k] \in Addresses => stored # None
    /\ op.phase = "objects" => op.addresses = stored
    /\ \A k \in Kinds : objects[k] \in Addresses /\ rel = "managed" /\ op = Idle /\ objects[k] # stored
           => Resolve(None) \in {"install", "refuse"}

\* "Remove managed MetalLB only when no external Service or config needs it":
\* what uses the release when its pool or itself is taken away came after the
\* command's look at the cluster.
PoolOutlivesServices ==
    op.phase \in {"delete", "remove"} /\ <<rel, objects>> # <<rel', objects'>>
        => (services = "none" /\ ~config) \/ young

\* What carries our name without our label is neither changed nor deleted.
UnlabelledIsKept ==
    \A k \in Kinds : objects[k] = "foreign" => objects'[k] = "foreign"

\* An installation or removal of ours that failed half way is never a reason to
\* refuse the next installation.
RefusedOnlyForOthers ==
    refusal => \/ rel \in {"legacy", "foreign"} \/ Collision
               \/ rel = "none" /\ InstallConflict

\* "disable it on every server before installing CLI-managed MetalLB": MetalLB
\* is not installed beside a k3s server that still runs ServiceLB.
DisabledOnEveryServer ==
    [][rel = "none" /\ rel' = "managed" => \A n \in Nodes : k3s[n] # "on"]_vars
=============================================================================
