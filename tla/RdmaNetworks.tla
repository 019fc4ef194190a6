---------------------------- MODULE RdmaNetworks ----------------------------
(***************************************************************************)
(* RDMANetworkLifecycle and MultusLifecycle: the network attachments        *)
(* (NetworkAttachmentDefinitions, NADs) that the platform's chart creates   *)
(* for RoCE interfaces, the instances that select them, and the Multus node *)
(* agents that attach them.  Instances read the platform's selection and    *)
(* start their Pods later; the fabric of the nodes changes; every command   *)
(* may fail half way.                                                       *)
(***************************************************************************)
EXTENDS Naturals, FiniteSets

CONSTANTS Masters,      \* interface names
          Instances,
          MaxNetworks,  \* bound: attachments ever created
          MaxInstalls,  \* bound: installations begun
          MaxExternal,  \* bound: changes by other owners
          None

VARIABLES
    plat,     \* rdma.preparedNetworks of the platform release, or None:
              \* a set of [id, master, active]
    nads,     \* the ids of the platform's attachments that exist
    inst,     \* inst[i]: None, the selection it read, or its running Pods
    multus,   \* our Multus release: "none", "managed" or "foreign"
    agents,   \* node agents of another owner
    strangers,\* Pods or attachments of others use the secondary network
    fabric,   \* the RoCE interfaces that all selected nodes share
    op, count, installs, young, external

vars == <<plat, nads, inst, multus, agents, strangers, fabric, op, count, installs, young, external>>

Idle == [phase |-> "idle"]

Ids == 1..MaxNetworks

Init ==
    /\ plat = None /\ nads = {} /\ inst = [i \in Instances |-> None]
    /\ multus \in {"none", "foreign"} /\ agents \in BOOLEAN /\ strangers = FALSE
    /\ fabric \in SUBSET Masters
    /\ op = Idle /\ count = 0 /\ installs = 0 /\ young = FALSE /\ external = 0

Previous == IF plat = None THEN {} ELSE plat

\* the attachments of the platform that exist already for an interface
Retained(m) == {n \in Previous : n.master = m}

\* prepare(): one attachment for each interface, the one of before where there is
Selected(masters) ==
    LET fresh == {m \in masters : Retained(m) = {}}
        number == CHOOSE f \in [fresh -> Ids] :
                      \A m, k \in fresh : (f[m] > count) /\ (m # k => f[m] # f[k])
                                          /\ f[m] <= count + Cardinality(fresh)
    IN  {CHOOSE n \in Retained(m) : TRUE : m \in masters \ fresh}
            \union {[id |-> number[m], master |-> m, active |-> TRUE] : m \in fresh}

\* _retain_definitions: what is no longer selected stays, inactive
RetainDefinitions(selected) ==
    {[n EXCEPT !.active = TRUE] : n \in selected}
        \union {[n EXCEPT !.active = FALSE] :
                    n \in {p \in Previous : \A s \in selected : s.id # p.id}}

Quiet == UNCHANGED <<inst, agents, strangers, fabric, external>>

\* prepare() with automatic discovery, or with an explicit choice among the
\* attachments of before; the platform is not being retired
BeginInstall(automatic, explicit) ==
    LET selected == IF automatic THEN Selected(fabric) ELSE {n \in Previous : n.master \in explicit}
    IN  /\ op = Idle /\ installs < MaxInstalls
        /\ automatic => count + Cardinality({m \in fabric : Retained(m) = {}}) <= MaxNetworks
        /\ op' = [phase |-> "agents", networks |-> RetainDefinitions(selected)]
        /\ count' = count + Cardinality({n \in selected : n.id > count})
        /\ installs' = installs + 1
        /\ UNCHANGED <<plat, nads, multus, young>> /\ Quiet

\* MultusLifecycle.ensure: agents of others are used as they are, beside our
\* release they are refused; else our release is installed
Ensure ==
    /\ op.phase = "agents"
    /\ \/ op.networks = {} /\ op' = [op EXCEPT !.phase = "platform"] /\ UNCHANGED multus
       \/ /\ op.networks # {} /\ multus # "managed" /\ agents
          /\ op' = [op EXCEPT !.phase = "platform"] /\ UNCHANGED multus
       \/ /\ op.networks # {} /\ ~agents /\ multus # "foreign"
          /\ multus' = "managed" /\ op' = [op EXCEPT !.phase = "platform"]
       \/ op' = Idle /\ multus' \in {multus, IF agents \/ multus = "foreign" THEN multus ELSE "managed"}
    /\ UNCHANGED <<plat, nads, count, installs, young>> /\ Quiet

\* install_platform: the chart creates the attachments, Helm never deletes them;
\* an upgrade that fails may have created some of them
UpgradePlatform ==
    /\ op.phase = "platform"
    /\ \/ /\ plat' = op.networks
          /\ nads' = nads \union {n.id : n \in op.networks}
       \/ /\ plat' = op.networks
          /\ \E made \in SUBSET {n.id : n \in op.networks} : nads' = nads \union made
       \/ UNCHANGED <<plat, nads>>
    /\ op' = Idle /\ UNCHANGED <<multus, count, installs, young>> /\ Quiet

\* an instance reads the platform's active bindings, and later starts its Pods
Read(i) ==
    /\ inst[i] = None /\ plat # None
    /\ inst' = [inst EXCEPT ![i] = {n.id : n \in {p \in plat : p.active}}]
    /\ UNCHANGED <<plat, nads, multus, agents, strangers, fabric, op, count, installs, young, external>>

Retire(i) ==
    /\ inst[i] # None /\ inst' = [inst EXCEPT ![i] = None]
    /\ UNCHANGED <<plat, nads, multus, agents, strangers, fabric, op, count, installs, young, external>>

\* prepare_uninstall after the instances are retired; then the platform goes,
\* and the attachments that were found
BeginUninstall ==
    /\ op = Idle /\ \A i \in Instances : inst[i] = None
    /\ op' = [phase |-> "delete", found |-> nads]
    /\ plat' = None
    /\ UNCHANGED <<nads, multus, count, installs, young>> /\ Quiet

DeleteNetworks ==
    /\ op.phase = "delete"
    /\ \E gone \in SUBSET op.found :
          /\ nads' = nads \ gone
          /\ op' = IF gone = op.found THEN [phase |-> "multus"] ELSE Idle
    /\ UNCHANGED <<plat, multus, count, installs, young>> /\ Quiet

\* MultusLifecycle.finish_uninstall: attachments, and Pods that still name one,
\* preserve the agents
CheckMultus ==
    /\ op.phase = "multus"
    /\ op' = IF multus = "managed" /\ nads = {} /\ ~strangers THEN [phase |-> "remove"] ELSE Idle
    /\ young' = FALSE /\ UNCHANGED <<plat, nads, multus, count, installs>> /\ Quiet

RemoveMultus ==
    /\ op.phase = "remove" /\ multus' \in {multus, "none"} /\ op' = Idle
    /\ UNCHANGED <<plat, nads, count, installs, young>> /\ Quiet

\* the fabric is rewired, or others begin or end to use the secondary network
External ==
    /\ external < MaxExternal /\ external' = external + 1
    /\ \/ fabric' \in SUBSET Masters /\ UNCHANGED <<strangers, young>>
       \/ /\ multus = "managed" \/ agents
          /\ strangers' = ~strangers /\ young' = (young \/ strangers') /\ UNCHANGED fabric
    /\ UNCHANGED <<plat, nads, inst, multus, agents, op, count, installs>>

Next ==
    \/ BeginInstall(TRUE, {}) \/ \E m \in SUBSET Masters : BeginInstall(FALSE, m)
    \/ Ensure \/ UpgradePlatform
    \/ \E i \in Instances : Read(i) \/ Retire(i)
    \/ BeginUninstall \/ DeleteNetworks \/ CheckMultus \/ RemoveMultus \/ External

Spec == Init /\ [][Next]_vars

\* "Keep managed NADs until uninstall so existing and concurrent instance
\* selections remain valid": whatever an instance once read is still among the
\* platform's networks, so that an upgrade that failed before it created them all
\* is completed by the next, and is not deleted.
SelectionsStayValid ==
    \A i \in Instances : inst'[i] # None =>
        /\ \A id \in inst'[i] : \E n \in Previous' : n.id = id
        /\ inst'[i] \intersect nads \subseteq nads'

\* An interface has one attachment, and so one subnet, however often the
\* platform is upgraded, rewired, or told explicitly what to use.
OneAttachmentPerInterface ==
    \A n, k \in Previous : n.master = k.master => n.id = k.id

\* Attachments are never without agents: they are created after the agents are
\* ready, and the agents go last.
AgentsOutliveAttachments == nads # {} => multus = "managed" \/ agents

\* Our agents are not taken from Pods of others that still name an attachment.
AgentsOutlivePods ==
    op.phase = "remove" /\ multus' # multus => ~strangers \/ young
=============================================================================
