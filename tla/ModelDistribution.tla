-------------------------- MODULE ModelDistribution -------------------------
(***************************************************************************)
(* ModelDistributionLifecycle: the shared download service.  Node daemons   *)
(* (a Dragonfly release, ours or of another owner) are reached through a    *)
(* proxy Service that this tool owns in the daemons' namespace.  Consumers  *)
(* keep the address they were started with, so an installation that selects *)
(* another service, or none, leaves what they still use.                    *)
(***************************************************************************)
EXTENDS Naturals, FiniteSets

CONSTANTS Consumers, MaxExternal, None

Places == {"ours", "theirs"}   \* namespace of our release, and of another owner's

VARIABLES
    daemons,   \* daemons[p]: the daemons of a release there exist
    release,   \* our Dragonfly release: "none", "managed" or "foreign"
    open,      \* open[p]: those daemons are configured to serve other Pods
    loose,     \* daemons without any release run somewhere
    proxy,     \* proxy[p]: None, "owned", or "foreign": the Service of that name
    offered,   \* the address the installed platform gives its workloads, or None
    uses,      \* uses[c]: None, an address, or "socket": an older consumer
    ended,     \* consumers that have completed or failed and still exist
    op, young, external

vars == <<daemons, release, open, loose, proxy, offered, uses, ended, op, young, external>>

Idle == [phase |-> "idle"]

Init ==
    /\ release \in {"none", "foreign"} /\ daemons \in [Places -> BOOLEAN]
    /\ (daemons["ours"] => release = "foreign") /\ loose \in BOOLEAN
    /\ proxy \in [Places -> {None, "foreign"}] /\ offered = None
    /\ uses = [c \in Consumers |-> None] /\ ended = {} /\ open \in [Places -> BOOLEAN] /\ op = Idle /\ young = {} /\ external = 0

Quiet == UNCHANGED <<open, loose, offered, uses, ended, external>>

\* _existing_releases
Existing == {p \in Places : daemons[p]}

\* resolve_install: ours if it is ours, else the only one there is, else our own
Plan ==
    CASE release = "managed" -> [place |-> "ours", install |-> TRUE]
      [] release # "managed" /\ ~loose /\ Cardinality(Existing) = 1 ->
            [place |-> CHOOSE p \in Existing : TRUE, install |-> FALSE]
      [] release = "none" /\ ~loose /\ Existing = {} -> [place |-> "ours", install |-> TRUE]
      [] OTHER -> [place |-> None, install |-> FALSE]

ResolveInstall ==
    /\ op = Idle /\ op' = [phase |-> "daemons", plan |-> Plan]
    /\ UNCHANGED <<daemons, release, proxy, young>> /\ Quiet

\* apply, _install_dragonfly: a failure leaves the workloads to their providers,
\* and may leave a release behind
InstallDaemons ==
    /\ op.phase = "daemons"
    /\ \/ /\ op.plan.place = None \/ op.plan.install
          /\ release' \in (IF op.plan.install THEN {release, "managed"} ELSE {release})
          /\ daemons' \in {daemons} \union
                (IF release' = "managed" THEN {[daemons EXCEPT !["ours"] = TRUE]} ELSE {})
          /\ op' = [phase |-> "platform", plan |-> op.plan, address |-> None]
       \/ /\ op.plan.install /\ release' = "managed"
          /\ daemons' = [daemons EXCEPT !["ours"] = TRUE]
          /\ op' = [op EXCEPT !.phase = "proxy"]
       \/ /\ ~op.plan.install /\ op.plan.place # None
          /\ op' = [op EXCEPT !.phase = "proxy"] /\ UNCHANGED <<daemons, release>>
    /\ UNCHANGED <<proxy, young>> /\ Quiet

\* apply, _daemon_configuration: the daemons have an address that Pods can use
Endpoint(p) == daemons[p] /\ open[p]

\* _prepare_proxy_service: never the Service of another owner, or of no daemon; a
\* write that fails may have been carried out
PrepareProxy ==
    LET p == op.plan.place
    IN  /\ op.phase = "proxy"
        /\ \/ /\ Endpoint(p) /\ proxy[p] # "foreign" /\ proxy' = [proxy EXCEPT ![p] = "owned"]
              /\ op' \in {[phase |-> "platform", plan |-> op.plan, address |-> a] : a \in {p, None}}
           \/ op' = [phase |-> "platform", plan |-> op.plan, address |-> None] /\ UNCHANGED proxy
        /\ UNCHANGED <<daemons, release, young>> /\ Quiet

\* install_platform, then the clean-up of what the installation no longer uses;
\* an installation that fails may have changed the address
InstallPlatform ==
    /\ op.phase = "platform" /\ offered' = op.address
    /\ op' \in {Idle, [phase |-> "look", address |-> op.address,
                       keep |-> op.address # None /\ op.plan.place = "ours"]}
    /\ UNCHANGED <<daemons, release, proxy, young, open, loose, uses, ended, external>>

\* the platform's own removal precedes finish_uninstall
RemovePlatform ==
    /\ op = Idle /\ offered' = None
    /\ op' \in {Idle, [phase |-> "look", address |-> None, keep |-> FALSE]}
    /\ UNCHANGED <<daemons, release, proxy, young, open, loose, uses, ended, external>>

\* _pod_spec
Live == {c \in Consumers \ ended : uses[c] # None}

\* finish_uninstall: the addresses that live consumers declare, and the kept one
Referenced == {p \in Places : op.address = p \/ \E c \in Live : uses[c] = p}
InUseBySocket == \E c \in Live : uses[c] = "socket"

Look ==
    /\ op.phase = "look"
    /\ op' = [phase |-> "proxies", keep |-> op.keep, socket |-> InUseBySocket,
              unused |-> {p \in Places : proxy[p] = "owned"} \ Referenced,
              retained |-> {p \in Places : proxy[p] = "owned"} \intersect Referenced]
    /\ young' = {} /\ UNCHANGED <<daemons, release, proxy>> /\ Quiet

\* one Service after the other; the command may stop between
DeleteProxies ==
    /\ op.phase = "proxies"
    /\ \E gone \in SUBSET op.unused :
          /\ proxy' = [p \in Places |-> IF p \in gone THEN None ELSE proxy[p]]
          /\ op' = IF gone = op.unused THEN [op EXCEPT !.phase = "release"] ELSE Idle
    /\ UNCHANGED <<daemons, release, young>> /\ Quiet

\* our daemons stay while kept, or a retained Service or an older socket leads to
\* them; a removal that fails may have stopped them
RemoveDaemons ==
    /\ op.phase = "release" /\ op' = Idle
    /\ IF release # "managed" \/ op.keep \/ (daemons["ours"] /\ ("ours" \in op.retained \/ op.socket))
       THEN UNCHANGED <<release, daemons>>
       ELSE /\ release' \in {"none", release} /\ daemons' \in {daemons, [daemons EXCEPT !["ours"] = FALSE]}
            /\ release' = "none" => ~daemons'["ours"]
    /\ UNCHANGED <<proxy, young>> /\ Quiet

Fail == op # Idle /\ op' = Idle /\ UNCHANGED <<daemons, release, proxy, young>> /\ Quiet

\* a workload starts with the platform's address, ends, or is an older one; other
\* owners install and remove their daemons
External ==
    /\ external < MaxExternal /\ external' = external + 1
    /\ \/ \E c \in Consumers :
             /\ uses[c] = None
             /\ \/ offered # None /\ uses' = [uses EXCEPT ![c] = offered]
                \/ release = "managed" /\ daemons["ours"] /\ uses' = [uses EXCEPT ![c] = "socket"]
             /\ young' = young \union {c} /\ UNCHANGED <<daemons, loose, ended>>
       \/ \E c \in Live : ended' = ended \union {c} /\ UNCHANGED <<daemons, loose, uses, young>>
       \/ \E c \in Consumers :
             /\ uses[c] # None /\ uses' = [uses EXCEPT ![c] = None] /\ ended' = ended \ {c}
             /\ UNCHANGED <<daemons, loose, young>>
       \/ daemons' = [daemons EXCEPT !["theirs"] = ~@] /\ UNCHANGED <<loose, uses, ended, young>>
       \/ loose' = ~loose /\ UNCHANGED <<daemons, uses, ended, young>>
    /\ UNCHANGED <<open, release, proxy, offered, op>>

Next ==
    \/ ResolveInstall \/ InstallDaemons \/ PrepareProxy \/ InstallPlatform \/ RemovePlatform
    \/ Look \/ DeleteProxies \/ RemoveDaemons \/ Fail \/ External

Spec == Init /\ [][Next]_vars

Older == Live \ young

\* "preserving declared consumers": no address is taken from a consumer that was
\* there when the command looked, whichever platform gave it, and the address
\* that the platform offers stays.
ProxyOutlivesConsumers ==
    \A p \in Places : proxy[p] = "owned" /\ proxy'[p] = None =>
        offered # p /\ \A c \in Older : uses[c] # p

\* Our daemons are stopped only when no such consumer reaches them, through the
\* Service or through the socket.
DaemonsOutliveConsumers ==
    release = "managed" /\ daemons["ours"] /\ ~daemons'["ours"] =>
        \A c \in Older : uses[c] \notin {"ours", "socket"}

\* "without taking over independent daemons": Services of others are never
\* replaced, and their daemons never stopped by this tool.
OthersAreKept ==
    /\ \A p \in Places : proxy[p] = "foreign" => proxy'[p] = "foreign"
    /\ release = "foreign" => release' = "foreign" /\ daemons'["ours"] = daemons["ours"]
=============================================================================
