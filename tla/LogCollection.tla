---------------------------- MODULE LogCollection ---------------------------
(***************************************************************************)
(* LogCollectionLifecycle: node collectors that send to a log store, each a *)
(* Helm release that may be ours or another owner's.  Installations with     *)
(* changing settings and removals stop at any step; administrators customize *)
(* the releases in between.                                                  *)
(***************************************************************************)
EXTENDS Naturals, Sequences

CONSTANTS Sizes, Paths, DefaultPath, MaxOps, MaxExternal, None

Releases == {"loki", "collector"}
Configs == [enabled : BOOLEAN, endpoint : {"managed", "external"}, size : Sizes]

VARIABLES
    owner,    \* owner[r]: None, "ours" or "foreign": the release of that name
    size,     \* the size in the store's StatefulSet template, or None
    state,    \* where the collectors keep checkpoints and unsent logs, or None
    target,   \* where the collectors send to, or None
    op, ops, external

vars == <<owner, size, state, target, op, ops, external>>

Idle == [phase |-> "idle"]

Init ==
    /\ owner \in [Releases -> {None, "foreign"}] /\ size = None /\ state = None /\ target = None
    /\ op = Idle /\ ops = 0 /\ external = 0

Kept == UNCHANGED <<owner, size, state, target>>

Needed(config) ==
    (IF config.enabled THEN {"collector"} ELSE {})
    \union (IF config.enabled /\ config.endpoint = "managed" THEN {"loki"} ELSE {})

\* plan: another owner's release of a needed name is refused before any change
PlanInstall ==
    /\ op = Idle /\ ops < MaxOps /\ ops' = ops + 1
    /\ \E config \in Configs :
          op' = IF \E r \in Needed(config) : owner[r] = "foreign" THEN Idle
                ELSE [phase |-> IF ~config.enabled THEN "disable"
                                ELSE IF "loki" \in Needed(config) THEN "loki" ELSE "collector",
                      config |-> config]
    /\ Kept /\ UNCHANGED external

Disable ==
    /\ op.phase = "disable" /\ op' = Idle /\ UNCHANGED <<size, ops, external>>
    /\ IF owner["collector"] = "ours"
       THEN owner' = [owner EXCEPT !["collector"] = None] /\ state' = None /\ target' = None
       ELSE UNCHANGED <<owner, state, target>>

\* _install_loki: a size that the release has stored wins over the requested one
LokiSize == IF size # None THEN size ELSE op.config.size

\* the command goes on only when Helm succeeded; a failed one may have created it
InstallLoki ==
    /\ op.phase = "loki" /\ owner' = [owner EXCEPT !["loki"] = "ours"] /\ size' = LokiSize
    /\ op' \in {Idle, [op EXCEPT !.phase = "collector"]}
    /\ UNCHANGED <<state, target, ops, external>>

\* _install_collector: so does the location of its state
StatePath == IF state # None THEN state ELSE DefaultPath

InstallCollector ==
    /\ op.phase = "collector" /\ op' = Idle /\ owner' = [owner EXCEPT !["collector"] = "ours"]
    /\ state' = StatePath /\ target' = op.config.endpoint
    /\ UNCHANGED <<size, ops, external>>

\* managed_releases: shutdown order, collector before storage
ManagedReleases == SelectSeq(<<"collector", "loki">>, LAMBDA r : owner[r] = "ours")

PlanUninstall ==
    /\ op = Idle /\ ops < MaxOps /\ ops' = ops + 1
    /\ op' = [phase |-> "uninstall", todo |-> ManagedReleases] /\ Kept /\ UNCHANGED external

\* uninstall: one release after the other
UninstallOne ==
    /\ op.phase = "uninstall" /\ op.todo # <<>>
    /\ LET r == Head(op.todo)
       IN  /\ owner' = [owner EXCEPT ![r] = None]
           /\ IF r = "loki" THEN size' = None /\ UNCHANGED <<state, target>>
              ELSE state' = None /\ target' = None /\ UNCHANGED size
    /\ op' = [op EXCEPT !.todo = Tail(@)] /\ UNCHANGED <<ops, external>>

\* the end of a removal, and any step that fails
Stop == op # Idle /\ op' = Idle /\ Kept /\ UNCHANGED <<ops, external>>

\* an administrator moves the collectors' state, or removes or installs another's release
Administer ==
    /\ external < MaxExternal /\ external' = external + 1
    /\ \/ owner["collector"] = "ours" /\ op = Idle /\ state' \in Paths /\ UNCHANGED owner
       \/ \E r \in Releases : /\ owner[r] # "ours" /\ op = Idle
                               /\ owner' = [owner EXCEPT ![r] = IF @ = None THEN "foreign" ELSE None]
                               /\ UNCHANGED state
    /\ UNCHANGED <<size, target, op, ops>>

Next ==
    \/ PlanInstall \/ Disable \/ InstallLoki \/ InstallCollector \/ PlanUninstall \/ UninstallOne
    \/ Stop \/ Administer

Spec == Init /\ [][Next]_vars

\* "collector before storage": collectors that send to the managed store never
\* outlive it, wherever an installation or a removal stopped.
CollectorsHaveAStore ==
    owner["collector"] = "ours" /\ target = "managed" => owner["loki"] = "ours"

\* "without changing its immutable creation-size template": no installation asks
\* Kubernetes for a change of the size that the store was created with.
SizeIsNeverChanged ==
    owner["loki"] = "ours" /\ owner'["loki"] = "ours" => size' = size

\* "retaining checkpoint and unsent-buffer locations": an upgrade keeps the
\* location, also one that an administrator chose.
StateStaysInPlace ==
    owner["collector"] = "ours" /\ owner'["collector"] = "ours" /\ external' = external =>
        state' = state

\* "only CLI-owned log services": releases of other owners are never touched.
OthersReleasesAreKept ==
    \A r \in Releases : owner[r] = "foreign" /\ external' = external => owner'[r] = "foreign"
=============================================================================
