--------------------------- MODULE DirectorySource --------------------------
(***************************************************************************)
(* _source_claim: before namespaces get aliases of a shared directory, its  *)
(* volume is made to outlive its claim.  The claim and its volume are read   *)
(* and changed without a lock, while users delete and recreate the claim,    *)
(* Kubernetes binds, releases and reclaims volumes, and administrators       *)
(* change their policy.                                                      *)
(***************************************************************************)
EXTENDS Naturals, FiniteSets

CONSTANTS Volumes, MaxUid, MaxVersion, None,
          StaysDuringLookup  \* nobody deletes the claim while the command looks it up

VARIABLES
    claim,    \* None, or [uid, volume]: the claim of the configured name
    uids,     \* claims created so far
    volume,   \* volume[v]: None, or [ref, policy, version, state]; its
              \* state is "free", "bound", "released" or "reclaiming"
    data,     \* volumes whose directory exists
    aliases,  \* volumes whose directory was given to namespaces
    admin,    \* volumes an administrator made deletable after that
    op        \* the command: phase and what it has read

vars == <<claim, uids, volume, data, aliases, admin, op>>

Idle == [phase |-> "idle"]
Fresh == [ref |-> None, policy |-> "Delete", version |-> 0, state |-> "free"]

Init ==
    /\ claim = None /\ uids = 0 /\ volume = [v \in Volumes |-> Fresh] /\ data = Volumes
    /\ aliases = {} /\ admin = {} /\ op = Idle

Objects == <<claim, uids, volume, data>>

\* the requested claim exists; one that is not bound yet is waited for
ReadClaim ==
    /\ op = Idle /\ claim # None
    /\ op' = [phase |-> IF claim.volume = None THEN "wait" ELSE "volume",
              uid |-> claim.uid, volume |-> claim.volume]
    /\ UNCHANGED <<Objects, aliases, admin>>

\* "kubectl wait" accepts any claim of that name
WaitBound ==
    /\ op.phase = "wait" /\ claim # None /\ claim.volume # None /\ op' = [op EXCEPT !.phase = "again"]
    /\ UNCHANGED <<Objects, aliases, admin>>

ReadAgain ==
    /\ op.phase = "again"
    /\ op' = IF claim # None /\ claim.uid = op.uid /\ claim.volume # None
             THEN [phase |-> "volume", uid |-> op.uid, volume |-> claim.volume] ELSE Idle
    /\ UNCHANGED <<Objects, aliases, admin>>

\* the volume names this claim; one that is retained already is used as it is
ReadVolume ==
    LET seen == volume[op.volume]
        usable == seen # None /\ seen.ref = op.uid
    IN  /\ op.phase = "volume"
        /\ \/ ~usable /\ op' = Idle /\ UNCHANGED aliases
           \/ /\ usable /\ seen.policy = "Retain" /\ op' = Idle /\ aliases' = aliases \union {op.volume}
           \/ /\ usable /\ seen.policy = "Delete" /\ UNCHANGED aliases
              /\ op' = [phase |-> "patch", uid |-> op.uid, volume |-> op.volume, version |-> seen.version]
        /\ UNCHANGED <<Objects, admin>>

\* Mutant of Patch: the volume's version is not tested.
PatchUntested ==
    /\ op.phase = "patch" /\ op' = Idle /\ UNCHANGED <<claim, uids, data>>
    /\ IF volume[op.volume] = None THEN UNCHANGED <<volume, aliases, admin>>
       ELSE /\ volume' = [volume EXCEPT ![op.volume].policy = "Retain", ![op.volume].version = @ + 1]
            /\ aliases' = aliases \union {op.volume} /\ admin' = admin \ {op.volume}

\* the patch tests that the volume is still the one that was read
Patch ==
    LET seen == volume[op.volume]
    IN  /\ op.phase = "patch" /\ op' = Idle /\ UNCHANGED <<claim, uids, data>>
        /\ \/ /\ seen # None /\ seen.version = op.version /\ seen.ref = op.uid
              /\ volume' = [volume EXCEPT ![op.volume] = [seen EXCEPT !.policy = "Retain", !.version = @ + 1]]
              /\ aliases' = aliases \union {op.volume} /\ admin' = admin \ {op.volume}
           \/ /\ (IF seen = None THEN TRUE ELSE seen.version # op.version \/ seen.ref # op.uid)
              /\ UNCHANGED <<volume, aliases, admin>>

\* a call fails or times out
GiveUp == op # Idle /\ op' = Idle /\ UNCHANGED <<Objects, aliases, admin>>

Tool == ReadClaim \/ WaitBound \/ ReadAgain \/ ReadVolume \/ Patch \/ GiveUp

CreateClaim ==
    /\ claim = None /\ uids < MaxUid /\ uids' = uids + 1 /\ claim' = [uid |-> uids + 1, volume |-> None]
    /\ UNCHANGED <<volume, data, aliases, admin, op>>

DeleteClaim ==
    /\ claim # None /\ (StaysDuringLookup => op = Idle) /\ claim' = None
    /\ UNCHANGED <<uids, volume, data, aliases, admin, op>>

Changed(v, new) ==
    /\ volume[v].version < MaxVersion
    /\ volume' = [volume EXCEPT ![v] = [new EXCEPT !.version = @ + 1]]

\* Kubernetes binds a claim to a free volume: volume first, then claim
Bind ==
    \E v \in Volumes :
        /\ claim # None /\ claim.volume = None /\ volume[v] # None /\ volume[v].ref \in {None, claim.uid}
        /\ \A w \in Volumes \ {v} : IF volume[w] = None THEN TRUE ELSE volume[w].ref # claim.uid
        /\ IF volume[v].ref = None
           THEN Changed(v, [volume[v] EXCEPT !.ref = claim.uid, !.state = "bound"]) /\ UNCHANGED claim
           ELSE claim' = [claim EXCEPT !.volume = v] /\ UNCHANGED volume
        /\ UNCHANGED <<uids, data, aliases, admin, op>>

\* it marks the volume of a claim that is gone
Release ==
    \E v \in Volumes :
        /\ volume[v] # None /\ volume[v].state = "bound"
        /\ IF claim = None THEN TRUE ELSE claim.uid # volume[v].ref
        /\ Changed(v, [volume[v] EXCEPT !.state = "released"])
        /\ UNCHANGED <<claim, uids, data, aliases, admin, op>>

\* and the provisioner, which decides without marking it, reclaims it
Reclaim ==
    \E v \in Volumes :
        /\ volume[v] # None
        /\ \/ /\ volume[v].state = "released" /\ volume[v].policy = "Delete"
              /\ volume' = [volume EXCEPT ![v].state = "reclaiming"] /\ UNCHANGED data
           \/ /\ volume[v].state = "reclaiming"
              /\ volume' = [volume EXCEPT ![v] = None] /\ data' = data \ {v}
        /\ UNCHANGED <<claim, uids, aliases, admin, op>>

\* an administrator changes a policy, or frees a retained volume for another claim
Administer ==
    \E v \in Volumes :
        /\ volume[v] # None /\ volume[v].state # "reclaiming"
        /\ \/ /\ Changed(v, [volume[v] EXCEPT !.policy = IF @ = "Delete" THEN "Retain" ELSE "Delete"])
              /\ admin' = IF v \in aliases THEN admin \union {v} ELSE admin
           \/ /\ volume[v].state = "released" /\ volume[v].policy = "Retain"
              /\ Changed(v, [volume[v] EXCEPT !.ref = None, !.state = "free"]) /\ UNCHANGED admin
        /\ UNCHANGED <<claim, uids, data, aliases, op>>

Next == Tool \/ CreateClaim \/ DeleteClaim \/ Bind \/ Release \/ Reclaim \/ Administer

Spec == Init /\ [][Next]_vars

\* "Preserve the backing directory before any namespace can consume an alias": a
\* directory that was given to namespaces is there for as long as no
\* administrator makes its volume deletable again.
AliasedDirectoriesExist == \A v \in aliases \ admin : v \in data

\* "Native preconditions reject a rebound or concurrently changed source volume":
\* the volume given to namespaces is the one of the claim that was asked for,
\* though claims of that name come and go and volumes are bound to others.
AliasesTheRequestedClaim ==
    \A v \in aliases' \ aliases : volume[v] # None /\ volume[v].ref = op.uid
=============================================================================
