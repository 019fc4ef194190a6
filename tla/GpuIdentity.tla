---------------------------- MODULE GpuIdentity ----------------------------
(***************************************************************************)
(* How a summary of GPU usage joins the files of several collectors         *)
(* (summarize in scripts/gpu_usage.py).  The files come from one machine,   *)
(* which keeps its name and its devices; its machine id changes when it is  *)
(* installed again, and older collectors recorded neither that id nor the   *)
(* UUIDs of the devices.  A node of the summary that gives totals must      *)
(* count every device of its scope exactly once.                            *)
(*                                                                          *)
(*   meta[c]    the collector's start record: the machine id (None when it  *)
(*              was not captured), the requested indices (None: all), and   *)
(*              the format in which it names devices                        *)
(*   sampled    the collectors of which some query succeeded                *)
(***************************************************************************)
EXTENDS Integers, FiniteSets

CONSTANTS
    Collectors,
    MachineIds,   \* the ids that the machine has had
    Name,         \* its host name
    Slots,        \* its devices, by index
    Requests,     \* sets of indices, or None
    None

VARIABLES meta, sampled

vars == <<meta, sampled>>

Formats == {"pci", "uuid", "both"}

\* the identity that a format gives to a device, and the PCI address beside it
Id(format, slot) == IF format = "pci" THEN <<"pci", slot>> ELSE <<"GPU", slot>>
Pci(format, slot) == IF format = "both" THEN <<"pci", slot>> ELSE None

\* query_gpus answers for exactly the requested devices, or not at all
Listed(c) == IF c \notin sampled THEN {} ELSE IF meta[c].requested = None THEN Slots ELSE meta[c].requested

Sample(c) ==
    /\ c \notin sampled
    /\ sampled' = sampled \union {c}
    /\ UNCHANGED meta

Init ==
    /\ meta \in [Collectors -> [id : MachineIds \union {None}, requested : Requests, format : Formats]]
    /\ sampled = {}

Next == \E c \in Collectors : Sample(c)

Spec == Init /\ [][Next]_vars

----------------------------------------------------------------------------
\* summarize

HostIds == {meta[c].id : c \in Collectors} \ {None}

HostIdentity(c) ==
    IF meta[c].id # None THEN <<"machine-id", meta[c].id>>
    ELSE IF Cardinality(HostIds) = 1 THEN <<"machine-id", CHOOSE h \in HostIds : TRUE>>
    ELSE <<"hostname", Name>>

Nodes == {HostIdentity(c) : c \in Collectors}
Segments(node) == {c \in Collectors : HostIdentity(c) = node}

\* pci_ids: the UUIDs seen at a PCI address
PciIds(node, address) ==
    {Id(meta[c].format, s) : <<c, s>> \in {p \in Segments(node) \X Slots :
        p[2] \in Listed(p[1]) /\ Pci(meta[p[1]].format, p[2]) = address}}
UuidHost(node) == \E c \in Segments(node) : Listed(c) # {} /\ meta[c].format # "pci"

Aliases(node, c, s) == IF meta[c].format = "pci" THEN PciIds(node, Id("pci", s)) ELSE {}
Identity(node, c, s) ==
    IF Cardinality(Aliases(node, c, s)) = 1 THEN CHOOSE i \in Aliases(node, c, s) : TRUE
    ELSE Id(meta[c].format, s)

\* Mutant of Ambiguous: an address without a UUID is a device of its own.
AmbiguousHost(node) == node[1] = "hostname" /\ Cardinality(HostIds) > 1

Ambiguous(node) ==
    \/ node[1] = "hostname" /\ Cardinality(HostIds) > 1
    \/ \E c \in Segments(node) : \E s \in Listed(c) :
          meta[c].format = "pci" /\ Cardinality(Aliases(node, c, s)) # 1 /\ UuidHost(node)

ScopeKnown(node) == \A c \in Segments(node) : meta[c].requested # None \/ Listed(c) # {}

\* the rows of the node: observed devices, and requested indices of no device
Devices(node) == UNION {{<<Identity(node, c, s), s>> : s \in Listed(c)} : c \in Segments(node)}
Requested(node) == UNION {meta[c].requested : c \in {d \in Segments(node) : meta[d].requested # None}}
Rows(node) ==
    {[id |-> d[1], index |-> d[2]] : d \in Devices(node)}
    \union {[id |-> None, index |-> s] : s \in Requested(node) \ {d[2] : d \in Devices(node)}}

\* aggregate_usage: the expected GPU-seconds are the window times the rows
HasTotals(node) == ScopeKnown(node) /\ ~Ambiguous(node)
RowCount(node) == Cardinality({IF r.id = None THEN <<"index", r.index>> ELSE r.id : r \in Rows(node)})

----------------------------------------------------------------------------
\* what a node's collectors were to cover
Scope(node) ==
    UNION {IF meta[c].requested = None THEN Slots ELSE meta[c].requested : c \in Segments(node)}

\* A node that gives expected GPU-seconds counts every device that its collectors
\* were to observe, and counts it once, whatever mixture of old and new records.
TotalsCountDevicesOnce == \A n \in Nodes : HasTotals(n) => RowCount(n) = Cardinality(Scope(n))

\* Records without a machine id are never put to one of two machine ids.
NoGuessedHost ==
    Cardinality(HostIds) > 1 =>
        \A c \in Collectors : meta[c].id = None => ~HasTotals(HostIdentity(c))
=============================================================================
