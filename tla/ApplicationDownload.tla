------------------------ MODULE ApplicationDownload ------------------------
(***************************************************************************)
(* The init container that installs a published application in the volume   *)
(* of a Pod (install in deploy/charts/foretoken/files/                      *)
(* application-download.py).  Transfers break off, the container is killed  *)
(* between any two writes, and the kubelet starts it again on the same      *)
(* volume.                                                                  *)
(*                                                                          *)
(*   at        the step of the running container, or started, or down       *)
(*   staging   None, or the content of .incoming                            *)
(*   current   None, or the content of current: its files, which may be     *)
(*             partly removed, and the reference in its receipt             *)
(*   todo      the files of the manifest that are still to come             *)
(*   faults    how often a transfer broke or the container was killed       *)
(***************************************************************************)
EXTENDS Integers, FiniteSets

CONSTANTS
    Files,       \* the files of the publication, with "cut" for a shortened one
    Reference,   \* the selected publication
    Other,       \* an earlier selection
    MaxFaults,   \* bound
    None

VARIABLES at, staging, current, todo, faults

vars == <<at, staging, current, todo, faults>>

Whole == {<<f, "whole">> : f \in Files}
Dir(files, receipt) == [files |-> files, receipt |-> receipt]

Check ==
    /\ at = "check"
    /\ at' = IF current # None /\ current.receipt = Reference THEN "started" ELSE "clear"
    /\ UNCHANGED <<staging, current, todo, faults>>

\* what an earlier attempt has left is removed; the manifest lists the files
Clear ==
    /\ at = "clear"
    /\ at' = "files" /\ staging' = Dir({}, None) /\ todo' = Files
    /\ UNCHANGED <<current, faults>>

Write(f, size) == staging' = [staging EXCEPT !.files = @ \union {<<f, size>>}]

\* Mutant of Member: the size of a file is not compared.
MemberAnySize(f) ==
    /\ at = "files" /\ f \in todo
    /\ \E size \in {"whole", "cut"} :
          /\ Write(f, size)
          /\ size = "cut" => faults < MaxFaults
          /\ faults' = faults + IF size = "cut" THEN 1 ELSE 0
    /\ todo' = todo \ {f}
    /\ UNCHANGED <<at, current>>

\* the next entry of the archive, which is new, listed and has its size
Member(f) ==
    /\ at = "files" /\ f \in todo
    /\ Write(f, "whole")
    /\ todo' = todo \ {f}
    /\ UNCHANGED <<at, current, faults>>

\* a request fails, or a file arrives with another size; staging is removed
Break ==
    /\ at \in {"files", "receipt"} /\ faults < MaxFaults
    /\ at' = "down" /\ staging' = None /\ faults' = faults + 1
    /\ UNCHANGED <<current, todo>>

\* an archive that ends early lacks files
Receipt ==
    /\ at = "files" /\ todo = {}
    /\ staging' = [staging EXCEPT !.receipt = Reference]
    /\ at' = "remove"
    /\ UNCHANGED <<current, todo, faults>>

Remove ==
    /\ at = "remove"
    /\ current' = None
    /\ at' = "rename"
    /\ UNCHANGED <<staging, todo, faults>>

Rename ==
    /\ at = "rename"
    /\ current' = staging /\ staging' = None
    /\ at' = "started"
    /\ UNCHANGED <<todo, faults>>

\* Killed, possibly within the removal of a directory.
Kill ==
    /\ at \notin {"started", "down"} /\ faults < MaxFaults
    /\ at' = "down" /\ faults' = faults + 1
    /\ \E kept \in SUBSET (IF current = None THEN {} ELSE current.files) :
          /\ at # "remove" /\ current # None => kept = current.files
          /\ current' = IF current = None THEN None ELSE [current EXCEPT !.files = kept]
    /\ \E kept \in SUBSET (IF staging = None THEN {} ELSE staging.files) :
          staging' = IF staging = None THEN None ELSE [staging EXCEPT !.files = kept]
    /\ UNCHANGED todo

Restart ==
    /\ at = "down"
    /\ at' = "check"
    /\ UNCHANGED <<staging, current, todo, faults>>

Init ==
    /\ at = "check" /\ staging = None /\ todo = {} /\ faults = 0
    /\ current \in {None, Dir(Whole, Other)}

Step == Check \/ Clear \/ (\E f \in Files : Member(f)) \/ Receipt \/ Remove \/ Rename \/ Restart

Next == Step \/ Break \/ Kill

Spec == Init /\ [][Next]_vars /\ WF_vars(Step)

----------------------------------------------------------------------------
\* The application starts only with all the files of the selected publication, each
\* of its size, whatever earlier attempts have left in the volume.
StartedIsComplete == at = "started" => current # None /\ current.receipt = Reference /\ current.files = Whole

Started == at = "started"
=============================================================================
