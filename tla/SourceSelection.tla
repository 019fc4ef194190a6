--------------------------- MODULE SourceSelection ---------------------------
(***************************************************************************)
(* select_build_sources: where the builds of an installation download from.   *)
(* A command measures the origin and the public mirrors of every source that   *)
(* the user has not configured, and keeps the choice of the previous build as  *)
(* long as it answers.  The choices are recorded with a started build          *)
(* (build.json) and replace those of the installation (install.json) when the  *)
(* build has completed.                                                        *)
(***************************************************************************)
EXTENDS Naturals, FiniteSetsExt, SequencesExt

CONSTANTS
    Registries,  \* the OCI registries with mirrors
    Variables,   \* the package indexes, proxies and Git hosts
    Mirrors,     \* Mirrors[n]: the candidates of a source, in their order
    Times,       \* bound: the durations that a probe measures, in hundredths
    MaxBuilds,   \* bound: the builds of the installation
    None

Official == "official"
User == "user"
Names == Registries \union Variables

VARIABLES
    completed,  \* the choices of install.json, or None
    pending,    \* the choices of build.json, or None
    answers,    \* history: the sources of each name that answered in the last build
    builds

vars == <<completed, pending, answers, builds>>

\* what a measurement may yield: a duration, or None for a source that fails or
\* does not answer in four seconds
Sources(n) == {Official} \union Range(Mirrors[n])
Measurements == [UNION {{n} \X Sources(n) : n \in Names} -> Times \union {None}]

\* a mirror is worth a change only when it is materially faster
Faster(elapsed, official) == elapsed * 10 <= official * 7 /\ official - elapsed >= 25

\* Mutant of SelectMirror: the earlier choice plays no part.
SelectFastest(n, m, preferred) ==
    LET available == {x \in Range(Mirrors[n]) : m[x] # None}
        best == CHOOSE x \in available : \A y \in available : m[x] <= m[y]
    IN  IF available = {} THEN Official
        ELSE IF m[Official] # None /\ ~Faster(m[best], m[Official]) THEN Official ELSE best

\* _select_mirror: Official stands for no mirror.  The first of equally fast
\* mirrors is taken.
SelectMirror(n, m, preferred) ==
    LET available == SelectSeq(Mirrors[n], LAMBDA x : m[x] # None)
        best == SelectInSeq(available, LAMBDA x : \A y \in Range(available) : m[x] <= m[y])
    IN  IF preferred = Official /\ m[Official] # None THEN Official
        ELSE IF available = <<>> THEN Official
        ELSE IF preferred \in Range(available) THEN preferred
        ELSE IF m[Official] # None /\ ~Faster(m[available[best]], m[Official]) THEN Official
        ELSE available[best]

\* the sources that are left to the selection; one setting replaces all registries
Probed(configured, registry) == (IF registry THEN Variables ELSE Names) \ configured

\* The state that a build starts from: an interrupted one counts only before the
\* first installation.
Previous == IF completed # None THEN completed ELSE pending

\* The recorded choice of a source.  A record without an entry means the origin;
\* a registry that the user configures is not recorded, a variable is.
Preferred(n) ==
    IF Previous = None THEN None
    ELSE IF n \in Registries /\ Previous[n] = User THEN Official ELSE Previous[n]

\* One build until its choices are recorded.  A source that the user configures is
\* used as it is.
Start ==
    /\ builds < MaxBuilds
    /\ \E configured \in SUBSET Names, registry \in BOOLEAN :
       \E m \in Measurements :
          LET probed == Probed(configured, registry)
              of(n) == [x \in Sources(n) |-> m[n, x]]
          IN  /\ pending' = [n \in Names |->
                    IF n \in probed THEN SelectMirror(n, of(n), Preferred(n)) ELSE User]
              /\ answers' = [n \in Names |->
                    IF n \in probed THEN {x \in Sources(n) : m[n, x] # None} ELSE {}]
    /\ builds' = builds + 1 /\ UNCHANGED completed

\* a command that reuses the arguments of the installation measures nothing
StartSaved ==
    /\ builds < MaxBuilds /\ completed # None
    /\ pending' = completed /\ answers' = [n \in Names |-> {}]
    /\ builds' = builds + 1 /\ UNCHANGED completed

\* the installation has succeeded: its record replaces the one before, and then
\* build.json is removed, unless the command is killed in between
Complete ==
    /\ pending # None /\ completed' = pending /\ pending' \in {None, pending}
    /\ UNCHANGED <<answers, builds>>

Init == completed = None /\ pending = None /\ answers = [n \in Names |-> {}] /\ builds = 0

Next == Start \/ StartSaved \/ Complete

Spec == Init /\ [][Next]_vars

\* Builds do not change sources from one to the next: an automatic choice of the
\* last installation, or of the attempt before the first, is kept when it answers,
\* however much faster another one has become, so that caches stay valid.
AnsweringChoiceIsKept ==
    \A n \in Names :
        (Previous # None /\ builds' # builds /\ Previous[n] \in answers'[n])
            => pending'[n] = Previous[n]

\* A build never downloads from a source that has not answered while another one
\* has, whatever was chosen earlier.
ChosenAnswers ==
    \A n \in Names : (builds' # builds /\ answers'[n] # {}) => pending'[n] \in answers'[n]
=============================================================================
