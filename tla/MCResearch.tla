----------------------------- MODULE MCResearch -----------------------------
(***************************************************************************)
(* The tools of the research tasks: the work pool, the scheduler of its    *)
(* members, GPU usage and session records. The components share no state,  *)
(* so one run checks them side by side: part names the component that      *)
(* moves, and x1 to x8 are its variables.                                  *)
(***************************************************************************)
EXTENDS Integers, Sequences, FiniteSets, TLC

CONSTANT None

\* the component that moves, and its variables in the order of its vars
VARIABLES part, x1, x2, x3, x4, x5, x6, x7, x8

all == <<part, x1, x2, x3, x4, x5, x6, x7, x8>>

Line(kind, calls, results, listed) ==
    [kind |-> kind, calls |-> calls, results |-> results, listed |-> listed]

\* two calls made in one message or one after the other, answered in any order
RawLines == {
    Line("message", {1}, {}, TRUE), Line("message", {1, 2}, {}, TRUE),
    Line("message", {}, {1}, TRUE), Line("message", {}, {2}, FALSE),
    Line("execution", {}, {}, TRUE), Line("malformed", {}, {}, TRUE)}

\* Two members share work and reviews of it.
W == INSTANCE WorkPool WITH
        Agents <- {"ann", "ben"},
        Role <- [a \in {"ann", "ben"} |-> "worker"],
        Accepts <- [a \in {"ann", "ben"} |-> {"review"}],
        Kinds <- {"worker", "review"},
        Topics <- {None},
        Steps <- {},
        Exclusions <- {{}},
        Deadline <- 1,
        Interval <- 1,
        Counts <- {},
        MaxDeps <- 1,
        MaxWork <- 2,
        task <- x1, member <- x2, work <- x3, plan <- x4, overtook <- x5

\* One member, and reviews of reviews.
WC == INSTANCE WorkPool WITH
        Agents <- {"ann"},
        Role <- [a \in {"ann"} |-> "worker"],
        Accepts <- [a \in {"ann"} |-> {"review"}],
        Kinds <- {"worker", "review"},
        Topics <- {None},
        Steps <- {},
        Exclusions <- {{}},
        Deadline <- 1,
        Interval <- 1,
        Counts <- {},
        MaxDeps <- 1,
        MaxWork <- 3,
        task <- x1, member <- x2, work <- x3, plan <- x4, overtook <- x5

\* Periodic evaluations whose count the lead changes.
WE == INSTANCE WorkPool WITH
        Agents <- {"ann"},
        Role <- [a \in {"ann"} |-> "worker"],
        Accepts <- [a \in {"ann"} |-> {"review"}],
        Kinds <- {"worker"},
        Topics <- {None},
        Steps <- {},
        Exclusions <- {{"ann"}},
        Deadline <- 3,
        Interval <- 1,
        Counts <- {0, 1, 2},
        MaxDeps <- 0,
        MaxWork <- 4,
        task <- x1, member <- x2, work <- x3, plan <- x4, overtook <- x5

\* Work on two topics.
WA == INSTANCE WorkPool WITH
        Agents <- {"ann"},
        Role <- [a \in {"ann"} |-> "worker"],
        Accepts <- [a \in {"ann"} |-> {"review"}],
        Kinds <- {"worker"},
        Topics <- {"t", "u"},
        Steps <- {},
        Exclusions <- {{}},
        Deadline <- 1,
        Interval <- 1,
        Counts <- {},
        MaxDeps <- 0,
        MaxWork <- 4,
        task <- x1, member <- x2, work <- x3, plan <- x4, overtook <- x5

\* A member that queues its continuations.
WQ == INSTANCE WorkPool WITH
        Agents <- {"ann"},
        Role <- [a \in {"ann"} |-> "worker"],
        Accepts <- [a \in {"ann"} |-> {"review"}],
        Kinds <- {},
        Topics <- {},
        Steps <- {"s1", "s2"},
        Exclusions <- {},
        Deadline <- 1,
        Interval <- 1,
        Counts <- {},
        MaxDeps <- 0,
        MaxWork <- 4,
        task <- x1, member <- x2, work <- x3, plan <- x4, overtook <- x5

\* Two schedulers; a paused task is resumed after its turns are visible, and no
\* answer of turn/start is lost.
A == INSTANCE AgentScheduler WITH
        Schedulers <- {"s1", "s2"},
        Lease <- 3,
        Propagation <- 1,
        CallTime <- 1,
        Lossy <- FALSE,
        Settled <- TRUE,
        MaxClock <- 8,
        MaxIds <- 4,
        session <- x1, row <- x2, thread <- x3, sched <- x4, clock <- x5,
        ids <- x6

\* One scheduler, and a task that is resumed at any time.
AR == INSTANCE AgentScheduler WITH
        Schedulers <- {"s1"},
        Lease <- 3,
        Propagation <- 1,
        CallTime <- 1,
        Lossy <- FALSE,
        Settled <- FALSE,
        MaxClock <- 8,
        MaxIds <- 4,
        session <- x1, row <- x2, thread <- x3, sched <- x4, clock <- x5,
        ids <- x6

\* Two collectors of a host whose wall clock is set once, at any moment.
G == INSTANCE GpuUsage WITH
        Collectors <- {1, 2},
        Interval <- 2,
        Deadline <- 4,
        Readings <- {0, 1},
        MaxTime <- 3,
        Stoppable <- {},
        MaxSteps <- 1,
        wall <- x1, mono <- x2, steps <- x3, phase <- x4, tick <- x5,
        file <- x6, torn <- x7, stop <- x8

\* Two collectors that sample one GPU at their own pace.
GI == INSTANCE GpuUsage WITH
        Collectors <- {1, 2},
        Interval <- 1,
        Deadline <- 4,
        Readings <- {0, 1},
        MaxTime <- 3,
        Stoppable <- {},
        MaxSteps <- 0,
        wall <- x1, mono <- x2, steps <- x3, phase <- x4, tick <- x5,
        file <- x6, torn <- x7, stop <- x8

\* A collector that is stopped, or killed while it writes.
GS == INSTANCE GpuUsage WITH
        Collectors <- {1},
        Interval <- 2,
        Deadline <- 4,
        Readings <- {0, 1, None},
        MaxTime <- 3,
        Stoppable <- {1},
        MaxSteps <- 1,
        wall <- x1, mono <- x2, steps <- x3, phase <- x4, tick <- x5,
        file <- x6, torn <- x7, stop <- x8

\* Every mixture of three collector files of old and new formats.
I == INSTANCE GpuIdentity WITH
        Collectors <- {"c1", "c2", "c3"},
        MachineIds <- {"m1", "m2"},
        Name <- "name",
        Slots <- {1, 2},
        Requests <- {None, {1}},
        meta <- x1, sampled <- x2

\* A reader of a session's records while the agent writes them.
R == INSTANCE SessionRecords WITH
        Raw <- RawLines,
        MaxLines <- 4,
        Limit <- 2,
        Length <- 2,
        file <- x1, tail <- x2, list <- x3, shown <- x4

Init == \/ part = "pool" /\ W!Init /\ x6 = None /\ x7 = None /\ x8 = None
        \/ part = "chain" /\ WC!Init /\ x6 = None /\ x7 = None /\ x8 = None
        \/ /\ part = "evaluations" /\ WE!Init
           /\ x6 = None /\ x7 = None /\ x8 = None
        \/ part = "affinity" /\ WA!Init /\ x6 = None /\ x7 = None /\ x8 = None
        \/ part = "queue" /\ WQ!Init /\ x6 = None /\ x7 = None /\ x8 = None
        \/ part = "scheduler" /\ A!Init /\ x7 = None /\ x8 = None
        \/ part = "resumed" /\ AR!Init /\ x7 = None /\ x8 = None
        \/ part = "usage" /\ G!Init
        \/ part = "integral" /\ GI!Init
        \/ part = "stopped" /\ GS!Init
        \/ /\ part = "identity" /\ I!Init
           /\ x3 = None /\ x4 = None /\ x5 = None /\ x6 = None /\ x7 = None
           /\ x8 = None
        \/ /\ part = "records" /\ R!Init
           /\ x5 = None /\ x6 = None /\ x7 = None /\ x8 = None

Next == \/ part = "pool" /\ W!Next /\ UNCHANGED <<part, x6, x7, x8>>
        \/ part = "chain" /\ WC!Next /\ UNCHANGED <<part, x6, x7, x8>>
        \/ part = "evaluations" /\ WE!Next /\ UNCHANGED <<part, x6, x7, x8>>
        \/ part = "affinity" /\ WA!Next /\ UNCHANGED <<part, x6, x7, x8>>
        \/ part = "queue" /\ WQ!Next /\ UNCHANGED <<part, x6, x7, x8>>
        \/ part = "scheduler" /\ A!Next /\ UNCHANGED <<part, x7, x8>>
        \/ part = "resumed" /\ AR!Next /\ UNCHANGED <<part, x7, x8>>
        \/ part = "usage" /\ G!Next /\ UNCHANGED part
        \/ part = "integral" /\ GI!Next /\ UNCHANGED part
        \/ part = "stopped" /\ GS!Next /\ UNCHANGED part
        \/ /\ part = "identity" /\ I!Next
           /\ UNCHANGED <<part, x3, x4, x5, x6, x7, x8>>
        \/ part = "records" /\ R!Next /\ UNCHANGED <<part, x5, x6, x7, x8>>

Spec == Init /\ [][Next]_all

\* A review is never done by someone who has worked, in whatever stage and
\* before whatever handoff, on what it reviews.
ReviewsAreIndependent ==
    /\ part = "pool" => W!ReviewsAreIndependent
    /\ part = "chain" => WC!ReviewsAreIndependent

\* The pool stays consistent: active work is in the hands of a member and has all of
\* its inputs, open evaluations belong to one batch however many rounds were missed,
\* and a member has one unclaimed continuation at most.
PoolIsConsistent ==
    /\ part = "pool" => W!OwnersAreMembers
    /\ part = "evaluations" => WE!OneBatch
    /\ part = "queue" => WQ!OneContinuation

\* An agent may pass over an older item it could take, for a familiar one; from
\* then on it takes nothing newer than what it had reached, until that item is
\* taken: affinity delays an item by a bounded amount of work.
AffinityIsBounded == [][part = "affinity" => WA!AffinityIsBounded]_all

\* A member never has two turns: no scheduler appends one while another, visible
\* or not yet visible, is going on.
OneTurn == part = "scheduler" => A!OneTurn

\* A summary of GPU usage says what happened.  The integral over the boundaries of
\* the readings is the one second by second; a wall-clock second that one collector
\* of the host saw twice is not counted; copies of a growing file never contradict
\* each other; and a node that gives totals counts every device it was to observe
\* once, never by guessing which of two machines a record came from.
UsageIsExact ==
    /\ part = "usage" => G!AmbiguousIsUnknown
    /\ part = "integral" => GI!IntegralIsExact
    /\ part = "stopped" => GS!SnapshotsAgree
    /\ part = "identity" => I!TotalsCountDevicesOnce /\ I!NoGuessedHost

\* The pages of the list hold every record exactly once and in order, up to where
\* the transcript was read, and the chunks of one record's evidence are pieces of
\* one text, though the transcript grows between the requests and its last line may
\* be half written.
PagesAreExact == part = "records" => R!PagesAreExact /\ R!ChunksAreOfOneText
=============================================================================
