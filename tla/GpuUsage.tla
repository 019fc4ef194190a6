------------------------------ MODULE GpuUsage ------------------------------
(***************************************************************************)
(* GPU usage collection of the RSI tasks (scripts/gpu_usage.py).            *)
(* Collectors of one host append one record per sample of a GPU to files    *)
(* that others copy and read while they grow; a summary integrates the      *)
(* readings over a window of wall-clock time.  The host's wall clock may be *)
(* set forward and back; the monotonic clock is not.                        *)
(*                                                                          *)
(*   wall, mono   the clocks, in seconds                                    *)
(*   steps        how often the wall clock was set                          *)
(*   phase[c]     new, top (of the loop), query, wait, done, killed         *)
(*   tick[c]      the clocks as read at the start of the current sample     *)
(*   file[c]      samples.jsonl: <<>> or the start record and what follows  *)
(*   torn[c]      the last record of the file lacks its end of line         *)
(*   stop[c]      the stop file exists, or a signal was received            *)
(***************************************************************************)
EXTENDS Integers, SequencesExt, FiniteSetsExt

CONSTANTS
    Collectors,   \* integers: the identity of a collector is compared
    Interval,     \* seconds between two samples
    Deadline,     \* the wall-clock deadline of the collectors
    Readings,     \* utilizations, with None for an unavailable one
    MaxTime,      \* bound: seconds that pass
    Stoppable,    \* the collectors that are stopped or killed
    MaxSteps,     \* bound: how often the wall clock is set
    None

VARIABLES wall, mono, steps, phase, tick, file, torn, stop

vars == <<wall, mono, steps, phase, tick, file, torn, stop>>

Record(c, event, reading) ==
    [event |-> event, timestamp |-> tick[c].wall, elapsed |-> tick[c].mono - file[c][1].origin,
     sequence |-> Len(file[c]), usage |-> reading]

----------------------------------------------------------------------------
\* collect

Start(c) ==
    /\ phase[c] = "new" /\ Deadline > wall
    /\ file' = [file EXCEPT ![c] = <<[event |-> "start", timestamp |-> wall, elapsed |-> 0,
                                      sequence |-> 0, usage |-> None, origin |-> mono]>>]
    /\ phase' = [phase EXCEPT ![c] = "top"]
    /\ UNCHANGED <<wall, mono, steps, tick, torn, stop>>

End(c) ==
    /\ file' = [file EXCEPT ![c] = Append(@, [event |-> "end", timestamp |-> wall,
                    elapsed |-> mono - @[1].origin, sequence |-> Len(@), usage |-> None])]
    /\ phase' = [phase EXCEPT ![c] = "done"]

\* the loop ends at the stop file, a signal or the deadline
Finish(c) ==
    /\ \/ phase[c] = "top" /\ (stop[c] \/ wall >= Deadline)
       \/ phase[c] = "wait" /\ stop[c]
    /\ End(c)
    /\ UNCHANGED <<wall, mono, steps, tick, torn, stop>>

\* the clocks are read before the vendor's command runs
Query(c) ==
    /\ phase[c] = "top" /\ ~stop[c] /\ wall < Deadline
    /\ tick' = [tick EXCEPT ![c] = [wall |-> wall, mono |-> mono]]
    /\ phase' = [phase EXCEPT ![c] = "query"]
    /\ UNCHANGED <<wall, mono, steps, file, torn, stop>>

\* query_gpus answers, or fails: a record without readings
Emit(c) ==
    /\ phase[c] = "query"
    /\ \E r \in Readings : file' = [file EXCEPT ![c] = Append(@, Record(c, "sample", r))]
    /\ phase' = [phase EXCEPT ![c] = "wait"]
    /\ UNCHANGED <<wall, mono, steps, tick, torn, stop>>

\* the wait is cut into seconds and ends with the interval or the deadline
Wake(c) ==
    /\ phase[c] = "wait" /\ ~stop[c]
    /\ mono >= tick[c].mono + Interval \/ wall >= Deadline
    /\ phase' = [phase EXCEPT ![c] = "top"]
    /\ UNCHANGED <<wall, mono, steps, tick, file, torn, stop>>

RequestStop(c) ==
    /\ c \in Stoppable /\ phase[c] \in {"top", "query", "wait"} /\ ~stop[c]
    /\ stop' = [stop EXCEPT ![c] = TRUE]
    /\ UNCHANGED <<wall, mono, steps, phase, tick, file, torn>>

\* The process dies, perhaps while it writes its record.
Kill(c) ==
    /\ c \in Stoppable /\ phase[c] \in {"query", "wait"}
    /\ phase' = [phase EXCEPT ![c] = "killed"]
    /\ \/ UNCHANGED <<file, torn>>
       \/ /\ phase[c] = "query"
          /\ file' = [file EXCEPT ![c] = Append(@, Record(c, "sample", None))]
          /\ torn' = [torn EXCEPT ![c] = TRUE]
    /\ UNCHANGED <<wall, mono, steps, tick, stop>>

Pass ==
    /\ mono < MaxTime
    /\ wall' = wall + 1 /\ mono' = mono + 1
    /\ UNCHANGED <<steps, phase, tick, file, torn, stop>>

SetClock ==
    /\ steps < MaxSteps
    /\ \E w \in 0..MaxTime : w # wall /\ wall' = w
    /\ steps' = steps + 1
    /\ UNCHANGED <<mono, phase, tick, file, torn, stop>>

Init ==
    /\ wall = MaxSteps /\ mono = 0 /\ steps = 0
    /\ phase = [c \in Collectors |-> "new"]
    /\ tick = [c \in Collectors |-> [wall |-> 0, mono |-> 0]]
    /\ file = [c \in Collectors |-> <<>>]
    /\ torn = [c \in Collectors |-> FALSE]
    /\ stop = [c \in Collectors |-> FALSE]

Next == \/ \E c \in Collectors : Start(c) \/ Finish(c) \/ Query(c) \/ Emit(c) \/ Wake(c)
                                 \/ RequestStop(c) \/ Kill(c)
        \/ Pass \/ SetClock

Work(c) == Finish(c) \/ Emit(c) \/ Wake(c)

Spec == Init /\ [][Next]_vars /\ \A c \in Collectors : WF_vars(Work(c))

----------------------------------------------------------------------------
\* read_collectors: the snapshots of one collector are lines of its file at some
\* time; the last line may be torn.  Lines are merged by their sequence number.

Torn(r) == [r EXCEPT !.event = "torn"]
Snapshots(c) ==
    {SubSeq(file[c], 1, n) : n \in 1..Len(file[c]) - (IF torn[c] THEN 1 ELSE 0)}
    \union {Append(SubSeq(file[c], 1, n), Torn(file[c][n + 1])) : n \in 1..Len(file[c]) - 1}

Lines(snapshot) == {snapshot[i] : i \in {j \in 2..Len(snapshot) : snapshot[j].event # "torn"}}

Conflict(snapshots) ==
    \E s, t \in snapshots : \E l \in Lines(s), m \in Lines(t) : l.sequence = m.sequence /\ l # m

ReadCollector(snapshots) ==
    SetToSortSeq(UNION {Lines(s) : s \in snapshots}, LAMBDA a, b : a.sequence < b.sequence)

\* what is read of the present files: the records behind the start record
Records(c) == ReadCollector({IF torn[c] THEN [file[c] EXCEPT ![Len(file[c])] = Torn(@)] ELSE file[c]})
Started == {c \in Collectors : file[c] # <<>>}

----------------------------------------------------------------------------
\* collector_window and merge_clock_windows: wall-clock times that came twice

Windows(c) ==
    LET rs == Records(c)
        high(i) == Max({file[c][1].timestamp} \union {rs[j].timestamp : j \in 1..i - 1})
    IN  {<<rs[i].timestamp, high(i)>> : i \in {j \in DOMAIN rs : rs[j].timestamp < high(j)}}

MergeClockWindows(windows) ==
    FoldLeft(LAMBDA merged, w :
                IF merged # <<>> /\ w[1] <= Last(merged)[2]
                THEN [merged EXCEPT ![Len(merged)][2] = Max({@, w[2]})]
                ELSE Append(merged, w),
             <<>>,
             SetToSortSeq(windows, LAMBDA a, b : a[1] < b[1] \/ (a[1] = b[1] /\ a[2] < b[2])))

\* each collector's windows are merged first, and then those of the host
ClockWindows ==
    MergeClockWindows(UNION {ToSet(MergeClockWindows(Windows(c))) : c \in Started})

\* summarize: how long the reading of the i-th record of a collector is used
Stop(rs, i, until) ==
    LET r == rs[i]
        next == IF i = Len(rs) THEN {}
                ELSE {rs[i + 1].timestamp, r.timestamp + rs[i + 1].elapsed - r.elapsed}
    IN  Min({until, r.timestamp + Interval} \union next)

Cut(stamp, stopAt, windows) ==
    LET hits == {k \in DOMAIN windows : \/ windows[k][1] <= stamp /\ stamp < windows[k][2]
                                        \/ stamp < windows[k][1] /\ windows[k][1] < stopAt}
    IN  IF hits = {} THEN stopAt ELSE Max({stamp, windows[Min(hits)][1]})

Observations(until) ==
    UNION {LET rs == Records(c) IN
           {[stamp |-> rs[i].timestamp, stop |-> Cut(rs[i].timestamp, Stop(rs, i, until), ClockWindows),
             usage |-> rs[i].usage, started |-> file[c][1].timestamp, collector |-> c,
             sequence |-> rs[i].sequence] : i \in {j \in DOMAIN rs : rs[j].event = "sample"}}
           : c \in Started}

\* the order of the heap: the newest reading first
Newer(o, p) ==
    \/ o.stamp > p.stamp
    \/ /\ o.stamp = p.stamp
       /\ \/ o.started > p.started
          \/ /\ o.started = p.started
             /\ o.collector < p.collector \/ (o.collector = p.collector /\ o.sequence > p.sequence)
Newest(obs) == CHOOSE o \in obs : \A p \in obs \ {o} : Newer(o, p)

\* pops expired readings off the heap's head; the set's order makes it a heap
Expire(active, at) ==
    {o \in active : \E p \in active : p.stop > at /\ (p = o \/ Newer(p, o))}

\* summarize_gpu: <<covered, idle>> over the boundaries of the usable readings
SummarizeGpu(observations, since, until) ==
    LET Start0(o) == Max({since, o.stamp})
        used == {o \in observations : o.usage # None /\ Min({until, o.stop}) > Start0(o)}
        bounds == SetToSortSeq({Start0(o) : o \in used} \union {Min({until, o.stop}) : o \in used}, <)
        step(acc, k) ==
            LET active == Expire(acc.active \union {o \in used : Start0(o) = bounds[k]}, bounds[k])
                span == bounds[k + 1] - bounds[k]
            IN  [active |-> active,
                 covered |-> acc.covered + IF active = {} THEN 0 ELSE span,
                 idle |-> acc.idle + IF active # {} /\ Newest(active).usage = 0 THEN span ELSE 0]
        total == FoldLeft(step, [active |-> {}, covered |-> 0, idle |-> 0],
                          [k \in 1..Len(bounds) - 1 |-> k])
    IN  <<total.covered, total.idle>>

----------------------------------------------------------------------------
Valid(obs, t) == {o \in obs : o.usage # None /\ o.stamp <= t /\ t < o.stop}

\* The integral over the boundaries of the readings is the one second by second: a
\* second is covered when some numeric reading is valid in it, and idle when the
\* newest of these is zero.  The window of a summary ends by now.
IntegralIsExact ==
    \A until \in 1..wall :
        LET obs == Observations(until) IN
        \A since \in 0..until - 1 :
            LET covered == {t \in since..until - 1 : Valid(obs, t) # {}}
                idle == {t \in covered : Newest(Valid(obs, t)).usage = 0}
            IN  SummarizeGpu(obs, since, until) = <<Cardinality(covered), Cardinality(idle)>>

\* A wall-clock second that one collector of the host saw twice is never counted, not
\* for the readings of the other collectors either: no reading is used in a second
\* between two records of which the later carries the earlier time.
AmbiguousIsUnknown ==
    \A c \in Started :
        LET rs == <<file[c][1]>> \o Records(c) IN
        \A i, j \in DOMAIN rs : i < j =>
            \A t \in rs[j].timestamp..rs[i].timestamp - 1 : Valid(Observations(wall), t) = {}

\* Copies of a growing file, taken at different times and with an unfinished last
\* line, never contradict each other and together say what the longest one says.
SnapshotsAgree ==
    \A c \in Started : \A s, t \in Snapshots(c) :
        /\ ~Conflict({s, t})
        /\ ReadCollector({s, t}) \in {ReadCollector({s}), ReadCollector({t})}

Stopping(c) == stop[c] /\ phase[c] \notin {"done", "killed"}
=============================================================================
