--------------------------- MODULE AgentScheduler ---------------------------
(***************************************************************************)
(* The schedulers that keep one member of a research task at work           *)
(* (.agents/skills/rsi/scripts/agent_scheduler.py with supervisor_prepare,  *)
(* supervisor_started, supervisor_failed, hook and release of               *)
(* continuation.py).  A scheduler reads the status of the member's thread   *)
(* from the app-server, leases the member in the database, starts a turn    *)
(* and records it: four steps with nothing held in between.                 *)
(*                                                                          *)
(*   session  "active", "paused" or "expired"                               *)
(*   row      the member: state, dispatch_state, lease_owner, lease_until,  *)
(*            dispatch_id and whether turn_id is set                        *)
(*   thread   turns that the server has accepted: queued ones are not yet   *)
(*            visible in the status, at most one is running                 *)
(*   sched    the schedulers; read: the clock when the status was read      *)
(*   clock    time; ids: dispatch ids given out                             *)
(***************************************************************************)
EXTENDS Integers, FiniteSets

CONSTANTS
    Schedulers,
    None,
    Lease,        \* seconds of a lease, in ticks
    Propagation,  \* ticks after which an accepted turn is visible, at most
    CallTime,     \* ticks that turn/start takes, at most
    Lossy,        \* whether an accepted turn/start may time out
    Settled,      \* whether a paused task is resumed only after its turns are visible
    MaxClock, MaxIds   \* bounds

VARIABLES session, row, thread, sched, clock, ids

vars == <<session, row, thread, sched, clock, ids>>

Idle == [pc |-> "poll", status |-> None, read |-> 0, id |-> 0]
Row(state, dispatch) ==
    [state |-> state, dispatch |-> dispatch, owner |-> None, until |-> 0, id |-> 0, turn |-> FALSE]
Status == IF thread.running # 0 THEN "active" ELSE "idle"
At(s, pc) == sched[s].pc = pc

\* Mutant of Leased: a started turn has no lease of its own.
LeasedDispatching == row.dispatch = "dispatching" /\ row.until > clock

\* The member is being started, or was started a moment ago.
Leased ==
    \/ row.dispatch = "dispatching" /\ row.until > clock
    \/ row.dispatch \in {"dispatching", "running"} /\ row.turn /\ row.until > clock

----------------------------------------------------------------------------
\* run_once

ReadStatus(s) ==
    /\ At(s, "poll") /\ session = "active" /\ row.state = "working"
    /\ \E status \in {Status, "systemError"} :
          sched' = [sched EXCEPT ![s] = [@ EXCEPT !.pc = "prepare", !.status = status, !.read = clock]]
    /\ UNCHANGED <<session, row, thread, clock, ids>>

\* supervisor_prepare, in one transaction
Prepare(s) ==
    LET usable == session = "active" /\ row.state = "working" IN
    /\ At(s, "prepare")
    /\ \/ /\ usable /\ sched[s].status = "active"
          /\ row' = [row EXCEPT !.dispatch = "running", !.owner = None, !.until = 0]
          /\ sched' = [sched EXCEPT ![s] = Idle] /\ UNCHANGED ids
       \/ /\ usable /\ sched[s].status = "idle" /\ ~Leased /\ ids < MaxIds
          /\ row' = [row EXCEPT !.dispatch = "dispatching", !.owner = s, !.until = clock + Lease,
                                !.id = ids + 1, !.turn = FALSE]
          /\ ids' = ids + 1
          /\ sched' = [sched EXCEPT ![s] = [@ EXCEPT !.pc = "start", !.id = ids + 1, !.read = clock]]
       \/ /\ ~usable \/ sched[s].status = "systemError" \/ (sched[s].status = "idle" /\ Leased)
          /\ sched' = [sched EXCEPT ![s] = Idle] /\ UNCHANGED <<row, ids>>
    /\ UNCHANGED <<session, thread, clock>>

\* turn/start: refused, or accepted; the answer may be lost to a timeout.
Start(s) ==
    /\ At(s, "start")
    /\ \E accepted \in BOOLEAN, answered \in IF Lossy THEN BOOLEAN ELSE {TRUE} :
          /\ thread' = IF accepted THEN [thread EXCEPT !.queued = @ \union {<<sched[s].id, clock>>}]
                       ELSE thread
          /\ sched' = [sched EXCEPT ![s].pc = IF accepted /\ answered THEN "started" ELSE "failed"]
    /\ UNCHANGED <<session, row, clock, ids>>

Mine(s) == /\ row.state = "working" /\ row.dispatch = "dispatching"
           /\ row.owner = s /\ row.id = sched[s].id

\* supervisor_started
Started(s) ==
    /\ At(s, "started")
    /\ row' = IF Mine(s) THEN [row EXCEPT !.dispatch = "running", !.owner = None,
                                          !.until = clock + Lease, !.turn = TRUE]
              ELSE row
    /\ sched' = [sched EXCEPT ![s] = Idle]
    /\ UNCHANGED <<session, thread, clock, ids>>

\* supervisor_failed
NotStarted(s) ==
    /\ At(s, "failed")
    /\ row' = IF Mine(s) THEN [row EXCEPT !.dispatch = "pending", !.owner = None, !.until = 0] ELSE row
    /\ sched' = [sched EXCEPT ![s] = Idle]
    /\ UNCHANGED <<session, thread, clock, ids>>

\* A scheduler is killed and started again.
Restart(s) ==
    /\ sched[s].pc # "poll"
    /\ sched' = [sched EXCEPT ![s] = Idle]
    /\ UNCHANGED <<session, row, thread, clock, ids>>

----------------------------------------------------------------------------
\* The member's thread.  A scheduler leases right after it has read the status:
\* nothing happens in the thread in between.
Unread == \A s \in Schedulers : ~At(s, "prepare")

Visible ==
    /\ Unread
    /\ thread.running = 0
    /\ \E t \in thread.queued : thread' = [running |-> t[1], queued |-> thread.queued \ {t}]
    /\ UNCHANGED <<session, row, sched, clock, ids>>

\* A turn stops.  hook() returns the member to pending; it blocks the first stop,
\* so that the turn goes on, and lets go of one that was blocked before.
StopHook(blocked) ==
    /\ thread.running # 0 /\ Unread
    /\ row' = IF session = "active" /\ row.state = "working"
              THEN Row("working", "pending") ELSE row
    /\ thread' = IF blocked /\ session = "active" /\ row.state = "working" THEN thread
                 ELSE [thread EXCEPT !.running = 0]
    /\ UNCHANGED <<session, sched, clock, ids>>

\* In its turn the member registers again, or releases itself.
Register ==
    /\ thread.running # 0 /\ session = "active" /\ Unread
    /\ row' = Row("working", IF row.dispatch = "running" THEN "running" ELSE "pending")
    /\ UNCHANGED <<session, thread, sched, clock, ids>>

ReleaseMember ==
    /\ thread.running # 0 /\ row.state = "working" /\ Unread
    /\ row' = Row("waiting", "released")
    /\ UNCHANGED <<session, thread, sched, clock, ids>>

\* release of the task, and its resumption; release clears all leases
Pause ==
    /\ session = "active"
    /\ session' = "paused"
    /\ row' = Row(row.state, "released")
    /\ UNCHANGED <<thread, sched, clock, ids>>

Activate ==
    /\ session = "paused"
    /\ Settled => thread.queued = {} /\ \A s \in Schedulers : At(s, "poll")
    /\ session' = "active"
    /\ UNCHANGED <<row, thread, sched, clock, ids>>

\* expire(), at the deadline
Expire ==
    /\ session = "active"
    /\ session' = "expired"
    /\ row' = Row("expired", "released")
    /\ UNCHANGED <<thread, sched, clock, ids>>

\* Time passes within the bounds on the server and on the schedulers.
Tick ==
    /\ clock < MaxClock
    /\ \A t \in thread.queued : thread.running = 0 => clock < t[2] + Propagation
    /\ \A s \in Schedulers :
          /\ ~At(s, "prepare")
          /\ sched[s].pc \in {"start", "started"} => clock < sched[s].read + CallTime
    /\ clock' = clock + 1
    /\ UNCHANGED <<session, row, thread, sched, ids>>

Init ==
    /\ session = "active"
    /\ row = Row("working", "pending")
    /\ thread = [running |-> 0, queued |-> {}]
    /\ sched = [s \in Schedulers |-> Idle]
    /\ clock = 0 /\ ids = 0

SchedulerStep(s) ==
    ReadStatus(s) \/ Prepare(s) \/ Start(s) \/ Started(s) \/ NotStarted(s) \/ Restart(s)

Next ==
    \/ \E s \in Schedulers : SchedulerStep(s)
    \/ Visible \/ Register \/ ReleaseMember \/ Pause \/ Activate \/ Expire \/ Tick
    \/ \E blocked \in BOOLEAN : StopHook(blocked)

Spec == Init /\ [][Next]_vars

----------------------------------------------------------------------------
\* The turns that the server has accepted and that have not ended.
Turns == {t[1] : t \in thread.queued} \union ({thread.running} \ {0})

\* A member never has two turns: no scheduler appends one while another, visible
\* or not yet visible, is going on.
OneTurn == Cardinality(Turns) <= 1
=============================================================================
