------------------------------ MODULE WorkPool ------------------------------
(***************************************************************************)
(* The shared work pool of a research task and its lifecycle                *)
(* (.agents/skills/rsi/scripts/work_pool.py and continuation.py).  Every    *)
(* command is one immediate SQLite transaction, hence one action; members,  *)
(* the lead, harness hooks and the clock interleave freely between them.    *)
(*                                                                          *)
(*   task     state of the session and its clock                            *)
(*   member   the recorded state of each agent                              *)
(*   work     the work table in creation order; parts: work_participants,   *)
(*            deps: dependencies, next: an id "next:<creator>:n"            *)
(*   plan     evaluation_schedule: count and next_due                       *)
(*   overtook history: for an agent and an item it has passed over, the     *)
(*            newest item it had then taken part in                         *)
(***************************************************************************)
EXTENDS Integers, Sequences, FiniteSets, FiniteSetsExt

CONSTANTS
    Agents,
    Role,         \* the role of each agent
    Accepts,      \* the further kinds each agent registers for
    Kinds,        \* kinds of submitted work
    Topics, Steps,
    Exclusions,   \* the sets of agents that submitted work excludes
    None,
    Deadline,     \* of the task, in ticks
    Interval,     \* between evaluation batches
    Counts,       \* evaluator counts that the lead sets
    MaxDeps,      \* bound: dependencies of an item
    MaxWork       \* bound: rows in the work table

VARIABLES task, member, work, plan, overtook

vars == <<task, member, work, plan, overtook>>

Capable(a) == {Role[a], "evaluation"} \union Accepts[a]
Ids == DOMAIN work

Item(kind, desc, creator, topic, deps, excluded, next) ==
    [kind |-> kind, desc |-> desc, creator |-> creator, topic |-> topic, deps |-> deps,
     excluded |-> excluded, next |-> next, state |-> "ready", owner |-> None, prev |-> None,
     parts |-> {}]

\* active(): the commands that admit work need a task before its deadline.
Active == task.state = "active" /\ task.now < Deadline

\* ready(): dependencies complete
Ready(w, n) == w[n].state = "ready" /\ \A d \in w[n].deps : w[d].state = "done"

\* contributors(): workers and experimenters of an item and of all it rests on.
Ancestry(w) ==
    LET anc[n \in 1 .. Len(w)] == {n} \union UNION {anc[d] : d \in w[n].deps} IN anc
Contributors(w, n) ==
    UNION {w[m].parts : m \in {k \in Ancestry(w)[n] : w[k].kind \in {"worker", "experimenter"}}}

\* Mutant of Eligible: only the current owner of each input counts.
EligibleUnlessOwner(w, n, a) ==
    /\ w[n].kind \in Capable(a) /\ a \notin w[n].excluded
    /\ w[n].kind = "review" => \A d \in w[n].deps : w[d].owner # a

Eligible(w, n, a) ==
    /\ w[n].kind \in Capable(a) /\ a \notin w[n].excluded
    /\ w[n].kind = "review" => a \notin Contributors(w, n)

Pending(w) == \E n \in DOMAIN w : w[n].creator = "schedule" /\ w[n].state \in {"ready", "active"}

\* due_evaluations: one batch, however many rounds were missed.
IsDue == plan.count > 0 /\ plan.due <= task.now /\ ~Pending(work)
DueWork ==
    IF ~IsDue THEN work
    ELSE work \o [i \in 1 .. plan.count |-> Item("evaluation", None, "schedule", None, {}, {}, FALSE)]
DuePlan ==
    IF ~IsDue THEN plan
    ELSE [plan EXCEPT !.due = @ + (((task.now - @) \div Interval) + 1) * Interval]
HasRoom == Len(DueWork) <= MaxWork

----------------------------------------------------------------------------
\* Commands of members

Register(a) ==
    /\ Active
    /\ member' = [member EXCEPT ![a] = "working"]
    /\ UNCHANGED <<task, work, plan, overtook>>

\* The creator of submitted work matters only to notices.
Submit(kind, topic, deps, excluded) ==
    /\ Active /\ Len(work) < MaxWork
    /\ work' = Append(work, Item(kind, None, None, topic, deps, excluded, FALSE))
    /\ UNCHANGED <<task, member, plan, overtook>>

Took(w, a) == {n \in DOMAIN w : a \in w[n].parts}
Frontier(w, a) == IF Took(w, a) = {} THEN 0 ELSE Max(Took(w, a))
Familiar(w, a) == {w[n].topic : n \in {m \in Took(w, a) : w[m].state \in {"active", "done"}}} \ {None}

\* Mutant of Candidates: every eligible item competes, whatever its age.
CandidatesAnyAge(w, a) == {n \in DOMAIN w : Ready(w, n) /\ Eligible(w, n, a)}

\* Items older than the newest one the agent has taken part in go first.
Candidates(w, a) ==
    LET open  == {n \in DOMAIN w : Ready(w, n) /\ Eligible(w, n, a)}
        older == {n \in open : n < Frontier(w, a)}
    IN  IF older # {} THEN older ELSE open

\* Familiar topics before others, then the order of creation.
Choice(w, a) ==
    LET c == Candidates(w, a)
        near == {n \in c : w[n].topic \in Familiar(w, a)}
    IN  Min(IF near # {} THEN near ELSE c)

Passed(w, a, n) == {m \in 1 .. n - 1 : Ready(w, m) /\ Eligible(w, m, a)}

Claim(a) ==
    /\ Active /\ HasRoom
    /\ member[a] = "working"
    /\ plan' = DuePlan
    /\ LET w == DueWork IN
          IF Candidates(w, a) = {} THEN work' = w /\ UNCHANGED overtook
          ELSE LET n == Choice(w, a) IN
               /\ work' = [w EXCEPT ![n].state = "active", ![n].owner = a, ![n].parts = @ \union {a}]
               /\ overtook' = [b \in Agents |-> [m \in 1 .. MaxWork |->
                     CASE m = n -> 0
                       [] b = a /\ m \in Passed(w, a, n) /\ overtook[a][m] = 0 -> Max({n, Frontier(w, a)})
                       [] OTHER -> overtook[b][m]]]
    /\ UNCHANGED <<task, member>>

Finish(a, n) ==
    /\ work[n].state = "active" /\ work[n].owner = a
    /\ work' = [work EXCEPT ![n].state = "done"]
    /\ UNCHANGED <<task, member, plan, overtook>>

Holds(n, from) == work[n].state = "active" /\ work[n].owner = from

\* A peer names the owner that has stopped.
Handoff(from, n) ==
    /\ Holds(n, from)
    /\ work' = [work EXCEPT ![n].state = "ready", ![n].owner = None, ![n].prev = from]
    /\ UNCHANGED <<task, member, plan, overtook>>

\* queue: the unclaimed continuations of a member, to be replaced
Replaceable(a, step) ==
    {n \in Ids : work[n].next /\ work[n].creator = a /\ work[n].state = "ready"
                    /\ work[n].owner = None /\ work[n].prev = None}

Queue(a, step) ==
    LET mine   == {n \in Ids : work[n].next /\ work[n].creator = a /\ work[n].state = "active"}
        unused == Replaceable(a, step)
    IN
    /\ Active
    /\ member' = [member EXCEPT ![a] = "working"]
    /\ \/ /\ mine # {} /\ work[Min(mine)].desc = step
          /\ UNCHANGED work
       \/ /\ mine # {} => work[Min(mine)].desc # step
          /\ unused # {}
          /\ work' = [n \in Ids |->
                CASE n = Min(unused) -> [work[n] EXCEPT !.kind = Role[a], !.desc = step]
                  [] n \in unused \ {Min(unused)} -> [work[n] EXCEPT !.state = "cancelled"]
                  [] OTHER -> work[n]]
       \/ /\ mine # {} => work[Min(mine)].desc # step
          /\ unused = {} /\ Len(work) < MaxWork
          /\ work' = Append(work, Item(Role[a], step, a, None, {}, {}, TRUE))
    /\ UNCHANGED <<task, plan, overtook>>

\* Mutant of MayRelease: the member's work is not looked at.
MayReleaseAlways(a) == TRUE

MayRelease(a) == \A n \in Ids : ~Holds(n, a)

\* Released as waiting, done or failed.
ReleaseMember(a) ==
    /\ task.state \notin {"none", "complete"} /\ member[a] # "none"
    /\ MayRelease(a)
    /\ member' = [member EXCEPT ![a] = "released"]
    /\ UNCHANGED <<task, work, plan, overtook>>

----------------------------------------------------------------------------
\* Commands of the lead, hooks, time

Activate ==
    /\ task.state \notin {"active", "complete"} /\ task.now < Deadline
    /\ task' = [task EXCEPT !.state = "active"]
    /\ UNCHANGED <<member, work, plan, overtook>>

ReleaseTask(state) ==
    /\ task.state \notin {"none", "complete"}
    /\ task' = [task EXCEPT !.state = state]
    /\ UNCHANGED <<member, work, plan, overtook>>

Schedule(count) ==
    /\ Active
    /\ work' = [n \in Ids |-> IF count = 0 /\ work[n].creator = "schedule" /\ work[n].state = "ready"
                              THEN [work[n] EXCEPT !.state = "cancelled"] ELSE work[n]]
    /\ plan' = [count |-> count, due |-> IF plan.due = None THEN Interval ELSE plan.due]
    /\ UNCHANGED <<task, member, overtook>>

\* expire(): also for members that still own work
Expire ==
    /\ task.state = "active" /\ task.now >= Deadline
    /\ task' = [task EXCEPT !.state = "expired"]
    /\ member' = [a \in Agents |-> IF member[a] = "none" THEN "none" ELSE "expired"]
    /\ UNCHANGED <<work, plan, overtook>>

\* hook(): every event of a session that is active makes due checks claimable.
\* What it tells the member changes nothing here.
Hook ==
    /\ Active /\ HasRoom
    /\ work' = DueWork /\ plan' = DuePlan
    /\ UNCHANGED <<task, member, overtook>>

Interrupt ==
    /\ Active
    /\ task' = [task EXCEPT !.state = "paused"]
    /\ UNCHANGED <<member, work, plan, overtook>>

Tick ==
    /\ task.now < Deadline
    /\ task' = [task EXCEPT !.now = @ + 1]
    /\ UNCHANGED <<member, work, plan, overtook>>

Init ==
    /\ task = [state |-> "none", now |-> 0]
    /\ member = [a \in Agents |-> "none"]
    /\ work = <<>>
    /\ plan = [count |-> 0, due |-> None]
    /\ overtook = [a \in Agents |-> [n \in 1 .. MaxWork |-> 0]]

Member(a) ==
    \/ Register(a) \/ Claim(a)
    \/ \E n \in Ids : Finish(a, n) \/ Handoff(a, n)
    \/ \E step \in Steps : Queue(a, step)
    \/ ReleaseMember(a)

Lead ==
    \/ Activate \/ Interrupt \/ Hook \/ Expire \/ Tick
    \/ \E state \in {"paused", "complete"} : ReleaseTask(state)
    \/ \E count \in Counts : Schedule(count)
    \/ \E kind \in Kinds, topic \in Topics, deps \in SUBSET Ids, e \in Exclusions :
          Cardinality(deps) <= MaxDeps /\ Submit(kind, topic, deps, e)

Next == Lead \/ \E a \in Agents : Member(a)

Spec == Init /\ [][Next]_vars

----------------------------------------------------------------------------
\* A review is never done by someone who has worked, in whatever stage and before
\* whatever handoff, on what it reviews.
ReviewsAreIndependent ==
    \A n \in Ids : work[n].kind = "review" => work[n].parts \cap Contributors(work, n) = {}

\* An agent may pass over an older item it could take, for a familiar one; from
\* then on it takes nothing newer than what it had reached, until that item is
\* taken: affinity delays an item by a bounded amount of work.
AffinityIsBounded ==
    \A a \in Agents, n \in Ids :
       /\ work'[n].state = "active" /\ work[n].state = "ready" /\ work'[n].owner = a
       => \A m \in 1 .. n - 1 :
             Ready(work, m) /\ Eligible(work, m, a) /\ overtook[a][m] # 0 => n < overtook[a][m]

\* Work is active only in the hands of a member: one that was released as waiting
\* or done owns none, and started work has all of its inputs.
OwnersAreMembers ==
    \A n \in Ids : work[n].state = "active" =>
        /\ member[work[n].owner] \in {"working", "expired"}
        /\ \A d \in work[n].deps : work[d].state = "done"

\* Missed rounds do not pile up: scheduled evaluations that are open belong to one
\* batch.
OneBatch ==
    Cardinality({n \in Ids : work[n].creator = "schedule" /\ work[n].state \in {"ready", "active"}})
        <= Max(Counts)

\* A member has one unclaimed continuation at most, however often it is queued,
\* claimed and handed off.
OneContinuation ==
    \A a \in Agents :
        Cardinality({n \in Ids : work[n].next /\ work[n].creator = a /\ work[n].state = "ready"
                                    /\ work[n].prev = None}) <= 1
=============================================================================
