----------------------------- MODULE Assignments -----------------------------
(***************************************************************************)
(* The Scheduler's side of the execution protocol: the four tables that    *)
(* Scheduler/app/services/scheduling/claims.py works on (workers, jobs,    *)
(* interactive_runtimes, worker_assignments) and every transaction on      *)
(* them.  Each handler runs under the row lock of its Worker (lock_worker  *)
(* first, then assignment, job or runtime), so a handler is one atomic     *)
(* action.  Workers, users and Management are the environment: any request *)
(* may arrive at any time, late, repeated or from a previous Worker        *)
(* process; a request the code answers with an error or a replayed answer  *)
(* changes nothing and is a stuttering step.                               *)
(*                                                                         *)
(* Time is counted down: a lease, a heartbeat's freshness or a deadline is *)
(* the number of ticks left, 0 meaning "<= now()".                         *)
(***************************************************************************)
EXTENDS Naturals, FiniteSets

CONSTANTS
    Workers,       \* worker ids
    Instances,     \* process instance ids a Worker may start with
    Requests,      \* claim request ids
    Jobs,          \* batch job ids
    Workspaces,    \* interactive workspaces
    Runtimes,      \* rows of interactive_runtimes
    Assigns,       \* rows of worker_assignments
    InteractiveReady, \* the Workers whose preflight admits interactive work
    MaxSlots,      \* Worker's max_concurrent_jobs
    Vram,          \* vram_required of each job (declared, or found by its estimation)
    FreeVram,      \* values of free_vram_gb a Worker reports
    LeaseTicks,    \* lease_seconds (45 s)
    FreshTicks,    \* fresh_seconds (15 s)
    StartupTicks,  \* startup_seconds
    LifetimeTicks, \* lifetime_seconds, 0 when sessions are unlimited
    None           \* SQL NULL

ASSUME ConstantsAssumption ==
    /\ {MaxSlots, LeaseTicks, FreshTicks, StartupTicks} \subseteq Nat \ {0}
    /\ LifetimeTicks \in Nat
    /\ IsFiniteSet(Assigns)
    /\ Vram \in [Jobs -> Nat]
    /\ FreeVram \subseteq Nat
    /\ InteractiveReady \subseteq Workers
    /\ Jobs \cap Runtimes = {}
    /\ None \notin Workers \cup Instances \cup Requests \cup Jobs
                     \cup Workspaces \cup Runtimes \cup Assigns

VARIABLES worker, job, rt, asg

vars == <<worker, job, rt, asg>>

Estimation == "vram_estimation"
Batch == "batch_training"
Interactive == "interactive_access"

JobStatus == {"IMAGE_READY", "VRAM_ESTIMATION_PENDING", "RUNNABLE", "IN_PROGRESS",
              "RETRY_NEEDED", "COMPLETED", "FAILED"}
Outcomes == {"estimation", "completed", "user_failure", "system_failure"}
Phases == {"ASSIGNED", "PULLING", "STARTING", "CONNECTING"}
Order == [ASSIGNED |-> 0, PULLING |-> 1, STARTING |-> 2, CONNECTING |-> 3]
Ended == {"STOPPED", "FAILED"}
RuntimeState == {"FREE", "QUEUED", "READY", "STOPPING", "LOST"} \cup Phases \cup Ended
AssignmentState == {"FREE", "CLAIMED", "ACTIVE", "CLEANING", "LOST", "RELEASED"}
Health == {"good", "bad", "rekeyed"}

(***************************************************************************)
(* Rows.  worker.mode folds the modes that admit nothing, and the paused,  *)
(* draining, restricted and incomplete-inventory flags, into "BLOCKED":    *)
(* all of them come with a heartbeat and hold until the next.              *)
(* worker.held is the number of local_assignments of the stored inventory. *)
(* rt.code says whether failure_code is set, rt.started is the column      *)
(* enrollment_started, rt.ready says whether ready_at is set and rt.fresh  *)
(* is the freshness of rt.health; the row's id stands for (id,             *)
(* generation).  An assignment's id stands for (id, attempt_token), which  *)
(* are created together.                                                   *)
(***************************************************************************)
WorkerRow == [instance: Instances \cup {None}, fresh: 0..FreshTicks,
              reconciling: BOOLEAN, mode: {"AVAILABLE", "BATCH_ACTIVE", "BLOCKED"},
              slots: Nat, held: Nat, free: Nat]
RuntimeRow == [state: RuntimeState, desired: {"RUNNING", "STOPPED"},
               ws: Workspaces \cup {None}, asg: Assigns \cup {None},
               code: BOOLEAN, revoked: BOOLEAN, started: BOOLEAN, ready: BOOLEAN,
               health: {"good", "bad"}, fresh: 0..FreshTicks,
               startup: 0..StartupTicks, life: 0..LifetimeTicks]
AssignmentRow == [state: AssignmentState, kind: {Estimation, Batch, Interactive, None},
                  worker: Workers \cup {None}, instance: Instances \cup {None},
                  request: Requests \cup {None}, target: Jobs \cup Runtimes \cup {None},
                  lease: 0..LeaseTicks, outcome: Outcomes \cup {None}, ack: BOOLEAN]

FreeRuntime == [state |-> "FREE", desired |-> "RUNNING", ws |-> None, asg |-> None,
                code |-> FALSE, revoked |-> FALSE, started |-> FALSE, ready |-> FALSE,
                health |-> "bad", fresh |-> 0, startup |-> 0, life |-> 0]
FreeAssignment == [state |-> "FREE", kind |-> None, worker |-> None, instance |-> None,
                   request |-> None, target |-> None, lease |-> 0, outcome |-> None,
                   ack |-> FALSE]

Init ==
    /\ worker = [w \in Workers |-> [instance |-> None, fresh |-> 0, reconciling |-> TRUE,
                                    mode |-> "BLOCKED", slots |-> 0, held |-> 0, free |-> 0]]
    /\ job \in [Jobs -> {"IMAGE_READY", "VRAM_ESTIMATION_PENDING", "RUNNABLE"}]
    /\ rt = [r \in Runtimes |-> FreeRuntime]
    /\ asg = [a \in Assigns |-> FreeAssignment]

IsLive(x) == x.state \notin {"FREE", "RELEASED"}
Live(w) == {a \in Assigns : asg[a].worker = w /\ IsLive(asg[a])}
Unassigned(t) == \A a \in Assigns : asg[a].target = t => ~IsLive(asg[a])

-----------------------------------------------------------------------------
(* Admission and the three-tier policy.                                    *)

worker_eligible(w) ==
    /\ worker[w].instance # None
    /\ worker[w].fresh > 0
    /\ ~worker[w].reconciling
    /\ worker[w].mode # "BLOCKED"
    /\ worker[w].slots > 0

compatible_gpu(w) ==
    /\ w \in InteractiveReady
    /\ Live(w) = {}
    /\ worker[w].held = 0
    /\ worker[w].mode = "AVAILABLE"

(* The idle, eligible Workers whose free VRAM a Worker must match before it
   is offered an estimation.                                               *)
IdleWorkers == {w \in Workers : worker_eligible(w) /\ Live(w) = {} /\ worker[w].held = 0}

(* Mutant: live attempts are not looked up.                                *)
Waiting_Assigned(status) == {j \in Jobs : job[j] = status}

(* Eligible jobs of one tier.                                              *)
Waiting(status) == {j \in Jobs : job[j] = status /\ Unassigned(j)}
Fitting(w, status) == {j \in Waiting(status) : Vram[j] + 1 <= worker[w].free}

EstimationTier(w) ==
    IF /\ Live(w) = {}
       /\ worker[w].held = 0
       /\ \A v \in IdleWorkers : worker[v].free <= worker[w].free
    THEN Waiting("VRAM_ESTIMATION_PENDING") ELSE {}

InteractiveTier(w) ==
    IF compatible_gpu(w)
    THEN {r \in Runtimes : rt[r].state = "QUEUED" /\ rt[r].desired = "RUNNING"} ELSE {}

Offers(kind, targets) == {[kind |-> kind, target |-> t] : t \in targets}

(* ThreeTierPolicy.choose: the candidates of the first tier that has one.
   Which of them is the oldest is left open.                               *)
choose(w) ==
    IF EstimationTier(w) # {} THEN Offers(Estimation, EstimationTier(w))
    ELSE IF InteractiveTier(w) # {} THEN Offers(Interactive, InteractiveTier(w))
    ELSE IF Fitting(w, "RETRY_NEEDED") # {} THEN Offers(Batch, Fitting(w, "RETRY_NEEDED"))
    ELSE Offers(Batch, Fitting(w, "RUNNABLE"))

(* Mutants: one reservation too many; nothing is exclusive.                *)
Admits_OneMore(w, i) ==
    /\ worker[w].instance = i
    /\ worker_eligible(w)
    /\ \A a \in Live(w) : asg[a].kind = Batch /\ asg[a].state \notin {"LOST", "CLEANING"}
    /\ Cardinality(Live(w)) <= worker[w].slots + worker[w].held
Admits_Shared(w, i) ==
    /\ worker[w].instance = i
    /\ worker_eligible(w)
    /\ \A a \in Live(w) : asg[a].state \notin {"LOST", "CLEANING"}
    /\ Cardinality(Live(w)) < worker[w].slots + worker[w].held

(* Guards of claim() before the policy is asked.                           *)
Admits(w, i) ==
    /\ worker[w].instance = i
    /\ worker_eligible(w)
    /\ \A a \in Live(w) : asg[a].kind = Batch /\ asg[a].state \notin {"LOST", "CLEANING"}
    /\ Cardinality(Live(w)) < worker[w].slots + worker[w].held

(* The free row a reserves candidate c for w.                              *)
reserve(w, i, q, c, a) ==
    /\ asg[a].state = "FREE"
    /\ asg' = [asg EXCEPT ![a] =
         [state |-> "CLAIMED", kind |-> c.kind, worker |-> w, instance |-> i,
          request |-> q, target |-> c.target, lease |-> LeaseTicks,
          outcome |-> None, ack |-> FALSE]]
    /\ \/ /\ c.kind = Interactive
          /\ rt' = [rt EXCEPT ![c.target].state = "ASSIGNED", ![c.target].asg = a,
                              ![c.target].startup = StartupTicks,
                              ![c.target].life = LifetimeTicks]
          /\ UNCHANGED job
       \/ /\ c.kind = Batch
          /\ job' = [job EXCEPT ![c.target] = "IN_PROGRESS"]
          /\ UNCHANGED rt
       \/ /\ c.kind = Estimation
          /\ UNCHANGED <<job, rt>>
    /\ UNCHANGED worker

(* A claim that reserves: a new request of the current instance.  A repeated
   request replays the envelope of the row it created.                     *)
claim(w, i, q) ==
    /\ \A a \in Assigns : <<asg[a].worker, asg[a].instance, asg[a].request>> # <<w, i, q>>
    /\ Admits(w, i)
    /\ \E c \in choose(w), a \in Assigns : reserve(w, i, q, c, a)

-----------------------------------------------------------------------------
(* Fences and the helpers that several handlers share.                     *)

Matches(a, w, i) ==
    asg[a].state # "FREE" /\ asg[a].worker = w /\ asg[a].instance = i

(* fence(): the attempt is current and its lease has not run out.          *)
fence(a, w, i) ==
    /\ Matches(a, w, i)
    /\ worker[w].instance = i
    /\ asg[a].state \notin {"RELEASED", "LOST"}
    /\ asg[a].lease > 0

stop_runtime(x, code) ==
    [x EXCEPT !.desired = "STOPPED",
              !.state = IF @ \in Ended THEN @ ELSE "STOPPING",
              !.code = @ \/ code]

(* The status a finished attempt leaves its job in.                        *)
StatusAfter(x) ==
    IF x.outcome = "estimation" THEN "RUNNABLE"
    ELSE IF x.outcome = "completed" THEN "COMPLETED"
    ELSE IF x.outcome = "user_failure" THEN "FAILED"
    ELSE IF x.kind = Estimation THEN "VRAM_ESTIMATION_PENDING" ELSE "RETRY_NEEDED"

(* release_if_clean() at the end of a transaction in which the assignment
   row became x and, for an interactive assignment, its runtime row y.     *)
release_if_clean(a, x, y) ==
    LET release == IsLive(x) /\ x.ack /\ (x.kind = Interactive => y.revoked)
    IN  /\ asg' = [asg EXCEPT ![a] = IF release THEN [x EXCEPT !.state = "RELEASED"] ELSE x]
        /\ rt' = IF x.kind # Interactive THEN rt
                 ELSE [rt EXCEPT ![x.target] =
                        IF release THEN [y EXCEPT !.state = IF y.code THEN "FAILED"
                                                                      ELSE "STOPPED"]
                                   ELSE y]
        /\ job' = IF release /\ x.kind # Interactive
                  THEN [job EXCEPT ![x.target] = StatusAfter(x)] ELSE job

-----------------------------------------------------------------------------
(* Worker requests.                                                        *)

(* Mutant: the slots are not cut off at zero.                              *)
Reported_Unclamped(x, mode, n, measuring, free) ==
    [x EXCEPT !.fresh = FreshTicks, !.mode = mode, !.held = n, !.free = free,
              !.slots = IF mode = "BLOCKED" \/ measuring THEN 0 ELSE MaxSlots - n]

(* The inventory a Worker reports with n unreleased local records.         *)
Reported(x, mode, n, measuring, free) ==
    [x EXCEPT !.fresh = FreshTicks, !.mode = mode, !.held = n, !.free = free,
              !.slots = IF mode = "BLOCKED" \/ measuring \/ n > MaxSlots
                        THEN 0 ELSE MaxSlots - n]

(* register(): a process with another instance id takes the Worker over and
   every live attempt of the old one is lost.  A Worker registers while its
   mode is RECONCILING, with the records its journal still holds.          *)
register(w, i, n) ==
    LET taken == IF worker[w].instance = i THEN {} ELSE Live(w)
    IN  /\ worker' = [worker EXCEPT ![w] =
                        [Reported(@, "BLOCKED", n, FALSE, 0) EXCEPT !.instance = i,
                                                                   !.reconciling = TRUE]]
        /\ asg' = [a \in Assigns |-> IF a \in taken THEN [asg[a] EXCEPT !.state = "LOST"]
                                                    ELSE asg[a]]
        /\ rt' = [r \in Runtimes |-> IF \E a \in taken : asg[a].target = r
                                     THEN stop_runtime(rt[r], TRUE) ELSE rt[r]]
        /\ UNCHANGED job

(* The runtime row after a heartbeat's deadline checks.                    *)
Deadlines(x) ==
    LET y == IF x.state # "READY" /\ x.startup = 0 THEN stop_runtime(x, TRUE) ELSE x
    IN  IF LifetimeTicks > 0 /\ y.life = 0 THEN stop_runtime(y, TRUE) ELSE y

(* ... and after the health and the SSH host key it reports are taken in.  *)
Reporting(x, health) ==
    LET y == [x EXCEPT !.health = IF health = "bad" THEN "bad" ELSE "good",
                       !.fresh = FreshTicks]
    IN  IF health = "rekeyed" \/ (y.state = "READY" /\ health = "bad")
        THEN stop_runtime(y, TRUE) ELSE y

(* Mutants: the test of the lease, or of the state, is missing.            *)
Renewable_AnyLease(x, i) == x.instance = i /\ x.state \notin {"LOST", "CLEANING"}
Renewable_AnyState(x, i) == x.instance = i /\ x.lease > 0

(* An attempt a report of instance i may renew.                            *)
Renewable(x, i) ==
    /\ x.instance = i
    /\ x.state \notin {"LOST", "CLEANING"}
    /\ x.lease > 0

(* heartbeat() of instance i that reports the attempts in reports (and holds
   n records).  Every live attempt is renewed or lost.                     *)
heartbeat(w, i, reports, n, mode, free, timely, health) ==
    LET current(a) == timely /\ a \in reports /\ Renewable(asg[a], i)
        before(a) == Deadlines(rt[asg[a].target])
        accepts(a) == current(a) /\ before(a).desired = "RUNNING"
        after(a) == IF accepts(a) THEN Reporting(before(a), health) ELSE before(a)
        valid(a) == IF asg[a].kind = Interactive
                    THEN accepts(a) /\ after(a).desired = "RUNNING" ELSE current(a)
        beaten(a) == IF valid(a) THEN [asg[a] EXCEPT !.lease = LeaseTicks]
                     ELSE IF asg[a].state = "CLEANING" THEN asg[a]
                     ELSE [asg[a] EXCEPT !.state = "LOST"]
        hosted(a) == IF valid(a) \/ after(a).desired = "STOPPED" THEN after(a)
                     ELSE [after(a) EXCEPT !.state = "LOST"]
        measuring == \E a \in reports : asg[a].kind = Estimation
    IN  /\ worker[w].instance = i
        /\ asg' = [a \in Assigns |-> IF a \in Live(w) THEN beaten(a) ELSE asg[a]]
        /\ rt' = [r \in Runtimes |->
                    IF \E a \in Live(w) : asg[a].target = r
                    THEN hosted(CHOOSE a \in Live(w) : asg[a].target = r) ELSE rt[r]]
        /\ worker' = [worker EXCEPT ![w] =
                        [Reported(@, mode, n, measuring, free) EXCEPT
                           !.reconciling = \/ ~timely \/ mode = "BLOCKED"
                                           \/ reports # Live(w)
                                           \/ \E a \in Live(w) : beaten(a).state = "LOST"]]
        /\ UNCHANGED job

(* The runtime row in a new phase, with the health reported for it.        *)
Progressed(x, phase, health) ==
    [x EXCEPT !.state = phase, !.fresh = FreshTicks,
              !.health = IF health = "bad" THEN "bad" ELSE "good"]

(* event(): progress of an interactive attempt.  A phase may repeat or move
   forward; a failure or the phase STOPPING begins cleaning.  (An ordinary
   phase for a stopped runtime only advances the event sequence.)          *)
event(w, i, a, phase, failure, health) ==
    LET r == asg[a].target
        moved == Progressed(rt[r], phase, health)
    IN  /\ fence(a, w, i)
        /\ asg[a].kind = Interactive
        /\ \/ /\ failure \/ phase = "STOPPING"
              /\ rt' = [rt EXCEPT ![r] = stop_runtime(@, failure)]
              /\ asg' = [asg EXCEPT ![a].state = "CLEANING"]
           \/ /\ ~failure /\ phase # "STOPPING"
              /\ rt[r].desired = "RUNNING"
              /\ rt[r].state \in Phases /\ Order[rt[r].state] <= Order[phase]
              /\ rt' = [rt EXCEPT ![r] = IF health = "rekeyed"
                                        THEN stop_runtime(moved, TRUE) ELSE moved]
              /\ asg' = [asg EXCEPT ![a].state = "ACTIVE"]
        /\ UNCHANGED <<worker, job>>

(* Mutant: the job is settled as soon as its result arrives.               *)
result_Settles(w, i, a, outcome) ==
    /\ fence(a, w, i)
    /\ asg[a].kind # Interactive
    /\ asg[a].outcome \in {None, outcome}
    /\ outcome = "estimation" => asg[a].kind = Estimation
    /\ outcome = "completed" => asg[a].kind = Batch
    /\ asg' = [asg EXCEPT ![a].outcome = outcome, ![a].state = "CLEANING"]
    /\ job' = [job EXCEPT ![asg[a].target] = StatusAfter(asg'[a])]
    /\ UNCHANGED <<worker, rt>>

(* result(): the outcome of a batch attempt, fixed by the first report.    *)
result(w, i, a, outcome) ==
    /\ fence(a, w, i)
    /\ asg[a].kind # Interactive
    /\ asg[a].outcome \in {None, outcome}
    /\ outcome = "estimation" => asg[a].kind = Estimation
    /\ outcome = "completed" => asg[a].kind = Batch
    /\ asg' = [asg EXCEPT ![a].outcome = outcome, ![a].state = "CLEANING"]
    /\ UNCHANGED <<worker, job, rt>>

(* Mutant: cleanup is fenced by the lease like every other request.        *)
cleanup_Fenced(w, i, a, failure) ==
    /\ fence(a, w, i)
    /\ failure => asg[a].kind = Interactive
    /\ release_if_clean(a, [asg[a] EXCEPT !.ack = TRUE],
                        stop_runtime(rt[asg[a].target], failure))
    /\ UNCHANGED worker

(* cleanup(): the Worker confirms that nothing of the attempt runs any more.
   Any attempt it still knows may be acknowledged, whatever its lease.     *)
cleanup(w, i, a, failure) ==
    /\ Matches(a, w, i)
    /\ asg[a].state # "RELEASED"
    /\ failure => asg[a].kind = Interactive
    /\ release_if_clean(a, [asg[a] EXCEPT !.ack = TRUE],
                        stop_runtime(rt[asg[a].target], failure))
    /\ UNCHANGED worker

-----------------------------------------------------------------------------
(* The controller: expire() and the transactions of reconcile_one() and
   bootstrap() around their calls to Management.                           *)

(* Mutants: every lapsed attempt keeps its row; every one gives it up.     *)
Lapsed_KeepsRow(x) == [x EXCEPT !.state = "LOST"]
Lapsed_GivesUp(x) == [x EXCEPT !.state = "RELEASED"]

(* An attempt after its lease has run out: batch work is retired, an
   interactive runtime keeps its Worker until it is cleaned up.            *)
Lapsed(x) == [x EXCEPT !.state = IF x.kind = Interactive THEN "LOST" ELSE "RELEASED"]

(* expire(), for one Worker with a lapsed lease: a batch attempt becomes a
   tombstone and its job is queued again, an interactive one is lost.      *)
expire(w) ==
    LET lapsed == {a \in Live(w) : asg[a].lease = 0}
        requeued == {a \in lapsed : asg[a].kind # Interactive}
    IN  /\ lapsed # {}
        /\ asg' = [a \in Assigns |-> IF a \in lapsed THEN Lapsed(asg[a]) ELSE asg[a]]
        /\ job' = [j \in Jobs |->
                     IF \E a \in requeued : asg[a].target = j
                     THEN IF \E a \in requeued : asg[a].target = j /\ asg[a].kind = Estimation
                          THEN "VRAM_ESTIMATION_PENDING" ELSE "RETRY_NEEDED"
                     ELSE job[j]]
        /\ rt' = [r \in Runtimes |->
                    IF rt[r].desired = "RUNNING" /\ \E a \in lapsed : asg[a].target = r
                    THEN [rt[r] EXCEPT !.state = "LOST", !.code = TRUE] ELSE rt[r]]
        /\ worker' = [worker EXCEPT ![w].reconciling = TRUE]

Healthy(x) == x.fresh > 0 /\ x.health = "good"

(* Rows reconcile_one() works on.  A row is selected before it has ended, but
   may end before the Worker's lock is taken.                              *)
Candidate(r) ==
    /\ rt[r].asg # None
    /\ \/ rt[r].state \in {"CONNECTING", "READY", "LOST", "STOPPING"}
       \/ rt[r].desired = "STOPPED"
       \/ rt[r].startup = 0

(* First transaction of reconcile_one(): stop what has failed.             *)
reconcile_begin(r) ==
    LET late == \/ rt[r].state = "LOST" \/ asg[rt[r].asg].lease = 0
                \/ rt[r].state # "READY" /\ rt[r].startup = 0
        x == IF late THEN stop_runtime(rt[r], TRUE) ELSE rt[r]
    IN  /\ Candidate(r)
        /\ rt' = [rt EXCEPT ![r] = IF x.state = "READY" /\ ~Healthy(x)
                                  THEN stop_runtime(x, TRUE) ELSE x]
        /\ UNCHANGED <<worker, job, asg>>

(* Last transaction for a runtime that was stopped when selected.  Without
   an enrollment there is nothing to revoke; otherwise Management says
   whether the enrollment is revoked.                                      *)
reconcile_revoke(r, revoked) ==
    /\ rt[r].asg # None
    /\ rt[r].desired = "STOPPED"
    /\ ~rt[r].started => revoked
    /\ release_if_clean(rt[r].asg, asg[rt[r].asg], [rt[r] EXCEPT !.revoked = revoked])
    /\ UNCHANGED worker

(* Management was called for r: r had an enrollment and was CONNECTING,
   READY or stopped when selected.  It may be lost, stopped or ended since. *)
Called(r) ==
    /\ rt[r].asg # None
    /\ rt[r].started
    /\ rt[r].state \notin {"ASSIGNED", "PULLING", "STARTING"}

(* Mutant: the assignment is not checked again after the call.             *)
reconcile_ready_Unchecked(r) ==
    /\ Called(r)
    /\ rt[r].desired = "RUNNING"
    /\ Healthy(rt[r])
    /\ rt' = [rt EXCEPT ![r].state = "READY", ![r].ready = TRUE]
    /\ UNCHANGED <<worker, job, asg>>

(* Last transaction when Management reports the endpoint READY: everything
   is checked again.                                                       *)
reconcile_ready(r) ==
    /\ Called(r)
    /\ rt[r].desired = "RUNNING"
    /\ Healthy(rt[r])
    /\ asg[rt[r].asg].state \notin {"LOST", "CLEANING"}
    /\ asg[rt[r].asg].lease > 0
    /\ rt' = [rt EXCEPT ![r].state = "READY", ![r].ready = TRUE]
    /\ UNCHANGED <<worker, job, asg>>

(* Management refused a call (409, 410, 422): the runtime is stopped.      *)
reconcile_refused(r) ==
    /\ Called(r)
    /\ rt' = [rt EXCEPT ![r] = stop_runtime(@, TRUE)]
    /\ UNCHANGED <<worker, job, asg>>

(* First transaction of bootstrap(): from here on an enrollment may exist. *)
bootstrap(w, i, a) ==
    LET r == asg[a].target
    IN  /\ fence(a, w, i)
        /\ asg[a].kind = Interactive
        /\ rt[r].desired = "RUNNING"
        /\ rt[r].state \in {"STARTING", "CONNECTING"}
        /\ rt' = [rt EXCEPT ![r].started = TRUE]
        /\ UNCHANGED <<worker, job, asg>>

-----------------------------------------------------------------------------
(* Users, and time.                                                        *)

(* start() of a workspace without a live runtime inserts a QUEUED row.     *)
start(r, ws) ==
    /\ rt[r].state = "FREE"
    /\ \A q \in Runtimes : rt[q].ws = ws => rt[q].state \in Ended
    /\ rt' = [rt EXCEPT ![r].state = "QUEUED", ![r].ws = ws]
    /\ UNCHANGED <<worker, job, asg>>

(* Mutant: every stop ends the runtime at once.                            *)
stop_Ends(r) ==
    /\ rt[r].state # "FREE"
    /\ rt' = [rt EXCEPT ![r] = [stop_runtime(@, FALSE) EXCEPT !.state = "STOPPED"]]
    /\ UNCHANGED <<worker, job, asg>>

(* stop() by the owner.  A runtime no Worker has claimed ends at once.     *)
stop(r) ==
    /\ rt[r].state # "FREE"
    /\ rt' = [rt EXCEPT ![r] =
                IF @.asg = None
                THEN [stop_runtime(@, FALSE) EXCEPT !.state = "STOPPED", !.revoked = TRUE]
                ELSE stop_runtime(@, FALSE)]
    /\ UNCHANGED <<worker, job, asg>>

submit_training(j) ==
    /\ job[j] = "IMAGE_READY"
    /\ job' = [job EXCEPT ![j] = "VRAM_ESTIMATION_PENDING"]
    /\ UNCHANGED <<worker, rt, asg>>

Less(n) == IF n = 0 THEN 0 ELSE n - 1

Later(x) == [x EXCEPT !.fresh = Less(@), !.startup = Less(@), !.life = Less(@)]

Tick ==
    /\ worker' = [w \in Workers |-> [worker[w] EXCEPT !.fresh = Less(@)]]
    /\ asg' = [a \in Assigns |-> [asg[a] EXCEPT !.lease = Less(@)]]
    /\ rt' = [r \in Runtimes |-> Later(rt[r])]
    /\ UNCHANGED job

-----------------------------------------------------------------------------
(* The attempts a process of w may still hold in its journal.              *)
Known(w) == {a \in Assigns : asg[a].worker = w}

Beat(w) ==
    \E i \in Instances, reports \in SUBSET Known(w), free \in FreeVram, timely \in BOOLEAN,
       mode \in {"AVAILABLE", "BATCH_ACTIVE", "BLOCKED"}, health \in Health :
         /\ mode = "AVAILABLE" => reports = {}
         /\ health # "good" => \E a \in reports : asg[a].kind = Interactive
         /\ heartbeat(w, i, reports, Cardinality(reports), mode, free, timely, health)

(* A failure is reported with the phase STOPPING: the other phases make no
   difference to it.                                                       *)
Event(w, a) ==
    \E i \in Instances :
        \/ \E failure \in BOOLEAN : event(w, i, a, "STOPPING", failure, "good")
        \/ \E phase \in Phases \ {"ASSIGNED"}, health \in Health :
             event(w, i, a, phase, FALSE, health)

WorkerStep(w) ==
    \/ \E i \in Instances, q \in Requests : claim(w, i, q)
    \/ \E i \in Instances : register(w, i, Cardinality(Live(w)))
    \/ Beat(w)
    \/ \E a \in Assigns : Event(w, a)
    \/ \E a \in Assigns, i \in Instances, o \in Outcomes : result(w, i, a, o)
    \/ \E a \in Assigns, i \in Instances, f \in BOOLEAN : cleanup(w, i, a, f)
    \/ \E a \in Assigns, i \in Instances : bootstrap(w, i, a)

ControllerStep ==
    \/ \E w \in Workers : expire(w)
    \/ \E r \in Runtimes : reconcile_begin(r)
    \/ \E r \in Runtimes, b \in BOOLEAN : reconcile_revoke(r, b)
    \/ \E r \in Runtimes : reconcile_ready(r)
    \/ \E r \in Runtimes : reconcile_refused(r)

UserStep ==
    \/ \E r \in Runtimes, ws \in Workspaces : start(r, ws)
    \/ \E r \in Runtimes : stop(r)
    \/ \E j \in Jobs : submit_training(j)

Next ==
    \/ ControllerStep
    \/ \E w \in Workers : WorkerStep(w)
    \/ UserStep
    \/ Tick

Spec == Init /\ [][Next]_vars

(* Time passes; the controller loop calls expire() and reconcile_one() every
   few seconds; a Worker repeats the cleanup request of an interactive attempt
   until it is answered; Management sooner or later confirms a revocation.
   Nothing is assumed of the Worker of a batch attempt.                    *)
Fairness ==
    /\ WF_vars(Tick)
    /\ \A w \in Workers : WF_vars(expire(w))
    /\ \A r \in Runtimes : WF_vars(reconcile_begin(r)) /\ WF_vars(reconcile_revoke(r, TRUE))
    /\ \A a \in Assigns : WF_vars(asg[a].kind = Interactive
                                    /\ cleanup(asg[a].worker, asg[a].instance, a, FALSE))

FairSpec == Spec /\ Fairness

-----------------------------------------------------------------------------
(* Every row of the four tables has the columns and values of the models.  *)
TypeOK ==
    /\ worker \in [Workers -> WorkerRow]
    /\ job \in [Jobs -> JobStatus]
    /\ rt \in [Runtimes -> RuntimeRow]
    /\ asg \in [Assigns -> AssignmentRow]

(* A job or a runtime has at most one live attempt, however often it was
   retried, expired or taken over (the partial unique indexes of
   worker_assignments never fire).                                         *)
OneAttemptPerTarget ==
    \A a, b \in Assigns :
        IsLive(asg[a]) /\ IsLive(asg[b]) /\ asg[a].target = asg[b].target => a = b

(* An interactive runtime has its Worker to itself until it is released, lost
   and uncertain cleanup included, and so has a VRAM estimation.           *)
ExclusiveHold ==
    \A w \in Workers : \A a \in Live(w) : asg[a].kind # Batch => Live(w) = {a}

(* The Scheduler's reservations never exceed a Worker's max_concurrent_jobs,
   whatever inventory the last heartbeat left behind.                      *)
SlotBound == \A w \in Workers : Cardinality(Live(w)) <= MaxSlots

(* A job is IN_PROGRESS exactly while it has a live training attempt, and
   keeps waiting for its estimation while one is live.                     *)
JobAgrees ==
    /\ \A a \in Assigns : IsLive(asg[a]) /\ asg[a].kind = Estimation =>
            job[asg[a].target] = "VRAM_ESTIMATION_PENDING"
    /\ \A j \in Jobs : job[j] = "IN_PROGRESS" <=>
            \E a \in Assigns : IsLive(asg[a]) /\ asg[a].kind = Batch /\ asg[a].target = j

(* A runtime and its assignment hold each other exactly until the runtime
   has ended: no ended runtime keeps its Worker, no live one lost it.      *)
RuntimeAgrees ==
    /\ \A a \in Assigns : IsLive(asg[a]) /\ asg[a].kind = Interactive =>
            rt[asg[a].target].asg = a
    /\ \A r \in Runtimes : rt[r].asg # None =>
            /\ asg[rt[r].asg].target = r
            /\ IsLive(asg[rt[r].asg]) <=> rt[r].state \notin Ended

(* A runtime offered to its owner as READY belongs to an attempt that is
   neither lost nor cleaning, and has an enrollment to revoke.             *)
ReadyIsHeld ==
    \A r \in Runtimes : rt[r].state = "READY" =>
        /\ rt[r].asg # None
        /\ asg[rt[r].asg].state = "ACTIVE"
        /\ rt[r].started

Rank(x) == IF x.state = "RELEASED" THEN 5 ELSE IF x.state = "LOST" THEN 4
           ELSE IF x.state = "CLEANING" THEN 3 ELSE IF x.state = "ACTIVE" THEN 2
           ELSE IF x.state = "CLAIMED" THEN 1 ELSE 0

(* Nothing late resurrects an attempt: its state only moves towards RELEASED,
   and a lease that has run out, or whose attempt is cleaning, lost or
   released, is never extended.                                            *)
NoResurrection ==
    [][\A a \in Assigns :
         /\ Rank(asg[a]) <= Rank(asg'[a])
         /\ Rank(asg[a]) >= 3 \/ (Rank(asg[a]) > 0 /\ asg[a].lease = 0) =>
                asg'[a].lease <= asg[a].lease]_vars

(* A finished job stays finished: no expiry, late result or retry reopens it. *)
FinishedJobStays ==
    [][\A j \in Jobs : job[j] \in {"COMPLETED", "FAILED"} => job'[j] = job[j]]_vars

(* A Worker is released from an interactive runtime only after it confirmed
   the cleanup and Management confirmed the revocation.                    *)
HostReleasedClean ==
    [][\A a \in Assigns :
         asg[a].kind = Interactive /\ IsLive(asg[a]) /\ ~IsLive(asg'[a]) =>
            asg'[a].ack /\ rt'[asg[a].target].revoked]_vars

(* A batch attempt that is lost, or whose Worker died while it was cleaning,
   is retired even if that Worker never comes back.                        *)
DeadAttemptEnds ==
    \A a \in Assigns :
        (asg[a].state \in {"LOST", "CLEANING"} /\ asg[a].kind # Interactive)
            ~> asg[a].state = "RELEASED"

(* A runtime that is stopped or lost reaches STOPPED or FAILED, so that its
   workspace can start again and its Worker is released.                   *)
StoppedRuntimeEnds ==
    \A r \in Runtimes : rt[r].state \in {"STOPPING", "LOST"} ~> rt[r].state \in Ended

(* features.md: the startup time is the time a runtime has "to pull its image
   and become ready".  So the controller never fails a runtime that did become
   READY, was stopped without a failure and is already cleaned up within its
   lease.                                                                  *)
CleanStopIsNotAFailure ==
    [][\A r \in Runtimes :
         /\ rt[r].ready /\ rt[r].state = "STOPPING" /\ ~rt[r].code
         /\ asg[rt[r].asg].ack /\ asg[rt[r].asg].lease > 0
         /\ reconcile_begin(r)
         => ~rt'[r].code]_vars
=============================================================================
