------------------------------ MODULE ImageBuild ------------------------------
(***************************************************************************)
(* Building the image of a job: the Scheduler's fenced build attempts      *)
(* (job_service.py), the heartbeats it keeps in Redis, the watchdog that   *)
(* takes builds back, and the builder's side (builder.py): its registry of *)
(* active builds, its own lease and the callbacks it sends.  A callback is *)
(* an HTTP request with a timeout: it may be handled long after its sender *)
(* has given up, or never.  What happens to a job once its image is built  *)
(* is reduced to the attempts that module Assignments describes.           *)
(*                                                                         *)
(* Time is counted down: a timestamp is the number of ticks until the      *)
(* heartbeat timeout, 0 meaning that it has passed.                        *)
(***************************************************************************)
EXTENDS Integers

CONSTANTS
    Jobs,          \* job ids
    Builders,      \* builder ids (one per builder process)
    Attempts,      \* build attempt ids
    Commanded,     \* the jobs created with an entry command
    PackagesOnly,  \* the jobs whose source_kind is PACKAGES_ONLY
    TimeoutTicks,  \* heartbeat timeout, of Scheduler and builder (45 s)
    None           \* SQL NULL, a missing Redis key, no answer under way

ASSUME BuildAssumption ==
    /\ TimeoutTicks \in Nat \ {0}
    /\ Commanded \cup PackagesOnly \subseteq Jobs
    /\ None \notin Jobs \cup Builders \cup Attempts \cup Nat

VARIABLES
    job,      \* rows of table jobs
    redis,    \* image_build_attempt_heartbeat of each attempt
    scan,     \* expired leases the watchdog has found and not yet handled
    build,    \* each attempt as its builder sees it
    builder,  \* the builders' heartbeats: lease, request and answer under way
    net       \* callbacks, and answers to them, under way

vars == <<job, redis, scan, build, builder, net>>

Terminal == {"COMPLETED", "FAILED", "RETRY_NEEDED"}
Built == {"IMAGE_READY", "VRAM_ESTIMATION_PENDING", "RUNNABLE", "IN_PROGRESS",
          "COMPLETED", "RETRY_NEEDED"}
JobStatus == {"NOT_RUNNABLE", "IMAGE_BUILDING", "FAILED"} \cup Built
Runs == {"vram_estimation", "batch_training"}
Ticks == 0..TimeoutTicks

(***************************************************************************)
(* job.attempt, job.builder and job.started are the lease of a build,      *)
(* job.until is the rest of the exclusion of job.excluded, job.tag is the  *)
(* attempt whose image was accepted, and job.run the live assignment of a  *)
(* job that has one; job.managed says that there was ever an assignment.   *)
(* A build is CLAIMED until the answer to its claim is read; it is GONE    *)
(* when that answer, or its builder's process, was lost.                   *)
(***************************************************************************)
JobRow == [status: JobStatus, builder: Builders \cup {None}, attempt: Attempts \cup {None},
           started: Ticks, excluded: Builders \cup {None}, until: Ticks,
           tag: Attempts \cup {None}, command: BOOLEAN, managed: BOOLEAN,
           run: Runs \cup {None}]
BuildRow == [phase: {"FREE", "CLAIMED", "BUILDING", "NOTIFYING", "DONE", "GONE"},
             job: Jobs \cup {None}, builder: Builders \cup {None},
             cancel: BOOLEAN, pushed: BOOLEAN]
Callback == [kind: {"ready", "failed", "checked", "release", "ok"}, attempt: Attempts]

NewJob(j) == [status |-> "NOT_RUNNABLE", builder |-> None, attempt |-> None, started |-> 0,
              excluded |-> None, until |-> 0, tag |-> None, command |-> j \in Commanded,
              managed |-> FALSE, run |-> None]

Init ==
    /\ job = [j \in Jobs |-> NewJob(j)]
    /\ redis = [a \in Attempts |-> None]
    /\ scan = {}
    /\ build = [a \in Attempts |-> [phase |-> "FREE", job |-> None, builder |-> None,
                                    cancel |-> FALSE, pushed |-> FALSE]]
    /\ builder = [b \in Builders |-> [lease |-> 0, sent |-> None, answer |-> None]]
    /\ net = {}

-----------------------------------------------------------------------------
(* The Scheduler's handlers.                                               *)

(* Jobs builder b may claim.  Which of them is the oldest is left open.    *)
Claimable(b) ==
    {j \in Jobs : job[j].status = "NOT_RUNNABLE" /\ (job[j].excluded = b => job[j].until = 0)}

(* A builder asks for work only while its own lease holds.                 *)
claim_job_for_building(b, a) ==
    /\ builder[b].lease > 0
    /\ build[a].phase = "FREE"
    /\ \E j \in Claimable(b) :
         /\ job' = [job EXCEPT ![j] =
                      [@ EXCEPT !.status = "IMAGE_BUILDING", !.builder = b, !.attempt = a,
                                !.started = TimeoutTicks, !.excluded = None, !.until = 0,
                                !.tag = None]]
         /\ build' = [build EXCEPT ![a] =
                        [@ EXCEPT !.phase = "CLAIMED", !.job = j, !.builder = b]]
    /\ UNCHANGED <<redis, scan, builder, net>>

(* Mutant: any attempt of the right builder counts as the current one.     *)
Owns_SameBuilder(a) ==
    LET x == job[build[a].job]
    IN  x.status = "IMAGE_BUILDING" /\ x.builder = build[a].builder

(* The attempt is the one the job is being built by.                       *)
Owns(a) ==
    LET x == job[build[a].job]
    IN  x.status = "IMAGE_BUILDING" /\ x.attempt = a /\ x.builder = build[a].builder

clear_image_build_lease(x) == [x EXCEPT !.builder = None, !.attempt = None, !.started = 0]

(* Status of a job whose image has just been accepted.                     *)
StatusWhenReady(x) == IF x.command THEN "VRAM_ESTIMATION_PENDING" ELSE "IMAGE_READY"

(* A package-only job loses its command: its image is interactive only.    *)
Accepted(j, a) ==
    LET x == [job[j] EXCEPT !.command = @ /\ j \notin PackagesOnly]
    IN  clear_image_build_lease([x EXCEPT !.status = StatusWhenReady(x), !.tag = a])

(* Callback m has been handled.  A success is answered if its sender is still
   waiting for the answer.  A refusal needs no message: the sender then does
   what it does when there is no answer (gives_up).                        *)
Handled(m, success) ==
    net' = (net \ {m}) \cup
             IF success /\ build[m.attempt].phase = "NOTIFYING"
             THEN {[kind |-> "ok", attempt |-> m.attempt]} ELSE {}

set_job_image_ready(m) ==
    LET a == m.attempt
        j == build[a].job
    IN  /\ m.kind = "ready"
        /\ job' = IF Owns(a) THEN [job EXCEPT ![j] = Accepted(j, a)] ELSE job
        /\ Handled(m, Owns(a))
        /\ UNCHANGED <<redis, scan, build, builder>>

Released(x) == clear_image_build_lease([x EXCEPT !.status = "NOT_RUNNABLE"])

(* Mutant: a release is not fenced by the attempt.                         *)
release_Unfenced(m) ==
    /\ m.kind = "release"
    /\ job' = [job EXCEPT ![build[m.attempt].job] = Released(@)]
    /\ Handled(m, FALSE)
    /\ UNCHANGED <<redis, scan, build, builder>>

(* Nobody waits for the answer to a release.                               *)
release_job_to_not_runnable(m) ==
    /\ m.kind = "release"
    /\ job' = IF Owns(m.attempt) THEN [job EXCEPT ![build[m.attempt].job] = Released(@)] ELSE job
    /\ Handled(m, FALSE)
    /\ UNCHANGED <<redis, scan, build, builder>>

(* _reject_managed_job(): looked up before the job is locked.              *)
reject_managed_job(m) ==
    /\ m.kind = "failed"
    /\ net' = (net \ {m}) \cup
                IF job[build[m.attempt].job].managed THEN {} ELSE {[m EXCEPT !.kind = "checked"]}
    /\ UNCHANGED <<job, redis, scan, build, builder>>

(* Mutant: the lease stays on the failed job.                              *)
Failed_KeepsLease(x) == [x EXCEPT !.status = "FAILED"]

Failed(x) == clear_image_build_lease([x EXCEPT !.status = "FAILED"])

(* The rest of mark_job_failed(), under the job's lock.  The attempt is
   compared only while the job is being built.                             *)
mark_job_failed(m) ==
    LET j == build[m.attempt].job
        ok == /\ job[j].status \notin Terminal
              /\ job[j].status = "IMAGE_BUILDING" => Owns(m.attempt)
    IN  /\ m.kind = "checked"
        /\ job' = IF ok THEN [job EXCEPT ![j] = Failed(@)] ELSE job
        /\ Handled(m, ok)
        /\ UNCHANGED <<redis, scan, build, builder>>

(* The reported attempts that are still current are renewed, the others are
   to be cancelled.                                                        *)
process_heartbeat(b) ==
    LET current == {a \in builder[b].sent : Owns(a)}
    IN  /\ builder[b].sent # None
        /\ redis' = [a \in Attempts |-> IF a \in current THEN TimeoutTicks ELSE redis[a]]
        /\ builder' = [builder EXCEPT ![b] = [@ EXCEPT !.sent = None,
                                                      !.answer = builder[b].sent \ current]]
        /\ UNCHANGED <<job, scan, build, net>>

-----------------------------------------------------------------------------
(* The watchdog.  It reads jobs and heartbeats first and updates the jobs
   afterwards, one by one.                                                 *)

(* Mutant: an attempt that never sent a heartbeat does not expire.         *)
Expired_HeartbeatOnly(j) ==
    job[j].status = "IMAGE_BUILDING" /\ redis[job[j].attempt] = 0

(* Without a heartbeat the time of the claim counts.                       *)
Expired(j) ==
    LET a == job[j].attempt
    IN  /\ job[j].status = "IMAGE_BUILDING"
        /\ IF redis[a] = None THEN job[j].started = 0 ELSE redis[a] = 0

scan_builds ==
    /\ scan = {}
    /\ scan' = {[job |-> j, attempt |-> job[j].attempt] : j \in {k \in Jobs : Expired(k)}}
    /\ UNCHANGED <<job, redis, build, builder, net>>

Requeued(x) ==
    clear_image_build_lease([x EXCEPT !.status = "NOT_RUNNABLE", !.excluded = x.builder,
                          !.until = TimeoutTicks])

(* Mutant: the update is conditional on the job's status only.             *)
requeue_AnyAttempt(s) ==
    /\ scan' = scan \ {s}
    /\ IF job[s.job].status = "IMAGE_BUILDING"
       THEN /\ job' = [job EXCEPT ![s.job] = Requeued(@)]
            /\ redis' = [redis EXCEPT ![s.attempt] = None]
       ELSE UNCHANGED <<job, redis>>
    /\ UNCHANGED <<build, builder, net>>

(* The conditional update of one expired lease.                            *)
requeue(s) ==
    /\ scan' = scan \ {s}
    /\ IF job[s.job].status = "IMAGE_BUILDING" /\ job[s.job].attempt = s.attempt
       THEN /\ job' = [job EXCEPT ![s.job] = Requeued(@)]
            /\ redis' = [redis EXCEPT ![s.attempt] = None]
       ELSE UNCHANGED <<job, redis>>
    /\ UNCHANGED <<build, builder, net>>

-----------------------------------------------------------------------------
(* The builder.                                                            *)

(* The answer to a claim is read and the build registered ...              *)
register(a) ==
    /\ build[a].phase = "CLAIMED"
    /\ build' = [build EXCEPT ![a].phase = "BUILDING"]
    /\ UNCHANGED <<job, redis, scan, builder, net>>

(* ... or it never arrives.                                                *)
claim_lost(a) ==
    /\ build[a].phase = "CLAIMED"
    /\ build' = [build EXCEPT ![a].phase = "GONE"]
    /\ UNCHANGED <<job, redis, scan, builder, net>>

(* heartbeat_loop(): one request at a time.                                *)
heartbeat_payload(b) ==
    /\ builder[b].sent = None
    /\ builder[b].answer = None
    /\ builder' = [builder EXCEPT ![b].sent =
                     {a \in Attempts : build[a].phase = "BUILDING" /\ build[a].builder = b}]
    /\ UNCHANGED <<job, redis, scan, build, net>>

accept_heartbeat(b) ==
    /\ builder[b].answer # None
    /\ builder' = [builder EXCEPT ![b] = [lease |-> TimeoutTicks, sent |-> None, answer |-> None]]
    /\ build' = [a \in Attempts |->
                   IF a \in builder[b].answer /\ build[a].phase = "BUILDING"
                   THEN [build[a] EXCEPT !.cancel = TRUE] ELSE build[a]]
    /\ UNCHANGED <<job, redis, scan, net>>

(* The request or its answer is lost, or comes too late.                   *)
heartbeat_lost(b) ==
    /\ builder[b].sent # None \/ builder[b].answer # None
    /\ builder' = [builder EXCEPT ![b] = [@ EXCEPT !.sent = None, !.answer = None]]
    /\ UNCHANGED <<job, redis, scan, build, net>>

(* Mutant: a build goes on however long the Scheduler has been silent.     *)
should_cancel_IfTold(a) == build[a].cancel

(* Polled at every step of the build and of the push.                      *)
should_cancel(a) == build[a].cancel \/ builder[build[a].builder].lease = 0

(* Mutant: a cancelled build is reported like a finished one.              *)
cancelled_Reports(a) ==
    /\ build[a].phase = "BUILDING"
    /\ should_cancel(a)
    /\ build' = [build EXCEPT ![a].phase = "NOTIFYING"]
    /\ net' = net \cup {[kind |-> "ready", attempt |-> a]}
    /\ UNCHANGED <<job, redis, scan, builder>>

(* A cancelled build is dropped without a callback.                        *)
cancelled(a) ==
    /\ build[a].phase = "BUILDING"
    /\ should_cancel(a)
    /\ build' = [build EXCEPT ![a] = [@ EXCEPT !.phase = "DONE", !.cancel = FALSE]]
    /\ UNCHANGED <<job, redis, scan, builder, net>>

(* build_push_and_clean() returns: the image is pushed, the user's code does
   not build, or something else failed.  The build is unregistered and the
   Scheduler called.                                                       *)
finished(a, result) ==
    LET kind == IF result = "system" THEN "release" ELSE IF result = "user" THEN "failed"
                ELSE "ready"
    IN  /\ build[a].phase = "BUILDING"
        /\ build' = [build EXCEPT ![a] =
                       [@ EXCEPT !.phase = IF result = "system" THEN "DONE" ELSE "NOTIFYING",
                                 !.pushed = (result = "pushed"), !.cancel = FALSE]]
        /\ net' = net \cup {[kind |-> kind, attempt |-> a]}
        /\ UNCHANGED <<job, redis, scan, builder>>

(* The call returned without an error ...                                  *)
notified(a) ==
    LET m == [kind |-> "ok", attempt |-> a]
    IN  /\ m \in net
        /\ net' = net \ {m}
        /\ build' = [build EXCEPT ![a].phase = "DONE"]
        /\ UNCHANGED <<job, redis, scan, builder>>

(* ... or it was refused, failed or timed out, handled or not.             *)
gives_up(a) ==
    /\ build[a].phase = "NOTIFYING"
    /\ build' = [build EXCEPT ![a].phase = "DONE"]
    /\ net' = (net \ {[kind |-> "ok", attempt |-> a]}) \cup {[kind |-> "release", attempt |-> a]}
    /\ UNCHANGED <<job, redis, scan, builder>>

(* The builder's process dies and starts again under the same id.  What it
   has sent stays under way.                                               *)
crash(b) ==
    /\ build' = [a \in Attempts |->
                   IF build[a].builder = b /\ build[a].phase # "DONE"
                   THEN [build[a] EXCEPT !.phase = "GONE", !.cancel = FALSE] ELSE build[a]]
    /\ builder' = [builder EXCEPT ![b] = [lease |-> 0, sent |-> None, answer |-> None]]
    /\ net' = {m \in net : m.kind = "ok" => build[m.attempt].builder # b}
    /\ UNCHANGED <<job, redis, scan>>

-----------------------------------------------------------------------------
(* The environment: messages, users, Workers, Redis and time.              *)

(* A callback is lost.                                                     *)
lose(m) ==
    /\ m.kind \in {"ready", "failed", "release"}
    /\ net' = net \ {m}
    /\ UNCHANGED <<job, redis, scan, build, builder>>

submit_training(j) ==
    /\ j \notin PackagesOnly
    /\ job[j].status = "IMAGE_READY"
    /\ job[j].tag # None
    /\ job' = [job EXCEPT ![j] = [@ EXCEPT !.status = "VRAM_ESTIMATION_PENDING",
                                          !.command = TRUE]]
    /\ UNCHANGED <<redis, scan, build, builder, net>>

(* A Worker claims the job: module Assignments, claim.                     *)
assign(j) ==
    /\ job[j].run = None
    /\ \/ /\ job[j].status = "VRAM_ESTIMATION_PENDING"
          /\ job' = [job EXCEPT ![j] = [@ EXCEPT !.run = "vram_estimation", !.managed = TRUE]]
       \/ /\ job[j].status \in {"RUNNABLE", "RETRY_NEEDED"}
          /\ job' = [job EXCEPT ![j] = [@ EXCEPT !.run = "batch_training", !.managed = TRUE,
                                                !.status = "IN_PROGRESS"]]
    /\ UNCHANGED <<redis, scan, build, builder, net>>

Outcomes(run) ==
    IF run = "vram_estimation" THEN {"RUNNABLE", "FAILED", "VRAM_ESTIMATION_PENDING"}
    ELSE {"COMPLETED", "FAILED", "RETRY_NEEDED"}

(* The attempt is released, whatever the job's status has become.          *)
settle(j) ==
    /\ job[j].run # None
    /\ \E status \in Outcomes(job[j].run) :
         job' = [job EXCEPT ![j] = [@ EXCEPT !.status = status, !.run = None]]
    /\ UNCHANGED <<redis, scan, build, builder, net>>

(* Redis keeps nothing over a restart.                                     *)
redis_restart ==
    /\ redis' = [a \in Attempts |-> None]
    /\ UNCHANGED <<job, scan, build, builder, net>>

(* Mutant: the clock runs on past the deadline.                            *)
Down_Past(n) == n - 1

Down(n) == IF n = 0 THEN 0 ELSE n - 1

(* A key expires some time after nobody renews it.  One of an attempt that is
   no longer current is not read again, and is dropped at once.            *)
Tick ==
    /\ job' = [j \in Jobs |-> [job[j] EXCEPT !.started = Down(@), !.until = Down(@)]]
    /\ redis' = [a \in Attempts |-> IF redis[a] = None \/ ~Owns(a) THEN None ELSE Down(redis[a])]
    /\ builder' = [b \in Builders |-> [builder[b] EXCEPT !.lease = Down(@)]]
    /\ UNCHANGED <<scan, build, net>>

Handle(m) ==
    \/ set_job_image_ready(m)
    \/ release_job_to_not_runnable(m)
    \/ reject_managed_job(m)
    \/ mark_job_failed(m)
    \/ lose(m)

Builder(b) ==
    \/ \E a \in Attempts : claim_job_for_building(b, a)
    \/ heartbeat_payload(b)
    \/ process_heartbeat(b)
    \/ accept_heartbeat(b)
    \/ heartbeat_lost(b)
    \/ crash(b)

Attempt(a) ==
    \/ register(a)
    \/ claim_lost(a)
    \/ cancelled(a)
    \/ \E result \in {"pushed", "user", "system"} : finished(a, result)
    \/ notified(a)
    \/ gives_up(a)

Next ==
    \/ \E m \in net : Handle(m)
    \/ \E b \in Builders : Builder(b)
    \/ \E a \in Attempts : Attempt(a)
    \/ \E j \in Jobs : submit_training(j) \/ assign(j) \/ settle(j)
    \/ \E s \in scan : requeue(s)
    \/ scan_builds
    \/ redis_restart
    \/ Tick

Spec == Init /\ [][Next]_vars

(***************************************************************************)
(* Time passes, the watchdog's loop never stops, and a running build polls *)
(* should_cancel several times a second.  Nothing is assumed of messages   *)
(* or of the builders' heartbeats.                                         *)
(***************************************************************************)
Fairness ==
    /\ WF_vars(Tick)
    /\ WF_vars(scan_builds)
    /\ WF_vars(\E s \in scan : requeue(s))
    /\ \A a \in Attempts : WF_vars(cancelled(a))

FairSpec == Spec /\ Fairness

-----------------------------------------------------------------------------
(* Every variable keeps to the types of its tables and messages.           *)
TypeOK ==
    /\ job \in [Jobs -> JobRow]
    /\ redis \in [Attempts -> Ticks \cup {None}]
    /\ scan \subseteq [job: Jobs, attempt: Attempts]
    /\ build \in [Attempts -> BuildRow]
    /\ builder \in [Builders -> [lease: Ticks, sent: SUBSET Attempts \cup {None},
                                 answer: SUBSET Attempts \cup {None}]]
    /\ net \subseteq Callback

(* A job carries a build lease exactly while it is being built, and the lease
   names an attempt of that job by that builder (_clear_image_build_lease on
   every way out of IMAGE_BUILDING).  A lease left behind would let an old
   callback, or the unique index on the attempt, hit a later build.        *)
LeaseAgrees ==
    \A j \in Jobs :
        LET a == job[j].attempt
        IN  /\ (job[j].status = "IMAGE_BUILDING") <=> (a # None)
            /\ a # None => /\ build[a].phase # "FREE"
                           /\ build[a].job = j
                           /\ build[a].builder = job[j].builder

(* A job that may be offered to a Worker has an image: one that an attempt for
   this job has pushed, and that nobody has taken away since.              *)
ReadyImageExists ==
    \A j \in Jobs : job[j].status \in Built =>
        /\ job[j].tag # None
        /\ build[job[j].tag].pushed
        /\ build[job[j].tag].job = j

(* A job that has its image, or has failed, never goes back to be built: not
   by a late release, nor by the watchdog acting on what it read earlier.  *)
BuiltStays ==
    [][\A j \in Jobs : job[j].status \in Built \cup {"FAILED"} =>
         job'[j].status \notin {"NOT_RUNNABLE", "IMAGE_BUILDING"}]_vars

(* A build that its builder is still working on loses its job only to the
   watchdog, and never before a full timeout has passed since the claim: not to
   a callback of another attempt, nor to an update the watchdog decided on when
   an earlier attempt was current.                                         *)
BuildNotCutShort ==
    [][\A j \in Jobs :
         LET a == job[j].attempt
         IN  a # None /\ job'[j].attempt # a /\ build[a].phase \in {"CLAIMED", "BUILDING"} =>
               job[j].started = 0 /\ job'[j].status = "NOT_RUNNABLE"]_vars

(* The image a job gets is the one of the attempt that was current when it was
   accepted, also when an earlier attempt of the same builder reports late. *)
ImageOfCurrentAttempt ==
    [][\A j \in Jobs : job'[j].tag \notin {None, job[j].tag} =>
         job'[j].tag = job[j].attempt]_vars

(* A job whose builder died, or never learnt of its claim, is freed.       *)
AbandonedBuildRequeued ==
    \A a \in Attempts : build[a].phase = "GONE" ~> ~\E j \in Jobs : job[j].attempt = a

(* A build that is no longer the current one stops, even if no message ever
   reaches its builder again.                                              *)
StaleBuildStops ==
    \A a \in Attempts :
        build[a].phase = "BUILDING" /\ ~Owns(a) ~> build[a].phase # "BUILDING"

(* job_model.py: every state-changing callback of a builder must present the
   token of the claim.  So no callback fails a job that waits, with its image
   accepted, for its owner's command.                                      *)
StaleFailureIgnored ==
    [][\A j \in Jobs : job[j].status = "IMAGE_READY" => job'[j].status # "FAILED"]_vars
=============================================================================
