-------------------------- MODULE AssignmentsProofs --------------------------
(***************************************************************************)
(* Invariants of Assignments, proved for any number of Workers, jobs,      *)
(* runtimes and attempts, any lease and any slots.                         *)
(***************************************************************************)
EXTENDS Assignments, FiniteSetTheorems, TLAPS

(* The configured times and the number of slots are natural numbers.       *)
LEMMA Bounds ==
    /\ FreshTicks \in Nat /\ FreshTicks \in 0..FreshTicks
    /\ LeaseTicks \in Nat /\ LeaseTicks \in 0..LeaseTicks
    /\ StartupTicks \in Nat /\ StartupTicks \in 0..StartupTicks
    /\ LifetimeTicks \in Nat /\ LifetimeTicks \in 0..LifetimeTicks
    /\ MaxSlots \in Nat
<1>1. FreshTicks \in Nat /\ LeaseTicks \in Nat /\ StartupTicks \in Nat /\ MaxSlots \in Nat
      /\ LifetimeTicks \in Nat
  BY ConstantsAssumption
<1>2. QED
  BY <1>1

(* stop_runtime() keeps a row well formed, stops it, and changes neither its
   workspace nor its assignment; a row that has ended stays as it was.     *)
LEMMA StopRuntime ==
    ASSUME NEW x \in RuntimeRow, NEW c \in BOOLEAN
    PROVE  /\ stop_runtime(x, c) \in RuntimeRow
           /\ stop_runtime(x, c).desired = "STOPPED"
           /\ stop_runtime(x, c).asg = x.asg
           /\ stop_runtime(x, c).state = IF x.state \in Ended THEN x.state ELSE "STOPPING"
BY ZenonT(40) DEF stop_runtime, RuntimeRow, RuntimeState, Ended, Phases

(* The same of the deadline checks and of the health report of a heartbeat,
   except that these may leave the row running.                            *)
LEMMA Beaten ==
    ASSUME NEW x \in RuntimeRow, NEW h \in Health
    PROVE  /\ Deadlines(x) \in RuntimeRow
           /\ Deadlines(x).asg = x.asg
           /\ \/ Deadlines(x).state = x.state /\ Deadlines(x).desired = x.desired
              \/ /\ Deadlines(x).desired = "STOPPED"
                 /\ Deadlines(x).state = IF x.state \in Ended THEN x.state ELSE "STOPPING"
           /\ Reporting(x, h) \in RuntimeRow
           /\ Reporting(x, h).asg = x.asg
           /\ \/ Reporting(x, h).state = x.state /\ Reporting(x, h).desired = x.desired
              \/ /\ Reporting(x, h).desired = "STOPPED"
                 /\ Reporting(x, h).state = IF x.state \in Ended THEN x.state ELSE "STOPPING"
<1> DEFINE y == IF x.state # "READY" /\ x.startup = 0 THEN stop_runtime(x, TRUE) ELSE x
           z == [x EXCEPT !.health = IF h = "bad" THEN "bad" ELSE "good", !.fresh = FreshTicks]
<1>1. y \in RuntimeRow /\ y.asg = x.asg
      /\ \/ y.state = x.state /\ y.desired = x.desired
         \/ y.desired = "STOPPED" /\ y.state = IF x.state \in Ended THEN x.state ELSE "STOPPING"
  BY StopRuntime, Zenon
<1>2. z \in RuntimeRow /\ z.asg = x.asg /\ z.state = x.state /\ z.desired = x.desired
  BY Bounds, Zenon DEF RuntimeRow
<1>3. Deadlines(x) = IF LifetimeTicks > 0 /\ y.life = 0 THEN stop_runtime(y, TRUE) ELSE y
  BY DEF Deadlines
<1>4. Reporting(x, h) = IF h = "rekeyed" \/ (z.state = "READY" /\ h = "bad")
                        THEN stop_runtime(z, TRUE) ELSE z
  BY DEF Reporting
<1> HIDE DEF y, z
<1>5. stop_runtime(y, TRUE) \in RuntimeRow /\ stop_runtime(y, TRUE).asg = y.asg
      /\ stop_runtime(y, TRUE).desired = "STOPPED"
      /\ stop_runtime(y, TRUE).state = IF y.state \in Ended THEN y.state ELSE "STOPPING"
  BY <1>1, StopRuntime, Zenon
<1>6. stop_runtime(z, TRUE) \in RuntimeRow /\ stop_runtime(z, TRUE).asg = z.asg
      /\ stop_runtime(z, TRUE).desired = "STOPPED"
      /\ stop_runtime(z, TRUE).state = IF z.state \in Ended THEN z.state ELSE "STOPPING"
  BY <1>2, StopRuntime, Zenon
<1>7. QED
  BY <1>1, <1>2, <1>3, <1>4, <1>5, <1>6, Zenon DEF Ended

-----------------------------------------------------------------------------
(* The inductive invariant.  RuntimeAgrees needs more than itself: which rows
   have no assignment yet, and that whatever has ended, or is ending, is no
   longer wanted (so that neither the controller nor a late event can bring it
   back).  A claim is safe because a QUEUED runtime has no assignment at all,
   and because a Worker with free slots has declared exactly MaxSlots slots. *)
Shape ==
    \A a \in Assigns :
        /\ asg[a].state = "FREE" => asg[a].target = None
        /\ IsLive(asg[a]) =>
             /\ asg[a].worker \in Workers
             /\ \/ asg[a].kind = Interactive /\ asg[a].target \in Runtimes
                \/ asg[a].kind \in {Estimation, Batch} /\ asg[a].target \in Jobs

CoupledRow(r) ==
    /\ rt[r].asg = None => rt[r].state \in {"FREE", "QUEUED", "STOPPED"}
    /\ rt[r].asg # None =>
         /\ rt[r].state \notin {"FREE", "QUEUED"}
         /\ asg[rt[r].asg].target = r
         /\ IsLive(asg[rt[r].asg]) <=> rt[r].state \notin Ended
    /\ rt[r].state \in Ended \cup {"STOPPING"} => rt[r].desired = "STOPPED"

Coupled ==
    /\ \A a \in Assigns : IsLive(asg[a]) /\ asg[a].kind = Interactive =>
            rt[asg[a].target].asg = a
    /\ \A r \in Runtimes : CoupledRow(r)

Declared == \A w \in Workers : worker[w].slots > 0 => worker[w].slots + worker[w].held = MaxSlots

Inv == /\ TypeOK /\ Shape /\ Coupled /\ Declared
       /\ OneAttemptPerTarget /\ ExclusiveHold /\ SlotBound /\ JobAgrees

(* What every step but claim() does to an assignment row: it is for the same
   target, on the same Worker, and a row that is not live stays so.  Most
   steps release no row either.                                            *)
Follows(x, y) ==
    /\ y.kind = x.kind
    /\ y.worker = x.worker
    /\ y.target = x.target
    /\ IsLive(y) => IsLive(x)
    /\ y.state = "FREE" => x.state = "FREE"

Shrinks == \A a \in Assigns : Follows(asg[a], asg'[a])

Keeps == Shrinks /\ \A a \in Assigns : IsLive(asg[a]) => IsLive(asg'[a])

(* What those steps do to a runtime row that has an assignment.            *)
Moved(x, y) ==
    /\ y \in RuntimeRow
    /\ y.asg = x.asg
    /\ \/ y.state = x.state /\ y.desired = x.desired
       \/ /\ y.state = IF x.state \in Ended THEN x.state ELSE "STOPPING"
          /\ y.desired = "STOPPED"
       \/ y.state \in {"LOST", "READY"} \cup Phases /\ x.state \notin Ended

Moves == \A r \in Runtimes : \/ rt'[r] = rt[r]
                             \/ rt[r].asg # None /\ Moved(rt[r], rt'[r])

(* Writing the state, the lease or the acknowledgement of an assignment row
   (claims.py) keeps its type and changes neither its kind, Worker nor target. *)
LEMMA RowChanges ==
    ASSUME NEW x \in AssignmentRow, NEW st \in AssignmentState, NEW o \in Outcomes
    PROVE  /\ [x EXCEPT !.state = st] \in AssignmentRow
           /\ [x EXCEPT !.state = st].kind = x.kind
           /\ [x EXCEPT !.state = st].worker = x.worker
           /\ [x EXCEPT !.state = st].target = x.target
           /\ [x EXCEPT !.state = st].state = st
           /\ [x EXCEPT !.lease = LeaseTicks] \in AssignmentRow
           /\ [x EXCEPT !.lease = LeaseTicks].kind = x.kind
           /\ [x EXCEPT !.lease = LeaseTicks].worker = x.worker
           /\ [x EXCEPT !.lease = LeaseTicks].target = x.target
           /\ [x EXCEPT !.lease = LeaseTicks].state = x.state
           /\ [x EXCEPT !.ack = TRUE] \in AssignmentRow
           /\ [x EXCEPT !.ack = TRUE].kind = x.kind
           /\ [x EXCEPT !.ack = TRUE].worker = x.worker
           /\ [x EXCEPT !.ack = TRUE].target = x.target
           /\ [x EXCEPT !.ack = TRUE].state = x.state
BY Bounds, Zenon DEF AssignmentRow

(* The runtime rows written by a claim, an event and the controller.       *)
LEMMA AssignedRow ==
    ASSUME NEW x \in RuntimeRow, NEW a \in Assigns
    PROVE  LET y == [x EXCEPT !.state = "ASSIGNED", !.asg = a, !.startup = StartupTicks,
                              !.life = LifetimeTicks]
           IN  y \in RuntimeRow /\ y.state = "ASSIGNED" /\ y.asg = a /\ y.desired = x.desired
BY Bounds, Zenon DEF RuntimeRow, RuntimeState, Phases

(* A progress event writes a well-formed row in the phase it reports.      *)
LEMMA PhaseRow ==
    ASSUME NEW x \in RuntimeRow, NEW p \in Phases, NEW h \in Health
    PROVE  LET y == Progressed(x, p, h)
           IN  y \in RuntimeRow /\ y.state = p /\ y.asg = x.asg /\ y.desired = x.desired
BY Bounds, Zenon DEF Progressed, RuntimeRow, RuntimeState

(* So do a heartbeat and expire() when they mark a runtime LOST,           *)
LEMMA LostRow ==
    ASSUME NEW x \in RuntimeRow
    PROVE  LET y == [x EXCEPT !.state = "LOST"]
               z == [x EXCEPT !.state = "LOST", !.code = TRUE]
           IN  /\ y \in RuntimeRow /\ y.state = "LOST" /\ y.asg = x.asg /\ y.desired = x.desired
               /\ z \in RuntimeRow /\ z.state = "LOST" /\ z.asg = x.asg /\ z.desired = x.desired
BY Zenon DEF RuntimeRow, RuntimeState

(* ... the controller when it marks one READY, and bootstrap(),            *)
LEMMA ReadyRow ==
    ASSUME NEW x \in RuntimeRow
    PROVE  LET y == [x EXCEPT !.state = "READY", !.ready = TRUE]
               z == [x EXCEPT !.started = TRUE]
           IN  /\ y \in RuntimeRow /\ y.state = "READY" /\ y.asg = x.asg /\ y.desired = x.desired
               /\ z \in RuntimeRow /\ z.state = x.state /\ z.asg = x.asg /\ z.desired = x.desired
BY Zenon DEF RuntimeRow, RuntimeState

(* ... release_if_clean() when a runtime ends, and stop() of a queued one, *)
LEMMA EndedRow ==
    ASSUME NEW x \in RuntimeRow, NEW st \in Ended
    PROVE  LET y == [x EXCEPT !.state = st]
               z == [x EXCEPT !.state = "STOPPED", !.revoked = TRUE]
           IN  /\ y \in RuntimeRow /\ y.state = st /\ y.asg = x.asg /\ y.desired = x.desired
               /\ z \in RuntimeRow /\ z.state = "STOPPED" /\ z.asg = x.asg
               /\ z.desired = x.desired
BY Zenon DEF RuntimeRow, RuntimeState, Ended

(* ... and the controller when it records what Management answered.        *)
LEMMA RevokedRow ==
    ASSUME NEW x \in RuntimeRow, NEW b \in BOOLEAN
    PROVE  LET y == [x EXCEPT !.revoked = b]
           IN  y \in RuntimeRow /\ y.state = x.state /\ y.asg = x.asg /\ y.desired = x.desired
BY DEF RuntimeRow

(* The inventory a heartbeat or register() stores: free slots and held records
   add up to max_concurrent_jobs unless there is no free slot.             *)
LEMMA ReportedType ==
    ASSUME NEW x \in WorkerRow, NEW m \in {"AVAILABLE", "BATCH_ACTIVE", "BLOCKED"},
           NEW n \in Nat, NEW e \in BOOLEAN, NEW f \in Nat
    PROVE  /\ Reported(x, m, n, e, f) \in WorkerRow
           /\ Reported(x, m, n, e, f).slots > 0 =>
                Reported(x, m, n, e, f).slots + Reported(x, m, n, e, f).held = MaxSlots
<1> DEFINE sl == IF m = "BLOCKED" \/ e \/ n > MaxSlots THEN 0 ELSE MaxSlots - n
<1>1. sl \in Nat /\ (sl > 0 => sl + n = MaxSlots)
  BY Bounds
<1>2. Reported(x, m, n, e, f) = [x EXCEPT !.fresh = FreshTicks, !.mode = m, !.held = n,
                                          !.free = f, !.slots = sl]
  BY Zenon DEF Reported
<1> HIDE DEF sl
<1>3. QED
  BY <1>1, <1>2, Bounds, Zenon DEF WorkerRow

(* The reservations of a Worker can be counted.                            *)
LEMMA LiveFinite ==
    /\ \A w \in Workers : Cardinality(Live(w)) \in Nat /\ IsFiniteSet(Live(w))
    /\ \A S \in SUBSET Assigns : Cardinality(S) \in Nat
<1>1. ASSUME NEW S \in SUBSET Assigns PROVE IsFiniteSet(S) /\ Cardinality(S) \in Nat
  BY FS_Subset, FS_CardinalityType, ConstantsAssumption
<1>2. \A w \in Workers : Live(w) \in SUBSET Assigns
  BY DEF Live
<1>3. QED
  BY <1>1, <1>2

(* One more attempt is one more reservation.                               *)
LEMMA OneMore ==
    ASSUME NEW S \in SUBSET Assigns, NEW a \in Assigns, a \notin S
    PROVE  Cardinality(S \cup {a}) = Cardinality(S) + 1 /\ Cardinality(S) \in Nat
<1>1. IsFiniteSet(S) /\ Cardinality(S) \in Nat
  BY FS_Subset, FS_CardinalityType, ConstantsAssumption
<1>2. QED
  BY <1>1, FS_AddElement, Zenon

(* A claim reserves one free row for the first candidate of its Worker.    *)
LEMMA ClaimType ==
    ASSUME TypeOK, NEW w \in Workers, NEW i \in Instances, NEW q \in Requests, claim(w, i, q)
    PROVE  TypeOK'
<1>1. PICK c \in choose(w), a \in Assigns : reserve(w, i, q, c, a)
  BY DEF claim
<1>2. c \in [kind: {Estimation, Batch, Interactive}, target: Jobs \cup Runtimes]
  BY <1>1 DEF choose, Offers, EstimationTier, InteractiveTier, Fitting, Waiting
<1>3. asg' \in [Assigns -> AssignmentRow]
  BY <1>1, <1>2, Bounds DEF reserve, TypeOK, AssignmentRow, AssignmentState
<1>4. job' \in [Jobs -> JobStatus]
  BY <1>1 DEF reserve, TypeOK, JobStatus
<1>5. rt' \in [Runtimes -> RuntimeRow]
  <2>1. CASE rt' = rt
    BY <2>1 DEF TypeOK
  <2>2. CASE c.kind = Interactive
    <3> DEFINE y == [rt[c.target] EXCEPT !.state = "ASSIGNED", !.asg = a,
                       !.startup = StartupTicks, !.life = LifetimeTicks]
    <3>1. rt' = [rt EXCEPT ![c.target] = y]
      BY <1>1, <2>2, Zenon DEF reserve, Estimation, Batch, Interactive
    <3>2. c.target \in Runtimes => y \in RuntimeRow
      BY AssignedRow, Zenon DEF TypeOK
    <3> HIDE DEF y
    <3>3. QED
      BY <3>1, <3>2, Zenon DEF TypeOK
  <2>3. QED
    BY <1>1, <2>1, <2>2 DEF reserve
<1>6. worker' = worker
  BY <1>1 DEF reserve
<1>7. QED
  BY <1>3, <1>4, <1>5, <1>6 DEF TypeOK

(* Releasing rows breaks none of the facts about who holds what.           *)
LEMMA ShrinksKeeps ==
    ASSUME Inv, Shrinks
    PROVE  Shape' /\ OneAttemptPerTarget' /\ ExclusiveHold' /\ SlotBound'
<1>1. Shape'
  BY DEF Inv, Shape, Shrinks, Follows
<1>2. OneAttemptPerTarget'
  BY DEF Inv, OneAttemptPerTarget, Shrinks, Follows
<1>3. \A w \in Workers : Live(w)' \subseteq Live(w)
  BY DEF Live, Shrinks, Follows
<1>4. ExclusiveHold'
  <2> SUFFICES ASSUME NEW w \in Workers, NEW a \in Live(w)', asg'[a].kind # Batch
               PROVE  Live(w)' = {a}
    BY DEF ExclusiveHold
  <2>1. a \in Live(w) /\ asg[a].kind # Batch
    BY <1>3 DEF Live, Shrinks, Follows
  <2>2. Live(w) = {a}
    BY <2>1 DEF Inv, ExclusiveHold
  <2>3. QED
    BY <2>2, <1>3
<1>5. SlotBound'
  <2> SUFFICES ASSUME NEW w \in Workers PROVE Cardinality(Live(w)') <= MaxSlots
    BY DEF SlotBound
  <2>1. Cardinality(Live(w)) <= MaxSlots
    BY DEF Inv, SlotBound
  <2>2. Cardinality(Live(w)') <= Cardinality(Live(w)) /\ Cardinality(Live(w)') \in Nat
    BY <1>3, FS_Subset, FS_CardinalityType, LiveFinite
  <2>3. Cardinality(Live(w)) \in Nat
    BY LiveFinite
  <2>4. QED
    BY <2>1, <2>2, <2>3, Bounds
<1>6. QED
  BY <1>1, <1>2, <1>4, <1>5

(* A step that releases no interactive attempt and moves runtimes as above
   keeps runtimes and assignments in agreement.                            *)
LEMMA MovesCoupled ==
    ASSUME Inv, Shrinks, Moves,
           \A a \in Assigns : IsLive(asg[a]) /\ asg[a].kind = Interactive => IsLive(asg'[a])
    PROVE  Coupled'
<1>1. \A r \in Runtimes : rt'[r].asg = rt[r].asg
  BY DEF Moves, Moved
<1>2. ASSUME NEW a \in Assigns, IsLive(asg'[a]), asg'[a].kind = Interactive
      PROVE  rt'[asg'[a].target].asg = a
  <2>1. IsLive(asg[a]) /\ asg[a].kind = Interactive /\ asg'[a].target = asg[a].target
    BY <1>2 DEF Shrinks, Follows
  <2>2. asg[a].target \in Runtimes
    BY <2>1 DEF Inv, Shape, Estimation, Batch, Interactive
  <2>3. rt[asg[a].target].asg = a
    BY <2>1 DEF Inv, Coupled
  <2>4. QED
    BY <2>1, <2>2, <2>3, <1>1
<1>3. ASSUME NEW r \in Runtimes PROVE CoupledRow(r)'
  <2>1. CoupledRow(r)
    BY DEF Inv, Coupled
  <2>2. rt[r] \in RuntimeRow
    BY DEF Inv, TypeOK
  <2>3. rt[r].asg # None => /\ asg'[rt[r].asg].target = asg[rt[r].asg].target
                            /\ IsLive(asg'[rt[r].asg]) <=> IsLive(asg[rt[r].asg])
    <3>1. SUFFICES ASSUME rt[r].asg # None PROVE rt[r].asg \in Assigns
                          /\ (IsLive(asg[rt[r].asg]) => asg[rt[r].asg].kind = Interactive)
      BY DEF Shrinks, Follows
    <3>2. rt[r].asg \in Assigns /\ asg[rt[r].asg].target = r
      BY <2>1, <2>2, <3>1 DEF RuntimeRow, CoupledRow
    <3>3. QED
      BY <3>2, ConstantsAssumption DEF Inv, Shape
  <2>4. CASE rt'[r] = rt[r]
    BY <2>1, <2>3, <2>4 DEF CoupledRow
  <2>5. CASE rt[r].asg # None /\ Moved(rt[r], rt'[r])
    BY <2>1, <2>3, <2>5 DEF CoupledRow, Moved, Ended, Phases
  <2>6. QED
    BY <2>4, <2>5 DEF Moves
<1>4. QED
  BY <1>2, <1>3 DEF Coupled

(* In particular a step that releases nothing at all.                      *)
LEMMA KeepsCoupled ==
    ASSUME Inv, Keeps, Moves
    PROVE  Coupled'
BY MovesCoupled DEF Keeps

(* A step that releases nothing and changes no job keeps jobs and attempts in
   agreement.                                                              *)
LEMMA KeepsJobs ==
    ASSUME Inv, Keeps, job' = job
    PROVE  JobAgrees'
BY DEF Inv, JobAgrees, Keeps, Shrinks, Follows

(* Together: a step that releases nothing and changes no job.              *)
LEMMA KeepsInv ==
    ASSUME Inv, TypeOK', Keeps, Moves, Declared', job' = job
    PROVE  Inv'
BY ShrinksKeeps, KeepsCoupled, KeepsJobs DEF Inv, Keeps

(* The steps that touch runtime rows only.                                 *)
LEMMA RuntimeStep ==
    ASSUME Inv, NEW r \in Runtimes, NEW y, rt[r].asg # None, Moved(rt[r], y),
           rt' = [rt EXCEPT ![r] = y], UNCHANGED <<worker, job, asg>>
    PROVE  Inv'
<1>1. TypeOK'
  BY DEF Inv, TypeOK, Moved
<1>2. Keeps
  BY DEF Keeps, Shrinks, Follows
<1>3. Moves
  BY DEF Moves, Inv, TypeOK
<1>4. Declared'
  BY DEF Inv, Declared
<1>5. QED
  BY <1>1, <1>2, <1>3, <1>4, KeepsInv

(* stop_runtime() is such a move of a runtime row.                         *)
LEMMA StopMoves ==
    ASSUME NEW x \in RuntimeRow, NEW c \in BOOLEAN
    PROVE  Moved(x, stop_runtime(x, c))
BY StopRuntime DEF Moved

(* The first transaction of reconcile_one() preserves the invariant.       *)
LEMMA BeginInv ==
    ASSUME Inv, NEW r \in Runtimes, reconcile_begin(r)
    PROVE  Inv'
<1> DEFINE late == \/ rt[r].state = "LOST" \/ asg[rt[r].asg].lease = 0
                   \/ rt[r].state # "READY" /\ rt[r].startup = 0
           x == IF late THEN stop_runtime(rt[r], TRUE) ELSE rt[r]
           y == IF x.state = "READY" /\ ~Healthy(x) THEN stop_runtime(x, TRUE) ELSE x
<1>1. rt[r] \in RuntimeRow
  BY DEF Inv, TypeOK
<1>2. Moved(rt[r], x)
  BY <1>1, StopMoves, Zenon DEF Moved
<1>3. Moved(x, y)
  BY <1>2, StopMoves, Zenon DEF Moved
<1>4. /\ rt[r].asg # None
      /\ rt' = [rt EXCEPT ![r] = y]
      /\ UNCHANGED <<worker, job, asg>>
  BY DEF reconcile_begin, Candidate
<1> HIDE DEF x, y
<1>5. Moved(rt[r], y)
  BY <1>2, <1>3 DEF Moved, Ended
<1>6. QED
  BY <1>4, <1>5, RuntimeStep, Zenon

(* Marking a runtime READY preserves it, because a runtime that is still wanted
   has not ended.                                                          *)
LEMMA ReadyInv ==
    ASSUME Inv, NEW r \in Runtimes, reconcile_ready(r)
    PROVE  Inv'
<1> DEFINE y == [rt[r] EXCEPT !.state = "READY", !.ready = TRUE]
<1>1. rt[r] \in RuntimeRow /\ CoupledRow(r)
  BY DEF Inv, TypeOK, Coupled
<1>2. rt[r].asg # None /\ rt[r].desired = "RUNNING"
  BY DEF reconcile_ready, Called
<1>3. Moved(rt[r], y)
  BY <1>1, <1>2, ReadyRow, Zenon DEF Moved, CoupledRow
<1>4. rt' = [rt EXCEPT ![r] = y] /\ UNCHANGED <<worker, job, asg>>
  BY <1>1, Zenon DEF reconcile_ready, Inv, TypeOK
<1> HIDE DEF y
<1>5. QED
  BY <1>2, <1>3, <1>4, RuntimeStep, Zenon

(* Stopping a runtime after Management refused a call preserves it.        *)
LEMMA RefusedInv ==
    ASSUME Inv, NEW r \in Runtimes, reconcile_refused(r)
    PROVE  Inv'
BY StopMoves, RuntimeStep, Zenon DEF reconcile_refused, Called, Inv, TypeOK

(* The first transaction of bootstrap() preserves it.                      *)
LEMMA BootstrapInv ==
    ASSUME Inv, NEW w \in Workers, NEW i \in Instances, NEW a \in Assigns, bootstrap(w, i, a)
    PROVE  Inv'
<1> DEFINE r == asg[a].target
           y == [rt[r] EXCEPT !.started = TRUE]
<1>1. IsLive(asg[a]) /\ asg[a].kind = Interactive
  BY DEF bootstrap, fence, Matches, IsLive
<1>2. r \in Runtimes /\ rt[r].asg = a
  BY <1>1 DEF Inv, Shape, Coupled, Estimation, Batch, Interactive
<1>3. rt[r] \in RuntimeRow /\ rt[r].asg # None
  BY <1>2, ConstantsAssumption DEF Inv, TypeOK
<1>4. Moved(rt[r], y)
  BY <1>3, ReadyRow, Zenon DEF Moved
<1>5. rt' = [rt EXCEPT ![r] = y] /\ UNCHANGED <<worker, job, asg>>
  BY DEF bootstrap
<1> HIDE DEF y, r
<1>6. QED
  BY <1>2, <1>3, <1>4, <1>5, RuntimeStep, Zenon

(* event() preserves it: the fence admits only an attempt that is live, whose
   runtime has not ended.                                                  *)
LEMMA EventInv ==
    ASSUME Inv, NEW w \in Workers, NEW i \in Instances, NEW a \in Assigns,
           NEW p \in Phases \cup {"STOPPING"}, NEW f \in BOOLEAN, NEW h \in Health,
           event(w, i, a, p, f, h)
    PROVE  Inv'
<1> DEFINE r == asg[a].target
           m == Progressed(rt[r], p, h)
<1>1. IsLive(asg[a]) /\ asg[a].kind = Interactive /\ UNCHANGED <<worker, job>>
  BY DEF event, fence, Matches, IsLive
<1>2. r \in Runtimes /\ rt[r].asg = a /\ rt[r].asg # None
  BY <1>1, ConstantsAssumption DEF Inv, Shape, Coupled, Estimation, Batch, Interactive
<1>3. rt[r] \in RuntimeRow /\ asg[a] \in AssignmentRow /\ rt[r].state \notin Ended
  BY <1>1, <1>2 DEF Inv, TypeOK, Coupled, CoupledRow
<1> DEFINE y == IF f \/ p = "STOPPING" THEN stop_runtime(rt[r], f)
                ELSE IF h = "rekeyed" THEN stop_runtime(m, TRUE) ELSE m
           st == IF f \/ p = "STOPPING" THEN "CLEANING" ELSE "ACTIVE"
<1>4. rt' = [rt EXCEPT ![r] = y] /\ asg' = [asg EXCEPT ![a].state = st] /\ Moved(rt[r], y)
  <2>1. CASE f \/ p = "STOPPING"
    <3>1. rt' = [rt EXCEPT ![r] = stop_runtime(rt[r], f)]
          /\ asg' = [asg EXCEPT ![a].state = "CLEANING"]
      BY <2>1, <1>2, Zenon DEF event, Inv, TypeOK
    <3>2. Moved(rt[r], stop_runtime(rt[r], f))
      BY <1>3, StopMoves
    <3>3. QED
      BY <2>1, <3>1, <3>2, Zenon
  <2>2. CASE ~f /\ p # "STOPPING"
    <3>1. p \in Phases
      BY <2>2
    <3>2. m \in RuntimeRow /\ m.state = p /\ m.asg = rt[r].asg /\ m.desired = rt[r].desired
      BY <3>1, <1>3, PhaseRow
    <3>3. /\ rt' = [rt EXCEPT ![r] = IF h = "rekeyed" THEN stop_runtime(m, TRUE) ELSE m]
          /\ asg' = [asg EXCEPT ![a].state = "ACTIVE"]
      BY <2>2, Zenon DEF event
    <3>4. y = (IF h = "rekeyed" THEN stop_runtime(m, TRUE) ELSE m) /\ st = "ACTIVE"
      BY <2>2, Zenon
    <3> HIDE DEF m, y, st
    <3>5. Moved(rt[r], m) /\ Moved(rt[r], stop_runtime(m, TRUE))
      BY <3>1, <3>2, <1>3, StopRuntime, Zenon DEF Moved, Ended, Phases
    <3>6. QED
      BY <3>3, <3>4, <3>5, Zenon
  <2>3. QED
    BY <2>1, <2>2, Zenon
<1> st \in {"CLEANING", "ACTIVE"}
  OBVIOUS
<1> HIDE DEF m, r, y, st
<1>5. asg' = [asg EXCEPT ![a] = [asg[a] EXCEPT !.state = st]]
  BY <1>4 DEF Inv, TypeOK
<1>6. [asg[a] EXCEPT !.state = st] \in AssignmentRow
      /\ Follows(asg[a], [asg[a] EXCEPT !.state = st]) /\ IsLive([asg[a] EXCEPT !.state = st])
  BY <1>1, <1>3 DEF AssignmentRow, AssignmentState, Follows, IsLive
<1>7. TypeOK'
  BY <1>1, <1>2, <1>4, <1>5, <1>6 DEF Inv, TypeOK, Moved
<1>8. Keeps
  BY <1>5, <1>6 DEF Keeps, Shrinks, Follows, Inv, TypeOK
<1>9. Moves
  BY <1>2, <1>4 DEF Moves, Inv, TypeOK
<1>10. Declared'
  BY <1>1 DEF Inv, Declared
<1>11. QED
  BY <1>1, <1>7, <1>8, <1>9, <1>10, KeepsInv

(* result() preserves it: the row starts cleaning and stays live.          *)
LEMMA ResultInv ==
    ASSUME Inv, NEW w \in Workers, NEW i \in Instances, NEW a \in Assigns, NEW o \in Outcomes,
           result(w, i, a, o)
    PROVE  Inv'
<1> DEFINE x == [asg[a] EXCEPT !.outcome = o, !.state = "CLEANING"]
<1>1. IsLive(asg[a]) /\ UNCHANGED <<worker, job, rt>>
  BY DEF result, fence, Matches, IsLive
<1>2. asg[a] \in AssignmentRow
  BY DEF Inv, TypeOK
<1>3. x \in AssignmentRow /\ Follows(asg[a], x) /\ IsLive(x)
  BY <1>1, <1>2, ZenonT(40) DEF AssignmentRow, AssignmentState, Follows, IsLive
<1>4. asg' = [asg EXCEPT ![a] = x]
  BY Zenon DEF result, Inv, TypeOK
<1> HIDE DEF x
<1>5. TypeOK' /\ Keeps /\ Moves /\ Declared'
  BY <1>1, <1>3, <1>4 DEF Inv, TypeOK, Keeps, Shrinks, Follows, Moves, Declared
<1>6. QED
  BY <1>1, <1>5, KeepsInv

(* stop() preserves it: only a runtime without an attempt ends at once.    *)
LEMMA StopInv ==
    ASSUME Inv, NEW r \in Runtimes, stop(r)
    PROVE  Inv'
<1>1. rt[r] \in RuntimeRow /\ CoupledRow(r)
  BY DEF Inv, TypeOK, Coupled
<1>2. CASE rt[r].asg # None
  BY <1>1, <1>2, StopMoves, RuntimeStep, Zenon DEF stop, Inv, TypeOK
<1>3. CASE rt[r].asg = None
  <2> DEFINE y == [stop_runtime(rt[r], FALSE) EXCEPT !.state = "STOPPED", !.revoked = TRUE]
  <2>1. rt' = [rt EXCEPT ![r] = y] /\ UNCHANGED <<worker, job, asg>>
    BY <1>3 DEF stop, Inv, TypeOK
  <2>2. y \in RuntimeRow /\ y.asg = None /\ y.state = "STOPPED" /\ y.desired = "STOPPED"
    <3>1. "STOPPED" \in Ended
      BY DEF Ended
    <3>2. stop_runtime(rt[r], FALSE) \in RuntimeRow
          /\ stop_runtime(rt[r], FALSE).asg = None
          /\ stop_runtime(rt[r], FALSE).desired = "STOPPED"
      BY <1>1, <1>3, StopRuntime, Zenon
    <3>3. QED
      BY <3>1, <3>2, EndedRow, Zenon
  <2> HIDE DEF y
  <2>3. TypeOK' /\ Keeps /\ Declared'
    BY <2>1, <2>2 DEF Inv, TypeOK, Keeps, Shrinks, Follows, Declared
  <2>4. Coupled'
    BY <2>1, <2>2, <1>3 DEF Inv, Coupled, CoupledRow, TypeOK, Ended
  <2>5. QED
    BY <2>1, <2>3, <2>4, ShrinksKeeps, KeepsJobs DEF Inv, Keeps
<1>4. QED
  BY <1>2, <1>3

(* start() preserves it: the new row is queued and has no attempt.         *)
LEMMA StartInv ==
    ASSUME Inv, NEW r \in Runtimes, NEW ws \in Workspaces, start(r, ws)
    PROVE  Inv'
<1> DEFINE y == [rt[r] EXCEPT !.state = "QUEUED", !.ws = ws]
<1>1. rt[r] \in RuntimeRow /\ CoupledRow(r) /\ rt[r].state = "FREE"
  BY DEF Inv, TypeOK, Coupled, start
<1>2. rt[r].asg = None
  BY <1>1 DEF CoupledRow
<1>3. y \in RuntimeRow /\ y.asg = None /\ y.state = "QUEUED"
  BY <1>1, <1>2, Zenon DEF RuntimeRow, RuntimeState
<1>4. rt' = [rt EXCEPT ![r] = y] /\ UNCHANGED <<worker, job, asg>>
  BY Zenon DEF start, Inv, TypeOK
<1> HIDE DEF y
<1>5. TypeOK' /\ Keeps /\ Declared'
  BY <1>3, <1>4 DEF Inv, TypeOK, Keeps, Shrinks, Follows, Declared
<1>6. Coupled'
  BY <1>2, <1>3, <1>4 DEF Inv, Coupled, CoupledRow, TypeOK, Ended
<1>7. QED
  BY <1>4, <1>5, <1>6, ShrinksKeeps, KeepsJobs DEF Inv, Keeps

(* submit_training() preserves it: an IMAGE_READY job has no attempt.      *)
LEMMA SubmitInv ==
    ASSUME Inv, NEW j \in Jobs, submit_training(j)
    PROVE  Inv'
<1>1. job[j] = "IMAGE_READY" /\ job' = [job EXCEPT ![j] = "VRAM_ESTIMATION_PENDING"]
      /\ UNCHANGED <<worker, rt, asg>>
  BY DEF submit_training
<1>2. TypeOK' /\ Keeps /\ Moves /\ Declared'
  BY <1>1 DEF Inv, TypeOK, JobStatus, Keeps, Shrinks, Follows, Moves, Declared
<1>3. JobAgrees'
  BY <1>1 DEF Inv, TypeOK, JobAgrees
<1>4. QED
  BY <1>2, <1>3, ShrinksKeeps, KeepsCoupled DEF Inv, Keeps

(* A countdown stays within its bound.                                     *)
LEMMA LessType == ASSUME NEW n \in Nat, NEW k \in 0..n PROVE Less(k) \in 0..n
BY DEF Less

(* The passing of time changes only the countdowns of a runtime row.       *)
LEMMA LaterRow ==
    ASSUME NEW x \in RuntimeRow
    PROVE  Later(x) \in RuntimeRow /\ Later(x).asg = x.asg
           /\ Later(x).state = x.state /\ Later(x).desired = x.desired
<1> DEFINE n == Less(x.fresh)  m == Less(x.startup)  k == Less(x.life)
<1>1. x.fresh \in 0..FreshTicks /\ x.startup \in 0..StartupTicks /\ x.life \in 0..LifetimeTicks
  BY DEF RuntimeRow
<1>2. n \in 0..FreshTicks /\ m \in 0..StartupTicks /\ k \in 0..LifetimeTicks
  BY <1>1, LessType, Bounds
<1>3. Later(x) = [x EXCEPT !.fresh = n, !.startup = m, !.life = k]
  BY DEF Later
<1> HIDE DEF n, m, k
<1>4. QED
  BY <1>2, <1>3, ZenonT(40) DEF RuntimeRow

(* The passing of time preserves the invariant.                            *)
LEMMA TickInv ==
    ASSUME Inv, Tick
    PROVE  Inv'
<1>1. ASSUME NEW w \in Workers
      PROVE  [worker[w] EXCEPT !.fresh = Less(@)] \in WorkerRow
             /\ [worker[w] EXCEPT !.fresh = Less(@)].slots = worker[w].slots
             /\ [worker[w] EXCEPT !.fresh = Less(@)].held = worker[w].held
  <2>1. ASSUME NEW x \in WorkerRow, NEW n \in 0..FreshTicks
        PROVE  [x EXCEPT !.fresh = n] \in WorkerRow
               /\ [x EXCEPT !.fresh = n].slots = x.slots /\ [x EXCEPT !.fresh = n].held = x.held
    BY DEF WorkerRow
  <2>2. worker[w] \in WorkerRow /\ worker[w].fresh \in 0..FreshTicks
    BY DEF Inv, TypeOK, WorkerRow
  <2>3. Less(worker[w].fresh) \in 0..FreshTicks
    BY <2>2, LessType, Bounds
  <2>4. QED
    BY <2>1, <2>2, <2>3, Zenon
<1>2. ASSUME NEW a \in Assigns
      PROVE  [asg[a] EXCEPT !.lease = Less(@)] \in AssignmentRow
             /\ Follows(asg[a], [asg[a] EXCEPT !.lease = Less(@)])
             /\ (IsLive(asg[a]) => IsLive([asg[a] EXCEPT !.lease = Less(@)]))
  <2>1. ASSUME NEW x \in AssignmentRow, NEW n \in 0..LeaseTicks
        PROVE  [x EXCEPT !.lease = n] \in AssignmentRow
               /\ Follows(x, [x EXCEPT !.lease = n])
               /\ (IsLive(x) => IsLive([x EXCEPT !.lease = n]))
    BY DEF AssignmentRow, Follows, IsLive
  <2>2. asg[a] \in AssignmentRow /\ asg[a].lease \in 0..LeaseTicks
    BY DEF Inv, TypeOK, AssignmentRow
  <2>3. Less(asg[a].lease) \in 0..LeaseTicks
    BY <2>2, LessType, Bounds
  <2>4. QED
    BY <2>1, <2>2, <2>3, Zenon
<1>3. ASSUME NEW r \in Runtimes
      PROVE  Later(rt[r]) \in RuntimeRow /\ Later(rt[r]).asg = rt[r].asg
             /\ Later(rt[r]).state = rt[r].state /\ Later(rt[r]).desired = rt[r].desired
  BY LaterRow DEF Inv, TypeOK
<1>4. TypeOK'
  BY <1>1, <1>2, <1>3, Zenon DEF Tick, Inv, TypeOK
<1>5. Declared'
  BY <1>1, Zenon DEF Tick, Inv, Declared
<1>6. Keeps
  BY <1>2, Zenon DEF Tick, Keeps, Shrinks
<1>7. \A r \in Runtimes : rt'[r].asg = rt[r].asg /\ rt'[r].state = rt[r].state
                          /\ rt'[r].desired = rt[r].desired
  BY <1>3, Zenon DEF Tick
<1>8. Coupled'
  <2>1. \A a \in Assigns : /\ IsLive(asg'[a]) <=> IsLive(asg[a])
                           /\ asg'[a].kind = asg[a].kind /\ asg'[a].target = asg[a].target
    BY <1>6 DEF Keeps, Shrinks, Follows
  <2>2. \A r \in Runtimes : rt[r].asg \in Assigns \cup {None}
    BY DEF Inv, TypeOK, RuntimeRow
  <2>3. \A r \in Runtimes : CoupledRow(r)'
    BY <1>7, <2>1, <2>2 DEF Inv, Coupled, CoupledRow
  <2>4. \A a \in Assigns : IsLive(asg[a]) /\ asg[a].kind = Interactive =>
            asg[a].target \in Runtimes
    BY DEF Inv, Shape, Estimation, Batch, Interactive
  <2>5. QED
    BY <1>7, <2>1, <2>3, <2>4 DEF Inv, Coupled
<1>9. QED
  BY <1>4, <1>5, <1>6, <1>8, ShrinksKeeps, KeepsJobs DEF Inv, Keeps, Tick

(* register() preserves it: a takeover loses attempts and releases none.   *)
LEMMA RegisterInv ==
    ASSUME Inv, NEW w \in Workers, NEW i \in Instances, NEW n \in Nat, register(w, i, n)
    PROVE  Inv'
<1> DEFINE taken == IF worker[w].instance = i THEN {} ELSE Live(w)
           v == Reported(worker[w], "BLOCKED", n, FALSE, 0)
           u == [v EXCEPT !.instance = i, !.reconciling = TRUE]
<1>1. /\ worker' = [worker EXCEPT ![w] = u]
      /\ asg' = [a \in Assigns |-> IF a \in taken THEN [asg[a] EXCEPT !.state = "LOST"]
                                                  ELSE asg[a]]
      /\ rt' = [r \in Runtimes |-> IF \E a \in taken : asg[a].target = r
                                   THEN stop_runtime(rt[r], TRUE) ELSE rt[r]]
      /\ job' = job
  BY Zenon DEF register
<1>2. v \in WorkerRow /\ (v.slots > 0 => v.slots + v.held = MaxSlots)
  BY ReportedType, Zenon DEF Inv, TypeOK
<1> HIDE DEF v
<1>3. u \in WorkerRow /\ (u.slots > 0 => u.slots + u.held = MaxSlots)
  BY <1>2, Zenon DEF WorkerRow
<1>4. worker' \in [Workers -> WorkerRow] /\ Declared'
  BY <1>1, <1>3 DEF Inv, TypeOK, Declared
<1>5. \A a \in taken : a \in Assigns /\ IsLive(asg[a])
  BY DEF Live
<1> HIDE DEF taken, u
<1>6. ASSUME NEW a \in Assigns
      PROVE  /\ [asg[a] EXCEPT !.state = "LOST"] \in AssignmentRow
             /\ a \in taken => Follows(asg[a], [asg[a] EXCEPT !.state = "LOST"])
             /\ IsLive([asg[a] EXCEPT !.state = "LOST"])
  <2>1. asg[a] \in AssignmentRow /\ "LOST" \in AssignmentState
    BY DEF Inv, TypeOK, AssignmentState
  <2>2. QED
    BY <1>5, <2>1, RowChanges DEF Follows, IsLive, AssignmentRow
<1>7. asg' \in [Assigns -> AssignmentRow]
  BY <1>1, <1>6, SMTT(30) DEF Inv, TypeOK
<1>8. Keeps
  BY <1>1, <1>6 DEF Keeps, Shrinks, Follows
<1>9. ASSUME NEW r \in Runtimes
      PROVE  rt'[r] \in RuntimeRow
             /\ (rt'[r] = rt[r] \/ (rt[r].asg # None /\ Moved(rt[r], rt'[r])))
  <2>1. rt[r] \in RuntimeRow
    BY DEF Inv, TypeOK
  <2>2. CASE \E a \in taken : asg[a].target = r
    <3>1. PICK a \in taken : asg[a].target = r
      BY <2>2
    <3>2. asg[a].kind = Interactive
      BY <1>5, <3>1, ConstantsAssumption DEF Inv, Shape
    <3>3. rt[r].asg = a /\ a # None
      BY <1>5, <3>1, <3>2, ConstantsAssumption DEF Inv, Coupled
    <3>4. rt'[r] = stop_runtime(rt[r], TRUE)
      BY <1>1, <2>2, Zenon
    <3>5. QED
      BY <2>1, <3>3, <3>4, StopMoves, Zenon DEF Moved
  <2>3. CASE ~ \E a \in taken : asg[a].target = r
    BY <1>1, <2>1, <2>3
  <2>4. QED
    BY <2>2, <2>3
<1>10. TypeOK' /\ Moves
  BY <1>1, <1>4, <1>7, <1>9, Zenon DEF Inv, TypeOK, Moves
<1>11. QED
  BY <1>1, <1>4, <1>8, <1>10, KeepsInv

(* heartbeat() preserves it: every live attempt is renewed, kept cleaning or
   lost, and none is released.                                             *)
LEMMA HeartbeatInv ==
    ASSUME Inv, NEW w \in Workers, NEW i \in Instances, NEW reports \in SUBSET Assigns,
           NEW n \in Nat, NEW mode \in {"AVAILABLE", "BATCH_ACTIVE", "BLOCKED"},
           NEW free \in Nat, NEW timely \in BOOLEAN, NEW health \in Health,
           heartbeat(w, i, reports, n, mode, free, timely, health)
    PROVE  Inv'
<1> DEFINE current(a) == timely /\ a \in reports /\ Renewable(asg[a], i)
           before(a) == Deadlines(rt[asg[a].target])
           accepts(a) == current(a) /\ before(a).desired = "RUNNING"
           after(a) == IF accepts(a) THEN Reporting(before(a), health) ELSE before(a)
           valid(a) == IF asg[a].kind = Interactive
                       THEN accepts(a) /\ after(a).desired = "RUNNING" ELSE current(a)
           beaten(a) == IF valid(a) THEN [asg[a] EXCEPT !.lease = LeaseTicks]
                        ELSE IF asg[a].state = "CLEANING" THEN asg[a]
                        ELSE [asg[a] EXCEPT !.state = "LOST"]
           hosted(a) == IF valid(a) \/ after(a).desired = "STOPPED" THEN after(a)
                        ELSE [after(a) EXCEPT !.state = "LOST"]
           measuring == \E a \in reports : asg[a].kind = Estimation
           v == Reported(worker[w], mode, n, measuring, free)
           busy == \/ ~timely \/ mode = "BLOCKED" \/ reports # Live(w)
                   \/ \E a \in Live(w) : beaten(a).state = "LOST"
           u == [v EXCEPT !.reconciling = busy]
<1>1. /\ asg' = [a \in Assigns |-> IF a \in Live(w) THEN beaten(a) ELSE asg[a]]
      /\ rt' = [r \in Runtimes |->
                  IF \E a \in Live(w) : asg[a].target = r
                  THEN hosted(CHOOSE a \in Live(w) : asg[a].target = r) ELSE rt[r]]
      /\ worker' = [worker EXCEPT ![w] = u]
      /\ job' = job
  BY Zenon DEF heartbeat
<1>2. measuring \in BOOLEAN /\ busy \in BOOLEAN
  OBVIOUS
<1> HIDE DEF measuring, busy
<1>3. v \in WorkerRow /\ (v.slots > 0 => v.slots + v.held = MaxSlots)
  BY <1>2, ReportedType, Zenon DEF Inv, TypeOK
<1> HIDE DEF v
<1>4. u \in WorkerRow /\ (u.slots > 0 => u.slots + u.held = MaxSlots)
  BY <1>2, <1>3 DEF WorkerRow
<1> HIDE DEF u
<1>5. worker' \in [Workers -> WorkerRow] /\ Declared'
  BY <1>1, <1>4, Zenon DEF Inv, TypeOK, Declared
<1>6. ASSUME NEW a \in Live(w)
      PROVE  beaten(a) \in AssignmentRow /\ Follows(asg[a], beaten(a)) /\ IsLive(beaten(a))
  <2>1. asg[a] \in AssignmentRow /\ "LOST" \in AssignmentState /\ IsLive(asg[a])
    BY DEF Inv, TypeOK, AssignmentState, Live
  <2> DEFINE ok == valid(a)
  <2>2. beaten(a) = IF ok THEN [asg[a] EXCEPT !.lease = LeaseTicks]
                    ELSE IF asg[a].state = "CLEANING" THEN asg[a]
                    ELSE [asg[a] EXCEPT !.state = "LOST"]
    BY Zenon
  <2> HIDE DEF ok, beaten
  <2>3. [asg[a] EXCEPT !.lease = LeaseTicks] \in AssignmentRow
        /\ Follows(asg[a], [asg[a] EXCEPT !.lease = LeaseTicks])
        /\ IsLive([asg[a] EXCEPT !.lease = LeaseTicks])
    BY <2>1, RowChanges, Zenon DEF Follows, IsLive, Outcomes
  <2>4. [asg[a] EXCEPT !.state = "LOST"] \in AssignmentRow
        /\ Follows(asg[a], [asg[a] EXCEPT !.state = "LOST"])
        /\ IsLive([asg[a] EXCEPT !.state = "LOST"])
    BY <2>1, RowChanges, ZenonT(40) DEF Follows, IsLive, Outcomes
  <2>5. Follows(asg[a], asg[a])
    BY DEF Follows
  <2>6. QED
    BY <2>1, <2>2, <2>3, <2>4, <2>5
<1>7. ASSUME NEW r \in Runtimes, NEW a \in Live(w), asg[a].target = r
      PROVE  rt[r].asg # None /\ Moved(rt[r], hosted(a))
  <2>1. a \in Assigns /\ IsLive(asg[a])
    BY DEF Live
  <2>2. asg[a].kind = Interactive
    BY <1>7, <2>1, ConstantsAssumption DEF Inv, Shape
  <2>3. rt[r].asg # None
    BY <1>7, <2>1, <2>2, ConstantsAssumption DEF Inv, Coupled
  <2>4. rt[r] \in RuntimeRow /\ rt[r].state \notin Ended
    BY <1>7, <2>1, <2>2, <2>3, SMTT(30) DEF Inv, TypeOK, Coupled, CoupledRow
  <2>5. before(a) \in RuntimeRow /\ Moved(rt[r], before(a)) /\ before(a).state \notin Ended
    <3>1. before(a) = Deadlines(rt[r])
      BY <1>7
    <3>2. QED
      BY <3>1, <2>4, Beaten DEF Moved, Ended
  <2> DEFINE ac == accepts(a)  ok == valid(a)  b == before(a)  f == after(a)
  <2>6. f = IF ac THEN Reporting(b, health) ELSE b
    BY Zenon
  <2>7. hosted(a) = IF ok \/ f.desired = "STOPPED" THEN f ELSE [f EXCEPT !.state = "LOST"]
    BY Zenon
  <2>8. b \in RuntimeRow /\ Moved(rt[r], b) /\ b.state \notin Ended
    BY <2>5
  <2> HIDE DEF ac, ok, b, f, hosted
  <2>9. f \in RuntimeRow /\ Moved(rt[r], f) /\ f.state \notin Ended
    BY <2>4, <2>6, <2>8, Beaten DEF Moved, Ended, Phases
  <2>10. Moved(rt[r], [f EXCEPT !.state = "LOST"])
    BY <2>4, <2>9, LostRow, Zenon DEF Moved
  <2>11. QED
    BY <2>3, <2>7, <2>9, <2>10
<1> HIDE DEF beaten, hosted
<1>8. asg' \in [Assigns -> AssignmentRow] /\ Keeps
  BY <1>1, <1>6, SMTT(30) DEF Inv, TypeOK, Keeps, Shrinks, Follows
<1>9. ASSUME NEW r \in Runtimes
      PROVE  rt'[r] \in RuntimeRow
             /\ (rt'[r] = rt[r] \/ (rt[r].asg # None /\ Moved(rt[r], rt'[r])))
  <2>1. CASE \E a \in Live(w) : asg[a].target = r
    <3> DEFINE a == CHOOSE a \in Live(w) : asg[a].target = r
    <3>1. a \in Live(w) /\ asg[a].target = r
      BY <2>1
    <3>2. rt'[r] = hosted(a)
      BY <1>1, <2>1
    <3> HIDE DEF a
    <3>3. QED
      BY <1>7, <3>1, <3>2 DEF Moved
  <2>2. CASE ~ \E a \in Live(w) : asg[a].target = r
    BY <1>1, <2>2 DEF Inv, TypeOK
  <2>3. QED
    BY <2>1, <2>2, SMTT(30)
<1>10. TypeOK' /\ Moves
  BY <1>1, <1>5, <1>8, <1>9 DEF Inv, TypeOK, Moves
<1>11. QED
  BY <1>1, <1>5, <1>8, <1>10, KeepsInv

(* A released row is well formed and no longer live.                       *)
LEMMA ReleasedRow ==
    ASSUME NEW z \in AssignmentRow, NEW x \in AssignmentRow, Follows(z, x)
    PROVE  /\ [x EXCEPT !.state = "RELEASED"] \in AssignmentRow
           /\ Follows(z, [x EXCEPT !.state = "RELEASED"])
           /\ ~IsLive([x EXCEPT !.state = "RELEASED"])
BY DEF AssignmentRow, AssignmentState, Follows, IsLive

(* release_if_clean() for an interactive attempt, in a transaction that has
   stopped its runtime.                                                    *)
LEMMA ReleaseInteractive ==
    ASSUME Inv, NEW a \in Assigns, IsLive(asg[a]), asg[a].kind = Interactive,
           NEW x \in AssignmentRow, Follows(asg[a], x), IsLive(x),
           NEW y, Moved(rt[asg[a].target], y), y.desired = "STOPPED",
           release_if_clean(a, x, y), worker' = worker
    PROVE  Inv'
<1> DEFINE r == asg[a].target
           release == IsLive(x) /\ x.ack /\ (x.kind = Interactive => y.revoked)
           x1 == IF release THEN [x EXCEPT !.state = "RELEASED"] ELSE x
           e == IF y.code THEN "FAILED" ELSE "STOPPED"
           y1 == IF release THEN [y EXCEPT !.state = e] ELSE y
<1>1. r \in Runtimes /\ rt[r].asg = a /\ a # None /\ rt[r] \in RuntimeRow /\ CoupledRow(r)
  BY ConstantsAssumption, Zenon DEF Inv, Shape, Coupled, TypeOK, Estimation, Batch, Interactive
<1>2. x.kind = Interactive /\ x.target = r
  BY DEF Follows
<1>3. asg' = [asg EXCEPT ![a] = x1] /\ rt' = [rt EXCEPT ![r] = y1] /\ job' = job
  BY <1>2, Zenon DEF release_if_clean
<1>4. x1 \in AssignmentRow /\ Follows(asg[a], x1) /\ (IsLive(x1) <=> ~release)
  BY ReleasedRow DEF Inv, TypeOK
<1>5. e \in Ended
  BY DEF Ended
<1>6. y \in RuntimeRow /\ y.asg = a
  BY <1>1 DEF Moved
<1> HIDE DEF e
<1>7. [y EXCEPT !.state = e] \in RuntimeRow /\ [y EXCEPT !.state = e].state = e
      /\ [y EXCEPT !.state = e].asg = a /\ [y EXCEPT !.state = e].desired = "STOPPED"
  BY <1>5, <1>6, EndedRow, Zenon
<1>8. rt[r].state \notin {"FREE", "QUEUED"} \cup Ended
  BY <1>1 DEF CoupledRow, Inv, TypeOK
<1>9. y.state \notin {"FREE", "QUEUED"} \cup Ended
  BY <1>8 DEF Moved, Ended, Phases
<1>10. y1 \in RuntimeRow /\ y1.asg = a /\ y1.desired = "STOPPED"
       /\ y1.state \notin {"FREE", "QUEUED"} /\ (y1.state \in Ended <=> release)
  BY <1>5, <1>6, <1>7, <1>9 DEF Ended
<1> HIDE DEF release, x1, y1, r
<1>11. TypeOK'
  BY <1>1, <1>3, <1>4, <1>10 DEF Inv, TypeOK
<1>12. Shrinks /\ asg'[a].target = r /\ (IsLive(asg'[a]) <=> ~release)
  BY <1>2, <1>3, <1>4, SMTT(30) DEF Shrinks, Follows, Inv, TypeOK, r
<1>13. Declared'
  BY SMTT(30) DEF Inv, Declared
<1>14. JobAgrees'
  <2>1. \A b \in Assigns : b # a => asg'[b] = asg[b]
    BY <1>3 DEF Inv, TypeOK
  <2>2. asg'[a].kind = Interactive
    BY <1>12 DEF Shrinks, Follows
  <2>3. QED
    BY <1>3, <2>1, <2>2 DEF Inv, JobAgrees, Estimation, Batch, Interactive
<1>15. Coupled'
  <2>1. ASSUME NEW q \in Runtimes PROVE CoupledRow(q)'
    <3>1. CASE q = r
      BY <3>1, <1>1, <1>3, <1>10, <1>12, SMTT(30) DEF CoupledRow, Inv, TypeOK
    <3>2. CASE q # r
      <4>1. rt'[q] = rt[q] /\ CoupledRow(q) /\ rt[q].asg \in Assigns \cup {None}
        BY <3>2, <1>3, SMTT(30) DEF Inv, TypeOK, Coupled, RuntimeRow
      <4>2. rt[q].asg # a
        BY <4>1, <3>2, <1>1, <1>12 DEF CoupledRow, Shrinks, Follows
      <4>3. asg'[rt[q].asg] = asg[rt[q].asg]
        BY <4>2, <1>3 DEF Inv, TypeOK
      <4>4. QED
        BY <4>1, <4>3 DEF CoupledRow
    <3>3. QED
      BY <3>1, <3>2
  <2>2. ASSUME NEW b \in Assigns, IsLive(asg'[b]), asg'[b].kind = Interactive
        PROVE  rt'[asg'[b].target].asg = b
    <3>1. IsLive(asg[b]) /\ asg[b].kind = Interactive /\ asg'[b].target = asg[b].target
      BY <2>2, <1>12, SMTT(30) DEF Shrinks, Follows
    <3>2. asg[b].target \in Runtimes /\ rt[asg[b].target].asg = b
      BY <3>1 DEF Inv, Shape, Coupled, Estimation, Batch, Interactive
    <3>3. QED
      BY <3>1, <3>2, <1>1, <1>3, <1>10, SMTT(30) DEF Inv, TypeOK
  <2>3. QED
    BY <2>1, <2>2 DEF Coupled
<1>16. QED
  BY <1>11, <1>12, <1>13, <1>14, <1>15, ShrinksKeeps, Zenon DEF Inv

(* cleanup() preserves it: releasing a batch attempt settles its job in the same
   transaction, releasing an interactive one ends its runtime.             *)
LEMMA CleanupInv ==
    ASSUME Inv, NEW w \in Workers, NEW i \in Instances, NEW a \in Assigns, NEW f \in BOOLEAN,
           cleanup(w, i, a, f)
    PROVE  Inv'
<1> DEFINE x == [asg[a] EXCEPT !.ack = TRUE]
           y == stop_runtime(rt[asg[a].target], f)
<1>1. IsLive(asg[a]) /\ release_if_clean(a, x, y) /\ worker' = worker
  BY DEF cleanup, Matches, IsLive
<1>2. asg[a] \in AssignmentRow
  BY DEF Inv, TypeOK
<1>3. x \in AssignmentRow /\ Follows(asg[a], x) /\ IsLive(x) /\ x.ack
      /\ x.kind = asg[a].kind /\ x.target = asg[a].target
  BY <1>1, <1>2, ZenonT(40) DEF AssignmentRow, Follows, IsLive
<1>4. CASE asg[a].kind = Interactive
  <2>1. asg[a].target \in Runtimes
    BY <1>1, <1>4 DEF Inv, Shape, Estimation, Batch, Interactive
  <2>2. rt[asg[a].target] \in RuntimeRow
    BY <2>1 DEF Inv, TypeOK
  <2>3. Moved(rt[asg[a].target], y) /\ y.desired = "STOPPED"
    BY <2>2, StopMoves, StopRuntime
  <2> HIDE DEF x, y
  <2>4. QED
    BY <1>1, <1>3, <1>4, <2>3, ReleaseInteractive
<1>5. CASE asg[a].kind # Interactive
  <2> DEFINE x1 == [x EXCEPT !.state = "RELEASED"]
             j == asg[a].target
  <2>1. asg[a].kind \in {Estimation, Batch} /\ j \in Jobs
    BY <1>1, <1>5 DEF Inv, Shape
  <2>2. asg' = [asg EXCEPT ![a] = x1] /\ rt' = rt
        /\ job' = [job EXCEPT ![j] = StatusAfter(x)]
    BY <1>1, <1>3, <1>5, Zenon DEF release_if_clean
  <2>3. x1 \in AssignmentRow /\ Follows(asg[a], x1) /\ ~IsLive(x1)
    BY <1>2, <1>3, ReleasedRow, Zenon
  <2>4. StatusAfter(x) \in JobStatus \ {"IN_PROGRESS"}
    BY DEF StatusAfter, JobStatus
  <2> HIDE DEF x, x1, y
  <2>5. TypeOK' /\ Declared'
    BY <1>1, <2>2, <2>3, <2>4, ZenonT(40) DEF Inv, TypeOK, Declared
  <2>6. Shrinks /\ ~IsLive(asg'[a]) /\ \A b \in Assigns : b # a => asg'[b] = asg[b]
    BY <2>2, <2>3, SMTT(30) DEF Shrinks, Follows, Inv, TypeOK
  <2>7. \A b \in Assigns : IsLive(asg'[b]) => b # a /\ asg[b].target # j
    BY <1>1, <2>6, SMTT(30) DEF Inv, OneAttemptPerTarget
  <2>8. JobAgrees'
    <3>1. \A b \in Assigns : IsLive(asg'[b]) /\ asg'[b].kind = Estimation =>
            job'[asg'[b].target] = "VRAM_ESTIMATION_PENDING"
      BY <2>2, <2>6, <2>7, SMTT(30) DEF Inv, TypeOK, JobAgrees
    <3>2. ASSUME NEW k \in Jobs
          PROVE  job'[k] = "IN_PROGRESS" <=>
                   \E b \in Assigns : IsLive(asg'[b]) /\ asg'[b].kind = Batch /\ asg'[b].target = k
      <4>1. CASE k = j
        BY <4>1, <2>2, <2>4, <2>6, <2>7, SMTT(30) DEF Inv, TypeOK
      <4>2. CASE k # j
        BY <4>2, <2>2, <2>6, <2>7, SMTT(30) DEF Inv, TypeOK, JobAgrees
      <4>3. QED
        BY <4>1, <4>2
    <3>3. QED
      BY <3>1, <3>2 DEF JobAgrees
  <2>9. Coupled'
    <3>1. \A r \in Runtimes : rt[r].asg # a
      BY <2>1, ConstantsAssumption DEF Inv, Coupled, CoupledRow
    <3>2. \A r \in Runtimes : asg'[rt[r].asg] = asg[rt[r].asg]
      BY <3>1, <2>2, SMTT(30) DEF Inv, TypeOK
    <3>3. \A r \in Runtimes : CoupledRow(r)'
      BY <2>2, <3>2 DEF Inv, Coupled, CoupledRow
    <3>4. QED
      BY <2>2, <2>6, <3>3, SMTT(30) DEF Inv, Coupled
  <2>10. QED
    BY <2>5, <2>6, <2>8, <2>9, ShrinksKeeps DEF Inv
<1>6. QED
  BY <1>4, <1>5

(* The last transaction of reconcile_one() for a stopped runtime preserves it,
   also when the assignment was released in the meantime.                  *)
LEMMA RevokeInv ==
    ASSUME Inv, NEW r \in Runtimes, NEW b \in BOOLEAN, reconcile_revoke(r, b)
    PROVE  Inv'
<1> DEFINE a == rt[r].asg
           y == [rt[r] EXCEPT !.revoked = b]
<1>1. a # None /\ rt[r].desired = "STOPPED" /\ release_if_clean(a, asg[a], y)
      /\ worker' = worker
  BY DEF reconcile_revoke
<1>2. rt[r] \in RuntimeRow /\ CoupledRow(r)
  BY DEF Inv, TypeOK, Coupled
<1>3. a \in Assigns /\ asg[a].target = r
  BY <1>1, <1>2 DEF RuntimeRow, CoupledRow
<1>4. asg[a] \in AssignmentRow /\ Follows(asg[a], asg[a])
  BY <1>3 DEF Inv, TypeOK, Follows
<1>5. Moved(rt[r], y) /\ y.desired = "STOPPED"
  BY <1>1, <1>2, RevokedRow, SMTT(30) DEF Moved
<1> HIDE DEF y
<1>6. CASE IsLive(asg[a])
  <2>1. asg[a].kind = Interactive
    BY <1>3, <1>6, ConstantsAssumption DEF Inv, Shape
  <2>2. QED
    BY <1>1, <1>3, <1>4, <1>5, <1>6, <2>1, ReleaseInteractive, SMTT(30)
<1>7. CASE ~IsLive(asg[a])
  <2>1. asg' = [asg EXCEPT ![a] = asg[a]] /\ job' = job
        /\ (rt' = rt \/ rt' = [rt EXCEPT ![r] = y])
    BY <1>1, <1>3, <1>7, Zenon DEF release_if_clean
  <2>2. asg' = asg
    BY <2>1 DEF Inv, TypeOK
  <2>3. CASE rt' = rt
    <3>1. TypeOK' /\ Keeps /\ Moves /\ Declared'
      BY <1>1, <2>1, <2>2, <2>3, Zenon DEF Inv, TypeOK, Keeps, Shrinks, Follows, Moves, Declared
    <3>2. QED
      BY <3>1, <2>1, KeepsInv
  <2>4. CASE rt' = [rt EXCEPT ![r] = y]
    BY <1>1, <1>5, <2>1, <2>2, <2>4, RuntimeStep, Zenon
  <2>5. QED
    BY <2>1, <2>3, <2>4
<1>8. QED
  BY <1>6, <1>7

(* Expiry retires a batch attempt and keeps an interactive one live.       *)
LEMMA LapsedRow ==
    ASSUME NEW x \in AssignmentRow, IsLive(x)
    PROVE  /\ Lapsed(x) \in AssignmentRow
           /\ Follows(x, Lapsed(x))
           /\ IsLive(Lapsed(x)) <=> x.kind = Interactive
BY DEF Lapsed, AssignmentRow, AssignmentState, Follows, IsLive

(* expire() preserves it: the jobs it queues again are those whose only attempt
   it retires.                                                             *)
LEMMA ExpireInv ==
    ASSUME Inv, NEW w \in Workers, expire(w)
    PROVE  Inv'
<1> DEFINE lapsed == {a \in Live(w) : asg[a].lease = 0}
           requeued == {a \in lapsed : asg[a].kind # Interactive}
<1>1. /\ asg' = [a \in Assigns |-> IF a \in lapsed THEN Lapsed(asg[a]) ELSE asg[a]]
      /\ job' = [j \in Jobs |->
                   IF \E a \in requeued : asg[a].target = j
                   THEN IF \E a \in requeued : asg[a].target = j /\ asg[a].kind = Estimation
                        THEN "VRAM_ESTIMATION_PENDING" ELSE "RETRY_NEEDED"
                   ELSE job[j]]
      /\ rt' = [r \in Runtimes |->
                  IF rt[r].desired = "RUNNING" /\ \E a \in lapsed : asg[a].target = r
                  THEN [rt[r] EXCEPT !.state = "LOST", !.code = TRUE] ELSE rt[r]]
      /\ worker' = [worker EXCEPT ![w].reconciling = TRUE]
  BY Zenon DEF expire
<1>2. \A a \in lapsed : a \in Assigns /\ IsLive(asg[a])
  BY DEF Live
<1>3. \A a : a \in requeued <=> a \in lapsed /\ asg[a].kind # Interactive
  OBVIOUS
<1> HIDE DEF lapsed, requeued
<1>4. \A a \in Assigns : asg[a] \in AssignmentRow
  BY DEF Inv, TypeOK
<1>5. asg' \in [Assigns -> AssignmentRow] /\ Shrinks
  BY <1>1, <1>2, <1>4, LapsedRow, Zenon DEF Shrinks, Follows
<1>6. \A a \in Assigns :
        /\ a \notin lapsed => asg'[a] = asg[a]
        /\ a \in lapsed => (IsLive(asg'[a]) <=> asg[a].kind = Interactive)
  BY <1>1, <1>2, <1>4, LapsedRow, Zenon
<1>7. worker' \in [Workers -> WorkerRow] /\ Declared'
  BY <1>1, ZenonT(40) DEF Inv, TypeOK, WorkerRow, Declared
<1>8. job' \in [Jobs -> JobStatus]
  BY <1>1, Zenon DEF Inv, TypeOK, JobStatus
<1>9. ASSUME NEW r \in Runtimes
      PROVE  rt'[r] \in RuntimeRow
             /\ (rt'[r] = rt[r] \/ (rt[r].asg # None /\ Moved(rt[r], rt'[r])))
  <2>1. rt[r] \in RuntimeRow /\ CoupledRow(r)
    BY DEF Inv, TypeOK, Coupled
  <2> DEFINE y == [rt[r] EXCEPT !.state = "LOST", !.code = TRUE]
  <2>2. CASE rt[r].desired = "RUNNING" /\ \E a \in lapsed : asg[a].target = r
    <3>1. PICK a \in lapsed : asg[a].target = r
      BY <2>2, SMTT(30)
    <3>2. asg[a].kind = Interactive
      BY <1>2, <3>1, ConstantsAssumption, SMTT(30) DEF Inv, Shape
    <3>3. rt[r].asg = a /\ a # None
      BY <1>2, <3>1, <3>2, ConstantsAssumption DEF Inv, Coupled
    <3>4. rt'[r] = y
      BY <1>1, <2>2, Zenon
    <3>5. y \in RuntimeRow /\ Moved(rt[r], y)
      BY <2>1, <2>2, LostRow, Zenon DEF Moved, CoupledRow
    <3> HIDE DEF y
    <3>6. QED
      BY <3>3, <3>4, <3>5, SMTT(30)
  <2>3. CASE ~(rt[r].desired = "RUNNING" /\ \E a \in lapsed : asg[a].target = r)
    BY <1>1, <2>1, <2>3, Zenon
  <2>4. QED
    BY <2>2, <2>3
<1>10. rt' \in [Runtimes -> RuntimeRow] /\ Moves
  BY <1>1, <1>9, Zenon DEF Moves
<1>11. TypeOK'
  BY <1>5, <1>7, <1>8, <1>10 DEF TypeOK
<1>12. Coupled'
  BY <1>5, <1>6, <1>10, MovesCoupled
<1>13. JobAgrees'
  <2>1. \A a \in Assigns : IsLive(asg'[a]) => IsLive(asg[a]) /\ a \notin requeued
                             /\ asg'[a].target = asg[a].target /\ asg'[a].kind = asg[a].kind
    BY <1>3, <1>5, <1>6 DEF Shrinks, Follows
  <2>2. \A a \in Assigns : IsLive(asg'[a]) =>
            ~ \E b \in requeued : asg[b].target = asg[a].target
    BY <1>2, <1>3, <2>1 DEF Inv, OneAttemptPerTarget
  <2>3. ASSUME NEW a \in Assigns, IsLive(asg'[a]), asg'[a].kind = Estimation
        PROVE  job'[asg'[a].target] = "VRAM_ESTIMATION_PENDING"
    <3>1. IsLive(asg[a]) /\ asg[a].kind = Estimation /\ asg'[a].target = asg[a].target
      BY <2>1, <2>3
    <3>2. asg[a].target \in Jobs /\ job[asg[a].target] = "VRAM_ESTIMATION_PENDING"
      BY <3>1 DEF Inv, JobAgrees, Shape, Estimation, Batch, Interactive
    <3>3. QED
      BY <3>1, <3>2, <2>2, <2>3, <1>1, Zenon
  <2>4. ASSUME NEW j \in Jobs
        PROVE  job'[j] = "IN_PROGRESS" <=>
                 \E a \in Assigns : IsLive(asg'[a]) /\ asg'[a].kind = Batch /\ asg'[a].target = j
    <3>1. CASE \E b \in requeued : asg[b].target = j
      <4>1. job'[j] # "IN_PROGRESS"
        BY <3>1, <1>1, Zenon
      <4>2. \A a \in Assigns : IsLive(asg'[a]) => asg'[a].target # j
        BY <3>1, <2>1, <2>2
      <4>3. QED
        BY <4>1, <4>2
    <3>2. CASE ~ \E b \in requeued : asg[b].target = j
      <4>1. job'[j] = job[j]
        BY <3>2, <1>1, Zenon
      <4>2. \A a \in Assigns : asg[a].target = j /\ asg[a].kind = Batch => asg'[a] = asg[a]
        BY <3>2, <1>3, <1>6, SMTT(30) DEF Batch, Interactive
      <4>3. QED
        BY <4>1, <4>2, <2>1 DEF Inv, JobAgrees
    <3>3. QED
      BY <3>1, <3>2
  <2>5. QED
    BY <2>3, <2>4 DEF JobAgrees
<1>14. QED
  BY <1>5, <1>7, <1>11, <1>12, <1>13, ShrinksKeeps DEF Inv

(* What choose() offers a Worker: a job or a runtime without a live attempt;
   estimations and runtimes only to a Worker that holds nothing.           *)
LEMMA Chosen ==
    ASSUME Inv, NEW w \in Workers, NEW c \in choose(w)
    PROVE  \/ /\ c.kind = Estimation /\ c.target \in Jobs /\ Unassigned(c.target)
              /\ job[c.target] = "VRAM_ESTIMATION_PENDING" /\ Live(w) = {}
           \/ /\ c.kind = Interactive /\ c.target \in Runtimes /\ Unassigned(c.target)
              /\ rt[c.target].state = "QUEUED" /\ rt[c.target].desired = "RUNNING"
              /\ rt[c.target].asg = None /\ Live(w) = {}
           \/ /\ c.kind = Batch /\ c.target \in Jobs /\ Unassigned(c.target)
              /\ job[c.target] \in {"RETRY_NEEDED", "RUNNABLE"}
<1>1. \/ c \in Offers(Estimation, EstimationTier(w))
      \/ c \in Offers(Interactive, InteractiveTier(w))
      \/ c \in Offers(Batch, Fitting(w, "RETRY_NEEDED"))
      \/ c \in Offers(Batch, Fitting(w, "RUNNABLE"))
  BY ZenonT(40) DEF choose
<1>2. CASE c \in Offers(Estimation, EstimationTier(w))
  <2>1. c.kind = Estimation /\ c.target \in EstimationTier(w)
    BY <1>2 DEF Offers
  <2>2. QED
    BY <2>1 DEF EstimationTier, Waiting
<1>3. CASE c \in Offers(Interactive, InteractiveTier(w))
  <2>1. c.kind = Interactive /\ c.target \in InteractiveTier(w)
    BY <1>3 DEF Offers
  <2>2. c.target \in Runtimes /\ rt[c.target].state = "QUEUED"
        /\ rt[c.target].desired = "RUNNING" /\ Live(w) = {}
    BY <2>1 DEF InteractiveTier, compatible_gpu
  <2>3. rt[c.target].asg = None
    BY <2>2 DEF Inv, Coupled, CoupledRow
  <2>4. Unassigned(c.target)
    <3> SUFFICES ASSUME NEW a \in Assigns, asg[a].target = c.target, IsLive(asg[a])
                 PROVE  FALSE
      BY DEF Unassigned
    <3>1. asg[a].kind = Interactive
      BY <2>2, ConstantsAssumption DEF Inv, Shape
    <3>2. rt[c.target].asg = a /\ a # None
      BY <3>1, ConstantsAssumption DEF Inv, Coupled
    <3>3. QED
      BY <3>2, <2>3
  <2>5. QED
    BY <2>1, <2>2, <2>3, <2>4
<1>4. ASSUME NEW status \in {"RETRY_NEEDED", "RUNNABLE"},
             c \in Offers(Batch, Fitting(w, status))
      PROVE  c.kind = Batch /\ c.target \in Jobs /\ Unassigned(c.target)
             /\ job[c.target] = status
  <2>1. c.kind = Batch /\ c.target \in Fitting(w, status)
    BY <1>4 DEF Offers
  <2>2. QED
    BY <2>1 DEF Fitting, Waiting
<1>5. QED
  BY <1>1, <1>2, <1>3, <1>4

(* claim() preserves it: what the policy offers has no live attempt, and the
   Worker has a slot left that it declared.                                *)
LEMMA ClaimInv ==
    ASSUME Inv, NEW w \in Workers, NEW i \in Instances, NEW q \in Requests, claim(w, i, q)
    PROVE  Inv'
<1>1. PICK c \in choose(w), a \in Assigns : reserve(w, i, q, c, a)
  BY DEF claim
<1> DEFINE x == [state |-> "CLAIMED", kind |-> c.kind, worker |-> w, instance |-> i,
                 request |-> q, target |-> c.target, lease |-> LeaseTicks,
                 outcome |-> None, ack |-> FALSE]
<1>2. asg[a].state = "FREE" /\ asg' = [asg EXCEPT ![a] = x]
  BY <1>1 DEF reserve
<1>3. ~IsLive(asg[a]) /\ IsLive(x) /\ x.state # "FREE"
      /\ x.kind = c.kind /\ x.worker = w /\ x.target = c.target
  BY <1>2 DEF IsLive
<1> HIDE DEF x
<1>4. asg'[a] = x /\ \A b \in Assigns : b # a => asg'[b] = asg[b]
  BY <1>2 DEF Inv, TypeOK
<1>5. Unassigned(c.target) /\ c.kind \in {Estimation, Batch, Interactive}
      /\ (c.kind # Batch => Live(w) = {})
      /\ (c.kind = Interactive => c.target \in Runtimes)
      /\ (c.kind # Interactive => c.target \in Jobs)
  BY Chosen DEF Estimation, Batch, Interactive
<1>6. TypeOK'
  BY ClaimType, SMTT(30) DEF Inv
<1>7. Shape'
  BY <1>3, <1>4, <1>5 DEF Inv, Shape
<1>8. Declared' /\ worker' = worker
  BY <1>1, SMTT(30) DEF reserve, Inv, Declared
<1>9. OneAttemptPerTarget'
  BY <1>3, <1>4, <1>5 DEF Inv, OneAttemptPerTarget, Unassigned
<1>10. Live(w)' = Live(w) \cup {a} /\ a \notin Live(w)
       /\ \A v \in Workers : v # w => Live(v)' = Live(v)
  <2>1. \A v \in Workers : \A b \in Assigns : b # a => (b \in Live(v)' <=> b \in Live(v))
    BY <1>4, Zenon DEF Live
  <2>2. \A v \in Workers : a \notin Live(v) /\ (a \in Live(v)' <=> v = w)
    BY <1>3, <1>4 DEF Live
  <2>3. \A v \in Workers : Live(v) \subseteq Assigns /\ Live(v)' \subseteq Assigns
    BY DEF Live
  <2>4. \A b : b \in Live(w)' <=> b \in Live(w) \cup {a}
    BY <2>1, <2>2, <2>3
  <2>5. ASSUME NEW v \in Workers, v # w PROVE \A b : b \in Live(v)' <=> b \in Live(v)
    BY <2>1, <2>2, <2>3, <2>5
  <2>6. Live(w)' = Live(w) \cup {a}
    BY <2>4, Zenon
  <2>7. \A v \in Workers : v # w => Live(v)' = Live(v)
    BY <2>5, Zenon
  <2>8. QED
    BY <2>2, <2>6, <2>7
<1>11. Admits(w, i)
  BY DEF claim
<1>12. ExclusiveHold'
  <2> SUFFICES ASSUME NEW v \in Workers, NEW b \in Live(v)', asg'[b].kind # Batch
               PROVE  Live(v)' = {b}
    BY DEF ExclusiveHold
  <2>1. CASE v = w
    <3>1. CASE b = a
      BY <2>1, <3>1, <1>3, <1>4, <1>5, <1>10, SMTT(30)
    <3>2. CASE b # a
      <4>1. b \in Live(w) /\ asg[b].kind # Batch
        BY <2>1, <3>2, <1>4, <1>10 DEF Live
      <4>2. QED
        BY <4>1, <1>11, SMTT(30) DEF Admits
    <3>3. QED
      BY <3>1, <3>2, SMTT(30)
  <2>2. CASE v # w
    <3>1. b \in Live(v) /\ Live(v)' = Live(v) /\ b # a
      BY <2>2, <1>3, <1>10 DEF Live
    <3>2. asg[b].kind # Batch
      BY <3>1, <1>4 DEF Live
    <3>3. QED
      BY <3>1, <3>2, SMTT(30) DEF Inv, ExclusiveHold
  <2>3. QED
    BY <2>1, <2>2
<1>13. SlotBound'
  <2>1. Cardinality(Live(w)) < MaxSlots
    BY <1>11 DEF Admits, worker_eligible, Inv, Declared
  <2>2. Live(w) \in SUBSET Assigns
    BY DEF Live
  <2>3. Cardinality(Live(w) \cup {a}) = Cardinality(Live(w)) + 1
        /\ Cardinality(Live(w)) \in Nat
    BY <1>10, <2>2, OneMore, Zenon
  <2>4. Cardinality(Live(w)') <= MaxSlots
    BY <1>10, <2>1, <2>3, Bounds
  <2>5. QED
    BY <1>10, <2>4 DEF Inv, SlotBound
<1>14. JobAgrees'
  <2>1. CASE c.kind = Estimation
    <3>1. job' = job /\ job[c.target] = "VRAM_ESTIMATION_PENDING"
      BY <1>1, <2>1, Chosen, SMTT(30) DEF reserve, Estimation, Batch, Interactive
    <3>2. QED
      BY <3>1, <2>1, <1>3, <1>4 DEF Inv, JobAgrees, Estimation, Batch
  <2>2. CASE c.kind = Interactive
    <3>1. job' = job
      BY <1>1, <2>2 DEF reserve, Estimation, Batch, Interactive
    <3>2. QED
      BY <3>1, <2>2, <1>3, <1>4 DEF Inv, JobAgrees, Estimation, Batch, Interactive
  <2>3. CASE c.kind = Batch
    <3>1. job' = [job EXCEPT ![c.target] = "IN_PROGRESS"] /\ c.target \in Jobs
      BY <1>1, <1>5, <2>3, SMTT(30) DEF reserve, Estimation, Batch, Interactive
    <3>2. \A b \in Assigns : IsLive(asg[b]) => asg[b].target # c.target
      BY <1>5, SMTT(30) DEF Unassigned
    <3>3. \A b \in Assigns : IsLive(asg'[b]) /\ asg'[b].kind = Estimation =>
            job'[asg'[b].target] = "VRAM_ESTIMATION_PENDING"
      BY <3>1, <3>2, <2>3, <1>3, <1>4, SMTT(30) DEF Inv, TypeOK, JobAgrees, Estimation, Batch
    <3>4. ASSUME NEW j \in Jobs
          PROVE  job'[j] = "IN_PROGRESS" <=>
                   \E b \in Assigns : IsLive(asg'[b]) /\ asg'[b].kind = Batch /\ asg'[b].target = j
      <4>1. CASE j = c.target
        BY <4>1, <3>1, <2>3, <1>3, <1>4, SMTT(30) DEF Inv, TypeOK
      <4>2. CASE j # c.target
        BY <4>2, <3>1, <1>3, <1>4 DEF Inv, TypeOK, JobAgrees
      <4>3. QED
        BY <4>1, <4>2
    <3>5. QED
      BY <3>3, <3>4 DEF JobAgrees
  <2>4. QED
    BY <1>5, <2>1, <2>2, <2>3, SMTT(30)
<1>15. Coupled'
  <2>1. \A r \in Runtimes : rt[r].asg # a /\ rt[r].asg \in Assigns \cup {None}
                            /\ rt[r] \in RuntimeRow /\ CoupledRow(r)
    <3> SUFFICES ASSUME NEW r \in Runtimes
                 PROVE  /\ rt[r].asg # a /\ rt[r].asg \in Assigns \cup {None}
                        /\ rt[r] \in RuntimeRow /\ CoupledRow(r)
      OBVIOUS
    <3>1. rt[r] \in RuntimeRow
      BY SMTT(30) DEF Inv, TypeOK
    <3>2. rt[r].asg \in Assigns \cup {None}
      BY <3>1, SMTT(30) DEF RuntimeRow
    <3>3. CoupledRow(r)
      BY DEF Inv, Coupled
    <3>4. rt[r].asg # a
      BY <3>3, <1>2, ConstantsAssumption, ZenonT(40) DEF CoupledRow, Inv, Shape
    <3>5. QED
      BY <3>1, <3>2, <3>3, <3>4
  <2>2. \A r \in Runtimes : rt[r].asg # None => asg'[rt[r].asg] = asg[rt[r].asg]
    BY <2>1, <1>4
  <2>3. CASE c.kind = Interactive
    <3> DEFINE r == c.target
               y == [rt[r] EXCEPT !.state = "ASSIGNED", !.asg = a,
                                  !.startup = StartupTicks, !.life = LifetimeTicks]
    <3>1. r \in Runtimes /\ rt[r].desired = "RUNNING"
      BY <2>3, Chosen, Zenon DEF Estimation, Batch, Interactive
    <3>2. rt' = [rt EXCEPT ![r] = y]
      BY <1>1, <2>3, Zenon DEF reserve, Estimation, Batch, Interactive
    <3>3. y.state = "ASSIGNED" /\ y.asg = a
      BY <2>1, <3>1, AssignedRow, Zenon
    <3> HIDE DEF y, r
    <3>4. asg'[a].target = r /\ IsLive(asg'[a]) /\ a # None
      BY <1>3, <1>4, ConstantsAssumption DEF r
    <3>5. \A p \in Runtimes : CoupledRow(p)'
      <4> SUFFICES ASSUME NEW p \in Runtimes PROVE CoupledRow(p)'
        OBVIOUS
      <4>1. CASE p = r
        <5>1. rt'[p] = y
          BY <4>1, <3>1, <3>2, SMTT(30) DEF Inv, TypeOK
        <5>2. QED
          BY <5>1, <4>1, <3>3, <3>4 DEF CoupledRow, Ended
      <4>2. CASE p # r
        <5>1. rt'[p] = rt[p]
          BY <4>2, <3>2, SMTT(30) DEF Inv, TypeOK
        <5>2. QED
          BY <5>1, <2>1, <2>2 DEF CoupledRow
      <4>3. QED
        BY <4>1, <4>2
    <3>6. \A b \in Assigns : b # a /\ IsLive(asg[b]) => asg[b].target # r
      BY <1>5 DEF Unassigned, r
    <3>7. \A b \in Assigns : IsLive(asg'[b]) /\ asg'[b].kind = Interactive =>
            rt'[asg'[b].target].asg = b
      BY <3>1, <3>2, <3>3, <3>4, <3>6, <1>4, ZenonT(40) DEF Inv, TypeOK, Coupled, Shape, Batch, Estimation, Interactive
    <3>8. QED
      BY <3>5, <3>7 DEF Coupled
  <2>4. CASE c.kind # Interactive
    <3>1. rt' = rt
      BY <1>1, <2>4 DEF reserve, Estimation, Batch, Interactive
    <3>2. \A p \in Runtimes : CoupledRow(p)'
      BY <3>1, <2>1, <2>2, Zenon DEF CoupledRow
    <3>3. QED
      BY <3>1, <3>2, <2>4, <1>3, <1>4 DEF Inv, Coupled
  <2>5. QED
    BY <2>3, <2>4
<1>16. QED
  BY <1>6, <1>7, <1>8, <1>9, <1>12, <1>13, <1>14, <1>15 DEF Inv

(* The initial tables satisfy the invariant: no attempt, no runtime, and no
   Worker with a slot.                                                     *)
LEMMA InitInv == Init => Inv
<1> SUFFICES ASSUME Init PROVE Inv
  OBVIOUS
<1>1. \A a \in Assigns : asg[a] = FreeAssignment /\ ~IsLive(asg[a]) /\ asg[a].state = "FREE"
                         /\ asg[a].target = None
  BY SMTT(30) DEF Init, FreeAssignment, IsLive
<1>2. \A r \in Runtimes : rt[r] = FreeRuntime /\ rt[r].asg = None /\ rt[r].state = "FREE"
  BY DEF Init, FreeRuntime
<1>3. FreeAssignment \in AssignmentRow
  BY Bounds DEF FreeAssignment, AssignmentRow, AssignmentState
<1>4. FreeRuntime \in RuntimeRow
  BY Bounds DEF FreeRuntime, RuntimeRow, RuntimeState
<1>5. TypeOK
  BY <1>3, <1>4, Bounds DEF Init, TypeOK, WorkerRow, JobStatus
<1>6. Shape /\ OneAttemptPerTarget
  BY <1>1 DEF Shape, OneAttemptPerTarget
<1>7. Coupled
  BY <1>1, <1>2 DEF Coupled, CoupledRow, Ended
<1>8. Declared
  BY DEF Init, Declared
<1>9. \A w \in Workers : Live(w) = {}
  BY <1>1 DEF Live
<1>10. ExclusiveHold /\ SlotBound
  BY <1>9, FS_EmptySet, Bounds DEF ExclusiveHold, SlotBound
<1>11. JobAgrees
  BY <1>1 DEF Init, JobAgrees
<1>12. QED
  BY <1>5, <1>6, <1>7, <1>8, <1>10, <1>11 DEF Inv

(* Every handler, controller transaction, user request and tick preserves
   the invariant.                                                          *)
LEMMA NextInv == Inv /\ [Next]_vars => Inv'
<1> SUFFICES ASSUME Inv, [Next]_vars PROVE Inv'
  OBVIOUS
<1>1. CASE ControllerStep
  BY <1>1, ExpireInv, BeginInv, RevokeInv, ReadyInv, RefusedInv, SMTT(30) DEF ControllerStep
<1>2. ASSUME NEW w \in Workers, WorkerStep(w) PROVE Inv'
  <2>1. CASE \E i \in Instances, q \in Requests : claim(w, i, q)
    BY <2>1, ClaimInv
  <2>2. CASE \E i \in Instances : register(w, i, Cardinality(Live(w)))
    BY <2>2, RegisterInv, LiveFinite
  <2>3. CASE Beat(w)
    <3>1. PICK i \in Instances, reports \in SUBSET Known(w), free \in FreeVram,
               timely \in BOOLEAN, mode \in {"AVAILABLE", "BATCH_ACTIVE", "BLOCKED"},
               health \in Health :
            heartbeat(w, i, reports, Cardinality(reports), mode, free, timely, health)
      BY <2>3 DEF Beat
    <3>2. reports \in SUBSET Assigns /\ free \in Nat
      BY ConstantsAssumption DEF Known
    <3>3. Cardinality(reports) \in Nat
      BY <3>2, LiveFinite
    <3>4. QED
      BY <3>1, <3>2, <3>3, HeartbeatInv, Zenon
  <2>4. CASE \E a \in Assigns : Event(w, a)
    <3>1. PICK a \in Assigns : Event(w, a)
      BY <2>4
    <3>2. PICK i \in Instances, p \in Phases \cup {"STOPPING"}, f \in BOOLEAN, h \in Health :
            event(w, i, a, p, f, h)
      BY <3>1, Zenon DEF Event, Health
    <3>3. QED
      BY <3>2, EventInv
  <2>5. CASE \E a \in Assigns, i \in Instances, o \in Outcomes : result(w, i, a, o)
    BY <2>5, ResultInv
  <2>6. CASE \E a \in Assigns, i \in Instances, f \in BOOLEAN : cleanup(w, i, a, f)
    BY <2>6, CleanupInv
  <2>7. CASE \E a \in Assigns, i \in Instances : bootstrap(w, i, a)
    BY <2>7, BootstrapInv
  <2>8. QED
    BY <1>2, <2>1, <2>2, <2>3, <2>4, <2>5, <2>6, <2>7 DEF WorkerStep
<1>3. CASE UserStep
  BY <1>3, StartInv, StopInv, SubmitInv DEF UserStep
<1>4. CASE Tick
  BY <1>4, TickInv
<1>5. CASE UNCHANGED vars
  <2>1. TypeOK' /\ Keeps /\ Moves /\ Declared' /\ job' = job
    BY <1>5 DEF vars, Inv, TypeOK, Keeps, Shrinks, Follows, Moves, Declared
  <2>2. QED
    BY <2>1, KeepsInv, SMTT(30)
<1>6. QED
  BY <1>1, <1>2, <1>3, <1>4, <1>5 DEF Next

(* The inductive invariant holds in every reachable state, for every number
   of Workers, jobs, runtimes and attempts and every lease.                *)
THEOREM InvAlways == Spec => []Inv
BY InitInv, NextInv, PTL DEF Spec

(* Every handler writes well-formed rows.                                  *)
THEOREM TypeCorrect == Spec => []TypeOK
<1>1. Inv => TypeOK
  BY DEF Inv
<1>2. QED
  BY <1>1, InvAlways, PTL

(* However claims, takeovers, expiry, late results and cleanup interleave, a
   job or a runtime never has two live attempts.                           *)
THEOREM TargetsHeldOnce == Spec => []OneAttemptPerTarget
<1>1. Inv => OneAttemptPerTarget
  BY DEF Inv
<1>2. QED
  BY <1>1, InvAlways, PTL

(* An interactive runtime or an estimation has its Worker to itself until its
   assignment is released.                                                 *)
THEOREM HostsExclusive == Spec => []ExclusiveHold
<1>1. Inv => ExclusiveHold
  BY DEF Inv
<1>2. QED
  BY <1>1, InvAlways, PTL

(* No Worker is given more attempts than its max_concurrent_jobs, although
   claim() counts slots in the inventory of an earlier heartbeat.          *)
THEOREM SlotsRespected == Spec => []SlotBound
<1>1. Inv => SlotBound
  BY DEF Inv
<1>2. QED
  BY <1>1, InvAlways, PTL

(* The status of a job and its attempts never drift apart.                 *)
THEOREM JobsAgree == Spec => []JobAgrees
<1>1. Inv => JobAgrees
  BY SMTT(30) DEF Inv
<1>2. QED
  BY <1>1, InvAlways, PTL

(* A runtime and its assignment hold each other exactly until it has ended. *)
THEOREM RuntimesAgree == Spec => []RuntimeAgrees
<1>1. Inv => RuntimeAgrees
  BY DEF Inv, Coupled, CoupledRow, RuntimeAgrees
<1>2. QED
  BY <1>1, InvAlways, PTL
=============================================================================
