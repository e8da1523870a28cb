------------------------- MODULE ConnectionBudget -------------------------
(***************************************************************************)
(* The connections that all downloads of an engine share                   *)
(* (DownloadEngine::request_connection, release_connection, the memory     *)
(* check of its loop), and how one download borrows them: its launch, its  *)
(* scaler, its progress task and its teardown (run_download_task_local).   *)
(* The other downloads, which run the same code, appear as the leases they *)
(* hold.  The scaler's tick is cut at its awaits: what it read before one  *)
(* is old after it.  Throughput is not modelled: a judgement on it is any  *)
(* of the judgements the code distinguishes.                               *)
(***************************************************************************)
EXTENDS Integers, FiniteSets

CONSTANTS
  ConfiguredBudget, \* max_total_connections
  Connections,      \* connections the client asks for, inside the limits or not
  MinConnections, MaxConnections, \* the limits in the task, put in order
  ScalingUpdates,   \* limits a client may send later, see Limits
  AvailableMb,      \* readings of the free memory
  MaxOthers,        \* bound: leases the other downloads hold together
  MaxSlots          \* bound: connections of one download at a time, see below

Limits == [min : Nat, max : Nat]

\* Connection ids: the code counts upwards; an id is used again here once its
\* slot is gone, so there are as many as anybody may ask for.
Connection == 1..MaxSlots
NoConnection == 0

ASSUME BudgetAssumption ==
  /\ {ConfiguredBudget, Connections, MinConnections, MaxConnections} \subseteq Nat \ {0}
  /\ MinConnections <= MaxConnections
  /\ MaxSlots \in Nat /\ Connections <= MaxSlots /\ MaxConnections <= MaxSlots
  /\ ScalingUpdates \subseteq {l \in Limits : l.min <= l.max /\ l.max <= MaxSlots}
  /\ AvailableMb \subseteq Nat
  /\ MaxOthers \in Nat

VARIABLES
  connection_budget,           \* connections free to be leased
  effective_connection_budget, \* the budget the memory allows
  run,                         \* the state of the download, see Run
  others,                      \* leases of the other downloads
  leaked,                      \* leases whose owner is gone
  panicked                     \* a RefCell was borrowed twice in the loop

budget == <<connection_budget, effective_connection_budget>>
budgetVars == <<budget, run, others, leaked, panicked>>

\* idle     not launched            failed   ended by an error before its workers
\* head     HEAD request out        refused  halted before it had a connection
\* acquire  before the workers      running  workers, scaler, progress task
\* done     torn down; may be resumed
Phase == {"idle", "head", "acquire", "running", "done", "failed", "refused"}

\* A connection's slot in the vector of handles: reading, told to stop, or
\* finished and not yet cleared away.
Slot == {"none", "working", "stopping", "ended"}

\* Where the scaler waits; in Borrowing it holds scaler_config.  The log line
\* at the end of a tick is not a place of its own.
ScalerAt == {"asleep", "health", "log", "adding", "exited"}
Borrowing == {"log", "adding"}

Run == [phase : Phase, leased : 0..MaxSlots, slots : [Connection -> Slot],
        target : 0..MaxSlots, \* desired_initial_connections, inside the limits
        n_active : 0..MaxSlots,
        grew : BOOLEAN, \* last_action is Grow
        scaler : ScalerAt, weakest : Connection \cup {NoConnection},
        limits : Limits, over : {"no", "halted", "complete"}]

Fresh == [phase |-> "idle", leased |-> 0, slots |-> [c \in Connection |-> "none"],
          target |-> 0, n_active |-> 0, grew |-> FALSE, scaler |-> "exited", weakest |-> NoConnection,
          limits |-> [min |-> MinConnections, max |-> MaxConnections], over |-> "no"]

With(s) == {c \in Connection : run.slots[c] \in s}
Live == Cardinality(With({"working", "stopping"}))
Over == run.over # "no"

Least(a, b) == IF a < b THEN a ELSE b
Most(a, b) == IF a > b THEN a ELSE b
-----------------------------------------------------------------------------
(* The budget *)

\* compute_effective_connection_budget
EffectiveBudget(mb) ==
  LET least == Most(Least(ConfiguredBudget, 2), 1) IN
    CASE mb < 256  -> Most(least, ConfiguredBudget \div 4)
      [] mb < 512  -> Most(least, ConfiguredBudget \div 2)
      [] mb < 1024 -> Most(least, (ConfiguredBudget * 3) \div 4)
      [] OTHER     -> ConfiguredBudget

\* request_connection, n times.
Lease(n) ==
  /\ connection_budget >= n
  /\ connection_budget' = connection_budget - n
  /\ UNCHANGED effective_connection_budget

\* A definition named Bad... is a mistake on purpose: put in the place of the
\* one below it, it shows that a property notices.

\* The cap of the new budget forgotten.
BadGiveBack(n) ==
  /\ connection_budget' = connection_budget + n
  /\ UNCHANGED effective_connection_budget

\* release_connection, n times.
GiveBack(n) ==
  /\ connection_budget' = Least(connection_budget + n, effective_connection_budget)
  /\ UNCHANGED effective_connection_budget

\* What is out is taken from the configured budget, not from the one in force.
BadAfterPressure(mb) ==
  LET taken == ConfiguredBudget - connection_budget IN
    EffectiveBudget(mb) - Least(taken, EffectiveBudget(mb))

\* The connections that are out count as taken from the new budget.
AfterPressure(mb) ==
  LET taken == effective_connection_budget
                 - Least(connection_budget, effective_connection_budget) IN
    EffectiveBudget(mb) - Least(taken, EffectiveBudget(mb))

\* The engine loop looks at the memory, every 30 s.
MemoryCheck(mb) ==
  /\ EffectiveBudget(mb) # effective_connection_budget
  /\ effective_connection_budget' = EffectiveBudget(mb)
  /\ connection_budget' = AfterPressure(mb)
  /\ UNCHANGED <<run, others, leaked, panicked>>

OthersLease ==
  /\ others < MaxOthers /\ Lease(1) /\ others' = others + 1
  /\ UNCHANGED <<run, leaked, panicked>>

OthersGiveBack ==
  /\ others > 0 /\ GiveBack(1) /\ others' = others - 1
  /\ UNCHANGED <<run, leaked, panicked>>
-----------------------------------------------------------------------------
(* The download up to its workers *)

AtLeastOne(l) == [min |-> Most(l.min, 1), max |-> Most(l.max, 1)]

\* The count a client asked for, inside the limits.
Clamped(n) == Most(MinConnections, Least(n, MaxConnections))

\* A new download asks for the file's size and for connections at once; a dry
\* run is told the size, and a resumed one knows it: that one comes with the
\* limits its client has given it meanwhile (never less than one connection),
\* and asks for a number inside them.
Start ==
  /\ \/ /\ run.phase = "idle"
        /\ \/ run' = [Fresh EXCEPT !.phase = "head"]
           \/ run' = [Fresh EXCEPT !.phase = "acquire", !.target = Clamped(Connections)]
     \/ /\ run.phase = "done" /\ run.over = "halted"
        /\ \E l \in {Fresh.limits} \cup {AtLeastOne(u) : u \in ScalingUpdates} :
             \E n \in l.min..l.max :
               run' = [Fresh EXCEPT !.phase = "acquire", !.limits = l, !.target = n]
  /\ UNCHANGED <<budget, others, leaked, panicked>>

\* conn_fut, every 100 ms until it has one (or is halted, after which it tries
\* once more); then as many more as there are.  The count is the client's, not
\* yet put inside the limits.
LeaseDuringHead ==
  /\ run.phase = "head" /\ run.leased = 0
  /\ connection_budget > 0
  /\ LET n == Least(connection_budget, Connections) IN
       Lease(n) /\ run' = [run EXCEPT !.leased = n]
  /\ UNCHANGED <<others, leaked, panicked>>

\* The size is known and a connection there, or the download halted; the file
\* is prepared.  The limits of the task replace what an update wrote.
HeadAnswers ==
  /\ run.phase = "head"
  /\ run.leased > 0 \/ Over
  /\ run' = [run EXCEPT !.phase = "acquire", !.limits = Fresh.limits,
                         !.target = Clamped(Connections)]
  /\ UNCHANGED <<budget, others, leaked, panicked>>

\* No answer, no size, or a file that cannot be prepared: the leases are
\* dropped with the future, and nobody gives them back.  (A lease another
\* download loses so is one it never gives back.)
StartFails ==
  /\ run.phase = "head" \/ (run.phase = "acquire" /\ run.leased = 0)
  /\ run' = [Fresh EXCEPT !.phase = "failed"]
  /\ leaked' = leaked + run.leased
  /\ UNCHANGED <<budget, others, panicked>>

\* Leases taken only when HEAD has left none: what an earlier wait brought
\* home is what the workers get.
ToLease == IF run.leased > 0 THEN 0 ELSE Least(connection_budget, run.target)

\* The workers start, with the connections there are, also in a download that
\* was halted while it waited.
Launch ==
  /\ run.phase = "acquire"
  /\ run.leased + ToLease > 0
  /\ Lease(ToLease)
  /\ LET n == run.leased + ToLease IN
       run' = [run EXCEPT !.phase = "running", !.leased = n, !.n_active = n,
                 !.slots = [c \in Connection |-> IF c <= n THEN "working" ELSE "none"],
                 !.scaler = "asleep"]
  /\ UNCHANGED <<others, leaked, panicked>>

\* Halted while it waits, and none is free: "no connection budget available".
Refuse ==
  /\ run.phase = "acquire" /\ run.leased = 0 /\ connection_budget = 0 /\ Over
  /\ run' = [run EXCEPT !.phase = "refused"]
  /\ UNCHANGED <<budget, others, leaked, panicked>>
-----------------------------------------------------------------------------
(* Workers, halts and updates *)

WorkerEnds(c) ==
  /\ run.phase = "running"
  /\ run.slots[c] \in {"working", "stopping"}
  /\ run' = [run EXCEPT !.slots[c] = IF @ = "working" THEN "ended" ELSE "none"]
  /\ UNCHANGED <<budget, others, leaked, panicked>>

LastByte ==
  /\ run.phase = "running" /\ With({"working", "stopping"}) # {}
  /\ run.over # "complete"
  /\ run' = [run EXCEPT !.over = "complete"]
  /\ UNCHANGED <<budget, others, leaked, panicked>>

Halt ==
  /\ run.phase \in {"head", "acquire", "running"} /\ ~Over
  /\ run' = [run EXCEPT !.over = "halted"]
  /\ UNCHANGED <<budget, others, leaked, panicked>>

\* EngineCommand::UpdateScaling with limits in order (others are refused).
UpdateScaling(l) ==
  /\ run.phase \in {"head", "acquire", "running"} /\ run.limits # l
  /\ IF run.scaler \in Borrowing
     THEN panicked' = TRUE /\ UNCHANGED run
     ELSE run' = [run EXCEPT !.limits = l] /\ UNCHANGED panicked
  /\ UNCHANGED <<budget, others, leaked>>

Swept == [c \in Connection |-> IF run.slots[c] = "ended" THEN "none" ELSE run.slots[c]]

\* The progress task clears finished handles away, every 400 ms.  (It panics,
\* and sweeps no more, when the scaler holds the vector across a log line; no
\* sweep is ever necessary.)
ProgressSweep ==
  /\ run.phase = "running" /\ With({"ended"}) # {}
  /\ run' = [run EXCEPT !.slots = Swept]
  /\ UNCHANGED <<budget, others, leaked, panicked>>
-----------------------------------------------------------------------------
(* The scaler *)

ScalerIs(at) == run.phase = "running" /\ run.scaler = at

\* A worker that has been told to stop no longer counts.
BadCounted == Cardinality(With({"working"}))

Counted == Live

\* The head of a tick: finished handles go, leases without a live worker go
\* back, and n_active is what lives, told to stop or not.
Tick ==
  /\ ScalerIs("asleep") /\ ~Over
  /\ LET surplus == Most(run.leased - Counted, 0) IN
       /\ GiveBack(surplus)
       /\ run' = [run EXCEPT !.slots = Swept, !.leased = @ - surplus,
                             !.n_active = Counted, !.scaler = "health"]
  /\ UNCHANGED <<others, leaked, panicked>>

\* The scaler leaves when the bytes are there, and not on a halt.
BadLeaveTicks ==
  /\ ScalerIs("asleep") /\ run.over = "complete"
  /\ run' = [run EXCEPT !.scaler = "exited"]
  /\ UNCHANGED <<budget, others, leaked, panicked>>

LeaveTicks ==
  /\ ScalerIs("asleep") /\ Over
  /\ run' = [run EXCEPT !.scaler = "exited"]
  /\ UNCHANGED <<budget, others, leaked, panicked>>

\* After update_reuse_health: a slow start skips the rest; otherwise the
\* weakest of the connections that download is picked.
Look ==
  /\ ScalerIs("health")
  /\ \/ run' = [run EXCEPT !.scaler = "asleep"]
     \/ \E c \in With({"working", "ended"}) \cup {NoConnection} :
          run' = [run EXCEPT !.weakest = c, !.scaler = "log"]
  /\ UNCHANGED <<budget, others, leaked, panicked>>

TickOver(was) == [was EXCEPT !.scaler = "asleep", !.weakest = NoConnection]

\* The tick ends with n more workers, in slots of their own.
GrowBy(n) ==
  \E new \in SUBSET With({"none"}) :
    /\ Cardinality(new) = n
    /\ run' = TickOver(
         [run EXCEPT !.slots = [c \in Connection |-> IF c \in new THEN "working" ELSE @[c]],
                     !.leased = @ + n, !.n_active = @ + n, !.grew = TRUE])

\* Fewer than the minimum: as many as are missing and free.
Recover ==
  /\ ScalerIs("log") /\ run.n_active < run.limits.min
  /\ LET n == Least(run.limits.min - run.n_active, connection_budget) IN
       /\ Lease(n)
       /\ IF n = 0 THEN run' = TickOver(run) ELSE GrowBy(n)
  /\ UNCHANGED <<others, leaked, panicked>>

\* The lease goes back, but nobody tells the worker.
BadStopped(c) == run.slots

Stopped(c) ==
  [run.slots EXCEPT ![c] = IF @ = "working" THEN "stopping" ELSE "none"]

\* The lease goes back, but the run still counts it.
BadLeasedAfterDrop == run.leased

LeasedAfterDrop == Most(run.leased - 1, 0)

\* Told to stop, the worker reads on until it looks; its lease goes back now.
\* A slot swept away since Look is not dropped.
Drop ==
  LET c == run.weakest
      dropped == c # NoConnection /\ run.slots[c] \in {"working", "ended"} IN
    /\ IF dropped THEN GiveBack(1) ELSE UNCHANGED budget
    /\ run' = TickOver(
         IF dropped
         THEN [run EXCEPT !.slots = Stopped(c), !.n_active = @ - 1,
                          !.leased = LeasedAfterDrop, !.grew = FALSE]
         ELSE [run EXCEPT !.grew = FALSE])

NoDrop(grew) ==
  /\ run' = TickOver([run EXCEPT !.grew = grew])
  /\ UNCHANGED budget

\* The tick after a growth: it cost throughput, it paid off, or neither, and
\* then the scaler goes on waiting for a verdict.
JudgeGrowth ==
  /\ ScalerIs("log") /\ run.n_active >= run.limits.min
  /\ run.grew
  /\ \/ run.n_active > run.limits.min /\ Drop
     \/ \E g \in BOOLEAN : NoDrop(g)
  /\ UNCHANGED <<others, leaked, panicked>>

\* Otherwise an efficiency far below the best ever seen drops the weakest ...
Shrink ==
  /\ ScalerIs("log") /\ ~run.grew
  /\ run.n_active > run.limits.min
  /\ Drop
  /\ UNCHANGED <<others, leaked, panicked>>

\* ... and a smaller number than allowed asks for one more, unless the streams
\* of the HTTP/2 connection are saturated.
Grow ==
  /\ ScalerIs("log") /\ ~run.grew
  /\ run.n_active >= run.limits.min /\ run.n_active < run.limits.max
  /\ Lease(1)
  /\ \/ GrowBy(1)
     \/ run' = [run EXCEPT !.scaler = "adding"] \* logs a new saturation first
  /\ UNCHANGED <<others, leaked, panicked>>

FinishGrow ==
  /\ ScalerIs("adding")
  /\ GrowBy(1)
  /\ UNCHANGED <<budget, others, leaked, panicked>>

StayPut ==
  /\ ScalerIs("log") /\ ~run.grew
  /\ run.n_active >= run.limits.min
  /\ NoDrop(FALSE)
  /\ UNCHANGED <<others, leaked, panicked>>

ScalerStep ==
  \/ Tick \/ LeaveTicks \/ Look \/ Recover
  \/ JudgeGrowth \/ Shrink \/ Grow \/ FinishGrow \/ StayPut
-----------------------------------------------------------------------------
(* The end of a run *)

\* Coordinator::run returns when the scaler and every worker have let go of its
\* channel; what is still leased goes back.
Teardown ==
  /\ ScalerIs("exited") /\ Live = 0
  /\ GiveBack(run.leased)
  /\ run' = [Fresh EXCEPT !.phase = "done", !.over = run.over]
  /\ UNCHANGED <<others, leaked, panicked>>
-----------------------------------------------------------------------------
BudgetInit ==
  /\ connection_budget = ConfiguredBudget
  /\ effective_connection_budget = ConfiguredBudget
  /\ run = Fresh
  /\ others = 0
  /\ leaked = 0
  /\ panicked = FALSE

\* A panic of the engine loop ends the program.
BudgetNext ==
  /\ ~panicked
  /\ \/ \E mb \in AvailableMb : MemoryCheck(mb)
     \/ OthersLease \/ OthersGiveBack
     \/ Start \/ LeaseDuringHead \/ HeadAnswers \/ StartFails \/ Launch \/ Refuse
     \/ \E c \in Connection : WorkerEnds(c)
     \/ \E l \in ScalingUpdates : UpdateScaling(l)
     \/ LastByte \/ Halt \/ ProgressSweep \/ ScalerStep \/ Teardown

BudgetSpec == BudgetInit /\ [][BudgetNext]_budgetVars

\* Every task of the single thread gets its turn: the scaler wakes, a worker
\* that may go goes.
BudgetFairness ==
  /\ WF_budgetVars(~panicked /\ ScalerStep)
  /\ WF_budgetVars(~panicked /\ Teardown)
  /\ \A c \in Connection :
       WF_budgetVars(~panicked /\ (Over \/ run.slots[c] = "stopping") /\ WorkerEnds(c))
-----------------------------------------------------------------------------
BudgetTypeOK ==
  /\ connection_budget \in 0..effective_connection_budget
  /\ effective_connection_budget \in 1..ConfiguredBudget
  /\ run \in Run
  /\ others \in 0..MaxOthers
  /\ leaked \in Nat
  /\ panicked \in BOOLEAN

\* Leases that are out: in the download's count, with the other downloads, and
\* one the scaler has asked for and not counted yet.
LeasesOut == run.leased + others + (IF run.scaler = "adding" THEN 1 ELSE 0)

\* What the books know of: free, out, or lost by a start that failed.
Booked == connection_budget + LeasesOut + leaked

\* The books balance over every lease, count and release of the downloads.  No
\* step loses a connection: the books never hold less than the budget in force,
\* whatever the memory check did to it between a lease and its release.  And no
\* step but a change of the budget makes one: what is lent goes back once.
LeasesBalance ==
  [][/\ Booked' >= effective_connection_budget'
     /\ effective_connection_budget' = effective_connection_budget => Booked' <= Booked]_budgetVars

\* "System-wide ceiling for active download connections" (max_total_connections):
\* the connections lent never exceed the configured number.  The memory check
\* breaks it: under pressure it counts leases beyond the smaller budget as
\* none, and lends them again when the pressure has gone.
CeilingKept == LeasesOut <= ConfiguredBudget

\* Every connection that reads and has not been told to stop is paid for by a
\* lease, though the scaler counts leases, live workers and stops in different
\* steps, and workers end between any two of them.
ReadersHoldLeases == Cardinality(With({"working"})) <= run.leased

\* The scaler spawns no worker beyond the maximum in force, though it decides
\* on a count taken several awaits earlier that a dropped worker has left.
SpawnsWithinLimit ==
  [][run.phase = "running" /\ Live' > Live => Live' <= run.limits.max]_budgetVars

\* A download that is halted or complete is torn down: neither a worker spawned
\* late nor a stopped one keeps it, and its leases, open.
EndsAreReached ==
  (run.phase = "running" /\ Over) ~> (run.phase # "running" \/ panicked)
=============================================================================
