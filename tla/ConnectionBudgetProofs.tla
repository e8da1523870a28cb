---------------------- MODULE ConnectionBudgetProofs ----------------------
(***************************************************************************)
(* Proofs about the shared budget, for every budget, memory reading, limit *)
(* and number of connections.                                              *)
(*                                                                         *)
(* A lease is taken, counted and given back in steps of their own, so none *)
(* of the properties is inductive.  Accounts says how the three counts of  *)
(* a download are tied together between those steps: what it leases, what  *)
(* the scaler believes to be active, and the slots of its workers.         *)
(***************************************************************************)
EXTENDS ConnectionBudget, FiniteSetTheorems, TLAPS

\* The scaler is inside a tick, and acts on the count from its head.
InTick == run.scaler \in {"health", "log", "adding"}

\* Workers that nobody has told to stop, gone or not.
Paid == With({"working", "ended"})

\* Free, out and lost leases make at least the budget in force.
Covered == Booked >= effective_connection_budget

Accounts ==
  /\ run.limits.min <= run.limits.max /\ run.limits.max <= MaxSlots
  /\ run.phase # "running" =>
       run.scaler = "exited" /\ \A c \in Connection : run.slots[c] = "none"
  /\ run.phase \in {"idle", "done", "failed", "refused"} => run.leased = 0
  /\ run.phase = "running" => run.leased <= run.n_active
  /\ Cardinality(Paid) <= run.leased
  /\ InTick => Live <= run.n_active
  /\ run.scaler = "adding" => run.n_active < run.limits.max

BudgetInv == BudgetTypeOK /\ Covered /\ Accounts

-----------------------------------------------------------------------------
\* The parameters, one by one.
LEMMA Parameters ==
  /\ ConfiguredBudget \in Nat \ {0} /\ Connections \in Nat \ {0}
  /\ MinConnections \in Nat \ {0} /\ MaxConnections \in Nat \ {0}
  /\ MinConnections <= MaxConnections /\ MaxConnections <= MaxSlots
  /\ Connections <= MaxSlots /\ MaxSlots \in Nat \ {0} /\ MaxOthers \in Nat
  /\ Fresh.limits \in Limits /\ Fresh \in Run
<1>1. /\ ConfiguredBudget \in Nat \ {0} /\ Connections \in Nat \ {0}
      /\ MinConnections \in Nat \ {0} /\ MaxConnections \in Nat \ {0}
  BY BudgetAssumption
<1>2. /\ MinConnections <= MaxConnections /\ MaxConnections <= MaxSlots
      /\ Connections <= MaxSlots /\ MaxSlots \in Nat \ {0} /\ MaxOthers \in Nat
  BY <1>1, BudgetAssumption
<1>3. Fresh.limits \in Limits /\ Fresh \in Run
  BY <1>1, <1>2 DEF Fresh, Run, Phase, Slot, ScalerAt, Limits, NoConnection, Connection
<1> QED BY <1>1, <1>2, <1>3

\* What a client asks for, put inside the limits, is one of the connections.
LEMMA ClampedBounds == Clamped(Connections) \in 1..MaxSlots
BY Parameters DEF Clamped, Most, Least

(* Sets of connections *)

\* A set of connections is finite and no larger than all of them.
LEMMA ConnectionSets ==
  ASSUME NEW S \in SUBSET Connection
  PROVE  IsFiniteSet(S) /\ Cardinality(S) \in 0..MaxSlots
<1>1. IsFiniteSet(Connection) /\ Cardinality(Connection) = MaxSlots
  BY FS_Interval, BudgetAssumption DEF Connection
<1>2. IsFiniteSet(S) /\ Cardinality(S) <= Cardinality(Connection)
  BY <1>1, FS_Subset
<1> QED BY <1>1, <1>2, FS_CardinalityType, BudgetAssumption

\* Fewer connections, a smaller count.
LEMMA FewerConnections ==
  ASSUME NEW S \in SUBSET Connection, NEW T \in SUBSET S
  PROVE  Cardinality(T) <= Cardinality(S)
BY ConnectionSets, FS_Subset

\* One connection less, one less in the count.
LEMMA OneConnectionLess ==
  ASSUME NEW S \in SUBSET Connection, NEW c \in S
  PROVE  Cardinality(S \ {c}) = Cardinality(S) - 1
BY ConnectionSets, FS_RemoveElement

\* n connections more, at most n more in the count.
LEMMA MoreConnections ==
  ASSUME NEW S \in SUBSET Connection, NEW T \in SUBSET Connection
  PROVE  Cardinality(S \cup T) <= Cardinality(S) + Cardinality(T)
<1>1. IsFiniteSet(S) /\ IsFiniteSet(T) /\ Cardinality(S \cap T) \in Nat
  BY ConnectionSets
<1>2. Cardinality(S \cup T) = Cardinality(S) + Cardinality(T) - Cardinality(S \cap T)
  BY <1>1, FS_Union
<1> QED BY <1>1, <1>2, ConnectionSets

\* The counts of a download are numbers.
LEMMA Counts ==
  /\ \A s : With(s) \in SUBSET Connection
  /\ \A s : IsFiniteSet(With(s)) /\ Cardinality(With(s)) \in 0..MaxSlots
  /\ Live \in 0..MaxSlots
BY ConnectionSets DEF With, Live

\* The memory leaves at least one connection, and no more than configured.
LEMMA EffectiveBudgetBounds ==
  ASSUME NEW mb \in AvailableMb
  PROVE  EffectiveBudget(mb) \in 1..ConfiguredBudget
BY BudgetAssumption DEF EffectiveBudget, Least, Most

-----------------------------------------------------------------------------
(* Steps *)

\* A step of the run alone that keeps its leases keeps the budget's part.
LEMMA SameLeases ==
  ASSUME BudgetInv, UNCHANGED <<budget, others, leaked>>, panicked' \in BOOLEAN,
         run' \in Run, run'.leased = run.leased, run'.scaler = "adding" <=> run.scaler = "adding"
  PROVE  BudgetTypeOK' /\ Covered'
BY DEF BudgetInv, BudgetTypeOK, Covered, Booked, LeasesOut, budget

\* At the start the whole budget is free.
LEMMA InitHolds == BudgetInit => BudgetInv
<1> SUFFICES ASSUME BudgetInit PROVE BudgetInv
  OBVIOUS
<1>2. BudgetTypeOK /\ Covered
  <2>1. run \in Run /\ run.leased = 0 /\ run.scaler = "exited"
    BY Parameters DEF BudgetInit, Fresh
  <2>2. panicked \in BOOLEAN
    BY Zenon DEF BudgetInit
  <2> QED BY <2>1, <2>2, Parameters DEF BudgetInit, BudgetTypeOK, Covered, Booked, LeasesOut
<1>3. Paid = {}
  BY DEF BudgetInit, Fresh, Paid, With
<1>4. Accounts
  BY <1>3, FS_EmptySet, Parameters DEF BudgetInit, Fresh, Accounts, InTick
<1> QED BY <1>2, <1>4 DEF BudgetInv

\* A step that changes nothing.
LEMMA StutterHolds == BudgetInv /\ UNCHANGED budgetVars => BudgetInv'
BY DEF BudgetInv, BudgetTypeOK, Covered, Booked, LeasesOut, Accounts, InTick, Paid, With, Live,
       budgetVars, budget

\* The slots decide every set and count of connections.
LEMMA SameSlots ==
  ASSUME run'.slots = run.slots
  PROVE  /\ \A s : With(s)' = With(s)
         /\ Paid' = Paid /\ Live' = Live
BY DEF With, Paid, Live

\* The memory check moves the budget and the free connections together.
LEMMA MemoryCheckHolds ==
  ASSUME BudgetInv, NEW mb \in AvailableMb, MemoryCheck(mb)
  PROVE  BudgetInv'
<1>1. EffectiveBudget(mb) \in 1..ConfiguredBudget
  BY EffectiveBudgetBounds
<1>2. BudgetTypeOK' /\ Covered'
  BY <1>1, BudgetAssumption
  DEF MemoryCheck, AfterPressure, Least, BudgetInv, BudgetTypeOK, Covered, Booked, LeasesOut, Run
<1>3. Accounts'
  BY SameSlots DEF MemoryCheck, BudgetInv, Accounts, InTick
<1> QED BY <1>2, <1>3 DEF BudgetInv

\* The other downloads take and give back through the same two calls.
LEMMA OthersHold ==
  ASSUME BudgetInv, OthersLease \/ OthersGiveBack
  PROVE  BudgetInv'
<1>1. Accounts'
  BY SameSlots DEF OthersLease, OthersGiveBack, BudgetInv, Accounts, InTick
<1>2. run.leased \in Nat
  BY Parameters DEF BudgetInv, BudgetTypeOK, Run
<1>3. BudgetTypeOK' /\ Covered'
  BY <1>2, Parameters DEF OthersLease, OthersGiveBack, Lease, GiveBack, Least,
     BudgetInv, BudgetTypeOK, Covered, Booked, LeasesOut
<1> QED BY <1>1, <1>3 DEF BudgetInv

-----------------------------------------------------------------------------
(* Starting a download *)

\* Before its workers and after its end a download has no slot in use.
LEMMA NoSlots ==
  ASSUME NEW r \in Run, run' = r, \A c \in Connection : r.slots[c] = "none"
  PROVE  Cardinality(Paid)' = 0 /\ Live' = 0
<1>1. Paid' = {} /\ With({"working", "stopping"})' = {}
  BY DEF Paid, With
<1> QED BY <1>1, FS_EmptySet DEF Live

\* A download without workers is accounted for, whatever its phase.
LEMMA WaitingHolds ==
  ASSUME run' \in Run, run'.phase # "running", run'.scaler = "exited",
         \A c \in Connection : run'.slots[c] = "none",
         run'.phase \in {"idle", "done", "failed", "refused"} => run'.leased = 0,
         run'.limits.min <= run'.limits.max, run'.limits.max <= MaxSlots
  PROVE  Accounts'
<1>1. run'.leased \in Nat
  BY Parameters DEF Run
<1>2. Cardinality(Paid)' = 0
  BY NoSlots
<1> QED BY <1>1, <1>2 DEF Accounts, InTick

\* A download put back to its start, in any phase without workers.
LEMMA ResetHolds ==
  ASSUME NEW p \in Phase \ {"running"}, NEW o \in {"no", "halted", "complete"},
         \/ run' = [Fresh EXCEPT !.phase = p, !.over = o]
         \/ run' = [Fresh EXCEPT !.phase = p]
  PROVE  run' \in Run /\ run'.leased = 0 /\ run'.scaler = "exited" /\ Accounts'
<1>1. run' \in Run
  BY Parameters DEF Run
<1>2. /\ run'.leased = 0 /\ run'.scaler = "exited" /\ run'.phase = p
      /\ run'.limits = Fresh.limits /\ \A c \in Connection : run'.slots[c] = "none"
  <2>1. CASE run' = [Fresh EXCEPT !.phase = p, !.over = o]
    BY <2>1 DEF Fresh
  <2>2. CASE run' = [Fresh EXCEPT !.phase = p]
    BY <2>2 DEF Fresh
  <2> QED BY <2>1, <2>2
<1>3. run'.limits.min <= run'.limits.max /\ run'.limits.max <= MaxSlots
  BY <1>2, Parameters DEF Fresh
<1> QED BY <1>1, <1>2, <1>3, WaitingHolds

\* The limits a resumed download may come with.
LEMMA ResumedLimits ==
  ASSUME NEW l \in {Fresh.limits} \cup {AtLeastOne(u) : u \in ScalingUpdates}
  PROVE  l \in Limits /\ l.min <= l.max /\ l.max <= MaxSlots
<1>1. CASE l = Fresh.limits
  BY <1>1, Parameters DEF Fresh, Limits
<1>2. ASSUME NEW u \in ScalingUpdates, l = AtLeastOne(u)
      PROVE  l \in Limits /\ l.min <= l.max /\ l.max <= MaxSlots
  <2>1. u \in Limits /\ u.min <= u.max /\ u.max <= MaxSlots
    BY BudgetAssumption
  <2> QED BY <1>2, <2>1, Parameters DEF AtLeastOne, Most, Limits
<1> QED BY <1>1, <1>2

\* A download begins, or begins again, without a lease.
LEMMA StartHolds == ASSUME BudgetInv, Start PROVE BudgetInv'
<1>1. run.leased = 0 /\ run.scaler = "exited"
  BY DEF Start, BudgetInv, Accounts
<1>2. run' \in Run /\ run'.leased = 0 /\ run'.scaler = "exited" /\ Accounts'
  <2>1. CASE run' = [Fresh EXCEPT !.phase = "head"]
    BY <2>1, ResetHolds DEF Phase
  <2>2. ASSUME NEW l \in Limits, l.min <= l.max, l.max <= MaxSlots, NEW n \in 0..MaxSlots,
               run' = [Fresh EXCEPT !.phase = "acquire", !.limits = l, !.target = n]
        PROVE  run' \in Run /\ run'.leased = 0 /\ run'.scaler = "exited" /\ Accounts'
    <3>1. run' \in Run
      BY <2>2, Parameters DEF Run, Phase
    <3>2. /\ run'.leased = 0 /\ run'.scaler = "exited" /\ run'.phase = "acquire"
          /\ run'.limits = l /\ \A c \in Connection : run'.slots[c] = "none"
      BY <2>2 DEF Fresh
    <3> QED BY <2>2, <3>1, <3>2, WaitingHolds
  <2>3. CASE run' = [Fresh EXCEPT !.phase = "acquire", !.target = Clamped(Connections)]
    <3>1. run' = [Fresh EXCEPT !.phase = "acquire", !.limits = Fresh.limits,
                               !.target = Clamped(Connections)]
      BY <2>3 DEF Fresh
    <3>2. Fresh.limits \in Limits /\ Fresh.limits.min <= Fresh.limits.max
          /\ Fresh.limits.max <= MaxSlots
      BY ResumedLimits
    <3>3. Clamped(Connections) \in 0..MaxSlots
      BY ClampedBounds, Parameters
    <3> QED BY <2>2, <3>1, <3>2, <3>3
  <2>4. CASE \E l \in {Fresh.limits} \cup {AtLeastOne(u) : u \in ScalingUpdates} :
               \E n \in l.min..l.max :
                 run' = [Fresh EXCEPT !.phase = "acquire", !.limits = l, !.target = n]
    <3>0. PICK l \in {Fresh.limits} \cup {AtLeastOne(u) : u \in ScalingUpdates} :
            \E n \in l.min..l.max :
              run' = [Fresh EXCEPT !.phase = "acquire", !.limits = l, !.target = n]
      BY <2>4
    <3>1. PICK n \in l.min..l.max :
            run' = [Fresh EXCEPT !.phase = "acquire", !.limits = l, !.target = n]
      BY <3>0
    <3>2. l \in Limits /\ l.min <= l.max /\ l.max <= MaxSlots
      BY ResumedLimits
    <3>3. n \in 0..MaxSlots
      BY <3>2, Parameters DEF Limits
    <3> QED BY <2>2, <3>1, <3>2, <3>3
  <2> QED BY <2>1, <2>3, <2>4 DEF Start
<1> QED BY <1>1, <1>2 DEF Start, BudgetInv, BudgetTypeOK, Covered, Booked, LeasesOut, budget

\* A failed start moves its leases to the leaked ones.
LEMMA StartFailsHolds == ASSUME BudgetInv, StartFails PROVE BudgetInv'
<1>1. run.leased \in Nat /\ run.scaler = "exited"
  BY Parameters DEF StartFails, BudgetInv, BudgetTypeOK, Run, Accounts
<1>2. run' \in Run /\ run'.leased = 0 /\ run'.scaler = "exited" /\ Accounts'
  BY ResetHolds DEF StartFails, Phase
<1> QED BY <1>1, <1>2, Parameters
        DEF StartFails, BudgetInv, BudgetTypeOK, Covered, Booked, LeasesOut, budget

\* The end of a run gives every lease back.
LEMMA TeardownHolds == ASSUME BudgetInv, Teardown PROVE BudgetInv'
<1>1. run.leased \in Nat /\ run.scaler = "exited" /\ run.over \in {"no", "halted", "complete"}
  BY Parameters DEF Teardown, ScalerIs, BudgetInv, BudgetTypeOK, Run
<1>2. run' \in Run /\ run'.leased = 0 /\ run'.scaler = "exited" /\ Accounts'
  BY <1>1, ResetHolds DEF Teardown, Phase
<1> QED BY <1>1, <1>2, Parameters
        DEF Teardown, GiveBack, Least, BudgetInv, BudgetTypeOK, Covered, Booked, LeasesOut

\* Leases taken while the HEAD runs are the download's.
LEMMA LeaseDuringHeadHolds == ASSUME BudgetInv, LeaseDuringHead PROVE BudgetInv'
<1> DEFINE n == Least(connection_budget, Connections)
<1>1. n \in 0..MaxSlots /\ n <= connection_budget /\ run.leased = 0
  BY Parameters DEF LeaseDuringHead, Least, BudgetInv, BudgetTypeOK
<1>2. /\ run' \in Run /\ run'.leased = n /\ run'.scaler = "exited" /\ run.scaler = "exited"
      /\ run'.phase = "head" /\ run'.slots = run.slots /\ run'.limits = run.limits
      /\ \A c \in Connection : run.slots[c] = "none"
  BY <1>1 DEF LeaseDuringHead, BudgetInv, BudgetTypeOK, Run, Accounts
<1>3. Accounts'
  BY <1>2, WaitingHolds DEF BudgetInv, Accounts
<1>4. Lease(n) /\ UNCHANGED <<others, leaked, panicked>>
  BY DEF LeaseDuringHead
<1> HIDE DEF n
<1> QED BY <1>1, <1>2, <1>3, <1>4, Parameters
        DEF Lease, BudgetInv, BudgetTypeOK, Covered, Booked, LeasesOut

\* Waiting for the HEAD or for a connection changes no lease.
LEMMA WaitingStepsHold ==
  ASSUME BudgetInv, HeadAnswers \/ Refuse \/ (Halt /\ run.phase # "running")
  PROVE  BudgetInv'
<1>0. run' \in Run
  <2>1. CASE HeadAnswers
    <3>1. Clamped(Connections) \in 0..MaxSlots /\ Fresh.limits \in Limits
      BY ClampedBounds, Parameters
    <3> QED BY <2>1, <3>1 DEF HeadAnswers, BudgetInv, BudgetTypeOK, Run, Phase
  <2>2. CASE Refuse \/ Halt
    BY <2>2 DEF Refuse, Halt, BudgetInv, BudgetTypeOK, Run, Phase
  <2> QED BY <2>1, <2>2
<1>1. /\ run'.leased = run.leased
      /\ run'.scaler = "exited" /\ run.scaler = "exited"
      /\ run'.slots = run.slots /\ run'.limits \in {run.limits, Fresh.limits}
      /\ \A c \in Connection : run.slots[c] = "none"
      /\ run'.phase # "running" /\ (run'.phase = "refused" => run.leased = 0)
      /\ run'.phase \notin {"idle", "done", "failed"}
  BY DEF HeadAnswers, Refuse, Halt, BudgetInv, BudgetTypeOK, Run, Phase, Accounts
<1>2. Accounts'
  BY <1>0, <1>1, WaitingHolds, ResumedLimits DEF BudgetInv, Accounts
<1>3. UNCHANGED <<budget, others, leaked, panicked>>
  BY DEF HeadAnswers, Refuse, Halt
<1> QED BY <1>0, <1>1, <1>2, <1>3, SameLeases DEF BudgetInv, BudgetTypeOK

-----------------------------------------------------------------------------
(* Workers *)

\* The first workers are spawned from the leases at hand.
LEMMA LaunchHolds == ASSUME BudgetInv, Launch PROVE BudgetInv'
<1> DEFINE n == run.leased + ToLease
<1>1. /\ run.leased \in 0..MaxSlots /\ ToLease \in 0..MaxSlots
      /\ n \in 1..MaxSlots /\ ToLease <= connection_budget /\ run.scaler = "exited"
  BY Parameters DEF Launch, ToLease, Least, BudgetInv, BudgetTypeOK, Run, Accounts
<1>2. /\ run'.phase = "running" /\ run'.leased = n /\ run'.n_active = n
      /\ run'.limits = run.limits /\ run'.scaler = "asleep"
      /\ \A c \in Connection : run'.slots[c] = IF c <= n THEN "working" ELSE "none"
  BY DEF Launch, BudgetInv, BudgetTypeOK, Run
<1>3. run' \in Run
  <2>1. [c \in Connection |-> IF c <= n THEN "working" ELSE "none"] \in [Connection -> Slot]
    BY DEF Slot
  <2>2. run \in Run /\ n \in 0..MaxSlots
    BY <1>1, Parameters DEF BudgetInv, BudgetTypeOK
  <2>3. run' = [run EXCEPT !.phase = "running", !.leased = n, !.n_active = n,
                 !.slots = [c \in Connection |-> IF c <= n THEN "working" ELSE "none"],
                 !.scaler = "asleep"]
    BY DEF Launch
  <2> HIDE DEF n
  <2> QED BY <2>1, <2>2, <2>3 DEF Run, Phase, ScalerAt
<1>4. Cardinality(Paid)' = n
  <2>1. \A c \in Connection : c \in Paid' <=> c <= n
    BY <1>2 DEF Paid, With
  <2>2. Paid' \subseteq Connection
    BY DEF Paid, With
  <2>3. n \in 1..MaxSlots /\ MaxSlots \in Nat
    BY <1>1, Parameters
  <2> HIDE DEF n
  <2>4. Paid' = 1..n
    <3>1. \A c \in Paid' : c \in 1..n
      BY <2>1, <2>2, <2>3 DEF Connection
    <3>2. \A c \in 1..n : c \in Paid'
      BY <2>1, <2>3 DEF Connection
    <3> QED BY <3>1, <3>2, Zenon
  <2> QED BY <2>3, <2>4, FS_Interval
<1>5. Accounts'
  BY <1>1, <1>2, <1>4, Parameters DEF BudgetInv, Accounts, InTick
<1>6. Lease(ToLease) /\ UNCHANGED <<others, leaked, panicked>>
  BY DEF Launch
<1> HIDE DEF n
<1>7. n = run.leased + ToLease
  BY DEF n
<1> QED BY <1>1, <1>2, <1>3, <1>5, <1>6, <1>7, Parameters
        DEF Lease, BudgetInv, BudgetTypeOK, Covered, Booked, LeasesOut

\* A step that only lets workers go or end, or forgets ended ones, keeps the
\* accounts: no count but the number of slots changes, and that one falls.
LEMMA SlotsFall ==
  ASSUME BudgetInv, run' \in Run,
         \A c \in Connection :
           \/ run'.slots[c] = run.slots[c]
           \/ run'.slots[c] = "none"
           \/ run.slots[c] = "working" /\ run'.slots[c] = "ended",
         run'.phase = run.phase, run'.leased = run.leased, run'.n_active = run.n_active,
         run'.limits = run.limits, run'.scaler = run.scaler
  PROVE  Accounts'
<1>1. Paid' \subseteq Paid /\ With({"working", "stopping"})' \subseteq With({"working", "stopping"})
  BY DEF Paid, With
<1>2. Cardinality(Paid)' <= Cardinality(Paid) /\ Live' <= Live
  BY <1>1, Counts, FewerConnections DEF Paid, Live
<1>3. Cardinality(Paid) \in Nat /\ Cardinality(Paid)' \in Nat /\ Live \in Nat /\ Live' \in Nat
  BY <1>1, Counts, ConnectionSets DEF Paid, Live
<1>4. run.leased \in Nat /\ run.n_active \in Nat
  BY DEF BudgetInv, BudgetTypeOK, Run
<1> QED BY <1>2, <1>3, <1>4 DEF BudgetInv, Accounts, InTick

\* A worker that ends or is swept changes its own slot.
LEMMA WorkerStepsHold ==
  ASSUME BudgetInv, ProgressSweep \/ \E c \in Connection : WorkerEnds(c)
  PROVE  BudgetInv'
<1>1. run' \in Run /\ UNCHANGED <<budget, others, leaked, panicked>>
  BY DEF ProgressSweep, WorkerEnds, Swept, BudgetInv, BudgetTypeOK, Run, Slot
<1>2. /\ run'.phase = run.phase /\ run'.leased = run.leased /\ run'.n_active = run.n_active
      /\ run'.limits = run.limits /\ run'.scaler = run.scaler
  BY DEF ProgressSweep, WorkerEnds, BudgetInv, BudgetTypeOK, Run
<1>3. \A c \in Connection :
           \/ run'.slots[c] = run.slots[c]
           \/ run'.slots[c] = "none"
           \/ run.slots[c] = "working" /\ run'.slots[c] = "ended"
  BY DEF ProgressSweep, WorkerEnds, Swept, BudgetInv, BudgetTypeOK, Run, Slot
<1> QED BY <1>1, <1>2, <1>3, SlotsFall, SameLeases DEF BudgetInv, BudgetTypeOK

\* Halts, the last byte and new limits leave slots and counts alone.
LEMMA OutsideStepsHold ==
  ASSUME BudgetInv,
         LastByte \/ (Halt /\ run.phase = "running") \/ \E l \in ScalingUpdates : UpdateScaling(l)
  PROVE  BudgetInv'
<1> DEFINE Kept ==
       /\ run' \in Run /\ run'.slots = run.slots /\ run'.phase = run.phase
       /\ run'.leased = run.leased /\ run'.n_active = run.n_active /\ run'.scaler = run.scaler
       /\ run'.limits.min <= run'.limits.max /\ run'.limits.max <= MaxSlots
       /\ run.scaler = "adding" => run'.limits = run.limits
<1>1. Kept
  <2>1. CASE LastByte \/ (Halt /\ run.phase = "running")
    BY <2>1 DEF LastByte, Halt, BudgetInv, BudgetTypeOK, Run, Accounts
  <2>2. ASSUME NEW l \in ScalingUpdates, UpdateScaling(l)
        PROVE  Kept
    <3>1. l \in Limits /\ l.min <= l.max /\ l.max <= MaxSlots
      BY BudgetAssumption
    <3> QED BY <2>2, <3>1 DEF UpdateScaling, Borrowing, BudgetInv, BudgetTypeOK, Run, Accounts
  <2> QED BY <2>1, <2>2
<1>2. UNCHANGED <<budget, others, leaked>> /\ panicked' \in BOOLEAN
  BY DEF LastByte, Halt, UpdateScaling, BudgetInv, BudgetTypeOK
<1>3. Accounts'
  BY <1>1, SameSlots DEF BudgetInv, Accounts, InTick
<1> QED BY <1>1, <1>2, <1>3, SameLeases DEF BudgetInv

-----------------------------------------------------------------------------
(* The scaler *)

\* The counts a step of the scaler starts from are numbers.
LEMMA ScalerCounts ==
  ASSUME BudgetInv
  PROVE  /\ run \in Run /\ run.leased \in 0..MaxSlots /\ run.n_active \in 0..MaxSlots
         /\ run.limits.min \in Nat /\ run.limits.max \in Nat
         /\ Live \in 0..MaxSlots /\ Cardinality(Paid) \in 0..MaxSlots
         /\ MaxSlots \in Nat
BY Counts, Parameters DEF BudgetInv, BudgetTypeOK, Run, Limits, Paid

\* The head of a tick counts the workers.
LEMMA TickHolds == ASSUME BudgetInv, Tick PROVE BudgetInv'
<1> DEFINE surplus == Most(run.leased - Live, 0)
<1>1. /\ surplus \in 0..MaxSlots /\ surplus <= run.leased
      /\ run.leased - surplus <= Live /\ run.leased - surplus \in 0..MaxSlots
      /\ run.leased - surplus = Live \/ run.leased - surplus = run.leased
  BY ScalerCounts DEF Most
<1>2. /\ GiveBack(surplus) /\ UNCHANGED <<others, leaked, panicked>>
      /\ run' = [run EXCEPT !.slots = Swept, !.leased = @ - surplus,
                            !.n_active = Live, !.scaler = "health"]
      /\ run.phase = "running" /\ run.scaler = "asleep"
  BY DEF Tick, Counted, ScalerIs
<1> HIDE DEF surplus
<1>3. /\ run'.phase = "running" /\ run'.slots = Swept /\ run'.leased = run.leased - surplus
      /\ run'.n_active = Live /\ run'.scaler = "health" /\ run'.limits = run.limits
  BY <1>2, ScalerCounts DEF Run
<1>4. run' \in Run
  <2>1. Swept \in [Connection -> Slot]
    BY ScalerCounts DEF Swept, Run, Slot
  <2> QED BY <1>1, <1>2, <2>1, ScalerCounts DEF Run, ScalerAt
<1>5. /\ Paid' \subseteq With({"working", "stopping"}) /\ Paid' \subseteq Paid
      /\ With({"working", "stopping"})' \subseteq With({"working", "stopping"})
  BY <1>3 DEF Paid, With, Swept
<1>6. /\ Cardinality(Paid)' <= Live /\ Cardinality(Paid)' <= Cardinality(Paid)
      /\ Live' <= Live /\ Live' \in Nat /\ Cardinality(Paid)' \in Nat
  BY <1>5, Counts, FewerConnections, ConnectionSets DEF Live, Paid
<1>7. Accounts'
  BY <1>1, <1>3, <1>6, ScalerCounts DEF BudgetInv, Accounts, InTick
<1> QED BY <1>1, <1>2, <1>3, <1>4, <1>7, ScalerCounts, Parameters
        DEF GiveBack, Least, BudgetInv, BudgetTypeOK, Covered, Booked, LeasesOut

\* Steps of the scaler that change nothing but where it is and what it has
\* picked or concluded.
LEMMA ScalerMoves ==
  ASSUME BudgetInv, UNCHANGED <<budget, others, leaked, panicked>>,
         NEW at \in {"asleep", "log", "exited"}, run.phase = "running",
         run.scaler \in {"asleep", "health", "log"},
         at = "log" => run.scaler = "health",
         run' \in Run, run'.slots = run.slots, run'.leased = run.leased,
         run'.n_active = run.n_active, run'.limits = run.limits,
         run'.phase = run.phase, run'.scaler = at
  PROVE  BudgetInv'
<1>1. Accounts'
  BY SameSlots DEF BudgetInv, Accounts, InTick
<1> QED BY <1>1, SameLeases DEF BudgetInv, BudgetTypeOK

\* The scaler leaves its loop.
LEMMA LeaveTicksHolds == ASSUME BudgetInv, LeaveTicks PROVE BudgetInv'
BY ScalerMoves, ScalerCounts DEF LeaveTicks, ScalerIs, Run, ScalerAt

\* Picking the weakest connection changes no count.
LEMMA LookHolds == ASSUME BudgetInv, Look PROVE BudgetInv'
<1>1. PICK at \in {"asleep", "log"}, c \in Connection \cup {NoConnection} :
        run' = [run EXCEPT !.scaler = at] \/ run' = [run EXCEPT !.weakest = c, !.scaler = at]
  BY Counts DEF Look
<1>2. /\ run' \in Run /\ run'.slots = run.slots /\ run'.leased = run.leased
      /\ run'.n_active = run.n_active /\ run'.limits = run.limits
      /\ run'.phase = run.phase /\ run'.scaler = at
  BY <1>1, ScalerCounts DEF Run, ScalerAt
<1> QED BY <1>2, ScalerMoves DEF Look, ScalerIs

\* The end of a tick that spawned and dropped nothing.
LEMMA NoDropHolds ==
  ASSUME BudgetInv, ScalerIs("log"), NEW g \in BOOLEAN,
         NoDrop(g) \/ (run' = TickOver(run) /\ UNCHANGED budget),
         UNCHANGED <<others, leaked, panicked>>
  PROVE  BudgetInv'
<1>1. /\ run' \in Run /\ run'.slots = run.slots /\ run'.leased = run.leased
      /\ run'.n_active = run.n_active /\ run'.limits = run.limits
      /\ run'.phase = run.phase /\ run'.scaler = "asleep"
  BY ScalerCounts DEF NoDrop, TickOver, Run, ScalerAt
<1> QED BY <1>1, ScalerMoves DEF NoDrop, ScalerIs

\* New workers come with as many leases, and fit under the limit as long as the
\* count from the head of the tick does.
LEMMA GrowByKeeps ==
  ASSUME BudgetInv, run.phase = "running", run.scaler \in {"log", "adding"},
         NEW n \in Nat, run.n_active + n <= run.limits.max, GrowBy(n)
  PROVE  /\ run' \in Run /\ run'.leased = run.leased + n /\ run'.scaler = "asleep"
         /\ Accounts' /\ Live' <= run.n_active + n /\ run'.limits = run.limits
<1>1. PICK new \in SUBSET With({"none"}) :
        /\ Cardinality(new) = n
        /\ run' = TickOver(
             [run EXCEPT !.slots = [c \in Connection |-> IF c \in new THEN "working" ELSE @[c]],
                         !.leased = @ + n, !.n_active = @ + n, !.grew = TRUE])
  BY DEF GrowBy
<1>2. /\ run.leased <= run.n_active /\ run.limits.max <= MaxSlots
      /\ run.n_active + n \in 0..MaxSlots /\ run.leased + n \in 0..MaxSlots
      /\ Live <= run.n_active /\ Cardinality(Paid) <= run.leased
      /\ run.limits.min <= run.limits.max
  BY ScalerCounts DEF BudgetInv, Accounts, InTick
<1>3. [c \in Connection |-> IF c \in new THEN "working" ELSE run.slots[c]] \in [Connection -> Slot]
  BY ScalerCounts DEF Run, Slot
<1>4. run' \in Run
  BY <1>1, <1>2, <1>3, ScalerCounts DEF TickOver, Run, ScalerAt
<1>5. /\ run'.slots = [c \in Connection |-> IF c \in new THEN "working" ELSE run.slots[c]]
      /\ run'.leased = run.leased + n /\ run'.n_active = run.n_active + n
      /\ run'.limits = run.limits /\ run'.phase = run.phase /\ run'.scaler = "asleep"
  BY <1>1, ScalerCounts DEF TickOver, Run
<1>6. /\ Paid' \subseteq Paid \cup new
      /\ With({"working", "stopping"})' \subseteq With({"working", "stopping"}) \cup new
  BY <1>5 DEF Paid, With
<1>7. new \in SUBSET Connection
  BY Counts
<1>8. /\ Cardinality(Paid)' <= Cardinality(Paid \cup new)
      /\ Cardinality(Paid \cup new) <= Cardinality(Paid) + n
      /\ Cardinality(Paid)' \in Nat /\ Cardinality(Paid \cup new) \in Nat
  BY <1>1, <1>6, <1>7, Counts, FewerConnections, MoreConnections, ConnectionSets DEF Paid
<1>9. Live' <= Live + n /\ Live' \in Nat
  <2>1. With({"working", "stopping"}) \cup new \in SUBSET Connection
    BY <1>7, Counts
  <2>2. /\ Live' <= Cardinality(With({"working", "stopping"}) \cup new)
        /\ Cardinality(With({"working", "stopping"}) \cup new) <= Live + n
        /\ Cardinality(With({"working", "stopping"}) \cup new) \in Nat
    BY <1>1, <1>6, <1>7, <2>1, Counts, FewerConnections, MoreConnections, ConnectionSets DEF Live
  <2>3. Live' \in Nat
    BY <1>6, <2>1, ConnectionSets DEF Live
  <2> QED BY <2>2, <2>3, ScalerCounts
<1> QED BY <1>2, <1>4, <1>5, <1>8, <1>9, ScalerCounts DEF Accounts, InTick

\* A worker is spawned for one that died.
LEMMA RecoverHolds == ASSUME BudgetInv, Recover PROVE BudgetInv'
<1> DEFINE n == Least(run.limits.min - run.n_active, connection_budget)
<1>1. /\ n \in Nat /\ n <= connection_budget /\ run.n_active + n <= run.limits.max
      /\ run.limits.min <= MaxSlots
  BY ScalerCounts DEF Recover, Least, BudgetInv, BudgetTypeOK, Accounts
<1>2. /\ Lease(n) /\ UNCHANGED <<others, leaked, panicked>>
      /\ IF n = 0 THEN run' = TickOver(run) ELSE GrowBy(n)
      /\ run.phase = "running" /\ run.scaler = "log" /\ ScalerIs("log")
  BY DEF Recover, ScalerIs
<1> HIDE DEF n
<1>3. CASE n = 0
  <2>1. UNCHANGED budget
    BY <1>2, <1>3 DEF Lease, budget, BudgetInv, BudgetTypeOK
  <2> QED BY <1>2, <1>3, <2>1, NoDropHolds
<1>4. CASE n # 0
  <2>1. run' \in Run /\ run'.leased = run.leased + n /\ run'.scaler = "asleep" /\ Accounts'
    BY <1>1, <1>2, <1>4, GrowByKeeps
  <2> QED BY <1>1, <1>2, <2>1, ScalerCounts, Parameters
          DEF Lease, BudgetInv, BudgetTypeOK, Covered, Booked, LeasesOut
<1> QED BY <1>3, <1>4

\* A worker is added with a lease of its own, at once or after a line of the log.
LEMMA GrowHolds == ASSUME BudgetInv, Grow PROVE BudgetInv'
<1>1. /\ Lease(1) /\ UNCHANGED <<others, leaked, panicked>>
      /\ run.phase = "running" /\ run.scaler = "log" /\ run.n_active + 1 <= run.limits.max
  BY ScalerCounts DEF Grow, ScalerIs
<1>2. CASE GrowBy(1)
  <2>1. run' \in Run /\ run'.leased = run.leased + 1 /\ run'.scaler = "asleep" /\ Accounts'
    BY <1>1, <1>2, GrowByKeeps
  <2> QED BY <1>1, <2>1, ScalerCounts, Parameters
          DEF Lease, BudgetInv, BudgetTypeOK, Covered, Booked, LeasesOut
<1>3. CASE run' = [run EXCEPT !.scaler = "adding"]
  <2>1. /\ run' \in Run /\ run'.slots = run.slots /\ run'.leased = run.leased
        /\ run'.n_active = run.n_active /\ run'.limits = run.limits
        /\ run'.phase = run.phase /\ run'.scaler = "adding"
    BY <1>3, ScalerCounts DEF Run, ScalerAt
  <2>2. Accounts'
    BY <1>1, <2>1, SameSlots, ScalerCounts DEF BudgetInv, Accounts, InTick
  <2> QED BY <1>1, <2>1, <2>2, ScalerCounts, Parameters
          DEF Lease, BudgetInv, BudgetTypeOK, Covered, Booked, LeasesOut
<1> QED BY <1>2, <1>3 DEF Grow

\* The worker whose lease was taken before the line of the log.
LEMMA FinishGrowHolds == ASSUME BudgetInv, FinishGrow PROVE BudgetInv'
<1>1. /\ UNCHANGED <<budget, others, leaked, panicked>> /\ GrowBy(1)
      /\ run.phase = "running" /\ run.scaler = "adding" /\ run.n_active + 1 <= run.limits.max
  BY ScalerCounts DEF FinishGrow, ScalerIs, BudgetInv, Accounts
<1>2. run' \in Run /\ run'.leased = run.leased + 1 /\ run'.scaler = "asleep" /\ Accounts'
  BY <1>1, GrowByKeeps
<1> QED BY <1>1, <1>2, ScalerCounts, Parameters
        DEF budget, BudgetInv, BudgetTypeOK, Covered, Booked, LeasesOut

\* A dropped worker takes its lease with it, gone or still reading.
LEMMA DropHolds ==
  ASSUME BudgetInv, ScalerIs("log"), run.n_active > run.limits.min, Drop,
         UNCHANGED <<others, leaked, panicked>>
  PROVE  BudgetInv'
<1> DEFINE c == run.weakest
           dropped == c # NoConnection /\ run.slots[c] \in {"working", "ended"}
<1>1. CASE ~dropped
  <2>1. UNCHANGED budget /\ run' = TickOver([run EXCEPT !.grew = FALSE])
    BY <1>1 DEF Drop
  <2> QED BY <2>1, NoDropHolds DEF NoDrop
<1>2. CASE dropped
  <2>1. c \in Connection /\ c \in Paid
    BY <1>2, ScalerCounts DEF Run, Paid, With
  <2>2. /\ GiveBack(1)
        /\ run' = TickOver([run EXCEPT !.slots = Stopped(c), !.n_active = @ - 1,
                              !.leased = LeasedAfterDrop, !.grew = FALSE])
    BY <1>2 DEF Drop
  <2>3. /\ Cardinality(Paid \ {c}) = Cardinality(Paid) - 1 /\ Cardinality(Paid \ {c}) \in Nat
    BY <2>1, Counts, OneConnectionLess, ConnectionSets DEF Paid
  <2>4. /\ run.leased \in 1..MaxSlots /\ LeasedAfterDrop = run.leased - 1
        /\ run.n_active - 1 \in 0..MaxSlots /\ run.leased <= run.n_active
    BY <2>3, ScalerCounts DEF BudgetInv, Accounts, ScalerIs, LeasedAfterDrop, Most
  <2>5. /\ Stopped(c) \in [Connection -> Slot]
        /\ \A d \in Connection \ {c} : Stopped(c)[d] = run.slots[d]
        /\ Stopped(c)[c] \in {"stopping", "none"}
    BY <2>1, ScalerCounts DEF Stopped, Run, Slot
  <2> HIDE DEF c, dropped
  <2>6. run' \in Run
    <3> DEFINE was == [run EXCEPT !.slots = Stopped(c), !.n_active = @ - 1,
                                  !.leased = LeasedAfterDrop, !.grew = FALSE]
    <3>1. was \in Run
      <4>1. LeasedAfterDrop \in 0..MaxSlots
        BY <2>4, ScalerCounts
      <4> QED BY <2>4, <2>5, <4>1, ScalerCounts DEF Run
    <3>2. run' = TickOver(was)
      BY <2>2
    <3> HIDE DEF was
    <3> QED BY <3>1, <3>2 DEF TickOver, Run, ScalerAt
  <2>7. /\ run'.slots = Stopped(c) /\ run'.leased = run.leased - 1
        /\ run'.n_active = run.n_active - 1 /\ run'.scaler = "asleep"
        /\ run'.limits = run.limits /\ run'.phase = run.phase
    BY <2>2, <2>4, ScalerCounts DEF TickOver, Run
  <2>8. Paid' \subseteq Paid \ {c}
    BY <2>5, <2>7 DEF Paid, With
  <2>9. Cardinality(Paid)' <= Cardinality(Paid) - 1 /\ Cardinality(Paid)' \in Nat
    BY <2>3, <2>8, Counts, FewerConnections, ConnectionSets DEF Paid
  <2>10. Accounts'
    BY <2>4, <2>7, <2>9, ScalerCounts DEF BudgetInv, Accounts, InTick, ScalerIs
  <2> QED BY <2>2, <2>4, <2>6, <2>7, <2>10, ScalerCounts, Parameters
          DEF GiveBack, Least, BudgetInv, BudgetTypeOK, Covered, Booked, LeasesOut, ScalerIs
<1> QED BY <1>1, <1>2

\* Every step of the scaler.
LEMMA ScalerStepHolds == ASSUME BudgetInv, ScalerStep PROVE BudgetInv'
<1>1. CASE JudgeGrowth
  BY <1>1, DropHolds, NoDropHolds DEF JudgeGrowth
<1>2. CASE Shrink
  BY <1>2, DropHolds DEF Shrink
<1>3. CASE StayPut
  BY <1>3, NoDropHolds DEF StayPut
<1> QED BY <1>1, <1>2, <1>3, TickHolds, LeaveTicksHolds, LookHolds, RecoverHolds,
           GrowHolds, FinishGrowHolds DEF ScalerStep

-----------------------------------------------------------------------------
(* Theorems *)

\* Every step of the budget, the run and the other downloads.
LEMMA NextHolds == BudgetInv /\ [BudgetNext]_budgetVars => BudgetInv'
<1> SUFFICES ASSUME BudgetInv, BudgetNext PROVE BudgetInv'
  BY StutterHolds
<1>1. CASE Halt
  BY <1>1, WaitingStepsHold, OutsideStepsHold
<1> QED BY <1>1, MemoryCheckHolds, OthersHold, StartHolds, LeaseDuringHeadHolds,
           WaitingStepsHold, StartFailsHolds, LaunchHolds, WorkerStepsHold,
           OutsideStepsHold, ScalerStepHolds, TeardownHolds DEF BudgetNext

\* The invariant holds in every reachable state.
LEMMA InvariantHolds == BudgetSpec => []BudgetInv
BY InitHolds, NextHolds, PTL DEF BudgetSpec

\* For every budget, memory and limit: no count leaves its range; above all, a
\* download never leases more than its maximum, and the free connections never
\* exceed the budget in force (release_connection, the memory check).
THEOREM BudgetTypesAreCorrect == BudgetSpec => []BudgetTypeOK
<1>1. BudgetInv => BudgetTypeOK
  BY DEF BudgetInv
<1> QED BY <1>1, InvariantHolds, PTL

\* One step makes no connection, unless it changes the budget in force.
LEMMA StepBooks ==
  ASSUME BudgetInv, [BudgetNext]_budgetVars,
         effective_connection_budget' = effective_connection_budget
  PROVE  Booked' <= Booked
<1> USE ScalerCounts, Parameters
<1>1. /\ connection_budget \in Nat /\ effective_connection_budget \in Nat
      /\ others \in Nat /\ leaked \in Nat /\ run.leased \in Nat
  BY DEF BudgetInv, BudgetTypeOK
<1>2. CASE UNCHANGED <<budget, others, leaked>> /\ run'.leased = run.leased
             /\ (run'.scaler = "adding" <=> run.scaler = "adding")
  BY <1>1, <1>2 DEF Booked, LeasesOut, budget
<1>3. CASE \E mb \in AvailableMb : MemoryCheck(mb)
  BY <1>3 DEF MemoryCheck
<1>4. CASE OthersLease \/ OthersGiveBack
  BY <1>1, <1>4 DEF OthersLease, OthersGiveBack, Lease, GiveBack, Least, Booked, LeasesOut
<1>5. CASE Start \/ StartFails
  <2>1. /\ run.scaler = "exited" /\ UNCHANGED <<budget, others>>
        /\ \/ leaked' = leaked + run.leased
           \/ leaked' = leaked /\ run.leased = 0
    BY <1>5 DEF Start, StartFails, BudgetInv, Accounts
  <2>2. run'.leased = 0 /\ run'.scaler = "exited"
    BY <1>5 DEF Start, StartFails, Fresh
  <2> QED BY <1>1, <2>1, <2>2 DEF Booked, LeasesOut, budget
<1>6. CASE LeaseDuringHead
  <2> DEFINE n == Least(connection_budget, Connections)
  <2>1. /\ Lease(n) /\ UNCHANGED <<others, leaked>> /\ n \in Nat /\ run.leased = 0
        /\ run'.leased = n /\ run'.scaler = "exited" /\ run.scaler = "exited"
    BY <1>1, <1>6 DEF LeaseDuringHead, Least, Run, BudgetInv, Accounts
  <2> HIDE DEF n
  <2> QED BY <1>1, <2>1 DEF Lease, Booked, LeasesOut
<1>7. CASE Launch
  <2> DEFINE n == ToLease
  <2>1. /\ Lease(n) /\ UNCHANGED <<others, leaked>> /\ n \in Nat
        /\ run'.leased = run.leased + n /\ run'.scaler = "asleep" /\ run.scaler = "exited"
    BY <1>1, <1>7 DEF Launch, ToLease, Least, Run, BudgetInv, Accounts
  <2> HIDE DEF n
  <2> QED BY <1>1, <2>1 DEF Lease, Booked, LeasesOut
<1>8. CASE Teardown
  BY <1>1, <1>8 DEF Teardown, ScalerIs, GiveBack, Least, Fresh, Booked, LeasesOut
<1>9. CASE Tick
  <2> DEFINE n == Most(run.leased - Counted, 0)
  <2>1. /\ GiveBack(n) /\ UNCHANGED <<others, leaked>> /\ n \in Nat /\ n <= run.leased
        /\ run'.leased = run.leased - n /\ run'.scaler = "health" /\ run.scaler = "asleep"
    BY <1>1, <1>9 DEF Tick, Counted, ScalerIs, Most, Run
  <2> HIDE DEF n
  <2> QED BY <1>1, <2>1 DEF GiveBack, Least, Booked, LeasesOut
<1>10. ASSUME NEW n \in Nat, GrowBy(n)
       PROVE  run'.leased = run.leased + n /\ run'.scaler = "asleep"
  BY <1>10 DEF GrowBy, TickOver, Run
<1>11. CASE Recover
  <2> DEFINE n == Least(run.limits.min - run.n_active, connection_budget)
  <2>1. /\ Lease(n) /\ UNCHANGED <<others, leaked>> /\ n \in Nat /\ run.scaler = "log"
        /\ IF n = 0 THEN run' = TickOver(run) ELSE GrowBy(n)
    BY <1>1, <1>11 DEF Recover, ScalerIs, Least
  <2> HIDE DEF n
  <2>2. run'.leased = run.leased + n /\ run'.scaler = "asleep"
    <3>1. CASE n = 0
      <4>1. run' = TickOver(run)
        BY <2>1, <3>1
      <4>2. run'.leased = run.leased /\ run'.scaler = "asleep"
        BY <4>1 DEF TickOver, Run
      <4> QED BY <1>1, <3>1, <4>2
    <3>2. CASE n # 0
      BY <1>10, <2>1, <3>2
    <3> QED BY <3>1, <3>2
  <2> QED BY <1>1, <2>1, <2>2 DEF Lease, Booked, LeasesOut
<1>12. CASE Grow
  <2>1. /\ Lease(1) /\ UNCHANGED <<others, leaked>> /\ run.scaler = "log"
        /\ GrowBy(1) \/ run' = [run EXCEPT !.scaler = "adding"]
    BY <1>12 DEF Grow, ScalerIs
  <2>2. \/ run'.leased = run.leased + 1 /\ run'.scaler = "asleep"
        \/ run'.leased = run.leased /\ run'.scaler = "adding"
    BY <1>10, <2>1 DEF Run
  <2> QED BY <1>1, <2>1, <2>2 DEF Lease, Booked, LeasesOut
<1>13. CASE FinishGrow
  <2>1. UNCHANGED <<budget, others, leaked>> /\ run.scaler = "adding" /\ GrowBy(1)
    BY <1>13 DEF FinishGrow, ScalerIs
  <2>2. run'.leased = run.leased + 1 /\ run'.scaler = "asleep"
    BY <1>10, <2>1
  <2> QED BY <1>1, <2>1, <2>2 DEF Booked, LeasesOut, budget
<1>14. CASE JudgeGrowth \/ Shrink \/ StayPut
  <2>1. /\ UNCHANGED <<others, leaked>> /\ run.scaler = "log"
        /\ (run.n_active > run.limits.min /\ Drop) \/ \E g \in BOOLEAN : NoDrop(g)
    BY <1>14 DEF JudgeGrowth, Shrink, StayPut, ScalerIs
  <2>2. CASE \E g \in BOOLEAN : NoDrop(g)
    BY <1>2, <2>1, <2>2 DEF NoDrop, TickOver, Run
  <2>3. CASE Drop
    <3>1. CASE UNCHANGED budget /\ run' = TickOver([run EXCEPT !.grew = FALSE])
      BY <1>2, <2>1, <3>1 DEF TickOver, Run
    <3>2. CASE /\ GiveBack(1) /\ run.weakest \in Paid
               /\ run'.leased = LeasedAfterDrop /\ run'.scaler = "asleep"
      <4>1. Cardinality(Paid \ {run.weakest}) = Cardinality(Paid) - 1
            /\ Cardinality(Paid \ {run.weakest}) \in Nat
        BY <3>2, Counts, OneConnectionLess, ConnectionSets DEF Paid
      <4>2. run.leased >= 1
        BY <4>1 DEF BudgetInv, Accounts
      <4> QED BY <1>1, <2>1, <3>2, <4>2 DEF LeasedAfterDrop, Most, GiveBack, Least, Booked, LeasesOut
    <3> QED BY <2>3, <3>1, <3>2 DEF Drop, TickOver, Run, Paid, With
  <2> QED BY <2>1, <2>2, <2>3
<1>15. CASE LeaveTicks \/ Look
  BY <1>2, <1>15 DEF LeaveTicks, Look, ScalerIs, Run
<1>16. CASE \/ HeadAnswers \/ Refuse \/ LastByte \/ Halt \/ ProgressSweep
            \/ \E c \in Connection : WorkerEnds(c)
            \/ \E l \in ScalingUpdates : UpdateScaling(l)
  BY <1>2, <1>16
  DEF HeadAnswers, Refuse, LastByte, Halt, ProgressSweep, WorkerEnds, UpdateScaling, Run
<1>17. CASE UNCHANGED budgetVars
  BY <1>2, <1>17 DEF budgetVars
<1> QED BY <1>3, <1>4, <1>5, <1>6, <1>7, <1>8, <1>9, <1>11, <1>12, <1>13, <1>14, <1>15,
           <1>16, <1>17 DEF BudgetNext, ScalerStep

\* The books balance: no step loses a connection, whatever the memory check does
\* to the budget between a lease and its release, and no step but a change of
\* the budget makes one.
THEOREM BooksBalance == BudgetSpec => LeasesBalance
<1>1. BudgetInv /\ BudgetInv' /\ [BudgetNext]_budgetVars =>
        [/\ Booked' >= effective_connection_budget'
         /\ effective_connection_budget' = effective_connection_budget
              => Booked' <= Booked]_budgetVars
  BY StepBooks DEF BudgetInv, Covered
<1> QED BY <1>1, InvariantHolds, PTL DEF BudgetSpec, LeasesBalance

\* Without pressure the ceiling holds: when every reading of the memory allows
\* the configured budget, the connections lent never exceed it.  So it is the
\* memory check alone that breaks the promise of max_total_connections.
THEOREM CeilingHoldsWithoutPressure ==
  ASSUME \A mb \in AvailableMb : EffectiveBudget(mb) = ConfiguredBudget
  PROVE  BudgetSpec => []CeilingKept
<1> DEFINE Within == effective_connection_budget = ConfiguredBudget /\ Booked <= ConfiguredBudget
<1>1. BudgetInit => Within
  BY Parameters DEF BudgetInit, Fresh, Booked, LeasesOut
<1>2. BudgetInv /\ BudgetInv' /\ Within /\ [BudgetNext]_budgetVars => Within'
  <2> SUFFICES ASSUME BudgetInv, BudgetInv', Within, [BudgetNext]_budgetVars PROVE Within'
    OBVIOUS
  <2>1. effective_connection_budget' = effective_connection_budget
    BY DEF BudgetNext, budgetVars, budget, MemoryCheck, OthersLease, OthersGiveBack, Start,
       LeaseDuringHead, HeadAnswers, StartFails, Launch, Refuse, WorkerEnds, UpdateScaling,
       LastByte, Halt, ProgressSweep, ScalerStep, Tick, LeaveTicks, Look, Recover, JudgeGrowth,
       Drop, NoDrop, Shrink, Grow, FinishGrow, StayPut, Teardown, Lease, GiveBack
  <2>2. Booked' <= Booked
    BY <2>1, StepBooks
  <2>3. Booked \in Nat /\ Booked' \in Nat
    BY DEF BudgetInv, BudgetTypeOK, Run, Booked, LeasesOut
  <2> QED BY <2>1, <2>2, <2>3, Parameters
<1>3. BudgetInv /\ Within => CeilingKept
  BY Parameters DEF BudgetInv, BudgetTypeOK, Run, Booked, LeasesOut, CeilingKept
<1> QED BY <1>1, <1>2, <1>3, InvariantHolds, PTL DEF BudgetSpec

\* Every connection that reads and has not been told to stop holds a lease.
THEOREM ReadersPay == BudgetSpec => []ReadersHoldLeases
<1>1. BudgetInv => ReadersHoldLeases
  <2> SUFFICES ASSUME BudgetInv PROVE ReadersHoldLeases
    OBVIOUS
  <2>1. With({"working"}) \subseteq Paid /\ Paid \in SUBSET Connection
    BY DEF With, Paid
  <2>2. Cardinality(With({"working"})) <= Cardinality(Paid)
    BY <2>1, FewerConnections
  <2>3. Cardinality(With({"working"})) \in Nat
    BY Counts
  <2> QED BY <2>2, <2>3, ScalerCounts DEF BudgetInv, Accounts, ReadersHoldLeases
<1> QED BY <1>1, InvariantHolds, PTL

\* One step spawns no worker beyond the maximum.
LEMMA StepWithinLimit ==
  ASSUME BudgetInv, BudgetNext, run.phase = "running", Live' > Live
  PROVE  Live' <= run.limits.max
<1> USE ScalerCounts
<1>1. CASE run'.slots = run.slots
  BY <1>1, SameSlots
<1>2. CASE \A c \in Connection : run'.slots[c] \in {"working", "stopping"}
                                   => run.slots[c] \in {"working", "stopping"}
  <2>1. With({"working", "stopping"})' \subseteq With({"working", "stopping"})
    BY <1>2 DEF With
  <2>2. Live' <= Live /\ Live' \in Nat
    BY <2>1, Counts, FewerConnections, ConnectionSets DEF Live
  <2> QED BY <2>2
<1>3. ASSUME NEW n \in Nat, run.scaler \in {"log", "adding"}, GrowBy(n),
             run.n_active + n <= run.limits.max
      PROVE  Live' <= run.limits.max
  <2>1. Live' <= run.n_active + n /\ run' \in Run /\ Accounts'
    BY <1>3, GrowByKeeps
  <2>2. Live' \in Nat
    BY ConnectionSets DEF Live, With
  <2> QED BY <1>3, <2>1, <2>2
<1>4. CASE Recover
  <2> DEFINE n == Least(run.limits.min - run.n_active, connection_budget)
  <2>1. n \in Nat /\ run.n_active + n <= run.limits.max /\ run.scaler = "log"
    BY <1>4 DEF Recover, ScalerIs, Least, BudgetInv, BudgetTypeOK, Accounts
  <2>2. run' = TickOver(run) \/ GrowBy(n)
    BY <1>4 DEF Recover
  <2> HIDE DEF n
  <2>3. run' = TickOver(run) => run'.slots = run.slots
    BY DEF TickOver, Run
  <2> QED BY <1>1, <1>3, <2>1, <2>2, <2>3
<1>5. CASE Grow
  <2>1. run.scaler = "log" /\ run.n_active + 1 <= run.limits.max
    BY <1>5 DEF Grow, ScalerIs
  <2>2. GrowBy(1) \/ run'.slots = run.slots
    BY <1>5 DEF Grow, Run
  <2> QED BY <1>1, <1>3, <2>1, <2>2
<1>6. CASE FinishGrow
  <2>1. GrowBy(1) /\ run.scaler = "adding" /\ run.n_active + 1 <= run.limits.max
    BY <1>6 DEF FinishGrow, ScalerIs, BudgetInv, Accounts
  <2> QED BY <1>3, <2>1
<1>7. CASE JudgeGrowth \/ Shrink \/ StayPut
  <2>1. Drop \/ \E g \in BOOLEAN : NoDrop(g)
    BY <1>7 DEF JudgeGrowth, Shrink, StayPut
  <2>2. CASE \E g \in BOOLEAN : NoDrop(g)
    BY <1>1, <2>2 DEF NoDrop, TickOver, Run
  <2>3. CASE Drop
    <3>1. run'.slots = run.slots \/ run'.slots = Stopped(run.weakest)
      BY <2>3 DEF Drop, TickOver, Run
    <3>2. \A c \in Connection : Stopped(run.weakest)[c] \in {"working", "stopping"}
                                   => run.slots[c] \in {"working", "stopping"}
      BY DEF Stopped, Run, Slot
    <3> QED BY <1>1, <1>2, <3>1, <3>2
  <2> QED BY <2>1, <2>2, <2>3
<1>8. CASE Tick \/ LeaveTicks \/ Look
  <2>1. run'.slots = run.slots \/ run'.slots = Swept
    BY <1>8 DEF Tick, LeaveTicks, Look, Run
  <2>2. \A c \in Connection : Swept[c] \in {"working", "stopping"}
                                 => run.slots[c] \in {"working", "stopping"}
    BY DEF Swept
  <2> QED BY <1>1, <1>2, <2>1, <2>2
<1>9. CASE \/ \E c \in Connection : WorkerEnds(c)
           \/ ProgressSweep \/ LastByte \/ Halt \/ \E l \in ScalingUpdates : UpdateScaling(l)
  BY <1>1, <1>2, <1>9 DEF WorkerEnds, ProgressSweep, LastByte, Halt, UpdateScaling, Swept, Run, Slot
<1>10. CASE Teardown
  BY <1>1, <1>2, <1>10 DEF Teardown, Fresh
<1>11. CASE OthersLease \/ OthersGiveBack \/ \E mb \in AvailableMb : MemoryCheck(mb)
  BY <1>1, <1>11 DEF OthersLease, OthersGiveBack, MemoryCheck
<1>12. ~(Start \/ LeaseDuringHead \/ HeadAnswers \/ StartFails \/ Launch \/ Refuse)
  BY DEF Start, LeaseDuringHead, HeadAnswers, StartFails, Launch, Refuse
<1> QED BY <1>4, <1>5, <1>6, <1>7, <1>8, <1>9, <1>10, <1>11, <1>12 DEF BudgetNext, ScalerStep

\* The scaler spawns no worker beyond the maximum in force, though it decides on
\* a count taken several awaits earlier.
THEOREM SpawnsStayWithinLimit == BudgetSpec => SpawnsWithinLimit
<1>1. BudgetInv /\ [BudgetNext]_budgetVars =>
        [run.phase = "running" /\ Live' > Live => Live' <= run.limits.max]_budgetVars
  BY StepWithinLimit
<1> QED BY <1>1, InvariantHolds, PTL DEF BudgetSpec, SpawnsWithinLimit
=============================================================================
