-------------------------- MODULE TransferProofs --------------------------
(***************************************************************************)
(* Proofs about a running download, for every file, set of connections,    *)
(* channel capacity, retry limit and number of faults and pauses, and for  *)
(* every set of Features that respects the hypotheses named below.         *)
(***************************************************************************)
EXTENDS Transfer, SequenceTheorems, TLAPS

-----------------------------------------------------------------------------
(* Hypotheses. *)

\* A failure that asks for fewer workers gives the range back and lets the
\* worker go on with it: then two workers share a range and nothing of what
\* follows holds.
OneOwner == "reduce_workers" \notin Features

DiskWorks == "disk" \notin Features

\* No worker dies: writes succeed and failures stay within the retry limit.
WorkersSurvive ==
  /\ DiskWorks
  /\ \/ "network" \notin Features
     \/ "abort" \notin Features /\ MaxFaults <= MaxRetries

\* A worker stopped by the scaler drops what it prefetched.
NothingDropped == "prefetch" \notin Features \/ "scale_down" \notin Features

-----------------------------------------------------------------------------
(* The inductive invariant. *)

Unowning == {"unborn", "asking", "closing", "gone"}
Loading == {"opening", "frame", "received", "fetching", "collected"}
Flushing == {"flush_end", "flush_partial", "flush_halt", "flush_stop"}

\* The local state w of the worker of connection c agrees with its write
\* buffer, with the table t and with the halt flag.
Fits(c, w, pending, t, halt) ==
  /\ w.phase \in Unowning => w.range = 0 /\ w.prefetched = 0
  /\ w.phase \in {"granted"} \cup Loading \cup Flushing => w.range # 0
  /\ w.phase = "fetching" => w.prefetched = 0
  /\ w.range # 0 => w.range # w.prefetched
  /\ \A i \in {w.range, w.prefetched} \ {0} :
       t[i].assigned_to = c /\ t[i].status = "ACTIVE"
  /\ w.range # 0 /\ w.phase # "granted" => w.cursor = t[w.range].cursor
  /\ w.phase \in Loading =>
       w.start <= w.cursor /\ w.cursor <= w.body_end /\ t[w.range].end <= w.body_end
  /\ w.phase = "flush_end" \/ (w.phase \in {"received", "fetching", "collected"} /\ w.clipped) =>
       t[w.range].end <= w.cursor
  /\ pending # {} =>
       w.phase \in (Loading \ {"opening"}) \cup Flushing /\ w.start < w.cursor
  /\ w.phase = "flush_halt" => halt
  /\ w.phase = "exit" => halt \/ (w.range = 0 /\ w.prefetched = 0)

WorkersFit ==
  \A c \in Connections : Fits(c, worker[c], writer[c].pending, dl_ranges, halted)

\* The scaler leaves at a halt or at the last byte; a verdict comes after
\* everybody left.
RunInv ==
  /\ ~scaler_running /\ ~halted => global_downloaded >= Total
  /\ outcome # "running" => ~scaler_running /\ Live = {}
  /\ outcome = "completed" => global_downloaded >= Total

TInv ==
  /\ TypeOK
  /\ Table!IInv
  /\ WorkersFit
  /\ RunInv
  /\ CounterMatchesTable

\* What every step does, beside keeping the invariant.
NoByteLost ==
  Table!Fetched \subseteq Kept =>
    \/ Table!Fetched' \subseteq Kept'
    \/ \E c \in Connections : writer'[c].dead

Sound == TInv' /\ [Table!Next]_(Table!vars) /\ NoByteLost

-----------------------------------------------------------------------------
(* The table, seen from a worker. *)

\* The cells are those of the table's own module.
LEMMA TableTypes ==
  ASSUME Table!IInv
  PROVE  /\ dl_ranges \in Seq(Table!ActiveRange) /\ Len(dl_ranges) \in Nat
         /\ Total \in Nat /\ Total > 0
         /\ halted \in BOOLEAN
         /\ \A i \in DOMAIN dl_ranges :
              /\ dl_ranges[i] \in Table!ActiveRange
              /\ dl_ranges[i].byte_start \in Nat /\ dl_ranges[i].cursor \in Nat
              /\ dl_ranges[i].end \in Nat
              /\ dl_ranges[i].byte_start <= dl_ranges[i].cursor
              /\ dl_ranges[i].cursor <= dl_ranges[i].end
              /\ dl_ranges[i].end <= Total
<1>1. Total \in Nat /\ Total > 0
  BY TableAssumption DEF Table!CoordinatorAssumption
<1>2. dl_ranges \in Seq(Table!ActiveRange) /\ halted \in BOOLEAN
  BY DEF Table!IInv, Table!TypeOK
<1>3. \A i \in DOMAIN dl_ranges :
        /\ dl_ranges[i].byte_start <= dl_ranges[i].cursor
        /\ dl_ranges[i].cursor <= dl_ranges[i].end
        /\ dl_ranges[i].end <= Total
  BY DEF Table!IInv, Table!CursorInsideRange, Table!Index
<1>4. Len(dl_ranges) \in Nat /\ \A i \in DOMAIN dl_ranges : dl_ranges[i] \in Table!ActiveRange
  BY <1>2
<1>5. \A r \in Table!ActiveRange : r.byte_start \in Nat /\ r.cursor \in Nat /\ r.end \in Nat
  BY DEF Table!ActiveRange
<1>6. QED
  BY <1>1, <1>2, <1>3, <1>4, <1>5

\* And so they are after a step.
LEMMA TableTypesNext ==
  ASSUME Table!IInv'
  PROVE  /\ Len(dl_ranges') \in Nat /\ DOMAIN dl_ranges' = 1..Len(dl_ranges')
         /\ \A i \in DOMAIN dl_ranges' :
              /\ dl_ranges'[i].cursor \in Nat /\ dl_ranges'[i].end \in Nat
              /\ dl_ranges'[i].cursor <= dl_ranges'[i].end
              /\ dl_ranges'[i].end <= Total
<1>1. (Table!IInv =>
         /\ dl_ranges \in Seq(Table!ActiveRange) /\ Len(dl_ranges) \in Nat
         /\ \A i \in DOMAIN dl_ranges :
              /\ dl_ranges[i] \in Table!ActiveRange
              /\ dl_ranges[i].byte_start \in Nat /\ dl_ranges[i].cursor \in Nat
              /\ dl_ranges[i].end \in Nat
              /\ dl_ranges[i].byte_start <= dl_ranges[i].cursor
              /\ dl_ranges[i].cursor <= dl_ranges[i].end
              /\ dl_ranges[i].end <= Total)'
  BY TableTypes, PTL
<1>2. QED
  BY <1>1

\* A range that connections other than c are downloading, and how little a
\* step may do to it.
Undisturbed(j) ==
  /\ dl_ranges'[j].cursor = dl_ranges[j].cursor
  /\ dl_ranges'[j].assigned_to = dl_ranges[j].assigned_to
  /\ dl_ranges'[j].status = dl_ranges[j].status
  /\ dl_ranges'[j].end <= dl_ranges[j].end

\* A step of the table on behalf of connection c.
TableStep(c) ==
  /\ [Table!Next]_(Table!vars)
  /\ Table!IInv'
  /\ Len(dl_ranges) <= Len(dl_ranges')
  /\ \A j \in DOMAIN dl_ranges :
       dl_ranges[j].status = "ACTIVE" /\ dl_ranges[j].assigned_to # c => Undisturbed(j)
  /\ halted' = halted

\* No step of the table: nothing is disturbed.
LEMMA TableRests ==
  ASSUME Table!IInv, NEW c, UNCHANGED table
  PROVE  TableStep(c) /\ Table!Fetched' = Table!Fetched
<1>1. UNCHANGED Table!vars
  BY DEF table, Table!vars
<1>2. Table!IInv'
  BY <1>1, TableAssumption, Table!StepInvariant
<1>3. Table!Fetched' = Table!Fetched
  BY DEF table, Table!Fetched, Table!ReadIn, Table!Byte
<1>4. Len(dl_ranges) <= Len(dl_ranges')
  BY TableTypes DEF table
<1>5. \A j \in DOMAIN dl_ranges : Undisturbed(j)
  BY TableTypes DEF Undisturbed, table
<1>6. QED
  BY <1>1, <1>2, <1>3, <1>4, <1>5 DEF TableStep, table

\* The owner of a range finishes it.
LEMMA MarkFinishedEffect ==
  ASSUME Table!IInv, NEW c, NEW i \in DOMAIN dl_ranges, MarkFinished(i),
         dl_ranges[i].assigned_to = c, dl_ranges[i].status = "ACTIVE",
         dl_ranges[i].end <= dl_ranges[i].cursor
  PROVE  /\ TableStep(c) /\ Table!Fetched' = Table!Fetched
         /\ Len(dl_ranges') = Len(dl_ranges)
         /\ dl_ranges'[i].status = "FINISHED"
         /\ \A j \in DOMAIN dl_ranges : j # i => dl_ranges'[j] = dl_ranges[j]
<1>1. Table!FinishRange(i)
  BY TableTypes DEF MarkFinished, Table!FinishRange
<1>2. [Table!Next]_(Table!vars)
  BY <1>1 DEF Table!Next, Table!Index
<1>3. Table!IInv'
  BY <1>2, TableAssumption, Table!StepInvariant
<1>4. Table!Fetched' = Table!Fetched
  BY <1>1, <1>3, TableAssumption, Table!OthersReadNothing DEF Table!Index
<1>5. /\ Len(dl_ranges') = Len(dl_ranges)
      /\ dl_ranges'[i].status = "FINISHED"
      /\ \A j \in DOMAIN dl_ranges : j # i => dl_ranges'[j] = dl_ranges[j]
  BY TableTypes DEF MarkFinished, Table!ActiveRange
<1>6. \A j \in DOMAIN dl_ranges : j # i => Undisturbed(j)
  BY <1>5, TableTypes DEF Undisturbed
<1>7. QED
  BY <1>2, <1>3, <1>4, <1>5, <1>6, TableTypes DEF TableStep, MarkFinished

\* The owner of a range gives it back at the cursor it has.
LEMMA RelinquishEffect ==
  ASSUME Table!IInv, NEW c, NEW i \in DOMAIN dl_ranges,
         RelinquishRange(i, dl_ranges[i].cursor),
         dl_ranges[i].assigned_to = c, dl_ranges[i].status = "ACTIVE"
  PROVE  /\ TableStep(c) /\ Table!Fetched' = Table!Fetched
         /\ Len(dl_ranges') = Len(dl_ranges)
         /\ dl_ranges'[i].status = "PENDING"
         /\ \A j \in DOMAIN dl_ranges : j # i => dl_ranges'[j] = dl_ranges[j]
<1>0. dl_ranges' = [dl_ranges EXCEPT ![i].assigned_to = Unassigned, ![i].status = "PENDING"]
  BY TableTypes DEF RelinquishRange, Restamp, Table!ActiveRange
<1>1. Table!RelinquishRange(i)
  BY <1>0 DEF RelinquishRange, Table!RelinquishRange
<1>2. [Table!Next]_(Table!vars)
  BY <1>1 DEF Table!Next, Table!Index
<1>3. Table!IInv'
  BY <1>2, TableAssumption, Table!StepInvariant
<1>4. Table!Fetched' = Table!Fetched
  BY <1>1, <1>3, TableAssumption, Table!OthersReadNothing DEF Table!Index
<1>5. /\ Len(dl_ranges') = Len(dl_ranges)
      /\ dl_ranges'[i].status = "PENDING"
      /\ \A j \in DOMAIN dl_ranges : j # i => dl_ranges'[j] = dl_ranges[j]
  <2> DEFINE rec == [dl_ranges[i] EXCEPT !.assigned_to = Unassigned, !.status = "PENDING"]
  <2>1. /\ dl_ranges \in Seq(Table!ActiveRange) /\ dl_ranges[i] \in Table!ActiveRange
        /\ dl_ranges' = [dl_ranges EXCEPT ![i] = rec]
    BY <1>0, TableTypes
  <2>2. rec.status = "PENDING"
    BY <2>1 DEF Table!ActiveRange
  <2> HIDE DEF rec
  <2>3. QED
    BY <2>1, <2>2
<1>6. \A j \in DOMAIN dl_ranges : j # i => Undisturbed(j)
  BY <1>5, TableTypes DEF Undisturbed
<1>7. QED
  BY <1>2, <1>3, <1>4, <1>5, <1>6, TableTypes DEF TableStep, RelinquishRange

\* The coordinator hands a range out.
LEMMA GrantedEffect ==
  ASSUME Table!IInv, NEW c \in Connections, NEW i \in 1..(Len(dl_ranges) + 1),
         Table!GetWork(c, i)
  PROVE  /\ TableStep(c) /\ Table!Fetched' = Table!Fetched
         /\ i \in 1..Len(dl_ranges')
         /\ dl_ranges'[i].assigned_to = c /\ dl_ranges'[i].status = "ACTIVE"
         /\ i \in DOMAIN dl_ranges => dl_ranges[i].status = "PENDING"
         /\ \A j \in DOMAIN dl_ranges : dl_ranges[j].status = "ACTIVE" => Undisturbed(j)
         /\ \A j \in 1..Len(dl_ranges') : dl_ranges'[j].status = "ACTIVE" =>
              j = i \/ (j \in DOMAIN dl_ranges /\ dl_ranges[j].status = "ACTIVE")
<1>1. [Table!Next]_(Table!vars)
  BY DEF Table!Next
<1>2. Table!IInv'
  BY <1>1, TableAssumption, Table!StepInvariant
<1>3. Table!Fetched' = Table!Fetched
  BY <1>2, TableAssumption, Table!OthersReadNothing
<1>4. /\ Len(dl_ranges) <= Len(dl_ranges') /\ i \in 1..Len(dl_ranges')
      /\ dl_ranges'[i].assigned_to = c /\ dl_ranges'[i].status = "ACTIVE"
      /\ i \in Table!Index => dl_ranges[i].status = "PENDING"
      /\ \A j \in Table!Index : dl_ranges[j].status = "ACTIVE" =>
           /\ dl_ranges'[j].cursor = dl_ranges[j].cursor
           /\ dl_ranges'[j].assigned_to = dl_ranges[j].assigned_to
           /\ dl_ranges'[j].status = "ACTIVE"
           /\ dl_ranges'[j].end <= dl_ranges[j].end
      /\ \A j \in 1..Len(dl_ranges') : dl_ranges'[j].status = "ACTIVE" =>
           j = i \/ (j \in Table!Index /\ dl_ranges[j].status = "ACTIVE")
      /\ halted' = halted
  BY TableAssumption, Table!GrantEffect
<1>5. \A j \in DOMAIN dl_ranges : dl_ranges[j].status = "ACTIVE" => Undisturbed(j)
  BY <1>4 DEF Undisturbed, Table!Index
<1>6. QED
  BY <1>1, <1>2, <1>3, <1>4, <1>5 DEF TableStep, Table!Index

\* The coordinator has nothing to hand out.
LEMMA RefusedEffect ==
  ASSUME Table!IInv, NEW c \in Connections, Table!NoWork(c)
  PROVE  /\ TableStep(c) /\ Table!Fetched' = Table!Fetched
         /\ UNCHANGED <<dl_ranges, halted>>
<1>0. UNCHANGED <<dl_ranges, halted>>
  BY DEF Table!NoWork
<1>1. [Table!Next]_(Table!vars)
  BY DEF Table!Next
<1>2. Table!IInv'
  BY <1>1, TableAssumption, Table!StepInvariant
<1>3. Table!Fetched' = Table!Fetched
  BY <1>0, <1>2, TableAssumption, Table!OthersReadNothing
<1>4. Len(dl_ranges) <= Len(dl_ranges')
  BY <1>0, TableTypes
<1>5. \A j \in DOMAIN dl_ranges : Undisturbed(j)
  BY <1>0, TableTypes DEF Undisturbed
<1>6. QED
  BY <1>0, <1>1, <1>2, <1>3, <1>4, <1>5 DEF TableStep

\* A worker moves the cursor of its range.
CursorMoves(i, new) ==
  /\ dl_ranges' = [dl_ranges EXCEPT ![i].cursor = new]
  /\ UNCHANGED <<next_unassigned_idx, borrow_cursor, halted>>

\* A piece of body moves the cursor of a range and the counter with it.
LEMMA ReceivedEffect ==
  ASSUME Table!IInv, NEW c, NEW i \in DOMAIN dl_ranges, NEW n \in Chunks, NEW new,
         dl_ranges[i].assigned_to = c, dl_ranges[i].status = "ACTIVE",
         dl_ranges[i].cursor < dl_ranges[i].end,
         new = IF dl_ranges[i].cursor + n < dl_ranges[i].end
               THEN dl_ranges[i].cursor + n ELSE dl_ranges[i].end,
         CursorMoves(i, new)
  PROVE  /\ TableStep(c)
         /\ new \in Nat /\ dl_ranges[i].cursor < new /\ new <= Total
         /\ new <= dl_ranges[i].end
         /\ dl_ranges'[i] = [dl_ranges[i] EXCEPT !.cursor = new]
         /\ Len(dl_ranges') = Len(dl_ranges)
         /\ \A j \in DOMAIN dl_ranges : j # i => dl_ranges'[j] = dl_ranges[j]
         /\ Table!Fetched' = Table!Fetched \cup Between(dl_ranges[i].cursor, new)
         /\ Table!SnapshotDownloaded'
              = Table!SnapshotDownloaded + (new - dl_ranges[i].cursor)
<1> DEFINE from == dl_ranges[i].cursor
           end == dl_ranges[i].end
<1>0. /\ dl_ranges' = [dl_ranges EXCEPT ![i].cursor = new]
      /\ UNCHANGED <<next_unassigned_idx, borrow_cursor, halted>>
  BY DEF CursorMoves
<1>1. /\ from \in Nat /\ end \in Nat /\ end <= Total /\ from < end
      /\ n \in Nat /\ n > 0 /\ Total \in Nat
  BY TableTypes, TableAssumption DEF Table!CoordinatorAssumption
<1>2. new \in Nat /\ from < new /\ new <= end /\ new <= Total
  BY <1>1
<1>3. new = from + (IF n < end - from THEN n ELSE end - from)
  BY <1>1
<1>4. Table!Advance(i, n)
  <2>1. Table!Remaining(dl_ranges[i]) = end - from /\ end - from > 0
    BY <1>1 DEF Table!Remaining
  <2>2. dl_ranges' = [dl_ranges EXCEPT ![i].cursor =
                        @ + (IF n < Table!Remaining(dl_ranges[i])
                             THEN n ELSE Table!Remaining(dl_ranges[i]))]
    BY <1>0, <1>3, <2>1
  <2>3. QED
    BY <1>0, <2>1, <2>2 DEF Table!Advance
<1>5. [Table!Next]_(Table!vars)
  BY <1>4 DEF Table!Next, Table!Index
<1>6. Table!IInv'
  BY <1>5, TableAssumption, Table!StepInvariant
<1>7. /\ Len(dl_ranges') = Len(dl_ranges)
      /\ dl_ranges'[i] = [dl_ranges[i] EXCEPT !.cursor = new]
      /\ \A j \in DOMAIN dl_ranges : j # i => dl_ranges'[j] = dl_ranges[j]
  <2> DEFINE rec == [dl_ranges[i] EXCEPT !.cursor = new]
  <2>1. /\ dl_ranges \in Seq(Table!ActiveRange)
        /\ dl_ranges' = [dl_ranges EXCEPT ![i] = rec]
    BY <1>0, TableTypes
  <2> HIDE DEF rec
  <2>2. Len(dl_ranges') = Len(dl_ranges) /\ dl_ranges'[i] = rec
        /\ \A j \in DOMAIN dl_ranges : j # i => dl_ranges'[j] = dl_ranges[j]
    BY <2>1
  <2>3. QED
    BY <2>2 DEF rec
<1>8. dl_ranges'[i].cursor = new
  BY <1>7, TableTypes DEF Table!ActiveRange
<1>9. Table!Fetched' = Table!Fetched \cup Between(from, new)
  <2>1. \A b \in Table!Byte :
          b \in Table!Fetched' <=> b \in Table!Fetched \/ (from <= b /\ b < new)
    BY <1>4, <1>8, TableAssumption, Table!AdvanceReads DEF Table!Index
  <2>2. Table!Fetched' \subseteq Table!Byte /\ Table!Fetched \subseteq Table!Byte
    BY DEF Table!Fetched, Table!ReadIn, Table!Byte
  <2>3. Table!Byte = Byte
    BY DEF Table!Byte, Byte
  <2>4. QED
    BY <2>1, <2>2, <2>3 DEF Between
<1>10. Table!SnapshotDownloaded' = Table!SnapshotDownloaded + (new - from)
  BY <1>4, <1>6, <1>8, TableAssumption, Table!AdvanceCounts DEF Table!Index
<1>11. \A j \in DOMAIN dl_ranges : j # i => Undisturbed(j)
  BY <1>7, TableTypes DEF Undisturbed
<1>12. QED
  BY <1>0, <1>2, <1>5, <1>6, <1>7, <1>9, <1>10, <1>11, TableTypes DEF TableStep

\* The counter stands still when nothing is read.
LEMMA CounterKept ==
  ASSUME CounterMatchesTable, Table!IInv, Table!IInv', Table!Fetched' = Table!Fetched,
         UNCHANGED global_downloaded
  PROVE  CounterMatchesTable'
<1>1. Table!SnapshotDownloaded' = Table!SnapshotDownloaded
  BY TableAssumption, Table!CountKept
<1>2. QED
  BY <1>1 DEF CounterMatchesTable

-----------------------------------------------------------------------------
(* The writers. *)

\* The bytes on their way to the writer task.
Sent(v) == v.pending \cup UNION {v.queue[k] : k \in DOMAIN v.queue}

\* What is kept is in the file, was inherited or is on its way.
LEMMA KeptMembers ==
  ASSUME NEW b
  PROVE  b \in Kept <=> \/ b \in file \/ b \in inherited
                        \/ \E d \in Connections : b \in Sent(writer[d])
BY DEF Kept, Sent

\* And so it is after a step.
LEMMA KeptMembersNext ==
  \A x : x \in Kept' <=> \/ x \in file' \/ x \in inherited'
                         \/ \E d \in Connections : x \in Sent(writer'[d])
<1>1. ASSUME NEW b
      PROVE  b \in Kept' <=> \/ b \in file' \/ b \in inherited'
                             \/ \E d \in Connections : b \in Sent(writer'[d])
  <2>1. (b \in Kept <=> \/ b \in file \/ b \in inherited
                        \/ \E d \in Connections : b \in Sent(writer[d]))'
    BY KeptMembers, PTL
  <2>2. QED
    BY <2>1
<1>2. QED
  BY <1>1

\* As long as the same bytes are on their way, the same bytes are kept.
LEMMA SameSent ==
  ASSUME \A c \in Connections : Sent(writer'[c]) = Sent(writer[c]),
         UNCHANGED <<file, inherited>>
  PROVE  Kept' = Kept
<1>1. ASSUME NEW b PROVE b \in Kept' <=> b \in Kept
  <2>1. (b \in Kept <=> \/ b \in file \/ b \in inherited
                        \/ \E d \in Connections : b \in Sent(writer[d]))'
    BY KeptMembers, PTL
  <2>2. b \in Kept <=> \/ b \in file \/ b \in inherited
                       \/ \E d \in Connections : b \in Sent(writer[d])
    BY KeptMembers
  <2>3. QED
    BY <2>1, <2>2
<1>2. QED
  BY <1>1

\* Bytes put on their way are kept.
LEMMA MoreSent ==
  ASSUME NEW c \in Connections, NEW s, Sent(writer'[c]) = Sent(writer[c]) \cup s,
         \A d \in Connections : d # c => writer'[d] = writer[d],
         UNCHANGED <<file, inherited>>
  PROVE  Kept' = Kept \cup s
<1>1. ASSUME NEW b PROVE b \in Kept' <=> b \in Kept \cup s
  <2>1. (b \in Kept <=> \/ b \in file \/ b \in inherited
                        \/ \E d \in Connections : b \in Sent(writer[d]))'
    BY KeptMembers, PTL
  <2>2. b \in Kept <=> \/ b \in file \/ b \in inherited
                       \/ \E d \in Connections : b \in Sent(writer[d])
    BY KeptMembers
  <2>3. \A d \in Connections :
          b \in Sent(writer'[d]) <=> b \in Sent(writer[d]) \/ (d = c /\ b \in s)
    OBVIOUS
  <2>4. QED
    BY <2>1, <2>2, <2>3
<1>2. QED
  BY <1>1

\* flush_pending_write moves the buffer to the channel.
LEMMA FlushEffect ==
  ASSUME writer \in [Connections -> Writer], NEW c \in Connections, FlushPending(c)
  PROVE  /\ writer' \in [Connections -> Writer]
         /\ writer'[c].pending = {} /\ writer'[c].dead = writer[c].dead
         /\ \A d \in Connections : d # c => writer'[d] = writer[d]
         /\ \A d \in Connections : Sent(writer'[d]) = Sent(writer[d])
<1> DEFINE w == writer[c]
<1>1. CASE w.pending = {} /\ UNCHANGED writer
  BY <1>1
<1>2. CASE writer' = [writer EXCEPT ![c] =
             [w EXCEPT !.pending = {}, !.queue = Append(@, w.pending)]]
  <2> DEFINE v == [w EXCEPT !.pending = {}, !.queue = Append(@, w.pending)]
  <2>1. w \in Writer /\ w.queue \in Seq(SUBSET Byte) /\ w.pending \in SUBSET Byte
    BY DEF Writer
  <2>2. /\ v.pending = {} /\ v.queue = Append(w.queue, w.pending) /\ v.dead = w.dead
        /\ v \in Writer
    <3>1. Append(w.queue, w.pending) \in Seq(SUBSET Byte)
      BY <2>1
    <3> DEFINE q == Append(w.queue, w.pending)
    <3> HIDE DEF q
    <3>2. [w EXCEPT !.pending = {}, !.queue = q] \in Writer
      BY <2>1, <3>1 DEF Writer, q
    <3>3. v = [w EXCEPT !.pending = {}, !.queue = q]
      BY <2>1 DEF q, Writer
    <3>4. QED
      BY <2>1, <3>2, <3>3 DEF Writer, q
  <2>3. writer' = [writer EXCEPT ![c] = v]
    BY <1>2
  <2> HIDE DEF v
  <2>4. Sent(v) = Sent(w)
    <3> DEFINE q == w.queue
               r == Append(q, w.pending)
    <3>1. /\ q \in Seq(SUBSET Byte) /\ Len(q) \in Nat
          /\ DOMAIN q = 1..Len(q) /\ DOMAIN r = 1..(Len(q) + 1)
          /\ r[Len(q) + 1] = w.pending
          /\ \A k \in 1..Len(q) : r[k] = q[k]
      BY <2>1
    <3>2. UNION {r[k] : k \in DOMAIN r} = w.pending \cup UNION {q[k] : k \in DOMAIN q}
      <4>1. \A k \in 1..(Len(q) + 1) : k \in 1..Len(q) \/ k = Len(q) + 1
        BY <3>1
      <4>2. Len(q) + 1 \in 1..(Len(q) + 1) /\ \A k \in 1..Len(q) : k \in 1..(Len(q) + 1)
        BY <3>1
      <4> HIDE DEF q, r
      <4>3. QED
        BY <3>1, <4>1, <4>2
    <3>3. QED
      BY <2>2, <3>2 DEF Sent
  <2>5. QED
    BY <2>2, <2>3, <2>4
<1>3. QED
  BY <1>1, <1>2 DEF FlushPending

-----------------------------------------------------------------------------
(* The workers. *)

\* The fields of a worker are those of its type.
LEMMA WorkerFields ==
  ASSUME NEW w \in Worker, Len(dl_ranges) \in Nat
  PROVE  /\ w.phase \in Phase
         /\ w.range \in Nat /\ w.range <= Len(dl_ranges)
         /\ w.prefetched \in Nat /\ w.prefetched <= Len(dl_ranges)
         /\ w.cursor \in 0..Total /\ w.start \in 0..Total /\ w.body_end \in 0..Total
         /\ w.clipped \in BOOLEAN /\ w.failures \in 0..MaxRetries
         /\ w.exhausted \in BOOLEAN /\ w.stop \in BOOLEAN
BY DEF Worker, Slot

\* The table only grows: what indexed it still does.
LEMMA WorkerTypeGrows ==
  ASSUME NEW w \in Worker, Len(dl_ranges) \in Nat, Len(dl_ranges') \in Nat,
         Len(dl_ranges) <= Len(dl_ranges')
  PROVE  w \in Worker'
<1>1. Slot \subseteq Slot'
  BY DEF Slot
<1>2. QED
  BY <1>1 DEF Worker, Phase

\* The ranges a worker holds are ranges of the table, active and its own.
LEMMA HeldRanges ==
  ASSUME Table!IInv, NEW c, NEW w \in Worker, NEW pending,
         Fits(c, w, pending, dl_ranges, halted)
  PROVE  \A i \in {w.range, w.prefetched} \ {0} :
           /\ i \in DOMAIN dl_ranges
           /\ dl_ranges[i].assigned_to = c /\ dl_ranges[i].status = "ACTIVE"
<1>1. Len(dl_ranges) \in Nat /\ DOMAIN dl_ranges = 1..Len(dl_ranges)
  BY TableTypes
<1>2. w.range \in 0..Len(dl_ranges) /\ w.prefetched \in 0..Len(dl_ranges)
  BY <1>1, WorkerFields
<1>3. QED
  BY <1>1, <1>2 DEF Fits

\* What connection c does to the table leaves the other workers right.
LEMMA FitsElsewhere ==
  ASSUME Table!IInv, NEW c \in Connections, TableStep(c),
         NEW d \in Connections, d # c, NEW w \in Worker, NEW pending,
         Fits(d, w, pending, dl_ranges, halted)
  PROVE  Fits(d, w, pending, dl_ranges', halted')
<1>1. \A i \in {w.range, w.prefetched} \ {0} : i \in DOMAIN dl_ranges /\ Undisturbed(i)
  BY HeldRanges DEF TableStep
<1>2. halted' = halted
  BY DEF TableStep
<1>3. w.cursor \in Nat /\ w.body_end \in Nat
  BY TableTypes, WorkerFields
<1>4. \A i \in DOMAIN dl_ranges : dl_ranges[i].end \in Nat
  BY TableTypes
<1>5. /\ Len(dl_ranges') \in Nat /\ DOMAIN dl_ranges' = 1..Len(dl_ranges')
      /\ \A i \in DOMAIN dl_ranges' : dl_ranges'[i].end \in Nat
  BY TableTypesNext DEF TableStep
<1>6. \A i \in DOMAIN dl_ranges : dl_ranges'[i].end \in Nat
  <2>1. DOMAIN dl_ranges \subseteq DOMAIN dl_ranges'
    BY <1>5, TableTypes DEF TableStep
  <2>2. QED
    BY <1>5, <2>1 DEF TableStep
<1>7. \A i \in {w.range, w.prefetched} \ {0} :
        /\ dl_ranges'[i].cursor = dl_ranges[i].cursor
        /\ dl_ranges'[i].assigned_to = dl_ranges[i].assigned_to
        /\ dl_ranges'[i].status = dl_ranges[i].status
        /\ dl_ranges'[i].end <= dl_ranges[i].end
        /\ dl_ranges'[i].end \in Nat /\ dl_ranges[i].end \in Nat
  BY <1>1, <1>4, <1>6 DEF Undisturbed
<1>8. w.range # 0 =>
        /\ dl_ranges'[w.range].cursor = dl_ranges[w.range].cursor
        /\ dl_ranges[w.range].end <= w.body_end => dl_ranges'[w.range].end <= w.body_end
        /\ dl_ranges[w.range].end <= w.cursor => dl_ranges'[w.range].end <= w.cursor
  BY <1>3, <1>7
<1>9. w.phase \in Loading \cup {"flush_end"} => w.range # 0
  BY DEF Fits, Loading, Flushing
<1>10. w.phase \in {"received", "fetching", "collected"} => w.phase \in Loading
  BY DEF Loading
<1>11. QED
  BY <1>2, <1>7, <1>8, <1>9, <1>10 DEF Fits

\* One worker moves, and the others stay right.
LEMMA WorkersMove ==
  ASSUME Table!IInv, worker \in [Connections -> Worker], WorkersFit,
         NEW c \in Connections, NEW w, Become(c, w), w \in Worker',
         TableStep(c),
         \A d \in Connections : d # c => writer'[d].pending = writer[d].pending,
         Fits(c, w, writer'[c].pending, dl_ranges', halted')
  PROVE  worker' \in [Connections -> Worker'] /\ WorkersFit'
<1>1. /\ worker'[c] = w
      /\ \A d \in Connections : d # c => worker'[d] = worker[d]
      /\ worker' = [worker EXCEPT ![c] = w]
  BY DEF Become
<1>2. Len(dl_ranges') \in Nat
  BY TableTypesNext DEF TableStep
<1>3. \A d \in Connections : worker[d] \in Worker'
  BY <1>2, TableTypes, WorkerTypeGrows DEF TableStep
<1>4. worker' \in [Connections -> Worker']
  <2> DEFINE W == Worker'
  <2> HIDE DEF W
  <2>1. w \in W /\ \A d \in Connections : worker[d] \in W
    BY <1>3 DEF W
  <2>2. worker' \in [Connections -> W]
    BY <1>1, <2>1
  <2>3. QED
    BY <2>2 DEF W
<1>5. ASSUME NEW d \in Connections
      PROVE  Fits(d, worker'[d], writer'[d].pending, dl_ranges', halted')
  <2>1. CASE d = c
    BY <1>1, <2>1
  <2>2. CASE d # c
    <3>1. Fits(d, worker[d], writer[d].pending, dl_ranges, halted)
      BY DEF WorkersFit
    <3>2. Fits(d, worker[d], writer[d].pending, dl_ranges', halted')
      BY <2>2, <3>1, FitsElsewhere
    <3>3. QED
      BY <1>1, <2>2, <3>2
  <2>3. QED
    BY <2>1, <2>2
<1>6. QED
  BY <1>4, <1>5 DEF WorkersFit

\* Somebody who has not left keeps the run going.
LEMMA RunGoesOn ==
  ASSUME RunInv, NEW c \in Connections, worker[c].phase \notin {"unborn", "gone"},
         UNCHANGED <<scaler_running, outcome, halted>>,
         global_downloaded \in Nat, global_downloaded' \in Nat,
         global_downloaded <= global_downloaded', Total \in Nat
  PROVE  RunInv' /\ outcome = "running"
<1>1. outcome = "running"
  BY DEF RunInv, Live
<1>2. QED
  BY <1>1 DEF RunInv

\* What it takes for a step of one worker to be sound.
LEMMA WorkerActs ==
  ASSUME TInv, NEW c \in Connections, worker[c].phase \notin {"unborn", "gone"},
         NEW w, Become(c, w), w \in Worker',
         TableStep(c),
         writer' \in [Connections -> Writer],
         \A d \in Connections : d # c => writer'[d].pending = writer[d].pending,
         Fits(c, w, writer'[c].pending, dl_ranges', halted'),
         CounterMatchesTable',
         global_downloaded' \in Nat, global_downloaded <= global_downloaded',
         UNCHANGED <<file, task>>, faults' \in 0..MaxFaults,
         NoByteLost
  PROVE  Sound
<1>1. worker' \in [Connections -> Worker'] /\ WorkersFit'
  BY WorkersMove DEF TInv, TypeOK
<1>2. RunInv'
  BY RunGoesOn, TableTypes DEF TInv, TypeOK, task, TableStep
<1>3. Table!IInv' /\ [Table!Next]_(Table!vars)
  BY DEF TableStep
<1>4. Table!TypeOK'
  BY <1>3 DEF Table!IInv
<1>5. TypeOK'
  BY <1>1, <1>4 DEF TInv, TypeOK, task, Writer, Byte
<1>6. QED
  BY <1>1, <1>2, <1>3, <1>5 DEF TInv, Sound

\* A step that reads nothing and drops nothing keeps what was kept.
LEMMA NothingLost ==
  ASSUME Table!Fetched' = Table!Fetched, Kept' = Kept
  PROVE  NoByteLost
BY DEF NoByteLost

\* A step of one worker that reads nothing and leaves the same bytes on their
\* way to the writers.
LEMMA ReadsNothing ==
  ASSUME TInv, NEW c \in Connections, worker[c].phase \notin {"unborn", "gone"},
         NEW w, Become(c, w), w \in Worker',
         TableStep(c), Table!Fetched' = Table!Fetched,
         writer' \in [Connections -> Writer],
         \A d \in Connections : d # c => writer'[d] = writer[d],
         \A d \in Connections : Sent(writer'[d]) = Sent(writer[d]),
         Fits(c, w, writer'[c].pending, dl_ranges', halted'),
         UNCHANGED <<file, global_downloaded, task>>, faults' \in 0..MaxFaults
  PROVE  Sound
<1>1. Kept' = Kept
  BY SameSent DEF task
<1>2. NoByteLost
  BY <1>1, NothingLost
<1>3. CounterMatchesTable'
  BY CounterKept DEF TInv, TableStep
<1>4. global_downloaded' \in Nat /\ global_downloaded <= global_downloaded'
  BY DEF TInv, TypeOK
<1>5. QED
  BY <1>2, <1>3, <1>4, WorkerActs

\* A step of one worker that touches nothing but its local state.
LEMMA QuietActs ==
  ASSUME TInv, NEW c \in Connections, worker[c].phase \notin {"unborn", "gone"},
         NEW w \in Worker, Become(c, w),
         UNCHANGED <<table, writer, file, global_downloaded, task>>,
         faults' \in 0..MaxFaults,
         Fits(c, w, writer[c].pending, dl_ranges, halted)
  PROVE  Sound
<1>1. TableStep(c) /\ Table!Fetched' = Table!Fetched
  BY TableRests DEF TInv
<1>2. w \in Worker'
  BY <1>1, TableTypes, TableTypesNext, WorkerTypeGrows DEF TInv, TableStep
<1>3. Fits(c, w, writer'[c].pending, dl_ranges', halted')
  BY DEF table
<1>4. writer' \in [Connections -> Writer]
  BY DEF TInv, TypeOK
<1>5. QED
  BY <1>1, <1>2, <1>3, <1>4, ReadsNothing

\* A step of one worker that flushes its buffer.
LEMMA FlushActs ==
  ASSUME TInv, NEW c \in Connections, worker[c].phase \notin {"unborn", "gone"},
         NEW w \in Worker, Become(c, w), FlushPending(c),
         TableStep(c), Table!Fetched' = Table!Fetched,
         UNCHANGED <<file, global_downloaded, task, faults>>,
         Fits(c, w, {}, dl_ranges', halted')
  PROVE  Sound
<1>1. w \in Worker'
  BY TableTypes, TableTypesNext, WorkerTypeGrows DEF TInv, TableStep
<1>2. /\ writer' \in [Connections -> Writer]
      /\ writer'[c].pending = {}
      /\ \A d \in Connections : d # c => writer'[d] = writer[d]
      /\ \A d \in Connections : Sent(writer'[d]) = Sent(writer[d])
  BY FlushEffect DEF TInv, TypeOK
<1>3. faults' \in 0..MaxFaults
  BY DEF TInv, TypeOK
<1>4. QED
  BY <1>1, <1>2, <1>3, ReadsNothing

-----------------------------------------------------------------------------
(* The head of the loop, action by action. *)

\* What the invariant says of one worker.
LEMMA WorkerFacts ==
  ASSUME TInv, NEW c \in Connections
  PROVE  /\ worker[c] \in Worker /\ Len(dl_ranges) \in Nat
         /\ Fits(c, worker[c], writer[c].pending, dl_ranges, halted)
         /\ faults \in 0..MaxFaults
         /\ writer[c] \in Writer
         /\ 0 \in Slot /\ 0 \in 0..Total /\ 0 \in 0..MaxRetries
<1>1. 0 \in Slot /\ 0 \in 0..Total /\ 0 \in 0..MaxRetries
  BY TableTypes, TransferAssumption DEF TInv, Slot
<1>2. QED
  BY <1>1, TableTypes DEF TInv, TypeOK, WorkersFit

\* What a worker holds is in the table, active and its own.
LEMMA OwnRanges ==
  ASSUME TInv, NEW c \in Connections
  PROVE  /\ worker[c].range # 0 =>
              /\ worker[c].range \in DOMAIN dl_ranges
              /\ dl_ranges[worker[c].range].assigned_to = c
              /\ dl_ranges[worker[c].range].status = "ACTIVE"
         /\ worker[c].prefetched # 0 =>
              /\ worker[c].prefetched \in DOMAIN dl_ranges
              /\ dl_ranges[worker[c].prefetched].assigned_to = c
              /\ dl_ranges[worker[c].prefetched].status = "ACTIVE"
<1>1. /\ Table!IInv /\ worker[c] \in Worker
      /\ Fits(c, worker[c], writer[c].pending, dl_ranges, halted)
  BY WorkerFacts DEF TInv
<1>2. \A i \in {worker[c].range, worker[c].prefetched} \ {0} :
           /\ i \in DOMAIN dl_ranges
           /\ dl_ranges[i].assigned_to = c /\ dl_ranges[i].status = "ACTIVE"
  BY <1>1, HeldRanges
<1>3. QED
  BY <1>2

\* Leaving the loop at a halt.
LEMMA LeaveHaltedSound ==
  ASSUME TInv, NEW c \in Connections, LeaveHalted(c)
  PROVE  Sound
<1> DEFINE w == [worker[c] EXCEPT !.phase = "exit"]
<1>1. w \in Worker
  BY WorkerFacts DEF Worker, Phase
<1>2. worker[c].phase = "top" /\ halted
  BY DEF LeaveHalted, At
<1>3. Fits(c, w, writer[c].pending, dl_ranges, halted)
  BY <1>2, WorkerFacts DEF Fits, Worker, Loading, Flushing, Unowning
<1>4. Become(c, w)
  BY DEF LeaveHalted, Go
<1>5. QED
  BY <1>1, <1>2, <1>3, <1>4, QuietActs, WorkerFacts DEF LeaveHalted

\* A prefetched range becomes the current one.
LEMMA TakePrefetchedSound ==
  ASSUME TInv, NEW c \in Connections, TakePrefetched(c)
  PROVE  Sound
<1> DEFINE w == [worker[c] EXCEPT !.phase = "granted", !.range = worker[c].prefetched,
                                  !.prefetched = 0, !.failures = 0]
<1>1. w \in Worker
  BY WorkerFacts DEF Worker, Phase
<1>2. worker[c].phase = "top" /\ worker[c].range = 0 /\ worker[c].prefetched # 0
  BY DEF TakePrefetched, At
<1>3. Fits(c, w, writer[c].pending, dl_ranges, halted)
  BY <1>2, WorkerFacts DEF Fits, Worker, Loading, Flushing, Unowning
<1>4. Become(c, w)
  BY DEF TakePrefetched
<1>5. QED
  BY <1>1, <1>2, <1>3, <1>4, QuietActs, WorkerFacts DEF TakePrefetched

\* Asking for a range.
LEMMA AskForWorkSound ==
  ASSUME TInv, NEW c \in Connections, AskForWork(c)
  PROVE  Sound
<1> DEFINE w == [worker[c] EXCEPT !.phase = "asking"]
<1>1. w \in Worker
  BY WorkerFacts DEF Worker, Phase
<1>2. worker[c].phase = "top" /\ worker[c].range = 0 /\ worker[c].prefetched = 0
  BY DEF AskForWork, At, Owned
<1>3. Fits(c, w, writer[c].pending, dl_ranges, halted)
  BY <1>2, WorkerFacts DEF Fits, Worker, Loading, Flushing, Unowning
<1>4. Become(c, w)
  BY DEF AskForWork, Go
<1>5. QED
  BY <1>1, <1>2, <1>3, <1>4, QuietActs, WorkerFacts DEF AskForWork

\* A worker about to request a range: it is its own, at the cursor of the table.
LEMMA MayRequestFacts ==
  ASSUME TInv, NEW c \in Connections, MayRequest(c)
  PROVE  /\ worker[c].phase \in {"top", "granted"} /\ worker[c].range # 0
         /\ worker[c].range # worker[c].prefetched
         /\ worker[c].range \in DOMAIN dl_ranges
         /\ dl_ranges[worker[c].range].assigned_to = c
         /\ dl_ranges[worker[c].range].status = "ACTIVE"
         /\ StartByte(c) = dl_ranges[worker[c].range].cursor
         /\ writer[c].pending = {}
<1>1. Fits(c, worker[c], writer[c].pending, dl_ranges, halted)
  BY WorkerFacts
<1>2. worker[c].phase \in {"top", "granted"}
  BY DEF MayRequest, At
<1>3. worker[c].range # 0
  BY <1>1 DEF MayRequest, At, Fits
<1>4. /\ worker[c].range \in DOMAIN dl_ranges
      /\ dl_ranges[worker[c].range].assigned_to = c
      /\ dl_ranges[worker[c].range].status = "ACTIVE"
  BY <1>3, OwnRanges
<1>5. StartByte(c) = dl_ranges[worker[c].range].cursor
  BY <1>1, <1>2, <1>3 DEF StartByte, At, Fits
<1>6. writer[c].pending = {}
  BY <1>1, <1>2 DEF Fits, Loading, Flushing
<1>7. QED
  BY <1>1, <1>2, <1>3, <1>4, <1>5, <1>6 DEF Fits

\* A range with nothing left is finished without a request.
LEMMA SkipEmptyRangeSound ==
  ASSUME TInv, NEW c \in Connections, SkipEmptyRange(c)
  PROVE  Sound
<1> DEFINE i == worker[c].range
           w == [worker[c] EXCEPT !.phase = "top", !.range = 0, !.cursor = 0, !.failures = 0]
<1>1. /\ MayRequest(c) /\ MarkFinished(i) /\ Become(c, w)
      /\ dl_ranges[i].end <= StartByte(c)
      /\ UNCHANGED <<writer, file, global_downloaded, task, faults>>
  <2>1. StartByte(c) >= dl_ranges[i].end => dl_ranges[i].end <= StartByte(c)
    OBVIOUS
  <2>2. QED
    BY <2>1 DEF SkipEmptyRange
<1>2. /\ worker[c].phase \in {"top", "granted"} /\ i # worker[c].prefetched
      /\ i \in DOMAIN dl_ranges
      /\ dl_ranges[i].assigned_to = c /\ dl_ranges[i].status = "ACTIVE"
      /\ StartByte(c) = dl_ranges[i].cursor
      /\ writer[c].pending = {}
  BY <1>1, MayRequestFacts
<1>3. /\ TableStep(c) /\ Table!Fetched' = Table!Fetched
      /\ \A j \in DOMAIN dl_ranges : j # i => dl_ranges'[j] = dl_ranges[j]
  BY <1>1, <1>2, MarkFinishedEffect DEF TInv
<1>4. w \in Worker
  BY WorkerFacts DEF Worker, Phase
<1>5. Fits(c, w, writer'[c].pending, dl_ranges', halted')
  <2>1. worker[c].prefetched # 0 =>
          /\ worker[c].prefetched \in DOMAIN dl_ranges
          /\ dl_ranges'[worker[c].prefetched] = dl_ranges[worker[c].prefetched]
    BY <1>2, <1>3, OwnRanges
  <2>2. writer'[c].pending = {}
    BY <1>1, <1>2
  <2>3. QED
    BY <2>1, <2>2, WorkerFacts DEF Fits, Worker, Loading, Flushing, Unowning
<1>6. w \in Worker'
  BY <1>3, <1>4, TableTypes, TableTypesNext, WorkerTypeGrows DEF TInv, TableStep
<1>7. writer' \in [Connections -> Writer] /\ faults' \in 0..MaxFaults
  BY <1>1 DEF TInv, TypeOK
<1>8. worker[c].phase \notin {"unborn", "gone"}
  BY <1>2
<1>9. /\ \A d \in Connections : d # c => writer'[d] = writer[d]
      /\ \A d \in Connections : Sent(writer'[d]) = Sent(writer[d])
  BY <1>1
<1> HIDE DEF w
<1>10. QED
  BY <1>1, <1>3, <1>5, <1>6, <1>7, <1>8, <1>9, ReadsNothing

\* The request for the rest of a range.
LEMMA SendRequestSound ==
  ASSUME TInv, NEW c \in Connections, SendRequest(c)
  PROVE  Sound
<1> DEFINE i == worker[c].range
           w == [worker[c] EXCEPT !.phase = "opening", !.cursor = StartByte(c),
                                  !.start = StartByte(c), !.body_end = dl_ranges[i].end]
<1>1. /\ MayRequest(c) /\ Become(c, w)
      /\ UNCHANGED <<table, writer, file, global_downloaded, task, faults>>
  BY DEF SendRequest
<1>2. /\ worker[c].phase \in {"top", "granted"} /\ i # 0
      /\ i \in DOMAIN dl_ranges
      /\ StartByte(c) = dl_ranges[i].cursor
      /\ writer[c].pending = {}
  BY <1>1, MayRequestFacts
<1>3. /\ dl_ranges[i].cursor \in Nat /\ dl_ranges[i].end \in Nat
      /\ dl_ranges[i].cursor <= dl_ranges[i].end /\ dl_ranges[i].end <= Total
      /\ Total \in Nat
  BY <1>2, TableTypes DEF TInv
<1>4. dl_ranges[i].cursor \in 0..Total /\ dl_ranges[i].end \in 0..Total
  BY <1>3
<1>5. w \in Worker
  BY <1>2, <1>4, WorkerFacts DEF Worker, Phase
<1>6. Fits(c, w, writer[c].pending, dl_ranges, halted)
  BY <1>2, <1>3, WorkerFacts DEF Fits, Worker, Loading, Flushing, Unowning
<1>7. faults' \in 0..MaxFaults
  BY <1>1, WorkerFacts
<1> HIDE DEF w
<1>8. QED
  BY <1>1, <1>2, <1>5, <1>6, <1>7, QuietActs

\* The answer to a request begins.
LEMMA ReceiveResponseSound ==
  ASSUME TInv, NEW c \in Connections, ReceiveResponse(c)
  PROVE  Sound
<1> DEFINE w == [worker[c] EXCEPT !.phase = "frame"]
<1>1. w \in Worker
  BY WorkerFacts DEF Worker, Phase
<1>2. worker[c].phase = "opening"
  BY DEF ReceiveResponse, At
<1>3. Fits(c, w, writer[c].pending, dl_ranges, halted)
  BY <1>2, WorkerFacts DEF Fits, Worker, Loading, Flushing, Unowning
<1>4. Become(c, w)
  BY DEF ReceiveResponse, Go
<1>5. QED
  BY <1>1, <1>2, <1>3, <1>4, QuietActs, WorkerFacts DEF ReceiveResponse

-----------------------------------------------------------------------------
(* The coordinator, action by action. *)

\* A request is answered with a range.
LEMMA GrantSound ==
  ASSUME TInv, NEW c \in Connections, Grant(c)
  PROVE  Sound
<1>1. PICK i \in 1..(Len(dl_ranges) + 1) :
        /\ Table!GetWork(c, i)
        /\ \/ /\ At(c, "asking")
              /\ Become(c, [worker[c] EXCEPT !.phase = "granted", !.range = i,
                                             !.failures = 0])
           \/ /\ At(c, "fetching")
              /\ Become(c, [worker[c] EXCEPT !.phase = "collected", !.prefetched = i])
  BY DEF Grant
<1>2. UNCHANGED <<writer, file, global_downloaded, task, faults>>
  BY DEF Grant
<1>3. /\ TableStep(c) /\ Table!Fetched' = Table!Fetched
      /\ i \in 1..Len(dl_ranges')
      /\ dl_ranges'[i].assigned_to = c /\ dl_ranges'[i].status = "ACTIVE"
      /\ i \in DOMAIN dl_ranges => dl_ranges[i].status = "PENDING"
      /\ \A j \in DOMAIN dl_ranges : dl_ranges[j].status = "ACTIVE" => Undisturbed(j)
  BY <1>1, GrantedEffect DEF TInv
<1>4. /\ i \in Slot' /\ i # 0 /\ i \in Nat /\ Len(dl_ranges') \in Nat
      /\ worker[c] \in Worker'
  <2>1. Len(dl_ranges) \in Nat /\ Len(dl_ranges') \in Nat
    BY <1>3, TableTypes, TableTypesNext DEF TInv, TableStep
  <2>2. worker[c] \in Worker'
    BY <1>3, <2>1, WorkerFacts, WorkerTypeGrows DEF TableStep
  <2>3. QED
    BY <1>3, <2>1, <2>2 DEF Slot
<1>5. /\ writer' \in [Connections -> Writer] /\ faults' \in 0..MaxFaults
      /\ \A d \in Connections : d # c => writer'[d] = writer[d]
      /\ \A d \in Connections : Sent(writer'[d]) = Sent(writer[d])
      /\ writer'[c].pending = writer[c].pending
  BY <1>2 DEF TInv, TypeOK
<1>6. CASE At(c, "asking") /\ Become(c, [worker[c] EXCEPT !.phase = "granted", !.range = i,
                                                          !.failures = 0])
  <2> DEFINE w == [worker[c] EXCEPT !.phase = "granted", !.range = i, !.failures = 0]
  <2>1. w \in Worker'
    BY <1>4, WorkerFacts DEF Worker, Phase
  <2>2. worker[c].phase = "asking"
    BY <1>6 DEF At
  <2>3. Fits(c, w, writer[c].pending, dl_ranges', halted')
    BY <1>3, <1>4, <2>2, WorkerFacts DEF Fits, Worker, Loading, Flushing, Unowning
  <2>4. Become(c, w) /\ worker[c].phase \notin {"unborn", "gone"}
    BY <1>6, <2>2
  <2> HIDE DEF w
  <2>5. QED
    BY <1>2, <1>3, <1>5, <2>1, <2>3, <2>4, ReadsNothing
<1>7. CASE At(c, "fetching") /\ Become(c, [worker[c] EXCEPT !.phase = "collected",
                                                            !.prefetched = i])
  <2> DEFINE w == [worker[c] EXCEPT !.phase = "collected", !.prefetched = i]
             r == worker[c].range
  <2>1. w \in Worker'
    BY <1>4 DEF Worker, Phase
  <2>2. worker[c].phase = "fetching"
    BY <1>7 DEF At
  <2>3. /\ r # 0 /\ r \in DOMAIN dl_ranges
        /\ dl_ranges[r].assigned_to = c /\ dl_ranges[r].status = "ACTIVE"
    <3>1. r # 0
      BY <2>2, WorkerFacts DEF Fits, Loading
    <3>2. QED
      BY <3>1, OwnRanges
  <2>4. r # i
    BY <1>3, <2>3
  <2>5. /\ dl_ranges'[r].assigned_to = c /\ dl_ranges'[r].status = "ACTIVE"
        /\ dl_ranges'[r].cursor = dl_ranges[r].cursor
        /\ dl_ranges'[r].end <= dl_ranges[r].end
    BY <1>3, <2>3 DEF Undisturbed
  <2>6. /\ dl_ranges'[r].end \in Nat /\ dl_ranges[r].end \in Nat
        /\ worker[c].cursor \in Nat /\ worker[c].body_end \in Nat
    <3>1. r \in DOMAIN dl_ranges' /\ dl_ranges[r].end \in Nat
      BY <1>3, <1>4, <2>3, TableTypes, TableTypesNext DEF TInv, TableStep
    <3>2. dl_ranges'[r].end \in Nat
      BY <1>3, <3>1, TableTypesNext DEF TableStep
    <3>3. worker[c].cursor \in Nat /\ worker[c].body_end \in Nat
      BY WorkerFacts, WorkerFields, TableTypes DEF TInv
    <3>4. QED
      BY <3>1, <3>2, <3>3
  <2>7. /\ dl_ranges[r].end <= worker[c].body_end => dl_ranges'[r].end <= worker[c].body_end
        /\ dl_ranges[r].end <= worker[c].cursor => dl_ranges'[r].end <= worker[c].cursor
    BY <2>5, <2>6
  <2>8. Fits(c, w, writer[c].pending, dl_ranges', halted')
    <3>1. /\ w.phase = "collected" /\ w.range = r /\ w.prefetched = i
          /\ w.cursor = worker[c].cursor /\ w.start = worker[c].start
          /\ w.body_end = worker[c].body_end /\ w.clipped = worker[c].clipped
      BY WorkerFacts DEF Worker
    <3> HIDE DEF w, r
    <3>2. /\ r = worker[c].range
          /\ Fits(c, worker[c], writer[c].pending, dl_ranges, halted)
      BY WorkerFacts DEF r
    <3>3. QED
      BY <1>3, <1>4, <2>2, <2>3, <2>4, <2>5, <2>7, <3>1, <3>2
      DEF Fits, Loading, Flushing, Unowning
  <2>9. Become(c, w) /\ worker[c].phase \notin {"unborn", "gone"}
    BY <1>7, <2>2
  <2> HIDE DEF w
  <2>10. QED
    BY <1>2, <1>3, <1>5, <2>1, <2>8, <2>9, ReadsNothing
<1>8. QED
  BY <1>1, <1>6, <1>7

\* A request is answered with None.
LEMMA RefuseSound ==
  ASSUME TInv, NEW c \in Connections, Refuse(c)
  PROVE  Sound
<1>1. UNCHANGED <<writer, file, global_downloaded, task, faults>>
  BY DEF Refuse
<1>2. /\ TableStep(c) /\ Table!Fetched' = Table!Fetched
      /\ UNCHANGED <<dl_ranges, halted>>
  <2>1. CASE Table!NoWork(c)
    BY <2>1, RefusedEffect DEF TInv
  <2>2. CASE UNCHANGED table
    BY <2>2, TableRests DEF TInv, table
  <2>3. QED
    BY <2>1, <2>2 DEF Refuse
<1>3. /\ writer' \in [Connections -> Writer] /\ faults' \in 0..MaxFaults
      /\ \A d \in Connections : d # c => writer'[d] = writer[d]
      /\ \A d \in Connections : Sent(writer'[d]) = Sent(writer[d])
      /\ writer'[c].pending = writer[c].pending
  BY <1>1 DEF TInv, TypeOK
<1>4. ASSUME NEW w \in Worker, Become(c, w),
             Fits(c, w, writer[c].pending, dl_ranges, halted),
             worker[c].phase \notin {"unborn", "gone"}
      PROVE  Sound
  <2>1. w \in Worker'
    BY <1>2, <1>4, TableTypes, TableTypesNext, WorkerTypeGrows DEF TInv, TableStep
  <2>2. Fits(c, w, writer'[c].pending, dl_ranges', halted')
    BY <1>2, <1>3, <1>4
  <2>3. QED
    BY <1>1, <1>2, <1>3, <1>4, <2>1, <2>2, ReadsNothing
<1>5. CASE At(c, "asking") /\ Go(c, "exit")
  <2> DEFINE w == [worker[c] EXCEPT !.phase = "exit"]
  <2>1. w \in Worker
    BY WorkerFacts DEF Worker, Phase
  <2>2. worker[c].phase = "asking"
    BY <1>5 DEF At
  <2>3. Fits(c, w, writer[c].pending, dl_ranges, halted)
    BY <2>2, WorkerFacts DEF Fits, Worker, Loading, Flushing, Unowning
  <2>4. QED
    BY <1>4, <1>5, <2>1, <2>2, <2>3 DEF Go
<1>6. CASE At(c, "fetching")
           /\ Become(c, [worker[c] EXCEPT !.phase = "collected", !.exhausted = TRUE])
  <2> DEFINE w == [worker[c] EXCEPT !.phase = "collected", !.exhausted = TRUE]
  <2>1. w \in Worker
    BY WorkerFacts DEF Worker, Phase
  <2>2. worker[c].phase = "fetching"
    BY <1>6 DEF At
  <2>3. Fits(c, w, writer[c].pending, dl_ranges, halted)
    BY <2>2, WorkerFacts DEF Fits, Worker, Loading, Flushing, Unowning
  <2>4. QED
    BY <1>4, <1>6, <2>1, <2>2, <2>3
<1>7. QED
  BY <1>5, <1>6 DEF Refuse

-----------------------------------------------------------------------------
(* Failures. *)

\* A worker that starts or has left holds nothing.
LEMMA IdleFits ==
  ASSUME TInv, NEW c, NEW p \in {"top"} \cup Unowning, NEW t, NEW halt
  PROVE  Idle(p) \in Worker /\ Fits(c, Idle(p), {}, t, halt)
<1>1. 0 \in Slot /\ 0 \in 0..Total /\ 0 \in 0..MaxRetries
  BY TableTypes, TransferAssumption DEF TInv, Slot
<1>2. Idle(p) \in Worker
  BY <1>1 DEF Idle, Worker, Phase, Unowning
<1>3. Fits(c, Idle(p), {}, t, halt)
  BY DEF Fits, Idle, Unowning, Loading, Flushing
<1>4. QED
  BY <1>2, <1>3

\* Emptying an empty buffer changes nothing.
LEMMA NothingDiscarded ==
  ASSUME writer \in [Connections -> Writer], NEW c \in Connections, writer[c].pending = {},
         writer' = [writer EXCEPT ![c].pending = {}]
  PROVE  writer' = writer
<1>1. writer[c] \in Writer /\ [writer[c] EXCEPT !.pending = {}] = writer[c]
  BY DEF Writer
<1>2. writer' = [writer EXCEPT ![c] = writer[c]]
  BY <1>1
<1>3. QED
  BY <1>2

\* handle_range_retry, when no buffered byte is at stake and no range is given
\* back to go on with.
LEMMA RetrySound ==
  ASSUME TInv, OneOwner, NEW c \in Connections, HandleRangeRetry(c),
         worker[c].phase \in {"opening", "frame"}, writer[c].pending = {},
         faults' \in 0..MaxFaults,
         UNCHANGED <<file, global_downloaded, task>>
  PROVE  Sound
<1>1. worker[c].phase \notin {"unborn", "gone"}
  OBVIOUS
<1>2. CASE Die(c) /\ UNCHANGED table
  <2>1. writer' = writer
    BY <1>2, NothingDiscarded DEF Die, TInv, TypeOK
  <2>2. Idle("gone") \in Worker /\ Fits(c, Idle("gone"), {}, dl_ranges, halted)
    BY IdleFits DEF Unowning
  <2>3. QED
    BY <1>1, <1>2, <2>1, <2>2, QuietActs DEF Die
<1>3. CASE /\ worker[c].failures < MaxRetries
           /\ Become(c, [worker[c] EXCEPT !.phase = "top", !.failures = @ + 1])
           /\ UNCHANGED <<table, writer>>
  <2> DEFINE w == [worker[c] EXCEPT !.phase = "top", !.failures = @ + 1]
  <2>1. w \in Worker
    <3>1. worker[c].failures + 1 \in 0..MaxRetries
      BY <1>3, WorkerFacts, WorkerFields, TransferAssumption
    <3>2. QED
      BY <3>1, WorkerFacts DEF Worker, Phase
  <2>2. Fits(c, w, writer[c].pending, dl_ranges, halted)
    BY WorkerFacts DEF Fits, Worker, Loading, Flushing, Unowning
  <2>3. QED
    BY <1>1, <1>3, <2>1, <2>2, QuietActs
<1>4. QED
  BY <1>2, <1>3 DEF HandleRangeRetry, OneOwner

\* The bounds of the model are respected by every fault.
LEMMA FaultCounted ==
  ASSUME TInv, NetworkFault
  PROVE  faults' \in 0..MaxFaults
BY TransferAssumption DEF TInv, TypeOK, NetworkFault

\* A request fails.
LEMMA RequestFailsSound ==
  ASSUME TInv, OneOwner, NEW c \in Connections, RequestFails(c)
  PROVE  Sound
<1>1. worker[c].phase = "opening"
  BY DEF RequestFails, At
<1>2. writer[c].pending = {}
  BY <1>1, WorkerFacts DEF Fits, Flushing
<1>3. QED
  BY <1>1, <1>2, RetrySound, FaultCounted DEF RequestFails

\* A stream breaks.
LEMMA StreamBreaksSound ==
  ASSUME TInv, OneOwner, NEW c \in Connections, StreamBreaks(c)
  PROVE  Sound
<1>1. worker[c].phase = "frame" /\ faults' \in 0..MaxFaults
  BY FaultCounted DEF StreamBreaks, At
<1>2. CASE ~MadeProgress(c) /\ HandleRangeRetry(c)
  <2>1. writer[c].pending = {}
    BY <1>1, <1>2, WorkerFacts DEF Fits, MadeProgress
  <2>2. QED
    BY <1>1, <1>2, <2>1, RetrySound DEF StreamBreaks
<1>3. CASE /\ MadeProgress(c)
           /\ Become(c, [worker[c] EXCEPT !.phase = "flush_partial", !.failures = 0])
           /\ UNCHANGED <<table, writer>>
  <2> DEFINE w == [worker[c] EXCEPT !.phase = "flush_partial", !.failures = 0]
  <2>1. w \in Worker
    BY WorkerFacts DEF Worker, Phase
  <2>2. Fits(c, w, writer[c].pending, dl_ranges, halted)
    BY <1>1, WorkerFacts DEF Fits, Worker, Loading, Flushing, Unowning
  <2>3. QED
    BY <1>1, <1>3, <2>1, <2>2, QuietActs DEF StreamBreaks
<1>4. QED
  BY <1>2, <1>3 DEF StreamBreaks

-----------------------------------------------------------------------------
(* Reading a body, action by action. *)

\* A halt seen while waiting for a piece of body.
LEMMA HaltOnFrameSound ==
  ASSUME TInv, NEW c \in Connections, HaltOnFrame(c)
  PROVE  Sound
<1> DEFINE w == [worker[c] EXCEPT !.phase = "flush_halt"]
<1>1. w \in Worker
  BY WorkerFacts DEF Worker, Phase
<1>2. worker[c].phase = "frame" /\ halted
  BY DEF HaltOnFrame, At
<1>3. Fits(c, w, writer[c].pending, dl_ranges, halted)
  BY <1>2, WorkerFacts DEF Fits, Worker, Loading, Flushing, Unowning
<1>4. Become(c, w)
  BY DEF HaltOnFrame, Go
<1>5. QED
  <2>1. faults' \in 0..MaxFaults
    BY FaultCounted DEF HaltOnFrame, TInv, TypeOK
  <2>2. QED
    BY <2>1, <1>1, <1>2, <1>3, <1>4, QuietActs, WorkerFacts DEF HaltOnFrame

\* What the piece of body that arrives does to the cursor.
LEMMA PieceFacts ==
  ASSUME TInv, NEW c \in Connections, NEW n \in Chunks,
         worker[c].phase = "frame", worker[c].cursor < worker[c].body_end,
         NEW len, len = IF n < worker[c].body_end - worker[c].cursor
                        THEN n ELSE worker[c].body_end - worker[c].cursor
  PROVE  LET i == worker[c].range
         IN  /\ i \in DOMAIN dl_ranges
             /\ dl_ranges[i].assigned_to = c /\ dl_ranges[i].status = "ACTIVE"
             /\ worker[c].cursor = dl_ranges[i].cursor
             /\ worker[c].start <= worker[c].cursor
             /\ dl_ranges[i].end <= worker[c].body_end
             /\ worker[c].cursor \in Nat /\ worker[c].start \in Nat
             /\ worker[c].body_end \in Nat /\ worker[c].body_end <= Total
             /\ dl_ranges[i].end \in Nat
             /\ len \in Nat /\ len > 0
             /\ worker[c].cursor < dl_ranges[i].end =>
                  ClippedEnd(c, len) = IF dl_ranges[i].cursor + n < dl_ranges[i].end
                                       THEN dl_ranges[i].cursor + n ELSE dl_ranges[i].end
<1> DEFINE i == worker[c].range
<1>1. /\ i # 0 /\ worker[c].cursor = dl_ranges[i].cursor
      /\ worker[c].start <= worker[c].cursor /\ dl_ranges[i].end <= worker[c].body_end
  BY WorkerFacts DEF Fits, Loading
<1>2. /\ i \in DOMAIN dl_ranges
      /\ dl_ranges[i].assigned_to = c /\ dl_ranges[i].status = "ACTIVE"
  BY <1>1, OwnRanges
<1>3. Total \in Nat /\ dl_ranges[i].end \in Nat
  BY <1>2, TableTypes DEF TInv
<1>4. /\ worker[c].cursor \in 0..Total /\ worker[c].start \in 0..Total
      /\ worker[c].body_end \in 0..Total
  BY WorkerFacts, WorkerFields
<1>5. n \in Nat /\ n > 0
  BY TableAssumption DEF Table!CoordinatorAssumption
<1>6. len \in Nat /\ len > 0
  BY <1>3, <1>4, <1>5
<1>7. ClippedEnd(c, len) = IF worker[c].cursor + len < dl_ranges[i].end
                           THEN worker[c].cursor + len ELSE dl_ranges[i].end
  BY DEF ClippedEnd
<1>8. worker[c].cursor < dl_ranges[i].end =>
        ClippedEnd(c, len) = IF worker[c].cursor + n < dl_ranges[i].end
                             THEN worker[c].cursor + n ELSE dl_ranges[i].end
  <2> DEFINE x == worker[c].cursor
             b == worker[c].body_end
             e == dl_ranges[i].end
             r == ClippedEnd(c, len)
  <2>1. /\ x \in Nat /\ b \in Nat /\ e \in Nat /\ e <= b /\ n \in Nat /\ n > 0 /\ x < b
        /\ len = IF n < b - x THEN n ELSE b - x
        /\ r = IF x + len < e THEN x + len ELSE e
    BY <1>1, <1>3, <1>4, <1>5, <1>7
  <2> HIDE DEF x, b, e, r
  <2>2. x < e => r = IF x + n < e THEN x + n ELSE e
    BY <2>1
  <2>3. QED
    BY <2>2 DEF x, e, r
<1>9. QED
  BY <1>1, <1>2, <1>3, <1>4, <1>6, <1>8

\* A piece of body is put into the buffer.
LEMMA BufferedEffect ==
  ASSUME writer \in [Connections -> Writer], NEW c \in Connections, NEW s \in SUBSET Byte,
         writer' = [writer EXCEPT ![c].pending = @ \cup s]
  PROVE  /\ writer' \in [Connections -> Writer]
         /\ writer'[c].pending = writer[c].pending \cup s
         /\ \A d \in Connections : d # c => writer'[d] = writer[d]
         /\ Sent(writer'[c]) = Sent(writer[c]) \cup s
<1> DEFINE v == [writer[c] EXCEPT !.pending = @ \cup s]
<1>1. writer[c] \in Writer /\ writer' = [writer EXCEPT ![c] = v]
  OBVIOUS
<1>2. v \in Writer /\ v.pending = writer[c].pending \cup s /\ v.queue = writer[c].queue
  BY <1>1 DEF Writer
<1> HIDE DEF v
<1>3. Sent(v) = Sent(writer[c]) \cup s
  BY <1>2 DEF Sent
<1>4. QED
  BY <1>1, <1>2, <1>3

\* A piece of n bytes takes the cursor of a worker from `from` to `new`.
Piece(c, n, from, new) ==
  LET r == dl_ranges[worker[c].range]
  IN  /\ from = worker[c].cursor /\ from = r.cursor /\ r.cursor < r.end
      /\ new = IF r.cursor + n < r.end THEN r.cursor + n ELSE r.end

\* What the piece changes.
Appends(c, from, new, clipped) ==
  /\ writer' = [writer EXCEPT ![c].pending = @ \cup Between(from, new)]
  /\ CursorMoves(worker[c].range, new)
  /\ global_downloaded' = global_downloaded + (new - from)
  /\ Become(c, [worker[c] EXCEPT !.phase = "received", !.cursor = new,
                                 !.clipped = clipped])
  /\ UNCHANGED <<file, task, faults>>

\* The counter grows by the bytes appended.
LEMMA Grows ==
  ASSUME NEW g \in Nat, NEW a \in Nat, NEW b \in Nat, a < b
  PROVE  g + (b - a) \in Nat /\ g <= g + (b - a)
OBVIOUS

\* What the table counts more is in the buffer.
LEMMA AppendSound ==
  ASSUME TInv, NEW c \in Connections, NEW n \in Chunks, NEW from, NEW new,
         NEW clipped \in BOOLEAN, worker[c].phase = "frame",
         Piece(c, n, from, new), clipped => new = dl_ranges[worker[c].range].end,
         Appends(c, from, new, clipped)
  PROVE  Sound
<1> DEFINE i == worker[c].range
           w == [worker[c] EXCEPT !.phase = "received", !.cursor = new, !.clipped = clipped]
<1>1. /\ worker[c] \in Worker /\ Fits(c, worker[c], writer[c].pending, dl_ranges, halted)
      /\ i # 0 /\ i # worker[c].prefetched
      /\ i \in DOMAIN dl_ranges
      /\ dl_ranges[i].assigned_to = c /\ dl_ranges[i].status = "ACTIVE"
      /\ worker[c].start <= worker[c].cursor /\ dl_ranges[i].end <= worker[c].body_end
      /\ worker[c].prefetched # 0 =>
           /\ worker[c].prefetched \in DOMAIN dl_ranges
           /\ dl_ranges[worker[c].prefetched].assigned_to = c
           /\ dl_ranges[worker[c].prefetched].status = "ACTIVE"
  <2>1. worker[c] \in Worker /\ Fits(c, worker[c], writer[c].pending, dl_ranges, halted)
    BY WorkerFacts
  <2>2. /\ i # 0 /\ i # worker[c].prefetched
        /\ worker[c].start <= worker[c].cursor /\ dl_ranges[i].end <= worker[c].body_end
    BY <2>1 DEF Fits, Loading
  <2>3. QED
    BY <2>1, <2>2, OwnRanges
<1>2. /\ TableStep(c)
      /\ new \in Nat /\ dl_ranges[i].cursor < new /\ new <= Total /\ new <= dl_ranges[i].end
      /\ dl_ranges'[i] = [dl_ranges[i] EXCEPT !.cursor = new]
      /\ Len(dl_ranges') = Len(dl_ranges)
      /\ \A j \in DOMAIN dl_ranges : j # i => dl_ranges'[j] = dl_ranges[j]
      /\ Table!Fetched' = Table!Fetched \cup Between(dl_ranges[i].cursor, new)
      /\ Table!SnapshotDownloaded' = Table!SnapshotDownloaded + (new - dl_ranges[i].cursor)
  <2>1. /\ dl_ranges[i].cursor < dl_ranges[i].end
        /\ new = IF dl_ranges[i].cursor + n < dl_ranges[i].end
                 THEN dl_ranges[i].cursor + n ELSE dl_ranges[i].end
    BY DEF Piece
  <2>2. CursorMoves(i, new)
    BY DEF Appends
  <2>3. Table!IInv
    BY DEF TInv
  <2> HIDE DEF i
  <2>4. QED
    BY <1>1, <2>1, <2>2, <2>3, ReceivedEffect
<1>3. from = dl_ranges[i].cursor /\ from = worker[c].cursor
  BY DEF Piece
<1>4. /\ writer' \in [Connections -> Writer]
      /\ writer'[c].pending = writer[c].pending \cup Between(from, new)
      /\ \A d \in Connections : d # c => writer'[d] = writer[d]
      /\ Sent(writer'[c]) = Sent(writer[c]) \cup Between(from, new)
  <2>1. Between(from, new) \in SUBSET Byte
    BY DEF Between
  <2>2. QED
    BY <2>1, BufferedEffect DEF TInv, TypeOK, Appends
<1>5. /\ Total \in Nat
      /\ dl_ranges[i].cursor \in Nat /\ dl_ranges[i].end \in Nat
      /\ worker[c].start \in 0..Total /\ worker[c].body_end \in 0..Total
  BY <1>1, TableTypes, WorkerFacts, WorkerFields DEF TInv
<1>6. new \in 0..Total
  BY <1>2, <1>5
<1>7. w \in Worker'
  <2>1. w \in Worker
    BY <1>1, <1>6 DEF Worker, Phase
  <2>2. QED
    BY <1>2, <2>1, WorkerFacts, WorkerTypeGrows DEF TableStep
<1>8. /\ dl_ranges'[i].assigned_to = c /\ dl_ranges'[i].status = "ACTIVE"
      /\ dl_ranges'[i].cursor = new /\ dl_ranges'[i].end = dl_ranges[i].end
  BY <1>1, <1>2, TableTypes DEF TInv, Table!ActiveRange
<1>9. /\ worker[c].start < new /\ worker[c].start <= new /\ new <= worker[c].body_end
  <2> HIDE DEF i
  <2>1. QED
    BY <1>1, <1>2, <1>3, <1>5, <1>6
<1>10. /\ w.phase = "received" /\ w.range = i /\ w.cursor = new
       /\ w.prefetched = worker[c].prefetched /\ w.start = worker[c].start
       /\ w.body_end = worker[c].body_end /\ w.clipped = clipped
  BY <1>1 DEF Worker
<1>11. Fits(c, w, writer'[c].pending, dl_ranges', halted')
  <2>1. \A j \in {i, worker[c].prefetched} \ {0} :
          dl_ranges'[j].assigned_to = c /\ dl_ranges'[j].status = "ACTIVE"
    BY <1>1, <1>2, <1>8
  <2>2. clipped => dl_ranges'[i].end <= new
    BY <1>5, <1>6, <1>8
  <2> HIDE DEF w, i
  <2>3. QED
    BY <1>1, <1>8, <1>9, <1>10, <2>1, <2>2 DEF Fits, Loading, Flushing, Unowning
<1>12. CounterMatchesTable'
  BY <1>2, <1>3 DEF TInv, CounterMatchesTable, Appends
<1>13. global_downloaded' \in Nat /\ global_downloaded <= global_downloaded'
  BY <1>2, <1>3, <1>5, Grows DEF TInv, TypeOK, Appends
<1>14. NoByteLost
  <2>1. Kept' = Kept \cup Between(from, new)
    BY <1>4, MoreSent DEF task, Appends
  <2>2. QED
    BY <1>2, <1>3, <2>1 DEF NoByteLost
<1>15. \A d \in Connections : d # c => writer'[d].pending = writer[d].pending
  BY <1>4
<1>16. /\ Become(c, w) /\ UNCHANGED <<file, task>>
       /\ faults' \in 0..MaxFaults /\ worker[c].phase \notin {"unborn", "gone"}
  BY WorkerFacts DEF Appends
<1> HIDE DEF w
<1>17. QED
  BY <1>2, <1>4, <1>7, <1>11, <1>12, <1>13, <1>14, <1>15, <1>16, WorkerActs

\* A piece of body arrives.
LEMMA ReceiveChunkSound ==
  ASSUME TInv, NEW c \in Connections, NEW n \in Chunks, ReceiveChunk(c, n)
  PROVE  Sound
<1> DEFINE Len1(x) == IF n < x THEN n ELSE x
<1>1. /\ worker[c].phase = "frame" /\ worker[c].cursor < worker[c].body_end
      /\ UNCHANGED <<file, task, faults>>
  BY DEF ReceiveChunk, At
<1>2. faults' \in 0..MaxFaults /\ worker[c].phase \notin {"unborn", "gone"}
  BY <1>1, WorkerFacts
<1>3. PICK len :
        /\ len = Len1(worker[c].body_end - worker[c].cursor)
        /\ \/ /\ worker[c].cursor >= dl_ranges[worker[c].range].end
              /\ Go(c, "flush_end")
              /\ UNCHANGED <<table, writer, global_downloaded>>
           \/ /\ worker[c].cursor < dl_ranges[worker[c].range].end
              /\ Appends(c, worker[c].cursor, ClippedEnd(c, len),
                         ClippedEnd(c, len) < worker[c].cursor + len)
  BY DEF ReceiveChunk, Appends, CursorMoves
<1>4. /\ dl_ranges[worker[c].range].end \in Nat /\ worker[c].cursor \in Nat
      /\ len \in Nat
      /\ worker[c].cursor < dl_ranges[worker[c].range].end =>
           Piece(c, n, worker[c].cursor, ClippedEnd(c, len))
  BY <1>1, <1>3, PieceFacts DEF Piece
<1>5. CASE worker[c].cursor >= dl_ranges[worker[c].range].end /\ Go(c, "flush_end")
           /\ UNCHANGED <<table, writer, global_downloaded>>
  <2> DEFINE w == [worker[c] EXCEPT !.phase = "flush_end"]
  <2>1. w \in Worker
    BY WorkerFacts DEF Worker, Phase
  <2>2. dl_ranges[worker[c].range].end <= worker[c].cursor
    BY <1>4, <1>5
  <2>3. Fits(c, w, writer[c].pending, dl_ranges, halted)
    BY <1>1, <2>2, WorkerFacts DEF Fits, Worker, Loading, Flushing, Unowning
  <2>4. Become(c, w)
    BY <1>5 DEF Go
  <2>5. QED
    BY <1>1, <1>2, <1>5, <2>1, <2>3, <2>4, QuietActs
<1>6. CASE /\ worker[c].cursor < dl_ranges[worker[c].range].end
           /\ Appends(c, worker[c].cursor, ClippedEnd(c, len),
                      ClippedEnd(c, len) < worker[c].cursor + len)
  <2>1. (ClippedEnd(c, len) < worker[c].cursor + len) \in BOOLEAN
    OBVIOUS
  <2>2. ClippedEnd(c, len) < worker[c].cursor + len =>
          ClippedEnd(c, len) = dl_ranges[worker[c].range].end
    <3>1. ClippedEnd(c, len) = IF worker[c].cursor + len < dl_ranges[worker[c].range].end
                               THEN worker[c].cursor + len
                               ELSE dl_ranges[worker[c].range].end
      BY DEF ClippedEnd
    <3>2. QED
      BY <1>4, <3>1
  <2>3. QED
    BY <1>1, <1>4, <1>6, <2>1, <2>2, AppendSound
<1>7. QED
  BY <1>3, <1>5, <1>6

\* The buffer is flushed when it reached its target.
LEMMA FlushTargetSound ==
  ASSUME TInv, NEW c \in Connections, FlushTarget(c)
  PROVE  Sound
<1>1. /\ worker[c].phase = "received" /\ FlushPending(c)
      /\ UNCHANGED <<table, worker, file, global_downloaded, task, faults>>
  BY DEF FlushTarget, At
<1>2. TableStep(c) /\ Table!Fetched' = Table!Fetched
  BY <1>1, TableRests DEF TInv
<1>3. worker[c] \in Worker /\ Fits(c, worker[c], writer[c].pending, dl_ranges, halted)
  BY WorkerFacts
<1>4. Fits(c, worker[c], {}, dl_ranges', halted')
  <2>1. Fits(c, worker[c], {}, dl_ranges, halted)
    BY <1>3 DEF Fits
  <2>2. QED
    BY <1>1, <2>1 DEF table
<1>5. Become(c, worker[c])
  BY <1>1 DEF TInv, TypeOK, Become
<1>6. QED
  BY <1>1, <1>2, <1>3, <1>4, <1>5, FlushActs

\* A halt seen after a piece.
LEMMA HaltAfterChunkSound ==
  ASSUME TInv, NEW c \in Connections, HaltAfterChunk(c)
  PROVE  Sound
<1> DEFINE w == [worker[c] EXCEPT !.phase = "flush_halt"]
<1>1. w \in Worker
  BY WorkerFacts DEF Worker, Phase
<1>2. worker[c].phase = "received" /\ halted
  BY DEF HaltAfterChunk, At
<1>3. Fits(c, w, writer[c].pending, dl_ranges, halted)
  BY <1>2, WorkerFacts DEF Fits, Worker, Loading, Flushing, Unowning
<1>4. Become(c, w)
  BY DEF HaltAfterChunk, Go
<1>5. QED
  BY <1>1, <1>2, <1>3, <1>4, QuietActs, WorkerFacts DEF HaltAfterChunk

\* The next range is asked for while this one is read.
LEMMA PrefetchSound ==
  ASSUME TInv, NEW c \in Connections, Prefetch(c)
  PROVE  Sound
<1> DEFINE w == [worker[c] EXCEPT !.phase = "fetching"]
<1>1. w \in Worker
  BY WorkerFacts DEF Worker, Phase
<1>2. worker[c].phase = "received" /\ worker[c].prefetched = 0
  BY DEF Prefetch, At
<1>3. Fits(c, w, writer[c].pending, dl_ranges, halted)
  BY <1>2, WorkerFacts DEF Fits, Worker, Loading, Flushing, Unowning
<1>4. Become(c, w)
  BY DEF Prefetch, Go
<1>5. QED
  BY <1>1, <1>2, <1>3, <1>4, QuietActs, WorkerFacts DEF Prefetch

\* After a piece: stop, leave a range that was cut, or read on.
LEMMA AfterChunkSound ==
  ASSUME TInv, NEW c \in Connections, AfterChunk(c)
  PROVE  Sound
<1> DEFINE p == IF worker[c].stop THEN "flush_stop"
                ELSE IF worker[c].clipped THEN "flush_end" ELSE "frame"
           w == [worker[c] EXCEPT !.phase = p]
<1>1. w \in Worker
  BY WorkerFacts DEF Worker, Phase
<1>2. worker[c].phase \in {"received", "collected"}
  BY DEF AfterChunk, At
<1>3. p \in {"flush_stop", "flush_end", "frame"} /\ (p = "flush_end" => worker[c].clipped)
  BY WorkerFacts, WorkerFields
<1>4. Become(c, w)
  BY DEF AfterChunk, Go
<1> HIDE DEF p
<1>5. Fits(c, w, writer[c].pending, dl_ranges, halted)
  BY <1>2, <1>3, WorkerFacts DEF Fits, Worker, Loading, Flushing, Unowning
<1>6. QED
  BY <1>1, <1>2, <1>4, <1>5, QuietActs, WorkerFacts DEF AfterChunk

\* The body ends.
LEMMA EndOfBodySound ==
  ASSUME TInv, NEW c \in Connections, EndOfBody(c)
  PROVE  Sound
<1> DEFINE p == IF worker[c].cursor >= dl_ranges[worker[c].range].end THEN "flush_end"
                ELSE IF MadeProgress(c) THEN "flush_partial" ELSE "top"
           f == IF MadeProgress(c) THEN 0 ELSE worker[c].failures
           w == [worker[c] EXCEPT !.phase = p, !.failures = f]
<1>1. w \in Worker
  BY WorkerFacts, WorkerFields DEF Worker, Phase
<1>2. worker[c].phase = "frame" /\ faults' \in 0..MaxFaults
  BY FaultCounted, WorkerFacts DEF EndOfBody, At
<1>3. /\ worker[c].cursor \in Nat /\ worker[c].start \in Nat
      /\ worker[c].range \in DOMAIN dl_ranges
      /\ dl_ranges[worker[c].range].end \in Nat
  <2>1. worker[c].range # 0
    BY <1>2, WorkerFacts DEF Fits, Loading
  <2>2. Total \in Nat /\ worker[c].range \in DOMAIN dl_ranges
    BY <2>1, OwnRanges, TableTypes DEF TInv
  <2>3. worker[c].cursor \in 0..Total /\ worker[c].start \in 0..Total
    BY WorkerFacts, WorkerFields
  <2>4. dl_ranges[worker[c].range].end \in Nat
    BY <2>2, TableTypes DEF TInv
  <2>5. QED
    BY <2>2, <2>3, <2>4
<1>4. /\ p \in {"flush_end", "flush_partial", "top"}
      /\ p = "flush_end" => dl_ranges[worker[c].range].end <= worker[c].cursor
      /\ p = "top" => ~(worker[c].start < worker[c].cursor)
  BY <1>3 DEF MadeProgress
<1>5. Become(c, w)
  BY WorkerFacts DEF EndOfBody
<1> HIDE DEF p, f
<1>6. Fits(c, w, writer[c].pending, dl_ranges, halted)
  <2>1. /\ w.phase = p /\ w.range = worker[c].range /\ w.cursor = worker[c].cursor
        /\ w.prefetched = worker[c].prefetched /\ w.start = worker[c].start
        /\ w.body_end = worker[c].body_end /\ w.clipped = worker[c].clipped
    BY WorkerFacts DEF Worker
  <2> HIDE DEF w
  <2>2. QED
    BY <1>2, <1>4, <2>1, WorkerFacts DEF Fits, Loading, Flushing, Unowning
<1>7. UNCHANGED <<table, writer, file, global_downloaded, task>>
  BY DEF EndOfBody
<1> HIDE DEF w
<1>8. QED
  BY <1>1, <1>2, <1>5, <1>6, <1>7, QuietActs

-----------------------------------------------------------------------------
(* After a flush, action by action. *)

\* A worker that is flushing or has left the loop with a range holds it at the
\* cursor of the table.
LEMMA FlushingFacts ==
  ASSUME TInv, NEW c \in Connections,
         worker[c].phase \in Flushing \/ (worker[c].phase = "exit" /\ worker[c].range # 0)
  PROVE  /\ worker[c].range # 0 /\ worker[c].range # worker[c].prefetched
         /\ worker[c].range \in DOMAIN dl_ranges
         /\ dl_ranges[worker[c].range].assigned_to = c
         /\ dl_ranges[worker[c].range].status = "ACTIVE"
         /\ worker[c].cursor = dl_ranges[worker[c].range].cursor
         /\ worker[c].prefetched # 0 => worker[c].prefetched \in DOMAIN dl_ranges
<1>1. /\ worker[c].range # 0 /\ worker[c].range # worker[c].prefetched
      /\ worker[c].cursor = dl_ranges[worker[c].range].cursor
  BY WorkerFacts DEF Fits, Flushing
<1>2. QED
  BY <1>1, OwnRanges

\* A range whose last byte was read is finished.
LEMMA FinishRangeSound ==
  ASSUME TInv, NEW c \in Connections, FinishRange(c)
  PROVE  Sound
<1> DEFINE i == worker[c].range
           w == [worker[c] EXCEPT !.phase = "top", !.range = 0, !.cursor = 0, !.start = 0,
                                  !.body_end = 0, !.clipped = FALSE, !.failures = 0]
<1>1. /\ worker[c].phase = "flush_end" /\ MarkFinished(i) /\ Become(c, w)
      /\ FlushPending(c)
      /\ UNCHANGED <<file, global_downloaded, task, faults>>
  BY DEF FinishRange, At
<1>2. /\ i # 0 /\ i # worker[c].prefetched /\ i \in DOMAIN dl_ranges
      /\ dl_ranges[i].assigned_to = c /\ dl_ranges[i].status = "ACTIVE"
      /\ worker[c].cursor = dl_ranges[i].cursor
      /\ worker[c].prefetched # 0 => worker[c].prefetched \in DOMAIN dl_ranges
  BY <1>1, FlushingFacts DEF Flushing
<1>3. dl_ranges[i].end <= dl_ranges[i].cursor
  BY <1>1, <1>2, WorkerFacts DEF Fits
<1>4. /\ TableStep(c) /\ Table!Fetched' = Table!Fetched
      /\ \A j \in DOMAIN dl_ranges : j # i => dl_ranges'[j] = dl_ranges[j]
  BY <1>1, <1>2, <1>3, MarkFinishedEffect DEF TInv
<1>5. w \in Worker
  BY WorkerFacts DEF Worker, Phase
<1>6. Fits(c, w, {}, dl_ranges', halted')
  <2>1. worker[c].prefetched # 0 =>
          dl_ranges'[worker[c].prefetched] = dl_ranges[worker[c].prefetched]
    BY <1>2, <1>4
  <2>2. QED
    BY <2>1, WorkerFacts DEF Fits, Worker, Loading, Flushing, Unowning
<1> HIDE DEF w
<1>7. QED
  BY <1>1, <1>4, <1>5, <1>6, FlushActs

\* The rest of a range is requested anew.
LEMMA ReopenRangeSound ==
  ASSUME TInv, NEW c \in Connections, ReopenRange(c)
  PROVE  Sound
<1> DEFINE w == [worker[c] EXCEPT !.phase = "top"]
<1>1. /\ worker[c].phase = "flush_partial" /\ FlushPending(c)
      /\ UNCHANGED <<table, file, global_downloaded, task, faults>>
  BY DEF ReopenRange, At
<1>2. TableStep(c) /\ Table!Fetched' = Table!Fetched
  BY <1>1, TableRests DEF TInv
<1>3. w \in Worker
  BY WorkerFacts DEF Worker, Phase
<1>4. Fits(c, w, {}, dl_ranges', halted')
  <2>1. Fits(c, w, {}, dl_ranges, halted)
    BY <1>1, WorkerFacts DEF Fits, Worker, Loading, Flushing, Unowning
  <2> HIDE DEF w
  <2>2. QED
    BY <1>1, <2>1 DEF table
<1>5. Become(c, w)
  BY DEF ReopenRange, Go
<1> HIDE DEF w
<1>6. QED
  BY <1>1, <1>2, <1>3, <1>4, <1>5, FlushActs

\* A halt seen while reading gives the range back.
LEMMA GiveBackHaltedSound ==
  ASSUME TInv, NEW c \in Connections, GiveBackHalted(c)
  PROVE  Sound
<1> DEFINE i == worker[c].range
           w == [worker[c] EXCEPT !.phase = "exit", !.range = 0]
<1>1. /\ worker[c].phase = "flush_halt" /\ RelinquishRange(i, worker[c].cursor)
      /\ Become(c, w) /\ FlushPending(c)
      /\ UNCHANGED <<file, global_downloaded, task, faults>>
  BY DEF GiveBackHalted, At
<1>2. /\ i # 0 /\ i # worker[c].prefetched /\ i \in DOMAIN dl_ranges
      /\ dl_ranges[i].assigned_to = c /\ dl_ranges[i].status = "ACTIVE"
      /\ worker[c].cursor = dl_ranges[i].cursor
      /\ worker[c].prefetched # 0 => worker[c].prefetched \in DOMAIN dl_ranges
  BY <1>1, FlushingFacts DEF Flushing
<1>3. /\ TableStep(c) /\ Table!Fetched' = Table!Fetched
      /\ \A j \in DOMAIN dl_ranges : j # i => dl_ranges'[j] = dl_ranges[j]
  BY <1>1, <1>2, RelinquishEffect DEF TInv
<1>4. w \in Worker
  BY WorkerFacts DEF Worker, Phase
<1>5. halted /\ halted' = halted
  BY <1>1, <1>3, WorkerFacts DEF Fits, TableStep
<1>6. Fits(c, w, {}, dl_ranges', halted')
  <2>1. worker[c].prefetched # 0 =>
          dl_ranges'[worker[c].prefetched] = dl_ranges[worker[c].prefetched]
    BY <1>2, <1>3
  <2>2. QED
    BY <1>5, <2>1, WorkerFacts DEF Fits, Worker, Loading, Flushing, Unowning
<1> HIDE DEF w
<1>7. QED
  BY <1>1, <1>3, <1>4, <1>6, FlushActs

\* A stopped worker gives its range back.
LEMMA GiveBackStoppedSound ==
  ASSUME TInv, NEW c \in Connections, GiveBackStopped(c)
  PROVE  Sound
<1> DEFINE i == worker[c].range
<1>1. /\ worker[c].phase = "flush_stop" /\ RelinquishRange(i, worker[c].cursor)
      /\ Become(c, Idle("closing")) /\ FlushPending(c)
      /\ UNCHANGED <<file, global_downloaded, task, faults>>
  BY DEF GiveBackStopped, At
<1>2. /\ i \in DOMAIN dl_ranges
      /\ dl_ranges[i].assigned_to = c /\ dl_ranges[i].status = "ACTIVE"
      /\ worker[c].cursor = dl_ranges[i].cursor
  BY <1>1, FlushingFacts DEF Flushing
<1>3. TableStep(c) /\ Table!Fetched' = Table!Fetched
  BY <1>1, <1>2, RelinquishEffect DEF TInv
<1>4. Idle("closing") \in Worker /\ Fits(c, Idle("closing"), {}, dl_ranges', halted')
  BY IdleFits DEF Unowning
<1>5. QED
  BY <1>1, <1>3, <1>4, FlushActs

\* A flush that finds the writer dead: the buffer is lost, after a failed write.
LEMMA FlushFailsSound ==
  ASSUME TInv, NEW c \in Connections, FlushFails(c)
  PROVE  Sound
<1>1. /\ worker[c].phase \notin {"unborn", "gone"} /\ writer[c].dead
      /\ Become(c, Idle("gone"))
      /\ writer' = [writer EXCEPT ![c].pending = {}]
      /\ UNCHANGED <<table, file, global_downloaded, task, faults>>
  BY DEF FlushFails, Die
<1>2. TableStep(c) /\ Table!Fetched' = Table!Fetched
  BY <1>1, TableRests DEF TInv
<1>3. /\ writer' \in [Connections -> Writer]
      /\ writer'[c].pending = {} /\ writer'[c].dead
      /\ \A d \in Connections : d # c => writer'[d].pending = writer[d].pending
  <2> DEFINE v == [writer[c] EXCEPT !.pending = {}]
  <2>1. v \in Writer /\ v.pending = {} /\ v.dead
    BY <1>1, WorkerFacts DEF Writer
  <2>2. writer' = [writer EXCEPT ![c] = v] /\ writer \in [Connections -> Writer]
    BY <1>1 DEF TInv, TypeOK
  <2> HIDE DEF v
  <2>3. QED
    BY <2>1, <2>2
<1>4. /\ Idle("gone") \in Worker'
      /\ Fits(c, Idle("gone"), writer'[c].pending, dl_ranges', halted')
  <2>1. Idle("gone") \in Worker /\ Fits(c, Idle("gone"), {}, dl_ranges', halted')
    BY IdleFits DEF Unowning
  <2>2. Idle("gone") \in Worker'
    BY <1>2, <2>1, TableTypes, TableTypesNext, WorkerTypeGrows DEF TInv, TableStep
  <2>3. QED
    BY <1>3, <2>1, <2>2
<1>5. NoByteLost
  BY <1>3 DEF NoByteLost
<1>6. CounterMatchesTable'
  BY <1>1, <1>2, CounterKept DEF TInv, TableStep
<1>7. /\ global_downloaded' \in Nat /\ global_downloaded <= global_downloaded'
      /\ UNCHANGED <<file, task>> /\ faults' \in 0..MaxFaults
  BY <1>1 DEF TInv, TypeOK
<1>8. QED
  BY <1>1, <1>2, <1>3, <1>4, <1>5, <1>6, <1>7, WorkerActs

\* Out of the loop at a halt, what is still held is given back.
LEMMA GiveBackOnExitSound ==
  ASSUME TInv, NEW c \in Connections, GiveBackOnExit(c)
  PROVE  Sound
<1>1. /\ worker[c].phase = "exit" /\ halted
      /\ worker[c].phase \notin {"unborn", "gone"}
      /\ UNCHANGED <<writer, file, global_downloaded, task, faults>>
  BY DEF GiveBackOnExit, At
<1>2. /\ writer' \in [Connections -> Writer] /\ faults' \in 0..MaxFaults
      /\ \A d \in Connections : d # c => writer'[d] = writer[d]
      /\ \A d \in Connections : Sent(writer'[d]) = Sent(writer[d])
      /\ writer'[c].pending = {}
  <2>1. writer[c].pending = {}
    BY <1>1, WorkerFacts DEF Fits, Loading, Flushing
  <2>2. QED
    BY <1>1, <2>1 DEF TInv, TypeOK
<1>3. CASE /\ worker[c].range # 0
           /\ RelinquishRange(worker[c].range, worker[c].cursor)
           /\ Become(c, [worker[c] EXCEPT !.range = 0])
  <2> DEFINE i == worker[c].range
             w == [worker[c] EXCEPT !.range = 0]
  <2>1. /\ i # 0 /\ i # worker[c].prefetched /\ i \in DOMAIN dl_ranges
        /\ dl_ranges[i].assigned_to = c /\ dl_ranges[i].status = "ACTIVE"
        /\ worker[c].cursor = dl_ranges[i].cursor
        /\ worker[c].prefetched # 0 => worker[c].prefetched \in DOMAIN dl_ranges
    BY <1>1, <1>3, FlushingFacts
  <2>2. /\ TableStep(c) /\ Table!Fetched' = Table!Fetched
        /\ \A j \in DOMAIN dl_ranges : j # i => dl_ranges'[j] = dl_ranges[j]
    BY <1>3, <2>1, RelinquishEffect DEF TInv
  <2>3. w \in Worker
    BY WorkerFacts DEF Worker, Phase
  <2>4. Fits(c, w, writer'[c].pending, dl_ranges', halted')
    <3>1. worker[c].prefetched # 0 =>
            dl_ranges'[worker[c].prefetched] = dl_ranges[worker[c].prefetched]
      BY <2>1, <2>2
    <3>2. halted'
      BY <1>1, <2>2 DEF TableStep
    <3>3. QED
      BY <1>1, <1>2, <3>1, <3>2, WorkerFacts DEF Fits, Worker, Loading, Flushing, Unowning
  <2>5. w \in Worker'
    BY <2>2, <2>3, TableTypes, TableTypesNext, WorkerTypeGrows DEF TInv, TableStep
  <2>6. Become(c, w)
    BY <1>3
  <2> HIDE DEF w
  <2>7. QED
    BY <1>1, <1>2, <2>2, <2>4, <2>5, <2>6, ReadsNothing
<1>4. CASE /\ worker[c].range = 0
           /\ RelinquishRange(worker[c].prefetched, dl_ranges[worker[c].prefetched].cursor)
           /\ Become(c, [worker[c] EXCEPT !.prefetched = 0])
  <2> DEFINE i == worker[c].prefetched
             w == [worker[c] EXCEPT !.prefetched = 0]
  <2>1. i # 0
    BY <1>4 DEF GiveBackOnExit, Owned
  <2>2. /\ i \in DOMAIN dl_ranges
        /\ dl_ranges[i].assigned_to = c /\ dl_ranges[i].status = "ACTIVE"
    BY <2>1, OwnRanges
  <2>3. TableStep(c) /\ Table!Fetched' = Table!Fetched
    BY <1>4, <2>2, RelinquishEffect DEF TInv
  <2>4. w \in Worker
    BY WorkerFacts DEF Worker, Phase
  <2>5. Fits(c, w, writer'[c].pending, dl_ranges', halted')
    BY <1>1, <1>2, <1>4, WorkerFacts DEF Fits, Worker, Loading, Flushing, Unowning
  <2>6. w \in Worker'
    BY <2>3, <2>4, TableTypes, TableTypesNext, WorkerTypeGrows DEF TInv, TableStep
  <2>7. Become(c, w)
    BY <1>4
  <2> HIDE DEF w
  <2>8. QED
    BY <1>1, <1>2, <2>3, <2>5, <2>6, <2>7, ReadsNothing
<1>5. QED
  BY <1>3, <1>4 DEF GiveBackOnExit

\* The channel to the writer is closed: nothing is held any more.
LEMMA CloseWriterSound ==
  ASSUME TInv, NEW c \in Connections, CloseWriter(c)
  PROVE  Sound
<1>1. /\ worker[c].phase = "exit" /\ Become(c, Idle("closing")) /\ FlushPending(c)
      /\ UNCHANGED <<table, file, global_downloaded, task, faults>>
  BY DEF CloseWriter, At
<1>2. TableStep(c) /\ Table!Fetched' = Table!Fetched
  BY <1>1, TableRests DEF TInv
<1>3. Idle("closing") \in Worker /\ Fits(c, Idle("closing"), {}, dl_ranges', halted')
  BY IdleFits DEF Unowning
<1>4. QED
  BY <1>1, <1>2, <1>3, FlushActs

\* The worker returns when its writer is done.
LEMMA WorkerReturnsSound ==
  ASSUME TInv, NEW c \in Connections, WorkerReturns(c)
  PROVE  Sound
<1>1. /\ worker[c].phase = "closing" /\ Become(c, Idle("gone"))
      /\ UNCHANGED <<table, writer, file, global_downloaded, task, faults>>
  BY DEF WorkerReturns, At
<1>2. writer[c].pending = {}
  BY <1>1, WorkerFacts DEF Fits, Loading, Flushing
<1>3. Idle("gone") \in Worker /\ Fits(c, Idle("gone"), writer[c].pending, dl_ranges, halted)
  BY <1>2, IdleFits DEF Unowning
<1>4. QED
  BY <1>1, <1>3, QuietActs, WorkerFacts

-----------------------------------------------------------------------------
(* The writers, the scaler and the life of the run, action by action. *)

\* A step that leaves the table and the workers alone.
LEMMA OthersAct ==
  ASSUME TInv, UNCHANGED <<table, worker, global_downloaded, inherited>>,
         writer' \in [Connections -> Writer],
         \A d \in Connections : writer'[d].pending = writer[d].pending,
         file' \in SUBSET Byte, scaler_running' \in BOOLEAN,
         outcome' \in {"running", "completed", "paused"},
         faults' \in 0..MaxFaults, pauses' \in 0..MaxPauses,
         RunInv', NoByteLost
  PROVE  Sound
<1>1. /\ [Table!Next]_(Table!vars) /\ Table!IInv' /\ Table!Fetched' = Table!Fetched
      /\ Len(dl_ranges') = Len(dl_ranges)
  BY TableRests DEF TInv, TableStep, table
<1>2. worker' \in [Connections -> Worker'] /\ Table!TypeOK'
  <2>1. Worker' = Worker
    BY DEF Worker, Slot, Phase, table
  <2>2. QED
    BY <1>1, <2>1 DEF TInv, TypeOK, Table!IInv
<1>3. TypeOK'
  BY <1>2 DEF TInv, TypeOK, Writer, Byte
<1>4. WorkersFit'
  BY DEF TInv, WorkersFit, table
<1>5. CounterMatchesTable'
  BY <1>1, CounterKept DEF TInv
<1>6. QED
  BY <1>1, <1>3, <1>4, <1>5 DEF Sound, TInv

\* A writer task writes what it was sent first.
LEMMA WriteChunkSound ==
  ASSUME TInv, NEW c \in Connections, WriteChunk(c)
  PROVE  Sound
<1> DEFINE q == writer[c].queue
           v == [writer[c] EXCEPT !.queue = Tail(q)]
<1>1. /\ q # <<>> /\ file' = file \cup Head(q)
      /\ writer' = [writer EXCEPT ![c] = v]
      /\ UNCHANGED <<table, worker, global_downloaded, task, faults>>
  BY DEF WriteChunk
<1>2. q \in Seq(SUBSET Byte) /\ Len(q) \in Nat /\ Len(q) > 0
  BY <1>1, WorkerFacts DEF Writer
<1>3. /\ Head(q) = q[1] /\ Head(q) \in SUBSET Byte
      /\ Tail(q) \in Seq(SUBSET Byte)
      /\ DOMAIN Tail(q) = 1..(Len(q) - 1) /\ DOMAIN q = 1..Len(q)
      /\ \A k \in 1..(Len(q) - 1) : Tail(q)[k] = q[k + 1]
  BY <1>2
<1>4. v \in Writer /\ v.pending = writer[c].pending /\ v.queue = Tail(q)
  BY <1>3, WorkerFacts DEF Writer
<1>5. Sent(writer[c]) \subseteq Head(q) \cup Sent(v)
  <2>1. ASSUME NEW k \in 1..Len(q) PROVE q[k] = Head(q) \/ \E j \in DOMAIN Tail(q) : q[k] = Tail(q)[j]
    <3>1. CASE k = 1
      BY <1>3, <3>1
    <3>2. CASE k # 1
      <4>1. k - 1 \in 1..(Len(q) - 1) /\ (k - 1) + 1 = k
        BY <1>2, <3>2
      <4>2. Tail(q)[k - 1] = q[k]
        BY <1>3, <4>1
      <4>3. QED
        BY <1>3, <4>1, <4>2
    <3>3. QED
      BY <3>1, <3>2
  <2> DEFINE h == Head(q)
             t == Tail(q)
  <2>2. /\ v.pending = writer[c].pending /\ v.queue = t /\ DOMAIN q = 1..Len(q)
        /\ \A k \in 1..Len(q) : q[k] = h \/ \E j \in DOMAIN t : q[k] = t[j]
    BY <1>3, <1>4, <2>1
  <2> HIDE DEF h, t, v
  <2>3. Sent(writer[c]) \subseteq h \cup Sent(v)
    BY <2>2 DEF Sent
  <2>4. QED
    BY <2>3 DEF h
<1> HIDE DEF v, q
<1>6. /\ writer' \in [Connections -> Writer] /\ writer'[c] = v
      /\ \A d \in Connections : d # c => writer'[d] = writer[d]
      /\ \A d \in Connections : writer'[d].pending = writer[d].pending
  BY <1>1, <1>4 DEF TInv, TypeOK
<1>7. Kept \subseteq Kept'
  <2>1. ASSUME NEW b \in Kept PROVE b \in Kept'
    <3>1. b \in Kept => \/ b \in file \/ b \in inherited
                        \/ \E d \in Connections : b \in Sent(writer[d])
      BY KeptMembers
    <3>2. \A x : x \in Kept' <=> \/ x \in file' \/ x \in inherited'
                                 \/ \E d \in Connections : x \in Sent(writer'[d])
      BY KeptMembersNext
    <3>3. inherited' = inherited
      BY <1>1 DEF task
    <3>4. \A d \in Connections : b \in Sent(writer[d]) => b \in Sent(writer'[d]) \/ b \in file'
      BY <1>1, <1>5, <1>6
    <3>5. QED
      BY <1>1, <2>1, <3>1, <3>2, <3>3, <3>4
  <2>2. QED
    BY <2>1
<1>8. NoByteLost
  <2>1. Table!Fetched' = Table!Fetched
    BY <1>1, TableRests DEF TInv
  <2>2. QED
    BY <1>7, <2>1 DEF NoByteLost
<1>9. RunInv'
  BY <1>1 DEF TInv, RunInv, Live, task, table
<1>10. file' \in SUBSET Byte
  BY <1>1, <1>3 DEF TInv, TypeOK
<1>11. QED
  BY <1>1, <1>6, <1>8, <1>9, <1>10, OthersAct DEF TInv, TypeOK, task

\* A failed write kills the writer task and what it was sent.
LEMMA WriteFailsSound ==
  ASSUME TInv, NEW c \in Connections, WriteFails(c)
  PROVE  Sound
<1> DEFINE v == [writer[c] EXCEPT !.queue = <<>>, !.dead = TRUE]
<1>1. /\ writer' = [writer EXCEPT ![c] = v]
      /\ UNCHANGED <<table, worker, file, global_downloaded, task, faults>>
  BY DEF WriteFails
<1>2. v \in Writer /\ v.pending = writer[c].pending /\ v.dead
  <2>1. <<>> \in Seq(SUBSET Byte)
    OBVIOUS
  <2> DEFINE e == <<>>
  <2> HIDE DEF e
  <2>2. [writer[c] EXCEPT !.queue = e, !.dead = TRUE] \in Writer
    BY <2>1, WorkerFacts DEF Writer, e
  <2>3. /\ v.pending = writer[c].pending /\ v.dead
        /\ v = [writer[c] EXCEPT !.queue = e, !.dead = TRUE]
    BY WorkerFacts DEF Writer, e
  <2>4. QED
    BY <2>2, <2>3
<1> HIDE DEF v
<1>3. /\ writer' \in [Connections -> Writer] /\ writer'[c].dead
      /\ \A d \in Connections : writer'[d].pending = writer[d].pending
  BY <1>1, <1>2 DEF TInv, TypeOK
<1>4. NoByteLost
  BY <1>3 DEF NoByteLost
<1>5. RunInv'
  BY <1>1 DEF TInv, RunInv, Live, task, table
<1>6. QED
  BY <1>1, <1>3, <1>4, <1>5, OthersAct DEF TInv, TypeOK, task

\* A worker is added: nothing was left of the one that bore its id before.
LEMMA SpawnSound ==
  ASSUME TInv, NEW c \in Connections, Spawn(c)
  PROVE  Sound
<1>1. /\ scaler_running /\ worker[c].phase \in {"unborn", "gone"}
      /\ writer[c].queue = <<>>
      /\ Become(c, Idle("top")) /\ writer' = [writer EXCEPT ![c] = FreshWriter]
      /\ UNCHANGED <<table, file, global_downloaded, task, faults>>
  BY DEF Spawn
<1>2. TableStep(c) /\ Table!Fetched' = Table!Fetched
  BY <1>1, TableRests DEF TInv
<1>3. /\ writer[c].pending = {}
      /\ FreshWriter \in Writer /\ FreshWriter.pending = {} /\ FreshWriter.queue = <<>>
  BY <1>1, WorkerFacts DEF Fits, Loading, Flushing, FreshWriter, Writer
<1>4. /\ writer' \in [Connections -> Writer] /\ writer'[c] = FreshWriter
      /\ \A d \in Connections : d # c => writer'[d] = writer[d]
  BY <1>1, <1>3 DEF TInv, TypeOK
<1>5. \A d \in Connections : Sent(writer'[d]) = Sent(writer[d])
  BY <1>1, <1>3, <1>4 DEF Sent
<1>6. NoByteLost
  BY <1>1, <1>2, <1>5, SameSent, NothingLost DEF task
<1>7. Idle("top") \in Worker'
  <2>1. Idle("top") \in Worker
    BY IdleFits
  <2>2. QED
    BY <1>2, <2>1, TableTypes, TableTypesNext, WorkerTypeGrows DEF TInv, TableStep
<1>8. Fits(c, Idle("top"), writer'[c].pending, dl_ranges', halted')
  <2>1. Fits(c, Idle("top"), {}, dl_ranges', halted')
    BY IdleFits
  <2>2. writer'[c].pending = {}
    BY <1>3, <1>4
  <2>3. QED
    BY <2>1, <2>2
<1>9. worker' \in [Connections -> Worker'] /\ WorkersFit'
  BY <1>1, <1>2, <1>4, <1>7, <1>8, WorkersMove DEF TInv, TypeOK
<1>10. RunInv'
  BY <1>1 DEF TInv, RunInv, task, table
<1>11. /\ Table!IInv' /\ Table!TypeOK' /\ [Table!Next]_(Table!vars)
  BY <1>2 DEF TableStep, Table!IInv
<1>12. CounterMatchesTable'
  BY <1>1, <1>2, <1>11, CounterKept DEF TInv
<1>13. TypeOK'
  BY <1>1, <1>4, <1>9, <1>11 DEF TInv, TypeOK, task, Writer, Byte
<1>14. QED
  BY <1>6, <1>9, <1>10, <1>11, <1>12, <1>13 DEF Sound, TInv

\* A worker is told to stop.
LEMMA StopWorkerSound ==
  ASSUME TInv, NEW c \in Connections, StopWorker(c)
  PROVE  Sound
<1> DEFINE w == [worker[c] EXCEPT !.stop = TRUE]
<1>1. /\ worker[c].range # 0 /\ Become(c, w)
      /\ UNCHANGED <<table, writer, file, global_downloaded, task, faults>>
  BY DEF StopWorker
<1>2. worker[c].phase \notin {"unborn", "gone"}
  BY <1>1, WorkerFacts DEF Fits, Unowning
<1>3. w \in Worker
  BY WorkerFacts DEF Worker
<1>4. Fits(c, w, writer[c].pending, dl_ranges, halted)
  <2>1. /\ w.phase = worker[c].phase /\ w.range = worker[c].range
        /\ w.prefetched = worker[c].prefetched /\ w.cursor = worker[c].cursor
        /\ w.start = worker[c].start /\ w.body_end = worker[c].body_end
        /\ w.clipped = worker[c].clipped
    BY WorkerFacts DEF Worker
  <2> HIDE DEF w
  <2>2. QED
    BY <2>1, WorkerFacts DEF Fits
<1> HIDE DEF w
<1>5. QED
  BY <1>1, <1>2, <1>3, <1>4, QuietActs, WorkerFacts

\* The scaler leaves.
LEMMA ScalerExitsSound ==
  ASSUME TInv, ScalerExits
  PROVE  Sound
<1>1. /\ scaler_running /\ (halted \/ global_downloaded >= Total)
      /\ scaler_running' = FALSE
      /\ UNCHANGED <<table, worker, writer, file, global_downloaded, outcome, pauses,
                     inherited, faults>>
  BY DEF ScalerExits
<1>2. RunInv'
  BY <1>1 DEF TInv, RunInv, table
<1>3. NoByteLost
  BY <1>1, TableRests, NothingLost DEF TInv, Kept
<1>4. QED
  BY <1>1, <1>2, <1>3, OthersAct DEF TInv, TypeOK

\* A verdict falls.
LEMMA ConcludeSound ==
  ASSUME TInv, Conclude
  PROVE  Sound
<1>1. /\ outcome = "running" /\ ~scaler_running /\ Live = {}
      /\ outcome' = IF global_downloaded >= Total \/ ~halted THEN "completed" ELSE "paused"
      /\ UNCHANGED <<table, worker, writer, file, global_downloaded, scaler_running, pauses,
                     inherited, faults>>
  BY DEF Conclude
<1>2. RunInv'
  BY <1>1 DEF TInv, RunInv, Live, table
<1>3. NoByteLost
  BY <1>1, TableRests, NothingLost DEF TInv, Kept
<1>4. QED
  BY <1>1, <1>2, <1>3, OthersAct DEF TInv, TypeOK

\* A pause raises the halt flag and touches nothing else.
LEMMA PauseSound ==
  ASSUME TInv, Pause
  PROVE  Sound
<1>1. /\ outcome = "running" /\ ~halted /\ pauses < MaxPauses
      /\ pauses' = pauses + 1 /\ halted' = TRUE
      /\ UNCHANGED <<dl_ranges, next_unassigned_idx, borrow_cursor, worker, writer, file,
                     global_downloaded, scaler_running, outcome, inherited, faults>>
  BY DEF Pause
<1>2. [Table!Next]_(Table!vars)
  BY <1>1 DEF Table!Next, Table!Halt
<1>3. Table!IInv' /\ Table!TypeOK'
  BY <1>2, TableAssumption, Table!StepInvariant DEF TInv, Table!IInv
<1>4. Table!Fetched' = Table!Fetched
  BY <1>1, <1>3, TableAssumption, Table!OthersReadNothing DEF TInv
<1>5. CounterMatchesTable'
  BY <1>1, <1>3, <1>4, CounterKept DEF TInv
<1>6. WorkersFit'
  <2>1. ASSUME NEW c \in Connections
        PROVE  Fits(c, worker[c], writer[c].pending, dl_ranges, TRUE)
    BY WorkerFacts DEF Fits
  <2>2. QED
    BY <1>1, <2>1 DEF WorkersFit
<1>7. RunInv'
  BY <1>1 DEF TInv, RunInv, Live
<1>8. TypeOK'
  <2>1. Worker' = Worker
    BY <1>1 DEF Worker, Slot, Phase
  <2>2. pauses' \in 0..MaxPauses
    BY <1>1, TransferAssumption DEF TInv, TypeOK
  <2>3. QED
    BY <1>1, <1>3, <2>1, <2>2 DEF TInv, TypeOK, Writer, Byte
<1>9. NoByteLost
  BY <1>1, <1>4, NothingLost DEF Kept
<1>10. QED
  BY <1>2, <1>3, <1>5, <1>6, <1>7, <1>8, <1>9 DEF Sound, TInv

\* The workers and writers of a task that was just launched.
LEMMA LaunchedFits ==
  ASSUME NEW t, NEW halt, Len(dl_ranges) \in Nat, Total \in Nat
  PROVE  /\ Launched \in [Connections -> Worker]
         /\ [c \in Connections |-> FreshWriter] \in [Connections -> Writer]
         /\ \A c \in Connections : Fits(c, Launched[c], FreshWriter.pending, t, halt)
<1>1. 0 \in Slot /\ 0 \in 0..Total /\ 0 \in 0..MaxRetries
  BY TransferAssumption DEF Slot
<1>2. \A c, p : p \in {"top", "unborn"} =>
        Idle(p) \in Worker /\ Fits(c, Idle(p), {}, t, halt)
  BY <1>1 DEF Idle, Worker, Phase, Fits, Unowning, Loading, Flushing
<1>3. FreshWriter \in Writer /\ FreshWriter.pending = {}
  BY DEF FreshWriter, Writer
<1>4. \A c \in Connections :
        \E p \in {"top", "unborn"} : Launched[c] = Idle(p)
  BY DEF Launched
<1>5. Launched \in [Connections -> Worker]
  BY <1>2 DEF Launched
<1>6. QED
  BY <1>2, <1>3, <1>4, <1>5

\* A paused task is launched again from its table.
LEMMA ResumeSound ==
  ASSUME TInv, Resume
  PROVE  Sound
<1>1. /\ Table!ResumeFromSnapshot
      /\ global_downloaded' = Table!SnapshotDownloaded
      /\ inherited' = Table!Fetched /\ file' = {}
      /\ worker' = Launched /\ writer' = [c \in Connections |-> FreshWriter]
      /\ scaler_running' = TRUE /\ outcome' = "running"
      /\ UNCHANGED <<pauses, faults>>
  BY DEF Resume
<1>2. [Table!Next]_(Table!vars)
  BY <1>1 DEF Table!Next
<1>3. Table!IInv' /\ Table!TypeOK'
  BY <1>2, TableAssumption, Table!StepInvariant DEF TInv, Table!IInv
<1>4. Table!Fetched' = Table!Fetched
  BY <1>1, <1>3, TableAssumption, Table!OthersReadNothing DEF TInv
<1>5. CounterMatchesTable'
  BY <1>1, <1>3, <1>4, TableAssumption, Table!CountKept DEF TInv, CounterMatchesTable
<1>6. /\ global_downloaded' \in Nat /\ inherited' \subseteq Byte
  <2>1. Table!Fetched \subseteq Byte
    BY DEF Table!Fetched, Table!ReadIn, Table!Byte, Byte
  <2>2. QED
    BY <1>1, <2>1, TableAssumption, Table!CountBounds DEF TInv
<1>7. /\ worker' \in [Connections -> Worker'] /\ writer' \in [Connections -> Writer]
      /\ WorkersFit'
  <2>1. Len(dl_ranges') = Len(dl_ranges)
    BY <1>1, TableTypes DEF TInv, Table!ResumeFromSnapshot, Table!Index
  <2>2. Worker' = Worker
    BY <2>1 DEF Worker, Slot, Phase
  <2>3. Len(dl_ranges) \in Nat /\ Total \in Nat
    BY TableTypes DEF TInv
  <2>4. /\ Launched \in [Connections -> Worker]
        /\ [c \in Connections |-> FreshWriter] \in [Connections -> Writer]
        /\ \A c \in Connections : Fits(c, Launched[c], FreshWriter.pending, dl_ranges', halted')
    BY <2>3, LaunchedFits
  <2>5. \A c \in Connections : Fits(c, worker'[c], writer'[c].pending, dl_ranges', halted')
    BY <1>1, <2>4
  <2>6. QED
    BY <1>1, <2>2, <2>4, <2>5 DEF WorkersFit
<1>8. RunInv'
  BY <1>1 DEF RunInv
<1>9. TypeOK'
  BY <1>1, <1>3, <1>6, <1>7 DEF TInv, TypeOK, Writer, Byte
<1>10. NoByteLost
  BY <1>1, <1>4 DEF NoByteLost, Kept
<1>11. QED
  BY <1>2, <1>3, <1>5, <1>7, <1>8, <1>9, <1>10 DEF Sound, TInv

-----------------------------------------------------------------------------
(* The theorems. *)

\* The invariant holds at the start.
LEMMA InitSound == Init => TInv
<1> SUFFICES ASSUME Init PROVE TInv
  OBVIOUS
<1>1. /\ Table!Init /\ worker = Launched /\ writer = [c \in Connections |-> FreshWriter]
      /\ file = {} /\ global_downloaded = 0 /\ scaler_running = TRUE
      /\ outcome = "running" /\ inherited = {} /\ faults = 0 /\ pauses = 0
  BY DEF Init
<1>2. Table!IInv /\ Table!TypeOK
  BY <1>1, TableAssumption, Table!InitInvariant DEF Table!IInv
<1>3. Len(dl_ranges) \in Nat /\ Total \in Nat
  BY <1>2, TableTypes
<1>4. /\ Launched \in [Connections -> Worker]
      /\ [c \in Connections |-> FreshWriter] \in [Connections -> Writer]
      /\ \A c \in Connections : Fits(c, Launched[c], FreshWriter.pending, dl_ranges, halted)
  BY <1>3, LaunchedFits
<1>5. TypeOK
  BY <1>1, <1>2, <1>4, TransferAssumption DEF TypeOK
<1>6. WorkersFit
  BY <1>1, <1>4 DEF WorkersFit
<1>7. RunInv
  BY <1>1 DEF RunInv
<1>8. CounterMatchesTable
  <2>1. Table!Fetched = {}
    BY <1>1, TableAssumption, Table!InitReadsNothing
  <2>2. QED
    BY <1>1, <1>2, <2>1, TableAssumption, Table!CountBounds DEF CounterMatchesTable
<1>9. QED
  BY <1>2, <1>5, <1>6, <1>7, <1>8 DEF TInv

\* A step of a worker is sound.
LEMMA WorkerStepSound ==
  ASSUME TInv, NEW c \in Connections, WorkerStep(c)
  PROVE  Sound
BY LeaveHaltedSound, TakePrefetchedSound, AskForWorkSound, SkipEmptyRangeSound,
   SendRequestSound, FlushTargetSound, HaltAfterChunkSound,
   PrefetchSound, AfterChunkSound, FinishRangeSound, ReopenRangeSound,
   GiveBackHaltedSound, GiveBackStoppedSound, FlushFailsSound, GiveBackOnExitSound,
   CloseWriterSound, WorkerReturnsSound DEF WorkerStep

\* And so is what the origin answers.
LEMMA OriginStepSound ==
  ASSUME TInv, OneOwner, NEW c \in Connections, OriginStep(c)
  PROVE  Sound
BY ReceiveResponseSound, ReceiveChunkSound, EndOfBodySound, RequestFailsSound,
   StreamBreaksSound, HaltOnFrameSound DEF OriginStep

\* Every step keeps the invariant, is a step of the table or none, and loses no
\* byte unless a write failed.
LEMMA StepSound == OneOwner /\ TInv /\ [Next]_vars => Sound
<1> SUFFICES ASSUME OneOwner, TInv, [Next]_vars PROVE Sound
  OBVIOUS
<1>1. ASSUME NEW c \in Connections, WorkerStep(c) PROVE Sound
  BY <1>1, WorkerStepSound
<1>2. ASSUME NEW c \in Connections, OriginStep(c) PROVE Sound
  BY <1>2, OriginStepSound
<1>3. ASSUME NEW c \in Connections, CoordinatorStep(c) PROVE Sound
  BY <1>3, GrantSound, RefuseSound DEF CoordinatorStep
<1>4. ASSUME NEW c \in Connections, WriterStep(c) PROVE Sound
  BY <1>4, WriteChunkSound, WriteFailsSound DEF WriterStep
<1>5. ASSUME NEW c \in Connections, Spawn(c) \/ StopWorker(c) PROVE Sound
  BY <1>5, SpawnSound, StopWorkerSound
<1>6. CASE ScalerExits \/ Pause \/ Conclude \/ Resume
  BY <1>6, ScalerExitsSound, PauseSound, ConcludeSound, ResumeSound
<1>7. CASE UNCHANGED vars
  <2>1. RunInv'
    BY <1>7 DEF TInv, RunInv, Live, vars, table, task
  <2>2. NoByteLost
    BY <1>7, TableRests, NothingLost DEF TInv, Kept, vars, table, task
  <2>3. QED
    BY <1>7, <2>1, <2>2, OthersAct DEF TInv, TypeOK, vars, task
<1>8. QED
  BY <1>1, <1>2, <1>3, <1>4, <1>5, <1>6, <1>7 DEF Next

\* The invariant holds throughout a run.
LEMMA Invariant == ASSUME OneOwner PROVE Spec => []TInv
<1>1. TInv /\ [Next]_vars => TInv'
  BY StepSound DEF Sound
<1>2. QED
  BY InitSound, <1>1, PTL DEF Spec

\* Type correctness of a running download.
THEOREM TypeCorrect == ASSUME OneOwner PROVE Spec => []TypeOK
<1>1. TInv => TypeOK
  BY DEF TInv
<1>2. QED
  BY Invariant, <1>1, PTL

\* The counter that decides "completed" counts each byte of the table once,
\* although every worker adds to it piece by piece, ranges change hands and a
\* resume recomputes it.
THEOREM CounterExact == ASSUME OneOwner PROVE Spec => []CounterMatchesTable
<1>1. TInv => CounterMatchesTable
  BY DEF TInv
<1>2. QED
  BY Invariant, <1>1, PTL

\* Workers, coordinator, pause and resume drive the range table as its own
\* specification says: what is proved of the table holds of a running download.
THEOREM DrivesTheTable == ASSUME OneOwner PROVE Spec => TableSpec
<1>1. Init => Table!Init
  BY DEF Init
<1>2. TInv /\ [Next]_vars => [Table!Next]_(Table!vars)
  BY StepSound DEF Sound
<1>3. QED
  BY Invariant, <1>1, <1>2, PTL DEF Spec, TableSpec, Table!Spec

\* Whatever goes wrong (a retry limit, a halt, a stop, an error in the middle of
\* a body), a byte the table counts is only ever lost when a write failed.
THEOREM BytesAreKept == ASSUME OneOwner PROVE Spec => OnlyFailedWritesLoseBytes
<1>1. TInv /\ [Next]_vars =>
        [Table!Fetched \subseteq Kept =>
           \/ Table!Fetched' \subseteq Kept'
           \/ \E c \in Connections : writer'[c].dead]_vars
  BY StepSound DEF Sound, NoByteLost
<1>2. QED
  BY Invariant, <1>1, PTL DEF Spec, OnlyFailedWritesLoseBytes

-----------------------------------------------------------------------------
(* When no worker dies: the second invariant. *)

\* What no feature allows does not happen to the local state w of a worker.
Steady(w) ==
  /\ "prefetch" \notin Features => w.prefetched = 0 /\ w.phase \notin {"fetching", "collected"}
  /\ "scale_down" \notin Features => ~w.stop /\ w.phase # "flush_stop"

\* The writer task v of worker w lives, a worker that is not there has nothing
\* to be written, and its failures in a row are no more than the faults f.
Healthy(w, v, f) ==
  /\ ~v.dead
  /\ w.failures <= f
  /\ w.phase \in {"unborn", "gone"} => v.queue = <<>>

AllWell ==
  \A c \in Connections : Steady(worker[c]) /\ Healthy(worker[c], writer[c], faults)

\* An active range is held by the worker it is assigned to.
ActiveIsOwned ==
  \A i \in DOMAIN dl_ranges : dl_ranges[i].status = "ACTIVE" =>
    dl_ranges[i].assigned_to \in Connections /\ i \in Owned(dl_ranges[i].assigned_to)

Settled ==
  /\ TInv
  /\ AllWell
  /\ NothingDropped => ActiveIsOwned

\* Beside the first invariant, what a step has to keep.
Settles ==
  /\ AllWell'
  /\ NothingDropped => ActiveIsOwned'

\* What a worker w would hold.
Holds(w) == {w.range, w.prefetched} \ {0}

\* One worker moves; the ranges that are active after it were active before or
\* are its own.
LEMMA SettlesWhen ==
  ASSUME Settled, NEW c \in Connections, NEW w, Become(c, w),
         \A d \in Connections : d # c => writer'[d] = writer[d],
         faults <= faults', faults' \in Nat,
         Steady(w), Healthy(w, writer'[c], faults'),
         NothingDropped =>
           \A j \in DOMAIN dl_ranges' : dl_ranges'[j].status = "ACTIVE" =>
             \/ dl_ranges'[j].assigned_to = c /\ j \in Holds(w)
             \/ /\ j \in DOMAIN dl_ranges /\ dl_ranges[j].status = "ACTIVE"
                /\ dl_ranges'[j].assigned_to = dl_ranges[j].assigned_to
                /\ j \in Owned(c) => j \in Holds(w)
  PROVE  Settles
<1>1. /\ worker'[c] = w
      /\ \A d \in Connections : d # c => worker'[d] = worker[d]
  BY DEF Settled, TInv, TypeOK, Become
<1>2. AllWell'
  <2>1. ASSUME NEW d \in Connections
        PROVE  Steady(worker'[d]) /\ Healthy(worker'[d], writer'[d], faults')
    <3>1. CASE d = c
      BY <1>1, <3>1
    <3>2. CASE d # c
      <4>1. worker'[d] = worker[d] /\ writer'[d] = writer[d]
        BY <1>1, <3>2
      <4>2. Steady(worker[d]) /\ Healthy(worker[d], writer[d], faults)
        BY DEF Settled, AllWell
      <4>3. worker[d].failures \in Nat /\ faults \in Nat
        <5>1. worker[d].failures \in 0..MaxRetries /\ MaxRetries \in Nat /\ faults \in 0..MaxFaults
          BY WorkerFacts, WorkerFields, TransferAssumption DEF Settled
        <5>2. QED
          BY <5>1
      <4>4. worker[d].failures <= faults'
        BY <4>2, <4>3 DEF Healthy
      <4>5. QED
        BY <4>1, <4>2, <4>4 DEF Healthy
    <3>3. QED
      BY <3>1, <3>2
  <2>2. QED
    BY <2>1 DEF AllWell, Steady, Healthy
<1>3. ASSUME NothingDropped PROVE ActiveIsOwned'
  <2>1. ASSUME NEW j \in DOMAIN dl_ranges', dl_ranges'[j].status = "ACTIVE"
        PROVE  /\ dl_ranges'[j].assigned_to \in Connections
               /\ j \in Holds(worker'[dl_ranges'[j].assigned_to])
    <3>1. CASE dl_ranges'[j].assigned_to = c /\ j \in Holds(w)
      BY <1>1, <3>1
    <3>2. CASE /\ j \in DOMAIN dl_ranges /\ dl_ranges[j].status = "ACTIVE"
               /\ dl_ranges'[j].assigned_to = dl_ranges[j].assigned_to
               /\ j \in Owned(c) => j \in Holds(w)
      <4> DEFINE d == dl_ranges[j].assigned_to
      <4>1. d \in Connections /\ j \in Owned(d)
        BY <1>3, <3>2 DEF Settled, ActiveIsOwned
      <4>2. Owned(d) = Holds(worker[d])
        BY DEF Owned, Holds
      <4>3. j \in Holds(worker'[d])
        BY <1>1, <3>2, <4>1, <4>2
      <4>4. QED
        BY <3>2, <4>1, <4>3
    <3>3. QED
      BY <1>3, <2>1, <3>1, <3>2
  <2>2. QED
    BY <2>1 DEF ActiveIsOwned, Owned, Holds
<1>4. QED
  BY <1>2, <1>3 DEF Settles

\* One worker moves, and lets no range go.
LEMMA SettlesQuiet ==
  ASSUME Settled, NEW c \in Connections, NEW w, Become(c, w),
         UNCHANGED dl_ranges, UNCHANGED writer \/ FlushPending(c),
         faults <= faults', faults' \in Nat,
         Steady(w), w.failures <= faults',
         w.phase \in {"unborn", "gone"} => UNCHANGED writer /\ writer[c].queue = <<>>,
         NothingDropped => Owned(c) \subseteq Holds(w)
  PROVE  Settles
<1>1. /\ \A d \in Connections : d # c => writer'[d] = writer[d]
      /\ writer'[c].dead = writer[c].dead
  BY FlushEffect DEF Settled, TInv, TypeOK
<1>2. Healthy(w, writer'[c], faults')
  BY <1>1 DEF Settled, AllWell, Healthy
<1>3. QED
  BY <1>1, <1>2, SettlesWhen

\* One worker moves, and lets go a range that is no longer active.
LEMMA SettlesLetGo ==
  ASSUME Settled, NEW c \in Connections, NEW w, Become(c, w), NEW i \in DOMAIN dl_ranges,
         Len(dl_ranges') = Len(dl_ranges), dl_ranges'[i].status # "ACTIVE",
         \A j \in DOMAIN dl_ranges : j # i => dl_ranges'[j] = dl_ranges[j],
         DOMAIN dl_ranges' = DOMAIN dl_ranges,
         UNCHANGED writer \/ FlushPending(c), UNCHANGED faults,
         Steady(w), w.failures <= faults, w.phase \notin {"unborn", "gone"},
         NothingDropped => Owned(c) \subseteq Holds(w) \cup {i}
  PROVE  Settles
<1>1. /\ \A d \in Connections : d # c => writer'[d] = writer[d]
      /\ writer'[c].dead = writer[c].dead
  BY FlushEffect DEF Settled, TInv, TypeOK
<1>2. Healthy(w, writer'[c], faults')
  BY <1>1 DEF Settled, AllWell, Healthy
<1>3. faults <= faults' /\ faults' \in Nat
  BY TransferAssumption DEF Settled, TInv, TypeOK
<1>4. QED
  BY <1>1, <1>2, <1>3, SettlesWhen

\* A table of the same length has the same indices.
LEMMA SameIndex ==
  ASSUME Table!IInv, Table!IInv', Len(dl_ranges') = Len(dl_ranges)
  PROVE  DOMAIN dl_ranges' = DOMAIN dl_ranges
BY TableTypes, TableTypesNext

\* What the second invariant says of one worker.
LEMMA SettledFacts ==
  ASSUME Settled, NEW c \in Connections
  PROVE  /\ TInv /\ worker[c] \in Worker /\ Steady(worker[c])
         /\ Fits(c, worker[c], writer[c].pending, dl_ranges, halted)
         /\ ~writer[c].dead
         /\ worker[c].failures \in Nat /\ faults \in Nat /\ worker[c].failures <= faults
         /\ 0 <= faults /\ faults <= faults
         /\ worker[c].phase \in {"unborn", "gone"} => writer[c].queue = <<>>
<1>1. TInv /\ Steady(worker[c]) /\ Healthy(worker[c], writer[c], faults)
  BY DEF Settled, AllWell
<1>2. worker[c].failures \in 0..MaxRetries /\ faults \in 0..MaxFaults
  BY <1>1, WorkerFacts, WorkerFields
<1>3. worker[c].failures \in Nat /\ faults \in Nat
  BY <1>2, TransferAssumption
<1>4. QED
  BY <1>1, <1>3, WorkerFacts DEF Healthy

\* The head of the loop.
LEMMA HeadSettles ==
  ASSUME Settled, NEW c \in Connections,
         LeaveHalted(c) \/ TakePrefetched(c) \/ AskForWork(c) \/ SkipEmptyRange(c)
           \/ SendRequest(c) \/ ReceiveResponse(c)
  PROVE  Settles
<1>1. CASE LeaveHalted(c)
  <2> DEFINE w == [worker[c] EXCEPT !.phase = "exit"]
  <2>1. /\ Steady(w) /\ w.failures <= faults /\ w.phase \notin {"unborn", "gone"}
        /\ Owned(c) \subseteq Holds(w)
    BY SettledFacts DEF Worker, Steady, Owned, Holds
  <2>2. Become(c, w) /\ UNCHANGED <<dl_ranges, writer, faults>>
    BY <1>1 DEF LeaveHalted, Go, table
  <2> HIDE DEF w
  <2>3. QED
    BY <2>1, <2>2, SettledFacts, SettlesQuiet
<1>2. CASE TakePrefetched(c)
  <2> DEFINE w == [worker[c] EXCEPT !.phase = "granted", !.range = worker[c].prefetched,
                                    !.prefetched = 0, !.failures = 0]
  <2>1. worker[c].range = 0
    BY <1>2 DEF TakePrefetched
  <2>2. /\ Steady(w) /\ w.failures <= faults /\ w.phase \notin {"unborn", "gone"}
        /\ Owned(c) \subseteq Holds(w)
    BY <2>1, SettledFacts DEF Worker, Steady, Owned, Holds
  <2>3. Become(c, w) /\ UNCHANGED <<dl_ranges, writer, faults>>
    BY <1>2 DEF TakePrefetched, table
  <2> HIDE DEF w
  <2>4. QED
    BY <2>2, <2>3, SettledFacts, SettlesQuiet
<1>3. CASE AskForWork(c)
  <2> DEFINE w == [worker[c] EXCEPT !.phase = "asking"]
  <2>1. /\ Steady(w) /\ w.failures <= faults /\ w.phase \notin {"unborn", "gone"}
        /\ Owned(c) \subseteq Holds(w)
    BY SettledFacts DEF Worker, Steady, Owned, Holds
  <2>2. Become(c, w) /\ UNCHANGED <<dl_ranges, writer, faults>>
    BY <1>3 DEF AskForWork, Go, table
  <2> HIDE DEF w
  <2>3. QED
    BY <2>1, <2>2, SettledFacts, SettlesQuiet
<1>4. CASE SkipEmptyRange(c)
  <2> DEFINE i == worker[c].range
             w == [worker[c] EXCEPT !.phase = "top", !.range = 0, !.cursor = 0, !.failures = 0]
  <2>1. /\ MayRequest(c) /\ MarkFinished(i) /\ Become(c, w)
        /\ dl_ranges[i].end <= StartByte(c)
        /\ UNCHANGED <<writer, faults>>
    <3>1. StartByte(c) >= dl_ranges[i].end => dl_ranges[i].end <= StartByte(c)
      OBVIOUS
    <3>2. QED
      BY <1>4, <3>1 DEF SkipEmptyRange
  <2>2. /\ i \in DOMAIN dl_ranges /\ dl_ranges[i].end <= dl_ranges[i].cursor
        /\ dl_ranges[i].assigned_to = c /\ dl_ranges[i].status = "ACTIVE"
    BY <2>1, MayRequestFacts, SettledFacts
  <2>3. /\ Len(dl_ranges') = Len(dl_ranges) /\ dl_ranges'[i].status # "ACTIVE"
        /\ \A j \in DOMAIN dl_ranges : j # i => dl_ranges'[j] = dl_ranges[j]
        /\ DOMAIN dl_ranges' = DOMAIN dl_ranges
    <3>1. /\ TableStep(c) /\ Len(dl_ranges') = Len(dl_ranges)
          /\ dl_ranges'[i].status = "FINISHED"
          /\ \A j \in DOMAIN dl_ranges : j # i => dl_ranges'[j] = dl_ranges[j]
      BY <2>1, <2>2, MarkFinishedEffect DEF Settled, TInv
    <3>2. QED
      BY <3>1, SameIndex DEF Settled, TInv, TableStep
  <2>4. /\ Steady(w) /\ w.failures <= faults /\ w.phase \notin {"unborn", "gone"}
        /\ Owned(c) \subseteq Holds(w) \cup {i}
    BY SettledFacts DEF Worker, Steady, Owned, Holds
  <2> HIDE DEF w, i
  <2>5. QED
    BY <2>1, <2>2, <2>3, <2>4, SettlesLetGo
<1>5. CASE SendRequest(c)
  <2> DEFINE w == [worker[c] EXCEPT !.phase = "opening", !.cursor = StartByte(c),
                    !.start = StartByte(c), !.body_end = dl_ranges[worker[c].range].end]
  <2>1. /\ Steady(w) /\ w.failures <= faults /\ w.phase \notin {"unborn", "gone"}
        /\ Owned(c) \subseteq Holds(w)
    BY SettledFacts DEF Worker, Steady, Owned, Holds
  <2>2. Become(c, w) /\ UNCHANGED <<dl_ranges, writer, faults>>
    BY <1>5 DEF SendRequest, table
  <2> HIDE DEF w
  <2>3. QED
    BY <2>1, <2>2, SettledFacts, SettlesQuiet
<1>6. CASE ReceiveResponse(c)
  <2> DEFINE w == [worker[c] EXCEPT !.phase = "frame"]
  <2>1. /\ Steady(w) /\ w.failures <= faults /\ w.phase \notin {"unborn", "gone"}
        /\ Owned(c) \subseteq Holds(w)
    BY SettledFacts DEF Worker, Steady, Owned, Holds
  <2>2. Become(c, w) /\ UNCHANGED <<dl_ranges, writer, faults>>
    BY <1>6 DEF ReceiveResponse, Go, table
  <2> HIDE DEF w
  <2>3. QED
    BY <2>1, <2>2, SettledFacts, SettlesQuiet
<1>7. QED
  BY <1>1, <1>2, <1>3, <1>4, <1>5, <1>6

\* The coordinator's answers.
LEMMA CoordinatorSettles ==
  ASSUME Settled, NEW c \in Connections, CoordinatorStep(c)
  PROVE  Settles
<1>1. CASE Grant(c)
  <2>1. PICK i \in 1..(Len(dl_ranges) + 1) :
          /\ Table!GetWork(c, i)
          /\ \/ /\ At(c, "asking")
                /\ Become(c, [worker[c] EXCEPT !.phase = "granted", !.range = i,
                                               !.failures = 0])
             \/ /\ At(c, "fetching")
                /\ Become(c, [worker[c] EXCEPT !.phase = "collected", !.prefetched = i])
    BY <1>1 DEF Grant
  <2>2. UNCHANGED <<writer, faults>>
    BY <1>1 DEF Grant
  <2>3. /\ i # 0 /\ dl_ranges'[i].assigned_to = c /\ DOMAIN dl_ranges' = 1..Len(dl_ranges')
        /\ \A j \in DOMAIN dl_ranges : dl_ranges[j].status = "ACTIVE" =>
             dl_ranges'[j].assigned_to = dl_ranges[j].assigned_to
        /\ \A j \in 1..Len(dl_ranges') : dl_ranges'[j].status = "ACTIVE" =>
             j = i \/ (j \in DOMAIN dl_ranges /\ dl_ranges[j].status = "ACTIVE")
    <3>1. Table!IInv
      BY DEF Settled, TInv
    <3>2. /\ TableStep(c)
          /\ i \in 1..Len(dl_ranges')
          /\ dl_ranges'[i].assigned_to = c
          /\ \A j \in DOMAIN dl_ranges : dl_ranges[j].status = "ACTIVE" => Undisturbed(j)
          /\ \A j \in 1..Len(dl_ranges') : dl_ranges'[j].status = "ACTIVE" =>
               j = i \/ (j \in DOMAIN dl_ranges /\ dl_ranges[j].status = "ACTIVE")
      BY <2>1, <3>1, GrantedEffect
    <3>3. DOMAIN dl_ranges' = 1..Len(dl_ranges')
      BY <3>2, TableTypesNext DEF TableStep
    <3>4. QED
      BY <2>1, <3>2, <3>3 DEF Undisturbed
  <2>4. ASSUME NEW w, Become(c, w), Steady(w), w.failures <= faults,
               w.phase \notin {"unborn", "gone"}, i \in Holds(w), Owned(c) \subseteq Holds(w)
        PROVE  Settles
    <3>1. Healthy(w, writer'[c], faults')
      BY <2>2, <2>4, SettledFacts DEF Healthy
    <3>2. \A j \in DOMAIN dl_ranges' : dl_ranges'[j].status = "ACTIVE" =>
             \/ dl_ranges'[j].assigned_to = c /\ j \in Holds(w)
             \/ /\ j \in DOMAIN dl_ranges /\ dl_ranges[j].status = "ACTIVE"
                /\ dl_ranges'[j].assigned_to = dl_ranges[j].assigned_to
                /\ j \in Owned(c) => j \in Holds(w)
      BY <2>3, <2>4
    <3>3. faults <= faults' /\ faults' \in Nat
      BY <2>2, SettledFacts
    <3>4. QED
      BY <2>2, <2>4, <3>1, <3>2, <3>3, SettlesWhen
  <2>5. CASE At(c, "asking") /\ Become(c, [worker[c] EXCEPT !.phase = "granted", !.range = i,
                                                            !.failures = 0])
    <3> DEFINE w == [worker[c] EXCEPT !.phase = "granted", !.range = i, !.failures = 0]
    <3>1. worker[c].range = 0 /\ worker[c].prefetched = 0
      BY <2>5, SettledFacts DEF At, Fits, Unowning
    <3>2. /\ Steady(w) /\ w.failures <= faults /\ w.phase \notin {"unborn", "gone"}
          /\ i \in Holds(w) /\ Owned(c) \subseteq Holds(w)
      BY <2>3, <3>1, SettledFacts DEF Worker, Steady, Owned, Holds
    <3>3. Become(c, w)
      BY <2>5
    <3> HIDE DEF w
    <3>4. QED
      BY <2>4, <3>2, <3>3
  <2>6. CASE At(c, "fetching")
             /\ Become(c, [worker[c] EXCEPT !.phase = "collected", !.prefetched = i])
    <3> DEFINE w == [worker[c] EXCEPT !.phase = "collected", !.prefetched = i]
    <3>1. worker[c].phase = "fetching" /\ worker[c].prefetched = 0
      BY <2>6, SettledFacts DEF At, Fits
    <3>2. /\ Steady(w) /\ w.failures <= faults /\ w.phase \notin {"unborn", "gone"}
          /\ i \in Holds(w) /\ Owned(c) \subseteq Holds(w)
      BY <2>3, <3>1, SettledFacts DEF Worker, Steady, Owned, Holds
    <3>3. Become(c, w)
      BY <2>6
    <3> HIDE DEF w
    <3>4. QED
      BY <2>4, <3>2, <3>3
  <2>7. QED
    BY <2>1, <2>5, <2>6
<1>2. CASE Refuse(c)
  <2>1. UNCHANGED <<dl_ranges, writer, faults>>
    BY <1>2 DEF Refuse, Table!NoWork, table
  <2>2. CASE At(c, "asking") /\ Go(c, "exit")
    <3> DEFINE w == [worker[c] EXCEPT !.phase = "exit"]
    <3>1. /\ Steady(w) /\ w.failures <= faults /\ w.phase \notin {"unborn", "gone"}
          /\ Owned(c) \subseteq Holds(w)
      BY SettledFacts DEF Worker, Steady, Owned, Holds
    <3>2. Become(c, w)
      BY <2>2 DEF Go
    <3> HIDE DEF w
    <3>3. QED
      BY <2>1, <3>1, <3>2, SettledFacts, SettlesQuiet
  <2>3. CASE At(c, "fetching")
             /\ Become(c, [worker[c] EXCEPT !.phase = "collected", !.exhausted = TRUE])
    <3> DEFINE w == [worker[c] EXCEPT !.phase = "collected", !.exhausted = TRUE]
    <3>1. worker[c].phase = "fetching"
      BY <2>3 DEF At
    <3>2. /\ Steady(w) /\ w.failures <= faults /\ w.phase \notin {"unborn", "gone"}
          /\ Owned(c) \subseteq Holds(w)
      BY <3>1, SettledFacts DEF Worker, Steady, Owned, Holds
    <3>3. Become(c, w)
      BY <2>3
    <3> HIDE DEF w
    <3>4. QED
      BY <2>1, <3>2, <3>3, SettledFacts, SettlesQuiet
  <2>4. QED
    BY <1>2, <2>2, <2>3 DEF Refuse
<1>3. QED
  BY <1>1, <1>2 DEF CoordinatorStep

\* Within the hypothesis a failure is always retried.
LEMMA RetrySettles ==
  ASSUME Settled, OneOwner, WorkersSurvive, NEW c \in Connections,
         NetworkFault, HandleRangeRetry(c)
  PROVE  Settles
<1>1. /\ "network" \in Features /\ "abort" \notin Features /\ MaxFaults <= MaxRetries
      /\ faults < MaxFaults /\ faults' = faults + 1
  BY DEF NetworkFault, WorkersSurvive
<1>2. /\ worker[c].failures \in Nat /\ faults \in Nat /\ worker[c].failures <= faults
      /\ MaxFaults \in Nat /\ MaxRetries \in Nat
  BY SettledFacts, TransferAssumption
<1>3. ~(worker[c].failures >= MaxRetries)
  BY <1>1, <1>2
<1> DEFINE w == [worker[c] EXCEPT !.phase = "top", !.failures = @ + 1]
<1>4. Become(c, w) /\ UNCHANGED <<table, writer>>
  BY <1>1, <1>3 DEF HandleRangeRetry, OneOwner
<1>5. w.failures = worker[c].failures + 1
  BY SettledFacts DEF Worker
<1>6. w.failures <= faults' /\ faults <= faults' /\ faults' \in Nat
  BY <1>1, <1>2, <1>5
<1>7. /\ Steady(w) /\ w.phase \notin {"unborn", "gone"} /\ Owned(c) \subseteq Holds(w)
  BY SettledFacts DEF Worker, Steady, Owned, Holds
<1> HIDE DEF w
<1>8. QED
  BY <1>4, <1>6, <1>7, SettlesQuiet DEF table

\* Failures and the end of a body.
LEMMA FailureSettles ==
  ASSUME Settled, OneOwner, WorkersSurvive, NEW c \in Connections,
         RequestFails(c) \/ StreamBreaks(c) \/ EndOfBody(c) \/ HaltOnFrame(c)
  PROVE  Settles
<1>0. NetworkFault => faults <= faults' /\ faults' \in Nat
  BY SettledFacts DEF NetworkFault
<1>1. CASE RequestFails(c)
  BY <1>1, RetrySettles DEF RequestFails
<1>2. CASE StreamBreaks(c)
  <2>1. CASE HandleRangeRetry(c)
    BY <1>2, <2>1, RetrySettles DEF StreamBreaks
  <2>2. CASE /\ Become(c, [worker[c] EXCEPT !.phase = "flush_partial", !.failures = 0])
             /\ UNCHANGED <<table, writer>>
    <3> DEFINE w == [worker[c] EXCEPT !.phase = "flush_partial", !.failures = 0]
    <3>1. faults <= faults' /\ faults' \in Nat
      BY <1>0, <1>2 DEF StreamBreaks
    <3>2. w.failures = 0
      BY SettledFacts DEF Worker
    <3>3. w.failures <= faults'
      BY <3>1, <3>2
    <3>4. /\ Steady(w) /\ w.phase \notin {"unborn", "gone"} /\ Owned(c) \subseteq Holds(w)
      BY SettledFacts DEF Worker, Steady, Owned, Holds
    <3>5. Become(c, w) /\ UNCHANGED <<dl_ranges, writer>>
      BY <2>2 DEF table
    <3> HIDE DEF w
    <3>6. QED
      BY <3>1, <3>3, <3>4, <3>5, SettlesQuiet
  <2>3. QED
    BY <1>2, <2>1, <2>2 DEF StreamBreaks
<1>3. CASE EndOfBody(c)
  <2> DEFINE p == IF worker[c].cursor >= dl_ranges[worker[c].range].end THEN "flush_end"
                  ELSE IF MadeProgress(c) THEN "flush_partial" ELSE "top"
             f == IF MadeProgress(c) THEN 0 ELSE worker[c].failures
             w == [worker[c] EXCEPT !.phase = p, !.failures = f]
  <2>1. /\ Become(c, w) /\ UNCHANGED <<dl_ranges, writer>>
        /\ NetworkFault \/ UNCHANGED faults
    BY <1>3, SettledFacts DEF EndOfBody, table
  <2>2. faults <= faults' /\ faults' \in Nat
    BY <1>0, <2>1, SettledFacts
  <2>3. p \in {"flush_end", "flush_partial", "top"} /\ f \in {0, worker[c].failures}
    OBVIOUS
  <2> HIDE DEF p, f
  <2>4. w.failures = f /\ f <= faults'
    BY <2>2, <2>3, SettledFacts DEF Worker
  <2>5. /\ Steady(w) /\ w.phase \notin {"unborn", "gone"} /\ Owned(c) \subseteq Holds(w)
    BY <2>3, SettledFacts DEF Worker, Steady, Owned, Holds
  <2> HIDE DEF w
  <2>6. QED
    BY <2>1, <2>2, <2>4, <2>5, SettlesQuiet
<1>4. CASE HaltOnFrame(c)
  <2> DEFINE w == [worker[c] EXCEPT !.phase = "flush_halt"]
  <2>1. /\ Become(c, w) /\ UNCHANGED <<dl_ranges, writer>>
        /\ NetworkFault \/ UNCHANGED faults
    BY <1>4 DEF HaltOnFrame, Go, table
  <2>2. faults <= faults' /\ faults' \in Nat
    BY <1>0, <2>1, SettledFacts
  <2>3. w.failures = worker[c].failures /\ worker[c].failures <= faults
    BY SettledFacts DEF Worker
  <2>4. w.failures <= faults'
    BY <2>2, <2>3, SettledFacts
  <2>5. /\ Steady(w) /\ w.phase \notin {"unborn", "gone"} /\ Owned(c) \subseteq Holds(w)
    BY SettledFacts DEF Worker, Steady, Owned, Holds
  <2> HIDE DEF w
  <2>6. QED
    BY <2>1, <2>2, <2>4, <2>5, SettlesQuiet
<1>5. QED
  BY <1>1, <1>2, <1>3, <1>4

\* A piece of body arrives.
LEMMA ReceiveSettles ==
  ASSUME Settled, NEW c \in Connections, NEW n \in Chunks, ReceiveChunk(c, n)
  PROVE  Settles
<1>1. /\ Sound
      /\ \/ Go(c, "flush_end") /\ UNCHANGED <<table, writer>>
         \/ \E new, b :
              /\ writer' = [writer EXCEPT ![c].pending = @ \cup Between(worker[c].cursor, new)]
              /\ dl_ranges' = [dl_ranges EXCEPT ![worker[c].range].cursor = new]
              /\ Become(c, [worker[c] EXCEPT !.phase = "received", !.cursor = new,
                                             !.clipped = b])
      /\ UNCHANGED faults
  BY ReceiveChunkSound DEF ReceiveChunk, Settled
<1>2. CASE Go(c, "flush_end") /\ UNCHANGED <<table, writer>>
  <2> DEFINE w == [worker[c] EXCEPT !.phase = "flush_end"]
  <2>1. /\ Steady(w) /\ w.failures <= faults /\ w.phase \notin {"unborn", "gone"}
        /\ Owned(c) \subseteq Holds(w)
    BY SettledFacts DEF Worker, Steady, Owned, Holds
  <2>2. Become(c, w) /\ UNCHANGED <<dl_ranges, writer, faults>>
    BY <1>1, <1>2 DEF Go, table
  <2> HIDE DEF w
  <2>3. QED
    BY <2>1, <2>2, SettledFacts, SettlesQuiet
<1>3. ASSUME NEW new, NEW b,
             writer' = [writer EXCEPT ![c].pending = @ \cup Between(worker[c].cursor, new)],
             dl_ranges' = [dl_ranges EXCEPT ![worker[c].range].cursor = new],
             Become(c, [worker[c] EXCEPT !.phase = "received", !.cursor = new,
                                         !.clipped = b])
      PROVE  Settles
  <2> DEFINE w == [worker[c] EXCEPT !.phase = "received", !.cursor = new, !.clipped = b]
  <2>1. /\ Steady(w) /\ w.failures <= faults /\ w.phase \notin {"unborn", "gone"}
        /\ Owned(c) \subseteq Holds(w)
    BY SettledFacts DEF Worker, Steady, Owned, Holds
  <2>2. Become(c, w) /\ UNCHANGED faults
    BY <1>1, <1>3
  <2>3. /\ writer'[c].dead = writer[c].dead
        /\ \A d \in Connections : d # c => writer'[d] = writer[d]
    <3>1. Between(worker[c].cursor, new) \in SUBSET Byte
      BY DEF Between
    <3> DEFINE s == Between(worker[c].cursor, new)
    <3> HIDE DEF s
    <3>2. /\ writer \in [Connections -> Writer] /\ writer[c] \in Writer
          /\ writer' = [writer EXCEPT ![c] = [writer[c] EXCEPT !.pending = @ \cup s]]
      BY <1>3 DEF Settled, TInv, TypeOK, s
    <3>3. QED
      BY <3>2 DEF Writer
  <2>4. \A j \in DOMAIN dl_ranges' :
          /\ j \in DOMAIN dl_ranges
          /\ dl_ranges'[j].status = dl_ranges[j].status
          /\ dl_ranges'[j].assigned_to = dl_ranges[j].assigned_to
    <3>1. dl_ranges \in Seq(Table!ActiveRange)
      BY TableTypes DEF Settled, TInv
    <3> DEFINE i == worker[c].range
    <3>2. dl_ranges' = [dl_ranges EXCEPT ![i] = [dl_ranges[i] EXCEPT !.cursor = new]]
      BY <1>3
    <3> HIDE DEF i
    <3>3. DOMAIN dl_ranges' = DOMAIN dl_ranges
      BY <3>1, <3>2
    <3>4. \A j \in DOMAIN dl_ranges : dl_ranges[j] \in Table!ActiveRange
      BY <3>1
    <3>5. QED
      BY <3>2, <3>3, <3>4 DEF Table!ActiveRange
  <2> HIDE DEF w
  <2>5. Healthy(w, writer'[c], faults')
    BY <2>1, <2>2, <2>3, SettledFacts DEF Healthy
  <2>6. faults <= faults' /\ faults' \in Nat
    BY <2>2, SettledFacts
  <2>7. \A j \in DOMAIN dl_ranges' : dl_ranges'[j].status = "ACTIVE" =>
             \/ dl_ranges'[j].assigned_to = c /\ j \in Holds(w)
             \/ /\ j \in DOMAIN dl_ranges /\ dl_ranges[j].status = "ACTIVE"
                /\ dl_ranges'[j].assigned_to = dl_ranges[j].assigned_to
                /\ j \in Owned(c) => j \in Holds(w)
    BY <2>1, <2>4
  <2>8. QED
    BY <2>1, <2>2, <2>3, <2>5, <2>6, <2>7, SettlesWhen
<1>4. QED
  BY <1>1, <1>2, <1>3

\* Reading a body.
LEMMA ReadingSettles ==
  ASSUME Settled, NEW c \in Connections,
         FlushTarget(c) \/ HaltAfterChunk(c) \/ Prefetch(c) \/ AfterChunk(c)
           \/ ReopenRange(c)
  PROVE  Settles
<1>1. CASE HaltAfterChunk(c)
  <2> DEFINE w == [worker[c] EXCEPT !.phase = "flush_halt"]
  <2>1. /\ Steady(w) /\ w.failures <= faults /\ w.phase \notin {"unborn", "gone"}
        /\ Owned(c) \subseteq Holds(w)
    BY SettledFacts DEF Worker, Steady, Owned, Holds
  <2>2. Become(c, w) /\ UNCHANGED <<dl_ranges, writer, faults>>
    BY <1>1 DEF HaltAfterChunk, Go, table
  <2> HIDE DEF w
  <2>3. QED
    BY <2>1, <2>2, SettledFacts, SettlesQuiet
<1>2. CASE FlushTarget(c)
  <2>1. /\ worker[c].phase = "received" /\ FlushPending(c)
        /\ UNCHANGED <<dl_ranges, worker, faults>>
    BY <1>2 DEF FlushTarget, At, table
  <2>2. Become(c, worker[c])
    BY <2>1 DEF Settled, TInv, TypeOK, Become
  <2>3. Owned(c) \subseteq Holds(worker[c])
    BY DEF Owned, Holds
  <2>4. QED
    BY <2>1, <2>2, <2>3, SettledFacts, SettlesQuiet
<1>3. CASE Prefetch(c)
  <2> DEFINE w == [worker[c] EXCEPT !.phase = "fetching"]
  <2>1. "prefetch" \in Features
    BY <1>3 DEF Prefetch
  <2>2. /\ Steady(w) /\ w.failures <= faults /\ w.phase \notin {"unborn", "gone"}
        /\ Owned(c) \subseteq Holds(w)
    BY <2>1, SettledFacts DEF Worker, Steady, Owned, Holds
  <2>3. Become(c, w) /\ UNCHANGED <<dl_ranges, writer, faults>>
    BY <1>3 DEF Prefetch, Go, table
  <2> HIDE DEF w
  <2>4. QED
    BY <2>2, <2>3, SettledFacts, SettlesQuiet
<1>4. CASE AfterChunk(c)
  <2> DEFINE p == IF worker[c].stop THEN "flush_stop"
                  ELSE IF worker[c].clipped THEN "flush_end" ELSE "frame"
             w == [worker[c] EXCEPT !.phase = p]
  <2>1. Become(c, w) /\ UNCHANGED <<dl_ranges, writer, faults>>
    BY <1>4 DEF AfterChunk, Go, table
  <2>2. /\ p \in {"flush_stop", "flush_end", "frame"}
        /\ p = "flush_stop" => worker[c].stop
    OBVIOUS
  <2> HIDE DEF p
  <2>3. /\ Steady(w) /\ w.failures <= faults /\ w.phase \notin {"unborn", "gone"}
        /\ Owned(c) \subseteq Holds(w)
    BY <2>2, SettledFacts DEF Worker, Steady, Owned, Holds
  <2> HIDE DEF w
  <2>4. QED
    BY <2>1, <2>3, SettledFacts, SettlesQuiet
<1>5. CASE ReopenRange(c)
  <2> DEFINE w == [worker[c] EXCEPT !.phase = "top"]
  <2>1. /\ Steady(w) /\ w.failures <= faults /\ w.phase \notin {"unborn", "gone"}
        /\ Owned(c) \subseteq Holds(w)
    BY SettledFacts DEF Worker, Steady, Owned, Holds
  <2>2. Become(c, w) /\ FlushPending(c) /\ UNCHANGED <<dl_ranges, faults>>
    BY <1>5 DEF ReopenRange, Go, table
  <2> HIDE DEF w
  <2>3. QED
    BY <2>1, <2>2, SettledFacts, SettlesQuiet
<1>6. QED
  BY <1>1, <1>2, <1>3, <1>4, <1>5

\* A range that is given back is no longer active, and the others stay as they are.
LEMMA GivenBack ==
  ASSUME Settled, NEW c, NEW i \in DOMAIN dl_ranges,
         RelinquishRange(i, dl_ranges[i].cursor),
         dl_ranges[i].assigned_to = c, dl_ranges[i].status = "ACTIVE"
  PROVE  /\ Len(dl_ranges') = Len(dl_ranges) /\ dl_ranges'[i].status # "ACTIVE"
         /\ \A j \in DOMAIN dl_ranges : j # i => dl_ranges'[j] = dl_ranges[j]
         /\ DOMAIN dl_ranges' = DOMAIN dl_ranges
<1>1. /\ TableStep(c) /\ Len(dl_ranges') = Len(dl_ranges)
      /\ dl_ranges'[i].status = "PENDING"
      /\ \A j \in DOMAIN dl_ranges : j # i => dl_ranges'[j] = dl_ranges[j]
  BY RelinquishEffect DEF Settled, TInv
<1>2. QED
  BY <1>1, SameIndex DEF Settled, TInv, TableStep

\* Finishing a range and giving it back.
LEMMA LettingGoSettles ==
  ASSUME Settled, NEW c \in Connections,
         FinishRange(c) \/ GiveBackHalted(c) \/ GiveBackStopped(c) \/ GiveBackOnExit(c)
  PROVE  Settles
<1>1. CASE FinishRange(c)
  <2> DEFINE i == worker[c].range
             w == [worker[c] EXCEPT !.phase = "top", !.range = 0, !.cursor = 0, !.start = 0,
                                    !.body_end = 0, !.clipped = FALSE, !.failures = 0]
  <2>1. /\ worker[c].phase = "flush_end" /\ MarkFinished(i) /\ Become(c, w)
        /\ FlushPending(c) /\ UNCHANGED faults
    BY <1>1 DEF FinishRange, At
  <2>2. /\ i \in DOMAIN dl_ranges
        /\ dl_ranges[i].assigned_to = c /\ dl_ranges[i].status = "ACTIVE"
        /\ worker[c].cursor = dl_ranges[i].cursor
    BY <2>1, FlushingFacts, SettledFacts DEF Flushing
  <2>3. dl_ranges[i].end <= dl_ranges[i].cursor
    BY <2>1, <2>2, SettledFacts DEF Fits
  <2>4. /\ Len(dl_ranges') = Len(dl_ranges) /\ dl_ranges'[i].status # "ACTIVE"
        /\ \A j \in DOMAIN dl_ranges : j # i => dl_ranges'[j] = dl_ranges[j]
        /\ DOMAIN dl_ranges' = DOMAIN dl_ranges
    <3>1. /\ TableStep(c) /\ Len(dl_ranges') = Len(dl_ranges)
          /\ dl_ranges'[i].status = "FINISHED"
          /\ \A j \in DOMAIN dl_ranges : j # i => dl_ranges'[j] = dl_ranges[j]
      BY <2>1, <2>2, <2>3, MarkFinishedEffect DEF Settled, TInv
    <3>2. QED
      BY <3>1, SameIndex DEF Settled, TInv, TableStep
  <2>5. /\ Steady(w) /\ w.failures <= faults /\ w.phase \notin {"unborn", "gone"}
        /\ Owned(c) \subseteq Holds(w) \cup {i}
    BY SettledFacts DEF Worker, Steady, Owned, Holds
  <2> HIDE DEF w, i
  <2>6. QED
    BY <2>1, <2>2, <2>4, <2>5, SettlesLetGo
<1>2. CASE GiveBackHalted(c)
  <2> DEFINE i == worker[c].range
             w == [worker[c] EXCEPT !.phase = "exit", !.range = 0]
  <2>1. /\ worker[c].phase = "flush_halt" /\ RelinquishRange(i, worker[c].cursor)
        /\ Become(c, w) /\ FlushPending(c) /\ UNCHANGED faults
    BY <1>2 DEF GiveBackHalted, At
  <2>2. /\ i \in DOMAIN dl_ranges
        /\ dl_ranges[i].assigned_to = c /\ dl_ranges[i].status = "ACTIVE"
        /\ worker[c].cursor = dl_ranges[i].cursor
    BY <2>1, FlushingFacts, SettledFacts DEF Flushing
  <2>3. /\ Len(dl_ranges') = Len(dl_ranges) /\ dl_ranges'[i].status # "ACTIVE"
        /\ \A j \in DOMAIN dl_ranges : j # i => dl_ranges'[j] = dl_ranges[j]
        /\ DOMAIN dl_ranges' = DOMAIN dl_ranges
    BY <2>1, <2>2, GivenBack
  <2>4. /\ Steady(w) /\ w.failures <= faults /\ w.phase \notin {"unborn", "gone"}
        /\ Owned(c) \subseteq Holds(w) \cup {i}
    BY SettledFacts DEF Worker, Steady, Owned, Holds
  <2> HIDE DEF w, i
  <2>5. QED
    BY <2>1, <2>2, <2>3, <2>4, SettlesLetGo
<1>3. CASE GiveBackStopped(c)
  <2> DEFINE i == worker[c].range
             w == Idle("closing")
  <2>1. /\ worker[c].phase = "flush_stop" /\ RelinquishRange(i, worker[c].cursor)
        /\ Become(c, w) /\ FlushPending(c) /\ UNCHANGED faults
    BY <1>3 DEF GiveBackStopped, At
  <2>2. /\ i \in DOMAIN dl_ranges
        /\ dl_ranges[i].assigned_to = c /\ dl_ranges[i].status = "ACTIVE"
        /\ worker[c].cursor = dl_ranges[i].cursor
    BY <2>1, FlushingFacts, SettledFacts DEF Flushing
  <2>3. /\ Len(dl_ranges') = Len(dl_ranges) /\ dl_ranges'[i].status # "ACTIVE"
        /\ \A j \in DOMAIN dl_ranges : j # i => dl_ranges'[j] = dl_ranges[j]
        /\ DOMAIN dl_ranges' = DOMAIN dl_ranges
    BY <2>1, <2>2, GivenBack
  <2>4. /\ Steady(w) /\ w.failures <= faults /\ w.phase \notin {"unborn", "gone"}
    BY SettledFacts DEF Idle, Steady
  <2>5. NothingDropped => Owned(c) \subseteq Holds(w) \cup {i}
    <3>1. NothingDropped => worker[c].prefetched = 0
      BY <2>1, SettledFacts DEF NothingDropped, Steady
    <3>2. QED
      BY <3>1 DEF Owned
  <2> HIDE DEF w, i
  <2>6. QED
    BY <2>1, <2>2, <2>3, <2>4, <2>5, SettlesLetGo
<1>4. CASE GiveBackOnExit(c)
  <2>1. /\ worker[c].phase = "exit" /\ Owned(c) # {} /\ UNCHANGED <<writer, faults>>
    BY <1>4 DEF GiveBackOnExit, At
  <2>2. CASE /\ worker[c].range # 0
             /\ RelinquishRange(worker[c].range, worker[c].cursor)
             /\ Become(c, [worker[c] EXCEPT !.range = 0])
    <3> DEFINE i == worker[c].range
               w == [worker[c] EXCEPT !.range = 0]
    <3>1. /\ i \in DOMAIN dl_ranges
          /\ dl_ranges[i].assigned_to = c /\ dl_ranges[i].status = "ACTIVE"
          /\ worker[c].cursor = dl_ranges[i].cursor
      BY <2>1, <2>2, FlushingFacts, SettledFacts
    <3>2. /\ Len(dl_ranges') = Len(dl_ranges) /\ dl_ranges'[i].status # "ACTIVE"
          /\ \A j \in DOMAIN dl_ranges : j # i => dl_ranges'[j] = dl_ranges[j]
          /\ DOMAIN dl_ranges' = DOMAIN dl_ranges
      BY <2>2, <3>1, GivenBack
    <3>3. /\ Steady(w) /\ w.failures <= faults /\ w.phase \notin {"unborn", "gone"}
          /\ Owned(c) \subseteq Holds(w) \cup {i}
      BY <2>1, SettledFacts DEF Worker, Steady, Owned, Holds
    <3>4. Become(c, w)
      BY <2>2
    <3> HIDE DEF w, i
    <3>5. QED
      BY <2>1, <3>1, <3>2, <3>3, <3>4, SettlesLetGo
  <2>3. CASE /\ worker[c].range = 0
             /\ RelinquishRange(worker[c].prefetched, dl_ranges[worker[c].prefetched].cursor)
             /\ Become(c, [worker[c] EXCEPT !.prefetched = 0])
    <3> DEFINE i == worker[c].prefetched
               w == [worker[c] EXCEPT !.prefetched = 0]
    <3>1. i # 0
      BY <2>1, <2>3 DEF Owned
    <3>2. /\ i \in DOMAIN dl_ranges
          /\ dl_ranges[i].assigned_to = c /\ dl_ranges[i].status = "ACTIVE"
      BY <3>1, OwnRanges, SettledFacts
    <3>3. /\ Len(dl_ranges') = Len(dl_ranges) /\ dl_ranges'[i].status # "ACTIVE"
          /\ \A j \in DOMAIN dl_ranges : j # i => dl_ranges'[j] = dl_ranges[j]
          /\ DOMAIN dl_ranges' = DOMAIN dl_ranges
      BY <2>3, <3>2, GivenBack
    <3>4. /\ Steady(w) /\ w.failures <= faults /\ w.phase \notin {"unborn", "gone"}
          /\ Owned(c) \subseteq Holds(w) \cup {i}
      BY <2>1, SettledFacts DEF Worker, Steady, Owned, Holds
    <3>5. Become(c, w)
      BY <2>3
    <3> HIDE DEF w, i
    <3>6. QED
      BY <2>1, <3>2, <3>3, <3>4, <3>5, SettlesLetGo
  <2>4. QED
    BY <1>4, <2>2, <2>3 DEF GiveBackOnExit
<1>5. QED
  BY <1>1, <1>2, <1>3, <1>4

\* The ways out: no writer is dead, so no flush fails, and who leaves holds
\* nothing.
LEMMA LeavingSettles ==
  ASSUME Settled, NEW c \in Connections,
         FlushFails(c) \/ CloseWriter(c) \/ WorkerReturns(c)
  PROVE  Settles
<1>1. ~FlushFails(c)
  BY SettledFacts DEF FlushFails
<1>2. CASE CloseWriter(c)
  <2> DEFINE w == Idle("closing")
  <2>1. /\ worker[c].phase = "exit" /\ (halted => Owned(c) = {})
        /\ FlushPending(c) /\ Become(c, w) /\ UNCHANGED <<dl_ranges, faults>>
    BY <1>2 DEF CloseWriter, At, table
  <2>2. Owned(c) = {}
    BY <2>1, SettledFacts DEF Fits, Owned
  <2>3. /\ Steady(w) /\ w.failures <= faults /\ w.phase \notin {"unborn", "gone"}
        /\ Owned(c) \subseteq Holds(w)
    BY <2>2, SettledFacts DEF Idle, Steady
  <2> HIDE DEF w
  <2>4. QED
    BY <2>1, <2>3, SettledFacts, SettlesQuiet
<1>3. CASE WorkerReturns(c)
  <2> DEFINE w == Idle("gone")
  <2>1. /\ worker[c].phase = "closing" /\ writer[c].queue = <<>>
        /\ Become(c, w) /\ UNCHANGED <<dl_ranges, writer, faults>>
    BY <1>3 DEF WorkerReturns, At, table
  <2>2. Owned(c) = {}
    BY <2>1, SettledFacts DEF Fits, Owned, Unowning
  <2>3. /\ Steady(w) /\ w.failures <= faults /\ Owned(c) \subseteq Holds(w)
    BY <2>2, SettledFacts DEF Idle, Steady
  <2> HIDE DEF w
  <2>4. QED
    BY <2>1, <2>3, SettledFacts, SettlesQuiet
<1>4. QED
  BY <1>1, <1>2, <1>3

\* The scaler adds and stops workers.
LEMMA ScalingSettles ==
  ASSUME Settled, NEW c \in Connections, Spawn(c) \/ StopWorker(c)
  PROVE  Settles
<1>1. CASE Spawn(c)
  <2> DEFINE w == Idle("top")
  <2>1. /\ worker[c].phase \in {"unborn", "gone"} /\ Become(c, w)
        /\ writer' = [writer EXCEPT ![c] = FreshWriter]
        /\ UNCHANGED <<dl_ranges, faults>>
    BY <1>1 DEF Spawn, table
  <2>2. Owned(c) = {}
    BY <2>1, SettledFacts DEF Fits, Owned, Unowning
  <2>3. /\ writer'[c] = FreshWriter
        /\ \A d \in Connections : d # c => writer'[d] = writer[d]
    BY <2>1 DEF Settled, TInv, TypeOK
  <2>4. Steady(w) /\ Healthy(w, writer'[c], faults')
    BY <2>1, <2>3, SettledFacts DEF Idle, Steady, Healthy, FreshWriter
  <2>5. \A j \in DOMAIN dl_ranges' : dl_ranges'[j].status = "ACTIVE" =>
          /\ j \in DOMAIN dl_ranges /\ dl_ranges[j].status = "ACTIVE"
          /\ dl_ranges'[j].assigned_to = dl_ranges[j].assigned_to
          /\ j \in Owned(c) => j \in Holds(w)
    BY <2>1, <2>2
  <2>6. faults <= faults' /\ faults' \in Nat
    BY <2>1, SettledFacts
  <2> HIDE DEF w
  <2>7. QED
    BY <2>1, <2>3, <2>4, <2>5, <2>6, SettlesWhen
<1>2. CASE StopWorker(c)
  <2> DEFINE w == [worker[c] EXCEPT !.stop = TRUE]
  <2>1. /\ "scale_down" \in Features /\ worker[c].range # 0
        /\ Become(c, w) /\ UNCHANGED <<dl_ranges, writer, faults>>
    BY <1>2 DEF StopWorker, table
  <2>2. worker[c].phase \notin {"unborn", "gone"}
    BY <2>1, SettledFacts DEF Fits, Unowning
  <2>3. /\ Steady(w) /\ w.failures <= faults /\ w.phase \notin {"unborn", "gone"}
        /\ Owned(c) \subseteq Holds(w)
    BY <2>1, <2>2, SettledFacts DEF Worker, Steady, Owned, Holds
  <2> HIDE DEF w
  <2>4. QED
    BY <2>1, <2>3, SettledFacts, SettlesQuiet
<1>3. QED
  BY <1>1, <1>2

\* The writers: none fails.
LEMMA WritersSettle ==
  ASSUME Settled, WorkersSurvive, NEW c \in Connections, WriterStep(c)
  PROVE  Settles
<1>1. ~WriteFails(c)
  BY DEF WriteFails, WorkersSurvive, DiskWorks
<1>2. /\ writer[c].queue # <<>> /\ writer' = [writer EXCEPT ![c].queue = Tail(@)]
      /\ UNCHANGED <<dl_ranges, worker, faults>>
  BY <1>1 DEF WriterStep, WriteChunk, table
<1>3. /\ writer'[c].dead = writer[c].dead
      /\ \A d \in Connections : d # c => writer'[d] = writer[d]
  <2> DEFINE t == Tail(writer[c].queue)
  <2>1. /\ writer \in [Connections -> Writer] /\ writer[c] \in Writer
        /\ writer' = [writer EXCEPT ![c] = [writer[c] EXCEPT !.queue = t]]
    BY <1>2 DEF Settled, TInv, TypeOK
  <2> HIDE DEF t
  <2>2. QED
    BY <2>1 DEF Writer
<1>4. Become(c, worker[c])
  BY <1>2 DEF Settled, TInv, TypeOK, Become
<1>5. Steady(worker[c]) /\ Healthy(worker[c], writer'[c], faults')
  BY <1>2, <1>3, SettledFacts DEF Healthy
<1>6. \A j \in DOMAIN dl_ranges' : dl_ranges'[j].status = "ACTIVE" =>
          /\ j \in DOMAIN dl_ranges /\ dl_ranges[j].status = "ACTIVE"
          /\ dl_ranges'[j].assigned_to = dl_ranges[j].assigned_to
          /\ j \in Owned(c) => j \in Holds(worker[c])
  BY <1>2 DEF Owned, Holds
<1>7. faults <= faults' /\ faults' \in Nat
  BY <1>2, SettledFacts
<1>8. QED
  BY <1>3, <1>4, <1>5, <1>6, <1>7, SettlesWhen

\* A task that was just launched has nothing to write and no failures.
LEMMA LaunchedWell ==
  ASSUME worker' = Launched, writer' = [c \in Connections |-> FreshWriter], faults' \in Nat
  PROVE  AllWell'
<1>1. ASSUME NEW c \in Connections
      PROVE  Steady(worker'[c]) /\ Healthy(worker'[c], writer'[c], faults')
  <2>1. PICK p \in {"top", "unborn"} : worker'[c] = Idle(p)
    BY DEF Launched
  <2>2. writer'[c] = FreshWriter
    OBVIOUS
  <2>3. QED
    BY <2>1, <2>2 DEF Idle, Steady, Healthy, FreshWriter
<1>2. QED
  BY <1>1 DEF AllWell

\* The life of the run.
LEMMA RunSettles ==
  ASSUME Settled, ScalerExits \/ Pause \/ Conclude \/ Resume \/ UNCHANGED vars
  PROVE  Settles
<1>1. CASE Resume
  <2>1. /\ Table!ResumeFromSnapshot /\ worker' = Launched /\ UNCHANGED faults
        /\ writer' = [c \in Connections |-> FreshWriter]
    BY <1>1 DEF Resume
  <2>2. faults' \in Nat
    BY <2>1, TransferAssumption DEF Settled, TInv, TypeOK
  <2>3. AllWell'
    BY <2>1, <2>2, LaunchedWell
  <2>4. \A i \in DOMAIN dl_ranges' : dl_ranges'[i].status # "ACTIVE"
    <3>1. /\ dl_ranges' = [i \in Table!Index |-> Table!Normalised(dl_ranges[i])]
          /\ \A i \in Table!Index : dl_ranges[i] \in Table!ActiveRange
      BY <2>1, TableTypes DEF Settled, TInv, Table!ResumeFromSnapshot, Table!Index
    <3>2. \A r \in Table!ActiveRange : Table!Normalised(r).status # "ACTIVE"
      BY DEF Table!Normalised, Table!ActiveRange
    <3>3. QED
      BY <3>1, <3>2
  <2>5. QED
    BY <2>3, <2>4 DEF Settles, ActiveIsOwned
<1>2. CASE ScalerExits \/ Pause \/ Conclude \/ UNCHANGED vars
  <2>1. UNCHANGED <<dl_ranges, worker, writer, faults>>
    BY <1>2 DEF ScalerExits, Pause, Conclude, vars, table
  <2>2. QED
    BY <2>1 DEF Settled, Settles, AllWell, ActiveIsOwned, Owned
<1>3. QED
  BY <1>1, <1>2

\* Every step keeps the second invariant.
LEMMA StepSettles ==
  OneOwner /\ WorkersSurvive /\ Settled /\ [Next]_vars => Settled' /\ Sound
<1> SUFFICES ASSUME OneOwner, WorkersSurvive, Settled, [Next]_vars
             PROVE  Settled' /\ Sound
  OBVIOUS
<1>1. ASSUME NEW c \in Connections, WorkerStep(c) PROVE Settles
  BY <1>1, HeadSettles, ReadingSettles, LettingGoSettles, LeavingSettles DEF WorkerStep
<1>2. ASSUME NEW c \in Connections, OriginStep(c) PROVE Settles
  BY <1>2, HeadSettles, ReceiveSettles, FailureSettles DEF OriginStep
<1>3. ASSUME NEW c \in Connections, CoordinatorStep(c) PROVE Settles
  BY <1>3, CoordinatorSettles
<1>4. ASSUME NEW c \in Connections, WriterStep(c) PROVE Settles
  BY <1>4, WritersSettle
<1>5. ASSUME NEW c \in Connections, Spawn(c) \/ StopWorker(c) PROVE Settles
  BY <1>5, ScalingSettles
<1>6. Settles
  BY <1>1, <1>2, <1>3, <1>4, <1>5, RunSettles DEF Next
<1>7. Sound
  BY StepSound DEF Settled
<1>8. QED
  BY <1>6, <1>7 DEF Settled, Settles, Sound, NothingDropped

\* The second invariant holds at the start.
LEMMA InitSettled == Init => Settled
<1> SUFFICES ASSUME Init PROVE Settled
  OBVIOUS
<1>1. /\ Table!Init /\ worker = Launched /\ writer = [c \in Connections |-> FreshWriter]
      /\ faults = 0
  BY DEF Init
<1>2. AllWell
  <2>1. ASSUME NEW c \in Connections
        PROVE  Steady(worker[c]) /\ Healthy(worker[c], writer[c], faults)
    <3>1. PICK p \in {"top", "unborn"} : worker[c] = Idle(p)
      BY <1>1 DEF Launched
    <3>2. writer[c] = FreshWriter
      BY <1>1
    <3>3. QED
      BY <1>1, <3>1, <3>2 DEF Idle, Steady, Healthy, FreshWriter
  <2>2. QED
    BY <2>1 DEF AllWell
<1>3. ActiveIsOwned
  BY <1>1 DEF ActiveIsOwned, Table!Init
<1>4. QED
  BY <1>2, <1>3, InitSound DEF Settled

\* The second invariant holds throughout a run in which no worker dies.
LEMMA SettledThroughout == ASSUME OneOwner, WorkersSurvive PROVE Spec => []Settled
<1>1. Settled /\ [Next]_vars => Settled'
  BY StepSettles
<1>2. QED
  BY InitSettled, <1>1, PTL DEF Spec

\* A worker holds exactly the ranges the table says it is downloading, unless
\* one dies or is stopped while it holds a prefetched range.
THEOREM OwnersAlwaysAgree ==
  ASSUME OneOwner, WorkersSurvive, NothingDropped PROVE Spec => []OwnersAgree
<1>1. Settled => OwnersAgree
  <2> SUFFICES ASSUME Settled PROVE OwnersAgree
    OBVIOUS
  <2>1. ASSUME NEW c \in Connections, NEW i \in Owned(c)
        PROVE  dl_ranges[i].assigned_to = c /\ dl_ranges[i].status = "ACTIVE"
    BY <2>1, SettledFacts DEF Fits, Owned
  <2>2. \A i \in DOMAIN dl_ranges :
          dl_ranges[i].status = "ACTIVE" => i \in Owned(dl_ranges[i].assigned_to)
    BY DEF Settled, ActiveIsOwned
  <2>3. QED
    BY <2>1, <2>2 DEF OwnersAgree
<1>2. QED
  BY SettledThroughout, <1>1, PTL

\* What the table counts is kept somewhere.
AllKept == Table!Fetched \subseteq Kept

\* While no worker dies nothing the table counts is ever lost.
LEMMA KeptThroughout ==
  ASSUME OneOwner, WorkersSurvive PROVE Spec => [](Settled /\ AllKept)
<1>1. Init => AllKept
  <2>1. Table!Init => Table!Fetched = {}
    BY TableAssumption, Table!InitReadsNothing
  <2>2. QED
    BY <2>1 DEF Init, AllKept
<1>2. Settled /\ AllKept /\ [Next]_vars => AllKept'
  <2> SUFFICES ASSUME Settled, AllKept, [Next]_vars PROVE AllKept'
    OBVIOUS
  <2>1. NoByteLost /\ Settled'
    BY StepSettles DEF Sound
  <2>2. \A c \in Connections : ~writer'[c].dead
    BY <2>1 DEF Settled, AllWell, Healthy
  <2>3. QED
    BY <2>1, <2>2 DEF NoByteLost, AllKept
<1>3. QED
  BY SettledThroughout, <1>1, <1>2, PTL DEF Spec

\* When everybody left, what is kept is in the file or was inherited.
LEMMA KeptIsOnDisk ==
  ASSUME Settled, outcome # "running"
  PROVE  Kept \subseteq file \cup inherited
<1>1. Live = {}
  BY DEF Settled, TInv, RunInv
<1>2. ASSUME NEW c \in Connections PROVE Sent(writer[c]) = {}
  <2>1. worker[c].phase \in {"unborn", "gone"}
    BY <1>1 DEF Live
  <2>2. writer[c].queue = <<>> /\ writer[c].pending = {}
    BY <2>1, SettledFacts DEF Fits, Loading, Flushing
  <2>3. QED
    BY <2>2 DEF Sent
<1>3. ASSUME NEW b \in Kept PROVE b \in file \cup inherited
  BY <1>2, <1>3, KeptMembers
<1>4. QED
  BY <1>3

\* When a run in which no worker died is over, every byte it counted as
\* downloaded is in the file or was there before: no buffer was dropped on any
\* of the ways out of run_live.
THEOREM CountedBytesReachTheDisk ==
  ASSUME OneOwner, WorkersSurvive PROVE Spec => []CountedBytesAreOnDisk
<1>1. Settled /\ AllKept => CountedBytesAreOnDisk
  BY KeptIsOnDisk DEF AllKept, CountedBytesAreOnDisk
<1>2. QED
  BY KeptThroughout, <1>1, PTL

\* No snapshot brought anything.
FirstRun == inherited = {}

\* A download that is never resumed inherits nothing.
LEMMA NothingInherited ==
  ASSUME "resume" \notin Features PROVE Spec => []FirstRun
<1>1. Init => FirstRun
  BY DEF Init, FirstRun
<1>2. FirstRun /\ [Next]_vars => FirstRun'
  <2> SUFFICES ASSUME [Next]_vars PROVE inherited' = inherited
    BY DEF FirstRun
  <2>1. ASSUME NEW c \in Connections, WorkerStep(c) PROVE inherited' = inherited
    BY <2>1 DEF WorkerStep, LeaveHalted, TakePrefetched, AskForWork, SkipEmptyRange,
      SendRequest, FlushTarget, HaltAfterChunk, Prefetch, AfterChunk,
      FinishRange, ReopenRange, GiveBackHalted, GiveBackStopped, FlushFails,
      GiveBackOnExit, CloseWriter, WorkerReturns, task
  <2>2. ASSUME NEW c \in Connections, OriginStep(c) PROVE inherited' = inherited
    BY <2>2 DEF OriginStep, ReceiveResponse, ReceiveChunk, EndOfBody, RequestFails,
      StreamBreaks, HaltOnFrame, task
  <2>3. ASSUME NEW c \in Connections,
               CoordinatorStep(c) \/ WriterStep(c) \/ Spawn(c) \/ StopWorker(c)
        PROVE  inherited' = inherited
    BY <2>3 DEF CoordinatorStep, Grant, Refuse, WriterStep, WriteChunk, WriteFails,
      Spawn, StopWorker, task
  <2>4. CASE ScalerExits \/ Pause \/ Conclude \/ Resume
    BY <2>4 DEF ScalerExits, Pause, Conclude, Resume
  <2>5. QED
    BY <2>1, <2>2, <2>3, <2>4 DEF Next, vars, task
<1>3. QED
  BY <1>1, <1>2, PTL DEF Spec

\* "Completed" means the whole file is there, for a download in which no worker
\* died and that was not resumed.
THEOREM CompletedFilesAreWhole ==
  ASSUME OneOwner, WorkersSurvive, "resume" \notin Features
  PROVE  Spec => []CompletedIsOnDisk
<1>1. Settled /\ AllKept /\ FirstRun => CompletedIsOnDisk
  <2> SUFFICES ASSUME Settled, AllKept, FirstRun, outcome = "completed"
               PROVE  file = Byte
    BY DEF CompletedIsOnDisk
  <2>1. Kept \subseteq file
    BY KeptIsOnDisk DEF FirstRun
  <2>2. global_downloaded >= Total
    BY DEF Settled, TInv, RunInv
  <2>3. Table!SnapshotDownloaded >= Total
    BY <2>2 DEF Settled, TInv, CounterMatchesTable
  <2>4. Table!Fetched = Table!Byte
    BY <2>3, TableAssumption, Table!CountBounds DEF Settled, TInv
  <2>5. Byte \subseteq file
    BY <2>1, <2>4 DEF AllKept, Table!Byte, Byte
  <2>6. file \subseteq Byte
    BY DEF Settled, TInv, TypeOK
  <2>7. QED
    BY <2>5, <2>6
<1>2. QED
  BY KeptThroughout, NothingInherited, <1>1, PTL
=============================================================================
