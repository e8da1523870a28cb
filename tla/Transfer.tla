----------------------------- MODULE Transfer -----------------------------
(***************************************************************************)
(* One download while it runs (engine.rs run_download_task_local,          *)
(* engine/worker.rs run_live): connection workers that ask the coordinator *)
(* for ranges, read HTTP bodies, buffer what they read and hand it to a    *)
(* writer task each; the scaler that adds and stops workers; pause, resume *)
(* and the verdict when the run ends.                                      *)
(*                                                                         *)
(* All tasks share one thread: code between two awaits is one action here. *)
(***************************************************************************)
EXTENDS Integers, Sequences, FiniteSets

CONSTANTS
  Connections, Unassigned, Total, MB, BorrowLimit, AdaptiveSteals, TailPercent,
  Seeds, Chunks,   \* as in RangeCoordinator
  Initial,         \* connections spawned when the task is launched
  MinConnections,  \* the scaler respawns workers below this many
  QueueCap,        \* capacity of the channel to a writer task (2)
  MaxRetries,      \* MAX_RANGE_RETRIES
  Features,        \* what the environment and the scaler may do, see below
  MaxFaults,       \* bound: failed requests, broken and short bodies
  MaxPauses        \* bound: pauses

\* prefetch       a worker asks for its next range while reading
\* scale_up       the scaler adds workers above MinConnections
\* scale_down     the scaler stops workers
\* network        requests fail, streams break and bodies end early
\* reduce_workers such a failure is one that asks for fewer workers (429, TLS)
\* abort          such a failure is one that is not retried (416)
\* disk           a write fails
\* resume         a paused task is resumed
AllFeatures ==
  {"prefetch", "scale_up", "scale_down", "network", "reduce_workers", "abort",
   "disk", "resume"}

ASSUME TransferAssumption ==
  /\ Initial \subseteq Connections
  /\ MinConnections \in Nat \ {0}
  /\ QueueCap \in Nat \ {0}
  /\ MaxRetries \in Nat
  /\ Features \subseteq AllFeatures
  /\ MaxFaults \in Nat
  /\ MaxPauses \in Nat

VARIABLES
  dl_ranges, next_unassigned_idx, borrow_cursor, \* the coordinator
  halted,            \* RuntimeControl::is_halted()
  worker,            \* the local state of each worker task
  writer,            \* the write buffer, channel and fate of each writer task
  file,              \* the bytes of the target file that were written
  global_downloaded, \* the counter progress and completion are judged by
  scaler_running,    \* the scaler task still holds its work_tx
  outcome,           \* how the run ended
  inherited,         \* the bytes the snapshot of an earlier run brought
  faults, pauses     \* faults and pauses so far (bounds)

table == <<dl_ranges, next_unassigned_idx, borrow_cursor, halted>>
task  == <<scaler_running, outcome, pauses, inherited>>
vars  == <<table, worker, writer, file, global_downloaded, task, faults>>

\* With its proofs, so that what holds of the table can be cited as Table!...
Table == INSTANCE RangeCoordinatorProofs

ASSUME TableAssumption == Table!CoordinatorAssumption /\ Table!SeedAssumption

Byte == 0..(Total - 1)

\* A definition named Bad... is a mistake on purpose: put in the place of the
\* one below it, it shows that a property notices.

\* The end of a piece is taken for its last byte.
BadBetween(a, b) == a..b

\* The bytes appended when a cursor moves from a to b.
Between(a, b) == {x \in Byte : a <= x /\ x < b}
-----------------------------------------------------------------------------
(* The state of a worker: the awaits of run_live it can be stopped at.      *)

Phase ==
  {"unborn", "top",        \* not spawned; at the head of the loop
   "asking", "granted",    \* request_work sent; answered
   "opening", "frame",     \* GET sent; waiting for the next piece of body
   "received", "fetching", \* a piece was appended; awaiting a prefetch
   "collected",            \* the prefetch was answered
   "flush_end", "flush_partial", "flush_halt", "flush_stop",
   "exit", "closing",      \* left the loop; waiting for the writer task
   "gone"}

\* Index of a range in the table, 0 for None.
Slot == 0..Len(dl_ranges)

Worker ==
  [phase      : Phase,
   range      : Slot,         \* current_range
   prefetched : Slot,         \* prefetched_range
   cursor     : 0..Total,     \* local_cursor
   start      : 0..Total,     \* first byte of the running request
   body_end   : 0..Total,     \* end of the running request
   clipped    : BOOLEAN,      \* to_write < chunk.len()
   failures   : 0..MaxRetries,\* consecutive_failures
   exhausted  : BOOLEAN,      \* no_more_work_hint
   stop       : BOOLEAN]      \* WorkerControl.stop_requested

Idle(p) ==
  [phase |-> p, range |-> 0, prefetched |-> 0, cursor |-> 0, start |-> 0,
   body_end |-> 0, clipped |-> FALSE, failures |-> 0, exhausted |-> FALSE,
   stop |-> FALSE]

Writer ==
  [pending : SUBSET Byte,       \* PendingWrite
   queue   : Seq(SUBSET Byte),  \* write_tx
   dead    : BOOLEAN]

FreshWriter == [pending |-> {}, queue |-> <<>>, dead |-> FALSE]

At(c, p) == worker[c].phase = p
Live == {c \in Connections : worker[c].phase \notin {"unborn", "gone"}}
Owned(c) == {worker[c].range, worker[c].prefetched} \ {0}

Become(c, w) == worker' = [worker EXCEPT ![c] = w]
Go(c, p) == Become(c, [worker[c] EXCEPT !.phase = p])

Restamp(i, cursor, owner, status) ==
  dl_ranges' = [dl_ranges EXCEPT ![i].cursor = cursor,
                                 ![i].assigned_to = owner, ![i].status = status]

\* The progress of the range is forgotten.
BadRelinquishCursor(i, cursor) ==
  /\ Restamp(i, dl_ranges[i].byte_start, Unassigned, "PENDING")
  /\ UNCHANGED <<next_unassigned_idx, borrow_cursor, halted>>

\* The range stays ACTIVE.
BadRelinquishStatus(i, cursor) ==
  /\ Restamp(i, cursor, Unassigned, "ACTIVE")
  /\ UNCHANGED <<next_unassigned_idx, borrow_cursor, halted>>

RelinquishRange(i, cursor) ==
  /\ Restamp(i, cursor, Unassigned, "PENDING")
  /\ UNCHANGED <<next_unassigned_idx, borrow_cursor, halted>>

MarkFinished(i) ==
  /\ dl_ranges' = [dl_ranges EXCEPT ![i].status = "FINISHED"]
  /\ UNCHANGED <<next_unassigned_idx, borrow_cursor, halted>>

\* A full channel swallows the buffer.
BadFlushPending(c) ==
  writer' = [writer EXCEPT ![c].pending = {},
                           ![c].queue = IF Len(@) < QueueCap
                                        THEN Append(@, writer[c].pending) ELSE @]

\* flush_pending_write: waits while the channel is full, fails when it closed.
FlushPending(c) ==
  LET w == writer[c]
  IN \/ /\ w.pending = {}
        /\ UNCHANGED writer
     \/ /\ w.pending # {} /\ ~w.dead /\ Len(w.queue) < QueueCap
        /\ writer' = [writer EXCEPT ![c] =
             [w EXCEPT !.pending = {}, !.queue = Append(@, w.pending)]]
-----------------------------------------------------------------------------
(* The head of the loop. *)

LeaveHalted(c) ==
  /\ At(c, "top") /\ halted
  /\ Go(c, "exit")
  /\ UNCHANGED <<table, writer, file, global_downloaded, task, faults>>

TakePrefetched(c) ==
  /\ At(c, "top") /\ ~halted
  /\ worker[c].range = 0 /\ worker[c].prefetched # 0
  /\ Become(c, [worker[c] EXCEPT !.phase = "granted",
                                 !.range = worker[c].prefetched,
                                 !.prefetched = 0, !.failures = 0])
  /\ UNCHANGED <<table, writer, file, global_downloaded, task, faults>>

AskForWork(c) ==
  /\ At(c, "top") /\ ~halted
  /\ Owned(c) = {}
  /\ Go(c, "asking")
  /\ UNCHANGED <<table, writer, file, global_downloaded, task, faults>>

\* Coordinator::run answers a request with a range ...
Grant(c) ==
  /\ ~halted
  /\ \E i \in 1..(Len(dl_ranges) + 1) :
       /\ Table!GetWork(c, i)
       /\ \/ /\ At(c, "asking")
             /\ Become(c, [worker[c] EXCEPT !.phase = "granted", !.range = i,
                                            !.failures = 0])
          \/ /\ At(c, "fetching")
             /\ Become(c, [worker[c] EXCEPT !.phase = "collected", !.prefetched = i])
  /\ UNCHANGED <<writer, file, global_downloaded, task, faults>>

\* ... or with None, because nothing is left or because of a halt.
Refuse(c) ==
  /\ \/ Table!NoWork(c)
     \/ halted /\ UNCHANGED table
  /\ \/ At(c, "asking") /\ Go(c, "exit")
     \/ /\ At(c, "fetching")
        /\ Become(c, [worker[c] EXCEPT !.phase = "collected", !.exhausted = TRUE])
  /\ UNCHANGED <<writer, file, global_downloaded, task, faults>>

\* The first byte still to fetch: the table's for a new range, the worker's own
\* when it asks again for the rest of one.
StartByte(c) ==
  IF At(c, "granted") THEN dl_ranges[worker[c].range].cursor ELSE worker[c].cursor

MayRequest(c) ==
  \/ At(c, "granted")
  \/ At(c, "top") /\ ~halted /\ worker[c].range # 0

SkipEmptyRange(c) ==
  LET i == worker[c].range
  IN /\ MayRequest(c)
     /\ StartByte(c) >= dl_ranges[i].end
     /\ MarkFinished(i)
     /\ Become(c, [worker[c] EXCEPT !.phase = "top", !.range = 0,
                                    !.cursor = 0, !.failures = 0])
     /\ UNCHANGED <<writer, file, global_downloaded, task, faults>>

SendRequest(c) ==
  LET i == worker[c].range
  IN /\ MayRequest(c)
     /\ StartByte(c) < dl_ranges[i].end
     /\ Become(c, [worker[c] EXCEPT !.phase = "opening", !.cursor = StartByte(c),
                                    !.start = StartByte(c), !.body_end = dl_ranges[i].end])
     /\ UNCHANGED <<table, writer, file, global_downloaded, task, faults>>

ReceiveResponse(c) ==
  /\ At(c, "opening")
  /\ Go(c, "frame")
  /\ UNCHANGED <<table, writer, file, global_downloaded, task, faults>>
-----------------------------------------------------------------------------
(* handle_range_retry. *)

\* run_live returns an error: what it owned and had buffered is dropped; the
\* writer task, detached, still writes what it was sent.
Die(c) ==
  /\ Become(c, Idle("gone"))
  /\ writer' = [writer EXCEPT ![c].pending = {}]

\* The scaler's count of workers, by which a failure that asks for fewer of them
\* stops this one or not, is as old as its last tick: either may happen.
HandleRangeRetry(c) ==
  LET next == [worker[c] EXCEPT !.phase = "top", !.failures = @ + 1]
  IN \/ /\ worker[c].failures >= MaxRetries \/ "abort" \in Features
        /\ Die(c)
        /\ UNCHANGED table
     \/ /\ worker[c].failures < MaxRetries
        /\ Become(c, next)
        /\ UNCHANGED <<table, writer>>
     \/ /\ "reduce_workers" \in Features  \* RetryHint::ReduceWorkers
        /\ worker[c].failures < MaxRetries
        /\ RelinquishRange(worker[c].range, worker[c].cursor)
        /\ Become(c, [next EXCEPT !.stop = TRUE])
        /\ UNCHANGED writer

NetworkFault ==
  /\ "network" \in Features
  /\ faults < MaxFaults
  /\ faults' = faults + 1

RequestFails(c) ==
  /\ At(c, "opening")
  /\ NetworkFault
  /\ HandleRangeRetry(c)
  /\ UNCHANGED <<file, global_downloaded, task>>

MadeProgress(c) == worker[c].cursor > worker[c].start

StreamBreaks(c) ==
  /\ At(c, "frame") /\ ~halted
  /\ NetworkFault
  /\ \/ /\ MadeProgress(c)
        /\ Become(c, [worker[c] EXCEPT !.phase = "flush_partial", !.failures = 0])
        /\ UNCHANGED <<table, writer>>
     \/ ~MadeProgress(c) /\ HandleRangeRetry(c)
  /\ UNCHANGED <<file, global_downloaded, task>>
-----------------------------------------------------------------------------
(* Reading a body. *)

\* A halt is noticed when the next frame arrives, a piece or an error; either is
\* dropped.
HaltOnFrame(c) ==
  /\ At(c, "frame") /\ halted
  /\ \/ worker[c].cursor < worker[c].body_end /\ UNCHANGED faults
     \/ NetworkFault
  /\ Go(c, "flush_halt")
  /\ UNCHANGED <<table, writer, file, global_downloaded, task>>

\* The end the range had when the request was sent is used.
BadClippedEnd(c, len) == worker[c].cursor + len

\* How far a piece of `len` bytes may move the cursor: the end of the range is
\* read anew, because another connection may have stolen what lies beyond it.
ClippedEnd(c, len) ==
  LET max == dl_ranges[worker[c].range].end
  IN IF worker[c].cursor + len < max THEN worker[c].cursor + len ELSE max

\* A piece of body arrives.  The wait for bandwidth tokens lies between the
\* check for a halt and this step, so a halt does not disable it.
ReceiveChunk(c, n) ==
  LET w   == worker[c]
      i   == w.range
      len == IF n < w.body_end - w.cursor THEN n ELSE w.body_end - w.cursor
      new == ClippedEnd(c, len)
  IN /\ At(c, "frame") /\ w.cursor < w.body_end
     /\ \/ /\ w.cursor >= dl_ranges[i].end
           /\ Go(c, "flush_end")
           /\ UNCHANGED <<table, writer, global_downloaded>>
        \/ /\ w.cursor < dl_ranges[i].end
           /\ writer' = [writer EXCEPT ![c].pending = @ \cup Between(w.cursor, new)]
           /\ dl_ranges' = [dl_ranges EXCEPT ![i].cursor = new]
           /\ global_downloaded' = global_downloaded + (new - w.cursor)
           /\ Become(c, [w EXCEPT !.phase = "received", !.cursor = new,
                                  !.clipped = new < w.cursor + len])
           /\ UNCHANGED <<next_unassigned_idx, borrow_cursor, halted>>
     /\ UNCHANGED <<file, task, faults>>

\* The buffer reached its target size.
FlushTarget(c) ==
  /\ At(c, "received") /\ writer[c].pending # {}
  /\ FlushPending(c)
  /\ UNCHANGED <<table, worker, file, global_downloaded, task, faults>>

HaltAfterChunk(c) ==
  /\ At(c, "received") /\ halted
  /\ Go(c, "flush_halt")
  /\ UNCHANGED <<table, writer, file, global_downloaded, task, faults>>

Prefetch(c) ==
  /\ "prefetch" \in Features
  /\ At(c, "received") /\ ~halted
  /\ worker[c].prefetched = 0 /\ ~worker[c].exhausted
  /\ Go(c, "fetching")
  /\ UNCHANGED <<table, writer, file, global_downloaded, task, faults>>

\* After a piece: stop when asked to, leave a range that was cut, or read on.
AfterChunk(c) ==
  /\ \/ At(c, "received") /\ ~halted
     \/ At(c, "collected")
  /\ Go(c, IF worker[c].stop THEN "flush_stop"
           ELSE IF worker[c].clipped THEN "flush_end" ELSE "frame")
  /\ UNCHANGED <<table, writer, file, global_downloaded, task, faults>>

\* The server closes the body, having sent all of it or (a fault) less.
EndOfBody(c) ==
  LET w == worker[c]
  IN /\ At(c, "frame")
     /\ \/ w.cursor = w.body_end /\ UNCHANGED faults
        \/ w.cursor < w.body_end /\ NetworkFault
     /\ Become(c, [w EXCEPT
          !.phase    = IF w.cursor >= dl_ranges[w.range].end THEN "flush_end"
                       ELSE IF MadeProgress(c) THEN "flush_partial" ELSE "top",
          !.failures = IF MadeProgress(c) THEN 0 ELSE @])
     /\ UNCHANGED <<table, writer, file, global_downloaded, task>>
-----------------------------------------------------------------------------
(* What follows a flush. *)

FinishRange(c) ==
  /\ At(c, "flush_end")
  /\ FlushPending(c)
  /\ MarkFinished(worker[c].range)
  /\ Become(c, [worker[c] EXCEPT !.phase = "top", !.range = 0, !.cursor = 0,
                                 !.start = 0, !.body_end = 0, !.clipped = FALSE,
                                 !.failures = 0])
  /\ UNCHANGED <<file, global_downloaded, task, faults>>

ReopenRange(c) ==
  /\ At(c, "flush_partial")
  /\ FlushPending(c)
  /\ Go(c, "top")
  /\ UNCHANGED <<table, file, global_downloaded, task, faults>>

\* A halt seen while reading: the range is given back at once.
GiveBackHalted(c) ==
  /\ At(c, "flush_halt")
  /\ FlushPending(c)
  /\ RelinquishRange(worker[c].range, worker[c].cursor)
  /\ Become(c, [worker[c] EXCEPT !.phase = "exit", !.range = 0])
  /\ UNCHANGED <<file, global_downloaded, task, faults>>

\* Stopped by the scaler: the current range is given back, a prefetched one is
\* dropped with the worker.
GiveBackStopped(c) ==
  /\ At(c, "flush_stop")
  /\ FlushPending(c)
  /\ RelinquishRange(worker[c].range, worker[c].cursor)
  /\ Become(c, Idle("closing"))
  /\ UNCHANGED <<file, global_downloaded, task, faults>>

\* A flush finds the writer task dead: "writer task died" ends the worker.
FlushFails(c) ==
  /\ worker[c].phase \in {"received", "flush_end", "flush_partial",
                          "flush_halt", "flush_stop", "exit"}
  /\ writer[c].pending # {} /\ writer[c].dead
  /\ Die(c)
  /\ UNCHANGED <<table, file, global_downloaded, task, faults>>

\* Out of the loop: what is still owned is given back if there is a halt.
GiveBackOnExit(c) ==
  LET w == worker[c]
  IN /\ At(c, "exit") /\ halted /\ Owned(c) # {}
     /\ \/ /\ w.range # 0
           /\ RelinquishRange(w.range, w.cursor)
           /\ Become(c, [w EXCEPT !.range = 0])
        \/ /\ w.range = 0
           /\ RelinquishRange(w.prefetched, dl_ranges[w.prefetched].cursor)
           /\ Become(c, [w EXCEPT !.prefetched = 0])
     /\ UNCHANGED <<writer, file, global_downloaded, task, faults>>

\* A halted worker leaves without giving back.
BadCloseWriter(c) ==
  /\ At(c, "exit")
  /\ FlushPending(c)
  /\ Become(c, Idle("closing"))
  /\ UNCHANGED <<table, file, global_downloaded, task, faults>>

CloseWriter(c) ==
  /\ At(c, "exit") /\ (halted => Owned(c) = {})
  /\ FlushPending(c)
  /\ Become(c, Idle("closing"))
  /\ UNCHANGED <<table, file, global_downloaded, task, faults>>

\* The worker does not wait for its writer.
BadWorkerReturns(c) ==
  /\ At(c, "closing")
  /\ Become(c, Idle("gone"))
  /\ UNCHANGED <<table, writer, file, global_downloaded, task, faults>>

\* The writer task has drained its channel or failed; either way its result
\* does not reach the task that spawned the worker.
WorkerReturns(c) ==
  /\ At(c, "closing")
  /\ writer[c].queue = <<>>
  /\ Become(c, Idle("gone"))
  /\ UNCHANGED <<table, writer, file, global_downloaded, task, faults>>
-----------------------------------------------------------------------------
(* The writer tasks. *)

WriteChunk(c) ==
  /\ writer[c].queue # <<>>
  /\ file' = file \cup Head(writer[c].queue)
  /\ writer' = [writer EXCEPT ![c].queue = Tail(@)]
  /\ UNCHANGED <<table, worker, global_downloaded, task, faults>>

WriteFails(c) ==
  /\ "disk" \in Features
  /\ writer[c].queue # <<>>
  /\ writer' = [writer EXCEPT ![c].queue = <<>>, ![c].dead = TRUE]
  /\ UNCHANGED <<table, worker, file, global_downloaded, task, faults>>
-----------------------------------------------------------------------------
(* The scaler and the life of the run. *)

\* A tick of the scaler looks at the halt, at the bytes and at the number of its
\* workers when it begins, and acts several awaits later.

\* A worker is added below the floor, or for speed.  Connection ids are never
\* used twice in the code; here an id returns once no range bears it, which
\* bounds the ids.
Spawn(c) ==
  /\ scaler_running
  /\ Cardinality(Live) < MinConnections \/ "scale_up" \in Features
  /\ worker[c].phase \in {"unborn", "gone"}
  /\ writer[c].queue = <<>>
  /\ \A i \in DOMAIN dl_ranges :
       dl_ranges[i].assigned_to = c => dl_ranges[i].cursor = dl_ranges[i].end
  /\ Become(c, Idle("top"))
  /\ writer' = [writer EXCEPT ![c] = FreshWriter]
  /\ UNCHANGED <<table, file, global_downloaded, task, faults>>

\* Whether more workers are left than the floor is not looked at again.
StopWorker(c) ==
  /\ "scale_down" \in Features
  /\ scaler_running
  /\ worker[c].range # 0 /\ ~worker[c].stop
  /\ Become(c, [worker[c] EXCEPT !.stop = TRUE])
  /\ UNCHANGED <<table, writer, file, global_downloaded, task, faults>>

\* The scaler ignores a halt.
BadScalerExits ==
  /\ scaler_running
  /\ global_downloaded >= Total
  /\ scaler_running' = FALSE
  /\ UNCHANGED <<table, worker, writer, file, global_downloaded, outcome, pauses,
                 inherited, faults>>

ScalerExits ==
  /\ scaler_running
  /\ halted \/ global_downloaded >= Total
  /\ scaler_running' = FALSE
  /\ UNCHANGED <<table, worker, writer, file, global_downloaded, outcome, pauses,
                 inherited, faults>>

\* request_pause, at any moment up to the verdict.
Pause ==
  /\ outcome = "running" /\ ~halted
  /\ pauses < MaxPauses
  /\ pauses' = pauses + 1
  /\ halted' = TRUE
  /\ UNCHANGED <<dl_ranges, next_unassigned_idx, borrow_cursor, worker, writer, file,
                 global_downloaded, scaler_running, outcome, inherited, faults>>

\* Every sender of work requests is gone: Coordinator::run returns, and the
\* counter decides.
Conclude ==
  /\ outcome = "running"
  /\ ~scaler_running /\ Live = {}
  /\ outcome' = IF global_downloaded >= Total \/ ~halted THEN "completed" ELSE "paused"
  /\ UNCHANGED <<table, worker, writer, file, global_downloaded, scaler_running, pauses,
                 inherited, faults>>

Launched == [c \in Connections |-> Idle(IF c \in Initial THEN "top" ELSE "unborn")]

\* The task is launched again from its snapshot: the counter restarts from the
\* table, and prepare_download_file creates (truncates) the file.
Resume ==
  /\ "resume" \in Features
  /\ outcome = "paused"
  /\ Table!ResumeFromSnapshot
  /\ global_downloaded' = Table!SnapshotDownloaded
  /\ inherited' = Table!Fetched
  /\ file' = {}
  /\ worker' = Launched
  /\ writer' = [c \in Connections |-> FreshWriter]
  /\ scaler_running' = TRUE
  /\ outcome' = "running"
  /\ UNCHANGED <<pauses, faults>>
-----------------------------------------------------------------------------
Init ==
  /\ Table!Init
  /\ worker = Launched
  /\ writer = [c \in Connections |-> FreshWriter]
  /\ file = {}
  /\ global_downloaded = 0
  /\ scaler_running = TRUE
  /\ outcome = "running"
  /\ inherited = {}
  /\ faults = 0
  /\ pauses = 0

WorkerStep(c) ==
  \/ LeaveHalted(c) \/ TakePrefetched(c) \/ AskForWork(c)
  \/ SkipEmptyRange(c) \/ SendRequest(c)
  \/ FlushTarget(c) \/ HaltAfterChunk(c) \/ Prefetch(c) \/ AfterChunk(c)
  \/ FinishRange(c) \/ ReopenRange(c) \/ GiveBackHalted(c) \/ GiveBackStopped(c)
  \/ FlushFails(c) \/ GiveBackOnExit(c) \/ CloseWriter(c) \/ WorkerReturns(c)

\* What the origin does in answer to a worker.
OriginStep(c) ==
  \/ ReceiveResponse(c)
  \/ \E n \in Chunks : ReceiveChunk(c, n)
  \/ EndOfBody(c) \/ HaltOnFrame(c)
  \/ RequestFails(c) \/ StreamBreaks(c)

CoordinatorStep(c) == Grant(c) \/ Refuse(c)
WriterStep(c) == WriteChunk(c) \/ WriteFails(c)

Next ==
  \/ \E c \in Connections : WorkerStep(c)
  \/ \E c \in Connections : OriginStep(c)
  \/ \E c \in Connections : CoordinatorStep(c)
  \/ \E c \in Connections : WriterStep(c)
  \/ \E c \in Connections : Spawn(c) \/ StopWorker(c)
  \/ ScalerExits \/ Pause \/ Conclude \/ Resume

Spec == Init /\ [][Next]_vars

\* The tasks of one connection: its worker, its writer, the coordinator on its
\* behalf, and the origin, which answers with data once its faults are spent.
ConnectionStep(c) ==
  WorkerStep(c) \/ OriginStep(c) \/ CoordinatorStep(c) \/ WriterStep(c)

\* The single-threaded scheduler serves every ready task, and timers fire.
Fairness ==
  /\ \A c \in Connections : WF_vars(ConnectionStep(c))
  /\ WF_vars(\E c \in Connections : Spawn(c))
  /\ WF_vars(ScalerExits \/ Conclude)

FairSpec == Spec /\ Fairness
-----------------------------------------------------------------------------
(* Properties. *)

TypeOK ==
  /\ Table!TypeOK
  /\ worker \in [Connections -> Worker]
  /\ writer \in [Connections -> Writer]
  /\ file \subseteq Byte
  /\ global_downloaded \in Nat
  /\ scaler_running \in BOOLEAN
  /\ outcome \in {"running", "completed", "paused"}
  /\ inherited \subseteq Byte
  /\ faults \in 0..MaxFaults
  /\ pauses \in 0..MaxPauses

\* A worker holds exactly the ranges the table says it is downloading: no two
\* workers write the same bytes, and no unfinished range belongs to a worker
\* that is gone (assigned_to and status are written by coordinator and worker).
OwnersAgree ==
  /\ \A c \in Connections : \A i \in Owned(c) :
       dl_ranges[i].assigned_to = c /\ dl_ranges[i].status = "ACTIVE"
  /\ \A i \in DOMAIN dl_ranges :
       dl_ranges[i].status = "ACTIVE" => i \in Owned(dl_ranges[i].assigned_to)

\* The counter that decides "completed" counts each byte of the table once,
\* although workers add to it piece by piece and a resume recomputes it.
CounterMatchesTable == global_downloaded = Table!SnapshotDownloaded

\* When a run is over, every byte it counted as downloaded is in the file: no
\* buffer was dropped on any of the ways out of run_live.
CountedBytesAreOnDisk ==
  outcome # "running" => Table!Fetched \subseteq file \cup inherited

\* The bytes that are written or will be, unless a write fails.
Kept ==
  file \cup inherited
  \cup UNION {writer[c].pending \cup UNION {writer[c].queue[k] : k \in DOMAIN writer[c].queue} :
               c \in Connections}

\* Whatever else goes wrong (a retry limit, a halt, a stop, an error in the
\* middle of a body), a byte the table counts is only ever lost when a write
\* failed: no way out of run_live but "writer task died" drops a buffer.
OnlyFailedWritesLoseBytes ==
  [][Table!Fetched \subseteq Kept =>
       \/ Table!Fetched' \subseteq Kept'
       \/ \E c \in Connections : writer'[c].dead]_vars

\* "Completed" means the whole file is there.
CompletedIsOnDisk == outcome = "completed" => file = Byte

\* The workers drive the range table as its own specification says.
TableSpec == Table!Spec

\* A pause is answered: the run ends, whatever the workers were doing.
PauseEnds == halted ~> outcome # "running"

\* A download nobody pauses completes.
Completes == <>(outcome = "completed")

\* A resumed download does not stay dead: it completes unless paused again.
ResumedCompletes ==
  (outcome = "running" /\ pauses > 0 /\ ~halted) ~> (halted \/ outcome = "completed")
=============================================================================
