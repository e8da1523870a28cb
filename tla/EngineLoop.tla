---------------------------- MODULE EngineLoop ----------------------------
(***************************************************************************)
(* The life of the downloads of one engine (engine/runtime/loop_impl.rs    *)
(* DownloadEngine::run): commands from clients and from the download tasks *)
(* in one bounded channel, launch slots, paused and persisted tasks.  What *)
(* a download does between its launch and its end is module Transfer.      *)
(***************************************************************************)
EXTENDS Integers, Sequences, FiniteSets

CONSTANTS
  Tasks,              \* download ids
  MaxConcurrentTasks, \* launch slots
  ChannelCap,         \* capacity of the command channel (100)
  Habits,             \* what clients do beyond the patient ones, see below
  Failures,           \* how a launch may fail, see below
  MaxCommands         \* bound: commands a client sends for one task

\* double_resume  resume again before the resumed download is seen running
\* quick_pause    pause again before the resumed download is seen running
\* stop_cancelled pause (or shut down, which pauses everything) after a cancel
AllHabits == {"double_resume", "quick_pause", "stop_cancelled"}

\* start   no answer with a size           file  the file cannot be prepared
\* budget  no connection to be had when a halt comes
AllFailures == {"start", "file", "budget"}

ASSUME EngineAssumption ==
  /\ MaxConcurrentTasks \in Nat \ {0}
  /\ ChannelCap \in Nat \ {0}
  /\ Habits \subseteq AllHabits
  /\ Failures \subseteq AllFailures
  /\ MaxCommands \in Nat

VARIABLES
  cmds,             \* the command channel
  pending_launches, \* VecDeque<PendingLaunch>, by task
  active_controls,  \* tasks that occupy a slot
  paused_tasks,     \* snapshots kept in memory
  persisted_paths,  \* snapshots written to disk by this engine
  deferred_resumes,
  engine_up,        \* DownloadEngine::run has not returned
  runtimes,         \* the running download tasks with their RuntimeControl
  launches,         \* launches of each task so far; names the newest control
  status,           \* the last status sent for each task
  seen,             \* that status, or "waiting" since a resume was sent
  wish,             \* the last thing the client asked for
  sent              \* commands sent (bound)

loop == <<pending_launches, active_controls, paused_tasks, persisted_paths,
          deferred_resumes, engine_up>>
clients == <<wish, sent>>
view == <<status, seen>>
vars == <<cmds, loop, runtimes, launches, view, clients>>

HaltMode == {"Running", "Draining", "Hibernating", "PersistToDisk"}
\* Refused is Error("no connection budget available").
Status == {"None", "Queued", "Downloading", "Paused", "Stopped", "Completed", "Error", "Refused"}
Final == {"Completed", "Error"}
Ended == Final \cup {"Refused"}

\* One run_download_task: `control` tells its RuntimeControl from later ones.
\* starting  asks for the size   waiting  for its file, then for a connection
\* running   has workers         leaving  hands its snapshot to the loop
Runtime == [task : Tasks, control : Nat, halt_mode : HaltMode,
            phase : {"starting", "waiting", "running", "leaving"}]

EngineCommand ==
  [kind : {"Add", "Stop", "Cancel", "Resume", "RuntimeStopped"},
   task : Tasks, halt_mode : HaltMode]

Cmd(k, t) == [kind |-> k, task |-> t, halt_mode |-> "Running"]
RuntimeStopped(t, m) == [kind |-> "RuntimeStopped", task |-> t, halt_mode |-> m]

\* A definition named Bad... is a mistake on purpose: put in the place of the
\* one below it, it shows that a property notices.

\* The channel never pushes back.
BadSend(c) == cmds' = Append(cmds, c)

Send(c) == Len(cmds) < ChannelCap /\ cmds' = Append(cmds, c)

Report(t, s) ==
  /\ status' = [status EXCEPT ![t] = s]
  /\ seen' = [seen EXCEPT ![t] = s]

Current(t) == {r \in runtimes : r.task = t /\ r.control = launches[t]}
-----------------------------------------------------------------------------
(* DownloadHandle and TurService: what clients send. *)

MaySend(t) == engine_up /\ status[t] # "None" /\ sent[t] < MaxCommands

Ask(t, kind, w) ==
  /\ Send(Cmd(kind, t))
  /\ wish' = [wish EXCEPT ![t] = w]
  /\ sent' = [sent EXCEPT ![t] = @ + 1]
  /\ UNCHANGED <<loop, runtimes, launches, status>>

AddDownload(t) ==
  /\ engine_up /\ status[t] = "None"
  /\ Send(Cmd("Add", t))
  /\ Report(t, "Queued")
  /\ wish' = [wish EXCEPT ![t] = "run"]
  /\ UNCHANGED <<loop, runtimes, launches, sent>>

PauseDownload(t) ==
  /\ MaySend(t)
  /\ \/ seen[t] = "Downloading" /\ wish[t] = "run"
     \/ "quick_pause" \in Habits /\ seen[t] = "waiting" /\ wish[t] = "run"
     \/ "stop_cancelled" \in Habits /\ wish[t] = "cancel"
  /\ Ask(t, "Stop", IF wish[t] = "cancel" THEN "cancel" ELSE "pause")
  /\ UNCHANGED seen

ResumeDownload(t) ==
  /\ MaySend(t)
  /\ \/ wish[t] = "pause"
     \/ wish[t] = "cancel" /\ seen[t] = "Stopped"
     \/ "double_resume" \in Habits /\ wish[t] = "run" /\ seen[t] = "waiting"
  /\ Ask(t, "Resume", "run")
  /\ seen' = [seen EXCEPT ![t] = "waiting"]

CancelDownload(t) ==
  /\ MaySend(t)
  /\ \/ wish[t] = "run" /\ seen[t] = "Downloading"
     \/ wish[t] = "pause" /\ seen[t] = "Paused"
  /\ Ask(t, "Cancel", "cancel")
  /\ UNCHANGED seen
-----------------------------------------------------------------------------
(* DownloadEngine::run. *)

\* One slot is never used.
BadSlotFree(active) == Cardinality(active) + 1 < MaxConcurrentTasks

SlotFree(active) == Cardinality(active) < MaxConcurrentTasks

\* What is launched is looked at and not taken.
BadDequeue(k) == UNCHANGED pending_launches

Dequeue(k) == pending_launches' = SubSeq(pending_launches, k + 1, Len(pending_launches))

\* The refill tick launches what is queued, the first k of it, as long as a slot
\* is free; each launch gets a control of its own.
LaunchQueued ==
  LET first(k) == {pending_launches[j] : j \in 1..k}
      count(t, k) == Cardinality({j \in 1..k : pending_launches[j] = t})
  IN /\ engine_up
     /\ \E k \in DOMAIN pending_launches :
          /\ \A j \in 0..(k - 1) : SlotFree(active_controls \cup first(j))
          /\ k = Len(pending_launches) \/ ~SlotFree(active_controls \cup first(k))
          /\ active_controls' = active_controls \cup first(k)
          /\ launches' = [t \in Tasks |-> launches[t] + count(t, k)]
          /\ runtimes' = runtimes \cup
               {[task |-> pending_launches[j],
                 control |-> launches[pending_launches[j]] + count(pending_launches[j], j),
                 halt_mode |-> "Running", phase |-> "starting"] : j \in 1..k}
          /\ Dequeue(k)
     /\ UNCHANGED <<cmds, paused_tasks, persisted_paths, deferred_resumes, engine_up,
                    view, clients>>

\* The next command is of this kind and for task t.
Receive(kind, t) ==
  /\ engine_up /\ cmds # <<>>
  /\ Head(cmds).kind = kind /\ Head(cmds).task = t
  /\ cmds' = Tail(cmds)

HandleAdd(t) ==
  /\ Receive("Add", t)
  /\ pending_launches' = Append(pending_launches, t)
  /\ UNCHANGED <<active_controls, paused_tasks, persisted_paths, deferred_resumes,
                 engine_up, runtimes, launches, view, clients>>

\* The snapshot is used and stays.
BadTakePaused(t) == UNCHANGED paused_tasks

TakePaused(t) == paused_tasks' = paused_tasks \ {t}

\* The newest control of an active task is told to halt; the task it steers
\* may have ended already, or have read the mode it leaves with.
SetHaltMode(t, m) ==
  LET told == {r \in Current(t) : r.phase # "leaving"} IN
    runtimes' = (runtimes \ told) \cup {[r EXCEPT !.halt_mode = m] : r \in told}

\* The pause is reported before the download has stopped.
BadHandleStop(t) ==
  /\ Receive("Stop", t)
  /\ IF t \in active_controls THEN SetHaltMode(t, "Draining") ELSE UNCHANGED runtimes
  /\ Report(t, "Paused")
  /\ UNCHANGED <<loop, launches, clients>>

HandleStop(t) ==
  /\ Receive("Stop", t)
  /\ IF t \in active_controls THEN SetHaltMode(t, "Draining") ELSE UNCHANGED runtimes
  /\ UNCHANGED <<loop, launches, view, clients>>

\* A paused download cannot be cancelled.
BadCancelsPaused(t) == FALSE

CancelsPaused(t) == t \notin active_controls /\ t \in paused_tasks

HandleCancel(t) ==
  /\ Receive("Cancel", t)
  /\ \/ /\ t \in active_controls
        /\ SetHaltMode(t, "PersistToDisk")
        /\ UNCHANGED <<paused_tasks, persisted_paths, view>>
     \/ /\ CancelsPaused(t)
        /\ TakePaused(t)
        /\ persisted_paths' = persisted_paths \cup {t}
        /\ Report(t, "Stopped")
        /\ UNCHANGED runtimes
     \/ /\ t \notin active_controls /\ ~CancelsPaused(t)
        /\ UNCHANGED <<runtimes, paused_tasks, persisted_paths, view>>
  /\ UNCHANGED <<pending_launches, active_controls, deferred_resumes, engine_up,
                 launches, clients>>

\* A resume never waits.
BadResumeWaits(t) == FALSE

ResumeWaits(t) == t \in active_controls

\* A resume waits for a pause still in flight; one of an unknown task is an
\* error that ends the engine loop.
HandleResume(t) ==
  /\ Receive("Resume", t)
  /\ \/ /\ ResumeWaits(t)
        /\ deferred_resumes' = deferred_resumes \cup {t}
        /\ UNCHANGED <<pending_launches, paused_tasks, engine_up>>
     \/ /\ ~ResumeWaits(t)
        /\ t \in paused_tasks \cup persisted_paths
        /\ pending_launches' = Append(pending_launches, t)
        /\ TakePaused(t)
        /\ UNCHANGED <<deferred_resumes, engine_up>>
     \/ /\ ~ResumeWaits(t)
        /\ t \notin paused_tasks \cup persisted_paths
        /\ engine_up' = FALSE
        /\ UNCHANGED <<pending_launches, paused_tasks, deferred_resumes>>
  /\ UNCHANGED <<active_controls, persisted_paths, runtimes, launches, view, clients>>

\* A resume that waited is forgotten ...
BadResumeDeferred(t) == FALSE

ResumeDeferred(t) == t \in deferred_resumes

\* ... or remembered for ever.
BadTakeDeferred(t) == UNCHANGED deferred_resumes

TakeDeferred(t) == deferred_resumes' = deferred_resumes \ {t}

HandleRuntimeStopped(t) ==
  /\ Receive("RuntimeStopped", t)
  /\ active_controls' = active_controls \ {t}
  /\ \/ /\ Head(cmds).halt_mode \in {"Draining", "Hibernating"}
        /\ ResumeDeferred(t)
        /\ TakeDeferred(t)
        /\ pending_launches' = Append(pending_launches, t)
        /\ UNCHANGED <<paused_tasks, persisted_paths, view>>
     \/ /\ Head(cmds).halt_mode \in {"Draining", "Hibernating"}
        /\ ~ResumeDeferred(t)
        /\ paused_tasks' = paused_tasks \cup {t}
        /\ status' = [status EXCEPT ![t] = "Paused"]
        /\ seen' = [seen EXCEPT ![t] = IF @ = "waiting" THEN @ ELSE "Paused"]
        /\ UNCHANGED <<pending_launches, persisted_paths, deferred_resumes>>
     \/ /\ Head(cmds).halt_mode = "PersistToDisk"
        /\ persisted_paths' = persisted_paths \cup {t}
        /\ Report(t, "Stopped")
        /\ UNCHANGED <<pending_launches, paused_tasks, deferred_resumes>>
  /\ UNCHANGED <<engine_up, runtimes, launches, clients>>
-----------------------------------------------------------------------------
(* run_download_task_local, seen from the loop. *)

Enters(r, phase) == runtimes' = (runtimes \ {r}) \cup {[r EXCEPT !.phase = phase]}

RuntimeStarts(r) ==
  /\ r.phase = "starting"
  /\ Enters(r, "waiting")
  /\ Report(r.task, "Downloading")
  /\ UNCHANGED <<cmds, loop, launches, clients>>

RuntimeConnects(r) ==
  /\ r.phase = "waiting"
  /\ Enters(r, "running")
  /\ UNCHANGED <<cmds, loop, launches, view, clients>>

\* When a launch fails, and as what it is reported.
FailsAt == [start |-> "starting", file |-> "waiting", budget |-> "waiting"]
FailsAs == [start |-> "Error", file |-> "Error", budget |-> "Refused"]

\* The task reports an error and is gone: its slot is not given back and, also
\* when it was halted while it waited for a connection, no snapshot is made.
RuntimeFails(r) ==
  \E f \in Failures :
    /\ r.phase = FailsAt[f]
    /\ f = "budget" => r.halt_mode # "Running"
    /\ runtimes' = runtimes \ {r}
    /\ Report(r.task, FailsAs[f])
    /\ UNCHANGED <<cmds, loop, launches, clients>>

\* Everything was downloaded, whether or not a halt came late: "Completed" is
\* reported, and the slot is not given back either.
RuntimeCompletes(r) ==
  /\ r.phase = "running"
  /\ runtimes' = runtimes \ {r}
  /\ Report(r.task, "Completed")
  /\ UNCHANGED <<cmds, loop, launches, clients>>

\* A halted download reads the mode it is in ...
RuntimeHalts(r) ==
  /\ r.phase = "running" /\ r.halt_mode # "Running"
  /\ Enters(r, "leaving")
  /\ UNCHANGED <<cmds, loop, launches, view, clients>>

\* ... and hands its snapshot to the loop when the channel has room.
RuntimeHandsOver(r) ==
  /\ r.phase = "leaving"
  /\ Send(RuntimeStopped(r.task, r.halt_mode))
  /\ runtimes' = runtimes \ {r}
  /\ UNCHANGED <<loop, launches, view, clients>>
-----------------------------------------------------------------------------
Init ==
  /\ cmds = <<>>
  /\ pending_launches = <<>>
  /\ active_controls = {}
  /\ paused_tasks = {}
  /\ persisted_paths = {}
  /\ deferred_resumes = {}
  /\ engine_up = TRUE
  /\ runtimes = {}
  /\ launches = [t \in Tasks |-> 0]
  /\ status = [t \in Tasks |-> "None"]
  /\ seen = [t \in Tasks |-> "None"]
  /\ wish = [t \in Tasks |-> "none"]
  /\ sent = [t \in Tasks |-> 0]

Handle ==
  \E t \in Tasks : HandleAdd(t) \/ HandleStop(t) \/ HandleCancel(t)
                   \/ HandleResume(t) \/ HandleRuntimeStopped(t)

RuntimeGoesOn(r) ==
  \/ RuntimeConnects(r) \/ RuntimeFails(r)
  \/ RuntimeCompletes(r) \/ RuntimeHalts(r) \/ RuntimeHandsOver(r)

Next ==
  \/ \E t \in Tasks : AddDownload(t) \/ PauseDownload(t) \/ ResumeDownload(t)
                      \/ CancelDownload(t)
  \/ LaunchQueued
  \/ Handle
  \/ \E r \in runtimes : RuntimeStarts(r) \/ RuntimeGoesOn(r)

Spec == Init /\ [][Next]_vars

\* The loop serves its channel and its timer; a download starts (or fails); one
\* that is not halted may wait or run for ever, but a halted one ends.
Fairness ==
  /\ WF_vars(Handle) /\ WF_vars(LaunchQueued)
  /\ \A t \in Tasks :
       /\ WF_vars(\E r \in runtimes : r.task = t /\ r.phase = "starting"
                                       /\ (RuntimeStarts(r) \/ RuntimeFails(r)))
       /\ WF_vars(\E r \in runtimes :
                    r.task = t /\ r.halt_mode # "Running" /\ RuntimeGoesOn(r))

FairSpec == Spec /\ Fairness

\* In addition, every download comes to an end by itself.
EndingSpec == FairSpec /\ WF_vars(\E r \in runtimes : RuntimeGoesOn(r))
-----------------------------------------------------------------------------
(* Properties. *)

TypeOK ==
  /\ cmds \in Seq(EngineCommand) /\ Len(cmds) <= ChannelCap
  /\ pending_launches \in Seq(Tasks)
  /\ active_controls \subseteq Tasks
  /\ paused_tasks \subseteq Tasks
  /\ persisted_paths \subseteq Tasks
  /\ deferred_resumes \subseteq Tasks
  /\ engine_up \in BOOLEAN
  /\ runtimes \subseteq Runtime
  /\ launches \in [Tasks -> Nat]
  /\ status \in [Tasks -> Status]
  /\ seen \in [Tasks -> Status \cup {"waiting"}]
  /\ wish \in [Tasks -> {"none", "run", "pause", "cancel"}]
  /\ sent \in [Tasks -> 0..MaxCommands]

\* A download runs at most once, in a slot, and answers to the control the loop
\* holds: two runs would write the same file and one could not be stopped.
OneRunPerTask ==
  /\ \A r, s \in runtimes : r.task = s.task => r = s
  /\ \A r \in runtimes : r.task \in active_controls /\ r.control = launches[r.task]

Waiting(t, kind) == {k \in DOMAIN cmds : cmds[k].kind = kind /\ cmds[k].task = t}
Queued(t) == {k \in DOMAIN pending_launches : pending_launches[k] = t}

\* How often the loop, the channel and the tasks hold task t.
Places(t) ==
  Cardinality(Waiting(t, "Add")) + Cardinality(Queued(t))
  + Cardinality({r \in runtimes : r.task = t})
  + Cardinality(Waiting(t, "RuntimeStopped"))
  + Cardinality({t} \cap paused_tasks)

\* No download is lost or doubled: until it is over, or was refused a connection,
\* it is in exactly one place (a persisted one may be on disk only).
TaskInOnePlace ==
  \A t \in Tasks :
    status[t] \notin Ended \cup {"None"} =>
      \/ Places(t) = 1
      \/ Places(t) = 0 /\ t \in persisted_paths

\* A status a client acts on is true: a download reported paused or stopped is
\* not running, and can be resumed.
StatusIsTrue ==
  \A t \in Tasks :
    /\ status[t] = "Paused" => t \in paused_tasks \/ Queued(t) # {} \/ t \in active_controls
    /\ status[t] = "Stopped" => t \in persisted_paths
    /\ seen[t] \in {"Paused", "Stopped"} => \A r \in runtimes : r.task # t

\* No sequence of commands makes the engine loop return.
EngineStaysUp == engine_up

\* "Pause the download (connections are released, state kept in memory)": a pause
\* takes effect, unless the client changes its mind or the download completes or
\* fails by itself first.  Being refused a connection is what the pause does to a
\* download that waits for one, and no excuse.
PauseTakesEffect ==
  \A t \in Tasks : wish[t] = "pause" ~>
    (wish[t] # "pause" \/ status[t] \in Final \cup {"Paused"})

\* A resume is not lost, not even while the pause is still in flight.
ResumeTakesEffect ==
  \A t \in Tasks : (wish[t] = "run" /\ seen[t] = "waiting") ~>
    (wish[t] # "run" \/ seen[t] # "waiting" \/ status[t] \in Final)

\* A cancelled download ends on disk, unless it is over first or resumed.
CancelPersists ==
  \A t \in Tasks : wish[t] = "cancel" ~>
    (wish[t] # "cancel" \/ status[t] \in Final \cup {"Stopped"})

\* A queued download starts.
QueuedStarts ==
  \A t \in Tasks : status[t] = "Queued" ~> status[t] # "Queued"
=============================================================================
