------------------------- MODULE EngineLoopProofs -------------------------
(***************************************************************************)
(* Proofs about the engine loop, for any number of downloads, slots and    *)
(* commands and any capacity of the channel, with clients that wait to see *)
(* a download run before they pause it again and send no second resume.    *)
(* With other clients the loop may fail (run double_resume).               *)
(*                                                                         *)
(* None of the properties is inductive.  What ties them together is where  *)
(* a download is: in a command that waits, in the queue of launches, with  *)
(* a slot, or in a snapshot, and what its client may do meanwhile, which   *)
(* depends on the status it sees.  So the invariant speaks of one download *)
(* at a time, and a step of one download leaves the others' part alone.    *)
(***************************************************************************)
EXTENDS EngineLoop, SequenceTheorems, FiniteSetTheorems, TLAPS

Kinds == {"Add", "Stop", "Cancel", "Resume", "RuntimeStopped"}

\* The clients the proofs are about.
Patient == Habits \subseteq {"stop_cancelled"}

(* Where download t is *)

Has(kind, t) == \E i \in DOMAIN cmds : cmds[i].kind = kind /\ cmds[i].task = t

Once(kind, t) ==
  \A i, j \in DOMAIN cmds :
    /\ cmds[i].kind = kind /\ cmds[i].task = t
    /\ cmds[j].kind = kind /\ cmds[j].task = t
    => i = j

\* It has ended with the order to be written to disk.
Persisting(t) ==
  \E i \in DOMAIN cmds : /\ cmds[i].kind = "RuntimeStopped" /\ cmds[i].task = t
                         /\ cmds[i].halt_mode = "PersistToDisk"

InQueue(t) == \E k \in DOMAIN pending_launches : pending_launches[k] = t

QueuedOnce(t) ==
  \A j, k \in DOMAIN pending_launches :
    pending_launches[j] = t /\ pending_launches[k] = t => j = k

Runs(t) == {r \in runtimes : r.task = t}

(* The invariant of download t *)

\* Nothing is there twice, and a run answers to the newest control.
Counted(t) ==
  /\ \A kind \in {"Add", "RuntimeStopped", "Resume", "Cancel"} : Once(kind, t)
  /\ QueuedOnce(t)
  /\ \A r, s \in Runs(t) : r = s
  /\ \A r \in Runs(t) : r.control = launches[t]

\* It is in one place at a time; a slot without a run belongs to one that is over.
OnePlace(t) ==
  /\ Has("Add", t) =>
       /\ ~InQueue(t) /\ t \notin active_controls /\ t \notin paused_tasks
       /\ wish[t] = "run" /\ seen[t] = "Queued"
  /\ InQueue(t) =>
       /\ t \notin active_controls /\ t \notin paused_tasks
       /\ wish[t] = "run" /\ seen[t] \in {"Queued", "waiting"}
  /\ t \in active_controls => t \notin paused_tasks
  /\ Runs(t) # {} =>
       /\ t \in active_controls /\ ~Has("RuntimeStopped", t)
       /\ seen[t] \notin {"Paused", "Stopped"}
  /\ Has("RuntimeStopped", t) => t \in active_controls
  /\ t \in active_controls => (status[t] \in Ended <=> Runs(t) = {} /\ ~Has("RuntimeStopped", t))
  /\ status[t] \in Ended => t \in active_controls /\ seen[t] \in Ended \cup {"waiting"}
  /\ seen[t] \in Ended => status[t] \in Ended

\* A resume on its way, or put off, is the client's last word, and there is no
\* launch on its way already; while a launch is, the client has no other wish.
Resuming(t) ==
  /\ Has("Resume", t) \/ t \in deferred_resumes =>
       /\ ~Has("Add", t) /\ ~InQueue(t)
       /\ wish[t] = "run" /\ seen[t] \in Ended \cup {"waiting"}
       /\ \A r \in Runs(t) : r.phase # "starting"
  /\ t \in deferred_resumes => t \in active_controls /\ ~Has("Resume", t)
  /\ \A r \in Runs(t) : r.phase = "starting" =>
       wish[t] = "run" /\ seen[t] \in {"Queued", "waiting"}

\* A run is to be persisted only while its client waits for the cancel to be seen.
Cancelling(t) ==
  LET persists == Persisting(t) \/ \E r \in Runs(t) : r.halt_mode = "PersistToDisk" IN
    /\ Has("Cancel", t) \/ persists => wish[t] = "cancel" /\ seen[t] # "Stopped"
    /\ ~(Has("Cancel", t) /\ persists)

\* It is nowhere before it is added, and somewhere from then on.
Somewhere(t) ==
  /\ status[t] = "None" =>
       /\ \A kind \in Kinds : ~Has(kind, t)
       /\ ~InQueue(t) /\ Runs(t) = {}
       /\ t \notin active_controls /\ t \notin paused_tasks /\ t \notin deferred_resumes
  /\ status[t] # "None" =>
       \/ Has("Add", t) \/ InQueue(t)
       \/ t \in active_controls \/ t \in paused_tasks \/ t \in persisted_paths
  /\ status[t] = "Paused" => InQueue(t) \/ t \in active_controls \/ t \in paused_tasks
  /\ status[t] = "Stopped" => t \in persisted_paths

TaskInv(t) == Counted(t) /\ OnePlace(t) /\ Resuming(t) /\ Cancelling(t) /\ Somewhere(t)

EngineInv == TypeOK /\ EngineStaysUp /\ \A t \in Tasks : TaskInv(t)

\* Nothing of download t changes but what its client asked for.
SamePlace(t) ==
  /\ (InQueue(t)' <=> InQueue(t)) /\ (QueuedOnce(t) => QueuedOnce(t)')
  /\ Runs(t)' = Runs(t) /\ launches'[t] = launches[t]
  /\ (t \in active_controls' <=> t \in active_controls)
  /\ (t \in paused_tasks' <=> t \in paused_tasks)
  /\ (t \in persisted_paths' <=> t \in persisted_paths)
  /\ (t \in deferred_resumes' <=> t \in deferred_resumes)

SameMessages(t) ==
  /\ \A kind \in Kinds : (Has(kind, t)' <=> Has(kind, t)) /\ (Once(kind, t) => Once(kind, t)')
  /\ Persisting(t)' => Persisting(t)

SameView(t) == status'[t] = status[t] /\ seen'[t] = seen[t] /\ wish'[t] = wish[t]

-----------------------------------------------------------------------------
(* The channel and the queue *)

\* A command that is sent is in the channel, next to those that were.
LEMMA SentIsThere ==
  ASSUME cmds \in Seq(EngineCommand), NEW c \in EngineCommand, cmds' = Append(cmds, c)
  PROVE  /\ \A kind \in Kinds, t \in Tasks :
              /\ Has(kind, t)' <=> Has(kind, t) \/ (c.kind = kind /\ c.task = t)
              /\ Once(kind, t) /\ ~(Has(kind, t) /\ c.kind = kind /\ c.task = t)
                   => Once(kind, t)'
         /\ \A t \in Tasks :
              Persisting(t)' => \/ Persisting(t)
                                \/ /\ c.kind = "RuntimeStopped" /\ c.task = t
                                   /\ c.halt_mode = "PersistToDisk"
<1> DEFINE n == Len(cmds) + 1
<1>1. /\ DOMAIN cmds = 1..Len(cmds) /\ Len(cmds) \in Nat /\ DOMAIN cmds' = 1..n
      /\ \A i \in DOMAIN cmds : cmds'[i] = cmds[i]
      /\ cmds'[n] = c
  <2>1. /\ cmds' \in Seq(EngineCommand) /\ Len(cmds') = n
        /\ \A i \in 1..Len(cmds) : cmds'[i] = cmds[i]
        /\ cmds'[n] = c
    BY AppendProperties
  <2> QED BY <2>1, LenProperties
<1>2. \A i \in DOMAIN cmds' : (i \in DOMAIN cmds /\ cmds'[i] = cmds[i]) \/ (i = n /\ cmds'[i] = c)
  BY <1>1
<1>3. n \in DOMAIN cmds' /\ n \notin DOMAIN cmds /\ \A i \in DOMAIN cmds : i \in DOMAIN cmds'
  BY <1>1
<1>4. ASSUME NEW kind \in Kinds, NEW t \in Tasks
      PROVE  Has(kind, t)' <=> Has(kind, t) \/ (c.kind = kind /\ c.task = t)
  BY <1>1, <1>2, <1>3 DEF Has
<1>5. ASSUME NEW kind \in Kinds, NEW t \in Tasks, Once(kind, t),
             ~(Has(kind, t) /\ c.kind = kind /\ c.task = t)
      PROVE  Once(kind, t)'
  <2> SUFFICES ASSUME NEW i \in DOMAIN cmds', NEW j \in DOMAIN cmds',
                      cmds'[i].kind = kind, cmds'[i].task = t,
                      cmds'[j].kind = kind, cmds'[j].task = t
               PROVE  i = j
    BY DEF Once
  <2> QED BY <1>2, <1>5 DEF Once, Has
<1>6. ASSUME NEW t \in Tasks, Persisting(t)'
      PROVE  \/ Persisting(t)
             \/ c.kind = "RuntimeStopped" /\ c.task = t /\ c.halt_mode = "PersistToDisk"
  BY <1>2, <1>6 DEF Persisting
<1> QED BY <1>4, <1>5, <1>6

\* A command that is taken was the first; the others stay.
LEMMA TakenIsGone ==
  ASSUME cmds \in Seq(EngineCommand), cmds # <<>>, cmds' = Tail(cmds)
  PROVE  /\ Head(cmds) \in EngineCommand /\ cmds' \in Seq(EngineCommand) /\ Len(cmds') = Len(cmds) - 1
         /\ \A kind \in Kinds, t \in Tasks :
              /\ Has(kind, t) <=>
                   Has(kind, t)' \/ (Head(cmds).kind = kind /\ Head(cmds).task = t)
              /\ Once(kind, t) => Once(kind, t)'
              /\ Once(kind, t) /\ Head(cmds).kind = kind /\ Head(cmds).task = t
                   => ~Has(kind, t)'
         /\ \A t \in Tasks : Persisting(t)' => Persisting(t)
         /\ /\ Head(cmds).kind = "RuntimeStopped" /\ Head(cmds).halt_mode = "PersistToDisk"
            => Persisting(Head(cmds).task)
<1> DEFINE h == Head(cmds)
<1>1. /\ h \in EngineCommand /\ cmds' \in Seq(EngineCommand) /\ Len(cmds') = Len(cmds) - 1
      /\ \A i \in 1..Len(cmds') : cmds'[i] = cmds[i + 1]
  BY HeadTailProperties
<1>2. DOMAIN cmds = 1..Len(cmds) /\ Len(cmds) \in Nat \ {0} /\ DOMAIN cmds' = 1..(Len(cmds) - 1)
  BY <1>1, EmptySeq, LenProperties
<1>3. h = cmds[1]
  OBVIOUS
<1> HIDE DEF h
<1>4. \A i \in DOMAIN cmds' : i + 1 \in DOMAIN cmds /\ i + 1 # 1 /\ cmds'[i] = cmds[i + 1]
  BY <1>1, <1>2
<1>5. \A i \in DOMAIN cmds : i = 1 \/ (i - 1 \in DOMAIN cmds' /\ cmds'[i - 1] = cmds[i])
  BY <1>1, <1>2
<1>6. 1 \in DOMAIN cmds /\ \A i \in DOMAIN cmds' : i \in Int
  BY <1>2
<1>7. ASSUME NEW kind \in Kinds, NEW t \in Tasks
      PROVE  Has(kind, t) <=> Has(kind, t)' \/ (h.kind = kind /\ h.task = t)
  <2>1. ASSUME NEW i \in DOMAIN cmds, cmds[i].kind = kind, cmds[i].task = t
        PROVE  Has(kind, t)' \/ (h.kind = kind /\ h.task = t)
    <3>1. CASE i = 1
      BY <3>1, <2>1, <1>3
    <3>2. CASE i # 1
      <4>1. PICK j \in DOMAIN cmds' : cmds'[j] = cmds[i]
        BY <3>2, <1>5
      <4> QED BY <4>1, <2>1 DEF Has
    <3> QED BY <3>1, <3>2
  <2>2. ASSUME NEW i \in DOMAIN cmds', cmds'[i].kind = kind, cmds'[i].task = t
        PROVE  Has(kind, t)
    BY <2>2, <1>4 DEF Has
  <2>3. ASSUME h.kind = kind, h.task = t
        PROVE  Has(kind, t)
    BY <2>3, <1>3, <1>6 DEF Has
  <2> QED BY <2>1, <2>2, <2>3 DEF Has
<1>8. ASSUME NEW kind \in Kinds, NEW t \in Tasks, Once(kind, t)
      PROVE  Once(kind, t)' /\ (h.kind = kind /\ h.task = t => ~Has(kind, t)')
  <2>1. ASSUME NEW i \in DOMAIN cmds', NEW j \in DOMAIN cmds',
               cmds'[i].kind = kind, cmds'[i].task = t,
               cmds'[j].kind = kind, cmds'[j].task = t
        PROVE  i = j
    <3>1. i + 1 = j + 1
      BY <2>1, <1>4, <1>8 DEF Once
    <3> QED BY <3>1, <1>6
  <2>2. ASSUME h.kind = kind, h.task = t, NEW i \in DOMAIN cmds',
               cmds'[i].kind = kind, cmds'[i].task = t
        PROVE  FALSE
    BY <2>2, <1>3, <1>4, <1>6, <1>8 DEF Once
  <2> QED BY <2>1, <2>2 DEF Once, Has
<1>9. ASSUME NEW t \in Tasks, Persisting(t)' PROVE Persisting(t)
  BY <1>4, <1>9 DEF Persisting
<1>10. h.kind = "RuntimeStopped" /\ h.halt_mode = "PersistToDisk" => Persisting(h.task)
  BY <1>3, <1>6 DEF Persisting
<1> QED BY <1>1, <1>7, <1>8, <1>9, <1>10 DEF h

\* Commands nobody takes or sends stay.
LEMMA NoMessage == UNCHANGED cmds => \A t \in Tasks : SameMessages(t)
BY DEF SameMessages, Has, Once, Persisting

\* A download put into the queue is in it, next to those that were.
LEMMA QueuedIsThere ==
  ASSUME pending_launches \in Seq(Tasks), NEW t \in Tasks,
         pending_launches' = Append(pending_launches, t)
  PROVE  /\ pending_launches' \in Seq(Tasks)
         /\ \A u \in Tasks : /\ InQueue(u)' <=> InQueue(u) \/ u = t
                             /\ QueuedOnce(u) /\ (u = t => ~InQueue(t)) => QueuedOnce(u)'
<1> DEFINE n == Len(pending_launches) + 1
<1>1. /\ pending_launches' \in Seq(Tasks) /\ Len(pending_launches') = n
      /\ \A i \in 1..Len(pending_launches) : pending_launches'[i] = pending_launches[i]
      /\ pending_launches'[n] = t
  BY AppendProperties
<1>2. /\ DOMAIN pending_launches = 1..Len(pending_launches) /\ Len(pending_launches) \in Nat
      /\ DOMAIN pending_launches' = 1..n
  BY <1>1, LenProperties
<1>3. \A i \in DOMAIN pending_launches' :
        \/ i \in DOMAIN pending_launches /\ pending_launches'[i] = pending_launches[i]
        \/ i = n /\ pending_launches'[i] = t
  BY <1>1, <1>2
<1>4. n \in DOMAIN pending_launches'
      /\ \A i \in DOMAIN pending_launches :
           i \in DOMAIN pending_launches' /\ pending_launches'[i] = pending_launches[i]
  BY <1>1, <1>2
<1>5. ASSUME NEW u \in Tasks PROVE InQueue(u)' <=> InQueue(u) \/ u = t
  BY <1>1, <1>3, <1>4 DEF InQueue
<1>6. ASSUME NEW u \in Tasks, QueuedOnce(u), u = t => ~InQueue(t) PROVE QueuedOnce(u)'
  BY <1>3, <1>6 DEF QueuedOnce, InQueue
<1> QED BY <1>1, <1>5, <1>6

-----------------------------------------------------------------------------
(* Downloads a step is not about *)

\* A step that touches neither slot, queue, snapshot, message nor run of a download
\* keeps what is said of it.
LEMMA UntouchedKeep ==
  ASSUME NEW t \in Tasks, TaskInv(t), SameMessages(t), SamePlace(t), SameView(t)
  PROVE  TaskInv(t)'
<1>1. \A kind \in {"Add", "RuntimeStopped", "Resume", "Cancel"} : Once(kind, t) => Once(kind, t)'
  BY DEF SameMessages, Kinds
<1>2. /\ Has("Add", t)' <=> Has("Add", t)
      /\ Has("Stop", t)' <=> Has("Stop", t)
      /\ Has("Cancel", t)' <=> Has("Cancel", t)
      /\ Has("Resume", t)' <=> Has("Resume", t)
      /\ Has("RuntimeStopped", t)' <=> Has("RuntimeStopped", t)
  BY DEF SameMessages, Kinds
<1>3. Counted(t)'
  BY <1>1 DEF TaskInv, Counted, SamePlace
<1>4. OnePlace(t)'
  BY <1>2 DEF TaskInv, OnePlace, SamePlace, SameView
<1>5. Resuming(t)'
  BY <1>2 DEF TaskInv, Resuming, SamePlace, SameView
<1>6. Cancelling(t)'
  BY <1>2 DEF TaskInv, Cancelling, SamePlace, SameView, SameMessages
<1>7. Somewhere(t)'
  BY <1>2 DEF TaskInv, Somewhere, SamePlace, SameView, Kinds
<1> QED BY <1>3, <1>4, <1>5, <1>6, <1>7 DEF TaskInv

-----------------------------------------------------------------------------
(* Types *)

\* A command is sent when there is room for it.
LEMMA SentHasRoom ==
  ASSUME TypeOK, NEW c \in EngineCommand, Send(c)
  PROVE  cmds' \in Seq(EngineCommand) /\ Len(cmds') <= ChannelCap /\ cmds' = Append(cmds, c)
<1>1. cmds' = Append(cmds, c) /\ Len(cmds) < ChannelCap /\ cmds \in Seq(EngineCommand)
  BY DEF TypeOK, Send
<1>2. cmds' \in Seq(EngineCommand) /\ Len(cmds') = Len(cmds) + 1 /\ Len(cmds) \in Nat
  BY <1>1, AppendProperties, LenProperties
<1> QED BY <1>1, <1>2, EngineAssumption

\* What the loop receives was a command, and the rest are commands.
LEMMA ReceivedIsCommand ==
  ASSUME TypeOK, NEW t \in Tasks, NEW kind \in Kinds, Receive(kind, t)
  PROVE  /\ cmds \in Seq(EngineCommand) /\ cmds # <<>> /\ cmds' = Tail(cmds)
         /\ Head(cmds) \in EngineCommand /\ Head(cmds).kind = kind /\ Head(cmds).task = t
         /\ cmds' \in Seq(EngineCommand) /\ Len(cmds') <= ChannelCap
<1>1. /\ cmds \in Seq(EngineCommand) /\ cmds # <<>> /\ cmds' = Tail(cmds) /\ Len(cmds) <= ChannelCap
      /\ Head(cmds).kind = kind /\ Head(cmds).task = t
  BY DEF TypeOK, Receive
<1>2. /\ Head(cmds) \in EngineCommand /\ cmds' \in Seq(EngineCommand) /\ Len(cmds') = Len(cmds) - 1
      /\ Len(cmds) \in Nat
  BY <1>1, HeadTailProperties, LenProperties
<1> QED BY <1>1, <1>2, EngineAssumption

\* Every command is a command and names a download.
LEMMA CommandTypes ==
  ASSUME NEW t \in Tasks
  PROVE  /\ \A kind \in Kinds : Cmd(kind, t) \in EngineCommand
         /\ \A m \in HaltMode : RuntimeStopped(t, m) \in EngineCommand
BY DEF Cmd, RuntimeStopped, EngineCommand, HaltMode, Kinds

\* A status that is reported is the one of the task.
LEMMA Reported ==
  ASSUME TypeOK, NEW t \in Tasks, NEW s \in Status, Report(t, s)
  PROVE  /\ status' \in [Tasks -> Status] /\ seen' \in [Tasks -> Status \cup {"waiting"}]
         /\ status'[t] = s /\ seen'[t] = s
         /\ \A u \in Tasks : u # t => status'[u] = status[u] /\ seen'[u] = seen[u]
BY DEF TypeOK, Report

\* What every client's request does.
LEMMA Asked ==
  ASSUME TypeOK, NEW t \in Tasks, NEW kind \in Kinds, NEW w \in {"none", "run", "pause", "cancel"},
         Ask(t, kind, w), MaySend(t)
  PROVE  /\ cmds' \in Seq(EngineCommand) /\ Len(cmds') <= ChannelCap
         /\ cmds' = Append(cmds, Cmd(kind, t))
         /\ wish' \in [Tasks -> {"none", "run", "pause", "cancel"}] /\ wish'[t] = w
         /\ \A u \in Tasks : u # t => wish'[u] = wish[u]
         /\ sent' \in [Tasks -> 0..MaxCommands]
         /\ UNCHANGED <<loop, runtimes, launches, status>>
<1>1. Cmd(kind, t) \in EngineCommand /\ Send(Cmd(kind, t))
  BY CommandTypes DEF Ask
<1>2. /\ cmds' \in Seq(EngineCommand) /\ Len(cmds') <= ChannelCap
      /\ cmds' = Append(cmds, Cmd(kind, t))
  BY <1>1, SentHasRoom
<1>3. /\ wish' \in [Tasks -> {"none", "run", "pause", "cancel"}] /\ wish'[t] = w
      /\ \A u \in Tasks : u # t => wish'[u] = wish[u]
  BY DEF Ask, TypeOK
<1>4. sent' \in [Tasks -> 0..MaxCommands]
  BY EngineAssumption DEF Ask, TypeOK, MaySend
<1> QED BY <1>2, <1>3, <1>4 DEF Ask

\* A run that is told to halt, and listens unless it leaves already.
Told(r, m) == IF r.phase = "leaving" THEN r ELSE [r EXCEPT !.halt_mode = m]

\* The runs of a halted download: the same, told to halt.
LEMMA Halted ==
  ASSUME NEW t \in Tasks, NEW m \in HaltMode, SetHaltMode(t, m), runtimes \subseteq Runtime,
         \A r \in Runs(t) : r.control = launches[t]
  PROVE  /\ runtimes' \subseteq Runtime
         /\ \A u \in Tasks : u # t => Runs(u)' = Runs(u)
         /\ \A r \in Runs(t)' : r.halt_mode = m \/ r \in Runs(t)
         /\ \A r \in Runs(t)' : \E s \in Runs(t) :
              s.phase = r.phase /\ s.control = r.control /\ r = Told(s, m)
         /\ Runs(t)' = {} <=> Runs(t) = {}
<1> DEFINE told == {r \in Runs(t) : r.phase # "leaving"}
<1>1. Current(t) = Runs(t)
  BY DEF Current, Runs
<1>2. runtimes' = (runtimes \ told) \cup {[r EXCEPT !.halt_mode = m] : r \in told}
  BY <1>1 DEF SetHaltMode
<1>3. \A r \in Runs(t) :
        /\ r \in Runtime /\ r.task = t /\ [r EXCEPT !.halt_mode = m] \in Runtime
        /\ [r EXCEPT !.halt_mode = m].task = t
        /\ [r EXCEPT !.halt_mode = m].halt_mode = m
        /\ [r EXCEPT !.halt_mode = m].phase = r.phase
        /\ [r EXCEPT !.halt_mode = m].control = r.control
  BY DEF Runs, Runtime
<1>4. runtimes' \subseteq Runtime
  BY <1>2, <1>3
<1>5. ASSUME NEW u \in Tasks, u # t PROVE Runs(u)' = Runs(u)
  BY <1>2, <1>3, <1>5 DEF Runs
<1>6. Runs(t)' = (Runs(t) \ told) \cup {[r EXCEPT !.halt_mode = m] : r \in told}
  BY <1>2, <1>3 DEF Runs
<1> HIDE DEF Runs
<1>7. \A r \in Runs(t)' :
        /\ r.halt_mode = m \/ r \in Runs(t)
        /\ \E s \in Runs(t) :
             s.phase = r.phase /\ s.control = r.control /\ r = Told(s, m)
  BY <1>3, <1>6 DEF Told
<1>8. Runs(t)' = {} <=> Runs(t) = {}
  <2>1. ASSUME NEW r \in Runs(t) PROVE Runs(t)' # {}
    <3>1. CASE r \in told
      <4>1. [r EXCEPT !.halt_mode = m] \in {[q EXCEPT !.halt_mode = m] : q \in told}
        BY <3>1
      <4> QED BY <4>1, <1>6
    <3>2. CASE r \notin told
      BY <2>1, <3>2, <1>6
    <3> QED BY <3>1, <3>2
  <2>2. Runs(t) = {} => Runs(t)' = {}
    BY <1>6
  <2> QED BY <2>1, <2>2
<1> QED BY <1>4, <1>5, <1>7, <1>8

-----------------------------------------------------------------------------
(* Clients *)

\* A new download is nowhere yet; its Add is the only thing of it.
LEMMA AddDownloadKeeps ==
  ASSUME EngineInv, NEW t \in Tasks, AddDownload(t)
  PROVE  EngineInv'
<1>1. TypeOK /\ Cmd("Add", t) \in EngineCommand /\ Send(Cmd("Add", t)) /\ "Queued" \in Status
      /\ Report(t, "Queued")
  BY CommandTypes DEF EngineInv, AddDownload, Kinds, Status
<1>2. /\ cmds' \in Seq(EngineCommand) /\ Len(cmds') <= ChannelCap
      /\ cmds' = Append(cmds, Cmd("Add", t)) /\ cmds \in Seq(EngineCommand)
  BY <1>1, SentHasRoom DEF TypeOK
<1>3. /\ status' \in [Tasks -> Status] /\ seen' \in [Tasks -> Status \cup {"waiting"}]
      /\ status'[t] = "Queued" /\ seen'[t] = "Queued"
      /\ \A u \in Tasks : u # t => status'[u] = status[u] /\ seen'[u] = seen[u]
  BY <1>1, Reported
<1>4. /\ wish' \in [Tasks -> {"none", "run", "pause", "cancel"}] /\ wish'[t] = "run"
      /\ \A u \in Tasks : u # t => wish'[u] = wish[u]
      /\ UNCHANGED <<loop, runtimes, launches, sent>> /\ status[t] = "None"
  BY <1>1 DEF AddDownload, TypeOK
<1>5. TypeOK' /\ engine_up'
  BY <1>1, <1>2, <1>3, <1>4 DEF TypeOK, loop, EngineInv, EngineStaysUp
<1>6. \A u \in Tasks : SamePlace(u)
  BY <1>4 DEF SamePlace, loop, InQueue, QueuedOnce, Runs
<1>7. /\ \A kind \in Kinds, u \in Tasks :
           /\ Has(kind, u)' <=> Has(kind, u) \/ (kind = "Add" /\ u = t)
           /\ Once(kind, u) /\ ~(Has(kind, u) /\ kind = "Add" /\ u = t) => Once(kind, u)'
      /\ \A u \in Tasks : Persisting(u)' => Persisting(u)
  BY <1>1, <1>2, SentIsThere DEF Cmd
<1>8. ASSUME NEW u \in Tasks, u # t PROVE TaskInv(u)'
  <2>1. SameMessages(u) /\ SameView(u)
    BY <1>3, <1>4, <1>7, <1>8 DEF SameMessages, SameView
  <2> QED BY <1>6, <2>1, UntouchedKeep DEF EngineInv
<1>9. TaskInv(t)'
  <2>1. TaskInv(t) /\ SamePlace(t) /\ UNCHANGED loop
    BY <1>4, <1>6 DEF EngineInv
  <2>2. /\ \A kind \in Kinds : ~Has(kind, t)
        /\ ~InQueue(t) /\ Runs(t) = {}
        /\ t \notin active_controls /\ t \notin paused_tasks /\ t \notin deferred_resumes
    BY <2>1, <1>4 DEF TaskInv, Somewhere
  <2>3. Has("Add", t)' /\ ~Has("Stop", t)' /\ ~Has("Cancel", t)' /\ ~Has("Resume", t)'
        /\ ~Has("RuntimeStopped", t)'
    BY <2>2, <1>7 DEF Kinds
  <2>4. /\ ~InQueue(t)' /\ Runs(t)' = {}
        /\ t \notin active_controls' /\ t \notin paused_tasks' /\ t \notin deferred_resumes'
    BY <2>1, <2>2 DEF SamePlace
  <2>5. Counted(t)'
    <3>1. \A kind \in {"Add", "RuntimeStopped", "Resume", "Cancel"} : Once(kind, t)'
      BY <2>1, <2>2, <1>7 DEF TaskInv, Counted, Kinds
    <3> QED BY <3>1, <2>1, <2>4 DEF TaskInv, Counted, SamePlace
  <2>6. OnePlace(t)'
    BY <2>3, <2>4, <1>3, <1>4 DEF OnePlace, Ended, Final
  <2>7. Resuming(t)'
    BY <2>3, <2>4 DEF Resuming
  <2>8. ~Persisting(t)'
    BY <2>2, <1>7 DEF Persisting, Has, Kinds
  <2>9. Cancelling(t)'
    BY <2>3, <2>4, <2>8 DEF Cancelling
  <2>10. Somewhere(t)'
    BY <2>3, <1>3 DEF Somewhere
  <2> QED BY <2>5, <2>6, <2>7, <2>9, <2>10 DEF TaskInv
<1> QED BY <1>5, <1>8, <1>9 DEF EngineInv, EngineStaysUp

\* A request of the client of t is nothing to the other downloads, and of t only
\* the channel and what the client wants change.
LEMMA AskSays ==
  ASSUME EngineInv, NEW t \in Tasks, NEW kind \in Kinds,
         NEW w \in {"none", "run", "pause", "cancel"}, Ask(t, kind, w), MaySend(t),
         kind \in {"Stop", "Cancel", "Resume"},
         seen' \in [Tasks -> Status \cup {"waiting"}],
         \A u \in Tasks : u # t => seen'[u] = seen[u]
  PROVE  /\ TypeOK' /\ EngineStaysUp'
         /\ \A u \in Tasks : u # t => TaskInv(u)'
         /\ SamePlace(t) /\ status'[t] = status[t] /\ status[t] # "None" /\ wish'[t] = w
         /\ \A k \in Kinds : /\ Has(k, t)' <=> Has(k, t) \/ k = kind
                             /\ Once(k, t) /\ ~(Has(k, t) /\ k = kind) => Once(k, t)'
         /\ Persisting(t)' => Persisting(t)
<1>1. /\ cmds' \in Seq(EngineCommand) /\ Len(cmds') <= ChannelCap
      /\ cmds' = Append(cmds, Cmd(kind, t))
      /\ wish' \in [Tasks -> {"none", "run", "pause", "cancel"}] /\ wish'[t] = w
      /\ \A u \in Tasks : u # t => wish'[u] = wish[u]
      /\ sent' \in [Tasks -> 0..MaxCommands]
      /\ UNCHANGED <<loop, runtimes, launches, status>>
  BY Asked DEF EngineInv
<1>2. TypeOK' /\ EngineStaysUp'
  BY <1>1 DEF TypeOK, loop, EngineInv, EngineStaysUp
<1>3. \A u \in Tasks : SamePlace(u)
  BY <1>1 DEF SamePlace, loop, InQueue, QueuedOnce, Runs
<1> DEFINE c == Cmd(kind, t)
<1>4. /\ c \in EngineCommand /\ c.kind = kind /\ c.task = t /\ cmds' = Append(cmds, c)
      /\ cmds \in Seq(EngineCommand) /\ kind # "RuntimeStopped"
  BY <1>1, CommandTypes DEF Cmd, EngineInv, TypeOK
<1> HIDE DEF c
<1>5. /\ \A k \in Kinds, u \in Tasks :
           /\ Has(k, u)' <=> Has(k, u) \/ (k = kind /\ u = t)
           /\ Once(k, u) /\ ~(Has(k, u) /\ k = kind /\ u = t) => Once(k, u)'
      /\ \A u \in Tasks : Persisting(u)' => Persisting(u)
  <2>1. /\ \A k \in Kinds, u \in Tasks :
             /\ Has(k, u)' <=> Has(k, u) \/ (c.kind = k /\ c.task = u)
             /\ Once(k, u) /\ ~(Has(k, u) /\ c.kind = k /\ c.task = u) => Once(k, u)'
        /\ \A u \in Tasks :
             Persisting(u)' => \/ Persisting(u)
                               \/ /\ c.kind = "RuntimeStopped" /\ c.task = u
                                  /\ c.halt_mode = "PersistToDisk"
    BY <1>4, SentIsThere
  <2> QED BY <1>4, <2>1
<1>6. ASSUME NEW u \in Tasks, u # t PROVE TaskInv(u)'
  <2>1. SameMessages(u) /\ SameView(u)
    BY <1>1, <1>5, <1>6 DEF SameMessages, SameView
  <2> QED BY <1>3, <2>1, UntouchedKeep DEF EngineInv
<1> QED BY <1>1, <1>2, <1>3, <1>5, <1>6 DEF MaySend

\* A pause is asked for by who sees the download run, or has cancelled it.
LEMMA PauseDownloadKeeps ==
  ASSUME Patient, EngineInv, NEW t \in Tasks, PauseDownload(t)
  PROVE  EngineInv'
<1> DEFINE w == IF wish[t] = "cancel" THEN "cancel" ELSE "pause"
<1>1. /\ MaySend(t) /\ Ask(t, "Stop", w) /\ UNCHANGED seen
      /\ (seen[t] = "Downloading" /\ wish[t] = "run" /\ w = "pause")
           \/ (wish[t] = "cancel" /\ w = "cancel")
  BY DEF PauseDownload, Patient
<1> HIDE DEF w
<1>2. w \in {"none", "run", "pause", "cancel"} /\ "Stop" \in Kinds
      /\ seen' \in [Tasks -> Status \cup {"waiting"}]
  BY <1>1 DEF Kinds, EngineInv, TypeOK
<1>3. /\ TypeOK' /\ EngineStaysUp'
      /\ \A u \in Tasks : u # t => TaskInv(u)'
      /\ SamePlace(t) /\ status'[t] = status[t] /\ status[t] # "None" /\ wish'[t] = w
      /\ \A k \in Kinds : /\ Has(k, t)' <=> Has(k, t) \/ k = "Stop"
                          /\ Once(k, t) /\ ~(Has(k, t) /\ k = "Stop") => Once(k, t)'
      /\ Persisting(t)' => Persisting(t)
  BY <1>1, <1>2, AskSays
<1>4. /\ Has("Add", t)' <=> Has("Add", t)
      /\ Has("Cancel", t)' <=> Has("Cancel", t)
      /\ Has("Resume", t)' <=> Has("Resume", t)
      /\ Has("RuntimeStopped", t)' <=> Has("RuntimeStopped", t)
  BY <1>3 DEF Kinds
<1>5. TaskInv(t) /\ seen'[t] = seen[t]
  BY <1>1 DEF EngineInv
<1>6. Counted(t)'
  BY <1>3, <1>5 DEF TaskInv, Counted, SamePlace, Kinds
<1>7. OnePlace(t)'
  BY <1>1, <1>3, <1>4, <1>5 DEF TaskInv, OnePlace, SamePlace, Ended, Final
<1>8. Resuming(t)'
  BY <1>1, <1>3, <1>4, <1>5 DEF TaskInv, Resuming, SamePlace, Ended, Final
<1>9. Cancelling(t)'
  BY <1>1, <1>3, <1>4, <1>5 DEF TaskInv, Cancelling, SamePlace
<1>10. Somewhere(t)'
  BY <1>3, <1>4, <1>5 DEF TaskInv, Somewhere, SamePlace
<1> QED BY <1>3, <1>6, <1>7, <1>8, <1>9, <1>10 DEF EngineInv, TaskInv

\* Who resumes has paused, or sees that the cancel is through: no launch is on
\* its way, and nothing will be persisted any more.
LEMMA ResumeDownloadKeeps ==
  ASSUME Patient, EngineInv, NEW t \in Tasks, ResumeDownload(t)
  PROVE  EngineInv'
<1>1. /\ MaySend(t) /\ Ask(t, "Resume", "run")
      /\ wish[t] = "pause" \/ (wish[t] = "cancel" /\ seen[t] = "Stopped")
  BY DEF ResumeDownload, Patient
<1>2. /\ seen' \in [Tasks -> Status \cup {"waiting"}] /\ seen'[t] = "waiting"
      /\ \A u \in Tasks : u # t => seen'[u] = seen[u]
  BY DEF ResumeDownload, EngineInv, TypeOK
<1>3. /\ TypeOK' /\ EngineStaysUp'
      /\ \A u \in Tasks : u # t => TaskInv(u)'
      /\ SamePlace(t) /\ status'[t] = status[t] /\ status[t] # "None" /\ wish'[t] = "run"
      /\ \A k \in Kinds : /\ Has(k, t)' <=> Has(k, t) \/ k = "Resume"
                          /\ Once(k, t) /\ ~(Has(k, t) /\ k = "Resume") => Once(k, t)'
      /\ Persisting(t)' => Persisting(t)
  BY <1>1, <1>2, AskSays DEF Kinds
<1>4. /\ Has("Add", t)' <=> Has("Add", t)
      /\ Has("Cancel", t)' <=> Has("Cancel", t)
      /\ Has("Resume", t)'
      /\ Has("RuntimeStopped", t)' <=> Has("RuntimeStopped", t)
  BY <1>3 DEF Kinds
<1>5. TaskInv(t)
  BY DEF EngineInv
<1>6. /\ ~Has("Add", t) /\ ~InQueue(t) /\ ~Has("Resume", t) /\ t \notin deferred_resumes
      /\ \A r \in Runs(t) : r.phase # "starting"
  BY <1>1, <1>5 DEF TaskInv, OnePlace, Resuming
<1>7. /\ ~Has("Cancel", t) /\ ~Persisting(t)
      /\ \A r \in Runs(t) : r.halt_mode # "PersistToDisk"
  BY <1>1, <1>5 DEF TaskInv, Cancelling
<1>9. Counted(t)'
  BY <1>3, <1>5, <1>6 DEF TaskInv, Counted, SamePlace, Kinds
<1>10. OnePlace(t)'
  BY <1>2, <1>3, <1>4, <1>5, <1>6 DEF TaskInv, OnePlace, SamePlace, Ended, Final
<1>11. Resuming(t)'
  BY <1>2, <1>3, <1>4, <1>6 DEF Resuming, SamePlace
<1>12. Cancelling(t)'
  BY <1>3, <1>4, <1>7 DEF Cancelling, SamePlace
<1>13. Somewhere(t)'
  BY <1>3, <1>4, <1>5 DEF TaskInv, Somewhere, SamePlace
<1> QED BY <1>3, <1>9, <1>10, <1>11, <1>12, <1>13 DEF EngineInv, TaskInv

\* Who cancels sees the download run or paused: neither a resume nor another
\* cancel is on its way.
LEMMA CancelDownloadKeeps ==
  ASSUME EngineInv, NEW t \in Tasks, CancelDownload(t)
  PROVE  EngineInv'
<1>1. /\ MaySend(t) /\ Ask(t, "Cancel", "cancel") /\ UNCHANGED seen
      /\ (wish[t] = "run" /\ seen[t] = "Downloading") \/ (wish[t] = "pause" /\ seen[t] = "Paused")
  BY DEF CancelDownload
<1>2. seen' \in [Tasks -> Status \cup {"waiting"}] /\ seen'[t] = seen[t]
  BY <1>1 DEF EngineInv, TypeOK
<1>3. /\ TypeOK' /\ EngineStaysUp'
      /\ \A u \in Tasks : u # t => TaskInv(u)'
      /\ SamePlace(t) /\ status'[t] = status[t] /\ status[t] # "None" /\ wish'[t] = "cancel"
      /\ \A k \in Kinds : /\ Has(k, t)' <=> Has(k, t) \/ k = "Cancel"
                          /\ Once(k, t) /\ ~(Has(k, t) /\ k = "Cancel") => Once(k, t)'
      /\ Persisting(t)' => Persisting(t)
  BY <1>1, <1>2, AskSays DEF Kinds
<1>4. /\ Has("Add", t)' <=> Has("Add", t)
      /\ Has("Cancel", t)'
      /\ Has("Resume", t)' <=> Has("Resume", t)
      /\ Has("RuntimeStopped", t)' <=> Has("RuntimeStopped", t)
  BY <1>3 DEF Kinds
<1>5. TaskInv(t)
  BY DEF EngineInv
<1>6. /\ ~Has("Add", t) /\ ~InQueue(t) /\ ~Has("Resume", t) /\ t \notin deferred_resumes
      /\ \A r \in Runs(t) : r.phase # "starting"
  BY <1>1, <1>5 DEF TaskInv, OnePlace, Resuming, Ended, Final
<1>7. /\ ~Has("Cancel", t) /\ ~Persisting(t)
      /\ \A r \in Runs(t) : r.halt_mode # "PersistToDisk"
  BY <1>1, <1>5 DEF TaskInv, Cancelling
<1>8. Counted(t)'
  BY <1>3, <1>5, <1>7 DEF TaskInv, Counted, SamePlace, Kinds
<1>9. OnePlace(t)'
  BY <1>2, <1>3, <1>4, <1>5, <1>6 DEF TaskInv, OnePlace, SamePlace
<1>10. Resuming(t)'
  BY <1>3, <1>4, <1>6 DEF Resuming, SamePlace
<1>11. Cancelling(t)'
  BY <1>1, <1>2, <1>3, <1>7 DEF Cancelling, SamePlace
<1>12. Somewhere(t)'
  BY <1>3, <1>4, <1>5 DEF TaskInv, Somewhere, SamePlace
<1> QED BY <1>3, <1>8, <1>9, <1>10, <1>11, <1>12 DEF EngineInv, TaskInv

-----------------------------------------------------------------------------
(* The download tasks *)

\* One run of one download changes, or is gone: of the other downloads nothing is.
LEMMA RunsOfOthers ==
  ASSUME TypeOK, NEW t \in Tasks, NEW r \in runtimes, r.task = t,
         NEW S \in SUBSET Runtime, \A s \in S : s.task = t,
         runtimes' = (runtimes \ {r}) \cup S, UNCHANGED <<loop, launches>>
  PROVE  /\ runtimes' \subseteq Runtime
         /\ \A u \in Tasks : u # t => SamePlace(u)
         /\ Runs(t)' = (Runs(t) \ {r}) \cup S
         /\ r \in Runs(t)
<1>1. runtimes' \subseteq Runtime
  BY DEF TypeOK
<1>2. ASSUME NEW u \in Tasks, u # t PROVE SamePlace(u)
  <2>1. Runs(u)' = Runs(u)
    BY <1>2 DEF Runs
  <2> QED BY <2>1 DEF SamePlace, InQueue, QueuedOnce, loop
<1>3. Runs(t)' = (Runs(t) \ {r}) \cup S /\ r \in Runs(t)
  BY DEF Runs
<1> QED BY <1>1, <1>2, <1>3

\* A download that starts was launched for a client that waits for it: no
\* resume and no cancel is on its way.
LEMMA RuntimeStartsKeeps ==
  ASSUME EngineInv, NEW r \in runtimes, RuntimeStarts(r)
  PROVE  EngineInv'
<1> DEFINE t == r.task
           s == [r EXCEPT !.phase = "waiting"]
<1>1. TypeOK /\ r \in Runtime /\ t \in Tasks /\ r.phase = "starting"
      /\ UNCHANGED <<cmds, loop, launches, clients>> /\ Report(t, "Downloading")
      /\ runtimes' = (runtimes \ {r}) \cup {s} /\ "Downloading" \in Status
  BY DEF EngineInv, TypeOK, RuntimeStarts, Enters, Runtime, Status
<1>2. s \in Runtime /\ s.task = t /\ s.phase = "waiting" /\ s.control = r.control
      /\ s.halt_mode = r.halt_mode
  BY <1>1 DEF Runtime
<1> HIDE DEF s
<1>3. /\ runtimes' \subseteq Runtime
      /\ \A u \in Tasks : u # t => SamePlace(u)
      /\ Runs(t)' = (Runs(t) \ {r}) \cup {s} /\ r \in Runs(t)
  <2> DEFINE S == {s}
  <2>1. S \in SUBSET Runtime /\ (\A x \in S : x.task = t) /\ r.task = t
        /\ runtimes' = (runtimes \ {r}) \cup S /\ UNCHANGED <<loop, launches>>
    BY <1>1, <1>2
  <2> HIDE DEF S, t
  <2>2. /\ runtimes' \subseteq Runtime
        /\ \A u \in Tasks : u # t => SamePlace(u)
        /\ Runs(t)' = (Runs(t) \ {r}) \cup S /\ r \in Runs(t)
    BY <2>1, <1>1, RunsOfOthers
  <2> QED BY <2>2 DEF S
<1>4. /\ status' \in [Tasks -> Status] /\ seen' \in [Tasks -> Status \cup {"waiting"}]
      /\ status'[t] = "Downloading" /\ seen'[t] = "Downloading"
      /\ \A u \in Tasks : u # t => status'[u] = status[u] /\ seen'[u] = seen[u]
  BY <1>1, Reported
<1> HIDE DEF t
<1>5. TypeOK' /\ EngineStaysUp'
  BY <1>1, <1>3, <1>4 DEF TypeOK, loop, clients, EngineInv, EngineStaysUp
<1>6. \A u \in Tasks : SameMessages(u)
  BY <1>1, NoMessage
<1>7. ASSUME NEW u \in Tasks, u # t PROVE TaskInv(u)'
  <2>1. SameView(u)
    BY <1>1, <1>4, <1>7 DEF SameView, clients
  <2> QED BY <1>3, <1>6, <1>7, <2>1, UntouchedKeep DEF EngineInv
<1>8. TaskInv(t)'
  <2>1. TaskInv(t) /\ Runs(t)' = {s} /\ r \in Runs(t)
    BY <1>1, <1>3 DEF EngineInv, TaskInv, Counted
  <2>2. /\ wish[t] = "run" /\ ~Has("Resume", t) /\ t \notin deferred_resumes
        /\ r.control = launches[t]
    BY <2>1, <1>1 DEF TaskInv, Resuming, Counted
  <2>3. /\ t \in active_controls /\ ~Has("RuntimeStopped", t) /\ ~Has("Add", t)
        /\ ~InQueue(t) /\ t \notin paused_tasks
    BY <2>1 DEF TaskInv, OnePlace
  <2>4. ~Has("Cancel", t) /\ ~Persisting(t) /\ r.halt_mode # "PersistToDisk"
    BY <2>1, <2>2 DEF TaskInv, Cancelling
  <2>5. /\ \A kind \in Kinds : Has(kind, t)' <=> Has(kind, t)
        /\ ~Has("Resume", t)' /\ ~Has("RuntimeStopped", t)' /\ ~Has("Add", t)'
        /\ ~Has("Cancel", t)' /\ ~Persisting(t)' /\ ~InQueue(t)'
    BY <2>2, <2>3, <2>4, <1>1 DEF Has, Persisting, InQueue, loop
  <2>6. Counted(t)'
    <3>1. \A kind \in {"Add", "RuntimeStopped", "Resume", "Cancel"} : Once(kind, t)'
      BY <2>1, <1>1 DEF TaskInv, Counted, Once
    <3>2. QueuedOnce(t)'
      BY <2>1, <1>1 DEF TaskInv, Counted, QueuedOnce, loop
    <3> QED BY <3>1, <3>2, <2>1, <2>2, <1>1, <1>2 DEF Counted
  <2>7. OnePlace(t)'
    BY <2>1, <2>3, <2>5, <1>1, <1>4 DEF OnePlace, loop, Ended, Final
  <2>8. Resuming(t)'
    BY <2>1, <2>2, <2>5, <1>1, <1>2 DEF Resuming, loop
  <2>9. Cancelling(t)'
    BY <2>1, <2>4, <2>5, <1>2 DEF Cancelling
  <2>10. Somewhere(t)'
    BY <2>3, <1>1, <1>4 DEF Somewhere, loop
  <2> QED BY <2>6, <2>7, <2>8, <2>9, <2>10 DEF TaskInv
<1> QED BY <1>5, <1>7, <1>8 DEF EngineInv

\* A download that gets its connection, or reads the mode it halts in, is where
\* it was and told what it was told.
LEMMA RuntimeMovesKeeps ==
  ASSUME EngineInv, NEW r \in runtimes, RuntimeConnects(r) \/ RuntimeHalts(r)
  PROVE  EngineInv'
<1>1. PICK p \in {"running", "leaving"} : Enters(r, p)
  BY DEF RuntimeConnects, RuntimeHalts
<1> DEFINE t == r.task
           s == [r EXCEPT !.phase = p]
<1>2. TypeOK /\ r \in Runtime /\ t \in Tasks /\ r.phase # "starting"
      /\ UNCHANGED <<cmds, loop, launches, view, clients>>
      /\ runtimes' = (runtimes \ {r}) \cup {s}
  BY <1>1 DEF EngineInv, TypeOK, RuntimeConnects, RuntimeHalts, Enters, Runtime
<1>3. s \in Runtime /\ s.task = t /\ s.phase = p /\ s.control = r.control
      /\ s.halt_mode = r.halt_mode
  BY <1>1, <1>2 DEF Runtime
<1> HIDE DEF s
<1>4. /\ runtimes' \subseteq Runtime
      /\ \A u \in Tasks : u # t => SamePlace(u)
      /\ Runs(t)' = (Runs(t) \ {r}) \cup {s} /\ r \in Runs(t)
  <2> DEFINE S == {s}
  <2>1. S \in SUBSET Runtime /\ (\A x \in S : x.task = t) /\ r.task = t
        /\ runtimes' = (runtimes \ {r}) \cup S /\ UNCHANGED <<loop, launches>>
    BY <1>2, <1>3
  <2> HIDE DEF S, t
  <2>2. /\ runtimes' \subseteq Runtime
        /\ \A u \in Tasks : u # t => SamePlace(u)
        /\ Runs(t)' = (Runs(t) \ {r}) \cup S /\ r \in Runs(t)
    BY <2>1, <1>2, RunsOfOthers
  <2> QED BY <2>2 DEF S
<1> HIDE DEF t
<1>5. TypeOK' /\ EngineStaysUp'
  BY <1>2, <1>4 DEF TypeOK, loop, view, clients, EngineInv, EngineStaysUp
<1>6. \A u \in Tasks : SameMessages(u) /\ SameView(u)
  BY <1>2, NoMessage DEF SameView, view, clients
<1>7. ASSUME NEW u \in Tasks, u # t PROVE TaskInv(u)'
  BY <1>4, <1>6, <1>7, UntouchedKeep DEF EngineInv
<1>8. TaskInv(t)'
  <2>1. /\ TaskInv(t) /\ Runs(t) = {r} /\ Runs(t)' = {s}
        /\ status'[t] = status[t] /\ seen'[t] = seen[t] /\ wish'[t] = wish[t]
    BY <1>2, <1>4 DEF EngineInv, TaskInv, Counted, view, clients
  <2>2. /\ \A kind \in Kinds : (Has(kind, t)' <=> Has(kind, t)) /\ (Once(kind, t)' <=> Once(kind, t))
        /\ Persisting(t)' <=> Persisting(t)
        /\ InQueue(t)' <=> InQueue(t)
        /\ QueuedOnce(t)' <=> QueuedOnce(t)
    BY <1>2 DEF Has, Once, Persisting, InQueue, QueuedOnce, loop
  <2>3. /\ Has("Add", t)' <=> Has("Add", t)
        /\ Has("Resume", t)' <=> Has("Resume", t)
        /\ Has("Cancel", t)' <=> Has("Cancel", t)
        /\ Has("RuntimeStopped", t)' <=> Has("RuntimeStopped", t)
    BY <2>2 DEF Kinds
  <2>4. Counted(t)'
    <3>1. \A kind \in {"Add", "RuntimeStopped", "Resume", "Cancel"} : Once(kind, t)'
      BY <2>1, <2>2 DEF TaskInv, Counted, Kinds
    <3>2. QueuedOnce(t)'
      BY <2>1, <2>2 DEF TaskInv, Counted
    <3>3. s.control = launches'[t]
      BY <2>1, <1>2, <1>3 DEF TaskInv, Counted
    <3> QED BY <3>1, <3>2, <3>3, <2>1 DEF Counted
  <2>5. OnePlace(t)'
    BY <2>1, <2>2, <2>3, <1>2 DEF TaskInv, OnePlace, loop
  <2>6. Resuming(t)'
    BY <2>1, <2>2, <2>3, <1>2, <1>3 DEF TaskInv, Resuming, loop
  <2>7. Cancelling(t)'
    BY <2>1, <2>2, <2>3, <1>3 DEF TaskInv, Cancelling
  <2>8. Somewhere(t)'
    <3>1. status[t] # "None" /\ t \in active_controls'
      BY <2>1, <1>2 DEF TaskInv, Somewhere, OnePlace, loop
    <3>2. status'[t] = "Stopped" => t \in persisted_paths'
      BY <2>1, <1>2 DEF TaskInv, Somewhere, loop
    <3> QED BY <3>1, <3>2, <2>1 DEF Somewhere
  <2> QED BY <2>4, <2>5, <2>6, <2>7, <2>8 DEF TaskInv
<1> QED BY <1>5, <1>7, <1>8 DEF EngineInv

\* A download that is over keeps its slot, and that is where it stays.
LEMMA RuntimeIsOver ==
  ASSUME EngineInv, NEW r \in runtimes, NEW s \in Ended, runtimes' = runtimes \ {r},
         Report(r.task, s), UNCHANGED <<cmds, loop, launches, clients>>
  PROVE  EngineInv'
<1> DEFINE t == r.task
<1>1. TypeOK /\ r \in Runtime /\ t \in Tasks /\ s \in Status /\ Report(t, s)
      /\ runtimes' = (runtimes \ {r}) \cup {} /\ UNCHANGED <<loop, launches>>
  BY DEF EngineInv, TypeOK, Runtime, Status, Ended, Final
<1>2. /\ runtimes' \subseteq Runtime
      /\ \A u \in Tasks : u # t => SamePlace(u)
      /\ Runs(t)' = Runs(t) \ {r} /\ r \in Runs(t)
  <2> DEFINE S == {}
  <2>1. S \in SUBSET Runtime /\ (\A x \in S : x.task = t) /\ r.task = t
        /\ runtimes' = (runtimes \ {r}) \cup S /\ UNCHANGED <<loop, launches>>
    BY <1>1
  <2> HIDE DEF S, t
  <2>2. /\ runtimes' \subseteq Runtime
        /\ \A u \in Tasks : u # t => SamePlace(u)
        /\ Runs(t)' = (Runs(t) \ {r}) \cup S /\ r \in Runs(t)
    BY <2>1, <1>1, RunsOfOthers
  <2> QED BY <2>2 DEF S
<1>3. /\ status' \in [Tasks -> Status] /\ seen' \in [Tasks -> Status \cup {"waiting"}]
      /\ status'[t] = s /\ seen'[t] = s
      /\ \A u \in Tasks : u # t => status'[u] = status[u] /\ seen'[u] = seen[u]
  BY <1>1, Reported
<1> HIDE DEF t
<1>4. TypeOK' /\ EngineStaysUp'
  BY <1>1, <1>2, <1>3 DEF TypeOK, loop, clients, EngineInv, EngineStaysUp
<1>5. \A u \in Tasks : SameMessages(u)
  BY NoMessage
<1>6. ASSUME NEW u \in Tasks, u # t PROVE TaskInv(u)'
  <2>1. SameView(u)
    BY <1>3, <1>6 DEF SameView, clients
  <2> QED BY <1>2, <1>5, <1>6, <2>1, UntouchedKeep DEF EngineInv
<1>7. TaskInv(t)'
  <2>1. TaskInv(t) /\ Runs(t)' = {} /\ r \in Runs(t)
    BY <1>1, <1>2 DEF EngineInv, TaskInv, Counted
  <2>2. /\ t \in active_controls /\ ~Has("RuntimeStopped", t) /\ ~Has("Add", t)
        /\ ~InQueue(t) /\ t \notin paused_tasks
    BY <2>1 DEF TaskInv, OnePlace
  <2>3. /\ \A kind \in Kinds : Has(kind, t)' <=> Has(kind, t)
        /\ ~Has("RuntimeStopped", t)' /\ ~Has("Add", t)' /\ ~InQueue(t)'
        /\ Has("Resume", t)' <=> Has("Resume", t)
        /\ Has("Cancel", t)' <=> Has("Cancel", t)
    BY <2>2 DEF Has, InQueue, loop
  <2>4. ~Persisting(t)'
    BY <2>3 DEF Persisting, Has
  <2>5. Counted(t)'
    BY <2>1 DEF TaskInv, Counted, Once, QueuedOnce, loop
  <2>6. OnePlace(t)'
    BY <2>1, <2>2, <2>3, <1>3 DEF OnePlace, loop, Ended, Final
  <2>7. Resuming(t)'
    BY <2>1, <2>3, <1>3 DEF TaskInv, Resuming, loop, clients
  <2>8. Cancelling(t)'
    BY <2>1, <2>3, <2>4, <1>3 DEF TaskInv, Cancelling, Ended, Final, clients
  <2>9. Somewhere(t)'
    BY <2>2, <1>3 DEF Somewhere, loop, Ended, Final
  <2> QED BY <2>5, <2>6, <2>7, <2>8, <2>9 DEF TaskInv
<1> QED BY <1>4, <1>6, <1>7 DEF EngineInv

\* A halted download goes from its run into a message that says how it halted.
LEMMA RuntimeHandsOverKeeps ==
  ASSUME EngineInv, NEW r \in runtimes, RuntimeHandsOver(r)
  PROVE  EngineInv'
<1> DEFINE t == r.task
           c == RuntimeStopped(t, r.halt_mode)
<1>1. TypeOK /\ r \in Runtime /\ t \in Tasks /\ Send(c)
      /\ runtimes' = (runtimes \ {r}) \cup {} /\ UNCHANGED <<loop, launches, view, clients>>
  BY DEF EngineInv, TypeOK, Runtime, RuntimeHandsOver
<1>2. c \in EngineCommand /\ c.kind = "RuntimeStopped" /\ c.task = t /\ c.halt_mode = r.halt_mode
  BY <1>1 DEF RuntimeStopped, EngineCommand, Runtime
<1> HIDE DEF c
<1>3. /\ runtimes' \subseteq Runtime
      /\ \A u \in Tasks : u # t => SamePlace(u)
      /\ Runs(t)' = Runs(t) \ {r} /\ r \in Runs(t)
  <2> DEFINE S == {}
  <2>1. S \in SUBSET Runtime /\ (\A x \in S : x.task = t) /\ r.task = t
        /\ runtimes' = (runtimes \ {r}) \cup S /\ UNCHANGED <<loop, launches>>
    BY <1>1
  <2> HIDE DEF S, t
  <2>2. /\ runtimes' \subseteq Runtime
        /\ \A u \in Tasks : u # t => SamePlace(u)
        /\ Runs(t)' = (Runs(t) \ {r}) \cup S /\ r \in Runs(t)
    BY <2>1, <1>1, RunsOfOthers
  <2> QED BY <2>2 DEF S
<1> HIDE DEF t
<1>4. /\ cmds' \in Seq(EngineCommand) /\ Len(cmds') <= ChannelCap /\ cmds' = Append(cmds, c)
      /\ cmds \in Seq(EngineCommand)
  BY <1>1, <1>2, SentHasRoom DEF TypeOK
<1>5. TypeOK' /\ EngineStaysUp'
  BY <1>1, <1>3, <1>4 DEF TypeOK, loop, view, clients, EngineInv, EngineStaysUp
<1>6. /\ \A kind \in Kinds, u \in Tasks :
           /\ Has(kind, u)' <=> Has(kind, u) \/ (kind = "RuntimeStopped" /\ u = t)
           /\ Once(kind, u) /\ ~(Has(kind, u) /\ kind = "RuntimeStopped" /\ u = t)
                => Once(kind, u)'
      /\ \A u \in Tasks :
           Persisting(u)' => Persisting(u) \/ (u = t /\ r.halt_mode = "PersistToDisk")
  <2>1. /\ \A k \in Kinds, u \in Tasks :
             /\ Has(k, u)' <=> Has(k, u) \/ (c.kind = k /\ c.task = u)
             /\ Once(k, u) /\ ~(Has(k, u) /\ c.kind = k /\ c.task = u) => Once(k, u)'
        /\ \A u \in Tasks :
             Persisting(u)' => \/ Persisting(u)
                               \/ /\ c.kind = "RuntimeStopped" /\ c.task = u
                                  /\ c.halt_mode = "PersistToDisk"
    BY <1>2, <1>4, SentIsThere
  <2> QED BY <1>2, <2>1
<1>7. ASSUME NEW u \in Tasks, u # t PROVE TaskInv(u)'
  <2>1. SameMessages(u) /\ SameView(u)
    BY <1>1, <1>6, <1>7 DEF SameMessages, SameView, view, clients
  <2> QED BY <1>3, <1>7, <2>1, UntouchedKeep DEF EngineInv
<1>8. TaskInv(t)'
  <2>1. TaskInv(t) /\ Runs(t)' = {} /\ r \in Runs(t)
    BY <1>1, <1>3 DEF EngineInv, TaskInv, Counted
  <2>2. /\ t \in active_controls /\ ~Has("RuntimeStopped", t) /\ ~Has("Add", t)
        /\ ~InQueue(t) /\ t \notin paused_tasks /\ status[t] \notin Ended
        /\ seen[t] \notin {"Paused", "Stopped"} /\ seen[t] \notin Ended
    BY <2>1 DEF TaskInv, OnePlace
  <2>3. /\ Has("RuntimeStopped", t)' /\ ~Has("Add", t)' /\ ~InQueue(t)'
        /\ Has("Resume", t)' <=> Has("Resume", t)
        /\ Has("Cancel", t)' <=> Has("Cancel", t)
    BY <2>2, <1>1, <1>6 DEF Kinds, InQueue, loop
  <2>4. Counted(t)'
    <3>1. \A kind \in {"Add", "RuntimeStopped", "Resume", "Cancel"} : Once(kind, t)'
      BY <2>1, <2>2, <1>1, <1>6 DEF TaskInv, Counted, Kinds
    <3> QED BY <3>1, <2>1, <1>1 DEF TaskInv, Counted, QueuedOnce, loop
  <2>5. OnePlace(t)'
    BY <2>1, <2>2, <2>3, <1>1 DEF OnePlace, loop, view
  <2>6. Resuming(t)'
    BY <2>1, <2>3, <1>1 DEF TaskInv, Resuming, loop, view, clients
  <2>7. Cancelling(t)'
    <3>1. Persisting(t)' => Persisting(t) \/ \E s \in Runs(t) : s.halt_mode = "PersistToDisk"
      BY <2>1, <1>1, <1>6
    <3> QED BY <3>1, <2>1, <2>3, <1>1 DEF TaskInv, Cancelling, view, clients
  <2>8. Somewhere(t)'
    BY <2>1, <2>2, <2>3, <1>1 DEF TaskInv, Somewhere, loop, view
  <2> QED BY <2>4, <2>5, <2>6, <2>7, <2>8 DEF TaskInv
<1> QED BY <1>5, <1>7, <1>8 DEF EngineInv

-----------------------------------------------------------------------------
(* The loop *)

\* Taking a command leaves the messages of the others and the other messages of
\* its task; of what clients send once there is no second one.
LEMMA Received ==
  ASSUME EngineInv, NEW t \in Tasks, NEW kind \in Kinds, Receive(kind, t)
  PROVE  /\ cmds' \in Seq(EngineCommand) /\ Len(cmds') <= ChannelCap
         /\ \A u \in Tasks : u # t => SameMessages(u)
         /\ Has(kind, t) /\ (kind # "Stop" => ~Has(kind, t)')
         /\ \A k \in Kinds : /\ Has(k, t)' => Has(k, t)
                             /\ k # kind => (Has(k, t)' <=> Has(k, t))
                             /\ Once(k, t) => Once(k, t)'
         /\ Persisting(t)' => Persisting(t)
         /\ Head(cmds).halt_mode = "PersistToDisk" /\ kind = "RuntimeStopped" => Persisting(t)
<1>1. /\ cmds \in Seq(EngineCommand) /\ cmds # <<>> /\ cmds' = Tail(cmds)
      /\ Head(cmds) \in EngineCommand /\ Head(cmds).kind = kind /\ Head(cmds).task = t
      /\ cmds' \in Seq(EngineCommand) /\ Len(cmds') <= ChannelCap
  BY ReceivedIsCommand DEF EngineInv
<1> DEFINE h == Head(cmds)
<1>2. /\ \A k \in Kinds, u \in Tasks :
           /\ Has(k, u) <=> Has(k, u)' \/ (h.kind = k /\ h.task = u)
           /\ Once(k, u) => Once(k, u)'
           /\ Once(k, u) /\ h.kind = k /\ h.task = u => ~Has(k, u)'
      /\ \A u \in Tasks : Persisting(u)' => Persisting(u)
      /\ h.kind = "RuntimeStopped" /\ h.halt_mode = "PersistToDisk" => Persisting(h.task)
  BY <1>1, TakenIsGone
<1>3. h.kind = kind /\ h.task = t
  BY <1>1
<1> HIDE DEF h
<1>4. \A u \in Tasks : u # t => SameMessages(u)
  BY <1>2, <1>3 DEF SameMessages
<1>5. kind # "Stop" => Once(kind, t)
  BY DEF EngineInv, TaskInv, Counted, Kinds
<1>6. Has(kind, t) /\ (kind # "Stop" => ~Has(kind, t)')
  BY <1>2, <1>3, <1>5
<1>7. \A k \in Kinds : /\ Has(k, t)' => Has(k, t)
                       /\ k # kind => (Has(k, t)' <=> Has(k, t))
                       /\ Once(k, t) => Once(k, t)'
  BY <1>2, <1>3
<1> QED BY <1>1, <1>2, <1>3, <1>4, <1>6, <1>7 DEF h

\* A download that is added goes from its command into the queue.
LEMMA HandleAddKeeps ==
  ASSUME EngineInv, NEW t \in Tasks, HandleAdd(t)
  PROVE  EngineInv'
<1>1. /\ TypeOK /\ Receive("Add", t) /\ "Add" \in Kinds
      /\ pending_launches' = Append(pending_launches, t) /\ pending_launches \in Seq(Tasks)
      /\ UNCHANGED <<active_controls, paused_tasks, persisted_paths, deferred_resumes,
                     engine_up, runtimes, launches, view, clients>>
  BY DEF HandleAdd, EngineInv, TypeOK, Kinds
<1>2. /\ cmds' \in Seq(EngineCommand) /\ Len(cmds') <= ChannelCap
      /\ \A u \in Tasks : u # t => SameMessages(u)
      /\ Has("Add", t) /\ ~Has("Add", t)'
      /\ \A k \in Kinds : /\ Has(k, t)' => Has(k, t)
                          /\ k # "Add" => (Has(k, t)' <=> Has(k, t))
                          /\ Once(k, t) => Once(k, t)'
      /\ Persisting(t)' => Persisting(t)
  BY <1>1, Received
<1>3. /\ pending_launches' \in Seq(Tasks)
      /\ \A u \in Tasks : /\ InQueue(u)' <=> InQueue(u) \/ u = t
                          /\ QueuedOnce(u) /\ (u = t => ~InQueue(t)) => QueuedOnce(u)'
  BY <1>1, QueuedIsThere
<1>4. TypeOK' /\ EngineStaysUp'
  BY <1>1, <1>2, <1>3 DEF TypeOK, view, clients, EngineInv, EngineStaysUp
<1>5. ASSUME NEW u \in Tasks, u # t PROVE TaskInv(u)'
  <2>1. SamePlace(u) /\ SameView(u)
    BY <1>1, <1>3, <1>5 DEF SamePlace, SameView, Runs, view, clients
  <2> QED BY <1>2, <1>5, <2>1, UntouchedKeep DEF EngineInv
<1>6. TaskInv(t)'
  <2>1. TaskInv(t) /\ Runs(t)' = Runs(t)
    BY <1>1 DEF EngineInv, Runs
  <2>2. /\ ~InQueue(t) /\ t \notin active_controls /\ t \notin paused_tasks
        /\ wish[t] = "run" /\ seen[t] = "Queued" /\ ~Has("Resume", t) /\ t \notin deferred_resumes
        /\ Runs(t) = {} /\ ~Has("RuntimeStopped", t) /\ status[t] \notin Ended
    BY <2>1, <1>2 DEF TaskInv, OnePlace, Resuming
  <2>3. /\ Has("Resume", t)' <=> Has("Resume", t)
        /\ Has("Cancel", t)' <=> Has("Cancel", t)
        /\ Has("RuntimeStopped", t)' <=> Has("RuntimeStopped", t)
        /\ InQueue(t)' /\ status[t] # "None"
    BY <1>2, <1>3, <2>1 DEF Kinds, TaskInv, Somewhere
  <2>4. Counted(t)'
    <3>1. \A kind \in {"Add", "RuntimeStopped", "Resume", "Cancel"} : Once(kind, t)'
      BY <2>1, <1>2 DEF TaskInv, Counted, Kinds
    <3> QED BY <3>1, <2>1, <2>2, <1>1, <1>3 DEF TaskInv, Counted
  <2>5. OnePlace(t)'
    BY <2>1, <2>2, <2>3, <1>1, <1>2 DEF OnePlace, view, clients, Ended, Final
  <2>6. Resuming(t)'
    BY <2>1, <2>2, <2>3, <1>1 DEF Resuming
  <2>7. Cancelling(t)'
    BY <2>1, <2>3, <1>1, <1>2 DEF TaskInv, Cancelling, view, clients
  <2>8. Somewhere(t)'
    BY <2>1, <2>3, <1>1 DEF TaskInv, Somewhere, view
  <2> QED BY <2>4, <2>5, <2>6, <2>7, <2>8 DEF TaskInv
<1> QED BY <1>4, <1>5, <1>6 DEF EngineInv

\* A pause tells the run, if there is one, to drain: also a run that was to be
\* written to disk.
LEMMA HandleStopKeeps ==
  ASSUME EngineInv, NEW t \in Tasks, HandleStop(t)
  PROVE  EngineInv'
<1>1. /\ TypeOK /\ Receive("Stop", t) /\ "Stop" \in Kinds /\ TaskInv(t)
      /\ UNCHANGED <<loop, launches, view, clients>>
  BY DEF HandleStop, EngineInv, Kinds
<1>2. /\ cmds' \in Seq(EngineCommand) /\ Len(cmds') <= ChannelCap
      /\ \A u \in Tasks : u # t => SameMessages(u)
      /\ \A k \in Kinds : /\ k # "Stop" => (Has(k, t)' <=> Has(k, t))
                          /\ Has(k, t)' => Has(k, t)
                          /\ Once(k, t) => Once(k, t)'
      /\ Persisting(t)' => Persisting(t)
  BY <1>1, Received
<1>3. /\ runtimes' \subseteq Runtime
      /\ \A u \in Tasks : u # t => Runs(u)' = Runs(u)
      /\ \A r \in Runs(t)' : \E s \in Runs(t) :
           /\ s.phase = r.phase /\ s.control = r.control
           /\ r.halt_mode = "PersistToDisk" => s.halt_mode = "PersistToDisk"
      /\ \A r, s \in Runs(t)' : r = s
      /\ Runs(t)' = {} <=> Runs(t) = {}
  <2>1. CASE t \in active_controls
    <3>1. SetHaltMode(t, "Draining") /\ "Draining" \in HaltMode /\ runtimes \subseteq Runtime
          /\ (\A r \in Runs(t) : r.control = launches[t]) /\ \A r, s \in Runs(t) : r = s
      BY <1>1, <2>1 DEF HandleStop, HaltMode, TypeOK, TaskInv, Counted
    <3>2. /\ runtimes' \subseteq Runtime
          /\ \A u \in Tasks : u # t => Runs(u)' = Runs(u)
          /\ \A r \in Runs(t)' : r.halt_mode = "Draining" \/ r \in Runs(t)
          /\ \A r \in Runs(t)' : \E s \in Runs(t) :
               /\ s.phase = r.phase /\ s.control = r.control
               /\ r = Told(s, "Draining")
          /\ Runs(t)' = {} <=> Runs(t) = {}
      BY <3>1, Halted
    <3> QED BY <3>1, <3>2
  <2>2. CASE t \notin active_controls
    <3>1. UNCHANGED runtimes
      BY <2>2 DEF HandleStop
    <3>2. \A u \in Tasks : Runs(u)' = Runs(u)
      BY <3>1 DEF Runs
    <3> QED BY <3>1, <3>2, <1>1 DEF TypeOK, TaskInv, Counted
  <2> QED BY <2>1, <2>2
<1>4. TypeOK' /\ EngineStaysUp'
  BY <1>1, <1>2, <1>3 DEF TypeOK, loop, view, clients, EngineInv, EngineStaysUp
<1>5. ASSUME NEW u \in Tasks, u # t PROVE TaskInv(u)'
  <2>1. SamePlace(u) /\ SameView(u)
    BY <1>1, <1>3, <1>5 DEF SamePlace, SameView, InQueue, QueuedOnce, loop, view, clients
  <2> QED BY <1>2, <1>5, <2>1, UntouchedKeep DEF EngineInv
<1>6. TaskInv(t)'
  <2>1. /\ Has("Add", t)' <=> Has("Add", t)
        /\ Has("Resume", t)' <=> Has("Resume", t)
        /\ Has("Cancel", t)' <=> Has("Cancel", t)
        /\ Has("RuntimeStopped", t)' <=> Has("RuntimeStopped", t)
        /\ InQueue(t)' <=> InQueue(t)
        /\ QueuedOnce(t)' <=> QueuedOnce(t)
    BY <1>1, <1>2 DEF Kinds, InQueue, QueuedOnce, loop
  <2>2. Counted(t)'
    <3>1. \A kind \in {"Add", "RuntimeStopped", "Resume", "Cancel"} : Once(kind, t)'
      BY <1>1, <1>2 DEF TaskInv, Counted, Kinds
    <3> QED BY <3>1, <2>1, <1>1, <1>3 DEF TaskInv, Counted
  <2>3. OnePlace(t)'
    BY <2>1, <1>1, <1>3 DEF TaskInv, OnePlace, loop, view, clients
  <2>4. Resuming(t)'
    BY <2>1, <1>1, <1>3 DEF TaskInv, Resuming, loop, view, clients
  <2>5. Cancelling(t)'
    BY <2>1, <1>1, <1>2, <1>3 DEF TaskInv, Cancelling, view, clients
  <2>6. Somewhere(t)'
    <3>1. status[t] = "None" => \A kind \in Kinds : ~Has(kind, t)'
      BY <1>1, <1>2 DEF TaskInv, Somewhere
    <3> QED BY <3>1, <2>1, <1>1, <1>3 DEF TaskInv, Somewhere, loop, view
  <2> QED BY <2>2, <2>3, <2>4, <2>5, <2>6 DEF TaskInv
<1> QED BY <1>4, <1>5, <1>6 DEF EngineInv

\* A cancel finds no launch and no resume on its way: a run is told to persist,
\* a paused download is persisted, and what is over is left alone.
LEMMA HandleCancelKeeps ==
  ASSUME EngineInv, NEW t \in Tasks, HandleCancel(t)
  PROVE  EngineInv'
<1>1. /\ TypeOK /\ Receive("Cancel", t) /\ "Cancel" \in Kinds /\ TaskInv(t)
      /\ UNCHANGED <<pending_launches, active_controls, deferred_resumes, engine_up,
                     launches, clients>>
  BY DEF HandleCancel, EngineInv, Kinds
<1>2. /\ cmds' \in Seq(EngineCommand) /\ Len(cmds') <= ChannelCap
      /\ \A u \in Tasks : u # t => SameMessages(u)
      /\ Has("Cancel", t) /\ ~Has("Cancel", t)'
      /\ \A k \in Kinds : /\ k # "Cancel" => (Has(k, t)' <=> Has(k, t))
                          /\ Has(k, t)' => Has(k, t)
                          /\ Once(k, t) => Once(k, t)'
      /\ Persisting(t)' => Persisting(t)
  BY <1>1, Received
<1>3. /\ Has("Add", t)' <=> Has("Add", t)
      /\ Has("Resume", t)' <=> Has("Resume", t)
      /\ Has("RuntimeStopped", t)' <=> Has("RuntimeStopped", t)
      /\ \A u \in Tasks : /\ InQueue(u)' <=> InQueue(u)
                          /\ QueuedOnce(u)' <=> QueuedOnce(u)
  BY <1>1, <1>2 DEF Kinds, InQueue, QueuedOnce
<1>4. /\ wish[t] = "cancel" /\ seen[t] # "Stopped"
      /\ ~Has("Add", t) /\ ~InQueue(t) /\ ~Has("Resume", t) /\ t \notin deferred_resumes
      /\ ~Persisting(t) /\ status[t] # "None"
      /\ \A r \in Runs(t) : r.phase # "starting"
  BY <1>1, <1>2 DEF TaskInv, OnePlace, Resuming, Cancelling, Somewhere
<1>5. \A kind \in {"Add", "RuntimeStopped", "Resume", "Cancel"} : Once(kind, t)'
  BY <1>1, <1>2 DEF TaskInv, Counted, Kinds
<1>6. CASE t \in active_controls
  <2>1. SetHaltMode(t, "PersistToDisk") /\ "PersistToDisk" \in HaltMode
        /\ UNCHANGED <<paused_tasks, persisted_paths, view>>
        /\ runtimes \subseteq Runtime
        /\ (\A r \in Runs(t) : r.control = launches[t]) /\ \A r, s \in Runs(t) : r = s
    BY <1>1, <1>6 DEF HandleCancel, CancelsPaused, HaltMode, TypeOK, TaskInv, Counted
  <2>2. /\ runtimes' \subseteq Runtime
        /\ \A u \in Tasks : u # t => Runs(u)' = Runs(u)
        /\ \A r \in Runs(t)' : r.halt_mode = "PersistToDisk" \/ r \in Runs(t)
        /\ \A r \in Runs(t)' : \E s \in Runs(t) :
             /\ s.phase = r.phase /\ s.control = r.control
             /\ r = Told(s, "PersistToDisk")
        /\ Runs(t)' = {} <=> Runs(t) = {}
    BY <2>1, Halted
  <2>3. TypeOK' /\ EngineStaysUp'
    BY <1>1, <1>2, <2>1, <2>2 DEF TypeOK, view, clients, EngineInv, EngineStaysUp
  <2>4. ASSUME NEW u \in Tasks, u # t PROVE TaskInv(u)'
    <3>1. SamePlace(u) /\ SameView(u)
      BY <1>1, <1>3, <2>1, <2>2, <2>4 DEF SamePlace, SameView, view, clients
    <3> QED BY <1>2, <2>4, <3>1, UntouchedKeep DEF EngineInv
  <2>5. Counted(t)'
    <3>1. \A r \in Runs(t)' : r.control = launches'[t]
      BY <1>1, <2>1, <2>2
    <3>2. \A r, s \in Runs(t)' : r = s
      BY <2>1, <2>2
    <3> QED BY <1>1, <1>3, <1>5, <3>1, <3>2 DEF TaskInv, Counted
  <2>6. OnePlace(t)'
    BY <1>1, <1>3, <1>4, <2>1, <2>2 DEF TaskInv, OnePlace, view, clients
  <2>7. Resuming(t)'
    BY <1>1, <1>3, <1>4, <2>2 DEF Resuming
  <2>8. Cancelling(t)'
    BY <1>1, <1>2, <1>4, <2>1 DEF Cancelling, view, clients
  <2>9. Somewhere(t)'
    BY <1>1, <1>3, <1>4, <2>1 DEF TaskInv, Somewhere, view
  <2> QED BY <2>3, <2>4, <2>5, <2>6, <2>7, <2>8, <2>9 DEF EngineInv, TaskInv
<1>7. CASE t \notin active_controls /\ t \in paused_tasks
  <2>1. /\ TakePaused(t) /\ persisted_paths' = persisted_paths \cup {t}
        /\ Report(t, "Stopped") /\ UNCHANGED runtimes /\ "Stopped" \in Status
    BY <1>7 DEF HandleCancel, CancelsPaused, Status
  <2>2. /\ status' \in [Tasks -> Status] /\ seen' \in [Tasks -> Status \cup {"waiting"}]
        /\ status'[t] = "Stopped" /\ seen'[t] = "Stopped"
        /\ \A u \in Tasks : u # t => status'[u] = status[u] /\ seen'[u] = seen[u]
    BY <1>1, <2>1, Reported
  <2>3. TypeOK' /\ EngineStaysUp'
    BY <1>1, <1>2, <2>1, <2>2 DEF TypeOK, clients, EngineInv, EngineStaysUp, TakePaused
  <2>4. ASSUME NEW u \in Tasks, u # t PROVE TaskInv(u)'
    <3>1. SamePlace(u) /\ SameView(u)
      BY <1>1, <1>3, <2>1, <2>2, <2>4 DEF SamePlace, SameView, clients, Runs, TakePaused
    <3> QED BY <1>2, <2>4, <3>1, UntouchedKeep DEF EngineInv
  <2>5. Runs(t) = {} /\ Runs(t)' = {} /\ ~Has("RuntimeStopped", t)
    BY <1>1, <1>7, <2>1 DEF TaskInv, OnePlace, Runs
  <2>6. Counted(t)'
    BY <1>1, <1>3, <1>5, <2>5 DEF TaskInv, Counted
  <2>7. OnePlace(t)'
    BY <1>1, <1>3, <1>4, <1>7, <2>2, <2>5 DEF OnePlace, Ended, Final
  <2>8. Resuming(t)'
    BY <1>1, <1>3, <1>4, <2>5 DEF Resuming
  <2>9. Cancelling(t)'
    BY <1>2, <1>4, <2>5 DEF Cancelling
  <2>10. Somewhere(t)'
    BY <2>1, <2>2 DEF Somewhere
  <2> QED BY <2>3, <2>4, <2>6, <2>7, <2>8, <2>9, <2>10 DEF EngineInv, TaskInv
<1>8. CASE t \notin active_controls /\ t \notin paused_tasks
  <2>1. UNCHANGED <<runtimes, paused_tasks, persisted_paths, view>>
    BY <1>8 DEF HandleCancel, CancelsPaused
  <2>2. TypeOK' /\ EngineStaysUp'
    BY <1>1, <1>2, <2>1 DEF TypeOK, view, clients, EngineInv, EngineStaysUp
  <2>3. \A u \in Tasks : SamePlace(u) /\ SameView(u)
    BY <1>1, <1>3, <2>1 DEF SamePlace, SameView, view, clients, Runs
  <2>4. ASSUME NEW u \in Tasks, u # t PROVE TaskInv(u)'
    BY <1>2, <2>3, <2>4, UntouchedKeep DEF EngineInv
  <2>5. Runs(t)' = Runs(t)
    BY <2>3 DEF SamePlace
  <2>6. Counted(t)'
    BY <1>1, <1>3, <1>5, <2>5 DEF TaskInv, Counted
  <2>7. OnePlace(t)'
    BY <1>1, <1>3, <2>1, <2>5 DEF TaskInv, OnePlace, view, clients
  <2>8. Resuming(t)'
    BY <1>1, <1>3, <1>4, <2>5 DEF Resuming
  <2>9. Cancelling(t)'
    BY <1>1, <1>2, <2>1, <2>5 DEF TaskInv, Cancelling, view, clients
  <2>10. Somewhere(t)'
    BY <1>1, <1>3, <1>4, <2>1 DEF TaskInv, Somewhere, view
  <2> QED BY <2>2, <2>4, <2>6, <2>7, <2>8, <2>9, <2>10 DEF EngineInv, TaskInv
<1> QED BY <1>6, <1>7, <1>8

\* A resume finds the download with a slot, or in a snapshot: never nowhere, which
\* would end the loop.
LEMMA HandleResumeKeeps ==
  ASSUME EngineInv, NEW t \in Tasks, HandleResume(t)
  PROVE  EngineInv'
<1>1. /\ TypeOK /\ Receive("Resume", t) /\ "Resume" \in Kinds /\ TaskInv(t)
      /\ UNCHANGED <<active_controls, persisted_paths, runtimes, launches, view, clients>>
  BY DEF HandleResume, EngineInv, Kinds
<1>2. /\ cmds' \in Seq(EngineCommand) /\ Len(cmds') <= ChannelCap
      /\ \A u \in Tasks : u # t => SameMessages(u)
      /\ Has("Resume", t) /\ ~Has("Resume", t)'
      /\ \A k \in Kinds : /\ k # "Resume" => (Has(k, t)' <=> Has(k, t))
                          /\ Has(k, t)' => Has(k, t)
                          /\ Once(k, t) => Once(k, t)'
      /\ Persisting(t)' => Persisting(t)
  BY <1>1, Received
<1>3. /\ Has("Add", t)' <=> Has("Add", t)
      /\ Has("Cancel", t)' <=> Has("Cancel", t)
      /\ Has("RuntimeStopped", t)' <=> Has("RuntimeStopped", t)
      /\ \A u \in Tasks : Runs(u)' = Runs(u)
  BY <1>1, <1>2 DEF Kinds, Runs
<1>4. /\ wish[t] = "run" /\ seen[t] \in Ended \cup {"waiting"}
      /\ ~Has("Add", t) /\ ~InQueue(t) /\ t \notin deferred_resumes
      /\ status[t] # "None"
      /\ \A r \in Runs(t) : r.phase # "starting"
  BY <1>1, <1>2 DEF TaskInv, Resuming, Somewhere, Kinds
<1>5. \A kind \in {"Add", "RuntimeStopped", "Resume", "Cancel"} : Once(kind, t)'
  BY <1>1, <1>2 DEF TaskInv, Counted, Kinds
<1>6. CASE t \in active_controls
  <2>1. deferred_resumes' = deferred_resumes \cup {t}
        /\ UNCHANGED <<pending_launches, paused_tasks, engine_up>>
    BY <1>6 DEF HandleResume, ResumeWaits
  <2>2. TypeOK' /\ EngineStaysUp'
    BY <1>1, <1>2, <2>1 DEF TypeOK, view, clients, EngineInv, EngineStaysUp
  <2>3. \A u \in Tasks : /\ InQueue(u)' <=> InQueue(u)
                         /\ QueuedOnce(u)' <=> QueuedOnce(u)
    BY <2>1 DEF InQueue, QueuedOnce
  <2>4. ASSUME NEW u \in Tasks, u # t PROVE TaskInv(u)'
    <3>1. SamePlace(u) /\ SameView(u)
      BY <1>1, <1>3, <2>1, <2>3, <2>4 DEF SamePlace, SameView, view, clients
    <3> QED BY <1>2, <2>4, <3>1, UntouchedKeep DEF EngineInv
  <2>5. Counted(t)'
    BY <1>1, <1>3, <1>5, <2>3 DEF TaskInv, Counted
  <2>6. OnePlace(t)'
    BY <1>1, <1>3, <2>1, <2>3 DEF TaskInv, OnePlace, view, clients
  <2>7. Resuming(t)'
    BY <1>1, <1>2, <1>3, <1>4, <1>6, <2>1, <2>3 DEF TaskInv, Resuming, view, clients
  <2>8. Cancelling(t)'
    BY <1>1, <1>2, <1>3 DEF TaskInv, Cancelling, view, clients
  <2>9. Somewhere(t)'
    BY <1>1, <1>3, <1>4, <2>1, <2>3 DEF TaskInv, Somewhere, view
  <2> QED BY <2>2, <2>4, <2>5, <2>6, <2>7, <2>8, <2>9 DEF EngineInv, TaskInv
<1>7. CASE t \notin active_controls
  <2>1. t \in paused_tasks \cup persisted_paths
    BY <1>1, <1>4, <1>7 DEF TaskInv, Somewhere
  <2>2. /\ pending_launches' = Append(pending_launches, t) /\ pending_launches \in Seq(Tasks)
        /\ TakePaused(t) /\ UNCHANGED <<deferred_resumes, engine_up>>
    BY <1>1, <1>7, <2>1 DEF HandleResume, ResumeWaits, TypeOK
  <2>3. /\ pending_launches' \in Seq(Tasks)
        /\ \A u \in Tasks : /\ InQueue(u)' <=> InQueue(u) \/ u = t
                            /\ QueuedOnce(u) /\ (u = t => ~InQueue(t)) => QueuedOnce(u)'
    BY <2>2, QueuedIsThere
  <2>4. TypeOK' /\ EngineStaysUp'
    BY <1>1, <1>2, <2>2, <2>3 DEF TypeOK, view, clients, EngineInv, EngineStaysUp, TakePaused
  <2>5. ASSUME NEW u \in Tasks, u # t PROVE TaskInv(u)'
    <3>1. SamePlace(u) /\ SameView(u)
      BY <1>1, <1>3, <2>2, <2>3, <2>5 DEF SamePlace, SameView, view, clients, TakePaused
    <3> QED BY <1>2, <2>5, <3>1, UntouchedKeep DEF EngineInv
  <2>6. /\ Runs(t) = {} /\ ~Has("RuntimeStopped", t) /\ status[t] \notin Ended
        /\ seen[t] = "waiting"
    BY <1>1, <1>4, <1>7 DEF TaskInv, OnePlace
  <2>7. Counted(t)'
    BY <1>1, <1>3, <1>4, <1>5, <2>3, <2>6 DEF TaskInv, Counted
  <2>8. OnePlace(t)'
    BY <1>1, <1>3, <1>4, <1>7, <2>2, <2>6 DEF OnePlace, view, clients, TakePaused, Ended, Final
  <2>9. Resuming(t)'
    BY <1>1, <1>2, <1>3, <1>4, <2>2, <2>6 DEF Resuming
  <2>10. Cancelling(t)'
    BY <1>1, <1>2, <1>3 DEF TaskInv, Cancelling, view, clients
  <2>11. Somewhere(t)'
    BY <1>1, <1>4, <2>3 DEF TaskInv, Somewhere, view
  <2> QED BY <2>4, <2>5, <2>7, <2>8, <2>9, <2>10, <2>11 DEF EngineInv, TaskInv
<1> QED BY <1>6, <1>7

\* The slot is given back: to the queue for a resume that waited, or the download
\* goes into a snapshot, in memory or, when its client waits for a cancel, on disk.
LEMMA HandleRuntimeStoppedKeeps ==
  ASSUME EngineInv, NEW t \in Tasks, HandleRuntimeStopped(t)
  PROVE  EngineInv'
<1>1. /\ TypeOK /\ Receive("RuntimeStopped", t) /\ "RuntimeStopped" \in Kinds /\ TaskInv(t)
      /\ active_controls' = active_controls \ {t}
      /\ UNCHANGED <<engine_up, runtimes, launches, clients>>
  BY DEF HandleRuntimeStopped, EngineInv, Kinds
<1>2. /\ cmds' \in Seq(EngineCommand) /\ Len(cmds') <= ChannelCap
      /\ \A u \in Tasks : u # t => SameMessages(u)
      /\ Has("RuntimeStopped", t) /\ ~Has("RuntimeStopped", t)'
      /\ \A k \in Kinds : /\ k # "RuntimeStopped" => (Has(k, t)' <=> Has(k, t))
                          /\ Has(k, t)' => Has(k, t)
                          /\ Once(k, t) => Once(k, t)'
      /\ Persisting(t)' => Persisting(t)
      /\ Head(cmds).halt_mode = "PersistToDisk" => Persisting(t)
  BY <1>1, Received
<1>3. /\ Has("Add", t)' <=> Has("Add", t)
      /\ Has("Cancel", t)' <=> Has("Cancel", t)
      /\ Has("Resume", t)' <=> Has("Resume", t)
      /\ \A u \in Tasks : Runs(u)' = Runs(u)
  BY <1>1, <1>2 DEF Kinds, Runs
<1>4. /\ t \in active_controls /\ Runs(t) = {} /\ ~Has("Add", t) /\ ~InQueue(t)
      /\ t \notin paused_tasks /\ status[t] \notin Ended /\ seen[t] \notin Ended
      /\ status[t] # "None"
  BY <1>1, <1>2 DEF TaskInv, OnePlace, Somewhere
<1>5. /\ \A kind \in {"Add", "RuntimeStopped", "Resume", "Cancel"} : Once(kind, t)'
      /\ ~Persisting(t)'
  BY <1>1, <1>2 DEF TaskInv, Counted, Kinds, Persisting, Has
<1>6. CASE Head(cmds).halt_mode \in {"Draining", "Hibernating"} /\ t \in deferred_resumes
  <2>1. /\ pending_launches' = Append(pending_launches, t) /\ pending_launches \in Seq(Tasks)
        /\ TakeDeferred(t) /\ UNCHANGED <<paused_tasks, persisted_paths, view>>
    BY <1>1, <1>6 DEF HandleRuntimeStopped, ResumeDeferred, TypeOK
  <2>2. /\ pending_launches' \in Seq(Tasks)
        /\ \A u \in Tasks : /\ InQueue(u)' <=> InQueue(u) \/ u = t
                            /\ QueuedOnce(u) /\ (u = t => ~InQueue(t)) => QueuedOnce(u)'
    BY <2>1, QueuedIsThere
  <2>3. TypeOK' /\ EngineStaysUp'
    BY <1>1, <1>2, <2>1, <2>2 DEF TypeOK, view, clients, EngineInv, EngineStaysUp, TakeDeferred
  <2>4. ASSUME NEW u \in Tasks, u # t PROVE TaskInv(u)'
    <3>1. SamePlace(u) /\ SameView(u)
      BY <1>1, <1>3, <2>1, <2>2, <2>4 DEF SamePlace, SameView, view, clients, TakeDeferred
    <3> QED BY <1>2, <2>4, <3>1, UntouchedKeep DEF EngineInv
  <2>5. wish[t] = "run" /\ seen[t] = "waiting" /\ ~Has("Resume", t)
    BY <1>1, <1>4, <1>6 DEF TaskInv, Resuming
  <2>6. Counted(t)'
    BY <1>1, <1>3, <1>4, <1>5, <2>2 DEF TaskInv, Counted
  <2>7. OnePlace(t)'
    BY <1>1, <1>2, <1>3, <1>4, <2>1, <2>5 DEF OnePlace, view, clients
  <2>8. Resuming(t)'
    BY <1>3, <1>4, <2>1, <2>5 DEF Resuming, TakeDeferred
  <2>9. Cancelling(t)'
    BY <1>1, <1>3, <1>4, <1>5, <2>1 DEF TaskInv, Cancelling, view, clients
  <2>10. Somewhere(t)'
    BY <1>1, <1>4, <2>1, <2>2 DEF TaskInv, Somewhere, view
  <2> QED BY <2>3, <2>4, <2>6, <2>7, <2>8, <2>9, <2>10 DEF EngineInv, TaskInv
<1>7. CASE Head(cmds).halt_mode \in {"Draining", "Hibernating"} /\ t \notin deferred_resumes
  <2>1. /\ paused_tasks' = paused_tasks \cup {t}
        /\ status' = [status EXCEPT ![t] = "Paused"]
        /\ seen' = [seen EXCEPT ![t] = IF @ = "waiting" THEN @ ELSE "Paused"]
        /\ UNCHANGED <<pending_launches, persisted_paths, deferred_resumes>>
    BY <1>7 DEF HandleRuntimeStopped, ResumeDeferred
  <2>2. /\ status' \in [Tasks -> Status] /\ seen' \in [Tasks -> Status \cup {"waiting"}]
        /\ status'[t] = "Paused" /\ seen'[t] = (IF seen[t] = "waiting" THEN "waiting" ELSE "Paused")
        /\ \A u \in Tasks : u # t => status'[u] = status[u] /\ seen'[u] = seen[u]
    BY <1>1, <2>1 DEF TypeOK, Status
  <2>3. TypeOK' /\ EngineStaysUp'
    BY <1>1, <1>2, <2>1, <2>2 DEF TypeOK, clients, EngineInv, EngineStaysUp
  <2>4. \A u \in Tasks : /\ InQueue(u)' <=> InQueue(u)
                         /\ QueuedOnce(u)' <=> QueuedOnce(u)
    BY <2>1 DEF InQueue, QueuedOnce
  <2>5. ASSUME NEW u \in Tasks, u # t PROVE TaskInv(u)'
    <3>1. SamePlace(u) /\ SameView(u)
      BY <1>1, <1>3, <2>1, <2>2, <2>4, <2>5 DEF SamePlace, SameView, clients
    <3> QED BY <1>2, <2>5, <3>1, UntouchedKeep DEF EngineInv
  <2>6. Counted(t)'
    BY <1>1, <1>3, <1>5, <2>4 DEF TaskInv, Counted
  <2>7. OnePlace(t)'
    BY <1>1, <1>2, <1>3, <1>4, <2>2, <2>4 DEF OnePlace, Ended, Final
  <2>8. Resuming(t)'
    BY <1>1, <1>3, <1>4, <1>7, <2>1, <2>2, <2>4 DEF TaskInv, Resuming, clients
  <2>9. Cancelling(t)'
    BY <1>1, <1>3, <1>4, <1>5, <2>2 DEF TaskInv, Cancelling, clients
  <2>10. Somewhere(t)'
    BY <2>1, <2>2 DEF Somewhere
  <2> QED BY <2>3, <2>5, <2>6, <2>7, <2>8, <2>9, <2>10 DEF EngineInv, TaskInv
<1>8. CASE Head(cmds).halt_mode = "PersistToDisk"
  <2>1. /\ persisted_paths' = persisted_paths \cup {t} /\ Report(t, "Stopped")
        /\ UNCHANGED <<pending_launches, paused_tasks, deferred_resumes>> /\ "Stopped" \in Status
    BY <1>8 DEF HandleRuntimeStopped, Status
  <2>2. /\ status' \in [Tasks -> Status] /\ seen' \in [Tasks -> Status \cup {"waiting"}]
        /\ status'[t] = "Stopped" /\ seen'[t] = "Stopped"
        /\ \A u \in Tasks : u # t => status'[u] = status[u] /\ seen'[u] = seen[u]
    BY <1>1, <2>1, Reported
  <2>3. TypeOK' /\ EngineStaysUp'
    BY <1>1, <1>2, <2>1, <2>2 DEF TypeOK, clients, EngineInv, EngineStaysUp
  <2>4. \A u \in Tasks : /\ InQueue(u)' <=> InQueue(u)
                         /\ QueuedOnce(u)' <=> QueuedOnce(u)
    BY <2>1 DEF InQueue, QueuedOnce
  <2>5. ASSUME NEW u \in Tasks, u # t PROVE TaskInv(u)'
    <3>1. SamePlace(u) /\ SameView(u)
      BY <1>1, <1>3, <2>1, <2>2, <2>4, <2>5 DEF SamePlace, SameView, clients
    <3> QED BY <1>2, <2>5, <3>1, UntouchedKeep DEF EngineInv
  <2>6. wish[t] = "cancel" /\ ~Has("Cancel", t)
    BY <1>1, <1>2, <1>8 DEF TaskInv, Cancelling
  <2>7. ~Has("Resume", t) /\ t \notin deferred_resumes
    BY <1>1, <2>6 DEF TaskInv, Resuming
  <2>8. Counted(t)'
    BY <1>1, <1>3, <1>5, <2>4 DEF TaskInv, Counted
  <2>9. OnePlace(t)'
    BY <1>1, <1>2, <1>3, <1>4, <2>2, <2>4 DEF OnePlace, Ended, Final
  <2>10. Resuming(t)'
    BY <1>3, <1>4, <2>1, <2>7 DEF Resuming
  <2>11. Cancelling(t)'
    BY <1>3, <1>4, <1>5, <2>6 DEF Cancelling
  <2>12. Somewhere(t)'
    BY <2>1, <2>2 DEF Somewhere
  <2> QED BY <2>3, <2>5, <2>8, <2>9, <2>10, <2>11, <2>12 DEF EngineInv, TaskInv
<1> QED BY <1>6, <1>7, <1>8 DEF HandleRuntimeStopped

\* The first k of the queue are taken; the others stay in it.
LEMMA FirstOfQueue ==
  ASSUME pending_launches \in Seq(Tasks), NEW k \in DOMAIN pending_launches, Dequeue(k)
  PROVE  /\ pending_launches' \in Seq(Tasks) /\ k \in Nat
         /\ \A u \in Tasks :
              /\ InQueue(u) <=> InQueue(u)' \/ \E j \in 1..k : pending_launches[j] = u
              /\ QueuedOnce(u) => QueuedOnce(u)'
              /\ QueuedOnce(u) /\ (\E j \in 1..k : pending_launches[j] = u) => ~InQueue(u)'
<1> DEFINE n == Len(pending_launches)
           q == pending_launches
<1>1. DOMAIN q = 1..n /\ n \in Nat /\ k \in 1..n /\ k + 1 \in 1..(n + 1)
  BY LenProperties
<1>2. q' = SubSeq(q, k + 1, n)
  BY DEF Dequeue
<1>3. /\ q' \in Seq(Tasks) /\ Len(q') = n - k
      /\ \A i \in 1..(n - k) : q'[i] = q[k + i]
  <2>1. \A i \in (k + 1)..n : q[i] \in Tasks
    BY <1>1, ElementOfSeq
  <2>2. SubSeq(q, k + 1, n) \in Seq(Tasks)
        /\ Len(SubSeq(q, k + 1, n)) = (IF k + 1 <= n THEN n - (k + 1) + 1 ELSE 0)
        /\ \A i \in 1..(n - (k + 1) + 1) : SubSeq(q, k + 1, n)[i] = q[(k + 1) + i - 1]
    BY <1>1, <2>1, SubSeqProperties
  <2> QED BY <1>1, <1>2, <2>2
<1>4. DOMAIN q' = 1..(n - k)
  BY <1>3, LenProperties
<1> HIDE DEF n
<1>5. /\ \A i \in DOMAIN q' : i + k \in DOMAIN q /\ i + k \notin 1..k /\ q'[i] = q[i + k]
      /\ \A i \in DOMAIN q : i \in 1..k \/ (i - k \in DOMAIN q' /\ q'[i - k] = q[i])
      /\ \A i \in 1..k : i \in DOMAIN q
      /\ \A i \in DOMAIN q' : i \in Int
  <2>1. ASSUME NEW i \in DOMAIN q'
        PROVE  i + k \in DOMAIN q /\ i + k \notin 1..k /\ q'[i] = q[i + k] /\ i \in Int
    <3>1. i \in 1..(n - k) /\ i + k \in 1..n /\ i + k \notin 1..k /\ k + i = i + k
      BY <1>1, <1>4
    <3> QED BY <3>1, <1>1, <1>3
  <2>2. ASSUME NEW i \in DOMAIN q, i \notin 1..k
        PROVE  i - k \in DOMAIN q' /\ q'[i - k] = q[i]
    <3>1. i \in 1..n /\ i - k \in 1..(n - k) /\ k + (i - k) = i
      BY <1>1, <2>2
    <3> QED BY <3>1, <1>3, <1>4
  <2>3. \A i \in 1..k : i \in DOMAIN q
    BY <1>1
  <2> QED BY <2>1, <2>2, <2>3
<1>6. ASSUME NEW u \in Tasks
      PROVE  InQueue(u) <=> InQueue(u)' \/ \E j \in 1..k : q[j] = u
  <2>1. ASSUME NEW i \in DOMAIN q, q[i] = u PROVE InQueue(u)' \/ \E j \in 1..k : q[j] = u
    BY <1>5, <2>1 DEF InQueue
  <2>2. ASSUME NEW i \in DOMAIN q', q'[i] = u PROVE InQueue(u)
    BY <1>5, <2>2 DEF InQueue
  <2>3. ASSUME NEW i \in 1..k, q[i] = u PROVE InQueue(u)
    BY <1>5, <2>3 DEF InQueue
  <2> QED BY <2>1, <2>2, <2>3 DEF InQueue
<1>7. ASSUME NEW u \in Tasks, QueuedOnce(u)
      PROVE  QueuedOnce(u)' /\ ((\E j \in 1..k : q[j] = u) => ~InQueue(u)')
  <2>1. ASSUME NEW i \in DOMAIN q', NEW j \in DOMAIN q', q'[i] = u, q'[j] = u PROVE i = j
    <3>1. i + k = j + k
      BY <1>5, <1>7, <2>1 DEF QueuedOnce
    <3> QED BY <3>1, <1>1, <1>5
  <2>2. ASSUME NEW j \in 1..k, q[j] = u, NEW i \in DOMAIN q', q'[i] = u PROVE FALSE
    BY <1>5, <1>7, <2>2 DEF QueuedOnce
  <2> QED BY <2>1, <2>2 DEF QueuedOnce, InQueue
<1> QED BY <1>1, <1>3, <1>6, <1>7

\* Of a download that is queued once, one is counted from its place on, and none
\* of one that is not queued.
LEMMA CountedOnce ==
  ASSUME pending_launches \in Seq(Tasks), NEW k \in DOMAIN pending_launches,
         NEW u \in Tasks, QueuedOnce(u), NEW i \in 1..k
  PROVE  LET count(j) == Cardinality({x \in 1..j : pending_launches[x] = u})
         IN /\ pending_launches[i] = u => count(i) = 1 /\ count(k) = 1
            /\ (\A j \in 1..k : pending_launches[j] # u) => count(k) = 0
<1> DEFINE count(j) == Cardinality({x \in 1..j : pending_launches[x] = u})
<1>1. DOMAIN pending_launches = 1..Len(pending_launches) /\ k \in Nat /\ i \in Nat
      /\ \A x \in 1..k : x \in DOMAIN pending_launches
  BY LenProperties
<1>2. ASSUME pending_launches[i] = u PROVE count(i) = 1 /\ count(k) = 1
  <2>1. \A x \in 1..k : pending_launches[x] = u => x = i
    BY <1>1, <1>2 DEF QueuedOnce
  <2>2. i \in 1..i /\ \A x \in 1..i : x \in 1..k
    BY <1>1
  <2>3. {x \in 1..i : pending_launches[x] = u} = {i} /\ {x \in 1..k : pending_launches[x] = u} = {i}
    BY <1>2, <2>1, <2>2
  <2> QED BY <2>3, FS_Singleton
<1>3. ASSUME \A j \in 1..k : pending_launches[j] # u PROVE count(k) = 0
  <2>1. {x \in 1..k : pending_launches[x] = u} = {}
    BY <1>3
  <2> QED BY <2>1, FS_EmptySet
<1> QED BY <1>2, <1>3

\* Every download taken from the queue gets a slot and one run, which answers to
\* the new control.
LEMMA LaunchQueuedKeeps ==
  ASSUME EngineInv, LaunchQueued
  PROVE  EngineInv'
<1> DEFINE q == pending_launches
           count(t, j) == Cardinality({x \in 1..j : q[x] = t})
<1>1. PICK k \in DOMAIN q :
        /\ active_controls' = active_controls \cup {q[j] : j \in 1..k}
        /\ launches' = [t \in Tasks |-> launches[t] + count(t, k)]
        /\ runtimes' = runtimes \cup
             {[task |-> q[j], control |-> launches[q[j]] + count(q[j], j),
               halt_mode |-> "Running", phase |-> "starting"] : j \in 1..k}
        /\ Dequeue(k)
  BY DEF LaunchQueued
<1>2. /\ TypeOK /\ q \in Seq(Tasks) /\ \A t \in Tasks : TaskInv(t) /\ QueuedOnce(t)
      /\ UNCHANGED <<cmds, paused_tasks, persisted_paths, deferred_resumes, engine_up,
                     view, clients>>
  BY DEF EngineInv, TypeOK, TaskInv, Counted, LaunchQueued
<1>3. /\ q' \in Seq(Tasks) /\ k \in Nat
      /\ \A u \in Tasks :
           /\ InQueue(u) <=> InQueue(u)' \/ \E j \in 1..k : q[j] = u
           /\ QueuedOnce(u)'
           /\ (\E j \in 1..k : q[j] = u) => ~InQueue(u)'
  BY <1>1, <1>2, FirstOfQueue
<1>4. \A j \in 1..k : q[j] \in Tasks
  BY <1>2, ElementOfSeq, LenProperties
<1>5. /\ 1 \in 1..k
      /\ \A u \in Tasks, i \in 1..k : q[i] = u => count(u, i) = 1 /\ count(u, k) = 1
      /\ \A u \in Tasks : (\A j \in 1..k : q[j] # u) => count(u, k) = 0
  <2>1. 1 \in 1..k
    BY <1>2, LenProperties
  <2>2. ASSUME NEW u \in Tasks, NEW i \in 1..k
        PROVE  /\ q[i] = u => count(u, i) = 1 /\ count(u, k) = 1
               /\ (\A j \in 1..k : q[j] # u) => count(u, k) = 0
    BY <1>2, CountedOnce
  <2> QED BY <2>1, <2>2
<1> HIDE DEF count
<1>6. /\ \A u \in Tasks : launches'[u] = launches[u] + count(u, k) /\ launches[u] \in Nat
      /\ \A u \in Tasks : count(u, k) \in {0, 1}
  BY <1>1, <1>2, <1>5 DEF TypeOK
<1> DEFINE new(u) == [task |-> u, control |-> launches'[u],
                      halt_mode |-> "Running", phase |-> "starting"]
<1>7. runtimes' = runtimes \cup {new(q[j]) : j \in 1..k}
  <2>1. \A j \in 1..k : launches[q[j]] + count(q[j], j) = launches'[q[j]]
    BY <1>4, <1>5, <1>6
  <2> QED BY <1>1, <2>1
<1>8. \A u \in Tasks : new(u) \in Runtime /\ new(u).task = u /\ new(u).phase = "starting"
                       /\ new(u).control = launches'[u] /\ new(u).halt_mode = "Running"
  BY <1>6 DEF Runtime, HaltMode
<1> HIDE DEF new
<1>9. TypeOK' /\ EngineStaysUp'
  <2>1. runtimes' \subseteq Runtime
    <3>1. \A j \in 1..k : new(q[j]) \in Runtime
      BY <1>4, <1>8
    <3> QED BY <3>1, <1>2, <1>7 DEF TypeOK
  <2>2. active_controls' \subseteq Tasks
    BY <1>1, <1>2, <1>4 DEF TypeOK
  <2>3. launches' \in [Tasks -> Nat]
    BY <1>1, <1>6
  <2> QED BY <2>1, <2>2, <2>3, <1>2, <1>3 DEF TypeOK, view, clients, EngineInv, EngineStaysUp
<1>10. \A u \in Tasks : SameMessages(u) /\ SameView(u)
  BY <1>2, NoMessage DEF SameView, view, clients
<1>11. ASSUME NEW u \in Tasks, \A j \in 1..k : q[j] # u PROVE TaskInv(u)'
  <2>1. launches'[u] = launches[u]
    BY <1>5, <1>6, <1>11
  <2>2. Runs(u)' = Runs(u)
    BY <1>4, <1>7, <1>8, <1>11 DEF Runs
  <2>3. SamePlace(u)
    BY <1>1, <1>2, <1>3, <1>11, <2>1, <2>2 DEF SamePlace
  <2> QED BY <1>2, <1>10, <2>3, UntouchedKeep
<1>12. ASSUME NEW u \in Tasks, NEW i \in 1..k, q[i] = u PROVE TaskInv(u)'
  <2>1. u \in Tasks /\ TaskInv(u) /\ SameMessages(u) /\ SameView(u) /\ InQueue(u) /\ ~InQueue(u)'
        /\ QueuedOnce(u)' /\ u \in active_controls' /\ \E j \in 1..k : q[j] = u
    BY <1>1, <1>2, <1>3, <1>10, <1>12
  <2>2. /\ u \notin active_controls /\ u \notin paused_tasks
        /\ wish[u] = "run" /\ seen[u] \in {"Queued", "waiting"}
        /\ Runs(u) = {} /\ ~Has("RuntimeStopped", u) /\ ~Has("Add", u)
        /\ status[u] \notin Ended /\ status[u] # "None"
        /\ ~Has("Resume", u) /\ u \notin deferred_resumes
        /\ ~Has("Cancel", u)
    BY <2>1 DEF TaskInv, OnePlace, Resuming, Cancelling, Somewhere
  <2>3. Runs(u)' = {new(u)}
    <3>1. Runs(u)' = {r \in {new(q[j]) : j \in 1..k} : r.task = u}
      BY <2>2, <1>7 DEF Runs
    <3> QED BY <3>1, <2>1, <1>4, <1>8
  <2>4. /\ ~Has("RuntimeStopped", u)' /\ ~Has("Add", u)' /\ ~Has("Resume", u)' /\ ~Has("Cancel", u)'
        /\ ~Persisting(u)'
    BY <2>1, <2>2 DEF SameMessages, Kinds, Persisting, Has
  <2>5. Counted(u)'
    <3>1. \A kind \in {"Add", "RuntimeStopped", "Resume", "Cancel"} : Once(kind, u)'
      BY <2>1 DEF SameMessages, TaskInv, Counted, Kinds
    <3> QED BY <3>1, <2>1, <2>3, <1>8 DEF Counted
  <2>6. OnePlace(u)'
    BY <2>1, <2>2, <2>3, <2>4, <1>2 DEF OnePlace, view, clients, Ended, Final
  <2>7. Resuming(u)'
    BY <2>2, <2>4, <1>2 DEF Resuming, view, clients
  <2>8. Cancelling(u)'
    BY <2>1, <2>3, <2>4, <1>8 DEF Cancelling
  <2>9. Somewhere(u)'
    BY <2>1, <2>2, <1>2 DEF TaskInv, Somewhere, view
  <2> QED BY <2>5, <2>6, <2>7, <2>8, <2>9 DEF TaskInv
<1>13. \A u \in Tasks : TaskInv(u)'
  <2> SUFFICES ASSUME NEW u \in Tasks PROVE TaskInv(u)'
    OBVIOUS
  <2>1. CASE \A j \in 1..k : q[j] # u
    BY <1>11, <2>1
  <2>2. CASE \E i \in 1..k : q[i] = u
    BY <1>12, <2>2
  <2> QED BY <2>1, <2>2
<1> QED BY <1>9, <1>13 DEF EngineInv

-----------------------------------------------------------------------------
(* The invariant *)

\* At the start no download is known.
LEMMA InitEstablishes == Init => EngineInv
<1> SUFFICES ASSUME Init PROVE EngineInv
  OBVIOUS
<1>1. TypeOK
  BY EngineAssumption, EmptySeq DEF Init, TypeOK, Status
<1>2. EngineStaysUp
  BY DEF Init, EngineStaysUp
<1>3. ASSUME NEW t \in Tasks PROVE TaskInv(t)
  <2>1. /\ \A kind \in Kinds : ~Has(kind, t) /\ Once(kind, t)
        /\ ~Persisting(t) /\ ~InQueue(t) /\ QueuedOnce(t) /\ Runs(t) = {}
    BY DEF Init, Has, Once, Persisting, InQueue, QueuedOnce, Runs
  <2>2. ~Has("Add", t) /\ ~Has("RuntimeStopped", t) /\ ~Has("Resume", t) /\ ~Has("Cancel", t)
    BY <2>1 DEF Kinds
  <2>3. Counted(t)
    BY <2>1 DEF Counted, Kinds
  <2>4. OnePlace(t)
    BY <2>1, <2>2 DEF OnePlace, Init, Ended, Final
  <2>5. Resuming(t)
    BY <2>1, <2>2 DEF Resuming, Init
  <2>6. Cancelling(t)
    BY <2>1, <2>2 DEF Cancelling
  <2>7. Somewhere(t)
    BY <2>1 DEF Somewhere, Init
  <2> QED BY <2>3, <2>4, <2>5, <2>6, <2>7 DEF TaskInv
<1> QED BY <1>1, <1>2, <1>3 DEF EngineInv

\* Every action, for patient clients.
LEMMA NextKeeps == Patient /\ EngineInv /\ [Next]_vars => EngineInv'
<1> SUFFICES ASSUME Patient, EngineInv, [Next]_vars PROVE EngineInv'
  OBVIOUS
<1>1. ASSUME NEW t \in Tasks,
             AddDownload(t) \/ PauseDownload(t) \/ ResumeDownload(t) \/ CancelDownload(t)
      PROVE  EngineInv'
  BY <1>1, AddDownloadKeeps, PauseDownloadKeeps, ResumeDownloadKeeps, CancelDownloadKeeps
<1>2. CASE LaunchQueued
  BY <1>2, LaunchQueuedKeeps
<1>3. ASSUME NEW t \in Tasks,
             HandleAdd(t) \/ HandleStop(t) \/ HandleCancel(t) \/ HandleResume(t)
               \/ HandleRuntimeStopped(t)
      PROVE  EngineInv'
  BY <1>3, HandleAddKeeps, HandleStopKeeps, HandleCancelKeeps, HandleResumeKeeps,
     HandleRuntimeStoppedKeeps
<1>4. ASSUME NEW r \in runtimes, RuntimeStarts(r) PROVE EngineInv'
  BY <1>4, RuntimeStartsKeeps
<1>5. ASSUME NEW r \in runtimes, RuntimeFails(r) PROVE EngineInv'
  <2>1. PICK f \in Failures :
          /\ runtimes' = runtimes \ {r} /\ Report(r.task, FailsAs[f])
          /\ UNCHANGED <<cmds, loop, launches, clients>>
    BY <1>5 DEF RuntimeFails
  <2>2. FailsAs[f] \in Ended
    BY EngineAssumption DEF AllFailures, FailsAs, Ended, Final
  <2> QED BY <2>1, <2>2, RuntimeIsOver
<1>9. ASSUME NEW r \in runtimes, RuntimeConnects(r) \/ RuntimeHalts(r) PROVE EngineInv'
  BY <1>9, RuntimeMovesKeeps
<1>6. ASSUME NEW r \in runtimes, RuntimeCompletes(r) PROVE EngineInv'
  <2>1. /\ "Completed" \in Ended /\ runtimes' = runtimes \ {r} /\ Report(r.task, "Completed")
        /\ UNCHANGED <<cmds, loop, launches, clients>>
    BY <1>6 DEF RuntimeCompletes, Ended, Final
  <2> QED BY <2>1, RuntimeIsOver
<1>7. ASSUME NEW r \in runtimes, RuntimeHandsOver(r) PROVE EngineInv'
  BY <1>7, RuntimeHandsOverKeeps
<1>8. CASE UNCHANGED vars
  <2>1. TypeOK' /\ EngineStaysUp'
    BY <1>8 DEF vars, loop, view, clients, EngineInv, TypeOK, EngineStaysUp
  <2>2. ASSUME NEW t \in Tasks PROVE TaskInv(t)'
    <3>1. SameMessages(t) /\ SamePlace(t) /\ SameView(t)
      BY <1>8, NoMessage
      DEF vars, loop, view, clients, SamePlace, SameView, InQueue, QueuedOnce, Runs
    <3> QED BY <3>1, UntouchedKeep DEF EngineInv
  <2> QED BY <2>1, <2>2 DEF EngineInv
<1> QED BY <1>1, <1>2, <1>3, <1>4, <1>5, <1>6, <1>7, <1>8, <1>9
        DEF Next, Handle, RuntimeGoesOn

\* The invariant holds in every reachable state.
LEMMA EngineInvHolds == ASSUME Patient PROVE Spec => []EngineInv
<1>1. EngineInv /\ [Next]_vars => EngineInv'
  BY NextKeeps
<1> QED BY <1>1, InitEstablishes, PTL DEF Spec

-----------------------------------------------------------------------------
(* The theorems *)

\* With patient clients, the state of the loop always has its types.
THEOREM EngineTypes == ASSUME Patient PROVE Spec => []TypeOK
<1>1. EngineInv => TypeOK
  BY DEF EngineInv
<1> QED BY <1>1, EngineInvHolds, PTL

\* No sequence of commands of patient clients makes DownloadEngine::run return.
THEOREM LoopGoesOn == ASSUME Patient PROVE Spec => []EngineStaysUp
<1>1. EngineInv => EngineStaysUp
  BY DEF EngineInv
<1> QED BY <1>1, EngineInvHolds, PTL

\* With patient clients a download runs at most once, with a slot, and answers
\* to the control the loop holds.
THEOREM RunsOnce == ASSUME Patient PROVE Spec => []OneRunPerTask
<1>1. ASSUME EngineInv PROVE OneRunPerTask
  <2>1. ASSUME NEW r \in runtimes
        PROVE  /\ r.task \in active_controls /\ r.control = launches[r.task]
               /\ \A s \in runtimes : r.task = s.task => r = s
    <3>1. r.task \in Tasks /\ TaskInv(r.task)
      BY <1>1 DEF EngineInv, TypeOK, Runtime
    <3>2. r \in Runs(r.task) /\ \A s \in runtimes : r.task = s.task => s \in Runs(r.task)
      BY DEF Runs
    <3> QED BY <3>1, <3>2 DEF TaskInv, Counted, OnePlace
  <2> QED BY <2>1 DEF OneRunPerTask
<1>2. EngineInv => OneRunPerTask
  BY <1>1
<1> QED BY <1>2, EngineInvHolds, PTL

\* A status a patient client acts on is true: what is paused or stopped does not
\* run, and can be resumed.
THEOREM StatusesAreTrue == ASSUME Patient PROVE Spec => []StatusIsTrue
<1>1. ASSUME EngineInv PROVE StatusIsTrue
  <2>1. ASSUME NEW t \in Tasks
        PROVE  /\ status[t] = "Paused" =>
                    t \in paused_tasks \/ Queued(t) # {} \/ t \in active_controls
               /\ status[t] = "Stopped" => t \in persisted_paths
               /\ seen[t] \in {"Paused", "Stopped"} => \A r \in runtimes : r.task # t
    <3>1. TaskInv(t)
      BY <1>1 DEF EngineInv
    <3>2. InQueue(t) => Queued(t) # {}
      BY DEF InQueue, Queued
    <3>3. Runs(t) = {} => \A r \in runtimes : r.task # t
      BY DEF Runs
    <3> QED BY <3>1, <3>2, <3>3 DEF TaskInv, OnePlace, Somewhere
  <2> QED BY <2>1 DEF StatusIsTrue
<1>2. EngineInv => StatusIsTrue
  BY <1>1
<1> QED BY <1>2, EngineInvHolds, PTL

\* A set all of whose members are equal counts for one, or for none.
LEMMA AtMostOne ==
  ASSUME NEW S, \A x, y \in S : x = y
  PROVE  Cardinality(S) = (IF S = {} THEN 0 ELSE 1)
<1>1. CASE S = {}
  BY <1>1, FS_EmptySet
<1>2. CASE S # {}
  <2>1. PICK x \in S : TRUE
    BY <1>2
  <2>2. S = {x}
    BY <2>1
  <2> QED BY <2>2, FS_Singleton
<1> QED BY <1>1, <1>2

\* The downloads of patient clients are neither lost nor doubled: one that is not
\* over is in exactly one place, or on disk only.
THEOREM NoDownloadIsLost == ASSUME Patient PROVE Spec => []TaskInOnePlace
<1>1. ASSUME EngineInv PROVE TaskInOnePlace
  <2>1. ASSUME NEW t \in Tasks, status[t] \notin Ended \cup {"None"}
        PROVE  Places(t) = 1 \/ (Places(t) = 0 /\ t \in persisted_paths)
    <3> DEFINE one(S) == IF S = {} THEN 0 ELSE 1
    <3>1. TaskInv(t)
      BY <1>1 DEF EngineInv
    <3>2. /\ Waiting(t, "Add") = {} <=> ~Has("Add", t)
          /\ Waiting(t, "RuntimeStopped") = {} <=> ~Has("RuntimeStopped", t)
          /\ Queued(t) = {} <=> ~InQueue(t)
          /\ {t} \cap paused_tasks = {} <=> t \notin paused_tasks
      BY DEF Waiting, Queued, Has, InQueue
    <3>3. /\ \A x, y \in Waiting(t, "Add") : x = y
          /\ \A x, y \in Waiting(t, "RuntimeStopped") : x = y
          /\ \A x, y \in Queued(t) : x = y
          /\ \A x, y \in Runs(t) : x = y
          /\ \A x, y \in {t} \cap paused_tasks : x = y
      BY <3>1 DEF TaskInv, Counted, Once, QueuedOnce, Waiting, Queued
    <3>4. Places(t) = one(Waiting(t, "Add")) + one(Queued(t)) + one(Runs(t))
                      + one(Waiting(t, "RuntimeStopped")) + one({t} \cap paused_tasks)
      <4>1. /\ Cardinality(Waiting(t, "Add")) = one(Waiting(t, "Add"))
            /\ Cardinality(Queued(t)) = one(Queued(t))
            /\ Cardinality(Runs(t)) = one(Runs(t))
            /\ Cardinality(Waiting(t, "RuntimeStopped")) = one(Waiting(t, "RuntimeStopped"))
            /\ Cardinality({t} \cap paused_tasks) = one({t} \cap paused_tasks)
        BY <3>3, AtMostOne
      <4> QED BY <4>1 DEF Places, Runs
    <3>5. /\ Has("Add", t) => /\ ~InQueue(t) /\ Runs(t) = {} /\ ~Has("RuntimeStopped", t)
                              /\ t \notin paused_tasks
          /\ InQueue(t) => /\ Runs(t) = {} /\ ~Has("RuntimeStopped", t)
                           /\ t \notin paused_tasks
          /\ Runs(t) # {} => ~Has("RuntimeStopped", t) /\ t \notin paused_tasks
          /\ Has("RuntimeStopped", t) => t \notin paused_tasks
      BY <3>1 DEF TaskInv, OnePlace
    <3>6. \/ Has("Add", t) \/ InQueue(t) \/ Runs(t) # {} \/ Has("RuntimeStopped", t)
          \/ t \in paused_tasks \/ t \in persisted_paths
      BY <2>1, <3>1 DEF TaskInv, OnePlace, Somewhere
    <3> QED BY <3>2, <3>4, <3>5, <3>6
  <2> QED BY <2>1 DEF TaskInOnePlace
<1>2. EngineInv => TaskInOnePlace
  BY <1>1
<1> QED BY <1>2, EngineInvHolds, PTL
=============================================================================
