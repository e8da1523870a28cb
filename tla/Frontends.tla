----------------------------- MODULE Frontends -----------------------------
(***************************************************************************)
(* The three programs around the engine: TurService with its event router  *)
(* (service.rs), the headless command line (main.rs) and the terminal      *)
(* interface (tui/app.rs).  Each talks to the engine through two bounded   *)
(* channels, commands and events, and all of it is one thread: who waits   *)
(* for room in a channel lets the others run.  What the engine does with a *)
(* command is module EngineLoop; here it only takes and sends.             *)
(***************************************************************************)
EXTENDS Integers, Sequences, FiniteSets, SequencesExt

CONSTANTS
  Downloads,
  MaxConcurrent, \* launch slots
  CommandCap,    \* capacity of the command channel (100)
  EventCap       \* capacity of the event channel (100)

\* Without a download the headless program has nothing to wait for, and waits.
ASSUME FrontendsAssumption ==
  /\ IsFiniteSet(Downloads) /\ Downloads # {}
  /\ {MaxConcurrent, CommandCap, EventCap} \subseteq Nat \ {0}

VARIABLES
  frontend, \* the program that runs, and what it is at, see Stage
  commands, \* the command channel
  events,   \* the event channel
  engine,   \* what the engine knows of each download, see Place
  outbox,   \* the event the engine loop waits to send
  lost,     \* downloads with an event that the frontend did not know where to put
  client    \* the frontend's own state, see ClientField

channels == <<commands, events>>
frontVars == <<frontend, channels, engine, outbox, lost, client>>

Place == {"unknown", "waiting", "running", "halting", "leaving", "paused", "over"}

\* service   serving; stopping (the router sends its stops); gone
\* headless  adding; watching; exited
\* tui       starting; open; quit
Stage == [service  |-> {"serving", "stopping", "gone"},
          headless |-> {"adding", "watching", "exited"},
          tui      |-> {"starting", "open", "quit"}]

\* The frontend's own state:
\* handles   downloads with an update channel (service)
\* unsent    downloads whose Add waits for room, or that are to be stopped
\* listed    the tasks of the list (tui), those still to be added (headless)
\* selected  the place in that list the keys act on, 0 for none
\* finished  downloads seen to end (headless)
ClientField == {"handles", "unsent", "listed", "selected", "finished"}

Is(program, stage) == frontend = [program |-> program, stage |-> stage]
Goes(stage) == frontend' = [frontend EXCEPT !.stage = stage]

\* Pause and cancel of a run look the same from here.
Halts == {"Stop", "Cancel"}

Command(k, d) == [kind |-> k, download |-> d]
Event(k, d) == [kind |-> k, download |-> d]
-----------------------------------------------------------------------------
(* Channels *)

HasRoom == Len(commands) < CommandCap
SendCommand(k, d) == HasRoom /\ commands' = Append(commands, Command(k, d))

\* try_send: a full channel loses the command.
TrySend(k, d) == IF HasRoom THEN SendCommand(k, d) ELSE UNCHANGED commands

\* The router and the headless loop drop their end when they leave; sending
\* fails at once then.
Receiving == frontend.stage \notin {"gone", "exited", "quit"}

Emit(k, d) ==
  IF Receiving THEN Len(events) < EventCap /\ events' = Append(events, Event(k, d))
  ELSE UNCHANGED events

Placed(d, p) == engine' = [engine EXCEPT ![d] = p]
-----------------------------------------------------------------------------
(* The engine *)

\* The loop takes a command when it has nothing left to send; a pause that is
\* through is reported, and so is a paused download that goes to disk.
TakeCommand ==
  /\ outbox = <<>> /\ commands # <<>>
  /\ commands' = Tail(commands)
  /\ LET d == Head(commands).download
         k == Head(commands).kind
     IN CASE k \in {"Add", "Resume"} -> Placed(d, "waiting") /\ UNCHANGED outbox
          [] k \in Halts -> /\ IF engine[d] = "running" THEN Placed(d, "halting")
                               ELSE UNCHANGED engine
                            /\ \/ UNCHANGED outbox
                               \/ k = "Cancel" /\ engine[d] = "paused"
                                  /\ outbox' = <<Event("Paused", d)>>
          [] k = "RuntimeStopped" -> Placed(d, "paused") /\ outbox' = <<Event("Paused", d)>>
  /\ UNCHANGED <<frontend, events, lost, client>>

SendOutbox ==
  /\ outbox # <<>>
  /\ Emit(Head(outbox).kind, Head(outbox).download)
  /\ outbox' = <<>>
  /\ UNCHANGED <<frontend, commands, engine, lost, client>>

\* A download that ended by itself keeps its slot (see EngineLoop).
LaunchDownload(d) ==
  /\ outbox = <<>> /\ engine[d] = "waiting"
  /\ Cardinality({c \in Downloads : engine[c] \in {"running", "halting", "leaving", "over"}})
       < MaxConcurrent
  /\ Placed(d, "running")
  /\ UNCHANGED <<frontend, channels, outbox, lost, client>>

\* Size, progress, protocol, workers.
ReportProgress(d) ==
  /\ engine[d] \in {"running", "halting"}
  /\ Emit("Progress", d)
  /\ UNCHANGED <<frontend, commands, engine, outbox, lost, client>>

\* A run ends with one event, or, halted, with a message to the loop.
RunEnds(d) ==
  /\ engine[d] \in {"running", "halting"}
  /\ \E k \in {"Completed", "Error"} : Emit(k, d)
  /\ Placed(d, "over")
  /\ UNCHANGED <<frontend, commands, outbox, lost, client>>

RunHalts(d) ==
  /\ engine[d] = "halting"
  /\ SendCommand("RuntimeStopped", d)
  /\ Placed(d, "leaving")
  /\ UNCHANGED <<frontend, events, outbox, lost, client>>

EngineStep ==
  \/ TakeCommand \/ SendOutbox
  \/ \E d \in Downloads : LaunchDownload(d) \/ ReportProgress(d) \/ RunEnds(d) \/ RunHalts(d)
-----------------------------------------------------------------------------
(* TurService *)

\* A definition named Bad... is a mistake on purpose: put in the place of the
\* one below it, it shows that a property notices.

\* A paused download is done with as well.
BadTerminal == {"Completed", "Error", "Paused"}

Terminal == {"Completed", "Error"}

NoRequest(d) == ~\E i \in DOMAIN commands : commands[i].download = d

SeenPaused(d) ==
  engine[d] = "paused" /\ outbox = <<>> /\ Event("Paused", d) \notin Range(events)

\* add_download borrows the service until its Add is sent.
AddHandle(d) ==
  /\ Is("service", "serving") /\ client.unsent = {}
  /\ engine[d] = "unknown" /\ d \notin client.handles /\ NoRequest(d)
  /\ client' = [client EXCEPT !.handles = @ \cup {d}, !.unsent = {d}]
  /\ UNCHANGED <<frontend, channels, engine, outbox, lost>>

SendAdd(d) ==
  /\ Is("service", "serving") /\ d \in client.unsent
  /\ SendCommand("Add", d)
  /\ client' = [client EXCEPT !.unsent = {}]
  /\ UNCHANGED <<frontend, events, engine, outbox, lost>>

\* DownloadHandle::pause, cancel and resume, by a client that asks for one thing at
\* a time and resumes what it has seen pause.
Pause(d) ==
  /\ Is("service", "serving") /\ engine[d] = "running" /\ NoRequest(d)
  /\ SendCommand("Stop", d)
  /\ UNCHANGED <<frontend, events, engine, outbox, lost, client>>

Cancel(d) ==
  /\ Is("service", "serving")
  /\ engine[d] = "running" \/ SeenPaused(d)
  /\ NoRequest(d) /\ SendCommand("Cancel", d)
  /\ UNCHANGED <<frontend, events, engine, outbox, lost, client>>

Resume(d) ==
  /\ Is("service", "serving") /\ SeenPaused(d) /\ NoRequest(d)
  /\ SendCommand("Resume", d)
  /\ UNCHANGED <<frontend, events, engine, outbox, lost, client>>

\* The router's loop: forward the update, and forget the handle when it was the
\* last.
Route ==
  /\ Is("service", "serving") /\ events # <<>>
  /\ events' = Tail(events)
  /\ LET e == Head(events) IN
       /\ lost' = lost \cup ({e.download} \ client.handles)
       /\ client' = [client EXCEPT !.handles =
                       IF e.kind \in Terminal THEN @ \ {e.download} ELSE @]
  /\ UNCHANGED <<frontend, commands, engine, outbox>>

\* shutdown, or the service dropped: the router no longer looks at events.
ShutDown ==
  /\ Is("service", "serving") /\ client.unsent = {}
  /\ Goes("stopping")
  /\ client' = [client EXCEPT !.unsent = client.handles]
  /\ UNCHANGED <<channels, engine, outbox, lost>>

SendStop(d) ==
  /\ Is("service", "stopping") /\ d \in client.unsent
  /\ SendCommand("Stop", d)
  /\ client' = [client EXCEPT !.unsent = @ \ {d}]
  /\ UNCHANGED <<frontend, events, engine, outbox, lost>>

\* The router leaves whether or not all its stops are sent.
BadRouterLeaves ==
  /\ Is("service", "stopping")
  /\ Goes("gone") /\ events' = <<>>
  /\ UNCHANGED <<commands, engine, outbox, lost, client>>

RouterLeaves ==
  /\ Is("service", "stopping") /\ client.unsent = {}
  /\ Goes("gone") /\ events' = <<>>
  /\ UNCHANGED <<commands, engine, outbox, lost, client>>

RouterStep == Route \/ RouterLeaves \/ \E d \in Downloads : SendStop(d)

ServiceStep ==
  \/ RouterStep \/ ShutDown
  \/ \E d \in Downloads : AddHandle(d) \/ SendAdd(d) \/ Pause(d) \/ Cancel(d) \/ Resume(d)
-----------------------------------------------------------------------------
(* run_headless *)

\* All downloads of the command line, in its order, before the first event.
HeadlessAdd ==
  /\ Is("headless", "adding")
  /\ IF client.listed = <<>> THEN Goes("watching") /\ UNCHANGED <<commands, client>>
     ELSE /\ SendCommand("Add", Head(client.listed))
          /\ client' = [client EXCEPT !.listed = Tail(@)]
          /\ UNCHANGED frontend
  /\ UNCHANGED <<events, engine, outbox, lost>>

EndsWatch == {"Completed", "Error", "Paused"}

HeadlessWatch ==
  /\ Is("headless", "watching") /\ events # <<>>
  /\ LET e == Head(events)
         done == IF e.kind \in EndsWatch THEN client.finished \cup {e.download}
                 ELSE client.finished
         last == e.kind \in EndsWatch /\ Cardinality(done) = Cardinality(Downloads)
     IN /\ client' = [client EXCEPT !.finished = done]
        /\ IF last THEN Goes("exited") /\ events' = <<>>
           ELSE UNCHANGED frontend /\ events' = Tail(events)
  /\ UNCHANGED <<commands, engine, outbox, lost>>
-----------------------------------------------------------------------------
(* TuiApp *)

\* add_task, from the command line before anything else runs, or from a dialog:
\* listed whether or not the engine gets it.
AddTask(d) ==
  /\ frontend.program = "tui" /\ frontend.stage \in {"starting", "open"}
  /\ d \notin Range(client.listed)
  /\ TrySend("Add", d)
  /\ client' = [client EXCEPT !.listed = Append(@, d),
                              !.selected = IF Len(client.listed) = 0 THEN 1 ELSE @]
  /\ UNCHANGED <<frontend, events, engine, outbox, lost>>

TuiOpens ==
  /\ Is("tui", "starting") /\ Goes("open")
  /\ UNCHANGED <<channels, engine, outbox, lost, client>>

\* next and prev go round; the first of them selects when nothing is.
MoveSelection ==
  /\ Is("tui", "open") /\ client.listed # <<>>
  /\ LET n == Len(client.listed) IN
       \E i \in {IF client.selected >= n THEN 1 ELSE client.selected + 1,
                 IF client.selected <= 1 THEN n ELSE client.selected - 1} :
         client' = [client EXCEPT !.selected = i]
  /\ UNCHANGED <<frontend, channels, engine, outbox, lost>>

\* The stop and cancel keys act on the selected task, whatever its state.
HaltSelected ==
  /\ Is("tui", "open") /\ client.selected # 0
  /\ \E k \in Halts : TrySend(k, client.listed[client.selected])
  /\ UNCHANGED <<frontend, events, engine, outbox, lost, client>>

HandleEngineEvent ==
  /\ Is("tui", "open") /\ events # <<>>
  /\ events' = Tail(events)
  /\ UNCHANGED <<frontend, commands, engine, outbox, lost, client>>

Quit ==
  /\ Is("tui", "open") /\ Goes("quit") /\ events' = <<>>
  /\ UNCHANGED <<commands, engine, outbox, lost, client>>

TuiStep ==
  \/ \E d \in Downloads : AddTask(d)
  \/ TuiOpens \/ MoveSelection \/ HaltSelected \/ HandleEngineEvent \/ Quit
-----------------------------------------------------------------------------
FrontInit ==
  /\ \E p \in DOMAIN Stage :
       frontend = [program |-> p,
                   stage |-> CASE p = "service" -> "serving"
                               [] p = "headless" -> "adding" [] OTHER -> "starting"]
  /\ commands = <<>> /\ events = <<>> /\ outbox = <<>>
  /\ engine = [d \in Downloads |-> "unknown"]
  /\ lost = {}
  /\ client = [handles |-> {}, unsent |-> {}, selected |-> 0, finished |-> {},
               listed |-> IF frontend.program = "headless" THEN SetToSeq(Downloads) ELSE <<>>]

\* When a program has gone, so has its engine; the service's engine goes on.
EngineUp == frontend.stage \notin {"starting", "exited", "quit"}

FrontNext ==
  \/ EngineUp /\ EngineStep
  \/ ServiceStep
  \/ HeadlessAdd \/ HeadlessWatch
  \/ TuiStep

FrontSpec == FrontInit /\ [][FrontNext]_frontVars

\* Every task of the thread gets its turn, and a channel serves those that wait
\* for room in their order.
FrontFairness ==
  /\ WF_frontVars(EngineUp /\ TakeCommand)
  /\ SF_frontVars(EngineUp /\ SendOutbox)
  /\ WF_frontVars(RouterStep)
  /\ \A d \in Downloads : SF_frontVars(SendStop(d))

\* The service alone.
ServiceSpec ==
  /\ FrontInit /\ frontend.program = "service"
  /\ [][FrontNext]_frontVars /\ FrontFairness
-----------------------------------------------------------------------------
FrontTypeOK ==
  /\ frontend.program \in DOMAIN Stage /\ frontend.stage \in Stage[frontend.program]
  /\ Len(commands) <= CommandCap /\ Len(events) <= EventCap /\ Len(outbox) <= 1
  /\ engine \in [Downloads -> Place]
  /\ lost \subseteq Downloads
  /\ DOMAIN client = ClientField
  /\ client.handles \cup client.unsent \cup client.finished \subseteq Downloads
  /\ Len(client.listed) <= Cardinality(Downloads)
  /\ client.selected \in 0..Len(client.listed)

\* As long as the router listens, every event the engine sends for a download
\* reaches the handle of it: none comes before the router knows the
\* handle, and none after the one that made it forget.
NoUpdateLost == lost = {}

\* A shutdown stops every download that runs and has not been sent a stop yet,
\* although the router has stopped emptying the channel the engine writes to.
ShutdownReaches ==
  \A d \in Downloads :
    (/\ Is("service", "stopping") /\ engine[d] = "running"
     /\ d \notin client.handles \ client.unsent)
      ~> engine[d] # "running"
=============================================================================
