-------------------------- MODULE FrontendsProofs --------------------------
(***************************************************************************)
(* Proof that the event router has a handle for every update it takes, for *)
(* any number of downloads and any capacities of the two channels.         *)
(*                                                                         *)
(* The router forgets a download at its last event, so the argument is     *)
(* about what may still follow: a command for a download waits only while  *)
(* the engine is at the place where the command is due, at most one at a   *)
(* time; and the event that makes the router forget is sent when the       *)
(* download is over, after which nothing of it can be due.                 *)
(*                                                                         *)
(* And of all three programs, at every stage: channels stay within their   *)
(* capacities, and the selection of the terminal interface is a place of   *)
(* its list.  The list is not longer than there are downloads because      *)
(* nothing stands in it twice.                                             *)
(***************************************************************************)
EXTENDS MCParts, ConnectionBudgetProofs, SequenceTheorems

AnyCommand == [kind : {"Add", "Resume", "RuntimeStopped", "Stop", "Cancel"}, download : Downloads]
AnyEvent == [kind : {"Progress", "Completed", "Error", "Paused"}, download : Downloads]
AnyClient == [handles : SUBSET Downloads, unsent : SUBSET Downloads, listed : Seq(Downloads),
              selected : Nat, finished : SUBSET Downloads]

\* Where the engine is when a command is sent to it; a stop may come at any time.
Due == [Add |-> "unknown", Resume |-> "paused", RuntimeStopped |-> "leaving"]

Serving == Is("service", "serving")

FrontShapes ==
  /\ commands \in Seq(AnyCommand) /\ events \in Seq(AnyEvent)
  /\ engine \in [Downloads -> Place] /\ client \in AnyClient

\* A command is waited for, by a known download, and is the only one of it.
CommandsAreDue ==
  \A i \in DOMAIN commands : commands[i].kind \notin Halts =>
    /\ engine[commands[i].download] = Due[commands[i].kind]
    /\ commands[i].download \in client.handles
    /\ \A j \in DOMAIN commands :
         j # i /\ commands[j].download = commands[i].download => commands[j].kind \in Halts

\* A download whose Add waits for room is new.
UnsentIsNew ==
  \A d \in client.unsent :
    /\ engine[d] = "unknown" /\ d \in client.handles
    /\ \A i \in DOMAIN commands : commands[i].download = d => commands[i].kind \in Halts

\* What the engine is busy with is known.
BusyIsKnown ==
  \A d \in Downloads : engine[d] \notin {"unknown", "over"} => d \in client.handles

\* So is what it reports; a last event is the last, of a download that is over.
EventsAreKnown ==
  \A i \in DOMAIN events :
    /\ events[i].download \in client.handles
    /\ events[i].kind \in Terminal =>
         /\ engine[events[i].download] = "over"
         /\ \A j \in DOMAIN events : j > i => events[j].download # events[i].download

\* The loop itself only reports pauses.
OutboxReportsPause ==
  outbox = <<>> \/ \E d \in Downloads : outbox = <<Event("Paused", d)>> /\ engine[d] = "paused"

Books ==
  /\ FrontShapes /\ CommandsAreDue /\ UnsentIsNew
  /\ BusyIsKnown /\ EventsAreKnown /\ OutboxReportsPause

FrontInv == NoUpdateLost /\ (Serving => Books)

-----------------------------------------------------------------------------
(* Channels *)

\* One more message stands at the end.
LEMMA Appended ==
  ASSUME NEW S, NEW s \in Seq(S), NEW e \in S
  PROVE  /\ Append(s, e) \in Seq(S)
         /\ DOMAIN s = 1..Len(s) /\ Len(s) \in Nat
         /\ DOMAIN Append(s, e) = 1..(Len(s) + 1)
         /\ \A i \in DOMAIN s : Append(s, e)[i] = s[i]
         /\ Append(s, e)[Len(s) + 1] = e
BY AppendProperties, LenProperties

\* Without the first message the others move up.
LEMMA Dropped ==
  ASSUME NEW S, NEW s \in Seq(S), s # <<>>
  PROVE  /\ Head(s) \in S /\ Head(s) = s[1]
         /\ Tail(s) \in Seq(S)
         /\ DOMAIN s = 1..Len(s) /\ Len(s) \in Nat \ {0}
         /\ DOMAIN Tail(s) = 1..(Len(s) - 1)
         /\ \A i \in DOMAIN Tail(s) : Tail(s)[i] = s[i + 1]
<1>1. Head(s) \in S /\ Tail(s) \in Seq(S) /\ Len(Tail(s)) = Len(s) - 1
      /\ \A i \in 1..Len(Tail(s)) : Tail(s)[i] = s[i + 1]
  BY HeadTailProperties
<1>2. Len(s) \in Nat \ {0} /\ DOMAIN s = 1..Len(s)
  BY EmptySeq, LenProperties
<1>3. DOMAIN Tail(s) = 1..Len(Tail(s))
  BY <1>1, LenProperties
<1> QED BY <1>1, <1>2, <1>3

\* What every message of the two channels is.
LEMMA Messages ==
  ASSUME FrontShapes
  PROVE  /\ \A i \in DOMAIN commands : commands[i] \in AnyCommand
         /\ \A i \in DOMAIN events : events[i] \in AnyEvent
         /\ DOMAIN commands = 1..Len(commands) /\ Len(commands) \in Nat
         /\ DOMAIN events = 1..Len(events) /\ Len(events) \in Nat
<1>1. DOMAIN commands = 1..Len(commands) /\ Len(commands) \in Nat
  BY LenProperties DEF FrontShapes
<1>2. DOMAIN events = 1..Len(events) /\ Len(events) \in Nat
  BY LenProperties DEF FrontShapes
<1> QED BY <1>1, <1>2, ElementOfSeq DEF FrontShapes

\* Only the three commands that are due somewhere are no stops.
LEMMA Dues ==
  /\ Due["Add"] = "unknown" /\ Due["Resume"] = "paused" /\ Due["RuntimeStopped"] = "leaving"
  /\ \A c \in AnyCommand : c.kind \notin Halts =>
       Due[c.kind] \notin {"waiting", "running", "halting", "over"}
BY DEF Due, AnyCommand, Halts

-----------------------------------------------------------------------------
(* The engine *)

\* The engine takes a command that was due; nothing else of the download is.
LEMMA TakeCommandKeeps ==
  ASSUME Serving, Books, TakeCommand
  PROVE  Books'
<1> DEFINE c == commands[1]  d == c.download
<1>1. /\ Head(commands) = c /\ c \in AnyCommand /\ d \in Downloads
      /\ commands' = Tail(commands) /\ commands' \in Seq(AnyCommand)
      /\ DOMAIN commands = 1..Len(commands) /\ Len(commands) \in Nat \ {0}
      /\ DOMAIN commands' = 1..(Len(commands) - 1)
      /\ \A i \in DOMAIN commands' : commands'[i] = commands[i + 1]
  <2>1. commands' = Tail(commands) /\ commands # <<>> /\ commands \in Seq(AnyCommand)
    BY DEF TakeCommand, Books, FrontShapes
  <2>2. /\ Head(commands) = c /\ c \in AnyCommand /\ Tail(commands) \in Seq(AnyCommand)
        /\ DOMAIN commands = 1..Len(commands) /\ Len(commands) \in Nat \ {0}
        /\ DOMAIN Tail(commands) = 1..(Len(commands) - 1)
        /\ \A i \in DOMAIN Tail(commands) : Tail(commands)[i] = commands[i + 1]
    BY <2>1, Dropped
  <2>3. d \in Downloads
    BY <2>2 DEF AnyCommand
  <2> QED BY <2>1, <2>2, <2>3
<1>2. UNCHANGED <<frontend, events, client>> /\ outbox = <<>>
  BY DEF TakeCommand
<1>3. \A i \in DOMAIN commands' : i + 1 \in DOMAIN commands /\ i + 1 # 1
  BY <1>1
<1>4. \/ /\ c.kind \in {"Add", "Resume"} /\ engine' = [engine EXCEPT ![d] = "waiting"]
         /\ outbox' = <<>>
      \/ /\ c.kind \in Halts /\ engine[d] = "running" /\ outbox' = <<>>
         /\ engine' = [engine EXCEPT ![d] = "halting"]
      \/ c.kind \in Halts /\ UNCHANGED engine /\ outbox' = <<>>
      \/ /\ c.kind \in Halts /\ engine[d] = "paused" /\ UNCHANGED engine
         /\ outbox' = <<Event("Paused", d)>>
      \/ /\ c.kind = "RuntimeStopped" /\ engine' = [engine EXCEPT ![d] = "paused"]
         /\ outbox' = <<Event("Paused", d)>>
  BY <1>1, <1>2 DEF TakeCommand, Placed, AnyCommand, Halts
<1>5. engine' \in [Downloads -> Place] /\ \A e \in Downloads : e # d => engine'[e] = engine[e]
  BY <1>1, <1>4 DEF Books, FrontShapes, Place
<1>6. c.kind \notin Halts =>
        /\ engine[d] = Due[c.kind] /\ d \in client.handles
        /\ \A i \in DOMAIN commands' : commands'[i].download = d => commands'[i].kind \in Halts
  BY <1>1, <1>3 DEF Books, CommandsAreDue
<1>7. FrontShapes'
  BY <1>1, <1>2, <1>5 DEF Books, FrontShapes
<1>8. CommandsAreDue'
  <2> SUFFICES ASSUME NEW i \in DOMAIN commands', commands'[i].kind \notin Halts
               PROVE  /\ engine'[commands'[i].download] = Due[commands'[i].kind]
                      /\ commands'[i].download \in client'.handles
                      /\ \A j \in DOMAIN commands' :
                           j # i /\ commands'[j].download = commands'[i].download
                             => commands'[j].kind \in Halts
    BY DEF CommandsAreDue
  <2>1. i + 1 \in DOMAIN commands /\ commands'[i] = commands[i + 1]
        /\ commands[i + 1] \in AnyCommand
    BY <1>1, <1>3, Messages DEF Books
  <2>2. /\ engine[commands[i + 1].download] = Due[commands[i + 1].kind]
        /\ commands[i + 1].download \in client.handles
        /\ \A j \in DOMAIN commands :
             j # i + 1 /\ commands[j].download = commands[i + 1].download
               => commands[j].kind \in Halts
    BY <2>1 DEF Books, CommandsAreDue
  <2>3. \A j \in DOMAIN commands' :
          j # i /\ commands'[j].download = commands'[i].download => commands'[j].kind \in Halts
    <3> SUFFICES ASSUME NEW j \in DOMAIN commands', j # i,
                        commands'[j].download = commands'[i].download
                 PROVE  commands'[j].kind \in Halts
      OBVIOUS
    <3>1. j + 1 \in DOMAIN commands /\ commands'[j] = commands[j + 1] /\ j + 1 # i + 1
      BY <1>1, <1>3
    <3> QED BY <3>1, <2>1, <2>2
  <2>4. engine'[commands'[i].download] = engine[commands'[i].download]
    <3>1. CASE commands'[i].download # d
      BY <3>1, <2>1, <1>5 DEF AnyCommand
    <3>2. CASE commands'[i].download = d
      <4>1. c.kind \in Halts
        BY <3>2, <1>6
      <4>2. engine[d] # "running"
        BY <3>2, <2>1, <2>2, Dues
      <4> QED BY <4>1, <4>2, <3>2, <1>4 DEF Halts
    <3> QED BY <3>1, <3>2
  <2> QED BY <2>1, <2>2, <2>3, <2>4, <1>2
<1>9. UnsentIsNew'
  <2> SUFFICES ASSUME NEW e \in client.unsent
               PROVE  /\ engine'[e] = "unknown" /\ e \in client.handles
                      /\ \A i \in DOMAIN commands' :
                           commands'[i].download = e => commands'[i].kind \in Halts
    BY <1>2 DEF UnsentIsNew
  <2>1. /\ engine[e] = "unknown" /\ e \in client.handles /\ e \in Downloads
        /\ \A i \in DOMAIN commands : commands[i].download = e => commands[i].kind \in Halts
    BY DEF Books, UnsentIsNew, FrontShapes, AnyClient
  <2>2. engine'[e] = "unknown"
    <3>1. CASE e # d
      BY <3>1, <2>1, <1>5
    <3>2. CASE e = d
      <4>1. c.kind \in Halts
        BY <3>2, <2>1, <1>1
      <4> QED BY <4>1, <3>2, <2>1, <1>4 DEF Halts
    <3> QED BY <3>1, <3>2
  <2> QED BY <2>1, <2>2, <1>1, <1>3
<1>10. BusyIsKnown'
  <2> SUFFICES ASSUME NEW e \in Downloads, engine'[e] \notin {"unknown", "over"}
               PROVE  e \in client.handles
    BY <1>2 DEF BusyIsKnown
  <2>1. CASE engine[e] \notin {"unknown", "over"}
    BY <2>1 DEF Books, BusyIsKnown
  <2>2. CASE engine[e] \in {"unknown", "over"}
    <3>1. e = d /\ c.kind \notin Halts
      BY <2>2, <1>4, <1>5 DEF Halts
    <3> QED BY <3>1, <1>6
  <2> QED BY <2>1, <2>2
<1>11. EventsAreKnown'
  <2>1. \A e \in Downloads : engine[e] = "over" => engine'[e] = "over"
    <3>1. engine[d] = "over" => c.kind \in Halts
      BY <1>1, <1>6, Dues
    <3> QED BY <3>1, <1>4, <1>5 DEF Halts
  <2>2. \A i \in DOMAIN events : events[i].download \in Downloads
    BY Messages DEF Books, AnyEvent
  <2> QED BY <2>1, <2>2, <1>2 DEF Books, EventsAreKnown
<1>12. OutboxReportsPause'
  <2>1. CASE outbox' = <<>>
    BY <2>1 DEF OutboxReportsPause
  <2>2. CASE outbox' # <<>>
    <3>1. CASE engine' = [engine EXCEPT ![d] = "paused"] /\ outbox' = <<Event("Paused", d)>>
      BY <3>1, <1>1 DEF Books, FrontShapes, OutboxReportsPause, Event
    <3>2. CASE engine[d] = "paused" /\ UNCHANGED engine /\ outbox' = <<Event("Paused", d)>>
      BY <3>2, <1>1 DEF OutboxReportsPause, Event
    <3> QED BY <2>2, <3>1, <3>2, <1>4
  <2> QED BY <2>1, <2>2
<1> QED BY <1>7, <1>8, <1>9, <1>10, <1>11, <1>12 DEF Books

\* An event of a known download that is not over yet is sent; if it is a last
\* one, the download is over now.
LEMMA EventSent ==
  ASSUME Serving, Books, NEW d \in Downloads,
         NEW k \in {"Progress", "Completed", "Error", "Paused"}, Emit(k, d),
         UNCHANGED client, d \in client.handles, engine[d] # "over",
         \A e \in Downloads : engine[e] = "over" => engine'[e] = "over",
         k \in Terminal => engine'[d] = "over"
  PROVE  events' \in Seq(AnyEvent) /\ EventsAreKnown'
<1> DEFINE new == Event(k, d)
<1>1. events' = Append(events, new)
  BY DEF Emit, Receiving, Serving, Is
<1>2. new \in AnyEvent /\ new.download = d /\ new.kind = k
  BY DEF Event, AnyEvent
<1> HIDE DEF new
<1>3. /\ events' \in Seq(AnyEvent)
      /\ DOMAIN events = 1..Len(events) /\ Len(events) \in Nat
      /\ DOMAIN events' = 1..(Len(events) + 1)
      /\ \A i \in DOMAIN events : events'[i] = events[i]
      /\ events'[Len(events) + 1] = new
  BY <1>1, <1>2, Appended DEF Books, FrontShapes
<1>4. ASSUME NEW i \in DOMAIN events'
      PROVE  /\ events'[i].download \in client.handles
             /\ events'[i].kind \in Terminal =>
                  /\ engine'[events'[i].download] = "over"
                  /\ \A j \in DOMAIN events' : j > i => events'[j].download # events'[i].download
  <2>1. CASE i = Len(events) + 1
    BY <2>1, <1>2, <1>3
  <2>2. CASE i # Len(events) + 1
    <3>1. i \in DOMAIN events /\ events'[i] = events[i] /\ events[i].download \in Downloads
      BY <2>2, <1>3, <1>4, Messages DEF Books, AnyEvent
    <3>2. /\ events[i].download \in client.handles
          /\ events[i].kind \in Terminal =>
               /\ engine[events[i].download] = "over"
               /\ \A j \in DOMAIN events : j > i => events[j].download # events[i].download
      BY <3>1 DEF Books, EventsAreKnown
    <3>3. ASSUME events[i].kind \in Terminal, NEW j \in DOMAIN events', j > i
          PROVE  events'[j].download # events[i].download
      <4>1. CASE j = Len(events) + 1
        BY <4>1, <3>2, <3>3, <1>2, <1>3
      <4>2. CASE j # Len(events) + 1
        <5>1. j \in DOMAIN events /\ events'[j] = events[j]
          BY <4>2, <3>3, <1>3
        <5> QED BY <5>1, <3>2, <3>3
      <4> QED BY <4>1, <4>2
    <3> QED BY <3>1, <3>2, <3>3
  <2> QED BY <2>1, <2>2
<1> QED BY <1>3, <1>4 DEF EventsAreKnown

\* A command that is due, the only one of its download, is sent.
LEMMA CommandSent ==
  ASSUME Serving, Books, NEW d \in Downloads,
         NEW k \in {"Add", "Resume", "RuntimeStopped", "Stop", "Cancel"}, SendCommand(k, d),
         client'.handles = client.handles,
         k \notin Halts =>
           /\ d \in client.handles /\ engine'[d] = Due[k]
           /\ \A i \in DOMAIN commands :
                commands[i].download = d => commands[i].kind \in Halts,
         \A i \in DOMAIN commands : commands[i].kind \notin Halts =>
           engine'[commands[i].download] = engine[commands[i].download]
  PROVE  /\ commands' \in Seq(AnyCommand) /\ CommandsAreDue'
         /\ DOMAIN commands' = 1..(Len(commands) + 1)
         /\ \A i \in DOMAIN commands : commands'[i] = commands[i]
         /\ commands'[Len(commands) + 1] = Command(k, d)
<1> DEFINE new == Command(k, d)  n == Len(commands) + 1
<1>1. commands' = Append(commands, new)
  BY DEF SendCommand
<1>2. new \in AnyCommand /\ new.download = d /\ new.kind = k
  BY DEF Command, AnyCommand
<1> HIDE DEF new
<1>3. /\ commands' \in Seq(AnyCommand)
      /\ DOMAIN commands = 1..Len(commands) /\ Len(commands) \in Nat
      /\ DOMAIN commands' = 1..n
      /\ \A i \in DOMAIN commands : commands'[i] = commands[i]
      /\ commands'[n] = new
  BY <1>1, <1>2, Appended DEF Books, FrontShapes
<1>4. ASSUME NEW i \in DOMAIN commands', commands'[i].kind \notin Halts
      PROVE  /\ engine'[commands'[i].download] = Due[commands'[i].kind]
             /\ commands'[i].download \in client'.handles
             /\ \A j \in DOMAIN commands' :
                  j # i /\ commands'[j].download = commands'[i].download
                    => commands'[j].kind \in Halts
  <2>1. CASE i = n
    <3>1. k \notin Halts /\ commands'[i] = new
      BY <2>1, <1>2, <1>3, <1>4
    <3>2. \A j \in DOMAIN commands' : j # i => j \in DOMAIN commands /\ commands'[j] = commands[j]
      BY <2>1, <1>3
    <3> QED BY <3>1, <3>2, <1>2
  <2>2. CASE i # n
    <3>1. i \in DOMAIN commands /\ commands'[i] = commands[i]
      BY <2>2, <1>3, <1>4
    <3>2. /\ engine[commands[i].download] = Due[commands[i].kind]
          /\ commands[i].download \in client.handles
          /\ \A j \in DOMAIN commands :
               j # i /\ commands[j].download = commands[i].download => commands[j].kind \in Halts
      BY <3>1, <1>4 DEF Books, CommandsAreDue
    <3>3. ASSUME NEW j \in DOMAIN commands', j # i,
                 commands'[j].download = commands'[i].download
          PROVE  commands'[j].kind \in Halts
      <4>1. CASE j = n
        BY <4>1, <3>1, <3>3, <1>2, <1>3, <1>4
      <4>2. CASE j # n
        <5>1. j \in DOMAIN commands /\ commands'[j] = commands[j]
          BY <4>2, <3>3, <1>3
        <5> QED BY <5>1, <3>1, <3>2, <3>3
      <4> QED BY <4>1, <4>2
    <3> QED BY <3>1, <3>2, <3>3, <1>4
  <2> QED BY <2>1, <2>2
<1> QED BY <1>3, <1>4 DEF CommandsAreDue, new

\* What is on its way as a command, and not a stop, is not with the engine.
LEMMA NotDueTwice ==
  ASSUME Books, NEW i \in DOMAIN commands, commands[i].kind \notin Halts
  PROVE  engine[commands[i].download] \notin {"waiting", "running", "halting", "over"}
<1>1. commands[i] \in AnyCommand
  BY Messages DEF Books
<1>2. engine[commands[i].download] = Due[commands[i].kind]
  BY DEF Books, CommandsAreDue
<1> QED BY <1>1, <1>2, Dues

\* A download the engine is busy with moves on to another such place, or is over;
\* no message is taken or sent but those the caller has dealt with.
LEMMA EngineMoves ==
  ASSUME Books, NEW d \in Downloads, NEW p \in Place \ {"unknown"}, Placed(d, p),
         engine[d] \in {"waiting", "running", "halting"},
         UNCHANGED client
  PROVE  /\ engine' \in [Downloads -> Place] /\ engine'[d] = p
         /\ \A e \in Downloads : e # d => engine'[e] = engine[e]
         /\ \A e \in Downloads : engine[e] = "over" => engine'[e] = "over"
         /\ \A i \in DOMAIN commands : commands[i].kind \notin Halts =>
              engine'[commands[i].download] = engine[commands[i].download]
         /\ \A e \in client.unsent : engine'[e] = "unknown"
         /\ BusyIsKnown'
<1>1. /\ engine' = [engine EXCEPT ![d] = p] /\ engine \in [Downloads -> Place]
      /\ client \in AnyClient
  BY DEF Placed, Books, FrontShapes
<1>2. engine' \in [Downloads -> Place] /\ engine'[d] = p
      /\ \A e \in Downloads : e # d => engine'[e] = engine[e]
  BY <1>1
<1>3. \A i \in DOMAIN commands : commands[i].kind \notin Halts =>
        engine'[commands[i].download] = engine[commands[i].download]
  <2> SUFFICES ASSUME NEW i \in DOMAIN commands, commands[i].kind \notin Halts
               PROVE  engine'[commands[i].download] = engine[commands[i].download]
    OBVIOUS
  <2>1. commands[i].download \in Downloads
    BY Messages DEF Books, AnyCommand
  <2>2. commands[i].download # d
    BY NotDueTwice
  <2> QED BY <2>1, <2>2, <1>2
<1>4. \A e \in client.unsent : engine'[e] = "unknown"
  BY <1>1, <1>2 DEF Books, UnsentIsNew, AnyClient
<1>5. BusyIsKnown'
  BY <1>2 DEF Books, BusyIsKnown
<1> QED BY <1>2, <1>3, <1>4, <1>5

\* The parts about commands, when none is taken or sent.
LEMMA CommandsKept ==
  ASSUME Books, UNCHANGED <<commands, client>>,
         \A i \in DOMAIN commands : commands[i].kind \notin Halts =>
           engine'[commands[i].download] = engine[commands[i].download],
         \A e \in client.unsent : engine'[e] = "unknown"
  PROVE  CommandsAreDue' /\ UnsentIsNew'
BY DEF Books, CommandsAreDue, UnsentIsNew

\* The part about events, when none is taken or sent.
LEMMA EventsKept ==
  ASSUME Books, UNCHANGED <<events, client>>,
         \A e \in Downloads : engine[e] = "over" => engine'[e] = "over"
  PROVE  EventsAreKnown'
<1>1. \A i \in DOMAIN events : events[i].download \in Downloads
  BY Messages DEF Books, AnyEvent
<1> QED BY <1>1 DEF Books, EventsAreKnown

\* A download that waited runs; no message is sent.
LEMMA LaunchKeeps ==
  ASSUME Serving, Books, NEW d \in Downloads, LaunchDownload(d)
  PROVE  Books'
<1>1. UNCHANGED <<frontend, commands, events, outbox, client>> /\ outbox = <<>>
      /\ engine[d] = "waiting" /\ Placed(d, "running")
  BY DEF LaunchDownload, channels
<1>2. /\ engine' \in [Downloads -> Place]
      /\ \A e \in Downloads : engine[e] = "over" => engine'[e] = "over"
      /\ \A i \in DOMAIN commands : commands[i].kind \notin Halts =>
           engine'[commands[i].download] = engine[commands[i].download]
      /\ \A e \in client.unsent : engine'[e] = "unknown"
      /\ BusyIsKnown'
  BY <1>1, EngineMoves DEF Place
<1>3. CommandsAreDue' /\ UnsentIsNew' /\ EventsAreKnown'
  BY <1>1, <1>2, CommandsKept, EventsKept
<1> QED BY <1>1, <1>2, <1>3 DEF Books, FrontShapes, OutboxReportsPause

\* An update of a run is an event that is not the last.
LEMMA ProgressKeeps ==
  ASSUME Serving, Books, NEW d \in Downloads, ReportProgress(d)
  PROVE  Books'
<1>1. UNCHANGED <<frontend, commands, engine, outbox, client>>
      /\ engine[d] \in {"running", "halting"} /\ Emit("Progress", d)
  BY DEF ReportProgress
<1>2. d \in client.handles
  BY <1>1 DEF Books, BusyIsKnown
<1>3. events' \in Seq(AnyEvent) /\ EventsAreKnown'
  BY <1>1, <1>2, EventSent DEF Terminal
<1>4. CommandsAreDue' /\ UnsentIsNew' /\ BusyIsKnown' /\ OutboxReportsPause'
  BY <1>1 DEF Books, CommandsAreDue, UnsentIsNew, BusyIsKnown, OutboxReportsPause
<1> QED BY <1>1, <1>3, <1>4 DEF Books, FrontShapes

\* The last event of a run is sent in the step that makes it over.
LEMMA RunEndsKeeps ==
  ASSUME Serving, Books, NEW d \in Downloads, RunEnds(d)
  PROVE  Books'
<1>1. /\ UNCHANGED <<frontend, commands, outbox, client>>
      /\ engine[d] \in {"running", "halting"} /\ Placed(d, "over")
  BY DEF RunEnds
<1>2. PICK k \in {"Completed", "Error"} : Emit(k, d)
  BY DEF RunEnds
<1>3. d \in client.handles
  BY <1>1 DEF Books, BusyIsKnown
<1>4. /\ engine' \in [Downloads -> Place] /\ engine'[d] = "over"
      /\ \A e \in Downloads : e # d => engine'[e] = engine[e]
      /\ \A e \in Downloads : engine[e] = "over" => engine'[e] = "over"
      /\ \A i \in DOMAIN commands : commands[i].kind \notin Halts =>
           engine'[commands[i].download] = engine[commands[i].download]
      /\ \A e \in client.unsent : engine'[e] = "unknown"
      /\ BusyIsKnown'
  BY <1>1, EngineMoves DEF Place
<1>5. events' \in Seq(AnyEvent) /\ EventsAreKnown'
  BY <1>1, <1>2, <1>3, <1>4, EventSent
<1>6. CommandsAreDue' /\ UnsentIsNew'
  BY <1>1, <1>4, CommandsKept
<1>7. OutboxReportsPause'
  BY <1>1, <1>4 DEF Books, OutboxReportsPause
<1> QED BY <1>1, <1>4, <1>5, <1>6, <1>7 DEF Books, FrontShapes

\* A halted run leaves with a message to the loop, the only command of it then.
LEMMA RunHaltsKeeps ==
  ASSUME Serving, Books, NEW d \in Downloads, RunHalts(d)
  PROVE  Books'
<1>1. /\ UNCHANGED <<frontend, events, outbox, client>>
      /\ engine[d] = "halting" /\ Placed(d, "leaving") /\ SendCommand("RuntimeStopped", d)
  BY DEF RunHalts
<1>2. d \in client.handles
  BY <1>1 DEF Books, BusyIsKnown
<1>3. /\ engine' \in [Downloads -> Place] /\ engine'[d] = "leaving"
      /\ \A e \in Downloads : e # d => engine'[e] = engine[e]
      /\ \A e \in Downloads : engine[e] = "over" => engine'[e] = "over"
      /\ \A i \in DOMAIN commands : commands[i].kind \notin Halts =>
           engine'[commands[i].download] = engine[commands[i].download]
      /\ \A e \in client.unsent : engine'[e] = "unknown"
      /\ BusyIsKnown'
  BY <1>1, EngineMoves DEF Place
<1>4. \A i \in DOMAIN commands : commands[i].download = d => commands[i].kind \in Halts
  BY <1>1, NotDueTwice
<1>5. /\ commands' \in Seq(AnyCommand) /\ CommandsAreDue'
      /\ DOMAIN commands' = 1..(Len(commands) + 1)
      /\ \A i \in DOMAIN commands : commands'[i] = commands[i]
      /\ commands'[Len(commands) + 1] = Command("RuntimeStopped", d)
  BY <1>1, <1>2, <1>3, <1>4, Dues, CommandSent
<1>6. UnsentIsNew'
  <2> SUFFICES ASSUME NEW e \in client.unsent
               PROVE  /\ engine'[e] = "unknown" /\ e \in client.handles
                      /\ \A i \in DOMAIN commands' :
                           commands'[i].download = e => commands'[i].kind \in Halts
    BY <1>1 DEF UnsentIsNew
  <2>1. /\ e \in client.handles /\ e \in Downloads /\ e # d
        /\ \A i \in DOMAIN commands : commands[i].download = e => commands[i].kind \in Halts
    BY <1>1 DEF Books, UnsentIsNew, FrontShapes, AnyClient
  <2>2. \A i \in DOMAIN commands' : i \in DOMAIN commands \/ i = Len(commands) + 1
    BY <1>5, Messages DEF Books
  <2> QED BY <2>1, <2>2, <1>3, <1>5 DEF Command
<1>7. EventsAreKnown'
  BY <1>1, <1>3, EventsKept
<1>8. OutboxReportsPause'
  BY <1>1, <1>3 DEF Books, OutboxReportsPause
<1> QED BY <1>1, <1>3, <1>5, <1>6, <1>7, <1>8 DEF Books, FrontShapes

\* The event that waits in the loop reports a pause, of a download that is known.
LEMMA SendOutboxKeeps ==
  ASSUME Serving, Books, SendOutbox
  PROVE  Books'
<1>1. /\ UNCHANGED <<frontend, commands, engine, client>> /\ outbox' = <<>>
      /\ outbox # <<>> /\ Emit(Head(outbox).kind, Head(outbox).download)
  BY DEF SendOutbox
<1>2. PICK d \in Downloads : outbox = <<Event("Paused", d)>> /\ engine[d] = "paused"
  BY <1>1 DEF Books, OutboxReportsPause
<1>3. Head(outbox) = Event("Paused", d)
  BY <1>2
<1>4. Emit("Paused", d)
  BY <1>1, <1>3 DEF Event
<1>5. d \in client.handles
  BY <1>2 DEF Books, BusyIsKnown
<1>6. events' \in Seq(AnyEvent) /\ EventsAreKnown'
  BY <1>1, <1>2, <1>4, <1>5, EventSent DEF Terminal
<1>7. CommandsAreDue' /\ UnsentIsNew' /\ BusyIsKnown' /\ OutboxReportsPause'
  BY <1>1 DEF Books, CommandsAreDue, UnsentIsNew, BusyIsKnown, OutboxReportsPause
<1> QED BY <1>1, <1>6, <1>7 DEF Books, FrontShapes

-----------------------------------------------------------------------------
(* The service *)

\* A new download gets its handle before anything can be said of it.
LEMMA AddDownloadKeeps ==
  ASSUME Serving, Books, NEW d \in Downloads, AddHandle(d)
  PROVE  Books'
<1>1. /\ UNCHANGED <<frontend, commands, events, engine, outbox>>
      /\ client' = [client EXCEPT !.handles = @ \cup {d}, !.unsent = {d}]
      /\ engine[d] = "unknown"
      /\ ~\E i \in DOMAIN commands : commands[i].download = d
  BY DEF AddHandle, NoRequest, channels
<1>2. /\ client' \in AnyClient /\ client'.handles = client.handles \cup {d}
      /\ client'.unsent = {d}
  BY <1>1 DEF Books, FrontShapes, AnyClient
<1>3. CommandsAreDue' /\ UnsentIsNew' /\ BusyIsKnown'
  BY <1>1, <1>2 DEF Books, CommandsAreDue, UnsentIsNew, BusyIsKnown
<1>4. EventsAreKnown' /\ OutboxReportsPause'
  BY <1>1, <1>2 DEF Books, EventsAreKnown, OutboxReportsPause
<1> QED BY <1>1, <1>2, <1>3, <1>4 DEF Books, FrontShapes

\* The Add of a new download is sent when there is room.
LEMMA SendAddKeeps ==
  ASSUME Serving, Books, NEW d \in Downloads, SendAdd(d)
  PROVE  Books'
<1>1. /\ UNCHANGED <<frontend, events, engine, outbox>> /\ SendCommand("Add", d)
      /\ client' = [client EXCEPT !.unsent = {}] /\ d \in client.unsent
  BY DEF SendAdd
<1>2. client' \in AnyClient /\ client'.handles = client.handles /\ client'.unsent = {}
  BY <1>1 DEF Books, FrontShapes, AnyClient
<1>3. /\ engine[d] = "unknown" /\ d \in client.handles
      /\ \A i \in DOMAIN commands : commands[i].download = d => commands[i].kind \in Halts
  BY <1>1 DEF Books, UnsentIsNew
<1>4. commands' \in Seq(AnyCommand) /\ CommandsAreDue'
  BY <1>1, <1>2, <1>3, Dues, CommandSent
<1>5. UnsentIsNew' /\ BusyIsKnown' /\ EventsAreKnown' /\ OutboxReportsPause'
  BY <1>1, <1>2 DEF Books, UnsentIsNew, BusyIsKnown, EventsAreKnown, OutboxReportsPause
<1> QED BY <1>1, <1>2, <1>4, <1>5 DEF Books, FrontShapes

\* A stop or a resume of a handle, sent while no Add of the same download waits.
LEMMA HandleSends ==
  ASSUME Serving, Books, NEW d \in Downloads, NEW k \in {"Stop", "Cancel", "Resume"}, SendCommand(k, d),
         UNCHANGED <<frontend, events, engine, outbox, client>>,
         k = "Resume" =>
           /\ engine[d] = "paused"
           /\ \A i \in DOMAIN commands :
                commands[i].download = d => commands[i].kind \in Halts
  PROVE  Books'
<1>1. k = "Resume" => d \in client.handles
  BY DEF Books, BusyIsKnown
<1>2. /\ commands' \in Seq(AnyCommand) /\ CommandsAreDue'
      /\ DOMAIN commands' = 1..(Len(commands) + 1)
      /\ \A i \in DOMAIN commands : commands'[i] = commands[i]
      /\ commands'[Len(commands) + 1] = Command(k, d)
  BY <1>1, Dues, CommandSent DEF Halts
<1>3. UnsentIsNew'
  <2>1. \A i \in DOMAIN commands' : i \in DOMAIN commands \/ i = Len(commands) + 1
    BY <1>2, Messages DEF Books
  <2>2. d \in client.unsent => k \in Halts
    BY DEF Books, UnsentIsNew, Halts
  <2> QED BY <2>1, <2>2, <1>2 DEF Books, UnsentIsNew, Command
<1>4. BusyIsKnown' /\ EventsAreKnown' /\ OutboxReportsPause'
  BY DEF Books, BusyIsKnown, EventsAreKnown, OutboxReportsPause
<1> QED BY <1>2, <1>3, <1>4 DEF Books, FrontShapes

\* A resume is sent for a download whose pause was reported.
LEMMA ResumeKeeps ==
  ASSUME Serving, Books, NEW d \in Downloads, Resume(d)
  PROVE  Books'
BY HandleSends DEF Resume, SeenPaused, NoRequest

\* The router forgets a download only at its last event.
LEMMA RouteKeeps ==
  ASSUME Serving, Books, Route
  PROVE  Books' /\ events # <<>> /\ Head(events).download \in client.handles
<1> DEFINE e == events[1]  d == e.download
<1>1. /\ UNCHANGED <<frontend, commands, engine, outbox>> /\ events # <<>>
      /\ events' = Tail(events) /\ events \in Seq(AnyEvent)
  BY DEF Route, Books, FrontShapes
<1>2. /\ Head(events) = e /\ e \in AnyEvent /\ events' \in Seq(AnyEvent)
      /\ DOMAIN events = 1..Len(events) /\ Len(events) \in Nat \ {0}
      /\ DOMAIN events' = 1..(Len(events) - 1)
      /\ \A i \in DOMAIN events' : events'[i] = events[i + 1]
  BY <1>1, Dropped
<1>3. client' = [client EXCEPT !.handles =
                   IF e.kind \in Terminal THEN @ \ {d} ELSE @]
  BY <1>2 DEF Route
<1>4. client' \in AnyClient /\ client'.unsent = client.unsent
      /\ client'.handles = IF e.kind \in Terminal THEN client.handles \ {d} ELSE client.handles
  BY <1>3 DEF Books, FrontShapes, AnyClient
<1>5. /\ d \in client.handles /\ d \in Downloads
      /\ e.kind \in Terminal =>
           /\ engine[d] = "over"
           /\ \A j \in DOMAIN events : j > 1 => events[j].download # d
  BY <1>2 DEF Books, EventsAreKnown, AnyEvent
<1>6. CommandsAreDue'
  <2>1. ASSUME e.kind \in Terminal, NEW i \in DOMAIN commands, commands[i].kind \notin Halts
        PROVE  commands[i].download # d
    BY <2>1, <1>5, NotDueTwice
  <2> QED BY <2>1, <1>1, <1>4 DEF Books, CommandsAreDue
<1>7. UnsentIsNew' /\ BusyIsKnown'
  BY <1>1, <1>4, <1>5 DEF Books, UnsentIsNew, BusyIsKnown
<1>8. EventsAreKnown'
  <2> SUFFICES ASSUME NEW i \in DOMAIN events'
               PROVE  /\ events'[i].download \in client'.handles
                      /\ events'[i].kind \in Terminal =>
                           /\ engine[events'[i].download] = "over"
                           /\ \A j \in DOMAIN events' :
                                j > i => events'[j].download # events'[i].download
    BY <1>1 DEF EventsAreKnown
  <2>1. i + 1 \in DOMAIN events /\ i + 1 > 1 /\ events'[i] = events[i + 1]
    BY <1>2
  <2>2. /\ events[i + 1].download \in client.handles
        /\ events[i + 1].kind \in Terminal =>
             /\ engine[events[i + 1].download] = "over"
             /\ \A j \in DOMAIN events :
                  j > i + 1 => events[j].download # events[i + 1].download
    BY <2>1 DEF Books, EventsAreKnown
  <2>3. events'[i].download \in client'.handles
    BY <2>1, <2>2, <1>4, <1>5
  <2>4. ASSUME events'[i].kind \in Terminal, NEW j \in DOMAIN events', j > i
        PROVE  events'[j].download # events'[i].download
    <3>1. j + 1 \in DOMAIN events /\ j + 1 > i + 1 /\ events'[j] = events[j + 1]
      BY <2>4, <1>2
    <3> QED BY <3>1, <2>1, <2>2, <2>4
  <2> QED BY <2>1, <2>2, <2>3, <2>4
<1>9. OutboxReportsPause'
  BY <1>1 DEF Books, OutboxReportsPause
<1> QED BY <1>1, <1>2, <1>4, <1>5, <1>6, <1>7, <1>8, <1>9 DEF Books, FrontShapes
-----------------------------------------------------------------------------
\* At the start both channels are empty and nothing is known of any download.
LEMMA FrontStarts == FrontInit => FrontInv
<1> SUFFICES ASSUME FrontInit PROVE NoUpdateLost /\ (Serving => Books)
  BY DEF FrontInv
<1>1. /\ commands = <<>> /\ events = <<>> /\ outbox = <<>> /\ lost = {}
      /\ engine = [d \in Downloads |-> "unknown"]
      /\ client = [handles |-> {}, unsent |-> {}, selected |-> 0, finished |-> {},
                   listed |-> IF frontend.program = "headless" THEN SetToSeq(Downloads)
                              ELSE <<>>]
  BY DEF FrontInit
<1>2. ASSUME Serving PROVE Books
  <2>1. client.listed = <<>>
    BY <1>1, <1>2 DEF Serving, Is
  <2>2. client \in AnyClient
    BY <1>1, <2>1, EmptySeq DEF AnyClient
  <2>3. FrontShapes
    BY <1>1, <2>2, EmptySeq DEF FrontShapes, Place
  <2> QED BY <1>1, <2>3 DEF Books, CommandsAreDue, UnsentIsNew, BusyIsKnown,
                            EventsAreKnown, OutboxReportsPause
<1> QED BY <1>1, <1>2 DEF NoUpdateLost

\* While the service serves, every step keeps the books, and the router knows
\* what it takes.
LEMMA ServiceKeeps ==
  ASSUME FrontInv, Serving, [FrontNext]_frontVars
  PROVE  FrontInv'
<1>1. Books /\ lost = {}
  BY DEF FrontInv, NoUpdateLost
<1>2. frontend.program = "service" /\ frontend.stage = "serving"
  BY DEF Serving, Is
<1>3. ASSUME NEW d \in Downloads, LaunchDownload(d) PROVE FrontInv'
  BY <1>1, <1>3, LaunchKeeps DEF LaunchDownload, FrontInv, NoUpdateLost
<1>4. ASSUME NEW d \in Downloads, ReportProgress(d) PROVE FrontInv'
  BY <1>1, <1>4, ProgressKeeps DEF ReportProgress, FrontInv, NoUpdateLost
<1>5. ASSUME NEW d \in Downloads, RunEnds(d) PROVE FrontInv'
  BY <1>1, <1>5, RunEndsKeeps DEF RunEnds, FrontInv, NoUpdateLost
<1>6. ASSUME NEW d \in Downloads, RunHalts(d) PROVE FrontInv'
  BY <1>1, <1>6, RunHaltsKeeps DEF RunHalts, FrontInv, NoUpdateLost
<1>7. CASE TakeCommand
  BY <1>1, <1>7, TakeCommandKeeps DEF TakeCommand, FrontInv, NoUpdateLost
<1>8. CASE SendOutbox
  BY <1>1, <1>8, SendOutboxKeeps DEF SendOutbox, FrontInv, NoUpdateLost
<1>9. CASE Route
  <2>1. lost' = lost \cup ({Head(events).download} \ client.handles)
    BY <1>9 DEF Route
  <2> QED BY <1>1, <1>9, <2>1, RouteKeeps DEF FrontInv, NoUpdateLost
<1>10. ASSUME NEW d \in Downloads, AddHandle(d) PROVE FrontInv'
  BY <1>1, <1>10, AddDownloadKeeps DEF AddHandle, FrontInv, NoUpdateLost
<1>11. ASSUME NEW d \in Downloads, SendAdd(d) PROVE FrontInv'
  BY <1>1, <1>11, SendAddKeeps DEF SendAdd, FrontInv, NoUpdateLost
<1>12. ASSUME NEW d \in Downloads, Pause(d) PROVE FrontInv'
  BY <1>1, <1>12, HandleSends DEF Pause, FrontInv, NoUpdateLost
<1>18. ASSUME NEW d \in Downloads, Cancel(d) PROVE FrontInv'
  BY <1>1, <1>18, HandleSends DEF Cancel, FrontInv, NoUpdateLost
<1>13. ASSUME NEW d \in Downloads, Resume(d) PROVE FrontInv'
  BY <1>1, <1>13, ResumeKeeps DEF Resume, FrontInv, NoUpdateLost
<1>14. CASE ShutDown
  <2>1. frontend' = [frontend EXCEPT !.stage = "stopping"] /\ UNCHANGED lost
    BY <1>14 DEF ShutDown, Goes
  <2>2. ~Serving'
    BY <2>1 DEF Serving, Is
  <2> QED BY <1>1, <2>1, <2>2 DEF FrontInv, NoUpdateLost
<1>15. CASE UNCHANGED frontVars
  BY <1>1, <1>15 DEF frontVars, channels, FrontInv, NoUpdateLost, Books, FrontShapes,
     CommandsAreDue, UnsentIsNew, BusyIsKnown, EventsAreKnown, OutboxReportsPause, Serving, Is
<1>16. ~RouterLeaves /\ ~HeadlessAdd /\ ~HeadlessWatch
       /\ \A d \in Downloads : ~SendStop(d)
  BY <1>2 DEF RouterLeaves, HeadlessAdd, HeadlessWatch, SendStop, Is
<1>17. ~TuiStep
  BY <1>2 DEF TuiStep, AddTask, TuiOpens, MoveSelection, HaltSelected, HandleEngineEvent,
     Quit, Is
<1> QED BY <1>3, <1>4, <1>5, <1>6, <1>7, <1>8, <1>9, <1>10, <1>11, <1>12, <1>13, <1>14,
           <1>15, <1>16, <1>17, <1>18
        DEF FrontNext, EngineStep, ServiceStep, RouterStep

\* Nobody else comes to serve, and nobody else routes.
LEMMA OthersKeep ==
  ASSUME FrontInv, ~Serving, [FrontNext]_frontVars
  PROVE  FrontInv'
<1>1. lost = {}
  BY DEF FrontInv, NoUpdateLost
<1>2. CASE UNCHANGED frontend /\ UNCHANGED lost
  BY <1>1, <1>2 DEF FrontInv, NoUpdateLost, Serving, Is
<1>3. CASE EngineStep
  BY <1>2, <1>3 DEF EngineStep, TakeCommand, SendOutbox, LaunchDownload, ReportProgress,
     RunEnds, RunHalts
<1>4. CASE ServiceStep
  <2>1. CASE \E d \in Downloads : SendStop(d)
    BY <2>1, <1>2 DEF SendStop
  <2>2. CASE RouterLeaves
    <3>1. frontend' = [frontend EXCEPT !.stage = "gone"] /\ UNCHANGED lost
          /\ frontend = [program |-> "service", stage |-> "stopping"]
      BY <2>2 DEF RouterLeaves, Goes, Is
    <3>2. ~Serving'
      BY <3>1 DEF Serving, Is
    <3> QED BY <1>1, <3>1, <3>2 DEF FrontInv, NoUpdateLost
  <2>3. ~Route /\ ~ShutDown
        /\ \A d \in Downloads : ~AddHandle(d) /\ ~SendAdd(d) /\ ~Pause(d) /\ ~Cancel(d)
                              /\ ~Resume(d)
    BY DEF Route, ShutDown, AddHandle, SendAdd, Pause, Cancel, Resume, Serving
  <2> QED BY <1>4, <2>1, <2>2, <2>3 DEF ServiceStep, RouterStep
<1>5. CASE HeadlessAdd
  <2>1. CASE UNCHANGED frontend
    BY <1>2, <1>5, <2>1 DEF HeadlessAdd
  <2>2. CASE frontend' = [frontend EXCEPT !.stage = "watching"]
    <3>1. frontend = [program |-> "headless", stage |-> "adding"] /\ UNCHANGED lost
      BY <1>5 DEF HeadlessAdd, Is
    <3>2. ~Serving'
      BY <2>2, <3>1 DEF Serving, Is
    <3> QED BY <1>1, <3>1, <3>2 DEF FrontInv, NoUpdateLost
  <2> QED BY <1>5, <2>1, <2>2 DEF HeadlessAdd, Goes
<1>6. CASE HeadlessWatch
  <2>1. CASE UNCHANGED frontend
    BY <1>2, <1>6, <2>1 DEF HeadlessWatch
  <2>2. CASE frontend' = [frontend EXCEPT !.stage = "exited"]
    <3>1. frontend = [program |-> "headless", stage |-> "watching"] /\ UNCHANGED lost
      BY <1>6 DEF HeadlessWatch, Is
    <3>2. ~Serving'
      BY <2>2, <3>1 DEF Serving, Is
    <3> QED BY <1>1, <3>1, <3>2 DEF FrontInv, NoUpdateLost
  <2> QED BY <1>6, <2>1, <2>2 DEF HeadlessWatch, Goes
<1>7. CASE TuiStep
  <2>1. CASE TuiOpens
    <3>1. frontend' = [frontend EXCEPT !.stage = "open"] /\ UNCHANGED lost
          /\ frontend = [program |-> "tui", stage |-> "starting"]
      BY <2>1 DEF TuiOpens, Goes, Is
    <3>2. ~Serving'
      BY <3>1 DEF Serving, Is
    <3> QED BY <1>1, <3>1, <3>2 DEF FrontInv, NoUpdateLost
  <2>2. CASE Quit
    <3>1. frontend' = [frontend EXCEPT !.stage = "quit"] /\ UNCHANGED lost
          /\ frontend = [program |-> "tui", stage |-> "open"]
      BY <2>2 DEF Quit, Goes, Is
    <3>2. ~Serving'
      BY <3>1 DEF Serving, Is
    <3> QED BY <1>1, <3>1, <3>2 DEF FrontInv, NoUpdateLost
  <2>3. CASE (\E d \in Downloads : AddTask(d)) \/ MoveSelection \/ HaltSelected
             \/ HandleEngineEvent
    BY <1>2, <2>3 DEF AddTask, MoveSelection, HaltSelected, HandleEngineEvent
  <2> QED BY <1>7, <2>1, <2>2, <2>3 DEF TuiStep
<1>8. CASE UNCHANGED frontVars
  BY <1>2, <1>8 DEF frontVars
<1> QED BY <1>3, <1>4, <1>5, <1>6, <1>7, <1>8 DEF FrontNext

\* As long as the router listens it has a handle for every event it takes, for
\* any number of downloads and any capacities (TurService's event router).
THEOREM NoUpdateIsLost == FrontSpec => []NoUpdateLost
<1>1. FrontInit => FrontInv
  BY FrontStarts
<1>2. FrontInv /\ [FrontNext]_frontVars => FrontInv'
  BY ServiceKeeps, OthersKeep
<1>3. FrontInv => NoUpdateLost
  BY DEF FrontInv
<1> QED BY <1>1, <1>2, <1>3, PTL DEF FrontSpec
-----------------------------------------------------------------------------
(* Types, whatever program runs *)

\* A program at one of its stages.
AtAStage == \E p \in DOMAIN Stage : \E s \in Stage[p] : Is(p, s)

ChannelsFit ==
  /\ commands \in Seq(AnyCommand) /\ Len(commands) <= CommandCap
  /\ events \in Seq(AnyEvent) /\ Len(events) <= EventCap
  /\ outbox = <<>> \/ \E e \in AnyEvent : outbox = <<e>>

\* No download is listed twice, and only the terminal interface selects.
ListFits ==
  /\ client \in AnyClient
  /\ IsInjective(client.listed)
  /\ client.selected <= Len(client.listed)
  /\ frontend.program # "tui" => client.selected = 0

FrontTypes ==
  /\ AtAStage /\ ChannelsFit /\ ListFits
  /\ engine \in [Downloads -> Place] /\ lost \subseteq Downloads

\* A list in which nothing is twice is not longer than there are things.
LEMMA ListIsShort ==
  ASSUME NEW s \in Seq(Downloads), IsInjective(s)
  PROVE  Len(s) <= Cardinality(Downloads)
<1>1. Len(s) \in Nat /\ s \in [1..Len(s) -> Downloads]
  BY LenProperties
<1>2. IsFiniteSet(1..Len(s)) /\ Cardinality(1..Len(s)) = Len(s)
  BY <1>1, FS_Interval
<1>3. s \in Injection(1..Len(s), Downloads)
  BY <1>1, Zenon DEF Injection
<1> QED BY <1>2, <1>3, FS_Injection, FrontendsAssumption

\* The downloads can be listed.
LEMMA AllListed == SetToSeq(Downloads) \in Seq(Downloads) /\ IsInjective(SetToSeq(Downloads))
<1> DEFINE n == Cardinality(Downloads)
<1>1. PICK f : f \in Bijection(1..n, Downloads)
  <2>1. \E k \in Nat : ExistsBijection(1..k, Downloads)
    BY FS_NatBijection, FrontendsAssumption
  <2>2. ExistsBijection(1..n, Downloads)
    BY <2>1, FS_CountingElements, Zenon
  <2> QED BY <2>2 DEF ExistsBijection
<1>2. n \in Nat
  BY FS_CardinalityType, FrontendsAssumption
<1> HIDE DEF n
<1>3. f \in [1..n -> Downloads] /\ IsInjective(f)
  BY <1>1, Zenon DEF Bijection, Injection
<1>4. SetToSeq(Downloads) = CHOOSE g \in [1..n -> Downloads] : IsInjective(g)
  BY Zenon DEF SetToSeq, n
<1>5. SetToSeq(Downloads) \in [1..n -> Downloads] /\ IsInjective(SetToSeq(Downloads))
  BY <1>3, <1>4, Zenon
<1> QED BY <1>2, <1>5, SeqDef

\* One more message in a channel that has room.
LEMMA OneMore ==
  ASSUME NEW S, NEW s \in Seq(S), NEW e \in S, NEW cap \in Nat, Len(s) < cap
  PROVE  Append(s, e) \in Seq(S) /\ Len(Append(s, e)) <= cap
BY AppendProperties, LenProperties

\* What is left of a channel, and what was taken.
LEMMA OneLess ==
  ASSUME NEW S, NEW s \in Seq(S), s # <<>>, NEW cap \in Nat, Len(s) <= cap
  PROVE  Tail(s) \in Seq(S) /\ Len(Tail(s)) <= cap /\ Head(s) \in S
BY HeadTailProperties, LenProperties, EmptySeq

CommandKind == {"Add", "Resume", "RuntimeStopped", "Stop", "Cancel"}
EventKind == {"Progress", "Completed", "Error", "Paused"}

\* A command sent, or lost for want of room.
LEMMA CommandsFit ==
  ASSUME FrontTypes, NEW k \in CommandKind, NEW d \in Downloads, SendCommand(k, d) \/ TrySend(k, d)
  PROVE  commands' \in Seq(AnyCommand) /\ Len(commands') <= CommandCap
<1>1. CASE SendCommand(k, d)
  <2>1. commands' = Append(commands, Command(k, d)) /\ Len(commands) < CommandCap
    BY <1>1 DEF SendCommand, HasRoom
  <2>2. Command(k, d) \in AnyCommand
    BY DEF Command, AnyCommand, CommandKind
  <2>3. CommandCap \in Nat /\ commands \in Seq(AnyCommand)
    BY FrontendsAssumption DEF FrontTypes, ChannelsFit
  <2> QED BY <2>1, <2>2, <2>3, OneMore
<1>2. CASE UNCHANGED commands
  BY <1>2 DEF FrontTypes, ChannelsFit
<1> QED BY <1>1, <1>2 DEF TrySend

\* An event sent, or dropped because nobody receives it.
LEMMA EventsFit ==
  ASSUME FrontTypes, NEW k \in EventKind, NEW d \in Downloads, Emit(k, d)
  PROVE  events' \in Seq(AnyEvent) /\ Len(events') <= EventCap
<1>1. CASE Receiving
  <2>1. events' = Append(events, Event(k, d)) /\ Len(events) < EventCap
    BY <1>1 DEF Emit
  <2>2. Event(k, d) \in AnyEvent
    BY DEF Event, AnyEvent, EventKind
  <2>3. EventCap \in Nat /\ events \in Seq(AnyEvent)
    BY FrontendsAssumption DEF FrontTypes, ChannelsFit
  <2> QED BY <2>1, <2>2, <2>3, OneMore
<1>2. CASE ~Receiving
  BY <1>2 DEF Emit, FrontTypes, ChannelsFit
<1> QED BY <1>1, <1>2

\* The first event taken.
LEMMA EventTaken ==
  ASSUME FrontTypes, events # <<>>
  PROVE  /\ Tail(events) \in Seq(AnyEvent) /\ Len(Tail(events)) <= EventCap
         /\ Head(events) \in AnyEvent /\ Head(events).download \in Downloads
<1>1. EventCap \in Nat /\ events \in Seq(AnyEvent) /\ Len(events) <= EventCap
  BY FrontendsAssumption DEF FrontTypes, ChannelsFit
<1>2. /\ Tail(events) \in Seq(AnyEvent) /\ Len(Tail(events)) <= EventCap
      /\ Head(events) \in AnyEvent
  BY <1>1, OneLess
<1> QED BY <1>2 DEF AnyEvent

\* A channel that is emptied.
LEMMA Emptied == ASSUME NEW S PROVE <<>> \in Seq(S) /\ Len(<<>>) = 0
BY EmptySeq

\* What the engine does touches neither the program nor its list.
LEMMA EngineStepFits ==
  ASSUME FrontTypes, EngineStep
  PROVE  FrontTypes'
<1>1. UNCHANGED <<frontend, lost, client>>
  BY DEF EngineStep, TakeCommand, SendOutbox, LaunchDownload, ReportProgress, RunEnds, RunHalts
<1>2. ChannelsFit' /\ engine' \in [Downloads -> Place]
  <2>1. CASE TakeCommand
    <3> DEFINE c == Head(commands)  d == c.download
    <3>1. commands # <<>> /\ commands' = Tail(commands) /\ UNCHANGED events
      BY <2>1 DEF TakeCommand
    <3>2. /\ CommandCap \in Nat /\ commands \in Seq(AnyCommand)
          /\ Len(commands) <= CommandCap
      BY FrontendsAssumption DEF FrontTypes, ChannelsFit
    <3>3. commands' \in Seq(AnyCommand) /\ Len(commands') <= CommandCap /\ c \in AnyCommand
      BY <3>1, <3>2, OneLess
    <3>4. d \in Downloads /\ c.kind \in CommandKind
      BY <3>3 DEF AnyCommand, CommandKind
    <3> HIDE DEF c
    <3>5. \/ outbox' = outbox /\ \E p \in {"waiting", "halting"} : Placed(d, p)
          \/ UNCHANGED <<engine, outbox>>
          \/ outbox' = <<Event("Paused", d)>> /\ (Placed(d, "paused") \/ UNCHANGED engine)
      BY <2>1, <3>4 DEF TakeCommand, CommandKind, Halts, c
    <3>6. engine' \in [Downloads -> Place]
      BY <3>4, <3>5 DEF Placed, Place, FrontTypes
    <3>7. outbox' = <<>> \/ \E e \in AnyEvent : outbox' = <<e>>
      <4>1. Event("Paused", d) \in AnyEvent
        BY <3>4 DEF Event, AnyEvent
      <4> QED BY <4>1, <3>5 DEF FrontTypes, ChannelsFit
    <3> QED BY <3>1, <3>3, <3>6, <3>7 DEF FrontTypes, ChannelsFit
  <2>2. CASE SendOutbox
    <3>1. PICK e \in AnyEvent : outbox = <<e>>
      BY <2>2 DEF SendOutbox, FrontTypes, ChannelsFit
    <3>2. Head(outbox) = e /\ e.kind \in EventKind /\ e.download \in Downloads
      BY <3>1 DEF AnyEvent, EventKind
    <3>3. Emit(e.kind, e.download) /\ outbox' = <<>> /\ UNCHANGED <<commands, engine>>
      BY <2>2, <3>2 DEF SendOutbox
    <3>4. events' \in Seq(AnyEvent) /\ Len(events') <= EventCap
      BY <3>2, <3>3, EventsFit
    <3> QED BY <3>3, <3>4 DEF FrontTypes, ChannelsFit
  <2>3. ASSUME NEW d \in Downloads, LaunchDownload(d)
        PROVE  ChannelsFit' /\ engine' \in [Downloads -> Place]
    BY <2>3 DEF LaunchDownload, channels, Placed, Place, FrontTypes, ChannelsFit
  <2>4. ASSUME NEW d \in Downloads, ReportProgress(d)
        PROVE  ChannelsFit' /\ engine' \in [Downloads -> Place]
    <3>1. events' \in Seq(AnyEvent) /\ Len(events') <= EventCap
      BY <2>4, EventsFit DEF ReportProgress, EventKind
    <3> QED BY <2>4, <3>1 DEF ReportProgress, FrontTypes, ChannelsFit
  <2>5. ASSUME NEW d \in Downloads, RunEnds(d)
        PROVE  ChannelsFit' /\ engine' \in [Downloads -> Place]
    <3>1. PICK k \in {"Completed", "Error"} : Emit(k, d)
      BY <2>5 DEF RunEnds
    <3>2. events' \in Seq(AnyEvent) /\ Len(events') <= EventCap
      BY <3>1, EventsFit DEF EventKind
    <3> QED BY <2>5, <3>2 DEF RunEnds, Placed, Place, FrontTypes, ChannelsFit
  <2>6. ASSUME NEW d \in Downloads, RunHalts(d)
        PROVE  ChannelsFit' /\ engine' \in [Downloads -> Place]
    <3>1. commands' \in Seq(AnyCommand) /\ Len(commands') <= CommandCap
      BY <2>6, CommandsFit DEF RunHalts, CommandKind
    <3> QED BY <2>6, <3>1 DEF RunHalts, Placed, Place, FrontTypes, ChannelsFit
  <2> QED BY <2>1, <2>2, <2>3, <2>4, <2>5, <2>6 DEF EngineStep
<1> QED BY <1>1, <1>2 DEF FrontTypes, AtAStage, Is, ListFits

\* A program that moves on to a stage of its own.
LEMMA MovesOn ==
  ASSUME NEW p \in DOMAIN Stage, NEW s \in Stage[p], NEW t \in Stage[p], Is(p, s), Goes(t)
  PROVE  AtAStage' /\ UNCHANGED frontend.program
<1>1. frontend' = [program |-> p, stage |-> t]
  BY DEF Is, Goes
<1> QED BY <1>1 DEF AtAStage, Is

\* The service selects nothing and lists nothing.
LEMMA ServiceStepFits ==
  ASSUME FrontTypes, ServiceStep
  PROVE  FrontTypes'
<1>1. "service" \in DOMAIN Stage /\ {"serving", "stopping", "gone"} \subseteq Stage["service"]
  BY DEF Stage
<1>2. AtAStage' /\ UNCHANGED frontend.program
  <2>1. CASE UNCHANGED frontend
    BY <2>1 DEF FrontTypes, AtAStage, Is
  <2>2. CASE ShutDown
    BY <1>1, <2>2, MovesOn DEF ShutDown
  <2>3. CASE RouterLeaves
    BY <1>1, <2>3, MovesOn DEF RouterLeaves
  <2> QED BY <2>1, <2>2, <2>3
      DEF ServiceStep, RouterStep, AddHandle, SendAdd, Pause, Cancel, Resume, Route, SendStop
<1>3. client \in AnyClient
  BY DEF FrontTypes, ListFits
<1>4. UNCHANGED <<engine, outbox>> /\ lost' \subseteq Downloads
  <2>1. CASE Route
    <3>1. lost' = lost \cup ({Head(events).download} \ client.handles) /\ events # <<>>
      BY <2>1 DEF Route
    <3> QED BY <2>1, <3>1, EventTaken DEF Route, FrontTypes
  <2> QED BY <2>1 DEF FrontTypes, ServiceStep, RouterStep, AddHandle, SendAdd, Pause, Cancel, Resume,
                      SendStop, ShutDown, RouterLeaves
<1>5. ChannelsFit'
  <2>1. commands' \in Seq(AnyCommand) /\ Len(commands') <= CommandCap
    <3>1. CASE UNCHANGED commands
      BY <3>1 DEF FrontTypes, ChannelsFit
    <3>2. CASE \E d \in Downloads : \E k \in CommandKind : SendCommand(k, d)
      BY <3>2, CommandsFit
    <3> QED BY <3>1, <3>2 DEF ServiceStep, RouterStep, AddHandle, SendAdd, Pause, Cancel, Resume,
                    Route, SendStop, ShutDown, RouterLeaves, channels, CommandKind
  <2>2. events' \in Seq(AnyEvent) /\ Len(events') <= EventCap
    <3>1. CASE UNCHANGED events
      BY <3>1 DEF FrontTypes, ChannelsFit
    <3>2. CASE events # <<>> /\ events' = Tail(events)
      BY <3>2, EventTaken
    <3>3. CASE events' = <<>>
      BY <3>3, Emptied, FrontendsAssumption
    <3> QED BY <3>1, <3>2, <3>3 DEF ServiceStep, RouterStep, AddHandle, SendAdd, Pause,
                    Cancel, Resume, Route, SendStop, ShutDown, RouterLeaves, channels
  <2> QED BY <1>4, <2>1, <2>2 DEF FrontTypes, ChannelsFit
<1>6. client' \in AnyClient /\ client'.listed = client.listed /\ client'.selected = client.selected
  <2>1. CASE UNCHANGED client
    BY <1>3, <2>1
  <2>2. ASSUME NEW d \in Downloads, AddHandle(d)
        PROVE  client' \in AnyClient /\ client'.listed = client.listed
               /\ client'.selected = client.selected
    BY <1>3, <2>2 DEF AddHandle, AnyClient
  <2>3. ASSUME NEW d \in Downloads, SendAdd(d)
        PROVE  client' \in AnyClient /\ client'.listed = client.listed
               /\ client'.selected = client.selected
    BY <1>3, <2>3 DEF SendAdd, AnyClient
  <2>4. CASE Route
    <3>1. \E H \in SUBSET client.handles : client' = [client EXCEPT !.handles = H]
      <4>1. CASE Head(events).kind \in Terminal
        BY <2>4, <4>1 DEF Route
      <4>2. CASE Head(events).kind \notin Terminal
        BY <2>4, <4>2 DEF Route
      <4> QED BY <4>1, <4>2
    <3> QED BY <1>3, <3>1 DEF AnyClient
  <2>5. CASE ShutDown
    BY <1>3, <2>5 DEF ShutDown, AnyClient
  <2>6. ASSUME NEW d \in Downloads, SendStop(d)
        PROVE  client' \in AnyClient /\ client'.listed = client.listed
               /\ client'.selected = client.selected
    BY <1>3, <2>6 DEF SendStop, AnyClient
  <2> QED BY <2>1, <2>2, <2>3, <2>4, <2>5, <2>6
          DEF ServiceStep, RouterStep, Pause, Cancel, Resume, RouterLeaves
<1> QED BY <1>2, <1>4, <1>5, <1>6 DEF FrontTypes, ListFits

\* The command line shortens its list.
LEMMA HeadlessFits ==
  ASSUME FrontTypes, HeadlessAdd \/ HeadlessWatch
  PROVE  FrontTypes'
<1>1. "headless" \in DOMAIN Stage /\ {"adding", "watching", "exited"} \subseteq Stage["headless"]
  BY DEF Stage
<1>2. UNCHANGED <<engine, outbox, lost>>
  BY DEF HeadlessAdd, HeadlessWatch
<1>3. frontend.program = "headless" /\ client \in AnyClient /\ client.selected = 0
  BY DEF HeadlessAdd, HeadlessWatch, Is, FrontTypes, ListFits
<1>4. AtAStage' /\ UNCHANGED frontend.program
  <2>1. CASE UNCHANGED frontend
    BY <2>1 DEF FrontTypes, AtAStage, Is
  <2>2. CASE HeadlessAdd /\ Goes("watching")
    BY <1>1, <2>2, MovesOn DEF HeadlessAdd
  <2>3. CASE HeadlessWatch /\ Goes("exited")
    BY <1>1, <2>3, MovesOn DEF HeadlessWatch
  <2> QED BY <2>1, <2>2, <2>3 DEF HeadlessAdd, HeadlessWatch
<1>5. CASE HeadlessAdd
  <2>1. CASE client.listed = <<>>
    BY <1>2, <1>4, <1>5, <2>1 DEF HeadlessAdd, FrontTypes, ChannelsFit, ListFits
  <2>2. CASE client.listed # <<>>
    <3> DEFINE s == client.listed
    <3>1. s \in Seq(Downloads) /\ s # <<>> /\ IsInjective(s)
      BY <2>2 DEF FrontTypes, ListFits, AnyClient
    <3>2. /\ Head(s) \in Downloads /\ Tail(s) \in Seq(Downloads) /\ DOMAIN s = 1..Len(s)
          /\ DOMAIN Tail(s) = 1..(Len(s) - 1) /\ Len(s) \in Nat \ {0}
          /\ \A i \in DOMAIN Tail(s) : Tail(s)[i] = s[i + 1]
      BY <3>1, Dropped
    <3>3. Len(Tail(s)) \in Nat
      BY <3>2, LenProperties
    <3>4. IsInjective(Tail(s))
      <4> SUFFICES ASSUME NEW i \in DOMAIN Tail(s), NEW j \in DOMAIN Tail(s),
                          Tail(s)[i] = Tail(s)[j]
                   PROVE  i = j
        BY DEF IsInjective
      <4>1. i + 1 \in DOMAIN s /\ j + 1 \in DOMAIN s /\ s[i + 1] = s[j + 1]
        BY <3>2
      <4>2. i + 1 = j + 1
        BY <3>1, <4>1 DEF IsInjective
      <4> QED BY <3>2, <4>2
    <3> HIDE DEF s
    <3>5. client' = [client EXCEPT !.listed = Tail(s)] /\ SendCommand("Add", Head(s)) /\ UNCHANGED events
      BY <1>5, <2>2 DEF HeadlessAdd, s
    <3>6. commands' \in Seq(AnyCommand) /\ Len(commands') <= CommandCap
      BY <3>2, <3>5, CommandsFit DEF CommandKind
    <3>7. /\ client' \in AnyClient /\ client'.listed = Tail(s) /\ client'.selected = 0
      BY <1>3, <3>2, <3>5 DEF AnyClient
    <3> QED BY <1>2, <1>4, <3>3, <3>4, <3>5, <3>6, <3>7 DEF FrontTypes, ChannelsFit, ListFits
  <2> QED BY <2>1, <2>2
<1>6. CASE HeadlessWatch
  <2>1. events # <<>> /\ UNCHANGED commands
    BY <1>6 DEF HeadlessWatch
  <2>2. \E done \in SUBSET Downloads : client' = [client EXCEPT !.finished = done]
    <3>1. Head(events).download \in Downloads /\ client.finished \subseteq Downloads
      BY <1>3, <2>1, EventTaken DEF AnyClient
    <3> DEFINE done == IF Head(events).kind \in EndsWatch
                       THEN client.finished \cup {Head(events).download}
                       ELSE client.finished
    <3>2. client' = [client EXCEPT !.finished = done] /\ done \in SUBSET Downloads
      BY <1>6, <3>1 DEF HeadlessWatch
    <3> QED BY <3>2
  <2>3. /\ client' \in AnyClient /\ client'.listed = client.listed
        /\ client'.selected = client.selected
    BY <1>3, <2>2 DEF AnyClient
  <2>4. events' = <<>> \/ events' = Tail(events)
    BY <1>6 DEF HeadlessWatch
  <2>5. events' \in Seq(AnyEvent) /\ Len(events') <= EventCap
    <3>1. CASE events' = <<>>
      BY <3>1, Emptied, FrontendsAssumption
    <3> QED BY <2>1, <2>4, <3>1, EventTaken
  <2> QED BY <1>2, <1>4, <2>1, <2>3, <2>5 DEF FrontTypes, ChannelsFit, ListFits
<1> QED BY <1>5, <1>6

\* The terminal interface lists a download once, and selects what it lists.
LEMMA TuiStepFits ==
  ASSUME FrontTypes, TuiStep
  PROVE  FrontTypes'
<1>1. "tui" \in DOMAIN Stage /\ {"starting", "open", "quit"} \subseteq Stage["tui"]
  BY DEF Stage
<1>2. UNCHANGED <<engine, outbox, lost>>
  BY DEF TuiStep, AddTask, TuiOpens, MoveSelection, HaltSelected, HandleEngineEvent, Quit
<1>3. /\ frontend.program = "tui" /\ client \in AnyClient /\ client.listed \in Seq(Downloads)
      /\ client.selected \in Nat
  <2>1. frontend.program = "tui"
    <3>1. CASE \E d \in Downloads : AddTask(d)
      BY <3>1 DEF AddTask
    <3>2. CASE Is("tui", "starting") \/ Is("tui", "open")
      BY <3>2 DEF Is
    <3> QED BY <3>1, <3>2, Zenon
        DEF TuiStep, TuiOpens, MoveSelection, HaltSelected, HandleEngineEvent, Quit
  <2> QED BY <2>1 DEF FrontTypes, ListFits, AnyClient
<1>4. AtAStage' /\ UNCHANGED frontend.program
  <2>1. CASE UNCHANGED frontend
    BY <2>1 DEF FrontTypes, AtAStage, Is
  <2>2. CASE TuiOpens
    BY <1>1, <2>2, MovesOn DEF TuiOpens
  <2>3. CASE Quit
    BY <1>1, <2>3, MovesOn DEF Quit
  <2> QED BY <2>1, <2>2, <2>3
      DEF TuiStep, AddTask, MoveSelection, HaltSelected, HandleEngineEvent
<1>5. Len(client.listed) \in Nat /\ DOMAIN client.listed = 1..Len(client.listed)
  BY <1>3, LenProperties
<1>6. ASSUME NEW d \in Downloads, AddTask(d) PROVE FrontTypes'
  <2> DEFINE s == client.listed
             i == IF Len(s) = 0 THEN 1 ELSE client.selected
  <2>1. client' = [[client EXCEPT !.listed = Append(s, d)] EXCEPT !.selected = i]
    BY <1>6 DEF AddTask
  <2>2. TrySend("Add", d) /\ UNCHANGED events /\ d \notin Range(s)
    BY <1>6 DEF AddTask
  <2>3. commands' \in Seq(AnyCommand) /\ Len(commands') <= CommandCap
    BY <2>2, CommandsFit DEF CommandKind
  <2>4. /\ Append(s, d) \in Seq(Downloads) /\ DOMAIN Append(s, d) = 1..(Len(s) + 1)
        /\ \A j \in DOMAIN s : Append(s, d)[j] = s[j]
        /\ Append(s, d)[Len(s) + 1] = d /\ Len(Append(s, d)) = Len(s) + 1
    BY <1>3, Appended, AppendProperties
  <2>5. IsInjective(s) /\ \A j \in DOMAIN s : s[j] # d
    BY <2>2 DEF FrontTypes, ListFits, Range
  <2>6. IsInjective(Append(s, d))
    <3> SUFFICES ASSUME NEW j \in 1..(Len(s) + 1), NEW k \in 1..(Len(s) + 1),
                        Append(s, d)[j] = Append(s, d)[k]
                 PROVE  j = k
      BY <2>4 DEF IsInjective
    <3>1. CASE j \in DOMAIN s /\ k \in DOMAIN s
      BY <3>1, <2>4, <2>5 DEF IsInjective
    <3>2. CASE j = Len(s) + 1 \/ k = Len(s) + 1
      <4>1. Append(s, d)[j] = d /\ Append(s, d)[k] = d
        BY <3>2, <2>4
      <4>2. j \notin DOMAIN s /\ k \notin DOMAIN s
        BY <4>1, <2>4, <2>5
      <4> QED BY <4>2, <1>5
    <3> QED BY <3>1, <3>2, <1>5
  <2>7. i \in Nat /\ i <= Len(s) + 1
    BY <1>3, <1>5 DEF FrontTypes, ListFits
  <2> HIDE DEF s, i
  <2>8. client' \in AnyClient /\ client'.listed = Append(s, d) /\ client'.selected = i
    BY <1>3, <2>1, <2>4, <2>7 DEF AnyClient
  <2> QED BY <1>2, <1>3, <1>4, <2>2, <2>3, <2>4, <2>6, <2>7, <2>8
          DEF FrontTypes, ChannelsFit, ListFits
<1>7. CASE MoveSelection
  <2> DEFINE n == Len(client.listed)
  <2>1. n # 0
    BY <1>3, <1>7, EmptySeq DEF MoveSelection
  <2>2. PICK i \in {IF client.selected >= n THEN 1 ELSE client.selected + 1,
                    IF client.selected <= 1 THEN n ELSE client.selected - 1} :
          client' = [client EXCEPT !.selected = i]
    BY <1>7 DEF MoveSelection
  <2>3. i \in Nat /\ i <= n
    BY <1>3, <1>5, <2>1, <2>2 DEF FrontTypes, ListFits
  <2>4. client' \in AnyClient /\ client'.listed = client.listed /\ client'.selected = i
    BY <1>3, <2>2, <2>3 DEF AnyClient
  <2>5. UNCHANGED <<commands, events>>
    BY <1>7 DEF MoveSelection, channels
  <2> QED BY <1>2, <1>3, <1>4, <2>3, <2>4, <2>5 DEF FrontTypes, ChannelsFit, ListFits
<1>8. CASE HaltSelected
  <2>1. /\ client.selected \in 1..Len(client.listed) /\ UNCHANGED <<events, client>>
        /\ \E k \in Halts : TrySend(k, client.listed[client.selected])
    BY <1>3, <1>5, <1>8 DEF HaltSelected, FrontTypes, ListFits
  <2>2. client.listed[client.selected] \in Downloads
    BY <1>3, <2>1, ElementOfSeq
  <2>3. commands' \in Seq(AnyCommand) /\ Len(commands') <= CommandCap
    BY <2>1, <2>2, CommandsFit DEF CommandKind, Halts
  <2> QED BY <1>2, <1>4, <2>1, <2>3 DEF FrontTypes, ChannelsFit, ListFits
<1>9. CASE TuiOpens \/ HandleEngineEvent \/ Quit
  <2>1. UNCHANGED <<commands, client>>
    BY <1>9 DEF TuiOpens, HandleEngineEvent, Quit, channels
  <2>2. events' \in Seq(AnyEvent) /\ Len(events') <= EventCap
    <3>1. CASE UNCHANGED events
      BY <3>1 DEF FrontTypes, ChannelsFit
    <3>2. CASE events # <<>> /\ events' = Tail(events)
      BY <3>2, EventTaken
    <3>3. CASE events' = <<>>
      BY <3>3, Emptied, FrontendsAssumption
    <3> QED BY <3>1, <3>2, <3>3, <1>9 DEF TuiOpens, HandleEngineEvent, Quit, channels
  <2> QED BY <1>2, <1>4, <2>1, <2>2 DEF FrontTypes, ChannelsFit, ListFits
<1> QED BY <1>6, <1>7, <1>8, <1>9 DEF TuiStep

\* Every program starts with room in its channels.
LEMMA FrontTypesStart == FrontInit => FrontTypes
<1> SUFFICES ASSUME FrontInit PROVE FrontTypes
  OBVIOUS
<1>1. PICK p \in DOMAIN Stage :
        frontend = [program |-> p,
                    stage |-> CASE p = "service" -> "serving"
                                [] p = "headless" -> "adding" [] OTHER -> "starting"]
  BY DEF FrontInit
<1>2. AtAStage
  BY <1>1 DEF AtAStage, Is, Stage
<1>3. /\ commands = <<>> /\ events = <<>> /\ outbox = <<>> /\ lost = {}
      /\ engine = [d \in Downloads |-> "unknown"]
  BY DEF FrontInit
<1>4. ChannelsFit
  BY <1>3, Emptied, FrontendsAssumption DEF ChannelsFit
<1> DEFINE list == IF frontend.program = "headless" THEN SetToSeq(Downloads) ELSE <<>>
<1>5. list \in Seq(Downloads) /\ IsInjective(list)
  BY AllListed, Emptied DEF IsInjective
<1>6. client = [handles |-> {}, unsent |-> {}, selected |-> 0, finished |-> {}, listed |-> list]
  BY DEF FrontInit
<1> HIDE DEF list
<1>7. client \in AnyClient /\ client.listed = list /\ client.selected = 0
  BY <1>5, <1>6 DEF AnyClient
<1>8. Len(list) \in Nat
  BY <1>5, LenProperties
<1>9. ListFits
  BY <1>5, <1>7, <1>8 DEF ListFits
<1> QED BY <1>2, <1>3, <1>4, <1>9 DEF FrontTypes, Place

\* Every step of every program keeps the types.
LEMMA FrontTypesStep == FrontTypes /\ [FrontNext]_frontVars => FrontTypes'
<1> SUFFICES ASSUME FrontTypes, [FrontNext]_frontVars PROVE FrontTypes'
  OBVIOUS
<1>1. CASE UNCHANGED frontVars
  BY <1>1 DEF frontVars, channels, FrontTypes, AtAStage, Is, ChannelsFit, ListFits
<1> QED BY <1>1, EngineStepFits, ServiceStepFits, HeadlessFits, TuiStepFits DEF FrontNext

\* Of any of the three programs, with any downloads and capacities: neither
\* channel holds more than its capacity, no download is listed twice, and the
\* keys of the terminal interface act on a task that is listed, if on any.
THEOREM FrontTypesAreCorrect == FrontSpec => []FrontTypeOK
<1>1. FrontTypes => FrontTypeOK
  <2> SUFFICES ASSUME FrontTypes PROVE FrontTypeOK
    OBVIOUS
  <2>1. frontend.program \in DOMAIN Stage /\ frontend.stage \in Stage[frontend.program]
    BY DEF FrontTypes, AtAStage, Is
  <2>2. Len(outbox) <= 1
    <3>1. CASE outbox = <<>>
      BY <3>1
    <3>2. ASSUME NEW e \in AnyEvent, outbox = <<e>> PROVE Len(outbox) <= 1
      BY <3>2
    <3> QED BY <3>1, <3>2 DEF FrontTypes, ChannelsFit
  <2>3. client \in AnyClient /\ IsInjective(client.listed) /\ client.selected <= Len(client.listed)
    BY DEF FrontTypes, ListFits
  <2>4. /\ DOMAIN client = ClientField
        /\ client.handles \cup client.unsent \cup client.finished \subseteq Downloads
        /\ client.listed \in Seq(Downloads) /\ client.selected \in Nat
    BY <2>3 DEF AnyClient, ClientField
  <2>5. Len(client.listed) <= Cardinality(Downloads) /\ Len(client.listed) \in Nat
    BY <2>3, <2>4, ListIsShort, LenProperties
  <2>6. client.selected \in 0..Len(client.listed)
    BY <2>3, <2>4, <2>5
  <2> QED BY <2>1, <2>2, <2>4, <2>5, <2>6 DEF FrontTypes, ChannelsFit, FrontTypeOK
<1> QED BY <1>1, FrontTypesStart, FrontTypesStep, PTL DEF FrontSpec

\* The two parts that are checked together, the budget and the programs, keep
\* their types under the specification of both: what is proved of each holds, as
\* neither takes a step of the other's.
THEOREM PartTypesAreCorrect == PartsSpec => []PartsTypeOK
<1>1. PartsInit => BudgetInit /\ FrontInit
  BY DEF PartsInit
<1>2. [PartsNext]_partVars => [BudgetNext]_budgetVars /\ [FrontNext]_frontVars
  BY DEF PartsNext, partVars
<1>3. PartsSpec => BudgetSpec /\ FrontSpec
  BY <1>1, <1>2, PTL DEF PartsSpec, BudgetSpec, FrontSpec
<1>4. BudgetTypeOK /\ FrontTypeOK => PartsTypeOK
  BY DEF PartsTypeOK
<1> QED BY <1>3, <1>4, BudgetTypesAreCorrect, FrontTypesAreCorrect, PTL
=============================================================================
