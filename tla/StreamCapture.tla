--------------------------- MODULE StreamCapture ---------------------------
(***************************************************************************)
(* spectur, the companion program: a list of pages (tabs) with the media   *)
(* streams a browser reports of them (ws.rs, types.rs), a probe of every   *)
(* stream (analyzer.rs), a user who moves through the list and starts      *)
(* downloads (ui.rs, main.rs), and the tools that download (spawner.rs).   *)
(* The state sits behind one lock; between two locks every task sees what  *)
(* the others have made of it.  What a probe finds out about a stream,     *)
(* apart from its format, and what a tool is told are not modelled.        *)
(***************************************************************************)
EXTENDS Integers, Sequences, FiniteSets, SequencesExt

CONSTANTS
  Captures,    \* what the browser may report, see Capture
  Group,       \* path_dedup: a URL's host and directory
  SegmentUrls, \* URLs that look like a segment's
  Found,       \* formats a probe may find, see FoundFormat
  MaxStreams,  \* bound: streams ever listed
  MaxProbes,   \* bound: probes of a stream in flight
  MaxTasks     \* bound: downloads ever started

Format == {"Hls", "Dash", "Mp4", "Ts", "Youtube", "Unknown"}

FoundFormat == {"Hls", "Dash", "Mp4"}

\* Youtube never comes from detect_format; it marks a report of formats.
Page == {c.page : c \in Captures}
Url == {c.url : c \in Captures}
Capture == [page : Page, url : Url, format : Format, manifest : BOOLEAN]

ASSUME CaptureAssumption ==
  /\ IsFiniteSet(Captures) /\ Captures \subseteq Capture
  /\ Url \subseteq DOMAIN Group /\ Found \subseteq FoundFormat
  /\ MaxStreams \in Nat \ {0} /\ {MaxProbes, MaxTasks} \subseteq Nat

VARIABLES
  tabs,           \* the pages in the order of their first report
  selected,       \* the tab and the place among its visible streams
  next_stream_id,
  probes,         \* how many tasks of analyze_manifest each stream id has
  panics,         \* ids a probe of which has panicked
  starting,       \* downloads that have no task yet
  tasks           \* AppState.downloads

captureVars == <<tabs, selected, next_stream_id, probes, panics, starting, tasks>>

ProbeState == {"Probing", "Done", "Failed"}
StreamId == 1..MaxStreams
Stream == [stream_id : StreamId, url : Url, format : Format, manifest : BOOLEAN,
           probe_state : ProbeState]

\* A download first looks its stream up, then adds its task.
Starting == [url : Url, format : Format \cup {"unread"}]

\* The tool is chosen by the format.
Task == [format : Format, status : {"Running", "Finished", "Failed"}]

StreamsOf(tab) == Range(tab.streams)
AllStreams == UNION {StreamsOf(tabs[t]) : t \in DOMAIN tabs}

IsNoise(s) == s.format = "Ts" \/ s.url \in SegmentUrls

\* The places of the streams that are shown.
Visible(tab) == {i \in DOMAIN tab.streams : tab.show_noise \/ ~IsNoise(tab.streams[i])}

\* selected_stream: the place counts the streams shown.
SelectedStream ==
  IF tabs = <<>> THEN {}
  ELSE LET tab == tabs[selected.tab]
           shown == Visible(tab)
           upTo(i) == {j \in shown : j <= i}
       IN {tab.streams[i] : i \in {i \in shown : Cardinality(upTo(i)) = selected.stream}}

Probe(id) == probes[id] < MaxProbes /\ probes' = [probes EXCEPT ![id] = @ + 1]
-----------------------------------------------------------------------------
(* Reports of the browser *)

TabOf(page) == {t \in DOMAIN tabs : tabs[t].page = page}

NewTab(page, streams) == [page |-> page, show_noise |-> FALSE, streams |-> streams]

NewStream(c, state) ==
  [stream_id |-> next_stream_id, url |-> c.url, format |-> c.format,
   manifest |-> c.manifest, probe_state |-> state]

\* The same URL, or the same kind of stream from the same directory, is the
\* stream known already, the first of them.
Same(s, c) ==
  s.url = c.url \/ (c.format # "Mp4" /\ s.format = c.format /\ Group[s.url] = Group[c.url])

Known(t, c) == {i \in DOMAIN tabs[t].streams :
                  /\ Same(tabs[t].streams[i], c)
                  /\ \A j \in 1..(i - 1) : ~Same(tabs[t].streams[j], c)}

\* A definition named Bad... is a mistake on purpose: put in the place of the
\* one below it, it shows that a property notices.

\* A stream known already is never probed again, though its state says so.
BadProbedAgain(id) == UNCHANGED probes

ProbedAgain(id) == Probe(id)

\* The manifest came along this time: worth another probe, unless one is done.
Update(t, i, c) ==
  LET s == tabs[t].streams[i]
      again == c.manifest /\ s.probe_state # "Done"
  IN /\ tabs' = [tabs EXCEPT ![t].streams[i] =
           [s EXCEPT !.url = c.url,
                     !.manifest = @ \/ again,
                     !.probe_state = IF again THEN "Probing" ELSE @]]
     /\ IF again THEN ProbedAgain(s.stream_id) ELSE UNCHANGED probes
     /\ UNCHANGED next_stream_id

Insert(c, state) ==
  /\ next_stream_id \in StreamId
  /\ tabs' = IF TabOf(c.page) = {} THEN Append(tabs, NewTab(c.page, <<NewStream(c, state)>>))
             ELSE [t \in DOMAIN tabs |->
                     IF t \in TabOf(c.page)
                     THEN [tabs[t] EXCEPT !.streams = Append(@, NewStream(c, state))]
                     ELSE tabs[t]]
  /\ next_stream_id' = next_stream_id + 1

\* add_stream, and the task that probes, under one lock.
AddStream(c) ==
  /\ c.format # "Youtube"
  /\ \/ \E t \in TabOf(c.page) : \E i \in Known(t, c) : Update(t, i, c)
     \/ /\ \A t \in TabOf(c.page) : Known(t, c) = {}
        /\ Insert(c, "Probing")
        /\ Probe(next_stream_id)
  /\ UNCHANGED <<selected, panics, starting, tasks>>

\* A list of formats makes one stream of the page, which needs no probe.
AddFormats(c) ==
  /\ c.format = "Youtube"
  /\ \A t \in TabOf(c.page) : \A s \in StreamsOf(tabs[t]) : s.format # "Youtube"
  /\ Insert(c, "Done")
  /\ UNCHANGED <<selected, probes, panics, starting, tasks>>
-----------------------------------------------------------------------------
(* Probes *)

\* The verdict goes to the first stream with the id.
Judged(id, state, format) ==
  [t \in DOMAIN tabs |->
     [tabs[t] EXCEPT !.streams =
        [i \in DOMAIN @ |-> IF @[i].stream_id = id
                            THEN [@[i] EXCEPT !.probe_state = state, !.format = format]
                            ELSE @[i]]]]

FormatOf(id) == (CHOOSE s \in AllStreams : s.stream_id = id).format

\* analyze_manifest returns after 15 s at the latest: the browser's copy of the
\* manifest, or what the URL answers after at most ten redirects, parses, or not.
EndProbe(id) ==
  /\ probes[id] > 0
  /\ probes' = [probes EXCEPT ![id] = @ - 1]
  /\ \/ \E f \in Found : tabs' = Judged(id, "Done", f)
     \/ tabs' = Judged(id, "Failed", FormatOf(id))
  /\ UNCHANGED <<selected, next_stream_id, panics, starting, tasks>>

\* The browser's copy of the manifest is cut at a place found in another text:
\* in its upper-case form, which need not be as long.  Where that is no place of
\* the copy the task panics, and the stream's state stays what it is.
PanicProbe(id) ==
  /\ probes[id] > 0
  /\ \E s \in AllStreams : s.stream_id = id /\ s.manifest
  /\ probes' = [probes EXCEPT ![id] = @ - 1]
  /\ panics' = panics \cup {id}
  /\ UNCHANGED <<tabs, selected, next_stream_id, starting, tasks>>
-----------------------------------------------------------------------------
(* The user *)

Around(n, at, step) == ((at - 1 + step) % n) + 1

MoveTab ==
  /\ tabs # <<>>
  /\ \E step \in {1, -1} :
       selected' = [tab |-> Around(Len(tabs), selected.tab, step), stream |-> 1]
  /\ UNCHANGED <<tabs, next_stream_id, probes, panics, starting, tasks>>

\* next_stream goes round; prev_stream, from a place that is no longer shown,
\* goes one back, shown or not.
MoveStream ==
  /\ tabs # <<>>
  /\ LET n == Cardinality(Visible(tabs[selected.tab])) IN
       \/ n > 1 /\ selected' = [selected EXCEPT !.stream = Around(n, @, 1)]
       \/ n > 0 /\ selected' = [selected EXCEPT !.stream = IF @ = 1 THEN n ELSE @ - 1]
  /\ UNCHANGED <<tabs, next_stream_id, probes, panics, starting, tasks>>

ToggleNoise ==
  /\ tabs # <<>>
  /\ tabs' = [tabs EXCEPT ![selected.tab].show_noise = ~@]
  /\ selected' = [selected EXCEPT !.stream = 1]
  /\ UNCHANGED <<next_stream_id, probes, panics, starting, tasks>>

Asked(url) == [url |-> url, format |-> "unread"]

\* Enter on a stream that is probed starts a download; on another it starts one
\* more probe, and the stream's state stays what it is.
Enter ==
  /\ \E s \in SelectedStream :
       IF s.probe_state = "Done"
       THEN /\ Len(starting) + Len(tasks) < MaxTasks
            /\ starting' = Append(starting, Asked(s.url))
            /\ UNCHANGED probes
       ELSE Probe(s.stream_id) /\ UNCHANGED starting
  /\ UNCHANGED <<tabs, selected, next_stream_id, panics, tasks>>

\* With its list of formats in focus the page itself is downloaded, whatever
\* stream is selected.
EnterOnFormats ==
  /\ tabs # <<>> /\ Len(starting) + Len(tasks) < MaxTasks
  /\ \E s \in StreamsOf(tabs[selected.tab]) :
       s.format = "Youtube" /\ starting' = Append(starting, Asked(s.url))
  /\ UNCHANGED <<tabs, selected, next_stream_id, probes, panics, tasks>>
-----------------------------------------------------------------------------
(* Downloads *)

\* The format a stream of that URL has now, if there still is one.
FormatNow(url) ==
  LET there(t) == {i \in DOMAIN tabs[t].streams : tabs[t].streams[i].url = url}
      having == {t \in DOMAIN tabs : there(t) # {}}
      first == Min(having)
  IN IF having = {} THEN "Unknown" ELSE tabs[first].streams[Min(there(first))].format

\* spawn_download finds the stream by its URL and lets go of the lock.
LookUp(i) ==
  /\ starting[i].format = "unread"
  /\ starting' = [starting EXCEPT ![i] =
                    [url |-> starting[i].url, format |-> FormatNow(starting[i].url)]]
  /\ UNCHANGED <<tabs, selected, next_stream_id, probes, panics, tasks>>

\* Under a second lock it adds its task, and runs the tool.
BeginTask(i) ==
  /\ starting[i].format # "unread"
  /\ starting' = RemoveAt(starting, i)
  /\ tasks' = Append(tasks, [format |-> starting[i].format, status |-> "Running"])
  /\ UNCHANGED <<tabs, selected, next_stream_id, probes, panics>>

EndTask(i) ==
  /\ tasks[i].status = "Running"
  /\ \E verdict \in {"Finished", "Failed"} : tasks' = [tasks EXCEPT ![i].status = verdict]
  /\ UNCHANGED <<tabs, selected, next_stream_id, probes, panics, starting>>
-----------------------------------------------------------------------------
CaptureInit ==
  /\ tabs = <<>> /\ selected = [tab |-> 1, stream |-> 1] /\ next_stream_id = 1
  /\ probes = [id \in StreamId |-> 0] /\ panics = {} /\ starting = <<>> /\ tasks = <<>>

CaptureNext ==
  \/ \E c \in Captures : AddStream(c) \/ AddFormats(c)
  \/ \E id \in StreamId : EndProbe(id) \/ PanicProbe(id)
  \/ MoveTab \/ MoveStream \/ ToggleNoise \/ Enter \/ EnterOnFormats
  \/ \E i \in DOMAIN starting : LookUp(i) \/ BeginTask(i)
  \/ \E i \in DOMAIN tasks : EndTask(i)

CaptureSpec == CaptureInit /\ [][CaptureNext]_captureVars
-----------------------------------------------------------------------------
\* Streams keep ids of their own, whichever page reported them and whatever
\* their URL has become, and the selection is in the list.
CaptureTypeOK ==
  /\ \A t \in DOMAIN tabs : tabs[t].page \in Page /\ StreamsOf(tabs[t]) \subseteq Stream
  /\ \A s \in AllStreams : s.stream_id < next_stream_id
  /\ Cardinality(AllStreams) = next_stream_id - 1
  /\ probes \in [StreamId -> 0..MaxProbes] /\ panics \subseteq StreamId
  /\ Range(starting) \subseteq Starting /\ Range(tasks) \subseteq Task
  /\ tabs # <<>> => selected.tab \in DOMAIN tabs
  /\ selected.stream \in 1..MaxStreams

\* No stream is shown as being probed for ever: while its state says so a probe
\* of it is in flight, which ends within its timeout, however reports, probes
\* and the user's keys overlap.  Only a probe that panicked leaves it so.
ProbingIsProbed ==
  \A s \in AllStreams :
    s.probe_state = "Probing" => probes[s.stream_id] > 0 \/ s.stream_id \in panics
=============================================================================
