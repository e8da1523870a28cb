--------------------------- MODULE OriginMemory ---------------------------
(***************************************************************************)
(* What an engine remembers of the origins it has downloaded from:         *)
(* OriginMemoryStore with its file, and the two stores filled from it,     *)
(* OriginPhiRatioStore and OriginH2TuningStore.  Of a remembered figure    *)
(* only its presence is modelled.  Calls for one origin that follow each   *)
(* other without an await are one step and one tick.                       *)
(***************************************************************************)
EXTENDS Integers, FiniteSets, Functions, FiniteSetsExt, SequencesExt

CONSTANTS
  Origins,
  OriginMemoryCapacity,   \* ORIGIN_MEMORY_CAPACITY
  OriginPhiRatioCapacity, \* ORIGIN_PHI_RATIO_CAPACITY, of both small stores
  MaxTick                 \* bound: no use of a store that has counted so far

ASSUME OriginMemoryAssumption ==
  /\ {OriginMemoryCapacity, OriginPhiRatioCapacity} \subseteq Nat \ {0}
  /\ MaxTick \in Nat

VARIABLES
  memory,      \* OriginMemoryStore
  memory_file, \* origin-memory.bin: the entries written, and whether all of it was
  phi_ratios,  \* OriginPhiRatioStore
  h2_tunings,  \* OriginH2TuningStore
  last_used    \* history: {the origin the memory was used for last}

originVars == <<memory, memory_file, phi_ratios, h2_tunings, last_used>>

TickCount == 0..MaxTick
Learned == {"phi_ratio", "h2_tuning"}
Hint == {"None", "Http3", "Used"} \* "Used": the protocol of an earlier run

\* PersistedOriginProfile
Profile == [learned : SUBSET Learned, protocol_hint : Hint, last_used_tick : TickCount]
Entry == [last_used_tick : TickCount]

\* A map from some of the origins.
IsMap(entries, E) == DOMAIN entries \subseteq Origins /\ Range(entries) \subseteq E
IsStore(s, E) == IsMap(s.entries, E) /\ s.usage_tick \in TickCount

Empty == [entries |-> [o \in {} |-> 0], usage_tick |-> 0]
Torn == [whole |-> FALSE, entries |-> Empty.entries]
Written(m) == [whole |-> TRUE, entries |-> m.entries]

Blank == [learned |-> {}, protocol_hint |-> "None", last_used_tick |-> 0]
-----------------------------------------------------------------------------
(* All stores *)

TickOf(store, o) == store.entries[o].last_used_tick

\* A definition named Bad... is a mistake on purpose: put in the place of the
\* one below it, it shows that a property notices.

\* The newest of the entries that are too many goes.
BadPruned(store, capacity) ==
  LET S == DOMAIN store.entries
      kept == {o \in S : Cardinality({p \in S : TickOf(store, p) < TickOf(store, o)}) < capacity}
  IN [store EXCEPT !.entries = Restrict(@, kept)]

\* prune_lru: the entry with the smallest tick goes, until few enough are left.
\* With ticks that tell entries apart, the newest stay.
Pruned(store, capacity) ==
  LET S == DOMAIN store.entries
      kept == {o \in S : Cardinality({p \in S : TickOf(store, p) > TickOf(store, o)}) < capacity}
  IN [store EXCEPT !.entries = Restrict(@, kept)]

Ticked(store) == [store EXCEPT !.usage_tick = @ + 1]

\* A lookup that finds nothing counts as well.
Refreshed(store, o) ==
  LET s == Ticked(store) IN
    IF o \in DOMAIN s.entries THEN [s EXCEPT !.entries[o].last_used_tick = s.usage_tick]
    ELSE s

\* update_origin_ratio, update_origin_tuning
Updated(store, o) ==
  LET s == Ticked(store) IN
    Pruned([s EXCEPT !.entries =
              [p \in DOMAIN @ \cup {o} |->
                 IF p = o THEN [last_used_tick |-> s.usage_tick] ELSE @[p]]],
           OriginPhiRatioCapacity)
-----------------------------------------------------------------------------
(* OriginMemoryStore *)

\* touch_profile
Touched(m, o) ==
  LET s == Ticked(m)
      was == IF o \in DOMAIN s.entries THEN s.entries[o] ELSE Blank
  IN [s EXCEPT !.entries = [p \in DOMAIN @ \cup {o} |->
        IF p = o THEN [was EXCEPT !.last_used_tick = s.usage_tick] ELSE @[p]]]

\* note_...: touch, set, prune_lru.
Noted(m, o, what, hint) ==
  LET s == Touched(m, o) IN
    Pruned([s EXCEPT !.entries[o].learned = @ \cup what, !.entries[o].protocol_hint = hint],
           OriginMemoryCapacity)

HintOf(o) == IF o \in DOMAIN memory.entries THEN memory.entries[o].protocol_hint ELSE "None"

\* Every note ends with persist.
Note(o, what, hint) ==
  /\ memory' = Noted(memory, o, what, hint)
  /\ memory_file' = Written(memory')
  /\ last_used' = {o}

\* The count starts again with every program.
BadLoadedTick(entries) == 0

LoadedTick(entries) ==
  IF DOMAIN entries = {} THEN 0 ELSE Max({entries[o].last_used_tick : o \in DOMAIN entries})

\* load_enabled: what cannot be read or decoded is nothing.
Loaded(file) ==
  IF file.whole THEN [entries |-> file.entries, usage_tick |-> LoadedTick(file.entries)]
  ELSE Empty

\* hydrate_phi_ratios goes through the map in any order and prunes as it goes:
\* the last of that order stay, with ticks of their own.
HydratedPhi(m) ==
  LET S == {o \in DOMAIN m.entries : "phi_ratio" \in m.entries[o].learned}
      n == Cardinality(S)
      left == IF n > OriginPhiRatioCapacity THEN n - OriginPhiRatioCapacity ELSE 0
  IN {[entries |-> [o \in {order[i] : i \in (left + 1)..n} |->
                      [last_used_tick |-> CHOOSE i \in 1..n : order[i] = o]],
       usage_tick |-> m.usage_tick] : order \in SetToSeqs(S)}

\* hydrate_h2_tunings takes the ticks over, and does not prune.
HydratedH2(m) ==
  LET S == {o \in DOMAIN m.entries : "h2_tuning" \in m.entries[o].learned}
  IN [entries |-> [o \in S |-> [last_used_tick |-> TickOf(m, o)]], usage_tick |-> m.usage_tick]
-----------------------------------------------------------------------------
(* A download, run_download_task_local *)

\* What the start reads; a resumed download with a hint of its own leaves the
\* memory alone.  Neither prunes nor saves.
StartOfRun(o) ==
  /\ \/ memory' = Touched(memory, o) /\ last_used' = {o}
     \/ UNCHANGED <<memory, last_used>>
  /\ phi_ratios' = Refreshed(phi_ratios, o)
  /\ UNCHANGED <<memory_file, h2_tunings>>

LookUpTuning(o) ==
  /\ h2_tunings' = Refreshed(h2_tunings, o)
  /\ UNCHANGED <<memory, memory_file, phi_ratios, last_used>>

\* HEAD and the workers note what answers tell (length, ranges, a rate limit, a
\* challenge), and HTTP/3 when Alt-Svc names it.
NoteAnswer(o) ==
  /\ \E hint \in {HintOf(o), "Http3"} : Note(o, {}, hint)
  /\ UNCHANGED <<phi_ratios, h2_tunings>>

\* The scaler, once in a run.
LearnRatio(o) ==
  /\ phi_ratios' = Updated(phi_ratios, o)
  /\ Note(o, {"phi_ratio"}, HintOf(o))
  /\ UNCHANGED h2_tunings

\* The end of a run: a run over HTTP/2 leaves a tuning; the protocol is noted
\* unless HTTP/3 is known; reuse and the session's needs follow.
EndOfRun(o) ==
  /\ \E http2 \in BOOLEAN :
       /\ h2_tunings' = IF http2 THEN Updated(h2_tunings, o) ELSE h2_tunings
       /\ Note(o, IF http2 THEN {"h2_tuning"} ELSE {},
               IF HintOf(o) = "Http3" THEN "Http3" ELSE "Used")
  /\ UNCHANGED phi_ratios
-----------------------------------------------------------------------------
(* Restarts *)

\* DownloadEngine::new
NewEngine(file) ==
  /\ memory' = Loaded(file)
  /\ phi_ratios' \in HydratedPhi(Loaded(file))
  /\ h2_tunings' = HydratedH2(Loaded(file))
  /\ last_used' = {}

RestartEngine == NewEngine(memory_file) /\ UNCHANGED memory_file

\* fs::write truncates and writes: a crash in between leaves half a file.
CrashInPersist == NewEngine(Torn) /\ memory_file' = Torn
-----------------------------------------------------------------------------
OriginMemoryInit ==
  /\ memory = Empty /\ phi_ratios = Empty /\ h2_tunings = Empty
  /\ memory_file = Written(Empty) /\ last_used = {}

MayCount == \A s \in {memory, phi_ratios, h2_tunings} : s.usage_tick < MaxTick

OriginMemoryNext ==
  \/ /\ MayCount
     /\ \E o \in Origins :
          StartOfRun(o) \/ LookUpTuning(o) \/ NoteAnswer(o) \/ LearnRatio(o) \/ EndOfRun(o)
  \/ RestartEngine
  \/ CrashInPersist

OriginMemorySpec == OriginMemoryInit /\ [][OriginMemoryNext]_originVars
-----------------------------------------------------------------------------
OriginMemoryTypeOK ==
  /\ IsStore(memory, Profile)
  /\ memory_file.whole \in BOOLEAN /\ IsMap(memory_file.entries, Profile)
  /\ IsStore(phi_ratios, Entry)
  /\ IsStore(h2_tunings, Entry)
  /\ last_used \subseteq Origins /\ Cardinality(last_used) <= 1

\* In each store no two origins carry the same tick and none is ahead of the
\* count, also when the store was filled from a file or from another store: only
\* then does prune_lru find the entry unused for longest, and only then does the
\* next use make an entry the newest.
TicksTellApart ==
  \A s \in {memory, phi_ratios, h2_tunings} :
    /\ IsInjective([o \in DOMAIN s.entries |-> TickOf(s, o)])
    /\ \A o \in DOMAIN s.entries : TickOf(s, o) <= s.usage_tick

\* The place of each entry in the order of use, the newest first.
ByRecency(entries) ==
  [o \in DOMAIN entries |->
     Cardinality({p \in DOMAIN entries : entries[p].last_used_tick >= entries[o].last_used_tick})]

\* Whatever order notes, lookups, crashes and restarts come in, the memory is a
\* list of the origins by their last use, from which only the oldest fall, and
\* the file holds the list as it last was saved.
Recency == INSTANCE RecencyList WITH
  RecencyOrigins <- Origins, RecencyCapacity <- OriginMemoryCapacity,
  recent <- ByRecency(memory.entries),
  saved <- ByRecency(memory_file.entries),
  last <- last_used
ImplementsRecencyList == Recency!RecencySpec
=============================================================================
