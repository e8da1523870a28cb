------------------------ MODULE OriginsAndStreamsProofs ----------------------
(***************************************************************************)
(* Proofs about two lists of what was learned: the three stores of origins *)
(* of an engine, and the streams spectur has captured.                     *)
(*                                                                         *)
(* Origins, for any origins, capacities and number of uses.  That ticks    *)
(* tell the entries of a store apart is not inductive alone: a store       *)
(* filled from a file counts on from the largest tick in it, so the file's *)
(* ticks are distinct as well; and the phi ratios are filled with ticks    *)
(* from one up but go on with the memory's count, which is far enough only *)
(* because as many distinct ticks, none of them zero, need a count at      *)
(* least as large as their number.                                         *)
(*                                                                         *)
(* From the same invariant the memory is a list of the origins by their    *)
(* last use.  The place of an origin is the number of entries whose tick   *)
(* is not smaller than its own; ticks that tell entries apart make the     *)
(* places those of a list, a use with the next tick moves back exactly     *)
(* what stood before it, and pruning cuts the end off.                     *)
(*                                                                         *)
(* Streams, for any pages, URLs, reports and bounds: a stream shown as     *)
(* probing is probed.  A step that makes a stream "Probing" starts a probe *)
(* of its id, no other step but the end of a probe takes a probe away, and *)
(* that one leaves no stream of its id "Probing".                          *)
(*                                                                         *)
(* Their ids are those below the next one, each at one place of one tab:   *)
(* a report changes what stands at a place or adds a place with the next   *)
(* id (OnePlaceMore), to the one tab its page has.  So there are as many   *)
(* streams as ids given out, which also bounds how far the selection       *)
(* moves.  With the types of the stores and of the seed table, proved      *)
(* apart, these are the types of all three (TableTypesAreCorrect).         *)
(***************************************************************************)
EXTENDS MCTables, SeedRangesProofs, SequenceTheorems, FiniteSetTheorems, TLAPS

-----------------------------------------------------------------------------
(* The stores of origins *)

Map(E) == UNION {[D -> E] : D \in SUBSET Origins}
Store(E) == [entries : Map(E), usage_tick : TickCount]
File == [whole : BOOLEAN, entries : Map(Profile)]

\* No two entries bear the same tick, and none the zero of a store never used.
Distinct(entries) ==
  /\ \A o, p \in DOMAIN entries :
       entries[o].last_used_tick = entries[p].last_used_tick => o = p
  /\ \A o \in DOMAIN entries : entries[o].last_used_tick > 0

\* No entry is ahead of the count.
Counted(store) == \A o \in DOMAIN store.entries : TickOf(store, o) <= store.usage_tick

Kept(store) == Distinct(store.entries) /\ Counted(store)

OriginInv ==
  /\ memory \in Store(Profile) /\ Kept(memory)
  /\ memory_file \in File /\ Distinct(memory_file.entries)
  /\ phi_ratios \in Store(Entry) /\ Kept(phi_ratios)
  /\ h2_tunings \in Store(Entry) /\ Kept(h2_tunings)

-----------------------------------------------------------------------------
(* Maps and stores. *)

\* What a map is.
LEMMA MapShape ==
  ASSUME NEW E, NEW m \in Map(E)
  PROVE  /\ DOMAIN m \in SUBSET Origins
         /\ \A o \in DOMAIN m : m[o] \in E
         /\ m = [o \in DOMAIN m |-> m[o]]
<1>1. PICK D \in SUBSET Origins : m \in [D -> E]
  BY DEF Map
<1>2. QED
  BY <1>1

\* A function on origins is a map.
LEMMA IsAMap ==
  ASSUME NEW E, NEW D \in SUBSET Origins, NEW f \in [D -> E]
  PROVE  f \in Map(E)
BY DEF Map

\* Pruning leaves some of the entries, as they were, and the count.
LEMMA PrunedKeeps ==
  ASSUME NEW E, NEW s \in Store(E), NEW capacity, Kept(s)
  PROVE  Pruned(s, capacity) \in Store(E) /\ Kept(Pruned(s, capacity))
<1> DEFINE S == DOMAIN s.entries
           kept == {o \in S : Cardinality({p \in S : TickOf(s, p) > TickOf(s, o)}) < capacity}
           m == [o \in kept |-> s.entries[o]]
<1>1. s.entries \in Map(E) /\ s.usage_tick \in TickCount
  BY DEF Store
<1>2. Pruned(s, capacity) = [entries |-> m, usage_tick |-> s.usage_tick]
  <2>1. Pruned(s, capacity) = [s EXCEPT !.entries = m]
    BY Zenon DEF Pruned, Restrict
  <2> HIDE DEF m
  <2>2. QED
    BY <1>1, <2>1 DEF Store
<1>3. kept \in SUBSET S
  OBVIOUS
<1> HIDE DEF kept
<1>4. m \in Map(E)
  BY <1>1, <1>3, MapShape, IsAMap
<1>5. DOMAIN m = kept /\ \A o \in kept : o \in S /\ m[o] = s.entries[o]
  BY <1>3
<1> HIDE DEF m
<1>6. Distinct(m)
  BY <1>5 DEF Distinct, Kept
<1>7. \A o \in DOMAIN m : m[o].last_used_tick <= s.usage_tick
  BY <1>5 DEF Counted, Kept, TickOf
<1>8. QED
  BY <1>1, <1>2, <1>4, <1>6, <1>7 DEF Store, Kept, Counted, TickOf

\* The store after a use of o that makes e its entry.
With(s, o, e) ==
  [entries |-> [p \in DOMAIN s.entries \cup {o} |-> IF p = o THEN e ELSE s.entries[p]],
   usage_tick |-> s.usage_tick + 1]

\* An entry that is new or renewed takes the next tick, which nobody has.
LEMMA NextTickIsFree ==
  ASSUME NEW E, NEW s \in Store(E), NEW o \in Origins, NEW e \in E, Kept(s),
         \A x \in E : x.last_used_tick \in TickCount,
         s.usage_tick + 1 \in TickCount,
         e.last_used_tick = s.usage_tick + 1
  PROVE  With(s, o, e) \in Store(E) /\ Kept(With(s, o, e))
<1> DEFINE D == DOMAIN s.entries \cup {o}
           m == [p \in D |-> IF p = o THEN e ELSE s.entries[p]]
<1>1. /\ s.entries \in Map(E) /\ s.usage_tick \in TickCount
      /\ DOMAIN s.entries \in SUBSET Origins
      /\ \A p \in DOMAIN s.entries : s.entries[p] \in E
  BY MapShape DEF Store
<1>2. D \in SUBSET Origins /\ m \in [D -> E]
  BY <1>1
<1>3. m \in Map(E)
  BY <1>2, IsAMap
<1>4. TickCount \subseteq Nat
  BY OriginMemoryAssumption DEF TickCount
<1>5. \A p \in DOMAIN s.entries :
        /\ s.entries[p].last_used_tick \in Nat
        /\ s.entries[p].last_used_tick > 0
        /\ s.entries[p].last_used_tick <= s.usage_tick
  BY <1>1, <1>4 DEF Kept, Distinct, Counted, TickOf
<1>6. /\ DOMAIN m = D
      /\ m[o] = e
      /\ \A p \in D \ {o} : p \in DOMAIN s.entries /\ m[p] = s.entries[p]
  OBVIOUS
<1>7. With(s, o, e) = [entries |-> m, usage_tick |-> s.usage_tick + 1]
  BY Zenon DEF With
<1> HIDE DEF m, D
<1>8. s.usage_tick \in Nat /\ s.usage_tick + 1 > s.usage_tick
  BY <1>1, OriginMemoryAssumption DEF TickCount
<1>9. \A p \in D \ {o} :
        /\ m[p].last_used_tick \in Nat
        /\ m[p].last_used_tick > 0
        /\ m[p].last_used_tick <= s.usage_tick
  BY <1>5, <1>6
<1>10. \A p, q \in D : m[p].last_used_tick = m[q].last_used_tick => p = q
  <2>1. \A p, q \in D \ {o} : m[p].last_used_tick = m[q].last_used_tick => p = q
    BY <1>6 DEF Kept, Distinct
  <2>2. \A p \in D \ {o} : m[p].last_used_tick # m[o].last_used_tick
    BY <1>6, <1>8, <1>9
  <2>3. QED
    BY <2>1, <2>2
<1>11. \A p \in D : m[p].last_used_tick > 0 /\ m[p].last_used_tick <= s.usage_tick + 1
  BY <1>6, <1>8, <1>9
<1>12. QED
  BY <1>3, <1>6, <1>7, <1>10, <1>11 DEF Store, Kept, Distinct, Counted, TickOf

\* A tick that nobody takes leaves everything in order.
LEMMA TickKeeps ==
  ASSUME NEW E, NEW s \in Store(E), Kept(s),
         \A x \in E : x.last_used_tick \in TickCount, s.usage_tick + 1 \in TickCount
  PROVE  /\ Ticked(s) = [entries |-> s.entries, usage_tick |-> s.usage_tick + 1]
         /\ Ticked(s) \in Store(E) /\ Kept(Ticked(s))
<1>1. Ticked(s) = [entries |-> s.entries, usage_tick |-> s.usage_tick + 1]
  BY DEF Ticked, Store
<1>2. s.entries \in Map(E) /\ s.usage_tick \in Nat
  BY OriginMemoryAssumption DEF Store, TickCount
<1>3. \A p \in DOMAIN s.entries : s.entries[p].last_used_tick \in Nat
  BY <1>2, MapShape, OriginMemoryAssumption DEF TickCount
<1>4. \A p \in DOMAIN s.entries : s.entries[p].last_used_tick <= s.usage_tick + 1
  BY <1>2, <1>3 DEF Kept, Counted, TickOf
<1>5. QED
  BY <1>1, <1>2, <1>4 DEF Store, Kept, Counted, TickOf

\* The ticks in profiles and entries are counts.
LEMMA EntryTicks ==
  /\ \A x \in Profile : x.last_used_tick \in TickCount
  /\ \A x \in Entry : x.last_used_tick \in TickCount
BY DEF Profile, Entry

\* A lookup renews the entry it finds.
LEMMA RefreshedKeeps ==
  ASSUME NEW s \in Store(Entry), NEW o \in Origins, Kept(s), s.usage_tick + 1 \in TickCount
  PROVE  Refreshed(s, o) \in Store(Entry) /\ Kept(Refreshed(s, o))
<1> DEFINE t == Ticked(s)
           e == [s.entries[o] EXCEPT !.last_used_tick = s.usage_tick + 1]
<1>1. /\ t = [entries |-> s.entries, usage_tick |-> s.usage_tick + 1]
      /\ t \in Store(Entry) /\ Kept(t)
  BY EntryTicks, TickKeeps
<1>2. CASE o \in DOMAIN s.entries
  <2>1. s.entries \in Map(Entry)
    BY DEF Store
  <2>2. s.entries[o] \in Entry /\ s.entries = [p \in DOMAIN s.entries |-> s.entries[p]]
    BY <1>2, <2>1, MapShape
  <2>3. e \in Entry /\ e.last_used_tick = s.usage_tick + 1
    BY <2>2 DEF Entry
  <2>4. Refreshed(s, o) = [t EXCEPT !.entries[o].last_used_tick = t.usage_tick]
    <3>1. o \in DOMAIN t.entries
      BY <1>1, <1>2
    <3>2. QED
      BY <3>1, Zenon DEF Refreshed
  <2>5. Refreshed(s, o) = [t EXCEPT !.entries = [t.entries EXCEPT ![o] = [t.entries[o] EXCEPT !.last_used_tick = t.usage_tick]]]
    BY <2>4, Zenon
  <2>6. Refreshed(s, o) = With(s, o, e)
    BY <1>1, <1>2, <2>2, <2>5 DEF With
  <2>7. QED
    BY <2>3, <2>6, EntryTicks, NextTickIsFree
<1>3. CASE o \notin DOMAIN s.entries
  <2>1. Refreshed(s, o) = t
    <3>1. o \notin DOMAIN t.entries
      BY <1>1, <1>3
    <3>2. QED
      BY <3>1, Zenon DEF Refreshed
  <2>2. QED
    BY <1>1, <2>1
<1>4. QED
  BY <1>2, <1>3

\* A lesson renews the entry or adds one, and prunes.
LEMMA UpdatedKeeps ==
  ASSUME NEW s \in Store(Entry), NEW o \in Origins, Kept(s), s.usage_tick + 1 \in TickCount
  PROVE  Updated(s, o) \in Store(Entry) /\ Kept(Updated(s, o))
<1> DEFINE t == Ticked(s)
           e == [last_used_tick |-> s.usage_tick + 1]
<1>1. t = [entries |-> s.entries, usage_tick |-> s.usage_tick + 1]
  BY EntryTicks, TickKeeps
<1>2. e \in Entry /\ e.last_used_tick = s.usage_tick + 1
  BY DEF Entry
<1>3. [t EXCEPT !.entries = [p \in DOMAIN t.entries \cup {o} |->
         IF p = o THEN [last_used_tick |-> t.usage_tick] ELSE t.entries[p]]]
      = With(s, o, e)
  BY <1>1 DEF With
<1>4. Updated(s, o) = Pruned(With(s, o, e), OriginPhiRatioCapacity)
  BY <1>3, Zenon DEF Updated
<1>5. With(s, o, e) \in Store(Entry) /\ Kept(With(s, o, e))
  BY <1>2, EntryTicks, NextTickIsFree
<1>6. QED
  BY <1>4, <1>5, PrunedKeeps

\* A touch renews the profile or adds a blank one.
LEMMA TouchedKeeps ==
  ASSUME NEW m \in Store(Profile), NEW o \in Origins, Kept(m), m.usage_tick + 1 \in TickCount
  PROVE  /\ \E e \in Profile : /\ e.last_used_tick = m.usage_tick + 1
                               /\ Touched(m, o) = With(m, o, e)
         /\ Touched(m, o) \in Store(Profile) /\ Kept(Touched(m, o))
<1> DEFINE t == Ticked(m)
           was == IF o \in DOMAIN t.entries THEN t.entries[o] ELSE Blank
           e == [was EXCEPT !.last_used_tick = t.usage_tick]
<1>1. t = [entries |-> m.entries, usage_tick |-> m.usage_tick + 1] /\ t \in Store(Profile)
  BY EntryTicks, TickKeeps
<1>2. t.entries = m.entries /\ t.usage_tick = m.usage_tick + 1
  BY <1>1
<1>3. Blank \in Profile
  BY OriginMemoryAssumption DEF Blank, Profile, Hint, TickCount
<1>4. was \in Profile
  BY <1>1, <1>3, MapShape DEF Store
<1>5. e \in Profile /\ e.last_used_tick = m.usage_tick + 1
  BY <1>2, <1>4 DEF Profile
<1>6. Touched(m, o) = [t EXCEPT !.entries = [p \in DOMAIN t.entries \cup {o} |->
                         IF p = o THEN e ELSE t.entries[p]]]
  BY Zenon DEF Touched
<1> HIDE DEF e
<1>7. Touched(m, o) = With(m, o, e)
  BY <1>1, <1>6 DEF With
<1>8. QED
  BY <1>5, <1>7, EntryTicks, NextTickIsFree

\* A note renews the profile or adds one, and prunes.
LEMMA NotedKeeps ==
  ASSUME NEW m \in Store(Profile), NEW o \in Origins, Kept(m), m.usage_tick + 1 \in TickCount,
         NEW what \in SUBSET Learned, NEW hint \in Hint
  PROVE  /\ \E e \in Profile :
              /\ e.last_used_tick = m.usage_tick + 1
              /\ Noted(m, o, what, hint) = Pruned(With(m, o, e), OriginMemoryCapacity)
         /\ Noted(m, o, what, hint) \in Store(Profile) /\ Kept(Noted(m, o, what, hint))
<1> DEFINE t == Touched(m, o)
<1>1. PICK e \in Profile : e.last_used_tick = m.usage_tick + 1 /\ t = With(m, o, e)
  BY TouchedKeeps
<1> DEFINE f == [[e EXCEPT !.learned = @ \cup what] EXCEPT !.protocol_hint = hint]
<1>2. f \in Profile /\ f.last_used_tick = m.usage_tick + 1
  BY <1>1 DEF Profile
<1>3. [t EXCEPT !.entries[o].learned = @ \cup what, !.entries[o].protocol_hint = hint]
      = With(m, o, f)
  <2> DEFINE M == t.entries
             N == [M EXCEPT ![o] = [M[o] EXCEPT !.learned = @ \cup what]]
             u == [t EXCEPT !.entries = N]
  <2>1. M = [p \in DOMAIN m.entries \cup {o} |-> IF p = o THEN e ELSE m.entries[p]]
    BY <1>1 DEF With
  <2>2. [u EXCEPT !.entries = [N EXCEPT ![o] = [N[o] EXCEPT !.protocol_hint = hint]]] = With(m, o, f)
    <3> DEFINE D == DOMAIN m.entries \cup {o}
               n == m.usage_tick + 1
    <3>1. N = [p \in D |-> IF p = o THEN [e EXCEPT !.learned = @ \cup what] ELSE m.entries[p]]
      BY <2>1
    <3>2. [N EXCEPT ![o] = [N[o] EXCEPT !.protocol_hint = hint]]
          = [p \in D |-> IF p = o THEN f ELSE m.entries[p]]
      <4> HIDE DEF N
      <4> QED BY <3>1
    <3>3. t = [entries |-> M, usage_tick |-> n]
      BY <1>1 DEF With
    <3> HIDE DEF M, N, f, n, t
    <3>4. u = [entries |-> N, usage_tick |-> n]
      BY <3>3
    <3> HIDE DEF u
    <3>5. [u EXCEPT !.entries = [N EXCEPT ![o] = [N[o] EXCEPT !.protocol_hint = hint]]]
          = [entries |-> [p \in D |-> IF p = o THEN f ELSE m.entries[p]], usage_tick |-> n]
      BY <3>2, <3>4
    <3>6. QED
      BY <3>5, Zenon DEF With, n
  <2>3. [u EXCEPT !.entries[o].protocol_hint = hint]
        = [u EXCEPT !.entries = [N EXCEPT ![o] = [N[o] EXCEPT !.protocol_hint = hint]]]
    BY <1>1 DEF With
  <2>4. [t EXCEPT !.entries[o].learned = @ \cup what, !.entries[o].protocol_hint = hint]
        = [u EXCEPT !.entries[o].protocol_hint = hint]
    BY Zenon
  <2>5. QED
    BY <2>2, <2>3, <2>4
<1>4. Noted(m, o, what, hint) = Pruned(With(m, o, f), OriginMemoryCapacity)
  BY <1>3, Zenon DEF Noted
<1> HIDE DEF f
<1>5. With(m, o, f) \in Store(Profile) /\ Kept(With(m, o, f))
  BY <1>2, EntryTicks, NextTickIsFree
<1>6. QED
  BY <1>2, <1>4, <1>5, PrunedKeeps
-----------------------------------------------------------------------------
(* Restarts. *)

\* Some ticks have a largest.
LEMMA LargestTick ==
  ASSUME NEW S \in SUBSET TickCount, S # {}
  PROVE  Max(S) \in S /\ \A x \in S : x <= Max(S)
<1> DEFINE T == {MaxTick - x : x \in S}
           R == OpToRel(<, Nat)
<1>1. MaxTick \in Nat /\ \A x \in S : x \in 0..MaxTick
  BY OriginMemoryAssumption DEF TickCount
<1>2. T \in SUBSET Nat /\ T # {}
  BY <1>1
<1>3. IsWellFoundedOn(R, Nat)
  BY NatLessThanWellFounded
<1>4. \A x, y \in Nat : x < y => <<x, y>> \in R
  BY Zenon DEF OpToRel
<1> HIDE DEF R
<1>5. PICK t \in T : \A u \in T : ~(<<u, t>> \in R)
  BY <1>2, <1>3, WFMin
<1>6. \A u \in T : ~(u < t)
  BY <1>2, <1>4, <1>5, Zenon
<1>7. PICK z \in S : t = MaxTick - z
  BY <1>5
<1>8. \A x \in S : z >= x
  <2>1. TAKE x \in S
  <2>2. ~(MaxTick - x < MaxTick - z)
    BY <1>6, <1>7
  <2>3. QED
    BY <1>1, <2>2
<1>9. Max(S) \in S /\ \A x \in S : Max(S) >= x
  BY <1>8, Zenon DEF Max
<1>10. QED
  BY <1>1, <1>9

\* A program that starts goes on from the largest tick of the file, or from
\* nothing.
LEMMA LoadedKeeps ==
  ASSUME NEW file \in File, Distinct(file.entries)
  PROVE  Loaded(file) \in Store(Profile) /\ Kept(Loaded(file))
<1>1. /\ file.entries \in Map(Profile)
      /\ \A o \in DOMAIN file.entries : file.entries[o].last_used_tick \in TickCount
  BY MapShape, EntryTicks DEF File
<1>2. 0 \in TickCount /\ TickCount \subseteq Nat
  BY OriginMemoryAssumption DEF TickCount
<1>3. CASE file.whole
  <2> DEFINE S == {file.entries[o].last_used_tick : o \in DOMAIN file.entries}
             n == LoadedTick(file.entries)
  <2>1. n \in TickCount /\ \A o \in DOMAIN file.entries : file.entries[o].last_used_tick <= n
    <3>1. CASE DOMAIN file.entries = {}
      BY <1>2, <3>1 DEF LoadedTick
    <3>2. CASE DOMAIN file.entries # {}
      <4>1. S \in SUBSET TickCount /\ S # {}
        BY <1>1, <3>2
      <4>2. n = Max(S)
        BY <3>2, Zenon DEF LoadedTick
      <4>3. \A o \in DOMAIN file.entries : file.entries[o].last_used_tick \in S
        OBVIOUS
      <4> HIDE DEF S, n
      <4>4. QED
        BY <4>1, <4>2, <4>3, LargestTick
    <3>3. QED
      BY <3>1, <3>2
  <2>2. Loaded(file) = [entries |-> file.entries, usage_tick |-> n]
    BY <1>3, Zenon DEF Loaded
  <2> HIDE DEF n
  <2>3. QED
    BY <1>1, <2>1, <2>2 DEF Store, Kept, Counted, TickOf
<1>4. CASE ~file.whole
  <2> DEFINE none == [o \in {} |-> 0]
  <2>1. Loaded(file) = [entries |-> none, usage_tick |-> 0]
    BY <1>4, Zenon DEF Loaded, Empty
  <2>2. none \in [{} -> Profile] /\ DOMAIN none = {}
    OBVIOUS
  <2> HIDE DEF none
  <2>3. none \in Map(Profile)
    BY <2>2, IsAMap
  <2>4. Distinct(none)
    BY <2>2 DEF Distinct
  <2>5. QED
    BY <1>2, <2>1, <2>2, <2>3, <2>4 DEF Store, Kept, Counted
<1>5. QED
  BY <1>3, <1>4

\* Distinct ticks above zero and not above the count: the count is not below
\* their number.
LEMMA CountCoversEntries ==
  ASSUME NEW m \in Store(Profile), Kept(m), NEW S \in SUBSET DOMAIN m.entries
  PROVE  IsFiniteSet(S) /\ Cardinality(S) \in Nat /\ Cardinality(S) <= m.usage_tick
<1> DEFINE n == m.usage_tick
           f == [o \in S |-> m.entries[o].last_used_tick]
<1>1. m.entries \in Map(Profile) /\ n \in Nat
  BY OriginMemoryAssumption DEF Store, TickCount
<1>2. \A o \in S : m.entries[o].last_used_tick \in 1..n
  <2>1. TAKE o \in S
  <2>2. m.entries[o].last_used_tick \in TickCount
    BY <1>1, MapShape, EntryTicks
  <2>3. /\ m.entries[o].last_used_tick > 0
        /\ m.entries[o].last_used_tick <= n
    BY DEF Kept, Distinct, Counted, TickOf
  <2> HIDE DEF n
  <2>4. QED
    BY <1>1, <2>2, <2>3, OriginMemoryAssumption DEF TickCount
<1>3. f \in [S -> 1..n]
  BY <1>2
<1>4. IsInjective(f)
  BY DEF IsInjective, Kept, Distinct
<1>5. f \in Injection(S, 1..n)
  BY <1>3, <1>4, Zenon DEF Injection
<1> HIDE DEF f, n
<1>6. IsFiniteSet(1..n) /\ Cardinality(1..n) = n
  BY <1>1, FS_Interval
<1>7. IsFiniteSet(S) /\ Cardinality(S) <= n
  BY <1>5, <1>6, FS_Injection
<1>8. QED
  BY <1>7, FS_CardinalityType DEF n

\* Filled in any order and pruned, the ratios bear the numbers one to at most
\* the number of profiles.
LEMMA HydratedPhiKeeps ==
  ASSUME NEW m \in Store(Profile), Kept(m), NEW s \in HydratedPhi(m)
  PROVE  s \in Store(Entry) /\ Kept(s)
<1> DEFINE S == {o \in DOMAIN m.entries : "phi_ratio" \in m.entries[o].learned}
           n == Cardinality(S)
           left == IF n > OriginPhiRatioCapacity THEN n - OriginPhiRatioCapacity ELSE 0
           D(order) == {order[i] : i \in (left + 1)..n}
           Tick(order, o) == CHOOSE i \in 1..n : order[i] = o
           M(order) == [o \in D(order) |-> [last_used_tick |-> Tick(order, o)]]
<1>1. PICK order \in SetToSeqs(S) : s = [entries |-> M(order), usage_tick |-> m.usage_tick]
  BY Zenon DEF HydratedPhi
<1>2. order \in [1..n -> S]
  BY <1>1, Zenon DEF SetToSeqs
<1>3. /\ m.entries \in Map(Profile) /\ m.usage_tick \in TickCount
      /\ DOMAIN m.entries \in SUBSET Origins
  BY MapShape DEF Store
<1>4. n \in Nat /\ n <= m.usage_tick /\ S \in SUBSET Origins
  BY <1>3, CountCoversEntries
<1> HIDE DEF S, n
<1>5. left \in Nat
  BY <1>4, OriginMemoryAssumption
<1>6. D(order) \in SUBSET Origins
  BY <1>2, <1>4, <1>5
<1>7. \A o \in D(order) : Tick(order, o) \in 1..n /\ order[Tick(order, o)] = o
  <2>1. TAKE o \in D(order)
  <2>2. \E i \in 1..n : order[i] = o
    BY <1>4, <1>5
  <2>3. QED
    BY <2>2, Zenon
<1> HIDE DEF left, D, Tick
<1>8. 1..n \subseteq TickCount
  BY <1>3, <1>4, OriginMemoryAssumption DEF TickCount
<1>9. M(order) \in [D(order) -> Entry]
  BY <1>7, <1>8 DEF Entry
<1>10. M(order) \in Map(Entry)
  BY <1>6, <1>9, IsAMap
<1>11. DOMAIN M(order) = D(order)
       /\ \A o \in D(order) : M(order)[o].last_used_tick = Tick(order, o)
  OBVIOUS
<1> HIDE DEF M
<1>12. Distinct(M(order))
  BY <1>4, <1>7, <1>11 DEF Distinct
<1>13. \A o \in D(order) : M(order)[o].last_used_tick <= m.usage_tick
  BY <1>3, <1>4, <1>7, <1>11, OriginMemoryAssumption DEF TickCount
<1>14. QED
  BY <1>1, <1>3, <1>10, <1>11, <1>12, <1>13 DEF Store, Kept, Counted, TickOf

\* The tunings bear the ticks of their profiles.
LEMMA HydratedH2Keeps ==
  ASSUME NEW m \in Store(Profile), Kept(m)
  PROVE  HydratedH2(m) \in Store(Entry) /\ Kept(HydratedH2(m))
<1> DEFINE S == {o \in DOMAIN m.entries : "h2_tuning" \in m.entries[o].learned}
           M == [o \in S |-> [last_used_tick |-> TickOf(m, o)]]
<1>1. HydratedH2(m) = [entries |-> M, usage_tick |-> m.usage_tick]
  BY Zenon DEF HydratedH2
<1>2. /\ m.entries \in Map(Profile) /\ m.usage_tick \in TickCount
      /\ DOMAIN m.entries \in SUBSET Origins
      /\ \A o \in DOMAIN m.entries : m.entries[o] \in Profile
  BY MapShape DEF Store
<1>3. S \in SUBSET DOMAIN m.entries
  OBVIOUS
<1> HIDE DEF S
<1>4. M \in [S -> Entry]
  BY <1>2, <1>3, EntryTicks DEF TickOf, Entry
<1>5. M \in Map(Entry)
  BY <1>2, <1>3, <1>4, IsAMap
<1>6. DOMAIN M = S /\ \A o \in S : M[o].last_used_tick = m.entries[o].last_used_tick
  BY DEF TickOf
<1> HIDE DEF M
<1>7. Distinct(M)
  BY <1>3, <1>6 DEF Kept, Distinct
<1>8. \A o \in S : M[o].last_used_tick <= m.usage_tick
  BY <1>3, <1>6 DEF Kept, Counted, TickOf
<1>9. QED
  BY <1>1, <1>2, <1>5, <1>6, <1>7, <1>8 DEF Store, Kept, Counted, TickOf
-----------------------------------------------------------------------------
(* The invariant. *)

\* What a note writes is what the memory holds.
LEMMA NoteKeeps ==
  ASSUME OriginInv, MayCount, NEW o \in Origins, NEW what \in SUBSET Learned,
         NEW hint \in Hint, Note(o, what, hint)
  PROVE  /\ memory' \in Store(Profile) /\ Kept(memory')
         /\ memory_file' \in File /\ Distinct(memory_file'.entries)
<1>1. memory.usage_tick + 1 \in TickCount
  BY OriginMemoryAssumption DEF OriginInv, Store, MayCount, TickCount
<1>2. memory' \in Store(Profile) /\ Kept(memory')
  <2>1. memory' = Noted(memory, o, what, hint)
    BY DEF Note
  <2>2. QED
    BY <1>1, <2>1, NotedKeeps DEF OriginInv
<1>3. memory_file' = [whole |-> TRUE, entries |-> memory'.entries]
  BY DEF Note, Written
<1>4. memory'.entries \in Map(Profile)
  BY <1>2 DEF Store
<1>5. QED
  BY <1>2, <1>3, <1>4 DEF File, Kept

\* The hint noted so far is a hint.
LEMMA HintIsAHint ==
  ASSUME OriginInv, NEW o \in Origins
  PROVE  HintOf(o) \in Hint
<1>1. memory.entries \in Map(Profile)
  BY DEF OriginInv, Store
<1>2. \A p \in DOMAIN memory.entries : memory.entries[p] \in Profile
  BY <1>1, MapShape
<1>3. QED
  BY <1>2 DEF HintOf, Profile, Hint

\* Everything starts empty.
LEMMA OriginInitHolds ==
  ASSUME OriginMemoryInit
  PROVE  OriginInv
<1> DEFINE none == [o \in {} |-> 0]
<1>1. Empty = [entries |-> none, usage_tick |-> 0] /\ Empty.entries = none
  BY DEF Empty
<1>2. \A E : none \in Map(E)
  <2>1. TAKE E
  <2>2. none \in [{} -> E]
    OBVIOUS
  <2>3. QED
    BY <2>2, IsAMap
<1>3. DOMAIN none = {}
  OBVIOUS
<1> HIDE DEF none
<1>4. Distinct(none) /\ Counted(Empty)
  BY <1>1, <1>3 DEF Distinct, Counted
<1>5. 0 \in TickCount
  BY OriginMemoryAssumption DEF TickCount
<1>6. \A E : Empty \in Store(E)
  BY <1>1, <1>2, <1>5 DEF Store
<1>7. Kept(Empty)
  BY <1>1, <1>4 DEF Kept
<1>8. memory_file = [whole |-> TRUE, entries |-> none]
  BY <1>1 DEF OriginMemoryInit, Written
<1>9. memory_file \in File /\ Distinct(memory_file.entries)
  BY <1>2, <1>4, <1>8 DEF File
<1>10. QED
  BY <1>6, <1>7, <1>9 DEF OriginMemoryInit, OriginInv

\* A program that starts, whatever the file holds.
LEMMA NewEngineKeeps ==
  ASSUME NEW file \in File, Distinct(file.entries), NewEngine(file), memory_file' = file
  PROVE  OriginInv'
<1>1. Loaded(file) \in Store(Profile) /\ Kept(Loaded(file))
  BY LoadedKeeps
<1>2. phi_ratios' \in Store(Entry) /\ Kept(phi_ratios')
  BY <1>1, HydratedPhiKeeps DEF NewEngine
<1>3. h2_tunings' \in Store(Entry) /\ Kept(h2_tunings')
  BY <1>1, HydratedH2Keeps DEF NewEngine
<1>4. memory' = Loaded(file)
  BY DEF NewEngine
<1>5. QED
  BY <1>1, <1>2, <1>3, <1>4 DEF OriginInv

\* Every step keeps the invariant.
LEMMA OriginStepHolds ==
  ASSUME OriginInv, [OriginMemoryNext]_originVars
  PROVE  OriginInv'
<1>1. ASSUME MayCount
      PROVE  /\ memory.usage_tick + 1 \in TickCount
             /\ phi_ratios.usage_tick + 1 \in TickCount
             /\ h2_tunings.usage_tick + 1 \in TickCount
  BY <1>1, OriginMemoryAssumption DEF OriginInv, Store, MayCount, TickCount
<1>2. ASSUME MayCount, NEW o \in Origins, StartOfRun(o) PROVE OriginInv'
  <2>1. memory' \in Store(Profile) /\ Kept(memory')
    BY <1>1, <1>2, TouchedKeeps DEF OriginInv, StartOfRun
  <2>2. phi_ratios' \in Store(Entry) /\ Kept(phi_ratios')
    BY <1>1, <1>2, RefreshedKeeps DEF OriginInv, StartOfRun
  <2>3. UNCHANGED <<memory_file, h2_tunings>>
    BY <1>2 DEF StartOfRun
  <2>4. QED
    BY <2>1, <2>2, <2>3 DEF OriginInv
<1>3. ASSUME MayCount, NEW o \in Origins, LookUpTuning(o) PROVE OriginInv'
  <2>1. h2_tunings' \in Store(Entry) /\ Kept(h2_tunings')
    BY <1>1, <1>3, RefreshedKeeps DEF OriginInv, LookUpTuning
  <2>2. UNCHANGED <<memory, memory_file, phi_ratios>>
    BY <1>3 DEF LookUpTuning
  <2>3. QED
    BY <2>1, <2>2 DEF OriginInv
<1>4. ASSUME MayCount, NEW o \in Origins, NoteAnswer(o) PROVE OriginInv'
  <2>1. PICK hint \in {HintOf(o), "Http3"} : Note(o, {}, hint)
    BY <1>4 DEF NoteAnswer
  <2>2. hint \in Hint
    BY HintIsAHint DEF Hint
  <2>3. UNCHANGED <<phi_ratios, h2_tunings>>
    BY <1>4 DEF NoteAnswer
  <2>4. QED
    BY <1>4, <2>1, <2>2, <2>3, NoteKeeps DEF OriginInv
<1>5. ASSUME MayCount, NEW o \in Origins, LearnRatio(o) PROVE OriginInv'
  <2>1. phi_ratios' \in Store(Entry) /\ Kept(phi_ratios')
    BY <1>1, <1>5, UpdatedKeeps DEF OriginInv, LearnRatio
  <2>2. Note(o, {"phi_ratio"}, HintOf(o)) /\ UNCHANGED h2_tunings
    BY <1>5 DEF LearnRatio
  <2>3. {"phi_ratio"} \in SUBSET Learned
    BY DEF Learned
  <2>4. QED
    BY <1>5, <2>1, <2>2, <2>3, NoteKeeps, HintIsAHint DEF OriginInv
<1>6. ASSUME MayCount, NEW o \in Origins, EndOfRun(o) PROVE OriginInv'
  <2>1. PICK http2 \in BOOLEAN :
          /\ h2_tunings' = IF http2 THEN Updated(h2_tunings, o) ELSE h2_tunings
          /\ Note(o, IF http2 THEN {"h2_tuning"} ELSE {},
                  IF HintOf(o) = "Http3" THEN "Http3" ELSE "Used")
    BY <1>6 DEF EndOfRun
  <2>2. h2_tunings' \in Store(Entry) /\ Kept(h2_tunings')
    BY <1>1, <1>6, <2>1, UpdatedKeeps DEF OriginInv
  <2> DEFINE what == IF http2 THEN {"h2_tuning"} ELSE {}
             hint == IF HintOf(o) = "Http3" THEN "Http3" ELSE "Used"
  <2>3. what \in SUBSET Learned /\ hint \in Hint /\ Note(o, what, hint)
    BY <2>1 DEF Learned, Hint
  <2> HIDE DEF what, hint
  <2>4. UNCHANGED phi_ratios
    BY <1>6 DEF EndOfRun
  <2>5. QED
    BY <1>6, <2>2, <2>3, <2>4, NoteKeeps DEF OriginInv
<1>7. ASSUME RestartEngine PROVE OriginInv'
  BY <1>7, NewEngineKeeps DEF RestartEngine, OriginInv
<1>8. ASSUME CrashInPersist PROVE OriginInv'
  <2> DEFINE none == [o \in {} |-> 0]
  <2>1. Torn = [whole |-> FALSE, entries |-> none]
    BY DEF Torn, Empty
  <2>2. none \in [{} -> Profile] /\ DOMAIN none = {}
    OBVIOUS
  <2> HIDE DEF none
  <2>3. Torn \in File /\ Distinct(Torn.entries)
    BY <2>1, <2>2, IsAMap DEF File, Distinct
  <2>4. QED
    BY <1>8, <2>3, NewEngineKeeps DEF CrashInPersist
<1>9. ASSUME UNCHANGED originVars PROVE OriginInv'
  BY <1>9 DEF originVars, OriginInv
<1>10. QED
  BY <1>2, <1>3, <1>4, <1>5, <1>6, <1>7, <1>8, <1>9 DEF OriginMemoryNext

\* In each of the three stores, through uses, lessons, pruning, restarts and
\* crashes, no two origins bear the same tick and none is ahead of the count: the
\* entry that prune_lru removes is the one unused for longest.
THEOREM TicksAreDistinct == OriginMemorySpec => []TicksTellApart
<1>1. OriginMemoryInit => OriginInv
  BY OriginInitHolds
<1>2. OriginInv /\ [OriginMemoryNext]_originVars => OriginInv'
  BY OriginStepHolds
<1>3. OriginInv => TicksTellApart
  BY DEF OriginInv, Kept, Distinct, Counted, TicksTellApart, TickOf, IsInjective
<1>4. QED
  BY <1>1, <1>2, <1>3, PTL DEF OriginMemorySpec

-----------------------------------------------------------------------------
(* The list by last use. *)

\* Finitely many entries, told apart by their ticks.
Ranked(entries) ==
  /\ IsFiniteSet(DOMAIN entries)
  /\ \A o \in DOMAIN entries : entries[o].last_used_tick \in Nat
  /\ Distinct(entries)

\* Those not used before o, o among them: as many as its place.
Upto(entries, o) ==
  {p \in DOMAIN entries : entries[p].last_used_tick >= entries[o].last_used_tick}

\* The entries of the memory are told apart.
LEMMA MemoryIsRanked ==
  ASSUME NEW s \in Store(Profile), Kept(s)
  PROVE  Ranked(s.entries)
<1>1. s.entries \in Map(Profile)
  BY DEF Store
<1>2. \A o \in DOMAIN s.entries : s.entries[o].last_used_tick \in TickCount
  BY <1>1, MapShape, EntryTicks
<1>3. TickCount \subseteq Nat
  BY OriginMemoryAssumption DEF TickCount
<1>4. IsFiniteSet(DOMAIN s.entries)
  BY CountCoversEntries
<1>5. QED
  BY <1>2, <1>3, <1>4 DEF Ranked, Kept

\* Places are positive numbers, in the order of use.
LEMMA PlacesInOrder ==
  ASSUME NEW M, Ranked(M)
  PROVE  /\ DOMAIN ByRecency(M) = DOMAIN M
         /\ \A o \in DOMAIN M :
              /\ ByRecency(M)[o] = Cardinality(Upto(M, o))
              /\ IsFiniteSet(Upto(M, o)) /\ Cardinality(Upto(M, o)) \in Nat
         /\ \A o, p \in DOMAIN M :
              ByRecency(M)[o] < ByRecency(M)[p] <=>
                M[o].last_used_tick > M[p].last_used_tick
<1>1. /\ DOMAIN ByRecency(M) = DOMAIN M
      /\ \A o \in DOMAIN M : ByRecency(M)[o] = Cardinality(Upto(M, o))
  BY DEF ByRecency, Upto
<1>2. \A o \in DOMAIN M : IsFiniteSet(Upto(M, o)) /\ Cardinality(Upto(M, o)) \in Nat
  <2>1. TAKE o \in DOMAIN M
  <2>2. Upto(M, o) \in SUBSET DOMAIN M
    BY DEF Upto
  <2>3. IsFiniteSet(Upto(M, o))
    BY <2>2, FS_Subset DEF Ranked
  <2>4. QED
    BY <2>3, FS_CardinalityType
<1>3. ASSUME NEW o \in DOMAIN M, NEW p \in DOMAIN M
      PROVE  ByRecency(M)[o] < ByRecency(M)[p] <=>
                M[o].last_used_tick > M[p].last_used_tick
  <2>1. M[o].last_used_tick \in Nat /\ M[p].last_used_tick \in Nat
    BY DEF Ranked
  <2>2. \A q \in DOMAIN M : M[q].last_used_tick \in Nat
    BY DEF Ranked
  <2>3. CASE M[o].last_used_tick > M[p].last_used_tick
    <3>1. Upto(M, o) \in SUBSET Upto(M, p)
      BY <2>1, <2>2, <2>3 DEF Upto
    <3>2. p \in Upto(M, p) /\ p \notin Upto(M, o)
      BY <2>1, <2>3 DEF Upto
    <3>3. /\ Cardinality(Upto(M, o)) <= Cardinality(Upto(M, p))
          /\ Cardinality(Upto(M, p)) = Cardinality(Upto(M, o)) => Upto(M, p) = Upto(M, o)
      BY <1>2, <3>1, FS_Subset
    <3>4. Cardinality(Upto(M, o)) < Cardinality(Upto(M, p))
      BY <1>2, <3>2, <3>3
    <3>5. QED
      BY <1>1, <2>3, <3>4
  <2>4. CASE ~(M[o].last_used_tick > M[p].last_used_tick)
    <3>1. Upto(M, p) \in SUBSET Upto(M, o)
      BY <2>1, <2>2, <2>4 DEF Upto
    <3>2. Cardinality(Upto(M, p)) <= Cardinality(Upto(M, o))
      BY <1>2, <3>1, FS_Subset
    <3>3. QED
      BY <1>1, <1>2, <2>4, <3>2
  <2>5. QED
    BY <2>3, <2>4
<1>4. QED
  BY <1>1, <1>2, <1>3

\* A use brings the origin to the front.
LEMMA UseComesFirst ==
  ASSUME NEW s \in Store(Profile), Kept(s), NEW o \in Origins, NEW e \in Profile,
         s.usage_tick + 1 \in TickCount, e.last_used_tick = s.usage_tick + 1,
         NEW R, R = ByRecency(s.entries)
  PROVE  ByRecency(With(s, o, e).entries) =
           [p \in DOMAIN R \cup {o} |->
              IF p = o THEN 1
              ELSE IF o \in DOMAIN R /\ R[o] < R[p] THEN R[p] ELSE R[p] + 1]
<1> DEFINE M == s.entries
           N == With(s, o, e).entries
           Place(p) == IF p = o THEN 1
                       ELSE IF o \in DOMAIN R /\ R[o] < R[p] THEN R[p] ELSE R[p] + 1
<1>1. Ranked(M)
  BY MemoryIsRanked
<1>2. Ranked(N)
  BY EntryTicks, NextTickIsFree, MemoryIsRanked
<1>3. DOMAIN N = DOMAIN M \cup {o} /\ N[o] = e /\ \A p \in DOMAIN M \ {o} : N[p] = M[p]
  BY DEF With
<1>4. DOMAIN R = DOMAIN M /\ DOMAIN ByRecency(N) = DOMAIN N
  BY <1>1, <1>2, PlacesInOrder
<1> DEFINE t == s.usage_tick
<1>5. t \in Nat /\ e.last_used_tick = t + 1
  BY OriginMemoryAssumption DEF Store, TickCount
<1>6. \A p \in DOMAIN M : M[p].last_used_tick \in Nat /\ M[p].last_used_tick <= t
  BY <1>1 DEF Ranked, Kept, Counted, TickOf
<1>7. \A p, q \in DOMAIN M : M[p].last_used_tick = M[q].last_used_tick => p = q
  BY <1>1 DEF Ranked, Distinct
<1>8. \A p \in DOMAIN M : /\ R[p] = Cardinality(Upto(M, p))
                          /\ IsFiniteSet(Upto(M, p)) /\ R[p] \in Nat
  BY <1>1, PlacesInOrder
<1>9. \A p, q \in DOMAIN M : R[p] < R[q] <=> M[p].last_used_tick > M[q].last_used_tick
  BY <1>1, PlacesInOrder
<1>10. \A p \in DOMAIN N : ByRecency(N)[p] = Cardinality(Upto(N, p))
  BY <1>2, PlacesInOrder
<1> HIDE DEF M, N, t
<1>11. Upto(N, o) = {o}
  BY <1>3, <1>5, <1>6 DEF Upto
<1>12. ByRecency(N)[o] = 1
  BY <1>3, <1>10, <1>11, FS_Singleton
<1>13. ASSUME NEW p \in DOMAIN M \ {o} PROVE ByRecency(N)[p] = Place(p)
  <2>1. Upto(N, p) = Upto(M, p) \cup {o}
    BY <1>3, <1>5, <1>6 DEF Upto
  <2>2. CASE o \in DOMAIN R /\ R[o] < R[p]
    <3>1. M[o].last_used_tick > M[p].last_used_tick
      BY <1>4, <1>9, <2>2
    <3>2. o \in Upto(M, p)
      BY <1>4, <1>6, <2>2, <3>1 DEF Upto
    <3>3. Upto(N, p) = Upto(M, p)
      BY <2>1, <3>2
    <3>4. QED
      BY <1>3, <1>8, <1>10, <2>2, <3>3
  <2>3. CASE ~(o \in DOMAIN R /\ R[o] < R[p])
    <3>1. o \notin Upto(M, p)
      BY <1>4, <1>6, <1>7, <1>9, <2>3 DEF Upto
    <3>2. Cardinality(Upto(M, p) \cup {o}) = Cardinality(Upto(M, p)) + 1
      BY <1>8, <3>1, FS_AddElement
    <3>3. QED
      BY <1>3, <1>8, <1>10, <2>1, <2>3, <3>2
  <2>4. QED
    BY <2>2, <2>3
<1>14. \A p \in DOMAIN N : ByRecency(N)[p] = Place(p)
  BY <1>3, <1>12, <1>13
<1>15. ByRecency(N) = [p \in DOMAIN N |-> ByRecency(N)[p]]
  BY <1>4 DEF ByRecency
<1> HIDE DEF Place
<1>16. ByRecency(N) = [p \in DOMAIN R \cup {o} |-> Place(p)]
  BY <1>3, <1>4, <1>14, <1>15
<1>17. QED
  BY <1>16 DEF N, Place

\* Pruning cuts the end of the list off.
LEMMA PruningTrims ==
  ASSUME NEW s \in Store(Profile), Kept(s), NEW capacity \in Nat,
         NEW R, R = ByRecency(s.entries)
  PROVE  ByRecency(Pruned(s, capacity).entries) =
           [o \in {p \in DOMAIN R : R[p] <= capacity} |-> R[o]]
<1> DEFINE M == s.entries
           S == DOMAIN M
           N == Pruned(s, capacity).entries
           Newer(o) == {p \in S : TickOf(s, p) > TickOf(s, o)}
           kept == {o \in S : Cardinality(Newer(o)) < capacity}
<1>1. Ranked(M)
  BY MemoryIsRanked
<1>2. Ranked(N)
  BY PrunedKeeps, MemoryIsRanked
<1>3. DOMAIN N = kept /\ \A p \in kept : p \in S /\ N[p] = M[p]
  <2> DEFINE m == [o \in kept |-> s.entries[o]]
  <2>1. Pruned(s, capacity) = [s EXCEPT !.entries = m]
    BY Zenon DEF Pruned, Restrict
  <2>2. DOMAIN m = kept /\ \A p \in kept : p \in S /\ m[p] = M[p]
    OBVIOUS
  <2> HIDE DEF m, kept
  <2>3. N = m
    BY <2>1 DEF Store
  <2>4. QED
    BY <2>2, <2>3
<1>4. DOMAIN R = S /\ DOMAIN ByRecency(N) = kept
  BY <1>1, <1>2, <1>3, PlacesInOrder
<1>5. \A p \in S : /\ R[p] = Cardinality(Upto(M, p))
                   /\ IsFiniteSet(Upto(M, p)) /\ R[p] \in Nat
  BY <1>1, PlacesInOrder
<1>6. \A p \in S : M[p].last_used_tick \in Nat
  BY <1>1 DEF Ranked
<1>7. \A p, q \in S : M[p].last_used_tick = M[q].last_used_tick => p = q
  BY <1>1 DEF Ranked, Distinct
<1>8. \A p, q \in S : R[p] < R[q] <=> M[p].last_used_tick > M[q].last_used_tick
  BY <1>1, PlacesInOrder
<1>9. \A p \in kept : ByRecency(N)[p] = Cardinality(Upto(N, p))
  BY <1>2, <1>3, PlacesInOrder
<1>10. \A o \in S : Newer(o) = {p \in S : M[p].last_used_tick > M[o].last_used_tick}
  BY DEF TickOf
<1>11. IsFiniteSet(S)
  BY <1>1 DEF Ranked
<1> HIDE DEF M, N
<1>12. ASSUME NEW o \in S PROVE R[o] = Cardinality(Newer(o)) + 1 /\ Cardinality(Newer(o)) \in Nat
  <2>1. Upto(M, o) = Newer(o) \cup {o} /\ o \notin Newer(o)
    BY <1>6, <1>7, <1>10 DEF Upto
  <2>2. IsFiniteSet(Newer(o))
    BY <1>11, FS_Subset
  <2>3. Cardinality(Newer(o)) \in Nat
    BY <2>2, FS_CardinalityType
  <2>4. Cardinality(Newer(o) \cup {o}) = Cardinality(Newer(o)) + 1
    BY <2>1, <2>2, FS_AddElement
  <2>5. QED
    BY <1>5, <2>1, <2>3, <2>4
<1> HIDE DEF Newer
<1>13. kept = {p \in S : R[p] <= capacity}
  BY <1>12
<1> HIDE DEF kept
<1>14. ASSUME NEW o \in kept PROVE ByRecency(N)[o] = R[o]
  <2>1. o \in S /\ R[o] <= capacity
    BY <1>13
  <2>2. \A p \in Upto(M, o) : p \in kept
    <3>1. TAKE p \in Upto(M, o)
    <3>2. p \in S /\ M[p].last_used_tick >= M[o].last_used_tick
      BY DEF Upto
    <3>3. ~(R[o] < R[p])
      BY <1>6, <1>8, <2>1, <3>2
    <3>4. R[p] <= capacity
      BY <1>5, <2>1, <3>2, <3>3
    <3>5. QED
      BY <1>13, <3>2, <3>4
  <2>3. Upto(N, o) = Upto(M, o)
    BY <1>3, <2>1, <2>2 DEF Upto
  <2>4. QED
    BY <1>5, <1>9, <2>1, <2>3
<1>15. ByRecency(N) = [p \in DOMAIN N |-> ByRecency(N)[p]]
  BY DEF ByRecency
<1>16. ByRecency(N) = [o \in kept |-> R[o]]
  BY <1>3, <1>14, <1>15
<1>17. QED
  BY <1>4, <1>13, <1>16 DEF N

\* A file that is not whole holds nothing.
TornIsEmpty == ~memory_file.whole => DOMAIN memory_file.entries = {}

\* A list of no origins is the list where nothing is listed.
LEMMA NothingIsRanked ==
  ASSUME NEW M, DOMAIN M = {}
  PROVE  ByRecency(M) = Recency!NothingListed
BY DEF ByRecency, Recency!NothingListed

\* What a crash and a start without a file leave has no entries.
LEMMA EmptyHasNoEntries == DOMAIN Empty.entries = {} /\ DOMAIN Torn.entries = {} /\ ~Torn.whole
BY DEF Empty, Torn

\* A program that starts has the list of its file.
LEMMA LoadedIsTheFile ==
  ASSUME NEW file, file.whole \/ DOMAIN file.entries = {}
  PROVE  ByRecency(Loaded(file).entries) = ByRecency(file.entries)
<1>1. CASE file.whole
  <2>1. Loaded(file) = [entries |-> file.entries, usage_tick |-> LoadedTick(file.entries)]
    BY <1>1, Zenon DEF Loaded
  <2> QED BY <2>1
<1>2. CASE ~file.whole
  <2>1. Loaded(file) = Empty
    BY <1>2, Zenon DEF Loaded
  <2> QED BY <1>2, <2>1, EmptyHasNoEntries, NothingIsRanked
<1> QED BY <1>1, <1>2

\* The start of a run uses its origin, or leaves list, file and origin alone.
LEMMA StartUses ==
  ASSUME OriginInv, MayCount, NEW o \in Origins, StartOfRun(o)
  PROVE  Recency!Use(o) \/ UNCHANGED Recency!recencyVars
<1>1. memory.usage_tick + 1 \in TickCount
  BY OriginMemoryAssumption DEF OriginInv, Store, MayCount, TickCount
<1>2. UNCHANGED memory_file
  BY DEF StartOfRun
<1>3. CASE memory' = Touched(memory, o) /\ last_used' = {o}
  <2>1. memory \in Store(Profile) /\ Kept(memory)
    BY DEF OriginInv
  <2>2. PICK e \in Profile : /\ e.last_used_tick = memory.usage_tick + 1
                             /\ Touched(memory, o) = With(memory, o, e)
    BY <1>1, <2>1, TouchedKeeps
  <2>3. ByRecency(memory'.entries) = Recency!UsedNow(o)
    BY <1>1, <1>3, <2>1, <2>2, UseComesFirst DEF Recency!UsedNow
  <2> QED BY <1>2, <1>3, <2>3 DEF Recency!Use
<1>4. CASE UNCHANGED <<memory, last_used>>
  BY <1>2, <1>4 DEF Recency!recencyVars
<1> QED BY <1>3, <1>4 DEF StartOfRun

\* A note uses its origin and saves the list.
LEMMA NoteSaves ==
  ASSUME OriginInv, MayCount, NEW o \in Origins, NEW what \in SUBSET Learned,
         NEW hint \in Hint, Note(o, what, hint)
  PROVE  Recency!UseAndSave(o) /\ memory_file'.whole
<1>1. memory.usage_tick + 1 \in TickCount
  BY OriginMemoryAssumption DEF OriginInv, Store, MayCount, TickCount
<1>2. memory \in Store(Profile) /\ Kept(memory) /\ memory' = Noted(memory, o, what, hint)
  BY DEF OriginInv, Note
<1>3. PICK e \in Profile :
        /\ e.last_used_tick = memory.usage_tick + 1
        /\ memory' = Pruned(With(memory, o, e), OriginMemoryCapacity)
  BY <1>1, <1>2, NotedKeeps
<1> DEFINE m == With(memory, o, e)
<1>4. m \in Store(Profile) /\ Kept(m)
  BY <1>1, <1>2, <1>3, EntryTicks, NextTickIsFree
<1>5. ByRecency(m.entries) = Recency!UsedNow(o)
  BY <1>1, <1>2, <1>3, UseComesFirst DEF Recency!UsedNow
<1> HIDE DEF m
<1>6. ByRecency(Pruned(m, OriginMemoryCapacity).entries) = Recency!Trimmed(ByRecency(m.entries))
  BY <1>4, PruningTrims, OriginMemoryAssumption DEF Recency!Trimmed
<1>7. ByRecency(memory'.entries) = Recency!Trimmed(Recency!UsedNow(o))
  BY <1>3, <1>5, <1>6 DEF m
<1>8. memory_file' = [whole |-> TRUE, entries |-> memory'.entries] /\ last_used' = {o}
  BY DEF Note, Written
<1>9. memory_file'.whole /\ memory_file'.entries = memory'.entries
  BY <1>8
<1> QED BY <1>7, <1>8, <1>9 DEF Recency!UseAndSave

\* Every step of the stores is a step of the list, or none, and leaves no
\* entries in half a file.
LEMMA ListStep ==
  ASSUME OriginInv, TornIsEmpty, [OriginMemoryNext]_originVars
  PROVE  TornIsEmpty' /\ [Recency!RecencyNext]_(Recency!recencyVars)
<1>1. ASSUME MayCount, NEW o \in Origins, StartOfRun(o)
      PROVE  TornIsEmpty' /\ [Recency!RecencyNext]_(Recency!recencyVars)
  <2>1. UNCHANGED memory_file
    BY <1>1 DEF StartOfRun
  <2> QED BY <1>1, <2>1, StartUses DEF Recency!RecencyNext, TornIsEmpty
<1>2. ASSUME NEW o \in Origins, LookUpTuning(o)
      PROVE  TornIsEmpty' /\ [Recency!RecencyNext]_(Recency!recencyVars)
  BY <1>2 DEF LookUpTuning, TornIsEmpty, Recency!recencyVars
<1>3. ASSUME MayCount, NEW o \in Origins, NEW what \in SUBSET Learned, NEW hint \in Hint,
             Note(o, what, hint)
      PROVE  TornIsEmpty' /\ [Recency!RecencyNext]_(Recency!recencyVars)
  BY <1>3, NoteSaves DEF TornIsEmpty, Recency!RecencyNext
<1>4. ASSUME MayCount, NEW o \in Origins, NoteAnswer(o) \/ LearnRatio(o) \/ EndOfRun(o)
      PROVE  \E what \in SUBSET Learned, hint \in Hint : Note(o, what, hint)
  <2>1. CASE NoteAnswer(o)
    BY <2>1, HintIsAHint DEF NoteAnswer, Learned, Hint
  <2>2. CASE LearnRatio(o)
    BY <2>2, HintIsAHint DEF LearnRatio, Learned
  <2>3. CASE EndOfRun(o)
    <3>1. PICK http2 \in BOOLEAN :
            Note(o, IF http2 THEN {"h2_tuning"} ELSE {},
                 IF HintOf(o) = "Http3" THEN "Http3" ELSE "Used")
      BY <2>3 DEF EndOfRun
    <3>2. /\ (IF http2 THEN {"h2_tuning"} ELSE {}) \in SUBSET Learned
          /\ (IF HintOf(o) = "Http3" THEN "Http3" ELSE "Used") \in Hint
      BY DEF Learned, Hint
    <3> QED BY <3>1, <3>2
  <2> QED BY <1>4, <2>1, <2>2, <2>3
<1>5. CASE RestartEngine
  <2>1. memory' = Loaded(memory_file) /\ last_used' = {} /\ UNCHANGED memory_file
    BY <1>5 DEF RestartEngine, NewEngine
  <2>2. ByRecency(memory'.entries) = ByRecency(memory_file.entries)
    BY <2>1, LoadedIsTheFile DEF TornIsEmpty
  <2> QED BY <2>1, <2>2 DEF TornIsEmpty, Recency!RecencyNext, Recency!Restart
<1>6. CASE CrashInPersist
  <2>1. memory' = Loaded(Torn) /\ last_used' = {} /\ memory_file' = Torn
    BY <1>6 DEF CrashInPersist, NewEngine
  <2>2. /\ ByRecency(memory'.entries) = Recency!NothingListed
        /\ ByRecency(memory_file'.entries) = Recency!NothingListed
    BY <2>1, EmptyHasNoEntries, LoadedIsTheFile, NothingIsRanked
  <2> QED BY <2>1, <2>2, EmptyHasNoEntries
        DEF TornIsEmpty, Recency!RecencyNext, Recency!RestartFromNothing
<1>7. CASE UNCHANGED originVars
  BY <1>7 DEF originVars, TornIsEmpty, Recency!recencyVars
<1> QED BY <1>1, <1>2, <1>3, <1>4, <1>5, <1>6, <1>7 DEF OriginMemoryNext

\* The memory of origins, with its ticks, its file and any order of notes,
\* lookups, crashes and restarts, is a list of the origins by their last use,
\* from which only the oldest fall, and the file is that list as it last was
\* saved: for any origins and any capacity (OriginMemoryStore).
THEOREM MemoryIsARecencyList == OriginMemorySpec => ImplementsRecencyList
<1>1. OriginMemoryInit => OriginInv /\ TornIsEmpty /\ Recency!RecencyInit
  <2> SUFFICES ASSUME OriginMemoryInit PROVE OriginInv /\ TornIsEmpty /\ Recency!RecencyInit
    OBVIOUS
  <2>1. OriginInv
    BY OriginInitHolds
  <2>2. memory = Empty /\ memory_file = [whole |-> TRUE, entries |-> Empty.entries] /\ last_used = {}
    BY DEF OriginMemoryInit, Written
  <2>3. memory_file.whole /\ memory_file.entries = Empty.entries
    BY <2>2
  <2> QED BY <2>1, <2>2, <2>3, EmptyHasNoEntries, NothingIsRanked
        DEF TornIsEmpty, Recency!RecencyInit
<1>2. OriginInv /\ TornIsEmpty /\ [OriginMemoryNext]_originVars
      => OriginInv' /\ TornIsEmpty' /\ [Recency!RecencyNext]_(Recency!recencyVars)
  BY OriginStepHolds, ListStep
<1> QED BY <1>1, <1>2, PTL DEF OriginMemorySpec, ImplementsRecencyList, Recency!RecencySpec
-----------------------------------------------------------------------------
(* What the stores hold *)

\* One origin at most was the last.
LastIsOne == last_used = {} \/ \E o \in Origins : last_used = {o}

\* The stores hold what stores may hold, for any number of origins, and the
\* history names one of them.
THEOREM OriginTypesAreCorrect == OriginMemorySpec => []OriginMemoryTypeOK
<1>1. OriginMemoryInit => OriginInv /\ LastIsOne
  BY OriginInitHolds DEF OriginMemoryInit, LastIsOne
<1>2. OriginInv /\ LastIsOne /\ [OriginMemoryNext]_originVars => OriginInv' /\ LastIsOne'
  <2> SUFFICES ASSUME OriginInv, LastIsOne, [OriginMemoryNext]_originVars PROVE LastIsOne'
    BY OriginStepHolds
  <2>1. \/ UNCHANGED last_used \/ last_used' = {}
        \/ \E o \in Origins : last_used' = {o}
    <3>1. ASSUME NEW o \in Origins, StartOfRun(o) PROVE UNCHANGED last_used \/ last_used' = {o}
      BY <3>1 DEF StartOfRun
    <3>2. ASSUME NEW o \in Origins, LookUpTuning(o) PROVE UNCHANGED last_used
      BY <3>2 DEF LookUpTuning
    <3>3. ASSUME NEW o \in Origins, NoteAnswer(o) \/ LearnRatio(o) \/ EndOfRun(o)
          PROVE  last_used' = {o}
      BY <3>3 DEF NoteAnswer, LearnRatio, EndOfRun, Note
    <3>4. CASE RestartEngine \/ CrashInPersist
      BY <3>4 DEF RestartEngine, CrashInPersist, NewEngine
    <3>5. CASE UNCHANGED originVars
      BY <3>5 DEF originVars
    <3> QED BY <3>1, <3>2, <3>3, <3>4, <3>5 DEF OriginMemoryNext
  <2> QED BY <2>1 DEF LastIsOne
<1>3. OriginInv /\ LastIsOne => OriginMemoryTypeOK
  <2> SUFFICES ASSUME OriginInv, LastIsOne PROVE OriginMemoryTypeOK
    OBVIOUS
  <2>1. ASSUME NEW E, NEW m \in Map(E) PROVE IsMap(m, E)
    BY <2>1, MapShape DEF IsMap, Range
  <2>2. ASSUME NEW E, NEW s \in Store(E) PROVE IsStore(s, E)
    BY <2>1 DEF IsStore, Store
  <2>3. last_used \subseteq Origins /\ Cardinality(last_used) <= 1
    BY FS_EmptySet, FS_Singleton DEF LastIsOne
  <2>4. memory_file.whole \in BOOLEAN /\ IsMap(memory_file.entries, Profile)
    BY <2>1 DEF OriginInv, File
  <2> QED BY <2>2, <2>3, <2>4 DEF OriginInv, OriginMemoryTypeOK
<1> QED BY <1>1, <1>2, <1>3, PTL DEF OriginMemorySpec
-----------------------------------------------------------------------------
(* The streams captured *)

Tab == [page : Page, show_noise : BOOLEAN, streams : Seq(Stream)]

Shapes ==
  /\ tabs \in Seq(Tab)
  /\ probes \in [StreamId -> Nat]

CaptureInv == Shapes /\ ProbingIsProbed

-----------------------------------------------------------------------------
(* Lists of streams *)

\* A function on the first n numbers is a sequence.
LEMMA FunctionIsSeq ==
  ASSUME NEW S, NEW n \in Nat, NEW f \in [1..n -> S]
  PROVE  f \in Seq(S)
BY SeqDef

\* A stream that is listed stands at a place of some tab.
LEMMA StreamHasPlace ==
  \A s : s \in AllStreams <=>
           \E t \in DOMAIN tabs : \E i \in DOMAIN tabs[t].streams : s = tabs[t].streams[i]
BY DEF AllStreams, StreamsOf, Range

\* The places of the list and what stands there.
LEMMA Places ==
  ASSUME Shapes
  PROVE  /\ \A t \in DOMAIN tabs : tabs[t] \in Tab
         /\ DOMAIN tabs = 1..Len(tabs) /\ Len(tabs) \in Nat
         /\ \A t \in DOMAIN tabs :
              /\ DOMAIN tabs[t].streams = 1..Len(tabs[t].streams)
              /\ Len(tabs[t].streams) \in Nat
              /\ \A i \in DOMAIN tabs[t].streams : tabs[t].streams[i] \in Stream
         /\ AllStreams \subseteq Stream
<1>1. DOMAIN tabs = 1..Len(tabs) /\ Len(tabs) \in Nat
  BY LenProperties DEF Shapes
<1>2. \A t \in DOMAIN tabs : tabs[t] \in Tab
  BY <1>1, ElementOfSeq DEF Shapes
<1>3. ASSUME NEW t \in DOMAIN tabs
      PROVE  /\ DOMAIN tabs[t].streams = 1..Len(tabs[t].streams)
             /\ Len(tabs[t].streams) \in Nat
             /\ \A i \in DOMAIN tabs[t].streams : tabs[t].streams[i] \in Stream
  <2>1. tabs[t].streams \in Seq(Stream)
    BY <1>2, <1>3 DEF Tab
  <2> QED BY <2>1, LenProperties, ElementOfSeq
<1>4. AllStreams \subseteq Stream
  BY <1>3, StreamHasPlace
<1> QED BY <1>1, <1>2, <1>3, <1>4

\* The list keeps its shape when other streams stand in one of its tabs.
LEMMA TabReplaced ==
  ASSUME Shapes, NEW list, list \in [DOMAIN tabs -> Tab]
  PROVE  list \in Seq(Tab)
BY Places, FunctionIsSeq

\* One more probe.
LEMMA ProbeCounts ==
  ASSUME Shapes, NEW id \in StreamId, Probe(id)
  PROVE  /\ probes' \in [StreamId -> Nat]
         /\ probes'[id] > 0
         /\ \A j \in StreamId : probes'[j] >= probes[j]
BY DEF Shapes, Probe

-----------------------------------------------------------------------------
(* One lemma per kind of step *)

\* A list of the same streams, and no fewer probes, are as good.
LEMMA SameStreams ==
  ASSUME CaptureInv, AllStreams' \subseteq AllStreams,
         \A j \in StreamId : probes'[j] >= probes[j],
         probes' \in [StreamId -> Nat], panics \subseteq panics'
  PROVE  ProbingIsProbed'
<1> SUFFICES ASSUME NEW s \in AllStreams', s.probe_state = "Probing"
             PROVE  probes'[s.stream_id] > 0 \/ s.stream_id \in panics'
  BY DEF ProbingIsProbed
<1>1. s \in Stream /\ s \in AllStreams
  BY Places DEF CaptureInv
<1>2. s.stream_id \in StreamId /\ (probes[s.stream_id] > 0 \/ s.stream_id \in panics)
  BY <1>1 DEF CaptureInv, ProbingIsProbed, Stream
<1> QED BY <1>2 DEF CaptureInv, Shapes

\* A report of a known stream: where its state becomes "Probing", a probe begins.
LEMMA UpdateKeeps ==
  ASSUME CaptureInv, NEW c \in Captures, NEW t \in DOMAIN tabs,
         NEW i \in DOMAIN tabs[t].streams, Update(t, i, c), UNCHANGED panics
  PROVE  CaptureInv'
<1> DEFINE s == tabs[t].streams[i]
           again == c.manifest /\ s.probe_state # "Done"
           new == [s EXCEPT !.url = c.url, !.manifest = @ \/ again,
                            !.probe_state = IF again THEN "Probing" ELSE @]
           old == tabs[t].streams
<1>1. s \in Stream /\ s \in AllStreams /\ tabs[t] \in Tab /\ old \in Seq(Stream)
  BY Places, StreamHasPlace DEF CaptureInv, Tab
<1>2. c.url \in Url /\ c.manifest \in BOOLEAN
  BY CaptureAssumption DEF Capture, Url
<1>3. new \in Stream /\ new.stream_id = s.stream_id
      /\ new.probe_state = IF again THEN "Probing" ELSE s.probe_state
  BY <1>1, <1>2 DEF Stream, ProbeState
<1>4. tabs' = [tabs EXCEPT ![t].streams[i] = new]
  BY DEF Update
<1>5. tabs' = [tabs EXCEPT ![t] = [tabs[t] EXCEPT !.streams = [old EXCEPT ![i] = new]]]
  BY <1>4
<1> HIDE DEF new
<1>6. [old EXCEPT ![i] = new] \in Seq(Stream)
  BY <1>1, <1>3, ExceptSeq, LenProperties
<1>7. tabs' \in [DOMAIN tabs -> Tab]
  BY <1>1, <1>5, <1>6, Places DEF Tab, CaptureInv
<1>8. tabs' \in Seq(Tab)
  BY <1>7, TabReplaced DEF CaptureInv
<1>9. AllStreams' \subseteq AllStreams \cup {new}
  <2> SUFFICES ASSUME NEW r \in AllStreams'
               PROVE  r \in AllStreams \cup {new}
    OBVIOUS
  <2>1. PICK u \in DOMAIN tabs' : \E j \in DOMAIN tabs'[u].streams : r = tabs'[u].streams[j]
    BY DEF AllStreams, StreamsOf, Range
  <2>2. PICK j \in DOMAIN tabs'[u].streams : r = tabs'[u].streams[j]
    BY <2>1
  <2>3. CASE u = t
    <3>1. tabs'[u].streams = [old EXCEPT ![i] = new]
      BY <2>1, <2>3, <1>1, <1>5 DEF Tab
    <3>2. r = new \/ (r = old[j] /\ j \in DOMAIN old)
      BY <2>2, <3>1
    <3> QED BY <3>2, StreamHasPlace
  <2>4. CASE u # t
    <3>1. tabs'[u] = tabs[u] /\ u \in DOMAIN tabs
      BY <2>1, <2>4, <1>5
    <3> QED BY <3>1, <2>2, StreamHasPlace
  <2> QED BY <2>3, <2>4
<1>10. s.stream_id \in StreamId
  BY <1>1 DEF Stream
<1>11. again => ProbedAgain(s.stream_id)
  BY DEF Update
<1>12. ~again => UNCHANGED probes
  BY DEF Update
<1>13. /\ probes' \in [StreamId -> Nat]
       /\ \A j \in StreamId : probes'[j] >= probes[j]
       /\ again => probes'[s.stream_id] > 0
  <2>1. CASE again
    BY <2>1, <1>10, <1>11, ProbeCounts DEF ProbedAgain, CaptureInv
  <2>2. CASE ~again
    BY <2>2, <1>12 DEF CaptureInv, Shapes
  <2> QED BY <2>1, <2>2
<1>14. ASSUME NEW r \in AllStreams', r.probe_state = "Probing"
       PROVE  probes'[r.stream_id] > 0 \/ r.stream_id \in panics'
  <2>1. CASE r = new /\ again
    BY <2>1, <1>3, <1>13
  <2>2. CASE r = new /\ ~again
    <3>1. s.probe_state = "Probing" /\ r.stream_id = s.stream_id
      BY <2>2, <1>3, <1>14
    <3>2. probes[s.stream_id] > 0 \/ s.stream_id \in panics
      BY <3>1, <1>1 DEF CaptureInv, ProbingIsProbed
    <3> QED BY <3>1, <3>2, <1>10, <1>13 DEF CaptureInv, Shapes
  <2>3. CASE r # new
    <3>1. r \in AllStreams /\ r \in Stream
      BY <2>3, <1>9, <1>14, Places DEF CaptureInv
    <3>2. r.stream_id \in StreamId /\ (probes[r.stream_id] > 0 \/ r.stream_id \in panics)
      BY <3>1, <1>14 DEF CaptureInv, ProbingIsProbed, Stream
    <3> QED BY <3>2, <1>13 DEF CaptureInv, Shapes
  <2> QED BY <2>1, <2>2, <2>3
<1> QED BY <1>8, <1>13, <1>14 DEF CaptureInv, Shapes, ProbingIsProbed

\* A new stream: it is the only one that was not listed before, and the probes
\* of the others go on.
LEMMA InsertKeeps ==
  ASSUME CaptureInv, NEW c \in Captures, NEW state \in ProbeState, Insert(c, state),
         probes' \in [StreamId -> Nat],
         \A j \in StreamId : probes'[j] >= probes[j], UNCHANGED panics,
         state = "Probing" => probes'[next_stream_id] > 0
  PROVE  CaptureInv'
<1> DEFINE new == NewStream(c, state)
<1>1. c \in Capture /\ c.url \in Url /\ c.page \in Page
  BY CaptureAssumption DEF Capture, Url, Page
<1>2. new \in Stream /\ new.stream_id = next_stream_id /\ new.probe_state = state
  BY <1>1 DEF NewStream, Stream, Insert, Capture
<1>3. new.stream_id \in StreamId
  BY <1>2 DEF Stream
<1> HIDE DEF new
<1>4. tabs' \in Seq(Tab) /\ AllStreams' \subseteq AllStreams \cup {new}
  <2>1. CASE TabOf(c.page) = {}
    <3> DEFINE tab == NewTab(c.page, <<new>>)
    <3>1. tabs' = Append(tabs, tab)
      BY <2>1 DEF Insert, new
    <3>2. tab \in Tab /\ tab.streams = <<new>>
      BY <1>1, <1>2 DEF NewTab, Tab
    <3> HIDE DEF tab
    <3>3. /\ tabs' \in Seq(Tab) /\ Len(tabs') = Len(tabs) + 1
          /\ \A t \in 1..Len(tabs) : tabs'[t] = tabs[t]
          /\ tabs'[Len(tabs) + 1] = tab
      BY <3>1, <3>2, AppendProperties DEF CaptureInv, Shapes
    <3>4. DOMAIN tabs' = 1..(Len(tabs) + 1) /\ DOMAIN tabs = 1..Len(tabs) /\ Len(tabs) \in Nat
      BY <3>3, LenProperties, Places DEF CaptureInv
    <3>5. ASSUME NEW r \in AllStreams'
          PROVE  r \in AllStreams \cup {new}
      <4>1. PICK t \in DOMAIN tabs' : \E i \in DOMAIN tabs'[t].streams : r = tabs'[t].streams[i]
        BY <3>5 DEF AllStreams, StreamsOf, Range
      <4>2. CASE t = Len(tabs) + 1
        BY <4>1, <4>2, <3>2, <3>3
      <4>3. CASE t # Len(tabs) + 1
        <5>1. t \in DOMAIN tabs /\ tabs'[t] = tabs[t]
          BY <4>1, <4>3, <3>3, <3>4
        <5> QED BY <5>1, <4>1, StreamHasPlace
      <4> QED BY <4>2, <4>3
    <3> QED BY <3>3, <3>5
  <2>2. CASE TabOf(c.page) # {}
    <3>1. tabs' = [t \in DOMAIN tabs |->
                     IF t \in TabOf(c.page)
                     THEN [tabs[t] EXCEPT !.streams = Append(tabs[t].streams, new)]
                     ELSE tabs[t]]
      BY <2>2 DEF Insert, new
    <3>2. ASSUME NEW t \in DOMAIN tabs
          PROVE  /\ tabs[t] \in Tab /\ tabs[t].streams \in Seq(Stream)
                 /\ Append(tabs[t].streams, new) \in Seq(Stream)
                 /\ \A i \in DOMAIN Append(tabs[t].streams, new) :
                      \/ Append(tabs[t].streams, new)[i] = new
                      \/ /\ i \in DOMAIN tabs[t].streams
                         /\ Append(tabs[t].streams, new)[i] = tabs[t].streams[i]
      <4>1. tabs[t] \in Tab /\ tabs[t].streams \in Seq(Stream)
        BY Places DEF CaptureInv, Tab
      <4>2. /\ Append(tabs[t].streams, new) \in Seq(Stream)
            /\ Len(Append(tabs[t].streams, new)) = Len(tabs[t].streams) + 1
            /\ \A i \in 1..Len(tabs[t].streams) :
                 Append(tabs[t].streams, new)[i] = tabs[t].streams[i]
            /\ Append(tabs[t].streams, new)[Len(tabs[t].streams) + 1] = new
        BY <4>1, <1>2, AppendProperties
      <4>3. /\ DOMAIN Append(tabs[t].streams, new) = 1..(Len(tabs[t].streams) + 1)
            /\ DOMAIN tabs[t].streams = 1..Len(tabs[t].streams)
            /\ Len(tabs[t].streams) \in Nat
        BY <4>1, <4>2, LenProperties
      <4> QED BY <4>1, <4>2, <4>3
    <3>3. tabs' \in [DOMAIN tabs -> Tab]
      BY <3>1, <3>2 DEF Tab
    <3>4. tabs' \in Seq(Tab)
      BY <3>3, TabReplaced DEF CaptureInv
    <3>5. ASSUME NEW r \in AllStreams'
          PROVE  r \in AllStreams \cup {new}
      <4>1. PICK t \in DOMAIN tabs' : \E i \in DOMAIN tabs'[t].streams : r = tabs'[t].streams[i]
        BY <3>5 DEF AllStreams, StreamsOf, Range
      <4>2. PICK i \in DOMAIN tabs'[t].streams : r = tabs'[t].streams[i]
        BY <4>1
      <4>3. t \in DOMAIN tabs
        BY <4>1, <3>1
      <4>4. CASE t \in TabOf(c.page)
        <5>1. tabs'[t].streams = Append(tabs[t].streams, new)
          BY <4>3, <4>4, <3>1, <3>2 DEF Tab
        <5>2. r = new \/ (i \in DOMAIN tabs[t].streams /\ r = tabs[t].streams[i])
          BY <5>1, <4>2, <4>3, <3>2
        <5> QED BY <5>2, <4>3, StreamHasPlace
      <4>5. CASE t \notin TabOf(c.page)
        BY <4>2, <4>3, <4>5, <3>1, StreamHasPlace
      <4> QED BY <4>4, <4>5
    <3> QED BY <3>4, <3>5
  <2> QED BY <2>1, <2>2
<1>5. ASSUME NEW r \in AllStreams', r.probe_state = "Probing"
      PROVE  probes'[r.stream_id] > 0 \/ r.stream_id \in panics'
  <2>1. CASE r = new
    BY <2>1, <1>2, <1>5
  <2>2. CASE r # new
    <3>1. r \in AllStreams /\ r \in Stream
      BY <2>2, <1>4, <1>5, Places DEF CaptureInv
    <3>2. r.stream_id \in StreamId /\ (probes[r.stream_id] > 0 \/ r.stream_id \in panics)
      BY <3>1, <1>5 DEF CaptureInv, ProbingIsProbed, Stream
    <3> QED BY <3>2 DEF CaptureInv, Shapes
  <2> QED BY <2>1, <2>2
<1> QED BY <1>4, <1>5 DEF CaptureInv, Shapes, ProbingIsProbed

\* The end of a probe: no stream of its id is "Probing" any more, the streams of
\* other ids are as before.
LEMMA EndProbeKeeps ==
  ASSUME CaptureInv, NEW id \in StreamId, EndProbe(id)
  PROVE  CaptureInv'
<1>1. PICK state \in {"Done", "Failed"}, format \in Found \cup {FormatOf(id)} :
        tabs' = Judged(id, state, format)
  BY DEF EndProbe
<1>2. probes' = [probes EXCEPT ![id] = @ - 1] /\ probes[id] > 0 /\ UNCHANGED panics
  BY DEF EndProbe
<1>3. probes' \in [StreamId -> Nat] /\ \A j \in StreamId : j # id => probes'[j] = probes[j]
  BY <1>2 DEF CaptureInv, Shapes
<1> DEFINE verdict(s) == IF s.stream_id = id
                         THEN [s EXCEPT !.probe_state = state, !.format = format]
                         ELSE s
<1>4. \A s \in AllStreams : verdict(s) \in Stream
  <2> SUFFICES ASSUME NEW s \in AllStreams PROVE verdict(s) \in Stream
    OBVIOUS
  <2>1. s \in Stream
    BY Places DEF CaptureInv
  <2>2. CASE s.stream_id = id
    <3>1. format \in Format
      <4>1. CASE format \in Found
        BY <4>1, CaptureAssumption DEF FoundFormat, Format
      <4>2. CASE format = FormatOf(id)
        <5>1. \E r \in AllStreams : r.stream_id = id
          BY <2>2
        <5>2. (CHOOSE r \in AllStreams : r.stream_id = id) \in AllStreams
          BY <5>1
        <5> QED BY <5>2, <4>2, Places DEF FormatOf, CaptureInv, Stream
      <4> QED BY <4>1, <4>2, <1>1
    <3> QED BY <3>1, <2>1, <2>2 DEF Stream, ProbeState
  <2> QED BY <2>1, <2>2
<1>5. ASSUME NEW t \in DOMAIN tabs
      PROVE  /\ tabs'[t] \in Tab
             /\ DOMAIN tabs'[t].streams = DOMAIN tabs[t].streams
             /\ \A i \in DOMAIN tabs[t].streams :
                  tabs'[t].streams[i] = verdict(tabs[t].streams[i])
  <2> DEFINE list == [i \in DOMAIN tabs[t].streams |-> verdict(tabs[t].streams[i])]
  <2>1. tabs'[t] = [tabs[t] EXCEPT !.streams = list]
    BY <1>1 DEF Judged
  <2>2. \A i \in DOMAIN tabs[t].streams : tabs[t].streams[i] \in AllStreams
    BY StreamHasPlace
  <2>3. list \in [1..Len(tabs[t].streams) -> Stream] /\ Len(tabs[t].streams) \in Nat
    BY <2>2, <1>4, Places DEF CaptureInv
  <2>4. list \in Seq(Stream) /\ DOMAIN list = DOMAIN tabs[t].streams
    BY <2>3, FunctionIsSeq
  <2>5. \A i \in DOMAIN tabs[t].streams : list[i] = verdict(tabs[t].streams[i])
    OBVIOUS
  <2> HIDE DEF list
  <2>6. tabs[t] \in Tab
    BY Places DEF CaptureInv
  <2>7. tabs'[t] \in Tab /\ tabs'[t].streams = list
    BY <2>1, <2>4, <2>6 DEF Tab
  <2> QED BY <2>4, <2>5, <2>7
<1>6. tabs' \in [DOMAIN tabs -> Tab] /\ DOMAIN tabs' = DOMAIN tabs
  <2>1. DOMAIN tabs' = DOMAIN tabs /\ tabs' = [t \in DOMAIN tabs |-> tabs'[t]]
    BY <1>1 DEF Judged
  <2> QED BY <2>1, <1>5
<1>7. tabs' \in Seq(Tab)
  BY <1>6, TabReplaced DEF CaptureInv
<1>8. ASSUME NEW r \in AllStreams', r.probe_state = "Probing"
      PROVE  probes'[r.stream_id] > 0 \/ r.stream_id \in panics'
  <2>1. PICK t \in DOMAIN tabs' : \E i \in DOMAIN tabs'[t].streams : r = tabs'[t].streams[i]
    BY <1>8 DEF AllStreams, StreamsOf, Range
  <2>2. PICK i \in DOMAIN tabs'[t].streams : r = tabs'[t].streams[i]
    BY <2>1
  <2> DEFINE s == tabs[t].streams[i]
  <2>3. t \in DOMAIN tabs /\ i \in DOMAIN tabs[t].streams /\ r = verdict(s)
    BY <2>1, <2>2, <1>5, <1>6
  <2>4. s \in AllStreams /\ s \in Stream
    BY <2>3, StreamHasPlace, Places DEF CaptureInv
  <2>5. s.stream_id # id
    BY <2>3, <2>4, <1>8 DEF Stream
  <2>6. r = s
    BY <2>3, <2>5
  <2>7. s.stream_id \in StreamId /\ (probes[s.stream_id] > 0 \/ s.stream_id \in panics)
    BY <2>4, <2>6, <1>8 DEF CaptureInv, ProbingIsProbed, Stream
  <2> QED BY <2>5, <2>6, <2>7, <1>2, <1>3
<1> QED BY <1>3, <1>7, <1>8 DEF CaptureInv, Shapes, ProbingIsProbed

\* A probe that panics: the streams of its id are among the panicked.
LEMMA PanicProbeKeeps ==
  ASSUME CaptureInv, NEW id \in StreamId, PanicProbe(id)
  PROVE  CaptureInv'
<1>1. /\ probes' = [probes EXCEPT ![id] = @ - 1] /\ probes[id] > 0
      /\ panics' = panics \cup {id} /\ UNCHANGED tabs
  BY DEF PanicProbe
<1>2. probes' \in [StreamId -> Nat] /\ \A j \in StreamId : j # id => probes'[j] = probes[j]
  BY <1>1 DEF CaptureInv, Shapes
<1>3. ASSUME NEW r \in AllStreams', r.probe_state = "Probing"
      PROVE  probes'[r.stream_id] > 0 \/ r.stream_id \in panics'
  <2>1. r \in AllStreams /\ r \in Stream
    BY <1>1, <1>3, Places DEF CaptureInv, AllStreams
  <2>2. r.stream_id \in StreamId /\ (probes[r.stream_id] > 0 \/ r.stream_id \in panics)
    BY <2>1, <1>3 DEF CaptureInv, ProbingIsProbed, Stream
  <2> QED BY <2>2, <1>1, <1>2
<1> QED BY <1>1, <1>2, <1>3 DEF CaptureInv, Shapes, ProbingIsProbed

\* Showing or hiding noise changes no stream.
LEMMA ToggleNoiseKeeps ==
  ASSUME CaptureInv, ToggleNoise
  PROVE  CaptureInv'
<1> DEFINE t == selected.tab
           tab == [tabs[t] EXCEPT !.show_noise = ~@]
<1>1. tabs' = [tabs EXCEPT ![t] = tab] /\ UNCHANGED <<probes, panics>>
  BY DEF ToggleNoise
<1>2. t \in DOMAIN tabs => tabs[t] \in Tab
  BY Places DEF CaptureInv
<1>3. t \in DOMAIN tabs => tab \in Tab /\ tab.streams = tabs[t].streams
  BY <1>2 DEF Tab
<1> HIDE DEF tab
<1>4. tabs' \in [DOMAIN tabs -> Tab]
  BY <1>1, <1>3, Places DEF CaptureInv
<1>5. tabs' \in Seq(Tab)
  BY <1>4, TabReplaced DEF CaptureInv
<1>6. ASSUME NEW r \in AllStreams'
      PROVE  r \in AllStreams
  <2>1. PICK u \in DOMAIN tabs' : \E i \in DOMAIN tabs'[u].streams : r = tabs'[u].streams[i]
    BY <1>6 DEF AllStreams, StreamsOf, Range
  <2>2. u \in DOMAIN tabs /\ tabs'[u].streams = tabs[u].streams
    BY <2>1, <1>1, <1>3
  <2> QED BY <2>1, <2>2, StreamHasPlace
<1>7. probes' \in [StreamId -> Nat] /\ \A j \in StreamId : probes'[j] >= probes[j]
  BY <1>1 DEF CaptureInv, Shapes
<1>8. ProbingIsProbed'
  BY <1>1, <1>6, <1>7, SameStreams
<1> QED BY <1>5, <1>7, <1>8 DEF CaptureInv, Shapes
-----------------------------------------------------------------------------
\* At the start nothing is listed.
LEMMA CaptureStarts == CaptureInit => CaptureInv
<1> SUFFICES ASSUME CaptureInit PROVE CaptureInv
  OBVIOUS
<1>1. tabs = <<>> /\ probes \in [StreamId -> Nat]
  BY DEF CaptureInit
<1>2. tabs \in Seq(Tab) /\ AllStreams = {}
  BY <1>1, EmptySeq DEF AllStreams
<1> QED BY <1>1, <1>2 DEF CaptureInv, Shapes, ProbingIsProbed

\* Steps that leave the list alone and take no probe away.
LEMMA ListKept ==
  ASSUME CaptureInv, UNCHANGED tabs, probes' \in [StreamId -> Nat],
         \A j \in StreamId : probes'[j] >= probes[j], UNCHANGED panics
  PROVE  CaptureInv'
<1>1. AllStreams' = AllStreams
  BY DEF AllStreams
<1>2. ProbingIsProbed'
  BY <1>1, SameStreams
<1> QED BY <1>2 DEF CaptureInv, Shapes

\* The same where probes are left alone as well.
LEMMA NothingKept ==
  ASSUME CaptureInv, UNCHANGED <<tabs, probes, panics>>
  PROVE  CaptureInv'
BY ListKept DEF CaptureInv, Shapes

\* Every step keeps the invariant.
LEMMA CaptureKept == CaptureInv /\ [CaptureNext]_captureVars => CaptureInv'
<1> SUFFICES ASSUME CaptureInv, [CaptureNext]_captureVars PROVE CaptureInv'
  OBVIOUS
<1>1. ASSUME NEW c \in Captures, AddStream(c) PROVE CaptureInv'
  <2>3. UNCHANGED panics
    BY <1>1 DEF AddStream
  <2>1. CASE \E t \in TabOf(c.page) : \E i \in Known(t, c) : Update(t, i, c)
    <3>1. PICK t \in TabOf(c.page) : \E i \in Known(t, c) : Update(t, i, c)
      BY <2>1
    <3>2. PICK i \in Known(t, c) : Update(t, i, c)
      BY <3>1
    <3>3. t \in DOMAIN tabs /\ i \in DOMAIN tabs[t].streams
      BY <3>1, <3>2 DEF TabOf, Known
    <3> QED BY <2>3, <3>2, <3>3, UpdateKeeps
  <2>2. CASE Insert(c, "Probing") /\ Probe(next_stream_id)
    <3>1. next_stream_id \in StreamId
      BY <2>2 DEF Insert
    <3> QED BY <2>2, <2>3, <3>1, ProbeCounts, InsertKeeps DEF CaptureInv, ProbeState
  <2> QED BY <1>1, <2>1, <2>2 DEF AddStream
<1>2. ASSUME NEW c \in Captures, AddFormats(c) PROVE CaptureInv'
  BY <1>2, InsertKeeps DEF AddFormats, CaptureInv, Shapes, ProbeState
<1>3. ASSUME NEW id \in StreamId, EndProbe(id) \/ PanicProbe(id) PROVE CaptureInv'
  BY <1>3, EndProbeKeeps, PanicProbeKeeps
<1>4. CASE ToggleNoise
  BY <1>4, ToggleNoiseKeeps
<1>5. CASE Enter
  <2>1. PICK s \in SelectedStream :
          UNCHANGED probes \/ (s.probe_state # "Done" /\ Probe(s.stream_id))
    BY <1>5 DEF Enter
  <2>2. UNCHANGED <<tabs, panics>>
    BY <1>5 DEF Enter
  <2>3. CASE UNCHANGED probes
    BY <2>2, <2>3, NothingKept
  <2>4. CASE Probe(s.stream_id)
    <3>1. PICK id : id = s.stream_id
      OBVIOUS
    <3>2. probes' = [probes EXCEPT ![id] = @ + 1] /\ probes \in [StreamId -> Nat]
      BY <2>4, <3>1 DEF Probe, CaptureInv, Shapes
    <3>3. probes' \in [StreamId -> Nat] /\ \A j \in StreamId : probes'[j] >= probes[j]
      <4>1. CASE id \in StreamId
        BY <4>1, <2>4, <3>1, ProbeCounts DEF CaptureInv
      <4>2. CASE id \notin StreamId
        <5>1. probes' = probes
          BY <4>2, <3>2
        <5> QED BY <5>1, <3>2
      <4> QED BY <4>1, <4>2
    <3> QED BY <2>2, <3>3, ListKept
  <2> QED BY <2>1, <2>3, <2>4
<1>6. CASE MoveTab \/ MoveStream \/ EnterOnFormats
  BY <1>6, NothingKept DEF MoveTab, MoveStream, EnterOnFormats
<1>7. ASSUME NEW i \in DOMAIN starting, LookUp(i) \/ BeginTask(i) PROVE CaptureInv'
  BY <1>7, NothingKept DEF LookUp, BeginTask
<1>8. ASSUME NEW i \in DOMAIN tasks, EndTask(i) PROVE CaptureInv'
  BY <1>8, NothingKept DEF EndTask
<1>9. CASE UNCHANGED captureVars
  BY <1>9, NothingKept DEF captureVars
<1> QED BY <1>1, <1>2, <1>3, <1>4, <1>5, <1>6, <1>7, <1>8, <1>9 DEF CaptureNext

\* A stream that says it is being probed is being probed, unless a probe of it
\* has panicked, for any number of
\* pages, streams and probes (add_stream, analyze_manifest and the Enter key).
THEOREM ProbesGoOn == CaptureSpec => []ProbingIsProbed
<1>1. CaptureInit => CaptureInv
  BY CaptureStarts
<1>2. CaptureInv /\ [CaptureNext]_captureVars => CaptureInv'
  BY CaptureKept
<1>3. CaptureInv => ProbingIsProbed
  BY DEF CaptureInv
<1> QED BY <1>1, <1>2, <1>3, PTL DEF CaptureSpec
-----------------------------------------------------------------------------
(* Ids, the selection and downloads of the streams captured *)

\* No two places of the list have the same id, no two tabs the same page, and
\* the ids given out are those below the next.
IdsFit ==
  /\ next_stream_id \in 1..(MaxStreams + 1)
  /\ \A t, u \in DOMAIN tabs : tabs[t].page = tabs[u].page => t = u
  /\ \A t, u \in DOMAIN tabs : \A i \in DOMAIN tabs[t].streams, j \in DOMAIN tabs[u].streams :
       tabs[t].streams[i].stream_id = tabs[u].streams[j].stream_id => t = u /\ i = j
  /\ \A t \in DOMAIN tabs : \A i \in DOMAIN tabs[t].streams :
       tabs[t].streams[i].stream_id \in 1..(next_stream_id - 1)
  /\ \A n \in 1..(next_stream_id - 1) :
       \E t \in DOMAIN tabs : \E i \in DOMAIN tabs[t].streams : tabs[t].streams[i].stream_id = n

\* The first tab is selected before there is one.
SelectionFits ==
  /\ selected \in [tab : Nat \ {0}, stream : 1..MaxStreams]
  /\ selected.tab = 1 \/ selected.tab \in DOMAIN tabs

DownloadsFit == starting \in Seq(Starting) /\ tasks \in Seq(Task)

ProbesFit == probes \in [StreamId -> 0..MaxProbes] /\ panics \subseteq StreamId

CaptureTypes == CaptureInv /\ IdsFit /\ SelectionFits /\ DownloadsFit /\ ProbesFit

\* The same ids at the same places.
SamePlaces ==
  /\ DOMAIN tabs' = DOMAIN tabs
  /\ \A t \in DOMAIN tabs :
       /\ tabs'[t].page = tabs[t].page
       /\ DOMAIN tabs'[t].streams = DOMAIN tabs[t].streams
       /\ \A i \in DOMAIN tabs[t].streams :
            tabs'[t].streams[i].stream_id = tabs[t].streams[i].stream_id

\* Whoever leaves the places alone leaves the ids in order.
LEMMA SamePlacesFit ==
  ASSUME IdsFit, SamePlaces, UNCHANGED next_stream_id
  PROVE  IdsFit'
BY DEF IdsFit, SamePlaces

\* A stream found again stays where it is.
LEMMA UpdatePlaces ==
  ASSUME Shapes, NEW t \in DOMAIN tabs, NEW i \in DOMAIN tabs[t].streams, NEW c, Update(t, i, c)
  PROVE  SamePlaces
<1> DEFINE s == tabs[t].streams[i]
           again == c.manifest /\ s.probe_state # "Done"
           new == [s EXCEPT !.url = c.url, !.manifest = @ \/ again,
                            !.probe_state = IF again THEN "Probing" ELSE @]
           old == tabs[t].streams
           tab == [tabs[t] EXCEPT !.streams = [old EXCEPT ![i] = new]]
<1>1. s \in Stream /\ tabs[t] \in Tab
  BY Places
<1>2. new.stream_id = s.stream_id
  BY <1>1 DEF Stream
<1>3. tabs' = [tabs EXCEPT ![t].streams[i] = new]
  BY DEF Update
<1>4. tabs' = [tabs EXCEPT ![t] = tab]
  BY <1>3
<1> HIDE DEF new
<1>5. /\ tab.page = tabs[t].page /\ tab.streams = [old EXCEPT ![i] = new]
      /\ DOMAIN tab.streams = DOMAIN old
  BY <1>1 DEF Tab
<1>6. \A j \in DOMAIN old : tab.streams[j].stream_id = old[j].stream_id
  BY <1>2, <1>5
<1> HIDE DEF tab
<1> QED BY <1>4, <1>5, <1>6 DEF SamePlaces

\* A verdict is written where the stream stands.
LEMMA JudgedPlaces ==
  ASSUME Shapes, NEW id, NEW state, NEW format, tabs' = Judged(id, state, format)
  PROVE  SamePlaces
<1> SUFFICES ASSUME NEW t \in DOMAIN tabs
             PROVE  /\ tabs'[t].page = tabs[t].page
                    /\ DOMAIN tabs'[t].streams = DOMAIN tabs[t].streams
                    /\ \A i \in DOMAIN tabs[t].streams :
                         tabs'[t].streams[i].stream_id = tabs[t].streams[i].stream_id
  BY DEF SamePlaces, Judged
<1> DEFINE verdict(s) == IF s.stream_id = id
                         THEN [s EXCEPT !.probe_state = state, !.format = format]
                         ELSE s
           list == [i \in DOMAIN tabs[t].streams |-> verdict(tabs[t].streams[i])]
<1>1. tabs'[t] = [tabs[t] EXCEPT !.streams = list]
  BY DEF Judged
<1>2. tabs[t] \in Tab /\ \A i \in DOMAIN tabs[t].streams : tabs[t].streams[i] \in Stream
  BY Places
<1>3. \A s \in Stream : verdict(s).stream_id = s.stream_id
  BY DEF Stream
<1>4. DOMAIN list = DOMAIN tabs[t].streams
      /\ \A i \in DOMAIN tabs[t].streams : list[i].stream_id = tabs[t].streams[i].stream_id
  BY <1>2, <1>3
<1> HIDE DEF list
<1>5. tabs'[t].streams = list /\ tabs'[t].page = tabs[t].page
  BY <1>1, <1>2 DEF Tab
<1> QED BY <1>4, <1>5

\* Showing or hiding noise moves nothing.
LEMMA NoisePlaces ==
  ASSUME Shapes, ToggleNoise
  PROVE  SamePlaces
<1> DEFINE t == selected.tab
           tab == [tabs[t] EXCEPT !.show_noise = ~@]
<1>1. tabs' = [tabs EXCEPT ![t] = tab]
  BY DEF ToggleNoise
<1>2. t \in DOMAIN tabs => tabs[t] \in Tab
  BY Places
<1>3. t \in DOMAIN tabs => tab.page = tabs[t].page /\ tab.streams = tabs[t].streams
  BY <1>2 DEF Tab
<1> HIDE DEF tab
<1> QED BY <1>1, <1>3 DEF SamePlaces

\* A list that has grown by one place, with the next id.
OnePlaceMore(t, i) ==
  /\ DOMAIN tabs' = DOMAIN tabs \cup {t}
  /\ i \in DOMAIN tabs'[t].streams /\ tabs'[t].streams[i].stream_id = next_stream_id
  /\ \A u \in DOMAIN tabs : \A j \in DOMAIN tabs[u].streams :
       /\ j \in DOMAIN tabs'[u].streams
       /\ tabs'[u].streams[j].stream_id = tabs[u].streams[j].stream_id
  /\ \A u \in DOMAIN tabs' : \A j \in DOMAIN tabs'[u].streams :
       \/ u = t /\ j = i
       \/ u \in DOMAIN tabs /\ j \in DOMAIN tabs[u].streams
  /\ \A u, v \in DOMAIN tabs' : tabs'[u].page = tabs'[v].page => u = v

\* A new stream gets a place of its own.
LEMMA InsertPlaces ==
  ASSUME Shapes, IdsFit, NEW c \in Captures, NEW state, Insert(c, state)
  PROVE  \E t, i : OnePlaceMore(t, i)
<1> DEFINE new == NewStream(c, state)
           n == Len(tabs)
<1>1. new.stream_id = next_stream_id
  BY DEF NewStream
<1>2. DOMAIN tabs = 1..n /\ n \in Nat
  BY Places
<1> HIDE DEF new
<1>3. CASE TabOf(c.page) = {}
  <2> DEFINE tab == NewTab(c.page, <<new>>)
  <2>1. tabs' = Append(tabs, tab)
    BY <1>3 DEF Insert, new
  <2>2. tab.page = c.page /\ tab.streams = <<new>>
    BY DEF NewTab
  <2> HIDE DEF tab
  <2>3. /\ DOMAIN tabs' = 1..(n + 1) /\ tabs'[n + 1] = tab
        /\ \A u \in DOMAIN tabs : tabs'[u] = tabs[u]
    BY <1>2, <2>1 DEF Shapes
  <2>4. DOMAIN tabs'[n + 1].streams = {1} /\ tabs'[n + 1].streams[1] = new
    BY <2>2, <2>3
  <2>5. DOMAIN tabs' = DOMAIN tabs \cup {n + 1} /\ n + 1 \notin DOMAIN tabs
    BY <1>2, <2>3
  <2>6. \A u \in DOMAIN tabs : tabs[u].page # c.page
    BY <1>3 DEF TabOf
  <2>7. ASSUME NEW u \in DOMAIN tabs', NEW v \in DOMAIN tabs', tabs'[u].page = tabs'[v].page
        PROVE  u = v
    <3>1. \A w \in DOMAIN tabs : tabs'[w].page = tabs[w].page
      BY <2>3
    <3>2. tabs'[n + 1].page = c.page
      BY <2>2, <2>3
    <3>3. \A w, x \in DOMAIN tabs : tabs[w].page = tabs[x].page => w = x
      BY DEF IdsFit
    <3> QED BY <2>5, <2>6, <2>7, <3>1, <3>2, <3>3
  <2>8. OnePlaceMore(n + 1, 1)
    BY <1>1, <2>3, <2>4, <2>5, <2>7 DEF OnePlaceMore
  <2> QED BY <2>8
<1>4. CASE TabOf(c.page) # {}
  <2>1. PICK t \in DOMAIN tabs : tabs[t].page = c.page
    BY <1>4 DEF TabOf
  <2>2. \A u \in DOMAIN tabs : u \in TabOf(c.page) <=> u = t
    BY <2>1 DEF TabOf, IdsFit
  <2> DEFINE s == tabs[t].streams
             k == Len(s)
             tab == [tabs[t] EXCEPT !.streams = Append(s, new)]
  <2>3. tabs' = [u \in DOMAIN tabs |-> IF u = t THEN tab ELSE tabs[u]]
    <3>1. tabs' = [u \in DOMAIN tabs |->
                     IF u \in TabOf(c.page)
                     THEN [tabs[u] EXCEPT !.streams = Append(tabs[u].streams, new)]
                     ELSE tabs[u]]
      BY <1>4 DEF Insert, new
    <3> QED BY <2>2, <3>1
  <2>4. tabs[t] \in Tab /\ s \in Seq(Stream)
    BY Places DEF Tab
  <2>5. DOMAIN s = 1..k /\ k \in Nat
    BY Places
  <2>6. tab.page = tabs[t].page /\ tab.streams = Append(s, new)
    BY <2>4 DEF Tab
  <2> HIDE DEF tab
  <2>7. /\ DOMAIN Append(s, new) = 1..(k + 1) /\ Append(s, new)[k + 1] = new
        /\ \A j \in DOMAIN s : Append(s, new)[j] = s[j]
    BY <2>4, <2>5
  <2>8. DOMAIN tabs' = DOMAIN tabs /\ tabs'[t] = tab
        /\ \A u \in DOMAIN tabs : u # t => tabs'[u] = tabs[u]
    BY <2>3
  <2>9. /\ tabs'[t].page = tabs[t].page
        /\ DOMAIN tabs'[t].streams = 1..(k + 1)
        /\ tabs'[t].streams[k + 1].stream_id = next_stream_id
        /\ \A j \in DOMAIN s : tabs'[t].streams[j] = s[j]
    BY <1>1, <2>6, <2>7, <2>8
  <2>10. \A j \in DOMAIN tabs'[t].streams : j = k + 1 \/ j \in DOMAIN s
    BY <2>5, <2>9
  <2>11. \A j \in DOMAIN s : j \in DOMAIN tabs'[t].streams
    BY <2>5, <2>9
  <2>12. k + 1 \in DOMAIN tabs'[t].streams
    BY <2>5, <2>9
  <2>13. \A u, v \in DOMAIN tabs' : tabs'[u].page = tabs'[v].page => u = v
    BY <2>8, <2>9 DEF IdsFit
  <2> DEFINE m == k + 1
  <2> HIDE DEF m, k
  <2>14. OnePlaceMore(t, m)
    BY <2>8, <2>9, <2>10, <2>11, <2>12, <2>13 DEF OnePlaceMore, m
  <2> QED BY <2>14
<1> QED BY <1>3, <1>4

\* With one place more and one id more the ids are in order again.
LEMMA InsertIds ==
  ASSUME Shapes, IdsFit, NEW c \in Captures, NEW state, Insert(c, state)
  PROVE  IdsFit' /\ DOMAIN tabs \subseteq DOMAIN tabs'
<1>1. PICK t, i : OnePlaceMore(t, i)
  BY InsertPlaces
<1> DEFINE n == next_stream_id
<1>2. n \in Nat \ {0} /\ n \in 1..MaxStreams /\ next_stream_id' = n + 1
  BY CaptureAssumption DEF Insert, StreamId
<1>3. next_stream_id' \in 1..(MaxStreams + 1)
  BY <1>2, CaptureAssumption
<1>4. \A u \in DOMAIN tabs' : \A j \in DOMAIN tabs'[u].streams :
        \/ u = t /\ j = i /\ tabs'[u].streams[j].stream_id = n
        \/ /\ u \in DOMAIN tabs /\ j \in DOMAIN tabs[u].streams
           /\ tabs'[u].streams[j].stream_id = tabs[u].streams[j].stream_id
           /\ tabs'[u].streams[j].stream_id \in 1..(n - 1)
  BY <1>1 DEF OnePlaceMore, IdsFit
<1>5. \A x \in 1..(n - 1) : x # n /\ x \in 1..n
  BY <1>2
<1>6. n \in 1..n
  BY <1>2
<1>7. \A u \in DOMAIN tabs' : \A j \in DOMAIN tabs'[u].streams :
        tabs'[u].streams[j].stream_id \in 1..n
  BY <1>4, <1>5, <1>6
<1>8. \A u, v \in DOMAIN tabs' :
        \A j \in DOMAIN tabs'[u].streams, l \in DOMAIN tabs'[v].streams :
          tabs'[u].streams[j].stream_id = tabs'[v].streams[l].stream_id => u = v /\ j = l
  <2> SUFFICES ASSUME NEW u \in DOMAIN tabs', NEW v \in DOMAIN tabs',
                      NEW j \in DOMAIN tabs'[u].streams, NEW l \in DOMAIN tabs'[v].streams,
                      tabs'[u].streams[j].stream_id = tabs'[v].streams[l].stream_id
               PROVE  u = v /\ j = l
    OBVIOUS
  <2> HIDE DEF n
  <2>1. CASE tabs'[u].streams[j].stream_id = n
    BY <1>4, <1>5, <2>1
  <2>2. CASE tabs'[u].streams[j].stream_id # n
    <3>1. /\ u \in DOMAIN tabs /\ j \in DOMAIN tabs[u].streams
          /\ v \in DOMAIN tabs /\ l \in DOMAIN tabs[v].streams
          /\ tabs[u].streams[j].stream_id = tabs[v].streams[l].stream_id
      BY <1>4, <2>2
    <3> QED BY <3>1 DEF IdsFit
  <2> QED BY <2>1, <2>2
<1>9. ASSUME NEW x \in 1..n
      PROVE  \E u \in DOMAIN tabs' : \E j \in DOMAIN tabs'[u].streams :
               tabs'[u].streams[j].stream_id = x
  <2>1. CASE x = n
    BY <1>1, <2>1 DEF OnePlaceMore
  <2>2. CASE x # n
    <3>1. x \in 1..(n - 1)
      BY <1>2, <2>2
    <3>2. PICK u \in DOMAIN tabs : \E j \in DOMAIN tabs[u].streams :
                                     tabs[u].streams[j].stream_id = x
      BY <3>1 DEF IdsFit
    <3> QED BY <1>1, <3>2 DEF OnePlaceMore
  <2> QED BY <2>1, <2>2
<1>10. next_stream_id' - 1 = n
  BY <1>2
<1>11. \A u, v \in DOMAIN tabs' : tabs'[u].page = tabs'[v].page => u = v
  BY <1>1 DEF OnePlaceMore
<1> HIDE DEF n
<1>12. IdsFit'
  BY <1>3, <1>7, <1>8, <1>9, <1>10, <1>11 DEF IdsFit
<1> QED BY <1>1, <1>12 DEF OnePlaceMore

\* There are as many streams as ids were given out.
LEMMA StreamsCounted ==
  ASSUME Shapes, IdsFit
  PROVE  Cardinality(AllStreams) = next_stream_id - 1
<1> DEFINE n == next_stream_id - 1
           with(k) == CHOOSE s \in AllStreams : s.stream_id = k
           f == [k \in 1..n |-> with(k)]
<1>1. n \in Nat
  BY CaptureAssumption DEF IdsFit
<1>2. \A k \in 1..n : \E s \in AllStreams : s.stream_id = k
  BY StreamHasPlace DEF IdsFit
<1>3. \A k \in 1..n : with(k) \in AllStreams /\ with(k).stream_id = k
  BY <1>2
<1>4. \A s \in AllStreams : s.stream_id \in 1..n
  BY StreamHasPlace DEF IdsFit
<1>5. ASSUME NEW r \in AllStreams, NEW s \in AllStreams, r.stream_id = s.stream_id
      PROVE  r = s
  <2>1. PICK t \in DOMAIN tabs : \E i \in DOMAIN tabs[t].streams : r = tabs[t].streams[i]
    BY StreamHasPlace
  <2>2. PICK u \in DOMAIN tabs : \E j \in DOMAIN tabs[u].streams : s = tabs[u].streams[j]
    BY StreamHasPlace
  <2>3. PICK i \in DOMAIN tabs[t].streams : r = tabs[t].streams[i]
    BY <2>1
  <2>4. PICK j \in DOMAIN tabs[u].streams : s = tabs[u].streams[j]
    BY <2>2
  <2>5. t = u /\ i = j
    BY <1>5, <2>3, <2>4 DEF IdsFit
  <2> QED BY <2>3, <2>4, <2>5
<1> HIDE DEF with, n
<1>6. f \in [1..n -> AllStreams] /\ IsInjective(f)
  BY <1>3 DEF IsInjective
<1>7. \A s \in AllStreams : \E k \in 1..n : f[k] = s
  <2>1. TAKE s \in AllStreams
  <2>2. f[s.stream_id] = with(s.stream_id) /\ s.stream_id \in 1..n
    BY <1>4
  <2>3. with(s.stream_id) = s
    BY <1>3, <1>5, <2>2
  <2> QED BY <2>2, <2>3
<1> HIDE DEF f
<1>8. f \in Bijection(1..n, AllStreams)
  BY <1>6, <1>7, Zenon DEF Bijection, Injection, Surjection
<1>9. ExistsBijection(1..n, AllStreams)
  BY <1>8 DEF ExistsBijection
<1> QED BY <1>1, <1>9, FS_CountingElements DEF n

\* A tab shows no more streams than there are ids.
LEMMA FewShown ==
  ASSUME Shapes, IdsFit, NEW t \in DOMAIN tabs
  PROVE  Cardinality(Visible(tabs[t])) \in 0..MaxStreams
<1> DEFINE V == Visible(tabs[t])
           f == [i \in V |-> tabs[t].streams[i].stream_id]
<1>1. V \subseteq DOMAIN tabs[t].streams
  BY DEF Visible
<1>2. next_stream_id - 1 \in 0..MaxStreams /\ MaxStreams \in Nat
  BY CaptureAssumption DEF IdsFit
<1>3. \A i \in V : tabs[t].streams[i].stream_id \in 1..(next_stream_id - 1)
  BY <1>1 DEF IdsFit
<1>4. 1..(next_stream_id - 1) \subseteq 1..MaxStreams
  BY <1>2
<1>5. f \in [V -> 1..MaxStreams]
  BY <1>3, <1>4
<1>6. IsInjective(f)
  BY <1>1 DEF IsInjective, IdsFit
<1>7. f \in Injection(V, 1..MaxStreams)
  BY <1>5, <1>6, Zenon DEF Injection
<1>8. IsFiniteSet(1..MaxStreams) /\ Cardinality(1..MaxStreams) = MaxStreams
  BY <1>2, FS_Interval
<1>9. IsFiniteSet(V) /\ Cardinality(V) <= MaxStreams
  BY <1>7, <1>8, FS_Injection
<1>10. Cardinality(V) \in Nat
  BY <1>9, FS_CardinalityType
<1> QED BY <1>2, <1>9, <1>10

\* Going round stays in the list.
LEMMA AroundStays ==
  ASSUME NEW n \in Nat \ {0}, NEW at \in Int, NEW step \in Int
  PROVE  Around(n, at, step) \in 1..n
<1>1. (at - 1 + step) % n \in 0..(n - 1)
  OBVIOUS
<1> QED BY <1>1 DEF Around

\* The least of some numbers is one of them.
LEMMA MinIsOne ==
  ASSUME NEW S \in SUBSET Nat, S # {}
  PROVE  Min(S) \in S
<1>1. \E x \in S : \A y \in S : x <= y
  BY LeastNatural
<1> QED BY <1>1, Zenon DEF Min

\* The format of a URL, listed or not, is a format.
LEMMA FormatNowFits ==
  ASSUME Shapes, NEW url
  PROVE  FormatNow(url) \in Format
<1> DEFINE there(t) == {i \in DOMAIN tabs[t].streams : tabs[t].streams[i].url = url}
           having == {t \in DOMAIN tabs : there(t) # {}}
           first == Min(having)
<1>1. FormatNow(url) = IF having = {} THEN "Unknown"
                       ELSE tabs[first].streams[Min(there(first))].format
  BY Zenon DEF FormatNow
<1>2. CASE having = {}
  BY <1>1, <1>2 DEF Format
<1>3. CASE having # {}
  <2>1. having \in SUBSET Nat
    BY Places
  <2>2. first \in having
    BY <1>3, <2>1, MinIsOne
  <2>3. first \in DOMAIN tabs /\ there(first) # {}
    BY <2>2
  <2>4. there(first) \in SUBSET Nat
    <3>1. ASSUME NEW t \in DOMAIN tabs PROVE there(t) \in SUBSET Nat
      BY Places
    <3> HIDE DEF there, first
    <3> QED BY <2>3, <3>1
  <2>5. Min(there(first)) \in there(first)
    BY <2>3, <2>4, MinIsOne
  <2> HIDE DEF first
  <2>6. tabs[first].streams[Min(there(first))] \in Stream
    BY <2>3, <2>5, Places
  <2> HIDE DEF there
  <2> QED BY <1>1, <1>3, <2>6 DEF Stream
<1> QED BY <1>2, <1>3

\* Taking one out leaves a list of the others.
LEMMA OneOut ==
  ASSUME NEW S, NEW s \in Seq(S), NEW i \in DOMAIN s
  PROVE  RemoveAt(s, i) \in Seq(S)
<1>1. DOMAIN s = 1..Len(s) /\ Len(s) \in Nat /\ \A j \in 1..Len(s) : s[j] \in S
  BY LenProperties, ElementOfSeq
<1>2. SubSeq(s, 1, i - 1) \in Seq(S)
  <2>1. \A j \in 1..(i - 1) : s[j] \in S
    BY <1>1
  <2> QED BY <1>1, <2>1, SubSeqProperties
<1>3. SubSeq(s, i + 1, Len(s)) \in Seq(S)
  <2>1. \A j \in (i + 1)..Len(s) : s[j] \in S
    BY <1>1
  <2> QED BY <1>1, <2>1, SubSeqProperties
<1>4. SubSeq(s, 1, i - 1) \o SubSeq(s, i + 1, Len(s)) \in Seq(S)
  BY <1>2, <1>3, ConcatProperties
<1> QED BY <1>4, Zenon DEF RemoveAt

\* A probe more, or one less of what there is, is within the bound.
LEMMA ProbeFits ==
  ASSUME ProbesFit, NEW id, Probe(id), UNCHANGED panics
  PROVE  ProbesFit'
<1>1. probes[id] < MaxProbes /\ probes' = [probes EXCEPT ![id] = @ + 1]
  BY DEF Probe
<1>2. CASE id \in StreamId
  BY <1>1, <1>2, CaptureAssumption DEF ProbesFit
<1>3. CASE id \notin StreamId
  <2>1. probes' = probes
    BY <1>1, <1>3 DEF ProbesFit
  <2> QED BY <2>1 DEF ProbesFit
<1> QED BY <1>2, <1>3

\* Every step keeps the types.
LEMMA CaptureTypesStep == CaptureTypes /\ [CaptureNext]_captureVars => CaptureTypes'
<1> SUFFICES ASSUME CaptureTypes, [CaptureNext]_captureVars PROVE CaptureTypes'
  OBVIOUS
<1>1. CaptureInv' /\ Shapes
  BY CaptureKept DEF CaptureTypes, CaptureInv
<1> DEFINE Rest == IdsFit' /\ SelectionFits' /\ DownloadsFit' /\ ProbesFit'
<1>2. ASSUME UNCHANGED selected, DOMAIN tabs \subseteq DOMAIN tabs' PROVE SelectionFits'
  BY <1>2 DEF CaptureTypes, SelectionFits
<1>3. ASSUME UNCHANGED <<starting, tasks>> PROVE DownloadsFit'
  BY <1>3 DEF CaptureTypes, DownloadsFit
<1>4. ASSUME UNCHANGED <<probes, panics>> PROVE ProbesFit'
  BY <1>4 DEF CaptureTypes, ProbesFit
<1>5. ASSUME UNCHANGED <<tabs, next_stream_id>> PROVE IdsFit' /\ DOMAIN tabs \subseteq DOMAIN tabs'
  BY <1>5 DEF CaptureTypes, IdsFit
<1>6. ASSUME SamePlaces, UNCHANGED next_stream_id
      PROVE  IdsFit' /\ DOMAIN tabs \subseteq DOMAIN tabs'
  BY <1>6, SamePlacesFit DEF CaptureTypes, SamePlaces
<1>7. ASSUME NEW c \in Captures, AddStream(c) PROVE Rest
  <2>1. UNCHANGED <<selected, panics, starting, tasks>>
    BY <1>7 DEF AddStream
  <2>2. CASE \E t \in TabOf(c.page) : \E i \in Known(t, c) : Update(t, i, c)
    <3>1. PICK t \in TabOf(c.page) : \E i \in Known(t, c) : Update(t, i, c)
      BY <2>2
    <3>2. PICK i \in Known(t, c) : Update(t, i, c)
      BY <3>1
    <3>3. t \in DOMAIN tabs /\ i \in DOMAIN tabs[t].streams
      BY DEF TabOf, Known
    <3>4. SamePlaces
      BY <1>1, <3>2, <3>3, UpdatePlaces
    <3>5. UNCHANGED next_stream_id /\ (UNCHANGED probes \/ \E id : Probe(id))
      BY <3>2 DEF Update, ProbedAgain
    <3>6. ProbesFit'
      BY <1>4, <2>1, <3>5, ProbeFits DEF CaptureTypes
    <3> QED BY <1>2, <1>3, <1>6, <2>1, <3>4, <3>5, <3>6
  <2>3. CASE Insert(c, "Probing") /\ Probe(next_stream_id)
    <3>1. IdsFit' /\ DOMAIN tabs \subseteq DOMAIN tabs'
      BY <1>1, <2>3, InsertIds DEF CaptureTypes
    <3>2. ProbesFit'
      BY <2>1, <2>3, ProbeFits DEF CaptureTypes
    <3> QED BY <1>2, <1>3, <2>1, <3>1, <3>2
  <2> QED BY <1>7, <2>2, <2>3 DEF AddStream
<1>8. ASSUME NEW c \in Captures, AddFormats(c) PROVE Rest
  <2>1. Insert(c, "Done") /\ UNCHANGED <<selected, probes, panics, starting, tasks>>
    BY <1>8 DEF AddFormats
  <2>2. IdsFit' /\ DOMAIN tabs \subseteq DOMAIN tabs'
    BY <1>1, <2>1, InsertIds DEF CaptureTypes
  <2> QED BY <1>2, <1>3, <1>4, <2>1, <2>2
<1>9. ASSUME NEW id \in StreamId, EndProbe(id) PROVE Rest
  <2>1. UNCHANGED <<selected, next_stream_id, panics, starting, tasks>>
        /\ probes[id] > 0 /\ probes' = [probes EXCEPT ![id] = @ - 1]
    BY <1>9 DEF EndProbe
  <2>2. \E state, format : tabs' = Judged(id, state, format)
    BY <1>9 DEF EndProbe
  <2>3. SamePlaces
    BY <1>1, <2>2, JudgedPlaces
  <2>4. ProbesFit'
    BY <2>1, CaptureAssumption DEF CaptureTypes, ProbesFit
  <2> QED BY <1>2, <1>3, <1>6, <2>1, <2>3, <2>4
<1>10. CASE ToggleNoise
  <2>1. SamePlaces /\ UNCHANGED <<next_stream_id, probes, panics, starting, tasks>>
    BY <1>1, <1>10, NoisePlaces DEF ToggleNoise
  <2>2. selected' = [selected EXCEPT !.stream = 1]
    BY <1>10 DEF ToggleNoise
  <2>3. SelectionFits'
    BY <2>1, <2>2, CaptureAssumption DEF CaptureTypes, SelectionFits, SamePlaces
  <2> QED BY <1>1, <1>3, <1>4, <1>6, <2>1, <2>3 DEF CaptureTypes
<1>11. CASE Enter
  <2>1. UNCHANGED <<tabs, selected, next_stream_id, panics, tasks>>
    BY <1>11 DEF Enter
  <2>2. PICK s \in SelectedStream :
          \/ starting' = Append(starting, Asked(s.url)) /\ UNCHANGED probes
          \/ Probe(s.stream_id) /\ UNCHANGED starting
    BY <1>11 DEF Enter
  <2>3. s \in Stream
    <3>1. tabs # <<>>
      BY <2>2 DEF SelectedStream
    <3>2. selected.tab \in DOMAIN tabs
      <4>1. Len(tabs) \in Nat /\ Len(tabs) # 0 /\ DOMAIN tabs = 1..Len(tabs)
        BY <1>1, <3>1, Places, EmptySeq DEF Shapes
      <4> QED BY <4>1 DEF CaptureTypes, SelectionFits
    <3> DEFINE tab == tabs[selected.tab]
               shown == Visible(tab)
               upTo(i) == {j \in shown : j <= i}
    <3>3. SelectedStream =
            {tab.streams[i] : i \in {i \in shown : Cardinality(upTo(i)) = selected.stream}}
      BY <3>1, Zenon DEF SelectedStream
    <3> HIDE DEF upTo
    <3>4. PICK i \in shown : s = tab.streams[i]
      BY <3>3
    <3> QED BY <1>1, <3>2, <3>4, Places DEF Visible
  <2>4. starting \in Seq(Starting) /\ Asked(s.url) \in Starting
    BY <2>3 DEF CaptureTypes, DownloadsFit, Stream, Starting, Asked
  <2>5. DownloadsFit'
    BY <2>1, <2>2, <2>4 DEF CaptureTypes, DownloadsFit
  <2>6. ProbesFit'
    BY <1>4, <2>1, <2>2, ProbeFits DEF CaptureTypes
  <2> QED BY <1>1, <1>2, <1>5, <2>1, <2>5, <2>6 DEF CaptureTypes
<1>12. CASE MoveTab
  <2>1. UNCHANGED <<tabs, next_stream_id, probes, panics, starting, tasks>> /\ tabs # <<>>
    BY <1>12 DEF MoveTab
  <2>2. PICK step \in {1, -1} :
          selected' = [tab |-> Around(Len(tabs), selected.tab, step), stream |-> 1]
    BY <1>12 DEF MoveTab
  <2>3. Len(tabs) \in Nat \ {0} /\ DOMAIN tabs = 1..Len(tabs)
    BY <1>1, <2>1, Places, EmptySeq DEF Shapes
  <2>4. Around(Len(tabs), selected.tab, step) \in 1..Len(tabs)
    <3>1. selected.tab \in Int
      BY DEF CaptureTypes, SelectionFits
    <3>2. step \in Int
      OBVIOUS
    <3> QED BY <2>3, <3>1, <3>2, AroundStays
  <2>5. SelectionFits'
    BY <2>1, <2>2, <2>3, <2>4, CaptureAssumption DEF SelectionFits
  <2> QED BY <1>1, <1>3, <1>4, <1>5, <2>1, <2>5 DEF CaptureTypes
<1>13. CASE MoveStream
  <2>1. UNCHANGED <<tabs, next_stream_id, probes, panics, starting, tasks>> /\ tabs # <<>>
    BY <1>13 DEF MoveStream
  <2> DEFINE n == Cardinality(Visible(tabs[selected.tab]))
  <2>2. PICK i \in {Around(n, selected.stream, 1),
                    IF selected.stream = 1 THEN n ELSE selected.stream - 1} :
          n > 0 /\ selected' = [selected EXCEPT !.stream = i]
    <3>1. selected.tab \in DOMAIN tabs
      <4>1. Len(tabs) \in Nat /\ Len(tabs) # 0 /\ DOMAIN tabs = 1..Len(tabs)
        BY <1>1, <2>1, Places, EmptySeq DEF Shapes
      <4> QED BY <4>1 DEF CaptureTypes, SelectionFits
    <3>2. n \in 0..MaxStreams
      BY <1>1, <3>1, FewShown DEF CaptureTypes
    <3>3. n > 1 => n > 0
      BY <3>2
    <3> QED BY <1>13, <3>3 DEF MoveStream
  <2>3. n \in 1..MaxStreams
    <3>1. selected.tab \in DOMAIN tabs
      <4>1. Len(tabs) \in Nat /\ Len(tabs) # 0 /\ DOMAIN tabs = 1..Len(tabs)
        BY <1>1, <2>1, Places, EmptySeq DEF Shapes
      <4> QED BY <4>1 DEF CaptureTypes, SelectionFits
    <3>2. n \in 0..MaxStreams
      BY <1>1, <3>1, FewShown DEF CaptureTypes
    <3> QED BY <2>2, <3>2
  <2> HIDE DEF n
  <2>4. selected \in [tab : Nat \ {0}, stream : 1..MaxStreams]
    BY DEF CaptureTypes, SelectionFits
  <2>5. Around(n, selected.stream, 1) \in 1..n
    BY <2>3, <2>4, AroundStays, CaptureAssumption
  <2>6. i \in 1..MaxStreams
    BY <2>2, <2>3, <2>4, <2>5, CaptureAssumption
  <2>7. SelectionFits'
    BY <2>1, <2>2, <2>4, <2>6 DEF CaptureTypes, SelectionFits
  <2> QED BY <1>1, <1>3, <1>4, <1>5, <2>1, <2>7 DEF CaptureTypes
<1>14. CASE EnterOnFormats
  <2>1. UNCHANGED <<tabs, selected, next_stream_id, probes, panics, tasks>>
    BY <1>14 DEF EnterOnFormats
  <2>2. PICK s \in StreamsOf(tabs[selected.tab]) : starting' = Append(starting, Asked(s.url))
    BY <1>14 DEF EnterOnFormats
  <2>3. selected.tab \in DOMAIN tabs
    <3>1. Len(tabs) \in Nat /\ Len(tabs) # 0 /\ DOMAIN tabs = 1..Len(tabs)
      BY <1>1, <1>14, Places, EmptySeq DEF Shapes, EnterOnFormats
    <3> QED BY <3>1 DEF CaptureTypes, SelectionFits
  <2>4. s \in Stream
    BY <1>1, <2>3, Places DEF AllStreams
  <2>5. starting \in Seq(Starting) /\ Asked(s.url) \in Starting
    BY <2>4 DEF CaptureTypes, DownloadsFit, Stream, Starting, Asked
  <2>6. DownloadsFit'
    BY <2>1, <2>2, <2>5 DEF CaptureTypes, DownloadsFit
  <2> QED BY <1>1, <1>2, <1>4, <1>5, <2>1, <2>6 DEF CaptureTypes
<1>15. ASSUME NEW i \in DOMAIN starting, BeginTask(i) PROVE Rest
  <2>1. UNCHANGED <<tabs, selected, next_stream_id, probes, panics>>
    BY <1>15 DEF BeginTask
  <2>2. starting \in Seq(Starting) /\ starting[i] \in Starting
    BY <1>15, LenProperties, ElementOfSeq DEF CaptureTypes, DownloadsFit
  <2>3. starting' \in Seq(Starting)
    BY <1>15, <2>2, OneOut DEF BeginTask
  <2>4. tasks' \in Seq(Task)
    <3> DEFINE task == [format |-> starting[i].format, status |-> "Running"]
    <3>1. task \in Task
      BY <1>15, <2>2 DEF Task, Starting, BeginTask
    <3>2. tasks' = Append(tasks, task) /\ tasks \in Seq(Task)
      BY <1>15 DEF BeginTask, CaptureTypes, DownloadsFit
    <3> HIDE DEF task
    <3> QED BY <3>1, <3>2
  <2> QED BY <1>2, <1>4, <1>5, <2>1, <2>3, <2>4 DEF DownloadsFit
<1>16. ASSUME NEW i \in DOMAIN tasks, EndTask(i) PROVE Rest
  <2>1. UNCHANGED <<tabs, selected, next_stream_id, probes, panics, starting>>
    BY <1>16 DEF EndTask
  <2>2. tasks' \in Seq(Task)
    <3>1. PICK verdict \in {"Finished", "Failed"} : tasks' = [tasks EXCEPT ![i].status = verdict]
      BY <1>16 DEF EndTask
    <3>2. tasks \in Seq(Task)
      BY DEF CaptureTypes, DownloadsFit
    <3>3. i \in 1..Len(tasks) /\ tasks[i] \in Task
      BY <1>16, <3>2, LenProperties, ElementOfSeq
    <3> DEFINE task == [tasks[i] EXCEPT !.status = verdict]
    <3>4. task \in Task
      BY <3>3 DEF Task
    <3>5. tasks' = [tasks EXCEPT ![i] = task]
      BY <3>1
    <3> HIDE DEF task
    <3> QED BY <3>2, <3>3, <3>4, <3>5, ExceptSeq
  <2> QED BY <1>2, <1>4, <1>5, <2>1, <2>2 DEF CaptureTypes, DownloadsFit
<1>17. CASE UNCHANGED captureVars
  BY <1>1, <1>2, <1>3, <1>4, <1>5, <1>17 DEF captureVars, CaptureTypes
<1>19. ASSUME NEW id \in StreamId, PanicProbe(id) PROVE Rest
  <2>1. /\ UNCHANGED <<tabs, selected, next_stream_id, starting, tasks>>
        /\ probes[id] > 0 /\ probes' = [probes EXCEPT ![id] = @ - 1]
        /\ panics' = panics \cup {id}
    BY <1>19 DEF PanicProbe
  <2>2. ProbesFit'
    BY <2>1, CaptureAssumption DEF CaptureTypes, ProbesFit
  <2> QED BY <1>2, <1>3, <1>5, <2>1, <2>2
<1>20. ASSUME NEW i \in DOMAIN starting, LookUp(i) PROVE Rest
  <2> DEFINE found == [url |-> starting[i].url, format |-> FormatNow(starting[i].url)]
  <2>1. /\ UNCHANGED <<tabs, selected, next_stream_id, probes, panics, tasks>>
        /\ starting' = [starting EXCEPT ![i] = found]
    BY <1>20 DEF LookUp
  <2>2. /\ starting \in Seq(Starting) /\ starting[i] \in Starting
        /\ i \in 1..Len(starting)
    BY <1>20, LenProperties, ElementOfSeq DEF CaptureTypes, DownloadsFit
  <2>3. found \in Starting
    BY <1>1, <2>2, FormatNowFits DEF Starting
  <2> HIDE DEF found
  <2>4. starting' \in Seq(Starting)
    BY <2>1, <2>2, <2>3, ExceptSeq
  <2> QED BY <1>2, <1>4, <1>5, <2>1, <2>4 DEF CaptureTypes, DownloadsFit
<1>18. ASSUME Rest PROVE CaptureTypes'
  BY <1>1, <1>18 DEF CaptureTypes
<1> HIDE DEF Rest
<1> QED BY <1>7, <1>8, <1>9, <1>10, <1>11, <1>12, <1>13, <1>14, <1>15, <1>16, <1>17, <1>18, <1>19, <1>20
        DEF CaptureNext

\* Nothing is listed at the start.
LEMMA CaptureTypesStart == CaptureInit => CaptureTypes
<1> SUFFICES ASSUME CaptureInit PROVE CaptureTypes
  OBVIOUS
<1>1. CaptureInv
  BY CaptureStarts
<1>2. DOMAIN tabs = {} /\ next_stream_id = 1
  BY DEF CaptureInit
<1>3. IdsFit
  BY <1>2, CaptureAssumption DEF IdsFit
<1>4. SelectionFits
  BY CaptureAssumption DEF CaptureInit, SelectionFits
<1>5. DownloadsFit /\ ProbesFit
  BY CaptureAssumption DEF CaptureInit, DownloadsFit, ProbesFit
<1> QED BY <1>1, <1>3, <1>4, <1>5 DEF CaptureTypes

\* Streams keep ids of their own, as many as there are streams, whatever the
\* browser reports and in whatever order probes end, and the selection is in
\* the list.
THEOREM CaptureTypesAreCorrect == CaptureSpec => []CaptureTypeOK
<1>1. CaptureTypes => CaptureTypeOK
  <2> SUFFICES ASSUME CaptureTypes PROVE CaptureTypeOK
    OBVIOUS
  <2>1. Shapes
    BY DEF CaptureTypes, CaptureInv
  <2>2. \A t \in DOMAIN tabs : tabs[t].page \in Page /\ StreamsOf(tabs[t]) \subseteq Stream
    <3> TAKE t \in DOMAIN tabs
    <3>1. tabs[t].page \in Page
      BY <2>1, Places DEF Tab
    <3>2. \A s \in StreamsOf(tabs[t]) : s \in Stream
      BY <2>1, Places DEF StreamsOf, Range
    <3> QED BY <3>1, <3>2
  <2>3. \A s \in AllStreams : s.stream_id < next_stream_id
    <3> TAKE s \in AllStreams
    <3>1. s.stream_id \in 1..(next_stream_id - 1)
      BY <2>1, StreamHasPlace DEF CaptureTypes, IdsFit
    <3>2. next_stream_id \in Int
      BY DEF CaptureTypes, IdsFit
    <3> QED BY <3>1, <3>2
  <2>4. Cardinality(AllStreams) = next_stream_id - 1
    BY <2>1, StreamsCounted DEF CaptureTypes
  <2>5. probes \in [StreamId -> 0..MaxProbes] /\ panics \subseteq StreamId
    BY DEF CaptureTypes, ProbesFit
  <2>6. Range(starting) \subseteq Starting /\ Range(tasks) \subseteq Task
    <3>1. ASSUME NEW S, NEW s \in Seq(S) PROVE Range(s) \subseteq S
      BY LenProperties, ElementOfSeq DEF Range
    <3> QED BY <3>1 DEF CaptureTypes, DownloadsFit
  <2>7. tabs # <<>> => selected.tab \in DOMAIN tabs
    <3> SUFFICES ASSUME tabs # <<>> PROVE selected.tab \in DOMAIN tabs
      OBVIOUS
    <3>1. Len(tabs) \in Nat /\ Len(tabs) # 0 /\ DOMAIN tabs = 1..Len(tabs)
      BY <2>1, Places, EmptySeq DEF Shapes
    <3> QED BY <3>1 DEF CaptureTypes, SelectionFits
  <2>8. selected.stream \in 1..MaxStreams
    BY DEF CaptureTypes, SelectionFits
  <2> QED BY <2>2, <2>3, <2>4, <2>5, <2>6, <2>7, <2>8 DEF CaptureTypeOK
<1> QED BY <1>1, CaptureTypesStart, CaptureTypesStep, PTL DEF CaptureSpec

\* Seed tables, origins and streams, side by side in one run, hold what they may.
THEOREM TableTypesAreCorrect == TablesSpec => []TablesTypeOK
<1>1. TablesInit => SeedInit /\ OriginMemoryInit /\ CaptureInit
  BY DEF TablesInit
<1>2. [TablesNext]_tableVars
        => [New]_seedVars /\ [OriginMemoryNext]_originVars /\ [CaptureNext]_captureVars
  BY DEF TablesNext, tableVars
<1>3. SeedTypeOK /\ OriginMemoryTypeOK /\ CaptureTypeOK => TablesTypeOK
  BY DEF TablesTypeOK
<1>4. TablesSpec => SeedSpec /\ OriginMemorySpec /\ CaptureSpec
  BY <1>1, <1>2, PTL DEF TablesSpec, SeedSpec, OriginMemorySpec, CaptureSpec
<1> QED BY <1>3, <1>4, SeedTypesAreCorrect, OriginTypesAreCorrect, CaptureTypesAreCorrect, PTL
=============================================================================
