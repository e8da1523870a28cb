---------------------- MODULE RangeCoordinatorProofs ----------------------
(***************************************************************************)
(* Proofs about the range table, for every file size, alignment, borrow    *)
(* limit, set of connections and seed table.                               *)
(*                                                                         *)
(* The inductive invariant is the conjunction of the named parts the runs  *)
(* check.  None is inductive alone: a split keeps the tiling only because  *)
(* the cut lies inside the donor (CursorInsideRange and the guard of       *)
(* split_active_range), and a finished range stays finished only because   *)
(* it keeps its owner (StatusMatchesOwner).                                *)
(***************************************************************************)
EXTENDS RangeCoordinator, SequenceTheorems, FiniteSetTheorems, WellFoundedInduction, TLAPS

IInv ==
  /\ TypeOK
  /\ EveryByteInOneRange
  /\ CursorInsideRange
  /\ StatusMatchesOwner

-----------------------------------------------------------------------------
(* Lemmas about the operators. *)

\* A remainder is a natural number, and positive only before the end.
LEMMA RemainingBounds ==
  ASSUME NEW r \in ActiveRange
  PROVE  /\ Remaining(r) \in Nat
         /\ Remaining(r) > 0 => r.cursor < r.end /\ Remaining(r) = r.end - r.cursor
BY DEF Remaining, ActiveRange

\* Changing cells of one range in place gives a table of the same length.
LEMMA CellUpdate ==
  ASSUME NEW s \in Seq(ActiveRange), NEW i \in DOMAIN s, NEW r \in ActiveRange
  PROVE  /\ [s EXCEPT ![i] = r] \in Seq(ActiveRange)
         /\ DOMAIN [s EXCEPT ![i] = r] = DOMAIN s
         /\ Len([s EXCEPT ![i] = r]) = Len(s)
         /\ \A j \in DOMAIN s : [s EXCEPT ![i] = r][j] = IF j = i THEN r ELSE s[j]
OBVIOUS

\* The tiling speaks of the ends of ranges only: a step that moves none keeps it.
LEMMA SameSpans ==
  ASSUME EveryByteInOneRange,
         DOMAIN dl_ranges' = DOMAIN dl_ranges,
         \A i \in Index : /\ dl_ranges'[i].byte_start = dl_ranges[i].byte_start
                          /\ dl_ranges'[i].end = dl_ranges[i].end
  PROVE  EveryByteInOneRange'
BY DEF EveryByteInOneRange, Covers, Index

\* Handing out, finishing and giving back a range keep its cursor and span.
LEMMA RestampKeepsInvariant ==
  ASSUME IInv, NEW i \in Index,
         NEW w \in Connections \cup {Unassigned}, NEW st \in Status,
         dl_ranges' = [dl_ranges EXCEPT ![i].assigned_to = w, ![i].status = st],
         st = "PENDING" <=> w = Unassigned,
         st = "FINISHED" => dl_ranges[i].cursor = dl_ranges[i].end
  PROVE  /\ dl_ranges' \in Seq(ActiveRange)
         /\ Len(dl_ranges') = Len(dl_ranges)
         /\ EveryByteInOneRange'
         /\ CursorInsideRange'
         /\ StatusMatchesOwner'
<1> DEFINE r == [dl_ranges[i] EXCEPT !.assigned_to = w, !.status = st]
<1>1. dl_ranges \in Seq(ActiveRange) /\ dl_ranges[i] \in ActiveRange
  BY DEF IInv, TypeOK, Index
<1>2. r \in ActiveRange
  BY <1>1 DEF ActiveRange
<1>3. dl_ranges' = [dl_ranges EXCEPT ![i] = r]
  BY <1>1
<1> HIDE DEF r
<1>4. /\ dl_ranges' \in Seq(ActiveRange)
      /\ DOMAIN dl_ranges' = DOMAIN dl_ranges
      /\ Len(dl_ranges') = Len(dl_ranges)
      /\ \A j \in Index : dl_ranges'[j] = IF j = i THEN r ELSE dl_ranges[j]
  <2> DEFINE new == [dl_ranges EXCEPT ![i] = r]
  <2>1. /\ new \in Seq(ActiveRange)
        /\ DOMAIN new = DOMAIN dl_ranges
        /\ Len(new) = Len(dl_ranges)
        /\ \A j \in DOMAIN dl_ranges : new[j] = IF j = i THEN r ELSE dl_ranges[j]
    BY <1>1, <1>2, CellUpdate DEF Index
  <2>2. QED
    BY <2>1, <1>3 DEF Index
<1>5. /\ r.byte_start = dl_ranges[i].byte_start
      /\ r.end = dl_ranges[i].end
      /\ r.cursor = dl_ranges[i].cursor
      /\ r.assigned_to = w
      /\ r.status = st
  BY <1>1 DEF r, ActiveRange
<1>6. EveryByteInOneRange'
  BY <1>4, <1>5, SameSpans DEF IInv
<1>7. CursorInsideRange'
  BY <1>4, <1>5 DEF IInv, CursorInsideRange, Index
<1>8. StatusMatchesOwner'
  BY <1>4, <1>5 DEF IInv, StatusMatchesOwner, Index
<1>9. QED
  BY <1>4, <1>6, <1>7, <1>8
-----------------------------------------------------------------------------
(* The invariant. *)

\* The seed table tiles the file, unowned and unread.
LEMMA InitInvariant == Init => IInv
<1> SUFFICES ASSUME Init PROVE IInv
  OBVIOUS
<1>1. /\ Len(Seeds) \in Nat
      /\ DOMAIN Seeds = 1..Len(Seeds)
      /\ \A i \in DOMAIN Seeds : Seeds[i] \in Span
  BY SeedAssumption
<1>2. /\ DOMAIN dl_ranges = DOMAIN Seeds
      /\ \A i \in DOMAIN Seeds :
           /\ dl_ranges[i] \in ActiveRange
           /\ dl_ranges[i].byte_start = Seeds[i].byte_start
           /\ dl_ranges[i].cursor = Seeds[i].byte_start
           /\ dl_ranges[i].end = Seeds[i].byte_end
           /\ dl_ranges[i].assigned_to = Unassigned
           /\ dl_ranges[i].status = "PENDING"
  BY <1>1 DEF Init, ActiveRange, Span, Status
<1>3. dl_ranges \in Seq(ActiveRange)
  <2>1. dl_ranges \in [1..Len(Seeds) -> ActiveRange]
    BY <1>1, <1>2 DEF Init
  <2>2. QED
    BY <2>1, <1>1, SeqDef
<1>4. TypeOK
  <2>1. Len(dl_ranges) \in Nat
    BY <1>3
  <2>2. next_unassigned_idx \in 1..(Len(dl_ranges) + 1) /\ borrow_cursor \in 0..Len(dl_ranges)
    BY <2>1 DEF Init
  <2>3. halted \in BOOLEAN
    BY DEF Init
  <2>4. QED
    BY <1>3, <2>2, <2>3 DEF TypeOK
<1>5. EveryByteInOneRange
  BY <1>2, SeedAssumption DEF EveryByteInOneRange, Covers, Byte, Index
<1>6. CursorInsideRange
  BY <1>1, <1>2, SeedAssumption DEF CursorInsideRange, Index, Span
<1>7. StatusMatchesOwner
  BY <1>2, CoordinatorAssumption DEF StatusMatchesOwner, Index
<1>8. QED
  BY <1>4, <1>5, <1>6, <1>7 DEF IInv

\* split_active_range: the donor and the new range share the donor's bytes.
LEMMA SplitKeepsInvariant ==
  ASSUME IInv, NEW c \in Connections, NEW d \in Index, NEW cut \in Nat,
         dl_ranges[d].status = "ACTIVE",
         dl_ranges[d].cursor <= cut, cut <= dl_ranges[d].end,
         Split(c, d, cut)
  PROVE  /\ dl_ranges' \in Seq(ActiveRange)
         /\ Len(dl_ranges') = Len(dl_ranges) + 1
         /\ EveryByteInOneRange'
         /\ CursorInsideRange'
         /\ StatusMatchesOwner'
<1> DEFINE n == Len(dl_ranges)
           donor == [dl_ranges[d] EXCEPT !.end = cut]
           stolen == [byte_start |-> cut, cursor |-> cut, end |-> dl_ranges[d].end,
                      assigned_to |-> c, status |-> "ACTIVE"]
           kept == [dl_ranges EXCEPT ![d] = donor]
<1>1. dl_ranges \in Seq(ActiveRange) /\ dl_ranges[d] \in ActiveRange
  BY DEF IInv, TypeOK, Index
<1>2. donor \in ActiveRange /\ stolen \in ActiveRange
  BY <1>1 DEF ActiveRange, Status
<1>3. dl_ranges' = Append(kept, stolen)
  BY <1>1 DEF Split
<1>4. /\ donor.byte_start = dl_ranges[d].byte_start
      /\ donor.cursor = dl_ranges[d].cursor
      /\ donor.end = cut
      /\ donor.assigned_to = dl_ranges[d].assigned_to
      /\ donor.status = "ACTIVE"
      /\ stolen.byte_start = cut
      /\ stolen.cursor = cut
      /\ stolen.end = dl_ranges[d].end
      /\ stolen.assigned_to = c
      /\ stolen.status = "ACTIVE"
  BY <1>1 DEF ActiveRange
<1> HIDE DEF donor, stolen
<1>5. /\ kept \in Seq(ActiveRange)
      /\ Len(kept) = n
      /\ \A j \in 1..n : kept[j] = IF j = d THEN donor ELSE dl_ranges[j]
  BY <1>1, <1>2, CellUpdate DEF Index
<1> HIDE DEF kept
<1>6. /\ dl_ranges' \in Seq(ActiveRange)
      /\ Len(dl_ranges') = n + 1
      /\ Index' = 1..(n + 1)
      /\ Index = 1..n
      /\ n \in Nat
      /\ dl_ranges'[n + 1] = stolen
      /\ \A j \in 1..n : dl_ranges'[j] = IF j = d THEN donor ELSE dl_ranges[j]
  BY <1>1, <1>2, <1>3, <1>5 DEF Index
<1>7. /\ \A j \in 1..(n + 1) : j \in 1..n \/ j = n + 1
      /\ n + 1 \in 1..(n + 1)
      /\ \A j \in 1..n : j \in 1..(n + 1) /\ j # n + 1
      /\ d \in 1..n
  BY <1>6
<1>8. CursorInsideRange'
  <2>1. /\ donor.byte_start <= donor.cursor /\ donor.cursor <= donor.end
        /\ stolen.byte_start <= stolen.cursor /\ stolen.cursor <= stolen.end
        /\ donor.end <= Total /\ stolen.end <= Total
    <3>1. /\ dl_ranges[d].byte_start <= dl_ranges[d].cursor
          /\ dl_ranges[d].end <= Total
          /\ dl_ranges[d].end \in Nat
      BY <1>1 DEF IInv, CursorInsideRange, ActiveRange
    <3>2. QED
      BY <1>4, <3>1, CoordinatorAssumption
  <2>2. QED
    BY <2>1, <1>6, <1>7 DEF IInv, CursorInsideRange
<1>9. StatusMatchesOwner'
  BY <1>4, <1>6, <1>7, CoordinatorAssumption DEF IInv, StatusMatchesOwner
<1>10. EveryByteInOneRange'
  <2> SUFFICES ASSUME NEW b \in Byte
               PROVE  \E i \in Index' :
                        /\ Covers(dl_ranges'[i], b)
                        /\ \A j \in Index' : Covers(dl_ranges'[j], b) => j = i
    BY DEF EveryByteInOneRange, Byte
  <2>1. PICK i \in Index : /\ Covers(dl_ranges[i], b)
                           /\ \A j \in Index : Covers(dl_ranges[j], b) => j = i
    BY DEF IInv, EveryByteInOneRange
  <2>2. b \in Int /\ cut \in Int
    BY CoordinatorAssumption DEF Byte
  <2>3. Covers(stolen, b) <=> cut <= b /\ b < dl_ranges[d].end
    BY <1>4 DEF Covers
  <2>4. Covers(donor, b) <=> dl_ranges[d].byte_start <= b /\ b < cut
    BY <1>4 DEF Covers
  <2>5. /\ Covers(stolen, b) => Covers(dl_ranges[d], b) /\ ~Covers(donor, b)
        /\ Covers(donor, b) => Covers(dl_ranges[d], b) /\ ~Covers(stolen, b)
        /\ Covers(dl_ranges[d], b) => Covers(donor, b) \/ Covers(stolen, b)
    <3>1. /\ dl_ranges[d].byte_start \in Int /\ dl_ranges[d].end \in Int
          /\ dl_ranges[d].byte_start <= cut
      BY <1>1 DEF ActiveRange, IInv, CursorInsideRange
    <3>2. QED
      BY <3>1, <2>2, <2>3, <2>4 DEF Covers
  <2>6. CASE i # d
    <3>1. i \in Index' /\ Covers(dl_ranges'[i], b)
      BY <2>1, <2>6, <1>6, <1>7
    <3>2. ASSUME NEW j \in Index', Covers(dl_ranges'[j], b) PROVE j = i
      BY <2>1, <2>5, <2>6, <1>6, <1>7, <3>2
    <3>3. QED
      BY <3>1, <3>2
  <2>7. CASE i = d /\ Covers(donor, b)
    <3>1. d \in Index' /\ Covers(dl_ranges'[d], b)
      BY <2>7, <1>6, <1>7
    <3>2. ASSUME NEW j \in Index', Covers(dl_ranges'[j], b) PROVE j = d
      BY <2>1, <2>5, <2>7, <1>6, <1>7, <3>2
    <3>3. QED
      BY <3>1, <3>2
  <2>8. CASE i = d /\ Covers(stolen, b)
    <3>1. n + 1 \in Index' /\ Covers(dl_ranges'[n + 1], b)
      BY <2>8, <1>6, <1>7
    <3>2. ASSUME NEW j \in Index', Covers(dl_ranges'[j], b) PROVE j = n + 1
      BY <2>1, <2>5, <2>8, <1>6, <1>7, <3>2
    <3>3. QED
      BY <3>1, <3>2
  <2>9. QED
    BY <2>1, <2>5, <2>6, <2>7, <2>8
<1>11. QED
  BY <1>6, <1>8, <1>9, <1>10

\* The split point of a donor is an integer, whatever the kind of theft.
LEMMA SplitPointIsInt ==
  ASSUME TypeOK, NEW d \in Index, NEW kind \in BorrowKind
  PROVE  SplitPoint(d, kind) \in Int
<1>1. dl_ranges[d] \in ActiveRange
  BY DEF TypeOK, Index
<1>2. Remaining(dl_ranges[d]) \in Nat /\ dl_ranges[d].end \in Int
  BY <1>1, RemainingBounds DEF ActiveRange
<1>3. StealSize(Remaining(dl_ranges[d]), kind) \in Int
  BY <1>2 DEF StealSize
<1>4. \A b \in Int : AlignDown(b) \in Int
  BY CoordinatorAssumption DEF AlignDown
<1>5. QED
  BY <1>2, <1>3, <1>4 DEF SplitPoint

\* Whichever donor and kind borrow_work picks, it cuts an active range between
\* its cursor and its end.
LEMMA BorrowCutsInside ==
  ASSUME IInv, NEW c \in Connections, NEW limit \in Nat, NEW slow \in MaybeSlow(c, limit),
         NEW d \in Index, NEW kind \in BorrowKind,
         Borrowable(c, limit, slow, d, kind)
  PROVE  /\ dl_ranges[d].status = "ACTIVE"
         /\ SplitPoint(d, kind) \in Nat
         /\ dl_ranges[d].cursor <= SplitPoint(d, kind)
         /\ SplitPoint(d, kind) <= dl_ranges[d].end
<1>1. d \in BusyElsewhere(c, 2 * limit)
  BY DEF Borrowable, SelectBorrowCandidate, FirstLargest, Stragglers
<1>2. dl_ranges[d].status = "ACTIVE"
  BY <1>1 DEF BusyElsewhere
<1>3. SplitPoint(d, kind) \in Int
  BY SplitPointIsInt DEF IInv
<1>4. dl_ranges[d].cursor \in Nat /\ dl_ranges[d].end \in Nat
  <2>1. dl_ranges[d] \in ActiveRange
    BY DEF IInv, TypeOK, Index
  <2>2. QED
    BY <2>1 DEF ActiveRange
<1>5. QED
  BY <1>2, <1>3, <1>4 DEF Borrowable, SplitAllowed

\* The limit below which nothing is borrowed is a number.
LEMMA LimitIsNat ==
  ASSUME NEW adaptive \in AdaptiveSteals
  PROVE  EffectiveBorrowLimit(adaptive) \in Nat
BY CoordinatorAssumption DEF EffectiveBorrowLimit

\* get_work, all three passes.
LEMMA GetWorkKeepsInvariant ==
  ASSUME IInv, NEW c \in Connections, NEW i \in 1..(Len(dl_ranges) + 1), GetWork(c, i)
  PROVE  IInv'
<1>1. /\ dl_ranges \in Seq(ActiveRange) /\ Len(dl_ranges) \in Nat
      /\ borrow_cursor \in 0..Len(dl_ranges)
      /\ Index = 1..Len(dl_ranges)
      /\ halted \in BOOLEAN
  BY DEF IInv, TypeOK, Index
<1>2. CASE AssignSeed(c, i) \/ Reassign(c, i)
  <2>1. i \in Index
    BY <1>2 DEF AssignSeed, Reassign, SeedCandidates, Relinquished
  <2>2. /\ dl_ranges' \in Seq(ActiveRange)
        /\ Len(dl_ranges') = Len(dl_ranges)
        /\ EveryByteInOneRange'
        /\ CursorInsideRange'
        /\ StatusMatchesOwner'
    <3>1. dl_ranges' = [dl_ranges EXCEPT ![i].assigned_to = c, ![i].status = "ACTIVE"]
      BY <1>2 DEF AssignSeed, Reassign, Assign
    <3>2. c # Unassigned
      BY CoordinatorAssumption
    <3>3. QED
      BY <2>1, <3>1, <3>2, RestampKeepsInvariant DEF Status
  <2>3. next_unassigned_idx' \in 1..(Len(dl_ranges) + 1)
    BY <1>1, <1>2, <2>1 DEF AssignSeed, Reassign, SeedPassExhausted
  <2>4. borrow_cursor' = borrow_cursor /\ halted' = halted
    BY <1>2 DEF AssignSeed, Reassign
  <2>5. QED
    BY <1>1, <2>2, <2>3, <2>4 DEF IInv, TypeOK
<1>3. CASE Borrow(c)
  <2>1. PICK adaptive \in AdaptiveSteals :
          \E slow \in MaybeSlow(c, EffectiveBorrowLimit(adaptive)), d \in Index, kind \in BorrowKind :
            /\ Borrowable(c, EffectiveBorrowLimit(adaptive), slow, d, kind)
            /\ Split(c, d, SplitPoint(d, kind))
    BY <1>3 DEF Borrow
  <2>2. PICK slow \in MaybeSlow(c, EffectiveBorrowLimit(adaptive)), d \in Index, kind \in BorrowKind :
            /\ Borrowable(c, EffectiveBorrowLimit(adaptive), slow, d, kind)
            /\ Split(c, d, SplitPoint(d, kind))
    BY <2>1
  <2>3. /\ dl_ranges[d].status = "ACTIVE"
        /\ SplitPoint(d, kind) \in Nat
        /\ dl_ranges[d].cursor <= SplitPoint(d, kind)
        /\ SplitPoint(d, kind) <= dl_ranges[d].end
    BY <2>2, LimitIsNat, BorrowCutsInside
  <2>4. /\ dl_ranges' \in Seq(ActiveRange)
        /\ Len(dl_ranges') = Len(dl_ranges) + 1
        /\ EveryByteInOneRange'
        /\ CursorInsideRange'
        /\ StatusMatchesOwner'
    BY <2>2, <2>3, SplitKeepsInvariant
  <2>5. next_unassigned_idx' = Len(dl_ranges) + 1 /\ borrow_cursor' = d /\ halted' = halted
    BY <1>3, <2>2 DEF Borrow, SeedPassExhausted, Split
  <2>6. QED
    BY <1>1, <2>4, <2>5 DEF IInv, TypeOK
<1>4. QED
  BY <1>2, <1>3 DEF GetWork

\* A worker's progress stays inside the range it owns.
LEMMA AdvanceKeepsInvariant ==
  ASSUME IInv, NEW i \in Index, NEW chunk \in Chunks, Advance(i, chunk)
  PROVE  IInv'
<1> DEFINE r == dl_ranges[i]
           step == IF chunk < Remaining(r) THEN chunk ELSE Remaining(r)
           moved == [r EXCEPT !.cursor = r.cursor + step]
<1>1. dl_ranges \in Seq(ActiveRange) /\ r \in ActiveRange
  BY DEF IInv, TypeOK, Index
<1>2. /\ Remaining(r) \in Nat /\ Remaining(r) > 0
      /\ r.cursor < r.end /\ Remaining(r) = r.end - r.cursor
      /\ r.status = "ACTIVE"
  BY <1>1, RemainingBounds DEF Advance
<1>3. step \in Nat /\ step <= Remaining(r)
  BY <1>2, CoordinatorAssumption
<1> HIDE DEF step
<1>4. /\ moved \in ActiveRange
      /\ moved.byte_start = r.byte_start
      /\ moved.cursor = r.cursor + step
      /\ moved.end = r.end
      /\ moved.assigned_to = r.assigned_to
      /\ moved.status = "ACTIVE"
  <2>1. r.cursor + step \in Nat
    BY <1>1, <1>3 DEF ActiveRange
  <2>2. QED
    BY <1>1, <1>2, <2>1 DEF ActiveRange
<1>5. dl_ranges' = [dl_ranges EXCEPT ![i] = moved]
  <2>1. dl_ranges' = [dl_ranges EXCEPT ![i].cursor = dl_ranges[i].cursor + step]
    BY DEF Advance, step
  <2>2. QED
    BY <1>1, <2>1
<1> HIDE DEF moved
<1>6. /\ dl_ranges' \in Seq(ActiveRange)
      /\ DOMAIN dl_ranges' = DOMAIN dl_ranges
      /\ Len(dl_ranges') = Len(dl_ranges)
      /\ \A j \in Index : dl_ranges'[j] = IF j = i THEN moved ELSE dl_ranges[j]
  BY <1>1, <1>4, <1>5, CellUpdate DEF Index
<1>7. TypeOK'
  BY <1>6 DEF IInv, TypeOK, Advance
<1>8. EveryByteInOneRange'
  BY <1>4, <1>6, SameSpans DEF IInv
<1>9. CursorInsideRange'
  <2>1. moved.byte_start <= moved.cursor /\ moved.cursor <= moved.end /\ moved.end <= Total
    <3>1. r.byte_start <= r.cursor /\ r.end <= Total
      BY DEF IInv, CursorInsideRange
    <3>2. r.byte_start \in Nat /\ r.cursor \in Nat /\ r.end \in Nat
      BY <1>1 DEF ActiveRange
    <3>3. QED
      BY <1>2, <1>3, <1>4, <3>1, <3>2
  <2>2. QED
    BY <2>1, <1>6 DEF IInv, CursorInsideRange, Index
<1>10. StatusMatchesOwner'
  BY <1>2, <1>4, <1>6 DEF IInv, StatusMatchesOwner, Index
<1>11. QED
  BY <1>7, <1>8, <1>9, <1>10 DEF IInv

\* A range finishes at its end, and an owner may give any active range back.
LEMMA ReleaseKeepsInvariant ==
  ASSUME IInv, NEW i \in Index, FinishRange(i) \/ RelinquishRange(i)
  PROVE  IInv'
<1> DEFINE r == dl_ranges[i]
<1>1. /\ r \in ActiveRange /\ r.status = "ACTIVE"
      /\ r.assigned_to # Unassigned
  BY DEF IInv, TypeOK, StatusMatchesOwner, FinishRange, RelinquishRange, Index
<1>2. CASE FinishRange(i)
  <2>1. dl_ranges' = [dl_ranges EXCEPT ![i].assigned_to = r.assigned_to, ![i].status = "FINISHED"]
    BY <1>2, <1>1 DEF FinishRange, IInv, TypeOK, ActiveRange, Index
  <2>2. r.cursor = r.end
    BY <1>2, <1>1 DEF FinishRange, IInv, CursorInsideRange, ActiveRange
  <2>3. /\ dl_ranges' \in Seq(ActiveRange)
        /\ Len(dl_ranges') = Len(dl_ranges)
        /\ EveryByteInOneRange'
        /\ CursorInsideRange'
        /\ StatusMatchesOwner'
    BY <1>1, <2>1, <2>2, RestampKeepsInvariant DEF ActiveRange, Status
  <2>4. QED
    BY <1>2, <2>3 DEF FinishRange, IInv, TypeOK
<1>3. CASE RelinquishRange(i)
  <2>1. /\ dl_ranges' \in Seq(ActiveRange)
        /\ Len(dl_ranges') = Len(dl_ranges)
        /\ EveryByteInOneRange'
        /\ CursorInsideRange'
        /\ StatusMatchesOwner'
    BY <1>3, RestampKeepsInvariant DEF RelinquishRange, Status
  <2>2. QED
    BY <1>3, <2>1 DEF RelinquishRange, IInv, TypeOK
<1>4. QED
  BY <1>2, <1>3

\* from_snapshot changes owners and states only, and only of unfinished ranges.
LEMMA ResumeEffect ==
  ASSUME IInv, ResumeFromSnapshot
  PROVE  /\ dl_ranges' \in Seq(ActiveRange)
         /\ DOMAIN dl_ranges' = DOMAIN dl_ranges
         /\ Len(dl_ranges') = Len(dl_ranges)
         /\ \A i \in Index :
              /\ dl_ranges'[i].byte_start = dl_ranges[i].byte_start
              /\ dl_ranges'[i].cursor = dl_ranges[i].cursor
              /\ dl_ranges'[i].end = dl_ranges[i].end
              /\ dl_ranges[i].status = "FINISHED" => dl_ranges'[i] = dl_ranges[i]
              /\ dl_ranges[i].status # "FINISHED" =>
                   dl_ranges'[i].assigned_to = Unassigned /\ dl_ranges'[i].status = "PENDING"
<1>1. /\ dl_ranges \in Seq(ActiveRange) /\ Len(dl_ranges) \in Nat
      /\ Index = 1..Len(dl_ranges)
      /\ \A i \in Index : dl_ranges[i] \in ActiveRange
  BY DEF IInv, TypeOK, Index
<1>2. \A i \in Index :
        /\ Normalised(dl_ranges[i]) \in ActiveRange
        /\ Normalised(dl_ranges[i]).byte_start = dl_ranges[i].byte_start
        /\ Normalised(dl_ranges[i]).cursor = dl_ranges[i].cursor
        /\ Normalised(dl_ranges[i]).end = dl_ranges[i].end
        /\ dl_ranges[i].status = "FINISHED" => Normalised(dl_ranges[i]) = dl_ranges[i]
        /\ dl_ranges[i].status # "FINISHED" =>
             /\ Normalised(dl_ranges[i]).assigned_to = Unassigned
             /\ Normalised(dl_ranges[i]).status = "PENDING"
  BY <1>1 DEF Normalised, ActiveRange, Status
<1>3. dl_ranges' = [i \in 1..Len(dl_ranges) |-> Normalised(dl_ranges[i])]
  BY <1>1 DEF ResumeFromSnapshot
<1>4. dl_ranges' \in [1..Len(dl_ranges) -> ActiveRange]
  BY <1>1, <1>2, <1>3
<1>5. dl_ranges' \in Seq(ActiveRange) /\ Len(dl_ranges') = Len(dl_ranges)
  BY <1>1, <1>4, SeqDef
<1>6. QED
  BY <1>1, <1>2, <1>3, <1>5 DEF Index

\* A resumed table is as good as the one that was saved.
LEMMA ResumeKeepsInvariant ==
  ASSUME IInv, ResumeFromSnapshot
  PROVE  IInv'
<1>1. TypeOK'
  BY ResumeEffect DEF IInv, TypeOK, ResumeFromSnapshot
<1>2. EveryByteInOneRange'
  BY ResumeEffect, SameSpans DEF IInv
<1>3. CursorInsideRange'
  BY ResumeEffect DEF IInv, CursorInsideRange, Index
<1>4. StatusMatchesOwner'
  BY ResumeEffect DEF IInv, StatusMatchesOwner, Index
<1>5. QED
  BY <1>1, <1>2, <1>3, <1>4 DEF IInv

\* Steps that leave the table itself alone.
LEMMA TableUnchanged ==
  ASSUME IInv, UNCHANGED dl_ranges,
         next_unassigned_idx' \in {next_unassigned_idx, Len(dl_ranges) + 1},
         UNCHANGED borrow_cursor, halted' \in BOOLEAN
  PROVE  IInv'
<1>1. Len(dl_ranges) \in Nat
  BY DEF IInv, TypeOK
<1>2. TypeOK'
  BY <1>1 DEF IInv, TypeOK
<1>3. QED
  BY <1>2 DEF IInv, EveryByteInOneRange, CursorInsideRange, StatusMatchesOwner, Covers, Index

\* Every operation of the table keeps the invariant.
LEMMA StepInvariant == IInv /\ [Next]_vars => IInv'
<1> SUFFICES ASSUME IInv, [Next]_vars PROVE IInv'
  OBVIOUS
<1>1. ASSUME NEW c \in Connections, NEW i \in 1..(Len(dl_ranges) + 1), GetWork(c, i)
      PROVE  IInv'
  BY <1>1, GetWorkKeepsInvariant
<1>2. ASSUME NEW c \in Connections, NoWork(c) PROVE IInv'
  BY <1>2, TableUnchanged DEF NoWork, SeedPassExhausted, IInv, TypeOK
<1>3. ASSUME NEW i \in Index, NEW chunk \in Chunks, Advance(i, chunk) PROVE IInv'
  BY <1>3, AdvanceKeepsInvariant
<1>4. ASSUME NEW i \in Index, FinishRange(i) \/ RelinquishRange(i) PROVE IInv'
  BY <1>4, ReleaseKeepsInvariant
<1>5. CASE Halt
  BY <1>5, TableUnchanged DEF Halt
<1>6. CASE ResumeFromSnapshot
  BY <1>6, ResumeKeepsInvariant
<1>7. CASE UNCHANGED vars
  BY <1>7, TableUnchanged DEF vars, IInv, TypeOK
<1>8. QED
  BY <1>1, <1>2, <1>3, <1>4, <1>5, <1>6, <1>7 DEF Next

\* The invariant holds in every reachable state.
LEMMA Invariance == Spec => []IInv
BY InitInvariant, StepInvariant, PTL DEF Spec

\* The cells keep their types and both scan positions stay inside the vector,
\* whatever connections, splits, pauses and resumes do.
THEOREM TypeCorrect == Spec => []TypeOK
<1>1. IInv => TypeOK
  BY DEF IInv
<1>2. QED
  BY <1>1, Invariance, PTL

\* Every byte of the file is in exactly one range for ever: stealing, giving
\* back and resuming neither duplicate nor lose a byte of any file.
THEOREM Tiling == Spec => []EveryByteInOneRange
<1>1. IInv => EveryByteInOneRange
  BY DEF IInv
<1>2. QED
  BY <1>1, Invariance, PTL

\* No theft ever cuts a range behind the byte its owner has reached.
THEOREM CursorsInside == Spec => []CursorInsideRange
<1>1. IInv => CursorInsideRange
  BY DEF IInv
<1>2. QED
  BY <1>1, Invariance, PTL

\* Finished means read to the end, and unowned means waiting to be handed out.
THEOREM StatusesMatchOwners == Spec => []StatusMatchesOwner
<1>1. IInv => StatusMatchesOwner
  BY DEF IInv
<1>2. QED
  BY <1>1, Invariance, PTL

\* "No more work" loses nothing: whatever is neither read nor waiting is being
\* downloaded by somebody.
THEOREM NothingIsLeftBehind == Spec => []NothingLeftBehind
<1>1. IInv => NothingLeftBehind
  <2> SUFFICES ASSUME IInv, Relinquished = {}, NEW b \in Byte
               PROVE  b \in Fetched \cup Claimed
    BY DEF NothingLeftBehind, Fetched, Claimed, ReadIn, ClaimedIn
  <2>1. PICK i \in Index : Covers(dl_ranges[i], b)
    BY DEF IInv, EveryByteInOneRange
  <2>2. dl_ranges[i] \in ActiveRange /\ b \in Int
    BY CoordinatorAssumption DEF IInv, TypeOK, Index, Byte
  <2>3. CASE b < dl_ranges[i].cursor
    BY <2>1, <2>3 DEF Fetched, ReadIn, Covers, Index
  <2>4. CASE dl_ranges[i].cursor <= b
    <3>1. dl_ranges[i].cursor < dl_ranges[i].end
      BY <2>1, <2>2, <2>4 DEF Covers, ActiveRange
    <3>2. dl_ranges[i].status = "ACTIVE"
      BY <3>1, <2>2 DEF IInv, StatusMatchesOwner, Relinquished, ActiveRange, Status
    <3>3. QED
      BY <2>1, <2>4, <3>2 DEF Claimed, ClaimedIn, Covers, Index
  <2>5. QED
    BY <2>2, <2>3, <2>4 DEF ActiveRange
<1>2. QED
  BY <1>1, Invariance, PTL

-----------------------------------------------------------------------------
(* What a step may not do. *)

\* The cells a step can touch: every other range keeps all of its cells.
LEMMA StepTouches ==
  ASSUME IInv, [Next]_vars
  PROVE  \A j \in Index : dl_ranges[j].status = "FINISHED" => dl_ranges'[j] = dl_ranges[j]
<1> SUFFICES ASSUME NEW j \in Index, dl_ranges[j].status = "FINISHED"
             PROVE  dl_ranges'[j] = dl_ranges[j]
  OBVIOUS
<1>1. /\ dl_ranges \in Seq(ActiveRange)
      /\ dl_ranges[j].assigned_to # Unassigned
  BY DEF IInv, TypeOK, StatusMatchesOwner, Index
<1>2. ASSUME NEW c \in Connections, NEW i \in 1..(Len(dl_ranges) + 1), GetWork(c, i)
      PROVE  dl_ranges'[j] = dl_ranges[j]
  <2>1. CASE AssignSeed(c, i) \/ Reassign(c, i)
    BY <1>1, <2>1 DEF AssignSeed, Reassign, Assign, SeedCandidates, Relinquished, Index
  <2>2. CASE Borrow(c)
    <3>1. PICK adaptive \in AdaptiveSteals :
            \E slow \in MaybeSlow(c, EffectiveBorrowLimit(adaptive)), d \in Index, kind \in BorrowKind :
              /\ Borrowable(c, EffectiveBorrowLimit(adaptive), slow, d, kind)
              /\ Split(c, d, SplitPoint(d, kind))
      BY <2>2 DEF Borrow
    <3>2. PICK slow \in MaybeSlow(c, EffectiveBorrowLimit(adaptive)), d \in Index, kind \in BorrowKind :
              /\ Borrowable(c, EffectiveBorrowLimit(adaptive), slow, d, kind)
              /\ Split(c, d, SplitPoint(d, kind))
      BY <3>1
    <3>3. d # j /\ SplitPoint(d, kind) \in Nat
      BY <3>2, LimitIsNat, BorrowCutsInside
    <3>4. dl_ranges[d] \in ActiveRange
      BY <1>1 DEF Index
    <3>5. /\ [dl_ranges[d] EXCEPT !.end = SplitPoint(d, kind)] \in ActiveRange
          /\ [byte_start |-> SplitPoint(d, kind), cursor |-> SplitPoint(d, kind),
              end |-> dl_ranges[d].end, assigned_to |-> c, status |-> "ACTIVE"] \in ActiveRange
      BY <3>3, <3>4 DEF ActiveRange, Status
    <3>6. QED
      BY <1>1, <3>2, <3>3, <3>5 DEF Split, Index
  <2>3. QED
    BY <1>2, <2>1, <2>2 DEF GetWork
<1>3. ASSUME NEW c \in Connections, NoWork(c) PROVE dl_ranges'[j] = dl_ranges[j]
  BY <1>3 DEF NoWork
<1>4. ASSUME NEW i \in Index, NEW chunk \in Chunks, Advance(i, chunk)
      PROVE  dl_ranges'[j] = dl_ranges[j]
  BY <1>1, <1>4 DEF Advance, Index
<1>5. ASSUME NEW i \in Index, FinishRange(i) \/ RelinquishRange(i)
      PROVE  dl_ranges'[j] = dl_ranges[j]
  BY <1>1, <1>5 DEF FinishRange, RelinquishRange, Index
<1>6. CASE Halt
  BY <1>6 DEF Halt
<1>7. CASE ResumeFromSnapshot
  BY <1>7, ResumeEffect
<1>8. CASE UNCHANGED vars
  BY <1>8 DEF vars
<1>9. QED
  BY <1>2, <1>3, <1>4, <1>5, <1>6, <1>7, <1>8 DEF Next

\* A finished range is never handed out, cut or reset again.
THEOREM FinishedStays == Spec => FinishedIsFinal
<1>1. IInv /\ [Next]_vars =>
        [\A i \in Index :
           dl_ranges[i].status = "FINISHED" => dl_ranges'[i] = dl_ranges[i]]_vars
  BY StepTouches
<1>2. QED
  BY <1>1, Invariance, PTL DEF Spec, FinishedIsFinal

-----------------------------------------------------------------------------
(* The table implements the ledger of bytes. *)

\* No byte is both read and still claimed.
LEMMA ReadNotClaimed == IInv => Fetched \cap Claimed = {}
<1> SUFFICES ASSUME IInv, NEW b \in Byte,
                    NEW i \in Index, dl_ranges[i].byte_start <= b, b < dl_ranges[i].cursor,
                    NEW j \in Index, dl_ranges[j].cursor <= b, b < dl_ranges[j].end
             PROVE  FALSE
  BY DEF Fetched, Claimed, ReadIn, ClaimedIn, Index
<1>1. /\ dl_ranges[i] \in ActiveRange /\ dl_ranges[j] \in ActiveRange /\ b \in Int
      /\ dl_ranges[i].cursor <= dl_ranges[i].end
      /\ dl_ranges[j].byte_start <= dl_ranges[j].cursor
  BY CoordinatorAssumption DEF IInv, TypeOK, CursorInsideRange, Index, Byte
<1>2. Covers(dl_ranges[i], b) /\ Covers(dl_ranges[j], b)
  BY <1>1 DEF Covers, ActiveRange
<1>3. i = j
  BY <1>2 DEF IInv, EveryByteInOneRange
<1>4. QED
  BY <1>1, <1>3 DEF ActiveRange

\* A step that moves no cursor and no span reads nothing.
LEMMA SameReads ==
  ASSUME DOMAIN dl_ranges' = DOMAIN dl_ranges,
         \A i \in Index : /\ dl_ranges'[i].byte_start = dl_ranges[i].byte_start
                          /\ dl_ranges'[i].cursor = dl_ranges[i].cursor
  PROVE  Fetched' = Fetched
BY DEF Fetched, ReadIn, Index, Byte

\* Owner and state of one range change; the bytes of the table do not.
LEMMA RestampEffect ==
  ASSUME IInv, NEW i \in Index, NEW w, NEW st,
         dl_ranges' = [dl_ranges EXCEPT ![i].assigned_to = w, ![i].status = st]
  PROVE  /\ DOMAIN dl_ranges' = DOMAIN dl_ranges
         /\ \A j \in Index : dl_ranges'[j].byte_start = dl_ranges[j].byte_start
         /\ \A j \in Index : dl_ranges'[j].cursor = dl_ranges[j].cursor
         /\ \A j \in Index : dl_ranges'[j].end = dl_ranges[j].end
         /\ \A j \in Index : j # i => dl_ranges'[j].status = dl_ranges[j].status
<1>1. dl_ranges \in Seq(ActiveRange) /\ \A j \in Index : dl_ranges[j] \in ActiveRange
  BY DEF IInv, TypeOK, Index
<1>2. QED
  BY <1>1 DEF Index, ActiveRange

\* A step that reads nothing and only adds claims is the ledger's Claim.
LEMMA GrowingIsClaim ==
  ASSUME IInv', Fetched' = Fetched, Claimed \subseteq Claimed'
  PROVE  Ledger!Claim
<1>1. (IInv => Fetched \cap Claimed = {})'
  BY ReadNotClaimed, PTL
<1>2. Claimed' \subseteq Byte
  BY DEF Claimed, ClaimedIn, Byte
<1>3. QED
  BY <1>1, <1>2 DEF Ledger!Claim, Ledger!Byte, Byte

\* Handing a waiting range out claims bytes nobody has read.
LEMMA AssignClaims ==
  ASSUME IInv, IInv', NEW c \in Connections, NEW i \in Index,
         dl_ranges[i].status = "PENDING", Assign(c, i)
  PROVE  Ledger!Claim
<1>1. dl_ranges' = [dl_ranges EXCEPT ![i].assigned_to = c, ![i].status = "ACTIVE"]
  BY DEF Assign
<1>2. /\ DOMAIN dl_ranges' = DOMAIN dl_ranges
      /\ \A j \in Index : dl_ranges'[j].byte_start = dl_ranges[j].byte_start
      /\ \A j \in Index : dl_ranges'[j].cursor = dl_ranges[j].cursor
      /\ \A j \in Index : dl_ranges'[j].end = dl_ranges[j].end
      /\ \A j \in Index : j # i => dl_ranges'[j].status = dl_ranges[j].status
  BY <1>1, RestampEffect
<1>3. Fetched' = Fetched
  BY <1>2, SameReads
<1>4. Claimed \subseteq Claimed'
  <2> SUFFICES ASSUME NEW b \in Byte, NEW j \in Index,
                      dl_ranges[j].status = "ACTIVE",
                      dl_ranges[j].cursor <= b, b < dl_ranges[j].end
               PROVE  /\ j \in Index' /\ dl_ranges'[j].status = "ACTIVE"
                      /\ dl_ranges'[j].cursor <= b /\ b < dl_ranges'[j].end
    BY DEF Claimed, ClaimedIn, Index, Byte
  <2>1. j # i
    OBVIOUS
  <2>2. QED
    BY <1>2, <2>1 DEF Index
<1>5. QED
  BY <1>3, <1>4, GrowingIsClaim

\* A split gives the thief bytes the donor had claimed: no byte changes hands
\* twice, none loses its claim.
LEMMA SplitClaims ==
  ASSUME IInv, IInv', NEW c \in Connections, NEW d \in Index, NEW cut \in Nat,
         dl_ranges[d].status = "ACTIVE",
         dl_ranges[d].cursor <= cut, cut <= dl_ranges[d].end,
         Split(c, d, cut)
  PROVE  Ledger!Claim
<1> DEFINE piece == [byte_start |-> cut, cursor |-> cut, end |-> dl_ranges[d].end,
                     assigned_to |-> c, status |-> "ACTIVE"]
           donor == [dl_ranges[d] EXCEPT !.end = cut]
           n == Len(dl_ranges)
<1>1. dl_ranges \in Seq(ActiveRange) /\ dl_ranges[d] \in ActiveRange /\ n \in Nat
      /\ Index = 1..n
  BY DEF IInv, TypeOK, Index
<1>2. piece \in ActiveRange /\ donor \in ActiveRange
  BY <1>1 DEF ActiveRange, Status
<1>3. dl_ranges' = Append([dl_ranges EXCEPT ![d] = donor], piece)
  BY <1>1 DEF Split
<1>4. /\ DOMAIN dl_ranges' = 1..(n + 1)
      /\ dl_ranges'[n + 1] = piece
      /\ dl_ranges'[d] = donor
      /\ \A j \in Index : j # d => dl_ranges'[j] = dl_ranges[j]
  <2> HIDE DEF piece, donor
  <2>1. QED
    BY <1>1, <1>2, <1>3 DEF Index
<1>5. /\ donor.byte_start = dl_ranges[d].byte_start
      /\ donor.cursor = dl_ranges[d].cursor
      /\ donor.end = cut
      /\ donor.status = "ACTIVE"
      /\ piece.byte_start = cut /\ piece.cursor = cut
      /\ piece.end = dl_ranges[d].end /\ piece.status = "ACTIVE"
  BY <1>1 DEF ActiveRange
<1> HIDE DEF piece, donor
<1>6. Fetched' = Fetched
  <2>1. ASSUME NEW b \in Byte, NEW j \in 1..(n + 1),
               dl_ranges'[j].byte_start <= b, b < dl_ranges'[j].cursor
        PROVE  \E k \in Index : dl_ranges[k].byte_start <= b /\ b < dl_ranges[k].cursor
    <3>0. b \in Int
      BY CoordinatorAssumption DEF Byte
    <3>1. j # n + 1
      BY <1>1, <1>4, <1>5, <2>1, <3>0
    <3>2. j \in Index
      BY <1>1, <3>1
    <3>3. QED
      BY <1>4, <1>5, <2>1, <3>2
  <2>2. ASSUME NEW b \in Byte, NEW k \in Index,
               dl_ranges[k].byte_start <= b, b < dl_ranges[k].cursor
        PROVE  \E j \in 1..(n + 1) : dl_ranges'[j].byte_start <= b /\ b < dl_ranges'[j].cursor
    <3>1. dl_ranges'[k].byte_start <= b /\ b < dl_ranges'[k].cursor
      BY <1>4, <1>5, <2>2
    <3>2. k \in 1..(n + 1)
      BY <1>1
    <3>3. QED
      BY <3>1, <3>2
  <2>3. QED
    BY <1>4, <2>1, <2>2 DEF Fetched, ReadIn, Index, Byte
<1>7. Claimed \subseteq Claimed'
  <2> SUFFICES ASSUME NEW b \in Byte, NEW j \in Index,
                      dl_ranges[j].status = "ACTIVE",
                      dl_ranges[j].cursor <= b, b < dl_ranges[j].end
               PROVE  \E k \in 1..(n + 1) :
                        /\ dl_ranges'[k].status = "ACTIVE"
                        /\ dl_ranges'[k].cursor <= b /\ b < dl_ranges'[k].end
    BY <1>4 DEF Claimed, ClaimedIn, Index, Byte
  <2>1. b \in Int /\ j \in 1..(n + 1) /\ n + 1 \in 1..(n + 1)
    BY <1>1, CoordinatorAssumption DEF Byte
  <2>2. CASE j # d
    BY <1>4, <2>1, <2>2
  <2>3. CASE j = d /\ b < cut
    BY <1>4, <1>5, <2>1, <2>3
  <2>4. CASE j = d /\ cut <= b
    BY <1>4, <1>5, <2>1, <2>4
  <2>5. QED
    BY <2>1, <2>2, <2>3, <2>4
<1>8. QED
  BY <1>6, <1>7, GrowingIsClaim

\* Every grant of get_work is a claim.
LEMMA GetWorkClaims ==
  ASSUME IInv, IInv', NEW c \in Connections, NEW i \in 1..(Len(dl_ranges) + 1), GetWork(c, i)
  PROVE  Ledger!Claim
<1>1. CASE AssignSeed(c, i) \/ Reassign(c, i)
  <2>1. i \in Index /\ dl_ranges[i].status = "PENDING" /\ Assign(c, i)
    BY <1>1 DEF AssignSeed, Reassign, SeedCandidates, Relinquished, IInv, StatusMatchesOwner
  <2>2. QED
    BY <2>1, AssignClaims
<1>2. CASE Borrow(c)
  <2>1. PICK adaptive \in AdaptiveSteals :
          \E slow \in MaybeSlow(c, EffectiveBorrowLimit(adaptive)), d \in Index, kind \in BorrowKind :
            /\ Borrowable(c, EffectiveBorrowLimit(adaptive), slow, d, kind)
            /\ Split(c, d, SplitPoint(d, kind))
    BY <1>2 DEF Borrow
  <2>2. PICK slow \in MaybeSlow(c, EffectiveBorrowLimit(adaptive)), d \in Index, kind \in BorrowKind :
            /\ Borrowable(c, EffectiveBorrowLimit(adaptive), slow, d, kind)
            /\ Split(c, d, SplitPoint(d, kind))
    BY <2>1
  <2>3. QED
    BY <2>2, LimitIsNat, BorrowCutsInside, SplitClaims
<1>3. QED
  BY <1>1, <1>2 DEF GetWork

\* A piece of body turns claimed bytes into fetched ones.
LEMMA AdvanceFetches ==
  ASSUME IInv, IInv', NEW i \in Index, NEW chunk \in Chunks, Advance(i, chunk)
  PROVE  Ledger!Fetch
<1> DEFINE step == IF chunk < Remaining(dl_ranges[i]) THEN chunk ELSE Remaining(dl_ranges[i])
           new == dl_ranges[i].cursor + step
           rec == [dl_ranges[i] EXCEPT !.cursor = new]
<1>1. /\ dl_ranges \in Seq(ActiveRange) /\ dl_ranges[i] \in ActiveRange
      /\ \A j \in Index : dl_ranges[j] \in ActiveRange
  BY DEF IInv, TypeOK, Index
<1>2. dl_ranges[i].cursor \in Nat /\ dl_ranges[i].end \in Nat /\ chunk \in Nat /\ chunk > 0
  BY <1>1, CoordinatorAssumption DEF ActiveRange
<1>3. /\ new \in Nat /\ dl_ranges[i].cursor <= new /\ new <= dl_ranges[i].end
      /\ dl_ranges[i].status = "ACTIVE"
  BY <1>2 DEF Remaining, Advance
<1>4. dl_ranges' = [dl_ranges EXCEPT ![i] = rec]
  BY <1>1 DEF Advance
<1>5. rec \in ActiveRange
  BY <1>1, <1>3 DEF ActiveRange
<1>6. /\ rec.byte_start = dl_ranges[i].byte_start /\ rec.cursor = new
      /\ rec.end = dl_ranges[i].end /\ rec.status = "ACTIVE"
  BY <1>1, <1>3 DEF ActiveRange
<1> HIDE DEF step, new, rec
<1>7. /\ DOMAIN dl_ranges' = Index
      /\ dl_ranges'[i] = rec
      /\ \A j \in Index : j # i => dl_ranges'[j] = dl_ranges[j]
  BY <1>1, <1>4, <1>5 DEF Index
<1>8. Fetched \subseteq Fetched'
  <2> SUFFICES ASSUME NEW b \in Byte, NEW j \in Index,
                      dl_ranges[j].byte_start <= b, b < dl_ranges[j].cursor
               PROVE  dl_ranges'[j].byte_start <= b /\ b < dl_ranges'[j].cursor
    BY <1>7 DEF Fetched, ReadIn, Index, Byte
  <2>1. b \in Int
    BY CoordinatorAssumption DEF Byte
  <2>2. QED
    BY <1>2, <1>3, <1>6, <1>7, <2>1
<1>9. Fetched' \subseteq Fetched \cup Claimed
  <2> SUFFICES ASSUME NEW b \in Byte, NEW j \in Index,
                      dl_ranges'[j].byte_start <= b, b < dl_ranges'[j].cursor
               PROVE  \/ dl_ranges[j].byte_start <= b /\ b < dl_ranges[j].cursor
                      \/ /\ dl_ranges[j].status = "ACTIVE"
                         /\ dl_ranges[j].cursor <= b /\ b < dl_ranges[j].end
    BY <1>7 DEF Fetched, Claimed, ReadIn, ClaimedIn, Index, Byte
  <2>1. b \in Int
    BY CoordinatorAssumption DEF Byte
  <2>2. CASE j # i
    BY <1>7, <2>2
  <2>3. CASE j = i
    BY <1>2, <1>3, <1>6, <1>7, <2>1, <2>3
  <2>4. QED
    BY <2>2, <2>3
<1>10. (IInv => Fetched \cap Claimed = {})'
  BY ReadNotClaimed, PTL
<1>11. Claimed' \subseteq Claimed
  <2> SUFFICES ASSUME NEW b \in Byte, NEW j \in Index,
                      dl_ranges'[j].status = "ACTIVE",
                      dl_ranges'[j].cursor <= b, b < dl_ranges'[j].end
               PROVE  /\ dl_ranges[j].status = "ACTIVE"
                      /\ dl_ranges[j].cursor <= b /\ b < dl_ranges[j].end
    BY <1>7 DEF Claimed, ClaimedIn, Index, Byte
  <2>1. b \in Int
    BY CoordinatorAssumption DEF Byte
  <2>2. QED
    BY <1>2, <1>3, <1>6, <1>7, <2>1
<1>12. Claimed \ Fetched' \subseteq Claimed'
  <2> SUFFICES ASSUME NEW b \in Byte, NEW j \in Index, b \notin Fetched',
                      dl_ranges[j].status = "ACTIVE",
                      dl_ranges[j].cursor <= b, b < dl_ranges[j].end
               PROVE  /\ dl_ranges'[j].status = "ACTIVE"
                      /\ dl_ranges'[j].cursor <= b /\ b < dl_ranges'[j].end
    BY <1>7 DEF Claimed, ClaimedIn, Index, Byte
  <2>1. b \in Int
    BY CoordinatorAssumption DEF Byte
  <2>2. CASE j # i
    BY <1>7, <2>2
  <2>3. CASE j = i
    <3>1. ~(dl_ranges'[i].byte_start <= b /\ b < dl_ranges'[i].cursor)
      BY <1>7 DEF Fetched, ReadIn, Index, Byte
    <3>2. dl_ranges[i].byte_start <= dl_ranges[i].cursor /\ dl_ranges[i].byte_start \in Nat
      BY <1>1 DEF IInv, CursorInsideRange, ActiveRange
    <3>3. QED
      BY <1>2, <1>3, <1>6, <1>7, <2>1, <2>3, <3>1, <3>2
  <2>4. QED
    BY <2>2, <2>3
<1>13. QED
  BY <1>8, <1>9, <1>10, <1>11, <1>12 DEF Ledger!Fetch

\* Finishing, relinquishing and resuming only give claims up.
LEMMA ShrinkingIsRelease ==
  ASSUME IInv, DOMAIN dl_ranges' = DOMAIN dl_ranges,
         \A j \in Index : dl_ranges'[j].byte_start = dl_ranges[j].byte_start,
         \A j \in Index : dl_ranges'[j].cursor = dl_ranges[j].cursor,
         \A j \in Index : dl_ranges'[j].end = dl_ranges[j].end,
         \A j \in Index : dl_ranges'[j].status = "ACTIVE" => dl_ranges[j].status = "ACTIVE"
  PROVE  Ledger!Release
<1>1. Fetched' = Fetched
  BY SameReads
<1>2. Claimed' \subseteq Claimed
  BY DEF Claimed, ClaimedIn, Index, Byte
<1>3. QED
  BY <1>1, <1>2 DEF Ledger!Release

\* Every step of the coordinator and of the workers is a step of the ledger.
LEMMA StepImplementsLedger ==
  ASSUME IInv, IInv', [Next]_vars
  PROVE  [Ledger!Next]_(Ledger!ledgerVars)
<1>1. ASSUME NEW c \in Connections, NEW i \in 1..(Len(dl_ranges) + 1), GetWork(c, i)
      PROVE  Ledger!Next
  BY <1>1, GetWorkClaims DEF Ledger!Next
<1>2. ASSUME dl_ranges' = dl_ranges PROVE UNCHANGED Ledger!ledgerVars
  BY <1>2 DEF Ledger!ledgerVars, Fetched, Claimed, ReadIn, ClaimedIn, Byte
<1>3. ASSUME NEW i \in Index, NEW chunk \in Chunks, Advance(i, chunk) PROVE Ledger!Next
  BY <1>3, AdvanceFetches DEF Ledger!Next
<1>4. ASSUME NEW i \in Index, FinishRange(i) PROVE Ledger!Next
  <2>1. dl_ranges \in Seq(ActiveRange) /\ \A j \in Index : dl_ranges[j] \in ActiveRange
    BY DEF IInv, TypeOK, Index
  <2>2. dl_ranges' = [dl_ranges EXCEPT ![i].status = "FINISHED"]
    BY <1>4 DEF FinishRange
  <2>3. /\ DOMAIN dl_ranges' = DOMAIN dl_ranges
        /\ \A j \in Index : dl_ranges'[j].byte_start = dl_ranges[j].byte_start
        /\ \A j \in Index : dl_ranges'[j].cursor = dl_ranges[j].cursor
        /\ \A j \in Index : dl_ranges'[j].end = dl_ranges[j].end
        /\ \A j \in Index : dl_ranges'[j].status = "ACTIVE" => dl_ranges[j].status = "ACTIVE"
    BY <2>1, <2>2 DEF Index, ActiveRange
  <2>4. QED
    BY <2>3, ShrinkingIsRelease DEF Ledger!Next
<1>5. ASSUME NEW i \in Index, RelinquishRange(i) PROVE Ledger!Next
  <2>1. dl_ranges' = [dl_ranges EXCEPT ![i].assigned_to = Unassigned, ![i].status = "PENDING"]
    BY <1>5 DEF RelinquishRange
  <2>2. /\ DOMAIN dl_ranges' = DOMAIN dl_ranges
        /\ \A j \in Index : dl_ranges'[j].byte_start = dl_ranges[j].byte_start
        /\ \A j \in Index : dl_ranges'[j].cursor = dl_ranges[j].cursor
        /\ \A j \in Index : dl_ranges'[j].end = dl_ranges[j].end
        /\ \A j \in Index : j # i => dl_ranges'[j].status = dl_ranges[j].status
    BY <2>1, RestampEffect
  <2>3. dl_ranges'[i].status = "PENDING"
    <3>1. dl_ranges \in Seq(ActiveRange) /\ dl_ranges[i] \in ActiveRange
      BY DEF IInv, TypeOK, Index
    <3>2. QED
      BY <2>1, <3>1 DEF Index, ActiveRange
  <2>4. \A j \in Index : dl_ranges'[j].status = "ACTIVE" => dl_ranges[j].status = "ACTIVE"
    BY <2>2, <2>3
  <2>5. QED
    BY <2>2, <2>4, ShrinkingIsRelease DEF Ledger!Next
<1>6. ASSUME ResumeFromSnapshot PROVE Ledger!Next
  <2>1. /\ DOMAIN dl_ranges' = DOMAIN dl_ranges
        /\ \A j \in Index : dl_ranges'[j].byte_start = dl_ranges[j].byte_start
        /\ \A j \in Index : dl_ranges'[j].cursor = dl_ranges[j].cursor
        /\ \A j \in Index : dl_ranges'[j].end = dl_ranges[j].end
    BY <1>6, ResumeEffect
  <2>2. \A j \in Index : dl_ranges'[j].status = "ACTIVE" => dl_ranges[j].status = "ACTIVE"
    BY <1>6, ResumeEffect
  <2>3. QED
    BY <2>1, <2>2, ShrinkingIsRelease DEF Ledger!Next
<1>7. CASE Next
  BY <1>1, <1>2, <1>3, <1>4, <1>5, <1>6, <1>7 DEF Next, NoWork, Halt
<1>8. CASE UNCHANGED vars
  BY <1>2, <1>8 DEF vars
<1>9. QED
  BY <1>7, <1>8

\* Before anything was handed out nothing is read and nothing is claimed.
LEMMA InitImplementsLedger == Init => Ledger!Init
<1> SUFFICES ASSUME Init PROVE Ledger!Init
  OBVIOUS
<1>1. \A i \in DOMAIN dl_ranges :
        /\ dl_ranges[i].status = "PENDING"
        /\ dl_ranges[i].cursor = dl_ranges[i].byte_start
        /\ dl_ranges[i].byte_start \in Nat
  <2>1. \A i \in DOMAIN Seeds : Seeds[i] \in Span
    BY SeedAssumption
  <2>2. \A i \in DOMAIN Seeds : Seeds[i].byte_start \in Nat
    BY <2>1 DEF Span
  <2>3. DOMAIN dl_ranges = DOMAIN Seeds
    BY DEF Init
  <2>4. QED
    BY <2>2, <2>3 DEF Init
<1>2. Byte \subseteq Int
  BY CoordinatorAssumption DEF Byte
<1>3. \A b \in Byte : ~\E i \in DOMAIN dl_ranges :
        dl_ranges[i].byte_start <= b /\ b < dl_ranges[i].cursor
  BY <1>1, <1>2
<1>4. \A b \in Byte : ~\E i \in DOMAIN dl_ranges : dl_ranges[i].status = "ACTIVE"
  BY <1>1
<1>5. Fetched = {}
  BY <1>3 DEF Fetched, ReadIn
<1>6. Claimed = {}
  BY <1>4 DEF Claimed, ClaimedIn
<1>7. QED
  BY <1>5, <1>6 DEF Ledger!Init

\* The range table implements the ledger of bytes: however ranges are cut,
\* given back and resumed, each byte is read at most once, by a connection
\* entitled to it, and never forgotten (coordinator.rs, borrowing.rs).
THEOREM ImplementsLedger == Spec => LedgerSpec
<1>1. Init => Ledger!Init
  BY InitImplementsLedger
<1>2. IInv /\ IInv' /\ [Next]_vars => [Ledger!Next]_(Ledger!ledgerVars)
  BY StepImplementsLedger
<1>3. QED
  BY <1>1, <1>2, Invariance, PTL DEF Spec, LedgerSpec, Ledger!Spec
-----------------------------------------------------------------------------
(* Two lemmas that stand for induction: a least counterexample.            *)

\* A set of natural numbers that is not empty has a least element.
LEMMA LeastNatural ==
  ASSUME NEW S \in SUBSET Nat, S # {}
  PROVE  \E m \in S : \A k \in S : m <= k
<1> DEFINE R == OpToRel(<, Nat)
<1>1. IsWellFoundedOn(R, Nat)
  BY NatLessThanWellFounded
<1>2. \A x, y \in Nat : x < y => <<x, y>> \in R
  BY Zenon DEF OpToRel
<1> HIDE DEF R
<1>3. PICK x \in S : \A y \in S : ~(<<y, x>> \in R)
  BY <1>1, WFMin
<1>4. ASSUME NEW k \in S PROVE ~(k < x)
  BY <1>2, <1>3, Zenon
<1>5. QED
  BY <1>4

\* Two functions that start alike and grow alike are alike.
LEMMA SameSums ==
  ASSUME NEW n \in Nat, NEW f, NEW g, f[0] = g[0],
         \A k \in 1..n : f[k - 1] = g[k - 1] => f[k] = g[k]
  PROVE  f[n] = g[n]
<1> DEFINE S == {k \in 0..n : f[k] # g[k]}
<1>1. S \in SUBSET Nat
  OBVIOUS
<1>2. ASSUME S # {} PROVE FALSE
  <2>1. PICK m \in S : \A k \in S : m <= k
    BY <1>1, <1>2, LeastNatural
  <2>2. m \in 1..n /\ m - 1 \in 0..n /\ ~(m <= m - 1)
    BY <2>1
  <2>3. f[m - 1] = g[m - 1]
    BY <2>1, <2>2
  <2>4. QED
    BY <2>1, <2>2, <2>3
<1>3. n \notin S /\ n \in 0..n
  BY <1>2
<1>4. QED
  BY <1>3

-----------------------------------------------------------------------------
(* The progress figure. *)

\* The bytes read in the first k ranges.
ReadBelow(k) ==
  {b \in Byte : \E i \in Index :
     i <= k /\ dl_ranges[i].byte_start <= b /\ b < dl_ranges[i].cursor}

\* One more range adds the bytes it counts as downloaded: they are in no other.
LEMMA ReadBelowGrows ==
  ASSUME IInv, NEW k \in Index
  PROVE  /\ IsFiniteSet(ReadBelow(k - 1)) /\ IsFiniteSet(ReadBelow(k))
         /\ Cardinality(ReadBelow(k)) = Cardinality(ReadBelow(k - 1)) + Downloaded(dl_ranges[k])
<1> DEFINE s == dl_ranges[k].byte_start
           c == dl_ranges[k].cursor
           piece == s..(c - 1)
<1>1. /\ \A i \in Index : dl_ranges[i] \in ActiveRange
      /\ Index \subseteq Int /\ Byte \subseteq Int /\ Total \in Nat
  BY CoordinatorAssumption DEF IInv, TypeOK, Index, Byte
<1>2. /\ s \in Nat /\ c \in Nat /\ dl_ranges[k].end \in Nat
      /\ s <= c /\ c <= dl_ranges[k].end /\ dl_ranges[k].end <= Total
  BY <1>1 DEF IInv, CursorInsideRange, ActiveRange
<1>3. Downloaded(dl_ranges[k]) = c - s
  BY <1>2 DEF Downloaded
<1>4. IsFiniteSet(Byte)
  BY <1>1, FS_Interval DEF Byte
<1>5. IsFiniteSet(ReadBelow(k - 1)) /\ IsFiniteSet(ReadBelow(k))
  <2>1. ReadBelow(k - 1) \in SUBSET Byte /\ ReadBelow(k) \in SUBSET Byte
    BY DEF ReadBelow
  <2>2. QED
    BY <1>4, <2>1, FS_Subset
<1>6. IsFiniteSet(piece) /\ Cardinality(piece) = c - s
  <2>1. s \in Int /\ c - 1 \in Int
    BY <1>2
  <2>2. IsFiniteSet(piece) /\ Cardinality(piece) = IF s > c - 1 THEN 0 ELSE (c - 1) - s + 1
    BY <2>1, FS_Interval
  <2>3. QED
    BY <1>2, <2>2
<1>7. ReadBelow(k) = ReadBelow(k - 1) \cup piece
  <2>1. ASSUME NEW b \in ReadBelow(k) PROVE b \in ReadBelow(k - 1) \cup piece
    <3>1. b \in Byte /\ b \in Int
      BY <1>1, <2>1 DEF ReadBelow
    <3>2. PICK i \in Index : i <= k /\ dl_ranges[i].byte_start <= b /\ b < dl_ranges[i].cursor
      BY <2>1 DEF ReadBelow
    <3>3. CASE i = k
      BY <1>2, <3>1, <3>2, <3>3
    <3>4. CASE i # k
      <4>1. i <= k - 1
        BY <1>1, <3>2, <3>4
      <4>2. QED
        BY <3>1, <3>2, <4>1 DEF ReadBelow
    <3>5. QED
      BY <3>3, <3>4
  <2>2. ASSUME NEW b \in ReadBelow(k - 1) PROVE b \in ReadBelow(k)
    <3>1. PICK i \in Index : i <= k - 1 /\ dl_ranges[i].byte_start <= b /\ b < dl_ranges[i].cursor
      BY <2>2 DEF ReadBelow
    <3>2. i <= k
      BY <1>1, <3>1
    <3>3. QED
      BY <2>2, <3>1, <3>2 DEF ReadBelow
  <2>3. ASSUME NEW b \in piece PROVE b \in ReadBelow(k)
    <3>1. b \in Byte /\ s <= b /\ b < c /\ k <= k
      BY <1>1, <1>2, <2>3 DEF Byte
    <3>2. QED
      BY <3>1 DEF ReadBelow
  <2>4. QED
    BY <2>1, <2>2, <2>3
<1>8. ReadBelow(k - 1) \cap piece = {}
  <2> SUFFICES ASSUME NEW b \in Byte, b \in piece, NEW i \in Index, i <= k - 1,
                      dl_ranges[i].byte_start <= b, b < dl_ranges[i].cursor
               PROVE  FALSE
    BY DEF ReadBelow
  <2>1. b \in Int /\ s <= b /\ b < c
    BY <1>1, <1>2
  <2>2. Covers(dl_ranges[k], b)
    BY <1>2, <2>1 DEF Covers
  <2>3. Covers(dl_ranges[i], b)
    <3>1. /\ dl_ranges[i].cursor \in Nat /\ dl_ranges[i].end \in Nat
          /\ dl_ranges[i].cursor <= dl_ranges[i].end
      BY <1>1 DEF IInv, CursorInsideRange, ActiveRange
    <3>2. QED
      BY <2>1, <3>1 DEF Covers
  <2>4. i = k
    BY <2>2, <2>3 DEF IInv, EveryByteInOneRange
  <2>5. QED
    BY <1>1, <2>4
<1> HIDE DEF piece, s, c
<1>9. Cardinality(ReadBelow(k)) = Cardinality(ReadBelow(k - 1)) + Cardinality(piece) - 0
  BY <1>5, <1>6, <1>7, <1>8, FS_Union, FS_EmptySet
<1>10. Cardinality(ReadBelow(k - 1)) \in Nat /\ Cardinality(piece) \in Nat
  BY <1>5, <1>6, FS_CardinalityType
<1>11. QED
  BY <1>3, <1>5, <1>6, <1>9, <1>10

\* The sum over the ranges is the number of bytes read: each range counts its
\* own, and no byte lies in two.
LEMMA SnapshotCountsBytes == IInv => ProgressIsExact
<1> SUFFICES ASSUME IInv PROVE ProgressIsExact
  OBVIOUS
<1> DEFINE n == Len(dl_ranges)
           sum[i \in 0..Len(dl_ranges)] ==
             IF i = 0 THEN 0 ELSE sum[i - 1] + Downloaded(dl_ranges[i])
           count == [k \in 0..n |-> Cardinality(ReadBelow(k))]
<1>1. n \in Nat /\ Index = 1..n /\ Total \in Nat
  BY CoordinatorAssumption DEF IInv, TypeOK, Index
<1>2. \A k \in 1..n : /\ k - 1 \in 0..n
                      /\ Cardinality(ReadBelow(k))
                           = Cardinality(ReadBelow(k - 1)) + Downloaded(dl_ranges[k])
  BY <1>1, ReadBelowGrows
<1>3. ReadBelow(0) = {} /\ ReadBelow(n) = Fetched
  BY <1>1 DEF ReadBelow, Fetched, ReadIn, Index, Byte
<1>4. count[0] = 0 /\ count[n] = Cardinality(Fetched)
  BY <1>1, <1>3, FS_EmptySet
<1>5. count = [i \in 0..Len(dl_ranges) |->
                 IF i = 0 THEN 0 ELSE count[i - 1] + Downloaded(dl_ranges[i])]
  BY <1>1, <1>2, <1>4
<1> HIDE DEF count
<1>6. sum = [i \in 0..Len(dl_ranges) |->
                 IF i = 0 THEN 0 ELSE sum[i - 1] + Downloaded(dl_ranges[i])]
  BY <1>5, Zenon
<1>7. SnapshotDownloaded = IF sum[n] < Total THEN sum[n] ELSE Total
  BY DEF SnapshotDownloaded
<1> HIDE DEF sum
<1>8. sum[n] = count[n]
  <2>1. sum[0] = count[0]
    BY <1>1, <1>4, <1>6
  <2>2. \A k \in 1..n : sum[k - 1] = count[k - 1] => sum[k] = count[k]
    <3>1. \A k \in 1..n : sum[k] = sum[k - 1] + Downloaded(dl_ranges[k])
      BY <1>1, <1>6
    <3>2. \A k \in 1..n : count[k] = count[k - 1] + Downloaded(dl_ranges[k])
      BY <1>1, <1>5
    <3>3. QED
      BY <3>1, <3>2
  <2>3. QED
    BY <1>1, <2>1, <2>2, SameSums
<1>9. Cardinality(Fetched) \in Nat /\ Cardinality(Fetched) <= Total
  <2>1. IsFiniteSet(Byte) /\ Cardinality(Byte) = Total
    BY <1>1, FS_Interval, CoordinatorAssumption DEF Byte
  <2>2. Fetched \in SUBSET Byte
    BY DEF Fetched, ReadIn
  <2>3. QED
    BY <2>1, <2>2, FS_Subset, FS_CardinalityType
<1>10. QED
  BY <1>1, <1>4, <1>7, <1>8, <1>9 DEF ProgressIsExact

\* The scheduler's progress figure counts exactly the bytes read, however often
\* ranges are cut, given back and resumed.
THEOREM ProgressExact == Spec => []ProgressIsExact
BY SnapshotCountsBytes, Invariance, PTL
-----------------------------------------------------------------------------
(* What the users of the table (the connection workers, the map of         *)
(* megabytes) need to know of its steps.                                   *)

\* A piece of body reads the bytes its cursor went over, and no others.
LEMMA AdvanceReads ==
  ASSUME IInv, NEW i \in Index, NEW chunk \in Chunks, Advance(i, chunk)
  PROVE  /\ dl_ranges[i].cursor \in Nat /\ dl_ranges'[i].cursor \in Nat
         /\ dl_ranges[i].cursor < dl_ranges'[i].cursor /\ dl_ranges'[i].cursor <= Total
         /\ \A b \in Byte :
              b \in Fetched' <=> \/ b \in Fetched
                                 \/ dl_ranges[i].cursor <= b /\ b < dl_ranges'[i].cursor
<1> DEFINE step == IF chunk < Remaining(dl_ranges[i]) THEN chunk ELSE Remaining(dl_ranges[i])
           new == dl_ranges[i].cursor + step
           rec == [dl_ranges[i] EXCEPT !.cursor = new]
<1>1. /\ dl_ranges \in Seq(ActiveRange) /\ dl_ranges[i] \in ActiveRange
      /\ \A j \in Index : dl_ranges[j] \in ActiveRange
  BY DEF IInv, TypeOK, Index
<1>2. /\ dl_ranges[i].cursor \in Nat /\ dl_ranges[i].end \in Nat /\ chunk \in Nat /\ chunk > 0
      /\ dl_ranges[i].byte_start \in Nat /\ dl_ranges[i].byte_start <= dl_ranges[i].cursor
      /\ dl_ranges[i].end <= Total /\ Total \in Nat
  BY <1>1, CoordinatorAssumption DEF ActiveRange, IInv, CursorInsideRange
<1>3. new \in Nat /\ dl_ranges[i].cursor < new /\ new <= dl_ranges[i].end
  BY <1>2 DEF Remaining, Advance
<1>4. dl_ranges' = [dl_ranges EXCEPT ![i] = rec]
  BY <1>1 DEF Advance
<1>5. rec \in ActiveRange /\ rec.byte_start = dl_ranges[i].byte_start /\ rec.cursor = new
  BY <1>1, <1>3 DEF ActiveRange
<1> HIDE DEF step, new, rec
<1>6. /\ DOMAIN dl_ranges' = Index
      /\ dl_ranges'[i] = rec
      /\ \A j \in Index : j # i => dl_ranges'[j] = dl_ranges[j]
  BY <1>1, <1>4, <1>5 DEF Index
<1>7. ASSUME NEW b \in Byte
      PROVE  b \in Fetched' <=> b \in Fetched \/ (dl_ranges[i].cursor <= b /\ b < new)
  <2>1. b \in Int
    BY CoordinatorAssumption DEF Byte
  <2>2. /\ b \in Fetched <=> \E j \in Index : dl_ranges[j].byte_start <= b /\ b < dl_ranges[j].cursor
        /\ b \in Fetched' <=> \E j \in Index : dl_ranges'[j].byte_start <= b /\ b < dl_ranges'[j].cursor
    BY <1>6 DEF Fetched, ReadIn, Index, Byte
  <2>3. dl_ranges'[i].byte_start = dl_ranges[i].byte_start /\ dl_ranges'[i].cursor = new
    BY <1>5, <1>6
  <2>4. (dl_ranges[i].byte_start <= b /\ b < new)
          <=> \/ dl_ranges[i].byte_start <= b /\ b < dl_ranges[i].cursor
              \/ dl_ranges[i].cursor <= b /\ b < new
    BY <1>2, <1>3, <2>1
  <2> QED BY <1>6, <2>2, <2>3, <2>4
<1> QED BY <1>2, <1>3, <1>5, <1>6, <1>7

\* Whatever happens to the table otherwise, nothing is read.
LEMMA OthersReadNothing ==
  ASSUME IInv, IInv'
  PROVE  /\ \A c \in Connections : \A i \in 1..(Len(dl_ranges) + 1) :
              GetWork(c, i) => Fetched' = Fetched
         /\ \A i \in Index : FinishRange(i) \/ RelinquishRange(i) => Fetched' = Fetched
         /\ ResumeFromSnapshot => Fetched' = Fetched
         /\ UNCHANGED dl_ranges => Fetched' = Fetched
<1>1. ASSUME NEW c \in Connections, NEW i \in 1..(Len(dl_ranges) + 1), GetWork(c, i)
      PROVE  Fetched' = Fetched
  BY <1>1, GetWorkClaims DEF Ledger!Claim
<1>2. ASSUME NEW i \in Index, FinishRange(i) PROVE Fetched' = Fetched
  <2>1. dl_ranges \in Seq(ActiveRange) /\ \A j \in Index : dl_ranges[j] \in ActiveRange
    BY DEF IInv, TypeOK, Index
  <2>2. dl_ranges' = [dl_ranges EXCEPT ![i].status = "FINISHED"]
    BY <1>2 DEF FinishRange
  <2>3. /\ DOMAIN dl_ranges' = DOMAIN dl_ranges
        /\ \A j \in Index : dl_ranges'[j].byte_start = dl_ranges[j].byte_start
        /\ \A j \in Index : dl_ranges'[j].cursor = dl_ranges[j].cursor
    BY <2>1, <2>2 DEF Index, ActiveRange
  <2> QED BY <2>3, SameReads
<1>3. ASSUME NEW i \in Index, RelinquishRange(i) PROVE Fetched' = Fetched
  <2>1. dl_ranges' = [dl_ranges EXCEPT ![i].assigned_to = Unassigned, ![i].status = "PENDING"]
    BY <1>3 DEF RelinquishRange
  <2>2. /\ DOMAIN dl_ranges' = DOMAIN dl_ranges
        /\ \A j \in Index : dl_ranges'[j].byte_start = dl_ranges[j].byte_start
        /\ \A j \in Index : dl_ranges'[j].cursor = dl_ranges[j].cursor
    BY <2>1, RestampEffect
  <2> QED BY <2>2, SameReads
<1>4. ASSUME ResumeFromSnapshot PROVE Fetched' = Fetched
  <2>1. /\ DOMAIN dl_ranges' = DOMAIN dl_ranges
        /\ \A j \in Index : dl_ranges'[j].byte_start = dl_ranges[j].byte_start
        /\ \A j \in Index : dl_ranges'[j].cursor = dl_ranges[j].cursor
    BY <1>4, ResumeEffect
  <2> QED BY <2>1, SameReads
<1>5. ASSUME UNCHANGED dl_ranges PROVE Fetched' = Fetched
  BY <1>5 DEF Fetched, ReadIn, Byte
<1> QED BY <1>1, <1>2, <1>3, <1>4, <1>5

\* The progress figure moves with the cursor.
LEMMA AdvanceCounts ==
  ASSUME IInv, IInv', NEW i \in Index, NEW chunk \in Chunks, Advance(i, chunk)
  PROVE  SnapshotDownloaded'
           = SnapshotDownloaded + (dl_ranges'[i].cursor - dl_ranges[i].cursor)
<1> DEFINE from == dl_ranges[i].cursor
           to == dl_ranges'[i].cursor
           piece == from..(to - 1)
<1>1. /\ from \in Nat /\ to \in Nat /\ from < to /\ to <= Total
      /\ \A b \in Byte : b \in Fetched' <=> b \in Fetched \/ (from <= b /\ b < to)
  BY AdvanceReads
<1>2. /\ SnapshotDownloaded = Cardinality(Fetched)
      /\ SnapshotDownloaded' = Cardinality(Fetched')
  <2>1. (IInv => ProgressIsExact)'
    BY SnapshotCountsBytes, PTL
  <2>2. QED
    BY <2>1, SnapshotCountsBytes DEF ProgressIsExact
<1>3. /\ Fetched \subseteq Byte /\ Fetched' \subseteq Byte
      /\ Total \in Nat /\ Byte = 0..(Total - 1)
  BY CoordinatorAssumption DEF Fetched, ReadIn, Byte
<1>4. Fetched' = Fetched \cup piece
  <2>1. \A b \in piece : b \in Byte /\ from <= b /\ b < to
    BY <1>1, <1>3
  <2>2. \A b \in Byte : from <= b /\ b < to => b \in piece
    BY <1>1, <1>3
  <2>3. QED
    BY <1>1, <1>3, <2>1, <2>2
<1>5. Fetched \cap piece = {}
  <2> SUFFICES ASSUME NEW b \in Fetched, b \in piece PROVE FALSE
    OBVIOUS
  <2>1. b \in Byte /\ b \in Int /\ from <= b /\ b < to
    BY <1>1, <1>3
  <2>2. /\ dl_ranges[i] \in ActiveRange /\ dl_ranges[i].status = "ACTIVE"
        /\ dl_ranges'[i].cursor <= dl_ranges[i].end
    <3>1. dl_ranges \in Seq(ActiveRange) /\ dl_ranges[i] \in ActiveRange /\ i \in DOMAIN dl_ranges
      BY DEF IInv, TypeOK, Index
    <3>2. chunk \in Nat
      BY CoordinatorAssumption
    <3>3. dl_ranges'[i].cursor
            = from + (IF chunk < Remaining(dl_ranges[i]) THEN chunk ELSE Remaining(dl_ranges[i]))
      BY <3>1 DEF Advance, ActiveRange
    <3>4. QED
      BY <3>1, <3>2, <3>3 DEF Advance, Remaining, ActiveRange
  <2>3. b \in Claimed
    BY <1>1, <2>1, <2>2 DEF Claimed, ClaimedIn, ActiveRange, Index
  <2>4. QED
    BY <2>3, ReadNotClaimed
<1>6. IsFiniteSet(Fetched) /\ Cardinality(Fetched) \in Nat
  <2>1. IsFiniteSet(Byte)
    BY <1>3, FS_Interval
  <2>2. IsFiniteSet(Fetched)
    BY <1>3, <2>1, FS_Subset
  <2>3. QED
    BY <2>2, FS_CardinalityType
<1>7. IsFiniteSet(piece) /\ Cardinality(piece) = to - from
  <2>1. from \in Int /\ to - 1 \in Int
    BY <1>1
  <2>2. IsFiniteSet(piece) /\ Cardinality(piece) = IF from > to - 1 THEN 0 ELSE (to - 1) - from + 1
    BY <2>1, FS_Interval
  <2>3. QED
    BY <1>1, <2>2
<1> HIDE DEF piece
<1>8. Cardinality(Fetched') = Cardinality(Fetched) + Cardinality(piece) - 0
  BY <1>4, <1>5, <1>6, <1>7, FS_Union, FS_EmptySet
<1>9. QED
  BY <1>1, <1>2, <1>6, <1>7, <1>8

\* A step that reads nothing leaves the progress figure where it is.
LEMMA CountKept ==
  ASSUME IInv, IInv', Fetched' = Fetched
  PROVE  SnapshotDownloaded' = SnapshotDownloaded
<1>1. (IInv => ProgressIsExact)'
  BY SnapshotCountsBytes, PTL
<1>2. QED
  BY <1>1, SnapshotCountsBytes DEF ProgressIsExact

\* At the start nothing was read.
LEMMA InitReadsNothing == Init => Fetched = {}
BY InitImplementsLedger DEF Ledger!Init

\* The progress figure is a number, zero at the start, and reaches the size of
\* the file only with its last byte.
LEMMA CountBounds ==
  ASSUME IInv
  PROVE  /\ SnapshotDownloaded \in Nat
         /\ Fetched = {} => SnapshotDownloaded = 0
         /\ SnapshotDownloaded >= Total => Fetched = Byte
<1>1. SnapshotDownloaded = Cardinality(Fetched)
  BY SnapshotCountsBytes DEF ProgressIsExact
<1>2. IsFiniteSet(Byte) /\ Cardinality(Byte) = Total /\ Total \in Nat
  BY FS_Interval, CoordinatorAssumption DEF Byte
<1>3. Fetched \in SUBSET Byte
  BY DEF Fetched, ReadIn
<1>4. /\ IsFiniteSet(Fetched) /\ Cardinality(Fetched) <= Total
      /\ Cardinality(Byte) = Cardinality(Fetched) => Byte = Fetched
  BY <1>2, <1>3, FS_Subset
<1>5. Cardinality(Fetched) \in Nat
  BY <1>4, FS_CardinalityType
<1>6. QED
  BY <1>1, <1>2, <1>4, <1>5, FS_EmptySet

\* get_work hands out a range nobody is downloading, or a new one; ranges being
\* downloaded keep their cursor and owner, and at most lose their end.
LEMMA GrantEffect ==
  ASSUME IInv, NEW c \in Connections, NEW i \in 1..(Len(dl_ranges) + 1), GetWork(c, i)
  PROVE  /\ Len(dl_ranges) <= Len(dl_ranges') /\ i \in 1..Len(dl_ranges')
         /\ dl_ranges'[i].assigned_to = c /\ dl_ranges'[i].status = "ACTIVE"
         /\ i \in Index => dl_ranges[i].status = "PENDING"
         /\ \A j \in Index : dl_ranges[j].status = "ACTIVE" =>
              /\ dl_ranges'[j].cursor = dl_ranges[j].cursor
              /\ dl_ranges'[j].assigned_to = dl_ranges[j].assigned_to
              /\ dl_ranges'[j].status = "ACTIVE"
              /\ dl_ranges'[j].end <= dl_ranges[j].end
         /\ \A j \in 1..Len(dl_ranges') : dl_ranges'[j].status = "ACTIVE" =>
              j = i \/ (j \in Index /\ dl_ranges[j].status = "ACTIVE")
         /\ halted' = halted
<1> DEFINE n == Len(dl_ranges)
<1>1. /\ dl_ranges \in Seq(ActiveRange) /\ n \in Nat /\ Index = 1..n
      /\ \A j \in Index : dl_ranges[j] \in ActiveRange
  BY DEF IInv, TypeOK, Index
<1>2. CASE AssignSeed(c, i) \/ Reassign(c, i)
  <2>1. /\ i \in Index /\ dl_ranges[i].status = "PENDING"
        /\ dl_ranges' = [dl_ranges EXCEPT ![i].assigned_to = c, ![i].status = "ACTIVE"]
        /\ halted' = halted
    BY <1>2 DEF AssignSeed, Reassign, Assign, SeedCandidates, Relinquished, IInv, StatusMatchesOwner
  <2>2. /\ Len(dl_ranges') = n
        /\ dl_ranges'[i].assigned_to = c /\ dl_ranges'[i].status = "ACTIVE"
        /\ \A j \in Index : j # i => dl_ranges'[j] = dl_ranges[j]
    BY <1>1, <2>1 DEF ActiveRange
  <2>3. \A j \in Index : dl_ranges[j].status = "ACTIVE" => j # i
    BY <2>1
  <2>4. \A j \in Index : dl_ranges[j].end <= dl_ranges[j].end
    BY <1>1 DEF ActiveRange
  <2>5. QED
    BY <1>1, <2>1, <2>2, <2>3, <2>4
<1>3. CASE Borrow(c) /\ i = n + 1
  <2>1. PICK adaptive \in AdaptiveSteals :
          \E slow \in MaybeSlow(c, EffectiveBorrowLimit(adaptive)), d \in Index, kind \in BorrowKind :
            /\ Borrowable(c, EffectiveBorrowLimit(adaptive), slow, d, kind)
            /\ Split(c, d, SplitPoint(d, kind))
    BY <1>3 DEF Borrow
  <2>2. PICK slow \in MaybeSlow(c, EffectiveBorrowLimit(adaptive)), d \in Index, kind \in BorrowKind :
            /\ Borrowable(c, EffectiveBorrowLimit(adaptive), slow, d, kind)
            /\ Split(c, d, SplitPoint(d, kind))
    BY <2>1
  <2> DEFINE cut == SplitPoint(d, kind)
             donor == [dl_ranges[d] EXCEPT !.end = cut]
             stolen == [byte_start |-> cut, cursor |-> cut, end |-> dl_ranges[d].end,
                        assigned_to |-> c, status |-> "ACTIVE"]
  <2>3. /\ dl_ranges[d].status = "ACTIVE" /\ cut \in Nat /\ cut <= dl_ranges[d].end
    BY <2>2, LimitIsNat, BorrowCutsInside
  <2>4. dl_ranges' = Append([dl_ranges EXCEPT ![d] = donor], stolen)
    BY <1>1, <2>2 DEF Split
  <2> HIDE DEF cut
  <2>5. donor \in ActiveRange /\ stolen \in ActiveRange
    BY <1>1, <2>3 DEF ActiveRange, Status
  <2>6. /\ donor.cursor = dl_ranges[d].cursor /\ donor.assigned_to = dl_ranges[d].assigned_to
        /\ donor.status = "ACTIVE" /\ donor.end = cut
        /\ stolen.assigned_to = c /\ stolen.status = "ACTIVE"
    BY <1>1, <2>3 DEF ActiveRange
  <2> HIDE DEF donor, stolen
  <2>7. /\ Len(dl_ranges') = n + 1 /\ dl_ranges'[n + 1] = stolen /\ dl_ranges'[d] = donor
        /\ \A j \in Index : j # d => dl_ranges'[j] = dl_ranges[j]
    BY <1>1, <2>4, <2>5
  <2>8. halted' = halted
    BY <1>3 DEF Borrow
  <2>9. \A j \in Index : /\ dl_ranges[j].end <= dl_ranges[j].end
                         /\ j # n + 1
    <3>1. TAKE j \in Index
    <3>2. n \in Nat /\ j \in 1..n
      BY <1>1, <3>1
    <3>3. j # n + 1
      BY <3>2
    <3>4. dl_ranges[j] \in ActiveRange
      BY <1>1, <3>1, Zenon
    <3>5. dl_ranges[j].end \in Nat
      BY <3>4 DEF ActiveRange
    <3>6. dl_ranges[j].end <= dl_ranges[j].end
      BY <3>5
    <3>7. QED
      BY <3>3, <3>6
  <2>10. \A j \in Index : dl_ranges[j].status = "ACTIVE" =>
              /\ dl_ranges'[j].cursor = dl_ranges[j].cursor
              /\ dl_ranges'[j].assigned_to = dl_ranges[j].assigned_to
              /\ dl_ranges'[j].status = "ACTIVE"
              /\ dl_ranges'[j].end <= dl_ranges[j].end
    BY <2>3, <2>6, <2>7, <2>9
  <2>11. \A j \in 1..(n + 1) : j = n + 1 \/ j \in Index
    BY <1>1
  <2>12. \A j \in 1..(n + 1) : dl_ranges'[j].status = "ACTIVE" =>
              j = i \/ (j \in Index /\ dl_ranges[j].status = "ACTIVE")
    BY <1>3, <2>3, <2>7, <2>11
  <2>13. QED
    BY <1>1, <1>3, <2>6, <2>7, <2>8, <2>9, <2>10, <2>12
<1>4. QED
  BY <1>2, <1>3 DEF GetWork
=============================================================================
