------------------------- MODULE IndexStateProofs -------------------------
(***************************************************************************)
(* Proof that the map of megabytes follows the cursors, for every file,    *)
(* alignment and seed table.  The argument is the arithmetic of one piece  *)
(* of body: it marks exactly the megabytes whose last byte it brings.      *)
(* Everything else rests on the invariant of the table: cursors stay       *)
(* inside the file, and only a piece of body reads anything.               *)
(***************************************************************************)
EXTENDS IndexState, RangeCoordinatorProofs

(* Arithmetic *)

\* The multiples of a megabyte are ordered as the megabytes are.
LEMMA Multiples ==
  ASSUME NEW a \in Int, NEW b \in Int
  PROVE  /\ a * MB \in Int
         /\ (a + 1) * MB = a * MB + MB
         /\ a < b => a * MB + MB <= b * MB
         /\ a * MB < b * MB => a < b
<1>1. MB \in Nat /\ MB > 0
  BY CoordinatorAssumption
<1>2. a * MB \in Int /\ b * MB \in Int /\ (a + 1) * MB = a * MB + MB
  BY <1>1
<1>3. ASSUME NEW x \in Int, NEW y \in Int, x < y PROVE x * MB + MB <= y * MB
  <2>1. y - (x + 1) \in Nat
    BY <1>3
  <2>2. (y - (x + 1)) * MB >= 0
    BY <1>1, <2>1
  <2>3. (y - (x + 1)) * MB = y * MB - (x * MB + MB)
    BY <1>1
  <2> QED BY <1>1, <2>2, <2>3
<1>4. a < b => a * MB + MB <= b * MB
  BY <1>3
<1>5. ASSUME a * MB < b * MB PROVE a < b
  <2>1. CASE b < a
    <3>1. b * MB + MB <= a * MB
      BY <1>3, <2>1
    <3> QED BY <1>1, <1>2, <1>5, <3>1
  <2>2. CASE a = b
    BY <1>2, <1>5, <2>2
  <2> QED BY <2>1, <2>2
<1> QED BY <1>2, <1>4, <1>5

\* A position lies in the megabyte its quotient names.
LEMMA Quotient ==
  ASSUME NEW a \in Nat
  PROVE  /\ a \div MB \in Nat
         /\ (a \div MB) * MB <= a /\ a < (a \div MB) * MB + MB
BY CoordinatorAssumption

\* The last megabyte begins inside the file and reaches its end.
LEMMA LastSlice ==
  /\ DivCeil(Total, MB) \in Nat
  /\ Total <= DivCeil(Total, MB) * MB /\ DivCeil(Total, MB) * MB < Total + MB
<1> DEFINE a == Total + MB - 1
<1>1. a \in Nat /\ a = Total + MB - 1 /\ Total \in Nat /\ MB \in Nat
      /\ DivCeil(Total, MB) = a \div MB
  BY CoordinatorAssumption DEF DivCeil
<1> HIDE DEF a
<1>2. a \div MB \in Nat /\ (a \div MB) * MB <= a /\ a < (a \div MB) * MB + MB
  BY <1>1, Quotient
<1>3. (a \div MB) * MB \in Int
  BY <1>1, <1>2
<1> QED BY <1>1, <1>2, <1>3

\* The last byte of a megabyte is a byte of the file.
LEMMA LastByteIsByte ==
  ASSUME NEW s \in Slice
  PROVE  LastByte(s) \in Byte /\ s \in Nat /\ (s + 1) * MB \in Nat
<1> DEFINE n == DivCeil(Total, MB)
<1>1. n \in Nat /\ n * MB < Total + MB /\ n * MB \in Int /\ Total \in Nat \ {0}
      /\ MB \in Nat \ {0}
  BY LastSlice, CoordinatorAssumption
<1>2. s \in 0..(n - 1)
  BY DEF Slice
<1> HIDE DEF n
<1>3. s \in Nat /\ s + 1 \in Nat /\ (s + 1) * MB = s * MB + MB /\ s * MB \in Nat
  BY <1>1, <1>2
<1> QED BY <1>1, <1>3 DEF LastByte, Byte

\* mark_completed_span marks the megabytes whose last byte lies in the span.
LEMMA SpanMarksLastBytes ==
  ASSUME NEW from \in Nat, NEW to \in Nat, from < to, to <= Total
  PROVE  CompletedSpan(from, to) = {s \in Slice : from <= LastByte(s) /\ LastByte(s) < to}
<1> DEFINE n == DivCeil(Total, MB)
           p == from \div MB
           q == to \div MB
<1>1. /\ n \in Nat /\ Total <= n * MB /\ n * MB < Total + MB
      /\ Total \in Nat /\ MB \in Nat /\ MB > 0
  BY LastSlice, CoordinatorAssumption
<1>2. p \in Nat /\ p * MB <= from /\ from < p * MB + MB
  BY Quotient
<1>3. q \in Nat /\ q * MB <= to /\ to < q * MB + MB
  BY Quotient
<1>4. CompletedSpan(from, to) = p..((IF to >= Total THEN n ELSE q) - 1)
  BY DEF CompletedSpan
<1>5. Slice = 0..(n - 1)
  BY DEF Slice
<1> HIDE DEF n, p, q
<1>6. ASSUME NEW s \in Nat
      PROVE  /\ (s + 1) * MB \in Nat /\ (s + 1) * MB = s * MB + MB /\ s * MB \in Nat
             /\ p <= s <=> from < (s + 1) * MB
             /\ s + 1 <= q <=> (s + 1) * MB <= to
             /\ s + 1 <= n <=> s * MB < Total
  <2>1. /\ (s + 1) * MB \in Nat /\ (s + 1) * MB = s * MB + MB /\ s * MB \in Nat
        /\ p * MB \in Nat /\ q * MB \in Nat /\ n * MB \in Nat
    BY <1>1, <1>2, <1>3
  <2>2. p <= s <=> from < (s + 1) * MB
    <3>1. ASSUME p <= s PROVE from < (s + 1) * MB
      <4>1. p < s + 1 /\ p \in Int /\ s + 1 \in Int
        BY <1>2, <3>1
      <4>2. p * MB + MB <= (s + 1) * MB
        BY <4>1, Multiples
      <4> QED BY <1>1, <1>2, <2>1, <4>2
    <3>2. ASSUME s < p PROVE (s + 1) * MB <= from
      <4>1. s * MB + MB <= p * MB
        BY <1>2, <3>2, Multiples
      <4> QED BY <1>1, <1>2, <2>1, <4>1
    <3> QED BY <1>2, <2>1, <3>1, <3>2
  <2>3. s + 1 <= q <=> (s + 1) * MB <= to
    <3>1. ASSUME s < q PROVE (s + 1) * MB <= to
      <4>1. s * MB + MB <= q * MB
        BY <1>3, <3>1, Multiples
      <4> QED BY <1>1, <1>3, <2>1, <4>1
    <3>2. ASSUME q <= s PROVE to < (s + 1) * MB
      <4>1. q < s + 1 /\ q \in Int /\ s + 1 \in Int
        BY <1>3, <3>2
      <4>2. q * MB + MB <= (s + 1) * MB
        BY <4>1, Multiples
      <4> QED BY <1>1, <1>3, <2>1, <4>2
    <3> QED BY <1>3, <2>1, <3>1, <3>2
  <2>4. s + 1 <= n <=> s * MB < Total
    <3>1. ASSUME s < n PROVE s * MB < Total
      <4>1. s * MB + MB <= n * MB
        BY <1>1, <3>1, Multiples
      <4> QED BY <1>1, <2>1, <4>1
    <3>2. ASSUME n <= s PROVE Total <= s * MB
      <4>1. n < s + 1 /\ n \in Int /\ s + 1 \in Int
        BY <1>1, <3>2
      <4>2. n * MB + MB <= (s + 1) * MB
        BY <4>1, Multiples
      <4> QED BY <1>1, <2>1, <4>2
    <3> QED BY <1>1, <2>1, <3>1, <3>2
  <2> QED BY <2>1, <2>2, <2>3, <2>4
<1>7. ASSUME NEW s \in Nat
      PROVE  /\ p <= s /\ s <= (IF to >= Total THEN n ELSE q) - 1
             <=> s <= n - 1 /\ from <= LastByte(s) /\ LastByte(s) < to
  <2>1. /\ (s + 1) * MB \in Nat /\ (s + 1) * MB = s * MB + MB /\ s * MB \in Nat
        /\ p <= s <=> from < (s + 1) * MB
        /\ s + 1 <= q <=> (s + 1) * MB <= to
        /\ s + 1 <= n <=> s * MB < Total
    BY <1>6
  <2> DEFINE m == (s + 1) * MB
             k == s * MB
  <2>2. LastByte(s) = (IF m < Total THEN m ELSE Total) - 1
    BY DEF LastByte
  <2>3. /\ m \in Nat /\ k \in Nat /\ m = k + MB
        /\ p <= s <=> from < m
        /\ s + 1 <= q <=> m <= to
        /\ s + 1 <= n <=> k < Total
    BY <2>1
  <2> HIDE DEF m, k
  <2> QED BY <1>1, <1>2, <1>3, <2>2, <2>3
<1> QED
  <2>1. \A s \in CompletedSpan(from, to) : s \in Nat
    BY <1>1, <1>2, <1>3, <1>4
  <2>2. ASSUME NEW s \in Nat
        PROVE  s \in CompletedSpan(from, to)
                 <=> s \in Slice /\ from <= LastByte(s) /\ LastByte(s) < to
    BY <1>1, <1>2, <1>3, <1>4, <1>5, <1>7
  <2>3. \A s \in Slice : s \in Nat
    BY <1>1, <1>5
  <2> QED BY <2>1, <2>2, <2>3

-----------------------------------------------------------------------------
(* Steps *)

\* A piece of body marks what it reads the last byte of.
LEMMA AdvanceKeepsMarks ==
  ASSUME IInv, MarkedByLastByte, NEW i \in Index, NEW chunk \in Chunks, AdvanceAndMark(i, chunk)
  PROVE  MarkedByLastByte'
<1> DEFINE from == dl_ranges[i].cursor
           to == dl_ranges'[i].cursor
<1>1. /\ from \in Nat /\ to \in Nat /\ from < to /\ to <= Total
      /\ \A b \in Byte : b \in Fetched' <=> b \in Fetched \/ (from <= b /\ b < to)
  BY AdvanceReads DEF AdvanceAndMark
<1>2. index_state' = index_state \cup CompletedSpan(from, to)
  BY DEF AdvanceAndMark
<1> HIDE DEF from, to
<1>3. CompletedSpan(from, to) = {s \in Slice : from <= LastByte(s) /\ LastByte(s) < to}
  BY <1>1, SpanMarksLastBytes
<1>4. \A s \in Slice :
        LastByte(s) \in Fetched' <=> \/ LastByte(s) \in Fetched
                                     \/ from <= LastByte(s) /\ LastByte(s) < to
  BY <1>1, LastByteIsByte
<1>5. index_state' = {s \in Slice : LastByte(s) \in Fetched'}
  BY <1>2, <1>3, <1>4 DEF MarkedByLastByte
<1> QED BY <1>5 DEF MarkedByLastByte, Slice, LastByte

\* The map follows the table through every step.
LEMMA MarksHold == IndexSpec => [](IInv /\ MarkedByLastByte)
<1>1. IndexInit => IInv /\ MarkedByLastByte
  <2> SUFFICES ASSUME IndexInit PROVE IInv /\ MarkedByLastByte
    OBVIOUS
  <2>1. IInv /\ index_state = {}
    BY InitInvariant DEF IndexInit
  <2>2. Fetched = {}
    BY InitImplementsLedger DEF IndexInit, Ledger!Init
  <2> QED BY <2>1, <2>2 DEF MarkedByLastByte
<1>2. IInv /\ MarkedByLastByte /\ [IndexNext]_indexVars => (IInv /\ MarkedByLastByte)'
  <2> SUFFICES ASSUME IInv, MarkedByLastByte, [IndexNext]_indexVars
               PROVE  IInv' /\ MarkedByLastByte'
    OBVIOUS
  <2>1. [Next]_vars
    BY DEF IndexNext, indexVars, Next, AdvanceAndMark, ResumeWithBits
  <2>2. IInv'
    BY <2>1, StepInvariant
  <2>3. Fetched' = Fetched /\ UNCHANGED index_state => MarkedByLastByte'
    BY DEF MarkedByLastByte, Slice, LastByte
  <2>4. ASSUME NEW i \in Index, NEW n \in Chunks, AdvanceAndMark(i, n) PROVE MarkedByLastByte'
    BY <2>4, AdvanceKeepsMarks
  <2>5. CASE ~\E i \in Index, n \in Chunks : AdvanceAndMark(i, n)
    <3>1. UNCHANGED index_state
      BY <2>5 DEF IndexNext, indexVars, ResumeWithBits
    <3>2. Fetched' = Fetched
      <4>1. \A c \in Connections : \A i \in 1..(Len(dl_ranges) + 1) :
              GetWork(c, i) => Fetched' = Fetched
        BY <2>2, OthersReadNothing
      <4>2. \A i \in Index : FinishRange(i) \/ RelinquishRange(i) => Fetched' = Fetched
        BY <2>2, OthersReadNothing
      <4>3. ResumeWithBits => Fetched' = Fetched
        BY <2>2, OthersReadNothing DEF ResumeWithBits
      <4>4. UNCHANGED dl_ranges => Fetched' = Fetched
        BY <2>2, OthersReadNothing
      <4>5. (\E c \in Connections : NoWork(c)) \/ Halt => UNCHANGED dl_ranges
        BY DEF NoWork, Halt
      <4>6. UNCHANGED indexVars => UNCHANGED dl_ranges
        BY DEF indexVars, vars
      <4> QED BY <2>5, <4>1, <4>2, <4>3, <4>4, <4>5, <4>6 DEF IndexNext
    <3> QED BY <2>2, <2>3, <3>1, <3>2
  <2> QED BY <2>2, <2>4, <2>5
<1> QED BY <1>1, <1>2, PTL DEF IndexSpec

\* In the map a megabyte is marked exactly when its last byte has arrived, for
\* every file, alignment and seed table, and whatever is stolen, paused and resumed.
THEOREM MapFollowsCursors == IndexSpec => []MarkedByLastByte
<1>1. IInv /\ MarkedByLastByte => MarkedByLastByte
  OBVIOUS
<1> QED BY <1>1, MarksHold, PTL

\* The table with its map is the table.
LEMMA IndexImplementsTable == IndexSpec => Spec
<1>1. IndexInit => Init
  BY DEF IndexInit
<1>2. [IndexNext]_indexVars => [Next]_vars
  BY DEF IndexNext, indexVars, Next, AdvanceAndMark, ResumeWithBits
<1> QED BY <1>1, <1>2, PTL DEF IndexSpec, Spec
=============================================================================
