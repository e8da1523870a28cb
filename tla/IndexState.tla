---------------------------- MODULE IndexState ----------------------------
(***************************************************************************)
(* The map of megabytes beside the range table (engine/coordinator.rs      *)
(* IndexStateMap): a bit per megabyte, set by the workers as their cursors *)
(* move, saved in a snapshot and reported at the end of a download.  The   *)
(* bytes of eight bits each are left out: a bit is a member of a set.      *)
(***************************************************************************)
EXTENDS RangeCoordinator

VARIABLE index_state  \* the megabytes marked as completed

indexVars == <<vars, index_state>>

DivCeil(a, b) == (a + b - 1) \div b

\* The last one may be short.
Slice == 0..(DivCeil(Total, MB) - 1)

LastByte(s) == (IF (s + 1) * MB < Total THEN (s + 1) * MB ELSE Total) - 1

\* A megabyte that was only begun is marked.
BadCompletedSpan(from, to) ==
  IF to <= from THEN {} ELSE (from \div MB)..(DivCeil(to, MB) - 1)

\* The megabytes that mark_completed_span marks; positions beyond the file
\* do not occur (CursorInsideRange).
CompletedSpan(from, to) ==
  IF to <= from THEN {}
  ELSE (from \div MB)..((IF to >= Total THEN DivCeil(Total, MB) ELSE to \div MB) - 1)

\* A worker appends a piece of body and marks what it went over.
AdvanceAndMark(i, n) ==
  /\ Advance(i, n)
  /\ index_state' = index_state \cup CompletedSpan(dl_ranges[i].cursor, dl_ranges'[i].cursor)

\* The bits are kept in the snapshot and taken from it.
ResumeWithBits == ResumeFromSnapshot /\ UNCHANGED index_state

IndexInit == Init /\ index_state = {}

IndexNext ==
  \/ \E c \in Connections : \E i \in 1..(Len(dl_ranges) + 1) :
       GetWork(c, i) /\ UNCHANGED index_state
  \/ \E c \in Connections : NoWork(c) /\ UNCHANGED index_state
  \/ \E i \in Index : \E n \in Chunks : AdvanceAndMark(i, n)
  \/ \E i \in Index : (FinishRange(i) \/ RelinquishRange(i)) /\ UNCHANGED index_state
  \/ Halt /\ UNCHANGED index_state
  \/ ResumeWithBits

IndexSpec == IndexInit /\ [][IndexNext]_indexVars
-----------------------------------------------------------------------------
(* Properties. *)

\* A megabyte is marked exactly when its last byte has arrived, in whatever
\* pieces, by whatever connections, and across pauses: so after a complete
\* download the map is full.  (It may be marked before it is whole, when two
\* ranges meet inside it.)
MarkedByLastByte == index_state = {s \in Slice : LastByte(s) \in Fetched}
=============================================================================
