---------------------------- MODULE ByteLedger ----------------------------
(***************************************************************************)
(* What the range scheduler of one download promises, said of bytes alone: *)
(* a byte is fetched at most once, only while some connection is entitled  *)
(* to it, and what was fetched is never asked for again.  How bytes are    *)
(* grouped into ranges, split, relinquished and resumed is not visible.    *)
(***************************************************************************)
EXTENDS Integers

CONSTANT Total      \* size of the file in bytes (DownloadTask.total_size)

VARIABLES fetched,  \* the bytes some connection has read from the origin
          claimed   \* the bytes some connection is entitled to read next

ledgerVars == <<fetched, claimed>>

Byte == 0..(Total - 1)

Init ==
  /\ fetched = {}
  /\ claimed = {}

\* A connection reads bytes it is entitled to: they leave the claim for good.
Fetch ==
  /\ fetched \subseteq fetched'
  /\ fetched' \ fetched \subseteq claimed
  /\ claimed' = claimed \ fetched'

\* Work is handed out: only bytes nobody has fetched yet.
Claim ==
  /\ claimed \subseteq claimed'
  /\ claimed' \subseteq Byte \ fetched
  /\ UNCHANGED fetched

\* Work is given back (a halt, a scale-down, a resume from a snapshot).
Release ==
  /\ claimed' \subseteq claimed
  /\ UNCHANGED fetched

Next == Fetch \/ Claim \/ Release

Spec == Init /\ [][Next]_ledgerVars
=============================================================================
