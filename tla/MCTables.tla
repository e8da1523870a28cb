----------------------------- MODULE MCTables -----------------------------
(* Four data structures that share nothing: a behaviour is one of table's,  *)
(* the others stay at their start.                                          *)
EXTENDS SeedRanges, IndexState, OriginMemory, StreamCapture

VARIABLE table

tableVars == <<table, seedVars, indexVars, originVars, captureVars>>

\* Every size from one byte to just over 13 megabytes of four bytes.
AllTotals == 1..54

\* Two equal lanes that do not end on a megabyte boundary.
EqualSeeds == <<[byte_start |-> 0, byte_end |-> 7],
                [byte_start |-> 7, byte_end |-> 13]>>

MCCaptures ==
  {[page |-> "p", url |-> "u1", format |-> "Hls", manifest |-> TRUE],
   [page |-> "p", url |-> "u2", format |-> "Hls", manifest |-> FALSE],
   [page |-> "q", url |-> "q", format |-> "Youtube", manifest |-> FALSE]}
MCGroup == [u1 |-> "g", u2 |-> "g", q |-> "h"]

TablesInit ==
  /\ table \in {"seeds", "ranges", "origins", "streams"}
  /\ SeedInit /\ IndexInit /\ OriginMemoryInit /\ CaptureInit
  /\ table # "seeds" =>
       /\ total = 1 /\ weights = <<1>>
       /\ schedule_mode = "Equal" /\ dry_run = FALSE

TablesNext ==
  /\ UNCHANGED table
  /\ \/ table = "seeds" /\ New /\ UNCHANGED <<indexVars, originVars, captureVars>>
     \/ table = "ranges" /\ IndexNext /\ UNCHANGED <<seedVars, originVars, captureVars>>
     \/ /\ table = "origins"
        /\ OriginMemoryNext /\ UNCHANGED <<seedVars, indexVars, captureVars>>
     \/ /\ table = "streams"
        /\ CaptureNext /\ UNCHANGED <<seedVars, indexVars, originVars>>

TablesSpec == TablesInit /\ [][TablesNext]_tableVars

\* Which connection is which makes no difference.
Symmetry == Permutations(Connections)

\* Types of those beside the ranges, which have TypeOK.
TablesTypeOK == SeedTypeOK /\ OriginMemoryTypeOK /\ CaptureTypeOK
=============================================================================
