---------------------------- MODULE SeedRanges ----------------------------
(***************************************************************************)
(* The three builders of the initial range table                           *)
(* (engine/coordinator/builders.rs), as functions of the file size and the *)
(* number of connections.  Sizes are in units in which one megabyte is     *)
(* MegaByte and a storage block is Block; a weight of the phi-geometric    *)
(* builder, phi^(alpha * i) in the code, is a natural number here.         *)
(***************************************************************************)
EXTENDS Integers, Sequences

CONSTANTS
  MegaByte,  \* bytes in a megabyte
  Block,     \* STORAGE_BLOCK_SIZE, 4 megabytes
  SeedFloor  \* LIVE_SEED_FLOOR_MB, 13: where a live Fibonacci table starts

Lesser(a, b)  == IF a < b THEN a ELSE b
Greater(a, b) == IF a > b THEN a ELSE b
CeilDiv(a, b) == (a + b - 1) \div b

\* A definition named Bad... is a mistake on purpose: put in the place of the
\* one below it, it shows that a property notices.

\* Empty spans are kept.
BadSpansEmpty(cut, n) ==
  [i \in 1..n |-> [byte_start |-> cut[i - 1], byte_end |-> cut[i]]]

\* Ends are taken for the last byte of a span.
BadSpansInclusive(cut, n) ==
  SelectSeq([i \in 1..n |-> [byte_start |-> cut[i - 1], byte_end |-> cut[i] - 1]],
            LAMBDA s : s.byte_start < s.byte_end)

\* The non-empty spans between consecutive boundaries cut[0], ..., cut[n].
Spans(cut, n) ==
  LET pushed[i \in 0..n] ==
        IF i = 0 THEN <<>>
        ELSE IF cut[i - 1] < cut[i]
             THEN Append(pushed[i - 1], [byte_start |-> cut[i - 1], byte_end |-> cut[i]])
             ELSE pushed[i - 1]
  IN pushed[n]

\* build_equal_ranges
BuildEqualRanges(total, connections) ==
  LET lanes == Greater(1, Lesser(connections, CeilDiv(total, MegaByte)))
      cut[i \in 0..lanes] ==
        IF i = 0 THEN 0
        ELSE IF i = lanes THEN total
        ELSE Lesser(total, cut[i - 1] + CeilDiv(total - cut[i - 1], lanes - i + 1))
  IN Spans(cut, lanes)

\* build_phi_geometric_ranges with the weights of n connections.  A boundary is
\* rounded to the nearest block and clamped between its predecessor and total.
BuildPhiGeometricRanges(total, weights) ==
  LET n == Len(weights)
      sum[i \in 0..n] == IF i = 0 THEN 0 ELSE sum[i - 1] + weights[i]
      rounded(i) == ((2 * total * sum[i] + Block * sum[n]) \div (2 * Block * sum[n])) * Block
      cut[i \in 0..n] ==
        IF i = 0 THEN 0
        ELSE IF i = n THEN total
        ELSE Lesser(total, Greater(cut[i - 1], rounded(i)))
  IN IF n = 1 THEN <<[byte_start |-> 0, byte_end |-> total]>>
     ELSE IF cut[1] < Block THEN BuildEqualRanges(total, n)
     ELSE Spans(cut, n)

\* build_fib_mb: 1, 2, 3, 5, 8, ... megabytes, indexed from 0.
FibMb[i \in Nat] == IF i < 2 THEN i + 1 ELSE FibMb[i - 1] + FibMb[i - 2]

FirstFibIdx(atLeast) ==
  CHOOSE i \in 0..atLeast : FibMb[i] >= atLeast /\ \A j \in 0..(i - 1) : FibMb[j] < atLeast

\* The first Fibonacci number that is at least the file's size in megabytes.
SupportIdx(total) == FirstFibIdx(Greater(1, CeilDiv(total, MegaByte)))

\* The number of connections is ignored.
BadSeedStartIdx(total, connections, dryRun) ==
  IF dryRun \/ SupportIdx(total) = 0 THEN 0
  ELSE Lesser(FirstFibIdx(SeedFloor), SupportIdx(total) - 1)

\* choose_seed_start_idx: a table for a live download starts at SeedFloor, or
\* earlier when that would leave fewer ranges than connections.
SeedStartIdx(total, connections, dryRun) ==
  IF dryRun \/ SupportIdx(total) = 0 THEN 0
  ELSE Lesser(FirstFibIdx(SeedFloor), Greater(0, SupportIdx(total) - connections))

\* build_seed_ranges: one range per Fibonacci step; the first reaches back to 0.
BuildSeedRanges(total, connections, dryRun) ==
  LET first == SeedStartIdx(total, connections, dryRun)
      steps == SupportIdx(total) - first
      cut[i \in 0..steps] ==
        IF i = 0 THEN 0
        ELSE IF i = steps THEN total
        ELSE Lesser(total, FibMb[first + i] * MegaByte)
  IN Spans(cut, steps)
-----------------------------------------------------------------------------
(* Coordinator::new chooses the builder by the schedule mode. *)

CONSTANTS
  Totals,       \* file sizes tried
  MaxConnections,
  MaxWeight,    \* bound on the integer weights standing for phi_max_ratio
  Modes         \* schedule modes tried

ASSUME SeedRangesAssumption ==
  /\ MegaByte \in Nat \ {0}
  /\ Block \in Nat \ {0}
  /\ SeedFloor \in Nat \ {0}
  /\ Totals \subseteq Nat \ {0}     \* a HEAD that reports 0 ends the task
  /\ MaxConnections \in Nat
  /\ MaxWeight \in Nat
  /\ Modes \subseteq {"FibAdaptive", "Equal", "Fib"}

VARIABLES total, schedule_mode, dry_run, weights, seed_ranges, built

seedVars == <<total, schedule_mode, dry_run, weights, seed_ranges, built>>

\* Phi to a power that grows with the connection: weights never decrease.
Weights ==
  UNION {{w \in [1..n -> 1..MaxWeight] : \A i \in 1..(n - 1) : w[i] <= w[i + 1]} :
           n \in 1..MaxConnections}

SeedInit ==
  /\ total \in Totals
  /\ schedule_mode \in Modes
  /\ dry_run \in BOOLEAN
  /\ weights \in Weights
  /\ seed_ranges = <<>>
  /\ built = FALSE

New ==
  /\ ~built
  /\ built' = TRUE
  /\ seed_ranges' =
       CASE schedule_mode = "FibAdaptive" -> BuildPhiGeometricRanges(total, weights)
         [] schedule_mode = "Fib"   -> BuildSeedRanges(total, Len(weights), dry_run)
         [] schedule_mode = "Equal" -> BuildEqualRanges(total, Len(weights))
  /\ UNCHANGED <<total, schedule_mode, dry_run, weights>>

SeedSpec == SeedInit /\ [][New]_seedVars
-----------------------------------------------------------------------------
\* Spans of positive length inside the file, in order.
SeedTypeOK ==
  \A i \in DOMAIN seed_ranges :
    /\ seed_ranges[i].byte_start \in 0..(total - 1)
    /\ seed_ranges[i].byte_end \in (seed_ranges[i].byte_start + 1)..total

Cover(s, size) ==
  \A b \in 0..(size - 1) :
    \E i \in DOMAIN s :
      /\ s[i].byte_start <= b /\ b < s[i].byte_end
      /\ \A j \in DOMAIN s : s[j].byte_start <= b /\ b < s[j].byte_end => j = i

\* Whatever the file's size, the number of connections and the mode, the seed
\* ranges cover every byte of the file exactly once (rounding to blocks, the
\* clamp of a boundary and the fall-back to equal ranges included).  A Fibonacci
\* table of a file of one megabyte or less is empty in the code: left out.
SeedsCoverFile ==
  built /\ (schedule_mode = "Fib" => total > MegaByte) => Cover(seed_ranges, total)

\* Every connection gets its share at the start.  The equal split makes no more
\* ranges than connections, of sizes one byte apart at most; in the Fibonacci
\* mode a live download gets a range per connection as soon as the table has
\* that many steps (choose_seed_start_idx lowers its start).
ConnectionsAreFed ==
  /\ schedule_mode = "Equal" =>
       /\ Len(seed_ranges) <= Len(weights)
       /\ \A i, j \in DOMAIN seed_ranges :
            seed_ranges[i].byte_end - seed_ranges[i].byte_start
              <= seed_ranges[j].byte_end - seed_ranges[j].byte_start + 1
  /\ schedule_mode = "Fib" /\ built =>
       Len(seed_ranges) >= Lesser(Len(weights), SupportIdx(total))
=============================================================================
