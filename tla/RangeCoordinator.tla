------------------------- MODULE RangeCoordinator -------------------------
(***************************************************************************)
(* The range table of one download (engine/coordinator.rs and              *)
(* engine/coordinator/borrowing.rs): a vector of ActiveRange cells shared  *)
(* by the coordinator task, which hands ranges out and splits them, and by *)
(* the connection workers, which move their cursors.                       *)
(*                                                                         *)
(* A range is identified by its index in the vector: the code identifies   *)
(* it by its Rc pointer, and the vector only ever grows.                   *)
(***************************************************************************)
EXTENDS Integers, Sequences, FiniteSets

CONSTANTS
  Connections,    \* worker connection ids
  Unassigned,     \* UNASSIGNED_CONNECTION (u32::MAX)
  Total,          \* size of the file
  MB,             \* alignment unit of a split
  BorrowLimit,    \* borrow_limit_bytes: the smallest piece worth stealing
  AdaptiveSteals, \* values adaptive_minimum_steal_bytes takes while running
  TailPercent,    \* share of the file after which the tail phase begins (95)
  Seeds,          \* the seed ranges, a sequence of [byte_start, byte_end]
  Chunks          \* sizes of the pieces of body a worker appends in one step

Span == [byte_start : Nat, byte_end : Nat]

ASSUME CoordinatorAssumption ==
  /\ Unassigned \notin Connections
  /\ Total \in Nat \ {0}
  /\ MB \in Nat \ {0}
  /\ BorrowLimit \in Nat \ {0}
  /\ AdaptiveSteals \subseteq Nat
  /\ TailPercent \in 0..100
  /\ Chunks \subseteq Nat \ {0}

\* The builders hand the coordinator spans that cover every byte once.
ASSUME SeedAssumption ==
  /\ Seeds \in Seq(Span)
  /\ \A i \in DOMAIN Seeds :
       Seeds[i].byte_start < Seeds[i].byte_end /\ Seeds[i].byte_end <= Total
  /\ \A b \in 0..(Total - 1) :
       \E i \in DOMAIN Seeds :
         /\ Seeds[i].byte_start <= b /\ b < Seeds[i].byte_end
         /\ \A j \in DOMAIN Seeds :
              Seeds[j].byte_start <= b /\ b < Seeds[j].byte_end => j = i

VARIABLES
  dl_ranges,           \* the vector of ActiveRange
  next_unassigned_idx, \* first index the seed pass has not yet looked at
  borrow_cursor,       \* where the scan for a donor starts (0-based, as in the code)
  halted               \* RuntimeControl::is_halted()

vars == <<dl_ranges, next_unassigned_idx, borrow_cursor, halted>>

Status == {"PENDING", "ACTIVE", "FINISHED"}

ActiveRange ==
  [byte_start  : Nat,
   cursor      : Nat,
   end         : Nat,
   assigned_to : Connections \cup {Unassigned},
   status      : Status]

Index == DOMAIN dl_ranges
-----------------------------------------------------------------------------
(* The quantities get_work decides on.                                     *)
(* A definition named Bad... is a mistake on purpose: put in the place of  *)
(* the one below it, it shows that a property notices.                     *)

Remaining(r) == IF r.cursor < r.end THEN r.end - r.cursor ELSE 0

\* Bytes of a range that count as downloaded: min(cursor, end) - byte_start.
Downloaded(r) ==
  LET upto == IF r.cursor < r.end THEN r.cursor ELSE r.end
  IN IF upto > r.byte_start THEN upto - r.byte_start ELSE 0

\* The last range is not counted.
BadSnapshotDownloaded ==
  LET sum[i \in 0..Len(dl_ranges)] ==
        IF i = 0 THEN 0 ELSE sum[i - 1] + Downloaded(dl_ranges[i])
  IN sum[Len(dl_ranges) - 1]

SnapshotDownloaded ==
  LET sum[i \in 0..Len(dl_ranges)] ==
        IF i = 0 THEN 0 ELSE sum[i - 1] + Downloaded(dl_ranges[i])
      all == sum[Len(dl_ranges)]
  IN IF all < Total THEN all ELSE Total

IsTailPhase == SnapshotDownloaded * 100 >= Total * TailPercent

EffectiveBorrowLimit(adaptive) ==
  IF IsTailPhase THEN MB
  ELSE IF adaptive > BorrowLimit THEN adaptive ELSE BorrowLimit

AlignDown(b) == (b \div MB) * MB

\* The seed pass looks at owners only: not at the status, not at the cursor.
SeedCandidates ==
  {i \in Index : i >= next_unassigned_idx /\ dl_ranges[i].assigned_to = Unassigned}

\* Ranges given back half-way are overlooked.
BadRelinquished ==
  {i \in Index : /\ dl_ranges[i].assigned_to = Unassigned
                 /\ dl_ranges[i].status = "PENDING"
                 /\ dl_ranges[i].cursor = dl_ranges[i].byte_start}

\* The second pass: relinquished ranges with something left to fetch.
Relinquished ==
  {i \in Index : /\ dl_ranges[i].assigned_to = Unassigned
                 /\ dl_ranges[i].status = "PENDING"
                 /\ dl_ranges[i].cursor < dl_ranges[i].end}

\* Ranges another connection is downloading with more than `least` to go.
BusyElsewhere(c, least) ==
  {i \in Index : /\ dl_ranges[i].assigned_to \notin {c, Unassigned}
                 /\ dl_ranges[i].status = "ACTIVE"
                 /\ Remaining(dl_ranges[i]) > least}

ScanOffset(i) == (i - 1 - borrow_cursor) % Len(dl_ranges)

\* i is the range of S with most left, the first in scan order among equals.
FirstLargest(S, i) ==
  /\ i \in S
  /\ \A j \in S :
       \/ Remaining(dl_ranges[j]) < Remaining(dl_ranges[i])
       \/ /\ Remaining(dl_ranges[j]) = Remaining(dl_ranges[i])
          /\ ScanOffset(i) <= ScanOffset(j)

\* A straggler runs at 60% of the median speed or less.  Speeds are whatever
\* the network made them: `slow` is any set that can lie below the (upper)
\* median of the ranges whose speed enters it, so at most half of those.
MaybeSlow(c, limit) ==
  {slow \in SUBSET BusyElsewhere(c, limit - 1) :
     2 * Cardinality(slow) <= Cardinality(BusyElsewhere(c, limit - 1))}

Stragglers(c, limit, slow) ==
  {i \in slow \cap BusyElsewhere(c, 2 * limit) :
     Remaining(dl_ranges[i]) >= 3 * limit}

\* select_borrow_candidate: donor d, and the kind of theft.
SelectBorrowCandidate(c, limit, slow, d, kind) ==
  \/ /\ kind = "straggler"
     /\ FirstLargest(Stragglers(c, limit, slow), d)
  \/ /\ Stragglers(c, limit, slow) = {}
     /\ FirstLargest(BusyElsewhere(c, 2 * limit), d)
     /\ kind = IF IsTailPhase THEN "tail" ELSE "standard"

StealSize(remaining, kind) ==
  IF kind = "standard" THEN (remaining * 633) \div 1024 ELSE remaining \div 2

SplitPoint(d, kind) ==
  AlignDown(dl_ranges[d].end - StealSize(Remaining(dl_ranges[d]), kind))

\* split_active_range gives up when either piece would be too small.
SplitAllowed(d, limit, cut) ==
  /\ cut > dl_ranges[d].cursor + limit
  /\ dl_ranges[d].end - cut >= limit

BorrowKind == {"standard", "straggler", "tail"}

\* borrow_work finds donor d and splits it.
Borrowable(c, limit, slow, d, kind) ==
  /\ SelectBorrowCandidate(c, limit, slow, d, kind)
  /\ SplitAllowed(d, limit, SplitPoint(d, kind))
-----------------------------------------------------------------------------
(* Coordinator::run and get_work: one request of connection c. *)

Assign(c, i) ==
  dl_ranges' = [dl_ranges EXCEPT ![i].assigned_to = c, ![i].status = "ACTIVE"]

AssignSeed(c, i) ==
  /\ ~halted
  /\ i \in SeedCandidates
  /\ \A j \in SeedCandidates : i <= j
  /\ Assign(c, i)
  /\ next_unassigned_idx' = i + 1
  /\ UNCHANGED <<borrow_cursor, halted>>

\* The scan position runs past the end.
BadSeedPassExhausted ==
  /\ SeedCandidates = {}
  /\ next_unassigned_idx' = Len(dl_ranges) + 2

\* The seed pass found nothing: it has walked to the end of the vector.
SeedPassExhausted ==
  /\ SeedCandidates = {}
  /\ next_unassigned_idx' = Len(dl_ranges) + 1

Reassign(c, i) ==
  /\ ~halted
  /\ SeedPassExhausted
  /\ i \in Relinquished
  /\ \A j \in Relinquished : i <= j
  /\ Assign(c, i)
  /\ UNCHANGED <<borrow_cursor, halted>>

\* The donor's end is not moved.
BadSplit(c, d, cut) ==
  /\ dl_ranges' = Append(dl_ranges,
                         [byte_start  |-> cut,
                          cursor      |-> cut,
                          end         |-> dl_ranges[d].end,
                          assigned_to |-> c,
                          status      |-> "ACTIVE"])
  /\ borrow_cursor' = d

\* split_active_range: the donor keeps what lies before the cut.
Split(c, d, cut) ==
  /\ dl_ranges' = Append([dl_ranges EXCEPT ![d].end = cut],
                         [byte_start  |-> cut,
                          cursor      |-> cut,
                          end         |-> dl_ranges[d].end,
                          assigned_to |-> c,
                          status      |-> "ACTIVE"])
  /\ borrow_cursor' = d

Borrow(c) ==
  /\ ~halted
  /\ SeedPassExhausted
  /\ Relinquished = {}
  /\ \E adaptive \in AdaptiveSteals :
       LET limit == EffectiveBorrowLimit(adaptive)
       IN \E slow \in MaybeSlow(c, limit), d \in Index, kind \in BorrowKind :
            /\ Borrowable(c, limit, slow, d, kind)
            /\ Split(c, d, SplitPoint(d, kind))
  /\ UNCHANGED halted

\* get_work hands range i to connection c.
GetWork(c, i) ==
  \/ AssignSeed(c, i)
  \/ Reassign(c, i)
  \/ Borrow(c) /\ i = Len(dl_ranges) + 1

\* get_work returns None.
NoWork(c) ==
  /\ ~halted
  /\ SeedPassExhausted
  /\ Relinquished = {}
  /\ \E adaptive \in AdaptiveSteals :
       LET limit == EffectiveBorrowLimit(adaptive)
       IN \E slow \in MaybeSlow(c, limit) :
            \A d \in Index, kind \in BorrowKind : ~Borrowable(c, limit, slow, d, kind)
  /\ UNCHANGED <<dl_ranges, borrow_cursor, halted>>
-----------------------------------------------------------------------------
(* What the owner of a range does to its cells (engine/worker.rs). *)

\* A piece of body is not clipped: the donor writes into the stolen range.
BadAdvance(i, chunk) ==
  /\ dl_ranges[i].status = "ACTIVE"
  /\ Remaining(dl_ranges[i]) > 0
  /\ dl_ranges' = [dl_ranges EXCEPT ![i].cursor = @ + chunk]
  /\ UNCHANGED <<next_unassigned_idx, borrow_cursor, halted>>

\* A piece of body is appended, clipped to the end read at that moment.
Advance(i, chunk) ==
  LET left == Remaining(dl_ranges[i])
  IN /\ dl_ranges[i].status = "ACTIVE"
     /\ left > 0
     /\ dl_ranges' = [dl_ranges EXCEPT ![i].cursor =
                                    @ + (IF chunk < left THEN chunk ELSE left)]
     /\ UNCHANGED <<next_unassigned_idx, borrow_cursor, halted>>

FinishRange(i) ==
  /\ dl_ranges[i].status = "ACTIVE"
  /\ dl_ranges[i].cursor >= dl_ranges[i].end
  /\ dl_ranges' = [dl_ranges EXCEPT ![i].status = "FINISHED"]
  /\ UNCHANGED <<next_unassigned_idx, borrow_cursor, halted>>

\* relinquish_range: a halt or a scale-down gives the range back.
RelinquishRange(i) ==
  /\ dl_ranges[i].status = "ACTIVE"
  /\ dl_ranges' = [dl_ranges EXCEPT ![i].assigned_to = Unassigned,
                                    ![i].status = "PENDING"]
  /\ UNCHANGED <<next_unassigned_idx, borrow_cursor, halted>>
-----------------------------------------------------------------------------
(* Pause and resume. *)

Halt ==
  /\ ~halted
  /\ halted' = TRUE
  /\ UNCHANGED <<dl_ranges, next_unassigned_idx, borrow_cursor>>

\* The status of an unfinished range is kept.
BadNormalisedStatus(r) ==
  IF r.status = "FINISHED" THEN r ELSE [r EXCEPT !.assigned_to = Unassigned]

\* Finished ranges are reopened.
BadNormalisedFinished(r) == [r EXCEPT !.assigned_to = Unassigned, !.status = "PENDING"]

\* Unfinished ranges start over.
BadNormalisedCursor(r) ==
  IF r.status = "FINISHED" THEN r
  ELSE [r EXCEPT !.assigned_to = Unassigned, !.status = "PENDING", !.cursor = r.byte_start]

Normalised(r) ==
  IF r.status = "FINISHED" THEN r
  ELSE [r EXCEPT !.assigned_to = Unassigned, !.status = "PENDING"]

\* snapshot() of the halted coordinator, then from_snapshot(): owners that died
\* with the old process are forgotten, cursors and indices are kept.
ResumeFromSnapshot ==
  /\ halted
  /\ halted' = FALSE
  /\ dl_ranges' = [i \in Index |-> Normalised(dl_ranges[i])]
  /\ UNCHANGED <<next_unassigned_idx, borrow_cursor>>
-----------------------------------------------------------------------------
Init ==
  /\ dl_ranges = [i \in DOMAIN Seeds |->
                    [byte_start  |-> Seeds[i].byte_start,
                     cursor      |-> Seeds[i].byte_start,
                     end         |-> Seeds[i].byte_end,
                     assigned_to |-> Unassigned,
                     status      |-> "PENDING"]]
  /\ next_unassigned_idx = 1
  /\ borrow_cursor = 0
  /\ halted = FALSE

Next ==
  \/ \E c \in Connections : \E i \in 1..(Len(dl_ranges) + 1) : GetWork(c, i)
  \/ \E c \in Connections : NoWork(c)
  \/ \E i \in Index : \E n \in Chunks : Advance(i, n)
  \/ \E i \in Index : FinishRange(i) \/ RelinquishRange(i)
  \/ Halt
  \/ ResumeFromSnapshot

Spec == Init /\ [][Next]_vars
-----------------------------------------------------------------------------
(* Properties. *)

\* The cells hold values of their types, and the two scan positions stay
\* inside the vector they index (coordinator.rs 417-418, borrowing.rs 41).
TypeOK ==
  /\ dl_ranges \in Seq(ActiveRange)
  /\ next_unassigned_idx \in 1..(Len(dl_ranges) + 1)
  /\ borrow_cursor \in 0..Len(dl_ranges)
  /\ halted \in BOOLEAN

Covers(r, b) == r.byte_start <= b /\ b < r.end

Byte == 0..(Total - 1)

\* Every byte of the file lies in exactly one range, however often ranges were
\* split, given back and resumed: nothing is downloaded twice or forgotten
\* (split_active_range moves the donor's end and starts a new range there).
EveryByteInOneRange ==
  \A b \in Byte :
    \E i \in Index :
      /\ Covers(dl_ranges[i], b)
      /\ \A j \in Index : Covers(dl_ranges[j], b) => j = i

\* A split never cuts the donor behind the byte it has already reached, so a
\* cursor stays inside its range whoever stole from it in the meantime.
CursorInsideRange ==
  \A i \in Index :
    /\ dl_ranges[i].byte_start <= dl_ranges[i].cursor
    /\ dl_ranges[i].cursor <= dl_ranges[i].end
    /\ dl_ranges[i].end <= Total

\* A range is marked finished only when it was read to its (possibly moved)
\* end, and a range without an owner is never left ACTIVE or FINISHED: the seed
\* pass, which looks at owners only, cannot hand out a finished range.
StatusMatchesOwner ==
  \A i \in Index :
    /\ dl_ranges[i].status = "FINISHED" => dl_ranges[i].cursor = dl_ranges[i].end
    /\ dl_ranges[i].status = "PENDING" <=> dl_ranges[i].assigned_to = Unassigned

\* The bytes read so far, and the bytes an active range still has to read.
ReadIn(t) ==
  {b \in Byte : \E i \in DOMAIN t : t[i].byte_start <= b /\ b < t[i].cursor}

ClaimedIn(t) ==
  {b \in Byte : \E i \in DOMAIN t :
     t[i].status = "ACTIVE" /\ t[i].cursor <= b /\ b < t[i].end}

Fetched == ReadIn(dl_ranges)
Claimed == ClaimedIn(dl_ranges)

\* When neither pass of get_work finds a range to hand out, every byte still
\* missing is being downloaded by somebody: "no more work" loses nothing.
NothingLeftBehind ==
  SeedCandidates = {} /\ Relinquished = {} => Fetched \cup Claimed = Byte

\* The scheduler's own progress figure (snapshot_downloaded, which decides the
\* tail phase and, after a resume, where progress restarts) counts exactly the
\* bytes read, whatever splits did to the ranges.
ProgressIsExact == SnapshotDownloaded = Cardinality(Fetched)

\* A finished range is final: no later request, split or resume touches it
\* (get_work's first pass checks no status, borrowing checks it twice).
FinishedIsFinal ==
  [][\A i \in Index :
       dl_ranges[i].status = "FINISHED" => dl_ranges'[i] = dl_ranges[i]]_vars

\* The table implements the ledger of bytes: each is fetched at most once,
\* by a connection entitled to it, and what was fetched is never lost again.
Ledger == INSTANCE ByteLedger WITH fetched <- Fetched, claimed <- Claimed

LedgerSpec == Ledger!Spec
=============================================================================
