---------------------------- MODULE RecencyList ----------------------------
(***************************************************************************)
(* What a store of learned origins promises: it lists the origins in the   *)
(* order of their use, forgets the one unused for longest first, and a     *)
(* restart finds what was saved last, or nothing.  A list is given by the  *)
(* place of each origin in it, 1 for the one used last.                    *)
(***************************************************************************)
EXTENDS Naturals

CONSTANTS RecencyOrigins, \* all origins
          RecencyCapacity \* origins a trimmed list may name

VARIABLES recent, \* the list of the origins known
          saved,  \* the list on disk
          last    \* the origin of the last use since a restart

recencyVars == <<recent, saved, last>>

NothingListed == [o \in {} |-> 0]

\* To the front: what stood before the origin, or everything, moves one back.
UsedNow(o) ==
  [p \in DOMAIN recent \cup {o} |->
     IF p = o THEN 1
     ELSE IF o \in DOMAIN recent /\ recent[o] < recent[p] THEN recent[p]
     ELSE recent[p] + 1]

Trimmed(list) == [o \in {p \in DOMAIN list : list[p] <= RecencyCapacity} |-> list[o]]

RecencyInit == recent = NothingListed /\ saved = NothingListed /\ last = {}

\* A use that is only remembered.
Use(o) == recent' = UsedNow(o) /\ UNCHANGED saved /\ last' = {o}

\* A use that is saved as well.
UseAndSave(o) ==
  recent' = Trimmed(UsedNow(o)) /\ saved' = recent' /\ last' = {o}

Restart == recent' = saved /\ UNCHANGED saved /\ last' = {}

RestartFromNothing == recent' = NothingListed /\ saved' = NothingListed /\ last' = {}

RecencyNext ==
  \/ \E o \in RecencyOrigins : Use(o) \/ UseAndSave(o)
  \/ Restart
  \/ RestartFromNothing

RecencySpec == RecencyInit /\ [][RecencyNext]_recencyVars
=============================================================================
