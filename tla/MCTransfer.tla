---------------------------- MODULE MCTransfer ----------------------------
EXTENDS Transfer, TLC

\* One lane: the second connection has to steal its share.
SingleSeed == <<[byte_start |-> 0, byte_end |-> Total]>>

\* Three lanes of one unit each: nothing is left to steal.
UnitSeeds == [i \in 1..Total |-> [byte_start |-> i - 1, byte_end |-> i]]

\* Two lanes of different length.
TwoSeeds == <<[byte_start |-> 0, byte_end |-> 3],
              [byte_start |-> 3, byte_end |-> Total]>>

Symmetry == Permutations(Connections)
=============================================================================
