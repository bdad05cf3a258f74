---------------------------- MODULE MCUrmaFabric ----------------------------
EXTENDS UrmaFabric, TLC

\* Slots of a kind, lanes and sequences are interchangeable.
Symmetry ==
    Permutations(TxSlots) \cup Permutations(RxSlots)
    \cup Permutations(Lanes) \cup Permutations(Seqs)
=============================================================================
