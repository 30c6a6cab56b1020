--------------------------- MODULE MCReleasePipeline ---------------------------
EXTENDS ReleasePipeline, TLC

CONSTANT Base

\* One candidate of the base was tagged before the ledger.
MCLegacy == {[base |-> Base, channel |-> "rc", seq |-> 1]}

Symmetry == Permutations(Runs)
=============================================================================
