------------------------------ MODULE MCLogFiles ------------------------------
EXTENDS LogFiles, TLC

WriterSymmetry == Permutations(Writers)
==============================================================================
