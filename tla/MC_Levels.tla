------------------------------ MODULE MC_Levels ------------------------------
EXTENDS Levels

CONSTANTS k1, k2, wk1, wk2, c1

=============================================================================
