----------------------------- MODULE MCWpUpdate -----------------------------
EXTENDS WpUpdate, TLC

CONSTANTS p1, p2, r1, r2

TwoPlugins == <<p1, p2>>
CoreAndPlugin == {"core", p1}
Symmetry == Permutations(Rollbacks)
=============================================================================
