---------------------------- MODULE MCMatchFinder ----------------------------
EXTENDS MatchFinder, TLC
MCStrides == <<2, 3>>
MCKeySymmetry == Permutations(Keys)
=============================================================================
