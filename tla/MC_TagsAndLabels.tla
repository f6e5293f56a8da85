-------------------------- MODULE MC_TagsAndLabels --------------------------
EXTENDS TagsAndLabels

FnSymmetry == Permutations(FnName)
=============================================================================
