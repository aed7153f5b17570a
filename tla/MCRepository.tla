---------------------------- MODULE MCRepository ----------------------------
EXTENDS RepositoryImplementsSlot
Symmetry == Permutations(Sessions)
=============================================================================
