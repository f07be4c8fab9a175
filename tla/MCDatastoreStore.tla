-------------------------- MODULE MCDatastoreStore --------------------------
EXTENDS DatastoreStore, TLC

Symmetry ==
    Permutations(Browsers) \cup Permutations(Requests) \cup Permutations(Ids)
        \cup Permutations(Keys)
=============================================================================
