---------------------------- MODULE MCMongoStore ----------------------------
EXTENDS MongoStore, TLC

Symmetry ==
    Permutations(Browsers) \cup Permutations(Requests) \cup Permutations(Ids)
=============================================================================
