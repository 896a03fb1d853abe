---------------------------- MODULE MCTripMembers ----------------------------
EXTENDS TripMembers, TLC

CONSTANTS ana, ben, cleo, c1, c2

ClientSymmetry == Permutations(Clients)
=============================================================================
