---------------------------- MODULE MCLegResearch ----------------------------
EXTENDS LegResearch, TLC

CONSTANTS d1, d2, d3

\* Executions of the worker are interchangeable.
DeliverySymmetry == Permutations(Deliveries)
=============================================================================
