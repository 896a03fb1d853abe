---------------------------- MODULE MCOptionLocks ----------------------------
EXTENDS OptionLocks, TLC

CONSTANTS hotelA, hotelB, tour, unpriced, c1, c2

MCOptionTypeOf == [k \in Cards |-> IF k \in {hotelA, hotelB} THEN "hotel"
                                   ELSE IF k = tour THEN "activity"
                                   ELSE "imported"]
MCBasePrice == [k \in Cards |-> CASE k \in {hotelA, hotelB} -> 5
                                  [] k = tour -> 2
                                  [] k = unpriced -> None]

\* Requests are interchangeable, and the two hotels, which cost the same.
ClientSymmetry == Permutations(Clients)
HotelSymmetry == ClientSymmetry \cup Permutations({hotelA, hotelB})
=============================================================================
