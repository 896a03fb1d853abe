--------------------------- MODULE MCBookingSources ---------------------------
(* Two sellers, one of them listed twice, an incomplete row, and no seller. *)
EXTENDS BookingSources, TLC

CONSTANTS f1, f2, h1, h2, h3

Row(offer) == [complete |-> TRUE, offer |-> offer]

MCRows == {<<>>, <<Row("direct"), [complete |-> FALSE, offer |-> "agency"], Row("direct")>>}

MCAnswers == [r \in {f1, f2, h1, h2, h3} |-> MCRows]

\* Nobody yet, and children who fill a party by themselves.
MCTripParties == {[adults |-> 0, children |-> 0], [adults |-> 1, children |-> 6]}

LookupSymmetry == Permutations({f1, f2}) \cup Permutations({h1, h2, h3})
==============================================================================
