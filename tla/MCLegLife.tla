------------------------------ MODULE MCLegLife ------------------------------
(* Pages with and without a price, a quote and a title; dates one by one.   *)
EXTENDS LegLife, TLC

MCNewDates == {[start |-> 1, end |-> 3]}

MCPatches == {[start |-> 3, end |-> None], [start |-> None, end |-> 1]}

Emit(title, priced, currency, quote) ==
    [title |-> title, priced |-> priced, currency |-> currency, quote |-> quote]

MCEmits ==
    {None, Emit("named", TRUE, "home", "literal"), Emit("named", TRUE, "abroad", "literal"),
     Emit("named", TRUE, "home", "blank"), Emit("named", FALSE, None, "literal"),
     Emit("named", FALSE, "home", "literal"), Emit("blank", TRUE, "home", "literal")}

MCManualPrices ==
    {[known |-> TRUE, currency |-> "home", quote |-> "none"],
     [known |-> FALSE, currency |-> None, quote |-> "none"],
     [known |-> FALSE, currency |-> "home", quote |-> "none"]}

ClientSymmetry == Permutations(Clients)
==============================================================================
