---------------------------- MODULE MCOptionPage ----------------------------
(* An option from before and one the run finds.                            *)
EXTENDS OptionPage

CONSTANTS before, found

MCClickable == [c \in Cards |-> IF c = before THEN Reactions ELSE {"up"}]
==============================================================================
