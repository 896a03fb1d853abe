--------------------------- MODULE MCCombinedTiers ---------------------------
(* CombinedTiers with tiers of one card each and prices 1 to 4, one of them  *)
(* shared by a flight and a transport option.                                *)
EXTENDS CombinedTiers

Opt(price, kind) == [price |-> price, kind |-> kind]

MCFlightFinds ==
    {{}, {Opt(2, "home")}, {Opt(1, "home"), Opt(4, "home"), Opt(3, "foreign")}}
MCTransportFinds ==
    {{Opt(1, "unpriced")}, {Opt(2, "home"), Opt(3, "converted"), Opt(1, "foreign")}}
MCOptions == UNION (MCFlightFinds \cup MCTransportFinds)
=============================================================================
