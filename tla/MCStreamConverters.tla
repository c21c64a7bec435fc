------------------------- MODULE MCStreamConverters -------------------------
(***************************************************************************)
(* Prices for the streams: a cached token at a third of another's price,   *)
(* as providers charge, and one at three times that, which nothing rules   *)
(* out.                                                                    *)
(***************************************************************************)
EXTENDS StreamConverters

MCPrices == {[hit |-> 1000, miss |-> 3000, output |-> 5000],
             [hit |-> 3000, miss |-> 1000, output |-> 5000]}
=============================================================================
