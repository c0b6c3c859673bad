----------------------------- MODULE MCDelivery -----------------------------
(* An instance of Delivery for TLC: a stop and a filter that begin alike, and   *)
(* tokens that hold one or two characters.                                      *)
EXTENDS Delivery

CONSTANTS a, b, f, x

MCStops    == {<<a, b>>}
MCFilters  == <<<<a, f>>>>
MCPieces   == {<<a>>, <<b>>, <<f>>, <<x>>, <<x, a>>, <<b, x>>}
MCOpenings == {<<>>, <<x, a>>}
=============================================================================
