------------------------- MODULE MCRequestHandler -------------------------
(***************************************************************************)
(* Instance of RequestHandler for TLC: two calls answered in parts, whose  *)
(* frames interleave; a Reject is their single response.                   *)
(***************************************************************************)
EXTENDS RequestHandler

CONSTANTS c1, c2

MCCall == {c1, c2}

=============================================================================
