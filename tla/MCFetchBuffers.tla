--------------------------- MODULE MCFetchBuffers ---------------------------
(* Instances of FetchBuffers for TLC.                                      *)
EXTENDS FetchBuffers

CONSTANTS a, b, c, x

=============================================================================
