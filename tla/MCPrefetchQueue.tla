-------------------------- MODULE MCPrefetchQueue --------------------------
(***************************************************************************)
(* Instances of PrefetchQueue: addresses are numbers, four to a page.      *)
(***************************************************************************)
EXTENDS PrefetchQueue

MCPage(a) == a \div 4
=============================================================================
