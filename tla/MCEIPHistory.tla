---------------------------- MODULE MCEIPHistory ----------------------------
(* Instances of EIPHistory for TLC.                                        *)
EXTENDS EIPHistory

\* Lines in the same group of four are close: two destinations fit.
MCFormat == [p \in Lines \X Lines |-> IF p[1] \div 4 = p[2] \div 4 THEN 2 ELSE 1]

\* No block is in the entangled table when it is fetched; sources get their
\* formats from the fills.
MCUnknown == {<<0, 0>>}

============================================================================
