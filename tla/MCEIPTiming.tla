---------------------------- MODULE MCEIPTiming ----------------------------
(* Instances of EIPTiming for TLC.                                         *)
EXTENDS EIPTiming, TLC

CONSTANTS v1, v2, v3, p1, p2, p3

\* One address space: three lines compete for the two ways of one set.
MCOneToOne == {<<v1, p1>>, <<v2, p2>>, <<v3, p3>>}

MCTwoLines == {<<v1, p1>>, <<v2, p2>>}

\* Two processes run different code at the same virtual line v1.
MCHomonym == {<<v1, p1>>, <<v1, p2>>}

\* A shared library line p1, mapped at v1 by one process and v2 by another.
MCSynonym == {<<v1, p1>>, <<v2, p1>>}

\* The three lines of MCOneToOne are interchangeable, address pair by pair.
Renaming(V, P, g) ==
  [x \in VLines \cup PLines |->
     IF x \in VLines THEN V[g[CHOOSE i \in 1 .. 3 : V[i] = x]]
     ELSE P[g[CHOOSE i \in 1 .. 3 : P[i] = x]]]

MCSymmetry ==
  {Renaming(<<v1, v2, v3>>, <<p1, p2, p3>>, g) : g \in Permutations(1 .. 3)}

MCVSet == [v \in VLines |-> 0]

MCPSet == [p \in PLines |-> 0]

============================================================================
