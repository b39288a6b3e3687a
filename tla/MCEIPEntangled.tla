--------------------------- MODULE MCEIPEntangled ---------------------------
(* Instances of EIPEntangled for TLC.                                      *)
EXTENDS EIPEntangled, Sequences, TLC

\* Three destinations in the source's aligned group of four lines, two in
\* its group of eight, one anywhere.
MCThreeFormats == <<16, 8, 4>>

\* One format: an entry holds one whole line address.
MCOneFormat == <<16>>

MCOneSet == [l \in Lines |-> 0]

\* Lines 1 and 9 share a tag; line 8 has the tag of the empty entries.
MCTags == [l \in Lines |-> l % 8]

=============================================================================
