------------------------------ MODULE EIPLines ------------------------------
(***************************************************************************)
(* What the timing tables promise, without the tables: every line has at   *)
(* most one entry, made when the line is requested and kept, through the   *)
(* fill, until the line leaves the cache.  The entry remembers where the   *)
(* request came from and whether a core has accessed the line.             *)
(*                                                                         *)
(* EIPTiming implements this specification: its two tables, their slots    *)
(* and ways, the tag store and the MSHRs are how.                          *)
(***************************************************************************)
EXTENDS FiniteSets, Naturals

CONSTANTS VLines, Sources, NoSource

VARIABLES
  requested,  \* entries of the lines on their way
  cached      \* entries of the lines in the cache

vars == <<requested, cached>>

Entries == [line : VLines, source : Sources \cup {NoSource}, accessed : BOOLEAN]

TypeOK == requested \subseteq Entries /\ cached \subseteq Entries

NewEntry(v, src, acc) == [line |-> v, source |-> src, accessed |-> acc]

Unknown(v) == \A e \in requested \cup cached : e.line # v

Access(e) == NewEntry(e.line, e.source, TRUE)

Replaced(S, e, f) == (S \ {e}) \cup {f}

----------------------------------------------------------------------------

\* A core's access marks the line's entry, or requests the line on its own
\* account.
DemandRequested(e) ==
  /\ e \in requested
  /\ requested' = Replaced(requested, e, Access(e))
  /\ UNCHANGED cached

DemandCached(e) ==
  /\ e \in cached
  /\ cached' = Replaced(cached, e, Access(e))
  /\ UNCHANGED requested

DemandNew(v) ==
  /\ Unknown(v)
  /\ requested' = requested \cup {NewEntry(v, NoSource, TRUE)}
  /\ UNCHANGED cached

Prefetch(v, src) ==
  /\ Unknown(v)
  /\ requested' = requested \cup {NewEntry(v, src, FALSE)}
  /\ UNCHANGED cached

\* The line of a requested entry arrives, or one nobody timed; the lines
\* of `out', at most one, make room; the line itself may be gone at once.
Arrive(arrived, out, stays) ==
  cached' = (cached \ out) \cup (IF stays THEN {arrived} ELSE {})

Fill(e, out, stays) ==
  /\ e \in requested
  /\ requested' = requested \ {e}
  /\ Arrive(e, out, stays)

FillUntimed(v, out, stays) ==
  /\ Unknown(v)
  /\ UNCHANGED requested
  /\ Arrive(NewEntry(v, NoSource, TRUE), out, stays)

Invalidate(e) ==
  /\ e \in cached
  /\ cached' = cached \ {e}
  /\ UNCHANGED requested

Victims == {{}} \cup {{e} : e \in cached}

Init == requested = {} /\ cached = {}

Next ==
  \/ \E e \in requested : DemandRequested(e)
  \/ \E e \in cached : DemandCached(e) \/ Invalidate(e)
  \/ \E v \in VLines : DemandNew(v)
  \/ \E v \in VLines, src \in Sources \cup {NoSource} : Prefetch(v, src)
  \/ \E out \in Victims, stays \in BOOLEAN :
       \/ \E e \in requested : Fill(e, out, stays)
       \/ \E v \in VLines : FillUntimed(v, out, stays)

Spec == Init /\ [][Next]_vars

============================================================================
