---------------------------- MODULE EIPEntangled ----------------------------
(***************************************************************************)
(* The entangled table: for a source line, the lines to prefetch when it   *)
(* is fetched and the size of its basic block.                             *)
(*                                                                         *)
(* An entry has one budget of bits for all its destinations.  In format f  *)
(* it holds up to f of them, each compressed to its low bits; the rest is  *)
(* taken from the source line.  The closer the destinations are to the     *)
(* source the higher the format, so adding a far one may cost several.     *)
(*                                                                         *)
(* Entries are addressed by a hash of the line: two lines with the same    *)
(* set and tag share an entry.  The hash enters only through them.         *)
(***************************************************************************)
EXTENDS Integers, FiniteSets

CONSTANTS
  Lines,       \* line addresses, without 0
  NumFormats,  \* L1I_ENTANGLED_NUM_FORMATS = L1I_MAX_ENTANGLED_PER_LINE
  Span,        \* Span[f]: 2^L1I_ENTANGLED_FORMATS[f - 1]
  Sets, NumWays,
  SetOf,       \* l1i_hash(line) % L1I_ET_SETS
  TagOf,       \* the L1I_TAG_BITS of the hash above the index
  ConfMax,     \* L1I_CONFIDENCE_COUNTER_MAX_VALUE
  MaxBB        \* L1I_MERGE_BBSIZE_MAX_VALUE

Formats == 1 .. NumFormats

Slots == 1 .. NumFormats

Ways == 0 .. NumWays - 1

\* The widest format holds whole line addresses; the widths are powers of two
\* that shrink as the format grows.
ASSUME EntangledAssumption ==
  /\ Lines \subseteq Nat \ {0}
  /\ NumFormats \in Nat \ {0}
  /\ Span \in [Formats -> Nat \ {0}]
  /\ \A l \in Lines : l < Span[1]
  /\ \A f, g \in Formats : f <= g => Span[f] % Span[g] = 0
  /\ NumWays \in Nat \ {0}
  /\ SetOf \in [Lines -> Sets]
  /\ TagOf \in [Lines -> Nat]
  /\ ConfMax \in Nat \ {0}
  /\ MaxBB \in Nat

VARIABLES
  table,  \* l1i_entangled_table[set][way]
  fifo    \* l1i_entangled_fifo[set]

vars == <<table, fifo>>

EntangledEntry ==
  [tag : Nat, format : Formats, addr : [Slots -> Nat],
   conf : [Slots -> 0 .. ConfMax], bb : 0 .. MaxBB]

\* Empty entries have tag 0, which is also the tag of some lines.
NewEntry(tag) ==
  [tag |-> tag, format |-> NumFormats, addr |-> [k \in Slots |-> 0],
   conf |-> [k \in Slots |-> 0], bb |-> 0]

TypeOK ==
  /\ table \in [Sets -> [Ways -> EntangledEntry]]
  /\ fifo \in [Sets -> Ways]

Least(S) == CHOOSE i \in S : \A j \in S : i <= j

Greatest(S) == CHOOSE i \in S : \A j \in S : j <= i

Larger(a, b) == IF a > b THEN a ELSE b

----------------------------------------------------------------------------
(* Compression.                                                            *)

\* The narrowest format whose implied high bits are right for d.
GetFormat(l, d) == Greatest({f \in Formats : l \div Span[f] = d \div Span[f]})

ExtendFormat(l, a, f) == (l \div Span[f]) * Span[f] + (a % Span[f])

CompressFormat(d, f) == d % Span[f]

\* L1I_CONFIDENCE_COUNTER_THRESHOLD is 1.  The code leaves the address of a
\* slot below it in place and never reads it: here it is 0.
Live(e) == {k \in Slots : e.conf[k] >= 1}

Decode(l, e, k) == ExtendFormat(l, e.addr[k], e.format)

----------------------------------------------------------------------------
(* Lookup and allocation.                                                  *)

WaysOf(l) == {w \in Ways : table[SetOf[l]][w].tag = TagOf[l]}

\* Mutant: an entry that knows nothing counts as free.
FoundInformed(l) ==
  \E w \in WaysOf(l) : Live(table[SetOf[l]][w]) # {} \/ table[SetOf[l]][w].bb # 0

Found(l) == WaysOf(l) # {}

GetEntry(l) == table[SetOf[l]][Least(WaysOf(l))]

NextWay(w) == (w + 1) % NumWays

\* Of the ways in S, the first one met walking round the set from way w.
NextAfter(S, w) ==
  CHOOSE i \in S : \A j \in S : (i - w) % NumWays <= (j - w) % NumWays

\* Mutant: the search does not ask whether the way holds destinations.
RelocateAnywhere(row, w) ==
  IF Live(row[w]) # {} /\ NumWays > 1 THEN [row EXCEPT ![NextWay(w)] = row[w]] ELSE row

\* The entry about to be evicted from way w moves to a way without live
\* destinations: one that is empty, or, if it has destinations itself, one
\* that only has a basic block size.
Relocate(row, w) ==
  LET unused == {i \in Ways \ {w} : Live(row[i]) = {}}
      empty  == {i \in unused : row[i].bb = 0}
      target == IF empty # {} THEN empty ELSE IF Live(row[w]) # {} THEN unused ELSE {}
  IN  IF (Live(row[w]) = {} /\ row[w].bb = 0) \/ target = {} THEN row
      ELSE [row EXCEPT ![NextAfter(target, w)] = row[w]]

\* The row of l's set, and the way in it, once l has an entry.
Allocated(l) ==
  LET s == SetOf[l]
  IN  IF Found(l) THEN table[s]
      ELSE [Relocate(table[s], fifo[s]) EXCEPT ![fifo[s]] = NewEntry(TagOf[l])]

AllocatedWay(l) == IF Found(l) THEN Least(WaysOf(l)) ELSE fifo[SetOf[l]]

\* Either insertion: entry e goes into l's way, found or allocated.
Store(l, e) ==
  LET s == SetOf[l]
  IN  /\ table' = [table EXCEPT ![s] = [Allocated(l) EXCEPT ![AllocatedWay(l)] = e]]
      /\ fifo' = IF Found(l) THEN fifo ELSE [fifo EXCEPT ![s] = NextWay(@)]

----------------------------------------------------------------------------
(* Adding a destination.                                                   *)

\* The format that destination d and the slots K of entry e need.
MinFormat(l, e, d, K) ==
  Least({GetFormat(l, d)} \cup {GetFormat(l, Decode(l, e, k)) : k \in K})

\* Eviction order: lower confidence first, then lower slot.
Before(e, j, k) == e.conf[j] < e.conf[k] \/ (e.conf[j] = e.conf[k] /\ j < k)

\* Mutant: the new destination is not counted.
FitsWithout(l, e, d, K) == Cardinality(K) <= MinFormat(l, e, d, K)

Fits(l, e, d, K) == Cardinality(K) + 1 <= MinFormat(l, e, d, K)

\* The live slots that stay: destinations are evicted in order until the
\* rest and d fit.
Keepable(l, e, d) ==
  {K \in SUBSET Live(e) : /\ Fits(l, e, d, K)
                          /\ \A k \in K, j \in Live(e) \ K : Before(e, j, k)}

Kept(l, e, d) ==
  CHOOSE K \in Keepable(l, e, d) : \A M \in Keepable(l, e, d) : M \subseteq K

\* Mutant: the format changes and the stored addresses do not.
NotReformatted(l, e, K, f) ==
  [e EXCEPT !.format = f, !.conf = [k \in Slots |-> IF k \in K THEN e.conf[k] ELSE 0]]

\* The entry with the slots of K recompressed to format f and no other live.
Reformatted(l, e, K, f) ==
  [e EXCEPT !.format = f,
            !.addr = [k \in Slots |-> IF k \in K THEN CompressFormat(Decode(l, e, k), f)
                                      ELSE 0],
            !.conf = [k \in Slots |-> IF k \in K THEN e.conf[k] ELSE 0]]

FreeSlot(e) == Least(Slots \ Live(e))

AddNew(l, e, d) ==
  LET K == Kept(l, e, d)
      f == MinFormat(l, e, d, K)
      r == Reformatted(l, e, K, f)
  IN  [r EXCEPT !.addr[FreeSlot(r)] = CompressFormat(d, f),
                !.conf[FreeSlot(r)] = ConfMax]

\* Mutant: the stored address is compared without extending it.
HoldingUnextended(l, e, d) == {k \in Live(e) : e.addr[k] = d}

Holding(l, e, d) == {k \in Live(e) : Decode(l, e, k) = d}

----------------------------------------------------------------------------
(* The operations that change the table.                                   *)

AddEntangledTable(l, d) ==
  LET e == Allocated(l)[AllocatedWay(l)]
      H == Holding(l, e, d)
  IN  Store(l, IF H # {} THEN [e EXCEPT !.conf[Least(H)] = ConfMax] ELSE AddNew(l, e, d))

AddBbsizeTable(l, n) ==
  LET e == Allocated(l)[AllocatedWay(l)]
  IN  Store(l, [e EXCEPT !.bb = Larger(@, n)])

\* The live slots of e that look like d.
Matching(e, d) ==
  {k \in Live(e) : CompressFormat(e.addr[k], e.format) = CompressFormat(d, e.format)}

\* Mutant: the counter does not saturate.
MovedUnsaturated(c, accessed) == IF accessed THEN c + 1 ELSE c - 1

\* A live slot's confidence after a hit or a wrong prefetch.
Moved(c, accessed) ==
  IF accessed THEN (IF c < ConfMax THEN c + 1 ELSE c) ELSE c - 1

\* The source of a prefetch is remembered as a set and a way while the
\* prefetch is queued, in flight and in the cache; by now the way may hold
\* another line.
UpdateConfidence(s, w, d, accessed) ==
  LET e    == table[s][w]
      conf == [k \in Slots |-> IF k \in Matching(e, d) THEN Moved(e.conf[k], accessed)
                               ELSE e.conf[k]]
  IN  /\ table' = [table EXCEPT ![s][w] =
           [e EXCEPT !.conf = conf,
                     !.addr = [k \in Slots |-> IF conf[k] = 0 THEN 0 ELSE e.addr[k]]]]
      /\ UNCHANGED fifo

Init ==
  /\ table = [s \in Sets |-> [w \in Ways |-> NewEntry(0)]]
  /\ fifo = [s \in Sets |-> 0]

\* A pair leaves the history buffer with a source other than itself.
Next ==
  \/ \E l \in Lines : \E d \in Lines \ {l} : AddEntangledTable(l, d)
  \/ \E l \in Lines, n \in 1 .. MaxBB : AddBbsizeTable(l, n)
  \/ \E s \in Sets, w \in Ways, d \in Lines, accessed \in BOOLEAN :
       UpdateConfidence(s, w, d, accessed)

Spec == Init /\ [][Next]_vars

----------------------------------------------------------------------------
(* Properties.                                                             *)

\* What calculatePrefetch reads for line l: the slots of its entry that
\* yield a line other than 0 and l.
Yielding(l) ==
  IF Found(l)
  THEN {k \in Live(GetEntry(l)) : Decode(l, GetEntry(l), k) \notin {0, l}}
  ELSE {}

Destinations(l) == {Decode(l, GetEntry(l), k) : k \in Yielding(l)}

\* "assert(format >= num_entangled)" of calculatePrefetch, for every line
\* that may be fetched next, aliases included.
FormatAssertion ==
  \A l \in Lines : \A k \in Yielding(l) :
    Cardinality(Yielding(l)) <= GetFormat(l, Decode(l, GetEntry(l), k))

\* No destination is stored twice, so a confidence update moves one slot.
DistinctDestinations ==
  \A s \in Sets : \A w \in Ways :
    LET e == table[s][w]
    IN  \A j, k \in Live(e) :
          CompressFormat(e.addr[j], e.format) = CompressFormat(e.addr[k], e.format) => j = k

\* Relocation and the shared tag 0 never hide what is known about a line: an
\* entry with destinations or a size is the one a lookup of its tag finds.
NothingHidden ==
  \A s \in Sets : \A w \in Ways :
    Live(table[s][w]) # {} \/ table[s][w].bb # 0
      => \A x \in Ways : table[s][x].tag = table[s][w].tag => w <= x

SharesEntry(l, m) == SetOf[l] = SetOf[m] /\ TagOf[l] = TagOf[m]

\* Reformatting invents nothing: a line gets a new destination only by being
\* entangled with it.  (A line that shares its entry with another one is
\* exempt: it decodes the other line's destinations with its own high bits.)
NothingInvented ==
  [][\A l \in Lines :
       (\A m \in Lines \ {l} : ~SharesEntry(l, m)) =>
         \A d \in Destinations(l)' \ Destinations(l) : AddEntangledTable(l, d)]_vars

\* "Only evict if it has more information": destinations are lost one at a
\* time by their confidence or by a far newcomer; a whole entry with live
\* destinations goes only from the FIFO way, when every other way has some.
EvictsOnlyWhenFull ==
  [][\A s \in Sets, w \in Ways :
       Live(table[s][w]) # {} /\ (\A x \in Ways : table'[s][x].tag # table[s][w].tag)
         => w = fifo[s] /\ \A x \in Ways : Live(table[s][x]) # {}]_vars

=============================================================================
