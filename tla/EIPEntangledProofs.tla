------------------------- MODULE EIPEntangledProofs -------------------------
(***************************************************************************)
(* Machine-checked proofs about EIPEntangled, for every set of lines, every *)
(* hash, every geometry and every list of formats.                         *)
(***************************************************************************)
EXTENDS EIPEntangled, FiniteSetTheorems, WellFoundedInduction, TLAPS

----------------------------------------------------------------------------
(* Searches over indices.                                                  *)

\* A search in index order returns the lowest match.
LEMMA LeastIsMember ==
  ASSUME NEW S \in SUBSET Nat, S # {}
  PROVE  Least(S) \in S /\ \A j \in S : Least(S) <= j
<1> DEFINE R == OpToRel(<, Nat)
<1>1. \E i \in S : \A j \in S : ~(<<j, i>> \in R)
  BY NatLessThanWellFounded, WFMin
<1>2. \A i, j \in Nat : j < i => <<j, i>> \in R
  BY Zenon DEF OpToRel
<1> HIDE DEF R
<1>3. PICK i \in S : \A j \in S : ~(<<j, i>> \in R)
  BY <1>1
<1>4. \A j \in S : ~(j < i)
  BY <1>2, <1>3
<1>5. \A j \in S : i <= j
  BY <1>4
<1> QED
  BY <1>5 DEF Least

\* A bounded set of indices has a greatest element.
LEMMA GreatestIsMember ==
  ASSUME NEW n \in Nat, NEW S \in SUBSET (0 .. n), S # {}
  PROVE  Greatest(S) \in S /\ \A j \in S : j <= Greatest(S)
<1> DEFINE T == {n - j : j \in S}
<1>1. T \in SUBSET Nat /\ T # {}
  <2>1. \A j \in S : n - j \in Nat
    OBVIOUS
  <2>2. PICK j \in S : TRUE
    OBVIOUS
  <2> QED
    BY <2>1, <2>2
<1>2. Least(T) \in T /\ \A i \in T : Least(T) <= i
  BY <1>1, LeastIsMember
<1>3. PICK j \in S : Least(T) = n - j
  BY <1>2
<1>4. \A i \in S : n - i \in T
  OBVIOUS
<1> HIDE DEF T
<1>5. \A i \in S : i <= j
  BY <1>2, <1>3, <1>4
<1> QED
  BY <1>5 DEF Greatest

----------------------------------------------------------------------------
(* Compression.                                                            *)

\* A line address is its high part and its low part.
LEMMA DivMod ==
  ASSUME NEW a \in Nat, NEW s \in Nat \ {0}
  PROVE  /\ a \div s \in Nat
         /\ a % s \in 0 .. s - 1
         /\ a = (a \div s) * s + (a % s)
  BY SMT

\* Quotient and remainder are unique.
LEMMA DivModUnique ==
  ASSUME NEW q \in Nat, NEW s \in Nat \ {0}, NEW r \in 0 .. s - 1
  PROVE  /\ (q * s + r) \div s = q
         /\ (q * s + r) % s = r
  BY SMT

\* Dropping the bits of a wider format is dropping more bits.
LEMMA DivDiv ==
  ASSUME NEW a \in Nat, NEW s \in Nat \ {0}, NEW t \in Nat \ {0}, t % s = 0
  PROVE  a \div t = (a \div s) \div (t \div s)
<1> DEFINE k == t \div s
           p == a \div s
           q == p \div k
           r == p % k
           m == a % s
<1>1. k \in Nat /\ t = k * s
  BY DivMod
<1>2. k # 0
  BY <1>1
<1>3. p \in Nat /\ m \in 0 .. s - 1 /\ a = p * s + m
  BY DivMod
<1> HIDE DEF k, p, m
<1>4. q \in Nat /\ r \in 0 .. k - 1 /\ p = q * k + r
  BY <1>1, <1>2, <1>3, DivMod
<1> HIDE DEF q, r
<1>5. a = q * t + (r * s + m)
  BY <1>1, <1>3, <1>4
<1>6. r * s + m \in 0 .. t - 1
  <2>1. (r + 1) * s <= k * s
    BY <1>1, <1>4
  <2>2. (r + 1) * s = r * s + s
    BY <1>4
  <2>3. r * s \in Nat
    BY <1>4
  <2> QED
    BY <2>1, <2>2, <2>3, <1>1, <1>3
<1>7. a \div t = q
  BY <1>4, <1>5, <1>6, DivModUnique
<1> QED
  BY <1>7 DEF q, p, k

\* The types of a format and of its span.
LEMMA SpanType ==
  ASSUME NEW f \in Formats
  PROVE  f \in Nat \ {0} /\ f <= NumFormats /\ Span[f] \in Nat \ {0}
  BY EntangledAssumption DEF Formats

\* Two lines that agree above a format's bits agree above a wider format's.
LEMMA CoarserFormat ==
  ASSUME NEW f \in Formats, NEW g \in Formats, f <= g, NEW x \in Nat, NEW y \in Nat,
         x \div Span[g] = y \div Span[g]
  PROVE  x \div Span[f] = y \div Span[f]
<1>1. Span[f] % Span[g] = 0
  BY EntangledAssumption
<1>2. Span[f] \in Nat \ {0} /\ Span[g] \in Nat \ {0}
  BY SpanType
<1>3. x \div Span[f] = (x \div Span[g]) \div (Span[f] \div Span[g])
  BY <1>1, <1>2, DivDiv
<1>4. y \div Span[f] = (y \div Span[g]) \div (Span[f] \div Span[g])
  BY <1>1, <1>2, DivDiv
<1> QED
  BY <1>3, <1>4

\* Extending a stored address keeps its low bits and takes the source's high
\* bits.
LEMMA ExtendFormatEffect ==
  ASSUME NEW l \in Nat, NEW a \in Nat, NEW f \in Formats
  PROVE  /\ ExtendFormat(l, a, f) \in Nat
         /\ ExtendFormat(l, a, f) \div Span[f] = l \div Span[f]
         /\ ExtendFormat(l, a, f) % Span[f] = a % Span[f]
<1>1. Span[f] \in Nat \ {0}
  BY SpanType
<1>2. l \div Span[f] \in Nat /\ a % Span[f] \in 0 .. Span[f] - 1
  BY <1>1, DivMod
<1> DEFINE q == l \div Span[f]
           r == a % Span[f]
<1> HIDE DEF q, r
<1>3. q \in Nat /\ r \in 0 .. Span[f] - 1
  BY <1>2 DEF q, r
<1>4. (q * Span[f] + r) \div Span[f] = q /\ (q * Span[f] + r) % Span[f] = r
  BY <1>1, <1>3, DivModUnique
<1>5. q * Span[f] + r \in Nat
  BY <1>1, <1>3
<1> QED
  BY <1>4, <1>5 DEF ExtendFormat, q, r

\* A line compressed to a format in which it agrees with the source is
\* extended to itself.
LEMMA ExtendCompress ==
  ASSUME NEW l \in Nat, NEW d \in Nat, NEW f \in Formats, l \div Span[f] = d \div Span[f]
  PROVE  /\ CompressFormat(d, f) \in Nat
         /\ ExtendFormat(l, CompressFormat(d, f), f) = d
<1>1. Span[f] \in Nat \ {0}
  BY SpanType
<1>2. d % Span[f] \in 0 .. Span[f] - 1 /\ d = (d \div Span[f]) * Span[f] + (d % Span[f])
  BY <1>1, DivMod
<1>3. (d % Span[f]) % Span[f] = d % Span[f]
  <2>1. (0 * Span[f] + (d % Span[f])) % Span[f] = d % Span[f]
    BY <1>1, <1>2, DivModUnique
  <2> QED
    BY <2>1, <1>1, <1>2
<1> QED
  BY <1>2, <1>3 DEF ExtendFormat, CompressFormat

\* Lines that agree with the source above a format's bits are told apart by
\* those bits.
LEMMA CompressInjective ==
  ASSUME NEW f \in Formats, NEW x \in Nat, NEW y \in Nat,
         x \div Span[f] = y \div Span[f], CompressFormat(x, f) = CompressFormat(y, f)
  PROVE  x = y
  BY SpanType, DivMod DEF CompressFormat

\* GetFormat returns the highest format in which the two lines agree.
LEMMA GetFormatEffect ==
  ASSUME NEW l \in Nat, NEW d \in Nat, NEW f \in Formats, l \div Span[f] = d \div Span[f]
  PROVE  /\ GetFormat(l, d) \in Formats
         /\ f <= GetFormat(l, d)
         /\ l \div Span[GetFormat(l, d)] = d \div Span[GetFormat(l, d)]
<1> DEFINE F == {g \in Formats : l \div Span[g] = d \div Span[g]}
<1>1. F \in SUBSET (0 .. NumFormats) /\ f \in F
  BY EntangledAssumption DEF Formats
<1>2. Greatest(F) \in F /\ \A j \in F : j <= Greatest(F)
  BY <1>1, EntangledAssumption, GreatestIsMember
<1> QED
  BY <1>1, <1>2 DEF GetFormat

\* The widest format serves every pair of lines.
LEMMA GetFormatOfLines ==
  ASSUME NEW l \in Lines, NEW d \in Lines
  PROVE  /\ GetFormat(l, d) \in Formats
         /\ l \div Span[GetFormat(l, d)] = d \div Span[GetFormat(l, d)]
<1>1. 1 \in Formats /\ Span[1] \in Nat \ {0}
  BY EntangledAssumption DEF Formats
<1>2. \A x \in Lines : x \in Nat /\ x \div Span[1] = 0
  <2> SUFFICES ASSUME NEW x \in Lines
               PROVE  x \in Nat /\ x \div Span[1] = 0
    OBVIOUS
  <2>1. x \in Nat /\ x < Span[1]
    BY EntangledAssumption
  <2>2. (0 * Span[1] + x) \div Span[1] = 0
    BY <1>1, <2>1, DivModUnique
  <2> QED
    BY <1>1, <2>1, <2>2
<1> QED
  BY <1>1, <1>2, GetFormatEffect

----------------------------------------------------------------------------
(* Adding a destination.                                                   *)

\* The fields of an entry.
LEMMA EntryType ==
  ASSUME NEW e \in EntangledEntry
  PROVE  /\ e.tag \in Nat /\ e.format \in Formats /\ e.bb \in 0 .. MaxBB
         /\ e.addr \in [Slots -> Nat] /\ e.conf \in [Slots -> 0 .. ConfMax]
         /\ e = [tag |-> e.tag, format |-> e.format, addr |-> e.addr,
                 conf |-> e.conf, bb |-> e.bb]
  BY DEF EntangledEntry

\* An update of destinations and confidences, written out.
LEMMA EntryExcept ==
  ASSUME NEW e \in EntangledEntry, NEW a, NEW c
  PROVE  [e EXCEPT !.conf = c, !.addr = a]
           = [tag |-> e.tag, format |-> e.format, addr |-> a, conf |-> c, bb |-> e.bb]
<1>1. \A x : x = [tag |-> e.tag, format |-> e.format, addr |-> e.addr, conf |-> c, bb |-> e.bb]
        => [x EXCEPT !.addr = a]
             = [tag |-> e.tag, format |-> e.format, addr |-> a, conf |-> c, bb |-> e.bb]
  OBVIOUS
<1>2. [e EXCEPT !.conf = c]
        = [tag |-> e.tag, format |-> e.format, addr |-> e.addr, conf |-> c, bb |-> e.bb]
  BY EntryType
<1>3. [[e EXCEPT !.conf = c] EXCEPT !.addr = a]
        = [tag |-> e.tag, format |-> e.format, addr |-> a, conf |-> c, bb |-> e.bb]
  BY <1>1, <1>2, Zenon
<1> QED
  BY <1>3

\* Set and tag of a line.
LEMMA LineType ==
  ASSUME NEW l \in Lines
  PROVE  l \in Nat /\ l # 0 /\ SetOf[l] \in Sets /\ TagOf[l] \in Nat
  BY EntangledAssumption

\* A slot decodes to a line that agrees with the source above the bits of
\* the entry's format.
LEMMA DecodeEffect ==
  ASSUME NEW l \in Lines, NEW e \in EntangledEntry, NEW k \in Slots
  PROVE  /\ Decode(l, e, k) \in Nat
         /\ Decode(l, e, k) \div Span[e.format] = l \div Span[e.format]
         /\ Decode(l, e, k) % Span[e.format] = e.addr[k] % Span[e.format]
         /\ GetFormat(l, Decode(l, e, k)) \in Formats
         /\ e.format <= GetFormat(l, Decode(l, e, k))
         /\ l \div Span[GetFormat(l, Decode(l, e, k))]
              = Decode(l, e, k) \div Span[GetFormat(l, Decode(l, e, k))]
<1>1. l \in Nat /\ e.addr[k] \in Nat /\ e.format \in Formats
  BY LineType, EntryType
<1>2. /\ Decode(l, e, k) \in Nat
      /\ Decode(l, e, k) \div Span[e.format] = l \div Span[e.format]
      /\ Decode(l, e, k) % Span[e.format] = e.addr[k] % Span[e.format]
  BY <1>1, ExtendFormatEffect DEF Decode
<1> QED
  BY <1>1, <1>2, GetFormatEffect

\* In the format an entry takes, the newcomer and the slots that stay all
\* agree with the source above the stored bits.
LEMMA MinFormatEffect ==
  ASSUME NEW l \in Lines, NEW e \in EntangledEntry, NEW d \in Lines, NEW K \in SUBSET Slots
  PROVE  LET f == MinFormat(l, e, d, K)
         IN  /\ f \in Formats
             /\ l \div Span[f] = d \div Span[f]
             /\ \A k \in K : l \div Span[f] = Decode(l, e, k) \div Span[f]
<1> DEFINE F == {GetFormat(l, d)} \cup {GetFormat(l, Decode(l, e, k)) : k \in K}
           f == MinFormat(l, e, d, K)
<1>1. GetFormat(l, d) \in Formats /\ l \div Span[GetFormat(l, d)] = d \div Span[GetFormat(l, d)]
  BY GetFormatOfLines
<1>2. \A k \in K : GetFormat(l, Decode(l, e, k)) \in Formats
  BY DecodeEffect
<1>3. F \in SUBSET Formats /\ GetFormat(l, d) \in F
      /\ \A k \in K : GetFormat(l, Decode(l, e, k)) \in F
  BY <1>1, <1>2
<1> HIDE DEF F
<1>4. F \in SUBSET Nat /\ F # {}
  BY <1>3, SpanType
<1>5. Least(F) \in F /\ \A j \in F : Least(F) <= j
  BY <1>4, LeastIsMember
<1>6. f = Least(F)
  BY DEF MinFormat, F
<1>7. f \in Formats /\ f <= GetFormat(l, d)
  BY <1>3, <1>5, <1>6
<1> HIDE DEF f
<1>8. l \div Span[f] = d \div Span[f]
  BY <1>1, <1>7, LineType, CoarserFormat
<1>9. \A k \in K : l \div Span[f] = Decode(l, e, k) \div Span[f]
  <2> SUFFICES ASSUME NEW k \in K
               PROVE  l \div Span[f] = Decode(l, e, k) \div Span[f]
    OBVIOUS
  <2> DEFINE x == Decode(l, e, k)
             g == GetFormat(l, x)
  <2>1. g \in F
    BY <1>3
  <2>2. f <= g
    BY <2>1, <1>5, <1>6
  <2>3. x \in Nat /\ g \in Formats /\ l \div Span[g] = x \div Span[g]
    BY DecodeEffect
  <2> HIDE DEF x, g
  <2>4. l \div Span[f] = x \div Span[f]
    BY <2>2, <2>3, <1>7, LineType, CoarserFormat
  <2> QED
    BY <2>4 DEF x
<1> QED
  BY <1>7, <1>8, <1>9 DEF f

\* The live slots of an entry, and their number.
LEMMA LiveType ==
  ASSUME NEW e \in EntangledEntry
  PROVE  /\ Live(e) \in SUBSET Slots /\ Slots \in SUBSET Nat
         /\ IsFiniteSet(Slots) /\ Cardinality(Slots) = NumFormats
         /\ \A K \in SUBSET Slots : IsFiniteSet(K) /\ Cardinality(K) \in 0 .. NumFormats
<1>1. NumFormats \in Nat \ {0} /\ IsFiniteSet(Slots) /\ Cardinality(Slots) = NumFormats
  BY EntangledAssumption, FS_Interval DEF Slots
<1>2. \A K \in SUBSET Slots : IsFiniteSet(K) /\ Cardinality(K) <= NumFormats
  BY <1>1, FS_Subset
<1>3. \A K \in SUBSET Slots : Cardinality(K) \in Nat
  BY <1>2, FS_CardinalityType
<1>4. Live(e) \in SUBSET Slots /\ Slots \in SUBSET Nat
  BY EntangledAssumption DEF Live, Slots
<1> QED
  BY <1>1, <1>2, <1>3, <1>4

\* The eviction loop ends: evicting every destination leaves room for the new
\* one, and of two sets it may stop at one contains the other.
LEMMA KeptIsKeepable ==
  ASSUME NEW l \in Lines, NEW e \in EntangledEntry, NEW d \in Lines
  PROVE  Kept(l, e, d) \in Keepable(l, e, d)
<1> DEFINE KK == Keepable(l, e, d)
           T == {NumFormats - Cardinality(K) : K \in KK}
<1>1. /\ Live(e) \in SUBSET Slots /\ Slots \in SUBSET Nat
      /\ \A K \in SUBSET Slots : IsFiniteSet(K) /\ Cardinality(K) \in 0 .. NumFormats
  BY LiveType
<1>2. KK \in SUBSET (SUBSET Slots)
  BY <1>1 DEF Keepable
<1>3. {} \in KK
  <2>1. MinFormat(l, e, d, {}) \in Formats
    BY MinFormatEffect
  <2>2. Cardinality({}) + 1 <= MinFormat(l, e, d, {})
    BY <2>1, FS_EmptySet, SpanType
  <2> QED
    BY <2>2 DEF Keepable, Fits
<1>4. \A K, M \in KK : K \subseteq M \/ M \subseteq K
  <2> SUFFICES ASSUME NEW K \in KK, NEW M \in KK,
                      NEW k \in K, k \notin M, NEW m \in M, m \notin K
               PROVE  FALSE
    OBVIOUS
  <2>1. k \in Live(e) /\ m \in Live(e) /\ k \in Nat /\ m \in Nat
    BY <1>1 DEF Keepable
  <2>2. Before(e, m, k) /\ Before(e, k, m)
    BY <2>1 DEF Keepable
  <2>3. e.conf[k] \in Nat /\ e.conf[m] \in Nat
    BY <1>1, <2>1, EntryType, EntangledAssumption
  <2> QED
    BY <2>1, <2>2, <2>3 DEF Before
<1> HIDE DEF KK
<1>5. T \in SUBSET Nat /\ T # {}
  <2>1. \A K \in KK : NumFormats - Cardinality(K) \in Nat
    BY <1>1, <1>2, EntangledAssumption
  <2> QED
    BY <1>3, <2>1
<1>6. Least(T) \in T /\ \A i \in T : Least(T) <= i
  BY <1>5, LeastIsMember
<1>7. PICK K \in KK : Least(T) = NumFormats - Cardinality(K)
  BY <1>6
<1>8. \A M \in KK : NumFormats - Cardinality(M) \in T
  OBVIOUS
<1> HIDE DEF T
<1>9. \A M \in KK : M \subseteq K
  <2> SUFFICES ASSUME NEW M \in KK, ~(M \subseteq K)
               PROVE  FALSE
    OBVIOUS
  <2>1. K \subseteq M
    BY <1>4
  <2>2. /\ IsFiniteSet(M) /\ Cardinality(M) \in 0 .. NumFormats
        /\ Cardinality(K) \in 0 .. NumFormats
    BY <1>1, <1>2
  <2>3. Cardinality(K) <= Cardinality(M) /\ Cardinality(K) # Cardinality(M)
    BY <2>1, <2>2, FS_Subset
  <2>4. Least(T) <= NumFormats - Cardinality(M)
    BY <1>6, <1>8
  <2> QED
    BY <1>7, <2>2, <2>3, <2>4, EntangledAssumption
<1> QED
  BY <1>9 DEF Kept, KK

\* The live destinations fit the format.
Budget(e) == Cardinality(Live(e)) <= e.format

\* No two live slots look alike.
Distinct(e) ==
  \A j, k \in Live(e) :
    CompressFormat(e.addr[j], e.format) = CompressFormat(e.addr[k], e.format) => j = k

GoodEntry(e) == e \in EntangledEntry /\ Budget(e) /\ Distinct(e)

\* Every destination of n is d or one that the same slot of e had.
Inherits(l, n, e, d) ==
  \A k \in Live(n) : Decode(l, n, k) = d \/ (k \in Live(e) /\ Decode(l, n, k) = Decode(l, e, k))

\* Recompressing the slots that stay and storing the newcomer keeps the entry
\* within its budget, keeps its destinations distinct and invents none.
LEMMA AddNewEffect ==
  ASSUME NEW l \in Lines, NEW e, GoodEntry(e), NEW d \in Lines, Holding(l, e, d) = {}
  PROVE  /\ GoodEntry(AddNew(l, e, d))
         /\ AddNew(l, e, d).tag = e.tag
         /\ Live(AddNew(l, e, d)) # {}
         /\ Inherits(l, AddNew(l, e, d), e, d)
<1> DEFINE K == Kept(l, e, d)
           f == MinFormat(l, e, d, K)
           r == Reformatted(l, e, K, f)
           k0 == FreeSlot(r)
           n == AddNew(l, e, d)
           x(k) == Decode(l, e, k)
<1>a. e \in EntangledEntry /\ Distinct(e)
  BY DEF GoodEntry
<1>b. /\ e.tag \in Nat /\ e.format \in Formats /\ e.bb \in 0 .. MaxBB
      /\ e.addr \in [Slots -> Nat] /\ e.conf \in [Slots -> 0 .. ConfMax]
      /\ e = [tag |-> e.tag, format |-> e.format, addr |-> e.addr,
              conf |-> e.conf, bb |-> e.bb]
  BY <1>a, EntryType
<1>c. /\ Live(e) \in SUBSET Slots /\ Slots \in SUBSET Nat
      /\ IsFiniteSet(Slots) /\ Cardinality(Slots) = NumFormats
      /\ \A M \in SUBSET Slots : IsFiniteSet(M) /\ Cardinality(M) \in 0 .. NumFormats
  BY <1>a, LiveType
<1>d. ConfMax \in Nat \ {0}
  BY EntangledAssumption
<1>1. K \in SUBSET Live(e) /\ K \in SUBSET Slots /\ Cardinality(K) + 1 <= f
  BY <1>a, <1>c, KeptIsKeepable DEF Keepable, Fits
<1>2. /\ f \in Formats
      /\ l \div Span[f] = d \div Span[f]
      /\ \A k \in K : l \div Span[f] = x(k) \div Span[f]
  BY <1>a, <1>1, MinFormatEffect
<1>3. \A k \in Slots : x(k) \in Nat
  BY <1>a, DecodeEffect
<1> HIDE DEF K, f
<1>4. r = [tag |-> e.tag, format |-> f,
           addr |-> [k \in Slots |-> IF k \in K THEN CompressFormat(x(k), f) ELSE 0],
           conf |-> [k \in Slots |-> IF k \in K THEN e.conf[k] ELSE 0], bb |-> e.bb]
  <2> DEFINE A == [k \in Slots |-> IF k \in K THEN CompressFormat(x(k), f) ELSE 0]
             C == [k \in Slots |-> IF k \in K THEN e.conf[k] ELSE 0]
  <2>1. r = [e EXCEPT !.format = f, !.addr = A, !.conf = C]
    BY DEF Reformatted
  <2> HIDE DEF A, C, r
  <2>2. r = [tag |-> e.tag, format |-> f, addr |-> A, conf |-> C, bb |-> e.bb]
    BY <1>b, <2>1
  <2> QED
    BY <2>2 DEF A, C
<1>5. Live(r) = K
  <2>1. \A k \in Slots : r.conf[k] = IF k \in K THEN e.conf[k] ELSE 0
    BY <1>4
  <2>2. \A k \in K : e.conf[k] >= 1
    BY <1>1 DEF Live
  <2> QED
    BY <1>1, <2>1, <2>2 DEF Live
<1>6. k0 \in Slots \ K
  <2>1. Slots \ K # {}
    <3>1. f \in Nat /\ f <= NumFormats /\ NumFormats \in Nat /\ Cardinality(K) \in Nat
      BY <1>1, <1>2, <1>c, SpanType, EntangledAssumption
    <3>2. K # Slots
      BY <3>1, <1>1, <1>c
    <3> QED
      BY <3>2, <1>1
  <2> QED
    BY <2>1, <1>5, <1>c, LeastIsMember DEF FreeSlot
<1> HIDE DEF r, k0
<1>7. n = [tag |-> e.tag, format |-> f,
           addr |-> [k \in Slots |-> IF k = k0 THEN CompressFormat(d, f)
                                     ELSE IF k \in K THEN CompressFormat(x(k), f) ELSE 0],
           conf |-> [k \in Slots |-> IF k = k0 THEN ConfMax
                                     ELSE IF k \in K THEN e.conf[k] ELSE 0], bb |-> e.bb]
  <2>1. n = [r EXCEPT !.addr[k0] = CompressFormat(d, f), !.conf[k0] = ConfMax]
    BY DEF AddNew, r, k0, K, f
  <2> HIDE DEF n, x
  <2> DEFINE A == [k \in Slots |-> IF k \in K THEN CompressFormat(x(k), f) ELSE 0]
             C == [k \in Slots |-> IF k \in K THEN e.conf[k] ELSE 0]
             B == [A EXCEPT ![k0] = CompressFormat(d, f)]
             D == [C EXCEPT ![k0] = ConfMax]
  <2>2. n = [tag |-> e.tag, format |-> f, addr |-> B, conf |-> D, bb |-> e.bb]
    <3> HIDE DEF A, C
    <3>1. r = [tag |-> e.tag, format |-> f, addr |-> A, conf |-> C, bb |-> e.bb]
      BY <1>4 DEF A, C
    <3> QED
      BY <2>1, <3>1
  <2>3. B = [k \in Slots |-> IF k = k0 THEN CompressFormat(d, f)
                             ELSE IF k \in K THEN CompressFormat(x(k), f) ELSE 0]
    BY <1>6
  <2>4. D = [k \in Slots |-> IF k = k0 THEN ConfMax
                             ELSE IF k \in K THEN e.conf[k] ELSE 0]
    BY <1>6
  <2> HIDE DEF A, B, C, D
  <2> QED
    BY <2>2, <2>3, <2>4
<1> HIDE DEF n, x
<1>8. /\ n.tag = e.tag /\ n.format = f /\ n.bb = e.bb
      /\ n.addr[k0] = CompressFormat(d, f) /\ n.conf[k0] = ConfMax
      /\ \A k \in K : n.addr[k] = CompressFormat(x(k), f) /\ n.conf[k] = e.conf[k]
      /\ \A k \in Slots \ (K \cup {k0}) : n.conf[k] = 0
  BY <1>7, <1>6, <1>1
<1>9. Live(n) = K \cup {k0}
  <2>1. \A k \in K : e.conf[k] >= 1
    BY <1>1 DEF Live
  <2> QED
    BY <1>1, <1>6, <1>8, <1>d, <2>1 DEF Live
<1>10. d \in Nat /\ l \in Nat
  BY LineType
<1>11. /\ CompressFormat(d, f) \in Nat
       /\ ExtendFormat(l, CompressFormat(d, f), f) = d
       /\ \A k \in K : /\ CompressFormat(x(k), f) \in Nat
                       /\ ExtendFormat(l, CompressFormat(x(k), f), f) = x(k)
  BY <1>1, <1>2, <1>3, <1>10, ExtendCompress
<1>12. Decode(l, n, k0) = d /\ \A k \in K : Decode(l, n, k) = x(k)
  BY <1>8, <1>11 DEF Decode
<1>13. n \in EntangledEntry
  BY <1>7, <1>b, <1>d, <1>2, <1>11 DEF EntangledEntry
<1>14. Budget(n)
  <2>1. IsFiniteSet(K) /\ Cardinality(K) \in Nat
    BY <1>1, <1>c
  <2>2. Cardinality(K \cup {k0}) = Cardinality(K) + 1
    BY <2>1, <1>6, FS_AddElement
  <2> QED
    BY <2>2, <1>1, <1>8, <1>9 DEF Budget
<1>15. \A j, k \in Live(n) : Decode(l, n, j) = Decode(l, n, k) => j = k
  <2>1. \A k \in K : x(k) # d
    BY <1>1 DEF Holding, x
  <2>2. \A j, k \in K : x(j) = x(k) => j = k
    <3> SUFFICES ASSUME NEW j \in K, NEW k \in K, x(j) = x(k)
                 PROVE  j = k
      OBVIOUS
    <3>1. j \in Live(e) /\ k \in Live(e) /\ j \in Slots /\ k \in Slots
      BY <1>1
    <3>2. e.addr[j] % Span[e.format] = e.addr[k] % Span[e.format]
      BY <1>a, <3>1, DecodeEffect DEF x
    <3> QED
      BY <1>a, <3>1, <3>2 DEF Distinct, CompressFormat
  <2> QED
    BY <2>1, <2>2, <1>9, <1>12
<1>16. Distinct(n)
  <2> SUFFICES ASSUME NEW j \in Live(n), NEW k \in Live(n),
                      CompressFormat(n.addr[j], n.format) = CompressFormat(n.addr[k], n.format)
               PROVE  j = k
    BY DEF Distinct
  <2>1. Decode(l, n, j) = Decode(l, n, k)
    BY DEF Decode, ExtendFormat, CompressFormat
  <2> QED
    BY <2>1, <1>15
<1>17. Inherits(l, n, e, d)
  BY <1>1, <1>9, <1>12 DEF Inherits, x
<1> QED
  BY <1>8, <1>9, <1>13, <1>14, <1>16, <1>17 DEF GoodEntry, n

----------------------------------------------------------------------------
(* Allocation and relocation.                                              *)

\* How far way j is from way w, walking round the set.
LEMMA Distance ==
  ASSUME NEW j \in Ways, NEW w \in Ways
  PROVE  (j - w) % NumWays = IF w <= j THEN j - w ELSE j - w + NumWays
<1>1. NumWays \in Nat \ {0} /\ j \in 0 .. NumWays - 1 /\ w \in 0 .. NumWays - 1
  BY EntangledAssumption DEF Ways
<1>2. CASE w <= j
  <2> DEFINE r == j - w
  <2>1. r \in 0 .. NumWays - 1
    BY <1>1, <1>2
  <2> HIDE DEF r
  <2>2. (0 * NumWays + r) % NumWays = r
    BY <1>1, <2>1, DivModUnique
  <2>3. r % NumWays = r
    BY <1>1, <2>1, <2>2
  <2> QED
    BY <1>2, <2>3 DEF r
<1>3. CASE ~(w <= j)
  BY <1>1, <1>3
<1> QED
  BY <1>2, <1>3

\* The walk round the set stops at the first way of S.
LEMMA NextAfterIsMember ==
  ASSUME NEW S \in SUBSET Ways, S # {}, NEW w \in Ways
  PROVE  /\ NextAfter(S, w) \in S
         /\ \A j \in S : (NextAfter(S, w) - w) % NumWays <= (j - w) % NumWays
<1> DEFINE T == {(j - w) % NumWays : j \in S}
<1>1. \A j \in S : (j - w) % NumWays \in Nat
  BY Distance, EntangledAssumption DEF Ways
<1>2. T \in SUBSET Nat /\ T # {}
  BY <1>1
<1>3. Least(T) \in T /\ \A i \in T : Least(T) <= i
  BY <1>2, LeastIsMember
<1>4. PICK i \in S : Least(T) = (i - w) % NumWays
  BY <1>3
<1>5. \A j \in S : (j - w) % NumWays \in T
  OBVIOUS
<1> HIDE DEF T
<1>6. \A j \in S : (i - w) % NumWays <= (j - w) % NumWays
  BY <1>3, <1>4, <1>5
<1> QED
  BY <1>6 DEF NextAfter

Row == [Ways -> EntangledEntry]

Informed(e) == Live(e) # {} \/ e.bb # 0

\* A lookup of an informed way's tag stops at that way.
Visible(row) ==
  \A w \in Ways : Informed(row[w]) => \A x \in Ways : row[x].tag = row[w].tag => w <= x

\* Way i receives what way w holds, and is where a lookup will find it.
MovesTo(row, w, i) ==
  /\ i \in Ways \ {w}
  /\ Informed(row[w])
  /\ Live(row[i]) = {}
  /\ \A x \in Ways \ {w} : row[x].tag = row[w].tag => i <= x
  /\ Relocate(row, w) = [row EXCEPT ![i] = row[w]]

\* Relocation overwrites a way without live destinations, from which a lookup
\* finds the moved entry; an entry with live destinations moves whenever some
\* way has none.
LEMMA RelocateEffect ==
  ASSUME NEW row \in Row, Visible(row), NEW w \in Ways
  PROVE  /\ Relocate(row, w) = row \/ \E i \in Ways : MovesTo(row, w, i)
         /\ Live(row[w]) # {} /\ (\E x \in Ways : Live(row[x]) = {})
              => \E i \in Ways : MovesTo(row, w, i)
<1> DEFINE unused == {i \in Ways \ {w} : Live(row[i]) = {}}
           empty  == {i \in unused : row[i].bb = 0}
           target == IF empty # {} THEN empty ELSE IF Live(row[w]) # {} THEN unused ELSE {}
<1>0. Relocate(row, w) = IF (Live(row[w]) = {} /\ row[w].bb = 0) \/ target = {} THEN row
                         ELSE [row EXCEPT ![NextAfter(target, w)] = row[w]]
  BY DEF Relocate
<1>1. CASE Live(row[w]) = {} /\ row[w].bb = 0
  <2>1. Relocate(row, w) = row
    BY <1>0, <1>1
  <2> QED
    BY <1>1, <2>1
<1>2. CASE ~(Live(row[w]) = {} /\ row[w].bb = 0) /\ empty # {}
  <2> DEFINE i == NextAfter(empty, w)
  <2>1. Relocate(row, w) = [row EXCEPT ![i] = row[w]]
    BY <1>0, <1>2
  <2>2. i \in empty /\ \A j \in empty : (i - w) % NumWays <= (j - w) % NumWays
    BY <1>2, NextAfterIsMember
  <2>3. ASSUME NEW x \in Ways \ {w}, row[x].tag = row[w].tag
        PROVE  i <= x
    <3>1. w <= x
      BY <1>2, <2>3 DEF Visible, Informed
    <3>2. x \in empty
      <4>1. ~(x <= w)
        BY <3>1, EntangledAssumption DEF Ways
      <4>2. ~Informed(row[x])
        BY <4>1, <2>3 DEF Visible
      <4> QED
        BY <4>2 DEF Informed
    <3>3. (i - w) % NumWays <= (x - w) % NumWays
      BY <2>2, <3>2
    <3>4. i \in Ways /\ x \in Ways
      BY <2>2
    <3> HIDE DEF i, empty, unused
    <3>5. (IF w <= i THEN i - w ELSE i - w + NumWays) <= x - w
      BY <3>1, <3>3, <3>4, Distance
    <3> QED
      BY <3>1, <3>4, <3>5, EntangledAssumption DEF Ways
  <2>4. MovesTo(row, w, i)
    BY <1>2, <2>1, <2>2, <2>3 DEF MovesTo, Informed
  <2> QED
    BY <2>2, <2>4
<1>3. CASE empty = {} /\ unused # {} /\ Live(row[w]) # {}
  <2> DEFINE i == NextAfter(unused, w)
  <2>1. Relocate(row, w) = [row EXCEPT ![i] = row[w]]
    BY <1>0, <1>3
  <2>2. i \in unused
    BY <1>3, NextAfterIsMember
  <2>3. ASSUME NEW x \in Ways \ {w}, row[x].tag = row[w].tag
        PROVE  i <= x
    <3>1. w <= x
      BY <1>3, <2>3 DEF Visible, Informed
    <3>2. ~(x <= w)
      BY <3>1, EntangledAssumption DEF Ways
    <3>3. ~Informed(row[x])
      BY <3>2, <2>3 DEF Visible
    <3> QED
      BY <3>3, <1>3 DEF Informed
  <2>4. MovesTo(row, w, i)
    BY <1>3, <2>1, <2>2, <2>3 DEF MovesTo, Informed
  <2> QED
    BY <2>2, <2>4
<1>4. CASE /\ ~(Live(row[w]) = {} /\ row[w].bb = 0) /\ empty = {}
           /\ ~(unused # {} /\ Live(row[w]) # {})
  <2>1. Relocate(row, w) = row
    BY <1>0, <1>4
  <2>2. ~(Live(row[w]) # {} /\ (\E x \in Ways : Live(row[x]) = {}))
    BY <1>4
  <2> QED
    BY <2>1, <2>2
<1> QED
  BY <1>1, <1>2, <1>3, <1>4

----------------------------------------------------------------------------
(* The inductive invariant.                                                *)

IInv ==
  /\ TypeOK
  /\ \A s \in Sets, w \in Ways : GoodEntry(table[s][w])
  /\ \A s \in Sets : Visible(table[s])

\* A fresh entry is sound and knows nothing.
LEMMA NewEntryEffect ==
  ASSUME NEW tag \in Nat
  PROVE  /\ GoodEntry(NewEntry(tag)) /\ ~Informed(NewEntry(tag))
         /\ NewEntry(tag).tag = tag /\ Live(NewEntry(tag)) = {}
<1>1. Live(NewEntry(tag)) = {}
  BY DEF NewEntry, Live
<1>2. NewEntry(tag) \in EntangledEntry
  BY EntangledAssumption DEF NewEntry, EntangledEntry, Formats
<1>3. NewEntry(tag).format = NumFormats /\ NewEntry(tag).bb = 0 /\ NewEntry(tag).tag = tag
  BY DEF NewEntry
<1> QED
  BY <1>1, <1>2, <1>3, FS_EmptySet, EntangledAssumption DEF GoodEntry, Budget, Distinct, Informed

\* What the invariant says of the set of a line.
LEMMA TableType ==
  ASSUME IInv, NEW l \in Lines
  PROVE  /\ SetOf[l] \in Sets /\ table[SetOf[l]] \in Row /\ fifo[SetOf[l]] \in Ways
         /\ \A w \in Ways : GoodEntry(table[SetOf[l]][w])
         /\ Visible(table[SetOf[l]])
         /\ WaysOf(l) \in SUBSET Ways
         /\ Found(l) => /\ Least(WaysOf(l)) \in WaysOf(l)
                        /\ \A x \in WaysOf(l) : Least(WaysOf(l)) <= x
<1>1. WaysOf(l) \in SUBSET Ways /\ WaysOf(l) \in SUBSET Nat
  BY DEF WaysOf, Ways
<1>2. Found(l) => /\ Least(WaysOf(l)) \in WaysOf(l)
                  /\ \A x \in WaysOf(l) : Least(WaysOf(l)) <= x
  BY <1>1, LeastIsMember DEF Found
<1>3. SetOf[l] \in Sets
  BY LineType
<1> QED
  BY <1>1, <1>2, <1>3 DEF IInv, TypeOK, Row

\* Finding or allocating l's entry moves other entries whole, destroys only
\* what the eviction destroys, and leaves l's way the one a lookup of l finds.
LEMMA AllocatedEffect ==
  ASSUME IInv, NEW l \in Lines
  PROVE  LET s == SetOf[l]
             a == AllocatedWay(l)
             row == Allocated(l)
         IN  /\ a \in Ways /\ row \in Row
             /\ \A x \in Ways : GoodEntry(row[x])
             /\ row[a].tag = TagOf[l]
             /\ \A x \in Ways : row[x].tag = TagOf[l] => a <= x
             /\ Visible(row)
             /\ \A x \in Ways \ {a} : \E y \in Ways : row[x] = table[s][y]
             /\ IF Found(l) THEN row = table[s] /\ a \in WaysOf(l)
                ELSE row[a] = NewEntry(TagOf[l])
<1> DEFINE s == SetOf[l]
           a == AllocatedWay(l)
           row == Allocated(l)
           old == table[s]
           new == NewEntry(TagOf[l])
<1>1. /\ s \in Sets /\ old \in Row /\ fifo[s] \in Ways
      /\ \A w \in Ways : GoodEntry(old[w])
      /\ Visible(old)
  BY TableType
<1>2. CASE Found(l)
  <2>1. row = old /\ a = Least(WaysOf(l))
    BY <1>2 DEF Allocated, AllocatedWay
  <2>2. a \in WaysOf(l) /\ a \in Ways /\ \A x \in WaysOf(l) : a <= x
    BY <1>2, <2>1, TableType
  <2>3. old[a].tag = TagOf[l] /\ \A x \in Ways : old[x].tag = TagOf[l] => a <= x
    BY <2>2 DEF WaysOf
  <2> QED
    BY <1>1, <1>2, <2>1, <2>2, <2>3
<1>3. CASE ~Found(l)
  <2> DEFINE w == fifo[s]
             moved == Relocate(old, w)
  <2>1. row = [moved EXCEPT ![w] = new] /\ a = w
    BY <1>3 DEF Allocated, AllocatedWay
  <2>2. \A x \in Ways : old[x].tag # TagOf[l]
    BY <1>3 DEF Found, WaysOf
  <2>3. GoodEntry(new) /\ ~Informed(new) /\ new.tag = TagOf[l] /\ new \in EntangledEntry
    BY LineType, NewEntryEffect DEF GoodEntry
  <2> HIDE DEF new, old, row, a
  <2>4. CASE moved = old
    <3>1. row = [old EXCEPT ![w] = new]
      BY <2>1, <2>4
    <3>2. row \in Row
      BY <1>1, <2>3, <3>1 DEF Row
    <3>3. row[w] = new /\ \A x \in Ways \ {w} : row[x] = old[x]
      BY <1>1, <3>1 DEF Row
    <3>4. Visible(row)
      <4> SUFFICES ASSUME NEW z \in Ways, Informed(row[z]), NEW x \in Ways,
                          row[x].tag = row[z].tag
                   PROVE  z <= x
        BY DEF Visible
      <4>1. z # w /\ x # w
        BY <2>2, <2>3, <3>3
      <4> QED
        BY <1>1, <3>3, <4>1 DEF Visible
    <3>5. \A x \in Ways : row[x].tag = TagOf[l] => x = w
      BY <2>2, <3>3
    <3> QED
      BY <1>1, <1>3, <2>1, <2>3, <3>2, <3>3, <3>4, <3>5 DEF Ways, row, a, new, old
  <2>5. ASSUME NEW i \in Ways, MovesTo(old, w, i)
        PROVE  /\ a \in Ways /\ row \in Row
               /\ \A x \in Ways : GoodEntry(row[x])
               /\ row[a].tag = TagOf[l]
               /\ \A x \in Ways : row[x].tag = TagOf[l] => a <= x
               /\ Visible(row)
               /\ \A x \in Ways \ {a} : \E y \in Ways : row[x] = old[y]
               /\ row[a] = new
    <3>1. /\ i # w /\ Informed(old[w]) /\ moved = [old EXCEPT ![i] = old[w]]
          /\ \A x \in Ways \ {w} : old[x].tag = old[w].tag => i <= x
      BY <2>5 DEF MovesTo
    <3>2. moved \in Row
      BY <1>1, <3>1 DEF Row
    <3>3. row \in Row
      BY <2>1, <2>3, <3>2 DEF Row
    <3>4. row[w] = new /\ row[i] = old[w] /\ \A x \in Ways \ {w, i} : row[x] = old[x]
      BY <1>1, <2>1, <3>1, <3>2 DEF Row
    <3>5. Visible(row)
      <4> SUFFICES ASSUME NEW z \in Ways, Informed(row[z]), NEW x \in Ways,
                          row[x].tag = row[z].tag
                   PROVE  z <= x
        BY DEF Visible
      <4>1. z # w /\ x # w
        BY <1>1, <2>2, <2>3, <3>4
      <4>2. CASE z = i
        <5>1. CASE x = i
          BY <4>2, <5>1 DEF Ways
        <5>2. CASE x # i
          BY <4>1, <4>2, <5>2, <3>1, <3>4
        <5> QED
          BY <5>1, <5>2
      <4>3. CASE z # i /\ x # i
        BY <1>1, <3>4, <4>1, <4>3 DEF Visible
      <4>4. CASE z # i /\ x = i
        <5>1. Informed(old[z]) /\ old[z].tag = old[w].tag
          BY <3>4, <4>1, <4>4
        <5>2. z <= w /\ w <= z
          BY <1>1, <3>1, <5>1 DEF Visible
        <5> QED
          BY <1>1, <4>1, <5>2 DEF Ways
      <4> QED
        BY <4>2, <4>3, <4>4
    <3>6. \A x \in Ways : row[x].tag = TagOf[l] => x = w
      BY <1>1, <2>2, <3>4
    <3>7. \A x \in Ways \ {w} : \E y \in Ways : row[x] = old[y]
      BY <1>1, <3>4
    <3> QED
      BY <1>1, <2>1, <2>3, <3>3, <3>4, <3>5, <3>6, <3>7 DEF Ways
  <2>6. moved = old \/ \E i \in Ways : MovesTo(old, w, i)
    BY <1>1, RelocateEffect
  <2> QED
    BY <1>3, <2>4, <2>5, <2>6 DEF row, a, new, old
<1> QED
  BY <1>2, <1>3

\* What Store does to l's set.
LEMMA StoreRow ==
  ASSUME IInv, NEW l \in Lines, NEW e, GoodEntry(e), e.tag = TagOf[l], Store(l, e)
  PROVE  LET s == SetOf[l]
             a == AllocatedWay(l)
         IN  /\ table'[s] \in Row
             /\ table'[s][a] = e
             /\ \A x \in Ways \ {a} : table'[s][x] = Allocated(l)[x]
             /\ \A t \in Sets \ {s} : table'[t] = table[t]
             /\ table' \in [Sets -> Row]
             /\ fifo' \in [Sets -> Ways]
<1> DEFINE s == SetOf[l]
           a == AllocatedWay(l)
           row == Allocated(l)
           new == [row EXCEPT ![a] = e]
<1>1. /\ s \in Sets /\ a \in Ways /\ row \in Row
      /\ table \in [Sets -> Row] /\ fifo \in [Sets -> Ways]
  BY AllocatedEffect, LineType DEF IInv, TypeOK, Row
<1>2. table' = [table EXCEPT ![s] = new]
  BY DEF Store
<1>3. fifo' = IF Found(l) THEN fifo ELSE [fifo EXCEPT ![s] = NextWay(@)]
  BY DEF Store
<1> HIDE DEF s, a, row
<1>4. new \in Row /\ new[a] = e /\ \A x \in Ways \ {a} : new[x] = row[x]
  BY <1>1 DEF Row, GoodEntry
<1> HIDE DEF new
<1>5. table' \in [Sets -> Row] /\ table'[s] = new /\ \A t \in Sets \ {s} : table'[t] = table[t]
  BY <1>1, <1>2, <1>4
<1>6. NextWay(fifo[s]) \in Ways
  <2>1. fifo[s] \in Nat /\ NumWays \in Nat \ {0}
    BY <1>1, EntangledAssumption DEF Ways
  <2> QED
    BY <2>1 DEF NextWay, Ways
<1>7. fifo' \in [Sets -> Ways]
  BY <1>1, <1>3, <1>6
<1> QED
  BY <1>4, <1>5, <1>7 DEF s, a, row

\* Storing a good entry under l's tag keeps the invariant.
LEMMA StoreKeepsIInv ==
  ASSUME IInv, NEW l \in Lines, NEW e, GoodEntry(e), e.tag = TagOf[l], Store(l, e)
  PROVE  IInv'
<1> DEFINE s == SetOf[l]
           a == AllocatedWay(l)
           row == Allocated(l)
<1>1. /\ a \in Ways /\ row \in Row
      /\ \A x \in Ways : GoodEntry(row[x])
      /\ row[a].tag = TagOf[l]
      /\ \A x \in Ways : row[x].tag = TagOf[l] => a <= x
      /\ Visible(row)
  BY AllocatedEffect
<1>2. /\ table'[s] \in Row
      /\ table'[s][a] = e
      /\ \A x \in Ways \ {a} : table'[s][x] = row[x]
      /\ \A t \in Sets \ {s} : table'[t] = table[t]
      /\ table' \in [Sets -> Row]
      /\ fifo' \in [Sets -> Ways]
  BY StoreRow
<1> HIDE DEF s, a, row
<1>3. TypeOK'
  BY <1>2 DEF TypeOK, Row
<1>4. \A t \in Sets, w \in Ways : GoodEntry(table'[t][w])
  BY <1>1, <1>2 DEF IInv
<1>5. Visible(table'[s])
  <2> SUFFICES ASSUME NEW z \in Ways, Informed(table'[s][z]), NEW x \in Ways,
                      table'[s][x].tag = table'[s][z].tag
               PROVE  z <= x
    BY DEF Visible
  <2>1. \A y \in Ways : table'[s][y].tag = row[y].tag
    BY <1>1, <1>2
  <2>2. CASE z = a
    BY <1>1, <2>1, <2>2
  <2>3. CASE z # a
    <3>1. Informed(row[z])
      BY <1>2, <2>3
    <3> QED
      BY <1>1, <2>1, <3>1 DEF Visible
  <2> QED
    BY <2>2, <2>3
<1>6. \A t \in Sets : Visible(table'[t])
  BY <1>2, <1>5 DEF IInv
<1> QED
  BY <1>3, <1>4, <1>6 DEF IInv

\* The entry AddEntangledTable stores.
Entangled(l, d) ==
  LET e == Allocated(l)[AllocatedWay(l)]
      H == Holding(l, e, d)
  IN  IF H # {} THEN [e EXCEPT !.conf[Least(H)] = ConfMax] ELSE AddNew(l, e, d)

\* add_entangled_table leaves a sound entry that inherits what fits.
LEMMA EntangledEffect ==
  ASSUME IInv, NEW l \in Lines, NEW d \in Lines
  PROVE  LET e == Allocated(l)[AllocatedWay(l)]
             n == Entangled(l, d)
         IN  GoodEntry(n) /\ n.tag = TagOf[l] /\ Inherits(l, n, e, d) /\ Live(n) # {}
<1> DEFINE e == Allocated(l)[AllocatedWay(l)]
           H == Holding(l, e, d)
           n == Entangled(l, d)
<1>1. GoodEntry(e) /\ e.tag = TagOf[l]
  BY AllocatedEffect
<1>2. CASE H = {}
  <2>1. n = AddNew(l, e, d)
    BY <1>2 DEF Entangled
  <2> HIDE DEF e
  <2>2. GoodEntry(AddNew(l, e, d)) /\ AddNew(l, e, d).tag = e.tag
        /\ Live(AddNew(l, e, d)) # {} /\ Inherits(l, AddNew(l, e, d), e, d)
    BY <1>1, <1>2, AddNewEffect
  <2> QED
    BY <1>1, <2>1, <2>2 DEF e
<1>3. CASE H # {}
  <2> DEFINE k == Least(H)
  <2>1. n = [e EXCEPT !.conf[k] = ConfMax]
    BY <1>3 DEF Entangled
  <2>2. e \in EntangledEntry /\ Budget(e) /\ Distinct(e)
    BY <1>1 DEF GoodEntry
  <2>3. Live(e) \in SUBSET Slots /\ Slots \in SUBSET Nat
    BY <2>2, LiveType
  <2>4. H \in SUBSET Live(e)
    BY DEF Holding
  <2>5. k \in Live(e)
    BY <1>3, <2>3, <2>4, LeastIsMember
  <2> HIDE DEF e, n, k
  <2>6. /\ e.tag \in Nat /\ e.format \in Formats /\ e.bb \in 0 .. MaxBB
        /\ e.addr \in [Slots -> Nat] /\ e.conf \in [Slots -> 0 .. ConfMax]
        /\ e = [tag |-> e.tag, format |-> e.format, addr |-> e.addr,
                conf |-> e.conf, bb |-> e.bb]
    BY <2>2, EntryType
  <2> DEFINE c == [e.conf EXCEPT ![k] = ConfMax]
  <2>7. n = [tag |-> e.tag, format |-> e.format, addr |-> e.addr, conf |-> c, bb |-> e.bb]
    BY <2>1, <2>6
  <2>8. c \in [Slots -> 0 .. ConfMax] /\ c[k] = ConfMax /\ \A j \in Slots \ {k} : c[j] = e.conf[j]
    BY <2>3, <2>5, <2>6, EntangledAssumption
  <2> HIDE DEF c
  <2>9. n \in EntangledEntry /\ n.tag = e.tag /\ n.format = e.format /\ n.addr = e.addr /\ n.conf = c
    BY <2>6, <2>7, <2>8 DEF EntangledEntry
  <2>10. Live(n) = Live(e)
    BY <2>3, <2>5, <2>8, <2>9, EntangledAssumption DEF Live
  <2>11. Budget(n) /\ Distinct(n)
    BY <2>2, <2>9, <2>10 DEF Budget, Distinct
  <2>12. Inherits(l, n, e, d)
    BY <2>9, <2>10 DEF Inherits, Decode
  <2> QED
    BY <1>1, <2>5, <2>9, <2>10, <2>11, <2>12 DEF GoodEntry, e, n
<1> QED
  BY <1>2, <1>3

\* The action stores that entry.
LEMMA AddEntangledStores ==
  ASSUME NEW l, NEW d, AddEntangledTable(l, d)
  PROVE  Store(l, Entangled(l, d))
  BY DEF AddEntangledTable, Entangled

\* The entry AddBbsizeTable stores.
Sized(l, n) ==
  LET e == Allocated(l)[AllocatedWay(l)] IN [e EXCEPT !.bb = Larger(@, n)]

\* add_bbsize_table changes no destination.
LEMMA SizedEffect ==
  ASSUME IInv, NEW l \in Lines, NEW n \in 1 .. MaxBB
  PROVE  LET e == Allocated(l)[AllocatedWay(l)]
             u == Sized(l, n)
         IN  /\ GoodEntry(u) /\ u.tag = TagOf[l] /\ Live(u) = Live(e)
             /\ u.format = e.format /\ u.addr = e.addr
<1> DEFINE e == Allocated(l)[AllocatedWay(l)]
           u == Sized(l, n)
<1>1. e \in EntangledEntry /\ e.tag = TagOf[l] /\ Budget(e) /\ Distinct(e)
  BY AllocatedEffect DEF GoodEntry
<1>2. u = [e EXCEPT !.bb = Larger(e.bb, n)]
  BY DEF Sized
<1> HIDE DEF e, u
<1>3. /\ e.tag \in Nat /\ e.format \in Formats /\ e.bb \in 0 .. MaxBB
      /\ e.addr \in [Slots -> Nat] /\ e.conf \in [Slots -> 0 .. ConfMax]
      /\ e = [tag |-> e.tag, format |-> e.format, addr |-> e.addr,
              conf |-> e.conf, bb |-> e.bb]
  BY <1>1, EntryType
<1>4. Larger(e.bb, n) \in 0 .. MaxBB
  BY <1>3, EntangledAssumption DEF Larger
<1>5. u = [tag |-> e.tag, format |-> e.format, addr |-> e.addr, conf |-> e.conf,
           bb |-> Larger(e.bb, n)]
  BY <1>2, <1>3
<1>6. u \in EntangledEntry
  BY <1>3, <1>4, <1>5 DEF EntangledEntry
<1>7. Live(u) = Live(e)
  BY <1>5 DEF Live
<1> QED
  BY <1>1, <1>5, <1>6, <1>7 DEF GoodEntry, Budget, Distinct, e, u

\* The action stores that entry.
LEMMA AddBbsizeStores ==
  ASSUME NEW l, NEW n, AddBbsizeTable(l, n)
  PROVE  Store(l, Sized(l, n))
  BY DEF AddBbsizeTable, Sized

\* u is e, with some of its live slots gone.
Narrows(u, e) ==
  /\ u.tag = e.tag /\ u.bb = e.bb /\ u.format = e.format
  /\ Live(u) \subseteq Live(e)
  /\ \A k \in Live(u) : u.addr[k] = e.addr[k]

\* A confidence update may drop destinations of the way it hits, adds none
\* and changes nothing else.
LEMMA UpdateConfidenceEffect ==
  ASSUME IInv, NEW s \in Sets, NEW w \in Ways, NEW d \in Lines, NEW accessed \in BOOLEAN,
         UpdateConfidence(s, w, d, accessed)
  PROVE  /\ table' \in [Sets -> Row] /\ fifo' = fifo
         /\ GoodEntry(table'[s][w]) /\ Narrows(table'[s][w], table[s][w])
         /\ \A t \in Sets, x \in Ways : t # s \/ x # w => table'[t][x] = table[t][x]
<1> DEFINE e == table[s][w]
           conf == [k \in Slots |-> IF k \in Matching(e, d) THEN Moved(e.conf[k], accessed)
                                    ELSE e.conf[k]]
           addr == [k \in Slots |-> IF conf[k] = 0 THEN 0 ELSE e.addr[k]]
           u == [e EXCEPT !.conf = conf, !.addr = addr]
<1>1. table' = [table EXCEPT ![s][w] = u] /\ fifo' = fifo
  BY DEF UpdateConfidence
<1>2. table \in [Sets -> Row]
  BY DEF IInv, TypeOK, Row
<1>3. e \in EntangledEntry /\ Budget(e) /\ Distinct(e)
  BY DEF IInv, GoodEntry
<1>4. /\ e.tag \in Nat /\ e.format \in Formats /\ e.bb \in 0 .. MaxBB
      /\ e.addr \in [Slots -> Nat] /\ e.conf \in [Slots -> 0 .. ConfMax]
      /\ e = [tag |-> e.tag, format |-> e.format, addr |-> e.addr,
              conf |-> e.conf, bb |-> e.bb]
  BY <1>3, EntryType
<1>5. \A k \in Slots : conf[k] \in 0 .. ConfMax /\ (conf[k] >= 1 => k \in Live(e))
  <2> SUFFICES ASSUME NEW k \in Slots
               PROVE  conf[k] \in 0 .. ConfMax /\ (conf[k] >= 1 => k \in Live(e))
    OBVIOUS
  <2>1. e.conf[k] \in 0 .. ConfMax /\ ConfMax \in Nat
    BY <1>4, EntangledAssumption
  <2>2. CASE k \in Matching(e, d)
    <3>1. k \in Live(e) /\ e.conf[k] >= 1
      BY <2>2 DEF Matching, Live
    <3>2. conf[k] = Moved(e.conf[k], accessed)
      BY <2>2
    <3> QED
      BY <2>1, <3>1, <3>2 DEF Moved
  <2>3. CASE k \notin Matching(e, d)
    BY <2>1, <2>3 DEF Live
  <2> QED
    BY <2>2, <2>3
<1>6. conf \in [Slots -> 0 .. ConfMax]
  BY <1>5
<1> HIDE DEF e, conf
<1>7. addr \in [Slots -> Nat] /\ \A k \in Slots : conf[k] >= 1 => addr[k] = e.addr[k]
  BY <1>4, <1>6
<1> HIDE DEF addr
<1>8. u = [tag |-> e.tag, format |-> e.format, addr |-> addr, conf |-> conf, bb |-> e.bb]
  BY <1>3, EntryExcept
<1> HIDE DEF u
<1>9. u \in EntangledEntry
  BY <1>4, <1>6, <1>7, <1>8 DEF EntangledEntry
<1>10. Narrows(u, e)
  BY <1>5, <1>7, <1>8 DEF Narrows, Live
<1>11. Budget(u)
  <2>1. IsFiniteSet(Live(e)) /\ IsFiniteSet(Live(u))
    BY <1>3, <1>9, LiveType
  <2>2. Cardinality(Live(u)) <= Cardinality(Live(e))
    BY <1>10, <2>1, FS_Subset DEF Narrows
  <2>3. Cardinality(Live(u)) \in Nat /\ Cardinality(Live(e)) \in Nat /\ e.format \in Nat
    BY <1>4, <2>1, FS_CardinalityType, SpanType
  <2> QED
    BY <1>3, <1>10, <2>2, <2>3 DEF Budget, Narrows
<1>12. Distinct(u)
  BY <1>3, <1>10 DEF Distinct, Narrows
<1>13. /\ table' \in [Sets -> Row] /\ table'[s][w] = u
       /\ \A t \in Sets, x \in Ways : t # s \/ x # w => table'[t][x] = table[t][x]
  BY <1>1, <1>2, <1>9 DEF Row
<1> QED
  BY <1>1, <1>9, <1>10, <1>11, <1>12, <1>13 DEF GoodEntry, e

\* A correction at an eviction, of whatever set and way, keeps the invariant.
LEMMA UpdateConfidenceKeepsIInv ==
  ASSUME IInv, NEW s \in Sets, NEW w \in Ways, NEW d \in Lines, NEW accessed \in BOOLEAN,
         UpdateConfidence(s, w, d, accessed)
  PROVE  IInv'
<1>1. /\ table' \in [Sets -> Row] /\ fifo' = fifo
      /\ GoodEntry(table'[s][w]) /\ Narrows(table'[s][w], table[s][w])
      /\ \A t \in Sets, x \in Ways : t # s \/ x # w => table'[t][x] = table[t][x]
  BY UpdateConfidenceEffect
<1>2. TypeOK'
  BY <1>1 DEF IInv, TypeOK, Row
<1>3. \A t \in Sets, x \in Ways : GoodEntry(table'[t][x])
  BY <1>1 DEF IInv
<1>4. \A t \in Sets, x \in Ways :
        /\ table'[t][x].tag = table[t][x].tag
        /\ Informed(table'[t][x]) => Informed(table[t][x])
  BY <1>1 DEF Narrows, Informed
<1>5. \A t \in Sets : Visible(table'[t])
  BY <1>4 DEF IInv, Visible
<1> QED
  BY <1>2, <1>3, <1>5 DEF IInv

\* The empty table is sound.
LEMMA InitIInv == Init => IInv
<1> SUFFICES ASSUME Init
             PROVE  IInv
  OBVIOUS
<1>1. GoodEntry(NewEntry(0)) /\ ~Informed(NewEntry(0)) /\ NewEntry(0) \in EntangledEntry
  BY NewEntryEffect DEF GoodEntry
<1>2. \A s \in Sets, w \in Ways : table[s][w] = NewEntry(0)
  BY DEF Init
<1>3. TypeOK
  BY <1>1, EntangledAssumption DEF Init, TypeOK, Ways
<1> QED
  BY <1>1, <1>2, <1>3 DEF IInv, Visible

\* The invariant is inductive.
LEMMA NextIInv == IInv /\ [Next]_vars => IInv'
<1> SUFFICES ASSUME IInv, [Next]_vars
             PROVE  IInv'
  OBVIOUS
<1>1. ASSUME NEW l \in Lines, NEW d \in Lines \ {l}, AddEntangledTable(l, d)
      PROVE  IInv'
  <2>1. Store(l, Entangled(l, d))
    BY <1>1, AddEntangledStores
  <2>2. GoodEntry(Entangled(l, d)) /\ Entangled(l, d).tag = TagOf[l]
    BY EntangledEffect
  <2> QED
    BY <2>1, <2>2, StoreKeepsIInv
<1>2. ASSUME NEW l \in Lines, NEW n \in 1 .. MaxBB, AddBbsizeTable(l, n)
      PROVE  IInv'
  <2>1. Store(l, Sized(l, n))
    BY <1>2, AddBbsizeStores
  <2>2. GoodEntry(Sized(l, n)) /\ Sized(l, n).tag = TagOf[l]
    BY SizedEffect
  <2> QED
    BY <2>1, <2>2, StoreKeepsIInv
<1>3. ASSUME NEW s \in Sets, NEW w \in Ways, NEW d \in Lines, NEW accessed \in BOOLEAN,
             UpdateConfidence(s, w, d, accessed)
      PROVE  IInv'
  BY <1>3, UpdateConfidenceKeepsIInv
<1>4. CASE UNCHANGED vars
  BY <1>4 DEF vars, IInv, TypeOK
<1> QED
  BY <1>1, <1>2, <1>3, <1>4 DEF Next

\* The entangled table keeps its type, its bit budget, its distinct
\* destinations and the visibility of what it knows through every operation.
THEOREM Invariance == Spec => []IInv
<1>1. Init => IInv
  BY InitIInv
<1>2. IInv /\ [Next]_vars => IInv'
  BY NextIInv
<1> QED
  BY <1>1, <1>2, PTL DEF Spec

----------------------------------------------------------------------------
(* What the invariant says of the properties.                              *)

\* eip.hh: every field of every entry stays within its declared range.
THEOREM TypeCorrect == Spec => []TypeOK
<1>1. IInv => TypeOK
  BY DEF IInv
<1> QED
  BY <1>1, Invariance, PTL

\* l1i_get_entangled_entry: the entry that knows something about a tag is the
\* one a lookup of the tag finds, whatever was relocated or evicted.
THEOREM NothingIsHidden == Spec => []NothingHidden
<1>1. IInv => NothingHidden
  BY DEF IInv, NothingHidden, Visible, Informed
<1> QED
  BY <1>1, Invariance, PTL

\* l1i_add_entangled_table: no destination is stored twice in an entry.
THEOREM DestinationsAreDistinct == Spec => []DistinctDestinations
<1>1. IInv => DistinctDestinations
  BY DEF IInv, GoodEntry, Distinct, DistinctDestinations
<1> QED
  BY <1>1, Invariance, PTL

\* calculatePrefetch: the assertion on the format holds for every line,
\* including one that reads another line's entry.
THEOREM FormatAssertionHolds == Spec => []FormatAssertion
<1>1. IInv => FormatAssertion
  <2> SUFFICES ASSUME IInv, NEW l \in Lines, NEW k \in Yielding(l)
               PROVE  Cardinality(Yielding(l)) <= GetFormat(l, Decode(l, GetEntry(l), k))
    BY DEF FormatAssertion
  <2> DEFINE e == GetEntry(l)
             Y == Yielding(l)
             g == GetFormat(l, Decode(l, e, k))
  <2>1. Found(l) /\ k \in Live(e) /\ Y \in SUBSET Live(e)
    BY DEF Yielding
  <2>2. GoodEntry(e)
    BY <2>1, TableType DEF GetEntry
  <2> HIDE DEF e, Y
  <2>3. Live(e) \in SUBSET Slots /\ IsFiniteSet(Live(e)) /\ e \in EntangledEntry /\ Budget(e)
    BY <2>2, LiveType DEF GoodEntry
  <2>4. Cardinality(Y) <= Cardinality(Live(e)) /\ IsFiniteSet(Y)
    BY <2>1, <2>3, FS_Subset
  <2>5. Cardinality(Y) \in Nat /\ Cardinality(Live(e)) \in Nat
    BY <2>3, <2>4, FS_CardinalityType
  <2>6. g \in Formats /\ e.format <= g /\ e.format \in Formats
    BY <2>1, <2>3, DecodeEffect, EntryType
  <2> HIDE DEF g
  <2>7. Cardinality(Y) <= g
    BY <2>3, <2>4, <2>5, <2>6, SpanType DEF Budget
  <2> QED
    BY <2>7 DEF g, Y, e
<1> QED
  BY <1>1, Invariance, PTL

----------------------------------------------------------------------------
(* What a step may do.                                                     *)

\* Every entry with live destinations is still in the set after an
\* allocation, unless it was in the FIFO way and every way has some.
LEMMA EvictionEffect ==
  ASSUME IInv, NEW l \in Lines, NEW w \in Ways, Live(table[SetOf[l]][w]) # {},
         \A x \in Ways : Allocated(l)[x].tag # table[SetOf[l]][w].tag
  PROVE  w = fifo[SetOf[l]] /\ \A x \in Ways : Live(table[SetOf[l]][x]) # {}
<1> DEFINE s == SetOf[l]
           row == Allocated(l)
           old == table[s]
           v == fifo[s]
           moved == Relocate(old, v)
           new == NewEntry(TagOf[l])
<1>1. s \in Sets /\ old \in Row /\ v \in Ways /\ Visible(old)
  BY TableType
<1>2. ~Found(l)
  <2>1. Found(l) => row[w].tag = old[w].tag
    BY DEF Allocated
  <2> QED
    BY <2>1
<1>3. row = [moved EXCEPT ![v] = new]
  BY <1>2 DEF Allocated
<1> HIDE DEF row, old, new, v
<1>4. ASSUME NEW i \in Ways, MovesTo(old, v, i)
      PROVE  FALSE
  <2>1. /\ i # v /\ Live(old[i]) = {} /\ moved = [old EXCEPT ![i] = old[v]]
    BY <1>4 DEF MovesTo
  <2>2. moved \in [Ways -> EntangledEntry]
    BY <1>1, <2>1 DEF Row
  <2>3. row[i] = old[v] /\ \A x \in Ways \ {i, v} : row[x] = old[x]
    BY <1>1, <1>3, <2>1, <2>2 DEF Row
  <2>4. CASE w = v
    BY <2>3, <2>4 DEF row, old
  <2>5. CASE w # v
    <3>1. w # i
      BY <2>1 DEF old
    <3> QED
      BY <2>3, <2>5, <3>1 DEF row, old
  <2> QED
    BY <2>4, <2>5
<1>5. moved = old
  BY <1>1, <1>4, RelocateEffect
<1>6. w = v
  <2> SUFFICES ASSUME w # v
               PROVE  FALSE
    OBVIOUS
  <2>1. row[w] = old[w]
    BY <1>1, <1>3, <1>5 DEF Row
  <2> QED
    BY <2>1 DEF row, old
<1>7. \A x \in Ways : Live(old[x]) # {}
  <2>1. Live(old[v]) # {}
    BY <1>6 DEF old
  <2> QED
    BY <1>1, <1>4, <2>1, RelocateEffect
<1> QED
  BY <1>6, <1>7 DEF old, v

\* "Only evict if it has more information" of l1i_add_entangled_table: an
\* entry with live destinations leaves its set only from the FIFO way, and
\* only when every way of the set has live destinations.
THEOREM EvictsOnlyFromFullSets == Spec => EvictsOnlyWhenFull
<1> DEFINE Lost(s, w) ==
             Live(table[s][w]) # {} /\ \A x \in Ways : table'[s][x].tag # table[s][w].tag
           Allowed(s, w) == w = fifo[s] /\ \A x \in Ways : Live(table[s][x]) # {}
           Act == \A s \in Sets, w \in Ways : Lost(s, w) => Allowed(s, w)
<1>1. ASSUME IInv, NEW l \in Lines, NEW e, GoodEntry(e), e.tag = TagOf[l], Store(l, e)
      PROVE  Act
  <2> SUFFICES ASSUME NEW s \in Sets, NEW w \in Ways, Lost(s, w)
               PROVE  Allowed(s, w)
    OBVIOUS
  <2>1. /\ table'[SetOf[l]][AllocatedWay(l)] = e
        /\ \A x \in Ways \ {AllocatedWay(l)} : table'[SetOf[l]][x] = Allocated(l)[x]
        /\ \A t \in Sets \ {SetOf[l]} : table'[t] = table[t]
    BY <1>1, StoreRow
  <2>2. AllocatedWay(l) \in Ways /\ Allocated(l)[AllocatedWay(l)].tag = TagOf[l]
    BY <1>1, AllocatedEffect
  <2>3. s = SetOf[l]
    BY <2>1
  <2>4. \A x \in Ways : Allocated(l)[x].tag = table'[s][x].tag
    BY <1>1, <2>1, <2>2, <2>3
  <2>5. \A x \in Ways : Allocated(l)[x].tag # table[s][w].tag
    BY <2>4
  <2> QED
    BY <1>1, <2>3, <2>5, EvictionEffect
<1>2. ASSUME IInv, NEW s \in Sets, NEW w \in Ways, NEW d \in Lines, NEW accessed \in BOOLEAN,
             UpdateConfidence(s, w, d, accessed)
      PROVE  Act
  <2>1. \A t \in Sets, x \in Ways : table'[t][x].tag = table[t][x].tag
    BY <1>2, UpdateConfidenceEffect DEF Narrows
  <2> QED
    BY <2>1
<1>3. IInv /\ [Next]_vars => [Act]_vars
  <2> SUFFICES ASSUME IInv, Next
               PROVE  Act
    OBVIOUS
  <2> HIDE DEF Act
  <2>1. ASSUME NEW l \in Lines, NEW d \in Lines \ {l}, AddEntangledTable(l, d)
        PROVE  Act
    BY <1>1, <2>1, AddEntangledStores, EntangledEffect
  <2>2. ASSUME NEW l \in Lines, NEW n \in 1 .. MaxBB, AddBbsizeTable(l, n)
        PROVE  Act
    BY <1>1, <2>2, AddBbsizeStores, SizedEffect
  <2> QED
    BY <1>2, <2>1, <2>2 DEF Next
<1>4. Spec => [][Act]_vars
  BY <1>3, Invariance, PTL DEF Spec
<1> QED
  BY <1>4 DEF EvictsOnlyWhenFull

\* Some way with l's tag has a live slot that decodes to x.
Knows(l, x) ==
  \E w \in Ways :
    /\ table[SetOf[l]][w].tag = TagOf[l]
    /\ \E k \in Live(table[SetOf[l]][w]) : x = Decode(l, table[SetOf[l]][w], k)

\* What a lookup reads is all that the table knows: no other way of the tag
\* has live destinations.
LEMMA DestinationsAreKnown ==
  IInv => \A l \in Lines : \A x : x \in Destinations(l) <=> Knows(l, x) /\ x \notin {0, l}
<1> SUFFICES ASSUME IInv, NEW l \in Lines, NEW x
             PROVE  x \in Destinations(l) <=> Knows(l, x) /\ x \notin {0, l}
  OBVIOUS
<1> DEFINE row == table[SetOf[l]]
           a == Least(WaysOf(l))
<1>1. ASSUME x \in Destinations(l)
      PROVE  Knows(l, x) /\ x \notin {0, l}
  <2>1. PICK k \in Yielding(l) : x = Decode(l, GetEntry(l), k)
    BY <1>1 DEF Destinations
  <2>2. Found(l) /\ k \in Live(GetEntry(l)) /\ x \notin {0, l}
    BY <2>1 DEF Yielding
  <2>3. a \in WaysOf(l)
    BY <2>2, TableType
  <2>4. a \in Ways /\ row[a].tag = TagOf[l] /\ GetEntry(l) = row[a]
    BY <2>3 DEF WaysOf, GetEntry
  <2> QED
    BY <2>1, <2>2, <2>4 DEF Knows
<1>2. ASSUME Knows(l, x), x \notin {0, l}
      PROVE  x \in Destinations(l)
  <2>1. PICK w \in Ways : row[w].tag = TagOf[l] /\ \E k \in Live(row[w]) : x = Decode(l, row[w], k)
    BY <1>2 DEF Knows
  <2>2. Found(l) /\ w \in WaysOf(l)
    BY <2>1 DEF WaysOf, Found
  <2>3. a \in WaysOf(l) /\ a <= w /\ a \in Ways /\ row[a].tag = TagOf[l]
    BY <2>2, TableType DEF WaysOf
  <2>4. w <= a
    BY <2>1, <2>3, TableType DEF Visible, Informed
  <2>5. w = a
    BY <2>3, <2>4 DEF Ways
  <2>6. GetEntry(l) = row[w]
    BY <2>5 DEF GetEntry
  <2> QED
    BY <1>2, <2>1, <2>2, <2>6 DEF Destinations, Yielding
<1> QED
  BY <1>1, <1>2

Alone(l) == \A m \in Lines \ {l} : ~SharesEntry(l, m)

\* Storing under m's tag gives l's entry nothing that neither the set nor the
\* stored entry knew.
LEMMA StoreKnows ==
  ASSUME IInv, NEW m \in Lines, NEW e, GoodEntry(e), e.tag = TagOf[m], Store(m, e),
         NEW l \in Lines, Alone(l), NEW x, Knows(l, x)'
  PROVE  Knows(l, x) \/ (m = l /\ \E k \in Live(e) : x = Decode(l, e, k))
<1> DEFINE s == SetOf[l]
           a == AllocatedWay(m)
<1>1. PICK w \in Ways : /\ table'[s][w].tag = TagOf[l]
                        /\ \E k \in Live(table'[s][w]) : x = Decode(l, table'[s][w], k)
  BY DEF Knows, Live, Decode
<1>2. s \in Sets
  BY LineType
<1>3. /\ table'[SetOf[m]][a] = e
      /\ \A y \in Ways \ {a} : table'[SetOf[m]][y] = Allocated(m)[y]
      /\ \A t \in Sets \ {SetOf[m]} : table'[t] = table[t]
  BY StoreRow
<1>4. CASE SetOf[m] # s
  BY <1>1, <1>2, <1>3, <1>4 DEF Knows
<1>5. CASE SetOf[m] = s /\ w = a
  <2>1. TagOf[m] = TagOf[l]
    BY <1>1, <1>3, <1>5
  <2>2. m = l
    BY <1>5, <2>1 DEF Alone, SharesEntry
  <2> QED
    BY <1>1, <1>3, <1>5, <2>2
<1>6. CASE SetOf[m] = s /\ w # a
  <2>1. PICK y \in Ways : Allocated(m)[w] = table[s][y]
    BY <1>6, AllocatedEffect
  <2>2. table'[s][w] = table[s][y]
    BY <1>3, <1>6, <2>1
  <2> QED
    BY <1>1, <2>2 DEF Knows
<1> QED
  BY <1>4, <1>5, <1>6

\* What l's way holds before an entry is stored in it is known of l already.
LEMMA AllocatedIsKnown ==
  ASSUME IInv, NEW l \in Lines, NEW k \in Live(Allocated(l)[AllocatedWay(l)])
  PROVE  Knows(l, Decode(l, Allocated(l)[AllocatedWay(l)], k))
<1> DEFINE a == AllocatedWay(l)
<1>1. Found(l)
  <2>1. ~Found(l) => Allocated(l)[a] = NewEntry(TagOf[l])
    BY AllocatedEffect
  <2> QED
    BY <2>1, LineType, NewEntryEffect
<1>2. Allocated(l) = table[SetOf[l]] /\ a \in WaysOf(l)
  BY <1>1, AllocatedEffect
<1> QED
  BY <1>2 DEF Knows, WaysOf

\* A new destination comes from add_entangled_table.
LEMMA NextInventsNothing ==
  ASSUME IInv, Next, NEW l \in Lines, Alone(l), NEW x, Knows(l, x)', ~Knows(l, x)
  PROVE  AddEntangledTable(l, x)
<1>1. ASSUME NEW m \in Lines, NEW d \in Lines \ {m}, AddEntangledTable(m, d)
      PROVE  AddEntangledTable(l, x)
  <2> DEFINE n == Entangled(m, d)
             e == Allocated(m)[AllocatedWay(m)]
  <2>1. Store(m, n) /\ GoodEntry(n) /\ n.tag = TagOf[m] /\ Inherits(m, n, e, d)
    BY <1>1, AddEntangledStores, EntangledEffect
  <2>2. m = l /\ \E k \in Live(n) : x = Decode(l, n, k)
    BY <2>1, StoreKnows
  <2>3. x = d \/ \E k \in Live(e) : x = Decode(l, e, k)
    BY <2>1, <2>2 DEF Inherits
  <2> QED
    BY <1>1, <2>2, <2>3, AllocatedIsKnown
<1>2. ASSUME NEW m \in Lines, NEW n \in 1 .. MaxBB, AddBbsizeTable(m, n)
      PROVE  FALSE
  <2> DEFINE u == Sized(m, n)
             e == Allocated(m)[AllocatedWay(m)]
  <2>1. Store(m, u) /\ GoodEntry(u) /\ u.tag = TagOf[m] /\ Live(u) = Live(e)
        /\ u.format = e.format /\ u.addr = e.addr
    BY <1>2, AddBbsizeStores, SizedEffect
  <2>2. m = l /\ \E k \in Live(u) : x = Decode(l, u, k)
    BY <2>1, StoreKnows
  <2>3. \E k \in Live(e) : x = Decode(l, e, k)
    BY <2>1, <2>2 DEF Decode
  <2> QED
    BY <2>2, <2>3, AllocatedIsKnown
<1>3. ASSUME NEW s \in Sets, NEW w \in Ways, NEW d \in Lines, NEW accessed \in BOOLEAN,
             UpdateConfidence(s, w, d, accessed)
      PROVE  FALSE
  <2>1. /\ Narrows(table'[s][w], table[s][w])
        /\ \A t \in Sets, y \in Ways : t # s \/ y # w => table'[t][y] = table[t][y]
    BY <1>3, UpdateConfidenceEffect
  <2>2. \A t \in Sets, y \in Ways : Narrows(table'[t][y], table[t][y])
    BY <2>1 DEF Narrows
  <2>3. PICK y \in Ways : /\ table'[SetOf[l]][y].tag = TagOf[l]
                          /\ \E k \in Live(table'[SetOf[l]][y]) :
                               x = Decode(l, table'[SetOf[l]][y], k)
    BY DEF Knows, Live, Decode
  <2>4. Narrows(table'[SetOf[l]][y], table[SetOf[l]][y])
    BY <2>2, LineType
  <2> QED
    BY <2>3, <2>4 DEF Knows, Narrows, Decode
<1> QED
  BY <1>1, <1>2, <1>3 DEF Next

\* l1i_add_entangled_table and l1i_reconfigure_format: whatever is evicted,
\* moved or recompressed, a line with an entry of its own gains a destination
\* only by being entangled with it.
THEOREM NothingIsInvented == Spec => NothingInvented
<1> DEFINE Act == \A l \in Lines :
             (\A m \in Lines \ {l} : ~SharesEntry(l, m)) =>
               \A d \in Destinations(l)' \ Destinations(l) : AddEntangledTable(l, d)
<1>1. (IInv => \A l \in Lines : \A x : x \in Destinations(l) <=> Knows(l, x) /\ x \notin {0, l})'
  BY DestinationsAreKnown, PTL
<1>2. IInv /\ IInv' /\ [Next]_vars => [Act]_vars
  <2> SUFFICES ASSUME IInv, IInv', Next, NEW l \in Lines, Alone(l),
                      NEW d \in Destinations(l)' \ Destinations(l)
               PROVE  AddEntangledTable(l, d)
    BY DEF Alone
  <2>1. Knows(l, d)' /\ d \notin {0, l}
    BY <1>1
  <2>2. ~Knows(l, d)
    BY <2>1, DestinationsAreKnown
  <2> QED
    BY <2>1, <2>2, NextInventsNothing
<1>3. Spec => [][Act]_vars
  BY <1>2, Invariance, PTL DEF Spec
<1> QED
  BY <1>3 DEF NothingInvented

=============================================================================
