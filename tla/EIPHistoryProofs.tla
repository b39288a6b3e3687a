-------------------------- MODULE EIPHistoryProofs --------------------------
(***************************************************************************)
(* Machine-checked proofs about EIPHistory, for a ring of any size, any    *)
(* widths of times and block sizes, and any program.                       *)
(***************************************************************************)
EXTENDS EIPHistory, Loops

----------------------------------------------------------------------------
(* The ring.                                                               *)

\* The remainder is unique, for any quotient.
LEMMA Modulo ==
  ASSUME NEW s \in Nat \ {0}, NEW q \in Int, NEW r \in 0 .. s - 1
  PROVE  (q * s + r) % s = r
  BY SMT

\* Division with remainder.
LEMMA ModFacts ==
  ASSUME NEW s \in Nat \ {0}, NEW x \in Int
  PROVE  /\ x % s \in 0 .. s - 1
         /\ x \div s \in Int
         /\ x = (x \div s) * s + (x % s)
  BY SMT

\* Within one turn the remainder is plain.
LEMMA ModNear ==
  ASSUME NEW s \in Nat \ {0}, NEW x \in Int
  PROVE  /\ 0 <= x /\ x < s => x % s = x
         /\ 0 - s <= x /\ x < 0 => x % s = x + s
         /\ s <= x /\ x < 2 * s => x % s = x - s
<1>1. ASSUME 0 <= x, x < s
      PROVE  x % s = x
  <2>1. 0 * s + x = x
    OBVIOUS
  <2> QED
    BY <1>1, <2>1, Modulo
<1>2. ASSUME 0 - s <= x, x < 0
      PROVE  x % s = x + s
  <2>1. (-1) * s + (x + s) = x /\ x + s \in 0 .. s - 1
    BY <1>2
  <2> QED
    BY <2>1, Modulo
<1>3. ASSUME s <= x, x < 2 * s
      PROVE  x % s = x - s
  <2>1. 1 * s + (x - s) = x /\ x - s \in 0 .. s - 1
    BY <1>3
  <2> QED
    BY <2>1, Modulo
<1> QED
  BY <1>1, <1>2, <1>3

\* Remainders may be taken early.
LEMMA ModSum ==
  ASSUME NEW s \in Nat \ {0}, NEW x \in Int, NEW y \in Int
  PROVE  (x + y) % s = (x + (y % s)) % s
<1> DEFINE q == y \div s
           r == y % s
           p == (x + r) \div s
           m == (x + r) % s
<1>1. r \in 0 .. s - 1 /\ q \in Int /\ y = q * s + r
  BY ModFacts
<1> HIDE DEF q, r
<1>2. x + r \in Int
  BY <1>1
<1>3. m \in 0 .. s - 1 /\ p \in Int /\ x + r = p * s + m
  BY <1>2, ModFacts
<1> HIDE DEF p, m
<1>4. x + y = (p + q) * s + m
  BY <1>1, <1>3
<1>5. (x + y) % s = m
  <2>1. p + q \in Int
    BY <1>1, <1>3
  <2>2. ((p + q) * s + m) % s = m
    BY <1>3, <2>1, Modulo
  <2> QED
    BY <1>4, <2>2
<1> QED
  BY <1>5 DEF m, r

\* The ring has at least two slots.
LEMMA SizeType == HistSize \in Nat \ {0, 1} /\ Slots = 0 .. HistSize - 1 /\ NoPos = HistSize
  BY HistoryAssumption DEF Slots, NoPos

\* The slot k steps back, without the remainder.
LEMMA BackIs ==
  ASSUME NEW i \in Slots, NEW k \in 0 .. HistSize
  PROVE  /\ Back(i, k) = IF k <= i THEN i - k ELSE i - k + HistSize
         /\ Back(i, k) \in Slots
<1>1. /\ HistSize \in Nat \ {0} /\ i \in 0 .. HistSize - 1 /\ i - k \in Int
      /\ 0 - HistSize <= i - k /\ i - k < HistSize
  BY SizeType
<1>2. CASE k <= i
  <2>1. 0 <= i - k
    BY <1>1, <1>2
  <2>2. (i - k) % HistSize = i - k
    BY <1>1, <2>1, ModNear
  <2> QED
    BY <1>1, <1>2, <2>1, <2>2 DEF Back, Slots
<1>3. CASE ~(k <= i)
  <2>1. i - k < 0
    BY <1>1, <1>3
  <2>2. (i - k) % HistSize = i - k + HistSize
    BY <1>1, <2>1, ModNear
  <2> QED
    BY <1>1, <1>3, <2>1, <2>2 DEF Back, Slots
<1> QED
  BY <1>2, <1>3

\* Going back in two steps.
LEMMA BackBack ==
  ASSUME NEW i \in Slots, NEW k \in 0 .. HistSize, NEW m \in 0 .. HistSize, k + m <= HistSize
  PROVE  Back(Back(i, k), m) = Back(i, k + m)
<1>1. k + m \in 0 .. HistSize
  BY SizeType
<1>2. /\ Back(i, k) = IF k <= i THEN i - k ELSE i - k + HistSize
      /\ Back(i, k) \in Slots
  BY BackIs
<1>3. Back(i, k + m) = IF k + m <= i THEN i - (k + m) ELSE i - (k + m) + HistSize
  BY <1>1, BackIs
<1> DEFINE j == Back(i, k)
<1> HIDE DEF j
<1>4. Back(j, m) = IF m <= j THEN j - m ELSE j - m + HistSize
  BY <1>2, BackIs DEF j
<1>5. Back(j, m) = Back(i, k + m)
  BY <1>1, <1>2, <1>3, <1>4, SizeType DEF j
<1> QED
  BY <1>5 DEF j

\* How far back from slot b a slot is, b itself being a whole turn back.
Steps(b, i) == IF i = b THEN HistSize ELSE (b - i) % HistSize

\* Steps back from one slot to another.
LEMMA SlotDistance ==
  ASSUME NEW a \in Slots, NEW b \in Slots
  PROVE  (a - b) % HistSize = IF b <= a THEN a - b ELSE a - b + HistSize
<1>1. b \in 0 .. HistSize
  BY SizeType
<1> QED
  BY <1>1, BackIs DEF Back

\* Every slot is a number of steps back, and only one.
LEMMA StepsBack ==
  ASSUME NEW b \in Slots, NEW i \in Slots
  PROVE  /\ Steps(b, i) = IF i < b THEN b - i ELSE b - i + HistSize
         /\ Steps(b, i) \in 1 .. HistSize
         /\ Back(b, Steps(b, i)) = i
         /\ \A k \in 1 .. HistSize : Back(b, k) = i => k = Steps(b, i)
<1>1. /\ HistSize \in Nat \ {0} /\ i \in 0 .. HistSize - 1 /\ b \in 0 .. HistSize - 1
  BY SizeType
<1>2. Steps(b, i) = IF i < b THEN b - i ELSE b - i + HistSize
  <2>1. (b - i) % HistSize = IF i <= b THEN b - i ELSE b - i + HistSize
    BY SlotDistance
  <2> QED
    BY <1>1, <2>1 DEF Steps
<1>3. Steps(b, i) \in 1 .. HistSize
  BY <1>1, <1>2
<1>4. \A k \in 1 .. HistSize : Back(b, k) = IF k <= b THEN b - k ELSE b - k + HistSize
  BY BackIs
<1>5. Back(b, Steps(b, i)) = i
  BY <1>1, <1>2, <1>3, <1>4
<1>6. \A k \in 1 .. HistSize : Back(b, k) = i => k = Steps(b, i)
  BY <1>1, <1>2, <1>4
<1> QED
  BY <1>2, <1>3, <1>5, <1>6

\* The slots behind slot i, down to the oldest, are so many.
LEMMA OlderIs ==
  ASSUME NEW i \in Slots, head \in Slots
  PROVE  /\ Older(i) = HistSize - Steps(head, i)
         /\ Older(i) \in 0 .. HistSize - 1
<1>1. /\ HistSize \in Nat \ {0} /\ i \in 0 .. HistSize - 1 /\ head \in 0 .. HistSize - 1
  BY SizeType
<1>2. Older(i) = IF head <= i THEN i - head ELSE i - head + HistSize
  BY SlotDistance DEF Older
<1>3. Steps(head, i) = IF i < head THEN head - i ELSE head - i + HistSize
  BY StepsBack
<1> QED
  BY <1>1, <1>2, <1>3

\* The running time behind a slot.
LEMMA ElapsedIs ==
  ASSUME NEW h, \A j \in Slots : h[j].diff \in Nat, NEW i \in Slots
  PROVE  /\ Elapsed(h, i, 0) = 0
         /\ \A k \in 0 .. HistSize : Elapsed(h, i, k) \in Nat
         /\ \A k \in 0 .. HistSize - 1 :
              Elapsed(h, i, k + 1) = Elapsed(h, i, k) + h[Back(i, k)].diff
<1> DEFINE F == [n \in 1 .. HistSize |-> [x \in Nat |-> x + h[Back(i, n - 1)].diff]]
           IsSum(s) == s = [n \in 0 .. HistSize |->
                             IF n = 0 THEN 0 ELSE s[n - 1] + h[Back(i, n - 1)].diff]
           sum == CHOOSE s : IsSum(s)
<1>1. HistSize \in Nat
  BY SizeType
<1>2. F \in [1 .. HistSize -> [Nat -> Nat]]
  <2>1. ASSUME NEW n \in 1 .. HistSize
        PROVE  h[Back(i, n - 1)].diff \in Nat
    <3>1. n - 1 \in 0 .. HistSize
      BY <1>1
    <3> QED
      BY <3>1, BackIs
  <2> QED
    BY <2>1
<1>3. PICK s \in [0 .. HistSize -> Nat] :
        s[0] = 0 /\ \A m \in 1 .. HistSize : s[m] = F[m][s[m - 1]]
  <2>1. 0 \in Nat
    OBVIOUS
  <2> HIDE DEF F
  <2>2. HasRun(HistSize, Nat, F, 0)
    BY <1>1, <1>2, <2>1, LoopExists
  <2> QED
    BY <2>2 DEF HasRun
<1>4. IsSum(s)
  <2>1. ASSUME NEW n \in 0 .. HistSize
        PROVE  s[n] = IF n = 0 THEN 0 ELSE s[n - 1] + h[Back(i, n - 1)].diff
    <3>1. CASE n = 0
      BY <1>3, <3>1
    <3>2. CASE n # 0
      <4>1. n \in 1 .. HistSize /\ s[n - 1] \in Nat
        BY <1>1, <3>2
      <4> QED
        BY <1>3, <3>2, <4>1
    <3> QED
      BY <3>1, <3>2
  <2>2. s = [n \in 0 .. HistSize |-> s[n]]
    OBVIOUS
  <2> HIDE DEF F
  <2> QED
    BY <2>1, <2>2
<1>5. IsSum(sum)
  BY <1>4
<1>6. \A k : Elapsed(h, i, k) = sum[k]
  BY DEF Elapsed
<1> HIDE DEF sum
<1>7. ASSUME NEW n \in 0 .. HistSize
      PROVE  sum[n] = IF n = 0 THEN 0 ELSE sum[n - 1] + h[Back(i, n - 1)].diff
  BY <1>5
<1> HIDE DEF IsSum
<1>8. sum[0] = 0
  BY <1>1, <1>7
<1>9. ASSUME NEW k \in 0 .. HistSize - 1
      PROVE  sum[k + 1] = sum[k] + h[Back(i, k)].diff
  <2>1. k + 1 \in 0 .. HistSize /\ k + 1 # 0 /\ (k + 1) - 1 = k
    BY <1>1
  <2> QED
    BY <1>7, <2>1
<1>10. \A k \in 0 .. HistSize : sum[k] \in Nat
  <2> DEFINE T == {k \in 0 .. HistSize : sum[k] \in Nat}
  <2>1. 0 \in T
    BY <1>1, <1>8
  <2>2. ASSUME NEW m \in 0 .. HistSize - 1, m \in T
        PROVE  m + 1 \in T
    <3>1. m + 1 \in 0 .. HistSize /\ m \in 0 .. HistSize
      BY <1>1
    <3>2. h[Back(i, m)].diff \in Nat
      BY <3>1, BackIs
    <3> QED
      BY <1>9, <2>2, <3>1, <3>2
  <2>3. T \in SUBSET (0 .. HistSize)
    OBVIOUS
  <2> HIDE DEF T
  <2>4. T = 0 .. HistSize
    BY <1>1, <2>1, <2>2, <2>3, UpTo
  <2> QED
    BY <2>4 DEF T
<1> QED
  BY <1>6, <1>8, <1>9, <1>10

\* Time adds up along the ring.
LEMMA ElapsedSplit ==
  ASSUME NEW h, \A j \in Slots : h[j].diff \in Nat, NEW i \in Slots,
         NEW a \in 0 .. HistSize, NEW b \in 0 .. HistSize, a + b <= HistSize
  PROVE  Elapsed(h, i, a + b) = Elapsed(h, i, a) + Elapsed(h, Back(i, a), b)
<1> DEFINE n == HistSize - a
           T == {k \in 0 .. n : Elapsed(h, i, a + k) = Elapsed(h, i, a) + Elapsed(h, Back(i, a), k)}
<1>0. HistSize \in Nat /\ n \in Nat
  BY SizeType
<1>1. Back(i, a) \in Slots
  BY BackIs
<1>2. /\ Elapsed(h, Back(i, a), 0) = 0
      /\ \A k \in 0 .. HistSize : Elapsed(h, Back(i, a), k) \in Nat
      /\ \A k \in 0 .. HistSize - 1 : Elapsed(h, Back(i, a), k + 1) =
           Elapsed(h, Back(i, a), k) + h[Back(Back(i, a), k)].diff
  BY <1>1, ElapsedIs
<1>3. /\ \A k \in 0 .. HistSize : Elapsed(h, i, k) \in Nat
      /\ \A k \in 0 .. HistSize - 1 :
           Elapsed(h, i, k + 1) = Elapsed(h, i, k) + h[Back(i, k)].diff
  BY ElapsedIs
<1>4. 0 \in T
  <2>1. a + 0 = a /\ 0 \in 0 .. n
    BY <1>0
  <2> QED
    BY <1>2, <1>3, <2>1
<1>5. ASSUME NEW k \in 0 .. n - 1, k \in T
      PROVE  k + 1 \in T
  <2>1. /\ k \in 0 .. HistSize - 1 /\ a + k \in 0 .. HistSize - 1 /\ k + 1 \in 0 .. n
        /\ (a + k) + 1 = a + (k + 1) /\ k \in 0 .. HistSize /\ a + k <= HistSize
        /\ a + k \in 0 .. HistSize
    BY <1>0
  <2>2. Back(Back(i, a), k) = Back(i, a + k)
    BY <2>1, BackBack
  <2>3. Elapsed(h, i, (a + k) + 1) = Elapsed(h, i, a + k) + h[Back(i, a + k)].diff
    BY <1>3, <2>1
  <2>4. Elapsed(h, Back(i, a), k + 1) = Elapsed(h, Back(i, a), k) + h[Back(i, a + k)].diff
    BY <1>2, <2>1, <2>2
  <2>5. Elapsed(h, i, a + k) = Elapsed(h, i, a) + Elapsed(h, Back(i, a), k)
    BY <1>5
  <2>6. h[Back(i, a + k)].diff \in Nat /\ Elapsed(h, i, a) \in Nat /\ Elapsed(h, Back(i, a), k) \in Nat
    BY <1>2, <1>3, <2>1, BackIs
  <2>7. Elapsed(h, i, a + (k + 1)) = Elapsed(h, i, a) + Elapsed(h, Back(i, a), k + 1)
    BY <2>1, <2>3, <2>4, <2>5, <2>6
  <2> QED
    BY <2>1, <2>7
<1>6. T \in SUBSET (0 .. n)
  OBVIOUS
<1>7. b \in 0 .. n
  BY <1>0
<1> HIDE DEF T, n
<1>8. T = 0 .. n
  BY <1>0, <1>4, <1>5, <1>6, UpTo
<1> QED
  BY <1>7, <1>8 DEF T

\* It depends on the differences met, wherever they are.
LEMMA ElapsedSame ==
  ASSUME NEW h, \A j \in Slots : h[j].diff \in Nat, NEW i \in Slots,
         NEW g, \A j \in Slots : g[j].diff \in Nat, NEW e \in Slots,
         NEW n \in 0 .. HistSize,
         \A m \in 0 .. n - 1 : h[Back(i, m)].diff = g[Back(e, m)].diff
  PROVE  Elapsed(h, i, n) = Elapsed(g, e, n)
<1> DEFINE T == {k \in 0 .. n : Elapsed(h, i, k) = Elapsed(g, e, k)}
<1>0. HistSize \in Nat /\ n \in Nat
  BY SizeType
<1>1. /\ Elapsed(h, i, 0) = 0
      /\ \A k \in 0 .. HistSize - 1 :
           Elapsed(h, i, k + 1) = Elapsed(h, i, k) + h[Back(i, k)].diff
  BY ElapsedIs
<1>2. /\ Elapsed(g, e, 0) = 0
      /\ \A k \in 0 .. HistSize - 1 :
           Elapsed(g, e, k + 1) = Elapsed(g, e, k) + g[Back(e, k)].diff
  BY ElapsedIs
<1>3. 0 \in T
  BY <1>0, <1>1, <1>2
<1>4. ASSUME NEW k \in 0 .. n - 1, k \in T
      PROVE  k + 1 \in T
  <2>1. k \in 0 .. HistSize - 1 /\ k + 1 \in 0 .. n
    BY <1>0
  <2> QED
    BY <1>1, <1>2, <1>4, <2>1
<1>5. T \in SUBSET (0 .. n) /\ n \in 0 .. n
  BY <1>0
<1> HIDE DEF T
<1>6. T = 0 .. n
  BY <1>0, <1>3, <1>4, <1>5, UpTo
<1> QED
  BY <1>5, <1>6 DEF T

\* Empty entries that all stand for the same time.
LEMMA ElapsedConstant ==
  ASSUME NEW h, \A j \in Slots : h[j].diff \in Nat, NEW i \in Slots,
         NEW n \in 0 .. HistSize, NEW c \in Nat,
         \A m \in 0 .. n - 1 : h[Back(i, m)].diff = c
  PROVE  Elapsed(h, i, n) = n * c
<1> DEFINE T == {k \in 0 .. n : Elapsed(h, i, k) = k * c}
<1>0. HistSize \in Nat /\ n \in Nat
  BY SizeType
<1>1. /\ Elapsed(h, i, 0) = 0
      /\ \A k \in 0 .. HistSize - 1 :
           Elapsed(h, i, k + 1) = Elapsed(h, i, k) + h[Back(i, k)].diff
  BY ElapsedIs
<1>2. 0 \in T
  BY <1>0, <1>1
<1>3. ASSUME NEW k \in 0 .. n - 1, k \in T
      PROVE  k + 1 \in T
  <2>1. k \in 0 .. HistSize - 1 /\ k + 1 \in 0 .. n
    BY <1>0
  <2>2. Elapsed(h, i, k + 1) = k * c + c
    BY <1>1, <1>3, <2>1
  <2>3. k * c + c = (k + 1) * c
    BY <1>0
  <2> QED
    BY <2>1, <2>2, <2>3
<1>4. T \in SUBSET (0 .. n) /\ n \in 0 .. n
  BY <1>0
<1> HIDE DEF T
<1>5. T = 0 .. n
  BY <1>0, <1>2, <1>3, <1>4, UpTo
<1> QED
  BY <1>4, <1>5 DEF T

----------------------------------------------------------------------------
(* The inductive invariant.                                                *)

NoBlock == lastBB = 0 /\ count = 0 /\ merge = 0

\* The block being fetched, or the one it was merged with, has a slot.
BlockKnown == NoBlock \/ \E i \in Slots : hist[i].tag = lastBB - merge

\* The differences of the slots newer than a fetched line add up to the time
\* from its fetch to the last insertion, or to less if it was shifted.
Adds(h, hd, time, w, sh) ==
  \A k \in 1 .. HistSize : h[Back(hd, k)].tag # 0 =>
    /\ Elapsed(h, Back(hd, 1), k - 1) <= time - w[Back(hd, k)]
    /\ Back(hd, k) \notin sh => Elapsed(h, Back(hd, 1), k - 1) = time - w[Back(hd, k)]

TimesAdd == Adds(hist, head, headTime, when, shifted)

IssuedBefore == \A v \in Lines : line[v].issued <= now

\* A distance that no block grows across.
Gap == CHOOSE d \in BbSizeOverflow .. Min(Lines) : \A u, v \in Lines : d <= v /\ v - u # d

\* The block being fetched goes from a line to a line and is short.
BlockLegal ==
  NoBlock \/ (lastBB - merge \in Lines /\ lastBB + count \in Lines /\ merge + count < Gap)

IInv == TypeOK /\ BlockKnown /\ TimesAdd /\ IssuedBefore /\ BlockLegal /\ LearntIsLegal

\* The distance that TextAssumption promises.
LEMMA GapIs ==
  Gap \in Int /\ BbSizeOverflow <= Gap /\ \A u, v \in Lines : Gap <= v /\ v - u # Gap
<1>1. /\ Gap \in BbSizeOverflow .. Min(Lines)
      /\ \A u, v \in Lines : Gap <= v /\ v - u # Gap
  BY TextAssumption, Zenon DEF Gap
<1> QED
  BY <1>1

\* What TypeOK says of the ring and the current block.
LEMMA TypeFacts ==
  ASSUME TypeOK
  PROVE  /\ head \in Slots /\ headTime \in Nat /\ now \in Nat /\ headTime <= now
         /\ lastBB \in Lines \cup {0} /\ lastBB \in Nat /\ count \in Nat /\ merge \in Nat
         /\ hist \in [Slots -> HistEntry] /\ when \in [Slots -> Nat]
         /\ \A m \in Slots : /\ hist[m] \in HistEntry /\ hist[m].diff \in Nat
                            /\ hist[m].tag \in Nat /\ when[m] \in Nat
<1>1. Lines \subseteq Nat /\ MaxTime \in Nat
  BY HistoryAssumption
<1>2. now \in Nat
  BY <1>1 DEF TypeOK
<1>3. headTime \in Nat /\ headTime <= now
  BY <1>2 DEF TypeOK
<1>4. ASSUME NEW m \in Slots
      PROVE  hist[m] \in HistEntry /\ hist[m].diff \in Nat /\ hist[m].tag \in Nat
  <2>1. hist[m] \in HistEntry
    BY DEF TypeOK
  <2>2. hist[m].diff \in Nat /\ hist[m].tag \in Lines \cup {0}
    BY <2>1 DEF HistEntry
  <2>3. \A x \in Lines \cup {0} : x \in Nat
    BY <1>1
  <2> QED
    BY <2>1, <2>2, <2>3
<1> QED
  BY <1>1, <1>2, <1>3, <1>4 DEF TypeOK

\* What the differences from the newest slot say of those between two others.
LEMMA TimesAddUp ==
  ASSUME TypeOK, TimesAdd
  PROVE  TimeKept
<1> SUFFICES ASSUME NEW i \in Slots \ shifted, hist[i].tag # 0, NEW k \in 1 .. Older(i),
                    hist[Back(i, k)].tag # 0
             PROVE  /\ Elapsed(hist, i, k) <= when[i] - when[Back(i, k)]
                    /\ Back(i, k) \notin shifted =>
                         Elapsed(hist, i, k) = when[i] - when[Back(i, k)]
  BY DEF TimeKept
<1> DEFINE a == Steps(head, i)
           p == Back(head, 1)
           j == Back(i, k)
<1>1. /\ head \in Slots /\ HistSize \in Nat \ {0, 1} /\ headTime \in Nat
      /\ \A m \in Slots : hist[m].diff \in Nat /\ when[m] \in Nat
  BY SizeType, TypeFacts
<1>2. a \in 1 .. HistSize /\ Back(head, a) = i
  BY <1>1, StepsBack
<1>3. Older(i) = HistSize - a /\ Older(i) \in 0 .. HistSize - 1
  BY <1>1, OlderIs
<1> HIDE DEF a
<1>4. /\ k \in 0 .. HistSize /\ a + k \in 1 .. HistSize /\ a - 1 \in 0 .. HistSize
      /\ 1 + (a - 1) = a /\ a \in 0 .. HistSize /\ 1 \in 0 .. HistSize
      /\ (a - 1) + k \in 0 .. HistSize /\ (a + k) - 1 = (a - 1) + k
  BY <1>1, <1>2, <1>3
<1>5. j = Back(head, a + k)
  BY <1>1, <1>2, <1>4, BackBack
<1>6. Back(p, a - 1) = i
  BY <1>1, <1>2, <1>4, BackBack
<1>7. p \in Slots /\ j \in Slots
  BY <1>1, <1>4, BackIs
<1> HIDE DEF j, p
<1>8. Elapsed(hist, p, (a - 1) + k) = Elapsed(hist, p, a - 1) + Elapsed(hist, i, k)
  BY <1>1, <1>4, <1>6, <1>7, ElapsedSplit
<1>9. /\ Elapsed(hist, p, a - 1) \in Nat /\ Elapsed(hist, i, k) \in Nat
  BY <1>1, <1>4, <1>7, ElapsedIs
<1>10. Elapsed(hist, p, a - 1) = headTime - when[i]
  BY <1>2 DEF TimesAdd, Adds, p
<1>11. hist[Back(head, a + k)].tag # 0
  BY <1>5 DEF j
<1>12. /\ Elapsed(hist, p, (a + k) - 1) <= headTime - when[j]
       /\ j \notin shifted => Elapsed(hist, p, (a + k) - 1) = headTime - when[j]
  BY <1>4, <1>5, <1>11 DEF TimesAdd, Adds, p
<1>13. /\ Elapsed(hist, i, k) <= when[i] - when[j]
       /\ j \notin shifted => Elapsed(hist, i, k) = when[i] - when[j]
  BY <1>1, <1>4, <1>7, <1>8, <1>9, <1>10, <1>12
<1> QED
  BY <1>13 DEF j

\* The tables differ in what time and lines are not told by.
LEMMA AddsFrame ==
  ASSUME NEW h, \A j \in Slots : h[j].diff \in Nat,
         NEW g, \A j \in Slots : g[j].diff = h[j].diff /\ g[j].tag = h[j].tag,
         NEW hd \in Slots, NEW time, NEW w, NEW sh, Adds(h, hd, time, w, sh)
  PROVE  Adds(g, hd, time, w, sh)
<1> SUFFICES ASSUME NEW k \in 1 .. HistSize, g[Back(hd, k)].tag # 0
             PROVE  /\ Elapsed(g, Back(hd, 1), k - 1) <= time - w[Back(hd, k)]
                    /\ Back(hd, k) \notin sh =>
                         Elapsed(g, Back(hd, 1), k - 1) = time - w[Back(hd, k)]
  BY DEF Adds
<1>1. k \in 0 .. HistSize /\ k - 1 \in 0 .. HistSize /\ 1 \in 0 .. HistSize
  BY SizeType
<1>2. Back(hd, k) \in Slots /\ Back(hd, 1) \in Slots
  BY <1>1, BackIs
<1>3. \A j \in Slots : g[j].diff \in Nat
  OBVIOUS
<1>4. \A m \in 0 .. (k - 1) - 1 : h[Back(Back(hd, 1), m)].diff = g[Back(Back(hd, 1), m)].diff
  <2> SUFFICES ASSUME NEW m \in 0 .. (k - 1) - 1
               PROVE  Back(Back(hd, 1), m) \in Slots
    OBVIOUS
  <2>1. m \in 0 .. HistSize
    BY <1>1, SizeType
  <2> QED
    BY <1>2, <2>1, BackIs
<1>5. Elapsed(h, Back(hd, 1), k - 1) = Elapsed(g, Back(hd, 1), k - 1)
  BY <1>1, <1>2, <1>3, <1>4, ElapsedSame
<1>6. h[Back(hd, k)].tag # 0
  BY <1>2
<1> QED
  BY <1>5, <1>6 DEF Adds

----------------------------------------------------------------------------
(* An observed access.                                                     *)

\* The empty entries and the new one stand for the time since the last
\* insertion, exactly.
LEMMA PaddingIs ==
  ASSUME TypeOK
  PROVE  /\ Padding \in Nat
         /\ TimeDiffMask \in Nat
         /\ now - (headTime + Padding * TimeDiffMask) \in Nat
<1> DEFINE mask == TimeDiffMask
           S == {n \in 0 .. now : now - (headTime + n * mask) < TimeDiffOverflow}
<1>1. headTime \in Nat /\ now \in Nat /\ headTime <= now
  BY TypeFacts
<1>2. mask \in Nat \ {0} /\ TimeDiffOverflow = mask + 1
  BY HistoryAssumption DEF TimeDiffMask
<1>3. Padding = Min(S)
  BY DEF Padding
<1> HIDE DEF mask
<1>4. now \in S
  <2>1. now * mask >= now
    BY <1>1, <1>2
  <2> QED
    BY <1>1, <1>2, <2>1
<1>5. S \in SUBSET Nat /\ S # {}
  BY <1>1, <1>4
<1>6. Padding \in S /\ \A j \in S : Padding <= j
  BY <1>3, <1>5, MinIsMember
<1> DEFINE p == Padding
<1> HIDE DEF p
<1>7. p \in 0 .. now /\ p \in Nat
  BY <1>1, <1>6 DEF p
<1>8. now - (headTime + p * mask) \in Nat
  <2>1. CASE p = 0
    BY <1>1, <1>2, <2>1
  <2>2. CASE p # 0
    <3>1. p - 1 \in 0 .. now /\ ~(p <= p - 1)
      BY <1>1, <1>7, <2>2
    <3>2. p - 1 \notin S
      BY <1>6, <3>1 DEF p
    <3>3. ~(now - (headTime + (p - 1) * mask) < TimeDiffOverflow)
      BY <3>1, <3>2
    <3>4. (p - 1) * mask = p * mask - mask /\ p * mask \in Nat
      BY <1>2, <1>7
    <3> QED
      BY <1>1, <1>2, <3>3, <3>4
  <2> QED
    BY <2>1, <2>2
<1> QED
  BY <1>2, <1>7, <1>8 DEF p, mask

\* Where an insertion writes: the new entry, the empty ones before it, and
\* nothing else.
LEMMA WrittenSlots ==
  ASSUME head \in Slots, Padding \in Nat
  PROVE  LET n  == (head + Padding) % HistSize
             hd == (head + Padding + 1) % HistSize
         IN  /\ n \in Slots /\ hd \in Slots /\ Back(hd, 1) = n
             /\ \A i \in Slots : (i - head) % HistSize = Padding % HistSize <=> i = n
             /\ \A i \in Slots : i # n => \/ (i - head) % HistSize < Padding
                                          \/ Padding < (i - head) % HistSize
             /\ Padding < HistSize =>
                  hd = IF head + 1 + Padding < HistSize THEN head + 1 + Padding
                       ELSE head + 1 + Padding - HistSize
             /\ ~(Padding < HistSize) => \A i \in Slots : (i - head) % HistSize < Padding
<1> DEFINE p == Padding
           r == p % HistSize
           n == (head + p) % HistSize
           hd == (head + p + 1) % HistSize
<1>0. HistSize \in Nat \ {0, 1} /\ head \in 0 .. HistSize - 1 /\ p \in Int
  BY SizeType
<1>1. r \in 0 .. HistSize - 1 /\ (p < HistSize => r = p)
  <2>1. HistSize \in Nat \ {0} /\ 0 <= p
    BY <1>0
  <2>2. r \in 0 .. HistSize - 1
    BY <1>0, <2>1, ModFacts
  <2>3. p < HistSize => r = p
    BY <1>0, <2>1, ModNear
  <2> QED
    BY <2>2, <2>3
<1>2. n = (head + r) % HistSize
  <2>1. HistSize \in Nat \ {0} /\ head \in Int
    BY <1>0
  <2> QED
    BY <1>0, <2>1, ModSum
<1>3. hd = ((head + 1) + r) % HistSize
  <2>1. head + p + 1 = (head + 1) + p /\ head + 1 \in Int
    BY <1>0
  <2>2. ((head + 1) + p) % HistSize = ((head + 1) + r) % HistSize
    BY <1>0, <2>1, ModSum
  <2> QED
    BY <2>1, <2>2
<1>4. \A i \in Slots : (i - head) % HistSize = IF head <= i THEN i - head ELSE i - head + HistSize
  BY SlotDistance
<1> HIDE DEF r, p
<1>5. n = IF head + r < HistSize THEN head + r ELSE head + r - HistSize
  <2> DEFINE x == head + r
  <2>1. x \in Int /\ 0 <= x /\ x < 2 * HistSize /\ HistSize \in Nat \ {0}
    BY <1>0, <1>1
  <2> HIDE DEF x
  <2>2. x < HistSize => x % HistSize = x
    BY <2>1, ModNear
  <2>3. HistSize <= x => x % HistSize = x - HistSize
    BY <2>1, ModNear
  <2>4. x < HistSize \/ HistSize <= x
    BY <2>1
  <2> QED
    BY <1>0, <1>1, <1>2, <2>1, <2>2, <2>3, <2>4 DEF x
<1>6. hd = IF head + 1 + r < HistSize THEN head + 1 + r ELSE head + 1 + r - HistSize
  <2> DEFINE x == (head + 1) + r
  <2>1. x \in Int /\ 0 <= x /\ x < 2 * HistSize /\ HistSize \in Nat \ {0}
    BY <1>0, <1>1
  <2> HIDE DEF x
  <2>2. x < HistSize => x % HistSize = x
    BY <2>1, ModNear
  <2>3. HistSize <= x => x % HistSize = x - HistSize
    BY <2>1, ModNear
  <2>4. x < HistSize \/ HistSize <= x
    BY <2>1
  <2> QED
    BY <1>0, <1>1, <1>3, <2>1, <2>2, <2>3, <2>4 DEF x
<1> HIDE DEF n, hd
<1>7. n \in Slots /\ hd \in Slots
  BY <1>0, <1>1, <1>5, <1>6, SizeType
<1>8. Back(hd, 1) = n
  <2>1. 1 \in 0 .. HistSize
    BY <1>0
  <2>2. Back(hd, 1) = IF 1 <= hd THEN hd - 1 ELSE hd - 1 + HistSize
    BY <1>7, <2>1, BackIs
  <2> QED
    BY <1>0, <1>1, <1>5, <1>6, <2>2
<1>9. \A i \in Slots : (i - head) % HistSize = r <=> i = n
  <2> SUFFICES ASSUME NEW i \in Slots
               PROVE  (i - head) % HistSize = r <=> i = n
    OBVIOUS
  <2>1. i \in 0 .. HistSize - 1
    BY SizeType
  <2>2. (i - head) % HistSize = IF head <= i THEN i - head ELSE i - head + HistSize
    BY <1>4
  <2> QED
    BY <1>0, <1>1, <1>5, <2>1, <2>2
<1>10. \A i \in Slots : (i - head) % HistSize \in 0 .. HistSize - 1
  BY <1>0, <1>4, SizeType
<1>11. \A i \in Slots : i # n => (i - head) % HistSize < p \/ p < (i - head) % HistSize
  <2> SUFFICES ASSUME NEW i \in Slots, i # n
               PROVE  (i - head) % HistSize # p
    BY <1>0, <1>10
  <2> QED
    BY <1>0, <1>1, <1>9, <1>10
<1>12. ~(p < HistSize) => \A i \in Slots : (i - head) % HistSize < p
  BY <1>0, <1>10
<1>13. p < HistSize =>
         hd = IF head + 1 + p < HistSize THEN head + 1 + p ELSE head + 1 + p - HistSize
  BY <1>1, <1>6
<1> QED
  BY <1>7, <1>8, <1>9, <1>11, <1>12, <1>13 DEF n, hd, r, p

\* What an insertion leaves in each slot, and in its ghost.
LEMMA InsertedSlot ==
  ASSUME TypeOK, NEW h \in [Slots -> HistEntry], NEW v \in Lines, NEW id \in Nat,
         NEW info \in (0 .. NumFormats) \X (0 .. NumFormats), NEW i \in Slots
  PROVE  LET g == AddHistTable(h, v, id, info)
             n == (head + Padding) % HistSize
             o == (i - head) % HistSize
         IN  /\ i = n => /\ g[i].tag = v
                         /\ g[i].diff = now - (headTime + Padding * TimeDiffMask)
                         /\ g[i].src = 0 /\ g[i].bb = 0
                         /\ WrittenWhen[i] = now
             /\ i # n => o < Padding \/ Padding < o
             /\ i # n /\ o < Padding => g[i] = Empty(TimeDiffMask) /\ WrittenWhen[i] = 0
             /\ Padding < o => i # n /\ g[i] = h[i] /\ WrittenWhen[i] = when[i] /\ i \notin Written
             /\ g[i] \in HistEntry
<1> DEFINE g == AddHistTable(h, v, id, info)
           n == (head + Padding) % HistSize
           o == (i - head) % HistSize
           p == Padding
           new == [Empty(now - (headTime + p * TimeDiffMask)) EXCEPT
                     !.tag = v, !.id = id, !.format = info[1], !.dsts = info[2]]
<1>1. head \in Slots /\ p \in Nat /\ TimeDiffMask \in Nat /\ now - (headTime + p * TimeDiffMask) \in Nat
  BY TypeFacts, PaddingIs
<1>2. /\ o = p % HistSize <=> i = n
      /\ i # n => o < p \/ p < o
      /\ ~(p < HistSize) => o < p
  BY <1>1, WrittenSlots
<1>3. o \in 0 .. HistSize - 1
  BY <1>1, SlotDistance, SizeType
<1>4. p < o => i # n
  <2>1. SUFFICES ASSUME p < o, i = n PROVE FALSE
    OBVIOUS
  <2>2. p < HistSize /\ 0 <= p /\ HistSize \in Nat \ {0} /\ p \in Int
    BY <1>1, <1>3, <2>1, SizeType
  <2>3. p % HistSize = p
    BY <2>2, ModNear
  <2> QED
    BY <1>1, <1>2, <1>3, <2>1, <2>3
<1>5. g[i] = CASE o = p % HistSize -> new
               [] o # p % HistSize /\ o < p -> Empty(TimeDiffMask)
               [] OTHER -> h[i]
  BY DEF AddHistTable
<1>6. WrittenWhen[i] = CASE o = p % HistSize -> now
                         [] o # p % HistSize /\ o < p -> 0
                         [] OTHER -> when[i]
  BY DEF WrittenWhen
<1>7. i \in Written => o <= p
  BY DEF Written
<1>8. /\ new.tag = v /\ new.diff = now - (headTime + p * TimeDiffMask)
      /\ new.src = 0 /\ new.bb = 0
      /\ new \in HistEntry
  <2> DEFINE d == now - (headTime + p * TimeDiffMask)
  <2>1. d \in Nat
    BY <1>1
  <2> HIDE DEF d
  <2>2. new = [tag |-> v, diff |-> d, bb |-> 0, id |-> id, src |-> 0,
               format |-> info[1], dsts |-> info[2]]
    <3> DEFINE e == [tag |-> 0, diff |-> d, bb |-> 0, id |-> 0, src |-> 0,
                     format |-> 0, dsts |-> 0]
               f == info[1]
               s == info[2]
    <3>1. new = [e EXCEPT !.tag = v, !.id = id, !.format = f, !.dsts = s]
      BY DEF Empty, d
    <3> HIDE DEF f, s, new
    <3>2. new = [tag |-> v, diff |-> d, bb |-> 0, id |-> id, src |-> 0, format |-> f, dsts |-> s]
      BY <3>1
    <3> QED
      BY <3>2 DEF f, s
  <2>3. info[1] \in 0 .. NumFormats /\ info[2] \in 0 .. NumFormats /\ 0 \in 0 .. BbSizeOverflow - 1
    BY HistoryAssumption
  <2> HIDE DEF new
  <2>4. new.tag = v /\ new.diff = d /\ new.src = 0 /\ new.bb = 0
    BY <2>2
  <2>5. new \in HistEntry
    BY <2>1, <2>2, <2>3 DEF HistEntry
  <2> QED
    BY <2>4, <2>5 DEF d
<1>9. Empty(TimeDiffMask) \in HistEntry
  <2>1. 0 \in 0 .. BbSizeOverflow - 1 /\ 0 \in 0 .. NumFormats
    BY HistoryAssumption
  <2> QED
    BY <1>1, <2>1 DEF Empty, HistEntry
<1> HIDE DEF g, n, o, p, new
<1>10. CASE i = n
  <2>1. g[i] = new /\ WrittenWhen[i] = now
    BY <1>2, <1>5, <1>6, <1>10
  <2> QED
    BY <1>2, <1>4, <1>8, <1>10, <2>1 DEF g, n, o, p
<1>11. CASE i # n /\ o < p
  <2>1. g[i] = Empty(TimeDiffMask) /\ WrittenWhen[i] = 0
    BY <1>2, <1>5, <1>6, <1>11
  <2>2. ~(p < o)
    BY <1>1, <1>3, <1>11
  <2> QED
    BY <1>9, <1>11, <2>1, <2>2 DEF g, n, o, p
<1>12. CASE i # n /\ p < o
  <2>1. ~(o < p) /\ ~(o <= p)
    BY <1>1, <1>3, <1>12
  <2>2. g[i] = h[i] /\ WrittenWhen[i] = when[i]
    BY <1>2, <1>5, <1>6, <1>12, <2>1
  <2>3. h[i] \in HistEntry
    OBVIOUS
  <2> QED
    BY <1>7, <1>12, <2>1, <2>2, <2>3 DEF g, n, o, p
<1> QED
  BY <1>2, <1>10, <1>11, <1>12

\* Where an insertion that does not overrun the ring puts what was there.
LEMMA RingAfter ==
  ASSUME head \in Slots, Padding \in Nat, Padding < HistSize
  PROVE  LET hd == (head + Padding + 1) % HistSize
         IN  /\ Back(hd, Padding + 1) = head
             /\ \A j \in 1 .. Padding + 1 : (Back(hd, j) - head) % HistSize = Padding + 1 - j
<1> DEFINE p == Padding
           hd == (head + Padding + 1) % HistSize
<1>1. HistSize \in Nat \ {0, 1} /\ head \in 0 .. HistSize - 1 /\ p \in 0 .. HistSize - 1
  BY SizeType
<1>2. hd \in Slots
  BY WrittenSlots
<1>3. hd = IF head + 1 + p < HistSize THEN head + 1 + p ELSE head + 1 + p - HistSize
  BY WrittenSlots
<1> HIDE DEF hd, p
<1>4. hd \in 0 .. HistSize - 1
  BY <1>2, SizeType
<1>5. ASSUME NEW j \in 1 .. p + 1
      PROVE  /\ Back(hd, j) \in Slots
             /\ Back(hd, j) = IF j <= hd THEN hd - j ELSE hd - j + HistSize
             /\ (Back(hd, j) - head) % HistSize = p + 1 - j
  <2>1. j \in 0 .. HistSize
    BY <1>1
  <2> DEFINE b == Back(hd, j)
  <2>2. b \in Slots /\ b = IF j <= hd THEN hd - j ELSE hd - j + HistSize
    BY <1>2, <2>1, BackIs
  <2> HIDE DEF b
  <2>3. (b - head) % HistSize = IF head <= b THEN b - head ELSE b - head + HistSize
    BY <2>2, SlotDistance
  <2>4. (b - head) % HistSize = p + 1 - j
    BY <1>1, <1>3, <1>4, <2>2, <2>3
  <2> QED
    BY <2>2, <2>4 DEF b
<1>6. Back(hd, p + 1) = head
  <2>1. p + 1 \in 1 .. p + 1
    BY <1>1
  <2>2. Back(hd, p + 1) = IF p + 1 <= hd THEN hd - (p + 1) ELSE hd - (p + 1) + HistSize
    BY <1>5, <2>1
  <2> QED
    BY <1>1, <1>3, <1>4, <2>2
<1> QED
  BY <1>5, <1>6 DEF hd, p

\* An insertion keeps the sums: the padding and the new entry's difference
\* make up for the time since the last insertion.
LEMMA AddsInserted ==
  ASSUME TypeOK, NEW h \in [Slots -> HistEntry], NEW v \in Lines, NEW id \in Nat,
         NEW info \in (0 .. NumFormats) \X (0 .. NumFormats),
         Adds(h, head, headTime, when, shifted)
  PROVE  Adds(AddHistTable(h, v, id, info), (head + Padding + 1) % HistSize, now,
              WrittenWhen, shifted \ Written)
<1> DEFINE g == AddHistTable(h, v, id, info)
           hd == (head + Padding + 1) % HistSize
           n == (head + Padding) % HistSize
           p == Padding
           mask == TimeDiffMask
           d == now - (headTime + p * mask)
<1> SUFFICES ASSUME NEW k \in 1 .. HistSize, g[Back(hd, k)].tag # 0
             PROVE  /\ Elapsed(g, Back(hd, 1), k - 1) <= now - WrittenWhen[Back(hd, k)]
                    /\ Back(hd, k) \notin shifted \ Written =>
                         Elapsed(g, Back(hd, 1), k - 1) = now - WrittenWhen[Back(hd, k)]
  BY DEF Adds
<1>1. /\ head \in Slots /\ HistSize \in Nat \ {0, 1} /\ headTime \in Nat /\ now \in Nat
      /\ \A m \in Slots : when[m] \in Nat
  BY TypeFacts, SizeType
<1>2. p \in Nat /\ mask \in Nat /\ d \in Nat
  BY PaddingIs
<1>3. n \in Slots /\ hd \in Slots /\ Back(hd, 1) = n
  BY <1>1, <1>2, WrittenSlots
<1>4. ASSUME NEW i \in Slots
      PROVE  /\ i = n => g[i].diff = d /\ WrittenWhen[i] = now
             /\ i # n => (i - head) % HistSize < p \/ p < (i - head) % HistSize
             /\ i # n /\ (i - head) % HistSize < p => g[i] = Empty(mask)
             /\ p < (i - head) % HistSize =>
                  i # n /\ g[i] = h[i] /\ WrittenWhen[i] = when[i] /\ i \notin Written
             /\ g[i] \in HistEntry
  BY InsertedSlot
<1>5. \A i \in Slots : h[i].diff \in Nat
  BY DEF HistEntry
<1>6. \A i \in Slots : g[i].diff \in Nat
  BY <1>4 DEF HistEntry
<1>d. Empty(mask).diff = mask /\ Empty(mask).tag = 0
  BY DEF Empty
<1> HIDE DEF g, hd, n, p, mask, d
<1>7. /\ Elapsed(g, n, 0) = 0
      /\ \A j \in 0 .. HistSize : Elapsed(g, n, j) \in Nat
      /\ \A j \in 0 .. HistSize - 1 : Elapsed(g, n, j + 1) = Elapsed(g, n, j) + g[Back(n, j)].diff
  BY <1>3, <1>6, ElapsedIs
<1>8. CASE k = 1
  <2>1. Back(hd, k) = n /\ k - 1 = 0 /\ WrittenWhen[n] = now
    BY <1>3, <1>4, <1>8
  <2> QED
    BY <1>1, <1>3, <1>7, <2>1
<1>9. CASE k # 1
  <2> DEFINE i == Back(hd, k)
             s == Steps(head, i)
  <2>1. i \in Slots
    <3>1. k \in 0 .. HistSize
      BY <1>1
    <3> QED
      BY <1>3, <3>1, BackIs
  <2>2. \A j \in 1 .. HistSize : Back(hd, j) = i => j = k
    <3>1. \A j \in 1 .. HistSize : Back(hd, j) = i => j = Steps(hd, i)
      BY <1>3, <2>1, StepsBack
    <3> QED
      BY <3>1
  <2>3. i # n
    <3>1. 1 \in 1 .. HistSize
      BY <1>1
    <3> QED
      BY <1>3, <1>9, <2>2, <3>1
  <2>4. g[i].tag # 0
    OBVIOUS
  <2>5. s \in 1 .. HistSize /\ Back(head, s) = i
    BY <1>1, <2>1, StepsBack
  <2>6. (i - head) % HistSize = HistSize - s
    BY <1>1, <2>1, OlderIs DEF Older
  <2> HIDE DEF i, s
  <2>7. p < HistSize - s /\ g[i] = h[i] /\ WrittenWhen[i] = when[i] /\ i \notin Written
    BY <1>4, <1>d, <2>1, <2>3, <2>4, <2>6
  <2>8. /\ p < HistSize /\ p + 1 + s \in 1 .. HistSize /\ p + 1 \in 0 .. HistSize
        /\ s \in 0 .. HistSize /\ (p + 1) + s <= HistSize /\ 1 + p <= HistSize
        /\ 1 \in 0 .. HistSize /\ p \in 0 .. HistSize /\ s - 1 \in 0 .. HistSize
        /\ (1 + p) + (s - 1) <= HistSize /\ 1 + p = p + 1 /\ 1 + (p + 1) <= HistSize
        /\ 1 + p \in 0 .. HistSize /\ (p + 1) + 1 <= HistSize /\ 1 + (p + 1) = (p + 1) + 1
    BY <1>1, <1>2, <2>5, <2>7
  <2>9. /\ Back(hd, p + 1) = head
        /\ \A j \in 1 .. p + 1 : (Back(hd, j) - head) % HistSize = p + 1 - j
    BY <1>1, <1>2, <2>8, RingAfter DEF hd, p
  <2>10. k = p + 1 + s
    <3>1. Back(hd, (p + 1) + s) = Back(head, s)
      BY <1>3, <2>8, <2>9, BackBack
    <3> QED
      BY <2>2, <2>5, <2>8, <3>1
  <2>11. Back(n, 1 + p) = Back(head, 1)
    <3>1. Back(n, p + 1) = Back(hd, 1 + (p + 1))
      BY <1>3, <2>8, BackBack
    <3>2. Back(head, 1) = Back(hd, (p + 1) + 1)
      BY <1>3, <2>8, <2>9, BackBack
    <3> QED
      BY <2>8, <3>1, <3>2
  <2>12. Elapsed(g, n, k - 1) = Elapsed(g, n, 1 + p) + Elapsed(g, Back(head, 1), s - 1)
    <3>1. k - 1 = (1 + p) + (s - 1)
      BY <1>2, <2>5, <2>10
    <3>2. Elapsed(g, n, (1 + p) + (s - 1)) = Elapsed(g, n, 1 + p) + Elapsed(g, Back(n, 1 + p), s - 1)
      BY <1>3, <1>6, <2>8, ElapsedSplit
    <3> QED
      BY <2>11, <3>1, <3>2
  <2>13. Elapsed(g, n, 1) = d
    <3>1. 0 \in 0 .. HistSize - 1 /\ 0 + 1 = 1 /\ 0 \in 0 .. HistSize /\ n - 0 = n
      BY <1>1, <1>3, SizeType
    <3>2. Back(n, 0) = n
      <4>1. n \in 0 .. HistSize - 1
        BY <1>3, SizeType
      <4>2. Back(n, 0) = IF 0 <= n THEN n - 0 ELSE n - 0 + HistSize
        BY <1>3, <3>1, BackIs
      <4> QED
        BY <3>1, <4>1, <4>2
    <3>3. Elapsed(g, n, 0 + 1) = 0 + g[n].diff
      BY <1>7, <3>1, <3>2
    <3> QED
      BY <1>2, <1>3, <1>4, <3>1, <3>3
  <2>14. Elapsed(g, Back(n, 1), p) = p * mask
    <3>1. Back(n, 1) \in Slots
      BY <1>3, <2>8, BackIs
    <3>2. ASSUME NEW m \in 0 .. p - 1
          PROVE  g[Back(Back(n, 1), m)].diff = mask
      <4>1. /\ m \in 0 .. HistSize /\ 1 + m \in 0 .. HistSize /\ 1 + m <= HistSize
            /\ 2 + m \in 1 .. p + 1 /\ 2 + m \in 0 .. HistSize /\ 1 + (1 + m) = 2 + m
            /\ 2 + m # 1 /\ 2 + m \in 1 .. HistSize /\ 1 + (1 + m) <= HistSize
            /\ 1 \in 1 .. HistSize
        BY <1>1, <1>2, <2>8
      <4>2. Back(Back(n, 1), m) = Back(n, 1 + m)
        BY <1>3, <2>8, <4>1, BackBack
      <4>3. Back(n, 1 + m) = Back(hd, 1 + (1 + m))
        BY <1>3, <2>8, <4>1, BackBack
      <4> DEFINE b == Back(hd, 2 + m)
      <4>4. b \in Slots
        BY <1>3, <4>1, BackIs
      <4>5. b # n
        <5>1. \A j \in 1 .. HistSize : Back(hd, j) = n => j = Steps(hd, n)
          BY <1>3, StepsBack
        <5> QED
          BY <1>3, <4>1, <5>1
      <4>6. (b - head) % HistSize = p + 1 - (2 + m)
        BY <2>9, <4>1
      <4>7. p + 1 - (2 + m) < p
        BY <1>2
      <4> HIDE DEF b
      <4>8. g[b] = Empty(mask)
        BY <1>4, <4>4, <4>5, <4>6, <4>7
      <4> QED
        BY <1>d, <4>1, <4>2, <4>3, <4>8 DEF b
    <3> QED
      BY <1>2, <1>6, <2>8, <3>1, <3>2, ElapsedConstant
  <2>15. Elapsed(g, n, 1 + p) = d + p * mask
    BY <1>3, <1>6, <2>8, <2>13, <2>14, ElapsedSplit
  <2>16. Elapsed(g, Back(head, 1), s - 1) = Elapsed(h, Back(head, 1), s - 1)
    <3>1. Back(head, 1) \in Slots
      BY <1>1, <2>8, BackIs
    <3>2. ASSUME NEW m \in 0 .. (s - 1) - 1
          PROVE  g[Back(Back(head, 1), m)].diff = h[Back(Back(head, 1), m)].diff
      <4>1. /\ m \in 0 .. HistSize /\ 1 + m \in 0 .. HistSize /\ 1 + m <= HistSize
            /\ 1 + m \in 1 .. HistSize /\ 1 + m < s
        BY <1>1, <2>5
      <4> DEFINE b == Back(head, 1 + m)
      <4>2. Back(Back(head, 1), m) = b
        BY <1>1, <2>8, <4>1, BackBack
      <4>3. b \in Slots
        BY <1>1, <4>1, BackIs
      <4>4. 1 + m = Steps(head, b)
        BY <1>1, <4>1, <4>3, StepsBack
      <4>5. (b - head) % HistSize = HistSize - Steps(head, b)
        BY <1>1, <4>3, OlderIs DEF Older
      <4> HIDE DEF b
      <4>6. p < (b - head) % HistSize
        BY <1>1, <1>2, <2>5, <2>7, <4>1, <4>4, <4>5
      <4> QED
        BY <1>4, <4>2, <4>3, <4>6
    <3> QED
      BY <1>5, <1>6, <2>8, <3>1, <3>2, ElapsedSame
  <2>17. /\ Elapsed(h, Back(head, 1), s - 1) <= headTime - when[i]
         /\ i \notin shifted => Elapsed(h, Back(head, 1), s - 1) = headTime - when[i]
    BY <2>4, <2>5, <2>7 DEF Adds
  <2>18. Elapsed(h, Back(head, 1), s - 1) \in Nat
    <3>1. Back(head, 1) \in Slots
      BY <1>1, <2>8, BackIs
    <3> QED
      BY <1>5, <2>8, <3>1, ElapsedIs
  <2>19. d + p * mask = now - headTime
    <3>1. p * mask \in Nat
      BY <1>2
    <3> QED
      BY <1>1, <1>2, <3>1 DEF d
  <2>20. Elapsed(g, n, k - 1) = now - headTime + Elapsed(h, Back(head, 1), s - 1)
    BY <2>12, <2>15, <2>16, <2>19
  <2>21. /\ Elapsed(g, n, k - 1) <= now - when[i]
         /\ i \notin shifted => Elapsed(g, n, k - 1) = now - when[i]
    BY <1>1, <2>1, <2>17, <2>18, <2>20
  <2> QED
    BY <1>3, <2>7, <2>21 DEF i
<1> QED
  BY <1>8, <1>9

\* The newest slot with a tag, if one has it.
LEMMA Found ==
  ASSUME head \in Slots, NEW h, NEW tag, Occurrences(h, tag) # {}
  PROVE  FindHistEntry(h, tag) \in Slots /\ h[FindHistEntry(h, tag)].tag = tag
<1> DEFINE S == Occurrences(h, tag)
           k == Min(S)
<1>1. S \in SUBSET Nat /\ S # {}
  BY DEF Occurrences
<1> HIDE DEF S
<1>2. k \in S
  BY <1>1, MinIsMember
<1> HIDE DEF k
<1>3. k \in 1 .. HistSize /\ h[Back(head, k)].tag = tag /\ k \in 0 .. HistSize
  BY <1>2, SizeType DEF S, Occurrences
<1>4. Back(head, k) \in Slots
  BY <1>3, BackIs
<1> QED
  BY <1>3, <1>4 DEF FindHistEntry, k, S

\* A slot with the tag is an occurrence.
LEMMA Occurs ==
  ASSUME head \in Slots, NEW h, NEW tag
  PROVE  Occurrences(h, tag) # {} <=> \E i \in Slots : h[i].tag = tag
<1>1. ASSUME NEW i \in Slots, h[i].tag = tag
      PROVE  Occurrences(h, tag) # {}
  <2>1. Steps(head, i) \in 1 .. HistSize /\ Back(head, Steps(head, i)) = i
    BY StepsBack
  <2> QED
    BY <1>1, <2>1 DEF Occurrences
<1>2. ASSUME Occurrences(h, tag) # {}
      PROVE  \E i \in Slots : h[i].tag = tag
  BY <1>2, Found
<1> QED
  BY <1>1, <1>2

\* The assertion holds whenever a block has a slot.
LEMMA KnownIsAsserted ==
  ASSUME TypeOK, BlockKnown
  PROVE  EndAssert
<1>1. head \in Slots /\ count \in Nat
  BY TypeFacts
<1>2. ASSUME count > 0
      PROVE  Occurrences(hist, lastBB - merge) # {}
  <2>1. \E i \in Slots : hist[i].tag = lastBB - merge
    BY <1>2 DEF BlockKnown, NoBlock
  <2> QED
    BY <1>1, <2>1, Occurs
<1> QED
  BY <1>2 DEF EndAssert

\* Ending a block writes its size and nothing else.
LEMMA BlockEnds ==
  ASSUME TypeOK, EndAssert, NEW size \in TableSizes
  PROVE  /\ EndBlock(size) \in [Slots -> HistEntry]
         /\ \A i \in Slots :
              /\ EndBlock(size)[i].tag = hist[i].tag /\ EndBlock(size)[i].diff = hist[i].diff
              /\ EndBlock(size)[i].src = hist[i].src
              /\ EndBlock(size)[i].bb # hist[i].bb => count > 0 /\ hist[i].tag = lastBB - merge
<1>1. /\ head \in Slots /\ count \in Nat /\ merge \in Nat /\ hist \in [Slots -> HistEntry]
  BY TypeFacts
<1>2. CASE count = 0
  BY <1>1, <1>2 DEF EndBlock
<1>3. CASE count # 0
  <2> DEFINE x == FindHistEntry(hist, lastBB - merge)
             m == IF merge > 0 THEN count + merge ELSE Max({size, count})
             b == m % BbSizeOverflow
  <2>1. x \in Slots /\ hist[x].tag = lastBB - merge
    <3>1. count > 0
      BY <1>1, <1>3
    <3> QED
      BY <1>1, <3>1, Found DEF EndAssert
  <2>2. size \in Nat /\ BbSizeOverflow \in Nat \ {0}
    BY HistoryAssumption
  <2>3. Max({size, count}) \in Nat
    <3>1. \E y \in {size, count} : \A z \in {size, count} : y >= z
      BY <1>1, <2>2
    <3>2. Max({size, count}) \in {size, count}
      BY <3>1 DEF Max
    <3> QED
      BY <1>1, <2>2, <3>2
  <2>4. m \in Int
    BY <1>1, <2>3
  <2> HIDE DEF m, x
  <2>5. b \in 0 .. BbSizeOverflow - 1
    BY <2>2, <2>4, ModFacts
  <2> HIDE DEF b
  <2>6. EndBlock(size) = [hist EXCEPT ![x].bb = b]
    BY <1>3 DEF EndBlock, AddBbSize, x, m, b
  <2>7. \A i \in Slots : EndBlock(size)[i] = IF i = x THEN [hist[i] EXCEPT !.bb = b] ELSE hist[i]
    BY <1>1, <2>1, <2>6
  <2>8. \A e \in HistEntry : [e EXCEPT !.bb = b] \in HistEntry
    BY <2>5 DEF HistEntry
  <2>9. EndBlock(size) \in [Slots -> HistEntry]
    BY <1>1, <2>1, <2>6, <2>8
  <2>10. \A e \in HistEntry : /\ [e EXCEPT !.bb = b].tag = e.tag
                              /\ [e EXCEPT !.bb = b].diff = e.diff
                              /\ [e EXCEPT !.bb = b].src = e.src
    BY DEF HistEntry
  <2>11. \A i \in Slots :
           /\ EndBlock(size)[i].tag = hist[i].tag /\ EndBlock(size)[i].diff = hist[i].diff
           /\ EndBlock(size)[i].src = hist[i].src
    BY <1>1, <2>7, <2>10
  <2>12. \A i \in Slots : EndBlock(size)[i].bb # hist[i].bb => hist[i].tag = lastBB - merge
    BY <2>1, <2>7
  <2>13. count > 0
    BY <1>1, <1>3
  <2> QED
    BY <2>9, <2>11, <2>12, <2>13
<1> QED
  BY <1>2, <1>3

\* The distance to the block a line is merged with.
LEMMA MergeIs ==
  ASSUME head \in Slots, NEW h \in [Slots -> HistEntry], NEW v \in Lines
  PROVE  \/ FindBbMerge(h, v) = 0
         \/ \E i \in Slots : /\ v > h[i].tag /\ v - h[i].tag <= h[i].bb
                             /\ FindBbMerge(h, v) = v - h[i].tag
<1> DEFINE S == {k \in 1 .. MergeEntries :
                   LET e == h[Back(head, k)] IN v > e.tag /\ v - e.tag <= e.bb}
<1>1. MergeEntries \in 1 .. HistSize - 1 /\ HistSize \in Nat
  BY HistoryAssumption
<1>2. CASE S = {}
  BY <1>2 DEF FindBbMerge
<1>3. CASE S # {}
  <2> DEFINE k == Min(S)
  <2>1. S \in SUBSET Nat
    BY <1>1
  <2>2. FindBbMerge(h, v) = v - h[Back(head, k)].tag
    BY <1>3 DEF FindBbMerge
  <2>3. k \in S
    <3> HIDE DEF S
    <3> QED
      BY <1>3, <2>1, MinIsMember
  <2> HIDE DEF k
  <2>4. /\ k \in 0 .. HistSize
        /\ v > h[Back(head, k)].tag /\ v - h[Back(head, k)].tag <= h[Back(head, k)].bb
    BY <1>1, <2>3
  <2>5. Back(head, k) \in Slots
    BY <2>4, BackIs
  <2> QED
    BY <2>2, <2>4, <2>5
<1> QED
  BY <1>2, <1>3

\* The states of a line.
LEMMA LineStates ==
  ASSUME now \in Nat
  PROVE  /\ Requested \in LineState /\ Requested.issued = now
         /\ Absent \in LineState /\ Absent.issued = 0
         /\ Cached \in LineState /\ Cached.issued = 0
<1>1. NoPos \in 0 .. NoPos
  BY SizeType
<1>2. Absent \in LineState /\ Absent.issued = 0
  BY <1>1 DEF Absent, LineState
<1>3. Requested \in LineState /\ Requested.issued = now
  BY <1>2 DEF Requested, LineState
<1>4. Cached \in LineState /\ Cached.issued = 0
  BY <1>2 DEF Cached, LineState
<1> QED
  BY <1>2, <1>3, <1>4

\* An access leaves a well-formed entry, issued when it was or now.
LEMMA AccessedLine ==
  ASSUME now \in Nat, NEW v \in Lines, line[v] \in LineState, NEW miss, NEW pos \in 0 .. NoPos
  PROVE  /\ AccessLine(v, miss, pos) \in LineState
         /\ AccessLine(v, miss, pos).issued \in {line[v].issued, now}
<1> DEFINE timed == IF miss /\ line[v].state # "requested" THEN Requested ELSE line[v]
<1>1. timed \in LineState /\ timed.issued \in {line[v].issued, now}
  BY LineStates
<1>2. AccessLine(v, miss, pos) = IF timed.state = "requested" /\ ~timed.accessed
                                 THEN [timed EXCEPT !.accessed = TRUE, !.pos = pos]
                                 ELSE timed
  BY DEF AccessLine
<1> HIDE DEF timed
<1>3. /\ [timed EXCEPT !.accessed = TRUE, !.pos = pos] \in LineState
      /\ [timed EXCEPT !.accessed = TRUE, !.pos = pos].issued = timed.issued
  BY <1>1 DEF LineState
<1> QED
  BY <1>1, <1>2, <1>3

\* A line of the tables changes.
LEMMA LineChanged ==
  ASSUME TypeOK, IssuedBefore, NEW v \in Lines, NEW l \in LineState, l.issued <= now,
         line' = [line EXCEPT ![v] = l], now' = now
  PROVE  line' \in [Lines -> LineState] /\ IssuedBefore'
<1>1. line \in [Lines -> LineState]
  BY DEF TypeOK
<1>2. line' \in [Lines -> LineState]
  BY <1>1
<1>3. \A u \in Lines : line'[u] = IF u = v THEN l ELSE line[u]
  BY <1>1
<1> QED
  BY <1>2, <1>3 DEF IssuedBefore

\* The next line of the block being fetched.
LEMMA BlockGoesOn ==
  ASSUME IInv, NEW v \in Lines, Cur + 1 = v, count' = count + 1,
         UNCHANGED <<hist, lastBB, merge>>
  PROVE  BlockKnown' /\ BlockLegal'
<1>1. v \in Nat \ {0, 1}
  BY HistoryAssumption
<1>2. lastBB \in Nat /\ count \in Nat /\ merge \in Nat
  BY TypeFacts DEF IInv
<1>3. ~NoBlock
  BY <1>1, <1>2 DEF NoBlock, Cur
<1>4. lastBB - merge \in Lines /\ lastBB + count \in Lines /\ merge + count < Gap
  BY <1>3 DEF IInv, BlockLegal
<1>5. lastBB + count' = v /\ merge' + count' = v - (lastBB - merge)
  BY <1>2 DEF Cur
<1>6. Gap \in Int /\ v - (lastBB - merge) # Gap
  BY <1>4, GapIs
<1>7. merge' + count' < Gap
  BY <1>1, <1>2, <1>4, <1>5, <1>6
<1>8. BlockLegal'
  BY <1>4, <1>5, <1>7 DEF BlockLegal
<1>9. BlockKnown'
  BY <1>3 DEF IInv, BlockKnown
<1> QED
  BY <1>8, <1>9

\* The first line of another block.
LEMMA BlockStarts ==
  ASSUME IInv, NEW v \in Lines, NEW id \in InstrIds, NEW info \in TableFormats,
         NEW size \in TableSizes, v \notin {Cur, Cur + 1}, now' = now,
         CalculatePrefetch(v, line[v].state # "cached", id, info, size)
  PROVE  /\ hist' \in [Slots -> HistEntry] /\ head' \in Slots /\ headTime' \in 0 .. now
         /\ lastBB' \in Lines \cup {0} /\ count' \in Nat /\ merge' \in Nat
         /\ when' \in [Slots -> Nat] /\ shifted' \subseteq Slots
         /\ \E pos \in 0 .. NoPos :
              line' = [line EXCEPT ![v] = AccessLine(v, line[v].state # "cached", pos)]
         /\ TimesAdd' /\ BlockKnown' /\ BlockLegal' /\ LearntIsLegal'
<1> DEFINE miss == line[v].state # "cached"
           h == EndBlock(size)
           diff == FindBbMerge(h, v)
           adds == AddsEntry(h, v, miss, diff)
           g == AddHistTable(h, v, id, info)
           n == (head + Padding) % HistSize
           hd == (head + Padding + 1) % HistSize
<1>1. /\ EndAssert
      /\ lastBB' = v /\ count' = 0 /\ merge' = diff
      /\ IF adds
         THEN /\ hist' = g /\ head' = hd /\ headTime' = now
              /\ when' = WrittenWhen /\ shifted' = shifted \ Written
         ELSE /\ hist' = h
              /\ UNCHANGED <<head, headTime, when, shifted>>
      /\ line' = [line EXCEPT ![v] = AccessLine(v, miss, IF adds THEN n ELSE NoPos)]
  BY DEF CalculatePrefetch
<1>2. /\ TypeOK /\ head \in Slots /\ headTime \in Nat /\ now \in Nat /\ headTime <= now
      /\ lastBB \in Nat /\ count \in Nat /\ merge \in Nat
      /\ hist \in [Slots -> HistEntry] /\ when \in [Slots -> Nat] /\ shifted \subseteq Slots
      /\ \A i \in Slots : hist[i].diff \in Nat /\ hist[i].tag \in Nat
  BY TypeFacts DEF IInv, TypeOK
<1>3. /\ h \in [Slots -> HistEntry]
      /\ \A i \in Slots : /\ h[i].tag = hist[i].tag /\ h[i].diff = hist[i].diff
                          /\ h[i].src = hist[i].src
                          /\ h[i].bb # hist[i].bb => count > 0 /\ hist[i].tag = lastBB - merge
  BY <1>1, <1>2, BlockEnds
<1>4. /\ diff = 0 \/ \E i \in Slots : /\ v > h[i].tag /\ v - h[i].tag <= h[i].bb
                                      /\ diff = v - h[i].tag
  BY <1>2, <1>3, MergeIs
<1>5. id \in Nat /\ info \in (0 .. NumFormats) \X (0 .. NumFormats)
  BY HistoryAssumption
<1>6. Padding \in Nat
  BY <1>2, PaddingIs
<1>7. n \in Slots /\ hd \in Slots
  BY <1>2, <1>6, WrittenSlots
<1>8. ASSUME NEW i \in Slots
      PROVE  /\ i = n => /\ g[i].tag = v /\ g[i].src = 0 /\ g[i].bb = 0
                         /\ WrittenWhen[i] = now
             /\ i # n => \/ g[i] = Empty(TimeDiffMask) /\ WrittenWhen[i] = 0
                         \/ g[i] = h[i] /\ WrittenWhen[i] = when[i]
             /\ g[i] \in HistEntry
  BY <1>2, <1>3, <1>5, InsertedSlot
<1>9. g \in [Slots -> HistEntry]
  <2>1. g = [i \in Slots |-> g[i]]
    BY DEF AddHistTable
  <2> HIDE DEF g
  <2> QED
    BY <1>8, <2>1
<1>10. WrittenWhen \in [Slots -> Nat]
  <2>1. WrittenWhen = [i \in Slots |-> WrittenWhen[i]]
    BY DEF WrittenWhen
  <2>2. \A i \in Slots : WrittenWhen[i] \in Nat
    BY <1>2, <1>8
  <2> HIDE DEF g
  <2> QED
    BY <2>1, <2>2
<1> HIDE DEF g, h, n, hd
<1>11. hist' \in [Slots -> HistEntry] /\ head' \in Slots
  BY <1>1, <1>2, <1>3, <1>7, <1>9
<1>12. headTime' \in 0 .. now
  BY <1>1, <1>2
<1>13. when' \in [Slots -> Nat] /\ shifted' \subseteq Slots
  BY <1>1, <1>2, <1>10
<1>14. v \in Nat \ {0, 1}
  BY HistoryAssumption
<1>15. \A i \in Slots : /\ h[i].tag \in Nat /\ h[i].tag \in Lines \cup {0}
                        /\ h[i].bb \in 0 .. BbSizeOverflow - 1
  BY <1>2, <1>3 DEF HistEntry
<1>16. lastBB' \in Lines \cup {0} /\ count' \in Nat /\ merge' \in Nat
  <2>1. diff \in Nat
    <3> HIDE DEF diff
    <3> QED
      BY <1>4, <1>14, <1>15
  <2> QED
    BY <1>1, <2>1
<1>17. \E pos \in 0 .. NoPos : line' = [line EXCEPT ![v] = AccessLine(v, miss, pos)]
  <2>1. n \in 0 .. NoPos /\ NoPos \in 0 .. NoPos
    BY <1>7, SizeType
  <2> HIDE DEF adds, miss
  <2>2. (IF adds THEN n ELSE NoPos) \in 0 .. NoPos
    BY <2>1
  <2> QED
    BY <1>1, <2>2
<1>18. \A i \in Slots : /\ h[i].src # 0 => h[i].tag \notin {0, h[i].src}
                        /\ h[i].bb # 0 => h[i].tag # 0
  <2> SUFFICES ASSUME NEW i \in Slots
               PROVE  /\ h[i].src # 0 => h[i].tag \notin {0, h[i].src}
                      /\ h[i].bb # 0 => h[i].tag # 0
    OBVIOUS
  <2>1. /\ hist[i].src # 0 => hist[i].tag \notin {0, hist[i].src}
        /\ hist[i].bb # 0 => hist[i].tag # 0
    BY DEF IInv, LearntIsLegal
  <2>2. ASSUME count > 0
        PROVE  lastBB - merge # 0
    <3>1. lastBB - merge \in Lines
      BY <1>2, <2>2 DEF IInv, BlockLegal, NoBlock
    <3> QED
      BY <3>1, HistoryAssumption
  <2> QED
    BY <1>3, <2>1, <2>2
<1>19. TimesAdd'
  <2>1. Adds(h, head, headTime, when, shifted)
    <3>1. Adds(hist, head, headTime, when, shifted)
      BY DEF IInv, TimesAdd
    <3> QED
      BY <1>2, <1>3, <3>1, AddsFrame
  <2>2. CASE adds
    <3>1. Adds(g, hd, now, WrittenWhen, shifted \ Written)
      BY <1>2, <1>3, <1>5, <2>1, AddsInserted DEF g, hd
    <3> QED
      BY <1>1, <2>2, <3>1 DEF TimesAdd
  <2>3. CASE ~adds
    BY <1>1, <2>1, <2>3 DEF TimesAdd
  <2> QED
    BY <2>2, <2>3
<1>20. BlockKnown'
  <2>1. CASE adds
    <3>1. diff = 0
      BY <2>1 DEF AddsEntry
    <3>2. hist'[n].tag = v
      BY <1>1, <1>7, <1>8, <2>1
    <3> HIDE DEF diff
    <3>3. lastBB' - merge' = v
      BY <1>1, <1>14, <3>1
    <3> QED
      BY <1>7, <3>2, <3>3 DEF BlockKnown
  <2>2. CASE ~adds
    <3>1. hist' = h
      BY <1>1, <2>2
    <3>2. CASE diff = 0
      <4>1. Occurrences(h, v) # {}
        BY <2>2, <3>2 DEF AddsEntry
      <4>2. \E i \in Slots : h[i].tag = v
        BY <1>2, <4>1, Occurs
      <4>3. lastBB' - merge' = v
        BY <1>1, <1>14, <3>2
      <4> QED
        BY <3>1, <4>2, <4>3 DEF BlockKnown
    <3>3. CASE diff # 0
      <4>1. PICK i \in Slots : diff = v - h[i].tag
        BY <1>4, <3>3
      <4> HIDE DEF diff
      <4>2. lastBB' - merge' = h[i].tag
        BY <1>1, <1>14, <1>15, <4>1
      <4> QED
        BY <3>1, <4>2 DEF BlockKnown
    <3> QED
      BY <3>2, <3>3
  <2> QED
    BY <2>1, <2>2
<1>21. BlockLegal'
  <2>1. lastBB' + count' = v
    BY <1>1, <1>14
  <2>2. Gap \in Int /\ BbSizeOverflow <= Gap /\ Gap <= v /\ BbSizeOverflow \in Nat \ {0}
    BY GapIs, HistoryAssumption
  <2> HIDE DEF diff, adds
  <2>3. CASE diff = 0
    <3>1. lastBB' - merge' = v /\ merge' + count' = 0
      BY <1>1, <1>14, <2>3
    <3>2. merge' + count' < Gap
      BY <2>2, <3>1
    <3> QED
      BY <2>1, <3>1, <3>2 DEF BlockLegal
  <2>4. CASE diff # 0
    <3>1. PICK i \in Slots : v > h[i].tag /\ v - h[i].tag <= h[i].bb /\ diff = v - h[i].tag
      BY <1>4, <2>4
    <3>2. h[i].bb # 0
      BY <1>14, <1>15, <3>1
    <3>3. h[i].tag \in Lines
      BY <1>15, <1>18, <3>2
    <3>4. lastBB' - merge' = h[i].tag
      BY <1>1, <1>14, <1>15, <3>1
    <3>5. merge' + count' < Gap
      BY <1>1, <1>14, <1>15, <2>2, <3>1
    <3> QED
      BY <2>1, <3>3, <3>4, <3>5 DEF BlockLegal
  <2> QED
    BY <2>3, <2>4
<1>22. LearntIsLegal'
  <2> SUFFICES ASSUME NEW i \in Slots
               PROVE  /\ hist'[i].src # 0 => hist'[i].tag \notin {0, hist'[i].src}
                      /\ hist'[i].bb # 0 => hist'[i].tag # 0
    BY DEF LearntIsLegal
  <2>1. hist' = g \/ hist' = h
    BY <1>1
  <2>2. Empty(TimeDiffMask).src = 0 /\ Empty(TimeDiffMask).bb = 0
    BY DEF Empty
  <2> QED
    BY <1>8, <1>18, <2>1, <2>2
<1> QED
  BY <1>11, <1>12, <1>13, <1>16, <1>17, <1>19, <1>20, <1>21, <1>22

\* calculatePrefetch keeps the invariant.
LEMMA DemandKeeps ==
  ASSUME IInv, NEW v \in Lines, NEW id \in InstrIds, NEW info \in TableFormats,
         NEW size \in TableSizes, Demand(v, id, info, size)
  PROVE  IInv'
<1>1. /\ CalculatePrefetch(v, line[v].state # "cached", id, info, size)
      /\ now' = now /\ events' \in 0 .. MaxEvents
  <2>1. events < MaxEvents /\ events' = events + 1 /\ now' = now
    BY DEF Demand, Counted
  <2>2. events \in 0 .. MaxEvents /\ MaxEvents \in Nat
    BY HistoryAssumption DEF IInv, TypeOK
  <2> QED
    BY <2>1, <2>2 DEF Demand
<1>2. /\ TypeOK /\ now \in Nat /\ line[v] \in LineState /\ line[v].issued <= now
      /\ IssuedBefore
  BY TypeFacts DEF IInv, TypeOK, IssuedBefore
<1>3. CASE UNCHANGED <<hist, head, headTime, lastBB, count, merge, line, when, shifted>>
  BY <1>1, <1>3 DEF IInv, TypeOK, BlockKnown, NoBlock, TimesAdd, IssuedBefore, BlockLegal,
                    LearntIsLegal
<1>4. ASSUME NEW pos \in 0 .. NoPos,
             line' = [line EXCEPT ![v] = AccessLine(v, line[v].state # "cached", pos)]
      PROVE  line' \in [Lines -> LineState] /\ IssuedBefore'
  <2> DEFINE l == AccessLine(v, line[v].state # "cached", pos)
  <2>1. l \in LineState /\ l.issued \in {line[v].issued, now}
    BY <1>2, AccessedLine
  <2>2. l.issued <= now
    BY <1>2, <2>1
  <2>3. line' = [line EXCEPT ![v] = l]
    BY <1>4
  <2> HIDE DEF l
  <2> QED
    BY <1>1, <1>2, <2>1, <2>2, <2>3, LineChanged
<1>5. CASE /\ Cur + 1 = v
           /\ count' = count + 1
           /\ line' = [line EXCEPT ![v] = AccessLine(v, line[v].state # "cached", NoPos)]
           /\ UNCHANGED <<hist, head, headTime, lastBB, merge, when, shifted>>
  <2>1. NoPos \in 0 .. NoPos
    BY SizeType
  <2>2. line' \in [Lines -> LineState] /\ IssuedBefore'
    BY <1>4, <1>5, <2>1
  <2>3. BlockKnown' /\ BlockLegal'
    BY <1>5, BlockGoesOn
  <2>4. TypeOK'
    BY <1>1, <1>5, <2>2 DEF IInv, TypeOK
  <2>5. TimesAdd' /\ LearntIsLegal'
    BY <1>5 DEF IInv, TimesAdd, LearntIsLegal
  <2> QED
    BY <2>2, <2>3, <2>4, <2>5 DEF IInv
<1>6. CASE v \notin {Cur, Cur + 1}
  <2>1. /\ hist' \in [Slots -> HistEntry] /\ head' \in Slots /\ headTime' \in 0 .. now
        /\ lastBB' \in Lines \cup {0} /\ count' \in Nat /\ merge' \in Nat
        /\ when' \in [Slots -> Nat] /\ shifted' \subseteq Slots
        /\ \E pos \in 0 .. NoPos :
             line' = [line EXCEPT ![v] = AccessLine(v, line[v].state # "cached", pos)]
        /\ TimesAdd' /\ BlockKnown' /\ BlockLegal' /\ LearntIsLegal'
    BY <1>1, <1>6, BlockStarts
  <2>2. line' \in [Lines -> LineState] /\ IssuedBefore'
    BY <1>4, <2>1
  <2>3. TypeOK'
    BY <1>1, <1>2, <2>1, <2>2 DEF TypeOK
  <2> QED
    BY <2>1, <2>2, <2>3 DEF IInv
<1> QED
  BY <1>1, <1>3, <1>5, <1>6 DEF CalculatePrefetch

----------------------------------------------------------------------------
(* A squash.                                                               *)

\* The newest entry a squash leaves, in steps back.
LEMMA FirstKeptIs ==
  ASSUME NEW id
  PROVE  /\ FirstKept(id) \in 1 .. HistSize + 1
         /\ FirstKept(id) \notin Squashed(id)
         /\ \A k \in 1 .. HistSize : k < FirstKept(id) => k \in Squashed(id)
         /\ Squashed(id) # 1 .. HistSize <=> FirstKept(id) <= HistSize
<1> DEFINE S == (1 .. HistSize + 1) \ Squashed(id)
           f == FirstKept(id)
<1>1. HistSize \in Nat /\ Squashed(id) \subseteq 1 .. HistSize
  BY SizeType DEF Squashed
<1>2. f = Min(S)
  BY DEF FirstKept
<1>3. S \in SUBSET Nat /\ HistSize + 1 \in S
  BY <1>1
<1> HIDE DEF f
<1>4. f \in S /\ \A j \in S : f <= j
  <2> HIDE DEF S
  <2> QED
    BY <1>2, <1>3, MinIsMember
<1>5. f \in 1 .. HistSize + 1 /\ f \notin Squashed(id)
  BY <1>4
<1>6. \A k \in 1 .. HistSize : k < f => k \in Squashed(id)
  <2> SUFFICES ASSUME NEW k \in 1 .. HistSize, k < f, k \notin Squashed(id)
               PROVE  FALSE
    OBVIOUS
  <2>1. k \in S
    BY <1>1
  <2>2. f <= k
    BY <1>4, <2>1
  <2> QED
    BY <1>1, <1>5, <2>2
<1>7. Squashed(id) # 1 .. HistSize <=> f <= HistSize
  <2>1. ASSUME f <= HistSize
        PROVE  Squashed(id) # 1 .. HistSize
    BY <1>1, <1>5, <2>1
  <2>2. ASSUME ~(f <= HistSize)
        PROVE  Squashed(id) = 1 .. HistSize
    <3>1. \A k \in 1 .. HistSize : k < f
      BY <1>1, <1>5, <2>2
    <3> QED
      BY <1>1, <1>6, <3>1
  <2> QED
    BY <2>1, <2>2
<1> QED
  BY <1>5, <1>6, <1>7 DEF f

\* The time of the squashed entries is a time.
LEMMA TimeToAddIs ==
  ASSUME TypeOK, NEW id
  PROVE  TimeToAdd(id) \in Nat
<1>1. head \in Slots /\ \A m \in Slots : hist[m].diff \in Nat
  BY TypeFacts
<1>2. 1 \in 0 .. HistSize /\ FirstKept(id) - 1 \in 0 .. HistSize
  BY SizeType, FirstKeptIs
<1>3. Back(head, 1) \in Slots
  BY <1>1, <1>2, BackIs
<1> QED
  BY <1>1, <1>2, <1>3, ElapsedIs DEF TimeToAdd

\* What a squash leaves in each slot.
LEMMA SquashedSlot ==
  ASSUME TypeOK, LearntIsLegal, NEW id, NEW v \in Lines, NEW i \in Slots
  PROVE  LET h == SquashHistTable(id, v)
             k == Steps(head, i)
         IN  /\ k \in Squashed(id) => /\ h[i].tag = 0 /\ h[i].src = 0 /\ h[i].bb = 0
                                      /\ k < FirstKept(id) => h[i].diff = 0
                                      /\ ~(k < FirstKept(id)) => h[i].diff = hist[i].diff
             /\ k \notin Squashed(id) =>
                  /\ h[i].tag = hist[i].tag /\ h[i].src = hist[i].src
                  /\ k = FirstKept(id) => h[i].diff = hist[i].diff + TimeToAdd(id)
                  /\ k # FirstKept(id) => h[i].diff = hist[i].diff
                  /\ h[i].bb # 0 => h[i].tag # 0
             /\ h[i] \in HistEntry
<1> DEFINE h == SquashHistTable(id, v)
           k == Steps(head, i)
           f == FirstKept(id)
           e == hist[i]
           T == TimeToAdd(id)
           cut == CutBlock(e, v)
           clear == Cleared(e, k < f)
<1>1. e \in HistEntry /\ e.diff \in Nat /\ e.tag \in Nat
  BY TypeFacts
<1>2. T \in Nat /\ v \in Nat \ {0, 1} /\ BbSizeOverflow \in Nat \ {0}
  BY TimeToAddIs, HistoryAssumption
<1>3. f \notin Squashed(id)
  BY FirstKeptIs
<1>4. h[i] = CASE k \in Squashed(id) -> clear
               [] k = f              -> [cut EXCEPT !.diff = @ + T]
               [] OTHER              -> cut
  BY DEF SquashHistTable, Steps
<1>5. e.bb # 0 => e.tag # 0
  BY DEF LearntIsLegal
<1> HIDE DEF h, k, f, e, T, cut, clear
<1>6. cut \in HistEntry /\ cut.tag = e.tag /\ cut.src = e.src /\ cut.diff = e.diff
  <2>1. e.bb \in 0 .. BbSizeOverflow - 1
    BY <1>1 DEF HistEntry
  <2>2. CASE e.tag <= v /\ v <= e.tag + e.bb
    <3> DEFINE b == v - e.tag
    <3>1. b \in 0 .. BbSizeOverflow - 1
      BY <1>1, <1>2, <2>1, <2>2
    <3>2. cut = [e EXCEPT !.bb = b]
      BY <2>2 DEF cut, CutBlock
    <3> HIDE DEF b
    <3> QED
      BY <1>1, <3>1, <3>2 DEF HistEntry
  <2>3. CASE ~(e.tag <= v /\ v <= e.tag + e.bb)
    BY <1>1, <2>3 DEF cut, CutBlock
  <2> QED
    BY <2>2, <2>3
<1>7. cut.bb # 0 => cut.tag # 0
  <2>1. e.bb \in 0 .. BbSizeOverflow - 1
    BY <1>1 DEF HistEntry
  <2>2. CASE e.tag <= v /\ v <= e.tag + e.bb
    BY <1>1, <1>2, <1>5, <1>6, <2>1, <2>2
  <2>3. CASE ~(e.tag <= v /\ v <= e.tag + e.bb)
    BY <1>5, <2>3 DEF cut, CutBlock
  <2> QED
    BY <2>2, <2>3
<1>8. CASE k \in Squashed(id)
  <2> DEFINE d == IF k < f THEN 0 ELSE e.diff
  <2>1. h[i] = Empty(d)
    <3>1. h[i] = clear
      BY <1>3, <1>4, <1>8
    <3>2. clear = Empty(d)
      BY Zenon DEF Cleared, clear
    <3> QED
      BY <3>1, <3>2
  <2>2. d \in Nat
    BY <1>1
  <2>3. (k < f => d = 0) /\ (~(k < f) => d = e.diff)
    OBVIOUS
  <2> HIDE DEF d
  <2>4. 0 \in 0 .. BbSizeOverflow - 1 /\ 0 \in 0 .. NumFormats
    BY HistoryAssumption
  <2>5. Empty(d) \in HistEntry
    BY <2>2, <2>4 DEF Empty, HistEntry
  <2>6. Empty(d).tag = 0 /\ Empty(d).src = 0 /\ Empty(d).bb = 0 /\ Empty(d).diff = d
    BY DEF Empty
  <2> QED
    BY <1>8, <2>1, <2>3, <2>5, <2>6 DEF h, k, f, e
<1>9. CASE k \notin Squashed(id) /\ k = f
  <2>1. h[i] = [cut EXCEPT !.diff = @ + T]
    BY <1>4, <1>9
  <2>2. cut.diff + T \in Nat
    BY <1>1, <1>2, <1>6
  <2>3. /\ h[i] \in HistEntry /\ h[i].tag = cut.tag /\ h[i].src = cut.src /\ h[i].bb = cut.bb
        /\ h[i].diff = cut.diff + T
    BY <1>6, <2>1, <2>2 DEF HistEntry
  <2> QED
    BY <1>6, <1>7, <1>9, <2>3 DEF h, k, f, e, T
<1>10. CASE k \notin Squashed(id) /\ k # f
  <2>1. h[i] = cut
    BY <1>4, <1>10
  <2> QED
    BY <1>6, <1>7, <1>10, <2>1 DEF h, k, f, e
<1> QED
  BY <1>8, <1>9, <1>10

\* The slot after j is one step ahead of it.
LEMMA NextSlot ==
  ASSUME NEW j \in Slots
  PROVE  (j + 1) % HistSize \in Slots /\ Back((j + 1) % HistSize, 1) = j
<1> DEFINE hd == (j + 1) % HistSize
           x == j + 1
<1>1. HistSize \in Nat \ {0, 1} /\ HistSize \in Nat \ {0} /\ j \in 0 .. HistSize - 1
  BY SizeType
<1>2. x \in Int /\ 0 <= x /\ x <= HistSize /\ x < 2 * HistSize
  BY <1>1
<1> HIDE DEF x
<1>3. /\ x < HistSize => x % HistSize = x
      /\ HistSize <= x => x % HistSize = x - HistSize
  BY <1>1, <1>2, ModNear
<1>4. hd = IF j + 1 < HistSize THEN j + 1 ELSE 0
  BY <1>1, <1>2, <1>3 DEF x
<1> HIDE DEF hd
<1>5. hd \in Slots /\ 1 \in 0 .. HistSize
  BY <1>1, <1>4, SizeType
<1>6. Back(hd, 1) = IF 1 <= hd THEN hd - 1 ELSE hd - 1 + HistSize
  BY <1>5, BackIs
<1>7. Back(hd, 1) = j
  BY <1>1, <1>4, <1>6
<1> QED
  BY <1>5, <1>7 DEF hd

\* One step of the sum.
LEMMA ElapsedOne ==
  ASSUME NEW h, \A j \in Slots : h[j].diff \in Nat, NEW i \in Slots
  PROVE  Elapsed(h, i, 1) = h[i].diff
<1>1. HistSize \in Nat \ {0, 1} /\ i \in 0 .. HistSize - 1
  BY SizeType
<1>2. 0 \in 0 .. HistSize - 1 /\ 0 \in 0 .. HistSize /\ 0 + 1 = 1
  BY <1>1
<1>3. Back(i, 0) = IF 0 <= i THEN i - 0 ELSE i - 0 + HistSize
  BY <1>2, BackIs
<1>4. Back(i, 0) = i
  BY <1>1, <1>3
<1>5. Elapsed(h, i, 0 + 1) = Elapsed(h, i, 0) + h[Back(i, 0)].diff /\ Elapsed(h, i, 0) = 0
  BY <1>2, ElapsedIs
<1>6. h[i].diff \in Nat
  OBVIOUS
<1> QED
  BY <1>2, <1>4, <1>5, <1>6

\* A squash keeps the sums: the newest entry left takes over the time of
\* the squashed ones.
LEMMA SquashTimes ==
  ASSUME TypeOK, TimesAdd, LearntIsLegal, NEW id, NEW v \in Lines, FirstKept(id) <= HistSize
  PROVE  LET h    == SquashHistTable(id, v)
             last == Back(head, FirstKept(id))
         IN  Adds(h, (last + 1) % HistSize, headTime,
                  [i \in Slots |-> IF h[i].tag = 0 THEN 0 ELSE when[i]],
                  {i \in shifted : h[i].tag # 0} \cup
                    {i \in {last} : h[last].tag # 0 /\ TimeToAdd(id) > 0})
<1> DEFINE h == SquashHistTable(id, v)
           f == FirstKept(id)
           last == Back(head, f)
           hd == (last + 1) % HistSize
           w == [i \in Slots |-> IF h[i].tag = 0 THEN 0 ELSE when[i]]
           T == TimeToAdd(id)
           sh == {i \in shifted : h[i].tag # 0} \cup {i \in {last} : h[last].tag # 0 /\ T > 0}
           first == Back(head, 1)
<1>1. /\ head \in Slots /\ headTime \in Nat /\ HistSize \in Nat \ {0, 1}
      /\ \A i \in Slots : hist[i].diff \in Nat /\ when[i] \in Nat
  BY TypeFacts, SizeType
<1>2. f \in 1 .. HistSize /\ f \in 0 .. HistSize /\ f - 1 \in 0 .. HistSize /\ 1 \in 0 .. HistSize
  BY <1>1, FirstKeptIs
<1>3. \A k \in 1 .. HistSize : k < f => k \in Squashed(id)
  BY FirstKeptIs
<1>4. last \in Slots /\ first \in Slots
  BY <1>1, <1>2, BackIs
<1>5. hd \in Slots /\ Back(hd, 1) = last
  BY <1>4, NextSlot
<1>6. T \in Nat /\ T = Elapsed(hist, first, f - 1)
  BY TimeToAddIs DEF TimeToAdd
<1>7. ASSUME NEW i \in Slots
      PROVE  /\ Steps(head, i) \in Squashed(id) => h[i].tag = 0
             /\ Steps(head, i) \notin Squashed(id) => h[i].tag = hist[i].tag
             /\ Steps(head, i) = f => h[i].diff = hist[i].diff + T
             /\ ~(Steps(head, i) <= f) => h[i].diff = hist[i].diff
             /\ h[i] \in HistEntry
  <2>1. f \notin Squashed(id)
    BY FirstKeptIs
  <2>2. Steps(head, i) \in 1 .. HistSize
    BY <1>1, StepsBack
  <2>3. ~(Steps(head, i) <= f) => ~(Steps(head, i) < f) /\ Steps(head, i) # f
    BY <1>2, <2>2
  <2> QED
    BY <2>1, <2>3, SquashedSlot
<1>8. \A i \in Slots : h[i].diff \in Nat
  BY <1>7 DEF HistEntry
<1> SUFFICES ASSUME NEW k \in 1 .. HistSize, h[Back(hd, k)].tag # 0
             PROVE  /\ Elapsed(h, Back(hd, 1), k - 1) <= headTime - w[Back(hd, k)]
                    /\ Back(hd, k) \notin sh =>
                         Elapsed(h, Back(hd, 1), k - 1) = headTime - w[Back(hd, k)]
  BY DEF Adds
<1> DEFINE i == Back(hd, k)
           s == Steps(head, i)
           m == s - f
<1>9. i \in Slots
  <2>1. k \in 0 .. HistSize
    BY <1>1
  <2> QED
    BY <1>5, <2>1, BackIs
<1>10. s \in 1 .. HistSize /\ Back(head, s) = i
  BY <1>1, <1>9, StepsBack
<1>11. h[i].tag # 0 /\ s \notin Squashed(id) /\ hist[i].tag # 0
  <2>1. h[i].tag # 0
    OBVIOUS
  <2> HIDE DEF i, h
  <2> QED
    BY <1>7, <1>9, <2>1
<1>12. w[i] = when[i]
  BY <1>9, <1>11
<1>13. i \notin sh => i \notin shifted /\ (i = last => T = 0)
  <2>1. ~(T > 0) => T = 0
    BY <1>6
  <2> QED
    BY <1>11, <2>1
<1> HIDE DEF h, f, last, hd, w, T, sh, i, s, first
<1>14. /\ f <= s /\ m \in 0 .. HistSize - 1 /\ m \in 0 .. HistSize /\ f + m = s /\ f + m <= HistSize
       /\ 1 + m \in 1 .. HistSize /\ 1 + m <= HistSize /\ s \in 0 .. HistSize
  BY <1>1, <1>2, <1>3, <1>10, <1>11
<1> HIDE DEF m
<1>15. Back(last, m) = i
  BY <1>1, <1>2, <1>10, <1>14, BackBack DEF last
<1>16. k = 1 + m
  <2>1. Back(last, m) = Back(hd, 1 + m)
    BY <1>2, <1>5, <1>14, BackBack
  <2>2. \A j \in 1 .. HistSize : Back(hd, j) = i => j = Steps(hd, i)
    BY <1>5, <1>9, StepsBack
  <2> QED
    BY <1>14, <1>15, <2>1, <2>2 DEF i
<1>17. /\ Elapsed(hist, first, s - 1) <= headTime - when[i]
       /\ i \notin shifted => Elapsed(hist, first, s - 1) = headTime - when[i]
  BY <1>10, <1>11 DEF TimesAdd, Adds, first
<1>18. Elapsed(hist, first, s - 1) = T + Elapsed(hist, last, m)
  <2>1. (f - 1) + m = s - 1 /\ (f - 1) + m <= HistSize /\ 1 + (f - 1) = f /\ 1 + (f - 1) <= HistSize
    BY <1>1, <1>2, <1>14
  <2>2. Back(first, f - 1) = last
    BY <1>1, <1>2, <2>1, BackBack DEF first, last
  <2>3. Elapsed(hist, first, (f - 1) + m) =
          Elapsed(hist, first, f - 1) + Elapsed(hist, Back(first, f - 1), m)
    BY <1>1, <1>2, <1>4, <1>14, <2>1, ElapsedSplit
  <2> QED
    BY <1>6, <2>1, <2>2, <2>3
<1>19. CASE m = 0
  <2>1. k - 1 = 0
    BY <1>16, <1>19
  <2>2. Elapsed(h, last, 0) = 0 /\ Elapsed(hist, last, 0) = 0
    BY <1>1, <1>4, <1>8, ElapsedIs
  <2>3. s = f
    BY <1>2, <1>10, <1>19 DEF m
  <2>4. i = last
    BY <1>10, <2>3 DEF last
  <2>5. T <= headTime - when[i] /\ (i \notin shifted => T = headTime - when[i]) /\ when[i] \in Nat
    BY <1>1, <1>6, <1>9, <1>17, <1>18, <1>19, <2>2
  <2>6. Elapsed(h, Back(hd, 1), k - 1) = 0
    BY <1>5, <2>1, <2>2
  <2>7. /\ 0 <= headTime - when[i]
        /\ i \notin sh => 0 = headTime - when[i]
    BY <1>1, <1>6, <1>13, <2>4, <2>5
  <2> QED
    BY <1>12, <2>6, <2>7 DEF i
<1>20. CASE m # 0
  <2>1. /\ m - 1 \in 0 .. HistSize /\ 1 + (m - 1) = m /\ 1 + (m - 1) <= HistSize
        /\ k - 1 = m
    BY <1>1, <1>14, <1>16, <1>20
  <2>2. Back(last, 1) \in Slots
    BY <1>2, <1>4, BackIs
  <2>3. Elapsed(h, last, m) = Elapsed(h, last, 1) + Elapsed(h, Back(last, 1), m - 1)
    BY <1>2, <1>4, <1>8, <2>1, ElapsedSplit
  <2>4. Elapsed(hist, last, m) = Elapsed(hist, last, 1) + Elapsed(hist, Back(last, 1), m - 1)
    BY <1>1, <1>2, <1>4, <2>1, ElapsedSplit
  <2>5. Elapsed(h, last, 1) = h[last].diff /\ Elapsed(hist, last, 1) = hist[last].diff
    BY <1>1, <1>4, <1>8, ElapsedOne
  <2>6. h[last].diff = hist[last].diff + T
    <3>1. f = Steps(head, last)
      BY <1>1, <1>2, <1>4, StepsBack DEF last
    <3> QED
      BY <1>4, <1>7, <3>1
  <2>7. Elapsed(h, Back(last, 1), m - 1) = Elapsed(hist, Back(last, 1), m - 1)
    <3>1. ASSUME NEW x \in 0 .. (m - 1) - 1
          PROVE  h[Back(Back(last, 1), x)].diff = hist[Back(Back(last, 1), x)].diff
      <4>1. /\ x \in 0 .. HistSize /\ 1 + x \in 0 .. HistSize /\ 1 + x <= HistSize
            /\ f + (1 + x) \in 1 .. HistSize /\ f + (1 + x) <= HistSize
            /\ f + (1 + x) \in 0 .. HistSize /\ ~(f + (1 + x) <= f)
        BY <1>1, <1>2, <1>14, <2>1
      <4>2. Back(Back(last, 1), x) = Back(last, 1 + x)
        BY <1>2, <1>4, <4>1, BackBack
      <4>3. Back(last, 1 + x) = Back(head, f + (1 + x))
        BY <1>1, <1>2, <4>1, BackBack DEF last
      <4> DEFINE b == Back(head, f + (1 + x))
      <4>4. b \in Slots
        BY <1>1, <4>1, BackIs
      <4>5. f + (1 + x) = Steps(head, b)
        BY <1>1, <4>1, <4>4, StepsBack
      <4> HIDE DEF b
      <4>6. h[b].diff = hist[b].diff
        BY <1>7, <4>1, <4>4, <4>5
      <4> QED
        BY <4>2, <4>3, <4>6 DEF b
    <3> QED
      BY <1>1, <1>8, <2>1, <2>2, <3>1, ElapsedSame
  <2>8. Elapsed(hist, Back(last, 1), m - 1) \in Nat /\ hist[last].diff \in Nat
    BY <1>1, <1>4, <2>1, <2>2, ElapsedIs
  <2>9. Elapsed(h, last, m) = T + Elapsed(hist, last, m)
    BY <1>6, <2>3, <2>4, <2>5, <2>6, <2>7, <2>8
  <2>10. Elapsed(h, Back(hd, 1), k - 1) = Elapsed(hist, first, s - 1)
    BY <1>5, <1>18, <2>1, <2>9
  <2> QED
    BY <1>12, <1>13, <1>17, <2>10 DEF i
<1> QED
  BY <1>19, <1>20

\* An empty entry is never taken for the head of a block.
LEMMA ResumesAtALine ==
  ASSUME IInv, NEW v \in Lines, NEW e \in HistEntry, e.bb # 0 => e.tag # 0, Resumes(e, v)
  PROVE  e.tag \in Lines /\ e.tag <= v /\ v - e.tag < Gap
<1>1. v \in Nat \ {0, 1} /\ Lines \subseteq Nat /\ BbSizeOverflow \in Nat \ {0}
  BY HistoryAssumption
<1>2. lastBB \in Nat /\ count \in Nat /\ merge \in Nat
  BY TypeFacts DEF IInv
<1>3. Gap \in Int /\ BbSizeOverflow <= Gap /\ Gap <= v
  BY GapIs
<1>4. merge + count < Gap
  BY <1>1, <1>2, <1>3 DEF IInv, BlockLegal, NoBlock
<1>5. e.tag \in Lines \cup {0} /\ e.bb \in 0 .. BbSizeOverflow - 1
  BY DEF HistEntry
<1>6. e.tag \in Nat
  <2>1. \A x \in Lines \cup {0} : x \in Nat
    BY <1>1
  <2> QED
    BY <1>5, <2>1
<1>7. e.tag <= v /\ (e.tag + merge + count >= v \/ e.tag + e.bb >= v)
  BY DEF Resumes
<1>8. v - e.tag < Gap
  BY <1>1, <1>2, <1>3, <1>4, <1>5, <1>6, <1>7
<1>9. e.tag # 0
  BY <1>1, <1>3, <1>8
<1> QED
  BY <1>5, <1>7, <1>8, <1>9

\* notifySquash keeps the invariant.
LEMMA SquashKeeps ==
  ASSUME IInv, NEW v \in Lines, NEW id \in SquashIds, NotifySquash(id, v)
  PROVE  IInv'
<1> DEFINE h == SquashHistTable(id, v)
           f == FirstKept(id)
           kept == Squashed(id) # 1 .. HistSize
           last == IF kept THEN Back(head, f) ELSE Back(head, 1)
           e == h[last]
           T == TimeToAdd(id)
           b == IF Resumes(e, v) THEN 0 ELSE e.bb
           w == [i \in Slots |-> IF h[i].tag = 0 THEN 0 ELSE when[i]]
           sh == {i \in shifted : h[i].tag # 0} \cup {i \in {last} : h[last].tag # 0 /\ T > 0}
<1>1. /\ head' = (last + 1) % HistSize
      /\ hist' = [h EXCEPT ![last].bb = IF Resumes(e, v) THEN 0 ELSE @]
      /\ lastBB' = BlockAfter(e, v)[1] /\ count' = BlockAfter(e, v)[2] /\ merge' = 0
      /\ when' = w /\ shifted' = sh
      /\ headTime' = headTime /\ line' = line /\ now' = now
  BY DEF NotifySquash
<1>2. events' \in 0 .. MaxEvents
  <2>1. events < MaxEvents /\ events' = events + 1
    BY DEF NotifySquash, Counted
  <2>2. events \in 0 .. MaxEvents /\ MaxEvents \in Nat
    BY HistoryAssumption DEF IInv, TypeOK
  <2> QED
    BY <2>1, <2>2
<1>3. /\ TypeOK /\ TimesAdd /\ LearntIsLegal /\ IssuedBefore /\ head \in Slots
      /\ when \in [Slots -> Nat] /\ shifted \subseteq Slots
  BY TypeFacts DEF IInv, TypeOK
<1>4. /\ f \in 1 .. HistSize + 1 /\ (kept <=> f <= HistSize) /\ HistSize \in Nat \ {0, 1}
      /\ \A k \in 1 .. HistSize : k < f => k \in Squashed(id)
  BY FirstKeptIs, SizeType
<1>5. last \in Slots
  <2>1. 1 \in 0 .. HistSize /\ (f <= HistSize => f \in 0 .. HistSize)
    BY <1>4
  <2>2. Back(head, 1) \in Slots /\ (kept => Back(head, f) \in Slots)
    BY <1>3, <1>4, <2>1, BackIs
  <2> QED
    BY <2>2
<1>6. head' \in Slots
  BY <1>1, <1>5, NextSlot
<1>7. ASSUME NEW i \in Slots
      PROVE  /\ h[i] \in HistEntry
             /\ h[i].tag = 0 \/ h[i].tag = hist[i].tag
             /\ h[i].src # 0 => h[i].tag \notin {0, h[i].src}
             /\ h[i].bb # 0 => h[i].tag # 0
             /\ Steps(head, i) \in Squashed(id) => h[i].tag = 0
  <2>1. /\ hist[i].src # 0 => hist[i].tag \notin {0, hist[i].src}
    BY <1>3 DEF LearntIsLegal
  <2> HIDE DEF h
  <2>2. /\ Steps(head, i) \in Squashed(id) => /\ h[i].tag = 0 /\ h[i].src = 0 /\ h[i].bb = 0
        /\ Steps(head, i) \notin Squashed(id) =>
                  /\ h[i].tag = hist[i].tag /\ h[i].src = hist[i].src
                  /\ h[i].bb # 0 => h[i].tag # 0
        /\ h[i] \in HistEntry
    BY <1>3, SquashedSlot DEF h
  <2> QED
    BY <2>1, <2>2
<1>8. h \in [Slots -> HistEntry]
  <2>1. h = [i \in Slots |-> h[i]]
    BY DEF SquashHistTable
  <2> HIDE DEF h
  <2> QED
    BY <1>7, <2>1
<1>9. when' \in [Slots -> Nat] /\ shifted' \subseteq Slots
  <2>1. w \in [Slots -> Nat]
    <3> HIDE DEF h
    <3> QED
      BY <1>3
  <2>2. sh \subseteq Slots
    <3> HIDE DEF h, last, T
    <3> QED
      BY <1>3, <1>5
  <2> QED
    BY <1>1, <2>1, <2>2
<1>10. hist' = [h EXCEPT ![last].bb = b]
  BY <1>1
<1>11. e \in HistEntry /\ e.bb \in 0 .. BbSizeOverflow - 1 /\ (e.bb # 0 => e.tag # 0)
  <2>1. e \in HistEntry /\ (e.bb # 0 => e.tag # 0)
    BY <1>5, <1>7
  <2> HIDE DEF e
  <2> QED
    BY <2>1 DEF HistEntry
<1>12. b \in 0 .. BbSizeOverflow - 1 /\ (b # 0 => b = e.bb)
  <2>1. 0 \in 0 .. BbSizeOverflow - 1
    BY HistoryAssumption
  <2> HIDE DEF e
  <2> QED
    BY <1>11, <2>1
<1>13. ASSUME Resumes(e, v)
       PROVE  e.tag \in Lines /\ e.tag <= v /\ v - e.tag < Gap
  <2> HIDE DEF e
  <2> QED
    BY <1>11, <1>13, ResumesAtALine
<1>14. kept => Adds(h, (last + 1) % HistSize, headTime, w, sh)
  BY <1>3, <1>4, SquashTimes
<1> HIDE DEF h, b, last, e, w, sh, kept, f
<1>15. /\ hist' \in [Slots -> HistEntry]
       /\ \A i \in Slots : hist'[i] = IF i = last THEN [h[i] EXCEPT !.bb = b] ELSE h[i]
  <2>1. \A x \in HistEntry : [x EXCEPT !.bb = b] \in HistEntry
    BY <1>12 DEF HistEntry
  <2> QED
    BY <1>5, <1>8, <1>10, <2>1
<1>16. ASSUME NEW i \in Slots
       PROVE  /\ hist'[i].tag = h[i].tag /\ hist'[i].diff = h[i].diff /\ hist'[i].src = h[i].src
              /\ hist'[i].bb # 0 => hist'[i].bb = h[i].bb
  <2>1. \A x \in HistEntry : /\ [x EXCEPT !.bb = b].tag = x.tag /\ [x EXCEPT !.bb = b].diff = x.diff
                             /\ [x EXCEPT !.bb = b].src = x.src /\ [x EXCEPT !.bb = b].bb = b
    BY DEF HistEntry
  <2>2. h[last] = e
    BY DEF e
  <2>3. h[i] \in HistEntry
    BY <1>7
  <2>4. CASE i = last
    <3>1. hist'[i] = [h[i] EXCEPT !.bb = b]
      BY <1>15, <2>4
    <3> QED
      BY <1>12, <2>1, <2>2, <2>3, <2>4, <3>1
  <2>5. CASE i # last
    BY <1>15, <2>5
  <2> QED
    BY <2>4, <2>5
<1>17. LearntIsLegal'
  BY <1>7, <1>16 DEF LearntIsLegal
<1>18. TimesAdd'
  <2>1. CASE kept
    <3>1. \A i \in Slots : h[i].diff \in Nat
      BY <1>7 DEF HistEntry
    <3>2. Adds(h, head', headTime, w, sh)
      BY <1>1, <1>14, <2>1
    <3>3. Adds(hist', head', headTime, w, sh)
      BY <1>6, <1>16, <3>1, <3>2, AddsFrame
    <3> QED
      BY <1>1, <3>3 DEF TimesAdd
  <2>2. CASE ~kept
    <3>1. \A i \in Slots : hist'[i].tag = 0
      <4> SUFFICES ASSUME NEW i \in Slots
                   PROVE  h[i].tag = 0
        BY <1>16
      <4>1. Steps(head, i) \in 1 .. HistSize
        BY <1>3, StepsBack
      <4>2. Steps(head, i) < f
        BY <1>4, <2>2, <4>1
      <4> QED
        BY <1>4, <1>7, <4>1, <4>2
    <3>2. \A k \in 1 .. HistSize : Back(head', k) \in Slots
      BY <1>6, BackIs
    <3> QED
      BY <3>1, <3>2 DEF TimesAdd, Adds
  <2> QED
    BY <2>1, <2>2
<1>19. CASE Resumes(e, v)
  <2>1. lastBB' = e.tag /\ count' = v - e.tag /\ merge' = 0
    BY <1>1, <1>19 DEF BlockAfter
  <2>2. e.tag \in Nat /\ v \in Nat
    BY <1>13, <1>19, HistoryAssumption
  <2>3. count' \in Nat /\ lastBB' \in Lines \cup {0} /\ merge' \in Nat
    BY <1>13, <1>19, <2>1, <2>2
  <2>4. /\ lastBB' - merge' = e.tag /\ lastBB' + count' = v /\ merge' + count' = v - e.tag
    BY <2>1, <2>2
  <2>5. BlockLegal'
    BY <1>13, <1>19, <2>4 DEF BlockLegal
  <2>6. hist'[last].tag = e.tag
    BY <1>5, <1>16 DEF e
  <2>7. BlockKnown'
    BY <1>5, <2>4, <2>6 DEF BlockKnown
  <2>8. TypeOK'
    BY <1>1, <1>2, <1>3, <1>6, <1>9, <1>15, <2>3 DEF TypeOK
  <2> QED
    BY <1>1, <1>3, <1>17, <1>18, <2>5, <2>7, <2>8 DEF IInv, IssuedBefore
<1>20. CASE ~Resumes(e, v)
  <2>1. lastBB' = 0 /\ count' = 0 /\ merge' = 0
    BY <1>1, <1>20 DEF BlockAfter
  <2>2. NoBlock'
    BY <2>1 DEF NoBlock
  <2>3. TypeOK'
    BY <1>1, <1>2, <1>3, <1>6, <1>9, <1>15, <2>1 DEF TypeOK
  <2> QED
    BY <1>1, <1>3, <1>17, <1>18, <2>2, <2>3 DEF IInv, IssuedBefore, BlockLegal, BlockKnown
<1> QED
  BY <1>19, <1>20

----------------------------------------------------------------------------
(* A fill.                                                                 *)

\* The search for a source returns one of the candidates.
LEMMA PreferredIsOne ==
  ASSUME NEW v, NEW pos, NEW S \in SUBSET Nat, S # {}
  PROVE  Preferred(v, pos, S) \in S
<1> DEFINE as      == {k \in S : FitsAsItIs(hist[Back(pos, k)], v)}
           smaller == {k \in S : Fits(hist[Back(pos, k)], v)}
           unknown == {k \in S : hist[Back(pos, k)].format = 0}
           p       == Preferred(v, pos, S)
<1>1. p = CASE as # {}                     -> Min(as)
            [] as = {} /\ smaller # {}     -> Min(smaller)
            [] as \cup smaller = {} /\ unknown # {} -> Min(unknown)
            [] OTHER                       -> Min(S)
  BY DEF Preferred
<1>2. as \subseteq S /\ smaller \subseteq S /\ unknown \subseteq S
  OBVIOUS
<1> HIDE DEF as, smaller, unknown, p
<1>3. ASSUME NEW X \in SUBSET S, X # {}
      PROVE  Min(X) \in S
  <2>1. X \in SUBSET Nat
    OBVIOUS
  <2> QED
    BY <1>3, <2>1, MinIsMember
<1>4. CASE as # {}
  <2>1. ~(as = {} /\ smaller # {}) /\ ~(as \cup smaller = {} /\ unknown # {})
    BY <1>4
  <2>2. p = Min(as)
    BY <1>1, <1>4, <2>1
  <2> QED
    BY <1>2, <1>3, <1>4, <2>2 DEF p
<1>5. CASE as = {} /\ smaller # {}
  <2>1. ~(as # {}) /\ ~(as \cup smaller = {} /\ unknown # {})
    BY <1>5
  <2>2. p = Min(smaller)
    BY <1>1, <1>5, <2>1
  <2> QED
    BY <1>2, <1>3, <1>5, <2>2 DEF p
<1>6. CASE as = {} /\ smaller = {} /\ unknown # {}
  <2>1. as \cup smaller = {}
    BY <1>6
  <2>2. p = Min(unknown)
    BY <1>1, <1>6, <2>1
  <2> QED
    BY <1>2, <1>3, <1>6, <2>2 DEF p
<1>7. CASE as = {} /\ smaller = {} /\ unknown = {}
  <2>1. p = Min(S)
    BY <1>1, <1>7
  <2>2. Min(S) \in S
    BY <1>3
  <2> QED
    BY <2>1, <2>2 DEF p
<1> QED
  BY <1>4, <1>5, <1>6, <1>7

\* A fill leaves the history alone, or notes in the slot of its line an
\* older one with another line, fetched early enough by the differences.
LEMMA EntangleIs ==
  ASSUME TypeOK, NEW v \in Lines, NEW pos \in Slots, Entangle(v, pos) # hist
  PROVE  LET g == Entangle(v, pos)
         IN  /\ g \in [Slots -> HistEntry]
             /\ hist[pos].tag = v
             /\ \E k \in 1 .. Older(pos) :
                  /\ hist[Back(pos, k)].tag \notin {0, v}
                  /\ Elapsed(hist, pos, k) >= Latency(v)
                  /\ g[pos].src = hist[Back(pos, k)].tag
             /\ \A i \in Slots :
                  /\ g[i].tag = hist[i].tag /\ g[i].diff = hist[i].diff /\ g[i].bb = hist[i].bb
                  /\ i # pos => g[i].src = hist[i].src
<1> DEFINE C    == Timely(v, pos, Latency(v))
           end  == SearchEnd(v, pos, C)
           S    == {k \in C : k <= end}
           k    == Preferred(v, pos, S)
           best == Back(pos, k)
           e    == hist[best]
           g    == Entangle(v, pos)
           x    == NewFormat(e, v)
<1>1. /\ hist[pos].tag = v /\ ~MetBefore(v, pos, end) /\ S # {}
      /\ g = [hist EXCEPT ![best].format = x,
                          ![best].dsts = Min({@ + 1, NumFormats}),
                          ![pos].src = e.tag]
  BY DEF Entangle
<1>2. /\ head \in Slots /\ hist \in [Slots -> HistEntry] /\ HistSize \in Nat \ {0, 1}
  BY TypeFacts, SizeType
<1>3. Older(pos) \in 0 .. HistSize - 1
  BY <1>2, OlderIs
<1>4. C \subseteq 1 .. Older(pos) /\ C \subseteq Nat /\ Older(pos) \in Nat
  <2>1. C \subseteq 1 .. Older(pos)
    BY DEF Timely
  <2> HIDE DEF C
  <2> QED
    BY <1>3, <2>1
<1>5. end \in Nat
  <2> DEFINE D == {j \in C : \/ FitsAsItIs(hist[Back(pos, j)], v)
                             \/ Cardinality({i \in C : i <= j}) = NumSearches}
             X == {Older(pos)} \cup D
  <2>1. end = Min(X)
    BY DEF SearchEnd
  <2> HIDE DEF C
  <2>d. D \subseteq C
    BY Zenon
  <2> HIDE DEF D
  <2>2. X \in SUBSET Nat /\ X # {}
    BY <1>4, <2>d
  <2> HIDE DEF X
  <2>3. Min(X) \in X
    BY <2>2, MinIsMember
  <2> QED
    BY <2>1, <2>2, <2>3
<1>6. k \in S
  <2>1. S \in SUBSET Nat
    <3> HIDE DEF C, end
    <3>1. S \subseteq C
      BY Zenon
    <3> QED
      BY <1>4, <3>1, Zenon
  <2> HIDE DEF S
  <2> QED
    BY <1>1, <2>1, PreferredIsOne
<1>7. k \in C /\ k <= end
  <2> HIDE DEF k
  <2> QED
    BY <1>6
<1>8. k \in 1 .. Older(pos) /\ k \in 0 .. HistSize
  <2> HIDE DEF C, k
  <2>1. k \in 1 .. Older(pos)
    BY <1>4, <1>7
  <2> QED
    BY <1>2, <1>3, <2>1
<1>9. e.tag # 0 /\ Elapsed(hist, pos, k) >= Latency(v)
  <2> HIDE DEF k
  <2> QED
    BY <1>7 DEF Timely
<1>10. e.tag # v
  <2> HIDE DEF k, end
  <2>1. k \in 1 .. end
    BY <1>3, <1>5, <1>7, <1>8
  <2> QED
    BY <1>1, <2>1 DEF MetBefore
<1>11. best \in Slots
  <2> HIDE DEF k
  <2> QED
    BY <1>8, BackIs
<1>12. best # pos
  <2> HIDE DEF k
  <2>1. pos \in 0 .. HistSize - 1 /\ k \in 1 .. HistSize - 1
    BY <1>2, <1>3, <1>8, SizeType
  <2>2. best = IF k <= pos THEN pos - k ELSE pos - k + HistSize
    BY <1>8, BackIs
  <2> QED
    BY <1>2, <2>1, <2>2
<1> HIDE DEF k, best, S, C, end, e
<1>13. e \in HistEntry /\ e.tag \in Lines
  <2>1. e \in HistEntry
    BY <1>2, <1>11 DEF e
  <2>2. e.tag \in Lines \cup {0}
    BY <2>1 DEF HistEntry
  <2> QED
    BY <1>9, <2>1, <2>2
<1>14. x \in 0 .. NumFormats
  <2>1. Format[e.tag, v] \in 1 .. NumFormats
    BY <1>13, HistoryAssumption
  <2>2. e.format \in 0 .. NumFormats
    BY <1>13 DEF HistEntry
  <2>3. 1 .. NumFormats \subseteq 0 .. NumFormats
    BY HistoryAssumption
  <2> QED
    BY <2>1, <2>2, <2>3 DEF NewFormat
<1> DEFINE y == Min({e.dsts + 1, NumFormats})
<1>15. y \in 0 .. NumFormats
  <2>1. e.dsts \in 0 .. NumFormats /\ NumFormats \in Nat
    BY <1>13, HistoryAssumption DEF HistEntry
  <2> DEFINE Z == {e.dsts + 1, NumFormats}
  <2>2. Z \in SUBSET Nat /\ Z # {} /\ NumFormats \in Z
    BY <2>1
  <2> HIDE DEF Z
  <2>3. Min(Z) \in Z /\ Min(Z) <= NumFormats
    BY <2>2, MinIsMember
  <2>4. Min(Z) \in Nat
    BY <2>2, <2>3
  <2>5. Min(Z) \in 0 .. NumFormats
    BY <2>1, <2>3, <2>4
  <2> QED
    BY <2>5 DEF Z
<1> HIDE DEF x, y
<1>16. ASSUME NEW i \in Slots
       PROVE  g[i] = IF i = best THEN [e EXCEPT !.format = x, !.dsts = y]
                     ELSE IF i = pos THEN [hist[i] EXCEPT !.src = e.tag] ELSE hist[i]
  <2> DEFINE h1 == [hist EXCEPT ![best].format = x]
             h2 == [h1 EXCEPT ![best].dsts = Min({@ + 1, NumFormats})]
  <2>1. g = [h2 EXCEPT ![pos].src = e.tag]
    BY <1>1
  <2>2. /\ h1[best] = [e EXCEPT !.format = x] /\ \A j \in Slots : j # best => h1[j] = hist[j]
        /\ DOMAIN h1 = Slots
    BY <1>2, <1>11 DEF e
  <2>3. [e EXCEPT !.format = x].dsts = e.dsts
    BY <1>13 DEF HistEntry
  <2> HIDE DEF h1
  <2>4. /\ h2[best] = [h1[best] EXCEPT !.dsts = Min({h1[best].dsts + 1, NumFormats})]
        /\ \A j \in Slots : j # best => h2[j] = h1[j]
        /\ DOMAIN h2 = Slots
    BY <1>11, <2>2
  <2> HIDE DEF h2
  <2>5. h2[best] = [[e EXCEPT !.format = x] EXCEPT !.dsts = y]
    BY <2>2, <2>3, <2>4 DEF y
  <2>6. \A j \in Slots : g[j] = IF j = pos THEN [h2[j] EXCEPT !.src = e.tag] ELSE h2[j]
    <3> HIDE DEF g
    <3> QED
      BY <2>1, <2>4
  <2> HIDE DEF g
  <2> QED
    BY <1>12, <2>2, <2>4, <2>5, <2>6
<1> HIDE DEF g
<1> DEFINE a == [e EXCEPT !.format = x, !.dsts = y]
           c(r) == [r EXCEPT !.src = e.tag]
<1>17. /\ a \in HistEntry /\ a.tag = e.tag /\ a.diff = e.diff /\ a.bb = e.bb /\ a.src = e.src
  BY <1>13, <1>14, <1>15 DEF HistEntry
<1>18. \A r \in HistEntry : /\ c(r) \in HistEntry /\ c(r).tag = r.tag /\ c(r).diff = r.diff
                            /\ c(r).bb = r.bb /\ c(r).src = e.tag
  BY <1>13 DEF HistEntry
<1> HIDE DEF a, c
<1>19. ASSUME NEW i \in Slots
       PROVE  /\ g[i] \in HistEntry /\ g[i].tag = hist[i].tag /\ g[i].diff = hist[i].diff
              /\ g[i].bb = hist[i].bb /\ (i # pos => g[i].src = hist[i].src)
              /\ i = pos => g[i].src = e.tag
  <2>1. hist[i] \in HistEntry
    BY <1>2
  <2>2. CASE i = best
    BY <1>12, <1>16, <1>17, <2>2 DEF e, a
  <2>3. CASE i = pos
    BY <1>12, <1>16, <1>18, <2>1, <2>3 DEF c
  <2>4. CASE i \notin {best, pos}
    BY <1>16, <2>1, <2>4
  <2> QED
    BY <2>2, <2>3, <2>4
<1>20. g \in [Slots -> HistEntry]
  <2>1. g = [i \in Slots |-> g[i]]
    BY <1>1, <1>2
  <2> QED
    BY <1>19, <2>1
<1> QED
  BY <1>1, <1>8, <1>9, <1>10, <1>19, <1>20 DEF g, e, best

\* notifyFill keeps the invariant.
LEMMA FillKeeps ==
  ASSUME IInv, NEW v \in Lines, NEW stays \in BOOLEAN, NotifyFill(v, stays)
  PROVE  IInv'
<1> DEFINE l == line[v]
           g == Entangle(v, l.pos)
           new == IF stays THEN Cached ELSE Absent
<1>1. /\ hist' = (IF l.accessed /\ l.pos # NoPos /\ Latency(v) # 0 THEN g ELSE hist)
      /\ line' = [line EXCEPT ![v] = new]
      /\ UNCHANGED <<head, headTime, lastBB, count, merge, now, events, when, shifted>>
  BY DEF NotifyFill
<1>2. /\ TypeOK /\ IssuedBefore /\ now \in Nat /\ head \in Slots /\ l \in LineState
      /\ \A i \in Slots : hist[i].diff \in Nat
  BY TypeFacts DEF IInv, TypeOK
<1>3. line' \in [Lines -> LineState] /\ IssuedBefore'
  <2>1. new \in LineState /\ new.issued = 0
    BY <1>2, LineStates
  <2>2. new.issued <= now
    BY <1>2, <2>1
  <2> HIDE DEF new
  <2> QED
    BY <1>1, <1>2, <2>1, <2>2, LineChanged
<1>4. CASE hist' = hist
  BY <1>1, <1>3, <1>4 DEF IInv, TypeOK, BlockKnown, NoBlock, TimesAdd, BlockLegal, LearntIsLegal
<1>5. CASE hist' # hist
  <2>1. hist' = g /\ g # hist /\ l.pos # NoPos
    BY <1>1, <1>5
  <2>2. l.pos \in Slots
    <3>1. l.pos \in 0 .. NoPos
      BY <1>2 DEF LineState
    <3> HIDE DEF l
    <3> QED
      BY <2>1, <3>1, SizeType
  <2>3. /\ g \in [Slots -> HistEntry]
        /\ hist[l.pos].tag = v
        /\ \E k \in 1 .. Older(l.pos) :
             /\ hist[Back(l.pos, k)].tag \notin {0, v}
             /\ g[l.pos].src = hist[Back(l.pos, k)].tag
        /\ \A i \in Slots :
             /\ g[i].tag = hist[i].tag /\ g[i].diff = hist[i].diff /\ g[i].bb = hist[i].bb
             /\ i # l.pos => g[i].src = hist[i].src
    BY <1>2, <2>1, <2>2, EntangleIs
  <2> HIDE DEF g, l
  <2>4. TypeOK'
    BY <1>1, <1>3, <2>1, <2>3 DEF IInv, TypeOK
  <2>5. TimesAdd'
    <3>1. Adds(g, head, headTime, when, shifted)
      BY <1>2, <2>3, AddsFrame DEF IInv, TimesAdd
    <3> QED
      BY <1>1, <2>1, <3>1 DEF TimesAdd
  <2>6. BlockKnown' /\ BlockLegal'
    BY <1>1, <2>1, <2>3 DEF IInv, BlockKnown, BlockLegal, NoBlock
  <2>7. LearntIsLegal'
    <3> SUFFICES ASSUME NEW i \in Slots
                 PROVE  /\ g[i].src # 0 => g[i].tag \notin {0, g[i].src}
                        /\ g[i].bb # 0 => g[i].tag # 0
      BY <2>1 DEF LearntIsLegal
    <3>1. /\ hist[i].src # 0 => hist[i].tag \notin {0, hist[i].src}
          /\ hist[i].bb # 0 => hist[i].tag # 0
      BY DEF IInv, LearntIsLegal
    <3>2. v # 0
      BY HistoryAssumption
    <3> QED
      BY <2>3, <3>1, <3>2
  <2> QED
    BY <1>3, <2>4, <2>5, <2>6, <2>7 DEF IInv
<1> QED
  BY <1>4, <1>5

----------------------------------------------------------------------------
(* Every step.                                                             *)

\* The empty ring satisfies the invariant.
LEMMA InitHolds == Init => IInv
<1> SUFFICES ASSUME Init PROVE IInv
  OBVIOUS
<1> USE DEF Init
<1>1. HistSize \in Nat \ {0, 1} /\ Slots = 0 .. HistSize - 1
  BY SizeType
<1>2. Empty(0) \in HistEntry
  <2>1. 0 \in 0 .. BbSizeOverflow - 1 /\ 0 \in 0 .. NumFormats
    BY HistoryAssumption
  <2> QED
    BY <2>1 DEF Empty, HistEntry
<1>3. Empty(0).tag = 0 /\ Empty(0).src = 0 /\ Empty(0).bb = 0
  BY DEF Empty
<1>4. now \in Nat /\ 0 \in 0 .. MaxTime /\ 0 \in 0 .. MaxEvents
  BY HistoryAssumption
<1>5. Absent \in LineState /\ Absent.issued = 0
  BY <1>4, LineStates
<1>6. TypeOK
  BY <1>1, <1>2, <1>4, <1>5 DEF TypeOK
<1>7. \A i \in Slots : hist[i].tag = 0 /\ hist[i].src = 0 /\ hist[i].bb = 0
  BY <1>3
<1>8. TimesAdd
  <2>1. \A k \in 1 .. HistSize : k \in 0 .. HistSize /\ head \in Slots
    BY <1>1
  <2>2. \A k \in 1 .. HistSize : Back(head, k) \in Slots
    BY <2>1, BackIs
  <2> QED
    BY <1>7, <2>2 DEF TimesAdd, Adds
<1>9. IssuedBefore
  BY <1>5 DEF IssuedBefore
<1>10. BlockKnown /\ BlockLegal
  BY DEF BlockKnown, BlockLegal, NoBlock
<1>11. LearntIsLegal
  BY <1>7 DEF LearntIsLegal
<1> QED
  BY <1>6, <1>8, <1>9, <1>10, <1>11 DEF IInv

\* A step that only changes one line of the tables.
LEMMA LineOnly ==
  ASSUME IInv, NEW v \in Lines, NEW l \in LineState, l.issued <= now,
         line' = [line EXCEPT ![v] = l],
         UNCHANGED <<hist, head, headTime, lastBB, count, merge, now, events, when, shifted>>
  PROVE  IInv'
<1>1. line' \in [Lines -> LineState] /\ IssuedBefore'
  BY LineChanged DEF IInv
<1> QED
  BY <1>1 DEF IInv, TypeOK, BlockKnown, NoBlock, TimesAdd, BlockLegal, LearntIsLegal

\* The invariant is inductive.
LEMMA NextKeeps == IInv /\ [Next]_vars => IInv'
<1> SUFFICES ASSUME IInv, [Next]_vars PROVE IInv'
  OBVIOUS
<1>0. now \in Nat
  BY TypeFacts DEF IInv
<1>1. ASSUME NEW v \in Lines, NEW id \in InstrIds, NEW info \in TableFormats,
             NEW size \in TableSizes, Demand(v, id, info, size)
      PROVE  IInv'
  BY <1>1, DemandKeeps
<1>2. ASSUME NEW v \in Lines, NEW id \in SquashIds, NotifySquash(id, v)
      PROVE  IInv'
  BY <1>2, SquashKeeps
<1>3. ASSUME NEW v \in Lines, Prefetch(v)
      PROVE  IInv'
  <2>1. Requested \in LineState /\ Requested.issued <= now
    BY <1>0, LineStates
  <2> QED
    BY <1>3, <2>1, LineOnly DEF Prefetch
<1>4. ASSUME NEW v \in Lines, NotifyInvalidate(v)
      PROVE  IInv'
  <2>1. Absent \in LineState /\ Absent.issued <= now
    BY <1>0, LineStates
  <2> QED
    BY <1>4, <2>1, LineOnly DEF NotifyInvalidate
<1>5. ASSUME NEW v \in Lines, NEW stays \in BOOLEAN, NotifyFill(v, stays)
      PROVE  IInv'
  BY <1>5, FillKeeps
<1>6. ASSUME Tick
      PROVE  IInv'
  <2>1. now' = now + 1 /\ now' \in 0 .. MaxTime
    BY <1>0, <1>6, HistoryAssumption DEF Tick
  <2>2. headTime' \in 0 .. now'
    BY <1>0, <1>6, <2>1 DEF Tick, IInv, TypeOK
  <2>3. TypeOK'
    BY <1>6, <2>1, <2>2 DEF Tick, IInv, TypeOK
  <2>4. IssuedBefore'
    <3> SUFFICES ASSUME NEW v \in Lines PROVE line[v].issued <= now + 1
      BY <1>6, <2>1 DEF Tick, IssuedBefore
    <3>1. line[v] \in LineState /\ line[v].issued <= now
      BY DEF IInv, TypeOK, IssuedBefore
    <3>2. line[v].issued \in Nat
      BY <3>1 DEF LineState
    <3> QED
      BY <1>0, <3>1, <3>2
  <2>5. TimesAdd' /\ BlockKnown' /\ BlockLegal' /\ LearntIsLegal'
    BY <1>6 DEF Tick, IInv, TimesAdd, BlockKnown, BlockLegal, NoBlock, LearntIsLegal
  <2> QED
    BY <2>3, <2>4, <2>5 DEF IInv
<1>7. ASSUME UNCHANGED vars
      PROVE  IInv'
  BY <1>7 DEF vars, IInv, TypeOK, TimesAdd, IssuedBefore, BlockKnown, BlockLegal, NoBlock,
              LearntIsLegal
<1> QED
  BY <1>1, <1>2, <1>3, <1>4, <1>5, <1>6, <1>7 DEF Next

\* The history's inductive invariant holds, for any ring and any program.
THEOREM HistoryInvariance == Spec => []IInv
  BY InitHolds, NextKeeps, PTL DEF Spec

\* Every entry, counter and line state the prefetcher computes has its type:
\* no sum, remainder or block size leaves its range.
THEOREM HistoryTypeCorrect == Spec => []TypeOK
<1>1. IInv => TypeOK
  BY DEF IInv
<1> QED
  BY <1>1, HistoryInvariance, PTL

\* The assertion of l1i_add_bb_size_hist_table holds in every state: the
\* block that may end next, or the one it was merged with, has a slot.
THEOREM AssertionHolds == Spec => []BlockHeadInHistory
<1>1. IInv => BlockHeadInHistory
  BY KnownIsAsserted DEF IInv, BlockHeadInHistory
<1> QED
  BY <1>1, HistoryInvariance, PTL

\* Insertions, padding, overruns of the ring and squashes keep the sums of
\* the time differences equal to, or after a squash not above, real time.
THEOREM TimeIsKept == Spec => []TimeKept
<1>1. IInv => TimeKept
  BY TimesAddUp DEF IInv
<1> QED
  BY <1>1, HistoryInvariance, PTL

\* What the slots hand to the entangled table is a pair of two different
\* lines and the size of a real block.
THEOREM WhatIsLearntIsLegal == Spec => []LearntIsLegal
<1>1. IInv => LearntIsLegal
  BY DEF IInv
<1> QED
  BY <1>1, HistoryInvariance, PTL

----------------------------------------------------------------------------
(* Entangling in time.                                                     *)

\* What EntangledInTime says of one slot in one step.
InTime(i) ==
  hist'[i].src \notin {0, hist[i].src} =>
    LET v == hist[i].tag
    IN  /\ v # 0 /\ line[v].pos = i
        /\ \E k \in 1 .. Older(i) :
             LET j == Back(i, k)
             IN  /\ hist[j].tag = hist'[i].src
                 /\ i \notin shifted /\ now - line[v].issued < TimeOverflow =>
                      when[i] - when[j] >= now - line[v].issued

\* An access gives no slot a source.
LEMMA DemandLearnsNothing ==
  ASSUME IInv, NEW v \in Lines, NEW id \in InstrIds, NEW info \in TableFormats,
         NEW size \in TableSizes, Demand(v, id, info, size), NEW i \in Slots
  PROVE  hist'[i].src \in {0, hist[i].src}
<1> DEFINE h == EndBlock(size)
           g == AddHistTable(h, v, id, info)
<1>1. CalculatePrefetch(v, line[v].state # "cached", id, info, size)
  BY DEF Demand
<1>2. CASE hist' = hist
  BY <1>2
<1>3. CASE hist' # hist
  <2>1. EndAssert /\ (hist' = g \/ hist' = h)
    BY <1>1, <1>3 DEF CalculatePrefetch
  <2>2. TypeOK
    BY DEF IInv
  <2>3. h \in [Slots -> HistEntry] /\ h[i].src = hist[i].src
    BY <2>1, <2>2, BlockEnds
  <2>4. id \in Nat /\ info \in (0 .. NumFormats) \X (0 .. NumFormats)
    BY HistoryAssumption
  <2>5. Empty(TimeDiffMask).src = 0
    BY DEF Empty
  <2> HIDE DEF h
  <2>6. \/ g[i].src = 0
        \/ g[i] = Empty(TimeDiffMask)
        \/ g[i] = h[i]
    BY <2>2, <2>3, <2>4, InsertedSlot
  <2> HIDE DEF g
  <2> QED
    BY <2>1, <2>3, <2>5, <2>6
<1> QED
  BY <1>2, <1>3

\* Nor does a squash.
LEMMA SquashLearnsNothing ==
  ASSUME IInv, NEW v \in Lines, NEW id \in SquashIds, NotifySquash(id, v), NEW i \in Slots
  PROVE  hist'[i].src \in {0, hist[i].src}
<1> DEFINE h == SquashHistTable(id, v)
           last == IF Squashed(id) # 1 .. HistSize THEN Back(head, FirstKept(id))
                   ELSE Back(head, 1)
           b == IF Resumes(h[last], v) THEN 0 ELSE h[last].bb
<1>1. hist' = [h EXCEPT ![last].bb = b]
  BY DEF NotifySquash
<1>2. TypeOK /\ LearntIsLegal
  BY DEF IInv
<1>3. DOMAIN h = Slots
  BY DEF SquashHistTable
<1> HIDE DEF h
<1>4. h[i] \in HistEntry /\ (h[i].src = 0 \/ h[i].src = hist[i].src)
  BY <1>2, SquashedSlot DEF h
<1> HIDE DEF b, last
<1>5. hist'[i] = IF i = last THEN [h[i] EXCEPT !.bb = b] ELSE h[i]
  BY <1>1, <1>3
<1>6. [h[i] EXCEPT !.bb = b].src = h[i].src
  BY <1>4 DEF HistEntry
<1> QED
  BY <1>4, <1>5, <1>6

\* A fill notes a source that is older than its line by the latency.
LEMMA FillIsInTime ==
  ASSUME IInv, NEW v \in Lines, NEW stays \in BOOLEAN, NotifyFill(v, stays), NEW i \in Slots
  PROVE  InTime(i)
<1> SUFFICES ASSUME hist'[i].src \notin {0, hist[i].src}
             PROVE  LET u == hist[i].tag
                    IN  /\ u # 0 /\ line[u].pos = i
                        /\ \E k \in 1 .. Older(i) :
                             LET j == Back(i, k)
                             IN  /\ hist[j].tag = hist'[i].src
                                 /\ i \notin shifted /\ now - line[u].issued < TimeOverflow =>
                                      when[i] - when[j] >= now - line[u].issued
  BY DEF InTime
<1> DEFINE pos == line[v].pos
           g == Entangle(v, pos)
<1>1. hist' = g /\ g # hist /\ pos # NoPos
  <2>1. hist' # hist
    OBVIOUS
  <2> QED
    BY <2>1 DEF NotifyFill
<1>2. /\ TypeOK /\ TimesAdd /\ now \in Nat /\ line[v] \in LineState /\ line[v].issued <= now
      /\ head \in Slots /\ v # 0
      /\ \A m \in Slots : hist[m].diff \in Nat /\ when[m] \in Nat
  BY TypeFacts, HistoryAssumption DEF IInv, TypeOK, IssuedBefore
<1>3. pos \in 0 .. NoPos /\ line[v].issued \in Nat
  BY <1>2 DEF LineState
<1> HIDE DEF pos
<1>4. pos \in Slots
  BY <1>1, <1>3, SizeType
<1>5. /\ hist[pos].tag = v
      /\ \E k \in 1 .. Older(pos) :
           /\ hist[Back(pos, k)].tag \notin {0, v}
           /\ Elapsed(hist, pos, k) >= Latency(v)
           /\ g[pos].src = hist[Back(pos, k)].tag
      /\ \A m \in Slots : m # pos => g[m].src = hist[m].src
  BY <1>1, <1>2, <1>4, EntangleIs
<1> HIDE DEF g
<1>6. i = pos
  BY <1>1, <1>5
<1>7. PICK k \in 1 .. Older(i) : /\ hist[Back(i, k)].tag # 0
                                 /\ Elapsed(hist, i, k) >= Latency(v)
                                 /\ hist'[i].src = hist[Back(i, k)].tag
  BY <1>1, <1>5, <1>6
<1>8. ASSUME i \notin shifted, now - line[v].issued < TimeOverflow
      PROVE  when[i] - when[Back(i, k)] >= now - line[v].issued
  <2> DEFINE x == now - line[v].issued
  <2>1. x \in Int /\ 0 <= x /\ x < TimeOverflow /\ TimeOverflow \in Nat \ {0}
    BY <1>2, <1>3, <1>8, HistoryAssumption
  <2>2. Latency(v) = x
    <3>1. Latency(v) = x % TimeOverflow
      BY DEF Latency
    <3> HIDE DEF x
    <3>2. x % TimeOverflow = x
      BY <2>1, ModNear
    <3> QED
      BY <3>1, <3>2
  <2>3. TimeKept
    BY <1>2, TimesAddUp
  <2>4. hist[i].tag # 0
    BY <1>2, <1>5, <1>6
  <2>5. Elapsed(hist, i, k) <= when[i] - when[Back(i, k)]
    BY <1>7, <1>8, <2>3, <2>4 DEF TimeKept
  <2>6. Older(i) \in 0 .. HistSize - 1 /\ HistSize \in Nat
    BY <1>2, OlderIs, SizeType
  <2>7. k \in 0 .. HistSize
    BY <2>6
  <2>8. Back(i, k) \in Slots /\ Elapsed(hist, i, k) \in Nat
    BY <1>2, <2>7, BackIs, ElapsedIs
  <2>9. when[i] - when[Back(i, k)] \in Int
    BY <1>2, <2>8
  <2> HIDE DEF x
  <2>10. when[i] - when[Back(i, k)] >= x
    BY <1>7, <2>1, <2>2, <2>5, <2>8, <2>9
  <2> QED
    BY <2>10 DEF x
<1> QED
  BY <1>2, <1>5, <1>6, <1>7, <1>8 DEF pos

\* Only a fill gives a slot a source, the slot is the one its line's first
\* access was noted in, and the source was fetched early enough.
THEOREM SourcesAreInTime == Spec => EntangledInTime
<1>1. ASSUME IInv, Next, NEW i \in Slots
      PROVE  InTime(i)
  <2>1. ASSUME NEW v \in Lines, NEW id \in InstrIds, NEW info \in TableFormats,
               NEW size \in TableSizes, Demand(v, id, info, size)
        PROVE  InTime(i)
    BY <1>1, <2>1, DemandLearnsNothing DEF InTime
  <2>2. ASSUME NEW v \in Lines, NEW id \in SquashIds, NotifySquash(id, v)
        PROVE  InTime(i)
    BY <1>1, <2>2, SquashLearnsNothing DEF InTime
  <2>3. ASSUME NEW v \in Lines, NEW stays \in BOOLEAN, NotifyFill(v, stays)
        PROVE  InTime(i)
    BY <1>1, <2>3, FillIsInTime
  <2>4. ASSUME hist' = hist
        PROVE  InTime(i)
    BY <2>4 DEF InTime
  <2> QED
    BY <1>1, <2>1, <2>2, <2>3, <2>4 DEF Next, Prefetch, NotifyInvalidate, Tick
<1>2. IInv /\ [Next]_vars => [\A i \in Slots : InTime(i)]_vars
  BY <1>1
<1>3. Spec => [][\A i \in Slots : InTime(i)]_vars
  BY <1>2, HistoryInvariance, PTL DEF Spec
<1>4. [\A i \in Slots : InTime(i)]_vars =>
        [\A i \in Slots : hist'[i].src \notin {0, hist[i].src} =>
           LET v == hist[i].tag
           IN  /\ v # 0 /\ line[v].pos = i
               /\ \E k \in 1 .. Older(i) :
                    LET j == Back(i, k)
                    IN  /\ hist[j].tag = hist'[i].src
                        /\ i \notin shifted /\ now - line[v].issued < TimeOverflow =>
                             when[i] - when[j] >= now - line[v].issued]_vars
  BY Zenon DEF InTime
<1> QED
  BY <1>3, <1>4, PTL DEF EntangledInTime

=============================================================================
