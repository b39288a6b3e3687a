-------------------------- MODULE EIPTimingProofs --------------------------
(***************************************************************************)
(* Machine-checked proofs about EIPTiming, for every set of lines, every   *)
(* geometry and every number of MSHRs.                                     *)
(***************************************************************************)
EXTENDS EIPTiming, FiniteSetTheorems, WellFoundedInduction, TLAPS

TMshrTable == [TMshrSlots -> TimingEntry]

TCacheTable == [Sets -> [Ways -> TimingEntry]]

TagStore == [Sets -> [Ways -> Block]]

----------------------------------------------------------------------------
(* What the table operators return.                                        *)

\* A search that scans a table in index order returns one of its matches.
LEMMA FirstIsMember ==
  ASSUME NEW S \in SUBSET Nat, S # {}
  PROVE  First(S) \in S
<1> DEFINE R == OpToRel(<, Nat)
<1>1. \E i \in S : \A j \in S : ~(<<j, i>> \in R)
  BY NatLessThanWellFounded, WFMin
<1>2. \A i, j \in Nat : j < i => <<j, i>> \in R
  BY Zenon DEF OpToRel
<1> HIDE DEF R
<1>3. PICK i \in S : \A j \in S : ~(<<j, i>> \in R)
  BY <1>1
<1>4. \A j \in S : ~(j < i)
  BY <1>2, <1>3
<1>5. \A j \in S : i <= j
  BY <1>4
<1> QED
  BY <1>5 DEF First

\* notifyInvalidate leaves the table alone or clears one entry of the line.
LEMMA NotifyInvalidateEffect ==
  ASSUME NEW tc \in TCacheTable, NEW v \in VLines
  PROVE  \/ CacheMatches(tc, v) = {} /\ NotifyInvalidate(tc, v) = tc
         \/ \E x \in CacheMatches(tc, v) :
              NotifyInvalidate(tc, v) = [tc EXCEPT ![VSet[v]][x] = NoEntry]
<1>1. CacheMatches(tc, v) \in SUBSET Nat
  BY ConstantsAssumption DEF CacheMatches, Ways
<1> QED
  BY <1>1, FirstIsMember DEF NotifyInvalidate, CompletedRequest

\* The table uc is tc with one valid entry for v in a way that was free.
FilledWith(tc, v, uc) ==
  \E x \in FreeTCacheWays(tc, v) : \E e \in TimingEntry :
    /\ e.valid /\ e.tag = v
    /\ uc = [tc EXCEPT ![VSet[v]][x] = e]

\* A fill puts one valid entry for the line into a way that was free.
LEMMA MoveToTCacheEffect ==
  ASSUME NEW tm \in TMshrTable, NEW tc \in TCacheTable, NEW v \in VLines,
         FreeTCacheWays(tc, v) # {}
  PROVE  FilledWith(tc, v, MoveToTCache(tm, tc, v))
<1> DEFINE x == First(FreeTCacheWays(tc, v))
<1> DEFINE i == First(MshrMatches(tm, v))
<1> DEFINE e == IF OngoingRequest(tm, v) THEN tm[i] ELSE Entry(v, NoSource, TRUE)
<1>1. x \in FreeTCacheWays(tc, v)
  <2>1. FreeTCacheWays(tc, v) \in SUBSET Nat
    BY ConstantsAssumption DEF FreeTCacheWays, Ways
  <2> QED
    BY <2>1, FirstIsMember
<1>2. e \in TimingEntry /\ e.valid /\ e.tag = v
  <2>1. MshrMatches(tm, v) \in SUBSET Nat
    BY ConstantsAssumption DEF MshrMatches, TMshrSlots
  <2>2. OngoingRequest(tm, v) => i \in MshrMatches(tm, v)
    BY <2>1, FirstIsMember DEF OngoingRequest
  <2> QED
    BY <2>2 DEF MshrMatches, Entry, TMshrTable, TimingEntry
<1>3. MoveToTCache(tm, tc, v) = [tc EXCEPT ![VSet[v]][x] = e]
  BY DEF MoveToTCache
<1> HIDE DEF x, e
<1> QED
  BY <1>1, <1>2, <1>3 DEF FilledWith

\* A fill takes one entry of the line out of the timing MSHR table, if any.
LEMMA MoveFromTMshrEffect ==
  ASSUME NEW tm \in TMshrTable, NEW v \in VLines
  PROVE  \/ MshrMatches(tm, v) = {} /\ MoveFromTMshr(tm, v) = tm
         \/ \E i \in MshrMatches(tm, v) : MoveFromTMshr(tm, v) = [tm EXCEPT ![i] = NoEntry]
<1>1. MshrMatches(tm, v) \in SUBSET Nat
  BY ConstantsAssumption DEF MshrMatches, TMshrSlots
<1> QED
  BY <1>1, FirstIsMember DEF MoveFromTMshr, OngoingRequest

\* The table um is tm with a fresh entry for v in a slot that was free.
EntryAdded(tm, v, src, um) ==
  /\ MshrMatches(tm, v) = {}
  /\ \E i \in FreeTMshrSlots(tm) : um = [tm EXCEPT ![i] = Entry(v, src, FALSE)]

\* Adding an entry changes nothing when one is found, and fills a free slot
\* otherwise.
LEMMA AddTimingEntryEffect ==
  ASSUME NEW tm \in TMshrTable, NEW tc \in TCacheTable, NEW v \in VLines,
         NEW src \in Sources \cup {NoSource},
         OngoingRequest(tm, v) \/ CompletedRequest(tc, v) \/ FreeTMshrSlots(tm) # {}
  PROVE  \/ AddTimingEntry(tm, tc, v, src) = tm
         \/ EntryAdded(tm, v, src, AddTimingEntry(tm, tc, v, src))
<1>1. FreeTMshrSlots(tm) \in SUBSET Nat
  BY ConstantsAssumption DEF FreeTMshrSlots, TMshrSlots
<1> QED
  BY <1>1, FirstIsMember DEF AddTimingEntry, OngoingRequest, EntryAdded

\* Two tables that differ at most in their accessed bits.
SameTags(tm, um) ==
  \A i \in TMshrSlots : um[i].valid = tm[i].valid /\ um[i].tag = tm[i].tag

SameCacheTags(tc, uc) ==
  \A s \in Sets, w \in Ways : uc[s][w].valid = tc[s][w].valid /\ uc[s][w].tag = tc[s][w].tag

\* Recording an access changes no tag and no valid bit.
LEMMA AccessTMshrEffect ==
  ASSUME NEW tm \in TMshrTable, NEW v \in VLines
  PROVE  AccessTMshr(tm, v) \in TMshrTable /\ SameTags(tm, AccessTMshr(tm, v))
<1> DEFINE i == First(MshrMatches(tm, v))
<1>1. MshrMatches(tm, v) \in SUBSET Nat
  BY ConstantsAssumption DEF MshrMatches, TMshrSlots
<1>2. CASE OngoingRequest(tm, v)
  <2>1. i \in TMshrSlots
    BY <1>1, <1>2, FirstIsMember DEF OngoingRequest, MshrMatches
  <2>2. AccessTMshr(tm, v) = [tm EXCEPT ![i].accessed = TRUE]
    BY <1>2 DEF AccessTMshr
  <2>3. [tm[i] EXCEPT !.accessed = TRUE] \in TimingEntry
    BY <2>1 DEF TMshrTable, TimingEntry
  <2> HIDE DEF i
  <2> QED
    BY <2>1, <2>2, <2>3 DEF TMshrTable, TimingEntry, SameTags
<1>3. CASE ~OngoingRequest(tm, v)
  BY <1>3 DEF AccessTMshr, SameTags
<1> QED
  BY <1>2, <1>3

\* Likewise for the timing cache.
LEMMA AccessTCacheEffect ==
  ASSUME NEW tm \in TMshrTable, NEW tc \in TCacheTable, NEW v \in VLines
  PROVE  /\ AccessTCache(tm, tc, v) \in TCacheTable
         /\ SameCacheTags(tc, AccessTCache(tm, tc, v))
<1> DEFINE x == First(CacheMatches(tc, v))
<1>1. CacheMatches(tc, v) \in SUBSET Nat
  BY ConstantsAssumption DEF CacheMatches, Ways
<1>2. CASE ~OngoingRequest(tm, v) /\ CompletedRequest(tc, v)
  <2>1. x \in Ways /\ VSet[v] \in Sets
    BY <1>1, <1>2, FirstIsMember, ConstantsAssumption DEF CompletedRequest, CacheMatches
  <2>2. AccessTCache(tm, tc, v) = [tc EXCEPT ![VSet[v]][x].accessed = TRUE]
    BY <1>2 DEF AccessTCache
  <2> HIDE DEF x
  <2>3. tc[VSet[v]][x] \in TimingEntry
    BY <2>1 DEF TCacheTable
  <2>4. [tc[VSet[v]][x] EXCEPT !.accessed = TRUE] \in TimingEntry
    BY <2>3 DEF TimingEntry
  <2> QED
    BY <2>1, <2>2, <2>3, <2>4 DEF TCacheTable, TimingEntry, SameCacheTags
<1>3. CASE ~(~OngoingRequest(tm, v) /\ CompletedRequest(tc, v))
  BY <1>3 DEF AccessTCache, SameCacheTags
<1> QED
  BY <1>2, <1>3

----------------------------------------------------------------------------
(* How evictions and fills keep the timing cache and the tag store in step. *)

\* Every valid block sits in its set, under a translation, and in one way.
WellPlaced(bl) ==
  \A s \in Sets, w \in Ways : bl[s][w].valid =>
    /\ <<bl[s][w].vaddr, bl[s][w].paddr>> \in Translations
    /\ PSet[bl[s][w].paddr] = s
    /\ \A x \in Ways : bl[s][x].valid /\ bl[s][x].paddr = bl[s][w].paddr => x = w

\* Without aliases a block's virtual line identifies it, and indexes its set.
LEMMA PlacedByVirtualLine ==
  ASSUME OneToOne, NEW bl \in TagStore, WellPlaced(bl),
         NEW s \in Sets, NEW w \in Ways, bl[s][w].valid
  PROVE  /\ bl[s][w].vaddr \in VLines
         /\ bl[s][w].paddr \in PLines
         /\ VSet[bl[s][w].vaddr] = s
         /\ \A x \in Ways : bl[s][x].valid /\ bl[s][x].vaddr = bl[s][w].vaddr => x = w
<1> DEFINE t == <<bl[s][w].vaddr, bl[s][w].paddr>>
<1>1. t \in Translations /\ PSet[t[2]] = s
  BY DEF WellPlaced
<1>2. t[1] \in VLines /\ t[2] \in PLines /\ VSet[t[1]] = PSet[t[2]]
  BY <1>1, ConstantsAssumption
<1>3. ASSUME NEW x \in Ways, bl[s][x].valid, bl[s][x].vaddr = bl[s][w].vaddr
      PROVE  x = w
  <2> DEFINE u == <<bl[s][x].vaddr, bl[s][x].paddr>>
  <2>1. u \in Translations
    BY <1>3 DEF WellPlaced
  <2>2. t[1] = u[1]
    BY <1>3
  <2>3. t[2] = u[2]
    BY <1>1, <2>1, <2>2 DEF OneToOne
  <2> QED
    BY <1>3, <2>3 DEF WellPlaced
<1> QED
  BY <1>1, <1>2, <1>3

\* Removing a block and reporting its eviction (invalidateBlock) keeps the
\* mirror, and frees a way of the timing cache in the block's set.
LEMMA EvictionKeepsMirror ==
  ASSUME OneToOne, NEW bl \in TagStore, NEW tc \in TCacheTable,
         WellPlaced(bl), Mirrors(tc, bl),
         NEW s \in Sets, NEW w \in Ways, bl[s][w].valid
  PROVE  LET bl2 == [bl EXCEPT ![s][w] = NoBlock]
             tc2 == NotifyInvalidate(tc, bl[s][w].vaddr)
         IN  /\ bl2 \in TagStore /\ tc2 \in TCacheTable
             /\ WellPlaced(bl2) /\ Mirrors(tc2, bl2)
             /\ \E x \in Ways : ~tc2[s][x].valid
<1> DEFINE v == bl[s][w].vaddr
<1> DEFINE bl2 == [bl EXCEPT ![s][w] = NoBlock]
<1> DEFINE tc2 == NotifyInvalidate(tc, v)
<1>1. v \in VLines /\ VSet[v] = s
  BY PlacedByVirtualLine
<1>2. PICK x \in Ways : tc[s][x].valid /\ tc[s][x].tag = v
  BY DEF Mirrors
<1>3. CacheMatches(tc, v) # {}
  BY <1>1, <1>2 DEF CacheMatches
<1>4. PICK y \in CacheMatches(tc, v) : tc2 = [tc EXCEPT ![s][y] = NoEntry]
  <2> HIDE DEF v
  <2>1. \E y \in CacheMatches(tc, v) : NotifyInvalidate(tc, v) = [tc EXCEPT ![VSet[v]][y] = NoEntry]
    BY <1>1, <1>3, NotifyInvalidateEffect
  <2> QED
    BY <1>1, <2>1, Zenon
<1>5. y \in Ways /\ tc[s][y].valid /\ tc[s][y].tag = v
  BY <1>1, <1>4 DEF CacheMatches
<1>6. NoBlock \in Block /\ ~NoBlock.valid /\ NoEntry \in TimingEntry /\ ~NoEntry.valid
  BY DEF NoBlock, Block, NoEntry, TimingEntry
<1>7. bl2 \in TagStore /\ tc2 \in TCacheTable
  <2>1. bl2 \in TagStore
    BY <1>6 DEF TagStore
  <2> HIDE DEF tc2
  <2>2. tc2 \in TCacheTable
    BY <1>4, <1>5, <1>6 DEF TCacheTable
  <2> QED
    BY <2>1, <2>2
<1>8. \A r \in Sets, z \in Ways :
        /\ bl2[r][z] = IF r = s /\ z = w THEN NoBlock ELSE bl[r][z]
        /\ tc2[r][z] = IF r = s /\ z = y THEN NoEntry ELSE tc[r][z]
  BY <1>4, <1>5 DEF TagStore, TCacheTable
<1> HIDE DEF bl2, tc2
<1>9. WellPlaced(bl2)
  BY <1>6, <1>8 DEF WellPlaced
<1>10. Mirrors(tc2, bl2)
  <2> SUFFICES ASSUME NEW r \in Sets
               PROVE  /\ \A z \in Ways : bl2[r][z].valid =>
                           \E q \in Ways : tc2[r][q].valid /\ tc2[r][q].tag = bl2[r][z].vaddr
                      /\ \A q \in Ways : tc2[r][q].valid =>
                           \E z \in Ways : bl2[r][z].valid /\ bl2[r][z].vaddr = tc2[r][q].tag
                      /\ \A q, z \in Ways :
                           tc2[r][q].valid /\ tc2[r][z].valid /\ tc2[r][q].tag = tc2[r][z].tag
                             => q = z
    BY DEF Mirrors
  <2>1. ASSUME NEW z \in Ways, bl2[r][z].valid
        PROVE  \E q \in Ways : tc2[r][q].valid /\ tc2[r][q].tag = bl2[r][z].vaddr
    <3>1. bl[r][z].valid /\ bl2[r][z] = bl[r][z] /\ ~(r = s /\ z = w)
      BY <1>6, <1>8, <2>1
    <3>2. PICK q \in Ways : tc[r][q].valid /\ tc[r][q].tag = bl[r][z].vaddr
      BY <3>1 DEF Mirrors
    <3>3. ~(r = s /\ q = y)
      BY <1>5, <3>1, <3>2, PlacedByVirtualLine
    <3> QED
      BY <1>8, <3>1, <3>2, <3>3
  <2>2. ASSUME NEW q \in Ways, tc2[r][q].valid
        PROVE  \E z \in Ways : bl2[r][z].valid /\ bl2[r][z].vaddr = tc2[r][q].tag
    <3>1. tc[r][q].valid /\ tc2[r][q] = tc[r][q] /\ ~(r = s /\ q = y)
      BY <1>6, <1>8, <2>2
    <3>2. PICK z \in Ways : bl[r][z].valid /\ bl[r][z].vaddr = tc[r][q].tag
      BY <3>1 DEF Mirrors
    <3>3. ~(r = s /\ z = w)
      BY <1>5, <3>1, <3>2 DEF Mirrors
    <3> QED
      BY <1>8, <3>1, <3>2, <3>3
  <2>3. \A q, z \in Ways :
          tc2[r][q].valid /\ tc2[r][z].valid /\ tc2[r][q].tag = tc2[r][z].tag => q = z
    BY <1>6, <1>8 DEF Mirrors
  <2> QED
    BY <2>1, <2>2, <2>3
<1>11. \E z \in Ways : ~tc2[s][z].valid
  BY <1>5, <1>6, <1>8
<1> QED
  BY <1>7, <1>9, <1>10, <1>11 DEF bl2, tc2

\* Inserting a block and reporting its fill keeps the mirror.
LEMMA FillKeepsMirror ==
  ASSUME OneToOne, NEW bl \in TagStore, NEW tc \in TCacheTable, NEW tm \in TMshrTable,
         WellPlaced(bl), Mirrors(tc, bl),
         NEW v \in VLines, NEW p \in PLines, <<v, p>> \in Translations,
         NEW w \in Ways, ~bl[PSet[p]][w].valid,
         \A z \in Ways : bl[PSet[p]][z].valid => bl[PSet[p]][z].paddr # p,
         FreeTCacheWays(tc, v) # {},
         NEW b \in Block, b.valid, b.paddr = p, b.vaddr = v
  PROVE  LET bl2 == [bl EXCEPT ![PSet[p]][w] = b]
             tc2 == MoveToTCache(tm, tc, v)
         IN  /\ bl2 \in TagStore /\ tc2 \in TCacheTable
             /\ WellPlaced(bl2) /\ Mirrors(tc2, bl2)
<1> DEFINE s == PSet[p]
<1> DEFINE bl2 == [bl EXCEPT ![s][w] = b]
<1> DEFINE tc2 == MoveToTCache(tm, tc, v)
<1>1. s \in Sets /\ VSet[v] = s
  BY ConstantsAssumption
<1>2. PICK x \in FreeTCacheWays(tc, v), e \in TimingEntry :
        /\ e.valid /\ e.tag = v
        /\ tc2 = [tc EXCEPT ![VSet[v]][x] = e]
  <2>1. FilledWith(tc, v, tc2)
    BY MoveToTCacheEffect
  <2> QED
    BY <2>1, Zenon DEF FilledWith
<1>3. x \in Ways /\ ~tc[s][x].valid
  BY <1>1, <1>2 DEF FreeTCacheWays
<1> HIDE DEF tc2
<1>4. bl2 \in TagStore /\ tc2 \in TCacheTable
  BY <1>1, <1>2, <1>3 DEF TagStore, TCacheTable
<1>5. \A r \in Sets, z \in Ways :
        /\ bl2[r][z] = IF r = s /\ z = w THEN b ELSE bl[r][z]
        /\ tc2[r][z] = IF r = s /\ z = x THEN e ELSE tc[r][z]
  BY <1>1, <1>2, <1>3 DEF TagStore, TCacheTable
<1>6. \A z \in Ways : bl[s][z].valid => bl[s][z].vaddr # v
  <2> SUFFICES ASSUME NEW z \in Ways, bl[s][z].valid, bl[s][z].vaddr = v
               PROVE  FALSE
    OBVIOUS
  <2> DEFINE t == <<bl[s][z].vaddr, bl[s][z].paddr>>
  <2>1. t \in Translations
    BY <1>1 DEF WellPlaced
  <2>2. t[2] = p
    BY <2>1 DEF OneToOne
  <2> QED
    BY <2>2
<1>7. \A z \in Ways : tc[s][z].valid => tc[s][z].tag # v
  BY <1>1, <1>6 DEF Mirrors
<1> HIDE DEF bl2, tc2, s
<1>8. WellPlaced(bl2)
  <2> SUFFICES ASSUME NEW r \in Sets, NEW z \in Ways, bl2[r][z].valid
               PROVE  /\ <<bl2[r][z].vaddr, bl2[r][z].paddr>> \in Translations
                      /\ PSet[bl2[r][z].paddr] = r
                      /\ \A q \in Ways : bl2[r][q].valid /\ bl2[r][q].paddr = bl2[r][z].paddr
                           => q = z
    BY DEF WellPlaced
  <2>1. CASE r = s /\ z = w
    BY <1>1, <1>5, <2>1 DEF s
  <2>2. CASE ~(r = s /\ z = w)
    BY <1>1, <1>5, <2>2 DEF s, WellPlaced
  <2> QED
    BY <2>1, <2>2
<1>9. Mirrors(tc2, bl2)
  <2> SUFFICES ASSUME NEW r \in Sets
               PROVE  /\ \A z \in Ways : bl2[r][z].valid =>
                           \E q \in Ways : tc2[r][q].valid /\ tc2[r][q].tag = bl2[r][z].vaddr
                      /\ \A q \in Ways : tc2[r][q].valid =>
                           \E z \in Ways : bl2[r][z].valid /\ bl2[r][z].vaddr = tc2[r][q].tag
                      /\ \A q, z \in Ways :
                           tc2[r][q].valid /\ tc2[r][z].valid /\ tc2[r][q].tag = tc2[r][z].tag
                             => q = z
    BY DEF Mirrors
  <2>1. ASSUME NEW z \in Ways, bl2[r][z].valid
        PROVE  \E q \in Ways : tc2[r][q].valid /\ tc2[r][q].tag = bl2[r][z].vaddr
    <3>1. CASE r = s /\ z = w
      BY <1>2, <1>3, <1>5, <3>1
    <3>2. CASE ~(r = s /\ z = w)
      BY <1>2, <1>3, <1>5, <2>1, <3>2 DEF Mirrors
    <3> QED
      BY <3>1, <3>2
  <2>2. ASSUME NEW q \in Ways, tc2[r][q].valid
        PROVE  \E z \in Ways : bl2[r][z].valid /\ bl2[r][z].vaddr = tc2[r][q].tag
    <3>1. CASE r = s /\ q = x
      BY <1>2, <1>5, <3>1
    <3>2. CASE ~(r = s /\ q = x)
      <4>1. PICK z \in Ways : bl[r][z].valid /\ bl[r][z].vaddr = tc[r][q].tag
        BY <1>5, <2>2, <3>2 DEF Mirrors
      <4>2. ~(r = s /\ z = w)
        BY <4>1 DEF s
      <4> QED
        BY <1>5, <3>2, <4>1, <4>2
    <3> QED
      BY <3>1, <3>2
  <2>3. \A q, z \in Ways :
          tc2[r][q].valid /\ tc2[r][z].valid /\ tc2[r][q].tag = tc2[r][z].tag => q = z
    BY <1>2, <1>5, <1>7 DEF Mirrors
  <2> QED
    BY <2>1, <2>2, <2>3
<1> QED
  BY <1>4, <1>8, <1>9 DEF bl2, tc2, s

----------------------------------------------------------------------------
(* The inductive invariant.                                                *)

\* Targets an MSHR for p can hold: accesses through a translation to p.
TargetsOf(p) == {t \in Target : <<t.line, p>> \in Translations}

\* What allocate, allocateTarget and promoteDeferredTargets keep: an MSHR
\* without targets is free, all its targets are for its line, and some are
\* deferred only behind an invalidation.
MshrOK(p, m) ==
  /\ m \in Mshr
  /\ m.targets \in Seq(TargetsOf(p))
  /\ m.deferred \in Seq(TargetsOf(p))
  /\ m.targets = <<>> => m = FreeMshr
  /\ m.deferred # <<>> => m.postInvalidate

MshrSound == \A p \in PLines : MshrOK(p, mshr[p])

MissNotResident ==
  \A s \in Sets, w \in Ways : blocks[s][w].valid => mshr[blocks[s][w].paddr] = FreeMshr

RequestBehindWriteback == \A p \in PLines : mshr[p].inService => p \notin wb

UniqueTags(tm) ==
  \A i, j \in TMshrSlots : tm[i].valid /\ tm[j].valid /\ tm[i].tag = tm[j].tag => i = j

TagsOutstanding ==
  \A i \in TMshrSlots : tmshr[i].valid =>
    \E p \in Outstanding : <<tmshr[i].tag, p>> \in Translations

MshrsBounded == Cardinality(Outstanding) <= NumMshrs

Inv ==
  /\ TypeOK
  /\ WellPlaced(blocks)
  /\ TimingCacheMirrorsL1I
  /\ MshrSound
  /\ MissNotResident
  /\ RequestBehindWriteback
  /\ UniqueTags(tmshr)
  /\ TagsOutstanding
  /\ MshrsBounded

----------------------------------------------------------------------------
(* Steps that several actions share.                                       *)

SameBlockTags(bl, cl) ==
  \A s \in Sets, w \in Ways : /\ cl[s][w].valid = bl[s][w].valid
                              /\ cl[s][w].paddr = bl[s][w].paddr
                              /\ cl[s][w].vaddr = bl[s][w].vaddr

\* Changes of prefetched and accessed bits do not concern the mirror.
LEMMA MirrorIgnoresMarks ==
  ASSUME NEW bl, NEW cl, NEW tc, NEW uc,
         WellPlaced(bl), Mirrors(tc, bl), SameBlockTags(bl, cl), SameCacheTags(tc, uc)
  PROVE  WellPlaced(cl) /\ Mirrors(uc, cl)
<1>1. WellPlaced(cl)
  BY DEF WellPlaced, SameBlockTags
<1>2. Mirrors(uc, cl)
  <2> SUFFICES ASSUME NEW s \in Sets
               PROVE  /\ \A w \in Ways : cl[s][w].valid =>
                           \E x \in Ways : uc[s][x].valid /\ uc[s][x].tag = cl[s][w].vaddr
                      /\ \A x \in Ways : uc[s][x].valid =>
                           \E w \in Ways : cl[s][w].valid /\ cl[s][w].vaddr = uc[s][x].tag
                      /\ \A x, y \in Ways :
                           uc[s][x].valid /\ uc[s][y].valid /\ uc[s][x].tag = uc[s][y].tag
                             => x = y
    BY DEF Mirrors
  <2> QED
    BY DEF Mirrors, SameBlockTags, SameCacheTags
<1> QED
  BY <1>1, <1>2

\* um has unique tags, each already in the same slot of tm or a member of S.
Extends(tm, um, S) ==
  /\ UniqueTags(um)
  /\ \A i \in TMshrSlots : um[i].valid =>
       \/ tm[i].valid /\ um[i].tag = tm[i].tag
       \/ um[i].tag \in S

\* l1i_add_timing_entry loses no entry and adds one for its line only.
LEMMA AddTimingEntryExtends ==
  ASSUME NEW tm \in TMshrTable, NEW tc \in TCacheTable, NEW v \in VLines,
         NEW src \in Sources \cup {NoSource}, UniqueTags(tm),
         OngoingRequest(tm, v) \/ CompletedRequest(tc, v) \/ FreeTMshrSlots(tm) # {}
  PROVE  /\ AddTimingEntry(tm, tc, v, src) \in TMshrTable
         /\ Extends(tm, AddTimingEntry(tm, tc, v, src), {v})
<1> DEFINE um == AddTimingEntry(tm, tc, v, src)
<1>1. CASE um = tm
  BY <1>1 DEF Extends
<1>2. CASE um # tm
  <2>0. EntryAdded(tm, v, src, um)
    BY <1>2, AddTimingEntryEffect
  <2>1. MshrMatches(tm, v) = {}
    BY <2>0 DEF EntryAdded
  <2>2. PICK i \in FreeTMshrSlots(tm) : um = [tm EXCEPT ![i] = Entry(v, src, FALSE)]
    BY <2>0, Zenon DEF EntryAdded
  <2>3. /\ Entry(v, src, FALSE) \in TimingEntry
        /\ Entry(v, src, FALSE).valid /\ Entry(v, src, FALSE).tag = v
    BY DEF Entry, TimingEntry
  <2>4. i \in TMshrSlots
    BY <2>2 DEF FreeTMshrSlots
  <2> HIDE DEF um
  <2>5. /\ um \in TMshrTable
        /\ \A j \in TMshrSlots : um[j] = IF j = i THEN Entry(v, src, FALSE) ELSE tm[j]
    BY <2>2, <2>3, <2>4 DEF TMshrTable
  <2>6. \A j \in TMshrSlots : tm[j].valid => tm[j].tag # v
    BY <2>1 DEF MshrMatches
  <2>7. UniqueTags(um)
    BY <2>3, <2>5, <2>6 DEF UniqueTags
  <2>8. \A j \in TMshrSlots : um[j].valid =>
          (tm[j].valid /\ um[j].tag = tm[j].tag) \/ um[j].tag \in {v}
    BY <2>3, <2>5
  <2> QED
    BY <2>5, <2>7, <2>8 DEF um, Extends
<1> QED
  BY <1>1, <1>2

\* Recording an access loses no timing MSHR entry and adds none.
LEMMA AccessExtends ==
  ASSUME NEW tm \in TMshrTable, NEW um \in TMshrTable, NEW v \in VLines, NEW S,
         Extends(tm, um, S)
  PROVE  /\ AccessTMshr(um, v) \in TMshrTable
         /\ Extends(tm, AccessTMshr(um, v), S)
<1> DEFINE wm == AccessTMshr(um, v)
<1>1. wm \in TMshrTable /\ SameTags(um, wm)
  BY AccessTMshrEffect
<1> HIDE DEF wm
<1>2. UniqueTags(wm)
  BY <1>1 DEF Extends, UniqueTags, SameTags
<1>3. \A i \in TMshrSlots : wm[i].valid =>
        (tm[i].valid /\ wm[i].tag = tm[i].tag) \/ wm[i].tag \in S
  BY <1>1 DEF Extends, SameTags
<1> QED
  BY <1>1, <1>2, <1>3 DEF wm, Extends

\* calculatePrefetch adds at most an entry for the line that missed to the
\* timing MSHR table and changes only accessed bits of the timing cache.
LEMMA CalculatePrefetchEffect ==
  ASSUME TypeOK, UniqueTags(tmshr), NEW v \in VLines, NEW miss \in BOOLEAN,
         CalculatePrefetch(v, miss)
  PROVE  /\ tmshr' \in TMshrTable
         /\ Extends(tmshr, tmshr', IF miss THEN {v} ELSE {})
         /\ tcache' \in TCacheTable
         /\ SameCacheTags(tcache, tcache')
         /\ pfq' \in SUBSET Translations
         /\ cur' \in VLines \cup {NoLine}
<1> DEFINE S == IF miss THEN {v} ELSE {}
<1>0. tmshr \in TMshrTable /\ tcache \in TCacheTable /\ Extends(tmshr, tmshr, S)
  BY DEF TypeOK, TMshrTable, TCacheTable, Extends
<1>1. CASE cur = v
  BY <1>0, <1>1 DEF CalculatePrefetch, SameCacheTags, TypeOK
<1>2. CASE cur # v
  <2> DEFINE timed == IF miss /\ ~OngoingRequest(tmshr, v)
                      THEN AddTimingEntry(tmshr, tcache, v, NoSource)
                      ELSE tmshr
  <2>1. /\ miss => TMshrAssert(v)
        /\ tmshr' = AccessTMshr(timed, v)
        /\ tcache' = AccessTCache(timed, tcache, v)
        /\ cur' = v
        /\ pfq' \in QueueAfterDemand(v)
    BY <1>2 DEF CalculatePrefetch
  <2>2. timed \in TMshrTable /\ Extends(tmshr, timed, S)
    <3>1. CASE miss /\ ~OngoingRequest(tmshr, v)
      BY <1>0, <2>1, <3>1, AddTimingEntryExtends DEF TMshrAssert
    <3>2. CASE ~(miss /\ ~OngoingRequest(tmshr, v))
      BY <1>0, <3>2
    <3> QED
      BY <3>1, <3>2
  <2> HIDE DEF timed, S
  <2>3. tmshr' \in TMshrTable /\ Extends(tmshr, tmshr', S)
    BY <1>0, <2>1, <2>2, AccessExtends
  <2>4. tcache' \in TCacheTable /\ SameCacheTags(tcache, tcache')
    BY <1>0, <2>1, <2>2, AccessTCacheEffect
  <2>5. pfq' \in SUBSET Translations
    BY <2>1 DEF QueueAfterDemand, TypeOK
  <2> QED
    BY <2>1, <2>3, <2>4, <2>5 DEF S
<1> QED
  BY <1>1, <1>2

\* A free MSHR satisfies what is said of every MSHR.
LEMMA FreeMshrOK ==
  ASSUME NEW p \in PLines
  PROVE  FreeMshr \in Mshr /\ MshrOK(p, FreeMshr)
<1>1. <<>> \in Seq(TargetsOf(p)) /\ <<>> \in Seq(Target)
  OBVIOUS
<1>2. FreeMshr \in Mshr
  BY <1>1 DEF FreeMshr, Mshr
<1> QED
  BY <1>1, <1>2 DEF MshrOK, FreeMshr

\* A free MSHR given a list of targets.
LEMMA ReopenedMshr ==
  ASSUME NEW ts \in Seq(Target)
  PROVE  LET m == [FreeMshr EXCEPT !.targets = ts]
         IN  /\ m \in Mshr /\ m.targets = ts /\ m.deferred = <<>>
             /\ ~m.inService /\ ~m.postInvalidate
<1>1. <<>> \in Seq(Target)
  OBVIOUS
<1> QED
  BY <1>1 DEF FreeMshr, Mshr

\* A target joins a free or a busy MSHR of its line.
LEMMA AllocateTargetOK ==
  ASSUME NEW p \in PLines, NEW m, MshrOK(p, m), NEW t \in TargetsOf(p)
  PROVE  /\ MshrOK(p, AllocateTarget(m, t))
         /\ AllocateTarget(m, t) # FreeMshr
         /\ AllocateTarget(m, t).inService = m.inService
<1>1. m \in Mshr /\ t \in Target
  BY DEF MshrOK, TargetsOf
<1>2. CASE m.deferred # <<>> \/ (m.inService /\ m.postInvalidate)
  <2>1. m # FreeMshr
    BY <1>2 DEF FreeMshr
  <2>2. m.targets # <<>>
    BY <2>1 DEF MshrOK
  <2>3. AllocateTarget(m, t) = [m EXCEPT !.deferred = Append(m.deferred, t)]
    BY <1>2 DEF AllocateTarget
  <2>4. /\ Append(m.deferred, t) \in Seq(TargetsOf(p))
        /\ Append(m.deferred, t) \in Seq(Target)
    BY <1>1 DEF MshrOK, Mshr
  <2>0. m.postInvalidate
    BY <1>2 DEF MshrOK
  <2>5. /\ AllocateTarget(m, t) \in Mshr
        /\ AllocateTarget(m, t).targets = m.targets
        /\ AllocateTarget(m, t).deferred = Append(m.deferred, t)
        /\ AllocateTarget(m, t).inService = m.inService
        /\ AllocateTarget(m, t).postInvalidate
    BY <1>1, <2>0, <2>3, <2>4 DEF Mshr
  <2>6. AllocateTarget(m, t) # FreeMshr
    BY <2>2, <2>5 DEF FreeMshr
  <2> QED
    BY <2>2, <2>4, <2>5, <2>6 DEF MshrOK
<1>3. CASE ~(m.deferred # <<>> \/ (m.inService /\ m.postInvalidate))
  <2>1. AllocateTarget(m, t) = [m EXCEPT !.targets = Append(m.targets, t)]
    BY <1>3 DEF AllocateTarget
  <2>2. /\ Append(m.targets, t) \in Seq(TargetsOf(p))
        /\ Append(m.targets, t) \in Seq(Target)
        /\ Append(m.targets, t) # <<>>
    BY <1>1 DEF MshrOK, Mshr
  <2>3. /\ AllocateTarget(m, t) \in Mshr
        /\ AllocateTarget(m, t).targets = Append(m.targets, t)
        /\ AllocateTarget(m, t).deferred = m.deferred
        /\ AllocateTarget(m, t).inService = m.inService
        /\ AllocateTarget(m, t).postInvalidate = m.postInvalidate
    BY <1>1, <2>1, <2>2 DEF Mshr
  <2>4. AllocateTarget(m, t) # FreeMshr
    BY <2>2, <2>3 DEF FreeMshr
  <2> QED
    BY <2>2, <2>3, <2>4 DEF MshrOK
<1> QED
  BY <1>2, <1>3

\* An update of one MSHR keeps the others sound and in the set of
\* outstanding misses.
LEMMA MshrUpdate ==
  ASSUME TypeOK, MshrSound, NEW p \in PLines, NEW m, MshrOK(p, m),
         mshr' = [mshr EXCEPT ![p] = m]
  PROVE  /\ mshr' \in [PLines -> Mshr]
         /\ MshrSound'
         /\ mshr'[p] = m
         /\ \A q \in PLines : q # p => mshr'[q] = mshr[q]
         /\ Outstanding' = IF m = FreeMshr THEN Outstanding \ {p} ELSE Outstanding \cup {p}
<1>1. m \in Mshr /\ mshr \in [PLines -> Mshr]
  BY DEF MshrOK, TypeOK
<1>2. /\ mshr' \in [PLines -> Mshr]
      /\ mshr'[p] = m
      /\ \A q \in PLines : q # p => mshr'[q] = mshr[q]
  BY <1>1
<1>3. MshrSound'
  BY <1>2 DEF MshrSound
<1>4. Outstanding' = IF m = FreeMshr THEN Outstanding \ {p} ELSE Outstanding \cup {p}
  BY <1>2 DEF Outstanding
<1> QED
  BY <1>2, <1>3, <1>4

\* The number of MSHRs in use stays within NumMshrs: only a step taken when
\* one is free opens another.
LEMMA MshrCount ==
  ASSUME MshrsBounded, NEW p \in PLines, NEW N \in SUBSET PLines,
         \/ N \subseteq Outstanding
         \/ N \subseteq Outstanding \cup {p} /\ ~Blocked
  PROVE  Cardinality(N) <= NumMshrs
<1>0. Outstanding \in SUBSET PLines
  BY DEF Outstanding
<1>1. IsFiniteSet(Outstanding)
  BY <1>0, FS_Subset, ConstantsAssumption
<1>2. Cardinality(Outstanding) \in Nat
  BY <1>1, FS_CardinalityType
<1>3. CASE N \subseteq Outstanding
  <2>1. Cardinality(N) \in Nat /\ Cardinality(N) <= Cardinality(Outstanding)
    BY <1>1, <1>3, FS_Subset, FS_CardinalityType
  <2> QED
    BY <1>2, <2>1, ConstantsAssumption DEF MshrsBounded
<1>4. CASE N \subseteq Outstanding \cup {p} /\ ~Blocked
  <2> DEFINE O == Outstanding \cup {p}
  <2>1. IsFiniteSet(O) /\ Cardinality(O) <= Cardinality(Outstanding) + 1
    <3>1. /\ IsFiniteSet(O)
          /\ Cardinality(O) = IF p \in Outstanding THEN Cardinality(Outstanding)
                             ELSE Cardinality(Outstanding) + 1
      BY <1>1, FS_AddElement
    <3> QED
      BY <1>2, <3>1
  <2>2. Cardinality(N) \in Nat /\ Cardinality(O) \in Nat /\ Cardinality(N) <= Cardinality(O)
    BY <1>4, <2>1, FS_Subset, FS_CardinalityType
  <2>3. Cardinality(Outstanding) < NumMshrs
    <3>1. ~(Cardinality(Outstanding) >= NumMshrs)
      BY <1>4, Zenon DEF Blocked
    <3> QED
      BY <1>2, <3>1, ConstantsAssumption
  <2> QED
    BY <1>2, <2>1, <2>2, <2>3, ConstantsAssumption
<1> QED
  BY <1>3, <1>4

\* A resident line is a physical line: its block was filled with it.
LEMMA ResidentLineIsPhysical ==
  ASSUME NEW bl, WellPlaced(bl)
  PROVE  \A s \in Sets, w \in Ways : bl[s][w].valid => bl[s][w].paddr \in PLines
<1> SUFFICES ASSUME NEW s \in Sets, NEW w \in Ways, bl[s][w].valid
             PROVE  bl[s][w].paddr \in PLines
  OBVIOUS
<1>1. <<bl[s][w].vaddr, bl[s][w].paddr>> \in Translations
  BY DEF WellPlaced
<1> QED
  BY <1>1, ConstantsAssumption

\* A line that is not resident is in no block.
LEMMA NotResident ==
  ASSUME WellPlaced(blocks), NEW p \in PLines, ~Resident(p)
  PROVE  \A s \in Sets, w \in Ways : blocks[s][w].valid => blocks[s][w].paddr # p
<1> SUFFICES ASSUME NEW s \in Sets, NEW w \in Ways, blocks[s][w].valid, blocks[s][w].paddr = p
             PROVE  FALSE
  OBVIOUS
<1>1. PSet[p] = s
  BY DEF WellPlaced
<1> QED
  BY <1>1 DEF Resident, WaysHolding

\* New timing entries are for lines with a miss; the others keep theirs.
LEMMA TagsStayOutstanding ==
  ASSUME TagsOutstanding, NEW S, Extends(tmshr, tmshr', S),
         Outstanding \subseteq Outstanding',
         \A v \in S : \E p \in Outstanding' : <<v, p>> \in Translations
  PROVE  UniqueTags(tmshr') /\ TagsOutstanding'
<1>1. UniqueTags(tmshr')
  BY DEF Extends
<1>2. ASSUME NEW i \in TMshrSlots, tmshr'[i].valid
      PROVE  \E p \in Outstanding' : <<tmshr'[i].tag, p>> \in Translations
  BY <1>2 DEF Extends, TagsOutstanding
<1> QED
  BY <1>1, <1>2 DEF TagsOutstanding

----------------------------------------------------------------------------
(* One lemma per action.                                                   *)

\* The empty cache and the empty tables satisfy the invariant.
LEMMA InitInv == Init => Inv
<1> SUFFICES ASSUME Init
             PROVE  Inv
  OBVIOUS
<1>1. NoBlock \in Block /\ ~NoBlock.valid /\ NoEntry \in TimingEntry /\ ~NoEntry.valid
  BY DEF NoBlock, Block, NoEntry, TimingEntry
<1>2. \A p \in PLines : FreeMshr \in Mshr /\ MshrOK(p, FreeMshr)
  BY FreeMshrOK
<1>3. TypeOK
  BY <1>1, <1>2 DEF Init, TypeOK
<1>4. \A s \in Sets, w \in Ways : ~blocks[s][w].valid /\ ~tcache[s][w].valid
  BY <1>1 DEF Init
<1>5. WellPlaced(blocks) /\ TimingCacheMirrorsL1I /\ MissNotResident
  BY <1>4 DEF WellPlaced, TimingCacheMirrorsL1I, Mirrors, MissNotResident
<1>6. MshrSound /\ RequestBehindWriteback
  BY <1>2 DEF Init, MshrSound, RequestBehindWriteback, FreeMshr
<1>7. UniqueTags(tmshr) /\ TagsOutstanding
  BY <1>1 DEF Init, UniqueTags, TagsOutstanding
<1>8. Outstanding = {}
  BY DEF Init, Outstanding
<1>9. MshrsBounded
  BY <1>8, FS_EmptySet, ConstantsAssumption DEF MshrsBounded
<1> QED
  BY <1>3, <1>5, <1>6, <1>7, <1>9 DEF Inv

\* calculatePrefetch for a hit on a prefetched block keeps the invariant.
LEMMA DemandHitInv ==
  ASSUME OneToOne, Inv, NEW t \in Translations, DemandHit(t[1], t[2])
  PROVE  Inv'
<1> DEFINE v == t[1]
<1> DEFINE p == t[2]
<1>0. TypeOK /\ UniqueTags(tmshr)
  BY DEF Inv
<1>1. v \in VLines /\ p \in PLines /\ PSet[p] \in Sets
  BY ConstantsAssumption
<1> HIDE DEF v, p
<1>2. PICK w \in WaysHolding(p) : blocks' = [blocks EXCEPT ![PSet[p]][w].prefetched = FALSE]
  BY DEF DemandHit, v, p
<1>3. CalculatePrefetch(v, FALSE) /\ UNCHANGED <<mshr, wb>>
  BY DEF DemandHit, v, p
<1>4. /\ tmshr' \in TMshrTable
      /\ Extends(tmshr, tmshr', {})
      /\ tcache' \in TCacheTable
      /\ SameCacheTags(tcache, tcache')
      /\ pfq' \in SUBSET Translations
      /\ cur' \in VLines \cup {NoLine}
  BY <1>0, <1>1, <1>3, CalculatePrefetchEffect
<1>5. blocks' \in TagStore /\ SameBlockTags(blocks, blocks')
  <2>1. w \in Ways /\ blocks \in [Sets -> [Ways -> Block]]
    BY <1>0, <1>2 DEF WaysHolding, TypeOK
  <2>2. [blocks[PSet[p]][w] EXCEPT !.prefetched = FALSE] \in Block
    <3>1. blocks[PSet[p]][w] \in Block
      BY <1>1, <2>1
    <3> QED
      BY <3>1 DEF Block
  <2>3. blocks' \in TagStore
    BY <1>1, <1>2, <2>1, <2>2 DEF TagStore
  <2>4. SameBlockTags(blocks, blocks')
    BY <1>1, <1>2, <2>1 DEF SameBlockTags, Block
  <2> QED
    BY <2>3, <2>4
<1>6. TypeOK'
  BY <1>0, <1>3, <1>4, <1>5 DEF TypeOK, TagStore, TMshrTable, TCacheTable
<1>7. WellPlaced(blocks') /\ TimingCacheMirrorsL1I'
  BY <1>4, <1>5, MirrorIgnoresMarks DEF Inv, TimingCacheMirrorsL1I
<1>8. Outstanding' = Outstanding
  BY <1>3 DEF Outstanding
<1>9. UniqueTags(tmshr') /\ TagsOutstanding'
  BY <1>4, <1>8, TagsStayOutstanding DEF Inv
<1>10. MissNotResident'
  BY <1>3, <1>5 DEF Inv, MissNotResident, SameBlockTags
<1>11. MshrSound' /\ RequestBehindWriteback' /\ MshrsBounded'
  BY <1>3, <1>8 DEF Inv, MshrSound, RequestBehindWriteback, MshrsBounded
<1> QED
  BY <1>6, <1>7, <1>9, <1>10, <1>11 DEF Inv

\* calculatePrefetch for a miss keeps the invariant.
LEMMA DemandMissInv ==
  ASSUME OneToOne, Inv, NEW t \in Translations, DemandMiss(t[1], t[2])
  PROVE  Inv'
<1> DEFINE v == t[1]
<1> DEFINE p == t[2]
<1> DEFINE m == AllocateTarget(mshr[p], CpuTarget(v))
<1>0. TypeOK /\ UniqueTags(tmshr) /\ MshrSound /\ WellPlaced(blocks) /\ TagsOutstanding
  BY DEF Inv
<1>1. v \in VLines /\ p \in PLines /\ <<v, p>> \in Translations
  BY ConstantsAssumption
<1> HIDE DEF v, p
<1>2. /\ ~Blocked
      /\ ~Resident(p)
      /\ mshr' = [mshr EXCEPT ![p] = m]
      /\ CalculatePrefetch(v, TRUE)
      /\ UNCHANGED <<blocks, wb>>
  BY DEF DemandMiss, v, p
<1>3. /\ tmshr' \in TMshrTable
      /\ Extends(tmshr, tmshr', {v})
      /\ tcache' \in TCacheTable
      /\ SameCacheTags(tcache, tcache')
      /\ pfq' \in SUBSET Translations
      /\ cur' \in VLines \cup {NoLine}
  BY <1>0, <1>1, <1>2, CalculatePrefetchEffect
<1>4. MshrOK(p, m) /\ m # FreeMshr /\ m.inService = mshr[p].inService
  <2>1. CpuTarget(v) \in TargetsOf(p)
    BY <1>1 DEF CpuTarget, TargetsOf, Target
  <2> QED
    BY <1>0, <1>1, <2>1, AllocateTargetOK DEF MshrSound
<1> HIDE DEF m
<1>5. /\ mshr' \in [PLines -> Mshr]
      /\ MshrSound'
      /\ mshr'[p] = m
      /\ \A q \in PLines : q # p => mshr'[q] = mshr[q]
      /\ Outstanding' = Outstanding \cup {p}
  BY <1>0, <1>1, <1>2, <1>4, MshrUpdate
<1>6. TypeOK'
  BY <1>0, <1>2, <1>3, <1>5 DEF TypeOK, TMshrTable, TCacheTable
<1>7. WellPlaced(blocks') /\ TimingCacheMirrorsL1I'
  <2>1. SameBlockTags(blocks, blocks')
    BY <1>2 DEF SameBlockTags
  <2> QED
    BY <1>3, <2>1, MirrorIgnoresMarks DEF Inv, TimingCacheMirrorsL1I
<1>8. UniqueTags(tmshr') /\ TagsOutstanding'
  BY <1>0, <1>1, <1>3, <1>5, TagsStayOutstanding
<1>9. MissNotResident'
  <2>1. \A s \in Sets, w \in Ways : blocks[s][w].valid =>
          blocks[s][w].paddr # p /\ blocks[s][w].paddr \in PLines
    BY <1>0, <1>1, <1>2, NotResident, ResidentLineIsPhysical
  <2> QED
    BY <1>2, <1>5, <2>1 DEF Inv, MissNotResident
<1>10. RequestBehindWriteback'
  BY <1>1, <1>2, <1>4, <1>5 DEF Inv, RequestBehindWriteback
<1>11. MshrsBounded'
  <2>1. Outstanding' \in SUBSET PLines
    BY DEF Outstanding
  <2> QED
    BY <1>1, <1>2, <1>5, <2>1, MshrCount DEF Inv, MshrsBounded
<1> QED
  BY <1>5, <1>6, <1>7, <1>8, <1>9, <1>10, <1>11 DEF Inv

\* Steps that change neither the tag store nor the tables nor the MSHRs.
LEMMA QuietStepInv ==
  ASSUME Inv, UNCHANGED <<blocks, mshr, tmshr, tcache>>,
         wb' \subseteq wb, pfq' \subseteq pfq, cur' \in VLines \cup {NoLine}
  PROVE  Inv'
<1>1. TypeOK'
  BY DEF Inv, TypeOK
<1>2. WellPlaced(blocks') /\ TimingCacheMirrorsL1I' /\ MissNotResident'
  BY DEF Inv, TimingCacheMirrorsL1I, MissNotResident
<1>3. Outstanding' = Outstanding
  BY DEF Outstanding
<1>4. UniqueTags(tmshr') /\ TagsOutstanding' /\ MshrsBounded'
  BY <1>3 DEF Inv, TagsOutstanding, MshrsBounded
<1>5. MshrSound' /\ RequestBehindWriteback'
  BY DEF Inv, MshrSound, RequestBehindWriteback
<1> QED
  BY <1>1, <1>2, <1>4, <1>5 DEF Inv

\* Issuing or dropping a queued prefetch keeps the invariant.
LEMMA IssuePrefetchInv ==
  ASSUME OneToOne, Inv, NEW t \in Translations, IssuePrefetch(t[1], t[2])
  PROVE  Inv'
<1> DEFINE v == t[1]
<1> DEFINE p == t[2]
<1> DEFINE m == [mshr[p] EXCEPT !.targets = <<PfTarget(v)>>]
<1>0. TypeOK /\ UniqueTags(tmshr) /\ MshrSound /\ WellPlaced(blocks) /\ TagsOutstanding
  BY DEF Inv
<1>1. v \in VLines /\ p \in PLines /\ <<v, p>> \in Translations
  BY ConstantsAssumption
<1> HIDE DEF v, p
<1>2. ~Blocked /\ pfq' \subseteq pfq /\ UNCHANGED <<blocks, wb, tcache, cur>>
  BY DEF IssuePrefetch, Redundant, v, p
<1>3. CASE Resident(p) \/ mshr[p] # FreeMshr \/ p \in wb
  <2>1. UNCHANGED <<mshr, tmshr>>
    BY <1>3 DEF IssuePrefetch, Redundant, v, p
  <2> QED
    BY <1>0, <1>2, <2>1, QuietStepInv DEF TypeOK
<1>4. CASE ~(Resident(p) \/ mshr[p] # FreeMshr \/ p \in wb)
  <2>1. /\ TMshrAssert(v)
        /\ mshr' = [mshr EXCEPT ![p] = m]
        /\ \E src \in Sources \cup {NoSource} :
             tmshr' = AddTimingEntry(tmshr, tcache, v, src)
    BY <1>4 DEF IssuePrefetch, Redundant, v, p
  <2>2. MshrOK(p, m) /\ m # FreeMshr /\ ~m.inService
    <3>1. <<PfTarget(v)>> \in Seq(TargetsOf(p)) /\ <<PfTarget(v)>> \in Seq(Target)
      BY <1>1 DEF PfTarget, TargetsOf, Target
    <3>2. mshr[p] = FreeMshr
      BY <1>4
    <3>3. /\ m \in Mshr /\ m.targets = <<PfTarget(v)>> /\ m.deferred = <<>>
          /\ ~m.inService /\ ~m.postInvalidate
      BY <1>1, <3>1, <3>2, ReopenedMshr
    <3> HIDE DEF m
    <3>4. m.targets # <<>> /\ m # FreeMshr
      BY <3>3 DEF FreeMshr
    <3>5. <<>> \in Seq(TargetsOf(p))
      OBVIOUS
    <3> QED
      BY <3>1, <3>3, <3>4, <3>5 DEF MshrOK
  <2> HIDE DEF m
  <2>3. /\ mshr' \in [PLines -> Mshr]
        /\ MshrSound'
        /\ mshr'[p] = m
        /\ \A q \in PLines : q # p => mshr'[q] = mshr[q]
        /\ Outstanding' = Outstanding \cup {p}
    BY <1>0, <1>1, <2>1, <2>2, MshrUpdate
  <2>4. tmshr' \in TMshrTable /\ Extends(tmshr, tmshr', {v})
    <3>1. tmshr \in TMshrTable /\ tcache \in TCacheTable
      BY <1>0 DEF TypeOK, TMshrTable, TCacheTable
    <3>2. PICK src \in Sources \cup {NoSource} : tmshr' = AddTimingEntry(tmshr, tcache, v, src)
      BY <2>1
    <3>3. OngoingRequest(tmshr, v) \/ CompletedRequest(tcache, v) \/ FreeTMshrSlots(tmshr) # {}
      BY <2>1 DEF TMshrAssert
    <3> QED
      BY <1>0, <1>1, <3>1, <3>2, <3>3, AddTimingEntryExtends
  <2>5. TypeOK'
    BY <1>0, <1>2, <2>3, <2>4 DEF TypeOK, TMshrTable
  <2>6. WellPlaced(blocks') /\ TimingCacheMirrorsL1I'
    BY <1>2 DEF Inv, TimingCacheMirrorsL1I
  <2>7. UniqueTags(tmshr') /\ TagsOutstanding'
    BY <1>0, <1>1, <2>3, <2>4, TagsStayOutstanding
  <2>8. MissNotResident'
    <3>1. \A s \in Sets, w \in Ways : blocks[s][w].valid =>
            blocks[s][w].paddr # p /\ blocks[s][w].paddr \in PLines
      BY <1>0, <1>1, <1>4, NotResident, ResidentLineIsPhysical
    <3> QED
      BY <1>2, <2>3, <3>1 DEF Inv, MissNotResident
  <2>9. RequestBehindWriteback'
    BY <1>2, <2>2, <2>3 DEF Inv, RequestBehindWriteback
  <2>10. MshrsBounded'
    <3>1. Outstanding' \in SUBSET PLines
      BY DEF Outstanding
    <3> QED
      BY <1>1, <1>2, <2>3, <3>1, MshrCount DEF Inv, MshrsBounded
  <2> QED
    BY <2>3, <2>5, <2>6, <2>7, <2>8, <2>9, <2>10 DEF Inv
<1> QED
  BY <1>3, <1>4

\* Sending a miss below keeps the invariant.
LEMMA SendMissInv ==
  ASSUME Inv, NEW p \in PLines, SendMiss(p)
  PROVE  Inv'
<1> DEFINE m == [mshr[p] EXCEPT !.inService = TRUE]
<1>0. TypeOK /\ MshrSound
  BY DEF Inv
<1>1. /\ mshr[p] # FreeMshr /\ p \notin wb
      /\ mshr' = [mshr EXCEPT ![p] = m]
      /\ UNCHANGED <<blocks, wb, pfq, tmshr, tcache, cur>>
  BY DEF SendMiss
<1>2. MshrOK(p, m) /\ m # FreeMshr
  <2>1. MshrOK(p, mshr[p]) /\ mshr[p] \in Mshr
    BY <1>0 DEF MshrSound, MshrOK
  <2>2. /\ m \in Mshr /\ m.targets = mshr[p].targets /\ m.deferred = mshr[p].deferred
        /\ m.postInvalidate = mshr[p].postInvalidate /\ m.inService
    BY <2>1 DEF Mshr
  <2> HIDE DEF m
  <2>3. m # FreeMshr
    BY <2>2 DEF FreeMshr
  <2> QED
    BY <1>1, <2>1, <2>2, <2>3 DEF MshrOK
<1> HIDE DEF m
<1>3. /\ mshr' \in [PLines -> Mshr]
      /\ MshrSound'
      /\ mshr'[p] = m
      /\ \A q \in PLines : q # p => mshr'[q] = mshr[q]
      /\ Outstanding' = Outstanding \cup {p}
  BY <1>0, <1>1, <1>2, MshrUpdate
<1>4. Outstanding' = Outstanding
  BY <1>1, <1>3 DEF Outstanding
<1>5. TypeOK'
  BY <1>0, <1>1, <1>3 DEF TypeOK
<1>6. WellPlaced(blocks') /\ TimingCacheMirrorsL1I'
  BY <1>1 DEF Inv, TimingCacheMirrorsL1I
<1>7. MissNotResident'
  BY <1>1, <1>3, ResidentLineIsPhysical DEF Inv, MissNotResident
<1>8. RequestBehindWriteback'
  BY <1>1, <1>3 DEF Inv, RequestBehindWriteback
<1>9. UniqueTags(tmshr') /\ TagsOutstanding' /\ MshrsBounded'
  BY <1>1, <1>4 DEF Inv, TagsOutstanding, MshrsBounded
<1> QED
  BY <1>3, <1>5, <1>6, <1>7, <1>8, <1>9 DEF Inv

\* An invalidating snoop keeps the invariant.
LEMMA RecvSnoopInvalidateInv ==
  ASSUME OneToOne, Inv, NEW p \in PLines, RecvSnoopInvalidate(p)
  PROVE  Inv'
<1> DEFINE m == [mshr[p] EXCEPT !.postInvalidate = mshr[p].postInvalidate \/ mshr[p].inService]
<1>0. /\ TypeOK /\ MshrSound /\ WellPlaced(blocks) /\ Mirrors(tcache, blocks)
      /\ blocks \in TagStore /\ tcache \in TCacheTable /\ PSet[p] \in Sets
  BY ConstantsAssumption DEF Inv, TypeOK, TimingCacheMirrorsL1I, TagStore, TCacheTable
<1>1. /\ mshr' = [mshr EXCEPT ![p] = m]
      /\ wb' = wb \ {p}
      /\ UNCHANGED <<pfq, tmshr, cur>>
  BY DEF RecvSnoopInvalidate
<1>2. MshrOK(p, m) /\ (mshr[p] = FreeMshr <=> m = FreeMshr) /\ m.inService = mshr[p].inService
  <2>1. MshrOK(p, mshr[p]) /\ mshr[p] \in Mshr
    BY <1>0 DEF MshrSound, MshrOK
  <2>2. /\ m \in Mshr /\ m.targets = mshr[p].targets /\ m.deferred = mshr[p].deferred
        /\ m.postInvalidate = (mshr[p].postInvalidate \/ mshr[p].inService)
        /\ m.inService = mshr[p].inService
    BY <2>1 DEF Mshr
  <2>3. CASE mshr[p] = FreeMshr
    <3>1. m = FreeMshr
      <4>1. /\ FreeMshr \in Mshr /\ FreeMshr.targets = <<>> /\ FreeMshr.deferred = <<>>
            /\ FreeMshr.inService = FALSE /\ FreeMshr.postInvalidate = FALSE
        BY FreeMshrOK DEF FreeMshr
      <4>2. /\ m \in Mshr /\ m.targets = FreeMshr.targets /\ m.deferred = FreeMshr.deferred
            /\ m.inService = FreeMshr.inService /\ m.postInvalidate = FreeMshr.postInvalidate
        BY <2>2, <2>3, <4>1
      <4> HIDE DEF m
      <4> QED
        BY <4>1, <4>2 DEF Mshr
    <3> QED
      BY <2>1, <2>3, <3>1
  <2>4. CASE mshr[p] # FreeMshr
    <3> HIDE DEF m
    <3>1. m.targets # <<>>
      BY <2>1, <2>2, <2>4 DEF MshrOK
    <3>2. m # FreeMshr
      BY <3>1 DEF FreeMshr
    <3> QED
      BY <2>1, <2>2, <2>4, <3>1, <3>2 DEF MshrOK
  <2> QED
    BY <2>3, <2>4
<1> HIDE DEF m
<1>3. /\ mshr' \in [PLines -> Mshr]
      /\ MshrSound'
      /\ mshr'[p] = m
      /\ \A q \in PLines : q # p => mshr'[q] = mshr[q]
  BY <1>0, <1>1, <1>2, MshrUpdate
<1>4. Outstanding' = Outstanding
  BY <1>2, <1>3 DEF Outstanding
<1>5. /\ blocks' \in TagStore /\ tcache' \in TCacheTable
      /\ WellPlaced(blocks') /\ Mirrors(tcache', blocks')
      /\ \A s \in Sets, w \in Ways : blocks'[s][w].valid => blocks'[s][w] = blocks[s][w]
  <2>1. CASE Resident(p)
    <3>1. PICK w \in WaysHolding(p) :
            /\ blocks' = [blocks EXCEPT ![PSet[p]][w] = NoBlock]
            /\ tcache' = NotifyInvalidate(tcache, blocks[PSet[p]][w].vaddr)
      BY <2>1 DEF RecvSnoopInvalidate
    <3>2. w \in Ways /\ blocks[PSet[p]][w].valid
      BY <3>1 DEF WaysHolding
    <3>3. \A s \in Sets, x \in Ways : blocks'[s][x].valid => blocks'[s][x] = blocks[s][x]
      BY <1>0, <3>1, <3>2 DEF TagStore, NoBlock
    <3> QED
      BY <1>0, <3>1, <3>2, <3>3, EvictionKeepsMirror
  <2>2. CASE ~Resident(p)
    <3>1. UNCHANGED <<blocks, tcache>>
      BY <2>2 DEF RecvSnoopInvalidate
    <3> QED
      BY <1>0, <3>1
  <2> QED
    BY <2>1, <2>2
<1>6. TypeOK'
  BY <1>0, <1>1, <1>3, <1>5 DEF TypeOK, TagStore, TCacheTable
<1>7. MissNotResident'
  BY <1>0, <1>2, <1>3, <1>5, ResidentLineIsPhysical DEF Inv, MissNotResident
<1>8. RequestBehindWriteback'
  BY <1>1, <1>2, <1>3 DEF Inv, RequestBehindWriteback
<1>9. UniqueTags(tmshr') /\ TagsOutstanding' /\ MshrsBounded'
  BY <1>1, <1>4 DEF Inv, TagsOutstanding, MshrsBounded
<1> QED
  BY <1>3, <1>5, <1>6, <1>7, <1>8, <1>9 DEF Inv, TimingCacheMirrorsL1I

\* What a response leaves of the tag store and the timing cache: the victim
\* is evicted, the block filled, and taken away again if it was invalidated.
LEMMA ResponseKeepsMirror ==
  ASSUME OneToOne, Inv, NEW p \in PLines, NEW w \in Ways, NEW withInv \in BOOLEAN,
         RecvTimingResp(p, w, withInv)
  PROVE  /\ blocks' \in TagStore /\ tcache' \in TCacheTable
         /\ WellPlaced(blocks') /\ Mirrors(tcache', blocks')
         /\ \A s \in Sets, x \in Ways : blocks'[s][x].valid =>
              \/ blocks'[s][x] = blocks[s][x]
              \/ /\ blocks'[s][x].paddr = p
                 /\ ~withInv /\ ~mshr[p].postInvalidate
         /\ <<Head(mshr[p].targets).line, p>> \in Translations
         /\ Head(mshr[p].targets).line \in VLines
<1> DEFINE s == PSet[p]
<1> DEFINE m == mshr[p]
<1> DEFINE v == Head(m.targets).line
<1> DEFINE victim == blocks[s][w]
<1> DEFINE evicted == IF victim.valid THEN NotifyInvalidate(tcache, victim.vaddr) ELSE tcache
<1> DEFINE filled == MoveToTCache(tmshr, evicted, v)
<1> DEFINE gone == withInv \/ m.postInvalidate
<1> DEFINE b == [valid |-> TRUE, paddr |-> p, vaddr |-> v, prefetched |-> Head(m.targets).pf]
<1> DEFINE bl1 == [blocks EXCEPT ![s][w] = NoBlock]
<1> DEFINE bl2 == [bl1 EXCEPT ![s][w] = b]
<1> DEFINE bl3 == [bl2 EXCEPT ![s][w] = NoBlock]
<1>0. /\ MshrSound /\ WellPlaced(blocks) /\ Mirrors(tcache, blocks) /\ MissNotResident
      /\ blocks \in TagStore /\ tcache \in TCacheTable /\ tmshr \in TMshrTable /\ s \in Sets
  BY ConstantsAssumption DEF Inv, TypeOK, TimingCacheMirrorsL1I, TagStore, TCacheTable, TMshrTable
<1>1. /\ m # FreeMshr
      /\ FreeTCacheWays(evicted, v) # {}
      /\ blocks' = [blocks EXCEPT ![s][w] = IF gone THEN NoBlock ELSE b]
      /\ tcache' = IF gone THEN NotifyInvalidate(filled, v) ELSE filled
  BY DEF RecvTimingResp
<1>2. Head(m.targets) \in TargetsOf(p)
  BY <1>0, <1>1 DEF MshrSound, MshrOK
<1>3. v \in VLines /\ <<v, p>> \in Translations /\ b \in Block
  BY <1>2 DEF TargetsOf, Target, Block
<1>4. /\ NoBlock \in Block /\ ~NoBlock.valid
      /\ b.valid /\ b.paddr = p /\ b.vaddr = v
  BY DEF NoBlock, Block
<1>5. \A x \in Ways : blocks[s][x].valid => blocks[s][x].paddr # p
  BY <1>0, <1>1 DEF MissNotResident
<1> HIDE DEF s, m, v, gone, b
<1>6. /\ bl1 \in TagStore /\ evicted \in TCacheTable
      /\ WellPlaced(bl1) /\ Mirrors(evicted, bl1)
  <2>1. CASE victim.valid
    BY <1>0, <2>1, EvictionKeepsMirror
  <2>2. CASE ~victim.valid
    <3>1. bl1 \in TagStore
      BY <1>0, <1>4 DEF TagStore
    <3>2. \A r \in Sets, x \in Ways :
            bl1[r][x] = IF r = s /\ x = w THEN NoBlock ELSE blocks[r][x]
      BY <1>0 DEF TagStore
    <3>3. ~blocks[s][w].valid
      BY <2>2
    <3> HIDE DEF bl1
    <3>4. WellPlaced(bl1)
      BY <1>0, <1>4, <3>2 DEF WellPlaced
    <3>5. Mirrors(tcache, bl1)
      BY <1>0, <1>4, <3>2, <3>3 DEF Mirrors
    <3> QED
      BY <1>0, <2>2, <3>1, <3>4, <3>5
  <2> QED
    BY <2>1, <2>2
<1>7. \A r \in Sets, x \in Ways : bl1[r][x] = IF r = s /\ x = w THEN NoBlock ELSE blocks[r][x]
  BY <1>0 DEF TagStore
<1> HIDE DEF bl1, evicted
<1>8. /\ bl2 \in TagStore /\ filled \in TCacheTable
      /\ WellPlaced(bl2) /\ Mirrors(filled, bl2)
  <2>1. ~bl1[s][w].valid
    BY <1>0, <1>4, <1>7
  <2>2. \A z \in Ways : bl1[s][z].valid => bl1[s][z].paddr # p
    BY <1>0, <1>4, <1>5, <1>7
  <2> QED
    BY <1>0, <1>1, <1>3, <1>4, <1>6, <2>1, <2>2, FillKeepsMirror DEF s
<1>9. \A r \in Sets, x \in Ways : bl2[r][x] = IF r = s /\ x = w THEN b ELSE blocks[r][x]
  BY <1>0, <1>6, <1>7 DEF TagStore
<1> HIDE DEF bl2, filled
<1>10. CASE gone
  <2>1. bl2[s][w].valid /\ bl2[s][w].vaddr = v
    BY <1>0, <1>4, <1>9
  <2>2. /\ bl3 \in TagStore /\ NotifyInvalidate(filled, v) \in TCacheTable
        /\ WellPlaced(bl3) /\ Mirrors(NotifyInvalidate(filled, v), bl3)
    BY <1>0, <1>8, <2>1, EvictionKeepsMirror
  <2>3. \A r \in Sets, x \in Ways : bl3[r][x] = IF r = s /\ x = w THEN NoBlock ELSE blocks[r][x]
    BY <1>0, <1>8, <1>9 DEF TagStore
  <2> HIDE DEF bl3
  <2>4. bl3 = bl1
    BY <1>6, <1>7, <2>2, <2>3 DEF TagStore
  <2>5. blocks' = bl1
    BY <1>1, <1>10 DEF bl1
  <2>6. \A r \in Sets, x \in Ways : blocks'[r][x].valid => blocks'[r][x] = blocks[r][x]
    BY <1>4, <1>7, <2>5
  <2> QED
    BY <1>1, <1>3, <1>10, <2>2, <2>4, <2>5, <2>6 DEF v, m
<1>11. CASE ~gone
  <2>1. blocks' = bl2
    <3>1. /\ blocks' \in TagStore
          /\ \A r \in Sets, x \in Ways :
               blocks'[r][x] = IF r = s /\ x = w THEN b ELSE blocks[r][x]
      BY <1>0, <1>1, <1>3, <1>11 DEF TagStore
    <3> QED
      BY <1>8, <1>9, <3>1 DEF TagStore
  <2>2. \A r \in Sets, x \in Ways : blocks'[r][x].valid =>
          \/ blocks'[r][x] = blocks[r][x]
          \/ blocks'[r][x].paddr = p /\ ~withInv /\ ~mshr[p].postInvalidate
    BY <1>4, <1>9, <1>11, <2>1 DEF gone, m
  <2> QED
    BY <1>1, <1>3, <1>8, <1>11, <2>1, <2>2 DEF v, m
<1> QED
  BY <1>10, <1>11

\* A response with its fill, eviction and invalidation keeps the invariant.
LEMMA RecvTimingRespInv ==
  ASSUME OneToOne, Inv, NEW p \in PLines, NEW w \in Ways, NEW withInv \in BOOLEAN,
         RecvTimingResp(p, w, withInv)
  PROVE  Inv'
<1> DEFINE s == PSet[p]
<1> DEFINE m == mshr[p]
<1> DEFINE v == Head(m.targets).line
<1> DEFINE victim == blocks[s][w]
<1> DEFINE rest == (IF withInv THEN Tail(m.targets) ELSE <<>>) \o m.deferred
<1> DEFINE m2 == [FreeMshr EXCEPT !.targets = rest]
<1>0. /\ TypeOK /\ MshrSound /\ WellPlaced(blocks) /\ MissNotResident /\ s \in Sets
      /\ MshrOK(p, m) /\ tmshr \in TMshrTable /\ UniqueTags(tmshr) /\ TagsOutstanding
  BY ConstantsAssumption DEF Inv, MshrSound, TypeOK, TMshrTable
<1>1. /\ m # FreeMshr
      /\ wb' = IF victim.valid THEN wb \cup {victim.paddr} ELSE wb
      /\ tmshr' = MoveFromTMshr(tmshr, v)
      /\ mshr' = [mshr EXCEPT ![p] = m2]
      /\ UNCHANGED <<pfq, cur>>
  BY DEF RecvTimingResp, Writeback
<1>2. /\ blocks' \in TagStore /\ tcache' \in TCacheTable
      /\ WellPlaced(blocks') /\ Mirrors(tcache', blocks')
      /\ \A r \in Sets, x \in Ways : blocks'[r][x].valid =>
           \/ blocks'[r][x] = blocks[r][x]
           \/ /\ blocks'[r][x].paddr = p
              /\ ~withInv /\ ~m.postInvalidate
      /\ <<v, p>> \in Translations /\ v \in VLines
  BY ResponseKeepsMirror
<1>3. /\ MshrOK(p, m2) /\ ~m2.inService
      /\ ~withInv /\ ~m.postInvalidate => m2 = FreeMshr
  <2>1. /\ m.targets \in Seq(TargetsOf(p)) /\ m.targets # <<>>
        /\ m.deferred \in Seq(TargetsOf(p))
        /\ m.deferred # <<>> => m.postInvalidate
        /\ m.targets \in Seq(Target) /\ m.deferred \in Seq(Target)
    BY <1>0, <1>1 DEF MshrOK, Mshr
  <2> HIDE DEF m
  <2>2. rest \in Seq(TargetsOf(p))
    BY <2>1
  <2>3. ~withInv /\ ~m.postInvalidate => rest = <<>>
    BY <2>1
  <2>4. rest \in Seq(Target)
    BY <2>1
  <2> HIDE DEF rest
  <2>5. /\ m2 \in Mshr /\ m2.targets = rest /\ m2.deferred = <<>>
        /\ ~m2.inService /\ ~m2.postInvalidate
    BY <2>4, ReopenedMshr
  <2>6. rest = <<>> => m2 = FreeMshr
    BY DEF FreeMshr
  <2>7. <<>> \in Seq(TargetsOf(p))
    OBVIOUS
  <2> HIDE DEF m2
  <2> QED
    BY <2>2, <2>3, <2>5, <2>6, <2>7 DEF MshrOK
<1> HIDE DEF m2, v
<1>4. /\ mshr' \in [PLines -> Mshr]
      /\ MshrSound'
      /\ mshr'[p] = m2
      /\ \A q \in PLines : q # p => mshr'[q] = mshr[q]
      /\ Outstanding' \subseteq Outstanding \cup {p}
  BY <1>0, <1>1, <1>3, MshrUpdate
<1>5. victim.valid => victim.paddr \in PLines /\ ~mshr[victim.paddr].inService
  BY <1>0, ResidentLineIsPhysical DEF MissNotResident, FreeMshr
<1>6. MoveFromTMshr(tmshr, v) \in TMshrTable /\ Extends(tmshr, tmshr', {})
      /\ \A i \in TMshrSlots : tmshr'[i].valid => tmshr'[i].tag # v
  <2>1. CASE MshrMatches(tmshr, v) = {} /\ tmshr' = tmshr
    BY <1>0, <1>1, <2>1 DEF MshrMatches, Extends
  <2>2. CASE \E i \in MshrMatches(tmshr, v) : tmshr' = [tmshr EXCEPT ![i] = NoEntry]
    <3>1. PICK i \in MshrMatches(tmshr, v) : tmshr' = [tmshr EXCEPT ![i] = NoEntry]
      BY <2>2
    <3>2. i \in TMshrSlots /\ tmshr[i].valid /\ tmshr[i].tag = v
      BY <3>1 DEF MshrMatches
    <3>3. NoEntry \in TimingEntry /\ ~NoEntry.valid
      BY DEF NoEntry, TimingEntry
    <3>4. /\ tmshr' \in TMshrTable
          /\ \A j \in TMshrSlots : tmshr'[j] = IF j = i THEN NoEntry ELSE tmshr[j]
      BY <1>0, <3>1, <3>2, <3>3 DEF TMshrTable
    <3>5. UniqueTags(tmshr')
      BY <1>0, <3>3, <3>4 DEF UniqueTags
    <3>6. \A j \in TMshrSlots : tmshr'[j].valid => tmshr'[j].tag # v
      BY <1>0, <3>2, <3>3, <3>4 DEF UniqueTags
    <3>7. \A j \in TMshrSlots : tmshr'[j].valid => tmshr[j].valid /\ tmshr'[j].tag = tmshr[j].tag
      BY <3>3, <3>4
    <3> QED
      BY <1>1, <3>4, <3>5, <3>6, <3>7 DEF Extends
  <2> QED
    BY <1>0, <1>1, <1>2, <2>1, <2>2, MoveFromTMshrEffect
<1>7. TypeOK'
  BY <1>0, <1>1, <1>2, <1>4, <1>5, <1>6 DEF TypeOK, TagStore, TCacheTable, TMshrTable
<1>8. MissNotResident'
  <2> SUFFICES ASSUME NEW r \in Sets, NEW x \in Ways, blocks'[r][x].valid
               PROVE  mshr'[blocks'[r][x].paddr] = FreeMshr
    BY DEF MissNotResident
  <2>1. CASE blocks'[r][x] = blocks[r][x]
    <3>1. blocks[r][x].paddr \in PLines /\ mshr[blocks[r][x].paddr] = FreeMshr
      BY <1>0, <2>1, ResidentLineIsPhysical DEF MissNotResident
    <3> QED
      BY <1>1, <1>4, <2>1, <3>1
  <2>2. CASE blocks'[r][x].paddr = p /\ ~withInv /\ ~m.postInvalidate
    BY <1>3, <1>4, <2>2
  <2> QED
    BY <1>2, <2>1, <2>2
<1>9. RequestBehindWriteback'
  BY <1>1, <1>3, <1>4, <1>5 DEF Inv, RequestBehindWriteback
<1>10. TagsOutstanding'
  <2> SUFFICES ASSUME NEW i \in TMshrSlots, tmshr'[i].valid
               PROVE  \E q \in Outstanding' : <<tmshr'[i].tag, q>> \in Translations
    BY DEF TagsOutstanding
  <2>1. tmshr[i].valid /\ tmshr'[i].tag = tmshr[i].tag /\ tmshr[i].tag # v
    BY <1>6 DEF Extends
  <2>2. PICK q \in Outstanding : <<tmshr[i].tag, q>> \in Translations
    BY <1>0, <2>1 DEF TagsOutstanding
  <2>3. q # p
    BY <1>2, <2>1, <2>2 DEF OneToOne
  <2>4. q \in Outstanding'
    BY <1>4, <2>2, <2>3 DEF Outstanding
  <2> QED
    BY <2>1, <2>2, <2>4
<1>11. MshrsBounded'
  <2>1. p \in Outstanding /\ Outstanding' \in SUBSET PLines
    BY <1>1 DEF Outstanding
  <2> QED
    BY <1>4, <2>1, MshrCount DEF Inv, MshrsBounded
<1> QED
  BY <1>2, <1>4, <1>6, <1>7, <1>8, <1>9, <1>10, <1>11 DEF Inv, TimingCacheMirrorsL1I, Extends

----------------------------------------------------------------------------
(* Theorems.                                                               *)

\* Every step keeps the invariant.
LEMMA NextInv ==
  ASSUME OneToOne, Inv, [Next]_vars
  PROVE  Inv'
<1>1. ASSUME NEW t \in Translations, DemandHit(t[1], t[2])
      PROVE  Inv'
  BY <1>1, DemandHitInv
<1>2. ASSUME NEW t \in Translations, DemandMiss(t[1], t[2])
      PROVE  Inv'
  BY <1>2, DemandMissInv
<1>3. ASSUME NEW t \in Translations, IssuePrefetch(t[1], t[2])
      PROVE  Inv'
  BY <1>3, IssuePrefetchInv
<1>4. ASSUME NEW v \in VLines, NotifySquash(v)
      PROVE  Inv'
  BY <1>4, QuietStepInv DEF NotifySquash
<1>5. ASSUME NEW p \in PLines, SendMiss(p)
      PROVE  Inv'
  BY <1>5, SendMissInv
<1>6. ASSUME NEW p \in PLines, SendWriteback(p)
      PROVE  Inv'
  BY <1>6, QuietStepInv DEF SendWriteback, Inv, TypeOK
<1>7. ASSUME NEW p \in PLines, NEW w \in Ways, NEW withInv \in BOOLEAN,
             RecvTimingResp(p, w, withInv)
      PROVE  Inv'
  BY <1>7, RecvTimingRespInv
<1>8. ASSUME NEW p \in PLines, RecvSnoopInvalidate(p)
      PROVE  Inv'
  BY <1>8, RecvSnoopInvalidateInv
<1>9. CASE UNCHANGED vars
  BY <1>9, QuietStepInv DEF vars, Inv, TypeOK
<1> QED
  BY <1>1, <1>2, <1>3, <1>4, <1>5, <1>6, <1>7, <1>8, <1>9 DEF Next

\* The strengthened invariant holds in every reachable state when no two
\* addresses alias.
THEOREM Invariance == ASSUME OneToOne PROVE Spec => []Inv
<1>1. Init => Inv
  BY InitInv
<1>2. Inv /\ [Next]_vars => Inv'
  BY NextInv
<1> QED
  BY <1>1, <1>2, PTL DEF Spec

\* Every variable keeps its type: no probe leaves a malformed table.
THEOREM TypeCorrect == ASSUME OneToOne PROVE Spec => []TypeOK
<1>1. Inv => TypeOK
  BY DEF Inv
<1> QED
  BY <1>1, Invariance, PTL

\* notifyFill and notifyInvalidate keep the timing cache the exact image of
\* the L1I, whatever misses, prefetches, evictions and snoops interleave.
THEOREM MirrorCorrect == ASSUME OneToOne PROVE Spec => []TimingCacheMirrorsL1I
<1>1. Inv => TimingCacheMirrorsL1I
  BY DEF Inv
<1> QED
  BY <1>1, Invariance, PTL

\* In a state of the invariant a line in the timing cache is a resident one.
LEMMA CompletedIsResident ==
  ASSUME OneToOne, Inv, NEW v \in VLines, NEW p \in PLines, <<v, p>> \in Translations,
         CompletedRequest(tcache, v)
  PROVE  \E w \in Ways : /\ blocks[PSet[p]][w].valid /\ blocks[PSet[p]][w].paddr = p
                         /\ blocks[PSet[p]][w].vaddr = v
<1>1. PSet[p] = VSet[v] /\ PSet[p] \in Sets
  BY ConstantsAssumption
<1>2. PICK x \in Ways : tcache[PSet[p]][x].valid /\ tcache[PSet[p]][x].tag = v
  BY <1>1 DEF CompletedRequest, CacheMatches
<1>3. PICK w \in Ways : blocks[PSet[p]][w].valid /\ blocks[PSet[p]][w].vaddr = v
  BY <1>1, <1>2 DEF Inv, TimingCacheMirrorsL1I, Mirrors
<1> DEFINE u == <<blocks[PSet[p]][w].vaddr, blocks[PSet[p]][w].paddr>>
<1>4. u \in Translations
  BY <1>1, <1>3 DEF Inv, WellPlaced
<1>5. u[2] = p
  BY <1>3, <1>4 DEF OneToOne
<1> QED
  BY <1>3, <1>5

\* A timing MSHR entry belongs to a miss in flight and to one only.
THEOREM TimingMshrCorrect == ASSUME OneToOne PROVE Spec => []TimingMshrBacked
<1>1. ASSUME Inv
      PROVE  TimingMshrBacked
  <2> SUFFICES ASSUME NEW i \in TMshrSlots, tmshr[i].valid
               PROVE  /\ \E p \in Outstanding : <<tmshr[i].tag, p>> \in Translations
                      /\ ~CompletedRequest(tcache, tmshr[i].tag)
                      /\ \A j \in TMshrSlots :
                           tmshr[j].valid /\ tmshr[j].tag = tmshr[i].tag => i = j
    BY DEF TimingMshrBacked
  <2>1. PICK p \in Outstanding : <<tmshr[i].tag, p>> \in Translations
    BY <1>1 DEF Inv, TagsOutstanding
  <2>2. tmshr[i].tag \in VLines /\ p \in PLines /\ mshr[p] # FreeMshr /\ PSet[p] \in Sets
    BY <2>1, ConstantsAssumption DEF Outstanding
  <2>3. ~CompletedRequest(tcache, tmshr[i].tag)
    BY <1>1, <2>1, <2>2, CompletedIsResident DEF Inv, MissNotResident
  <2>4. \A j \in TMshrSlots : tmshr[j].valid /\ tmshr[j].tag = tmshr[i].tag => i = j
    BY <1>1 DEF Inv, UniqueTags
  <2> QED
    BY <2>1, <2>3, <2>4
<1> QED
  BY <1>1, Invariance, PTL

\* handleFill never meets the block it fills, and a request overtakes no
\* writeback of its own line.
THEOREM NoMissForResident == ASSUME OneToOne PROVE Spec => []NoMissForResidentLine
<1>1. ASSUME Inv
      PROVE  NoMissForResidentLine
  <2> SUFFICES ASSUME NEW p \in PLines
               PROVE  /\ Resident(p) => mshr[p] = FreeMshr
                      /\ \A w, x \in WaysHolding(p) : w = x
                      /\ mshr[p].inService => p \notin wb
    BY DEF NoMissForResidentLine
  <2>1. PSet[p] \in Sets
    BY ConstantsAssumption
  <2>2. Resident(p) => mshr[p] = FreeMshr
    BY <1>1, <2>1 DEF Inv, MissNotResident, Resident, WaysHolding
  <2>3. \A w, x \in WaysHolding(p) : w = x
    <3> SUFFICES ASSUME NEW w \in WaysHolding(p), NEW x \in WaysHolding(p)
                 PROVE  w = x
      OBVIOUS
    <3> DEFINE s == PSet[p]
    <3>1. /\ s \in Sets
          /\ w \in Ways /\ blocks[s][w].valid /\ blocks[s][w].paddr = p
          /\ x \in Ways /\ blocks[s][x].valid /\ blocks[s][x].paddr = p
      BY <2>1 DEF WaysHolding
    <3> HIDE DEF s
    <3>2. \A y \in Ways : blocks[s][y].valid /\ blocks[s][y].paddr = blocks[s][w].paddr => y = w
      BY <1>1, <3>1 DEF Inv, WellPlaced
    <3> QED
      BY <3>1, <3>2
  <2>4. mshr[p].inService => p \notin wb
    BY <1>1 DEF Inv, RequestBehindWriteback
  <2> QED
    BY <2>2, <2>3, <2>4
<1> QED
  BY <1>1, Invariance, PTL

\* The assertions of calculatePrefetch on the timing cache cannot fail.
THEOREM AccessAssertions ==
  ASSUME OneToOne
  PROVE  Spec => [](MissNotInTimingCache /\ HitInTimingCache)
<1>1. ASSUME Inv
      PROVE  MissNotInTimingCache
  <2> SUFFICES ASSUME NEW t \in Translations, CompletedRequest(tcache, t[1])
               PROVE  Resident(t[2])
    BY DEF MissNotInTimingCache
  <2>1. t[1] \in VLines /\ t[2] \in PLines /\ <<t[1], t[2]>> \in Translations
    BY ConstantsAssumption
  <2> QED
    BY <1>1, <2>1, CompletedIsResident DEF Resident, WaysHolding
<1>2. ASSUME Inv
      PROVE  HitInTimingCache
  <2> SUFFICES ASSUME NEW t \in Translations, NEW w \in WaysHolding(t[2])
               PROVE  CompletedRequest(tcache, t[1])
    BY DEF HitInTimingCache
  <2> DEFINE s == PSet[t[2]]
  <2>1. /\ t[1] \in VLines /\ t[2] \in PLines /\ s \in Sets /\ VSet[t[1]] = s
        /\ w \in Ways /\ blocks[s][w].valid /\ blocks[s][w].paddr = t[2]
    BY ConstantsAssumption DEF WaysHolding
  <2> HIDE DEF s
  <2> DEFINE u == <<blocks[s][w].vaddr, blocks[s][w].paddr>>
  <2>2. u \in Translations /\ u[2] = t[2]
    BY <1>2, <2>1 DEF Inv, WellPlaced
  <2>3. blocks[s][w].vaddr = t[1]
    BY <2>2 DEF OneToOne
  <2>4. PICK x \in Ways : tcache[s][x].valid /\ tcache[s][x].tag = t[1]
    BY <1>2, <2>1, <2>3 DEF Inv, TimingCacheMirrorsL1I, Mirrors
  <2> QED
    BY <2>1, <2>4 DEF CompletedRequest, CacheMatches
<1> QED
  BY <1>1, <1>2, Invariance, PTL

\* Each timing MSHR entry needs an MSHR of its own, so while one is free and
\* the table has at least as many slots, a slot is free.
LEMMA FreeTMshrSlot ==
  ASSUME OneToOne, Inv, ~Blocked
  PROVE  FreeTMshrSlots(tmshr) # {}
<1> SUFFICES ASSUME FreeTMshrSlots(tmshr) = {}
             PROVE  FALSE
  OBVIOUS
<1>1. \A i \in TMshrSlots : tmshr[i].valid
  BY DEF FreeTMshrSlots
<1> DEFINE f == [i \in TMshrSlots |->
                   CHOOSE p \in Outstanding : <<tmshr[i].tag, p>> \in Translations]
<1>2. \A i \in TMshrSlots : f[i] \in Outstanding /\ <<tmshr[i].tag, f[i]>> \in Translations
  BY <1>1 DEF Inv, TagsOutstanding
<1>3. f \in [TMshrSlots -> Outstanding]
  BY <1>2
<1>4. IsFiniteSet(TMshrSlots) /\ Cardinality(TMshrSlots) = TMshrSize
  BY FS_Interval, ConstantsAssumption DEF TMshrSlots
<1>5. IsFiniteSet(Outstanding) /\ Cardinality(Outstanding) \in Nat
  <2>1. Outstanding \in SUBSET PLines
    BY DEF Outstanding
  <2> QED
    BY <2>1, FS_Subset, FS_CardinalityType, ConstantsAssumption
<1>6. Cardinality(Outstanding) < Cardinality(TMshrSlots)
  <2>1. ~(Cardinality(Outstanding) >= NumMshrs)
    BY Zenon DEF Blocked
  <2> QED
    BY <1>4, <1>5, <2>1, ConstantsAssumption
<1> HIDE DEF f
<1>7. PICK i, j \in TMshrSlots : i # j /\ f[i] = f[j]
  BY <1>3, <1>4, <1>5, <1>6, FS_PigeonHole
<1>8. tmshr[i].tag = tmshr[j].tag
  BY <1>2, <1>7 DEF OneToOne
<1> QED
  BY <1>1, <1>7, <1>8 DEF Inv, UniqueTags

\* The entries of a timing cache set are those of its valid blocks, so an
\* invalid block leaves a way of it free.
LEMMA FreeTCacheWay ==
  ASSUME OneToOne, Inv, NEW s \in Sets, NEW w \in Ways, ~blocks[s][w].valid
  PROVE  \E x \in Ways : ~tcache[s][x].valid
<1> SUFFICES ASSUME \A x \in Ways : tcache[s][x].valid
             PROVE  FALSE
  OBVIOUS
<1> DEFINE f == [x \in Ways |->
                   CHOOSE z \in Ways : blocks[s][z].valid /\ blocks[s][z].vaddr = tcache[s][x].tag]
<1>1. \A x \in Ways : /\ f[x] \in Ways /\ blocks[s][f[x]].valid
                      /\ blocks[s][f[x]].vaddr = tcache[s][x].tag
  BY DEF Inv, TimingCacheMirrorsL1I, Mirrors
<1>2. f \in [Ways -> Ways \ {w}]
  BY <1>1
<1>3. IsFiniteSet(Ways) /\ Cardinality(Ways) = NumWays
  BY FS_Interval, ConstantsAssumption DEF Ways
<1>4. IsFiniteSet(Ways \ {w}) /\ Cardinality(Ways \ {w}) = NumWays - 1
  BY <1>3, FS_RemoveElement
<1>5. Cardinality(Ways \ {w}) < Cardinality(Ways)
  BY <1>3, <1>4, ConstantsAssumption
<1> HIDE DEF f
<1>6. PICK x, y \in Ways : x # y /\ f[x] = f[y]
  BY <1>2, <1>3, <1>4, <1>5, FS_PigeonHole
<1>7. tcache[s][x].tag = tcache[s][y].tag
  BY <1>1, <1>6
<1> QED
  BY <1>6, <1>7 DEF Inv, TimingCacheMirrorsL1I, Mirrors

\* "It must return a free entry": neither assertion of
\* l1i_get_invalid_timing_mshr_entry and of the fill can fail.
THEOREM FreeEntry == ASSUME OneToOne PROVE Spec => []FreeEntryWhenNeeded
<1>1. ASSUME Inv
      PROVE  FreeEntryWhenNeeded
  <2>1. ~Blocked => FreeTMshrSlots(tmshr) # {}
    BY <1>1, FreeTMshrSlot
  <2>2. ASSUME NEW p \in Outstanding, NEW w \in Ways
        PROVE  LET b == blocks[PSet[p]][w]
               IN  FreeTCacheWays(IF b.valid THEN NotifyInvalidate(tcache, b.vaddr) ELSE tcache,
                                  Head(mshr[p].targets).line) # {}
    <3> DEFINE s == PSet[p]
    <3> DEFINE v == Head(mshr[p].targets).line
    <3> DEFINE uc == IF blocks[s][w].valid THEN NotifyInvalidate(tcache, blocks[s][w].vaddr)
                     ELSE tcache
    <3>1. p \in PLines /\ mshr[p] # FreeMshr /\ s \in Sets
      BY ConstantsAssumption DEF Outstanding
    <3>2. Head(mshr[p].targets) \in TargetsOf(p)
      BY <1>1, <3>1 DEF Inv, MshrSound, MshrOK
    <3>3. v \in VLines /\ <<v, p>> \in Translations
      BY <3>2 DEF TargetsOf, Target
    <3> HIDE DEF v
    <3>4. VSet[v] = s
      BY <3>3, ConstantsAssumption
    <3>5. \E x \in Ways : ~uc[s][x].valid
      <4>1. CASE blocks[s][w].valid
        <5>1. /\ blocks \in TagStore /\ tcache \in TCacheTable
              /\ WellPlaced(blocks) /\ Mirrors(tcache, blocks)
          BY <1>1 DEF Inv, TypeOK, TagStore, TCacheTable, TimingCacheMirrorsL1I
        <5> QED
          BY <3>1, <4>1, <5>1, EvictionKeepsMirror
      <4>2. CASE ~blocks[s][w].valid
        BY <1>1, <3>1, <4>2, FreeTCacheWay
      <4> QED
        BY <4>1, <4>2
    <3> HIDE DEF uc
    <3>6. FreeTCacheWays(uc, v) # {}
      BY <3>4, <3>5 DEF FreeTCacheWays
    <3> QED
      BY <3>6 DEF uc, v
  <2> QED
    BY <2>1, <2>2 DEF FreeEntryWhenNeeded
<1> QED
  BY <1>1, Invariance, PTL

============================================================================
