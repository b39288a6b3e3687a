--------------------------- MODULE EIPLinesProofs ---------------------------
(***************************************************************************)
(* EIPTiming implements EIPLines, for every value of the constants: the    *)
(* step simulation, from the inductive invariant of EIPTimingProofs, and   *)
(* what it says about the source an entry carries.                         *)
(***************************************************************************)
EXTENDS EIPTimingProofs

----------------------------------------------------------------------------
(* One slot or one way changes: what happens to the set of entries.        *)

Only(e) == IF e.valid THEN {Info(e)} ELSE {}

\* A tag occurs once in the timing cache, over all its sets.
UniqueCacheTags(tc) ==
  \A s, r \in Sets : \A x, y \in Ways :
    tc[s][x].valid /\ tc[r][y].valid /\ tc[s][x].tag = tc[r][y].tag => s = r /\ x = y

\* Writing slot i replaces the entry it held by the new one.
LEMMA MshrSlotWritten ==
  ASSUME NEW tm \in TMshrTable, UniqueTags(tm), NEW i \in TMshrSlots, NEW e \in TimingEntry,
         NEW um, um = [tm EXCEPT ![i] = e]
  PROVE  MshrEntries(um) = (MshrEntries(tm) \ Only(tm[i])) \cup Only(e)
<1>1. \A j \in TMshrSlots : um[j] = IF j = i THEN e ELSE tm[j]
  BY DEF TMshrTable
<1>2. \A j \in TMshrSlots : j # i /\ tm[j].valid /\ tm[i].valid => Info(tm[j]) # Info(tm[i])
  BY DEF UniqueTags, Info
<1>3. ASSUME NEW f
      PROVE  f \in MshrEntries(um) <=> f \in (MshrEntries(tm) \ Only(tm[i])) \cup Only(e)
  <2>1. f \in MshrEntries(um) <=> \E j \in TMshrSlots : um[j].valid /\ f = Info(um[j])
    BY DEF MshrEntries
  <2>2. f \in MshrEntries(tm) <=> \E j \in TMshrSlots : tm[j].valid /\ f = Info(tm[j])
    BY DEF MshrEntries
  <2> QED
    BY <1>1, <1>2, <2>1, <2>2 DEF Only
<1> QED
  BY <1>3

\* Writing a free slot adds an entry.
LEMMA MshrSlotFilled ==
  ASSUME NEW tm \in TMshrTable, NEW i \in TMshrSlots, ~tm[i].valid,
         NEW e \in TimingEntry, e.valid
  PROVE  MshrEntries([tm EXCEPT ![i] = e]) = MshrEntries(tm) \cup {Info(e)}
<1> DEFINE um == [tm EXCEPT ![i] = e]
<1>1. \A j \in TMshrSlots : um[j] = IF j = i THEN e ELSE tm[j]
  BY DEF TMshrTable
<1> HIDE DEF um
<1>2. ASSUME NEW f
      PROVE  f \in MshrEntries(um) <=> f \in MshrEntries(tm) \cup {Info(e)}
  BY <1>1 DEF MshrEntries
<1> QED
  BY <1>2 DEF um

\* Writing way x of set s replaces the entry it held by the new one.
LEMMA CacheWayWritten ==
  ASSUME NEW tc \in TCacheTable, UniqueCacheTags(tc), NEW s \in Sets, NEW x \in Ways,
         NEW e \in TimingEntry, NEW uc, uc = [tc EXCEPT ![s][x] = e]
  PROVE  CacheEntries(uc) = (CacheEntries(tc) \ Only(tc[s][x])) \cup Only(e)
<1>1. \A r \in Sets, y \in Ways : uc[r][y] = IF r = s /\ y = x THEN e ELSE tc[r][y]
  BY DEF TCacheTable
<1>2. \A r \in Sets, y \in Ways : ~(r = s /\ y = x) /\ tc[r][y].valid /\ tc[s][x].valid
        => Info(tc[r][y]) # Info(tc[s][x])
  BY DEF UniqueCacheTags, Info
<1>3. ASSUME NEW f
      PROVE  f \in CacheEntries(uc) <=> f \in (CacheEntries(tc) \ Only(tc[s][x])) \cup Only(e)
  <2>1. f \in CacheEntries(uc) <=>
          \E r \in Sets, y \in Ways : uc[r][y].valid /\ f = Info(uc[r][y])
    BY DEF CacheEntries
  <2>2. f \in CacheEntries(tc) <=>
          \E r \in Sets, y \in Ways : tc[r][y].valid /\ f = Info(tc[r][y])
    BY DEF CacheEntries
  <2> QED
    BY <1>1, <1>2, <2>1, <2>2 DEF Only
<1> QED
  BY <1>3

\* Marking an entry accessed marks what the mapping sees of it.
LEMMA AccessInfo ==
  ASSUME NEW e \in TimingEntry, NEW f, f = [e EXCEPT !.accessed = TRUE]
  PROVE  /\ f \in TimingEntry /\ f.valid = e.valid /\ f.tag = e.tag
         /\ Info(f) = Lines!Access(Info(e))
<1>1. f = [valid |-> e.valid, tag |-> e.tag, source |-> e.source, accessed |-> TRUE]
  BY DEF TimingEntry
<1>2. f \in TimingEntry /\ f.valid = e.valid /\ f.tag = e.tag
  BY <1>1 DEF TimingEntry
<1>3. Info(f) = [line |-> e.tag, source |-> e.source, accessed |-> TRUE]
  BY <1>1 DEF Info
<1>4. Lines!Access(Info(e)) = [line |-> e.tag, source |-> e.source, accessed |-> TRUE]
  BY DEF Info, Lines!Access, Lines!NewEntry
<1> QED
  BY <1>2, <1>3, <1>4

----------------------------------------------------------------------------
(* What the invariant says of the two sets.                                *)

\* The timing cache has one entry per line, in the line's own set, and a
\* line in one table is not in the other.
LEMMA OneEntryPerLine ==
  ASSUME OneToOne, Inv
  PROVE  /\ tmshr \in TMshrTable /\ tcache \in TCacheTable
         /\ UniqueTags(tmshr) /\ UniqueCacheTags(tcache)
         /\ \A s \in Sets, x \in Ways : tcache[s][x].valid =>
              tcache[s][x].tag \in VLines /\ VSet[tcache[s][x].tag] = s
         /\ \A i \in TMshrSlots : tmshr[i].valid =>
              tmshr[i].tag \in VLines /\ ~CompletedRequest(tcache, tmshr[i].tag)
<1>1. /\ tmshr \in TMshrTable /\ tcache \in TCacheTable /\ UniqueTags(tmshr)
      /\ blocks \in TagStore /\ WellPlaced(blocks) /\ Mirrors(tcache, blocks)
      /\ TagsOutstanding /\ MissNotResident
  BY DEF Inv, TypeOK, TMshrTable, TCacheTable, TagStore, TimingCacheMirrorsL1I
<1>2. ASSUME NEW s \in Sets, NEW x \in Ways, tcache[s][x].valid
      PROVE  tcache[s][x].tag \in VLines /\ VSet[tcache[s][x].tag] = s
  <2>1. PICK w \in Ways : blocks[s][w].valid /\ blocks[s][w].vaddr = tcache[s][x].tag
    BY <1>1, <1>2 DEF Mirrors
  <2> QED
    BY <1>1, <2>1, PlacedByVirtualLine
<1>3. UniqueCacheTags(tcache)
  <2> SUFFICES ASSUME NEW s \in Sets, NEW r \in Sets, NEW x \in Ways, NEW y \in Ways,
                      tcache[s][x].valid, tcache[r][y].valid,
                      tcache[s][x].tag = tcache[r][y].tag
               PROVE  s = r /\ x = y
    BY DEF UniqueCacheTags
  <2>1. s = r
    BY <1>2
  <2> QED
    BY <1>1, <2>1 DEF Mirrors
<1>4. ASSUME NEW i \in TMshrSlots, tmshr[i].valid
      PROVE  tmshr[i].tag \in VLines /\ ~CompletedRequest(tcache, tmshr[i].tag)
  <2>1. PICK p \in Outstanding : <<tmshr[i].tag, p>> \in Translations
    BY <1>1, <1>4 DEF TagsOutstanding
  <2>2. tmshr[i].tag \in VLines /\ p \in PLines /\ mshr[p] # FreeMshr /\ PSet[p] \in Sets
    BY <2>1, ConstantsAssumption DEF Outstanding
  <2> QED
    BY <1>1, <2>1, <2>2, CompletedIsResident DEF MissNotResident
<1> QED
  BY <1>1, <1>2, <1>3, <1>4

\* A line without a match in either table has no entry.
LEMMA NoMatchNoEntry ==
  ASSUME OneToOne, Inv, NEW v \in VLines,
         MshrMatches(tmshr, v) = {}, CacheMatches(tcache, v) = {}
  PROVE  Lines!Unknown(v)
<1>1. \A f \in MshrEntries(tmshr) : f.line # v
  BY DEF MshrEntries, Info, MshrMatches
<1>2. ASSUME NEW f \in CacheEntries(tcache)
      PROVE  f.line # v
  <2>1. PICK s \in Sets, x \in Ways : tcache[s][x].valid /\ f = Info(tcache[s][x])
    BY DEF CacheEntries
  <2>2. VSet[tcache[s][x].tag] = s
    BY <2>1, OneEntryPerLine
  <2> QED
    BY <2>1, <2>2 DEF Info, CacheMatches
<1> QED
  BY <1>1, <1>2 DEF Lines!Unknown

\* An access to a line on its way marks its entry.
LEMMA AccessRequested ==
  ASSUME OneToOne, Inv, NEW v \in VLines, OngoingRequest(tmshr, v),
         tmshr' = AccessTMshr(tmshr, v), UNCHANGED tcache
  PROVE  Lines!Next
<1> DEFINE i == First(MshrMatches(tmshr, v))
<1>1. i \in TMshrSlots /\ tmshr[i].valid
  <2>1. MshrMatches(tmshr, v) \in SUBSET Nat
    BY ConstantsAssumption DEF MshrMatches, TMshrSlots
  <2> QED
    BY <2>1, FirstIsMember DEF OngoingRequest, MshrMatches
<1> DEFINE e == [tmshr[i] EXCEPT !.accessed = TRUE]
<1>2. tmshr \in TMshrTable /\ UniqueTags(tmshr)
  BY OneEntryPerLine
<1>3. e \in TimingEntry /\ e.valid /\ Info(e) = Lines!Access(Info(tmshr[i]))
  BY <1>1, <1>2, AccessInfo DEF TMshrTable
<1>4. tmshr' = [tmshr EXCEPT ![i] = e]
  BY <1>1, <1>2 DEF AccessTMshr, TMshrTable
<1> HIDE DEF i, e
<1>5. MshrEntries(tmshr') = (MshrEntries(tmshr) \ Only(tmshr[i])) \cup Only(e)
  <2> DEFINE um == [tmshr EXCEPT ![i] = e]
  <2>1. MshrEntries(um) = (MshrEntries(tmshr) \ Only(tmshr[i])) \cup Only(e)
    BY <1>1, <1>2, <1>3, MshrSlotWritten
  <2> QED
    BY <1>4, <2>1
<1>6. Info(tmshr[i]) \in MshrEntries(tmshr)
  BY <1>1 DEF MshrEntries
<1>7. Lines!DemandRequested(Info(tmshr[i]))
  BY <1>1, <1>3, <1>5, <1>6 DEF Only, Lines!DemandRequested, Lines!Replaced
<1> QED
  BY <1>6, <1>7 DEF Lines!Next

\* An access to a line in the cache marks its entry.
LEMMA AccessCached ==
  ASSUME OneToOne, Inv, NEW v \in VLines, ~OngoingRequest(tmshr, v),
         CompletedRequest(tcache, v),
         tcache' = AccessTCache(tmshr, tcache, v), UNCHANGED tmshr
  PROVE  Lines!Next
<1> DEFINE s == VSet[v]
<1> DEFINE x == First(CacheMatches(tcache, v))
<1>1. s \in Sets /\ x \in Ways /\ tcache[s][x].valid
  <2>1. CacheMatches(tcache, v) \in SUBSET Nat
    BY ConstantsAssumption DEF CacheMatches, Ways
  <2> QED
    BY <2>1, FirstIsMember, ConstantsAssumption DEF CompletedRequest, CacheMatches
<1> DEFINE e == [tcache[s][x] EXCEPT !.accessed = TRUE]
<1>2. tcache \in TCacheTable /\ UniqueCacheTags(tcache)
  BY OneEntryPerLine
<1>3. e \in TimingEntry /\ e.valid /\ Info(e) = Lines!Access(Info(tcache[s][x]))
  BY <1>1, <1>2, AccessInfo DEF TCacheTable
<1>4. tcache' = [tcache EXCEPT ![s][x] = e]
  BY <1>1, <1>2 DEF AccessTCache, TCacheTable
<1> HIDE DEF s, x, e
<1>5. CacheEntries(tcache') = (CacheEntries(tcache) \ Only(tcache[s][x])) \cup Only(e)
  <2> DEFINE uc == [tcache EXCEPT ![s][x] = e]
  <2>1. CacheEntries(uc) = (CacheEntries(tcache) \ Only(tcache[s][x])) \cup Only(e)
    BY <1>1, <1>2, <1>3, CacheWayWritten
  <2> QED
    BY <1>4, <2>1
<1>6. Info(tcache[s][x]) \in CacheEntries(tcache)
  BY <1>1 DEF CacheEntries
<1>7. Lines!DemandCached(Info(tcache[s][x]))
  BY <1>1, <1>3, <1>5, <1>6 DEF Only, Lines!DemandCached, Lines!Replaced
<1> QED
  BY <1>6, <1>7 DEF Lines!Next

\* A slot that was free takes the entry of a line without one.
LEMMA RequestAdded ==
  ASSUME OneToOne, Inv, NEW v \in VLines, NEW e \in TimingEntry, e.valid,
         CacheMatches(tcache, v) = {}, MshrMatches(tmshr, v) = {},
         NEW i \in FreeTMshrSlots(tmshr), tmshr' = [tmshr EXCEPT ![i] = e]
  PROVE  /\ Lines!Unknown(v)
         /\ MshrEntries(tmshr') = MshrEntries(tmshr) \cup {Info(e)}
<1>1. tmshr \in TMshrTable /\ UniqueTags(tmshr)
  BY OneEntryPerLine
<1>2. i \in TMshrSlots /\ ~tmshr[i].valid
  BY DEF FreeTMshrSlots
<1>3. MshrEntries([tmshr EXCEPT ![i] = e]) = MshrEntries(tmshr) \cup {Info(e)}
  BY <1>1, <1>2, MshrSlotFilled
<1> QED
  BY <1>3, NoMatchNoEntry

\* What the mapping sees of a new entry.
LEMMA NewEntryInfo ==
  ASSUME NEW v \in VLines, NEW src \in Sources \cup {NoSource}
  PROVE  \A acc \in BOOLEAN :
           /\ Entry(v, src, acc) \in TimingEntry
           /\ Entry(v, src, acc).valid
           /\ Info(Entry(v, src, acc)) = Lines!NewEntry(v, src, acc)
  BY DEF Entry, TimingEntry, Info, Lines!NewEntry

----------------------------------------------------------------------------
(* One lemma per action that changes a table.                              *)

\* calculatePrefetch marks the line's entry or makes one for its miss.
LEMMA CalculatePrefetchStep ==
  ASSUME OneToOne, Inv, NEW v \in VLines, NEW miss \in BOOLEAN,
         CalculatePrefetch(v, miss), miss => ~CompletedRequest(tcache, v)
  PROVE  Lines!Next \/ UNCHANGED <<tmshr, tcache>>
<1>1. CASE cur = v
  BY <1>1 DEF CalculatePrefetch
<1>2. CASE cur # v /\ OngoingRequest(tmshr, v)
  <2>1. tmshr' = AccessTMshr(tmshr, v) /\ tcache' = tcache
    BY <1>2 DEF CalculatePrefetch, AccessTCache
  <2> QED
    BY <1>2, <2>1, AccessRequested
<1>3. CASE cur # v /\ ~OngoingRequest(tmshr, v) /\ ~miss
  <2>1. tmshr' = tmshr /\ tcache' = AccessTCache(tmshr, tcache, v)
    BY <1>3 DEF CalculatePrefetch, AccessTMshr
  <2>2. CASE CompletedRequest(tcache, v)
    BY <1>3, <2>1, <2>2, AccessCached
  <2>3. CASE ~CompletedRequest(tcache, v)
    BY <2>1, <2>3 DEF AccessTCache
  <2> QED
    BY <2>2, <2>3
<1>4. CASE cur # v /\ ~OngoingRequest(tmshr, v) /\ miss
  <2> DEFINE timed == AddTimingEntry(tmshr, tcache, v, NoSource)
  <2>1. /\ TMshrAssert(v)
        /\ tmshr' = AccessTMshr(timed, v)
        /\ tcache' = AccessTCache(timed, tcache, v)
    BY <1>4 DEF CalculatePrefetch
  <2>2. MshrMatches(tmshr, v) = {} /\ CacheMatches(tcache, v) = {}
    BY <1>4 DEF OngoingRequest, CompletedRequest
  <2>3. tmshr \in TMshrTable
    BY OneEntryPerLine
  <2> DEFINE i == First(FreeTMshrSlots(tmshr))
  <2>4. i \in FreeTMshrSlots(tmshr) /\ i \in TMshrSlots /\ ~tmshr[i].valid
    <3>1. FreeTMshrSlots(tmshr) \in SUBSET Nat /\ FreeTMshrSlots(tmshr) # {}
      BY <1>4, <2>1, ConstantsAssumption DEF TMshrAssert, FreeTMshrSlots, TMshrSlots
    <3> QED
      BY <3>1, FirstIsMember DEF FreeTMshrSlots
  <2>5. timed = [tmshr EXCEPT ![i] = Entry(v, NoSource, FALSE)]
    BY <1>4 DEF AddTimingEntry
  <2> HIDE DEF timed, i
  <2>6. \A j \in TMshrSlots :
          timed[j] = IF j = i THEN Entry(v, NoSource, FALSE) ELSE tmshr[j]
    BY <2>3, <2>4, <2>5 DEF TMshrTable
  <2>7. MshrMatches(timed, v) = {i}
    BY <2>2, <2>4, <2>6 DEF MshrMatches, Entry
  <2>8. OngoingRequest(timed, v) /\ First(MshrMatches(timed, v)) = i
    <3>1. OngoingRequest(timed, v)
      BY <2>7 DEF OngoingRequest
    <3>2. First({i}) \in {i}
      BY <2>4, FirstIsMember, ConstantsAssumption DEF TMshrSlots
    <3> QED
      BY <2>7, <3>1, <3>2
  <2>9. tmshr' = [timed EXCEPT ![i].accessed = TRUE] /\ tcache' = tcache
    BY <2>1, <2>8 DEF AccessTMshr, AccessTCache
  <2> DEFINE e == Entry(v, NoSource, FALSE)
  <2> DEFINE f == [e EXCEPT !.accessed = TRUE]
  <2>10. e \in TimingEntry /\ e.valid /\ Info(e) = Lines!NewEntry(v, NoSource, FALSE)
    BY NewEntryInfo
  <2>11. f \in TimingEntry /\ f.valid /\ Info(f) = Lines!NewEntry(v, NoSource, TRUE)
    <3> HIDE DEF e
    <3>1. f \in TimingEntry /\ f.valid /\ Info(f) = Lines!Access(Info(e))
      BY <2>10, AccessInfo
    <3>2. Lines!Access(Lines!NewEntry(v, NoSource, FALSE)) = Lines!NewEntry(v, NoSource, TRUE)
      BY DEF Lines!Access, Lines!NewEntry
    <3> QED
      BY <2>10, <3>1, <3>2
  <2>12. tmshr' = [tmshr EXCEPT ![i] = f]
    BY <2>3, <2>4, <2>5, <2>9 DEF TMshrTable
  <2> HIDE DEF e, f
  <2>13. /\ Lines!Unknown(v)
         /\ MshrEntries(tmshr') = MshrEntries(tmshr) \cup {Lines!NewEntry(v, NoSource, TRUE)}
    <3>1. Lines!Unknown(v) /\ MshrEntries(tmshr') = MshrEntries(tmshr) \cup {Info(f)}
      BY <2>2, <2>4, <2>11, <2>12, RequestAdded
    <3> QED
      BY <2>11, <3>1
  <2>14. Lines!DemandNew(v)
    BY <2>9, <2>13 DEF Lines!DemandNew
  <2> QED
    BY <2>14 DEF Lines!Next
<1> QED
  BY <1>1, <1>2, <1>3, <1>4

\* A prefetch makes an entry with its source, or finds one.
LEMMA IssuePrefetchStep ==
  ASSUME OneToOne, Inv, NEW t \in Translations, IssuePrefetch(t[1], t[2])
  PROVE  Lines!Next \/ UNCHANGED <<tmshr, tcache>>
<1> DEFINE v == t[1]
<1>1. v \in VLines /\ tcache' = tcache
  BY ConstantsAssumption DEF IssuePrefetch
<1>2. CASE tmshr' = tmshr
  BY <1>1, <1>2
<1>3. CASE tmshr' # tmshr
  <2>1. PICK src \in Sources \cup {NoSource} :
          TMshrAssert(v) /\ tmshr' = AddTimingEntry(tmshr, tcache, v, src)
    BY <1>3 DEF IssuePrefetch
  <2>2. ~OngoingRequest(tmshr, v) /\ ~CompletedRequest(tcache, v)
    BY <1>3, <2>1 DEF AddTimingEntry
  <2>3. MshrMatches(tmshr, v) = {} /\ CacheMatches(tcache, v) = {}
    BY <2>2 DEF OngoingRequest, CompletedRequest
  <2> DEFINE i == First(FreeTMshrSlots(tmshr))
  <2>4. i \in FreeTMshrSlots(tmshr)
    <3>1. FreeTMshrSlots(tmshr) \in SUBSET Nat /\ FreeTMshrSlots(tmshr) # {}
      BY <2>1, <2>2, ConstantsAssumption DEF TMshrAssert, FreeTMshrSlots, TMshrSlots
    <3> QED
      BY <3>1, FirstIsMember
  <2>5. tmshr' = [tmshr EXCEPT ![i] = Entry(v, src, FALSE)]
    BY <2>1, <2>2 DEF AddTimingEntry
  <2> HIDE DEF i, v
  <2>6. /\ Lines!Unknown(v)
        /\ MshrEntries(tmshr') = MshrEntries(tmshr) \cup {Lines!NewEntry(v, src, FALSE)}
    <3> DEFINE e == Entry(v, src, FALSE)
    <3>1. e \in TimingEntry /\ e.valid /\ Info(e) = Lines!NewEntry(v, src, FALSE)
      BY <1>1, NewEntryInfo
    <3>2. tmshr' = [tmshr EXCEPT ![i] = e]
      BY <2>5
    <3> HIDE DEF e
    <3>3. Lines!Unknown(v) /\ MshrEntries(tmshr') = MshrEntries(tmshr) \cup {Info(e)}
      BY <1>1, <2>3, <2>4, <3>1, <3>2, RequestAdded
    <3> QED
      BY <3>1, <3>3
  <2>7. Lines!Prefetch(v, src)
    BY <1>1, <2>6 DEF Lines!Prefetch
  <2> QED
    BY <1>1, <2>7 DEF Lines!Next
<1> QED
  BY <1>2, <1>3

----------------------------------------------------------------------------
(* Fills, evictions and invalidations.                                     *)

\* notifyInvalidate drops the line's entry, if it has one, and no other.
LEMMA InvalidateDrops ==
  ASSUME NEW tc \in TCacheTable, UniqueCacheTags(tc), NEW v \in VLines
  PROVE  /\ NotifyInvalidate(tc, v) \in TCacheTable
         /\ \A s \in Sets, x \in Ways : NotifyInvalidate(tc, v)[s][x].valid =>
              NotifyInvalidate(tc, v)[s][x] = tc[s][x]
         /\ \/ CacheEntries(NotifyInvalidate(tc, v)) = CacheEntries(tc)
            \/ \E e \in CacheEntries(tc) :
                 CacheEntries(NotifyInvalidate(tc, v)) = CacheEntries(tc) \ {e}
<1>1. CASE CacheMatches(tc, v) = {}
  BY <1>1 DEF NotifyInvalidate, CompletedRequest
<1>2. CASE CacheMatches(tc, v) # {}
  <2> DEFINE s == VSet[v]
  <2> DEFINE uc == NotifyInvalidate(tc, v)
  <2>1. PICK x \in CacheMatches(tc, v) : uc = [tc EXCEPT ![s][x] = NoEntry]
    BY <1>2, NotifyInvalidateEffect
  <2>2. x \in Ways /\ tc[s][x].valid /\ s \in Sets
    BY ConstantsAssumption DEF CacheMatches
  <2>3. NoEntry \in TimingEntry /\ ~NoEntry.valid
    BY DEF NoEntry, TimingEntry
  <2> HIDE DEF s, uc
  <2>4. uc \in TCacheTable
    BY <2>1, <2>2, <2>3 DEF TCacheTable
  <2>5. \A r \in Sets, y \in Ways : uc[r][y] = IF r = s /\ y = x THEN NoEntry ELSE tc[r][y]
    BY <2>1, <2>2 DEF TCacheTable
  <2>6. \A r \in Sets, y \in Ways : ~(r = s /\ y = x) /\ tc[r][y].valid
          => Info(tc[r][y]) # Info(tc[s][x])
    BY <2>2 DEF UniqueCacheTags, Info
  <2>7. ASSUME NEW f
        PROVE  f \in CacheEntries(uc) <=> f \in CacheEntries(tc) \ {Info(tc[s][x])}
    BY <2>2, <2>3, <2>5, <2>6 DEF CacheEntries
  <2>8. Info(tc[s][x]) \in CacheEntries(tc)
    BY <2>2 DEF CacheEntries
  <2> QED
    <3>1. CacheEntries(uc) = CacheEntries(tc) \ {Info(tc[s][x])}
      BY <2>7
    <3> QED
      BY <2>3, <2>4, <2>5, <2>8, <3>1 DEF uc
<1> QED
  BY <1>1, <1>2

\* A fill adds one entry; invalidating its line at once takes it away again.
LEMMA FillAdds ==
  ASSUME NEW tc \in TCacheTable, NEW v \in VLines, CacheMatches(tc, v) = {},
         NEW x \in FreeTCacheWays(tc, v), NEW e \in TimingEntry, e.valid, e.tag = v
  PROVE  LET uc == [tc EXCEPT ![VSet[v]][x] = e]
         IN  /\ CacheEntries(uc) = CacheEntries(tc) \cup {Info(e)}
             /\ CacheEntries(NotifyInvalidate(uc, v)) = CacheEntries(tc)
<1> DEFINE s == VSet[v]
<1> DEFINE uc == [tc EXCEPT ![s][x] = e]
<1>1. s \in Sets /\ x \in Ways /\ ~tc[s][x].valid
  BY ConstantsAssumption DEF FreeTCacheWays
<1>2. \A r \in Sets, y \in Ways : uc[r][y] = IF r = s /\ y = x THEN e ELSE tc[r][y]
  BY <1>1 DEF TCacheTable
<1>3. ASSUME NEW f
      PROVE  f \in CacheEntries(uc) <=> f \in CacheEntries(tc) \cup {Info(e)}
  <2> HIDE DEF uc
  <2> QED
    BY <1>1, <1>2 DEF CacheEntries
<1>4. CacheMatches(uc, v) = {x}
  <2> HIDE DEF uc
  <2> QED
    BY <1>1, <1>2 DEF CacheMatches
<1>5. uc \in TCacheTable
  BY <1>1 DEF TCacheTable
<1> HIDE DEF uc
<1> DEFINE dc == NotifyInvalidate(uc, v)
<1>6. dc = [uc EXCEPT ![s][x] = NoEntry]
  BY <1>4, <1>5, NotifyInvalidateEffect
<1> HIDE DEF s, dc
<1>7. \A r \in Sets, y \in Ways : dc[r][y] = IF r = s /\ y = x THEN NoEntry ELSE tc[r][y]
  BY <1>1, <1>2, <1>5, <1>6 DEF TCacheTable
<1>8. ~NoEntry.valid
  BY DEF NoEntry
<1>9. ASSUME NEW f
      PROVE  f \in CacheEntries(dc) <=> f \in CacheEntries(tc)
  BY <1>1, <1>7, <1>8 DEF CacheEntries
<1> QED
  <2>1. CacheEntries(uc) = CacheEntries(tc) \cup {Info(e)}
    BY <1>3
  <2>2. CacheEntries(dc) = CacheEntries(tc)
    BY <1>9
  <2> QED
    BY <2>1, <2>2 DEF uc, s, dc

\* A snooped invalidation of a block here drops its entry.
LEMMA RecvSnoopInvalidateStep ==
  ASSUME OneToOne, Inv, NEW p \in PLines, RecvSnoopInvalidate(p)
  PROVE  Lines!Next \/ UNCHANGED Lines!vars
<1>1. tmshr' = tmshr
  BY DEF RecvSnoopInvalidate
<1>2. CASE tcache' = tcache
  BY <1>1, <1>2 DEF Lines!vars
<1>3. CASE tcache' # tcache
  <2>1. PICK w \in WaysHolding(p) : tcache' = NotifyInvalidate(tcache, blocks[PSet[p]][w].vaddr)
    BY <1>3 DEF RecvSnoopInvalidate
  <2>2. blocks[PSet[p]][w].vaddr \in VLines
    BY <2>1, PlacedByVirtualLine, ConstantsAssumption
    DEF Inv, TypeOK, TagStore, WaysHolding
  <2>3. tcache \in TCacheTable /\ UniqueCacheTags(tcache)
    BY OneEntryPerLine
  <2>4. \/ CacheEntries(tcache') = CacheEntries(tcache)
        \/ \E e \in CacheEntries(tcache) : CacheEntries(tcache') = CacheEntries(tcache) \ {e}
    BY <2>1, <2>2, <2>3, InvalidateDrops
  <2> QED
    BY <1>1, <2>4 DEF Lines!vars, Lines!Next, Lines!Invalidate
<1> QED
  BY <1>2, <1>3

\* A response moves the line's entry, or makes one, drops the victim's, and
\* drops the line's again if it is invalidated.
LEMMA RecvTimingRespStep ==
  ASSUME OneToOne, Inv, NEW p \in PLines, NEW w \in Ways, NEW withInv \in BOOLEAN,
         RecvTimingResp(p, w, withInv)
  PROVE  Lines!Next
<1> DEFINE m == mshr[p]
<1> DEFINE v == Head(m.targets).line
<1> DEFINE victim == blocks[PSet[p]][w]
<1> DEFINE evicted == IF victim.valid THEN NotifyInvalidate(tcache, victim.vaddr) ELSE tcache
<1> DEFINE filled == MoveToTCache(tmshr, evicted, v)
<1> DEFINE gone == withInv \/ m.postInvalidate
<1>1. /\ m # FreeMshr
      /\ FreeTCacheWays(evicted, v) # {}
      /\ tmshr' = MoveFromTMshr(tmshr, v)
      /\ tcache' = IF gone THEN NotifyInvalidate(filled, v) ELSE filled
  BY DEF RecvTimingResp
<1>2. v \in VLines /\ <<v, p>> \in Translations
  BY ResponseKeepsMirror
<1>3. /\ tmshr \in TMshrTable /\ tcache \in TCacheTable
      /\ UniqueTags(tmshr) /\ UniqueCacheTags(tcache)
  BY OneEntryPerLine
<1>4. CacheMatches(tcache, v) = {}
  BY <1>1, <1>2, CompletedIsResident, ConstantsAssumption
  DEF Inv, MissNotResident, CompletedRequest
<1>5. victim.valid => victim.vaddr \in VLines
  BY PlacedByVirtualLine, ConstantsAssumption DEF Inv, TypeOK, TagStore
<1> HIDE DEF m, v, gone, victim
<1>6. PICK out \in Lines!Victims :
        /\ CacheEntries(evicted) = CacheEntries(tcache) \ out
        /\ evicted \in TCacheTable
        /\ \A s \in Sets, x \in Ways : evicted[s][x].valid => evicted[s][x] = tcache[s][x]
  <2>1. CASE victim.valid
    <3>1. /\ evicted \in TCacheTable
          /\ \A s \in Sets, x \in Ways : evicted[s][x].valid => evicted[s][x] = tcache[s][x]
          /\ \/ CacheEntries(evicted) = CacheEntries(tcache)
             \/ \E e \in CacheEntries(tcache) :
                  CacheEntries(evicted) = CacheEntries(tcache) \ {e}
      BY <1>3, <1>5, <2>1, InvalidateDrops
    <3> HIDE DEF evicted
    <3> QED
      BY <3>1 DEF Lines!Victims
  <2>2. CASE ~victim.valid
    BY <1>3, <2>2 DEF Lines!Victims
  <2> QED
    BY <2>1, <2>2
<1> HIDE DEF evicted
<1>7. CacheMatches(evicted, v) = {}
  BY <1>2, <1>4, <1>6, ConstantsAssumption DEF CacheMatches
<1> DEFINE i == First(MshrMatches(tmshr, v))
<1> DEFINE e == IF OngoingRequest(tmshr, v) THEN tmshr[i] ELSE Entry(v, NoSource, TRUE)
<1> DEFINE x == First(FreeTCacheWays(evicted, v))
<1>8. x \in FreeTCacheWays(evicted, v)
  <2>1. FreeTCacheWays(evicted, v) \in SUBSET Nat
    BY ConstantsAssumption DEF FreeTCacheWays, Ways
  <2> QED
    BY <1>1, <2>1, FirstIsMember
<1>9. OngoingRequest(tmshr, v) => i \in MshrMatches(tmshr, v)
  <2>1. MshrMatches(tmshr, v) \in SUBSET Nat
    BY ConstantsAssumption DEF MshrMatches, TMshrSlots
  <2> QED
    BY <2>1, FirstIsMember DEF OngoingRequest
<1>10. e \in TimingEntry /\ e.valid /\ e.tag = v
  <2>1. CASE OngoingRequest(tmshr, v)
    BY <1>3, <1>9, <2>1 DEF MshrMatches, TMshrTable
  <2>2. CASE ~OngoingRequest(tmshr, v)
    BY <1>2, <2>2 DEF Entry, TimingEntry
  <2> QED
    BY <2>1, <2>2
<1>11. filled = [evicted EXCEPT ![VSet[v]][x] = e]
  BY DEF MoveToTCache
<1> HIDE DEF filled, x
<1>12. /\ CacheEntries(filled) = CacheEntries(evicted) \cup {Info(e)}
       /\ CacheEntries(NotifyInvalidate(filled, v)) = CacheEntries(evicted)
  <2> HIDE DEF e
  <2> DEFINE uc == [evicted EXCEPT ![VSet[v]][x] = e]
  <2>1. evicted \in TCacheTable
    BY <1>6
  <2>2. /\ CacheEntries(uc) = CacheEntries(evicted) \cup {Info(e)}
        /\ CacheEntries(NotifyInvalidate(uc, v)) = CacheEntries(evicted)
    BY <1>2, <1>7, <1>8, <1>10, <2>1, FillAdds
  <2> QED
    BY <1>11, <2>2
<1> DEFINE stays == ~gone
<1>13. CacheEntries(tcache') =
         (CacheEntries(tcache) \ out) \cup (IF stays THEN {Info(e)} ELSE {})
  <2> HIDE DEF e
  <2> QED
    BY <1>1, <1>6, <1>12
<1>14. stays \in BOOLEAN
  BY DEF gone
<1> HIDE DEF stays
<1>15. CASE OngoingRequest(tmshr, v)
  <2>1. i \in TMshrSlots /\ tmshr[i].valid /\ e = tmshr[i]
    BY <1>9, <1>15 DEF MshrMatches
  <2>2. tmshr' = [tmshr EXCEPT ![i] = NoEntry]
    BY <1>1, <1>15 DEF MoveFromTMshr
  <2>3. Info(e) \in MshrEntries(tmshr)
    BY <2>1 DEF MshrEntries
  <2> HIDE DEF i, e
  <2>4. MshrEntries(tmshr') = MshrEntries(tmshr) \ {Info(e)}
    <3>1. \A j \in TMshrSlots : tmshr'[j] = IF j = i THEN NoEntry ELSE tmshr[j]
      BY <1>3, <2>1, <2>2 DEF TMshrTable
    <3>2. \A j \in TMshrSlots : j # i /\ tmshr[j].valid => Info(tmshr[j]) # Info(e)
      BY <1>3, <2>1 DEF UniqueTags, Info
    <3>3. ~NoEntry.valid
      BY DEF NoEntry
    <3>4. ASSUME NEW f
          PROVE  f \in MshrEntries(tmshr') <=> f \in MshrEntries(tmshr) \ {Info(e)}
      BY <2>1, <3>1, <3>2, <3>3 DEF MshrEntries
    <3> QED
      BY <3>4
  <2>5. Lines!Fill(Info(e), out, stays)
    BY <1>13, <2>3, <2>4 DEF Lines!Fill, Lines!Arrive
  <2> QED
    BY <1>6, <1>14, <2>3, <2>5 DEF Lines!Next
<1>16. CASE ~OngoingRequest(tmshr, v)
  <2>1. tmshr' = tmshr
    BY <1>1, <1>16 DEF MoveFromTMshr
  <2>2. Info(e) = Lines!NewEntry(v, NoSource, TRUE)
    BY <1>2, <1>16, NewEntryInfo
  <2>3. Lines!Unknown(v)
    BY <1>2, <1>4, <1>16, NoMatchNoEntry DEF OngoingRequest
  <2> HIDE DEF e
  <2>4. Lines!FillUntimed(v, out, stays)
    BY <1>13, <2>1, <2>2, <2>3 DEF Lines!FillUntimed, Lines!Arrive
  <2> QED
    BY <1>2, <1>6, <1>14, <2>4 DEF Lines!Next
<1> QED
  BY <1>15, <1>16

----------------------------------------------------------------------------
(* The refinement.                                                         *)

\* Every step of the cache and the timing tables is a step of EIPLines or
\* leaves what the mapping sees alone.
LEMMA StepSimulation ==
  ASSUME OneToOne, Inv, [Next]_vars
  PROVE  [Lines!Next]_(Lines!vars)
<1>0. UNCHANGED <<tmshr, tcache>> => UNCHANGED Lines!vars
  BY DEF Lines!vars
<1>1. ASSUME NEW t \in Translations, DemandHit(t[1], t[2])
      PROVE  [Lines!Next]_(Lines!vars)
  <2>1. t[1] \in VLines
    BY ConstantsAssumption
  <2>2. CalculatePrefetch(t[1], FALSE)
    BY <1>1 DEF DemandHit
  <2> QED
    BY <1>0, <2>1, <2>2, CalculatePrefetchStep
<1>2. ASSUME NEW t \in Translations, DemandMiss(t[1], t[2])
      PROVE  [Lines!Next]_(Lines!vars)
  <2>1. t[1] \in VLines
    BY ConstantsAssumption
  <2>2. CalculatePrefetch(t[1], TRUE) /\ ~CompletedRequest(tcache, t[1])
    BY <1>2 DEF DemandMiss
  <2> QED
    BY <1>0, <2>1, <2>2, CalculatePrefetchStep
<1>3. ASSUME NEW t \in Translations, IssuePrefetch(t[1], t[2])
      PROVE  [Lines!Next]_(Lines!vars)
  BY <1>0, <1>3, IssuePrefetchStep
<1>4. ASSUME NEW v \in VLines, NotifySquash(v)
      PROVE  [Lines!Next]_(Lines!vars)
  BY <1>0, <1>4 DEF NotifySquash
<1>5. ASSUME NEW p \in PLines, SendMiss(p) \/ SendWriteback(p)
      PROVE  [Lines!Next]_(Lines!vars)
  BY <1>0, <1>5 DEF SendMiss, SendWriteback
<1>6. ASSUME NEW p \in PLines, NEW w \in Ways, NEW withInv \in BOOLEAN,
             RecvTimingResp(p, w, withInv)
      PROVE  [Lines!Next]_(Lines!vars)
  BY <1>6, RecvTimingRespStep
<1>7. ASSUME NEW p \in PLines, RecvSnoopInvalidate(p)
      PROVE  [Lines!Next]_(Lines!vars)
  BY <1>7, RecvSnoopInvalidateStep
<1>8. CASE UNCHANGED vars
  BY <1>0, <1>8 DEF vars
<1> QED
  BY <1>1, <1>2, <1>3, <1>4, <1>5, <1>6, <1>7, <1>8 DEF Next

\* Empty tables map to the empty sets.
LEMMA InitSimulation == Init => Lines!Init
<1> SUFFICES ASSUME Init
             PROVE  MshrEntries(tmshr) = {} /\ CacheEntries(tcache) = {}
  BY DEF Lines!Init
<1>1. \A i \in TMshrSlots : ~tmshr[i].valid
  BY DEF Init, NoEntry
<1>2. \A s \in Sets, w \in Ways : ~tcache[s][w].valid
  BY DEF Init, NoEntry
<1> QED
  BY <1>1, <1>2 DEF MshrEntries, CacheEntries

\* The timing tables implement EIPLines: whatever the cache, the memory
\* side, the snoops and the prefetch queue do, a line has at most one entry,
\* made by a miss or a prefetch, moved by the fill and dropped with the line.
THEOREM Refinement == ASSUME OneToOne PROVE Spec => ImplementsLines
<1>1. Inv /\ [Next]_vars => [Lines!Next]_(Lines!vars)
  BY StepSimulation
<1> QED
  BY <1>1, InitSimulation, Invariance, PTL DEF Spec, ImplementsLines, Lines!Spec

----------------------------------------------------------------------------
(* What the refinement says of an entry's source.                          *)

AllEntries == MshrEntries(tmshr) \cup CacheEntries(tcache)

\* Two entries of a line, in whichever table, are the same.
LEMMA EntriesUnique ==
  ASSUME OneToOne, Inv
  PROVE  \A a, b \in AllEntries : a.line = b.line => a = b
<1>1. /\ UniqueTags(tmshr) /\ UniqueCacheTags(tcache)
      /\ \A s \in Sets, x \in Ways : tcache[s][x].valid =>
           tcache[s][x].tag \in VLines /\ VSet[tcache[s][x].tag] = s
      /\ \A i \in TMshrSlots : tmshr[i].valid =>
           tmshr[i].tag \in VLines /\ ~CompletedRequest(tcache, tmshr[i].tag)
  BY OneEntryPerLine
<1>2. \A a, b \in MshrEntries(tmshr) : a.line = b.line => a = b
  BY <1>1 DEF MshrEntries, Info, UniqueTags
<1>3. ASSUME NEW a \in CacheEntries(tcache), NEW b \in CacheEntries(tcache), a.line = b.line
      PROVE  a = b
  <2>1. PICK s \in Sets, x \in Ways : tcache[s][x].valid /\ a = Info(tcache[s][x])
    BY DEF CacheEntries
  <2>2. PICK r \in Sets, y \in Ways : tcache[r][y].valid /\ b = Info(tcache[r][y])
    BY DEF CacheEntries
  <2>3. tcache[s][x].tag = tcache[r][y].tag
    BY <1>3, <2>1, <2>2 DEF Info
  <2> QED
    BY <1>1, <2>1, <2>2, <2>3 DEF UniqueCacheTags
<1>4. ASSUME NEW a \in MshrEntries(tmshr), NEW b \in CacheEntries(tcache)
      PROVE  a.line # b.line
  <2>1. PICK i \in TMshrSlots : tmshr[i].valid /\ a = Info(tmshr[i])
    BY DEF MshrEntries
  <2>2. PICK s \in Sets, x \in Ways : tcache[s][x].valid /\ b = Info(tcache[s][x])
    BY DEF CacheEntries
  <2>3. VSet[tcache[s][x].tag] = s /\ ~CompletedRequest(tcache, tmshr[i].tag)
    BY <1>1, <2>1, <2>2
  <2>4. tmshr[i].tag # tcache[s][x].tag
    BY <2>2, <2>3 DEF CompletedRequest, CacheMatches
  <2> QED
    BY <2>1, <2>2, <2>4 DEF Info
<1> QED
  BY <1>2, <1>3, <1>4 DEF AllEntries

\* A step of EIPLines keeps an entry, marks it, or replaces it by nothing.
LEMMA StepCarriesSource ==
  ASSUME \A a, b \in AllEntries : a.line = b.line => a = b,
         [Lines!Next]_(Lines!vars),
         NEW a \in AllEntries, NEW b \in AllEntries', a.line = b.line
  PROVE  b.source = a.source /\ (a.accessed => b.accessed)
<1> DEFINE carried == b.source = a.source /\ (a.accessed => b.accessed)
<1>0. b \in AllEntries => carried
  BY Zenon
<1>1. ASSUME NEW v, NEW src, NEW acc, Lines!Unknown(v), b = Lines!NewEntry(v, src, acc)
      PROVE  carried
  BY <1>1 DEF Lines!Unknown, Lines!NewEntry, AllEntries
<1>2. ASSUME NEW e \in AllEntries, b = Lines!Access(e)
      PROVE  carried
  <2>1. b.line = e.line /\ b.source = e.source /\ b.accessed = TRUE
    BY <1>2 DEF Lines!Access, Lines!NewEntry
  <2>2. a = e
    BY <2>1
  <2> QED
    BY <2>1, <2>2
<1>3. ASSUME NEW e \in MshrEntries(tmshr), Lines!DemandRequested(e)
      PROVE  carried
  <2>1. b \in AllEntries \/ b = Lines!Access(e)
    BY <1>3 DEF Lines!DemandRequested, Lines!Replaced, AllEntries
  <2> QED
    BY <1>0, <1>2, <2>1 DEF AllEntries
<1>4. ASSUME NEW e \in CacheEntries(tcache), Lines!DemandCached(e) \/ Lines!Invalidate(e)
      PROVE  carried
  <2>1. b \in AllEntries \/ b = Lines!Access(e)
    BY <1>4 DEF Lines!DemandCached, Lines!Invalidate, Lines!Replaced, AllEntries
  <2> QED
    BY <1>0, <1>2, <2>1 DEF AllEntries
<1>5. ASSUME NEW v \in VLines, NEW src \in Sources \cup {NoSource},
             Lines!DemandNew(v) \/ Lines!Prefetch(v, src)
      PROVE  carried
  <2>1. /\ Lines!Unknown(v)
        /\ b \in AllEntries \/ b = Lines!NewEntry(v, NoSource, TRUE)
                            \/ b = Lines!NewEntry(v, src, FALSE)
    BY <1>5 DEF Lines!DemandNew, Lines!Prefetch, AllEntries
  <2> QED
    BY <1>0, <1>1, <2>1
<1>6. ASSUME NEW e \in MshrEntries(tmshr), NEW out, NEW stays, Lines!Fill(e, out, stays)
      PROVE  carried
  <2>1. b \in AllEntries
    BY <1>6 DEF Lines!Fill, Lines!Arrive, AllEntries
  <2> QED
    BY <1>0, <2>1
<1>7. ASSUME NEW v \in VLines, NEW out, NEW stays, Lines!FillUntimed(v, out, stays)
      PROVE  carried
  <2>1. Lines!Unknown(v) /\ (b \in AllEntries \/ b = Lines!NewEntry(v, NoSource, TRUE))
    BY <1>7 DEF Lines!FillUntimed, Lines!Arrive, AllEntries
  <2> QED
    BY <1>0, <1>1, <2>1
<1>8. CASE UNCHANGED Lines!vars
  BY <1>0, <1>8 DEF Lines!vars, AllEntries
<1> HIDE DEF carried
<1>9. ASSUME Lines!Next
      PROVE  carried
  <2>1. \A v \in VLines : Lines!DemandNew(v) => carried
    BY <1>5
  <2>2. \A v \in VLines, src \in Sources \cup {NoSource} : Lines!Prefetch(v, src) => carried
    BY <1>5
  <2>3. \A out \in Lines!Victims, stays \in BOOLEAN :
          /\ \A e \in MshrEntries(tmshr) : Lines!Fill(e, out, stays) => carried
          /\ \A v \in VLines : Lines!FillUntimed(v, out, stays) => carried
    BY <1>6, <1>7
  <2> QED
    BY <1>3, <1>4, <1>9, <2>1, <2>2, <2>3 DEF Lines!Next
<1> QED
  BY <1>8, <1>9 DEF carried

\* From its issue, through the fill, to its eviction, the entry of a line
\* keeps the source its prefetch came from and, once marked, stays marked.
THEOREM SourceIsCarried == ASSUME OneToOne PROVE Spec => SourceCarried
<1>1. ASSUME Inv, [Next]_vars
      PROVE  \A v \in VLines : \A e \in EntryOf(v) : \A f \in EntryOf(v)' :
               f.source = e.source /\ (e.accessed => f.accessed)
  <2> SUFFICES ASSUME NEW v \in VLines, NEW e \in EntryOf(v), NEW f \in EntryOf(v)'
               PROVE  f.source = e.source /\ (e.accessed => f.accessed)
    OBVIOUS
  <2>1. e.tag = v /\ Info(e) \in AllEntries
    <3>1. VSet[v] \in Sets
      BY ConstantsAssumption
    <3> QED
      BY <3>1 DEF EntryOf, MshrMatches, CacheMatches, AllEntries, MshrEntries, CacheEntries
  <2>2. f.tag = v /\ Info(f) \in AllEntries'
    <3>1. VSet[v] \in Sets
      BY ConstantsAssumption
    <3> QED
      BY <3>1 DEF EntryOf, MshrMatches, CacheMatches, AllEntries, MshrEntries, CacheEntries
  <2>3. Info(e).line = Info(f).line
    BY <2>1, <2>2 DEF Info
  <2>4. Info(f).source = Info(e).source /\ (Info(e).accessed => Info(f).accessed)
    BY <1>1, <2>1, <2>2, <2>3, EntriesUnique, StepSimulation, StepCarriesSource
  <2> QED
    BY <2>4 DEF Info
<1>2. Inv /\ [Next]_vars =>
        [\A v \in VLines : \A e \in EntryOf(v) : \A f \in EntryOf(v)' :
           f.source = e.source /\ (e.accessed => f.accessed)]_vars
  BY <1>1
<1> QED
  BY <1>2, Invariance, PTL DEF Spec, SourceCarried

============================================================================
