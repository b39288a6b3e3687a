----------------------------- MODULE EIPTiming -----------------------------
(***************************************************************************)
(* The timing tables of the Entangling Instruction Prefetcher and the L1   *)
(* instruction cache they have to stay in step with.                       *)
(*                                                                         *)
(* The cache is physically tagged; the prefetcher sees it through probes   *)
(* that carry virtual addresses (ppHit, ppMiss, ppFill, ppInvalidate,      *)
(* ppSquash).  A line being fetched should have an entry in the timing     *)
(* MSHR table, a line in the cache an entry in the timing cache, and a     *)
(* dozen assertions of eip.hh and eip.cc rely on it.                       *)
(*                                                                         *)
(* Addresses are cache lines.  What eip.cc keeps about basic blocks enters *)
(* only through `cur', the line l1i_last_basic_block +                     *)
(* l1i_consecutive_count.  The history buffer and the entangled table      *)
(* decide which prefetches are queued and from which source: here any set  *)
(* of lines and any source.                                                *)
(***************************************************************************)
EXTENDS Integers, Sequences, FiniteSets

CONSTANTS
  VLines, PLines,  \* virtual and physical cache lines
  Translations,    \* the pairs <<v, p>> the cores' fetches present
  Sets, NumWays,   \* geometry shared by the cache and the timing cache
  VSet, PSet,      \* the set a virtual / a physical line indexes
  TMshrSize,       \* L1I_TIMING_MSHR_SIZE
  NumMshrs,        \* MSHRs of the cache
  DemandReserve,   \* MSHRs a prefetch must leave to demand misses
  Sources,         \* ways of the entangled table a prefetch can come from
  NoSource,        \* source_way = L1I_ET_WAYS
  NoLine,          \* line 0, never fetched
  QueueSize,       \* capacity of the prefetch queue
  MaxTargets       \* model bound on the accesses waiting in one MSHR

Ways == 1 .. NumWays

TMshrSlots == 1 .. TMshrSize

\* Set index bits lie inside the page offset (64 sets of 64 bytes, 4 KiB
\* pages), so both addresses of a line index the same set.
ASSUME ConstantsAssumption ==
  /\ IsFiniteSet(PLines)
  /\ Translations \subseteq VLines \X PLines
  /\ VSet \in [VLines -> Sets]
  /\ PSet \in [PLines -> Sets]
  /\ \A t \in Translations : VSet[t[1]] = PSet[t[2]]
  /\ NumWays \in Nat \ {0}
  /\ NumMshrs \in Nat \ {0}
  /\ TMshrSize \in Nat
  /\ NumMshrs <= TMshrSize
  /\ DemandReserve \in Nat
  /\ NoSource \notin Sources
  /\ NoLine \notin VLines \cup PLines
  /\ QueueSize \in Nat
  /\ MaxTargets \in Nat \ {0}

VARIABLES
  blocks,  \* blocks[s][w]: the cache's tag store
  mshr,    \* mshr[p]: the miss outstanding for p, if any
  wb,      \* lines whose writeback waits in the write buffer
  pfq,     \* prefetch queue: translations of the queued candidates
  tmshr,   \* l1i_timing_mshr_table
  tcache,  \* l1i_timing_cache_table
  cur      \* l1i_last_basic_block + l1i_consecutive_count

vars == <<blocks, mshr, wb, pfq, tmshr, tcache, cur>>

Block == [valid : BOOLEAN, paddr : PLines \cup {NoLine},
          vaddr : VLines \cup {NoLine}, prefetched : BOOLEAN]

NoBlock == [valid |-> FALSE, paddr |-> NoLine, vaddr |-> NoLine, prefetched |-> FALSE]

Target == [line : VLines, pf : BOOLEAN]

Mshr == [targets : Seq(Target), deferred : Seq(Target),
         inService : BOOLEAN, postInvalidate : BOOLEAN]

FreeMshr == [targets |-> <<>>, deferred |-> <<>>,
             inService |-> FALSE, postInvalidate |-> FALSE]

\* An entry of either timing table: valid, tag, source_set/source_way, accessed.
TimingEntry == [valid : BOOLEAN, tag : VLines \cup {NoLine},
                source : Sources \cup {NoSource}, accessed : BOOLEAN]

NoEntry == [valid |-> FALSE, tag |-> NoLine, source |-> NoSource, accessed |-> FALSE]

TypeOK ==
  /\ blocks \in [Sets -> [Ways -> Block]]
  /\ mshr \in [PLines -> Mshr]
  /\ wb \in SUBSET PLines
  /\ pfq \in SUBSET Translations
  /\ tmshr \in [TMshrSlots -> TimingEntry]
  /\ tcache \in [Sets -> [Ways -> TimingEntry]]
  /\ cur \in VLines \cup {NoLine}

----------------------------------------------------------------------------
(* The cache, as far as its probes go.                                     *)

WaysHolding(p) == {w \in Ways : blocks[PSet[p]][w].valid /\ blocks[PSet[p]][w].paddr = p}

Resident(p) == WaysHolding(p) # {}

Outstanding == {p \in PLines : mshr[p] # FreeMshr}

\* Blocked_NoMSHRs, or an MSHR at the bound on its target list.
Blocked ==
  \/ Cardinality(Outstanding) >= NumMshrs
  \/ \E p \in PLines : Len(mshr[p].targets) + Len(mshr[p].deferred) >= MaxTargets

CanPrefetch == Cardinality(Outstanding) < NumMshrs - (1 + DemandReserve)

CpuTarget(v) == [line |-> v, pf |-> FALSE]

PfTarget(v) == [line |-> v, pf |-> TRUE]

\* A miss joins the outstanding MSHR of its block, on the deferred list once
\* an invalidation has been snooped behind the request, or opens a new one.
AllocateTarget(m, t) ==
  IF m.deferred # <<>> \/ (m.inService /\ m.postInvalidate)
  THEN [m EXCEPT !.deferred = Append(@, t)]
  ELSE [m EXCEPT !.targets = Append(@, t)]

----------------------------------------------------------------------------
(* The timing tables.  Each operator takes the table it reads and returns  *)
(* the table it leaves, because one probe may use several of them.         *)

First(S) == CHOOSE i \in S : \A j \in S : i <= j

MshrMatches(tm, v) == {i \in TMshrSlots : tm[i].valid /\ tm[i].tag = v}

CacheMatches(tc, v) == {w \in Ways : tc[VSet[v]][w].valid /\ tc[VSet[v]][w].tag = v}

FreeTMshrSlots(tm) == {i \in TMshrSlots : ~tm[i].valid}

FreeTCacheWays(tc, v) == {w \in Ways : ~tc[VSet[v]][w].valid}

OngoingRequest(tm, v) == MshrMatches(tm, v) # {}

CompletedRequest(tc, v) == CacheMatches(tc, v) # {}

Entry(v, src, acc) == [valid |-> TRUE, tag |-> v, source |-> src, accessed |-> acc]

AddTimingEntry(tm, tc, v, src) ==
  IF OngoingRequest(tm, v) \/ CompletedRequest(tc, v) THEN tm
  ELSE [tm EXCEPT ![First(FreeTMshrSlots(tm))] = Entry(v, src, FALSE)]

\* l1i_get_invalid_timing_mshr_entry asserts that an entry is free when
\* l1i_add_timing_entry needs one.
TMshrAssert(v) ==
  OngoingRequest(tmshr, v) \/ CompletedRequest(tcache, v) \/ FreeTMshrSlots(tmshr) # {}

\* Mutant: only a timed fill gets an entry.
MoveTimedOnly(tm, tc, v) ==
  IF OngoingRequest(tm, v)
  THEN [tc EXCEPT ![VSet[v]][First(FreeTCacheWays(tc, v))] = tm[First(MshrMatches(tm, v))]]
  ELSE tc

\* Mutant: the entry is created anew, not moved.
MoveForgetsSource(tm, tc, v) ==
  [tc EXCEPT ![VSet[v]][First(FreeTCacheWays(tc, v))] =
     Entry(v, NoSource, ~OngoingRequest(tm, v))]

\* At a fill the entry moves to the timing cache; a fill nobody timed gets a
\* sourceless entry that counts as accessed.
MoveToTCache(tm, tc, v) ==
  [tc EXCEPT ![VSet[v]][First(FreeTCacheWays(tc, v))] =
     IF OngoingRequest(tm, v) THEN tm[First(MshrMatches(tm, v))]
     ELSE Entry(v, NoSource, TRUE)]

\* Mutant: the fill leaves the entry behind.
MoveKeepsEntry(tm, v) == tm

MoveFromTMshr(tm, v) ==
  IF OngoingRequest(tm, v) THEN [tm EXCEPT ![First(MshrMatches(tm, v))] = NoEntry]
  ELSE tm

AccessTMshr(tm, v) ==
  IF OngoingRequest(tm, v) THEN [tm EXCEPT ![First(MshrMatches(tm, v))].accessed = TRUE]
  ELSE tm

AccessTCache(tm, tc, v) ==
  IF ~OngoingRequest(tm, v) /\ CompletedRequest(tc, v)
  THEN [tc EXCEPT ![VSet[v]][First(CacheMatches(tc, v))].accessed = TRUE]
  ELSE tc

\* Mutant: an eviction is not reported.
InvalidateUnreported(tc, v) == tc

NotifyInvalidate(tc, v) ==
  IF CompletedRequest(tc, v)
  THEN [tc EXCEPT ![VSet[v]][First(CacheMatches(tc, v))] = NoEntry]
  ELSE tc

----------------------------------------------------------------------------
(* Demand fetches.  An assertion of the code is a guard: a simulation that *)
(* fails one stops.  The properties state that none fails.                 *)

\* The queue after a demand of line v: its own candidates are squashed; new
\* ones are any lines without a timing MSHR entry.  The page, filter,
\* throttle and capacity rules of the queue may leave out any of them.
QueueAfterDemand(v) ==
  LET squashed == {t \in pfq : t[1] # v}
      found    == {t \in Translations : ~OngoingRequest(tmshr, t[1])}
  IN  {q \in SUBSET (squashed \cup found) : Cardinality(q) <= QueueSize}

\* calculatePrefetch.  A demand of the current line returns before it
\* touches the tables; any other makes its line the current one.
CalculatePrefetch(v, miss) ==
  IF cur = v
  THEN /\ pfq' = {t \in pfq : t[1] # v}
       /\ UNCHANGED <<tmshr, tcache, cur>>
  ELSE LET timed == IF miss /\ ~OngoingRequest(tmshr, v)
                    THEN AddTimingEntry(tmshr, tcache, v, NoSource)
                    ELSE tmshr
       IN  /\ miss => TMshrAssert(v)
           /\ tmshr' = AccessTMshr(timed, v)
           /\ tcache' = AccessTCache(timed, tcache, v)
           /\ cur' = v
           /\ pfq' \in QueueAfterDemand(v)

\* Only a hit on a block still marked prefetched is observed
\* (prefetch_on_pf_hit); the mark is then cleared.  Other hits change nothing.
DemandHit(v, p) ==
  /\ ~Blocked
  /\ \E w \in WaysHolding(p) :
       /\ blocks[PSet[p]][w].prefetched
       /\ blocks' = [blocks EXCEPT ![PSet[p]][w].prefetched = FALSE]
  /\ CompletedRequest(tcache, v)
  /\ CalculatePrefetch(v, FALSE)
  /\ UNCHANGED <<mshr, wb>>

DemandMiss(v, p) ==
  /\ ~Blocked
  /\ ~Resident(p)
  /\ mshr' = [mshr EXCEPT ![p] = AllocateTarget(@, CpuTarget(v))]
  /\ ~CompletedRequest(tcache, v)
  /\ CalculatePrefetch(v, TRUE)
  /\ UNCHANGED <<blocks, wb>>

\* A squash leaves the line of the squashing instruction current, or none.
NotifySquash(v) ==
  /\ cur' \in {v, NoLine}
  /\ UNCHANGED <<blocks, mshr, wb, pfq, tmshr, tcache>>

----------------------------------------------------------------------------
(* Prefetches, the memory side and snoops.                                 *)

\* Mutant: the tag lookup of getNextQueueEntry is left out.
OnItsWay(p) == mshr[p] # FreeMshr \/ p \in wb

\* The block is here, requested, or waiting to be written back.
Redundant(p) == Resident(p) \/ mshr[p] # FreeMshr \/ p \in wb

\* getNextQueueEntry takes a candidate off the queue when no miss or
\* writeback is ready, and drops it if its block is here or on its way.
IssuePrefetch(v, p) ==
  /\ CanPrefetch /\ ~Blocked
  /\ <<v, p>> \in pfq
  /\ pfq' = pfq \ {<<v, p>>}
  /\ IF Redundant(p)
     THEN UNCHANGED <<mshr, tmshr>>
     ELSE /\ TMshrAssert(v)
          /\ mshr' = [mshr EXCEPT ![p].targets = <<PfTarget(v)>>]
          /\ \E src \in Sources \cup {NoSource} :
               tmshr' = AddTimingEntry(tmshr, tcache, v, src)
  /\ UNCHANGED <<blocks, wb, tcache, cur>>

\* A pending writeback of the block goes out before its miss.
SendMiss(p) ==
  /\ mshr[p] # FreeMshr /\ ~mshr[p].inService
  /\ p \notin wb
  /\ mshr' = [mshr EXCEPT ![p].inService = TRUE]
  /\ UNCHANGED <<blocks, wb, pfq, tmshr, tcache, cur>>

SendWriteback(p) ==
  /\ p \in wb
  /\ wb' = wb \ {p}
  /\ UNCHANGED <<blocks, mshr, pfq, tmshr, tcache, cur>>

\* Mutant: handleEvictions does not ask whether the victim is valid.
WritebackAny(victim) == wb \cup {victim.paddr}

\* handleEvictions: a valid victim is written back.
Writeback(victim) == IF victim.valid THEN wb \cup {victim.paddr} ELSE wb

\* The response to p's miss, filled into way w.  The victim is written back
\* and its eviction reported, the fill is reported under the address of the
\* MSHR's first target, the targets are served, and a snooped invalidation
\* (ours, or one that met the request below: withInv) takes the block away
\* again.  Targets left over turn into a new request.  The victim never has
\* an MSHR of its own (NoMissForResidentLine), so allocation succeeds.
RecvTimingResp(p, w, withInv) ==
  LET s       == PSet[p]
      m       == mshr[p]
      v       == Head(m.targets).line
      victim  == blocks[s][w]
      evicted == IF victim.valid THEN NotifyInvalidate(tcache, victim.vaddr) ELSE tcache
      filled  == MoveToTCache(tmshr, evicted, v)
      gone    == withInv \/ m.postInvalidate
      rest    == (IF withInv THEN Tail(m.targets) ELSE <<>>) \o m.deferred
  IN  /\ m # FreeMshr /\ m.inService
      /\ FreeTCacheWays(evicted, v) # {}
      /\ blocks' = [blocks EXCEPT ![s][w] =
           IF gone THEN NoBlock
           ELSE [valid |-> TRUE, paddr |-> p, vaddr |-> v,
                 prefetched |-> Head(m.targets).pf]]
      /\ wb' = Writeback(victim)
      /\ tmshr' = MoveFromTMshr(tmshr, v)
      /\ tcache' = IF gone THEN NotifyInvalidate(filled, v) ELSE filled
      /\ mshr' = [mshr EXCEPT ![p] = [FreeMshr EXCEPT !.targets = rest]]
      /\ UNCHANGED <<pfq, cur>>

\* An invalidating snoop: a request in service is invalidated after its
\* response; a block here goes at once; a writeback of it is dropped.
RecvSnoopInvalidate(p) ==
  /\ mshr' = [mshr EXCEPT ![p].postInvalidate = @ \/ mshr[p].inService]
  /\ wb' = wb \ {p}
  /\ IF Resident(p)
     THEN \E w \in WaysHolding(p) :
            /\ blocks' = [blocks EXCEPT ![PSet[p]][w] = NoBlock]
            /\ tcache' = NotifyInvalidate(tcache, blocks[PSet[p]][w].vaddr)
     ELSE UNCHANGED <<blocks, tcache>>
  /\ UNCHANGED <<pfq, tmshr, cur>>

----------------------------------------------------------------------------

Init ==
  /\ blocks = [s \in Sets |-> [w \in Ways |-> NoBlock]]
  /\ mshr = [p \in PLines |-> FreeMshr]
  /\ wb = {}
  /\ pfq = {}
  /\ tmshr = [i \in TMshrSlots |-> NoEntry]
  /\ tcache = [s \in Sets |-> [w \in Ways |-> NoEntry]]
  /\ cur = NoLine

Next ==
  \/ \E t \in Translations : DemandHit(t[1], t[2])
  \/ \E t \in Translations : DemandMiss(t[1], t[2])
  \/ \E t \in Translations : IssuePrefetch(t[1], t[2])
  \/ \E v \in VLines : NotifySquash(v)
  \/ \E p \in PLines : SendMiss(p)
  \/ \E p \in PLines : SendWriteback(p)
  \/ \E p \in PLines, w \in Ways, withInv \in BOOLEAN : RecvTimingResp(p, w, withInv)
  \/ \E p \in PLines : RecvSnoopInvalidate(p)

Spec == Init /\ [][Next]_vars

\* The memory side drains and answers: the cache reschedules its send event
\* while an entry is ready, and memory answers every request it accepted.
Fairness ==
  \A p \in PLines :
    /\ WF_vars(SendWriteback(p))
    /\ WF_vars(SendMiss(p))
    /\ WF_vars(\E w \in Ways, withInv \in BOOLEAN : RecvTimingResp(p, w, withInv))

FairSpec == Spec /\ Fairness

----------------------------------------------------------------------------
(* Properties.                                                             *)

\* One address space without aliases: what the runs that pass assume.
OneToOne ==
  \A t, u \in Translations : (t[1] = u[1]) <=> (t[2] = u[2])

\* The timing cache holds exactly the lines of the L1I, each once: for every
\* set its valid tags are the virtual addresses the blocks were filled with
\* (eip.cc asserts it on every observed access).
Mirrors(tc, bl) ==
  \A s \in Sets :
    /\ \A w \in Ways : bl[s][w].valid =>
         \E x \in Ways : tc[s][x].valid /\ tc[s][x].tag = bl[s][w].vaddr
    /\ \A x \in Ways : tc[s][x].valid =>
         \E w \in Ways : bl[s][w].valid /\ bl[s][w].vaddr = tc[s][x].tag
    /\ \A x, y \in Ways :
         tc[s][x].valid /\ tc[s][y].valid /\ tc[s][x].tag = tc[s][y].tag => x = y

TimingCacheMirrorsL1I == Mirrors(tcache, blocks)

\* No timing MSHR entry outlives the request it times: its line has an MSHR
\* outstanding, it is not in the cache, and no other entry has its tag.
TimingMshrBacked ==
  \A i \in TMshrSlots : tmshr[i].valid =>
    /\ \E p \in Outstanding : <<tmshr[i].tag, p>> \in Translations
    /\ ~CompletedRequest(tcache, tmshr[i].tag)
    /\ \A j \in TMshrSlots : tmshr[j].valid /\ tmshr[j].tag = tmshr[i].tag => i = j

\* The assertion of calculatePrefetch for a miss: whatever demand comes next,
\* if it misses in the L1I its line is not in the timing cache.
MissNotInTimingCache ==
  \A t \in Translations : ~Resident(t[2]) => ~CompletedRequest(tcache, t[1])

\* The assertion of calculatePrefetch for a hit: a demand that hits a
\* prefetched block finds its line in the timing cache.
HitInTimingCache ==
  \A t \in Translations :
    (\E w \in WaysHolding(t[2]) : blocks[PSet[t[2]]][w].prefetched)
      => CompletedRequest(tcache, t[1])

\* "It must return a free entry": the next miss finds a free timing MSHR
\* slot, and a fill finds a free timing cache way whichever block the
\* replacement policy evicts for it.
FreeEntryWhenNeeded ==
  /\ ~Blocked => FreeTMshrSlots(tmshr) # {}
  /\ \A p \in Outstanding, w \in Ways :
       LET b == blocks[PSet[p]][w]
       IN  FreeTCacheWays(IF b.valid THEN NotifyInvalidate(tcache, b.vaddr) ELSE tcache,
                          Head(mshr[p].targets).line) # {}

\* handleFill and handleEvictions: a line with a miss outstanding is not in
\* the cache, in one way only if it is, and once its request is on its way
\* no writeback of it is left in the write buffer.
NoMissForResidentLine ==
  \A p \in PLines :
    /\ Resident(p) => mshr[p] = FreeMshr
    /\ \A w, x \in WaysHolding(p) : w = x
    /\ mshr[p].inService => p \notin wb

\* While a line is in the timing tables, through its move from one to the
\* other, its entry keeps the source the prefetch was issued with and never
\* forgets that the line was accessed.
EntryOf(v) ==
  {tmshr[i] : i \in MshrMatches(tmshr, v)} \cup
  {tcache[VSet[v]][w] : w \in CacheMatches(tcache, v)}

SourceCarried ==
  [][\A v \in VLines : \A e \in EntryOf(v) : \A f \in EntryOf(v)' :
       f.source = e.source /\ (e.accessed => f.accessed)]_vars

\* The timing tables implement EIPLines: at every step each line has at most
\* one entry over both tables, an entry is made by a demand miss or a
\* prefetch, marked by an access, moved whole by the fill, and dropped only
\* with the line.  The mapping forgets slots, ways and sets.
Info(e) == [line |-> e.tag, source |-> e.source, accessed |-> e.accessed]

MshrEntries(tm) == {Info(tm[i]) : i \in {j \in TMshrSlots : tm[j].valid}}

CacheEntries(tc) ==
  UNION {{Info(tc[s][w]) : w \in {x \in Ways : tc[s][x].valid}} : s \in Sets}

Lines == INSTANCE EIPLines WITH
  requested <- MshrEntries(tmshr), cached <- CacheEntries(tcache)

ImplementsLines == Lines!Spec

\* Every request the prefetcher times completes: its timing MSHR entry is
\* eventually moved to the timing cache.
TimedRequestCompletes ==
  \A v \in VLines : OngoingRequest(tmshr, v) ~> ~OngoingRequest(tmshr, v)

\* "If accessed hit, but if not wrong" (notifyInvalidate): a block the
\* cores have demanded is marked accessed, so that its eviction credits the
\* source that prefetched it.
DemandedIsAccessed ==
  \A s \in Sets : \A w \in Ways :
    blocks[s][w].valid /\ ~blocks[s][w].prefetched =>
      \A x \in Ways : tcache[s][x].valid /\ tcache[s][x].tag = blocks[s][w].vaddr
                        => tcache[s][x].accessed

============================================================================
