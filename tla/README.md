# TLA+ models of the instruction front end in gem5: EIP and FDIP

The repository is a fork of gem5 (under `gem5/`) with the QPoints checkpoint
scripts around it.  What it adds to gem5 is an aggressive instruction front end:

* the **Entangling Instruction Prefetcher** (EIP) of the L1 instruction cache,
  `gem5/src/mem/cache/prefetch/eip.{hh,cc}`;
* a decoupled, fetch-directed front end (FDIP) with a fetch target queue,
  `gem5/src/cpu/o3/fetch.{hh,cc}`;
* the EMISSARY replacement policy,
  `gem5/src/mem/cache/replacement_policies/lru_emissary_rp.cc`;
* probes that carry fills, invalidations and squashes from the cache and the
  core to the prefetcher (`mem/cache/base.cc`, `mem/cache/prefetch/base.cc`).

This project models the EIP, because it is the part with the most state, the
most assertions and the most callers, and then the front end whose fetches and
squashes drive it.  Paths below are relative to `gem5/src/`.

## 1. Inventory

| Component | State | Operations | Interacts with | What makes it correct |
|---|---|---|---|---|
| EIP timing tables (`eip.hh` 400-630) | `l1i_timing_mshr_table`, `l1i_timing_cache_table` | add, access, move at a fill, invalidate | the L1I through `ppHit`, `ppMiss`, `ppFill`, `ppInvalidate` | a line in flight has at most one entry, a line in the cache exactly one; a free entry whenever one is needed |
| EIP entangled table (`eip.hh` 632-958) | sets of ways with a tag, a format, destinations with confidence, a basic block size; a FIFO pointer per set | add destination, add size, look up, update confidence | fed by the history buffer, read by `calculatePrefetch`, corrected at evictions | the destinations fit the format's bit budget and decode to what was stored; nothing is lost while there is room |
| EIP history buffer (`eip.hh` 195-406, 960-1031) | circular buffer of block heads with time differences, current block, consecutive count | add, find source, find block to merge, squash | timing tables (positions stored in entries), entangled table, core squashes | the head of a block that ends is still there; time differences add up to real time; a position remembered across a miss still means the same line when it is used |
| Prefetch queues (`prefetch/queued.{hh,cc}`) | `pfq`, `pfqMissingTranslation`, throttle counters | `notify`, `insert`, `getPacket`, `finish`/`translationComplete` | the cache's send event, the TLB's callbacks | bounded, no duplicates, every TLB answer finds its packet, ready packets are issued |
| Prefetcher base class (`prefetch/base.cc`) | counters, listeners | `probeNotify`, `observeAccess`, `notifyFill`, `notifyInvalidate`, `notifySquash` | cache probes, core squash probe | each event reaches the prefetcher once, with the line's own address |
| L1I cache (`mem/cache/base.cc`, `cache.cc`, `mshr.cc`) | tag store, MSHRs, write buffer | timing requests, responses, snoops, evictions, sends | CPU port, memory port, prefetcher | no miss for a resident line, no fill behind an unsent writeback, deferred targets served |
| MSHR queue, write queue (`mshr_queue.*`, `write_queue.*`, `queue.hh`) | allocated, ready and free lists, reserves | allocate, mark in service, deallocate | cache | capacity, ordering by ready time |
| FDIP front end (`cpu/o3/fetch.cc`) | `prefetchBufferPC` (the lines predicted), the fetch buffers, `memReq`, `retryPkt`, per-thread status | predict ahead, fetch, request a line, finish translation, complete, retry, squash, drain | branch predictor, TLB, L1I, decode, commit | queue, buffers and requests stay in step; a late answer is told from a wanted one; no line is forgotten and fetch never hangs |
| EMISSARY policy (`lru_emissary_rp.cc`) | starvation and preserve bits, LRU time | touch, reset, choose victim | tag store | never more preserved lines than allowed; a victim always exists |
| Branch predictors, O3 back end, crossbars and snoop filter, packet queues, event queue, memory controller, other prefetchers | | | | mostly upstream gem5 |
| QPoints scripts (`sim.py` and others) | | | | pure tooling |

The hard behaviours are these.  The simulator is single-threaded, but its
components interleave through events: a miss, its response, the eviction it
causes, snoops from other caches, the prefetch issued when the bus is free, TLB
answers and squashes arrive in any order.  The prefetcher keeps a *copy* of what
the cache holds, indexed by another kind of address, that is only as good as the
order of the probes.  Decisions taken at one event (the source of a prefetch, a
queued candidate, a history position) are used many events later.  Tables are
small and asserted to have room.  The fetch stage keeps four lists that must
stay in step while requests it no longer wants are still in flight, and tells
late answers from wanted ones by comparing pointers.  `PROJECT.json` lists these hazards one by one,
at the line where each would bite.

## 2. Modules

### EIPTiming: timing tables and the L1I

| Variable | Code |
|---|---|
| `blocks[s][w]` | tag store of the L1I: valid, physical tag, the virtual address recorded at the fill (`CacheBlk::setVAddr`), the prefetched mark |
| `mshr[p]` | the MSHR of physical line `p`: targets, deferred targets, in service, post-invalidate (`FreeMshr` = none) |
| `wb` | lines in the write buffer |
| `pfq` | candidates in the prefetch queue, as (virtual, physical) pairs |
| `tmshr`, `tcache` | `l1i_timing_mshr_table`, `l1i_timing_cache_table` |
| `cur` | the line `l1i_last_basic_block + l1i_consecutive_count` |

| Action | Code |
|---|---|
| `DemandHit`, `DemandMiss` | `BaseCache::recvTimingReq` with the probe it fires, `Queued::notify` and `EIP::calculatePrefetch` |
| `IssuePrefetch` | the prefetch branch of `getNextQueueEntry`, with the notification that creates the timing entry |
| `NotifySquash` | `EIP::notifySquash` |
| `SendMiss`, `SendWriteback` | `sendMSHRQueuePacket`, `sendWriteQueuePacket` |
| `RecvTimingResp` | `recvTimingResp`: `handleFill`, the eviction, `ppInvalidate`, `ppFill`, servicing of targets, invalidation of the block again, promotion of deferred targets |
| `RecvSnoopInvalidate` | `recvTimingSnoopReq` and `handleSnoop` for an invalidating snoop |

One event handler of the simulator is one action, with every probe it fires.
The code's assertions are guards, since a simulation that fails one stops; the
properties then say that the guard was true.  Hits on blocks that are not marked
prefetched do not reach the prefetcher (`prefetch_on_pf_hit`) and change
nothing.  The history buffer and the entangled table appear only through their
effect: any set of candidates may be queued, from any source.  The replacement
policy may choose any way.  `Translations` says which virtual line is backed by
which physical line; without aliases it is one-to-one (`OneToOne`).

### EIPLines: what the timing tables promise

Every line has at most one entry: made when the line is requested, marked by a
core's access, kept through the fill and dropped when the line leaves the cache.
Two sets, `requested` and `cached`, and no slots, ways, tag store or MSHRs.
`EIPTiming` implements it: `Lines` instantiates `EIPLines` with the valid entries
of the two tables, and `ImplementsLines` is its specification.

### EIPEntangled: the entangled table

`table` and `fifo` are the arrays of the same names.  `AddEntangledTable`,
`AddBbsizeTable` and `UpdateConfidence` are the three functions that write them.
The loop that evicts destinations until the newcomer fits is stated by its
result: `Kept` is the largest set of slots, closed under the eviction order,
that fits with the newcomer.  The hash is a parameter (`SetOf`, `TagOf`): what
matters is which lines collide.  The bit widths are a parameter too (`Span[f]`
is 2 to the width of format `f`).  A slot without confidence keeps a stale
address in the code that no function reads; the model writes 0 there.
`UpdateConfidence` may name any set, way and line, because the source remembered
by a prefetch may have been relocated or replaced since.

### EIPHistory: the history buffer

| Variable | Code |
|---|---|
| `hist`, `head`, `headTime` | `l1i_hist_table` and its head |
| `lastBB`, `count`, `merge` | `l1i_last_basic_block`, `l1i_consecutive_count`, `l1i_basic_block_merge_diff` |
| `line` | the timing tables as `EIPLines` has them, with the timestamp and the history position of an entry |
| `now`, `events` | the cycle; accesses and squashes so far, for the bound |
| `when`, `shifted` | ghosts: when a slot's line was added; which slots had time added by a squash |

`Demand` is `calculatePrefetch` (same line, next line, new block: the end of the
old one, merging, insertion with its empty padding entries), `NotifySquash` the
squash of the ring and of the current block, `NotifyFill` the search for a
source, `Prefetch` and `NotifyInvalidate` what they do to `line`.  The loops over
the ring are stated by what they find, as steps back from a slot.  `instr_id` of
an access is never initialised (`base.hh:142`), so it is any value.  The
entangled table enters through `TableFormats` and `TableSizes`, any answer of
which an access may get.  Lines 0 and 1 do not exist (0 marks an empty slot),
and code lies further from address zero than a block of it is long
(`TextAssumption`, see Findings).  The loops that sum over the ring are the
recursive function `Elapsed`.
Two fields the code leaves in a cleared slot without reading them again, `format`
and `num_dst`, are 0 in the model, and `num_dst` saturates where it stops
mattering.

### FetchBuffers: the fetch stage with FDIP

| Field of `f` | Code |
|---|---|
| `status`, `pc` | `fetchStatus`, the line of `pc` |
| `ftq` | `prefetchBufferPC` |
| `buf` | `fetchBufferPC`, `fetchBufferReqPtr`, `fetchBufferValid` |
| `memReq`, `retry`, `blocked` | `memReq`, `retryPkt`, `cacheBlocked` |
| `prefetching`, `fresh` | `prefPC` is not 0; it is still the program counter |
| `drain` | `stalls.drain` |
| `strayed` | ghost: a line outside memory was met since the last squash |

`trans` and `sent` are the requests in the TLB and in the cache, `event` the one
`finishTranslationEvent`, `squashDue` the squash that commit sends after a drain
stall: it arrives in some later tick, and the ticks before it see the stall
alone.  `drained` says whether the CPU has signalled that it is drained.

| Action | Code |
|---|---|
| `Tick` | `tick`: `checkSignalsAndUpdate`, `addToFTQ`, `fetch`, `pipelineIcacheAccesses`, and the CPU's `tryDrain` |
| `FinishTranslation`, `FinishTranslationEvent` | `finishTranslation`, called by the TLB or by the event |
| `ProcessCacheCompletion` | `processCacheCompletion` |
| `RecvReqRetry` | `recvReqRetry` |
| `DrainStall`, `DrainResume` | `commitDrained` with its squash, `drainResume` |

A request is a line and an id that stands for its pointer; an id is free when
nobody holds the request any more.  What is predicted is left open: the queue may
grow by any lines, fetch may stop anywhere in its line or go to any other, and
any branch may turn out not to be the predicted one.  Only the order of events
within a tick and the guards are the code's.  A failed assertion ("This element
should exist in the memReq[tid] list") stops the simulation, so it is a guard;
`CutIsListed` says that the guard is true, except in the two cases under
Observations.
`FaultLines` do not translate, `BadLines` translate to an address outside memory.
A line is a fetch buffer (the two have the same size in the configurations of
the repository).

Left out: instructions, macro-operations and decode stalls (they decide only how
far a fetch gets), quiesce, several threads, the path without FDIP (`add_front`,
`ItlbWait`), the perfect instruction cache, starvation requests of EMISSARY, and
the CPU going to sleep.

### PrefetchQueue: `queued.cc` and the send event

| Variable | Code |
|---|---|
| `pfq`, `pfqMissingTranslation` | the lists of the same names |
| `translating` | the requests the TLB has accepted |
| `issued` | `issuedPrefetches` is not 0 |
| `cache` | the MSHRs to be sent (`pending`) and those sent, whether one is out of targets (`noTargetMSHR`), the entries of the write buffer |
| `sendEvent` | the pending send event of the memory-side port, or the retry it waits for |
| `halted` | whether the CPU makes no access for now |

| Action | Code |
|---|---|
| `Notify` | `recvTimingReq` of an access that the prefetcher sees: `Queued::notify` with `insert` for every candidate, the MSHR or target of a miss, the scheduling at the end |
| `Unobserved` | `recvTimingReq` of an access that it does not see |
| `GetPacket` | `sendDeferredPacket` when no miss and no writeback is ready: the test of the MSHRs and of blocking in `getNextQueueEntry` (`base.cc:970`), `getPacket` with both calls of `processMissingTranslations`, the MSHR of the prefetch, rescheduling by `nextQueueReadyTime` (`base.cc:1982-1996`) |
| `SendMiss`, `SendWriteback` | `sendDeferredPacket` for an MSHR and for a writeback |
| `RecvTimingResp` | `recvTimingResp`: the MSHR is deallocated, which may schedule a send for a prefetch (`base.cc:680-687`), or sent again; the writeback of the block replaced |
| `SnoopWriteback` | `recvTimingSnoopReq` for a line in the write buffer |
| `Finish` | `finish` and `translationComplete` |
| `HaltOrResume` | the CPU (external) |

When too few MSHRs are free or the cache is blocked, the send event issues
nothing and is not scheduled again; a ready prefetch then depends on
`recvTimingResp`, an access or a send.  This is why the MSHRs and the write
buffer are part of the model, as counters: lines and what the cache holds are in
`EIPTiming`.  A TLB may answer inside `getPacket` or later (`Finish`).  The loops
over a queue or over the candidates are recursive functions with one value per
round (`Without`, `processMissingTranslations`, `InsertCandidates`).  The EIP of
the default configuration has no TLB registered: its page-crossing candidates
are dropped in `notify` (`HasTLB = FALSE`); the runs register one, which is the
harder case.

Left out: packet priorities (every prefetcher of the repository queues with
priority 0, so the lists are FIFO), the ready times of packets, MSHRs and
writebacks (constant latencies: what is queued is ready in the end), the number
of targets of an MSHR (a response may be the last one or not), writebacks from
above and forwarded snoops (an L1I gets none), statistics.  The write buffer
holds at most `write_buffers` entries and the reserve of one for every MSHR.

### MC modules

`MCEIPTiming`, `MCEIPEntangled`, `MCEIPHistory`, `MCFetchBuffers` and
`MCPrefetchQueue` define the constants of the runs: translations, collisions,
formats, lines, pages and the symmetry set.

### Mutants

Operators whose comment begins with "Mutant" are not part of the specification.
Each is a faulty version of the definition that follows it; replacing the
definition by it makes one property fail, which shows that the property depends
on that code.

## 3. Runs

| Run | Instance | States | Shows |
|---|---|---|---|
| `EIPTiming` | 3 lines, 1 set of 2 ways, 2 MSHRs, 2 targets, queue of 1, symmetry | 157 531 | `TimingCacheMirrorsL1I`, `TimingMshrBacked`, `FreeEntryWhenNeeded`, `NoMissForResidentLine`, `MissNotInTimingCache`, `SourceCarried`, and the refinement `ImplementsLines` |
| `EIPTimingLive` | 2 lines, 1 way, 3 MSHRs, fairness | 16 704 | `TimedRequestCompletes`; `SourceCarried` and `ImplementsLines` with prefetches issued while a miss is in flight |
| `EIPTimingHomonym` | one virtual line, two physical | | violates `MissNotInTimingCache` |
| `EIPTimingSynonym` | two virtual lines, one physical | | violates `HitInTimingCache` |
| `EIPTimingCredit` | 2 lines, no aliases | | violates `DemandedIsAccessed` |
| `EIPEntangledFormats` | 6 lines, 1 entry, 3 formats, 3 confidence levels | 4 152 | `FormatAssertion`, `DistinctDestinations`, `NothingInvented` |
| `EIPEntangledWays` | 4 lines, 3 ways, 1 destination each | 37 064 | `NothingHidden`, `EvictsOnlyWhenFull` |
| `EIPHistory` | lines 12, 13 and 16, ring of 3 slots, times of 3 values, 4 accesses and squashes, 3 cycles | 1 776 944 | `BlockHeadInHistory`, `TimeKept`, `LearntIsLegal`, `EntangledInTime` |
| `FetchBuffers` | 4 lines (one faults, one outside memory), queue of 2 lines, 2 requests, fairness | 50 434 | `BuffersFollowQueue`, `HeadAtPc`, `CompletionFindsBuffer`, `CutIsListed`, `RetryIsHead`, `NoLineForgotten`, `FetchProgress` |
| `FetchDrain` | 1 line, 2 requests | | violates `DrainedIsQuiet` |
| `PrefetchQueue` | 4 blocks in 2 pages, queues of 2, 4 MSHRs of which 1 is reserved, 1 write buffer, fairness | 52 352 | `QueuedOnce`, `TranslationFindsPacket`, `IssueKeepsTheRest`, `SendScheduled`, `NoLostWakeup`, `ReadyPacketLeaves` |
| `PrefetchQueueOverflow` | 3 blocks of another page, queues of 2 | | violates `TranslationFindsPacket` |

**Why the bounds are enough to be interesting.**  Sets of a cache do not
interact, so one set is modelled.  Three lines over two ways give evictions of
lines that are prefetched, accessed, or requested again while their writeback
waits; two MSHRs give concurrent misses and the blocked cache; two targets give
coalescing of a demand and a prefetch, deferred targets and re-requests.  With
two MSHRs a prefetch is issued only when no miss is outstanding;
`EIPTimingLive` has three, and there a prefetch meets misses in flight.  The
timing MSHR table has exactly as many slots as the cache has MSHRs, so a leaked
entry shows at once.  `EIPEntangledFormats` has lines at every distance that the
three formats tell apart and two lines that share an entry;
`EIPEntangledWays` has more tags than ways, one of them the tag of an empty
entry.  In `PrefetchQueue` `pfq` overflows and `pfqMissingTranslation` does not;
`PrefetchQueueOverflow` is the instance in which it does.  A prefetch needs two
free MSHRs there besides the one it takes, so that the send event finds packets
it may not issue with two misses outstanding, with the cache blocked for MSHRs,
for targets or for the one write buffer.  `MaxTargets` and
`MaxCandidates` are bounds of the model; `MaxTargets` plays the part of
`tgts_per_mshr` and blocks the cache as it does.  In `EIPHistory` three cycles
are enough for both kinds of times to overflow, four events for a block to be
entered, squashed, resumed and ended, and three slots for the ring to wrap
between the access of a line and its fill.  Two requests in `FetchBuffers` are a
wanted one and a stale one of the same line, or the head and a line ahead of it;
the safety properties are proved for every bound.

**Fairness.**  In `EIPTiming` misses and writebacks are sent (the cache
reschedules its send event while an entry is ready) and responses come (memory
answers every request it accepted).  In `PrefetchQueue` a pending send event
happens (the event queue serves it): it sends the misses and writebacks, and
tries a prefetch when none is left; a TLB answers.  Memory answers each request
and a response serves at least one target, so a miss that is answered and sent
again for the rest has its last response in the end; without new accesses this
is strong fairness of the deallocation (while the CPU goes on, its accesses may
add targets for ever).  Nothing makes a core
access the cache, so no demand, prefetch or squash is fair.  In `FetchBuffers`
the clock ticks and not every tick brings a squash or an interrupt (fairness of
just any tick could be met by squashes alone); the TLB answers each request, the
cache answers each request it accepted, and a cache that refused one sends a
retry it will accept in the end.  `FetchProgress` promises nothing of a stage
that is squashed again and again, drained, or outside memory.

**What the less obvious properties say.**  `TimeKept` compares the sums of the
stored time differences with the real times in the ghost `when`: they never
overstate it, and are exact unless a squash removed what lay between.  The
newest entry that a squash leaves is exempt: its own difference takes up the
time of the squashed ones, which lie after it and not before, so distances to
older entries come out too long.  `EntangledInTime` says of every fill that the
source it notes was fetched early enough, with the two exceptions it names: such
a stretched entry, and a latency that does not fit a timestamp.
`NoLineForgotten` is what makes the fetch stage live: a buffer that waits has a
request under way whose answer will be recognised.  `CutIsListed` is the
assertion of the fetch stage that a request to be dropped is in the list that is
cut there.  `NoLostWakeup` says that no access, send or response leaves a packet
which could be issued without a send event, whatever blocked the cache before;
only a translation that completes late does.  `ReadyPacketLeaves` follows the
packets once the CPU has halted for good: what is ready leaves if a send is
pending or a miss is outstanding, although the event may first find the MSHRs
short and lapse.

### Findings

1. *Homonyms.*  The timing cache is tagged by virtual line without an address
   space; the L1I is physical.  Two processes with different code at one virtual
   line make `assert(l1i_find_timing_cache_entry(line_addr) == MAX_NUM_WAY)`
   (`eip.cc:145`) fail.
2. *Synonyms.*  A physical line prefetched under one virtual address and fetched
   under another makes the assertion for hits (`eip.cc:147`) fail.
3. *Lost credit.*  `calculatePrefetch` returns early for the current line
   (`eip.cc:152`).  If a prefetch brings the current line in again, its use is
   not recorded and the prefetch is counted as wrong at its eviction, against
   "If accessed hit, but if not wrong" (`eip.cc:385`).
4. *Packet evicted under translation.*  `addToQueue` drops the oldest packet of
   a full `pfqMissingTranslation` although a TLB is translating it; the answer
   then fails `assert(it != pfqMissingTranslation.end())` (`queued.cc:308`).

5. *Drained with a request under way.*  A stage stalled for a drain still
   requests the next line in the tick in which it becomes `Blocked`
   (`pipelineIcacheAccesses` does not test for it), and `isDrained` does not look
   at `memReq`.  If the TLB takes time, the CPU signals that it is drained with
   the request under way, against `assert(memReq[i].empty())` (`fetch.cc:803`).

Observation on the history buffer, met in the proof of `LearntIsLegal`:
`notifySquash` resumes the block of the newest slot that is left
(`eip.cc:318-327`).  If every slot was squashed that slot is empty, with tag 0,
and it passes for the head of a block at line 0 when the block being fetched is
at least as long as the line of the squash is far from address zero; the size of
that block would then be learnt for line 0.  Code at a normal address is never
that near; `TextAssumption` says so.

Observations on the fetch stage, without a run.  A line outside memory pops the
*youngest* request from `memReq` (`fetch.cc:1309`), not the one that failed, and
overwrites the status even if the head waits for a retry; the retry is then
thrown away as if it had been squashed (`fetch.cc:3613`).  Both last until the
next squash, which the comment there waits for; properties that do not survive it
say so with `strayed`.  A second fault that finds the fetch queue full is dropped
if the one event is taken (`fetch.cc:1525`).  A stalled stage whose head has
arrived goes back to `Running` and fetches on (`fetch.cc:3132`).  A stage that
waits for the squash of a trap becomes `Blocked` when a drain stall reaches it
(`fetch.cc:2137-2147` does not exempt `TrapPending`), issues requests again behind
the faulting line (`fetch.cc:3788`), and the answer to one of those may look for
a request that is no longer listed.  `CutIsListed` exempts this case
(`TrapTaken`) and a line outside memory (`strayed`).

Other observations on the prefetcher, without a run: `missingTranslationQueueSize` is a parameter
that no code reads, so `pfqMissingTranslation` is bounded by `queue_size`
instead; `alreadyInQueue` advances its iterator once more after a match; no send
event is scheduled for packets that only wait for a translation, nor after one
completes late, so they wait for other traffic; a squash adds time differences
without masking them; the source of a candidate is looked up by address in
`pfmq`, and one that is not found gets set 0 and way 0 rather than no source.

## 4. Proofs

`EIPTimingProofs` proves, for every number of lines, sets, ways, MSHRs and
targets, from `ConstantsAssumption` and `OneToOne`:

| Theorem | States |
|---|---|
| `Invariance` | `Spec => []Inv` |
| `TypeCorrect` | `Spec => []TypeOK` |
| `MirrorCorrect` | `Spec => []TimingCacheMirrorsL1I` |
| `TimingMshrCorrect` | `Spec => []TimingMshrBacked` |
| `NoMissForResident` | `Spec => []NoMissForResidentLine` |
| `AccessAssertions` | both assertions of `calculatePrefetch` on the timing cache |
| `FreeEntry` | `Spec => []FreeEntryWhenNeeded` |

`ConstantsAssumption` says that the set index lies in the page offset, so both
addresses of a line index the same set, and that the timing MSHR table has at
least as many slots as the cache has MSHRs.  Both are properties of the
configuration (64 sets of 64-byte lines, 4 KiB pages).  `OneToOne` excludes
aliases; the runs `EIPTimingHomonym` and `EIPTimingSynonym` show that it is
needed.

The inductive invariant `Inv` is the conjunction of

* `TypeOK`;
* `WellPlaced(blocks)`: a valid block is in the set its line indexes, under a
  virtual address that translates to it, and in one way only;
* `TimingCacheMirrorsL1I`: needed for the tables, preserved because an eviction
  is reported before the fill and under the address the block was filled with;
* `MshrSound`: an MSHR in use has a first target, all its targets are addresses
  of its line, and some are deferred only behind an invalidation.  Without it the fill could be reported under a foreign line;
* `MissNotResident`: no MSHR for a resident line.  It makes a fill hit a set
  that has no copy of the line, so that the mirror stays one-to-one;
* `RequestBehindWriteback`: a request in service has no writeback waiting, which
  is what `handleFill` needs;
* `UniqueTags(tmshr)` and `TagsOutstanding`: a timing MSHR entry belongs to an
  outstanding miss, one each.  With `MshrsBounded` a counting argument gives the
  free slot: valid slots inject into outstanding misses, of which there are fewer
  than `NumMshrs` while the cache is not blocked;
* `MshrsBounded`.

The free way at a fill is the other counting argument: valid timing entries of
a set inject into the valid blocks of the set other than the victim.  Lemmas
about the table operators (`MoveToTCacheEffect`, `AddTimingEntryEffect` and so
on) say what each returns once and for all; there is one lemma per action of
`Next`, and `NextInv` puts them together.

`EIPLinesProofs` proves, under the same assumptions,

| Theorem | States |
|---|---|
| `Refinement` | `Spec => ImplementsLines` |
| `SourceIsCarried` | `Spec => SourceCarried` |

Under `Inv` the valid entries of a table and the entries of `EIPLines` are the
same thing, since no line has two.  One lemma per table operator says which
entries it adds, marks, moves or drops; with them each action of `EIPTiming` is a
step of `EIPLines` or leaves both sets alone.  A response is the long case: it
evicts a victim, moves or makes an entry and may drop it at once, and the lemmas
are applied one after the other.

`FetchBuffersProofs` proves, for every set of lines and every bound, from
`FetchAssumption`:

| Theorem | States |
|---|---|
| `FetchInvariant` | `Spec => []IInv` |
| `FetchTypes` | `Spec => []TypeOK` |
| `FetchFollowsQueue` | `Spec => []BuffersFollowQueue` |
| `FetchHeadAtPc` | `Spec => []HeadAtPc` |
| `FetchCompletion` | `Spec => []CompletionFindsBuffer` |
| `FetchRetry` | `Spec => []RetryIsHead` |

`IInv` adds to these properties that the requests of the buffers are distinct
(`Distinct`), that `memReq` lists requests of unfilled buffers in the order of
the buffers, so that cutting both at one request cuts them at the same place
(`Expected`, `InOrder`), that nobody still works on the request of a filled
buffer (`Answered`), that no request is in TLB and cache at once, and that
between two ticks an empty queue is one a squash has left, so that it grows from
the program counter (`Restarted`): without it `HeadAtPc` would not survive
`addToFTQ`.  A tick is proved stage by stage: each of
squash, growth, fetch, refill and issue keeps the part of `IInv` that speaks of
the stage alone.

`FetchLinesProofs` builds on it:

| Theorem | States |
|---|---|
| `FetchForgetsNoLine` | `Spec => []NoLineForgotten` |
| `FetchCutsListed` | `Spec => []CutIsListed` |

`NoLineForgotten` is not inductive on its own, even with `IInv`: a response must
not fill a buffer whose line cannot be fetched, and a retry must be taken when it
comes.  `Tracked` adds that every unfilled buffer has its request in `memReq`,
also one whose line faults (which is `CutIsListed`), that only lines that translate into memory are filled, in
the cache or kept for a retry, that a stage which has not strayed and keeps a
packet is in `IcacheWaitRetry`, and that only faults wait in
`finishTranslationEvent`.  `FetchAssumption` says that `None` is not a request.

`EIPEntangledProofs` proves, for every hash, number of ways, formats and
confidence levels, from `EntangledAssumption`:

| Theorem | States |
|---|---|
| `Invariance` | `Spec => []IInv` |
| `TypeCorrect` | `Spec => []TypeOK` |
| `NothingIsHidden` | `Spec => []NothingHidden` |
| `DestinationsAreDistinct` | `Spec => []DistinctDestinations` |
| `FormatAssertionHolds` | `Spec => []FormatAssertion` |
| `EvictsOnlyFromFullSets` | `Spec => EvictsOnlyWhenFull` |
| `NothingIsInvented` | `Spec => NothingInvented` |

`IInv` says of every entry that its live destinations are no more than the
number of its format (`Budget`) and pairwise different in the bits that format
keeps (`Distinct`), and of every set that an entry with information is the
lowest way of its tag (`Visible`).  `FormatAssertion` speaks of the format of a
*decoded* destination; that it is at least the entry's is arithmetic on `Span`.
`EntangledAssumption` says that a format with more slots has a span that divides
the larger ones, as powers of two do, and that no line exceeds the widest.
The heart of the proof is `AddNewEffect`: the slots that survive the eviction
loop, recompressed, decode to the same lines, stay different, and leave room for
the newcomer.

`EIPHistoryProofs` proves, for rings of any size, any overflow bounds, any
answers of the entangled table and any instruction ids, from `HistoryAssumption`
and `TextAssumption`:

| Theorem | States |
|---|---|
| `HistoryInvariance` | `Spec => []IInv` |
| `HistoryTypeCorrect` | `Spec => []TypeOK` |
| `AssertionHolds` | `Spec => []BlockHeadInHistory` |
| `TimeIsKept` | `Spec => []TimeKept` |
| `WhatIsLearntIsLegal` | `Spec => []LearntIsLegal` |
| `SourcesAreInTime` | `Spec => EntangledInTime` |

`IInv` adds to `TypeOK` and `LearntIsLegal`: the block being fetched, or the one
it was merged with, has a slot (`BlockKnown`); it goes from a line to a line and
is shorter than the distance `TextAssumption` promises (`BlockLegal`), so its
head is never mistaken for an empty slot; the differences of the slots newer
than an entry add up to the time from it to the last insertion (`TimesAdd`,
stated from the head of the ring, since an insertion and a squash move the
head); and no line is issued in the future (`IssuedBefore`).  `TimeKept` between
two entries is the difference of two such sums.

`PrefetchQueueProofs` proves, for queues of any size, any addresses and pages,
any answers of the TLB and any number of MSHRs and write buffers, from
`QueueAssumption`:

| Theorem | States |
|---|---|
| `QueueInvariance` | `Spec => []IInv` |
| `QueueTypeCorrect` | `Spec => []TypeOK` |
| `AddressesQueuedOnce` | `Spec => []QueuedOnce` |
| `TranslationsFindPackets` | `~HasTLB \/ Fits => (Spec => []TranslationFindsPacket)` |
| `GetPacketKeepsTheRest` | `Spec => IssueKeepsTheRest` |
| `SendsAreScheduled` | `Spec => []SendScheduled` |
| `WakeupsAreNotLost` | `Spec => NoLostWakeup` |

`IInv` says that the queues are bounded, that each holds an address once and
they share none, that the packets waiting for a translation are for
page-crossing targets, and, if `Fits`, that every request of the TLB has its
packet; of the cache, that it has no more misses than MSHRs and that
`SendScheduled` holds.  `Fits` says that `pfqMissingTranslation` has room for all page-crossing
targets together; an injection of the queue into them then shows that the queue
is not full when another one comes.  The run `PrefetchQueueOverflow` shows that
the hypothesis is needed; without a TLB (the default of the EIP) it holds.  In
the loop of `processMissingTranslations` the invariant of a round says besides
that the packets not yet visited are still queued, and that a `pfq` with room for
`max` packets has lost none.  `NoLostWakeup` goes through the actions: each of
them that can make the cache willing to prefetch or a packet ready schedules a
send, or finds one pending by `SendScheduled`.

`Loops` holds what these proofs share.  The provers cannot instantiate the
library's induction theorems, so induction is a lemma about sets of numbers
(`UpTo`, by the least counterexample), and `LoopExists` says that a loop whose
rounds stay in a set has values, so that a recursive function is what its
equation says.

**Only model-checked.**  Liveness and everything that rests on fairness is out of
the prover's reach (`TimedRequestCompletes`, `ReadyPacketLeaves`,
`FetchProgress`).  Every other property of a passing run is stated by a theorem.

## 5. Not modelled

gem5 is a simulator of about a million lines, most of it instruction sets,
devices and GPU models that hold no protocol of this repository; the models cover
the parts the fork adds or changes and the upstream code they meet.  Within that:
error responses, uncacheable accesses, cache maintenance and upgrades in the L1I
(an instruction cache sees reads, and the fetch stage checks that an address is
in memory before it sends it); EMISSARY; the branch queue and the branch
predictors (any prediction is admitted); the crossbar and snoop filter (their
invalidating snoops may arrive at any time in `EIPTiming`); the event queue, the
memory controller, the pipeline behind fetch, statistics, and the scripts.
`PROJECT.json` gives the reason for each.

## 6. Plan

1. **Done**: `EIPTiming`, `EIPLines` and the refinement, `EIPEntangled`,
   `EIPHistory`, `PrefetchQueue`, `FetchBuffers`; the safety and action
   properties of all of them proved.
2. Theorems: that an entry of `EIPHistory`'s `line` behaves as `EIPLines` says,
   and that what is handed on is an input `EIPEntangled` admits; the safety part
   of `FetchProgress` (a running stage is never without something to do).
3. `EIP`: history, entangled table and timing tables composed behind the probes;
   implements `EIPTiming` (`cur` and the candidates become functions of the
   history and the table).
4. `Emissary`: victim selection; implements "any way" of `EIPTiming`.
5. The branch queue of the fetch stage with the predictor's speculative history:
   sequence numbers of predictions against squashes from decode and commit.
6. L1I with the lists of the MSHR queue; then the crossbar and snoop filter.

## 7. Running

    tlc -workers 2 -config EIPTiming.cfg MCEIPTiming
    tlc -workers 2 -config EIPHistory.cfg MCEIPHistory
    tlc -workers 2 -config FetchBuffers.cfg MCFetchBuffers
    tlapm EIPTimingProofs.tla
    tlapm EIPLinesProofs.tla
    tlapm FetchBuffersProofs.tla
    tlapm FetchLinesProofs.tla
    tlapm EIPEntangledProofs.tla
    tlapm EIPHistoryProofs.tla
    tlapm PrefetchQueueProofs.tla
    tlapm Loops.tla
