----------------------------- MODULE EIPHistory -----------------------------
(***************************************************************************)
(* The history buffer of the Entangling Instruction Prefetcher: a ring of  *)
(* the basic blocks fetched last, from which a fill picks the source that  *)
(* was fetched long enough before its line to have prefetched it in time.  *)
(*                                                                         *)
(* Times are stored as differences between neighbours, so every insertion, *)
(* squash and overflow has to keep their sums right.  The timing tables    *)
(* enter as what EIPLines says of them: one state per line.  The entangled *)
(* table enters through the block sizes and formats it may answer.         *)
(***************************************************************************)
EXTENDS Integers, FiniteSets, FiniteSetsExt

CONSTANTS
  Lines,             \* line addresses
  HistSize,          \* L1I_HIST_TABLE_ENTRIES
  MergeEntries,      \* L1I_BB_MERGE_ENTRIES
  NumSearches,       \* L1I_HIST_NUM_SEARCHES
  BbSizeOverflow,    \* L1I_MERGE_BBSIZE_MAX_VALUE + 1
  TimeDiffOverflow,  \* L1I_TIME_DIFF_OVERFLOW
  TimeOverflow,      \* L1I_TIME_OVERFLOW
  NumFormats,        \* L1I_ENTANGLED_NUM_FORMATS
  Format,            \* Format[a, b]: l1i_get_format_entangled
  TableFormats,      \* <<format, destinations>> the entangled table may have for a line
  TableSizes,        \* block sizes it may have
  InstrIds,          \* instr_id of an access: never initialised, so any
  SquashIds,         \* sequence numbers of squashing instructions
  NumMshrs,          \* MSHRs of the cache
  MaxTime,           \* model bound on the clock
  MaxEvents          \* model bound on the accesses and squashes

Slots == 0 .. HistSize - 1

NoPos == HistSize

\* Lines 0 and 1 are never fetched: 0 marks an empty entry.
ASSUME HistoryAssumption ==
  /\ Lines \subseteq Nat \ {0, 1}
  /\ HistSize \in Nat \ {0, 1}
  /\ MergeEntries \in 1 .. HistSize - 1
  /\ NumSearches \in Nat \ {0}
  /\ BbSizeOverflow \in Nat \ {0}
  /\ TimeDiffOverflow \in Nat \ {0, 1}
  /\ TimeOverflow \in Nat \ {0}
  /\ NumFormats \in Nat \ {0}
  /\ Format \in [Lines \X Lines -> 1 .. NumFormats]
  /\ TableFormats \subseteq (0 .. NumFormats) \X (0 .. NumFormats)
  /\ TableSizes \subseteq 0 .. BbSizeOverflow - 1
  /\ InstrIds \subseteq Nat /\ SquashIds \subseteq Nat
  /\ NumMshrs \in Nat \ {0}
  /\ MaxTime \in Nat /\ MaxEvents \in Nat

\* Code lies further from address zero than a block of it is long: some
\* distance, not below the recorded sizes and not above the lowest line, is one
\* that no two lines have, so no block grows across it.  Else a squash could
\* take an empty entry, whose tag is 0, for the head of a block.
ASSUME TextAssumption ==
  \E d \in BbSizeOverflow .. Min(Lines) : \A u, v \in Lines : d <= v /\ v - u # d

VARIABLES
  hist,      \* l1i_hist_table
  head,      \* l1i_hist_table_head: the next slot to write
  headTime,  \* l1i_hist_table_head_time
  lastBB,    \* l1i_last_basic_block
  count,     \* l1i_consecutive_count
  merge,     \* l1i_basic_block_merge_diff
  line,      \* the timing tables, line by line
  now,       \* the cycle
  events,    \* accesses and squashes so far, for the bound
  when,      \* ghost: the cycle each slot's line was added, 0 if empty
  shifted    \* ghost: slots a squash has added time to

vars == <<hist, head, headTime, lastBB, count, merge, line, now, events, when, shifted>>

\* num_dst only matters up to NumFormats and saturates there.
HistEntry == [tag : Lines \cup {0}, diff : Nat, bb : 0 .. BbSizeOverflow - 1, id : Nat,
              src : Lines \cup {0}, format : 0 .. NumFormats, dsts : 0 .. NumFormats]

Empty(diff) == [tag |-> 0, diff |-> diff, bb |-> 0, id |-> 0, src |-> 0, format |-> 0, dsts |-> 0]

\* A line is absent, on its way with a timing MSHR entry, or cached.
LineState == [state : {"absent", "requested", "cached"}, accessed : BOOLEAN,
              pos : 0 .. NoPos, issued : Nat]

Absent == [state |-> "absent", accessed |-> FALSE, pos |-> NoPos, issued |-> 0]

\* Whether a cached line was accessed is no concern of the history.
Cached == [Absent EXCEPT !.state = "cached"]

Requested == [Absent EXCEPT !.state = "requested", !.issued = now]

TypeOK ==
  /\ hist \in [Slots -> HistEntry]
  /\ head \in Slots
  /\ headTime \in 0 .. now
  /\ lastBB \in Lines \cup {0}
  /\ count \in Nat
  /\ merge \in Nat
  /\ line \in [Lines -> LineState]
  /\ now \in 0 .. MaxTime
  /\ events \in 0 .. MaxEvents
  /\ when \in [Slots -> Nat]
  /\ shifted \subseteq Slots

----------------------------------------------------------------------------
(* Walking the ring.                                                       *)

\* The slot k steps before slot i.
Back(i, k) == (i - k) % HistSize

\* How many slots lie behind slot i, down to the oldest.
Older(i) == (i - head) % HistSize

\* The time that the differences put between slot i and the k-th before it.
Elapsed(h, i, k) ==
  LET sum[n \in 0 .. HistSize] == IF n = 0 THEN 0 ELSE sum[n - 1] + h[Back(i, n - 1)].diff
  IN  sum[k]

\* The newest slot with the tag is Back(head, Min(Occurrences(h, tag))).
Occurrences(h, tag) == {k \in 1 .. HistSize : h[Back(head, k)].tag = tag}

FindHistEntry(h, tag) == Back(head, Min(Occurrences(h, tag)))

AddBbSize(h, tag, n) == [h EXCEPT ![FindHistEntry(h, tag)].bb = n % BbSizeOverflow]

\* The distance of v to the newest block of the last MergeEntries it lies in.
FindBbMerge(h, v) ==
  LET in == {k \in 1 .. MergeEntries :
               LET e == h[Back(head, k)] IN v > e.tag /\ v - e.tag <= e.bb}
  IN  IF in = {} THEN 0 ELSE v - h[Back(head, Min(in))].tag

----------------------------------------------------------------------------
(* Insertion.                                                              *)

TimeDiffMask == TimeDiffOverflow - 1

\* The empty entries that stand for the time since the last insertion.
Padding ==
  Min({n \in 0 .. now : now - (headTime + n * TimeDiffMask) < TimeDiffOverflow})

\* The padding and the entry for v overwrite the oldest slots, whose block
\* sizes and pairs go to the entangled table.
AddHistTable(h, v, id, info) ==
  [i \in Slots |->
     LET o == (i - head) % HistSize
     IN  CASE o = Padding % HistSize ->
                [Empty(now - (headTime + Padding * TimeDiffMask)) EXCEPT
                   !.tag = v, !.id = id, !.format = info[1], !.dsts = info[2]]
           [] o # Padding % HistSize /\ o < Padding -> Empty(TimeDiffMask)
           [] OTHER -> h[i]]

Written == {i \in Slots : (i - head) % HistSize <= Padding}

\* The ghost of an insertion; empty slots have none.
WrittenWhen ==
  [i \in Slots |->
     LET o == (i - head) % HistSize
     IN  CASE o = Padding % HistSize -> now
           [] o # Padding % HistSize /\ o < Padding -> 0
           [] OTHER -> when[i]]

----------------------------------------------------------------------------
(* An observed access.                                                     *)

Cur == lastBB + count

\* A block of more than one line ends: its size goes into the history, under
\* the block it was merged with, if any.
EndBlock(size) ==
  IF count = 0 THEN hist
  ELSE AddBbSize(hist, lastBB - merge, IF merge > 0 THEN count + merge ELSE Max({size, count}))

\* The assertion of l1i_add_bb_size_hist_table.
EndAssert == count > 0 => Occurrences(hist, lastBB - merge) # {}

\* The access in the timing tables: a miss gets an entry if it has none; the
\* first access decides which history slot the fill will use.
AccessLine(v, miss, pos) ==
  LET timed == IF miss /\ line[v].state # "requested" THEN Requested ELSE line[v]
  IN  IF timed.state = "requested" /\ ~timed.accessed
      THEN [timed EXCEPT !.accessed = TRUE, !.pos = pos]
      ELSE timed

\* The line of a block that starts is added unless it is merged, or known
\* and cheap to fetch.
AddsEntry(h, v, miss, diff) ==
  /\ diff = 0
  /\ Occurrences(h, v) = {} \/ (miss /\ ~(line[v].state = "requested" /\ line[v].accessed))

CalculatePrefetch(v, miss, id, info, size) ==
  LET h     == EndBlock(size)
      diff  == FindBbMerge(h, v)
      adds  == AddsEntry(h, v, miss, diff)
  IN  \/ /\ Cur = v
         /\ UNCHANGED <<hist, head, headTime, lastBB, count, merge, line, when, shifted>>
      \/ /\ Cur + 1 = v
         /\ count' = count + 1
         /\ line' = [line EXCEPT ![v] = AccessLine(v, miss, NoPos)]
         /\ UNCHANGED <<hist, head, headTime, lastBB, merge, when, shifted>>
      \/ /\ v \notin {Cur, Cur + 1}
         /\ EndAssert
         /\ lastBB' = v /\ count' = 0 /\ merge' = diff
         /\ IF adds
            THEN /\ hist' = AddHistTable(h, v, id, info)
                 /\ head' = (head + Padding + 1) % HistSize
                 /\ headTime' = now
                 /\ when' = WrittenWhen
                 /\ shifted' = shifted \ Written
            ELSE /\ hist' = h
                 /\ UNCHANGED <<head, headTime, when, shifted>>
         /\ line' = [line EXCEPT ![v] =
              AccessLine(v, miss, IF adds THEN (head + Padding) % HistSize ELSE NoPos)]

Counted == events < MaxEvents /\ events' = events + 1

\* The cache takes no miss on a new line when its MSHRs are used up.
MshrFree == Cardinality({v \in Lines : line[v].state = "requested"}) < NumMshrs

\* Which of the hits the prefetcher observes is EIPTiming's concern.
Demand(v, id, info, size) ==
  /\ Counted
  /\ line[v].state = "absent" => MshrFree
  /\ CalculatePrefetch(v, line[v].state # "cached", id, info, size)
  /\ UNCHANGED now

----------------------------------------------------------------------------
(* A squash.                                                               *)

Squashed(id) == {k \in 1 .. HistSize : hist[Back(head, k)].id > id}

\* The newest entry that is older than the squash, if there is one.
FirstKept(id) == Min((1 .. HistSize + 1) \ Squashed(id))

\* Mutant: the time of the squashed entries is lost with them.
TimeLost(id) == 0

TimeToAdd(id) == Elapsed(hist, Back(head, 1), FirstKept(id) - 1)

\* Mutant: the entry goes, the source it learnt stays.
ClearedKeepsSource(e, newest) ==
  [Empty(IF newest THEN 0 ELSE e.diff) EXCEPT !.src = e.src]

\* The code leaves format and num_dst of an empty slot in place and never
\* reads them: here they are 0.
Cleared(e, newest) == Empty(IF newest THEN 0 ELSE e.diff)

\* Mutant: a block that begins after the squash point is cut as well.
CutNegative(e, v) == IF v <= e.tag + e.bb THEN [e EXCEPT !.bb = v - e.tag] ELSE e

\* A block that contains the squash point ends there.
CutBlock(e, v) == IF e.tag <= v /\ v <= e.tag + e.bb THEN [e EXCEPT !.bb = v - e.tag] ELSE e

SquashHistTable(id, v) ==
  [i \in Slots |->
     LET k == IF i = head THEN HistSize ELSE (head - i) % HistSize
     IN  CASE k \in Squashed(id)    -> Cleared(hist[i], k < FirstKept(id))
           [] k = FirstKept(id)     -> [CutBlock(hist[i], v) EXCEPT !.diff = @ + TimeToAdd(id)]
           [] OTHER                 -> CutBlock(hist[i], v)]

\* Whether the block that e heads reaches the squash point, by the counters
\* of the block being fetched or by its recorded size.
Resumes(e, v) ==
  e.tag <= v /\ (e.tag + merge + count >= v \/ e.tag + e.bb >= v)

\* Mutant: a block that does not reach the squash point goes on.
GoesOn(e, v) == IF Resumes(e, v) THEN <<e.tag, v - e.tag>> ELSE <<lastBB, count>>

\* The block after the squash, as its first line and the lines that follow.
BlockAfter(e, v) == IF Resumes(e, v) THEN <<e.tag, v - e.tag>> ELSE <<0, 0>>

NotifySquash(id, v) ==
  LET h    == SquashHistTable(id, v)
      kept == Squashed(id) # 1 .. HistSize
      last == IF kept THEN Back(head, FirstKept(id)) ELSE Back(head, 1)
  IN  /\ Counted
      /\ head' = (last + 1) % HistSize
      /\ hist' = [h EXCEPT ![last].bb = IF Resumes(h[last], v) THEN 0 ELSE @]
      /\ lastBB' = BlockAfter(h[last], v)[1]
      /\ count' = BlockAfter(h[last], v)[2]
      /\ merge' = 0
      /\ when' = [i \in Slots |-> IF h[i].tag = 0 THEN 0 ELSE when[i]]
      /\ shifted' = {i \in shifted : h[i].tag # 0} \cup
                    {i \in {last} : h[last].tag # 0 /\ TimeToAdd(id) > 0}
      /\ UNCHANGED <<headTime, line, now>>

----------------------------------------------------------------------------
(* Prefetches, fills and evictions; time.                                  *)

Prefetch(v) ==
  /\ line[v].state = "absent" /\ MshrFree
  /\ line' = [line EXCEPT ![v] = Requested]
  /\ UNCHANGED <<hist, head, headTime, lastBB, count, merge, now, events, when, shifted>>

\* l1i_get_latency: timestamps keep their low bits only.
Latency(v) == (now - line[v].issued) % TimeOverflow

\* Mutant: a slot's own difference is added before the comparison.
TimelyLate(v, pos, latency) ==
  {k \in 1 .. Older(pos) : hist[Back(pos, k)].tag # 0 /\ Elapsed(hist, pos, k + 1) >= latency}

\* Of the slots behind pos, as steps back, those fetched early enough.
Timely(v, pos, latency) ==
  {k \in 1 .. Older(pos) : hist[Back(pos, k)].tag # 0 /\ Elapsed(hist, pos, k) >= latency}

\* The format the source's entry would have with v among its destinations.
NewFormat(e, v) ==
  LET f == Format[e.tag, v]
  IN  IF e.dsts = 0 \/ f < e.format THEN f ELSE e.format

\* The source is in the entangled table and has room for v.
Fits(e, v) == e.format # 0 /\ e.dsts < NewFormat(e, v)

FitsAsItIs(e, v) == Fits(e, v) /\ Format[e.tag, v] = e.format

\* The search ends at a source that v fits as it is, after NumSearches
\* candidates, or at the oldest slot.
SearchEnd(v, pos, C) ==
  Min({Older(pos)} \cup
      {k \in C : \/ FitsAsItIs(hist[Back(pos, k)], v)
                 \/ Cardinality({j \in C : j <= k}) = NumSearches})

\* An earlier fetch of v met on the way leaves it without a source.
MetBefore(v, pos, end) == \E k \in 1 .. end : hist[Back(pos, k)].tag = v

\* The candidate taken: one that fits as it is, or in a smaller format, or
\* one the entangled table does not know, or the first.
Preferred(v, pos, S) ==
  LET as      == {k \in S : FitsAsItIs(hist[Back(pos, k)], v)}
      smaller == {k \in S : Fits(hist[Back(pos, k)], v)}
      unknown == {k \in S : hist[Back(pos, k)].format = 0}
  IN  CASE as # {}                     -> Min(as)
        [] as = {} /\ smaller # {}     -> Min(smaller)
        [] as \cup smaller = {} /\ unknown # {} -> Min(unknown)
        [] OTHER                       -> Min(S)

\* l1i_get_src_entangled_hist_table and its use: the source counts one more
\* destination and is noted in the slot of v.
Entangle(v, pos) ==
  LET C    == Timely(v, pos, Latency(v))
      end  == SearchEnd(v, pos, C)
      S    == {k \in C : k <= end}
      best == Back(pos, Preferred(v, pos, S))
      e    == hist[best]
  IN  IF hist[pos].tag # v \/ MetBefore(v, pos, end) \/ S = {} THEN hist
      ELSE [hist EXCEPT ![best].format = NewFormat(e, v),
                        ![best].dsts = Min({@ + 1, NumFormats}),
                        ![pos].src = e.tag]

\* The line arrives, timed or not, and may be invalidated at once.
NotifyFill(v, stays) ==
  LET l == line[v]
  IN  /\ l.state # "cached"
      /\ hist' = IF l.accessed /\ l.pos # NoPos /\ Latency(v) # 0
                 THEN Entangle(v, l.pos) ELSE hist
      /\ line' = [line EXCEPT ![v] = IF stays THEN Cached ELSE Absent]
      /\ UNCHANGED <<head, headTime, lastBB, count, merge, now, events, when, shifted>>

NotifyInvalidate(v) ==
  /\ line[v].state = "cached"
  /\ line' = [line EXCEPT ![v] = Absent]
  /\ UNCHANGED <<hist, head, headTime, lastBB, count, merge, now, events, when, shifted>>

Tick ==
  /\ now < MaxTime
  /\ now' = now + 1
  /\ UNCHANGED <<hist, head, headTime, lastBB, count, merge, line, events, when, shifted>>

----------------------------------------------------------------------------

Init ==
  /\ hist = [i \in Slots |-> Empty(0)]
  /\ head = 0 /\ headTime = 0
  /\ lastBB = 0 /\ count = 0 /\ merge = 0
  /\ line = [v \in Lines |-> Absent]
  /\ now = 0 /\ events = 0
  /\ when = [i \in Slots |-> 0]
  /\ shifted = {}

Next ==
  \/ \E v \in Lines, id \in InstrIds, info \in TableFormats, size \in TableSizes :
       Demand(v, id, info, size)
  \/ \E v \in Lines, id \in SquashIds : NotifySquash(id, v)
  \/ \E v \in Lines : Prefetch(v) \/ NotifyInvalidate(v)
  \/ \E v \in Lines, stays \in BOOLEAN : NotifyFill(v, stays)
  \/ Tick

Spec == Init /\ [][Next]_vars

----------------------------------------------------------------------------
(* Properties.                                                             *)

\* The assertion of l1i_add_bb_size_hist_table: when a block of several
\* lines ends, its head, or the block it was merged with, is still in the
\* history, whatever was squashed, merged or overwritten since it began.
BlockHeadInHistory == EndAssert

\* The time differences never overstate the time between two entries: their
\* sum is the real time, or less when a squash took away what followed the
\* older one.  Exempt is the newest entry a squash left, whose own
\* difference then includes the time of the squashed ones.
TimeKept ==
  \A i \in Slots \ shifted : hist[i].tag # 0 =>
    \A k \in 1 .. Older(i) : LET j == Back(i, k) IN hist[j].tag # 0 =>
      /\ Elapsed(hist, i, k) <= when[i] - when[j]
      /\ j \notin shifted => Elapsed(hist, i, k) = when[i] - when[j]

\* What a slot hands to the entangled table when it is overwritten is a pair
\* of two different lines (the assertion of notifyFill) and the size of a
\* real block: nothing learnt survives in a slot whose line was squashed.
LearntIsLegal ==
  \A i \in Slots :
    /\ hist[i].src # 0 => hist[i].tag \notin {0, hist[i].src}
    /\ hist[i].bb # 0 => hist[i].tag # 0

\* A fill entangles a line, in the slot its first access was noted in, with
\* a line fetched before it by at least the latency of the fill, if that
\* latency is less than what a timestamp holds and no squash has stretched
\* the slot's time.
EntangledInTime ==
  [][\A i \in Slots : hist'[i].src \notin {0, hist[i].src} =>
       LET v == hist[i].tag
       IN  /\ v # 0 /\ line[v].pos = i
           /\ \E k \in 1 .. Older(i) :
                LET j == Back(i, k)
                IN  /\ hist[j].tag = hist'[i].src
                    /\ i \notin shifted /\ now - line[v].issued < TimeOverflow =>
                         when[i] - when[j] >= now - line[v].issued]_vars

============================================================================
