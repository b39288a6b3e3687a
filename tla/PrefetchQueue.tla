--------------------------- MODULE PrefetchQueue ---------------------------
(***************************************************************************)
(* The queues of gem5's Queued prefetcher (mem/cache/prefetch/queued.cc),  *)
(* the base class of the EIP, and the part of the cache that drains them   *)
(* (mem/cache/base.cc): the send event of the memory-side port, and the    *)
(* MSHRs and the write buffer as far as they decide when it is scheduled   *)
(* and whether it may take a prefetch.                                     *)
(*                                                                         *)
(* A prefetch whose target lies in the page of the access that caused it   *)
(* has a physical address at once and waits in pfq.  One that crosses the  *)
(* page waits in pfqMissingTranslation until a TLB has translated it; the  *)
(* TLB answers inside the call that starts the translation or, after a     *)
(* page walk, at any later time.  Every in-tree prefetcher queues with     *)
(* priority 0, so both queues are FIFO and the oldest packet is the one    *)
(* dropped when a queue is full.                                           *)
(***************************************************************************)
EXTENDS Naturals, Sequences, FiniteSets, SequencesExt

CONSTANTS
    Addr,               \* block addresses prefetches are made for
    Page(_),            \* the page of an address (samePage)
    Demand,             \* the addresses of the accesses the prefetcher sees
    QueueSize,          \* queue_size
    HasTLB,             \* a TLB was registered with the prefetcher
    CacheSnoop,         \* cache_snoop
    ThrottleControlPct, \* throttle_control_percentage
    MaxCandidates,      \* bound: candidates calculatePrefetch returns
    NumMshrs,           \* mshrs
    DemandReserve,      \* demand_mshr_reserve
    WriteBuffers        \* write_buffers

\* addToQueue panics on a full queue of one element, and without an MSHR beside
\* the reserved ones and one more the cache never prefetches.
ASSUME QueueAssumption ==
    /\ Demand \subseteq Addr
    /\ QueueSize \in Nat /\ QueueSize >= 2
    /\ HasTLB \in BOOLEAN /\ CacheSnoop \in BOOLEAN
    /\ ThrottleControlPct \in 0 .. 100
    /\ MaxCandidates \in Nat
    /\ NumMshrs \in Nat /\ DemandReserve \in Nat /\ NumMshrs > DemandReserve + 1
    /\ WriteBuffers \in Nat \ {0}

VARIABLES
    pfq,                    \* packets ready to be issued
    pfqMissingTranslation,  \* packets without a physical address
    translating,            \* the TLB's requests in flight, by address
    issued,                 \* issuedPrefetches > 0
    cache,                  \* what the MSHRs and the write buffer hold
    sendEvent,              \* a send event of the memory-side port is pending,
                            \* or the port waits for the retry that replaces it
    halted                  \* the CPU makes no access for now

vars == <<pfq, pfqMissingTranslation, translating, issued, cache, sendEvent, halted>>

DeferredPacket == [addr : Addr, ongoingTranslation : BOOLEAN]

\* How a call of translateTiming ends: the answer comes later, or it comes
\* at once and the packet is queued, or dropped (a fault, or a redundant
\* prefetch when cache_snoop is set).
Outcome == {"delayed", "queued", "dropped"}

Addrs(queue) == {queue[i].addr : i \in 1 .. Len(queue)}

\* The MSHRs to be sent and those sent; whether one has as many targets as it
\* may (noTargetMSHR); and the entries of the write buffer, which keeps one more
\* for every MSHR.
CacheState == [pending : Nat, sent : Nat, noTargets : BOOLEAN,
               writes : 0 .. WriteBuffers + NumMshrs]
----------------------------------------------------------------------------
(***************************************************************************)
(* The queue operations.  The three lists a call works on travel together  *)
(* in a record q.                                                          *)
(***************************************************************************)
Queues == [pfq |-> pfq, missing |-> pfqMissingTranslation, tlb |-> translating]

SetQueues(q) ==
    /\ pfq' = q.pfq
    /\ pfqMissingTranslation' = q.missing
    /\ translating' = q.tlb

\* notify's squash and translationComplete's erase.
Without(queue, a) ==
    LET kept[n \in 0 .. Len(queue)] ==
            IF n = 0 THEN << >>
            ELSE IF queue[n].addr = a THEN kept[n - 1]
                 ELSE Append(kept[n - 1], queue[n])
    IN  kept[Len(queue)]

alreadyInQueue(queue, a) == a \in Addrs(queue)

\* Mutant: the size is compared one too late.
addToQueueLate(queue, dpp) ==
    Append(IF Len(queue) > QueueSize THEN Tail(queue) ELSE queue, dpp)

addToQueue(queue, dpp) ==
    Append(IF Len(queue) = QueueSize THEN Tail(queue) ELSE queue, dpp)

NewPacket(a) == [addr |-> a, ongoingTranslation |-> FALSE]

SamePage(a, b) == Page(a) = Page(b)

\* Mutant: only the packets that are ready are compared.
FilteredReady(q, a) == alreadyInQueue(q.pfq, a)

\* queue_filter, set by default: both queues are searched.
Filtered(q, a) == alreadyInQueue(q.pfq, a) \/ alreadyInQueue(q.missing, a)

\* insert for the access to address orig: filtered when the address is queued
\* already, dropped when it is redundant or needs a translation that the
\* request gives no context for.
Insert(q, orig, a, hasContext, redundant) ==
    IF Filtered(q, a)
    THEN q
    ELSE IF SamePage(orig, a)
         THEN IF CacheSnoop /\ a \in redundant
              THEN q
              ELSE [q EXCEPT !.pfq = addToQueue(@, NewPacket(a))]
         ELSE IF hasContext
              THEN [q EXCEPT !.missing = addToQueue(@, NewPacket(a))]
              ELSE q

\* getMaxPermittedPrefetches: the useful share of the issued prefetches, any
\* fraction here, decides how many of the throttled candidates are let through.
MaxPermittedPrefetches(total) ==
    LET unthrottled == total - (total * ThrottleControlPct) \div 100
        min_pfs     == IF unthrottled = 0 THEN 1 ELSE unthrottled
    IN  IF total > 0 /\ issued THEN min_pfs .. total ELSE {total}

\* translationComplete for a packet that is in pfqMissingTranslation.
TranslationComplete(q, a, outcome) ==
    [q EXCEPT !.pfq = IF outcome = "queued" THEN addToQueue(@, NewPacket(a))
                                            ELSE @,
              !.missing = Without(@, a),
              !.tlb = @ \ {a}]

\* Mutant: ongoingTranslation is not set.
StartTranslationUnmarked(q, dpp, outcome) ==
    IF dpp.ongoingTranslation
    THEN q
    ELSE IF outcome = "delayed"
         THEN [q EXCEPT !.tlb = @ \cup {dpp.addr}]
         ELSE TranslationComplete(q, dpp.addr, outcome)

\* startTranslation, with the answer the TLB may give before it returns.
StartTranslation(q, dpp, outcome) ==
    IF dpp.ongoingTranslation
    THEN q
    ELSE IF outcome = "delayed"
         THEN [q EXCEPT !.missing =
                            [i \in DOMAIN @ |->
                                IF @[i] = dpp
                                THEN [dpp EXCEPT !.ongoingTranslation = TRUE]
                                ELSE @[i]],
                        !.tlb = @ \cup {dpp.addr}]
         ELSE TranslationComplete(q, dpp.addr, outcome)

\* nextPrefetchReadyTime is not MaxTick.
NextReady(q) == q.pfq # << >>

\* Mutant: every packet is looked at.
processAllTranslations(q, max, outcome) ==
    LET after[n \in 0 .. Len(q.missing)] ==
            IF n = 0 THEN q
            ELSE StartTranslation(after[n - 1], q.missing[n],
                                  outcome[q.missing[n].addr])
    IN  after[Len(q.missing)]

\* The first max packets of the queue are looked at, those that are being
\* translated already included.
processMissingTranslations(q, max, outcome) ==
    LET after[n \in 0 .. Len(q.missing)] ==
            IF n = 0 THEN q
            ELSE IF n > max THEN after[n - 1]
                 ELSE StartTranslation(after[n - 1], q.missing[n],
                                       outcome[q.missing[n].addr])
    IN  after[Len(q.missing)]

\* The loop of notify over the candidates: those of another page are skipped
\* without a TLB, and max_pfs of them are inserted.
InsertCandidates(q, orig, candidates, max_pfs, hasContext, redundant) ==
    LET after[n \in 0 .. Len(candidates)] ==
            IF n = 0 THEN [queues |-> q, num_pfs |-> 0]
            ELSE LET r == after[n - 1]
                     c == candidates[n]
                 IN  IF r.num_pfs < max_pfs /\ (HasTLB \/ SamePage(c, orig))
                     THEN [queues  |-> Insert(r.queues, orig, c, hasContext, redundant),
                           num_pfs |-> r.num_pfs + 1]
                     ELSE r
    IN  after[Len(candidates)].queues
----------------------------------------------------------------------------
(***************************************************************************)
(* The cache.                                                              *)
(***************************************************************************)
Allocated(c) == c.pending + c.sent

\* A prefetch leaves an MSHR free beside the reserved ones.
CanPrefetch(c) == Allocated(c) < NumMshrs - (1 + DemandReserve)

\* The cache takes no access: it has no MSHR left, an MSHR no target, or the
\* write buffer no entry but the reserved ones.
IsBlocked(c) ==
    \/ Allocated(c) >= NumMshrs
    \/ c.noTargets
    \/ c.writes >= WriteBuffers

MayPrefetch(c) == CanPrefetch(c) /\ ~IsBlocked(c)

\* Mutant: the prefetches are forgotten.
NextQueueReadyNoPrefetch(c, q) == c.pending > 0 \/ c.writes > 0

\* Mutant: the write buffer is forgotten.
NextQueueReadyNoWrites(c, q) == c.pending > 0 \/ (MayPrefetch(c) /\ NextReady(q))

\* nextQueueReadyTime is not MaxTick: what schedules the next send.
NextQueueReady(c, q) ==
    \/ c.pending > 0 \/ c.writes > 0
    \/ MayPrefetch(c) /\ NextReady(q)

\* What an access does to the MSHRs: nothing when it hits; a miss gets an MSHR,
\* or becomes one more target of one, perhaps the last one it may have.
Missed(c) == [c EXCEPT !.pending = @ + 1]

Coalesced(c) == {[c EXCEPT !.noTargets = full] : full \in BOOLEAN}

AccessOutcomes(c) == {c, Missed(c)} \cup (IF Allocated(c) > 0 THEN Coalesced(c) ELSE {})

\* What becomes of a prefetch: it is redundant by now (in the cache, an MSHR or
\* the write buffer), or gets an MSHR and is sent, or refused and sent later.
IssueOutcomes(c) == {c, [c EXCEPT !.sent = @ + 1], [c EXCEPT !.pending = @ + 1]}

\* Whether an MSHR is still without a free target after a response: the one
\* that is answered gets some.
NoTargetsLeft(c) == IF c.noTargets /\ Allocated(c) > 1 THEN BOOLEAN ELSE {FALSE}

\* The MSHRs after a response: the one answered is sent again for the targets
\* that were deferred or that an invalidation left, or it is deallocated.  How
\* many targets an MSHR has is left open.
Promoted(c) ==
    {[c EXCEPT !.sent = @ - 1, !.pending = @ + 1, !.noTargets = full] :
        full \in NoTargetsLeft(c)}

Deallocated(c) ==
    {[c EXCEPT !.sent = @ - 1, !.noTargets = full] : full \in NoTargetsLeft(c)}

\* doWritebacks, for the block that the fill replaces if it is written back.
WriteBack(c, n) == [c EXCEPT !.writes = @ + n]

Evictions(c) == {n \in 0 .. 1 : c.writes + n <= WriteBuffers + NumMshrs}

\* Mutant: the freed MSHR is not offered to the prefetcher.
WakesNever(c) == FALSE

\* The request for the bus that ends recvTimingResp.
DeallocationWakes(c) == MayPrefetch(c) /\ NextReady(Queues)
----------------------------------------------------------------------------
Init ==
    /\ pfq = << >>
    /\ pfqMissingTranslation = << >>
    /\ translating = {}
    /\ issued = FALSE
    /\ cache = [pending |-> 0, sent |-> 0, noTargets |-> FALSE, writes |-> 0]
    /\ sendEvent = FALSE
    /\ halted = FALSE

\* recvTimingReq, which a blocked cache refuses: the access, q being the queues
\* when the prefetcher has seen it, and the send scheduled for a miss or because
\* the prefetcher has a packet ready.
RecvTimingReq(q) ==
    /\ ~halted /\ ~IsBlocked(cache)
    /\ cache' \in AccessOutcomes(cache)
    /\ SetQueues(q)
    /\ sendEvent' = (sendEvent \/ cache' = Missed(cache) \/ NextReady(q))
    /\ UNCHANGED <<issued, halted>>

\* An access to address a of which the prefetcher is notified: notify.
Notify(a, candidates, hasContext, redundant) ==
    \E max_pfs \in MaxPermittedPrefetches(Len(candidates)) :
        RecvTimingReq(
            InsertCandidates([Queues EXCEPT !.pfq = Without(@, a)],
                             a, candidates, max_pfs, hasContext, redundant))

\* An access that the prefetcher does not observe.
Unobserved == RecvTimingReq(Queues)

\* The send event finds no miss and no writeback ready and takes a prefetch, if
\* the MSHRs allow one and the cache is not blocked: getPacket, and the
\* rescheduling of the event at the end of sendDeferredPacket.
GetPacket(outcome) ==
    /\ sendEvent
    /\ LET q == IF pfq = << >>
                THEN processMissingTranslations(Queues, QueueSize, outcome)
                ELSE Queues
       IN  IF ~MayPrefetch(cache)
           THEN /\ sendEvent' = NextQueueReady(cache, Queues)
                /\ UNCHANGED <<pfq, pfqMissingTranslation, translating, issued, cache>>
           ELSE IF q.pfq = << >>
           THEN /\ SetQueues(q)
                /\ sendEvent' = NextQueueReady(cache, q)
                /\ UNCHANGED <<issued, cache>>
           ELSE LET rest  == Tail(q.pfq)
                    after == processMissingTranslations(
                                 [q EXCEPT !.pfq = rest],
                                 QueueSize - Len(rest), outcome)
                IN  /\ SetQueues(after)
                    /\ cache' \in IssueOutcomes(cache)
                    /\ sendEvent' = NextQueueReady(cache', after)
                    /\ issued' = TRUE
    /\ UNCHANGED halted

\* finish, called by the TLB for a translation that took time: it asserts that
\* the packet is still in pfqMissingTranslation.  No send is scheduled.
Finish(a, outcome) ==
    /\ a \in translating
    /\ \E i \in 1 .. Len(pfqMissingTranslation) :
           pfqMissingTranslation[i] = [addr |-> a, ongoingTranslation |-> TRUE]
    /\ SetQueues(TranslationComplete(Queues, a, outcome))
    /\ UNCHANGED <<issued, cache, sendEvent, halted>>

\* The send event sends a miss.
SendMiss ==
    /\ sendEvent /\ cache.pending > 0
    /\ cache' = [cache EXCEPT !.pending = @ - 1, !.sent = @ + 1]
    /\ sendEvent' = NextQueueReady(cache', Queues)
    /\ UNCHANGED <<pfq, pfqMissingTranslation, translating, issued, halted>>

\* The send event sends a writeback.
SendWriteback ==
    /\ sendEvent /\ cache.writes > 0
    /\ cache' = [cache EXCEPT !.writes = @ - 1]
    /\ sendEvent' = NextQueueReady(cache', Queues)
    /\ UNCHANGED <<pfq, pfqMissingTranslation, translating, issued, halted>>

\* An invalidation from below discards a writeback; the event stays scheduled.
SnoopWriteback ==
    /\ cache.writes > 0
    /\ cache' = [cache EXCEPT !.writes = @ - 1]
    /\ UNCHANGED <<pfq, pfqMissingTranslation, translating, issued, sendEvent, halted>>

\* recvTimingResp: the MSHR is deallocated if its last target is served, or sent
\* again, and the block that the fill replaced is written back.
RecvTimingResp(last) ==
    /\ cache.sent > 0
    /\ \E c \in IF last THEN Deallocated(cache) ELSE Promoted(cache), n \in Evictions(cache) :
           /\ cache' = WriteBack(c, n)
           /\ sendEvent' = (sendEvent \/ ~last \/ DeallocationWakes(c) \/ n > 0)
    /\ UNCHANGED <<pfq, pfqMissingTranslation, translating, issued, halted>>

\* The CPU halts, or goes on.
HaltOrResume ==
    /\ halted' = ~halted
    /\ UNCHANGED <<pfq, pfqMissingTranslation, translating, issued, cache, sendEvent>>

Candidates == UNION {[1 .. n -> Addr] : n \in 0 .. MaxCandidates}

SomeNotify ==
    \E a \in Demand, candidates \in Candidates,
       hasContext \in BOOLEAN, redundant \in SUBSET Addr :
        /\ ~CacheSnoop => redundant = {}
        /\ Notify(a, candidates, hasContext, redundant)

SomeGetPacket ==
    \E outcome \in [Addrs(pfqMissingTranslation) -> Outcome] :
        GetPacket(outcome)

SomeFinish(a) == \E outcome \in Outcome \ {"delayed"} : Finish(a, outcome)

Next ==
    \/ SomeNotify
    \/ Unobserved
    \/ SomeGetPacket
    \/ \E a \in Addr : SomeFinish(a)
    \/ SendMiss
    \/ SendWriteback
    \/ SnoopWriteback
    \/ \E last \in BOOLEAN : RecvTimingResp(last)
    \/ HaltOrResume

\* A pending send event happens (the event queue serves it): what is ready goes
\* out, and an event that finds nothing else tries a prefetch.  A TLB answers
\* every translation and the memory every request; a response serves at least
\* one target, so an MSHR that gets no more of them is deallocated in the end.
\* Nothing makes the CPU access the cache again.
Fairness ==
    /\ WF_vars(SendMiss)
    /\ WF_vars(SendWriteback)
    /\ WF_vars(cache.pending = 0 /\ cache.writes = 0 /\ SomeGetPacket)
    /\ SF_vars(halted /\ RecvTimingResp(TRUE))
    /\ \A a \in Addr : WF_vars(SomeFinish(a))

Spec == Init /\ [][Next]_vars
FairSpec == Spec /\ Fairness
----------------------------------------------------------------------------
(***************************************************************************)
(* Properties.                                                             *)
(***************************************************************************)

\* The queues hold packets, no more than queue_size of them, a packet in pfq is
\* not being translated, and the cache has no more misses than MSHRs.
TypeOK ==
    /\ pfq \in Seq([addr : Addr, ongoingTranslation : {FALSE}])
    /\ pfqMissingTranslation \in Seq(DeferredPacket)
    /\ Len(pfq) <= QueueSize /\ Len(pfqMissingTranslation) <= QueueSize
    /\ translating \subseteq Addr
    /\ issued \in BOOLEAN /\ sendEvent \in BOOLEAN /\ halted \in BOOLEAN
    /\ cache \in CacheState /\ Allocated(cache) <= NumMshrs

\* With queue_filter an address is queued once: not twice in a queue, and not
\* in both, although a packet moves from one to the other when its translation
\* completes and other accesses queue packets in between.
QueuedOnce ==
    LET all == pfq \o pfqMissingTranslation
    IN  \A i, j \in 1 .. Len(all) : all[i].addr = all[j].addr => i = j

\* Every translation in flight belongs to a packet that still waits for it:
\* the asserts of finish (the packet is being translated) and
\* translationComplete (it is in pfqMissingTranslation).
TranslationFindsPacket ==
    \A a \in translating :
        \E i \in 1 .. Len(pfqMissingTranslation) :
            pfqMissingTranslation[i] =
                [addr |-> a, ongoingTranslation |-> TRUE]

\* getPacket issues the oldest packet and drops none of the others: it starts
\* no more translations than pfq has room for when they complete at once.
IssueKeepsTheRest ==
    [][pfq # << >> /\ MayPrefetch(cache) /\ SomeGetPacket =>
           IsPrefix(Tail(pfq), pfq')]_vars

\* A miss or a writeback that is to be sent has a send event coming.
SendScheduled == cache.pending > 0 \/ cache.writes > 0 => sendEvent

\* A packet is ready, it could be issued, and nobody will come for it before
\* the next access or response.
Stranded == MayPrefetch(cache) /\ pfq # << >> /\ ~sendEvent

\* Only a translation that completes late strands a packet: whenever an access,
\* a send or a response leaves a packet ready and the MSHRs and the write buffer
\* let the cache prefetch (again), a send event is scheduled for it.
NoLostWakeup ==
    [][~Stranded /\ Stranded' => \E a \in Addr : SomeFinish(a)]_vars

\* Once the CPU halts for good, every packet that is ready leaves the queue if a
\* send is pending or a miss is outstanding: when the cache may not prefetch the
\* event is not rescheduled, but the response that frees an MSHR schedules it
\* again.  (While accesses go on, their misses may keep the prefetches out.)
ReadyPacketLeaves ==
    <>[]halted =>
        \A a \in Addr :
            (a \in Addrs(pfq) /\ (sendEvent \/ Allocated(cache) > 0))
                ~> (a \notin Addrs(pfq))
=============================================================================
