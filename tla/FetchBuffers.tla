---------------------------- MODULE FetchBuffers ----------------------------
(***************************************************************************)
(* The decoupled front end of the O3 fetch stage (one thread, FDIP on):    *)
(* the fetch target queue runs ahead of the program counter line by line,  *)
(* every tick requests its next line through TLB and instruction cache,    *)
(* and instructions are taken from the oldest line once it has arrived.    *)
(*                                                                         *)
(* Requests of squashed or flushed lines stay in flight: the stage tells   *)
(* late answers from wanted ones by comparing request pointers.            *)
(***************************************************************************)
EXTENDS Integers, Sequences, FiniteSets, SequencesExt

CONSTANTS
  Lines,       \* line addresses
  FaultLines,  \* lines whose translation faults
  BadLines,    \* lines that translate to an address outside memory
  None,
  MaxFtq,      \* model bound on the lines in the fetch target queue
  MaxReqs      \* model bound on the requests alive at a time

ASSUME FetchAssumption ==
  /\ FaultLines \subseteq Lines /\ BadLines \subseteq Lines \ FaultLines
  /\ None \notin Lines /\ None \notin [line : Lines, id : 1 .. MaxReqs]
  /\ MaxFtq \in Nat \ {0} /\ MaxReqs \in Nat \ {0}

GoodLines == Lines \ (FaultLines \cup BadLines)

VARIABLES
  f,           \* the state of the stage
  squashDue,   \* the squash that commit sent with a drain stall is to come
  trans,       \* requests in the TLB
  sent,        \* requests in the instruction cache
  event,       \* finishTranslationEvent: a fault to be handled again, or None
  drained      \* the CPU has signalled that it is drained

vars == <<f, squashDue, trans, sent, event, drained>>

\* The id stands for the pointer.
Request == [line : Lines, id : 1 .. MaxReqs]

Statuses == {"Running", "Squashing", "Blocked", "IcacheWaitResponse", "IcacheWaitRetry",
             "IcacheAccessComplete", "TrapPending", "NoGoodAddr"}

Stage == [status : Statuses,                 \* fetchStatus
          pc : Lines,                        \* the line of the program counter
          ftq : Seq(Lines),                  \* prefetchBufferPC
          buf : Seq([req : Request, valid : BOOLEAN]), \* fetchBufferPC, ReqPtr, Valid
          memReq : Seq(Request),             \* memReq
          prefetching : BOOLEAN,             \* prefPC # 0
          fresh : BOOLEAN,                   \* prefPC = pc: as a squash leaves it
          blocked : BOOLEAN,                 \* cacheBlocked
          retry : Request \cup {None},       \* retryPkt
          drain : BOOLEAN,                   \* stalls.drain
          strayed : BOOLEAN]                 \* ghost: a line outside memory was met

TypeOK ==
  /\ f \in Stage
  /\ squashDue \in BOOLEAN
  /\ trans \subseteq Request
  /\ sent \subseteq Request
  /\ event \in [req : Request, late : BOOLEAN] \cup {None}
  /\ drained \in BOOLEAN

----------------------------------------------------------------------------
(* The buffers.                                                            *)

HeadValid(s) == s.buf # <<>> /\ s.buf[1].valid

HeadReady(s) == HeadValid(s) /\ s.buf[1].req.line = s.pc

Slots(s, r) == {i \in DOMAIN s.buf : s.buf[i].req = r}

SlotOf(s, r) == CHOOSE i \in Slots(s, r) : TRUE

IsHead(s, r) == s.buf # <<>> /\ s.buf[1].req = r

\* std::find in a list that holds x.
Position(list, x) == CHOOSE i \in DOMAIN list : list[i] = x

\* What is left of the list if it is erased from x on.
Before(list, x) == SubSeq(list, 1, Position(list, x) - 1)

Flushed(s) == [s EXCEPT !.ftq = <<>>, !.buf = <<>>, !.memReq = <<>>]

\* Mutant: a faulty cut that leaves the list of requests alone.
CutKeepsRequests(s, r) == [s EXCEPT !.buf = SubSeq(@, 1, SlotOf(s, r) - 1), !.prefetching = FALSE]

\* Mutant: a faulty cut that leaves the buffers alone.
CutKeepsBuffers(s, r) == [s EXCEPT !.memReq = Before(@, r), !.prefetching = FALSE]

\* The entry of r and all behind it are dropped, and the queue stops growing.
CutBefore(s, r) ==
  [s EXCEPT !.buf = SubSeq(@, 1, SlotOf(s, r) - 1), !.memReq = Before(@, r),
            !.prefetching = FALSE]

----------------------------------------------------------------------------
(* A tick, stage by stage.                                                 *)

\* Mutant: a faulty squash that leaves the packet to be sent again.
SquashKeepsRetry(s, target) ==
  [Flushed(s) EXCEPT !.status = "Squashing", !.pc = target, !.prefetching = TRUE,
                     !.fresh = TRUE, !.strayed = FALSE]

DoSquash(s, target) ==
  [Flushed(s) EXCEPT !.status = "Squashing", !.pc = target, !.prefetching = TRUE,
                     !.fresh = TRUE, !.retry = None, !.strayed = FALSE]

\* Mutant: a faulty stage that reads the target of decode's squash from commit's signal.
ReadsWrongSignal(s, commit, decode) ==
  IF commit # None \/ decode # None THEN DoSquash(s, commit)
  ELSE [s EXCEPT !.status = IF @ = "Squashing" THEN "Running" ELSE @]

\* Commit's squash comes first; decode's is ignored while squashing.
CheckSignalsAndUpdate(s, commit, decode) ==
  LET woken == s.status \in {"IcacheWaitResponse", "IcacheAccessComplete"} /\ HeadValid(s)
      now   == IF woken THEN "Running" ELSE s.status
  IN  CASE commit # None -> DoSquash(s, commit)
        [] commit = None /\ decode # None /\ now # "Squashing" -> DoSquash(s, decode)
        [] OTHER ->
             [s EXCEPT !.status =
                CASE /\ s.drain /\ s.memReq = <<>>
                     /\ now \notin {"IcacheWaitResponse", "IcacheWaitRetry"} -> "Blocked"
                  [] /\ ~(s.drain /\ s.memReq = <<>>)
                     /\ now \in {"Blocked", "Squashing"}                     -> "Running"
                  [] OTHER                                                   -> now]

\* The queue grows by the lines of predicted basic blocks, until a block
\* that the BTB does not know ends it.
AddToFTQ(s, new, more) ==
  [s EXCEPT !.ftq = @ \o new, !.prefetching = more, !.fresh = @ /\ new = <<>>]

\* Which branches are predicted is left open: up to two lines in a tick.  A
\* line never follows itself, and the first one after a squash is where prefPC
\* is, at the program counter.  Later prefPC may be anywhere.
NewLines == BoundedSeq(Lines, 2)

Growths(s) ==
  IF s.status \in {"Squashing", "TrapPending"} \/ ~s.prefetching
  THEN {<<<<>>, s.prefetching>>}
  ELSE {new \in NewLines :
          LET q == s.ftq \o new
          IN  /\ Len(q) <= MaxFtq
              /\ s.fresh /\ q # <<>> => q[1] = s.pc
              /\ \A i \in 1 .. Len(q) - 1 : q[i] # q[i + 1]} \X BOOLEAN

\* The head line has arrived, and nothing holds fetch back.  Only a running
\* fetch looks at interrupts.
CanFetch(s, interrupt) ==
  /\ HeadReady(s)
  /\ s.status \notin {"TrapPending", "Squashing"}
  /\ ~(s.status = "Running" /\ interrupt)

\* Mutant: a faulty restart that forgets the buffers behind the head.
RestartKeepsBuffers(s) == [s EXCEPT !.ftq = <<@[1]>>, !.memReq = <<>>, !.prefetching = TRUE, !.fresh = FALSE]

\* A branch that the queue did not predict restarts it behind the head.
LookupAndUpdateNextPC(s) ==
  [s EXCEPT !.ftq = <<@[1]>>, !.buf = <<@[1]>>, !.memReq = <<>>, !.prefetching = TRUE,
            !.fresh = FALSE]

\* Mutant: a faulty pop that trusts the queue.
PopTrustsQueue(s, next) ==
  [s EXCEPT !.pc = next, !.ftq = Tail(@), !.buf = Tail(@), !.fresh = FALSE]

\* The program counter leaves the line; if the queue expected it elsewhere
\* everything is dropped.
PopHead(s, next) ==
  LET popped == [s EXCEPT !.pc = next, !.ftq = Tail(@), !.buf = Tail(@), !.fresh = FALSE]
  IN  IF popped.ftq # <<>> /\ popped.ftq[1] # next THEN Flushed(popped) ELSE popped

\* Instructions of the head line go to decode, up to one in line next.
Fetch(s, next, mispredicted) ==
  LET run == [s EXCEPT !.status = "Running"]
      new == IF mispredicted THEN LookupAndUpdateNextPC(run) ELSE run
  IN  IF next = s.pc THEN new ELSE PopHead(new, next)

\* What becomes of a stage that runs fetch, with any instructions.
Fetches(s, interrupt) ==
  CASE CanFetch(s, interrupt) -> {Fetch(s, next, mis) : next \in Lines, mis \in BOOLEAN}
    [] ~CanFetch(s, interrupt) /\ s.status = "IcacheAccessComplete" ->
         {[s EXCEPT !.status = "Running"]}
    [] OTHER -> {s}

Issues(s) == s.status \notin {"Squashing", "IcacheWaitRetry", "TrapPending"}

\* The queue with the line of the program counter if it was empty.
Refilled(s) == IF Issues(s) /\ s.ftq = <<>> THEN [s EXCEPT !.ftq = <<s.pc>>] ELSE s

\* The requests that somebody still holds.
Live(s) ==
  UNION {{s.buf[i].req : i \in DOMAIN s.buf}, ToSet(s.memReq), trans, sent,
         {s.retry} \ {None}, IF event = None THEN {} ELSE {event.req}}

FreeIds(s) == (1 .. MaxReqs) \ {r.id : r \in Live(s)}

\* The first line of the queue that has no buffer is requested.
CanIssue(s, interrupt) ==
  /\ Issues(s)
  /\ Len(s.buf) < Len(s.ftq)
  /\ ~s.blocked /\ ~interrupt
  /\ FreeIds(s) # {}

FetchCacheLine(s, r) ==
  [s EXCEPT !.memReq = Append(@, r), !.buf = Append(@, [req |-> r, valid |-> FALSE])]

IsDrained(s) == s.status = "Blocked" /\ s.drain /\ event = None

\* The next line is requested if that is possible; the CPU may be
\* drained if this stage is.
Issue(s, interrupt) ==
  LET r == [line |-> s.ftq[Len(s.buf) + 1], id |-> CHOOSE i \in FreeIds(s) : TRUE]
  IN  /\ drained' \in {FALSE, IsDrained(s)}
      /\ IF CanIssue(s, interrupt)
         THEN trans' = trans \cup {r} /\ f' = FetchCacheLine(s, r)
         ELSE trans' = trans /\ f' = s

\* The squashes that commit and decode may signal; decode's is not looked at
\* when there is one from commit.  The squash that goes with a drain stall is
\* left pending for commit's next tick and takes its time to get here: ticks may
\* see the stall without it, and it is the last one while the stall lasts.
Signals ==
  {[commit |-> t, decode |-> None] : t \in IF f.drain /\ ~squashDue THEN {} ELSE Lines}
    \cup {[commit |-> None, decode |-> t] : t \in Lines \cup {None}}

Tick(signal, interrupt) ==
  LET s == CheckSignalsAndUpdate(f, signal.commit, signal.decode)
  IN  /\ ~drained
      /\ event # None => ~event.late
      /\ UNCHANGED sent
      /\ squashDue' = (squashDue /\ signal.commit = None)
      /\ event' = IF event = None THEN None ELSE [event EXCEPT !.late = TRUE]
      /\ \E g \in Growths(s) : \E t \in Fetches(AddToFTQ(s, g[1], g[2]), interrupt) :
           Issue(Refilled(t), interrupt)

----------------------------------------------------------------------------
(* Translations.                                                           *)

\* "This element should exist in the memReq[tid] list": asserted where r and
\* what was requested after it are dropped.  The simulator stops otherwise.
Listed(r) == Contains(f.memReq, r)

\* The cache accepts the request, or refuses it and owes a retry.
SendTimingReq(r, accepted) ==
  IF accepted
  THEN /\ sent' = sent \cup {r}
       /\ f' = IF r.line = f.pc /\ Len(f.buf) = 1
               THEN [f EXCEPT !.status = "IcacheWaitResponse"] ELSE f
  ELSE /\ UNCHANGED sent
       /\ IF IsHead(f, r) /\ r.line = f.pc
          THEN f' = [f EXCEPT !.blocked = TRUE,
                              !.status = IF f.retry = None THEN "IcacheWaitRetry" ELSE @,
                              !.retry = IF f.retry = None THEN r ELSE @]
          ELSE /\ Listed(r)
               /\ f' = [CutBefore(f, r) EXCEPT !.blocked = TRUE]

\* The request popped is the youngest, whichever one failed.
PopMemReq(s) == [s EXCEPT !.status = "NoGoodAddr", !.memReq = Front(@), !.strayed = TRUE]

\* A fault of the program counter's line becomes a trap, later if there is
\* no room for the instruction that carries it.
TakeFault(r, full) ==
  IF r.line # f.pc
  THEN /\ Listed(r)
       /\ f' = [CutBefore(f, r) EXCEPT !.ftq = SubSeq(@, 1, SlotOf(f, r) - 1)]
       /\ event' = None
  ELSE IF full
  THEN UNCHANGED f /\ event' = [req |-> r, late |-> FALSE]
  ELSE /\ f' = [f EXCEPT !.status = "TrapPending", !.memReq = <<>>, !.prefetching = FALSE]
       /\ event' = None

Wanted(r) == f.memReq # <<>> /\ Slots(f, r) # {}

FinishTranslation(r, accepted, full) ==
  /\ r \in trans
  /\ trans' = trans \ {r}
  /\ accepted => ~f.blocked
  /\ CASE ~Wanted(r) -> UNCHANGED <<f, sent, event>>
       [] Wanted(r) /\ r.line \in BadLines ->
            f' = PopMemReq(f) /\ UNCHANGED <<sent, event>>
       [] Wanted(r) /\ r.line \in FaultLines ->
            /\ IF r.line = f.pc /\ full /\ event # None THEN UNCHANGED <<f, event>>
               ELSE TakeFault(r, full)
            /\ UNCHANGED sent
       [] OTHER -> SendTimingReq(r, accepted) /\ UNCHANGED event
  /\ UNCHANGED <<squashDue, drained>>

FinishTranslationEvent(full) ==
  /\ event # None
  /\ IF Wanted(event.req) THEN TakeFault(event.req, full) ELSE UNCHANGED f /\ event' = None
  /\ UNCHANGED <<squashDue, trans, sent, drained>>

----------------------------------------------------------------------------
(* The instruction cache.                                                  *)

Woken(s) == [s EXCEPT !.status = IF s.drain THEN "Blocked" ELSE "IcacheAccessComplete"]

\* The response fills the buffer of its request.  One that nobody waits for
\* is dropped, but may still wake the stage if it is for the right line.
ProcessCacheCompletion(r) ==
  LET s == IF f.status = "IcacheWaitResponse" /\ r.line = f.pc THEN Woken(f) ELSE f
      t == [s EXCEPT !.buf[SlotOf(s, r)].valid = TRUE, !.memReq = RemoveAt(@, Position(@, r))]
  IN  /\ r \in sent
      /\ sent' = sent \ {r}
      /\ f' = CASE ~Contains(f.memReq, r) -> s
                [] Contains(f.memReq, r) /\ IsHead(f, r) /\ r.line = f.pc -> Woken(t)
                [] OTHER -> t
      /\ UNCHANGED <<squashDue, trans, event, drained>>

\* Mutant: a faulty retry that does not see that there is nothing to send.
RetryLeavesBlocked(accepted) ==
  /\ f.blocked
  /\ IF f.retry # None /\ f.status = "IcacheWaitRetry" /\ accepted
     THEN /\ sent' = sent \cup {f.retry}
          /\ f' = [f EXCEPT !.status = "IcacheWaitResponse", !.retry = None, !.blocked = FALSE]
     ELSE UNCHANGED <<f, sent>>
  /\ UNCHANGED <<squashDue, trans, event, drained>>

RecvReqRetry(accepted) ==
  LET r == f.retry
  IN  /\ f.blocked
      /\ IF r # None /\ f.status = "IcacheWaitRetry"
         THEN IF accepted
              THEN /\ sent' = sent \cup {r}
                   /\ f' = [f EXCEPT !.status = IF f.buf[1].req.line = r.line
                                                THEN "IcacheWaitResponse" ELSE @,
                                     !.retry = None, !.blocked = FALSE]
              ELSE UNCHANGED <<f, sent>>
         ELSE /\ f' = [f EXCEPT !.retry = None, !.blocked = FALSE]
              /\ UNCHANGED sent
      /\ UNCHANGED <<squashDue, trans, event, drained>>

----------------------------------------------------------------------------
(* Commit.                                                                 *)

\* Commit has stopped at an instruction: it squashes all others and stalls
\* fetch.
DrainStall ==
  /\ ~f.drain
  /\ squashDue' = TRUE
  /\ f' = [f EXCEPT !.drain = TRUE]
  /\ UNCHANGED <<trans, sent, event, drained>>

\* From now on commit may squash again, whether or not its squash has come.
DrainResume ==
  /\ drained
  /\ drained' = FALSE
  /\ squashDue' = FALSE
  /\ f' = [f EXCEPT !.drain = FALSE]
  /\ UNCHANGED <<trans, sent, event>>

----------------------------------------------------------------------------

Init ==
  /\ f \in [status : {"Running"}, pc : Lines, ftq : {<<>>}, buf : {<<>>}, memReq : {<<>>},
            prefetching : {TRUE}, fresh : {TRUE}, blocked : {FALSE}, retry : {None}, drain : {FALSE},
            strayed : {FALSE}]
  /\ squashDue = FALSE
  /\ trans = {} /\ sent = {}
  /\ event = None
  /\ drained = FALSE

Next ==
  \/ \E signal \in Signals, interrupt \in BOOLEAN : Tick(signal, interrupt)
  \/ \E r \in trans, accepted, full \in BOOLEAN : FinishTranslation(r, accepted, full)
  \/ \E full \in BOOLEAN : FinishTranslationEvent(full)
  \/ \E r \in sent : ProcessCacheCompletion(r)
  \/ \E accepted \in BOOLEAN : RecvReqRetry(accepted)
  \/ DrainStall
  \/ DrainResume

Spec == Init /\ [][Next]_vars

\* A tick without squash and interrupt.
QuietTick == Tick([commit |-> None, decode |-> None], FALSE)

\* The clock goes on, and not every tick brings a squash or an interrupt; TLB
\* and cache answer every request, and a cache that refused one accepts it in
\* the end.
Fairness ==
  /\ WF_vars(QuietTick)
  /\ WF_vars(\E full \in BOOLEAN : FinishTranslationEvent(full))
  /\ WF_vars(RecvReqRetry(TRUE))
  /\ \A i \in 1 .. MaxReqs :
       /\ WF_vars(\E r \in {q \in trans : q.id = i}, accepted, full \in BOOLEAN :
                    FinishTranslation(r, accepted, full))
       /\ WF_vars(\E r \in {q \in sent : q.id = i} : ProcessCacheCompletion(r))

FairSpec == Spec /\ Fairness

----------------------------------------------------------------------------
(* Properties.                                                             *)

\* The buffers hold the first lines of the queue, in its order (the
\* assertions of pipelineIcacheAccesses and of finishTranslation).
BuffersFollowQueue ==
  Len(f.buf) <= Len(f.ftq) /\ \A i \in DOMAIN f.buf : f.buf[i].req.line = f.ftq[i]

\* Fetch and its queue never part: the oldest line is always the one the
\* program counter is in (the warnings "BUG! fetch at ..." and "This case
\* should not happend").
HeadAtPc ==
  /\ f.ftq # <<>> => f.ftq[1] = f.pc
  /\ f.buf # <<>> => f.buf[1].req.line = f.pc

\* A response whose request is still listed finds exactly one buffer, not
\* filled before (the assertions of processCacheCompletion).
CompletionFindsBuffer ==
  \A r \in ToSet(f.memReq) : \E i \in Slots(f, r) : Slots(f, r) = {i} /\ ~f.buf[i].valid

\* The answer of the TLB for r drops r and what was requested after it: the
\* cache refuses a request that is not the oldest, or a line ahead of the
\* program counter faults.
Cuts(r) ==
  /\ Wanted(r)
  /\ \/ r.line \in GoodLines /\ ~(IsHead(f, r) /\ r.line = f.pc)
     \/ r.line \in FaultLines /\ r.line # f.pc

\* The fault of the program counter's line has been sent to commit.
TrapTaken ==
  f.pc \in FaultLines /\ f.buf # <<>> /\ ~Contains(f.memReq, f.buf[1].req)

\* A request that is cut is in the list that is erased from it on, whatever
\* squashes, restarts, faults and refusals came between the request and the
\* answer ("This element should exist in the memReq[tid] list").  It may be
\* missing after a line outside memory, where the entry popped is not always
\* its own, and when a drain stall makes the stage issue again behind a trap.
CutIsListed ==
  ~TrapTaken /\ ~f.strayed =>
    \A r \in trans \cup (IF event = None THEN {} ELSE {event.req}) : Cuts(r) => Listed(r)

\* A packet kept for retry is that of the head, the cache owes the retry,
\* and nobody else has the request.
RetryIsHead ==
  f.retry # None => f.blocked /\ IsHead(f, f.retry) /\ f.retry \notin trans \cup sent

\* No line is forgotten: unless fetch waits for commit, at a trap or because
\* it has met a line outside memory, a line that translates and has not
\* arrived is on its way, and its arrival will count.
NoLineForgotten ==
  ~TrapTaken /\ ~f.strayed =>
    \A i \in DOMAIN f.buf : LET r == f.buf[i].req
                            IN  r.line \in GoodLines /\ ~f.buf[i].valid =>
                                  Contains(f.memReq, r) /\ (r \in trans \cup sent \/ f.retry = r)

\* Fetch never hangs: if the program counter stays in a line that can be
\* fetched, is not squashed, and no drain and no line outside memory stops
\* the stage, then the line is there again and again.
FetchProgress ==
  \A line \in GoodLines :
    <>[](f.pc = line /\ f.status # "Squashing" /\ ~f.drain /\ ~f.strayed) => []<>HeadReady(f)

\* When the CPU says that it is drained, no request of the stage is under way
\* ("assert(memReq[i].empty())" of drainSanityCheck).
DrainedIsQuiet == drained => f.memReq = <<>>

============================================================================
