-------------------------- MODULE FetchLinesProofs --------------------------
(***************************************************************************)
(* The fetch stage forgets no line: a proof on top of the invariant of     *)
(* FetchBuffersProofs.                                                     *)
(***************************************************************************)
EXTENDS FetchBuffersProofs

----------------------------------------------------------------------------
(* The strengthening, on a state of the stage and the set of requests that *)
(* are in the TLB or in the cache.                                         *)

\* TrapTaken, of a state of the stage.
Trap(s) == s.pc \in FaultLines /\ s.buf # <<>> /\ ~Contains(s.memReq, s.buf[1].req)

Waits(s, i) == ~s.buf[i].valid

\* The request of a line that translates is with the TLB or the cache, or
\* kept for a retry.
Flies(s, r, fly) == r.line \in GoodLines => r \in fly \/ (s.retry # None /\ s.retry = r)

\* A line that has not arrived is listed and on its way.
OnItsWay(s, fly) ==
  \A i \in 1 .. Len(s.buf) : Waits(s, i) =>
    Contains(s.memReq, s.buf[i].req) /\ Flies(s, s.buf[i].req, fly)

\* Only lines that translate are sent, kept for a retry and filled; the
\* stage stays in the state in which a retry is taken.
Careful(s, fly) ==
  /\ \A i \in 1 .. Len(s.buf) : s.buf[i].valid => s.buf[i].req.line \in GoodLines
  /\ s.retry # None => s.retry.line \in GoodLines
  /\ s.retry # None /\ ~s.strayed => s.status = "IcacheWaitRetry"
  /\ ~Trap(s) /\ ~s.strayed => OnItsWay(s, fly)

\* Only lines that translate are in the cache, only faults are handled again.
Tracked ==
  /\ Careful(f, trans \cup sent)
  /\ \A r \in sent : r.line \in GoodLines
  /\ event # None => event.req.line \in FaultLines

\* A line is good, or it faults, or it lies outside memory.
LEMMA GoodLineFacts ==
  ASSUME NEW l
  PROVE  /\ l \in GoodLines => l \notin FaultLines /\ l \notin BadLines /\ l \in Lines
         /\ l \in Lines /\ l \notin FaultLines /\ l \notin BadLines => l \in GoodLines
  BY DEF GoodLines

\* What leaves the lists alone.
LEMMA CarefulFrame ==
  ASSUME NEW s, NEW t, NEW fly, Careful(s, fly),
         t.pc = s.pc, t.buf = s.buf, t.memReq = s.memReq, t.retry = s.retry,
         t.strayed = s.strayed,
         t.retry # None /\ ~t.strayed => t.status = "IcacheWaitRetry"
  PROVE  Careful(t, fly)
  BY DEF Careful, Trap, OnItsWay, Waits, Flies

\* A stage without buffers forgets no line.
LEMMA EmptyCareful ==
  ASSUME NEW s, NEW fly, s.buf = <<>>, s.retry = None
  PROVE  Careful(s, fly)
<1>1. Len(s.buf) = 0
  BY EmptySeq
<1> QED
  BY <1>1 DEF Careful, OnItsWay

----------------------------------------------------------------------------
(* A tick.                                                                 *)

\* Squashes forget no line.
LEMMA CheckSignalsCareful ==
  ASSUME NEW s, Good(s), NEW fly, Careful(s, fly),
         NEW commit \in Lines \cup {None}, NEW decode \in Lines \cup {None}
  PROVE  Careful(CheckSignalsAndUpdate(s, commit, decode), fly)
<1> DEFINE t == CheckSignalsAndUpdate(s, commit, decode)
<1>0. s \in Stage
  BY DEF Good
<1>1. ASSUME NEW target \in Lines
      PROVE  Careful(DoSquash(s, target), fly)
  <2>1. DoSquash(s, target).buf = <<>> /\ DoSquash(s, target).retry = None
    BY <1>0 DEF DoSquash, Flushed, Stage
  <2> QED
    BY <2>1, EmptyCareful
<1>2. CASE commit # None
  <2>1. t = DoSquash(s, commit)
    BY <1>2 DEF CheckSignalsAndUpdate
  <2> QED
    BY <1>1, <1>2, <2>1
<1>3. CASE commit = None
  <2>1. s.status \in Statuses
    BY <1>0 DEF Stage
  <2>2. \/ t = DoSquash(s, decode) /\ decode # None
        \/ \E x \in Statuses : /\ t = [s EXCEPT !.status = x]
                               /\ s.status = "IcacheWaitRetry" => x = "IcacheWaitRetry"
    BY <1>3, <2>1 DEF CheckSignalsAndUpdate, Statuses
  <2>3. ASSUME NEW x \in Statuses, t = [s EXCEPT !.status = x],
               s.status = "IcacheWaitRetry" => x = "IcacheWaitRetry"
        PROVE  Careful(t, fly)
    <3>1. /\ t.pc = s.pc /\ t.buf = s.buf /\ t.memReq = s.memReq /\ t.retry = s.retry
          /\ t.strayed = s.strayed /\ t.status = x
      BY <1>0, <2>3 DEF Stage
    <3> HIDE DEF t
    <3>2. t.retry # None /\ ~t.strayed => t.status = "IcacheWaitRetry"
      BY <2>3, <3>1 DEF Careful
    <3> QED
      BY <3>1, <3>2, CarefulFrame
  <2> QED
    BY <1>1, <2>2, <2>3
<1> QED
  BY <1>2, <1>3

\* The growth of the queue forgets no line.
LEMMA AddToFTQCareful ==
  ASSUME NEW s, Good(s), NEW fly, Careful(s, fly), NEW new, NEW more
  PROVE  Careful(AddToFTQ(s, new, more), fly)
<1> DEFINE t == AddToFTQ(s, new, more)
<1>1. /\ t.pc = s.pc /\ t.buf = s.buf /\ t.memReq = s.memReq /\ t.retry = s.retry
      /\ t.strayed = s.strayed /\ t.status = s.status
  BY DEF AddToFTQ, Good, Stage
<1> HIDE DEF t
<1>2. Careful(t, fly)
  BY <1>1, CarefulFrame DEF Careful
<1> QED
  BY <1>2 DEF t

\* Refilling the buffers forgets no line.
LEMMA RefilledCareful ==
  ASSUME NEW s, Good(s), NEW fly, Careful(s, fly)
  PROVE  Careful(Refilled(s), fly)
<1> DEFINE t == Refilled(s)
<1>1. /\ t.pc = s.pc /\ t.buf = s.buf /\ t.memReq = s.memReq /\ t.retry = s.retry
      /\ t.strayed = s.strayed /\ t.status = s.status
  BY DEF Refilled, Good, Stage
<1> HIDE DEF t
<1>2. Careful(t, fly)
  BY <1>1, CarefulFrame DEF Careful
<1> QED
  BY <1>2 DEF t

\* Instructions are taken from a head that has arrived: it translates, so no
\* trap was taken and every line behind it is on its way.
LEMMA ReadyHeadCareful ==
  ASSUME NEW s, Good(s), NEW fly, Careful(s, fly), HeadReady(s)
  PROVE  /\ s.retry = None /\ s.buf[1].req.line \in GoodLines
         /\ ~s.strayed => OnItsWay(s, fly)
<1>1. s.retry = None /\ s.buf[1].valid /\ Len(s.buf) \in Nat \ {0} /\ s.buf[1].req.line = s.pc
  BY ValidHeadFacts DEF HeadReady
<1>2. s.buf[1].req.line \in GoodLines
  BY <1>1 DEF Careful
<1>3. ~Trap(s)
  BY <1>1, <1>2, GoodLineFacts DEF Trap
<1> QED
  BY <1>1, <1>2, <1>3 DEF Careful

\* A stage whose only buffer has arrived has nothing to wait for.
LEMMA LookupAndUpdateCareful ==
  ASSUME NEW s, Good(s), NEW fly, Careful(s, fly), HeadReady(s)
  PROVE  Careful(LookupAndUpdateNextPC(s), fly) /\ HeadReady(LookupAndUpdateNextPC(s))
<1> DEFINE t == LookupAndUpdateNextPC(s)
<1>1. /\ s \in Stage /\ s.buf[1].valid /\ s.retry = None /\ s.buf[1].req.line = s.pc
  BY ValidHeadFacts DEF HeadReady
<1>2. t.buf = <<s.buf[1]>> /\ t.retry = None /\ t.pc = s.pc
  BY <1>1 DEF LookupAndUpdateNextPC, Stage
<1> HIDE DEF t
<1>3. Len(t.buf) = 1 /\ t.buf[1] = s.buf[1] /\ t.buf # <<>>
  BY <1>2
<1>4. s.buf[1].req.line \in GoodLines
  BY ReadyHeadCareful
<1>5. OnItsWay(t, fly)
  BY <1>1, <1>3 DEF OnItsWay, Waits, Flies
<1>6. Careful(t, fly) /\ HeadReady(t)
  BY <1>1, <1>2, <1>3, <1>4, <1>5 DEF Careful, HeadReady, HeadValid
<1> QED
  BY <1>6 DEF t

\* Leaving the oldest line forgets no other.
LEMMA PopHeadCareful ==
  ASSUME NEW s, Good(s), NEW fly, Careful(s, fly), HeadReady(s), NEW next \in Lines
  PROVE  Careful(PopHead(s, next), fly)
<1> DEFINE u == [s EXCEPT !.pc = next, !.ftq = Tail(@), !.buf = Tail(@), !.fresh = FALSE]
<1>1. /\ s \in Stage /\ Len(s.buf) \in Nat \ {0} /\ s.buf \in Seq(Slot) /\ s.buf # <<>>
      /\ s.retry = None
  BY ValidHeadFacts, StageFacts DEF HeadReady
<1>2. /\ Len(Tail(s.buf)) = Len(s.buf) - 1
      /\ \A i \in 1 .. Len(s.buf) - 1 : Tail(s.buf)[i] = s.buf[i + 1]
  BY <1>1, HeadTailProperties
<1>3. u.buf = Tail(s.buf) /\ u.memReq = s.memReq /\ u.retry = None /\ u.strayed = s.strayed
  BY <1>1 DEF Stage
<1>4. PopHead(s, next) = IF u.ftq # <<>> /\ u.ftq[1] # next THEN Flushed(u) ELSE u
  BY DEF PopHead
<1>5. Flushed(u).buf = <<>> /\ Flushed(u).retry = None
  BY <1>1 DEF Flushed, Stage
<1> HIDE DEF u
<1>6. \A i \in 1 .. Len(u.buf) : u.buf[i] = s.buf[i + 1] /\ i + 1 \in 1 .. Len(s.buf)
  BY <1>1, <1>2, <1>3
<1>7. Careful(u, fly)
  <2>1. ~s.strayed => OnItsWay(s, fly)
    BY ReadyHeadCareful
  <2>2. ~s.strayed => OnItsWay(u, fly)
    BY <1>1, <1>3, <1>6, <2>1 DEF OnItsWay, Waits, Flies
  <2> QED
    BY <1>3, <1>6, <2>2 DEF Careful
<1> QED
  BY <1>4, <1>5, <1>7, EmptyCareful

\* fetch forgets no line.
LEMMA FetchCareful ==
  ASSUME NEW s, Good(s), NEW fly, Careful(s, fly), NEW interrupt \in BOOLEAN,
         NEW t \in Fetches(s, interrupt)
  PROVE  Careful(t, fly)
<1> DEFINE run == [s EXCEPT !.status = "Running"]
<1>1. /\ s \in Stage /\ run \in Stage /\ run.pc = s.pc /\ run.ftq = s.ftq /\ run.buf = s.buf
      /\ run.memReq = s.memReq /\ run.retry = s.retry /\ run.blocked = s.blocked
      /\ run.strayed = s.strayed
  BY DEF Good, Stage, Statuses
<1> HIDE DEF run
<1>2. Good(run)
  BY <1>1, Frame
<1>3. s.retry = None \/ s.strayed => Careful(run, fly)
  BY <1>1, CarefulFrame
<1>4. CASE CanFetch(s, interrupt)
  <2>1. PICK next \in Lines, mis \in BOOLEAN : t = Fetch(s, next, mis)
    BY <1>4 DEF Fetches
  <2> DEFINE new == IF mis THEN LookupAndUpdateNextPC(run) ELSE run
  <2>2. HeadReady(s) /\ HeadReady(run)
    BY <1>1, <1>4 DEF CanFetch, HeadReady, HeadValid
  <2>3. Careful(run, fly)
    BY <1>3, <2>2, ReadyHeadCareful
  <2>4. Good(new) /\ Careful(new, fly) /\ HeadReady(new)
    BY <1>2, <2>2, <2>3, LookupAndUpdateGood, LookupAndUpdateCareful DEF HeadReady
  <2>5. t = IF next = s.pc THEN new ELSE PopHead(new, next)
    BY <2>1 DEF Fetch, run
  <2> HIDE DEF new
  <2> QED
    BY <2>4, <2>5, PopHeadCareful
<1>5. CASE ~CanFetch(s, interrupt) /\ s.status = "IcacheAccessComplete"
  <2>1. t = run
    BY <1>5 DEF Fetches, run
  <2>2. s.retry = None \/ s.strayed
    BY <1>5 DEF Careful
  <2>3. s.strayed \in BOOLEAN
    BY <1>1 DEF Stage
  <2> QED
    BY <1>3, <2>1, <2>2
<1>6. CASE ~CanFetch(s, interrupt) /\ s.status # "IcacheAccessComplete"
  BY <1>6 DEF Fetches
<1> QED
  BY <1>4, <1>5, <1>6

\* The request that a tick ends with is in the TLB, and does not end a trap.
LEMMA IssueCareful ==
  ASSUME NEW s, Good(s), Careful(s, trans \cup sent), NEW interrupt \in BOOLEAN,
         Issue(s, interrupt), sent' = sent
  PROVE  Careful(f', trans' \cup sent')
<1>1. CASE ~CanIssue(s, interrupt)
  <2>1. f' = s /\ trans' = trans
    BY <1>1 DEF Issue
  <2> QED
    BY <2>1
<1>2. CASE CanIssue(s, interrupt)
  <2> DEFINE n == Len(s.buf)
             m == Len(s.memReq)
             r == [line |-> s.ftq[n + 1], id |-> CHOOSE i \in FreeIds(s) : TRUE]
             x == [req |-> r, valid |-> FALSE]
  <2>0. s \in Stage
    BY DEF Good
  <2>1. /\ n \in Nat /\ Len(s.ftq) \in Nat /\ n < Len(s.ftq) /\ m \in Nat
        /\ s.ftq \in Seq(Lines) /\ s.buf \in Seq(Slot) /\ s.memReq \in Seq(Request)
        /\ DOMAIN s.buf = 1 .. n /\ s.blocked = FALSE
    BY <2>0, <1>2, StageFacts DEF CanIssue
  <2>2. s.ftq[n + 1] \in Lines
    BY <2>1, ElementOfSeq
  <2>3. r.id \in FreeIds(s)
    BY <1>2 DEF CanIssue
  <2>4. r \in Request
    BY <2>2, <2>3 DEF Request, FreeIds
  <2>5. x \in Slot /\ x.req = r /\ x.valid = FALSE
    BY <2>4 DEF Slot
  <2>6. trans' = trans \cup {r} /\ f' = FetchCacheLine(s, r)
    BY <1>2 DEF Issue
  <2>7. FetchCacheLine(s, r) = [s EXCEPT !.memReq = Append(@, r), !.buf = Append(@, x)]
    BY DEF FetchCacheLine
  <2>8. \A i \in 1 .. n : s.buf[i].req # r
    BY <2>1, <2>3, FreshRequest
  <2>9. s.retry = None
    BY <2>1 DEF Good, Retries
  <2> HIDE DEF r, x
  <2>10. /\ Len(Append(s.buf, x)) = n + 1
         /\ \A i \in 1 .. n : Append(s.buf, x)[i] = s.buf[i]
         /\ Append(s.buf, x)[n + 1] = x
    BY <2>1, <2>5, AppendProperties
  <2>11. /\ Len(Append(s.memReq, r)) = m + 1
         /\ \A p \in 1 .. m : Append(s.memReq, r)[p] = s.memReq[p]
         /\ Append(s.memReq, r)[m + 1] = r
    BY <2>1, <2>4, AppendProperties
  <2>12. /\ f'.buf = Append(s.buf, x) /\ f'.memReq = Append(s.memReq, r)
         /\ f'.pc = s.pc /\ f'.retry = None /\ f'.strayed = s.strayed
    BY <2>0, <2>6, <2>7, <2>9 DEF Stage
  <2>13. /\ Len(f'.buf) = n + 1
         /\ \A i \in 1 .. n : f'.buf[i] = s.buf[i]
         /\ f'.buf[n + 1].req = r /\ f'.buf[n + 1].valid = FALSE
         /\ \A i \in 1 .. n + 1 : i \in 1 .. n \/ i = n + 1
    BY <2>1, <2>5, <2>10, <2>12
  <2>14. \A y : Contains(f'.memReq, y) <=> Contains(s.memReq, y) \/ y = r
    <3>1. \A p \in 1 .. m + 1 : p \in 1 .. m \/ p = m + 1
      BY <2>1
    <3>2. m + 1 \in 1 .. m + 1 /\ \A p \in 1 .. m : p \in 1 .. m + 1
      BY <2>1
    <3> QED
      BY <2>11, <2>12, <3>1, <3>2 DEF Contains
  <2>15. Trap(s) => Trap(f')
    <3> SUFFICES ASSUME Trap(s) PROVE Trap(f')
      OBVIOUS
    <3>1. n # 0 /\ n + 1 # 0
      BY <2>0, <2>1, EmptySeq DEF Trap
    <3>2. 1 \in 1 .. n /\ f'.buf # <<>>
      BY <2>1, <2>13, <3>1, EmptySeq
    <3> QED
      BY <2>8, <2>12, <2>13, <2>14, <3>2 DEF Trap
  <2>16. ~Trap(f') /\ ~f'.strayed => OnItsWay(f', trans' \cup sent')
    <3> SUFFICES ASSUME OnItsWay(s, trans \cup sent) PROVE OnItsWay(f', trans' \cup sent')
      BY <2>12, <2>15 DEF Careful
    <3> SUFFICES ASSUME NEW i \in 1 .. n + 1, Waits(f', i)
                 PROVE  /\ Contains(f'.memReq, f'.buf[i].req)
                        /\ f'.buf[i].req.line \in GoodLines => f'.buf[i].req \in trans' \cup sent'
      BY <2>13 DEF OnItsWay, Flies
    <3>1. CASE i = n + 1
      BY <2>6, <2>13, <2>14, <3>1
    <3>2. CASE i \in 1 .. n
      <4>1. Waits(s, i)
        BY <2>13, <3>2 DEF Waits
      <4>2. /\ Contains(s.memReq, s.buf[i].req)
            /\ s.buf[i].req.line \in GoodLines => s.buf[i].req \in trans \cup sent
        BY <2>9, <3>2, <4>1 DEF OnItsWay, Flies
      <4> QED
        BY <2>6, <2>13, <2>14, <3>2, <4>2
    <3> QED
      BY <2>13, <3>1, <3>2
  <2>17. \A i \in 1 .. n + 1 : f'.buf[i].valid => f'.buf[i].req.line \in GoodLines
    BY <2>13 DEF Careful
  <2> QED
    BY <2>12, <2>13, <2>16, <2>17 DEF Careful
<1> QED
  BY <1>1, <1>2

\* A tick keeps Tracked.
LEMMA TickTracks ==
  ASSUME IInv, Tracked, NEW signal \in Signals, NEW interrupt \in BOOLEAN,
         Tick(signal, interrupt)
  PROVE  Tracked'
<1> DEFINE fly == trans \cup sent
           s == CheckSignalsAndUpdate(f, signal.commit, signal.decode)
<1>1. signal.commit \in Lines \cup {None} /\ signal.decode \in Lines \cup {None}
  BY DEF Signals
<1>2. Good(s) /\ Restarted(s) /\ Careful(s, fly)
  BY <1>1, CheckSignalsGood, CheckSignalsCareful DEF IInv, Tracked
<1>3. PICK g \in Growths(s) : \E t \in Fetches(AddToFTQ(s, g[1], g[2]), interrupt) :
        Issue(Refilled(t), interrupt)
  BY DEF Tick
<1>4. /\ sent' = sent
      /\ event' = IF event = None THEN None ELSE [event EXCEPT !.late = TRUE]
  BY DEF Tick
<1> HIDE DEF s
<1> DEFINE q == AddToFTQ(s, g[1], g[2])
<1>5. Good(q) /\ Restarted(q) /\ Careful(q, fly)
  BY <1>2, AddToFTQGood, AddToFTQCareful
<1>6. PICK t \in Fetches(q, interrupt) : Issue(Refilled(t), interrupt)
  BY <1>3
<1> HIDE DEF q
<1>7. Good(t) /\ (Restarted(t) \/ Issues(t)) /\ Careful(t, fly)
  BY <1>5, FetchGood, FetchCareful
<1>8. Good(Refilled(t)) /\ Careful(Refilled(t), fly)
  BY <1>7, RefilledGood, RefilledCareful
<1>9. Careful(f', trans' \cup sent')
  BY <1>4, <1>6, <1>8, IssueCareful
<1>10. event' # None => event'.req.line \in FaultLines
  BY <1>4 DEF IInv, TypeOK, Tracked
<1> QED
  BY <1>4, <1>9, <1>10 DEF Tracked

----------------------------------------------------------------------------
(* Translations.                                                           *)

\* What leaves the TLB or the cache is not missed if no line waits for it.
LEMMA CarefulLeaves ==
  ASSUME NEW s, NEW fly, NEW new, Careful(s, fly),
         ASSUME NEW i \in 1 .. Len(s.buf), ~Trap(s), ~s.strayed, Waits(s, i),
                Contains(s.memReq, s.buf[i].req), s.buf[i].req.line \in GoodLines,
                s.buf[i].req \in fly
         PROVE  s.buf[i].req \in new
  PROVE  Careful(s, new)
BY DEF Careful, OnItsWay, Flies

\* The buffers and the list are cut at the same request, behind the head:
\* what waits before it is listed before it, and a trap stays one.
LEMMA CutCareful ==
  ASSUME NEW s, Good(s), NEW r, Slots(s, r) # {}, Contains(s.memReq, r), SlotOf(s, r) # 1,
         NEW fly, Careful(s, fly),
         NEW t, t.buf = SubSeq(s.buf, 1, SlotOf(s, r) - 1), t.memReq = Before(s.memReq, r),
         t.pc = s.pc, t.retry = s.retry, t.strayed = s.strayed, t.status = s.status
  PROVE  Careful(t, fly \ {r})
<1> DEFINE k == SlotOf(s, r)
           m == Position(s.memReq, r)
<1>1. /\ s \in Stage /\ Len(s.buf) \in Nat /\ Len(s.memReq) \in Nat
      /\ s.buf \in Seq(Slot) /\ s.memReq \in Seq(Request)
  BY StageFacts DEF Good
<1>2. k \in 1 .. Len(s.buf) /\ s.buf[k].req = r
  BY <1>1, SlotFacts
<1>3. m \in 1 .. Len(s.memReq) /\ s.memReq[m] = r
  BY <1>1, PositionFacts
<1> HIDE DEF k, m
<1>4. k - 1 \in 0 .. Len(s.buf) /\ 1 \in 1 .. k - 1 /\ m - 1 \in 0 .. Len(s.memReq)
  BY <1>1, <1>2, <1>3 DEF k
<1>5. Len(t.buf) = k - 1 /\ \A i \in 1 .. k - 1 : t.buf[i] = s.buf[i]
  BY <1>1, <1>4, PrefixFacts DEF k
<1>6. Len(t.memReq) = m - 1 /\ \A p \in 1 .. m - 1 : t.memReq[p] = s.memReq[p]
  BY <1>1, <1>4, PrefixFacts DEF m, Before
<1>7. \A i \in 1 .. k - 1 : i \in 1 .. Len(s.buf) /\ i < k
  BY <1>1, <1>2
<1>8. \A p \in 1 .. m - 1 : p \in 1 .. Len(s.memReq)
  BY <1>1, <1>3
<1>9. Trap(s) => Trap(t)
  <2> SUFFICES ASSUME Trap(s) PROVE Trap(t)
    OBVIOUS
  <2>1. \A y : Contains(t.memReq, y) => Contains(s.memReq, y)
    BY <1>6, <1>8 DEF Contains
  <2>2. k - 1 # 0
    BY <1>1, <1>2, <1>4
  <2>3. Len(t.buf) # 0
    BY <1>5, <2>2
  <2>4. t.buf # <<>> /\ t.buf[1] = s.buf[1]
    BY <1>4, <1>5, <2>3, EmptySeq
  <2> QED
    BY <2>1, <2>4 DEF Trap
<1>10. ~Trap(t) /\ ~t.strayed => OnItsWay(t, fly \ {r})
  <2> SUFFICES ASSUME OnItsWay(s, fly), NEW i \in 1 .. k - 1, Waits(t, i)
               PROVE  Contains(t.memReq, t.buf[i].req) /\ Flies(t, t.buf[i].req, fly \ {r})
    BY <1>5, <1>9 DEF OnItsWay, Careful
  <2>1. /\ i \in 1 .. Len(s.buf) /\ i < k /\ t.buf[i] = s.buf[i] /\ Waits(s, i)
    BY <1>5, <1>7 DEF Waits
  <2>2. Contains(s.memReq, s.buf[i].req) /\ Flies(s, s.buf[i].req, fly)
    BY <2>1 DEF OnItsWay
  <2>3. PICK p \in 1 .. Len(s.memReq) : s.memReq[p] = s.buf[i].req
    BY <2>2 DEF Contains
  <2>4. s.buf[i].req # r
    BY <1>1, <1>2, <2>1 DEF Good, Distinct
  <2>5. p # m
    BY <1>3, <2>3, <2>4
  <2>6. ~(m < p)
    <3>1. m < p => k < i
      BY <1>2, <1>3, <2>1, <2>3 DEF Good, InOrder
    <3> QED
      BY <1>1, <1>2, <2>1, <3>1
  <2>7. p \in 1 .. m - 1
    BY <1>1, <1>3, <2>5, <2>6
  <2> QED
    BY <1>6, <2>1, <2>2, <2>3, <2>4, <2>7 DEF Contains, Flies
<1>11. \A i \in 1 .. Len(t.buf) : t.buf[i].valid => t.buf[i].req.line \in GoodLines
  BY <1>5, <1>7 DEF Careful
<1> QED
  BY <1>10, <1>11 DEF Careful

\* A fault that is taken becomes a trap, waits, or cuts the queue.
LEMMA TakeFaultTracks ==
  ASSUME IInv, Tracked, NEW r, r.line \in FaultLines, Wanted(r), NEW full \in BOOLEAN,
         TakeFault(r, full), sent' = sent, trans' = trans \/ trans' = trans \ {r}
  PROVE  Tracked'
<1> DEFINE fly == trans \cup sent
           new == trans' \cup sent'
<1>1. /\ f \in Stage /\ Good(f) /\ Slots(f, r) # {} /\ Careful(f, fly)
      /\ \A q \in sent : q.line \in GoodLines
  BY DEF IInv, TypeOK, Wanted, Tracked
<1>2. r.line \notin GoodLines
  BY GoodLineFacts
<1>3. new = fly \/ new = fly \ {r}
  BY <1>1, <1>2
<1>4. CASE r.line # f.pc
  <2> DEFINE t == [CutBefore(f, r) EXCEPT !.ftq = SubSeq(@, 1, SlotOf(f, r) - 1)]
  <2>1. event' = None /\ Contains(f.memReq, r) /\ f' = t
    BY <1>4 DEF TakeFault, Listed
  <2>2. SlotOf(f, r) # 1
    BY <1>1, <1>4, HeadLine
  <2>3. /\ t.buf = SubSeq(f.buf, 1, SlotOf(f, r) - 1) /\ t.memReq = Before(f.memReq, r)
        /\ t.pc = f.pc /\ t.retry = f.retry /\ t.strayed = f.strayed /\ t.status = f.status
    BY <1>1 DEF CutBefore, Stage
  <2> HIDE DEF t
  <2>4. Careful(t, fly \ {r})
    BY <1>1, <2>1, <2>2, <2>3, CutCareful
  <2>5. Careful(t, new)
    BY <1>3, <2>4 DEF Careful, OnItsWay, Flies
  <2> QED
    BY <1>1, <2>1, <2>5 DEF Tracked
<1>5. CASE r.line = f.pc /\ full
  <2>1. f' = f /\ event' = [req |-> r, late |-> FALSE]
    BY <1>5 DEF TakeFault
  <2>2. Careful(f, new)
    BY <1>1, <1>2, <1>3 DEF Careful, OnItsWay, Waits, Flies
  <2> QED
    BY <1>1, <2>1, <2>2 DEF Tracked
<1>6. CASE r.line = f.pc /\ ~full
  <2> DEFINE t == [f EXCEPT !.status = "TrapPending", !.memReq = <<>>, !.prefetching = FALSE]
  <2>1. event' = None /\ f' = t
    BY <1>6 DEF TakeFault
  <2>2. /\ t.pc = f.pc /\ t.buf = f.buf /\ t.memReq = <<>> /\ t.retry = f.retry
    BY <1>1 DEF Stage
  <2> HIDE DEF t
  <2>3. Len(t.memReq) = 0 /\ Len(f.buf) # 0
    BY <1>1, <2>2, EmptySeq, SlotFacts, StageFacts
  <2>4. f.buf # <<>> /\ 1 \in 1 .. Len(f.buf)
    BY <1>1, <2>3, EmptySeq, StageFacts
  <2>5. Trap(t)
    BY <1>6, <2>2, <2>3, <2>4 DEF Trap, Contains
  <2>6. f.retry = None
    <3>1. SUFFICES ASSUME f.retry # None PROVE FALSE
      OBVIOUS
    <3>2. f.buf[1].req = f.retry
      BY <1>1, <3>1 DEF Good, Retries
    <3>3. f.buf[1].req.line = f.pc
      <4>1. Len(f.ftq) # 0 /\ f.buf[1].req.line = f.ftq[1]
        BY <1>1, <2>4, StageFacts DEF Good, Follows
      <4> QED
        BY <1>1, <4>1, EmptySeq DEF Good, AtPc
    <3> QED
      BY <1>1, <1>2, <1>6, <3>1, <3>2, <3>3 DEF Careful
  <2>7. Careful(t, new)
    BY <1>1, <2>2, <2>5, <2>6 DEF Careful
  <2> QED
    BY <1>1, <2>1, <2>7 DEF Tracked
<1> QED
  BY <1>4, <1>5, <1>6

\* The head is the line of the program counter.
LEMMA HeadLineAtPc ==
  ASSUME NEW s, Good(s), s.buf # <<>>
  PROVE  1 \in 1 .. Len(s.buf) /\ s.buf[1].req.line = s.pc
<1>1. s \in Stage
  BY DEF Good
<1>2. Len(s.buf) # 0
  BY <1>1, StageFacts, EmptySeq
<1>3. 1 \in 1 .. Len(s.buf)
  BY <1>1, <1>2, StageFacts
<1>4. Len(s.ftq) # 0 /\ s.buf[1].req.line = s.ftq[1]
  BY <1>1, <1>3, StageFacts DEF Good, Follows
<1> QED
  BY <1>3, <1>4, EmptySeq DEF Good, AtPc

\* A request that has been translated goes to the cache, is kept for a retry,
\* or is dropped with all behind it.
LEMMA SendTimingReqTracks ==
  ASSUME IInv, Tracked, NEW r \in trans, r.line \in GoodLines, trans' = trans \ {r}, Wanted(r),
         NEW accepted \in BOOLEAN, SendTimingReq(r, accepted), event' = event
  PROVE  Tracked'
<1> DEFINE fly == trans \cup sent
           new == trans' \cup sent'
<1>1. /\ f \in Stage /\ Good(f) /\ Slots(f, r) # {} /\ Careful(f, fly) /\ trans \cap sent = {}
      /\ \A q \in sent : q.line \in GoodLines
      /\ event # None => event.req.line \in FaultLines
  BY DEF IInv, TypeOK, Wanted, Tracked
<1>2. IsHead(f, r) => f.retry = None
  BY <1>1 DEF IsHead, Good, Retries
<1>3. CASE accepted
  <2>1. sent' = sent \cup {r} /\ new = fly
    BY <1>3 DEF SendTimingReq
  <2>2. CASE ~(r.line = f.pc /\ Len(f.buf) = 1)
    <3>1. f' = f
      BY <1>3, <2>2 DEF SendTimingReq
    <3> QED
      BY <1>1, <2>1, <3>1 DEF Tracked
  <2>3. CASE r.line = f.pc /\ Len(f.buf) = 1
    <3> DEFINE t == [f EXCEPT !.status = "IcacheWaitResponse"]
    <3>1. f' = t
      BY <1>3, <2>3 DEF SendTimingReq
    <3>2. SlotOf(f, r) = 1
      BY <1>1, <2>3, SlotFacts
    <3>3. f.retry = None
      BY <1>1, <1>2, <3>2, HeadLine
    <3>4. /\ t.pc = f.pc /\ t.buf = f.buf /\ t.memReq = f.memReq /\ t.retry = f.retry
          /\ t.strayed = f.strayed
      BY <1>1 DEF Stage
    <3> HIDE DEF t
    <3>5. Careful(t, fly)
      BY <1>1, <3>3, <3>4, CarefulFrame
    <3> QED
      BY <1>1, <2>1, <3>1, <3>5 DEF Tracked
  <2> QED
    BY <2>2, <2>3
<1>4. CASE ~accepted /\ IsHead(f, r) /\ r.line = f.pc
  <2>1. /\ sent' = sent
        /\ f' = [f EXCEPT !.blocked = TRUE,
                          !.status = IF f.retry = None THEN "IcacheWaitRetry" ELSE @,
                          !.retry = IF f.retry = None THEN r ELSE @]
    BY <1>4 DEF SendTimingReq
  <2>2. /\ f'.pc = f.pc /\ f'.buf = f.buf /\ f'.memReq = f.memReq /\ f'.strayed = f.strayed
        /\ f'.status = "IcacheWaitRetry" /\ f'.retry = r
    BY <1>1, <1>2, <1>4, <2>1 DEF Stage
  <2>3. new = fly \ {r}
    BY <1>1, <2>1
  <2>4. ~Trap(f') /\ ~f'.strayed => OnItsWay(f', new)
    <3>1. Trap(f) <=> Trap(f')
      BY <2>2 DEF Trap
    <3>2. SUFFICES ASSUME OnItsWay(f, fly) PROVE OnItsWay(f', new)
      BY <1>1, <2>2, <3>1 DEF Careful
    <3>3. ASSUME NEW i \in 1 .. Len(f.buf), Waits(f, i)
          PROVE  Contains(f.memReq, f.buf[i].req) /\ Flies(f', f.buf[i].req, new)
      <4>1. /\ Contains(f.memReq, f.buf[i].req)
            /\ f.buf[i].req.line \in GoodLines => f.buf[i].req \in fly
        BY <1>2, <1>4, <3>2, <3>3 DEF OnItsWay, Flies
      <4>2. r # None
        BY FetchAssumption DEF IInv, TypeOK, Request
      <4> QED
        BY <2>2, <2>3, <4>1, <4>2 DEF Flies
    <3> QED
      BY <2>2, <3>3 DEF OnItsWay, Waits
  <2>5. Careful(f', new)
    BY <1>1, <2>2, <2>4 DEF Careful
  <2> QED
    BY <1>1, <2>1, <2>5 DEF Tracked
<1>5. CASE ~accepted /\ ~(IsHead(f, r) /\ r.line = f.pc)
  <2> DEFINE t == [CutBefore(f, r) EXCEPT !.blocked = TRUE]
  <2>1. sent' = sent /\ Contains(f.memReq, r) /\ f' = t
    BY <1>5 DEF SendTimingReq, Listed
  <2>2. SlotOf(f, r) # 1
    BY <1>1, <1>5, HeadLine
  <2>3. /\ t.buf = SubSeq(f.buf, 1, SlotOf(f, r) - 1) /\ t.memReq = Before(f.memReq, r)
        /\ t.pc = f.pc /\ t.retry = f.retry /\ t.strayed = f.strayed /\ t.status = f.status
    BY <1>1 DEF CutBefore, Stage
  <2> HIDE DEF t
  <2>4. Careful(t, fly \ {r})
    BY <1>1, <2>1, <2>2, <2>3, CutCareful
  <2>5. new = fly \ {r}
    BY <1>1, <2>1
  <2> QED
    BY <1>1, <2>1, <2>4, <2>5 DEF Tracked
<1> QED
  BY <1>3, <1>4, <1>5

\* A late answer that nobody wants is dropped: no line waits for it.
LEMMA UnwantedTracks ==
  ASSUME IInv, Tracked, NEW r, ~Wanted(r), trans' = trans \/ trans' = trans \ {r},
         sent' = sent, f' = f, event' = event \/ event' = None
  PROVE  Tracked'
<1> DEFINE fly == trans \cup sent
           new == trans' \cup sent'
<1>1. Good(f) /\ Careful(f, fly) /\ DOMAIN f.buf = 1 .. Len(f.buf)
  BY StageFacts DEF IInv, TypeOK, Tracked
<1>2. ASSUME NEW i \in 1 .. Len(f.buf), Contains(f.memReq, f.buf[i].req), f.buf[i].req \in fly
      PROVE  f.buf[i].req \in new
  <2>1. f.memReq # <<>>
    BY <1>2, EmptySeq DEF Contains
  <2>2. f.buf[i].req # r
    BY <1>1, <2>1 DEF Wanted, Slots
  <2> QED
    BY <1>2, <2>2
<1>3. Careful(f, new)
  BY <1>1, <1>2 DEF Careful, OnItsWay, Flies
<1> QED
  BY <1>3 DEF Tracked

\* An answer of the TLB keeps Tracked.
LEMMA FinishTranslationTracks ==
  ASSUME IInv, Tracked, NEW r \in trans, NEW accepted \in BOOLEAN, NEW full \in BOOLEAN,
         FinishTranslation(r, accepted, full)
  PROVE  Tracked'
<1>1. trans' = trans \ {r}
  BY DEF FinishTranslation
<1>2. CASE ~Wanted(r)
  <2>1. f' = f /\ sent' = sent /\ event' = event
    BY <1>2 DEF FinishTranslation
  <2> QED
    BY <1>1, <1>2, <2>1, UnwantedTracks
<1>3. CASE Wanted(r) /\ r.line \in BadLines
  <2> DEFINE t == PopMemReq(f)
  <2>1. f' = t /\ sent' = sent /\ event' = event
    BY <1>3, FetchAssumption DEF FinishTranslation
  <2>2. t.buf = f.buf /\ t.retry = f.retry /\ t.strayed = TRUE
    BY DEF PopMemReq, IInv, TypeOK, Stage
  <2> HIDE DEF t
  <2>3. Careful(t, trans' \cup sent')
    BY <2>2 DEF Careful, Tracked
  <2> QED
    BY <2>1, <2>3 DEF Tracked
<1>4. CASE Wanted(r) /\ r.line \in FaultLines
  <2>1. r.line \notin BadLines /\ r.line \notin GoodLines
    BY <1>4, FetchAssumption, GoodLineFacts
  <2>2. sent' = sent
    BY <1>4, <2>1 DEF FinishTranslation
  <2>3. CASE r.line = f.pc /\ full /\ event # None
    <3>1. f' = f /\ event' = event
      BY <1>4, <2>1, <2>3 DEF FinishTranslation
    <3>2. Careful(f, trans' \cup sent')
      BY <1>1, <2>1, <2>2 DEF Tracked, Careful, OnItsWay, Waits, Flies
    <3> QED
      BY <2>2, <3>1, <3>2 DEF Tracked
  <2>4. CASE ~(r.line = f.pc /\ full /\ event # None)
    <3>1. TakeFault(r, full)
      BY <1>4, <2>1, <2>4 DEF FinishTranslation
    <3> QED
      BY <1>1, <1>4, <2>2, <3>1, TakeFaultTracks
  <2> QED
    BY <2>3, <2>4
<1>5. CASE Wanted(r) /\ r.line \notin BadLines /\ r.line \notin FaultLines
  <2>1. SendTimingReq(r, accepted) /\ event' = event
    BY <1>5 DEF FinishTranslation
  <2>2. r.line \in GoodLines
    BY <1>5, GoodLineFacts DEF IInv, TypeOK, Request
  <2> QED
    BY <1>1, <1>5, <2>1, <2>2, SendTimingReqTracks
<1> QED
  BY <1>2, <1>3, <1>4, <1>5

\* The delayed fault keeps Tracked.
LEMMA FinishTranslationEventTracks ==
  ASSUME IInv, Tracked, NEW full \in BOOLEAN, FinishTranslationEvent(full)
  PROVE  Tracked'
<1>1. /\ trans' = trans /\ sent' = sent /\ event # None /\ event.req.line \in FaultLines
  BY DEF FinishTranslationEvent, Tracked
<1>2. CASE Wanted(event.req)
  <2>1. TakeFault(event.req, full)
    BY <1>2 DEF FinishTranslationEvent
  <2> QED
    BY <1>1, <1>2, <2>1, TakeFaultTracks
<1>3. CASE ~Wanted(event.req)
  <2>1. f' = f /\ event' = None
    BY <1>3 DEF FinishTranslationEvent
  <2> QED
    BY <1>1, <1>3, <2>1, UnwantedTracks
<1> QED
  BY <1>2, <1>3

----------------------------------------------------------------------------
(* The instruction cache.                                                  *)

\* A response that is wanted fills its buffer; those of the other lines stay
\* listed.  Unless it is the head's, the status stays.
LEMMA FillCareful ==
  ASSUME NEW s, Good(s), NEW r, r.line \in GoodLines, Contains(s.memReq, r),
         NEW fly, Careful(s, fly),
         NEW t, t = [s EXCEPT !.buf[SlotOf(s, r)].valid = TRUE,
                              !.memReq = RemoveAt(@, Position(@, r))]
  PROVE  Careful(t, fly \ {r}) /\ t.retry = s.retry /\ t \in Stage
<1> DEFINE k == SlotOf(s, r)
           m == Position(s.memReq, r)
           b == [s.buf EXCEPT ![k] = [s.buf[k] EXCEPT !.valid = TRUE]]
           list == RemoveAt(s.memReq, m)
<1>1. /\ s \in Stage /\ Len(s.buf) \in Nat /\ Len(s.memReq) \in Nat
      /\ s.buf \in Seq(Slot) /\ s.memReq \in Seq(Request) /\ DOMAIN s.buf = 1 .. Len(s.buf)
  BY StageFacts DEF Good
<1>2. m \in 1 .. Len(s.memReq) /\ s.memReq[m] = r
  BY <1>1, PositionFacts
<1>3. Slots(s, r) # {}
  BY <1>1, <1>2 DEF Good, Expected, Slots
<1>4. k \in 1 .. Len(s.buf) /\ s.buf[k].req = r
  BY <1>1, <1>3, SlotFacts
<1>5. s.buf[k] \in Slot
  BY <1>1, <1>4, ElementOfSeq
<1>6. t = [s EXCEPT !.buf = b, !.memReq = list]
  BY <1>1
<1> HIDE DEF k, m
<1> DEFINE x == [s.buf[k] EXCEPT !.valid = TRUE]
<1>7. x \in Slot /\ x.req = r /\ x.valid = TRUE
  BY <1>4, <1>5 DEF Slot
<1> HIDE DEF x
<1>8. /\ b \in Seq(Slot) /\ Len(b) = Len(s.buf)
      /\ \A i \in 1 .. Len(s.buf) : b[i] = IF i = k THEN x ELSE s.buf[i]
  <2>1. b = [s.buf EXCEPT ![k] = x]
    BY DEF x
  <2> HIDE DEF b
  <2> QED
    BY <1>1, <1>4, <1>7, <2>1, ExceptSeq
<1>9. /\ list \in Seq(Request) /\ Len(list) = Len(s.memReq) - 1
      /\ \A p \in 1 .. Len(s.memReq) - 1 :
           list[p] = IF p < m THEN s.memReq[p] ELSE s.memReq[p + 1]
  BY <1>1, <1>2, RemoveAtFacts
<1> HIDE DEF b, list
<1>10. /\ t.buf = b /\ t.memReq = list /\ t.pc = s.pc /\ t.retry = s.retry
       /\ t.strayed = s.strayed /\ t.status = s.status /\ t \in Stage
  BY <1>1, <1>6, <1>8, <1>9 DEF Stage, Slot
<1>11. \A i \in 1 .. Len(s.buf) : b[i].req = s.buf[i].req /\ (i # k => b[i] = s.buf[i])
  BY <1>4, <1>7, <1>8
<1>12. \A y : Contains(list, y) => Contains(s.memReq, y)
  <2>1. \A p \in 1 .. Len(list) : \E q \in 1 .. Len(s.memReq) : list[p] = s.memReq[q]
    <3> SUFFICES ASSUME NEW p \in 1 .. Len(list)
                 PROVE  \E q \in 1 .. Len(s.memReq) : list[p] = s.memReq[q]
      OBVIOUS
    <3>1. p \in 1 .. Len(s.memReq) /\ p + 1 \in 1 .. Len(s.memReq)
      BY <1>1, <1>2, <1>9
    <3> QED
      BY <1>9, <3>1
  <2> QED
    BY <2>1 DEF Contains
<1>13. \A y : y # r /\ Contains(s.memReq, y) => Contains(list, y)
  <2> SUFFICES ASSUME NEW q \in 1 .. Len(s.memReq), s.memReq[q] # r
               PROVE  \E p \in 1 .. Len(list) : list[p] = s.memReq[q]
    BY DEF Contains
  <2>1. q # m
    BY <1>2
  <2>2. CASE q < m
    <3>1. q \in 1 .. Len(list) /\ list[q] = s.memReq[q]
      BY <1>1, <1>2, <1>9, <2>2
    <3> QED
      BY <3>1
  <2>3. CASE m < q
    <3>1. q - 1 \in 1 .. Len(list) /\ ~(q - 1 < m) /\ (q - 1) + 1 = q
      BY <1>1, <1>2, <1>9, <2>3
    <3>2. list[q - 1] = s.memReq[q]
      BY <1>9, <3>1
    <3> QED
      BY <3>1, <3>2
  <2> QED
    BY <1>1, <1>2, <2>1, <2>2, <2>3
<1>14. Trap(s) => Trap(t)
  <2> SUFFICES ASSUME Trap(s) PROVE Trap(t)
    OBVIOUS
  <2>1. s.buf # <<>> /\ 1 \in 1 .. Len(s.buf)
    BY HeadLineAtPc DEF Trap
  <2>2. Len(b) # 0
    BY <1>1, <1>8, <2>1
  <2> QED
    BY <1>10, <1>11, <1>12, <2>1, <2>2, EmptySeq DEF Trap
<1>15. ~Trap(t) /\ ~t.strayed => OnItsWay(t, fly \ {r})
  <2> SUFFICES ASSUME OnItsWay(s, fly), NEW i \in 1 .. Len(s.buf), Waits(t, i)
               PROVE  Contains(list, b[i].req) /\ Flies(t, b[i].req, fly \ {r})
    BY <1>8, <1>10, <1>14 DEF OnItsWay, Careful
  <2>1. i # k
    BY <1>7, <1>8, <1>10 DEF Waits
  <2>2. s.buf[i].req # r
    BY <1>4, <2>1 DEF Good, Distinct
  <2>3. Waits(s, i)
    BY <1>10, <1>11, <2>1 DEF Waits
  <2> QED
    BY <1>10, <1>11, <1>13, <2>1, <2>2, <2>3 DEF OnItsWay, Flies
<1>16. \A i \in 1 .. Len(t.buf) : t.buf[i].valid => t.buf[i].req.line \in GoodLines
  BY <1>7, <1>8, <1>10 DEF Careful
<1> QED
  BY <1>10, <1>15, <1>16 DEF Careful

\* A stage is woken only while no packet waits for a retry.
LEMMA WokenCareful ==
  ASSUME NEW s, NEW fly, Careful(s, fly), s \in Stage, s.retry = None \/ s.strayed
  PROVE  Careful(Woken(s), fly) /\ Woken(s).memReq = s.memReq /\ Woken(s).retry = s.retry
<1> DEFINE t == Woken(s)
<1>1. /\ t.pc = s.pc /\ t.buf = s.buf /\ t.memReq = s.memReq /\ t.retry = s.retry
      /\ t.strayed = s.strayed
  BY DEF Woken, Stage
<1> HIDE DEF t
<1>2. Careful(t, fly)
  BY <1>1, CarefulFrame
<1> QED
  BY <1>1, <1>2 DEF t

\* A response, wanted or late, keeps Tracked.
LEMMA ProcessCacheCompletionTracks ==
  ASSUME IInv, Tracked, NEW r \in sent, ProcessCacheCompletion(r)
  PROVE  Tracked'
<1> DEFINE fly == trans \cup sent
           s == IF f.status = "IcacheWaitResponse" /\ r.line = f.pc THEN Woken(f) ELSE f
           t == [s EXCEPT !.buf[SlotOf(s, r)].valid = TRUE,
                          !.memReq = RemoveAt(@, Position(@, r))]
<1>1. /\ f \in Stage /\ Good(f) /\ Restarted(f) /\ trans \cap sent = {} /\ Careful(f, fly)
      /\ r.line \in GoodLines
  BY DEF IInv, TypeOK, Tracked
<1>2. sent' = sent \ {r} /\ trans' = trans /\ event' = event
  BY DEF ProcessCacheCompletion
<1>3. trans' \cup sent' = fly \ {r}
  BY <1>1, <1>2
<1>4. Good(s) /\ s.memReq = f.memReq /\ s.retry = f.retry /\ Careful(s, fly)
  <2>1. f.status = "IcacheWaitResponse" => f.retry = None \/ f.strayed
    BY <1>1 DEF Careful
  <2> QED
    BY <1>1, <2>1, WokenGood, WokenCareful
<1>5. \/ f' = s /\ ~Contains(f.memReq, r)
      \/ Contains(f.memReq, r) /\ (f' = t \/ (f' = Woken(t) /\ IsHead(f, r)))
  BY DEF ProcessCacheCompletion
<1> HIDE DEF s
<1>6. CASE f' = s /\ ~Contains(f.memReq, r)
  <2>1. Careful(s, fly \ {r})
    BY <1>4, <1>6 DEF Careful, OnItsWay, Flies
  <2> QED
    BY <1>2, <1>3, <1>6, <2>1 DEF Tracked
<1>7. CASE Contains(f.memReq, r) /\ (f' = t \/ (f' = Woken(t) /\ IsHead(f, r)))
  <2>0. Contains(s.memReq, r)
    BY <1>4, <1>7
  <2>1. t = [s EXCEPT !.buf[SlotOf(s, r)].valid = TRUE, !.memReq = RemoveAt(@, Position(@, r))]
    OBVIOUS
  <2> HIDE DEF t
  <2>2. Careful(t, fly \ {r}) /\ t.retry = s.retry /\ t \in Stage
    <3>1. Good(s) /\ Careful(s, fly) /\ r.line \in GoodLines
      BY <1>1, <1>4
    <3> HIDE DEF fly
    <3> QED
      BY <2>0, <2>1, <3>1, FillCareful, Zenon
  <2>3. Careful(f', fly \ {r})
    <3>1. IsHead(f, r) => f.retry = None
      BY <1>1 DEF IsHead, Good, Retries
    <3> QED
      BY <1>4, <1>7, <2>2, <3>1, WokenCareful
  <2> QED
    BY <1>2, <1>3, <2>3 DEF Tracked
<1> QED
  BY <1>5, <1>6, <1>7

\* The packet that was kept is sent or kept again, unless a line outside
\* memory has been met.
LEMMA RecvReqRetryTracks ==
  ASSUME IInv, Tracked, NEW accepted \in BOOLEAN, RecvReqRetry(accepted)
  PROVE  Tracked'
<1> DEFINE fly == trans \cup sent
<1>1. f \in Stage /\ Careful(f, fly)
  BY DEF IInv, TypeOK, Tracked
<1>2. trans' = trans /\ event' = event
  BY DEF RecvReqRetry
<1>3. CASE f' = f /\ sent' = sent
  BY <1>2, <1>3 DEF Tracked
<1>4. ASSUME f'.pc = f.pc, f'.buf = f.buf, f'.memReq = f.memReq, f'.retry = None,
             f'.strayed = f.strayed,
             \/ (f.retry = None /\ sent' = sent) \/ (f.strayed /\ sent' = sent)
             \/ f.retry # None /\ sent' = sent \cup {f.retry}
      PROVE  Tracked'
  <2>1. Trap(f') <=> Trap(f)
    BY <1>4 DEF Trap
  <2>2. ~Trap(f') /\ ~f'.strayed => OnItsWay(f', trans' \cup sent')
    BY <1>1, <1>2, <1>4, <2>1 DEF Careful, OnItsWay, Waits, Flies
  <2>3. Careful(f', trans' \cup sent')
    BY <1>1, <1>4, <2>2 DEF Careful
  <2>4. \A r \in sent' : r.line \in GoodLines
    BY <1>1, <1>4 DEF Careful, Tracked
  <2> QED
    BY <1>2, <2>3, <2>4 DEF Tracked
<1>5. CASE f.retry # None /\ f.status = "IcacheWaitRetry"
  <2>1. CASE ~accepted
    <3>1. f' = f /\ sent' = sent
      BY <1>5, <2>1 DEF RecvReqRetry
    <3> QED
      BY <1>3, <3>1
  <2>2. CASE accepted
    <3>1. /\ sent' = sent \cup {f.retry}
          /\ \E x : f' = [f EXCEPT !.status = x, !.retry = None, !.blocked = FALSE]
      BY <1>5, <2>2 DEF RecvReqRetry
    <3>2. /\ f'.pc = f.pc /\ f'.buf = f.buf /\ f'.memReq = f.memReq /\ f'.retry = None
          /\ f'.strayed = f.strayed
      BY <1>1, <3>1 DEF Stage
    <3> QED
      BY <1>4, <1>5, <3>1, <3>2
  <2> QED
    BY <2>1, <2>2
<1>6. CASE ~(f.retry # None /\ f.status = "IcacheWaitRetry")
  <2>1. f' = [f EXCEPT !.retry = None, !.blocked = FALSE] /\ sent' = sent
    BY <1>6 DEF RecvReqRetry
  <2>2. /\ f'.pc = f.pc /\ f'.buf = f.buf /\ f'.memReq = f.memReq /\ f'.retry = None
        /\ f'.strayed = f.strayed
    BY <1>1, <2>1 DEF Stage
  <2>3. f.retry = None \/ f.strayed
    BY <1>1, <1>6 DEF Careful
  <2>4. (f.retry = None /\ sent' = sent) \/ (f.strayed /\ sent' = sent)
    BY <2>1, <2>3
  <2> QED
    BY <1>4, <2>2, <2>4
<1> QED
  BY <1>5, <1>6

\* Draining and resuming keep Tracked.
LEMMA DrainTracks ==
  ASSUME IInv, Tracked, DrainStall \/ DrainResume
  PROVE  Tracked'
<1>1. PICK x \in BOOLEAN : f' = [f EXCEPT !.drain = x]
  BY DEF DrainStall, DrainResume
<1>2. trans' = trans /\ sent' = sent /\ event' = event
  BY DEF DrainStall, DrainResume
<1>3. /\ f'.pc = f.pc /\ f'.buf = f.buf /\ f'.memReq = f.memReq /\ f'.retry = f.retry
      /\ f'.strayed = f.strayed /\ f'.status = f.status
  BY <1>1 DEF IInv, TypeOK, Stage
<1>4. Careful(f', trans \cup sent)
  BY <1>3, CarefulFrame DEF Tracked, Careful
<1> QED
  BY <1>2, <1>4 DEF Tracked

----------------------------------------------------------------------------
(* The result.                                                             *)

\* Tracked holds at first.
LEMMA InitTracks == Init => Tracked
<1> SUFFICES ASSUME Init PROVE Tracked
  OBVIOUS
<1>1. f.buf = <<>> /\ f.retry = None /\ sent = {} /\ event = None
  BY DEF Init
<1> QED
  BY <1>1, EmptyCareful DEF Tracked

\* Tracked is inductive, given the invariant of FetchBuffersProofs.
LEMMA NextTracks == IInv /\ Tracked /\ [Next]_vars => Tracked'
<1> SUFFICES ASSUME IInv, Tracked, [Next]_vars PROVE Tracked'
  OBVIOUS
<1>1. ASSUME NEW signal \in Signals, NEW interrupt \in BOOLEAN, Tick(signal, interrupt)
      PROVE  Tracked'
  BY <1>1, TickTracks
<1>2. ASSUME NEW r \in trans, NEW accepted \in BOOLEAN, NEW full \in BOOLEAN,
             FinishTranslation(r, accepted, full)
      PROVE  Tracked'
  BY <1>2, FinishTranslationTracks
<1>3. ASSUME NEW full \in BOOLEAN, FinishTranslationEvent(full)
      PROVE  Tracked'
  BY <1>3, FinishTranslationEventTracks
<1>4. ASSUME NEW r \in sent, ProcessCacheCompletion(r)
      PROVE  Tracked'
  BY <1>4, ProcessCacheCompletionTracks
<1>5. ASSUME NEW accepted \in BOOLEAN, RecvReqRetry(accepted)
      PROVE  Tracked'
  BY <1>5, RecvReqRetryTracks
<1>6. CASE DrainStall \/ DrainResume
  BY <1>6, DrainTracks
<1>7. CASE UNCHANGED vars
  BY <1>7 DEF vars, Tracked
<1> QED
  BY <1>1, <1>2, <1>3, <1>4, <1>5, <1>6, <1>7 DEF Next

\* Whatever is squashed, refused, sent again, faults or answers late: unless
\* fetch waits for commit, a line that translates and has not arrived has its
\* request in the TLB, in the cache or kept for the retry, and its arrival will
\* find it listed.  This is the safety half of "fetch never hangs".
THEOREM FetchForgetsNoLine == Spec => []NoLineForgotten
<1>1. IInv /\ Tracked => NoLineForgotten
  <2> SUFFICES ASSUME IInv, Tracked PROVE NoLineForgotten
    OBVIOUS
  <2>1. DOMAIN f.buf = 1 .. Len(f.buf)
    BY StageFacts DEF IInv, TypeOK
  <2>2. TrapTaken <=> Trap(f)
    BY DEF TrapTaken, Trap
  <2> QED
    BY <2>1, <2>2 DEF Tracked, Careful, OnItsWay, Waits, Flies, NoLineForgotten
<1> QED
  BY <1>1, InitGood, InitTracks, NextKeeps, NextTracks, PTL DEF Spec

\* An answer of the TLB that drops requests finds its own in the list: the
\* assertion "This element should exist in the memReq[tid] list" of
\* finishTranslation holds whenever no trap and no line outside memory keeps
\* fetch waiting for commit.
THEOREM FetchCutsListed == Spec => []CutIsListed
<1>1. IInv /\ Tracked => CutIsListed
  <2> SUFFICES ASSUME IInv, Tracked, ~TrapTaken, ~f.strayed,
                      NEW r \in trans \cup (IF event = None THEN {} ELSE {event.req}), Cuts(r)
               PROVE  Contains(f.memReq, r)
    BY DEF CutIsListed, Listed
  <2>1. DOMAIN f.buf = 1 .. Len(f.buf)
    BY StageFacts DEF IInv, TypeOK
  <2>2. ~Trap(f) /\ OnItsWay(f, trans \cup sent)
    BY DEF TrapTaken, Trap, Tracked, Careful
  <2>3. PICK i \in 1 .. Len(f.buf) : f.buf[i].req = r
    BY <2>1 DEF Cuts, Wanted, Slots
  <2>4. CASE r \in trans
    BY <2>2, <2>3, <2>4 DEF OnItsWay, Waits, IInv, Good, Answered
  <2>5. CASE event # None /\ r = event.req
    <3>1. r.line \notin GoodLines
      BY <2>5, GoodLineFacts DEF Tracked
    <3> QED
      BY <2>2, <2>3, <3>1 DEF OnItsWay, Waits, Tracked, Careful
  <2> QED
    BY <2>4, <2>5
<1> QED
  BY <1>1, InitGood, InitTracks, NextKeeps, NextTracks, PTL DEF Spec

=============================================================================
