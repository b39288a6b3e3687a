------------------------- MODULE FetchBuffersProofs -------------------------
(***************************************************************************)
(* Machine-checked proofs about FetchBuffers, for any lines and faults and *)
(* any length of the queue.                                                *)
(***************************************************************************)
EXTENDS FetchBuffers, SequenceTheorems, TLAPS

Slot == [req : Request, valid : BOOLEAN]

----------------------------------------------------------------------------
(* The inductive invariant, on a state of the stage, so that it can be     *)
(* followed through the parts of a tick.                                   *)

\* The buffers hold the first lines of the queue.
Follows(s) ==
  Len(s.buf) <= Len(s.ftq) /\ \A i \in 1 .. Len(s.buf) : s.buf[i].req.line = s.ftq[i]

AtPc(s) == s.ftq # <<>> => s.ftq[1] = s.pc

\* No two buffers wait for the same request.
Distinct(s) ==
  \A i, j \in 1 .. Len(s.buf) : s.buf[i].req = s.buf[j].req => i = j

\* A listed request has a buffer that is not filled.
Expected(s) ==
  \A p \in 1 .. Len(s.memReq) :
    \E i \in 1 .. Len(s.buf) : s.buf[i].req = s.memReq[p] /\ ~s.buf[i].valid

\* Requests are listed in the order of their buffers.
InOrder(s) ==
  \A p, q \in 1 .. Len(s.memReq), i, j \in 1 .. Len(s.buf) :
    p < q /\ s.buf[i].req = s.memReq[p] /\ s.buf[j].req = s.memReq[q] => i < j

\* The packet to be sent again belongs to the head and to nobody else.
Retries(s) ==
  s.retry # None =>
    /\ s.blocked
    /\ s.buf # <<>> /\ s.buf[1].req = s.retry
    /\ s.retry \notin trans \cup sent

\* A filled buffer waits for nothing.
Answered(s) ==
  \A i \in 1 .. Len(s.buf) : s.buf[i].valid =>
    s.buf[i].req \notin trans \cup sent /\ (s.retry # None => s.buf[i].req # s.retry)

Good(s) ==
  /\ s \in Stage
  /\ Follows(s) /\ AtPc(s)
  /\ Distinct(s) /\ Expected(s) /\ InOrder(s)
  /\ Retries(s) /\ Answered(s)

\* An empty queue is one that a squash has left.
Restarted(s) == s.ftq = <<>> => s.fresh

IInv ==
  /\ TypeOK
  /\ Good(f) /\ Restarted(f)
  /\ trans \cap sent = {}

----------------------------------------------------------------------------
(* Sequences.                                                              *)

\* What erasing a list from position n on leaves.
LEMMA PrefixFacts ==
  ASSUME NEW S, NEW list \in Seq(S), NEW n \in 0 .. Len(list)
  PROVE  /\ SubSeq(list, 1, n) \in Seq(S)
         /\ Len(SubSeq(list, 1, n)) = n
         /\ \A i \in 1 .. n : SubSeq(list, 1, n)[i] = list[i]
<1>1. n \in Int /\ n <= Len(list) /\ Len(list) \in Nat
  BY LenProperties
<1>2. \A i \in 1 .. n : list[i] \in S
  BY <1>1, ElementOfSeq
<1> QED
  BY <1>1, <1>2, SubSeqProperties

\* std::find returns a position of the element in a list that holds it.
LEMMA PositionFacts ==
  ASSUME NEW S, NEW list \in Seq(S), NEW x, Contains(list, x)
  PROVE  Position(list, x) \in 1 .. Len(list) /\ list[Position(list, x)] = x
BY LenProperties DEF Position, Contains

\* What erasing position n leaves.
LEMMA RemoveAtFacts ==
  ASSUME NEW S, NEW list \in Seq(S), NEW n \in 1 .. Len(list)
  PROVE  /\ RemoveAt(list, n) \in Seq(S)
         /\ Len(RemoveAt(list, n)) = Len(list) - 1
         /\ \A i \in 1 .. Len(list) - 1 :
              RemoveAt(list, n)[i] = IF i < n THEN list[i] ELSE list[i + 1]
<1> DEFINE u == SubSeq(list, 1, n - 1)
           w == SubSeq(list, n + 1, Len(list))
<1>1. n \in Nat /\ 1 <= n /\ n <= Len(list) /\ Len(list) \in Nat
  BY LenProperties
<1>2. u \in Seq(S) /\ Len(u) = n - 1 /\ \A i \in 1 .. n - 1 : u[i] = list[i]
  BY <1>1, PrefixFacts
<1>3. \A i \in n + 1 .. Len(list) : list[i] \in S
  BY <1>1, ElementOfSeq
<1>4. /\ w \in Seq(S)
      /\ Len(w) = Len(list) - n
      /\ \A i \in 1 .. Len(list) - n : w[i] = list[n + i]
  BY <1>1, <1>3, SubSeqProperties
<1> HIDE DEF u, w
<1>5. /\ u \o w \in Seq(S)
      /\ Len(u \o w) = Len(u) + Len(w)
      /\ \A i \in 1 .. Len(u) + Len(w) :
           (u \o w)[i] = IF i <= Len(u) THEN u[i] ELSE w[i - Len(u)]
  BY <1>2, <1>4, ConcatProperties
<1>6. \A i \in 1 .. Len(list) - 1 : (u \o w)[i] = IF i < n THEN list[i] ELSE list[i + 1]
  <2> SUFFICES ASSUME NEW i \in 1 .. Len(list) - 1
               PROVE  (u \o w)[i] = IF i < n THEN list[i] ELSE list[i + 1]
    OBVIOUS
  <2>1. CASE i < n
    BY <1>1, <1>2, <1>4, <1>5, <2>1
  <2>2. CASE ~(i < n)
    <3>1. i - Len(u) \in 1 .. Len(list) - n /\ ~(i <= Len(u)) /\ n + (i - Len(u)) = i + 1
      BY <1>1, <1>2, <2>2
    <3>2. (u \o w)[i] = w[i - Len(u)]
      BY <1>1, <1>2, <1>4, <1>5, <3>1
    <3> QED
      BY <1>4, <2>2, <3>1, <3>2
  <2> QED
    BY <2>1, <2>2
<1>7. RemoveAt(list, n) = u \o w
  BY DEF RemoveAt, u, w
<1>8. Len(u \o w) = Len(list) - 1
  BY <1>1, <1>2, <1>4, <1>5
<1> HIDE DEF RemoveAt
<1> QED
  BY <1>5, <1>6, <1>7, <1>8

----------------------------------------------------------------------------
(* Parts of the stage.                                                     *)

\* The types of the fields, and what they say of the lists.
LEMMA StageFacts ==
  ASSUME NEW s \in Stage
  PROVE  /\ s.pc \in Lines /\ s.fresh \in BOOLEAN /\ s.blocked \in BOOLEAN
         /\ s.ftq \in Seq(Lines) /\ Len(s.ftq) \in Nat /\ DOMAIN s.ftq = 1 .. Len(s.ftq)
         /\ s.buf \in Seq(Slot) /\ Len(s.buf) \in Nat /\ DOMAIN s.buf = 1 .. Len(s.buf)
         /\ s.memReq \in Seq(Request) /\ Len(s.memReq) \in Nat
         /\ DOMAIN s.memReq = 1 .. Len(s.memReq)
<1>1. /\ s.pc \in Lines /\ s.fresh \in BOOLEAN /\ s.blocked \in BOOLEAN
      /\ s.ftq \in Seq(Lines) /\ s.buf \in Seq(Slot) /\ s.memReq \in Seq(Request)
  BY DEF Stage, Slot
<1> QED
  BY <1>1, LenProperties

\* What does not touch the queue, the lists and the retry keeps the invariant.
LEMMA Frame ==
  ASSUME NEW s, NEW t, Good(s), t \in Stage,
         t.pc = s.pc, t.ftq = s.ftq, t.buf = s.buf, t.memReq = s.memReq,
         t.retry = s.retry, t.blocked = s.blocked
  PROVE  Good(t)
BY DEF Good, Follows, AtPc, Distinct, Expected, InOrder, Retries, Answered

\* A stage with nothing in it.
LEMMA EmptyGood ==
  ASSUME NEW s \in Stage, s.ftq = <<>>, s.buf = <<>>, s.memReq = <<>>, s.retry = None
  PROVE  Good(s)
<1>1. Len(s.ftq) = 0 /\ Len(s.buf) = 0 /\ Len(s.memReq) = 0
  BY EmptySeq
<1> QED
  BY <1>1 DEF Good, Follows, AtPc, Distinct, Expected, InOrder, Retries, Answered

\* The slot found for a request that has one.
LEMMA SlotFacts ==
  ASSUME NEW s \in Stage, NEW r, Slots(s, r) # {}
  PROVE  SlotOf(s, r) \in 1 .. Len(s.buf) /\ s.buf[SlotOf(s, r)].req = r
BY StageFacts DEF Slots, SlotOf

----------------------------------------------------------------------------
(* A tick.                                                                 *)

\* A squash empties the stage.
LEMMA DoSquashGood ==
  ASSUME NEW s \in Stage, NEW target \in Lines
  PROVE  Good(DoSquash(s, target)) /\ Restarted(DoSquash(s, target))
<1> DEFINE t == DoSquash(s, target)
<1>1. /\ t \in Stage /\ t.ftq = <<>> /\ t.buf = <<>> /\ t.memReq = <<>>
      /\ t.retry = None /\ t.fresh = TRUE
  BY EmptySeq DEF DoSquash, Flushed, Stage, Statuses
<1> QED
  BY <1>1, EmptyGood DEF Restarted

\* Squashes keep the stage good.
LEMMA CheckSignalsGood ==
  ASSUME NEW s, Good(s), Restarted(s),
         NEW commit \in Lines \cup {None}, NEW decode \in Lines \cup {None}
  PROVE  /\ Good(CheckSignalsAndUpdate(s, commit, decode))
         /\ Restarted(CheckSignalsAndUpdate(s, commit, decode))
<1> DEFINE t == CheckSignalsAndUpdate(s, commit, decode)
<1>0. s \in Stage
  BY DEF Good
<1>1. CASE commit # None
  <2>1. t = DoSquash(s, commit)
    BY <1>1 DEF CheckSignalsAndUpdate
  <2> QED
    BY <1>0, <1>1, <2>1, DoSquashGood
<1>2. CASE t = DoSquash(s, decode) /\ decode # None
  BY <1>0, <1>2, DoSquashGood
<1>3. CASE \E x \in Statuses : t = [s EXCEPT !.status = x]
  <2>1. PICK x \in Statuses : t = [s EXCEPT !.status = x]
    BY <1>3
  <2>2. /\ t \in Stage /\ t.pc = s.pc /\ t.ftq = s.ftq /\ t.buf = s.buf
        /\ t.memReq = s.memReq /\ t.retry = s.retry /\ t.blocked = s.blocked
        /\ t.fresh = s.fresh
    BY <1>0, <2>1 DEF Stage
  <2> HIDE DEF t
  <2>3. Good(t) /\ Restarted(t)
    BY <2>2, Frame DEF Restarted
  <2> QED
    BY <2>3 DEF t
<1>4. CASE commit = None
  <2>1. s.status \in Statuses
    BY <1>0 DEF Stage
  <2>2. \/ t = DoSquash(s, decode) /\ decode # None
        \/ \E x \in Statuses : t = [s EXCEPT !.status = x]
    BY <1>4, <2>1 DEF CheckSignalsAndUpdate, Statuses
  <2> QED
    BY <1>2, <1>3, <2>2
<1> QED
  BY <1>1, <1>4

\* New lines go behind the old ones; into an empty queue, the line of the
\* program counter goes first, for then prefPC is there.
LEMMA AddToFTQGood ==
  ASSUME NEW s, Good(s), Restarted(s), NEW g \in Growths(s)
  PROVE  /\ Good(AddToFTQ(s, g[1], g[2]))
         /\ Restarted(AddToFTQ(s, g[1], g[2]))
<1> DEFINE new == g[1]
           q == s.ftq \o new
           t == AddToFTQ(s, new, g[2])
<1>0. s \in Stage
  BY DEF Good
<1>1. /\ new \in Seq(Lines) /\ g[2] \in BOOLEAN
      /\ s.fresh /\ q # <<>> /\ new # <<>> => q[1] = s.pc
  <2>1. CASE g \in {<<<<>>, s.prefetching>>}
    <3>1. new = <<>> /\ g[2] = s.prefetching
      BY <2>1
    <3>2. new \in Seq(Lines)
      BY <3>1, EmptySeq
    <3>3. g[2] \in BOOLEAN
      BY <1>0, <3>1 DEF Stage
    <3> QED
      BY <3>1, <3>2, <3>3
  <2>2. CASE g \notin {<<<<>>, s.prefetching>>}
    <3>1. g[1] \in NewLines /\ g[2] \in BOOLEAN /\ (s.fresh /\ q # <<>> => q[1] = s.pc)
      BY <2>2 DEF Growths
    <3>2. NewLines \subseteq Seq(Lines)
      <4> SUFFICES ASSUME NEW m \in 0 .. 2, NEW x \in [1 .. m -> Lines]
                   PROVE  x \in Seq(Lines)
        BY DEF NewLines, BoundedSeq, SeqOf
      <4> QED
        BY SeqDef
    <3> QED
      BY <3>1, <3>2
  <2> QED
    BY <2>1, <2>2
<1> HIDE DEF new
<1>2. /\ q \in Seq(Lines) /\ Len(q) = Len(s.ftq) + Len(new)
      /\ \A i \in 1 .. Len(s.ftq) : q[i] = s.ftq[i]
      /\ Len(new) \in Nat
  BY <1>0, <1>1, StageFacts, ConcatProperties, LenProperties
<1>3. new = <<>> => q = s.ftq
  BY <1>0, StageFacts, ConcatEmptySeq
<1> HIDE DEF q
<1>4. /\ t \in Stage /\ t.ftq = q /\ t.pc = s.pc /\ t.buf = s.buf /\ t.memReq = s.memReq
      /\ t.retry = s.retry /\ t.blocked = s.blocked
      /\ t.fresh = (s.fresh /\ new = <<>>)
  BY <1>0, <1>1, <1>2 DEF AddToFTQ, Stage, q
<1> HIDE DEF t
<1>5. s.ftq # <<>> => Len(s.ftq) \in Nat \ {0}
  BY <1>0, StageFacts, EmptySeq
<1>6. Follows(t)
  <2>1. Len(s.buf) \in Nat /\ Len(s.ftq) \in Nat
    BY <1>0, StageFacts
  <2>2. Len(t.buf) <= Len(t.ftq)
    BY <1>2, <1>4, <2>1 DEF Good, Follows
  <2>3. ASSUME NEW i \in 1 .. Len(s.buf)
        PROVE  s.buf[i].req.line = q[i]
    BY <1>2, <2>1 DEF Good, Follows
  <2> QED
    BY <1>4, <2>2, <2>3 DEF Follows
<1>7. AtPc(t)
  <2>1. CASE new = <<>>
    BY <1>3, <1>4, <2>1 DEF Good, AtPc
  <2>2. CASE s.ftq # <<>>
    BY <1>2, <1>4, <1>5, <2>2 DEF Good, AtPc
  <2>3. CASE new # <<>> /\ s.ftq = <<>>
    BY <1>1, <1>4, <2>3 DEF AtPc, Restarted
  <2> QED
    BY <2>1, <2>2, <2>3
<1>8. Restarted(t)
  <2>1. CASE new = <<>>
    BY <1>3, <1>4, <2>1 DEF Restarted
  <2>2. CASE new # <<>>
    <3>1. Len(new) # 0
      BY <1>1, <2>2, EmptySeq
    <3>2. Len(q) # 0
      BY <1>0, <1>2, <3>1, StageFacts
    <3> QED
      BY <1>4, <3>2, EmptySeq DEF Restarted
  <2> QED
    BY <2>1, <2>2
<1>9. Good(t)
  BY <1>4, <1>6, <1>7 DEF Good, Distinct, Expected, InOrder, Retries, Answered
<1> QED
  BY <1>8, <1>9 DEF t, new

\* A head that has arrived is not to be sent again.
LEMMA ValidHeadFacts ==
  ASSUME NEW s, Good(s), HeadValid(s)
  PROVE  /\ s \in Stage /\ s.buf # <<>> /\ s.buf[1].valid /\ s.ftq # <<>>
         /\ Len(s.buf) \in Nat \ {0} /\ Len(s.ftq) \in Nat \ {0}
         /\ s.buf[1].req.line = s.ftq[1]
         /\ s.retry = None
<1>1. s \in Stage /\ s.buf # <<>> /\ s.buf[1].valid
  BY DEF Good, HeadValid
<1>2. Len(s.buf) \in Nat \ {0} /\ Len(s.ftq) \in Nat
  BY <1>1, StageFacts, EmptySeq
<1>3. 1 \in 1 .. Len(s.buf)
  BY <1>2
<1>4. Len(s.ftq) # 0 /\ s.buf[1].req.line = s.ftq[1]
  BY <1>2, <1>3 DEF Good, Follows
<1>5. s.ftq # <<>>
  BY <1>4, EmptySeq
<1>6. s.retry = None
  BY <1>1, <1>3 DEF Good, Retries, Answered
<1> QED
  BY <1>1, <1>2, <1>4, <1>5, <1>6

\* Everything but a head that has arrived is dropped.
LEMMA LookupAndUpdateGood ==
  ASSUME NEW s, Good(s), HeadValid(s)
  PROVE  /\ Good(LookupAndUpdateNextPC(s)) /\ HeadValid(LookupAndUpdateNextPC(s))
         /\ LookupAndUpdateNextPC(s).status = s.status
<1> DEFINE t == LookupAndUpdateNextPC(s)
<1>1. /\ s \in Stage /\ s.buf[1].valid /\ Len(s.buf) \in Nat \ {0} /\ Len(s.ftq) \in Nat \ {0}
      /\ s.buf[1].req.line = s.ftq[1] /\ s.retry = None /\ s.ftq # <<>>
  BY ValidHeadFacts
<1>2. s.buf[1] \in Slot /\ s.ftq[1] \in Lines
  BY <1>1, StageFacts, ElementOfSeq
<1>3. <<s.buf[1]>> \in Seq(Slot) /\ <<s.ftq[1]>> \in Seq(Lines)
  BY <1>2
<1>4. /\ t \in Stage /\ t.ftq = <<s.ftq[1]>> /\ t.buf = <<s.buf[1]>> /\ t.memReq = <<>>
      /\ t.pc = s.pc /\ t.retry = None /\ t.status = s.status
  BY <1>1, <1>3, EmptySeq DEF LookupAndUpdateNextPC, Stage, Slot
<1> HIDE DEF t
<1>5. /\ Len(t.ftq) = 1 /\ Len(t.buf) = 1 /\ Len(t.memReq) = 0 /\ t.ftq[1] = s.ftq[1]
      /\ t.buf[1] = s.buf[1] /\ t.buf # <<>>
  BY <1>4, EmptySeq
<1>6. Follows(t) /\ AtPc(t) /\ Distinct(t) /\ Expected(t) /\ InOrder(t) /\ Retries(t)
  BY <1>1, <1>4, <1>5 DEF Good, Follows, AtPc, Distinct, Expected, InOrder, Retries
<1>7. Answered(t)
  BY <1>1, <1>4, <1>5 DEF Good, Answered
<1>8. Good(t) /\ HeadValid(t) /\ t.status = s.status
  BY <1>1, <1>4, <1>5, <1>6, <1>7 DEF Good, HeadValid
<1> QED
  BY <1>8 DEF t

\* The program counter leaves the head.
LEMMA PopHeadGood ==
  ASSUME NEW s, Good(s), HeadValid(s), NEW next \in Lines
  PROVE  Good(PopHead(s, next)) /\ PopHead(s, next).status = s.status
<1> DEFINE u == [s EXCEPT !.pc = next, !.ftq = Tail(@), !.buf = Tail(@), !.fresh = FALSE]
<1>1. /\ s \in Stage /\ s.buf # <<>> /\ s.buf[1].valid /\ s.ftq # <<>>
      /\ Len(s.buf) \in Nat \ {0} /\ Len(s.ftq) \in Nat \ {0} /\ s.retry = None
      /\ s.buf \in Seq(Slot) /\ s.ftq \in Seq(Lines)
      /\ Len(s.memReq) \in Nat
  BY ValidHeadFacts, StageFacts
<1>2. /\ Tail(s.buf) \in Seq(Slot) /\ Len(Tail(s.buf)) = Len(s.buf) - 1
      /\ \A i \in 1 .. Len(s.buf) - 1 : Tail(s.buf)[i] = s.buf[i + 1]
  BY <1>1, HeadTailProperties
<1>3. /\ Tail(s.ftq) \in Seq(Lines) /\ Len(Tail(s.ftq)) = Len(s.ftq) - 1
      /\ \A i \in 1 .. Len(s.ftq) - 1 : Tail(s.ftq)[i] = s.ftq[i + 1]
  BY <1>1, HeadTailProperties
<1>4. /\ u \in Stage /\ u.ftq = Tail(s.ftq) /\ u.buf = Tail(s.buf) /\ u.memReq = s.memReq
      /\ u.pc = next /\ u.retry = None /\ u.status = s.status
  BY <1>1, <1>2, <1>3 DEF Stage, Slot
<1> HIDE DEF u
<1>5. PopHead(s, next) = IF u.ftq # <<>> /\ u.ftq[1] # next THEN Flushed(u) ELSE u
  BY DEF PopHead, u
<1>6. Good(Flushed(u)) /\ Flushed(u).status = s.status
  <2>1. /\ Flushed(u) \in Stage /\ Flushed(u).ftq = <<>> /\ Flushed(u).buf = <<>>
        /\ Flushed(u).memReq = <<>> /\ Flushed(u).retry = None /\ Flushed(u).status = s.status
    BY <1>4, EmptySeq DEF Flushed, Stage
  <2> QED
    BY <2>1, EmptyGood
<1>7. ASSUME ~(u.ftq # <<>> /\ u.ftq[1] # next)
      PROVE  Good(u)
  <2>1. Follows(u)
    <3>1. Len(u.buf) <= Len(u.ftq)
      BY <1>1, <1>2, <1>3, <1>4 DEF Good, Follows
    <3>2. ASSUME NEW i \in 1 .. Len(u.buf)
          PROVE  u.buf[i].req.line = u.ftq[i]
      <4>1. i + 1 \in 1 .. Len(s.buf) /\ i \in 1 .. Len(s.buf) - 1 /\ i \in 1 .. Len(s.ftq) - 1
        BY <1>1, <1>2, <1>4 DEF Good, Follows
      <4>2. s.buf[i + 1].req.line = s.ftq[i + 1]
        BY <4>1 DEF Good, Follows
      <4> QED
        BY <1>2, <1>3, <1>4, <4>1, <4>2
    <3> QED
      BY <3>1, <3>2 DEF Follows
  <2>2. AtPc(u)
    BY <1>4, <1>7 DEF AtPc
  <2>3. \A i \in 1 .. Len(u.buf) : u.buf[i] = s.buf[i + 1] /\ i + 1 \in 1 .. Len(s.buf)
    BY <1>1, <1>2, <1>4
  <2>4. Distinct(u)
    <3> SUFFICES ASSUME NEW i \in 1 .. Len(u.buf), NEW j \in 1 .. Len(u.buf),
                        u.buf[i].req = u.buf[j].req
                 PROVE  i = j
      BY DEF Distinct
    <3>1. i + 1 = j + 1
      BY <2>3 DEF Good, Distinct
    <3> QED
      BY <3>1
  <2>5. Expected(u)
    <3> SUFFICES ASSUME NEW p \in 1 .. Len(s.memReq)
                 PROVE  \E i \in 1 .. Len(u.buf) : u.buf[i].req = s.memReq[p] /\ ~u.buf[i].valid
      BY <1>4 DEF Expected
    <3>1. PICK k \in 1 .. Len(s.buf) : s.buf[k].req = s.memReq[p] /\ ~s.buf[k].valid
      BY DEF Good, Expected
    <3>2. k - 1 \in 1 .. Len(u.buf) /\ (k - 1) + 1 = k
      BY <1>1, <1>2, <1>4, <3>1
    <3> QED
      BY <2>3, <3>1, <3>2
  <2>6. InOrder(u)
    <3> SUFFICES ASSUME NEW p \in 1 .. Len(s.memReq), NEW q \in 1 .. Len(s.memReq),
                        NEW i \in 1 .. Len(u.buf), NEW j \in 1 .. Len(u.buf),
                        p < q, u.buf[i].req = s.memReq[p], u.buf[j].req = s.memReq[q]
                 PROVE  i < j
      BY <1>4 DEF InOrder
    <3>1. i + 1 < j + 1
      BY <2>3 DEF Good, InOrder
    <3> QED
      BY <3>1
  <2>7. Retries(u) /\ Answered(u)
    BY <1>4, <2>3 DEF Good, Retries, Answered
  <2> QED
    BY <1>4, <2>1, <2>2, <2>4, <2>5, <2>6, <2>7 DEF Good
<1> QED
  BY <1>4, <1>5, <1>6, <1>7

\* Fetching leaves a running stage that keeps the invariant.
LEMMA FetchGood ==
  ASSUME NEW s, Good(s), Restarted(s), NEW interrupt \in BOOLEAN,
         NEW t \in Fetches(s, interrupt)
  PROVE  Good(t) /\ (Restarted(t) \/ Issues(t))
<1> DEFINE run == [s EXCEPT !.status = "Running"]
<1>0. s \in Stage
  BY DEF Good
<1>1. /\ run \in Stage /\ run.pc = s.pc /\ run.ftq = s.ftq /\ run.buf = s.buf
      /\ run.memReq = s.memReq /\ run.retry = s.retry /\ run.blocked = s.blocked
      /\ run.status = "Running"
  BY <1>0 DEF Stage, Statuses
<1> HIDE DEF run
<1>2. Good(run) /\ (HeadValid(s) => HeadValid(run))
  BY <1>1, Frame DEF HeadValid
<1>3. ASSUME NEW x, x.status = "Running"
      PROVE  Issues(x)
  BY <1>3 DEF Issues
<1>4. CASE CanFetch(s, interrupt)
  <2>1. PICK next \in Lines, mis \in BOOLEAN : t = Fetch(s, next, mis)
    BY <1>4 DEF Fetches
  <2> DEFINE new == IF mis THEN LookupAndUpdateNextPC(run) ELSE run
  <2>2. HeadValid(run)
    BY <1>2, <1>4 DEF CanFetch, HeadReady
  <2>3. Good(new) /\ HeadValid(new) /\ new.status = "Running"
    BY <1>1, <1>2, <2>2, LookupAndUpdateGood
  <2>4. t = IF next = s.pc THEN new ELSE PopHead(new, next)
    BY <2>1 DEF Fetch, run
  <2> HIDE DEF new
  <2>5. Good(t) /\ t.status = "Running"
    BY <2>3, <2>4, PopHeadGood
  <2> QED
    BY <1>3, <2>5
<1>5. CASE ~CanFetch(s, interrupt) /\ s.status = "IcacheAccessComplete"
  <2>1. t = run
    BY <1>5 DEF Fetches, run
  <2> QED
    BY <1>1, <1>2, <1>3, <2>1
<1>6. CASE ~CanFetch(s, interrupt) /\ s.status # "IcacheAccessComplete"
  <2>1. t = s
    BY <1>6 DEF Fetches
  <2> QED
    BY <2>1
<1> QED
  BY <1>4, <1>5, <1>6

\* An empty queue is refilled, unless the stage does not issue requests.
LEMMA RefilledGood ==
  ASSUME NEW s, Good(s), Restarted(s) \/ Issues(s)
  PROVE  Good(Refilled(s)) /\ Restarted(Refilled(s))
<1> DEFINE t == Refilled(s)
<1>0. s \in Stage
  BY DEF Good
<1>1. CASE ~(Issues(s) /\ s.ftq = <<>>)
  BY <1>1 DEF Refilled, Restarted
<1>2. CASE Issues(s) /\ s.ftq = <<>>
  <2>1. <<s.pc>> \in Seq(Lines) /\ Len(<<s.pc>>) = 1 /\ <<s.pc>>[1] = s.pc /\ <<s.pc>> # <<>>
    BY <1>0, StageFacts
  <2>2. /\ t \in Stage /\ t.ftq = <<s.pc>> /\ t.pc = s.pc /\ t.buf = s.buf
        /\ t.memReq = s.memReq /\ t.retry = s.retry /\ t.blocked = s.blocked
    BY <1>0, <1>2, <2>1 DEF Refilled, Stage
  <2> HIDE DEF t
  <2>3. Len(s.buf) = 0
    <3>1. Len(s.ftq) = 0 /\ Len(s.buf) \in Nat
      BY <1>0, <1>2, StageFacts, EmptySeq
    <3> QED
      BY <3>1 DEF Good, Follows
  <2>4. Follows(t) /\ AtPc(t) /\ Restarted(t)
    BY <2>1, <2>2, <2>3 DEF Follows, AtPc, Restarted
  <2>5. Good(t)
    BY <2>2, <2>4 DEF Good, Distinct, Expected, InOrder, Retries, Answered
  <2> QED
    BY <2>4, <2>5 DEF t
<1> QED
  BY <1>1, <1>2

\* A new request is one that nobody holds.
LEMMA FreshRequest ==
  ASSUME NEW s, NEW r, r.id \in FreeIds(s)
  PROVE  /\ \A i \in DOMAIN s.buf : s.buf[i].req # r
         /\ r \notin trans \cup sent
         /\ s.retry # None => s.retry # r
<1>1. r \notin Live(s)
  BY DEF FreeIds
<1> QED
  BY <1>1 DEF Live

\* The request that a tick ends with.
LEMMA IssueGood ==
  ASSUME NEW s, Good(s), Restarted(s), NEW interrupt \in BOOLEAN,
         IInv, Issue(s, interrupt), sent' = sent
  PROVE  /\ f' \in Stage /\ trans' \subseteq Request
         /\ Good(f)' /\ Restarted(f)' /\ trans' \cap sent' = {}
<1>0. s \in Stage /\ trans \subseteq Request /\ trans \cap sent = {}
  BY DEF Good, IInv, TypeOK
<1>1. CASE ~CanIssue(s, interrupt)
  <2>1. f' = s /\ trans' = trans
    BY <1>1 DEF Issue
  <2>2. Good(f)' /\ Restarted(f)'
    BY <2>1 DEF Good, Follows, AtPc, Distinct, Expected, InOrder, Retries, Answered, Restarted
  <2> QED
    BY <1>0, <2>1, <2>2
<1>2. CASE CanIssue(s, interrupt)
  <2> DEFINE n == Len(s.buf)
             r == [line |-> s.ftq[n + 1], id |-> CHOOSE i \in FreeIds(s) : TRUE]
             x == [req |-> r, valid |-> FALSE]
  <2>1. /\ n \in Nat /\ Len(s.ftq) \in Nat /\ n < Len(s.ftq)
        /\ s.ftq \in Seq(Lines) /\ s.buf \in Seq(Slot) /\ s.memReq \in Seq(Request)
        /\ Len(s.memReq) \in Nat /\ DOMAIN s.buf = 1 .. n
        /\ s.blocked = FALSE
    BY <1>0, <1>2, StageFacts DEF CanIssue
  <2>2. s.ftq[n + 1] \in Lines
    BY <2>1, ElementOfSeq
  <2>3. FreeIds(s) # {}
    BY <1>2 DEF CanIssue
  <2>4. r.id \in FreeIds(s) /\ r.line = s.ftq[n + 1]
    BY <2>3
  <2>5. r \in Request
    BY <2>2, <2>4 DEF Request, FreeIds
  <2>6. x \in Slot /\ x.req = r /\ x.valid = FALSE
    BY <2>5 DEF Slot
  <2>7. trans' = trans \cup {r} /\ f' = FetchCacheLine(s, r)
    BY <1>2 DEF Issue
  <2>8. FetchCacheLine(s, r) = [s EXCEPT !.memReq = Append(@, r), !.buf = Append(@, x)]
    BY DEF FetchCacheLine
  <2>9. (\A i \in 1 .. n : s.buf[i].req # r) /\ r \notin trans \cup sent
    BY <2>1, <2>4, FreshRequest
  <2>10. s.retry = None
    BY <2>1 DEF Good, Retries
  <2> HIDE DEF r, x
  <2>11. /\ Append(s.buf, x) \in Seq(Slot) /\ Append(s.buf, x) # <<>>
         /\ Len(Append(s.buf, x)) = n + 1
         /\ \A i \in 1 .. n : Append(s.buf, x)[i] = s.buf[i]
         /\ Append(s.buf, x)[n + 1] = x
    BY <2>1, <2>6, AppendProperties
  <2>12. /\ Append(s.memReq, r) \in Seq(Request)
         /\ Len(Append(s.memReq, r)) = Len(s.memReq) + 1
         /\ \A p \in 1 .. Len(s.memReq) : Append(s.memReq, r)[p] = s.memReq[p]
         /\ Append(s.memReq, r)[Len(s.memReq) + 1] = r
    BY <2>1, <2>5, AppendProperties
  <2>13. /\ f' \in Stage /\ f'.buf = Append(s.buf, x) /\ f'.memReq = Append(s.memReq, r)
         /\ f'.pc = s.pc /\ f'.ftq = s.ftq /\ f'.retry = None /\ f'.fresh = s.fresh
    BY <1>0, <2>7, <2>8, <2>10, <2>11, <2>12 DEF Stage, Slot
  <2>14. /\ Len(f'.buf) = n + 1
         /\ \A i \in 1 .. n : f'.buf[i] = s.buf[i]
         /\ f'.buf[n + 1].req = r /\ f'.buf[n + 1].valid = FALSE
         /\ \A i \in 1 .. n + 1 : i \in 1 .. n \/ i = n + 1
    BY <2>1, <2>6, <2>11, <2>13
  <2>15. /\ Len(f'.memReq) = Len(s.memReq) + 1
         /\ \A p \in 1 .. Len(s.memReq) : f'.memReq[p] = s.memReq[p]
         /\ f'.memReq[Len(s.memReq) + 1] = r
         /\ \A p \in 1 .. Len(s.memReq) + 1 : p \in 1 .. Len(s.memReq) \/ p = Len(s.memReq) + 1
    BY <2>1, <2>12, <2>13
  <2>16. Follows(f)'
    <3>1. Len(f'.buf) <= Len(f'.ftq)
      BY <2>1, <2>13, <2>14
    <3>2. ASSUME NEW i \in 1 .. n + 1
          PROVE  f'.buf[i].req.line = f'.ftq[i]
      BY <2>1, <2>4, <2>13, <2>14 DEF Good, Follows
    <3> QED
      BY <2>14, <3>1, <3>2 DEF Follows
  <2>17. AtPc(f)' /\ Restarted(f)'
    BY <2>13 DEF Good, AtPc, Restarted
  <2>18. Distinct(f)'
    <3> SUFFICES ASSUME NEW i \in 1 .. n + 1, NEW j \in 1 .. n + 1,
                        f'.buf[i].req = f'.buf[j].req
                 PROVE  i = j
      BY <2>14 DEF Distinct
    <3> QED
      BY <2>9, <2>14 DEF Good, Distinct
  <2>19. Expected(f)'
    <3> SUFFICES ASSUME NEW p \in 1 .. Len(s.memReq) + 1
                 PROVE  \E i \in 1 .. n + 1 : f'.buf[i].req = f'.memReq[p] /\ ~f'.buf[i].valid
      BY <2>14, <2>15 DEF Expected
    <3>1. CASE p \in 1 .. Len(s.memReq)
      <4>1. PICK i \in 1 .. n : s.buf[i].req = s.memReq[p] /\ ~s.buf[i].valid
        BY <3>1 DEF Good, Expected
      <4>2. i \in 1 .. n + 1
        BY <2>1
      <4> QED
        BY <2>14, <2>15, <3>1, <4>1, <4>2
    <3>2. CASE p = Len(s.memReq) + 1
      <4>1. n + 1 \in 1 .. n + 1
        BY <2>1
      <4> QED
        BY <2>14, <2>15, <3>2, <4>1
    <3> QED
      BY <2>15, <3>1, <3>2
  <2>20. InOrder(f)'
    <3> SUFFICES ASSUME NEW p \in 1 .. Len(s.memReq) + 1, NEW q \in 1 .. Len(s.memReq) + 1,
                        NEW i \in 1 .. n + 1, NEW j \in 1 .. n + 1,
                        p < q, f'.buf[i].req = f'.memReq[p], f'.buf[j].req = f'.memReq[q]
                 PROVE  i < j
      BY <2>14, <2>15 DEF InOrder
    <3>1. p \in 1 .. Len(s.memReq) /\ f'.memReq[p] = s.memReq[p]
      BY <2>1, <2>15
    <3>2. f'.memReq[p] # r
      <4>1. PICK k \in 1 .. n : s.buf[k].req = s.memReq[p]
        BY <3>1 DEF Good, Expected
      <4> QED
        BY <2>9, <3>1, <4>1
    <3>3. i \in 1 .. n
      BY <2>14, <3>2
    <3>4. CASE j = n + 1
      BY <2>1, <3>3, <3>4
    <3>5. CASE j \in 1 .. n
      <4>1. f'.memReq[q] # r
        BY <2>9, <2>14, <3>5
      <4>2. q \in 1 .. Len(s.memReq) /\ f'.memReq[q] = s.memReq[q]
        BY <2>15, <4>1
      <4> QED
        BY <2>14, <3>1, <3>3, <3>5, <4>2 DEF Good, InOrder
    <3> QED
      BY <2>14, <3>4, <3>5
  <2>21. Retries(f)' /\ Answered(f)'
    <3>1. Retries(f)'
      BY <2>13 DEF Retries
    <3>2. ASSUME NEW i \in 1 .. n + 1, f'.buf[i].valid
          PROVE  f'.buf[i].req \notin trans' \cup sent'
      <4>1. i \in 1 .. n
        BY <2>14, <3>2
      <4>2. s.buf[i].req \notin trans \cup sent /\ s.buf[i].req # r
        BY <2>9, <2>14, <3>2, <4>1 DEF Good, Answered
      <4> QED
        BY <2>7, <2>14, <4>1, <4>2
    <3> QED
      BY <2>13, <2>14, <3>1, <3>2 DEF Answered
  <2>22. trans' \subseteq Request /\ trans' \cap sent' = {}
    BY <1>0, <2>5, <2>7, <2>9
  <2> QED
    BY <2>13, <2>16, <2>17, <2>18, <2>19, <2>20, <2>21, <2>22 DEF Good
<1> QED
  BY <1>1, <1>2

\* A whole tick.
LEMMA TickKeeps ==
  ASSUME IInv, NEW signal \in Signals, NEW interrupt \in BOOLEAN, Tick(signal, interrupt)
  PROVE  IInv'
<1> DEFINE s == CheckSignalsAndUpdate(f, signal.commit, signal.decode)
<1>1. signal.commit \in Lines \cup {None} /\ signal.decode \in Lines \cup {None}
  BY DEF Signals
<1>2. Good(s) /\ Restarted(s)
  BY <1>1, CheckSignalsGood DEF IInv
<1>3. PICK g \in Growths(s) : \E t \in Fetches(AddToFTQ(s, g[1], g[2]), interrupt) :
        Issue(Refilled(t), interrupt)
  BY DEF Tick
<1>4. /\ sent' = sent /\ squashDue' = (squashDue /\ signal.commit = None)
      /\ event' = IF event = None THEN None ELSE [event EXCEPT !.late = TRUE]
  BY DEF Tick
<1> HIDE DEF s
<1>5. Good(AddToFTQ(s, g[1], g[2])) /\ Restarted(AddToFTQ(s, g[1], g[2]))
  BY <1>2, AddToFTQGood
<1>6. PICK t \in Fetches(AddToFTQ(s, g[1], g[2]), interrupt) : Issue(Refilled(t), interrupt)
  BY <1>3
<1>7. Good(t) /\ (Restarted(t) \/ Issues(t))
  BY <1>5, FetchGood
<1>8. Good(Refilled(t)) /\ Restarted(Refilled(t))
  BY <1>7, RefilledGood
<1>9. /\ f' \in Stage /\ trans' \subseteq Request
      /\ Good(f)' /\ Restarted(f)' /\ trans' \cap sent' = {}
  BY <1>4, <1>6, <1>8, IssueGood
<1>10. drained' \in BOOLEAN
  BY <1>6 DEF Issue, IsDrained
<1>11. event' \in [req : Request, late : BOOLEAN] \cup {None}
  BY <1>4 DEF IInv, TypeOK
<1>12. sent' \subseteq Request
  BY <1>4 DEF IInv, TypeOK
<1>13. squashDue' \in BOOLEAN
  BY <1>4, Zenon
<1> QED
  BY <1>9, <1>10, <1>11, <1>12, <1>13 DEF IInv, TypeOK

----------------------------------------------------------------------------
(* Translations.                                                           *)

\* Requests that leave the TLB or the cache, or go from one to the other,
\* keep the invariant.
LEMMA MoveGood ==
  ASSUME NEW s, Good(s), f' = s, trans' \cup sent' \subseteq trans \cup sent
  PROVE  Good(f)'
BY DEF Good, Follows, AtPc, Distinct, Expected, InOrder, Retries, Answered

\* The head is the program counter's line.
LEMMA HeadLine ==
  ASSUME NEW s, Good(s), NEW r, Slots(s, r) # {}, SlotOf(s, r) = 1
  PROVE  IsHead(s, r) /\ r.line = s.pc
<1>1. s \in Stage /\ 1 \in 1 .. Len(s.buf) /\ s.buf[1].req = r
  BY SlotFacts DEF Good
<1>2. /\ Len(s.buf) \in Nat /\ Len(s.ftq) \in Nat /\ Len(s.buf) # 0 /\ Len(s.ftq) # 0
      /\ r.line = s.ftq[1]
  BY <1>1, StageFacts DEF Good, Follows
<1>3. s.buf # <<>> /\ s.ftq # <<>>
  BY <1>2, EmptySeq
<1> QED
  BY <1>1, <1>2, <1>3 DEF IsHead, Good, AtPc

\* The buffers and the list are cut at the same request: what was listed
\* before it has its buffer before it.
LEMMA CutGood ==
  ASSUME NEW s, Good(s), NEW r, Slots(s, r) # {}, Contains(s.memReq, r), SlotOf(s, r) # 1,
         NEW t \in Stage,
         t.buf = SubSeq(s.buf, 1, SlotOf(s, r) - 1), t.memReq = Before(s.memReq, r),
         t.ftq = s.ftq \/ t.ftq = SubSeq(s.ftq, 1, SlotOf(s, r) - 1),
         t.pc = s.pc, t.retry = s.retry, t.blocked = s.blocked \/ t.blocked = TRUE
  PROVE  Good(t) /\ t.ftq # <<>>
<1> DEFINE k == SlotOf(s, r)
           m == Position(s.memReq, r)
<1>1. /\ s \in Stage /\ Len(s.buf) \in Nat /\ Len(s.ftq) \in Nat /\ Len(s.memReq) \in Nat
      /\ s.buf \in Seq(Slot) /\ s.ftq \in Seq(Lines) /\ s.memReq \in Seq(Request)
  BY StageFacts DEF Good
<1>2. k \in 1 .. Len(s.buf) /\ s.buf[k].req = r
  BY <1>1, SlotFacts
<1>3. m \in 1 .. Len(s.memReq) /\ s.memReq[m] = r
  BY <1>1, PositionFacts
<1> HIDE DEF k, m
<1>4. /\ k - 1 \in 0 .. Len(s.buf) /\ k - 1 \in 0 .. Len(s.ftq) /\ 1 \in 1 .. k - 1
      /\ m - 1 \in 0 .. Len(s.memReq)
  BY <1>1, <1>2, <1>3 DEF Good, Follows, k
<1>5. Len(t.buf) = k - 1 /\ \A i \in 1 .. k - 1 : t.buf[i] = s.buf[i]
  BY <1>1, <1>4, PrefixFacts DEF k
<1>6. Len(t.memReq) = m - 1 /\ \A p \in 1 .. m - 1 : t.memReq[p] = s.memReq[p]
  BY <1>1, <1>4, PrefixFacts DEF m, Before
<1>7. /\ Len(t.ftq) \in Nat /\ k - 1 <= Len(t.ftq)
      /\ \A i \in 1 .. k - 1 : t.ftq[i] = s.ftq[i]
  <2>1. CASE t.ftq = s.ftq
    BY <1>1, <1>4, <2>1
  <2>2. CASE t.ftq = SubSeq(s.ftq, 1, k - 1)
    BY <1>1, <1>4, <2>2, PrefixFacts
  <2> QED
    BY <2>1, <2>2 DEF k
<1>8. \A i \in 1 .. k - 1 : i \in 1 .. Len(s.buf)
  BY <1>1, <1>2
<1>9. \A p \in 1 .. m - 1 : p \in 1 .. Len(s.memReq) /\ p < m
  BY <1>1, <1>3
<1>10. t.ftq # <<>> /\ t.buf # <<>>
  <2>1. k \in Nat /\ k - 1 # 0 /\ 1 <= k
    BY <1>1, <1>2, <1>4
  <2>2. Len(t.buf) # 0
    BY <1>5, <2>1
  <2>3. Len(t.ftq) \in Nat /\ k - 1 <= Len(t.ftq)
    BY <1>7
  <2>4. Len(t.ftq) # 0
    BY <2>1, <2>3
  <2> QED
    BY <2>2, <2>4, EmptySeq
<1>11. Follows(t)
  BY <1>5, <1>7, <1>8 DEF Good, Follows
<1>12. AtPc(t)
  <2>1. s.ftq # <<>>
    <3>1. Len(s.ftq) # 0
      BY <1>1, <1>4
    <3> QED
      BY <3>1, EmptySeq
  <2> QED
    BY <1>4, <1>7, <2>1 DEF Good, AtPc
<1>13. Distinct(t)
  BY <1>5, <1>8 DEF Good, Distinct
<1>14. Expected(t)
  <2> SUFFICES ASSUME NEW p \in 1 .. m - 1
               PROVE  \E i \in 1 .. k - 1 : t.buf[i].req = t.memReq[p] /\ ~t.buf[i].valid
    BY <1>5, <1>6 DEF Expected
  <2>1. PICK i \in 1 .. Len(s.buf) : s.buf[i].req = s.memReq[p] /\ ~s.buf[i].valid
    BY <1>9 DEF Good, Expected
  <2>2. i < k
    BY <1>2, <1>3, <1>9, <2>1 DEF Good, InOrder
  <2>3. i \in 1 .. k - 1
    BY <1>1, <1>2, <2>2
  <2> QED
    BY <1>5, <1>6, <2>1, <2>3
<1>15. InOrder(t)
  <2> SUFFICES ASSUME NEW p \in 1 .. m - 1, NEW q \in 1 .. m - 1,
                      NEW i \in 1 .. k - 1, NEW j \in 1 .. k - 1,
                      p < q, t.buf[i].req = t.memReq[p], t.buf[j].req = t.memReq[q]
               PROVE  i < j
    BY <1>5, <1>6 DEF InOrder
  <2>1. /\ s.buf[i].req = s.memReq[p] /\ s.buf[j].req = s.memReq[q]
        /\ i \in 1 .. Len(s.buf) /\ j \in 1 .. Len(s.buf)
        /\ p \in 1 .. Len(s.memReq) /\ q \in 1 .. Len(s.memReq)
    BY <1>5, <1>6, <1>8, <1>9
  <2> QED
    BY <2>1 DEF Good, InOrder
<1>16. Retries(t)
  BY <1>4, <1>5, <1>10 DEF Good, Retries
<1>17. Answered(t)
  BY <1>5, <1>8 DEF Good, Answered
<1> QED
  BY <1>10, <1>11, <1>12, <1>13, <1>14, <1>15, <1>16, <1>17 DEF Good

\* The cache accepts or refuses a request that has been translated.
LEMMA SendTimingReqKeeps ==
  ASSUME IInv, NEW r \in trans, trans' = trans \ {r}, Wanted(r), NEW accepted \in BOOLEAN,
         SendTimingReq(r, accepted)
  PROVE  /\ f' \in Stage /\ sent' \subseteq Request
         /\ Good(f)' /\ Restarted(f)' /\ trans' \cap sent' = {}
<1>0. /\ f \in Stage /\ r \in Request /\ trans \subseteq Request /\ sent \subseteq Request
      /\ trans \cap sent = {} /\ Good(f) /\ Restarted(f) /\ Slots(f, r) # {}
  BY DEF IInv, TypeOK, Wanted
<1>1. CASE accepted
  <2>1. /\ sent' = sent \cup {r}
        /\ \E x \in Statuses : f' = [f EXCEPT !.status = x]
    <3>1. f.status \in Statuses /\ f = [f EXCEPT !.status = f.status]
      BY <1>0 DEF Stage
    <3> QED
      BY <1>1, <3>1 DEF SendTimingReq, Statuses
  <2>2. PICK x \in Statuses : f' = [f EXCEPT !.status = x]
    BY <2>1
  <2> DEFINE t == [f EXCEPT !.status = x]
  <2>3. /\ t \in Stage /\ t.pc = f.pc /\ t.ftq = f.ftq /\ t.buf = f.buf
        /\ t.memReq = f.memReq /\ t.retry = f.retry /\ t.blocked = f.blocked
        /\ t.fresh = f.fresh
    BY <1>0 DEF Stage
  <2>4. f' = t
    BY <2>2
  <2> HIDE DEF t
  <2>5. Good(t) /\ Restarted(t)
    BY <1>0, <2>3, Frame DEF Restarted
  <2>6. Good(f)' /\ Restarted(f)'
    <3>1. trans' \cup sent' \subseteq trans \cup sent
      BY <2>1
    <3> QED
      BY <2>4, <2>5, <3>1, MoveGood DEF Restarted
  <2> QED
    BY <1>0, <2>1, <2>3, <2>4, <2>6
<1>2. CASE ~accepted /\ IsHead(f, r) /\ r.line = f.pc
  <2>1. /\ sent' = sent
        /\ f' = [f EXCEPT !.blocked = TRUE,
                          !.status = IF f.retry = None THEN "IcacheWaitRetry" ELSE @,
                          !.retry = IF f.retry = None THEN r ELSE @]
    BY <1>2 DEF SendTimingReq
  <2>2. /\ f' \in Stage /\ f'.pc = f.pc /\ f'.ftq = f.ftq /\ f'.buf = f.buf
        /\ f'.memReq = f.memReq /\ f'.blocked = TRUE /\ f'.fresh = f.fresh
        /\ f'.retry = IF f.retry = None THEN r ELSE f.retry
    BY <1>0, <2>1 DEF Stage, Statuses
  <2>3. Follows(f)' /\ AtPc(f)' /\ Distinct(f)' /\ Expected(f)' /\ InOrder(f)' /\ Restarted(f)'
    BY <1>0, <2>2 DEF Good, Follows, AtPc, Distinct, Expected, InOrder, Restarted
  <2>4. Retries(f)'
    <3>1. f.buf # <<>> /\ f.buf[1].req = r
      BY <1>2 DEF IsHead
    <3>2. r \notin trans' \cup sent'
      BY <1>0, <2>1
    <3> QED
      BY <1>0, <2>1, <2>2, <3>1, <3>2 DEF Good, Retries
  <2>5. Answered(f)'
    BY <1>0, <2>1, <2>2 DEF Good, Answered
  <2> QED
    BY <1>0, <2>1, <2>2, <2>3, <2>4, <2>5 DEF Good
<1>3. CASE ~accepted /\ ~(IsHead(f, r) /\ r.line = f.pc)
  <2> DEFINE t == [CutBefore(f, r) EXCEPT !.blocked = TRUE]
  <2>1. sent' = sent /\ Contains(f.memReq, r) /\ f' = t
    BY <1>3 DEF SendTimingReq, Listed
  <2>2. SlotOf(f, r) # 1
    BY <1>0, <1>3, HeadLine
  <2>3. /\ SubSeq(f.buf, 1, SlotOf(f, r) - 1) \in Seq(Slot)
        /\ Before(f.memReq, r) \in Seq(Request)
    BY <1>0, <2>1, SlotFacts, PositionFacts, StageFacts, PrefixFacts DEF Before
  <2>4. /\ t \in Stage /\ t.buf = SubSeq(f.buf, 1, SlotOf(f, r) - 1)
        /\ t.memReq = Before(f.memReq, r) /\ t.ftq = f.ftq /\ t.pc = f.pc
        /\ t.retry = f.retry /\ t.blocked = TRUE
    BY <1>0, <2>3 DEF CutBefore, Stage, Slot
  <2> HIDE DEF t
  <2>5. Good(t) /\ t.ftq # <<>>
    BY <1>0, <2>1, <2>2, <2>4, CutGood
  <2>6. Good(f)' /\ Restarted(f)'
    <3>1. trans' \cup sent' \subseteq trans \cup sent
      BY <2>1
    <3> QED
      BY <2>1, <2>5, <3>1, MoveGood DEF Restarted
  <2> QED
    BY <1>0, <2>1, <2>4, <2>6
<1> QED
  BY <1>1, <1>2, <1>3

\* A fault becomes a trap, waits, or cuts the queue.
LEMMA TakeFaultKeeps ==
  ASSUME IInv, NEW r \in Request, trans' \cup sent' \subseteq trans \cup sent, Wanted(r),
         NEW full \in BOOLEAN, TakeFault(r, full)
  PROVE  /\ f' \in Stage /\ event' \in [req : Request, late : BOOLEAN] \cup {None}
         /\ Good(f)' /\ Restarted(f)'
<1>0. f \in Stage /\ Good(f) /\ Restarted(f) /\ Slots(f, r) # {}
  BY DEF IInv, TypeOK, Wanted
<1>1. CASE r.line # f.pc
  <2> DEFINE k == SlotOf(f, r)
             t == [CutBefore(f, r) EXCEPT !.ftq = SubSeq(@, 1, k - 1)]
  <2>1. event' = None /\ Contains(f.memReq, r) /\ f' = t
    BY <1>1 DEF TakeFault, Listed
  <2>2. k # 1
    BY <1>0, <1>1, HeadLine
  <2>3. /\ k \in 1 .. Len(f.buf) /\ Len(f.buf) \in Nat /\ Len(f.ftq) \in Nat
        /\ f.ftq \in Seq(Lines) /\ f.buf \in Seq(Slot) /\ f.memReq \in Seq(Request)
    BY <1>0, SlotFacts, StageFacts
  <2>4. k - 1 \in 0 .. Len(f.buf) /\ k - 1 \in 0 .. Len(f.ftq)
    BY <1>0, <2>3 DEF Good, Follows
  <2>5. SubSeq(f.buf, 1, k - 1) \in Seq(Slot) /\ SubSeq(f.ftq, 1, k - 1) \in Seq(Lines)
    BY <2>3, <2>4, PrefixFacts
  <2>6. Before(f.memReq, r) \in Seq(Request)
    BY <2>1, <2>3, PositionFacts, PrefixFacts, LenProperties DEF Before
  <2>7. /\ t \in Stage /\ t.buf = SubSeq(f.buf, 1, SlotOf(f, r) - 1)
        /\ t.memReq = Before(f.memReq, r) /\ t.ftq = SubSeq(f.ftq, 1, SlotOf(f, r) - 1)
        /\ t.pc = f.pc /\ t.retry = f.retry /\ t.blocked = f.blocked
    BY <1>0, <2>5, <2>6 DEF CutBefore, Stage, Slot
  <2> HIDE DEF t
  <2>8. Good(t) /\ t.ftq # <<>>
    BY <1>0, <2>1, <2>2, <2>7, CutGood
  <2> QED
    BY <2>1, <2>7, <2>8, MoveGood DEF Restarted
<1>2. CASE r.line = f.pc /\ full
  <2>1. f' = f /\ event' = [req |-> r, late |-> FALSE]
    BY <1>2 DEF TakeFault
  <2> QED
    BY <1>0, <2>1, MoveGood DEF Restarted
<1>3. CASE r.line = f.pc /\ ~full
  <2> DEFINE t == [f EXCEPT !.status = "TrapPending", !.memReq = <<>>, !.prefetching = FALSE]
  <2>1. event' = None /\ f' = t
    BY <1>3 DEF TakeFault
  <2>2. /\ t \in Stage /\ t.pc = f.pc /\ t.ftq = f.ftq /\ t.buf = f.buf /\ t.memReq = <<>>
        /\ t.retry = f.retry /\ t.blocked = f.blocked /\ t.fresh = f.fresh
    BY <1>0, EmptySeq DEF Stage, Statuses
  <2> HIDE DEF t
  <2>3. Len(t.memReq) = 0
    BY <2>2, EmptySeq
  <2>4. Good(t) /\ Restarted(t)
    BY <1>0, <2>2, <2>3
       DEF Good, Follows, AtPc, Distinct, Expected, InOrder, Retries, Answered, Restarted
  <2> QED
    BY <2>1, <2>2, <2>4, MoveGood DEF Restarted
<1> QED
  BY <1>1, <1>2, <1>3

\* Every way a translation can end.
LEMMA FinishTranslationKeeps ==
  ASSUME IInv, NEW r \in trans, NEW accepted \in BOOLEAN, NEW full \in BOOLEAN,
         FinishTranslation(r, accepted, full)
  PROVE  IInv'
<1>0. /\ f \in Stage /\ r \in Request /\ trans \subseteq Request /\ sent \subseteq Request
      /\ trans \cap sent = {} /\ Good(f) /\ Restarted(f)
      /\ event \in [req : Request, late : BOOLEAN] \cup {None}
  BY DEF IInv, TypeOK
<1>1. trans' = trans \ {r} /\ squashDue' = squashDue /\ drained' = drained
  BY DEF FinishTranslation
<1>2. /\ trans' \subseteq Request /\ squashDue' \in BOOLEAN /\ drained' \in BOOLEAN
  BY <1>0, <1>1 DEF IInv, TypeOK
<1>3. ASSUME sent' = sent, Good(f)', Restarted(f)', f' \in Stage,
             event' \in [req : Request, late : BOOLEAN] \cup {None}
      PROVE  IInv'
  <2>1. sent' \subseteq Request /\ trans' \cap sent' = {}
    BY <1>0, <1>1, <1>3
  <2> QED
    BY <1>2, <1>3, <2>1 DEF IInv, TypeOK
<1>4. ASSUME sent' = sent, f' = f, event' = event
      PROVE  IInv'
  <2>1. trans' \cup sent' \subseteq trans \cup sent
    BY <1>1, <1>4
  <2>2. Good(f)' /\ Restarted(f)'
    BY <1>0, <1>4, <2>1, MoveGood DEF Restarted
  <2>3. f' \in Stage /\ event' \in [req : Request, late : BOOLEAN] \cup {None}
    BY <1>0, <1>4
  <2> QED
    BY <1>3, <1>4, <2>2, <2>3
<1>5. CASE ~Wanted(r)
  BY <1>4, <1>5 DEF FinishTranslation
<1>6. CASE Wanted(r) /\ r.line \in BadLines
  <2> DEFINE t == PopMemReq(f)
  <2>1. f' = t /\ sent' = sent /\ event' = event
    BY <1>6, FetchAssumption DEF FinishTranslation
  <2>2. f.memReq \in Seq(Request) /\ Len(f.memReq) \in Nat \ {0}
    BY <1>0, <1>6, StageFacts, EmptySeq DEF Wanted
  <2>3. Len(f.memReq) - 1 \in 0 .. Len(f.memReq)
    BY <2>2
  <2> DEFINE n == Len(f.memReq) - 1
  <2>4. /\ Front(f.memReq) \in Seq(Request) /\ Len(Front(f.memReq)) = n
        /\ \A p \in 1 .. n : Front(f.memReq)[p] = f.memReq[p]
    BY <2>2, <2>3, PrefixFacts DEF Front
  <2>5. /\ t \in Stage /\ t.pc = f.pc /\ t.ftq = f.ftq /\ t.buf = f.buf
        /\ t.memReq = Front(f.memReq) /\ t.retry = f.retry /\ t.blocked = f.blocked
        /\ t.fresh = f.fresh
    BY <1>0, <2>4 DEF PopMemReq, Stage, Statuses
  <2> HIDE DEF t
  <2>6. \A p \in 1 .. n : p \in 1 .. Len(f.memReq)
    BY <2>2
  <2>7. Len(t.memReq) = n /\ \A p \in 1 .. n : t.memReq[p] = f.memReq[p]
    BY <2>4, <2>5
  <2>7a. Expected(t)
    BY <1>0, <2>5, <2>6, <2>7 DEF Good, Expected
  <2>7b. InOrder(t)
    <3> SUFFICES ASSUME NEW p \in 1 .. n, NEW q \in 1 .. n,
                        NEW i \in 1 .. Len(f.buf), NEW j \in 1 .. Len(f.buf),
                        p < q, f.buf[i].req = f.memReq[p], f.buf[j].req = f.memReq[q]
                 PROVE  i < j
      BY <2>5, <2>7 DEF InOrder
    <3> QED
      BY <1>0, <2>6 DEF Good, InOrder
  <2>8. Good(t) /\ Restarted(t)
    BY <1>0, <2>5, <2>7a, <2>7b DEF Good, Follows, AtPc, Distinct, Retries, Answered, Restarted
  <2>9. trans' \cup sent' \subseteq trans \cup sent
    BY <1>1, <2>1
  <2>10. Good(f)' /\ Restarted(f)'
    BY <2>1, <2>8, <2>9, MoveGood DEF Restarted
  <2> QED
    BY <1>0, <1>3, <2>1, <2>5, <2>10
<1>7. CASE Wanted(r) /\ r.line \in FaultLines
  <2>1. r.line \notin BadLines
    BY <1>7, FetchAssumption
  <2>2. sent' = sent
    BY <1>7, <2>1 DEF FinishTranslation
  <2>3. CASE r.line = f.pc /\ full /\ event # None
    <3>1. f' = f /\ event' = event
      BY <1>7, <2>1, <2>3 DEF FinishTranslation
    <3> QED
      BY <1>4, <2>2, <3>1
  <2>4. CASE ~(r.line = f.pc /\ full /\ event # None)
    <3>1. TakeFault(r, full)
      BY <1>7, <2>1, <2>4 DEF FinishTranslation
    <3>2. trans' \cup sent' \subseteq trans \cup sent
      BY <1>1, <2>2
    <3>3. /\ f' \in Stage /\ event' \in [req : Request, late : BOOLEAN] \cup {None}
          /\ Good(f)' /\ Restarted(f)'
      BY <1>0, <1>7, <3>1, <3>2, TakeFaultKeeps
    <3> QED
      BY <1>3, <2>2, <3>3
  <2> QED
    BY <2>3, <2>4
<1>8. CASE Wanted(r) /\ r.line \notin BadLines /\ r.line \notin FaultLines
  <2>1. SendTimingReq(r, accepted) /\ event' = event
    BY <1>8 DEF FinishTranslation
  <2>2. /\ f' \in Stage /\ sent' \subseteq Request
        /\ Good(f)' /\ Restarted(f)' /\ trans' \cap sent' = {}
    BY <1>1, <1>8, <2>1, SendTimingReqKeeps
  <2> QED
    BY <1>0, <1>2, <2>1, <2>2 DEF IInv, TypeOK
<1> QED
  BY <1>5, <1>6, <1>7, <1>8

\* A fault that had to wait.
LEMMA FinishTranslationEventKeeps ==
  ASSUME IInv, NEW full \in BOOLEAN, FinishTranslationEvent(full)
  PROVE  IInv'
<1>1. /\ trans' = trans /\ sent' = sent /\ squashDue' = squashDue /\ drained' = drained
      /\ event.req \in Request
  BY DEF FinishTranslationEvent, IInv, TypeOK
<1>2. /\ f' \in Stage /\ event' \in [req : Request, late : BOOLEAN] \cup {None}
      /\ Good(f)' /\ Restarted(f)'
  <2>0. trans' \cup sent' \subseteq trans \cup sent
    BY <1>1
  <2>1. CASE Wanted(event.req)
    <3>1. TakeFault(event.req, full)
      BY <2>1 DEF FinishTranslationEvent
    <3> QED
      BY <1>1, <2>0, <2>1, <3>1, TakeFaultKeeps
  <2>2. CASE ~Wanted(event.req)
    <3>1. f' = f /\ event' = None
      BY <2>2 DEF FinishTranslationEvent
    <3>2. Good(f) /\ Restarted(f) /\ f \in Stage
      BY DEF IInv, TypeOK
    <3> QED
      BY <2>0, <3>1, <3>2, MoveGood DEF Restarted
  <2> QED
    BY <2>1, <2>2
<1> QED
  BY <1>1, <1>2 DEF IInv, TypeOK

----------------------------------------------------------------------------
(* The instruction cache.                                                  *)

\* A change of the status alone.
LEMMA StatusGood ==
  ASSUME NEW s, Good(s), Restarted(s), NEW x \in Statuses
  PROVE  Good([s EXCEPT !.status = x]) /\ Restarted([s EXCEPT !.status = x])
<1> DEFINE t == [s EXCEPT !.status = x]
<1>1. /\ t \in Stage /\ t.pc = s.pc /\ t.ftq = s.ftq /\ t.buf = s.buf
      /\ t.memReq = s.memReq /\ t.retry = s.retry /\ t.blocked = s.blocked
      /\ t.fresh = s.fresh
  BY DEF Good, Stage
<1> HIDE DEF t
<1>2. Good(t) /\ Restarted(t)
  BY <1>1, Frame DEF Restarted
<1> QED
  BY <1>2 DEF t

\* Waking up keeps the stage good.
LEMMA WokenGood ==
  ASSUME NEW s, Good(s), Restarted(s)
  PROVE  Good(Woken(s)) /\ Restarted(Woken(s))
<1>1. \E x \in Statuses : Woken(s) = [s EXCEPT !.status = x]
  BY DEF Woken, Statuses
<1> QED
  BY <1>1, StatusGood

\* A response that is wanted fills its buffer and leaves the list.
LEMMA FillGood ==
  ASSUME NEW s, Good(s), Restarted(s), NEW r, Contains(s.memReq, r),
         r \notin trans', r \notin sent', s.retry # None => s.retry # r,
         trans' \cup sent' \subseteq trans \cup sent,
         NEW t, t = [s EXCEPT !.buf[SlotOf(s, r)].valid = TRUE,
                              !.memReq = RemoveAt(@, Position(@, r))],
         f' = t \/ f' = Woken(t)
  PROVE  Good(f)' /\ Restarted(f)'
<1> DEFINE k == SlotOf(s, r)
           m == Position(s.memReq, r)
           b == [s.buf EXCEPT ![k] = [s.buf[k] EXCEPT !.valid = TRUE]]
           list == RemoveAt(s.memReq, m)
<1>1. /\ s \in Stage /\ Len(s.buf) \in Nat /\ Len(s.ftq) \in Nat /\ Len(s.memReq) \in Nat
      /\ s.buf \in Seq(Slot) /\ s.memReq \in Seq(Request) /\ DOMAIN s.buf = 1 .. Len(s.buf)
  BY StageFacts DEF Good
<1>2. m \in 1 .. Len(s.memReq) /\ s.memReq[m] = r
  BY <1>1, PositionFacts
<1>3. Slots(s, r) # {}
  BY <1>1, <1>2 DEF Good, Expected, Slots
<1>4. k \in 1 .. Len(s.buf) /\ s.buf[k].req = r
  BY <1>1, <1>3, SlotFacts
<1>5. s.buf[k] \in Slot
  BY <1>1, <1>4, ElementOfSeq
<1>6. t = [s EXCEPT !.buf = b, !.memReq = list]
  BY <1>1
<1> HIDE DEF k, m
<1> DEFINE x == [s.buf[k] EXCEPT !.valid = TRUE]
<1>7. x \in Slot /\ x.req = r /\ x.valid = TRUE
  BY <1>4, <1>5 DEF Slot
<1> HIDE DEF x
<1>8. /\ b \in Seq(Slot) /\ Len(b) = Len(s.buf)
      /\ \A i \in 1 .. Len(s.buf) : b[i] = IF i = k THEN x ELSE s.buf[i]
  <2>1. b = [s.buf EXCEPT ![k] = x]
    BY DEF x
  <2> HIDE DEF b
  <2> QED
    BY <1>1, <1>4, <1>7, <2>1, ExceptSeq
<1>9. /\ list \in Seq(Request) /\ Len(list) = Len(s.memReq) - 1
      /\ \A p \in 1 .. Len(s.memReq) - 1 :
           list[p] = IF p < m THEN s.memReq[p] ELSE s.memReq[p + 1]
  BY <1>1, <1>2, RemoveAtFacts
<1> HIDE DEF b, list
<1>10. /\ t \in Stage /\ t.buf = b /\ t.memReq = list /\ t.pc = s.pc /\ t.ftq = s.ftq
       /\ t.retry = s.retry /\ t.blocked = s.blocked /\ t.fresh = s.fresh
  BY <1>1, <1>6, <1>8, <1>9 DEF Stage, Slot
<1>11. /\ \A i \in 1 .. Len(s.buf) : b[i].req = s.buf[i].req
       /\ \A i \in 1 .. Len(s.buf) : i # k => b[i].valid = s.buf[i].valid
  BY <1>4, <1>7, <1>8
<1>12. \A i \in 1 .. Len(s.buf) : s.buf[i].req = r => i = k
  BY <1>4 DEF Good, Distinct
\* An element of the new list was elsewhere in the old one.
<1> DEFINE old(p) == IF p < m THEN p ELSE p + 1
<1>13. \A p \in 1 .. Len(list) :
         old(p) \in 1 .. Len(s.memReq) /\ old(p) # m /\ list[p] = s.memReq[old(p)]
  BY <1>1, <1>2, <1>9
<1>14. \A p, q \in 1 .. Len(list) : p < q => old(p) < old(q)
  BY <1>1, <1>2, <1>9
<1> HIDE DEF old
<1>15. Follows(t) /\ AtPc(t)
  BY <1>8, <1>10, <1>11 DEF Good, Follows, AtPc
<1>16. Distinct(t)
  BY <1>8, <1>10, <1>11 DEF Good, Distinct
<1>17. Expected(t)
  <2> SUFFICES ASSUME NEW p \in 1 .. Len(t.memReq)
               PROVE  \E i \in 1 .. Len(t.buf) : t.buf[i].req = t.memReq[p] /\ ~t.buf[i].valid
    BY DEF Expected
  <2>0. p \in 1 .. Len(list) /\ t.buf = b /\ t.memReq = list /\ Len(b) = Len(s.buf)
    BY <1>8, <1>10
  <2>1. PICK i \in 1 .. Len(s.buf) : s.buf[i].req = s.memReq[old(p)] /\ ~s.buf[i].valid
    BY <1>13, <2>0 DEF Good, Expected
  <2>2. i # k
    <3>1. SUFFICES ASSUME i = k PROVE FALSE
      OBVIOUS
    <3>2. s.memReq[old(p)] = s.memReq[m]
      BY <1>2, <1>4, <2>1, <3>1
    <3>3. old(p) < m \/ m < old(p)
      BY <1>1, <1>2, <1>13, <2>0
    <3>4. i < i
      BY <1>2, <1>13, <2>0, <2>1, <3>2, <3>3 DEF Good, InOrder
    <3> QED
      BY <3>4
  <2> QED
    BY <1>11, <1>13, <2>0, <2>1, <2>2
<1>18. InOrder(t)
  <2> SUFFICES ASSUME NEW p \in 1 .. Len(t.memReq), NEW q \in 1 .. Len(t.memReq),
                      NEW i \in 1 .. Len(t.buf), NEW j \in 1 .. Len(t.buf),
                      p < q, t.buf[i].req = t.memReq[p], t.buf[j].req = t.memReq[q]
               PROVE  i < j
    BY DEF InOrder
  <2>0. /\ p \in 1 .. Len(list) /\ q \in 1 .. Len(list)
        /\ i \in 1 .. Len(s.buf) /\ j \in 1 .. Len(s.buf)
        /\ b[i].req = list[p] /\ b[j].req = list[q]
    BY <1>8, <1>10
  <2>1. s.buf[i].req = s.memReq[old(p)] /\ s.buf[j].req = s.memReq[old(q)]
    BY <1>11, <1>13, <2>0
  <2> QED
    BY <1>13, <1>14, <2>0, <2>1 DEF Good, InOrder
<1>19. ASSUME NEW u, u \in Stage, u.buf = b, u.retry = s.retry, u.blocked = s.blocked, f' = u
       PROVE  Retries(f)' /\ Answered(f)'
  <2>1. Retries(f)'
    <3>1. SUFFICES ASSUME s.retry # None
                   PROVE  /\ u.blocked /\ u.buf # <<>> /\ u.buf[1].req = s.retry
                          /\ s.retry \notin trans' \cup sent'
      BY <1>19 DEF Retries
    <3>2. /\ s.blocked /\ s.buf # <<>> /\ s.buf[1].req = s.retry
          /\ s.retry \notin trans \cup sent
      BY <3>1 DEF Good, Retries
    <3>3. Len(s.buf) # 0
      BY <1>1, <3>2, EmptySeq
    <3>4. 1 \in 1 .. Len(s.buf) /\ b # <<>>
      BY <1>1, <1>8, <3>3, EmptySeq
    <3> QED
      BY <1>11, <1>19, <3>2, <3>4
  <2>2. Answered(f)'
    <3> SUFFICES ASSUME NEW i \in 1 .. Len(s.buf), b[i].valid
                 PROVE  /\ b[i].req \notin trans' \cup sent'
                        /\ s.retry # None => b[i].req # s.retry
      BY <1>8, <1>19 DEF Answered
    <3>1. CASE i = k
      BY <1>4, <1>11, <3>1
    <3>2. CASE i # k
      BY <1>11, <3>2 DEF Good, Answered
    <3> QED
      BY <3>1, <3>2
  <2> QED
    BY <2>1, <2>2
<1>20. ASSUME NEW u, u \in Stage, u.buf = b, u.memReq = list, u.pc = s.pc, u.ftq = s.ftq,
              u.retry = s.retry, u.blocked = s.blocked, u.fresh = s.fresh, f' = u
       PROVE  Good(f)' /\ Restarted(f)'
  <2>1. Retries(f)' /\ Answered(f)'
    BY <1>19, <1>20
  <2>2. Follows(f)' /\ AtPc(f)' /\ Distinct(f)' /\ Expected(f)' /\ InOrder(f)' /\ Restarted(f)'
    <3>1. /\ f'.buf = t.buf /\ f'.memReq = t.memReq /\ f'.pc = t.pc /\ f'.ftq = t.ftq
          /\ f'.fresh = s.fresh /\ t.ftq = s.ftq
      BY <1>10, <1>20
    <3>2. Restarted(f)'
      BY <3>1 DEF Restarted
    <3>3. Follows(f)' /\ AtPc(f)'
      BY <1>15, <3>1 DEF Follows, AtPc
    <3>4. Distinct(f)'
      BY <1>16, <3>1 DEF Distinct
    <3>5. Expected(f)'
      BY <1>17, <3>1 DEF Expected
    <3>6. InOrder(f)'
      BY <1>18, <3>1 DEF InOrder
    <3> QED
      BY <3>2, <3>3, <3>4, <3>5, <3>6
  <2> QED
    BY <1>20, <2>1, <2>2 DEF Good
<1>21. CASE f' = t
  BY <1>10, <1>20, <1>21
<1>22. CASE f' = Woken(t)
  <2>1. /\ Woken(t) \in Stage /\ Woken(t).buf = b /\ Woken(t).memReq = list
        /\ Woken(t).pc = s.pc /\ Woken(t).ftq = s.ftq /\ Woken(t).retry = s.retry
        /\ Woken(t).blocked = s.blocked /\ Woken(t).fresh = s.fresh
    BY <1>10 DEF Woken, Stage, Statuses
  <2> QED
    BY <1>20, <1>22, <2>1
<1> QED
  BY <1>21, <1>22

\* Every response, wanted or not.
LEMMA ProcessCacheCompletionKeeps ==
  ASSUME IInv, NEW r \in sent, ProcessCacheCompletion(r)
  PROVE  IInv'
<1> DEFINE s == IF f.status = "IcacheWaitResponse" /\ r.line = f.pc THEN Woken(f) ELSE f
           t == [s EXCEPT !.buf[SlotOf(s, r)].valid = TRUE,
                          !.memReq = RemoveAt(@, Position(@, r))]
<1>1. /\ Good(f) /\ Restarted(f) /\ trans \cap sent = {} /\ sent \subseteq Request
  BY DEF IInv, TypeOK
<1>2. Good(s) /\ Restarted(s)
  BY <1>1, WokenGood
<1>3. s.memReq = f.memReq
  BY <1>1 DEF Woken, Good, Stage
<1>4. /\ sent' = sent \ {r} /\ trans' = trans /\ event' = event
      /\ squashDue' = squashDue /\ drained' = drained
  BY DEF ProcessCacheCompletion
<1>5. trans' \cup sent' \subseteq trans \cup sent /\ r \notin trans' /\ r \notin sent'
  BY <1>1, <1>4
<1>6. f' = s \/ (Contains(f.memReq, r) /\ (f' = t \/ f' = Woken(t)))
  BY DEF ProcessCacheCompletion
<1> HIDE DEF s
<1>7. Good(f)' /\ Restarted(f)'
  <2>1. CASE f' = s
    BY <1>2, <1>5, <2>1, MoveGood DEF Restarted
  <2>2. CASE Contains(f.memReq, r) /\ (f' = t \/ f' = Woken(t))
    <3>1. Contains(s.memReq, r)
      BY <1>3, <2>2
    <3>2. s.retry # None => s.retry # r
      BY <1>2 DEF Good, Retries
    <3> QED
      BY <1>2, <1>5, <2>2, <3>1, <3>2, FillGood
  <2> QED
    BY <1>6, <2>1, <2>2
<1> QED
  BY <1>1, <1>4, <1>7 DEF IInv, TypeOK, Good

\* The cache can be tried again.
LEMMA RecvReqRetryKeeps ==
  ASSUME IInv, NEW accepted \in BOOLEAN, RecvReqRetry(accepted)
  PROVE  IInv'
<1>1. /\ f \in Stage /\ Good(f) /\ Restarted(f) /\ trans \cap sent = {}
      /\ sent \subseteq Request
  BY DEF IInv, TypeOK
<1>2. trans' = trans /\ event' = event /\ squashDue' = squashDue /\ drained' = drained
  BY DEF RecvReqRetry
<1>3. CASE f' = f /\ sent' = sent
  <2>1. trans' \cup sent' \subseteq trans \cup sent
    BY <1>2, <1>3
  <2>2. Good(f)' /\ Restarted(f)'
    BY <1>1, <1>3, <2>1, MoveGood DEF Restarted
  <2> QED
    BY <1>1, <1>2, <1>3, <2>2 DEF IInv, TypeOK
<1>4. CASE /\ \E x \in Statuses :
                f' = [f EXCEPT !.status = x, !.retry = None, !.blocked = FALSE]
           /\ sent' = sent \/ (f.retry # None /\ sent' = sent \cup {f.retry})
  <2>1. PICK x \in Statuses : f' = [f EXCEPT !.status = x, !.retry = None, !.blocked = FALSE]
    BY <1>4
  <2>2. /\ f' \in Stage /\ f'.pc = f.pc /\ f'.ftq = f.ftq /\ f'.buf = f.buf
        /\ f'.memReq = f.memReq /\ f'.retry = None /\ f'.fresh = f.fresh
    BY <1>1, <2>1 DEF Stage
  <2>3. Follows(f)' /\ AtPc(f)' /\ Distinct(f)' /\ Expected(f)' /\ InOrder(f)' /\ Restarted(f)'
    <3>1. Follows(f)' /\ AtPc(f)' /\ Restarted(f)'
      BY <1>1, <2>2 DEF Good, Follows, AtPc, Restarted
    <3>2. Distinct(f)' /\ Expected(f)'
      BY <1>1, <2>2 DEF Good, Distinct, Expected
    <3>3. InOrder(f)'
      BY <1>1, <2>2 DEF Good, InOrder
    <3> QED
      BY <3>1, <3>2, <3>3
  <2>4. Retries(f)' /\ Answered(f)'
    BY <1>1, <1>2, <1>4, <2>2 DEF Good, Retries, Answered
  <2>5. trans' \cap sent' = {} /\ sent' \subseteq Request
    <3>1. f.retry # None => f.retry \in Request /\ f.retry \notin trans
      BY <1>1 DEF Stage, Good, Retries
    <3> QED
      BY <1>1, <1>2, <1>4, <3>1
  <2>6. Good(f)'
    BY <2>2, <2>3, <2>4 DEF Good
  <2> QED
    BY <1>2, <2>2, <2>3, <2>5, <2>6 DEF IInv, TypeOK
<1>5. \/ f' = f /\ sent' = sent
      \/ /\ \E x \in Statuses :
              f' = [f EXCEPT !.status = x, !.retry = None, !.blocked = FALSE]
         /\ sent' = sent \/ (f.retry # None /\ sent' = sent \cup {f.retry})
  <2>1. /\ f.status \in Statuses /\ "IcacheWaitResponse" \in Statuses
        /\ [f EXCEPT !.retry = None, !.blocked = FALSE] =
              [f EXCEPT !.status = f.status, !.retry = None, !.blocked = FALSE]
    BY <1>1 DEF Stage, Statuses
  <2> QED
    BY <2>1 DEF RecvReqRetry
<1> QED
  BY <1>3, <1>4, <1>5

\* A drain begins or ends.
LEMMA DrainKeeps ==
  ASSUME IInv, DrainStall \/ DrainResume
  PROVE  IInv'
<1>1. f \in Stage /\ Good(f) /\ Restarted(f)
  BY DEF IInv, TypeOK
<1>2. PICK x \in BOOLEAN : f' = [f EXCEPT !.drain = x]
  BY DEF DrainStall, DrainResume
<1> DEFINE t == [f EXCEPT !.drain = x]
<1>3. /\ t \in Stage /\ t.pc = f.pc /\ t.ftq = f.ftq /\ t.buf = f.buf
      /\ t.memReq = f.memReq /\ t.retry = f.retry /\ t.blocked = f.blocked
      /\ t.fresh = f.fresh
  BY <1>1 DEF Stage
<1>4. f' = t
  BY <1>2
<1> HIDE DEF t
<1>5. Good(t) /\ Restarted(t)
  BY <1>1, <1>3, Frame DEF Restarted
<1>6. /\ trans' = trans /\ sent' = sent /\ event' = event
      /\ squashDue' \in BOOLEAN /\ drained' \in BOOLEAN
  BY DEF DrainStall, DrainResume, IInv, TypeOK
<1>7. Good(f)' /\ Restarted(f)'
  BY <1>4, <1>5, <1>6, MoveGood DEF Restarted
<1> QED
  BY <1>3, <1>4, <1>6, <1>7 DEF IInv, TypeOK

----------------------------------------------------------------------------
(* The results.                                                            *)

\* The invariant holds at first.
LEMMA InitGood == Init => IInv
<1> SUFFICES ASSUME Init PROVE IInv
  OBVIOUS
<1>1. /\ f \in Stage /\ f.ftq = <<>> /\ f.buf = <<>> /\ f.memReq = <<>> /\ f.retry = None
      /\ f.fresh = TRUE
  BY EmptySeq DEF Init, Stage, Statuses
<1>2. Good(f) /\ Restarted(f)
  BY <1>1, EmptyGood DEF Restarted
<1> QED
  BY <1>1, <1>2 DEF Init, IInv, TypeOK

\* The invariant is inductive.
LEMMA NextKeeps == IInv /\ [Next]_vars => IInv'
<1> SUFFICES ASSUME IInv, [Next]_vars PROVE IInv'
  OBVIOUS
<1>1. ASSUME NEW signal \in Signals, NEW interrupt \in BOOLEAN, Tick(signal, interrupt)
      PROVE  IInv'
  BY <1>1, TickKeeps
<1>2. ASSUME NEW r \in trans, NEW accepted \in BOOLEAN, NEW full \in BOOLEAN,
             FinishTranslation(r, accepted, full)
      PROVE  IInv'
  BY <1>2, FinishTranslationKeeps
<1>3. ASSUME NEW full \in BOOLEAN, FinishTranslationEvent(full)
      PROVE  IInv'
  BY <1>3, FinishTranslationEventKeeps
<1>4. ASSUME NEW r \in sent, ProcessCacheCompletion(r)
      PROVE  IInv'
  BY <1>4, ProcessCacheCompletionKeeps
<1>5. ASSUME NEW accepted \in BOOLEAN, RecvReqRetry(accepted)
      PROVE  IInv'
  BY <1>5, RecvReqRetryKeeps
<1>6. CASE DrainStall \/ DrainResume
  BY <1>6, DrainKeeps
<1>7. CASE UNCHANGED vars
  <2>1. f' = f /\ trans' = trans /\ sent' = sent /\ event' = event
        /\ squashDue' = squashDue /\ drained' = drained
    BY <1>7 DEF vars
  <2>2. Good(f)' /\ Restarted(f)'
    BY <2>1, MoveGood DEF IInv, Restarted
  <2> QED
    BY <2>1, <2>2 DEF IInv, TypeOK
<1> QED
  BY <1>1, <1>2, <1>3, <1>4, <1>5, <1>6, <1>7 DEF Next

\* The inductive invariant holds in every reachable state of the stage.
THEOREM FetchInvariant == Spec => []IInv
BY InitGood, NextKeeps, PTL DEF Spec

\* The state of the stage is well-typed: in particular no squash, retry or
\* late answer leaves a list with something that is not a request in it.
THEOREM FetchTypes == Spec => []TypeOK
<1>1. IInv => TypeOK
  BY DEF IInv
<1> QED
  BY <1>1, FetchInvariant, PTL

\* The buffers are the first lines of the fetch target queue, in its order:
\* the assertions of pipelineIcacheAccesses and finishTranslation never fail.
THEOREM FetchFollowsQueue == Spec => []BuffersFollowQueue
<1>1. IInv => BuffersFollowQueue
  <2> SUFFICES ASSUME IInv PROVE BuffersFollowQueue
    OBVIOUS
  <2>1. DOMAIN f.buf = 1 .. Len(f.buf)
    BY StageFacts DEF IInv, TypeOK
  <2> QED
    BY <2>1 DEF IInv, Good, Follows, BuffersFollowQueue
<1> QED
  BY <1>1, FetchInvariant, PTL

\* Whatever is predicted, squashed, refused or faults, the oldest line of the
\* queue and of the buffers is the one the program counter is in.
THEOREM FetchHeadAtPc == Spec => []HeadAtPc
<1>1. IInv => HeadAtPc
  <2> SUFFICES ASSUME IInv PROVE HeadAtPc
    OBVIOUS
  <2>1. Good(f) /\ f \in Stage
    BY DEF IInv, TypeOK
  <2>2. ASSUME f.buf # <<>>
        PROVE  f.ftq # <<>> /\ f.buf[1].req.line = f.ftq[1]
    <3>1. Len(f.buf) \in Nat \ {0} /\ Len(f.ftq) \in Nat
      BY <2>1, <2>2, StageFacts, EmptySeq
    <3>2. 1 \in 1 .. Len(f.buf) /\ Len(f.ftq) # 0
      BY <2>1, <3>1 DEF Good, Follows
    <3> QED
      BY <2>1, <3>2, EmptySeq DEF Good, Follows
  <2> QED
    BY <2>1, <2>2 DEF Good, AtPc, HeadAtPc
<1> QED
  BY <1>1, FetchInvariant, PTL

\* However late or out of order the answers come, one whose request is still
\* listed finds its buffer, and finds it empty: the assertions of
\* processCacheCompletion never fail.
THEOREM FetchCompletion == Spec => []CompletionFindsBuffer
<1>1. IInv => CompletionFindsBuffer
  <2> SUFFICES ASSUME IInv, NEW r \in ToSet(f.memReq)
               PROVE  \E i \in Slots(f, r) : Slots(f, r) = {i} /\ ~f.buf[i].valid
    BY DEF CompletionFindsBuffer
  <2>1. /\ Good(f) /\ DOMAIN f.buf = 1 .. Len(f.buf)
        /\ DOMAIN f.memReq = 1 .. Len(f.memReq)
    BY StageFacts DEF IInv, TypeOK
  <2>2. PICK p \in 1 .. Len(f.memReq) : r = f.memReq[p]
    BY <2>1 DEF ToSet
  <2>3. PICK i \in 1 .. Len(f.buf) : f.buf[i].req = r /\ ~f.buf[i].valid
    BY <2>1, <2>2 DEF Good, Expected
  <2>4. Slots(f, r) = {i}
    BY <2>1, <2>3 DEF Good, Distinct, Slots
  <2> QED
    BY <2>3, <2>4
<1> QED
  BY <1>1, FetchInvariant, PTL

\* A packet kept for a retry is always that of the head, and in nobody else's
\* hands: the assertions of doSquash and recvReqRetry never fail.
THEOREM FetchRetry == Spec => []RetryIsHead
<1>1. IInv => RetryIsHead
  BY DEF IInv, Good, Retries, RetryIsHead, IsHead
<1> QED
  BY <1>1, FetchInvariant, PTL

=============================================================================
