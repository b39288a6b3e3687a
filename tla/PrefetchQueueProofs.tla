------------------------ MODULE PrefetchQueueProofs ------------------------
(***************************************************************************)
(* Machine-checked proofs about PrefetchQueue, for queues of any size, any *)
(* set of addresses and pages, and any answers of the TLB.                 *)
(***************************************************************************)
EXTENDS PrefetchQueue, Loops, SequenceTheorems, FiniteSetTheorems

----------------------------------------------------------------------------
(* Queues as the packets they hold.                                        *)

Has(s, p) == \E i \in 1 .. Len(s) : s[i] = p

\* No two packets of a queue have the same address.
Distinct(s) == \A i, j \in 1 .. Len(s) : s[i].addr = s[j].addr => i = j

\* What Append adds.
LEMMA AppendHas ==
  ASSUME NEW P, NEW s \in Seq(P), NEW x \in P
  PROVE  /\ Append(s, x) \in Seq(P) /\ Len(Append(s, x)) = Len(s) + 1
         /\ \A y : Has(Append(s, x), y) <=> Has(s, y) \/ y = x
         /\ Distinct(s) /\ (\A p : Has(s, p) => p.addr # x.addr) => Distinct(Append(s, x))
<1> DEFINE t == Append(s, x)
<1>1. /\ t \in Seq(P) /\ Len(t) = Len(s) + 1 /\ Len(s) \in Nat
      /\ \A i \in 1 .. Len(s) : t[i] = s[i]
      /\ t[Len(s) + 1] = x
  BY AppendProperties, LenProperties
<1> HIDE DEF t
<1>2. \A i \in 1 .. Len(t) : i \in 1 .. Len(s) \/ i = Len(s) + 1
  BY <1>1
<1>3. ASSUME NEW y
      PROVE  Has(t, y) <=> Has(s, y) \/ y = x
  <2>1. ASSUME Has(t, y)
        PROVE  Has(s, y) \/ y = x
    BY <1>1, <1>2, <2>1 DEF Has
  <2>2. ASSUME Has(s, y)
        PROVE  Has(t, y)
    BY <1>1, <2>2 DEF Has
  <2>3. ASSUME y = x
        PROVE  Has(t, y)
    BY <1>1, <2>3 DEF Has
  <2> QED
    BY <2>1, <2>2, <2>3
<1>4. ASSUME Distinct(s), \A p : Has(s, p) => p.addr # x.addr
      PROVE  Distinct(t)
  <2> SUFFICES ASSUME NEW i \in 1 .. Len(t), NEW j \in 1 .. Len(t), t[i].addr = t[j].addr
               PROVE  i = j
    BY DEF Distinct
  <2>1. \A k \in 1 .. Len(s) : t[k].addr # x.addr
    BY <1>1, <1>4 DEF Has
  <2>2. CASE i \in 1 .. Len(s) /\ j \in 1 .. Len(s)
    BY <1>1, <1>4, <2>2 DEF Distinct
  <2>3. CASE i = Len(s) + 1 \/ j = Len(s) + 1
    BY <1>1, <1>2, <2>1, <2>3
  <2> QED
    BY <1>2, <2>2, <2>3
<1> QED
  BY <1>1, <1>3, <1>4 DEF t

\* What Tail leaves.
LEMMA TailHas ==
  ASSUME NEW P, NEW s \in Seq(P), s # << >>
  PROVE  /\ Tail(s) \in Seq(P) /\ Len(Tail(s)) = Len(s) - 1
         /\ \A y : Has(Tail(s), y) => Has(s, y)
         /\ Distinct(s) => Distinct(Tail(s))
<1> DEFINE t == Tail(s)
<1>1. /\ t \in Seq(P) /\ Len(t) = Len(s) - 1 /\ Len(s) \in Nat
      /\ \A i \in 1 .. Len(t) : t[i] = s[i + 1]
  BY HeadTailProperties, LenProperties
<1> HIDE DEF t
<1>2. \A i \in 1 .. Len(t) : i + 1 \in 1 .. Len(s)
  BY <1>1
<1>3. \A y : Has(t, y) => Has(s, y)
  BY <1>1, <1>2 DEF Has
<1>4. ASSUME Distinct(s)
      PROVE  Distinct(t)
  <2> SUFFICES ASSUME NEW i \in 1 .. Len(t), NEW j \in 1 .. Len(t), t[i].addr = t[j].addr
               PROVE  i = j
    BY DEF Distinct
  <2>1. i + 1 \in 1 .. Len(s) /\ j + 1 \in 1 .. Len(s) /\ s[i + 1].addr = s[j + 1].addr
    BY <1>1, <1>2
  <2>2. i + 1 = j + 1
    BY <1>4, <2>1 DEF Distinct
  <2> QED
    BY <1>1, <2>2
<1> QED
  BY <1>1, <1>3, <1>4 DEF t

\* The addresses of a queue are those of its packets.
LEMMA AddrsHas ==
  ASSUME NEW s, NEW a
  PROVE  a \in Addrs(s) <=> \E p : Has(s, p) /\ p.addr = a
  BY DEF Addrs, Has

\* An empty queue.
LEMMA EmptyHas ==
  ASSUME NEW P
  PROVE  << >> \in Seq(P) /\ Len(<< >>) = 0 /\ (\A y : ~Has(<< >>, y)) /\ Distinct(<< >>)
<1>1. << >> \in Seq(P) /\ Len(<< >>) = 0
  BY EmptySeq
<1> QED
  BY <1>1 DEF Has, Distinct

\* A full queue loses its oldest packet, and only a full one.
LEMMA AddIs ==
  ASSUME NEW P, NEW s \in Seq(P), NEW x \in P
  PROVE  LET t == addToQueue(s, x)
         IN  /\ t \in Seq(P)
             /\ Len(s) <= QueueSize => Len(t) <= QueueSize /\ Len(t) <= Len(s) + 1
             /\ \A y : Has(t, y) => Has(s, y) \/ y = x
             /\ Has(t, x)
             /\ Len(s) # QueueSize => t = Append(s, x) /\ \A y : Has(s, y) => Has(t, y)
             /\ Distinct(s) /\ (\A p : Has(s, p) => p.addr # x.addr) => Distinct(t)
<1> DEFINE r == IF Len(s) = QueueSize THEN Tail(s) ELSE s
           t == addToQueue(s, x)
<1>1. QueueSize \in Nat /\ QueueSize >= 2 /\ Len(s) \in Nat
  BY QueueAssumption, LenProperties
<1>2. /\ r \in Seq(P) /\ (Len(s) <= QueueSize => Len(r) < QueueSize /\ Len(r) <= Len(s))
      /\ \A y : Has(r, y) => Has(s, y)
      /\ Distinct(s) => Distinct(r)
  <2>1. CASE Len(s) = QueueSize
    <3>1. s # << >>
      BY <1>1, <2>1, EmptyHas
    <3>2. /\ Tail(s) \in Seq(P) /\ Len(Tail(s)) = Len(s) - 1
          /\ \A y : Has(Tail(s), y) => Has(s, y)
          /\ Distinct(s) => Distinct(Tail(s))
      BY <3>1, TailHas
    <3> QED
      BY <1>1, <2>1, <3>2
  <2>2. CASE Len(s) # QueueSize
    BY <1>1, <2>2
  <2> QED
    BY <2>1, <2>2
<1>3. t = Append(r, x) /\ (Len(s) # QueueSize => r = s)
  BY DEF addToQueue
<1> HIDE DEF r, t
<1>4. /\ t \in Seq(P) /\ Len(t) = Len(r) + 1
      /\ \A y : Has(t, y) <=> Has(r, y) \/ y = x
      /\ Distinct(r) /\ (\A p : Has(r, p) => p.addr # x.addr) => Distinct(t)
  BY <1>2, <1>3, AppendHas
<1>5. Len(r) \in Nat
  BY <1>2, LenProperties
<1>6. Len(s) <= QueueSize => Len(t) <= QueueSize /\ Len(t) <= Len(s) + 1
  BY <1>1, <1>2, <1>4, <1>5
<1>7. Distinct(s) /\ (\A p : Has(s, p) => p.addr # x.addr) => Distinct(t)
  BY <1>2, <1>4
<1> QED
  BY <1>2, <1>3, <1>4, <1>6, <1>7 DEF t

\* Erasing the packets of an address leaves the others.
LEMMA WithoutIs ==
  ASSUME NEW P, NEW s \in Seq(P), NEW a
  PROVE  LET t == Without(s, a)
         IN  /\ t \in Seq(P) /\ Len(t) <= Len(s)
             /\ \A y : Has(t, y) <=> Has(s, y) /\ y.addr # a
             /\ Distinct(s) => Distinct(t)
<1> DEFINE L == Len(s)
           F == [n \in 1 .. L |-> [k \in Seq(P) |-> IF s[n].addr = a THEN k ELSE Append(k, s[n])]]
           IsKept(f) == f = [n \in 0 .. L |->
                              IF n = 0 THEN << >>
                              ELSE IF s[n].addr = a THEN f[n - 1] ELSE Append(f[n - 1], s[n])]
           kept == CHOOSE f : IsKept(f)
<1>1. L \in Nat /\ \A n \in 1 .. L : s[n] \in P
  BY LenProperties, ElementOfSeq
<1>2. F \in [1 .. L -> [Seq(P) -> Seq(P)]]
  <2>1. ASSUME NEW n \in 1 .. L, NEW k \in Seq(P)
        PROVE  (IF s[n].addr = a THEN k ELSE Append(k, s[n])) \in Seq(P)
    BY <1>1, AppendProperties
  <2> QED
    BY <2>1
<1>3. PICK f \in [0 .. L -> Seq(P)] : f[0] = << >> /\ \A m \in 1 .. L : f[m] = F[m][f[m - 1]]
  <2>1. << >> \in Seq(P)
    BY EmptyHas
  <2> HIDE DEF F, L
  <2>2. HasRun(L, Seq(P), F, << >>)
    BY <1>1, <1>2, <2>1, LoopExists
  <2> QED
    BY <2>2 DEF HasRun
<1>4. IsKept(f)
  <2>1. ASSUME NEW n \in 0 .. L
        PROVE  f[n] = IF n = 0 THEN << >>
                      ELSE IF s[n].addr = a THEN f[n - 1] ELSE Append(f[n - 1], s[n])
    <3>1. CASE n = 0
      BY <1>3, <3>1
    <3>2. CASE n # 0
      <4>1. n \in 1 .. L /\ f[n - 1] \in Seq(P)
        BY <1>1, <3>2
      <4>2. f[n] = F[n][f[n - 1]]
        BY <1>3, <4>1
      <4>3. F[n][f[n - 1]] = IF s[n].addr = a THEN f[n - 1] ELSE Append(f[n - 1], s[n])
        BY <4>1
      <4> QED
        BY <3>2, <4>2, <4>3
    <3> QED
      BY <3>1, <3>2
  <2>2. f = [n \in 0 .. L |-> f[n]]
    OBVIOUS
  <2> HIDE DEF F, L
  <2> QED
    BY <2>1, <2>2
<1>5. IsKept(kept)
  BY <1>4
<1>6. Without(s, a) = kept[L]
  BY DEF Without
<1> HIDE DEF kept, F
<1>7. ASSUME NEW n \in 0 .. L
      PROVE  kept[n] = IF n = 0 THEN << >>
                       ELSE IF s[n].addr = a THEN kept[n - 1] ELSE Append(kept[n - 1], s[n])
  BY <1>5
<1> HIDE DEF IsKept
<1> DEFINE K(n) == /\ kept[n] \in Seq(P) /\ Len(kept[n]) <= n
                   /\ \A y : Has(kept[n], y) <=> \E j \in 1 .. n : s[j] = y /\ y.addr # a
                   /\ Distinct(s) => Distinct(kept[n])
           T == {n \in 0 .. L : K(n)}
<1>8. 0 \in T
  <2>1. kept[0] = << >> /\ 0 \in 0 .. L
    BY <1>1, <1>7
  <2>2. /\ << >> \in Seq(P) /\ Len(<< >>) <= 0 /\ (\A y : ~Has(<< >>, y)) /\ Distinct(<< >>)
    BY EmptyHas
  <2>3. K(0)
    BY <2>1, <2>2
  <2> QED
    BY <2>1, <2>3
<1>9. ASSUME NEW m \in 0 .. L - 1, m \in T
      PROVE  m + 1 \in T
  <2>1. /\ m + 1 \in 0 .. L /\ m + 1 # 0 /\ (m + 1) - 1 = m /\ m + 1 \in 1 .. L
        /\ \A j \in 1 .. m + 1 : j \in 1 .. m \/ j = m + 1
        /\ \A j \in 1 .. m : j \in 1 .. m + 1 /\ j \in 1 .. L /\ j # m + 1
        /\ m + 1 \in 1 .. m + 1
    BY <1>1
  <2>2. K(m)
    BY <1>9
  <2>3. CASE s[m + 1].addr = a
    <3>1. kept[m + 1] = kept[m]
      BY <1>7, <2>1, <2>3
    <3>2. Len(kept[m]) \in Nat
      BY <2>2, LenProperties
    <3>3. Len(kept[m]) <= m + 1
      BY <2>2, <3>2
    <3>4. ASSUME NEW y
          PROVE  (\E j \in 1 .. m : s[j] = y /\ y.addr # a) <=>
                 (\E j \in 1 .. m + 1 : s[j] = y /\ y.addr # a)
      BY <2>1, <2>3
    <3>5. K(m + 1)
      BY <2>2, <3>1, <3>3, <3>4
    <3> QED
      BY <2>1, <3>5
  <2>4. CASE s[m + 1].addr # a
    <3> DEFINE x == s[m + 1]
    <3>1. kept[m + 1] = Append(kept[m], x)
      BY <1>7, <2>1, <2>4
    <3>2. x \in P
      BY <1>1, <2>1
    <3>3. /\ Append(kept[m], x) \in Seq(P) /\ Len(Append(kept[m], x)) = Len(kept[m]) + 1
          /\ \A y : Has(Append(kept[m], x), y) <=> Has(kept[m], y) \/ y = x
          /\ Distinct(kept[m]) /\ (\A p : Has(kept[m], p) => p.addr # x.addr) =>
               Distinct(Append(kept[m], x))
      BY <2>2, <3>2, AppendHas
    <3>4. Len(kept[m + 1]) <= m + 1
      <4>1. Len(kept[m]) \in Nat /\ Len(kept[m]) <= m
        BY <2>2, LenProperties
      <4> QED
        BY <3>1, <3>3, <4>1
    <3>5. ASSUME NEW y
          PROVE  Has(kept[m + 1], y) <=> \E j \in 1 .. m + 1 : s[j] = y /\ y.addr # a
      <4>1. Has(kept[m + 1], y) <=> Has(kept[m], y) \/ y = x
        BY <3>1, <3>3
      <4>2. Has(kept[m], y) <=> \E j \in 1 .. m : s[j] = y /\ y.addr # a
        BY <2>2
      <4>3. (\E j \in 1 .. m + 1 : s[j] = y /\ y.addr # a) <=>
            (\E j \in 1 .. m : s[j] = y /\ y.addr # a) \/ y = x
        BY <2>1, <2>4
      <4> QED
        BY <4>1, <4>2, <4>3
    <3>6. ASSUME Distinct(s)
          PROVE  Distinct(kept[m + 1])
      <4>1. ASSUME NEW p, Has(kept[m], p)
            PROVE  p.addr # x.addr
        <5>1. PICK j \in 1 .. m : s[j] = p
          BY <2>2, <4>1
        <5>2. j \in 1 .. Len(s) /\ m + 1 \in 1 .. Len(s) /\ j # m + 1
          BY <2>1
        <5> QED
          BY <3>6, <5>1, <5>2 DEF Distinct
      <4> QED
        BY <2>2, <3>1, <3>3, <3>6, <4>1
    <3>7. K(m + 1)
      BY <3>1, <3>3, <3>4, <3>5, <3>6
    <3> QED
      BY <2>1, <3>7
  <2> QED
    BY <2>3, <2>4
<1>10. T \in SUBSET (0 .. L) /\ L \in 0 .. L
  BY <1>1
<1> HIDE DEF T
<1>11. T = 0 .. L
  <2> HIDE DEF L
  <2> QED
    BY <1>1, <1>8, <1>9, <1>10, UpTo
<1>12. K(L)
  BY <1>10, <1>11 DEF T
<1> QED
  BY <1>6, <1>12 DEF Has

----------------------------------------------------------------------------
(* The operations.                                                         *)

Ready == [addr : Addr, ongoingTranslation : {FALSE}]

Marked(a) == [addr |-> a, ongoingTranslation |-> TRUE]

QueueType == [pfq : Seq(Ready), missing : Seq(DeferredPacket), tlb : SUBSET Addr]

\* What the operations keep of the queues: an address is queued once.
Good(q) ==
  /\ q \in QueueType
  /\ Len(q.pfq) <= QueueSize /\ Len(q.missing) <= QueueSize
  /\ Distinct(q.pfq) /\ Distinct(q.missing)
  /\ \A p, r : Has(q.pfq, p) /\ Has(q.missing, r) => p.addr # r.addr

\* Every request of the TLB has its packet.
Tracks(q) == \A a \in q.tlb : Has(q.missing, Marked(a))

\* The types of the packets.
LEMMA PacketTypes ==
  /\ \A a \in Addr : /\ NewPacket(a) \in Ready /\ NewPacket(a) \in DeferredPacket
                     /\ NewPacket(a).addr = a /\ ~NewPacket(a).ongoingTranslation
                     /\ Marked(a) \in DeferredPacket
  /\ \A a : Marked(a).addr = a /\ Marked(a).ongoingTranslation
  /\ \A p \in DeferredPacket : /\ p.addr \in Addr
                               /\ [p EXCEPT !.ongoingTranslation = TRUE] = Marked(p.addr)
<1>1. \A a \in Addr : /\ NewPacket(a) \in Ready /\ NewPacket(a) \in DeferredPacket
                      /\ NewPacket(a).addr = a /\ ~NewPacket(a).ongoingTranslation
                      /\ Marked(a) \in DeferredPacket
  BY DEF NewPacket, Ready, DeferredPacket, Marked
<1>2. \A a : Marked(a).addr = a /\ Marked(a).ongoingTranslation
  BY DEF Marked
<1>3. \A p \in DeferredPacket : p.addr \in Addr
  BY DEF DeferredPacket
<1>4. \A p \in DeferredPacket : [p EXCEPT !.ongoingTranslation = TRUE] = Marked(p.addr)
  <2>1. ASSUME NEW p \in DeferredPacket, NEW b
        PROVE  [p EXCEPT !.ongoingTranslation = b] = [addr |-> p.addr, ongoingTranslation |-> b]
    BY DEF DeferredPacket
  <2> QED
    BY <2>1, Zenon DEF Marked
<1> QED
  BY <1>1, <1>2, <1>3, <1>4

\* A packet is marked as being translated.
LEMMA MarkIs ==
  ASSUME NEW s \in Seq(DeferredPacket), NEW d \in DeferredPacket
  PROVE  LET t == [i \in DOMAIN s |-> IF s[i] = d THEN [d EXCEPT !.ongoingTranslation = TRUE]
                                      ELSE s[i]]
         IN  /\ t \in Seq(DeferredPacket) /\ Len(t) = Len(s)
             /\ \A y : Has(t, y) => \E p : Has(s, p) /\ p.addr = y.addr
             /\ \A y : Has(s, y) /\ y # d => Has(t, y)
             /\ Has(s, d) => Has(t, Marked(d.addr))
             /\ Distinct(s) => Distinct(t)
<1> DEFINE x == Marked(d.addr)
           t == [i \in DOMAIN s |-> IF s[i] = d THEN [d EXCEPT !.ongoingTranslation = TRUE]
                                    ELSE s[i]]
<1>1. /\ Len(s) \in Nat /\ DOMAIN s = 1 .. Len(s)
      /\ \A i \in 1 .. Len(s) : s[i] \in DeferredPacket
  BY LenProperties, ElementOfSeq
<1>2. [d EXCEPT !.ongoingTranslation = TRUE] = x /\ x \in DeferredPacket /\ x.addr = d.addr
  BY PacketTypes
<1>3. t = [i \in 1 .. Len(s) |-> IF s[i] = d THEN x ELSE s[i]]
  BY <1>1, <1>2
<1>4. t \in [1 .. Len(s) -> DeferredPacket]
  BY <1>1, <1>2, <1>3
<1>5. t \in Seq(DeferredPacket)
  BY <1>1, <1>4, SeqDef
<1>6. \A i \in 1 .. Len(s) : t[i] = IF s[i] = d THEN x ELSE s[i]
  BY <1>3
<1>7. DOMAIN t = 1 .. Len(s)
  BY <1>3
<1> HIDE DEF t
<1>8. Len(t) = Len(s)
  <2>1. Len(t) \in Nat /\ DOMAIN t = 1 .. Len(t)
    BY <1>5, LenProperties
  <2> QED
    BY <1>1, <1>7, <2>1
<1> HIDE DEF x
<1>9. \A i \in 1 .. Len(s) : t[i].addr = s[i].addr
  BY <1>2, <1>6
<1>10. \A y : Has(t, y) => \E p : Has(s, p) /\ p.addr = y.addr
  BY <1>8, <1>9 DEF Has
<1>11. \A y : Has(s, y) /\ y # d => Has(t, y)
  BY <1>6, <1>8 DEF Has
<1>12. Has(s, d) => Has(t, x)
  BY <1>6, <1>8 DEF Has
<1>13. Distinct(s) => Distinct(t)
  BY <1>8, <1>9 DEF Distinct
<1> QED
  BY <1>5, <1>8, <1>10, <1>11, <1>12, <1>13 DEF t, x

\* A translation completes: the packet moves, or goes.
LEMMA CompleteIs ==
  ASSUME NEW q \in QueueType, NEW a \in Addr, NEW outcome
  PROVE  LET c == TranslationComplete(q, a, outcome)
         IN  /\ c \in QueueType
             /\ \A y : Has(c.missing, y) <=> Has(q.missing, y) /\ y.addr # a
             /\ c.pfq = q.pfq \/ c.pfq = addToQueue(q.pfq, NewPacket(a))
             /\ Good(q) /\ (\E p : Has(q.missing, p) /\ p.addr = a) => Good(c)
             /\ Tracks(q) => Tracks(c)
<1> DEFINE c == TranslationComplete(q, a, outcome)
           m == Without(q.missing, a)
           f == IF outcome = "queued" THEN addToQueue(q.pfq, NewPacket(a)) ELSE q.pfq
<1>1. q.pfq \in Seq(Ready) /\ q.missing \in Seq(DeferredPacket) /\ q.tlb \in SUBSET Addr
  BY DEF QueueType
<1>2. /\ m \in Seq(DeferredPacket) /\ Len(m) <= Len(q.missing)
      /\ \A y : Has(m, y) <=> Has(q.missing, y) /\ y.addr # a
      /\ Distinct(q.missing) => Distinct(m)
  BY <1>1, WithoutIs
<1>3. NewPacket(a) \in Ready /\ NewPacket(a).addr = a
  BY PacketTypes
<1>4. /\ f \in Seq(Ready)
      /\ Len(q.pfq) <= QueueSize => Len(f) <= QueueSize
      /\ \A y : Has(f, y) => Has(q.pfq, y) \/ y = NewPacket(a)
      /\ Distinct(q.pfq) /\ (\A p : Has(q.pfq, p) => p.addr # a) => Distinct(f)
  BY <1>1, <1>3, AddIs
<1> HIDE DEF m, f
<1>5. c.pfq = f /\ c.missing = m /\ c.tlb = q.tlb \ {a} /\ c \in QueueType
  <2>1. c = [q EXCEPT !.pfq = f, !.missing = m, !.tlb = q.tlb \ {a}]
    BY DEF TranslationComplete, f, m
  <2> HIDE DEF c
  <2>2. c = [pfq |-> f, missing |-> m, tlb |-> q.tlb \ {a}]
    BY <2>1 DEF QueueType
  <2> QED
    BY <1>1, <1>2, <1>4, <2>2 DEF QueueType
<1> HIDE DEF c
<1>6. ASSUME Good(q), NEW p, Has(q.missing, p), p.addr = a
      PROVE  Good(c)
  <2>1. \A r : Has(q.pfq, r) => r.addr # a
    BY <1>6 DEF Good
  <2>2. Distinct(f) /\ Distinct(m) /\ Len(f) <= QueueSize
    BY <1>2, <1>4, <1>6, <2>1 DEF Good
  <2>3. Len(m) <= QueueSize
    <3>1. Len(m) \in Nat /\ Len(q.missing) \in Nat /\ QueueSize \in Nat /\ Len(q.missing) <= QueueSize
      BY <1>1, <1>2, <1>6, LenProperties, QueueAssumption DEF Good
    <3> QED
      BY <1>2, <3>1
  <2>4. \A x, y : Has(f, x) /\ Has(m, y) => x.addr # y.addr
    BY <1>2, <1>3, <1>4, <1>6 DEF Good
  <2> QED
    BY <1>5, <2>2, <2>3, <2>4 DEF Good
<1>7. Tracks(q) => Tracks(c)
  BY <1>2, <1>5, PacketTypes DEF Tracks
<1>8. c.pfq = q.pfq \/ c.pfq = addToQueue(q.pfq, NewPacket(a))
  BY <1>5 DEF f
<1> QED
  BY <1>2, <1>5, <1>6, <1>7, <1>8 DEF c

\* A translation starts, and may complete at once.
LEMMA StartIs ==
  ASSUME NEW q \in QueueType, NEW d \in DeferredPacket, NEW outcome
  PROVE  LET c == StartTranslation(q, d, outcome)
         IN  /\ c \in QueueType
             /\ \A y : Has(q.missing, y) /\ y.addr # d.addr => Has(c.missing, y)
             /\ \A y : Has(c.missing, y) => \E p : Has(q.missing, p) /\ p.addr = y.addr
             /\ c.pfq = q.pfq \/ c.pfq = addToQueue(q.pfq, NewPacket(d.addr))
             /\ Good(q) /\ Has(q.missing, d) => Good(c)
             /\ Tracks(q) /\ Has(q.missing, d) => Tracks(c)
<1> DEFINE c == StartTranslation(q, d, outcome)
<1>1. q.pfq \in Seq(Ready) /\ q.missing \in Seq(DeferredPacket) /\ q.tlb \in SUBSET Addr
  BY DEF QueueType
<1>2. d.addr \in Addr
  BY PacketTypes
<1>3. CASE d.ongoingTranslation
  <2>1. c = q
    BY <1>3 DEF StartTranslation
  <2> QED
    BY <2>1
<1>4. CASE ~d.ongoingTranslation /\ outcome # "delayed"
  <2>1. c = TranslationComplete(q, d.addr, outcome)
    BY <1>4 DEF StartTranslation
  <2> HIDE DEF c
  <2>2. /\ c \in QueueType
        /\ \A y : Has(c.missing, y) <=> Has(q.missing, y) /\ y.addr # d.addr
        /\ c.pfq = q.pfq \/ c.pfq = addToQueue(q.pfq, NewPacket(d.addr))
        /\ Good(q) /\ (\E p : Has(q.missing, p) /\ p.addr = d.addr) => Good(c)
        /\ Tracks(q) => Tracks(c)
    BY <1>2, <2>1, CompleteIs
  <2> QED
    BY <2>2 DEF c
<1>5. CASE ~d.ongoingTranslation /\ outcome = "delayed"
  <2> DEFINE m == [i \in DOMAIN q.missing |->
                     IF q.missing[i] = d THEN [d EXCEPT !.ongoingTranslation = TRUE]
                     ELSE q.missing[i]]
             w == q.tlb \cup {d.addr}
  <2>1. c = [q EXCEPT !.missing = m, !.tlb = w]
    BY <1>5 DEF StartTranslation
  <2>2. /\ m \in Seq(DeferredPacket) /\ Len(m) = Len(q.missing)
        /\ \A y : Has(m, y) => \E p : Has(q.missing, p) /\ p.addr = y.addr
        /\ \A y : Has(q.missing, y) /\ y # d => Has(m, y)
        /\ Has(q.missing, d) => Has(m, Marked(d.addr))
        /\ Distinct(q.missing) => Distinct(m)
    BY <1>1, MarkIs
  <2>3. w \in SUBSET Addr
    BY <1>1, <1>2
  <2> HIDE DEF c, m
  <2>4. c.pfq = q.pfq /\ c.missing = m /\ c.tlb = w /\ c \in QueueType
    <3> HIDE DEF w
    <3>1. c = [pfq |-> q.pfq, missing |-> m, tlb |-> w]
      BY <2>1 DEF QueueType
    <3> QED
      BY <1>1, <2>2, <2>3, <3>1 DEF QueueType
  <2>5. Good(q) => Good(c)
    <3> SUFFICES ASSUME Good(q) PROVE Good(c)
      OBVIOUS
    <3>1. \A x, y : Has(q.pfq, x) /\ Has(m, y) => x.addr # y.addr
      BY <2>2 DEF Good
    <3> QED
      BY <2>2, <2>4, <3>1 DEF Good
  <2>6. ASSUME Tracks(q), Has(q.missing, d)
        PROVE  Tracks(c)
    <3>1. \A a : Marked(a) # d
      BY <1>5, PacketTypes
    <3> QED
      BY <2>2, <2>4, <2>6, <3>1 DEF Tracks
  <2> QED
    BY <2>2, <2>4, <2>5, <2>6 DEF c
<1> QED
  BY <1>3, <1>4, <1>5

\* The packets of s are the first ones of t.
Keeps(s, t) == Len(s) <= Len(t) /\ \A i \in 1 .. Len(s) : t[i] = s[i]

\* A packet is added behind the others unless the queue is full.
LEMMA KeepsAdd ==
  ASSUME NEW P, NEW s \in Seq(P), NEW t \in Seq(P), NEW x \in P,
         Keeps(s, t), Len(t) # QueueSize
  PROVE  Keeps(s, addToQueue(t, x)) /\ Len(addToQueue(t, x)) = Len(t) + 1
<1> DEFINE u == Append(t, x)
<1>1. addToQueue(t, x) = u
  BY DEF addToQueue
<1>2. Len(u) = Len(t) + 1 /\ \A i \in 1 .. Len(t) : u[i] = t[i]
  BY AppendProperties
<1>3. Len(s) \in Nat /\ Len(t) \in Nat
  BY LenProperties
<1> HIDE DEF u
<1>4. Keeps(s, u)
  BY <1>2, <1>3 DEF Keeps
<1> QED
  BY <1>1, <1>2, <1>4

\* The translations of the first max packets start.  Packets that complete at
\* once find room in pfq when it has room for max more.
LEMMA ProcessIs ==
  ASSUME NEW q, Good(q), NEW max \in Nat, NEW outcome
  PROVE  LET c == processMissingTranslations(q, max, outcome)
         IN  /\ Good(c)
             /\ Tracks(q) => Tracks(c)
             /\ \A y : Has(c.missing, y) => \E p : Has(q.missing, p) /\ p.addr = y.addr
             /\ Len(q.pfq) + max <= QueueSize => Keeps(q.pfq, c.pfq)
<1> DEFINE L == Len(q.missing)
           d(n) == q.missing[n]
           Step(n, r) == IF n > max THEN r
                         ELSE StartTranslation(r, q.missing[n], outcome[q.missing[n].addr])
           F == [n \in 1 .. L |-> [r \in QueueType |-> Step(n, r)]]
           IsAfter(f) == f = [n \in 0 .. L |->
                               IF n = 0 THEN q
                               ELSE IF n > max THEN f[n - 1]
                                    ELSE StartTranslation(f[n - 1], q.missing[n],
                                                          outcome[q.missing[n].addr])]
           after == CHOOSE f : IsAfter(f)
<1>1. /\ q \in QueueType /\ q.pfq \in Seq(Ready) /\ q.missing \in Seq(DeferredPacket)
      /\ L \in Nat /\ \A n \in 1 .. L : d(n) \in DeferredPacket /\ d(n).addr \in Addr
  <2>1. q \in QueueType /\ q.pfq \in Seq(Ready) /\ q.missing \in Seq(DeferredPacket)
    BY DEF Good, QueueType
  <2> QED
    BY <2>1, LenProperties, ElementOfSeq, PacketTypes
<1>2. F \in [1 .. L -> [QueueType -> QueueType]]
  <2>1. ASSUME NEW n \in 1 .. L, NEW r \in QueueType
        PROVE  Step(n, r) \in QueueType
    <3>1. StartTranslation(r, q.missing[n], outcome[q.missing[n].addr]) \in QueueType
      BY <1>1, StartIs
    <3> QED
      BY <3>1
  <2> HIDE DEF Step
  <2> QED
    BY <2>1
<1>3. PICK f \in [0 .. L -> QueueType] : f[0] = q /\ \A m \in 1 .. L : f[m] = F[m][f[m - 1]]
  <2> HIDE DEF F, L
  <2>2. HasRun(L, QueueType, F, q)
    BY <1>1, <1>2, LoopExists
  <2> QED
    BY <2>2 DEF HasRun
<1>4. IsAfter(f)
  <2>1. ASSUME NEW n \in 0 .. L
        PROVE  f[n] = IF n = 0 THEN q ELSE Step(n, f[n - 1])
    <3>1. CASE n = 0
      BY <1>3, <3>1
    <3>2. CASE n # 0
      <4>1. n \in 1 .. L /\ f[n - 1] \in QueueType
        BY <1>1, <3>2
      <4>2. f[n] = F[n][f[n - 1]]
        BY <1>3, <4>1
      <4>3. F[n][f[n - 1]] = Step(n, f[n - 1])
        <5> HIDE DEF Step
        <5> QED
          BY <4>1
      <4> QED
        BY <3>2, <4>2, <4>3
    <3> QED
      BY <3>1, <3>2
  <2>2. f = [n \in 0 .. L |-> f[n]]
    OBVIOUS
  <2> HIDE DEF F, L
  <2> QED
    BY <2>1, <2>2
<1>5. IsAfter(after)
  BY <1>4
<1>6. processMissingTranslations(q, max, outcome) = after[L]
  BY DEF processMissingTranslations
<1> HIDE DEF after, F
<1>7. ASSUME NEW n \in 0 .. L
      PROVE  after[n] = IF n = 0 THEN q ELSE Step(n, after[n - 1])
  BY <1>5
<1> HIDE DEF IsAfter
<1> DEFINE K(n) ==
             /\ Good(after[n])
             /\ Tracks(q) => Tracks(after[n])
             /\ \A m \in 1 .. L : m > n => Has(after[n].missing, d(m))
             /\ \A y : Has(after[n].missing, y) => \E p : Has(q.missing, p) /\ p.addr = y.addr
             /\ Len(q.pfq) + max <= QueueSize =>
                  /\ Keeps(q.pfq, after[n].pfq)
                  /\ n <= max => Len(after[n].pfq) <= Len(q.pfq) + n
           T == {n \in 0 .. L : K(n)}
<1>8. 0 \in T
  <2>1. after[0] = q /\ 0 \in 0 .. L
    BY <1>1, <1>7
  <2>2. \A m \in 1 .. L : Has(q.missing, d(m))
    BY DEF Has
  <2>3. Len(q.pfq) \in Nat
    BY <1>1, LenProperties
  <2>4. Keeps(q.pfq, q.pfq) /\ Len(q.pfq) <= Len(q.pfq) + 0
    BY <2>3 DEF Keeps
  <2>5. K(0)
    BY <2>1, <2>2, <2>4
  <2> QED
    BY <2>1, <2>5
<1>9. ASSUME NEW n \in 0 .. L - 1, n \in T
      PROVE  n + 1 \in T
  <2> DEFINE r == after[n]
             c == after[n + 1]
             e == d(n + 1)
  <2>1. /\ n + 1 \in 0 .. L /\ n + 1 # 0 /\ (n + 1) - 1 = n /\ n + 1 \in 1 .. L
        /\ \A m \in 1 .. L : m > n + 1 => m > n /\ m # n + 1
        /\ n + 1 > n
    BY <1>1
  <2>2. K(n)
    BY <1>9
  <2>3. CASE n + 1 > max
    <3>1. c = r /\ ~(n + 1 <= max)
      BY <1>7, <2>1, <2>3
    <3>2. K(n + 1)
      BY <2>1, <2>2, <3>1
    <3> QED
      BY <2>1, <3>2
  <2>4. CASE ~(n + 1 > max)
    <3>1. c = StartTranslation(r, e, outcome[e.addr])
      BY <1>7, <2>1, <2>4
    <3>2. r \in QueueType /\ r.pfq \in Seq(Ready) /\ e \in DeferredPacket /\ e.addr \in Addr /\ Has(r.missing, e)
      BY <1>1, <2>1, <2>2 DEF Good, QueueType
    <3> HIDE DEF r, c, e, K
    <3>3. /\ c \in QueueType
          /\ \A y : Has(r.missing, y) /\ y.addr # e.addr => Has(c.missing, y)
          /\ \A y : Has(c.missing, y) => \E p : Has(r.missing, p) /\ p.addr = y.addr
          /\ c.pfq = r.pfq \/ c.pfq = addToQueue(r.pfq, NewPacket(e.addr))
          /\ Good(r) /\ Has(r.missing, e) => Good(c)
          /\ Tracks(r) /\ Has(r.missing, e) => Tracks(c)
      BY <3>1, <3>2, StartIs
    <3>4. Good(c) /\ (Tracks(q) => Tracks(c))
      BY <2>2, <3>2, <3>3 DEF K, r
    <3>5. ASSUME NEW m \in 1 .. L, m > n + 1
          PROVE  Has(c.missing, d(m))
      <4>1. d(m).addr # e.addr
        BY <2>1, <3>5 DEF Good, Distinct, e
      <4>2. Has(r.missing, d(m))
        BY <2>1, <2>2, <3>5 DEF K, r
      <4> QED
        BY <3>3, <4>1, <4>2
    <3>6. ASSUME NEW y, Has(c.missing, y)
          PROVE  \E p : Has(q.missing, p) /\ p.addr = y.addr
      <4>1. PICK z : Has(r.missing, z) /\ z.addr = y.addr
        BY <3>3, <3>6
      <4>2. PICK p : Has(q.missing, p) /\ p.addr = z.addr
        BY <2>2, <4>1 DEF K, r
      <4> QED
        BY <4>1, <4>2
    <3>7. ASSUME Len(q.pfq) + max <= QueueSize
          PROVE  Keeps(q.pfq, c.pfq) /\ Len(c.pfq) <= Len(q.pfq) + (n + 1)
      <4>1. /\ Len(q.pfq) \in Nat /\ Len(r.pfq) \in Nat /\ QueueSize \in Nat /\ L \in Nat
            /\ n <= max
        BY <1>1, <2>4, <3>2, LenProperties, QueueAssumption
      <4>2. Keeps(q.pfq, r.pfq) /\ Len(r.pfq) <= Len(q.pfq) + n
        BY <2>2, <3>7, <4>1 DEF K, r
      <4>3. Len(r.pfq) # QueueSize
        BY <2>4, <3>7, <4>1, <4>2
      <4>4. NewPacket(e.addr) \in Ready
        BY <3>2, PacketTypes
      <4>5. /\ Keeps(q.pfq, addToQueue(r.pfq, NewPacket(e.addr)))
            /\ Len(addToQueue(r.pfq, NewPacket(e.addr))) = Len(r.pfq) + 1
        BY <1>1, <3>2, <4>2, <4>3, <4>4, KeepsAdd
      <4>6. n \in Nat
        BY <4>1
      <4>7. Len(r.pfq) <= Len(q.pfq) + (n + 1) /\ Len(r.pfq) + 1 <= Len(q.pfq) + (n + 1)
        <5>1. \A x, y, k \in Nat : x <= y + k => x <= y + (k + 1) /\ x + 1 <= y + (k + 1)
          OBVIOUS
        <5> QED
          BY <4>1, <4>2, <4>6, <5>1
      <4>8. CASE c.pfq = r.pfq
        BY <4>2, <4>7, <4>8
      <4>9. CASE c.pfq = addToQueue(r.pfq, NewPacket(e.addr))
        BY <4>5, <4>7, <4>9
      <4> QED
        BY <3>3, <4>8, <4>9
    <3>8. K(n + 1)
      BY <3>4, <3>5, <3>6, <3>7 DEF K, c
    <3> QED
      BY <2>1, <3>8
  <2> QED
    BY <2>3, <2>4
<1>10. T \in SUBSET (0 .. L) /\ L \in 0 .. L
  BY <1>1
<1> HIDE DEF T
<1>11. T = 0 .. L
  <2> HIDE DEF L
  <2> QED
    BY <1>1, <1>8, <1>9, <1>10, UpTo
<1>12. K(L)
  BY <1>10, <1>11 DEF T
<1> QED
  BY <1>6, <1>12

----------------------------------------------------------------------------
(* Which packets wait for a translation.                                   *)

\* The targets that lie in another page than an access; without a TLB notify
\* skips them.
Crossing == {a \in Addr : HasTLB /\ \E orig \in Demand : ~SamePage(orig, a)}

\* pfqMissingTranslation has room for all of them.
Fits == IsFiniteSet(Crossing) /\ Cardinality(Crossing) <= QueueSize

\* In the default configuration of the EIP, which has no TLB, there are none.
LEMMA FitsWithoutTLB == ~HasTLB => Fits
<1> SUFFICES ASSUME ~HasTLB PROVE Fits
  OBVIOUS
<1>1. Crossing = {}
  BY DEF Crossing
<1>2. IsFiniteSet({}) /\ Cardinality({}) = 0
  BY FS_EmptySet
<1> QED
  BY <1>1, <1>2, QueueAssumption DEF Fits

\* The inductive invariant of the queues.
Sound(q) ==
  /\ Good(q)
  /\ \A p : Has(q.missing, p) => p.addr \in Crossing
  /\ Fits => Tracks(q)

\* There is room for a target that is not in the queue yet.
LEMMA RoomForOneMore ==
  ASSUME Fits, NEW s \in Seq(DeferredPacket), Distinct(s),
         \A p : Has(s, p) => p.addr \in Crossing,
         NEW a \in Crossing, \A p : Has(s, p) => p.addr # a
  PROVE  Len(s) < QueueSize
<1> DEFINE n == Len(s)
           f == [i \in 1 .. n + 1 |-> IF i = n + 1 THEN a ELSE s[i].addr]
<1>1. n \in Nat /\ QueueSize \in Nat
  BY LenProperties, QueueAssumption
<1>2. \A i \in 1 .. n : s[i].addr \in Crossing /\ s[i].addr # a
  BY DEF Has
<1> HIDE DEF n
<1>3. \A i \in 1 .. n + 1 : i # n + 1 => i \in 1 .. n
  BY <1>1
<1>4. f \in [1 .. n + 1 -> Crossing]
  BY <1>2, <1>3
<1>5. ASSUME NEW i \in 1 .. n + 1, NEW j \in 1 .. n + 1, f[i] = f[j]
      PROVE  i = j
  <2>1. CASE i = n + 1 \/ j = n + 1
    BY <1>2, <1>3, <1>5, <2>1
  <2>2. CASE i # n + 1 /\ j # n + 1
    <3>1. i \in 1 .. n /\ j \in 1 .. n /\ s[i].addr = s[j].addr
      BY <1>3, <1>5, <2>2
    <3> QED
      BY <3>1 DEF Distinct, n
  <2> QED
    BY <2>1, <2>2
<1>6. f \in Injection(1 .. n + 1, Crossing)
  BY <1>4, <1>5 DEF Injection, IsInjective
<1> HIDE DEF f
<1>7. Cardinality(1 .. n + 1) <= Cardinality(Crossing)
  BY <1>6, FS_Injection DEF Fits
<1>8. Cardinality(1 .. n + 1) = n + 1
  <2>1. 1 \in Int /\ n + 1 \in Int /\ ~(1 > n + 1) /\ (n + 1) - 1 + 1 = n + 1
    BY <1>1
  <2> QED
    BY <2>1, FS_Interval
<1>9. Cardinality(Crossing) \in Nat /\ Cardinality(Crossing) <= QueueSize
  BY FS_CardinalityType DEF Fits
<1> QED
  BY <1>1, <1>7, <1>8, <1>9 DEF n

\* A candidate is inserted.
LEMMA InsertIs ==
  ASSUME NEW q \in QueueType, NEW orig \in Demand, NEW a \in Addr,
         NEW hasContext, NEW redundant, HasTLB \/ SamePage(a, orig)
  PROVE  LET c == Insert(q, orig, a, hasContext, redundant)
         IN  c \in QueueType /\ (Sound(q) => Sound(c))
<1> DEFINE c == Insert(q, orig, a, hasContext, redundant)
           x == NewPacket(a)
<1>1. q.pfq \in Seq(Ready) /\ q.missing \in Seq(DeferredPacket) /\ q.tlb \in SUBSET Addr
  BY DEF QueueType
<1>2. x \in Ready /\ x \in DeferredPacket /\ x.addr = a
  BY PacketTypes
<1>3. ~Filtered(q, a) => /\ \A p : Has(q.pfq, p) => p.addr # a
                         /\ \A p : Has(q.missing, p) => p.addr # a
  BY AddrsHas DEF Filtered, alreadyInQueue
<1>4. CASE c = q
  BY <1>4
<1>5. CASE ~Filtered(q, a) /\ SamePage(orig, a) /\ c # q
  <2> DEFINE f == addToQueue(q.pfq, x)
  <2>1. c = [q EXCEPT !.pfq = f]
    BY <1>5 DEF Insert
  <2> HIDE DEF x
  <2>2. /\ f \in Seq(Ready)
        /\ Len(q.pfq) <= QueueSize => Len(f) <= QueueSize
        /\ \A y : Has(f, y) => Has(q.pfq, y) \/ y = x
        /\ Distinct(q.pfq) /\ (\A p : Has(q.pfq, p) => p.addr # x.addr) => Distinct(f)
    BY <1>1, <1>2, AddIs
  <2> HIDE DEF f, c
  <2>3. c.pfq = f /\ c.missing = q.missing /\ c.tlb = q.tlb /\ c \in QueueType
    <3>1. c = [pfq |-> f, missing |-> q.missing, tlb |-> q.tlb]
      BY <2>1 DEF QueueType
    <3> QED
      BY <1>1, <2>2, <3>1 DEF QueueType
  <2>4. ASSUME Sound(q)
        PROVE  Sound(c)
    <3>1. Good(q)
      BY <2>4 DEF Sound
    <3>2. Distinct(f) /\ Len(f) <= QueueSize
      BY <1>2, <1>3, <1>5, <2>2, <3>1 DEF Good
    <3>3. \A y, z : Has(f, y) /\ Has(q.missing, z) => y.addr # z.addr
      BY <1>2, <1>3, <1>5, <2>2, <3>1 DEF Good
    <3>4. Good(c)
      BY <2>3, <3>1, <3>2, <3>3 DEF Good
    <3> QED
      BY <2>3, <2>4, <3>4 DEF Sound, Tracks
  <2> QED
    BY <2>3, <2>4 DEF c
<1>6. CASE ~Filtered(q, a) /\ ~SamePage(orig, a) /\ c # q
  <2> DEFINE m == addToQueue(q.missing, x)
  <2>1. c = [q EXCEPT !.missing = m]
    BY <1>6 DEF Insert
  <2> HIDE DEF x
  <2>2. /\ m \in Seq(DeferredPacket)
        /\ Len(q.missing) <= QueueSize => Len(m) <= QueueSize
        /\ \A y : Has(m, y) => Has(q.missing, y) \/ y = x
        /\ Len(q.missing) # QueueSize => \A y : Has(q.missing, y) => Has(m, y)
        /\ Distinct(q.missing) /\ (\A p : Has(q.missing, p) => p.addr # x.addr) => Distinct(m)
    BY <1>1, <1>2, AddIs
  <2> HIDE DEF m, c
  <2>3. c.pfq = q.pfq /\ c.missing = m /\ c.tlb = q.tlb /\ c \in QueueType
    <3>1. c = [pfq |-> q.pfq, missing |-> m, tlb |-> q.tlb]
      BY <2>1 DEF QueueType
    <3> QED
      BY <1>1, <2>2, <3>1 DEF QueueType
  <2>4. ASSUME Sound(q)
        PROVE  Sound(c)
    <3>1. Good(q) /\ \A p : Has(q.missing, p) => p.addr \in Crossing
      BY <2>4 DEF Sound
    <3>2. Distinct(m) /\ Len(m) <= QueueSize
      BY <1>2, <1>3, <1>6, <2>2, <3>1 DEF Good
    <3>3. \A y, z : Has(q.pfq, y) /\ Has(m, z) => y.addr # z.addr
      BY <1>2, <1>3, <1>6, <2>2, <3>1 DEF Good
    <3>4. Good(c)
      BY <2>3, <3>1, <3>2, <3>3 DEF Good
    <3>5. a \in Crossing
      BY <1>6 DEF Crossing, SamePage
    <3>6. \A p : Has(m, p) => p.addr \in Crossing
      BY <1>2, <2>2, <3>1, <3>5
    <3>7. ASSUME Fits
          PROVE  Tracks(c)
      <4>1. Distinct(q.missing) /\ \A p : Has(q.missing, p) => p.addr # a
        BY <1>3, <1>6, <3>1 DEF Good
      <4>2. Len(q.missing) < QueueSize
        BY <1>1, <3>1, <3>5, <3>7, <4>1, RoomForOneMore
      <4>3. Len(q.missing) \in Nat /\ QueueSize \in Nat
        BY <1>1, LenProperties, QueueAssumption
      <4>4. Len(q.missing) # QueueSize
        BY <4>2, <4>3
      <4> QED
        BY <2>2, <2>3, <2>4, <3>7, <4>4 DEF Sound, Tracks
    <3> QED
      BY <2>3, <3>4, <3>6, <3>7 DEF Sound
  <2> QED
    BY <2>3, <2>4 DEF c
<1>7. Filtered(q, a) => c = q
  BY DEF Insert
<1> QED
  BY <1>4, <1>5, <1>6, <1>7

\* The loop of notify.
LEMMA InsertCandidatesIs ==
  ASSUME NEW q, Sound(q), NEW orig \in Demand, NEW candidates \in Seq(Addr),
         NEW max_pfs, NEW hasContext, NEW redundant
  PROVE  Sound(InsertCandidates(q, orig, candidates, max_pfs, hasContext, redundant))
<1> DEFINE L == Len(candidates)
           Q == [queues : QueueType, num_pfs : Nat]
           Step(n, r) == IF r.num_pfs < max_pfs /\ (HasTLB \/ SamePage(candidates[n], orig))
                         THEN [queues  |-> Insert(r.queues, orig, candidates[n], hasContext, redundant),
                               num_pfs |-> r.num_pfs + 1]
                         ELSE r
           z == [queues |-> q, num_pfs |-> 0]
           F == [n \in 1 .. L |-> [r \in Q |-> Step(n, r)]]
           IsAfter(f) == f = [n \in 0 .. L |-> IF n = 0 THEN z ELSE Step(n, f[n - 1])]
           after == CHOOSE f : IsAfter(f)
<1>1. q \in QueueType /\ L \in Nat /\ \A n \in 1 .. L : candidates[n] \in Addr
  BY LenProperties, ElementOfSeq DEF Sound, Good
<1>2. ASSUME NEW n \in 1 .. L, NEW r \in Q
      PROVE  Step(n, r) \in Q /\ (Sound(r.queues) => Sound(Step(n, r).queues))
  <2> DEFINE c == Insert(r.queues, orig, candidates[n], hasContext, redundant)
  <2>1. r.queues \in QueueType /\ r.num_pfs + 1 \in Nat
    OBVIOUS
  <2>2. CASE HasTLB \/ SamePage(candidates[n], orig)
    <3>1. c \in QueueType /\ (Sound(r.queues) => Sound(c))
      BY <1>1, <2>1, <2>2, InsertIs
    <3> HIDE DEF c
    <3>2. Step(n, r) = r \/ Step(n, r) = [queues |-> c, num_pfs |-> r.num_pfs + 1]
      BY DEF c
    <3> HIDE DEF Step
    <3> QED
      BY <2>1, <3>1, <3>2
  <2>3. CASE ~(HasTLB \/ SamePage(candidates[n], orig))
    <3>1. Step(n, r) = r
      BY <2>3
    <3> HIDE DEF Step
    <3> QED
      BY <3>1
  <2> QED
    BY <2>2, <2>3
<1>3. z \in Q
  BY <1>1
<1> HIDE DEF Step, Q, z
<1>4. F \in [1 .. L -> [Q -> Q]]
  BY <1>2
<1>5. PICK f \in [0 .. L -> Q] : f[0] = z /\ \A m \in 1 .. L : f[m] = F[m][f[m - 1]]
  <2> HIDE DEF F, L
  <2>2. HasRun(L, Q, F, z)
    BY <1>1, <1>3, <1>4, LoopExists
  <2> QED
    BY <2>2 DEF HasRun
<1>6. IsAfter(f)
  <2>1. ASSUME NEW n \in 0 .. L
        PROVE  f[n] = IF n = 0 THEN z ELSE Step(n, f[n - 1])
    <3>1. CASE n = 0
      BY <1>5, <3>1
    <3>2. CASE n # 0
      <4>1. n \in 1 .. L /\ f[n - 1] \in Q
        BY <1>1, <3>2
      <4>2. f[n] = F[n][f[n - 1]]
        BY <1>5, <4>1
      <4> QED
        BY <3>2, <4>1, <4>2
    <3> QED
      BY <3>1, <3>2
  <2>2. f = [n \in 0 .. L |-> f[n]]
    OBVIOUS
  <2> HIDE DEF F, L
  <2> QED
    BY <2>1, <2>2
<1>7. IsAfter(after)
  BY <1>6
<1>8. InsertCandidates(q, orig, candidates, max_pfs, hasContext, redundant) = after[L].queues
  BY DEF InsertCandidates, Step, z
<1> HIDE DEF after, F
<1>9. ASSUME NEW n \in 0 .. L
      PROVE  after[n] = IF n = 0 THEN z ELSE Step(n, after[n - 1])
  BY <1>7
<1> HIDE DEF IsAfter
<1> DEFINE T == {n \in 0 .. L : after[n] \in Q /\ Sound(after[n].queues)}
<1>10. 0 \in T
  <2>1. after[0] = z /\ 0 \in 0 .. L
    BY <1>1, <1>9
  <2>2. z.queues = q
    BY DEF z
  <2> QED
    BY <1>3, <2>1, <2>2
<1>11. ASSUME NEW n \in 0 .. L - 1, n \in T
       PROVE  n + 1 \in T
  <2>1. n + 1 \in 0 .. L /\ n + 1 # 0 /\ (n + 1) - 1 = n /\ n + 1 \in 1 .. L
    BY <1>1
  <2>2. after[n] \in Q /\ Sound(after[n].queues)
    BY <1>11
  <2>3. after[n + 1] = Step(n + 1, after[n])
    BY <1>9, <2>1
  <2>4. after[n + 1] \in Q /\ Sound(after[n + 1].queues)
    BY <1>2, <2>1, <2>2, <2>3
  <2> QED
    BY <2>1, <2>4
<1>12. T \in SUBSET (0 .. L) /\ L \in 0 .. L
  BY <1>1
<1> HIDE DEF T
<1>13. T = 0 .. L
  <2> HIDE DEF L
  <2> QED
    BY <1>1, <1>10, <1>11, <1>12, UpTo
<1>14. Sound(after[L].queues)
  BY <1>12, <1>13 DEF T
<1> QED
  BY <1>8, <1>14

----------------------------------------------------------------------------
(* The MSHRs and the write buffer.                                         *)

CacheOK(c) == c \in CacheState /\ Allocated(c) <= NumMshrs

\* The fields of a state of the cache, for the provers' arithmetic.
LEMMA CacheFields ==
  ASSUME NEW c, CacheOK(c)
  PROVE  /\ c = [pending |-> c.pending, sent |-> c.sent,
                 noTargets |-> c.noTargets, writes |-> c.writes]
         /\ c.pending \in Nat /\ c.sent \in Nat
         /\ c.noTargets \in BOOLEAN /\ c.writes \in Nat
         /\ c.writes <= WriteBuffers + NumMshrs
         /\ c.pending + c.sent <= NumMshrs
         /\ NumMshrs \in Nat /\ WriteBuffers \in Nat /\ DemandReserve \in Nat
<1>1. NumMshrs \in Nat /\ WriteBuffers \in Nat /\ DemandReserve \in Nat
  BY QueueAssumption
<1> QED
  BY <1>1 DEF CacheOK, CacheState, Allocated

\* A state of the cache, built field by field.
LEMMA CacheBuilt ==
  ASSUME NEW p \in Nat, NEW s \in Nat, NEW b \in BOOLEAN,
         NEW w \in 0 .. WriteBuffers + NumMshrs, p + s <= NumMshrs
  PROVE  LET c == [pending |-> p, sent |-> s, noTargets |-> b, writes |-> w]
         IN  CacheOK(c) /\ c.pending = p /\ c.sent = s /\ c.writes = w
  BY DEF CacheOK, CacheState, Allocated

\* An access that is not refused finds the MSHR it needs.
LEMMA AccessKeeps ==
  ASSUME NEW c, CacheOK(c), ~IsBlocked(c), NEW d \in AccessOutcomes(c)
  PROVE  CacheOK(d) /\ d.writes = c.writes /\ (d = Missed(c) \/ d.pending = c.pending)
<1>1. /\ c = [pending |-> c.pending, sent |-> c.sent,
              noTargets |-> c.noTargets, writes |-> c.writes]
      /\ c.pending \in Nat /\ c.sent \in Nat
      /\ c.noTargets \in BOOLEAN /\ c.writes \in Nat
      /\ c.writes <= WriteBuffers + NumMshrs
      /\ c.pending + c.sent <= NumMshrs
      /\ NumMshrs \in Nat /\ WriteBuffers \in Nat
  BY CacheFields
<1>2. c.pending + 1 + c.sent <= NumMshrs /\ c.pending + 1 \in Nat
  BY <1>1 DEF IsBlocked, Allocated
<1>3. c.writes \in 0 .. WriteBuffers + NumMshrs
  BY <1>1
<1>4. CASE d = c
  BY <1>4
<1>5. CASE d = Missed(c)
  <2>1. d = [pending |-> c.pending + 1, sent |-> c.sent,
             noTargets |-> c.noTargets, writes |-> c.writes]
    BY <1>1, <1>5 DEF Missed
  <2> QED
    BY <1>1, <1>2, <1>3, <1>5, <2>1, CacheBuilt
<1>6. CASE d \in Coalesced(c)
  <2>1. PICK full \in BOOLEAN : d = [c EXCEPT !.noTargets = full]
    BY <1>6 DEF Coalesced
  <2>2. d = [pending |-> c.pending, sent |-> c.sent,
             noTargets |-> full, writes |-> c.writes]
    BY <1>1, <2>1
  <2> QED
    BY <1>1, <1>3, <2>2, CacheBuilt
<1> QED
  BY <1>4, <1>5, <1>6 DEF AccessOutcomes

\* canPrefetch leaves an MSHR for the prefetch.
LEMMA IssueKeeps ==
  ASSUME NEW c, CacheOK(c), MayPrefetch(c), NEW d \in IssueOutcomes(c)
  PROVE  CacheOK(d)
<1>1. /\ c = [pending |-> c.pending, sent |-> c.sent,
              noTargets |-> c.noTargets, writes |-> c.writes]
      /\ c.pending \in Nat /\ c.sent \in Nat
      /\ c.noTargets \in BOOLEAN /\ c.writes \in 0 .. WriteBuffers + NumMshrs
      /\ NumMshrs \in Nat /\ DemandReserve \in Nat
  BY CacheFields
<1>2. /\ c.pending + 1 + c.sent <= NumMshrs
      /\ c.pending + (c.sent + 1) <= NumMshrs
  BY <1>1 DEF MayPrefetch, CanPrefetch, Allocated
<1>3. \/ d = c
      \/ d = [pending |-> c.pending, sent |-> c.sent + 1,
              noTargets |-> c.noTargets, writes |-> c.writes]
      \/ d = [pending |-> c.pending + 1, sent |-> c.sent,
              noTargets |-> c.noTargets, writes |-> c.writes]
  BY <1>1 DEF IssueOutcomes
<1>4. c.pending + 1 \in Nat /\ c.sent + 1 \in Nat
  BY <1>1
<1> QED
  BY <1>1, <1>2, <1>3, <1>4, CacheBuilt

\* A response frees its MSHR or makes it be sent again.
LEMMA ResponseKeeps ==
  ASSUME NEW c, CacheOK(c), NEW d,
         c.sent > 0, d \in Promoted(c) \cup Deallocated(c),
         NEW n \in Evictions(c)
  PROVE  /\ CacheOK(WriteBack(d, n))
         /\ WriteBack(d, n).pending = d.pending
         /\ WriteBack(d, n).writes = c.writes + n
         /\ d \in Deallocated(c) => d.pending = c.pending
<1>1. /\ c = [pending |-> c.pending, sent |-> c.sent,
              noTargets |-> c.noTargets, writes |-> c.writes]
      /\ c.pending \in Nat /\ c.sent \in Nat
      /\ c.noTargets \in BOOLEAN /\ c.writes \in Nat
      /\ c.pending + c.sent <= NumMshrs
      /\ NumMshrs \in Nat /\ WriteBuffers \in Nat
  BY CacheFields
<1>2. n \in Nat /\ c.writes + n \in 0 .. WriteBuffers + NumMshrs
  BY <1>1 DEF Evictions
<1>3. NoTargetsLeft(c) \subseteq BOOLEAN
  BY DEF NoTargetsLeft
<1>4. ASSUME d \in Promoted(c)
      PROVE  \E full \in BOOLEAN :
               d = [pending |-> c.pending + 1, sent |-> c.sent - 1,
                    noTargets |-> full, writes |-> c.writes]
  BY <1>1, <1>3, <1>4 DEF Promoted
<1>5. ASSUME d \in Deallocated(c)
      PROVE  \E full \in BOOLEAN :
               d = [pending |-> c.pending, sent |-> c.sent - 1,
                    noTargets |-> full, writes |-> c.writes]
  BY <1>1, <1>3, <1>5 DEF Deallocated
<1>6. d \in Deallocated(c) => d.pending = c.pending
  BY <1>5
<1>7. CASE d \in Promoted(c)
  <2>1. PICK full \in BOOLEAN :
          d = [pending |-> c.pending + 1, sent |-> c.sent - 1,
               noTargets |-> full, writes |-> c.writes]
    BY <1>4, <1>7
  <2>2. WriteBack(d, n) =
          [pending |-> c.pending + 1, sent |-> c.sent - 1,
           noTargets |-> full, writes |-> c.writes + n]
    BY <2>1 DEF WriteBack
  <2>3. /\ c.pending + 1 \in Nat /\ c.sent - 1 \in Nat
        /\ (c.pending + 1) + (c.sent - 1) <= NumMshrs
    BY <1>1
  <2> QED
    BY <1>1, <1>2, <1>6, <2>1, <2>2, <2>3, CacheBuilt
<1>8. CASE d \in Deallocated(c)
  <2>1. PICK full \in BOOLEAN :
          d = [pending |-> c.pending, sent |-> c.sent - 1,
               noTargets |-> full, writes |-> c.writes]
    BY <1>5, <1>8
  <2>2. WriteBack(d, n) =
          [pending |-> c.pending, sent |-> c.sent - 1,
           noTargets |-> full, writes |-> c.writes + n]
    BY <2>1 DEF WriteBack
  <2>3. /\ c.sent - 1 \in Nat
        /\ c.pending + (c.sent - 1) <= NumMshrs
    BY <1>1
  <2> QED
    BY <1>1, <1>2, <1>6, <2>1, <2>2, <2>3, CacheBuilt
<1> QED
  BY <1>7, <1>8

----------------------------------------------------------------------------
(* The actions.                                                            *)

\* What the actions keep of the cache and its send event.
CacheInv ==
  /\ issued \in BOOLEAN /\ sendEvent \in BOOLEAN /\ halted \in BOOLEAN
  /\ CacheOK(cache)
  /\ SendScheduled

IInv == Sound(Queues) /\ CacheInv

\* SetQueues is the next value of Queues.
LEMMA QueuesAre ==
  ASSUME NEW q, SetQueues(q), q \in QueueType
  PROVE  Queues' = q
  BY DEF SetQueues, Queues, QueueType

\* The packets the squash of notify leaves.
LEMMA SquashIs ==
  ASSUME NEW q, Sound(q), NEW a
  PROVE  Sound([q EXCEPT !.pfq = Without(@, a)])
<1> DEFINE f == Without(q.pfq, a)
           c == [q EXCEPT !.pfq = f]
<1>1. /\ Good(q) /\ q \in QueueType
      /\ q.pfq \in Seq(Ready) /\ q.missing \in Seq(DeferredPacket) /\ q.tlb \in SUBSET Addr
  BY DEF Sound, Good, QueueType
<1>2. /\ f \in Seq(Ready) /\ Len(f) <= Len(q.pfq)
      /\ \A y : Has(f, y) <=> Has(q.pfq, y) /\ y.addr # a
      /\ Distinct(q.pfq) => Distinct(f)
  BY <1>1, WithoutIs
<1> HIDE DEF f
<1>3. c.pfq = f /\ c.missing = q.missing /\ c.tlb = q.tlb /\ c \in QueueType
  <2>1. c = [pfq |-> f, missing |-> q.missing, tlb |-> q.tlb]
    BY <1>1 DEF QueueType
  <2> QED
    BY <1>1, <1>2, <2>1 DEF QueueType
<1> HIDE DEF c
<1>4. Len(f) <= QueueSize
  <2>1. Len(f) \in Nat /\ Len(q.pfq) \in Nat /\ QueueSize \in Nat /\ Len(q.pfq) <= QueueSize
    BY <1>1, <1>2, LenProperties, QueueAssumption DEF Good
  <2> QED
    BY <1>2, <2>1
<1>5. Good(c)
  BY <1>1, <1>2, <1>3, <1>4 DEF Good
<1>6. Sound(c)
  BY <1>3, <1>5 DEF Sound, Tracks
<1> QED
  BY <1>6 DEF c, f

\* The packets getPacket leaves when it takes the oldest.
LEMMA TakeIs ==
  ASSUME NEW q, Sound(q), q.pfq # << >>
  PROVE  LET c == [q EXCEPT !.pfq = Tail(q.pfq)]
         IN  Sound(c) /\ c.pfq = Tail(q.pfq) /\ Len(Tail(q.pfq)) \in 0 .. QueueSize
<1> DEFINE f == Tail(q.pfq)
           c == [q EXCEPT !.pfq = f]
<1>1. /\ Good(q) /\ q \in QueueType
      /\ q.pfq \in Seq(Ready) /\ q.missing \in Seq(DeferredPacket) /\ q.tlb \in SUBSET Addr
  BY DEF Sound, Good, QueueType
<1>2. /\ f \in Seq(Ready) /\ Len(f) = Len(q.pfq) - 1
      /\ \A y : Has(f, y) => Has(q.pfq, y)
      /\ Distinct(q.pfq) => Distinct(f)
  BY <1>1, TailHas
<1> HIDE DEF f
<1>3. c.pfq = f /\ c.missing = q.missing /\ c.tlb = q.tlb /\ c \in QueueType
  <2>1. c = [pfq |-> f, missing |-> q.missing, tlb |-> q.tlb]
    BY <1>1 DEF QueueType
  <2> QED
    BY <1>1, <1>2, <2>1 DEF QueueType
<1> HIDE DEF c
<1>4. Len(f) <= QueueSize /\ Len(f) \in 0 .. QueueSize
  <2>1. Len(f) \in Nat /\ Len(q.pfq) \in Nat /\ QueueSize \in Nat /\ Len(q.pfq) <= QueueSize
    BY <1>1, <1>2, LenProperties, QueueAssumption DEF Good
  <2> QED
    BY <1>2, <2>1
<1>5. Good(c)
  BY <1>1, <1>2, <1>3, <1>4 DEF Good
<1>6. Sound(c)
  BY <1>3, <1>5 DEF Sound, Tracks
<1> QED
  BY <1>3, <1>4, <1>6 DEF c, f

\* The loop over the missing translations keeps the queues sound.
LEMMA ProcessSound ==
  ASSUME NEW q, Sound(q), NEW max \in Nat, NEW outcome
  PROVE  LET c == processMissingTranslations(q, max, outcome)
         IN  Sound(c) /\ (Len(q.pfq) + max <= QueueSize => Keeps(q.pfq, c.pfq))
<1> DEFINE c == processMissingTranslations(q, max, outcome)
<1>1. Good(q)
  BY DEF Sound
<1>2. /\ Good(c)
      /\ Tracks(q) => Tracks(c)
      /\ \A y : Has(c.missing, y) => \E p : Has(q.missing, p) /\ p.addr = y.addr
      /\ Len(q.pfq) + max <= QueueSize => Keeps(q.pfq, c.pfq)
  BY <1>1, ProcessIs
<1> HIDE DEF c
<1>3. \A y : Has(c.missing, y) => y.addr \in Crossing
  BY <1>2 DEF Sound
<1>4. Sound(c)
  BY <1>2, <1>3 DEF Sound
<1> QED
  BY <1>2, <1>4 DEF c

\* Sound queues have their type.
LEMMA SoundType ==
  ASSUME NEW q, Sound(q)
  PROVE  q \in QueueType
  BY DEF Sound, Good

\* An access that leaves sound queues keeps the invariant.
LEMMA AccessIs ==
  ASSUME IInv, NEW q, Sound(q), RecvTimingReq(q)
  PROVE  IInv' /\ (NextReady(q) => sendEvent')
<1>1. /\ ~IsBlocked(cache) /\ cache' \in AccessOutcomes(cache) /\ SetQueues(q)
      /\ sendEvent' = (sendEvent \/ cache' = Missed(cache) \/ NextReady(q))
      /\ issued' = issued /\ halted' = halted
  BY DEF RecvTimingReq
<1>2. CacheOK(cache) /\ SendScheduled /\ issued \in BOOLEAN /\ halted \in BOOLEAN
  BY DEF IInv, CacheInv
<1>3. /\ CacheOK(cache') /\ cache'.writes = cache.writes
      /\ cache' = Missed(cache) \/ cache'.pending = cache.pending
  BY <1>1, <1>2, AccessKeeps
<1>4. Queues' = q
  BY <1>1, QueuesAre, SoundType
<1>5. cache'.pending > 0 \/ cache'.writes > 0 => sendEvent'
  BY <1>1, <1>2, <1>3 DEF SendScheduled
<1>6. sendEvent' \in BOOLEAN
  BY <1>1, Zenon
<1>7. NextReady(q) => sendEvent'
  BY <1>1, Zenon
<1> QED
  BY <1>1, <1>2, <1>3, <1>4, <1>5, <1>6, <1>7 DEF IInv, CacheInv, CacheOK, SendScheduled

\* The queues an access leaves are sound.
LEMMA NotifyIs ==
  ASSUME IInv, SomeNotify
  PROVE  \E q : Sound(q) /\ RecvTimingReq(q)
<1>1. PICK a \in Demand, candidates \in Candidates, hasContext \in BOOLEAN, redundant \in SUBSET Addr :
         Notify(a, candidates, hasContext, redundant)
  BY DEF SomeNotify
<1>2. candidates \in Seq(Addr)
  <2>1. PICK n \in 0 .. MaxCandidates : candidates \in [1 .. n -> Addr]
    BY DEF Candidates
  <2>2. n \in Nat
    OBVIOUS
  <2> QED
    BY <2>1, <2>2, SeqDef
<1> DEFINE s == [Queues EXCEPT !.pfq = Without(@, a)]
           q(max) == InsertCandidates(s, a, candidates, max, hasContext, redundant)
<1>3. PICK max_pfs : RecvTimingReq(q(max_pfs))
  BY <1>1, Zenon DEF Notify
<1>4. Sound(s)
  BY SquashIs DEF IInv
<1> HIDE DEF s
<1>5. Sound(q(max_pfs))
  BY <1>2, <1>4, InsertCandidatesIs
<1> QED
  BY <1>3, <1>5

\* What a call of getPacket leaves of the queues, and the event it schedules.
LEMMA GetPacketIs ==
  ASSUME IInv, SomeGetPacket
  PROVE  /\ IInv'
         /\ MayPrefetch(cache) /\ pfq # << >> => Keeps(Tail(pfq), pfq')
         /\ MayPrefetch(cache') /\ pfq' # << >> => sendEvent'
<1>1. PICK outcome : GetPacket(outcome)
  BY DEF SomeGetPacket
<1> DEFINE q == IF pfq = << >> THEN processMissingTranslations(Queues, QueueSize, outcome)
                ELSE Queues
           rest == Tail(q.pfq)
           start == [q EXCEPT !.pfq = rest]
           after == processMissingTranslations(start, QueueSize - Len(rest), outcome)
<1>2. /\ \/ /\ ~MayPrefetch(cache) /\ SetQueues(Queues)
            /\ sendEvent' = NextQueueReady(cache', Queues) /\ issued' = issued /\ cache' = cache
         \/ /\ MayPrefetch(cache) /\ q.pfq = << >> /\ SetQueues(q)
            /\ sendEvent' = NextQueueReady(cache', q) /\ issued' = issued /\ cache' = cache
         \/ /\ MayPrefetch(cache) /\ q.pfq # << >> /\ SetQueues(after)
            /\ sendEvent' = NextQueueReady(cache', after) /\ issued' = TRUE
            /\ cache' \in IssueOutcomes(cache)
      /\ halted' = halted
  BY <1>1 DEF GetPacket, SetQueues, Queues
<1>3. /\ Sound(Queues) /\ Sound(q) /\ (pfq # << >> => q.pfq = pfq)
      /\ issued \in BOOLEAN /\ halted \in BOOLEAN /\ CacheOK(cache)
  <2>1. /\ Sound(Queues) /\ QueueSize \in Nat /\ Queues.pfq = pfq
        /\ issued \in BOOLEAN /\ halted \in BOOLEAN /\ CacheOK(cache)
    BY QueueAssumption DEF IInv, CacheInv, Queues
  <2>2. Sound(processMissingTranslations(Queues, QueueSize, outcome))
    BY <2>1, ProcessSound
  <2> QED
    BY <2>1, <2>2
<1> HIDE DEF q
<1>4. CacheOK(cache')
  BY <1>2, <1>3, IssueKeeps
\* What follows from the queues that are set.
<1>5. ASSUME NEW r, Sound(r), SetQueues(r), sendEvent' = NextQueueReady(cache', r),
             issued' \in BOOLEAN
      PROVE  IInv' /\ pfq' = r.pfq /\ (MayPrefetch(cache') /\ pfq' # << >> => sendEvent')
  <2>1. Queues' = r /\ pfq' = r.pfq
    <3>1. pfq' = r.pfq
      BY <1>5 DEF SetQueues
    <3> QED
      BY <1>5, <3>1, QueuesAre, SoundType
  <2>2. /\ cache'.pending > 0 \/ cache'.writes > 0 => sendEvent'
        /\ MayPrefetch(cache') /\ pfq' # << >> => sendEvent'
        /\ sendEvent' \in BOOLEAN
    BY <1>5, <2>1, Zenon DEF NextQueueReady, NextReady
  <2>3. halted' \in BOOLEAN
    BY <1>2, <1>3, Zenon
  <2> QED
    BY <1>4, <1>5, <2>1, <2>2, <2>3 DEF IInv, CacheInv, CacheOK, SendScheduled
<1>6. CASE ~MayPrefetch(cache)
  <2>1. SetQueues(Queues) /\ sendEvent' = NextQueueReady(cache', Queues) /\ issued' = issued
    BY <1>2, <1>6
  <2> QED
    BY <1>3, <1>5, <1>6, <2>1
<1>7. CASE MayPrefetch(cache) /\ q.pfq = << >>
  <2>1. SetQueues(q) /\ sendEvent' = NextQueueReady(cache', q) /\ issued' = issued
    BY <1>2, <1>7
  <2> QED
    BY <1>3, <1>5, <1>7, <2>1
<1>8. CASE MayPrefetch(cache) /\ q.pfq # << >>
  <2>1. SetQueues(after) /\ sendEvent' = NextQueueReady(cache', after) /\ issued' = TRUE
    BY <1>2, <1>8
  <2>2. Sound(start) /\ start.pfq = rest /\ Len(rest) \in 0 .. QueueSize
    BY <1>3, <1>8, TakeIs
  <2>3. QueueSize - Len(rest) \in Nat /\ Len(rest) + (QueueSize - Len(rest)) <= QueueSize
    <3>1. \A k \in 0 .. QueueSize : QueueSize - k \in Nat /\ k + (QueueSize - k) <= QueueSize
      BY QueueAssumption
    <3> HIDE DEF rest
    <3> QED
      BY <2>2, <3>1
  <2> HIDE DEF start
  <2>4. Sound(after) /\ Keeps(rest, after.pfq)
    BY <2>2, <2>3, ProcessSound
  <2> HIDE DEF after
  <2>5. issued' \in BOOLEAN
    BY <2>1, Zenon
  <2>6. IInv' /\ pfq' = after.pfq /\ (MayPrefetch(cache') /\ pfq' # << >> => sendEvent')
    BY <1>5, <2>1, <2>4, <2>5
  <2> QED
    BY <1>3, <2>4, <2>6
<1> QED
  BY <1>6, <1>7, <1>8

\* A late answer of the TLB keeps the invariant.
LEMMA FinishKeeps ==
  ASSUME IInv, NEW a \in Addr, SomeFinish(a)
  PROVE  IInv'
<1>1. PICK outcome : Finish(a, outcome)
  BY DEF SomeFinish
<1> DEFINE q == Queues
           c == TranslationComplete(q, a, outcome)
<1>2. SetQueues(c) /\ UNCHANGED <<issued, cache, sendEvent, halted>>
  BY <1>1 DEF Finish
<1>3. Has(q.missing, Marked(a)) /\ Marked(a).addr = a
  BY <1>1, PacketTypes DEF Finish, Has, Marked, Queues
<1>4. Sound(q) /\ Good(q) /\ q \in QueueType
  BY DEF IInv, Sound, Good
<1> HIDE DEF q
<1>5. /\ c \in QueueType
      /\ \A y : Has(c.missing, y) <=> Has(q.missing, y) /\ y.addr # a
      /\ Good(q) /\ (\E p : Has(q.missing, p) /\ p.addr = a) => Good(c)
      /\ Tracks(q) => Tracks(c)
  BY <1>4, CompleteIs
<1> HIDE DEF c
<1>6. Sound(c)
  BY <1>3, <1>4, <1>5 DEF Sound
<1>7. Queues' = c
  BY <1>2, <1>5, QueuesAre
<1>8. CacheInv'
  BY <1>2 DEF IInv, CacheInv, CacheOK, SendScheduled
<1> QED
  BY <1>6, <1>7, <1>8 DEF IInv

\* A send, and a writeback discarded, keep the invariant; a send schedules the
\* next one for a prefetch that is ready.
LEMMA SendKeeps ==
  ASSUME IInv, SendMiss \/ SendWriteback \/ SnoopWriteback
  PROVE  IInv' /\ (MayPrefetch(cache') /\ pfq' # << >> /\ ~sendEvent' => SnoopWriteback /\ ~sendEvent)
<1>1. /\ cache = [pending |-> cache.pending, sent |-> cache.sent,
                  noTargets |-> cache.noTargets, writes |-> cache.writes]
      /\ cache.pending \in Nat /\ cache.sent \in Nat
      /\ cache.noTargets \in BOOLEAN /\ cache.writes \in Nat
      /\ cache.writes <= WriteBuffers + NumMshrs
      /\ cache.pending + cache.sent <= NumMshrs
      /\ NumMshrs \in Nat /\ WriteBuffers \in Nat
  <2>1. CacheOK(cache)
    BY DEF IInv, CacheInv
  <2> QED
    BY <2>1, CacheFields
<1>2. /\ Queues' = Queues /\ pfq' = pfq /\ issued' = issued /\ halted' = halted
      /\ Sound(Queues) /\ issued \in BOOLEAN /\ halted \in BOOLEAN
      /\ sendEvent \in BOOLEAN /\ Queues.pfq = pfq
  BY DEF IInv, CacheInv, SendMiss, SendWriteback, SnoopWriteback, Queues
<1>3. CacheOK(cache')
  <2>1. CASE SendMiss
    <3>1. /\ cache.pending > 0
          /\ cache' = [pending |-> cache.pending - 1, sent |-> cache.sent + 1,
                       noTargets |-> cache.noTargets,
                       writes |-> cache.writes]
      BY <1>1, <2>1 DEF SendMiss
    <3>2. /\ cache.pending - 1 \in Nat /\ cache.sent + 1 \in Nat
          /\ (cache.pending - 1) + (cache.sent + 1) <= NumMshrs
          /\ cache.writes \in 0 .. WriteBuffers + NumMshrs
      BY <1>1, <3>1
    <3> QED
      BY <1>1, <3>1, <3>2, CacheBuilt
  <2>2. CASE SendWriteback \/ SnoopWriteback
    <3>1. /\ cache.writes > 0
          /\ cache' = [pending |-> cache.pending, sent |-> cache.sent,
                       noTargets |-> cache.noTargets,
                       writes |-> cache.writes - 1]
      BY <1>1, <2>2 DEF SendWriteback, SnoopWriteback
    <3>2. cache.writes - 1 \in 0 .. WriteBuffers + NumMshrs
      BY <1>1, <3>1
    <3> QED
      BY <1>1, <3>1, <3>2, CacheBuilt
  <2> QED
    BY <2>1, <2>2
<1>4. CASE SendMiss \/ SendWriteback
  <2>1. sendEvent' = NextQueueReady(cache', Queues)
    BY <1>4 DEF SendMiss, SendWriteback
  <2>2. /\ cache'.pending > 0 \/ cache'.writes > 0 => sendEvent'
        /\ MayPrefetch(cache') /\ pfq' # << >> => sendEvent'
        /\ sendEvent' \in BOOLEAN
    BY <1>2, <2>1, Zenon DEF NextQueueReady, NextReady
  <2> QED
    BY <1>2, <1>3, <2>2 DEF IInv, CacheInv, CacheOK, SendScheduled
<1>5. CASE SnoopWriteback
  <2>1. cache.writes > 0 /\ sendEvent' = sendEvent
    BY <1>5 DEF SnoopWriteback
  <2>2. sendEvent
    BY <2>1 DEF IInv, CacheInv, SendScheduled
  <2> QED
    BY <1>2, <1>3, <2>1, <2>2 DEF IInv, CacheInv, CacheOK, SendScheduled
<1> QED
  BY <1>4, <1>5

\* A response keeps the invariant; the MSHR that it frees wakes a prefetch.
LEMMA ResponseIs ==
  ASSUME IInv, NEW last \in BOOLEAN, RecvTimingResp(last)
  PROVE  IInv' /\ (MayPrefetch(cache') /\ pfq' # << >> => sendEvent')
<1>1. /\ Queues' = Queues /\ pfq' = pfq /\ issued' = issued /\ halted' = halted
      /\ Sound(Queues) /\ issued \in BOOLEAN /\ halted \in BOOLEAN /\ cache.sent > 0
      /\ sendEvent \in BOOLEAN /\ CacheOK(cache) /\ SendScheduled /\ Queues.pfq = pfq
  BY DEF IInv, CacheInv, RecvTimingResp, Queues
<1>2. CASE ~last
  <2>1. PICK c \in Promoted(cache), n \in Evictions(cache) :
             /\ cache' = WriteBack(c, n)
             /\ sendEvent' = (sendEvent \/ ~last \/ DeallocationWakes(c) \/ n > 0)
    BY <1>2 DEF RecvTimingResp
  <2>2. CacheOK(cache')
    BY <1>1, <2>1, ResponseKeeps
  <2>3. sendEvent' /\ sendEvent' \in BOOLEAN
    BY <1>2, <2>1, Zenon
  <2> QED
    BY <1>1, <2>2, <2>3 DEF IInv, CacheInv, CacheOK, SendScheduled
<1>3. CASE last
  <2>1. PICK c \in Deallocated(cache), n \in Evictions(cache) :
             /\ cache' = WriteBack(c, n)
             /\ sendEvent' = (sendEvent \/ ~last \/ DeallocationWakes(c) \/ n > 0)
    BY <1>3 DEF RecvTimingResp
  <2>2. /\ CacheOK(cache') /\ cache'.pending = cache.pending
        /\ cache'.writes = cache.writes + n
    BY <1>1, <2>1, ResponseKeeps
  <2>3. n = 0 \/ n > 0
    BY DEF Evictions
  <2>4. n = 0 => cache' = c
    <3>1. /\ cache = [pending |-> cache.pending, sent |-> cache.sent,
                      noTargets |-> cache.noTargets,
                      writes |-> cache.writes]
          /\ cache.writes \in Nat
      BY <1>1, CacheFields
    <3>2. PICK full : c = [cache EXCEPT !.sent = @ - 1, !.noTargets = full]
      BY <2>1 DEF Deallocated
    <3>3. c = [pending |-> cache.pending, sent |-> cache.sent - 1,
               noTargets |-> full, writes |-> cache.writes]
      BY <3>1, <3>2
    <3>4. cache.writes + 0 = cache.writes
      BY <3>1
    <3>5. WriteBack(c, 0) = c
      BY <3>3, <3>4 DEF WriteBack
    <3> QED
      BY <2>1, <3>5
  <2>5. MayPrefetch(c) /\ pfq # << >> => sendEvent'
    BY <1>1, <2>1, Zenon DEF DeallocationWakes, NextReady
  <2>6. sendEvent' \in BOOLEAN /\ (n > 0 => sendEvent') /\ (sendEvent => sendEvent')
    BY <2>1, Zenon
  <2>7. cache'.pending > 0 \/ cache'.writes > 0 => sendEvent'
    <3>1. cache.writes \in Nat
      BY <1>1, CacheFields
    <3>2. n = 0 => cache'.writes = cache.writes
      BY <2>2, <3>1
    <3> QED
      BY <1>1, <2>2, <2>3, <2>6, <3>2 DEF SendScheduled
  <2>8. MayPrefetch(cache') /\ pfq' # << >> => sendEvent'
    BY <1>1, <2>3, <2>4, <2>5, <2>6
  <2> QED
    BY <1>1, <2>2, <2>6, <2>7, <2>8 DEF IInv, CacheInv, CacheOK, SendScheduled
<1> QED
  BY <1>2, <1>3

\* The queues stay sound and the sends scheduled, whatever accesses and responses
\* come, whatever the TLB answers and whenever it does.
THEOREM QueueInvariance == Spec => []IInv
<1>1. Init => IInv
  <2> SUFFICES ASSUME Init PROVE IInv
    OBVIOUS
  <2>1. Queues = [pfq |-> << >>, missing |-> << >>, tlb |-> {}]
    BY DEF Init, Queues
  <2>2. << >> \in Seq(Ready) /\ << >> \in Seq(DeferredPacket)
    BY EmptyHas
  <2>3. Len(<< >>) = 0 /\ (\A y : ~Has(<< >>, y)) /\ Distinct(<< >>)
    BY EmptyHas
  <2>4. 0 <= QueueSize
    BY QueueAssumption
  <2>5. Queues \in QueueType
    BY <2>1, <2>2 DEF QueueType
  <2>6. Queues.pfq = << >> /\ Queues.missing = << >> /\ Queues.tlb = {}
    BY <2>1
  <2>7. Sound(Queues)
    BY <2>3, <2>4, <2>5, <2>6 DEF Sound, Good, Tracks
  <2>8. issued \in BOOLEAN /\ sendEvent \in BOOLEAN /\ halted \in BOOLEAN
    BY DEF Init
  <2>9. CacheOK(cache) /\ cache.pending = 0 /\ cache.writes = 0
    <3>1. NumMshrs \in Nat /\ WriteBuffers \in Nat
      BY QueueAssumption
    <3>2. 0 + 0 <= NumMshrs /\ 0 \in 0 .. WriteBuffers + NumMshrs /\ FALSE \in BOOLEAN
      BY <3>1
    <3> QED
      BY <3>2, CacheBuilt DEF Init
  <2>10. SendScheduled
    BY <2>9 DEF SendScheduled
  <2> QED
    BY <2>7, <2>8, <2>9, <2>10 DEF IInv, CacheInv
<1>2. IInv /\ [Next]_vars => IInv'
  <2> SUFFICES ASSUME IInv, [Next]_vars PROVE IInv'
    OBVIOUS
  <2>1. CASE SomeNotify
    BY <2>1, NotifyIs, AccessIs
  <2>2. CASE Unobserved
    <3>1. Sound(Queues)
      BY DEF IInv
    <3> QED
      BY <2>2, <3>1, AccessIs DEF Unobserved
  <2>3. CASE SomeGetPacket
    BY <2>3, GetPacketIs
  <2>4. CASE \E a \in Addr : SomeFinish(a)
    BY <2>4, FinishKeeps
  <2>5. CASE SendMiss \/ SendWriteback \/ SnoopWriteback
    BY <2>5, SendKeeps
  <2>6. CASE \E last \in BOOLEAN : RecvTimingResp(last)
    BY <2>6, ResponseIs
  <2>7. CASE HaltOrResume
    <3>1. /\ Queues' = Queues /\ issued' = issued /\ sendEvent' = sendEvent /\ cache' = cache
          /\ halted' = ~halted
      BY <2>7 DEF HaltOrResume, Queues
    <3>2. halted' \in BOOLEAN
      BY <3>1, Zenon
    <3> QED
      BY <3>1, <3>2 DEF IInv, CacheInv, CacheOK, SendScheduled
  <2>8. CASE UNCHANGED vars
    <3>1. /\ Queues' = Queues /\ issued' = issued /\ sendEvent' = sendEvent /\ cache' = cache
          /\ halted' = halted
      BY <2>8 DEF vars, Queues
    <3> QED
      BY <3>1 DEF IInv, CacheInv, CacheOK, SendScheduled
  <2> QED
    BY <2>1, <2>2, <2>3, <2>4, <2>5, <2>6, <2>7, <2>8 DEF Next
<1> QED
  BY <1>1, <1>2, PTL DEF Spec

\* No miss and no writeback waits without a send event: every access, send and
\* response that leaves one to be sent schedules it (schedMemSideSendEvent,
\* nextQueueReadyTime).
THEOREM SendsAreScheduled == Spec => []SendScheduled
<1>1. IInv => SendScheduled
  BY DEF IInv, CacheInv
<1> QED
  BY <1>1, QueueInvariance, PTL

\* A packet that is ready loses its send event only to a late translation: the
\* event that finds the MSHRs short is not rescheduled, but whatever frees an
\* MSHR or unblocks the cache schedules it again.
THEOREM WakeupsAreNotLost == Spec => NoLostWakeup
<1>1. IInv /\ [Next]_vars =>
        [~Stranded /\ Stranded' => \E a \in Addr : SomeFinish(a)]_vars
  <2> SUFFICES ASSUME IInv, Next, ~Stranded, Stranded'
               PROVE  \E a \in Addr : SomeFinish(a)
    OBVIOUS
  <2>1. MayPrefetch(cache') /\ pfq' # << >> /\ ~sendEvent'
    BY DEF Stranded, MayPrefetch, CanPrefetch, IsBlocked, Allocated
  <2>2. ASSUME NEW q, Sound(q), RecvTimingReq(q)
        PROVE  FALSE
    <3>1. NextReady(q) => sendEvent'
      BY <2>2, AccessIs
    <3>2. pfq' = q.pfq
      BY <2>2 DEF RecvTimingReq, SetQueues
    <3> QED
      BY <2>1, <3>1, <3>2 DEF NextReady
  <2>3. ASSUME SomeNotify
        PROVE  FALSE
    BY <2>2, <2>3, NotifyIs
  <2>4. ASSUME Unobserved
        PROVE  FALSE
    <3>1. Sound(Queues)
      BY DEF IInv
    <3> QED
      BY <2>2, <2>4, <3>1 DEF Unobserved
  <2>5. ASSUME SomeGetPacket
        PROVE  FALSE
    BY <2>1, <2>5, GetPacketIs
  <2>6. ASSUME SendMiss \/ SendWriteback \/ SnoopWriteback
        PROVE  FALSE
    <3>1. SnoopWriteback /\ ~sendEvent
      BY <2>1, <2>6, SendKeeps
    <3>2. cache.writes > 0
      BY <3>1 DEF SnoopWriteback
    <3> QED
      BY <3>1, <3>2 DEF IInv, CacheInv, SendScheduled
  <2>7. ASSUME \E last \in BOOLEAN : RecvTimingResp(last)
        PROVE  FALSE
    BY <2>1, <2>7, ResponseIs
  <2>8. ASSUME HaltOrResume
        PROVE  FALSE
    <3>1. cache' = cache /\ pfq' = pfq /\ sendEvent' = sendEvent
      BY <2>8 DEF HaltOrResume
    <3> QED
      BY <2>1, <3>1 DEF Stranded
  <2> QED
    BY <2>3, <2>4, <2>5, <2>6, <2>7, <2>8 DEF Next
<1> QED
  BY <1>1, QueueInvariance, PTL DEF Spec, NoLostWakeup

\* What the invariant says of the variables.
LEMMA QueueParts ==
  ASSUME IInv
  PROVE  /\ Good(Queues)
         /\ pfq \in Seq(Ready) /\ pfqMissingTranslation \in Seq(DeferredPacket)
         /\ translating \subseteq Addr
         /\ Len(pfq) <= QueueSize /\ Len(pfqMissingTranslation) <= QueueSize
         /\ Distinct(pfq) /\ Distinct(pfqMissingTranslation)
         /\ \A p, r : Has(pfq, p) /\ Has(pfqMissingTranslation, r) => p.addr # r.addr
         /\ Fits => \A a \in translating : Has(pfqMissingTranslation, Marked(a))
<1>1. /\ Queues.pfq = pfq /\ Queues.missing = pfqMissingTranslation
      /\ Queues.tlb = translating
  BY DEF Queues
<1>2. Good(Queues) /\ (Fits => Tracks(Queues))
  BY DEF IInv, Sound
<1> QED
  BY <1>1, <1>2 DEF Good, QueueType, Tracks

\* Type correctness: addToQueue never lets a queue grow past queue_size, and
\* what translationComplete moves to pfq is not being translated.
THEOREM QueueTypeCorrect == Spec => []TypeOK
<1>1. IInv => TypeOK
  <2> SUFFICES ASSUME IInv PROVE TypeOK
    OBVIOUS
  <2>1. /\ issued \in BOOLEAN /\ sendEvent \in BOOLEAN /\ halted \in BOOLEAN
        /\ cache \in CacheState /\ Allocated(cache) <= NumMshrs
    BY DEF IInv, CacheInv, CacheOK
  <2> QED
    BY <2>1, QueueParts DEF TypeOK, Ready
<1> QED
  BY <1>1, QueueInvariance, PTL

\* queue_filter (insert) keeps an address from being queued twice, in one
\* queue or in both.
THEOREM AddressesQueuedOnce == Spec => []QueuedOnce
<1>1. IInv => QueuedOnce
  <2> SUFFICES ASSUME IInv PROVE QueuedOnce
    OBVIOUS
  <2> DEFINE f == pfq
             m == pfqMissingTranslation
             all == f \o m
  <2>1. /\ f \in Seq(Ready) /\ m \in Seq(DeferredPacket)
        /\ Distinct(f) /\ Distinct(m)
        /\ \A p, r : Has(f, p) /\ Has(m, r) => p.addr # r.addr
    BY QueueParts
  <2>2. Ready \subseteq DeferredPacket
    BY DEF Ready, DeferredPacket
  <2>3. f \in Seq(DeferredPacket) /\ Len(f) \in Nat /\ Len(m) \in Nat
    <3>1. Len(f) \in Nat /\ Len(m) \in Nat /\ f \in [1 .. Len(f) -> Ready]
      BY <2>1, LenProperties
    <3>2. f \in [1 .. Len(f) -> DeferredPacket]
      BY <2>2, <3>1
    <3> QED
      BY <3>1, <3>2, SeqDef
  <2>4. /\ Len(all) = Len(f) + Len(m)
        /\ \A i \in 1 .. Len(f) + Len(m) :
             all[i] = IF i <= Len(f) THEN f[i] ELSE m[i - Len(f)]
    BY <2>1, <2>3, ConcatProperties
  <2> HIDE DEF f, m, all
  <2>5. ASSUME NEW i \in 1 .. Len(all), NEW j \in 1 .. Len(all), all[i].addr = all[j].addr
        PROVE  i = j
    <3>1. \A k \in 1 .. Len(all) :
            \/ k \in 1 .. Len(f) /\ all[k] = f[k]
            \/ k - Len(f) \in 1 .. Len(m) /\ all[k] = m[k - Len(f)]
      BY <2>3, <2>4
    <3>2. CASE /\ i \in 1 .. Len(f) /\ all[i] = f[i]
               /\ j \in 1 .. Len(f) /\ all[j] = f[j]
      BY <2>1, <2>5, <3>2 DEF Distinct
    <3>3. CASE /\ i - Len(f) \in 1 .. Len(m) /\ all[i] = m[i - Len(f)]
               /\ j - Len(f) \in 1 .. Len(m) /\ all[j] = m[j - Len(f)]
      <4>1. i - Len(f) = j - Len(f)
        BY <2>1, <2>5, <3>3 DEF Distinct
      <4> QED
        BY <2>3, <2>4, <4>1
    <3>4. CASE /\ i \in 1 .. Len(f) /\ all[i] = f[i]
               /\ j - Len(f) \in 1 .. Len(m) /\ all[j] = m[j - Len(f)]
      BY <2>1, <2>5, <3>4 DEF Has
    <3>5. CASE /\ i - Len(f) \in 1 .. Len(m) /\ all[i] = m[i - Len(f)]
               /\ j \in 1 .. Len(f) /\ all[j] = f[j]
      BY <2>1, <2>5, <3>5 DEF Has
    <3> QED
      BY <3>1, <3>2, <3>3, <3>4, <3>5
  <2> QED
    BY <2>5 DEF QueuedOnce, all, f, m
<1> QED
  BY <1>1, QueueInvariance, PTL

\* The asserts of finish and translationComplete hold when no TLB is registered
\* and when the page-crossing targets fit in pfqMissingTranslation together.
\* Otherwise they do not: the queue drops a packet that is being translated.
THEOREM TranslationsFindPackets ==
  ~HasTLB \/ Fits => (Spec => []TranslationFindsPacket)
<1>1. SUFFICES ASSUME Fits
               PROVE  Spec => []TranslationFindsPacket
  BY FitsWithoutTLB
<1>2. IInv => TranslationFindsPacket
  BY <1>1, QueueParts DEF TranslationFindsPacket, Has, Marked
<1> QED
  BY <1>2, QueueInvariance, PTL

\* getPacket takes the oldest packet and drops no other: the translations it
\* starts are no more than pfq has room for.
THEOREM GetPacketKeepsTheRest == Spec => IssueKeepsTheRest
<1>1. IInv /\ IInv' /\ [Next]_vars =>
        [pfq # << >> /\ MayPrefetch(cache) /\ SomeGetPacket =>
           IsPrefix(Tail(pfq), pfq')]_vars
  <2> SUFFICES ASSUME IInv, IInv', SomeGetPacket, pfq # << >>, MayPrefetch(cache)
               PROVE  IsPrefix(Tail(pfq), pfq')
    OBVIOUS
  <2> DEFINE s == Tail(pfq)
             t == pfq'
             n == Len(s)
  <2>1. pfq \in Seq(Ready)
    BY QueueParts
  <2>2. t \in Seq(Ready)
    <3>1. Queues'.pfq = pfq'
      BY DEF Queues
    <3>2. Queues' \in QueueType
      BY DEF IInv, Sound, Good
    <3> QED
      BY <3>1, <3>2 DEF QueueType
  <2>3. Keeps(s, t)
    BY GetPacketIs
  <2>4. s \in Seq(Ready)
    BY <2>1, TailHas
  <2> HIDE DEF s, t
  <2>5. /\ n \in Nat /\ Len(t) \in Nat /\ n <= Len(t)
        /\ \A i \in 1 .. n : s[i] \in Ready /\ t[i] = s[i] /\ t[i] \in Ready
    BY <2>2, <2>3, <2>4, LenProperties, ElementOfSeq DEF Keeps
  <2> DEFINE u == SubSeq(s, 1, n)
             v == SubSeq(t, 1, n)
  <2> HIDE DEF n
  <2>6. 1 \in Int /\ n \in Int /\ (n - 1) + 1 = n /\ (~(1 <= n) => n = 0)
    BY <2>5
  <2>7. /\ u \in Seq(Ready) /\ Len(u) = n /\ \A i \in 1 .. n : u[i] = s[i]
    <3>1. /\ u \in Seq(Ready) /\ Len(u) = IF 1 <= n THEN n - 1 + 1 ELSE 0
          /\ \A i \in 1 .. n - 1 + 1 : u[i] = s[1 + i - 1]
      BY <2>5, <2>6, SubSeqProperties
    <3>2. \A i \in 1 .. n : 1 + i - 1 = i
      BY <2>6
    <3> QED
      BY <2>6, <3>1, <3>2
  <2>8. /\ v \in Seq(Ready) /\ Len(v) = n /\ \A i \in 1 .. n : v[i] = t[i]
    <3>1. /\ v \in Seq(Ready) /\ Len(v) = IF 1 <= n THEN n - 1 + 1 ELSE 0
          /\ \A i \in 1 .. n - 1 + 1 : v[i] = t[1 + i - 1]
      BY <2>5, <2>6, SubSeqProperties
    <3>2. \A i \in 1 .. n : 1 + i - 1 = i
      BY <2>6
    <3> QED
      BY <2>6, <3>1, <3>2
  <2> HIDE DEF u, v
  <2>9. u = v
    BY <2>5, <2>7, <2>8, SeqEqual
  <2>10. IsPrefix(s, t)
    BY <2>5, <2>9 DEF IsPrefix, u, v, n
  <2> QED
    BY <2>10 DEF s, t
<1> QED
  BY <1>1, QueueInvariance, PTL DEF Spec, IssueKeepsTheRest

=============================================================================
