-------------------------- MODULE TcpRxBuffer_proofs --------------------------
(***************************************************************************)
(* The buffer of a TCP receiver is right for every stream, every buffer,   *)
(* every way to cut the stream into segments and every order of arrival.   *)
(*                                                                         *)
(* GoodRx says what a buffer is when the application has read n bytes: its *)
(* packets are pieces of the stream that do not overlap, in the window;    *)
(* its counters count them; m_nextRxSeq is the first hole; its SACK blocks *)
(* are held, beyond the hole and apart. Add (Trimmed, Put, the SACK list)  *)
(* and Extract keep it, so the socket does.                                *)
(***************************************************************************)
EXTENDS TcpRxBuffer, NumberSets, SequenceTheorems

\* The first byte not in order: m_nextRxSeq, or one less when it counts the FIN.
Stop(t) == IF t.next = N + 1 THEN N ELSE t.next

\* SequenceNumber32 pairs of the SACK option.
Blocks == [first: Int, second: Int]

\* The fields of the buffer.
IsRx(t) ==
  /\ t = [data |-> t.data, next |-> t.next, fin |-> t.fin, size |-> t.size,
          avail |-> t.avail, sack |-> t.sack]
  /\ t.next \in 0 .. (N + 1) /\ t.fin \in {None, N}
  /\ t.sack \in Seq(Blocks)

\* The packets: none is empty, each holds the bytes its number says, and they follow
\* one another.
Packets(t) ==
  /\ DOMAIN t.data \subseteq 0 .. (N - 1)
  /\ \A k \in DOMAIN t.data :
       /\ Len(t.data[k]) \in Nat \ {0} /\ End(t, k) <= N
       /\ t.data[k] = Bytes(k, End(t, k))
  /\ \A j, k \in DOMAIN t.data : j < k => End(t, j) <= k

\* What is in order has come, and the next byte has not; n bytes have been read.
InOrder(t, n) ==
  /\ n \in 0 .. N /\ n <= Stop(t)
  /\ n .. (Stop(t) - 1) \subseteq Held(t)
  /\ Stop(t) \notin Held(t)
  /\ Stop(t) = N => (t.next = N + 1 <=> t.fin = N)

\* What is held fits the window, which starts at the first byte not read.
InWindow(t, n) ==
  /\ \A p \in Held(t) : n <= p /\ p < n + MaxBuffer
  /\ t.fin = N => N <= n + MaxBuffer

\* m_size and m_availBytes.
Counts(t, n) ==
  /\ t.size = Cardinality(Held(t))
  /\ t.avail = Stop(t) - n

\* A list of blocks: what is held in H beyond next, no two blocks touching.
TrueList(l, H, next) ==
  \A i \in 1 .. Len(l) :
    /\ next < l[i].first /\ l[i].first < l[i].second
    /\ l[i].first .. (l[i].second - 1) \subseteq H
    /\ \A j \in 1 .. Len(l) : l[i].second # l[j].first

\* The SACK list of the buffer.
TrueSack(t) == TrueList(t.sack, Held(t), t.next)

\* The buffer t when the application has read n bytes.
GoodRx(t, n) ==
  /\ IsRx(t) /\ Packets(t) /\ InOrder(t, n) /\ InWindow(t, n) /\ Counts(t, n)
  /\ TrueSack(t)

-----------------------------------------------------------------------------
\* The packets.

\* A position is held by the packet it lies in.
LEMMA HeldIs ==
  ASSUME NEW t, Packets(t)
  PROVE  /\ Held(t) \subseteq 0 .. (N - 1)
         /\ \A p \in Int : p \in Held(t) <=>
              \E k \in DOMAIN t.data : k <= p /\ p < End(t, k)
         /\ \A k \in DOMAIN t.data : k \in 0 .. (N - 1) /\ End(t, k) \in 1 .. N /\ k < End(t, k)
<1>1. \A k \in DOMAIN t.data :
        k \in 0 .. (N - 1) /\ End(t, k) \in 1 .. N /\ k < End(t, k)
  <2> SUFFICES ASSUME NEW k \in DOMAIN t.data
               PROVE  k \in 0 .. (N - 1) /\ End(t, k) \in 1 .. N /\ k < End(t, k)
    OBVIOUS
  <2>1. k \in 0 .. (N - 1) /\ Len(t.data[k]) \in Nat \ {0} /\ End(t, k) <= N
    BY DEF Packets
  <2> QED
    BY <2>1, RxAssumption DEF End
<1>2. \A p : p \in Held(t) <=> \E k \in DOMAIN t.data : p \in k .. (End(t, k) - 1)
  BY DEF Held, Positions
<1> QED
  BY <1>1, <1>2, RxAssumption

\* A position is held by one packet only.
LEMMA OneHolds ==
  ASSUME NEW t, Packets(t), NEW p \in Int,
         NEW j \in DOMAIN t.data, j <= p, p < End(t, j),
         NEW k \in DOMAIN t.data, k <= p, p < End(t, k)
  PROVE  j = k
<1>1. j \in Int /\ k \in Int /\ End(t, j) \in Int /\ End(t, k) \in Int
  BY HeldIs
<1>2. (j < k => End(t, j) <= k) /\ (k < j => End(t, k) <= j)
  BY DEF Packets
<1> QED
  BY <1>1, <1>2

\* The first position missing, from any place on.
LEMMA FirstMissingIs ==
  ASSUME NEW H \in SUBSET (0 .. (N - 1)), NEW n \in 0 .. (N + 1)
  PROVE  LET m == Min((n .. (N + 1)) \ H)
         IN  /\ m \in n .. (N + 1) /\ m \notin H
             /\ n .. (m - 1) \subseteq H
             /\ n <= N => m <= N
<1> DEFINE S == (n .. (N + 1)) \ H
           m == Min(S)
<1>1. S \in SUBSET Nat /\ N + 1 \in S /\ (n <= N => N \in S)
  BY RxAssumption
<1>2. m \in S /\ \A y \in S : m <= y
  <2> HIDE DEF S
  <2> QED
    BY <1>1, MinInSet
<1> HIDE DEF m
<1>3. n .. (m - 1) \subseteq H
  <2> SUFFICES ASSUME NEW p \in n .. (m - 1), p \notin H
               PROVE  FALSE
    OBVIOUS
  <2>1. p \in S /\ p < m
    BY <1>2, RxAssumption
  <2> QED
    BY <2>1, <1>2
<1> QED
  BY <1>1, <1>2, <1>3 DEF m

\* The packets start with what is not yet read; what is held has no first byte
\* below it.
LEMMA BeginIs ==
  ASSUME NEW t, NEW n, GoodRx(t, n)
  PROVE  /\ DOMAIN t.data # {} => Begin(t) \in DOMAIN t.data /\ n <= Begin(t)
         /\ n < Stop(t) => n \in DOMAIN t.data /\ Begin(t) = n
<1>1. \A k \in DOMAIN t.data : k \in 0 .. (N - 1) /\ n <= k
  <2> SUFFICES ASSUME NEW k \in DOMAIN t.data
               PROVE  k \in 0 .. (N - 1) /\ n <= k
    OBVIOUS
  <2>1. k \in 0 .. (N - 1) /\ k \in Held(t)
    BY HeldIs, RxAssumption DEF GoodRx
  <2> QED
    BY <2>1 DEF GoodRx, InWindow
<1>2. DOMAIN t.data # {} => /\ Begin(t) \in DOMAIN t.data
                            /\ \A k \in DOMAIN t.data : Begin(t) <= k
  BY <1>1, MinInSet, RxAssumption DEF Begin
<1>3. ASSUME n < Stop(t)
      PROVE  n \in DOMAIN t.data
  <2>1. n \in Int /\ n \in Held(t)
    BY <1>3, RxAssumption DEF GoodRx, InOrder, IsRx, Stop
  <2>2. PICK k \in DOMAIN t.data : k <= n /\ n < End(t, k)
    BY <2>1, HeldIs DEF GoodRx
  <2>3. k = n
    BY <1>1, <2>1, <2>2
  <2> QED
    BY <2>2, <2>3
<1>4. ASSUME n < Stop(t)
      PROVE  Begin(t) = n
  <2>1. Begin(t) \in DOMAIN t.data /\ Begin(t) <= n
    BY <1>2, <1>3, <1>4
  <2>2. Begin(t) \in Int /\ n \in Int /\ n <= Begin(t)
    BY <1>1, <2>1, RxAssumption DEF GoodRx, InOrder
  <2> QED
    BY <2>1, <2>2
<1> QED
  BY <1>1, <1>2, <1>3, <1>4

\* The window ends where the bytes not read and those the buffer has room for do.
LEMMA MaxRxSequenceIs ==
  ASSUME NEW t, NEW n, GoodRx(t, n)
  PROVE  /\ t.fin = N => MaxRxSequence(t) = N
         /\ t.fin # N => MaxRxSequence(t) = n + MaxBuffer
         /\ MaxRxSequence(t) <= n + MaxBuffer
<1>1. /\ N \in Nat \ {0} /\ MaxBuffer \in Nat \ {0} /\ n \in 0 .. N
      /\ t.next \in 0 .. (N + 1) /\ t.fin \in {-1, N}
      /\ n <= Stop(t) /\ (t.next = N + 1 => t.fin = N)
  BY RxAssumption DEF GoodRx, IsRx, InOrder, Stop, None
<1>2. ASSUME t.fin = N
      PROVE  MaxRxSequence(t) = N /\ N <= n + MaxBuffer
  <2>1. t.fin # None
    BY <1>1, <1>2 DEF None
  <2>2. MaxRxSequence(t) = t.fin
    BY <2>1 DEF MaxRxSequence
  <2> QED
    BY <1>2, <2>2 DEF GoodRx, InWindow
<1>3. ASSUME t.fin # N
      PROVE  MaxRxSequence(t) = n + MaxBuffer /\ MaxRxSequence(t) <= n + MaxBuffer
  <2>1. t.fin = None /\ Stop(t) = t.next /\ t.next <= N
    BY <1>1, <1>3 DEF Stop, None
  <2>2. CASE n < Stop(t)
    <3>1. DOMAIN t.data # {} /\ Begin(t) = n /\ t.next > Begin(t)
      BY <1>1, <2>1, <2>2, BeginIs
    <3>2. MaxRxSequence(t) = n + MaxBuffer
      BY <2>1, <3>1 DEF MaxRxSequence
    <3> QED
      BY <1>1, <1>3, <3>2
  <2>3. CASE n = Stop(t)
    <3>1. DOMAIN t.data # {} => ~(t.next > Begin(t))
      <4> SUFFICES ASSUME DOMAIN t.data # {}
                   PROVE  ~(t.next > Begin(t))
        OBVIOUS
      <4>1. Begin(t) \in DOMAIN t.data /\ n <= Begin(t)
        BY BeginIs
      <4>2. Begin(t) \in Int
        BY <4>1, HeldIs DEF GoodRx
      <4> QED
        BY <1>1, <2>1, <2>3, <4>1, <4>2
    <3>2. MaxRxSequence(t) = n + MaxBuffer
      BY <2>1, <2>3, <3>1 DEF MaxRxSequence
    <3> QED
      BY <1>1, <1>3, <3>2
  <2> QED
    BY <1>1, <2>1, <2>2, <2>3
<1>4. t.fin = N \/ t.fin # N
  OBVIOUS
<1> QED
  BY <1>2, <1>3, <1>4

-----------------------------------------------------------------------------
\* The SACK list.

\* A list of blocks, of held bytes beyond next, of which at most the first
\* touches another.
NewList(l, H, next) ==
  /\ l \in Seq(Blocks) /\ l # <<>>
  /\ \A i \in 1 .. Len(l) :
       /\ next < l[i].first /\ l[i].first < l[i].second
       /\ l[i].first .. (l[i].second - 1) \subseteq H
  /\ \A i, j \in 2 .. Len(l) : l[i].second # l[j].first

\* The first block of a list takes in a segment.
TakesIn(l, head, tail) == l[1].first <= head /\ tail <= l[1].second

\* One merge.
LEMMA MergeOneIs ==
  ASSUME NEW l, NEW H, NEW next \in Int, NewList(l, H, next)
  PROVE  LET m == MergeOne(l)
         IN  /\ NewList(m, H, next)
             /\ \A head, tail \in Int : TakesIn(l, head, tail) => TakesIn(m, head, tail)
             /\ Touching(l) = {} => m = l
             /\ Touching(l) # {} => Len(m) = Len(l) - 1
<1> DEFINE i == Min(Touching(l))
           merged == IF l[1].first = l[i].second
                     THEN [first |-> l[i].first, second |-> l[1].second]
                     ELSE [first |-> l[1].first, second |-> l[i].second]
           m == MergeOne(l)
<1>1. /\ l \in Seq(Blocks) /\ Len(l) \in Nat /\ Len(l) >= 1
      /\ \A j \in 1 .. Len(l) :
           /\ l[j] \in Blocks
           /\ l[j].first \in Int /\ l[j].second \in Int
           /\ next < l[j].first /\ l[j].first < l[j].second
           /\ l[j].first .. (l[j].second - 1) \subseteq H
      /\ \A j, k \in 2 .. Len(l) : l[j].second # l[k].first
  <2>1. l \in Seq(Blocks) /\ Len(l) \in Nat /\ Len(l) >= 1
    BY DEF NewList
  <2>2. \A j \in 1 .. Len(l) : l[j] \in Blocks
    BY <2>1
  <2>3. \A b \in Blocks : b.first \in Int /\ b.second \in Int
    BY DEF Blocks
  <2> QED
    BY <2>1, <2>2, <2>3 DEF NewList
<1>2. CASE Touching(l) = {}
  <2>1. m = l
    BY <1>2 DEF MergeOne
  <2> QED
    BY <1>2, <2>1
<1>3. CASE Touching(l) # {}
  <2>1. Touching(l) \in SUBSET Nat
    BY <1>1 DEF Touching
  <2>2. i \in Touching(l)
    BY <1>3, <2>1, MinInSet
  <2>3. /\ i \in 2 .. Len(l)
        /\ l[1].first = l[i].second \/ l[1].second = l[i].first
    BY <2>2 DEF Touching
  <2>4. m = [j \in 1 .. (Len(l) - 1) |->
               CASE j = 1 -> merged [] 1 < j /\ j < i -> l[j] [] OTHER -> l[j + 1]]
    BY <1>3 DEF MergeOne
  <2> HIDE DEF i
  <2>5. /\ merged \in Blocks
        /\ merged.first \in Int /\ merged.second \in Int
        /\ next < merged.first /\ merged.first < merged.second
        /\ merged.first .. (merged.second - 1) \subseteq H
        /\ merged.first <= l[1].first /\ l[1].second <= merged.second
    <3> DEFINE a == l[1]
               b == l[i]
    <3>1. /\ a.first \in Int /\ a.second \in Int /\ b.first \in Int /\ b.second \in Int
          /\ next < a.first /\ a.first < a.second /\ next < b.first /\ b.first < b.second
          /\ a.first .. (a.second - 1) \subseteq H /\ b.first .. (b.second - 1) \subseteq H
          /\ a.first = b.second \/ a.second = b.first
      BY <1>1, <2>3
    <3>2. merged = IF a.first = b.second
                   THEN [first |-> b.first, second |-> a.second]
                   ELSE [first |-> a.first, second |-> b.second]
      OBVIOUS
    <3> HIDE DEF a, b, merged
    <3>3. CASE a.first = b.second
      BY <3>1, <3>2, <3>3 DEF a, b, Blocks
    <3>4. CASE a.first # b.second
      BY <3>1, <3>2, <3>4 DEF a, b, Blocks
    <3> QED
      BY <3>3, <3>4
  <2> HIDE DEF merged, m
  <2>6. /\ m[1] = merged
        /\ \A j \in 2 .. (Len(l) - 1) : \E k \in 2 .. Len(l) : m[j] = l[k]
    <3>1. 1 \in 1 .. (Len(l) - 1)
      BY <1>1, <2>3
    <3>2. ASSUME NEW j \in 2 .. (Len(l) - 1)
          PROVE  \E k \in 2 .. Len(l) : m[j] = l[k]
      <4>1. j \in 1 .. (Len(l) - 1) /\ j # 1 /\ j \in 2 .. Len(l) /\ j + 1 \in 2 .. Len(l)
        BY <1>1
      <4>2. m[j] = l[j] \/ m[j] = l[j + 1]
        BY <2>4, <4>1
      <4> QED
        BY <4>1, <4>2
    <3> QED
      BY <2>4, <3>1, <3>2
  <2>7. /\ m \in Seq(Blocks) /\ Len(m) = Len(l) - 1 /\ Len(m) >= 1
    <3>1. \A j \in 1 .. (Len(l) - 1) : m[j] \in Blocks
      <4> SUFFICES ASSUME NEW j \in 1 .. (Len(l) - 1)
                   PROVE  m[j] \in Blocks
        OBVIOUS
      <4>1. j = 1 \/ j \in 2 .. (Len(l) - 1)
        OBVIOUS
      <4> QED
        BY <1>1, <2>5, <2>6, <4>1
    <3> QED
      BY <1>1, <2>3, <2>4, <3>1
  <2>8. \A j \in 1 .. Len(m) :
          /\ next < m[j].first /\ m[j].first < m[j].second
          /\ m[j].first .. (m[j].second - 1) \subseteq H
    <3> SUFFICES ASSUME NEW j \in 1 .. Len(m)
                 PROVE  /\ next < m[j].first /\ m[j].first < m[j].second
                        /\ m[j].first .. (m[j].second - 1) \subseteq H
      OBVIOUS
    <3>1. CASE j = 1
      BY <2>5, <2>6, <3>1
    <3>2. CASE j # 1
      <4>1. j \in 2 .. (Len(l) - 1)
        BY <2>7, <3>2
      <4>2. PICK k \in 2 .. Len(l) : m[j] = l[k]
        BY <2>6, <4>1
      <4> QED
        BY <1>1, <4>2
    <3> QED
      BY <3>1, <3>2
  <2>9. \A j, k \in 2 .. Len(m) : m[j].second # m[k].first
    <3> SUFFICES ASSUME NEW j \in 2 .. Len(m), NEW k \in 2 .. Len(m)
                 PROVE  m[j].second # m[k].first
      OBVIOUS
    <3>1. PICK x \in 2 .. Len(l) : m[j] = l[x]
      BY <2>6, <2>7
    <3>2. PICK y \in 2 .. Len(l) : m[k] = l[y]
      BY <2>6, <2>7
    <3> QED
      BY <1>1, <3>1, <3>2
  <2>10. NewList(m, H, next)
    BY <2>7, <2>8, <2>9 DEF NewList
  <2>11. \A head, tail \in Int : TakesIn(l, head, tail) => TakesIn(m, head, tail)
    BY <1>1, <2>5, <2>6 DEF TakesIn
  <2> QED
    BY <1>3, <2>7, <2>10, <2>11 DEF m
<1> QED
  BY <1>2, <1>3

\* The passes over a list exist, however many.
LEMMA PassesExist ==
  ASSUME NEW l, NEW c \in Nat
  PROVE  \E f : f = [n \in 0 .. c |-> IF n = 0 THEN l ELSE MergeOne(f[n - 1])]
<1> DEFINE Pass(f, d) == f = [n \in 0 .. d |-> IF n = 0 THEN l ELSE MergeOne(f[n - 1])]
           S == {d \in Nat : ~\E f : Pass(f, d)}
<1>1. SUFFICES ASSUME S # {} PROVE FALSE
  BY Zenon
<1>2. PICK d \in S : \A e \in S : d <= e
  <2>1. S \in SUBSET Nat
    OBVIOUS
  <2> HIDE DEF S
  <2> QED
    BY <1>1, <2>1, MinInSet
<1>3. d # 0
  <2>1. Pass([n \in 0 .. 0 |-> l], 0)
    OBVIOUS
  <2> QED
    BY <2>1
<1>4. PICK f : Pass(f, d - 1)
  <2>1. d - 1 \in Nat /\ d - 1 \notin S
    BY <1>2, <1>3
  <2> QED
    BY <2>1
<1> DEFINE g == [n \in 0 .. d |-> IF n = d THEN MergeOne(f[d - 1]) ELSE f[n]]
<1>5. \A n \in 0 .. d : g[n] = IF n = 0 THEN l ELSE MergeOne(g[n - 1])
  <2> SUFFICES ASSUME NEW n \in 0 .. d
               PROVE  g[n] = IF n = 0 THEN l ELSE MergeOne(g[n - 1])
    OBVIOUS
  <2>1. CASE n = 0
    BY <1>3, <1>4, <2>1
  <2>2. CASE n # 0
    <3>1. n - 1 \in 0 .. d /\ n - 1 # d /\ g[n - 1] = f[n - 1]
      BY <2>2
    <3>2. n # d => n \in 0 .. (d - 1) /\ g[n] = f[n]
      OBVIOUS
    <3> HIDE DEF g
    <3>3. n # d => f[n] = MergeOne(f[n - 1])
      BY <1>4, <2>2, <3>2
    <3>4. n = d => g[n] = MergeOne(f[n - 1])
      BY DEF g
    <3> QED
      BY <2>2, <3>1, <3>2, <3>3, <3>4
  <2> QED
    BY <2>1, <2>2
<1>6. Pass(g, d)
  <2>1. g = [n \in 0 .. d |-> g[n]]
    OBVIOUS
  <2> HIDE DEF g
  <2> QED
    BY <1>5, <2>1
<1> QED
  BY <1>6

\* After as many passes as the list is long nothing touches any more.
LEMMA MergedIs ==
  ASSUME NEW l, NEW H, NEW next \in Int, NewList(l, H, next),
         NEW head \in Int, NEW tail \in Int, TakesIn(l, head, tail)
  PROVE  LET m == Merged(l)
         IN  NewList(m, H, next) /\ TakesIn(m, head, tail) /\ Touching(m) = {}
<1> DEFINE pass == CHOOSE f : f = [n \in 0 .. Len(l) |->
                                     IF n = 0 THEN l ELSE MergeOne(f[n - 1])]
           OK(n) == /\ NewList(pass[n], H, next)
                    /\ TakesIn(pass[n], head, tail)
                    /\ Touching(pass[n]) = {} \/ Len(pass[n]) = Len(l) - n
           Bad == {n \in 0 .. Len(l) : ~OK(n)}
<1>1. Len(l) \in Nat
  BY DEF NewList
<1>2. pass = [n \in 0 .. Len(l) |-> IF n = 0 THEN l ELSE MergeOne(pass[n - 1])]
  BY <1>1, PassesExist, Zenon
<1>3. Merged(l) = pass[Len(l)]
  BY DEF Merged
<1> HIDE DEF pass
<1>4. Bad = {}
  <2> SUFFICES ASSUME Bad # {} PROVE FALSE
    OBVIOUS
  <2>1. PICK n \in Bad : \A k \in Bad : n <= k
    <3>1. Bad \in SUBSET Nat
      BY <1>1
    <3> HIDE DEF Bad
    <3> QED
      BY <3>1, MinInSet
  <2>2. n # 0
    <3>1. pass[0] = l
      BY <1>1, <1>2
    <3>2. OK(0)
      BY <1>1, <3>1
    <3> HIDE DEF OK
    <3> QED
      BY <3>2
  <2>3. OK(n - 1) /\ n - 1 \in 0 .. Len(l) /\ pass[n] = MergeOne(pass[n - 1])
    <3>1. n - 1 \in 0 .. Len(l) /\ n \in 0 .. Len(l) /\ n - 1 < n
      BY <1>1, <2>2
    <3>2. n - 1 \notin Bad
      <4> HIDE DEF Bad
      <4> SUFFICES ASSUME n - 1 \in Bad PROVE FALSE
        OBVIOUS
      <4>1. n <= n - 1
        BY <2>1
      <4> QED
        BY <3>1, <4>1
    <3> HIDE DEF OK
    <3> QED
      BY <1>2, <2>2, <3>1, <3>2
  <2>4. /\ NewList(pass[n], H, next) /\ TakesIn(pass[n], head, tail)
        /\ Touching(pass[n - 1]) = {} => pass[n] = pass[n - 1]
        /\ Touching(pass[n - 1]) # {} => Len(pass[n]) = Len(pass[n - 1]) - 1
    BY <2>3, MergeOneIs
  <2>5. OK(n)
    BY <1>1, <2>3, <2>4
  <2> HIDE DEF OK
  <2> QED
    BY <2>5
<1>5. OK(Len(l))
  <2>1. Len(l) \in 0 .. Len(l)
    BY <1>1
  <2> HIDE DEF OK
  <2> QED
    BY <1>4, <2>1
<1>6. Touching(pass[Len(l)]) = {}
  <2>1. Len(pass[Len(l)]) >= 1
    BY <1>5 DEF NewList
  <2> QED
    BY <1>1, <1>5, <2>1
<1> QED
  BY <1>3, <1>5, <1>6

\* UpdateSackList: the list is true of what is held now, and its first block
\* takes in the segment.
LEMMA UpdateSackListIs ==
  ASSUME NEW sack \in Seq(Blocks), NEW H, NEW next \in Int,
         TrueList(sack, H, next), NEW head \in Int, NEW tail \in Int, next < head, head < tail,
         head .. (tail - 1) \subseteq H
  PROVE  LET l == UpdateSackList(sack, head, tail)
         IN  /\ l \in Seq(Blocks) /\ l # <<>> /\ TakesIn(l, head, tail)
             /\ TrueList(l, H, next)
<1> DEFINE b == [first |-> head, second |-> tail]
           new == <<b>> \o sack
           m == Merged(new)
           l == UpdateSackList(sack, head, tail)
<1>1. /\ new \in Seq(Blocks) /\ Len(new) = Len(sack) + 1 /\ new # <<>>
      /\ new[1] = b /\ \A i \in 2 .. Len(new) : new[i] = sack[i - 1]
      /\ Len(sack) \in Nat
  BY DEF Blocks
<1>2. NewList(new, H, next) /\ TakesIn(new, head, tail)
  <2> HIDE DEF new
  <2>1. \A i \in 1 .. Len(new) :
          /\ next < new[i].first /\ new[i].first < new[i].second
          /\ new[i].first .. (new[i].second - 1) \subseteq H
    <3> SUFFICES ASSUME NEW i \in 1 .. Len(new)
                 PROVE  /\ next < new[i].first /\ new[i].first < new[i].second
                        /\ new[i].first .. (new[i].second - 1) \subseteq H
      OBVIOUS
    <3>1. CASE i = 1
      BY <1>1, <3>1
    <3>2. CASE i # 1
      <4>1. new[i] = sack[i - 1] /\ i - 1 \in 1 .. Len(sack)
        BY <1>1, <3>2
      <4> QED
        BY <4>1 DEF TrueList
    <3> QED
      BY <3>1, <3>2
  <2>2. \A i, j \in 2 .. Len(new) : new[i].second # new[j].first
    <3> SUFFICES ASSUME NEW i \in 2 .. Len(new), NEW j \in 2 .. Len(new)
                 PROVE  new[i].second # new[j].first
      OBVIOUS
    <3>1. /\ new[i] = sack[i - 1] /\ i - 1 \in 1 .. Len(sack)
          /\ new[j] = sack[j - 1] /\ j - 1 \in 1 .. Len(sack)
      BY <1>1
    <3> QED
      BY <3>1 DEF TrueList
  <2>3. TakesIn(new, head, tail)
    BY <1>1 DEF TakesIn
  <2> QED
    BY <1>1, <2>1, <2>2, <2>3 DEF NewList
<1> HIDE DEF new
<1>3. NewList(m, H, next) /\ TakesIn(m, head, tail) /\ Touching(m) = {}
  BY <1>2, MergedIs
<1>4. l = IF Len(m) > MaxSackBlocks THEN SubSeq(m, 1, Len(m) - 1) ELSE m
  BY DEF UpdateSackList, new
<1> HIDE DEF m, l
<1>5. /\ m \in Seq(Blocks) /\ Len(m) \in Nat /\ Len(m) >= 1
      /\ \A i \in 1 .. Len(m) : m[i].first < m[i].second /\ m[i].first \in Int /\ m[i].second \in Int
  <2>1. m \in Seq(Blocks) /\ Len(m) \in Nat /\ Len(m) >= 1
    BY <1>3 DEF NewList
  <2>2. \A i \in 1 .. Len(m) : m[i] \in Blocks
    BY <2>1
  <2>3. \A x \in Blocks : x.first \in Int /\ x.second \in Int
    BY DEF Blocks
  <2> QED
    BY <1>3, <2>1, <2>2, <2>3 DEF NewList
<1>6. /\ l \in Seq(Blocks) /\ Len(l) \in 1 .. Len(m)
      /\ \A i \in 1 .. Len(l) : l[i] = m[i]
  BY <1>4, <1>5, RxAssumption
<1>7. \A i, j \in 1 .. Len(m) : m[i].second # m[j].first
  <2> SUFFICES ASSUME NEW i \in 1 .. Len(m), NEW j \in 1 .. Len(m)
               PROVE  m[i].second # m[j].first
    OBVIOUS
  <2>1. CASE i = 1 /\ j = 1
    BY <1>5, <2>1
  <2>2. CASE i = 1 /\ j # 1
    <3>1. j \in 2 .. Len(m)
      BY <2>2
    <3> QED
      BY <1>3, <2>2, <3>1 DEF Touching
  <2>3. CASE i # 1 /\ j = 1
    <3>1. i \in 2 .. Len(m)
      BY <2>3
    <3> QED
      BY <1>3, <2>3, <3>1 DEF Touching
  <2>4. CASE i # 1 /\ j # 1
    <3>1. i \in 2 .. Len(m) /\ j \in 2 .. Len(m)
      BY <2>4
    <3> QED
      BY <1>3, <3>1 DEF NewList
  <2> QED
    BY <2>1, <2>2, <2>3, <2>4
<1>8. \A i \in 1 .. Len(l) : i \in 1 .. Len(m)
  BY <1>5, <1>6
<1>9. l # <<>> /\ TakesIn(l, head, tail)
  BY <1>3, <1>6 DEF TakesIn
<1>10. TrueList(l, H, next)
  <2> SUFFICES ASSUME NEW i \in 1 .. Len(l)
               PROVE  /\ next < l[i].first /\ l[i].first < l[i].second
                      /\ l[i].first .. (l[i].second - 1) \subseteq H
                      /\ \A j \in 1 .. Len(l) : l[i].second # l[j].first
    BY DEF TrueList
  <2> QED
    BY <1>3, <1>6, <1>7, <1>8 DEF NewList
<1> QED
  BY <1>6, <1>9, <1>10 DEF l

\* ClearSackList keeps blocks of the list, all of them beyond seq.
LEMMA ClearSackListIs ==
  ASSUME NEW sack \in Seq(Blocks), NEW seq
  PROVE  LET l == ClearSackList(sack, seq)
         IN  /\ l \in Seq(Blocks)
             /\ \A j \in 1 .. Len(l) : \E i \in 1 .. Len(sack) :
                  l[j] = sack[i] /\ sack[i].second > seq
<1> DEFINE kept == {i \in DOMAIN sack : sack[i].second > seq}
           UpTo(i) == {k \in kept : k <= i}
           place(i) == Cardinality(UpTo(i))
           c == Cardinality(kept)
           l == ClearSackList(sack, seq)
           L == Len(sack)
<1>1. L \in Nat /\ DOMAIN sack = 1 .. L /\ kept \subseteq 1 .. L
  OBVIOUS
<1>2. IsFiniteSet(kept) /\ c \in Nat
  <2>1. IsFiniteSet(1 .. L)
    BY <1>1, FS_Interval
  <2> HIDE DEF kept, L
  <2> QED
    BY <1>1, <2>1, FS_Subset, FS_CardinalityType
<1>3. l = [j \in 1 .. c |-> sack[CHOOSE i \in kept : place(i) = j]]
  BY DEF ClearSackList
<1> HIDE DEF kept, l, L
<1>4. \A i : IsFiniteSet(UpTo(i)) /\ place(i) \in Nat
  <2> SUFFICES ASSUME NEW i
               PROVE  IsFiniteSet(UpTo(i)) /\ place(i) \in Nat
    OBVIOUS
  <2>1. UpTo(i) \in SUBSET kept
    OBVIOUS
  <2> QED
    BY <1>2, <2>1, FS_Subset, FS_CardinalityType
<1>5. ASSUME NEW j \in 1 .. c
      PROVE  \E i \in kept : place(i) = j
  <2> DEFINE S == {i \in 0 .. L : place(i) >= j}
             i == Min(S)
  <2>1. L \in S
    <3>1. UpTo(L) = kept
      <4>1. \A k \in kept : k <= L
        BY <1>1
      <4> QED
        BY <4>1
    <3> HIDE DEF UpTo
    <3> QED
      BY <1>1, <1>2, <3>1
  <2>2. S \in SUBSET Nat
    OBVIOUS
  <2>3. i \in S /\ \A y \in S : i <= y
    <3> HIDE DEF S
    <3> QED
      BY <2>1, <2>2, MinInSet
  <2> HIDE DEF i
  <2>4. i \in 0 .. L /\ place(i) >= j
    BY <2>3
  <2>5. i # 0
    <3>1. UpTo(0) = {}
      <4>1. \A k \in kept : ~(k <= 0)
        BY <1>1
      <4> QED
        BY <4>1
    <3>2. place(0) = 0
      BY <3>1, FS_EmptySet
    <3> HIDE DEF place
    <3> QED
      BY <1>2, <2>4, <3>2
  <2>6. i - 1 \in 0 .. L /\ place(i - 1) < j
    <3>1. i - 1 \in 0 .. L /\ i \in Int
      BY <1>1, <2>4, <2>5
    <3>2. i - 1 \notin S
      <4> HIDE DEF S
      <4> QED
        BY <2>3, <3>1
    <3>3. place(i - 1) \in Nat
      BY <1>4
    <3> HIDE DEF place
    <3> QED
      BY <3>1, <3>2, <3>3
  <2>7. UpTo(i) = IF i \in kept THEN UpTo(i - 1) \cup {i} ELSE UpTo(i - 1)
    <3>1. \A k \in kept : k <= i <=> (k <= i - 1 \/ k = i)
      BY <1>1, <2>4
    <3> QED
      BY <3>1
  <2>8. i \notin UpTo(i - 1)
    BY <2>4
  <2>9. i \in kept /\ place(i) = place(i - 1) + 1
    <3>1. Cardinality(UpTo(i - 1) \cup {i}) = place(i - 1) + 1
      <4>1. IsFiniteSet(UpTo(i - 1))
        BY <1>4
      <4> HIDE DEF UpTo
      <4> QED
        BY <2>8, <4>1, FS_AddElement
    <3>2. place(i - 1) \in Nat
      BY <1>4
    <3> HIDE DEF UpTo
    <3>3. i \in kept
      <4> SUFFICES ASSUME i \notin kept PROVE FALSE
        OBVIOUS
      <4>1. place(i) = place(i - 1)
        BY <2>7
      <4> HIDE DEF place
      <4> QED
        BY <2>4, <2>6, <3>2, <4>1
    <3> QED
      BY <2>7, <3>1, <3>3
  <2>10. place(i) = j
    <3>1. place(i) \in Nat /\ place(i - 1) \in Nat
      BY <1>4
    <3> HIDE DEF place
    <3> QED
      BY <2>4, <2>6, <2>9, <3>1
  <2> HIDE DEF place
  <2> QED
    BY <2>9, <2>10
<1>6. \A j \in 1 .. c : \E i \in 1 .. L : l[j] = sack[i] /\ sack[i].second > seq
  <2> SUFFICES ASSUME NEW j \in 1 .. c
               PROVE  \E i \in 1 .. L : l[j] = sack[i] /\ sack[i].second > seq
    OBVIOUS
  <2> DEFINE i == CHOOSE i \in kept : place(i) = j
  <2>1. i \in kept
    <3> HIDE DEF place
    <3> QED
      BY <1>5
  <2>2. l[j] = sack[i]
    BY <1>3
  <2> HIDE DEF i
  <2>3. sack[i].second > seq
    BY <2>1 DEF kept
  <2> QED
    BY <1>1, <2>1, <2>2, <2>3
<1>7. l \in Seq(Blocks) /\ Len(l) = c
  <2>1. \A j \in 1 .. c : l[j] \in Blocks
    <3> SUFFICES ASSUME NEW j \in 1 .. c
                 PROVE  l[j] \in Blocks
      OBVIOUS
    <3>1. PICK i \in 1 .. L : l[j] = sack[i]
      BY <1>6
    <3> QED
      BY <3>1 DEF L
  <2>2. l = [j \in 1 .. c |-> l[j]]
    BY <1>3
  <2> HIDE DEF c
  <2> QED
    BY <1>2, <2>1, <2>2
<1> QED
  BY <1>6, <1>7 DEF l, L

-----------------------------------------------------------------------------
\* Add.

\* The packets of gone lie inside a segment, the others outside it.
Apart(t, gone, head, tail) ==
  \A k \in DOMAIN t.data :
    /\ k \in gone => head < k /\ End(t, k) <= tail
    /\ k \notin gone => End(t, k) <= head \/ tail <= k

\* What Trimmed leaves of a segment that the window takes: bytes that are not held,
\* from the first missing one on, and no packet that stays has a byte of them.
LEMMA TrimmedIs ==
  ASSUME NEW t, NEW n, GoodRx(t, n), NEW a \in 0 .. N, NEW b \in 0 .. N, a < b,
         b <= n + MaxBuffer
  PROVE  LET c == Trimmed(t, a, b)
         IN  /\ c.head \in 0 .. (N + 1) /\ c.tail \in 0 .. N /\ c.tail <= b
             /\ c.gone \subseteq DOMAIN t.data
             /\ c.head < c.tail =>
                  /\ a <= c.head /\ t.next <= c.head /\ c.head \notin Held(t)
                  /\ a .. (b - 1) \subseteq
                       (0 .. (t.next - 1)) \union Held(t) \union (c.head .. (c.tail - 1))
                  /\ Apart(t, c.gone, c.head, c.tail)
             /\ ~(c.head < c.tail) =>
                  a .. (b - 1) \subseteq (0 .. (t.next - 1)) \union Held(t)
<1> DEFINE c == Trimmed(t, a, b)
           H == Held(t)
           from == IF a < t.next THEN t.next ELSE a
           covers == {k \in DOMAIN t.data : k < b /\ b <= End(t, k)}
           head == c.head
           tail == c.tail
<1>1. /\ N \in Nat \ {0} /\ MaxBuffer \in Nat \ {0} /\ n \in 0 .. N
      /\ t.next \in 0 .. (N + 1)
  BY RxAssumption DEF GoodRx, InOrder, IsRx
<1>2. /\ H \in SUBSET (0 .. (N - 1))
      /\ \A k \in DOMAIN t.data : k \in 0 .. (N - 1) /\ End(t, k) \in 1 .. N /\ k < End(t, k)
  BY HeldIs DEF GoodRx
<1>3. (IF DOMAIN t.data # {} THEN Lesser(b, Begin(t) + MaxBuffer) ELSE b) = b
  <2> SUFFICES ASSUME DOMAIN t.data # {}
               PROVE  Lesser(b, Begin(t) + MaxBuffer) = b
    OBVIOUS
  <2>1. Begin(t) \in Int /\ n <= Begin(t)
    BY <1>2, BeginIs
  <2> QED
    BY <1>1, <2>1 DEF Lesser
<1>4. c = [head |-> FirstMissing(t, IF DOMAIN t.data # {} /\ b < from THEN b ELSE from),
           tail |-> IF covers = {} THEN b ELSE CHOOSE k \in covers : TRUE,
           gone |-> Swallowed(t, FirstMissing(t, IF DOMAIN t.data # {} /\ b < from THEN b ELSE from), b)]
  BY <1>3 DEF Trimmed
<1>5. /\ head = FirstMissing(t, IF DOMAIN t.data # {} /\ b < from THEN b ELSE from)
      /\ tail = IF covers = {} THEN b ELSE CHOOSE k \in covers : TRUE
      /\ c.gone = {k \in DOMAIN t.data : head < k /\ End(t, k) < b}
  BY <1>4 DEF Swallowed
<1> HIDE DEF c, H
<1>6. from \in 0 .. (N + 1) /\ (b < from => b < t.next) /\ a <= from /\ t.next <= from
  BY <1>1
<1> HIDE DEF from
<1>7. \A m \in 0 .. (N + 1) :
        /\ FirstMissing(t, m) \in m .. (N + 1) /\ FirstMissing(t, m) \notin H
        /\ m .. (FirstMissing(t, m) - 1) \subseteq H
  BY <1>2, FirstMissingIs DEF FirstMissing, H
<1>8. head \in 0 .. (N + 1)
  BY <1>1, <1>5, <1>6, <1>7
<1>9. \/ covers = {} /\ tail = b
      \/ covers # {} /\ tail \in covers
  BY <1>5
<1>10. tail \in 0 .. N /\ tail <= b /\ tail .. (b - 1) \subseteq H
  <2>1. CASE covers = {}
    BY <1>1, <1>9, <2>1
  <2>2. CASE covers # {}
    <3>1. tail \in DOMAIN t.data /\ tail < b /\ b <= End(t, tail)
      BY <1>9, <2>2
    <3>2. tail \in 0 .. (N - 1) /\ End(t, tail) \in 1 .. N
      BY <1>2, <3>1
    <3>3. tail .. (b - 1) \subseteq H
      <4> SUFFICES ASSUME NEW p \in tail .. (b - 1)
                   PROVE  p \in H
        OBVIOUS
      <4>1. p \in Int /\ tail <= p /\ p < End(t, tail)
        BY <3>1, <3>2
      <4> QED
        BY <3>1, <4>1, HeldIs DEF GoodRx, H
    <3> QED
      BY <1>1, <3>1, <3>2, <3>3
  <2> QED
    BY <2>1, <2>2
<1>11. ASSUME head < tail
       PROVE  /\ from <= head /\ head \notin H
              /\ from .. (head - 1) \subseteq H
  <2>1. ~(DOMAIN t.data # {} /\ b < from)
    <3> SUFFICES ASSUME DOMAIN t.data # {} /\ b < from PROVE FALSE
      OBVIOUS
    <3>1. head \in b .. (N + 1)
      BY <1>1, <1>5, <1>7
    <3> QED
      BY <1>1, <1>8, <1>10, <1>11, <3>1
  <2>2. head = FirstMissing(t, from)
    BY <1>5, <2>1
  <2> QED
    BY <1>6, <1>7, <2>2
<1>12. ASSUME head < tail
       PROVE  a .. (b - 1) \subseteq
                (0 .. (t.next - 1)) \union H \union (head .. (tail - 1))
  <2> SUFFICES ASSUME NEW p \in a .. (b - 1), p \notin 0 .. (t.next - 1),
                      p \notin head .. (tail - 1)
               PROVE  p \in H
    OBVIOUS
  <2>1. CASE p < head
    <3>1. p \in from .. (head - 1)
      BY <1>1, <1>8, <2>1 DEF from
    <3> QED
      BY <1>11, <1>12, <3>1
  <2>2. CASE ~(p < head)
    <3>1. p \in tail .. (b - 1)
      BY <1>1, <1>8, <1>10, <2>2
    <3> QED
      BY <1>10, <3>1
  <2> QED
    BY <2>1, <2>2
<1>13. ASSUME head < tail, NEW k \in DOMAIN t.data
       PROVE  /\ k \in c.gone => head < k /\ End(t, k) <= tail
              /\ k \notin c.gone => End(t, k) <= head \/ tail <= k
  <2>1. k \in 0 .. (N - 1) /\ End(t, k) \in 1 .. N /\ k < End(t, k)
    BY <1>2
  <2>2. ASSUME k \in c.gone
        PROVE  head < k /\ End(t, k) <= tail
    <3>1. head < k /\ End(t, k) < b
      BY <1>5, <2>2
    <3>2. CASE covers = {}
      BY <1>9, <2>1, <3>1, <3>2
    <3>3. CASE covers # {}
      <4>1. tail \in DOMAIN t.data /\ tail < b /\ b <= End(t, tail)
        BY <1>9, <3>3
      <4>2. tail \in 0 .. (N - 1) /\ End(t, tail) \in 1 .. N
        BY <1>2, <4>1
      <4>3. (k < tail => End(t, k) <= tail) /\ (tail < k => End(t, tail) <= k)
        BY <4>1 DEF GoodRx, Packets
      <4>4. k # tail
        BY <1>1, <2>1, <3>1, <4>1, <4>2
      <4> QED
        BY <1>1, <2>1, <3>1, <4>1, <4>2, <4>3, <4>4
    <3> QED
      BY <3>2, <3>3
  <2>3. ASSUME k \notin c.gone, ~(End(t, k) <= head), ~(tail <= k)
        PROVE  FALSE
    <3>1. head < k
      <4> SUFFICES ASSUME k <= head PROVE FALSE
        BY <1>8, <2>1
      <4>1. head \in Int /\ head < End(t, k)
        BY <1>8, <2>1, <2>3
      <4>2. head \in H
        BY <4>1, HeldIs DEF GoodRx, H
      <4> QED
        BY <1>11, <1>13, <4>2
    <3>2. b <= End(t, k) /\ k < b
      BY <1>1, <1>5, <1>8, <1>10, <2>1, <2>3, <3>1
    <3>3. k \in covers
      BY <3>2
    <3>4. tail \in covers /\ k = tail
      <4>1. tail \in covers
        BY <1>9, <3>3
      <4>2. tail \in DOMAIN t.data /\ tail < b /\ b <= End(t, tail)
        BY <4>1
      <4>3. tail \in 0 .. (N - 1) /\ End(t, tail) \in 1 .. N
        BY <1>2, <4>2
      <4>4. b - 1 \in Int /\ tail <= b - 1 /\ b - 1 < End(t, tail)
            /\ k <= b - 1 /\ b - 1 < End(t, k)
        BY <1>1, <2>1, <3>2, <4>2, <4>3
      <4>5. Packets(t)
        BY DEF GoodRx
      <4>6. k = tail
        BY <4>2, <4>4, <4>5, OneHolds
      <4> QED
        BY <4>1, <4>6
    <3> QED
      BY <2>1, <2>3, <3>4
  <2> QED
    BY <2>2, <2>3
<1>14. ASSUME ~(head < tail)
       PROVE  a .. (b - 1) \subseteq (0 .. (t.next - 1)) \union H
  <2> SUFFICES ASSUME NEW p \in a .. (b - 1), p \notin 0 .. (t.next - 1)
               PROVE  p \in H
    OBVIOUS
  <2>1. t.next <= p /\ p \in Int /\ from <= p /\ p < b
    BY <1>1 DEF from
  <2>2. ~(b < from)
    BY <1>1, <1>6, <2>1
  <2>3. head = FirstMissing(t, from)
    BY <1>5, <2>2
  <2>4. from .. (head - 1) \subseteq H
    BY <1>6, <1>7, <2>3
  <2>5. p \in from .. (head - 1) \/ p \in tail .. (b - 1)
    BY <1>1, <1>6, <1>8, <1>10, <1>14, <2>1
  <2> QED
    BY <1>10, <2>4, <2>5
<1>15. c.gone \subseteq DOMAIN t.data
  BY <1>5
<1>16. head < tail => a <= head /\ t.next <= head
  BY <1>1, <1>6, <1>8, <1>11
<1>17. head < tail => Apart(t, c.gone, head, tail)
  BY <1>13 DEF Apart
<1> QED
  BY <1>8, <1>10, <1>11, <1>12, <1>14, <1>15, <1>16, <1>17 DEF c, H

\* A piece of the stream, and the pieces of it.
LEMMA BytesIs ==
  ASSUME NEW a \in Int, NEW b \in Int, a <= b
  PROVE  /\ Bytes(a, b) \in Seq(Int) /\ Len(Bytes(a, b)) = b - a
         /\ \A i \in 1 .. (b - a) : Bytes(a, b)[i] = a + i - 1
<1> DEFINE s == Bytes(a, b)
<1>1. b - a \in Nat
  OBVIOUS
<1>2. s \in Seq(Int) /\ Len(s) = b - a /\ \A i \in 1 .. (b - a) : s[i] = a + i - 1
  BY <1>1 DEF Bytes
<1> HIDE DEF s
<1> QED
  BY <1>2 DEF s

\* A piece of a piece of the stream.
LEMMA PieceIs ==
  ASSUME NEW a \in Int, NEW b \in Int, NEW x \in Int, NEW y \in Int,
         a <= x, x <= y, y <= b
  PROVE  SubSeq(Bytes(a, b), x - a + 1, y - a) = Bytes(x, y)
<1> DEFINE s == Bytes(a, b)
           r == SubSeq(s, x - a + 1, y - a)
<1>1. s \in Seq(Int) /\ Len(s) = b - a /\ \A i \in 1 .. (b - a) : s[i] = a + i - 1
  <2>1. a <= b
    OBVIOUS
  <2> QED
    BY <2>1, BytesIs
<1> HIDE DEF s
<1>2. /\ r \in Seq(Int) /\ Len(r) = y - x
      /\ \A i \in 1 .. (y - x) : r[i] = s[x - a + i]
  BY <1>1
<1> HIDE DEF r
<1>3. r = [i \in 1 .. (y - x) |-> s[x - a + i]]
  BY <1>2
<1>4. \A i \in 1 .. (y - x) : s[x - a + i] = x + i - 1
  <2> SUFFICES ASSUME NEW i \in 1 .. (y - x)
               PROVE  s[x - a + i] = x + i - 1
    OBVIOUS
  <2>1. x - a + i \in 1 .. (b - a)
    OBVIOUS
  <2> QED
    BY <1>1, <2>1
<1> QED
  BY <1>3, <1>4 DEF Bytes, r, s

\* The bytes of the packets removed are those held in the new one's place.
LEMMA SwallowedIs ==
  ASSUME NEW t, Packets(t), NEW gone \in SUBSET DOMAIN t.data,
         NEW head \in Int, NEW tail \in Int, Apart(t, gone, head, tail)
  PROVE  Cardinality(UNION {{k} \X DOMAIN t.data[k] : k \in gone})
           = Cardinality(Held(t) \intersect (head .. (tail - 1)))
<1> DEFINE S == Held(t) \intersect (head .. (tail - 1))
           T == UNION {{k} \X DOMAIN t.data[k] : k \in gone}
           of(p) == CHOOSE o \in DOMAIN t.data : o <= p /\ p < End(t, o)
           f == [p \in S |-> <<of(p), p - of(p) + 1>>]
<1>1. IsFiniteSet(S)
  <2>1. IsFiniteSet(head .. (tail - 1))
    BY FS_Interval
  <2> QED
    BY <2>1, FS_Subset
<1>2. \A k \in DOMAIN t.data :
        /\ k \in Int /\ End(t, k) \in Int /\ k < End(t, k)
        /\ DOMAIN t.data[k] = 1 .. (End(t, k) - k)
  <2> SUFFICES ASSUME NEW k \in DOMAIN t.data
               PROVE  /\ k \in Int /\ End(t, k) \in Int /\ k < End(t, k)
                      /\ DOMAIN t.data[k] = 1 .. (End(t, k) - k)
    OBVIOUS
  <2>1. k \in Int /\ End(t, k) \in Int /\ k < End(t, k)
    BY HeldIs
  <2>2. t.data[k] = Bytes(k, End(t, k))
    BY DEF Packets
  <2> QED
    BY <2>1, <2>2 DEF Bytes
<1>3. ASSUME NEW p \in S
      PROVE  /\ p \in Int /\ of(p) \in DOMAIN t.data /\ of(p) \in gone
             /\ of(p) <= p /\ p < End(t, of(p))
  <2>1. p \in Int /\ p \in Held(t) /\ head <= p /\ p < tail
    OBVIOUS
  <2>2. \E o \in DOMAIN t.data : o <= p /\ p < End(t, o)
    BY <2>1, HeldIs
  <2> DEFINE k == of(p)
  <2>3. k \in DOMAIN t.data /\ k <= p /\ p < End(t, k)
    BY <2>2
  <2> HIDE DEF k
  <2>4. k \in Int /\ End(t, k) \in Int
    BY <1>2, <2>3
  <2>5. k \in gone
    BY <2>1, <2>3, <2>4 DEF Apart
  <2> QED
    BY <2>1, <2>3, <2>5 DEF k
<1>4. ASSUME NEW p \in S
      PROVE  f[p] \in T
  <2> DEFINE k == of(p)
  <2>1. k \in gone /\ p - k + 1 \in DOMAIN t.data[k]
    <3>1. /\ p \in Int /\ k \in DOMAIN t.data /\ k \in gone /\ k <= p /\ p < End(t, k)
      BY <1>3
    <3> HIDE DEF k
    <3> QED
      BY <1>2, <3>1
  <2>2. f[p] = <<k, p - k + 1>>
    OBVIOUS
  <2> HIDE DEF k, f
  <2> QED
    BY <2>1, <2>2
<1>5. ASSUME NEW p \in S, NEW q \in S, f[p] = f[q]
      PROVE  p = q
  <2>1. of(p) = of(q) /\ p - of(p) + 1 = q - of(q) + 1
    <3> DEFINE x == of(p)
               y == of(q)
               u == p - x + 1
               v == q - y + 1
    <3>1. f[p] = <<x, u>> /\ f[q] = <<y, v>>
      OBVIOUS
    <3> HIDE DEF f, x, y, u, v
    <3>2. <<x, u>> = <<y, v>>
      BY <1>5, <3>1
    <3>3. x = y /\ u = v
      BY <3>2
    <3> QED
      BY <3>3 DEF x, y, u, v
  <2>2. p \in Int /\ q \in Int /\ of(p) \in Int /\ of(q) \in Int
    BY <1>2, <1>3
  <2> HIDE DEF of
  <2> QED
    BY <2>1, <2>2
<1>6. ASSUME NEW x \in T
      PROVE  \E p \in S : f[p] = x
  <2>0. PICK k \in gone : x \in {k} \X DOMAIN t.data[k]
    OBVIOUS
  <2>1. PICK i \in DOMAIN t.data[k] : x = <<k, i>>
    BY <2>0
  <2> DEFINE p == k + i - 1
  <2>2. /\ p \in Int /\ k \in DOMAIN t.data /\ k <= p /\ p < End(t, k)
        /\ p - k + 1 = i /\ head <= p /\ p < tail
    <3>1. /\ k \in DOMAIN t.data /\ k \in Int /\ End(t, k) \in Int
          /\ i \in 1 .. (End(t, k) - k) /\ head < k /\ End(t, k) <= tail
      BY <1>2 DEF Apart
    <3> QED
      BY <3>1
  <2> HIDE DEF p
  <2>3. p \in S
    <3>1. p \in Held(t)
      BY <2>2, HeldIs
    <3> QED
      BY <2>2, <3>1
  <2>4. of(p) = k
    <3> DEFINE j == of(p)
    <3>1. j \in DOMAIN t.data /\ j <= p /\ p < End(t, j)
      BY <1>3, <2>3
    <3> HIDE DEF j
    <3>2. j = k
      BY <2>2, <3>1, OneHolds
    <3> QED
      BY <3>2 DEF j
  <2>5. f[p] = <<k, i>>
    BY <2>2, <2>3, <2>4
  <2> HIDE DEF f
  <2> QED
    BY <2>1, <2>3, <2>5
<1> HIDE DEF S, T
<1>7. f \in [S -> T]
  BY <1>4
<1>8. f \in Bijection(S, T)
  <2> HIDE DEF f
  <2> QED
    BY <1>5, <1>6, <1>7 DEF Bijection, Injection, Surjection, IsInjective
<1>9. ExistsBijection(S, T)
  <2> HIDE DEF f
  <2> QED
    BY <1>8 DEF ExistsBijection
<1> QED
  BY <1>1, <1>9, FS_Bijection DEF S, T

\* The buffer once the segment is stored, field by field.
LEMMA AddIs ==
  ASSUME NEW t, NEW n, GoodRx(t, n), NEW a \in 0 .. N, NEW b \in 0 .. N, a < b,
         b <= n + MaxBuffer
  PROVE  LET c == Trimmed(t, a, b)
             u == Add(t, a, Bytes(a, b))
             h == Hole(t, c)
             swallowed == Cardinality(UNION {{k} \X DOMAIN t.data[k] : k \in c.gone})
             sk == IF c.head > t.next THEN UpdateSackList(t.sack, c.head, c.tail)
                   ELSE t.sack
         IN  /\ ~(c.head < c.tail) => u = t
             /\ c.head < c.tail =>
                  u = [data |-> Put(Without(t.data, c.gone), c.head, Bytes(c.head, c.tail)),
                       next |-> IF h = t.fin THEN h + 1 ELSE h,
                       fin |-> t.fin,
                       size |-> t.size - swallowed + (c.tail - c.head),
                       avail |-> t.avail + h - t.next,
                       sack |-> IF h = t.next THEN sk ELSE ClearSackList(sk, h)]
<1> DEFINE c == Trimmed(t, a, b)
           u == Add(t, a, Bytes(a, b))
           h == Hole(t, c)
           swallowed == Cardinality(UNION {{k} \X DOMAIN t.data[k] : k \in c.gone})
           sk == IF c.head > t.next THEN UpdateSackList(t.sack, c.head, c.tail)
                 ELSE t.sack
           fragment == SubSeq(Bytes(a, b), c.head - a + 1, c.tail - a)
           put == [t EXCEPT !.data = Put(Without(@, c.gone), c.head, fragment),
                            !.sack = IF c.head > t.next
                                     THEN UpdateSackList(@, c.head, c.tail) ELSE @,
                            !.size = @ - swallowed + Len(fragment)]
<1>1. Len(Bytes(a, b)) = b - a /\ a + Len(Bytes(a, b)) = b
  BY BytesIs
<1>2. u = IF c.head < c.tail THEN Advance(put, h) ELSE t
  BY <1>1 DEF Add
<1>3. ASSUME c.head < c.tail
      PROVE  fragment = Bytes(c.head, c.tail) /\ Len(fragment) = c.tail - c.head
  <2> DEFINE x == c.head
             y == c.tail
  <2>1. /\ x \in Int /\ y \in Int /\ a <= x /\ y <= b /\ x < y
        /\ a \in Int /\ b \in Int /\ a <= b
    BY <1>3, TrimmedIs, RxAssumption
  <2> HIDE DEF x, y
  <2>2. SubSeq(Bytes(a, b), x - a + 1, y - a) = Bytes(x, y)
    BY <2>1, PieceIs
  <2>3. Len(Bytes(x, y)) = y - x
    BY <2>1, BytesIs
  <2> HIDE DEF c, u, h, swallowed, sk, put
  <2> QED
    BY <2>2, <2>3 DEF x, y
<1> HIDE DEF c, u, h, swallowed, fragment
<1>4. t = [data |-> t.data, next |-> t.next, fin |-> t.fin, size |-> t.size,
           avail |-> t.avail, sack |-> t.sack]
  BY DEF GoodRx, IsRx
<1> DEFINE data == Put(Without(t.data, c.gone), c.head, fragment)
           size == t.size - swallowed + Len(fragment)
<1>5. put = [data |-> data, next |-> t.next, fin |-> t.fin, size |-> size,
             avail |-> t.avail, sack |-> sk]
  <2>1. put = [t EXCEPT !.data = data, !.sack = sk, !.size = size]
    OBVIOUS
  <2> HIDE DEF put, data, size, sk
  <2> QED
    BY <1>4, <2>1
<1> HIDE DEF put, sk, data, size
<1>6. Advance(put, h) =
        [data |-> data,
         next |-> IF h = t.fin THEN h + 1 ELSE h,
         fin |-> t.fin,
         size |-> size,
         avail |-> t.avail + h - t.next,
         sack |-> IF h = t.next THEN sk ELSE ClearSackList(sk, h)]
  <2> DEFINE next == IF h = t.fin THEN h + 1 ELSE h
             avail == t.avail + h - t.next
             sack == IF h = t.next THEN sk ELSE ClearSackList(sk, h)
  <2>1. put.fin = t.fin /\ put.next = t.next /\ put.avail = t.avail /\ put.sack = sk
    BY <1>5
  <2>2. Advance(put, h) = [put EXCEPT !.next = next, !.avail = avail, !.sack = sack]
    BY <2>1 DEF Advance
  <2> HIDE DEF next, avail, sack
  <2>3. Advance(put, h) = [data |-> data, next |-> next, fin |-> t.fin, size |-> size,
                           avail |-> avail, sack |-> sack]
    BY <1>5, <2>2
  <2> QED
    BY <2>3 DEF next, avail, sack
<1>7. c.head < c.tail =>
        u = [data |-> Put(Without(t.data, c.gone), c.head, Bytes(c.head, c.tail)),
             next |-> IF h = t.fin THEN h + 1 ELSE h,
             fin |-> t.fin,
             size |-> t.size - swallowed + (c.tail - c.head),
             avail |-> t.avail + h - t.next,
             sack |-> IF h = t.next THEN sk ELSE ClearSackList(sk, h)]
  BY <1>2, <1>3, <1>6, Zenon DEF data, size
<1> QED
  BY <1>2, <1>7, Zenon DEF c, u, h, swallowed, sk

\* u holds the packets of t with the segment in the place of those of gone.
HoldsWith(u, t, gone, head, tail) ==
  u.data = Put(Without(t.data, gone), head, Bytes(head, tail))

\* The packets with the new one among them.
LEMMA PutIs ==
  ASSUME NEW t, Packets(t), NEW gone \in SUBSET DOMAIN t.data,
         NEW head \in 0 .. N, NEW tail \in 0 .. N, head < tail, head \notin Held(t),
         Apart(t, gone, head, tail),
         NEW u, HoldsWith(u, t, gone, head, tail)
  PROVE  Packets(u) /\ Held(u) = Held(t) \union (head .. (tail - 1))
<1>1. /\ N \in Nat \ {0}
      /\ \A k \in DOMAIN t.data :
           k \in 0 .. (N - 1) /\ End(t, k) \in 1 .. N /\ k < End(t, k)
  BY RxAssumption, HeldIs
<1>2. head \notin DOMAIN t.data
  BY <1>1, HeldIs
<1>3. /\ DOMAIN u.data = (DOMAIN t.data \ gone) \union {head}
      /\ u.data[head] = Bytes(head, tail)
      /\ \A k \in DOMAIN t.data \ gone : u.data[k] = t.data[k]
  <2> DEFINE w == Without(t.data, gone)
  <2>1. DOMAIN w = DOMAIN t.data \ gone /\ \A k \in DOMAIN t.data \ gone : w[k] = t.data[k]
    BY DEF Without
  <2> HIDE DEF w
  <2>2. u.data = [j \in DOMAIN w \union {head} |-> IF j = head THEN Bytes(head, tail) ELSE w[j]]
    BY DEF HoldsWith, Put, w
  <2> QED
    BY <1>2, <2>1, <2>2
<1>4. Len(Bytes(head, tail)) = tail - head
  BY BytesIs
<1>5. /\ End(u, head) = tail
      /\ \A k \in DOMAIN t.data \ gone : End(u, k) = End(t, k)
  BY <1>3, <1>4 DEF End
<1>6. DOMAIN u.data \subseteq 0 .. (N - 1)
  BY <1>1, <1>3
<1>7. ASSUME NEW k \in DOMAIN u.data
      PROVE  /\ Len(u.data[k]) \in Nat \ {0} /\ End(u, k) <= N
             /\ u.data[k] = Bytes(k, End(u, k))
  <2>1. CASE k = head
    BY <1>3, <1>4, <1>5, <2>1
  <2>2. CASE k # head
    <3>1. k \in DOMAIN t.data \ gone
      BY <1>3, <2>2
    <3>2. u.data[k] = t.data[k] /\ End(u, k) = End(t, k)
      BY <1>3, <1>5, <3>1
    <3> QED
      BY <3>1, <3>2 DEF Packets
  <2> QED
    BY <2>1, <2>2
<1>8. ASSUME NEW j \in DOMAIN u.data, NEW k \in DOMAIN u.data, j < k
      PROVE  End(u, j) <= k
  <2>1. CASE j = head
    <3>1. k \in DOMAIN t.data \ gone /\ End(t, k) \in Int /\ k \in Int /\ k < End(t, k)
      BY <1>1, <1>3, <1>8, <2>1
    <3>2. ~(End(t, k) <= head)
      BY <1>8, <2>1, <3>1
    <3>3. tail <= k
      BY <3>1, <3>2 DEF Apart
    <3> QED
      BY <1>5, <2>1, <3>3
  <2>2. CASE j # head /\ k = head
    <3>1. j \in DOMAIN t.data \ gone /\ j \in Int
      BY <1>1, <1>3, <2>2
    <3>2. ~(tail <= j)
      BY <1>8, <2>2, <3>1
    <3>3. End(t, j) <= head
      BY <3>1, <3>2 DEF Apart
    <3> QED
      BY <1>5, <2>2, <3>1, <3>3
  <2>3. CASE j # head /\ k # head
    <3>1. j \in DOMAIN t.data \ gone /\ k \in DOMAIN t.data \ gone
      BY <1>3, <2>3
    <3> QED
      BY <1>5, <1>8, <3>1 DEF Packets
  <2> QED
    BY <2>1, <2>2, <2>3
<1>9. Packets(u)
  BY <1>6, <1>7, <1>8 DEF Packets
<1>10. /\ Held(u) \subseteq 0 .. (N - 1) /\ Held(t) \subseteq 0 .. (N - 1)
       /\ \A p \in Int : p \in Held(u) <=> \E k \in DOMAIN u.data : k <= p /\ p < End(u, k)
       /\ \A p \in Int : p \in Held(t) <=> \E k \in DOMAIN t.data : k <= p /\ p < End(t, k)
  BY <1>9, HeldIs
<1>11. ASSUME NEW p \in Int
       PROVE  p \in Held(u) <=> p \in Held(t) \/ (head <= p /\ p < tail)
  <2>1. ASSUME p \in Held(u)
        PROVE  p \in Held(t) \/ (head <= p /\ p < tail)
    <3>1. PICK k \in DOMAIN u.data : k <= p /\ p < End(u, k)
      BY <1>10, <2>1
    <3>2. CASE k = head
      BY <1>5, <3>1, <3>2
    <3>3. CASE k # head
      <4>1. k \in DOMAIN t.data /\ k <= p /\ p < End(t, k)
        BY <1>3, <1>5, <3>1, <3>3
      <4> QED
        BY <1>10, <4>1
    <3> QED
      BY <3>2, <3>3
  <2>2. ASSUME head <= p /\ p < tail
        PROVE  p \in Held(u)
    BY <1>3, <1>5, <1>10, <2>2
  <2>3. ASSUME p \in Held(t)
        PROVE  p \in Held(u)
    <3>1. PICK k \in DOMAIN t.data : k <= p /\ p < End(t, k)
      BY <1>10, <2>3
    <3>2. k \in Int /\ End(t, k) \in Int
      BY <1>1
    <3>3. CASE k \in gone
      <4>1. head <= p /\ p < tail
        BY <3>1, <3>2, <3>3 DEF Apart
      <4> QED
        BY <2>2, <4>1
    <3>4. CASE k \notin gone
      <4>1. k \in DOMAIN u.data /\ k <= p /\ p < End(u, k)
        BY <1>3, <1>5, <3>1, <3>4
      <4> QED
        BY <1>10, <4>1
    <3> QED
      BY <3>3, <3>4
  <2> QED
    BY <2>1, <2>2, <2>3
<1>12. Held(u) = Held(t) \union (head .. (tail - 1))
  <2>1. \A p \in Held(u) : p \in Int
    BY <1>10
  <2>2. \A p \in Held(t) : p \in Int
    BY <1>10
  <2>3. \A p : p \in head .. (tail - 1) <=> p \in Int /\ head <= p /\ p < tail
    OBVIOUS
  <2> HIDE DEF Held
  <2> QED
    BY <1>11, <2>1, <2>2, <2>3
<1> QED
  BY <1>9, <1>12

\* u is past the hole h, its list true of t with the segment.
MovedOn(u, t, head, tail, h) ==
  LET sk == IF head > t.next THEN UpdateSackList(t.sack, head, tail) ELSE t.sack
  IN /\ u.next = IF h = t.fin THEN h + 1 ELSE h
     /\ u.sack = IF h = t.next THEN sk ELSE ClearSackList(sk, h)

\* The list after a segment.
LEMMA SackAfterAdd ==
  ASSUME NEW t, NEW n, GoodRx(t, n), t.next <= N,
         NEW head \in 0 .. N, NEW tail \in 0 .. N, head < tail, t.next <= head,
         NEW H \in SUBSET (0 .. (N - 1)),
         H = Held(t) \union (head .. (tail - 1)),
         NEW h \in t.next .. N, h \notin H, t.next .. (h - 1) \subseteq H,
         NEW u, Held(u) = H, MovedOn(u, t, head, tail, h)
  PROVE  /\ u.sack \in Seq(Blocks) /\ TrueSack(u)
         /\ head > t.next => /\ h = t.next /\ u.sack # <<>>
                             /\ TakesIn(u.sack, head, tail)
         /\ head = t.next => h > t.next
<1>1. /\ N \in Nat \ {0} /\ t.next \in 0 .. N /\ t.fin \in {None, N}
      /\ t.sack \in Seq(Blocks) /\ TrueSack(t)
      /\ t.next \notin Held(t)
      /\ t.next = N => t.fin # N
  BY RxAssumption DEF GoodRx, IsRx, InOrder, Stop
<1>2. t.next = t.fin => t.next = N /\ t.fin = N
  BY <1>1 DEF None
<1> USE DEF MovedOn
<1>3. CASE head > t.next
  <2>1. h = t.next
    <3>1. t.next \notin H
      BY <1>1, <1>3
    <3> QED
      BY <1>1, <3>1
  <2>2. u.sack = UpdateSackList(t.sack, head, tail) /\ u.next = t.next
    BY <1>1, <1>2, <1>3, <2>1
  <2>3. TrueList(t.sack, H, t.next)
    BY <1>1 DEF TrueSack, TrueList
  <2>4. t.next \in Int /\ head \in Int /\ tail \in Int /\ t.next < head
        /\ head .. (tail - 1) \subseteq H
    BY <1>1, <1>3
  <2> DEFINE l == UpdateSackList(t.sack, head, tail)
  <2>5. /\ l \in Seq(Blocks) /\ l # <<>> /\ TakesIn(l, head, tail)
        /\ TrueList(l, H, t.next)
    BY <1>1, <2>3, <2>4, UpdateSackListIs
  <2> HIDE DEF l
  <2>6. u.sack = l
    BY <2>2 DEF l
  <2>7. TrueSack(u)
    BY <2>2, <2>5, <2>6 DEF TrueSack, TrueList
  <2> QED
    BY <1>3, <2>1, <2>5, <2>6, <2>7
<1>4. CASE head = t.next
  <2>1. h > t.next
    BY <1>1, <1>4
  <2>2. u.sack = ClearSackList(t.sack, h)
    BY <1>1, <1>4, <2>1
  <2> DEFINE l == ClearSackList(t.sack, h)
  <2>3. /\ l \in Seq(Blocks)
        /\ \A j \in 1 .. Len(l) : \E i \in 1 .. Len(t.sack) :
             l[j] = t.sack[i] /\ t.sack[i].second > h
    BY <1>1, ClearSackListIs
  <2> HIDE DEF l
  <2>4. u.sack = l
    BY <2>2 DEF l
  <2>5. ASSUME NEW i \in 1 .. Len(t.sack), t.sack[i].second > h
        PROVE  u.next < t.sack[i].first
    <3> DEFINE x == t.sack[i].first
               y == t.sack[i].second
    <3>1. x \in Int /\ y \in Int /\ x < y /\ x .. (y - 1) \subseteq H
      <4>1. t.sack[i] \in Blocks
        BY <1>1
      <4>2. x \in Int /\ y \in Int
        BY <4>1 DEF Blocks
      <4> QED
        BY <1>1, <4>2 DEF TrueSack, TrueList
    <3>2. y > h
      BY <2>5
    <3> HIDE DEF x, y
    <3>3. h < x
      <4> SUFFICES ASSUME x <= h PROVE FALSE
        BY <1>1, <3>1
      <4>1. h \in x .. (y - 1)
        BY <1>1, <3>1, <3>2
      <4> QED
        BY <3>1, <4>1
    <3>4. x \in H
      BY <3>1
    <3>5. h # N
      BY <1>1, <3>3, <3>4
    <3>6. u.next = h
      BY <1>1, <3>5 DEF None
    <3> QED
      BY <3>3, <3>6 DEF x
  <2>6. TrueSack(u)
    <3> SUFFICES ASSUME NEW i \in 1 .. Len(l)
                 PROVE  /\ u.next < l[i].first /\ l[i].first < l[i].second
                        /\ l[i].first .. (l[i].second - 1) \subseteq H
                        /\ \A j \in 1 .. Len(l) : l[i].second # l[j].first
      BY <2>4 DEF TrueSack, TrueList
    <3>1. PICK x \in 1 .. Len(t.sack) : l[i] = t.sack[x] /\ t.sack[x].second > h
      BY <2>3
    <3>2. u.next < l[i].first
      BY <2>5, <3>1
    <3>3. l[i].first < l[i].second /\ l[i].first .. (l[i].second - 1) \subseteq H
      BY <1>1, <3>1 DEF TrueSack, TrueList
    <3>4. \A j \in 1 .. Len(l) : l[i].second # l[j].first
      <4> SUFFICES ASSUME NEW j \in 1 .. Len(l)
                   PROVE  l[i].second # l[j].first
        OBVIOUS
      <4>1. PICK y \in 1 .. Len(t.sack) : l[j] = t.sack[y]
        BY <2>3
      <4> QED
        BY <1>1, <3>1, <4>1 DEF TrueSack, TrueList
    <3> QED
      BY <3>2, <3>3, <3>4
  <2> QED
    BY <1>4, <2>1, <2>3, <2>4, <2>6
<1> QED
  BY <1>1, <1>3, <1>4

\* The first hole once the positions from head up to tail are filled.
Filled(t, head, tail) ==
  Min((t.next .. (N + 1)) \ (Held(t) \union (head .. (tail - 1))))

\* u is the buffer t with the segment in the place of the packets of gone.
IsStored(u, t, gone, head, tail, h) ==
  LET sk == IF head > t.next THEN UpdateSackList(t.sack, head, tail) ELSE t.sack
  IN u = [data |-> Put(Without(t.data, gone), head, Bytes(head, tail)),
          next |-> IF h = t.fin THEN h + 1 ELSE h,
          fin |-> t.fin,
          size |-> t.size - Cardinality(UNION {{k} \X DOMAIN t.data[k] : k \in gone})
                      + (tail - head),
          avail |-> t.avail + h - t.next,
          sack |-> IF h = t.next THEN sk ELSE ClearSackList(sk, h)]

\* The buffer is as good once a segment that it lacks, and that the window takes, is
\* in its place; the list begins with it when it comes beyond the first hole.
LEMMA StoredGood ==
  ASSUME NEW t, NEW n, GoodRx(t, n), t.next <= N,
         NEW head \in 0 .. N, NEW tail \in 0 .. N, head < tail, t.next <= head,
         tail <= n + MaxBuffer, head \notin Held(t),
         NEW gone \in SUBSET DOMAIN t.data, Apart(t, gone, head, tail),
         NEW h, h = Filled(t, head, tail),
         NEW u, IsStored(u, t, gone, head, tail, h)
  PROVE  /\ GoodRx(u, n) /\ u.fin = t.fin
         /\ Held(u) = Held(t) \union (head .. (tail - 1))
         /\ u.next = t.next =>
              head .. (tail - 1) \subseteq u.sack[1].first .. (u.sack[1].second - 1)
<1> DEFINE H == Held(t)
           I == head .. (tail - 1)
           G == H \union I
           swallowed == Cardinality(UNION {{k} \X DOMAIN t.data[k] : k \in gone})
           sk == IF head > t.next THEN UpdateSackList(t.sack, head, tail) ELSE t.sack
<1>1. /\ N \in Nat \ {0} /\ MaxBuffer \in Nat \ {0} /\ n \in 0 .. N
      /\ t.next \in 0 .. N /\ t.fin \in {None, N} /\ None = -1 /\ Stop(t) = t.next
      /\ n <= t.next /\ n .. (t.next - 1) \subseteq H
      /\ H \in SUBSET (0 .. (N - 1))
      /\ Packets(t)
      /\ \A p \in H : n <= p /\ p < n + MaxBuffer
      /\ t.fin = N => N <= n + MaxBuffer
      /\ t.size = Cardinality(H) /\ t.avail = t.next - n
      /\ t.next \notin H
      /\ t.next = N => t.fin # N
  BY RxAssumption, HeldIs DEF GoodRx, IsRx, InOrder, InWindow, Counts, Stop, None
<1>2. G \in SUBSET (0 .. (N - 1))
  <2>1. I \subseteq 0 .. (N - 1)
    BY <1>1
  <2> QED
    BY <1>1, <2>1
<1>3. h = Min((t.next .. (N + 1)) \ G)
  BY DEF Filled
<1>4. /\ u.data = Put(Without(t.data, gone), head, Bytes(head, tail))
      /\ u.next = IF h = t.fin THEN h + 1 ELSE h
      /\ u.fin = t.fin
      /\ u.size = t.size - swallowed + (tail - head)
      /\ u.avail = t.avail + h - t.next
      /\ u.sack = IF h = t.next THEN sk ELSE ClearSackList(sk, h)
      /\ u = [data |-> u.data, next |-> u.next, fin |-> u.fin, size |-> u.size,
              avail |-> u.avail, sack |-> u.sack]
  BY DEF IsStored
<1>5. Packets(u) /\ Held(u) = G
  <2>1. Packets(t) /\ HoldsWith(u, t, gone, head, tail)
    BY <1>1, <1>4 DEF HoldsWith
  <2> HIDE DEF H, I, G, sk, swallowed
  <2>2. Packets(u) /\ Held(u) = Held(t) \union (head .. (tail - 1))
    BY <2>1, PutIs
  <2> QED
    BY <2>2 DEF G, H, I
<1> HIDE DEF G, sk, swallowed
<1>6. h \in t.next .. N /\ h \notin G /\ t.next .. (h - 1) \subseteq G
  <2>1. t.next \in 0 .. (N + 1)
    BY <1>1
  <2>2. /\ h \in t.next .. (N + 1) /\ h \notin G
        /\ t.next .. (h - 1) \subseteq G /\ (t.next <= N => h <= N)
    BY <1>2, <1>3, <2>1, FirstMissingIs
  <2> QED
    BY <1>1, <2>2
<1>7. u.next \in 0 .. (N + 1) /\ Stop(u) = h /\ (h = N => (u.next = N + 1 <=> u.fin = N))
  BY <1>1, <1>4, <1>6 DEF Stop
<1>8. InOrder(u, n)
  <2>1. n .. (h - 1) \subseteq G
    <3>1. \A p \in n .. (h - 1) : p \in n .. (t.next - 1) \/ p \in t.next .. (h - 1)
      BY <1>1, <1>6
    <3>2. n .. (t.next - 1) \subseteq G
      BY <1>1 DEF G
    <3> QED
      BY <1>6, <3>1, <3>2
  <2>2. n <= h
    BY <1>1, <1>6
  <2> QED
    BY <1>1, <1>5, <1>6, <1>7, <2>1, <2>2 DEF InOrder
<1>9. InWindow(u, n)
  <2>1. \A p \in I : n <= p /\ p < n + MaxBuffer
    BY <1>1
  <2> QED
    BY <1>1, <1>4, <1>5, <2>1 DEF InWindow, G
<1>10. u.size = Cardinality(G)
  <2>1. swallowed = Cardinality(H \intersect I)
    BY <1>1, SwallowedIs DEF swallowed
  <2>2. IsFiniteSet(I) /\ Cardinality(I) = tail - head
    <3>1. head \in Int /\ tail - 1 \in Int /\ tail \in Int
      BY <1>1
    <3>2. IsFiniteSet(I) /\ Cardinality(I) = IF head > tail - 1 THEN 0 ELSE tail - 1 - head + 1
      BY <3>1, FS_Interval
    <3> QED
      BY <3>1, <3>2
  <2>3. IsFiniteSet(H)
    <3>1. IsFiniteSet(0 .. (N - 1))
      BY <1>1, FS_Interval
    <3> QED
      BY <1>1, <3>1, FS_Subset
  <2> HIDE DEF I, H
  <2>4. Cardinality(G) = Cardinality(H) + Cardinality(I) - Cardinality(H \intersect I)
    BY <2>2, <2>3, FS_Union DEF G
  <2>5. /\ Cardinality(H) \in Nat /\ Cardinality(H \intersect I) \in Nat
    <3>1. IsFiniteSet(H \intersect I)
      BY <2>3, FS_Intersection
    <3> QED
      BY <2>3, <3>1, FS_CardinalityType
  <2> QED
    BY <1>1, <1>4, <2>1, <2>2, <2>4, <2>5
<1>11. Counts(u, n)
  <2>1. u.avail = h - n
    BY <1>1, <1>4, <1>6
  <2> QED
    BY <1>5, <1>7, <1>10, <2>1 DEF Counts
<1>12. /\ u.sack \in Seq(Blocks) /\ TrueSack(u)
       /\ head > t.next => /\ h = t.next /\ u.sack # <<>>
                           /\ TakesIn(u.sack, head, tail)
       /\ head = t.next => h > t.next
  <2>1. G = Held(t) \union (head .. (tail - 1))
    BY DEF G
  <2>2. Held(u) = G /\ MovedOn(u, t, head, tail, h)
    BY <1>4, <1>5 DEF MovedOn, sk
  <2> QED
    BY <1>2, <1>6, <2>1, <2>2, SackAfterAdd
<1>13. GoodRx(u, n)
  <2>1. IsRx(u)
    BY <1>1, <1>4, <1>7, <1>12 DEF IsRx
  <2> QED
    BY <1>5, <1>8, <1>9, <1>11, <1>12, <2>1 DEF GoodRx
<1>14. ASSUME u.next = t.next
       PROVE  I \subseteq u.sack[1].first .. (u.sack[1].second - 1)
  <2>1. head > t.next
    <3> SUFFICES ASSUME head = t.next PROVE FALSE
      BY <1>1
    <3>1. h > t.next
      BY <1>12
    <3> QED
      BY <1>1, <1>4, <1>6, <1>14, <3>1
  <2>2. u.sack # <<>> /\ TakesIn(u.sack, head, tail) /\ u.sack \in Seq(Blocks)
    BY <1>12, <2>1
  <2>3. u.sack[1] \in Blocks
    BY <2>2
  <2> DEFINE x == u.sack[1].first
             y == u.sack[1].second
  <2>4. x \in Int /\ y \in Int /\ x <= head /\ tail <= y
    BY <2>2, <2>3 DEF Blocks, TakesIn
  <2> HIDE DEF x, y
  <2>5. I \subseteq x .. (y - 1)
    BY <1>1, <2>4
  <2> QED
    BY <2>5 DEF x, y
<1> QED
  BY <1>4, <1>5, <1>13, <1>14 DEF G

\* A segment that the window takes is kept to the last byte; the buffer is as good
\* as it was, the list begins with what was added beyond the first hole.
LEMMA AddGood ==
  ASSUME NEW t, NEW n, GoodRx(t, n), NEW a \in 0 .. N, NEW b \in 0 .. N, a < b,
         b <= n + MaxBuffer
  PROVE  LET u == Add(t, a, Bytes(a, b))
         IN  /\ GoodRx(u, n) /\ u.fin = t.fin
             /\ Held(t) \subseteq Held(u)
             /\ Held(u) \ Held(t) \subseteq a .. (b - 1)
             /\ a .. (b - 1) \subseteq (0 .. (n - 1)) \union Held(u)
             /\ Held(u) # Held(t) /\ u.next = t.next =>
                  Held(u) \ Held(t) \subseteq u.sack[1].first .. (u.sack[1].second - 1)
<1> DEFINE c == Trimmed(t, a, b)
           u == Add(t, a, Bytes(a, b))
           h == Hole(t, c)
           head == c.head
           tail == c.tail
           swallowed == Cardinality(UNION {{k} \X DOMAIN t.data[k] : k \in c.gone})
           sk == IF head > t.next THEN UpdateSackList(t.sack, head, tail) ELSE t.sack
           H == Held(t)
           I == head .. (tail - 1)
<1>1. /\ N \in Nat \ {0} /\ MaxBuffer \in Nat \ {0} /\ n \in 0 .. N
      /\ t.next \in 0 .. (N + 1)
      /\ n .. (Stop(t) - 1) \subseteq H
      /\ H \in SUBSET (0 .. (N - 1))
  BY RxAssumption, HeldIs DEF GoodRx, IsRx, InOrder
<1>2. 0 .. (t.next - 1) \subseteq (0 .. (n - 1)) \union H \union {N}
  <2> SUFFICES ASSUME NEW p \in 0 .. (t.next - 1), p \notin 0 .. (n - 1), p # N
               PROVE  p \in H
    OBVIOUS
  <2>1. p \in n .. (Stop(t) - 1)
    BY <1>1 DEF Stop
  <2> QED
    BY <1>1, <2>1
<1>3. /\ head \in 0 .. (N + 1) /\ tail \in 0 .. N /\ tail <= b
      /\ c.gone \subseteq DOMAIN t.data
      /\ head < tail =>
           /\ a <= head /\ t.next <= head /\ head \notin H
           /\ a .. (b - 1) \subseteq (0 .. (t.next - 1)) \union H \union I
           /\ Apart(t, c.gone, head, tail)
      /\ ~(head < tail) =>
           a .. (b - 1) \subseteq (0 .. (t.next - 1)) \union H
  BY TrimmedIs
<1>4. /\ ~(head < tail) => u = t
      /\ head < tail =>
           u = [data |-> Put(Without(t.data, c.gone), head, Bytes(head, tail)),
                next |-> IF h = t.fin THEN h + 1 ELSE h,
                fin |-> t.fin,
                size |-> t.size - swallowed + (tail - head),
                avail |-> t.avail + h - t.next,
                sack |-> IF h = t.next THEN sk ELSE ClearSackList(sk, h)]
  BY AddIs
<1>5. N \notin a .. (b - 1)
  BY <1>1
<1>6. h = Min((t.next .. (N + 1)) \ (Held(t) \union (head .. (tail - 1))))
  BY DEF Hole
<1> DEFINE gone == c.gone
<1> HIDE DEF u, H, h, sk, head, tail, gone, swallowed
<1>7. CASE ~(head < tail)
  <2>1. u = t /\ a .. (b - 1) \subseteq (0 .. (n - 1)) \union H
    BY <1>2, <1>3, <1>4, <1>5, <1>7
  <2> QED
    BY <2>1 DEF u, H
<1>8. CASE head < tail
  <2>1. /\ head \in 0 .. N /\ t.next <= N /\ t.next <= head /\ a <= head
        /\ tail <= n + MaxBuffer
    BY <1>1, <1>3, <1>8
  <2>2. IsStored(u, t, gone, head, tail, h) /\ h = Filled(t, head, tail)
    BY <1>4, <1>6, <1>8, Zenon DEF gone, sk, swallowed, IsStored, Filled
  <2>3. /\ gone \in SUBSET DOMAIN t.data /\ Apart(t, gone, head, tail)
        /\ tail \in 0 .. N /\ head \notin Held(t)
    BY <1>3, <1>8 DEF gone, H
  <2>5. /\ GoodRx(u, n) /\ u.fin = t.fin
        /\ Held(u) = Held(t) \union (head .. (tail - 1))
        /\ u.next = t.next =>
             head .. (tail - 1) \subseteq u.sack[1].first .. (u.sack[1].second - 1)
    BY <1>8, <2>1, <2>2, <2>3, StoredGood
  <2>6. head .. (tail - 1) \subseteq a .. (b - 1)
    BY <1>1, <1>3, <2>1
  <2>7. a .. (b - 1) \subseteq (0 .. (n - 1)) \union Held(u)
    BY <1>2, <1>3, <1>5, <1>8, <2>5 DEF H
  <2> QED
    BY <2>5, <2>6, <2>7 DEF u
<1> QED
  BY <1>7, <1>8

-----------------------------------------------------------------------------
\* Extract.

\* Of t, u keeps what is at or after cut.
IsCut(u, t, cut) ==
  u.data = LET rest == {k \in DOMAIN t.data : End(t, k) > cut}
           IN [j \in {IF k < cut THEN cut ELSE k : k \in rest} |->
                 LET k == CHOOSE i \in rest : j = IF i < cut THEN cut ELSE i
                 IN SubSeq(t.data[k], j - k + 1, Len(t.data[k]))]

\* The packets from cut on, the one across it split there.
LEMMA CutIs ==
  ASSUME NEW t, Packets(t), NEW cut \in 0 .. N,
         NEW u, IsCut(u, t, cut)
  PROVE  Packets(u) /\ Held(u) = Held(t) \ (0 .. (cut - 1))
<1> DEFINE rest == {k \in DOMAIN t.data : End(t, k) > cut}
           from(k) == IF k < cut THEN cut ELSE k
           of(j) == CHOOSE i \in rest : j = from(i)
<1>1. /\ N \in Nat \ {0}
      /\ \A k \in DOMAIN t.data :
           k \in 0 .. (N - 1) /\ End(t, k) \in 1 .. N /\ k < End(t, k)
  BY RxAssumption, HeldIs
<1>2. ASSUME NEW k \in rest
      PROVE  /\ k \in DOMAIN t.data /\ from(k) \in 0 .. (N - 1)
             /\ cut <= from(k) /\ k <= from(k) /\ from(k) < End(t, k)
             /\ from(k) = cut \/ from(k) = k
  BY <1>1
<1>3. ASSUME NEW j \in rest, NEW k \in rest, from(j) = from(k)
      PROVE  j = k
  <2> DEFINE p == from(j)
  <2>1. /\ p \in Int /\ j \in DOMAIN t.data /\ k \in DOMAIN t.data
        /\ j <= p /\ p < End(t, j) /\ k <= p /\ p < End(t, k)
    BY <1>2, <1>3
  <2> HIDE DEF p
  <2> QED
    BY <2>1, OneHolds
<1>4. DOMAIN u.data = {from(k) : k \in rest}
  BY DEF IsCut
<1>5. ASSUME NEW k \in rest
      PROVE  u.data[from(k)] = Bytes(from(k), End(t, k))
  <2>1. of(from(k)) = k
    <3>1. of(from(k)) \in rest /\ from(k) = from(of(from(k)))
      OBVIOUS
    <3> HIDE DEF of, from, rest
    <3> QED
      BY <1>3, <3>1
  <2>2. u.data[from(k)] = SubSeq(t.data[k], from(k) - k + 1, Len(t.data[k]))
    <3> DEFINE j == from(k)
    <3>1. j \in {from(i) : i \in rest}
      OBVIOUS
    <3>2. u.data[j] = SubSeq(t.data[of(j)], j - of(j) + 1, Len(t.data[of(j)]))
      <4> HIDE DEF j
      <4> QED
        BY <3>1 DEF IsCut
    <3> HIDE DEF of
    <3> QED
      BY <2>1, <3>2
  <2> DEFINE x == from(k)
             y == End(t, k)
  <2>3. k \in Int /\ x \in Int /\ y \in Int /\ k <= x /\ x <= y /\ k <= y
    BY <1>1, <1>2
  <2>4. t.data[k] = Bytes(k, y)
    BY DEF Packets
  <2>5. u.data[x] = SubSeq(t.data[k], x - k + 1, Len(t.data[k]))
    BY <2>2
  <2> HIDE DEF x, y
  <2>6. Len(Bytes(k, y)) = y - k
    BY <2>3, BytesIs
  <2>7. y <= y
    BY <2>3
  <2>8. SubSeq(Bytes(k, y), x - k + 1, y - k) = Bytes(x, y)
    BY <2>3, <2>7, PieceIs
  <2> QED
    BY <2>4, <2>5, <2>6, <2>8 DEF x, y
<1> HIDE DEF from
<1>6. ASSUME NEW k \in rest
      PROVE  End(u, from(k)) = End(t, k)
  <2> DEFINE x == from(k)
             y == End(t, k)
  <2>1. x \in Int /\ y \in Int /\ x <= y
    BY <1>1, <1>2
  <2>2. u.data[x] = Bytes(x, y)
    BY <1>5
  <2> HIDE DEF x, y
  <2>3. Len(Bytes(x, y)) = y - x
    BY <2>1, BytesIs
  <2>4. End(u, x) = y
    BY <2>1, <2>2, <2>3 DEF End
  <2> QED
    BY <2>4 DEF x, y
<1>7. \A j \in DOMAIN u.data : \E k \in rest : j = from(k)
  BY <1>4
<1> HIDE DEF rest
<1>8. ASSUME NEW j \in DOMAIN u.data
      PROVE  /\ j \in 0 .. (N - 1) /\ Len(u.data[j]) \in Nat \ {0} /\ End(u, j) <= N
             /\ u.data[j] = Bytes(j, End(u, j))
  <2>1. PICK k \in rest : j = from(k)
    BY <1>7
  <2>2. k \in DOMAIN t.data /\ j \in 0 .. (N - 1) /\ j < End(t, k)
    BY <1>2, <2>1
  <2>3. End(t, k) \in 1 .. N
    BY <1>1, <2>2
  <2>4. End(u, j) = End(t, k) /\ u.data[j] = Bytes(j, End(t, k))
    BY <1>5, <1>6, <2>1
  <2>5. Len(Bytes(j, End(t, k))) = End(t, k) - j
    <3>1. j \in Int /\ End(t, k) \in Int /\ j <= End(t, k)
      BY <2>2, <2>3
    <3> QED
      BY <3>1, BytesIs
  <2> QED
    BY <2>2, <2>3, <2>4, <2>5
<1>9. ASSUME NEW i \in DOMAIN u.data, NEW j \in DOMAIN u.data, i < j
      PROVE  End(u, i) <= j
  <2>1. PICK x \in rest : i = from(x)
    BY <1>7
  <2>2. PICK y \in rest : j = from(y)
    BY <1>7
  <2>3. /\ x \in DOMAIN t.data /\ y \in DOMAIN t.data
        /\ i \in Int /\ j \in Int /\ x <= i /\ y <= j /\ i < End(t, x) /\ j < End(t, y)
    BY <1>2, <2>1, <2>2
  <2>4. /\ x \in Int /\ y \in Int /\ End(t, x) \in Int /\ End(t, y) \in Int
    BY <1>1, <2>3
  <2>5. x # y
    BY <1>9, <2>1, <2>2, <2>3
  <2>6. (x < y => End(t, x) <= y) /\ (y < x => End(t, y) <= x)
    BY <2>3 DEF Packets
  <2>7. End(u, i) = End(t, x)
    BY <1>6, <2>1
  <2> QED
    BY <1>9, <2>3, <2>4, <2>5, <2>6, <2>7
<1>10. Packets(u)
  BY <1>8, <1>9 DEF Packets
<1>11. /\ Held(u) \subseteq 0 .. (N - 1) /\ Held(t) \subseteq 0 .. (N - 1)
       /\ \A p \in Int : p \in Held(u) <=> \E k \in DOMAIN u.data : k <= p /\ p < End(u, k)
       /\ \A p \in Int : p \in Held(t) <=> \E k \in DOMAIN t.data : k <= p /\ p < End(t, k)
  BY <1>10, HeldIs
<1>12. ASSUME NEW p \in Int
       PROVE  p \in Held(u) <=> p \in Held(t) /\ cut <= p
  <2>1. ASSUME p \in Held(u)
        PROVE  p \in Held(t) /\ cut <= p
    <3>1. PICK j \in DOMAIN u.data : j <= p /\ p < End(u, j)
      BY <1>11, <2>1
    <3>2. PICK k \in rest : j = from(k)
      BY <1>7
    <3>3. k \in DOMAIN t.data /\ cut <= j /\ k <= j /\ End(u, j) = End(t, k) /\ j \in Int
      BY <1>2, <1>6, <3>2
    <3>4. k \in Int
      BY <1>1, <3>3
    <3>5. cut <= p /\ k <= p /\ p < End(t, k)
      BY <3>1, <3>3, <3>4
    <3> QED
      BY <1>11, <3>3, <3>5
  <2>2. ASSUME p \in Held(t), cut <= p
        PROVE  p \in Held(u)
    <3>1. PICK k \in DOMAIN t.data : k <= p /\ p < End(t, k)
      BY <1>11, <2>2
    <3>2. k \in Int /\ End(t, k) \in Int
      BY <1>1
    <3>3. k \in rest
      BY <2>2, <3>1, <3>2 DEF rest
    <3>4. /\ from(k) \in DOMAIN u.data /\ End(u, from(k)) = End(t, k)
      BY <1>4, <1>6, <3>3
    <3>5. from(k) <= p
      BY <1>2, <2>2, <3>1, <3>3
    <3> QED
      BY <1>11, <3>1, <3>4, <3>5
  <2> QED
    BY <2>1, <2>2
<1>13. Held(u) = Held(t) \ (0 .. (cut - 1))
  <2>1. \A p \in Held(u) : p \in Int
    BY <1>11
  <2>2. \A p \in Held(t) : p \in Int /\ p >= 0
    BY <1>11
  <2>3. \A p : p \in 0 .. (cut - 1) <=> p \in Int /\ 0 <= p /\ p < cut
    OBVIOUS
  <2> HIDE DEF Held
  <2> QED
    BY <1>12, <2>1, <2>2, <2>3
<1> QED
  BY <1>10, <1>13

\* What Extract returns and leaves of m bytes that are in order.
LEMMA ExtractGood ==
  ASSUME NEW t, NEW n, GoodRx(t, n), NEW m \in Nat \ {0}, m <= t.avail
  PROVE  LET u == Extract(t, m)
         IN  /\ n + m \in 0 .. N /\ n + m <= Stop(t)
             /\ GoodRx(u, n + m) /\ u.next = t.next /\ u.fin = t.fin
             /\ Held(u) = Held(t) \ (0 .. (n + m - 1))
             /\ Head_(t, m) = Bytes(n, n + m)
<1> DEFINE u == Extract(t, m)
           cut == n + m
           H == Held(t)
<1>1. /\ N \in Nat \ {0} /\ MaxBuffer \in Nat \ {0} /\ n \in 0 .. N
      /\ t.next \in 0 .. (N + 1) /\ t.fin \in {None, N} /\ None = -1
      /\ n <= Stop(t) /\ Stop(t) \in 0 .. N /\ Stop(t) <= t.next
      /\ n .. (Stop(t) - 1) \subseteq H
      /\ H \in SUBSET (0 .. (N - 1))
      /\ Packets(t)
      /\ \A p \in H : n <= p /\ p < n + MaxBuffer
      /\ t.fin = N => N <= n + MaxBuffer
      /\ t.size = Cardinality(H) /\ t.avail = Stop(t) - n
      /\ Stop(t) \notin H
      /\ Stop(t) = N => (t.next = N + 1 <=> t.fin = N)
      /\ t.sack \in Seq(Blocks) /\ TrueSack(t)
  BY RxAssumption, HeldIs DEF GoodRx, IsRx, InOrder, InWindow, Counts, Stop, None
<1>2. cut \in 0 .. N /\ cut <= Stop(t) /\ n < Stop(t) /\ n < cut
  BY <1>1
<1>3. Begin(t) = n
  BY <1>2, BeginIs
<1>4. /\ u.next = t.next /\ u.fin = t.fin /\ u.sack = t.sack
      /\ u.size = t.size - m /\ u.avail = t.avail - m
      /\ IsCut(u, t, cut)
      /\ u = [data |-> u.data, next |-> u.next, fin |-> u.fin, size |-> u.size,
              avail |-> u.avail, sack |-> u.sack]
  <2> DEFINE rest == {k \in DOMAIN t.data : End(t, k) > cut}
             data == [j \in {IF k < cut THEN cut ELSE k : k \in rest} |->
                        LET k == CHOOSE i \in rest : j = IF i < cut THEN cut ELSE i
                        IN SubSeq(t.data[k], j - k + 1, Len(t.data[k]))]
             size == t.size - m
             avail == t.avail - m
  <2>1. t = [data |-> t.data, next |-> t.next, fin |-> t.fin, size |-> t.size,
             avail |-> t.avail, sack |-> t.sack]
    BY DEF GoodRx, IsRx
  <2>2. u = [t EXCEPT !.data = data, !.size = size, !.avail = avail]
    BY <1>3 DEF Extract
  <2> HIDE DEF u, data, size, avail
  <2>3. u = [data |-> data, next |-> t.next, fin |-> t.fin, size |-> size,
             avail |-> avail, sack |-> t.sack]
    BY <2>1, <2>2
  <2>4. u.data = data
    BY <2>3
  <2>5. IsCut(u, t, cut)
    BY <2>4 DEF IsCut, data
  <2> QED
    BY <2>3, <2>5 DEF size, avail
<1> HIDE DEF u
<1>5. Packets(u) /\ Held(u) = H \ (0 .. (cut - 1))
  BY <1>1, <1>2, <1>4, CutIs
<1> DEFINE G == Held(u)
<1>6. /\ G = H \ (0 .. (cut - 1))
  BY <1>5
<1> HIDE DEF G, H, cut
<1>7. Stop(u) = Stop(t)
  BY <1>4 DEF Stop
<1>8. InOrder(u, cut)
  <2>1. cut .. (Stop(t) - 1) \subseteq G
    <3>1. \A p \in cut .. (Stop(t) - 1) : p \in n .. (Stop(t) - 1) /\ p \notin 0 .. (cut - 1)
      BY <1>1, <1>2
    <3> QED
      BY <1>1, <1>6, <3>1
  <2>2. Stop(t) \notin G
    BY <1>1, <1>6
  <2> QED
    BY <1>1, <1>2, <1>4, <1>7, <2>1, <2>2 DEF InOrder, G
<1>9. InWindow(u, cut)
  <2>1. \A p \in G : cut <= p /\ p < cut + MaxBuffer
    <3> SUFFICES ASSUME NEW p \in G
                 PROVE  cut <= p /\ p < cut + MaxBuffer
      OBVIOUS
    <3>1. p \in 0 .. (N - 1) /\ p \notin 0 .. (cut - 1) /\ p < n + MaxBuffer
      BY <1>1, <1>6
    <3> QED
      BY <1>1, <1>2, <3>1
  <2>2. t.fin = N => N <= cut + MaxBuffer
    BY <1>1, <1>2
  <2> QED
    BY <1>4, <2>1, <2>2 DEF InWindow, G
<1>10. u.size = Cardinality(G)
  <2> DEFINE I == n .. (cut - 1)
  <2>1. H = G \union I /\ G \intersect I = {}
    <3>1. I \subseteq H
      <4>1. I \subseteq n .. (Stop(t) - 1)
        BY <1>1, <1>2
      <4> QED
        BY <1>1, <4>1
    <3>2. \A p \in H : p \in Int /\ n <= p
      BY <1>1
    <3>3. \A p \in H : p \in 0 .. (cut - 1) <=> p \in I
      BY <1>1, <1>2, <3>2
    <3> QED
      BY <1>6, <3>1, <3>3
  <2>2. IsFiniteSet(H)
    <3>1. IsFiniteSet(0 .. (N - 1))
      BY <1>1, FS_Interval
    <3> QED
      BY <1>1, <3>1, FS_Subset
  <2>3. IsFiniteSet(I) /\ Cardinality(I) = m
    <3>1. n \in Int /\ cut - 1 \in Int
      BY <1>1, <1>2
    <3>2. IsFiniteSet(I) /\ Cardinality(I) = IF n > cut - 1 THEN 0 ELSE cut - 1 - n + 1
      BY <3>1, FS_Interval
    <3> QED
      BY <1>1, <3>2 DEF cut
  <2> HIDE DEF I
  <2>4. IsFiniteSet(G)
    BY <1>6, <2>2, FS_Subset
  <2>5. Cardinality(H) = Cardinality(G) + Cardinality(I) - Cardinality(G \intersect I)
    BY <2>1, <2>3, <2>4, FS_Union
  <2>6. Cardinality(G \intersect I) = 0 /\ Cardinality(G) \in Nat
    BY <2>1, <2>4, FS_EmptySet, FS_CardinalityType
  <2> QED
    BY <1>1, <1>4, <2>3, <2>5, <2>6
<1>11. Counts(u, cut)
  <2>1. u.avail = Stop(t) - cut
    BY <1>1, <1>4 DEF cut
  <2> QED
    BY <1>7, <1>10, <2>1 DEF Counts, G
<1>12. TrueSack(u)
  <2>1. ASSUME NEW i \in 1 .. Len(t.sack)
        PROVE  t.sack[i].first .. (t.sack[i].second - 1) \subseteq G
    <3> DEFINE x == t.sack[i].first
               y == t.sack[i].second
    <3>1. t.sack[i] \in Blocks
      BY <1>1
    <3>2. x \in Int /\ y \in Int /\ t.next < x /\ x .. (y - 1) \subseteq H
      BY <1>1, <3>1 DEF Blocks, TrueSack, TrueList, H
    <3> HIDE DEF x, y
    <3>3. \A p \in x .. (y - 1) : p \in H /\ p \notin 0 .. (cut - 1)
      BY <1>1, <1>2, <3>2
    <3> QED
      BY <1>6, <3>3 DEF x, y
  <2> QED
    BY <1>1, <1>4, <2>1 DEF TrueSack, TrueList, G
<1>13. GoodRx(u, cut)
  <2>1. IsRx(u)
    BY <1>1, <1>4 DEF IsRx
  <2> QED
    BY <1>5, <1>8, <1>9, <1>11, <1>12, <2>1 DEF GoodRx
<1>14. Head_(t, m) = Bytes(n, n + m)
  <2> DEFINE byte(i) == LET p == Begin(t) + i - 1
                            k == CHOOSE j \in DOMAIN t.data : p \in Positions(t, j)
                        IN t.data[k][p - k + 1]
  <2>1. Head_(t, m) = [i \in 1 .. m |-> byte(i)]
    BY DEF Head_
  <2>2. ASSUME NEW i \in 1 .. m
        PROVE  byte(i) = n + i - 1
    <3> DEFINE p == Begin(t) + i - 1
               k == CHOOSE j \in DOMAIN t.data : p \in Positions(t, j)
    <3>0. byte(i) = t.data[k][p - k + 1] /\ p = n + i - 1
      BY <1>3
    <3> HIDE DEF byte
    <3>1. p \in n .. (Stop(t) - 1)
      BY <1>1, <1>2, <3>0 DEF cut
    <3>2. p \in H /\ p \in Int
      BY <1>1, <3>1
    <3>3. \E j \in DOMAIN t.data : p \in Positions(t, j)
      BY <3>2 DEF Held, H
    <3>4. k \in DOMAIN t.data /\ p \in Positions(t, k)
      BY <3>3
    <3> HIDE DEF p, k
    <3>5. k \in Int /\ End(t, k) \in Int /\ k <= p /\ p < End(t, k) /\ k < End(t, k)
      BY <1>1, <3>2, <3>4, HeldIs DEF Positions
    <3>6. t.data[k] = Bytes(k, End(t, k))
      BY <1>1, <3>4 DEF Packets
    <3> DEFINE y == End(t, k)
    <3>7. \A q \in 1 .. (y - k) : Bytes(k, y)[q] = k + q - 1
      <4>1. k <= y
        BY <3>5
      <4> HIDE DEF y
      <4>2. y \in Int
        BY <3>5 DEF y
      <4> QED
        BY <3>5, <4>1, <4>2, BytesIs
    <3>8. t.data[k][p - k + 1] = p
      <4>1. p - k + 1 \in 1 .. (y - k)
        BY <3>2, <3>5
      <4>2. Bytes(k, y)[p - k + 1] = k + (p - k + 1) - 1
        BY <3>7, <4>1
      <4> QED
        BY <3>2, <3>5, <3>6, <4>2
    <3> QED
      BY <3>0, <3>8
  <2> HIDE DEF byte
  <2>3. Head_(t, m) = [i \in 1 .. m |-> n + i - 1]
    BY <2>1, <2>2
  <2>4. n + m - n = m
    BY <1>1
  <2>5. Bytes(n, n + m) = [i \in 1 .. m |-> n + i - 1]
    BY <1>1, <2>4 DEF Bytes
  <2> QED
    BY <2>3, <2>5
<1>15. n + m \in 0 .. N /\ n + m <= Stop(t) /\ GoodRx(u, n + m)
  BY <1>2, <1>13 DEF cut
<1>16. Held(u) = Held(t) \ (0 .. (n + m - 1))
  BY <1>1, <1>5 DEF cut, H
<1> QED
  BY <1>4, <1>14, <1>15, <1>16, Zenon DEF u

-----------------------------------------------------------------------------
\* The invariant of the socket and its peer.

\* The buffer starts where the application has stopped reading, what it has read is
\* the stream, and the window the sender knows is one the buffer can keep.
RxInv ==
  /\ GoodRx(rx, Len(out))
  /\ out = Bytes(0, Len(out))
  /\ edge \in 0 .. N /\ edge <= Len(out) + MaxBuffer

\* The buffer is empty and the window the sender knows is the whole buffer.
LEMMA InitInv ==
  ASSUME Init
  PROVE  RxInv
<1>1. /\ N \in Nat \ {0} /\ MaxBuffer \in Nat \ {0}
      /\ rx = EmptyRx /\ out = <<>> /\ edge = Lesser(N, MaxBuffer)
  BY RxAssumption DEF Init
<1>2. /\ rx.next = 0 /\ rx.fin = None /\ rx.size = 0 /\ rx.avail = 0 /\ rx.sack = <<>>
      /\ rx.data = <<>>
      /\ rx = [data |-> rx.data, next |-> rx.next, fin |-> rx.fin, size |-> rx.size,
               avail |-> rx.avail, sack |-> rx.sack]
  BY <1>1 DEF EmptyRx
<1>3. DOMAIN rx.data = {} /\ Len(out) = 0
  BY <1>1, <1>2
<1>4. Held(rx) = {} /\ Stop(rx) = 0
  BY <1>1, <1>2, <1>3 DEF Held, Stop
<1>5. IsRx(rx) /\ Packets(rx)
  <2>1. rx.sack \in Seq(Blocks)
    BY <1>2
  <2> QED
    BY <1>1, <1>2, <1>3, <2>1 DEF IsRx, Packets
<1>6. InOrder(rx, 0) /\ InWindow(rx, 0)
  BY <1>1, <1>2, <1>4 DEF InOrder, InWindow, None
<1>7. Counts(rx, 0)
  BY <1>2, <1>4, FS_EmptySet DEF Counts
<1>8. TrueSack(rx)
  <2>1. Len(rx.sack) = 0
    BY <1>2
  <2> QED
    BY <2>1 DEF TrueSack, TrueList
<1>9. out = Bytes(0, 0)
  BY <1>1 DEF Bytes
<1> QED
  BY <1>1, <1>3, <1>5, <1>6, <1>7, <1>8, <1>9 DEF RxInv, GoodRx, Lesser

\* A segment that the sender may send and the socket does not refuse ends within the
\* window.
LEMMA TakenFits ==
  ASSUME RxInv, NEW a \in 0 .. N, NEW b \in 0 .. N, MaySend(a, b), ~OutOfRange(rx, a, b)
  PROVE  a < b /\ b <= Len(out) + MaxBuffer
<1> DEFINE n == Len(out)
<1>1. /\ N \in Nat \ {0} /\ MaxBuffer \in Nat \ {0} /\ n \in 0 .. N
      /\ edge \in 0 .. N /\ edge <= n + MaxBuffer
      /\ GoodRx(rx, n)
  BY RxAssumption DEF RxInv, GoodRx, InOrder
<1>2. a < b /\ (b <= edge \/ (a = edge /\ b = a + 1))
  BY DEF MaySend
<1>3. ~(MaxRxSequence(rx) <= a)
  BY DEF OutOfRange
<1> HIDE DEF n
<1>4. MaxRxSequence(rx) \in Int /\ MaxRxSequence(rx) <= n + MaxBuffer
  BY <1>1, MaxRxSequenceIs
<1> QED
  BY <1>1, <1>2, <1>3, <1>4 DEF n

\* The FIN is known: nothing else about the buffer changes but the number it asks for.
LEMMA FinGood ==
  ASSUME NEW t, NEW n, GoodRx(t, n), N <= n + MaxBuffer
  PROVE  LET f == SetFinSequence(t, N)
         IN  /\ GoodRx(f, n) /\ f.fin = N /\ Held(f) = Held(t) /\ Stop(f) = Stop(t)
             /\ t.next < N => f.next = t.next
<1> DEFINE f == SetFinSequence(t, N)
           next == IF t.next = N THEN t.next + 1 ELSE t.next
<1>1. /\ N \in Nat \ {0} /\ MaxBuffer \in Nat \ {0} /\ n \in 0 .. N
      /\ t.next \in 0 .. (N + 1) /\ t.fin \in {None, N}
      /\ n <= Stop(t)
      /\ Held(t) \in SUBSET (0 .. (N - 1))
      /\ Packets(t)
      /\ t.sack \in Seq(Blocks) /\ TrueSack(t)
  BY RxAssumption, HeldIs DEF GoodRx, IsRx, InOrder
<1>2. f = [data |-> t.data, next |-> next, fin |-> N, size |-> t.size,
           avail |-> t.avail, sack |-> t.sack]
  <2>1. t = [data |-> t.data, next |-> t.next, fin |-> t.fin, size |-> t.size,
             avail |-> t.avail, sack |-> t.sack]
    BY DEF GoodRx, IsRx
  <2>2. f = [t EXCEPT !.fin = N, !.next = next]
    <3>1. [t EXCEPT !.fin = N].next = t.next
      BY <2>1
    <3> QED
      BY <3>1 DEF SetFinSequence
  <2> HIDE DEF f, next
  <2> QED
    BY <2>1, <2>2
<1> HIDE DEF f
<1>3. /\ f.data = t.data /\ f.next = next /\ f.fin = N /\ f.size = t.size
      /\ f.avail = t.avail /\ f.sack = t.sack
      /\ f = [data |-> f.data, next |-> f.next, fin |-> f.fin, size |-> f.size,
              avail |-> f.avail, sack |-> f.sack]
  BY <1>2
<1>4. Held(f) = Held(t) /\ Packets(f)
  <2>1. \A k \in DOMAIN t.data : End(f, k) = End(t, k)
    BY <1>3 DEF End
  <2>2. Held(f) = Held(t)
    BY <1>3, <2>1 DEF Held, Positions
  <2>3. Packets(f)
    BY <1>1, <1>3, <2>1 DEF Packets
  <2> QED
    BY <2>2, <2>3
<1>5. Stop(f) = Stop(t) /\ (Stop(f) = N => f.next = N + 1) /\ (t.next < N => f.next = t.next)
  BY <1>1, <1>3 DEF Stop
<1>6. InOrder(f, n)
  <2>1. f.next = N + 1 => Stop(f) = N
    BY DEF Stop
  <2> QED
    BY <1>1, <1>3, <1>4, <1>5 DEF InOrder, GoodRx
<1>7. InWindow(f, n) /\ Counts(f, n)
  BY <1>3, <1>4, <1>5 DEF InWindow, Counts, GoodRx
<1>8. TrueSack(f)
  <2>1. ASSUME NEW i \in 1 .. Len(t.sack)
        PROVE  f.next < t.sack[i].first
    <3> DEFINE x == t.sack[i].first
               y == t.sack[i].second
    <3>1. t.sack[i] \in Blocks
      BY <1>1
    <3>2. x \in Int /\ y \in Int /\ t.next < x /\ x < y /\ x .. (y - 1) \subseteq Held(t)
      BY <1>1, <3>1 DEF Blocks, TrueSack, TrueList
    <3> HIDE DEF x, y
    <3>3. x \in Held(t)
      BY <3>2
    <3>4. x < N
      BY <1>1, <3>3
    <3>5. next = t.next
      BY <1>1, <3>2, <3>4
    <3> QED
      BY <1>3, <3>2, <3>5 DEF x
  <2> QED
    BY <1>1, <1>3, <1>4, <2>1 DEF TrueSack, TrueList
<1>9. IsRx(f)
  BY <1>1, <1>3 DEF IsRx
<1> QED
  BY <1>3, <1>4, <1>5, <1>6, <1>7, <1>8, <1>9 DEF GoodRx, f

\* The end of the stream is within the window when the FIN that PeerClose takes comes.
LEMMA FinFits ==
  ASSUME RxInv, NEW a \in 0 .. N, FinArrives(a)
  PROVE  N <= Len(out) + MaxBuffer
<1> DEFINE n == Len(out)
<1>1. /\ N \in Nat \ {0} /\ MaxBuffer \in Nat \ {0} /\ n \in 0 .. N
      /\ edge \in 0 .. N /\ edge <= n + MaxBuffer
      /\ rx.next \in 0 .. (N + 1)
      /\ n .. (Stop(rx) - 1) \subseteq Held(rx)
      /\ \A p \in Held(rx) : p < n + MaxBuffer
  BY RxAssumption DEF RxInv, GoodRx, InOrder, InWindow, IsRx
<1>2. N <= edge \/ rx.next >= N
  BY DEF FinArrives
<1> HIDE DEF n
<1>3. CASE N <= edge
  BY <1>1, <1>3 DEF n
<1>4. CASE rx.next >= N
  <2>1. Stop(rx) = N
    BY <1>1, <1>4 DEF Stop
  <2>2. CASE n = N
    BY <1>1, <2>2 DEF n
  <2>3. CASE n < N
    <3>1. N - 1 \in n .. (Stop(rx) - 1)
      BY <1>1, <2>1, <2>3
    <3>2. N - 1 < n + MaxBuffer
      BY <1>1, <3>1
    <3> QED
      BY <1>1, <3>2 DEF n
  <2> QED
    BY <1>1, <2>2, <2>3
<1> QED
  BY <1>2, <1>3, <1>4

\* What is stored beyond the first hole is in the first block reported.
Reported(t, u) ==
  Held(u) \ Held(t) # {} /\ u.next = t.next =>
    Held(u) \ Held(t) \subseteq u.sack[1].first .. (u.sack[1].second - 1)

\* The buffer u comes from t with the bytes from a up to b, after n that were read.
Taken(t, u, n, a, b) ==
  /\ GoodRx(u, n)
  /\ (0 .. (n - 1)) \union Held(u) = (0 .. (n - 1)) \union Held(t) \union (a .. (b - 1))
  /\ Reported(t, u)

\* What a segment and a FIN do to the buffer.
LEMMA ArriveIs ==
  ASSUME RxInv, NEW a \in 0 .. N, NEW b \in 0 .. N, Arrive(a, b)
  PROVE  \/ rx' = rx
         \/ /\ a < b /\ b <= Len(out) + MaxBuffer /\ rx'.fin = rx.fin
            /\ Taken(rx, rx', Len(out), a, b)
<1>1. rx' = IF OutOfRange(rx, a, b) THEN rx ELSE Add(rx, a, Bytes(a, b))
  BY DEF Arrive
<1>2. CASE OutOfRange(rx, a, b)
  BY <1>1, <1>2
<1>3. CASE ~OutOfRange(rx, a, b)
  <2> DEFINE n == Len(out)
             u == Add(rx, a, Bytes(a, b))
  <2>1. a < b /\ b <= n + MaxBuffer /\ GoodRx(rx, n)
    BY <1>3, TakenFits DEF Arrive, RxInv
  <2>2. rx' = u
    BY <1>1, <1>3
  <2> HIDE DEF n
  <2>3. /\ GoodRx(u, n) /\ u.fin = rx.fin
        /\ Held(rx) \subseteq Held(u)
        /\ Held(u) \ Held(rx) \subseteq a .. (b - 1)
        /\ a .. (b - 1) \subseteq (0 .. (n - 1)) \union Held(u)
        /\ Held(u) # Held(rx) /\ u.next = rx.next =>
             Held(u) \ Held(rx) \subseteq u.sack[1].first .. (u.sack[1].second - 1)
    BY <2>1, AddGood
  <2> HIDE DEF u
  <2>4. Taken(rx, u, n, a, b)
    BY <2>3 DEF Taken, Reported
  <2> QED
    BY <2>1, <2>2, <2>3, <2>4 DEF n
<1> QED
  BY <1>2, <1>3

\* A FIN sets m_finSeq; the data before it are taken as a segment's.
LEMMA FinArrivesIs ==
  ASSUME RxInv, NEW a \in 0 .. N, FinArrives(a)
  PROVE  /\ N <= Len(out) + MaxBuffer /\ rx'.fin = N
         /\ Taken(rx, rx', Len(out), a, N)
<1> DEFINE n == Len(out)
           f == SetFinSequence(rx, N)
           u == Add(f, a, Bytes(a, N))
<1>1. /\ N \in Nat \ {0} /\ a \in 0 .. N /\ N \in 0 .. N
      /\ N <= n + MaxBuffer /\ GoodRx(rx, n)
      /\ rx.next <= a
      /\ rx' = IF a < N THEN u ELSE f
      /\ rx.next \in 0 .. (N + 1)
  BY FinFits, RxAssumption DEF FinArrives, RxInv, GoodRx, IsRx
<1> HIDE DEF n, f
<1>2. /\ GoodRx(f, n) /\ f.fin = N /\ Held(f) = Held(rx)
      /\ rx.next < N => f.next = rx.next
  BY <1>1, FinGood DEF f
<1>3. CASE a = N
  <2>1. rx' = f /\ a .. (N - 1) = {}
    BY <1>1, <1>3
  <2>2. Taken(rx, f, n, a, N)
    BY <1>2, <2>1 DEF Taken, Reported
  <2> QED
    BY <1>1, <1>2, <2>1, <2>2 DEF n
<1>4. CASE a < N
  <2> DEFINE b == N
             w == Add(f, a, Bytes(a, b))
  <2>1. rx' = w /\ f.next = rx.next
    BY <1>1, <1>2, <1>4
  <2>2. b \in 0 .. N /\ a < b /\ b <= n + MaxBuffer
    BY <1>1, <1>4
  <2> HIDE DEF b
  <2>3. /\ GoodRx(w, n) /\ w.fin = f.fin
        /\ Held(f) \subseteq Held(w)
        /\ Held(w) \ Held(f) \subseteq a .. (b - 1)
        /\ a .. (b - 1) \subseteq (0 .. (n - 1)) \union Held(w)
        /\ Held(w) # Held(f) /\ w.next = f.next =>
             Held(w) \ Held(f) \subseteq w.sack[1].first .. (w.sack[1].second - 1)
    BY <1>1, <1>2, <2>2, AddGood
  <2> HIDE DEF w
  <2>4. Taken(rx, w, n, a, N)
    BY <1>2, <2>1, <2>3 DEF Taken, Reported, b
  <2> QED
    BY <1>1, <1>2, <2>1, <2>3, <2>4 DEF n
<1> QED
  BY <1>1, <1>3, <1>4

\* A piece of the stream and the one that follows it.
LEMMA JoinIs ==
  ASSUME NEW n \in Nat, NEW m \in Nat
  PROVE  /\ Bytes(0, n) \o Bytes(n, n + m) = Bytes(0, n + m)
         /\ Len(Bytes(0, n + m)) = n + m
<1> DEFINE x == Bytes(0, n)
           y == Bytes(n, n + m)
           z == Bytes(0, n + m)
<1>1. x \in Seq(Int) /\ Len(x) = n /\ \A i \in 1 .. n : x[i] = i - 1
  BY DEF Bytes
<1>2. y \in Seq(Int) /\ Len(y) = m /\ \A i \in 1 .. m : y[i] = n + i - 1
  <2>1. n + m - n = m
    OBVIOUS
  <2>2. y = [i \in 1 .. m |-> n + i - 1]
    BY <2>1 DEF Bytes
  <2> HIDE DEF y
  <2> QED
    BY <2>2
<1>3. z \in Seq(Int) /\ Len(z) = n + m /\ \A i \in 1 .. (n + m) : z[i] = i - 1
  <2>1. z = [i \in 1 .. (n + m) |-> i - 1]
    BY DEF Bytes
  <2> HIDE DEF z
  <2> QED
    BY <2>1
<1> HIDE DEF x, y, z
<1>4. x \o y \in Seq(Int) /\ Len(x \o y) = n + m
  <2>1. x \in Seq(Int) /\ y \in Seq(Int) /\ Len(x) = n /\ Len(y) = m
    BY <1>1, <1>2
  <2> QED
    BY <2>1
<1>5. ASSUME NEW i \in 1 .. (n + m)
      PROVE  (x \o y)[i] = z[i]
  <2>1. CASE i \in 1 .. n
    BY <1>1, <1>2, <1>3, <2>1
  <2>2. CASE i \notin 1 .. n
    <3>1. i - n \in 1 .. m
      BY <2>2
    <3>2. (x \o y)[i] = y[i - n]
      BY <1>1, <1>2, <2>2
    <3>3. y[i - n] = n + (i - n) - 1
      BY <1>2, <3>1
    <3> QED
      BY <1>3, <3>2, <3>3
  <2> QED
    BY <2>1, <2>2
<1>6. x \o y = z
  BY <1>3, <1>4, <1>5, SeqEqual
<1> QED
  BY <1>3, <1>6 DEF x, y, z

\* What a read returns and leaves.
LEMMA RecvIs ==
  ASSUME RxInv, NEW max \in 1 .. MaxSeg, Recv(max)
  PROVE  LET n == Len(out)
             m == Lesser(max, rx.avail)
         IN  /\ m \in Nat \ {0} /\ n + m \in 0 .. N /\ n + m <= Stop(rx)
             /\ GoodRx(rx', n + m) /\ rx'.next = rx.next /\ rx'.fin = rx.fin
             /\ Held(rx') = Held(rx) \ (0 .. (n + m - 1))
             /\ out' = Bytes(0, n + m) /\ Len(out') = n + m
<1> DEFINE n == Len(out)
           m == Lesser(max, rx.avail)
<1>1. /\ n \in 0 .. N /\ GoodRx(rx, n) /\ rx.avail = Stop(rx) - n /\ Stop(rx) \in 0 .. N
      /\ N \in Nat \ {0} /\ MaxSeg \in Nat \ {0} /\ out = Bytes(0, n)
  BY RxAssumption DEF RxInv, GoodRx, InOrder, Counts, Stop, IsRx
<1>2. m > 0 /\ rx' = Extract(rx, m) /\ out' = out \o Head_(rx, m)
  BY DEF Recv
<1> HIDE DEF n
<1>3. m \in Nat \ {0} /\ m <= rx.avail
  BY <1>1, <1>2 DEF Lesser
<1> HIDE DEF m
<1>4. /\ n + m \in 0 .. N /\ n + m <= Stop(rx)
      /\ GoodRx(rx', n + m) /\ rx'.next = rx.next /\ rx'.fin = rx.fin
      /\ Held(rx') = Held(rx) \ (0 .. (n + m - 1))
      /\ Head_(rx, m) = Bytes(n, n + m)
  BY <1>1, <1>2, <1>3, ExtractGood
<1>5. out' = Bytes(0, n + m) /\ Len(out') = n + m
  <2>1. n \in Nat /\ m \in Nat /\ out' = Bytes(0, n) \o Bytes(n, n + m)
    BY <1>1, <1>2, <1>3, <1>4
  <2> QED
    BY <2>1, JoinIs
<1> QED
  BY <1>3, <1>4, <1>5 DEF n, m

\* The steps keep the invariant.
LEMMA NextInv ==
  ASSUME RxInv, [Next]_vars
  PROVE  RxInv'
<1>1. /\ N \in Nat \ {0} /\ MaxBuffer \in Nat \ {0} /\ Len(out) \in 0 .. N
      /\ GoodRx(rx, Len(out)) /\ out = Bytes(0, Len(out))
      /\ edge \in 0 .. N /\ edge <= Len(out) + MaxBuffer
  BY RxAssumption DEF RxInv, GoodRx, InOrder
<1>2. ASSUME NEW a \in 0 .. N, NEW b \in 0 .. N, Arrive(a, b)
      PROVE  RxInv'
  <2>1. out' = out /\ edge' = edge
    BY <1>2 DEF Arrive
  <2>2. GoodRx(rx', Len(out))
    BY <1>1, <1>2, ArriveIs DEF Taken
  <2> QED
    BY <1>1, <2>1, <2>2 DEF RxInv
<1>3. ASSUME NEW a \in 0 .. N, FinArrives(a)
      PROVE  RxInv'
  <2>1. out' = out /\ edge' = edge
    BY <1>3 DEF FinArrives
  <2>2. GoodRx(rx', Len(out))
    BY <1>3, FinArrivesIs DEF Taken
  <2> QED
    BY <1>1, <2>1, <2>2 DEF RxInv
<1>4. ASSUME NEW max \in 1 .. MaxSeg, Recv(max)
      PROVE  RxInv'
  <2> DEFINE m == Lesser(max, rx.avail)
             n == Len(out)
  <2>1. /\ m \in Nat \ {0} /\ n + m \in 0 .. N
        /\ GoodRx(rx', n + m) /\ out' = Bytes(0, n + m) /\ Len(out') = n + m
    BY <1>4, RecvIs
  <2>2. edge' = edge
    BY <1>4 DEF Recv
  <2> HIDE DEF m
  <2> QED
    BY <1>1, <2>1, <2>2 DEF RxInv
<1>5. CASE Acked
  <2>1. edge' = Lesser(N, MaxRxSequence(rx)) /\ rx' = rx /\ out' = out
    BY <1>5 DEF Acked
  <2> DEFINE x == MaxRxSequence(rx)
             n == Len(out)
  <2>2. x <= n + MaxBuffer /\ (x = N \/ x = n + MaxBuffer)
    BY <1>1, MaxRxSequenceIs
  <2> HIDE DEF x
  <2>3. edge' \in 0 .. N /\ edge' <= Len(out) + MaxBuffer
    BY <1>1, <2>1, <2>2 DEF Lesser, x
  <2> QED
    BY <1>1, <2>1, <2>3 DEF RxInv
<1>6. CASE AckLost
  BY <1>1, <1>6 DEF AckLost, RxInv
<1>7. CASE UNCHANGED vars
  BY <1>1, <1>7 DEF vars, RxInv
<1> QED
  BY <1>2, <1>3, <1>4, <1>5, <1>6, <1>7 DEF Next

\* The buffer is good in every state.
THEOREM RxAlways == Spec => []RxInv
  BY InitInv, NextInv, PTL DEF Spec

-----------------------------------------------------------------------------
\* What is true of the buffer.

\* The packets do not overlap and the counters count the positions held.
LEMMA BufferIsExact ==
  ASSUME RxInv
  PROVE  BufferExact
<1> DEFINE n == Len(out)
           H == Held(rx)
           S == Stop(rx)
<1>1. /\ N \in Nat \ {0} /\ MaxBuffer \in Nat \ {0} /\ n \in 0 .. N
      /\ rx.next \in 0 .. (N + 1)
      /\ n <= S /\ n .. (S - 1) \subseteq H /\ S \notin H
      /\ H \in SUBSET (0 .. (N - 1)) /\ Packets(rx)
      /\ \A p \in H : n <= p /\ p < n + MaxBuffer
      /\ rx.size = Cardinality(H) /\ rx.avail = S - n
      /\ S = IF rx.next = N + 1 THEN N ELSE rx.next
  BY RxAssumption, HeldIs DEF RxInv, GoodRx, InOrder, InWindow, Counts, IsRx, Stop
<1>2. ASSUME NEW k \in DOMAIN rx.data
      PROVE  /\ rx.data[k] = Bytes(k, End(rx, k)) /\ rx.data[k] # <<>>
             /\ \A j \in DOMAIN rx.data \ {k} :
                  Positions(rx, j) \intersect Positions(rx, k) = {}
  <2>1. rx.data[k] = Bytes(k, End(rx, k)) /\ Len(rx.data[k]) \in Nat \ {0}
    BY <1>1 DEF Packets
  <2>2. rx.data[k] # <<>>
    BY <2>1
  <2>3. ASSUME NEW j \in DOMAIN rx.data \ {k}
        PROVE  Positions(rx, j) \intersect Positions(rx, k) = {}
    <3> SUFFICES ASSUME NEW p \in Positions(rx, j), p \in Positions(rx, k)
                 PROVE  FALSE
      OBVIOUS
    <3>1. /\ j \in Int /\ k \in Int /\ End(rx, j) \in Int /\ End(rx, k) \in Int
      BY <1>1, HeldIs
    <3>2. p \in Int /\ j <= p /\ p < End(rx, j) /\ k <= p /\ p < End(rx, k)
      BY <3>1 DEF Positions
    <3>3. j = k
      BY <1>1, <3>2, OneHolds
    <3> QED
      BY <3>3
  <2> QED
    BY <2>1, <2>2, <2>3
<1>3. Cardinality(H) <= MaxBuffer
  <2> DEFINE e == n + MaxBuffer - 1
             W == n .. e
  <2>1. IsFiniteSet(W) /\ Cardinality(W) = MaxBuffer
    <3>1. n \in Int /\ e \in Int /\ e - n + 1 = MaxBuffer /\ ~(n > e)
      BY <1>1
    <3> HIDE DEF n, e
    <3> QED
      BY <3>1, FS_Interval
  <2>2. H \in SUBSET W
    <3>1. \A p \in H : p \in Int /\ n <= p /\ p <= n + MaxBuffer - 1
      BY <1>1
    <3> QED
      BY <1>1, <3>1
  <2> HIDE DEF W, H
  <2>3. Cardinality(H) <= Cardinality(W)
    BY <2>1, <2>2, FS_Subset
  <2> QED
    BY <2>1, <2>3
<1>4. rx.avail = Cardinality({p \in H : p < rx.next})
  <2>1. {p \in H : p < rx.next} = n .. (S - 1)
    <3>1. \A p \in H : p < rx.next => p \in n .. (S - 1)
      BY <1>1
    <3>2. \A p \in n .. (S - 1) : p \in H /\ p < rx.next
      BY <1>1
    <3> HIDE DEF H, S, n
    <3> QED
      BY <3>1, <3>2
  <2>2. Cardinality(n .. (S - 1)) = S - n
    <3>1. n \in Int /\ S - 1 \in Int /\ n <= S /\ S \in Int
      BY <1>1
    <3> HIDE DEF n, S
    <3>2. Cardinality(n .. (S - 1)) = IF n > S - 1 THEN 0 ELSE S - 1 - n + 1
      BY <3>1, FS_Interval
    <3> QED
      BY <3>1, <3>2
  <2> QED
    BY <1>1, <2>1, <2>2
<1> QED
  BY <1>1, <1>2, <1>3, <1>4 DEF BufferExact

\* A segment within the window last advertised is not refused, and Add keeps it.
LEMMA PromiseIsKept ==
  ASSUME RxInv
  PROVE  PromiseKept
<1> SUFFICES ASSUME NEW a \in 0 .. N, NEW b \in 0 .. N, a < b, b - a <= MaxSeg, b <= edge
             PROVE  LET t == IF OutOfRange(rx, a, b) THEN rx ELSE Add(rx, a, Bytes(a, b))
                    IN (a .. (b - 1)) \subseteq (0 .. (Len(out) - 1)) \union Held(t)
  BY DEF PromiseKept
<1> DEFINE n == Len(out)
           u == Add(rx, a, Bytes(a, b))
<1>1. /\ N \in Nat \ {0} /\ MaxBuffer \in Nat \ {0} /\ n \in 0 .. N
      /\ GoodRx(rx, n) /\ edge \in 0 .. N /\ edge <= n + MaxBuffer
      /\ rx.next \in 0 .. (N + 1) /\ rx.fin \in {None, N}
      /\ n .. (Stop(rx) - 1) \subseteq Held(rx)
  BY RxAssumption DEF RxInv, GoodRx, InOrder, IsRx
<1> HIDE DEF n, u
<1>2. CASE OutOfRange(rx, a, b)
  <2>1. ~(MaxRxSequence(rx) <= a)
    <3> DEFINE x == MaxRxSequence(rx)
    <3>1. x = N \/ x = n + MaxBuffer
      BY <1>1, MaxRxSequenceIs
    <3> HIDE DEF x
    <3>2. ~(x <= a)
      BY <1>1, <3>1
    <3> QED
      BY <3>2 DEF x
  <2>2. b < rx.next
    BY <1>2, <2>1 DEF OutOfRange
  <2>3. a .. (b - 1) \subseteq (0 .. (n - 1)) \union Held(rx)
    <3> SUFFICES ASSUME NEW p \in a .. (b - 1), p \notin 0 .. (n - 1)
                 PROVE  p \in Held(rx)
      OBVIOUS
    <3>1. p \in n .. (Stop(rx) - 1)
      BY <1>1, <2>2 DEF Stop
    <3> QED
      BY <1>1, <3>1
  <2> QED
    BY <1>2, <2>3 DEF n
<1>3. CASE ~OutOfRange(rx, a, b)
  <2>1. b <= n + MaxBuffer
    BY <1>1
  <2>2. a .. (b - 1) \subseteq (0 .. (n - 1)) \union Held(u)
    BY <1>1, <2>1, AddGood DEF u
  <2> QED
    BY <1>3, <2>2 DEF n, u
<1> QED
  BY <1>2, <1>3

\* The blocks of the list are held, beyond the hole, and apart.
LEMMA SackIsTrue ==
  ASSUME RxInv
  PROVE  SackTruth
<1>1. TrueSack(rx) /\ rx.sack \in Seq(Blocks)
  BY DEF RxInv, GoodRx, IsRx
<1>2. DOMAIN rx.sack = 1 .. Len(rx.sack)
  BY <1>1
<1> QED
  BY <1>1, <1>2 DEF TrueSack, TrueList, SackTruth

\* A step that adds bytes without moving m_nextRxSeq is a segment's.
LEMMA NewestIsFirst ==
  ASSUME RxInv, [Next]_vars
  PROVE  \/ UNCHANGED vars
         \/ LET added == Held(rx') \ Held(rx)
            IN added # {} /\ rx'.next = rx.next
               => added \subseteq rx'.sack[1].first .. (rx'.sack[1].second - 1)
<1> SUFFICES Reported(rx, rx')
  BY DEF Reported
<1>1. ASSUME rx' = rx
      PROVE  Reported(rx, rx')
  BY <1>1 DEF Reported
<1>2. ASSUME NEW a \in 0 .. N, NEW b \in 0 .. N, Arrive(a, b)
      PROVE  Reported(rx, rx')
  BY <1>1, <1>2, ArriveIs DEF Taken
<1>3. ASSUME NEW a \in 0 .. N, FinArrives(a)
      PROVE  Reported(rx, rx')
  BY <1>3, FinArrivesIs DEF Taken
<1>4. ASSUME NEW max \in 1 .. MaxSeg, Recv(max)
      PROVE  Reported(rx, rx')
  <2>1. Held(rx') \ Held(rx) = {}
    BY <1>4, RecvIs
  <2> QED
    BY <2>1 DEF Reported
<1>5. CASE Acked \/ AckLost \/ UNCHANGED vars
  BY <1>1, <1>5 DEF Acked, AckLost, vars
<1> QED
  BY <1>2, <1>3, <1>4, <1>5 DEF Next

\* No byte is stored twice or out of its place, the counters count what is stored, and
\* what is stored fits: for every stream, buffer, cut of the stream into segments and
\* order of their arrival.
THEOREM BufferCorrect == Spec => []BufferExact
<1>1. RxInv => BufferExact
  BY BufferIsExact
<1> QED
  BY <1>1, RxAlways, PTL

\* Whatever the sender may send in the window it has been told is kept.
THEOREM PromiseCorrect == Spec => []PromiseKept
<1>1. RxInv => PromiseKept
  BY PromiseIsKept
<1> QED
  BY <1>1, RxAlways, PTL

\* What the SACK blocks report is held, through any merges.
THEOREM SackCorrect == Spec => []SackTruth
<1>1. RxInv => SackTruth
  BY SackIsTrue
<1> QED
  BY <1>1, RxAlways, PTL

\* The first block is the one that has just grown.
THEOREM NewestCorrect == Spec => NewestFirst
<1>1. RxInv /\ [Next]_vars =>
        \/ UNCHANGED vars
        \/ LET added == Held(rx') \ Held(rx)
           IN added # {} /\ rx'.next = rx.next
              => added \subseteq rx'.sack[1].first .. (rx'.sack[1].second - 1)
  BY NewestIsFirst
<1> QED
  BY <1>1, RxAlways, PTL DEF Spec, NewestFirst

-----------------------------------------------------------------------------
\* The buffer implements the window.

\* The first hole of the window is the first byte not in order.
LEMMA HoleIsStop ==
  ASSUME NEW t, NEW n, GoodRx(t, n),
         NEW g, g = (0 .. (n - 1)) \union Held(t)
  PROVE  /\ Window!Hole(g) = Stop(t)
         /\ \A f \in BOOLEAN : f = (t.fin # None) => Window!Asked(g, f) = t.next
<1>1. /\ N \in Nat \ {0} /\ n \in 0 .. N /\ t.next \in 0 .. (N + 1)
      /\ n <= Stop(t) /\ Stop(t) \in 0 .. N
      /\ n .. (Stop(t) - 1) \subseteq Held(t) /\ Stop(t) \notin Held(t)
      /\ Held(t) \in SUBSET (0 .. (N - 1))
      /\ t.fin \in {None, N} /\ None = -1
      /\ Stop(t) = N => (t.next = N + 1 <=> t.fin = N)
      /\ Stop(t) = IF t.next = N + 1 THEN N ELSE t.next
  BY RxAssumption, HeldIs DEF GoodRx, InOrder, IsRx, Stop, None
<1> DEFINE s == Stop(t)
<1>2. s \in 0 .. N /\ s \notin g /\ 0 .. (s - 1) \subseteq g
  BY <1>1
<1>3. ASSUME NEW h \in 0 .. N, h \notin g, 0 .. (h - 1) \subseteq g
      PROVE  h = s
  <2> HIDE DEF s
  <2>1. h < s => h \in 0 .. (s - 1)
    BY <1>2
  <2>2. s < h => s \in 0 .. (h - 1)
    BY <1>2
  <2>3. ~(h < s) /\ ~(s < h)
    BY <1>2, <1>3, <2>1, <2>2
  <2> QED
    BY <1>2, <2>3
<1> HIDE DEF s
<1>4. Window!Hole(g) = s
  <2> DEFINE h == Window!Hole(g)
  <2>1. h \in 0 .. N /\ h \notin g /\ 0 .. (h - 1) \subseteq g
    <3>1. \E m \in 0 .. N : m \notin g /\ 0 .. (m - 1) \subseteq g
      BY <1>2
    <3> QED
      BY <3>1, Zenon DEF Window!Hole
  <2> HIDE DEF h
  <2>2. h = s
    BY <1>3, <2>1
  <2> QED
    BY <2>2 DEF h
<1>5. ASSUME NEW f \in BOOLEAN, f = (t.fin # None)
      PROVE  Window!Asked(g, f) = t.next
  <2>1. Window!Asked(g, f) = IF f /\ s = N THEN N + 1 ELSE s
    BY <1>4, Zenon DEF Window!Asked
  <2>2. CASE f
    <3>1. t.fin = N
      BY <1>1, <1>5, <2>2
    <3> QED
      BY <1>1, <2>1, <2>2, <3>1 DEF s
  <2>3. CASE ~f
    <3>1. t.fin = None
      BY <1>5, <2>3, Zenon
    <3>2. t.fin # N
      BY <1>1, <3>1
    <3> QED
      BY <1>1, <2>1, <2>3, <3>2 DEF s
  <2> QED
    BY <2>2, <2>3
<1> QED
  BY <1>4, <1>5 DEF s

\* Nothing has come, nothing is read.
LEMMA WindowInit ==
  ASSUME Init
  PROVE  Window!Init
<1>1. rx = EmptyRx /\ out = <<>>
  BY DEF Init
<1>2. Len(out) = 0 /\ rx.next = 0 /\ rx.fin = None /\ DOMAIN rx.data = {}
  BY <1>1 DEF EmptyRx
<1>3. Held(rx) = {}
  BY <1>2 DEF Held
<1>4. (0 .. (Len(out) - 1)) \union Held(rx) = {}
  BY <1>2, <1>3
<1>5. (rx.fin # None) = FALSE
  BY <1>2
<1> QED
  BY <1>2, <1>4, <1>5 DEF Window!Init

\* What the invariant says of the window.
LEMMA WindowFacts ==
  ASSUME RxInv
  PROVE  /\ N \in Nat \ {0} /\ MaxBuffer \in Nat \ {0} /\ Len(out) \in 0 .. N
         /\ GoodRx(rx, Len(out))
         /\ Len(out) .. (Stop(rx) - 1) \subseteq Held(rx)
         /\ Len(out) <= Stop(rx) /\ Stop(rx) \in 0 .. N
         /\ rx.avail = Stop(rx) - Len(out)
         /\ rx.fin \in {None, N} /\ None = -1
<1>1. /\ N \in Nat \ {0} /\ MaxBuffer \in Nat \ {0} /\ Len(out) \in 0 .. N
      /\ GoodRx(rx, Len(out))
  BY RxAssumption DEF RxInv, GoodRx, InOrder
<1>2. /\ Len(out) .. (Stop(rx) - 1) \subseteq Held(rx) /\ Len(out) <= Stop(rx)
      /\ rx.next \in 0 .. (N + 1) /\ rx.fin \in {None, N}
      /\ rx.avail = Stop(rx) - Len(out)
  BY <1>1 DEF GoodRx, InOrder, IsRx, Counts
<1>3. Stop(rx) \in 0 .. N
  BY <1>1, <1>2 DEF Stop
<1> QED
  BY <1>1, <1>2, <1>3 DEF None

\* Every step of the socket is one of the window, or none.
LEMMA WindowNext ==
  ASSUME RxInv, RxInv', [Next]_vars
  PROVE  [Window!Next]_(Window!vars)
<1> DEFINE n == Len(out)
           got == (0 .. (Len(out) - 1)) \union Held(rx)
<1>0. GoodRx(rx', Len(out'))
  BY DEF RxInv
<1>1. /\ N \in Nat \ {0} /\ MaxBuffer \in Nat \ {0} /\ n \in 0 .. N
      /\ GoodRx(rx, n)
      /\ n .. (Stop(rx) - 1) \subseteq Held(rx) /\ n <= Stop(rx) /\ Stop(rx) \in 0 .. N
      /\ rx.avail = Stop(rx) - n
      /\ rx.fin \in {None, N} /\ None = -1
  BY WindowFacts
<1>2. /\ Window!Hole(got) = Stop(rx)
      /\ Window!Asked(got', rx'.fin # None) = rx'.next
  <2>1. Window!Hole(got) = Stop(rx)
    BY <1>1, HoleIsStop
  <2> DEFINE g == got'
             k == Len(out')
             u == rx'
             f == rx'.fin # None
  <2>2. GoodRx(u, k) /\ g = (0 .. (k - 1)) \union Held(u) /\ f \in BOOLEAN
    BY <1>0
  <2> HIDE DEF g, k, u
  <2>3. \A e \in BOOLEAN : e = (u.fin # None) => Window!Asked(g, e) = u.next
    BY <2>2, HoleIsStop
  <2>4. Window!Asked(g, f) = u.next
    BY <2>2, <2>3 DEF u
  <2> QED
    BY <2>1, <2>4 DEF g, u
<1>3. ASSUME rx' = rx, out' = out
      PROVE  UNCHANGED Window!vars
  BY <1>3 DEF Window!vars
<1>4. ASSUME NEW a \in 0 .. N, NEW b \in 0 .. N, Arrive(a, b)
      PROVE  [Window!Next]_(Window!vars)
  <2>1. out' = out
    BY <1>4 DEF Arrive
  <2>2. CASE rx' = rx
    BY <1>3, <2>1, <2>2
  <2>3. CASE a < b /\ b <= n + MaxBuffer /\ rx'.fin = rx.fin /\ Taken(rx, rx', n, a, b)
    <3>1. got' = got \union (a .. (b - 1))
      BY <2>1, <2>3 DEF Taken
    <3>2. Window!Take
      BY <1>2, <2>1, <2>3, <3>1 DEF Window!Take
    <3> QED
      BY <3>2 DEF Window!Next
  <2> QED
    BY <1>4, <2>2, <2>3, ArriveIs
<1>5. ASSUME NEW a \in 0 .. N, FinArrives(a)
      PROVE  [Window!Next]_(Window!vars)
  <2>1. out' = out
    BY <1>5 DEF FinArrives
  <2>2. N <= n + MaxBuffer /\ rx'.fin = N /\ Taken(rx, rx', n, a, N)
    BY <1>5, FinArrivesIs
  <2>3. got' = got \union (a .. (N - 1))
    BY <2>1, <2>2 DEF Taken
  <2>4. (rx'.fin # None) = TRUE
    BY <1>1, <2>2
  <2>5. Window!TakeFin
    BY <1>2, <2>1, <2>2, <2>3, <2>4 DEF Window!TakeFin
  <2> QED
    BY <2>5 DEF Window!Next
<1>6. ASSUME NEW max \in 1 .. MaxSeg, Recv(max)
      PROVE  [Window!Next]_(Window!vars)
  <2> DEFINE m == Lesser(max, rx.avail)
             top == Lesser(max, N)
  <2>1. /\ m \in Nat \ {0} /\ n + m \in 0 .. N /\ n + m <= Stop(rx)
        /\ rx'.next = rx.next /\ rx'.fin = rx.fin
        /\ Held(rx') = Held(rx) \ (0 .. (n + m - 1))
        /\ Len(out') = n + m
    BY <1>6, RecvIs
  <2>2. got' = got
    <3>1. n .. (n + m - 1) \subseteq Held(rx)
      <4>1. n .. (n + m - 1) \subseteq n .. (Stop(rx) - 1)
        BY <1>1, <2>1
      <4> QED
        BY <1>1, <4>1
    <3>2. got' = (0 .. (n + m - 1)) \union (Held(rx) \ (0 .. (n + m - 1)))
      BY <2>1
    <3>3. 0 .. (n + m - 1) = (0 .. (n - 1)) \union (n .. (n + m - 1))
      BY <1>1, <2>1
    <3> HIDE DEF m
    <3> QED
      BY <3>1, <3>2, <3>3
  <2>3. /\ top \in 1 .. N
        /\ m = IF top < rx.avail THEN top ELSE rx.avail
    <3>1. max \in Int /\ 1 <= max
      BY RxAssumption
    <3> QED
      BY <1>1, <2>1, <3>1 DEF Lesser
  <2> HIDE DEF m, top
  <2>4. Window!Read(top)
    <3>1. Window!Hole(got) - n = rx.avail /\ rx.avail > 0
      BY <1>1, <1>2, <2>1
    <3> QED
      BY <1>1, <2>1, <2>2, <2>3, <3>1 DEF Window!Read
  <2> QED
    BY <2>3, <2>4 DEF Window!Next
<1>7. CASE Acked \/ AckLost \/ UNCHANGED vars
  BY <1>3, <1>7 DEF Acked, AckLost, vars
<1> QED
  BY <1>4, <1>5, <1>6, <1>7 DEF Next

\* The buffer of packets, as the application and the sender see it, is a window over
\* the positions of the stream.
THEOREM BufferIsWindow == Spec => ImplementsWindow
<1>1. Init => Window!Init
  BY WindowInit
<1>2. RxInv /\ RxInv' /\ [Next]_vars => [Window!Next]_(Window!vars)
  BY WindowNext
<1> QED
  BY <1>1, <1>2, RxAlways, PTL DEF Spec, ImplementsWindow, Window!Spec

\* What is asked for is the first hole, and what is held is beyond what was read, by
\* less than a buffer.
WindowKept ==
  /\ rx.next = Window!Asked((0 .. (Len(out) - 1)) \union Held(rx), rx.fin # None)
  /\ \A p \in Held(rx) : Len(out) <= p /\ p < Len(out) + MaxBuffer

\* The first hole and the room of the buffer, from GoodRx.
LEMMA WindowIsKept ==
  ASSUME RxInv
  PROVE  WindowKept
<1> DEFINE n == Len(out)
           g == (0 .. (Len(out) - 1)) \union Held(rx)
           f == rx.fin # None
<1>1. GoodRx(rx, n) /\ g = (0 .. (n - 1)) \union Held(rx) /\ f \in BOOLEAN
  BY WindowFacts
<1>2. \A p \in Held(rx) : n <= p /\ p < n + MaxBuffer
  BY <1>1 DEF GoodRx, InWindow
<1>3. rx.next = Window!Asked(g, f)
  <2> HIDE DEF g, n
  <2>1. \A e \in BOOLEAN : e = (rx.fin # None) => Window!Asked(g, e) = rx.next
    BY <1>1, HoleIsStop
  <2> QED
    BY <1>1, <2>1
<1> QED
  BY <1>2, <1>3 DEF WindowKept

\* The promises of the window, of the buffer itself: AdvertisedWindowSize's room is
\* never exceeded and the acknowledgement never jumps a hole.
THEOREM WindowCorrect == Spec => []WindowKept
<1>1. RxInv => WindowKept
  BY WindowIsKept
<1> QED
  BY <1>1, RxAlways, PTL

===============================================================================
