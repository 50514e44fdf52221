------------------------- MODULE TcpTxBuffer_proofs -------------------------
(***************************************************************************)
(* What the operations of the scoreboard preserve, for every amount of     *)
(* data and every duplicate threshold.                                     *)
(***************************************************************************)
EXTENDS TcpTxBuffer, NumberSets

\* The scoreboard between two operations: the flags are on segments sent and not
\* acknowledged, a SACKed one is not lost, and the head is not SACKed.
GoodBuffer(b) ==
  /\ b \in Buffers
  /\ b.una <= b.high
  /\ b.sacked \cup b.lost \cup b.retrans \subseteq Sent(b)
  /\ b.sacked \cap b.lost = {}
  /\ b.una \notin b.sacked

\* What a segment handed to CopyFromSequence is: the next new one or an old one.
CanCopy(b, seg) == seg \in Sent(b) \/ (seg = b.high /\ seg < N)

\* A buffer of which nothing was sent is consistent.
LEMMA EmptyBufferGood == GoodBuffer(EmptyBuffer)
  BY TxBufferAssumption DEF GoodBuffer, Buffers, EmptyBuffer, Sent, None

\* NextSeg finds a segment that CopyFromSequence can copy.
LEMMA NextSegCanCopy ==
  ASSUME NEW b, GoodBuffer(b), NEW isRecovery, NextSeg(b, isRecovery) # None
  PROVE  CanCopy(b, NextSeg(b, isRecovery))
<1> DEFINE pending == {i \in Sent(b) : i \notin b.retrans \cup b.sacked}
<1>1. Sent(b) \subseteq Nat
  BY TxBufferAssumption DEF GoodBuffer, Buffers, Sent
<1>2. pending \subseteq Sent(b)
  OBVIOUS
<1>3. CASE pending \cap b.lost # {}
  <2>1. NextSeg(b, isRecovery) = Min(pending \cap b.lost)
    BY <1>3 DEF NextSeg
  <2>2. Min(pending \cap b.lost) \in pending \cap b.lost
    BY <1>1, <1>2, <1>3, MinInSet
  <2> QED
    BY <2>1, <2>2 DEF CanCopy
<1>4. CASE pending \cap b.lost = {} /\ b.high < N
  BY <1>4 DEF NextSeg, CanCopy
<1>5. CASE pending \cap b.lost = {} /\ ~(b.high < N)
  <2>1. isRecovery /\ pending # {} /\ NextSeg(b, isRecovery) = Min(pending)
    BY <1>5 DEF NextSeg
  <2>2. Min(pending) \in pending
    BY <1>1, <1>2, <2>1, MinInSet
  <2> QED
    BY <2>1, <2>2 DEF CanCopy
<1> QED
  BY <1>3, <1>4, <1>5

\* CopyFromSequence keeps the scoreboard good and the segments SACKed.
LEMMA CopyGood ==
  ASSUME NEW b, GoodBuffer(b), NEW seg, CanCopy(b, seg)
  PROVE  /\ GoodBuffer(Copy(b, seg))
         /\ Copy(b, seg).una = b.una
         /\ Copy(b, seg).sacked = b.sacked
         /\ seg \in 0..N-1
  BY TxBufferAssumption DEF GoodBuffer, Buffers, Sent, CanCopy, Copy

\* Update keeps it good when the blocks spare the head.
LEMMA UpdateGood ==
  ASSUME NEW b, GoodBuffer(b), NEW blocks, b.una \notin blocks
  PROVE  /\ GoodBuffer(Update(b, blocks))
         /\ Update(b, blocks).una = b.una
         /\ Update(b, blocks).high = b.high
         /\ Update(b, blocks).sacked = b.sacked \cup (blocks \cap Sent(b))
<1> DEFINE new == (blocks \cap Sent(b)) \ b.sacked
           top == IF b.highSack = None \/ b.highSack <= Max(new) + 1
                  THEN Max(new) ELSE b.highSack
           marked == [b EXCEPT !.sacked = @ \cup new, !.lost = @ \ new,
                               !.highSack = top]
<1>1. CASE new = {}
  BY <1>1 DEF Update
<1>2. CASE new # {}
  <2>1. Update(b, blocks) = [marked EXCEPT !.lost = @ \cup DeemedLost(marked)]
    BY <1>2 DEF Update
  <2>2. Sent(b) \subseteq 0..N-1 /\ N \in Nat
    BY TxBufferAssumption DEF GoodBuffer, Buffers, Sent
  <2>3. Max(new) \in new
    <3>1. new \in SUBSET Nat /\ \A x \in new : x <= N
      BY <2>2
    <3> HIDE DEF new
    <3> QED
      BY <1>2, <2>2, <3>1, MaxInSet
  <2>4. top \in -1..N-1
    BY <2>2, <2>3 DEF GoodBuffer, Buffers, None
  <2> HIDE DEF top
  <2>5. DeemedLost(marked) \subseteq Sent(b) \ (b.sacked \cup new)
    BY DEF DeemedLost, Sent, GoodBuffer, Buffers
  <2> DEFINE c == Update(b, blocks)
  <2>6. /\ c.una = b.una /\ c.high = b.high /\ c.retrans = b.retrans
        /\ c.sacked = b.sacked \cup new
        /\ c.lost = (b.lost \ new) \cup DeemedLost(marked)
    BY <2>1 DEF GoodBuffer, Buffers
  <2>7. c \in Buffers
    BY <2>1, <2>2, <2>4, <2>5 DEF GoodBuffer, Buffers
  <2> HIDE DEF c, marked
  <2>8. Sent(c) = Sent(b)
    BY <2>6 DEF Sent
  <2>9. GoodBuffer(c) /\ c.sacked = b.sacked \cup (blocks \cap Sent(b))
    BY <2>5, <2>6, <2>7, <2>8 DEF GoodBuffer
  <2> QED
    BY <2>6, <2>9 DEF c
<1> QED
  BY <1>1, <1>2

\* DiscardUpTo keeps it good when the segment acknowledged next is not SACKed.
LEMMA DiscardUpToGood ==
  ASSUME NEW b, GoodBuffer(b), NEW ack \in 0..N, b.una <= ack,
         ack \notin b.sacked
  PROVE  /\ GoodBuffer(DiscardUpTo(b, ack))
         /\ DiscardUpTo(b, ack).una = ack
         /\ DiscardUpTo(b, ack).high = IF ack > b.high THEN ack ELSE b.high
         /\ DiscardUpTo(b, ack).sacked = b.sacked \ 0..ack-1
<1> DEFINE c == DiscardUpTo(b, ack)
<1>1. /\ c.una = ack /\ c.high = IF ack > b.high THEN ack ELSE b.high
      /\ c.sacked = b.sacked \ 0..ack-1 /\ c.lost = b.lost \ 0..ack-1
      /\ c.retrans = b.retrans \ 0..ack-1
  BY DEF GoodBuffer, Buffers, DiscardUpTo
<1>2. c \in Buffers
  <2>1. (IF ack > b.high THEN ack ELSE b.high) \in 0..N
    BY TxBufferAssumption DEF GoodBuffer, Buffers
  <2>2. (IF b.highSack <= ack THEN None ELSE b.highSack) \in -1..N-1
    BY TxBufferAssumption DEF GoodBuffer, Buffers, None
  <2> QED
    BY <2>1, <2>2 DEF GoodBuffer, Buffers, DiscardUpTo
<1>3. b.una \in 0..N /\ b.high \in 0..N /\ N \in Nat
  BY TxBufferAssumption DEF GoodBuffer, Buffers
<1> HIDE DEF c
<1>4. /\ Sent(b) \ 0..ack-1 \subseteq Sent(c)
      /\ c.una <= c.high
  BY <1>1, <1>3 DEF Sent
<1>5. GoodBuffer(c)
  BY <1>1, <1>2, <1>4 DEF GoodBuffer
<1> QED
  BY <1>1, <1>5 DEF c

\* MarkHeadAsLost keeps the scoreboard consistent: the head loses its other flags.
LEMMA MarkHeadAsLostGood ==
  ASSUME NEW b, GoodBuffer(b)
  PROVE  /\ GoodBuffer(MarkHeadAsLost(b))
         /\ MarkHeadAsLost(b).una = b.una
         /\ MarkHeadAsLost(b).high = b.high
         /\ MarkHeadAsLost(b).sacked = b.sacked
<1> DEFINE c == MarkHeadAsLost(b)
<1>1. CASE Sent(b) = {}
  BY <1>1 DEF MarkHeadAsLost
<1>2. CASE Sent(b) # {}
  <2>1. /\ c.una = b.una /\ c.high = b.high
        /\ c.sacked = b.sacked \ {b.una} /\ c.lost = b.lost \cup {b.una}
        /\ c.retrans = b.retrans \ {b.una}
    BY <1>2 DEF GoodBuffer, Buffers, MarkHeadAsLost
  <2>2. b.una \in Sent(b) /\ b.una \in 0..N-1
    BY <1>2, TxBufferAssumption DEF GoodBuffer, Buffers, Sent
  <2>3. c \in Buffers
    BY <1>2, <2>2 DEF GoodBuffer, Buffers, MarkHeadAsLost
  <2> HIDE DEF c
  <2>4. Sent(c) = Sent(b)
    BY <2>1 DEF Sent
  <2>5. GoodBuffer(c)
    BY <2>1, <2>2, <2>3, <2>4 DEF GoodBuffer
  <2> QED
    BY <2>1, <2>5 DEF c, GoodBuffer
<1> QED
  BY <1>1, <1>2

\* SetSentListLost keeps the scoreboard consistent: what it marks is not SACKed.
LEMMA SetSentListLostGood ==
  ASSUME NEW b, GoodBuffer(b)
  PROVE  /\ GoodBuffer(SetSentListLost(b))
         /\ SetSentListLost(b).una = b.una
         /\ SetSentListLost(b).high = b.high
         /\ SetSentListLost(b).sacked = b.sacked
         /\ SetSentListLost(b).lost = Sent(b) \ b.sacked
         /\ SetSentListLost(b).retrans = {}
<1> DEFINE c == SetSentListLost(b)
<1>1. /\ c.una = b.una /\ c.high = b.high /\ c.sacked = b.sacked
      /\ c.lost = Sent(b) \ b.sacked /\ c.retrans = {}
  BY DEF GoodBuffer, Buffers, SetSentListLost
<1>2. Sent(b) \subseteq 0..N-1
  BY TxBufferAssumption DEF GoodBuffer, Buffers, Sent
<1>3. c \in Buffers
  BY <1>2 DEF GoodBuffer, Buffers, SetSentListLost
<1> HIDE DEF c
<1>4. Sent(c) = Sent(b)
  BY <1>1 DEF Sent
<1>5. GoodBuffer(c)
  BY <1>1, <1>3, <1>4 DEF GoodBuffer
<1> QED
  BY <1>1, <1>5 DEF c

\* After a timeout nothing counts as in flight, and while data is outstanding
\* there is a segment to send: SendPendingData cannot return empty-handed.
LEMMA TimeoutHasSegment ==
  ASSUME NEW b, GoodBuffer(b)
  PROVE  /\ InFlight(SetSentListLost(b)) = 0
         /\ b.una < b.high =>
              NextSeg(SetSentListLost(b), FALSE) # None
<1> DEFINE c == SetSentListLost(b)
<1>1. /\ Sent(c) = Sent(b) /\ c.sacked = b.sacked
      /\ c.lost = Sent(b) \ b.sacked /\ c.retrans = {}
  BY SetSentListLostGood DEF Sent
<1> HIDE DEF c
<1>2. IsFiniteSet(Sent(b)) /\ b.sacked \subseteq Sent(b) /\ Sent(b) \subseteq Nat
  <2>1. b.una \in Int /\ b.high - 1 \in Int /\ Sent(b) = b.una .. b.high - 1
    BY TxBufferAssumption DEF GoodBuffer, Buffers, Sent
  <2>2. IsFiniteSet(b.una .. b.high - 1)
    BY <2>1, FS_Interval, Zenon
  <2> QED
    BY <2>1, <2>2, TxBufferAssumption DEF GoodBuffer, Buffers, Sent
<1>3. InFlight(c) = 0
  <2>1. Cardinality(Sent(b) \ b.sacked) =
          Cardinality(Sent(b)) - Cardinality(Sent(b) \cap b.sacked)
    BY <1>2, FS_Difference
  <2>2. Sent(b) \cap b.sacked = b.sacked
    BY <1>2
  <2>3. Cardinality(Sent(b)) \in Nat /\ Cardinality(b.sacked) \in Nat
    BY <1>2, FS_CardinalityType, FS_Subset
  <2>4. Cardinality({}) = 0
    BY FS_EmptySet
  <2>5. InFlight(c) = Cardinality(Sent(b))
          - (Cardinality(b.sacked) + Cardinality(Sent(b) \ b.sacked)) + 0
    BY <1>1, <2>4 DEF InFlight
  <2>6. Cardinality(Sent(b) \ b.sacked) =
          Cardinality(Sent(b)) - Cardinality(b.sacked)
    BY <2>1, <2>2, Zenon
  <2> QED
    BY <2>3, <2>5, <2>6
<1>4. ASSUME b.una < b.high
      PROVE  NextSeg(c, FALSE) # None
  <2> DEFINE pending == {i \in Sent(c) : i \notin c.retrans \cup c.sacked}
  <2>1. b.una \in pending \cap c.lost
    <3>1. b.una \in Sent(b) /\ b.una \notin b.sacked
      BY <1>4, TxBufferAssumption DEF GoodBuffer, Buffers, Sent
    <3> QED
      BY <1>1, <3>1
  <2>2. Min(pending \cap c.lost) \in pending \cap c.lost
    BY <1>1, <1>2, <2>1, MinInSet
  <2>3. NextSeg(c, FALSE) = Min(pending \cap c.lost)
    BY <2>1 DEF NextSeg
  <2>4. pending \cap c.lost \subseteq Nat
    BY <1>1, <1>2
  <2> QED
    <3>1. Min(pending \cap c.lost) \in Nat
      BY <2>2, <2>4
    <3>2. NextSeg(c, FALSE) \in Nat
      BY <2>3, <3>1, Zenon
    <3>3. \A n \in Nat : n # None
      BY DEF None
    <3> QED
      BY <3>2, <3>3, Zenon
<1> QED
  BY <1>3, <1>4 DEF c

=============================================================================
