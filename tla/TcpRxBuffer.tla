----------------------------- MODULE TcpRxBuffer -----------------------------
(***************************************************************************)
(* tcp-rx-buffer.cc: what the receiving socket keeps of the segments that  *)
(* come, the window it may advertise and the SACK blocks it reports, with  *)
(* the socket's calls of it (OutOfRange and ReceivedData, PeerClose, Recv) *)
(* and a sender that keeps to the window it has been told.                 *)
(*                                                                         *)
(* The stream is the bytes 0 .. N - 1, each its own position; a packet is  *)
(* the sequence of its bytes, so that a wrong offset shows.  rx holds      *)
(*   data      m_data: the packets, by their first sequence number         *)
(*   next      m_nextRxSeq                                                 *)
(*   fin       m_finSeq, None without m_gotFin                             *)
(*   size      m_size; avail: m_availBytes                                 *)
(*   sack      m_sackList, of records [first, second]                      *)
(*                                                                         *)
(* A retransmission may begin and end anywhere: TcpTxBuffer splits and     *)
(* merges what it sent.  The data may be overtaken, repeated or lost.      *)
(***************************************************************************)
EXTENDS Integers, FiniteSets, Sequences, FiniteSetsExt

CONSTANTS
  N,              \* bytes of the stream; the FIN follows them
  MaxBuffer,      \* m_maxBuffer
  MaxSackBlocks,  \* blocks the list keeps: 4 in the code
  MaxSeg          \* most bytes of a segment

ASSUME RxAssumption ==
  /\ N \in Nat \ {0} /\ MaxBuffer \in Nat \ {0}
  /\ MaxSackBlocks \in Nat \ {0} /\ MaxSeg \in Nat \ {0}

VARIABLES
  rx,     \* the buffer
  out,    \* what Recv has handed to the application
  edge,   \* right edge of the window in the last ACK that reached the sender
  due     \* an ACK is to be sent, or is on its way

vars == <<rx, out, edge, due>>

None == -1

EmptyRx == [data |-> <<>>, next |-> 0, fin |-> None, size |-> 0, avail |-> 0,
            sack |-> <<>>]

Lesser(m, n) == IF m < n THEN m ELSE n
Put(data, k, p) == [j \in DOMAIN data \union {k} |-> IF j = k THEN p ELSE data[j]]
Without(data, K) == [j \in DOMAIN data \ K |-> data[j]]
Begin(t) == Min(DOMAIN t.data)
End(t, k) == k + Len(t.data[k])
Positions(t, k) == k .. (End(t, k) - 1)
Held(t) == UNION {Positions(t, k) : k \in DOMAIN t.data}

\* The first position from n on that is not held.
FirstMissing(t, n) == Min((n .. (N + 1)) \ Held(t))

-----------------------------------------------------------------------------
(* The window *)

\* A window counted from m_nextRxSeq, whatever waits for the application.
MaxRxSequence_FromNext(t) == IF t.fin # None THEN t.fin ELSE t.next + MaxBuffer

\* The lowest sequence number that cannot be accepted.
MaxRxSequence(t) ==
  IF t.fin # None THEN t.fin
  ELSE IF DOMAIN t.data # {} /\ t.next > Begin(t) THEN Begin(t) + MaxBuffer
  ELSE t.next + MaxBuffer

\* A segment that reaches the right edge is refused.
OutOfRange_AtEdge(t, head, tail) == tail < t.next \/ MaxRxSequence(t) <= tail

\* TcpSocketBase::OutOfRange, while the connection is open.
OutOfRange(t, head, tail) == tail < t.next \/ MaxRxSequence(t) <= head

-----------------------------------------------------------------------------
(* The SACK list *)

\* The blocks of the list that touch the first one.
Touching(l) ==
  {i \in 2 .. Len(l) : l[1].first = l[i].second \/ l[1].second = l[i].first}

\* The loop of UpdateSackList up to its next merge, after which it starts over.
MergeOne(l) ==
  LET i == Min(Touching(l))
      merged == IF l[1].first = l[i].second
                THEN [first |-> l[i].first, second |-> l[1].second]
                ELSE [first |-> l[1].first, second |-> l[i].second]
  IN IF Touching(l) = {} THEN l
     ELSE [j \in 1 .. (Len(l) - 1) |->
             CASE j = 1 -> merged [] 1 < j /\ j < i -> l[j] [] OTHER -> l[j + 1]]

\* Every merge shortens the list, so as many passes will do.
Merged(l) ==
  LET pass[n \in 0 .. Len(l)] == IF n = 0 THEN l ELSE MergeOne(pass[n - 1])
  IN pass[Len(l)]

\* UpdateSackList that adds the new block at the end of the list.
UpdateSackList_AtEnd(sack, head, tail) ==
  LET l == Append(sack, [first |-> head, second |-> tail])
  IN IF Len(l) > MaxSackBlocks THEN Tail(l) ELSE l

UpdateSackList(sack, head, tail) ==
  LET l == Merged(<<[first |-> head, second |-> tail]>> \o sack)
  IN IF Len(l) > MaxSackBlocks THEN SubSeq(l, 1, Len(l) - 1) ELSE l

ClearSackList_Never(sack, seq) == sack

\* The blocks that reach beyond seq, in their order.
ClearSackList(sack, seq) ==
  LET kept == {i \in DOMAIN sack : sack[i].second > seq}
      place(i) == Cardinality({k \in kept : k <= i})
  IN [j \in 1 .. Cardinality(kept) |-> sack[CHOOSE i \in kept : place(i) = j]]

-----------------------------------------------------------------------------
(* Add *)

\* Packets inside the new segment stay where they are.
Swallowed_None(t, head, tail) == {}

\* Packets with new bytes on both sides of them are removed.
Swallowed(t, head, tail) == {k \in DOMAIN t.data : head < k /\ End(t, k) < tail}

\* The segment [a, b) cut to what the window takes and the buffer lacks.  The
\* loop goes over packets in order that share no byte: the head moves past all
\* that cover it, the tail to the start of the one that covers the last byte.
Trimmed(t, a, b) ==
  LET from == IF a < t.next THEN t.next ELSE a
      to == IF DOMAIN t.data # {} THEN Lesser(b, Begin(t) + MaxBuffer) ELSE b
      covers == {k \in DOMAIN t.data : k < to /\ to <= End(t, k)}
      head == FirstMissing(t, IF DOMAIN t.data # {} /\ to < from THEN to ELSE from)
  IN [head |-> head,
      tail |-> IF covers = {} THEN to ELSE CHOOSE k \in covers : TRUE,
      gone |-> Swallowed(t, head, to)]

\* m_nextRxSeq moves over the packet just stored, and no further.
Hole_OnePacket(t, c) == IF c.head = t.next THEN c.tail ELSE t.next

\* How far the packets are in order once [c.head, c.tail) is stored.
Hole(t, c) == Min((t.next .. (N + 1)) \ (Held(t) \union (c.head .. (c.tail - 1))))

\* m_nextRxSeq and m_availBytes move over the packets now in order, and over
\* the FIN if it follows them.
Advance(t, hole) ==
  [t EXCEPT !.next = IF hole = t.fin THEN hole + 1 ELSE hole,
            !.avail = @ + hole - t.next,
            !.sack = IF hole = t.next THEN @ ELSE ClearSackList(@, hole)]

\* The segment whose bytes begin at a.
Add(t, a, bytes) ==
  LET c == Trimmed(t, a, a + Len(bytes))
      fragment == SubSeq(bytes, c.head - a + 1, c.tail - a)
      swallowed == Cardinality(UNION {{k} \X DOMAIN t.data[k] : k \in c.gone})
      put == [t EXCEPT !.data = Put(Without(@, c.gone), c.head, fragment),
                       !.sack = IF c.head > t.next
                                THEN UpdateSackList(@, c.head, c.tail) ELSE @,
                       !.size = @ - swallowed + Len(fragment)]
  IN IF c.head < c.tail THEN Advance(put, Hole(t, c)) ELSE t

SetFinSequence(t, s) ==
  [t EXCEPT !.fin = s, !.next = IF @ = s THEN @ + 1 ELSE @]

-----------------------------------------------------------------------------
(* Extract *)

\* The packets below cut go, the one across it is split there.
Extract(t, n) ==
  LET cut == Begin(t) + n
      rest == {k \in DOMAIN t.data : End(t, k) > cut}
  IN [t EXCEPT
        !.data = [j \in {IF k < cut THEN cut ELSE k : k \in rest} |->
                    LET k == CHOOSE i \in rest : j = IF i < cut THEN cut ELSE i
                    IN SubSeq(t.data[k], j - k + 1, Len(t.data[k]))],
        !.size = @ - n,
        !.avail = @ - n]

\* The first n bytes of the buffer, from the packet that holds each.
Head_(t, n) ==
  [i \in 1 .. n |->
     LET p == Begin(t) + i - 1
         k == CHOOSE j \in DOMAIN t.data : p \in Positions(t, j)
     IN t.data[k][p - k + 1]]

-----------------------------------------------------------------------------
(* The socket and its peer *)

Bytes(a, b) == [i \in 1 .. (b - a) |-> a + i - 1]

\* What the sender may send: within the window it knows, or the one byte that
\* probes a window closed to it (PersistTimeout).
MaySend(a, b) ==
  /\ a < b /\ b <= N /\ b - a <= MaxSeg
  /\ b <= edge \/ (a = edge /\ b = a + 1 /\ edge <= rx.next)

Init == rx = EmptyRx /\ out = <<>> /\ edge = Lesser(N, MaxBuffer) /\ due = FALSE

\* DoForwardUp and ReceivedData: kept or not, the segment is acknowledged, at
\* once or after DelAckTimeout.
Arrive(a, b) ==
  /\ MaySend(a, b)
  /\ rx' = IF OutOfRange(rx, a, b) THEN rx ELSE Add(rx, a, Bytes(a, b))
  /\ due' = TRUE
  /\ UNCHANGED <<out, edge>>

\* PeerClose: the FIN comes alone, or with the last bytes.  One that begins
\* below m_nextRxSeq is ignored, data and all.
FinArrives(a) ==
  /\ N - a <= MaxSeg /\ (N <= edge \/ rx.next >= N)
  /\ rx.next <= a /\ a <= MaxRxSequence(rx)
  /\ a < N => ~OutOfRange(rx, a, N)
  /\ LET f == SetFinSequence(rx, N)
     IN rx' = IF a < N THEN Add(f, a, Bytes(a, N)) ELSE f
  /\ due' = TRUE
  /\ UNCHANGED <<out, edge>>

\* Recv.  It sends no ACK of its own: the window it opens is told by the next.
Recv(max) ==
  LET n == Lesser(max, rx.avail)
  IN /\ n > 0
     /\ rx' = Extract(rx, n)
     /\ out' = out \o Head_(rx, n)
     /\ UNCHANGED <<edge, due>>

\* The ACK reaches the sender with the window of AdvertisedWindowSize.
Acked ==
  /\ due /\ due' = FALSE
  /\ edge' = Lesser(N, MaxRxSequence(rx))
  /\ UNCHANGED <<rx, out>>

AckLost ==
  /\ due /\ due' = FALSE
  /\ UNCHANGED <<rx, out, edge>>

Next ==
  \/ \E a, b \in 0 .. N : Arrive(a, b)
  \/ \E a \in 0 .. N : FinArrives(a)
  \/ \E max \in 1 .. MaxSeg : Recv(max)
  \/ Acked
  \/ AckLost

Spec == Init /\ [][Next]_vars

\* The sender repeats the byte it misses an ACK for, or probes.
Resent == IF rx.next < edge THEN Arrive(rx.next, rx.next + 1)
          ELSE Arrive(edge, edge + 1)

\* The application reads what it is notified of, the sender resends what is
\* not acknowledged, and not every ACK is lost.
FairSpec ==
  /\ Spec
  /\ WF_vars(\E max \in 1 .. MaxSeg : Recv(max))
  /\ WF_vars(Resent)
  /\ SF_vars(Acked)

-----------------------------------------------------------------------------
(* Properties *)

\* No byte is stored twice or out of its place, whatever packets the segments
\* were cut into, and the two counters agree with what is stored.
BufferExact ==
  /\ \A k \in DOMAIN rx.data :
       /\ rx.data[k] = Bytes(k, End(rx, k)) /\ rx.data[k] # <<>>
       /\ \A j \in DOMAIN rx.data \ {k} :
            Positions(rx, j) \intersect Positions(rx, k) = {}
  /\ rx.size = Cardinality(Held(rx)) /\ rx.size <= MaxBuffer
  /\ rx.avail = Cardinality({n \in Held(rx) : n < rx.next})

\* What the sender may send is kept, to the last byte, whichever parts of it are
\* already there: the window advertised is a promise.
PromiseKept ==
  \A a, b \in 0 .. N :
    /\ a < b /\ b - a <= MaxSeg /\ b <= edge
    => LET t == IF OutOfRange(rx, a, b) THEN rx ELSE Add(rx, a, Bytes(a, b))
       IN (a .. (b - 1)) \subseteq (0 .. (Len(out) - 1)) \union Held(t)

\* A block reported is data held beyond the first hole: the sender, which will
\* not send it again, loses nothing by believing it.  Two blocks that touch have
\* become one, through any chain of merges.
SackTruth ==
  \A i \in DOMAIN rx.sack :
    /\ rx.next < rx.sack[i].first
    /\ rx.sack[i].first .. (rx.sack[i].second - 1) \subseteq Held(rx)
    /\ \A j \in DOMAIN rx.sack : rx.sack[i].second # rx.sack[j].first

\* RFC 2018 (a), as UpdateSackList quotes it: what an out-of-order segment has
\* added is in the first block of the ACK it triggers.
NewestFirst ==
  [][LET added == Held(rx') \ Held(rx)
     IN added # {} /\ rx'.next = rx.next
        => added \subseteq rx'.sack[1].first .. (rx'.sack[1].second - 1)]_vars

\* The buffer as its reader and the sender see it is a window over a set of
\* positions, read in order up to the first hole; m_nextRxSeq, the number every
\* ACK carries, is that hole, or one past the FIN.
Window == INSTANCE ReceiveWindow WITH
  got <- (0 .. (Len(out) - 1)) \union Held(rx), read <- Len(out),
  next <- rx.next, fin <- rx.fin # None
ImplementsWindow == Window!Spec

\* Everything is read in the end, the buffer full of later segments and the
\* window closed without an update though it may have been.
AllRead == <>(out = Bytes(0, N))

=============================================================================
