------------------------ MODULE TcpConnection_proofs ------------------------
(***************************************************************************)
(* Theorems about TcpConnection, for every amount of data, number of       *)
(* retries, of closes and of losses.                                       *)
(*                                                                         *)
(* TcpWriter_proofs shows what the handlers keep of the writer; the first  *)
(* part here does so for the reader, B.  Its invariant is Reader(t, w, c), *)
(* after w segments have been written and Close has been called c times.   *)
(* The second part is about the path.  What the packets on the way to the  *)
(* writer acknowledge grows (InOrder), from what the writer knows to what  *)
(* the reader has: so no ACK it will ever receive takes back another.  A   *)
(* SYN comes before all that belongs to the connection, and to a reader    *)
(* that has nothing (SynFirst).  Linked puts the ends and the path         *)
(* together; ConnInv, which adds their types, is inductive.                *)
(* The properties follow from it.  And as a step either leaves the writer  *)
(* alone and moves the reader on, or the other way round (Moves), the      *)
(* connection is a stream.                                                 *)
(* The last part is type correctness.  The range of a number depends on    *)
(* what the other end has done: the reader notes a FIN behind the data     *)
(* only if the writer has sent one, and acknowledges it in a FIN of its    *)
(* own with the number after.  Ranged says so of both ends and the path;   *)
(* with ConnInv it is inductive (Held), and gives every number its bound.  *)
(***************************************************************************)
EXTENDS TcpWriter_proofs

-----------------------------------------------------------------------------
\* Acknowledgments in order.

\* q tells of everything p tells of: the numbers below ack, but the SYN's, are
\* those of the segments below ack - 1.
Leq(p, q) == p.ack <= q.ack /\ p.sack \subseteq q.sack \cup 0 .. q.ack - 2

\* What the packets of s report grows, from what lo does to what hi does.
InOrder(s, lo, hi) ==
  /\ Leq(lo, hi)
  /\ \A i \in DOMAIN s : Acks(s[i]) =>
       /\ Leq(lo, s[i]) /\ Leq(s[i], hi)
       /\ \A j \in DOMAIN s : i < j /\ Acks(s[j]) => Leq(s[i], s[j])

\* A report that tells of all another tells of tells of all that one includes.
LEMMA LeqTransitive ==
  ASSUME NEW p, NEW q, NEW r, p.ack \in Nat, q.ack \in Nat, r.ack \in Nat,
         Leq(p, q), Leq(q, r)
  PROVE  Leq(p, r)
<1>1. p.ack <= r.ack
  BY DEF Leq
<1>2. 0 .. q.ack - 2 \subseteq 0 .. r.ack - 2
  BY DEF Leq
<1> QED
  BY <1>1, <1>2 DEF Leq

\* The report of the last packet is the newest.
LEMMA InOrderAppend ==
  ASSUME NEW s \in PacketSeqs, NEW lo, NEW hi, InOrder(s, lo, hi),
         hi.ack \in Nat, NEW p \in NumberedPackets,
         Acks(p) => p.ack = hi.ack /\ p.sack = hi.sack
  PROVE  InOrder(Append(s, p), lo, hi)
<1> DEFINE z == Append(s, p)
<1>1. /\ Len(s) \in Nat /\ DOMAIN s = 1 .. Len(s)
      /\ DOMAIN z = 1 .. Len(s) + 1
      /\ \A i \in 1 .. Len(s) : z[i] = s[i]
      /\ z[Len(s) + 1] = p
  BY DEF PacketSeqs
<1> HIDE DEF z
<1>2. Acks(p) => Leq(p, hi) /\ \A x : Leq(x, hi) => Leq(x, p)
  BY DEF Leq
<1>3. Leq(lo, hi)
  BY DEF InOrder
<1>4. ASSUME NEW i \in DOMAIN z, Acks(z[i])
      PROVE  /\ Leq(lo, z[i]) /\ Leq(z[i], hi)
             /\ \A j \in DOMAIN z : i < j /\ Acks(z[j]) => Leq(z[i], z[j])
  <2>1. CASE i = Len(s) + 1
    BY <1>1, <1>2, <1>3, <1>4, <2>1
  <2>2. CASE i \in 1 .. Len(s)
    <3>1. z[i] = s[i] /\ i \in DOMAIN s /\ Acks(s[i])
      BY <1>1, <1>4, <2>2
    <3>2. /\ Leq(lo, s[i]) /\ Leq(s[i], hi)
          /\ \A j \in DOMAIN s : i < j /\ Acks(s[j]) => Leq(s[i], s[j])
      BY <3>1 DEF InOrder
    <3>3. ASSUME NEW j \in DOMAIN z, i < j, Acks(z[j])
          PROVE  Leq(z[i], z[j])
      <4>1. CASE j = Len(s) + 1
        BY <1>1, <1>2, <3>1, <3>2, <3>3, <4>1
      <4>2. CASE j \in 1 .. Len(s)
        BY <1>1, <3>1, <3>2, <3>3, <4>2
      <4> QED
        BY <1>1, <4>1, <4>2
    <3> QED
      BY <3>1, <3>2, <3>3
  <2> QED
    BY <1>1, <2>1, <2>2
<1> QED
  BY <1>3, <1>4 DEF InOrder, z

\* The reader goes on.
LEMMA InOrderUp ==
  ASSUME NEW s \in PacketSeqs, NEW lo, NEW hi, NEW top, InOrder(s, lo, hi),
         lo.ack \in Nat, hi.ack \in Nat, top.ack \in Nat, Leq(hi, top)
  PROVE  InOrder(s, lo, top)
<1>1. Leq(lo, top)
  BY LeqTransitive DEF InOrder
<1>2. ASSUME NEW i \in DOMAIN s, Acks(s[i])
      PROVE  Leq(s[i], top)
  <2>1. s[i].ack \in Nat
    <3>1. s[i] \in NumberedPackets
      BY DEF PacketSeqs
    <3> QED
      BY <3>1 DEF NumberedPackets
  <2>2. Leq(s[i], hi)
    BY <1>2 DEF InOrder
  <2> QED
    BY <2>1, <2>2, LeqTransitive
<1> QED
  BY <1>1, <1>2 DEF InOrder

-----------------------------------------------------------------------------
\* The reader's socket.

Untouched(t) == t.got = 0 /\ t.ooo = {} /\ t.fin = None /\ t.rxNext <= 1

\* What it has of the w segments written: a FIN it notes is behind them all, or is
\* that of the last, which it then has.
ReaderData(t, w, c) ==
  /\ t \in NumberedSockets
  /\ t.written = 0 /\ t.buf = EmptyBuffer
  /\ t.got <= w /\ t.ooo \subseteq t.got + 1 .. w - 1
  /\ t.fin # None => c > 0 /\ w <= t.fin /\ 1 <= t.fin
                       /\ (t.fin = w => t.got = w \/ w - 1 \in t.ooo)
  /\ t.rxNext # t.fin
  /\ \/ t.rxNext = t.got + 1
     \/ t.rxNext > t.got + 1 /\ t.got = w /\ Finished(t)
     \/ t.rxNext = 0 /\ Untouched(t)
  /\ t.head > 0 => t.nxt > 0

ReaderState(t) ==
  /\ t.state \in {"CLOSE_WAIT", "LAST_ACK"} => Finished(t)
  /\ t.ep /\ t.state = "SYN_RCVD" => Untouched(t) /\ t.head = 0
  /\ t.ep => t.shut /\ t.rxNext > 0 /\ t.state \notin {"CLOSED", "SYN_SENT", "CLOSE_WAIT"}
  /\ t.ep => /\ t.state = "SYN_RCVD" => t.retx = {"SYN", "ACK"}
             /\ t.state \in {"FIN_WAIT_1", "CLOSING"} => t.retx # {}
             /\ t.state = "LAST_ACK" => t.lastAck
  /\ ~t.ep => t.retx = {} /\ ~DelAckRuns(t) /\ ~t.lastAck

Reader(t, w, c) == ReaderData(t, w, c) /\ ReaderState(t)

\* What a packet of the reader says.
ToWriter(p, R) ==
  /\ p.len = 0
  /\ Acks(p) => Honest(p, R)
  /\ "SYN" \in p.flags => 1 <= R

At(t) == [ack |-> t.rxNext, sack |-> t.ooo]

\* What a handler has sent so far, since the socket was at lo.
Told(lo, t) ==
  /\ InOrder(t.tx, lo, At(t))
  /\ \A i \in DOMAIN t.tx : ToWriter(t.tx[i], t.rxNext)

\* What has been received is alike; or there is more of it.
SameRx(t, u) ==
  u.rxNext = t.rxNext /\ u.ooo = t.ooo /\ u.fin = t.fin /\ u.got = t.got

Onward(t, u) ==
  t.got <= u.got /\ t.rxNext <= u.rxNext /\ (Finished(t) => Finished(u))

\* The numbers of a reader.
LEMMA ReaderNumbers ==
  ASSUME NEW t, NEW w \in 0..N, NEW c \in Nat, ReaderData(t, w, c)
  PROVE  /\ t \in NumberedSockets
         /\ t.got \in Nat /\ t.rxNext \in Nat /\ t.head \in Nat /\ t.nxt \in Nat
         /\ t.fin \in Nat \cup {-1} /\ N \in Nat /\ w \in Nat /\ t.got <= w
         /\ t.ooo \subseteq Nat
         /\ Finished(t) => t.got = w /\ t.ooo = {} /\ c > 0
         /\ t.rxNext >= 1 => \A k \in t.ooo : t.rxNext <= k
<1>1. /\ t \in NumberedSockets
      /\ t.got \in Nat /\ t.rxNext \in Nat /\ t.head \in Nat /\ t.nxt \in Nat
      /\ t.fin \in Nat \cup {-1} /\ N \in Nat /\ w \in Nat /\ t.got <= w
      /\ t.ooo \subseteq Nat
  BY TxBufferAssumption
     DEF ReaderData, NumberedSockets, Amounts, MaybeNumber, None, SegmentSets
<1>2. Finished(t) => t.got = w /\ c > 0
  BY <1>1 DEF ReaderData, Finished, Untouched, None
<1>3. t.got = w => t.ooo = {}
  BY <1>1 DEF ReaderData
<1>4. t.rxNext >= 1 => \A k \in t.ooo : t.rxNext <= k
  BY <1>1, <1>3 DEF ReaderData, Untouched
<1> QED
  BY <1>1, <1>2, <1>3, <1>4

\* The packet a reader sends tells of all it has.
LEMMA ToldAppend ==
  ASSUME NEW t, NEW w \in 0..N, NEW c \in Nat, ReaderData(t, w, c), t.rxNext > 0,
         NEW lo, Told(lo, t),
         NEW p \in NumberedPackets, p.len = 0, p.ack = t.rxNext,
         p.sack = IF "ACK" \in p.flags THEN t.ooo ELSE {},
         NEW u, u.tx = Append(t.tx, p), SameRx(t, u)
  PROVE  Told(lo, u)
<1>1. t.rxNext \in Nat /\ t.tx \in PacketSeqs /\ \A k \in t.ooo : t.rxNext <= k
  BY ReaderNumbers DEF ReaderData, NumberedSockets
<1>2. Acks(p) => p.sack = t.ooo
  BY DEF Acks
<1>3. InOrder(t.tx, lo, At(t)) /\ At(u) = At(t)
  BY DEF Told, At, SameRx
<1>4. InOrder(u.tx, lo, At(u))
  <2>1. At(t).ack = t.rxNext /\ At(t).sack = t.ooo
    BY DEF At
  <2> QED
    BY <1>1, <1>2, <1>3, <2>1, InOrderAppend
<1>5. ToWriter(p, t.rxNext)
  BY <1>1, <1>2 DEF ToWriter, Honest
<1>6. \A i \in DOMAIN u.tx : ToWriter(u.tx[i], t.rxNext)
  <2>1. \A i \in DOMAIN t.tx : ToWriter(t.tx[i], t.rxNext)
    BY DEF Told
  <2>2. /\ Len(t.tx) \in Nat /\ DOMAIN t.tx = 1 .. Len(t.tx)
        /\ DOMAIN u.tx = 1 .. Len(t.tx) + 1
        /\ \A i \in 1 .. Len(t.tx) : u.tx[i] = t.tx[i]
        /\ u.tx[Len(t.tx) + 1] = p
    BY <1>1 DEF PacketSeqs
  <2> QED
    BY <1>5, <2>1, <2>2
<1> QED
  BY <1>4, <1>6 DEF Told, SameRx

\* SendEmptyPacket, at the reader.
LEMMA SendEmptyReader ==
  ASSUME NEW t, NEW w \in 0..N, NEW c \in Nat, ReaderData(t, w, c), t.ep, t.rxNext > 0,
         NEW lo, Told(lo, t),
         NEW asked \in Asked, "SYN" \in asked => t.synCount # 0
  PROVE  LET u == SendEmptyPacket(t, asked)
             flags == IF "FIN" \in asked THEN {"FIN", "ACK"} ELSE asked
         IN  /\ ReaderData(u, w, c) /\ SameRx(t, u) /\ Told(lo, u)
             /\ u.state = t.state /\ u.ep /\ u.lastAck = t.lastAck
             /\ u.shut = t.shut /\ u.head = t.head /\ u.nxt = t.nxt
             /\ u.retx = IF t.retx = {} /\ flags \notin {{"ACK"}, {"RST"}}
                         THEN flags ELSE t.retx
<1> DEFINE u == SendEmptyPacket(t, asked)
           flags == IF "FIN" \in asked THEN {"FIN", "ACK"} ELSE asked
<1>1. t \in NumberedSockets
  BY DEF ReaderData
<1>2. /\ u \in NumberedSockets /\ SameData(t, u) /\ u.state = t.state
      /\ u.ep /\ u.lastAck = t.lastAck
  BY <1>1, SendEmptyPacketIs, SMTT(30)
<1>7. u.retx = IF t.retx = {} /\ flags \notin {{"ACK"}, {"RST"}}
               THEN flags ELSE t.retx
  BY <1>1, SendEmptyPacketIs, ZenonT(30)
<1>3. PICK p \in NumberedPackets :
        /\ u.tx = Append(t.tx, p) /\ p.flags = flags /\ p.len = 0
        /\ p.ack = t.rxNext /\ p.sack = IF "ACK" \in flags THEN t.ooo ELSE {}
  BY <1>1, SendEmptyPacketIs
<1> HIDE DEF u, flags
<1>4. SameRx(t, u)
  BY <1>2 DEF SameData, SameRx
<1>5. Told(lo, u)
  BY <1>3, <1>4, ToldAppend
<1>6. ReaderData(u, w, c)
  BY <1>2 DEF ReaderData, SameData, Finished, Untouched
<1> QED
  BY <1>2, <1>4, <1>5, <1>6, <1>7 DEF SameData, u, flags

\* The endpoint goes: the rest stays as it is.
LEMMA DeallocateReader ==
  ASSUME NEW t, NEW w \in 0..N, NEW c \in Nat, ReaderData(t, w, c),
         NEW lo, Told(lo, t)
  PROVE  LET u == DeallocateEndPoint(t)
         IN  /\ ReaderData(u, w, c) /\ SameRx(t, u) /\ Told(lo, u)
             /\ u.state = t.state /\ ~u.ep /\ u.retx = {} /\ ~DelAckRuns(u) /\ ~u.lastAck
<1> DEFINE u == DeallocateEndPoint(t)
<1>1. t \in NumberedSockets
  BY DEF ReaderData
<1>2. /\ u \in NumberedSockets /\ SameData(t, u) /\ u.state = t.state
      /\ ~u.ep /\ u.retx = {} /\ ~u.lastAck /\ u.delAck = 0 /\ u.tx = t.tx
  BY <1>1, DeallocateIs
<1> HIDE DEF u
<1>3. ReaderData(u, w, c) /\ SameRx(t, u)
  BY <1>2 DEF ReaderData, SameData, SameRx, Finished, Untouched
<1>4. Told(lo, u)
  BY <1>2 DEF Told, SameData, At
<1> QED
  BY <1>2, <1>3, <1>4 DEF DelAckRuns, u

\* Drop: the state stays, and may be any.
LEMMA DropReader ==
  ASSUME NEW t, NEW w \in 0..N, NEW c \in Nat, ReaderData(t, w, c),
         NEW lo, Told(lo, t),
         t.state \in {"CLOSE_WAIT", "LAST_ACK"} => Finished(t)
  PROVE  LET u == Drop(t)
         IN  Reader(u, w, c) /\ SameRx(t, u) /\ Told(lo, u) /\ u.state = t.state
<1> DEFINE d == DeallocateEndPoint(t)
           u == Drop(t)
<1>1. /\ ReaderData(d, w, c) /\ SameRx(t, d) /\ Told(lo, d)
      /\ d.state = t.state /\ ~d.ep /\ d.retx = {} /\ ~DelAckRuns(d) /\ ~d.lastAck
  BY DeallocateReader
<1>2. u = [d EXCEPT !.error = TRUE]
  BY DEF Drop
<1> HIDE DEF d, u
<1>3. d \in NumberedSockets
  BY <1>1 DEF ReaderData
<1>4. /\ u \in NumberedSockets /\ SameData(d, u) /\ u.state = d.state /\ u.ep = d.ep
      /\ u.retx = d.retx /\ u.lastAck = d.lastAck /\ u.delAck = d.delAck /\ u.tx = d.tx
  <2>1. u \in NumberedSockets
    BY <1>2, <1>3 DEF NumberedSockets
  <2>2. SameData(d, u)
    BY <1>2, <1>3 DEF NumberedSockets, SameData
  <2> QED
    BY <1>2, <1>3, <2>1, <2>2 DEF NumberedSockets
<1>5. ReaderData(u, w, c) /\ SameRx(t, u) /\ Told(lo, u)
  BY <1>1, <1>4 DEF ReaderData, SameData, SameRx, Finished, Untouched, Told, At
<1>6. ReaderState(u)
  BY <1>1, <1>4, <1>5 DEF ReaderState, DelAckRuns, Finished, SameRx
<1> QED
  BY <1>1, <1>4, <1>5, <1>6 DEF Reader, u

\* CloseAndNotify, at the reader: what has been received stays.
LEMMA CloseAndNotifyReader ==
  ASSUME NEW t, NEW w \in 0..N, NEW c \in Nat, ReaderData(t, w, c),
         NEW lo, Told(lo, t)
  PROVE  LET u == CloseAndNotify(t)
         IN  Reader(u, w, c) /\ SameRx(t, u) /\ Told(lo, u)
<1> DEFINE d == DeallocateEndPoint(t)
           u == CloseAndNotify(t)
<1>1. /\ ReaderData(d, w, c) /\ SameRx(t, d) /\ Told(lo, d)
      /\ ~d.ep /\ d.retx = {} /\ ~DelAckRuns(d) /\ ~d.lastAck
  BY DeallocateReader
<1>2. u = [d EXCEPT !.normal = TRUE, !.state = "CLOSED"]
  BY DEF CloseAndNotify
<1> HIDE DEF d, u
<1>3. d \in NumberedSockets
  BY <1>1 DEF ReaderData
<1>4. /\ u \in NumberedSockets /\ SameData(d, u) /\ u.state = "CLOSED" /\ u.ep = d.ep
      /\ u.retx = d.retx /\ u.lastAck = d.lastAck /\ u.delAck = d.delAck /\ u.tx = d.tx
  <2>1. "CLOSED" \in States
    BY DEF States
  <2>2. u \in NumberedSockets
    BY <1>2, <1>3, <2>1 DEF NumberedSockets
  <2>3. SameData(d, u)
    BY <1>2, <1>3 DEF NumberedSockets, SameData
  <2> QED
    BY <1>2, <1>3, <2>2, <2>3 DEF NumberedSockets
<1>5. ReaderData(u, w, c) /\ SameRx(t, u) /\ Told(lo, u)
  BY <1>1, <1>4 DEF ReaderData, SameData, SameRx, Finished, Untouched, Told, At
<1>6. ReaderState(u)
  BY <1>1, <1>4 DEF ReaderState, DelAckRuns
<1> QED
  BY <1>5, <1>6 DEF Reader, u

\* What was sent stays true as the reader goes on.
LEMMA ToldUp ==
  ASSUME NEW t \in NumberedSockets, NEW u \in NumberedSockets, NEW lo, lo.ack \in Nat,
         Told(lo, t), u.tx = t.tx, Leq(At(t), At(u))
  PROVE  Told(lo, u)
<1>1. /\ t.rxNext \in Nat /\ u.rxNext \in Nat /\ t.tx \in PacketSeqs
      /\ At(t).ack = t.rxNext /\ At(u).ack = u.rxNext
  BY DEF NumberedSockets, At
<1>2. InOrder(u.tx, lo, At(u))
  BY <1>1, InOrderUp DEF Told
<1>3. t.rxNext <= u.rxNext
  BY <1>1 DEF Leq
<1>4. ASSUME NEW i \in DOMAIN t.tx
      PROVE  ToWriter(t.tx[i], u.rxNext)
  <2>1. ToWriter(t.tx[i], t.rxNext)
    BY DEF Told
  <2>2. t.tx[i] \in NumberedPackets
    BY <1>1 DEF PacketSeqs
  <2>3. t.tx[i].ack \in Nat
    BY <2>2 DEF NumberedPackets
  <2> QED
    BY <1>1, <1>3, <2>1, <2>3 DEF ToWriter, Honest
<1> QED
  BY <1>2, <1>4 DEF Told

\* The fields about the connection are alike.
Kept(t, u) ==
  /\ u.state = t.state /\ u.ep = t.ep /\ u.lastAck = t.lastAck /\ u.shut = t.shut
  /\ u.head = t.head /\ u.nxt = t.nxt

\* An ACK, a RST or a FIN, if there is an endpoint to send it from.
LEMMA SendReader ==
  ASSUME NEW t, NEW w \in 0..N, NEW c \in Nat, ReaderData(t, w, c),
         t.ep => t.rxNext > 0,
         NEW lo, Told(lo, t),
         NEW asked \in {{"ACK"}, {"RST"}, {"FIN"}, {"FIN", "ACK"}}
  PROVE  LET u == SendEmptyPacket(t, asked)
         IN  /\ ReaderData(u, w, c) /\ SameRx(t, u) /\ Told(lo, u) /\ Kept(t, u)
             /\ u.retx = t.retx \/ (t.ep /\ u.retx = {"FIN", "ACK"})
             /\ t.ep /\ "FIN" \in asked => u.retx # {}
             /\ "FIN" \notin asked \/ t.retx # {} => u.retx = t.retx
             /\ ~t.ep => u = t
<1> DEFINE u == SendEmptyPacket(t, asked)
<1>1. CASE ~t.ep
  <2>1. u = t
    BY <1>1 DEF SendEmptyPacket
  <2> HIDE DEF u
  <2> QED
    BY <1>1, <2>1 DEF SameRx, Kept, u
<1>2. CASE t.ep
  <2> DEFINE flags == IF "FIN" \in asked THEN {"FIN", "ACK"} ELSE asked
  <2>1. asked \in Asked /\ "SYN" \notin asked
    BY DEF Asked
  <2>2. /\ ReaderData(u, w, c) /\ SameRx(t, u) /\ Told(lo, u)
        /\ u.state = t.state /\ u.ep /\ u.lastAck = t.lastAck
        /\ u.shut = t.shut /\ u.head = t.head /\ u.nxt = t.nxt
    BY <1>2, <2>1, SendEmptyReader
  <2>3. u.retx = IF t.retx = {} /\ flags \notin {{"ACK"}, {"RST"}}
                 THEN flags ELSE t.retx
    BY <1>2, <2>1, SendEmptyReader, ZenonT(30)
  <2>4. /\ flags \notin {{"ACK"}, {"RST"}} => flags = {"FIN", "ACK"}
        /\ "FIN" \in asked => flags = {"FIN", "ACK"} /\ flags \notin {{"ACK"}, {"RST"}}
    OBVIOUS
  <2>5. flags # {} /\ ("FIN" \notin asked => flags \in {{"ACK"}, {"RST"}})
    OBVIOUS
  <2> HIDE DEF u, flags
  <2> QED
    BY <1>2, <2>2, <2>3, <2>4, <2>5 DEF Kept, u
<1> QED
  BY <1>1, <1>2

\* SendRST ends the socket.
LEMMA SendRSTReader ==
  ASSUME NEW t, NEW w \in 0..N, NEW c \in Nat, ReaderData(t, w, c),
         t.ep => t.rxNext > 0,
         NEW lo, Told(lo, t),
         t.state \in {"CLOSE_WAIT", "LAST_ACK"} => Finished(t)
  PROVE  LET u == SendRST(t)
         IN  Reader(u, w, c) /\ SameRx(t, u) /\ Told(lo, u) /\ u.state = t.state
<1> DEFINE s == SendEmptyPacket(t, {"RST"})
<1>1. ReaderData(s, w, c) /\ SameRx(t, s) /\ Told(lo, s) /\ Kept(t, s)
  BY SendReader
<1>2. SendRST(t) = Drop(s)
  BY DEF SendRST
<1> HIDE DEF s
<1>3. s.state \in {"CLOSE_WAIT", "LAST_ACK"} => Finished(s)
  BY <1>1 DEF Kept, SameRx, Finished
<1>4. LET u == Drop(s) IN Reader(u, w, c) /\ SameRx(s, u) /\ Told(lo, u) /\ u.state = s.state
  BY <1>1, <1>3, DropReader
<1> QED
  BY <1>1, <1>2, <1>4 DEF SameRx, Kept

\* The receiver has nothing of its own to send.
LEMMA ReaderAllSent ==
  ASSUME NEW t, NEW w \in 0..N, NEW c \in Nat, ReaderData(t, w, c)
  PROVE  AllSent(t) /\ Size(t) = 0
<1>1. t.head \in Nat /\ t.nxt \in Nat
  BY ReaderNumbers
<1> QED
  BY <1>1 DEF ReaderData, AllSent, Size, EmptyBuffer

\* Close and DoClose, at the receiver: what came out of order is lost to it.
LEMMA CloseReader ==
  ASSUME NEW t, NEW w \in 0..N, NEW c \in Nat, Reader(t, w, c),
         NEW lo, Told(lo, t)
  PROVE  LET u == Close(t)
         IN  Reader(u, w, c) /\ SameRx(t, u) /\ Told(lo, u)
<1>1. /\ ReaderData(t, w, c) /\ ReaderState(t) /\ AllSent(t)
      /\ t.ep => t.rxNext > 0
      /\ t.state \in {"CLOSE_WAIT", "LAST_ACK"} => Finished(t)
  BY ReaderAllSent DEF Reader, ReaderState
<1>2. LET u == SendRST(t)
      IN  Reader(u, w, c) /\ SameRx(t, u) /\ Told(lo, u) /\ u.state = t.state
  BY <1>1, SendRSTReader
<1>3. CASE t.ooo # {}
  BY <1>2, <1>3 DEF Close
<1>4. CASE t.ooo = {}
  <2>1. Close(t) = DoClose(t)
    BY <1>1, <1>4 DEF Close
  <2>2. CASE t.state \in {"ESTABLISHED", "CLOSE_WAIT"}
    <3> DEFINE asked == IF t.state = "ESTABLISHED" THEN {"FIN"} ELSE {"FIN", "ACK"}
               s == SendEmptyPacket(t, asked)
               next == IF t.state = "ESTABLISHED" THEN "FIN_WAIT_1" ELSE "LAST_ACK"
               u == [s EXCEPT !.state = next]
    <3>1. Close(t) = u
      BY <2>1, <2>2 DEF DoClose
    <3>2. asked \in {{"ACK"}, {"RST"}, {"FIN"}, {"FIN", "ACK"}} /\ "FIN" \in asked
      OBVIOUS
    <3> HIDE DEF asked
    <3>3. /\ ReaderData(s, w, c) /\ SameRx(t, s) /\ Told(lo, s) /\ Kept(t, s)
          /\ t.ep => s.retx # {}
          /\ ~t.ep => s = t
      BY <1>1, <3>2, SendReader
    <3>4. next \in {"FIN_WAIT_1", "LAST_ACK"} /\ next \in States
          /\ (t.state = "CLOSE_WAIT" <=> next = "LAST_ACK")
      BY <2>2 DEF States
    <3> HIDE DEF s, next
    <3>5. /\ u \in NumberedSockets /\ SameData(s, u) /\ u.state = next /\ u.ep = s.ep
          /\ u.retx = s.retx /\ u.lastAck = s.lastAck /\ u.delAck = s.delAck
          /\ u.tx = s.tx
      BY <3>3, <3>4 DEF ReaderData, NumberedSockets, SameData
    <3> HIDE DEF u
    <3>6. ReaderData(u, w, c) /\ SameRx(s, u) /\ Told(lo, u)
      BY <3>3, <3>5 DEF ReaderData, SameData, SameRx, Finished, Untouched, Told, At
    <3>7. ReaderState(u)
      <4>1. CASE t.ep
        BY <1>1, <2>2, <3>3, <3>4, <3>5, <4>1
           DEF ReaderState, Kept, SameData, SameRx, Finished
      <4>2. CASE ~t.ep
        BY <1>1, <2>2, <3>3, <3>4, <3>5, <4>2
           DEF ReaderState, SameData, Finished, DelAckRuns
      <4> QED
        BY <4>1, <4>2
    <3> QED
      BY <3>1, <3>3, <3>6, <3>7 DEF SameRx, Reader
  <2>3. CASE t.state \in {"SYN_SENT", "CLOSING"}
    <3> DEFINE s == SendRST(t)
    <3>1. DoClose(t) = CloseAndNotify(s)
      BY <2>3 DEF DoClose
    <3>2. ReaderData(s, w, c) /\ SameRx(t, s) /\ Told(lo, s)
      BY <1>2 DEF Reader
    <3> HIDE DEF s
    <3>3. LET u == CloseAndNotify(s)
          IN  Reader(u, w, c) /\ SameRx(s, u) /\ Told(lo, u)
      BY <3>2, CloseAndNotifyReader
    <3> QED
      BY <2>1, <3>1, <3>2, <3>3 DEF SameRx
  <2>4. CASE t.state \notin {"ESTABLISHED", "CLOSE_WAIT", "SYN_SENT", "CLOSING"}
    <3>1. DoClose(t) = t
      BY <2>4 DEF DoClose
    <3> QED
      BY <2>1, <3>1 DEF SameRx
  <2> QED
    BY <2>2, <2>3, <2>4
<1> QED
  BY <1>3, <1>4

\* DoPeerClose: the receiver, which has no more to say, goes straight to LAST_ACK.
LEMMA DoPeerCloseReader ==
  ASSUME NEW t, NEW w \in 0..N, NEW c \in Nat, ReaderData(t, w, c),
         t.ep, t.shut, Finished(t), t.rxNext > 0,
         NEW lo, Told(lo, t)
  PROVE  LET u == DoPeerClose(t)
         IN  /\ Reader(u, w, c) /\ SameRx(t, u) /\ Told(lo, u)
             /\ u.ep /\ u.state = "LAST_ACK"
<1> DEFINE told == [t EXCEPT !.state = "CLOSE_WAIT", !.normal = TRUE]
           s == SendEmptyPacket(told, {"FIN", "ACK"})
           done == [s EXCEPT !.state = "LAST_ACK"]
           u == DoPeerClose(t)
<1>1. t.ooo = {} /\ AllSent(t)
  BY ReaderNumbers, ReaderAllSent
<1>2. /\ told \in NumberedSockets /\ SameData(t, told) /\ told.ep
      /\ told.tx = t.tx /\ told.state = "CLOSE_WAIT" /\ told.retx = t.retx
      /\ told.lastAck = t.lastAck
  BY DEF ReaderData, NumberedSockets, States, SameData
<1>3. t.shut
  OBVIOUS
<1>4. u = IF Close(told).state = "LAST_ACK"
          THEN [Close(told) EXCEPT !.retries = DataRetries, !.lastAck = TRUE]
          ELSE Close(told)
  BY <1>3 DEF DoPeerClose
<1> HIDE DEF told, u
<1>5. ReaderData(told, w, c) /\ Told(lo, told) /\ SameRx(t, told)
  BY <1>2 DEF ReaderData, SameData, Finished, Untouched, Told, At, SameRx
<1>6. /\ ReaderData(s, w, c) /\ SameRx(told, s) /\ Told(lo, s) /\ Kept(told, s)
      /\ s.retx # {}
  <2>1. told.rxNext > 0
    BY <1>2 DEF SameData
  <2> QED
    BY <1>2, <1>5, <2>1, SendReader
<1>7. Close(told) = done
  <2>1. told.ooo = {} /\ AllSent(told)
    BY <1>1, <1>2 DEF SameData, AllSent
  <2> QED
    BY <1>2, <2>1 DEF Close, DoClose
<1> HIDE DEF s
<1>8. s \in NumberedSockets
  BY <1>6 DEF ReaderData
<1>9. done.state = "LAST_ACK"
  BY <1>8 DEF NumberedSockets
<1>10. u = [s EXCEPT !.state = "LAST_ACK", !.retries = DataRetries, !.lastAck = TRUE]
  BY <1>4, <1>7, <1>8, <1>9
<1>11. /\ u \in NumberedSockets /\ SameData(s, u) /\ u.state = "LAST_ACK"
       /\ u.ep = s.ep /\ u.retx = s.retx /\ u.lastAck /\ u.tx = s.tx
  <2>1. DataRetries \in RetryCounts /\ "LAST_ACK" \in States
    BY Values DEF States
  <2> QED
    BY <1>8, <1>10, <2>1 DEF NumberedSockets, SameData
<1>12. ReaderData(u, w, c) /\ SameRx(s, u) /\ Told(lo, u)
  BY <1>6, <1>11 DEF ReaderData, SameData, SameRx, Finished, Untouched, Told, At
<1>13. Finished(u) /\ u.ep /\ u.shut /\ u.rxNext > 0
  BY <1>2, <1>5, <1>6, <1>11, <1>12 DEF SameRx, SameData, Finished, Kept
<1>14. ReaderState(u)
  BY <1>11, <1>13 DEF ReaderState
<1> QED
  BY <1>5, <1>6, <1>11, <1>12, <1>13, <1>14 DEF Reader, SameRx, u

-----------------------------------------------------------------------------
\* Receiving, at the reader.

\* The last segment is there, in the application or in the buffer.
HasLast(t, w) == t.got = w \/ w - 1 \in t.ooo

\* SetFinSequence: a FIN behind the data, or with the last of it, is noted; in
\* sequence, it is received.
LEMMA SetFinReader ==
  ASSUME NEW t, NEW w \in 0..N, NEW c \in Nat, ReaderData(t, w, c), c > 0,
         t.rxNext > 0, NEW lo, lo.ack \in Nat, Told(lo, t),
         NEW s \in Nat, 1 <= s, w <= s, s = w => HasLast(t, w),
         s = w \/ s = w + 1 \/ s <= t.rxNext
  PROVE  LET u == SetFinSequence(t, s)
         IN  /\ ReaderData(u, w, c) /\ Told(lo, u) /\ Onward(t, u) /\ Kept(t, u)
             /\ u.retx = t.retx /\ u.delAck = t.delAck /\ u.rxNext > 0
             /\ u.got = t.got /\ u.ooo = t.ooo /\ u.fin = s
             /\ s = t.rxNext => u.rxNext = t.rxNext + 1
             /\ s # t.rxNext => u.rxNext = t.rxNext
<1> DEFINE r == IF t.rxNext = s THEN t.rxNext + 1 ELSE t.rxNext
           u == SetFinSequence(t, s)
<1>1. /\ t \in NumberedSockets /\ t.got \in Nat /\ t.rxNext \in Nat /\ w \in Nat
      /\ t.fin \in Nat \cup {-1} /\ t.got <= w
      /\ Finished(t) => t.got = w
  BY ReaderNumbers
<1>2. u = [t EXCEPT !.fin = s, !.rxNext = r]
  BY <1>1 DEF SetFinSequence, NumberedSockets
<1>3. r \in Nat /\ t.rxNext <= r /\ r > 0 /\ r # s
  BY <1>1
<1>4. s = t.rxNext => r = t.rxNext + 1
  OBVIOUS
<1>5. s # t.rxNext => r = t.rxNext
  OBVIOUS
<1> HIDE DEF r, u
<1>6. /\ u \in NumberedSockets /\ u.fin = s /\ u.rxNext = r
      /\ u.got = t.got /\ u.ooo = t.ooo /\ u.written = t.written /\ u.buf = t.buf
      /\ Kept(t, u) /\ u.retx = t.retx /\ u.delAck = t.delAck /\ u.tx = t.tx
  BY <1>1, <1>2, <1>3 DEF NumberedSockets, MaybeNumber, Kept
<1>7. t.rxNext = t.got + 1 \/ (t.rxNext > t.got + 1 /\ t.got = w /\ Finished(t))
  BY <1>1 DEF ReaderData
<1>8. Finished(t) => s < r
  BY <1>1, <1>3, <1>4, <1>5, <1>7 DEF Finished, ReaderData, None
<1>9. Finished(u) <=> s < r
  BY <1>1, <1>6 DEF Finished, None
<1>10. \/ r = t.got + 1
       \/ r > t.got + 1 /\ t.got = w /\ s < r
  BY <1>1, <1>4, <1>5, <1>7, <1>8 DEF HasLast, ReaderData
<1>11. ReaderData(u, w, c)
  <2>1. \/ u.rxNext = u.got + 1
        \/ u.rxNext > u.got + 1 /\ u.got = w /\ Finished(u)
    BY <1>6, <1>9, <1>10
  <2>2. u.fin # None => c > 0 /\ w <= u.fin /\ 1 <= u.fin
                        /\ (u.fin = w => u.got = w \/ w - 1 \in u.ooo)
    BY <1>6 DEF HasLast
  <2>3. u.rxNext # u.fin
    BY <1>3, <1>6
  <2>4. /\ u.written = 0 /\ u.buf = EmptyBuffer
        /\ u.got <= w /\ u.ooo \subseteq u.got + 1 .. w - 1
        /\ u.head > 0 => u.nxt > 0
    BY <1>6 DEF ReaderData, Kept
  <2> QED
    BY <1>6, <2>1, <2>2, <2>3, <2>4 DEF ReaderData
<1>12. Told(lo, u)
  <2>1. Leq(At(t), At(u))
    BY <1>3, <1>6 DEF Leq, At
  <2> QED
    BY <1>1, <1>6, <2>1, ToldUp
<1>13. Onward(t, u)
  BY <1>1, <1>3, <1>6, <1>8, <1>9 DEF Onward
<1> QED
  BY <1>3, <1>4, <1>5, <1>6, <1>11, <1>12, <1>13 DEF u

\* What Add hands on ends at the first segment missing.
LEMMA FirstMissing ==
  ASSUME NEW got \in Nat, NEW w \in 0..N, got <= w, NEW held, held \subseteq got .. w - 1
  PROVE  LET n == CHOOSE n \in got .. N : got .. n-1 \subseteq held /\ n \notin held
         IN  /\ n \in got .. w /\ got .. n-1 \subseteq held /\ n \notin held
<1> DEFINE S == {n \in got .. w : n \notin held}
           m == Min(S)
<1>1. N \in Nat /\ w \in Nat
  BY TxBufferAssumption
<1>2. S \subseteq Nat /\ w \in S
  BY <1>1
<1> HIDE DEF S
<1>3. m \in S /\ \A n \in S : m <= n
  BY <1>2, MinInSet
<1>4. m \in got .. N /\ m \notin held
  BY <1>1, <1>3 DEF S
<1>5. got .. m-1 \subseteq held
  <2> HIDE DEF m
  <2>1. ASSUME NEW j \in got .. m-1, j \notin held
        PROVE  FALSE
    <3>1. j \in S
      BY <1>1, <1>3, <2>1 DEF S
    <3> QED
      BY <1>1, <1>3, <2>1, <3>1 DEF S
  <2> QED
    BY <2>1
<1> DEFINE n == CHOOSE k \in got .. N : got .. k-1 \subseteq held /\ k \notin held
<1>6. n \in got .. N /\ got .. n-1 \subseteq held /\ n \notin held
  BY <1>4, <1>5
<1> HIDE DEF n
<1>7. n <= w
  <2>1. w \notin held
    BY <1>1
  <2> QED
    BY <1>1, <1>6, <2>1
<1> QED
  BY <1>1, <1>6, <1>7 DEF n

\* Add: a segment not held yet fills what it can.
LEMMA AddReader ==
  ASSUME NEW t, NEW w \in 0..N, NEW c \in Nat, ReaderData(t, w, c), t.rxNext > 0,
         NEW lo, lo.ack \in Nat, Told(lo, t),
         NEW k \in 0 .. w - 1, t.rxNext <= k + 1, k \notin t.ooo
  PROVE  LET u == Add(t, k)
         IN  /\ ReaderData(u, w, c) /\ Told(lo, u) /\ Onward(t, u) /\ Kept(t, u)
             /\ u.retx = t.retx /\ u.delAck = t.delAck /\ u.fin = t.fin
             /\ k < u.got \/ k \in u.ooo
             /\ t.rxNext = k + 1 => k < u.got
             /\ u.rxNext > 0
<1> DEFINE held == t.ooo \cup {k}
           got == CHOOSE n \in t.got .. N : t.got .. n-1 \subseteq held /\ n \notin held
           ooo == held \ 0..got-1
           next == IF got > t.got THEN got + 1 ELSE t.rxNext
           m == [t EXCEPT !.ooo = ooo, !.got = got, !.rxNext = next]
           r == IF next = t.fin THEN next + 1 ELSE next
           u == Add(t, k)
<1>1. /\ t \in NumberedSockets /\ t.got \in Nat /\ t.rxNext \in Nat /\ w \in Nat
      /\ t.fin \in Nat \cup {-1} /\ t.got <= w /\ N \in Nat /\ k \in Nat /\ w <= N
      /\ Finished(t) => t.got = w
      /\ t.ooo \subseteq t.got + 1 .. w - 1
  BY ReaderNumbers DEF ReaderData
<1>2. t.rxNext = t.got + 1 /\ t.got <= k
  BY <1>1 DEF ReaderData
<1>3. held \subseteq t.got .. w - 1
  BY <1>1, <1>2
<1>4. got \in t.got .. w /\ t.got .. got-1 \subseteq held /\ got \notin held
  <2> HIDE DEF held
  <2> QED
    BY <1>1, <1>3, FirstMissing
<1>5. u = IF m.rxNext = m.fin THEN [m EXCEPT !.rxNext = @ + 1] ELSE m
  BY <1>1 DEF Add, NumberedSockets
<1> HIDE DEF got
<1>6. next = got + 1
  BY <1>1, <1>2, <1>4
<1>7. ooo \subseteq got + 1 .. w - 1
  BY <1>1, <1>3, <1>4
<1>8. t.ooo \subseteq ooo \cup 0 .. got - 1 /\ (k < got \/ k \in ooo)
      /\ (k = t.got => k < got)
  BY <1>1, <1>2, <1>3, <1>4
<1> HIDE DEF held, ooo, next
<1>9. ooo \in SegmentSets /\ got \in Amounts /\ got \in Nat /\ next \in Nat
  BY <1>1, <1>4, <1>6, <1>7 DEF SegmentSets, Amounts
<1>10. /\ m.rxNext = next /\ m.fin = t.fin
       /\ m = [t EXCEPT !.ooo = ooo, !.got = got, !.rxNext = next]
  BY <1>1 DEF NumberedSockets
<1>11. u = [t EXCEPT !.ooo = ooo, !.got = got, !.rxNext = r]
  BY <1>1, <1>5, <1>10 DEF NumberedSockets
<1>12. r \in Nat /\ r >= got + 1
  BY <1>6, <1>9
<1>13. \/ r = got + 1 /\ r # t.fin
       \/ t.fin = got + 1 /\ r = got + 2
  BY <1>6, <1>9
<1> HIDE DEF m, r, u
<1>14. /\ u \in NumberedSockets /\ u.fin = t.fin /\ u.rxNext = r
       /\ u.got = got /\ u.ooo = ooo /\ u.written = t.written /\ u.buf = t.buf
       /\ Kept(t, u) /\ u.retx = t.retx /\ u.delAck = t.delAck /\ u.tx = t.tx
  BY <1>1, <1>9, <1>11, <1>12 DEF NumberedSockets, Kept
<1>15. t.fin # None => c > 0 /\ w <= t.fin /\ 1 <= t.fin
                       /\ (t.fin = w => got = w \/ w - 1 \in ooo)
  <2>1. t.fin # None => c > 0 /\ w <= t.fin /\ 1 <= t.fin
                        /\ (t.fin = w => t.got = w \/ w - 1 \in t.ooo)
    BY DEF ReaderData
  <2>2. t.got = w => got = w
    BY <1>1, <1>4
  <2>3. w - 1 \in t.ooo => w - 1 \in ooo \/ got = w
    BY <1>1, <1>4, <1>8, <1>9
  <2> QED
    BY <2>1, <2>2, <2>3
<1>16. t.fin = got + 1 => got = w /\ t.fin # None
  <2>1. t.fin = got + 1 => t.fin # None
    BY <1>9 DEF None
  <2>2. ASSUME t.fin = got + 1, got # w
        PROVE  FALSE
    <3>1. w = got + 1 /\ t.fin = w
      BY <1>1, <1>4, <1>9, <1>15, <2>1, <2>2
    <3>2. got \in ooo
      BY <1>9, <1>15, <2>1, <2>2, <3>1
    <3> QED
      BY <1>7, <1>9, <3>2
  <2> QED
    BY <2>1, <2>2
<1>17. ReaderData(u, w, c)
  <2>1. \/ u.rxNext = u.got + 1
        \/ u.rxNext > u.got + 1 /\ u.got = w /\ Finished(u)
    <3>1. CASE r = got + 1
      BY <1>14, <3>1
    <3>2. CASE t.fin = got + 1 /\ r = got + 2
      BY <1>9, <1>14, <1>16, <3>2 DEF Finished
    <3> QED
      BY <1>13, <3>1, <3>2
  <2>2. u.rxNext # u.fin
    BY <1>9, <1>13, <1>14
  <2>3. /\ u.written = 0 /\ u.buf = EmptyBuffer
        /\ u.got <= w /\ u.ooo \subseteq u.got + 1 .. w - 1
        /\ u.head > 0 => u.nxt > 0
    BY <1>1, <1>4, <1>7, <1>14 DEF ReaderData, Kept
  <2> QED
    BY <1>14, <1>15, <2>1, <2>2, <2>3 DEF ReaderData
<1>18. Told(lo, u)
  <2>1. Leq(At(t), At(u))
    <3>1. t.rxNext <= r
      BY <1>1, <1>2, <1>4, <1>12
    <3>2. 0 .. got - 1 \subseteq 0 .. r - 2
      BY <1>9, <1>12
    <3> QED
      BY <1>8, <1>14, <3>1, <3>2 DEF Leq, At
  <2> QED
    BY <1>1, <1>14, <2>1, ToldUp
<1>19. Onward(t, u)
  <2>1. ~Finished(t)
    BY <1>1, <1>2
  <2> QED
    BY <1>1, <1>2, <1>4, <1>12, <1>14, <2>1 DEF Onward
<1>20. t.rxNext = k + 1 => k < u.got
  BY <1>1, <1>2, <1>8, <1>14
<1> QED
  BY <1>8, <1>9, <1>12, <1>14, <1>17, <1>18, <1>19, <1>20 DEF u

\* ReceivedData: at most the reader acknowledges, unless a FIN was waiting.
LEMMA ReceivedDataReader ==
  ASSUME NEW t, NEW w \in 0..N, NEW c \in Nat, ReaderData(t, w, c), t.rxNext > 0,
         t.ep, t.shut, NEW lo, lo.ack \in Nat, Told(lo, t),
         NEW p \in NumberedPackets, p.seq \in 1 .. w
  PROVE  LET u == ReceivedData(t, p)
         IN  /\ ReaderData(u, w, c) /\ Told(lo, u) /\ Onward(t, u) /\ u.rxNext > 0
             /\ \/ Kept(t, u) /\ u.retx \in {t.retx, {"FIN", "ACK"}}
                \/ Reader(u, w, c) /\ u.ep /\ u.state = "LAST_ACK" /\ "FIN" \notin p.flags
             /\ p.seq = w => HasLast(u, w)
             /\ t.rxNext = p.seq => p.seq <= u.got
             /\ u.fin = t.fin
<1> DEFINE k == p.seq - 1
           a == Add(t, k)
           u == ReceivedData(t, p)
<1>1. /\ t \in NumberedSockets /\ t.got \in Nat /\ t.rxNext \in Nat /\ w \in Nat
      /\ p.seq \in Nat /\ k \in Nat /\ k \in 0 .. w - 1 /\ k + 1 = p.seq
  <2>1. t \in NumberedSockets /\ t.got \in Nat /\ t.rxNext \in Nat /\ w \in Nat
    BY ReaderNumbers
  <2> QED
    BY <2>1
<1> HIDE DEF k
<1>2. CASE p.seq < t.rxNext \/ k \in t.ooo
  <2>1. u = SendEmptyPacket(t, {"ACK"})
    BY <1>2 DEF ReceivedData, k
  <2> HIDE DEF u
  <2>2. /\ ReaderData(u, w, c) /\ SameRx(t, u) /\ Told(lo, u) /\ Kept(t, u)
        /\ u.retx = t.retx \/ (t.ep /\ u.retx = {"FIN", "ACK"})
    BY <2>1, SendReader
  <2>3. p.seq = w => HasLast(t, w)
    BY <1>1, <1>2 DEF HasLast, ReaderData, k
  <2>4. t.rxNext = p.seq => FALSE
    <3>1. k \in t.ooo => t.rxNext <= k
      BY <1>1, ReaderNumbers
    <3> QED
      BY <1>1, <1>2, <3>1
  <2>5. t.got <= u.got /\ t.rxNext <= u.rxNext /\ (Finished(t) => Finished(u))
    BY <1>1, <2>2 DEF SameRx, Finished
  <2> QED
    BY <2>2, <2>3, <2>4, <2>5 DEF Onward, SameRx, HasLast, u
<1>3. CASE ~(p.seq < t.rxNext \/ k \in t.ooo)
  <2>1. /\ ReaderData(a, w, c) /\ Told(lo, a) /\ Onward(t, a) /\ Kept(t, a)
        /\ a.retx = t.retx /\ a.delAck = t.delAck /\ a.fin = t.fin
        /\ k < a.got \/ k \in a.ooo
        /\ t.rxNext = k + 1 => k < a.got
        /\ a.rxNext > 0
    <3>1. t.rxNext <= k + 1 /\ k \notin t.ooo
      BY <1>1, <1>3
    <3> QED
      BY <1>1, <3>1, AddReader
  <2>2. \/ a.rxNext > t.rxNext /\ Finished(a) /\ "FIN" \notin p.flags
           /\ u = DoPeerClose(a)
        \/ u = SendEmptyPacket(a, {"ACK"})
        \/ u = [a EXCEPT !.delAck = @ + 1] /\ ~(a.delAck + 1 >= DelAckMax)
    BY <1>3 DEF ReceivedData, k
  <2> HIDE DEF a, u
  <2>3. /\ a.got \in Nat /\ a.rxNext \in Nat /\ a \in NumberedSockets /\ a.got <= w
    BY <2>1, ReaderNumbers
  <2>4. /\ p.seq = w => HasLast(a, w)
        /\ t.rxNext = p.seq => p.seq <= a.got
    BY <1>1, <2>1, <2>3 DEF HasLast
  <2>5. CASE u = DoPeerClose(a) /\ Finished(a) /\ "FIN" \notin p.flags
    <3>1. /\ Reader(u, w, c) /\ SameRx(a, u) /\ Told(lo, u)
          /\ u.ep /\ u.state = "LAST_ACK"
      BY <2>1, <2>5, DoPeerCloseReader DEF Kept
    <3>2. Onward(t, u)
      BY <2>1, <3>1 DEF Onward, SameRx, Finished
    <3> QED
      BY <2>1, <2>4, <2>5, <3>1, <3>2 DEF SameRx, HasLast, Reader, u
  <2>6. CASE u = SendEmptyPacket(a, {"ACK"})
    <3>1. /\ ReaderData(u, w, c) /\ SameRx(a, u) /\ Told(lo, u) /\ Kept(a, u)
          /\ u.retx = a.retx \/ (a.ep /\ u.retx = {"FIN", "ACK"})
      BY <2>1, <2>6, SendReader
    <3>2. Onward(t, u)
      BY <2>1, <3>1 DEF Onward, SameRx, Finished
    <3>3. Kept(t, u) /\ (u.retx = t.retx \/ u.retx = {"FIN", "ACK"})
      BY <2>1, <3>1 DEF Kept
    <3> QED
      BY <2>1, <2>4, <3>1, <3>2, <3>3 DEF SameRx, HasLast, u
  <2>7. CASE u = [a EXCEPT !.delAck = @ + 1] /\ ~(a.delAck + 1 >= DelAckMax)
    <3>1. a.delAck \in DelAckCounts /\ a.delAck + 1 \in DelAckCounts
      BY <2>3, <2>7, ConnectionAssumption DEF NumberedSockets, DelAckCounts
    <3>2. /\ u \in NumberedSockets /\ SameData(a, u) /\ Kept(a, u) /\ u.retx = a.retx
          /\ u.tx = a.tx
      BY <2>3, <2>7, <3>1 DEF NumberedSockets, SameData, Kept
    <3>3. ReaderData(u, w, c) /\ SameRx(a, u) /\ Told(lo, u)
      BY <2>1, <3>2 DEF ReaderData, SameData, SameRx, Finished, Untouched, Told, At
    <3>4. Onward(t, u)
      BY <2>1, <3>3 DEF Onward, SameRx, Finished
    <3> QED
      BY <2>1, <2>4, <3>2, <3>3, <3>4 DEF SameRx, HasLast, Kept, u
  <2> QED
    BY <2>2, <2>5, <2>6, <2>7
<1> QED
  BY <1>2, <1>3

\* The acknowledgment in a packet for the reader moves the window of a socket that
\* sends nothing.
LEMMA AckedReader ==
  ASSUME NEW t, NEW w \in 0..N, NEW c \in Nat, Reader(t, w, c),
         t.ep, t.state \in {"ESTABLISHED", "FIN_WAIT_1", "FIN_WAIT_2"},
         NEW lo, Told(lo, t), NEW ack \in Nat, t.head <= ack
  PROVE  LET u == ProcessAck(Discard(t, ack), ack, t.head, FALSE)
         IN  /\ Reader(u, w, c) /\ Told(lo, u) /\ SameRx(t, u)
             /\ u.ep /\ u.state = t.state
<1> DEFINE d == Discard(t, ack)
           u == ProcessAck(d, ack, t.head, FALSE)
<1>1. /\ ReaderData(t, w, c) /\ ReaderState(t) /\ t \in NumberedSockets
      /\ t.head \in Nat /\ t.nxt \in Nat /\ Size(t) = 0
  BY ReaderNumbers, ReaderAllSent DEF Reader
<1>2. d = [t EXCEPT !.head = ack]
  <2>1. CASE ack <= t.head
    <3>1. ack = t.head
      BY <1>1, <2>1
    <3> QED
      BY <1>1, <2>1, <3>1 DEF Discard, NumberedSockets
  <2>2. CASE ~(ack <= t.head)
    BY <1>1, <2>2 DEF Discard, NumberedSockets
  <2> QED
    BY <2>1, <2>2
<1> HIDE DEF d
<1>3. /\ d \in NumberedSockets /\ d.head = ack
      /\ d.state = t.state /\ d.retx = t.retx /\ d.nxt = t.nxt /\ d.buf = t.buf
      /\ d.written = t.written /\ d.ep = t.ep /\ d.shut = t.shut
      /\ d.lastAck = t.lastAck /\ d.delAck = t.delAck /\ d.tx = t.tx /\ SameRx(t, d)
  <2>1. d \in NumberedSockets /\ d.head = ack
    BY <1>1, <1>2 DEF NumberedSockets
  <2>2. SameRx(t, d)
    BY <1>1, <1>2 DEF NumberedSockets, SameRx
  <2> QED
    BY <1>1, <1>2, <2>1, <2>2, ZenonT(60) DEF NumberedSockets
<1>4. AckOutcome(d, u, ack, t.head, FALSE)
  BY <1>1, <1>3, ProcessAckIs
<1> HIDE DEF u
<1>5. u \in NumberedSockets /\ SameButAck(d, u)
  BY <1>3, <1>4, AckFields, ZenonT(60) DEF AckOutcome
<1>6. /\ u.head = ack /\ u.state = t.state /\ u.buf = t.buf
      /\ u.written = t.written /\ u.ep = t.ep /\ u.shut = t.shut
      /\ u.lastAck = t.lastAck /\ u.delAck = t.delAck /\ u.tx = t.tx /\ SameRx(t, u)
  BY <1>3, <1>5 DEF SameButAck, SameRx
<1>7. \/ u.retx \in {t.retx, {"RTO"}}
      \/ u.retx = {} /\ u.state # "FIN_WAIT_1"
  BY <1>3, <1>4, <1>6 DEF AckOutcome
<1>8. u.head > 0 => u.nxt > 0
  <2>1. t.head > 0 => t.nxt > 0
    BY <1>1 DEF ReaderData
  <2>2. HighTx(d) \in Nat
    BY <1>3, TxBufferAssumption DEF HighTx, NumberedSockets, Buffers
  <2> QED
    BY <1>1, <1>3, <1>4, <1>6, <2>1, <2>2 DEF AckOutcome
<1>9. ReaderData(u, w, c)
  BY <1>1, <1>5, <1>6, <1>8 DEF ReaderData, SameRx, Finished, Untouched
<1>10. ReaderState(u)
  BY <1>1, <1>6, <1>7 DEF ReaderState, SameRx
<1> QED
  BY <1>6, <1>9, <1>10 DEF Reader, Told, At, SameRx, u, d

\* ReceivedAck: the data of the packet is received, and nothing sent but an answer.
LEMMA ReceivedAckReader ==
  ASSUME NEW t, NEW w \in 0..N, NEW c \in Nat, Reader(t, w, c),
         t.ep, t.state \in {"ESTABLISHED", "FIN_WAIT_1", "FIN_WAIT_2"},
         NEW lo, lo.ack \in Nat, Told(lo, t),
         NEW p \in NumberedPackets, p.len = 1 => p.seq \in 1 .. w
  PROVE  LET u == ReceivedAck(t, p)
         IN  /\ Reader(u, w, c) /\ Told(lo, u) /\ Onward(t, u) /\ u.ep
             /\ p.len = 1 /\ p.seq = w => HasLast(u, w)
             /\ p.len = 0 => SameRx(t, u)
             /\ u.state # "SYN_RCVD"
<1> DEFINE u == ReceivedAck(t, p)
           a == ProcessAck(Discard(t, p.ack), p.ack, t.head, FALSE)
           Data(x) == IF p.len > 0 THEN ReceivedData(x, p) ELSE x
<1>1. /\ ReaderData(t, w, c) /\ ReaderState(t) /\ t \in NumberedSockets
      /\ t.head \in Nat /\ p.ack \in Nat /\ p.len \in 0..1 /\ t.buf = EmptyBuffer
  BY ReaderNumbers DEF Reader, ReaderData, NumberedPackets
<1>2. Update(EmptyBuffer, p.sack) = EmptyBuffer
  BY DEF Update, EmptyBuffer, Sent
<1>3. [t EXCEPT !.buf = Update(@, p.sack)] = t
  BY <1>1, <1>2 DEF NumberedSockets
<1>4. u = IF p.ack < t.head THEN Data(t) ELSE SendPendingData(Data(a))
  <2>1. u = LET board == [t EXCEPT !.buf = Update(@, p.sack)]
                dup == board.buf.sacked # t.buf.sacked
                acked == ProcessAck(Discard(board, p.ack), p.ack, t.head, dup)
            IN IF p.ack < t.head THEN Data(board) ELSE SendPendingData(Data(acked))
    BY DEF ReceivedAck
  <2> HIDE DEF u
  <2> QED
    BY <1>3, <2>1
<1> HIDE DEF u
<1>5. ASSUME NEW x, Reader(x, w, c), Told(lo, x), SameRx(t, x), x.ep, x.state = t.state
      PROVE  /\ Reader(Data(x), w, c) /\ Told(lo, Data(x)) /\ Onward(t, Data(x))
             /\ Data(x).ep
             /\ p.len = 1 /\ p.seq = w => HasLast(Data(x), w)
             /\ p.len = 0 => SameRx(t, Data(x))
             /\ Data(x).state # "SYN_RCVD"
  <2>1. ReaderData(x, w, c) /\ ReaderState(x) /\ x.rxNext > 0 /\ x.shut
    BY <1>5 DEF Reader, ReaderState
  <2>2. CASE p.len = 0
    <3>1. Data(x) = x
      BY <2>2
    <3>2. Onward(t, x)
      BY <1>1, <1>5, ReaderNumbers DEF Onward, SameRx, Finished
    <3> QED
      BY <1>5, <2>2, <3>1, <3>2
  <2>3. CASE p.len = 1
    <3> DEFINE y == ReceivedData(x, p)
    <3>1. Data(x) = y
      BY <2>3
    <3>2. /\ ReaderData(y, w, c) /\ Told(lo, y) /\ Onward(x, y) /\ y.rxNext > 0
          /\ \/ Kept(x, y) /\ y.retx \in {x.retx, {"FIN", "ACK"}}
             \/ Reader(y, w, c) /\ y.ep /\ y.state = "LAST_ACK" /\ "FIN" \notin p.flags
          /\ p.seq = w => HasLast(y, w)
      BY <1>5, <2>1, <2>3, ReceivedDataReader
    <3> HIDE DEF y
    <3>3. Onward(t, y)
      BY <1>5, <3>2 DEF Onward, SameRx, Finished
    <3>4. Reader(y, w, c) /\ y.ep /\ y.state # "SYN_RCVD"
      <4>1. CASE Kept(x, y) /\ y.retx \in {x.retx, {"FIN", "ACK"}}
        <5>1. x.state \in {"CLOSE_WAIT", "LAST_ACK"} => Finished(y)
          BY <2>1, <3>2 DEF ReaderState, Onward
        <5>2. {"FIN", "ACK"} # {}
          OBVIOUS
        <5> QED
          BY <1>5, <2>1, <3>2, <4>1, <5>1, <5>2 DEF Reader, ReaderState, Kept
      <4> QED
        BY <3>2, <4>1
    <3> QED
      BY <2>3, <3>1, <3>2, <3>3, <3>4
  <2> QED
    BY <1>1, <2>2, <2>3
<1>6. Reader(Data(t), w, c) /\ Told(lo, Data(t)) /\ Onward(t, Data(t)) /\ Data(t).ep
      /\ (p.len = 1 /\ p.seq = w => HasLast(Data(t), w))
      /\ (p.len = 0 => SameRx(t, Data(t)))
      /\ Data(t).state # "SYN_RCVD"
  BY <1>5 DEF SameRx
<1>7. CASE p.ack < t.head
  BY <1>4, <1>6, <1>7 DEF u
<1>8. CASE ~(p.ack < t.head)
  <2>1. /\ Reader(a, w, c) /\ Told(lo, a) /\ SameRx(t, a)
        /\ a.ep /\ a.state = t.state
    <3>1. t.head <= p.ack
      BY <1>1, <1>8
    <3> QED
      BY <1>1, <3>1, AckedReader
  <2> HIDE DEF a
  <2>2. Reader(Data(a), w, c) /\ Told(lo, Data(a)) /\ Onward(t, Data(a)) /\ Data(a).ep
        /\ (p.len = 1 /\ p.seq = w => HasLast(Data(a), w))
        /\ (p.len = 0 => SameRx(t, Data(a)))
        /\ Data(a).state # "SYN_RCVD"
    BY <1>5, <2>1
  <2> HIDE DEF Data
  <2>3. SendPendingData(Data(a)) = Data(a)
    <3>1. Size(Data(a)) = 0
      BY <2>2, ReaderAllSent DEF Reader
    <3>2. ~(Size(Data(a)) > 0)
      BY <3>1
    <3> QED
      BY <3>2, SendPendingDataIdle
  <2> QED
    BY <1>4, <1>8, <2>2, <2>3 DEF u
<1> QED
  BY <1>7, <1>8

\* A socket that waits for no answer, or has the timer it waits with, is alike.
LEMMA KeptReader ==
  ASSUME NEW t, NEW u, NEW w \in 0..N, NEW c \in Nat, Reader(t, w, c),
         t.ep, t.state # "SYN_RCVD",
         ReaderData(u, w, c), Onward(t, u), Kept(t, u), u.rxNext > 0,
         u.retx \in {t.retx, {"FIN", "ACK"}}
  PROVE  Reader(u, w, c)
<1>1. t.state \in {"CLOSE_WAIT", "LAST_ACK"} => Finished(u)
  BY DEF Reader, ReaderState, Onward
<1>2. {"FIN", "ACK"} # {}
  OBVIOUS
<1> QED
  BY <1>1, <1>2 DEF Reader, ReaderState, Kept

\* PeerClose: the FIN ends the stream when it and the data before it are there.
LEMMA PeerCloseReader ==
  ASSUME NEW t, NEW w \in 0..N, NEW c \in Nat, ReaderData(t, w, c),
         t.ep, t.shut, t.rxNext > 0,
         NEW lo, lo.ack \in Nat, Told(lo, t),
         NEW p \in NumberedPackets, "FIN" \in p.flags,
         FromWriter(p, w, c, t.rxNext),
         \/ Reader(t, w, c) /\ t.state = "ESTABLISHED"
         \/ t.fin = None /\ p.seq = t.rxNext
  PROVE  LET u == PeerClose(t, p)
         IN  Reader(u, w, c) /\ Told(lo, u) /\ Onward(t, u) /\ u.ep
<1> DEFINE s == p.seq + p.len
           noted == SetFinSequence(t, s)
           taken == IF p.len > 0 THEN ReceivedData(noted, p) ELSE noted
           u == PeerClose(t, p)
           ignored == p.seq < t.rxNext \/ (t.fin # None /\ p.seq > t.fin)
<1>1. /\ t \in NumberedSockets /\ t.got \in Nat /\ t.rxNext \in Nat /\ w \in Nat
      /\ t.fin \in Nat \cup {-1} /\ t.got <= w
      /\ p.seq \in Nat /\ p.len \in 0..1 /\ c > 0
  BY ReaderNumbers DEF NumberedPackets, FromWriter
<1>2. u = IF ignored THEN t ELSE IF Finished(taken) THEN DoPeerClose(taken) ELSE taken
  BY DEF PeerClose
<1>3. CASE ignored
  <2>1. t.fin = None => p.seq < t.rxNext
    BY <1>3
  <2>2. Reader(t, w, c)
    BY <1>1, <2>1
  <2>3. Onward(t, t)
    BY <1>1 DEF Onward
  <2> QED
    BY <1>2, <1>3, <2>2, <2>3
<1>4. CASE ~ignored
  <2>1. s = w + 1
    <3>1. CASE p.len = 1
      BY <1>1, <3>1 DEF FromWriter
    <3>2. CASE p.len = 0
      <4>1. w < p.seq /\ (p.seq = w + 1 \/ p.seq <= t.rxNext)
        BY <3>2 DEF FromWriter
      <4>2. t.rxNext > t.got + 1 /\ Finished(t) => t.fin # None /\ p.seq > t.fin
        BY <1>1, <1>4 DEF Finished, None
      <4>3. t.rxNext = t.got + 1 \/ p.seq = w + 1
        BY <1>1, <1>4, <4>2 DEF ReaderData
      <4> QED
        BY <1>1, <1>4, <3>2, <4>1, <4>3
    <3> QED
      BY <1>1, <3>1, <3>2
  <2> HIDE DEF s
  <2>2. /\ ReaderData(noted, w, c) /\ Told(lo, noted) /\ Onward(t, noted)
        /\ Kept(t, noted) /\ noted.retx = t.retx /\ noted.rxNext > 0
        /\ noted.fin = s
        /\ s = t.rxNext => noted.rxNext = t.rxNext + 1
        /\ s # t.rxNext => noted.rxNext = t.rxNext
    <3>1. s \in Nat /\ 1 <= s /\ w <= s /\ s # w
      BY <1>1, <2>1
    <3> QED
      BY <1>1, <2>1, <3>1, SetFinReader
  <2> HIDE DEF noted
  <2>3. /\ ReaderData(taken, w, c) /\ Told(lo, taken) /\ Onward(t, taken)
        /\ Kept(t, taken) /\ taken.retx \in {t.retx, {"FIN", "ACK"}}
        /\ taken.rxNext > 0 /\ taken.fin = w + 1
        /\ p.seq = t.rxNext => Finished(taken)
    <3>1. CASE p.len = 0
      <4>1. taken = noted
        BY <3>1
      <4>2. p.seq = t.rxNext => Finished(noted)
        BY <1>1, <2>1, <2>2, <3>1 DEF s, Finished, None
      <4> QED
        BY <2>1, <2>2, <4>1, <4>2
    <3>2. CASE p.len = 1
      <4> DEFINE y == ReceivedData(noted, p)
      <4>1. taken = y
        BY <3>2
      <4>2. p.seq = w /\ p.seq \in 1 .. w
        BY <3>2 DEF FromWriter
      <4>3. /\ ReaderData(y, w, c) /\ Told(lo, y) /\ Onward(noted, y) /\ y.rxNext > 0
            /\ Kept(noted, y) /\ y.retx \in {noted.retx, {"FIN", "ACK"}}
            /\ noted.rxNext = p.seq => p.seq <= y.got
            /\ y.fin = noted.fin
        BY <2>2, <4>2, ReceivedDataReader DEF Kept
      <4> HIDE DEF y, taken
      <4>4. Onward(t, y) /\ Kept(t, y)
        <5>1. /\ y.got \in Nat /\ y.rxNext \in Nat /\ noted.got \in Nat /\ noted.rxNext \in Nat
          BY <2>2, <4>3, ReaderNumbers
        <5> QED
          BY <1>1, <2>2, <4>3, <5>1 DEF Onward, Kept
      <4>5. p.seq = t.rxNext => Finished(y)
        <5>1. /\ y.got \in Nat /\ y.rxNext \in Nat /\ y.got <= w
          BY <4>3, ReaderNumbers
        <5>2. p.seq = t.rxNext => y.got = w
          BY <1>1, <2>1, <2>2, <4>2, <4>3, <5>1
        <5>3. y.fin = w + 1 /\ y.rxNext # y.fin /\ y.rxNext > 0
          BY <2>1, <2>2, <4>3 DEF ReaderData
        <5>4. y.rxNext = y.got + 1 \/ y.rxNext > y.got + 1
          BY <4>3, <5>1 DEF ReaderData
        <5> QED
          BY <1>1, <5>1, <5>2, <5>3, <5>4 DEF Finished, None
      <4> QED
        BY <2>1, <2>2, <4>1, <4>3, <4>4, <4>5
    <3> QED
      BY <1>1, <3>1, <3>2
  <2> HIDE DEF taken
  <2>4. CASE Finished(taken)
    <3>1. u = DoPeerClose(taken)
      BY <1>2, <1>4, <2>4
    <3>2. taken.ep /\ taken.shut
      BY <2>3 DEF Kept
    <3> HIDE DEF u, ignored
    <3>3. /\ Reader(u, w, c) /\ SameRx(taken, u) /\ Told(lo, u) /\ u.ep
      BY <2>3, <2>4, <3>1, <3>2, DoPeerCloseReader
    <3> QED
      BY <2>3, <3>3 DEF Onward, SameRx, Finished, u
  <2>5. CASE ~Finished(taken)
    <3>1. u = taken
      BY <1>2, <1>4, <2>5
    <3>2. Reader(t, w, c) /\ t.state = "ESTABLISHED"
      BY <2>3, <2>5
    <3> QED
      BY <2>3, <3>1, <3>2, KeptReader DEF Kept
  <2> QED
    BY <2>4, <2>5
<1> QED
  BY <1>3, <1>4

\* TimeWait, at the reader.
LEMMA TimeWaitReader ==
  ASSUME NEW t, NEW w \in 0..N, NEW c \in Nat, Reader(t, w, c), t.ep,
         NEW lo, Told(lo, t)
  PROVE  LET u == TimeWait(t)
         IN  Reader(u, w, c) /\ SameRx(t, u) /\ Told(lo, u) /\ u.ep
<1> DEFINE u == TimeWait(t)
<1>1. ReaderData(t, w, c) /\ ReaderState(t) /\ t \in NumberedSockets
  BY DEF Reader, ReaderData
<1>2. /\ u \in NumberedSockets /\ SameData(t, u) /\ u.state = "TIME_WAIT"
      /\ u.ep = t.ep /\ u.tx = t.tx
  BY <1>1, TimeWaitIs
<1> HIDE DEF u
<1>3. ReaderData(u, w, c) /\ Told(lo, u) /\ SameRx(t, u)
  BY <1>1, <1>2 DEF ReaderData, SameData, SameRx, Finished, Untouched, Told, At
<1>4. ReaderState(u)
  BY <1>1, <1>2 DEF ReaderState, SameData
<1> QED
  BY <1>2, <1>3, <1>4 DEF Reader, u

\* An ACK changes nothing else.
LEMMA SendAckReader ==
  ASSUME NEW t, NEW w \in 0..N, NEW c \in Nat, Reader(t, w, c),
         NEW lo, Told(lo, t)
  PROVE  LET u == SendEmptyPacket(t, {"ACK"})
         IN  Reader(u, w, c) /\ SameRx(t, u) /\ Told(lo, u) /\ u.ep = t.ep
<1> DEFINE u == SendEmptyPacket(t, {"ACK"})
<1>1. ReaderData(t, w, c) /\ ReaderState(t) /\ (t.ep => t.rxNext > 0)
  BY DEF Reader, ReaderState
<1>2. /\ ReaderData(u, w, c) /\ SameRx(t, u) /\ Told(lo, u) /\ Kept(t, u)
      /\ u.retx = t.retx /\ (~t.ep => u = t)
  <2>1. "FIN" \notin {"ACK"}
    OBVIOUS
  <2> QED
    BY <1>1, <2>1, SendReader
<1> HIDE DEF u
<1>3. ReaderState(u)
  <2>1. CASE ~t.ep
    BY <1>1, <1>2, <2>1
  <2>2. CASE t.ep
    BY <1>1, <1>2, <2>2 DEF ReaderState, Kept, SameRx, Finished, Untouched
  <2> QED
    BY <2>1, <2>2
<1> QED
  BY <1>2, <1>3 DEF Reader, Kept, u

\* What the handler of a packet does to the reader.
Received(t, u, w, c, lo, p) ==
  /\ Reader(u, w, c) /\ Told(lo, u) /\ Onward(t, u)
  /\ Harmless(p) => SameRx(t, u)

\* A handler that leaves what has been received alone has received nothing wrong.
LEMMA ReceivedNothing ==
  ASSUME NEW t, NEW u, NEW w \in 0..N, NEW c \in Nat, ReaderData(t, w, c),
         Reader(u, w, c), NEW lo, Told(lo, u), SameRx(t, u), NEW p
  PROVE  Received(t, u, w, c, lo, p)
<1>1. t.got \in Nat /\ t.rxNext \in Nat
  BY ReaderNumbers
<1> QED
  BY <1>1 DEF Received, Onward, SameRx, Finished

\* ProcessEstablished, at the reader.
LEMMA ProcessEstablishedReader ==
  ASSUME NEW t, NEW w \in 0..N, NEW c \in Nat, Reader(t, w, c), t.ep,
         t.state = "ESTABLISHED", NEW lo, lo.ack \in Nat, Told(lo, t),
         NEW p \in NumberedPackets, FromWriter(p, w, c, t.rxNext)
  PROVE  Received(t, ProcessEstablished(t, p), w, c, lo, p)
<1> DEFINE u == ProcessEstablished(t, p)
<1>1. ReaderData(t, w, c) /\ ReaderState(t) /\ t.shut /\ t.rxNext > 0
  BY DEF Reader, ReaderState
<1>2. Received(t, t, w, c, lo, p)
  BY <1>1, ReceivedNothing DEF SameRx
<1>3. CASE p.flags = {"ACK"}
  <2>1. u = IF p.ack < t.head THEN t
            ELSE IF p.ack > HighTx(t) THEN SendEmptyPacket(t, {"ACK"})
            ELSE ReceivedAck(t, p)
    BY <1>3 DEF ProcessEstablished
  <2>2. Received(t, SendEmptyPacket(t, {"ACK"}), w, c, lo, p)
    BY <1>1, SendAckReader, ReceivedNothing
  <2>3. Received(t, ReceivedAck(t, p), w, c, lo, p)
    <3>1. p.len = 1 => p.seq \in 1 .. w
      BY DEF FromWriter
    <3>2. LET v == ReceivedAck(t, p)
          IN  /\ Reader(v, w, c) /\ Told(lo, v) /\ Onward(t, v) /\ v.ep
              /\ p.len = 0 => SameRx(t, v)
      BY <3>1, ReceivedAckReader
    <3> QED
      BY <3>2 DEF Received, Harmless
  <2> QED
    BY <1>2, <2>1, <2>2, <2>3
<1>4. CASE p.flags = {"FIN", "ACK"}
  <2>1. u = PeerClose(t, p)
    BY <1>4 DEF ProcessEstablished
  <2>2. LET v == PeerClose(t, p)
        IN Reader(v, w, c) /\ Told(lo, v) /\ Onward(t, v) /\ v.ep
    <3>1. "FIN" \in p.flags
      BY <1>4
    <3> QED
      BY <1>1, <3>1, PeerCloseReader
  <2> HIDE DEF u
  <2> QED
    BY <1>4, <2>1, <2>2 DEF Received, Harmless, u
<1>5. CASE p.flags \notin {{"ACK"}, {"FIN", "ACK"}} /\ "SYN" \in p.flags
  <2>1. u = t
    BY <1>5 DEF ProcessEstablished
  <2> QED
    BY <1>2, <2>1
<1>6. CASE p.flags \notin {{"ACK"}, {"FIN", "ACK"}} /\ "SYN" \notin p.flags
  <2>1. u = CloseAndNotify(t)
    BY <1>6 DEF ProcessEstablished
  <2>2. LET v == CloseAndNotify(t) IN Reader(v, w, c) /\ SameRx(t, v) /\ Told(lo, v)
    BY <1>1, CloseAndNotifyReader
  <2> HIDE DEF u
  <2> QED
    BY <1>1, <2>1, <2>2, ReceivedNothing DEF u
<1> QED
  BY <1>3, <1>4, <1>5, <1>6

\* The end of ProcessWait: the FIN of the peer has come.
LEMMA WaitFinishedReader ==
  ASSUME NEW t, NEW w \in 0..N, NEW c \in Nat, Reader(t, w, c), t.ep,
         NEW lo, Told(lo, t), NEW p
  PROVE  LET u == WaitFinished(t, p)
         IN  Reader(u, w, c) /\ SameRx(t, u) /\ Told(lo, u)
<1> DEFINE u == WaitFinished(t, p)
           closing == [t EXCEPT !.state = "CLOSING"]
<1>1. ReaderData(t, w, c) /\ ReaderState(t) /\ t \in NumberedSockets
  BY DEF Reader, ReaderData
<1>2. \/ u = t
      \/ u = SendEmptyPacket(TimeWait(t), {"ACK"})
      \/ t.state = "FIN_WAIT_1" /\ u = SendEmptyPacket(closing, {"ACK"})
  BY DEF WaitFinished
<1> HIDE DEF u
<1>3. CASE u = t
  BY <1>3 DEF SameRx, u
<1>4. CASE u = SendEmptyPacket(TimeWait(t), {"ACK"})
  <2> DEFINE m == TimeWait(t)
  <2>1. Reader(m, w, c) /\ SameRx(t, m) /\ Told(lo, m)
    BY TimeWaitReader
  <2> HIDE DEF m
  <2>2. LET v == SendEmptyPacket(m, {"ACK"})
        IN  Reader(v, w, c) /\ SameRx(m, v) /\ Told(lo, v)
    BY <2>1, SendAckReader
  <2> QED
    BY <1>4, <2>1, <2>2 DEF SameRx, m, u
<1>5. CASE t.state = "FIN_WAIT_1" /\ u = SendEmptyPacket(closing, {"ACK"})
  <2>1. /\ closing \in NumberedSockets /\ SameData(t, closing)
        /\ closing.state = "CLOSING" /\ closing.ep = t.ep /\ closing.tx = t.tx
        /\ closing.retx = t.retx /\ closing.lastAck = t.lastAck
    BY <1>1 DEF NumberedSockets, SameData, States
  <2> HIDE DEF closing
  <2>2. ReaderData(closing, w, c) /\ Told(lo, closing) /\ SameRx(t, closing)
    BY <1>1, <2>1 DEF ReaderData, SameData, SameRx, Finished, Untouched, Told, At
  <2>3. ReaderState(closing)
    BY <1>1, <1>5, <2>1 DEF ReaderState, SameData
  <2>4. LET v == SendEmptyPacket(closing, {"ACK"})
        IN  Reader(v, w, c) /\ SameRx(closing, v) /\ Told(lo, v)
    BY <2>2, <2>3, SendAckReader DEF Reader
  <2> QED
    BY <1>5, <2>2, <2>4 DEF SameRx, u
<1> QED
  BY <1>2, <1>3, <1>4, <1>5

\* ProcessWait, at the reader.
LEMMA ProcessWaitReader ==
  ASSUME NEW t, NEW w \in 0..N, NEW c \in Nat, Reader(t, w, c), t.ep,
         t.state \in {"FIN_WAIT_1", "FIN_WAIT_2"},
         NEW lo, lo.ack \in Nat, Told(lo, t),
         NEW p \in NumberedPackets, FromWriter(p, w, c, t.rxNext)
  PROVE  Received(t, ProcessWait(t, p), w, c, lo, p)
<1> DEFINE u == ProcessWait(t, p)
           acked == ReceivedAck(t, p)
           half == [acked EXCEPT !.state = "FIN_WAIT_2"]
           fin == SetFinSequence(acked, p.seq)
<1>1. /\ ReaderData(t, w, c) /\ ReaderState(t)
      /\ t.got \in Nat /\ t.rxNext \in Nat /\ w \in Nat
      /\ p.seq \in Nat /\ p.len \in 0..1
  BY ReaderNumbers DEF Reader, NumberedPackets
<1>2. /\ Reader(acked, w, c) /\ Told(lo, acked) /\ Onward(t, acked) /\ acked.ep
      /\ p.len = 1 /\ p.seq = w => HasLast(acked, w)
      /\ p.len = 0 => SameRx(t, acked)
      /\ acked.state # "SYN_RCVD"
  <2>1. p.len = 1 => p.seq \in 1 .. w
    BY DEF FromWriter
  <2> QED
    BY <2>1, ReceivedAckReader
<1>3. CASE p.flags = {"ACK"}
  <2>1. \/ u = WaitFinished(acked, p)
        \/ u = WaitFinished(half, p) /\ acked.state = "FIN_WAIT_1"
    BY <1>3 DEF ProcessWait
  <2> HIDE DEF acked, u
  <2>2. acked.state = "FIN_WAIT_1"
          => Reader(half, w, c) /\ Told(lo, half) /\ SameRx(acked, half) /\ half.ep
    <3>1. ReaderData(acked, w, c) /\ ReaderState(acked) /\ acked \in NumberedSockets
      BY <1>2 DEF Reader, ReaderData
    <3>2. /\ half \in NumberedSockets /\ SameData(acked, half)
          /\ half.state = "FIN_WAIT_2" /\ half.ep = acked.ep /\ half.tx = acked.tx
          /\ half.retx = acked.retx /\ half.lastAck = acked.lastAck
      BY <3>1 DEF NumberedSockets, SameData, States
    <3> HIDE DEF half
    <3>3. ReaderData(half, w, c) /\ Told(lo, half) /\ SameRx(acked, half)
      BY <1>2, <3>1, <3>2 DEF ReaderData, SameData, SameRx, Finished, Untouched, Told, At
    <3>4. ReaderState(half)
      BY <1>2, <3>1, <3>2 DEF ReaderState, SameData
    <3> QED
      BY <1>2, <3>2, <3>3, <3>4 DEF Reader
  <2> HIDE DEF half
  <2>3. PICK m : /\ Reader(m, w, c) /\ Told(lo, m) /\ SameRx(acked, m) /\ m.ep
                 /\ u = WaitFinished(m, p)
    <3>1. SameRx(acked, acked)
      BY DEF SameRx
    <3> QED
      BY <1>2, <2>1, <2>2, <3>1
  <2>4. LET v == WaitFinished(m, p)
        IN  Reader(v, w, c) /\ SameRx(m, v) /\ Told(lo, v)
    BY <2>3, WaitFinishedReader
  <2>5. Reader(u, w, c) /\ SameRx(acked, u) /\ Told(lo, u)
    BY <2>3, <2>4 DEF SameRx
  <2> QED
    BY <1>2, <2>5 DEF Received, Onward, SameRx, Finished, Harmless, u
<1>4. CASE p.flags = {"FIN", "ACK"}
  <2>1. u = WaitFinished(fin, p)
    BY <1>4 DEF ProcessWait
  <2> HIDE DEF acked, u
  <2>2. ReaderData(acked, w, c) /\ ReaderState(acked) /\ acked.rxNext > 0
        /\ acked.rxNext \in Nat
    BY <1>2, ReaderNumbers DEF Reader, ReaderState
  <2>3. /\ c > 0
        /\ p.len = 1 => p.seq = w /\ 1 <= w
        /\ p.len = 0 => w < p.seq /\ (p.seq = w + 1 \/ p.seq <= t.rxNext)
    BY <1>1, <1>4 DEF FromWriter
  <2>4. /\ ReaderData(fin, w, c) /\ Told(lo, fin) /\ Onward(acked, fin)
        /\ Kept(acked, fin) /\ fin.retx = acked.retx /\ fin.delAck = acked.delAck
        /\ fin.rxNext > 0
    <3>1. /\ 1 <= p.seq /\ w <= p.seq /\ (p.seq = w => HasLast(acked, w))
          /\ p.seq = w \/ p.seq = w + 1 \/ p.seq <= acked.rxNext
      BY <1>1, <1>2, <2>2, <2>3 DEF Onward
    <3> QED
      BY <1>1, <1>2, <2>2, <2>3, <3>1, SetFinReader
  <2> HIDE DEF fin
  <2>5. Reader(fin, w, c) /\ fin.ep
    <3>1. acked.state \in {"CLOSE_WAIT", "LAST_ACK"} => Finished(fin)
      BY <2>2, <2>4 DEF ReaderState, Onward
    <3>2. ReaderState(fin)
      BY <1>2, <2>2, <2>4, <3>1 DEF ReaderState, Kept
    <3> QED
      BY <1>2, <2>4, <3>2 DEF Reader, Kept
  <2>6. LET v == WaitFinished(fin, p)
        IN  Reader(v, w, c) /\ SameRx(fin, v) /\ Told(lo, v)
    BY <2>4, <2>5, WaitFinishedReader
  <2>7. Onward(t, fin)
    <3>1. fin.got \in Nat /\ fin.rxNext \in Nat /\ acked.got \in Nat
      BY <2>2, <2>4, ReaderNumbers
    <3> QED
      BY <1>1, <1>2, <2>2, <2>4, <3>1 DEF Onward
  <2>8. Onward(t, u)
    BY <2>1, <2>6, <2>7 DEF Onward, SameRx, Finished
  <2> QED
    BY <1>4, <2>1, <2>6, <2>8 DEF Received, Harmless, u
<1>5. CASE p.flags \notin {{"ACK"}, {"FIN", "ACK"}} /\ "SYN" \in p.flags
  <2>1. u = t
    BY <1>5 DEF ProcessWait
  <2> QED
    BY <1>1, <2>1, ReceivedNothing DEF SameRx
<1>6. CASE p.flags \notin {{"ACK"}, {"FIN", "ACK"}} /\ "SYN" \notin p.flags
  <2>1. u = CloseAndNotify(t)
    BY <1>6 DEF ProcessWait
  <2>2. LET v == CloseAndNotify(t) IN Reader(v, w, c) /\ SameRx(t, v) /\ Told(lo, v)
    BY <1>1, CloseAndNotifyReader
  <2> HIDE DEF u
  <2> QED
    BY <1>1, <2>1, <2>2, ReceivedNothing DEF u
<1> QED
  BY <1>3, <1>4, <1>5, <1>6

\* A SYN, or the SYN of the passive end: sent again, or given up.
LEMMA SendSynReader ==
  ASSUME NEW t, NEW w \in 0..N, NEW c \in Nat, ReaderData(t, w, c), t.ep, t.rxNext > 0,
         NEW lo, Told(lo, t), NEW asked \in {{"SYN"}, {"SYN", "ACK"}}
  PROVE  LET u == SendEmptyPacket(t, asked)
         IN  /\ ReaderData(u, w, c) /\ SameRx(t, u) /\ Told(lo, u)
             /\ \/ Reader(u, w, c) /\ ~u.ep
                \/ Kept(t, u) /\ u.retx \in {t.retx, asked} /\ u.retx # {}
<1> DEFINE u == SendEmptyPacket(t, asked)
<1>1. asked \in Asked /\ "FIN" \notin asked /\ "SYN" \in asked /\ asked # {}
  BY DEF Asked
<1>2. t \in NumberedSockets
  BY DEF ReaderData
<1>3. CASE t.synCount = 0
  <2> DEFINE d == DeallocateEndPoint(t)
  <2>1. u = [d EXCEPT !.failed = TRUE, !.state = "CLOSED"]
    BY <1>1, <1>3 DEF SendEmptyPacket
  <2>2. /\ ReaderData(d, w, c) /\ SameRx(t, d) /\ Told(lo, d)
        /\ ~d.ep /\ d.retx = {} /\ ~DelAckRuns(d) /\ ~d.lastAck
    BY DeallocateReader
  <2> HIDE DEF d, u
  <2>3. d \in NumberedSockets
    BY <2>2 DEF ReaderData
  <2>4. /\ u \in NumberedSockets /\ SameData(d, u) /\ u.state = "CLOSED" /\ u.ep = d.ep
        /\ u.retx = d.retx /\ u.lastAck = d.lastAck /\ u.delAck = d.delAck /\ u.tx = d.tx
    <3>1. u \in NumberedSockets
      <4>1. "CLOSED" \in States
        BY DEF States
      <4> QED
        BY <2>1, <2>3, <4>1 DEF NumberedSockets
    <3>2. SameData(d, u)
      BY <2>1, <2>3 DEF NumberedSockets, SameData
    <3> QED
      BY <2>1, <2>2, <2>3, <3>1, <3>2 DEF NumberedSockets
  <2>5. ReaderData(u, w, c) /\ SameRx(t, u) /\ Told(lo, u)
    BY <2>2, <2>4 DEF ReaderData, SameData, SameRx, Finished, Untouched, Told, At
  <2>6. ReaderState(u)
    BY <2>2, <2>4 DEF ReaderState, DelAckRuns
  <2> QED
    BY <2>2, <2>4, <2>5, <2>6 DEF Reader, u
<1>4. CASE t.synCount # 0
  <2>1. /\ ReaderData(u, w, c) /\ SameRx(t, u) /\ Told(lo, u)
        /\ u.state = t.state /\ u.ep /\ u.lastAck = t.lastAck
        /\ u.shut = t.shut /\ u.head = t.head /\ u.nxt = t.nxt
    BY <1>1, <1>4, SendEmptyReader
  <2>2. u.retx = IF t.retx = {} /\ asked \notin {{"ACK"}, {"RST"}}
                 THEN asked ELSE t.retx
    BY <1>1, <1>2, <1>4, SendEmptyPacketIs, ZenonT(30)
  <2>3. asked \notin {{"ACK"}, {"RST"}}
    OBVIOUS
  <2> HIDE DEF u
  <2> QED
    BY <1>1, <2>1, <2>2, <2>3 DEF Kept, u
<1> QED
  BY <1>3, <1>4

\* ProcessSynRcvd: the packet that ends the handshake may carry data, or a FIN.
LEMMA ProcessSynRcvdReader ==
  ASSUME NEW t, NEW w \in 0..N, NEW c \in Nat, Reader(t, w, c), t.ep,
         t.state = "SYN_RCVD",
         NEW lo, lo.ack \in Nat, Told(lo, t),
         NEW p \in NumberedPackets, FromWriter(p, w, c, t.rxNext)
  PROVE  Received(t, ProcessSynRcvd(t, p), w, c, lo, p)
<1> DEFINE u == ProcessSynRcvd(t, p)
           e == Established(t)
           up == [e EXCEPT !.state = "ESTABLISHED", !.delAck = DelAckMax]
<1>1. /\ ReaderData(t, w, c) /\ ReaderState(t) /\ t \in NumberedSockets
      /\ t.got \in Nat /\ t.rxNext \in Nat /\ t.nxt \in Nat /\ t.shut /\ t.rxNext > 0
      /\ t.fin = None
  BY ReaderNumbers DEF Reader, ReaderData, ReaderState, Untouched
<1>2. Received(t, t, w, c, lo, p)
  BY <1>1, ReceivedNothing DEF SameRx
<1>3. /\ e \in NumberedSockets /\ e.written = t.written /\ e.buf = t.buf
      /\ SameRx(t, e) /\ e.shut /\ e.ep /\ e.tx = t.tx /\ e.nxt > 0
      /\ e.lastAck = t.lastAck
  <2>1. e = [t EXCEPT !.app = TRUE, !.retx = {}, !.nxt = t.nxt + 1, !.head = t.nxt + 1]
    BY <1>1 DEF Established, NumberedSockets
  <2>2. t.nxt + 1 \in Nat /\ t.nxt + 1 > 0 /\ {} \in RetxEvents
    BY <1>1, Values
  <2> HIDE DEF e
  <2> QED
    BY <1>1, <2>1, <2>2 DEF NumberedSockets, SameRx
<1> HIDE DEF e
<1>4. ReaderData(e, w, c) /\ Told(lo, e)
  BY <1>1, <1>3 DEF ReaderData, SameRx, Finished, Untouched, Told, At
<1>5. CASE p.flags = {"ACK"}
  <2>1. u = ReceivedAck(up, p)
    BY <1>5 DEF ProcessSynRcvd, e
  <2>2. /\ up \in NumberedSockets /\ SameData(e, up) /\ up.state = "ESTABLISHED"
        /\ up.ep /\ up.tx = e.tx
    BY <1>3, Values DEF NumberedSockets, SameData, States
  <2> HIDE DEF up
  <2>3. ReaderData(up, w, c) /\ Told(lo, up) /\ SameRx(t, up)
    BY <1>3, <1>4, <2>2 DEF ReaderData, SameData, SameRx, Finished, Untouched, Told, At
  <2>4. ReaderState(up)
    BY <1>1, <1>3, <2>2, <2>3 DEF ReaderState, SameData, SameRx
  <2>5. LET v == ReceivedAck(up, p)
        IN  /\ Reader(v, w, c) /\ Told(lo, v) /\ Onward(up, v)
            /\ p.len = 0 => SameRx(up, v)
    <3>1. p.len = 1 => p.seq \in 1 .. w
      BY DEF FromWriter
    <3> QED
      BY <2>2, <2>3, <2>4, <3>1, ReceivedAckReader DEF Reader
  <2> HIDE DEF u
  <2> QED
    BY <2>1, <2>3, <2>5 DEF Received, Onward, SameRx, Finished, Harmless, u
<1>6. CASE p.flags = {"SYN"}
  <2> DEFINE s == SendEmptyPacket(t, {"SYN", "ACK"})
  <2>1. u = s
    BY <1>6 DEF ProcessSynRcvd
  <2>2. /\ ReaderData(s, w, c) /\ SameRx(t, s) /\ Told(lo, s)
        /\ \/ Reader(s, w, c)
           \/ Kept(t, s) /\ s.retx \in {t.retx, {"SYN", "ACK"}}
    BY <1>1, SendSynReader
  <2>3. Reader(s, w, c)
    <3> HIDE DEF s
    <3>1. CASE Kept(t, s) /\ s.retx \in {t.retx, {"SYN", "ACK"}}
      <4>1. s.retx = {"SYN", "ACK"}
        BY <1>1, <3>1 DEF ReaderState
      <4>2. ReaderState(s)
        BY <1>1, <2>2, <3>1, <4>1 DEF ReaderState, SameRx, Untouched, Kept
      <4> QED
        BY <2>2, <4>2 DEF Reader
    <3> QED
      BY <2>2, <3>1
  <2> QED
    BY <1>1, <2>1, <2>2, <2>3, ReceivedNothing
<1>7. CASE p.flags = {"FIN", "ACK"}
  <2>1. u = IF p.seq = t.rxNext THEN PeerClose(e, p) ELSE t
    BY <1>7 DEF ProcessSynRcvd, e
  <2>2. p.seq = t.rxNext => Received(t, PeerClose(e, p), w, c, lo, p)
    <3>1. p.seq = t.rxNext =>
            LET v == PeerClose(e, p)
            IN  Reader(v, w, c) /\ Told(lo, v) /\ Onward(e, v) /\ v.ep
      <4>1. "FIN" \in p.flags
        BY <1>7
      <4> QED
        BY <1>1, <1>3, <1>4, <4>1, PeerCloseReader DEF SameRx
    <3> QED
      BY <1>3, <1>7, <3>1 DEF Received, Onward, SameRx, Finished, Harmless
  <2> QED
    BY <1>2, <2>1, <2>2
<1>8. CASE p.flags \notin {{"ACK"}, {"SYN"}, {"FIN", "ACK"}}
  <2>1. u = CloseAndNotify(t)
    BY <1>8 DEF ProcessSynRcvd
  <2>2. LET v == CloseAndNotify(t) IN Reader(v, w, c) /\ SameRx(t, v) /\ Told(lo, v)
    BY <1>1, CloseAndNotifyReader
  <2> HIDE DEF u
  <2> QED
    BY <1>1, <2>1, <2>2, ReceivedNothing DEF u
<1> QED
  BY <1>5, <1>6, <1>7, <1>8

\* ProcessClosing and ProcessLastAck, at the reader.
LEMMA ProcessLastReader ==
  ASSUME NEW t, NEW w \in 0..N, NEW c \in Nat, Reader(t, w, c), t.ep,
         NEW lo, Told(lo, t), NEW p,
         NEW u \in {ProcessClosing(t, p), ProcessLastAck(t, p)}
  PROVE  Received(t, u, w, c, lo, p)
<1>1. /\ ReaderData(t, w, c) /\ ReaderState(t) /\ t.rxNext > 0
      /\ t.state \in {"CLOSE_WAIT", "LAST_ACK"} => Finished(t)
  BY DEF Reader, ReaderState
<1>2. Received(t, t, w, c, lo, p)
  BY <1>1, ReceivedNothing DEF SameRx
<1>3. Received(t, TimeWait(t), w, c, lo, p)
  BY <1>1, TimeWaitReader, ReceivedNothing
<1>4. ASSUME NEW x, ReaderData(x, w, c), SameRx(t, x), Told(lo, x)
      PROVE  Received(t, CloseAndNotify(x), w, c, lo, p)
  <2>1. LET v == CloseAndNotify(x) IN Reader(v, w, c) /\ SameRx(x, v) /\ Told(lo, v)
    BY <1>4, CloseAndNotifyReader
  <2> QED
    BY <1>1, <1>4, <2>1, ReceivedNothing DEF SameRx
<1>5. Received(t, CloseAndNotify(t), w, c, lo, p)
  BY <1>1, <1>4 DEF SameRx
<1>6. Received(t, CloseAndNotify(SendEmptyPacket(t, {"ACK"})), w, c, lo, p)
  BY <1>1, <1>4, SendReader
<1>7. Received(t, CloseAndNotify(SendRST(t)), w, c, lo, p)
  <2>1. LET v == SendRST(t) IN ReaderData(v, w, c) /\ SameRx(t, v) /\ Told(lo, v)
    BY <1>1, SendRSTReader DEF Reader
  <2> QED
    BY <1>4, <2>1
<1>8. \/ u = t \/ u = TimeWait(t) \/ u = CloseAndNotify(t)
      \/ u = CloseAndNotify(SendEmptyPacket(t, {"ACK"}))
      \/ u = CloseAndNotify(SendRST(t))
  BY DEF ProcessClosing, ProcessLastAck
<1> QED
  BY <1>2, <1>3, <1>5, <1>6, <1>7, <1>8

\* DoForwardUp, of a packet of the writer, at the reader.
LEMMA DoForwardUpReader ==
  ASSUME NEW t, NEW w \in 0..N, NEW c \in Nat, Reader(t, w, c), t.ep,
         NEW lo, lo.ack \in Nat, Told(lo, t),
         NEW p \in NumberedPackets, FromWriter(p, w, c, t.rxNext)
  PROVE  Received(t, DoForwardUp(t, p), w, c, lo, p)
<1> DEFINE x == IF "SYN" \in p.flags THEN [t EXCEPT !.cwnd = N] ELSE t
           u == DoForwardUp(t, p)
<1>1. /\ ReaderData(t, w, c) /\ ReaderState(t) /\ t \in NumberedSockets
      /\ t.state \in States \ {"CLOSED", "SYN_SENT", "CLOSE_WAIT"}
  BY DEF Reader, ReaderData, ReaderState, NumberedSockets
<1>2. Reader(x, w, c) /\ Told(lo, x) /\ SameRx(t, x) /\ x.ep /\ x.state = t.state
  <2>1. /\ x \in NumberedSockets /\ SameData(t, x) /\ x.state = t.state
        /\ x.ep = t.ep /\ x.retx = t.retx /\ x.lastAck = t.lastAck
        /\ x.delAck = t.delAck /\ x.tx = t.tx
    <3>1. CASE "SYN" \in p.flags
      <4>1. x = [t EXCEPT !.cwnd = N] /\ N \in Windows
        BY <3>1, Values
      <4> HIDE DEF x
      <4>2. x \in NumberedSockets
        BY <1>1, <4>1 DEF NumberedSockets
      <4>3. SameData(t, x)
        BY <1>1, <4>1 DEF NumberedSockets, SameData
      <4> QED
        BY <1>1, <4>1, <4>2, <4>3 DEF NumberedSockets
    <3>2. CASE "SYN" \notin p.flags
      BY <1>1, <3>2 DEF SameData
    <3> QED
      BY <3>1, <3>2
  <2> HIDE DEF x
  <2>2. ReaderData(x, w, c) /\ Told(lo, x) /\ SameRx(t, x)
    BY <1>1, <2>1 DEF ReaderData, SameData, SameRx, Finished, Untouched, Told, At
  <2>3. ReaderState(x)
    BY <1>1, <2>1, <2>2 DEF ReaderState, SameData, SameRx, Finished, Untouched, DelAckRuns
  <2> QED
    BY <2>1, <2>2, <2>3 DEF Reader
<1>3. \/ u = SendEmptyPacket(t, {"ACK"})
      \/ u = t
      \/ t.state = "ESTABLISHED" /\ u = ProcessEstablished(x, p)
      \/ t.state = "SYN_RCVD" /\ u = ProcessSynRcvd(x, p)
      \/ t.state \in {"FIN_WAIT_1", "FIN_WAIT_2"} /\ u = ProcessWait(x, p)
      \/ u = ProcessClosing(x, p)
      \/ u = ProcessLastAck(x, p)
      \/ u = x
  <2> HIDE DEF x
  <2>1. t.state \in {"ESTABLISHED", "SYN_RCVD", "FIN_WAIT_1", "FIN_WAIT_2", "CLOSING",
                     "LAST_ACK", "TIME_WAIT"}
    BY <1>1 DEF States
  <2> DEFINE out == p.len > 0 /\ OutOfRange(t, p)
             odd == p.flags = {"RST", "ACK"}
             handled ==
               CASE t.state = "ESTABLISHED" -> ProcessEstablished(x, p)
                 [] t.state = "SYN_SENT" -> ProcessSynSent(x, p)
                 [] t.state = "SYN_RCVD" -> ProcessSynRcvd(x, p)
                 [] t.state \in {"FIN_WAIT_1", "FIN_WAIT_2", "CLOSE_WAIT"} -> ProcessWait(x, p)
                 [] t.state = "CLOSING" -> ProcessClosing(x, p)
                 [] t.state = "LAST_ACK" -> ProcessLastAck(x, p)
                 [] t.state = "TIME_WAIT" -> x
  <2>2. u = IF out THEN SendEmptyPacket(t, {"ACK"}) ELSE IF odd THEN t ELSE handled
    BY DEF DoForwardUp, x
  <2> HIDE DEF out, odd, u
  <2> QED
    BY <2>1, <2>2
<1> SUFFICES Received(t, u, w, c, lo, p)
  OBVIOUS
<1> HIDE DEF x, u
<1>4. ASSUME Received(x, u, w, c, lo, p)
      PROVE  Received(t, u, w, c, lo, p)
  BY <1>2, <1>4 DEF Received, Onward, SameRx, Finished
<1>5. FromWriter(p, w, c, x.rxNext)
  BY <1>2 DEF SameRx
<1>6. CASE u = SendEmptyPacket(t, {"ACK"})
  BY <1>1, <1>6, SendAckReader, ReceivedNothing
<1>7. CASE u = t
  BY <1>1, <1>7, ReceivedNothing DEF SameRx
<1>8. CASE t.state = "ESTABLISHED" /\ u = ProcessEstablished(x, p)
  BY <1>2, <1>4, <1>5, <1>8, ProcessEstablishedReader
<1>9. CASE t.state = "SYN_RCVD" /\ u = ProcessSynRcvd(x, p)
  BY <1>2, <1>4, <1>5, <1>9, ProcessSynRcvdReader
<1>10. CASE t.state \in {"FIN_WAIT_1", "FIN_WAIT_2"} /\ u = ProcessWait(x, p)
  BY <1>2, <1>4, <1>5, <1>10, ProcessWaitReader
<1>11. CASE u = ProcessClosing(x, p) \/ u = ProcessLastAck(x, p)
  <2>1. u \in {ProcessClosing(x, p), ProcessLastAck(x, p)}
    BY <1>11
  <2> QED
    BY <1>2, <1>4, <2>1, ProcessLastReader
<1>12. CASE u = x
  BY <1>1, <1>2, <1>12, ReceivedNothing
<1> QED
  BY <1>3, <1>6, <1>7, <1>8, <1>9, <1>10, <1>11, <1>12 DEF u

\* A socket as it is made.
LEMMA NewSocketIs ==
  NewSocket \in NumberedSockets /\ EmptyBuffer \in Buffers
<1>1. EmptyBuffer \in Buffers
  BY TxBufferAssumption DEF EmptyBuffer, Buffers, None
<1>2. N \in Windows /\ 0 \in Amounts /\ None \in MaybeNumber /\ <<>> \in PacketSeqs
      /\ "CLOSED" \in States /\ "CA_OPEN" \in CongStates
  BY TxBufferAssumption DEF Windows, Amounts, MaybeNumber, PacketSeqs, States, CongStates
<1> QED
  BY <1>1, <1>2, Values DEF NewSocket, NumberedSockets

\* CompleteFork: the passive socket of a connection that was not there before.
LEMMA CompleteForkReader ==
  ASSUME NEW b, NEW w \in 0..N, NEW c \in Nat, ReaderData(b, w, c), Untouched(b),
         NEW p \in NumberedPackets, p.seq = 0
  PROVE  LET u == CompleteFork(p)
         IN  /\ Reader(u, w, c) /\ Told(At(b), u) /\ Onward(b, u) /\ Untouched(u)
<1> DEFINE n == [NewSocket EXCEPT !.ep = TRUE, !.state = "SYN_RCVD",
                   !.shut = TRUE, !.onEmpty = TRUE, !.rxNext = 1]
           u == CompleteFork(p)
<1>1. /\ n \in NumberedSockets /\ n.ep /\ n.state = "SYN_RCVD" /\ n.shut
      /\ n.rxNext = 1 /\ n.ooo = {} /\ n.fin = None /\ n.got = 0
      /\ n.written = 0 /\ n.buf = EmptyBuffer /\ n.head = 0 /\ n.retx = {}
      /\ n.tx = <<>> /\ n.synCount = SynRetries
  <2>1. /\ NewSocket.ooo = {} /\ NewSocket.fin = None /\ NewSocket.got = 0
        /\ NewSocket.written = 0 /\ NewSocket.buf = EmptyBuffer /\ NewSocket.head = 0
        /\ NewSocket.retx = {} /\ NewSocket.tx = <<>> /\ NewSocket.synCount = SynRetries
    BY DEF NewSocket
  <2> QED
    BY <2>1, NewSocketIs DEF NumberedSockets, States
<1>2. u = SendEmptyPacket(n, {"SYN", "ACK"})
  BY DEF CompleteFork
<1> HIDE DEF n, u
<1>3. b.rxNext \in Nat /\ b.got \in Nat /\ w \in Nat
  BY ReaderNumbers
<1>4. Untouched(n) /\ ReaderData(n, w, c)
  BY <1>1, <1>3 DEF ReaderData, Untouched, None
<1>5. Told(At(b), n)
  <2>1. At(b).ack <= At(n).ack /\ At(b).sack = {} /\ DOMAIN n.tx = {}
    BY <1>1, <1>3 DEF At, Untouched
  <2> QED
    BY <2>1 DEF Told, InOrder, Leq
<1>6. {"SYN", "ACK"} \in {{"SYN"}, {"SYN", "ACK"}}
  OBVIOUS
<1>7. /\ ReaderData(u, w, c) /\ SameRx(n, u) /\ Told(At(b), u)
      /\ \/ Reader(u, w, c) /\ ~u.ep
         \/ Kept(n, u) /\ u.retx \in {n.retx, {"SYN", "ACK"}} /\ u.retx # {}
  <2> DEFINE asked == {"SYN", "ACK"}
  <2>1. n.rxNext > 0 /\ asked \in {{"SYN"}, {"SYN", "ACK"}} /\ u = SendEmptyPacket(n, asked)
    BY <1>1, <1>2, <1>6
  <2> HIDE DEF asked
  <2>2. /\ ReaderData(u, w, c) /\ SameRx(n, u) /\ Told(At(b), u)
        /\ \/ Reader(u, w, c) /\ ~u.ep
           \/ Kept(n, u) /\ u.retx \in {n.retx, asked} /\ u.retx # {}
    BY <1>1, <1>4, <1>5, <2>1, SendSynReader
  <2> QED
    BY <2>2 DEF asked
<1>8. Reader(u, w, c)
  <2>1. CASE Kept(n, u) /\ u.retx \in {n.retx, {"SYN", "ACK"}} /\ u.retx # {}
    <3>1. ReaderState(u)
      BY <1>1, <1>4, <1>7, <2>1 DEF ReaderState, Kept, SameRx, Untouched
    <3> QED
      BY <1>7, <3>1 DEF Reader
  <2> QED
    BY <1>7, <2>1
<1>9. Onward(b, u) /\ Untouched(u)
  BY <1>1, <1>3, <1>4, <1>7 DEF Onward, SameRx, Untouched, Finished
<1> QED
  BY <1>7, <1>8, <1>9 DEF u

\* m_retxEvent of the reader.
LEMMA RetxReader ==
  ASSUME NEW s, NEW w \in 0..N, NEW c \in Nat, Reader(s, w, c), s.retx # {},
         NEW lo, Told(lo, s)
  PROVE  LET t == [s EXCEPT !.retx = {}]
             u == IF s.retx = {"RTO"} THEN ReTxTimeout(t) ELSE SendEmptyPacket(t, s.retx)
         IN  Reader(u, w, c) /\ SameRx(s, u) /\ Told(lo, u)
<1> DEFINE t == [s EXCEPT !.retx = {}]
           u == IF s.retx = {"RTO"} THEN ReTxTimeout(t) ELSE SendEmptyPacket(t, s.retx)
<1>1. /\ ReaderData(s, w, c) /\ ReaderState(s) /\ s \in NumberedSockets
      /\ s.ep /\ s.rxNext > 0 /\ s.retx \in RetxEvents
  BY DEF Reader, ReaderData, ReaderState, NumberedSockets
<1>2. /\ t \in NumberedSockets /\ SameData(s, t) /\ t.state = s.state /\ t.ep
      /\ t.lastAck = s.lastAck /\ t.delAck = s.delAck /\ t.tx = s.tx /\ t.retx = {}
  BY <1>1, Values DEF NumberedSockets, SameData
<1> HIDE DEF t
<1>3. ReaderData(t, w, c) /\ Told(lo, t) /\ SameRx(s, t) /\ t.rxNext > 0
  BY <1>1, <1>2 DEF ReaderData, SameData, SameRx, Finished, Untouched, Told, At
<1>4. Size(t) = 0
  BY <1>3, ReaderAllSent
<1>5. ASSUME NEW x, ReaderData(x, w, c), SameRx(t, x), Told(lo, x), Kept(t, x),
             s.state \in {"FIN_WAIT_1", "CLOSING"} => x.retx # {},
             s.state = "SYN_RCVD" => x.retx = {"SYN", "ACK"}
      PROVE  Reader(x, w, c) /\ SameRx(s, x) /\ Told(lo, x)
  <2>1. ReaderState(x)
    BY <1>1, <1>2, <1>3, <1>5 DEF ReaderState, Kept, SameData, SameRx, Finished, Untouched
  <2> QED
    BY <1>3, <1>5, <2>1 DEF Reader, SameRx
<1>6. s.state = "SYN_RCVD" => s.retx = {"SYN", "ACK"}
  BY <1>1 DEF ReaderState
<1> SUFFICES Reader(u, w, c) /\ SameRx(s, u) /\ Told(lo, u)
  BY DEF t
<1>7. CASE s.retx = {"RTO"}
  <2>1. {"RTO"} # {"SYN", "ACK"}
    OBVIOUS
  <2>2. s.state # "SYN_RCVD"
    BY <1>6, <1>7, <2>1
  <2>3. u = IF t.state \in {"FIN_WAIT_1", "CLOSING"} THEN SendEmptyPacket(t, {"FIN"}) ELSE t
    BY <1>4, <1>7 DEF ReTxTimeout
  <2> HIDE DEF u
  <2>4. CASE t.state \in {"FIN_WAIT_1", "CLOSING"}
    <3> DEFINE x == SendEmptyPacket(t, {"FIN"})
    <3>1. "FIN" \in {"FIN"} /\ {"FIN"} \in {{"ACK"}, {"RST"}, {"FIN"}, {"FIN", "ACK"}}
      OBVIOUS
    <3>2. /\ ReaderData(x, w, c) /\ SameRx(t, x) /\ Told(lo, x) /\ Kept(t, x)
          /\ x.retx # {}
      BY <1>2, <1>3, <3>1, SendReader
    <3>3. u = x
      BY <2>3, <2>4
    <3> HIDE DEF x
    <3> QED
      BY <1>5, <2>2, <3>2, <3>3
  <2>5. CASE t.state \notin {"FIN_WAIT_1", "CLOSING"}
    <3>1. u = t
      BY <2>3, <2>5
    <3> QED
      BY <1>2, <1>3, <1>5, <2>2, <2>5, <3>1 DEF SameRx, Kept
  <2> QED
    BY <2>4, <2>5
<1>8. CASE s.retx \in {{"SYN"}, {"SYN", "ACK"}}
  <2> DEFINE x == SendEmptyPacket(t, s.retx)
  <2>1. {"RTO"} # {"SYN", "ACK"} /\ {"RTO"} # {"SYN"}
    OBVIOUS
  <2>2. u = x
    BY <1>8, <2>1
  <2>3. /\ ReaderData(x, w, c) /\ SameRx(t, x) /\ Told(lo, x)
        /\ \/ Reader(x, w, c) /\ ~x.ep
           \/ Kept(t, x) /\ x.retx \in {t.retx, s.retx} /\ x.retx # {}
    BY <1>2, <1>3, <1>8, SendSynReader
  <2> HIDE DEF x, u
  <2>4. CASE Reader(x, w, c)
    BY <1>3, <2>2, <2>3, <2>4 DEF SameRx
  <2>5. CASE Kept(t, x) /\ x.retx \in {t.retx, s.retx} /\ x.retx # {}
    <3>1. x.retx = s.retx
      BY <1>2, <2>5
    <3> QED
      BY <1>5, <1>6, <2>2, <2>3, <2>5, <3>1
  <2> QED
    BY <2>3, <2>4, <2>5
<1>9. CASE s.retx = {"FIN", "ACK"}
  <2> DEFINE x == SendEmptyPacket(t, {"FIN", "ACK"})
  <2>1. {"FIN", "ACK"} # {"RTO"} /\ {"FIN", "ACK"} # {"SYN", "ACK"}
    OBVIOUS
  <2>2. u = x
    BY <1>9, <2>1
  <2>3. /\ ReaderData(x, w, c) /\ SameRx(t, x) /\ Told(lo, x) /\ Kept(t, x)
        /\ x.retx # {}
    BY <1>2, <1>3, SendReader
  <2> HIDE DEF x, u
  <2> QED
    BY <1>5, <1>6, <1>9, <2>1, <2>2, <2>3
<1> QED
  BY <1>1, <1>7, <1>8, <1>9 DEF RetxEvents

\* m_lastAckEvent: the FIN of LAST_ACK, or the end of the socket.
LEMMA LastAckReader ==
  ASSUME NEW t, NEW w \in 0..N, NEW c \in Nat, Reader(t, w, c), t.lastAck,
         NEW lo, Told(lo, t)
  PROVE  LET u == LastAckTimeout(t)
         IN  Reader(u, w, c) /\ SameRx(t, u) /\ Told(lo, u)
<1> DEFINE v == [t EXCEPT !.retries = @ - 1]
           x == SendEmptyPacket(v, {"FIN", "ACK"})
<1>1. /\ ReaderData(t, w, c) /\ ReaderState(t) /\ t \in NumberedSockets
      /\ t.ep /\ t.rxNext > 0
      /\ t.state \in {"CLOSE_WAIT", "LAST_ACK"} => Finished(t)
  BY DEF Reader, ReaderData, ReaderState
<1>2. CASE t.retries = 0
  <2>1. LastAckTimeout(t) = Drop(t)
    BY <1>2 DEF LastAckTimeout
  <2>2. LET u == Drop(t)
        IN  Reader(u, w, c) /\ SameRx(t, u) /\ Told(lo, u) /\ u.state = t.state
    BY <1>1, DropReader
  <2> QED
    BY <2>1, <2>2
<1>3. CASE t.retries # 0
  <2>1. LastAckTimeout(t) = x
    BY <1>3 DEF LastAckTimeout
  <2>2. t.retries \in RetryCounts /\ t.retries - 1 \in RetryCounts
    <3>1. t.retries \in RetryCounts
      BY <1>1 DEF NumberedSockets
    <3> QED
      BY <1>3, <3>1, ConnectionAssumption DEF RetryCounts
  <2>3. /\ v \in NumberedSockets /\ SameData(t, v) /\ v.state = t.state /\ v.ep
        /\ v.lastAck = t.lastAck /\ v.tx = t.tx /\ v.retx = t.retx
    BY <1>1, <2>2 DEF NumberedSockets, SameData
  <2> HIDE DEF v
  <2>4. ReaderData(v, w, c) /\ Told(lo, v) /\ SameRx(t, v) /\ v.rxNext > 0
    BY <1>1, <2>3 DEF ReaderData, SameData, SameRx, Finished, Untouched, Told, At
  <2>5. /\ ReaderData(x, w, c) /\ SameRx(v, x) /\ Told(lo, x) /\ Kept(v, x)
        /\ v.retx # {} => x.retx = v.retx
        /\ x.retx # {}
    BY <2>3, <2>4, SendReader
  <2> HIDE DEF x
  <2>6. {"SYN", "ACK"} # {}
    OBVIOUS
  <2>7. ReaderState(x)
    BY <1>1, <2>3, <2>4, <2>5, <2>6 DEF ReaderState, Kept, SameData, SameRx, Finished, Untouched
  <2> QED
    BY <2>1, <2>4, <2>5, <2>7 DEF Reader, SameRx
<1> QED
  BY <1>2, <1>3

-----------------------------------------------------------------------------
\* The two ends and the path between them.

\* What the writer has been told.
Known(t) == [ack |-> t.head, sack |-> t.buf.sacked]

\* A SYN is sent before anything else, and to a reader that has nothing.
SynFirst(a, b, n) ==
  /\ \A i, j \in DOMAIN n : i < j /\ "SYN" \in n[j].flags => Harmless(n[i])
  /\ (\E j \in DOMAIN n : "SYN" \in n[j].flags) => Untouched(b)
  /\ a.head = 0 => Untouched(b) /\ \A i \in DOMAIN n : Harmless(n[i])

\* A writer a and a reader b, with the packets m on their way to a and n to b.
Linked(a, b, m, n, c) ==
  /\ Writer(a, c, b.rxNext, 0) /\ a.tx = <<>>
  /\ Reader(b, a.written, c) /\ b.tx = <<>>
  /\ m \in PacketSeqs /\ n \in PacketSeqs
  /\ \A i \in DOMAIN n : FromWriter(n[i], a.written, c, b.rxNext)
  /\ SynFirst(a, b, n)
  /\ InOrder(m, Known(a), At(b))
  /\ \A i \in DOMAIN m : ToWriter(m[i], b.rxNext)

\* The packets of two sequences put together.
LEMMA ConcatIs ==
  ASSUME NEW s \in PacketSeqs, NEW t \in PacketSeqs
  PROVE  /\ s \o t \in PacketSeqs
         /\ Len(s) \in Nat /\ Len(t) \in Nat
         /\ DOMAIN s = 1 .. Len(s) /\ DOMAIN t = 1 .. Len(t)
         /\ DOMAIN (s \o t) = 1 .. Len(s) + Len(t)
         /\ \A i \in 1 .. Len(s) : (s \o t)[i] = s[i]
         /\ \A i \in 1 .. Len(t) : (s \o t)[Len(s) + i] = t[i]
<1> DEFINE S == NumberedPackets
<1>1. s \in Seq(S) /\ t \in Seq(S)
  BY DEF PacketSeqs
<1> HIDE DEF S
<1>2. /\ s \o t \in Seq(S) /\ Len(s \o t) = Len(s) + Len(t)
      /\ \A i \in 1 .. Len(s) + Len(t) :
           (s \o t)[i] = IF i <= Len(s) THEN s[i] ELSE t[i - Len(s)]
  BY <1>1, ConcatProperties
<1>3. /\ Len(s) \in Nat /\ Len(t) \in Nat
      /\ DOMAIN s = 1 .. Len(s) /\ DOMAIN t = 1 .. Len(t)
      /\ DOMAIN (s \o t) = 1 .. Len(s) + Len(t)
  BY <1>1, <1>2, LenProperties
<1>4. \A i \in 1 .. Len(s) : (s \o t)[i] = s[i]
  BY <1>2, <1>3
<1>5. \A i \in 1 .. Len(t) : (s \o t)[Len(s) + i] = t[i]
  <2> TAKE i \in 1 .. Len(t)
  <2>1. Len(s) + i \in 1 .. Len(s) + Len(t) /\ ~(Len(s) + i <= Len(s))
        /\ (Len(s) + i) - Len(s) = i
    BY <1>3
  <2> QED
    BY <1>2, <2>1
<1> QED
  BY <1>2, <1>3, <1>4, <1>5 DEF S, PacketSeqs

\* The packets behind the first.
LEMMA TailIs ==
  ASSUME NEW s \in PacketSeqs, s # <<>>
  PROVE  /\ Head(s) \in NumberedPackets /\ Tail(s) \in PacketSeqs
         /\ Len(s) \in Nat /\ DOMAIN s = 1 .. Len(s) /\ 1 \in DOMAIN s
         /\ Head(s) = s[1]
         /\ DOMAIN Tail(s) = 1 .. Len(s) - 1
         /\ \A i \in 1 .. Len(s) - 1 : i + 1 \in DOMAIN s /\ Tail(s)[i] = s[i + 1]
<1> DEFINE S == NumberedPackets
<1>1. s \in Seq(S)
  BY DEF PacketSeqs
<1> HIDE DEF S
<1>2. /\ Head(s) \in S /\ Tail(s) \in Seq(S) /\ Len(s) \in Nat /\ Len(s) >= 1
      /\ DOMAIN s = 1 .. Len(s) /\ Head(s) = s[1]
      /\ Len(Tail(s)) = Len(s) - 1
      /\ \A i \in 1 .. Len(s) - 1 : Tail(s)[i] = s[i + 1]
  BY <1>1
<1>3. DOMAIN Tail(s) = 1 .. Len(s) - 1
  BY <1>2, LenProperties
<1> QED
  BY <1>2, <1>3 DEF S, PacketSeqs

\* What comes after all of s reports no less.
LEMMA InOrderConcat ==
  ASSUME NEW s \in PacketSeqs, NEW t \in PacketSeqs,
         NEW lo, NEW mid, NEW hi, lo.ack \in Nat, mid.ack \in Nat, hi.ack \in Nat,
         InOrder(s, lo, mid), InOrder(t, mid, hi)
  PROVE  InOrder(s \o t, lo, hi)
<1> DEFINE z == s \o t
<1>1. /\ Len(s) \in Nat /\ Len(t) \in Nat
      /\ DOMAIN s = 1 .. Len(s) /\ DOMAIN t = 1 .. Len(t)
      /\ DOMAIN z = 1 .. Len(s) + Len(t)
      /\ \A i \in 1 .. Len(s) : z[i] = s[i]
      /\ \A i \in 1 .. Len(t) : z[Len(s) + i] = t[i]
      /\ z \in PacketSeqs
  BY ConcatIs
<1> HIDE DEF z
<1>2. Leq(lo, mid) /\ Leq(mid, hi) /\ Leq(lo, hi)
  BY LeqTransitive DEF InOrder
<1>3. \A i \in DOMAIN z : z[i].ack \in Nat
  <2>1. \A i \in DOMAIN z : z[i] \in NumberedPackets
    BY <1>1 DEF PacketSeqs
  <2> QED
    BY <2>1 DEF NumberedPackets
<1>4. ASSUME NEW i \in DOMAIN z, Acks(z[i])
      PROVE  /\ Leq(lo, z[i]) /\ Leq(z[i], hi)
             /\ \A j \in DOMAIN z : i < j /\ Acks(z[j]) => Leq(z[i], z[j])
  <2>1. CASE i \in 1 .. Len(s)
    <3>1. z[i] = s[i] /\ i \in DOMAIN s /\ Acks(s[i]) /\ s[i].ack \in Nat
      BY <1>1, <1>3, <1>4, <2>1
    <3>2. /\ Leq(lo, s[i]) /\ Leq(s[i], mid)
          /\ \A j \in DOMAIN s : i < j /\ Acks(s[j]) => Leq(s[i], s[j])
      BY <3>1 DEF InOrder
    <3>3. Leq(s[i], hi)
      BY <1>2, <3>1, <3>2, LeqTransitive
    <3>4. ASSUME NEW j \in DOMAIN z, i < j, Acks(z[j])
          PROVE  Leq(z[i], z[j])
      <4>1. CASE j \in 1 .. Len(s)
        BY <1>1, <3>1, <3>2, <3>4, <4>1
      <4>2. CASE j \notin 1 .. Len(s)
        <5>1. PICK k \in 1 .. Len(t) : j = Len(s) + k
          <6>1. j - Len(s) \in 1 .. Len(t) /\ j = Len(s) + (j - Len(s))
            BY <1>1, <4>2
          <6> QED
            BY <6>1
        <5>2. z[j] = t[k] /\ k \in DOMAIN t
          BY <1>1, <5>1
        <5>3. Leq(mid, t[k]) /\ t[k].ack \in Nat
          BY <1>3, <3>4, <5>2 DEF InOrder
        <5> QED
          BY <3>1, <3>2, <5>2, <5>3, LeqTransitive
      <4> QED
        BY <4>1, <4>2
    <3> QED
      BY <3>1, <3>2, <3>3, <3>4
  <2>2. CASE i \notin 1 .. Len(s)
    <3>1. PICK l \in 1 .. Len(t) : i = Len(s) + l
      <4>1. i - Len(s) \in 1 .. Len(t) /\ i = Len(s) + (i - Len(s))
        BY <1>1, <2>2
      <4> QED
        BY <4>1
    <3>2. z[i] = t[l] /\ l \in DOMAIN t /\ Acks(t[l]) /\ t[l].ack \in Nat
      BY <1>1, <1>3, <1>4, <3>1
    <3>3. /\ Leq(mid, t[l]) /\ Leq(t[l], hi)
          /\ \A j \in DOMAIN t : l < j /\ Acks(t[j]) => Leq(t[l], t[j])
      BY <3>2 DEF InOrder
    <3>4. Leq(lo, t[l])
      BY <1>2, <3>2, <3>3, LeqTransitive
    <3>5. ASSUME NEW j \in DOMAIN z, i < j, Acks(z[j])
          PROVE  Leq(z[i], z[j])
      <4>1. PICK k \in 1 .. Len(t) : j = Len(s) + k /\ l < k
        <5>1. j - Len(s) \in 1 .. Len(t) /\ j = Len(s) + (j - Len(s)) /\ l < j - Len(s)
          BY <1>1, <3>1, <3>5
        <5> QED
          BY <5>1
      <4>2. z[j] = t[k] /\ k \in DOMAIN t
        BY <1>1, <4>1
      <4> QED
        BY <3>2, <3>3, <3>5, <4>1, <4>2
    <3> QED
      BY <3>2, <3>3, <3>4, <3>5
  <2> QED
    BY <2>1, <2>2
<1> QED
  BY <1>2, <1>4 DEF InOrder, z

\* What comes after the first packet; a writer that has heard it knows what it tells.
LEMMA InOrderTail ==
  ASSUME NEW s \in PacketSeqs, s # <<>>, NEW lo, NEW hi, InOrder(s, lo, hi)
  PROVE  /\ InOrder(Tail(s), lo, hi)
         /\ \A to : Leq(to, hi) /\ (\A i \in DOMAIN Tail(s) :
                                      Acks(Tail(s)[i]) => Leq(to, Tail(s)[i]))
                      => InOrder(Tail(s), to, hi)
         /\ Acks(Head(s)) => Leq(Head(s), hi)
         /\ \A i \in DOMAIN Tail(s) :
              Acks(Head(s)) /\ Acks(Tail(s)[i]) => Leq(Head(s), Tail(s)[i])
<1> DEFINE z == Tail(s)
<1>1. /\ Len(s) \in Nat /\ DOMAIN s = 1 .. Len(s) /\ 1 \in DOMAIN s
      /\ Head(s) = s[1]
      /\ DOMAIN z = 1 .. Len(s) - 1
      /\ \A i \in 1 .. Len(s) - 1 : i + 1 \in DOMAIN s /\ z[i] = s[i + 1]
  BY TailIs
<1> HIDE DEF z
<1>2. ASSUME NEW i \in DOMAIN z, Acks(z[i])
      PROVE  /\ Leq(lo, z[i]) /\ Leq(z[i], hi)
             /\ \A j \in DOMAIN z : i < j /\ Acks(z[j]) => Leq(z[i], z[j])
             /\ Acks(Head(s)) => Leq(Head(s), z[i])
  <2>1. i + 1 \in DOMAIN s /\ z[i] = s[i + 1] /\ Acks(s[i + 1]) /\ i \in Nat
    BY <1>1, <1>2
  <2>2. /\ Leq(lo, s[i + 1]) /\ Leq(s[i + 1], hi)
        /\ \A j \in DOMAIN s : i + 1 < j /\ Acks(s[j]) => Leq(s[i + 1], s[j])
    BY <2>1 DEF InOrder
  <2>3. ASSUME NEW j \in DOMAIN z, i < j, Acks(z[j])
        PROVE  Leq(z[i], z[j])
    <3>1. j + 1 \in DOMAIN s /\ z[j] = s[j + 1] /\ i + 1 < j + 1
      BY <1>1, <2>1, <2>3
    <3> QED
      BY <2>1, <2>2, <2>3, <3>1
  <2>4. Acks(Head(s)) => Leq(Head(s), z[i])
    <3>1. 1 < i + 1
      BY <1>1, <2>1
    <3> QED
      BY <1>1, <2>1, <3>1 DEF InOrder
  <2> QED
    BY <2>1, <2>2, <2>3, <2>4
<1>3. Leq(lo, hi) /\ (Acks(Head(s)) => Leq(Head(s), hi))
  BY <1>1 DEF InOrder
<1>4. InOrder(z, lo, hi)
  BY <1>2, <1>3 DEF InOrder
<1>5. ASSUME NEW to, Leq(to, hi), \A i \in DOMAIN z : Acks(z[i]) => Leq(to, z[i])
      PROVE  InOrder(z, to, hi)
  BY <1>2, <1>5 DEF InOrder
<1> QED
  BY <1>2, <1>3, <1>4, <1>5 DEF z

\* What a writer may be is not less for more received, or closed; what it has sent
\* is on the path.
LEMMA WriterForgets ==
  ASSUME NEW t, NEW c \in Nat, NEW R \in Nat, NEW h, Writer(t, c, R, h),
         NEW d \in Nat, c <= d, NEW S \in Nat, R <= S, NEW k
  PROVE  LET u == [t EXCEPT !.tx = <<>>]
         IN  /\ Writer(u, d, S, k) /\ u.tx = <<>>
             /\ u.head = t.head /\ u.buf = t.buf /\ u.written = t.written
<1> DEFINE u == [t EXCEPT !.tx = <<>>]
<1>1. t \in NumberedSockets /\ <<>> \in PacketSeqs
  BY DEF Writer, WriterData, PacketSeqs
<1>2. /\ u \in NumberedSockets /\ u.tx = <<>>
      /\ u.state = t.state /\ u.ep = t.ep /\ u.retx = t.retx /\ u.lastAck = t.lastAck
      /\ u.delAck = t.delAck /\ SameData(t, u)
  BY <1>1 DEF NumberedSockets, SameData
<1> HIDE DEF u
<1>3. /\ t.head \in Nat /\ t.nxt \in Nat /\ t.written \in Nat
  BY <1>1, TxBufferAssumption DEF NumberedSockets, Amounts
<1>4. u.tx \in Outgoing(u.written, d, S, k)
  BY <1>2 DEF Outgoing
<1>5. WriterData(u, d, S, k)
  BY <1>2, <1>3, <1>4 DEF Writer, WriterData, SameData, DelAckRuns
<1>6. WriterTimed(u)
  BY <1>2 DEF Writer, WriterTimed, SameData
<1> QED
  BY <1>2, <1>5, <1>6 DEF Writer, SameData, u

\* Between handlers the reader has handed its packets to the path; later closes of
\* the writer do not matter to it.
LEMMA ReaderForgets ==
  ASSUME NEW t, NEW w \in 0..N, NEW c \in Nat, Reader(t, w, c), NEW d \in Nat, c <= d
  PROVE  LET u == [t EXCEPT !.tx = <<>>]
         IN  Reader(u, w, d) /\ u.tx = <<>> /\ SameRx(t, u)
<1> DEFINE u == [t EXCEPT !.tx = <<>>]
<1>1. t \in NumberedSockets /\ <<>> \in PacketSeqs
  BY DEF Reader, ReaderData, PacketSeqs
<1>2. /\ u \in NumberedSockets /\ u.tx = <<>>
      /\ u.state = t.state /\ u.ep = t.ep /\ u.retx = t.retx /\ u.lastAck = t.lastAck
      /\ u.delAck = t.delAck /\ SameData(t, u)
  BY <1>1 DEF NumberedSockets, SameData
<1> HIDE DEF u
<1>3. ReaderData(u, w, d) /\ SameRx(t, u)
  BY <1>2 DEF Reader, ReaderData, SameData, SameRx, Finished, Untouched
<1>4. ReaderState(u)
  BY <1>2, <1>3 DEF Reader, ReaderState, SameData, SameRx, Finished, Untouched, DelAckRuns
<1> QED
  BY <1>2, <1>3, <1>4 DEF Reader, u

\* A socket that has sent nothing has nothing to forget.
LEMMA NothingSent ==
  ASSUME NEW t \in NumberedSockets, t.tx = <<>>
  PROVE  [t EXCEPT !.tx = <<>>] = t
BY DEF NumberedSockets

\* What a handler of the writer has sent.
LEMMA OutgoingIs ==
  ASSUME NEW w, NEW c, NEW R, NEW h, NEW s \in Outgoing(w, c, R, h)
  PROVE  /\ s \in PacketSeqs
         /\ \A i \in DOMAIN s : /\ FromWriter(s[i], w, c, R)
                                /\ h = 0 => Harmless(s[i])
                                /\ h # 0 => "SYN" \notin s[i].flags
<1> DEFINE S == {p \in WriterPackets(w, c, R) :
                   IF h = 0 THEN Harmless(p) ELSE "SYN" \notin p.flags}
<1>1. s \in Seq(S) /\ S \subseteq NumberedPackets
  BY DEF Outgoing, WriterPackets
<1>2. \A p \in S : /\ FromWriter(p, w, c, R)
                   /\ h = 0 => Harmless(p)
                   /\ h # 0 => "SYN" \notin p.flags
  BY DEF WriterPackets
<1> HIDE DEF S
<1>3. s \in PacketSeqs
  BY <1>1, SeqMonotonic DEF PacketSeqs
<1>4. \A i \in DOMAIN s : s[i] \in S
  BY <1>1
<1> QED
  BY <1>2, <1>3, <1>4

\* A handler of the writer.
LEMMA WriterActs ==
  ASSUME NEW a, NEW b, NEW m, NEW n, NEW c \in Nat, Linked(a, b, m, n, c),
         NEW u, NEW d \in Nat, c <= d, Writer(u, d, b.rxNext, a.head),
         u.written = a.written, a.head <= u.head,
         NEW m2 \in PacketSeqs, InOrder(m2, Known(u), At(b)),
         \A i \in DOMAIN m2 : ToWriter(m2[i], b.rxNext)
  PROVE  Linked([u EXCEPT !.tx = <<>>], b, m2, n \o u.tx, d)
<1> DEFINE v == [u EXCEPT !.tx = <<>>]
           R == b.rxNext
           w == a.written
           z == n \o u.tx
<1>1. /\ Reader(b, w, c) /\ b.tx = <<>> /\ n \in PacketSeqs
      /\ \A i \in DOMAIN n : FromWriter(n[i], w, c, R)
      /\ SynFirst(a, b, n)
      /\ a \in NumberedSockets /\ w \in 0..N
  BY DEF Linked, Writer, WriterData, NumberedSockets, Amounts
<1>2. R \in Nat /\ b \in NumberedSockets
  BY <1>1, ReaderNumbers DEF Reader
<1>3. /\ Writer(v, d, R, 0) /\ v.tx = <<>>
      /\ v.head = u.head /\ v.buf = u.buf /\ v.written = w
  BY <1>2, WriterForgets
<1>4. Reader(b, w, d)
  BY <1>1, <1>2, ReaderForgets, NothingSent
<1>5. /\ u.tx \in PacketSeqs
      /\ \A i \in DOMAIN u.tx : /\ FromWriter(u.tx[i], w, d, R)
                                /\ a.head = 0 => Harmless(u.tx[i])
                                /\ a.head # 0 => "SYN" \notin u.tx[i].flags
  <2>1. u.tx \in Outgoing(w, d, R, a.head)
    BY DEF Writer, WriterData
  <2> HIDE DEF w, R
  <2> QED
    BY <2>1, OutgoingIs
<1>6. /\ z \in PacketSeqs
      /\ Len(n) \in Nat /\ Len(u.tx) \in Nat
      /\ DOMAIN n = 1 .. Len(n) /\ DOMAIN u.tx = 1 .. Len(u.tx)
      /\ DOMAIN z = 1 .. Len(n) + Len(u.tx)
      /\ \A i \in 1 .. Len(n) : z[i] = n[i]
      /\ \A i \in 1 .. Len(u.tx) : z[Len(n) + i] = u.tx[i]
  BY <1>1, <1>5, ConcatIs
<1>7. a.head \in Nat /\ u.head \in Nat
  BY <1>1 DEF Writer, WriterData, NumberedSockets
<1> HIDE DEF v, R, w, z
<1>8. ASSUME NEW i \in DOMAIN z
      PROVE  \/ i \in DOMAIN n /\ z[i] = n[i]
             \/ /\ i \notin DOMAIN n
                /\ \E k \in DOMAIN u.tx : z[i] = u.tx[k]
  <2>1. CASE i \in 1 .. Len(n)
    BY <1>6, <2>1
  <2>2. CASE i \notin 1 .. Len(n)
    <3>1. i - Len(n) \in 1 .. Len(u.tx) /\ i = Len(n) + (i - Len(n))
      BY <1>6, <2>2
    <3> QED
      BY <1>6, <2>2, <3>1
  <2> QED
    BY <2>1, <2>2
<1>9. \A i \in DOMAIN z : FromWriter(z[i], w, d, R)
  <2>1. ASSUME NEW i \in DOMAIN n
        PROVE  FromWriter(n[i], w, d, R)
    BY <1>1 DEF FromWriter
  <2> QED
    BY <1>5, <1>8, <2>1
<1>10. SynFirst(v, b, z)
  <2>1. CASE a.head = 0
    <3>1. Untouched(b) /\ \A i \in DOMAIN n : Harmless(n[i])
      BY <1>1, <2>1 DEF SynFirst
    <3>2. \A i \in DOMAIN z : Harmless(z[i])
      BY <1>5, <1>8, <2>1, <3>1
    <3> QED
      BY <3>1, <3>2 DEF SynFirst
  <2>2. CASE a.head # 0
    <3>1. v.head # 0
      BY <1>3, <1>7, <2>2
    <3>2. \A j \in DOMAIN z : "SYN" \in z[j].flags => j \in DOMAIN n /\ z[j] = n[j]
      BY <1>5, <1>8, <2>2
    <3>3. \A i, j \in DOMAIN z :
            i < j /\ "SYN" \in z[j].flags => i \in DOMAIN n /\ z[i] = n[i]
      BY <1>6, <3>2
    <3> QED
      BY <1>1, <3>1, <3>2, <3>3 DEF SynFirst
  <2> QED
    BY <2>1, <2>2
<1>11. InOrder(m2, Known(v), At(b))
  BY <1>3 DEF Known
<1>12. b.tx = <<>> /\ v.written = w /\ b.rxNext = R
  BY <1>1, <1>3 DEF R
<1> QED
  BY <1>3, <1>4, <1>6, <1>9, <1>10, <1>11, <1>12 DEF Linked, v, R, z

\* A handler of the reader.
LEMMA ReaderActs ==
  ASSUME NEW a, NEW b, NEW m, NEW n, NEW c \in Nat, Linked(a, b, m, n, c),
         NEW u, Reader(u, a.written, c), Told(At(b), u), Onward(b, u),
         NEW n2 \in PacketSeqs,
         \A i \in DOMAIN n2 : FromWriter(n2[i], a.written, c, b.rxNext),
         SynFirst(a, u, n2)
  PROVE  Linked(a, [u EXCEPT !.tx = <<>>], m \o u.tx, n2, c)
<1> DEFINE v == [u EXCEPT !.tx = <<>>]
           w == a.written
           z == m \o u.tx
<1>1. /\ Writer(a, c, b.rxNext, 0) /\ a.tx = <<>>
      /\ Reader(b, w, c) /\ m \in PacketSeqs
      /\ InOrder(m, Known(a), At(b))
      /\ \A i \in DOMAIN m : ToWriter(m[i], b.rxNext)
      /\ a \in NumberedSockets /\ w \in 0..N
  BY DEF Linked, Writer, WriterData, NumberedSockets, Amounts
<1>2. /\ b.rxNext \in Nat /\ u.rxNext \in Nat /\ b.rxNext <= u.rxNext
      /\ u \in NumberedSockets /\ u.tx \in PacketSeqs /\ a.head \in Nat
  BY <1>1, ReaderNumbers DEF Reader, ReaderData, Onward, NumberedSockets
<1>3. Reader(v, w, c) /\ v.tx = <<>> /\ SameRx(u, v)
  BY <1>1, ReaderForgets
<1>4. Writer(a, c, u.rxNext, 0)
  <2>1. Writer([a EXCEPT !.tx = <<>>], c, u.rxNext, 0)
    BY <1>1, <1>2, WriterForgets
  <2> QED
    BY <1>1, <2>1, NothingSent
<1>5. /\ z \in PacketSeqs
      /\ Len(m) \in Nat /\ Len(u.tx) \in Nat
      /\ DOMAIN m = 1 .. Len(m) /\ DOMAIN u.tx = 1 .. Len(u.tx)
      /\ DOMAIN z = 1 .. Len(m) + Len(u.tx)
      /\ \A i \in 1 .. Len(m) : z[i] = m[i]
      /\ \A i \in 1 .. Len(u.tx) : z[Len(m) + i] = u.tx[i]
  BY <1>1, <1>2, ConcatIs
<1>6. InOrder(z, Known(a), At(u))
  <2>1. Known(a).ack \in Nat /\ At(b).ack \in Nat /\ At(u).ack \in Nat
    BY <1>2 DEF Known, At
  <2>2. InOrder(u.tx, At(b), At(u))
    BY DEF Told
  <2> QED
    BY <1>1, <1>2, <2>1, <2>2, InOrderConcat
<1> HIDE DEF v, w, z
<1>7. \A i \in DOMAIN z : ToWriter(z[i], u.rxNext)
  <2>1. ASSUME NEW i \in DOMAIN m
        PROVE  ToWriter(m[i], u.rxNext)
    <3>1. m[i] \in NumberedPackets
      BY <1>1 DEF PacketSeqs
    <3>2. m[i].ack \in Nat
      BY <3>1 DEF NumberedPackets
    <3> QED
      BY <1>1, <1>2, <3>2 DEF ToWriter, Honest
  <2>2. \A i \in DOMAIN u.tx : ToWriter(u.tx[i], u.rxNext)
    BY DEF Told
  <2>3. ASSUME NEW i \in DOMAIN z
        PROVE  ToWriter(z[i], u.rxNext)
    <3>1. CASE i \in 1 .. Len(m)
      BY <1>5, <2>1, <3>1
    <3>2. CASE i \notin 1 .. Len(m)
      <4>1. i - Len(m) \in 1 .. Len(u.tx) /\ i = Len(m) + (i - Len(m))
        BY <1>5, <3>2
      <4> QED
        BY <1>5, <2>2, <4>1
    <3> QED
      BY <3>1, <3>2
  <2> QED
    BY <2>3
<1>8. \A i \in DOMAIN n2 : FromWriter(n2[i], w, c, u.rxNext)
  <2>1. ASSUME NEW i \in DOMAIN n2
        PROVE  FromWriter(n2[i], w, c, u.rxNext)
    <3>1. n2[i] \in NumberedPackets
      BY DEF PacketSeqs
    <3>2. n2[i].seq \in Nat
      BY <3>1 DEF NumberedPackets
    <3>3. FromWriter(n2[i], w, c, b.rxNext)
      BY DEF w
    <3> QED
      BY <1>2, <3>2, <3>3 DEF FromWriter
  <2> QED
    BY <2>1
<1>9. SynFirst(a, v, n2) /\ At(v) = At(u) /\ v.rxNext = u.rxNext
  BY <1>3 DEF SynFirst, SameRx, Untouched, At
<1> QED
  BY <1>1, <1>3, <1>4, <1>5, <1>6, <1>7, <1>8, <1>9 DEF Linked, v, w, z

-----------------------------------------------------------------------------
\* What the handlers' lemmas need, of the two ends as they stand between handlers.
LEMMA LinkedIs ==
  ASSUME NEW a, NEW b, NEW m, NEW n, NEW c \in Nat, Linked(a, b, m, n, c)
  PROVE  /\ a \in NumberedSockets /\ b \in NumberedSockets
         /\ a.written \in 0..N /\ b.rxNext \in Nat /\ a.head \in Nat
         /\ \A d \in Nat : \A h : c <= d => Writer(a, d, b.rxNext, h)
         /\ Reader(b, a.written, c) /\ Told(At(b), b) /\ At(b).ack \in Nat
<1>1. /\ Writer(a, c, b.rxNext, 0) /\ a.tx = <<>>
      /\ Reader(b, a.written, c) /\ b.tx = <<>>
  BY DEF Linked
<1>2. a \in NumberedSockets /\ b \in NumberedSockets
  BY <1>1 DEF Writer, WriterData, Reader, ReaderData
<1>3. a.written \in 0..N /\ b.rxNext \in Nat /\ a.head \in Nat /\ At(b).ack \in Nat
  BY <1>2 DEF NumberedSockets, Amounts, At
<1>4. ASSUME NEW d \in Nat, NEW h, c <= d
      PROVE  Writer(a, d, b.rxNext, h)
  <2>1. Writer([a EXCEPT !.tx = <<>>], d, b.rxNext, h)
    BY <1>1, <1>3, <1>4, WriterForgets
  <2> QED
    BY <1>1, <1>2, <2>1, NothingSent
<1>5. Told(At(b), b)
  BY <1>1, <1>3 DEF Told, InOrder, Leq, At
<1> QED
  BY <1>1, <1>2, <1>3, <1>4, <1>5

\* A writer whose packets are of the right kind.
LEMMA WriterSends ==
  ASSUME NEW t \in NumberedSockets, NEW c, NEW R, NEW h, NEW k,
         Writer([t EXCEPT !.tx = <<>>], c, R, k),
         t.tx \in Outgoing(t.written, c, R, h)
  PROVE  Writer(t, c, R, h)
<1> DEFINE u == [t EXCEPT !.tx = <<>>]
<1>1. /\ u.state = t.state /\ u.ep = t.ep /\ u.retx = t.retx /\ u.lastAck = t.lastAck
      /\ u.delAck = t.delAck /\ SameData(t, u)
  BY DEF NumberedSockets, SameData
<1>2. Writer(u, c, R, k)
  OBVIOUS
<1> HIDE DEF u
<1>3. WriterData(t, c, R, h)
  BY <1>1, <1>2 DEF Writer, WriterData, SameData, DelAckRuns
<1> QED
  BY <1>1, <1>2, <1>3 DEF Writer, WriterTimed, SameData

\* The end of a handler of the writer that has heard nothing.
LEMMA WriterActsAlone ==
  ASSUME NEW a, NEW b, NEW m, NEW n, NEW c \in Nat, Linked(a, b, m, n, c),
         NEW u, NEW d \in Nat, c <= d, Writer(u, d, b.rxNext, a.head), SameAcked(a, u)
  PROVE  Linked([u EXCEPT !.tx = <<>>], b, m, n \o u.tx, d)
<1>1. /\ m \in PacketSeqs /\ InOrder(m, Known(a), At(b))
      /\ \A i \in DOMAIN m : ToWriter(m[i], b.rxNext)
  BY DEF Linked
<1>2. Known(u) = Known(a) /\ u.written = a.written /\ a.head <= u.head
  BY LinkedIs DEF Known, SameAcked
<1> QED
  BY <1>1, <1>2, WriterActs

\* The end of a handler of the reader that has received nothing.
LEMMA ReaderActsAlone ==
  ASSUME NEW a, NEW b, NEW m, NEW n, NEW c \in Nat, Linked(a, b, m, n, c),
         NEW u, Reader(u, a.written, c), Told(At(b), u), SameRx(b, u)
  PROVE  Linked(a, [u EXCEPT !.tx = <<>>], m \o u.tx, n, c)
<1>1. /\ n \in PacketSeqs /\ SynFirst(a, b, n)
      /\ \A i \in DOMAIN n : FromWriter(n[i], a.written, c, b.rxNext)
  BY DEF Linked
<1>2. Onward(b, u)
  <2>1. b.got \in Nat /\ b.rxNext \in Nat
    BY LinkedIs, TxBufferAssumption DEF NumberedSockets, Amounts
  <2> QED
    BY <2>1 DEF Onward, SameRx, Finished
<1>3. SynFirst(a, u, n)
  BY <1>1 DEF SynFirst, SameRx, Untouched
<1> QED
  BY <1>1, <1>2, <1>3, ReaderActs

\* NoEndPointsFound answers with a reset, if at all.
LEMMA NoEndPointsFoundIs ==
  ASSUME NEW t \in NumberedSockets, t.tx = <<>>, NEW p
  PROVE  LET u == NoEndPointsFound(t, p)
         IN  /\ u \in NumberedSockets /\ [u EXCEPT !.tx = <<>>] = t
             /\ \/ u.tx = <<>>
                \/ \E q \in NumberedPackets :
                     /\ u.tx = <<q>> /\ q.len = 0
                     /\ q.flags \in {{"RST"}, {"RST", "ACK"}}
<1> DEFINE flags == IF "ACK" \in p.flags THEN {"RST"} ELSE {"RST", "ACK"}
           q == [flags |-> flags, seq |-> 0, ack |-> 0, len |-> 0, sack |-> {}]
           u == NoEndPointsFound(t, p)
<1>1. CASE "RST" \in p.flags
  BY <1>1, NothingSent DEF NoEndPointsFound
<1>2. CASE "RST" \notin p.flags
  <2>1. u = [t EXCEPT !.tx = <<q>>]
    BY <1>2 DEF NoEndPointsFound
  <2>2. q \in NumberedPackets /\ q.len = 0 /\ q.flags \in {{"RST"}, {"RST", "ACK"}}
    <3>1. {"RST"} \in FlagSets /\ {"RST", "ACK"} \in FlagSets /\ {} \in SegmentSets
      BY Values DEF Asked
    <3> QED
      BY <3>1 DEF NumberedPackets
  <2> HIDE DEF q, u
  <2>3. <<q>> \in PacketSeqs
    BY <2>2 DEF PacketSeqs
  <2>4. u \in NumberedSockets /\ u.tx = <<q>> /\ [u EXCEPT !.tx = <<>>] = [t EXCEPT !.tx = <<>>]
    BY <2>1, <2>3 DEF NumberedSockets
  <2> QED
    BY <2>2, <2>4, NothingSent DEF u
<1> QED
  BY <1>1, <1>2

\* A reset for a packet that finds no endpoint is of no harm to either end.
LEMMA NoEndPointsFoundWriter ==
  ASSUME NEW t, NEW c, NEW R, NEW h, Writer(t, c, R, h), t.tx = <<>>, NEW p
  PROVE  LET u == NoEndPointsFound(t, p)
         IN  Writer(u, c, R, h) /\ SameAcked(t, u)
<1> DEFINE u == NoEndPointsFound(t, p)
<1>1. t \in NumberedSockets
  BY DEF Writer, WriterData
<1>2. /\ u \in NumberedSockets /\ [u EXCEPT !.tx = <<>>] = t
      /\ \/ u.tx = <<>>
         \/ \E q \in NumberedPackets :
              /\ u.tx = <<q>> /\ q.len = 0
              /\ q.flags \in {{"RST"}, {"RST", "ACK"}}
  BY <1>1, NoEndPointsFoundIs
<1> HIDE DEF u
<1>3. SameAcked(t, u)
  <2> DEFINE v == [u EXCEPT !.tx = <<>>]
  <2>1. v = t /\ SameAcked(v, u)
    BY <1>2 DEF NumberedSockets, SameAcked
  <2> HIDE DEF v
  <2> QED
    BY <2>1
<1>4. u.tx \in Outgoing(u.written, c, R, h)
  <2>1. <<>> \in Outgoing(u.written, c, R, h)
    BY DEF Outgoing
  <2>2. ASSUME NEW q \in NumberedPackets, u.tx = <<q>>, q.len = 0,
               q.flags \in {{"RST"}, {"RST", "ACK"}}
        PROVE  u.tx \in Outgoing(u.written, c, R, h)
    <3>1. "FIN" \notin q.flags /\ "SYN" \notin q.flags
      BY <2>2
    <3>2. FromWriter(q, u.written, c, R) /\ Harmless(q)
      BY <2>2, <3>1 DEF FromWriter, Harmless
    <3>3. Append(<<>>, q) \in Outgoing(u.written, c, R, h)
      BY <2>1, <2>2, <3>1, <3>2, OutgoingAppend
    <3> QED
      BY <2>2, <3>3
  <2> QED
    BY <1>2, <2>1, <2>2
<1>5. Writer(u, c, R, h)
  BY <1>2, <1>4, WriterSends
<1> QED
  BY <1>3, <1>5 DEF u

\* No endpoint: the reader's socket sends a reset, and nothing else of it changes.
LEMMA NoEndPointsFoundReader ==
  ASSUME NEW t, NEW w \in 0..N, NEW c \in Nat, Reader(t, w, c), t.tx = <<>>, NEW p
  PROVE  LET u == NoEndPointsFound(t, p)
         IN  Reader(u, w, c) /\ SameRx(t, u) /\ Told(At(t), u)
<1> DEFINE u == NoEndPointsFound(t, p)
           v == [u EXCEPT !.tx = <<>>]
<1>1. t \in NumberedSockets /\ t.rxNext \in Nat
  BY DEF Reader, ReaderData, NumberedSockets
<1>2. /\ u \in NumberedSockets /\ v = t
      /\ \/ u.tx = <<>>
         \/ \E q \in NumberedPackets :
              /\ u.tx = <<q>> /\ q.len = 0
              /\ q.flags \in {{"RST"}, {"RST", "ACK"}}
  BY <1>1, NoEndPointsFoundIs
<1> HIDE DEF u
<1>3. /\ v.state = u.state /\ v.ep = u.ep /\ v.retx = u.retx /\ v.lastAck = u.lastAck
      /\ v.delAck = u.delAck /\ SameData(u, v)
  BY <1>2 DEF NumberedSockets, SameData
<1> HIDE DEF v
<1>4. Reader(u, w, c) /\ SameRx(t, u)
  <2>1. ReaderData(u, w, c) /\ SameRx(t, u)
    BY <1>2, <1>3 DEF Reader, ReaderData, SameData, SameRx, Finished, Untouched
  <2>2. ReaderState(u)
    BY <1>2, <1>3 DEF Reader, ReaderState, SameData, Finished, Untouched, DelAckRuns
  <2> QED
    BY <2>1, <2>2 DEF Reader
<1>5. \A i \in DOMAIN u.tx :
        ~Acks(u.tx[i]) /\ u.tx[i].len = 0 /\ "SYN" \notin u.tx[i].flags
  <2>1. "RST" \notin {"ACK"} /\ "RST" \notin {"FIN", "ACK"}
    OBVIOUS
  <2>2. ASSUME NEW q, u.tx = <<q>>, NEW i \in DOMAIN u.tx
        PROVE  u.tx[i] = q
    BY <2>2
  <2>3. ASSUME NEW q, u.tx = <<q>>, q.len = 0, q.flags \in {{"RST"}, {"RST", "ACK"}}
        PROVE  ~Acks(q) /\ q.len = 0 /\ "SYN" \notin q.flags
    <3>1. "RST" \in q.flags /\ "SYN" \notin q.flags
      BY <2>3
    <3> QED
      BY <2>1, <2>3, <3>1 DEF Acks
  <2> QED
    BY <1>2, <2>2, <2>3
<1>6. Told(At(t), u)
  <2>1. Leq(At(t), At(u))
    BY <1>1, <1>4 DEF Leq, At, SameRx
  <2> QED
    BY <1>5, <2>1 DEF Told, InOrder, ToWriter
<1> QED
  BY <1>4, <1>6 DEF u

\* A SYN behind the first packet, too, is sent to a reader that has nothing.
LEMMA SynFirstTail ==
  ASSUME NEW a, NEW b, NEW u, NEW n \in PacketSeqs, n # <<>>, SynFirst(a, b, n),
         Harmless(Head(n)) /\ Untouched(b) => Untouched(u)
  PROVE  SynFirst(a, u, Tail(n))
<1> DEFINE z == Tail(n)
<1>1. /\ Len(n) \in Nat /\ DOMAIN n = 1 .. Len(n) /\ 1 \in DOMAIN n
      /\ Head(n) = n[1]
      /\ DOMAIN z = 1 .. Len(n) - 1
      /\ \A i \in 1 .. Len(n) - 1 : i + 1 \in DOMAIN n /\ z[i] = n[i + 1]
  BY TailIs
<1> HIDE DEF z
<1>2. \A i \in DOMAIN z : i \in Nat /\ i >= 1 /\ i + 1 \in DOMAIN n /\ z[i] = n[i + 1]
  BY <1>1
<1>3. ASSUME NEW i \in DOMAIN z, NEW j \in DOMAIN z, i < j, "SYN" \in z[j].flags
      PROVE  Harmless(z[i])
  <2>1. i + 1 < j + 1
    BY <1>2, <1>3
  <2> QED
    BY <1>2, <1>3, <2>1 DEF SynFirst
<1>4. ASSUME NEW j \in DOMAIN z, "SYN" \in z[j].flags
      PROVE  Untouched(u)
  <2>1. 1 < j + 1 /\ "SYN" \in n[j + 1].flags /\ j + 1 \in DOMAIN n
    BY <1>2, <1>4
  <2>2. Harmless(Head(n)) /\ Untouched(b)
    BY <1>1, <2>1 DEF SynFirst
  <2> QED
    BY <2>2
<1>5. a.head = 0 => Untouched(u) /\ \A i \in DOMAIN z : Harmless(z[i])
  BY <1>1, <1>2 DEF SynFirst
<1> QED
  BY <1>3, <1>4, <1>5 DEF SynFirst, z

\* A step of the writer: it has closed or not, and released what it has heard of.
WriterStep(a, v, c, d) ==
  c <= d /\ v.written = a.written /\ a.buf.una <= v.buf.una

\* The writer takes the oldest packet on its way to it.
LEMMA ReceiveWriter ==
  ASSUME NEW a, NEW b, NEW m, NEW n, NEW c \in Nat, Linked(a, b, m, n, c), m # <<>>
  PROVE  LET u == IF a.ep THEN DoForwardUp(a, Head(m)) ELSE NoEndPointsFound(a, Head(m))
             v == [u EXCEPT !.tx = <<>>]
         IN  Linked(v, b, Tail(m), n \o u.tx, c) /\ WriterStep(a, v, c, c)
<1> DEFINE p == Head(m)
           R == b.rxNext
           u == IF a.ep THEN DoForwardUp(a, p) ELSE NoEndPointsFound(a, p)
           v == [u EXCEPT !.tx = <<>>]
<1>1. /\ m \in PacketSeqs /\ InOrder(m, Known(a), At(b))
      /\ \A i \in DOMAIN m : ToWriter(m[i], R)
      /\ a.tx = <<>>
  BY DEF Linked
<1>2. /\ p \in NumberedPackets /\ Tail(m) \in PacketSeqs /\ p = m[1] /\ 1 \in DOMAIN m
      /\ DOMAIN Tail(m) = 1 .. Len(m) - 1
      /\ \A i \in DOMAIN Tail(m) : i + 1 \in DOMAIN m /\ Tail(m)[i] = m[i + 1]
  BY <1>1, TailIs
<1>3. /\ R \in Nat /\ a.head \in Nat /\ a \in NumberedSockets
      /\ Writer(a, c, R, a.head) /\ At(b).ack = R /\ c <= c
  <2>1. \A d \in Nat : \A h : c <= d => Writer(a, d, R, h)
    BY LinkedIs
  <2>2. c <= c
    OBVIOUS
  <2> QED
    BY <2>1, <2>2, LinkedIs DEF At
<1>4. /\ InOrder(Tail(m), Known(a), At(b))
      /\ \A to : Leq(to, At(b)) /\ (\A i \in DOMAIN Tail(m) :
                                      Acks(Tail(m)[i]) => Leq(to, Tail(m)[i]))
                   => InOrder(Tail(m), to, At(b))
      /\ Acks(p) => Leq(p, At(b))
      /\ \A i \in DOMAIN Tail(m) :
           Acks(p) /\ Acks(Tail(m)[i]) => Leq(p, Tail(m)[i])
  BY <1>1, InOrderTail
<1>5. /\ \A i \in DOMAIN Tail(m) : ToWriter(Tail(m)[i], R) /\ Tail(m)[i].ack \in Nat
      /\ p.ack \in Nat
  <2>1. \A i \in DOMAIN Tail(m) : Tail(m)[i] \in NumberedPackets
    BY <1>2 DEF PacketSeqs
  <2> QED
    BY <1>1, <1>2, <2>1 DEF NumberedPackets
<1>6. a.buf.una \in Nat
  BY <1>3, TxBufferAssumption DEF NumberedSockets, Buffers
<1> HIDE DEF p, R
<1>7. CASE a.ep
  <2>1. u = DoForwardUp(a, p)
    BY <1>7
  <2>2. p.len = 0 /\ (Acks(p) => Honest(p, R)) /\ ("SYN" \in p.flags => 1 <= R)
    BY <1>1, <1>2 DEF ToWriter
  <2>3. Acks(p) => Below(a, p)
    BY <1>1, <1>2 DEF InOrder, Leq, Known, Below
  <2>4. Writer(u, c, R, a.head) /\ Heard(a, u, p)
    BY <1>2, <1>3, <1>7, <2>1, <2>2, <2>3, DoForwardUpWriter
  <2> HIDE DEF u
  <2>5. u \in NumberedSockets /\ u.head \in Nat /\ (u.head > 0 => u.head <= R)
    BY <2>4 DEF Writer, WriterData, NumberedSockets
  <2>6. InOrder(Tail(m), Known(u), At(b))
    <3>1. CASE Acks(p)
      <4>1. Leq(Known(u), p) /\ Known(u).ack \in Nat
        BY <2>4, <2>5, <3>1 DEF Heard, Below, Leq, Known
      <4>2. Leq(Known(u), At(b))
        BY <1>3, <1>4, <1>5, <3>1, <4>1, LeqTransitive
      <4>3. ASSUME NEW i \in DOMAIN Tail(m), Acks(Tail(m)[i])
            PROVE  Leq(Known(u), Tail(m)[i])
        BY <1>4, <1>5, <3>1, <4>1, <4>3, LeqTransitive
      <4> QED
        BY <1>4, <4>2, <4>3
    <3>2. CASE u.head = a.head /\ u.buf.sacked = a.buf.sacked
      BY <1>4, <3>2 DEF Known
    <3>3. CASE u.head = 1 /\ u.buf.sacked = {}
      <4>1. \A q : 1 <= q.ack => Leq(Known(u), q)
        BY <3>3 DEF Leq, Known
      <4>2. Leq(Known(u), At(b))
        BY <1>3, <2>5, <3>3, <4>1
      <4>3. \A i \in DOMAIN Tail(m) : Acks(Tail(m)[i]) => Leq(Known(u), Tail(m)[i])
        BY <1>5, <4>1 DEF ToWriter, Honest
      <4> QED
        BY <1>4, <4>2, <4>3
    <3> QED
      BY <2>4, <3>1, <3>2, <3>3 DEF Heard
  <2>7. u.written = a.written /\ a.head <= u.head /\ a.buf.una <= u.buf.una
    BY <2>4 DEF Heard
  <2>8. Linked(v, b, Tail(m), n \o u.tx, c)
    BY <1>2, <1>3, <1>5, <2>4, <2>6, <2>7, WriterActs DEF R
  <2>9. v.written = u.written /\ v.buf = u.buf
    BY <2>5 DEF NumberedSockets
  <2> QED
    BY <2>7, <2>8, <2>9 DEF WriterStep, u, p
<1>8. CASE ~a.ep
  <2>1. u = NoEndPointsFound(a, p)
    BY <1>8
  <2>2. Writer(u, c, R, a.head) /\ SameAcked(a, u)
    BY <1>1, <1>3, <2>1, NoEndPointsFoundWriter
  <2> HIDE DEF u
  <2>3. Known(u) = Known(a) /\ u.written = a.written /\ a.head <= u.head
        /\ u.buf.una = a.buf.una /\ u \in NumberedSockets
    BY <1>3, <2>2 DEF Known, SameAcked, Writer, WriterData
  <2>4. Linked(v, b, Tail(m), n \o u.tx, c)
    <3>1. InOrder(Tail(m), Known(u), At(b))
      BY <1>4, <2>3
    <3> QED
      BY <1>2, <1>3, <1>5, <2>2, <2>3, <3>1, WriterActs DEF R
  <2>5. v.written = u.written /\ v.buf = u.buf
    BY <2>3 DEF NumberedSockets
  <2> QED
    BY <1>6, <2>3, <2>4, <2>5 DEF WriterStep, u, p
<1> QED
  BY <1>7, <1>8

\* The reader takes the oldest packet on its way to it.
LEMMA ReceiveReader ==
  ASSUME NEW a, NEW b, NEW m, NEW n, NEW c \in Nat, Linked(a, b, m, n, c), n # <<>>,
         NEW open
  PROVE  LET p == Head(n)
             u == IF b.ep THEN DoForwardUp(b, p)
                  ELSE IF open THEN IF p.flags = {"SYN"} THEN CompleteFork(p) ELSE b
                  ELSE NoEndPointsFound(b, p)
         IN  Linked(a, [u EXCEPT !.tx = <<>>], m \o u.tx, Tail(n), c) /\ Onward(b, u)
<1> DEFINE p == Head(n)
           w == a.written
           u == IF b.ep THEN DoForwardUp(b, p)
                ELSE IF open THEN IF p.flags = {"SYN"} THEN CompleteFork(p) ELSE b
                ELSE NoEndPointsFound(b, p)
<1>1. /\ n \in PacketSeqs /\ SynFirst(a, b, n) /\ b.tx = <<>>
      /\ \A i \in DOMAIN n : FromWriter(n[i], w, c, b.rxNext)
  BY DEF Linked
<1>2. /\ p \in NumberedPackets /\ Tail(n) \in PacketSeqs /\ p = n[1] /\ 1 \in DOMAIN n
      /\ DOMAIN Tail(n) = 1 .. Len(n) - 1
      /\ \A i \in DOMAIN Tail(n) : i + 1 \in DOMAIN n /\ Tail(n)[i] = n[i + 1]
  BY <1>1, TailIs
<1>3. /\ w \in 0..N /\ Reader(b, w, c) /\ Told(At(b), b) /\ At(b).ack \in Nat
      /\ ReaderData(b, w, c) /\ b.rxNext \in Nat /\ b.got \in Nat
  BY LinkedIs, ReaderNumbers DEF Reader
<1>4. FromWriter(p, w, c, b.rxNext) /\ \A i \in DOMAIN Tail(n) : FromWriter(Tail(n)[i], w, c, b.rxNext)
  BY <1>1, <1>2
<1> HIDE DEF p, w
<1>5. /\ Reader(u, w, c) /\ Told(At(b), u) /\ Onward(b, u)
      /\ Harmless(p) /\ Untouched(b) => Untouched(u)
  <2>1. CASE b.ep
    <3>1. u = DoForwardUp(b, p)
      BY <2>1
    <3>2. Received(b, u, w, c, At(b), p)
      BY <1>2, <1>3, <1>4, <2>1, <3>1, DoForwardUpReader
    <3> HIDE DEF u
    <3> QED
      BY <3>2 DEF Received, SameRx, Untouched
  <2>2. CASE ~b.ep /\ open /\ p.flags = {"SYN"}
    <3>1. u = CompleteFork(p)
      BY <2>2
    <3>2. p.seq = 0
      BY <1>4, <2>2 DEF FromWriter
    <3>3. Untouched(b)
      BY <1>1, <1>2, <2>2 DEF SynFirst
    <3> HIDE DEF u
    <3> QED
      BY <1>2, <1>3, <3>1, <3>2, <3>3, CompleteForkReader
  <2>3. CASE ~b.ep /\ open /\ p.flags # {"SYN"}
    <3>1. u = b
      BY <2>3
    <3> HIDE DEF u
    <3> QED
      BY <1>3, <3>1 DEF Onward
  <2>4. CASE ~b.ep /\ ~open
    <3>1. u = NoEndPointsFound(b, p)
      BY <2>4
    <3>2. Reader(u, w, c) /\ SameRx(b, u) /\ Told(At(b), u)
      BY <1>1, <1>3, <3>1, NoEndPointsFoundReader
    <3> HIDE DEF u
    <3> QED
      BY <1>3, <3>2 DEF Onward, SameRx, Untouched, Finished
  <2> QED
    BY <2>1, <2>2, <2>3, <2>4
<1> HIDE DEF u
<1>6. SynFirst(a, u, Tail(n))
  BY <1>1, <1>5, SynFirstTail DEF p
<1>7. Linked(a, [u EXCEPT !.tx = <<>>], m \o u.tx, Tail(n), c)
  BY <1>2, <1>4, <1>5, <1>6, ReaderActs DEF w
<1> QED
  BY <1>5, <1>7 DEF u, p

\* One more segment written: the reader's promises are about the data that has come.
LEMMA LinkedSend ==
  ASSUME NEW a, NEW b, NEW m, NEW n, Linked(a, b, m, n, 0),
         a.written < N, a.state \in {"ESTABLISHED", "CLOSE_WAIT"}, NEW pend \in BOOLEAN
  PROVE  Linked([a EXCEPT !.written = @ + 1, !.pend = pend], b, m, n, 0)
<1> DEFINE u == [a EXCEPT !.written = @ + 1, !.pend = pend]
           w == a.written
           R == b.rxNext
<1>1. /\ Writer(a, 0, R, 0) /\ a.tx = <<>>
      /\ Reader(b, w, 0) /\ b.tx = <<>>
      /\ m \in PacketSeqs /\ n \in PacketSeqs
      /\ \A i \in DOMAIN n : FromWriter(n[i], w, 0, R)
      /\ SynFirst(a, b, n)
      /\ InOrder(m, Known(a), At(b))
      /\ \A i \in DOMAIN m : ToWriter(m[i], R)
  BY DEF Linked
<1>2. a \in NumberedSockets /\ b \in NumberedSockets
  BY <1>1 DEF Writer, WriterData, Reader, ReaderData
<1>3. /\ w \in 0..N /\ N \in Nat /\ w + 1 \in 0..N /\ R \in Nat /\ a.head \in Nat
      /\ a.nxt \in Nat /\ a.buf.una \in Nat /\ a.buf.high \in Nat
  BY <1>2, TxBufferAssumption DEF NumberedSockets, Amounts, Buffers
<1>4. /\ u \in NumberedSockets /\ u.written = w + 1
      /\ u.buf = a.buf /\ u.nxt = a.nxt /\ u.head = a.head /\ u.onEmpty = a.onEmpty
      /\ u.shut = a.shut /\ u.state = a.state /\ u.ep = a.ep /\ u.retx = a.retx
      /\ u.lastAck = a.lastAck /\ u.tx = a.tx /\ u.delAck = a.delAck
  BY <1>2, <1>3 DEF NumberedSockets, Amounts
<1>5. b.fin = None /\ b.got <= w /\ b.got \in Nat /\ R <= w + 1
  <2>1. ReaderData(b, w, 0)
    BY <1>1 DEF Reader
  <2>2. b.got \in Nat /\ b.got <= w /\ 0 \in Nat
    BY <1>3, <2>1, ReaderNumbers
  <2>3. b.fin = None
    BY <2>1 DEF ReaderData
  <2>4. b.rxNext = b.got + 1 \/ b.rxNext = 0
    BY <2>1, <2>3 DEF ReaderData, Finished
  <2> QED
    BY <1>3, <2>2, <2>3, <2>4
<1> HIDE DEF u, w, R
<1>6. a.head > 0
  BY <1>1, <1>3 DEF Writer, WriterData
<1>7. /\ a.buf.una = a.head - 1 /\ a.head - 1 <= w
      /\ a.nxt <= w + 1 /\ a.head <= R
      /\ a.nxt <= a.buf.high + 1 /\ a.buf.high <= w
  BY <1>1, <1>3, <1>5, <1>6 DEF Writer, WriterData, w
<1>8. WriterData(u, 0, R, 0)
  <2>1. u.tx \in Outgoing(u.written, 0, R, 0)
    BY <1>1, <1>4 DEF Outgoing
  <2>2. u.state \notin FinSent
    BY <1>4 DEF FinSent
  <2>3. /\ GoodBuffer(u.buf) /\ u.buf.high <= u.written
        /\ u.onEmpty => 0 > 0
        /\ ~u.shut /\ ~u.lastAck
        /\ "SYN" \in u.retx => u.retx = {"SYN"} /\ u.state = "SYN_SENT"
        /\ "FIN" \notin u.retx
        /\ u.ep => u.state \notin {"CLOSED", "SYN_RCVD"}
        /\ ~u.ep => u.retx = {} /\ ~DelAckRuns(u)
    BY <1>1, <1>3, <1>4, <1>7 DEF Writer, WriterData, DelAckRuns
  <2>4. /\ u.buf.una = IF u.head - 1 <= u.written THEN u.head - 1 ELSE u.written
        /\ u.buf.una # u.written
        /\ u.nxt <= u.written + 1
        /\ u.nxt <= u.buf.high + 1
        /\ u.head <= R
    BY <1>3, <1>4, <1>7
  <2>5. u.state \in {"ESTABLISHED", "CLOSE_WAIT"} /\ u.head > 0
    BY <1>4, <1>6
  <2>6. u.head # 0 /\ u.state # "FIN_WAIT_2"
    BY <1>3, <1>4, <2>5
  <2> QED
    BY <1>4, <2>1, <2>2, <2>3, <2>4, <2>5, <2>6 DEF WriterData
<1>9. WriterTimed(u)
  <2>1. u.buf.una < u.written
    BY <1>3, <1>4, <1>7
  <2> QED
    BY <1>1, <1>4, <2>1 DEF Writer, WriterTimed
<1>10. Reader(b, w + 1, 0)
  <2>1. ReaderData(b, w + 1, 0)
    <3>1. b.ooo \subseteq b.got + 1 .. w
      BY <1>1, <1>3, <1>5 DEF Reader, ReaderData
    <3>2. /\ b.written = 0 /\ b.buf = EmptyBuffer /\ b.rxNext # b.fin
          /\ b.rxNext = b.got + 1 \/ (b.rxNext = 0 /\ Untouched(b))
          /\ b.head > 0 => b.nxt > 0
      BY <1>1, <1>5 DEF Reader, ReaderData, Finished
    <3> QED
      BY <1>2, <1>3, <1>5, <3>1, <3>2 DEF ReaderData
  <2> QED
    BY <1>1, <2>1 DEF Reader
<1>11. \A i \in DOMAIN n : FromWriter(n[i], w + 1, 0, R)
  <2>1. ASSUME NEW i \in DOMAIN n
        PROVE  FromWriter(n[i], w + 1, 0, R)
    <3>1. n[i] \in NumberedPackets
      BY <1>1 DEF PacketSeqs
    <3>2. n[i].seq \in Nat
      BY <3>1 DEF NumberedPackets
    <3> QED
      BY <1>1, <1>3, <3>2 DEF FromWriter
  <2> QED
    BY <2>1
<1>12. /\ SynFirst(u, b, n) /\ Known(u) = Known(a) /\ u.tx = <<>>
       /\ Writer(u, 0, R, 0) /\ Reader(b, u.written, 0)
       /\ \A i \in DOMAIN n : FromWriter(n[i], u.written, 0, R)
  BY <1>1, <1>4, <1>8, <1>9, <1>10, <1>11 DEF SynFirst, Known, Writer
<1>13. Linked(u, b, m, n, 0)
  BY <1>1, <1>12 DEF Linked, R
<1> QED
  BY <1>13 DEF u

\* A writer that sends its SYN has sent nothing else.
SynReady(t, c) ==
  /\ t.ep /\ t.retx = {} /\ t.head = 0 /\ t.nxt = 0 /\ t.written = 0
  /\ GoodBuffer(t.buf) /\ t.buf.high <= t.written /\ t.state \in {"CLOSED", "SYN_SENT"}
  /\ ~t.shut /\ ~t.lastAck /\ (t.onEmpty => c > 0) /\ t.tx = <<>>

\* The SYN, sent from Connect or again.
LEMMA LinkedSyn ==
  ASSUME NEW a, NEW b, NEW m, NEW n, NEW c \in Nat, Linked(a, b, m, n, c),
         NEW t \in NumberedSockets, SameAcked(a, t),
         SynReady(t, c)
  PROVE  LET s == SendEmptyPacket(t, {"SYN"})
             u == [s EXCEPT !.state = IF s.ep THEN "SYN_SENT" ELSE @]
         IN  /\ Linked([u EXCEPT !.tx = <<>>], b, m, n \o u.tx, c)
             /\ SameAcked(a, u) /\ s \in NumberedSockets /\ u \in NumberedSockets
             /\ t.synCount # 0 => s.ep
             /\ t.state = "SYN_SENT" => u = s
<1> DEFINE s == SendEmptyPacket(t, {"SYN"})
           u == [s EXCEPT !.state = IF s.ep THEN "SYN_SENT" ELSE @]
           v == [s EXCEPT !.state = IF s.ep THEN "SYN_SENT" ELSE @, !.tx = <<>>]
           R == b.rxNext
<1>1. R \in Nat
  BY LinkedIs
<1>2. /\ Writer(v, c, R, 0) /\ SameAcked(t, v) /\ s \in NumberedSockets
      /\ t.synCount # 0 => s.ep
      /\ s.ep => s.state = t.state
      /\ \/ s.tx = <<>>
         \/ \E p \in NumberedPackets :
              s.tx = <<p>> /\ p.flags = {"SYN"} /\ p.seq = 0 /\ p.len = 0
  <2> HIDE DEF R
  <2> QED
    BY <1>1, SendSynWriter DEF SynReady
<1> HIDE DEF s
<1>3. /\ [u EXCEPT !.tx = <<>>] = v /\ u \in NumberedSockets /\ u.tx = s.tx
      /\ v.head = u.head /\ v.written = u.written /\ v.buf = u.buf
  BY <1>2 DEF NumberedSockets, States
<1>4. SameAcked(a, u)
  <2> HIDE DEF u, v
  <2> QED
    BY <1>2, <1>3 DEF SameAcked
<1>5. u.tx \in Outgoing(u.written, c, R, 0)
  <2> HIDE DEF u, v
  <2>1. <<>> \in Outgoing(u.written, c, R, 0)
    BY DEF Outgoing
  <2>2. ASSUME NEW p \in NumberedPackets, s.tx = <<p>>, p.flags = {"SYN"}, p.seq = 0,
               p.len = 0
        PROVE  s.tx \in Outgoing(u.written, c, R, 0)
    <3>1. FromWriter(p, u.written, c, R) /\ Harmless(p)
      BY <2>2 DEF FromWriter, Harmless
    <3>2. Append(<<>>, p) \in Outgoing(u.written, c, R, 0)
      BY <2>1, <3>1, OutgoingAppend
    <3> QED
      BY <2>2, <3>2
  <2> QED
    BY <1>2, <1>3, <2>1, <2>2
<1>6. Writer(u, c, R, 0)
  <2> HIDE DEF u, v
  <2> QED
    BY <1>2, <1>3, <1>5, WriterSends
<1>7. a.head = 0 /\ c <= c
  BY DEF SameAcked, SynReady
<1>8. t.state = "SYN_SENT" => u = s
  BY <1>2 DEF NumberedSockets
<1> HIDE DEF u, v
<1>9. Linked([u EXCEPT !.tx = <<>>], b, m, n \o u.tx, c)
  BY <1>4, <1>6, <1>7, WriterActsAlone DEF R
<1> QED
  BY <1>2, <1>3, <1>4, <1>8, <1>9 DEF s, u

-----------------------------------------------------------------------------
\* The connection.

ConnInv ==
  /\ sock \in [Ends -> NumberedSockets] /\ net \in [Ends -> PacketSeqs]
  /\ closes \in Nat
  /\ Linked(A, B, net["A"], net["B"], closes)

\* What a step does to the stream.
Moves ==
  \/ A' = A /\ closes' = closes /\ Onward(B, B')
  \/ B' = B /\ closes \in Nat /\ closes' \in {closes, closes + 1}
       /\ A'.written = A.written /\ A.buf.una <= A'.buf.una
       /\ (closes' # closes => A'.buf.una = A.buf.una)
  \/ B' = B /\ closes = 0 /\ closes' = 0 /\ A.written < N
       /\ A'.written = A.written + 1 /\ A'.buf.una = A.buf.una

\* What the steps below need of it.
LEMMA ConnInvIs ==
  ASSUME ConnInv
  PROVE  /\ closes \in Nat /\ Linked(A, B, net["A"], net["B"], closes)
         /\ sock["A"] = A /\ sock["B"] = B
         /\ A \in NumberedSockets /\ B \in NumberedSockets
         /\ net["A"] \in PacketSeqs /\ net["B"] \in PacketSeqs
         /\ A.written \in 0..N /\ B.rxNext \in Nat /\ A.head \in Nat
         /\ A.buf.una \in Nat /\ B.got \in Nat
         /\ \A h : Writer(A, closes, B.rxNext, h) /\ Writer(A, closes + 1, B.rxNext, h)
         /\ Reader(B, A.written, closes) /\ Told(At(B), B) /\ At(B).ack \in Nat
         /\ A.tx = <<>> /\ B.tx = <<>>
<1>1. closes \in Nat /\ Linked(A, B, net["A"], net["B"], closes)
  BY DEF ConnInv
<1>2. /\ A \in NumberedSockets /\ B \in NumberedSockets
      /\ A.written \in 0..N /\ B.rxNext \in Nat /\ A.head \in Nat
      /\ \A d \in Nat : \A h : closes <= d => Writer(A, d, B.rxNext, h)
      /\ Reader(B, A.written, closes) /\ Told(At(B), B) /\ At(B).ack \in Nat
  BY <1>1, LinkedIs
<1>3. \A h : Writer(A, closes, B.rxNext, h) /\ Writer(A, closes + 1, B.rxNext, h)
  <2>1. closes + 1 \in Nat /\ closes <= closes /\ closes <= closes + 1
    BY <1>1
  <2> QED
    BY <1>1, <1>2, <2>1
<1>4. A.buf.una \in Nat /\ B.got \in Nat
  BY <1>2, TxBufferAssumption DEF NumberedSockets, Buffers, Amounts
<1> QED
  BY <1>1, <1>2, <1>3, <1>4 DEF A, B, ConnInv, Ends, Linked

\* A handler of the writer, its call and its result.
LEMMA HandledWriter ==
  ASSUME ConnInv, NEW u, Handled("A", u), closes' \in {closes, closes + 1},
         Linked([u EXCEPT !.tx = <<>>], B, net["A"], net["B"] \o u.tx, closes'),
         SameAcked(A, u), u \in NumberedSockets
  PROVE  ConnInv' /\ Moves
<1> DEFINE v == [u EXCEPT !.tx = <<>>]
<1>1. v \in NumberedSockets
  BY LinkedIs DEF ConnInv, Linked, Writer, WriterData
<1>2. net["B"] \o u.tx \in PacketSeqs
  BY DEF Linked
<1>3. /\ sock' = [sock EXCEPT !["A"] = v]
      /\ net' = [net EXCEPT !["B"] = net["B"] \o u.tx]
  BY DEF Handled, Peer
<1>4. v.written = A.written /\ v.buf.una = A.buf.una
  BY DEF NumberedSockets, SameAcked
<1> HIDE DEF v
<1>5. /\ sock' \in [Ends -> NumberedSockets] /\ net' \in [Ends -> PacketSeqs]
      /\ A' = v /\ B' = B /\ net'["A"] = net["A"] /\ net'["B"] = net["B"] \o u.tx
  BY <1>1, <1>2, <1>3 DEF ConnInv, Ends, A, B
<1>6. ConnInv'
  BY <1>5 DEF ConnInv, v
<1>7. A.buf.una \in Nat
  BY ConnInvIs
<1>8. Moves
  BY <1>4, <1>5, <1>7 DEF Moves, ConnInv
<1> QED
  BY <1>6, <1>8

\* A handler of the reader, its call and its result.
LEMMA HandledReader ==
  ASSUME ConnInv, NEW u, Handled("B", u), closes' = closes,
         Reader(u, A.written, closes), Told(At(B), u), SameRx(B, u)
  PROVE  ConnInv' /\ Moves
<1> DEFINE v == [u EXCEPT !.tx = <<>>]
           z == net["A"] \o u.tx
<1>1. closes \in Nat /\ Linked(A, B, net["A"], net["B"], closes)
  BY DEF ConnInv
<1>2. Linked(A, v, z, net["B"], closes)
  BY <1>1, ReaderActsAlone
<1>3. v \in NumberedSockets /\ z \in PacketSeqs /\ u \in NumberedSockets
  BY <1>1, <1>2, LinkedIs DEF Linked, Reader, ReaderData
<1>4. /\ sock' = [sock EXCEPT !["B"] = v]
      /\ net' = [net EXCEPT !["A"] = z]
  BY DEF Handled, Peer
<1>5. SameRx(B, v)
  BY <1>3 DEF NumberedSockets, SameRx
<1> HIDE DEF v, z
<1>6. /\ sock' \in [Ends -> NumberedSockets] /\ net' \in [Ends -> PacketSeqs]
      /\ A' = A /\ B' = v /\ net'["A"] = z /\ net'["B"] = net["B"]
  BY <1>3, <1>4 DEF ConnInv, Ends, A, B
<1>7. ConnInv'
  BY <1>1, <1>2, <1>6 DEF ConnInv
<1>8. Onward(B, v)
  <2>1. B.got \in Nat /\ B.rxNext \in Nat
    BY <1>1, LinkedIs, TxBufferAssumption DEF NumberedSockets, Amounts
  <2> QED
    BY <1>5, <2>1 DEF Onward, SameRx, Finished
<1>9. Moves
  BY <1>6, <1>8 DEF Moves
<1> QED
  BY <1>7, <1>9

\* A handler of the writer that acknowledges nothing.
LEMMA WriterHandles ==
  ASSUME ConnInv, NEW u, Handled("A", u), closes' \in {closes, closes + 1},
         Writer(u, closes', B.rxNext, A.head), SameAcked(A, u)
  PROVE  ConnInv' /\ Moves
<1>1. closes \in Nat /\ Linked(A, B, net["A"], net["B"], closes)
  BY ConnInvIs
<1>2. closes' \in Nat /\ closes <= closes'
  BY <1>1
<1>3. Linked([u EXCEPT !.tx = <<>>], B, net["A"], net["B"] \o u.tx, closes')
  BY <1>1, <1>2, WriterActsAlone
<1>4. u \in NumberedSockets
  BY DEF Writer, WriterData
<1> QED
  BY <1>3, <1>4, HandledWriter

\* Two new sockets and an empty path are linked.
LEMMA InitConn == Init => ConnInv
<1> SUFFICES ASSUME Init
             PROVE  ConnInv
  OBVIOUS
<1>1. /\ sock = [x \in Ends |-> NewSocket] /\ net = [x \in Ends |-> <<>>] /\ closes = 0
  BY DEF Init
<1>2. NewSocket \in NumberedSockets /\ <<>> \in PacketSeqs
  BY NewSocketIs DEF PacketSeqs
<1>3. /\ A = NewSocket /\ B = NewSocket /\ net["A"] = <<>> /\ net["B"] = <<>>
      /\ sock \in [Ends -> NumberedSockets] /\ net \in [Ends -> PacketSeqs]
  BY <1>1, <1>2 DEF A, B, Ends
<1>4. GoodBuffer(EmptyBuffer) /\ EmptyBuffer.high = 0 /\ EmptyBuffer.una = 0
      /\ EmptyBuffer.sacked = {}
  BY EmptyBufferGood DEF EmptyBuffer
<1>5. Writer(NewSocket, 0, 0, 0)
  <2>1. WriterData(NewSocket, 0, 0, 0)
    BY <1>2, <1>4 DEF WriterData, NewSocket, FinSent, Outgoing, DelAckRuns
  <2> QED
    BY <2>1 DEF Writer, WriterTimed, NewSocket
<1>6. Reader(NewSocket, 0, 0)
  <2>1. ReaderData(NewSocket, 0, 0)
    BY <1>2 DEF ReaderData, NewSocket, Untouched, None
  <2>2. ReaderState(NewSocket)
    BY DEF ReaderState, NewSocket, DelAckRuns
  <2> QED
    BY <2>1, <2>2 DEF Reader
<1>7. Linked(NewSocket, NewSocket, <<>>, <<>>, 0)
  <2>1. /\ NewSocket.rxNext = 0 /\ NewSocket.written = 0 /\ NewSocket.tx = <<>>
        /\ Untouched(NewSocket)
    BY DEF NewSocket, Untouched
  <2>2. InOrder(<<>>, Known(NewSocket), At(NewSocket))
    BY <1>4 DEF InOrder, Leq, Known, At, NewSocket
  <2>3. SynFirst(NewSocket, NewSocket, <<>>)
    BY <2>1 DEF SynFirst
  <2> QED
    BY <1>2, <1>5, <1>6, <2>1, <2>2, <2>3 DEF Linked
<1> QED
  BY <1>1, <1>3, <1>7 DEF ConnInv

\* Connect: the SYN is the first packet on the path, to a reader that has nothing.
LEMMA ConnectStep ==
  ASSUME ConnInv, Connect
  PROVE  ConnInv' /\ Moves
<1> DEFINE t == [A EXCEPT !.ep = TRUE]
           s == SendEmptyPacket(t, {"SYN"})
           u == [s EXCEPT !.state = "SYN_SENT"]
<1>1. A = NewSocket /\ Handled("A", u) /\ closes' = closes
  BY DEF Connect, A
<1>2. t \in NumberedSockets
  BY <1>1, NewSocketIs DEF NumberedSockets
<1>3. GoodBuffer(EmptyBuffer) /\ EmptyBuffer.high = 0
  BY EmptyBufferGood DEF EmptyBuffer
<1>4. SynReady(t, closes) /\ t.synCount # 0 /\ SameAcked(A, t)
  BY <1>1, <1>3, ConnectionAssumption DEF NewSocket, SameAcked, SynReady
<1> HIDE DEF t
<1> DEFINE v == [s EXCEPT !.state = IF s.ep THEN "SYN_SENT" ELSE @]
<1>5. /\ Linked([v EXCEPT !.tx = <<>>], B, net["A"], net["B"] \o v.tx, closes)
      /\ SameAcked(A, v) /\ v \in NumberedSockets /\ s.ep
  <2>1. closes \in Nat /\ Linked(A, B, net["A"], net["B"], closes)
    BY ConnInvIs
  <2> QED
    BY <1>2, <1>4, <2>1, LinkedSyn
<1>6. u = v
  BY <1>5
<1> HIDE DEF u, v, s
<1> QED
  BY <1>1, <1>5, <1>6, HandledWriter

\* Send: one more segment that has not been sent; the reader has none beyond it.
LEMMA SendStep ==
  ASSUME ConnInv, Send
  PROVE  ConnInv' /\ Moves
<1>1. /\ closes = 0 /\ A.written < N /\ A.state \in {"ESTABLISHED", "CLOSE_WAIT"}
      /\ closes' = closes /\ net' = net
      /\ sock' = [sock EXCEPT !["A"].written = @ + 1,
                              !["A"].pend = @ \/ InFlight(A.buf) < A.cwnd]
  BY DEF Send, A
<1> DEFINE pend == A.pend \/ InFlight(A.buf) < A.cwnd
           v == [A EXCEPT !.written = @ + 1, !.pend = pend]
<1>2. /\ closes \in Nat /\ Linked(A, B, net["A"], net["B"], closes)
      /\ sock["A"] = A /\ A \in NumberedSockets /\ A.written \in 0..N
  BY ConnInvIs
<1>3. pend \in BOOLEAN
  BY <1>2 DEF NumberedSockets
<1>4. Linked(v, B, net["A"], net["B"], 0)
  <2> HIDE DEF pend
  <2> QED
    BY <1>1, <1>2, <1>3, LinkedSend
<1>5. v \in NumberedSockets /\ v.written = A.written + 1 /\ v.buf = A.buf
  <2>1. v \in NumberedSockets
    BY <1>4, LinkedIs
  <2>2. v = [A EXCEPT !.written = A.written + 1, !.pend = pend]
    OBVIOUS
  <2> HIDE DEF pend, v
  <2> QED
    BY <1>2, <2>1, <2>2 DEF NumberedSockets
<1>6. sock' = [sock EXCEPT !["A"] = v]
  BY <1>1, <1>2 DEF ConnInv, Ends, A, NumberedSockets
<1> HIDE DEF v
<1>7. sock' \in [Ends -> NumberedSockets] /\ A' = v /\ B' = B
  BY <1>5, <1>6 DEF ConnInv, Ends, A, B
<1>8. ConnInv'
  BY <1>1, <1>4, <1>7 DEF ConnInv
<1>9. Moves
  BY <1>1, <1>5, <1>7 DEF Moves
<1> QED
  BY <1>8, <1>9

\* m_sendPendingDataEvent: what is sent had been written.
LEMMA SendPendingStep ==
  ASSUME ConnInv, SendPending
  PROVE  ConnInv' /\ Moves
<1> DEFINE s == SendPendingData(A)
           u == [s EXCEPT !.pend = FALSE]
<1>1. Handled("A", u) /\ closes' = closes
  BY DEF SendPending, A
<1>2. /\ closes \in Nat /\ Linked(A, B, net["A"], net["B"], closes)
      /\ A \in NumberedSockets /\ B.rxNext \in Nat /\ A.head \in Nat /\ A.buf.una \in Nat
      /\ Writer(A, closes, B.rxNext, A.head)
  BY ConnInvIs
<1>3. Writer(s, closes, B.rxNext, A.head) /\ SameAcked(A, s)
  <2>1. CASE A.head = 0
    <3>1. A.written = 0
      BY <1>2, <2>1 DEF Writer, WriterData
    <3>2. ~(Size(A) > 0)
      BY <1>2, <3>1 DEF Size
    <3>3. s = A
      BY <3>2, SendPendingDataIdle
    <3> QED
      BY <1>2, <3>3 DEF SameAcked
  <2>2. CASE A.head # 0
    BY <1>2, <2>2, SendPendingDataWriter DEF Writer
  <2> QED
    BY <2>1, <2>2
<1> HIDE DEF s
<1>4. s \in NumberedSockets /\ WriterData(s, closes, B.rxNext, A.head) /\ WriterTimed(s)
  BY <1>3 DEF Writer, WriterData
<1>5. u \in NumberedSockets /\ Alike(s, u) /\ SameAcked(A, u)
  BY <1>3, <1>4 DEF NumberedSockets, Alike, SameAcked
<1> HIDE DEF u
<1>6. Writer(u, closes, B.rxNext, A.head)
  BY <1>4, <1>5, AlikeWriter DEF Writer
<1> QED
  BY <1>1, <1>5, <1>6, WriterHandles

\* Close, by the writer's application: from here on a FIN is one it asked for.
LEMMA CloseAStep ==
  ASSUME ConnInv, CloseA
  PROVE  ConnInv' /\ Moves
<1> DEFINE u == Close(A)
<1>1. closes' = closes + 1 /\ Handled("A", u)
  BY DEF CloseA, A
<1>2. /\ closes \in Nat /\ B.rxNext \in Nat
      /\ Writer(A, closes + 1, B.rxNext, A.head)
  BY ConnInvIs
<1>3. closes + 1 > 0
  BY <1>2
<1>4. Writer(u, closes + 1, B.rxNext, A.head) /\ SameAcked(A, u)
  BY <1>2, <1>3, CloseWriter DEF SameAcked
<1> HIDE DEF u
<1> QED
  BY <1>1, <1>4, WriterHandles

\* StopApplication at the sink: the reader may close, the writer is left alone.
LEMMA StopSinkStep ==
  ASSUME ConnInv, StopSink
  PROVE  ConnInv' /\ Moves
<1> DEFINE u == IF B.app THEN Close(B) ELSE B
<1>1. closes' = closes /\ Handled("B", u)
  BY DEF StopSink, B
<1>2. Reader(u, A.written, closes) /\ SameRx(B, u) /\ Told(At(B), u)
  <2>1. /\ closes \in Nat /\ A.written \in 0..N
        /\ Reader(B, A.written, closes) /\ Told(At(B), B)
    BY ConnInvIs
  <2>2. CASE B.app
    BY <2>1, <2>2, CloseReader
  <2>3. CASE ~B.app
    BY <2>1, <2>3 DEF SameRx
  <2> QED
    BY <2>2, <2>3
<1> HIDE DEF u
<1> QED
  BY <1>1, <1>2, HandledReader

\* A packet that reaches the writer is the oldest report on the path.
LEMMA ReceiveAStep ==
  ASSUME ConnInv, Receive("A")
  PROVE  ConnInv' /\ Moves
<1> DEFINE m == net["A"]
           n == net["B"]
           u == IF A.ep THEN DoForwardUp(A, Head(m)) ELSE NoEndPointsFound(A, Head(m))
           v == [u EXCEPT !.tx = <<>>]
           z == n \o u.tx
<1>1. /\ closes \in Nat /\ Linked(A, B, m, n, closes) /\ A \in NumberedSockets
      /\ sock["A"] = A
  BY ConnInvIs
<1>2. m # <<>> /\ closes' = closes
  BY DEF Receive
<1>3. Linked(v, B, Tail(m), z, closes) /\ WriterStep(A, v, closes, closes)
  <2> HIDE DEF m, n
  <2> QED
    BY <1>1, <1>2, ReceiveWriter
<1>4. /\ sock' = [sock EXCEPT !["A"] = v]
      /\ net' = [net EXCEPT !["A"] = Tail(m), !["B"] = z]
  <2>1. CASE A.ep
    BY <1>1, <2>1 DEF Receive, Peer
  <2>2. CASE ~A.ep
    BY <1>1, <2>2 DEF Receive, Peer
  <2> QED
    BY <2>1, <2>2
<1>5. v \in NumberedSockets /\ z \in PacketSeqs /\ Tail(m) \in PacketSeqs
  BY <1>3 DEF Linked, Writer, WriterData
<1> HIDE DEF v, z, u
<1>6. /\ sock' \in [Ends -> NumberedSockets] /\ net' \in [Ends -> PacketSeqs]
      /\ A' = v /\ B' = B /\ net'["A"] = Tail(m) /\ net'["B"] = z
  BY <1>4, <1>5 DEF ConnInv, Ends, A, B
<1>7. ConnInv'
  BY <1>1, <1>2, <1>3, <1>6 DEF ConnInv
<1>8. Moves
  BY <1>1, <1>2, <1>3, <1>6 DEF Moves, WriterStep
<1> QED
  BY <1>7, <1>8

\* A packet that reaches the reader, its endpoint, the listener, or none.
LEMMA ReceiveBStep ==
  ASSUME ConnInv, Receive("B")
  PROVE  ConnInv' /\ Moves
<1> DEFINE m == net["A"]
           n == net["B"]
           p == Head(n)
           u == IF B.ep THEN DoForwardUp(B, p)
                ELSE IF listening THEN IF p.flags = {"SYN"} THEN CompleteFork(p) ELSE B
                ELSE NoEndPointsFound(B, p)
           v == [u EXCEPT !.tx = <<>>]
           z == m \o u.tx
<1>1. /\ closes \in Nat /\ Linked(A, B, m, n, closes) /\ sock["B"] = B
  BY ConnInvIs
<1>2. n # <<>> /\ closes' = closes
  BY DEF Receive
<1>3. Linked(A, v, z, Tail(n), closes) /\ Onward(B, u)
  <2> HIDE DEF m, n
  <2> QED
    BY <1>1, <1>2, ReceiveReader
<1>4. /\ sock' = [sock EXCEPT !["B"] = v]
      /\ net' = [net EXCEPT !["B"] = Tail(n), !["A"] = z]
  <2>1. CASE B.ep
    BY <1>1, <2>1 DEF Receive, Peer
  <2>2. CASE ~B.ep /\ listening
    BY <1>1, <2>2 DEF Receive, Peer
  <2>3. CASE ~B.ep /\ ~listening
    BY <1>1, <2>3 DEF Receive, Peer
  <2> QED
    BY <2>1, <2>2, <2>3
<1>5. v \in NumberedSockets /\ z \in PacketSeqs /\ Tail(n) \in PacketSeqs
  BY <1>3 DEF Linked, Reader, ReaderData
<1>6. v.got = u.got /\ v.rxNext = u.rxNext /\ v.fin = u.fin
  OBVIOUS
<1> HIDE DEF v, z, u
<1>7. /\ sock' \in [Ends -> NumberedSockets] /\ net' \in [Ends -> PacketSeqs]
      /\ A' = A /\ B' = v /\ net'["B"] = Tail(n) /\ net'["A"] = z
  BY <1>4, <1>5 DEF ConnInv, Ends, A, B
<1>8. ConnInv'
  BY <1>1, <1>2, <1>3, <1>7 DEF ConnInv
<1>9. Moves
  BY <1>2, <1>3, <1>6, <1>7 DEF Moves, Onward, Finished
<1> QED
  BY <1>8, <1>9

\* m_retxEvent at the writer: a segment, the SYN or the FIN again.
LEMMA RetxAStep ==
  ASSUME ConnInv, RetxExpires("A")
  PROVE  ConnInv' /\ Moves
<1> DEFINE t == [A EXCEPT !.retx = {}]
           u == IF A.retx = {"RTO"} THEN ReTxTimeout(t) ELSE SendEmptyPacket(t, A.retx)
<1>1. A.retx # {} /\ Handled("A", u) /\ closes' = closes
  BY DEF RetxExpires, A
<1>2. /\ closes \in Nat /\ Linked(A, B, net["A"], net["B"], closes)
      /\ A \in NumberedSockets /\ B.rxNext \in Nat /\ A.head \in Nat
      /\ Writer(A, closes, B.rxNext, A.head) /\ A.tx = <<>>
  BY ConnInvIs
<1>3. CASE A.retx = {"SYN"}
  <2> DEFINE s == SendEmptyPacket(t, {"SYN"})
             v == [s EXCEPT !.state = IF s.ep THEN "SYN_SENT" ELSE @]
  <2>1. A.state = "SYN_SENT" /\ A.ep /\ A.head = 0 /\ A.nxt = 0 /\ A.written = 0
        /\ GoodBuffer(A.buf) /\ A.buf.high <= A.written /\ ~A.shut /\ ~A.lastAck
        /\ (A.onEmpty => closes > 0)
    BY <1>2, <1>3 DEF Writer, WriterData
  <2>2. t \in NumberedSockets
    BY <1>2, Values DEF NumberedSockets
  <2>3. SynReady(t, closes) /\ SameAcked(A, t) /\ t.state = "SYN_SENT"
    BY <1>2, <2>1 DEF NumberedSockets, SameAcked, SynReady
  <2> HIDE DEF t
  <2>4. /\ Linked([v EXCEPT !.tx = <<>>], B, net["A"], net["B"] \o v.tx, closes)
        /\ SameAcked(A, v) /\ v \in NumberedSockets /\ v = s
    <3>1. closes \in Nat /\ Linked(A, B, net["A"], net["B"], closes)
      BY <1>2
    <3> QED
      BY <2>2, <2>3, <3>1, LinkedSyn
  <2>5. u = s
    <3>1. {"SYN"} # {"RTO"}
      OBVIOUS
    <3> QED
      BY <1>3, <3>1
  <2> HIDE DEF s, u, v
  <2> QED
    BY <1>1, <2>4, <2>5, HandledWriter
<1>4. CASE A.retx # {"SYN"}
  <2>1. Writer(u, closes, B.rxNext, A.head) /\ SameAcked(A, u)
    BY <1>1, <1>2, <1>4, RetxWriter
  <2> HIDE DEF u
  <2> QED
    BY <1>1, <2>1, WriterHandles
<1> QED
  BY <1>3, <1>4

\* m_retxEvent at the reader: the SYN+ACK or the FIN again.
LEMMA RetxBStep ==
  ASSUME ConnInv, RetxExpires("B")
  PROVE  ConnInv' /\ Moves
<1> DEFINE t == [B EXCEPT !.retx = {}]
           u == IF B.retx = {"RTO"} THEN ReTxTimeout(t) ELSE SendEmptyPacket(t, B.retx)
<1>1. B.retx # {} /\ Handled("B", u) /\ closes' = closes
  BY DEF RetxExpires, B
<1>2. /\ closes \in Nat /\ A.written \in 0..N
      /\ Reader(B, A.written, closes) /\ Told(At(B), B)
  BY ConnInvIs
<1>3. Reader(u, A.written, closes) /\ SameRx(B, u) /\ Told(At(B), u)
  BY <1>1, <1>2, RetxReader
<1> HIDE DEF u
<1> QED
  BY <1>1, <1>3, HandledReader

\* m_lastAckEvent: the endpoint goes, at the reader; the writer has no such event.
LEMMA LastAckStep ==
  ASSUME ConnInv, NEW x \in Ends, LastAckExpires(x)
  PROVE  ConnInv' /\ Moves
<1>1. /\ closes \in Nat /\ A.written \in 0..N
      /\ Reader(B, A.written, closes) /\ Told(At(B), B)
      /\ Writer(A, closes, B.rxNext, A.head)
  BY ConnInvIs
<1>2. x = "B" /\ B.lastAck /\ closes' = closes
  BY <1>1 DEF LastAckExpires, Ends, Writer, WriterData, A, B
<1> DEFINE u == LastAckTimeout(B)
<1>3. Handled("B", u)
  BY <1>2 DEF LastAckExpires, B
<1>4. Reader(u, A.written, closes) /\ SameRx(B, u) /\ Told(At(B), u)
  BY <1>1, <1>2, LastAckReader
<1> HIDE DEF u
<1> QED
  BY <1>2, <1>3, <1>4, HandledReader

\* m_delAckEvent: one more report, as new as what has been received.
LEMMA DelAckStep ==
  ASSUME ConnInv, NEW x \in Ends, DelAckExpires(x)
  PROVE  ConnInv' /\ Moves
<1>1. /\ closes \in Nat /\ A.written \in 0..N
      /\ Reader(B, A.written, closes) /\ Told(At(B), B)
      /\ Writer(A, closes, B.rxNext, A.head)
      /\ sock["A"] = A /\ sock["B"] = B
  BY ConnInvIs
<1>2. Handled(x, SendEmptyPacket(sock[x], {"ACK"})) /\ closes' = closes
  BY DEF DelAckExpires
<1>3. CASE x = "A"
  <2> DEFINE u == SendEmptyPacket(A, {"ACK"})
  <2>1. /\ WriterData(u, closes, B.rxNext, A.head) /\ WriterTimed(u)
        /\ SameData(A, u)
    BY <1>1, SendPlainWriter DEF Writer
  <2>2. Handled("A", u)
    BY <1>1, <1>2, <1>3
  <2> HIDE DEF u
  <2>3. Writer(u, closes, B.rxNext, A.head) /\ SameAcked(A, u)
    BY <2>1 DEF Writer, SameData, SameAcked
  <2> QED
    BY <1>2, <2>2, <2>3, WriterHandles
<1>4. CASE x = "B"
  <2> DEFINE u == SendEmptyPacket(B, {"ACK"})
  <2>1. Reader(u, A.written, closes) /\ SameRx(B, u) /\ Told(At(B), u)
    BY <1>1, SendAckReader
  <2>2. Handled("B", u)
    BY <1>1, <1>2, <1>4
  <2> HIDE DEF u
  <2> QED
    BY <1>2, <2>1, <2>2, HandledReader
<1> QED
  BY <1>3, <1>4 DEF Ends

\* The end of TIME_WAIT: the endpoint goes.
LEMMA TimeWaitStep ==
  ASSUME ConnInv, NEW x \in Ends, TimeWaitExpires(x)
  PROVE  ConnInv' /\ Moves
<1>1. /\ closes \in Nat /\ A.written \in 0..N
      /\ Reader(B, A.written, closes) /\ Told(At(B), B)
      /\ Writer(A, closes, B.rxNext, A.head)
      /\ sock["A"] = A /\ sock["B"] = B
  BY ConnInvIs
<1>2. Handled(x, CloseAndNotify(sock[x])) /\ closes' = closes
  BY DEF TimeWaitExpires
<1>3. CASE x = "A"
  <2> DEFINE u == CloseAndNotify(A)
  <2>1. Writer(u, closes, B.rxNext, A.head) /\ SameData(A, u)
    BY <1>1, CloseAndNotifyWriter DEF Writer
  <2>2. Handled("A", u)
    BY <1>1, <1>2, <1>3
  <2> HIDE DEF u
  <2>3. SameAcked(A, u)
    BY <2>1 DEF SameData, SameAcked
  <2> QED
    BY <1>2, <2>1, <2>2, <2>3, WriterHandles
<1>4. CASE x = "B"
  <2> DEFINE u == CloseAndNotify(B)
  <2>1. Reader(u, A.written, closes) /\ SameRx(B, u) /\ Told(At(B), u)
    BY <1>1, CloseAndNotifyReader DEF Reader
  <2>2. Handled("B", u)
    BY <1>1, <1>2, <1>4
  <2> HIDE DEF u
  <2> QED
    BY <1>2, <2>1, <2>2, HandledReader
<1> QED
  BY <1>3, <1>4 DEF Ends

\* A loss: one report, or one packet of the writer, less.
LEMMA LoseStep ==
  ASSUME ConnInv, NEW x \in Ends, Lose(x)
  PROVE  ConnInv' /\ Moves
<1> DEFINE m == net["A"]
           n == net["B"]
<1>1. /\ closes \in Nat /\ Linked(A, B, m, n, closes)
      /\ A.buf.una \in Nat /\ B.got \in Nat /\ B.rxNext \in Nat
  BY ConnInvIs
<1>2. /\ net[x] # <<>> /\ sock' = sock /\ closes' = closes
      /\ net' = [net EXCEPT ![x] = Tail(@)]
  BY DEF Lose
<1>3. A' = A /\ B' = B
  BY <1>2 DEF A, B
<1>4. Moves
  BY <1>1, <1>2, <1>3 DEF Moves, Onward, Finished
<1>5. /\ m \in PacketSeqs /\ n \in PacketSeqs
      /\ \A i \in DOMAIN n : FromWriter(n[i], A.written, closes, B.rxNext)
      /\ SynFirst(A, B, n)
      /\ InOrder(m, Known(A), At(B))
      /\ \A i \in DOMAIN m : ToWriter(m[i], B.rxNext)
  BY <1>1 DEF Linked
<1>6. CASE x = "A"
  <2>1. m # <<>>
    BY <1>2, <1>6
  <2>2. /\ Tail(m) \in PacketSeqs
        /\ \A i \in DOMAIN Tail(m) : i + 1 \in DOMAIN m /\ Tail(m)[i] = m[i + 1]
    BY <1>5, <2>1, TailIs
  <2>3. InOrder(Tail(m), Known(A), At(B))
    BY <1>5, <2>1, InOrderTail
  <2>4. Linked(A, B, Tail(m), n, closes)
    BY <1>1, <1>5, <2>2, <2>3 DEF Linked
  <2>5. net' \in [Ends -> PacketSeqs] /\ net'["A"] = Tail(m) /\ net'["B"] = n
    BY <1>2, <1>6, <2>2 DEF ConnInv, Ends
  <2> QED
    BY <1>2, <1>3, <1>4, <2>4, <2>5 DEF ConnInv
<1>7. CASE x = "B"
  <2>1. n # <<>>
    BY <1>2, <1>7
  <2>2. /\ Tail(n) \in PacketSeqs
        /\ \A i \in DOMAIN Tail(n) : i + 1 \in DOMAIN n /\ Tail(n)[i] = n[i + 1]
    BY <1>5, <2>1, TailIs
  <2>3. SynFirst(A, B, Tail(n))
    BY <1>5, <2>1, SynFirstTail
  <2>4. Linked(A, B, m, Tail(n), closes)
    BY <1>1, <1>5, <2>2, <2>3 DEF Linked
  <2>5. net' \in [Ends -> PacketSeqs] /\ net'["B"] = Tail(n) /\ net'["A"] = m
    BY <1>2, <1>7, <2>2 DEF ConnInv, Ends
  <2> QED
    BY <1>2, <1>3, <1>4, <2>4, <2>5 DEF ConnInv
<1> QED
  BY <1>6, <1>7 DEF Ends

\* Every step of the connection keeps what links its ends, and moves the stream on.
LEMMA NextConn ==
  ASSUME ConnInv, [Next]_vars
  PROVE  ConnInv' /\ Moves
<1>1. CASE Connect
  BY <1>1, ConnectStep
<1>2. CASE Send
  BY <1>2, SendStep
<1>3. CASE SendPending
  BY <1>3, SendPendingStep
<1>4. CASE CloseA
  BY <1>4, CloseAStep
<1>5. CASE StopSink
  BY <1>5, StopSinkStep
<1>6. ASSUME NEW x \in Ends, Receive(x)
      PROVE  ConnInv' /\ Moves
  BY <1>6, ReceiveAStep, ReceiveBStep DEF Ends
<1>7. ASSUME NEW x \in Ends, RetxExpires(x)
      PROVE  ConnInv' /\ Moves
  BY <1>7, RetxAStep, RetxBStep DEF Ends
<1>8. ASSUME NEW x \in Ends, LastAckExpires(x)
      PROVE  ConnInv' /\ Moves
  BY <1>8, LastAckStep
<1>9. ASSUME NEW x \in Ends, DelAckExpires(x)
      PROVE  ConnInv' /\ Moves
  BY <1>9, DelAckStep
<1>10. ASSUME NEW x \in Ends, TimeWaitExpires(x)
       PROVE  ConnInv' /\ Moves
  BY <1>10, TimeWaitStep
<1>11. ASSUME NEW x \in Ends, Lose(x)
       PROVE  ConnInv' /\ Moves
  BY <1>11, LoseStep
<1>12. CASE UNCHANGED vars
  <2>1. sock' = sock /\ net' = net /\ closes' = closes /\ A' = A /\ B' = B
    BY <1>12 DEF vars, A, B
  <2>2. Onward(B, B)
    BY ConnInvIs DEF Onward
  <2> QED
    BY <2>1, <2>2 DEF ConnInv, Moves
<1> QED
  BY <1>1, <1>2, <1>3, <1>4, <1>5, <1>6, <1>7, <1>8, <1>9, <1>10, <1>11, <1>12 DEF Next

\* The two ends and the path between them never come apart.
THEOREM ConnAlways == Spec => []ConnInv
<1>1. ConnInv /\ [Next]_vars => ConnInv'
  BY NextConn
<1> QED
  BY InitConn, <1>1, PTL DEF Spec

\* What the writer's socket has let go of, the reader has handed on; that was
\* written; and a reader that is finished has all there will be.
InStep ==
  /\ A.buf.una \in Nat /\ B.got \in Nat /\ A.written \in 0..N
  /\ closes \in Nat
  /\ A.buf.una <= B.got /\ B.got <= A.written
  /\ Finished(B) => B.got = A.written /\ closes > 0

\* The invariant says so.
LEMMA ConnNumbers == ConnInv => InStep
<1> SUFFICES ASSUME ConnInv
             PROVE  InStep
  OBVIOUS
<1>1. /\ A.buf.una \in Nat /\ B.got \in Nat /\ A.written \in 0..N /\ closes \in Nat
      /\ B.rxNext \in Nat /\ A.head \in Nat
      /\ Writer(A, closes, B.rxNext, 0) /\ Reader(B, A.written, closes)
  BY ConnInvIs
<1>2. ReaderData(B, A.written, closes) /\ A.written \in Nat
  BY <1>1 DEF Reader
<1>3. /\ B.got <= A.written
      /\ Finished(B) => B.got = A.written /\ closes > 0
      /\ \/ B.rxNext = B.got + 1
         \/ B.got = A.written
         \/ B.rxNext = 0
  BY <1>1, <1>2, ReaderNumbers DEF ReaderData
<1>4. A.buf.una <= A.written /\ (A.head > 0 => A.buf.una <= A.head - 1 /\ A.head <= B.rxNext)
      /\ (A.head = 0 => A.buf.una = 0)
  <2>1. A.buf.una <= A.buf.high /\ A.buf.high <= A.written /\ A.buf.high \in Nat
    BY <1>1, TxBufferAssumption DEF Writer, WriterData, GoodBuffer, Buffers
  <2>2. A.head = 0 => A.written = 0
    BY <1>1 DEF Writer, WriterData
  <2>3. A.head > 0 => /\ A.buf.una = IF A.head - 1 <= A.written THEN A.head - 1
                                     ELSE A.written
                      /\ A.head <= B.rxNext
    BY <1>1 DEF Writer, WriterData
  <2> QED
    BY <1>1, <1>2, <2>1, <2>2, <2>3
<1>5. A.buf.una <= B.got
  BY <1>1, <1>2, <1>3, <1>4
<1> QED
  BY <1>1, <1>3, <1>5 DEF InStep

\* NotifyNormalClose at the sink (DoPeerClose) comes only when the writer has closed
\* and every segment it wrote has been handed on: for every number of losses.
THEOREM EofCorrect == Spec => []EofComplete
<1>1. ConnInv => EofComplete
  <2> SUFFICES ASSUME ConnInv, B.state \in {"CLOSE_WAIT", "LAST_ACK"}
               PROVE  B.got = A.written /\ closes > 0
    BY DEF EofComplete
  <2>1. Finished(B)
    BY ConnInvIs DEF Reader, ReaderState
  <2> QED
    BY <2>1, ConnNumbers DEF InStep
<1> QED
  BY ConnAlways, <1>1, PTL

\* The ACK that ProcessWait takes for that of its FIN is that of its FIN: in
\* FIN_WAIT_2 the peer has the FIN and all the data.
THEOREM HalfClosedCorrect == Spec => []HalfClosed
<1>1. ConnInv => HalfClosed
  <2> SUFFICES ASSUME ConnInv, A.state = "FIN_WAIT_2"
               PROVE  Finished(B) /\ B.got = A.written
    BY DEF HalfClosed
  <2>1. /\ A.written \in Nat /\ B.got \in Nat /\ B.rxNext \in Nat /\ B.got <= A.written
        /\ Writer(A, closes, B.rxNext, 0) /\ Reader(B, A.written, closes)
    BY ConnInvIs, ConnNumbers DEF InStep
  <2>2. A.written + 2 <= B.rxNext
    BY <2>1 DEF Writer, WriterData
  <2>3. Finished(B)
    BY <2>1, <2>2 DEF Reader, ReaderData
  <2> QED
    BY <2>3, ConnNumbers DEF InStep
<1> QED
  BY ConnAlways, <1>1, PTL

\* No end waits for an answer to a SYN, a FIN or a segment without one of the events
\* that send it again: though they share m_retxEvent, and each handler that finds it
\* running leaves it alone.
THEOREM WaitTimedCorrect == Spec => []WaitTimed
<1>1. ConnInv => WaitTimed
  <2> SUFFICES ASSUME ConnInv, NEW x \in Ends, sock[x].ep
               PROVE  LET t == sock[x]
                      IN /\ t.state \in {"SYN_SENT", "SYN_RCVD", "FIN_WAIT_1", "CLOSING"}
                              => t.retx # {}
                         /\ t.state = "LAST_ACK" => t.retx # {} \/ t.lastAck
                         /\ t.state \in {"ESTABLISHED", "CLOSE_WAIT"} /\ t.buf.una < t.buf.high
                              => t.retx = {"RTO"}
    BY DEF WaitTimed
  <2>1. /\ Writer(A, closes, B.rxNext, 0) /\ Reader(B, A.written, closes)
        /\ sock["A"] = A /\ sock["B"] = B
    BY ConnInvIs
  <2>2. CASE x = "A"
    <3>1. A.ep /\ sock[x] = A
      BY <2>1, <2>2
    <3>2. /\ A.state \notin {"CLOSED", "SYN_RCVD"}
          /\ A.state \in {"SYN_SENT", "FIN_WAIT_1", "CLOSING", "LAST_ACK"} => A.retx # {}
          /\ A.buf.una < A.buf.high /\ A.state # "TIME_WAIT" => A.retx = {"RTO"}
      BY <2>1, <3>1 DEF Writer, WriterData, WriterTimed
    <3> QED
      BY <3>1, <3>2
  <2>3. CASE x = "B"
    <3>1. B.ep /\ sock[x] = B
      BY <2>1, <2>3
    <3>2. /\ B.state = "SYN_RCVD" => B.retx = {"SYN", "ACK"}
          /\ B.state \in {"FIN_WAIT_1", "CLOSING"} => B.retx # {}
          /\ B.state = "LAST_ACK" => B.lastAck
          /\ B.state # "SYN_SENT"
          /\ B.buf = EmptyBuffer
      BY <2>1, <3>1 DEF Reader, ReaderData, ReaderState
    <3>3. ~(B.buf.una < B.buf.high)
      BY <3>2 DEF EmptyBuffer
    <3>4. {"SYN", "ACK"} # {}
      OBVIOUS
    <3> QED
      BY <3>1, <3>2, <3>3, <3>4
  <2> QED
    BY <2>2, <2>3 DEF Ends
<1> QED
  BY ConnAlways, <1>1, PTL

\* Whatever handler a socket was closed in, no timer that could act on it is left.
THEOREM ClosedCorrect == Spec => []ClosedIsQuiet
<1>1. ConnInv => ClosedIsQuiet
  <2> SUFFICES ASSUME ConnInv, NEW x \in Ends, ~sock[x].ep
               PROVE  sock[x].retx = {} /\ ~sock[x].lastAck /\ ~DelAckRuns(sock[x])
    BY DEF ClosedIsQuiet
  <2>1. /\ Writer(A, closes, B.rxNext, 0) /\ Reader(B, A.written, closes)
        /\ sock["A"] = A /\ sock["B"] = B
    BY ConnInvIs
  <2>2. CASE x = "A"
    BY <2>1, <2>2 DEF Writer, WriterData
  <2>3. CASE x = "B"
    BY <2>1, <2>3 DEF Reader, ReaderState
  <2> QED
    BY <2>2, <2>3 DEF Ends
<1> QED
  BY ConnAlways, <1>1, PTL

\* Two new sockets are a stream with nothing written.
LEMMA InitStream == Init => Stream!Init
<1> SUFFICES ASSUME Init
             PROVE  Stream!Init
  OBVIOUS
<1>1. A = NewSocket /\ B = NewSocket /\ closes = 0
  BY DEF Init, A, B, Ends
<1> QED
  BY <1>1 DEF Stream!Init, NewSocket, EmptyBuffer, Finished

\* What a step does to the two ends is a step of the stream, or none.
LEMMA NextStream ==
  ASSUME InStep, InStep', Moves
  PROVE  [Stream!Next]_(Stream!vars)
<1>1. /\ A.buf.una \in Nat /\ B.got \in Nat /\ A.written \in 0..N
      /\ closes \in Nat
      /\ A.buf.una <= B.got /\ B.got <= A.written
      /\ Finished(B) => B.got = A.written /\ closes > 0
  BY DEF InStep
<1>2. /\ A'.buf.una \in Nat /\ B'.got \in Nat /\ A'.written \in 0..N
      /\ closes' \in Nat
      /\ A'.buf.una <= B'.got /\ B'.got <= A'.written
      /\ Finished(B)' => B'.got = A'.written /\ closes' > 0
  BY DEF InStep
<1>3. CASE A' = A /\ closes' = closes /\ Onward(B, B')
  <2>1. /\ A'.written = A.written /\ A'.buf.una = A.buf.una
        /\ (closes' > 0) = (closes > 0) /\ B.got <= B'.got
        /\ Finished(B) => Finished(B)'
        /\ Finished(B)' \in BOOLEAN
    BY <1>1, <1>3 DEF Onward, Finished
  <2>2. CASE Finished(B)
    <3>1. B'.got = B.got
      BY <1>1, <1>2, <2>1, <2>2
    <3> QED
      BY <2>1, <2>2, <3>1 DEF Stream!vars
  <2>3. CASE ~Finished(B)
    <3>1. B'.got \in B.got .. A.written
      BY <1>1, <1>2, <2>1
    <3>2. Finished(B)' => closes > 0 /\ B'.got = A.written
      BY <1>2, <2>1
    <3> QED
      BY <2>1, <2>3, <3>1, <3>2 DEF Stream!Next, Stream!Deliver
  <2> QED
    BY <2>2, <2>3
<1>4. CASE /\ B' = B /\ closes' \in {closes, closes + 1}
           /\ A'.written = A.written /\ A.buf.una <= A'.buf.una
           /\ (closes' # closes => A'.buf.una = A.buf.una)
  <2>1. B'.got = B.got /\ Finished(B)' = Finished(B)
    BY <1>4 DEF Finished
  <2>2. CASE closes' = closes
    <3>1. A'.buf.una \in A.buf.una .. B.got
      BY <1>1, <1>2, <1>4, <2>1
    <3>2. (closes' > 0) = (closes > 0)
      BY <2>2
    <3> QED
      BY <1>4, <2>1, <3>1, <3>2 DEF Stream!Next, Stream!Release
  <2>3. CASE closes' = closes + 1
    <3>1. (closes' > 0) = TRUE
      BY <1>1, <2>3
    <3>2. A'.buf.una = A.buf.una
      BY <1>1, <1>4, <2>3
    <3> QED
      BY <1>4, <2>1, <3>1, <3>2 DEF Stream!Next, Stream!Close
  <2> QED
    BY <1>4, <2>2, <2>3
<1>5. CASE /\ B' = B /\ closes = 0 /\ closes' = 0 /\ A.written < N
           /\ A'.written = A.written + 1 /\ A'.buf.una = A.buf.una
  <2>1. B'.got = B.got /\ Finished(B)' = Finished(B)
    BY <1>5 DEF Finished
  <2>2. ~(closes > 0) /\ (closes' > 0) = (closes > 0)
    BY <1>5
  <2> QED
    BY <1>5, <2>1, <2>2 DEF Stream!Next, Stream!Write
<1>6. CASE /\ B' = B /\ closes \in Nat /\ closes' \in {closes, closes + 1}
           /\ A'.written = A.written /\ A.buf.una <= A'.buf.una
           /\ (closes' # closes => A'.buf.una = A.buf.una)
  BY <1>4, <1>6
<1> QED
  BY <1>3, <1>5, <1>6, Zenon DEF Moves

\* The connection implements StreamService: every step is a step of the stream its
\* applications see, or one they do not see.
THEOREM ConnectionIsStream == Spec => IsStream
<1>1. Init => Stream!Init
  BY InitStream
<1>2. ConnInv /\ InStep /\ InStep' /\ [Next]_vars => [Stream!Next]_(Stream!vars)
  BY NextConn, NextStream
<1> QED
  BY ConnAlways, ConnNumbers, <1>1, <1>2, PTL DEF Spec, IsStream, Stream!Spec

\* Of every implementation of the stream: what is released was delivered, what is
\* delivered was written, and its end comes with its last segment.
LEMMA StreamPromise == IsStream => []Stream!StreamSafe
<1> DEFINE Types == /\ A.written \in Nat /\ B.got \in Nat /\ A.buf.una \in Nat
                    /\ Finished(B) \in BOOLEAN
           Inv == Types /\ Stream!StreamSafe
<1>1. Stream!Init => Inv
  <2> SUFFICES ASSUME Stream!Init
               PROVE  Inv
    OBVIOUS
  <2>1. A.written = 0 /\ B.got = 0 /\ A.buf.una = 0
    BY Zenon DEF Stream!Init
  <2>2. Finished(B) = FALSE
    BY Zenon DEF Stream!Init
  <2>3. A.buf.una <= B.got /\ B.got <= A.written /\ 0 <= A.buf.una
    BY <2>1
  <2>4. A.written \in Nat /\ B.got \in Nat /\ A.buf.una \in Nat
    BY <2>1
  <2> QED
    BY <2>2, <2>3, <2>4, Zenon DEF Stream!StreamSafe
<1>2. Inv /\ [Stream!Next]_(Stream!vars) => Inv'
  <2> SUFFICES ASSUME Inv, [Stream!Next]_(Stream!vars)
               PROVE  Inv'
    OBVIOUS
  <2> USE DEF Stream!StreamSafe
  <2>1. CASE Stream!Write
    BY <2>1 DEF Stream!Write
  <2>2. CASE Stream!Close
    BY <2>2 DEF Stream!Close
  <2>3. CASE Stream!Deliver
    BY <2>3 DEF Stream!Deliver
  <2>4. CASE Stream!Release
    BY <2>4 DEF Stream!Release
  <2>5. CASE UNCHANGED Stream!vars
    BY <2>5 DEF Stream!vars
  <2> QED
    BY <2>1, <2>2, <2>3, <2>4, <2>5 DEF Stream!Next
<1>3. Inv => Stream!StreamSafe
  OBVIOUS
<1> HIDE DEF Inv
<1> QED
  BY <1>1, <1>2, <1>3, PTL DEF IsStream, Stream!Spec

\* So the connection keeps the stream's promise: the sink gets what was written, in
\* order and each segment once, and the end of the stream with the last of it.
THEOREM StreamCorrect == Spec => []Stream!StreamSafe
  BY ConnectionIsStream, StreamPromise, PTL

-----------------------------------------------------------------------------
\* The numbers of the reader, in its handlers.

\* The reader expects no number beyond the FIN's, and that only at the end of the
\* stream.  Its own numbers are the SYN's and the FIN's.
Reading(L, w) ==
  /\ L \in Limits /\ L.nxt \in 1..2 /\ L.sent = 1
  /\ L.rx = w + 2 /\ L.early = w + 1 /\ L.fin <= w + 1

\* The reader has the end of the stream, beyond what it may expect until then.
Over(t, L) == Finished(t) /\ t.rxNext > L.early

\* How far the reader is.
LEMMA ReaderReach ==
  ASSUME NEW L, NEW w \in 0..N, Reading(L, w), NEW t, NEW c \in Nat, ReaderData(t, w, c)
  PROVE  /\ t.rxNext <= L.early \/ Over(t, L)
         /\ Finished(t) => t.rxNext > w /\ t.got = w /\ t.fin # None
<1>1. t.got \in Nat /\ t.rxNext \in Nat /\ t.got <= w /\ w \in Nat
      /\ t.fin \in Nat \cup {-1} /\ (Finished(t) => t.got = w)
  BY ReaderNumbers
<1>2. t.rxNext <= L.early \/ Over(t, L)
  BY <1>1 DEF ReaderData, Reading, Over
<1>3. ASSUME Finished(t)
      PROVE  t.rxNext > w
  BY <1>1, <1>3 DEF Finished, ReaderData
<1> QED
  BY <1>1, <1>2, <1>3 DEF Finished

\* A socket that goes on, in its state, may now have more of the stream.
LEMMA PhaseOn ==
  ASSUME NEW L, NEW t, Phase(t, L), NEW u, SamePhase(t, u), u.nxt = t.nxt, u.tx = t.tx,
         u.fin = None => t.fin = None, u.rxNext <= L.early
  PROVE  Phase(u, L)
BY DEF Phase, SamePhase

\* Add: what has been received is followed by at most the FIN.
LEMMA AddReads ==
  ASSUME NEW L, NEW w \in 0..N, Reading(L, w),
         NEW t, NEW c \in Nat, ReaderData(t, w, c), Numbers(t, L), t.rxNext > 0,
         NEW lo, lo.ack \in Nat, Told(lo, t),
         NEW k \in 0 .. w - 1, t.rxNext <= k + 1, k \notin t.ooo
  PROVE  LET u == Add(t, k)
         IN  /\ Numbers(u, L) /\ SamePhase(t, u) /\ u.tx = t.tx /\ u.nxt = t.nxt
             /\ u.fin = t.fin
             /\ Phase(t, L) => Phase(u, L) \/ Over(u, L)
<1> DEFINE held == t.ooo \cup {k}
           got == CHOOSE n \in t.got .. N : t.got .. n-1 \subseteq held /\ n \notin held
           m == [t EXCEPT !.ooo = held \ 0..got-1, !.got = got,
                          !.rxNext = IF got > t.got THEN got + 1 ELSE t.rxNext]
           u == Add(t, k)
<1>1. /\ t \in NumberedSockets /\ t.got \in Nat /\ t.rxNext \in Nat /\ t.fin \in Nat \cup {-1}
      /\ w \in Nat
  BY ReaderNumbers
<1>2. /\ ReaderData(u, w, c) /\ Onward(t, u) /\ Kept(t, u)
      /\ u.retx = t.retx /\ u.fin = t.fin
  BY AddReader
<1>3. u \in NumberedSockets /\ u.got \in Nat /\ u.got <= w /\ u.rxNext \in Nat
  BY <1>2, ReaderNumbers
<1>4. u = IF m.rxNext = m.fin THEN [m EXCEPT !.rxNext = @ + 1] ELSE m
  BY <1>1 DEF Add, NumberedSockets
<1> HIDE DEF got
<1>5. /\ m.got = got /\ m.fin = t.fin /\ m.tx = t.tx /\ m.recover = t.recover
      /\ m.rxNext = IF got > t.got THEN got + 1 ELSE t.rxNext
  BY <1>1 DEF NumberedSockets
<1>6. m = [m EXCEPT !.rxNext = m.rxNext] /\ DOMAIN m = DOMAIN t
  BY <1>1 DEF NumberedSockets
<1> DEFINE r == IF m.rxNext = m.fin THEN m.rxNext + 1 ELSE m.rxNext
<1>7. u = [m EXCEPT !.rxNext = r]
  BY <1>4, <1>6
<1>8. /\ u.got = got /\ u.rxNext = r /\ u.tx = t.tx /\ u.recover = t.recover
  <2>1. DOMAIN t = {"state", "ep", "nxt", "head", "buf", "written", "cong", "cwnd", "recover",
                   "rxNext", "ooo", "fin", "got", "synCount", "retries", "retx", "lastAck",
                   "delAck", "pend", "onEmpty", "shut", "app", "normal", "error", "failed", "tx"}
    BY <1>1 DEF NumberedSockets
  <2> HIDE DEF m, r, u
  <2> QED
    BY <1>5, <1>6, <1>7, <2>1
<1>9. u.rxNext <= w + 2
  <2>1. t.rxNext # t.fin /\ t.rxNext <= L.rx /\ L.rx = w + 2
    BY DEF ReaderData, Numbers, Reading
  <2> HIDE DEF m, u
  <2> QED
    BY <1>1, <1>3, <1>5, <1>8, <2>1
<1> HIDE DEF m, r, u
<1>10. u.nxt = t.nxt /\ u.head = t.head /\ SamePhase(t, u)
  BY <1>2 DEF Kept, SamePhase
<1>11. Numbers(u, L)
  <2>1. /\ u.nxt <= L.nxt /\ u.head <= L.nxt /\ u.recover <= N + 1
        /\ u.head > L.sent => u.nxt > L.sent
        /\ t.rxNext <= u.rxNext /\ u.rxNext <= L.rx /\ u.fin <= L.fin
    BY <1>2, <1>8, <1>9, <1>10 DEF Numbers, Onward, Reading
  <2> QED
    BY <1>2, <1>3, <1>8, <2>1, MovedNumbers DEF Reading
<1>12. u.rxNext <= L.early \/ Over(u, L)
  BY <1>2, ReaderReach
<1>13. Phase(t, L) => Phase(u, L) \/ Over(u, L)
  BY <1>2, <1>8, <1>10, <1>12, PhaseOn
<1> QED
  BY <1>2, <1>8, <1>10, <1>11, <1>13 DEF u

\* An ACK leaves all else as it is.
LEMMA SendAckReads ==
  ASSUME NEW L \in Limits, NEW t, Numbers(t, L)
  PROVE  LET u == SendEmptyPacket(t, {"ACK"})
         IN  /\ Numbers(u, L) /\ Sending(t, u) /\ SamePhase(t, u)
             /\ Phase(t, L) => Phase(u, L)
<1> DEFINE u == SendEmptyPacket(t, {"ACK"})
<1>1. {"ACK"} \in Asked /\ "SYN" \notin {"ACK"} /\ "FIN" \notin {"ACK"}
  BY DEF Asked
<1>2. Numbers(u, L) /\ Sending(t, u) /\ u.retx = t.retx
  BY <1>1, SendNumbers
<1>3. Phase(t, L) => Phase(u, L)
  BY SendPlainBounded DEF Bounded
<1> HIDE DEF u
<1> QED
  BY <1>2, <1>3 DEF SamePhase, Sending, u

\* ReceivedData.
LEMMA ReceivedDataReads ==
  ASSUME NEW L, NEW w \in 0..N, Reading(L, w),
         NEW t, NEW c \in Nat, ReaderData(t, w, c), Numbers(t, L), t.rxNext > 0,
         t.ep, t.shut, "SYN" \notin t.retx, ~t.lastAck,
         NEW lo, lo.ack \in Nat, Told(lo, t),
         NEW p \in NumberedPackets, p.seq \in 1 .. w
  PROVE  LET u == ReceivedData(t, p)
         IN  /\ Numbers(u, L) /\ u.fin = t.fin
             /\ SamePhase(t, u) \/ (Bounded(u, L) /\ "FIN" \notin p.flags)
             /\ Phase(t, L) => Phase(u, L) \/ (Over(u, L) /\ "FIN" \in p.flags)
<1> DEFINE k == p.seq - 1
           a == Add(t, k)
           u == ReceivedData(t, p)
<1>1. /\ t \in NumberedSockets /\ t.got \in Nat /\ t.rxNext \in Nat /\ w \in Nat
      /\ p.seq \in Nat /\ k \in Nat /\ k \in 0 .. w - 1 /\ k + 1 = p.seq /\ L \in Limits
  <2>1. t \in NumberedSockets /\ t.got \in Nat /\ t.rxNext \in Nat /\ w \in Nat
    BY ReaderNumbers
  <2> QED
    BY <2>1 DEF Reading
<1> HIDE DEF k
<1>2. CASE p.seq < t.rxNext \/ k \in t.ooo
  <2>1. u = SendEmptyPacket(t, {"ACK"})
    BY <1>2 DEF ReceivedData, k
  <2> HIDE DEF u
  <2>2. /\ Numbers(u, L) /\ Sending(t, u) /\ SamePhase(t, u)
        /\ Phase(t, L) => Phase(u, L)
    BY <1>1, <2>1, SendAckReads
  <2> QED
    BY <2>2 DEF Sending, SameData, u
<1>3. CASE ~(p.seq < t.rxNext \/ k \in t.ooo)
  <2>1. t.rxNext <= k + 1 /\ k \notin t.ooo
    BY <1>1, <1>3
  <2>2. /\ ReaderData(a, w, c) /\ Kept(t, a) /\ a.retx = t.retx
    BY <1>1, <2>1, AddReader
  <2>3. /\ Numbers(a, L) /\ SamePhase(t, a) /\ a.tx = t.tx /\ a.fin = t.fin
        /\ Phase(t, L) => Phase(a, L) \/ Over(a, L)
    BY <1>1, <2>1, AddReads
  <2>4. a \in NumberedSockets /\ a.rxNext \in Nat /\ AllSent(a)
        /\ (Finished(a) => a.fin # None)
    BY <2>2, ReaderNumbers, ReaderAllSent, ReaderReach
  <2>5. Over(a, L) /\ "FIN" \notin p.flags => a.rxNext > t.rxNext
    <3>1. ~Finished(t)
      BY <1>1, <2>1, ReaderReach
    <3> QED
      BY <1>1, <2>3, <3>1, <2>4 DEF Over, Finished, Numbers, NumberedSockets, MaybeNumber, None
  <2>6. \/ u = DoPeerClose(a) /\ Finished(a) /\ "FIN" \notin p.flags
        \/ /\ \/ u = SendEmptyPacket(a, {"ACK"})
              \/ u = [a EXCEPT !.delAck = @ + 1] /\ ~(a.delAck + 1 >= DelAckMax)
           /\ ~(a.rxNext > t.rxNext /\ Finished(a) /\ "FIN" \notin p.flags)
    BY <1>3 DEF ReceivedData, k
  <2> HIDE DEF a, u
  <2>7. CASE u = DoPeerClose(a) /\ Finished(a) /\ "FIN" \notin p.flags
    <3>1. a.shut /\ a.fin # None /\ "SYN" \notin a.retx /\ ~a.lastAck
      BY <2>2, <2>4, <2>7 DEF Kept
    <3>2. Bounded(u, L) /\ SameIn(a, u)
      BY <1>1, <2>3, <2>4, <2>7, <3>1, DoPeerCloseEnds
    <3> QED
      BY <2>3, <2>7, <3>2 DEF Bounded, SameIn, u
  <2>8. CASE ~(a.rxNext > t.rxNext /\ Finished(a) /\ "FIN" \notin p.flags)
             /\ \/ u = SendEmptyPacket(a, {"ACK"})
                \/ u = [a EXCEPT !.delAck = @ + 1] /\ ~(a.delAck + 1 >= DelAckMax)
    <3>1. Over(a, L) => "FIN" \in p.flags
      BY <2>5, <2>8 DEF Over
    <3>2. /\ Numbers(u, L) /\ SamePhase(a, u) /\ SameIn(a, u)
          /\ Phase(a, L) => Phase(u, L)
      <4>1. CASE u = SendEmptyPacket(a, {"ACK"})
        BY <1>1, <2>3, <4>1, SendAckReads DEF Sending, SameData, SameIn
      <4>2. CASE u = [a EXCEPT !.delAck = @ + 1] /\ ~(a.delAck + 1 >= DelAckMax)
        <5>1. a.delAck \in DelAckCounts /\ a.delAck + 1 \in DelAckCounts
          BY <2>4, <4>2, ConnectionAssumption DEF NumberedSockets, DelAckCounts
        <5>2. u \in NumberedSockets /\ SameNumbers(a, u) /\ SamePhase(a, u)
          BY <2>4, <4>2, <5>1 DEF NumberedSockets, SameNumbers, SamePhase
        <5>3. Numbers(u, L)
          BY <2>3, <5>2, AlikeNumbers
        <5>4. Phase(a, L) => Phase(u, L)
          BY <2>3, <5>2, AlikeBounded DEF Bounded
        <5> QED
          BY <5>2, <5>3, <5>4 DEF SameNumbers, SameIn
      <4> QED
        BY <2>8, <4>1, <4>2
    <3>3. Over(a, L) => Over(u, L)
      BY <3>2 DEF Over, Finished, SameIn
    <3>4. u.fin = t.fin /\ SamePhase(t, u)
      BY <2>3, <3>2 DEF SameIn, SamePhase
    <3> QED
      BY <2>3, <3>1, <3>2, <3>3, <3>4 DEF u
  <2> QED
    BY <2>6, <2>7, <2>8
<1> QED
  BY <1>2, <1>3

\* ReceivedAck, at the reader.
LEMMA ReceivedAckReads ==
  ASSUME NEW L, NEW w \in 0..N, Reading(L, w),
         NEW t, NEW c \in Nat, Reader(t, w, c), Bounded(t, L),
         t.ep, t.state \in {"ESTABLISHED", "FIN_WAIT_1", "FIN_WAIT_2"},
         NEW lo, lo.ack \in Nat, Told(lo, t),
         NEW p \in NumberedPackets, p.len = 1 => p.seq \in 1 .. w, p.ack <= L.nxt,
         p.ack > L.sent /\ t.fin = None => t.state \in L.acked
  PROVE  LET u == ReceivedAck(t, p)
         IN  /\ Numbers(u, L) /\ u.fin = t.fin
             /\ Bounded(u, L) \/ (Over(u, L) /\ "FIN" \in p.flags)
             /\ "FIN" \in p.flags =>
                  u.state = t.state /\ "SYN" \notin u.retx /\ ~u.lastAck
<1> DEFINE u == ReceivedAck(t, p)
           d == Discard(t, p.ack)
           a == ProcessAck(d, p.ack, t.head, FALSE)
           Data(x) == IF p.len > 0 THEN ReceivedData(x, p) ELSE x
<1>1. /\ ReaderData(t, w, c) /\ ReaderState(t) /\ t \in NumberedSockets
      /\ t.head \in Nat /\ p.ack \in Nat /\ p.len \in 0..1 /\ t.buf = EmptyBuffer
      /\ L \in Limits /\ Numbers(t, L) /\ Phase(t, L) /\ t.state \notin Handshake
  BY ReaderNumbers DEF Reader, ReaderData, NumberedPackets, Bounded, Reading, Handshake
<1>2. Update(EmptyBuffer, p.sack) = EmptyBuffer
  BY DEF Update, EmptyBuffer, Sent
<1>3. [t EXCEPT !.buf = Update(@, p.sack)] = t
  BY <1>1, <1>2 DEF NumberedSockets
<1>4. u = IF p.ack < t.head THEN Data(t) ELSE SendPendingData(Data(a))
  <2>1. u = LET board == [t EXCEPT !.buf = Update(@, p.sack)]
                dup == board.buf.sacked # t.buf.sacked
                acked == ProcessAck(Discard(board, p.ack), p.ack, t.head, dup)
            IN IF p.ack < t.head THEN Data(board) ELSE SendPendingData(Data(acked))
    BY DEF ReceivedAck
  <2> HIDE DEF u
  <2> QED
    BY <1>3, <2>1
<1> HIDE DEF u
<1>5. ASSUME NEW x, Reader(x, w, c), Told(lo, x), Bounded(x, L), x.ep,
             x.state = t.state, x.fin = t.fin
      PROVE  /\ Numbers(Data(x), L) /\ Data(x).fin = t.fin
             /\ Bounded(Data(x), L) \/ (Over(Data(x), L) /\ "FIN" \in p.flags)
             /\ "FIN" \in p.flags => /\ Data(x).state = t.state
                                     /\ "SYN" \notin Data(x).retx /\ ~Data(x).lastAck
             /\ Size(Data(x)) = 0
  <2>1. /\ ReaderData(x, w, c) /\ x.rxNext > 0 /\ x.shut /\ Numbers(x, L) /\ Phase(x, L)
        /\ "SYN" \notin x.retx /\ ~x.lastAck
    BY <1>1, <1>5 DEF Reader, ReaderState, Bounded, Phase
  <2>2. CASE p.len = 0
    <3>1. Data(x) = x /\ Size(x) = 0
      BY <2>1, <2>2, ReaderAllSent
    <3> QED
      BY <1>5, <2>1, <3>1
  <2>3. CASE p.len = 1
    <3> DEFINE y == ReceivedData(x, p)
    <3>1. Data(x) = y
      BY <2>3
    <3>2. ReaderData(y, w, c)
      BY <1>5, <2>1, <2>3, ReceivedDataReader
    <3>3. /\ Numbers(y, L) /\ y.fin = x.fin
          /\ SamePhase(x, y) \/ (Bounded(y, L) /\ "FIN" \notin p.flags)
          /\ Phase(x, L) => Phase(y, L) \/ (Over(y, L) /\ "FIN" \in p.flags)
      BY <1>5, <2>1, <2>3, ReceivedDataReads
    <3>4. Size(y) = 0
      BY <3>2, ReaderAllSent
    <3> HIDE DEF y
    <3> QED
      BY <1>5, <2>1, <3>1, <3>3, <3>4 DEF Bounded, SamePhase
  <2> QED
    BY <1>1, <2>2, <2>3
<1>6. CASE p.ack < t.head
  BY <1>1, <1>4, <1>5, <1>6 DEF u
<1>7. CASE ~(p.ack < t.head)
  <2>1. t.head <= p.ack
    BY <1>1, <1>7
  <2>2. Reader(a, w, c) /\ Told(lo, a) /\ a.ep /\ a.state = t.state
    BY <1>1, <2>1, AckedReader
  <2>3. d = [t EXCEPT !.head = p.ack]
    <3>1. Size(t) = 0
      BY <1>1, ReaderAllSent
    <3>2. CASE p.ack <= t.head
      <4>1. p.ack = t.head
        BY <1>1, <2>1, <3>2
      <4> QED
        BY <1>1, <3>2, <4>1 DEF Discard, NumberedSockets
    <3>3. CASE ~(p.ack <= t.head)
      BY <1>1, <3>1, <3>3 DEF Discard, NumberedSockets
    <3> QED
      BY <3>2, <3>3
  <2> HIDE DEF d
  <2>4. /\ d \in NumberedSockets /\ d.head = p.ack /\ d.nxt = t.nxt
        /\ d.recover = t.recover /\ SameIn(t, d) /\ d.tx = t.tx /\ SamePhase(t, d)
    BY <1>1, <2>3 DEF NumberedSockets, SameIn, SamePhase
  <2>5. AckOutcome(d, a, p.ack, t.head, FALSE)
    BY <1>1, <2>4, ProcessAckIs
  <2> HIDE DEF a
  <2>6. Bounded(a, L) /\ SameIn(t, a)
    BY <1>1, <2>4, <2>5, AckedBounded
  <2>7. /\ Numbers(Data(a), L) /\ Data(a).fin = t.fin
        /\ Bounded(Data(a), L) \/ (Over(Data(a), L) /\ "FIN" \in p.flags)
        /\ "FIN" \in p.flags => /\ Data(a).state = t.state
                                /\ "SYN" \notin Data(a).retx /\ ~Data(a).lastAck
        /\ Size(Data(a)) = 0
    BY <1>5, <2>2, <2>6 DEF SameIn
  <2> HIDE DEF Data
  <2>8. SendPendingData(Data(a)) = Data(a)
    <3>1. ~(Size(Data(a)) > 0)
      BY <2>7
    <3> QED
      BY <3>1, SendPendingDataIdle
  <2> QED
    BY <1>4, <1>7, <2>7, <2>8 DEF u
<1> QED
  BY <1>6, <1>7

\* What a packet for the reader may say: a FIN that can change anything is the one the
\* reader may note.
ReaderHears(t, p, L, w, c) ==
  /\ p \in NumberedPackets /\ FromWriter(p, w, c, t.rxNext) /\ p.ack <= L.nxt
  /\ t.state = "SYN_RCVD" => p.ack <= 1
  /\ "FIN" \in p.flags /\ t.state \notin {"CLOSING", "LAST_ACK", "TIME_WAIT"} =>
       p.seq + p.len <= L.fin

\* PeerClose, at the reader: of a socket that may go on as it is, or of one that the
\* FIN will end.
LEMMA PeerCloseReads ==
  ASSUME NEW L, NEW w \in 0..N, Reading(L, w),
         NEW t, NEW c \in Nat, ReaderData(t, w, c), Numbers(t, L),
         t.ep, t.shut, t.rxNext > 0, "SYN" \notin t.retx, ~t.lastAck,
         NEW lo, lo.ack \in Nat, Told(lo, t),
         NEW p \in NumberedPackets, "FIN" \in p.flags,
         FromWriter(p, w, c, t.rxNext), p.seq + p.len <= L.fin,
         \/ Phase(t, L)
         \/ t.fin = None /\ p.seq = t.rxNext
  PROVE  Bounded(PeerClose(t, p), L)
<1> DEFINE s == p.seq + p.len
           noted == SetFinSequence(t, s)
           taken == IF p.len > 0 THEN ReceivedData(noted, p) ELSE noted
           u == PeerClose(t, p)
           ignored == p.seq < t.rxNext \/ (t.fin # None /\ p.seq > t.fin)
<1>1. /\ t \in NumberedSockets /\ t.got \in Nat /\ t.rxNext \in Nat /\ w \in Nat
      /\ t.fin \in Nat \cup {-1} /\ t.got <= w
      /\ p.seq \in Nat /\ p.len \in 0..1 /\ c > 0 /\ L \in Limits
  BY ReaderNumbers DEF NumberedPackets, FromWriter, Reading
<1>2. u = IF ignored THEN t ELSE IF Finished(taken) THEN DoPeerClose(taken) ELSE taken
  BY DEF PeerClose
<1>3. CASE ignored
  <2>1. t.fin = None => p.seq < t.rxNext
    BY <1>3
  <2>2. Phase(t, L)
    BY <1>1, <2>1
  <2> QED
    BY <1>2, <1>3, <2>2 DEF Bounded
<1>4. CASE ~ignored
  <2>1. s = w + 1
    <3>1. CASE p.len = 1
      BY <1>1, <3>1 DEF FromWriter
    <3>2. CASE p.len = 0
      <4>1. w < p.seq /\ p.seq <= w + 1
        BY <1>1, <3>2 DEF FromWriter, Reading, Limits, MaybeNumber, None
      <4> QED
        BY <1>1, <3>2, <4>1
    <3> QED
      BY <1>1, <3>1, <3>2
  <2>2. s <= L.fin
    OBVIOUS
  <2> HIDE DEF s
  <2>3. s \in Nat /\ 1 <= s /\ w <= s /\ s # w /\ s < L.rx
    BY <1>1, <2>1 DEF Reading
  <2>4. /\ ReaderData(noted, w, c) /\ Told(lo, noted) /\ Kept(t, noted)
        /\ noted.retx = t.retx /\ noted.rxNext > 0
        /\ s = t.rxNext => noted.rxNext = t.rxNext + 1
        /\ s # t.rxNext => noted.rxNext = t.rxNext
    BY <1>1, <2>1, <2>3, SetFinReader
  <2>5. /\ Numbers(noted, L) /\ noted.fin = s /\ noted.fin # None
        /\ noted.tx = t.tx
    BY <1>1, <2>2, <2>3, SetFinNumbers
  <2> HIDE DEF noted
  <2>6. SamePhase(t, noted) /\ noted.nxt = t.nxt
    BY <2>4 DEF Kept, SamePhase
  <2>7. Phase(t, L) => Phase(noted, L) \/ Over(noted, L)
    <3>1. noted.rxNext <= L.early \/ Over(noted, L)
      BY <2>4, ReaderReach
    <3> QED
      BY <2>5, <2>6, <3>1, PhaseOn
  <2>8. /\ ReaderData(taken, w, c) /\ Numbers(taken, L) /\ taken.fin # None
        /\ SamePhase(t, taken) /\ taken.shut
        /\ Phase(t, L) => Phase(taken, L) \/ Finished(taken)
        /\ p.seq = t.rxNext => Finished(taken)
    <3>1. CASE p.len = 0
      <4>1. taken = noted
        BY <3>1
      <4>2. p.seq = t.rxNext => Finished(noted)
        BY <1>1, <2>1, <2>4, <2>5, <3>1 DEF s, Finished
      <4> HIDE DEF taken
      <4> QED
        BY <2>4, <2>5, <2>6, <2>7, <4>1, <4>2 DEF Over, Kept
    <3>2. CASE p.len = 1
      <4> DEFINE y == ReceivedData(noted, p)
      <4>1. taken = y
        BY <3>2
      <4>2. p.seq = w /\ p.seq \in 1 .. w
        BY <3>2 DEF FromWriter
      <4>3. /\ ReaderData(y, w, c) /\ Onward(noted, y) /\ y.rxNext > 0
            /\ Kept(noted, y)
            /\ noted.rxNext = p.seq => p.seq <= y.got
        BY <2>4, <4>2, ReceivedDataReader DEF Kept
      <4>4. /\ Numbers(y, L) /\ y.fin = noted.fin
            /\ SamePhase(noted, y)
            /\ Phase(noted, L) => Phase(y, L) \/ Over(y, L)
        <5>1. /\ noted.ep /\ noted.shut /\ "SYN" \notin noted.retx /\ ~noted.lastAck
          BY <2>4 DEF Kept
        <5>2. /\ Numbers(y, L) /\ y.fin = noted.fin
              /\ SamePhase(noted, y) \/ (Bounded(y, L) /\ "FIN" \notin p.flags)
              /\ Phase(noted, L) => Phase(y, L) \/ (Over(y, L) /\ "FIN" \in p.flags)
          BY <2>4, <2>5, <4>2, <5>1, ReceivedDataReads
        <5> HIDE DEF y
        <5> QED
          BY <5>2
      <4> HIDE DEF y, taken
      <4>5. p.seq = t.rxNext => Finished(y)
        <5>1. /\ y.got \in Nat /\ y.rxNext \in Nat /\ y.got <= w
          BY <4>3, ReaderNumbers
        <5>2. p.seq = t.rxNext => y.got = w
          BY <1>1, <2>1, <2>4, <4>2, <4>3, <5>1
        <5>3. y.fin = w + 1 /\ y.rxNext # y.fin /\ y.rxNext > 0
          BY <2>1, <2>5, <4>3, <4>4 DEF ReaderData
        <5>4. y.rxNext = y.got + 1 \/ y.rxNext > y.got + 1
          BY <4>3, <5>1 DEF ReaderData
        <5> QED
          BY <1>1, <5>1, <5>2, <5>3, <5>4 DEF Finished, None
      <4>6. Phase(t, L) => Phase(y, L) \/ Finished(y)
        BY <2>7, <4>3, <4>4 DEF Over, Onward
      <4> QED
        BY <2>4, <2>5, <2>6, <4>1, <4>3, <4>4, <4>5, <4>6 DEF SamePhase, Kept
    <3> QED
      BY <1>1, <3>1, <3>2
  <2> HIDE DEF taken, u, ignored
  <2>9. CASE Finished(taken)
    <3>1. u = DoPeerClose(taken)
      BY <1>2, <1>4, <2>9
    <3>2. AllSent(taken) /\ "SYN" \notin taken.retx /\ ~taken.lastAck
      BY <2>8, ReaderAllSent DEF SamePhase
    <3>3. Bounded(u, L)
      BY <1>1, <2>8, <3>1, <3>2, DoPeerCloseEnds
    <3> QED
      BY <3>3 DEF u
  <2>10. CASE ~Finished(taken)
    <3>1. u = taken
      BY <1>2, <1>4, <2>10
    <3>2. Phase(t, L)
      BY <2>8, <2>10
    <3> QED
      BY <2>8, <2>10, <3>1, <3>2 DEF Bounded, u
  <2> QED
    BY <2>9, <2>10
<1> QED
  BY <1>3, <1>4

\* ProcessEstablished, at the reader: an ACK beyond what was sent is not taken.
LEMMA ProcessEstablishedReads ==
  ASSUME NEW L, NEW w \in 0..N, Reading(L, w),
         NEW t, NEW c \in Nat, Reader(t, w, c), Bounded(t, L),
         t.ep, t.state = "ESTABLISHED",
         NEW lo, lo.ack \in Nat, Told(lo, t),
         NEW p, ReaderHears(t, p, L, w, c)
  PROVE  Bounded(ProcessEstablished(t, p), L)
<1> DEFINE u == ProcessEstablished(t, p)
<1>1. /\ ReaderData(t, w, c) /\ ReaderState(t) /\ Numbers(t, L) /\ Phase(t, L)
      /\ L \in Limits /\ p \in NumberedPackets /\ p.ack \in Nat /\ t.shut /\ t.rxNext > 0
      /\ FromWriter(p, w, c, t.rxNext) /\ p.ack <= L.nxt
  BY DEF Reader, ReaderState, Bounded, Reading, ReaderHears, NumberedPackets
<1>2. \/ u = t \/ u = SendEmptyPacket(t, {"ACK"}) \/ u = CloseAndNotify(t)
      \/ u = PeerClose(t, p) /\ p.flags = {"FIN", "ACK"}
      \/ u = ReceivedAck(t, p) /\ p.flags = {"ACK"} /\ ~(p.ack > HighTx(t))
  BY DEF ProcessEstablished
<1>3. Bounded(SendEmptyPacket(t, {"ACK"}), L)
  BY <1>1, SendPlainBounded
<1>4. Bounded(CloseAndNotify(t), L)
  BY <1>1, DeallocateBounded
<1>5. p.flags = {"FIN", "ACK"} => Bounded(PeerClose(t, p), L)
  <2> SUFFICES ASSUME p.flags = {"FIN", "ACK"}
               PROVE  Bounded(PeerClose(t, p), L)
    OBVIOUS
  <2>1. "FIN" \in p.flags /\ p.seq + p.len <= L.fin
    BY DEF ReaderHears
  <2>2. "SYN" \notin t.retx /\ ~t.lastAck
    BY <1>1 DEF Phase, Handshake
  <2> QED
    BY <1>1, <2>1, <2>2, PeerCloseReads
<1>6. p.flags = {"ACK"} /\ ~(p.ack > HighTx(t)) => Bounded(ReceivedAck(t, p), L)
  <2> SUFFICES ASSUME p.flags = {"ACK"}, ~(p.ack > HighTx(t))
               PROVE  Bounded(ReceivedAck(t, p), L)
    OBVIOUS
  <2>1. HighTx(t) = 1 /\ L.sent = 1
    BY <1>1 DEF ReaderData, HighTx, EmptyBuffer, Reading
  <2>2. ~(p.ack > L.sent) /\ (p.len = 1 => p.seq \in 1 .. w)
    BY <1>1, <2>1 DEF FromWriter
  <2>3. LET v == ReceivedAck(t, p) IN Bounded(v, L) \/ (Over(v, L) /\ "FIN" \in p.flags)
    BY <1>1, <2>2, ReceivedAckReads
  <2> QED
    BY <2>3
<1> HIDE DEF u
<1> QED
  BY <1>2, <1>3, <1>4, <1>5, <1>6 DEF u

\* In FIN_WAIT_1 the next number may be beyond the FIN's for as long as the ACK of the
\* FIN is handled.
LEMMA Acknowledging ==
  ASSUME NEW L \in Limits, L.acked = {"FIN_WAIT_2"}, NEW w, NEW t
  PROVE  LET M == [L EXCEPT !.acked = FinWait]
         IN  /\ M \in Limits /\ M.acked = FinWait /\ M.sent = L.sent /\ M.fin = L.fin
             /\ M.nxt = L.nxt /\ M.rx = L.rx /\ M.early = L.early
             /\ Reading(L, w) => Reading(M, w)
             /\ Numbers(t, M) = Numbers(t, L)
             /\ Phase(t, L) => Phase(t, M)
             /\ Phase(t, M) /\ (t.state # "FIN_WAIT_1" \/ t.fin # None) => Phase(t, L)
<1> DEFINE M == [L EXCEPT !.acked = FinWait]
<1>1. /\ M \in Limits /\ M.acked = FinWait /\ M.sent = L.sent /\ M.fin = L.fin
      /\ M.nxt = L.nxt /\ M.rx = L.rx /\ M.early = L.early /\ M.low = L.low
      /\ M.open = L.open /\ M.quiet = L.quiet /\ M.none = L.none
  BY DEF Limits
<1> HIDE DEF M
<1>2. Reading(L, w) => Reading(M, w)
  BY <1>1 DEF Reading
<1>3. Numbers(t, M) = Numbers(t, L)
  BY <1>1 DEF Numbers, PacketNumbers
<1>4. Phase(t, L) => Phase(t, M)
  BY <1>1 DEF Phase, FinWait
<1>5. Phase(t, M) /\ (t.state # "FIN_WAIT_1" \/ t.fin # None) => Phase(t, L)
  BY <1>1 DEF Phase, FinWait
<1> QED
  BY <1>1, <1>2, <1>3, <1>4, <1>5 DEF M

\* ProcessWait, at the reader: the ACK of the FIN leads on to FIN_WAIT_2, or with the
\* FIN of the writer out of both.
LEMMA ProcessWaitReads ==
  ASSUME NEW L, NEW w \in 0..N, Reading(L, w), L.acked = {"FIN_WAIT_2"},
         NEW t, NEW c \in Nat, Reader(t, w, c), Bounded(t, L),
         t.ep, t.state \in FinWait,
         NEW lo, lo.ack \in Nat, Told(lo, t),
         NEW p, ReaderHears(t, p, L, w, c)
  PROVE  Bounded(ProcessWait(t, p), L)
<1> DEFINE acked == ReceivedAck(t, p)
           half == [acked EXCEPT !.state = "FIN_WAIT_2"]
           noted == SetFinSequence(acked, p.seq)
           u == ProcessWait(t, p)
           M == [L EXCEPT !.acked = FinWait]
<1>1. /\ Numbers(t, L) /\ Phase(t, L) /\ L \in Limits
      /\ p \in NumberedPackets /\ p.ack \in Nat /\ p.seq \in Nat /\ p.len \in 0..1
      /\ FromWriter(p, w, c, t.rxNext) /\ p.ack <= L.nxt
      /\ p.len = 1 => p.seq \in 1 .. w
  BY DEF Bounded, Reading, ReaderHears, NumberedPackets, FromWriter
<1>2. CASE p.flags \notin {{"ACK"}, {"FIN", "ACK"}}
  <2>1. u = t \/ u = CloseAndNotify(t)
    BY <1>2 DEF ProcessWait
  <2> HIDE DEF u
  <2> QED
    BY <1>1, <2>1, DeallocateBounded DEF u
<1>3. t.state \in {"ESTABLISHED", "FIN_WAIT_1", "FIN_WAIT_2"}
  BY DEF FinWait
<1>4. Reader(acked, w, c)
  BY <1>1, <1>3, ReceivedAckReader
<1>5. Size(acked) = 0 /\ HighTx(acked) = 1 /\ ReaderData(acked, w, c)
      /\ acked \in NumberedSockets
  <2>1. ReaderData(acked, w, c)
    BY <1>4 DEF Reader
  <2> HIDE DEF acked
  <2>2. Size(acked) = 0
    BY <2>1, ReaderAllSent
  <2>3. acked.buf = EmptyBuffer /\ acked \in NumberedSockets
    BY <2>1 DEF ReaderData
  <2> QED
    BY <2>1, <2>2, <2>3 DEF HighTx, EmptyBuffer
<1>6. /\ M \in Limits /\ Reading(M, w) /\ Bounded(t, M) /\ M.acked = FinWait
      /\ M.sent = L.sent /\ M.nxt = L.nxt
  BY <1>1, Acknowledging DEF Bounded
<1>7. /\ Numbers(acked, M) /\ acked.fin = t.fin
      /\ Bounded(acked, M) \/ (Over(acked, M) /\ "FIN" \in p.flags)
      /\ "FIN" \in p.flags =>
           acked.state = t.state /\ "SYN" \notin acked.retx /\ ~acked.lastAck
  <2> HIDE DEF M
  <2> QED
    BY <1>1, <1>3, <1>6, ReceivedAckReads
<1>8. CASE p.flags = {"ACK"}
  <2>1. "FIN" \notin p.flags
    BY <1>8
  <2>2. u = WaitFinished(IF acked.state = "FIN_WAIT_1" /\ p.ack = 2 THEN half ELSE acked, p)
    <3> HIDE DEF acked, half
    <3> QED
      BY <1>5, <1>8 DEF ProcessWait, acked, half
  <2>3. p.ack # 2 => Bounded(acked, L)
    <3>1. p.ack # 2 => ~(p.ack > L.sent)
      BY <1>1 DEF Reading
    <3>2. p.ack # 2 => Bounded(acked, L) \/ (Over(acked, L) /\ "FIN" \in p.flags)
      BY <1>1, <1>3, <3>1, ReceivedAckReads
    <3> QED
      BY <2>1, <3>2
  <2> HIDE DEF acked, M
  <2>4. CASE acked.state = "FIN_WAIT_1" /\ p.ack = 2
    <3>1. /\ half \in NumberedSockets /\ SameNumbers(acked, half)
          /\ half.state = "FIN_WAIT_2" /\ half.ep = acked.ep /\ half.retx = acked.retx
          /\ half.lastAck = acked.lastAck
      BY <1>5 DEF NumberedSockets, SameNumbers, States
    <3> HIDE DEF half
    <3>2. Phase(acked, M) /\ Numbers(acked, M)
      BY <1>7, <2>1 DEF Bounded
    <3>3. Numbers(half, M)
      BY <3>1, <3>2, AlikeNumbers
    <3>4. Phase(half, M)
      BY <1>6, <2>4, <3>1, <3>2
         DEF Phase, SameNumbers, PeerOpen, FinUnsent, Handshake, FinWait
    <3>5. Numbers(half, L) /\ Phase(half, L)
      BY <1>1, <3>1, <3>3, <3>4, Acknowledging DEF M
    <3> HIDE DEF u
    <3> QED
      BY <1>1, <2>2, <2>4, <3>5, WaitFinishedBounded DEF u
  <2>5. CASE ~(acked.state = "FIN_WAIT_1" /\ p.ack = 2)
    <3>1. Bounded(acked, L)
      <4>1. CASE p.ack = 2
        <5>1. Phase(acked, M) /\ Numbers(acked, M)
          BY <1>7, <2>1 DEF Bounded
        <5> QED
          BY <1>1, <2>5, <4>1, <5>1, Acknowledging DEF M, Bounded
      <4> QED
        BY <2>3, <4>1
    <3>2. u = WaitFinished(acked, p)
      BY <2>2, <2>5
    <3> HIDE DEF u
    <3> QED
      BY <1>1, <3>1, <3>2, WaitFinishedBounded DEF Bounded, u
  <2> QED
    BY <2>4, <2>5
<1>9. CASE p.flags = {"FIN", "ACK"}
  <2>1. "FIN" \in p.flags /\ p.flags # {"ACK"}
    BY <1>9
  <2>2. u = WaitFinished(noted, p)
    BY <1>9, <2>1 DEF ProcessWait
  <2>3. p.seq <= L.fin /\ p.seq < L.rx /\ p.seq <= w + 1 /\ w \in Nat
        /\ L.early = w + 1 /\ L.rx = w + 2
    <3>1. p.seq + p.len <= L.fin
      BY <2>1 DEF ReaderHears, FinWait
    <3> QED
      BY <1>1, <3>1 DEF Reading, Limits, MaybeNumber, None
  <2> HIDE DEF acked
  <2>4. /\ Numbers(noted, M) /\ SamePhase(acked, noted)
        /\ noted.fin = p.seq /\ noted.fin # None
        /\ noted.rxNext = acked.rxNext \/ Finished(noted)
        /\ Phase(acked, M) => Phase(noted, M) \/ (Finished(noted) /\ noted.state \in PeerOpen)
    <3>1. p.seq <= M.fin /\ p.seq < M.rx
      BY <1>1, <2>3, Acknowledging
    <3> HIDE DEF M
    <3> QED
      BY <1>1, <1>6, <1>7, <3>1, SetFinNumbers
  <2>5. Over(acked, M) => Finished(noted)
    <3>1. M.early = L.early /\ acked.rxNext \in Nat
      BY <1>1, <1>5, Acknowledging DEF NumberedSockets
    <3> HIDE DEF M, noted
    <3> QED
      BY <1>1, <2>3, <2>4, <3>1 DEF Over, Finished
  <2>6. Phase(noted, M) \/ Finished(noted)
    BY <1>7, <2>4, <2>5 DEF Bounded
  <2>7. Numbers(noted, L) /\ (Phase(noted, L) \/ Finished(noted))
    <3> HIDE DEF noted
    <3> QED
      BY <1>1, <2>4, <2>6, Acknowledging
  <2> HIDE DEF noted, M, u
  <2>8. noted.state \in FinWait /\ "SYN" \notin noted.retx /\ ~noted.lastAck
    BY <1>7, <2>1, <2>4 DEF SamePhase
  <2> QED
    BY <1>1, <2>2, <2>7, <2>8, WaitFinishedBounded DEF u
<1> QED
  BY <1>2, <1>8, <1>9

\* ProcessSynRcvd: the SYN is acknowledged, or the writer has closed in the meantime.
LEMMA ProcessSynRcvdReads ==
  ASSUME NEW L, NEW w \in 0..N, Reading(L, w),
         NEW t, NEW c \in Nat, Reader(t, w, c), Bounded(t, L),
         t.ep, t.state = "SYN_RCVD",
         NEW lo, lo.ack \in Nat, Told(lo, t),
         NEW p, ReaderHears(t, p, L, w, c)
  PROVE  Bounded(ProcessSynRcvd(t, p), L)
<1> DEFINE u == ProcessSynRcvd(t, p)
           e == Established(t)
           up == [e EXCEPT !.state = "ESTABLISHED", !.delAck = DelAckMax]
<1>1. /\ ReaderData(t, w, c) /\ ReaderState(t) /\ t \in NumberedSockets
      /\ t.got \in Nat /\ t.rxNext \in Nat /\ t.shut /\ t.rxNext > 0
      /\ t.fin = None /\ Numbers(t, L) /\ Phase(t, L) /\ L \in Limits
      /\ p \in NumberedPackets /\ p.ack \in Nat /\ p.ack <= 1 /\ p.ack <= L.nxt
      /\ FromWriter(p, w, c, t.rxNext)
  BY ReaderNumbers DEF Reader, ReaderData, ReaderState, Untouched, Bounded, Reading,
     ReaderHears, NumberedPackets
<1>2. /\ t.nxt = 0 /\ L.open /\ NoFin(t.tx) /\ ~t.lastAck
      /\ 1 <= L.nxt /\ ~(1 > L.sent)
  BY <1>1 DEF Phase, Handshake, FinUnsent, Reading
<1>3. /\ e \in NumberedSockets /\ e.written = t.written /\ e.buf = t.buf
      /\ SameRx(t, e) /\ e.shut /\ e.ep /\ e.tx = t.tx /\ e.nxt = 1 /\ e.head = 1
      /\ e.lastAck = t.lastAck /\ e.retx = {} /\ e.recover = t.recover
  <2>1. e = [t EXCEPT !.app = TRUE, !.retx = {}, !.nxt = 1, !.head = 1]
    BY <1>1, <1>2 DEF Established, NumberedSockets
  <2>2. {} \in RetxEvents
    BY Values
  <2> HIDE DEF e
  <2> QED
    BY <1>1, <2>1, <2>2 DEF NumberedSockets, SameRx
<1> HIDE DEF e
<1>4. ReaderData(e, w, c) /\ Told(lo, e)
  BY <1>1, <1>3 DEF ReaderData, SameRx, Finished, Untouched, Told, At
<1>5. Numbers(e, L)
  <2>1. /\ e.nxt <= L.nxt /\ e.head <= L.nxt /\ e.recover <= N + 1
        /\ e.head > L.sent => e.nxt > L.sent
        /\ t.rxNext <= e.rxNext /\ e.rxNext <= L.rx /\ e.fin <= L.fin
        /\ e.fin = None => t.fin = None
    BY <1>1, <1>2, <1>3 DEF Numbers, SameRx
  <2> QED
    BY <1>1, <1>3, <2>1, MovedNumbers
<1>6. CASE p.flags = {"ACK"}
  <2>1. u = ReceivedAck(up, p)
    BY <1>6 DEF ProcessSynRcvd, e
  <2>2. /\ up \in NumberedSockets /\ SameData(e, up) /\ up.state = "ESTABLISHED"
        /\ up.ep /\ up.tx = e.tx /\ up.retx = e.retx /\ up.lastAck = e.lastAck
        /\ up.recover = e.recover
    BY <1>3, Values DEF NumberedSockets, SameData, States
  <2> HIDE DEF up
  <2>3. ReaderData(up, w, c) /\ Told(lo, up) /\ SameRx(t, up)
    BY <1>3, <1>4, <2>2 DEF ReaderData, SameData, SameRx, Finished, Untouched, Told, At
  <2>4. ReaderState(up)
    BY <1>1, <1>3, <2>2, <2>3 DEF ReaderState, SameData, SameRx
  <2>5. SameNumbers(e, up)
    BY <2>2 DEF SameData, SameNumbers
  <2>6. Numbers(up, L)
    BY <1>5, <2>2, <2>5, AlikeNumbers
  <2>7. Phase(up, L)
    <3>1. up.rxNext <= L.early
      BY <1>1, <2>3 DEF Phase, PeerOpen, SameRx
    <3>2. ~(up.nxt > L.sent)
      BY <1>2, <1>3, <2>5 DEF SameNumbers
    <3> QED
      BY <1>2, <1>3, <2>2, <3>1, <3>2 DEF Phase, PeerOpen, FinUnsent, Handshake
  <2>8. p.len = 1 => p.seq \in 1 .. w
    BY <1>1 DEF FromWriter
  <2>9. ~(p.ack > L.sent)
    BY <1>1 DEF Reading
  <2>10. LET v == ReceivedAck(up, p)
         IN  Bounded(v, L) \/ (Over(v, L) /\ "FIN" \in p.flags)
    BY <1>1, <2>2, <2>3, <2>4, <2>6, <2>7, <2>8, <2>9, ReceivedAckReads DEF Reader, Bounded
  <2> HIDE DEF u
  <2> QED
    BY <1>6, <2>1, <2>10 DEF u
<1>7. CASE p.flags = {"SYN"}
  <2>1. u = SendEmptyPacket(t, {"SYN", "ACK"})
    BY <1>7 DEF ProcessSynRcvd
  <2>2. t.state \in Handshake
    BY DEF Handshake
  <2>3. LET v == SendEmptyPacket(t, {"SYN", "ACK"}) IN Bounded(v, L)
    BY <1>1, <2>2, SendSynBounded DEF Bounded
  <2> HIDE DEF u
  <2> QED
    BY <2>1, <2>3 DEF u
<1>8. CASE p.flags = {"FIN", "ACK"}
  <2>1. u = IF p.seq = t.rxNext THEN PeerClose(e, p) ELSE t
    BY <1>8 DEF ProcessSynRcvd, e
  <2>2. p.seq = t.rxNext => Bounded(PeerClose(e, p), L)
    <3> SUFFICES ASSUME p.seq = t.rxNext
                 PROVE  Bounded(PeerClose(e, p), L)
      OBVIOUS
    <3>1. "FIN" \in p.flags /\ p.seq + p.len <= L.fin
      BY <1>8 DEF ReaderHears
    <3>2. /\ e.fin = None /\ p.seq = e.rxNext /\ e.rxNext > 0 /\ "SYN" \notin e.retx
          /\ ~e.lastAck /\ FromWriter(p, w, c, e.rxNext)
      BY <1>1, <1>2, <1>3 DEF SameRx
    <3> QED
      BY <1>1, <1>3, <1>4, <1>5, <3>1, <3>2, PeerCloseReads
  <2> HIDE DEF u
  <2> QED
    BY <2>1, <2>2 DEF u
<1>9. CASE p.flags \notin {{"ACK"}, {"SYN"}, {"FIN", "ACK"}}
  <2>1. u = CloseAndNotify(t)
    BY <1>9 DEF ProcessSynRcvd
  <2> HIDE DEF u
  <2> QED
    BY <1>1, <2>1, DeallocateBounded DEF u
<1> QED
  BY <1>6, <1>7, <1>8, <1>9

\* DoForwardUp, at the reader.
LEMMA DoForwardUpReads ==
  ASSUME NEW L, NEW w \in 0..N, Reading(L, w), L.acked = {"FIN_WAIT_2"},
         NEW t, NEW c \in Nat, Reader(t, w, c), Bounded(t, L), t.ep,
         NEW lo, lo.ack \in Nat, Told(lo, t),
         NEW p, ReaderHears(t, p, L, w, c)
  PROVE  Bounded(DoForwardUp(t, p), L)
<1> DEFINE u == DoForwardUp(t, p)
           s == IF "SYN" \in p.flags THEN [t EXCEPT !.cwnd = N] ELSE t
<1>1. /\ t \in NumberedSockets /\ L \in Limits /\ ReaderData(t, w, c) /\ ReaderState(t)
  BY DEF Reader, ReaderData, Reading
<1>2. s \in NumberedSockets
  BY <1>1, Values DEF NumberedSockets
<1>3. /\ SameData(t, s) /\ SameNumbers(t, s) /\ SamePhase(t, s) /\ s.tx = t.tx
      /\ s.delAck = t.delAck
  BY <1>1 DEF NumberedSockets, SameData, SameNumbers, SamePhase
<1> HIDE DEF s
<1>4. Bounded(s, L)
  BY <1>2, <1>3, AlikeBounded
<1>5. /\ ReaderData(s, w, c) /\ ReaderState(s) /\ Told(lo, s)
  <2>1. ReaderData(s, w, c)
    BY <1>1, <1>2, <1>3 DEF ReaderData, SameData, Finished, Untouched
  <2>2. ReaderState(s)
    BY <1>1, <1>3 DEF ReaderState, SameData, SamePhase, Finished, Untouched, DelAckRuns
  <2>3. Told(lo, s)
    BY <1>3 DEF Told, At, SameData
  <2> QED
    BY <2>1, <2>2, <2>3
<1>6. ReaderHears(s, p, L, w, c)
  BY <1>3 DEF ReaderHears, SameData, SamePhase
<1>7. s.ep /\ s.state = t.state
  BY <1>3 DEF SamePhase
<1>8. \/ u = SendEmptyPacket(t, {"ACK"}) \/ u = t \/ u = s
      \/ s.state = "ESTABLISHED" /\ u = ProcessEstablished(s, p)
      \/ s.state = "SYN_RCVD" /\ u = ProcessSynRcvd(s, p)
      \/ s.state \in FinWait /\ u = ProcessWait(s, p)
      \/ s.state = "CLOSING" /\ u = ProcessClosing(s, p)
      \/ u = ProcessLastAck(s, p)
  <2>1. t.state \in States \ {"CLOSED", "SYN_SENT", "CLOSE_WAIT"}
    BY <1>1 DEF ReaderState, NumberedSockets
  <2> QED
    BY <1>7, <2>1 DEF DoForwardUp, States, FinWait, s
<1> HIDE DEF u
<1>9. Bounded(SendEmptyPacket(t, {"ACK"}), L)
  BY <1>1, SendPlainBounded
<1>10. s.state = "ESTABLISHED" => Bounded(ProcessEstablished(s, p), L)
  BY <1>4, <1>5, <1>6, <1>7, ProcessEstablishedReads DEF Reader
<1>11. s.state = "SYN_RCVD" => Bounded(ProcessSynRcvd(s, p), L)
  BY <1>4, <1>5, <1>6, <1>7, ProcessSynRcvdReads DEF Reader
<1>12. s.state \in FinWait => Bounded(ProcessWait(s, p), L)
  BY <1>4, <1>5, <1>6, <1>7, ProcessWaitReads DEF Reader
<1>13. s.state = "CLOSING" => Bounded(ProcessClosing(s, p), L)
  BY <1>1, <1>4, <1>7, ProcessLastBounded
<1>14. Bounded(ProcessLastAck(s, p), L)
  BY <1>1, <1>4, <1>7, ProcessLastBounded
<1> QED
  BY <1>4, <1>8, <1>9, <1>10, <1>11, <1>12, <1>13, <1>14 DEF u

-----------------------------------------------------------------------------
\* The numbers of the connection.

\* An end that has its FIN still to send; a reader that will send none before it has
\* noted the writer's, or is still to be forked.
Open(t) == t.ep /\ t.state \in FinUnsent
Silent(b, ln) == b.fin = None /\ (ln \/ Open(b))

\* Between handlers, ln for the listener: the writer has noted the reader's FIN only if
\* that has been sent, and the reader the writer's, behind the data.
LimitsA(a, b, ln) ==
  [nxt |-> N + 2, low |-> a.rxNext, rx |-> IF Silent(b, ln) THEN 1 ELSE 2,
   early |-> 1, fin |-> 1, sent |-> N + 2, acked |-> {"FIN_WAIT_2"},
   open |-> Open(a), quiet |-> FALSE, none |-> TRUE]

LimitsB(a, b) ==
  [nxt |-> IF a.rxNext = 2 THEN 2 ELSE 1, low |-> b.rxNext,
   rx |-> a.written + 2, early |-> a.written + 1,
   fin |-> IF Open(a) THEN -1 ELSE a.written + 1, sent |-> 1,
   acked |-> {"FIN_WAIT_2"}, open |-> Open(b),
   quiet |-> b.fin = None => (b.ep => b.state \in FinUnsent), none |-> b.fin = None]

ForReader(p, a) == p.seq <= N + 3 /\ p.ack <= a.rxNext

\* The reader's FIN has number 2 only if the writer has had one before.
ForWriter(p, a, b) ==
  /\ p.seq <= 3 /\ p.ack <= b.rxNext
  /\ "SYN" \in p.flags => p.seq = 0
  /\ "FIN" \in p.flags => p.seq <= 1 \/ (p.seq = 2 /\ b.fin # None /\ a.rxNext = 2)

\* The two ends are within their limits, and so are the packets between them.
Ranged(a, b, m, n, ln) ==
  /\ Bounded(a, LimitsA(a, b, ln)) /\ Bounded(b, LimitsB(a, b))
  /\ Open(a) => b.fin = None /\ NoFin(n)
  /\ Silent(b, ln) => a.rxNext <= 1 /\ NoFin(m)
  /\ ln /\ b.fin = None /\ b.ep => b.state \in {"SYN_RCVD", "ESTABLISHED"}
  /\ \A i \in DOMAIN n : ForReader(n[i], a)
  /\ \A i \in DOMAIN m : ForWriter(m[i], a, b)

\* The limits are limits.
LEMMA LimitsAre ==
  ASSUME NEW a \in NumberedSockets, NEW b \in NumberedSockets, NEW ln \in BOOLEAN
  PROVE  /\ Writing(LimitsA(a, b, ln)) /\ LimitsA(a, b, ln).acked = {"FIN_WAIT_2"}
         /\ Reading(LimitsB(a, b), a.written) /\ LimitsB(a, b).acked = {"FIN_WAIT_2"}
         /\ \A o, q \in BOOLEAN :
              /\ [LimitsA(a, b, ln) EXCEPT !.open = o] \in Limits
              /\ [LimitsB(a, b) EXCEPT !.open = o, !.quiet = q] \in Limits
<1>1. /\ a.rxNext \in Nat /\ b.rxNext \in Nat /\ a.written \in Nat /\ N \in Nat
      /\ a.ep \in BOOLEAN /\ b.ep \in BOOLEAN
  BY TxBufferAssumption DEF NumberedSockets, Amounts
<1>2. Open(a) \in BOOLEAN /\ Open(b) \in BOOLEAN /\ Silent(b, ln) \in BOOLEAN
  BY <1>1 DEF Open, Silent
<1>3. {"FIN_WAIT_2"} \in SUBSET FinWait
  BY DEF FinWait
<1>4. (b.fin = None => (b.ep => b.state \in FinUnsent)) \in BOOLEAN
  OBVIOUS
<1>5. -1 \in MaybeNumber /\ 1 \in MaybeNumber /\ a.written + 1 \in MaybeNumber
  BY <1>1 DEF MaybeNumber, None
<1>6. LimitsA(a, b, ln) \in Limits
  BY <1>1, <1>2, <1>3, <1>5 DEF Limits, LimitsA
<1>7. LimitsB(a, b) \in Limits
  BY <1>1, <1>2, <1>3, <1>4, <1>5 DEF Limits, LimitsB
<1>8. /\ Writing(LimitsA(a, b, ln)) /\ LimitsA(a, b, ln).acked = {"FIN_WAIT_2"}
  BY <1>6 DEF Writing, LimitsA
<1>9. Reading(LimitsB(a, b), a.written) /\ LimitsB(a, b).acked = {"FIN_WAIT_2"}
  <2>1. LimitsB(a, b).fin <= a.written + 1
    BY <1>1 DEF LimitsB
  <2> QED
    BY <1>1, <1>7, <2>1 DEF Reading, LimitsB
<1>10. \A o, q \in BOOLEAN :
         /\ [LimitsA(a, b, ln) EXCEPT !.open = o] \in Limits
         /\ [LimitsB(a, b) EXCEPT !.open = o, !.quiet = q] \in Limits
  <2> DEFINE K == LimitsA(a, b, ln)
             L == LimitsB(a, b)
  <2>1. K \in Limits /\ L \in Limits
    BY <1>6, <1>7
  <2> HIDE DEF K, L
  <2> SUFFICES ASSUME NEW o \in BOOLEAN, NEW q \in BOOLEAN
               PROVE  /\ [K EXCEPT !.open = o] \in Limits
                      /\ [L EXCEPT !.open = o, !.quiet = q] \in Limits
    BY DEF K, L
  <2> QED
    BY <2>1 DEF Limits
<1> QED
  BY <1>8, <1>9, <1>10

\* A socket that has handed its packets to the path is within every limits its numbers
\* are.
LEMMA ForgottenBounded ==
  ASSUME NEW L \in Limits, NEW M \in Limits, NEW t, Bounded(t, L),
         L.nxt <= M.nxt, M.sent = L.sent, M.acked = L.acked, L.early <= M.early,
         M.low <= t.rxNext, t.rxNext <= M.rx, t.fin <= M.fin, t.fin = None => M.none,
         Open(t) => M.open,
         M.quiet /\ t.fin = None /\ t.ep => t.state \in FinUnsent
  PROVE  LET u == [t EXCEPT !.tx = <<>>]
         IN  /\ Bounded(u, M) /\ SamePhase(t, u)
             /\ u.rxNext = t.rxNext /\ u.fin = t.fin /\ u.written = t.written
<1> DEFINE u == [t EXCEPT !.tx = <<>>]
<1> SUFFICES /\ Bounded(u, M) /\ SamePhase(t, u)
             /\ u.rxNext = t.rxNext /\ u.fin = t.fin /\ u.written = t.written
  OBVIOUS
<1>1. t \in NumberedSockets /\ <<>> \in PacketSeqs
  BY DEF Bounded, Numbers, PacketSeqs
<1>2. /\ u \in NumberedSockets /\ u.tx = <<>> /\ SamePhase(t, u)
      /\ u.nxt = t.nxt /\ u.head = t.head /\ u.recover = t.recover
      /\ u.rxNext = t.rxNext /\ u.fin = t.fin /\ u.written = t.written
  BY <1>1 DEF NumberedSockets, SamePhase
<1> HIDE DEF u
<1>3. /\ t.nxt \in Nat /\ t.head \in Nat /\ t.rxNext \in Nat
      /\ L.nxt \in Nat /\ M.nxt \in Nat /\ L.early \in Nat /\ M.early \in Nat
  BY <1>1 DEF NumberedSockets, Limits
<1>4. NoFin(u.tx)
  BY <1>2 DEF NoFin
<1>5. Numbers(u, M)
  <2>1. /\ t.nxt <= M.nxt /\ t.head <= M.nxt /\ t.recover <= N + 1
        /\ t.head > M.sent => t.nxt > M.sent
    BY <1>3 DEF Bounded, Numbers
  <2> QED
    BY <1>2, <1>4, <2>1 DEF Numbers
<1>6. Phase(u, M)
  <2>1. t.ep /\ t.state \in PeerOpen => t.rxNext <= M.early
    BY <1>3 DEF Bounded, Phase
  <2> QED
    BY <1>2, <1>4, <2>1 DEF Bounded, Phase, SamePhase, Open
<1> QED
  BY <1>2, <1>5, <1>6 DEF Bounded

\* What holds of the packets of both sequences holds of those of the two put together.
LEMMA NoFinConcat ==
  ASSUME NEW s \in PacketSeqs, NEW t \in PacketSeqs
  PROVE  /\ NoFin(s) /\ NoFin(t) => NoFin(s \o t)
         /\ \A i \in DOMAIN (s \o t) :
              (\E k \in DOMAIN s : (s \o t)[i] = s[k]) \/ (\E k \in DOMAIN t : (s \o t)[i] = t[k])
<1> DEFINE z == s \o t
<1>1. /\ Len(s) \in Nat /\ Len(t) \in Nat
      /\ DOMAIN s = 1 .. Len(s) /\ DOMAIN t = 1 .. Len(t)
      /\ DOMAIN z = 1 .. Len(s) + Len(t)
      /\ \A i \in 1 .. Len(s) : z[i] = s[i]
      /\ \A i \in 1 .. Len(t) : z[Len(s) + i] = t[i]
  BY ConcatIs
<1> HIDE DEF z
<1>2. ASSUME NEW i \in DOMAIN z
      PROVE  (\E k \in DOMAIN s : z[i] = s[k]) \/ (\E k \in DOMAIN t : z[i] = t[k])
  <2>1. CASE i \in 1 .. Len(s)
    BY <1>1, <2>1
  <2>2. CASE i \notin 1 .. Len(s)
    <3>1. i - Len(s) \in 1 .. Len(t) /\ i = Len(s) + (i - Len(s))
      BY <1>1, <2>2
    <3> QED
      BY <1>1, <3>1
  <2> QED
    BY <2>1, <2>2
<1>3. NoFin(s) /\ NoFin(t) => NoFin(z)
  BY <1>2 DEF NoFin
<1> QED
  BY <1>2, <1>3 DEF z

\* Packets taken from the path, or lost.
LEMMA RangedLess ==
  ASSUME NEW a, NEW b, NEW m, NEW n, NEW ln, Ranged(a, b, m, n, ln),
         NEW m2, NEW n2,
         \A i \in DOMAIN m2 : \E k \in DOMAIN m : m2[i] = m[k],
         \A i \in DOMAIN n2 : \E k \in DOMAIN n : n2[i] = n[k]
  PROVE  Ranged(a, b, m2, n2, ln)
<1>1. (NoFin(m) => NoFin(m2)) /\ (NoFin(n) => NoFin(n2))
  BY DEF NoFin
<1> QED
  BY <1>1 DEF Ranged

\* A handler of the writer: the socket u it leaves has its FIN still to send only if it
\* had before, or the reader had none noted.
LEMMA WriterRanged ==
  ASSUME NEW a, NEW b, NEW m, NEW n, NEW ln \in BOOLEAN, Ranged(a, b, m, n, ln),
         b.tx = <<>>, n \in PacketSeqs, NEW o \in BOOLEAN,
         NEW u, Bounded(u, [LimitsA(a, b, ln) EXCEPT !.open = o]),
         o => Open(a) \/ (b.fin = None /\ NoFin(n)), u.written = a.written
  PROVE  Ranged([u EXCEPT !.tx = <<>>], b, m, n \o u.tx, ln)
<1> DEFINE K == LimitsA(a, b, ln)
           L == [K EXCEPT !.open = o]
           v == [u EXCEPT !.tx = <<>>]
           M == LimitsA(v, b, ln)
           z == n \o u.tx
<1>1. /\ Bounded(a, K) /\ Bounded(b, LimitsB(a, b)) /\ Bounded(u, L)
      /\ Open(a) => b.fin = None /\ NoFin(n)
      /\ Silent(b, ln) => a.rxNext <= 1 /\ NoFin(m)
      /\ ln /\ b.fin = None /\ b.ep => b.state \in {"SYN_RCVD", "ESTABLISHED"}
      /\ \A i \in DOMAIN n : ForReader(n[i], a)
      /\ \A i \in DOMAIN m : ForWriter(m[i], a, b)
  BY DEF Ranged
<1>2. /\ a \in NumberedSockets /\ b \in NumberedSockets /\ u \in NumberedSockets
  BY <1>1 DEF Bounded, Numbers
<1>3. v \in NumberedSockets /\ v.rxNext = u.rxNext /\ v.ep = u.ep /\ v.state = u.state
      /\ v.written = a.written
  BY <1>2 DEF NumberedSockets, PacketSeqs
<1>4. /\ a.rxNext \in Nat /\ b.rxNext \in Nat /\ u.rxNext \in Nat /\ a.written \in Nat
      /\ N \in Nat
  BY <1>2, TxBufferAssumption DEF NumberedSockets, Amounts
<1>5. L \in Limits /\ M \in Limits /\ LimitsB(a, b) \in Limits /\ LimitsB(v, b) \in Limits
  <2> HIDE DEF v
  <2> QED
    BY <1>2, <1>3, LimitsAre DEF Writing, Reading
<1>6. /\ L.nxt = N + 2 /\ L.low = a.rxNext /\ L.rx = IF Silent(b, ln) THEN 1 ELSE 2
      /\ L.early = 1 /\ L.fin = 1 /\ L.sent = N + 2 /\ L.acked = {"FIN_WAIT_2"}
      /\ L.open = o /\ L.quiet = FALSE /\ L.none = TRUE
  BY DEF LimitsA
<1>7. /\ M.nxt = N + 2 /\ M.low = v.rxNext /\ M.rx = IF Silent(b, ln) THEN 1 ELSE 2
      /\ M.early = 1 /\ M.fin = 1 /\ M.sent = N + 2 /\ M.acked = {"FIN_WAIT_2"}
      /\ M.open = Open(v) /\ M.quiet = FALSE /\ M.none = TRUE
  BY DEF LimitsA
<1>8. /\ a.rxNext <= u.rxNext /\ u.rxNext <= L.rx /\ u.fin <= L.fin
      /\ \A i \in DOMAIN u.tx : PacketNumbers(u.tx[i], u, L)
      /\ Open(u) => o /\ NoFin(u.tx)
      /\ u.tx \in PacketSeqs
  <2> HIDE DEF L
  <2> QED
    BY <1>1, <1>2, <1>6 DEF Bounded, Numbers, Phase, Open, NumberedSockets
<1>9. Open(v) = Open(u)
  BY <1>3 DEF Open
<1> HIDE DEF K, L, M, v
<1>10. Bounded(v, M)
  <2>1. /\ L.nxt <= M.nxt /\ M.sent = L.sent /\ M.acked = L.acked /\ L.early <= M.early
        /\ M.low <= u.rxNext /\ u.rxNext <= M.rx /\ u.fin <= M.fin /\ M.none
        /\ (Open(u) => M.open) /\ ~M.quiet
    BY <1>3, <1>4, <1>6, <1>7, <1>8, <1>9
  <2> QED
    BY <1>1, <1>5, <2>1, ForgottenBounded DEF v
<1>11. Open(v) => b.fin = None /\ NoFin(n)
  BY <1>1, <1>8, <1>9
<1>12. Bounded(b, LimitsB(v, b))
  <2> DEFINE P == LimitsB(a, b)
             Q == LimitsB(v, b)
  <2>1. /\ P.nxt = (IF a.rxNext = 2 THEN 2 ELSE 1) /\ P.rx = a.written + 2
        /\ P.early = a.written + 1 /\ P.fin = (IF Open(a) THEN -1 ELSE a.written + 1)
        /\ P.sent = 1 /\ P.acked = {"FIN_WAIT_2"} /\ P.low = b.rxNext
        /\ Q.nxt = (IF v.rxNext = 2 THEN 2 ELSE 1) /\ Q.rx = a.written + 2
        /\ Q.early = a.written + 1 /\ Q.fin = (IF Open(v) THEN -1 ELSE a.written + 1)
        /\ Q.sent = 1 /\ Q.acked = {"FIN_WAIT_2"} /\ Q.low = b.rxNext
        /\ Q.open = Open(b) /\ (Q.none = (b.fin = None))
        /\ Q.quiet = (b.fin = None => (b.ep => b.state \in FinUnsent))
    BY <1>3 DEF LimitsB
  <2> HIDE DEF P, Q
  <2>2. P \in Limits /\ Q \in Limits /\ Bounded(b, P)
    BY <1>1, <1>5 DEF P, Q
  <2>3. b.rxNext <= P.rx /\ b.fin <= P.fin
    BY <2>2 DEF Bounded, Numbers
  <2>4. u.rxNext <= 2
    BY <1>4, <1>6, <1>8
  <2>5. P.nxt <= Q.nxt /\ P.early <= Q.early /\ Q.low <= b.rxNext /\ b.rxNext <= Q.rx
    BY <1>3, <1>4, <1>8, <2>1, <2>3, <2>4
  <2>6. b.fin <= Q.fin
    <3>1. b.fin \in Int
      BY <1>2 DEF NumberedSockets, MaybeNumber, None
    <3> QED
      BY <1>4, <1>11, <2>1, <2>3, <3>1 DEF None
  <2>7. LET d == [b EXCEPT !.tx = <<>>] IN Bounded(d, Q)
    BY <2>1, <2>2, <2>5, <2>6, ForgottenBounded
  <2> QED
    BY <1>2, <2>7, NothingSent DEF Q
<1>13. /\ NoFin(n) /\ NoFin(u.tx) => NoFin(z)
       /\ \A i \in DOMAIN z : (\E k \in DOMAIN n : z[i] = n[k]) \/ (\E k \in DOMAIN u.tx : z[i] = u.tx[k])
  BY <1>8, NoFinConcat
<1> HIDE DEF z
<1>14. Open(v) => b.fin = None /\ NoFin(z)
  BY <1>8, <1>9, <1>11, <1>13
<1>15. Silent(b, ln) => v.rxNext <= 1 /\ NoFin(m)
  BY <1>1, <1>3, <1>6, <1>8
<1>16. \A i \in DOMAIN z : ForReader(z[i], v)
  <2>1. \A i \in DOMAIN n : ForReader(n[i], v)
    <3> SUFFICES ASSUME NEW i \in DOMAIN n
                 PROVE  ForReader(n[i], v)
      OBVIOUS
    <3>1. n[i] \in NumberedPackets
      BY DEF PacketSeqs
    <3> QED
      BY <1>1, <1>3, <1>4, <1>8, <3>1 DEF ForReader, NumberedPackets
  <2>2. \A i \in DOMAIN u.tx : ForReader(u.tx[i], v)
    BY <1>3, <1>4, <1>6, <1>8 DEF ForReader, PacketNumbers
  <2> QED
    BY <1>13, <2>1, <2>2
<1>17. \A i \in DOMAIN m : ForWriter(m[i], v, b)
  <2>1. a.rxNext = 2 => v.rxNext = 2
    BY <1>3, <1>4, <1>6, <1>8
  <2> QED
    BY <1>1, <2>1 DEF ForWriter
<1> QED
  BY <1>1, <1>10, <1>12, <1>14, <1>15, <1>16, <1>17 DEF Ranged, M, v, z

\* What a handler of the reader may be held to: as a reader that may be forked, if there
\* is a listener ln, and as one that may send its FIN unasked, if l2 is none any more.
Allowed(L, a, b, ln, l2) ==
  LET K == LimitsB(a, b)
  IN  /\ L \in Limits /\ ln \in BOOLEAN /\ l2 \in BOOLEAN /\ (l2 => ln)
      /\ L.nxt = K.nxt /\ L.low = K.low /\ L.rx = K.rx /\ L.early = K.early
      /\ L.fin = K.fin /\ L.sent = K.sent /\ L.acked = K.acked /\ (L.none <=> K.none)
      /\ L.open => Open(b) \/ ln
      /\ l2 /\ b.fin = None => L.quiet

\* A handler of the reader, the listener going on (l2) or just closed.
LEMMA ReaderRanged ==
  ASSUME NEW a, NEW b, NEW m, NEW n, NEW ln, Ranged(a, b, m, n, ln),
         a.tx = <<>>, m \in PacketSeqs,
         NEW l2, NEW L, Allowed(L, a, b, ln, l2),
         NEW u, Bounded(u, L), NEW c, Reader(u, a.written, c)
  PROVE  Ranged(a, [u EXCEPT !.tx = <<>>], m \o u.tx, n, l2)
<1> DEFINE K == LimitsB(a, b)
           v == [u EXCEPT !.tx = <<>>]
           M == LimitsB(a, v)
           z == m \o u.tx
           w == a.written
<1>1. /\ Bounded(a, LimitsA(a, b, ln)) /\ Bounded(b, K) /\ Bounded(u, L)
      /\ Open(a) => b.fin = None /\ NoFin(n)
      /\ Silent(b, ln) => a.rxNext <= 1 /\ NoFin(m)
      /\ \A i \in DOMAIN n : ForReader(n[i], a)
      /\ \A i \in DOMAIN m : ForWriter(m[i], a, b)
  BY DEF Ranged
<1>2. /\ a \in NumberedSockets /\ b \in NumberedSockets /\ u \in NumberedSockets
  BY <1>1 DEF Bounded, Numbers
<1>3. /\ v \in NumberedSockets /\ v.rxNext = u.rxNext /\ v.ep = u.ep /\ v.state = u.state
      /\ v.fin = u.fin
  BY <1>2 DEF NumberedSockets, PacketSeqs
<1>4. /\ a.rxNext \in Nat /\ b.rxNext \in Nat /\ u.rxNext \in Nat /\ w \in Nat
      /\ u.fin \in Int /\ b.fin \in Int
  <2>1. MaybeNumber \subseteq Int
    BY DEF MaybeNumber, None
  <2>2. u.fin \in MaybeNumber /\ b.fin \in MaybeNumber
    BY <1>2 DEF NumberedSockets
  <2>3. a.rxNext \in Nat /\ b.rxNext \in Nat /\ u.rxNext \in Nat
    BY <1>2 DEF NumberedSockets
  <2>4. w \in Nat
    BY <1>2, TxBufferAssumption DEF NumberedSockets, Amounts
  <2> QED
    BY <2>1, <2>2, <2>3, <2>4
<1>5. /\ L \in Limits /\ M \in Limits
      /\ LimitsA(a, b, ln) \in Limits /\ LimitsA(a, v, l2) \in Limits
  <2>1. ln \in BOOLEAN /\ l2 \in BOOLEAN
    BY DEF Allowed
  <2> HIDE DEF v
  <2> QED
    BY <1>2, <1>3, <2>1, LimitsAre DEF Writing, Reading, Allowed
<1>6. /\ L.nxt = (IF a.rxNext = 2 THEN 2 ELSE 1) /\ L.low = b.rxNext /\ L.rx = w + 2
      /\ L.early = w + 1 /\ L.fin = (IF Open(a) THEN -1 ELSE w + 1) /\ L.sent = 1
      /\ L.acked = {"FIN_WAIT_2"} /\ (L.none => b.fin = None)
      /\ (L.open => Open(b) \/ ln) /\ (l2 /\ b.fin = None => L.quiet)
  BY DEF LimitsB, Allowed
<1>7. /\ M.nxt = (IF a.rxNext = 2 THEN 2 ELSE 1) /\ M.low = v.rxNext /\ M.rx = w + 2
      /\ M.early = w + 1 /\ M.fin = (IF Open(a) THEN -1 ELSE w + 1) /\ M.sent = 1
      /\ M.acked = {"FIN_WAIT_2"} /\ M.open = Open(v) /\ (M.none = (v.fin = None))
      /\ M.quiet = (v.fin = None => (v.ep => v.state \in FinUnsent))
  BY DEF LimitsB
<1>8. /\ b.rxNext <= u.rxNext /\ u.rxNext <= L.rx /\ u.fin <= L.fin
      /\ u.fin = None => b.fin = None
      /\ \A i \in DOMAIN u.tx : PacketNumbers(u.tx[i], u, L)
      /\ Open(u) => L.open /\ NoFin(u.tx)
      /\ L.quiet /\ u.fin = None => NoFin(u.tx) /\ (u.ep => u.state \in FinUnsent)
      /\ u.tx \in PacketSeqs
  BY <1>1, <1>2, <1>6 DEF Bounded, Numbers, Phase, Open, NumberedSockets
<1>9. Open(v) = Open(u)
  BY <1>3 DEF Open
<1> HIDE DEF K, M, v, w
<1>10. Bounded(v, M)
  <2>1. /\ L.nxt <= M.nxt /\ M.sent = L.sent /\ M.acked = L.acked /\ L.early <= M.early
        /\ M.low <= u.rxNext /\ u.rxNext <= M.rx /\ u.fin <= M.fin /\ (u.fin = None => M.none)
        /\ (Open(u) => M.open)
        /\ (M.quiet /\ u.fin = None /\ u.ep => u.state \in FinUnsent)
    <3>1. /\ L.nxt = M.nxt /\ M.sent = L.sent /\ M.acked = L.acked /\ L.early = M.early
          /\ M.low = u.rxNext /\ M.rx = L.rx /\ M.fin = L.fin
      BY <1>3, <1>6, <1>7
    <3>2. L.nxt <= M.nxt /\ L.early <= M.early /\ M.low <= u.rxNext
      BY <1>4, <1>6, <3>1
    <3>3. u.fin = None => M.none
      BY <1>3, <1>7
    <3>4. Open(u) => M.open
      BY <1>7, <1>9
    <3>5. M.quiet /\ u.fin = None /\ u.ep => u.state \in FinUnsent
      BY <1>3, <1>7
    <3> QED
      BY <1>8, <3>1, <3>2, <3>3, <3>4, <3>5
  <2> QED
    BY <1>1, <1>5, <2>1, ForgottenBounded DEF v
<1>11. Open(a) => v.fin = None /\ NoFin(n)
  <2>1. Open(a) => u.fin <= -1
    BY <1>6, <1>8
  <2>2. u.fin \in Nat \/ u.fin = None
    BY <1>2 DEF NumberedSockets, MaybeNumber
  <2> QED
    BY <1>1, <1>3, <2>1, <2>2
<1>12. Silent(v, l2) => Silent(b, ln) /\ NoFin(u.tx)
  <2> SUFFICES ASSUME Silent(v, l2)
               PROVE  Silent(b, ln) /\ NoFin(u.tx)
    OBVIOUS
  <2>1. u.fin = None /\ b.fin = None /\ (l2 \/ Open(u))
    BY <1>3, <1>8, <1>9 DEF Silent
  <2>2. CASE l2
    <3>1. ln
      BY <2>2 DEF Allowed
    <3>2. L.quiet
      BY <1>6, <2>1, <2>2
    <3> QED
      BY <1>8, <2>1, <3>1, <3>2 DEF Silent
  <2>3. CASE Open(u)
    BY <1>6, <1>8, <2>1, <2>3 DEF Silent
  <2> QED
    BY <2>1, <2>2, <2>3
<1>13. Bounded(a, LimitsA(a, v, l2))
  <2> DEFINE P == LimitsA(a, b, ln)
             Q == LimitsA(a, v, l2)
  <2>1. /\ P.nxt = N + 2 /\ P.early = 1 /\ P.fin = 1 /\ P.sent = N + 2
        /\ P.acked = {"FIN_WAIT_2"} /\ P.rx = IF Silent(b, ln) THEN 1 ELSE 2
    BY DEF LimitsA
  <2>2. /\ Q.nxt = N + 2 /\ Q.early = 1 /\ Q.fin = 1 /\ Q.sent = N + 2
        /\ Q.acked = {"FIN_WAIT_2"} /\ Q.rx = IF Silent(v, l2) THEN 1 ELSE 2
        /\ Q.low = a.rxNext /\ Q.open = Open(a) /\ Q.quiet = FALSE /\ Q.none = TRUE
    BY DEF LimitsA
  <2> HIDE DEF P, Q
  <2>3. P \in Limits /\ Q \in Limits /\ Bounded(a, P)
    BY <1>1, <1>5 DEF P, Q
  <2>4. a.rxNext <= P.rx /\ a.fin <= P.fin
    BY <2>3 DEF Bounded, Numbers
  <2>5. P.nxt <= Q.nxt /\ a.rxNext <= Q.rx /\ a.fin <= Q.fin /\ Q.low <= a.rxNext
        /\ P.early <= Q.early
    BY <1>1, <1>4, <1>12, <2>1, <2>2, <2>4, TxBufferAssumption
  <2>6. LET d == [a EXCEPT !.tx = <<>>] IN Bounded(d, Q)
    BY <2>1, <2>2, <2>3, <2>5, ForgottenBounded
  <2> QED
    BY <1>2, <2>6, NothingSent DEF Q
<1>14. /\ NoFin(m) /\ NoFin(u.tx) => NoFin(z)
       /\ \A i \in DOMAIN z : (\E k \in DOMAIN m : z[i] = m[k]) \/ (\E k \in DOMAIN u.tx : z[i] = u.tx[k])
  BY <1>8, NoFinConcat
<1> HIDE DEF z
<1>15. Silent(v, l2) => a.rxNext <= 1 /\ NoFin(z)
  BY <1>1, <1>12, <1>14
<1>16. l2 /\ v.fin = None /\ v.ep => v.state \in {"SYN_RCVD", "ESTABLISHED"}
  <2> SUFFICES ASSUME l2, v.fin = None, v.ep
               PROVE  v.state \in {"SYN_RCVD", "ESTABLISHED"}
    OBVIOUS
  <2>1. u.state \in FinUnsent /\ u.ep /\ u.fin = None
    BY <1>3, <1>6, <1>8
  <2>2. u.state # "SYN_SENT" /\ u.state # "CLOSE_WAIT"
    BY <2>1 DEF Reader, ReaderState
  <2> QED
    BY <1>3, <2>1, <2>2 DEF FinUnsent
<1>17. \A i \in DOMAIN z : ForWriter(z[i], a, v)
  <2>1. \A i \in DOMAIN m : ForWriter(m[i], a, v)
    <3> SUFFICES ASSUME NEW i \in DOMAIN m
                 PROVE  ForWriter(m[i], a, v)
      OBVIOUS
    <3>1. m[i] \in NumberedPackets
      BY DEF PacketSeqs
    <3>2. m[i].ack \in Nat
      BY <3>1 DEF NumberedPackets
    <3> QED
      BY <1>1, <1>3, <1>4, <1>8, <3>2 DEF ForWriter
  <2>2. \A i \in DOMAIN u.tx : ForWriter(u.tx[i], a, v)
    <3> SUFFICES ASSUME NEW i \in DOMAIN u.tx
                 PROVE  ForWriter(u.tx[i], a, v)
      OBVIOUS
    <3>1. u.tx[i] \in NumberedPackets /\ PacketNumbers(u.tx[i], u, L)
      BY <1>8 DEF PacketSeqs
    <3>2. u.tx[i].seq \in Nat
      BY <3>1 DEF NumberedPackets
    <3> QED
      BY <1>3, <1>4, <1>6, <3>1, <3>2 DEF ForWriter, PacketNumbers
  <2> QED
    BY <1>14, <2>1, <2>2
<1> QED
  BY <1>1, <1>10, <1>11, <1>13, <1>15, <1>16, <1>17 DEF Ranged, M, v, z

\* The limits as they are.
LEMMA SameLimits ==
  ASSUME NEW L \in Limits, NEW o, o = L.open, NEW q, q = L.quiet
  PROVE  [L EXCEPT !.open = o] = L /\ [L EXCEPT !.open = o, !.quiet = q] = L
BY DEF Limits

\* The limits of the reader itself.
LEMMA LimitsAllowed ==
  ASSUME NEW a \in NumberedSockets, NEW b \in NumberedSockets,
         NEW ln \in BOOLEAN, NEW l2 \in BOOLEAN, l2 => ln,
         l2 /\ b.fin = None /\ b.ep => b.state \in {"SYN_RCVD", "ESTABLISHED"}
  PROVE  Allowed(LimitsB(a, b), a, b, ln, l2)
<1>1. LimitsB(a, b) \in Limits
  BY LimitsAre DEF Reading
<1>2. /\ LimitsB(a, b).open = Open(b)
      /\ LimitsB(a, b).quiet = (b.fin = None => (b.ep => b.state \in FinUnsent))
  BY DEF LimitsB
<1>3. l2 /\ b.fin = None => LimitsB(a, b).quiet
  BY <1>2 DEF FinUnsent
<1>4. ln \in BOOLEAN /\ l2 \in BOOLEAN /\ (l2 => ln)
  OBVIOUS
<1> QED
  BY <1>1, <1>2, <1>3, <1>4 DEF Allowed

\* A reset for a packet that finds no endpoint.
LEMMA NoEndPointsFoundBounded ==
  ASSUME NEW L \in Limits, NEW t, Bounded(t, L), ~t.ep, NEW p
  PROVE  Bounded(NoEndPointsFound(t, p), L)
<1> DEFINE flags == IF "ACK" \in p.flags THEN {"RST"} ELSE {"RST", "ACK"}
           q == [flags |-> flags, seq |-> 0, ack |-> 0, len |-> 0, sack |-> {}]
           u == NoEndPointsFound(t, p)
<1>1. CASE "RST" \in p.flags
  BY <1>1 DEF NoEndPointsFound
<1>2. CASE "RST" \notin p.flags
  <2>1. u = [t EXCEPT !.tx = <<q>>]
    BY <1>2 DEF NoEndPointsFound
  <2>2. /\ q \in NumberedPackets /\ q.seq = 0 /\ q.ack = 0
        /\ "FIN" \notin q.flags /\ "SYN" \notin q.flags
    <3>1. flags \in FlagSets /\ {} \in SegmentSets
      BY Values DEF FlagSets
    <3> QED
      BY <3>1 DEF NumberedPackets
  <2> HIDE DEF q, u
  <2>3. <<q>> \in PacketSeqs
    BY <2>2 DEF PacketSeqs
  <2>4. t \in NumberedSockets /\ Numbers(t, L) /\ Phase(t, L)
    BY DEF Bounded, Numbers
  <2>5. /\ u \in NumberedSockets /\ u.tx = <<q>> /\ SamePhase(t, u)
        /\ u.nxt = t.nxt /\ u.head = t.head /\ u.recover = t.recover
        /\ u.rxNext = t.rxNext /\ u.fin = t.fin
    BY <2>1, <2>3, <2>4 DEF NumberedSockets, SamePhase
  <2>6. \A i \in DOMAIN u.tx : u.tx[i] = q
    BY <2>5
  <2>7. u.rxNext \in Nat /\ L.nxt \in Nat
    BY <2>5 DEF NumberedSockets, Limits
  <2>8. PacketNumbers(q, u, L)
    BY <2>2, <2>7 DEF PacketNumbers
  <2>9. NoFin(u.tx) /\ \A i \in DOMAIN u.tx : PacketNumbers(u.tx[i], u, L)
    BY <2>2, <2>6, <2>8 DEF NoFin
  <2>10. Numbers(u, L)
    BY <2>4, <2>5, <2>9 DEF Numbers
  <2>11. Phase(u, L)
    BY <2>4, <2>5 DEF Phase, SamePhase
  <2> QED
    BY <2>10, <2>11 DEF Bounded, u
<1> QED
  BY <1>1, <1>2

\* The writer takes the oldest packet on its way to it.
LEMMA ReceiveWriterRanged ==
  ASSUME NEW a, NEW b, NEW m, NEW n, NEW c \in Nat, Linked(a, b, m, n, c), m # <<>>,
         NEW ln \in BOOLEAN, Ranged(a, b, m, n, ln)
  PROVE  LET u == IF a.ep THEN DoForwardUp(a, Head(m)) ELSE NoEndPointsFound(a, Head(m))
         IN  Ranged([u EXCEPT !.tx = <<>>], b, Tail(m), n \o u.tx, ln)
<1> DEFINE p == Head(m)
           R == b.rxNext
           w == a.written
           L == LimitsA(a, b, ln)
           u == IF a.ep THEN DoForwardUp(a, p) ELSE NoEndPointsFound(a, p)
           v == [u EXCEPT !.tx = <<>>]
<1>1. /\ m \in PacketSeqs /\ n \in PacketSeqs /\ InOrder(m, Known(a), At(b))
      /\ \A i \in DOMAIN m : ToWriter(m[i], R)
      /\ a.tx = <<>> /\ b.tx = <<>>
  BY DEF Linked
<1>2. /\ p \in NumberedPackets /\ p = m[1] /\ 1 \in DOMAIN m
      /\ \A i \in DOMAIN Tail(m) : \E k \in DOMAIN m : Tail(m)[i] = m[k]
  BY <1>1, TailIs
<1>3. /\ R \in Nat /\ a \in NumberedSockets /\ b \in NumberedSockets /\ w \in 0..N
      /\ Writer(a, c, R, a.head) /\ N \in Nat /\ a.rxNext \in Nat
  <2>1. \A d \in Nat : \A h : c <= d => Writer(a, d, R, h)
    BY LinkedIs
  <2>2. c <= c
    OBVIOUS
  <2> QED
    BY <2>1, <2>2, LinkedIs, TxBufferAssumption DEF NumberedSockets
<1>4. /\ Writing(L) /\ L \in Limits /\ L.nxt = N + 2 /\ L.fin = 1
      /\ L.rx = IF Silent(b, ln) THEN 1 ELSE 2
      /\ L.early = 1
  BY <1>3, LimitsAre DEF Writing, LimitsA
<1>5. /\ Bounded(a, L) /\ Bounded(b, LimitsB(a, b)) /\ ForWriter(p, a, b)
      /\ (Open(a) => b.fin = None) /\ (Silent(b, ln) => NoFin(m))
  BY <1>2 DEF Ranged
<1>6. R <= N + 2
  <2>1. R <= w + 2
    BY <1>5 DEF Bounded, Numbers, LimitsB
  <2> QED
    BY <1>3, <2>1
<1>7. Ranged(a, b, Tail(m), n, ln)
  <2>1. \A i \in DOMAIN n : \E k \in DOMAIN n : n[i] = n[k]
    OBVIOUS
  <2> QED
    BY <1>2, <2>1, RangedLess
<1>8. u.written = a.written
  <2>1. LET x == [u EXCEPT !.tx = <<>>] IN WriterStep(a, x, c, c)
    BY ReceiveWriter
  <2>2. v.written = u.written
    OBVIOUS
  <2> HIDE DEF u
  <2> QED
    BY <2>1, <2>2 DEF WriterStep
<1>9. L = [L EXCEPT !.open = Open(a)] /\ Open(a) \in BOOLEAN
  <2>1. L.open = Open(a)
    BY DEF LimitsA
  <2> HIDE DEF L
  <2> QED
    BY <1>3, <1>4, <2>1, SameLimits DEF Open, NumberedSockets
<1>10. p.seq \in Nat /\ p.ack \in Nat
  BY <1>2 DEF NumberedPackets
<1> HIDE DEF p, R, w, L
<1>11. Bounded(u, L)
  <2>1. CASE a.ep
    <3>1. p.len = 0 /\ (Acks(p) => Honest(p, R) /\ Below(a, p))
      BY <1>1, <1>2 DEF ToWriter, InOrder, Leq, Known, Below
    <3>2. WriterData(a, c, R, a.head)
      BY <1>3 DEF Writer
    <3>3. p.ack <= L.nxt /\ ("SYN" \in p.flags => p.seq = 0)
      BY <1>3, <1>4, <1>5, <1>6, <1>10 DEF ForWriter, R
    <3>4. "FIN" \in p.flags => L.rx = 2 /\ (p.seq <= 1 \/ (p.seq = 2 /\ b.fin # None /\ a.rxNext = 2))
      BY <1>2, <1>4, <1>5 DEF ForWriter, NoFin
    <3>5. a.state \notin {"CLOSING", "LAST_ACK", "TIME_WAIT"} => Open(a) \/ a.rxNext <= 1
      <4>1. a.state \in States /\ a.state # "CLOSED"
        BY <1>3, <2>1, <3>2 DEF WriterData, NumberedSockets
      <4>2. a.state \in PeerOpen => a.rxNext <= 1
        BY <1>4, <1>5, <2>1 DEF Bounded, Phase
      <4> QED
        BY <2>1, <4>1, <4>2 DEF States, PeerOpen, Open, FinUnsent
    <3>6. "FIN" \in p.flags /\ a.state \notin {"CLOSING", "LAST_ACK", "TIME_WAIT"} =>
            p.seq <= L.fin /\ p.seq < L.rx
      BY <1>4, <1>5, <1>10, <3>4, <3>5
    <3>7. WriterHears(a, p, L)
      BY <1>2, <3>1, <3>3, <3>6 DEF WriterHears
    <3>8. Bounded(DoForwardUp(a, p), L)
      BY <1>3, <1>4, <1>5, <2>1, <3>1, <3>2, <3>7, DoForwardUpWrites
    <3> QED
      BY <2>1, <3>8
  <2>2. CASE ~a.ep
    <3>1. Bounded(NoEndPointsFound(a, p), L)
      BY <1>4, <1>5, <2>2, NoEndPointsFoundBounded
    <3> QED
      BY <2>2, <3>1
  <2> QED
    BY <2>1, <2>2
<1> HIDE DEF u
<1>12. Ranged([u EXCEPT !.tx = <<>>], b, Tail(m), n \o u.tx, ln)
  <2> DEFINE o == Open(a)
  <2>1. o \in BOOLEAN /\ Bounded(u, [LimitsA(a, b, ln) EXCEPT !.open = o])
    BY <1>9, <1>11 DEF L
  <2>2. o => Open(a) \/ (b.fin = None /\ NoFin(n))
    OBVIOUS
  <2> HIDE DEF o
  <2> QED
    BY <1>1, <1>7, <1>8, <2>1, <2>2, WriterRanged
<1> QED
  BY <1>12 DEF u, p

\* CompleteFork.
LEMMA CompleteForkBounded ==
  ASSUME NEW L, NEW w \in 0..N, Reading(L, w), L.open, L.none, L.low <= 1,
         NEW p \in NumberedPackets, p.seq = 0
  PROVE  Bounded(CompleteFork(p), L)
<1> DEFINE t == [NewSocket EXCEPT !.ep = TRUE, !.state = "SYN_RCVD",
                   !.shut = TRUE, !.onEmpty = TRUE, !.rxNext = 1]
           asked == {"SYN", "ACK"}
           u == CompleteFork(p)
<1>1. /\ t \in NumberedSockets /\ t.ep /\ t.state = "SYN_RCVD" /\ t.rxNext = 1
      /\ t.fin = None /\ t.nxt = 0 /\ t.head = 0 /\ t.recover = 0 /\ t.retx = {}
      /\ t.tx = <<>> /\ t.synCount = SynRetries /\ ~t.lastAck
  <2>1. /\ NewSocket.fin = None /\ NewSocket.nxt = 0 /\ NewSocket.head = 0
        /\ NewSocket.recover = 0 /\ NewSocket.retx = {} /\ NewSocket.tx = <<>>
        /\ NewSocket.synCount = SynRetries /\ ~NewSocket.lastAck
    BY DEF NewSocket
  <2> QED
    BY <2>1, NewSocketIs DEF NumberedSockets, States
<1>2. u = SendEmptyPacket(t, asked)
  BY DEF CompleteFork
<1>3. /\ L \in Limits /\ L.nxt \in Nat /\ L.sent = 1 /\ L.rx >= 1 /\ L.early >= 1
      /\ L.fin \in Nat \cup {-1} /\ w \in Nat /\ N \in Nat
  BY TxBufferAssumption DEF Reading, Limits, MaybeNumber, None
<1>4. /\ asked \in Asked /\ "SYN" \in asked /\ "FIN" \notin asked
      /\ asked \notin {{"ACK"}, {"RST"}}
  BY DEF Asked
<1> HIDE DEF t, u
<1>5. Numbers(t, L) /\ NoFin(t.tx)
  <2>1. NoFin(t.tx) /\ \A i \in DOMAIN t.tx : PacketNumbers(t.tx[i], t, L)
    BY <1>1 DEF NoFin
  <2> QED
    BY <1>1, <1>3, <2>1 DEF Numbers, None
<1>6. /\ Numbers(u, L) /\ Sending(t, u) /\ NoFin(u.tx)
      /\ u.retx = asked
  <2>1. t.nxt = 0 /\ t.synCount # 0 /\ t.state \in Handshake \cup {"CLOSED"}
    BY <1>1, ConnectionAssumption DEF Handshake
  <2> DEFINE flags == IF "FIN" \in asked THEN {"FIN", "ACK"} ELSE asked
  <2>2. flags = asked
    BY <1>4
  <2> HIDE DEF asked
  <2>3. LET s == SendEmptyPacket(t, asked)
        IN  /\ Numbers(s, L) /\ Sending(t, s)
            /\ s.retx = IF t.ep /\ t.retx = {} /\ flags \notin {{"ACK"}, {"RST"}}
                        THEN flags ELSE t.retx
            /\ "FIN" \notin asked /\ NoFin(t.tx) => NoFin(s.tx)
    BY <1>3, <1>4, <1>5, <2>1, SendNumbers
  <2> HIDE DEF flags
  <2> QED
    BY <1>1, <1>2, <1>4, <1>5, <2>2, <2>3
<1>7. /\ u.state = "SYN_RCVD" /\ ~u.lastAck /\ u.rxNext = 1 /\ u.nxt = 0
  BY <1>1, <1>6 DEF Sending, SameData
<1>8. Phase(u, L)
  BY <1>3, <1>4, <1>6, <1>7 DEF Phase, Handshake, FinUnsent
<1> QED
  BY <1>6, <1>8 DEF Bounded, u

\* The reader takes the oldest packet on its way to it.
LEMMA ReceiveReaderRanged ==
  ASSUME NEW a, NEW b, NEW m, NEW n, NEW c \in Nat, Linked(a, b, m, n, c), n # <<>>,
         NEW ln \in BOOLEAN, Ranged(a, b, m, n, ln)
  PROVE  LET p == Head(n)
             u == IF b.ep THEN DoForwardUp(b, p)
                  ELSE IF ln THEN IF p.flags = {"SYN"} THEN CompleteFork(p) ELSE b
                  ELSE NoEndPointsFound(b, p)
         IN  Ranged(a, [u EXCEPT !.tx = <<>>], m \o u.tx, Tail(n), ln)
<1> DEFINE p == Head(n)
           w == a.written
           L == LimitsB(a, b)
           u == IF b.ep THEN DoForwardUp(b, p)
                ELSE IF ln THEN IF p.flags = {"SYN"} THEN CompleteFork(p) ELSE b
                ELSE NoEndPointsFound(b, p)
<1>1. /\ m \in PacketSeqs /\ n \in PacketSeqs /\ SynFirst(a, b, n)
      /\ \A i \in DOMAIN n : FromWriter(n[i], w, c, b.rxNext)
      /\ a.tx = <<>> /\ b.tx = <<>>
  BY DEF Linked
<1>2. /\ p \in NumberedPackets /\ p = n[1] /\ 1 \in DOMAIN n
      /\ \A i \in DOMAIN Tail(n) : \E k \in DOMAIN n : Tail(n)[i] = n[k]
  BY <1>1, TailIs
<1>3. /\ a \in NumberedSockets /\ b \in NumberedSockets /\ w \in 0..N
      /\ Reader(b, w, c) /\ Told(At(b), b) /\ At(b).ack \in Nat
  BY LinkedIs
<1>4. /\ N \in Nat /\ w \in Nat /\ a.rxNext \in Nat /\ b.rxNext \in Nat
      /\ p.seq \in Nat /\ p.ack \in Nat /\ p.len \in 0..1 /\ b.ep \in BOOLEAN
  BY <1>2, <1>3, TxBufferAssumption DEF NumberedSockets, NumberedPackets
<1>5. /\ Reading(L, w) /\ L \in Limits /\ L.acked = {"FIN_WAIT_2"}
      /\ L.nxt = (IF a.rxNext = 2 THEN 2 ELSE 1)
      /\ L.fin = (IF Open(a) THEN -1 ELSE w + 1)
      /\ L.open = Open(b) /\ L.low = b.rxNext /\ (L.none = (b.fin = None))
      /\ L.quiet = (b.fin = None => (b.ep => b.state \in FinUnsent))
  BY <1>3, LimitsAre DEF Reading, LimitsB
<1>6. /\ Bounded(a, LimitsA(a, b, ln)) /\ Bounded(b, L) /\ ForReader(p, a)
      /\ (Open(a) => NoFin(n)) /\ (Silent(b, ln) => a.rxNext <= 1)
      /\ (ln /\ b.fin = None /\ b.ep => b.state \in {"SYN_RCVD", "ESTABLISHED"})
  BY <1>2 DEF Ranged
<1>7. Ranged(a, b, m, Tail(n), ln)
  <2>1. \A i \in DOMAIN m : \E k \in DOMAIN m : m[i] = m[k]
    OBVIOUS
  <2> QED
    BY <1>2, <2>1, RangedLess
<1>8. Reader(u, w, c)
  <2>1. CASE b.ep
    <3>1. Received(b, DoForwardUp(b, p), w, c, At(b), p)
      BY <1>1, <1>2, <1>3, <2>1, DoForwardUpReader
    <3> QED
      BY <2>1, <3>1 DEF Received
  <2>2. CASE ~b.ep /\ ln /\ p.flags = {"SYN"}
    <3>1. p.seq = 0 /\ Untouched(b)
      BY <1>1, <1>2, <2>2 DEF FromWriter, SynFirst
    <3>2. Reader(CompleteFork(p), w, c)
      BY <1>2, <1>3, <3>1, CompleteForkReader DEF Reader
    <3> QED
      BY <2>2, <3>2
  <2>3. CASE ~b.ep /\ ln /\ p.flags # {"SYN"}
    BY <1>3, <2>3
  <2>4. CASE ~b.ep /\ ~ln
    <3>1. Reader(NoEndPointsFound(b, p), w, c)
      BY <1>1, <1>3, NoEndPointsFoundReader
    <3> QED
      BY <2>4, <3>1
  <2> QED
    BY <2>1, <2>2, <2>3, <2>4
<1>9. Allowed(L, a, b, ln, ln)
  BY <1>3, <1>6, LimitsAllowed
<1> HIDE DEF p, w, L
<1>10. \E K : Allowed(K, a, b, ln, ln) /\ Bounded(u, K)
  <2>1. CASE b.ep
    <3>1. FromWriter(p, w, c, b.rxNext)
      BY <1>1, <1>2
    <3>2. p.ack <= L.nxt
      <4>1. a.rxNext <= 2
        <5>1. a.rxNext <= LimitsA(a, b, ln).rx
          BY <1>6 DEF Bounded, Numbers
        <5> QED
          BY <1>4, <5>1 DEF LimitsA
      <4> QED
        BY <1>4, <1>5, <1>6, <4>1 DEF ForReader
    <3>3. b.state = "SYN_RCVD" => p.ack <= 1
      <4>1. b.state = "SYN_RCVD" => Silent(b, ln)
        BY <1>3, <2>1 DEF Reader, ReaderState, Untouched, Silent, Open, FinUnsent
      <4> QED
        BY <1>4, <1>6, <4>1 DEF ForReader
    <3>4. "FIN" \in p.flags => L.fin = w + 1
      BY <1>2, <1>5, <1>6 DEF NoFin
    <3>5. b.state \notin {"CLOSING", "LAST_ACK", "TIME_WAIT"} => b.rxNext <= w + 1
      <4>1. b.state \in States /\ b.state \notin {"CLOSED", "SYN_SENT", "CLOSE_WAIT"}
        BY <1>3, <2>1 DEF Reader, ReaderState, NumberedSockets
      <4>2. b.state \in PeerOpen => b.rxNext <= w + 1
        BY <1>5, <1>6, <2>1 DEF Bounded, Phase, Reading
      <4> QED
        BY <4>1, <4>2 DEF States, PeerOpen
    <3>6. "FIN" \in p.flags /\ b.state \notin {"CLOSING", "LAST_ACK", "TIME_WAIT"} =>
            p.seq + p.len <= L.fin
      BY <1>4, <3>1, <3>4, <3>5 DEF FromWriter
    <3>7. ReaderHears(b, p, L, w, c)
      BY <1>2, <3>1, <3>2, <3>3, <3>6 DEF ReaderHears
    <3>8. Bounded(DoForwardUp(b, p), L)
      BY <1>3, <1>5, <1>6, <2>1, <3>7, DoForwardUpReads
    <3> QED
      BY <1>9, <2>1, <3>8
  <2>2. CASE ~b.ep /\ ln /\ p.flags = {"SYN"}
    <3>1. p.seq = 0 /\ Untouched(b)
      BY <1>1, <1>2, <2>2 DEF FromWriter, SynFirst
    <3> DEFINE K == [L EXCEPT !.open = TRUE]
    <3>2. /\ K \in Limits /\ K.open
          /\ K.nxt = L.nxt /\ K.sent = L.sent /\ K.rx = L.rx /\ K.early = L.early
          /\ K.fin = L.fin /\ K.none = L.none /\ K.low = L.low /\ K.quiet = L.quiet
          /\ K.acked = L.acked
      BY <1>5 DEF Limits
    <3> HIDE DEF K
    <3>3. Reading(K, w) /\ K.none /\ K.low <= 1
      BY <1>5, <3>1, <3>2 DEF Reading, Untouched
    <3>4. Allowed(K, a, b, ln, ln)
      BY <1>9, <2>2, <3>2 DEF Allowed, L
    <3>5. Bounded(CompleteFork(p), K)
      BY <1>2, <1>3, <3>1, <3>2, <3>3, CompleteForkBounded
    <3> QED
      BY <2>2, <3>4, <3>5
  <2>3. CASE ~b.ep /\ ln /\ p.flags # {"SYN"}
    BY <1>6, <1>9, <2>3
  <2>4. CASE ~b.ep /\ ~ln
    <3>1. Bounded(NoEndPointsFound(b, p), L)
      BY <1>5, <1>6, <2>4, NoEndPointsFoundBounded
    <3> QED
      BY <1>9, <2>4, <3>1
  <2> QED
    BY <2>1, <2>2, <2>3, <2>4
<1> HIDE DEF u
<1>11. PICK K : Allowed(K, a, b, ln, ln) /\ Bounded(u, K)
  BY <1>10
<1>12. Ranged(a, [u EXCEPT !.tx = <<>>], m \o u.tx, Tail(n), ln)
  <2> DEFINE n2 == Tail(n)
  <2>1. Ranged(a, b, m, n2, ln)
    BY <1>7
  <2>2. Reader(u, a.written, c)
    BY <1>8 DEF w
  <2>3. a.tx = <<>> /\ m \in PacketSeqs
    BY <1>1
  <2>4. Allowed(K, a, b, ln, ln) /\ Bounded(u, K)
    BY <1>11
  <2> HIDE DEF n2
  <2>5. Ranged(a, [u EXCEPT !.tx = <<>>], m \o u.tx, n2, ln)
    BY <2>1, <2>2, <2>3, <2>4, ReaderRanged
  <2> QED
    BY <2>5 DEF n2
<1> QED
  BY <1>12 DEF u, p

-----------------------------------------------------------------------------
\* The numbers of the connection, from step to step.

Between == Ranged(A, B, net["A"], net["B"], listening)

Held == ConnInv /\ Between /\ listening \in BOOLEAN

\* What the steps below need of it.
LEMMA HeldIs ==
  ASSUME Held
  PROVE  LET K == LimitsA(A, B, listening)
             L == LimitsB(A, B)
         IN  /\ Writing(K) /\ K \in Limits /\ K.acked = {"FIN_WAIT_2"} /\ ~K.quiet
             /\ Reading(L, A.written) /\ L \in Limits /\ L.acked = {"FIN_WAIT_2"}
             /\ Bounded(A, K) /\ Bounded(B, L)
             /\ [K EXCEPT !.open = Open(A)] = K /\ Open(A) \in BOOLEAN
             /\ Allowed(L, A, B, listening, listening)
<1> DEFINE K == LimitsA(A, B, listening)
           L == LimitsB(A, B)
<1>1. A \in NumberedSockets /\ B \in NumberedSockets
  BY ConnInvIs DEF Held
<1>2. /\ Bounded(A, K) /\ Bounded(B, L)
      /\ listening /\ B.fin = None /\ B.ep => B.state \in {"SYN_RCVD", "ESTABLISHED"}
  BY DEF Held, Between, Ranged
<1>3. Allowed(L, A, B, listening, listening)
  <2>1. listening \in BOOLEAN
    BY DEF Held
  <2> QED
    BY <1>1, <1>2, <2>1, LimitsAllowed
<1>4. /\ Writing(K) /\ K \in Limits /\ K.acked = {"FIN_WAIT_2"} /\ ~K.quiet
      /\ Reading(L, A.written) /\ L \in Limits /\ L.acked = {"FIN_WAIT_2"}
  BY <1>1, LimitsAre DEF Held, Writing, Reading
<1>5. K.open = Open(A) /\ Open(A) \in BOOLEAN
  BY <1>1 DEF LimitsA, Open, NumberedSockets
<1>6. [K EXCEPT !.open = Open(A)] = K
  <2> HIDE DEF K
  <2> QED
    BY <1>4, <1>5, SameLimits
<1> QED
  BY <1>1, <1>2, <1>3, <1>4, <1>5, <1>6

\* The end of a handler of the writer.
LEMMA WriterBetween ==
  ASSUME Held, NEW u, Handled("A", u), listening' = listening, NEW o \in BOOLEAN,
         Bounded(u, [LimitsA(A, B, listening) EXCEPT !.open = o]),
         o => Open(A) \/ (B.fin = None /\ NoFin(net["B"])), u.written = A.written
  PROVE  Between'
<1> DEFINE v == [u EXCEPT !.tx = <<>>]
           z == net["B"] \o u.tx
<1>1. /\ sock' = [sock EXCEPT !["A"] = v]
      /\ net' = [net EXCEPT !["B"] = z]
  BY DEF Handled, Peer
<1>2. Ranged(v, B, net["A"], z, listening)
  <2>1. /\ B.tx = <<>> /\ net["B"] \in PacketSeqs
        /\ Ranged(A, B, net["A"], net["B"], listening) /\ listening \in BOOLEAN
    BY ConnInvIs DEF Held, Between
  <2> QED
    BY <2>1, WriterRanged
<1> HIDE DEF v, z
<1>3. A' = v /\ B' = B /\ net'["A"] = net["A"] /\ net'["B"] = z
  BY <1>1 DEF Held, ConnInv, Ends, A, B
<1> QED
  BY <1>2, <1>3 DEF Between

\* and of one that sends no FIN and opens nothing.
LEMMA WriterStays ==
  ASSUME Held, NEW u, Handled("A", u), listening' = listening,
         Bounded(u, LimitsA(A, B, listening)), u.written = A.written
  PROVE  Between'
<1> DEFINE o == Open(A)
<1>1. o \in BOOLEAN /\ Bounded(u, [LimitsA(A, B, listening) EXCEPT !.open = o])
  BY HeldIs
<1>2. o => Open(A) \/ (B.fin = None /\ NoFin(net["B"]))
  OBVIOUS
<1> HIDE DEF o
<1> QED
  BY <1>1, <1>2, WriterBetween

\* The end of a handler of the reader.
LEMMA ReaderBetween ==
  ASSUME Held, NEW u, Handled("B", u), NEW L,
         Allowed(L, A, B, listening, listening'), Bounded(u, L),
         Reader(u, A.written, closes)
  PROVE  Between'
<1> DEFINE v == [u EXCEPT !.tx = <<>>]
           z == net["A"] \o u.tx
<1>1. /\ sock' = [sock EXCEPT !["B"] = v]
      /\ net' = [net EXCEPT !["A"] = z]
  BY DEF Handled, Peer
<1>2. Ranged(A, v, z, net["B"], listening')
  <2>1. /\ A.tx = <<>> /\ net["A"] \in PacketSeqs
        /\ Ranged(A, B, net["A"], net["B"], listening)
    BY ConnInvIs DEF Held, Between
  <2> QED
    BY <2>1, ReaderRanged
<1> HIDE DEF v, z
<1>3. A' = A /\ B' = v /\ net'["B"] = net["B"] /\ net'["A"] = z
  BY <1>1 DEF Held, ConnInv, Ends, A, B
<1> QED
  BY <1>2, <1>3 DEF Between

\* and of one that is held to the reader's own limits.
LEMMA ReaderStays ==
  ASSUME Held, NEW u, Handled("B", u), listening' = listening,
         Bounded(u, LimitsB(A, B)), Reader(u, A.written, closes)
  PROVE  Between'
<1>1. Allowed(LimitsB(A, B), A, B, listening, listening')
  BY HeldIs
<1> QED
  BY <1>1, ReaderBetween

\* Two new sockets.
LEMMA InitHeld == Init => Held
<1> SUFFICES ASSUME Init
             PROVE  Held
  OBVIOUS
<1>1. /\ sock = [x \in Ends |-> NewSocket] /\ net = [x \in Ends |-> <<>>]
      /\ listening = TRUE
  BY DEF Init
<1>2. A = NewSocket /\ B = NewSocket /\ net["A"] = <<>> /\ net["B"] = <<>>
  BY <1>1 DEF A, B, Ends
<1> DEFINE t == NewSocket
<1>3. /\ t \in NumberedSockets /\ ~t.ep /\ t.retx = {} /\ ~t.lastAck /\ t.tx = <<>>
      /\ t.nxt = 0 /\ t.head = 0 /\ t.recover = 0 /\ t.rxNext = 0 /\ t.fin = None
      /\ t.written = 0
  BY NewSocketIs DEF NewSocket
<1> HIDE DEF t
<1> DEFINE ln == TRUE
<1>4. ~Open(t) /\ Silent(t, ln) /\ N \in Nat /\ ln \in BOOLEAN
  BY <1>3, TxBufferAssumption DEF Open, Silent
<1> DEFINE K == LimitsA(t, t, ln)
           L == LimitsB(t, t)
           z == <<>>
<1>5. /\ K.nxt = N + 2 /\ K.low = 0 /\ K.rx = 1 /\ K.early = 1 /\ K.fin = 1
      /\ K.sent = N + 2 /\ K.none = TRUE
  BY <1>3, <1>4 DEF LimitsA
<1>6. /\ L.nxt = (IF t.rxNext = 2 THEN 2 ELSE 1) /\ L.low = t.rxNext
      /\ L.rx = t.written + 2 /\ L.early = t.written + 1
      /\ L.fin = (IF Open(t) THEN -1 ELSE t.written + 1) /\ L.sent = 1
      /\ L.none = (t.fin = None)
  BY DEF LimitsB
<1>7. NoFin(z) /\ DOMAIN z = {}
  BY DEF NoFin
<1> HIDE DEF K, L, z, ln
<1>8. NoFin(t.tx) /\ \A P : \A i \in DOMAIN t.tx : PacketNumbers(t.tx[i], t, P)
  BY <1>3 DEF NoFin
<1>9. Bounded(t, K)
  BY <1>3, <1>4, <1>5, <1>8 DEF Bounded, Numbers, Phase, None
<1>10. Bounded(t, L)
  <2>1. L.nxt = 1 /\ L.low = 0 /\ L.rx = 2 /\ L.early = 1 /\ L.fin = 1 /\ L.sent = 1
    BY <1>3, <1>4, <1>6
  <2>2. t.fin = None => L.none
    BY <1>6
  <2> QED
    BY <1>3, <1>4, <1>8, <2>1, <2>2 DEF Bounded, Numbers, Phase, None
<1>11. Ranged(t, t, z, z, ln)
  <2>1. Silent(t, ln) => t.rxNext <= 1 /\ NoFin(z)
    BY <1>3, <1>7
  <2>2. ln /\ t.fin = None /\ t.ep => t.state \in {"SYN_RCVD", "ESTABLISHED"}
    BY <1>3
  <2>3. /\ \A i \in DOMAIN z : ForReader(z[i], t)
        /\ \A i \in DOMAIN z : ForWriter(z[i], t, t)
    BY <1>7
  <2> QED
    BY <1>4, <1>9, <1>10, <2>1, <2>2, <2>3 DEF Ranged, K, L
<1> QED
  BY <1>1, <1>2, <1>11, InitConn DEF Held, Between, t, z, ln

\* The path keeps what it still holds.
LEMMA LoseBetween ==
  ASSUME Held, NEW x \in Ends, Lose(x)
  PROVE  Between'
<1> DEFINE m == net["A"]
           n == net["B"]
<1>1. /\ net[x] # <<>> /\ sock' = sock /\ listening' = listening
      /\ net' = [net EXCEPT ![x] = Tail(@)]
  BY DEF Lose
<1>2. A' = A /\ B' = B /\ m \in PacketSeqs /\ n \in PacketSeqs
  BY <1>1, ConnInvIs DEF A, B, Held
<1>3. Ranged(A, B, m, n, listening)
  BY DEF Held, Between
<1>4. CASE x = "A"
  <2>1. m # <<>> /\ net'["A"] = Tail(m) /\ net'["B"] = n
    BY <1>1, <1>4 DEF Held, ConnInv, Ends
  <2> HIDE DEF m, n
  <2>2. \A i \in DOMAIN Tail(m) : \E k \in DOMAIN m : Tail(m)[i] = m[k]
    BY <1>2, <2>1, TailIs
  <2>3. \A i \in DOMAIN n : \E k \in DOMAIN n : n[i] = n[k]
    OBVIOUS
  <2>4. Ranged(A, B, Tail(m), n, listening)
    BY <1>3, <2>2, <2>3, RangedLess
  <2> QED
    BY <1>1, <1>2, <2>1, <2>4 DEF Between
<1>5. CASE x = "B"
  <2>1. n # <<>> /\ net'["B"] = Tail(n) /\ net'["A"] = m
    BY <1>1, <1>5 DEF Held, ConnInv, Ends
  <2> DEFINE z == Tail(n)
  <2>2. \A i \in DOMAIN z : \E k \in DOMAIN n : z[i] = n[k]
    <3> HIDE DEF n
    <3> QED
      BY <1>2, <2>1, TailIs
  <2>3. \A i \in DOMAIN m : \E k \in DOMAIN m : m[i] = m[k]
    OBVIOUS
  <2> HIDE DEF m, n, z
  <2>4. Ranged(A, B, m, z, listening)
    BY <1>3, <2>2, <2>3, RangedLess
  <2> QED
    BY <1>1, <1>2, <2>1, <2>4 DEF Between, z
<1> QED
  BY <1>4, <1>5 DEF Ends

\* m_lastAckEvent, which only the reader has.
LEMMA LastAckBetween ==
  ASSUME Held, NEW x \in Ends, LastAckExpires(x)
  PROVE  Between'
<1>1. /\ Writer(A, closes, B.rxNext, A.head) /\ Reader(B, A.written, closes)
      /\ closes \in Nat /\ A.written \in 0..N /\ Told(At(B), B)
  BY ConnInvIs DEF Held
<1>2. x = "B" /\ B.lastAck /\ listening' = listening
  BY <1>1 DEF LastAckExpires, Ends, Writer, WriterData, A, B
<1> DEFINE u == LastAckTimeout(B)
<1>3. Handled("B", u)
  BY <1>2 DEF LastAckExpires, B
<1>4. Reader(u, A.written, closes)
  BY <1>1, <1>2, LastAckReader
<1>5. Bounded(u, LimitsB(A, B))
  BY <1>2, HeldIs, LastAckBounded
<1> HIDE DEF u
<1> QED
  BY <1>2, <1>3, <1>4, <1>5, ReaderStays

\* m_delAckEvent.
LEMMA DelAckBetween ==
  ASSUME Held, NEW x \in Ends, DelAckExpires(x)
  PROVE  Between'
<1>1. /\ Reader(B, A.written, closes)
      /\ closes \in Nat /\ A.written \in 0..N /\ Told(At(B), B)
      /\ sock["A"] = A /\ sock["B"] = B
  BY ConnInvIs DEF Held
<1>2. Handled(x, SendEmptyPacket(sock[x], {"ACK"})) /\ listening' = listening
  BY DEF DelAckExpires
<1>3. {"ACK"} \in {{"ACK"}, {"RST"}}
  OBVIOUS
<1>4. CASE x = "A"
  <2> DEFINE u == SendEmptyPacket(A, {"ACK"})
  <2>1. Bounded(u, LimitsA(A, B, listening)) /\ Sending(A, u)
    BY <1>3, HeldIs, SendPlainBounded
  <2>2. Handled("A", u)
    BY <1>1, <1>2, <1>4
  <2> HIDE DEF u
  <2>3. u.written = A.written
    BY <2>1 DEF Sending, SameData
  <2> QED
    BY <1>2, <2>1, <2>2, <2>3, WriterStays
<1>5. CASE x = "B"
  <2> DEFINE u == SendEmptyPacket(B, {"ACK"})
  <2>1. Bounded(u, LimitsB(A, B))
    BY <1>3, HeldIs, SendPlainBounded
  <2>2. Reader(u, A.written, closes)
    BY <1>1, SendAckReader
  <2>3. Handled("B", u)
    BY <1>1, <1>2, <1>5
  <2> HIDE DEF u
  <2> QED
    BY <1>2, <2>1, <2>2, <2>3, ReaderStays
<1> QED
  BY <1>4, <1>5 DEF Ends

\* The end of TIME_WAIT.
LEMMA TimeWaitBetween ==
  ASSUME Held, NEW x \in Ends, TimeWaitExpires(x)
  PROVE  Between'
<1>1. /\ Reader(B, A.written, closes)
      /\ closes \in Nat /\ A.written \in 0..N /\ Told(At(B), B)
      /\ sock["A"] = A /\ sock["B"] = B
      /\ Writer(A, closes, B.rxNext, A.head)
  BY ConnInvIs DEF Held
<1>2. Handled(x, CloseAndNotify(sock[x])) /\ listening' = listening
  BY DEF TimeWaitExpires
<1>3. CASE x = "A"
  <2> DEFINE u == CloseAndNotify(A)
  <2>1. Bounded(u, LimitsA(A, B, listening))
    BY HeldIs, DeallocateBounded DEF Bounded
  <2>2. SameData(A, u)
    BY <1>1, CloseAndNotifyWriter DEF Writer
  <2>3. Handled("A", u)
    BY <1>1, <1>2, <1>3
  <2> HIDE DEF u
  <2>4. u.written = A.written
    BY <2>2 DEF SameData
  <2> QED
    BY <1>2, <2>1, <2>3, <2>4, WriterStays
<1>4. CASE x = "B"
  <2> DEFINE u == CloseAndNotify(B)
  <2>1. Bounded(u, LimitsB(A, B))
    BY HeldIs, DeallocateBounded DEF Bounded
  <2>2. Reader(u, A.written, closes)
    BY <1>1, CloseAndNotifyReader DEF Reader
  <2>3. Handled("B", u)
    BY <1>1, <1>2, <1>4
  <2> HIDE DEF u
  <2> QED
    BY <1>2, <2>1, <2>2, <2>3, ReaderStays
<1> QED
  BY <1>3, <1>4 DEF Ends

\* A packet that reaches the writer.
LEMMA ReceiveABetween ==
  ASSUME Held, Receive("A")
  PROVE  Between'
<1> DEFINE m == net["A"]
           n == net["B"]
           u == IF A.ep THEN DoForwardUp(A, Head(m)) ELSE NoEndPointsFound(A, Head(m))
           v == [u EXCEPT !.tx = <<>>]
           z == n \o u.tx
<1>1. /\ closes \in Nat /\ Linked(A, B, m, n, closes)
      /\ sock["A"] = A /\ listening \in BOOLEAN
  BY ConnInvIs DEF Held
<1>2. m # <<>> /\ listening' = listening
  BY DEF Receive
<1>3. Ranged(v, B, Tail(m), z, listening)
  <2>1. Ranged(A, B, m, n, listening)
    BY DEF Held, Between
  <2> HIDE DEF m, n
  <2> QED
    BY <1>1, <1>2, <2>1, ReceiveWriterRanged
<1>4. /\ sock' = [sock EXCEPT !["A"] = v]
      /\ net' = [net EXCEPT !["A"] = Tail(m), !["B"] = z]
  <2>1. CASE A.ep
    BY <1>1, <2>1 DEF Receive, Peer
  <2>2. CASE ~A.ep
    BY <1>1, <2>2 DEF Receive, Peer
  <2> QED
    BY <2>1, <2>2
<1> HIDE DEF v, z, u
<1>5. A' = v /\ B' = B /\ net'["A"] = Tail(m) /\ net'["B"] = z
  BY <1>4 DEF Held, ConnInv, Ends, A, B
<1> QED
  BY <1>2, <1>3, <1>5 DEF Between

\* A packet that reaches the reader, the listener, or none.
LEMMA ReceiveBBetween ==
  ASSUME Held, Receive("B")
  PROVE  Between'
<1> DEFINE m == net["A"]
           n == net["B"]
           p == Head(n)
           u == IF B.ep THEN DoForwardUp(B, p)
                ELSE IF listening THEN IF p.flags = {"SYN"} THEN CompleteFork(p) ELSE B
                ELSE NoEndPointsFound(B, p)
           v == [u EXCEPT !.tx = <<>>]
           z == m \o u.tx
<1>1. /\ closes \in Nat /\ Linked(A, B, m, n, closes)
      /\ sock["B"] = B /\ listening \in BOOLEAN
  BY ConnInvIs DEF Held
<1>2. n # <<>> /\ listening' = listening
  BY DEF Receive
<1>3. Ranged(A, v, z, Tail(n), listening)
  <2>1. Ranged(A, B, m, n, listening)
    BY DEF Held, Between
  <2> HIDE DEF m, n
  <2> QED
    BY <1>1, <1>2, <2>1, ReceiveReaderRanged
<1>4. /\ sock' = [sock EXCEPT !["B"] = v]
      /\ net' = [net EXCEPT !["B"] = Tail(n), !["A"] = z]
  <2>1. CASE B.ep
    BY <1>1, <2>1 DEF Receive, Peer
  <2>2. CASE ~B.ep /\ listening
    BY <1>1, <2>2 DEF Receive, Peer
  <2>3. CASE ~B.ep /\ ~listening
    BY <1>1, <2>3 DEF Receive, Peer
  <2> QED
    BY <2>1, <2>2, <2>3
<1> HIDE DEF v, z, u
<1>5. A' = A /\ B' = v /\ net'["B"] = Tail(n) /\ net'["A"] = z
  BY <1>4 DEF Held, ConnInv, Ends, A, B
<1> QED
  BY <1>2, <1>3, <1>5 DEF Between

\* Connect: the writer has its FIN to send, and the reader has noted none.
LEMMA ConnectBetween ==
  ASSUME Held, Connect
  PROVE  Between'
<1> DEFINE t == [A EXCEPT !.ep = TRUE]
           s == SendEmptyPacket(t, {"SYN"})
           u == [s EXCEPT !.state = "SYN_SENT"]
           o == TRUE
           L == [LimitsA(A, B, listening) EXCEPT !.open = o]
           asked == {"SYN"}
<1>1. /\ A = NewSocket /\ Handled("A", u) /\ listening' = listening
      /\ A \in NumberedSockets /\ B \in NumberedSockets
      /\ Linked(A, B, net["A"], net["B"], closes)
  BY ConnInvIs DEF Connect, A, Held
<1>2. /\ A.state = "CLOSED" /\ A.retx = {} /\ ~A.lastAck /\ A.tx = <<>> /\ A.nxt = 0
      /\ A.head = 0 /\ A.recover = 0 /\ A.rxNext = 0 /\ A.fin = None
      /\ A.synCount = SynRetries /\ A.written = 0
  BY <1>1 DEF NewSocket
<1>3. /\ t \in NumberedSockets /\ t.ep /\ t.synCount # 0 /\ t.state = "CLOSED"
      /\ t.retx = {} /\ ~t.lastAck /\ t.tx = <<>> /\ t.nxt = 0
      /\ t.head = 0 /\ t.recover = 0 /\ t.rxNext = 0 /\ t.fin = None /\ t.written = 0
  BY <1>1, <1>2, ConnectionAssumption DEF NumberedSockets
<1>4. N \in Nat /\ o \in BOOLEAN /\ o
  BY TxBufferAssumption
<1>5. L \in Limits
  <2>1. listening \in BOOLEAN
    BY DEF Held
  <2> HIDE DEF o
  <2> QED
    BY <1>1, <1>4, <2>1, LimitsAre
<1>6. /\ L.nxt = N + 2 /\ L.low = 0 /\ L.rx >= 1 /\ L.early = 1 /\ L.fin = 1
      /\ L.sent = N + 2 /\ L.none /\ ~L.quiet /\ L.open
  BY <1>2 DEF LimitsA
<1>7. /\ asked \in Asked /\ "SYN" \in asked /\ "FIN" \notin asked
      /\ asked \notin {{"ACK"}, {"RST"}}
  BY DEF Asked
<1>8. B.fin = None /\ NoFin(net["B"])
  BY <1>1, <1>2 DEF Linked, SynFirst, Untouched, Harmless, NoFin
<1> HIDE DEF t, L, o
<1>9. NoFin(t.tx) /\ Numbers(t, L)
  <2>1. NoFin(t.tx) /\ \A i \in DOMAIN t.tx : PacketNumbers(t.tx[i], t, L)
    BY <1>3 DEF NoFin
  <2>2. L.rx \in Nat
    BY <1>5 DEF Limits
  <2> QED
    BY <1>3, <1>4, <1>6, <2>1, <2>2 DEF Numbers, None
<1>10. /\ Numbers(s, L) /\ Sending(t, s) /\ NoFin(s.tx) /\ s.retx = asked
  <2>1. t.state \in Handshake \cup {"CLOSED"}
    BY <1>3
  <2> DEFINE flags == IF "FIN" \in asked THEN {"FIN", "ACK"} ELSE asked
  <2>2. flags = asked
    BY <1>7
  <2> HIDE DEF asked
  <2>3. LET v == SendEmptyPacket(t, asked)
        IN  /\ Numbers(v, L) /\ Sending(t, v)
            /\ v.retx = IF t.ep /\ t.retx = {} /\ flags \notin {{"ACK"}, {"RST"}}
                        THEN flags ELSE t.retx
            /\ "FIN" \notin asked /\ NoFin(t.tx) => NoFin(v.tx)
    BY <1>3, <1>5, <1>7, <1>9, <2>1, SendNumbers
  <2> HIDE DEF flags
  <2> QED
    BY <1>3, <1>7, <1>9, <2>2, <2>3 DEF asked
<1>11. s \in NumberedSockets
  BY <1>10 DEF Numbers
<1> HIDE DEF s
<1>12. /\ u \in NumberedSockets /\ SameNumbers(s, u) /\ u.state = "SYN_SENT"
       /\ u.retx = s.retx /\ u.lastAck = s.lastAck /\ u.written = s.written
       /\ u.rxNext = s.rxNext /\ u.nxt = s.nxt /\ u.tx = s.tx
  BY <1>11 DEF NumberedSockets, States, SameNumbers
<1> HIDE DEF u
<1>13. Numbers(u, L)
  BY <1>10, <1>12, AlikeNumbers
<1>14. /\ u.written = A.written /\ u.rxNext = 0 /\ u.nxt = 0 /\ ~u.lastAck
       /\ u.retx = asked /\ NoFin(u.tx)
  BY <1>2, <1>3, <1>10, <1>12 DEF Sending, SameData
<1>15. Phase(u, L)
  BY <1>4, <1>6, <1>7, <1>12, <1>14 DEF Phase, Handshake, FinUnsent
<1>16. Bounded(u, [LimitsA(A, B, listening) EXCEPT !.open = o])
  BY <1>13, <1>15 DEF Bounded, L
<1> QED
  BY <1>1, <1>4, <1>8, <1>14, <1>16, WriterBetween

\* Send: the reader may expect one segment more.
LEMMA SendBetween ==
  ASSUME Held, Send
  PROVE  Between'
<1> DEFINE pend == A.pend \/ InFlight(A.buf) < A.cwnd
           v == [A EXCEPT !.written = @ + 1, !.pend = pend]
           m == net["A"]
           n == net["B"]
           w == A.written
<1>1. /\ closes = 0 /\ w < N /\ net' = net /\ listening' = listening
      /\ sock' = [sock EXCEPT !["A"].written = @ + 1,
                              !["A"].pend = @ \/ InFlight(A.buf) < A.cwnd]
  BY DEF Send, A
<1>2. /\ A \in NumberedSockets /\ B \in NumberedSockets /\ w \in 0..N /\ N \in Nat
      /\ Reader(B, w, closes) /\ B.tx = <<>> /\ B.rxNext \in Nat
  BY ConnInvIs, TxBufferAssumption DEF Held
<1>3. pend \in BOOLEAN
  BY <1>2 DEF NumberedSockets
<1>4. sock' = [sock EXCEPT !["A"] = v]
  BY <1>1, <1>2 DEF Held, ConnInv, Ends, A, NumberedSockets
<1>5. v = [A EXCEPT !.written = w + 1, !.pend = pend] /\ w + 1 \in Amounts
  BY <1>1, <1>2 DEF Amounts
<1> HIDE DEF pend, v
<1>6. A' = v /\ B' = B /\ net' = net
  BY <1>1, <1>4 DEF Held, ConnInv, Ends, A, B
<1>7. /\ v \in NumberedSockets /\ SameNumbers(A, v) /\ SamePhase(A, v)
      /\ v.written = w + 1 /\ v.rxNext = A.rxNext /\ v.ep = A.ep /\ v.state = A.state
  BY <1>2, <1>3, <1>5 DEF NumberedSockets, SameNumbers, SamePhase
<1>8. B.fin = None
  BY <1>1, <1>2 DEF Reader, ReaderData
<1>9. /\ Bounded(A, LimitsA(A, B, listening)) /\ Bounded(B, LimitsB(A, B))
      /\ Open(A) => B.fin = None /\ NoFin(n)
      /\ Silent(B, listening) => A.rxNext <= 1 /\ NoFin(m)
      /\ listening /\ B.fin = None /\ B.ep => B.state \in {"SYN_RCVD", "ESTABLISHED"}
      /\ \A i \in DOMAIN n : ForReader(n[i], A)
      /\ \A i \in DOMAIN m : ForWriter(m[i], A, B)
  BY DEF Held, Between, Ranged
<1>10. Open(v) = Open(A)
  BY <1>7 DEF Open
<1>11. Bounded(v, LimitsA(v, B, listening))
  <2>1. LimitsA(v, B, listening) = LimitsA(A, B, listening)
    BY <1>7, <1>10 DEF LimitsA
  <2> QED
    BY <1>7, <1>9, <2>1, AlikeBounded
<1>12. Bounded(B, LimitsB(v, B))
  <2> DEFINE P == LimitsB(A, B)
             Q == LimitsB(v, B)
  <2>1. /\ P.nxt = (IF A.rxNext = 2 THEN 2 ELSE 1) /\ P.rx = w + 2
        /\ P.early = w + 1 /\ P.sent = 1 /\ P.acked = {"FIN_WAIT_2"} /\ P.low = B.rxNext
        /\ Q.nxt = (IF A.rxNext = 2 THEN 2 ELSE 1) /\ Q.rx = w + 1 + 2
        /\ Q.early = w + 1 + 1 /\ Q.fin = (IF Open(v) THEN -1 ELSE w + 1 + 1)
        /\ Q.sent = 1 /\ Q.acked = {"FIN_WAIT_2"} /\ Q.low = B.rxNext
        /\ Q.open = Open(B) /\ (Q.none = (B.fin = None))
        /\ Q.quiet = (B.fin = None => (B.ep => B.state \in FinUnsent))
    BY <1>7 DEF LimitsB
  <2> HIDE DEF P, Q
  <2>2. P \in Limits /\ Q \in Limits /\ Bounded(B, P)
    <3>1. listening \in BOOLEAN
      BY DEF Held
    <3> QED
      BY <1>2, <1>7, <1>9, <3>1, LimitsAre DEF P, Q, Reading
  <2>3. B.rxNext <= P.rx
    BY <2>2 DEF Bounded, Numbers
  <2>4. P.nxt <= Q.nxt /\ P.early <= Q.early /\ Q.low <= B.rxNext /\ B.rxNext <= Q.rx
        /\ B.fin <= Q.fin
    BY <1>2, <1>8, <2>1, <2>3 DEF None
  <2>5. LET d == [B EXCEPT !.tx = <<>>] IN Bounded(d, Q)
    BY <2>1, <2>2, <2>4, ForgottenBounded
  <2> QED
    BY <1>2, <2>5, NothingSent DEF Q
<1>13. \A i \in DOMAIN n : ForReader(n[i], v)
  BY <1>7, <1>9 DEF ForReader
<1>14. \A i \in DOMAIN m : ForWriter(m[i], v, B)
  BY <1>7, <1>9 DEF ForWriter
<1>15. Ranged(v, B, m, n, listening)
  BY <1>7, <1>9, <1>10, <1>11, <1>12, <1>13, <1>14 DEF Ranged
<1> QED
  BY <1>1, <1>6, <1>15 DEF Between

\* m_sendPendingDataEvent.
LEMMA SendPendingBetween ==
  ASSUME Held, SendPending
  PROVE  Between'
<1> DEFINE s == SendPendingData(A)
           u == [s EXCEPT !.pend = FALSE]
           L == LimitsA(A, B, listening)
<1>1. Handled("A", u) /\ listening' = listening
  BY DEF SendPending, A
<1>2. /\ closes \in Nat /\ A \in NumberedSockets /\ B.rxNext \in Nat /\ A.head \in Nat
      /\ A.buf.una \in Nat /\ Writer(A, closes, B.rxNext, A.head)
  BY ConnInvIs DEF Held
<1>3. Writing(L) /\ Bounded(A, L)
  BY HeldIs
<1>4. Bounded(s, L) /\ s.written = A.written
  <2>1. CASE A.head = 0
    <3>1. A.written = 0
      BY <1>2, <2>1 DEF Writer, WriterData
    <3>2. ~(Size(A) > 0)
      BY <1>2, <3>1 DEF Size
    <3>3. s = A
      BY <3>2, SendPendingDataIdle
    <3> QED
      BY <1>3, <3>3
  <2>2. CASE A.head # 0
    <3>1. SameAcked(A, s)
      BY <1>2, <2>2, SendPendingDataWriter DEF Writer
    <3>2. A.state \notin Handshake /\ GoodBuffer(A.buf)
      BY <1>2, <2>2 DEF Writer, WriterData, Handshake
    <3>3. Bounded(s, L)
      BY <1>3, <3>2, SendPendingBounded
    <3> QED
      BY <3>1, <3>3 DEF SameAcked
  <2> QED
    BY <2>1, <2>2
<1> HIDE DEF s, L
<1>5. s \in NumberedSockets
  BY <1>4 DEF Bounded, Numbers
<1>6. /\ u \in NumberedSockets /\ SameNumbers(s, u) /\ SamePhase(s, u)
      /\ u.written = s.written
  BY <1>5 DEF NumberedSockets, SameNumbers, SamePhase
<1> HIDE DEF u
<1>7. Bounded(u, L) /\ u.written = A.written
  BY <1>4, <1>6, AlikeBounded
<1> QED
  BY <1>1, <1>7, WriterStays DEF L

\* Close, by the writer's application.
LEMMA CloseABetween ==
  ASSUME Held, CloseA
  PROVE  Between'
<1> DEFINE u == Close(A)
<1>1. Handled("A", u) /\ listening' = listening
  BY DEF CloseA, A
<1>2. /\ closes \in Nat /\ B.rxNext \in Nat
      /\ Writer(A, closes + 1, B.rxNext, A.head)
  BY ConnInvIs DEF Held
<1>3. closes + 1 > 0
  BY <1>2
<1>4. u.written = A.written
  BY <1>2, <1>3, CloseWriter
<1>5. Bounded(u, LimitsA(A, B, listening))
  <2> DEFINE L == LimitsA(A, B, listening)
  <2>1. L \in Limits /\ Bounded(A, L) /\ ~L.quiet
    BY HeldIs
  <2> HIDE DEF L
  <2>2. Bounded(Close(A), L)
    BY <2>1, CloseBounded
  <2> QED
    BY <2>2 DEF L
<1> HIDE DEF u
<1> QED
  BY <1>1, <1>4, <1>5, WriterStays

\* StopApplication at the sink: with the listener gone the reader may close.
LEMMA StopSinkBetween ==
  ASSUME Held, StopSink
  PROVE  Between'
<1> DEFINE u == IF B.app THEN Close(B) ELSE B
           K == LimitsB(A, B)
           L == [K EXCEPT !.quiet = FALSE]
           l2 == FALSE
<1>1. Handled("B", u) /\ listening' = l2 /\ listening /\ listening \in BOOLEAN
  BY DEF StopSink, B, Held
<1>2. /\ closes \in Nat /\ A.written \in 0..N
      /\ Reader(B, A.written, closes) /\ Told(At(B), B)
  BY ConnInvIs DEF Held
<1>3. K \in Limits /\ Bounded(B, K) /\ Allowed(K, A, B, listening, listening)
  BY HeldIs
<1> HIDE DEF K
<1>4. /\ L \in Limits /\ ~L.quiet
      /\ L.nxt = K.nxt /\ L.low = K.low /\ L.rx = K.rx /\ L.early = K.early
      /\ L.fin = K.fin /\ L.sent = K.sent /\ L.acked = K.acked
      /\ L.open = K.open /\ L.none = K.none
  BY <1>3 DEF Limits
<1>5. l2 \in BOOLEAN /\ ~l2
  OBVIOUS
<1> HIDE DEF L, l2
<1>6. Bounded(B, L)
  <2>1. ASSUME NEW p, PacketNumbers(p, B, K)
        PROVE  PacketNumbers(p, B, L)
    BY <1>4, <2>1 DEF PacketNumbers
  <2>2. Numbers(B, L)
    BY <1>3, <1>4, <2>1 DEF Bounded, Numbers
  <2>3. Phase(B, L)
    BY <1>3, <1>4 DEF Bounded, Phase
  <2> QED
    BY <2>2, <2>3 DEF Bounded
<1>7. Reader(u, A.written, closes) /\ Bounded(u, L)
  <2>1. CASE B.app
    <3>1. Bounded(Close(B), L)
      BY <1>4, <1>6, CloseBounded
    <3> QED
      BY <1>2, <2>1, <3>1, CloseReader
  <2>2. CASE ~B.app
    BY <1>2, <1>6, <2>2
  <2> QED
    BY <2>1, <2>2
<1>8. Allowed(L, A, B, listening, listening')
  <2>1. Allowed(L, A, B, listening, l2)
    BY <1>1, <1>3, <1>4, <1>5 DEF Allowed
  <2> QED
    BY <1>1, <2>1
<1> HIDE DEF u
<1> QED
  BY <1>1, <1>7, <1>8, ReaderBetween

\* m_retxEvent at the writer.
LEMMA RetxABetween ==
  ASSUME Held, RetxExpires("A")
  PROVE  Between'
<1> DEFINE t == [A EXCEPT !.retx = {}]
           u == IF A.retx = {"RTO"} THEN ReTxTimeout(t) ELSE SendEmptyPacket(t, A.retx)
           L == LimitsA(A, B, listening)
<1>1. A.retx # {} /\ Handled("A", u) /\ listening' = listening
  BY DEF RetxExpires, A
<1>2. /\ closes \in Nat /\ Linked(A, B, net["A"], net["B"], closes)
      /\ A \in NumberedSockets /\ B.rxNext \in Nat /\ A.head \in Nat
      /\ Writer(A, closes, B.rxNext, A.head) /\ A.tx = <<>> /\ A.buf.una \in Nat
      /\ A.written \in 0..N /\ N \in Nat
  BY ConnInvIs, TxBufferAssumption DEF Held
<1>3. Bounded(u, L)
  <2>1. /\ Writing(L) /\ L \in Limits /\ L.acked = {"FIN_WAIT_2"} /\ Bounded(A, L)
    BY HeldIs
  <2>2. A.ep /\ GoodBuffer(A.buf) /\ A.buf.high <= A.written
    BY <1>1, <1>2 DEF Writer, WriterData
  <2>3. Size(A) # 0 => A.state \notin Handshake
    <3>1. CASE A.head = 0
      <4>1. A.written = 0 /\ A.buf.una <= A.buf.high /\ A.buf.high \in Nat
        BY <1>2, <2>2, <3>1 DEF Writer, WriterData, GoodBuffer, Buffers
      <4> QED
        BY <1>2, <2>2, <4>1 DEF Size
    <3>2. CASE A.head # 0
      BY <1>2, <3>2 DEF Writer, WriterData, Handshake
    <3> QED
      BY <3>1, <3>2
  <2> HIDE DEF L
  <2> QED
    BY <1>1, <2>1, <2>2, <2>3, RetxBounded
<1>4. u.written = A.written
  <2>1. CASE A.retx = {"SYN"}
    <3> DEFINE s == SendEmptyPacket(t, {"SYN"})
               v == [s EXCEPT !.state = IF s.ep THEN "SYN_SENT" ELSE @]
    <3>1. A.state = "SYN_SENT" /\ A.ep /\ A.head = 0 /\ A.nxt = 0 /\ A.written = 0
          /\ GoodBuffer(A.buf) /\ A.buf.high <= A.written /\ ~A.shut /\ ~A.lastAck
          /\ (A.onEmpty => closes > 0)
      BY <1>2, <2>1 DEF Writer, WriterData
    <3>2. t \in NumberedSockets
      BY <1>2, Values DEF NumberedSockets
    <3>3. SynReady(t, closes) /\ SameAcked(A, t) /\ t.state = "SYN_SENT"
      BY <1>2, <3>1 DEF NumberedSockets, SameAcked, SynReady
    <3> HIDE DEF t
    <3>4. SameAcked(A, v) /\ v = s
      <4>1. closes \in Nat /\ Linked(A, B, net["A"], net["B"], closes)
        BY <1>2
      <4> QED
        BY <3>2, <3>3, <4>1, LinkedSyn
    <3>5. u = s
      <4>1. {"SYN"} # {"RTO"}
        OBVIOUS
      <4> QED
        BY <2>1, <4>1
    <3> HIDE DEF s, u, v
    <3> QED
      BY <3>4, <3>5 DEF SameAcked
  <2>2. CASE A.retx # {"SYN"}
    <3>1. SameAcked(A, u)
      BY <1>1, <1>2, <2>2, RetxWriter
    <3> HIDE DEF u
    <3> QED
      BY <3>1 DEF SameAcked
  <2> QED
    BY <2>1, <2>2
<1> HIDE DEF u
<1> QED
  BY <1>1, <1>3, <1>4, WriterStays

\* m_retxEvent at the reader, which has no data.
LEMMA RetxBBetween ==
  ASSUME Held, RetxExpires("B")
  PROVE  Between'
<1> DEFINE t == [B EXCEPT !.retx = {}]
           u == IF B.retx = {"RTO"} THEN ReTxTimeout(t) ELSE SendEmptyPacket(t, B.retx)
           L == LimitsB(A, B)
<1>1. B.retx # {} /\ Handled("B", u) /\ listening' = listening
  BY DEF RetxExpires, B
<1>2. /\ closes \in Nat /\ A.written \in 0..N
      /\ Reader(B, A.written, closes) /\ Told(At(B), B)
  BY ConnInvIs DEF Held
<1>3. Reader(u, A.written, closes)
  BY <1>1, <1>2, RetxReader
<1>4. Bounded(u, L)
  <2>1. L \in Limits /\ L.acked = {"FIN_WAIT_2"} /\ Bounded(B, L)
    BY HeldIs
  <2>2. B.ep /\ B.buf = EmptyBuffer /\ B.written = 0
    BY <1>1, <1>2 DEF Reader, ReaderData, ReaderState
  <2>3. GoodBuffer(B.buf) /\ B.buf.high <= B.written /\ ~(Size(B) # 0)
    BY <2>2, EmptyBufferGood DEF EmptyBuffer, Size
  <2> HIDE DEF L
  <2> QED
    BY <1>1, <2>1, <2>2, <2>3, RetxBounded
<1> HIDE DEF u
<1> QED
  BY <1>1, <1>3, <1>4, ReaderStays

\* Every step of the connection keeps its numbers.
LEMMA NextHeld ==
  ASSUME Held, [Next]_vars
  PROVE  Held'
<1>1. listening' \in BOOLEAN
  <2>1. listening' \in {listening, FALSE}
    BY DEF Next, vars, Connect, Send, SendPending, CloseA, StopSink, Receive, RetxExpires,
           LastAckExpires, DelAckExpires, TimeWaitExpires, Lose
  <2> QED
    BY <2>1 DEF Held
<1>2. ConnInv'
  BY NextConn DEF Held
<1> SUFFICES Between'
  BY <1>1, <1>2 DEF Held
<1>3. CASE Connect
  BY <1>3, ConnectBetween
<1>4. CASE Send
  BY <1>4, SendBetween
<1>5. CASE SendPending
  BY <1>5, SendPendingBetween
<1>6. CASE CloseA
  BY <1>6, CloseABetween
<1>7. CASE StopSink
  BY <1>7, StopSinkBetween
<1>8. ASSUME NEW x \in Ends, Receive(x)
      PROVE  Between'
  BY <1>8, ReceiveABetween, ReceiveBBetween DEF Ends
<1>9. ASSUME NEW x \in Ends, RetxExpires(x)
      PROVE  Between'
  BY <1>9, RetxABetween, RetxBBetween DEF Ends
<1>10. ASSUME NEW x \in Ends, LastAckExpires(x)
       PROVE  Between'
  BY <1>10, LastAckBetween
<1>11. ASSUME NEW x \in Ends, DelAckExpires(x)
       PROVE  Between'
  BY <1>11, DelAckBetween
<1>12. ASSUME NEW x \in Ends, TimeWaitExpires(x)
       PROVE  Between'
  BY <1>12, TimeWaitBetween
<1>13. ASSUME NEW x \in Ends, Lose(x)
       PROVE  Between'
  BY <1>13, LoseBetween
<1>14. CASE UNCHANGED vars
  <2>1. sock' = sock /\ net' = net /\ listening' = listening /\ A' = A /\ B' = B
    BY <1>14 DEF vars, A, B
  <2>2. Between
    BY DEF Held
  <2> QED
    BY <2>1, <2>2 DEF Between
<1> QED
  BY <1>3, <1>4, <1>5, <1>6, <1>7, <1>8, <1>9, <1>10, <1>11, <1>12, <1>13, <1>14 DEF Next

-----------------------------------------------------------------------------
\* Type correctness.

\* The numbers that can occur.
InRange(t) ==
  /\ t.nxt <= N + 3 /\ t.head <= N + 3 /\ t.recover <= N + 3
  /\ t.rxNext <= N + 3 /\ t.fin <= N + 3

\* A socket between handlers, its numbers in range, is one of the type invariant.
LEMMA RangedSocket ==
  ASSUME NEW t \in NumberedSockets, InRange(t), t.tx = <<>>
  PROVE  t \in Sockets
<1>1. N \in Nat
  BY TxBufferAssumption
<1>2. /\ t.nxt \in SeqNos /\ t.head \in SeqNos /\ t.recover \in SeqNos
      /\ t.rxNext \in SeqNos
  BY <1>1 DEF NumberedSockets, InRange, SeqNos
<1>3. t.fin \in SeqNos \cup {None}
  <2>1. t.fin \in Nat \cup {None}
    BY DEF NumberedSockets, MaybeNumber
  <2> QED
    BY <1>1, <2>1 DEF InRange, SeqNos
<1>4. t.tx \in Seq(Packets)
  OBVIOUS
<1> QED
  BY <1>2, <1>3, <1>4
     DEF NumberedSockets, Sockets, Amounts, CongStates, Windows, SegmentSets, SynCounts,
         RetryCounts, RetxEvents, DelAckCounts

\* and so are the packets.
LEMMA RangedPackets ==
  ASSUME NEW s \in PacketSeqs,
         \A i \in DOMAIN s : s[i].seq <= N + 3 /\ s[i].ack <= N + 3
  PROVE  s \in Seq(Packets)
<1>1. N \in Nat /\ Len(s) \in Nat /\ DOMAIN s = 1 .. Len(s)
  BY TxBufferAssumption DEF PacketSeqs
<1>2. \A i \in 1 .. Len(s) : s[i] \in Packets
  <2> TAKE i \in 1 .. Len(s)
  <2>1. s[i] \in NumberedPackets
    BY DEF PacketSeqs
  <2>2. s[i].seq \in SeqNos /\ s[i].ack \in SeqNos
    BY <1>1, <2>1 DEF NumberedPackets, SeqNos
  <2> QED
    BY <2>1, <2>2 DEF NumberedPackets, Packets, FlagSets, SegmentSets
<1> QED
  BY <1>1, <1>2 DEF PacketSeqs

\* The numbers of the connection are in range.
LEMMA HeldInRange ==
  ASSUME Held
  PROVE  /\ InRange(A) /\ InRange(B)
         /\ \A i \in DOMAIN net["A"] : net["A"][i].seq <= N + 3 /\ net["A"][i].ack <= N + 3
         /\ \A i \in DOMAIN net["B"] : net["B"][i].seq <= N + 3 /\ net["B"][i].ack <= N + 3
<1> DEFINE m == net["A"]
           n == net["B"]
           w == A.written
           K == LimitsA(A, B, listening)
           L == LimitsB(A, B)
<1>1. /\ A \in NumberedSockets /\ B \in NumberedSockets /\ m \in PacketSeqs
      /\ n \in PacketSeqs /\ w \in 0..N /\ N \in Nat
  BY ConnInvIs, TxBufferAssumption DEF Held
<1>2. /\ Bounded(A, K) /\ Bounded(B, L)
      /\ \A i \in DOMAIN n : ForReader(n[i], A)
      /\ \A i \in DOMAIN m : ForWriter(m[i], A, B)
  BY DEF Held, Between, Ranged
<1>3. K.nxt = N + 2 /\ K.rx <= 2 /\ K.fin = 1
  BY DEF LimitsA
<1>4. L.nxt \in 1..2 /\ L.rx = w + 2 /\ L.fin <= w + 1
  BY HeldIs DEF Reading
<1>5. /\ A.nxt <= K.nxt /\ A.head <= K.nxt /\ A.recover <= N + 1
      /\ A.rxNext <= K.rx /\ A.fin <= K.fin
      /\ B.nxt <= L.nxt /\ B.head <= L.nxt /\ B.recover <= N + 1
      /\ B.rxNext <= L.rx /\ B.fin <= L.fin
  BY <1>2 DEF Bounded, Numbers
<1>6. /\ K.nxt \in Nat /\ K.rx \in Nat /\ K.fin \in Int
      /\ L.nxt \in Nat /\ L.rx \in Nat /\ L.fin \in Int
  <2>1. MaybeNumber \subseteq Int
    BY DEF MaybeNumber, None
  <2> QED
    BY <2>1, HeldIs DEF Limits
<1>7. /\ A.nxt \in Nat /\ A.head \in Nat /\ A.recover \in Nat /\ A.rxNext \in Nat
      /\ B.nxt \in Nat /\ B.head \in Nat /\ B.recover \in Nat /\ B.rxNext \in Nat
      /\ A.fin \in Int /\ B.fin \in Int
  <2>1. MaybeNumber \subseteq Int
    BY DEF MaybeNumber, None
  <2> QED
    BY <1>1, <2>1 DEF NumberedSockets
<1> HIDE DEF K, L, m, n, w
<1>8. InRange(A)
  BY <1>1, <1>3, <1>5, <1>6, <1>7 DEF InRange
<1>9. InRange(B)
  BY <1>1, <1>4, <1>5, <1>6, <1>7 DEF InRange
<1>10. \A i \in DOMAIN n : n[i].seq <= N + 3 /\ n[i].ack <= N + 3
  <2> TAKE i \in DOMAIN n
  <2>1. n[i] \in NumberedPackets
    BY <1>1 DEF PacketSeqs
  <2>2. n[i].ack \in Nat
    BY <2>1 DEF NumberedPackets
  <2> QED
    BY <1>1, <1>2, <1>7, <1>8, <2>2 DEF ForReader, InRange
<1>11. \A i \in DOMAIN m : m[i].seq <= N + 3 /\ m[i].ack <= N + 3
  <2> TAKE i \in DOMAIN m
  <2>1. m[i] \in NumberedPackets
    BY <1>1 DEF PacketSeqs
  <2>2. m[i].ack \in Nat /\ m[i].seq \in Nat
    BY <2>1 DEF NumberedPackets
  <2> QED
    BY <1>1, <1>2, <1>7, <1>9, <2>2 DEF ForWriter, InRange
<1> QED
  BY <1>8, <1>9, <1>10, <1>11 DEF m, n

\* What is bounded by the model's own guards.
Counted == closes \in 0..MaxCloses /\ drops \in 0..MaxDrops

\* The type invariant, with the bounds: no number, of a socket or of a packet, is more
\* than three past the data, whatever is lost, sent again and closed in whatever order,
\* and no counter of retries or of delayed ACKs leaves its range.
THEOREM ConnTypeCorrect == Spec => []TypeOK
<1>1. MaxCloses \in Nat /\ MaxDrops \in Nat
  BY ConnectionAssumption
<1>2. Init => Held /\ Counted
  BY <1>1, InitHeld DEF Init, Counted
<1>3. Held /\ Counted /\ [Next]_vars => (Held /\ Counted)'
  <2> SUFFICES ASSUME Held, Counted, [Next]_vars
               PROVE  Held' /\ Counted'
    OBVIOUS
  <2>1. Held'
    BY NextHeld
  <2>2. closes' \in {closes, closes + 1} /\ (closes' # closes => closes < MaxCloses)
    BY DEF Next, vars, Connect, Send, SendPending, CloseA, StopSink, Receive, RetxExpires,
           LastAckExpires, DelAckExpires, TimeWaitExpires, Lose
  <2>3. drops' \in {drops, drops + 1} /\ (drops' # drops => drops < MaxDrops)
    BY DEF Next, vars, Connect, Send, SendPending, CloseA, StopSink, Receive, RetxExpires,
           LastAckExpires, DelAckExpires, TimeWaitExpires, Lose
  <2> QED
    BY <1>1, <2>1, <2>2, <2>3 DEF Counted
<1>4. Held /\ Counted => TypeOK
  <2> SUFFICES ASSUME Held, Counted
               PROVE  TypeOK
    OBVIOUS
  <2>1. /\ sock \in [Ends -> NumberedSockets] /\ net \in [Ends -> PacketSeqs]
        /\ listening \in BOOLEAN /\ sock["A"] = A /\ sock["B"] = B
        /\ A \in NumberedSockets /\ B \in NumberedSockets /\ A.tx = <<>> /\ B.tx = <<>>
        /\ net["A"] \in PacketSeqs /\ net["B"] \in PacketSeqs
    BY ConnInvIs DEF Held, ConnInv
  <2>2. sock["A"] \in Sockets /\ sock["B"] \in Sockets
    BY <2>1, HeldInRange, RangedSocket
  <2>3. net["A"] \in Seq(Packets) /\ net["B"] \in Seq(Packets)
    BY <2>1, HeldInRange, RangedPackets
  <2>4. sock \in [Ends -> Sockets] /\ net \in [Ends -> Seq(Packets)]
    BY <2>1, <2>2, <2>3 DEF Ends
  <2> QED
    BY <2>1, <2>4 DEF TypeOK, Counted
<1> QED
  BY <1>2, <1>3, <1>4, PTL DEF Spec

=============================================================================
