--------------------------- MODULE MonitorInterval ---------------------------
(***************************************************************************)
(* The monitor interval (MI) of PCC Aurora and the queue of MIs whose      *)
(* utility is still pending: scratch/tcp/tcp-pcc-aurora/                   *)
(* monitoring-interval.{h,cc}.  Everything here is a pure operator; the    *)
(* modules PccAurora and PccSender hold the state.                         *)
(*                                                                         *)
(* Packet numbers are TCP sequence numbers, in BYTES.  Of the two clocks   *)
(* the code reads, only what its branches ask of them is kept: whether     *)
(* end_time has passed (ended), whether first_packet_ack_time and          *)
(* last_packet_ack_time have been set (firstAck, lastAck), and whether the *)
(* second is the later one (apart), for which fresh says that the first    *)
(* was set in the handler that is running.  sampled says that there are    *)
(* packet_rtt_samples.  The field pkts does not exist in the code: it      *)
(* records which packets the interval really sent, and only properties     *)
(* read it.                                                                *)
(***************************************************************************)
EXTENDS Integers, Sequences

CONSTANTS
  UintMod    \* 2^32: modulus of the code's uint32_t counters

ASSUME UintModAssumption == UintMod \in Nat \ {0}

U32(x) == x % UintMod

Intervals ==
  [first: Int, last: Int, lastAcc: Int, nSent: Nat, nAcc: Nat,
   bytesSent: Nat, bytesAcked: Nat, bytesLost: Nat,
   firstAck: BOOLEAN, lastAck: BOOLEAN, fresh: BOOLEAN, apart: BOOLEAN,
   sampled: BOOLEAN, ended: BOOLEAN, pkts: SUBSET Int]

\* MonitorInterval::MonitorInterval.  The packet numbers are default SequenceNumber32.
NewInterval ==
  [first |-> 0, last |-> 0, lastAcc |-> 0, nSent |-> 0, nAcc |-> 0,
   bytesSent |-> 0, bytesAcked |-> 0, bytesLost |-> 0,
   firstAck |-> FALSE, lastAck |-> FALSE, fresh |-> FALSE, apart |-> FALSE,
   sampled |-> FALSE, ended |-> FALSE, pkts |-> {}]

\* Variant: the upper bound is forgotten.
ContainsPacket_FromFirst(mi, p) == mi.first <= p

ContainsPacket(mi, p) == mi.first <= p /\ p <= mi.last

AllPacketsSent(mi) == mi.ended

AllPacketsAccountedFor(mi) == AllPacketsSent(mi) /\ mi.nAcc = mi.nSent

\* Variant: last_packet_number_accounted_for keeps its default value.
MISent_NoBase(mi, p, sz) ==
  [mi EXCEPT !.first     = IF mi.nSent = 0 THEN p ELSE @,
             !.last      = p,
             !.nSent     = U32(@ + 1),
             !.bytesSent = U32(@ + sz),
             !.pkts      = @ \cup {p}]

\* MonitorInterval::OnPacketSent: last_packet_number follows the packet sent,
\* also down to the number of a retransmitted one.
MISent(mi, p, sz) ==
  LET isFirst == mi.nSent = 0 IN
  [mi EXCEPT !.first     = IF isFirst THEN p ELSE @,
             !.lastAcc   = IF isFirst THEN p - 1 ELSE @,
             !.last      = p,
             !.nSent     = U32(@ + 1),
             !.bytesSent = U32(@ + sz),
             !.pkts      = @ \cup {p}]

\* A last_packet_ack_time of now is later than the first_packet_ack_time that
\* packet p leaves: set in an earlier handler, or still zero.
NowIsLater(mi, p) == ~mi.fresh /\ (mi.firstAck \/ p < mi.first)

\* Variant: a packet beyond the last one does not start the clock.
TimeAcks_OnlyContained(mi, p) ==
  [mi EXCEPT !.firstAck = @ \/ ContainsPacket(mi, p),
             !.lastAck  = @ \/ p >= mi.last,
             !.fresh    = @ \/ (ContainsPacket(mi, p) /\ ~mi.firstAck),
             !.apart    = IF p >= mi.last /\ ~mi.lastAck THEN NowIsLater(mi, p)
                          ELSE @ /\ (mi.firstAck \/ ~ContainsPacket(mi, p))]

\* What OnPacketAcked and OnPacketLost share: the two times.
TimeAcks(mi, p) ==
  [mi EXCEPT !.firstAck = @ \/ p >= mi.first,
             !.lastAck  = @ \/ p >= mi.last,
             !.fresh    = @ \/ (p >= mi.first /\ ~mi.firstAck),
             !.apart    = IF p >= mi.last /\ ~mi.lastAck THEN NowIsLater(mi, p)
                          ELSE @ /\ (mi.firstAck \/ p < mi.first)]

\* Variant: a packet beyond the last one is ignored.
Account_OnlyContained(mi, p) ==
  [TimeAcks(mi, p) EXCEPT
     !.nAcc    = IF ContainsPacket(mi, p) THEN U32(@ + (p - mi.lastAcc)) ELSE @,
     !.lastAcc = IF ContainsPacket(mi, p) THEN p ELSE @]

\* What they share otherwise: n_packets_accounted_for advances
\* by the distance from the last packet accounted for (the local "skipped",
\* plus one), a difference of sequence numbers; beyond the last packet
\* everything is accounted for.
Account(mi, p) ==
  [TimeAcks(mi, p) EXCEPT
     !.nAcc    = IF ContainsPacket(mi, p) THEN U32(@ + (p - mi.lastAcc))
                 ELSE IF p > mi.last THEN mi.nSent ELSE @,
     !.lastAcc = IF ContainsPacket(mi, p) THEN p
                 ELSE IF p > mi.last THEN mi.last ELSE @]

MIAcked(mi, p, sz) ==
  IF ContainsPacket(mi, p)
  THEN [Account(mi, p) EXCEPT !.bytesAcked = U32(@ + sz), !.sampled = TRUE,
                              !.lastAck = TRUE, !.apart = NowIsLater(mi, p)]
  ELSE Account(mi, p)

MILost(mi, p, sz) ==
  IF ContainsPacket(mi, p)
  THEN [Account(mi, p) EXCEPT !.bytesLost = U32(@ + sz)]
  ELSE Account(mi, p)

-----------------------------------------------------------------------------
\* PccMonitorIntervalQueue: a sequence, oldest interval first.

Back(q) == q[Len(q)]

\* The clock moves on to the next handler.
Aged(q) == [i \in DOMAIN q |-> [q[i] EXCEPT !.fresh = FALSE]]

\* PccMonitorIntervalQueue::OnPacketSent: the newest interval sends.
QueueSent(q, p, sz) ==
  IF q = <<>> THEN q ELSE [q EXCEPT ![Len(q)] = MISent(@, p, sz)]

\* PccMonitorIntervalQueue::OnPacketAcked, OnPacketLost: every interval not
\* yet accounted for hears of the packet.
QueueAcked(q, p, sz) ==
  [i \in DOMAIN q |->
     IF AllPacketsAccountedFor(q[i]) THEN q[i] ELSE MIAcked(q[i], p, sz)]

QueueLost(q, p, sz) ==
  [i \in DOMAIN q |->
     IF AllPacketsAccountedFor(q[i]) THEN q[i] ELSE MILost(q[i], p, sz)]

\* The loop of TcpPccAurora::CheckMonitoringInterval pops while the front is
\* accounted for (HasFinishedInterval): the longest such prefix.
FinishedPrefix(q) ==
  CHOOSE n \in 0..Len(q) :
    /\ \A i \in 1..n : AllPacketsAccountedFor(q[i])
    /\ n < Len(q) => ~AllPacketsAccountedFor(q[n + 1])

Pending(q) == SubSeq(q, FinishedPrefix(q) + 1, Len(q))

=============================================================================
