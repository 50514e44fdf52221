----------------------------- MODULE TcpTxBuffer -----------------------------
(***************************************************************************)
(* The sender's buffer and SACK scoreboard: src/internet/model/            *)
(* tcp-tx-buffer.cc, as tcp-socket-base-custom.cc uses it.                 *)
(*                                                                         *)
(* The application's data is a run of N full segments, numbered from 0, so *)
(* no segment is ever split or merged.  The sent list is una..high-1; the  *)
(* flags m_sacked, m_lost, m_retrans of its items are three sets.          *)
(***************************************************************************)
EXTENDS Integers, FiniteSets, FiniteSetsExt

CONSTANTS
  N,           \* segments of application data
  DupThresh    \* m_retxThresh, m_dupAckThresh

ASSUME TxBufferAssumption == N \in Nat /\ DupThresh \in Nat \ {0}

None == -1     \* NextSeg found no segment; no segment is SACKed

Buffers ==
  [una: 0..N, high: 0..N, sacked: SUBSET (0..N-1), lost: SUBSET (0..N-1),
   retrans: SUBSET (0..N-1), highSack: -1..N-1]

EmptyBuffer ==
  [una |-> 0, high |-> 0, sacked |-> {}, lost |-> {}, retrans |-> {},
   highSack |-> None]

Sent(b) == b.una .. b.high - 1

\* BytesInFlight, in segments.
InFlight(b) ==
  Cardinality(Sent(b)) - (Cardinality(b.sacked) + Cardinality(b.lost))
    + Cardinality(b.retrans)

\* NextSeg, rules (1) to (3): a segment lost and not retransmitted, else the
\* next one never sent, else (in recovery) any not retransmitted and not SACKed.
NextSeg(b, isRecovery) ==
  LET pending == {i \in Sent(b) : i \notin b.retrans \cup b.sacked}
  IN IF pending \cap b.lost # {} THEN Min(pending \cap b.lost)
     ELSE IF b.high < N THEN b.high
     ELSE IF isRecovery /\ pending # {} THEN Min(pending)
     ELSE None

\* Variant: every segment sent counts as new.
Copy_AlwaysNew(b, seg) == [b EXCEPT !.high = @ + 1]

\* CopyFromSequence: a new segment joins the sent list, an old one is marked
\* retransmitted.
Copy(b, seg) ==
  IF seg = b.high THEN [b EXCEPT !.high = @ + 1]
  ELSE [b EXCEPT !.retrans = @ \cup {seg}]

\* UpdateLostCount: an unSACKed segment with DupThresh SACKed ones above it is
\* lost; the count starts at m_highestSack.
DeemedLost(b) ==
  {i \in Sent(b) \ b.sacked :
     Cardinality({j \in b.sacked : i < j /\ j <= b.highSack}) >= DupThresh}

\* Variant: a SACKed segment keeps its m_lost.
Update_KeepsLost(b, blocks) ==
  LET new == (blocks \cap Sent(b)) \ b.sacked
      marked == [b EXCEPT !.sacked = @ \cup new, !.highSack = Max(new)]
  IN IF new = {} THEN b
     ELSE [marked EXCEPT !.lost = @ \cup DeemedLost(marked)]

\* Update.  The test that moves m_highestSack lets it step down by one segment.
Update(b, blocks) ==
  LET new  == (blocks \cap Sent(b)) \ b.sacked
      high == IF b.highSack = None \/ b.highSack <= Max(new) + 1
              THEN Max(new) ELSE b.highSack
      marked == [b EXCEPT !.sacked = @ \cup new, !.lost = @ \ new,
                          !.highSack = high]
  IN IF new = {} THEN b
     ELSE [marked EXCEPT !.lost = @ \cup DeemedLost(marked)]

\* DiscardUpTo.  An honest receiver never SACKs the segment it waits for, so the
\* branch for a SACKed head is not taken (ScoreboardConsistent in PccSender).
DiscardUpTo(b, ack) ==
  [b EXCEPT !.una      = ack,
            !.high     = IF ack > @ THEN ack ELSE @,
            !.sacked   = @ \ 0..ack-1,
            !.lost     = @ \ 0..ack-1,
            !.retrans  = @ \ 0..ack-1,
            !.highSack = IF @ <= ack THEN None ELSE @]

\* IsLost(seq): the first flagged item from seq on decides, below m_highestSack.
IsLost(b, seg) ==
  LET flagged == {i \in Sent(b) : i >= seg /\ i \in b.lost \cup b.sacked}
  IN seg < b.highSack /\ flagged # {} /\ Min(flagged) \in b.lost

MarkHeadAsLost(b) ==
  IF Sent(b) = {} THEN b
  ELSE [b EXCEPT !.sacked  = @ \ {b.una},
                 !.retrans = @ \ {b.una},
                 !.lost    = @ \cup {b.una}]

\* Variant: the retransmitted flags survive the timeout.
SetSentListLost_KeepsRetrans(b) == [b EXCEPT !.lost = Sent(b) \ b.sacked]

\* SetSentListLost(false): what is not SACKed is lost, nothing is retransmitted.
SetSentListLost(b) ==
  [b EXCEPT !.lost = Sent(b) \ b.sacked, !.retrans = {}]

\* IsRetransmittedDataAcked(end of segment seg)
IsRetransmittedDataAcked(b, seg) ==
  seg \in Sent(b) /\ seg \notin b.sacked /\ seg \in b.retrans

=============================================================================
