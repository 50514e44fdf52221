------------------------------- MODULE PccFlow -------------------------------
(***************************************************************************)
(* The flow and its agent: the sender of PccSender, whose congestion       *)
(* control calls the rate controller in the middle of the socket's         *)
(* handlers.  A handler's calls reach the rate controller in their order;  *)
(* the rate of a new interval is the one the agent's action leads to; the  *)
(* last step of an episode ends the process in the middle of the handler   *)
(* that asked.                                                             *)
(***************************************************************************)
EXTENDS PccSender, RateController

\* The sender's choice of a rate leaves out none an action leads to.
ASSUME RatesAssumption ==
  \A r \in Rates, a \in Actions : NextSendingRate(r, a) \in Rates

VARIABLES
  rc,       \* the rate controller
  resent    \* has a segment been sent a second time?  Only properties read it

flowVars == <<vars, rc, resent>>

\* One call of the rate controller; none is made once the process has ended.
Hear(r, call) ==
  IF r.over THEN r
  ELSE IF call = Asked THEN Notify(r)
  ELSE MonitorIntervalFinished(r, call.mi)

\* A handler's calls, in their order.
HearAll(r, calls) ==
  LET after[n \in 0 .. Len(calls)] ==
        IF n = 0 THEN r ELSE Hear(after[n - 1], calls[n])
  IN after[Len(calls)]

CallsNow == {s'.cc.calls[i] : i \in DOMAIN s'.cc.calls}

\* The rate controller's part of a handler.  Nothing runs after the end of the
\* episode.
RateControllerHears ==
  /\ ~rc.over
  /\ rc' = HearAll(rc, s'.cc.calls)
  /\ Asked \in CallsNow =>
       \E a \in Actions : s'.cc.rate = NextSendingRate(s.cc.rate, a)
  /\ resent' = (resent \/ \E i \in DOMAIN s'.tx : s'.tx[i] < s.buf.high)

FlowInit == Init /\ rc = InitialRC /\ resent = FALSE

FlowNext ==
  \/ /\ Start \/ ReceivedAck \/ ReTxTimeout \/ PacingTimerExpires \/ IntervalEnds
     /\ RateControllerHears
  \/ /\ ReceivedData \/ DelAckTimeout \/ Drop
     /\ ~rc.over
     /\ UNCHANGED <<rc, resent>>

FlowSpec == FlowInit /\ [][FlowNext]_flowVars

-----------------------------------------------------------------------------
\* The records are of their types, and the episode is over with its last decision.
FlowTypeOK ==
  rc \in RateControllers /\ resent \in BOOLEAN /\ (rc.over <=> rc.steps = MaxSteps)

Reports == IF s' = s THEN {} ELSE {c \in CallsNow : c # Asked}

\* Each decision of the agent has exactly one interval, which is reported once or
\* still awaits its last packet, through losses, timeouts and waits: the sequence of
\* rewards belongs to the sequence of actions.
DecisionsHaveIntervals ==
  ~rc.over => rc.steps = rc.finished + Len(Queue)

\* The sum of a sequence of numbers.
Total(w) ==
  LET sum[n \in 0 .. Len(w)] == IF n = 0 THEN 0 ELSE sum[n - 1] + w[n]
  IN sum[Len(w)]

\* What the intervals of a queue have been credited with.
Credited(q) == Total([i \in DOMAIN q |-> q[i].bytesAcked])

\* Until a segment is sent a second time no byte is credited to two intervals.
CreditedOnce ==
  resent \/ rc.credited + Credited(Queue)
              <= MSS * Cardinality(0..s.buf.una-1 \cup s.buf.sacked)

\* Until then the throughput of a reported interval is one: both ends of the time it
\* is divided by were set, and it is not below zero.
ThroughputSound ==
  [][\A c \in Reports :
       resent' \/ (c.mi.firstAck /\ c.mi.lastAck /\ RecvRate(c.mi) # "wrapped")]_flowVars

\* "Avoid send nothing as a good option" (pcc_custom_rc.cc, Safety Net): an interval
\* of which nothing was acknowledged is given the safety net's reward.
SafetyNet ==
  [][\A c \in Reports : c.mi.bytesAcked = 0 => RecvRate(c.mi) = "zero"]_flowVars

=============================================================================
