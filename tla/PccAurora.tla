------------------------------ MODULE PccAurora ------------------------------
(***************************************************************************)
(* TcpPccAurora, the congestion control:                                   *)
(* scratch/tcp/tcp-pcc-aurora/tcp-pcc-aurora-cong-control.{h,cc}.          *)
(*                                                                         *)
(* The state is a record cc: the members m_wait_mode, m_interval_queue and *)
(* m_sending_rate; the window it writes into its socket's TcpSocketState,  *)
(* in segments; and, since the socket's handler was entered, the calls of  *)
(* the rate controller, GetNextSendingRate and MonitorIntervalFinished, in *)
(* their order.  Each callback is an operator from one                     *)
(* such record to the next, so that a handler of the socket, which makes   *)
(* several of them, is one step.                                           *)
(*                                                                         *)
(* The rate the agent's answer leads to is the argument r of OnPacketSent. *)
(***************************************************************************)
EXTENDS MonitorInterval

CONSTANTS
  MSS,        \* bytes in a segment
  Rates,      \* the rates GetNextSendingRate can return
  InitRate,   \* m_sending_rate before the first decision
  Window      \* the congestion window UpdatePacingRate derives from a rate

ASSUME PccAssumption == /\ MSS \in Nat \ {0}
                        /\ InitRate \in Rates
                        /\ Window \in [Rates -> Nat]

SeqNo(seg) == seg * MSS

\* Calls of the rate controller.
Asked == [call |-> "GetNextSendingRate"]

Reported(mi) == [call |-> "MonitorIntervalFinished", mi |-> mi]

Calls == {Asked} \cup [call: {"MonitorIntervalFinished"}, mi: Intervals]

CongestionControls ==
  [waitMode: BOOLEAN, queue: Seq(Intervals), rate: Rates, cwnd: Nat,
   calls: Seq(Calls)]

\* UpdatePacingRate, the part of it that decides what is sent: m_cWnd.
UpdatePacingRate(cc) == [cc EXCEPT !.cwnd = Window[cc.rate]]

\* ProcessSynSent has called CongestionStateSet(CA_OPEN): m_wait_mode has its
\* first value.
InitialCC ==
  [waitMode |-> FALSE, queue |-> <<>>, rate |-> InitRate,
   cwnd |-> Window[InitRate], calls |-> <<>>]

\* Variant: wait mode is never left.
CongestionStateSet_StaysWaiting(cc, newState) ==
  IF newState = "CA_OPEN" THEN UpdatePacingRate(cc)
  ELSE IF newState = "CA_LOSS" THEN [cc EXCEPT !.waitMode = TRUE]
  ELSE cc

CongestionStateSet(cc, newState) ==
  IF newState = "CA_OPEN" THEN UpdatePacingRate([cc EXCEPT !.waitMode = FALSE])
  ELSE IF newState = "CA_LOSS" THEN [cc EXCEPT !.waitMode = TRUE]
  ELSE cc

\* Variant: at most one interval is finished, "if" for "while".
CheckMonitoringInterval_One(cc) ==
  IF cc.queue # <<>> /\ AllPacketsAccountedFor(Head(cc.queue))
  THEN [cc EXCEPT !.queue = Tail(@), !.calls = Append(@, Reported(Head(cc.queue)))]
  ELSE cc

CheckMonitoringInterval(cc) ==
  [cc EXCEPT !.queue = Pending(cc.queue),
             !.calls = @ \o [i \in 1..FinishedPrefix(cc.queue) |->
                               Reported(cc.queue[i])]]

\* Variant: an interval for every packet.
ShouldCreateNewMonitorInterval_Always(cc) == TRUE

ShouldCreateNewMonitorInterval(cc) ==
  cc.queue = <<>> \/ AllPacketsSent(Back(cc.queue))

\* The rate is decided, the interval pushed, the window follows the rate.
OpenInterval(cc, r) ==
  UpdatePacingRate([cc EXCEPT !.rate = r, !.calls = Append(@, Asked),
                              !.queue = Append(@, NewInterval)])

\* Variant: the agent is asked on every packet.
OnPacketSent_AlwaysAsks(cc, seg, r) ==
  LET open == IF ShouldCreateNewMonitorInterval(cc)
              THEN OpenInterval(cc, r)
              ELSE UpdatePacingRate([cc EXCEPT !.rate = r, !.calls = Append(@, Asked)])
  IN IF cc.waitMode THEN cc
     ELSE [open EXCEPT !.queue = QueueSent(@, SeqNo(seg), MSS)]

OnPacketSent(cc, seg, r) ==
  LET open == IF ShouldCreateNewMonitorInterval(cc)
              THEN OpenInterval(cc, r) ELSE cc
  IN IF cc.waitMode THEN cc
     ELSE [open EXCEPT !.queue = QueueSent(@, SeqNo(seg), MSS)]

\* Losses are recorded in wait mode too, but nothing is finished then.
OnPacketLost(cc, seg) ==
  LET heard == [cc EXCEPT !.queue = QueueLost(@, SeqNo(seg), MSS)]
  IN IF cc.waitMode THEN heard ELSE CheckMonitoringInterval(heard)

\* ack is m_lastAckedSeq, the segment the receiver expects; newly is
\* m_lastAckedSackedBytes, in segments.
CongControl(cc, ack, newly) ==
  IF cc.waitMode THEN cc
  ELSE CheckMonitoringInterval(
         [cc EXCEPT !.queue = QueueAcked(@, SeqNo(ack), newly * MSS)])

=============================================================================
