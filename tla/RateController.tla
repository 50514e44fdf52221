--------------------------- MODULE RateController ---------------------------
(***************************************************************************)
(* PccCustomRateController, the environment the agent sees:                *)
(* scratch/tcp/tcp-pcc-aurora/pcc_custom_rc.{h,cc}.                        *)
(*                                                                         *)
(* The state is a record rc: the window of observations and the last       *)
(* reward (m_states), the minimum latency of the connection (only whether  *)
(* there is one yet), and the step counter of GetGameOver.  Each method is *)
(* an operator from one such record to the next.                           *)
(*                                                                         *)
(* The floating-point numbers are reduced to the cases the code or the     *)
(* agent tells apart:                                                      *)
(*   a throughput    "zero", "some", or "wrapped", above 8 * 2^31 bytes    *)
(*                   per second of the interval's time                     *)
(*   a latency ratio "none" (0, below the declared lower bound of 1), "one"*)
(*                   (no latency is known yet) or "some" (1 or more)       *)
(*   a reward        by the throughput it is computed from; that for a     *)
(*                   throughput of zero is the safety net                  *)
(* Of the three observations of an interval only the latency ratio is kept.*)
(***************************************************************************)
EXTENDS MonitorInterval

CONSTANTS
  History,   \* observations in the window: m_size / 3
  MaxSteps,  \* decisions in an episode
  MinRate,   \* MIN_SENDING_RATE
  MaxRate,   \* MAX_SENDING_RATE
  Actions    \* values of the agent's action

ASSUME RateControllerAssumption == /\ History \in Nat \ {0}
                                   /\ MaxSteps \in Nat \ {0}
                                   /\ MinRate \in Nat /\ MaxRate \in Nat
                                   /\ MinRate <= MaxRate
                                   /\ Actions \subseteq Int

Throughputs == {"zero", "some", "wrapped"}

Latencies == {"none", "one", "some"}

RateControllers ==
  [window: [1..History -> Latencies], reward: Throughputs,
   minKnown: BOOLEAN, steps: 0..MaxSteps, over: BOOLEAN,
   finished: Nat, credited: Nat]

\* States::m_queue starts with ratios of one; the reward is zero.  finished
\* and credited, which only properties read, count the intervals reported and the
\* bytes they were credited with.
InitialRC ==
  [window |-> [i \in 1..History |-> "one"],
   reward |-> "zero", minKnown |-> FALSE, steps |-> 0, over |-> FALSE,
   finished |-> 0, credited |-> 0]

GetAveragePacketSize(mi) == mi.bytesSent \div mi.nSent

\* mi_metric_recv_rate.  The difference is unsigned.
RecvRate(mi) ==
  LET beyondFirst == U32(mi.bytesAcked - GetAveragePacketSize(mi))
  IN IF ~mi.apart \/ beyondFirst = 0 THEN "zero"
     ELSE IF mi.bytesAcked < GetAveragePacketSize(mi) THEN "wrapped" ELSE "some"

\* mi_metric_latency_ratio: minKnown is what mi_metric_conn_min_latency has found,
\* this interval included.
LatencyRatio(mi, minKnown) ==
  IF ~minKnown THEN "one" ELSE IF mi.sampled THEN "some" ELSE "none"

\* States::AddState: the oldest observation leaves the window.
AddState(window, obs) == Append(Tail(window), obs)

MonitorIntervalFinished(rc, mi) ==
  LET known == rc.minKnown \/ mi.sampled
  IN [rc EXCEPT !.window   = AddState(@, LatencyRatio(mi, known)),
                !.reward   = RecvRate(mi),
                !.minKnown = known,
                !.finished = @ + 1,
                !.credited = @ + mi.bytesAcked]

\* Variant: the step is counted after the comparison.
Notify_Late(rc) ==
  [rc EXCEPT !.steps = @ + 1, !.over = rc.steps >= MaxSteps]

\* GetGameOver, called by Notify once for each decision.
Notify(rc) ==
  [rc EXCEPT !.steps = @ + 1, !.over = rc.steps + 1 >= MaxSteps]

\* ExecuteActions and the rest of GetNextSendingRate: alpha is a twentieth of the
\* action, the product is rounded down.
NextSendingRate(rate, action) ==
  LET wanted == IF action >= 0 THEN (rate * (20 + action)) \div 20
                ELSE (rate * 20) \div (20 - action)
  IN IF wanted < MinRate THEN MinRate
     ELSE IF wanted > MaxRate THEN MaxRate ELSE wanted

=============================================================================
