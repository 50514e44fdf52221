# Verification of ns3-drl-cc

This directory holds TLA+ models of the part of the repository that is its own:
a TCP sender inside the ns-3 simulator whose sending rate is chosen, once per
*monitor interval*, by a reinforcement-learning agent (PCC Aurora). TLC checks
the models on small instances; TLAPS proves the central invariants for every
value of the constants.

Paths below are relative to `src/`; `aurora/` stands for
`scratch/tcp/tcp-pcc-aurora/`.

## 1. The system

```
 sim.cc ── BulkSend ──> TcpSocketBaseCustom ──segments──> drop-tail path ──> TcpSocketBase
                          │   ▲      │   ▲                                    TcpRxBuffer
                          │   └──────┼───┴───────────── ACKs + SACK ◄─────────────┘
                   TcpTxBuffer   TcpPccAurora ── PccMonitorIntervalQueue
                                     │
                             PccCustomRateController ── OpenGymInterface ══ZMQ══ ns3env.py ── agent
```

The simulator is single-threaded: an event handler runs to its end before the
next starts. The difficulty is not data races but the order of handlers
(packets, ACKs, four timers) and the many calls one handler makes into objects
that each keep their own idea of the state. Only the agent is another process;
it answers while the simulation blocks inside `OnPacketSent`.

| Component | State | Operations | What makes it correct | Module |
|---|---|---|---|---|
| Monitor interval and queue, `aurora/monitoring-interval.*` | packet and byte counts, first and last number, last number accounted for, end time; a FIFO of intervals | OnPacketSent, OnPacketAcked, OnPacketLost, Push, Pop | every packet sent is accounted for in its own interval, no interval blocks the queue, no division by zero, counters do not wrap | `MonitorInterval` |
| `TcpPccAurora`, `aurora/tcp-pcc-aurora-cong-control.*` | wait mode, the queue, the sending rate, the window it sets | CongestionStateSet, OnPacketSent, OnPacketLost, CongControl | wait mode agrees with the socket; the rate is constant over an interval; finished intervals are reported in order | `PccAurora` |
| `TcpSocketBaseCustom`, `aurora/tcp-socket-base-custom.*` | congestion state, duplicate ACKs, recovery point, retry count, retransmission and pacing timers, ECN state | ReceivedAck, ReTxTimeout, NotifyPacingPerformed, Send, and what they call | outstanding data always has a timer; recovery ends where it should; one segment after a timeout; its own assertions; everything is delivered in the end | `PccSender` |
| `TcpTxBuffer`, `src/internet/model/tcp-tx-buffer.*` | sent list with sacked, lost and retransmitted flags, highest SACK | CopyFromSequence, Update, DiscardUpTo, NextSeg, IsLost, SetSentListLost, MarkHeadAsLost | the scoreboard agrees with itself and never knows more than the receiver | `TcpTxBuffer` |
| Receive buffer, `src/internet/model/tcp-rx-buffer.cc`, with its socket `tcp-socket-base.cc` | packets by number, next byte expected, FIN, available bytes, SACK list | Add, Extract, SetFinSequence, UpdateSackList, ClearSackList, MaxRxSequence; OutOfRange, ReceivedData, PeerClose, Recv | what the window promises is kept, no byte twice; the SACK blocks are true; all is read | `TcpRxBuffer`, `ReceiveWindow` |
| The life of a connection, `aurora/tcp-socket-base-custom.*`, `aurora/tcp-l4-protocol-custom.cc` | state, FIN, deferred close, the retransmission, last-ACK and delayed-ACK timers, retry counters | Connect, Send, Close, the Process* methods, DoPeerClose, PeerClose, TimeWait, SendEmptyPacket, ReTxTimeout, LastAckTimeout; CompleteFork, NoEndPointsFound | the applications get a stream; no end waits without a timer; both ends end | `TcpConnection`, `StreamService` |
| Rate controller, `aurora/pcc_custom_rc.*` | window of observations, last reward, minimum latency, step counter | MonitorIntervalFinished, GetNextSendingRate, GetGameOver | rewards and decisions correspond; a throughput is one; nothing sent is not rewarded | `RateController`, `PccFlow` |
| ns3-gym bridge, `contrib/opengym/model/` | REQ and REP socket, init, stop and end flags | Init, NotifyCurrentState, NotifySimulationEnd; initialize_env, rx_env_state, step, reset, close | the two processes take turns, know when an episode is over, and both end | `OpenGym`, `GymEpisodes` |
| The rest: simulation and agent scripts, constant-rate predecessor, L4 protocol copies, containers, vendored ns-3 | | | | not modelled, reasons in section 8 |

### Hard behaviours

`PROJECT.json` lists them one by one under `hazards`, with the line where each
bites and the property that would catch it. In short: ACKs lost or late, so
that an event an interval waits for never comes as itself; retransmissions,
which run the packet numbers of an interval backwards; a timeout in the middle
of anything; ECN, whose paths change the congestion state without telling the
congestion control; the count of *packets* accounted for that is advanced by
differences of *sequence numbers*; segments cut anew at every transmission, which
overlap stored packets in every way; SYN, FIN and data that share one timer event, and
closes deep in a chain of calls that goes on; and, in the bridge, two processes that both
wait without a timeout.

## 2. The modules

| Module | What it is |
|---|---|
| `MonitorInterval` | operators on an interval (a record) and on the queue (a sequence) |
| `PccAurora` | the callbacks of the congestion control, from one record to the next |
| `TcpTxBuffer` | the scoreboard: the sent list as `una .. high-1`, its three flags as sets |
| `PccSender` | the state machine: the sender `s`, the path (`data`, `acks`), the receiver `rcv`; one action per event handler; the properties |
| `MCPccSender` | the instance for TLC; the `.cfg` files `MCPccSender*` are its runs |
| `RateController` | the rate controller's methods, from one record to the next |
| `PccFlow`, `MCPccFlow` | the sender together with the rate controller its congestion control calls; the instance for TLC |
| `TcpRxBuffer` | the receive buffer byte by byte, its socket, a reader, and a sender that keeps to the window |
| `ReceiveWindow` | what the buffer promises: a set of positions, read up to the first hole; `TcpRxBuffer` implements it |
| `TcpConnection` | both ends of a connection from Connect to CLOSED, with listener and demultiplexer |
| `StreamService` | what a connection promises its applications; `TcpConnection` implements it |
| `NumberSets`, `TcpTxBuffer_proofs`, `PccSender_proofs`, `PccIntervals_proofs` | the proofs about the sender and its scoreboard, bottom up; the last about the monitor intervals, alone and with the rate controller that hears of them |
| `TcpWriter_proofs`, `TcpConnection_proofs` | the proofs about the connection: its writer; its reader, the path, and both together |
| `TcpRxBuffer_proofs` | the proofs about the receive buffer |
| `OpenGym` | the state machine of the bridge: the simulations `sim`, the agent's process `env`, the messages `request` and `reply`, by episode |
| `GymEpisodes` | what the bridge promises: observations and actions take turns; `OpenGym` implements it |
| `OpenGym_proofs` | the proofs about the bridge |

Operators named `X_Something` with a comment "Variant:" are deliberately wrong
forms of `X`. No specification uses them: each is a plausible bug, and putting
it in the place of `X` makes one of the properties fail. They show that the
property speaks about the code.

### How the state corresponds to the code

The header of `PccSender` names the member behind each field of `s`. A handler
of the code makes many calls, each of which reads what the earlier ones wrote.
Every such call is an operator from sender to sender, and a handler is their
composition, in the order of the code, for instance

    ReceivedAck:  Update, DiscardUpTo, end of CA_CWR, ECE, ProcessAck
                  (DupAck, then partial ACK / CA_LOSS / CA_CWR / full ACK),
                  CongControl, SendPendingData

so one action is one handler, with everything it does.

| Action | Handler |
|---|---|
| `Start` | `Send` of the application, the first data |
| `ReceivedAck` | `ReceivedAck` and `ProcessAck` |
| `ReTxTimeout` | `ReTxTimeout` |
| `PacingTimerExpires` | `NotifyPacingPerformed` |
| `IntervalEnds` | no handler: the clock passes the `end_time` of the newest interval |
| `ReceivedData`, `DelAckTimeout` | the receiver's handlers of those names |
| `Drop` | the path loses the oldest packet of a direction |

`PccFlow` adds the record `rc` to the state. The sender records the calls its congestion
control makes of the controller in `s.cc.calls`, in their order; `RateControllerHears`
applies them, and the rate of a new interval is one an action of the agent leads to. Once
the game is over the process has exited, in the middle of the handler that asked.

In `TcpConnection` the two sockets are records of one type and each handler an operator on
them. `Receive` is `TcpL4ProtocolCustom::Receive` with `DoForwardUp` and everything under it;
`RetxExpires`, `LastAckExpires`, `DelAckExpires` and `TimeWaitExpires` are the four timers;
`Connect`, `Send`, `CloseA` and `StopSink` the calls of the two applications; `SendPending` the
event that Send schedules. A is the custom socket. B runs `tcp-socket-base.cc`, of which
the custom file is a copy; nothing modelled differs.

In `TcpRxBuffer`, `Arrive` is DoForwardUp's range check, ReceivedData and `Add`; `FinArrives` is
PeerClose; `Recv` is Recv and `Extract`; `Acked` and `AckLost` are what becomes of the ACK.

`OpenGym` is apart from the sender: what crosses between them is an action, which the
sender's model chooses, and the end of the simulation. Both processes of the
bridge block in `recv` without a timeout, so an action is what one of them does from
one `recv` to the next, or to the return to its caller.

| Action | Code |
|---|---|
| `Notify(e)` | `GetNextSendingRate` up to the `recv` of `Init` or of `NotifyCurrentState` |
| `InitAcked(e)`, `ActReceived(e)` | what follows those `recv`s |
| `SimulationEnds(e)` | `Simulator::Stop`, `NotifySimulationEnd` |
| `InitializeEnv`, `RxEnvState` | what follows the `recv` of the methods of those names |
| `Step`, `Reset`, `CloseEnv` | `Ns3Env.step`, `reset`, `close` up to their `recv` or return |
| `Interrupt`, `CloseReceives` | `KeyboardInterrupt` in a step; `close()` from the script's `finally`, and what follows its `recv` |

What does not exist in the code and serves properties only: `pkts` of an
interval (what it really sent), `finished` and `credited` of the rate controller (totals
over the intervals reported), and `resent` (a segment has been sent twice). `calls` of the
congestion control is emptied when the next handler begins.

### What is abstracted

* **Time.** Timers expire at any moment after they are started, in particular
  before the ACK that is on its way, and intervals end at any moment after their
  first packet. Of the time stamps of an interval it matters whether they are
  still zero, and whether the second is later than the first: what the throughput is
  divided by.
* **Numbers.** Segments are full (`BulkSend` with a large buffer), so a sequence
  number is `MSS` times the segment; `MonitorInterval` computes in bytes as the
  code does, which is where its accounting differs from counting packets.
  Sequence numbers do not wrap; the `uint32_t` counters do, at `UintMod`.
* **The agent.** In `PccSender` its answer is any member of `Rates`, in `PccFlow` the rate its
  action leads to, rounded and clamped as in the code; `Window` gives the
  congestion window `UpdatePacingRate` derives. `sender_liveness` has a rate whose window is
  below one segment, as `rate * RTT` may come out; the window of the lowest rates is then 0.
* **Observations.** `RateController` keeps which of the cases the code tells apart a number is
  in: a throughput of zero, one above zero, one wrapped below zero; no latency yet, none
  in this interval, or some. The sums of floats behind the reward are left out.
* **The path** keeps order and loses at most `MaxDrops` packets (data or ACKs).
  The dumbbell of `sim.cc` is a chain of FIFO queues, so it does not reorder.
* **The established sender** is past the initial window that
  `IsPacingEnabled` exempts from pacing; the receiver's window does not bind; all
  data waits in the buffer; SACK is on.
* **The SACK list** is the set of its segments, `listed`; its blocks are the runs of that. It keeps
  `SackListSize` blocks (4 in the code) and an ACK reports `SackBlocks` of them (3, what the option has room for
  beside the time stamps), so what was once out of order need not be reported again. The
  block of a segment just stored is always reported. Which others are, and which one is forgotten, the
  order of the list decides; the model leaves it open.
* ECN is off in `sim.cc` (`UseEcn` is left at its default). The class supports
  it, and `EcnEnabled` turns it on: any ACK may then carry the echo.
* **Teardown.** Everything `TcpConnection` sends fits the initial window, so nothing is
  paced and, with `N <= DupThresh`, nothing is retransmitted fast: that is `PccSender`'s part.
  Applications write and close between handlers. Timestamps are on, so the RST|ACK of the
  demultiplexer, which carries none, is discarded. Simultaneous open, a second Connect, a closed
  window, flags no end sends, and a close in SYN_RCVD (the application has no socket yet) are
  left out. `Drop` leaves the state as it is, so Send is accepted after an
  error close, as in the code.
* **The receive buffer** counts bytes; a packet is the sequence of its bytes, so a wrong offset
  shows. The sender keeps to the window it was told, but for the one-byte probe of a closed
  window; the data may come in any order, any number of times, or not. ACKs may be late
  or lost; `Recv` sends none. Sequence numbers do not wrap, the window field is not scaled.
* **The bridge** carries observations, rewards and actions as numbers: the state message
  `n`, the answer to it. A state message says whether it is the last and why. Messages
  arrive; ports and the closing of sockets are left out, as is a crash of either process.
  One flow per simulation uses the bridge. An agent steps, resets or closes as it likes,
  except that it does not step after an episode is done, as the loops of
  `aurora/ns3_stable_solve.py` and `aurora/test_gym.py` see to. An interrupt comes in the `recv` of a step
  (in the constructor the script is not in its `try` yet); `FromTerminal` chooses whether it
  reaches the simulation too.

## 3. The properties

| Property | Says |
|---|---|
| `TypeOK` | every field within its type |
| `ScoreboardConsistent` | no item both SACKed and lost, the head never SACKed, nothing SACKed that the receiver lacks (assertions of `TcpTxBuffer`) |
| `KnowledgeGrows` | scoreboard and ACKs in flight know nothing the receiver lacks, and no ACK asks for a segment that the scoreboard or an ACK before it has. An ACK may report less than those did |
| `TimerArmed` | outstanding data implies a running retransmission timer |
| `RecoveryOpen` | fast recovery is left by the very ACK that reaches the recovery point |
| `CwrOpen` | the same for CA_CWR |
| `DupAckCounted` | the two assertions of `DupAck` about the count of duplicate ACKs (without ECN, see section 6) |
| `TimeoutLeavesOne` | the assertion at the end of `ReTxTimeout` |
| `IntervalsSent` | no interval without a packet; only the newest still sends |
| `AccountedBounded` | `n_packets_accounted_for` stays within what its sequence numbers allow: no wrap below zero |
| `PassedIsAccounted` | out of wait mode, an interval the cumulative ACK has passed is accounted for, whatever was lost, retransmitted or missed |
| `WaitModeIsLoss` | the congestion control waits exactly in CA_LOSS (without ECN) |
| `RateSteady` | the rate changes only where an interval ends |
| `AllAcked` | all data is acknowledged, the connection gives up, or the agent leaves it at a window below one segment: then nothing is in flight, no timer runs, and nobody asks the agent again |
| `QueueDrains` | the interval queue drains, unless the congestion control is left in wait mode (`WaitEndsWithLoss`) |
| `CreditWithinSent`, `WaitEndsWithLoss` | violated, see section 6 |

Of the flow (`PccFlow`):

| Property | Says |
|---|---|
| `FlowTypeOK` | types; the episode is over exactly with its last decision |
| `DecisionsHaveIntervals` | each decision of the agent has exactly one interval, reported once or still pending, so rewards belong to actions in order |
| `CreditedOnce` | no byte is credited to two intervals, until a segment is sent a second time |
| `ThroughputSound` | until then both ends of a reported interval's time were set, and its throughput is not below zero |
| `SafetyNet` | violated, see section 6 |

Of the connection (`TcpConnection`):

| Property | Says |
|---|---|
| `TypeOK` | types, retry counters included: none passes zero |
| `EofComplete` | the sink learns of the end only after the close and with all that was written |
| `HalfClosed` | FIN_WAIT_2 means that the peer has the FIN and all the data |
| `WaitTimed` | no end waits for an answer without a timer |
| `ClosedIsQuiet` | no timer outlives the endpoint |
| `IsStream` | the refinement of `StreamService` |
| `Delivered` | what is written is handed on, unless an end closes or gives up |
| `BothEnd` | after a close both ends end, on a path that loses nothing |
| `CloseWaitsForData`, `FinsEnd` | violated, see section 6 |

Of the receive buffer (`TcpRxBuffer`):

| Property | Says |
|---|---|
| `BufferExact` | no byte twice or out of place, the counters agree with what is stored |
| `PromiseKept` | all of a segment within the advertised window would be kept |
| `SackTruth` | a SACK block is data held beyond the hole; no two touch |
| `NewestFirst` | what an out-of-order segment adds is in the first block (RFC 2018 (a)) |
| `ImplementsWindow` | the refinement of `ReceiveWindow` |
| `AllRead` | everything is read in the end |

Of the bridge (`OpenGym`):

| Property | Says |
|---|---|
| `TypeOK` | every field within its type |
| `Lockstep` | a simulation that waits has exactly one of: its request under way, the agent's debt, a reply under way; one that does not wait has none. So the two never wait for each other |
| `StepInTurn` | `step` never sends out of the REP socket's turn |
| `EndIsKnown` | if the simulation ran to its end, the agent knows that the episode is over and has nothing left to close |
| `SimulationsEnd` | every simulation started ends, however the agent leaves it |
| `AgentReturns` | the agent is not left in a `recv`. One case is exempt, because there the code does leave it: a simulation that ends before its first decision never sends anything (`opengym_interface.cc:301`), and `initialize_env` waits for ever |
| `KeepsPromise` | the refinement of `GymEpisodes`: the agent sees the next state only after its action for the last one was executed, no action is executed twice or unseen, an episode that is over stays so |

## 4. The runs

`OpenGym`, `TcpConnection` and `TcpRxBuffer` have so few constants that their runs
need no module of their own. `DupThresh` is 2 where 3 would need more segments
to reach fast retransmit; with it three segments behind a hole suffice. One
retry (`DataRetries`) is enough to have both outcomes of a timeout.

| Run | Instance | Shows |
|---|---|---|
| `sender_small` | 4 segments, 2 rates, 2 losses, one SACK block in an ACK, a list of two; 8.9·10⁵ states | the safety properties; fast retransmit, a second hole, partial ACKs, a lost retransmission, spurious and real timeouts, giving up |
| `sender_liveness` | 3 segments, ECN, a rate with an empty window, 1 loss, `FairSpec`; 2.0·10⁵ states | `AllAcked`, `QueueDrains`, and `CwrOpen`, which is about ECN |
| `flow` | 4 segments, 3 rates, episodes of 4 decisions, 1 loss; 7.8·10⁵ states | the properties of sender and rate controller together |
| `connection` | 2 segments, 2 losses, one timer too early, both ends closing at any time; 4.2·10⁵ states | the safety of handshake, transfer and teardown, and the stream |
| `connection_liveness` | 2 segments, 1 loss, `FairSpec`; 1.9·10⁴ states | `Delivered`, `BothEnd` |
| `rx_buffer` | 7 bytes in segments of up to 3, a window of 6, two SACK blocks, `FairSpec`; 3419 states | the properties of the receive buffer |
| `gym_bridge` | 3 episodes of up to 4 decisions, `FairSpec`, interrupts of the agent alone; 9420 states | the properties of the bridge; game over, end of simulation before and after the first decision, reset, close and interrupt |
| `credit`, `ecn_wait`, `safety_net`, `close_forgotten`, `endless_fins` | each one property | the first five disagreements of section 6 |

The bounds are small but not idle. With two bytes in a segment the
accounting by sequence numbers differs from counting; with four segments an
interval can lose its first, its last, or the packet that began the next
interval; with room for one SACK block two holes are enough for an ACK to
leave out what the one before it told; a window of two or three lets the pacing timer, the ACK clock and
the retransmission timer interleave. Two observations and four decisions make the window
of the rate controller pass over itself, and have a first, a middle and a last decision
(`GameOverAt` of the bridge is 400 in `GetGameOver`).

Two segments and two losses let either of data and FIN be lost with what would have
repeated it, a FIN overtake data, and an ACK fall to either side of a close; the timers expire
too early once. The liveness run has one loss and no early timer, since with more the
FINs need not end (section 6).

In seven bytes there is room for three blocks apart, more than the list of two
keeps; segments of three cover a stored packet with new bytes on both sides; and the
window is smaller than the stream, so the right edge bites.

Deadlock is not checked where the system really stops: the transfer ends with everything
acknowledged and every timer stopped, a connection with both sockets closed, a flow with
its last decision, the agent's script by returning. The proofs of section 7
hold for every size.

## 5. Fairness

`FairSpec` is weak fairness of each action but `Drop`. The simulator's event
loop runs every event that is in its queue: a timer that was started and not
cancelled expires, a packet that was not dropped arrives, and time goes on, so
intervals end. Nothing is assumed of losses but their bound. `TcpConnection` has the same of
its handlers, with strong fairness of the end of TIME_WAIT, in which packets may come. But for `Connect` the conditions are
written out instead of using `WF_vars`: they are exactly the guards of the actions,
and TLC evaluates them far faster than `ENABLED` of handlers this large.

The bridge has weak fairness of each simulation and of the agent. A simulation's event
loop reaches its next decision or its end, and an agent's script makes its next call or
ends; a process whose `recv` has a message returns from it. Which call the
agent makes is left open, and an interrupt need not come.

Of the receive buffer: the application reads what it is told of, and the sender sends the
byte that is missing again, or probes a closed window, for ever (weak fairness); of the ACKs
some arrive (strong fairness, as each sending may be lost).

## 6. Where the code and its comments disagree

Each of the first five has a run in which TLC shows it.

1. `CreditWithinSent`. Intervals are there to "pinpoint a acked/lost packet to
   the corresponding MonitorInterval" (`aurora/monitoring-interval.h:37`). An ACK names the
   byte it *waits* for, so its bytes go to the interval of the *next* packet; intervals are
   credited with more than they sent, or with nothing.
2. `WaitEndsWithLoss`. `CongestionStateSet` "notifies the congestion control
   algorithm that this state is about to be changed"
   (`src/internet/model/tcp-congestion-ops.h:133`). The ECN
   paths change the state without it, and wait mode outlives CA_LOSS.
3. `SafetyNet`. "Avoid send nothing as a good option" (`aurora/pcc_custom_rc.cc:213`), but the
   throughput is an unsigned difference (`:32`): an interval credited with nothing, whose last
   packet was a retransmission so that no ACK fell into it, reports gigabits. Conversely an
   interval all of whose packets one cumulative ACK covers has a time of zero, hence a
   throughput of zero and the penalty, though all was delivered; the same holds for one credited
   with exactly one packet.
4. `CloseWaitsForData`. "App close with pending data must wait until all data
   transmitted" (`aurora/tcp-socket-base-custom.cc:788`). After a timeout has set `m_nextTxSequence`
   back, Close takes what was sent for pending and leaves the FIN to the segment that will
   carry it; if the ACK on its way covers everything, no FIN is ever sent.
5. `FinsEnd`. "prevent endless FINs" (`:2698`). A FIN sent again is FIN|ACK, for which LAST_ACK closes
   without an answer (`:2615`), and the listener ignores the next; ReTxTimeout does not count retries
   while only the FIN is outstanding.

Seen in the models, or in the code while modelling it, without a run of their own:

* With ECN, `DupAck`'s assertion that the way from CA_OPEN to CA_DISORDER starts with the first
  duplicate ACK (`aurora/tcp-socket-base-custom.cc:1732`), and the one after it (`:1765`), do not hold.
  Duplicate ACKs are counted in CA_CWR too; the ACK that passes the recovery point goes to CA_OPEN
  (`:1870`) without resetting the count, and if it reports a new SACKed segment the reset in
  ProcessAck is skipped. `MCPccSender` with N = 6, DupThresh = 1, Rates = {6}, EcnEnabled and
  MaxDrops = 3 violates `DupAckCounted` after 18 steps: one segment lost in a marked window, a second after it,
  and the ACK in between. Without ECN the assertions are proved (`DupAcksCounted`).
* The utility of an interval "is calculated when all sent packets are accounted for"
  (`aurora/monitoring-interval.h:125`, `:132`), but a duplicate ACK for a lost packet names that packet, and
  finishes the interval that sent it.
* "Retransmitting indicates packet lost" (`aurora/tcp-socket-base-custom.cc:3994`), but
  on a partial ACK `DoRetransmit` may pick new data and report that lost.
* `contrib/opengym/examples/opengym/test.py:73` catches `KeyboardInterrupt`, says "Ctrl-C -> Exit" and
  closes the environment. A Ctrl-C at a terminal reaches the simulation as well, which ends; `close()` then calls
  `rx_env_state` (`ns3env.py:86`), which waits for a state that nobody will send. (`OpenGym` with
  `FromTerminal = TRUE` behaves so.)
* "This ACK corresponds to the FIN sent" (`aurora/tcp-socket-base-custom.cc:2605`), but
  ProcessLastAck looks at the sequence number of an ACK, not at what it acknowledges: an ACK of
  older data closes the socket, and a FIN that is lost is not sent again.
* In CLOSE_WAIT the application is still to close (`src/internet/model/tcp-socket.h:74`). A FIN
  that overtook data is noted while ESTABLISHED; if this side closes and then the data comes,
  ReceivedData calls DoPeerClose (`:2674`) in FIN_WAIT_1, which goes to CLOSE_WAIT and closes again.
* `src/internet/doc/tcp.rst:341` lists a timeout in LAST_ACK under NotifyNormalClose;
  LastAckTimeout (`:3887`) calls NotifyErrorClose.
* All packets of monitor intervals carry the interval id 0, a member never advanced; flows in
  one process would share one minimum latency. The scripts use one flow.
* A SACK block that a larger segment swallows stays in the list, a subset of the first,
  against the comment in `tcp-rx-buffer.cc` that there be none (after bytes 2 and 1 to 3, the list
  has [1,4) and [2,3)); and a repeated out-of-order segment does not bring its block to the front.

## 7. What is proved

The theorems hold for every value of the constants that satisfies the named assumptions.

### The sender

`PccSender_proofs` proves, for every amount of data, duplicate threshold, set of
rates, segment size, number of retries and of losses, length of the SACK list and of the option:

* `TypeCorrect`: `Spec => []TypeOK`
* `ScoreboardCorrect`: `Spec => []ScoreboardConsistent`
* `KnowledgeCorrect`: `Spec => []KnowledgeGrows`
* `TimerAlwaysArmed`: `Spec => []TimerArmed`
* `WaitModeCorrect`: `Spec => []WaitModeIsLoss`, assuming `~EcnEnabled`

from the named assumptions on the constants (`TxBufferAssumption`,
`UintModAssumption`, `PccAssumption`, `SenderAssumption`), which TLC evaluates on
each run.

None of these is inductive alone. `ScoreboardConsistent` needs to know that the
ACK about to be processed does not name as SACKed a segment that is not sent,
nor fall behind the head; that is `KnowledgeGrows`, which needs types and the flags of
the scoreboard within the sent list. With more holes than an ACK has room for, an ACK does not repeat all
that the scoreboard or an ACK before it has, so `KnowledgeGrows` orders the ACKs by `Upholds`
only: a later one is not below what was told, and does not ask for a segment that was. That is
enough for the head (`DiscardUpTo`), and is proved from the receiver: whoever is `Behind` what the receiver has is
upheld by the ACK it sends now, whatever blocks it picks, since the segment it waits for is one it lacks
(`BehindUpholds`, `SendAckIs`). `TimerArmed` needs `TypeOK` and that a handler
that sends can send (`CanCopy`); `WaitModeIsLoss` needs that without ECN nothing
enters CA_CWR. `IInv` is their conjunction and is inductive; `Invariant` states
`Spec => []IInv`, and the others follow from it.

The proof has two layers above the callbacks of the congestion control, which keep
types and do not touch the wait mode. `Keeps(t, u)` says what one call inside a handler may do
to a sender; one lemma per operator (`SendDataPacketKeeps`, `DupAckKeeps`, ...) and
`KeepsTransitive` carry it through the whole of `AckProcessed` and `TimedOut`. Above it
there is one lemma per action, with two shared by the sender's and by the receiver's
actions (`SenderStep`, `ReceiverStep`). `TcpTxBuffer_proofs` shows that each operation
keeps the scoreboard well formed, and that after a timeout there is a segment to send;
`NumberSets` has the minimum and maximum of a bounded set.

The last part of the module goes through the same operators with other relations:

* `RecoveryEnds`: `Spec => []RecoveryOpen`
* `CwrEnds`: `Spec => []CwrOpen`
* `RateIsSteady`: `Spec => RateSteady`
* `DupAcksCounted`: `Spec => []DupAckCounted`, assuming `~EcnEnabled`
* `TimeoutsLeaveOne`: `Spec => TimeoutLeavesOne`, assuming `DataRetries # 0`

`Continues(t, u)` says that a sender in CA_RECOVERY or CA_CWR either was there before, with the same
recovery point, or has just entered it with a point that is not reached; and that
the congestion control stays `Steady`: an interval being sent goes on at its rate. The recovery
point is beyond the head when it is set because a duplicate ACK reports a segment in the sent list above
it (in `AckProcessedWithin`); it is checked again whenever the head moves, by `LeaveCwr` and by
the branches of `ProcessAck`. `RateSteady` needs that only the clock ends an interval
(`QueueKeepsEnded`) and that `CheckMonitoringInterval` pops no interval that has not ended.
`Counted` strengthens `DupAckCounted` to an inductive formula: outside CA_RECOVERY and CA_LOSS no
recovery point is active, so the count is below the threshold in CA_DISORDER, whose
last duplicate ACK enters recovery. All of it holds together with `IInv`.

`TimeoutsLeaveOne` is about the assertion at the end of `ReTxTimeout`, and says it of the timeout that
gives up as well. That one returns early and marks no segment lost; that no more than one is in flight
then is the work of the timeouts before it. `Probing` says that a sender that has used a retry is in CA_LOSS and waiting, with a window of one segment and
one in flight at most, until an ACK of new data gives the retries back. With `m_dataRetries = 0` the first
timeout gives up with all in flight; the default is 6, and no script changes it.

`PccIntervals_proofs` is about what the calls of the socket do to the monitor intervals:

* `PassedCorrect`: `Spec => []PassedIsAccounted`
* `IntervalsSentCorrect`: `Spec /\ []Roomy => []IntervalsSent`
* `AccountedCorrect`: `Spec /\ []Roomy => []AccountedBounded`, assuming `~EcnEnabled`

and, of the flow and its agent (`PccFlow`),

* `FlowTypeCorrect`: `FlowSpec => []FlowTypeOK`
* `DecisionsCorrect`: `FlowSpec => []DecisionsHaveIntervals`
* `CreditedCorrect`: `FlowSpec => []CreditedOnce`
* `ThroughputIsSound`: `FlowSpec => ThroughputSound`, assuming `End < UintMod`, that is, a file of
  fewer bytes than a 32-bit counter counts; the others need no more than the named assumptions

A handler is a walk through views of the sender: its congestion control, the highest segment sent, and what
it handed to IP. `HandlerIn` is the one lemma that goes through the handlers: it says that such a walk
consists of packets sent (at most two, each unacknowledged and either new or sent before), losses reported
right after the send of the same number, changes of state, and in `ReceivedAck` one `CongControl`, after
which only sending is left. So a set of views is kept when these steps keep it, and `QueueStep` reduces that to
what one interval hears in one call.

`PassedCorrect` needs nothing but the order: `CongControl` accounts for every interval that ends below
the ACK, and what is sent after it lies at or beyond the ACK; a wait misses ACKs, and the first `CongControl` after it
makes up for them all at once. The other two need `Roomy`: the file, and what an interval has sent plus the file, are
less than the range of the 32-bit counters (`UintMod`); the model lets an interval go on
retransmitting for ever, so that is a condition on the behaviour and not on the constants. `Sums` is the inductive strengthening
of `AccountedBounded`: what is accounted for reaches from some packet of the interval to the last
accounted one, and no packet it can still hear of, from its first one or the cumulative ACK on, takes the
sum below zero; the third case is an interval that was passed as a whole. Without ECN the
newest interval hears of a loss only for the packet it has just sent. With ECN a loss can also be reported during a
wait; the run has no ECN either, and nothing is claimed of `AccountedBounded` there.

The flow's theorems walk the same views with the rate controller as it was when the handler began: `Told(rc, cc)`
is what it will be after the calls the congestion control has made so far. `Balanced` says that its decisions
are those it was told the end of and those that have an interval in the queue; a packet sent that opens an interval is a
decision and an interval, a report moves one from the queue to the count, and nothing else asks or reports.
`CreditedOnce` needs two facts more (`Crediting`). The intervals are `Apart`: each one's packets lie above
those of the one before, and all below the next new segment, so that an ACK falls into one interval at most and its
bytes are credited once. And an ACK credits exactly what it newly delivers, by which the set of delivered segments grows
(`DeliveredGrows`). Both end with the first retransmission, which may stretch the newest interval
back over older ones; `resent` then holds for good. `HearAll` and `Total` are recursive functions: what they compute after one
more element (`TotalAppend`, `HearAllConcat`) is proved from the least number for which it fails (`UpTo`),
since the induction theorems of the library cannot be used.

`ThroughputSound` speaks of a single report, but what makes it true is spread over sender, path and receiver. A
throughput wraps below zero when an interval was credited with less than a packet and the two ends of its
time come from different handlers (`apart`); so the proof has to show that no ACK is credited with
nothing. `FlowTimes` is the inductive invariant. It adds to `FlowInv`, as long as no segment was sent again:

* no segment is marked retransmitted, and the state is not CA_RECOVERY. A handler in which a loss is reported is
  one that retransmits: `EnterRecovery` and the timeout send the segment at the head at once (`Again`), and
  `resent` holds from then on. Any other handler stays `Calm` until it sends, and sends
  one new segment at most (`Ended`).
* `PathNew`: each segment on the path is there once and is new to the receiver. `PathAdds`: each ACK tells of
  a segment that neither the sender nor any ACK before it knows, the one whose arrival it answers; so will the one the
  receiver holds back. The ACK may leave out blocks that others reported: the block of that segment comes first in
  it. Both survive losses, since dropping a segment or an ACK leaves less to be known before the others. An ACK that
  tells of such a segment delivers at least that one (`NewlyAdds`), so what it credits is `MSS` or more.
* `Timed(high, b)`, of each interval in the queue: its packets are full segments, sent one beyond the other below
  `high`; its credit is none, or from `MSS` to `b`, the bytes delivered; both ends of its time are set if any of
  it is accounted for; without credit, both come from one handler. The upper bounds keep the
  32-bit sums from wrapping, and are where `End < UintMod` is used.

One lemma carries `Timed` through each call an interval hears (`SentTimed`, `AckedTimes`, `HeardTimed`,
and for the queue `TimedCC`), one per part of a handler carries `Calm`, and `HandlerTimes` puts handler
and path together. TLC found these parts invariant on the instance of `MCPccFlow` before they were proved.

### The bridge

`OpenGym_proofs` proves, for every number of episodes and of decisions
(`GymAssumption`), where an interrupt does not reach the simulation (`~FromTerminal`):

* `TypeCorrect`: `Spec => []TypeOK`
* `LockstepCorrect`: `Spec => []Lockstep`
* `StepInTurnCorrect`: `Spec => []StepInTurn`
* `EndIsKnownCorrect`: `Spec => []EndIsKnown`
* `PromiseKept`: `Spec => KeepsPromise`, the refinement of `GymEpisodes`

The assumption is needed: a simulation killed by the terminal leaves its request behind,
which `Lockstep` excludes.

`Lockstep` alone is not inductive. That a state the agent receives is the simulation's
latest, that the last one is answered with a stop request, and that an agent between two
calls either owes an answer or knows that the episode is over, each depend on where
both processes are. `EpisodeOK(e)` says what the place of a simulation tells of
its messages and of what the agent has seen; `AgentOK` what the agent's place tells of
the simulation it talks to. `IInv` is `TypeOK`, `EpisodeOK` of every episode, and
`AgentOK`. There is one lemma per action; `SameEpisode`, `OtherEpisode` and `BridgeStep` dispose of
the episodes an action does not concern. For the refinement, the two actions in which a state
arrives are `Observe`, a reply that does not stop the simulation is `Execute`, one that
does, or the end, is `Finish`, and everything else stutters.

### The connection

`TcpConnection_proofs`, on top of `TcpWriter_proofs`, proves, for every amount of data,
number of retries, of closes and of losses, and however early the timers expire
(`TxBufferAssumption`, `ConnectionAssumption`; `N <= DupThresh` is part of what the module
models, a connection in its first window):

* `ConnAlways`: `Spec => []ConnInv`, the inductive invariant
* `EofCorrect`: `Spec => []EofComplete`
* `HalfClosedCorrect`: `Spec => []HalfClosed`
* `WaitTimedCorrect`: `Spec => []WaitTimed`
* `ClosedCorrect`: `Spec => []ClosedIsQuiet`
* `ConnectionIsStream`: `Spec => IsStream`, the refinement of `StreamService`
* `StreamCorrect`: `Spec => []Stream!StreamSafe`: what was let go of has been handed on, what was handed on
  was written, and the end comes with the last of it
* `ConnTypeCorrect`: `Spec => []TypeOK`, in which no sequence number is more than three past the data

None of the properties is inductive, and none is about one end alone. That the end of
the stream is complete depends on which FINs can be on the path, that on when the writer
sends one, and that on what its buffer holds; that FIN_WAIT_2 is not entered too early depends on
which acknowledgment numbers the reader can have sent. `ConnInv` is `Linked(A, B, ...)`
with the types, and has four parts.

* `Writer(t, c, R, h)`, of the writer's socket, where `c` counts the closes, and `R` is the next number
  the reader expects. `WriterData`: the head of the stream and `m_txBuffer` agree, the next number is at most one
  past the data unless the reader has had it, a FIN is sent only after a close and with all the data sent
  before. `WriterTimed` is `WaitTimed` strengthened to what each handler
  needs of the event it finds in `m_retxEvent`.
* `Reader(t, w, c)`, of the reader's. `ReaderData`: what is held is beyond what was handed on and was
  written; the next number is one past what was handed on, or the FIN is in; a FIN that waits is at the
  end of the data or one past it. `ReaderState`: the states that mean the FIN is in, and their timers.
* On the way to the reader: every packet is one the writer may have sent (`FromWriter`), and a SYN finds a
  reader that has nothing (`SynFirst`).
* On the way to the writer: every acknowledgment is of numbers the reader has (`ToWriter`), and what
  they report grows along the path (`InOrder`). So the writer's head never passes what was handed on, and
  an old ACK is recognised as one.

A lemma per handler says what it does to one end, given packets of that kind from the other;
`R`, `c` and `w` only grow, and each invariant survives that (`LinkedIs`). One lemma per
action puts the ends and the path together again (`HandledWriter`, `HandledReader`). Each
also shows which way the stream moves (`Moves`): the reader goes on while the writer stands, or
the writer writes, closes, or lets go of data while the reader stands. `NextStream` maps these to
`Write`, `Close`, `Deliver`, `Release` and stuttering. `InStep`, which follows from `ConnInv`, provides
that what the writer lets go of has been handed on.

In all this sequence numbers have no bound (`NumberedSockets`). `ConnTypeCorrect` gives them one, from an invariant
of its own on top of `ConnInv`, since how high a number can get at one end depends on the other and on
when each closed: a FIN that acknowledges a FIN, sent again by an end that has gone on to count its own, is
what could drive both up. `Bounded(t, L)` says of one socket that its numbers and those of
the packets it sends are within the limits `L`, and in which states the limits can still be reached
(`Phase`). `Ranged` holds each end to limits that depend on the other (`LimitsA`, `LimitsB`): the reader notes no FIN
while the writer is in a state in which it has sent none (`Open`), and then one at most one past the data; the
writer takes the reader's FIN, number one, only when that can have been sent, which needs the
writer's FIN noted, or a sink that was stopped (`Silent`); and the reader's next number is two only when the writer
expects two. Again a
lemma per handler keeps a socket `Bounded`, and one per action keeps `Ranged` (`NextHeld`). The highest number that
this leaves is `N + 3`, in a packet the writer sends after its FIN.

### The receive buffer

`TcpRxBuffer_proofs` proves every safety property of the receive buffer, for every length of the stream,
size of the buffer, largest segment and number of SACK blocks (`RxAssumption`):

* `RxAlways`: `Spec => []RxInv`, the inductive invariant
* `BufferCorrect`: `Spec => []BufferExact`
* `PromiseCorrect`: `Spec => []PromiseKept`
* `SackCorrect`: `Spec => []SackTruth`
* `NewestCorrect`: `Spec => NewestFirst`
* `BufferIsWindow`: `Spec => ImplementsWindow`, the refinement of `ReceiveWindow`
* `WindowCorrect`: `Spec => []WindowKept`: the receiver asks for its first hole (or one past the FIN), and
  what it holds is less than a buffer beyond the first byte not read

`BufferExact` is not inductive: that Add stores nothing twice needs that `m_nextRxSeq` is the first
hole, that a packet of the right number holds the right bytes, and that nothing is held outside the window.
`GoodRx(t, n)` says that of a buffer of which `n` bytes have been read, in named parts: `Packets`,
`InOrder`, `InWindow`, `Counts`, `TrueSack`. `RxInv` adds that what was read is the beginning of the stream,
and that the edge the sender knows is within a buffer's length of it: the window never shrinks.

* `TrimmedIs`: what is left of a segment starts at a byte not held, and has all of the segment
  that was missing; each packet is either inside it, and goes, or outside it (`Apart`).
* `SwallowedIs`, `PutIs`: the bytes taken off `m_size` are those of the packets that go, by a bijection
  between their bytes and their positions; `StoredGood` puts the counters, the hole and the list together.
* `MergeOneIs`, `MergedIs`: as long as two blocks touch a pass shortens the list, and at most the first block
  touches another, so after as many passes as there are blocks none do. `ClearSackListIs`: what is left are
  blocks of the list that reach beyond the hole; since no block crosses the hole they begin beyond it.
* `ExtractGood`: a read takes the first bytes in order, and a packet cut in two keeps the
  numbers of its bytes.

The refinement maps the positions read and held to `got`. `Arrive` is `Take` or stutters,
`FinArrives` is `TakeFin`, `Recv` is `Read`. `HoleIsStop` shows that the first missing position of `got`
is where `InOrder` ends.

`Merged` is a recursive function, and the induction theorems of the library cannot be used
here. `PassesExist` and `MergedIs` do without them: the first number of passes for which a statement fails
exists by `MinInSet`, and the one before it leads to a contradiction. That there is such a function at all
is shown the same way.

### What only TLC checks

Every invariant and every action property of a passing run is stated by a theorem. Liveness is beyond
the prover, since it involves fairness and `ENABLED`: `AllAcked` and `QueueDrains` of the sender, `Delivered` and `BothEnd`
of the connection, `AllRead` of the receive buffer, `SimulationsEnd` and `AgentReturns` of the bridge. What the runs of
section 6 show to be violated has no theorem, of course.

## 8. Not modelled, and why

* **Persist timer of the custom socket, receive window as a limit of the sender, first unpaced
  window**: the receiver's window never binds in `sim.cc`; `TcpRxBuffer` has the probe as
  the receiver sees it.
* **Floating point**: utility, RTT statistics, delivery rates (`TcpRateLinux`). They decide nothing
  but the agent's input, or nothing at all.
* **`tcp-l4-protocol-custom`, `tcp-socket-factory-impl-custom`, `tcp-congestion-ops-custom`**:
  renamed copies of ns-3 classes; of the first, the demultiplexing is in `TcpConnection`, the others have
  no protocol state.
* **`scratch/tcp/tcp-constant-rate`**: the predecessor; the same socket but for three lines.
* **Path MTU, IPv6, ICMP, urgent data, sequence number wrap**: not met by the scripts.
* **Scripts, examples, containers, vendored ns-3** (LTE, Wi-Fi, routing, devices): configuration,
  conversion, or not this project's code.

## 9. Plan

1. The constant-rate flow as a second congestion control under `PccSender`.
2. The persist timer and the window as limits of the sender, joined with `TcpRxBuffer`.
