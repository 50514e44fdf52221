------------------------------- MODULE OpenGym -------------------------------
(***************************************************************************)
(* The ns3-gym bridge: a simulation process whose OpenGymInterface         *)
(* (contrib/opengym/model/opengym_interface.cc) holds a ZMQ REQ socket,    *)
(* and the agent's process with Ns3Env and Ns3ZmqBridge (ns3gym/ns3env.py) *)
(* and a REP socket.  Each episode has a simulation and a bridge of its    *)
(* own, numbered e.                                                        *)
(*                                                                         *)
(* Messages arrive: a socket that is closed delivers what it was given,    *)
(* and the port of an old bridge is free for the new one.                  *)
(*                                                                         *)
(* Both processes block in recv without a timeout.  An action is what one  *)
(* of them does from one recv to the next, or to the return to its caller. *)
(*                                                                         *)
(* A REP socket answers in turn: env.owed says that a request has been     *)
(* received and not answered.  A send out of turn raises an exception,     *)
(* which close() swallows, before it comes to the lines that kill          *)
(* processes.  Those lines end no simulation in any case: the first kills  *)
(* the shell the simulation was started from, and the next raises too, for *)
(* the name signal is not imported.  What ends a simulation is a reply     *)
(* with stopSimReq, or its own end.                                        *)
(***************************************************************************)
EXTENDS Integers, Sequences

CONSTANTS
  MaxEpisodes,   \* bound on the episodes an agent runs
  GameOverAt,    \* decisions after which GetGameOver ends an episode: 400
  FromTerminal   \* whether an interrupt is a terminal's Ctrl-C, which reaches
                 \* every process, or a signal to the agent's process only

ASSUME GymAssumption == /\ MaxEpisodes \in Nat \ {0}
                        /\ GameOverAt \in Nat \ {0}
                        /\ FromTerminal \in BOOLEAN

VARIABLES
  sim,       \* the simulation of each episode
  env,       \* the agent's process
  request,   \* messages from simulation to agent, by episode
  reply      \* messages from agent to simulation, by episode

vars == <<sim, env, request, reply>>

Episodes == 1..MaxEpisodes

\* pc: not started; in the event loop; in recv of Init or of NotifyCurrentState;
\* exited on a stop request; main has returned; killed by a signal.  steps is the static stepCounter
\* of GetGameOver, and the number of the last state sent; executed counts the
\* actions executed.
Sims ==
  [pc: {"none", "run", "init", "act", "exited", "returned",
        "killed"},
   initSent: BOOLEAN, simEnd: BOOLEAN, steps: 0..GameOverAt,
   executed: 0..GameOverAt]

\* pc: in recv of initialize_env, of rx_env_state, or of the rx_env_state that
\* close() calls; between two calls of the agent; closed; failed in step.
Envs ==
  [pc: {"initialize_env", "rx_env_state", "close", "agent", "closed", "failed"},
   bridge: Episodes, owed: BOOLEAN, newStateRx: BOOLEAN, envStopped: BOOLEAN,
   forceEnvStop: BOOLEAN, gameOver: BOOLEAN, envDirty: BOOLEAN,
   seen: [Episodes -> 0..GameOverAt]]

Requests ==
  [type: {"SimInitMsg"}] \cup
  [type: {"EnvStateMsg"}, step: 1..GameOverAt, isGameOver: BOOLEAN,
   simulationEnd: BOOLEAN]

Replies ==
  [type: {"SimInitAck"}] \cup
  [type: {"EnvActMsg"}, stopSimReq: BOOLEAN]

TypeOK ==
  /\ sim \in [Episodes -> Sims]
  /\ env \in Envs
  /\ request \in [Episodes -> Seq(Requests)]
  /\ reply \in [Episodes -> Seq(Replies)]

NoSim == [pc |-> "none", initSent |-> FALSE, simEnd |-> FALSE, steps |-> 0,
          executed |-> 0]

\* start_sim_script
Started(sims, e) == [sims EXCEPT ![e].pc = "run"]

\* Ns3ZmqBridge.__init__, up to the recv of initialize_env.
NewBridge(v, e) ==
  [v EXCEPT !.pc = "initialize_env", !.bridge = e, !.owed = FALSE,
            !.newStateRx = FALSE, !.envStopped = FALSE, !.forceEnvStop = FALSE,
            !.gameOver = FALSE, !.envDirty = FALSE]

Init ==
  /\ sim = Started([e \in Episodes |-> NoSim], 1)
  /\ env = NewBridge([pc |-> "agent", bridge |-> 1, owed |-> FALSE,
                      newStateRx |-> FALSE, envStopped |-> FALSE,
                      forceEnvStop |-> FALSE, gameOver |-> FALSE,
                      envDirty |-> FALSE, seen |-> [e \in Episodes |-> 0]], 1)
  /\ request = [e \in Episodes |-> <<>>]
  /\ reply = [e \in Episodes |-> <<>>]

-----------------------------------------------------------------------------
\* The simulation.

Waiting(e) == sim[e].pc \in {"init", "act"}

Ended(e) == sim[e].pc \in {"exited", "returned", "killed"}

\* The rest of NotifyCurrentState up to its recv: IsGameOver counts the call.
SendState(e, x, end) ==
  LET n == x.steps + 1
  IN /\ sim' = [sim EXCEPT ![e] = [x EXCEPT !.pc = "act", !.steps = n]]
     /\ request' = [request EXCEPT ![e] = Append(@,
          [type |-> "EnvStateMsg", step |-> n,
           isGameOver |-> n >= GameOverAt \/ end, simulationEnd |-> end])]

\* GetNextSendingRate: Notify, with Init before the first state.
Notify(e) ==
  /\ sim[e].pc = "run"
  /\ IF sim[e].initSent THEN SendState(e, sim[e], FALSE)
     ELSE /\ sim' = [sim EXCEPT ![e].pc = "init", ![e].initSent = TRUE]
          /\ request' = [request EXCEPT ![e] = Append(@, [type |-> "SimInitMsg"])]
  /\ UNCHANGED <<env, reply>>

\* Init returns to NotifyCurrentState.  No agent asks to stop in a SimInitAck.
InitAcked(e) ==
  /\ sim[e].pc = "init" /\ reply[e] # <<>>
  /\ reply' = [reply EXCEPT ![e] = Tail(@)]
  /\ SendState(e, sim[e], FALSE)
  /\ UNCHANGED env

\* Variant: the stop request is not looked at.
AfterReply_IgnoresStop(x, m) ==
  IF x.simEnd THEN [x EXCEPT !.pc = "returned"]
  ELSE [x EXCEPT !.pc = "run", !.executed = @ + 1]

\* What NotifyCurrentState does with the reply.
AfterReply(x, m) ==
  IF x.simEnd THEN [x EXCEPT !.pc = "returned"]
  ELSE IF m.stopSimReq THEN [x EXCEPT !.pc = "exited"]
  ELSE [x EXCEPT !.pc = "run", !.executed = @ + 1]

ActReceived(e) ==
  /\ sim[e].pc = "act" /\ reply[e] # <<>>
  /\ reply' = [reply EXCEPT ![e] = Tail(@)]
  /\ sim' = [sim EXCEPT ![e] = AfterReply(@, Head(reply[e]))]
  /\ UNCHANGED <<env, request>>

\* Variant: main does not call NotifySimulationEnd.
SimulationEnds_Silent(e) ==
  /\ sim[e].pc = "run"
  /\ sim' = [sim EXCEPT ![e].pc = "returned"]
  /\ UNCHANGED <<env, request, reply>>

\* Simulator::Stop, and NotifySimulationEnd: before the first decision there is
\* nobody to notify.
SimulationEnds(e) ==
  /\ sim[e].pc = "run"
  /\ IF sim[e].initSent THEN SendState(e, [sim[e] EXCEPT !.simEnd = TRUE], TRUE)
     ELSE /\ sim' = [sim EXCEPT ![e].simEnd = TRUE, ![e].pc = "returned"]
          /\ UNCHANGED request
  /\ UNCHANGED <<env, reply>>

-----------------------------------------------------------------------------
\* The agent's process.  A call of the bridge is an operator from env to env;
\* owed falls where it answers.

StopReply == [type |-> "EnvActMsg", stopSimReq |-> TRUE]

Incoming == request[env.bridge]

Receive == request' = [request EXCEPT ![env.bridge] = Tail(@)]

Reply(m) == reply' = [reply EXCEPT ![env.bridge] = Append(@, m)]

\* Variant: the state that was answered still counts as new.
Answered_KeepsState(v) == [v EXCEPT !.owed = FALSE]

\* send_actions and send_close_command, after the send.
Answered(v) == [v EXCEPT !.owed = FALSE, !.newStateRx = FALSE]

\* Variant: the end of an episode waits for the agent's next call.
StateReceived_Unanswered(v, m) ==
  [v EXCEPT !.owed = TRUE, !.gameOver = m.isGameOver, !.seen[v.bridge] = m.step,
            !.envStopped = @ \/ m.simulationEnd,
            !.forceEnvStop = @ \/ m.isGameOver, !.newStateRx = TRUE]

\* Variant: every end counts as a game over.
StateReceived_AnyEnd(v, m) ==
  [v EXCEPT !.owed = ~m.isGameOver, !.gameOver = m.isGameOver,
            !.seen[v.bridge] = m.step, !.forceEnvStop = @ \/ m.isGameOver,
            !.newStateRx = TRUE]

\* Variant: the first observation is never replaced.
StateReceived_KeepsFirst(v, m) ==
  [v EXCEPT !.owed = ~m.isGameOver, !.gameOver = m.isGameOver,
            !.seen[v.bridge] = IF @ = 0 THEN m.step ELSE @, !.newStateRx = TRUE]

\* rx_env_state with the message m.  The end of an episode is answered at once.
StateReceived(v, m) ==
  LET got == [v EXCEPT !.owed = TRUE, !.gameOver = m.isGameOver,
                       !.seen[v.bridge] = m.step]
      over == IF m.simulationEnd THEN [got EXCEPT !.envStopped = TRUE]
              ELSE [got EXCEPT !.forceEnvStop = TRUE]
  IN [IF m.isGameOver THEN Answered(over) ELSE got EXCEPT !.newStateRx = TRUE]

\* Variant: close() does not tell the simulation to stop.
Close_Silent(v) == [v EXCEPT !.envStopped = TRUE, !.forceEnvStop = TRUE]

\* Ns3ZmqBridge.close with a state at hand: rx_env_state returns at once, and
\* send_close_command answers if the socket lets it.
Close(v) ==
  LET stop == [v EXCEPT !.envStopped = TRUE, !.forceEnvStop = TRUE]
  IN IF v.envStopped THEN v ELSE IF v.owed THEN Answered(stop) ELSE stop

\* The reply that goes with a close.
StopSent ==
  IF env.owed /\ ~Close(env).owed THEN Reply(StopReply) ELSE UNCHANGED reply

InitializeEnv ==
  /\ env.pc = "initialize_env" /\ Incoming # <<>>
  /\ Receive
  /\ env' = [env EXCEPT !.pc = "rx_env_state"]
  /\ Reply([type |-> "SimInitAck"])
  /\ UNCHANGED sim

RxEnvState ==
  /\ env.pc = "rx_env_state" /\ Incoming # <<>>
  /\ Receive
  /\ LET v == StateReceived(env, Head(Incoming))
     IN /\ env' = [v EXCEPT !.pc = "agent"]
        /\ IF v.owed THEN UNCHANGED reply ELSE Reply(StopReply)
  /\ UNCHANGED sim

\* Ns3Env.step, unless the episode is done: send_actions, then rx_env_state,
\* which waits only if there is no state yet.
Step ==
  /\ env.pc = "agent" /\ ~env.gameOver
  /\ LET v == Answered([env EXCEPT !.envDirty = TRUE])
     IN IF env.owed
        THEN /\ env' = [v EXCEPT !.pc = IF v.newStateRx THEN "agent"
                                       ELSE "rx_env_state"]
             /\ Reply([type |-> "EnvActMsg", stopSimReq |-> env.forceEnvStop])
        ELSE env' = [env EXCEPT !.pc = "failed"] /\ UNCHANGED reply
  /\ UNCHANGED <<sim, request>>

\* Ns3Env.reset after a step: close, then a new bridge and a new simulation.
Reset ==
  /\ env.pc = "agent" /\ env.envDirty /\ env.bridge < MaxEpisodes
  /\ StopSent
  /\ env' = NewBridge(env, env.bridge + 1)
  /\ sim' = Started(sim, env.bridge + 1)
  /\ UNCHANGED request

\* Ns3Env.close at the end of the agent's script.
CloseEnv ==
  /\ env.pc = "agent"
  /\ StopSent
  /\ env' = [Close(env) EXCEPT !.pc = "closed"]
  /\ UNCHANGED <<sim, request>>

\* KeyboardInterrupt in the recv of a step: the script's finally clause calls
\* close(), which waits for a state to answer.
Interrupt ==
  /\ env.pc = "rx_env_state" /\ env.envDirty
  /\ env' = [env EXCEPT !.pc = "close", !.envStopped = TRUE, !.forceEnvStop = TRUE]
  /\ sim' = IF FromTerminal
            THEN [e \in Episodes |-> IF sim[e].pc = "none" \/ Ended(e) THEN sim[e]
                                     ELSE [sim[e] EXCEPT !.pc = "killed"]]
            ELSE sim
  /\ UNCHANGED <<request, reply>>

\* close() goes on: rx_env_state, then send_close_command.  One of them answers.
CloseReceives ==
  /\ env.pc = "close" /\ Incoming # <<>>
  /\ Receive
  /\ LET v == StateReceived(env, Head(Incoming))
     IN env' = [IF v.owed THEN Answered(v) ELSE v EXCEPT !.pc = "closed"]
  /\ Reply(StopReply)
  /\ UNCHANGED sim

-----------------------------------------------------------------------------
Simulation(e) == Notify(e) \/ InitAcked(e) \/ ActReceived(e) \/ SimulationEnds(e)

Agent == InitializeEnv \/ RxEnvState \/ Step \/ Reset \/ CloseEnv \/ CloseReceives

Next == (\E e \in Episodes : Simulation(e)) \/ Agent \/ Interrupt

Spec == Init /\ [][Next]_vars

\* Both processes go on when they can: the simulation's clock reaches the next
\* decision or its end, and the agent's script makes its next call.
FairSpec ==
  /\ Spec
  /\ \A e \in Episodes : WF_vars(Simulation(e))
  /\ WF_vars(Agent)

-----------------------------------------------------------------------------
\* Properties.

\* A simulation that waits is not forgotten: its request, the answer the agent
\* owes it, or the reply is there, and only one of them.  So both processes never
\* wait for each other, not even across a reset, a game over or an
\* interrupt of the agent.
Lockstep ==
  \A e \in Episodes :
    LET owes == IF env.bridge = e /\ env.owed THEN 1 ELSE 0
    IN Len(request[e]) + Len(reply[e]) + owes = IF Waiting(e) THEN 1 ELSE 0

\* step never finds the REP socket out of turn.
StepInTurn == env.pc # "failed"

\* A simulation that ran to its end has told the agent, which knows that there is
\* nothing left to close.
EndIsKnown ==
  \A e \in Episodes :
    sim[e].pc = "returned" /\ sim[e].initSent /\ env.bridge = e
      => env.gameOver /\ env.envStopped

\* Every simulation started ends, however the agent leaves it.
SimulationsEnd == \A e \in Episodes : sim[e].pc # "none" ~> Ended(e)

\* The agent's process is not left in a recv, unless its simulation came to its
\* end before the first decision.
AgentReturns ==
  <>(\/ env.pc = "closed"
     \/ sim[env.bridge].pc = "returned" /\ ~sim[env.bridge].initSent)

\* The bridge implements the episodes it promises.
Promised ==
  INSTANCE GymEpisodes WITH
    seen <- env.seen,
    executed <- [e \in Episodes |-> sim[e].executed],
    over <- [e \in Episodes |-> Ended(e)]

KeepsPromise == Promised!Spec

=============================================================================
