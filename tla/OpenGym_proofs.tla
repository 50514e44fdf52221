--------------------------- MODULE OpenGym_proofs ---------------------------
(***************************************************************************)
(* Safety of the bridge, for every number of episodes and of decisions,    *)
(* where an interrupt does not reach the simulation.                       *)
(*                                                                         *)
(* EpisodeOK says what the state of a simulation tells of the messages     *)
(* between it and its bridge, and of what the agent has seen; AgentOK what *)
(* the agent's place in its program tells of the simulation it talks to.   *)
(* Together they are inductive.                                            *)
(***************************************************************************)
EXTENDS OpenGym, SequenceTheorems, TLAPS

\* The state message of a simulation in NotifyCurrentState.
StateMsg(x) ==
  [type |-> "EnvStateMsg", step |-> x.steps,
   isGameOver |-> x.steps >= GameOverAt \/ x.simEnd, simulationEnd |-> x.simEnd]

\* The agent has received a request of e and not answered it.
Owes(e) == env.bridge = e /\ env.owed

\* The one message of a waiting simulation, or the agent's debt.
Turn(e) ==
  Len(request[e]) + Len(reply[e]) + (IF Owes(e) THEN 1 ELSE 0)
    = IF Waiting(e) THEN 1 ELSE 0

\* Simulations are started in order, and count from zero.
NotStarted(e) ==
  /\ sim[e].pc = "none" <=> env.bridge < e
  /\ sim[e].pc = "none" => ~sim[e].initSent /\ ~sim[e].simEnd
  /\ sim[e].pc \in {"none", "init"}
       => sim[e].steps = 0 /\ sim[e].executed = 0 /\ env.seen[e] = 0

\* In the event loop, every state sent has been seen and answered.
Running(e) ==
  sim[e].pc = "run" =>
    /\ sim[e].executed = sim[e].steps /\ env.seen[e] = sim[e].steps
    /\ sim[e].steps < GameOverAt /\ ~sim[e].simEnd
    /\ ~sim[e].initSent => sim[e].steps = 0

\* In Init.
Initializing(e) ==
  sim[e].pc = "init" =>
    /\ sim[e].initSent /\ ~sim[e].simEnd
    /\ request[e] # <<>> => Head(request[e]).type = "SimInitMsg"

\* In NotifyCurrentState, one state is ahead of the actions; the last is answered
\* with a stop request.
Notifying(e) ==
  sim[e].pc = "act" =>
    /\ sim[e].steps = sim[e].executed + 1 /\ sim[e].initSent
    /\ env.seen[e] = IF request[e] = <<>> THEN sim[e].steps ELSE sim[e].executed
    /\ request[e] # <<>> => Head(request[e]) = StateMsg(sim[e])
    /\ reply[e] # <<>> /\ (sim[e].simEnd \/ sim[e].steps >= GameOverAt)
         => Head(reply[e]).stopSimReq

\* What EndIsKnown says, and the reply that it comes from.
KnownEnd(e) ==
  env.bridge = e /\ sim[e].initSent
    /\ (sim[e].pc = "returned" \/ (sim[e].simEnd /\ reply[e] # <<>>))
      => env.gameOver /\ env.envStopped /\ env.pc \in {"agent", "closed"}

\* One episode: its simulation, its messages, and what the agent has seen of it.
EpisodeOK(e) ==
  /\ sim[e].pc # "killed"
  /\ Turn(e)
  /\ NotStarted(e)
  /\ Running(e)
  /\ Initializing(e)
  /\ Notifying(e)
  /\ KnownEnd(e)

\* The agent's place in its program, and the simulation of its bridge.
AgentOK ==
  LET x == sim[env.bridge]
  IN /\ env.pc # "failed"
     /\ env.pc = "initialize_env"
          => x.pc \in {"run", "init", "returned"} /\ (x.pc = "run" => ~x.initSent)
               /\ (x.pc = "returned" => ~x.initSent)
               /\ reply[env.bridge] = <<>>
     /\ env.pc \in {"rx_env_state", "close"}
          => /\ x.pc = "init" => request[env.bridge] = <<>>
             /\ x.pc = "run" => x.initSent
     /\ env.pc \in {"initialize_env", "rx_env_state"} => ~env.envStopped
     /\ env.pc = "agent" => env.owed \/ env.gameOver
     /\ env.owed => /\ env.pc = "agent" /\ ~env.gameOver /\ ~env.envStopped
                    /\ x.pc = "act" /\ ~x.simEnd /\ x.steps < GameOverAt

\* The inductive invariant.
IInv ==
  /\ TypeOK
  /\ \A e \in Episodes : EpisodeOK(e)
  /\ AgentOK

-----------------------------------------------------------------------------
\* What one message more or one message less does to a queue.
LEMMA Queues ==
  ASSUME NEW S, NEW s \in Seq(S)
  PROVE /\ Len(s) \in Nat /\ (s = <<>> <=> Len(s) = 0)
        /\ s # <<>> => /\ Head(s) \in S /\ Tail(s) \in Seq(S)
                       /\ Len(Tail(s)) = Len(s) - 1
        /\ \A m \in S : /\ Append(s, m) \in Seq(S)
                        /\ Append(s, m) # <<>>
                        /\ Len(Append(s, m)) = Len(s) + 1
                        /\ s = <<>> => Head(Append(s, m)) = m
<1>1. Len(s) \in Nat /\ (s = <<>> <=> Len(s) = 0)
  BY EmptySeq, LenProperties
<1>2. s # <<>> => /\ Head(s) \in S /\ Tail(s) \in Seq(S)
                 /\ Len(Tail(s)) = Len(s) - 1
  BY HeadTailProperties
<1>3. ASSUME NEW m \in S
      PROVE /\ Append(s, m) \in Seq(S) /\ Append(s, m) # <<>>
            /\ Len(Append(s, m)) = Len(s) + 1
            /\ s = <<>> => Head(Append(s, m)) = m
  BY AppendProperties, HeadTailAppend
<1> QED
  BY <1>1, <1>2, <1>3

\* The values of a simulation's fields.
LEMMA SimFields ==
  ASSUME NEW x \in Sims
  PROVE /\ x.pc \in {"none", "run", "init", "act", "exited", "returned", "killed"}
        /\ x.initSent \in BOOLEAN /\ x.simEnd \in BOOLEAN
        /\ x.steps \in 0..GameOverAt /\ x.executed \in 0..GameOverAt
BY DEF Sims

\* The invariant holds when the first simulation and bridge are made.
LEMMA InitInv == Init => IInv
<1> SUFFICES ASSUME Init PROVE IInv
  OBVIOUS
<1> USE GymAssumption
<1>1. 1 \in Episodes /\ 0 \in 0..GameOverAt
  BY DEF Episodes
<1>2. env = [pc |-> "initialize_env", bridge |-> 1, owed |-> FALSE,
             newStateRx |-> FALSE, envStopped |-> FALSE, forceEnvStop |-> FALSE,
             gameOver |-> FALSE, envDirty |-> FALSE, seen |-> [e \in Episodes |-> 0]]
  BY DEF Init, NewBridge
<1>3. sim = [e \in Episodes |-> IF e = 1 THEN [NoSim EXCEPT !.pc = "run"] ELSE NoSim]
  BY <1>1 DEF Init, Started
<1>4. NoSim \in Sims
  BY <1>1 DEF NoSim, Sims
<1>5. LET y == [NoSim EXCEPT !.pc = "run"]
      IN /\ y \in Sims /\ y.pc = "run" /\ ~y.initSent /\ ~y.simEnd
         /\ y.steps = 0 /\ y.executed = 0
  <2> DEFINE y == [NoSim EXCEPT !.pc = "run"]
  <2>1. y \in Sims
    BY <1>4 DEF Sims
  <2>2. /\ y.pc = "run" /\ y.initSent = FALSE /\ y.simEnd = FALSE
        /\ y.steps = 0 /\ y.executed = 0
    BY DEF NoSim
  <2> QED
    BY <2>1, <2>2
<1>6. TypeOK
  <2>1. sim \in [Episodes -> Sims]
    BY <1>3, <1>4, <1>5
  <2>2. env \in Envs
    BY <1>1, <1>2 DEF Envs
  <2> QED
    BY <2>1, <2>2 DEF TypeOK, Init
<1>7. ASSUME NEW e \in Episodes PROVE EpisodeOK(e)
  <2>1. request[e] = <<>> /\ reply[e] = <<>> /\ Len(request[e]) = 0 /\ Len(reply[e]) = 0
    BY DEF Init
  <2>2. e \in Nat /\ e >= 1
    BY DEF Episodes
  <2>3. sim[e] = IF e = 1 THEN [NoSim EXCEPT !.pc = "run"] ELSE NoSim
    BY <1>3
  <2> QED
    BY <1>1, <1>2, <1>4, <1>5, <2>1, <2>2, <2>3
    DEF EpisodeOK, Turn, Owes, Waiting, NotStarted, Running, Initializing, Notifying,
        KnownEnd, NoSim
<1>8. AgentOK
  <2>1. sim[1].pc = "run" /\ ~sim[1].initSent /\ reply[1] = <<>>
    BY <1>1, <1>3, <1>4, <1>5 DEF Init
  <2> QED
    BY <1>2, <2>1 DEF AgentOK
<1> QED
  BY <1>6, <1>7, <1>8 DEF IInv

\* An episode whose simulation, messages and observation stay, and which is not
\* the one of the agent's bridge, before or after.
LEMMA OtherEpisode ==
  ASSUME NEW e \in Episodes, EpisodeOK(e),
         sim'[e] = sim[e], request'[e] = request[e], reply'[e] = reply[e],
         env'.seen[e] = env.seen[e],
         env.bridge # e, env'.bridge # e, env'.bridge < e <=> env.bridge < e
  PROVE  EpisodeOK(e)'
BY DEF EpisodeOK, Turn, Owes, Waiting, NotStarted, Running, Initializing, Notifying,
       KnownEnd, StateMsg

\* What the simulation of another episode does is nothing to this one.
LEMMA SameEpisode ==
  ASSUME NEW e \in Episodes, EpisodeOK(e), env' = env,
         sim'[e] = sim[e], request'[e] = request[e], reply'[e] = reply[e]
  PROVE  EpisodeOK(e)'
<1>1. Turn(e)'
  BY DEF EpisodeOK, Turn, Owes, Waiting
<1>2. NotStarted(e)' /\ Running(e)' /\ Initializing(e)'
  BY DEF EpisodeOK, NotStarted, Running, Initializing
<1>3. Notifying(e)'
  BY DEF EpisodeOK, Notifying, StateMsg
<1>4. KnownEnd(e)'
  BY DEF EpisodeOK, KnownEnd
<1> QED
  BY <1>1, <1>2, <1>3, <1>4 DEF EpisodeOK

\* What a simulation does that the agent is not connected to is nothing to the
\* agent.
LEMMA SameAgent ==
  ASSUME AgentOK, env' = env, sim'[env.bridge] = sim[env.bridge],
         request'[env.bridge] = request[env.bridge],
         reply'[env.bridge] = reply[env.bridge]
  PROVE  AgentOK'
BY DEF AgentOK

\* A simulation sends its state, from the event loop or when Init returns.
LEMMA StateSent ==
  ASSUME IInv, NEW e \in Episodes, NEW end \in BOOLEAN, NEW x \in Sims,
         sim[e].pc \in {"run", "init"},
         x.initSent, x.simEnd = end, x.steps = sim[e].steps,
         x.executed = sim[e].executed, x.steps = x.executed,
         env.seen[e] = x.steps, x.steps < GameOverAt, request[e] = <<>>,
         env.bridge = e => env.pc # "initialize_env",
         reply' \in [Episodes -> Seq(Replies)], reply'[e] = <<>>,
         \A f \in Episodes \ {e} : reply'[f] = reply[f],
         env' = env, SendState(e, x, end)
  PROVE  IInv'
<1> USE GymAssumption
<1> DEFINE n == x.steps + 1
           y == [x EXCEPT !.pc = "act", !.steps = n]
           m == [type |-> "EnvStateMsg", step |-> n,
                 isGameOver |-> n >= GameOverAt \/ end, simulationEnd |-> end]
<1>1. /\ n \in 1..GameOverAt /\ n = x.executed + 1
      /\ x.steps \in 0..GameOverAt
  BY SimFields
<1>2. /\ y \in Sims /\ y.pc = "act" /\ y.steps = n /\ y.executed = x.executed
      /\ y.initSent /\ y.simEnd = end
  <2>1. n \in 0..GameOverAt /\ n \in Nat
    BY <1>1
  <2>2. y \in Sims
    BY <2>1 DEF Sims
  <2>3. /\ y.pc = "act" /\ y.steps = n /\ y.executed = x.executed
        /\ y.initSent = x.initSent /\ y.simEnd = x.simEnd
    BY DEF Sims
  <2> QED
    BY <2>2, <2>3
<1>3. m \in Requests /\ m = StateMsg(y)
  BY <1>1, <1>2 DEF Requests, StateMsg
<1>4. request \in [Episodes -> Seq(Requests)] /\ sim \in [Episodes -> Sims]
  BY DEF IInv, TypeOK
<1>5. /\ sim' = [sim EXCEPT ![e] = y]
      /\ request' = [request EXCEPT ![e] = Append(request[e], m)]
  BY <1>4 DEF SendState
<1>6. /\ Append(request[e], m) \in Seq(Requests) /\ Append(request[e], m) # <<>>
      /\ Len(Append(request[e], m)) = 1 /\ Head(Append(request[e], m)) = m
  BY <1>3, <1>4, Queues
<1>7. TypeOK'
  BY <1>2, <1>4, <1>5, <1>6 DEF IInv, TypeOK
<1>8. ASSUME NEW f \in Episodes PROVE EpisodeOK(f)'
  <2>1. CASE f # e
    BY <2>1, <1>4, <1>5, SameEpisode DEF IInv
  <2>2. CASE f = e
    <3>1. /\ sim'[e] = y /\ Len(request'[e]) = 1 /\ request'[e] # <<>>
          /\ Head(request'[e]) = m /\ Len(reply'[e]) = 0
      BY <1>4, <1>5, <1>6
    <3>2. ~Owes(e) /\ ~(env.bridge < e)
      BY DEF IInv, EpisodeOK, AgentOK, Owes, NotStarted
    <3>3. Turn(e)'
      BY <1>2, <3>1, <3>2 DEF Turn, Owes, Waiting
    <3>4. Notifying(e)'
      BY <1>1, <1>2, <1>3, <3>1 DEF Notifying, StateMsg
    <3> QED
      BY <2>2, <1>2, <3>1, <3>2, <3>3, <3>4
      DEF EpisodeOK, NotStarted, Running, Initializing, KnownEnd
  <2> QED
    BY <2>1, <2>2
<1>9. AgentOK'
  <2>1. CASE env.bridge # e
    <3>1. env.bridge \in Episodes
      BY DEF IInv, TypeOK, Envs
    <3> QED
      BY <2>1, <3>1, <1>4, <1>5, SameAgent DEF IInv
  <2>2. CASE env.bridge = e
    BY <2>2, <1>2, <1>4, <1>5 DEF IInv, AgentOK
  <2> QED
    BY <2>1, <2>2
<1> QED
  BY <1>7, <1>8, <1>9 DEF IInv

\* Where the one message of a waiting simulation is.
LEMMA WhoseTurn ==
  ASSUME IInv, NEW e \in Episodes
  PROVE  /\ ~Waiting(e) => request[e] = <<>> /\ reply[e] = <<>> /\ ~Owes(e)
         /\ request[e] # <<>>
              => Waiting(e) /\ Len(request[e]) = 1 /\ reply[e] = <<>> /\ ~Owes(e)
         /\ reply[e] # <<>>
              => Waiting(e) /\ Len(reply[e]) = 1 /\ request[e] = <<>> /\ ~Owes(e)
         /\ Owes(e) => Waiting(e) /\ request[e] = <<>> /\ reply[e] = <<>>
<1>1. /\ Len(request[e]) \in Nat /\ (request[e] = <<>> <=> Len(request[e]) = 0)
      /\ Len(reply[e]) \in Nat /\ (reply[e] = <<>> <=> Len(reply[e]) = 0)
  BY Queues DEF IInv, TypeOK
<1>2. Len(request[e]) + Len(reply[e]) + (IF Owes(e) THEN 1 ELSE 0)
        = IF Waiting(e) THEN 1 ELSE 0
  BY DEF IInv, EpisodeOK, Turn
<1> DEFINE a == Len(request[e])
           b == Len(reply[e])
           c == IF Owes(e) THEN 1 ELSE 0
           d == IF Waiting(e) THEN 1 ELSE 0
<1>3. /\ a \in Nat /\ b \in Nat /\ c \in {0, 1} /\ d \in {0, 1} /\ a + b + c = d
      /\ (request[e] = <<>> <=> a = 0) /\ (reply[e] = <<>> <=> b = 0)
  BY <1>1, <1>2
<1>4. (Owes(e) <=> c = 1) /\ (Waiting(e) <=> d = 1)
  BY DEF Owes, Waiting
<1> HIDE DEF a, b, c, d
<1>5. /\ d # 1 => a = 0 /\ b = 0 /\ c = 0
      /\ a # 0 => d = 1 /\ a = 1 /\ b = 0 /\ c = 0
      /\ b # 0 => d = 1 /\ b = 1 /\ a = 0 /\ c = 0
      /\ c = 1 => d = 1 /\ a = 0 /\ b = 0
  BY <1>3
<1>6. a = Len(request[e]) /\ b = Len(reply[e])
  BY DEF a, b
<1> QED
  BY <1>3, <1>4, <1>5, <1>6

\* GetNextSendingRate sends SimInitMsg once, and a state from then on.
LEMMA NotifyKeeps ==
  ASSUME IInv, NEW e \in Episodes, Notify(e)
  PROVE  IInv'
<1>1. /\ sim \in [Episodes -> Sims] /\ request \in [Episodes -> Seq(Requests)]
      /\ reply \in [Episodes -> Seq(Replies)] /\ env \in Envs
      /\ sim[e].pc = "run" /\ env' = env /\ reply' = reply
  BY DEF IInv, TypeOK, Notify
<1>2. request[e] = <<>> /\ reply[e] = <<>> /\ ~Owes(e)
  BY <1>1, WhoseTurn DEF Waiting
<1>3. EpisodeOK(e) /\ AgentOK
  BY DEF IInv
<1>4. CASE sim[e].initSent
  <2>1. sim[e].simEnd = FALSE
    BY <1>1, <1>3, SimFields DEF EpisodeOK, Running
  <2>2. env.bridge = e => env.pc # "initialize_env"
    BY <1>1, <1>3, <1>4 DEF AgentOK
  <2>3. SendState(e, sim[e], FALSE)
    BY <1>4 DEF Notify
  <2> QED
    BY <1>1, <1>2, <1>3, <1>4, <2>1, <2>2, <2>3, StateSent DEF EpisodeOK, Running
<1>5. CASE ~sim[e].initSent
  <2> DEFINE y == [sim[e] EXCEPT !.pc = "init", !.initSent = TRUE]
             m == [type |-> "SimInitMsg"]
  <2>1. /\ sim' = [sim EXCEPT ![e] = y]
        /\ request' = [request EXCEPT ![e] = Append(request[e], m)]
    BY <1>1, <1>5 DEF Notify
  <2>2. /\ y \in Sims /\ y.pc = "init" /\ y.initSent /\ y.steps = sim[e].steps
        /\ y.executed = sim[e].executed /\ y.simEnd = sim[e].simEnd
    BY <1>1 DEF Sims
  <2>3. m \in Requests
    BY DEF Requests
  <2>4. /\ Append(request[e], m) \in Seq(Requests) /\ Append(request[e], m) # <<>>
        /\ Len(Append(request[e], m)) = 1 /\ Head(Append(request[e], m)) = m
    BY <1>1, <1>2, <2>3, Queues
  <2>5. TypeOK'
    BY <1>1, <2>1, <2>2, <2>4 DEF TypeOK
  <2>6. ASSUME NEW f \in Episodes PROVE EpisodeOK(f)'
    <3>1. CASE f # e
      BY <3>1, <1>1, <2>1, SameEpisode DEF IInv
    <3>2. CASE f = e
      <4>1. /\ sim'[e] = y /\ Len(request'[e]) = 1 /\ request'[e] # <<>>
            /\ Head(request'[e]) = m /\ Len(reply'[e]) = 0 /\ reply'[e] = <<>>
        BY <1>1, <1>2, <2>1, <2>4
      <4>2. Turn(e)'
        BY <1>1, <1>2, <2>2, <4>1 DEF Turn, Owes, Waiting
      <4> QED
        BY <3>2, <1>1, <1>3, <1>5, <2>2, <4>1, <4>2
        DEF EpisodeOK, NotStarted, Running, Initializing, Notifying, KnownEnd
    <3> QED
      BY <3>1, <3>2
  <2>7. AgentOK'
    <3>1. CASE env.bridge # e
      <4>1. env.bridge \in Episodes
        BY <1>1 DEF Envs
      <4> QED
        BY <3>1, <4>1, <1>1, <1>3, <2>1, SameAgent
    <3>2. CASE env.bridge = e
      BY <3>2, <1>1, <1>2, <1>3, <1>5, <2>1, <2>2 DEF AgentOK, Owes
    <3> QED
      BY <3>1, <3>2
  <2> QED
    BY <2>5, <2>6, <2>7 DEF IInv
<1> QED
  BY <1>4, <1>5

\* Init returns, and the first state is sent.
LEMMA InitAckedKeeps ==
  ASSUME IInv, NEW e \in Episodes, InitAcked(e)
  PROVE  IInv'
<1>1. /\ sim \in [Episodes -> Sims] /\ reply \in [Episodes -> Seq(Replies)]
      /\ sim[e].pc = "init" /\ reply[e] # <<>> /\ env' = env
      /\ reply' = [reply EXCEPT ![e] = Tail(reply[e])]
      /\ SendState(e, sim[e], FALSE)
  BY DEF IInv, TypeOK, InitAcked
<1>2. /\ reply' \in [Episodes -> Seq(Replies)] /\ reply'[e] = <<>>
      /\ \A f \in Episodes \ {e} : reply'[f] = reply[f]
      /\ request[e] = <<>>
  <2>1. Tail(reply[e]) \in Seq(Replies) /\ Len(Tail(reply[e])) = 0
    BY <1>1, Queues, WhoseTurn
  <2>2. Tail(reply[e]) = <<>>
    BY <2>1, Queues
  <2>3. request[e] = <<>>
    BY <1>1, WhoseTurn
  <2> QED
    BY <1>1, <2>1, <2>2, <2>3
<1>3. sim[e].steps = 0 /\ sim[e].executed = 0 /\ env.seen[e] = 0
  BY <1>1 DEF IInv, EpisodeOK, NotStarted
<1>4. sim[e].initSent /\ sim[e].simEnd = FALSE
  BY <1>1, SimFields DEF IInv, EpisodeOK, Initializing
<1>5. env.bridge = e => env.pc # "initialize_env"
  BY <1>1 DEF IInv, AgentOK
<1>6. sim[e].steps < GameOverAt
  BY <1>3, GymAssumption
<1> QED
  BY <1>1, <1>2, <1>3, <1>4, <1>5, <1>6, StateSent

\* A simulation that ends sends a last state, if it has sent one before.
LEMMA SimulationEndsKeeps ==
  ASSUME IInv, NEW e \in Episodes, SimulationEnds(e)
  PROVE  IInv'
<1>1. /\ sim \in [Episodes -> Sims] /\ request \in [Episodes -> Seq(Requests)]
      /\ reply \in [Episodes -> Seq(Replies)] /\ env \in Envs
      /\ sim[e].pc = "run" /\ env' = env /\ reply' = reply
  BY DEF IInv, TypeOK, SimulationEnds
<1>2. request[e] = <<>> /\ reply[e] = <<>> /\ ~Owes(e)
  BY <1>1, WhoseTurn DEF Waiting
<1>3. EpisodeOK(e) /\ AgentOK
  BY DEF IInv
<1>4. CASE sim[e].initSent
  <2> DEFINE x == [sim[e] EXCEPT !.simEnd = TRUE]
  <2>1. x \in Sims
    BY <1>1 DEF Sims
  <2>2. /\ x.simEnd = TRUE /\ x.initSent = sim[e].initSent
        /\ x.steps = sim[e].steps /\ x.executed = sim[e].executed
    BY <1>1 DEF Sims
  <2>3. env.bridge = e => env.pc # "initialize_env"
    BY <1>1, <1>3, <1>4 DEF AgentOK
  <2>4. SendState(e, x, TRUE)
    BY <1>4 DEF SimulationEnds
  <2>5. /\ sim[e].executed = sim[e].steps /\ env.seen[e] = sim[e].steps
        /\ sim[e].steps < GameOverAt
    BY <1>1, <1>3 DEF EpisodeOK, Running
  <2> HIDE DEF x
  <2> QED
    BY <1>1, <1>2, <1>4, <2>1, <2>2, <2>3, <2>4, <2>5, StateSent
<1>5. CASE ~sim[e].initSent
  <2> DEFINE y == [sim[e] EXCEPT !.simEnd = TRUE, !.pc = "returned"]
  <2>1. sim' = [sim EXCEPT ![e] = y] /\ request' = request
    BY <1>1, <1>5 DEF SimulationEnds
  <2>2. y \in Sims
    BY <1>1 DEF Sims
  <2>3. y.pc = "returned" /\ y.initSent = FALSE
    BY <1>1, <1>5, SimFields DEF Sims
  <2>4. TypeOK'
    BY <1>1, <2>1, <2>2 DEF TypeOK
  <2>5. ASSUME NEW f \in Episodes PROVE EpisodeOK(f)'
    <3>1. CASE f # e
      BY <3>1, <1>1, <2>1, SameEpisode DEF IInv
    <3>2. CASE f = e
      <4>1. sim'[e] = y /\ Len(request'[e]) = 0 /\ Len(reply'[e]) = 0
        BY <1>1, <1>2, <2>1
      <4>2. Turn(e)'
        BY <1>1, <1>2, <2>3, <4>1 DEF Turn, Owes, Waiting
      <4> QED
        BY <3>2, <1>1, <1>3, <2>3, <4>1, <4>2
        DEF EpisodeOK, NotStarted, Running, Initializing, Notifying, KnownEnd
    <3> QED
      BY <3>1, <3>2
  <2>6. AgentOK'
    <3>1. CASE env.bridge # e
      <4>1. env.bridge \in Episodes
        BY <1>1 DEF Envs
      <4> QED
        BY <3>1, <4>1, <1>1, <1>3, <2>1, SameAgent
    <3>2. CASE env.bridge = e
      BY <3>2, <1>1, <1>2, <1>3, <1>5, <2>1, <2>3 DEF AgentOK, Owes
    <3> QED
      BY <3>1, <3>2
  <2> QED
    BY <2>4, <2>5, <2>6 DEF IInv
<1> QED
  BY <1>4, <1>5

\* NotifyCurrentState returns: the simulation goes on, or is at its end.
LEMMA ActReceivedKeeps ==
  ASSUME IInv, NEW e \in Episodes, ActReceived(e)
  PROVE  IInv'
<1> DEFINE x == sim[e]
           y == AfterReply(x, Head(reply[e]))
<1>1. /\ sim \in [Episodes -> Sims] /\ request \in [Episodes -> Seq(Requests)]
      /\ reply \in [Episodes -> Seq(Replies)] /\ env \in Envs
      /\ x.pc = "act" /\ reply[e] # <<>> /\ env' = env /\ request' = request
      /\ reply' = [reply EXCEPT ![e] = Tail(reply[e])]
      /\ sim' = [sim EXCEPT ![e] = y]
  BY DEF IInv, TypeOK, ActReceived
<1>2. request[e] = <<>> /\ ~Owes(e) /\ Len(reply[e]) = 1
  BY <1>1, WhoseTurn
<1>3. Tail(reply[e]) \in Seq(Replies) /\ Tail(reply[e]) = <<>>
  <2>1. Tail(reply[e]) \in Seq(Replies) /\ Len(Tail(reply[e])) = 0
    BY <1>1, <1>2, Queues
  <2> QED
    BY <2>1, Queues
<1>4. EpisodeOK(e) /\ AgentOK
  BY DEF IInv
<1>5. /\ x \in Sims /\ x.initSent /\ x.steps = x.executed + 1
      /\ env.seen[e] = x.steps
      /\ x.simEnd \/ x.steps >= GameOverAt => Head(reply[e]).stopSimReq
  BY <1>1, <1>2, <1>4 DEF EpisodeOK, Notifying
<1>6. /\ y \in Sims /\ y.steps = x.steps /\ y.initSent = x.initSent
      /\ y.simEnd = x.simEnd
      /\ \/ y.pc = "returned" /\ x.simEnd
         \/ y.pc = "exited" /\ ~x.simEnd
         \/ y.pc = "run" /\ ~x.simEnd /\ x.steps < GameOverAt /\ y.executed = x.steps
  <2>1. x.steps \in 0..GameOverAt /\ x.executed \in 0..GameOverAt
    BY <1>5, SimFields
  <2>2. CASE x.simEnd
    <3>1. y = [x EXCEPT !.pc = "returned"]
      BY <2>2 DEF AfterReply
    <3> QED
      BY <2>2, <3>1, <1>5 DEF Sims
  <2>3. CASE ~x.simEnd /\ Head(reply[e]).stopSimReq
    <3>1. y = [x EXCEPT !.pc = "exited"]
      BY <2>3 DEF AfterReply
    <3> QED
      BY <2>3, <3>1, <1>5 DEF Sims
  <2>4. CASE ~x.simEnd /\ ~Head(reply[e]).stopSimReq
    <3>1. y = [x EXCEPT !.pc = "run", !.executed = x.executed + 1]
      BY <2>4 DEF AfterReply
    <3>2. x.steps < GameOverAt
      BY <2>1, <2>4, <1>5, GymAssumption
    <3>3. y \in Sims
      BY <3>1, <2>1, <1>5 DEF Sims
    <3>4. /\ y.pc = "run" /\ y.executed = x.steps /\ y.steps = x.steps
          /\ y.initSent = x.initSent /\ y.simEnd = x.simEnd
      BY <3>1, <1>5 DEF Sims
    <3> QED
      BY <2>4, <3>2, <3>3, <3>4
  <2> QED
    BY <2>2, <2>3, <2>4
<1> HIDE DEF y
<1>7. TypeOK'
  BY <1>1, <1>3, <1>6 DEF TypeOK
<1>8. ASSUME NEW f \in Episodes PROVE EpisodeOK(f)'
  <2>1. CASE f # e
    BY <2>1, <1>1, SameEpisode DEF IInv
  <2>2. CASE f = e
    <3>1. /\ sim'[e] = y /\ reply'[e] = <<>> /\ Len(request'[e]) = 0
          /\ Len(reply'[e]) = 0
      BY <1>1, <1>2, <1>3
    <3>2. Turn(e)'
      <4>1. y.pc \in {"returned", "exited", "run"}
        BY <1>6
      <4>2. ~(env'.bridge = e /\ env'.owed)
        BY <1>1, <1>2 DEF Owes
      <4> QED
        BY <3>1, <4>1, <4>2 DEF Turn, Owes, Waiting
    <3>3. NotStarted(e)' /\ Running(e)' /\ Initializing(e)' /\ Notifying(e)'
      BY <1>1, <1>4, <1>5, <1>6, <3>1
      DEF EpisodeOK, NotStarted, Running, Initializing, Notifying
    <3>4. KnownEnd(e)'
      BY <1>1, <1>4, <1>6, <3>1 DEF EpisodeOK, KnownEnd
    <3> QED
      BY <2>2, <1>6, <3>1, <3>2, <3>3, <3>4 DEF EpisodeOK
  <2> QED
    BY <2>1, <2>2
<1>9. AgentOK'
  <2>1. CASE env.bridge # e
    <3>1. env.bridge \in Episodes
      BY <1>1 DEF Envs
    <3> QED
      BY <2>1, <3>1, <1>1, <1>4, SameAgent
  <2>2. CASE env.bridge = e
    BY <2>2, <1>1, <1>2, <1>4, <1>5, <1>6 DEF AgentOK, Owes
  <2> QED
    BY <2>1, <2>2
<1> QED
  BY <1>7, <1>8, <1>9 DEF IInv

-----------------------------------------------------------------------------
\* The agent's calls, by what they do to its process.

\* The values of the agent's fields.
LEMMA EnvFields ==
  ASSUME NEW v \in Envs
  PROVE  /\ v.bridge \in Episodes /\ v.seen \in [Episodes -> 0..GameOverAt]
         /\ v.pc \in {"initialize_env", "rx_env_state", "close", "agent", "closed", "failed"}
         /\ v.owed \in BOOLEAN /\ v.newStateRx \in BOOLEAN /\ v.envStopped \in BOOLEAN
         /\ v.forceEnvStop \in BOOLEAN /\ v.gameOver \in BOOLEAN
         /\ v.envDirty \in BOOLEAN
BY DEF Envs

\* An answer clears owed and newStateRx, and nothing else.
LEMMA AnsweredEffect ==
  ASSUME NEW v \in Envs
  PROVE  LET u == Answered(v)
         IN /\ u \in Envs /\ u.owed = FALSE /\ u.newStateRx = FALSE
            /\ u.pc = v.pc /\ u.bridge = v.bridge /\ u.seen = v.seen
            /\ u.envStopped = v.envStopped /\ u.gameOver = v.gameOver
<1> DEFINE u == [v EXCEPT !.owed = FALSE, !.newStateRx = FALSE]
<1>1. u \in Envs
  BY DEF Envs
<1>2. /\ u.owed = FALSE /\ u.newStateRx = FALSE
      /\ u.pc = v.pc /\ u.bridge = v.bridge /\ u.seen = v.seen
      /\ u.envStopped = v.envStopped /\ u.gameOver = v.gameOver
  BY DEF Envs
<1> QED
  BY <1>1, <1>2 DEF Answered

\* rx_env_state shows the agent the state, and owes an answer unless it is the
\* last.
LEMMA StateReceivedEffect ==
  ASSUME NEW v \in Envs, NEW m, m.step \in 1..GameOverAt,
         m.isGameOver \in BOOLEAN, m.simulationEnd \in BOOLEAN
  PROVE  LET u == StateReceived(v, m)
         IN /\ u \in Envs /\ u.pc = v.pc /\ u.bridge = v.bridge
            /\ u.seen = [v.seen EXCEPT ![v.bridge] = m.step]
            /\ u.gameOver = m.isGameOver
            /\ u.owed <=> ~m.isGameOver
            /\ ~m.isGameOver => u.envStopped = v.envStopped
            /\ m.isGameOver /\ m.simulationEnd => u.envStopped = TRUE
<1> DEFINE f == [v.seen EXCEPT ![v.bridge] = m.step]
           g == [v EXCEPT !.owed = TRUE, !.gameOver = m.isGameOver,
                          !.seen[v.bridge] = m.step]
           h == IF m.simulationEnd THEN [g EXCEPT !.envStopped = TRUE]
                ELSE [g EXCEPT !.forceEnvStop = TRUE]
           w == IF m.isGameOver THEN Answered(h) ELSE g
           u == [w EXCEPT !.newStateRx = TRUE]
<1>1. f \in [Episodes -> 0..GameOverAt]
  BY GymAssumption DEF Envs
<1>2. g \in Envs
  BY <1>1 DEF Envs
<1>3. /\ g.pc = v.pc /\ g.bridge = v.bridge /\ g.owed = TRUE
      /\ g.gameOver = m.isGameOver /\ g.envStopped = v.envStopped /\ g.seen = f
  BY DEF Envs
<1> HIDE DEF f, g
<1>4. h \in Envs
  BY <1>2 DEF Envs
<1>5. /\ h.pc = v.pc /\ h.bridge = v.bridge /\ h.gameOver = m.isGameOver
      /\ h.seen = f /\ (m.simulationEnd => h.envStopped = TRUE)
  BY <1>2, <1>3 DEF Envs
<1> HIDE DEF h
<1>6. /\ w \in Envs /\ w.pc = v.pc /\ w.bridge = v.bridge
      /\ w.gameOver = m.isGameOver /\ w.seen = f /\ (w.owed <=> ~m.isGameOver)
      /\ ~m.isGameOver => w.envStopped = v.envStopped
      /\ m.isGameOver /\ m.simulationEnd => w.envStopped = TRUE
  <2>1. CASE m.isGameOver
    BY <2>1, <1>4, <1>5, AnsweredEffect
  <2>2. CASE ~m.isGameOver
    BY <2>2, <1>2, <1>3
  <2> QED
    BY <2>1, <2>2
<1> HIDE DEF w
<1>7. u \in Envs
  BY <1>6 DEF Envs
<1>8. /\ u.pc = w.pc /\ u.bridge = w.bridge /\ u.seen = w.seen
      /\ u.gameOver = w.gameOver /\ u.envStopped = w.envStopped /\ u.owed = w.owed
  BY <1>6 DEF Envs
<1>9. u = StateReceived(v, m)
  BY DEF u, w, h, g, StateReceived
<1> HIDE DEF u
<1> QED
  BY <1>6, <1>7, <1>8, <1>9 DEF f

\* close() leaves nothing owed.
LEMMA CloseEffect ==
  ASSUME NEW v \in Envs, v.owed => ~v.envStopped
  PROVE  LET u == Close(v)
         IN /\ u \in Envs /\ u.owed = FALSE /\ u.pc = v.pc
            /\ u.bridge = v.bridge /\ u.seen = v.seen /\ u.gameOver = v.gameOver
            /\ v.envStopped => u.envStopped
<1> DEFINE s == [v EXCEPT !.envStopped = TRUE, !.forceEnvStop = TRUE]
<1>1. s \in Envs
  BY DEF Envs
<1>2. /\ s.pc = v.pc /\ s.bridge = v.bridge /\ s.seen = v.seen
      /\ s.gameOver = v.gameOver /\ s.owed = v.owed /\ s.envStopped = TRUE
  BY DEF Envs
<1> HIDE DEF s
<1>3. v.owed \in BOOLEAN
  BY EnvFields
<1>4. CASE v.envStopped
  BY <1>3, <1>4 DEF Close
<1>5. CASE ~v.envStopped /\ v.owed
  <2>1. Close(v) = Answered(s)
    BY <1>5 DEF Close, s
  <2> QED
    BY <1>1, <1>2, <1>5, <2>1, AnsweredEffect
<1>6. CASE ~v.envStopped /\ ~v.owed
  <2>1. Close(v) = s
    BY <1>6 DEF Close, s
  <2> QED
    BY <1>1, <1>2, <1>3, <1>6, <2>1
<1> QED
  BY <1>4, <1>5, <1>6

\* A step of the agent disturbs no episode but that of its bridge.
LEMMA BridgeStep ==
  ASSUME IInv, TypeOK', NEW b \in Episodes, b = env.bridge, env'.bridge = b,
         sim' = sim,
         \A f \in Episodes \ {b} : /\ request'[f] = request[f] /\ reply'[f] = reply[f]
                                   /\ env'.seen[f] = env.seen[f],
         EpisodeOK(b)', AgentOK'
  PROVE  IInv'
<1>1. ASSUME NEW f \in Episodes PROVE EpisodeOK(f)'
  <2>1. CASE f = b
    BY <2>1
  <2>2. CASE f # b
    BY <2>2, OtherEpisode DEF IInv
  <2> QED
    BY <2>1, <2>2
<1> QED
  BY <1>1 DEF IInv

\* The message of a simulation that waits in Init, or in NotifyCurrentState.
LEMMA FirstMessage ==
  ASSUME IInv, NEW b \in Episodes, b = env.bridge, request[b] # <<>>
  PROVE  /\ reply[b] = <<>> /\ ~env.owed /\ sim[b].pc \in {"init", "act"}
         /\ Tail(request[b]) \in Seq(Requests) /\ Tail(request[b]) = <<>>
<1>1. Waiting(b) /\ Len(request[b]) = 1 /\ reply[b] = <<>> /\ ~Owes(b)
  BY WhoseTurn
<1>2. Tail(request[b]) \in Seq(Requests) /\ Len(Tail(request[b])) = 0
  BY <1>1, Queues DEF IInv, TypeOK
<1>3. Tail(request[b]) = <<>>
  BY <1>2, Queues
<1> QED
  BY <1>1, <1>2, <1>3 DEF Waiting, Owes

\* A reply to an empty queue.
LEMMA ReplyEffect ==
  ASSUME IInv, NEW m \in Replies, NEW b \in Episodes, b = env.bridge, Reply(m),
         reply[b] = <<>>
  PROVE  /\ reply' \in [Episodes -> Seq(Replies)] /\ reply'[b] # <<>>
         /\ Len(reply'[b]) = 1 /\ Head(reply'[b]) = m
         /\ \A f \in Episodes \ {b} : reply'[f] = reply[f]
<1>1. reply \in [Episodes -> Seq(Replies)]
  BY DEF IInv, TypeOK
<1>2. /\ Append(reply[b], m) \in Seq(Replies) /\ Append(reply[b], m) # <<>>
      /\ Len(Append(reply[b], m)) = 1 /\ Head(Append(reply[b], m)) = m
  BY <1>1, Queues
<1>3. reply' = [reply EXCEPT ![b] = Append(reply[b], m)]
  BY DEF Reply
<1> QED
  BY <1>1, <1>2, <1>3

\* The agent acknowledges SimInitMsg.
LEMMA InitializeEnvKeeps ==
  ASSUME IInv, NEW b \in Episodes, b = env.bridge, InitializeEnv
  PROVE  IInv'
<1> DEFINE m == [type |-> "SimInitAck"]
<1>1. /\ sim \in [Episodes -> Sims] /\ request \in [Episodes -> Seq(Requests)]
      /\ env \in Envs /\ b \in Episodes
      /\ env.pc = "initialize_env" /\ request[b] # <<>>
      /\ request' = [request EXCEPT ![b] = Tail(request[b])]
      /\ env' = [env EXCEPT !.pc = "rx_env_state"] /\ Reply(m) /\ sim' = sim
  BY DEF IInv, TypeOK, InitializeEnv, Incoming, Receive, Envs
<1>2. /\ reply[b] = <<>> /\ ~env.owed /\ sim[b].pc = "init"
      /\ Tail(request[b]) \in Seq(Requests) /\ Tail(request[b]) = <<>>
  BY <1>1, FirstMessage DEF IInv, AgentOK
<1>3. m \in Replies
  BY DEF Replies
<1>4. /\ reply' \in [Episodes -> Seq(Replies)] /\ reply'[b] # <<>>
      /\ Len(reply'[b]) = 1 /\ \A f \in Episodes \ {b} : reply'[f] = reply[f]
  BY <1>1, <1>2, <1>3, ReplyEffect
<1>5. /\ env' \in Envs /\ env'.pc = "rx_env_state" /\ env'.bridge = b
      /\ env'.seen = env.seen /\ env'.owed = env.owed
      /\ env'.envStopped = env.envStopped
  BY <1>1 DEF Envs
<1>6. /\ request' \in [Episodes -> Seq(Requests)] /\ request'[b] = <<>>
      /\ Len(request'[b]) = 0
      /\ \A f \in Episodes \ {b} : request'[f] = request[f]
  BY <1>1, <1>2
<1>7. EpisodeOK(b) /\ AgentOK /\ TypeOK'
  BY <1>1, <1>4, <1>5, <1>6 DEF IInv, TypeOK
<1>8. EpisodeOK(b)'
  <2>1. Turn(b)'
    <3>1. sim'[b].pc \in {"init", "act"} /\ ~(env'.bridge = b /\ env'.owed)
      BY <1>1, <1>2, <1>5
    <3> QED
      BY <3>1, <1>4, <1>6 DEF Turn, Owes, Waiting
  <2>2. NotStarted(b)' /\ Running(b)' /\ Initializing(b)' /\ Notifying(b)'
    BY <1>1, <1>2, <1>5, <1>6, <1>7
    DEF EpisodeOK, NotStarted, Running, Initializing, Notifying
  <2>3. KnownEnd(b)'
    BY <1>1, <1>2, <1>7 DEF EpisodeOK, Initializing, KnownEnd
  <2> QED
    BY <1>1, <1>2, <2>1, <2>2, <2>3 DEF EpisodeOK
<1>9. AgentOK'
  BY <1>1, <1>2, <1>5, <1>6, <1>7 DEF AgentOK
<1> QED
  BY <1>1, <1>4, <1>5, <1>6, <1>7, <1>8, <1>9, BridgeStep

\* What rx_env_state reads, in a step or in close().
LEMMA StateArrives ==
  ASSUME IInv, NEW b \in Episodes, b = env.bridge, request[b] # <<>>,
         env.pc \in {"rx_env_state", "close"}
  PROVE  LET m == Head(request[b])
             x == sim[b]
         IN /\ x.pc = "act" /\ m.step = x.steps /\ m.simulationEnd = x.simEnd
            /\ m.isGameOver \in BOOLEAN
            /\ (m.isGameOver <=> x.steps >= GameOverAt \/ x.simEnd)
            /\ m.step \in 1..GameOverAt /\ m.simulationEnd \in BOOLEAN
            /\ x.steps = x.executed + 1 /\ x.initSent
<1>1. sim[b].pc = "act"
  BY FirstMessage DEF IInv, AgentOK
<1>2. /\ Head(request[b]) = StateMsg(sim[b])
      /\ sim[b].steps = sim[b].executed + 1 /\ sim[b].initSent
  BY <1>1 DEF IInv, EpisodeOK, Notifying
<1>3. /\ sim[b].steps \in 0..GameOverAt /\ sim[b].executed \in 0..GameOverAt
      /\ sim[b].simEnd \in BOOLEAN
  BY SimFields DEF IInv, TypeOK
<1>4. sim[b].steps \in 1..GameOverAt
  BY <1>2, <1>3, GymAssumption
<1> DEFINE x == sim[b]
<1>5. /\ StateMsg(x).step = x.steps /\ StateMsg(x).simulationEnd = x.simEnd
      /\ StateMsg(x).isGameOver = (x.steps >= GameOverAt \/ x.simEnd)
  BY DEF StateMsg
<1> QED
  BY <1>1, <1>2, <1>3, <1>4, <1>5

\* The agent sees a state, and answers the last one at once.
LEMMA RxEnvStateKeeps ==
  ASSUME IInv, NEW b \in Episodes, b = env.bridge, RxEnvState
  PROVE  IInv'
<1> DEFINE x == sim[b]
           m == Head(request[b])
           v == StateReceived(env, m)
<1>1. /\ sim \in [Episodes -> Sims] /\ request \in [Episodes -> Seq(Requests)]
      /\ reply \in [Episodes -> Seq(Replies)]
      /\ env \in Envs /\ b \in Episodes
      /\ env.pc = "rx_env_state" /\ request[b] # <<>>
      /\ request' = [request EXCEPT ![b] = Tail(request[b])]
      /\ env' = [v EXCEPT !.pc = "agent"] /\ sim' = sim
      /\ IF v.owed THEN reply' = reply ELSE Reply(StopReply)
  BY DEF IInv, TypeOK, RxEnvState, Incoming, Receive, Envs
<1>2. /\ reply[b] = <<>>
      /\ Tail(request[b]) \in Seq(Requests) /\ Tail(request[b]) = <<>>
  BY <1>1, FirstMessage
<1>3. /\ x.pc = "act" /\ m.step = x.steps /\ m.simulationEnd = x.simEnd
      /\ (m.isGameOver <=> x.steps >= GameOverAt \/ x.simEnd)
      /\ m.isGameOver \in BOOLEAN
      /\ m.step \in 1..GameOverAt /\ m.simulationEnd \in BOOLEAN
      /\ x.steps = x.executed + 1 /\ x.initSent
  BY <1>1, StateArrives
<1> HIDE DEF m
<1>4. /\ v \in Envs /\ v.bridge = b /\ v.seen = [env.seen EXCEPT ![b] = x.steps]
      /\ v.gameOver = m.isGameOver /\ (v.owed <=> ~m.isGameOver)
      /\ ~m.isGameOver => v.envStopped = env.envStopped
      /\ m.isGameOver /\ m.simulationEnd => v.envStopped = TRUE
  <2>1. /\ v \in Envs /\ v.pc = env.pc /\ v.bridge = env.bridge
        /\ v.seen = [env.seen EXCEPT ![env.bridge] = m.step]
        /\ v.gameOver = m.isGameOver
        /\ v.owed <=> ~m.isGameOver
        /\ ~m.isGameOver => v.envStopped = env.envStopped
        /\ m.isGameOver /\ m.simulationEnd => v.envStopped = TRUE
    BY <1>1, <1>3, StateReceivedEffect
  <2> HIDE DEF v
  <2> QED
    BY <1>3, <2>1
<1> HIDE DEF v
<1>5. /\ env' \in Envs /\ env'.pc = "agent" /\ env'.bridge = b
      /\ env'.seen = [env.seen EXCEPT ![b] = x.steps]
      /\ env'.gameOver = m.isGameOver /\ (env'.owed <=> ~m.isGameOver)
      /\ ~m.isGameOver => env'.envStopped = env.envStopped
      /\ m.isGameOver /\ m.simulationEnd => env'.envStopped = TRUE
  <2>1. env' \in Envs
    BY <1>1, <1>4 DEF Envs
  <2>2. /\ env'.pc = "agent" /\ env'.bridge = v.bridge /\ env'.seen = v.seen
        /\ env'.gameOver = v.gameOver /\ env'.owed = v.owed
        /\ env'.envStopped = v.envStopped
    BY <1>1, <1>4 DEF Envs
  <2> QED
    BY <1>4, <2>1, <2>2
<1>6. env'.seen[b] = x.steps /\ \A f \in Episodes \ {b} : env'.seen[f] = env.seen[f]
  BY <1>1, <1>5, EnvFields
<1>7. /\ request' \in [Episodes -> Seq(Requests)] /\ request'[b] = <<>>
      /\ Len(request'[b]) = 0
      /\ \A f \in Episodes \ {b} : request'[f] = request[f]
  BY <1>1, <1>2
<1>8. /\ reply' \in [Episodes -> Seq(Replies)]
      /\ \A f \in Episodes \ {b} : reply'[f] = reply[f]
      /\ m.isGameOver => /\ reply'[b] # <<>> /\ Len(reply'[b]) = 1
                         /\ Head(reply'[b]).stopSimReq
      /\ ~m.isGameOver => reply'[b] = <<>> /\ Len(reply'[b]) = 0
  <2>1. CASE m.isGameOver
    <3>1. StopReply \in Replies /\ StopReply.stopSimReq
      BY DEF Replies, StopReply
    <3>2. Reply(StopReply)
      BY <2>1, <1>1, <1>4
    <3> QED
      BY <2>1, <3>1, <3>2, <1>1, <1>2, ReplyEffect
  <2>2. CASE ~m.isGameOver
    BY <2>2, <1>1, <1>2, <1>4
  <2> QED
    BY <2>1, <2>2
<1>9. TypeOK'
  BY <1>1, <1>5, <1>7, <1>8 DEF TypeOK
<1>10. EpisodeOK(b) /\ AgentOK
  BY <1>1 DEF IInv
<1>11. EpisodeOK(b)'
  <2>1. Turn(b)'
    <3>1. sim'[b].pc \in {"init", "act"}
      BY <1>1, <1>3
    <3>2. CASE m.isGameOver
      <4>1. ~(env'.bridge = b /\ env'.owed)
        BY <3>2, <1>5
      <4>2. Len(reply'[b]) = 1 /\ Len(request'[b]) = 0
        BY <3>2, <1>7, <1>8
      <4> QED
        BY <3>1, <4>1, <4>2 DEF Turn, Owes, Waiting
    <3>3. CASE ~m.isGameOver
      <4>1. env'.bridge = b /\ env'.owed
        BY <3>3, <1>5
      <4> QED
        BY <3>1, <3>3, <4>1, <1>7, <1>8 DEF Turn, Owes, Waiting
    <3> QED
      BY <3>2, <3>3
  <2>2. NotStarted(b)' /\ Running(b)' /\ Initializing(b)'
    BY <1>1, <1>3, <1>5, <1>7, <1>10
    DEF EpisodeOK, NotStarted, Running, Initializing
  <2>3. Notifying(b)'
    <3>1. sim'[b].pc = "act" /\ sim'[b].steps = x.executed + 1 /\ sim'[b].initSent
      BY <1>1, <1>3
    <3>2. request'[b] = <<>> /\ env'.seen[b] = sim'[b].steps
      BY <1>1, <1>6, <1>7
    <3>3. reply'[b] # <<>> => Head(reply'[b]).stopSimReq
      BY <1>3, <1>8
    <3> QED
      BY <1>1, <3>1, <3>2, <3>3 DEF Notifying
  <2>4. KnownEnd(b)'
    BY <1>1, <1>3, <1>5, <1>8 DEF KnownEnd
  <2> QED
    BY <1>1, <1>3, <2>1, <2>2, <2>3, <2>4 DEF EpisodeOK
<1>12. AgentOK'
  <2>1. x.steps \in 0..GameOverAt /\ x.simEnd \in BOOLEAN
    BY <1>1, SimFields
  <2> QED
    BY <2>1, <1>1, <1>3, <1>5, <1>10, GymAssumption DEF AgentOK
<1> QED
  BY <1>1, <1>5, <1>6, <1>7, <1>8, <1>9, <1>11, <1>12, BridgeStep

\* The agent answers a simulation that waits in NotifyCurrentState.
LEMMA EpisodeAnswered ==
  ASSUME IInv, NEW b \in Episodes, sim'[b] = sim[b], sim[b].pc = "act",
         sim[b].steps = sim[b].executed + 1, sim[b].initSent,
         env'.bridge \in Episodes, env'.bridge >= b, ~env'.owed,
         env'.seen[b] = sim[b].steps, request'[b] = <<>>,
         Len(reply'[b]) = 1, reply'[b] # <<>>,
         sim[b].simEnd \/ sim[b].steps >= GameOverAt => Head(reply'[b]).stopSimReq,
         KnownEnd(b)'
  PROVE  EpisodeOK(b)'
<1>1. b \in Nat /\ env'.bridge \in Nat
  BY DEF Episodes
<1>2. Turn(b)'
  <2>1. Len(request'[b]) = 0
    BY EmptySeq
  <2> QED
    BY <2>1 DEF Turn, Owes, Waiting
<1>3. NotStarted(b)' /\ Running(b)' /\ Initializing(b)'
  BY <1>1 DEF NotStarted, Running, Initializing
<1>4. Notifying(b)'
  BY DEF Notifying
<1> QED
  BY <1>2, <1>3, <1>4 DEF EpisodeOK

\* The agent goes on with nothing to answer.
LEMMA EpisodeLeft ==
  ASSUME IInv, NEW b \in Episodes, b = env.bridge, sim'[b] = sim[b], ~env.owed,
         env'.bridge \in Episodes, env'.bridge >= b, ~env'.owed,
         env'.seen[b] = env.seen[b], request'[b] = request[b],
         reply'[b] = reply[b], KnownEnd(b)'
  PROVE  EpisodeOK(b)'
<1>1. b \in Nat /\ env'.bridge \in Nat
  BY DEF Episodes
<1>2. EpisodeOK(b)
  BY DEF IInv
<1>3. Turn(b)'
  BY <1>2 DEF EpisodeOK, Turn, Owes, Waiting
<1>4. NotStarted(b)' /\ Running(b)' /\ Initializing(b)'
  BY <1>1, <1>2 DEF EpisodeOK, NotStarted, Running, Initializing
<1>5. Notifying(b)'
  BY <1>2 DEF EpisodeOK, Notifying, StateMsg
<1> QED
  BY <1>2, <1>3, <1>4, <1>5 DEF EpisodeOK

\* An agent that owes an answer is between two calls, and its simulation waits
\* with a state that is not the last.
LEMMA Owing ==
  ASSUME IInv, NEW b \in Episodes, b = env.bridge, env.owed
  PROVE  /\ env.pc = "agent" /\ ~env.gameOver /\ ~env.envStopped
         /\ sim[b].pc = "act" /\ ~sim[b].simEnd /\ sim[b].steps < GameOverAt
         /\ sim[b].steps = sim[b].executed + 1 /\ sim[b].initSent
         /\ env.seen[b] = sim[b].steps /\ request[b] = <<>> /\ reply[b] = <<>>
<1>1. /\ env.pc = "agent" /\ ~env.gameOver /\ ~env.envStopped
      /\ sim[b].pc = "act" /\ ~sim[b].simEnd /\ sim[b].steps < GameOverAt
  BY DEF IInv, AgentOK
<1>2. request[b] = <<>> /\ reply[b] = <<>>
  BY WhoseTurn DEF Owes
<1>3. /\ sim[b].steps = sim[b].executed + 1 /\ sim[b].initSent
      /\ env.seen[b] = sim[b].steps
  BY <1>1, <1>2 DEF IInv, EpisodeOK, Notifying
<1> QED
  BY <1>1, <1>2, <1>3

\* step answers the state that the agent has seen: one is owed.
LEMMA StepKeeps ==
  ASSUME IInv, NEW b \in Episodes, b = env.bridge, Step
  PROVE  IInv'
<1> DEFINE w == [env EXCEPT !.envDirty = TRUE]
           v == Answered(w)
           m == [type |-> "EnvActMsg", stopSimReq |-> env.forceEnvStop]
<1>1. env \in Envs /\ sim' = sim /\ request' = request
  BY DEF IInv, TypeOK, Step
<1>2. env.owed
  BY DEF Step, IInv, AgentOK
<1>3. /\ sim[b].pc = "act" /\ ~sim[b].simEnd /\ sim[b].steps < GameOverAt
      /\ sim[b].steps = sim[b].executed + 1 /\ sim[b].initSent
      /\ env.seen[b] = sim[b].steps /\ request[b] = <<>> /\ reply[b] = <<>>
      /\ ~env.envStopped
  BY <1>2, Owing
<1>4. /\ w \in Envs /\ w.bridge = b /\ w.seen = env.seen
      /\ w.envStopped = env.envStopped
  BY <1>1 DEF Envs
<1>5. /\ v \in Envs /\ v.owed = FALSE /\ v.newStateRx = FALSE /\ v.bridge = b
      /\ v.seen = env.seen /\ v.envStopped = env.envStopped
  BY <1>4, AnsweredEffect
<1>6. env' = [v EXCEPT !.pc = "rx_env_state"] /\ Reply(m)
  BY <1>2, <1>5 DEF Step
<1> HIDE DEF v
<1>7. /\ env' \in Envs /\ env'.pc = "rx_env_state" /\ env'.bridge = b
      /\ env'.owed = FALSE /\ env'.seen = env.seen /\ ~env'.envStopped
  <2>1. env' \in Envs
    BY <1>5, <1>6 DEF Envs
  <2>2. /\ env'.pc = "rx_env_state" /\ env'.bridge = v.bridge /\ env'.owed = v.owed
        /\ env'.seen = v.seen /\ env'.envStopped = v.envStopped
    BY <1>5, <1>6 DEF Envs
  <2> QED
    BY <1>3, <1>5, <2>1, <2>2
<1>8. m \in Replies
  BY <1>1, EnvFields DEF Replies
<1>9. /\ reply' \in [Episodes -> Seq(Replies)] /\ reply'[b] # <<>>
      /\ Len(reply'[b]) = 1 /\ \A f \in Episodes \ {b} : reply'[f] = reply[f]
  BY <1>3, <1>6, <1>8, ReplyEffect
<1>10. TypeOK'
  BY <1>1, <1>7, <1>9 DEF IInv, TypeOK
<1>11. EpisodeOK(b)'
  <2>1. KnownEnd(b)'
    BY <1>1, <1>3 DEF KnownEnd
  <2>2. sim[b].steps \in Nat /\ GameOverAt \in Nat
    BY GymAssumption, SimFields DEF IInv, TypeOK
  <2>3. env'.bridge \in Episodes /\ env'.bridge >= b
    BY <1>7 DEF Episodes
  <2> QED
    BY <1>1, <1>3, <1>7, <1>9, <2>1, <2>2, <2>3, EpisodeAnswered
<1>12. AgentOK'
  BY <1>1, <1>3, <1>7 DEF AgentOK
<1> QED
  BY <1>1, <1>7, <1>9, <1>10, <1>11, <1>12, BridgeStep

\* The reply of close() is there exactly if one was owed.
LEMMA StopSentEffect ==
  ASSUME IInv, NEW b \in Episodes, b = env.bridge, StopSent
  PROVE  /\ reply' \in [Episodes -> Seq(Replies)]
         /\ \A f \in Episodes \ {b} : reply'[f] = reply[f]
         /\ env.owed => /\ reply'[b] # <<>> /\ Len(reply'[b]) = 1
                        /\ Head(reply'[b]).stopSimReq
         /\ ~env.owed => reply' = reply
<1>1. reply \in [Episodes -> Seq(Replies)] /\ env \in Envs
  BY DEF IInv, TypeOK
<1>2. CASE env.owed
  <2>1. ~env.envStopped /\ reply[b] = <<>>
    BY <1>2, Owing
  <2>2. Close(env).owed = FALSE
    BY <1>1, <2>1, CloseEffect
  <2>3. Reply(StopReply)
    BY <1>2, <2>2 DEF StopSent
  <2>4. StopReply \in Replies /\ StopReply.stopSimReq
    BY DEF Replies, StopReply
  <2> QED
    BY <1>2, <2>1, <2>3, <2>4, ReplyEffect
<1>3. CASE ~env.owed
  BY <1>1, <1>3 DEF StopSent
<1> QED
  BY <1>2, <1>3

\* The agent closes its environment between two calls.
LEMMA CloseEnvKeeps ==
  ASSUME IInv, NEW b \in Episodes, b = env.bridge, CloseEnv
  PROVE  IInv'
<1> DEFINE v == Close(env)
<1>1. /\ env \in Envs /\ sim' = sim /\ request' = request /\ env.pc = "agent"
      /\ env' = [v EXCEPT !.pc = "closed"] /\ StopSent
  BY DEF IInv, TypeOK, CloseEnv
<1>2. env.owed => ~env.envStopped
  BY Owing
<1>3. /\ v \in Envs /\ v.owed = FALSE /\ v.bridge = b /\ v.seen = env.seen
      /\ v.gameOver = env.gameOver /\ (env.envStopped => v.envStopped)
  BY <1>1, <1>2, CloseEffect
<1> HIDE DEF v
<1>4. /\ env' \in Envs /\ env'.pc = "closed" /\ env'.bridge = b /\ env'.owed = FALSE
      /\ env'.seen = env.seen /\ env'.gameOver = env.gameOver
      /\ env.envStopped => env'.envStopped
  <2>1. env' \in Envs
    BY <1>1, <1>3 DEF Envs
  <2>2. /\ env'.pc = "closed" /\ env'.bridge = v.bridge /\ env'.owed = v.owed
        /\ env'.seen = v.seen /\ env'.gameOver = v.gameOver
        /\ env'.envStopped = v.envStopped
    BY <1>1, <1>3 DEF Envs
  <2> QED
    BY <1>3, <2>1, <2>2
<1>5. /\ reply' \in [Episodes -> Seq(Replies)]
      /\ \A f \in Episodes \ {b} : reply'[f] = reply[f]
      /\ env.owed => /\ reply'[b] # <<>> /\ Len(reply'[b]) = 1
                     /\ Head(reply'[b]).stopSimReq
      /\ ~env.owed => reply' = reply
  BY <1>1, StopSentEffect
<1>6. TypeOK'
  BY <1>1, <1>4, <1>5 DEF IInv, TypeOK
<1>7. env'.bridge \in Episodes /\ env'.bridge >= b
  BY <1>4 DEF Episodes
<1>8. EpisodeOK(b)'
  <2>1. CASE env.owed
    <3>1. /\ sim[b].pc = "act" /\ ~sim[b].simEnd
          /\ sim[b].steps = sim[b].executed + 1 /\ sim[b].initSent
          /\ env.seen[b] = sim[b].steps /\ request[b] = <<>>
      BY <2>1, Owing
    <3>2. KnownEnd(b)'
      BY <1>1, <3>1 DEF KnownEnd
    <3> QED
      BY <1>1, <1>4, <1>5, <1>7, <2>1, <3>1, <3>2, EpisodeAnswered
  <2>2. CASE ~env.owed
    <3>1. KnownEnd(b)'
      BY <1>1, <1>4, <1>5, <2>2 DEF IInv, EpisodeOK, KnownEnd
    <3> QED
      BY <1>1, <1>4, <1>5, <1>7, <2>2, <3>1, EpisodeLeft
  <2> QED
    BY <2>1, <2>2
<1>9. AgentOK'
  BY <1>4 DEF AgentOK
<1> QED
  BY <1>1, <1>4, <1>5, <1>6, <1>8, <1>9, BridgeStep

\* An interrupted agent answers one more state in close().
LEMMA CloseReceivesKeeps ==
  ASSUME IInv, NEW b \in Episodes, b = env.bridge, CloseReceives
  PROVE  IInv'
<1> DEFINE x == sim[b]
           m == Head(request[b])
           v == StateReceived(env, m)
           w == IF v.owed THEN Answered(v) ELSE v
<1>1. /\ sim \in [Episodes -> Sims] /\ request \in [Episodes -> Seq(Requests)]
      /\ env \in Envs /\ env.pc = "close" /\ request[b] # <<>>
      /\ request' = [request EXCEPT ![b] = Tail(request[b])]
      /\ env' = [w EXCEPT !.pc = "closed"] /\ sim' = sim /\ Reply(StopReply)
  BY DEF IInv, TypeOK, CloseReceives, Incoming, Receive
<1>2. /\ reply[b] = <<>>
      /\ Tail(request[b]) \in Seq(Requests) /\ Tail(request[b]) = <<>>
  BY <1>1, FirstMessage
<1>3. /\ x.pc = "act" /\ m.step = x.steps /\ m.simulationEnd = x.simEnd
      /\ (m.isGameOver <=> x.steps >= GameOverAt \/ x.simEnd)
      /\ m.isGameOver \in BOOLEAN
      /\ m.step \in 1..GameOverAt /\ m.simulationEnd \in BOOLEAN
      /\ x.steps = x.executed + 1 /\ x.initSent
  BY <1>1, StateArrives
<1> HIDE DEF m
<1>4. /\ v \in Envs /\ v.bridge = b /\ v.seen = [env.seen EXCEPT ![b] = x.steps]
      /\ v.gameOver = m.isGameOver
      /\ m.isGameOver /\ m.simulationEnd => v.envStopped = TRUE
  <2>1. /\ v \in Envs /\ v.bridge = env.bridge
        /\ v.seen = [env.seen EXCEPT ![env.bridge] = m.step]
        /\ v.gameOver = m.isGameOver
        /\ m.isGameOver /\ m.simulationEnd => v.envStopped = TRUE
    BY <1>1, <1>3, StateReceivedEffect
  <2> HIDE DEF v
  <2> QED
    BY <1>3, <2>1
<1> HIDE DEF v
<1>5. /\ w \in Envs /\ w.bridge = v.bridge /\ w.seen = v.seen /\ w.owed = FALSE
      /\ w.gameOver = v.gameOver /\ w.envStopped = v.envStopped
  <2>1. CASE v.owed
    BY <2>1, <1>4, AnsweredEffect
  <2>2. CASE ~v.owed
    BY <2>2, <1>4, EnvFields
  <2> QED
    BY <2>1, <2>2
<1> HIDE DEF w
<1>6. /\ env' \in Envs /\ env'.pc = "closed" /\ env'.bridge = b /\ env'.owed = FALSE
      /\ env'.seen = [env.seen EXCEPT ![b] = x.steps]
      /\ env'.gameOver = m.isGameOver
      /\ m.isGameOver /\ m.simulationEnd => env'.envStopped = TRUE
  <2>1. env' \in Envs
    BY <1>1, <1>5 DEF Envs
  <2>2. /\ env'.pc = "closed" /\ env'.bridge = w.bridge /\ env'.owed = w.owed
        /\ env'.seen = w.seen /\ env'.gameOver = w.gameOver
        /\ env'.envStopped = w.envStopped
    BY <1>1, <1>5 DEF Envs
  <2> QED
    BY <1>4, <1>5, <2>1, <2>2
<1>7. env'.seen[b] = x.steps /\ \A f \in Episodes \ {b} : env'.seen[f] = env.seen[f]
  BY <1>1, <1>6, EnvFields
<1>8. /\ request' \in [Episodes -> Seq(Requests)] /\ request'[b] = <<>>
      /\ \A f \in Episodes \ {b} : request'[f] = request[f]
  BY <1>1, <1>2
<1>9. /\ reply' \in [Episodes -> Seq(Replies)] /\ reply'[b] # <<>>
      /\ Len(reply'[b]) = 1 /\ Head(reply'[b]).stopSimReq
      /\ \A f \in Episodes \ {b} : reply'[f] = reply[f]
  <2>1. StopReply \in Replies /\ StopReply.stopSimReq
    BY DEF Replies, StopReply
  <2> QED
    BY <2>1, <1>1, <1>2, ReplyEffect
<1>10. TypeOK'
  BY <1>1, <1>6, <1>8, <1>9 DEF TypeOK
<1>11. env'.bridge \in Episodes /\ env'.bridge >= b
  BY <1>6 DEF Episodes
<1>12. EpisodeOK(b)'
  <2>1. KnownEnd(b)'
    BY <1>1, <1>3, <1>6 DEF KnownEnd
  <2> QED
    BY <1>1, <1>3, <1>6, <1>7, <1>8, <1>9, <1>11, <2>1, EpisodeAnswered
<1>13. AgentOK'
  BY <1>6 DEF AgentOK
<1> QED
  BY <1>1, <1>6, <1>7, <1>8, <1>9, <1>10, <1>12, <1>13, BridgeStep

\* An interrupt of the agent's process leaves the messages as they are.
LEMMA InterruptKeeps ==
  ASSUME IInv, ~FromTerminal, NEW b \in Episodes, b = env.bridge, Interrupt
  PROVE  IInv'
<1>1. /\ env \in Envs /\ sim' = sim /\ request' = request /\ reply' = reply
      /\ env.pc = "rx_env_state"
      /\ env' = [env EXCEPT !.pc = "close", !.envStopped = TRUE, !.forceEnvStop = TRUE]
  BY DEF IInv, TypeOK, Interrupt
<1>2. env' \in Envs
  BY <1>1 DEF Envs
<1>3. /\ env'.pc = "close" /\ env'.bridge = b /\ env'.seen = env.seen
      /\ env'.owed = env.owed
  BY <1>1 DEF Envs
<1>4. ~env.owed /\ AgentOK /\ EpisodeOK(b)
  BY <1>1, Owing DEF IInv
<1>5. EpisodeOK(b)'
  <2>1. KnownEnd(b)'
    BY <1>1, <1>4 DEF EpisodeOK, KnownEnd
  <2>2. env'.bridge \in Episodes /\ env'.bridge >= b
    BY <1>3 DEF Episodes
  <2> QED
    BY <1>1, <1>3, <1>4, <2>1, <2>2, EpisodeLeft
<1>6. AgentOK'
  BY <1>1, <1>3, <1>4 DEF AgentOK
<1>7. TypeOK'
  BY <1>1, <1>2 DEF IInv, TypeOK
<1> QED
  BY <1>1, <1>3, <1>5, <1>6, <1>7, BridgeStep

\* reset closes an episode, and its successor has not been started yet.
LEMMA ResetKeeps ==
  ASSUME IInv, NEW b \in Episodes, b = env.bridge, Reset
  PROVE  IInv'
<1> DEFINE e == b + 1
           y == [sim[e] EXCEPT !.pc = "run"]
<1>1. /\ env \in Envs /\ sim \in [Episodes -> Sims] /\ env.pc = "agent"
      /\ b < MaxEpisodes /\ StopSent /\ env' = NewBridge(env, e)
      /\ sim' = [sim EXCEPT ![e] = y] /\ request' = request
      /\ request \in [Episodes -> Seq(Requests)]
      /\ reply \in [Episodes -> Seq(Replies)]
  BY DEF IInv, TypeOK, Reset, Started
<1>2. e \in Episodes /\ e # b /\ b \in Nat /\ b < e /\ MaxEpisodes \in Nat
  BY <1>1, GymAssumption DEF Episodes
<1> HIDE DEF e
<1>3. /\ env' \in Envs /\ env'.pc = "initialize_env" /\ env'.bridge = e
      /\ env'.owed = FALSE /\ env'.seen = env.seen /\ env'.envStopped = FALSE
  <2>1. env' \in Envs
    BY <1>1, <1>2 DEF Envs, NewBridge
  <2>2. /\ env'.pc = "initialize_env" /\ env'.bridge = e
        /\ env'.owed = FALSE /\ env'.seen = env.seen /\ env'.envStopped = FALSE
    BY <1>1, <1>2 DEF Envs, NewBridge
  <2> QED
    BY <2>1, <2>2
<1>4. /\ sim[e].pc = "none" /\ ~sim[e].initSent /\ ~sim[e].simEnd
      /\ sim[e].steps = 0 /\ sim[e].executed = 0 /\ env.seen[e] = 0
  BY <1>2 DEF IInv, EpisodeOK, NotStarted
<1>5. request[e] = <<>> /\ reply[e] = <<>>
  BY <1>2, <1>4, WhoseTurn DEF Waiting
<1>6. y \in Sims
  BY <1>1, <1>2 DEF Sims
<1>7. /\ y.pc = "run" /\ y.initSent = sim[e].initSent /\ y.simEnd = sim[e].simEnd
      /\ y.steps = 0 /\ y.executed = 0
  BY <1>1, <1>2, <1>4 DEF Sims
<1> HIDE DEF y
<1>8. /\ reply' \in [Episodes -> Seq(Replies)]
      /\ \A f \in Episodes \ {b} : reply'[f] = reply[f]
      /\ env.owed => /\ reply'[b] # <<>> /\ Len(reply'[b]) = 1
                     /\ Head(reply'[b]).stopSimReq
      /\ ~env.owed => reply' = reply
  BY <1>1, StopSentEffect
<1>9. TypeOK'
  BY <1>1, <1>2, <1>3, <1>6, <1>8 DEF TypeOK
<1>10. sim'[e] = y /\ \A f \in Episodes \ {e} : sim'[f] = sim[f]
  BY <1>1, <1>2
<1>11. ASSUME NEW f \in Episodes PROVE EpisodeOK(f)'
  <2>1. CASE f = b
    <3>1. KnownEnd(b)'
      BY <1>2, <1>3 DEF KnownEnd
    <3>2. env'.bridge \in Episodes /\ env'.bridge >= b
      BY <1>2, <1>3 DEF Episodes
    <3> QED
      <4>1. CASE env.owed
        <5>1. /\ sim[b].pc = "act" /\ ~sim[b].simEnd
              /\ sim[b].steps = sim[b].executed + 1 /\ sim[b].initSent
              /\ env.seen[b] = sim[b].steps /\ request[b] = <<>>
          BY <4>1, Owing
        <5> QED
          BY <2>1, <1>1, <1>2, <1>3, <1>8, <1>10, <3>1, <3>2, <4>1, <5>1, EpisodeAnswered
      <4>2. CASE ~env.owed
        BY <2>1, <1>1, <1>2, <1>3, <1>8, <1>10, <3>1, <3>2, <4>2, EpisodeLeft
      <4> QED
        BY <4>1, <4>2
  <2>2. CASE f = e
    <3>1. Len(request'[e]) = 0 /\ Len(reply'[e]) = 0 /\ reply'[e] = <<>>
      BY <1>1, <1>2, <1>5, <1>8, EmptySeq
    <3>2. Turn(e)'
      BY <1>3, <1>7, <1>10, <3>1 DEF Turn, Owes, Waiting
    <3>3. NotStarted(e)' /\ Running(e)' /\ Initializing(e)' /\ Notifying(e)'
      BY <1>2, <1>3, <1>4, <1>7, <1>10, GymAssumption
      DEF NotStarted, Running, Initializing, Notifying, Episodes
    <3>4. KnownEnd(e)'
      BY <1>4, <1>7, <1>10 DEF KnownEnd
    <3> QED
      BY <2>2, <1>7, <1>10, <3>2, <3>3, <3>4 DEF EpisodeOK
  <2>3. CASE f # b /\ f # e
    <3>1. env'.bridge < f <=> env.bridge < f
      BY <2>3, <1>2, <1>3 DEF Episodes, e
    <3> QED
      BY <2>3, <3>1, <1>1, <1>3, <1>8, <1>10, OtherEpisode DEF IInv
  <2> QED
    BY <2>1, <2>2, <2>3
<1>12. AgentOK'
  BY <1>2, <1>3, <1>4, <1>5, <1>7, <1>8, <1>10 DEF AgentOK
<1> QED
  BY <1>9, <1>11, <1>12 DEF IInv

\* Every step keeps the invariant.
LEMMA StepInv == IInv /\ ~FromTerminal /\ [Next]_vars => IInv'
<1> SUFFICES ASSUME IInv, ~FromTerminal, [Next]_vars PROVE IInv'
  OBVIOUS
<1>1. PICK b \in Episodes : b = env.bridge
  BY DEF IInv, TypeOK, Envs
<1>2. ASSUME NEW e \in Episodes, Simulation(e) PROVE IInv'
  BY <1>2, NotifyKeeps, InitAckedKeeps, ActReceivedKeeps, SimulationEndsKeeps
  DEF Simulation
<1>3. CASE InitializeEnv
  BY <1>1, <1>3, InitializeEnvKeeps
<1>4. CASE RxEnvState
  BY <1>1, <1>4, RxEnvStateKeeps
<1>5. CASE Step
  BY <1>1, <1>5, StepKeeps
<1>6. CASE Reset
  BY <1>1, <1>6, ResetKeeps
<1>7. CASE CloseEnv
  BY <1>1, <1>7, CloseEnvKeeps
<1>8. CASE CloseReceives
  BY <1>1, <1>8, CloseReceivesKeeps
<1>9. CASE Interrupt
  BY <1>1, <1>9, InterruptKeeps
<1>10. CASE UNCHANGED vars
  <2>1. sim' = sim /\ env' = env /\ request' = request /\ reply' = reply
    BY <1>10 DEF vars
  <2>2. TypeOK'
    BY <2>1 DEF IInv, TypeOK
  <2>3. \A e \in Episodes : EpisodeOK(e)'
    BY <2>1, SameEpisode DEF IInv
  <2>4. AgentOK'
    BY <2>1, SameAgent DEF IInv
  <2> QED
    BY <2>2, <2>3, <2>4 DEF IInv
<1> QED
  BY <1>2, <1>3, <1>4, <1>5, <1>6, <1>7, <1>8, <1>9, <1>10 DEF Next, Agent

\* The states of EpisodeOK and AgentOK are the only ones the bridge can be in.
THEOREM Invariant ==
  ASSUME ~FromTerminal
  PROVE  Spec => []IInv
<1>1. IInv /\ [Next]_vars => IInv'
  BY StepInv
<1> QED
  BY <1>1, InitInv, PTL DEF Spec

\* The state of the bridge has its type.
THEOREM TypeCorrect ==
  ASSUME ~FromTerminal
  PROVE  Spec => []TypeOK
<1>1. IInv => TypeOK
  BY DEF IInv
<1> QED
  BY <1>1, Invariant, PTL

\* A simulation that waits is answered: its request, the agent's debt or the
\* reply is there, and only one of them, across resets, game overs and
\* interrupts.
THEOREM LockstepCorrect ==
  ASSUME ~FromTerminal
  PROVE  Spec => []Lockstep
<1>1. IInv => Lockstep
  BY DEF IInv, EpisodeOK, Turn, Owes, Lockstep
<1> QED
  BY <1>1, Invariant, PTL

\* step never finds the REP socket out of turn.
THEOREM StepInTurnCorrect ==
  ASSUME ~FromTerminal
  PROVE  Spec => []StepInTurn
<1>1. IInv => StepInTurn
  BY DEF IInv, AgentOK, StepInTurn
<1> QED
  BY <1>1, Invariant, PTL

\* An agent whose simulation has returned from main knows that it is over.
THEOREM EndIsKnownCorrect ==
  ASSUME ~FromTerminal
  PROVE  Spec => []EndIsKnown
<1>1. IInv => EndIsKnown
  <2> SUFFICES ASSUME IInv, NEW e \in Episodes, sim[e].pc = "returned",
                      sim[e].initSent, env.bridge = e
               PROVE  env.gameOver /\ env.envStopped
    BY DEF EndIsKnown
  <2> QED
    BY DEF IInv, EpisodeOK, KnownEnd
<1> QED
  BY <1>1, Invariant, PTL

-----------------------------------------------------------------------------
\* The refinement of GymEpisodes.

\* A step that sees no state, executes no action and ends no simulation.
LEMMA Stutters ==
  ASSUME env'.seen = env.seen,
         \A e \in Episodes : /\ sim'[e].executed = sim[e].executed
                             /\ Ended(e)' = Ended(e)
  PROVE  UNCHANGED Promised!vars
<1>1. [e \in Episodes |-> sim'[e].executed] = [e \in Episodes |-> sim[e].executed]
  OBVIOUS
<1>2. [e \in Episodes |-> Ended(e)'] = [e \in Episodes |-> Ended(e)]
  OBVIOUS
<1> QED
  BY <1>1, <1>2 DEF Promised!vars

\* The episodes begin with nothing seen, nothing executed and nothing over.
LEMMA InitImplements == Init => Promised!Init
<1> SUFFICES ASSUME Init PROVE Promised!Init
  OBVIOUS
<1>1. 1 \in Episodes
  BY GymAssumption DEF Episodes
<1>2. sim = [e \in Episodes |-> IF e = 1 THEN [NoSim EXCEPT !.pc = "run"] ELSE NoSim]
  BY <1>1 DEF Init, Started
<1>3. ASSUME NEW e \in Episodes PROVE sim[e].executed = 0 /\ Ended(e) = FALSE
  <2>1. sim[e].executed = 0 /\ sim[e].pc \in {"run", "none"}
    BY <1>2 DEF NoSim
  <2> QED
    BY <2>1 DEF Ended
<1>4. env.seen = [e \in Episodes |-> 0]
  BY DEF Init, NewBridge
<1> QED
  BY <1>3, <1>4 DEF Promised!Init

\* A simulation sends, in Init or in NotifyCurrentState.
LEMMA SendingStutters ==
  ASSUME IInv, NEW e \in Episodes, NEW y \in Sims, sim' = [sim EXCEPT ![e] = y],
         env' = env, y.executed = sim[e].executed, ~Ended(e),
         y.pc \in {"init", "act"}
  PROVE  UNCHANGED Promised!vars
<1>1. sim \in [Episodes -> Sims]
  BY DEF IInv, TypeOK
<1>2. sim'[e] = y /\ \A f \in Episodes \ {e} : sim'[f] = sim[f]
  BY <1>1
<1>3. ASSUME NEW f \in Episodes
      PROVE  sim'[f].executed = sim[f].executed /\ Ended(f)' = Ended(f)
  BY <1>2 DEF Ended
<1> QED
  BY <1>3, Stutters

\* A simulation ends.
LEMMA EndingFinishes ==
  ASSUME IInv, NEW e \in Episodes, NEW y \in Sims, sim' = [sim EXCEPT ![e] = y],
         env' = env, y.executed = sim[e].executed, ~Ended(e),
         y.pc \in {"exited", "returned"}
  PROVE  Promised!Finish(e)
<1>1. sim \in [Episodes -> Sims]
  BY DEF IInv, TypeOK
<1>2. sim'[e] = y /\ \A f \in Episodes \ {e} : sim'[f] = sim[f]
  BY <1>1
<1>3. Ended(e)' = TRUE
  BY <1>2 DEF Ended
<1>4. \A f \in Episodes \ {e} : Ended(f)' = Ended(f)
  BY <1>2 DEF Ended
<1>5. [f \in Episodes |-> Ended(f)'] = [[f \in Episodes |-> Ended(f)] EXCEPT ![e] = TRUE]
  BY <1>3, <1>4
<1>6. [f \in Episodes |-> sim'[f].executed] = [f \in Episodes |-> sim[f].executed]
  BY <1>2
<1> QED
  BY <1>5, <1>6 DEF Promised!Finish

\* A step of a simulation executes an action, ends the episode, or changes
\* nothing that the promise speaks of.
LEMMA SimulationImplements ==
  ASSUME IInv, NEW e \in Episodes, Simulation(e)
  PROVE  Promised!Next \/ UNCHANGED Promised!vars
<1>1. sim \in [Episodes -> Sims] /\ sim[e] \in Sims /\ EpisodeOK(e)
  BY DEF IInv, TypeOK
<1>2. ASSUME NEW x \in Sims, NEW end \in BOOLEAN, SendState(e, x, end),
             x.executed = sim[e].executed, x.steps < GameOverAt,
             env' = env, ~Ended(e)
      PROVE  UNCHANGED Promised!vars
  <2> DEFINE y == [x EXCEPT !.pc = "act", !.steps = x.steps + 1]
  <2>1. x.steps + 1 \in 0..GameOverAt
    BY SimFields, GymAssumption, <1>2
  <2>2. y \in Sims
    BY <2>1 DEF Sims
  <2>3. y.pc = "act" /\ y.executed = x.executed
    BY DEF Sims
  <2>4. sim' = [sim EXCEPT ![e] = y]
    BY <1>2 DEF SendState
  <2> HIDE DEF y
  <2> QED
    BY <1>2, <2>2, <2>3, <2>4, SendingStutters
<1>3. CASE Notify(e)
  <2>1. sim[e].pc = "run" /\ env' = env /\ ~Ended(e) /\ sim[e].steps < GameOverAt
    BY <1>1, <1>3 DEF Notify, Ended, EpisodeOK, Running
  <2>2. CASE sim[e].initSent
    <3>1. SendState(e, sim[e], FALSE)
      BY <1>3, <2>2 DEF Notify
    <3> QED
      BY <1>1, <1>2, <2>1, <3>1
  <2>3. CASE ~sim[e].initSent
    <3> DEFINE y == [sim[e] EXCEPT !.pc = "init", !.initSent = TRUE]
    <3>1. sim' = [sim EXCEPT ![e] = y]
      BY <1>1, <1>3, <2>3 DEF Notify
    <3>2. y \in Sims
      BY <1>1 DEF Sims
    <3>3. y.pc = "init" /\ y.executed = sim[e].executed
      BY <1>1 DEF Sims
    <3> HIDE DEF y
    <3> QED
      BY <2>1, <3>1, <3>2, <3>3, SendingStutters
  <2> QED
    BY <2>2, <2>3
<1>4. CASE InitAcked(e)
  <2>1. /\ sim[e].pc = "init" /\ env' = env /\ SendState(e, sim[e], FALSE)
        /\ sim[e].steps = 0 /\ ~Ended(e)
    BY <1>1, <1>4 DEF InitAcked, Ended, EpisodeOK, NotStarted
  <2>2. sim[e].steps < GameOverAt
    BY <2>1, GymAssumption
  <2> QED
    BY <1>1, <1>2, <2>1, <2>2
<1>5. CASE SimulationEnds(e)
  <2>1. sim[e].pc = "run" /\ env' = env /\ ~Ended(e) /\ sim[e].steps < GameOverAt
    BY <1>1, <1>5 DEF SimulationEnds, Ended, EpisodeOK, Running
  <2>2. CASE sim[e].initSent
    <3> DEFINE x == [sim[e] EXCEPT !.simEnd = TRUE]
    <3>1. x \in Sims
      BY <1>1 DEF Sims
    <3>2. x.steps = sim[e].steps /\ x.executed = sim[e].executed
      BY <1>1 DEF Sims
    <3>3. SendState(e, x, TRUE)
      BY <1>5, <2>2 DEF SimulationEnds
    <3> HIDE DEF x
    <3> QED
      BY <1>2, <2>1, <3>1, <3>2, <3>3
  <2>3. CASE ~sim[e].initSent
    <3> DEFINE y == [sim[e] EXCEPT !.simEnd = TRUE, !.pc = "returned"]
    <3>1. sim' = [sim EXCEPT ![e] = y]
      BY <1>1, <1>5, <2>3 DEF SimulationEnds
    <3>2. y \in Sims
      BY <1>1 DEF Sims
    <3>3. y.pc = "returned" /\ y.executed = sim[e].executed
      BY <1>1 DEF Sims
    <3> HIDE DEF y
    <3>4. Promised!Finish(e)
      BY <2>1, <3>1, <3>2, <3>3, EndingFinishes
    <3> QED
      BY <3>4 DEF Promised!Next
  <2> QED
    BY <2>2, <2>3
<1>6. CASE ActReceived(e)
  <2> DEFINE x == sim[e]
             m == Head(reply[e])
             y == AfterReply(x, m)
  <2>1. /\ x.pc = "act" /\ env' = env /\ sim' = [sim EXCEPT ![e] = y]
        /\ reply[e] # <<>> /\ ~Ended(e)
    BY <1>6 DEF ActReceived, Ended
  <2>2. request[e] = <<>>
    BY <2>1, WhoseTurn
  <2>3. env.seen[e] = x.executed + 1 /\ x.executed \in 0..GameOverAt
    BY <1>1, <2>1, <2>2, SimFields DEF EpisodeOK, Notifying
  <2>4. ASSUME NEW p \in {"exited", "returned"}, y = [x EXCEPT !.pc = p]
        PROVE  Promised!Finish(e)
    <3>1. y \in Sims
      BY <1>1, <2>4 DEF Sims
    <3>2. y.pc = p /\ y.executed = sim[e].executed
      BY <1>1, <2>4 DEF Sims
    <3> HIDE DEF y
    <3> QED
      BY <2>1, <3>1, <3>2, EndingFinishes
  <2>5. CASE x.simEnd
    BY <2>4, <2>5 DEF AfterReply, Promised!Next
  <2>6. CASE ~x.simEnd /\ m.stopSimReq
    BY <2>4, <2>6 DEF AfterReply, Promised!Next
  <2>7. CASE ~x.simEnd /\ ~m.stopSimReq
    <3>1. y = [x EXCEPT !.pc = "run", !.executed = x.executed + 1]
      BY <2>7 DEF AfterReply
    <3>2. y.pc = "run" /\ y.executed = x.executed + 1
      BY <1>1, <3>1 DEF Sims
    <3> HIDE DEF y
    <3>3. sim'[e] = y /\ \A f \in Episodes \ {e} : sim'[f] = sim[f]
      BY <1>1, <2>1
    <3>4. ASSUME NEW f \in Episodes PROVE Ended(f)' = Ended(f)
      BY <2>1, <3>2, <3>3 DEF Ended
    <3>5. [f \in Episodes |-> Ended(f)'] = [f \in Episodes |-> Ended(f)]
      BY <3>4
    <3>6. [f \in Episodes |-> sim'[f].executed]
            = [[f \in Episodes |-> sim[f].executed] EXCEPT ![e] = @ + 1]
      BY <3>2, <3>3
    <3>7. [f \in Episodes |-> sim[f].executed][e] < env.seen[e]
      BY <2>3
    <3>8. Promised!Execute(e)
      BY <2>1, <3>5, <3>6, <3>7 DEF Promised!Execute
    <3> QED
      BY <3>8 DEF Promised!Next
  <2> QED
    BY <2>5, <2>6, <2>7
<1> QED
  BY <1>3, <1>4, <1>5, <1>6 DEF Simulation

\* The agent sees a state, in a step or in close().
LEMMA SeeingObserves ==
  ASSUME IInv, NEW b \in Episodes, b = env.bridge, request[b] # <<>>,
         env.pc \in {"rx_env_state", "close"}, sim' = sim, env'.seen = [env.seen EXCEPT ![b] = sim[b].steps]
  PROVE  Promised!Observe(b)
<1>1. sim[b].pc = "act" /\ sim[b].steps = sim[b].executed + 1
  BY StateArrives
<1>2. env.seen[b] = sim[b].executed
  BY <1>1 DEF IInv, EpisodeOK, Notifying
<1>3. ~Ended(b)
  BY <1>1 DEF Ended
<1>4. /\ [f \in Episodes |-> sim'[f].executed] = [f \in Episodes |-> sim[f].executed]
      /\ [f \in Episodes |-> Ended(f)'] = [f \in Episodes |-> Ended(f)]
  BY DEF Ended
<1>5. env'.seen = [env.seen EXCEPT ![b] = env.seen[b] + 1]
  BY <1>1, <1>2
<1> QED
  BY <1>2, <1>3, <1>4, <1>5 DEF Promised!Observe

\* A step of the agent shows it the state it has received, or changes nothing
\* that the promise speaks of.
LEMMA AgentImplements ==
  ASSUME IInv, ~FromTerminal, NEW b \in Episodes, b = env.bridge, Agent \/ Interrupt
  PROVE  Promised!Next \/ UNCHANGED Promised!vars
<1> DEFINE m == Head(request[b])
           v == StateReceived(env, m)
<1>1. env \in Envs /\ sim \in [Episodes -> Sims]
  BY DEF IInv, TypeOK
<1>2. ASSUME request[b] # <<>>, env.pc \in {"rx_env_state", "close"}
      PROVE  v \in Envs /\ v.seen = [env.seen EXCEPT ![b] = sim[b].steps]
  <2>1. /\ m.step = sim[b].steps /\ m.step \in 1..GameOverAt
        /\ m.isGameOver \in BOOLEAN /\ m.simulationEnd \in BOOLEAN
    BY <1>2, StateArrives
  <2> HIDE DEF m
  <2>2. v \in Envs /\ v.seen = [env.seen EXCEPT ![env.bridge] = m.step]
    BY <1>1, <2>1, StateReceivedEffect
  <2> QED
    BY <2>1, <2>2
<1> HIDE DEF m, v
<1>3. CASE InitializeEnv
  <2>1. sim' = sim /\ env' = [env EXCEPT !.pc = "rx_env_state"]
    BY <1>3 DEF InitializeEnv
  <2>2. env'.seen = env.seen
    BY <1>1, <2>1 DEF Envs
  <2> QED
    BY <2>1, <2>2, Stutters DEF Ended
<1>4. CASE RxEnvState
  <2>1. /\ env.pc = "rx_env_state" /\ request[b] # <<>> /\ sim' = sim
        /\ env' = [v EXCEPT !.pc = "agent"]
    BY <1>4 DEF RxEnvState, Incoming, m, v
  <2>2. env'.seen = [env.seen EXCEPT ![b] = sim[b].steps]
    BY <1>2, <2>1 DEF Envs
  <2> QED
    BY <2>1, <2>2, SeeingObserves DEF Promised!Next
<1>5. CASE Step
  <2> DEFINE w == [env EXCEPT !.envDirty = TRUE]
             u == Answered(w)
  <2>1. w \in Envs /\ w.seen = env.seen
    BY <1>1 DEF Envs
  <2> HIDE DEF w
  <2>2. u \in Envs /\ u.seen = env.seen
    BY <2>1, AnsweredEffect
  <2>3. /\ sim' = sim
        /\ \/ env' = [u EXCEPT !.pc = IF u.newStateRx THEN "agent" ELSE "rx_env_state"]
           \/ env' = [env EXCEPT !.pc = "failed"]
    BY <1>5 DEF Step, w
  <2> HIDE DEF u
  <2>4. env'.seen = env.seen
    BY <1>1, <2>2, <2>3 DEF Envs
  <2> QED
    BY <2>3, <2>4, Stutters DEF Ended
<1>6. CASE Reset
  <2>1. /\ env' = NewBridge(env, b + 1) /\ sim' = Started(sim, b + 1)
        /\ b < MaxEpisodes
    BY <1>6 DEF Reset
  <2>2. b + 1 \in Episodes /\ b < b + 1
    BY <2>1, GymAssumption DEF Episodes
  <2>3. env'.seen = env.seen
    BY <1>1, <2>1 DEF NewBridge, Envs
  <2>4. sim[b + 1].pc = "none"
    BY <2>2 DEF IInv, EpisodeOK, NotStarted
  <2>5. /\ sim'[b + 1].pc = "run" /\ sim'[b + 1].executed = sim[b + 1].executed
        /\ \A f \in Episodes \ {b + 1} : sim'[f] = sim[f]
    BY <1>1, <2>1, <2>2 DEF Started, Sims
  <2>6. ASSUME NEW f \in Episodes
        PROVE  sim'[f].executed = sim[f].executed /\ Ended(f)' = Ended(f)
    BY <2>4, <2>5 DEF Ended
  <2> QED
    BY <2>3, <2>6, Stutters
<1>7. CASE CloseEnv
  <2> DEFINE u == Close(env)
  <2>1. sim' = sim /\ env' = [u EXCEPT !.pc = "closed"]
    BY <1>7 DEF CloseEnv
  <2>2. u \in Envs /\ u.seen = env.seen
    BY <1>1, Owing, CloseEffect
  <2> HIDE DEF u
  <2>3. env'.seen = env.seen
    BY <2>1, <2>2 DEF Envs
  <2> QED
    BY <2>1, <2>3, Stutters DEF Ended
<1>8. CASE CloseReceives
  <2> DEFINE u == IF v.owed THEN Answered(v) ELSE v
  <2>1. /\ env.pc = "close" /\ request[b] # <<>> /\ sim' = sim
        /\ env' = [u EXCEPT !.pc = "closed"]
    BY <1>8 DEF CloseReceives, Incoming, m, v
  <2>2. v \in Envs /\ v.seen = [env.seen EXCEPT ![b] = sim[b].steps]
    BY <1>2, <2>1
  <2>3. u \in Envs /\ u.seen = v.seen
    BY <2>2, AnsweredEffect
  <2> HIDE DEF u
  <2>4. env'.seen = [env.seen EXCEPT ![b] = sim[b].steps]
    BY <2>1, <2>2, <2>3 DEF Envs
  <2> QED
    BY <2>1, <2>4, SeeingObserves DEF Promised!Next
<1>9. CASE Interrupt
  <2>1. /\ sim' = sim
        /\ env' = [env EXCEPT !.pc = "close", !.envStopped = TRUE, !.forceEnvStop = TRUE]
    BY <1>9 DEF Interrupt
  <2>2. env'.seen = env.seen
    BY <1>1, <2>1 DEF Envs
  <2> QED
    BY <2>1, <2>2, Stutters DEF Ended
<1> QED
  BY <1>3, <1>4, <1>5, <1>6, <1>7, <1>8, <1>9 DEF Agent

\* Every step of the bridge is one of the episodes, or none.
LEMMA StepImplements ==
  IInv /\ ~FromTerminal /\ [Next]_vars => [Promised!Next]_Promised!vars
<1> SUFFICES ASSUME IInv, ~FromTerminal, [Next]_vars
             PROVE  Promised!Next \/ UNCHANGED Promised!vars
  OBVIOUS
<1>1. PICK b \in Episodes : b = env.bridge
  BY DEF IInv, TypeOK, Envs
<1>2. ASSUME NEW e \in Episodes, Simulation(e)
      PROVE  Promised!Next \/ UNCHANGED Promised!vars
  BY <1>2, SimulationImplements
<1>3. CASE Agent \/ Interrupt
  BY <1>1, <1>3, AgentImplements
<1>4. CASE UNCHANGED vars
  <2>1. sim' = sim /\ env' = env
    BY <1>4 DEF vars
  <2> QED
    BY <2>1, Stutters DEF Ended
<1> QED
  BY <1>2, <1>3, <1>4 DEF Next

\* The bridge implements the episodes of GymEpisodes: observations and actions
\* take turns, whatever the order of the two processes' steps.
THEOREM PromiseKept ==
  ASSUME ~FromTerminal
  PROVE  Spec => KeepsPromise
<1>1. Init => Promised!Init
  BY InitImplements
<1>2. IInv /\ [Next]_vars => [Promised!Next]_Promised!vars
  BY StepImplements
<1> QED
  BY <1>1, <1>2, Invariant, PTL DEF Spec, KeepsPromise, Promised!Spec

=============================================================================
