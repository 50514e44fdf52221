----------------------------- MODULE GymEpisodes -----------------------------
(***************************************************************************)
(* What the ns3-gym bridge promises an agent, whatever the messages: in    *)
(* each episode observations and actions take turns.  The agent sees the   *)
(* next state only after its action for the last one was executed, and no  *)
(* action is executed twice, or for a state the agent has not seen.  An    *)
(* episode that is over stays so.                                          *)
(***************************************************************************)
EXTENDS Integers

CONSTANTS
  Episodes    \* the episodes, one simulation process each

VARIABLES
  seen,       \* states the agent has seen, by episode
  executed,   \* actions the simulation has executed, by episode
  over        \* whether the simulation is gone, by episode

vars == <<seen, executed, over>>

Init ==
  /\ seen = [e \in Episodes |-> 0]
  /\ executed = [e \in Episodes |-> 0]
  /\ over = [e \in Episodes |-> FALSE]

Observe(e) ==
  /\ ~over[e]
  /\ seen[e] = executed[e]
  /\ seen' = [seen EXCEPT ![e] = @ + 1]
  /\ UNCHANGED <<executed, over>>

Execute(e) ==
  /\ ~over[e]
  /\ executed[e] < seen[e]
  /\ executed' = [executed EXCEPT ![e] = @ + 1]
  /\ UNCHANGED <<seen, over>>

Finish(e) ==
  /\ ~over[e]
  /\ over' = [over EXCEPT ![e] = TRUE]
  /\ UNCHANGED <<seen, executed>>

Next == \E e \in Episodes : Observe(e) \/ Execute(e) \/ Finish(e)

Spec == Init /\ [][Next]_vars

=============================================================================
