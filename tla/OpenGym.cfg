\* Three episodes of up to four decisions.
CONSTANTS
  MaxEpisodes = 3
  GameOverAt = 4
  FromTerminal = FALSE
SPECIFICATION FairSpec
INVARIANTS
  TypeOK
  Lockstep
  StepInTurn
  EndIsKnown
PROPERTIES
  SimulationsEnd
  AgentReturns
  KeepsPromise
\* The agent's script ends.
CHECK_DEADLOCK FALSE
