SPECIFICATION CatchUpSpec
CONSTANTS
  Setup = "setup"
  Genesis = "g"
  Parent <- Tree
  Prefers <- TieBreak
  Peers = {"p", "q"}
  Starts <- Situations
  PageLimit = 2
  MaxValidations = 1
INVARIANT ClaimsAreHeld
PROPERTIES NeverWorseChain CatchesUp
CHECK_DEADLOCK FALSE
