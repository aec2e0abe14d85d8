SPECIFICATION FairSpec
CONSTANTS
  Pred = {"function", "calls", "reaches", "pure"}
  Entity = {"function"}
  Atom = {"a", "b", "n"}
  Var = {"X", "Y", "Z"}
  Sources <- MCSources
  Ingests <- MCIngests
  Packs <- MCPacks
  Garbage = Garbage
  Answers <- MCAnswers
  Priors <- MCPriors
  Rounds = {0, 2}
  Anchor = "a"
  Hops = 1
  MaxRequests = 4
  MaxFaults = 1
INVARIANTS TypeOK InferredIsDerived EvaluatedIsLeast CandidatesAreGrounded RoundsAreFresh VerdictIsHonest
PROPERTIES RequestsEnd
