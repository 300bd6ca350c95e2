SPECIFICATION FairSpec
CONSTANTS
  MaxCommit = 1
  Generations = {1, 2}
  SyncTags = 2
  InitTags = 1
  Facts <- MCFacts
  agent = agent
  other = other
  Agents = {agent}
  Others = {other}
  AgentRefs <- MCAgentRefs
  OtherRefs <- MCOtherRefs
INVARIANTS
  AnswersExact
  DiffExact
  BuiltIsServed
  TagsNotOlderThanHead
PROPERTIES
  AgentAnswered
