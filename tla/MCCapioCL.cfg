SPECIFICATION Spec
CONSTANTS
  App = {"p", "my app"}
  Trimmed <- MCTrimmed
  CapioDir <- C
  Item <- MCItem
  Entry <- MCEntry
  Created <- MCCreated
  IntBits = 3
  MaxRead = 4
  None = None
  NaN = NaN
  Huge = Huge
  Char = {"a", "b"}
  MaxLen = 4
INVARIANTS LastRuleWins ProducersKnown NoThrow ExactOnPrefixes
PROPERTY RulesSettled
CHECK_DEADLOCK FALSE
