SPECIFICATION Spec
CONSTANTS
  Entries <- AllEntries
  Slots <- AllSlots
  Nesting = {"Execute", "Query"}
  MaxDepth = 2
  MaxCalls = 3
  MaxOps = 2
INVARIANTS TypeOK OneOwner OutcomeIsOwn FailureReportsGas AnswersArrive DispatchedRight
\* The thread may stop calling.
CHECK_DEADLOCK FALSE
