SPECIFICATION Spec
CONSTANTS
  Programs <- OptionalPrograms
  Inputs <- SmallInputs
  Chars = {"a", "b"}
INVARIANTS AnswerIsMeaning
CHECK_DEADLOCK FALSE
