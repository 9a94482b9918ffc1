SPECIFICATION FairSpec
CONSTANTS
  Programs <- SmallPrograms
  Inputs <- SmallInputs
  Chars = {"a", "b"}
  MaxThread = 3
INVARIANTS ThreadsAreConfigurations VerdictsCorrect
PROPERTIES Decides
CHECK_DEADLOCK FALSE
