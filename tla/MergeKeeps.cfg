\* Three specs of up to three components with every pattern of references.
SPECIFICATION MergeSpec
CONSTANTS
  Letters <- MCLetters
  Itoa <- MCItoa
  Capital <- MCCapital
  Inputs <- MCInputs
INVARIANTS ImportsWhatIsNeeded MeaningIsKept BareNameIsAgreed
CHECK_DEADLOCK FALSE
