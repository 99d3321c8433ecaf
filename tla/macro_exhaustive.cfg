SPECIFICATION Spec
CONSTANTS
  Inputs <- SomeInputs
  Types <- SomeTypes
  Upper <- Capital
  Begins <- Letters
  Continues <- LettersAndDigits
INVARIANT EveryMatchExhaustive
CHECK_DEADLOCK FALSE
