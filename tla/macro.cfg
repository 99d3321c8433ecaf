SPECIFICATION Spec
CONSTANTS
  Inputs <- SomeInputs
  Types <- SomeTypes
  Upper <- Capital
  Begins <- Letters
  Continues <- LettersAndDigits
INVARIANTS MacroTypeOK CollectsInOrder WrittenIsRecorded CutsAtOuterCommas OutputClean ExhaustiveMatches DefaultNamesDistinct DefaultNamesRender
CHECK_DEADLOCK FALSE
