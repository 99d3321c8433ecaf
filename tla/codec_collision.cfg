SPECIFICATION Spec
CONSTANTS
  Apis <- SmallApis
  Variants <- AllVariants
  Foreign <- SomeRequests
INVARIANT EveryCallArrives
