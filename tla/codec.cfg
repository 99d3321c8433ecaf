SPECIFICATION Spec
CONSTANTS
  Apis <- SmallApis
  Variants <- AllVariants
  Foreign <- SomeRequests
INVARIANTS CodecTypeOK RoundTrips TakenIsKnown HandlerArgsWellTyped
