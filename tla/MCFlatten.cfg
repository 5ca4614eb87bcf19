CONSTANT S <- MCS
SPECIFICATION Spec
INVARIANTS
  TypeOK
  AcyclicChainsFlattenExactly
PROPERTIES
  Termination
  CacheEntriesFinal
