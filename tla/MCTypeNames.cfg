CONSTANTS
  foo = foo
  bar = bar
  Bases <- MCBases
  K <- MCK
SPECIFICATION Spec
INVARIANTS
  TypeOK
  NameMapInjective
  RenamedOnlyOnCollision
PROPERTIES
  Termination
