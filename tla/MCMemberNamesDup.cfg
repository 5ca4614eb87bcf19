CONSTANTS
  foo = foo
  bar = bar
  Bases <- MCBases
  M <- MCM
  Raw <- MCRaw
  r1 = r1
  r2 = r2
  r3 = r3
SPECIFICATION Spec
INVARIANT MemberNamesUnique
