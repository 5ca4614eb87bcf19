CONSTANT N <- MCN
SPECIFICATION Spec
INVARIANT TypeOK
PROPERTY AbstractSpec
