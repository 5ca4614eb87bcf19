CONSTANT N <- MCN
SPECIFICATION Spec
PROPERTY AbstractSpec
