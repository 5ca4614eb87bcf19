CONSTANT N <- MCN
SPECIFICATION Spec
INVARIANT TypeOK DepsEmittedFirst OutputIsPermutation
PROPERTY FallbackOnlyWhenStuck
