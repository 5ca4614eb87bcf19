CONSTANT S <- MCS
SPECIFICATION Spec
INVARIANT FlattenDeterministic
