CONSTANTS
  x = x
  X = X
  PropNames <- MCPropNames
  MemberOf <- MCMemberOf
  Types <- MCTypes
  MaxInherited = 1
  MaxLocal = 2
SPECIFICATION Spec
INVARIANT TypeOK
PROPERTY OverrideSound
