CONSTANTS
  x = x
  X = X
  PropNames <- MCPropNames
  MemberOf <- MCMemberOf
  Types <- MCUnionTypes
  MaxInherited = 1
  MaxLocal = 1
SPECIFICATION Spec

PROPERTY SpecOverridesReplaced
