CONSTANTS
  StructNames <- MCStructNames
  EnumValues <- MCEnumValues
  Types <- MCTypes
  MaxFields <- MCMaxFields
SPECIFICATION Spec
INVARIANTS
  TypeOK
  RenderWidens
  SelfReferenceIndirect
  ByValueIsDependency
