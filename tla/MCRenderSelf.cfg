CONSTANTS
  StructNames <- MCStructNames
  EnumValues <- MCEnumValues
  Types <- MCTypes
  MaxFields <- MCMaxFields
SPECIFICATION Spec
INVARIANT NoInlineSelf
