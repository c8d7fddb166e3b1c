CONSTANTS
  W <- MCW
  Strings <- MCStrings
  Prints <- MCPrints
  Calls <- MCCalls
SPECIFICATION Spec
INVARIANT StringsAsSpecified
PROPERTY PrintsAsAsked
CHECK_DEADLOCK FALSE
