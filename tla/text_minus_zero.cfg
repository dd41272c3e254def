SPECIFICATION Spec
CONSTANTS
    Condition <- MCCondition
    Colours = {"[Red]"}
    Calls <- MCCalls
INVARIANT NotMinusZero
