SPECIFICATION Spec
CONSTANTS
    Condition <- MCCondition
    Colours = {"[Red]"}
    Calls <- MCCalls
INVARIANTS ValueIsShown GroupsOfThree ChosenAsWritten ClockReadsBack DateTimeReadsBack WeekIsIso
