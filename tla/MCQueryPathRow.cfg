SPECIFICATION Spec
CONSTANTS
    MaxInt = 1
    MaxDouble = 3
    Templates <- EveryTemplate
    ParamLists <- EveryParams
    Selects <- EverySelect
    RawTexts <- StrangeTexts
    NewNames = {"b", "c"}
    MaxChanges = 1
INVARIANT RoundTrip
INVARIANT ResultShape
CHECK_DEADLOCK FALSE
