SPECIFICATION SessionsSpec
CONSTANT Names = {ann, bob}
SYMMETRY NamesAreAlike
CHECK_DEADLOCK FALSE
INVARIANTS
    ChatIsConsistent
    PagesShowTheRoom
    SessionInStep
    FramingIsInverse
    AmfIsConsistent
    
