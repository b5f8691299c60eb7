CONSTANT
    Inputs <- MCInputs
SPECIFICATION Spec
INVARIANT
    RoundTrip
PROPERTY
    Advances
CHECK_DEADLOCK FALSE
