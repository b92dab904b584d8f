CONSTANTS
    Numbers <- SomeNumbers
    Strings <- SomeStrings
    Extras <- SomeExtras
SPECIFICATION Spec
INVARIANTS SizeExact RoundTrip NeverHalfAField UnknownKept
CHECK_DEADLOCK FALSE
