\* Every target of five bytes or less, and every query of "/" as short, made of
\* delimiters, digits of either case and '%', before two ends of its buffer.
SPECIFICATION Spec
CONSTANTS
    Alphabet <- MCAlphabet
    Beginnings <- MCBeginnings
    MaxLength = 5
    Beyond <- MCBeyond
    Endpoints <- MCEndpoints
INVARIANT DecodingInverts
INVARIANT RoutedByPath
\* A target ends.
CHECK_DEADLOCK FALSE
