SPECIFICATION Spec
CONSTANTS
    Keys = {1, 2, 3, 4, 5, 6, 7, 8}
    Doubled = {4}
    None = None
INVARIANTS TreeExact
PROPERTIES SortedSpec
