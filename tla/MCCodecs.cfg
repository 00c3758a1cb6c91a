SPECIFICATION Spec
CONSTANTS
    None = None
    Items <- MCItems
PROPERTIES SchemaExact RequestsExact ResultsExact ReadsBack
CHECK_DEADLOCK FALSE
