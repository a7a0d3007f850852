SPECIFICATION LiveSpec
CONSTANTS
    Node = {n1}
    MaxActiveNodes = 1
    MaxRestarts = 2
    LateCreates = TRUE
    None = None
PROPERTIES
    CreatesSettle
    StraysAreFound
