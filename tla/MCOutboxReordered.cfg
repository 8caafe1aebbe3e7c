SPECIFICATION Spec
CONSTANTS
    Records <- MCRecords
    Poison = {}
    Dispatchers = {"replica1"}
    MaxAttempts = 3
    BatchSize = 2
    MaxMishaps = 0
    MaxOutages = 1
INVARIANTS
    RegenerationsInOrder
