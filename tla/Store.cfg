CONSTANTS
    None = None
    Zero = Zero
    Callers = {c1, c2}
    Records <- MCRecords
    Scopes <- MCScopes
    MaxSaves = 3
SPECIFICATION StoreSpec
PROPERTIES
    Keeps
    SavesEnd
