CONSTANTS
    SetupKeys <- MCSetupKeys
    Starts <- MCStarts
    MaxEvents = 1
SPECIFICATION LiveSpec
INVARIANTS TypeOK KeyFindsItsScreen DiskMatchesMemory
PROPERTIES RecordedPolicyIsStored KeysWaitForFreshRX NavigationEnds
