CONSTANTS
    States = {"standby", "operate"}
    Buffer = 2
    MaxEvents = 3
SPECIFICATION LiveSpec
INVARIANTS TypeOK NoSendOnClosedChannel NoWakeUpIsLost NewestSnapshotRemains
PROPERTIES SnapshotsInOrder SocketsCatchUp
