CONSTANTS
    MaxFault = 2
    MaxCmd = 2
SPECIFICATION Spec
PROPERTY
    OfflineQueueKept
