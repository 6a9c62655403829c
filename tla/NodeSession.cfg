\* One agent, two disturbances of any kind, two commands.
CONSTANTS
    MaxFault = 2
    MaxCmd = 2
SPECIFICATION Spec
INVARIANTS
    TypeOK
    InOrderAtMostOnce
PROPERTIES
    ImplementsChannel
    ListedHealthyAgain
    QueueDrained
