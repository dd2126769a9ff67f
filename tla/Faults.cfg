SPECIFICATION Spec
CONSTANTS
    a = a
    b = b
    Lib = {a, b}
    Main = Main
    PathLen = 2
    MaxFd = 3
    FileSystems <- FaultFileSystems
    CommandLines <- FaultCommandLines
INVARIANTS
    NextFileOpens
    HeldEntitiesAlive
PROPERTIES
    Terminates
    ImplementsBatch
