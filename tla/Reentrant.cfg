SPECIFICATION Spec
CONSTANTS
    a = a
    b = b
    Lib = {a, b}
    Main = Main
    PathLen = 1
    MaxFd = 4
    FileSystems <- GraphFileSystems
    CommandLines <- GraphCommandLines
INVARIANTS NoReentrantLoad
