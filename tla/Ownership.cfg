SPECIFICATION Spec
CONSTANT Studies <- Language
INVARIANTS TypeOK CountsExact OwnedPointersLive StackUnshared AllDeleted OnlyKnownFaults
