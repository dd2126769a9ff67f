SPECIFICATION Spec
CONSTANT Studies <- OnlyLoops
INVARIANT PointerMembersLive
