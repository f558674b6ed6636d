CONSTANTS
    Packets <- EdgePackets
SPECIFICATION WireSpec
INVARIANTS OldGcsMirrors
