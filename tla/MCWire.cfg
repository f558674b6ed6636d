CONSTANTS
    Packets <- EdgePackets
SPECIFICATION WireSpec
INVARIANTS HeaderArrives ToolsMirror
