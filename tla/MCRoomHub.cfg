SPECIFICATION Spec
CONSTANTS
    Socket = {s1, s2, s3}
    RoomId = {r1, r2}
    NoSocket = NoSocket
    NoRoom = NoRoom
    MaxRoomClients = 2
    RoomTtl = 2
    HeartbeatTimeout = 1
SYMMETRY Symmetry
INVARIANTS
    HubConsistent
    RoomsBounded
    SupervisionExact
    UnwatchedRoomsAreDying
    UsageAttributed
PROPERTIES
    NoRenewal
    NoEntryAfterExpiry
