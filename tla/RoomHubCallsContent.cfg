SPECIFICATION Spec
CONSTANTS
    Socket = {s1, s2, s3}
    RoomId = {r1}
    NoSocket = NoSocket
    NoRoom = NoRoom
    MaxRoomClients = 3
    RoomTtl = 1
    HeartbeatTimeout = 0
SYMMETRY Symmetry
INVARIANTS
    ContentOnlyInLivingRoom
