SPECIFICATION Spec
CONSTANTS
    Socket = {s1, s2}
    RoomId = {r1, r2}
    NoSocket = NoSocket
    NoRoom = NoRoom
    MaxRoomClients = 2
    RoomTtl = 1
    HeartbeatTimeout = 0
SYMMETRY Symmetry
INVARIANTS
    MoversLeaveTheList
