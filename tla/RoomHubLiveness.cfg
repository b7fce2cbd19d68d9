SPECIFICATION FairSpec
CONSTANTS
    Socket = {s1, s2}
    RoomId = {r1}
    NoSocket = NoSocket
    NoRoom = NoRoom
    MaxRoomClients = 2
    RoomTtl = 2
    HeartbeatTimeout = 1
PROPERTIES
    RoomsEnd
    SilentClientsRemoved
    TimerStops
