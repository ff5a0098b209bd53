SPECIFICATION Spec
CONSTANTS
    Rtts = {400, 401}
    Jitters = {30, 200}
    PacketCounts <- Packets
    BytesSent = {0, 1}
    Codecs = {"opus"}
INVARIANTS
    WarningIsWindow
    LowMosStaysLow
    TypeOK
