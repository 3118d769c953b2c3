SPECIFICATION Spec
CONSTANTS
    maxNameLen = 6
    maxLabelLen = 2
    maxPointerHops = 2
    MaxUDPMessageSize = 36
    MaxEDNSUDPSize = 60
    maxRDLen = 26
    maxString = 3
    maxTCPLen = 80
    maxTTL = 1000000
    MaxRecords = 2
    Fail = Fail
    None = None
    Offered <- MCOffered
    OfferedZones <- MCOfferedZones
    ns1 <- MCns1
    hostmaster <- MChostmaster
    Asked <- MCAsked
    Garbled <- MCGarbled
INVARIANTS TypeOK NameMeaning RepliesToQueries EchoesQuestion   OwnersInZone DenialHasSOA
CHECK_DEADLOCK FALSE
