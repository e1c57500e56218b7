SPECIFICATION RouteSpec
CONSTANTS
    NULL = NULL
    Width = 2
    Lower = {"loopback", "arp"}
    TableSize = 3
PROPERTIES
    LongestPrefixMatch
CHECK_DEADLOCK FALSE
