SPECIFICATION DiscoverySpec
CONSTANTS
    Proc = {p, q}
    Ports <- MCPorts
    Usb <- MCUsb
    Readers <- MCReaders
    At <- MCAt
    Lengths = {2, 4, 7}
    MaxOps = 2
    MaxFaults = 1
INVARIANTS OnePerPort ContextHeld ListRight OpensListed
CHECK_DEADLOCK FALSE
