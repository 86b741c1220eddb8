SPECIFICATION Spec
CONSTANTS
    null = null
    jtag = jtag
    files = files
    nothing = nothing
    MaxFd = 6
    Nodes = {null, jtag, files}
    Null = null
    NoNode = nothing
    Devices <- MCDevices
    FileSystems <- MCFileSystems
    NameOf <- MCNameOf
    Has <- MCHas
    Console <- MCConsole
    Names <- MCNames
    OpenArgs <- MCOpenArgs
    FlagArgs <- MCFlagArgs
INVARIANTS PoolInv OneHolder OpenAsHeld
PROPERTIES LocksExclude
