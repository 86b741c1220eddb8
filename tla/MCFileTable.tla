---------------------------- MODULE MCFileTable ----------------------------
(* The devices of this build, /dev/null and the console, and a file system *)
(* mounted at a directory, as the runtime allows.                          *)
EXTENDS FileTable

CONSTANTS null, jtag, files, nothing

MCDevices == <<jtag>>
MCFileSystems == <<files>>
MCNameOf ==
    [n \in Nodes |-> CASE n = null -> <<"dev", "null">>
                       [] n = jtag -> <<"dev", "jtag_uart_0">>
                       [] n = files -> <<"mnt">>]
MCHas ==
    [n \in Nodes |-> CASE n = null -> {"write"}
                       [] n = jtag -> {"close", "read", "write", "ioctl"}
                       [] n = files -> {"open", "close", "read", "write",
                                        "lseek", "fstat"}]
MCConsole == <<"dev", "jtag_uart_0">>
MCNames == {<<"dev", "null">>, <<"dev", "jtag_uart_0">>, <<"mnt", "a">>,
            <<"dev">>}
MCOpenArgs == {[mode |-> "w", nb |-> {}], [mode |-> "r", nb |-> {"nonblock"}]}
MCFlagArgs == {{}}
=============================================================================
