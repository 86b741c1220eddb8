----------------------------- MODULE MCJtagUart -----------------------------
(* Small rings and FIFOs; programs that write, and programs that read.     *)
EXTENDS JtagUart

Setup(clk, calls, counts, flags, most) ==
    [clock |-> clk, calls |-> calls, counts |-> counts, flags |-> flags,
     typed |-> most]
MCSetups ==
    { Setup(FALSE, {"write"},                   {3},    {FALSE}, 1),
      Setup(FALSE, {"write", "close", "ioctl"}, {0, 2}, BOOLEAN, 0),
      Setup(TRUE,  {"write", "close"},          {3},    {FALSE}, 0),
      Setup(TRUE,  {"close", "ioctl"},          {1},    {FALSE}, 0),
      Setup(FALSE, {"read"},                    {0, 3}, BOOLEAN, 0),
      Setup(TRUE,  {"read"},                    {1},    {FALSE}, 0) }
=============================================================================
