------------------------------ MODULE MCKernel ------------------------------
(* A bounded instance of Kernel for TLC: seven programs, which between    *)
(* them make every kernel entry.                                           *)
EXTENDS Kernel

SevenPrograms ==
    {{"Send", "Call", "Recv", "Reply", "Resume", "Suspend", "DeleteThread",
      "DeleteObject", "CancelBadged"},
     {"Call", "ReplyRecv", "Slots", "SendReply", "Resume", "Suspend", "DeleteThread"},
     {"Call", "ReplyRecv", "Slots", "SendReply", "Resume", "Suspend", "Fault"},
     {"Call", "ReplyRecv", "Signal", "Bind", "Resume"},
     {"Call", "Recv", "ReplyWait", "Signal", "Resume"},
     {"Recv", "Signal", "Wait", "Bind", "Resume", "DeleteObject"},
     {"Priority", "Yield", "Tick", "Irq", "Wait", "Resume"}}

\* The kernel treats threads other than the initial one, and slots, alike.
Others == Permutations(Threads \ {Root}) \cup Permutations(Slots)
=============================================================================
