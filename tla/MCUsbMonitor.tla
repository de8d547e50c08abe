----------------------------- MODULE MCUsbMonitor ----------------------------
EXTENDS UsbMonitor

Of(kinds, units) == [kind : kinds, units : units]

\* Every request, with data that takes none, one, two and three packets, and a bus reset.
AllRequests ==
    [requests |-> 3, resets |-> 1, overflows |-> FALSE, writes |-> {}, panics |-> {}, text |-> 0,
     kinds |-> Of({"address", "configure", "unconfigure", "interface", "unknown", "info", "bad",
                   "flush", "async"}, {0})
               \cup Of({"status"}, {1}) \cup Of({"descriptor"}, {1, 2, 3})
               \cup Of({"read", "write"}, {1, 3, 4}) \cup Of({"i2c", "cwrite"}, {1})
               \cup Of({"answer"}, {0, 1, 3, 4})]

\* Commands that overtake the worker.
Overtaking ==
    [requests |-> 5, resets |-> 1, overflows |-> TRUE, writes |-> {}, panics |-> {}, text |-> 0,
     kinds |-> Of({"info", "async", "configure"}, {0}) \cup Of({"i2c"}, {1}) \cup Of({"answer"}, {0, 1})]

\* Threads write while the host reads.
Talking ==
    [requests |-> 4, resets |-> 0, overflows |-> FALSE, writes |-> {1, 6}, panics |-> {}, text |-> 6,
     kinds |-> Of({"con_read"}, {4}) \cup Of({"answer"}, {0, 4})]

\* The host has the worker write too, and panics come in between.
Panicking ==
    [requests |-> 3, resets |-> 0, overflows |-> FALSE, writes |-> {4}, panics |-> {2}, text |-> 3,
     kinds |-> Of({"con_read"}, {3}) \cup Of({"cwrite"}, {1}) \cup Of({"answer"}, {0, 3})]

\* The host writes while threads read.
Typing ==
    [requests |-> 4, resets |-> 0, overflows |-> FALSE, writes |-> {}, panics |-> {}, text |-> 0,
     kinds |-> Of({"con_write"}, {1, 3}) \cup Of({"answer"}, {0})]

RequestsAndText == {AllRequests, Overtaking, Talking, Panicking, Typing}
=============================================================================
