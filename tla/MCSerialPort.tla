----------------------------- MODULE MCSerialPort ------------------------------
(* Small instances of SerialPort for TLC. *)
EXTENDS SerialPort

Commands == {"cmd"}
Both     == {"cmd", "raw"}
Nobody   == {}

Safety == {"readFails", "writeFails", "storeFails", "cancel", "slowJoin", "detach"}
Ends   == {"openFails", "readFails", "slowJoin", "hold"}
Holds  == {"hold"}
Drops  == {"readFails"}
===============================================================================
