--------------------------- MODULE MCUdcRequests ----------------------------
(***************************************************************************)
(* UdcRequests with two interfaces, a keyboard without reports on endpoint *)
(* 0 and LEDs with an output report of two bytes, and short descriptors.   *)
(***************************************************************************)
EXTENDS UdcRequests

MCDescLen ==
    [d \in {<<1, 0>>, <<2, 0>>, <<3, 0>>, <<3, 1>>} |-> IF d[1] = 2 THEN 3 ELSE 2]
MCReportDescLen == [i \in 0 .. 1 |-> 2 + i]
MCReports == [i \in 0 .. 1 |-> IF i = 1 THEN {<<2, 2>>} ELSE {}]

Lengths == 0 .. 3
Recips == {"device", "interface", "endpoint"}

\* Requests for data: any recipient, any descriptor.
MCGet ==
    [in : {TRUE}, type : {"standard"}, recip : Recips, req : {"GET_DESCRIPTOR"},
     hi : {1, 2, 3, 33, 34}, lo : 0 .. 1, index : {0}, wLength : Lengths]
    \cup
    [in : {TRUE}, type : {"standard"}, recip : Recips,
     req : {"GET_STATUS", "GET_CONFIGURATION", "GET_INTERFACE"},
     hi : {0}, lo : {0}, index : {1, 2}, wLength : Lengths]
    \cup
    [in : {TRUE}, type : {"class"}, recip : {"interface", "endpoint"},
     req : {"GET_REPORT", "GET_IDLE"}, hi : {2}, lo : {0}, index : 0 .. 2, wLength : Lengths]

\* Requests that set something, with and without data.
MCSet ==
    [in : {FALSE}, type : {"standard"}, recip : Recips,
     req : {"SET_ADDRESS", "SET_CONFIGURATION", "SET_INTERFACE", "SET_FEATURE", "CLEAR_FEATURE"},
     hi : {0}, lo : 0 .. 2, index : {1, 2}, wLength : 0 .. 1]
    \cup
    [in : {FALSE}, type : {"class"}, recip : {"interface", "endpoint"},
     req : {"SET_REPORT", "SET_IDLE"}, hi : {0, 2}, lo : {0}, index : {0, 2}, wLength : 0 .. 2]
    \cup
    [in : {FALSE}, type : {"class"}, recip : {"interface", "endpoint"},
     req : {"SET_PROTOCOL"}, hi : {0}, lo : {0, 1}, index : {0, 2}, wLength : 0 .. 1]

MCRequests == MCGet \cup MCSet
=============================================================================
