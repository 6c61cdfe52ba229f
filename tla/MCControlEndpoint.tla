------------------------- MODULE MCControlEndpoint -------------------------
(***************************************************************************)
(* The kinds of request the device is asked, with packets of two bytes.    *)
(***************************************************************************)
EXTENDS ControlEndpoint

Get(wLength, payload, effect) ==
    [in |-> TRUE, wLength |-> wLength, known |-> TRUE, payload |-> payload,
     effect |-> effect, value |-> 0]

Set(wLength, payload, effect, value) ==
    [in |-> FALSE, wLength |-> wLength, known |-> TRUE, payload |-> payload,
     effect |-> effect, value |-> value]

Unknown(in, wLength) ==
    [in |-> in, wLength |-> wLength, known |-> FALSE, payload |-> 0,
     effect |-> "none", value |-> 0]

MCRequests ==
    {Get(3, 3, "none"),             \* a descriptor
     Get(5, 4, "none"),             \* a descriptor asked with a larger length
     Get(2, 2, "report"),           \* GET_REPORT of the LED interface
     Set(0, 0, "address", 1),
     Set(0, 0, "address", 2),
     Set(0, 0, "none", 0),          \* SET_CONFIGURATION
     Set(1, 1, "report", 0),        \* SET_REPORT of the LED interface
     Set(3, 3, "report", 0),        \* a report of two packets
     Set(3, 0, "none", 0),          \* SET_IDLE with data
     Unknown(TRUE, 2), Unknown(FALSE, 0)}
=============================================================================
