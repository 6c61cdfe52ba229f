----------------------------- MODULE TestSwitch -----------------------------
(***************************************************************************)
(* What the keypad and the LED panel share: the test mode switch, and      *)
(* whether the host has configured the device.                             *)
(***************************************************************************)
CONSTANT None   \* no key

VARIABLES
    test,       \* the test mode switch: PORTB pin 4 is low
    configured  \* udc_is_configured(), and the three main_b_..._enable
=============================================================================
