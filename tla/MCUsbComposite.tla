-------------------------- MODULE MCUsbComposite --------------------------
(***************************************************************************)
(* The descriptor table of the product (conf_usb.h, udi_hid_led_desc_t):   *)
(* keyboard on interface 0, joystick on 1, LED IN and then LED OUT on 2.   *)
(***************************************************************************)
EXTENDS UsbComposite

MCEndpoint == {"ep1in", "ep2in", "ep4in", "ep3out"}

MCIfaceOf == [e \in MCEndpoint |->
    CASE e = "ep1in" -> 0 [] e = "ep2in" -> 1 [] OTHER -> 2]

MCPosition == [e \in MCEndpoint |->
    CASE e = "ep1in" -> 1 [] e = "ep2in" -> 2 [] e = "ep4in" -> 3 [] OTHER -> 4]

MCDriver == [e \in MCEndpoint |->
    CASE e = "ep1in" -> "kbd" [] e = "ep2in" -> "jstk"
      [] e = "ep4in" -> "ledIn" [] OTHER -> "ledOut"]
=============================================================================
