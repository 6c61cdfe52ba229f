------------------------------ MODULE MCKeypad ------------------------------
(***************************************************************************)
(* Keypad with two columns.                                                *)
(***************************************************************************)
EXTENDS Keypad

\* A button in each column, which a scan of main reads at different times.
MCButton == {<<1, 1>>, <<2, 1>>}
=============================================================================
