--------------------------- MODULE MCModemManager ---------------------------
(***************************************************************************)
(* Small instance of ModemManager: the limits are one step above zero, the *)
(* reset budget leaves room for a shutdown, a start and the power cut.     *)
(***************************************************************************)
EXTENDS ModemManager
=============================================================================
