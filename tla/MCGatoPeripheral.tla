-------------------------- MODULE MCGatoPeripheral --------------------------
(* A server for GatoPeripheral.  Service 1 has two characteristics: the    *)
(* first has a configuration and another descriptor, the second has none,  *)
(* as most characteristics that only can be read.  Service 9 has no        *)
(* characteristics and ends with the last handle.                          *)
EXTENDS GatoPeripheral, TLC

MCDb ==
    1 :> [end |-> 8,
          chars |-> 2 :> [end |-> 6, value |-> 3, descs |-> {4, 5}]
                 @@ 7 :> [end |-> 8, value |-> 8, descs |-> {}]]
 @@ 9 :> [end |-> 9, chars |-> EmptyMap]
=============================================================================
