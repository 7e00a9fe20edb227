---------------------------- MODULE MCBlueGreen ----------------------------
(* BlueGreen on small instances: three generations, two promotions asked for,
   and two failed calls. *)
EXTENDS BlueGreen
=============================================================================
