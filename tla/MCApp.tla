-------------------------------- MODULE MCApp --------------------------------
(* The program with up to three screens and three changes per frame. *)
EXTENDS AppProperties
===============================================================================
