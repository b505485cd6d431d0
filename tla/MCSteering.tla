------------------------------ MODULE MCSteering ------------------------------
(* The instances of Steering that TLC explores: run names are model values. *)
EXTENDS Steering

===============================================================================
