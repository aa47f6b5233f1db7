-------------------------- MODULE MCRegistrySweep --------------------------
(* Two registries for TLC, one of several images and one of a single image. *)
EXTENDS RegistrySweep

MCSize == [r \in Registries |-> IF r = "hub" THEN 4 ELSE 1]
=============================================================================
