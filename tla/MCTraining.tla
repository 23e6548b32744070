------------------------------- MODULE MCTraining -------------------------------
(* TLC instance of Training: two cells, near the money and in a wing.      *)
EXTENDS Training

CONSTANTS near, wing
================================================================================
