---------------------------- MODULE MCTimedGait ----------------------------
(* Small instances of TimedGait: see the README for how the constants of    *)
(* the cfg files stand to those of the sketch.                              *)
EXTENDS TimedGait
=============================================================================
