--------------------------- MODULE MCMaskRenderer ---------------------------
(* Instances of MaskRenderer for TLC. *)
EXTENDS MaskRenderer

\* A head that turns by steps the filter accepts and by steps it does not, on one
\* axis, on two, and over 180 degrees.
MCReadings == {<<0, 0, 0>>, <<80, 0, -60>>, <<160, 0, 0>>, <<-160, 60, 0>>}

=============================================================================
