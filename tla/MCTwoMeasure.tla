---------------------------- MODULE MCTwoMeasure ----------------------------
(* An instance of TwoMeasure for TLC. *)
EXTENDS TwoMeasure

\* On a view of 100 by 147 the region is 100 by 75, from row 36: two taps on its
\* left, one of them too close to the other, one on its right, one above it.
MCTaps == {<<20, 60>>, <<21, 62>>, <<80, 100>>, <<20, 10>>}

=============================================================================
