------------------------- MODULE MCActivityHandover -------------------------
(* Instances of ActivityHandover for TLC. *)
EXTENDS ActivityHandover

Camera(where) == [facing |-> where, streams |-> TRUE]
NoStreams(where) == [facing |-> where, streams |-> FALSE]

\* A phone that lists the back camera first, one that lists its front camera
\* first, one whose front camera has no stream map, and a device whose only
\* camera is an external one.
MCCameraLists == {<<Camera("back"), Camera("front")>>,
                  <<Camera("front"), Camera("back")>>,
                  <<Camera("back"), NoStreams("front")>>,
                  <<Camera("external")>>}

=============================================================================
