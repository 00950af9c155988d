------------------------------ MODULE MCCapture ------------------------------
(* A small panel for TLC. *)
EXTENDS Capture

\* Two places a drift apart (24 pixels, 72 panel units: under the 48 pixels that
\* make a swipe, over the raw 30), and one a drag away.
Places == {<<10, 20>>, <<34, 20>>, <<34, 90>>}
ThreeContacts == <<<<10, 20>>, <<34, 90>>, <<34, 20>>>>
=============================================================================
