------------------------------ MODULE MCFrames ------------------------------
(* A small instance of Frames for TLC. *)
EXTENDS Frames

\* The line end and an escape of the cloud's own in the bodies; a line feed and
\* an escape mark for the ids; and with id 2, length 2 and a zero in the body a
\* message whose end looks like a message.
MCIds == {10, 2}
MCValues == {13, 10, 0, 62}
==============================================================================
