---------------------------- MODULE MCFrameReader ----------------------------
EXTENDS FrameReader

F(size, json) == [size |-> size, json |-> json]

\* Shortest and longest message, no message, too short, too long.
MCFrame == {F(1, TRUE), F(2, TRUE), F(2, FALSE), F(0, TRUE), F(3, TRUE)}
==============================================================================
