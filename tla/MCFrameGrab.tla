---- MODULE MCFrameGrab ----
EXTENDS FrameGrab
====
