---- MODULE MCPulseDetect ----
EXTENDS PulseDetect
====
