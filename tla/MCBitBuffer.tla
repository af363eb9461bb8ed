---- MODULE MCBitBuffer ----
EXTENDS BitBufferCalls
====
