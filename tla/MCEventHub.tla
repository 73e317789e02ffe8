----------------------------- MODULE MCEventHub -----------------------------
EXTENDS EventHub

CONSTANTS t1, t2, c1

OneStream == {<<t1, c1>>}
TwoStreams == {<<t1, c1>>, <<t2, c1>>}
=============================================================================
