------------------------------- MODULE MCPeer -------------------------------
EXTENDS Peer

CONSTANTS k1, k2, w1, x1

\* One request answered twice is enough to test the read loop.
OneTwice == [c \in Calls |-> IF c = k1 THEN 2 ELSE 1]
=============================================================================
