---- MODULE MCBridgeRequests ----
EXTENDS BridgeRequests
CONSTANTS r1, r2
====
