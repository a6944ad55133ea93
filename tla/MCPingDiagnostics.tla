------------------------- MODULE MCPingDiagnostics -------------------------
\* A small instance of PingDiagnostics for TLC.
EXTENDS PingDiagnostics
==============================================================================
