--------------------------- MODULE MCAgentRuntime ---------------------------
EXTENDS AgentRuntime

CONSTANTS r1, r2, p1, p2, e1, e2, a1, a2
=============================================================================
