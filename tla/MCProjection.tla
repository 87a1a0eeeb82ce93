---------------------------- MODULE MCProjection ----------------------------
EXTENDS MCPerpExchange, Projection
=============================================================================
