----------------------------- MODULE MCPipeline -----------------------------
EXTENDS Pipeline

MCLeverageAsked == [c \in Leverages |-> 5]
=============================================================================
