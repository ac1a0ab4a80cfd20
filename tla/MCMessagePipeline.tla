------------------------- MODULE MCMessagePipeline -------------------------
EXTENDS MessagePipeline

=============================================================================
