--------------------------- MODULE MCStreamRelay ---------------------------
EXTENDS StreamRelay
=============================================================================
