------------------------------ MODULE MCRunLoop ------------------------------
EXTENDS RunLoop
=============================================================================
