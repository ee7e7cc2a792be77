----------------------------- MODULE MCWalWriter -----------------------------
EXTENDS WalWriter
=============================================================================
