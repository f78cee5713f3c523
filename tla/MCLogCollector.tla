---------------------------- MODULE MCLogCollector ----------------------------
EXTENDS LogCollector
=============================================================================
