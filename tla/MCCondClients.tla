--------------------------- MODULE MCCondClients ----------------------------
EXTENDS CondClients

CONSTANTS t1, t2, t3

=============================================================================
