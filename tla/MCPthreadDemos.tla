--------------------------- MODULE MCPthreadDemos ---------------------------
EXTENDS PthreadDemos

CONSTANTS f1, f2, f3, s1, s2, s3

=============================================================================
