---------------------------- MODULE MCSmokeCheck ----------------------------
EXTENDS SmokeCheck
Holdings == {-2, -1, 0, 2}
=============================================================================
