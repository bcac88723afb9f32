---------------------------- MODULE MCLoginFlow ----------------------------
EXTENDS LoginFlow
CONSTANTS s1, a1, a2
=============================================================================
