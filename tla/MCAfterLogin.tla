---------------------------- MODULE MCAfterLogin ----------------------------
\* An instance of AfterLogin: three buildings for a list of two, one visitor.
EXTENDS AfterLogin

CONSTANTS b1, b2, b3, v1
=============================================================================
