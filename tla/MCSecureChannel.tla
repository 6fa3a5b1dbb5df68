--------------------------- MODULE MCSecureChannel ---------------------------
EXTENDS SecureChannel

CONSTANTS c1, c2

MCCallers == {c1, c2}

=============================================================================
