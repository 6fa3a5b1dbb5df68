------------------------------ MODULE MCBrowse ------------------------------
EXTENDS Browse

CONSTANTS c1, c2, p1, p2, p3, p4

MCPoints == {p1, p2, p3, p4}

MCOneCaller == {c1}

MCTwoCallers == {c1, c2}

=============================================================================
