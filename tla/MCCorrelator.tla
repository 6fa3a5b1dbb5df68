---------------------------- MODULE MCCorrelator ----------------------------
(* Instantiates Correlator for TLC: two caller threads, statuses as model *)
(* values.                                                                *)
EXTENDS Correlator

CONSTANTS c1, c2, BadSessionClosed

MCCallers  == {c1, c2}
MCStatuses == {Good, BadSessionClosed}
=============================================================================
