---------------------------- MODULE MCLifecycle -----------------------------
(* Instantiates Lifecycle for TLC.                                        *)
EXTENDS Lifecycle

CONSTANTS BadTimeout

MCSubIds   == {0, 1}
MCStatuses == {Good, BadSessionClosed, BadTimeout}
=============================================================================
