---------------------------- MODULE MCDispatcher ----------------------------
(* Instantiates Dispatcher for TLC.                                       *)
EXTENDS Dispatcher

CONSTANTS BadTimeout

MCSubIds   == {0, 1}
MCStatuses == {Good, BadSessionClosed, BadTimeout}
=============================================================================
