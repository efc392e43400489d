---------------------------- MODULE MCTimeslot ------------------------------
(* Instances of Timeslot for TLC. *)
EXTENDS Timeslot

Dyn == [config |-> "TCH_F_TCH_H_PDCH", gprs |-> TRUE, purpose |-> {"MS"}, voice |-> {FALSE},
        sapi |-> {0}, teiDown |-> TRUE, debug |-> FALSE]

\* A dynamic timeslot for channel requests, another for assignments too, and a static
\* timeslot that takes handovers
BusySites == {Dyn, [Dyn EXCEPT !.purpose = {"MS", "ASSIGNMENT"}],
              [Dyn EXCEPT !.config = "TCH_H", !.purpose = {"HANDOVER"}, !.voice = BOOLEAN]}

\* An ip.access style timeslot with everything but a loss of RSL alone
IpacSites == {[Dyn EXCEPT !.config = "TCH_F_PDCH", !.purpose = {"MS", "ASSIGNMENT", "HANDOVER"},
                          !.voice = BOOLEAN, !.sapi = {0, 3}, !.teiDown = FALSE, !.debug = TRUE]}

\* The dynamic timeslot alone
DynSites == BusySites \ {t \in BusySites : t.config = "TCH_H"}
=============================================================================
