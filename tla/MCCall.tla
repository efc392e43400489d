------------------------------- MODULE MCCall -------------------------------
(* Instances of Call for TLC.                                              *)
EXTENDS Call

\* An ip.access BTS with voice over IP on the A interface, and another BTS without it
TwoSites == {[aoip |-> TRUE, ipacc |-> TRUE], [aoip |-> FALSE, ipacc |-> FALSE]}

=============================================================================
