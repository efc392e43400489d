------------------------------- MODULE MCCell -------------------------------
(***************************************************************************)
(* What runs beside the calls of a BSC, for a few small networks: handover *)
(* decisions, access class ramping, RF control and the control interface,  *)
(* the PCU socket, and DTAP over SAPI 3.  One behaviour is about one of    *)
(* them, `unit`.                                                           *)
(***************************************************************************)
EXTENDS HoDecision, AccRamp, Control, Pcu, Rll, TLC

VARIABLE unit

otherThanHo == <<arVars, ctVars, pcVars, rlVars>>
otherThanAr == <<hoVars, ctVars, pcVars, rlVars>>
otherThanCt == <<hoVars, arVars, pcVars, rlVars>>
otherThanPc == <<hoVars, arVars, ctVars, rlVars>>
otherThanRl == <<hoVars, arVars, ctVars, pcVars>>

\* Cells with two timeslots, one of which is to stay free
Cell == [alg |-> 2, as |-> TRUE, ho |-> TRUE, codec |-> {"hr", "efr", "amr"}, minlev |-> 10, minqual |-> 5, hyst |-> 3,
         bias |-> 0, biasq |-> 0, max |-> 1, maxta |-> 10, min |-> [r \in Rates |-> 1], retries |-> 0,
         penalty |-> [x \in {"fail", "dist"} |-> 1], ts |-> <<"F", "F">>]
Good == [valid |-> TRUE, lev |-> 30, qual |-> 0, ta |-> 0, cells |-> (1 :> 30) @@ (2 :> 30), power |-> TRUE, bad |-> FALSE]
Quiet(t) == {[Good EXCEPT !.power = FALSE, !.cells = t :> 40]}
Amr == [bts |-> 1, type |-> "F", mode |-> "SPEECH_AMR", codecs |-> {"FR3", "HR3"}]
Two == [cell |-> <<Cell, Cell>>, allowF |-> TRUE,
        reports |-> <<{[Good EXCEPT !.cells = 2 :> 40], [Good EXCEPT !.lev = 5, !.cells = 2 :> 40],
                       [Good EXCEPT !.cells = 2 :> 20, !.ta = 11]},
                      {[Good EXCEPT !.cells = 1 :> 40], [Good EXCEPT !.cells = (1 :> 20) @@ (0 :> 45), !.qual = 6]}>>,
        born |-> {Amr, [Amr EXCEPT !.mode = "SPEECH_V1", !.bts = 2]}, calls |-> 2, fails |-> FALSE, lost |-> FALSE]
Dyn == [Two EXCEPT !.cell = <<[Cell EXCEPT !.ts = <<"D", "H">>], [Cell EXCEPT !.ts = <<"D", "D">>]>>,
                   !.born = {Amr, [Amr EXCEPT !.type = "H"]},
                   !.reports = <<{[Good EXCEPT !.cells = 2 :> 40, !.qual = 6]}, {[Good EXCEPT !.cells = 1 :> 40]}>>]
Failing == [Two EXCEPT !.cell = <<[Cell EXCEPT !.retries = 1], [Cell EXCEPT !.retries = 1, !.ts = <<"F", "H", "D">>]>>,
                       !.fails = TRUE, !.born = {Amr},
                       !.reports = <<{[Good EXCEPT !.cells = (2 :> 40) @@ (0 :> 20), !.qual = 6]},
                                     {[Good EXCEPT !.cells = 1 :> 40, !.ta = 11]}>>]
OldAlg == [Two EXCEPT !.cell = <<[Cell EXCEPT !.alg = 1], Cell>>, !.lost = TRUE]
\* Only congestion moves the calls
Crowded == {[x EXCEPT !.calls = 3, !.reports = <<Quiet(2), Quiet(1)>>] :
              x \in {Two, Dyn, [Dyn EXCEPT !.cell[1].min = [r \in Rates |-> 2], !.cell[2].min = [r \in Rates |-> 2]]}}
Networks == {Two, Dyn, Failing, OldAlg} \cup Crowded
\* Three cells, of which the second is the best target
ThreeCells == {[Two EXCEPT !.cell = <<Cell, Cell, Cell>>,
                           !.reports = <<{[Good EXCEPT !.qual = 6, !.cells = (2 :> 35) @@ (3 :> 25)]}, {}, {}>>]}

Ramp == [trx |-> <<1>>, ipa |-> FALSE, step |-> 4, perm |-> {}, vty |-> {}, adm |-> TRUE, events |-> 6]
Ramps == {Ramp, [Ramp EXCEPT !.ipa = TRUE, !.step = 10, !.adm = FALSE, !.perm = {2}],
          [Ramp EXCEPT !.perm = {2}, !.vty = {"on", "off", "step"}, !.adm = FALSE],
          [Ramp EXCEPT !.vty = {"class"}, !.events = 5],
          [Ramp EXCEPT !.trx = <<2, 1>>, !.adm = FALSE, !.events = 3]}
TwoBtss == {[Ramp EXCEPT !.trx = <<1, 1>>, !.adm = FALSE]}

Bts == [excl |-> FALSE, ipa |-> TRUE]
Rf == [bts |-> <<Bts>>, cmds |-> {"rf"}, events |-> 6]
Controlled == {Rf, [Rf EXCEPT !.bts = <<Bts, [Bts EXCEPT !.excl = TRUE]>>, !.events = 5],
               [Rf EXCEPT !.bts = <<[Bts EXCEPT !.ipa = FALSE]>>, !.events = 5],
               [Rf EXCEPT !.bts = <<Bts, Bts>>, !.cmds = {"plmn"}], [Rf EXCEPT !.cmds = {"plmn", "apply"}],
               [Rf EXCEPT !.cmds = {"loc"}, !.bts = <<>>]}

Socket == [ts |-> 2, ericsson |-> TRUE, events |-> 6, len |-> 3]
Sockets == {Socket, [Socket EXCEPT !.ts = 1, !.ericsson = FALSE]}

CONSTANT Units  \* the parts considered

\* the parts that are not considered have some fixed site
Init ==
    /\ unit \in Units
    /\ HoInit /\ ArInit /\ CtInit /\ PcInit /\ RlInit
    /\ unit # "ho" => ho_site = CHOOSE s \in HoSites : TRUE
    /\ unit # "ar" => ar_site = CHOOSE s \in AccSites : TRUE
    /\ unit # "ct" => ct_site = CHOOSE s \in CtSites : TRUE
    /\ unit # "pc" => pc_site = CHOOSE s \in PcSites : TRUE

Next ==
    /\ UNCHANGED unit
    /\ \/ unit = "ho" /\ HoNext /\ UNCHANGED otherThanHo
       \/ unit = "ar" /\ ArNext /\ UNCHANGED otherThanAr
       \/ unit = "ct" /\ CtNext /\ UNCHANGED otherThanCt
       \/ unit = "pc" /\ PcNext /\ UNCHANGED otherThanPc
       \/ unit = "rl" /\ RlNext /\ UNCHANGED otherThanRl

vars == <<unit, hoVars, arVars, ctVars, pcVars, rlVars>>

\* HoFairness, ArFairness, CtFairness, PcFairness or RlFairness, for the part the behaviour is about
Fairness ==
    /\ \A c \in HoCalls : WF_hoVars(unit = "ho" /\ HoSwitched(c)) /\ WF_hoVars(unit = "ho" /\ HoSucceeds(c))
    /\ \A b \in 1 .. 2 : WF_arVars(unit = "ar" /\ b \in ArBtss /\ ArStep(b))
    /\ WF_ctVars(unit = "ct" /\ RfDelay) /\ WF_ctVars(unit = "ct" /\ grace_timeout)
    /\ \A b \in 1 .. 2 : WF_ctVars(unit = "ct" /\ b \in CtBtss /\ CtTakes(b))
    /\ WF_pcVars(unit = "pc" /\ pcu_sock_write)
    /\ WF_rlVars(unit = "rl" /\ RlTimeout) /\ WF_rlVars(unit = "rl" /\ RlProcedureEnds)
    /\ WF_rlVars(unit = "rl" /\ RlCleared)

Spec == Init /\ [][Next]_vars /\ Fairness

\* The liveness properties of the parts, each for the behaviours about it.

\* Where only congestion moves calls, the congestion check comes to rest (HoSettles).
CongestionSettles == (unit = "ho" /\ ho_site \in Crowded) => HoSettles

\* Every ramp that runs ends with all access classes allowed (AccOpens).
RampOpens == unit = "ar" => AccOpens

\* The last RF command is carried out (RfObeyed).
RfCommandObeyed == unit = "ct" => RfObeyed

\* The write queue of a PCU that reads is emptied (PcDrains).
PcuQueueDrains == unit = "pc" => PcDrains

\* Each establishment of SAPI 3 is decided (RlDecided).
SapiDecided == unit = "rl" => RlDecided

\* What is begun in a cell comes to an end: congestion handovers settle, a ramp opens, an RF command is
\* obeyed, the PCU's queue drains, and a request for SAPI 3 is decided.
CellSettles == CongestionSettles /\ RampOpens /\ RfCommandObeyed /\ PcuQueueDrains /\ SapiDecided
=============================================================================
