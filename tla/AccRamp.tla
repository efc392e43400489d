------------------------------ MODULE AccRamp ------------------------------
(***************************************************************************)
(* Access control class ramping (acc_ramp.c): when a cell comes on the air *)
(* the BSC bars every access class of ordinary subscribers and allows a    *)
(* few more of them at every step of a timer.  The ramp starts and stops   *)
(* with the RSL links (osmo_bsc_main.c), with the NM state of the TRXs     *)
(* (abis_nm.c) and with the VTY; what is barred reaches the cell in the    *)
(* RACH control parameters of the system information (bsc_init.c).         *)
(***************************************************************************)
EXTENDS Integers, FiniteSets, Sequences

CONSTANTS AccSites  \* the networks considered

Accs == 0 .. 9      \* the classes ramping is about
StepSizeMax == 10   \* ACC_RAMP_STEP_SIZE_MAX

\* trx: how many TRXs each BTS has;  ipa: the BTSs are ip.access BTSs;  step, perm: the step size, and
\* the classes barred for good, in the configuration file;  vty: the VTY commands used;  adm: reports
\* may change the administrative state;  events: bound on what happens from outside
AccSite == [trx : Seq(1 .. 2), ipa : BOOLEAN, step : 1 .. 10, perm : SUBSET Accs,
            vty : SUBSET {"on", "off", "class", "step"}, adm : BOOLEAN, events : Nat]

ASSUME AccSitesAssumption == AccSites \subseteq AccSite

VARIABLES
    ar_site,
    ar_bts,   \* per BTS its acc_ramp, its TRXs, and what its cell broadcasts
    ar_left   \* what is left of site.events

arVars == <<ar_site, ar_bts, ar_left>>

ArBtss == 1 .. Len(ar_site.trx)
Adm == {"NULL", "LOCKED", "UNLOCKED", "SHUTDOWN"}
Oper == {"NULL", "DISABLED", "ENABLED"}

\* gsm_bts_trx_alloc(): a TRX before it reports anything; bb: its baseband transceiver is running
FreshTrx == [adm |-> "UNLOCKED", oper |-> "NULL", bb |-> FALSE, rsl |-> FALSE]

\* acc_ramp_init() and the configuration file, which enables ramping; nobody can access a cell that is
\* not on the air
FreshBts(n) == [enabled |-> TRUE, barred |-> {}, timer |-> FALSE, step |-> ar_site.step, perm |-> ar_site.perm,
                trx |-> [t \in 1 .. n |-> FreshTrx], air |-> Accs]

ArInit ==
    /\ ar_site \in AccSites
    /\ ar_bts = [b \in ArBtss |-> FreshBts(ar_site.trx[b])]
    /\ ar_left = ar_site.events

\* The type invariant: a ramp holds classes 0 to 9 only, and TRXs the NM states of GSM 12.21.
ArTypeOK ==
    /\ ar_site \in AccSites
    /\ ar_left \in 0 .. ar_site.events
    /\ \A b \in ArBtss :
          /\ ar_bts[b].barred \subseteq Accs /\ ar_bts[b].perm \subseteq Accs /\ ar_bts[b].air \subseteq Accs
          /\ ar_bts[b].timer \in BOOLEAN /\ ar_bts[b].enabled \in BOOLEAN
          /\ ar_bts[b].step \in 1 .. StepSizeMax
          /\ \A t \in DOMAIN ar_bts[b].trx :
                ar_bts[b].trx[t] \in [adm : Adm, oper : Oper, bb : BOOLEAN, rsl : BOOLEAN]

-----------------------------------------------------------------------------

\* gsm_bts_set_system_infos(): the RACH control parameters go out in SI 1 to 4, over the first TRX's
\* RSL link; acc_ramp_apply() adds the ramp to the classes barred for good
gsm_bts_set_system_infos(bts) ==
    IF bts.trx[1].rsl
    THEN [bts EXCEPT !.air = bts.perm \cup (IF bts.enabled THEN bts.barred ELSE {})]
    ELSE bts

\* allow_all_accs()
allow_all_accs(bts) == [bts EXCEPT !.barred = @ \cap bts.perm]

Mut_barr_all_accs(bts) == [bts EXCEPT !.barred = Accs]
Mut_barr_all_accs_ten(bts) == [bts EXCEPT !.barred = @ \cup ((0 .. 10) \ bts.perm)]

\* barr_all_accs()
barr_all_accs(bts) == [bts EXCEPT !.barred = @ \cup (Accs \ bts.perm)]

Mut_StepAllows(bts) ==
    {a \in bts.barred : /\ \A p \in bts.barred \cap bts.perm : a < p
                        /\ Cardinality({x \in bts.barred : x < a}) <= bts.step}

\* the classes that `step` rounds of the loop of do_acc_ramping_step() allow: the lowest barred ones,
\* and none beyond one that is barred for good, on which every further round is spent
StepAllows(bts) ==
    {a \in bts.barred : /\ \A p \in bts.barred \cap bts.perm : a < p
                        /\ Cardinality({x \in bts.barred : x < a}) < bts.step}

Mut_do_acc_ramping_step(bts) ==
    IF bts.step = StepSizeMax
    THEN gsm_bts_set_system_infos(allow_all_accs(bts))
    ELSE LET barred == bts.barred \ StepAllows(bts)
         IN  gsm_bts_set_system_infos([bts EXCEPT !.barred = barred, !.timer = Cardinality(barred) > 1])

\* do_acc_ramping_step(), after its timer has fired or before it was started
do_acc_ramping_step(bts) ==
    IF bts.step = StepSizeMax
    THEN gsm_bts_set_system_infos(allow_all_accs(bts))
    ELSE LET barred == bts.barred \ StepAllows(bts)
         IN  gsm_bts_set_system_infos([bts EXCEPT !.barred = barred, !.timer = barred # {}])

\* acc_ramp_abort()
acc_ramp_abort(bts) == [allow_all_accs(bts) EXCEPT !.timer = FALSE]

\* acc_ramp_trigger()
acc_ramp_trigger(bts) ==
    IF bts.enabled THEN do_acc_ramping_step(barr_all_accs(acc_ramp_abort(bts))) ELSE acc_ramp_abort(bts)

\* trx_is_usable()
trx_is_usable(trx) == ar_site.ipa => trx.oper = "ENABLED" /\ trx.bb

\* the decisions of acc_ramp_nm_sig_cb() about a TRX in NM state `old` that turns into `new`; the signal
\* comes before the TRX is updated
Triggers(trx, new) ==
    \/ /\ new.adm # trx.adm /\ new.adm = "UNLOCKED"
       /\ IF new.oper # trx.oper THEN new.oper = "ENABLED" ELSE trx_is_usable(trx)
    \/ /\ new.oper # trx.oper /\ new.oper = "ENABLED"
       /\ IF new.adm # trx.adm THEN new.adm = "UNLOCKED" ELSE trx.adm = "UNLOCKED"
Aborts(trx, new) ==
    \/ new.adm # trx.adm /\ new.adm \in {"LOCKED", "SHUTDOWN"}
    \/ new.oper # trx.oper /\ new.oper = "DISABLED"

\* acc_ramp_nm_sig_cb() of one BTS: the TRX `t` of the signal may be another BTS's
acc_ramp_nm_sig_cb(bts, t, trx, new) ==
    IF t # 1 \/ ~trx.rsl THEN bts
    ELSE IF Triggers(trx, new) THEN acc_ramp_trigger(bts)
    ELSE IF Aborts(trx, new) THEN acc_ramp_abort(bts)
    ELSE bts

-----------------------------------------------------------------------------

ArInput == ar_left > 0 /\ ar_left' = ar_left - 1

\* the signal of a changed TRX runs the callback of every BTS, then the TRX becomes `after`
NmSignal(b, t, new, after) ==
    LET trx == ar_bts[b].trx[t]
        seen == [c \in ArBtss |-> acc_ramp_nm_sig_cb(ar_bts[c], t, trx, new)]
    IN  ar_bts' = [seen EXCEPT ![b].trx[t].adm = after.adm, ![b].trx[t].oper = after.oper]

\* update_admstate(): the BTS acknowledges a change of the administrative state
ArAdmAck(b, t, adm) ==
    /\ ArInput /\ UNCHANGED ar_site
    /\ LET new == [ar_bts[b].trx[t] EXCEPT !.adm = adm] IN NmSignal(b, t, new, new)

\* abis_nm_rx_statechg_rep() for a radio carrier; the administrative state it reports is kept only
\* where none was known.  The availability, which no ramp looks at, may be all that has changed
ArReport(b, t, adm, oper) ==
    /\ ArInput /\ UNCHANGED ar_site
    /\ LET trx == ar_bts[b].trx[t]
           new == [trx EXCEPT !.adm = adm, !.oper = oper]
           kept == [new EXCEPT !.adm = IF trx.adm = "NULL" THEN adm ELSE trx.adm]
       IN  /\ ar_site.adm \/ trx.adm \in {"NULL", adm}
           /\ NmSignal(b, t, new, kept)

\* abis_nm_rx_statechg_rep() for a baseband transceiver, which no ramp looks at
ArTranscReport(b, t) ==
    /\ ArInput /\ UNCHANGED ar_site
    /\ ar_site.ipa
    /\ ar_bts' = [ar_bts EXCEPT ![b].trx[t].bb = ~@]

\* inp_sig_cb(), S_L_INP_TEI_UP of an RSL link: bootstrap_rsl()
ArRslUp(b, t) ==
    /\ ArInput /\ UNCHANGED ar_site
    /\ ~ar_bts[b].trx[t].rsl
    /\ LET trx == ar_bts[b].trx[t]
           linked == [ar_bts[b] EXCEPT !.trx[t].rsl = TRUE]
           ramped == IF trx_is_usable(trx) /\ trx.adm = "UNLOCKED" THEN acc_ramp_trigger(linked) ELSE linked
       IN  ar_bts' = [ar_bts EXCEPT ![b] = IF t = 1 THEN gsm_bts_set_system_infos(ramped) ELSE ramped]

\* inp_sig_cb(), S_L_INP_TEI_DN of an RSL link, with gsm_bts_mo_reset()
ArRslDown(b, t) ==
    /\ ArInput /\ UNCHANGED ar_site
    /\ ar_bts[b].trx[t].rsl
    /\ LET bts == acc_ramp_abort(ar_bts[b])
           trxs == [u \in DOMAIN bts.trx |->
                       [bts.trx[u] EXCEPT !.oper = "NULL", !.bb = FALSE, !.rsl = IF u = t THEN FALSE ELSE @]]
       IN  ar_bts' = [ar_bts EXCEPT ![b] = [bts EXCEPT !.trx = trxs, !.air = IF t = 1 THEN Accs ELSE @]]

\* the step timer fires
ArStep(b) ==
    /\ ar_bts[b].timer
    /\ ar_bts' = [ar_bts EXCEPT ![b] = do_acc_ramping_step([ar_bts[b] EXCEPT !.timer = FALSE])]
    /\ UNCHANGED <<ar_site, ar_left>>

Vty(b, cmd, after) ==
    /\ ArInput /\ UNCHANGED ar_site
    /\ cmd \in ar_site.vty
    /\ ar_bts' = [ar_bts EXCEPT ![b] = after]

\* cfg_bts_acc_ramping()
cfg_bts_acc_ramping(b) == Vty(b, "on", [ar_bts[b] EXCEPT !.enabled = TRUE])

\* cfg_bts_no_acc_ramping()
cfg_bts_no_acc_ramping(b) ==
    Vty(b, "off", IF ar_bts[b].enabled
                  THEN gsm_bts_set_system_infos([acc_ramp_abort(ar_bts[b]) EXCEPT !.enabled = FALSE])
                  ELSE ar_bts[b])

\* cfg_bts_acc_ramping_step_size(), acc_ramp_set_step_size()
cfg_bts_acc_ramping_step_size(b) ==
    \E n \in {1, 4, StepSizeMax} : Vty(b, "step", [ar_bts[b] EXCEPT !.step = n])

\* cfg_bts_rach_ac_class(): system information is not sent again
cfg_bts_rach_ac_class(b) ==
    \E a \in {2}, allowed \in BOOLEAN :
        Vty(b, "class", [ar_bts[b] EXCEPT !.perm = IF allowed THEN @ \ {a} ELSE @ \cup {a}])

ArNext ==
    \E b \in ArBtss :
        \/ \E t \in DOMAIN ar_bts[b].trx :
              \/ \E adm \in Adm \ {"NULL"} : ArAdmAck(b, t, adm)
              \/ \E adm \in Adm, oper \in Oper \ {"NULL"} : ArReport(b, t, adm, oper)
              \/ ArTranscReport(b, t)
              \/ ArRslUp(b, t)
              \/ ArRslDown(b, t)
        \/ ArStep(b)
        \/ cfg_bts_acc_ramping(b)
        \/ cfg_bts_no_acc_ramping(b)
        \/ cfg_bts_acc_ramping_step_size(b)
        \/ cfg_bts_rach_ac_class(b)

ArSpec == ArInit /\ [][ArNext]_arVars

\* the select loop fires a timer that has expired
ArFairness == \A b \in 1 .. 2 : WF_arVars(b \in ArBtss /\ ArStep(b))

-----------------------------------------------------------------------------

\* one E1 BTS with one TRX, whose classes are barred for good in the configuration file only, and whose
\* administrative state is what the BSC has set
Alone == ar_site.trx = <<1>> /\ ~ar_site.ipa /\ "class" \notin ar_site.vty /\ ~ar_site.adm

OnAir(b) == LET trx == ar_bts[b].trx[1] IN trx.rsl /\ trx.adm = "UNLOCKED" /\ trx.oper = "ENABLED"

Closed(b) == ar_bts[b].air \ ar_bts[b].perm

\* A ramp is never left half way: while the cell is on the air and ramping is enabled, classes that its
\* system information bars, and that are not barred for good, have the step timer running for them --
\* whatever locks, reports, link losses and VTY commands came in between (acc_ramp_nm_sig_cb(),
\* acc_ramp_abort() and do_acc_ramping_step() together).  For one E1 BTS with one TRX.
AccHalfWay ==
    \A b \in ArBtss : Alone /\ OnAir(b) /\ Closed(b) # {} => ar_bts[b].timer

\* acc_ramp_abort() says "Abort the ramping process and allow all available ACCs immediately", and
\* acc_ramp_nm_sig_cb() "We only care about state changes of the first TRX": AccHalfWay of every network.
AccAbortAllows ==
    \A b \in ArBtss : OnAir(b) /\ Closed(b) # {} /\ "class" \notin ar_site.vty /\ ~ar_site.adm => ar_bts[b].timer

\* A step of the timer lets at most step_size classes onto a cell that is being opened, and none before a
\* lower one (do_acc_ramping_step(): "Allow 'step_size' ACCs, starting from ACC0").
AccGradual ==
    \A b \in ArBtss :
          ar_bts[b].timer /\ ar_left' = ar_left /\ "class" \notin ar_site.vty /\ ar_bts[b].step < StepSizeMax
             => LET let == ar_bts[b].air \ ar_bts'[b].air
                IN  /\ Cardinality(let) <= ar_bts[b].step
                    /\ \A a \in let : \A x \in Closed(b)' : a < x

\* A ramp opens the cell step by step and is never left half way.
AccSafe == [][ArTypeOK' /\ AccHalfWay' /\ AccGradual]_arVars

\* Every class a cell still bars for its ramp is eventually allowed, or the cell goes off the air: the
\* ramp ends (do_acc_ramping_step() starts its timer as long as a class is left).
AccOpens ==
    \A b \in 1 .. 2 :
        (b \in ArBtss /\ "class" \notin ar_site.vty /\ ar_bts[b].timer) ~> (b \in ArBtss /\ ~ar_bts[b].timer)

=============================================================================
