------------------------------ MODULE Control ------------------------------
(***************************************************************************)
(* Controlling the network from outside: the RF control socket and its     *)
(* policy (bsc_rf_ctrl.c), and the variables and traps of the control      *)
(* interface that change or watch state (osmo_bsc_ctrl.c,                  *)
(* bsc_ctrl_commands.c).  A BTS is its OML and RSL links, one radio        *)
(* carrier and the administrative requests queued for it.  S_MSC_LOST and  *)
(* S_MSC_CONNECTED are never dispatched by this program, so that           *)
(* msc_signal_handler(), rf_auto_off_cb() and                              *)
(* msc_connection_status_trap_cb() never run and are not modelled.         *)
(***************************************************************************)
EXTENDS Integers, Sequences

CONSTANTS CtSites  \* the networks considered

\* bts: per BTS whether it is excluded from the RF lock and whether it is an ip.access BTS;  cmds: what is
\* used of RF control and the control interface;  events: bound on commands, links and reports
CtBts == [excl : BOOLEAN, ipa : BOOLEAN]
CtSite == [bts : Seq(CtBts), cmds : SUBSET {"rf", "plmn", "apply", "loc"}, events : Nat]

ASSUME CtSitesAssumption == CtSites \subseteq CtSite

VARIABLES
    ct_site,
    ct_rf,     \* struct osmo_bsc_rf: the policy, last_request and the timers that are pending
    ct_bts,    \* per BTS: its links, its carrier, the queued requests, the PLMN it was configured with
    ct_net,    \* net->plmn
    ct_status, \* bts_connection_status
    ct_trap,   \* what the last trap told the clients of the control interface
    ct_locs,   \* bts->loc_list of the first BTS
    ct_left    \* what is left of site.events

ctVars == <<ct_site, ct_rf, ct_bts, ct_net, ct_status, ct_trap, ct_locs, ct_left>>

CtBtss == 1 .. Len(ct_site.bts)
RfTimers == {"delay", "grace", "check"}
Fixes == {"none", "invalid", "fix1", "fix2"}

\* adm, oper: trx->mo.nm_state;  radio: the carrier transmits;  req: changes of the administrative state
\* in the OML queue, oldest first
CtFresh == [oml |-> FALSE, rsl |-> FALSE, adm |-> "UNLOCKED", oper |-> "NULL", radio |-> FALSE, req |-> <<>>, plmn |-> "none"]

\* osmo_bsc_rf_create()
CtInit ==
    /\ ct_site \in CtSites
    /\ ct_rf = [policy |-> "ON", last |-> "none", timers |-> {}]
    /\ ct_bts = [b \in CtBtss |-> CtFresh]
    /\ ct_net = "A" /\ ct_status = FALSE
    /\ ct_trap = [status |-> FALSE, loc |-> "none"]
    /\ ct_locs = <<>>
    /\ ct_left = ct_site.events

\* The type invariant: cleanup_locations() keeps at most three positions.
CtTypeOK ==
    /\ ct_site \in CtSites
    /\ ct_rf \in [policy : {"ON", "OFF", "GRACE"}, last : {"none", "d", "1", "0"}, timers : SUBSET RfTimers]
    /\ \A b \in CtBtss :
          /\ ct_bts[b].oml \in BOOLEAN /\ ct_bts[b].rsl \in BOOLEAN /\ ct_bts[b].radio \in BOOLEAN
          /\ ct_bts[b].adm \in {"LOCKED", "UNLOCKED"} /\ ct_bts[b].oper \in {"NULL", "DISABLED", "ENABLED"}
    /\ ct_net \in {"A", "B"} /\ ct_status \in BOOLEAN
    /\ Len(ct_locs) <= 3 /\ \A i \in DOMAIN ct_locs : ct_locs[i] \in Fixes \ {"none"}
    /\ ct_left \in 0 .. ct_site.events

-----------------------------------------------------------------------------
(* The RF policy.                                                          *)

\* gsm_trx_lock_rf()
gsm_trx_lock_rf(bts, new) ==
    IF bts.oml THEN [bts EXCEPT !.req = Append(@, new)] ELSE [bts EXCEPT !.adm = new]

Mut_lock_each_trx(new) == [b \in CtBtss |-> gsm_trx_lock_rf(ct_bts[b], new)]

\* lock_each_trx()
lock_each_trx(new) ==
    [b \in CtBtss |-> IF ct_site.bts[b].excl THEN ct_bts[b] ELSE gsm_trx_lock_rf(ct_bts[b], new)]

\* switch_rf_off(), send_signal()
switch_rf_off(timers) ==
    /\ ct_bts' = lock_each_trx("LOCKED")
    /\ ct_rf' = [ct_rf EXCEPT !.policy = "OFF", !.timers = timers]

\* enter_grace(), and handle_rf_signal(), which only sends text to subscribers
enter_grace(timers) ==
    /\ ct_rf' = IF "grace" \in timers THEN [ct_rf EXCEPT !.timers = timers]
                ELSE [ct_rf EXCEPT !.policy = "GRACE", !.timers = timers \cup {"grace"}]
    /\ UNCHANGED ct_bts

Mut_rf_delay_cmd_cb ==
    LET rest == ct_rf.timers \ {"delay"}
    IN  \/ ct_rf.last = "d" /\ switch_rf_off(rest \ {"check", "grace"})
        \/ /\ ct_rf.last = "1"
           /\ ct_bts' = lock_each_trx("UNLOCKED")
           /\ ct_rf' = [ct_rf EXCEPT !.policy = "ON", !.timers = rest \cup {"check"}]
        \/ ct_rf.last = "0" /\ enter_grace(rest \ {"check"})

\* rf_delay_cmd_cb()
rf_delay_cmd_cb ==
    LET rest == ct_rf.timers \ {"delay"}
    IN  \/ ct_rf.last = "d" /\ switch_rf_off(rest \ {"check", "grace"})
        \/ /\ ct_rf.last = "1"
           /\ ct_bts' = lock_each_trx("UNLOCKED")
           /\ ct_rf' = [ct_rf EXCEPT !.policy = "ON", !.timers = (rest \ {"grace"}) \cup {"check"}]
        \/ ct_rf.last = "0" /\ enter_grace(rest \ {"check"})

-----------------------------------------------------------------------------
(* Links.                                                                  *)

Mut_bts_connection_status_trap_cb(links) ==
    LET now == \A b \in CtBtss : links[b]
    IN  /\ ct_status' = now
        /\ ct_trap' = IF now # ct_status THEN [ct_trap EXCEPT !.status = now] ELSE ct_trap

\* bts_connection_status_trap_cb(), with the OML links as they are when the signal is dispatched
bts_connection_status_trap_cb(links) ==
    LET now == \E b \in CtBtss : links[b]
    IN  /\ ct_status' = now
        /\ ct_trap' = IF now # ct_status THEN [ct_trap EXCEPT !.status = now] ELSE ct_trap

\* ipaccess_drop_oml(): the driver reports the lost OML link before bts->oml_link is cleared, and a lost
\* RSL link after that; inp_sig_cb() resets the managed objects and empties the queue
Dropped(bts) ==
    [bts EXCEPT !.oml = FALSE, !.rsl = FALSE, !.oper = "NULL", !.radio = FALSE, !.req = <<>>, !.plmn = "none"]
OmlLinks == [b \in CtBtss |-> ct_bts[b].oml]
\* A set of BTSs is dropped one after the other; the last one without RSL links is not yet seen to be gone
Seen(set, b) == b \notin set \/ (~ct_bts[b].rsl /\ \A c \in set : c <= b)
DropOml(set) ==
    /\ ct_bts' = [b \in CtBtss |-> IF b \in set THEN Dropped(ct_bts[b]) ELSE ct_bts[b]]
    /\ IF set # {} THEN bts_connection_status_trap_cb([b \in CtBtss |-> ct_bts[b].oml /\ Seen(set, b)])
       ELSE UNCHANGED <<ct_status, ct_trap>>

-----------------------------------------------------------------------------
(* What happens.                                                           *)

CtInput == ct_left > 0 /\ ct_left' = ct_left - 1

osmo_bsc_rf_schedule_lock(cmd) == ct_rf' = [ct_rf EXCEPT !.last = cmd, !.timers = @ \cup {"delay"}]

\* a command on the RF control socket
rf_read_cmd(cmd) ==
    /\ CtInput /\ "rf" \in ct_site.cmds
    /\ osmo_bsc_rf_schedule_lock(cmd)
    /\ UNCHANGED <<ct_site, ct_bts, ct_net, ct_status, ct_trap, ct_locs>>

\* SET rf_locked 0 or 1: verify_net_rf_lock() refuses all else
set_net_rf_lock(locked) ==
    /\ CtInput /\ "rf" \in ct_site.cmds
    /\ osmo_bsc_rf_schedule_lock(IF locked = 1 THEN "0" ELSE "1")
    /\ UNCHANGED <<ct_site, ct_bts, ct_net, ct_status, ct_trap, ct_locs>>

\* the delay is over
RfDelay ==
    /\ "delay" \in ct_rf.timers
    /\ rf_delay_cmd_cb
    /\ UNCHANGED <<ct_site, ct_net, ct_status, ct_trap, ct_locs, ct_left>>

\* grace_timeout()
grace_timeout ==
    /\ "grace" \in ct_rf.timers
    /\ switch_rf_off(ct_rf.timers \ {"grace"})
    /\ UNCHANGED <<ct_site, ct_net, ct_status, ct_trap, ct_locs, ct_left>>

\* the BTSs whose OML link rf_check_cb() drops; their availability is not modelled, and any may be out of order
Checked(b) == ct_bts[b].oml /\ ct_site.bts[b].ipa /\ ~ct_site.bts[b].excl
CheckFails(b) == Checked(b) /\ (ct_bts[b].oper # "ENABLED" \/ ct_bts[b].adm # "UNLOCKED")

rf_check_cb ==
    /\ "check" \in ct_rf.timers
    /\ ct_rf' = [ct_rf EXCEPT !.timers = @ \ {"check"}]
    /\ \E faulty \in SUBSET {b \in CtBtss : Checked(b)} : DropOml({b \in CtBtss : CheckFails(b) \/ b \in faulty})
    /\ UNCHANGED <<ct_site, ct_net, ct_locs, ct_left>>

\* OML comes up: the BTS is configured with the PLMN of the moment
CtOmlUp(b) ==
    /\ CtInput /\ ~ct_bts[b].oml
    /\ ct_bts' = [ct_bts EXCEPT ![b].oml = TRUE, ![b].plmn = ct_net]
    /\ bts_connection_status_trap_cb([OmlLinks EXCEPT ![b] = TRUE])
    /\ UNCHANGED <<ct_site, ct_rf, ct_net, ct_locs>>

CtRslUp(b) ==
    /\ CtInput /\ ct_bts[b].oml /\ ~ct_bts[b].rsl
    /\ ct_bts' = [ct_bts EXCEPT ![b].rsl = TRUE]
    /\ bts_connection_status_trap_cb(OmlLinks)
    /\ UNCHANGED <<ct_site, ct_rf, ct_net, ct_locs>>

\* ipaccess_sign_link_down()
CtLinkDown(b) ==
    /\ CtInput /\ ct_bts[b].oml
    /\ DropOml({b})
    /\ UNCHANGED <<ct_site, ct_rf, ct_net, ct_locs>>

\* the carrier reports that it is there: nm_statechg_event() sends it the administrative state it should have
CtCarrier(b) ==
    /\ ct_bts[b].oml /\ ct_bts[b].oper = "NULL"
    /\ ct_bts' = [ct_bts EXCEPT ![b].oper = "DISABLED", ![b].req = Append(@, ct_bts[b].adm)]
    /\ UNCHANGED <<ct_site, ct_rf, ct_net, ct_status, ct_trap, ct_locs, ct_left>>

\* the BTS takes a request, and update_admstate() its acknowledgement
CtTakes(b) ==
    /\ ct_bts[b].req # <<>>
    /\ ct_bts' = [ct_bts EXCEPT ![b].req = Tail(@), ![b].adm = Head(ct_bts[b].req),
                                ![b].radio = Head(ct_bts[b].req) = "UNLOCKED" /\ ct_bts[b].oper = "ENABLED"]
    /\ UNCHANGED <<ct_site, ct_rf, ct_net, ct_status, ct_trap, ct_locs, ct_left>>

\* the carrier has started
CtEnabled(b) ==
    /\ ct_bts[b].oper = "DISABLED" /\ ct_bts[b].req = <<>>
    /\ ct_bts' = [ct_bts EXCEPT ![b].oper = "ENABLED", ![b].radio = ct_bts[b].adm = "UNLOCKED"]
    /\ UNCHANGED <<ct_site, ct_rf, ct_net, ct_status, ct_trap, ct_locs, ct_left>>

-----------------------------------------------------------------------------
(* The control interface.                                                  *)

Mut_set_net_apply_config ==
    DropOml({b \in CtBtss : b = 1 /\ ct_site.bts[b].ipa /\ ct_bts[b].oml})

\* set_net_apply_config(), with a value other than "restart"; a BTS that is told to restart drops its links
\* by itself
set_net_apply_config ==
    DropOml({b \in CtBtss : ct_site.bts[b].ipa /\ ct_bts[b].oml})

\* set_net_mcc_mnc_apply()
set_net_mcc_mnc_apply(plmn) ==
    /\ CtInput /\ "plmn" \in ct_site.cmds
    /\ ct_net' = plmn
    /\ IF plmn = ct_net THEN UNCHANGED <<ct_bts, ct_status, ct_trap>> ELSE set_net_apply_config
    /\ UNCHANGED <<ct_site, ct_rf, ct_locs>>

\* set_net_mcc(), set_net_mnc(): nothing is told the BTSs
set_net_mcc(plmn) ==
    /\ CtInput /\ "apply" \in ct_site.cmds
    /\ ct_net' = plmn
    /\ UNCHANGED <<ct_site, ct_rf, ct_bts, ct_status, ct_trap, ct_locs>>

\* set_bts_apply_config()
set_bts_apply_config(b) ==
    /\ CtInput /\ "apply" \in ct_site.cmds
    /\ ct_site.bts[b].ipa /\ ct_bts[b].oml
    /\ DropOml({b})
    /\ UNCHANGED <<ct_site, ct_rf, ct_net, ct_locs>>

Mut_cleanup_locations(locs) == SubSeq(locs, 1, IF Len(locs) > 3 THEN 3 ELSE Len(locs))
Mut_cleanup_locations_four(locs) == SubSeq(locs, 1, IF Len(locs) > 4 THEN 4 ELSE Len(locs))

\* cleanup_locations(): of neighbouring invalid positions the newest stays, and at most three positions do
cleanup_locations(locs) ==
    LET stays(i) == ~(locs[i] = "invalid" /\ i > 1 /\ locs[i - 1] = "invalid")
        kept == SelectSeq([i \in DOMAIN locs |-> <<locs[i], stays(i)>>], LAMBDA p : p[2])
    IN  [i \in 1 .. (IF Len(kept) > 3 THEN 3 ELSE Len(kept)) |-> kept[i][1]]

\* set_bts_loc(), with verify_bts_loc() passed; the position before the first one is read from memory that
\* holds no position, so that the trap may be left out
set_bts_loc(fix) ==
    /\ CtInput /\ "loc" \in ct_site.cmds
    /\ ct_locs' = cleanup_locations(<<fix>> \o ct_locs)
    /\ \/ /\ ct_locs # <<>> => Head(ct_locs) # fix
          /\ ct_trap' = [ct_trap EXCEPT !.loc = fix]
       \/ /\ ct_locs # <<>> => Head(ct_locs) = fix
          /\ UNCHANGED ct_trap
    /\ UNCHANGED <<ct_site, ct_rf, ct_bts, ct_net, ct_status>>

-----------------------------------------------------------------------------

CtNext ==
    \/ \E cmd \in {"d", "1", "0"} : rf_read_cmd(cmd)
    \/ \E locked \in {0, 1} : set_net_rf_lock(locked)
    \/ RfDelay
    \/ grace_timeout
    \/ rf_check_cb
    \/ \E b \in CtBtss : CtOmlUp(b)
    \/ \E b \in CtBtss : CtRslUp(b)
    \/ \E b \in CtBtss : CtLinkDown(b)
    \/ \E b \in CtBtss : CtCarrier(b)
    \/ \E b \in CtBtss : CtTakes(b)
    \/ \E b \in CtBtss : CtEnabled(b)
    \/ \E plmn \in {"A", "B"} : set_net_mcc_mnc_apply(plmn)
    \/ \E plmn \in {"A", "B"} : set_net_mcc(plmn)
    \/ \E b \in CtBtss : set_bts_apply_config(b)
    \/ \E fix \in Fixes \ {"none"} : set_bts_loc(fix)

CtSpec == CtInit /\ [][CtNext]_ctVars

\* the select loop fires timers that have expired; a BTS takes its requests
CtFairness ==
    /\ WF_ctVars(RfDelay) /\ WF_ctVars(grace_timeout)
    /\ \A b \in 1 .. 2 : WF_ctVars(b \in CtBtss /\ CtTakes(b))

-----------------------------------------------------------------------------

\* The timers fit the policy, whatever order the commands, the coalesced delay timer and the timeouts come
\* in: the grace timer runs exactly while the policy is GRACE, so that the RF is neither switched off after
\* an "on" nor left on for ever, and RF is checked only while it should be on, so that rf_check_cb() never
\* drops the links of a network that was told to go quiet (rf_delay_cmd_cb(), enter_grace(),
\* grace_timeout()).
RfTimersMatch ==
    /\ "grace" \in ct_rf.timers <=> ct_rf.policy = "GRACE"
    /\ "check" \in ct_rf.timers => ct_rf.policy = "ON"

\* The last command wins: when commands stop coming, the policy becomes and stays the one that was asked
\* for last -- commands within the second of the delay timer are merged and grace may intervene, but none is lost.
RfObeyed ==
    <>[](ct_rf.last # "none" => ct_rf.policy = IF ct_rf.last = "1" THEN "ON" ELSE "OFF")

\* A BTS excluded from the RF lock is never touched by it: no request to lock it is ever queued, and the
\* RF check never drops its link (lock_each_trx(), rf_check_cb()).
RfExcluded ==
    \A b \in CtBtss : ct_site.bts[b].excl =>
        /\ ct_bts[b].adm = "UNLOCKED"
        /\ \A i \in DOMAIN ct_bts[b].req : ct_bts[b].req[i] = "UNLOCKED"

\* With the policy OFF, a carrier that still transmits has its lock on the way ("Grace timeout. Going to
\* disable all BTS/TRX.", grace_timeout()).
RfOffIsOff ==
    ct_rf.policy = "OFF" =>
        \A b \in CtBtss : ~ct_site.bts[b].excl /\ ct_bts[b].radio => \E i \in DOMAIN ct_bts[b].req : ct_bts[b].req[i] = "LOCKED"

\* The clients of the control interface are never told "disconnected" last while a BTS is connected
\* (bts_connection_status_trap_cb() at every link that comes or goes).
CtUpIsTold == (\E b \in CtBtss : ct_bts[b].oml) => ct_trap.status

\* control.adoc: bts_connection_status "Indicate the status of connection to BTS", with traps: once no BTS is
\* connected the clients have been told so.
CtDownIsTold == ct_trap.status => \E b \in CtBtss : ct_bts[b].oml

\* A BTS serves the PLMN of the network, unless the operator has set MCC or MNC without applying them:
\* mcc-mnc-apply leaves no ip.access BTS behind (set_net_mcc_mnc_apply(), set_net_apply_config()).
CtPlmnApplied ==
    "apply" \notin ct_site.cmds =>
        \A b \in CtBtss : ct_site.bts[b].ipa /\ ct_bts[b].oml => ct_bts[b].plmn = ct_net

\* No two neighbouring positions of the list are both invalid: a lost fix is recorded once
\* (cleanup_locations()).
CtLocsDiffer == \A i \in 2 .. Len(ct_locs) : ~(ct_locs[i] = "invalid" /\ ct_locs[i - 1] = "invalid")

\* The RF control and the control interface are consistent in themselves and with the BTSs: timers fit
\* the policy, excluded BTSs are left alone, traps and PLMN are up to date.
CtSafe == CtTypeOK /\ RfTimersMatch /\ RfExcluded /\ CtUpIsTold /\ CtPlmnApplied /\ CtLocsDiffer

=============================================================================
