-------------------------------- MODULE Lcls --------------------------------
(***************************************************************************)
(* Local Call, Local Switch (osmo_bsc_lcls.c): the legs of one call, which *)
(* carry the same Global Call Reference (GCR), are found by each other and *)
(* have their media looped in the MGW or between the BTSs, when the MSC    *)
(* asks for it on both.                                                    *)
(*                                                                         *)
(* Each leg is a connection with an FSM of its own and a pointer to the    *)
(* other leg; an FSM dispatches events to the other leg's FSM from within  *)
(* its own handlers.  A failed OSMO_ASSERT(), a use of a connection that   *)
(* has been freed and a use of an lchan that is not there end the program. *)
(***************************************************************************)
EXTENDS Integers

CONSTANTS
    LcLegs,     \* the connections, in the order of net->subscr_conns
    LcSites     \* the situations considered

LcModes == {"DISABLED", "MGW_LOOP", "BTS_LOOP"}
LcConfigs == {"NA", "BOTH_WAY", "BI_CAST"}                  \* BI_CAST stands for all that is not supported
LcControls == {"NA", "CONNECT", "DO_NOT_CONNECT", "RELEASE_LCLS"}

\* mode: lcls_mode of the MSC of each leg;  match: the lchans have the same type and mode, or the
\* MSC allows a mismatch;  gcrs: the GCRs the MSC gives each leg;  configs, controls: what the MSC
\* sends;  msgs: bound on its messages for a leg;  faults: the MGW may fail, and calls be cleared before they end
LcSite == [mode : [LcLegs -> LcModes], match : BOOLEAN, gcrs : [LcLegs -> SUBSET {1, 2}],
           configs : SUBSET LcConfigs, controls : SUBSET LcControls, msgs : Nat, faults : BOOLEAN]

ASSUME LcAssumption == LcLegs \subseteq Nat /\ 0 \notin LcLegs /\ LcSites \subseteq LcSite

VARIABLES
    lc_site,
    lc_leg,     \* the connections
    lc_abort,   \* why the program has ended: "no", "assert", "freed" or "null"
    lc_left     \* how many messages the MSC may still send for each leg

lcVars == <<lc_site, lc_leg, lc_abort, lc_left>>

Switched == {"LOCALLY_SWITCHED", "WAIT_BREAK", "WAIT_OTHER_BREAK"}
LcStates == {"NO_LCLS", "NOT_YET_LS", "NOT_POSSIBLE_LS", "NO_LONGER_LS", "REQ_LCLS_NOT_SUPP"} \cup Switched

\* on: the connection exists;  other: lcls.other (0: NULL);  loop: where its media goes (0: to the
\* MSC);  lchan, ci: there is an lchan and a connection of the MGW to the MSC;  assigning: an
\* Assignment is under way
LcLeg == [on : BOOLEAN, st : LcStates, gcr : 0..2, config : LcConfigs, control : LcControls, other : {0} \cup LcLegs,
          loop : {0} \cup LcLegs, lchan : BOOLEAN, ci : BOOLEAN, assigning : BOOLEAN]

LcTypeOK ==
    /\ lc_site \in LcSites
    /\ lc_leg \in [LcLegs -> LcLeg]
    /\ lc_abort \in {"no", "assert", "freed", "null"}
    /\ lc_left \in [LcLegs -> Nat]

Mut_LcFresh == [on |-> TRUE, st |-> "NO_LCLS", gcr |-> 0, config |-> "", control |-> "", other |-> 0, loop |-> 0,
                lchan |-> TRUE, ci |-> FALSE, assigning |-> FALSE]

\* bsc_subscr_con_allocate(); the lchan is the SDCCH
LcFresh == [on |-> TRUE, st |-> "NO_LCLS", gcr |-> 0, config |-> "NA", control |-> "NA", other |-> 0, loop |-> 0,
            lchan |-> TRUE, ci |-> FALSE, assigning |-> FALSE]

LcInit ==
    /\ lc_site \in LcSites
    /\ lc_leg = [c \in LcLegs |-> LcFresh]
    /\ lc_abort = "no"
    /\ lc_left = [c \in LcLegs |-> lc_site.msgs]

-----------------------------------------------------------------------------
(* What the handlers do, as functions of the state s.                      *)

LcState == [leg |-> lc_leg, abort |-> lc_abort]
LcBecome(s) ==
    \E v \in {s} :
        /\ lc_abort' = v.abort
        /\ lc_leg' = IF v.abort = "no" THEN v.leg ELSE lc_leg
        /\ UNCHANGED lc_site

\* the handler goes on with `then` unless the program ends here
Need(s, cond, why, then) ==
    CASE s.abort # "no" -> s
      [] s.abort = "no" /\ cond -> then
      [] OTHER -> [s EXCEPT !.abort = why]
OSMO_ASSERT(s, cond, then) == Need(s, cond, "assert", then)

\* lcls_fsm_states[].out_state_mask
OutStates == [NO_LCLS |-> {"NO_LCLS", "NOT_YET_LS", "NOT_POSSIBLE_LS", "REQ_LCLS_NOT_SUPP", "LOCALLY_SWITCHED"},
              NOT_YET_LS |-> {"NOT_YET_LS", "REQ_LCLS_NOT_SUPP", "LOCALLY_SWITCHED"},
              NOT_POSSIBLE_LS |-> {"NOT_YET_LS", "NOT_POSSIBLE_LS", "REQ_LCLS_NOT_SUPP", "LOCALLY_SWITCHED"},
              NO_LONGER_LS |-> {"NO_LONGER_LS", "REQ_LCLS_NOT_SUPP", "LOCALLY_SWITCHED"},
              REQ_LCLS_NOT_SUPP |-> {"NOT_YET_LS", "REQ_LCLS_NOT_SUPP", "LOCALLY_SWITCHED"},
              LOCALLY_SWITCHED |-> {"NO_LONGER_LS", "NOT_POSSIBLE_LS", "REQ_LCLS_NOT_SUPP"} \cup Switched,
              WAIT_BREAK |-> {"NO_LONGER_LS", "REQ_LCLS_NOT_SUPP", "LOCALLY_SWITCHED", "WAIT_BREAK"},
              WAIT_OTHER_BREAK |-> {"NO_LONGER_LS", "REQ_LCLS_NOT_SUPP", "LOCALLY_SWITCHED", "WAIT_OTHER_BREAK"}]

lcls_is_supported_config(config) == config = "BOTH_WAY"

\* lcls_check_toggle_allowed()
lcls_check_toggle_allowed(s, c) ==
    LET d == s.leg[c].other
    IN  /\ d # 0 => lc_site.mode[c] = lc_site.mode[d]
        /\ lc_site.mode[c] = "MGW_LOOP" => s.leg[c].ci

\* lcls_mdcx(), lcls_rsl(): both use the lchan
Redirect(s, c, to) ==
    CASE lc_site.mode[c] = "DISABLED" -> s
      [] lc_site.mode[c] = "BTS_LOOP" /\ s.leg[c].other = 0 -> s
      [] OTHER -> Need(s, s.leg[c].lchan, "null", [s EXCEPT !.leg[c].loop = to])

lcls_break_local_switching(s, c) ==
    Need(s, s.leg[c].other # 0 => s.leg[s.leg[c].other].on, "freed",
      IF lcls_check_toggle_allowed(s, c) THEN Redirect(s, c, 0) ELSE s)

lcls_locally_switched_onenter(s, c) ==
    LET d == s.leg[c].other
    IN  OSMO_ASSERT(s, d # 0,
          IF lcls_check_toggle_allowed(s, c) /\ s.leg[d].ci THEN Redirect(s, c, d) ELSE s)

Mut_LcChg(s, c, st) == IF st = "WAIT_OTHER_BREAK" THEN s ELSE [s EXCEPT !.leg[c].st = st]

\* osmo_fsm_inst_state_chg()
LcChg(s, c, st) ==
    CASE st \notin OutStates[s.leg[c].st] -> s
      [] st = "LOCALLY_SWITCHED" -> lcls_locally_switched_onenter([s EXCEPT !.leg[c].st = st], c)
      [] OTHER -> [s EXCEPT !.leg[c].st = st]

Mut_LcAsked(s, c) ==
    LET d == s.leg[c].other
    IN  /\ lcls_is_supported_config(s.leg[c].config) /\ lcls_is_supported_config(s.leg[d].config)
        /\ s.leg[c].control = "CONNECT"

\* the MSC has asked for it on both legs
LcAsked(s, c) ==
    LET d == s.leg[c].other
    IN  /\ lcls_is_supported_config(s.leg[c].config) /\ lcls_is_supported_config(s.leg[d].config)
        /\ s.leg[c].control = "CONNECT" /\ s.leg[d].control = "CONNECT"

\* if lcls_enable_possible() then yes, else no; the lchans are compared when all else is well
lcls_enable_possible(s, c, yes, no) ==
    LET d == s.leg[c].other
    IN  OSMO_ASSERT(s, d # 0,
          Need(s, s.leg[d].on, "freed",
            Need(s, LcAsked(s, c) => s.leg[c].lchan /\ s.leg[d].lchan, "null",
              IF LcAsked(s, c) /\ lc_site.match THEN yes ELSE no)))

-----------------------------------------------------------------------------
(* The events of the other leg.                                            *)

\* LCLS_EV_OTHER_BREAK from leg d
OtherBreak(s, c, d) ==
    LET st == s.leg[c].st
        mine == s.leg[c].other = d
    IN  CASE st = "LOCALLY_SWITCHED" -> OSMO_ASSERT(s, mine, LcChg(s, c, "WAIT_BREAK"))
          [] st = "WAIT_BREAK" -> OSMO_ASSERT(s, s.leg[c].other # 0, s)
          [] st = "WAIT_OTHER_BREAK" -> OSMO_ASSERT(s, mine, LcChg(lcls_break_local_switching(s, c), c, "NO_LONGER_LS"))
          [] OTHER -> s

Mut_OtherEnabled(s, c, d) == s

\* LCLS_EV_OTHER_ENABLED from leg d
OtherEnabled(s, c, d) ==
    IF s.leg[c].st \notin {"NOT_YET_LS", "NO_LONGER_LS"} THEN s
    ELSE OSMO_ASSERT(s, s.leg[c].other = d,
           lcls_enable_possible(s, c, LcChg(s, c, "LOCALLY_SWITCHED"), OtherBreak(s, d, c)))

\* LCLS_EV_CORRELATED from leg d
Correlated(s, c, d) ==
    LET st == s.leg[c].st
    IN  CASE st \in {"NOT_YET_LS", "NO_LONGER_LS"} -> OSMO_ASSERT(s, s.leg[c].other # 0, [s EXCEPT !.leg[c].other = d])
          [] st = "NOT_POSSIBLE_LS" -> OSMO_ASSERT(s, s.leg[c].other = 0, LcChg([s EXCEPT !.leg[c].other = d], c, "NOT_YET_LS"))
          [] st = "REQ_LCLS_NOT_SUPP" -> [s EXCEPT !.leg[c].other = d]
          [] OTHER -> s

\* LCLS_EV_OTHER_DEAD from leg d: the pointer is kept in WAIT_OTHER_BREAK
OtherDead(s, c, d) ==
    LET st == s.leg[c].st
        alone == [s EXCEPT !.leg[c].other = 0]
    IN  IF st \in {"NO_LCLS", "NOT_POSSIBLE_LS"} THEN s
        ELSE OSMO_ASSERT(s, s.leg[c].other = d,
               CASE st \in {"REQ_LCLS_NOT_SUPP", "WAIT_BREAK"} -> alone
                 [] st = "WAIT_OTHER_BREAK" -> LcChg(lcls_break_local_switching(s, c), c, "NO_LONGER_LS")
                 [] OTHER -> LcChg(alone, c, "NOT_POSSIBLE_LS"))

-----------------------------------------------------------------------------
(* The events of the leg itself.                                           *)

\* lcls_perform_correlation(): an earlier correlation is broken, ...
Uncorrelated(s, c) ==
    LET d == s.leg[c].other
    IN  OSMO_ASSERT(s, s.leg[c].gcr # 0 /\ s.leg[c].st \notin Switched,
          IF d = 0 THEN s
          ELSE Need(s, s.leg[d].on, "freed",
                 OSMO_ASSERT(s, s.leg[d].st \notin Switched,
                   [s EXCEPT !.leg[d].other = 0, !.leg[c].other = 0])))

\* ... and find_conn_with_same_gcr() is the new one, if there is one
lcls_perform_correlation(s, c) ==
    LET t == Uncorrelated(s, c)
        same == {d \in LcLegs \ {c} : t.leg[d].on /\ t.leg[d].gcr = t.leg[c].gcr}
        d == CHOOSE x \in same : \A y \in same : x <= y
    IN  IF t.abort # "no" \/ same = {} THEN t ELSE Correlated([t EXCEPT !.leg[c].other = d], d, c)

\* LOCALLY_SWITCHED is entered and the other leg told
SwitchBoth(s, c) ==
    LET t == LcChg(s, c, "LOCALLY_SWITCHED")
    IN  IF t.abort # "no" THEN t ELSE OtherEnabled(t, t.leg[c].other, c)

\* what follows a correlation
AfterCorrelation(t, c, none) ==
    CASE t.abort # "no" -> t
      [] t.leg[c].other = 0 -> none
      [] t.leg[c].st = "REQ_LCLS_NOT_SUPP" ->
           IF ~lcls_is_supported_config(t.leg[c].config) THEN t
           ELSE lcls_enable_possible(t, c, LcChg(t, c, "LOCALLY_SWITCHED"), LcChg(t, c, "NOT_YET_LS"))
      [] OTHER -> lcls_enable_possible(t, c, SwitchBoth(t, c), LcChg(t, c, "NOT_YET_LS"))

\* the MSC has LCLS at all, and has given the leg a GCR (in NO_LCLS)
Ignores(s, c) == s.leg[c].st = "NO_LCLS" /\ (lc_site.mode[c] = "DISABLED" \/ s.leg[c].gcr = 0)

\* the pointer a state expects: OSMO_ASSERT(conn->lcls.other), OSMO_ASSERT(conn->lcls.other == NULL)
PointerFits(s, c) ==
    /\ s.leg[c].st \in {"NOT_YET_LS", "NO_LONGER_LS"} \cup Switched => s.leg[c].other # 0
    /\ s.leg[c].st \in {"NO_LCLS", "NOT_POSSIBLE_LS"} => s.leg[c].other = 0

\* LCLS_EV_UPDATE_CFG_CSC; update_lcls_cfg_csc(), lcls_handle_cfg_update()
lcls_update_config(s, c, config, control) ==
    LET st == s.leg[c].st
        bad == LcChg(s, c, "REQ_LCLS_NOT_SUPP")
        t == [s EXCEPT !.leg[c].config = IF config = "NA" THEN @ ELSE config,
                       !.leg[c].control = IF control = "NA" THEN @ ELSE control]
    IN  IF Ignores(s, c) \/ (config = "NA" /\ control = "NA") THEN s
        ELSE OSMO_ASSERT(s, PointerFits(s, c),
               CASE config # "NA" /\ ~lcls_is_supported_config(config) ->
                      IF st \in Switched THEN lcls_break_local_switching(bad, c) ELSE bad
                 [] st = "NO_LONGER_LS" -> lcls_enable_possible(t, c, SwitchBoth(t, c), t)
                 [] OTHER -> t)

\* LCLS_EV_APPLY_CFG_CSC: lcls_no_longer_ls_fn() has no case for it
lcls_apply_config(s, c) ==
    LET st == s.leg[c].st
        d == s.leg[c].other
        release == s.leg[c].control = "RELEASE_LCLS"
        Told(t) == Need(t, t.leg[d].on, "freed", OtherBreak(t, d, c))
    IN  IF Ignores(s, c) \/ st = "WAIT_OTHER_BREAK" THEN s
        ELSE OSMO_ASSERT(s, PointerFits(s, c) /\ st # "NO_LONGER_LS",
               CASE st = "NO_LCLS" /\ s.leg[c].config = "NA" -> s
                 [] st \in {"NO_LCLS", "NOT_POSSIBLE_LS", "REQ_LCLS_NOT_SUPP"} ->
                      LET t == lcls_perform_correlation(s, c)
                      IN  AfterCorrelation(t, c, LcChg(t, c, "NOT_POSSIBLE_LS"))
                 [] st = "NOT_YET_LS" -> lcls_enable_possible(s, c, SwitchBoth(s, c), s)
                 [] st = "LOCALLY_SWITCHED" /\ release -> Told(LcChg(s, c, "WAIT_OTHER_BREAK"))
                 [] st = "WAIT_BREAK" /\ release -> Told(LcChg(lcls_break_local_switching(s, c), c, "NO_LONGER_LS"))
                 [] OTHER -> s)

-----------------------------------------------------------------------------
(* The steps.                                                              *)

LcMessage(c) == lc_left[c] > 0 /\ lc_left' = [lc_left EXCEPT ![c] = @ - 1]
LcRuns(c) == lc_abort = "no" /\ lc_leg[c].on

\* bssmap_handle_ass_req_lcls(): the GCR may be absent
bssmap_handle_ass_req_lcls(c, gcr, config, control) ==
    /\ LcRuns(c) /\ LcMessage(c) /\ ~lc_leg[c].assigning /\ lc_leg[c].lchan
    /\ LcBecome(lcls_update_config([LcState EXCEPT !.leg[c].gcr = IF gcr = 0 THEN @ ELSE gcr,
                                                   !.leg[c].assigning = TRUE], c, config, control))

\* assignment_success(): the MGW has a connection to the MSC by now
LcAssignmentSuccess(c) ==
    /\ LcRuns(c) /\ lc_leg[c].assigning
    /\ LcBecome(lcls_apply_config([LcState EXCEPT !.leg[c].assigning = FALSE, !.leg[c].ci = TRUE], c))
    /\ UNCHANGED lc_left

\* bssmap_handle_lcls_connect_ctrl()
bssmap_handle_lcls_connect_ctrl(c, config, control) ==
    /\ LcRuns(c) /\ LcMessage(c) /\ lc_leg[c].gcr # 0
    /\ LcBecome(LET s == lcls_update_config(LcState, c, config, control)
                IN  IF s.abort # "no" THEN s ELSE lcls_apply_config(s, c))

\* gscon_fsm_allstate() on GSCON_EV_A_CLEAR_CMD: the lchan and the MGW endpoint are gone, the
\* connection waits for the MSC to disconnect it
LcClearCmd(c) ==
    /\ LcRuns(c) /\ lc_leg[c].lchan /\ lc_site.faults
    /\ LcBecome([LcState EXCEPT !.leg[c].lchan = FALSE, !.leg[c].ci = FALSE, !.leg[c].assigning = FALSE])
    /\ UNCHANGED lc_left

\* GSCON_EV_FORGET_MGW_ENDPOINT
LcForgetMgw(c) ==
    /\ LcRuns(c) /\ lc_leg[c].ci /\ lc_site.faults
    /\ LcBecome([LcState EXCEPT !.leg[c].ci = FALSE])
    /\ UNCHANGED lc_left

\* gscon_pre_term(), lcls_fsm_cleanup()
lcls_fsm_cleanup(c) ==
    /\ LcRuns(c)
    /\ LET d == lc_leg[c].other
           s == IF d = 0 THEN LcState ELSE Need(LcState, lc_leg[d].on, "freed", OtherDead(LcState, d, c))
       IN  LcBecome([s EXCEPT !.leg[c].on = FALSE, !.leg[c].other = 0])
    /\ UNCHANGED lc_left

LcNext ==
    \E c \in LcLegs :
        \/ \E gcr \in {0} \cup lc_site.gcrs[c], config \in lc_site.configs, control \in lc_site.controls :
              bssmap_handle_ass_req_lcls(c, gcr, config, control)
        \/ \E config \in lc_site.configs, control \in lc_site.controls :
              bssmap_handle_lcls_connect_ctrl(c, config, control)
        \/ LcAssignmentSuccess(c)
        \/ LcClearCmd(c)
        \/ LcForgetMgw(c)
        \/ lcls_fsm_cleanup(c)

LcSpec == LcInit /\ [][LcNext]_lcVars

-----------------------------------------------------------------------------
(* Properties.                                                             *)

\* The media of a leg is redirected to another leg only when the MSC has asked for local switching
\* on both and their channels fit, whichever leg's message, assignment or event leads to it.
LcLoopAsked ==
    \A c \in LcLegs :
          lc_leg'[c].loop \notin {0, lc_leg[c].loop} =>
             \A e \in {c, lc_leg'[c].loop} :
                lc_leg'[e].config = "BOTH_WAY" /\ lc_leg'[e].control = "CONNECT" /\ lc_site.match

\* two legs at most have a GCR in common, and the MSC sends supported configurations only
Orderly ==
    /\ lc_site.configs \subseteq {"NA", "BOTH_WAY"}
    /\ \A c, d, e \in LcLegs : lc_site.gcrs[c] \cap lc_site.gcrs[d] \cap lc_site.gcrs[e] # {} => c = d \/ d = e \/ c = e

\* Switching is mutual when the MSC only ever asks for it: the other leg of one that is locally
\* switched is so too and points back to it, once it is assigned and as long as it is not cleared.
LcBothWays ==
    \A c \in LcLegs :
        LET d == lc_leg[c].other
        IN  /\ Orderly /\ lc_site.controls \subseteq {"NA", "CONNECT"}
            /\ lc_leg[c].on /\ lc_leg[c].st = "LOCALLY_SWITCHED" /\ d # 0
            /\ lc_leg[d].on /\ lc_leg[d].ci /\ ~lc_leg[d].assigning
            => lc_leg[d].st = "LOCALLY_SWITCHED" /\ lc_leg[d].other = c

\* A leg that has been asked to break the local switching has another that waits for it to, so that
\* the release by the MSC on this leg ends the wait of the other one.
LcBreakPaired ==
    \A c \in LcLegs :
        LET d == lc_leg[c].other
        IN  Orderly /\ lc_leg[c].on /\ lc_leg[c].st = "WAIT_BREAK" /\ d # 0 =>
               lc_leg[d].st = "WAIT_OTHER_BREAK" /\ lc_leg[d].other = c

\* The two legs of a local call agree, whichever moves first: media are looped only as asked for,
\* both ways, and a leg that waits for the other's break is waited for.
LcSafe == [][LcTypeOK' /\ LcBothWays' /\ LcBreakPaired' /\ LcLoopAsked]_lcVars

\* A leg in NOT_YET_LS is correlated: lcls_not_yet_ls_fn() says so and asserts it on every event,
\* whatever the other leg does meanwhile.
LcNotYetCorrelated == \A c \in LcLegs : lc_leg[c].on /\ lc_leg[c].st = "NOT_YET_LS" => lc_leg[c].other # 0
=============================================================================
