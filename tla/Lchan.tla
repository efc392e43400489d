------------------------------- MODULE Lchan --------------------------------
(***************************************************************************)
(* The logical channel FSM (lchan_fsm.c), as operators on the state "t" of *)
(* a timeslot and the number l of one of its lchans.  Dispatching an event *)
(* runs to completion, through the FSMs it reaches, so every handler is a  *)
(* function of the state.  The one event an lchan sends back to its        *)
(* timeslot while it runs, LCHAN_UNUSED, is left to module Timeslot, which *)
(* sees that the lchan has entered UNUSED.                                 *)
(*                                                                         *)
(* Of "t" this module uses t.lchan[l], t.is (pchan_is), t.con (whether     *)
(* there is an RSL link), t.link and t.crash; the record of an lchan is    *)
(* LchanType.  The RTP FSM is reduced                                      *)
(* to "rtp"; of the conn only the two pointers between it and the lchan    *)
(* are kept: lchan->conn, and what conn->... points back ("own").          *)
(***************************************************************************)
EXTENDS Naturals, Sequences

LchanState ==
    {"none",        \* no FSM instance
     "UNUSED", "CBCH", "WAIT_TS_READY", "WAIT_ACTIV_ACK", "WAIT_RLL_RTP_ESTABLISH",
     "ESTABLISHED", "WAIT_RLL_RTP_RELEASED", "WAIT_BEFORE_RF_RELEASE",
     "WAIT_RF_RELEASE_ACK", "WAIT_AFTER_ERROR", "BORKEN"}

\* lchan_fsm_states[].out_state_mask
LchanOut == [s \in LchanState |->
    CASE s = "UNUSED" -> {"WAIT_TS_READY", "CBCH", "BORKEN"}
      [] s = "CBCH" -> {"UNUSED"}
      [] s = "WAIT_TS_READY" -> {"UNUSED", "WAIT_ACTIV_ACK", "WAIT_RLL_RTP_RELEASED"}
      [] s = "WAIT_ACTIV_ACK" -> {"UNUSED", "WAIT_RLL_RTP_ESTABLISH", "BORKEN", "WAIT_RF_RELEASE_ACK"}
      [] s = "WAIT_RLL_RTP_ESTABLISH" ->
            {"UNUSED", "ESTABLISHED", "WAIT_RF_RELEASE_ACK", "WAIT_RLL_RTP_RELEASED"}
      [] s = "ESTABLISHED" ->
            {"UNUSED", "WAIT_RLL_RTP_RELEASED", "WAIT_BEFORE_RF_RELEASE", "WAIT_RF_RELEASE_ACK"}
      [] s = "WAIT_RLL_RTP_RELEASED" -> {"UNUSED", "WAIT_BEFORE_RF_RELEASE", "WAIT_RF_RELEASE_ACK"}
      [] s = "WAIT_BEFORE_RF_RELEASE" -> {"UNUSED", "WAIT_RF_RELEASE_ACK"}
      [] s = "WAIT_RF_RELEASE_ACK" -> {"UNUSED", "WAIT_AFTER_ERROR", "BORKEN"}
      [] s = "WAIT_AFTER_ERROR" -> {"UNUSED"}
      [] s = "BORKEN" -> {"UNUSED", "WAIT_AFTER_ERROR"}
      [] OTHER -> {}]

Mut_NotBroken == [s \in LchanState |->
    CASE s \in {"WAIT_RLL_RTP_ESTABLISH", "WAIT_RLL_RTP_RELEASED", "WAIT_BEFORE_RF_RELEASE"}
            -> "WAIT_RF_RELEASE_ACK"
      [] s = "ESTABLISHED" -> "WAIT_RLL_RTP_RELEASED"
      [] OTHER -> "UNUSED"]

\* lchan_fsm_on_error[]
LchanOnError == [s \in LchanState |->
    CASE s \in {"WAIT_ACTIV_ACK", "WAIT_RF_RELEASE_ACK", "BORKEN"} -> "BORKEN"
      [] s \in {"WAIT_RLL_RTP_ESTABLISH", "WAIT_RLL_RTP_RELEASED", "WAIT_BEFORE_RF_RELEASE"}
            -> "WAIT_RF_RELEASE_ACK"
      [] s = "ESTABLISHED" -> "WAIT_RLL_RTP_RELEASED"
      [] OTHER -> "UNUSED"]

Mut_NoT3111 == {"WAIT_TS_READY", "WAIT_ACTIV_ACK", "WAIT_RLL_RTP_ESTABLISH", "WAIT_RLL_RTP_RELEASED",
                "WAIT_BEFORE_RF_RELEASE", "WAIT_AFTER_ERROR"}

\* lchan_fsm_timeouts[]: the states that are left by a timer at the latest
LchanTimed ==
    {"WAIT_TS_READY", "WAIT_ACTIV_ACK", "WAIT_RLL_RTP_ESTABLISH", "WAIT_RLL_RTP_RELEASED",
     "WAIT_BEFORE_RF_RELEASE", "WAIT_RF_RELEASE_ACK", "WAIT_AFTER_ERROR"}

LchanType ==
    [st: LchanState,
     type: {"NONE", "TCH_F", "TCH_H"},
     for: {"NONE", "MS", "ASSIGNMENT", "HANDOVER"},    \* activate.info.activ_for
     conn: {"none", "live", "freed"},                  \* lchan->conn, and whether it was freed
     own: {"none", "new", "primary"},                  \* conn->{assignment,ho}.new_lchan, conn->lchan
     voice: BOOLEAN,                                   \* activate.info.requires_voice_stream
     rtp: {"none", "setup", "ready", "established", "rollback"},     \* fi_rtp
     sapis: SUBSET {0, 3},                             \* sapis[] in use: signalling, SMS
     requested: BOOLEAN,                               \* release.requested
     in_error: BOOLEAN,                                \* release.in_error
     concluded: BOOLEAN]                               \* activate.concluded

Cleared == [st |-> "UNUSED", type |-> "NONE", for |-> "NONE", conn |-> "none", own |-> "none",
            voice |-> FALSE, rtp |-> "none", sapis |-> {}, requested |-> FALSE,
            in_error |-> FALSE, concluded |-> FALSE]

NoLchan == [Cleared EXCEPT !.st = "none"]

\* What ends the program: a failed OSMO_ASSERT on the channel number, a use of a conn
\* pointer that is NULL, one of a conn that was freed
Crashes == {"chan_nr", "null", "freed"}
CrashIf(t, cond, why) == IF cond /\ t.crash = "no" THEN [t EXCEPT !.crash = why] ELSE t

-----------------------------------------------------------------------------
(* Channel numbers and RSL messages.                                       *)

\* gsm_pchan2chan_nr() has a number for this lchan: its OSMO_ASSERTs hold
HasChanNr(t, l) == t.is \in {"TCH_F", "PDCH", "NONE"} => l = 0

\* rsl_tx_chan_activ() and rsl_tx_rf_chan_release(): nothing is sent without a link
TxLchan(t, l, act) ==
    IF ~HasChanNr(t, l) THEN CrashIf(t, TRUE, "chan_nr")
    ELSE IF t.con THEN [t EXCEPT !.link = Append(@, [act |-> act, pchan |-> t.is, nr |-> l])]
    ELSE t

\* should_sacch_deact() and rsl_deact_sacch()
TxSacchDeact(t, l) ==
    CrashIf(t, t.is \in {"TCH_F", "TCH_H"} /\ ~HasChanNr(t, l), "chan_nr")

-----------------------------------------------------------------------------
(* Entering a state: the out_state_mask and the onenter function.          *)

\* lchan_reset(): gscon_forget_lchan() writes through lchan->conn
lchan_reset(t, l, s) ==
    CrashIf([t EXCEPT !.lchan[l] = [Cleared EXCEPT !.st = s]], t.lchan[l].conn = "freed", "freed")

\* The RTP FSM ends on RELEASE, unless it is handing the endpoint back
RtpAfterRelease(r) == IF r.rtp = "rollback" THEN "rollback" ELSE "none"

\* lchan_do_release()
lchan_do_release(t, l) ==
    TxSacchDeact([t EXCEPT !.lchan[l].rtp = RtpAfterRelease(t.lchan[l])], l)

\* Nothing but SAPI 0 and no RTP: lchan_fsm_wait_rll_rtp_released() may move on
Quiet(r) == r.sapis \subseteq {0} /\ r.rtp = "none"

EnterReleased(t, l) ==
    LET u == CrashIf(lchan_do_release(t, l),
                     ~(t.lchan[l].sapis \subseteq {0}) /\ ~HasChanNr(t, l), "chan_nr")
    IN  [u EXCEPT
            !.lchan[l].st = IF Quiet(u.lchan[l]) THEN "WAIT_BEFORE_RF_RELEASE"
                                                 ELSE "WAIT_RLL_RTP_RELEASED"]

EnterRfRelease(t, l) ==
    LET u == CrashIf(t, t.lchan[l].conn = "freed", "freed")
    IN  TxLchan([u EXCEPT !.lchan[l].conn = "none", !.lchan[l].own = "none",
                          !.lchan[l].st = "WAIT_RF_RELEASE_ACK"], l, FALSE)

\* lchan_fsm_state_chg() to the states whose onenter function cannot fail
Change(t, l, s) ==
    CASE s \notin LchanOut[t.lchan[l].st] -> t
      [] s \in {"UNUSED", "BORKEN"} -> lchan_reset(t, l, s)
      [] s = "WAIT_RLL_RTP_RELEASED" -> EnterReleased(t, l)
      [] s = "WAIT_RF_RELEASE_ACK" -> EnterRfRelease(t, l)
      [] OTHER -> [t EXCEPT !.lchan[l].st = s]

-----------------------------------------------------------------------------
(* Release and failure.                                                    *)

\* LCHAN_RTP_EV_ROLLBACK: only a ready RTP stream has an endpoint to hand back
RtpAfterRollback(r) == IF r.rtp \in {"ready", "rollback"} THEN "rollback" ELSE "none"

\* lchan_release(): "err" releases at once, otherwise waiting states notice later
lchan_release(t, l, err) ==
    LET r == t.lchan[l]
        u == [t EXCEPT !.lchan[l].in_error = err, !.lchan[l].requested = TRUE,
                       !.lchan[l].rtp = IF err THEN RtpAfterRollback(r) ELSE @]
    IN  CASE r.st = "none" -> t
          [] ~err /\ r.st = "ESTABLISHED" -> Change(u, l, "WAIT_RLL_RTP_RELEASED")
          [] err /\ r.st = "WAIT_TS_READY" -> Change(u, l, "WAIT_RLL_RTP_RELEASED")
          [] err /\ r.st = "WAIT_RLL_RTP_RELEASED" -> Change(u, l, "WAIT_RF_RELEASE_ACK")
          [] ~err \/ r.st \in {"WAIT_RF_RELEASE_ACK", "BORKEN"} -> u
          [] OTHER -> Change(lchan_do_release(u, l), l, "WAIT_RF_RELEASE_ACK")

\* assignment_reset() and the failure branch of handover_end()
ResetNewLchan(t, l, inHandler) ==
    IF t.lchan[l].own # "new" THEN t
    ELSE LET u == [t EXCEPT !.lchan[l].own = "none"]
         IN  IF inHandler THEN u ELSE lchan_release(u, l, TRUE)

Mut_NoConnCheck(t, l, inHandler) ==
    LET r == t.lchan[l]
        u == [t EXCEPT !.lchan[l].concluded = TRUE]
    IN  CASE r.concluded -> t
          [] r.for \in {"NONE", "MS"} -> u
          [] r.conn = "live" -> ResetNewLchan(u, l, inHandler)
          [] OTHER -> CrashIf(u, TRUE, IF r.conn = "none" THEN "null" ELSE "freed")

\* lchan_on_activation_failure(): for_conn is dereferenced for an assignment,
\* checked first for a handover
lchan_on_activation_failure(t, l, inHandler) ==
    LET r == t.lchan[l]
        u == [t EXCEPT !.lchan[l].concluded = TRUE]
    IN  CASE r.concluded -> t
          [] r.for \in {"NONE", "MS"} \/ (r.for = "HANDOVER" /\ r.conn = "none") -> u
          [] r.conn = "live" -> ResetNewLchan(u, l, inHandler)
          [] OTHER -> CrashIf(u, TRUE, IF r.conn = "none" THEN "null" ELSE "freed")

lchan_fail_in(t, l, s, inHandler) ==
    LET u == lchan_on_activation_failure(t, l, inHandler)
    IN  IF u.lchan[l].st = s THEN u ELSE Change(u, l, s)

lchan_fail_to(t, l, s) == lchan_fail_in(t, l, s, FALSE)

-----------------------------------------------------------------------------
(* The events.                                                             *)

\* LCHAN_EV_TS_ERROR, accepted in every state
TsError(t, l) == IF t.lchan[l].st = "none" THEN t ELSE lchan_fail_to(t, l, "UNUSED")

\* LCHAN_EV_TS_READY: lchan_fsm_wait_activ_ack_onenter() sends the Channel Activation
TsReady(t, l) ==
    LET u == [t EXCEPT !.lchan[l].st = "WAIT_ACTIV_ACK"]
    IN  CASE t.lchan[l].st # "WAIT_TS_READY" -> t
          [] t.lchan[l].requested -> lchan_fail_to(u, l, "UNUSED")
          [] t.lchan[l].for = "HANDOVER" /\ t.lchan[l].conn = "none" -> CrashIf(u, TRUE, "null")
          [] HasChanNr(u, l) /\ ~u.con -> lchan_fail_to(u, l, "UNUSED")
          [] OTHER -> TxLchan(u, l, TRUE)

\* LCHAN_EV_ACTIVATE up to the request to the timeslot
lchan_activate(t, l, type, for, voice) ==
    [t EXCEPT !.lchan[l] =
        [@ EXCEPT !.st = "WAIT_TS_READY", !.type = type, !.for = for, !.voice = voice,
                  !.requested = FALSE, !.concluded = FALSE,
                  !.conn = IF for = "MS" THEN "none" ELSE "live",
                  !.own = IF for = "MS" THEN "none" ELSE "new"]]

\* The end of lchan_fsm_wait_ts_ready_onenter(): lchan_rtp_fsm_start()
StartRtp(t, l) == [t EXCEPT !.lchan[l].rtp = IF t.lchan[l].voice THEN "setup" ELSE @]

\* LCHAN_EV_RSL_CHAN_ACTIV_ACK; "told" is whether the MS could be told of the channel,
\* by an Immediate Assignment or by the assignment or handover FSM
ActivAck(t, l, told) ==
    LET r == t.lchan[l]
    IN  CASE r.st = "BORKEN" ->
                Change([t EXCEPT !.lchan[l].in_error = TRUE], l, "WAIT_RF_RELEASE_ACK")
          [] r.st # "WAIT_ACTIV_ACK" -> t
          [] r.requested -> lchan_fail_to(t, l, "WAIT_RF_RELEASE_ACK")
          [] r.for = "MS" /\ ~told -> lchan_fail_to(t, l, LchanOnError[r.st])
          [] r.for # "MS" /\ r.conn = "none" ->
                Change(lchan_release(t, l, TRUE), l, "WAIT_RLL_RTP_ESTABLISH")
          [] OTHER -> Change(IF told THEN t ELSE ResetNewLchan(t, l, FALSE), l,
                             "WAIT_RLL_RTP_ESTABLISH")

\* LCHAN_EV_RSL_CHAN_ACTIV_NACK; "busy" is the cause RCH_ALR_ACTV_ALLOC
ActivNack(t, l, busy) ==
    CASE t.lchan[l].st = "WAIT_ACTIV_ACK" ->
            lchan_fail_in([t EXCEPT !.lchan[l].in_error = TRUE], l,
                          IF busy THEN "WAIT_RF_RELEASE_ACK" ELSE "BORKEN", TRUE)
      [] t.lchan[l].st = "BORKEN" -> Change(t, l, "UNUSED")
      [] OTHER -> t

\* LCHAN_EV_RSL_RF_CHAN_REL_ACK
RelAck(t, l) ==
    CASE t.lchan[l].st = "WAIT_RF_RELEASE_ACK" ->
            Change(t, l, IF t.lchan[l].in_error THEN "WAIT_AFTER_ERROR" ELSE "UNUSED")
      [] t.lchan[l].st = "BORKEN" ->
            Change([t EXCEPT !.lchan[l].in_error = TRUE], l, "WAIT_AFTER_ERROR")
      [] OTHER -> t

\* lchan_fsm_established_onenter(); the assignment or handover FSM, if told, waits on
Established(t, l) ==
    LET u == [t EXCEPT !.lchan[l].st = "ESTABLISHED"]
        r == t.lchan[l]
    IN  CASE r.requested -> lchan_fail_to(u, l, "WAIT_RLL_RTP_RELEASED")
          [] ~r.concluded /\ r.for # "MS" /\ r.conn = "none" ->
                lchan_release([u EXCEPT !.lchan[l].concluded = TRUE], l, TRUE)
          [] OTHER -> [u EXCEPT !.lchan[l].concluded = TRUE]

\* RSL_MT_EST_IND in abis_rsl_rx_rll(), then LCHAN_EV_RLL_ESTABLISH_IND
EstablishInd(t, l, sapi) ==
    LET u == [t EXCEPT !.lchan[l].sapis = @ \cup {sapi}]
        r == t.lchan[l]
    IN  CASE sapi # 0 /\ 0 \notin r.sapis -> t
          [] r.st = "WAIT_RLL_RTP_ESTABLISH" /\ (r.voice => r.rtp \in {"ready", "established"})
                -> Established(u, l)
          [] OTHER -> u

\* gscon_lchan_releasing(): the conn loses the lchan; a pending assignment fails
ConnLosesLchan(t, l) ==
    CASE t.lchan[l].conn = "freed" -> CrashIf(t, TRUE, "freed")
      [] t.lchan[l].own = "new" -> ResetNewLchan(t, l, FALSE)
      [] t.lchan[l].own = "primary" -> [t EXCEPT !.lchan[l].conn = "none", !.lchan[l].own = "none"]
      [] OTHER -> t

\* LCHAN_EV_RLL_REL_IND and LCHAN_EV_RLL_REL_CONF
ReleaseInd(t, l, sapi) ==
    LET u == [t EXCEPT !.lchan[l].sapis = @ \ {sapi}]
        v == IF sapi = 0 /\ t.lchan[l].conn # "none" THEN ConnLosesLchan(u, l) ELSE u
    IN  CASE t.lchan[l].st = "ESTABLISHED" /\ v.lchan[l].sapis = {} ->
                Change(v, l, "WAIT_RLL_RTP_RELEASED")
          [] t.lchan[l].st = "WAIT_RLL_RTP_RELEASED" /\ Quiet(v.lchan[l]) ->
                Change(v, l, "WAIT_BEFORE_RF_RELEASE")
          [] OTHER -> v

\* LCHAN_EV_RTP_READY
RtpReady(t, l) ==
    LET u == [t EXCEPT !.lchan[l].rtp = "ready"]
    IN  IF 0 \in t.lchan[l].sapis THEN Established(u, l) ELSE u

\* LCHAN_EV_RTP_ERROR and LCHAN_EV_RTP_RELEASED outside of lchan_release()
RtpGone(t, l) ==
    LET st == t.lchan[l].st
    IN  CASE st = "WAIT_ACTIV_ACK" -> lchan_fail_to(t, l, "WAIT_RF_RELEASE_ACK")
          [] st \in {"WAIT_TS_READY", "WAIT_RLL_RTP_ESTABLISH", "ESTABLISHED"} ->
                lchan_fail_to(t, l, LchanOnError[st])
          [] st = "WAIT_RLL_RTP_RELEASED" /\ Quiet(t.lchan[l]) ->
                Change(t, l, "WAIT_BEFORE_RF_RELEASE")
          [] OTHER -> t

\* lchan_fsm_timer_cb()
LchanTimeout(t, l) ==
    CASE t.lchan[l].st = "WAIT_BEFORE_RF_RELEASE" -> Change(t, l, "WAIT_RF_RELEASE_ACK")
      [] t.lchan[l].st = "WAIT_AFTER_ERROR" -> Change(t, l, "UNUSED")
      [] OTHER -> lchan_fail_to([t EXCEPT !.lchan[l].in_error = TRUE], l,
                                LchanOnError[t.lchan[l].st])

\* gscon_release_lchans(): on a Clear Command, and when the conn ends
ConnReleases(t, l) ==
    CASE t.lchan[l].own = "new" -> ResetNewLchan(t, l, FALSE)
      [] t.lchan[l].own = "primary" ->
            lchan_release([t EXCEPT !.lchan[l].conn = "none", !.lchan[l].own = "none"], l, FALSE)
      [] OTHER -> t

\* ... and the conn is freed: gscon_cleanup() makes only the lchans it knows forget it
ConnFreed(t, l) ==
    LET u == ConnReleases(t, l)
    IN  [u EXCEPT !.lchan[l].conn = IF @ = "live" THEN "freed" ELSE @]

\* lchan_fsm_cleanup(): the RTP FSM, a child, ends first and tells the lchan so
lchan_fsm_cleanup(t, l) ==
    LET r == t.lchan[l]
        u == IF r.rtp = "none" THEN t ELSE RtpGone([t EXCEPT !.lchan[l].rtp = "none"], l)
    IN  IF r.st = "none" THEN t ELSE lchan_reset(u, l, "none")

=============================================================================
