-------------------------------- MODULE Call --------------------------------
(***************************************************************************)
(* One subscriber connection while it moves between channels: the conn FSM *)
(* (bsc_subscr_conn_fsm.c) with its assignment and handover FSMs           *)
(* (assignment_fsm.c, handover_fsm.c), and the logical channels they take  *)
(* and give up (lchan_fsm.c) with the RTP FSM of each (lchan_rtp_fsm.c).   *)
(*                                                                         *)
(* These FSMs call each other: an event dispatched to one runs through     *)
(* those it reaches before it returns, so a handler is an operator on the  *)
(* state "t" of all five, and an action is one message, answer or timeout  *)
(* from outside with everything it causes.  Module Timeslot looks at the   *)
(* same lchans from below, with the timeslot and the BTS's channels.       *)
(*                                                                         *)
(* There is one conn at a time; its successor starts when the lchans of    *)
(* the last one are free.  Of the SAPIs only SAPI 0 is kept.  The states   *)
(* WAIT_RF_RELEASE_ACK and WAIT_AFTER_ERROR of an lchan are one.           *)
(***************************************************************************)
EXTENDS Naturals, FiniteSets

CONSTANTS
    Lchans,         \* the lchans the conn can be given
    None,        \* the NULL pointer
    Sites           \* configurations: [aoip, ipacc], the A interface carries voice over IP,
                    \* the BTS is an ip.access one (it has RTP connections of its own)

ASSUME CallAssumption == None \notin Lchans /\ Sites \subseteq [aoip: BOOLEAN, ipacc: BOOLEAN]

VARIABLES
    site,           \* the configuration, fixed
    conn,           \* the conn FSM: its state, the primary lchan (conn->lchan), whether a Clear
                    \* Request went out, whether an Assignment Request waits for its answer
    asg,            \* conn->assignment: FSM state, new_lchan, requires_voice_stream,
                    \* created_ci_for_msc ("freed" when its endpoint is gone)
    ho,             \* conn->ho: FSM state, new_lchan, scope, created_ci_for_msc
    mgw,            \* conn->user_plane: mgw_endpoint, mgw_endpoint_ci_msc
    lchan,          \* the lchans, LchanType
    crash           \* "no", or what ended the program

vars == <<site, conn, asg, ho, mgw, lchan, crash>>

L == INSTANCE Lchan

Ptr == Lchans \cup {None}

RtpState ==
    {"none", "WAIT_MGW_ENDPOINT_AVAILABLE", "WAIT_LCHAN_READY", "WAIT_IPACC_CRCX_ACK",
     "WAIT_IPACC_MDCX_ACK", "WAIT_READY_TO_SWITCH_RTP", "WAIT_MGW_ENDPOINT_CONFIGURED",
     "READY", "ESTABLISHED", "ROLLBACK"}

LchanType ==
    [st: L!LchanState \ {"none", "CBCH", "WAIT_AFTER_ERROR"},
     for: {"NONE", "MS", "ASSIGNMENT", "HANDOVER"},    \* activate.info.activ_for
     conn: {"none", "live", "freed"},                  \* lchan->conn, and whether it was freed
     voice: BOOLEAN,                                   \* activate.info.requires_voice_stream
     reuse: Ptr,                                       \* activate.info.re_use_mgw_endpoint_from_lchan
     wait: BOOLEAN,                                    \* activate.info.wait_before_switching_rtp
     ack: BOOLEAN,                                     \* activate.activ_ack
     concluded: BOOLEAN,                               \* activate.concluded
     requested: BOOLEAN,                               \* release.requested
     sapi: BOOLEAN,                                    \* sapis[0] in use
     rtp: RtpState,                                    \* fi_rtp
     ci: BOOLEAN]                                      \* mgw_endpoint_ci_bts

Cleared == [st |-> "UNUSED", for |-> "NONE", conn |-> "none", voice |-> FALSE, reuse |-> None,
            wait |-> FALSE, ack |-> FALSE, concluded |-> FALSE, requested |-> FALSE,
            sapi |-> FALSE, rtp |-> "none", ci |-> FALSE]

NoConn == [st |-> "none", lchan |-> None, clear |-> FALSE, owed |-> FALSE]
NoAsg == [fi |-> "none", new |-> None, voice |-> FALSE, created |-> "none"]
NoHo == [fi |-> "none", new |-> None, scope |-> "none", created |-> FALSE]
NoMgw == [ep |-> FALSE, msc |-> FALSE]

\* What ends the program: lchan->conn freed or NULL when it is used, conn->lchan NULL where the
\* assignment needs it, the OSMO_ASSERT of conn_get_bts(), new_lchan NULL when it becomes the
\* primary lchan, a DLCX on a freed CI, an event handler that goes on with its freed FSM
Crashes == {"freed", "null", "primary", "conn_get_bts", "new", "ci", "fsm"}

TypeOK ==
    /\ site \in Sites
    /\ conn \in [st: {"none", "INIT", "ACTIVE", "ASSIGNMENT", "HANDOVER", "CLEARING"},
                 lchan: Ptr, clear: BOOLEAN, owed: BOOLEAN]
    /\ asg \in [fi: {"none", "WAIT_LCHAN_ACTIVE", "WAIT_RR_ASS_COMPLETE", "WAIT_LCHAN_ESTABLISHED",
                     "WAIT_MGW_ENDPOINT_TO_MSC"},
                new: Ptr, voice: BOOLEAN, created: {"none", "live", "freed"}]
    /\ ho \in [fi: {"none", "WAIT_LCHAN_ACTIVE", "WAIT_MGW_ENDPOINT_TO_MSC", "WAIT_RR_HO_DETECT",
                    "WAIT_RR_HO_COMPLETE", "WAIT_LCHAN_ESTABLISHED", "OUT_WAIT_HO_COMMAND",
                    "OUT_WAIT_CLEAR"},
               new: Ptr, scope: {"none", "INTRA", "OUT", "IN"}, created: BOOLEAN]
    /\ mgw \in [ep: BOOLEAN, msc: BOOLEAN]
    /\ lchan \in [Lchans -> LchanType]
    /\ crash \in Crashes \cup {"no"}

Init ==
    /\ site \in Sites
    /\ conn = NoConn /\ asg = NoAsg /\ ho = NoHo /\ mgw = NoMgw
    /\ lchan = [l \in Lchans |-> Cleared]
    /\ crash = "no"

\* The state a handler starts from.  "ok": whether what it sends is sent; "busy": the lchan whose
\* release.in_release_handler is set
Cur(ok) == [site |-> site, conn |-> conn, asg |-> asg, ho |-> ho, mgw |-> mgw, lchan |-> lchan,
            crash |-> crash, ok |-> ok, busy |-> None]

Become(next) ==
    /\ crash = "no"
    /\ \E t \in {next} :
         /\ conn' = t.conn /\ asg' = t.asg /\ ho' = t.ho /\ mgw' = t.mgw
         /\ lchan' = t.lchan /\ crash' = t.crash
    /\ UNCHANGED site

CrashIf(t, cond, why) == IF cond /\ t.crash = "no" THEN [t EXCEPT !.crash = why] ELSE t

\* Step(t), with t worked out once (TLC evaluates arguments by name when it evaluates ENABLED)
Then(t, Step(_)) == CHOOSE v \in {Step(u) : u \in {t}} : TRUE

Goto(t, l, s) == [t EXCEPT !.lchan[l].st = s]
RtpGoto(t, l, s) == [t EXCEPT !.lchan[l].rtp = s]

-----------------------------------------------------------------------------
(* Ending the RTP FSM of an lchan.                                         *)

\* osmo_fsm_inst_term(): lchan_rtp_fsm_cleanup(), then RTP_RELEASED to the lchan, which only
\* one that waits for it acts on (the others are in their release handler)
RtpTerm(t, l) ==
    [t EXCEPT !.lchan[l].rtp = "none", !.lchan[l].ci = FALSE,
              !.lchan[l].st = IF @ = "WAIT_RLL_RTP_RELEASED" THEN "WAIT_BEFORE_RF_RELEASE" ELSE @]

\* LCHAN_RTP_EV_RELEASE
RtpRelease(t, l) == IF t.lchan[l].rtp \in {"none", "ROLLBACK"} THEN t ELSE RtpTerm(t, l)

\* LCHAN_RTP_EV_ROLLBACK: an MGW endpoint that was taken over is switched back; the state that
\* waits for the switch has no way to ROLLBACK in its out_state_mask
RtpRollback(t, l) ==
    LET r == t.lchan[l] IN
    CASE r.rtp \in {"none", "ROLLBACK", "WAIT_MGW_ENDPOINT_CONFIGURED"} -> t
      [] r.rtp = "READY" /\ r.ci /\ r.reuse # None -> RtpGoto(t, l, "ROLLBACK")
      [] OTHER -> RtpTerm(t, l)

-----------------------------------------------------------------------------
(* Releasing an lchan.                                                     *)

Mut_NoClear(t, l) ==
    LET Drop(p) == IF p = l THEN None ELSE p
    IN  IF t.lchan[l].conn = "freed" THEN CrashIf(t, TRUE, "freed")
        ELSE [t EXCEPT !.conn.lchan = Drop(@), !.asg.new = Drop(@), !.ho.new = Drop(@)]

\* gscon_forget_lchan()
gscon_forget_lchan(t, l) ==
    LET Drop(p) == IF p = l THEN None ELSE p
        ClearIfNone(u) == [u EXCEPT !.conn.clear =
            @ \/ (u.conn.st # "CLEARING" /\ {u.conn.lchan, u.asg.new, u.ho.new} = {None})]
    IN  IF t.lchan[l].conn = "freed" THEN CrashIf(t, TRUE, "freed")
        ELSE ClearIfNone([t EXCEPT !.conn.lchan = Drop(@), !.asg.new = Drop(@), !.ho.new = Drop(@)])

\* lchan_forget_conn()
lchan_forget_conn(t, l) == [t EXCEPT !.lchan[l].conn = "none", !.lchan[l].ci = FALSE]

\* lchan_reset(), on entering UNUSED and BORKEN
lchan_reset(t, l, s) ==
    [(IF t.lchan[l].conn = "none" THEN t ELSE gscon_forget_lchan(t, l))
        EXCEPT !.lchan[l] = [Cleared EXCEPT !.st = s]]

Mut_ConnNotTold(t, l) == lchan_forget_conn(Goto(t, l, "WAIT_RF_RELEASE_ACK"), l)

\* lchan_fsm_wait_rf_release_ack_onenter()
EnterRfRelease(t, l) ==
    LET Forget(u) == IF u.lchan[l].conn = "none" THEN u
                     ELSE lchan_forget_conn(gscon_forget_lchan(u, l), l)
    IN  Forget(Goto(t, l, "WAIT_RF_RELEASE_ACK"))

\* lchan_fsm_wait_rll_rtp_released_onenter(), with lchan_do_release()
EnterReleased(t, l) ==
    LET Released(u) == IF u.lchan[l].rtp = "none" THEN Goto(u, l, "WAIT_BEFORE_RF_RELEASE") ELSE u
    IN  Released(RtpRelease(Goto(t, l, "WAIT_RLL_RTP_RELEASED"), l))

\* lchan_fsm_state_chg(), to the states an lchan is released through
ChangeTo(t, l, s) ==
    CASE s \notin L!LchanOut[t.lchan[l].st] -> t
      [] s \in {"UNUSED", "BORKEN"} -> lchan_reset(t, l, s)
      [] s = "WAIT_RF_RELEASE_ACK" -> EnterRfRelease(t, l)
      [] s = "WAIT_RLL_RTP_RELEASED" -> EnterReleased(t, l)

\* lchan_release()
lchan_release(t, l, err) ==
    LET m == [t EXCEPT !.lchan[l].requested = TRUE]
        Leave(u) ==
            LET s == u.lchan[l].st
                slow == ~err \/ s = "WAIT_TS_READY"
            IN  IF s \in {"WAIT_RF_RELEASE_ACK", "BORKEN"} THEN u
                ELSE ChangeTo(IF slow \/ s = "WAIT_RLL_RTP_RELEASED" THEN u ELSE RtpRelease(u, l), l,
                              IF slow THEN "WAIT_RLL_RTP_RELEASED" ELSE "WAIT_RF_RELEASE_ACK")
    IN  IF l = None \/ l = t.busy THEN t
        ELSE IF ~err /\ t.lchan[l].st # "ESTABLISHED" THEN m
        ELSE Then(IF err THEN RtpRollback(m, l) ELSE m, Leave)

\* gscon_release_lchan(..., err = false)
gscon_release_lchan(t, l) ==
    LET Drop(p) == IF p = l THEN None ELSE p
        u == IF t.lchan[l].conn = "live" THEN lchan_forget_conn(t, l) ELSE t
        v == [u EXCEPT !.conn.lchan = Drop(@), !.asg.new = Drop(@),
                       !.ho.new = IF t.ho.fi = "none" THEN @ ELSE Drop(@)]
    IN  IF l = None THEN t ELSE lchan_release(v, l, FALSE)

-----------------------------------------------------------------------------
(* The conn takes the new lchan, and the ends of the two procedures.       *)

\* gscon_change_primary_lchan(), with LCHAN_RTP_EV_ESTABLISHED
gscon_change_primary_lchan(t, new) ==
    LET old == t.conn.lchan
        up == t.lchan[new].rtp = "READY"
        u == [t EXCEPT !.conn.lchan = new, !.lchan[new].conn = "live",
                       !.lchan[new].rtp = IF up THEN "ESTABLISHED" ELSE @,
                       !.lchan[new].reuse = IF up THEN None ELSE @]
    IN  IF new = None THEN CrashIf(t, TRUE, "new")
        ELSE IF old = new THEN u ELSE gscon_release_lchan(u, old)

\* gscon_fsm_active_onenter()
EnterActive(t) == [t EXCEPT !.conn.st = "ACTIVE", !.conn.clear = @ \/ t.conn.lchan = None]

\* GSCON_EV_ASSIGNMENT_END
AssignmentEnd(t) == IF t.conn.st = "ASSIGNMENT" THEN EnterActive(t) ELSE t

\* GSCON_EV_HANDOVER_END, in gscon_fsm_init() and gscon_fsm_handover()
HandoverEnd(t, ok) ==
    CASE t.conn.st = "HANDOVER" -> EnterActive(t)
      [] t.conn.st = "INIT" /\ ok /\ t.ho.scope = "IN" -> EnterActive(t)
      [] t.conn.st = "INIT" /\ ~(ok /\ t.ho.scope = "IN") ->
            [t EXCEPT !.conn.clear = TRUE, !.conn.st = "CLEARING"]
      [] OTHER -> t

Mut_assignment_reset(t) ==
    [CrashIf(t, t.asg.created = "freed", "ci")
        EXCEPT !.mgw.msc = @ /\ t.asg.created # "live", !.asg = [NoAsg EXCEPT !.fi = t.asg.fi]]

\* assignment_reset()
assignment_reset(t) ==
    LET u == lchan_release([t EXCEPT !.asg.new = None], t.asg.new, TRUE)
        v == CrashIf(u, t.asg.created = "freed", "ci")
    IN  [v EXCEPT !.mgw.msc = @ /\ t.asg.created # "live", !.asg = [NoAsg EXCEPT !.fi = t.asg.fi]]

\* osmo_fsm_inst_term() of the assignment FSM: assignment_fsm_cleanup(), ASSIGNMENT_END
AsgTerm(t) == AssignmentEnd([assignment_reset(t) EXCEPT !.asg.fi = "none"])

Mut_AsgNotEnded(t) == AssignmentEnd([t EXCEPT !.conn.owed = FALSE])

\* assignment_fail(), on_assignment_failure()
assignment_fail(t) == AsgTerm([t EXCEPT !.conn.owed = FALSE])

Mut_Unanswered(t) ==
    IF t.ok /\ (t.asg.voice /\ t.site.aoip => t.mgw.msc) THEN [t EXCEPT !.conn.owed = FALSE] ELSE t

\* send_assignment_complete()
send_assignment_complete(t) ==
    IF t.ok /\ (t.asg.voice /\ t.site.aoip => t.mgw.msc)
    THEN [t EXCEPT !.conn.owed = FALSE]
    ELSE assignment_fail(t)

\* assignment_success()
assignment_success(t) ==
    LET End(v) == IF v.asg.fi = "none" THEN lchan_release(v, v.conn.lchan, TRUE)
                  ELSE AsgTerm([v EXCEPT !.asg.created = "none"])
        Answer(u) == IF u.crash # "no" THEN u ELSE End(send_assignment_complete(u))
    IN  Answer([gscon_change_primary_lchan(t, t.asg.new) EXCEPT !.asg.new = None])

\* handover_reset() without the new lchan, and the end of the handover FSM
HoTerm(t) == [t EXCEPT !.mgw.msc = @ /\ ~t.ho.created, !.ho = NoHo]

\* handover_end()
handover_end(t, result) ==
    LET new == t.ho.new
        sane == new # None => t.ho.scope \in {"INTRA", "IN"} /\ t.lchan[new].conn = "live"
        done == result = "OK" /\ sane
                    /\ (t.ho.scope = "IN" => new # None /\ t.ok)      \* Handover Complete is sent
        stays == result \in {"OK", "RR_HO_FAIL"} \/ t.ho.fi = "OUT_WAIT_HO_COMMAND"
        left == IF t.ho.scope = "OUT" /\ ~stays THEN lchan_release(t, t.conn.lchan, TRUE) ELSE t
        Take(u) == IF done /\ u.ho.new # None
                   THEN [gscon_change_primary_lchan(u, u.ho.new) EXCEPT !.ho.new = None] ELSE u
        Drop(u) == [lchan_release(u, u.ho.new, TRUE) EXCEPT !.ho.new = None]
    IN  IF done /\ t.ho.scope = "INTRA" /\ t.conn.lchan = None
        THEN CrashIf(t, TRUE, "conn_get_bts")          \* send_handover_performed()
        ELSE HoTerm(Then(HandoverEnd(Then([left EXCEPT !.ho.created = @ /\ ~done], Take), done), Drop))

-----------------------------------------------------------------------------
(* An lchan fails.                                                         *)

\* ASSIGNMENT_EV_LCHAN_ERROR
AsgLchanError(t, l) == IF t.asg.fi # "none" /\ t.asg.new = l THEN assignment_fail(t) ELSE t

\* HO_EV_LCHAN_ERROR
HoLchanError(t) ==
    IF t.ho.fi \in {"none", "OUT_WAIT_HO_COMMAND", "OUT_WAIT_CLEAR"} THEN t
    ELSE handover_end(t, "ERROR")

\* lchan_on_activation_failure()
lchan_on_activation_failure(t, l) ==
    LET r == t.lchan[l]
        u == [t EXCEPT !.lchan[l].concluded = TRUE]
    IN  CASE r.concluded -> t
          [] ~r.concluded /\ r.conn = "freed" /\ r.for \in {"ASSIGNMENT", "HANDOVER"} ->
                CrashIf(u, TRUE, "freed")
          [] ~r.concluded /\ r.conn = "none" /\ r.for = "ASSIGNMENT" -> CrashIf(u, TRUE, "null")
          [] ~r.concluded /\ r.conn = "live" /\ r.for = "ASSIGNMENT" -> AsgLchanError(u, l)
          [] ~r.concluded /\ r.conn = "live" /\ r.for = "HANDOVER" -> HoLchanError(u)
          [] OTHER -> u

\* lchan_fail_to()
lchan_fail_to(t, l, s) ==
    LET Leave(u) == IF u.crash # "no" THEN u ELSE ChangeTo(u, l, s)
    IN  Leave(lchan_on_activation_failure(t, l))

\* lchan_fail()
lchan_fail(t, l) == lchan_fail_to(t, l, L!LchanOnError[t.lchan[l].st])

\* lchan_rtp_fail(): LCHAN_EV_RTP_ERROR, in the states of the lchan that take it
lchan_rtp_fail(t, l) ==
    LET s == t.lchan[l].st
    IN  IF s \notin {"WAIT_TS_READY", "WAIT_ACTIV_ACK", "WAIT_RLL_RTP_ESTABLISH", "ESTABLISHED"} THEN t
        ELSE lchan_fail_to(t, l, IF s = "WAIT_ACTIV_ACK" THEN "WAIT_RF_RELEASE_ACK"
                                 ELSE L!LchanOnError[s])

-----------------------------------------------------------------------------
(* Setting up the RTP of an lchan.                                         *)

\* lchan_use_mgw_endpoint_ci_bts(): whether there is a CI, its own or the old lchan's
UseCi(t, l) ==
    \/ t.lchan[l].ci
    \/ /\ t.lchan[l].st # "ESTABLISHED"
       /\ t.lchan[l].reuse # None /\ t.lchan[t.lchan[l].reuse].ci

Mut_CiShared(t, l) ==
    LET old == t.lchan[l].reuse
        u == RtpGoto(t, l, "WAIT_MGW_ENDPOINT_CONFIGURED")
        v == IF u.lchan[l].ci \/ old = None THEN u ELSE [u EXCEPT !.lchan[l].ci = u.lchan[old].ci]
    IN  IF t.lchan[l].requested \/ ~v.lchan[l].ci THEN lchan_rtp_fail(v, l) ELSE v

\* lchan_rtp_fsm_wait_mgw_endpoint_configured_onenter(): takes the CI over from the old lchan
EnterConfigured(t, l) ==
    LET old == t.lchan[l].reuse
        u == RtpGoto(t, l, "WAIT_MGW_ENDPOINT_CONFIGURED")
        v == IF t.lchan[l].requested \/ t.lchan[l].ci \/ old = None THEN u
             ELSE [u EXCEPT !.lchan[l].ci = t.lchan[old].ci, !.lchan[old].ci = FALSE]
    IN  IF t.lchan[l].requested \/ ~v.lchan[l].ci THEN lchan_rtp_fail(v, l) ELSE v

\* lchan_rtp_fsm_switch_rtp()
RtpSwitch(t, l) ==
    IF t.lchan[l].wait THEN RtpGoto(t, l, "WAIT_READY_TO_SWITCH_RTP") ELSE EnterConfigured(t, l)

\* lchan_rtp_fsm_post_lchan_ready(), with the onenter function of WAIT_IPACC_CRCX_ACK
RtpPostReady(t, l) ==
    LET u == RtpGoto(t, l, "WAIT_IPACC_CRCX_ACK")
    IN  IF ~t.site.ipacc THEN RtpSwitch(t, l)
        ELSE IF t.lchan[l].requested THEN lchan_rtp_fail(u, l) ELSE u

\* lchan_rtp_fsm_wait_lchan_ready_onenter()
EnterLchanReady(t, l) ==
    LET u == RtpGoto(t, l, "WAIT_LCHAN_READY")
    IN  IF t.lchan[l].ack THEN RtpPostReady(u, l) ELSE u

\* LCHAN_RTP_EV_LCHAN_READY
RtpLchanReady(t, l) == IF t.lchan[l].rtp = "WAIT_LCHAN_READY" THEN RtpPostReady(t, l) ELSE t

\* lchan_rtp_fsm_start() and lchan_rtp_fsm_wait_mgw_endpoint_available_onenter()
RtpStart(t, l) ==
    LET old == t.lchan[l].reuse
        has == old # None /\ t.lchan[old].ci
        u == [t EXCEPT !.lchan[l].reuse = IF has THEN old ELSE None]
    IN  IF has THEN EnterLchanReady(u, l)
        ELSE RtpGoto([u EXCEPT !.mgw.ep = TRUE, !.lchan[l].ci = TRUE], l, "WAIT_MGW_ENDPOINT_AVAILABLE")

Mut_SwitchRefused(t, l) ==
    IF t.lchan[l].rtp = "WAIT_READY_TO_SWITCH_RTP" THEN EnterConfigured(t, l) ELSE t

\* LCHAN_RTP_EV_READY_TO_SWITCH_RTP, from the handover FSM
RtpReadyToSwitch(t, l) ==
    CASE t.lchan[l].rtp = "WAIT_READY_TO_SWITCH_RTP" -> EnterConfigured(t, l)
      [] t.lchan[l].rtp \in {"WAIT_IPACC_CRCX_ACK", "WAIT_IPACC_MDCX_ACK"} ->
            [t EXCEPT !.lchan[l].wait = FALSE]
      [] OTHER -> t

-----------------------------------------------------------------------------
(* The two FSMs learn that the new lchan is established.                   *)

\* gscon_connect_mgw_to_msc(): makes the endpoint and its connection towards the MSC
ConnectMgw(t) == [t EXCEPT !.mgw.ep = TRUE, !.mgw.msc = TRUE]

\* assignment_fsm_post_lchan_established() and the onenter function of WAIT_MGW_ENDPOINT_TO_MSC
AsgPostEstablished(t) ==
    LET u == [t EXCEPT !.asg.fi = "WAIT_MGW_ENDPOINT_TO_MSC", !.asg.created = "none"]
    IN  IF t.asg.voice /\ t.site.aoip
        THEN [ConnectMgw(u) EXCEPT !.asg.created = IF t.mgw.msc THEN "none" ELSE "live"]
        ELSE assignment_success(IF t.asg.voice THEN u ELSE t)

\* ASSIGNMENT_EV_LCHAN_ESTABLISHED
AsgLchanEstablished(t) ==
    IF t.asg.fi = "WAIT_LCHAN_ESTABLISHED" THEN AsgPostEstablished(t) ELSE t

\* HO_EV_LCHAN_ESTABLISHED
HoLchanEstablished(t) ==
    IF t.ho.fi = "WAIT_LCHAN_ESTABLISHED" THEN handover_end(t, "OK") ELSE t

\* lchan_on_fully_established()
lchan_on_fully_established(t, l) ==
    LET r == t.lchan[l]
        u == [t EXCEPT !.lchan[l].concluded = TRUE]
    IN  CASE r.concluded \/ r.for \notin {"ASSIGNMENT", "HANDOVER"} -> u
          [] r.conn = "freed" -> CrashIf(u, TRUE, "freed")
          [] \/ r.conn = "none"
             \/ r.for = "ASSIGNMENT" /\ t.asg.fi = "none"
             \/ r.for = "HANDOVER" /\ t.ho.fi = "none" -> lchan_release(u, l, TRUE)
          [] r.for = "ASSIGNMENT" -> AsgLchanEstablished(u)
          [] r.for = "HANDOVER" -> HoLchanEstablished(u)

\* lchan_fsm_established_onenter()
EnterEstablished(t, l) ==
    LET u == Goto(t, l, "ESTABLISHED")
    IN  IF t.lchan[l].requested THEN lchan_fail(u, l) ELSE lchan_on_fully_established(u, l)

Mut_NotAwaited(t) == AsgPostEstablished([t EXCEPT !.asg.fi = "WAIT_LCHAN_ESTABLISHED"])

\* assignment_fsm_wait_lchan_established_onenter()
AsgEnterWaitEstablished(t) ==
    LET u == [t EXCEPT !.asg.fi = "WAIT_LCHAN_ESTABLISHED"]
    IN  IF t.asg.new = None THEN CrashIf(u, TRUE, "new")
        ELSE IF t.lchan[t.asg.new].st = "ESTABLISHED" THEN AsgPostEstablished(u) ELSE u

\* ho_fsm_wait_lchan_established_onenter()
HoEnterWaitEstablished(t) ==
    LET u == [t EXCEPT !.ho.fi = "WAIT_LCHAN_ESTABLISHED"]
    IN  IF t.ho.new = None THEN CrashIf(u, TRUE, "new")
        ELSE IF t.lchan[t.ho.new].st = "ESTABLISHED" THEN handover_end(u, "OK") ELSE u

-----------------------------------------------------------------------------
(* The two FSMs learn that the new lchan is active.                        *)

\* ASSIGNMENT_EV_LCHAN_ACTIVE: the RR Assignment Command goes out on the primary lchan
AsgLchanActive(t, l) ==
    LET u == [t EXCEPT !.asg.fi = "WAIT_RR_ASS_COMPLETE"]
    IN  IF ~(t.asg.fi = "WAIT_LCHAN_ACTIVE" /\ t.asg.new = l) THEN t
        ELSE IF t.conn.lchan = None THEN CrashIf(u, TRUE, "primary")
        ELSE IF t.ok THEN u ELSE assignment_fail(u)

\* ho_fsm_wait_rr_ho_detect_onenter(): the RR Handover Command goes to the MS on the primary lchan,
\* or in the Handover Request Acknowledge to the other BSS
HoEnterDetect(t) ==
    LET u == [t EXCEPT !.ho.fi = "WAIT_RR_HO_DETECT"]
        sent == t.ok /\ (IF t.ho.scope = "IN" THEN t.site.aoip => t.mgw.msc ELSE t.conn.lchan # None)
    IN  IF t.ho.new = None THEN CrashIf(u, TRUE, "new")
        ELSE IF sent THEN u ELSE handover_end(u, "ERROR")

\* HO_EV_LCHAN_ACTIVE
HoLchanActive(t) ==
    LET u == [t EXCEPT !.ho.fi = "WAIT_MGW_ENDPOINT_TO_MSC"]
    IN  IF t.ho.fi # "WAIT_LCHAN_ACTIVE" THEN t
        ELSE IF t.ho.scope = "IN" /\ t.site.aoip /\ t.lchan[t.ho.new].voice
             THEN [ConnectMgw(u) EXCEPT !.ho.created = ~t.mgw.msc]
        ELSE HoEnterDetect(t)

\* lchan_fsm_post_activ_ack()
PostActivAck(t, l) ==
    LET r == t.lchan[l]
        Ready(u) == IF u.lchan[l].st = "WAIT_ACTIV_ACK" /\ u.crash = "no"
                    THEN RtpLchanReady(Goto(u, l, "WAIT_RLL_RTP_ESTABLISH"), l) ELSE u
    IN  IF r.requested THEN lchan_fail_to(t, l, "WAIT_RF_RELEASE_ACK")
        ELSE Ready(
             CASE r.for \notin {"ASSIGNMENT", "HANDOVER"} -> t
               [] r.for = "ASSIGNMENT" /\ r.conn = "live" /\ t.asg.fi # "none" -> AsgLchanActive(t, l)
               [] r.for = "HANDOVER" /\ r.conn = "live" /\ t.ho.fi # "none" -> HoLchanActive(t)
               [] OTHER -> CrashIf(lchan_release(t, l, TRUE), r.conn = "freed", "freed"))

\* lchan_fsm_wait_activ_ack_onenter(): a release meanwhile ends it; the Channel Activation for a
\* handover needs lchan->conn
EnterWaitActivAck(t, l) ==
    LET u == Goto(t, l, "WAIT_ACTIV_ACK")
    IN  IF t.lchan[l].requested \/ ~t.ok THEN lchan_fail_to(u, l, "UNUSED")
        ELSE CrashIf(u, t.lchan[l].for = "HANDOVER" /\ t.lchan[l].conn # "live", "null")

\* lchan_activate() and lchan_fsm_wait_ts_ready_onenter().  "how": the timeslot is ready at once,
\* or later, or the lchan cannot be had (its timeslot failed, the mode is not possible)
Hows == {"ready", "wait", "error"}

lchan_activate(t, l, info, how) ==
    LET u == [t EXCEPT !.lchan[l] = [Cleared EXCEPT !.st = "WAIT_TS_READY", !.conn = "live",
                                        !.for = info.for, !.voice = info.voice,
                                        !.reuse = info.reuse, !.wait = info.wait]]
        Start(v) == IF v.lchan[l].voice THEN RtpStart(v, l) ELSE v
    IN  IF how = "error" THEN lchan_fail_to(u, l, "UNUSED")
        ELSE Start(IF how = "ready" THEN EnterWaitActivAck(u, l) ELSE u)

-----------------------------------------------------------------------------
(* The conn starts.                                                        *)

Idle == conn.st = "none" /\ \A l \in Lchans : lchan[l].st \in {"UNUSED", "BORKEN"}

\* A Complete Layer 3 on an lchan the MS asked for, and the MSC's Connection Confirm (module
\* AInterface has these steps): the conn is ACTIVE
ComplL3(l) ==
    /\ Idle
    /\ lchan[l].st = "UNUSED"
    /\ Become([Cur(TRUE) EXCEPT
                 !.conn = [NoConn EXCEPT !.st = "ACTIVE", !.lchan = l],
                 !.lchan[l] = [Cleared EXCEPT !.st = "ESTABLISHED", !.for = "MS", !.conn = "live",
                                              !.ack = TRUE, !.concluded = TRUE, !.sapi = TRUE]])

\* handover_start_inter_bsc_in(), the new lchan is activated
HandoverIn(l, how, ok) ==
    /\ Idle
    /\ lchan[l].st = "UNUSED"
    /\ Become(lchan_activate([Cur(ok) EXCEPT !.conn.st = "INIT", !.ho.fi = "WAIT_LCHAN_ACTIVE",
                                             !.ho.scope = "IN", !.ho.new = l],
                             l, [for |-> "HANDOVER", voice |-> TRUE, reuse |-> None, wait |-> FALSE],
                             how))

\* handover_start_inter_bsc_in(), an error before (new is None) or after an lchan is chosen
HandoverInRefused(new, ok) ==
    /\ Idle
    /\ new # None => lchan[new].st = "UNUSED"
    /\ Become(handover_end([Cur(ok) EXCEPT !.conn.st = "INIT", !.ho.fi = "WAIT_LCHAN_ACTIVE",
                                           !.ho.scope = "IN", !.ho.new = new], "ERROR"))

-----------------------------------------------------------------------------
(* Assignment.                                                             *)

\* GSCON_EV_ASSIGNMENT_START and the first part of assignment_fsm_start()
AssignmentStart(ok, voice) ==
    [Cur(ok) EXCEPT !.conn.st = "ASSIGNMENT", !.conn.owed = TRUE,
                    !.asg = [NoAsg EXCEPT !.fi = "WAIT_LCHAN_ACTIVE", !.voice = voice]]

CanAssign == conn.st = "ACTIVE" /\ conn.lchan # None

\* assignment_fsm_start(), a new lchan is activated; an RTP stream there is goes along
AssignmentNew(l, voice, how, ok) ==
    /\ CanAssign
    /\ lchan[l].st = "UNUSED"
    /\ Become(lchan_activate([AssignmentStart(ok, voice) EXCEPT !.asg.new = l], l,
                             [for |-> "ASSIGNMENT", voice |-> voice, reuse |-> conn.lchan,
                              wait |-> FALSE], how))

\* assignment_fsm_start(), reuse_existing_lchan(): the present lchan already serves
AssignmentReuse(ok) ==
    /\ CanAssign
    /\ \E t \in {send_assignment_complete(AssignmentStart(ok, lchan[conn.lchan].voice))} :
         Become(IF t.asg.fi = "none" THEN t ELSE AsgTerm(t))

\* assignment_fsm_start(), the request cannot be met: no such mode, no free lchan
AssignmentRefused(voice) ==
    /\ CanAssign
    /\ Become(assignment_fail(AssignmentStart(TRUE, voice)))

-----------------------------------------------------------------------------
(* Handover.                                                               *)

\* handover_request(), GSCON_EV_HANDOVER_START and the first part of handover_start()
HandoverStart(ok, scope) ==
    [Cur(ok) EXCEPT !.conn.st = "HANDOVER",
                    !.ho = [NoHo EXCEPT !.fi = "WAIT_LCHAN_ACTIVE", !.scope = scope]]

CanHandover == conn.st = "ACTIVE" /\ conn.lchan # None

\* handover_start_intra_bsc(): the RTP stream moves along once the MS shows up
HandoverIntra(l, how, ok) ==
    /\ CanHandover
    /\ lchan[l].st = "UNUSED"
    /\ Become(lchan_activate([HandoverStart(ok, "INTRA") EXCEPT !.ho.new = l], l,
                             [for |-> "HANDOVER", voice |-> lchan[conn.lchan].ci,
                              reuse |-> conn.lchan, wait |-> TRUE], how))

\* handover_start(), handover_start_intra_bsc(): no such cell, no free lchan
HandoverNoChannel(scope) ==
    /\ CanHandover
    /\ Become(handover_end(HandoverStart(TRUE, scope), "NO_CHANNEL"))

Mut_OutNotEnded(ok) ==
    /\ CanHandover
    /\ Become([HandoverStart(ok, "OUT") EXCEPT !.ho.fi = IF ok THEN "OUT_WAIT_HO_COMMAND" ELSE "NOT_STARTED"])

\* handover_start_inter_bsc_out(): Handover Required
HandoverOut(ok) ==
    /\ CanHandover
    /\ \E t \in {HandoverStart(ok, "OUT")} :
         Become(IF ok THEN [t EXCEPT !.ho.fi = "OUT_WAIT_HO_COMMAND"]
                ELSE handover_end([t EXCEPT !.ho.fi = "NOT_STARTED"], "ERROR"))

\* bssmap_handle_handover_cmd() and ho_out_fsm_wait_ho_command(): without its L3 message the
\* Handover Command ends whatever handover there is
HandoverCommand(complete, ok) ==
    /\ ho.fi # "none"
    /\ complete => ho.fi = "OUT_WAIT_HO_COMMAND"
    /\ \E t \in {Cur(ok)} :
         Become(IF complete /\ ok /\ conn.lchan # None
                THEN [t EXCEPT !.ho.fi = "OUT_WAIT_CLEAR"] ELSE handover_end(t, "ERROR"))

Mut_NoOutTimer ==
    /\ ho.fi \notin {"none", "OUT_WAIT_CLEAR"}
    /\ Become(handover_end(Cur(TRUE), "TIMEOUT"))

\* ho_fsm_timer_cb()
HandoverTimeout ==
    /\ ho.fi # "none"
    /\ Become(handover_end(Cur(TRUE), "TIMEOUT"))

-----------------------------------------------------------------------------
(* RR messages of the MS: dispatch_dtap(), rsl_rx_hando_det().             *)

\* The lchan passes on what the MS sends: lchan_may_receive_data(), and there is a conn
Talks(l) ==
    /\ lchan[l].st \in {"WAIT_RLL_RTP_ESTABLISH", "ESTABLISHED"}
    /\ lchan[l].conn = "live"
    /\ lchan[l].sapi

\* RR Assignment Complete; like the others, taken from whichever lchan of the conn it comes on
RrAssignmentComplete(l, ok) ==
    /\ Talks(l)
    /\ asg.fi = "WAIT_RR_ASS_COMPLETE"
    /\ Become(AsgEnterWaitEstablished(Cur(ok)))

\* RR Assignment Failure
RrAssignmentFail(l) ==
    /\ Talks(l)
    /\ asg.fi = "WAIT_RR_ASS_COMPLETE"
    /\ Become(assignment_fail(Cur(TRUE)))

\* READY_TO_SWITCH_RTP for the new lchan: when that fails, it ends the handover FSM that is about
\* to go on to its next state
HoSwitchRtp(t) ==
    LET GoOn(u) == CrashIf(u, u.ho.fi = "none", "fsm")
    IN  IF t.ho.new = None THEN CrashIf(t, TRUE, "new") ELSE GoOn(RtpReadyToSwitch(t, t.ho.new))

\* HANDOver DETect of the BTS, on the new lchan
RrHandoverDetect(l, ok) ==
    /\ lchan[l].st \in {"WAIT_RLL_RTP_ESTABLISH", "ESTABLISHED"}
    /\ lchan[l].conn = "live" /\ l = ho.new
    /\ ho.fi = "WAIT_RR_HO_DETECT"
    /\ \E t \in {HoSwitchRtp(Cur(ok))} :
         Become(IF ho.scope = "IN" /\ ~ok THEN handover_end(Cur(ok), "ERROR")
                ELSE IF t.crash # "no" THEN t
                ELSE [t EXCEPT !.ho.fi = "WAIT_RR_HO_COMPLETE"])

\* RR Handover Complete, with or without the Detect before it
RrHandoverComplete(l, ok) ==
    /\ Talks(l)
    /\ ho.fi \in {"WAIT_RR_HO_DETECT", "WAIT_RR_HO_COMPLETE"}
    /\ \E t \in {IF ho.fi = "WAIT_RR_HO_DETECT" THEN HoSwitchRtp(Cur(ok)) ELSE Cur(ok)} :
         Become(IF t.crash # "no" THEN t ELSE HoEnterWaitEstablished(t))

\* RR Handover Failure
RrHandoverFail(l) ==
    /\ Talks(l)
    /\ ho.fi \in {"WAIT_RR_HO_DETECT", "WAIT_RR_HO_COMPLETE", "OUT_WAIT_CLEAR"}
    /\ Become(handover_end(Cur(TRUE), "RR_HO_FAIL"))

-----------------------------------------------------------------------------
(* What the BTS and the timers tell an lchan.                              *)

\* LCHAN_EV_TS_READY
TsReady(l, ok) ==
    /\ lchan[l].st = "WAIT_TS_READY"
    /\ Become(EnterWaitActivAck(Cur(ok), l))

\* LCHAN_EV_TS_ERROR: the timeslot is gone, in any state
TsError(l) ==
    /\ lchan[l].st # "UNUSED"
    /\ Become(lchan_fail_to(Cur(TRUE), l, "UNUSED"))

\* LCHAN_EV_RSL_CHAN_ACTIV_ACK
ChanActivAck(l, ok) ==
    /\ lchan[l].st = "WAIT_ACTIV_ACK"
    /\ Become(PostActivAck([Cur(ok) EXCEPT !.lchan[l].ack = TRUE], l))

\* LCHAN_EV_RSL_CHAN_ACTIV_NACK, as if in lchan_release(): the FSMs that fail do not release the
\* lchan.  "active": RSL_ERR_RCH_ALR_ACTV_ALLOC
ChanActivNack(l, active) ==
    /\ lchan[l].st = "WAIT_ACTIV_ACK"
    /\ Become(lchan_fail_to([Cur(TRUE) EXCEPT !.busy = l], l,
                            IF active THEN "WAIT_RF_RELEASE_ACK" ELSE "BORKEN"))

\* LCHAN_EV_RLL_ESTABLISH_IND, from an MS that was sent to this lchan
EstablishInd(l, ok) ==
    LET r == lchan[l]
        t == [Cur(ok) EXCEPT !.lchan[l].sapi = TRUE]
    IN  /\ r.st = "WAIT_RLL_RTP_ESTABLISH" /\ ~r.sapi
        /\ ~(ho.new = l /\ ho.fi = "WAIT_MGW_ENDPOINT_TO_MSC")
        /\ Become(IF r.voice => r.rtp \in {"READY", "ESTABLISHED", "ROLLBACK"}
                  THEN EnterEstablished(t, l) ELSE t)

\* gscon_lchan_releasing()
gscon_lchan_releasing(t, l) ==
    LET told == IF t.asg.new # l THEN t
                ELSE [lchan_forget_conn(AsgLchanError(t, l), l) EXCEPT !.asg.new = None]
        Ho(u) == IF u.ho.new = l THEN HoLchanError(u) ELSE u
        Primary(u) == IF u.conn.lchan = l
                      THEN [lchan_forget_conn(u, l) EXCEPT !.conn.lchan = None] ELSE u
        Clear(u) == IF u.conn.lchan # None THEN u
                    ELSE [u EXCEPT !.conn.st = "CLEARING", !.conn.clear = TRUE]
    IN  CASE t.lchan[l].conn = "none" -> t
          [] t.lchan[l].conn = "freed" -> CrashIf(t, TRUE, "freed")
          [] t.lchan[l].conn = "live" -> Clear(Primary(Ho(told)))

\* LCHAN_EV_RLL_REL_IND and LCHAN_EV_RLL_REL_CONF: handle_rll_rel_ind_or_conf()
ReleaseInd(l) ==
    /\ lchan[l].st \in {"ESTABLISHED", "WAIT_RLL_RTP_RELEASED"}
    /\ lchan[l].sapi
    /\ \E t \in {gscon_lchan_releasing([Cur(TRUE) EXCEPT !.lchan[l].sapi = FALSE], l)} :
         Become(CASE t.crash # "no" -> t
                  [] t.crash = "no" /\ t.lchan[l].st = "ESTABLISHED" -> EnterReleased(t, l)
                  [] t.crash = "no" /\ t.lchan[l].st = "WAIT_RLL_RTP_RELEASED"
                                    /\ t.lchan[l].rtp = "none" -> Goto(t, l, "WAIT_BEFORE_RF_RELEASE")
                  [] OTHER -> t)

\* CONNection FAILure INDication: rsl_rx_conn_fail(), GSCON_EV_RSL_CONN_FAIL
ConnFail(l) ==
    /\ lchan[l].st \in {"WAIT_RLL_RTP_ESTABLISH", "ESTABLISHED", "WAIT_RLL_RTP_RELEASED"}
    /\ Become(CASE lchan[l].conn = "none" -> lchan_release(Cur(TRUE), l, TRUE)
                [] lchan[l].conn = "live" -> [Cur(TRUE) EXCEPT !.conn.clear = TRUE]
                [] lchan[l].conn = "freed" -> CrashIf(Cur(TRUE), TRUE, "freed"))

\* LCHAN_EV_RSL_RF_CHAN_REL_ACK, with the timer of WAIT_AFTER_ERROR
RfChanRelAck(l) ==
    /\ lchan[l].st \in {"WAIT_RF_RELEASE_ACK", "BORKEN"}
    /\ Become(lchan_reset(Cur(TRUE), l, "UNUSED"))

\* lchan_fsm_timer_cb()
LchanTimeout(l) ==
    /\ lchan[l].st \in L!LchanTimed
    /\ Become(IF lchan[l].st = "WAIT_BEFORE_RF_RELEASE" THEN EnterRfRelease(Cur(TRUE), l)
              ELSE lchan_fail(Cur(TRUE), l))

-----------------------------------------------------------------------------
(* What the MGW, an ip.access BTS and the timers tell an RTP FSM, the      *)
(* assignment and the handover.                                            *)

\* LCHAN_RTP_EV_MGW_ENDPOINT_AVAILABLE
MgwAvailable(l) ==
    /\ mgw.ep /\ lchan[l].rtp = "WAIT_MGW_ENDPOINT_AVAILABLE"
    /\ Become(EnterLchanReady(Cur(TRUE), l))

\* LCHAN_RTP_EV_MGW_ENDPOINT_CONFIGURED: the RTP is READY, and the lchan, if it waits for that,
\* established
MgwConfigured(l, ok) ==
    /\ mgw.ep /\ lchan[l].rtp = "WAIT_MGW_ENDPOINT_CONFIGURED"
    /\ \E t \in {RtpGoto(Cur(ok), l, "READY")} :
         Become(IF lchan[l].st = "WAIT_RLL_RTP_ESTABLISH" /\ lchan[l].sapi
                THEN EnterEstablished(t, l) ELSE t)

\* ... in ROLLBACK: the CI returns to the lchan it was taken from
MgwRolledBack(l) ==
    /\ mgw.ep /\ lchan[l].rtp = "ROLLBACK"
    /\ Become(RtpTerm([Cur(TRUE) EXCEPT !.lchan[lchan[l].reuse].ci = lchan[l].ci,
                                        !.lchan[l].ci = FALSE], l))

\* LCHAN_RTP_EV_MGW_ENDPOINT_ERROR
MgwError(l) ==
    /\ mgw.ep
    /\ \/ /\ lchan[l].rtp \in {"WAIT_MGW_ENDPOINT_AVAILABLE", "WAIT_MGW_ENDPOINT_CONFIGURED"}
          /\ Become(lchan_rtp_fail(Cur(TRUE), l))
       \/ /\ lchan[l].rtp = "ROLLBACK"
          /\ Become(RtpTerm(Cur(TRUE), l))

\* LCHAN_RTP_EV_IPACC_CRCX_ACK, with the onenter function of WAIT_IPACC_MDCX_ACK
IpaccCrcxAck(l) ==
    /\ lchan[l].rtp = "WAIT_IPACC_CRCX_ACK"
    /\ \E t \in {RtpGoto(Cur(TRUE), l, "WAIT_IPACC_MDCX_ACK")} :
         Become(IF lchan[l].requested \/ ~UseCi(t, l) THEN lchan_rtp_fail(t, l) ELSE t)

\* LCHAN_RTP_EV_IPACC_MDCX_ACK
IpaccMdcxAck(l) ==
    /\ lchan[l].rtp = "WAIT_IPACC_MDCX_ACK"
    /\ Become(RtpSwitch(Cur(TRUE), l))

\* LCHAN_RTP_EV_IPACC_CRCX_NACK, LCHAN_RTP_EV_IPACC_MDCX_NACK, and lchan_rtp_fsm_timer_cb()
RtpTimeout(l) ==
    /\ lchan[l].rtp \in {"WAIT_MGW_ENDPOINT_AVAILABLE", "WAIT_IPACC_CRCX_ACK", "WAIT_IPACC_MDCX_ACK",
                         "WAIT_MGW_ENDPOINT_CONFIGURED"}
    /\ Become(lchan_rtp_fail(Cur(TRUE), l))

\* ASSIGNMENT_EV_MSC_MGW_OK, ASSIGNMENT_EV_MSC_MGW_FAIL
AsgMscMgw(done, ok) ==
    /\ mgw.ep /\ asg.fi = "WAIT_MGW_ENDPOINT_TO_MSC"
    /\ Become(IF done /\ mgw.msc THEN assignment_success(Cur(ok)) ELSE assignment_fail(Cur(ok)))

\* HO_EV_MSC_MGW_OK, HO_EV_MSC_MGW_FAIL
HoMscMgw(done, ok) ==
    /\ mgw.ep /\ ho.fi = "WAIT_MGW_ENDPOINT_TO_MSC"
    /\ Become(IF done /\ mgw.msc THEN HoEnterDetect(Cur(ok)) ELSE handover_end(Cur(ok), "ERROR"))

\* assignment_fsm_timer_cb()
AssignmentTimeout ==
    /\ asg.fi # "none"
    /\ Become(assignment_fail(Cur(TRUE)))

\* gscon_forget_mgw_endpoint()
gscon_forget_mgw_endpoint(t) ==
    [t EXCEPT !.mgw = NoMgw, !.ho.created = FALSE,
              !.asg.created = IF @ = "live" THEN "freed" ELSE @,
              !.lchan = [l \in Lchans |-> [@[l] EXCEPT !.ci =
                            @ /\ l \notin {t.conn.lchan, t.asg.new, t.ho.new}]]]

\* GSCON_EV_FORGET_MGW_ENDPOINT: the endpoint's FSM gave up on the MGW, or its last CI is gone
EndpointGone ==
    /\ mgw.ep
    /\ Become(gscon_forget_mgw_endpoint(Cur(TRUE)))

-----------------------------------------------------------------------------
(* The conn ends.                                                          *)

\* gscon_release_lchans()
gscon_release_lchans(t) ==
    LET Primary(u) == gscon_release_lchan(u, u.conn.lchan)
    IN  Primary(assignment_reset(IF t.ho.fi = "none" THEN t ELSE handover_end(t, "CONN_RELEASE")))

\* GSCON_EV_A_CLEAR_CMD
ClearCommand ==
    /\ conn.st # "none"
    /\ Become(gscon_forget_mgw_endpoint(gscon_release_lchans([Cur(TRUE) EXCEPT !.conn.st = "CLEARING"])))

\* GSCON_EV_A_DISC_IND, and timer 999: gscon_pre_term(), the end of the assignment FSM, and
\* gscon_cleanup(), which makes only the lchans the conn knows forget it
ConnTerm ==
    /\ conn.st # "none"
    /\ \E t \in {assignment_reset(gscon_release_lchans(gscon_forget_mgw_endpoint(Cur(TRUE))))} :
         Become([t EXCEPT !.conn = NoConn, !.asg = NoAsg, !.ho = NoHo, !.mgw = NoMgw,
                          !.lchan = [l \in Lchans |-> [@[l] EXCEPT !.conn =
                                        IF @ = "live" THEN "freed" ELSE @]]])

-----------------------------------------------------------------------------

\* After a crash the BSC starts anew
Restart ==
    /\ crash # "no"
    /\ conn' = NoConn /\ asg' = NoAsg /\ ho' = NoHo /\ mgw' = NoMgw
    /\ lchan' = [l \in Lchans |-> Cleared]
    /\ crash' = "no"
    /\ UNCHANGED site

LchanStep(l) ==
    \/ ComplL3(l) \/ TsError(l) \/ ReleaseInd(l) \/ ConnFail(l) \/ RfChanRelAck(l) \/ LchanTimeout(l)
    \/ MgwAvailable(l) \/ MgwRolledBack(l) \/ MgwError(l) \/ IpaccCrcxAck(l) \/ IpaccMdcxAck(l)
    \/ RtpTimeout(l) \/ RrAssignmentFail(l) \/ RrHandoverFail(l)
    \/ \E ok \in BOOLEAN :
         \/ TsReady(l, ok) \/ ChanActivAck(l, ok) \/ ChanActivNack(l, ok) \/ EstablishInd(l, ok)
         \/ RrAssignmentComplete(l, ok) \/ RrHandoverDetect(l, ok) \/ RrHandoverComplete(l, ok)
         \/ MgwConfigured(l, ok)
         \/ \E how \in Hows :
              \/ HandoverIn(l, how, ok) \/ HandoverIntra(l, how, ok)
              \/ \E voice \in BOOLEAN : AssignmentNew(l, voice, how, ok)

Next ==
    \/ \E l \in Lchans : LchanStep(l)
    \/ \E l \in Ptr, ok \in BOOLEAN : HandoverInRefused(l, ok)
    \/ \E ok \in BOOLEAN : AssignmentReuse(ok) \/ HandoverOut(ok)
    \/ \E voice \in BOOLEAN : AssignmentRefused(voice)
    \/ \E scope \in {"none", "INTRA"} : HandoverNoChannel(scope)
    \/ \E done, ok \in BOOLEAN : HandoverCommand(done, ok) \/ AsgMscMgw(done, ok) \/ HoMscMgw(done, ok)
    \/ AssignmentTimeout \/ HandoverTimeout
    \/ EndpointGone \/ ClearCommand \/ ConnTerm
    \/ Restart

Spec == Init /\ [][Next]_vars

\* The timers are the BSC's own: every state of the assignment and of the handover FSM has one.  No
\* answer of the MS, the BTS, the MGW or the MSC is assumed.
FairSpec == Spec /\ WF_vars(AssignmentTimeout \/ HandoverTimeout)

-----------------------------------------------------------------------------
(* Properties.                                                             *)

\* The state of the conn tells which procedure runs: in ACTIVE neither FSM exists nor holds on to
\* an lchan, so the OSMO_ASSERTs with which assignment_fsm_start() and handover_fsm_alloc() begin
\* hold; in ASSIGNMENT and HANDOVER the FSM that will end that state is there.
ProcedureMatches ==
    crash = "no" =>
        /\ conn.st \in {"none", "ACTIVE", "HANDOVER", "INIT"} => asg = NoAsg
        /\ conn.st \in {"none", "ACTIVE", "ASSIGNMENT"} => ho = NoHo
        /\ conn.st = "ASSIGNMENT" => asg.fi # "none"
        /\ conn.st \in {"HANDOVER", "INIT"} => ho.fi # "none"

\* The three lchan pointers of a conn are to different lchans, and each of these lchans points
\* back and is not yet released: an lchan that fails tells its conn (gscon_forget_lchan(),
\* gscon_lchan_releasing()), in whatever order the two are torn down.
PointersAgree ==
    LET P == {conn.lchan, asg.new, ho.new} \ {None}
    IN  crash = "no" =>
            /\ Cardinality(P) = Cardinality({f \in {"lchan", "asg", "ho"} :
                    (IF f = "lchan" THEN conn.lchan ELSE IF f = "asg" THEN asg.new ELSE ho.new) # None})
            /\ \A l \in P : /\ lchan[l].conn = "live"
                            /\ lchan[l].st \notin {"UNUSED", "BORKEN", "WAIT_RF_RELEASE_ACK"}

\* At most one lchan owns the MGW's connection towards the BTS: while the RTP stream moves from one
\* lchan to another (lchan_rtp_fsm_wait_mgw_endpoint_configured_onenter()) no step leaves it with
\* both, so the release of one never deletes the connection of the other.
OneCi == Cardinality({l \in Lchans : lchan[l].ci}) <= 1

\* A conn that has lost every lchan has asked the MSC to clear it (gscon_forget_lchan(),
\* gscon_lchan_releasing(), gscon_fsm_active_onenter()), or is being cleared.
ClearRequested ==
    crash = "no" /\ conn.st # "none" /\ {conn.lchan, asg.new, ho.new} = {None}
        => conn.clear \/ conn.st = "CLEARING"

\* The five FSMs agree on the call, in whatever order its parts fail: which procedure runs, who holds
\* which lchan, who has the MGW's connection, and whether the MSC has to clear it.
CallAgrees == TypeOK /\ ProcedureMatches /\ PointersAgree /\ OneCi /\ ClearRequested

\* Neither FSM waits for something that has already happened: for an lchan to be established that
\* is, nor does the RTP FSM wait to be told to switch after the handover FSM has told it.
NothingMissed ==
    crash = "no" =>
        /\ asg.fi = "WAIT_LCHAN_ESTABLISHED" /\ asg.new # None => lchan[asg.new].st # "ESTABLISHED"
        /\ ho.fi = "WAIT_LCHAN_ESTABLISHED" /\ ho.new # None => lchan[ho.new].st # "ESTABLISHED"
        /\ ho.fi \in {"WAIT_RR_HO_COMPLETE", "WAIT_LCHAN_ESTABLISHED"} /\ ho.new # None =>
              /\ lchan[ho.new].rtp # "WAIT_READY_TO_SWITCH_RTP"
              /\ lchan[ho.new].rtp \in {"WAIT_IPACC_CRCX_ACK", "WAIT_IPACC_MDCX_ACK"}
                    => ~lchan[ho.new].wait

\* An assignment the conn has taken up is answered, with Assignment Complete or Assignment Failure,
\* before the conn is ACTIVE again and can be given the next one.
AssignmentAnswered == crash = "no" /\ conn.st = "ACTIVE" => ~conn.owed

\* A call moves to a channel that is ready for it: when the primary lchan is replaced
\* (gscon_change_primary_lchan()), the new one is established, and if it carries voice its RTP is
\* too, and no longer depends on the old lchan, which is on its way out.
MovesWhenReady ==
    [][LET l == conn'.lchan IN
         l \notin {conn.lchan, None} /\ conn.st # "none" /\ crash' = "no"
            => /\ lchan'[l].st = "ESTABLISHED"
               /\ lchan'[l].voice => lchan'[l].rtp = "ESTABLISHED" /\ lchan'[l].reuse = None
               /\ conn.lchan # None => lchan'[conn.lchan].requested]_vars

\* Assignments and handovers end, whatever the others do or fail to do.
ProceduresEnd ==
    conn.st \in {"INIT", "ASSIGNMENT", "HANDOVER"}
        ~> conn.st \in {"none", "ACTIVE", "CLEARING"} \/ crash # "no"

\* on its way to be used again
Released(l) == lchan[l].st \in {"UNUSED", "BORKEN", "WAIT_RLL_RTP_RELEASED", "WAIT_BEFORE_RF_RELEASE", "WAIT_RF_RELEASE_ACK"}

\* However an assignment, a handover or the conn ends, it leaves nothing behind: an lchan that the conn does
\* not know any more is being released (assignment_reset(), handover_end(), gscon_release_lchans()); no lchan
\* has a connection of an MGW endpoint that is gone (gscon_forget_mgw_endpoint()); and a call that is ACTIVE
\* again is on an lchan that is established, or the MSC has been asked to clear it, with the connection
\* towards the BTS on no other lchan than one that is giving it back (lchan_rtp_fsm_rollback_onenter()).
NothingLeftBehind ==
    crash = "no" =>
        /\ \A l \in Lchans \ {conn.lchan, asg.new, ho.new} : Released(l)
        /\ \A l \in Lchans : lchan[l].ci => mgw.ep
        /\ conn.st = "ACTIVE" /\ ~conn.clear =>
              /\ lchan[conn.lchan].st = "ESTABLISHED"
              /\ \A l \in Lchans \ {conn.lchan} : lchan[l].ci => lchan[l].rtp = "ROLLBACK"

\* What lchan_rtp_fsm.c promises of a handover or assignment that fails half way: when the MGW has
\* switched the RTP stream back, the old lchan has the connection to the BTS again.
RollbackGivesBack ==
    [][\A l \in Lchans : MgwRolledBack(l) => lchan'[lchan[l].reuse].ci]_vars

\* The assertion of conn_get_bts(): whoever asks for the BTS of a conn, as
\* send_handover_performed() does, finds that it has a primary lchan.
PrimaryAsserted == crash # "conn_get_bts"

=============================================================================
