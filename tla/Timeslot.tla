------------------------------ MODULE Timeslot ------------------------------
(***************************************************************************)
(* One timeslot of a TRX: its FSM (timeslot_fsm.c), which switches a       *)
(* dynamic timeslot between PDCH and TCH, the FSMs of its lchans (module   *)
(* Lchan), the choice of an lchan (lchan_select.c) and the RSL messages    *)
(* with which both FSMs command the BTS (abis_rsl.c).                      *)
(*                                                                         *)
(* The BTS and the RSL link are external: requests wait in "link", the BTS *)
(* takes them in order, and its answer is handled when it takes one.  A    *)
(* timer may fire at any time.  A failed OSMO_ASSERT, and a use of a NULL  *)
(* or freed conn, ends the program, which is then restarted.               *)
(***************************************************************************)
EXTENDS Lchan, FiniteSets, TLC

CONSTANTS
    Sites,      \* what the timeslot is configured for and what happens to it
    MaxLink     \* bound on the requests under way to the BTS

\* config: pchan_from_config;  purpose: what lchans are activated for;  voice: the values
\* of requires_voice_stream;  sapi: the SAPIs an MS uses;  teiDown: the RSL link may be
\* lost while the OML link stays;  debug: the operator uses the VTY's debugging commands
Site == [config : {"TCH_F", "TCH_H", "TCH_F_PDCH", "TCH_F_TCH_H_PDCH"},
         gprs : BOOLEAN,                    \* bts->gprs.mode is not BTS_GPRS_NONE
         purpose : SUBSET {"MS", "ASSIGNMENT", "HANDOVER"}, voice : SUBSET BOOLEAN,
         sapi : SUBSET {0, 3}, teiDown : BOOLEAN, debug : BOOLEAN]

ASSUME TimeslotAssumption == Sites \subseteq Site /\ MaxLink \in Nat

VARIABLES
    site,       \* the member of Sites this is, once and for all
    ts,         \* ts->fi->state
    on_init,    \* ts->pchan_on_init
    is,         \* ts->pchan_is
    allowed,    \* ts->pdch_act_allowed
    oml, rsl,   \* ts->is_oml_ready, ts->is_rsl_ready
    con,        \* trx->rsl_link is there
    lchan,      \* ts->lchan[]
    link,       \* RSL requests the BTS has yet to take
    air,        \* channels the BTS has active
    crash       \* why the program has ended, or "no"

vars == <<site, ts, on_init, is, allowed, oml, rsl, con, lchan, link, air, crash>>

\* pchan_subslots()
Subslots(pchan) ==
    CASE pchan \in {"TCH_H", "TCH_F_TCH_H_PDCH"} -> {0, 1}
      [] pchan \in {"TCH_F", "TCH_F_PDCH"} -> {0}
      [] OTHER -> {}

Config == site.config
Lchans == Subslots(Config)
TypeOf(pchan) == IF pchan \in {"TCH_F", "TCH_H"} THEN pchan ELSE "NONE"    \* gsm_lchan_type_by_pchan()
Pchans == {"NONE", "TCH_F", "TCH_H", "PDCH", "TCH_F_PDCH", "TCH_F_TCH_H_PDCH"}
Dynamic == {"TCH_F_PDCH", "TCH_F_TCH_H_PDCH"}

TsState == {"NOT_INITIALIZED", "UNUSED", "WAIT_PDCH_ACT", "PDCH", "WAIT_PDCH_DEACT", "IN_USE", "BORKEN"}

\* ts_is_capable_of_pchan()
Capable(init, pchan) ==
    pchan \in CASE init = "TCH_F_PDCH" -> {"TCH_F", "PDCH"}
                [] init = "TCH_F_TCH_H_PDCH" -> {"TCH_F", "TCH_H", "PDCH"}
                [] OTHER -> {init}

TypeOK ==
    /\ site \in Sites /\ ts \in TsState /\ on_init \in {"NONE", Config}
    /\ is \in Pchans \ Dynamic
    /\ {allowed, oml, rsl, con} \subseteq BOOLEAN /\ crash \in {"no"} \cup Crashes
    /\ lchan \in [Lchans -> LchanType]
    /\ link \in Seq([act: BOOLEAN, pchan: Pchans \cup {"IPAC"}, nr: Lchans]) /\ Len(link) <= MaxLink
    /\ air \subseteq {"TCH_F", "TCH_H", "PDCH"} \X Lchans

Init ==
    /\ site \in Sites /\ ts = "NOT_INITIALIZED" /\ on_init = "NONE" /\ is = "NONE"
    /\ allowed = FALSE /\ oml = FALSE /\ rsl = FALSE /\ con = FALSE /\ crash = "no"
    /\ lchan = [l \in Lchans |-> NoLchan]
    /\ link = <<>> /\ air = {}

-----------------------------------------------------------------------------
(* The timeslot FSM, as functions of the state t.                          *)

Waiting(t) == {l \in Lchans : t.lchan[l].st = "WAIT_TS_READY"}     \* ts_lchans_waiting()

\* Do Op(t, l) for the lchans of S in the order of their numbers: there are two at most
InOrder(t, S, Op(_, _)) ==
    LET u == IF 0 \in S THEN Op(t, 0) ELSE t
    IN  IF 1 \in S THEN Op(u, 1) ELSE u

\* An lchan that is dropped while the timeslot is not IN_USE: LCHAN_UNUSED is ignored
DropWaiting(t) == InOrder(t, Waiting(t), TsError)

Mut_KeepWaiting(t) == [t EXCEPT !.ts = "BORKEN"]

\* ts_fsm_error() into BORKEN
TsBorken(t) == [DropWaiting(t) EXCEPT !.ts = "BORKEN"]

\* rsl_tx_dyn_ts_pdch_act_deact(); without a link the timeslot is broken
TxPdch(t, act) ==
    IF ~t.con THEN TsBorken(t)
    ELSE [t EXCEPT !.link =
            Append(@, [act |-> act, nr |-> 0,
                       pchan |-> IF t.on_init = "TCH_F_PDCH" THEN "IPAC" ELSE "PDCH"])]

Mut_RetryPdch(t) ==
    IF t.on_init \in Dynamic /\ site.gprs THEN TxPdch([t EXCEPT !.ts = "WAIT_PDCH_ACT"], TRUE)
    ELSE [t EXCEPT !.ts = "UNUSED"]

\* ts_fsm_unused_onenter()
EnterUnused(t) ==
    CASE Waiting(t) # {} -> TsBorken([t EXCEPT !.ts = "UNUSED"])
      [] t.on_init \in Dynamic /\ site.gprs /\ t.allowed -> TxPdch([t EXCEPT !.ts = "WAIT_PDCH_ACT"], TRUE)
      [] OTHER -> [t EXCEPT !.ts = "UNUSED"]

Mut_IgnoreUnused(t, l, u) == u

\* TS_EV_LCHAN_UNUSED, when lchan l has gone from the state it has in t to UNUSED:
\* ts_count_active_lchans() counts the lchans of pchan_is only
LchanDone(t, l, u) ==
    IF /\ u.lchan[l].st = "UNUSED" /\ t.lchan[l].st # "UNUSED" /\ u.ts = "IN_USE"
       /\ \A k \in Subslots(u.is) : u.lchan[k].st = "UNUSED"
    THEN EnterUnused(u) ELSE u

LchanError(t, l) == LchanDone(t, l, TsError(t, l))
LchanReady(t, l) == LchanDone(t, l, TsReady(t, l))

\* One round of the first loop of ts_fsm_in_use_onenter(): the first type found decides
PickType(acc, l) ==
    LET r == acc.t.lchan[l]
        ok == r.type # "NONE" /\ Capable(acc.t.on_init, r.type)
    IN  CASE r.st = "UNUSED" -> acc
          [] ~ok /\ r.st = "WAIT_TS_READY" -> [acc EXCEPT !.t = LchanError(acc.t, l)]
          [] ~ok -> acc
          [] acc.type = "NONE" -> [acc EXCEPT !.type = r.type]
          [] acc.type # r.type -> [acc EXCEPT !.t = LchanError(acc.t, l)]
          [] OTHER -> acc

Mut_KeepPchan(t) ==
    LET u == [t EXCEPT !.ts = "IN_USE", !.allowed = TRUE]
    IN  IF Waiting(u) = {} THEN EnterUnused(u) ELSE InOrder(u, Waiting(u), LchanReady)

\* ts_fsm_in_use_onenter()
EnterInUse(t) ==
    LET p == InOrder([t |-> [t EXCEPT !.ts = "IN_USE", !.allowed = TRUE], type |-> "NONE"],
                     Lchans, PickType)
        u == IF p.t.on_init = "TCH_F_TCH_H_PDCH" THEN [p.t EXCEPT !.is = p.type] ELSE p.t
    IN  IF p.type = "NONE" THEN EnterUnused(p.t)   \* still IN_USE: no lchan was turned away
        ELSE InOrder(u, Waiting(u), LchanReady)

Mut_StayPdch(t) == [t EXCEPT !.ts = "PDCH", !.is = "PDCH"]
Mut_NoDeact(t) ==
    LET u == [t EXCEPT !.ts = "PDCH", !.is = "PDCH"]
    IN  IF Waiting(u) = {} THEN u ELSE EnterInUse(u)
Mut_DynPchan(t) == [t EXCEPT !.ts = "PDCH", !.is = t.on_init]

\* ts_fsm_pdch_onenter()
EnterPdch(t) ==
    LET u == [t EXCEPT !.ts = "PDCH", !.is = "PDCH"]
    IN  IF Waiting(u) = {} THEN u ELSE TxPdch([u EXCEPT !.ts = "WAIT_PDCH_DEACT"], FALSE)

\* TS_EV_RSL_READY in NOT_INITIALIZED
RslIsReady(t) ==
    LET u == [t EXCEPT !.allowed = TRUE, !.rsl = TRUE]
    IN  IF u.oml THEN EnterUnused(u) ELSE u

\* TS_EV_LCHAN_REQUESTED, after is_lchan_sane().  While NOT_INITIALIZED the timeslot
\* sends itself LCHAN_EV_TS_ERROR, which has the number of TS_EV_RSL_READY.
Requested(t, l) ==
    LET ready == t.lchan[l].type = TypeOf(t.is)
        sane  == ready \/ (t.on_init \in Dynamic /\ Capable(t.on_init, t.lchan[l].type))
    IN  CASE t.ts = "NOT_INITIALIZED" -> RslIsReady(t)
          [] t.ts # "IN_USE" /\ (t.ts = "BORKEN" \/ ~sane) -> LchanError(t, l)
          [] t.ts = "UNUSED" -> EnterInUse(t)
          [] t.ts = "WAIT_PDCH_ACT" -> t
          [] t.ts \in {"PDCH", "WAIT_PDCH_DEACT"} /\ ready -> TsBorken(t)
          [] t.ts = "PDCH" -> TxPdch([t EXCEPT !.ts = "WAIT_PDCH_DEACT"], FALSE)
          [] t.ts = "WAIT_PDCH_DEACT" -> t
          [] t.ts = "IN_USE" /\ ready -> LchanReady(t, l)
          [] OTHER -> LchanError(t, l)

-----------------------------------------------------------------------------
(* The steps of the program.                                               *)

Cur == [ts |-> ts, on_init |-> on_init, is |-> is, allowed |-> allowed, oml |-> oml,
        rsl |-> rsl, con |-> con, lchan |-> lchan, link |-> link, crash |-> crash]

Become(next) ==
    \E t \in {next} :
        /\ ts' = t.ts /\ on_init' = t.on_init /\ is' = t.is /\ allowed' = t.allowed
        /\ oml' = t.oml /\ rsl' = t.rsl /\ con' = t.con /\ lchan' = t.lchan /\ crash' = t.crash
        /\ link' = t.link /\ Len(t.link) <= MaxLink /\ UNCHANGED site

\* An event for lchan l, and what the timeslot does if that ends the use of it
LchanStep(l, t) == crash = "no" /\ Become(LchanDone(Cur, l, t)) /\ UNCHANGED air

\* ts_usable_as_pchan()
Usable(pchan) ==
    /\ ts \notin {"NOT_INITIALIZED", "BORKEN"}
    /\ CASE ts = "IN_USE" -> is = pchan
         [] Waiting(Cur) # {} ->
                lchan[CHOOSE l \in Waiting(Cur) : \A k \in Waiting(Cur) : l <= k].type = pchan
         [] OTHER -> Capable(on_init, pchan)

\* lchan_select_by_type() finds lchan l of this timeslot
Selects(type, l) ==
    /\ Usable(type)
    /\ l \in Subslots(type) /\ lchan[l].st = "UNUSED"
    /\ \A k \in Subslots(type) : k < l => lchan[k].st # "UNUSED"

\* An lchan is selected and activated; a channel mode that cannot be set up fails at once
Activate(l) ==
    \E type \in {"TCH_F", "TCH_H"}, for \in site.purpose, voice \in site.voice, good \in BOOLEAN :
        LET t == lchan_activate(Cur, l, type, for, voice)
        IN  /\ crash = "no" /\ Selects(type, l)
            /\ for = "MS" => ~voice
            /\ Become(IF good THEN StartRtp(Requested(t, l), l) ELSE LchanError(t, l))
            /\ UNCHANGED air

Timeout(l) == lchan[l].st \in LchanTimed /\ LchanStep(l, LchanTimeout(Cur, l))

\* The MS opens and closes data links; the radio link fails
OnRadio(l) == lchan[l].st \in {"WAIT_RLL_RTP_ESTABLISH", "ESTABLISHED", "WAIT_RLL_RTP_RELEASED"}
EstInd(l) == \E s \in site.sapi \ lchan[l].sapis : OnRadio(l) /\ LchanStep(l, EstablishInd(Cur, l, s))
RelInd(l) ==
    \E s \in lchan[l].sapis :
        lchan[l].st \in {"ESTABLISHED", "WAIT_RLL_RTP_RELEASED"} /\ LchanStep(l, ReleaseInd(Cur, l, s))

\* rsl_rx_conn_fail()
ConnFail(l) ==
    /\ OnRadio(l)
    /\ LchanStep(l, CASE lchan[l].conn = "none" -> lchan_release(Cur, l, TRUE)
                      [] lchan[l].conn = "freed" -> CrashIf(Cur, TRUE, "freed")
                      [] OTHER -> [Cur EXCEPT !.lchan[l].in_error = @ \/ lchan[l].own = "primary"])

\* The RTP stream
RtpIsReady(l) ==
    /\ lchan[l].rtp = "setup" /\ lchan[l].st = "WAIT_RLL_RTP_ESTABLISH"
    /\ LchanStep(l, RtpReady(Cur, l))

\* lchan_rtp_fail(), of which a timeout also sets in_error
RtpFails(l) ==
    \E timeout \in BOOLEAN :
        /\ lchan[l].rtp = "setup"
        /\ lchan[l].st \in {"WAIT_TS_READY", "WAIT_ACTIV_ACK", "WAIT_RLL_RTP_ESTABLISH"}
        /\ LchanStep(l, RtpGone([Cur EXCEPT !.lchan[l].in_error = @ \/ timeout], l))

RtpRolledBack(l) ==
    lchan[l].rtp = "rollback" /\ LchanStep(l, RtpGone([Cur EXCEPT !.lchan[l].rtp = "none"], l))

\* The conn of the lchan: gsm0408_rcvmsg() makes one for the first message of an MS
FirstL3(l) ==
    /\ lchan[l].st \in {"WAIT_RLL_RTP_ESTABLISH", "ESTABLISHED"} /\ lchan[l].conn = "none"
    /\ lchan[l].sapis # {}
    /\ LchanStep(l, [Cur EXCEPT !.lchan[l].conn = "live", !.lchan[l].own = "primary"])

\* gscon_change_primary_lchan()
Assigned(l) ==
    /\ lchan[l].st = "ESTABLISHED" /\ lchan[l].own = "new"
    /\ LchanStep(l, [Cur EXCEPT !.lchan[l].own = "primary",
                                !.lchan[l].rtp = IF @ = "ready" THEN "established" ELSE @])

NewLchanFails(l) == lchan[l].own = "new" /\ LchanStep(l, ResetNewLchan(Cur, l, FALSE))
Clear(l) == lchan[l].own = "primary" /\ LchanStep(l, ConnReleases(Cur, l))
ConnEnds(l) == lchan[l].conn = "live" /\ LchanStep(l, ConnFreed(Cur, l))

\* The VTY: lchan_act_deact ("deactivate") and lchan_set_borken
VtyDeactivate(l) ==
    /\ l \in Subslots(is) /\ lchan[l].st # "none" /\ ~lchan[l].requested
    /\ LchanStep(l, lchan_release(Cur, l, FALSE))
VtySetBorken(l) == site.debug /\ lchan[l].st = "UNUSED" /\ LchanStep(l, Change(Cur, l, "BORKEN"))
VtySetUnused(l) == site.debug /\ lchan[l].st = "BORKEN" /\ LchanStep(l, Change(Cur, l, "UNUSED"))

-----------------------------------------------------------------------------
(* The BTS and its links.                                                  *)

Mut_NoPchan(t) ==
    [t EXCEPT !.on_init = Config,
              !.lchan = [l \in Lchans |-> IF @[l].st = "none" THEN Cleared ELSE @[l]],
              !.is = "NONE"]

\* ts_setup_lchans()
SetupLchans(t) ==
    [t EXCEPT !.on_init = Config,
              !.lchan = [l \in Lchans |-> IF @[l].st = "none" THEN Cleared ELSE @[l]],
              !.is = CASE Config = "TCH_F_TCH_H_PDCH" -> "NONE"
                       [] Config = "TCH_F_PDCH" -> "TCH_F"
                       [] OTHER -> Config]

OmlReady ==
    LET t == SetupLchans([Cur EXCEPT !.allowed = TRUE, !.oml = TRUE])
    IN  /\ crash = "no" /\ ts = "NOT_INITIALIZED"
        /\ Become(IF rsl THEN EnterUnused(t) ELSE t)
        /\ UNCHANGED air

\* bootstrap_rsl(): RSL_READY is accepted while NOT_INITIALIZED only
RslUp ==
    LET t == [Cur EXCEPT !.con = TRUE]
    IN  /\ crash = "no" /\ ~con
        /\ Become(IF ts = "NOT_INITIALIZED" THEN RslIsReady(t) ELSE t)
        /\ UNCHANGED air

\* ipaccess_drop_oml() drops the RSL link as well, and the BTS starts over.  Of the
\* two links only the OML link is reported to the timeslot.
OmlDown ==
    LET t == [Cur EXCEPT !.oml = FALSE, !.con = FALSE, !.ts = "NOT_INITIALIZED", !.link = <<>>]
    IN  /\ crash = "no" /\ oml
        /\ Become([InOrder(t, Lchans, lchan_fsm_cleanup) EXCEPT !.is = "NONE", !.on_init = "NONE"])
        /\ air' = {}

\* S_L_INP_TEI_DN of the RSL link.  What was under way is lost, and the BTS drops its channels.
RslDown ==
    LET t == [Cur EXCEPT !.rsl = FALSE, !.con = FALSE, !.ts = "NOT_INITIALIZED",
                         !.is = "NONE", !.link = <<>>]
    IN  /\ crash = "no" /\ site.teiDown /\ con
        /\ Become(InOrder(t, Lchans, TsError))
        /\ air' = {}

TsTimeout ==
    /\ crash = "no" /\ ts \in {"WAIT_PDCH_ACT", "WAIT_PDCH_DEACT"}
    /\ Become(TsBorken(Cur)) /\ UNCHANGED air

\* The BTS takes the next request and its answer is dispatched: abis_rsl_rx_dchan()
Taken == [Cur EXCEPT !.link = Tail(link)]
Request(act, pchans) ==
    /\ crash = "no" /\ link # <<>>
    /\ Head(link).act = act /\ Head(link).pchan \in pchans
Chan == <<Head(link).pchan, Head(link).nr>>

Answer(t) == Become(LchanDone(Cur, Head(link).nr, t))

BtsActivates ==
    /\ Request(TRUE, {"TCH_F", "TCH_H"}) /\ Chan \notin air
    /\ \E told \in BOOLEAN : Answer(ActivAck(Taken, Head(link).nr, told))
    /\ air' = air \cup {Chan}

BtsRefuses ==
    /\ Request(TRUE, {"TCH_F", "TCH_H"})
    /\ Answer(ActivNack(Taken, Head(link).nr, Chan \in air))
    /\ UNCHANGED air

BtsReleases ==
    /\ Request(FALSE, {"TCH_F", "TCH_H"})
    /\ Answer(RelAck(Taken, Head(link).nr))
    /\ air' = air \ {Chan}

\* A request gets no answer
BtsIgnores == crash = "no" /\ link # <<>> /\ Become(Taken) /\ UNCHANGED air

PdchChan == IF on_init = "TCH_F_PDCH" THEN {"IPAC"} ELSE {"PDCH"}

PdchActAck ==
    /\ Request(TRUE, PdchChan)
    /\ Become(IF ts = "WAIT_PDCH_ACT" THEN EnterPdch(Taken) ELSE Taken)
    /\ air' = air \cup {<<"PDCH", 0>>}

PdchActNack ==
    /\ Request(TRUE, PdchChan)
    /\ Become(IF ts = "WAIT_PDCH_ACT" THEN EnterUnused(DropWaiting([Taken EXCEPT !.allowed = FALSE]))
                                      ELSE Taken)
    /\ UNCHANGED air

Mut_StillPdch ==
    /\ Request(FALSE, PdchChan)
    /\ Become(IF ts = "WAIT_PDCH_DEACT" THEN EnterInUse(Taken) ELSE Taken)
    /\ air' = air \ {<<"PDCH", 0>>}

PdchDeactAck ==
    /\ Request(FALSE, PdchChan)
    /\ Become(IF ts = "WAIT_PDCH_DEACT"
              THEN EnterInUse([Taken EXCEPT !.is = IF on_init = "TCH_F_PDCH" THEN "TCH_F" ELSE "NONE"])
              ELSE Taken)
    /\ air' = air \ {<<"PDCH", 0>>}

\* Only ip.access BTSs can refuse to deactivate the PDCH
PdchDeactNack ==
    /\ Request(FALSE, PdchChan \cap {"IPAC"})
    /\ Become(IF ts = "WAIT_PDCH_DEACT" THEN TsBorken(Taken) ELSE Taken)
    /\ UNCHANGED air

\* The program is started again
Restart ==
    /\ crash # "no"
    /\ ts' = "NOT_INITIALIZED" /\ on_init' = "NONE" /\ is' = "NONE"
    /\ allowed' = FALSE /\ oml' = FALSE /\ rsl' = FALSE /\ con' = FALSE /\ crash' = "no"
    /\ lchan' = [l \in Lchans |-> NoLchan]
    /\ link' = <<>> /\ air' = {} /\ UNCHANGED site

Bts == \/ BtsActivates \/ BtsRefuses \/ BtsReleases \/ BtsIgnores
       \/ PdchActAck \/ PdchActNack \/ PdchDeactAck \/ PdchDeactNack

Next ==
    \/ OmlReady \/ OmlDown \/ RslUp \/ RslDown \/ TsTimeout \/ Restart
    \/ BtsActivates \/ BtsRefuses \/ BtsReleases \/ BtsIgnores
    \/ PdchActAck \/ PdchActNack \/ PdchDeactAck \/ PdchDeactNack
    \/ \E l \in Lchans :
        \/ Activate(l) \/ Timeout(l) \/ EstInd(l) \/ RelInd(l) \/ ConnFail(l)
        \/ RtpIsReady(l) \/ RtpFails(l) \/ RtpRolledBack(l)
        \/ FirstL3(l) \/ Assigned(l) \/ NewLchanFails(l) \/ Clear(l) \/ ConnEnds(l)
        \/ VtyDeactivate(l) \/ VtySetBorken(l) \/ VtySetUnused(l)

Spec == Init /\ [][Next]_vars

\* The select loop fires every timer that stays armed, and the BTS reads its link
FairSpec == Spec /\ WF_vars(Bts) /\ \A l \in {0, 1} : WF_vars(l \in Lchans /\ Timeout(l))

-----------------------------------------------------------------------------
(* Properties.                                                             *)

\* An lchan that waits for its timeslot waits for one that is switching: no order of
\* PDCH answers, timeouts, releases and link losses leaves a waiter behind on a timeslot
\* that will not signal it (ts_fsm_in_use_onenter(), ts_fsm_error()).
NoLostWaiter ==
    \A l \in Lchans : lchan[l].st = "WAIT_TS_READY" => ts \in {"WAIT_PDCH_ACT", "WAIT_PDCH_DEACT"}

\* A timeslot IN_USE is used: the last lchan that leaves takes it out of IN_USE, so that
\* PDCH can come back (TS_EV_LCHAN_UNUSED in ts_fsm_in_use()).
InUseIsUsed == ts = "IN_USE" /\ crash = "no" => \E l \in Lchans : lchan[l].st # "UNUSED"

\* An lchan that carries traffic has the type its timeslot is switched to.
ActiveMatchesPchan ==
    \A l \in Lchans : crash = "no" /\ lchan[l].st \in {"WAIT_ACTIV_ACK", "WAIT_RLL_RTP_ESTABLISH", "ESTABLISHED"}
        => ts = "IN_USE" /\ lchan[l].type = is /\ l \in Subslots(is)

\* An lchan that can be selected again is not active in the BTS: whatever order acks,
\* late answers and timers come in, no channel is left on the air (lchan_fsm_borken(),
\* lchan_fsm_wait_rf_release_ack()).  This is so for channels an MS asked for.
UnusedIsOff == site.purpose = {"MS"} =>
    \A l \in Lchans, p \in {"TCH_F", "TCH_H"} : lchan[l].st = "UNUSED" => <<p, l>> \notin air

\* PDCH and circuit switched channels, if an MS asked for these, are never both active
\* in the BTS (ts_fsm_pdch_onenter(), ts_fsm_wait_pdch_deact()).
PdchAlone == site.purpose = {"MS"} /\ <<"PDCH", 0>> \in air => air = {<<"PDCH", 0>>}

\* A release that was asked for comes to an end, whatever state the lchan was in and whether
\* or not the BTS, the MS and the RTP stream answer: the lchan can be used again, or is set
\* aside as BORKEN (lchan_fsm_timeouts[], lchan_fsm_timer_cb()).
ReleaseEnds ==
    \A l \in {0, 1} : l \in Lchans /\ lchan[l].requested ~>
        crash # "no" \/ (l \in Lchans /\ lchan[l].st \in {"UNUSED", "BORKEN", "none"})

\* An unused timeslot that does not switch between TCH/F and TCH/H knows what it is: its
\* pchan_is survives losses of both links (ts_setup_lchans(), ts_fsm_allstate()).
UnusedKnowsPchan ==
    ts = "UNUSED" /\ ~site.teiDown => is = CASE Config = "TCH_F_TCH_H_PDCH" -> is
                            [] Config = "TCH_F_PDCH" -> "TCH_F"
                            [] OTHER -> Config

\* A timeslot and its lchans agree, whatever crosses what: nobody waits in vain for the timeslot,
\* it is in use while one of them uses it, it knows what it is, and traffic is of its kind.
TimeslotAgrees == TypeOK /\ NoLostWaiter /\ InUseIsUsed /\ UnusedKnowsPchan /\ ActiveMatchesPchan

\* What is on the air is what the BSC believes: nothing unused is active, and PDCH never is
\* beside a circuit switched channel.
AirMatches == UnusedIsOff /\ PdchAlone

\* Out of NOT_INITIALIZED, a timeslot has both links: OML_READY and RSL_READY were received
\* and neither link was lost since (ts_fsm_not_initialized(), ipaccess_drop_oml()).
UsableHasLink == ts \notin {"NOT_INITIALIZED", "BORKEN"} => con

\* After a PDCH ACT NACK the PDCH is not activated again before the timeslot was used or
\* its links were set up anew: no endless loop of requests and NACKs (pdch_act_allowed).
NackedOnce ==
    ~allowed => \A i \in DOMAIN link : ~(link[i].act /\ link[i].pchan \in {"PDCH", "IPAC"})

\* The release of an lchan, however it interleaves with the end of its conn, uses no
\* conn that was freed: gscon_release_lchan() leaves the lchan no way back to its conn.
ConnNotUsedFreed == crash # "freed"

\* Once the conn and the lchan have forgotten each other, a failure of the lchan is not
\* reported to the conn: lchan_on_activation_failure() checks it for a handover, though
\* not for an assignment.
ConnNotUsedNull == "ASSIGNMENT" \notin site.purpose => crash # "null"

\* Every channel number that is put into an RSL message exists: the OSMO_ASSERTs of
\* gsm_pchan2chan_nr() hold.
ChanNrExists == crash # "chan_nr"

\* A Channel Activation Ack that comes after the lchan was given up is answered by a
\* release, as lchan_fsm_borken() intends.
LateAckReleased ==
    [][\A l \in Lchans : lchan[l].st = "BORKEN" /\ <<is, l>> \in air' \ air
            => lchan'[l].st = "WAIT_RF_RELEASE_ACK"]_vars

=============================================================================
