------------------------------ MODULE Nanobts ------------------------------
(***************************************************************************)
(* Bringing up an ip.access style BTS over OML: the message queue and the  *)
(* message handlers of abis_nm.c, and the reactions to state changes and   *)
(* software reports in bts_ipaccess_nanobts.c.                             *)
(*                                                                         *)
(* The BSC has at most one message outstanding that wants an answer        *)
(* (abis_nm_pend); the others wait in bts->abis_queue, and nearly every    *)
(* message from the BTS lets the next one go.  The BTS asks for the        *)
(* activation of each managed object (MO) when it likes, answers in order, *)
(* and is external.                                                        *)
(***************************************************************************)
EXTENDS Integers, Sequences

CONSTANTS NbSites   \* the BTSs considered

NbMos == {"SITE_MANAGER", "BTS", "BASEB_TRANSC", "RADIO_CARRIER", "CHANNEL", "GPRS_NSE", "GPRS_CELL", "GPRS_NSVC"}
NbRequests == {"GET_ATTR", "SW_ACT_REQ_ACK", "ACTIVATE_SW", "SET_ATTR", "LOCK", "UNLOCK", "OPSTART", "RSL_CONNECT"}

\* mos: the MOs that ask for activation;  gprs: bts->gprs.mode is not NONE;  comb: verify_chan_comb()
\* accepts the timeslot's configuration;  nacks: the requests the BTS refuses;  links, locks, rsls:
\* bounds on how often the OML link comes up, the operator locks or unlocks the TRX, and the BTS opens RSL
NbSite == [mos : SUBSET NbMos, gprs : BOOLEAN, comb : BOOLEAN, nacks : SUBSET (NbRequests \X NbMos),
           links : Nat, locks : Nat, rsls : Nat]

ASSUME NbAssumption == NbSites \subseteq NbSite

VARIABLES
    nb_site,
    nb_oml,     \* bts->oml_link is set
    nb_rsl,     \* trx->rsl_link is set
    nb_drop,    \* oml_drop_link_timer is pending
    nb_rslto,   \* trx->rsl_connect_timeout is pending
    nb_queue,   \* bts->abis_queue
    nb_pend,    \* bts->abis_nm_pend
    nb_nm,      \* nm_state.operational and .availability of each MO
    nb_adm,     \* nm_state.administrative of each MO; "null" is 0
    nb_up,      \* what the BTS has sent and the BSC has not yet read
    nb_bts,     \* the BTS: how far each MO has come, the TRX's lock, and what arrived too early
    nb_wish,    \* what the operator last asked of the TRX
    nb_left     \* what is left of the bounds

nbVars == <<nb_site, nb_oml, nb_rsl, nb_drop, nb_rslto, nb_queue, nb_pend, nb_nm, nb_adm, nb_up, nb_bts, nb_wish, nb_left>>

NbMessages == NbRequests \X NbMos
NbReset == [oper |-> "NULL", avail |-> "POWER_OFF"]
NbFresh == [st |-> [m \in NbMos |-> "off"], attr |-> {}, early |-> {}, locked |-> FALSE, asked |-> FALSE]

NbTypeOK ==
    /\ nb_site \in NbSites
    /\ {nb_oml, nb_rsl, nb_drop, nb_rslto, nb_pend} \subseteq BOOLEAN
    /\ nb_queue \in Seq(NbMessages)
    /\ nb_nm \in [NbMos -> [oper : {"NULL", "DISABLED", "ENABLED"},
                            avail : {"POWER_OFF", "OFF_LINE", "DEPENDENCY", "OK"}]]
    /\ nb_adm \in [NbMos -> {"null", "locked", "unlocked"}]
    /\ nb_up \in Seq([mt : {"ANSWER", "NACK", "SW_ACT_REQ", "SW_ACTIVATED_REP", "DISABLED", "ENABLED"}, msg : NbMessages])
    /\ nb_bts \in [st : [NbMos -> {"off", "asked", "active", "on"}], attr : SUBSET NbMos,
                   early : SUBSET NbMos, locked : BOOLEAN, asked : BOOLEAN]
    /\ nb_wish \in {"locked", "unlocked"}
    /\ nb_left \in [links : Nat, locks : Nat, rsls : Nat]

\* gsm_bts_trx_alloc() unlocks the TRX; bts->abis_queue is empty
NbInit ==
    /\ nb_site \in NbSites
    /\ nb_oml = FALSE /\ nb_rsl = FALSE /\ nb_drop = FALSE /\ nb_rslto = FALSE
    /\ nb_queue = <<>> /\ nb_pend = FALSE
    /\ nb_nm = [m \in NbMos |-> NbReset]
    /\ nb_adm = [m \in NbMos |-> IF m = "RADIO_CARRIER" THEN "unlocked" ELSE "null"]
    /\ nb_up = <<>> /\ nb_bts = NbFresh /\ nb_wish = "unlocked"
    /\ nb_left = [links |-> nb_site.links, locks |-> nb_site.locks, rsls |-> nb_site.rsls]

-----------------------------------------------------------------------------
(* The queue, and what the handlers do, as functions of the state s.       *)

NbState == [oml |-> nb_oml, rsl |-> nb_rsl, drop |-> nb_drop, rslto |-> nb_rslto, queue |-> nb_queue, pend |-> nb_pend,
            nm |-> nb_nm, adm |-> nb_adm, up |-> nb_up, bts |-> nb_bts]

NbBecome(s) ==
    \E v \in {s} :
        /\ nb_oml' = v.oml /\ nb_rsl' = v.rsl /\ nb_drop' = v.drop /\ nb_rslto' = v.rslto
        /\ nb_queue' = v.queue /\ nb_pend' = v.pend /\ nb_nm' = v.nm /\ nb_adm' = v.adm
        /\ nb_up' = v.up /\ nb_bts' = v.bts
        /\ UNCHANGED nb_site

\* OBSC_NM_W_ACK_CB(): set by abis_nm_sendmsg(), not by abis_nm_sendmsg_direct()
WantsAck(msg) == msg[1] # "SW_ACT_REQ_ACK"

\* what an MO reports once its software is active
Availability == [m \in NbMos |-> CASE m \in {"SITE_MANAGER", "GPRS_NSVC"} -> "OFF_LINE"
                                   [] m \in {"BASEB_TRANSC", "RADIO_CARRIER"} -> "OK"
                                   [] OTHER -> "DEPENDENCY"]
NeedsAttr == NbMos \ {"SITE_MANAGER", "BASEB_TRANSC"}

\* the BTS takes a message: what it sends back, in order
Replies(s, msg) ==
    LET Item(mt) == [mt |-> mt, msg |-> msg] IN
    IF msg \in nb_site.nacks THEN <<Item("NACK")>>
    ELSE CASE msg[1] = "SW_ACT_REQ_ACK" -> <<>>
           [] msg[1] = "ACTIVATE_SW" -> <<Item("ANSWER"), Item("SW_ACTIVATED_REP"), Item("DISABLED")>>
           [] msg[1] = "OPSTART" /\ s.bts.st[msg[2]] = "active" -> <<Item("ANSWER"), Item("ENABLED")>>
           [] OTHER -> <<Item("ANSWER")>>

\* the BTS takes a message: what becomes of it
BtsTakes(bts, msg) ==
    IF msg \in nb_site.nacks THEN bts
    ELSE CASE msg[1] = "ACTIVATE_SW" -> [bts EXCEPT !.st[msg[2]] = "active"]
           [] msg[1] = "SET_ATTR" -> [bts EXCEPT !.attr = @ \cup {msg[2]}]
           [] msg[1] = "OPSTART" -> [bts EXCEPT !.st[msg[2]] = "on",
                                                !.early = IF msg[2] \in NeedsAttr \ bts.attr THEN @ \cup {msg[2]} ELSE @]
           [] msg[1] \in {"LOCK", "UNLOCK"} /\ msg[2] = "RADIO_CARRIER" -> [bts EXCEPT !.locked = (msg[1] = "LOCK")]
           [] msg[1] = "RSL_CONNECT" -> [bts EXCEPT !.asked = TRUE]
           [] OTHER -> bts

_abis_nm_sendmsg(s, msg) == [s EXCEPT !.up = @ \o Replies(s, msg), !.bts = BtsTakes(@, msg)]

\* abis_nm_queue_msg()
abis_nm_queue_msg(s, msg) ==
    IF s.queue = <<>> /\ ~s.pend THEN _abis_nm_sendmsg([s EXCEPT !.pend = WantsAck(msg)], msg)
    ELSE [s EXCEPT !.queue = Append(@, msg)]

\* the messages of msgs are sent to m one after the other
RECURSIVE SendAll(_, _, _)
SendAll(s, mts, m) == IF mts = <<>> THEN s ELSE SendAll(abis_nm_queue_msg(s, <<Head(mts), m>>), Tail(mts), m)

Mut_abis_nm_queue_send_next(s) ==
    IF s.queue = <<>> THEN s
    ELSE _abis_nm_sendmsg([s EXCEPT !.queue = Tail(@), !.pend = WantsAck(Head(s.queue))], Head(s.queue))

Mut_abis_nm_queue_send_next_pend(s) ==
    IF s.queue = <<>> THEN [s EXCEPT !.pend = FALSE]
    ELSE _abis_nm_sendmsg([s EXCEPT !.queue = Tail(@), !.pend = FALSE], Head(s.queue))

\* abis_nm_queue_send_next(): up to and including the first message that wants an answer
RECURSIVE abis_nm_queue_send_next(_)
abis_nm_queue_send_next(s) ==
    IF s.queue = <<>> THEN [s EXCEPT !.pend = FALSE]
    ELSE LET t == _abis_nm_sendmsg([s EXCEPT !.queue = Tail(@)], Head(s.queue))
         IN  IF WantsAck(Head(s.queue)) THEN [t EXCEPT !.pend = TRUE] ELSE abis_nm_queue_send_next(t)

\* ipaccess_drop_oml_deferred()
ipaccess_drop_oml_deferred(s) == IF s.oml THEN [s EXCEPT !.drop = TRUE] ELSE s

\* inp_sig_cb() of osmo_bsc_main.c on S_L_INP_TEI_DN: gsm_bts_mo_reset(), abis_nm_clear_queue()
TeiDown(s) == [s EXCEPT !.nm = [m \in NbMos |-> NbReset], !.queue = <<>>, !.pend = FALSE]

\* ipaccess_drop_rsl(): the timeslots and the paging requests are the business of other modules
NbDropRsl(s) == IF s.rsl THEN TeiDown([s EXCEPT !.rsl = FALSE]) ELSE s

Mut_NbDropOml(s) ==
    IF ~s.oml THEN s
    ELSE TeiDown([NbDropRsl(s) EXCEPT !.oml = FALSE, !.up = <<>>, !.bts = NbFresh])

\* ipaccess_drop_oml(): the BTS restarts when it has lost its link
NbDropOml(s) ==
    IF ~s.oml THEN [s EXCEPT !.drop = FALSE]
    ELSE TeiDown([NbDropRsl(s) EXCEPT !.oml = FALSE, !.drop = FALSE, !.up = <<>>, !.bts = NbFresh])

Mut_nm_statechg_event(s, m, new) ==
    LET set_attr == [BTS |-> <<"UNLOCK", "OPSTART", "SET_ATTR">>]
    IN  IF m = "BTS" /\ new.avail = "DEPENDENCY" THEN SendAll(s, set_attr.BTS, m) ELSE s

\* abis_nm_set_channel_attr(), whose failure makes nm_statechg_event() give the BTS up
abis_nm_set_channel_attr(s) ==
    IF nb_site.comb THEN SendAll(s, <<"SET_ATTR", "UNLOCK", "OPSTART">>, "CHANNEL") ELSE ipaccess_drop_oml_deferred(s)

\* nm_statechg_event() on S_NM_STATECHG_OPER
nm_statechg_event(s, m, new) ==
    CASE m = "SITE_MANAGER" ->
           IF new \in {[oper |-> "ENABLED", avail |-> "OK"], [oper |-> "DISABLED", avail |-> "OFF_LINE"]}
           THEN SendAll(s, <<"OPSTART">>, m) ELSE s
      [] m = "BTS" ->
           IF new.avail = "DEPENDENCY" THEN SendAll(s, <<"SET_ATTR", "UNLOCK", "OPSTART">>, m) ELSE s
      [] m = "CHANNEL" ->
           IF new = [oper |-> "DISABLED", avail |-> "DEPENDENCY"] THEN abis_nm_set_channel_attr(s) ELSE s
      [] m = "RADIO_CARRIER" ->
           IF new = [oper |-> "DISABLED", avail |-> "OK"] THEN SendAll(s, <<"OPSTART">>, m) ELSE s
      [] m = "GPRS_NSE" ->
           IF nb_site.gprs /\ new.avail = "DEPENDENCY" THEN SendAll(s, <<"SET_ATTR", "OPSTART">>, m) ELSE s
      [] m = "GPRS_CELL" ->
           IF nb_site.gprs /\ new.avail = "DEPENDENCY"
           THEN SendAll(SendAll(s, <<"SET_ATTR", "OPSTART", "UNLOCK">>, m), <<"UNLOCK">>, "GPRS_NSE") ELSE s
      [] m = "GPRS_NSVC" ->
           IF nb_site.gprs /\ new.avail \in {"OFF_LINE", "DEPENDENCY"}
           THEN SendAll(s, <<"SET_ATTR", "OPSTART", "UNLOCK">>, m) ELSE s
      [] OTHER -> s

\* abis_nm_ipaccess_rsl_connect(): the timer runs once the request is sent or queued
abis_nm_ipaccess_rsl_connect(s, m) == [SendAll(s, <<"RSL_CONNECT">>, m) EXCEPT !.rslto = TRUE]

Mut_sw_activ_rep(s, m) ==
    IF m = "RADIO_CARRIER" THEN SendAll(s, <<"SET_ATTR", "UNLOCK", "OPSTART">>, m) ELSE s

\* sw_activ_rep()
sw_activ_rep(s, m) ==
    CASE m = "BASEB_TRANSC" -> abis_nm_ipaccess_rsl_connect(SendAll(s, <<"UNLOCK", "OPSTART">>, m), m)
      [] m = "RADIO_CARRIER" ->
           SendAll(s, <<"SET_ATTR", IF s.adm[m] = "locked" THEN "LOCK" ELSE "UNLOCK", "OPSTART">>, m)
      [] OTHER -> s

\* abis_nm_rx_statechg_rep(): the handlers run before the new state is stored
abis_nm_rx_statechg_rep(s, m, new) ==
    IF new = s.nm[m] THEN s ELSE [nm_statechg_event(s, m, new) EXCEPT !.nm[m] = new]

\* abis_nm_rx_sw_act_req(): acknowledged at once, and activated
abis_nm_rx_sw_act_req(s, m) == SendAll(s, <<"SW_ACT_REQ_ACK", "ACTIVATE_SW">>, m)

Mut_abis_nm_rx_chg_adm_state_ack(s, msg) == [s EXCEPT !.adm[msg[2]] = msg[1]]

\* abis_nm_rx_chg_adm_state_ack(): nm_statechg_event() ignores S_NM_STATECHG_ADM
abis_nm_rx_chg_adm_state_ack(s, msg) == [s EXCEPT !.adm[msg[2]] = IF msg[1] = "LOCK" THEN "locked" ELSE "unlocked"]

\* oml_msg_nack()
oml_msg_nack(s, msg) == IF msg[1] = "GET_ATTR" THEN s ELSE ipaccess_drop_oml_deferred(s)

\* abis_nm_rcvmsg_report(): a report lets no message go
abis_nm_rcvmsg_report(s, item) ==
    LET m == item.msg[2]
    IN  CASE item.mt = "SW_ACTIVATED_REP" -> sw_activ_rep(s, m)
          [] item.mt = "DISABLED" -> abis_nm_rx_statechg_rep(s, m, [oper |-> "DISABLED", avail |-> Availability[m]])
          [] item.mt = "ENABLED" -> abis_nm_rx_statechg_rep(s, m, [oper |-> "ENABLED", avail |-> "OK"])

\* abis_nm_rcvmsg_fom() of what is no report.  The answers to ACTIVATE SW go to the software download, which
\* is not under way, and let no message go.
abis_nm_rcvmsg_fom(s, item) ==
    CASE item.mt = "SW_ACT_REQ" -> abis_nm_queue_send_next(abis_nm_rx_sw_act_req(s, item.msg[2]))
      [] item.mt \in {"ANSWER", "NACK"} /\ item.msg[1] = "ACTIVATE_SW" -> s
      [] item.mt = "NACK" -> abis_nm_queue_send_next(oml_msg_nack(s, item.msg))
      [] item.mt = "ANSWER" /\ item.msg[1] \in {"LOCK", "UNLOCK"} ->
             abis_nm_queue_send_next(abis_nm_rx_chg_adm_state_ack(s, item.msg))
      [] OTHER -> abis_nm_queue_send_next(s)

\* abis_nm_rx_ipacc(): a refusal (of the attributes of a GPRS MO, of the RSL connection) is only logged
abis_nm_rx_ipacc(s, item) == abis_nm_queue_send_next([s EXCEPT !.rslto = @ /\ item.msg[1] # "RSL_CONNECT"])

\* the messages of ip.access: abis_nm_rcvmsg_manuf()
Manufacturer(msg) ==
    msg[1] = "RSL_CONNECT" \/ (msg[1] = "SET_ATTR" /\ msg[2] \in {"GPRS_NSE", "GPRS_CELL", "GPRS_NSVC"})

\* abis_nm_rcvmsg()
abis_nm_rcvmsg(s, item) ==
    CASE item.mt \in {"SW_ACTIVATED_REP", "DISABLED", "ENABLED"} -> abis_nm_rcvmsg_report(s, item)
      [] item.mt \in {"ANSWER", "NACK"} /\ Manufacturer(item.msg) -> abis_nm_rx_ipacc(s, item)
      [] OTHER -> abis_nm_rcvmsg_fom(s, item)

-----------------------------------------------------------------------------
(* The steps.                                                              *)

\* inp_sig_cb() of osmo_bsc_main.c on S_L_INP_TEI_UP of an OML link
TeiUp(s) == SendAll(SendAll(s, <<"GET_ATTR">>, "BTS"), <<"GET_ATTR">>, "BASEB_TRANSC")

\* ipaccess_sign_link_up() for OML
NbOmlUp ==
    /\ nb_left.links > 0
    /\ nb_left' = [nb_left EXCEPT !.links = @ - 1]
    /\ NbBecome(TeiUp([NbDropOml(NbState) EXCEPT !.oml = TRUE]))
    /\ UNCHANGED nb_wish

\* ipaccess_sign_link_up() for RSL
NbRslUp ==
    /\ nb_oml /\ nb_bts.asked /\ nb_left.rsls > 0
    /\ nb_left' = [nb_left EXCEPT !.rsls = @ - 1]
    /\ NbBecome([NbDropRsl(NbState) EXCEPT !.rsl = TRUE])
    /\ UNCHANGED nb_wish

\* ipaccess_sign_link_down()
NbLinkDown ==
    /\ nb_oml /\ nb_left.links > 0
    /\ NbBecome([NbDropOml(NbState) EXCEPT !.rslto = @ /\ nb_adm["RADIO_CARRIER"] # "unlocked"])
    /\ UNCHANGED <<nb_wish, nb_left>>

\* ipaccess_drop_oml_deferred_cb()
NbDeferredDrop ==
    /\ nb_drop
    /\ NbBecome(NbDropOml(NbState))
    /\ UNCHANGED <<nb_wish, nb_left>>

\* rsl_connect_timeout(): nobody in the BSC listens to S_NM_IPACC_NACK
NbRslTimeout ==
    /\ nb_rslto
    /\ NbBecome([NbState EXCEPT !.rslto = FALSE])
    /\ UNCHANGED <<nb_wish, nb_left>>

\* gsm_trx_lock_rf()
gsm_trx_lock_rf(locked) ==
    /\ nb_left.locks > 0
    /\ nb_left' = [nb_left EXCEPT !.locks = @ - 1]
    /\ nb_wish' = IF locked THEN "locked" ELSE "unlocked"
    /\ NbBecome(IF nb_oml THEN SendAll(NbState, <<IF locked THEN "LOCK" ELSE "UNLOCK">>, "RADIO_CARRIER")
                ELSE [NbState EXCEPT !.adm["RADIO_CARRIER"] = IF locked THEN "locked" ELSE "unlocked"])

\* the BTS asks for the activation of an MO
NbAsk(m) ==
    /\ nb_oml /\ m \in nb_site.mos /\ nb_bts.st[m] = "off"
    /\ NbBecome([NbState EXCEPT !.bts.st[m] = "asked",
                                !.up = Append(@, [mt |-> "SW_ACT_REQ", msg |-> <<"ACTIVATE_SW", m>>])])
    /\ UNCHANGED <<nb_wish, nb_left>>

\* abis_nm_rcvmsg(), of the next message
NbReceive ==
    /\ nb_oml /\ nb_up # <<>>
    /\ NbBecome(abis_nm_rcvmsg([NbState EXCEPT !.up = Tail(@)], Head(nb_up)))
    /\ UNCHANGED <<nb_wish, nb_left>>

NbNext ==
    \/ NbOmlUp
    \/ NbRslUp
    \/ NbLinkDown
    \/ NbDeferredDrop
    \/ NbRslTimeout
    \/ \E locked \in BOOLEAN : gsm_trx_lock_rf(locked)
    \/ \E m \in NbMos : NbAsk(m)
    \/ NbReceive

\* the BTS delivers what it has sent and asks for its MOs, and the timer of the deferred drop runs
NbFairness ==
    /\ WF_nbVars(NbReceive) /\ WF_nbVars(NbDeferredDrop)
    /\ \A m \in NbMos : WF_nbVars(NbAsk(m))

NbSpec == NbInit /\ [][NbNext]_nbVars /\ NbFairness

-----------------------------------------------------------------------------
(* Properties.                                                             *)

\* A message waits in the queue only while the answer to another one is outstanding, so that
\* there is something that will let it go (abis_nm_queue_msg(), abis_nm_queue_send_next()).
NbQueueWaits == nb_queue # <<>> => nb_oml /\ nb_pend

\* No MO is started before it has been given its attributes, whatever the queue holds
\* when the software and state reports of several MOs arrive.
NbAttributesFirst == nb_bts.early = {}

\* The timer of a deferred drop never outlives the link it is to drop, so that it
\* cannot take down the link of a BTS that has come back (ipaccess_drop_oml()).
NbDropHasLink == nb_drop => nb_oml

\* Nothing stays in the queue for ever, although the answers to ACTIVATE SW and the
\* reports let no message go: each is sent, or dropped with the link.
NbQueueDrains == (nb_queue # <<>>) ~> (nb_queue = <<>>)

\* what the BTS has to do, and what was done to it
NbQuiet == nb_oml /\ nb_up = <<>> /\ \A m \in nb_site.mos : nb_bts.st[m] # "off"

\* When the BTS has nothing more to say, each of its MOs has been started, unless
\* it refused something, its configuration is wrong or its RSL link was opened twice.
NbAllStarted ==
    NbQuiet /\ nb_site.nacks = {} /\ nb_site.comb /\ nb_site.gprs /\ nb_site.rsls < 2
        => /\ nb_queue = <<>> /\ ~nb_pend
           /\ \A m \in nb_site.mos : nb_bts.st[m] = "on" /\ (nb_left.rsls < nb_site.rsls \/ nb_nm[m].oper = "ENABLED")

\* The bring-up of a nanoBTS keeps its order whatever crosses it: the queue waits only for answers,
\* attributes come before OPSTART, a drop hits the link it was meant for, and no MO is forgotten.
NbSafe == NbTypeOK /\ NbQueueWaits /\ NbAttributesFirst /\ NbDropHasLink /\ NbAllStarted

\* "make sure that on start a TRX remains locked" (sw_activ_rep()): when everything has
\* been answered, the TRX is locked or not as the operator last asked.
NbLockKept ==
    NbQuiet /\ nb_bts.st["RADIO_CARRIER"] = "on" => nb_bts.locked = (nb_wish = "locked")
=============================================================================
