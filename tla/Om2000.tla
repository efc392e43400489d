------------------------------- MODULE Om2000 -------------------------------
(***************************************************************************)
(* Bringing up an Ericsson RBS2000 over OM2000 (abis_om2000.c,             *)
(* bts_ericsson_rbs2000.c, abis_om2000_vty.c).                             *)
(*                                                                         *)
(* When the OML link comes up an FSM of the BTS is started.  It starts an  *)
(* FSM for each managed object (MO) of the BTS in turn and then one for    *)
(* each TRX, which does the same for the MOs of the TRX and its timeslots. *)
(* An FSM tells its parent that it has ended, never how.  A new link       *)
(* starts a new BTS FSM next to whatever is left of the one before it: the *)
(* FSMs of one bring-up are a "chain".                                     *)
(*                                                                         *)
(* The RBS is external.  It remembers the last request for each MO, and    *)
(* its answers come in any order between MOs.                              *)
(***************************************************************************)
EXTENDS Integers

CONSTANTS
    OmSites,    \* the RBSs considered
    OmNumTs,    \* timeslots of a TRX: ARRAY_SIZE(trx->ts)
    OmMaxChain  \* bound on the times the OML link comes up

\* trx: bts->num_trx;  pchan: pchan_from_config of the timeslots;  altc: use_superchannel;
\* groups: the MOs that have connection groups to configure;  vty: the operator uses the VTY;
\* refuses: the RBS may refuse a request;  links, fires: bounds on the times the OML link comes
\* up and on how often a timer fires or the operator sends a request
OmSite == [trx : 1..2, pchan : {"CCCH_SDCCH4", "TCH_F", "TCH_F_PDCH", "TCH_F_TCH_H_PDCH"},
           altc : BOOLEAN, groups : SUBSET {"CON", "IS"}, vty : BOOLEAN,
           refuses : BOOLEAN, links : 1..OmMaxChain, fires : Nat]

ASSUME OmAssumption == OmSites \subseteq OmSite /\ OmNumTs \in 1..8 /\ OmMaxChain \in Nat

VARIABLES
    om_site,    \* the member of OmSites this is
    om_chain,   \* the bring-ups: the states of their BTS, TRX and MO FSMs
    om_fsm,     \* mo->fsm: the chain whose FSM it is, or 0
    om_addr,    \* the MOs whose mo->addr has been filled in
    om_oper,    \* the MOs whose nm_state.operational is enabled
    om_altc,    \* the E1 line is in alternative (superchannel) mode
    om_due,     \* what the RBS has yet to answer, for each MO
    om_clean,   \* nothing has gone wrong so far
    om_fires    \* how often a timer has fired or the operator has sent a request

omVars == <<om_site, om_chain, om_fsm, om_addr, om_oper, om_altc, om_due, om_clean, om_fires>>

OmChains == 1..OmMaxChain
TrxMos(t) == {<<c, t, 0>> : c \in {"TRXC", "TX", "RX"}} \cup {<<"TS", t, n>> : n \in 0..OmNumTs - 1}
BtsMos == {<<c, 0, 0>> : c \in {"CF", "TF", "CON", "IS"}}
AllMos == BtsMos \cup TrxMos(0) \cup TrxMos(1)
Mos(site) == BtsMos \cup UNION {TrxMos(t) : t \in 0..site.trx - 1}
NoMo == <<"none", 0, 0>>

MoStates == {"WAIT_CONN_COMPL", "WAIT_RES_COMPL", "WAIT_START_ACCEPT", "WAIT_START_RES", "WAIT_CFG_ACCEPT",
             "WAIT_CFG_RES", "WAIT_ENABLE_ACCEPT", "WAIT_ENABLE_RES", "WAIT_OPINFO_ACCEPT"}
TrxStates == {"WAIT_TRXC", "WAIT_TX", "WAIT_RX", "WAIT_TS", "ERROR"}
BtsStates == {"WAIT_CF", "WAIT_TF", "WAIT_CON", "WAIT_IS", "WAIT_TRX", "DONE", "ERROR"}
Awaited == [WAIT_CF |-> "CF", WAIT_TF |-> "TF", WAIT_CON |-> "CON", WAIT_IS |-> "IS",
            WAIT_TRXC |-> "TRXC", WAIT_TX |-> "TX", WAIT_RX |-> "RX", WAIT_TS |-> "TS"]
Requests == {"CONNECT", "RESET", "START", "START_RES", "CFG", "CFG_RES", "ENABLE", "ENABLE_RES", "OP_INFO"}

\* st: the state of the MO FSM of mo, the TRX FSM and the BTS FSM ("none": there is no such FSM)
ChainType == [mo : AllMos \cup {NoMo}, st : MoStates \cup {"none"},
              trx : TrxStates \cup {"none"}, next_ts : 0..OmNumTs,
              bts : BtsStates \cup {"none"}, next_trx : 0..2]
NoChain == [mo |-> NoMo, st |-> "none", trx |-> "none", next_ts |-> 0, bts |-> "none", next_trx |-> 0]

OmTypeOK ==
    /\ om_site \in OmSites
    /\ om_chain \in [OmChains -> ChainType]
    /\ om_fsm \in [AllMos -> {0} \cup OmChains]
    /\ om_addr \subseteq AllMos /\ om_oper \subseteq AllMos
    /\ om_due \in [AllMos -> Requests \cup {"none"}]
    /\ {om_altc, om_clean} \subseteq BOOLEAN /\ om_fires \in Nat

OmInit ==
    /\ om_site \in OmSites
    /\ om_chain = [c \in OmChains |-> NoChain]
    /\ om_fsm = [m \in AllMos |-> 0]
    /\ om_addr = {} /\ om_oper = {} /\ om_altc = FALSE
    /\ om_due = [m \in AllMos |-> "none"] /\ om_clean = TRUE /\ om_fires = 0

-----------------------------------------------------------------------------
(* What the FSMs do, as functions of the state s.                          *)

OmState == [chain |-> om_chain, fsm |-> om_fsm, addr |-> om_addr,
            oper |-> om_oper, altc |-> om_altc, due |-> om_due, clean |-> om_clean]

OmBecome(s) ==
    \E v \in {s} :
        /\ om_chain' = v.chain /\ om_fsm' = v.fsm /\ om_addr' = v.addr /\ om_oper' = v.oper
        /\ om_altc' = v.altc /\ om_due' = v.due /\ om_clean' = v.clean
        /\ UNCHANGED om_site

\* mo->addr.class, which is 0 until om2k_mo_init() has set it
Class(s, m) == IF m \in s.addr THEN m[1] ELSE "none"

\* ts2comb(): the channel combination, 0 if there is none
Comb(pchan) ==
    LET pchan_is == CASE pchan = "TCH_F_TCH_H_PDCH" -> "NONE"       \* ts_setup_lchans()
                      [] pchan = "TCH_F_PDCH" -> "TCH_F"
                      [] OTHER -> pchan
    IN  IF pchan = "TCH_F_PDCH" THEN 0
        ELSE CASE pchan_is = "CCCH_SDCCH4" -> 5 [] pchan_is = "TCH_F" -> 8 [] OTHER -> 0

\* abis_om2k_sendmsg(): a message for an MO without an address reaches nothing.  The RBS owes one
\* answer for each MO, that to the last request.  The answer for an MO without an FSM is not
\* kept: abis_om2k_rcvmsg() drops it, and an FSM made before it comes sends a request of its own
Tx(s, m, req) == IF m \in s.addr /\ s.fsm[m] # 0 THEN [s EXCEPT !.due[m] = req] ELSE s

\* mo2nm_state(): TX and RX have none
HasNmState(s, m) == m \in s.addr /\ m[1] \notin {"TX", "RX"}

update_op_state(s, m, up) ==
    IF HasNmState(s, m) THEN [s EXCEPT !.oper = IF up THEN @ \cup {m} ELSE @ \ {m}] ELSE s

\* abis_om2k_tx_op_info(): the state is updated here
TxOpInfo(s, m, up) == Tx(update_op_state(s, m, up), m, "OP_INFO")

\* abis_om2k_tx_is_conf_req(), abis_om2k_tx_con_conf_req(): without groups nothing is sent
TxGroupConf(s, m) == IF m[1] \notin om_site.groups THEN s ELSE Tx(s, m, "CFG")

\* abis_om2k_tx_ts_conf_req(): the RBS looks at the channel combination in it
TxTsConf(s, m) == Tx(s, m, "CFG")

\* abis_om2k_tx_rx_conf_req(), abis_om2k_tx_tx_conf_req(), abis_om2k_tx_tf_conf_req()
TxPlainConf(s, m) == Tx(s, m, "CFG")

TxConf(s, m) ==
    CASE m[1] \in {"CON", "IS"} -> TxGroupConf(s, m)
      [] m[1] = "TS" -> TxTsConf(s, m)
      [] OTHER -> TxPlainConf(s, m)

InMoState(s, c, st) == [s EXCEPT !.chain[c].st = st]

\* om2k_mo_st_init(): some MOs need not be connected, the CF not even reset
om2k_mo_st_init(s, c, m) ==
    CASE Class(s, m) = "CF" -> Tx(InMoState(s, c, "WAIT_START_ACCEPT"), m, "START")
      [] Class(s, m) = "TRXC" -> Tx(InMoState(s, c, "WAIT_RES_COMPL"), m, "RESET")
      [] OTHER -> Tx(InMoState(s, c, "WAIT_CONN_COMPL"), m, "CONNECT")

\* om2k_mo_fsm_start()
om2k_mo_fsm_start(s, c, m) == om2k_mo_st_init([s EXCEPT !.chain[c].mo = m, !.fsm[m] = c], c, m)

\* om2k_trx_fsm_start(), om2k_trx_s_init()
om2k_trx_fsm_start(s, c) ==
    LET t == s.chain[c].next_trx
    IN  om2k_mo_fsm_start([s EXCEPT !.chain[c].next_trx = t + 1, !.chain[c].trx = "WAIT_TRXC"],
                          c, <<"TRXC", t, 0>>)

\* The BTS FSM is told that its child has ended: om2k_bts_s_wait_cf() to om2k_bts_s_wait_trx()
BtsChildEnded(s, c) ==
    LET bts == s.chain[c].bts
        Next(st, m) == om2k_mo_fsm_start([s EXCEPT !.chain[c].bts = st], c, m)
    IN  CASE bts = "WAIT_CF" -> Next("WAIT_TF", <<"TF", 0, 0>>)
          [] bts = "WAIT_TF" -> Next("WAIT_CON", <<"CON", 0, 0>>)
          [] bts = "WAIT_CON" -> Next("WAIT_IS", <<"IS", 0, 0>>)
          [] bts = "WAIT_IS" ->
                 om2k_trx_fsm_start([s EXCEPT !.chain[c].bts = "WAIT_TRX", !.chain[c].next_trx = 0], c)
          [] bts = "WAIT_TRX" ->
                 IF s.chain[c].next_trx < om_site.trx THEN om2k_trx_fsm_start(s, c)
                 ELSE [s EXCEPT !.chain[c].bts = "DONE"]
          [] OTHER -> s                     \* the event is not allowed in this state

Mut_om2k_trx_s_wait_ts(s, c) ==
    LET n == s.chain[c].next_ts
    IN  IF n <= OmNumTs
        THEN om2k_mo_fsm_start([s EXCEPT !.chain[c].next_ts = n + 1], c, <<"TS", s.chain[c].next_trx - 1, n>>)
        ELSE BtsChildEnded([s EXCEPT !.chain[c].trx = "none"], c)

\* om2k_trx_s_wait_ts(), om2k_trx_s_done_onenter()
om2k_trx_s_wait_ts(s, c) ==
    LET n == s.chain[c].next_ts
    IN  IF n < OmNumTs
        THEN om2k_mo_fsm_start([s EXCEPT !.chain[c].next_ts = n + 1], c, <<"TS", s.chain[c].next_trx - 1, n>>)
        ELSE BtsChildEnded([s EXCEPT !.chain[c].trx = "none"], c)

Mut_TrxChildEnded(s, c) ==
    LET t == s.chain[c].next_trx - 1
        trx == s.chain[c].trx
        Next(st, class) == om2k_mo_fsm_start([s EXCEPT !.chain[c].trx = st], c, <<class, t, 0>>)
    IN  CASE trx = "WAIT_TRXC" -> Next("WAIT_TX", "TX")
          [] trx = "WAIT_TX" -> Next("WAIT_RX", "TX")
          [] trx = "WAIT_RX" ->
                 om2k_trx_s_wait_ts([s EXCEPT !.chain[c].trx = "WAIT_TS", !.chain[c].next_ts = 0], c)
          [] trx = "WAIT_TS" -> om2k_trx_s_wait_ts(s, c)
          [] OTHER -> s

\* The TRX FSM is told that its child has ended: om2k_trx_s_wait_trxc() to om2k_trx_s_wait_ts()
TrxChildEnded(s, c) ==
    LET t == s.chain[c].next_trx - 1
        trx == s.chain[c].trx
        Next(st, class) == om2k_mo_fsm_start([s EXCEPT !.chain[c].trx = st], c, <<class, t, 0>>)
    IN  CASE trx = "WAIT_TRXC" -> Next("WAIT_TX", "TX")
          [] trx = "WAIT_TX" -> Next("WAIT_RX", "RX")
          [] trx = "WAIT_RX" ->
                 om2k_trx_s_wait_ts([s EXCEPT !.chain[c].trx = "WAIT_TS", !.chain[c].next_ts = 0], c)
          [] trx = "WAIT_TS" -> om2k_trx_s_wait_ts(s, c)
          [] OTHER -> s

Mut_MoEnd(s, c) ==
    LET u == [s EXCEPT !.due[s.chain[c].mo] = "none", !.chain[c].mo = NoMo, !.chain[c].st = "none"]
    IN  IF u.chain[c].trx = "none" THEN BtsChildEnded(u, c) ELSE TrxChildEnded(u, c)

\* om2k_mo_s_done_onenter(), om2k_mo_s_error_onenter(): mo->fsm is cleared whatever it is
MoEnd(s, c) ==
    LET u == [s EXCEPT !.fsm[s.chain[c].mo] = 0, !.due[s.chain[c].mo] = "none", !.chain[c].mo = NoMo, !.chain[c].st = "none"]
    IN  IF u.chain[c].trx = "none" THEN BtsChildEnded(u, c) ELSE TrxChildEnded(u, c)

Mut_om2k_mo_st_wait_start_res(s, c) ==
    LET m == s.chain[c].mo
    IN  CASE Class(s, m) = "CF" -> TxOpInfo(InMoState(s, c, "WAIT_OPINFO_ACCEPT"), m, TRUE)
          [] Class(s, m) = "TRXC" -> MoEnd(s, c)
          [] OTHER -> TxConf(InMoState(s, c, "WAIT_CFG_ACCEPT"), m)

om2k_mo_st_wait_start_res(s, c) ==
    LET m == s.chain[c].mo
    IN  CASE Class(s, m) \in {"CF", "TRXC"} -> TxOpInfo(InMoState(s, c, "WAIT_OPINFO_ACCEPT"), m, TRUE)
          [] OTHER -> TxConf(InMoState(s, c, "WAIT_CFG_ACCEPT"), m)

\* om2k_mo_st_wait_enable_accept(): the superchannel is switched on when the IS is
om2k_mo_st_wait_enable_accept(s, c, msg) ==
    IF msg = "ENABLE_REQ_REJ" THEN MoEnd(s, c)
    ELSE InMoState([s EXCEPT !.altc = @ \/ (Class(s, s.chain[c].mo) = "IS" /\ om_site.altc)],
                   c, "WAIT_ENABLE_RES")

\* om2k_is_states[].in_event_mask, with om2k_mo_fsm_recvmsg(): the messages each state takes
Takes(st) ==
    CASE st = "WAIT_CONN_COMPL" -> {"CONNECT_COMPL", "CONNECT_REJ"}
      [] st = "WAIT_RES_COMPL" -> {"RESET_COMPL", "RESET_REJ"}
      [] st = "WAIT_START_ACCEPT" -> {"START_REQ_ACK", "START_REQ_REJ"}
      [] st = "WAIT_START_RES" -> {"START_RES"}
      [] st = "WAIT_CFG_ACCEPT" -> {"CONF_REQ_ACK"}
      [] st = "WAIT_CFG_RES" -> {"CONF_RES_OK", "CONF_RES_BAD"}
      [] st = "WAIT_ENABLE_ACCEPT" -> {"ENABLE_REQ_ACK", "ENABLE_REQ_REJ"}
      [] st = "WAIT_ENABLE_RES" -> {"ENABLE_RES"}
      [] st = "WAIT_OPINFO_ACCEPT" -> {"OP_INFO_ACK", "OP_INFO_REJ"}
      [] OTHER -> {}

\* The MO FSM handles a message: om2k_mo_st_wait_conn_compl() to om2k_mo_st_wait_opinfo_accept()
MoReceive(s, c, msg) ==
    LET st == s.chain[c].st
        m == s.chain[c].mo
        Send(next, req) == Tx(InMoState(s, c, next), m, req)
    IN  CASE msg \notin Takes(st) -> s
          [] st = "WAIT_CONN_COMPL" -> Send("WAIT_RES_COMPL", "RESET")
          [] st = "WAIT_RES_COMPL" -> Send("WAIT_START_ACCEPT", "START")
          [] msg = "START_REQ_ACK" -> InMoState(s, c, "WAIT_START_RES")
          [] st = "WAIT_START_RES" -> om2k_mo_st_wait_start_res(s, c)
          [] st = "WAIT_CFG_ACCEPT" -> InMoState(s, c, "WAIT_CFG_RES")
          [] msg = "CONF_RES_OK" -> Send("WAIT_ENABLE_ACCEPT", "ENABLE")
          [] st = "WAIT_ENABLE_ACCEPT" -> om2k_mo_st_wait_enable_accept(s, c, msg)
          [] st = "WAIT_ENABLE_RES" -> TxOpInfo(InMoState(s, c, "WAIT_OPINFO_ACCEPT"), m, TRUE)
          [] OTHER -> MoEnd(s, c)           \* START_REQ_REJ, CONF_RES_BAD; or done

\* om2k_mo_fsm_recvmsg(): the message is an event for the FSM of the MO
om2k_mo_fsm_recvmsg(s, m, msg) == MoReceive(s, s.fsm[m], msg)

-----------------------------------------------------------------------------
(* The RBS (external): its answers to a request, and what it owes then.    *)

Answers(req, comb) ==
    CASE req = "CONNECT" -> {<<"CONNECT_COMPL", "none">>, <<"CONNECT_REJ", "none">>}
      [] req = "RESET" -> {<<"RESET_COMPL", "none">>, <<"RESET_REJ", "none">>}
      [] req = "START" -> {<<"START_REQ_ACK", "START_RES">>, <<"START_REQ_REJ", "none">>}
      [] req = "START_RES" -> {<<"START_RES", "none">>}
      [] req = "CFG" -> {<<"CONF_REQ_ACK", "CFG_RES">>, <<"CONF_REQ_REJ", "none">>}
      [] req = "CFG_RES" -> {<<"CONF_RES_BAD", "none">>} \cup
                            (IF comb = 0 THEN {} ELSE {<<"CONF_RES_OK", "none">>})
      [] req = "ENABLE" -> {<<"ENABLE_REQ_ACK", "ENABLE_RES">>, <<"ENABLE_REQ_REJ", "none">>}
      [] req = "ENABLE_RES" -> {<<"ENABLE_RES", "none">>}
      [] req = "OP_INFO" -> {<<"OP_INFO_ACK", "none">>, <<"OP_INFO_REJ", "none">>}
      [] OTHER -> {}

Refusals == {"CONNECT_REJ", "RESET_REJ", "START_REQ_REJ", "CONF_REQ_REJ", "CONF_RES_BAD",
             "ENABLE_REQ_REJ", "OP_INFO_REJ"}

\* abis_om2k_rcvmsg(): an answer from the RBS goes to the FSM of its MO
abis_om2k_rcvmsg(m) ==
    /\ om_due[m] # "none"
    /\ \E a \in Answers(om_due[m], IF m[1] = "TS" THEN Comb(om_site.pchan) ELSE 1) :
          LET s == [OmState EXCEPT !.due[m] = a[2], !.clean = @ /\ a[1] \notin Refusals]
          IN  /\ om_site.refuses \/ a[1] \notin Refusals
              /\ OmBecome(om2k_mo_fsm_recvmsg(s, m, a[1]))
    /\ UNCHANGED om_fires

Fire == om_fires < om_site.fires /\ om_fires' = om_fires + 1

\* om2k_mo_timer_cb()
MoTimeout(c) ==
    /\ om_chain[c].st # "none"
    /\ OmBecome(MoEnd([OmState EXCEPT !.clean = FALSE], c))
    /\ Fire

\* om2k_trx_timer_cb(): the FSM of the TRX stays in ERROR, and its child lives on
TrxTimeout(c) ==
    /\ om_chain[c].trx \notin {"none", "ERROR"}
    /\ OmBecome([OmState EXCEPT !.chain[c].trx = "ERROR", !.clean = FALSE])
    /\ Fire

\* om2k_bts_timer_cb()
BtsTimeout(c) ==
    /\ om_chain[c].bts \notin {"none", "DONE", "ERROR"}
    /\ OmBecome([OmState EXCEPT !.chain[c].bts = "ERROR", !.clean = FALSE])
    /\ Fire

om2k_bts_fsm_start(s, c) == om2k_mo_fsm_start([s EXCEPT !.chain[c].bts = "WAIT_CF"], c, <<"CF", 0, 0>>)

\* bootstrap_om_bts(), on S_L_INP_TEI_UP: abis_om2k_bts_init(), abis_om2k_trx_init() of
\* bts->c0 alone, om2k_bts_fsm_start().  What was under way on the link before is lost.
bootstrap_om_bts(c) ==
    /\ c <= om_site.links /\ om_chain[c].bts = "none" /\ \A d \in 1..c - 1 : om_chain[d].bts # "none"
    /\ OmBecome(om2k_bts_fsm_start([OmState EXCEPT !.addr = BtsMos \cup TrxMos(0), !.due = [m \in AllMos |-> "none"],
                                                   !.clean = @ /\ c = 1], c))
    /\ UNCHANGED om_fires

\* The requests the VTY sends for an MO: om2k_reset_cmd to om2k_op_info_cmd
VtyRequest(m) ==
    /\ om_site.vty /\ m \in om_addr
    /\ LET s == [OmState EXCEPT !.clean = FALSE]
       IN  \/ \E req \in {"RESET", "START", "CONNECT", "ENABLE"} : OmBecome(Tx(s, m, req))
           \/ \E up \in BOOLEAN : OmBecome(TxOpInfo(s, m, up))
    /\ Fire

\* om2k_conf_req_cmd
VtyConfRequest(m) ==
    /\ om_site.vty /\ m \in om_addr /\ m[1] \notin {"CON", "CF", "TRXC"}
    /\ OmBecome(TxConf([OmState EXCEPT !.clean = FALSE], m))
    /\ Fire

OmTimer == \E c \in OmChains : MoTimeout(c) \/ TrxTimeout(c) \/ BtsTimeout(c)

OmNext ==
    \/ \E m \in AllMos : abis_om2k_rcvmsg(m) \/ VtyRequest(m) \/ VtyConfRequest(m)
    \/ \E c \in OmChains : bootstrap_om_bts(c)
    \/ OmTimer

OmSpec == OmInit /\ [][OmNext]_omVars

-----------------------------------------------------------------------------
(* Properties.                                                             *)

\* mo->fsm never points to an FSM that has ended, however often the link comes up while FSMs
\* of earlier bring-ups still run: abis_om2k_rcvmsg() dispatches to a live FSM of that MO.
OmNoDanglingFsm == \A m \in AllMos : om_fsm[m] # 0 => om_chain[om_fsm[m]].mo = m /\ om_chain[om_fsm[m]].st # "none"

\* A BTS or TRX FSM that waits has the very child whose end it waits for: its wait can end
\* without its own timer.
OmWaitHasChild ==
    \A c \in OmChains :
        LET ch == om_chain[c]
        IN  /\ ch.bts = "WAIT_TRX" => ch.trx # "none"
            /\ ch.bts \in {"WAIT_CF", "WAIT_TF", "WAIT_CON", "WAIT_IS"} =>
                  ch.trx = "none" /\ ch.mo[1] = Awaited[ch.bts]
            /\ ch.trx \in {"WAIT_TRXC", "WAIT_TX", "WAIT_RX", "WAIT_TS"} =>
                  ch.mo[1] = Awaited[ch.trx] /\ ch.mo[2] = ch.next_trx - 1

\* When the BTS FSM is done and neither a timer, a refusal, a second link nor the operator has
\* interfered, every MO of an RBS with one TRX is operational, and the superchannel is on if
\* it is configured: no MO is skipped and none is left half way.
OmDoneMeansUp ==
    \A c \in OmChains :
        om_chain[c].bts = "DONE" /\ om_clean /\ om_site.trx = 1 =>
            /\ {m \in Mos(om_site) : m[1] \notin {"TX", "RX"}} \subseteq om_oper
            /\ om_altc = om_site.altc

\* The FSMs of an RBS form a tree at any time, however bring-ups cross, and a bring-up
\* that is done has left nothing out.
OmSafe == OmTypeOK /\ OmNoDanglingFsm /\ OmWaitHasChild /\ OmDoneMeansUp
=============================================================================
