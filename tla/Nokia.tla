------------------------------- MODULE Nokia -------------------------------
(***************************************************************************)
(* Bringing up a Nokia InSite or MetroSite BTS (bts_nokia_site.c): the OML *)
(* link is started, the BTS is reset once, the link is started again after *)
(* a while, the BTS asks for its configuration, and the RSL links are      *)
(* started when it has acknowledged it.  The messages go through the queue *)
(* of abis_nm.c.                                                           *)
(*                                                                         *)
(* The BTS and LAPD are external: the BTS may be booting or working when   *)
(* the BSC starts, and the OML link may be lost.                           *)
(***************************************************************************)
EXTENDS Integers, Sequences

CONSTANTS NkSites   \* the BTSs considered

\* skip: nokia.skip_reset;  bts: what the BTS is doing when the BSC starts;  segments: how many
\* segments its configuration takes;  losses: bound on the times the OML link is lost
NkSite == [skip : BOOLEAN, bts : {"booting", "working"}, segments : 1..3, losses : Nat]

ASSUME NkAssumption == NkSites \subseteq NkSite

VARIABLES
    nk_site,
    nk_sap,     \* the SAPs that have been started: "OML", "RSL"
    nk_oml,     \* the OML link is established
    nk_did,     \* nokia.did_reset
    nk_wait,    \* nokia.wait_reset
    nk_timer,   \* nokia.reset_timer is pending
    nk_conf,    \* nokia.configured
    nk_queue,   \* bts->abis_queue
    nk_pend,    \* bts->abis_nm_pend
    nk_down,    \* what the BSC has sent and the BTS has not yet read
    nk_up,      \* what the BTS has sent and the BSC has not yet read
    nk_bts,     \* what the BTS is doing
    nk_left     \* how often the link may still be lost

nkVars == <<nk_site, nk_sap, nk_oml, nk_did, nk_wait, nk_timer, nk_conf, nk_queue, nk_pend, nk_down, nk_up, nk_bts, nk_left>>

NkDown == {"RESET_REQ", "START_DOWNLOAD_REQ", "ACK", "CONF_DATA", "CONF_DATA_LAST"}
NkUp == {"ACK", "OMU_STARTED", "CONF_REQ", "CONF_COMPLETE"}

NkTypeOK ==
    /\ nk_site \in NkSites /\ nk_sap \subseteq {"OML", "RSL"}
    /\ {nk_oml, nk_did, nk_wait, nk_timer, nk_conf, nk_pend} \subseteq BOOLEAN
    /\ {nk_queue, nk_down} \subseteq Seq(NkDown) /\ nk_up \in Seq(NkUp)
    /\ nk_bts \in {"booting", "started", "asking", "working", "resetting"} /\ nk_left \in Nat

\* inp_sig_cb() on S_L_INP_LINE_INIT: only OML is started
NkInit ==
    /\ nk_site \in NkSites /\ nk_sap = {"OML"} /\ nk_oml = FALSE
    /\ nk_did = FALSE /\ nk_wait = FALSE /\ nk_timer = FALSE /\ nk_conf = FALSE
    /\ nk_queue = <<>> /\ nk_pend = FALSE /\ nk_down = <<>> /\ nk_up = <<>>
    /\ nk_bts = nk_site.bts /\ nk_left = nk_site.losses

-----------------------------------------------------------------------------
(* What the handlers do, as functions of the state s.                      *)

NkState == [sap |-> nk_sap, oml |-> nk_oml, did |-> nk_did, wait |-> nk_wait, timer |-> nk_timer, conf |-> nk_conf,
            queue |-> nk_queue, pend |-> nk_pend, down |-> nk_down, up |-> nk_up, bts |-> nk_bts]

NkBecome(s) ==
    \E v \in {s} :
        /\ nk_sap' = v.sap /\ nk_oml' = v.oml /\ nk_did' = v.did /\ nk_wait' = v.wait /\ nk_timer' = v.timer
        /\ nk_conf' = v.conf /\ nk_queue' = v.queue /\ nk_pend' = v.pend /\ nk_down' = v.down
        /\ nk_up' = v.up /\ nk_bts' = v.bts /\ UNCHANGED nk_site

\* the BTS takes a message
NkBtsTakes(s, msg) ==
    CASE msg = "RESET_REQ" -> [s EXCEPT !.up = Append(@, "ACK"), !.bts = "resetting"]
      [] msg = "START_DOWNLOAD_REQ" /\ s.bts = "started" -> [s EXCEPT !.up = Append(@, "CONF_REQ"), !.bts = "asking"]
      [] msg = "CONF_DATA_LAST" /\ s.bts = "asking" -> [s EXCEPT !.up = @ \o <<"ACK", "CONF_COMPLETE">>, !.bts = "working"]
      [] OTHER -> s

\* abis_sendmsg(): nothing arrives without a link
NkTx(s, msg) == IF s.oml THEN [s EXCEPT !.down = Append(@, msg)] ELSE s

\* abis_nm_send(): all messages want an answer
abis_nm_send(s, msg) ==
    IF s.queue = <<>> /\ ~s.pend THEN NkTx([s EXCEPT !.pend = TRUE], msg)
    ELSE [s EXCEPT !.queue = Append(@, msg)]

Mut_nokia_abis_nm_queue_send_next(s) == s

\* nokia_abis_nm_queue_send_next(): all messages want an answer
nokia_abis_nm_queue_send_next(s) ==
    IF s.queue = <<>> THEN [s EXCEPT !.pend = FALSE]
    ELSE NkTx([s EXCEPT !.queue = Tail(@), !.pend = TRUE], Head(s.queue))

\* start_sabm_in_line()
StopSaps(s) == [s EXCEPT !.sap = {}, !.oml = FALSE, !.queue = <<>>, !.pend = FALSE, !.down = <<>>, !.up = <<>>]

\* abis_nm_send_config(), abis_nm_send_multi_segments(): after each segment the next message may go,
\* except after one that fits into a single message
RECURSIVE abis_nm_send_multi_segments(_, _)
abis_nm_send_multi_segments(s, n) ==
    LET t == abis_nm_send(s, IF n = 1 THEN "CONF_DATA_LAST" ELSE "CONF_DATA")
    IN  CASE nk_site.segments = 1 -> t
          [] n = 1 -> nokia_abis_nm_queue_send_next(t)
          [] OTHER -> abis_nm_send_multi_segments(nokia_abis_nm_queue_send_next(t), n - 1)

\* abis_nm_send_config(): the configuration takes nk_site.segments messages
abis_nm_send_config(s) == abis_nm_send_multi_segments(s, nk_site.segments)

\* case NOKIA_MSG_ACK, the first half: taken for the answer to the reset if there was none yet
AckOfReset(s) ==
    IF s.did THEN s ELSE StopSaps([s EXCEPT !.did = TRUE, !.wait = TRUE, !.timer = TRUE])

Mut_AckOfConfig(s) == [s EXCEPT !.sap = @ \cup {"RSL"}]

\* case NOKIA_MSG_ACK, the second half: taken for the answer to the configuration if one was sent
AckOfConfig(s) ==
    IF s.conf THEN [s EXCEPT !.conf = FALSE, !.sap = @ \cup {"RSL"}] ELSE s

Mut_NkRcvmsg(s, mt) ==
    IF s.wait THEN s
    ELSE nokia_abis_nm_queue_send_next(
           CASE mt = "OMU_STARTED" -> abis_nm_send(s, "START_DOWNLOAD_REQ")
             [] mt = "CONF_REQ" ->
                  [abis_nm_send_config(nokia_abis_nm_queue_send_next(abis_nm_send(s, "ACK")))
                   EXCEPT !.sap = @ \cup {"RSL"}]
             [] mt = "ACK" -> AckOfConfig(AckOfReset(s))
             [] mt = "CONF_COMPLETE" -> abis_nm_send(s, "ACK"))

Mut_NkRcvmsg_echo(s, mt) ==
    IF s.wait THEN s
    ELSE nokia_abis_nm_queue_send_next(
           CASE mt = "OMU_STARTED" -> abis_nm_send(s, "START_DOWNLOAD_REQ")
             [] mt = "CONF_REQ" ->
                  [abis_nm_send_config(nokia_abis_nm_queue_send_next(abis_nm_send(s, "ACK")))
                   EXCEPT !.conf = TRUE]
             [] mt = "ACK" -> AckOfConfig(AckOfReset(s))
             [] mt = "CONF_COMPLETE" -> abis_nm_send(s, mt))

\* abis_nm_rcvmsg_fom()
NkRcvmsg(s, mt) ==
    IF s.wait THEN s
    ELSE nokia_abis_nm_queue_send_next(
           CASE mt = "OMU_STARTED" -> abis_nm_send(s, "START_DOWNLOAD_REQ")
             [] mt = "CONF_REQ" ->
                  [abis_nm_send_config(nokia_abis_nm_queue_send_next(abis_nm_send(s, "ACK")))
                   EXCEPT !.conf = TRUE]
             [] mt = "ACK" -> AckOfConfig(AckOfReset(s))
             [] mt = "CONF_COMPLETE" -> abis_nm_send(s, "ACK"))

-----------------------------------------------------------------------------
(* The steps.                                                              *)

\* inp_sig_cb() on S_L_INP_TEI_UP, bootstrap_om_bts()
NkOmlUp ==
    /\ "OML" \in nk_sap /\ ~nk_oml /\ nk_bts # "resetting"
    /\ LET s == [NkState EXCEPT !.oml = TRUE]
       IN  NkBecome(CASE nk_site.skip -> [s EXCEPT !.did = TRUE]
                      [] ~nk_site.skip /\ ~nk_did -> abis_nm_send(s, "RESET_REQ")
                      [] OTHER -> s)
    /\ UNCHANGED nk_left

\* inp_sig_cb() of osmo_bsc_main.c on S_L_INP_TEI_DN, abis_nm_clear_queue(): the link of a BTS that is
\* resetting fails, and any other link may; the BTS starts over unless it has its configuration
NkLinkLost ==
    /\ nk_oml
    /\ \/ nk_bts = "resetting" /\ nk_up = <<>> /\ UNCHANGED nk_left
       \/ nk_left > 0 /\ nk_left' = nk_left - 1
    /\ NkBecome([NkState EXCEPT !.oml = FALSE, !.queue = <<>>, !.pend = FALSE, !.down = <<>>, !.up = <<>>,
                                !.bts = IF @ \in {"started", "asking"} THEN "booting" ELSE @])

Mut_reset_timer_cb ==
    /\ nk_timer
    /\ NkBecome([StopSaps(NkState) EXCEPT !.timer = FALSE, !.sap = {"OML"}])
    /\ UNCHANGED nk_left

\* reset_timer_cb()
reset_timer_cb ==
    /\ nk_timer
    /\ NkBecome([StopSaps(NkState) EXCEPT !.timer = FALSE, !.wait = FALSE, !.sap = {"OML"}])
    /\ UNCHANGED nk_left

\* inp_sig_cb() on S_L_INP_TEI_UNKNOWN: a BTS that works wants its RSL links
NkTeiUnknown ==
    /\ nk_bts = "working" /\ "RSL" \notin nk_sap
    /\ NkBecome([NkState EXCEPT !.sap = @ \cup {"RSL"}])
    /\ UNCHANGED nk_left

\* the BTS takes the next message
NkBtsReceive ==
    /\ nk_oml /\ nk_down # <<>> /\ nk_bts # "resetting"
    /\ NkBecome(NkBtsTakes([NkState EXCEPT !.down = Tail(@)], Head(nk_down)))
    /\ UNCHANGED nk_left

\* the BTS has reset
NkBtsReset ==
    /\ nk_bts = "resetting" /\ ~nk_oml
    /\ NkBecome([NkState EXCEPT !.bts = "booting"])
    /\ UNCHANGED nk_left

\* the BTS has booted
NkBtsBoots ==
    /\ nk_oml /\ nk_bts = "booting"
    /\ NkBecome([NkState EXCEPT !.bts = "started", !.up = Append(@, "OMU_STARTED")])
    /\ UNCHANGED nk_left

\* abis_nokia_rcvmsg()
NkReceive ==
    /\ nk_oml /\ nk_up # <<>>
    /\ NkBecome(NkRcvmsg([NkState EXCEPT !.up = Tail(@)], Head(nk_up)))
    /\ UNCHANGED nk_left

NkNext ==
    \/ NkOmlUp
    \/ NkLinkLost
    \/ reset_timer_cb
    \/ NkTeiUnknown
    \/ NkBtsReceive
    \/ NkBtsReset
    \/ NkBtsBoots
    \/ NkReceive

\* LAPD establishes the links it was told to and notices that they are lost, the timer runs,
\* and the BTS boots, resets and delivers what it has sent
NkFairness ==
    /\ WF_nkVars(NkOmlUp) /\ WF_nkVars(NkLinkLost /\ nk_bts = "resetting") /\ WF_nkVars(reset_timer_cb)
    /\ WF_nkVars(NkTeiUnknown) /\ WF_nkVars(NkBtsReceive) /\ WF_nkVars(NkBtsReset) /\ WF_nkVars(NkBtsBoots) /\ WF_nkVars(NkReceive)

NkSpec == NkInit /\ [][NkNext]_nkVars /\ NkFairness

-----------------------------------------------------------------------------
(* Properties.                                                             *)

\* Nothing is left in the queue when a handler returns: each message of the BTS lets the next one
\* go, also one that answers nothing, so that no request can wait for an answer that is lost.
NkNothingWaits == nk_queue = <<>>

\* Once the BTS has been reset, its RSL links are up only while it has its configuration, wherever
\* the OML link was lost in between: the reset takes them down again (AckOfConfig, reset_timer_cb).
NkRslMeansConfigured == "RSL" \in nk_sap /\ nk_did /\ ~nk_wait => nk_bts \in {"working", "resetting"}

\* However the reset, the booting of the BTS and the loss of the link fall together, the
\* BTS is configured and has its RSL links in the end.
NkComesUp == <>[](nk_bts = "working" /\ "RSL" \in nk_sap /\ nk_oml)

\* "receive ACK, wait some time and restart OML link ... receive ACK, start RSL link(s)" (the comment
\* above abis_nm_rcvmsg_fom()): while the BTS is being reset no RSL link is up, although
\* one ACK may be taken for the answer to the reset and to the configuration at once.
NkNoRslInReset == nk_wait => "RSL" \notin nk_sap

\* The start-up of a Nokia BTS keeps its order whatever crosses it: no request is stuck, and RSL is
\* up neither during the reset nor before the configuration.
NkSafe == NkTypeOK /\ NkNothingWaits /\ NkRslMeansConfigured /\ NkNoRslInReset
=============================================================================
