-------------------------------- MODULE Bs11 --------------------------------
(***************************************************************************)
(* Configuring a Siemens BS-11 (bts_siemens_bs11.c): when its OML link     *)
(* comes up the BSC writes its whole configuration into the BTS's data     *)
(* base, one request at a time through the queue of abis_nm.c, and when    *)
(* the BSC shuts down it resets the BTS.  The loss of any signalling link  *)
(* of the BTS, OML or RSL, empties the queue (inp_sig_cb() of              *)
(* osmo_bsc_main.c).                                                       *)
(***************************************************************************)
EXTENDS Integers, Sequences, SequencesExt

CONSTANTS B11Sites  \* the BTSs considered

\* trx: the timeslots of each TRX, TRUE for one with traffic channels;  nacks: the requests the BTS
\* refuses;  losses: bound on the loss of links;  rsl: RSL links may be lost too
B11Site == [trx : Seq(Seq(BOOLEAN)), nacks : SUBSET STRING, losses : Nat, rsl : BOOLEAN]

VARIABLES
    b11_site,
    b11_oml,    \* the OML link is up
    b11_queue,  \* bts->abis_queue
    b11_pend,   \* bts->abis_nm_pend
    b11_up,     \* answers of the BTS on their way
    b11_bts,    \* the BTS: a data base transmission is open, reports are on, what is configured
    b11_cut,    \* the queue was emptied while it held requests, and OML has not come up since
    b11_closed, \* bsc_shutdown_net() was called
    b11_left    \* what is left of site.losses

b11Vars == <<b11_site, b11_oml, b11_queue, b11_pend, b11_up, b11_bts, b11_cut, b11_closed, b11_left>>

\* nm_reconfig_ts()
nm_reconfig_ts(tch) == IF tch THEN <<"SET_CHAN_ATTR", "CONN_TERR_TRAF">> ELSE <<"SET_CHAN_ATTR">>

\* nm_reconfig_trx()
nm_reconfig_trx(trx) == <<"CONN_TERR_SIGN", "ESTABLISH_TEI", "SET_RADIO_ATTR">>
                        \o FlattenSeq([i \in DOMAIN trx |-> nm_reconfig_ts(trx[i])])

\* nm_reconfig_bts(), patch_nm_tables()
nm_reconfig_bts == <<"SET_ATTR", "SET_BTS_ATTR", "SET_ATTR", "SET_ATTR">>
                   \o FlattenSeq([i \in DOMAIN b11_site.trx |-> nm_reconfig_trx(b11_site.trx[i])])

Mut_bootstrap_om_bs11 ==
    <<"STOP_EVENT_REP", "BEGIN_DB_TX", "END_DB_TX", "RESET_RESOURCE">> \o nm_reconfig_bts
    \o <<"BEGIN_DB_TX", "END_DB_TX", "RESET_RESOURCE", "REST_EVENT_REP">>

\* bootstrap_om_bs11()
bootstrap_om_bs11 ==
    <<"STOP_EVENT_REP", "BEGIN_DB_TX", "END_DB_TX", "RESET_RESOURCE", "BEGIN_DB_TX">> \o nm_reconfig_bts
    \o <<"END_DB_TX", "RESET_RESOURCE", "REST_EVENT_REP">>

\* shutdown_om()
shutdown_om == <<"STOP_EVENT_REP", "BEGIN_DB_TX", "END_DB_TX", "RESET_RESOURCE">>

B11Fresh == [open |-> FALSE, reports |-> TRUE, conf |-> 0, outside |-> FALSE]

B11Init ==
    /\ b11_site \in B11Sites
    /\ b11_oml = FALSE /\ b11_queue = <<>> /\ b11_pend = FALSE /\ b11_up = <<>>
    /\ b11_bts = B11Fresh
    /\ b11_cut = FALSE /\ b11_closed = FALSE
    /\ b11_left = b11_site.losses

B11TypeOK ==
    /\ b11_site \in B11Sites
    /\ {b11_oml, b11_pend, b11_cut, b11_closed} \subseteq BOOLEAN
    /\ b11_bts.conf \in 0 .. Len(nm_reconfig_bts)
    /\ Len(b11_up) <= 2

-----------------------------------------------------------------------------

\* the BTS takes a request; conf counts what it has been told since the last time the data base was opened
B11Takes(bts, m) ==
    CASE m = "STOP_EVENT_REP" -> [bts EXCEPT !.reports = FALSE]
      [] m = "REST_EVENT_REP" -> [bts EXCEPT !.reports = TRUE]
      [] m = "BEGIN_DB_TX" -> [bts EXCEPT !.open = TRUE, !.conf = 0]
      [] m = "END_DB_TX" -> [bts EXCEPT !.open = FALSE]
      [] m = "RESET_RESOURCE" -> bts
      [] OTHER -> [bts EXCEPT !.conf = @ + 1, !.outside = @ \/ ~bts.open]

\* _abis_nm_sendmsg(): every request wants an answer
B11Sent(m) ==
    /\ b11_bts' = IF m \in b11_site.nacks THEN b11_bts ELSE B11Takes(b11_bts, m)
    /\ b11_up' = Append(b11_up, m)

Mut_B11Send(ms) ==
    /\ b11_up' = b11_up \o ms /\ b11_pend' = TRUE
    /\ UNCHANGED <<b11_queue, b11_bts>>

\* abis_nm_queue_msg() for each request of ms
B11Send(ms) ==
    IF b11_pend THEN /\ b11_queue' = b11_queue \o ms
                     /\ UNCHANGED <<b11_pend, b11_up, b11_bts>>
    ELSE /\ B11Sent(Head(ms))
         /\ b11_queue' = Tail(ms)
         /\ b11_pend' = TRUE

\* inp_sig_cb() of bts_siemens_bs11.c on S_L_INP_TEI_UP of the OML link
B11OmlUp ==
    /\ ~b11_oml /\ ~b11_closed
    /\ b11_oml' = TRUE
    /\ B11Send(bootstrap_om_bs11)
    /\ b11_cut' = FALSE
    /\ UNCHANGED <<b11_site, b11_closed, b11_left>>

\* inp_sig_cb() of osmo_bsc_main.c on S_L_INP_TEI_DN: gsm_bts_mo_reset(), abis_nm_clear_queue().
\* What the BTS had answered is lost with the OML link.
B11LinkDown(oml) ==
    /\ b11_oml /\ b11_left > 0 /\ (oml \/ b11_site.rsl)
    /\ b11_left' = b11_left - 1
    /\ b11_oml' = ~oml
    /\ b11_queue' = <<>> /\ b11_pend' = FALSE
    /\ b11_up' = IF oml THEN <<>> ELSE b11_up
    /\ b11_cut' = (b11_cut \/ b11_queue # <<>>)
    /\ UNCHANGED <<b11_site, b11_bts, b11_closed>>

Mut_B11Receive ==
    /\ b11_up # <<>> /\ b11_queue # <<>>
    /\ b11_bts' = B11Takes(b11_bts, Head(b11_queue)) /\ b11_up' = Tail(b11_up)
    /\ b11_queue' = Tail(b11_queue) /\ b11_pend' = TRUE
    /\ UNCHANGED <<b11_site, b11_oml, b11_cut, b11_closed, b11_left>>

\* abis_nm_rcvmsg_fom(): an ACK or a NACK lets the next request go (abis_nm_queue_send_next(),
\* oml_msg_nack() drops the links of ip.access BTSs only)
B11Receive ==
    /\ b11_oml /\ b11_up # <<>>
    /\ IF b11_queue = <<>>
       THEN /\ b11_pend' = FALSE /\ b11_up' = Tail(b11_up)
            /\ UNCHANGED <<b11_queue, b11_bts>>
       ELSE LET m == Head(b11_queue)
            IN  /\ b11_bts' = IF m \in b11_site.nacks THEN b11_bts ELSE B11Takes(b11_bts, m)
                /\ b11_up' = Append(Tail(b11_up), m)
                /\ b11_queue' = Tail(b11_queue) /\ b11_pend' = TRUE
    /\ UNCHANGED <<b11_site, b11_oml, b11_cut, b11_closed, b11_left>>

\* bsc_shutdown_net() of bsc_init.c, gbl_sig_cb() on S_GLOBAL_BTS_CLOSE_OM
B11Shutdown ==
    /\ b11_oml /\ ~b11_closed
    /\ b11_closed' = TRUE
    /\ B11Send(shutdown_om)
    /\ UNCHANGED <<b11_site, b11_oml, b11_cut, b11_left>>

B11Next ==
    \/ B11OmlUp
    \/ \E oml \in BOOLEAN : B11LinkDown(oml)
    \/ B11Receive
    \/ B11Shutdown

\* the BTS answers, and a link that is lost comes back
B11Fairness == WF_b11Vars(B11Receive) /\ WF_b11Vars(B11OmlUp)
B11Spec == B11Init /\ [][B11Next]_b11Vars /\ B11Fairness

-----------------------------------------------------------------------------
(* Properties.                                                             *)

\* The configuration is written only between the beginning and the end of a data base
\* transmission, although a loss of links and a shutdown may cut the sequence anywhere
\* (bootstrap_om_bs11(), shutdown_om()).
B11InTransaction == ~b11_bts.outside

\* B11InTransaction with the type invariant.
B11Safe == B11TypeOK /\ B11InTransaction

B11Done == ~b11_bts.open /\ b11_bts.reports /\ b11_bts.conf = Len(nm_reconfig_bts) /\ b11_queue = <<>>

\* A BTS whose OML link stays up is configured completely, its data base transmission closed and its
\* reports on again, unless it refused a request, the loss of a link emptied the queue, or the BSC shut down.
B11Configured == (b11_oml /\ b11_site.nacks = {}) ~> (B11Done \/ ~b11_oml \/ b11_cut \/ b11_closed)
=============================================================================
