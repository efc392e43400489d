-------------------------------- MODULE Pcu --------------------------------
(***************************************************************************)
(* The socket to a packet control unit beside the BSC (pcu_sock.c): one    *)
(* PCU is served at a time, it is told which timeslots carry PDCH, gets    *)
(* channel requests and confirmations, and sends paging and assignment     *)
(* messages for the first BTS.                                             *)
(***************************************************************************)
EXTENDS Integers, Sequences

CONSTANTS PcSites  \* the networks considered

\* ts: how many timeslots the BTS has;  ericsson: the BTS is an RBS2000;  events: bound on what comes from
\* the BTS, the PCU and the VTY;  len: bound on the queue
PcSite == [ts : 1 .. 8, ericsson : BOOLEAN, events : Nat, len : Nat]

ASSUME PcSitesAssumption == PcSites \subseteq PcSite

VARIABLES
    pc_site,
    pc_sock,    \* bts->pcu_state is not NULL
    pc_listen,  \* state->listen_bfd.when has BSC_FD_READ
    pc_conn,    \* state->conn_bfd.fd is open
    pc_write,   \* state->conn_bfd.when has BSC_FD_WRITE
    pc_queue,   \* state->upqueue
    pc_ts,      \* per timeslot: enabled, and pchan_is is PDCH
    pc_up,      \* which of the links, OML and the first TRX's RSL, are up
    pc_told,    \* what the connected PCU has been told of the timeslots, <<>> for nothing
    pc_untold,  \* history: timeslots that changed with nobody calling pcu_info_update() since
    pc_held,    \* assignment messages with a TLLI that an RBS2000 has yet to confirm
    pc_left     \* what is left of site.events

pcVars == <<pc_site, pc_sock, pc_listen, pc_conn, pc_write, pc_queue, pc_ts, pc_up, pc_told, pc_untold, pc_held,
            pc_left>>

\* the BTS's side, and the socket's
pcBts == <<pc_ts, pc_up, pc_untold, pc_held>>
pcSock == <<pc_sock, pc_listen, pc_conn>>

PcTs == 1 .. pc_site.ts
PcLinks == {"OML", "RSL"}
PcSapis == {"PCH", "AGCH", "AGCH_DT", "AGCH_DT_short", "other"}

\* pcu_sock_init()
PcInit ==
    /\ pc_site \in PcSites
    /\ pc_sock = TRUE /\ pc_listen = TRUE /\ pc_conn = FALSE /\ pc_write = FALSE /\ pc_queue = <<>>
    /\ pc_ts = [t \in PcTs |-> [enabled |-> TRUE, pdch |-> FALSE]]
    /\ pc_up = PcLinks /\ pc_told = <<>> /\ pc_untold = {} /\ pc_held = 0
    /\ pc_left = pc_site.events

\* The type invariant: what is queued are the three messages the BSC sends a PCU.
PcTypeOK ==
    /\ pc_site \in PcSites
    /\ {pc_sock, pc_listen, pc_conn, pc_write} \subseteq BOOLEAN /\ pc_up \subseteq PcLinks
    /\ Len(pc_queue) <= pc_site.len + 1
    /\ \A i \in DOMAIN pc_queue : pc_queue[i].type \in {"INFO_IND", "RACH_IND", "DATA_CNF_DT"}
    /\ pc_told = <<>> \/ (Len(pc_told) = 1 /\ pc_told[1] \subseteq PcTs)
    /\ pc_untold \subseteq PcTs
    /\ pc_held \in 0 .. pc_site.events /\ pc_left \in 0 .. pc_site.events

-----------------------------------------------------------------------------

PcInput == pc_left > 0 /\ pc_left' = pc_left - 1

\* pcu_sock_send(): without a PCU the message is dropped
pcu_sock_send(msg) ==
    IF ~pc_conn THEN UNCHANGED <<pc_queue, pc_write>>
    ELSE pc_queue' = Append(pc_queue, msg) /\ pc_write' = TRUE

Mut_PdchMask(ts) == {t - 1 : t \in {u \in PcTs : ts[u].enabled /\ ts[u].pdch}}

\* the timeslots of an info_ind's pdch_mask
PdchMask(ts) == {t \in PcTs : ts[t].enabled /\ ts[t].pdch}

Mut_pcu_info_update(ts) ==
    /\ pcu_sock_send([type |-> "INFO_IND", mask |-> PdchMask(pc_ts)])
    /\ pc_untold' = {}

\* pcu_info_update(), pcu_tx_info_ind()
pcu_info_update(ts) ==
    /\ pcu_sock_send([type |-> "INFO_IND", mask |-> PdchMask(ts)])
    /\ pc_untold' = {}

\* a change of the timeslots that nobody tells the PCU
Untold(ts) ==
    /\ pc_ts' = ts
    /\ pc_untold' = pc_untold \cup {t \in PcTs : (t \in PdchMask(ts)) # (t \in PdchMask(pc_ts))}

Mut_pcu_sock_close_keeps ==
    /\ pc_conn' = FALSE /\ pc_listen' = TRUE /\ pc_write' = FALSE
    /\ pc_queue' = pc_queue /\ pc_told' = <<>>

\* pcu_sock_close()
pcu_sock_close ==
    /\ pc_conn' = FALSE /\ pc_listen' = TRUE /\ pc_write' = FALSE
    /\ pc_queue' = <<>> /\ pc_told' = <<>>

\* pcu_sock_accept(): a second PCU is turned away, and the BSC stops listening; a connection that cannot be
\* accepted or registered leaves things as they are
pcu_sock_accept ==
    /\ PcInput /\ pc_listen
    /\ \/ UNCHANGED <<pc_listen, pc_conn, pc_write>>
       \/ pc_conn /\ pc_listen' = FALSE /\ UNCHANGED <<pc_conn, pc_write>>
       \/ ~pc_conn /\ pc_conn' = TRUE /\ pc_write' = FALSE /\ UNCHANGED pc_listen
    /\ UNCHANGED <<pc_site, pc_sock, pc_queue, pc_told, pcBts>>

\* pcu_rx_data_req(): does the BTS get an assignment message that it will confirm
WithTlli(sapi) == sapi = "AGCH_DT" /\ pc_site.ericsson /\ "RSL" \in pc_up

\* pcu_sock_read(), pcu_rx(), for the first BTS: what cannot be sent, or is not understood, is dropped
PcRead(sapi) ==
    /\ PcInput /\ pc_conn
    /\ pc_held' = pc_held + (IF WithTlli(sapi) THEN 1 ELSE 0)
    /\ UNCHANGED <<pc_site, pcSock, pc_write, pc_queue, pc_ts, pc_up, pc_told, pc_untold>>

\* pcu_sock_read() at the end of the connection
PcEnd ==
    /\ PcInput /\ pc_conn
    /\ pcu_sock_close
    /\ UNCHANGED <<pc_site, pc_sock, pcBts>>

\* what the PCU knows after the first n messages of the queue
ToldBy(n) ==
    LET infos == {i \in 1 .. n : pc_queue[i].type = "INFO_IND"}
    IN  IF infos = {} THEN pc_told ELSE <<pc_queue[CHOOSE i \in infos : \A j \in infos : j <= i].mask>>

Mut_PcWritten(n) ==
    /\ pc_queue' = SubSeq(pc_queue, n + 1, Len(pc_queue))
    /\ pc_write' = FALSE
    /\ pc_told' = ToldBy(n)
    /\ UNCHANGED pcSock

\* pcu_sock_write() has sent n messages when the queue is empty or the socket would block
PcWritten(n) ==
    /\ pc_queue' = SubSeq(pc_queue, n + 1, Len(pc_queue))
    /\ pc_write' = (n < Len(pc_queue))
    /\ pc_told' = ToldBy(n)
    /\ UNCHANGED pcSock

\* pcu_sock_write()
pcu_sock_write ==
    /\ pc_conn /\ pc_write
    /\ \E n \in 1 .. Len(pc_queue) : PcWritten(n)
    /\ UNCHANGED <<pc_site, pcBts, pc_left>>

\* pcu_sock_write() on a broken connection
PcWriteFails ==
    /\ PcInput /\ pc_conn /\ pc_write
    /\ pcu_sock_close
    /\ UNCHANGED <<pc_site, pc_sock, pcBts>>

\* a timeslot has become PDCH, or stops being PDCH (ts_fsm_pdch_onenter(), ts_fsm_wait_pdch_deact())
PcTsChanges(t) ==
    /\ PcInput /\ pc_up = PcLinks /\ Len(pc_queue) < pc_site.len
    /\ pc_ts' = [pc_ts EXCEPT ![t].pdch = ~@]
    /\ pcu_info_update(pc_ts')
    /\ UNCHANGED <<pc_site, pcSock, pc_up, pc_told, pc_held>>

\* abis_nm_rx_statechg_rep(): the operational state of a timeslot changes, and nobody tells the PCU
PcTsReport(t) ==
    /\ PcInput /\ "OML" \in pc_up
    /\ Untold([pc_ts EXCEPT ![t].enabled = ~@])
    /\ UNCHANGED <<pc_site, pcSock, pc_write, pc_queue, pc_up, pc_told, pc_held>>

\* gsm_bts_trx_set_system_infos() ends with pcu_info_update(), unless it failed before
PcSystemInfo ==
    /\ PcInput /\ "RSL" \in pc_up /\ Len(pc_queue) < pc_site.len
    /\ pcu_info_update(pc_ts)
    /\ UNCHANGED <<pc_site, pcSock, pc_ts, pc_up, pc_told, pc_held>>

\* rsl_rx_pchan_rqd(), pcu_tx_rach_ind()
PcRach ==
    /\ PcInput /\ "RSL" \in pc_up /\ Len(pc_queue) < pc_site.len
    /\ pcu_sock_send([type |-> "RACH_IND"])
    /\ UNCHANGED <<pc_site, pcSock, pc_told, pcBts>>

\* rsl_rx_ericsson_imm_assign_sent(), pcu_tx_imm_ass_sent()
PcImmAssSent ==
    /\ pc_held > 0 /\ "RSL" \in pc_up /\ Len(pc_queue) < pc_site.len
    /\ pc_held' = pc_held - 1
    /\ pcu_sock_send([type |-> "DATA_CNF_DT"])
    /\ UNCHANGED <<pc_site, pcSock, pc_ts, pc_up, pc_told, pc_untold, pc_left>>

\* inp_sig_cb() at the loss of a link: ts_fsm_allstate() takes pchan_is back to NONE for every timeslot, and
\* gsm_bts_mo_reset() forgets their operational state, with no word to the PCU; a BTS that loses its RSL
\* link forgets what it held
PcLinkDown(l) ==
    /\ PcInput /\ l \in pc_up
    /\ pc_up' = pc_up \ {l}
    /\ pc_held' = IF l = "RSL" THEN 0 ELSE pc_held
    /\ Untold([t \in PcTs |-> [enabled |-> FALSE, pdch |-> FALSE]])
    /\ UNCHANGED <<pc_site, pcSock, pc_write, pc_queue, pc_told>>

\* inp_sig_cb() at the return of a link; bootstrap_rsl() sends the system information, and so tells the PCU,
\* before the timeslots learn of the link; what it cannot generate or send, it gives up
PcLinkUp(l) ==
    /\ PcInput /\ l \notin pc_up /\ Len(pc_queue) < pc_site.len
    /\ pc_up' = pc_up \cup {l}
    /\ \/ l = "RSL" /\ pcu_info_update(pc_ts)
       \/ UNCHANGED <<pc_write, pc_queue, pc_untold>>
    /\ UNCHANGED <<pc_site, pcSock, pc_ts, pc_told, pc_held>>

\* cfg_bts_pcu_sock(): pcu_sock_exit(), and a pcu_sock_init() that may fail and leave the BTS with no socket
cfg_bts_pcu_sock ==
    /\ PcInput
    /\ pc_sock' \in BOOLEAN /\ pc_listen' = pc_sock'
    /\ pc_conn' = FALSE /\ pc_write' = FALSE /\ pc_queue' = <<>> /\ pc_told' = <<>>
    /\ UNCHANGED <<pc_site, pcBts>>

PcNext ==
    \/ pcu_sock_accept
    \/ \E sapi \in PcSapis : PcRead(sapi)
    \/ PcEnd
    \/ pcu_sock_write
    \/ PcWriteFails
    \/ \E t \in PcTs : PcTsChanges(t)
    \/ \E t \in PcTs : PcTsReport(t)
    \/ PcSystemInfo
    \/ PcRach
    \/ PcImmAssSent
    \/ \E l \in PcLinks : PcLinkDown(l)
    \/ \E l \in PcLinks : PcLinkUp(l)
    \/ cfg_bts_pcu_sock

PcSpec == PcInit /\ [][PcNext]_pcVars

\* a PCU that is connected reads its socket, so that the socket becomes writable again
PcFairness == WF_pcVars(pcu_sock_write)

-----------------------------------------------------------------------------

\* The socket is never left deaf: as long as there is one, the BSC stops listening for PCUs only while a PCU
\* is connected, through second connections, broken sockets and reconfiguration, and where the last
\* reconfiguration failed neither the old socket nor its PCU is left behind (pcu_sock_accept(),
\* pcu_sock_close(), cfg_bts_pcu_sock()).
PcListens == pc_sock <=> (pc_listen \/ pc_conn)

\* Messages are held only for a connected PCU: what was meant for the last one is never sent to the next
\* (pcu_sock_close() flushes the queue).
PcQueueIsForPcu == pc_queue # <<>> => pc_conn

\* A PCU that was told of the timeslots knows them as they are once its queue is empty, but for those that a
\* report or the loss of a link has changed since pcu_info_update() was last called: messages keep their
\* order and none is lost (pcu_info_update() after every change of pchan_is while the links are up).
PcKnows == pc_queue = <<>> /\ pc_told # <<>> => pc_told[1] \ pc_untold = PdchMask(pc_ts) \ pc_untold

\* The PCU socket survives any order of connections and losses: it listens or is connected, holds
\* nothing for a PCU that has gone, and has told the present one how things are.
PcSafe == PcTypeOK /\ PcListens /\ PcQueueIsForPcu /\ PcKnows

\* Every message for a PCU is eventually written, or the connection ends (pcu_sock_send() asks for
\* BSC_FD_WRITE, and pcu_sock_write() asks again where the socket would block).
PcDrains == (pc_queue # <<>>) ~> (pc_queue = <<>>)

=============================================================================
