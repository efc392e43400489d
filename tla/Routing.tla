------------------------------ MODULE Routing ------------------------------
(***************************************************************************)
(* Which MSC a connection goes to and which messages get there: the choice *)
(* of the MSC and the scan of the messages of the MS (gsm_08_08.c), the    *)
(* filter by IMSI (libfilter), the scan of the messages of the MSC         *)
(* (osmo_bsc_filter.c, dtap_rcvmsg of osmo_bsc_bssap.c).  A message is     *)
(* its type and what these functions read of it; the MSCs' access lists    *)
(* are sets of IMSIs, which stand for what their expressions match.        *)
(***************************************************************************)
EXTENDS Integers, Sequences, FiniteSets, FiniteSetsExt, SequencesExt

CONSTANTS RtConns,  \* the connections (and the MS at the other end)
          RtMsgs,   \* the messages of the MSs
          RtSites   \* the configurations, of type RtSite

Imsis == {"i1", "i2"}
RtMscs == {"m1", "m2", "loc"}
Services == {"call", "sms", "emergency", "ssa"}
\* t: the type;  id: whose mobile identity is in it, by: of which kind;  svc: the service of a CM SERVICE REQUEST;
\* far: LOCATION UPDATING REQUEST from another area, or SETUP for a number of the local MSC
RtMsg == [t : {"LU", "CM", "PAG", "ID", "SETUP", "OTHER"}, id : Imsis, by : {"imsi", "tmsi"}, svc : Services, far : BOOLEAN]
\* mscs: the MSCs in the order of the configuration;  emerg: allow-emergency;  acc: the access list of an MSC,
\* net: the one of the network ("none" for none);  allow, deny: the lists;  text: ussd texts are configured
RtSite == [mscs : Seq(RtMscs), emerg : SUBSET RtMscs, acc : [RtMscs -> {"none", "l1", "l2"}], net : {"none", "l1", "l2"},
           allow : [{"l1", "l2"} -> SUBSET Imsis], deny : [{"l1", "l2"} -> SUBSET Imsis], text : BOOLEAN, events : Nat]
ASSUME RtInputs == RtMsgs \subseteq RtMsg /\ RtSites \subseteq RtSite

VARIABLES rt_site,
          rt_mscs,   \* bsc_data->mscs, in the order of the list
          rt_ready,  \* a_reset_conn_ready of each MSC
          rt_grace,  \* new connections are refused by the RF policy
          rt_conn,   \* the connections
          rt_paged,  \* the MSC whose paging of a subscriber is pending, "none" for none
          rt_did,    \* what the last step was and did
          rt_used,   \* when each MSC was taken last
          rt_steps
rtVars == <<rt_site, rt_mscs, rt_ready, rt_grace, rt_conn, rt_paged, rt_did, rt_used, rt_steps>>

RtTypes == [m \in RtMscs |-> IF m = "loc" THEN "LOCAL" ELSE "NORMAL"]
NoConn == [st |-> "none", msc |-> "none", sccp |-> "none", imsi_checked |-> FALSE, con_type |-> "NONE", new_subscriber |-> FALSE]

--------------------------------------------------------------------------
(* The filter: libfilter/bsc_msg_filter.c, bsc_msg_acc.c *)

\* apply white/black list, of the MSC and then of the network; the barr list is not used by the BSC
Mut_auth_imsi(msc, imsi) ==
    LET bsc == rt_site.acc[msc]  nat == rt_site.net IN
    IF bsc # "none" /\ imsi \in rt_site.allow[bsc] THEN 1
    ELSE IF bsc # "none" /\ imsi \in rt_site.deny[bsc] THEN -2
    ELSE 1
auth_imsi(msc, imsi) ==
    LET bsc == rt_site.acc[msc]  nat == rt_site.net IN
    IF bsc # "none" /\ imsi \in rt_site.allow[bsc] THEN 1
    ELSE IF bsc # "none" /\ imsi \in rt_site.deny[bsc] THEN -2
    ELSE IF nat # "none" /\ imsi \in rt_site.allow[nat] THEN 1
    ELSE IF nat # "none" /\ imsi \in rt_site.deny[nat] THEN -3
    ELSE 1

\* The first message: only those with an IMSI are looked at
bsc_msg_filter_initial(msc, m) ==
    [rc |-> IF m.t \in {"LU", "CM", "PAG"} /\ m.by = "imsi" THEN auth_imsi(msc, m.id) ELSE 0,
     con_type |-> CASE m.t = "LU" -> "LU" [] m.t = "PAG" -> "PAG_RESP"
                    [] m.t = "CM" -> (IF m.svc = "ssa" THEN "SSA" ELSE "CM_SERV_REQ") [] OTHER -> "OTHER"]

\* Later messages: the IDENTITY RESPONSEs up to the first with an IMSI
bsc_msg_filter_data(conn, m) ==
    IF ~conn.imsi_checked /\ m.t = "ID" /\ m.by = "imsi"
    THEN [rc |-> auth_imsi(conn.msc, m.id), checked |-> TRUE]
    ELSE [rc |-> 0, checked |-> conn.imsi_checked]

--------------------------------------------------------------------------
(* The MSC of a connection: gsm_08_08.c *)

\* msc->is_authenticated is set when the MSC is configured and stays so
Eligible(m, msc) == IF m.t = "CM" /\ m.svc = "emergency" THEN msc \in rt_site.emerg ELSE RtTypes[msc] = "NORMAL"

\* The MSC that paged, or the next in turn; "none" if there is none
Mut_bsc_find_msc(m) ==
    LET Fit == {n \in DOMAIN rt_mscs : Eligible(m, rt_mscs[n])}
    IN  IF Fit = {} THEN "none" ELSE rt_mscs[Min(Fit)]
bsc_find_msc(m) ==
    LET Fit == {n \in DOMAIN rt_mscs : Eligible(m, rt_mscs[n])}
    IN  IF m.t = "PAG" THEN rt_paged[m.id]
        ELSE IF Fit = {} THEN "none" ELSE rt_mscs[Min(Fit)]

\* force round robin by moving it to the end
Mut_MoveToEnd(mscs, msc) == mscs
MoveToEnd(mscs, msc) == IF msc = "none" THEN mscs ELSE Append(SelectSeq(mscs, LAMBDA x : x # msc), msc)

osmo_bsc_sigtran_new_conn(msc) ==
    IF ~rt_ready[msc] THEN "NO_LINK" ELSE IF rt_grace THEN "RF_GRACE" ELSE "SUCCESS"

\* A text goes to an MS that asked for a call or for SMS
bsc_send_ussd_no_srv(m) == IF rt_site.text /\ m.t = "CM" /\ m.svc \in {"call", "sms"} THEN {"accept", "ussd"} ELSE {}

bsc_maybe_lu_reject(con_type) == IF con_type = "LU" THEN {"lu_reject"} ELSE {}

\* The scan of a message on its way to the MSC: the end of a paging, a subscriber new to the area
handle_page_resp(paged, m) == IF m.t = "PAG" THEN [paged EXCEPT ![m.id] = "none"] ELSE paged
handle_lu_request(conn, m) == IF m.t = "LU" /\ m.far THEN [conn EXCEPT !.new_subscriber = TRUE] ELSE conn

\* The connection, the pagings and the effects of COMPLETE LAYER 3; ok is FALSE if nothing was sent.  Only a
\* connection in ST_INIT takes GSCON_EV_A_CONN_REQ and opens its SCCP connection
complete_layer3(conn, m, msc) ==
    LET f == bsc_msg_filter_initial(msc, m)
        r == osmo_bsc_sigtran_new_conn(msc)
        k == handle_lu_request([conn EXCEPT !.msc = msc, !.con_type = f.con_type], m)
    IN  IF f.rc < 0 THEN [conn |-> conn, paged |-> rt_paged, out |-> bsc_maybe_lu_reject(f.con_type), ok |-> FALSE]
        ELSE IF r # "SUCCESS" THEN [conn |-> conn, paged |-> rt_paged, out |-> bsc_send_ussd_no_srv(m), ok |-> FALSE]
        ELSE [conn |-> IF conn.st = "none" THEN [k EXCEPT !.st = "wait_cc", !.sccp = msc] ELSE k,
              paged |-> handle_page_resp(rt_paged, m),
              out |-> IF conn.st = "none" THEN {"compl_l3"} ELSE {}, ok |-> TRUE]

Did(c, m, to, out) == [c |-> c, m |-> m, to |-> to, out |-> out]

\* gsm0408_rcvmsg and bsc_compl_l3 for the first message of an MS: without success the connection ends again
bsc_compl_l3(c, m) ==
    /\ rt_conn[c].st = "none" /\ m.t \in {"LU", "CM", "PAG", "OTHER"}
    /\ LET msc == bsc_find_msc(m)
           r == IF msc = "none" THEN [conn |-> NoConn, paged |-> rt_paged, out |-> bsc_send_ussd_no_srv(m), ok |-> FALSE]
                ELSE complete_layer3(NoConn, m, msc)
       IN  /\ rt_mscs' = MoveToEnd(rt_mscs, msc)
           /\ rt_used' = IF msc = "none" THEN rt_used ELSE [rt_used EXCEPT ![msc] = rt_steps + 1]
           /\ rt_conn' = [rt_conn EXCEPT ![c] = IF r.ok THEN r.conn ELSE NoConn]
           /\ rt_paged' = r.paged
           /\ rt_did' = Did(c, m, IF r.ok THEN msc ELSE "none", r.out)
    /\ UNCHANGED <<rt_site, rt_ready, rt_grace>>

\* Sent over SCCP: in ACTIVE and with the MSC ready
bsc_clear_request(conn) == IF conn.st = "active" /\ rt_ready[conn.msc] THEN {"clear_request"} ELSE {}

\* "Plastic surgery": give up the connection and make one with the local MSC instead
move_to_msc(c, m, msc) ==
    LET r == complete_layer3(rt_conn[c], m, msc) IN
    /\ rt_conn' = [rt_conn EXCEPT ![c] = IF r.ok THEN r.conn ELSE [rt_conn[c] EXCEPT !.st = "released"]]
    /\ rt_paged' = r.paged
    /\ rt_did' = Did(c, m, "none", r.out \cup bsc_clear_request(rt_conn[c]))

handle_cc_setup(m) == m.t = "SETUP" /\ m.far /\ \E n \in DOMAIN rt_mscs : RtTypes[rt_mscs[n]] = "LOCAL"

\* A later message: it may move the connection, the filter may refuse it, or it goes to the MSC
bsc_dtap(c, m) ==
    LET conn == rt_conn[c]
        f == bsc_msg_filter_data(conn, m)
        k == [handle_lu_request(conn, m) EXCEPT !.imsi_checked = f.checked]
    IN
    /\ conn.st \in {"wait_cc", "active"} /\ m.t \in {"ID", "SETUP", "OTHER", "LU", "CM"}
    /\ IF ~rt_ready[conn.msc] THEN rt_did' = Did(c, m, "none", {}) /\ UNCHANGED <<rt_conn, rt_paged>>
       ELSE IF handle_cc_setup(m) THEN move_to_msc(c, m, "loc")
       ELSE IF f.rc < 0
       THEN /\ rt_conn' = [rt_conn EXCEPT ![c].imsi_checked = TRUE]
            /\ rt_did' = Did(c, m, "none", bsc_maybe_lu_reject(conn.con_type) \cup bsc_clear_request(conn))
            /\ UNCHANGED rt_paged
       ELSE /\ rt_conn' = [rt_conn EXCEPT ![c] = k]
            /\ rt_did' = Did(c, m, IF conn.st = "active" THEN conn.sccp ELSE "none",
                             IF conn.st = "active" THEN {"dtap"} ELSE {})
            /\ UNCHANGED rt_paged
    /\ UNCHANGED <<rt_site, rt_mscs, rt_ready, rt_grace, rt_used>>

NoMsg == [t |-> "OTHER", id |-> "i1", by |-> "tmsi", svc |-> "call", far |-> FALSE]
Nothing == Did(0, NoMsg, "none", {})

\* dtap_rcvmsg with bsc_scan_msc_msg: a LOCATION UPDATING ACCEPT is passed on and a new subscriber is welcomed
dtap_rcvmsg(c) ==
    /\ rt_conn[c].st = "active"
    /\ rt_did' = Did(c, NoMsg, "none", {"lu_accept"} \cup (IF rt_conn[c].new_subscriber /\ rt_site.text THEN {"welcome"} ELSE {}))
    /\ UNCHANGED <<rt_site, rt_mscs, rt_ready, rt_grace, rt_conn, rt_paged, rt_used>>

\* The rest of the A interface: CONNECTION CONFIRM, the end of a connection, PAGING, the link and the RF policy
RtMsc ==
    /\ \/ \E c \in RtConns : /\ rt_conn[c].st = "wait_cc" /\ rt_conn' = [rt_conn EXCEPT ![c].st = "active"]
                             /\ UNCHANGED <<rt_paged, rt_ready, rt_grace>>
       \/ \E c \in RtConns : /\ rt_conn[c].st \in {"active", "released"} /\ rt_conn' = [rt_conn EXCEPT ![c] = NoConn]
                             /\ UNCHANGED <<rt_paged, rt_ready, rt_grace>>
       \/ \E i \in Imsis, n \in DOMAIN rt_mscs :
             /\ rt_paged[i] = "none" /\ rt_ready[rt_mscs[n]] /\ rt_paged' = [rt_paged EXCEPT ![i] = rt_mscs[n]]
             /\ UNCHANGED <<rt_conn, rt_ready, rt_grace>>
       \/ \E n \in DOMAIN rt_mscs : /\ rt_ready' = [rt_ready EXCEPT ![rt_mscs[n]] = ~@]
                                    /\ UNCHANGED <<rt_conn, rt_paged, rt_grace>>
       \/ rt_grace' = ~rt_grace /\ UNCHANGED <<rt_conn, rt_paged, rt_ready>>
    /\ rt_did' = Nothing
    /\ UNCHANGED <<rt_site, rt_mscs, rt_used>>

RtInit == /\ rt_site \in RtSites /\ rt_mscs = rt_site.mscs
          /\ rt_ready = [m \in RtMscs |-> m \in ToSet(rt_mscs)] /\ rt_grace = FALSE
          /\ rt_conn = [c \in RtConns |-> NoConn] /\ rt_paged = [i \in Imsis |-> "none"]
          /\ rt_used = [m \in RtMscs |-> 0] /\ rt_steps = 0
          /\ rt_did = Nothing
RtNext == /\ rt_steps < rt_site.events /\ rt_steps' = rt_steps + 1
          /\ \/ \E c \in RtConns, m \in RtMsgs : bsc_compl_l3(c, m) \/ bsc_dtap(c, m)
             \/ \E c \in RtConns : dtap_rcvmsg(c)
             \/ RtMsc
RtSpec == RtInit /\ [][RtNext]_rtVars

--------------------------------------------------------------------------
(* Properties *)

\* The order of precedence documented above auth_imsi: the lists of the MSC before those of the network, and in
\* each allow before deny
Refused(msc, imsi) == \E l \in {rt_site.acc[msc], rt_site.net} \ {"none"} :
    /\ imsi \in rt_site.deny[l]
    /\ \A k \in {rt_site.acc[msc], l} \ {"none"} : imsi \notin rt_site.allow[k]

\* The message in which an MS first gives an IMSI that the access lists refuse does not get to the MSC, be it the
\* first of the connection or a later IDENTITY RESPONSE; a location update is answered by a reject.  A location
\* update or a service request on a connection there is already is not looked at (bsc_msg_filter_data)
RtRefused ==
    /\ (rt_did'.to # "none" /\ rt_did'.m.by = "imsi") =>
            \/ rt_did'.m.t \in {"LU", "CM", "PAG"} /\ ~Refused(rt_did'.to, rt_did'.m.id)
            \/ rt_did'.m.t = "ID" /\ (rt_conn[rt_did'.c].imsi_checked \/ ~Refused(rt_conn[rt_did'.c].msc, rt_did'.m.id))
            \/ rt_did'.m.t \in {"LU", "CM"} /\ rt_did'.out = {"dtap"}
            \/ rt_did'.m.t \in {"SETUP", "OTHER"}
    /\ \A msc \in RtMscs :
         (rt_used'[msc] # rt_used[msc] /\ rt_did'.m.t = "LU" /\ rt_did'.m.by = "imsi" /\ Refused(msc, rt_did'.m.id)) =>
            rt_did'.out = {"lu_reject"}

\* Round robin: of the MSCs that may take a connection the one is chosen that was taken longest ago, paging
\* responses, which go where the paging came from, counted in
RtInTurn == \A msc \in RtMscs :
    (rt_used'[msc] # rt_used[msc] /\ rt_did'.m.t # "PAG") =>
        \A other \in ToSet(rt_mscs) : Eligible(rt_did'.m, other) => rt_used[msc] <= rt_used[other]

\* The answer to a paging goes to the MSC that paged, and the paging is over once the connection is under way
RtPagedAnswered ==
    (rt_did'.m.t = "PAG" /\ rt_did'.to # "none") =>
        rt_did'.to = rt_paged[rt_did'.m.id] /\ rt_paged'[rt_did'.m.id] = "none"

\* Every connection gets to the right MSC: not past the access lists, in turn, and back to the one that paged.
RtSafe == [][RtRefused /\ RtInTurn /\ RtPagedAnswered]_rtVars

\* The MSC a connection belongs to is the one its SCCP connection goes to ("2. Attempt to create a new
\* connection to the local MSC" in move_to_msc)
RtOneMsc == \A c \in RtConns : rt_conn[c].msc = rt_conn[c].sccp
=============================================================================
