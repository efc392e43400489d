------------------------------- MODULE SwLoad -------------------------------
(***************************************************************************)
(* The programs that configure a BTS over OML, ipaccess-config and         *)
(* bs11_config, and the software download of abis_nm.c that both use.      *)
(*                                                                         *)
(* The download is one global state machine (g_sw): LOAD INIT, segments in *)
(* windows that the BTS acknowledges, LOAD END, and for the BS-11 one file *)
(* of a list after the other and ACTIVATE SW.  It calls the program back,  *)
(* and its requests go through the same queue as the program's own.        *)
(***************************************************************************)
EXTENDS Integers, Sequences, SequencesExt

CONSTANTS SwSites   \* the invocations considered

Programs == {"ipaccess-config", "bs11_config"}
IpaOptions == {"nvattr", "oml_ip", "get", "restart", "software", "listen", "loop"}
BsOptions == {"-D", "-r"}
BsCommands == {"none", "software", "query", "disconnect", "reconnect", "delete-trx1", "create-trx1",
               "pll", "pll-workvalue", "oml-tei", "restart", "create-bport1", "delete-bport1", "bport"}

\* opts: what ipaccess-config is asked to do, and the options of bs11_config;  command: its command;
\* files: the number of segments of each file, the list of the BS-11 being all of them;  bad: those that cannot be opened;
\* nacks: the requests the BTS refuses;  aborts: it may abort the download;
\* reports: how often a radio carrier reports its state;  phase: the state the BS-11 is in
SwSite == [program : Programs, opts : SUBSET (IpaOptions \cup BsOptions), command : BsCommands, files : Seq(Nat \ {0}), bad : SUBSET Nat,
           win : Nat \ {0}, forced : BOOLEAN, nacks : SUBSET STRING, aborts : BOOLEAN, reports : Nat, phase : STRING]

VARIABLES
    sw_site,
    sw_load,    \* g_sw, and what is left of the file list of the BS-11
    sw_prog,    \* the static variables of the program
    sw_queue,   \* bts->abis_queue
    sw_pend,    \* bts->abis_nm_pend
    sw_down,    \* sent to the BTS
    sw_up,      \* sent by the BTS
    sw_bts,     \* the BTS: what it has been told and done
    sw_left     \* how many state reports are still to come

swVars == <<sw_site, sw_load, sw_prog, sw_queue, sw_pend, sw_down, sw_up, sw_bts, sw_left>>

Bs11 == sw_site.program = "bs11_config"
Msg(mt) == [mt |-> mt, n |-> 0]
Direct == {"LOAD_SEG", "RESTART_IPA"}   \* abis_nm_sendmsg_direct(): no answer is waited for

SwInit ==
    /\ sw_site \in SwSites
    /\ sw_load = [state |-> "NONE", seg |-> 0, last |-> FALSE, file |-> 0, pos |-> 1, list |-> <<>>, swl |-> FALSE, n |-> 0]
    /\ sw_prog = [found |-> FALSE, oml |-> FALSE, loaded |-> FALSE, test |-> 0, partial |-> FALSE,
                  st |-> "NONE", command |-> sw_site.command, disc |-> sw_site.opts \cap BsOptions # {}, timer |-> FALSE, exit |-> "no"]
    /\ sw_queue = <<>>
    /\ sw_pend = Bs11
    /\ sw_down = IF Bs11 THEN <<Msg("LMT_LOGON")>> ELSE <<>>    \* main()
    /\ sw_up = <<>>
    /\ sw_bts = [got |-> 0, did |-> {}, logon |-> FALSE, phase |-> sw_site.phase]
    /\ sw_left = [TRANSC |-> 1, CARRIER |-> sw_site.reports]

SwTypeOK ==
    /\ sw_site \in SwSites
    /\ sw_load.state \in {"NONE", "WAIT_INITACK", "WAIT_SEGACK", "WAIT_ENDACK", "WAIT_ACTACK", "ERROR"}
    /\ sw_load.seg \in 0 .. sw_site.win /\ sw_load.file \in 0 .. Len(sw_site.files)
    /\ sw_prog.st \in {"NONE", "LOGON_ACK", "SWLOAD", "QUERY"}
    /\ sw_prog.exit \in {"no", "0", "3", "4", "5", "6", "-1", "-3"}
    /\ {sw_pend, sw_load.last, sw_prog.timer} \subseteq BOOLEAN

-----------------------------------------------------------------------------
(* The queue of abis_nm.c.  A call of exit() ends the program at once.     *)

SwState == [load |-> sw_load, prog |-> sw_prog, queue |-> sw_queue, pend |-> sw_pend, down |-> sw_down]

SwBecome(s) ==
    \E v \in {s} :
        /\ sw_load' = v.load /\ sw_prog' = v.prog /\ sw_queue' = v.queue /\ sw_pend' = v.pend /\ sw_down' = v.down
        /\ UNCHANGED sw_site

\* Step(s), evaluated once for the value of s
SwThen(s, Step(_)) == CHOOSE v \in {Step(t) : t \in {s}} : TRUE

Running(s) == s.prog.exit = "no"
Exit(s, status) == IF Running(s) THEN [s EXCEPT !.prog.exit = status] ELSE s

\* abis_nm_queue_msg()
SwSend(s, m) ==
    SwThen(s, LAMBDA t :
        IF ~Running(t) THEN t
        ELSE IF t.pend \/ t.queue # <<>> THEN [t EXCEPT !.queue = Append(@, m)]
        ELSE [t EXCEPT !.pend = m.mt \notin Direct, !.down = Append(@, m)])

RECURSIVE SwSendAll(_, _)
SwSendAll(s, mts) == IF mts = <<>> THEN s ELSE SwSendAll(SwSend(s, Msg(Head(mts))), Tail(mts))

\* abis_nm_queue_send_next()
SwSendNext(s) ==
    SwThen(s, LAMBDA t :
        LET first == SelectInSeq(t.queue, LAMBDA m : m.mt \notin Direct)
            n == IF first = 0 THEN Len(t.queue) ELSE first
        IN  IF ~Running(t) THEN t
            ELSE [t EXCEPT !.down = @ \o SubSeq(t.queue, 1, n), !.queue = SubSeq(@, n + 1, Len(@)), !.pend = (first # 0)])

-----------------------------------------------------------------------------
(* The software download.                                                  *)

Segments(s) == sw_site.files[s.load.file]

\* sw_open_file(): the file is not there, or it is not one of software
sw_open_fails(file) == file \in sw_site.bad

\* sw_load_init(), sw_load_end(), sw_activate()
sw_load_init(s) == SwSend(s, Msg("LOAD_INIT"))
sw_load_end(s) == SwSend(s, Msg("LOAD_END"))
sw_activate(s) == SwSend(s, Msg("ACTIVATE_SW"))

\* abis_nm_software_load(): seg_in_window and last_seg are not reset
abis_nm_software_load(s, file) ==
    IF s.load.state # "NONE" THEN [s |-> s, rc |-> "EBUSY"]
    ELSE IF sw_open_fails(file) THEN [s |-> s, rc |-> "EIO"]
    ELSE [s |-> sw_load_init([s EXCEPT !.load.state = "WAIT_INITACK", !.load.file = file, !.load.pos = 1, !.load.n = 0]),
          rc |-> "0"]

abis_nm_software_activate(s) ==
    IF s.load.state # "NONE" THEN s
    ELSE sw_activate([s EXCEPT !.load.state = "WAIT_ACTACK"])

\* sw_load_segment(): the BS-11 sends a line and does not count the last one; for the nanoBTS
\* only a short read, beyond the end an empty one, sets last_seg
sw_load_segment(s) ==
    LET last == s.load.pos >= Segments(s)
    IN  SwSend([s EXCEPT !.load.pos = @ + 1,
                         !.load.n = @ + 1,
                         !.load.last = IF Bs11 THEN last ELSE @ \/ last,
                         !.load.seg = IF Bs11 /\ last THEN @ ELSE @ + 1],
               [mt |-> "LOAD_SEG", n |-> s.load.pos])

RECURSIVE Mut_sw_fill_window(_)
Mut_sw_fill_window(s) ==
    IF s.load.seg > sw_site.win THEN s
    ELSE LET t == sw_load_segment(s) IN IF t.load.last THEN t ELSE Mut_sw_fill_window(t)

\* sw_fill_window()
RECURSIVE sw_fill_window(_)
sw_fill_window(s) ==
    IF s.load.seg >= sw_site.win THEN s
    ELSE LET t == sw_load_segment(s) IN IF t.load.last THEN t ELSE sw_fill_window(t)

\* swload_cbfn() of bs11_config.c: a download that is not of the list is the safety load
swload_cbfn_bs11(s, mt, ok) ==
    CASE mt = "LOAD_INIT" /\ ~ok -> Exit(s, "5")
      [] mt = "LOAD_END" /\ ok -> IF s.load.swl THEN s ELSE abis_nm_software_activate(s)
      [] mt = "LOAD_END" /\ ~ok -> Exit(s, "3")
      [] mt = "ACTIVATE_SW" -> IF ok THEN [s EXCEPT !.prog.st = "NONE"] ELSE Exit(s, "4")
      [] OTHER -> s

Mut_bs11_swload_cbfn(s, mt, ok) ==
    IF mt = "LOAD_END" /\ ok THEN abis_nm_software_activate(s) ELSE swload_cbfn_bs11(s, mt, ok)

\* bs11_swload_cbfn()
bs11_swload_cbfn(s, mt, ok) ==
    IF mt # "LOAD_END" \/ ~ok THEN swload_cbfn_bs11(s, mt, ok)
    ELSE IF s.load.list = <<>> THEN abis_nm_software_activate(s)
    ELSE abis_nm_software_load([s EXCEPT !.load.list = Tail(@)], Head(s.load.list)).s

Mut_swload_cbfn_ipa(s, mt, ok) ==
    IF mt = "LOAD_END" /\ ok THEN SwSend([s EXCEPT !.prog.loaded = TRUE], Msg("SET_NVATTR_SW")) ELSE s

\* swload_cbfn() of ipaccess-config.c
swload_cbfn_ipa(s, mt, ok) ==
    CASE mt = "LOAD_INIT" /\ ~ok -> Exit(s, "5")
      [] mt = "LOAD_END" -> IF ok THEN SwSend([s EXCEPT !.prog.loaded = TRUE], Msg("SET_NVATTR_SW")) ELSE Exit(s, "3")
      [] mt = "LOAD_ABORT" -> Exit(s, "6")
      [] OTHER -> s

Callback(s, mt, ok) ==
    SwThen(s, LAMBDA t :
        IF ~Bs11 THEN swload_cbfn_ipa(t, mt, ok)
        ELSE IF t.load.swl THEN bs11_swload_cbfn(t, mt, ok) ELSE swload_cbfn_bs11(t, mt, ok))

Mut_abis_nm_rcvmsg_sw(s, mt, ok) ==
    IF s.load.state = "WAIT_SEGACK" /\ mt = "LOAD_SEG"
    THEN SwSendNext(SwSend([s EXCEPT !.load.state = "WAIT_ENDACK", !.load.seg = 0], Msg("LOAD_END")))
    ELSE IF s.load.state = "WAIT_INITACK" THEN SwSendNext([sw_fill_window(s) EXCEPT !.load.state = "WAIT_SEGACK"])
    ELSE s

\* abis_nm_rcvmsg_sw()
abis_nm_rcvmsg_sw(s, mt, ok) ==
    LET Go(t, state) == [t EXCEPT !.load.state = state]
        fine == ok \/ sw_site.forced
    IN  CASE s.load.state = "WAIT_INITACK" /\ mt = "LOAD_INIT" ->
               SwSendNext(IF fine THEN Go(sw_fill_window(Callback(s, mt, TRUE)), "WAIT_SEGACK")
                          ELSE Go(Callback(s, mt, FALSE), "ERROR"))
          [] s.load.state = "WAIT_SEGACK" /\ mt = "LOAD_SEG" ->
               LET t == [Callback(s, mt, TRUE) EXCEPT !.load.seg = 0]
               IN  SwSendNext(IF t.load.last THEN sw_load_end(Go(t, "WAIT_ENDACK")) ELSE sw_fill_window(t))
          [] s.load.state = "WAIT_SEGACK" /\ mt = "LOAD_ABORT" -> Callback(s, mt, TRUE)
          [] s.load.state = "WAIT_ENDACK" /\ mt = "LOAD_END" ->
               SwSendNext(Callback(Go(s, IF fine THEN "NONE" ELSE "ERROR"), mt, fine))
          [] s.load.state = "WAIT_ACTACK" /\ mt = "ACTIVATE_SW" ->
               SwSendNext(Callback(Go(s, IF ok THEN "NONE" ELSE "ERROR"), mt, ok))
          [] OTHER -> s

LoadMessages == {"LOAD_INIT", "LOAD_SEG", "LOAD_ABORT", "LOAD_END", "ACTIVATE_SW"}

-----------------------------------------------------------------------------
(* ipaccess-config.                                                        *)

Asked(o) == o \in sw_site.opts

Mut_check_restart_or_exit(s) == Exit(s, "0")

\* check_restart_or_exit()
check_restart_or_exit(s) == IF Asked("restart") THEN SwSend(s, Msg("RESTART_IPA")) ELSE Exit(s, "0")

\* ipacc_msg_ack() and ipacc_msg_nack()
ipacc_msg(s, ok) ==
    IF ~ok THEN Exit(s, "-1") ELSE IF s.prog.loaded \/ s.prog.oml THEN check_restart_or_exit(s) ELSE s

\* bootstrap_om()
bootstrap_om(s) ==
    LET set == Asked("nvattr") \/ Asked("oml_ip")
        ops == (IF Asked("get") THEN <<"GET_ATTR">> ELSE <<>>) \o (IF set THEN <<"SET_NVATTR">> ELSE <<>>)
               \o (IF Asked("restart") /\ ~Asked("oml_ip") /\ ~Asked("software") THEN <<"RESTART_IPA">> ELSE <<>>)
    IN  SwSendAll([s EXCEPT !.prog.oml = @ \/ set \/ Asked("get")], ops)

\* ipac_nwl_test_start(): the state of the test is not changed by starting it
ipac_nwl_test_start(s, nr) == IF s.prog.partial THEN s ELSE SwSend([s EXCEPT !.prog.test = nr], Msg("PERF_TEST"))

\* test_rep() of network_listen.c, and nwl_sig_cb() of ipaccess-config.c: channel usage (1), BCCH usage (2), BCCH information (3)
test_rep(s, complete) ==
    LET t == [s EXCEPT !.prog.partial = ~complete]
    IN  IF ~complete THEN t
        ELSE IF t.prog.test < 3 THEN ipac_nwl_test_start(t, t.prog.test + 1)
        ELSE IF Asked("loop") THEN ipac_nwl_test_start(t, 1) ELSE Exit(t, "0")

\* nm_state_event(), of a baseband transceiver
TranscEvent(s) == IF s.prog.found THEN s ELSE [bootstrap_om(s) EXCEPT !.prog.found = TRUE]

\* nm_state_event(), of a radio carrier that has become available
CarrierEvent(s) ==
    IF Asked("listen") THEN ipac_nwl_test_start(s, 1)
    ELSE IF ~Asked("software") THEN s
    ELSE LET r == abis_nm_software_load(s, 1) IN IF r.rc = "0" THEN r.s ELSE Exit(r.s, "-3")

\* abis_nm_rcvmsg() and nm_sig_cb()
IpaRcv(s, item) ==
    CASE item.mt = "TRANSC" -> TranscEvent(s)
      [] item.mt = "CARRIER" -> CarrierEvent(s)
      [] item.mt = "TEST_REP" -> test_rep(s, item.ok)
      [] item.mt \in LoadMessages -> abis_nm_rcvmsg_sw(s, item.mt, item.ok)
      [] item.mt \in {"SET_NVATTR", "SET_NVATTR_SW"} -> SwSendNext(ipacc_msg(s, item.ok))
      [] item.mt = "RESTART_IPA" -> Exit(s, "0")
      [] item.mt = "GET_ATTR" /\ item.ok -> Exit(s, "0")
      [] OTHER -> SwSendNext(s)

-----------------------------------------------------------------------------
(* bs11_config.                                                            *)

\* create_objects()
create_objects == [i \in 1 .. 10 |-> "CREATE_OBJ"] \o <<"SET_ATTR", "SET_ATTR", "SET_ATTR">>
\* create_trx1()
create_trx1 == <<"SET_ATTR", "CREATE_OBJ", "CREATE_OBJ", "SET_ATTR">>
\* cmd_query(), without a second TRX
cmd_query == [i \in 1 .. 7 |-> "GET_ATTR"] \o <<"LMT_LOGOFF">>

\* what each command sends in maintenance, and whether it is then forgotten
Maintenance ==
    [c \in BsCommands |->
        CASE c = "disconnect" -> <<"LMT_LOGOFF">>
          [] c = "reconnect" -> <<"RECONNECT">>
          [] c = "delete-trx1" -> <<"CHG_ADM_STATE", "CHG_ADM_STATE", "DELETE_OBJ", "DELETE_OBJ", "LMT_LOGOFF">>
          [] c = "create-trx1" -> Append(create_trx1, "LMT_LOGOFF")
          [] c = "pll-workvalue" -> <<"LMT_LOGOFF", "LMT_LOGON", "SET_ATTR", "LMT_LOGOFF">>
          [] c \in {"pll", "bport"} -> <<"SET_ATTR", "LMT_LOGOFF">>
          [] c = "oml-tei" -> <<"SET_ATTR">>
          [] c = "restart" -> <<"RESTART">>
          [] c = "query" -> cmd_query
          [] c = "create-bport1" -> <<"CREATE_OBJ", "LMT_LOGOFF">>
          [] c = "delete-bport1" -> <<"CHG_ADM_STATE", "DELETE_OBJ", "LMT_LOGOFF">>
          [] OTHER -> <<>>]

\* abis_nm_bs11_load_swl(), bs11_read_swl_file()
abis_nm_bs11_load_swl(s) ==
    abis_nm_software_load([s EXCEPT !.load.swl = TRUE, !.load.list = [i \in 1 .. Len(sw_site.files) - 1 |-> i + 1]], 1).s

\* handle_state_resp() in BS11_STATE_MAINTENANCE
InMaintenance(s) ==
    LET c == s.prog.command IN
    IF c = "software"
    THEN IF s.prog.st = "SWLOAD" THEN s
         ELSE abis_nm_bs11_load_swl([s EXCEPT !.prog.st = "SWLOAD"])
    ELSE SwSendAll([s EXCEPT !.prog.command = IF c \in {"disconnect", "reconnect"} THEN c ELSE "none",
                             !.prog.st = IF c = "query" THEN "QUERY" ELSE @],
                   Maintenance[c])

\* handle_state_resp() in BS11_STATE_NORMAL
InNormal(s) ==
    LET c == s.prog.command IN
    CASE c = "reconnect" -> SwSendAll(s, <<"LMT_LOGOFF">>)
      [] c = "disconnect" -> SwSendAll(s, <<"DISCONNECT">>)
      [] c = "query" -> SwSendAll([s EXCEPT !.prog.command = "none", !.prog.st = "QUERY"], cmd_query)
      [] c = "none" /\ s.prog.disc -> SwSendAll([s EXCEPT !.prog.disc = FALSE],
                                                IF Asked("-r") THEN <<"DISCONNECT", "RESTART">> ELSE <<"DISCONNECT">>)
      [] OTHER -> s

\* handle_state_resp()
handle_state_resp(s, phase) ==
    CASE phase = "SOFTWARE_RQD" -> abis_nm_software_load([s EXCEPT !.prog.st = "SWLOAD", !.load.swl = FALSE], 1).s
      [] phase = "WAIT_MIN_CFG" -> SwSendAll([s EXCEPT !.prog.st = "SWLOAD"], create_objects)
      [] phase = "MAINTENANCE" -> InMaintenance(s)
      [] phase = "NORMAL" -> InNormal(s)
      [] OTHER -> s

\* abis_nm_bs11cfg_rcvmsg(): what it does with the message
BsHandle(s, item) ==
    CASE item.mt = "LMT_LOGON" -> SwSend([s EXCEPT !.prog.st = IF @ = "NONE" THEN "LOGON_ACK" ELSE @], Msg("GET_STATE"))
      [] item.mt = "LMT_LOGOFF" -> Exit(s, "0")
      [] item.mt = "GET_STATE" -> handle_state_resp(s, item.phase)
      [] item.mt \in {"GET_ATTR", "SET_ATTR", "CREATE_OBJ", "DELETE_OBJ"} -> s
      [] item.mt \in LoadMessages -> abis_nm_rcvmsg_sw(s, item.mt, item.ok)
      [] OTHER -> SwSendNext(s)

\* abis_nm_bs11cfg_rcvmsg(): whatever the message was, the next one goes
BsRcv(s, item) ==
    LET t == SwSendNext(BsHandle(s, item))
    IN  CASE t.prog.st = "NONE" -> SwSend(t, Msg("LMT_LOGON"))
          [] t.prog.st = "LOGON_ACK" -> [t EXCEPT !.prog.timer = TRUE]
          [] OTHER -> t

-----------------------------------------------------------------------------
(* The steps.                                                              *)

Answer(m, ok) == [mt |-> m.mt, ok |-> ok, phase |-> sw_bts.phase]

\* the BS-11 goes on to its next phase
Phase(mt) ==
    CASE mt = "ACTIVATE_SW" /\ sw_bts.phase = "SOFTWARE_RQD" -> "WAIT_MIN_CFG"
      [] mt = "RECONNECT" -> "NORMAL"
      [] mt = "DISCONNECT" -> "MAINTENANCE"
      [] OTHER -> sw_bts.phase

\* the BTS takes a message.  It acknowledges the segments when a window or the file is complete,
\* and reports on a test, perhaps a part first.
SwBtsReceive ==
    /\ sw_down # <<>>
    /\ sw_down' = Tail(sw_down)
    /\ LET m == Head(sw_down)
           refused == m.mt \in sw_site.nacks
           full == sw_bts.got + 1 >= sw_site.win \/ m.n >= sw_site.files[sw_load.file]
       IN  IF m.mt = "LOAD_SEG"
           THEN /\ sw_bts' = [sw_bts EXCEPT !.got = IF full THEN 0 ELSE @ + 1]
                /\ \/ ~full /\ sw_up' = sw_up
                   \/ full /\ sw_up' = Append(sw_up, Answer(m, TRUE))
                   \/ full /\ sw_site.aborts /\ sw_up' = Append(sw_up, [Answer(m, TRUE) EXCEPT !.mt = "LOAD_ABORT"])
           ELSE /\ sw_bts' = IF refused THEN sw_bts ELSE [sw_bts EXCEPT !.did = @ \cup {m.mt}, !.phase = Phase(m.mt)]
                /\ IF m.mt = "PERF_TEST" /\ ~refused
                   THEN \E parts \in BOOLEAN :
                          sw_up' = sw_up \o <<Answer(m, TRUE)>>
                                   \o (IF parts THEN <<[Answer(m, FALSE) EXCEPT !.mt = "TEST_REP"]>> ELSE <<>>)
                                   \o <<[Answer(m, TRUE) EXCEPT !.mt = "TEST_REP"]>>
                   ELSE sw_up' = Append(sw_up, Answer(m, ~refused))
    /\ UNCHANGED <<sw_site, sw_load, sw_prog, sw_queue, sw_pend, sw_left>>

\* the nanoBTS reports the state of its transceiver and of its radio carriers
SwReport(mt) ==
    /\ ~Bs11 /\ sw_left[mt] > 0
    /\ sw_left' = [sw_left EXCEPT ![mt] = @ - 1]
    /\ sw_up' = Append(sw_up, [mt |-> mt, ok |-> TRUE, phase |-> sw_bts.phase])
    /\ UNCHANGED <<sw_site, sw_load, sw_prog, sw_queue, sw_pend, sw_down, sw_bts>>

\* the program reads a message
SwReceive ==
    /\ sw_prog.exit = "no" /\ sw_up # <<>>
    /\ SwBecome(IF Bs11 THEN BsRcv(SwState, Head(sw_up)) ELSE IpaRcv(SwState, Head(sw_up)))
    /\ sw_up' = Tail(sw_up)
    /\ UNCHANGED <<sw_bts, sw_left>>

\* status_timer_cb()
status_timer_cb ==
    /\ sw_prog.exit = "no" /\ sw_prog.timer
    /\ SwBecome(SwSend([SwState EXCEPT !.prog.timer = FALSE], Msg("GET_STATE")))
    /\ UNCHANGED <<sw_up, sw_bts, sw_left>>

SwNext ==
    \/ SwBtsReceive
    \/ \E mt \in {"TRANSC", "CARRIER"} : SwReport(mt)
    \/ SwReceive
    \/ status_timer_cb

SwFairness == /\ WF_swVars(SwBtsReceive) /\ WF_swVars(SwReceive) /\ WF_swVars(status_timer_cb)
              /\ \A mt \in {"TRANSC", "CARRIER"} : WF_swVars(SwReport(mt))
SwSpec == SwInit /\ [][SwNext]_swVars /\ SwFairness

-----------------------------------------------------------------------------
(* Properties.                                                             *)

\* no second download follows the first in one run of ipaccess-config: last_seg would be stale
FirstLoad == Bs11 \/ sw_site.reports <= 1

\* LOAD END is sent only after every segment of the file has been sent, once each, however the
\* file divides into windows (sw_fill_window(), abis_nm_rcvmsg_sw()).
SwWholeFile == sw_load.state = "WAIT_ENDACK" /\ FirstLoad => sw_load.n = sw_site.files[sw_load.file]

Unacknowledged == sw_bts.got + Len(SelectSeq(sw_down \o sw_queue, LAMBDA m : m.mt = "LOAD_SEG"))

\* The segments that are queued, on their way or not acknowledged are never more than one window.
SwWindow == Unacknowledged <= sw_site.win

\* The list of files of a BS-11 is activated only after each file of it has been loaded (bs11_swload_cbfn()).
SwActivateAll ==
    sw_load.state = "WAIT_ACTACK" /\ sw_load.swl => sw_load.list = <<>> /\ sw_load.file = Len(sw_site.files)

\* what an invocation is to achieve at the BTS
Wanted ==
    (IF Asked("nvattr") \/ Asked("oml_ip") THEN {"SET_NVATTR"} ELSE {})
    \cup (IF Asked("get") THEN {"GET_ATTR"} ELSE {})
    \cup (IF Asked("software") THEN {"LOAD_END", "SET_NVATTR_SW"} ELSE {})
    \cup (IF Asked("restart") THEN {"RESTART_IPA"} ELSE {})
    \cup (IF Bs11 /\ sw_bts.phase = "MAINTENANCE" THEN ToSet(Maintenance[sw_site.command]) ELSE {})

Single == Cardinality(sw_site.opts \ {"restart", "loop"}) <= 1 /\ ~(Asked("get") /\ Asked("restart"))
          /\ sw_site.command # "pll-workvalue"

\* A program that ends with status 0 has had everything done that it was asked to do, when
\* it was asked for one thing only (ipacc_msg_ack(), nm_sig_cb(), abis_nm_bs11cfg_rcvmsg()).
SwExitMeansDone == sw_prog.exit = "0" /\ Single /\ sw_site.nacks = {} => Wanted \subseteq sw_bts.did

\* Software is loaded whole and in the window, all of it before it is activated, and
\* success is not reported before everything is done.
SwSafe == SwTypeOK /\ SwWholeFile /\ SwWindow /\ SwActivateAll /\ SwExitMeansDone

\* "Restart the BTS (after other operations)", the help of ipaccess-config.
SwRestartLast == "RESTART_IPA" \in sw_bts.did => Wanted \subseteq sw_bts.did

\* ipaccess-config comes to an end, unless it was told to listen for ever or attributes it reads are refused.
SwEnds == (~Bs11 /\ sw_site.opts \ {"loop"} # {} /\ ~Asked("loop") /\ "GET_ATTR" \notin sw_site.nacks) ~> (sw_prog.exit # "no")
=============================================================================
