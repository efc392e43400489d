----------------------------- MODULE AInterface -----------------------------
(***************************************************************************)
(* The A interface: the RESET state machine of each MSC (a_reset.c), the   *)
(* SCCP connections (osmo_bsc_sigtran.c) and the subscriber connection FSM *)
(* that owns each of them (bsc_subscr_conn_fsm.c).                         *)
(*                                                                         *)
(* The SCCP stack (libosmo-sigtran) is external: "stack" holds, for each   *)
(* SS7 instance, the connections it has open.  Of the radio side only      *)
(* conn->lchan is kept; assignment and handover are their start and end.   *)
(***************************************************************************)
EXTENDS Integers, FiniteSets

CONSTANTS
    Msc, Conn,      \* core networks; subscriber connection objects
    Inst, InstOf,   \* SS7 instances; the cs7_instance of each MSC
    None,           \* no MSC (a NULL conn->sccp.msc)
    NIds,           \* number of SCCP connection ids: 2^24 in the code
    MaxReset        \* bound on RESET and RESET ACK messages under way per MSC

ASSUME AInterfaceAssumption ==
    /\ NIds \in Nat \ {0, 1} /\ MaxReset \in Nat \ {0}
    /\ InstOf \in [Msc -> Inst] /\ None \notin Msc

BAD_CONNECTION_THRESOLD == 3
Id == 0..(NIds - 1)
NoId == -1

VARIABLES
    reset,      \* state of msc->a.reset_fsm
    loss,       \* its conn_loss_counter
    toMsc,      \* RESETs on the way to the MSC
    acks,       \* RESET ACKs on the way back
    sent,       \* whether a RESET was sent since ST_DISC was entered
    state,      \* conn->fi->state, "free" when there is no such conn
    msc,        \* conn->sccp.msc
    id,         \* conn->sccp.conn_id
    sccp,       \* conn->sccp.state
    lchan,      \* conn->lchan: "none", "ok", or "failed" (release.in_error)
    ending,     \* conns the MSC is giving up: Clear Command, Handover Failure
    counter,    \* conn_id_counter
    stack,      \* the connections the SCCP stack has open
    early,      \* data was sent on a connection not yet confirmed
    abort       \* an OSMO_ASSERT() has failed

resetVars == <<reset, loss, toMsc, acks, sent>>
connVars == <<state, msc, id, sccp, lchan, ending>>
vars == <<resetVars, connVars, counter, stack, early, abort>>

ConnState == {"free", "INIT", "WAIT_CC", "ACTIVE", "ASSIGNMENT", "HANDOVER", "CLEARING"}

TypeOK ==
    /\ reset \in [Msc -> {"DISC", "CONN"}]
    /\ loss \in [Msc -> 0..BAD_CONNECTION_THRESOLD]
    /\ toMsc \in [Msc -> 0..MaxReset]
    /\ acks \in [Msc -> 0..MaxReset]
    /\ sent \in [Msc -> BOOLEAN]
    /\ state \in [Conn -> ConnState]
    /\ msc \in [Conn -> Msc \cup {None}]
    /\ id \in [Conn -> Id \cup {NoId}]
    /\ sccp \in [Conn -> {"NONE", "WAIT_CONN_CONF", "CONNECTED"}]
    /\ lchan \in [Conn -> {"none", "ok", "failed"}]
    /\ ending \subseteq Conn
    /\ counter \in Id
    /\ stack \in [Inst -> [Id -> {"idle", "calling", "called", "open"}]]
    /\ early \in BOOLEAN
    /\ abort \in BOOLEAN

\* a_reset_alloc() leaves the FSM in ST_DISC with the resend timer running.
Init ==
    /\ reset = [m \in Msc |-> "DISC"]
    /\ loss = [m \in Msc |-> 0]
    /\ toMsc = [m \in Msc |-> 0]
    /\ acks = [m \in Msc |-> 0]
    /\ sent = [m \in Msc |-> FALSE]
    /\ state = [c \in Conn |-> "free"]
    /\ msc = [c \in Conn |-> None]
    /\ id = [c \in Conn |-> NoId]
    /\ sccp = [c \in Conn |-> "NONE"]
    /\ lchan = [c \in Conn |-> "none"]
    /\ ending = {}
    /\ counter = 0
    /\ stack = [n \in Inst |-> [i \in Id |-> "idle"]]
    /\ early = FALSE
    /\ abort = FALSE

-----------------------------------------------------------------------------
\* The conn with an id, or none: get_bsc_conn_by_conn_id().
ByConnId(i) == {c \in Conn : state[c] # "free" /\ id[c] = i}

SccpUp == {c \in Conn : sccp[c] # "NONE"}

a_reset_conn_ready(m) == reset[m] = "CONN"

\* osmo_bsc_sigtran_send(): dropped unless the reset procedure is through.
\* The stack can only transmit data on a connection that is open.
osmo_bsc_sigtran_send(c) ==
    early' = (early \/ (/\ a_reset_conn_ready(msc[c])
                        /\ stack[InstOf[msc[c]]][id[c]] # "open"))

\* Mutant: no N-DISCONNECT.req is sent.
Mut_NoDisconnect(S, up, st) ==
    /\ state' = [c \in Conn |-> IF c \in S THEN "free" ELSE state[c]]
    /\ msc' = [c \in Conn |-> IF c \in S THEN None ELSE msc[c]]
    /\ id' = [c \in Conn |-> IF c \in S THEN NoId ELSE id[c]]
    /\ sccp' = [c \in Conn |-> IF c \in S THEN "NONE" ELSE sccp[c]]
    /\ lchan' = [c \in Conn |-> IF c \in S THEN "none" ELSE lchan[c]]
    /\ ending' = ending \ S
    /\ stack' = st
    /\ UNCHANGED early

\* The end of the conns in S: gscon_pre_term() releases the lchan, and
\* gscon_cleanup() frees the conn, after an N-DISCONNECT.req for those whose
\* SCCP state is still up.  "st" is the stack by then.
gscon_cleanup(S, up, st) ==
    /\ state' = [c \in Conn |-> IF c \in S THEN "free" ELSE state[c]]
    /\ msc' = [c \in Conn |-> IF c \in S THEN None ELSE msc[c]]
    /\ id' = [c \in Conn |-> IF c \in S THEN NoId ELSE id[c]]
    /\ sccp' = [c \in Conn |-> IF c \in S THEN "NONE" ELSE sccp[c]]
    /\ lchan' = [c \in Conn |-> IF c \in S THEN "none" ELSE lchan[c]]
    /\ ending' = ending \ S
    /\ stack' = [n \in Inst |-> [i \in Id |->
           IF \E c \in S \cap up : InstOf[msc[c]] = n /\ id[c] = i
           THEN "idle" ELSE st[n][i]]]
    /\ UNCHANGED early

-----------------------------------------------------------------------------
(* The RESET procedure.                                                    *)

\* fsm_conn_cb() on EV_N_DISCONNECT; ignored in ST_DISC.
a_reset_conn_fail(m) ==
    IF reset[m] = "DISC" THEN UNCHANGED <<reset, loss, sent>>
    ELSE IF loss[m] >= BAD_CONNECTION_THRESOLD
    THEN /\ reset' = [reset EXCEPT ![m] = "DISC"]
         /\ sent' = [sent EXCEPT ![m] = FALSE]
         /\ UNCHANGED loss
    ELSE /\ loss' = [loss EXCEPT ![m] = @ + 1]
         /\ UNCHANGED <<reset, sent>>

\* fsm_conn_cb() on EV_N_CONNECT; ignored in ST_DISC.
a_reset_conn_success(m) ==
    loss' = IF reset[m] = "CONN" THEN [loss EXCEPT ![m] = 0] ELSE loss

\* The conns osmo_bsc_sigtran_reset() terminates.
ConnsOf(m) == {c \in Conn : state[c] # "free" /\ msc[c] = m}

\* Mutants: the conns are left alone; the timer is not started again.
Mut_KeepConns(m) ==
    /\ reset[m] = "DISC"
    /\ toMsc[m] + acks[m] < MaxReset
    /\ toMsc' = [toMsc EXCEPT ![m] = @ + 1]
    /\ sent' = [sent EXCEPT ![m] = TRUE]
    /\ UNCHANGED <<reset, loss, acks, connVars, counter, stack, early, abort>>
Mut_SendOnce(m) ==
    /\ reset[m] = "DISC" /\ ~sent[m]
    /\ toMsc[m] + acks[m] < MaxReset
    /\ gscon_cleanup(ConnsOf(m), SccpUp, stack)
    /\ toMsc' = [toMsc EXCEPT ![m] = @ + 1]
    /\ sent' = [sent EXCEPT ![m] = TRUE]
    /\ UNCHANGED <<reset, loss, acks, counter, abort>>

\* fsm_reset_ack_timeout_cb(): close all conns of the MSC and send RESET.
fsm_reset_ack_timeout_cb(m) ==
    /\ reset[m] = "DISC"
    /\ toMsc[m] + acks[m] < MaxReset
    /\ gscon_cleanup(ConnsOf(m), SccpUp, stack)
    /\ toMsc' = [toMsc EXCEPT ![m] = @ + 1]
    /\ sent' = [sent EXCEPT ![m] = TRUE]
    /\ UNCHANGED <<reset, loss, acks, counter, abort>>

\* bssmap_handle_reset_ack() and fsm_disc_cb(); ignored in ST_CONN.
bssmap_handle_reset_ack(m) ==
    /\ acks[m] > 0
    /\ acks' = [acks EXCEPT ![m] = @ - 1]
    /\ reset' = [reset EXCEPT ![m] = "CONN"]
    /\ loss' = [loss EXCEPT ![m] = IF reset[m] = "DISC" THEN 0 ELSE @]
    /\ UNCHANGED <<toMsc, sent, connVars, counter, stack, early, abort>>

\* bssmap_handle_reset(): the MSC has restarted.  The RESET ACK we send needs
\* no state here; the pages the MSC asked for are dropped in module Paging.
bssmap_handle_reset(m) ==
    /\ gscon_cleanup(ConnsOf(m), SccpUp, stack)
    /\ UNCHANGED <<resetVars, counter, abort>>

\* The MSC (external) answers a RESET; a RESET or its answer may be lost.
MscAnswersReset(m) ==
    /\ toMsc[m] > 0
    /\ toMsc' = [toMsc EXCEPT ![m] = @ - 1]
    /\ acks' = [acks EXCEPT ![m] = @ + 1]
    /\ UNCHANGED <<reset, loss, sent, connVars, counter, stack, early, abort>>

ResetLost(m) ==
    /\ \/ toMsc[m] > 0 /\ toMsc' = [toMsc EXCEPT ![m] = @ - 1] /\ UNCHANGED acks
       \/ acks[m] > 0 /\ acks' = [acks EXCEPT ![m] = @ - 1] /\ UNCHANGED toMsc
    /\ UNCHANGED <<reset, loss, sent, connVars, counter, stack, early, abort>>

-----------------------------------------------------------------------------
(* Connections opened by a mobile station.                                 *)

\* Mutant: the search takes the next id unseen.
Mut_NextId(i) == i = (counter + 1) % NIds

\* pick_free_conn_id(): the ids after the counter, in order, up to but not
\* including the counter itself; the first one no conn has.
Tries == {k \in 1..(NIds - 1) : ByConnId((counter + k) % NIds) = {}}
pick_free_conn_id(i) ==
    \E k \in Tries : /\ \A j \in Tries : k <= j
                     /\ i = (counter + k) % NIds

\* gsm0408_rcvmsg(), first Layer 3 message: a conn is allocated, and
\* bsc_compl_l3() opens an SCCP connection for it.  Rejection (filter, grace,
\* no MSC, no free id, SCCP error) terminates it in the same step.
gsm0408_rcvmsg(c, m) ==
    /\ state[c] = "free"
    /\ a_reset_conn_ready(m)
    /\ \E i \in Id :
         /\ pick_free_conn_id(i)
         /\ id' = [id EXCEPT ![c] = i]
         /\ counter' = i
         /\ stack' = [stack EXCEPT ![InstOf[m]][i] = "calling"]
    /\ state' = [state EXCEPT ![c] = "WAIT_CC"]
    /\ msc' = [msc EXCEPT ![c] = m]
    /\ sccp' = [sccp EXCEPT ![c] = "WAIT_CONN_CONF"]
    /\ lchan' = [lchan EXCEPT ![c] = "ok"]
    /\ UNCHANGED <<resetVars, ending, early, abort>>

\* N-CONNECT.cnf: the MSC accepts.  gscon_fsm_active_onenter() asks for a
\* Clear if the lchan is gone by now.
NConnectCnf(c) ==
    /\ state[c] = "WAIT_CC"
    /\ stack[InstOf[msc[c]]][id[c]] = "calling"
    /\ state' = [state EXCEPT ![c] = "ACTIVE"]
    /\ sccp' = [sccp EXCEPT ![c] = "CONNECTED"]
    /\ stack' = [stack EXCEPT ![InstOf[msc[c]]][id[c]] = "open"]
    /\ UNCHANGED <<resetVars, msc, id, lchan, ending, counter, early, abort>>

\* Mutant: ST_CLEARING has no timer.
Mut_NoT999(c) ==
    /\ state[c] = "WAIT_CC"
    /\ a_reset_conn_fail(msc[c])
    /\ gscon_cleanup({c}, SccpUp, stack)
    /\ UNCHANGED <<toMsc, acks, counter, abort>>

\* gscon_timer_cb(): T993210 in ST_WAIT_CC, T999 in ST_CLEARING.
gscon_timer_cb(c) ==
    /\ state[c] \in {"WAIT_CC", "CLEARING"}
    /\ a_reset_conn_fail(msc[c])
    /\ gscon_cleanup({c}, SccpUp, stack)
    /\ UNCHANGED <<toMsc, acks, counter, abort>>

-----------------------------------------------------------------------------
(* Connections opened by the MSC, for an inter-BSC incoming handover.      *)

\* Mutant: conn->sccp.state is not set when the connection is accepted.
Mut_NoSccpState(c, m, i) ==
    /\ state[c] = "free"
    /\ stack[InstOf[m]][i] = "idle" /\ ByConnId(i) = {}
    /\ state' = [state EXCEPT ![c] = "INIT"]
    /\ msc' = [msc EXCEPT ![c] = m]
    /\ id' = [id EXCEPT ![c] = i]
    /\ stack' = [stack EXCEPT ![InstOf[m]][i] = "open"]
    /\ UNCHANGED <<resetVars, sccp, lchan, ending, counter, early, abort>>

\* handle_n_connect_from_msc() and handle_bssap_n_connect().  The stack names
\* the connection with an id free in its own instance.  An id that a conn has
\* already is ignored: no answer goes back.
handle_n_connect_from_msc(c, m, i) ==
    /\ state[c] = "free"
    /\ stack[InstOf[m]][i] = "idle"
    /\ IF ByConnId(i) # {}
       THEN /\ stack' = [stack EXCEPT ![InstOf[m]][i] = "called"]
            /\ UNCHANGED connVars
       ELSE /\ state' = [state EXCEPT ![c] = "INIT"]
            /\ msc' = [msc EXCEPT ![c] = m]
            /\ id' = [id EXCEPT ![c] = i]
            /\ sccp' = [sccp EXCEPT ![c] = "CONNECTED"]
            /\ stack' = [stack EXCEPT ![InstOf[m]][i] = "open"]
            /\ UNCHANGED <<lchan, ending>>
    /\ UNCHANGED <<resetVars, counter, early, abort>>

\* GSCON_EV_HANDOVER_END in ST_INIT.  The handover only succeeds if Handover
\* Complete can be sent; otherwise a Clear Request follows.
InterBscInEnd(c) ==
    /\ state[c] = "INIT"
    /\ \/ /\ a_reset_conn_ready(msc[c])
          /\ state' = [state EXCEPT ![c] = "ACTIVE"]
          /\ lchan' = [lchan EXCEPT ![c] = "ok"]
          /\ osmo_bsc_sigtran_send(c)
          /\ UNCHANGED ending
       \/ /\ state' = [state EXCEPT ![c] = "CLEARING"]
          /\ ending' = ending \cup {c}
          /\ osmo_bsc_sigtran_send(c)
          /\ UNCHANGED lchan
    /\ UNCHANGED <<resetVars, msc, id, sccp, counter, stack, abort>>

-----------------------------------------------------------------------------
(* Primitives on an established connection.                                *)

\* N-DISCONNECT.ind for id i of instance n: the peer, or the stack, has
\* given the connection up.  The conn is looked up by the id alone, and needs
\* no N-DISCONNECT.req of its own.
NDisconnectInd(n, i) ==
    /\ stack[n][i] # "idle"
    /\ gscon_cleanup(ByConnId(i), {}, [stack EXCEPT ![n][i] = "idle"])
    /\ UNCHANGED <<resetVars, counter, abort>>

\* Data from the MSC reaches a conn over an open connection only.
DataFromMsc(c) ==
    /\ state[c] # "free"
    /\ stack[InstOf[msc[c]]][id[c]] = "open"
    /\ a_reset_conn_success(msc[c])
    /\ UNCHANGED <<reset, toMsc, acks, sent, msc, id, sccp, counter, stack, early>>

\* GSCON_EV_A_CLEAR_CMD: release the lchan, and acknowledge.
NDataClearCmd(c) ==
    /\ DataFromMsc(c)
    /\ state' = [state EXCEPT ![c] = "CLEARING"]
    /\ lchan' = [lchan EXCEPT ![c] = "none"]
    /\ ending' = ending \cup {c}
    /\ UNCHANGED abort

\* bssmap_handle_assignm_req().  For speech, select_codecs() asks for the BTS
\* with conn_get_bts(), which asserts that there is an lchan.
NDataAssignmentRqst(c, speech) ==
    /\ DataFromMsc(c)
    /\ state[c] # "INIT" /\ c \notin ending
    /\ abort' = (abort \/ (speech /\ lchan[c] = "none"))
    /\ state' = IF state[c] = "ACTIVE" /\ lchan[c] # "none"
                THEN [state EXCEPT ![c] = "ASSIGNMENT"] ELSE state
    /\ UNCHANGED <<lchan, ending>>

\* bssmap_handle_cipher_mode() calls conn_get_bts(), too.
NDataCipherModeCmd(c) ==
    /\ DataFromMsc(c)
    /\ state[c] # "INIT" /\ c \notin ending
    /\ abort' = (abort \/ lchan[c] = "none")
    /\ UNCHANGED <<state, lchan, ending>>

-----------------------------------------------------------------------------
(* The radio side.                                                         *)

\* GSCON_EV_HANDOVER_START in ST_ACTIVE.
HandoverStart(c) ==
    /\ state[c] = "ACTIVE" /\ lchan[c] # "none"
    /\ state' = [state EXCEPT ![c] = "HANDOVER"]
    /\ UNCHANGED <<resetVars, msc, id, sccp, lchan, ending, counter, stack, early, abort>>

\* GSCON_EV_ASSIGNMENT_END, GSCON_EV_HANDOVER_END: with a new lchan or with
\* the old one, if it is still there.  The conn asks for a Clear without one.
ProcedureEnd(c) ==
    /\ state[c] \in {"ASSIGNMENT", "HANDOVER"}
    /\ state' = [state EXCEPT ![c] = "ACTIVE"]
    /\ \/ lchan' = [lchan EXCEPT ![c] = "ok"] /\ UNCHANGED early
       \/ /\ UNCHANGED lchan
          /\ IF lchan[c] = "none" THEN osmo_bsc_sigtran_send(c) ELSE UNCHANGED early
    /\ UNCHANGED <<resetVars, msc, id, sccp, ending, counter, stack, abort>>

\* gscon_lchan_releasing(): the MS has released SAPI 0 of the primary lchan.
\* ST_WAIT_CC cannot change to ST_CLEARING (out_state_mask).
gscon_lchan_releasing(c) ==
    /\ lchan[c] # "none"
    /\ lchan' = [lchan EXCEPT ![c] = "none"]
    /\ state' = IF state[c] = "WAIT_CC" THEN state ELSE [state EXCEPT ![c] = "CLEARING"]
    /\ osmo_bsc_sigtran_send(c)
    /\ UNCHANGED <<resetVars, msc, id, sccp, ending, counter, stack, abort>>

\* gscon_forget_lchan(): the lchan FSM gives the primary lchan up.  A Clear
\* Request follows unless there is still an lchan of a running procedure.
gscon_forget_lchan(c) ==
    /\ lchan[c] # "none"
    /\ lchan' = [lchan EXCEPT ![c] = "none"]
    /\ \/ state[c] # "CLEARING" /\ osmo_bsc_sigtran_send(c)
       \/ state[c] \in {"CLEARING", "ASSIGNMENT", "HANDOVER"} /\ UNCHANGED early
    /\ UNCHANGED <<resetVars, state, msc, id, sccp, ending, counter, stack, abort>>

\* GSCON_EV_RSL_CONN_FAIL: Connection Failure Indication from the BTS.
RslConnFail(c) ==
    /\ lchan[c] = "ok"
    /\ lchan' = [lchan EXCEPT ![c] = "failed"]
    /\ osmo_bsc_sigtran_send(c)
    /\ UNCHANGED <<resetVars, state, msc, id, sccp, ending, counter, stack, abort>>

-----------------------------------------------------------------------------
ResetNext(m) ==
    \/ fsm_reset_ack_timeout_cb(m)
    \/ bssmap_handle_reset_ack(m)
    \/ bssmap_handle_reset(m)
    \/ MscAnswersReset(m)
    \/ ResetLost(m)

ConnNext(c) ==
    \/ \E m \in Msc : gsm0408_rcvmsg(c, m)
    \/ NConnectCnf(c)
    \/ gscon_timer_cb(c)
    \/ \E m \in Msc, i \in Id : handle_n_connect_from_msc(c, m, i)
    \/ InterBscInEnd(c)
    \/ NDataClearCmd(c)
    \/ \E speech \in BOOLEAN : NDataAssignmentRqst(c, speech)
    \/ NDataCipherModeCmd(c)
    \/ HandoverStart(c)
    \/ ProcedureEnd(c)
    \/ gscon_lchan_releasing(c)
    \/ gscon_forget_lchan(c)
    \/ RslConnFail(c)

Next ==
    \/ \E m \in Msc : ResetNext(m)
    \/ \E c \in Conn : ConnNext(c)
    \/ \E n \in Inst, i \in Id : NDisconnectInd(n, i)

Spec == Init /\ [][Next]_vars

\* The timers run; RESETs and their answers that are sent again and again get
\* through; assignment and handover procedures have timers of their own.
FairSpec ==
    /\ Spec
    /\ \A m \in Msc : /\ WF_vars(fsm_reset_ack_timeout_cb(m))
                      /\ SF_vars(MscAnswersReset(m))
                      /\ SF_vars(bssmap_handle_reset_ack(m))
    /\ \A c \in Conn : WF_vars(gscon_timer_cb(c)) /\ WF_vars(InterBscInEnd(c))

-----------------------------------------------------------------------------
\* No two conns share an SCCP connection id, as sccp_sap_up() finds the conn of
\* every primitive by its id.
ConnIdsUnique ==
    \A c, d \in Conn : id[c] = id[d] /\ id[c] # NoId => c = d

\* What a conn thinks of its SCCP connection is what the stack has: a
\* confirmed one is open, a requested one is being set up, and a conn that
\* waits for no connection, or has none, holds no id.
SccpStateAgrees ==
    \A c \in Conn :
        /\ sccp[c] = "CONNECTED" => stack[InstOf[msc[c]]][id[c]] = "open"
        /\ sccp[c] = "WAIT_CONN_CONF" =>
               state[c] = "WAIT_CC" /\ stack[InstOf[msc[c]]][id[c]] = "calling"
        /\ sccp[c] = "NONE" <=> state[c] = "free"

\* Conns and connections of the SCCP stack are matched one to one by the ids, and in the same state.
ConnsMatch == ConnIdsUnique /\ SccpStateAgrees

\* No connection is left in the SCCP stack without a conn that would close it:
\* gscon_cleanup() disconnects whatever a conn has opened or accepted.
NoOrphanedConnection ==
    \A n \in Inst, i \in Id : stack[n][i] # "idle" =>
        \E c \in ByConnId(i) : InstOf[msc[c]] = n

\* From the RESET on, no conn that was being opened before survives:
\* osmo_bsc_sigtran_reset_cb() closes them first, and ST_DISC opens none.
NoCallAcrossReset ==
    \A m \in Msc : reset[m] = "DISC" /\ sent[m] =>
        \A c \in ConnsOf(m) : state[c] # "WAIT_CC"

\* The reset procedure completes once the MSC answers, however many RESETs and
\* answers are lost, as fsm_reset_ack_timeout_cb() keeps the timer running.
ResetCompletes == \A m \in Msc : reset[m] = "DISC" ~> reset[m] = "CONN"

\* A conn does not wait for ever for the SCCP connection, nor for the MSC to
\* disconnect it after the Clear Command (T993210 and T999).
WaitingEnds ==
    \A c \in Conn : state[c] \in {"WAIT_CC", "CLEARING"} ~>
        state[c] \notin {"WAIT_CC", "CLEARING"}

\* gscon_sigtran_send(): "Make sure that we only attempt to send SCCP messages
\* if we have a life SCCP connection."  gscon_bssmap_clear() does not go
\* through that check, so a Clear Request in ST_WAIT_CC is lost.
LiveSccpOnly == ~early

\* conn_get_bts() asserts conn->lchan.  The MSC may send an Assignment Request
\* or a Cipher Mode Command before the Clear Request for a lost lchan gets to it.
ConnHasLchan == ~abort

\* a_reset.c: "When this counter reaches a certain threshold, the reset
\* procedure will be triggered": an MSC that was given up is only taken back
\* after a new RESET.  A late answer to an earlier RESET takes it back at once.
ResetBeforeReconnect ==
    [][\A m \in Msc : reset[m] = "DISC" /\ reset'[m] = "CONN" => sent[m]]_vars

=============================================================================
