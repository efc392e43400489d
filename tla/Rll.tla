-------------------------------- MODULE Rll --------------------------------
(***************************************************************************)
(* Messages of the MSC for an MS on a SAPI whose link layer may have to be *)
(* established first (bsc_rll.c, and the end of bsc_subscr_conn_fsm.c):    *)
(* they wait in the queue of the connection during a handover or an        *)
(* assignment, and in a request of bsc_rll_reqs for the BTS to confirm the *)
(* link.  The model follows one lchan, on SAPI 3, that connections use one *)
(* after the other.                                                        *)
(***************************************************************************)
EXTENDS Integers, Sequences

CONSTANTS
    RlMsgs,     \* the messages of the MSC
    RlConns,    \* bound: how many connections use the lchan
    DtapMax,    \* the limit of conn->dtap_queue_len, 8 in the code
    RlAnswers   \* bound: messages of the BTS that answer nothing, and losses of its RSL link

ASSUME RlAssumption == RlConns \in Nat /\ DtapMax \in Nat /\ RlAnswers \in Nat

VARIABLES
    rl_conn,   \* lchan->conn: the number of the connection, 0 for none
    rl_last,   \* the number of the last connection
    rl_state,  \* the state of its FSM, BUSY for ST_ASSIGNMENT and ST_HANDOVER, NONE once it has ended
    rl_queue,  \* conn->dtap_queue
    rl_sapi,   \* lchan->sapis[3] is not LCHAN_SAPI_UNUSED
    rl_reqs,   \* bsc_rll_reqs, the oldest first (llist_add() puts the newest first)
    rl_up,     \* the TRX has an rsl_link, without which abis_rsl_sendmsg() fails
    rl_asked,  \* ESTABLISH REQUESTs on this use of the channel that the BTS has not answered
    rl_for,    \* per message: the connection it was for, 0 before it came
    rl_told,   \* per message: the ends decided for it, and the connection they were decided on
    rl_unsent, \* messages whose ESTABLISH REQUEST could not be sent: they are freed, their request is listed
    rl_left    \* what is left of RlAnswers

rlVars == <<rl_conn, rl_last, rl_state, rl_queue, rl_sapi, rl_reqs, rl_up, rl_asked, rl_for, rl_told, rl_unsent,
            rl_left>>

RlStates == {"NONE", "ACTIVE", "BUSY", "CLEARING"}
RlEnds == {"sent", "rejected", "failed", "dropped"}
RlOutcome == [what : RlEnds, conn : Nat]

RlInit ==
    /\ rl_conn = 0 /\ rl_last = 0 /\ rl_state = "NONE" /\ rl_queue = <<>>
    /\ rl_sapi = FALSE /\ rl_reqs = <<>> /\ rl_up = TRUE /\ rl_asked = 0
    /\ rl_for = [m \in RlMsgs |-> 0]
    /\ rl_told = [m \in RlMsgs |-> <<>>] /\ rl_unsent = {}
    /\ rl_left = RlAnswers

\* The type invariant.
RlTypeOK ==
    /\ rl_conn \in Nat /\ rl_last \in Nat /\ rl_conn \in {0, rl_last}
    /\ rl_state \in RlStates /\ rl_sapi \in BOOLEAN /\ rl_up \in BOOLEAN
    /\ rl_queue \in Seq(RlMsgs) /\ rl_reqs \in Seq(RlMsgs)
    /\ rl_asked \in Nat /\ rl_left \in Nat
    /\ rl_for \in [RlMsgs -> Nat]
    /\ rl_told \in [RlMsgs -> Seq(RlOutcome)] /\ rl_unsent \in SUBSET RlMsgs

RangeOf(s) == {s[i] : i \in DOMAIN s}

-----------------------------------------------------------------------------

\* each of the messages ms ends as given, on connection c
Ends(ms, what, c) ==
    rl_told' = [m \in RlMsgs |->
                   IF m \in ms THEN Append(rl_told[m], [what |-> what, conn |-> c]) ELSE rl_told[m]]

\* gsm0808_send_rsl_dtap() for a sequence of messages, one after the other.  What cannot be sent ends with a
\* Clear Request; where that is an ESTABLISH REQUEST, rll_establish() has listed the request before.
gsm0808_send_rsl_dtap(msgs) ==
    \/ /\ rl_conn = 0
       /\ Ends(RangeOf(msgs), "dropped", rl_last) /\ UNCHANGED <<rl_reqs, rl_asked, rl_unsent>>
    \/ /\ rl_conn # 0 /\ rl_sapi
       /\ Ends(RangeOf(msgs), IF rl_up THEN "sent" ELSE "failed", rl_conn)
       /\ UNCHANGED <<rl_reqs, rl_asked, rl_unsent>>
    \/ /\ rl_conn # 0 /\ ~rl_sapi /\ rl_up
       /\ rl_reqs' = rl_reqs \o msgs /\ rl_asked' = rl_asked + Len(msgs)
       /\ UNCHANGED <<rl_told, rl_unsent>>
    \/ /\ rl_conn # 0 /\ ~rl_sapi /\ ~rl_up
       /\ rl_reqs' = rl_reqs \o msgs /\ rl_unsent' = rl_unsent \cup RangeOf(msgs)
       /\ Ends(RangeOf(msgs), "rejected", rl_conn) /\ UNCHANGED rl_asked

\* gscon_submit_rsl_dtap(), gscon_dtap_queue_add(); in ST_CLEARING the FSM does not take the event
RlSubmit(m) ==
    /\ rl_state # "NONE" /\ rl_for[m] = 0
    /\ rl_for' = [rl_for EXCEPT ![m] = rl_last]
    /\ \/ rl_state = "ACTIVE" /\ gsm0808_send_rsl_dtap(<<m>>) /\ UNCHANGED rl_queue
       \/ /\ rl_state = "CLEARING" \/ (rl_state = "BUSY" /\ Len(rl_queue) >= DtapMax)
          /\ Ends({m}, "dropped", rl_last) /\ UNCHANGED <<rl_queue, rl_reqs, rl_asked, rl_unsent>>
       \/ /\ rl_state = "BUSY" /\ Len(rl_queue) < DtapMax
          /\ rl_queue' = Append(rl_queue, m) /\ UNCHANGED <<rl_reqs, rl_asked, rl_told, rl_unsent>>
    /\ UNCHANGED <<rl_conn, rl_last, rl_state, rl_sapi, rl_up, rl_left>>

\* rll_ind_cb() for a request's message, freed or not: nothing more is done with it when the lchan has no
\* connection
rll_ind_cb(m, ind) ==
    CASE rl_conn = 0 /\ m \notin rl_unsent -> Ends({m}, "dropped", 0)
      [] rl_conn = 0 /\ m \in rl_unsent -> UNCHANGED rl_told
      [] rl_conn # 0 /\ ind = "EST_CONF" -> Ends({m}, "sent", rl_conn)
      [] rl_conn # 0 /\ ind # "EST_CONF" -> Ends({m}, "rejected", rl_conn)

Mut_rll_indication(ind) ==
    IF rl_reqs = <<>> THEN UNCHANGED <<rl_reqs, rl_told>>
    ELSE rl_reqs' = rl_reqs /\ rll_ind_cb(rl_reqs[Len(rl_reqs)], ind)

\* rll_indication(): the first request of the list that matches, which is the newest, is completed
rll_indication(ind) ==
    IF rl_reqs = <<>> THEN UNCHANGED <<rl_reqs, rl_told>>
    ELSE rl_reqs' = SubSeq(rl_reqs, 1, Len(rl_reqs) - 1) /\ rll_ind_cb(rl_reqs[Len(rl_reqs)], ind)

\* abis_rsl_rx_rll(): ESTABLISH CONFIRM, ESTABLISH INDICATION, RELEASE INDICATION or CONFIRM
\* (handle_rll_rel_ind_or_conf()), ERROR INDICATION (rsl_rx_rll_err_ind())
RlReceive(type) ==
    /\ rl_conn # 0 /\ rl_up
    /\ CASE type = "EST_CONF" -> rl_asked > 0 /\ rl_asked' = rl_asked - 1 /\ UNCHANGED rl_left
         [] type # "EST_CONF" -> rl_left > 0 /\ rl_left' = rl_left - 1 /\ UNCHANGED rl_asked
    /\ rl_sapi' = CASE type \in {"EST_CONF", "EST_IND"} -> TRUE
                    [] type = "REL_IND" -> FALSE
                    [] type = "ERR_IND" -> rl_sapi
    /\ IF type = "EST_IND" THEN UNCHANGED <<rl_reqs, rl_told>> ELSE rll_indication(type)
    /\ UNCHANGED <<rl_conn, rl_last, rl_state, rl_queue, rl_up, rl_for, rl_unsent>>

\* timer_cb() of the oldest request: all of them have the same time
RlTimeout ==
    /\ rl_reqs # <<>>
    /\ rl_reqs' = Tail(rl_reqs) /\ rll_ind_cb(Head(rl_reqs), "TIMEOUT")
    /\ UNCHANGED <<rl_conn, rl_last, rl_state, rl_queue, rl_sapi, rl_up, rl_asked, rl_for, rl_unsent, rl_left>>

\* ipaccess_drop_rsl(): the RSL link goes, before the lchans of the TRX do; a new one comes
RlLink ==
    /\ \/ rl_up /\ rl_left > 0 /\ rl_up' = FALSE /\ rl_left' = rl_left - 1
       \/ ~rl_up /\ rl_up' = TRUE /\ UNCHANGED rl_left
    /\ UNCHANGED <<rl_conn, rl_last, rl_state, rl_queue, rl_sapi, rl_reqs, rl_asked, rl_for, rl_told, rl_unsent>>

\* an assignment or a handover begins
RlProcedure ==
    /\ rl_state = "ACTIVE" /\ rl_conn # 0
    /\ rl_state' = "BUSY"
    /\ UNCHANGED <<rl_conn, rl_last, rl_queue, rl_sapi, rl_reqs, rl_up, rl_asked, rl_for, rl_told, rl_unsent, rl_left>>

\* it ends on the same lchan, or without one: back to ST_ACTIVE, and gscon_dtap_queue_flush(conn, 1)
RlProcedureEnds ==
    /\ rl_state = "BUSY"
    /\ rl_state' = "ACTIVE" /\ rl_queue' = <<>>
    /\ gsm0808_send_rsl_dtap(rl_queue)
    /\ UNCHANGED <<rl_conn, rl_last, rl_sapi, rl_up, rl_for, rl_left>>

\* lchan_forget_conn(), and the lchan_reset() that comes before the lchan is used again
Freed ==
    /\ rl_conn' = 0 /\ rl_sapi' = FALSE /\ rl_asked' = 0

\* the lchan is lost under its connection: gscon_lchan_releasing() goes to ST_CLEARING, gscon_forget_lchan()
\* does not; rll_lchan_signal() would complete the requests at S_CHALLOC_FREED, a signal that nobody sends
RlLchanLost ==
    /\ rl_conn # 0
    /\ rl_state' \in {rl_state, "CLEARING"}
    /\ Freed
    /\ UNCHANGED <<rl_last, rl_queue, rl_reqs, rl_up, rl_for, rl_told, rl_unsent, rl_left>>

\* the MSC clears the connection: gscon_fsm_allstate() with gscon_release_lchans()
RlClear ==
    /\ rl_state \notin {"NONE", "CLEARING"}
    /\ rl_state' = "CLEARING"
    /\ Freed
    /\ UNCHANGED <<rl_last, rl_queue, rl_reqs, rl_up, rl_for, rl_told, rl_unsent, rl_left>>

\* the connection ends: gscon_pre_term() with gscon_dtap_queue_flush(conn, 0), gscon_cleanup()
RlConnEnds ==
    /\ rl_state # "NONE"
    /\ rl_state' = "NONE" /\ rl_queue' = <<>>
    /\ Ends(RangeOf(rl_queue), "dropped", rl_last)
    /\ Freed
    /\ UNCHANGED <<rl_last, rl_reqs, rl_up, rl_for, rl_unsent, rl_left>>

\* the lchan serves another connection
RlConnStarts ==
    /\ rl_state = "NONE" /\ rl_last < RlConns
    /\ rl_state' = "ACTIVE" /\ rl_last' = rl_last + 1 /\ rl_conn' = rl_last + 1
    /\ UNCHANGED <<rl_queue, rl_sapi, rl_reqs, rl_up, rl_asked, rl_for, rl_told, rl_unsent, rl_left>>

RlNext ==
    \/ \E m \in RlMsgs : RlSubmit(m)
    \/ \E type \in {"EST_CONF", "EST_IND", "REL_IND", "ERR_IND"} : RlReceive(type)
    \/ RlTimeout
    \/ RlLink
    \/ RlProcedure
    \/ RlProcedureEnds
    \/ RlLchanLost
    \/ RlClear
    \/ RlConnEnds
    \/ RlConnStarts

RlSpec == RlInit /\ [][RlNext]_rlVars

\* the timers of requests run out; assignments and handovers have a timer too, and so has ST_CLEARING
RlCleared == rl_state = "CLEARING" /\ RlConnEnds
RlFairness == WF_rlVars(RlTimeout) /\ WF_rlVars(RlProcedureEnds) /\ WF_rlVars(RlCleared)

-----------------------------------------------------------------------------

\* the messages that are somewhere in the BSC, and those of them that still are messages
Held == RangeOf(rl_queue) \cup RangeOf(rl_reqs)
InHand == Held \ rl_unsent

Promise == INSTANCE DtapService WITH
    Msgs <- RlMsgs, Outcomes <- RlOutcome, hand <- InHand, told <- rl_told, unsent <- rl_unsent

\* The BSC keeps its promise: no message of the MSC disappears without an end, none is held any more once
\* its end is decided, and none ends twice, except that where the ESTABLISH REQUEST could not be sent the
\* MSC may be answered once more, by the request that rll_establish() has left behind; whatever the order of
\* confirmations, time-outs, losses of the RSL link, releases of the lchan and ends of procedures
\* (gsm0808_send_rsl_dtap(), complete_rllr(), rll_ind_cb(), gscon_dtap_queue_flush()).
PromiseKept == Promise!Spec

\* Every message that comes in is eventually sent, rejected or dropped: the timer of its request, the end of
\* the procedure it waits for, or that of a connection being cleared, sees to it (rll_establish(),
\* gscon_dtap_queue_flush(), gscon_timer_cb()).
RlDecided == \A m \in RlMsgs : (rl_for[m] # 0) ~> (rl_told[m] # <<>>)

\* The queue of a connection stays within its limit, and is empty while no procedure is under way and the
\* connection is not being cleared: nothing waits for a flush that has already happened
\* (gscon_dtap_queue_add()).
RlQueueFlushed == Len(rl_queue) <= DtapMax /\ (rl_state \in {"NONE", "ACTIVE"} => rl_queue = <<>>)

\* A message is sent, or rejected, on the connection it was handed over for (rll_ind_cb() checks only that
\* the lchan has some connection).
RlOwnConn ==
    \A m \in RlMsgs : \A i \in DOMAIN rl_told[m] :
        rl_told[m][i].what \in {"sent", "rejected"} => rl_told[m][i].conn = rl_for[m]

=============================================================================
