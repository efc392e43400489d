------------------------------- MODULE Paging -------------------------------
(***************************************************************************)
(* Paging of subscribers on the CCCH of each BTS: src/osmo-bsc/paging.c    *)
(* with its callers (PAGING and RESET from an MSC in osmo_bsc_bssap.c, the *)
(* RF-lock policy of osmo_bsc_grace.c, the PAGING RESPONSE path of         *)
(* gsm_08_08.c, PCH load indications in abis_rsl.c, lost Abis links in     *)
(* bts_ipaccess_nanobts.c) and the reference counts of bsc_subscriber.c.   *)
(*                                                                         *)
(* Time is discrete: a pending timer holds the ticks left before it        *)
(* expires, one tick standing for the 0.5 s of PAGING_TIMER.  No tick      *)
(* passes while an expired timer waits for its callback, as the select     *)
(* loop runs expired timers before it sleeps again.                        *)
(***************************************************************************)
EXTENDS Integers, SequencesExt

CONSTANTS
    Bts, Subscr, Msc, Conn,     \* cells, subscribers, core networks, connections
    None,                       \* no subscriber (a NULL conn->bsub)
    Credit,                     \* slots granted when no load is known: 20 in the code
    FreeSlots,                  \* values of a PCH load indication (uint16)
    WORK, CREDIT, T3113,        \* timer lengths, in ticks
    ExclFromRfLock,             \* BTSs with excl_from_rf_lock
    CoreLac,                    \* MSCs with LAC patching (core_lac # -1)
    Depends,                    \* <<d, b>>: BTS d has b as its dependency
    MaxUse                      \* bound on a use_count (INT_MAX in the code)

ASSUME PagingAssumption ==
    /\ Credit \in Nat \ {0} /\ FreeSlots \subseteq 0..65535
    /\ WORK \in Nat \ {0} /\ CREDIT \in Nat \ {0} /\ T3113 \in Nat \ {0}
    /\ ExclFromRfLock \subseteq Bts /\ CoreLac \subseteq Msc
    /\ Depends \subseteq Bts \X Bts /\ None \notin Subscr

VARIABLES
    pending,        \* bts->paging.pending_requests, head first
    slots,          \* bts->paging.available_slots
    workTimer,      \* bts->paging.work_timer
    creditTimer,    \* bts->paging.credit_timer
    inited,         \* bts->paging.bts # NULL
    oml,            \* bts->oml_link # NULL
    rsl,            \* bts->c0->rsl_link # NULL
    usable,         \* trx_is_usable(bts->c0)
    policy,         \* rf_ctrl->policy = S_RF_ON
    useCount,       \* bsub->use_count; 0 when the subscriber is not allocated
    connBsub        \* conn->bsub

vars == <<pending, slots, workTimer, creditTimer, inited, oml, rsl, usable,
          policy, useCount, connBsub>>

Off == -1
Timer(n) == {Off} \cup 0..n
Request == [bsub : Subscr, msc : Msc, t3113 : Timer(T3113)]

TypeOK ==
    /\ pending \in [Bts -> Seq(Request)]
    /\ slots \in [Bts -> 0..65535]
    /\ workTimer \in [Bts -> Timer(WORK)]
    /\ creditTimer \in [Bts -> Timer(CREDIT)]
    /\ inited \in [Bts -> BOOLEAN]
    /\ oml \in [Bts -> BOOLEAN]
    /\ rsl \in [Bts -> BOOLEAN]
    /\ usable \in [Bts -> BOOLEAN]
    /\ policy \in BOOLEAN
    /\ useCount \in [Subscr -> 0..MaxUse]
    /\ connBsub \in [Conn -> Subscr \cup {None}]

Init ==
    /\ pending = [b \in Bts |-> <<>>]
    /\ slots = [b \in Bts |-> 0]
    /\ workTimer = [b \in Bts |-> Off]
    /\ creditTimer = [b \in Bts |-> Off]
    /\ inited = [b \in Bts |-> FALSE]
    /\ oml = [b \in Bts |-> FALSE]
    /\ rsl = [b \in Bts |-> FALSE]
    /\ usable = [b \in Bts |-> FALSE]
    /\ policy = TRUE
    /\ useCount = [s \in Subscr |-> 0]
    /\ connBsub = [c \in Conn |-> None]

-----------------------------------------------------------------------------
\* The requests of one list for one subscriber, and paging_pending_request().
Of(q, s) == {i \in DOMAIN q : q[i].bsub = s}
paging_pending_request(b, s) == Of(pending[b], s) # {}

\* paging_schedule_if_needed(), given the list as it is by then.
paging_schedule_if_needed(b, q) ==
    IF q # <<>> /\ workTimer[b] = Off THEN WORK ELSE workTimer[b]

\* paging_init_if_needed(): the first use of a BTS grants the default credit.
paging_init_if_needed(B) ==
    /\ inited' = [b \in Bts |-> inited[b] \/ b \in B]
    /\ slots' = [b \in Bts |-> IF b \in B /\ ~inited[b] THEN Credit ELSE slots[b]]

\* _paging_request_stop() removes the first request of the subscriber only.
_paging_request_stop(q, s) ==
    IF Of(q, s) = {} THEN q ELSE RemoveAt(q, Min(Of(q, s)))

\* How many requests hold a reference to a subscriber, over all BTSs.
Requests(lists, s) == MapThenSumSet(LAMBDA b : Cardinality(Of(lists[b], s)), Bts)

\* bsc_subscr_get() for every request queued, bsc_subscr_put() for every request
\* given up, in the step from the current lists to the new ones.
SubscrRefs(new) ==
    [s \in Subscr |-> useCount[s] + Requests(new, s) - Requests(pending, s)]

-----------------------------------------------------------------------------
(* PAGING from MSC m for subscriber s.  "targets" are the BTSs the Cell    *)
(* Identifier List selects; the message is handled in one go for all.      *)

\* page_all_bts() .. page_lac(): the BTSs some Cell Identifier List selects, by
\* CGI, LAC and CI, CI, LAI, LAC or all of them.
CellLists == SUBSET Bts

\* bsc_grace_paging_request(): with RF locked, only excluded BTSs are paged,
\* and only if the list names a LAC or the MSC has LAC patching.
bsc_grace_paging_request(m, b, withLac) ==
    policy \/ (b \in ExclFromRfLock /\ (m \in CoreLac \/ withLac))

\* The BTSs for which paging_request_bts() gets as far as paging_init_if_needed().
Pageable(m, targets, withLac) ==
    {b \in targets : bsc_grace_paging_request(m, b, withLac) /\ usable[b]}

\* Mutants: no check for a pending request; T3113 not started.
Mut_NoPendingCheck(b, m, s) ==
    Append(pending[b], [bsub |-> s, msc |-> m, t3113 |-> T3113])
Mut_NoT3113(b, m, s) ==
    IF paging_pending_request(b, s) THEN pending[b]
    ELSE Append(pending[b], [bsub |-> s, msc |-> m, t3113 |-> Off])

\* _paging_request() for one BTS, and the find_or_create / put pair around it,
\* which frees the subscriber again if no BTS has queued a request.
_paging_request(b, m, s) ==
    IF paging_pending_request(b, s) THEN pending[b]
    ELSE Append(pending[b], [bsub |-> s, msc |-> m, t3113 |-> T3113])

bssmap_handle_paging(m, s, targets, withLac) ==
    LET P == Pageable(m, targets, withLac)
        new == [b \in Bts |-> IF b \in P THEN _paging_request(b, m, s) ELSE pending[b]]
    IN  /\ SubscrRefs(new)[s] < MaxUse
        /\ pending' = new
        /\ useCount' = SubscrRefs(new)
        /\ workTimer' = [b \in Bts |->
               IF new[b] # pending[b] THEN paging_schedule_if_needed(b, new[b])
               ELSE workTimer[b]]
        /\ paging_init_if_needed(P)
        /\ UNCHANGED <<creditTimer, oml, rsl, usable, policy, connBsub>>

-----------------------------------------------------------------------------
(* The paging loop of one BTS.                                             *)

\* Mutant: no check of the slots left.
Mut_NoSlotCheck(b, credit, work, wait, busy) ==
    /\ IF pending[b] = <<>> \/ busy \/ ~oml[b]
       THEN slots' = [slots EXCEPT ![b] = credit] /\ UNCHANGED pending
       ELSE /\ slots' = [slots EXCEPT ![b] = credit - 1]
            /\ pending' = [pending EXCEPT ![b] = Append(Tail(@), Head(@))]
    /\ workTimer' = [work EXCEPT ![b] = IF pending[b] = <<>> THEN @ ELSE WORK]
    /\ creditTimer' = wait

\* paging_handle_pending_requests() with "credit" slots at hand and the timers
\* as they are by then; "busy" when can_send_pag_req() finds fewer free channels
\* than free_chans_need.
paging_handle_pending_requests(b, credit, work, wait, busy) ==
    \/ /\ pending[b] = <<>>
       /\ slots' = [slots EXCEPT ![b] = credit]
       /\ workTimer' = work /\ creditTimer' = wait
       /\ UNCHANGED pending
    \/ /\ pending[b] # <<>> /\ credit = 0
       /\ creditTimer' = [wait EXCEPT ![b] = CREDIT]
       /\ workTimer' = work
       /\ UNCHANGED <<pending, slots>>
    \/ /\ pending[b] # <<>> /\ credit > 0 /\ (busy \/ ~oml[b])
       /\ slots' = [slots EXCEPT ![b] = credit]
       /\ workTimer' = [work EXCEPT ![b] = WORK] /\ creditTimer' = wait
       /\ UNCHANGED pending
    \/ /\ pending[b] # <<>> /\ credit > 0 /\ ~busy /\ oml[b]
       /\ slots' = [slots EXCEPT ![b] = credit - 1]
       /\ pending' = [pending EXCEPT ![b] = Append(Tail(@), Head(@))]
       /\ workTimer' = [work EXCEPT ![b] = WORK] /\ creditTimer' = wait

\* A timer that expires is no longer pending when its callback runs.
Expired(timer, b) == [timer EXCEPT ![b] = Off]

paging_worker(b, busy) ==
    /\ workTimer[b] = 0
    /\ paging_handle_pending_requests(b, slots[b], Expired(workTimer, b), creditTimer, busy)
    /\ UNCHANGED <<inited, oml, rsl, usable, policy, useCount, connBsub>>

paging_give_credit(b, busy) ==
    /\ creditTimer[b] = 0
    /\ paging_handle_pending_requests(b, Credit, workTimer, Expired(creditTimer, b), busy)
    /\ UNCHANGED <<inited, oml, rsl, usable, policy, useCount, connBsub>>

\* Mutant: the work timer is not scheduled again.
Mut_NoReschedule(b, free) ==
    /\ rsl[b]
    /\ inited' = [inited EXCEPT ![b] = TRUE]
    /\ creditTimer' = [creditTimer EXCEPT ![b] = Off]
    /\ slots' = [slots EXCEPT ![b] = free]
    /\ UNCHANGED <<pending, workTimer, oml, rsl, usable, policy, useCount, connBsub>>

\* PCH LOAD INDICATION: the BTS reports its free paging slots.
paging_update_buffer_space(b, free) ==
    /\ rsl[b]
    /\ inited' = [inited EXCEPT ![b] = TRUE]
    /\ creditTimer' = [creditTimer EXCEPT ![b] = Off]
    /\ slots' = [slots EXCEPT ![b] = free]
    /\ workTimer' = [workTimer EXCEPT ![b] = paging_schedule_if_needed(b, pending[b])]
    /\ UNCHANGED <<pending, oml, rsl, usable, policy, useCount, connBsub>>

\* T3113 of one request expires and the request is dropped.
paging_T3113_expired(b) == \E i \in DOMAIN pending[b] :
    LET new == [pending EXCEPT ![b] = RemoveAt(@, i)]
    IN  /\ pending[b][i].t3113 = 0
        /\ pending' = new
        /\ useCount' = SubscrRefs(new)
        /\ UNCHANGED <<slots, workTimer, creditTimer, inited, oml, rsl, usable,
                       policy, connBsub>>

-----------------------------------------------------------------------------
(* PAGING RESPONSE of subscriber s as the first message of connection c on *)
(* BTS b.  bsc_find_msc() drops it unless that BTS has the request.        *)

\* Mutant: the connection takes no reference when paging is stopped.
Mut_NoGet(byImsi) == IF byImsi THEN 1 ELSE 0

\* complete_layer3() refers the connection to the subscriber when the response
\* carries the IMSI, then paging_request_stop() does so again.
ResponseRefs(byImsi) == IF byImsi THEN 2 ELSE 1

\* Mutant: paging goes on at the BTSs other than the responding one.
Mut_StopHereOnly(c, b, s, byImsi) ==
    LET new == [pending EXCEPT ![b] = _paging_request_stop(@, s)]
    IN  /\ connBsub[c] = None /\ rsl[b]
        /\ paging_pending_request(b, s)
        /\ pending' = new
        /\ connBsub' = [connBsub EXCEPT ![c] = s]
        /\ useCount' = [SubscrRefs(new) EXCEPT ![s] = @ + ResponseRefs(byImsi)]
        /\ paging_init_if_needed(Bts)
        /\ UNCHANGED <<workTimer, creditTimer, oml, rsl, usable, policy>>

paging_request_stop(c, b, s, byImsi) ==
    LET new == [x \in Bts |-> _paging_request_stop(pending[x], s)]
        refs == SubscrRefs(new)
    IN  /\ connBsub[c] = None /\ rsl[b]
        /\ paging_pending_request(b, s)
        /\ refs[s] + 2 <= MaxUse
        /\ pending' = new
        /\ connBsub' = [connBsub EXCEPT ![c] = s]
        /\ useCount' = [refs EXCEPT ![s] = @ + ResponseRefs(byImsi)]
        /\ paging_init_if_needed(Bts)
        /\ UNCHANGED <<workTimer, creditTimer, oml, rsl, usable, policy>>

\* gscon_cleanup(): the connection is freed and gives up its subscriber.
gscon_cleanup(c) ==
    /\ connBsub[c] # None
    /\ useCount' = [useCount EXCEPT ![connBsub[c]] = @ - 1]
    /\ connBsub' = [connBsub EXCEPT ![c] = None]
    /\ UNCHANGED <<pending, slots, workTimer, creditTimer, inited, oml, rsl,
                   usable, policy>>

-----------------------------------------------------------------------------
(* Flushing: a RESET from an MSC, and lost Abis links.                     *)

\* paging_flush_bts() of the BTSs in B for the MSCs in M.
paging_flush(B, M) ==
    LET new == [b \in Bts |-> IF b \in B THEN SelectSeq(pending[b], LAMBDA r : r.msc \notin M)
                              ELSE pending[b]]
    IN  /\ pending' = new
        /\ useCount' = SubscrRefs(new)
        /\ paging_init_if_needed(B)
        /\ UNCHANGED <<workTimer, creditTimer, policy, connBsub>>

bssmap_handle_reset(m) ==
    /\ paging_flush(Bts, {m})
    /\ UNCHANGED <<oml, rsl, usable>>

ipaccess_drop_rsl(b) ==
    /\ rsl[b]
    /\ paging_flush({b}, Msc)
    /\ rsl' = [rsl EXCEPT ![b] = FALSE]
    /\ UNCHANGED <<oml, usable>>

\* Mutant: dependants keep their link.
Mut_DropAlone(b) == {b}

\* The BTSs dropped with b: those depending on it, directly or through others,
\* as long as their own OML link is up.
Dropped(b) ==
    LET grow[n \in Nat] == IF n = 0 THEN {b} ELSE grow[n-1] \cup
            {d \in Bts : oml[d] /\ \E x \in grow[n-1] : <<d, x>> \in Depends}
    IN  grow[Cardinality(Bts)]

\* Drop the links in D and flush the requests of the BTSs that had an RSL link.
DropLinks(D) ==
    /\ paging_flush({d \in D : rsl[d]}, Msc)
    /\ rsl' = [d \in Bts |-> rsl[d] /\ d \notin D]
    /\ UNCHANGED usable

ipaccess_drop_oml(b) ==
    /\ oml[b]
    /\ DropLinks(Dropped(b))
    /\ oml' = [d \in Bts |-> oml[d] /\ d \notin Dropped(b)]

\* ipaccess_sign_link_up() for OML: an old link goes first, with all it carried;
\* bts_depend_check() then wants the OML link of every dependency.
OmlLinkUp(b) ==
    LET D == IF oml[b] THEN Dropped(b) ELSE {}
        rest == {d \in Bts : oml[d] /\ d \notin D}
        bts_depend_check == \A x \in Bts : <<b, x>> \in Depends => x \in rest
    IN  /\ DropLinks(D)
        /\ oml' = [d \in Bts |-> d \in rest \/ (d = b /\ bts_depend_check)]

\* ipaccess_sign_link_up() for the RSL link of the first TRX.
RslLinkUp(b) ==
    /\ oml[b]
    /\ paging_flush(IF rsl[b] THEN {b} ELSE {}, Msc)
    /\ rsl' = [rsl EXCEPT ![b] = TRUE]
    /\ UNCHANGED <<oml, usable>>

-----------------------------------------------------------------------------
(* The environment: NM state reports, the RF policy and time.              *)

\* A state report of the BTS changes whether its first TRX is usable.
NmStateReport(b) ==
    /\ oml[b]
    /\ usable' = [usable EXCEPT ![b] = ~@]
    /\ UNCHANGED <<pending, slots, workTimer, creditTimer, inited, oml, rsl, policy,
                   useCount, connBsub>>

\* send_signal() when the operator locks or unlocks RF.
RfPolicy ==
    /\ policy' = ~policy
    /\ UNCHANGED <<pending, slots, workTimer, creditTimer, inited, oml, rsl, usable,
                   useCount, connBsub>>

Left(t) == IF t > 0 THEN t - 1 ELSE t

Tick ==
    /\ \A b \in Bts : /\ workTimer[b] # 0 /\ creditTimer[b] # 0
                      /\ \A i \in DOMAIN pending[b] : pending[b][i].t3113 # 0
    /\ workTimer' = [b \in Bts |-> Left(workTimer[b])]
    /\ creditTimer' = [b \in Bts |-> Left(creditTimer[b])]
    /\ pending' = [b \in Bts |-> [i \in DOMAIN pending[b] |->
                       [pending[b][i] EXCEPT !.t3113 = Left(@)]]]
    /\ UNCHANGED <<slots, inited, oml, rsl, usable, policy, useCount, connBsub>>

Next ==
    \/ \E m \in Msc, s \in Subscr, targets \in CellLists, withLac \in BOOLEAN :
           bssmap_handle_paging(m, s, targets, withLac)
    \/ \E b \in Bts, busy \in BOOLEAN : paging_worker(b, busy)
    \/ \E b \in Bts, busy \in BOOLEAN : paging_give_credit(b, busy)
    \/ \E b \in Bts, free \in FreeSlots : paging_update_buffer_space(b, free)
    \/ \E b \in Bts : paging_T3113_expired(b)
    \/ \E c \in Conn, b \in Bts, s \in Subscr, byImsi \in BOOLEAN :
           paging_request_stop(c, b, s, byImsi)
    \/ \E c \in Conn : gscon_cleanup(c)
    \/ \E m \in Msc : bssmap_handle_reset(m)
    \/ \E b \in Bts : ipaccess_drop_rsl(b)
    \/ \E b \in Bts : ipaccess_drop_oml(b)
    \/ \E b \in Bts : OmlLinkUp(b)
    \/ \E b \in Bts : RslLinkUp(b)
    \/ \E b \in Bts : NmStateReport(b)
    \/ RfPolicy
    \/ Tick

\* Time advances, and the select loop runs the callback of every expired timer.
Fairness ==
    /\ WF_vars(Tick)
    /\ \A b \in Bts : /\ WF_vars(\E busy \in BOOLEAN : paging_worker(b, busy))
                      /\ WF_vars(\E busy \in BOOLEAN : paging_give_credit(b, busy))
                      /\ WF_vars(paging_T3113_expired(b))

Spec == Init /\ [][Next]_vars
FairSpec == Spec /\ Fairness

-----------------------------------------------------------------------------
(* Properties.                                                             *)

\* No lost wakeup: while a BTS has requests, its paging loop will run again, off
\* the work timer or off the credit timer, however requests, load indications,
\* flushes and expiries of the two timers are interleaved.
NoLostWakeup == \A b \in Bts :
    pending[b] # <<>> => workTimer[b] # Off \/ creditTimer[b] # Off

\* A BTS never has two requests for one subscriber, although MSCs may page the
\* same subscriber again and a response removes a single request per BTS.
OneRequestPerSubscr == \A b \in Bts : \A s \in Subscr :
    Cardinality(Of(pending[b], s)) <= 1

\* The request lists are sound: of their type, without duplicates, and never left to sleep.
PagingSafe == TypeOK /\ OneRequestPerSubscr /\ NoLostWakeup

\* Who refers to a subscriber: queued requests and connections.
Holders(s) == Requests(pending, s) + Cardinality({c \in Conn : connBsub[c] = s})

\* A subscriber is not freed under a request or a connection that points to it:
\* the gets and puts of page_subscriber(), _paging_request(), the response path
\* and the flushes never take the count below the number of holders.
SubscrNotFreedInUse == \A s \in Subscr : useCount[s] >= Holders(s)

\* bsc_subscr_put() by the last holder frees the subscriber: the count is exactly
\* the number of holders.
SubscrFreedByLastHolder == \A s \in Subscr : useCount[s] = Holders(s)

\* No OML link stays up without the links of the BTSs it depends on: dropping a
\* link takes all of its dependants with it.
DependencyLinksUp == \A d, b \in Bts : <<d, b>> \in Depends /\ oml[d] => oml[b]

\* Across BTSs: no subscriber is freed in use, no link stays up without those it depends on.
NetSafe == SubscrNotFreedInUse /\ DependencyLinksUp

\* A response ends the paging of the subscriber everywhere: after the step that
\* refers a connection to the subscriber, no BTS has a request for it.
ResponseStopsPaging == [][\A c \in Conn, s \in Subscr :
    connBsub[c] = None /\ connBsub'[c] = s => Requests(pending', s) = 0]_vars

\* Every request ends: by a response, a flush or T3113, whatever the load.
RequestsEnd == \A b \in Bts, s \in Subscr :
    paging_pending_request(b, s) ~> ~paging_pending_request(b, s)

\* A BTS that ran out of slots and sends no load indication is given new ones by
\* the autofill of paging_give_credit(), if there is anything left to page.
SlotsRefilled == \A b \in Bts :
    slots[b] = 0 /\ pending[b] # <<>> ~> slots[b] > 0 \/ pending[b] = <<>>
=============================================================================
