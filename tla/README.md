# A TLA+ verification of osmo-bsc

osmo-bsc is the Base Station Controller of a GSM network: a single-threaded
program that commands base stations (BTSs) over Abis (OML for their operation,
RSL for their radio channels), talks to mobile switching centres (MSCs) over the
A interface (BSSAP over SCCP), has voice streams connected by a media gateway
(MGW), and moves calls between channels (assignment, handover).

The program is a set of finite state machines (libosmocore's `osmo_fsm`) and
timers driven by one select loop. No two handlers overlap; a handler runs to its
end, including every event it dispatches to another FSM. What is concurrent is
the world outside: messages that cross each other, timers that race answers,
links that go down, operators. So in every module **one action is one entry from
the select loop** (a received message, an expired timer, a command of the
operator) with everything it causes synchronously, and the interleavings are the
orders of these entries.

Two facts about `osmo_fsm` matter everywhere and are part of the models: an
event that the state's `in_event_mask` does not list is dropped, and a state
change that the state's `out_state_mask` does not list is refused, silently for
the caller.

## Inventory

| Part | Source (src/osmo-bsc unless said) | State it keeps | Entries | Module |
|---|---|---|---|---|
| Paging | paging.c, bsc_subscriber.c | request lists, slots, two timers per BTS, reference counts | PAGING, RSL load, T3113, answer, link loss | Paging |
| A reset | a_reset.c | state, loss counter | RESET ACK, timer, connection results | AInterface |
| SCCP user | osmo_bsc_sigtran.c | connection ids | SCCP primitives | AInterface |
| Conn FSM | bsc_subscr_conn_fsm.c | state, lchan, SCCP state, DTAP queue | all of A and RSL | AInterface, Call, Rll |
| BSSMAP | osmo_bsc_bssap.c, gsm_08_08.c, libfilter | round robin of MSCs, what was filtered | messages of the MSC and MS | AInterface, Paging, Routing, CodecPref |
| lchan FSM | lchan_fsm.c, lchan_select.c | state, SAPIs, release and error flags | RSL, RTP, TS, conn events, timers | Lchan (with the timeslot), Call (with the conn) |
| Timeslot FSM | timeslot_fsm.c | state, pchan, readiness flags | RSL, OML, lchan events | Timeslot |
| RSL | abis_rsl.c, bsc_rll.c | counters, RLL requests | messages of the BTS | Timeslot, Rll, MeasRep, ChanLoad |
| Assignment, handover, RTP FSMs | assignment_fsm.c, handover_fsm.c, lchan_rtp_fsm.c | procedure state | events of lchan, MGW, MS | Call |
| LCLS | osmo_bsc_lcls.c | a leg's state, its other leg | Assignment Request, Connect Control, events of the other leg | Lcls |
| Handover decision | handover_decision_2.c, handover_decision.c, penalty_timers.c | penalties, running handovers | measurement reports, congestion timer, results | HoDecision |
| Measurements | meas_rep.c, abis_rsl.c | ring of reports, neighbours | MEAS RES | MeasRep |
| Access ramping | acc_ramp.c | barred classes, timer | NM state, RSL, timer, VTY | AccRamp |
| Channel load | chan_alloc.c | samples, T3122 | sample timer, CHAN RQD | ChanLoad |
| RF and CTRL | bsc_rf_ctrl.c, osmo_bsc_grace.c, osmo_bsc_ctrl.c, bsc_ctrl_commands.c | policy, timers, PLMN, locations | RF socket, CTRL, timers, links | Control (policy also in Paging) |
| PCU socket | pcu_sock.c | connection, queue | the PCU, timeslots, RSL | Pcu |
| ip.access OML | bts_ipaccess_nanobts.c, abis_nm.c | NM states, queue | reports and answers of the BTS | Nanobts |
| Software load | abis_nm.c, ipaccess-config.c, bs11_config.c | download FSM | answers of the BTS, timers | SwLoad |
| RBS 2000 | abis_om2000.c, bts_ericsson_rbs2000.c | three levels of FSMs | answers of the RBS, timers, VTY | Om2000 |
| Nokia, BS-11 | bts_nokia_site.c, bts_siemens_bs11.c | sequence flags, queue | answers of the BTS, links, timers | Nokia, Bs11 |
| System information | system_information.c, rest_octets.c, arfcn_range_encode.c | neighbour lists, offsets | VTY, start of a BTS | SysInfo, FreqList, RangeEnc |
| Codecs | codec_pref.c, osmo_bsc_bssap.c | none | Assignment Request | CodecPref |
| VTY, tools | bsc_vty.c ..., src/ipaccess, src/utils | configuration | operator | what changes the state above |

## Modules

**Paging.** `pending`, `slots`, `workTimer`, `creditTimer` are the fields of
`struct gsm_bts_paging_state`; a timer holds the ticks left, `-1` when it is not
pending. Actions are named after the functions that start them
(`bssmap_handle_paging`, `paging_worker`, `paging_give_credit`,
`paging_T3113_expired`, `paging_update_buffer_space`, `paging_request_stop`,
...). `useCount` and `connBsub` follow the references of a subscriber through
requests and connections. `OmlLinkUp`, `ipaccess_drop_oml` and their kin are the
links with the dependencies between BTSs.

**AInterface.** Per MSC the reset FSM (`reset`, `loss`...), per conn the
states of `gscon_fsm` with the SCCP connection it believes to have, per SS7
instance the connections of the SCCP stack (external: modelled from how
osmo_bsc_sigtran.c uses it, with messages that get lost or are late).

**Lchan** has no variables. It holds the lchan FSM as operators on a record `t`
(the whole state), because an event of one FSM leads within the same handler to
events of others; `Timeslot` composes it with the timeslot FSM and turns each
entry into an action `Become(...)`. A failed `OSMO_ASSERT` or the use of a NULL
or freed pointer is a state with `crash` set, after which the program restarts.

**Timeslot.** `ts`, `on_init`, `is`, `allowed`, `oml`, `rsl` are the fields of
the timeslot, `lchan` its lchans, `link` the RSL requests under way to the BTS,
`air` what the BTS has active (external). `Config` is one of static TCH/F,
static TCH/H, ip.access style TCH/F_PDCH and Osmocom style TCH/F_TCH/H_PDCH.

**Call.** One conn (`conn`), its assignment (`asg`) and handover (`ho`) FSMs, its
MGW endpoint (`mgw`) and lchans with their RTP stream FSMs (`lchan`). It is the
other side of the lchan FSM: `Timeslot` keeps the channels and the BTS and leaves
the conn abstract, `Call` keeps the conn, the voice stream and the procedures and
lets the timeslot and the BTS answer as they like. `site` is chosen once: AoIP or
not, an ip.access BTS or not. A handler is again an operator on the state record
`t`, which during a step also has `ok` (whether what the handler sends goes out,
the error paths of a failed send) and `busy` (the lchan whose
`in_release_handler` is set, which makes events that come back harmless).
`crash` names the way in which a handler went through a NULL or freed pointer or
a failed assertion: `primary`, `new` (no such lchan), `conn_get_bts`, `ci` (a
connection of an endpoint that is gone), `fsm` (a freed FSM), `freed`, `null`.
One conn exists at a time; a new one may find lchans still in release from the
last. Of an lchan's SAPIs only SAPI 0 is kept, and `WAIT_RF_RELEASE_ACK` and
`WAIT_AFTER_ERROR` are one state.

**Rll** carries the MSC's messages to the MS: `rl_queue` is the DTAP queue of a
conn in an assignment or handover, `rl_reqs` the requests that establish SAPI 3,
`rl_told` the ends decided for each message (`sent`, `rejected`, `failed` with a Clear
Request, `dropped`), `rl_up` the RSL link without which nothing can be sent, `rl_state`
the state of the conn. `DtapService` is what this promises, a small state machine: a
message is held until its end is decided, and that happens once; only a message whose
ESTABLISH REQUEST could not be sent (`unsent`) may be answered a second time, because
the request that `rll_establish()` has listed before stays behind. `Promise == INSTANCE
DtapService WITH hand <- InHand, told <- rl_told, unsent <- rl_unsent` is the refinement
mapping and `PromiseKept` the refinement.

**Lcls** has the legs of local calls (`lc_leg`), their state, configuration, other
leg, and where their media go. An event of one leg runs on in the other, so
handlers are operators on the state as in Lchan; `lc_abort` records a failed
assertion or the use of a NULL or freed pointer. **Routing** has the round robin
of MSCs, the conn's MSC and the filters; **CodecPref** the codecs as functions of
the configuration and the request, with what an Assignment Request makes of them.

**HoDecision** has calls in cells (`ho_call`: cell, rate, report, running
handover, penalties). An action is a report, a congestion check or the result of a
handover; `check_requirements` and the collection and choice of candidates are
operators. `bts_handover_count` counts as the code does, which does not see an lchan on
a timeslot that is still PDCH. **MeasRep** keeps the ring and, beside it, the log of everything
received, against which the averages are checked. **AccRamp**, **ChanLoad**,
**Control** and **Pcu** are small state machines after the file each is about. In Pcu
`pc_ts` is how the timeslots are, `pc_told` what the PCU has read, and `pc_untold` the
timeslots that changed without a call of `pcu_info_update()` since: reports of the BTS
and the loss of a link change them silently.

**Nanobts**, **Nokia**, **Bs11**, **Om2000** and **SwLoad** pair the BSC's side of a
bring-up with a BTS (external) that answers, refuses, reports and restarts. Their
`site` says which managed objects there are, what is refused, and bounds how often
links go down.

**FreqList** and **SysInfo** compute, both with **RangeEnc**, the range encoding of
arfcn_range_encode.c and the mobile's reading of it (external, 3GPP TS 44.018). FreqList
has the formats of a list with their decoding and the division of neighbours over SI2,
SI2bis and SI2ter; SysInfo has the neighbour lists as the operator edits them and the
messages made from them. The scrambling codes of a 3G neighbour are range-encoded too,
so `SiQuaterWhole` compares what a mobile reads from SI2quater with what was configured.

The `MC*` modules instantiate them for TLC. MCBringup, MCCell and MCServices each
extend several modules with variables of their own: one behaviour is about one of
them, named by the frozen variable `unit`, and about one of its sites. A `...Safe`,
`...Agrees` or `...Match` property is the conjunction of what a module promises; its
conjuncts are the properties defined before it. `Mut_*` operators are plausible
mistakes in the definition they precede, and nothing refers to them: each violates a
conjunct of the module's property, or a liveness property, under the run's configuration
(PROJECT.json lists one per property).

## Runs

Three runs expect a violation: they document a disagreement between the code and one
of its comments or assertions (PROJECT.json lists them under "findings"). The others
pass.

| Run | Instance | Shows |
|---|---|---|
| paging | 1 BTS, 2 subscribers | no lost wake-up of the paging loop, one request per subscriber and BTS (`PagingSafe`); every request ends |
| paging_net | 2 dependent BTSs, 1 subscriber, 2 MSCs | a subscriber is not freed in use, dependent links drop together (`NetSafe`), an answer stops paging everywhere |
| a_interface | 1 MSC, 2 conns, 3 connection ids | ids are unique and conn and stack agree (`ConnsMatch`), nothing is orphaned, no call crosses a reset; the reset completes, no conn waits for ever |
| timeslot | 2 dynamic timeslots and a static one, with all their lchans | nobody waits for a timeslot in vain, a timeslot in use is used, channels in use match its mode (`TimeslotAgrees`), what is unused is off the air (`AirMatches`), no loop of Nacks, no NULL conn |
| timeslot_live | ip.access style timeslot, all purposes | `TimeslotAgrees`, and a release always ends |
| ts_freed | Osmocom style timeslot | violated: a freed conn is used |
| call | 1 conn, 2 lchans, 2 sites | `CallAgrees`: procedure and conn state match, pointers agree in both directions, one lchan owns the MGW connection, a conn without lchans is cleared; one answer per assignment, a call moves only to a channel that is ready, no event is missed, a procedure or conn that ends leaves no lchan, MGW connection or half-moved call behind (`NothingLeftBehind`), procedures end |
| bringup | 8 nanoBTSs, 8 Nokia sites, software loads by both tools, 4 BS-11s | the order of a bring-up is kept, requests wait only for an answer that will come, software is loaded whole before it is activated; all of them end |
| cell | 7 networks of two cells, 5 ramps, 6 sets of controlled BTSs, 2 PCUs, SAPI 3 on two conns | handovers respect limits, penalties and load; ramps are gradual and never left half way; RF timers fit the policy; the PCU knows the timeslots as far as it is told; DTAP keeps its promise (refinement); all of it settles |
| services | RBSs of one and two TRXs, two legs, two MSCs with access lists, and the inputs at the ends of every range | crossing OM2000 bring-ups keep their tree of FSMs; the legs of a local call agree; a connection gets to the right MSC; frequency lists, system information, codecs, averages and load are what their reference definitions say |
| lcls_orphan | two legs | violated: a leg in NOT_YET_LS is left without its other leg, and the assertion on it fails at the next Connect Control |
| freq_range | frequency lists | violated: a range-encoded list that holds its own F0 decodes to another list |

**Bounds.** Two of everything that can be confused with another of its kind (MSCs,
conns, subscribers, lchans, legs, links), three connection ids so that the counter
wraps around and collides with an incoming one, a credit of one or two slots so that
it runs out. A call needs two lchans, an old and a new one, and the two sites have each
setting once; the properties were also checked once on all four sites, the
invariants and `MovesWhenReady` with three lchans on one site. `MaxLink` bounds the
requests under way to the BTS: two FSM instances each have at most one request
outstanding, and a third is a request that was given up. `MaxUse` and `MaxReset`
bound counters and lost messages.

In bringup a site's `links`, `losses`, `rsls` and `locks` bound how often something
goes wrong: two losses are one in the middle of a sequence and one in the middle of the
repetition. Files have fewer, as many and more segments than the window and its
multiples. In cell, three calls in two cells of two or three timeslots with a minimum
of one or two free ones congest either cell or both, and `events` (five or six) bounds
what the outside does: up, command, loss, up again and two more. A ramp with steps of
four has three steps, the last one short. In services the ring has three places, the
neighbour table two, and reports are more than either; the load has two samples a
block; `OmMaxChain` is two bring-ups that cross; SI2quater holds two messages of 75
bits, the 3G list five pairs, so that both limits are met, with scrambling codes at the
ends and in the middle of their range. Frequency lists are chosen at the ends of every
band and format, not enumerated. DTAP over SAPI 3 has two messages, a queue of one, two
conns and two stray answers or link losses: one message waits while the other is
answered, and a conn takes over an lchan on which requests of another are open.

Deadlock is not checked in bringup, cell and services: a BTS that is up has nothing
more to do, and the bounds above end the rest.

`UnusedIsOff` and `PdchAlone` are for channel requests of the MS only.
With assignments they do not hold when the BTS delays its answers beyond two
timers of the lchan: an RF Channel Release is sent, the lchan is declared
broken, and a late Nack of the activation makes it unused with the release still
under way. `UnusedKnowsPchan` is for timeslots whose RSL link is not lost alone.

**Fairness.** The select loop runs every expired timer (weak fairness of the timer
actions). The BTS reads its link (weak fairness of `Bts`; it may still ignore
what it reads). A RESET that is sent again and again gets through and is
answered at some time (strong fairness of the two actions): without it the
procedure is meant to go on for ever. The procedures that hold a conn have
timers of their own (weak fairness of `InterBscInEnd`); in `Call` these are the
timers themselves (weak fairness of `AssignmentTimeout \/ HandoverTimeout`, of
which one runs at a time), and nobody else is assumed to answer.

In bringup the BTS is assumed to read and answer, with an Ack or a Nack, and to ask for
its software (weak fairness of the `...Receive`, `NbAsk`, `NkBts...` and `SwReport`
actions); the code has no timer for a lost answer of OML, so without this nothing
would end. In cell the timers (`ArStep`, `RfDelay`, `grace_timeout`, `RlTimeout`), the
write of a socket that is writable (`pcu_sock_write`), a BTS that takes its requests
(`CtTakes`), a handover that is not refused (`HoSwitched`, `HoSucceeds`) and the end of
a procedure (`RlProcedureEnds`: shown to end in `Call`) or of a conn that is being
cleared (`RlCleared`, which has a timer of its own) are weakly fair. services has none.

## Further disagreements

Met while modelling, represented in the models, and without a run of their own. Where
a property is named, it is defined in the module of that part; it is what one would
expect, and the model, like the code, does not keep it.
File names are those of src/src/osmo-bsc.

- `bsc_compl_l3` and then `paging_request_stop()` (paging.c:432) each store a
  reference in `conn->bsub`; one is put: the subscriber leaks
  (`SubscrFreedByLastHolder`).
- `conn_get_bts()` asserts an lchan, but a Cipher Mode Command or an Assignment
  Request may reach a conn that has lost its lchan (`ConnHasLchan`).
- A late RESET ACK of an earlier RESET ends a reset procedure that has not sent
  its own (a_reset.c:70, `ResetBeforeReconnect`).
- With MSCs on different SS7 instances connection ids collide, and the
  "impossible" N-CONNECT (osmo_bsc_sigtran.c:168) is left open in the stack
  (`NoOrphanedConnection` without `SingleInstance`).
- The lchan of an abandoned assignment that fails in release dereferences a NULL
  conn (lchan_fsm.c:118, `ConnNotUsedNull` for assignments).
- A timeslot that loses its link has `pchan_is` NONE before its lchans are
  released: the channel number of sub-slot 1 is asserted not to exist
  (timeslot_fsm.c:713, `ChanNrExists`); an ip.access style timeslot whose RSL link
  alone comes back keeps it (`UnusedKnowsPchan`, checked without such a loss).
- `ipaccess_drop_oml()` drops RSL without `TS_EV_RSL_DOWN`, so that the next
  OML_READY makes the timeslot usable without a link (`UsableHasLink`).
- A rollback in `WAIT_MGW_ENDPOINT_CONFIGURED` is refused by that state's
  out_state_mask; the release that follows deletes the old lchan's MGW connection.
- Nothing dispatches `HO_EV_CONN_RELEASING` or `ASSIGNMENT_EV_CONN_RELEASING`: an
  assignment survives a Clear Command and fails after the Clear Complete.
- A conn that loses its primary lchan during an assignment has none to send the
  Assignment Command on (assignment_fsm.c:513, crash `primary`); one that loses the
  new lchan after the MS has moved changes to a NULL lchan (crash `new`).
- A handler that moves the RTP stream goes on after the failure it caused has freed
  the handover FSM (handover_fsm.c:1043-1046, crash `fsm`).
- The end of a conn drops the MGW endpoint before it resets an assignment that
  remembers a connection of it (bsc_subscr_conn_fsm.c:801, crash `ci`).
  `NothingLeftBehind` is about the behaviours without these crashes.
- A Handover Required that cannot be sent falls into the branch of a handover the MS
  has left for, and releases the lchan of the call (handover_fsm.c:1137, 812-825).
- Handover Performed names the old cell, as it is sent before the lchan changes
  (handover_fsm.c:838-850).
- `gscon_connect_mgw_to_msc()` returns true for a connection that exists already
  without dispatching success: the assignment waits for its timer.
- A late answer to a rollback overwrites the MGW connection of an lchan that has
  been reused since.
- New requests postpone the paging credit for ever, as the timer is restarted
  (paging.c:203; `SlotsRefilled`).
- A Clear Request is sent on an SCCP connection that is not confirmed
  (bsc_subscr_conn_fsm.c:142; `LiveSccpOnly`).
- "A late Chan Activ ACK? Release.": the change out of BORKEN is refused
  (lchan_fsm.c:1081; `LateAckReleased`).
- A rollback that the MGW answers gives the old lchan nothing (lchan_fsm.c:1040;
  `RollbackGivesBack`); a handover completes on a conn that lost
  its lchan (handover_fsm.c:719; `PrimaryAsserted`).

LCLS (osmo_bsc_lcls.c):
- A leg in REQ_LCLS_NOT_SUPP that correlates anew clears the pointers of both legs; an
  APPLY in NO_LONGER_LS meets `OSMO_ASSERT(0)`; the end of a leg does not break the loop
  of one that is LOCALLY_SWITCHED, although the comment at the cleanup says so; a leg may
  stay in WAIT_OTHER_BREAK with a dangling pointer, or for ever.

System information and frequencies:
- Neighbours that were accepted make a later generation fail, as `append_uarfcns` reads
  one entry beyond the list (`SiNeighboursAdvertised`); `si13_default.egprs` is set for one BTS and never reset
  (`SiEgprsOwn`); SI5 does not announce SI5bis (`SiSacchExtension`); SI13 is not
  withdrawn with GPRS (`SiNoGprs`).
- A scrambling code of 0 is not told to the mobile, and another code takes its place:
  `f0_helper()` passes 0 as the origin and the range encoding leaves an element equal to
  it out, but the number of cells still counts it. Code 1 next to code 0 of the same
  UARFCN is refused (-EINVAL of the encoder), with the list rolled back.
- A list of 17 frequencies without ARFCN 0 is accepted for range 1024, which writes 16.

Handover decision:
- Requirements are compared as signed and unsigned, so a negative difference wins
  (handover_decision_2.c:1127, `HoBestFirst` with `ThreeCells`); a timeslot that is
  still switching counts as free.
- "Maximum number of concurrent handovers allowed per cell" (handover_cfg.h:243) is passed
  in a cell with dynamic timeslots, as `bts_handover_count()` looks only at lchans their
  timeslot has at the time (handover_logic.c:99); `HoMaxKept` is for cells without them.
- ARFCN 0 means an unused entry of the neighbour table, so that a neighbour with it is
  never a target (handover_decision.c:94, 123, 180).
- Algorithm 1 does not require the target in the latest report
  (handover_decision.c:172, `MrTargetReported`), which algorithm 2 does; the worst
  neighbour is evicted also for a worse one (handover_decision_2.c:318).

Links, RF, access:
- The request of one conn for SAPI 3 is completed on the conn that has the lchan
  by then, as nothing dispatches `S_CHALLOC_FREED` (bsc_rll.c:121, `RlOwnConn`).
- When an ESTABLISH REQUEST cannot be sent, the message is freed and the MSC gets a SAPI
  "n" Reject, but the request stays listed and its timer leads to `rll_ind_cb()` with
  the freed message, and to a second Reject (bsc_subscr_conn_fsm.c:1013).
- An IMSI in a CM SERVICE REQUEST or LOCATION UPDATING REQUEST on a connection there is
  already is not filtered (libfilter/bsc_msg_filter.c:334).
- The MSC a conn was moved to by the filter is not the one the connection goes to:
  GSCON_EV_A_CONN_REQ is taken in ST_INIT only (gsm_08_08.c:515, `RtOneMsc`).
- `acc_ramp_nm_sig_cb()` does not look at whose TRX it is (`AccAbortAllows` with
  `TwoBtss`); a class barred for good in the middle of a ramp stalls it.
- With RF off a carrier may transmit and have no lock on its way (`RfOffIsOff`); the loss
  of the last BTS is not always told (`CtDownIsTold`); S_MSC_LOST is never dispatched.
- A PCU that connects is not told of the timeslots by itself; changes of their
  operational state and the loss of a link, which takes them out of use, are not told
  (`pc_untold`); a message for AGCH is leaked when it is sent. A `pcu-socket` command
  whose new path cannot be opened leaves the BTS without any socket.
- The lock of a carrier is undone when it is activated anew (`NbLockKept`); any TEI
  that goes down resets the managed objects and empties the OML queue.
- "Restart the BTS (after other operations)": ipaccess-config restarts it before the
  software load when there are other operations too (`SwRestartLast` with `LoadsAndMore`).
- "initializes CF and all siblings" (bts_ericsson_rbs2000.c:41): those of the first TRX only.
- The end of an OM2000 FSM clears `mo->fsm` also where a later bring-up has put its own
  there; that one then gets no answer and runs into its timer (`OmNoDanglingFsm` has
  only that nobody uses an FSM that has ended).
- The loss of any link empties the OML queue of a BS-11 and leaves it half configured
  (`b11_cut`; `B11Safe` says nothing of such a bring-up).
- The failure of `check_codec_pref()` at start-up is only logged. AMR with nothing but
  5.15k in common is advertised without a configuration, and then refused, as S0-S15 have
  no bit for that rate; `CpAdvertisedTaken` says that this is the only such case.

## Proofs

`AInterface_proofs` proves with TLAPS, for any sets of MSCs, conns, SS7
instances and any number of connection ids: type correctness, `ConnsMatch`
(`ConnIdsUnique` and `SccpStateAgrees`), `NoCallAcrossReset`, and, if all MSCs are on
one SS7 instance (the assumption `SingleInstance`), `NoOrphanedConnection`.

The inductive invariant is `IInv`: the type invariant, a bound on the resets
under way, `LiveConns` (a conn that is not free has an MSC and an id),
`ConnIdsUnique` and `SccpStateAgrees`. None of these is inductive alone:
that a new connection gets an id no conn has follows from the search in
`bsc_sccp_inst_next_conn_id`, but that an incoming connection does so needs
`SccpStateAgrees`, as the stack offers ids that are idle in the stack; and that
the conn found by an id is the one the stack means needs `ConnIdsUnique`.
One lemma per action shows that it preserves `IInv`.

`Rll_proofs` proves, for any messages, any number of conns and any limit of the queue,
the refinement `PromiseKept` (Rll implements DtapService) and `RlQueueFlushed`. The
invariant `RlInv` adds to the type invariant and `RlQueueFlushed` that a message is in
one place only (`OnePlace`: in the queue or in a request, once, with no end decided) and
that the message of a request left behind has exactly one end (it is in a request too,
but no longer in hand).
Without it a step that ends a message could leave a second copy behind, and the step
would map to no step of DtapService. Each action of Rll is shown to be a step of
DtapService or a stutter; removing an entry from a sequence is described by lemmas on
the set of its elements.

`Pcu_proofs` proves `PcSafe` for any set of PCU configurations (`PcSitesAssumption`:
they have the shape of one) and any number of events. `PcKnows` is about a
PCU whose queue is empty; the invariant `PcInv` says of any queue that the last news in
it, or what was told when there is none, is how the timeslots are, but for those in
`pc_untold` (`Informed`), and that a PCU is told only while it is connected. Sending a
message and writing one move the same news along, and a change of a timeslot replaces it.

`AccRamp_proofs` proves `AccSafe` (`[][...]`, an action property with the type
invariant) for any number of BTSs (`AccSitesAssumption`). A ramp is described by
`Ramping`, which every BTS satisfies where the operator bars no class by hand: no
timer without ramping, nothing left to allow without the timer, and what a linked cell
broadcasts is what the ramp bars. `AccGradual` needs it, as a step changes the barred
classes, and the broadcast follows from them; that one step allows the lowest classes and at most
`step_size` of them is a lemma on the definition by cardinality. `AccHalfWay` is about a
network of one E1 BTS with one TRX (`Alone`), for which the invariant adds that a cell on
the air broadcasts what its ramp bars.

`Control_proofs` proves `RfTimersMatch`, `RfExcluded`, `CtUpIsTold` and `CtPlmnApplied`
for any number of BTSs (`CtSitesAssumption`). The invariant `CtInv` says of each BTS
(`Fits`) that all requests in the queue of an excluded one are to unlock, and ties the
last trap to `bts_connection_status`: the trap is sent only when that changes, so
without it a client could be left with an old one. `CtLocsDiffer`, the fifth part of
`CtSafe`, stays with TLC, as the prover has no facts about `SelectSeq`.

Only model-checked: all liveness; the paging queue, which is filtered with `SelectSeq`;
the timeslot with its lchans, the call, the legs of local calls and the OM2000 FSMs, whose
handlers are cascades of operators on one record; and the modules with recursive
operators (Nanobts, Nokia, SwLoad, HoDecision, RangeEnc, FreqList, SysInfo), about which the prover
can say nothing.

## Not modelled

- Encoding and decoding of messages, apart from frequency lists and what the system
  information announces; logging, counters, statistics, configuration and its printing.
- The choice of a cipher, power control, SMSCB, the patching of MM INFO, the text of
  short messages during the grace period.
- E1-attached BTSs in Paging, which keep their RSL links when OML is lost; CBCH, SDCCH
  and static PDCH timeslots.
- The measurement feed and its tools (one packet per report), ipaccess-find,
  ipaccess-firmware and ipaccess-proxy: input and output, hardly any state.
- A handover between cells with the neighbour lookup of neighbor_ident.c and several
  LACs: the table is fixed in HoDecision.
- Regular expressions of the access lists: lists are sets.
- Configuration data of Nokia, RBS 2000 and BS-11 beyond what the sequences depend on.
