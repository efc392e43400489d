------------------------------ MODULE MeasRep ------------------------------
(***************************************************************************)
(* The measurement reports of one logical channel: the ring of the last    *)
(* reports (rsl_rx_meas_res of abis_rsl.c, meas_rep.c), the averages taken *)
(* from it, the table of neighbours each handover algorithm keeps from the *)
(* reports (process_meas_neigh, the same in handover_decision.c and        *)
(* handover_decision_2.c), and the neighbour algorithm 1 would hand over   *)
(* to.  The level is the downlink level of the serving cell.               *)
(***************************************************************************)
EXTENDS Integers, Sequences, FiniteSets, FiniteSetsExt, Functions, SequencesExt

CONSTANTS MAX_MEAS_REP,       \* entries of the ring (10 in gsm_data.h)
          MAX_NEIGH_MEAS,     \* entries of the table of neighbours (10)
          MAX_WIN_NEIGH_AVG,  \* levels kept of a neighbour (10)
          MrReports,          \* the MEASUREMENT RESULTs considered
          MrSites

ASSUME MrSizes == {MAX_MEAS_REP, MAX_NEIGH_MEAS, MAX_WIN_NEIGH_AVG} \subseteq Nat \ {0}

\* part: what the message holds: all of it, an L3 message that is not a MEASUREMENT REPORT, or not all of the
\* mandatory elements;  lev, valid: the level and whether the MS could measure the downlink;  cells: the
\* neighbours in it, in their order
MrReport == [part : {"whole", "foreign", "lacks"}, lev : Nat, valid : BOOLEAN,
             cells : Seq([arfcn : Nat, lev : Nat])]
\* events: bound on the steps;  win, hyst: hodec1's window for neighbours and power hysteresis
MrSite == [events : Nat, win : 1 .. MAX_WIN_NEIGH_AVG, hyst : Nat]
ASSUME MrInputs == MrReports \subseteq MrReport /\ MrSites \subseteq MrSite

VARIABLES mr_site, mr_active, mr_ring, mr_idx, mr_count, mr_neigh, mr_target,
          mr_log,   \* every MEASUREMENT RESULT since the channel was reset, as the ring takes it
          mr_seen,  \* the neighbours of every report that went into the table since then
          mr_steps
mrVars == <<mr_site, mr_active, mr_ring, mr_idx, mr_count, mr_neigh, mr_target, mr_log, mr_seen, mr_steps>>

Blank == [lev |-> 0, valid |-> FALSE]
NoNeigh == [arfcn |-> 0, rxlev |-> [n \in 0 .. MAX_WIN_NEIGH_AVG - 1 |-> 0], rxlev_cnt |-> 0]

--------------------------------------------------------------------------
(* meas_rep.c *)

\* -EINVAL for a downlink field of a report without a valid downlink measurement
get_field(rep) == IF rep.valid THEN rep.lev ELSE -22

Mut_calc_initial_idx(size, idx, num) == IF idx - num <= 0 THEN size + idx - num - 1 ELSE idx - num
calc_initial_idx(size, idx, num) == IF idx - num < 0 THEN size + idx - num ELSE idx - num

\* The last num slots of the ring, oldest first
LastSlots(ring, idx, num) ==
    [i \in 1 .. num |-> ring[(calc_initial_idx(MAX_MEAS_REP, idx, num) + i - 1) % MAX_MEAS_REP]]

Mean(s) == FoldFunction(+, 0, s) \div Len(s)

get_meas_rep_avg(ring, idx, count, num) ==
    LET v == SelectSeq([i \in 1 .. num |-> get_field(LastSlots(ring, idx, num)[i])], LAMBDA x : x >= 0)
    IN  IF num < 1 \/ num > count \/ v = <<>> THEN -22 ELSE Mean(v)

meas_rep_n_out_of_m_be(ring, idx, n, m, be) ==
    Cardinality({i \in 1 .. m : get_field(LastSlots(ring, idx, m)[i]) >= be}) >= n

--------------------------------------------------------------------------
(* The table of neighbours *)

neigh_meas_avg(nmp, window) ==
    LET w == IF window > nmp.rxlev_cnt THEN nmp.rxlev_cnt ELSE window
        idx == calc_initial_idx(MAX_WIN_NEIGH_AVG, nmp.rxlev_cnt % MAX_WIN_NEIGH_AVG, w)
    IN  IF w <= 0 THEN 0 ELSE Mean([i \in 1 .. w |-> nmp.rxlev[(idx + i - 1) % MAX_WIN_NEIGH_AVG]])

\* The first unused entry, or the first of those with the worst average
find_unused_or_worst_neigh(neigh) ==
    LET Free == {j \in DOMAIN neigh : neigh[j].arfcn = 0}
        Avg(j) == neigh_meas_avg(neigh[j], MAX_WIN_NEIGH_AVG)
    IN  IF Free # {} THEN Min(Free)
        ELSE Min({j \in DOMAIN neigh : \A k \in DOMAIN neigh : Avg(j) <= Avg(k)})

\* The level of a cell in a report, -1 (no entry) if it is not in it
cell_in_rep(cells, arfcn) ==
    LET C == {i \in DOMAIN cells : cells[i].arfcn = arfcn} IN IF C = {} THEN -1 ELSE cells[Min(C)].lev

\* What a report means for the entries there are: a cell that is not in it is recorded with level 0
Mut_UpdateKnown(neigh, cells) ==
    [j \in DOMAIN neigh |->
        LET lev == cell_in_rep(cells, neigh[j].arfcn) IN
        IF neigh[j].arfcn = 0 \/ lev < 0 THEN neigh[j]
        ELSE [neigh[j] EXCEPT !.rxlev[neigh[j].rxlev_cnt % MAX_WIN_NEIGH_AVG] = lev, !.rxlev_cnt = @ + 1]]
UpdateKnown(neigh, cells) ==
    [j \in DOMAIN neigh |->
        LET lev == cell_in_rep(cells, neigh[j].arfcn) IN
        IF neigh[j].arfcn = 0 THEN neigh[j]
        ELSE [neigh[j] EXCEPT !.rxlev[neigh[j].rxlev_cnt % MAX_WIN_NEIGH_AVG] = IF lev >= 0 THEN lev ELSE 0,
                              !.rxlev_cnt = @ + 1]]

\* The cells of the report that were not known take entries, one after the other.  The levels of an evicted
\* cell stay in the array behind the new count.  The entry of ARFCN 0 still counts as unused
AddNew(neigh, new) ==
    FoldLeft(LAMBDA t, c : LET j == find_unused_or_worst_neigh(t) IN
                           [t EXCEPT ![j] = [@ EXCEPT !.arfcn = c.arfcn, !.rxlev[0] = c.lev, !.rxlev_cnt = 1]],
             neigh, new)

process_meas_neigh(neigh, cells) ==
    AddNew(UpdateKnown(neigh, cells),
           SelectSeq(cells, LAMBDA c : c.arfcn = 0 \/ \A j \in DOMAIN neigh : neigh[j].arfcn # c.arfcn))

\* hodec1: the first of the neighbours that are better than the serving cell by most, 0 if there is none
attempt_handover(neigh, lev) ==
    LET Better(j) == neigh_meas_avg(neigh[j], mr_site.win) - lev
        C == {j \in DOMAIN neigh : neigh[j].arfcn # 0 /\ Better(j) >= mr_site.hyst /\ Better(j) > 0}
        B == {j \in C : \A k \in C : Better(j) >= Better(k)}
    IN  IF B = {} THEN 0 ELSE neigh[Min(B)].arfcn

--------------------------------------------------------------------------
(* Steps *)

\* rsl_rx_meas_res, and the handover algorithms' callback for a report that is whole.  The ring moves on
\* before the message is looked at
MrResult(r) ==
    LET slot == IF ~mr_active \/ r.part = "lacks" THEN Blank
                ELSE [lev |-> r.lev, valid |-> r.part = "whole" /\ r.valid]
    IN
    /\ mr_ring' = [mr_ring EXCEPT ![mr_idx] = slot]
    /\ mr_idx' = (mr_idx + 1) % MAX_MEAS_REP
    /\ mr_log' = Append(mr_log, slot)
    /\ IF mr_active /\ r.part = "whole"
       THEN /\ mr_count' = mr_count + 1
            /\ mr_neigh' = IF r.cells # <<>> THEN process_meas_neigh(mr_neigh, r.cells) ELSE mr_neigh
            /\ mr_seen' = IF r.cells # <<>> THEN Append(mr_seen, r.cells) ELSE mr_seen
            /\ mr_target' = [cell |-> attempt_handover(mr_neigh', r.lev), reported |-> {c.arfcn : c \in ToSet(r.cells)}]
       ELSE UNCHANGED <<mr_count, mr_neigh, mr_seen, mr_target>>
    /\ UNCHANGED <<mr_site, mr_active>>

NoTarget == [cell |-> 0, reported |-> {}]
\* lchan_reset, on the way to LCHAN_ST_UNUSED, clears the whole lchan; the next activation sets it up again
lchan_reset ==
    /\ mr_active' = FALSE
    /\ mr_ring' = [i \in 0 .. MAX_MEAS_REP - 1 |-> Blank] /\ mr_idx' = 0 /\ mr_count' = 0
    /\ mr_neigh' = [j \in 1 .. MAX_NEIGH_MEAS |-> NoNeigh]
    /\ mr_log' = <<>> /\ mr_seen' = <<>> /\ mr_target' = NoTarget
    /\ UNCHANGED mr_site

MrActivate == mr_active' = TRUE /\ UNCHANGED <<mr_site, mr_ring, mr_idx, mr_count, mr_neigh, mr_target, mr_log, mr_seen>>

MrInit == /\ mr_site \in MrSites /\ mr_active = FALSE /\ mr_steps = 0 /\ mr_idx = 0 /\ mr_count = 0
          /\ mr_ring = [i \in 0 .. MAX_MEAS_REP - 1 |-> Blank]
          /\ mr_neigh = [j \in 1 .. MAX_NEIGH_MEAS |-> NoNeigh]
          /\ mr_target = NoTarget /\ mr_log = <<>> /\ mr_seen = <<>>
MrNext == /\ mr_steps < mr_site.events
          /\ mr_steps' = mr_steps + 1
          /\ \/ \E r \in MrReports : MrResult(r)
             \/ mr_active /\ lchan_reset
             \/ ~mr_active /\ MrActivate
MrSpec == MrInit /\ [][MrNext]_mrVars

--------------------------------------------------------------------------
(* Properties *)

LastOf(s, n) == SubSeq(s, Len(s) - n + 1, Len(s))

\* The averages and the n-out-of-m test of meas_rep.c, taken from the ring, are those of the last messages
\* that came for this use of the channel, whatever messages were faulty and wherever the ring has wrapped
MrWindow == \A num \in 1 .. MAX_MEAS_REP :
    /\ mr_count >= num =>
         LET v == SelectSeq(LastOf(mr_log, num), LAMBDA x : x.valid) IN
         get_meas_rep_avg(mr_ring, mr_idx, mr_count, num) =
            IF v = <<>> THEN -22 ELSE Mean([i \in DOMAIN v |-> v[i].lev])
    /\ mr_count < num => get_meas_rep_avg(mr_ring, mr_idx, mr_count, num) = -22
    /\ meas_rep_n_out_of_m_be(mr_ring, mr_idx, 2, num, 3) <=>
         Cardinality({i \in DOMAIN mr_log : i > Len(mr_log) - num /\ mr_log[i].valid /\ mr_log[i].lev >= 3}) >= 2

\* A neighbour (but for ARFCN 0, of which no entry is kept) has one entry, and the average of it is over the
\* reports that had neighbours since the entry was made: a report without the cell counts as level 0, and nothing
\* of a cell evicted from the entry is left in it
MrNeighbours == \A j \in DOMAIN mr_neigh : LET e == mr_neigh[j] IN e.arfcn # 0 =>
    /\ \A k \in DOMAIN mr_neigh \ {j} : mr_neigh[k].arfcn # e.arfcn
    /\ e.rxlev_cnt \in 1 .. Len(mr_seen)
    /\ \A w \in 1 .. MAX_WIN_NEIGH_AVG :
         LET s == LastOf(mr_seen, IF w < e.rxlev_cnt THEN w ELSE e.rxlev_cnt) IN
         neigh_meas_avg(e, w) =
            Mean([i \in DOMAIN s |-> IF cell_in_rep(s[i], e.arfcn) < 0 THEN 0 ELSE cell_in_rep(s[i], e.arfcn)])

\* The averages that handover decisions rest on are those of the reports received.
MrSafe == MrWindow /\ MrNeighbours

\* Algorithm 1 hands over to a cell of the report at hand (the comment of attempt_handover)
MrTargetReported == mr_target.cell # 0 => mr_target.cell \in mr_target.reported
=============================================================================
