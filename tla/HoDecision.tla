----------------------------- MODULE HoDecision -----------------------------
(***************************************************************************)
(* Which call is handed over, to which cell and at which rate              *)
(* (handover_decision_2.c, penalty_timers.c, and the older algorithm of    *)
(* handover_decision.c), over the counts of free channels it reads         *)
(* (gsm_data.c) and the channel handover_request() then gets               *)
(* (lchan_select.c).                                                       *)
(*                                                                         *)
(* The averaging windows have length 1, so that an average is the level of *)
(* the last report.  A handover is here only its beginning, the channel it *)
(* holds and its end: its messages are those of Call.                      *)
(***************************************************************************)
EXTENDS Integers, Sequences, FiniteSets

CONSTANTS
    HoCalls,    \* the calls there may be
    HoSites     \* the configurations considered

Remote == 0                          \* the cell of another BSS; the BTSs are 1..Len(cell)
Rates == {"F", "H"}
HoModes == {"SPEECH_V1", "SPEECH_EFR", "SPEECH_AMR", "SIGN"}
HoCodecs == {"HR1", "FR2", "FR3", "HR3"}

\* alg: the algorithm;  as, ho: assignment and handover are allowed;  codec: what the BTS supports;
\* minlev (as rxlev), minqual, hyst, bias and biasq, max, maxta, min, retries, and penalty (of a failure and of
\* the distance): its handover settings;  ts: the pchan of its timeslots, "D" for TCH/F_TCH/H_PDCH
HoCell == [alg : {1, 2}, as : BOOLEAN, ho : BOOLEAN, codec : SUBSET {"hr", "efr", "amr"}, minlev : 0..63,
           minqual : 0..7, hyst : Nat, bias : Nat, biasq : Nat, max : Nat, maxta : Nat, min : [Rates -> Nat],
           retries : Nat, penalty : [{"fail", "dist"} -> Nat], ts : Seq({"F", "H", "D"})]

\* what the MS measures: lev and qual of its own cell (unless invalid), ta its distance, cells the
\* levels of the neighbours it hears;  power: it is the turn of the power budget check;  bad: three of
\* the last four qualities were 5 or worse
HoReport == [valid : BOOLEAN, lev : 0..63, qual : 0..7, ta : Nat, cells : UNION {[S -> 0..63] : S \in SUBSET (0..3)},
             power : BOOLEAN, bad : BOOLEAN]

NoReport == [valid |-> FALSE, lev |-> 0, qual |-> 0, ta |-> 0, cells |-> <<>>, power |-> FALSE, bad |-> FALSE]

\* cell: the BTSs;  allowF: dyn_ts_allow_tch_f;  reports: what a call may report in a BTS;  born: the
\* calls that may come up, [bts, type, mode, codecs];  calls: how many at a
\* time;  fails: a handover may fail;  lost: a call may end
HoSite == [cell : Seq(HoCell), allowF : BOOLEAN, reports : Seq(SUBSET HoReport),
           born : SUBSET [bts : 1..3, type : Rates, mode : HoModes, codecs : SUBSET HoCodecs],
           calls : Nat, fails : BOOLEAN, lost : BOOLEAN]

ASSUME HoAssumption == HoCalls \subseteq Nat /\ \A s \in HoSites : Len(s.reports) = Len(s.cell)

VARIABLES
    ho_site,
    ho_call,    \* the calls
    ho_why      \* what the last step was: "none", "critical", "better", "congestion" or "power"

hoVars == <<ho_site, ho_call, ho_why>>

Cells == 1..Len(ho_site.cell)
Targets == {Remote} \cup Cells
Cfg(b) == ho_site.cell[b]

\* an lchan: timeslot and number in it; the handover under way: where to, the new lchan (Nowhere for
\* Remote), its rate, whether a dynamic timeslot is still being switched to that rate, and which
\* algorithm asked for it
Nowhere == <<0, 0>>
NoHandover == [to |-> -1, ch |-> Nowhere, type |-> "F", switching |-> FALSE, by |-> 0]

NoCall == [on |-> FALSE, bts |-> 0, ch |-> Nowhere, type |-> "F", mode |-> "SIGN", codecs |-> {}, rep |-> NoReport,
           pen |-> [t \in 0..3 |-> 0], fails |-> 0, ho |-> NoHandover]

HoTypeOK ==
    /\ ho_site \in HoSites
    /\ DOMAIN ho_call = HoCalls
    /\ \A c \in HoCalls :
         LET k == ho_call[c] IN
         /\ k.on => k.bts \in Cells /\ k.ch # Nowhere /\ k.fails \in 0..Cfg(k.bts).retries
         /\ k.ho.to # -1 => k.on /\ k.ho.to \in Targets
         /\ \A t \in 0..3 : k.pen[t] >= 0
    /\ ho_why \in {"none", "critical", "better", "congestion", "power"}

------------------------------------------------------------------------------
(* Channels *)

\* the lchans that are in use: [bts, ch, type] of the calls and of their handovers
HeldTs(calls) == {[of |-> c, bts |-> calls[c].bts, ch |-> calls[c].ch, type |-> calls[c].type] : c \in {d \in HoCalls : calls[d].on}} \cup
               {[of |-> c, bts |-> calls[c].ho.to, ch |-> calls[c].ho.ch, type |-> calls[c].ho.type] :
                  c \in {d \in HoCalls : calls[d].ho.to \in Cells}}

Used(calls, b, t, r) == Cardinality({h \in HeldTs(calls) : h.bts = b /\ h.ch[1] = t /\ h.type = r})

Switching(calls, b, t) == \E c \in HoCalls : calls[c].ho.to = b /\ calls[c].ho.ch[1] = t /\ calls[c].ho.switching

Lchans(r) == IF r = "F" THEN 1 ELSE 2

\* ts->pchan_is: a dynamic timeslot stays a PDCH until it has been switched
pchan_is(calls, b, t) ==
    CASE Cfg(b).ts[t] # "D" -> Cfg(b).ts[t]
      [] Switching(calls, b, t) -> "PDCH"
      [] Used(calls, b, t, "F") > 0 -> "F"
      [] Used(calls, b, t, "H") > 0 -> "H"
      [] OTHER -> "PDCH"

RECURSIVE SumOf(_, _)
SumOf(f, n) == IF n = 0 THEN 0 ELSE f[n] + SumOf(f, n - 1)

bts_count_free_ts(calls, b, r) ==
    SumOf([t \in 1..Len(Cfg(b).ts) |->
             CASE pchan_is(calls, b, t) = "PDCH" -> Lchans(r)
               [] pchan_is(calls, b, t) = r -> Lchans(r) - Used(calls, b, t, r)
               [] OTHER -> 0], Len(Cfg(b).ts))

\* lchan_select_by_type(): the fixed timeslots first, a dynamic one when it is free or waits for, or
\* is used at, the same rate
Usable(calls, b, t, r) ==
    /\ Used(calls, b, t, r) < Lchans(r)
    /\ Used(calls, b, t, CHOOSE q \in Rates : q # r) = 0

lchan_select_by_type(calls, b, r) ==
    LET all == 1..Len(Cfg(b).ts)
        fixed == {t \in all : Cfg(b).ts[t] = r /\ Usable(calls, b, t, r)}
        dyn == {t \in all : Cfg(b).ts[t] = "D" /\ Usable(calls, b, t, r) /\ (r = "F" => ho_site.allowF)}
        from == IF fixed # {} THEN fixed ELSE dyn
    IN  IF from = {} THEN Nowhere
        ELSE LET t == CHOOSE t \in from : \A u \in from : t <= u
             IN  <<t, CHOOSE ss \in 1..2 : \A h \in HeldTs(calls) : ~(h.bts = b /\ h.ch = <<t, ss>>)>>

\* bts_handover_count(): the lchans in b, old or new, whose connection is being handed over;
\* ts_for_each_lchan() finds none in a timeslot that is a PDCH until it has been switched
bts_handover_count(calls, b) ==
    Cardinality({c \in HoCalls : calls[c].ho.to # -1 /\ calls[c].bts = b})
    + Cardinality({c \in HoCalls : calls[c].ho.to = b /\ pchan_is(calls, b, calls[c].ho.ch[1]) # "PDCH"})

------------------------------------------------------------------------------
(* Requirements: pairs <<"A", rate>> (the cell can serve the call), "B" (it keeps its minimum of    *)
(* free channels) and "C" (it has as many free as the call's cell, after the handover)              *)

codec_type_is_supported(k, codec) == k.codecs = {} \/ codec \in k.codecs

\* the rates at which the codec of the call works, in a BTS that supports has
CodecRates(k, has) ==
    CASE k.mode = "SPEECH_V1" -> IF k.type = "F" THEN {"F"} ELSE {r \in {"H"} : "hr" \in has /\ codec_type_is_supported(k, "HR1")}
      [] k.mode = "SPEECH_EFR" -> {r \in {"F"} : "efr" \in has /\ codec_type_is_supported(k, "FR2")}
      [] k.mode = "SPEECH_AMR" -> {r \in Rates : "amr" \in has /\ codec_type_is_supported(k, IF r = "F" THEN "FR3" ELSE "HR3")}
      [] OTHER -> {}

Mut_NotAllowed(calls, k, b) ==
    \/ b = k.bts /\ ~Cfg(b).as
    \/ b # k.bts /\ (~Cfg(b).ho \/ bts_handover_count(calls, b) >= Cfg(b).max)

Mut_NotAllowed_max(calls, k, b) ==
    \/ b = k.bts /\ ~Cfg(b).as
    \/ b # k.bts /\ (~Cfg(b).ho \/ bts_handover_count(calls, b) > Cfg(b).max)
    \/ k.pen[b] > 0

\* the settings of b, its penalty timer or the handovers it has already rule it out
NotAllowed(calls, k, b) ==
    \/ b = k.bts /\ ~Cfg(b).as
    \/ b # k.bts /\ (~Cfg(b).ho \/ bts_handover_count(calls, b) >= Cfg(b).max)
    \/ k.pen[b] > 0

Mut_LessCongested(calls, k, b, r) == bts_count_free_ts(calls, b, r) >= bts_count_free_ts(calls, k.bts, k.type)

LessCongested(calls, k, b, r) == bts_count_free_ts(calls, b, r) - 1 >= bts_count_free_ts(calls, k.bts, k.type) + 1

\* what must be kept free in b stays free
StaysFree(calls, b, r) == bts_count_free_ts(calls, b, r) - 1 >= Cfg(b).min[r]

check_requirements(calls, k, b) ==
    LET rates == {r \in CodecRates(k, Cfg(b).codec) : bts_count_free_ts(calls, b, r) > 0} \ (IF b = k.bts THEN {k.type} ELSE {})
    IN  IF NotAllowed(calls, k, b) THEN {}
        ELSE ({"A"} \X rates)
             \cup ({"B"} \X {r \in rates : StaysFree(calls, b, r)})
             \cup ({"C"} \X {r \in rates : LessCongested(calls, k, b, r)})

\* nothing is known of the other BSS: what would serve the call is taken to have room
check_requirements_remote_bss(k) ==
    IF k.pen[Remote] > 0 THEN {} ELSE {"A", "B", "C"} \X CodecRates(k, {"hr", "efr", "amr"})

\* a candidate: the call, its target, what the target fulfils, the level there
collect_assignment_candidate(calls, c) ==
    {[of |-> c, to |-> calls[c].bts, req |-> check_requirements(calls, calls[c], calls[c].bts), avg |-> calls[c].rep.lev]}

collect_handover_candidate(calls, c, t, weaker) ==
    LET k == calls[c]
        avg == k.rep.cells[t]
        cfg == Cfg(IF t = Remote THEN k.bts ELSE t)
    IN  {x \in {[of |-> c, to |-> t, req |-> IF t = Remote THEN check_requirements_remote_bss(k) ELSE check_requirements(calls, k, t),
                 avg |-> avg]} :
           /\ t # k.bts
           /\ weaker \/ avg > k.rep.lev + Cfg(k.bts).hyst
           /\ avg >= cfg.minlev}

collect_candidates_for_lchan(calls, c, weaker) ==
    LET k == calls[c] IN
    IF ~k.rep.valid THEN {}
    ELSE (IF Cfg(k.bts).as THEN collect_assignment_candidate(calls, c) ELSE {})
         \cup (IF Cfg(k.bts).ho THEN UNION {collect_handover_candidate(calls, c, t, weaker) : t \in DOMAIN k.rep.cells \cap Targets}
               ELSE {})

------------------------------------------------------------------------------
(* Triggering *)

Mask(x, letter) == {r \in Rates : <<letter, r>> \in x.req}

\* penalty_timers_add(): a longer penalty that is running stays
penalty_timers_add(k, t, time) == [k EXCEPT !.pen[t] = IF time > @ THEN time ELSE @]

\* on_handover_end() of a handover that failed: held is the target its new lchan, or else its remote
\* cell, tells; there is none when a BTS had no channel
Mut_on_handover_end(k, held) ==
    IF k.fails < Cfg(k.bts).retries THEN [k EXCEPT !.fails = @ + 1]
    ELSE LET n == [k EXCEPT !.fails = @ + 1]
         IN  IF held = {} THEN n ELSE penalty_timers_add(n, CHOOSE t \in held : TRUE, Cfg(k.bts).penalty["fail"])

on_handover_end(k, held) ==
    IF k.fails < Cfg(k.bts).retries THEN [k EXCEPT !.fails = @ + 1]
    ELSE LET n == [k EXCEPT !.fails = 0]
         IN  IF held = {} THEN n ELSE penalty_timers_add(n, CHOOSE t \in held : TRUE, Cfg(k.bts).penalty["fail"])

\* handover_start_intra_bsc() up to lchan_activate(); an lchan that is not there ends the handover at once
handover_start_intra_bsc(calls, c, t, r, by) ==
    LET ch == lchan_select_by_type(calls, t, r) IN
    IF ch = Nowhere THEN [calls EXCEPT ![c] = IF by = 2 THEN on_handover_end(@, {}) ELSE @]
    ELSE [calls EXCEPT ![c].ho = [to |-> t, ch |-> ch, type |-> r, by |-> by,
            switching |-> Cfg(t).ts[ch[1]] = "D" /\ pchan_is(calls, t, ch[1]) = "PDCH"]]

\* handover_start_inter_bsc_out()
handover_start_inter_bsc_out(calls, c, r, by) ==
    [calls EXCEPT ![c].ho = [to |-> Remote, ch |-> Nowhere, type |-> r, by |-> by, switching |-> FALSE]]

\* handover_request(), which the connection takes when none is under way, and handover_start()
handover_request(calls, c, t, r, by) ==
    CASE calls[c].ho.to # -1 -> calls
      [] calls[c].ho.to = -1 /\ t = Remote -> handover_start_inter_bsc_out(calls, c, r, by)
      [] OTHER -> handover_start_intra_bsc(calls, c, t, r, by)

\* the rate trigger_local_ho_or_as() asks for: none when it would change nothing
RateFor(k, x, rates) ==
    LET bias == k.mode = "SPEECH_AMR" /\ Cfg(x.to).bias > 0
        full == IF k.type = "F" THEN "F" \in rates ELSE "F" \in rates /\ (bias \/ "H" \notin rates)
        r == IF full THEN "F" ELSE "H"
    IN  {q \in {r} : ~(x.to = k.bts /\ q = k.type)}

trigger_ho(calls, x, rates) ==
    IF x.to = Remote THEN handover_request(calls, x.of, Remote, calls[x.of].type, 2)
    ELSE IF RateFor(calls[x.of], x, rates) = {} THEN calls
    ELSE handover_request(calls, x.of, x.to, CHOOSE r \in RateFor(calls[x.of], x, rates) : TRUE, 2)

------------------------------------------------------------------------------
(* Choosing *)

\* where a candidate stands in clist: by lchan, the own cell first, then the neighbours
Place(calls, x) == 1000 * calls[x.of].bts + 100 * calls[x.of].ch[1] + 10 * calls[x.of].ch[2]
                   + IF x.to = calls[x.of].bts THEN 0 ELSE 1 + x.to

\* the first of the candidates with the highest key, if there is one
Best(calls, cands, Key(_)) ==
    {x \in cands : \A y \in cands : Key(y) < Key(x) \/ (Key(y) = Key(x) /\ Place(calls, x) <= Place(calls, y))}

The(S) == CHOOSE x \in S : TRUE

\* better is an int, best_better_db unsigned: in "better > best_better_db" a negative value counts as
\* a large one (as 2^32 + better; all that matters is that it exceeds every level)
AsUnsigned(better) == IF better < 0 THEN 2 ^ 20 + better ELSE better

Bias(k, x, letter) == IF k.mode = "SPEECH_AMR" /\ k.type = "H" /\ x.to # Remote /\ <<letter, "F">> \in x.req THEN Cfg(x.to).bias ELSE 0

\* a round of find_alternative_lchan(): the best candidate that fulfils a requirement
Alternative(calls, c, cands, letter) ==
    LET Better(x) == AsUnsigned(x.avg - calls[c].rep.lev + Bias(calls[c], x, letter)) IN
    Best(calls, {x \in cands : Mask(x, letter) # {} /\ (letter # "A" => x.to # Remote) /\ Better(x) > 0}, Better)

\* the handover of the first round that has found a candidate
FirstRound(calls, found, letters) ==
    LET some == {i \in DOMAIN found : found[i] # {}}
        i == CHOOSE i \in some : \A j \in some : i <= j
    IN  IF some = {} THEN calls ELSE trigger_ho(calls, The(found[i]), Mask(The(found[i]), letters[i]))

find_alternative_lchan(calls, c, weaker) ==
    LET cands == IF Cfg(calls[c].bts).as \/ Cfg(calls[c].bts).ho THEN collect_candidates_for_lchan(calls, c, weaker) ELSE {}
        rounds == IF weaker THEN <<"B", "C", "A">> ELSE <<"B", "C">>
    IN  FirstRound(calls, [i \in DOMAIN rounds |-> Alternative(calls, c, cands, rounds[i])], rounds)

\* the candidate goes from TCH/H to TCH/F in its cell
ToFull(calls, x, letter) == x.to = calls[x.of].bts /\ calls[x.of].type = "H" /\ <<letter, "F">> \in x.req

\* the best candidate that relieves a rate that is short, those of ToFull left out
BestMove(calls, cands, more, letter) ==
    LET Level(x) == x.avg + Bias(calls[x.of], x, letter)
    IN  Best(calls, {x \in cands : /\ Mask(x, letter) # {} /\ ~ToFull(calls, x, letter)
                                   /\ more[calls[x.of].type] > 0 /\ Level(x) > 0}, Level)

\* the worst of those of ToFull, if TCH/H is short
WorstMove(calls, cands, more, letter) ==
    LET Key(x) == -(x.avg + Bias(calls[x.of], x, letter))
    IN  Best(calls, {x \in cands : more["H"] > 0 /\ ToFull(calls, x, letter)}, Key)

\* the same two rounds for requirement C
MovesForC(calls, cands, more) == <<BestMove(calls, cands, more, "C"), WorstMove(calls, cands, more, "C")>>

\* more[r] channels of rate r are missing; at most one call is moved
bts_resolve_congestion(calls, b, more) ==
    LET movable == {c \in HoCalls : calls[c].on /\ calls[c].bts = b /\ calls[c].ho.to = -1}
        cands == {x \in UNION {collect_candidates_for_lchan(calls, c, TRUE) : c \in movable} : x.to # Remote}
        moves == <<BestMove(calls, cands, more, "B"), WorstMove(calls, cands, more, "B")>> \o MovesForC(calls, cands, more)
    IN  FirstRound(calls, moves, <<"B", "B", "C", "C">>)

bts_congestion_check(calls, b) ==
    LET free == [r \in Rates |-> bts_count_free_ts(calls, b, r)]
        min == Cfg(b).min
    IN  IF \/ ~Cfg(b).as /\ ~Cfg(b).ho
           \/ \A r \in Rates : min[r] = 0
           \/ \A r \in Rates : free[r] >= min[r]
        THEN calls
        ELSE bts_resolve_congestion(calls, b, [r \in Rates |-> min[r] - free[r]])

RECURSIVE CheckFrom(_, _)
CheckFrom(calls, b) == IF b > Len(ho_site.cell) THEN calls ELSE CheckFrom(bts_congestion_check(calls, b), b + 1)

------------------------------------------------------------------------------
(* Entry points *)

HoInit ==
    /\ ho_site \in HoSites
    /\ ho_call = [c \in HoCalls |-> NoCall]
    /\ ho_why = "none"

HoBecome(calls, why) == ho_call' = calls /\ ho_why' = why

\* a call gets its first TCH
HoCallStarts(c) ==
    /\ ~ho_call[c].on /\ c <= ho_site.calls
    /\ \E n \in ho_site.born :
         LET ch == lchan_select_by_type(ho_call, n.bts, n.type) IN
         /\ ch # Nowhere
         /\ HoBecome([ho_call EXCEPT ![c] = [NoCall EXCEPT !.on = TRUE, !.bts = n.bts, !.ch = ch, !.type = n.type,
                                                           !.mode = n.mode, !.codecs = n.codecs]], "none")
    /\ UNCHANGED ho_site

HoCallEnds(c) ==
    /\ ho_call[c].on /\ ho_site.lost
    /\ HoBecome([ho_call EXCEPT ![c] = NoCall], "none")
    /\ UNCHANGED ho_site

\* on_measurement_report() of algorithm 2
hodec2_on_measurement_report(c, rep) ==
    LET calls == [ho_call EXCEPT ![c].rep = rep]
        k == calls[c]
        cfg == Cfg(k.bts)
        afs == k.type = "F" /\ k.mode = "SPEECH_AMR"
        lev == IF afs THEN rep.lev + cfg.bias ELSE rep.lev
        qual == IF afs THEN rep.qual - cfg.biasq ELSE rep.qual
        far == [calls EXCEPT ![c] = penalty_timers_add(@, k.bts, cfg.penalty["dist"])]
    IN  IF k.ho.to # -1 \/ ~rep.valid THEN HoBecome(calls, "none")
        ELSE IF qual > cfg.minqual \/ lev < cfg.minlev THEN HoBecome(find_alternative_lchan(calls, c, TRUE), "critical")
        ELSE IF rep.ta > cfg.maxta THEN HoBecome(find_alternative_lchan(far, c, TRUE), "critical")
        ELSE IF rep.power THEN HoBecome(find_alternative_lchan(calls, c, FALSE), "better")
        ELSE HoBecome(calls, "none")

\* attempt_handover() of algorithm 1, which looks at levels only
attempt_handover(calls, c) ==
    LET k == calls[c]
        lev == IF k.rep.valid THEN k.rep.lev ELSE 0
        better == {t \in DOMAIN k.rep.cells \cap Targets : k.rep.cells[t] >= lev + Cfg(k.bts).hyst /\ k.rep.cells[t] > lev}
        best == {t \in better : \A u \in better : k.rep.cells[u] < k.rep.cells[t] \/ (k.rep.cells[u] = k.rep.cells[t] /\ t <= u)}
    IN  IF ~Cfg(k.bts).ho \/ best = {} THEN calls ELSE handover_request(calls, c, The(best), k.type, 1)

hodec1_on_measurement_report(c, rep) ==
    LET calls == [ho_call EXCEPT ![c].rep = rep] IN
    IF rep.bad \/ (rep.valid /\ rep.lev = 0) \/ rep.ta > Cfg(calls[c].bts).maxta \/ rep.power
    THEN HoBecome(attempt_handover(calls, c), "power")
    ELSE HoBecome(calls, "none")

\* ho_meas_rep(), from rsl_rx_meas_res()
HoMeasRep(c) ==
    /\ ho_call[c].on
    /\ \E rep \in ho_site.reports[ho_call[c].bts] :
         IF Cfg(ho_call[c].bts).alg = 1 THEN hodec1_on_measurement_report(c, rep) ELSE hodec2_on_measurement_report(c, rep)
    /\ UNCHANGED ho_site

\* congestion_check_cb(), every congestion_check_interval_s
HoCongestionCheck ==
    /\ \E calls \in {CheckFrom(ho_call, 1)} : HoBecome(calls, "congestion")
    /\ UNCHANGED ho_site

\* the timeslot of the new lchan has been switched
HoSwitched(c) ==
    /\ ho_call[c].ho.to # -1 /\ ho_call[c].ho.switching
    /\ LET mine == ho_call[c].ho IN
       HoBecome([d \in HoCalls |-> IF ho_call[d].ho.to = mine.to /\ ho_call[d].ho.ch[1] = mine.ch[1]
                                   THEN [ho_call[d] EXCEPT !.ho.switching = FALSE] ELSE ho_call[d]], "none")
    /\ UNCHANGED ho_site

\* handover_end(): the call goes on in its new lchan, which has no reports yet, or has left the BSS
HoSucceeds(c) ==
    /\ ho_call[c].ho.to # -1 /\ ~ho_call[c].ho.switching
    /\ LET ho == ho_call[c].ho IN
       HoBecome([ho_call EXCEPT ![c] = IF ho.to = Remote THEN NoCall
                                       ELSE [@ EXCEPT !.bts = ho.to, !.ch = ho.ch, !.type = ho.type, !.rep = NoReport, !.ho = NoHandover]],
                "none")
    /\ UNCHANGED ho_site

HoFails(c) ==
    /\ ho_call[c].ho.to # -1 /\ ho_site.fails
    /\ LET k == ho_call[c]
           n == IF k.ho.by = 2 THEN on_handover_end(k, {k.ho.to}) ELSE k
       IN  HoBecome([ho_call EXCEPT ![c] = [n EXCEPT !.ho = NoHandover]], "none")
    /\ UNCHANGED ho_site

\* a second passes
HoTick ==
    /\ \E c \in HoCalls, t \in 0..3 : ho_call[c].pen[t] > 0
    /\ HoBecome([c \in HoCalls |-> [ho_call[c] EXCEPT !.pen = [t \in 0..3 |-> IF @[t] > 0 THEN @[t] - 1 ELSE 0]]], "none")
    /\ UNCHANGED ho_site

HoNext ==
    \/ HoCongestionCheck
    \/ HoTick
    \/ \E c \in HoCalls : HoCallStarts(c) \/ HoCallEnds(c) \/ HoMeasRep(c) \/ HoSwitched(c) \/ HoSucceeds(c) \/ HoFails(c)

HoSpec == HoInit /\ [][HoNext]_hoVars

\* a dynamic timeslot gets switched, a handover ends (its FSM has timers in all its states)
HoFairness ==
    \A c \in HoCalls : WF_hoVars(HoSwitched(c)) /\ WF_hoVars(HoSucceeds(c))

------------------------------------------------------------------------------
(* Properties *)

Started(c) == ho_call[c].ho.to = -1 /\ ho_call'[c].ho.to # -1 /\ ho_call'[c].ho.by = 2

\* algorithm 2 starts no handover or assignment to a cell for which the connection has a penalty
\* timer running, be it started by an earlier failure (on_handover_end()) or, in the same report, by
\* the distance
HoPenaltyKept == \A c \in HoCalls : Started(c) => ho_call'[c].pen[ho_call'[c].ho.to] = 0

\* no cell gets more concurrent handovers from algorithm 2 than max-handovers allows
\* (bts_handover_count() in check_requirements()), however reports and congestion checks interleave; a cell
\* with dynamic timeslots does, because those to a timeslot that is being switched are not counted
HoMaxKept ==
    \A b \in Cells :
        \/ \E t \in DOMAIN Cfg(b).ts : Cfg(b).ts[t] = "D"
        \/ Cardinality({c \in HoCalls : ho_call[c].ho.to = b /\ ho_call[c].bts # b /\ ho_call[c].ho.by = 2}) <= Cfg(b).max

\* a handover to relieve a cell, or to a better one, leaves the target its minimum of free channels of
\* that rate, or at least as many free ones as there are, then, where the call came from (requirements
\* B and C); cells with dynamic timeslots, which trx_count_free_ts() may count twice, are left out
HoLoadKept ==
    \A c \in HoCalls :
         LET ho == ho_call'[c].ho
             k == ho_call[c]
             left == bts_count_free_ts(ho_call', ho.to, ho.type)
         IN  /\ Started(c) /\ ho.to # Remote /\ ho_why' \in {"better", "congestion"}
             /\ \A b \in Cells : \A t \in DOMAIN Cfg(b).ts : Cfg(b).ts[t] # "D"
             => left >= Cfg(ho.to).min[ho.type] \/ left >= bts_count_free_ts(ho_call, k.bts, k.type) + 1

\* a call that has used up its retries is penalised for the cell it could not be handed over to
\* (on_handover_end(), with a penalty time other than 0)
HoFailPenalised ==
    \A c \in HoCalls :
        ho_call[c].fails > 0 /\ ho_call'[c].on /\ ho_call'[c].fails = 0 => ho_call'[c].pen[ho_call[c].ho.to] > 0

\* A decision of algorithm 2 respects the limits of the target and the penalties of the call, with
\* other handovers under way and whatever came between the report and the choice, and failures are
\* remembered.
HoSafe == [][HoTypeOK' /\ HoMaxKept' /\ HoPenaltyKept /\ HoLoadKept /\ HoFailPenalised]_hoVars

\* moving calls to relieve cells comes to an end: it does not go on for ever between cells, or between
\* the rates of a cell, that are all short of channels
HoSettles == <>[](\A c \in HoCalls : ho_call[c].ho.to = -1)

\* "Select the best candidate that fulfills requirement B": in a critical case, no other cell that
\* fulfils it is received better than the one chosen (find_alternative_lchan())
HoBestFirst ==
    [][\A c \in HoCalls :
         LET k == [ho_call[c] EXCEPT !.rep = ho_call'[c].rep]
             to == ho_call'[c].ho.to
         IN  Started(c) /\ ho_why' = "critical" /\ to \in Cells \ {k.bts} =>
               ~\E u \in (DOMAIN k.rep.cells \cap Cells) \ {k.bts} :
                   /\ k.rep.cells[u] > k.rep.cells[to] /\ k.rep.cells[u] >= Cfg(u).minlev
                   /\ \E r \in Rates : <<"B", r>> \in check_requirements(ho_call, k, u)]_hoVars
=============================================================================
