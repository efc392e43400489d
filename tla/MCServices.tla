----------------------------- MODULE MCServices -----------------------------
(***************************************************************************)
(* The parts of the BSC whose checks are about safety alone, for a few     *)
(* small sites: the initialisation of an RBS 2000, local call switching,   *)
(* the choice of the MSC, and what the BSC computes -- frequency lists,    *)
(* system information, codecs, measurement averages and channel load.      *)
(* One behaviour is about one of them, `unit`.                             *)
(***************************************************************************)
EXTENDS Om2000, Lcls, Routing, FreqList, SysInfo, CodecPref, MeasRep, ChanLoad

VARIABLE unit

otherThanOm == <<lcVars, rtVars, flVars, siVars, cpVars, mrVars, clVars>>
otherThanLc == <<omVars, rtVars, flVars, siVars, cpVars, mrVars, clVars>>
otherThanRt == <<omVars, lcVars, flVars, siVars, cpVars, mrVars, clVars>>
otherThanFl == <<omVars, lcVars, rtVars, siVars, cpVars, mrVars, clVars>>
otherThanSi == <<omVars, lcVars, rtVars, flVars, cpVars, mrVars, clVars>>
otherThanCp == <<omVars, lcVars, rtVars, flVars, siVars, mrVars, clVars>>
otherThanMr == <<omVars, lcVars, rtVars, flVars, siVars, cpVars, clVars>>
otherThanCl == <<omVars, lcVars, rtVars, flVars, siVars, cpVars, mrVars>>

\* One TRX that refuses; two bring-ups that cross; the operator's commands; two TRXs with every timer
Rbs == [trx |-> 1, pchan |-> "TCH_F", altc |-> TRUE, groups |-> {"CON", "IS"}, vty |-> FALSE, refuses |-> TRUE,
        links |-> 1, fires |-> 2]
Rbss == {Rbs, [Rbs EXCEPT !.refuses = FALSE, !.groups = {"CON"}, !.links = 2, !.fires = 1],
         [Rbs EXCEPT !.vty = TRUE, !.refuses = FALSE, !.fires = 2],
         [Rbs EXCEPT !.trx = 2, !.pchan = "TCH_F_TCH_H_PDCH", !.refuses = FALSE, !.fires = 5]}

Loop(one, two) == [c \in LcLegs |-> IF c = 1 THEN one ELSE two]
Pair == [mode |-> Loop("MGW_LOOP", "MGW_LOOP"), match |-> TRUE, gcrs |-> [c \in LcLegs |-> {1}], configs |-> {"BOTH_WAY"},
         controls |-> {"CONNECT", "RELEASE_LCLS"}, msgs |-> 3, faults |-> FALSE]
Short == [Pair EXCEPT !.msgs = 2]
Pairs == {Pair, [Pair EXCEPT !.controls = {"CONNECT"}, !.faults = TRUE], [Short EXCEPT !.configs = {"BOTH_WAY", "BI_CAST"}],
          [Short EXCEPT !.match = FALSE], [Short EXCEPT !.mode = Loop("BTS_LOOP", "BTS_LOOP"), !.faults = TRUE, !.controls = {"CONNECT"}],
          [Short EXCEPT !.mode = Loop("BTS_LOOP", "MGW_LOOP")], [Short EXCEPT !.mode = Loop("DISABLED", "MGW_LOOP")],
          [Short EXCEPT !.gcrs = [c \in LcLegs |-> {1, 2}]]}

Msg(t, id, by, svc, far) == [t |-> t, id |-> id, by |-> by, svc |-> svc, far |-> far]
Messages ==
    {Msg("LU", "i1", "imsi", "call", TRUE), Msg("LU", "i2", "tmsi", "call", TRUE), Msg("CM", "i2", "imsi", "call", FALSE),
     Msg("CM", "i2", "tmsi", "emergency", FALSE), Msg("PAG", "i1", "tmsi", "call", FALSE), Msg("PAG", "i2", "imsi", "call", FALSE),
     Msg("ID", "i1", "imsi", "call", FALSE), Msg("ID", "i2", "imsi", "call", FALSE), Msg("SETUP", "i1", "tmsi", "call", TRUE),
     Msg("OTHER", "i1", "tmsi", "call", FALSE)}
Core == [mscs |-> <<"m1", "m2">>, emerg |-> {"m2"}, acc |-> [m \in RtMscs |-> IF m = "m1" THEN "l1" ELSE "none"], net |-> "l2",
         allow |-> [l \in {"l1", "l2"} |-> IF l = "l1" THEN {"i2"} ELSE {}],
         deny |-> [l \in {"l1", "l2"} |-> IF l = "l1" THEN {"i1"} ELSE {"i2"}], text |-> TRUE, events |-> 4]
Cores == {Core, [Core EXCEPT !.mscs = <<"loc", "m1">>, !.text = FALSE, !.events = 2]}

\* A P-GSM, an E-GSM, a DCS cell and one with a combined list; the ends of the bands and of the formats
FreqCells == {[band |-> "900", arfcn |-> 20, combined |-> FALSE], [band |-> "900", arfcn |-> 1000, combined |-> FALSE],
              [band |-> "1800", arfcn |-> 600, combined |-> FALSE], [band |-> "850", arfcn |-> 130, combined |-> TRUE]}
Edges == {0, 1, 60, 111, 124, 128, 251, 512, 623, 885, 975, 1023}
FreqLists ==
    {S \in SUBSET Edges : Cardinality(S) <= 5}
    \cup {{(a + d * i) % 1024 : i \in 0 .. n - 1} :
             a \in {0, 1, 500, 1000}, d \in {1, 4, 7, 12, 29, 60}, n \in {16, 17, 18, 21, 22, 28, 29}}

\* One BTS with 3G and 4G neighbours; two BTSs, the second with EGPRS
Umts == [modes |-> <<{"gprs"}>>, neighs |-> {{}}, fdd |-> {<<11, 1, FALSE>>, <<11, 319, TRUE>>, <<12, 1, FALSE>>, <<13, 2, FALSE>>},
         earfcns |-> {7, 8}, empty |-> TRUE, events |-> 6]
\* Scrambling codes around 0 and their diversity
Scrambled == [Umts EXCEPT !.fdd = {<<11, 0, FALSE>>, <<11, 1, FALSE>>, <<11, 5, FALSE>>, <<11, 5, TRUE>>}, !.earfcns = {}]
Gsm == [modes |-> <<{"gprs", "none"}, {"egprs"}>>, neighs |-> {{}, {"pgsm", "outside"}, {"other"}, {"toomany"}},
        fdd |-> {<<11, 1, FALSE>>}, earfcns |-> {}, empty |-> TRUE, events |-> 5]
Broadcasts == {Umts, Scrambled, Gsm, [Gsm EXCEPT !.empty = FALSE, !.events = 4]}

CodecNets ==
    {[audio |-> a, pchans |-> p, codec |-> c, mr_full |-> f, mr_half |-> h, amr_conf |-> m] :
        a \in {<<"FR2", "FR3", "HR3", "HR1", "FR1">>, <<"HR3", "FR3", "FR1">>},
        p \in {{"TCH_F", "SDCCH8"}, {"TCH_H"}, {"TCH_F_PDCH", "TCH_H"}, {"TCH_F_TCH_H_PDCH"}},
        c \in {{"efr", "amr"}, {"hr", "amr"}, {"hr"}}, f \in {{475, 1220}, {515, 670}}, h \in {{475, 515, 670}, {795}},
        m \in {{475, 670, 795, 1220}, {670, 1220}, {515, 795}}}
CodecRequests ==
    {[rate |-> r, perm |-> p, scl |-> s] :
        r \in RateTypes \ {"PERM"}, p \in {{"FR1", "FR3", "HR3"}, {"FR2", "HR1"}, Codecs},
        s \in {<<>>, <<[type |-> "FR1", cfg |-> {}], [type |-> "HR3", cfg |-> {1, 3}]>>,
               <<[type |-> "FR3", cfg |-> {0, 3, 7}], [type |-> "HR1", cfg |-> {}], [type |-> "FR2", cfg |-> {}]>>}}
    \cup {[rate |-> "PERM", perm |-> Codecs, scl |-> <<>>]}

Heard(arfcn, lev) == [arfcn |-> arfcn, lev |-> lev]
Report(lev, valid, cells) == [part |-> "whole", lev |-> lev, valid |-> valid, cells |-> cells]
Reports ==
    {Report(1, TRUE, <<Heard(1, 4), Heard(2, 2)>>), Report(4, TRUE, <<Heard(2, 6), Heard(3, 1)>>), Report(4, FALSE, <<>>),
     Report(0, FALSE, <<>>), Report(2, TRUE, <<Heard(0, 5), Heard(3, 5)>>), [Report(4, TRUE, <<Heard(1, 1)>>) EXCEPT !.part = "foreign"],
     [Report(4, TRUE, <<>>) EXCEPT !.part = "lacks"]}
Averaging == {[events |-> 6, win |-> 2, hyst |-> 1]}

Loaded == {[ipaccess |-> TRUE, T3122 |-> 20, events |-> 5], [ipaccess |-> FALSE, T3122 |-> 256, events |-> 7],
           [ipaccess |-> FALSE, T3122 |-> 0, events |-> 4]}

CONSTANT Units  \* the parts considered

\* the parts that are not considered have some fixed site
Init ==
    /\ unit \in Units
    /\ unit # "om" => om_site = CHOOSE s \in OmSites : TRUE
    /\ unit # "lc" => lc_site = CHOOSE s \in LcSites : TRUE
    /\ unit # "rt" => rt_site = CHOOSE s \in RtSites : TRUE
    /\ unit # "fl" => fl_cell = (CHOOSE c \in FlCells : TRUE) /\ fl_list = {}
    /\ unit # "si" => si_site = CHOOSE s \in SiSites : \A b \in DOMAIN s.modes : Cardinality(s.modes[b]) = 1
    /\ unit # "cp" => cp_net = (CHOOSE n \in CpNets : TRUE) /\ cp_req = CHOOSE r \in CpRequests : TRUE
    /\ unit # "mr" => mr_site = CHOOSE s \in MrSites : TRUE
    /\ unit # "cl" => cl_site = CHOOSE s \in ClSites : TRUE
    /\ OmInit /\ LcInit /\ RtInit /\ FlInit /\ SiInit /\ CpInit /\ MrInit /\ ClInit

Next ==
    /\ UNCHANGED unit
    /\ \/ unit = "om" /\ OmNext /\ UNCHANGED otherThanOm
       \/ unit = "lc" /\ LcNext /\ UNCHANGED otherThanLc
       \/ unit = "rt" /\ RtNext /\ UNCHANGED otherThanRt
       \/ unit = "fl" /\ FlNext /\ UNCHANGED otherThanFl
       \/ unit = "si" /\ SiNext /\ UNCHANGED otherThanSi
       \/ unit = "cp" /\ CpNext /\ UNCHANGED otherThanCp
       \/ unit = "mr" /\ MrNext /\ UNCHANGED otherThanMr
       \/ unit = "cl" /\ ClNext /\ UNCHANGED otherThanCl

Spec == Init /\ [][Next]_<<unit, omVars, otherThanOm>>
=============================================================================
