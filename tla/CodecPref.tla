----------------------------- MODULE CodecPref -----------------------------
(***************************************************************************)
(* The choice of the speech codec of a call (codec_pref.c and              *)
(* select_codecs of osmo_bsc_bssap.c): the MSC's codec list of the         *)
(* configuration, the codecs and the timeslots of the BTS, the permitted   *)
(* speech versions and the codec list of the Assignment Request, and the   *)
(* AMR rates each side has; what the BSS says it supports in Complete      *)
(* Layer 3 Information, and the check of the configuration at start-up.    *)
(***************************************************************************)
EXTENDS Integers, Sequences, FiniteSets, FiniteSetsExt, SequencesExt

CONSTANTS CpNets,      \* the configurations considered
          CpRequests   \* the Assignment Requests considered

Codecs == {"FR1", "FR2", "FR3", "HR1", "HR3"}   \* permitted speech values
IsAmr(c) == c \in {"FR3", "HR3"}
Rates == {475, 515, 670, 795, 1220}             \* of a multirate configuration; the others are like 670 and 795

\* audio: the codec-list of the MSC;  pchans: the timeslots' configurations;  codec: codec-support of the
\* BTS;  mr_full, mr_half, amr_conf: the AMR rates of the BTS and of the MSC
CpNet == [audio : Seq(Codecs), pchans : SUBSET {"TCH_F", "TCH_H", "TCH_F_PDCH", "TCH_F_TCH_H_PDCH", "SDCCH8"},
          codec : SUBSET {"efr", "hr", "amr"}, mr_full : SUBSET Rates, mr_half : SUBSET (Rates \ {1220}),
          amr_conf : SUBSET Rates]
\* rate: the channel rate and type;  perm: the permitted speech versions;  scl: the speech codec list, empty
\* without AoIP
RateTypes == {"FULL_BM", "HALF_LM", "PERM", "FULL_PREF", "HALF_PREF", "other"}
CpRequest == [rate : RateTypes, perm : SUBSET Codecs, scl : Seq([type : Codecs, cfg : SUBSET (0 .. 7)])]

ASSUME CpInputs == CpNets \subseteq CpNet /\ CpRequests \subseteq CpRequest

VARIABLES cp_net, cp_req,  \* the input
          cp_out           \* what has been made of it
cpVars == <<cp_net, cp_req, cp_out>>

--------------------------------------------------------------------------

full_rate_from_perm_spch(c) == c \in {"FR1", "FR2", "FR3"}
gsm88_to_chan_mode(c) == CASE c \in {"HR1", "FR1"} -> "SPEECH_V1" [] c = "FR2" -> "SPEECH_EFR" [] OTHER -> "SPEECH_AMR"

\* gsm0808_sc_cfg_from_gsm48_mr_cfg of libosmogsm: the configurations S0 .. S7 a set of rates stands for, none
\* for 5.15k
sc_cfg(rates, fr) ==
    LET Of == [r \in Rates |-> CASE r = 475 -> {0, 1} [] r = 515 -> {} [] r = 670 -> {3} [] r = 795 -> {5} [] r = 1220 -> {1, 7}]
    IN  UNION {Of[r] : r \in rates} \ (IF fr THEN {} ELSE {6, 7})

\* Whether the BTS has a timeslot for the rate of the codec, and the codec
Mut_test_codec_support_bts(net, c) == c = "FR1" \/ (c = "FR2" /\ "efr" \in net.codec) \/ (c = "HR1" /\ "hr" \in net.codec)
                                        \/ (IsAmr(c) /\ "amr" \in net.codec)
test_codec_support_bts(net, c) ==
    /\ \/ "TCH_F_TCH_H_PDCH" \in net.pchans
       \/ full_rate_from_perm_spch(c) /\ net.pchans \cap {"TCH_F", "TCH_F_PDCH"} # {}
       \/ ~full_rate_from_perm_spch(c) /\ "TCH_H" \in net.pchans
    /\ \/ c = "FR1"
       \/ c = "FR2" /\ "efr" \in net.codec
       \/ c = "HR1" /\ "hr" \in net.codec
       \/ IsAmr(c) /\ "amr" \in net.codec

\* The entries of the speech codec list for a permitted speech value; 0 stands for none
SclEntry(req, c) == LET E == {n \in DOMAIN req.scl : req.scl[n].type = c} IN IF E = {} THEN 0 ELSE Min(E)
test_codec_pref(req, c) == c \in req.perm /\ (req.scl # <<>> => SclEntry(req, c) # 0)

gen_bss_supported_amr_s15_s0(net, hr) ==
    sc_cfg(IF hr THEN net.mr_half ELSE net.mr_full, ~hr) \cap sc_cfg(net.amr_conf, TRUE)

\* The configurations of an AMR call, only S1 if that is one of them; {} is -EINVAL
match_amr_s15_s0(net, req, c) ==
    LET sup == gen_bss_supported_amr_s15_s0(net, c = "HR3")
        s == IF SclEntry(req, c) # 0 THEN req.scl[SclEntry(req, c)].cfg \cap sup ELSE sup
    IN  IF 1 \in s THEN {1} ELSE s

\* The first codec of the MSC's list that goes with everything, for a rate preference; rc is FALSE if none does
match_codec_pref(net, req, rate_pref) ==
    LET Fits(c) == /\ rate_pref = "HR" => ~full_rate_from_perm_spch(c)
                   /\ rate_pref = "FR" => full_rate_from_perm_spch(c)
                   /\ test_codec_support_bts(net, c)
                   /\ test_codec_pref(req, c)
                   /\ IsAmr(c) => match_amr_s15_s0(net, req, c) # {}
        F == {n \in DOMAIN net.audio : Fits(net.audio[n])}
        c == net.audio[Min(F)]
    IN  IF F = {} THEN [rc |-> FALSE]
        ELSE [rc |-> TRUE, mode |-> gsm88_to_chan_mode(c), full |-> full_rate_from_perm_spch(c),
              s15_s0 |-> IF IsAmr(c) THEN match_amr_s15_s0(net, req, c) ELSE {}]

\* The preferred and the alternative choice of an Assignment Request
Mut_select_codecs(net, req) ==
    LET M(pref) == LET m == match_codec_pref(net, req, pref) IN IF m.rc THEN <<m>> ELSE <<>>
    IN  CASE req.rate = "FULL_BM" -> M("FR")
          [] req.rate = "HALF_LM" -> M("HR")
          [] req.rate \in {"PERM", "FULL_PREF", "HALF_PREF"} -> M("FR") \o M("HR")
          [] OTHER -> <<>>
select_codecs(net, req) ==
    LET M(pref) == LET m == match_codec_pref(net, req, pref) IN IF m.rc THEN <<m>> ELSE <<>>
    IN  CASE req.rate = "FULL_BM" -> M("FR")
          [] req.rate = "HALF_LM" -> M("HR")
          [] req.rate \in {"PERM", "FULL_PREF"} -> M("FR") \o M("HR")
          [] req.rate = "HALF_PREF" -> M("HR") \o M("FR")
          [] OTHER -> <<>>

\* The codec list of Complete Layer 3 Information
gen_bss_supported_codec_list(net) ==
    LET L == SelectSeq(net.audio, LAMBDA c : test_codec_support_bts(net, c))
    IN  [n \in DOMAIN L |-> [type |-> L[n],
                             cfg |-> IF IsAmr(L[n]) THEN gen_bss_supported_amr_s15_s0(net, L[n] = "HR3") ELSE {}]]

calc_amr_rate_intersection(a, b) == a \cap b # {}

Mut_check_codec_pref(net) == gen_bss_supported_codec_list(net) # <<>> /\ calc_amr_rate_intersection(net.amr_conf, net.mr_full)
check_codec_pref(net) ==
    /\ gen_bss_supported_codec_list(net) # <<>>
    /\ calc_amr_rate_intersection(net.amr_conf, net.mr_full)
    /\ calc_amr_rate_intersection(net.amr_conf, net.mr_half)

--------------------------------------------------------------------------

\* The start-up check only warns: a configuration that fails it is used all the same
CpAssign ==
    /\ cp_out = <<>>
    /\ cp_out' = [chosen |-> select_codecs(cp_net, cp_req), advertised |-> gen_bss_supported_codec_list(cp_net),
                  warned |-> ~check_codec_pref(cp_net)]
    /\ UNCHANGED <<cp_net, cp_req>>

CpInit == cp_net \in CpNets /\ cp_req \in CpRequests /\ cp_out = <<>>
CpNext == CpAssign
CpSpec == CpInit /\ [][CpNext]_cpVars

--------------------------------------------------------------------------
(* Properties *)

ModeOf(c) == <<full_rate_from_perm_spch(c), gsm88_to_chan_mode(c)>>
TsFor(full) == {"TCH_F_TCH_H_PDCH"} \cup (IF full THEN {"TCH_F", "TCH_F_PDCH"} ELSE {"TCH_H"})

\* Every choice can be served and was allowed: the BTS has a timeslot for its rate, the Assignment Request
\* permits it and its AMR configurations are ones of the MSC's list and of what the BSS has advertised
CpServable == cp_out # <<>> => \A n \in DOMAIN cp_out.chosen : LET m == cp_out.chosen[n] IN
    /\ TsFor(m.full) \cap cp_net.pchans # {}
    /\ \E c \in cp_req.perm : /\ ModeOf(c) = <<m.full, m.mode>>
                              /\ \E e \in ToSet(cp_out.advertised) : e.type = c /\ m.s15_s0 \subseteq e.cfg
                              /\ cp_req.scl # <<>> => \E e \in ToSet(cp_req.scl) : e.type = c /\ m.s15_s0 \subseteq e.cfg
                              /\ IsAmr(c) => m.s15_s0 # {}

\* The preferred choice is of the rate the MSC prefers, if there is any of that rate, and no choice is of a
\* rate the MSC does not allow
CpPreference == cp_out # <<>> => LET full == [n \in DOMAIN cp_out.chosen |-> cp_out.chosen[n].full] IN
    /\ cp_req.rate = "FULL_BM" => \A n \in DOMAIN full : full[n]
    /\ cp_req.rate = "HALF_LM" => \A n \in DOMAIN full : ~full[n]
    /\ (cp_req.rate = "HALF_PREF" /\ \E n \in DOMAIN full : ~full[n]) => ~full[1]
    /\ (cp_req.rate = "FULL_PREF" /\ \E n \in DOMAIN full : full[n]) => full[1]

\* What the BSS advertises it also takes: unless check_codec_pref has warned at start-up, an MSC that asks for
\* one of the advertised codecs, with the configurations advertised for it, is refused in one case only: AMR
\* was advertised without any configuration.  That happens only when 5.15k is the one rate the BTS and the MSC
\* have in common: check_codec_pref compares rates, not configurations, so it does not warn of it
CommonRates(c) == (IF c = "HR3" THEN cp_net.mr_half ELSE cp_net.mr_full) \cap cp_net.amr_conf
CpAdvertisedTaken == (cp_out # <<>> /\ ~cp_out.warned) => \A e \in ToSet(cp_out.advertised) :
    LET req == [rate |-> IF full_rate_from_perm_spch(e.type) THEN "FULL_BM" ELSE "HALF_LM", perm |-> {e.type}, scl |-> <<e>>]
        Bare == IsAmr(e.type) /\ e.cfg = {}
    IN  Len(select_codecs(cp_net, req)) = (IF Bare THEN 0 ELSE 1) /\ (Bare => CommonRates(e.type) = {515})

\* The choice of a codec honours the MSC, the BTS and what was advertised.
CpSafe == CpServable /\ CpPreference /\ CpAdvertisedTaken
=============================================================================
