------------------------------ MODULE FreqList ------------------------------
(***************************************************************************)
(* Frequency lists of the system information: which neighbours go into     *)
(* SI2, SI2bis and SI2ter, the format bitvec2freq_list picks for them      *)
(* (system_information.c), and their range encoding (RangeEnc).  ARFCNs,   *)
(* ranges and sizes are the code's own.  The mobile's side of each format  *)
(* is the reference the encoders are checked against.                      *)
(***************************************************************************)
EXTENDS RangeEnc

CONSTANTS FlCells,  \* the cells considered
          FlLists   \* the sets of neighbour ARFCNs considered

\* band, arfcn: of the cell and its C0;  combined: force_combined_si
FlCell == [band : {"850", "900", "1800", "1900"}, arfcn : 0 .. 1023, combined : BOOLEAN]

ASSUME FlInputs == FlCells \subseteq FlCell /\ FlLists \subseteq SUBSET (0 .. 1023)

VARIABLES
    fl_cell, fl_list,  \* the input
    fl_out             \* what has been computed of it

flVars == <<fl_cell, fl_list, fl_out>>

--------------------------------------------------------------------------
(* What is checked of the lists *)

\* The list the encoder makes when it is given the filtered array and its size, as in gsm0408_test.c
EncodeFiltered(range, arfcns, f0) ==
    LET f == range_enc_filter_arfcns(arfcns, f0)
        W == range_enc_arfcns(range, SubSeq(f.list, 1, f.used), 0)
    IN  [W |-> W, list |-> range_enc_range(range, f0, f.f0_included, W.w)]

\* What a mobile reads (10.5.2.13).  A list carried as a bitmap is represented by the set of its frequencies
DecodeFreqList(l) ==
    IF l.format # "range" THEN l.set
    ELSE {(l.orig + v) % 1024 : v \in SubtreeOf(l.w, 1, l.range)}
         \cup (IF l.f0_included THEN {l.orig} ELSE {})

--------------------------------------------------------------------------
(* Neighbour lists *)

\* gsm_arfcn2band_rc of libosmogsm, which does not know of PCS 1900 without a flag
arfcn2band(a) == CASE a \in (0 .. 124) \cup (955 .. 1023) -> "900" [] a \in 128 .. 251 -> "850"
                   [] a \in 512 .. 885 -> "1800" [] OTHER -> "none"

band_compatible(cell, a) == arfcn2band(a) = cell.band \/ (arfcn2band(a) = "1800" /\ cell.band = "1900")

Pgsm(cell) == cell.band = "900" /\ cell.arfcn \in 1 .. 124

\* The neighbours of one of the three lists when each goes by its band
ByBand(cell, kind, a) ==
    \/ kind = "si2" /\ band_compatible(cell, a)
    \/ kind = "bis" /\ Pgsm(cell) /\ band_compatible(cell, a) /\ a \notin 1 .. 124
    \/ kind = "ter" /\ ~band_compatible(cell, a)

use_arfcn(cell, kind, a) == IF cell.combined THEN kind = "si2" ELSE ByBand(cell, kind, a)

\* The bits of a bit vector in the order they are read
RECURSIVE Ascending(_)
Ascending(S) == IF S = {} THEN <<>> ELSE <<Min(S)>> \o Ascending(S \ {Min(S)})

\* The lowest and the highest of a set, where 955 .. 1023 are below 0 .. 885
Mut_Lowest(S) == Min(S)
Lowest(S) == IF \E a \in S : a >= 955 THEN Min({a \in S : a >= 955}) ELSE Min(S)
Highest(S) == IF \E a \in S : a < 955 THEN Max({a \in S : a < 955}) ELSE Max(S)

\* The variable bitmap starts at min; it fails on a frequency beyond min + 111
enc_freq_lst_var_bitmap(cell, kind, S, min) ==
    LET T == {a \in S : ByBand(cell, kind, a)}
    IN  IF \E a \in T : (a - min) % 1024 > 111
        THEN [rc |-> FALSE, list |-> [format |-> "variable"]]
        ELSE [rc |-> TRUE, list |-> [format |-> "variable", set |-> T \cup {min}]]

RANGE_ENC_MAX_ARFCNS == 29
enc_freq_lst_range(cell, kind, S) ==
    LET arfcns == Ascending({a \in S : use_arfcn(cell, kind, a)})
        r == range_enc_determine_range(arfcns)
    IN  IF Len(arfcns) > RANGE_ENC_MAX_ARFCNS \/ r[1] = 0 THEN [rc |-> FALSE, list |-> [format |-> "range"]]
        ELSE LET e == range_encode(r[1], arfcns, r[2]) IN [rc |-> e.W.rc, list |-> e.list]

bitvec2freq_list(cell, kind, S) ==
    LET U == {a \in S : use_arfcn(cell, kind, a)}
    IN  IF kind = "si2" /\ Pgsm(cell)
        THEN [rc |-> TRUE, list |-> [format |-> "bitmap0", set |-> S \cap (1 .. 124)]]
        ELSE IF U = {} THEN [rc |-> TRUE, list |-> [format |-> "bitmap0", set |-> {}]]
        ELSE IF (Highest(U) - Lowest(U)) % 1024 <= 111
             THEN enc_freq_lst_var_bitmap(cell, kind, S, Lowest(U))
        ELSE enc_freq_lst_range(cell, kind, S)

--------------------------------------------------------------------------
(* One step: the encoder on the list as it is, and the three lists of the cell *)

FlKinds == {"si2", "bis", "ter"}

FlEncode ==
    /\ fl_out = <<>>
    /\ LET arfcns == Ascending(fl_list)
           r == IF fl_list = {} THEN <<0, 0>> ELSE range_enc_determine_range(arfcns)
       IN  fl_out' = [range |-> r[1],
                      filtered |-> IF r[1] = 0 THEN <<>> ELSE EncodeFiltered(r[1], arfcns, r[2]),
                      encoded |-> IF r[1] = 0 THEN <<>> ELSE range_encode(r[1], arfcns, r[2]),
                      room |-> r[1] # 0 /\ range_enc_filter_arfcns(arfcns, r[2]).used <= WCount(r[1]),
                      lists |-> [k \in FlKinds |-> bitvec2freq_list(fl_cell, k, fl_list)]]
    /\ UNCHANGED <<fl_cell, fl_list>>

FlInit == fl_cell \in FlCells /\ fl_list \in FlLists /\ fl_out = <<>>
FlNext == FlEncode
FlSpec == FlInit /\ [][FlNext]_flVars

--------------------------------------------------------------------------
(* Properties *)

Computed == fl_out # <<>>

\* Each W(k) of range_enc_arfcns is written once, into the array of RANGE_ENC_MAX_ARFCNS places it has
\* got, and is a frequency of the range, never the 0 that stands for "absent"
FlTypeOK == (Computed /\ fl_out.range # 0) =>
    LET w == fl_out.filtered.W.w
    IN  /\ \A n \in DOMAIN w : w[n][1] \in 0 .. 28 /\ w[n][2] \in 1 .. fl_out.range
        /\ \A m, n \in DOMAIN w : m # n => w[m][1] # w[n][1]

\* The range encoder (range_enc_find_index, range_enc_arfcns, write_all_wn) loses nothing and adds nothing:
\* the filtered list, when the format has a W for each entry, reads back as the list it was made from
FlRoundTrip == (Computed /\ fl_out.range # 0 /\ fl_out.room)
                  => DecodeFreqList(fl_out.filtered.list) = fl_list

\* Every split is even: neither half outgrows the arrays _range_enc_arfcns has for it
FlSplitsEven == (Computed /\ fl_out.range # 0) => fl_out.filtered.W.fits

\* Unless the combined SI is forced, or a list has to be range encoded, every neighbour of a cell is in
\* exactly one of SI2, SI2bis and SI2ter (bitvec2freq_list, use_arfcn, with windows that wrap at 1023)
FlEachOnce == (Computed /\ ~fl_cell.combined /\ \A k \in FlKinds : fl_out.lists[k].list.format # "range")
                 => /\ \A k \in FlKinds : fl_out.lists[k].rc
                    /\ UNION {fl_out.lists[k].list.set : k \in FlKinds} = fl_list
                    /\ \A k, l \in FlKinds : k # l => fl_out.lists[k].list.set \cap fl_out.lists[l].list.set = {}

\* Frequencies are neither lost, added nor repeated, from the neighbour list to the
\* encoded messages.
FlSafe == FlTypeOK /\ FlRoundTrip /\ FlSplitsEven /\ FlEachOnce

\* range_encode, as the system information calls it, reads back as what was put in: the filter is said
\* to leave F(0) out of what is encoded
FlEncodesList == (Computed /\ fl_out.range # 0 /\ fl_out.room)
                    => DecodeFreqList(fl_out.encoded.list) = fl_list
=============================================================================
