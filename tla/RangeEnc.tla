------------------------------ MODULE RangeEnc ------------------------------
(***************************************************************************)
(* The range encoding of 3GPP TS 44.018 Annex J (arfcn_range_encode.c, and *)
(* range_encode of system_information.c), which the frequency lists and    *)
(* the scrambling codes of SI2quater share, and what a mobile reads from   *)
(* it.                                                                     *)
(***************************************************************************)
EXTENDS Integers, Sequences, FiniteSets, FiniteSetsExt

greatest_power_of_2_lesser_or_equal_to(index) == Max({p \in {1, 2, 4, 8, 16, 32} : p <= index})

mod(data, range) == data % range

\* The position to split at, or 0
Mut_range_enc_find_index(range, freqs) == IF freqs = <<>> THEN 0 ELSE 1
range_enc_find_index(range, freqs) ==
    LET InHalf(i) == {j \in DOMAIN freqs : mod(freqs[j] - freqs[i], range) <= (range - 1) \div 2}
        Even == {i \in DOMAIN freqs : Cardinality(InHalf(i)) - 1 = (Len(freqs) - 1) \div 2}
    IN  IF Even = {} THEN 0 ELSE Min(Even)

\* The arrays of the two halves have size / 2 places each
SplitFits(range, freqs, left, right) == Len(left) <= Len(freqs) \div 2 /\ Len(right) <= Len(freqs) \div 2

\* The W(k) a list gives: the entries <<index, value>> written, in order, and whether each split fitted.  rc is
\* FALSE for -EINVAL, which the recursion ignores
RECURSIVE range_enc_arfcns(_, _, _)
range_enc_arfcns(range, arfcns, index) ==
    LET at == range_enc_find_index(range, arfcns)
        Leaf(origin) == LET far == [i \in DOMAIN arfcns |-> mod(arfcns[i] - origin, range)]
                        IN  SelectSeq(far, LAMBDA d : d < range \div 2)
        left == Leaf(mod(arfcns[at] + (range - 1) \div 2 + 1, range))
        right == Leaf(mod(arfcns[at] + 1, range))
        p == greatest_power_of_2_lesser_or_equal_to(index + 1)
        L == range_enc_arfcns(range \div 2, left, index + p)
        R == range_enc_arfcns((range - 1) \div 2, right, index + 2 * p)
    IN  IF arfcns = <<>> THEN [rc |-> TRUE, w |-> <<>>, fits |-> TRUE]
        ELSE IF Len(arfcns) = 1 THEN [rc |-> TRUE, w |-> <<<<index, 1 + arfcns[1]>>>>, fits |-> TRUE]
        ELSE IF at = 0 THEN [rc |-> FALSE, w |-> <<>>, fits |-> TRUE]
        ELSE IF ~SplitFits(range, arfcns, left, right)
             THEN [rc |-> TRUE, w |-> <<<<index, 1 + arfcns[at]>>>>, fits |-> FALSE]
        ELSE [rc |-> TRUE, w |-> <<<<index, 1 + arfcns[at]>>>> \o L.w \o R.w, fits |-> L.fits /\ R.fits]

\* <<range, f0>> for a list that is not empty (bitvec2freq_list has left before, if it is);  the range is
\* 0 where the code has ARFCN_RANGE_INVALID
range_enc_determine_range(arfcns) ==
    LET size == Len(arfcns)
        spread == arfcns[size] - arfcns[1]
    IN  IF spread < 128 /\ size <= 29 THEN <<127, arfcns[1]>>
        ELSE IF spread < 256 /\ size <= 22 THEN <<255, arfcns[1]>>
        ELSE IF spread < 512 /\ size <= 18 THEN <<511, arfcns[1]>>
        ELSE IF spread < 1024 /\ size <= 17 THEN <<1023, 0>>
        ELSE <<0, 0>>

\* The array after the filter, which works in place, and how much of it counts
Mut_range_enc_filter_arfcns(arfcns, f0) ==
    LET kept == SelectSeq(arfcns, LAMBDA a : a # f0)
        moved == [i \in DOMAIN kept |-> mod(kept[i] - f0, 1024)]
    IN  [list |-> moved \o SubSeq(arfcns, Len(kept) + 1, Len(arfcns)), used |-> Len(kept),
         f0_included |-> Len(kept) < Len(arfcns)]
range_enc_filter_arfcns(arfcns, f0) ==
    LET kept == SelectSeq(arfcns, LAMBDA a : a # f0)
        moved == [i \in DOMAIN kept |-> mod(kept[i] - (f0 + 1), 1024)]
    IN  [list |-> moved \o SubSeq(arfcns, Len(kept) + 1, Len(arfcns)), used |-> Len(kept),
         f0_included |-> Len(kept) < Len(arfcns)]

\* How many W(k) a format has, and how many bits W(1) gets
WCount(range) == CASE range = 127 -> 28 [] range = 255 -> 21 [] range = 511 -> 17 [] range = 1023 -> 16
W1Len(range) == CASE range = 127 -> 7 [] range = 255 -> 8 [] range = 511 -> 9 [] range = 1023 -> 10

\* W(2^i) to W(2^(i+1)-1) are on w1_len - i bits; the last value written to an index is the one there is
write_all_wn(w, w_size, w1_len) ==
    LET Written(k) == {n \in DOMAIN w : w[n][1] = k - 1}
        p(k) == greatest_power_of_2_lesser_or_equal_to(k)
    IN  [k \in 1 .. w_size |->
            IF Written(k) = {} THEN 0 ELSE w[Max(Written(k))][2] % (2 ^ w1_len \div p(k))]

\* What range_enc_range128 .. range_enc_range1024 put into the list; 1024 has no F(0), only whether it is in
range_enc_range(range, f0, f0_included, w) ==
    [format |-> "range", range |-> range, orig |-> IF range = 1023 THEN 0 ELSE f0,
     f0_included |-> range # 1023 \/ f0_included, w |-> write_all_wn(w, WCount(range), W1Len(range))]

\* The list range_encode makes, with the array as the filter leaves it and the size from before the filter
range_encode(range, arfcns, f0) ==
    LET f == range_enc_filter_arfcns(arfcns, f0)
        W == range_enc_arfcns(range, f.list, 0)
    IN  [W |-> W, list |-> range_enc_range(range, f0, f.f0_included, W.w)]

--------------------------------------------------------------------------
(* What a mobile reads from the W(k) (3GPP TS 44.018 Annex J) *)

\* n modulo m, in 1 .. m
smod(n, m) == ((n - 1) % m) + 1

\* The frequencies, relative to the origin, of the subtree whose root is W(k)
RECURSIVE SubtreeOf(_, _, _)
SubtreeOf(w, k, range) ==
    IF k > Len(w) THEN {}
    ELSE IF w[k] = 0 THEN {}
    ELSE LET p == greatest_power_of_2_lesser_or_equal_to(k)
             half == (range - 1) \div 2
         IN  {w[k]}
             \cup {smod(w[k] - (range + 1) \div 2 + v, range) : v \in SubtreeOf(w, k + p, half)}
             \cup {smod(w[k] + v, range) : v \in SubtreeOf(w, k + 2 * p, half)}
=============================================================================
