------------------------------ MODULE SysInfo ------------------------------
(***************************************************************************)
(* The system information of the cells: gsm_bts_trx_set_system_infos       *)
(* (bsc_init.c) generates every SI message of a BTS, one after the other,  *)
(* and then sends them; the generators (system_information.c and           *)
(* rest_octets.c) share two static structures between all BTSs, set each   *)
(* other's bits, and spread the 3G and 4G neighbours over several          *)
(* SI2quater messages.  The VTY changes the neighbours in between.         *)
(*                                                                         *)
(* The GSM neighbours are told apart by the list they belong to (FreqList  *)
(* has the lists themselves).  No SI is in static mode.                    *)
(***************************************************************************)
EXTENDS RangeEnc, SequencesExt

CONSTANTS SiSites,       \* the networks considered
          SI2Q_MAX_NUM,  \* how many SI2quater messages there can be
          SI2Q_MAX_LEN,  \* the bits of the rest octets of one
          SiListMax      \* MAX_EARFCN_LIST

Gprs == {"none", "gprs", "egprs"}
\* GSM neighbours: in the P-GSM band, in the same band outside P-GSM, in another band, and so many in the
\* cell's band that no frequency list holds them
Neighs == {"pgsm", "outside", "other", "toomany"}

\* modes: the GPRS modes of each BTS's configurations;  neighs: the neighbour lists;  fdd: the 3G neighbours, as
\* UARFCN, scrambling code and diversity;  earfcns: the 4G neighbours;  empty: si_unused_send_empty;  events: bound
SiSite == [modes : Seq(SUBSET Gprs), neighs : SUBSET SUBSET Neighs, fdd : SUBSET (Nat \X (0 .. 511) \X BOOLEAN),
           earfcns : SUBSET Nat, empty : BOOLEAN, events : Nat]

\* The lists are never full: at its limit bts_uarfcn_del reaches beyond the arrays
ASSUME SiRoom == \A s \in SiSites : s \in SiSite /\ Cardinality(s.fdd) < SiListMax

VARIABLES
    si_site,
    si_bts,   \* per BTS its configuration, the scratch state of the generators, and what its cell broadcasts
    si_info,  \* the static si_info and si13_default of system_information.c
    si_res,   \* what the last command or update came to
    si_left   \* what is left of site.events

siVars == <<si_site, si_bts, si_info, si_res, si_left>>

SiBtss == 1 .. Len(si_site.modes)
Cells == 0 .. SiListMax + 1

--------------------------------------------------------------------------
(* The 3G and 4G neighbour lists *)

\* s is the record of a BTS: u and sc are the arrays uarfcn_list and scramble_list, ulen their length
PairsOf(s) == {<<s.u[i], s.sc[i]>> : i \in 0 .. s.ulen - 1}
si2q_earfcn_count(s) == Len(s.e)

\* The diversity bit comes before the scrambling code
encode_fdd(scramble, diversity) == IF diversity THEN scramble + 512 ELSE scramble

SC_BOUND == 600  \* above every scrambling code

\* The position of a pair, whatever its diversity, or with SC_BOUND of the first entry with that UARFCN; -1 if
\* there is none
uarfcn_sc_pos(s, u, scramble) ==
    LET P == {i \in 0 .. s.ulen - 1 : s.u[i] = u /\ (scramble < SC_BOUND =>
                                        \E d \in BOOLEAN : s.sc[i] = encode_fdd(scramble, d))}
    IN  IF P = {} THEN -1 ELSE Min(P)

\* What follows the list stays in the array; the last entry is not overwritten when it is the one deleted
uarfcn_del(s, pos) ==
    LET Moved(a) == [i \in Cells |-> IF pos # s.ulen - 1 /\ i \in pos .. s.ulen THEN a[i + 1] ELSE a[i]]
    IN  [s EXCEPT !.u = Moved(s.u), !.sc = Moved(s.sc), !.ulen = @ - 1]

\* A new pair goes before the others with its UARFCN
Mut_uarfcn_insert(s, u, sc) ==
    LET pos == uarfcn_sc_pos(s, u, SC_BOUND)
        at == IF pos < 0 THEN s.ulen ELSE pos
    IN  [s EXCEPT !.u[at] = u, !.sc[at] = sc, !.ulen = @ + 1]
uarfcn_insert(s, u, sc) ==
    LET pos == uarfcn_sc_pos(s, u, SC_BOUND)
        at == IF pos < 0 THEN s.ulen ELSE pos
        Put(a, v) == [i \in Cells |-> IF i = at THEN v ELSE IF i > at /\ i <= s.ulen THEN a[i - 1] ELSE a[i]]
    IN  [s EXCEPT !.u = Put(s.u, u), !.sc = Put(s.sc, sc), !.ulen = @ + 1]

--------------------------------------------------------------------------
(* SI2quater *)

\* p(n) of 3GPP TS 44.018 Table 9.1.54.1a
range1024_p(n) == LET p == <<10, 19, 28, 36, 44, 52, 60, 67, 74, 81, 88, 95, 102, 109, 116, 122>>
                  IN  IF n \in 1 .. 16 THEN p[n] ELSE 0

\* f0_helper on the scrambling codes of one UARFCN: range_encode gives 0 or an error, so FDD_Indic0 is never set.
\* The codes a mobile reads are those of the W(k) that have room.
append_utran_fdd(u, sc) ==
    LET e == range_encode(1023, sc, 0)
    IN  [rc |-> e.W.rc, entry |-> [u |-> u, nr |-> Len(sc), codes |-> SubtreeOf(SubSeq(e.list.w, 1, Len(sc)), 1, 1023)]]

\* One pass of append_uarfcns from entry i on: m is the message being filled, rem the bits left in it, and
\* entries st .. i - 1 are of UARFCN cu.  The entry after the last one of the list is read as well.
RECURSIVE append_uarfcns(_, _, _, _, _, _)
append_uarfcns(s, m, i, cu, st, rem) ==
    LET cost == 21 + range1024_p(i - st)
        s1 == [s EXCEPT !.u_offset = @ + (i - st)]
        Go(added) == IF i < s.ulen THEN append_uarfcns(s1, added, i + 1, s.u[i], i, rem - cost)
                     ELSE [s |-> s1, m |-> added]
        try_adding_uarfcn(fdd) == IF rem < 23 \/ ~fdd.rc \/ rem - cost <= 0 THEN [s |-> s, m |-> m]
                                  ELSE Go([m EXCEPT !.u = Append(@, fdd.entry), !.bits = @ + cost])
    IN  IF i > s.ulen THEN [s |-> s, m |-> m]
        ELSE IF s.u[i] = cu THEN append_uarfcns(s, m, i + 1, cu, st, rem)
        ELSE try_adding_uarfcn(append_utran_fdd(cu, [k \in 1 .. i - st |-> s.sc[st + k - 1]]))

\* The EARFCNs that fit into budget bits, none of them with a measurement bandwidth or optional parameters
append_earfcn(s, m, budget) ==
    LET rem == budget - 25 - 6 - 3
        n == Max({0, Min({rem \div 18, Len(s.e) - s.e_offset})})
    IN  IF budget - 25 <= 6 \/ rem < 0 THEN [s |-> s, m |-> m]
        ELSE [s |-> [s EXCEPT !.e_offset = @ + n],
              m |-> [m EXCEPT !.e = SubSeq(s.e, s.e_offset + 1, s.e_offset + n),
                              !.bits = @ + 25 + 9 + 18 * n]]

\* The message with index idx: 18 bits before the 3G part, 5 + 2 around the list and 2 after it.  An offset beyond
\* its list makes the difference of two size_t a large number.
rest_octets_si2quater(s, idx) ==
    LET m == [index |-> idx, count |-> s.si2q_count, u |-> <<>>, e |-> <<>>, bits |-> 18]
        rc == SI2Q_MAX_LEN - (18 + 3)
        With4g(U) == IF SI2Q_MAX_LEN - U.m.bits > 0 /\ Len(s.e) # s.e_offset
                     THEN append_earfcn(U.s, U.m, SI2Q_MAX_LEN - U.m.bits)
                     ELSE [U EXCEPT !.m.bits = @ + 1]
    IN  With4g(IF s.ulen # s.u_offset /\ rc > 7
               THEN append_uarfcns(s, [m EXCEPT !.bits = @ + 5 + 2 + 2], s.u_offset, s.u[s.u_offset], s.u_offset, rc - 7)
               ELSE [s |-> s, m |-> [m EXCEPT !.bits = @ + 1 + 2]])

\* The messages from index idx on, as rc, the BTS and the messages.  Counting raises si2q_count as it goes.
RECURSIVE make_si2quaters(_, _, _, _)
make_si2quaters(s, counting, idx, msgs) ==
    LET c == IF counting /\ s.si2q_count < idx THEN [s EXCEPT !.si2q_count = idx] ELSE s
        Go(r) == IF r.s.u_offset >= s.ulen /\ r.s.e_offset >= si2q_earfcn_count(s)
                 THEN [rc |-> TRUE, s |-> [r.s EXCEPT !.si2q_index = idx], msgs |-> Append(msgs, r.m)]
                 ELSE make_si2quaters(r.s, counting, idx + 1, Append(msgs, r.m))
    IN  IF idx = SI2Q_MAX_NUM THEN [rc |-> FALSE, s |-> [s EXCEPT !.si2q_index = idx], msgs |-> msgs]
        ELSE IF c.si2q_count < idx THEN [rc |-> FALSE, s |-> [c EXCEPT !.si2q_index = idx], msgs |-> msgs]
        ELSE Go(rest_octets_si2quater(c, idx))

si2q_num(s) ==
    LET Count(r) == [num |-> IF r.rc THEN r.s.si2q_index + 1 ELSE 255,
                     s |-> [r.s EXCEPT !.u_offset = 0, !.e_offset = 0]]
    IN  Count(make_si2quaters(s, TRUE, 0, <<>>))

--------------------------------------------------------------------------
(* The generators.  g is [rc, s, i, v, out]: whether all went well so far, the BTS, the static structures,
   the SI types marked valid, and the messages made. *)

\* SI2 and SI5 (t) carry the neighbours inside P-GSM
generate_si2(g) == [g EXCEPT !.rc = "toomany" \notin g.s.neighs, !.out.si2 = {"pgsm"} \cap g.s.neighs,
                             !.out.ext2 = FALSE]
generate_si2bis(g) ==
    IF "outside" \in g.s.neighs THEN [g EXCEPT !.out.ext2 = TRUE, !.out.ext2bis = TRUE]
    ELSE [g EXCEPT !.v = @ \ {"2bis"}, !.out.ext2bis = FALSE]
generate_si2ter(g) == IF "other" \in g.s.neighs THEN g ELSE [g EXCEPT !.v = @ \ {"2ter"}]

si2quater_not_needed(s) == s.ulen = 0 /\ si2q_earfcn_count(s) = 0

generate_si2quater(g) ==
    LET s0 == [g.s EXCEPT !.u_offset = 0, !.e_offset = 0, !.si2q_index = 0]
        Counted(n) == [n.s EXCEPT !.si2q_count = (n.num - 1) % 256]
        Made(r) == [g EXCEPT !.rc = r.rc, !.s = r.s, !.out.quater = r.msgs]
    IN  IF si2quater_not_needed(g.s) THEN [g EXCEPT !.v = @ \ {"2quater"}]
        ELSE Made(make_si2quaters(Counted(si2q_num(s0)), FALSE, 0, <<>>))

\* SI3 says whether there are SI2ter and SI2quater, from si_info, which it sets first
Mut_generate_si3(g) ==
    LET i == [g.i EXCEPT !.ter = @ \/ "2ter" \in g.v, !.quater = "2quater" \in g.v]
    IN  [g EXCEPT !.i = i, !.out.si3 = [ter |-> i.ter, quater |-> i.quater, gprs |-> i.gprs]]
generate_si3(g) ==
    LET i == [g.i EXCEPT !.ter = "2ter" \in g.v, !.quater = "2quater" \in g.v]
    IN  [g EXCEPT !.i = i, !.out.si3 = [ter |-> i.ter, quater |-> i.quater, gprs |-> i.gprs]]
generate_si4(g) == [g EXCEPT !.out.si4 = g.i.gprs]
generate_si13(g) == [g EXCEPT !.out.si13 = IF g.i.egprs THEN "egprs" ELSE "gprs"]

generate_si5(g) == [g EXCEPT !.rc = "toomany" \notin g.s.neighs, !.out.ext5 = FALSE]
\* The extension bit meant for SI5 goes to the place one whole SI5 further on
generate_si5bis(g) == IF "outside" \in g.s.neighs THEN [g EXCEPT !.out.ext5bis = TRUE]
                      ELSE [g EXCEPT !.v = @ \ {"5bis"}, !.out.ext5bis = FALSE]
generate_si5ter(g) == IF "other" \in g.s.neighs THEN g ELSE [g EXCEPT !.v = @ \ {"5ter"}]

\* What gsm_generate_si does to the static structures before every generator
gsm_generate_si(g) == [g EXCEPT !.i.egprs = @ \/ g.s.mode = "egprs", !.i.gprs = g.s.mode # "none"]

\* An SI type is marked valid, then generated; nothing is generated after a failure
Gen(g, t) ==
    LET h == [g EXCEPT !.v = @ \cup {t}]
    IN  CASE ~g.rc -> g
          [] g.rc /\ t = "2" -> generate_si2(h)
          [] g.rc /\ t = "2bis" -> generate_si2bis(h)
          [] g.rc /\ t = "2ter" -> generate_si2ter(h)
          [] g.rc /\ t = "2quater" -> generate_si2quater(h)
          [] g.rc /\ t = "3" -> generate_si3(h)
          [] g.rc /\ t = "4" -> generate_si4(h)
          [] g.rc /\ t = "13" -> generate_si13(h)
          [] g.rc /\ t = "5" -> generate_si5(h)
          [] g.rc /\ t = "5bis" -> generate_si5bis(h)
          [] g.rc /\ t = "5ter" -> generate_si5ter(h)

\* Everything of a C0 TRX, in the order of gsm_bts_trx_set_system_infos (SI1 of one ARFCN and SI6 cannot fail)
GenerateAll(s, i) ==
    FoldLeft(Gen, gsm_generate_si([rc |-> TRUE, s |-> s, i |-> i, v |-> {"1", "6"}, out |-> s.buf]),
             <<"2", "2bis", "2ter", "2quater", "3", "4">> \o (IF s.mode = "none" THEN <<>> ELSE <<"13">>)
                 \o <<"5", "5bis", "5ter">>)

\* What the cell broadcasts after the messages have been sent: an SI that is not valid is switched off with
\* an empty message, if the BTS gets those.  SI13 is not among the messages of a cell without GPRS.
rsl_si(g, empty) ==
    LET old == g.s.air
        Kept(t, new, was) == IF t \in g.v THEN new ELSE IF empty THEN FALSE ELSE was
    IN  [si2 |-> g.out.si2, ext2 |-> g.out.ext2, bis |-> Kept("2bis", TRUE, old.bis),
         ter |-> Kept("2ter", TRUE, old.ter), si3 |-> g.out.si3, si4 |-> g.out.si4,
         si13 |-> IF "13" \in g.v THEN g.out.si13 ELSE old.si13,
         quater |-> IF "2quater" \in g.v THEN SubSeq(g.out.quater, 1, g.s.si2q_count + 1)
                    ELSE IF empty THEN <<>> ELSE old.quater,
         ext5 |-> g.out.ext5, bis5 |-> Kept("5bis", TRUE, old.bis5)]

--------------------------------------------------------------------------
(* Actions *)

Result(op, b, rc) == si_res' = [op |-> op, bts |-> b, rc |-> rc]
SiEvent == si_left > 0 /\ si_left' = si_left - 1 /\ UNCHANGED si_site

\* The messages of a BTS are generated and sent; nothing is sent when one of them cannot be generated
gsm_bts_trx_set_system_infos(b) ==
    /\ SiEvent
    /\ \E g \in {GenerateAll(si_bts[b], si_info)} :
          /\ si_info' = g.i
          /\ si_bts' = [si_bts EXCEPT ![b] = IF g.rc THEN [g.s EXCEPT !.buf = g.out, !.air = rsl_si(g, si_site.empty)]
                                             ELSE [g.s EXCEPT !.buf = g.out]]
          /\ Result("update", b, g.rc)

cfg_bts_gprs_mode(b, mode) ==
    /\ SiEvent
    /\ mode \in si_site.modes[b] \ {si_bts[b].mode}
    /\ si_bts' = [si_bts EXCEPT ![b].mode = mode]
    /\ Result("mode", b, TRUE) /\ UNCHANGED si_info

cfg_bts_neigh(b, N) ==
    /\ SiEvent
    /\ N \in si_site.neighs \ {si_bts[b].neighs}
    /\ si_bts' = [si_bts EXCEPT ![b].neighs = N]
    /\ Result("neigh", b, TRUE) /\ UNCHANGED si_info

\* The pair is added, and taken out again if the SI2quater messages cannot be made with it
Mut_bts_uarfcn_add(b, u, scramble, diversity) ==
    /\ SiEvent
    /\ uarfcn_sc_pos(si_bts[b], u, scramble) < 0
    /\ \E n \in {si2q_num(uarfcn_insert(si_bts[b], u, encode_fdd(scramble, diversity)))} :
          /\ si_bts' = [si_bts EXCEPT ![b] = IF n.num <= SI2Q_MAX_NUM THEN [n.s EXCEPT !.si2q_count = n.num - 1]
                                             ELSE uarfcn_del(n.s, n.s.ulen - 1)]
          /\ Result("add", b, n.num <= SI2Q_MAX_NUM) /\ UNCHANGED si_info
bts_uarfcn_add(b, u, scramble, diversity) ==
    /\ SiEvent
    /\ uarfcn_sc_pos(si_bts[b], u, scramble) < 0
    /\ \E n \in {si2q_num(uarfcn_insert(si_bts[b], u, encode_fdd(scramble, diversity)))} :
          /\ si_bts' = [si_bts EXCEPT ![b] = IF n.num <= SI2Q_MAX_NUM THEN [n.s EXCEPT !.si2q_count = n.num - 1]
                                             ELSE uarfcn_del(n.s, uarfcn_sc_pos(n.s, u, scramble))]
          /\ Result("add", b, n.num <= SI2Q_MAX_NUM) /\ UNCHANGED si_info

bts_uarfcn_del(b, u, sc) ==
    /\ SiEvent
    /\ uarfcn_sc_pos(si_bts[b], u, sc) >= 0
    /\ si_bts' = [si_bts EXCEPT ![b] = uarfcn_del(@, uarfcn_sc_pos(@, u, sc))]
    /\ Result("del", b, TRUE) /\ UNCHANGED si_info

\* An EARFCN is taken out again if there is no room for it; si2q_count keeps what the counting made of it
cfg_bts_si2quater_neigh_add(b, f) ==
    /\ SiEvent
    /\ f \notin ToSet(si_bts[b].e)
    /\ \E n \in {si2q_num([si_bts[b] EXCEPT !.e = Append(@, f)])} :
          /\ si_bts' = [si_bts EXCEPT ![b] = IF n.num <= SI2Q_MAX_NUM THEN n.s ELSE [n.s EXCEPT !.e = si_bts[b].e]]
          /\ Result("earfcn", b, n.num <= SI2Q_MAX_NUM) /\ UNCHANGED si_info

cfg_bts_si2quater_neigh_del(b, f) ==
    /\ SiEvent
    /\ f \in ToSet(si_bts[b].e)
    /\ si_bts' = [si_bts EXCEPT ![b].e = SelectSeq(@, LAMBDA x : x # f)]
    /\ Result("earfcn_del", b, TRUE) /\ UNCHANGED si_info

SiBuf == [si2 |-> {}, ext2 |-> FALSE, ext2bis |-> FALSE, si3 |-> [ter |-> FALSE, quater |-> FALSE, gprs |-> FALSE],
          si4 |-> FALSE, si13 |-> "gprs", quater |-> <<>>, ext5 |-> FALSE, ext5bis |-> FALSE]
SiAir == [si2 |-> {}, ext2 |-> FALSE, bis |-> FALSE, ter |-> FALSE, si3 |-> SiBuf.si3, si4 |-> FALSE,
          si13 |-> "off", quater |-> <<>>, ext5 |-> FALSE, bis5 |-> FALSE]
SiFresh(mode) ==
    [mode |-> mode, neighs |-> {}, u |-> [i \in Cells |-> 0], sc |-> [i \in Cells |-> 0], ulen |-> 0,
     e |-> <<>>, u_offset |-> 0, e_offset |-> 0, si2q_index |-> 0, si2q_count |-> 0, buf |-> SiBuf, air |-> SiAir]

SiInit ==
    /\ si_site \in SiSites
    /\ \E modes \in [SiBtss -> Gprs] :
          /\ \A b \in SiBtss : modes[b] \in si_site.modes[b]
          /\ si_bts = [b \in SiBtss |-> SiFresh(modes[b])]
    /\ si_info = [gprs |-> TRUE, egprs |-> FALSE, ter |-> FALSE, quater |-> FALSE]
    /\ si_res = [op |-> "", bts |-> 0, rc |-> TRUE]
    /\ si_left = si_site.events

SiNext == \E b \in SiBtss :
    \/ gsm_bts_trx_set_system_infos(b)
    \/ \E m \in Gprs : cfg_bts_gprs_mode(b, m)
    \/ \E N \in si_site.neighs : cfg_bts_neigh(b, N)
    \/ \E p \in si_site.fdd : bts_uarfcn_add(b, p[1], p[2], p[3]) \/ bts_uarfcn_del(b, p[1], p[2])
    \/ \E f \in si_site.earfcns : cfg_bts_si2quater_neigh_add(b, f) \/ cfg_bts_si2quater_neigh_del(b, f)

SiSpec == SiInit /\ [][SiNext]_siVars

--------------------------------------------------------------------------
(* Properties *)

Updated(b) == si_res.op = "update" /\ si_res.bts = b /\ si_res.rc

\* The lists hold each pair once, with one diversity, and the offsets are within what the lists can be
SiTypeOK == \A b \in SiBtss : LET s == si_bts[b] IN
    /\ s.ulen \in 0 .. SiListMax /\ PairsOf(s) \subseteq {<<p[1], encode_fdd(p[2], p[3])>> : p \in si_site.fdd}
    /\ Cardinality({<<p[1], p[2] % 512>> : p \in PairsOf(s)}) = s.ulen
    /\ s.u_offset <= SiListMax /\ s.e_offset <= Cardinality(si_site.earfcns)
    /\ \A n \in DOMAIN s.air.quater : s.air.quater[n].bits <= SI2Q_MAX_LEN

\* When the update of a BTS has gone through, its SI2quater messages are numbered 0 .. count and between them
\* have every 4G neighbour once and every UARFCN of the 3G neighbours once, with its number of cells (the
\* assertion of generate_si2quater, and more).  A mobile reads every scrambling code that is not 0, and none that
\* is not a neighbour's, unless one of the UARFCN's codes is 0: that one is never read, since range_encode does
\* not return f0_included, and another takes its place, since it encodes as many as before the filter.
SiQuaterWhole == \A b \in SiBtss : (Updated(b) /\ ~si2quater_not_needed(si_bts[b])) =>
    LET s == si_bts[b]
        q == s.air.quater
        U == FlattenSeq([n \in DOMAIN q |-> q[n].u])
        E == FlattenSeq([n \in DOMAIN q |-> q[n].e])
        Codes(u) == {p[2] : p \in {p \in PairsOf(s) : p[1] = u}}
    IN  /\ \A n \in DOMAIN q : q[n].index = n - 1 /\ q[n].count = Len(q) - 1
        /\ ToSet(E) = ToSet(s.e) /\ Len(E) = Len(s.e)
        /\ {U[n].u : n \in DOMAIN U} = {p[1] : p \in PairsOf(s)}
        /\ \A m, n \in DOMAIN U : m # n => U[m].u # U[n].u
        /\ \A n \in DOMAIN U : /\ U[n].nr = Cardinality(Codes(U[n].u))
                               /\ Codes(U[n].u) \ {0} \subseteq U[n].codes
                               /\ 0 \notin Codes(U[n].u) => U[n].codes = Codes(U[n].u)

\* A pair that cannot be added leaves the list as it was (the rollback of bts_uarfcn_add)
SiRollback == \A b \in SiBtss : (si_res'.op = "add" /\ si_res'.bts = b /\ ~si_res'.rc)
                    => PairsOf(si_bts'[b]) = PairsOf(si_bts[b])

\* What SI2 and SI3 say about other messages is so, although the structure it comes from is shared by all
\* BTSs: SI2 announces SI2bis, SI3 announces SI2ter, SI2quater and GPRS
SiIndicators == \A b \in SiBtss : (Updated(b) /\ si_site.empty) =>
    LET a == si_bts[b].air IN /\ a.ext2 = a.bis
                              /\ a.si3.ter = a.ter
                              /\ a.si3.quater = (a.quater # <<>>)
                              /\ a.si3.gprs = (si_bts[b].mode # "none") /\ a.si4 = a.si3.gprs


\* A cell whose BTS is in mode gprs does not announce EGPRS
SiEgprsOwn == \A b \in SiBtss : (Updated(b) /\ si_bts[b].mode = "gprs") => si_bts[b].air.si13 = "gprs"

\* A cell whose every neighbour was accepted can have its system information made
SiNeighboursAdvertised == (si_res.op = "update" /\ "toomany" \notin si_bts[si_res.bts].neighs) => si_res.rc

\* SI5 announces SI5bis
SiSacchExtension == \A b \in SiBtss : (Updated(b) /\ si_site.empty) => si_bts[b].air.ext5 = si_bts[b].air.bis5

\* A cell without GPRS broadcasts no SI13
SiNoGprs == \A b \in SiBtss : (Updated(b) /\ si_bts[b].mode = "none") => si_bts[b].air.si13 = "off"
=============================================================================
