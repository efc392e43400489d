--------------------------- MODULE AccRamp_proofs ---------------------------
(***************************************************************************)
(* Access class ramping, for any number of BTSs, any step size, any        *)
(* classes barred for good and any number of events: a ramp is never left  *)
(* half way, and opens its cell by at most a step at a time, lowest        *)
(* classes first.                                                          *)
(***************************************************************************)
EXTENDS AccRamp, FiniteSetTheorems, TLAPS

-----------------------------------------------------------------------------
(* One step of a ramp                                                      *)

\* A set of access classes that is not empty has a highest one.
LEMMA HighestClass ==
    ASSUME NEW T \in SUBSET Accs, T # {}
    PROVE  \E a \in T : \A x \in T : x <= a
<1>1. \A x \in T : x \in 0 .. 9
  BY DEF Accs
<1>2. CASE 9 \in T
  BY <1>1, <1>2
<1>3. CASE 9 \notin T /\ 8 \in T
  BY <1>1, <1>3
<1>4. CASE 9 \notin T /\ 8 \notin T /\ 7 \in T
  BY <1>1, <1>4
<1>5. CASE 9 \notin T /\ 8 \notin T /\ 7 \notin T /\ 6 \in T
  BY <1>1, <1>5
<1>6. CASE 9 \notin T /\ 8 \notin T /\ 7 \notin T /\ 6 \notin T
  BY <1>1, <1>6
<1> QED BY <1>2, <1>3, <1>4, <1>5, <1>6

\* A set of access classes is finite.
LEMMA ClassesFinite ==
    ASSUME NEW T \in SUBSET Accs
    PROVE  IsFiniteSet(T) /\ Cardinality(T) \in Nat
<1>1. IsFiniteSet(Accs)
  <2>1. IsFiniteSet(0 .. 9)
    BY FS_Interval, 0 \in Int, 9 \in Int
  <2> QED BY <2>1 DEF Accs
<1> QED BY <1>1, FS_Subset, FS_CardinalityType

\* do_acc_ramping_step() allows at most step_size classes.
LEMMA StepAllowsFew ==
    ASSUME NEW bts, bts.barred \in SUBSET Accs, bts.step \in 1 .. 10
    PROVE  Cardinality(StepAllows(bts)) <= bts.step
<1> DEFINE A == StepAllows(bts)
           Below(a) == {x \in bts.barred : x < a}
<1>1. A \in SUBSET Accs /\ \A a \in A : a \in bts.barred /\ Cardinality(Below(a)) < bts.step
  BY DEF StepAllows
<1>2. CASE A = {}
  BY <1>2, FS_EmptySet
<1>3. CASE A # {}
  <2> HIDE DEF A
  <2>1. PICK a \in A : \A x \in A : x <= a
    BY <1>1, <1>3, HighestClass
  <2>2. Below(a) \in SUBSET Accs /\ a \notin Below(a)
    BY <1>1 DEF Accs
  <2>3. A \subseteq Below(a) \cup {a}
    <3> SUFFICES ASSUME NEW x \in A
                 PROVE  x \in Below(a) \cup {a}
      OBVIOUS
    <3>1. x \in bts.barred /\ x \in 0 .. 9 /\ a \in 0 .. 9 /\ x <= a
      BY <1>1, <2>1 DEF Accs
    <3> QED BY <3>1
  <2>4. Cardinality(Below(a)) < bts.step
    BY <1>1
  <2> HIDE DEF Below
  <2>5. IsFiniteSet(Below(a)) /\ Cardinality(Below(a)) \in Nat
    BY <2>2, ClassesFinite
  <2>6. IsFiniteSet(Below(a) \cup {a}) /\ Cardinality(Below(a) \cup {a}) = Cardinality(Below(a)) + 1
    BY <2>2, <2>5, FS_AddElement
  <2>7. Cardinality(A) <= Cardinality(Below(a) \cup {a})
    BY <2>3, <2>6, FS_Subset
  <2>8. Cardinality(A) \in Nat
    BY <1>1, ClassesFinite
  <2>9. Cardinality(A) <= bts.step
    BY <2>4, <2>5, <2>6, <2>7, <2>8
  <2> QED BY <2>9 DEF A
<1> QED BY <1>2, <1>3

\* do_acc_ramping_step() allows no class before a lower one, those barred for good aside.
LEMMA StepAllowsLowest ==
    ASSUME NEW bts, bts.barred \in SUBSET Accs, bts.step \in 1 .. 10,
           NEW a \in StepAllows(bts), NEW x \in bts.barred \ StepAllows(bts)
    PROVE  x \in bts.perm \/ a < x
<1> DEFINE Below(c) == {y \in bts.barred : y < c}
<1> SUFFICES ASSUME x <= a
             PROVE  FALSE
  BY DEF StepAllows, Accs
<1>1. /\ a \in Accs /\ a \in bts.barred /\ Cardinality(Below(a)) < bts.step
      /\ \A p \in bts.barred \cap bts.perm : a < p
  BY DEF StepAllows
<1>2. x \in Accs /\ x # a /\ x < a
  BY <1>1 DEF Accs
<1>3. Below(x) \in SUBSET Below(a) /\ Below(a) \in SUBSET Accs /\ Below(x) \in SUBSET Accs
  BY <1>1, <1>2 DEF Accs
<1>4. \A p \in bts.barred \cap bts.perm : x < p
  BY <1>1, <1>2 DEF Accs
<1>5. Cardinality(Below(x)) < bts.step
  <2> HIDE DEF Below
  <2>1. IsFiniteSet(Below(a)) /\ Cardinality(Below(a)) \in Nat /\ Cardinality(Below(x)) \in Nat
    BY <1>3, ClassesFinite
  <2>2. Cardinality(Below(x)) <= Cardinality(Below(a))
    BY <1>3, <2>1, FS_Subset
  <2> QED BY <1>1, <2>1, <2>2
<1> QED BY <1>4, <1>5 DEF StepAllows

-----------------------------------------------------------------------------
(* What the functions of acc_ramp.c do with a BTS                          *)

\* A TRX as a ramp sees it
Trx == [adm : Adm, oper : Oper, bb : BOOLEAN, rsl : BOOLEAN]

\* A BTS with n TRXs
BtsOf(n) == [enabled : BOOLEAN, barred : SUBSET Accs, timer : BOOLEAN, step : 1 .. 10, perm : SUBSET Accs,
             trx : [1 .. n -> Trx], air : SUBSET Accs]

\* What the cell broadcasts beyond the classes barred for good is what the ramp bars.
Broadcasts(bts) == bts.air \subseteq bts.perm \cup bts.barred

\* A ramp runs only where ramping is enabled; without its timer nothing is left to be allowed; with it,
\* a cell that hears of changes broadcasts what the ramp bars; without ramping it bars nothing.
Ramping(bts) ==
    /\ ~bts.enabled => ~bts.timer
    /\ ~bts.timer => bts.barred \subseteq bts.perm
    /\ bts.timer /\ bts.trx[1].rsl => Broadcasts(bts)
    /\ ~bts.enabled /\ bts.trx[1].rsl => bts.air \subseteq bts.perm

\* The fields that the functions of acc_ramp.c leave alone
SameConfig(bts, new) ==
    new.enabled = bts.enabled /\ new.step = bts.step /\ new.perm = bts.perm /\ new.trx = bts.trx

\* gsm_bts_set_system_infos() changes what is broadcast only, and only over a link.
LEMMA SystemInfos ==
    ASSUME NEW n \in 1 .. 2, NEW bts \in BtsOf(n)
    PROVE  LET new == gsm_bts_set_system_infos(bts)
           IN  /\ new \in BtsOf(n) /\ SameConfig(bts, new) /\ new.timer = bts.timer /\ new.barred = bts.barred
               /\ bts.trx[1].rsl => new.air = bts.perm \cup (IF bts.enabled THEN bts.barred ELSE {})
               /\ ~bts.trx[1].rsl => new.air = bts.air
<1> DEFINE new == gsm_bts_set_system_infos(bts)
<1>1. CASE bts.trx[1].rsl
  <2>1. new = [bts EXCEPT !.air = bts.perm \cup (IF bts.enabled THEN bts.barred ELSE {})]
    BY <1>1 DEF gsm_bts_set_system_infos
  <2>2. (bts.perm \cup (IF bts.enabled THEN bts.barred ELSE {})) \in SUBSET Accs
    BY DEF BtsOf
  <2> QED BY <1>1, <2>1, <2>2 DEF BtsOf, SameConfig
<1>2. CASE ~bts.trx[1].rsl
  <2>1. new = bts
    BY <1>2 DEF gsm_bts_set_system_infos
  <2> QED BY <1>2, <2>1 DEF SameConfig
<1> QED BY <1>1, <1>2

\* acc_ramp_abort() stops the timer and leaves the classes that are barred for good.
LEMMA AbortDoes ==
    ASSUME NEW n \in 1 .. 2, NEW bts \in BtsOf(n)
    PROVE  LET new == acc_ramp_abort(bts)
           IN  /\ new \in BtsOf(n) /\ SameConfig(bts, new)
               /\ new.timer = FALSE /\ new.barred = bts.barred \cap bts.perm /\ new.air = bts.air
               /\ Ramping(bts) => Ramping(new)
<1> DEFINE new == acc_ramp_abort(bts)
<1>1. new = [bts EXCEPT !.barred = bts.barred \cap bts.perm, !.timer = FALSE]
  BY DEF acc_ramp_abort, allow_all_accs, BtsOf
<1>2. /\ new \in BtsOf(n) /\ SameConfig(bts, new)
      /\ new.timer = FALSE /\ new.barred = bts.barred \cap bts.perm /\ new.air = bts.air
  BY <1>1 DEF BtsOf, SameConfig
<1>3. Ramping(bts) => Ramping(new)
  BY <1>2 DEF Ramping, SameConfig, Broadcasts
<1> QED BY <1>2, <1>3

\* do_acc_ramping_step() starts the timer while a class is left, and broadcasts what is left.
LEMMA StepDoes ==
    ASSUME NEW n \in 1 .. 2, NEW bts \in BtsOf(n), bts.timer = FALSE
    PROVE  LET new == do_acc_ramping_step(bts)
           IN  /\ new \in BtsOf(n) /\ SameConfig(bts, new) /\ (bts.enabled => Ramping(new))
               /\ new.barred = IF bts.step = StepSizeMax THEN bts.barred \cap bts.perm
                               ELSE bts.barred \ StepAllows(bts)
               /\ bts.enabled /\ bts.trx[1].rsl => new.air = new.perm \cup new.barred
               /\ ~bts.trx[1].rsl => new.air = bts.air
<1> DEFINE new == do_acc_ramping_step(bts)
<1>1. CASE bts.step = StepSizeMax
  <2> DEFINE mid == allow_all_accs(bts)
  <2>1. mid = [bts EXCEPT !.barred = bts.barred \cap bts.perm]
    BY DEF allow_all_accs, BtsOf
  <2>2. mid \in BtsOf(n) /\ SameConfig(bts, mid) /\ mid.timer = FALSE /\ mid.barred = bts.barred \cap bts.perm /\ mid.air = bts.air
    BY <2>1 DEF BtsOf, SameConfig
  <2>3. new = gsm_bts_set_system_infos(mid)
    BY <1>1 DEF do_acc_ramping_step
  <2> HIDE DEF mid, new
  <2>4. /\ new \in BtsOf(n) /\ SameConfig(mid, new) /\ new.timer = mid.timer /\ new.barred = mid.barred
        /\ mid.trx[1].rsl => new.air = mid.perm \cup (IF mid.enabled THEN mid.barred ELSE {})
        /\ ~mid.trx[1].rsl => new.air = mid.air
    BY <2>2, <2>3, SystemInfos
  <2>5. bts.enabled => Ramping(new)
    BY <2>2, <2>4 DEF Ramping, SameConfig, Broadcasts
  <2> QED BY <1>1, <2>2, <2>4, <2>5 DEF SameConfig, new
<1>2. CASE bts.step # StepSizeMax
  <2> DEFINE left == bts.barred \ StepAllows(bts)
             mid == [bts EXCEPT !.barred = left, !.timer = left # {}]
  <2>1. left \in SUBSET Accs
    BY DEF BtsOf
  <2>2. new = gsm_bts_set_system_infos(mid)
    BY <1>2 DEF do_acc_ramping_step
  <2> HIDE DEF left
  <2>3. mid \in BtsOf(n) /\ SameConfig(bts, mid) /\ mid.timer = (left # {}) /\ mid.barred = left /\ mid.air = bts.air
    BY <2>1 DEF BtsOf, SameConfig
  <2> HIDE DEF mid, new
  <2>4. /\ new \in BtsOf(n) /\ SameConfig(mid, new) /\ new.timer = mid.timer /\ new.barred = mid.barred
        /\ mid.trx[1].rsl => new.air = mid.perm \cup (IF mid.enabled THEN mid.barred ELSE {})
        /\ ~mid.trx[1].rsl => new.air = mid.air
    BY <2>2, <2>3, SystemInfos
  <2>5. bts.enabled => Ramping(new)
    BY <2>3, <2>4 DEF Ramping, SameConfig, Broadcasts
  <2> QED BY <1>2, <2>3, <2>4, <2>5 DEF SameConfig, new, left
<1> QED BY <1>1, <1>2

\* acc_ramp_trigger() leaves a ramp in order, and a cell that is linked broadcasts it.
LEMMA TriggerDoes ==
    ASSUME NEW n \in 1 .. 2, NEW bts \in BtsOf(n)
    PROVE  LET new == acc_ramp_trigger(bts)
           IN  /\ new \in BtsOf(n) /\ SameConfig(bts, new)
               /\ Ramping(bts) => Ramping(new) /\ (bts.trx[1].rsl => Broadcasts(new))
               /\ bts.enabled => Ramping(new)
               /\ ~bts.enabled => new.timer = FALSE /\ new.barred = bts.barred \cap bts.perm
<1> DEFINE new == acc_ramp_trigger(bts)
           off == acc_ramp_abort(bts)
           all == barr_all_accs(off)
<1>1. /\ off \in BtsOf(n) /\ SameConfig(bts, off)
      /\ off.timer = FALSE /\ off.barred = bts.barred \cap bts.perm /\ off.air = bts.air
      /\ Ramping(bts) => Ramping(off)
  BY AbortDoes
<1>2. CASE ~bts.enabled
  <2>1. new = off
    BY <1>2 DEF acc_ramp_trigger
  <2> HIDE DEF off
  <2> QED BY <1>1, <1>2, <2>1 DEF Ramping, SameConfig, Broadcasts
<1>3. CASE bts.enabled
  <2>1. new = do_acc_ramping_step(all)
    BY <1>3 DEF acc_ramp_trigger
  <2> HIDE DEF off
  <2>2. all = [off EXCEPT !.barred = off.barred \cup (Accs \ off.perm)]
    BY <1>1 DEF barr_all_accs, BtsOf
  <2>3. all \in BtsOf(n) /\ SameConfig(off, all) /\ all.timer = FALSE /\ all.enabled
    BY <1>1, <1>3, <2>2 DEF BtsOf, SameConfig
  <2> HIDE DEF all, new
  <2>4. /\ new \in BtsOf(n) /\ SameConfig(all, new) /\ Ramping(new)
        /\ all.trx[1].rsl => new.air = new.perm \cup new.barred
    BY <2>1, <2>3, StepDoes
  <2> QED BY <1>1, <2>3, <2>4 DEF SameConfig, Broadcasts, new
<1> QED BY <1>2, <1>3 DEF BtsOf

\* acc_ramp_nm_sig_cb() leaves a ramp in order.
LEMMA SignalDoes ==
    ASSUME NEW n \in 1 .. 2, NEW bts \in BtsOf(n), NEW t, NEW trx, NEW nm
    PROVE  LET new == acc_ramp_nm_sig_cb(bts, t, trx, nm)
           IN  /\ new \in BtsOf(n) /\ SameConfig(bts, new)
               /\ Ramping(bts) => Ramping(new)
               /\ Ramping(bts) /\ t = 1 /\ trx.rsl /\ Triggers(trx, nm) /\ bts.trx[1].rsl => Broadcasts(new)
               /\ (t # 1 \/ ~trx.rsl \/ (~Triggers(trx, nm) /\ ~Aborts(trx, nm))) => new = bts
<1>1. SameConfig(bts, bts)
  BY DEF SameConfig
<1> QED BY <1>1, TriggerDoes, AbortDoes DEF acc_ramp_nm_sig_cb

-----------------------------------------------------------------------------
(* The invariant                                                           *)

\* The classes barred for good stay as configured.
Frozen == "class" \notin ar_site.vty

\* OnAir() of a BTS's record
Linked(bts) == bts.trx[1].rsl /\ bts.trx[1].adm = "UNLOCKED" /\ bts.trx[1].oper = "ENABLED"

\* The type invariant, BTS by BTS
ArTypes ==
    /\ ar_site \in AccSite /\ ar_site \in AccSites
    /\ ar_left \in 0 .. ar_site.events
    /\ ar_bts = [b \in ArBtss |-> ar_bts[b]]
    /\ \A b \in ArBtss : ar_bts[b] \in BtsOf(ar_site.trx[b])

\* The inductive invariant: every ramp is in order, and the one cell of E1 broadcasts its ramp while it
\* is on the air.
ArInv ==
    /\ ArTypes
    /\ Frozen => \A b \in ArBtss : Ramping(ar_bts[b])
    /\ Alone => \A b \in ArBtss : Linked(ar_bts[b]) => Broadcasts(ar_bts[b])

\* Every BTS of a site has one or two TRXs.
LEMMA SomeTrx ==
    ASSUME ar_site \in AccSite, NEW b \in ArBtss
    PROVE  ar_site.trx[b] \in 1 .. 2 /\ 1 \in 1 .. ar_site.trx[b] /\ ar_site.events \in Nat
<1>1. ar_site.trx \in Seq(1 .. 2) /\ b \in 1 .. Len(ar_site.trx)
  BY DEF AccSite, ArBtss
<1>2. ar_site.trx[b] \in 1 .. 2
  BY <1>1
<1> QED BY <1>2 DEF AccSite

\* The invariant after a step that changes one BTS.
LEMMA OneBtsChanges ==
    ASSUME ArInv, NEW b \in ArBtss, NEW v \in BtsOf(ar_site.trx[b]),
           ar_bts' = [ar_bts EXCEPT ![b] = v], ar_site' = ar_site, ar_left' \in 0 .. ar_site.events,
           Frozen => Ramping(v), Alone /\ Linked(v) => Broadcasts(v)
    PROVE  ArInv'
<1>1. ArBtss' = ArBtss /\ Frozen' = Frozen /\ Alone' = Alone
  BY DEF ArBtss, Frozen, Alone
<1>2. /\ ar_bts' = [c \in ArBtss |-> ar_bts'[c]] /\ ar_bts'[b] = v
      /\ \A c \in ArBtss : c # b => ar_bts'[c] = ar_bts[c]
  BY DEF ArInv, ArTypes
<1>3. ArTypes'
  BY <1>1, <1>2 DEF ArInv, ArTypes
<1>4. (Frozen => \A c \in ArBtss : Ramping(ar_bts[c]))'
  BY <1>1, <1>2 DEF ArInv
<1>5. (Alone => \A c \in ArBtss : Linked(ar_bts[c]) => Broadcasts(ar_bts[c]))'
  BY <1>1, <1>2 DEF ArInv
<1> QED BY <1>3, <1>4, <1>5 DEF ArInv

\* An event is taken from the bound.
LEMMA InputCounted ==
    ASSUME ArInv, ArInput, ar_site' = ar_site
    PROVE  ar_left' \in 0 .. ar_site.events
<1>1. ar_site.events \in Nat
  BY DEF ArInv, ArTypes, AccSite
<1> QED BY <1>1 DEF ArInv, ArTypes, ArInput

\* Ramps are in order at the start.
LEMMA ArStart == ArInit => ArInv
<1> SUFFICES ASSUME ArInit
             PROVE  ArInv
  OBVIOUS
<1>1. ar_site \in AccSite /\ ar_site \in AccSites
  BY AccSitesAssumption DEF ArInit
<1>2. ASSUME NEW b \in ArBtss
      PROVE  ar_bts[b] \in BtsOf(ar_site.trx[b]) /\ Ramping(ar_bts[b]) /\ ~Linked(ar_bts[b])
  <2>1. ar_site.trx[b] \in 1 .. 2 /\ 1 \in 1 .. ar_site.trx[b]
    BY <1>1, SomeTrx
  <2>2. ar_bts[b] = FreshBts(ar_site.trx[b])
    BY DEF ArInit
  <2>3. FreshTrx \in Trx /\ FreshTrx.rsl = FALSE
    BY DEF FreshTrx, Trx, Adm, Oper
  <2>4. ar_site.step \in 1 .. 10 /\ ar_site.perm \in SUBSET Accs
    BY <1>1 DEF AccSite
  <2>5. ar_bts[b] \in BtsOf(ar_site.trx[b])
    BY <2>2, <2>3, <2>4 DEF FreshBts, BtsOf
  <2>6. ar_bts[b].trx[1] = FreshTrx /\ ar_bts[b].enabled = TRUE /\ ar_bts[b].timer = FALSE /\ ar_bts[b].barred = {}
    BY <2>1, <2>2 DEF FreshBts
  <2> QED BY <2>3, <2>5, <2>6 DEF Ramping, Linked
<1>3. ar_left \in 0 .. ar_site.events
  BY <1>1 DEF ArInit, AccSite
<1>4. ArTypes
  BY <1>1, <1>2, <1>3 DEF ArInit, ArTypes
<1> QED BY <1>2, <1>4 DEF ArInv

\* A change of the NM state of a TRX, as every BTS sees it.
LEMMA SignalKeepsInv ==
    ASSUME ArInv, ArInput, ar_site' = ar_site, NEW b \in ArBtss, NEW t \in DOMAIN ar_bts[b].trx,
           NEW nm, NEW after, after.adm \in Adm, after.oper \in Oper, NmSignal(b, t, nm, after),
           Alone /\ ar_bts[b].trx[t].rsl /\ after.adm = "UNLOCKED" /\ after.oper = "ENABLED" =>
              \/ Triggers(ar_bts[b].trx[t], nm)
              \/ Linked(ar_bts[b]) /\ ~Aborts(ar_bts[b].trx[t], nm)
    PROVE  ArInv'
<1> DEFINE trx == ar_bts[b].trx[t]
           seen == [c \in ArBtss |-> acc_ramp_nm_sig_cb(ar_bts[c], t, trx, nm)]
<1>1. ArBtss' = ArBtss /\ Frozen' = Frozen /\ Alone' = Alone
  BY DEF ArBtss, Frozen, Alone
<1>2. ASSUME NEW c \in ArBtss
      PROVE  /\ ar_site.trx[c] \in 1 .. 2 /\ 1 \in 1 .. ar_site.trx[c]
             /\ ar_bts[c] \in BtsOf(ar_site.trx[c]) /\ seen[c] \in BtsOf(ar_site.trx[c])
             /\ SameConfig(ar_bts[c], seen[c])
             /\ Ramping(ar_bts[c]) => Ramping(seen[c])
             /\ Ramping(ar_bts[c]) /\ t = 1 /\ trx.rsl /\ Triggers(trx, nm) /\ ar_bts[c].trx[1].rsl => Broadcasts(seen[c])
             /\ ~Triggers(trx, nm) /\ ~Aborts(trx, nm) => seen[c] = ar_bts[c]
  <2>1. ar_bts[c] \in BtsOf(ar_site.trx[c]) /\ ar_site.trx[c] \in 1 .. 2 /\ 1 \in 1 .. ar_site.trx[c]
    BY SomeTrx DEF ArInv, ArTypes
  <2> HIDE DEF trx
  <2>2. seen[c] = acc_ramp_nm_sig_cb(ar_bts[c], t, trx, nm)
    OBVIOUS
  <2> HIDE DEF seen
  <2> QED BY <2>1, <2>2, SignalDoes
<1>3. ar_bts' = [seen EXCEPT ![b].trx[t].adm = after.adm, ![b].trx[t].oper = after.oper]
  BY DEF NmSignal
<1> HIDE DEF seen
<1>4. seen = [c \in ArBtss |-> seen[c]] /\ t \in 1 .. ar_site.trx[b] /\ DOMAIN seen[b].trx = 1 .. ar_site.trx[b]
  BY <1>2 DEF seen, BtsOf
<1> DEFINE old == seen[b]
           moved == [old.trx[t] EXCEPT !.adm = after.adm, !.oper = after.oper]
           v == ar_bts'[b]
<1>5. ar_bts' = [c \in ArBtss |-> ar_bts'[c]] /\ \A c \in ArBtss : c # b => ar_bts'[c] = seen[c]
  BY <1>3, <1>4
<1>6. v = [old EXCEPT !.trx = [old.trx EXCEPT ![t] = moved]]
  BY <1>2, <1>3, <1>4 DEF BtsOf
<1>7. old \in BtsOf(ar_site.trx[b]) /\ old.trx[t] \in Trx /\ old.trx = ar_bts[b].trx
  BY <1>2, <1>4 DEF BtsOf, SameConfig
<1> HIDE DEF old
<1>8. moved \in Trx /\ moved.rsl = old.trx[t].rsl /\ moved.adm = after.adm /\ moved.oper = after.oper
  BY <1>7 DEF Trx
<1> HIDE DEF moved
<1>9. /\ v \in BtsOf(ar_site.trx[b]) /\ v.trx[t] = moved /\ v.trx[1].rsl = old.trx[1].rsl
      /\ v.enabled = old.enabled /\ v.timer = old.timer /\ v.barred = old.barred /\ v.perm = old.perm /\ v.air = old.air
  <2> DEFINE trxs == [old.trx EXCEPT ![t] = moved]
  <2>1. old.trx \in [1 .. ar_site.trx[b] -> Trx] /\ 1 \in 1 .. ar_site.trx[b]
    BY <1>2, <1>7 DEF BtsOf
  <2>2. trxs \in [1 .. ar_site.trx[b] -> Trx] /\ trxs[t] = moved
    BY <1>4, <1>8, <2>1
  <2>3. trxs[1].rsl = old.trx[1].rsl
    BY <1>4, <1>8, <2>1
  <2> HIDE DEF trxs
  <2>4. v = [old EXCEPT !.trx = trxs]
    BY <1>6 DEF trxs
  <2> HIDE DEF v
  <2> QED BY <1>7, <2>2, <2>3, <2>4 DEF BtsOf
<1> HIDE DEF v
<1>10. (Ramping(old) => Ramping(v)) /\ (Broadcasts(old) => Broadcasts(v))
  BY <1>9 DEF Ramping, Broadcasts
<1>11. ArTypes'
  <2>1. ar_left' \in 0 .. ar_site'.events
    BY InputCounted
  <2> QED BY <1>1, <1>2, <1>5, <1>9, <2>1 DEF ArInv, ArTypes, v
<1>12. (Frozen => \A c \in ArBtss : Ramping(ar_bts[c]))'
  BY <1>1, <1>2, <1>5, <1>10 DEF ArInv, v, old
<1>13. ASSUME Alone, NEW c \in ArBtss, Linked(ar_bts'[c])
       PROVE  Broadcasts(ar_bts'[c])
  <2>1. c = b /\ t = 1 /\ Frozen
    <3>1. Len(ar_site.trx) = 1 /\ ar_site.trx[1] = 1
      BY <1>13 DEF Alone
    <3>2. c = 1 /\ b = 1
      BY <3>1 DEF ArBtss
    <3> QED BY <1>4, <1>13, <3>1, <3>2 DEF Frozen, Alone
  <2>2. Linked(v) /\ trx.rsl /\ after.adm = "UNLOCKED" /\ after.oper = "ENABLED"
    BY <1>7, <1>8, <1>9, <1>13, <2>1 DEF Linked, v
  <2>3. CASE Triggers(trx, nm)
    <3>1. Broadcasts(old)
      BY <1>2, <2>1, <2>2, <2>3 DEF ArInv, old
    <3> QED BY <1>10, <2>1, <3>1 DEF v
  <2>4. CASE ~Triggers(trx, nm)
    <3>1. Linked(ar_bts[b]) /\ ~Aborts(trx, nm)
      BY <1>13, <2>2, <2>4
    <3>2. old = ar_bts[b]
      BY <1>2, <2>4, <3>1 DEF old
    <3>3. Broadcasts(ar_bts[b])
      BY <1>13, <3>1 DEF ArInv
    <3> QED BY <1>10, <2>1, <3>2, <3>3 DEF v
  <2> QED BY <2>3, <2>4
<1> QED BY <1>1, <1>11, <1>12, <1>13 DEF ArInv

-----------------------------------------------------------------------------
(* The steps                                                               *)

\* What is known of a BTS and of one of its TRXs.
LEMMA TrxTypes ==
    ASSUME ArInv, NEW b \in ArBtss, NEW t \in DOMAIN ar_bts[b].trx
    PROVE  /\ ar_bts[b] \in BtsOf(ar_site.trx[b]) /\ ar_bts[b].trx[t] \in Trx
           /\ ar_site.trx[b] \in 1 .. 2 /\ 1 \in 1 .. ar_site.trx[b] /\ t \in 1 .. ar_site.trx[b]
           /\ Alone => b = 1 /\ t = 1 /\ Frozen /\ ~ar_site.ipa /\ ~ar_site.adm
<1>1. /\ ar_bts[b] \in BtsOf(ar_site.trx[b]) /\ ar_site.trx[b] \in 1 .. 2 /\ 1 \in 1 .. ar_site.trx[b]
  BY SomeTrx DEF ArInv, ArTypes
<1>2. t \in 1 .. ar_site.trx[b] /\ ar_bts[b].trx[t] \in Trx
  BY <1>1 DEF BtsOf
<1>3. ASSUME Alone
      PROVE  b = 1 /\ t = 1 /\ Frozen /\ ~ar_site.ipa /\ ~ar_site.adm
  <2>1. Len(ar_site.trx) = 1 /\ ar_site.trx[1] = 1
    BY <1>3 DEF Alone
  <2>2. b = 1
    BY <2>1 DEF ArBtss
  <2> QED BY <1>2, <1>3, <2>1, <2>2 DEF Frozen, Alone
<1> QED BY <1>1, <1>2, <1>3

\* update_admstate()
LEMMA AdmAckKeepsInv ==
    ASSUME ArInv, NEW b \in ArBtss, NEW t \in DOMAIN ar_bts[b].trx, NEW adm \in Adm \ {"NULL"}, ArAdmAck(b, t, adm)
    PROVE  ArInv'
<1> DEFINE trx == ar_bts[b].trx[t]
           new == [trx EXCEPT !.adm = adm]
<1>1. trx \in Trx /\ (Alone => t = 1 /\ ~ar_site.ipa)
  BY TrxTypes
<1>2. ArInput /\ ar_site' = ar_site /\ NmSignal(b, t, new, new)
  BY DEF ArAdmAck
<1>3. (Alone => trx_is_usable(trx)) /\ (t = 1 /\ trx.rsl /\ trx.adm = "UNLOCKED" /\ trx.oper = "ENABLED" => Linked(ar_bts[b]))
  BY <1>1 DEF trx_is_usable, Linked
<1> HIDE DEF trx
<1>4. new.adm = adm /\ new.oper = trx.oper /\ new.adm \in Adm /\ new.oper \in Oper
  BY <1>1 DEF Trx
<1> HIDE DEF new
<1>5. Alone /\ trx.rsl /\ new.adm = "UNLOCKED" /\ new.oper = "ENABLED" =>
         Triggers(trx, new) \/ (Linked(ar_bts[b]) /\ ~Aborts(trx, new))
  BY <1>1, <1>3, <1>4 DEF Triggers, Aborts
<1> QED BY <1>2, <1>4, <1>5, SignalKeepsInv DEF trx

\* abis_nm_rx_statechg_rep() for a radio carrier
LEMMA ReportKeepsInv ==
    ASSUME ArInv, NEW b \in ArBtss, NEW t \in DOMAIN ar_bts[b].trx, NEW adm \in Adm, NEW oper \in Oper \ {"NULL"},
           ArReport(b, t, adm, oper)
    PROVE  ArInv'
<1> DEFINE trx == ar_bts[b].trx[t]
           new == [trx EXCEPT !.adm = adm, !.oper = oper]
           kept == [new EXCEPT !.adm = IF trx.adm = "NULL" THEN adm ELSE trx.adm]
<1>1. trx \in Trx /\ (Alone => t = 1 /\ ~ar_site.ipa /\ ~ar_site.adm)
  BY TrxTypes
<1>2. /\ ArInput /\ ar_site' = ar_site /\ NmSignal(b, t, new, kept)
      /\ ar_site.adm \/ trx.adm \in {"NULL", adm}
  BY DEF ArReport
<1>3. (Alone => trx_is_usable(trx)) /\ (t = 1 /\ trx.rsl /\ trx.adm = "UNLOCKED" /\ trx.oper = "ENABLED" => Linked(ar_bts[b]))
  BY <1>1 DEF trx_is_usable, Linked
<1> HIDE DEF trx
<1>4. /\ new.adm = adm /\ new.oper = oper /\ kept.oper = oper
      /\ kept.adm = IF trx.adm = "NULL" THEN adm ELSE trx.adm
  BY <1>1 DEF Trx
<1> HIDE DEF new, kept
<1>5. kept.adm \in Adm /\ kept.oper \in Oper
  BY <1>1, <1>4 DEF Trx
<1>6. Alone /\ trx.rsl /\ kept.adm = "UNLOCKED" /\ kept.oper = "ENABLED" =>
         Triggers(trx, new) \/ (Linked(ar_bts[b]) /\ ~Aborts(trx, new))
  BY <1>1, <1>2, <1>3, <1>4 DEF Triggers, Aborts
<1> QED BY <1>2, <1>5, <1>6, SignalKeepsInv DEF trx

\* abis_nm_rx_statechg_rep() for a baseband transceiver
LEMMA TranscReportKeepsInv ==
    ASSUME ArInv, NEW b \in ArBtss, NEW t \in DOMAIN ar_bts[b].trx, ArTranscReport(b, t)
    PROVE  ArInv'
<1> DEFINE bts == ar_bts[b]
           trxs == [bts.trx EXCEPT ![t] = [bts.trx[t] EXCEPT !.bb = ~@]]
           v == [bts EXCEPT !.trx = trxs]
<1>1. /\ bts \in BtsOf(ar_site.trx[b]) /\ bts.trx[t] \in Trx /\ b \in DOMAIN ar_bts
      /\ 1 \in 1 .. ar_site.trx[b] /\ t \in 1 .. ar_site.trx[b] /\ (Alone => ~ar_site.ipa)
  BY TrxTypes DEF ArInv, ArTypes
<1>2. ArInput /\ ar_site' = ar_site /\ ar_site.ipa /\ ar_bts' = [ar_bts EXCEPT ![b] = v]
  BY <1>1 DEF ArTranscReport
<1>3. Frozen => Ramping(bts)
  BY DEF ArInv
<1> HIDE DEF bts
<1>4. bts.trx \in [1 .. ar_site.trx[b] -> Trx]
  BY <1>1 DEF BtsOf
<1>5. trxs \in [1 .. ar_site.trx[b] -> Trx] /\ trxs[1].rsl = bts.trx[1].rsl
  BY <1>1, <1>4 DEF Trx
<1> HIDE DEF trxs
<1>6. /\ v \in BtsOf(ar_site.trx[b]) /\ v.trx = trxs
      /\ v.enabled = bts.enabled /\ v.timer = bts.timer /\ v.barred = bts.barred /\ v.perm = bts.perm /\ v.air = bts.air
  BY <1>1, <1>5 DEF BtsOf
<1> HIDE DEF v
<1>7. Frozen => Ramping(v)
  BY <1>3, <1>5, <1>6 DEF Ramping, Broadcasts
<1> QED BY <1>1, <1>2, <1>6, <1>7, InputCounted, OneBtsChanges

\* inp_sig_cb(), S_L_INP_TEI_UP
LEMMA RslUpKeepsInv ==
    ASSUME ArInv, NEW b \in ArBtss, NEW t \in DOMAIN ar_bts[b].trx, ArRslUp(b, t)
    PROVE  ArInv'
<1> DEFINE bts == ar_bts[b]
           n == ar_site.trx[b]
           trxs == [bts.trx EXCEPT ![t].rsl = TRUE]
           linked == [bts EXCEPT !.trx[t].rsl = TRUE]
           ramped == IF trx_is_usable(bts.trx[t]) /\ bts.trx[t].adm = "UNLOCKED" THEN acc_ramp_trigger(linked) ELSE linked
           v == IF t = 1 THEN gsm_bts_set_system_infos(ramped) ELSE ramped
<1>1. /\ bts \in BtsOf(n) /\ bts.trx[t] \in Trx /\ n \in 1 .. 2 /\ 1 \in 1 .. n /\ t \in 1 .. n
      /\ Alone => t = 1 /\ Frozen
  BY TrxTypes
<1>2. ArInput /\ ar_site' = ar_site /\ ar_bts' = [ar_bts EXCEPT ![b] = v]
  BY DEF ArRslUp
<1>3. Frozen => Ramping(bts)
  BY DEF ArInv
<1> HIDE DEF bts, n
<1>4. trxs \in [1 .. n -> Trx] /\ (t # 1 => trxs[1] = bts.trx[1]) /\ trxs[t].rsl = TRUE
  BY <1>1 DEF BtsOf, Trx
<1>5. linked = [bts EXCEPT !.trx = trxs]
  BY <1>1 DEF BtsOf
<1> HIDE DEF trxs
<1>6. /\ linked \in BtsOf(n) /\ linked.trx = trxs
      /\ linked.enabled = bts.enabled /\ linked.timer = bts.timer /\ linked.barred = bts.barred
      /\ linked.perm = bts.perm /\ linked.air = bts.air
  BY <1>1, <1>4, <1>5 DEF BtsOf
<1> HIDE DEF linked
<1>7. ramped \in BtsOf(n) /\ SameConfig(linked, ramped)
  BY <1>1, <1>6, TriggerDoes DEF SameConfig
<1> DEFINE Quiet(x) == (~x.enabled => ~x.timer) /\ (~x.timer => x.barred \subseteq x.perm)
<1>8. Frozen => Quiet(ramped)
  <2>1. Frozen => Quiet(linked)
    BY <1>3, <1>6 DEF Ramping
  <2>2. CASE ramped = linked
    BY <2>1, <2>2
  <2>3. CASE ramped = acc_ramp_trigger(linked)
    <3> HIDE DEF ramped
    <3>1. /\ linked.enabled => Ramping(ramped)
          /\ ~linked.enabled => ramped.timer = FALSE /\ ramped.barred = linked.barred \cap linked.perm
      BY <1>1, <1>6, <2>3, TriggerDoes
    <3> QED BY <1>6, <1>7, <3>1 DEF Ramping, SameConfig, BtsOf
  <2> QED BY <2>2, <2>3
<1>9. CASE t = 1
  <2>1. v = gsm_bts_set_system_infos(ramped)
    BY <1>9
  <2> HIDE DEF ramped, v
  <2>2. /\ v \in BtsOf(n) /\ SameConfig(ramped, v) /\ v.timer = ramped.timer /\ v.barred = ramped.barred
        /\ ramped.trx[1].rsl => v.air = ramped.perm \cup (IF ramped.enabled THEN ramped.barred ELSE {})
    BY <1>1, <1>7, <2>1, SystemInfos
  <2>3. ramped.trx[1].rsl
    BY <1>4, <1>6, <1>7, <1>9 DEF SameConfig
  <2>4. Broadcasts(v) /\ (~v.enabled => v.air \subseteq v.perm)
    BY <2>2, <2>3 DEF Broadcasts, SameConfig
  <2>5. Frozen => Ramping(v)
    BY <1>8, <2>2, <2>4 DEF Ramping, SameConfig
  <2> QED BY <1>2, <2>2, <2>4, <2>5, InputCounted, OneBtsChanges DEF n
<1>10. CASE t # 1
  <2>1. v = ramped /\ (ramped = linked \/ ramped = acc_ramp_trigger(linked))
    BY <1>10
  <2>2. Frozen => Ramping(linked)
    BY <1>3, <1>4, <1>6, <1>10 DEF Ramping, Broadcasts
  <2> HIDE DEF ramped, v
  <2>3. Frozen => Ramping(v)
    BY <1>1, <1>6, <2>1, <2>2, TriggerDoes
  <2> QED BY <1>1, <1>2, <1>7, <1>10, <2>1, <2>3, InputCounted, OneBtsChanges DEF n
<1> QED BY <1>9, <1>10

\* inp_sig_cb(), S_L_INP_TEI_DN
LEMMA RslDownKeepsInv ==
    ASSUME ArInv, NEW b \in ArBtss, NEW t \in DOMAIN ar_bts[b].trx, ArRslDown(b, t)
    PROVE  ArInv'
<1> DEFINE n == ar_site.trx[b]
           bts == acc_ramp_abort(ar_bts[b])
           trxs == [u \in DOMAIN bts.trx |->
                       [bts.trx[u] EXCEPT !.oper = "NULL", !.bb = FALSE, !.rsl = IF u = t THEN FALSE ELSE @]]
           v == [bts EXCEPT !.trx = trxs, !.air = IF t = 1 THEN Accs ELSE @]
<1>1. /\ ar_bts[b] \in BtsOf(n) /\ n \in 1 .. 2 /\ 1 \in 1 .. n /\ t \in 1 .. n
      /\ Alone => t = 1 /\ Frozen
  BY TrxTypes
<1>2. ArInput /\ ar_site' = ar_site /\ ar_bts' = [ar_bts EXCEPT ![b] = v]
  BY DEF ArRslDown
<1>3. Frozen => Ramping(ar_bts[b])
  BY DEF ArInv
<1>4. bts \in BtsOf(n) /\ bts.timer = FALSE /\ (Frozen => Ramping(bts))
  BY <1>1, <1>3, AbortDoes
<1> HIDE DEF bts, n
<1>5. bts.trx \in [1 .. n -> Trx]
  BY <1>4 DEF BtsOf
<1>6. /\ trxs \in [1 .. n -> Trx] /\ trxs[1].rsl = IF t = 1 THEN FALSE ELSE bts.trx[1].rsl
  BY <1>1, <1>5 DEF Trx, Oper
<1> HIDE DEF trxs
<1>7. /\ v \in BtsOf(n) /\ v.trx = trxs /\ v.air = IF t = 1 THEN Accs ELSE bts.air
      /\ v.enabled = bts.enabled /\ v.timer = bts.timer /\ v.barred = bts.barred /\ v.perm = bts.perm
  BY <1>4, <1>6 DEF BtsOf
<1> HIDE DEF v
<1>8. Frozen => Ramping(v)
  BY <1>4, <1>6, <1>7 DEF Ramping, Broadcasts
<1>9. Alone => ~Linked(v)
  BY <1>1, <1>6, <1>7 DEF Linked
<1> QED BY <1>2, <1>7, <1>8, <1>9, InputCounted, OneBtsChanges DEF n

\* The step timer
LEMMA StepKeepsInv ==
    ASSUME ArInv, NEW b \in ArBtss, ArStep(b)
    PROVE  ArInv'
<1> DEFINE n == ar_site.trx[b]
           bts == [ar_bts[b] EXCEPT !.timer = FALSE]
           v == do_acc_ramping_step(bts)
<1>1. ar_bts[b] \in BtsOf(n) /\ n \in 1 .. 2
  BY SomeTrx DEF ArInv, ArTypes
<1>2. ar_bts[b].timer /\ ar_site' = ar_site /\ ar_left' = ar_left /\ ar_bts' = [ar_bts EXCEPT ![b] = v]
  BY DEF ArStep
<1>3. bts \in BtsOf(n) /\ bts.timer = FALSE /\ SameConfig(ar_bts[b], bts)
  BY <1>1 DEF BtsOf, SameConfig
<1>4. Frozen => bts.enabled
  BY <1>1, <1>2, <1>3 DEF ArInv, Ramping, SameConfig, BtsOf
<1> HIDE DEF bts
<1>5. /\ v \in BtsOf(n) /\ SameConfig(bts, v) /\ (bts.enabled => Ramping(v))
      /\ bts.enabled /\ bts.trx[1].rsl => v.air = v.perm \cup v.barred
  BY <1>1, <1>3, StepDoes
<1> HIDE DEF v
<1>6. Alone /\ Linked(v) => Broadcasts(v)
  BY <1>4, <1>5 DEF Alone, Frozen, Linked, SameConfig, Broadcasts
<1> QED BY <1>2, <1>4, <1>5, <1>6, OneBtsChanges DEF n, ArInv, ArTypes

\* The VTY commands
LEMMA VtyKeepsInv ==
    ASSUME ArInv, NEW b \in ArBtss,
           \/ cfg_bts_acc_ramping(b)
           \/ cfg_bts_no_acc_ramping(b)
           \/ cfg_bts_acc_ramping_step_size(b)
           \/ cfg_bts_rach_ac_class(b)
    PROVE  ArInv'
<1> DEFINE n == ar_site.trx[b]
           bts == ar_bts[b]
<1>1. bts \in BtsOf(n) /\ n \in 1 .. 2
  BY SomeTrx DEF ArInv, ArTypes
<1>2. (Frozen => Ramping(bts)) /\ (Alone => Frozen) /\ (Alone /\ Linked(bts) => Broadcasts(bts))
  BY DEF ArInv, Alone, Frozen
<1>3. ASSUME NEW cmd, NEW v \in BtsOf(n), Vty(b, cmd, v), Frozen => Ramping(v), Alone /\ Linked(v) => Broadcasts(v)
      PROVE  ArInv'
  <2>1. ArInput /\ ar_site' = ar_site /\ ar_bts' = [ar_bts EXCEPT ![b] = v]
    BY <1>3 DEF Vty
  <2> QED BY <1>3, <2>1, InputCounted, OneBtsChanges
<1>4. CASE cfg_bts_acc_ramping(b)
  <2> DEFINE v == [bts EXCEPT !.enabled = TRUE]
  <2>1. Vty(b, "on", v)
    BY <1>4 DEF cfg_bts_acc_ramping
  <2> HIDE DEF bts
  <2>2. /\ v \in BtsOf(n) /\ v.enabled = TRUE /\ v.timer = bts.timer /\ v.barred = bts.barred /\ v.perm = bts.perm
        /\ v.air = bts.air /\ v.trx = bts.trx
    BY <1>1 DEF BtsOf
  <2> HIDE DEF v
  <2>3. (Frozen => Ramping(v)) /\ (Alone /\ Linked(v) => Broadcasts(v))
    BY <1>2, <2>2 DEF Ramping, Broadcasts, Linked
  <2> QED BY <1>3, <2>1, <2>2, <2>3
<1>5. CASE cfg_bts_no_acc_ramping(b)
  <2> DEFINE off == acc_ramp_abort(bts)
             mid == [off EXCEPT !.enabled = FALSE]
             v == gsm_bts_set_system_infos(mid)
  <2>1. Vty(b, "off", IF bts.enabled THEN v ELSE bts)
    BY <1>5 DEF cfg_bts_no_acc_ramping
  <2> HIDE DEF bts
  <2>2. CASE ~bts.enabled
    BY <1>1, <1>2, <1>3, <2>1, <2>2
  <2>3. CASE bts.enabled
    <3>1. off \in BtsOf(n) /\ off.timer = FALSE /\ off.barred = bts.barred \cap bts.perm /\ SameConfig(bts, off)
      BY <1>1, AbortDoes
    <3> HIDE DEF off
    <3>2. /\ mid \in BtsOf(n) /\ mid.enabled = FALSE /\ mid.timer = FALSE /\ mid.barred = off.barred
          /\ mid.perm = off.perm /\ mid.trx = off.trx
      BY <3>1 DEF BtsOf
    <3> HIDE DEF mid
    <3>3. /\ v \in BtsOf(n) /\ SameConfig(mid, v) /\ v.timer = FALSE /\ v.barred = mid.barred
          /\ mid.trx[1].rsl => v.air = mid.perm
      <4>1. /\ v \in BtsOf(n) /\ SameConfig(mid, v) /\ v.timer = mid.timer /\ v.barred = mid.barred
            /\ mid.trx[1].rsl => v.air = mid.perm \cup (IF mid.enabled THEN mid.barred ELSE {})
        BY <1>1, <3>2, SystemInfos
      <4> QED BY <3>2, <4>1
    <3>4. Vty(b, "off", v)
      BY <2>1, <2>3
    <3> HIDE DEF v
    <3>5. Ramping(v) /\ (Linked(v) => Broadcasts(v))
      BY <3>1, <3>2, <3>3 DEF Ramping, Broadcasts, Linked, SameConfig
    <3> QED BY <1>3, <3>3, <3>4, <3>5
  <2> QED BY <1>1, <2>2, <2>3 DEF BtsOf
<1>6. CASE cfg_bts_acc_ramping_step_size(b)
  <2>1. PICK k \in {1, 4, StepSizeMax} : Vty(b, "step", [bts EXCEPT !.step = k])
    BY <1>6 DEF cfg_bts_acc_ramping_step_size
  <2> DEFINE v == [bts EXCEPT !.step = k]
  <2> HIDE DEF bts
  <2>2. /\ v \in BtsOf(n) /\ v.enabled = bts.enabled /\ v.timer = bts.timer /\ v.barred = bts.barred /\ v.perm = bts.perm
        /\ v.air = bts.air /\ v.trx = bts.trx
    BY <1>1 DEF BtsOf, StepSizeMax
  <2>3. Vty(b, "step", v)
    BY <2>1
  <2> HIDE DEF v
  <2>4. (Frozen => Ramping(v)) /\ (Alone /\ Linked(v) => Broadcasts(v))
    BY <1>2, <2>2 DEF Ramping, Broadcasts, Linked
  <2> QED BY <1>3, <2>2, <2>3, <2>4
<1>7. CASE cfg_bts_rach_ac_class(b)
  <2>1. PICK a \in {2}, allowed \in BOOLEAN :
           Vty(b, "class", [bts EXCEPT !.perm = IF allowed THEN @ \ {a} ELSE @ \cup {a}])
    BY <1>7 DEF cfg_bts_rach_ac_class
  <2> DEFINE v == [bts EXCEPT !.perm = IF allowed THEN @ \ {a} ELSE @ \cup {a}]
  <2>2. ~Frozen
    BY <2>1 DEF Vty, Frozen
  <2> HIDE DEF bts
  <2>3. v \in BtsOf(n)
    BY <1>1 DEF BtsOf, Accs
  <2> QED BY <1>2, <1>3, <2>1, <2>2, <2>3
<1> QED BY <1>4, <1>5, <1>6, <1>7

\* Every step keeps the invariant.
LEMMA ArNextKeepsInv == ArInv /\ [ArNext]_arVars => ArInv'
<1> SUFFICES ASSUME ArInv, [ArNext]_arVars
             PROVE  ArInv'
  OBVIOUS
<1>1. CASE UNCHANGED arVars
  BY <1>1 DEF arVars, ArInv, ArTypes, ArBtss, Frozen, Alone
<1>2. ASSUME NEW b \in ArBtss, NEW t \in DOMAIN ar_bts[b].trx,
             \/ \E adm \in Adm \ {"NULL"} : ArAdmAck(b, t, adm)
             \/ \E adm \in Adm, oper \in Oper \ {"NULL"} : ArReport(b, t, adm, oper)
             \/ ArTranscReport(b, t)
             \/ ArRslUp(b, t)
             \/ ArRslDown(b, t)
      PROVE  ArInv'
  BY <1>2, AdmAckKeepsInv, ReportKeepsInv, TranscReportKeepsInv, RslUpKeepsInv, RslDownKeepsInv
<1>3. ASSUME NEW b \in ArBtss, ArStep(b)
      PROVE  ArInv'
  BY <1>3, StepKeepsInv
<1>4. ASSUME NEW b \in ArBtss,
             \/ cfg_bts_acc_ramping(b)
             \/ cfg_bts_no_acc_ramping(b)
             \/ cfg_bts_acc_ramping_step_size(b)
             \/ cfg_bts_rach_ac_class(b)
      PROVE  ArInv'
  BY <1>4, VtyKeepsInv
<1> QED BY <1>1, <1>2, <1>3, <1>4 DEF ArNext

\* What the invariant means for the cells.
LEMMA ArMeans == ArInv => ArTypeOK /\ AccHalfWay
<1> SUFFICES ASSUME ArInv
             PROVE  ArTypeOK /\ AccHalfWay
  OBVIOUS
<1>1. ArTypeOK
  <2>1. ASSUME NEW b \in ArBtss
        PROVE  /\ ar_bts[b].barred \subseteq Accs /\ ar_bts[b].perm \subseteq Accs /\ ar_bts[b].air \subseteq Accs
               /\ ar_bts[b].timer \in BOOLEAN /\ ar_bts[b].enabled \in BOOLEAN
               /\ ar_bts[b].step \in 1 .. StepSizeMax
               /\ \A t \in DOMAIN ar_bts[b].trx : ar_bts[b].trx[t] \in Trx
    <3>1. ar_bts[b] \in BtsOf(ar_site.trx[b])
      BY DEF ArInv, ArTypes
    <3> QED BY <3>1 DEF BtsOf, StepSizeMax
  <2> QED BY <2>1 DEF ArTypeOK, ArInv, ArTypes, Trx
<1>2. ASSUME NEW b \in ArBtss, Alone, OnAir(b), Closed(b) # {}
      PROVE  ar_bts[b].timer
  <2>1. Linked(ar_bts[b]) /\ Frozen
    BY <1>2 DEF OnAir, Linked, Alone, Frozen
  <2>2. Broadcasts(ar_bts[b]) /\ Ramping(ar_bts[b])
    BY <1>2, <2>1 DEF ArInv
  <2> QED BY <1>2, <2>2 DEF Closed, Broadcasts, Ramping
<1> QED BY <1>1, <1>2 DEF AccHalfWay

\* A step of the timer of a cell: what it newly allows was allowed by the ramp.
LEMMA GradualStep ==
    ASSUME ArInv, [ArNext]_arVars, NEW b \in ArBtss,
           ar_bts[b].timer, ar_left' = ar_left, Frozen, ar_bts[b].step < StepSizeMax
    PROVE  LET let == ar_bts[b].air \ ar_bts'[b].air
           IN  /\ Cardinality(let) <= ar_bts[b].step
               /\ \A a \in let : \A x \in Closed(b)' : a < x
<1> DEFINE let == ar_bts[b].air \ ar_bts'[b].air
           n == ar_site.trx[b]
           bts == [ar_bts[b] EXCEPT !.timer = FALSE]
           v == do_acc_ramping_step(bts)
<1>1. ar_bts[b] \in BtsOf(n) /\ n \in 1 .. 2 /\ ar_left \in Int /\ Ramping(ar_bts[b]) /\ b \in DOMAIN ar_bts
  BY SomeTrx DEF ArInv, ArTypes
<1>2. ar_bts[b].step \in 1 .. 10
  BY <1>1 DEF BtsOf
<1>3. UNCHANGED arVars \/ \E c \in ArBtss : ArStep(c)
  <2>1. ~ArInput
    BY <1>1 DEF ArInput
  <2>2. \A c \in ArBtss : \A t \in DOMAIN ar_bts[c].trx :
           /\ \A adm \in Adm \ {"NULL"} : ~ArAdmAck(c, t, adm)
           /\ \A adm \in Adm, oper \in Oper \ {"NULL"} : ~ArReport(c, t, adm, oper)
           /\ ~ArTranscReport(c, t) /\ ~ArRslUp(c, t) /\ ~ArRslDown(c, t)
    <3>1. \A c, t, adm : ~ArAdmAck(c, t, adm)
      BY <2>1, Zenon DEF ArAdmAck
    <3>2. \A c, t, adm, oper : ~ArReport(c, t, adm, oper)
      BY <2>1, Zenon DEF ArReport
    <3>3. \A c, t : ~ArTranscReport(c, t)
      BY <2>1, Zenon DEF ArTranscReport
    <3>4. \A c, t : ~ArRslUp(c, t)
      BY <2>1, Zenon DEF ArRslUp
    <3>5. \A c, t : ~ArRslDown(c, t)
      BY <2>1, Zenon DEF ArRslDown
    <3> QED BY <3>1, <3>2, <3>3, <3>4, <3>5, Zenon
  <2>3. \A c, cmd, after : ~Vty(c, cmd, after)
    BY <2>1, Zenon DEF Vty
  <2>4. \A c \in ArBtss : /\ ~cfg_bts_acc_ramping(c) /\ ~cfg_bts_no_acc_ramping(c)
                          /\ ~cfg_bts_acc_ramping_step_size(c) /\ ~cfg_bts_rach_ac_class(c)
    BY <2>3, Zenon DEF cfg_bts_acc_ramping, cfg_bts_no_acc_ramping, cfg_bts_acc_ramping_step_size, cfg_bts_rach_ac_class
  <2> QED BY <2>2, <2>4, Zenon DEF ArNext
<1>4. CASE ar_bts'[b].air = ar_bts[b].air
  <2>1. let = {}
    BY <1>4
  <2>2. Cardinality(let) = 0
    BY <2>1, FS_EmptySet
  <2> QED BY <1>2, <2>1, <2>2
<1>5. CASE ArStep(b) /\ ar_bts'[b].air # ar_bts[b].air
  <2>1. ar_bts'[b] = v
    BY <1>1, <1>5 DEF ArStep
  <2>2. bts \in BtsOf(n) /\ bts.timer = FALSE /\ SameConfig(ar_bts[b], bts) /\ bts.barred = ar_bts[b].barred /\ bts.air = ar_bts[b].air
    BY <1>1 DEF BtsOf, SameConfig
  <2>3. bts.enabled /\ bts.step # StepSizeMax /\ bts.step \in 1 .. 10 /\ bts.barred \in SUBSET Accs
    BY <1>1, <1>2, <2>2 DEF Ramping, SameConfig, BtsOf, StepSizeMax
  <2> HIDE DEF bts
  <2>4. /\ SameConfig(bts, v) /\ v.barred = bts.barred \ StepAllows(bts)
        /\ bts.trx[1].rsl => v.air = v.perm \cup v.barred
        /\ ~bts.trx[1].rsl => v.air = bts.air
    BY <1>1, <2>2, <2>3, StepDoes
  <2> HIDE DEF v
  <2>5. bts.trx[1].rsl /\ v.air = v.perm \cup v.barred /\ ar_bts[b].air \subseteq bts.perm \cup bts.barred
    BY <1>1, <1>5, <2>1, <2>2, <2>4 DEF Ramping, Broadcasts, SameConfig
  <2>6. let \subseteq StepAllows(bts)
    BY <2>1, <2>4, <2>5 DEF SameConfig
  <2>7. Cardinality(let) <= ar_bts[b].step
    <3> HIDE DEF let
    <3>1. StepAllows(bts) \in SUBSET Accs
      BY <2>3 DEF StepAllows
    <3>2. IsFiniteSet(StepAllows(bts)) /\ Cardinality(StepAllows(bts)) \in Nat /\ Cardinality(let) \in Nat
      BY <2>6, <3>1, ClassesFinite
    <3>3. Cardinality(let) <= Cardinality(StepAllows(bts))
      BY <2>6, <3>2, FS_Subset
    <3>4. Cardinality(StepAllows(bts)) <= bts.step
      BY <2>3, StepAllowsFew
    <3>5. bts.step = ar_bts[b].step
      BY <2>2 DEF SameConfig
    <3> QED BY <2>3, <3>2, <3>3, <3>4, <3>5
  <2>8. ASSUME NEW a \in let, NEW x \in Closed(b)'
        PROVE  a < x
    <3>1. x \in bts.barred \ StepAllows(bts) /\ x \notin bts.perm
      BY <2>1, <2>4, <2>5 DEF Closed, SameConfig
    <3> HIDE DEF let
    <3> QED BY <2>3, <2>6, <3>1, StepAllowsLowest
  <2> QED BY <2>7, <2>8
<1>6. ASSUME NEW c \in ArBtss, ArStep(c), c # b
      PROVE  ar_bts'[b] = ar_bts[b]
  BY <1>1, <1>6 DEF ArStep
<1> QED BY <1>3, <1>4, <1>5, <1>6 DEF arVars

\* For any number of BTSs, any step size, any classes barred for good and any number of events: no ramp
\* of a single E1 cell is left half way, and every step of a ramp lets at most step_size classes onto the
\* cell, none before a lower one (acc_ramp_trigger(), acc_ramp_abort(), do_acc_ramping_step()).
THEOREM RampsSafely == ArSpec => AccSafe
<1>1. (ArInv => ArTypeOK /\ AccHalfWay)'
  BY ArMeans, PTL
<1>2. ArInv /\ [ArNext]_arVars => [ArTypeOK' /\ AccHalfWay' /\ AccGradual]_arVars
  <2> SUFFICES ASSUME ArInv, [ArNext]_arVars
               PROVE  ArTypeOK' /\ AccHalfWay' /\ AccGradual
    OBVIOUS
  <2>1. ArInv'
    BY ArNextKeepsInv
  <2>2. ArTypeOK' /\ AccHalfWay'
    BY <1>1, <2>1
  <2>3. AccGradual
    BY GradualStep DEF AccGradual, Frozen
  <2> QED BY <2>2, <2>3
<1> QED BY <1>2, ArStart, ArNextKeepsInv, PTL DEF ArSpec, AccSafe

=============================================================================
