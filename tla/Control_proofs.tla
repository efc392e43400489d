--------------------------- MODULE Control_proofs ---------------------------
(***************************************************************************)
(* RF control and the control interface, for any number of BTSs and any    *)
(* number of events: the timers fit the policy, excluded BTSs are left     *)
(* alone, clients know of a connected BTS, and the PLMN is applied.        *)
(***************************************************************************)
EXTENDS Control, SequenceTheorems, TLAPS

AdmStates == {"LOCKED", "UNLOCKED"}

\* A BTS as RF control and the control interface see it
BtsState == [oml : BOOLEAN, rsl : BOOLEAN, adm : AdmStates, oper : {"NULL", "DISABLED", "ENABLED"},
             radio : BOOLEAN, req : Seq(AdmStates), plmn : {"none", "A", "B"}]

\* What is true of a BTS: one that is excluded is unlocked and is asked nothing else; one that was
\* configured serves the PLMN, unless that may be changed without being applied.
Fits(b, bts, plmn) ==
    /\ bts \in BtsState
    /\ ct_site.bts[b].excl => bts.adm = "UNLOCKED" /\ bts.req \in Seq({"UNLOCKED"})
    /\ "apply" \notin ct_site.cmds /\ ct_site.bts[b].ipa /\ bts.oml => bts.plmn = plmn

\* The inductive invariant
CtInv ==
    /\ ct_site \in CtSite
    /\ ct_rf \in [policy : {"ON", "OFF", "GRACE"}, last : {"none", "d", "1", "0"}, timers : SUBSET RfTimers]
    /\ RfTimersMatch
    /\ ct_bts = [b \in CtBtss |-> ct_bts[b]]
    /\ \A b \in CtBtss : Fits(b, ct_bts[b], ct_net)
    /\ ct_net \in {"A", "B"}
    /\ ct_trap \in [status : BOOLEAN, loc : Fixes] /\ ct_trap.status = ct_status
    /\ (\E b \in CtBtss : ct_bts[b].oml) => ct_status

\* Commands, links and reports do not change what the operators of the model depend on.
LEMMA CtSame ==
    ASSUME ct_site' = ct_site
    PROVE  CtBtss' = CtBtss /\ \A b, bts, plmn : Fits(b, bts, plmn)' <=> Fits(b, bts, plmn)
BY DEF CtBtss, Fits

\* The state of the BTSs is in order at the start.
LEMMA CtStart == CtInit => CtInv
<1> SUFFICES ASSUME CtInit
             PROVE  CtInv
  OBVIOUS
<1>1. ct_site \in CtSite
  BY CtSitesAssumption DEF CtInit
<1>2. CtFresh \in BtsState /\ CtFresh.adm = "UNLOCKED" /\ CtFresh.req = <<>> /\ CtFresh.oml = FALSE
  BY DEF CtFresh, BtsState, AdmStates
<1>3. \A b \in CtBtss : ct_bts[b] = CtFresh
  BY DEF CtInit
<1>4. \A b \in CtBtss : Fits(b, ct_bts[b], ct_net)
  <2>1. <<>> \in Seq({"UNLOCKED"})
    OBVIOUS
  <2>2. ~CtFresh.oml /\ CtFresh.req \in Seq({"UNLOCKED"})
    BY <1>2, <2>1
  <2> QED BY <1>2, <1>3, <2>2, Zenon DEF Fits
<1>5. ct_trap \in [status : BOOLEAN, loc : Fixes] /\ ct_trap.status = ct_status
  BY DEF CtInit, Fixes
<1>6. ct_rf \in [policy : {"ON", "OFF", "GRACE"}, last : {"none", "d", "1", "0"}, timers : SUBSET RfTimers] /\ RfTimersMatch
  BY DEF CtInit, RfTimersMatch
<1> QED BY <1>1, <1>2, <1>3, <1>4, <1>5, <1>6 DEF CtInit, CtInv

-----------------------------------------------------------------------------
(* The RF policy                                                           *)

\* gsm_trx_lock_rf() on the BTSs that are not excluded
LEMMA LockKeepsFit ==
    ASSUME CtInv, NEW new \in AdmStates, NEW b \in CtBtss
    PROVE  Fits(b, lock_each_trx(new)[b], ct_net) /\ lock_each_trx(new)[b].oml = ct_bts[b].oml
<1> DEFINE bts == ct_bts[b]
           v == lock_each_trx(new)[b]
<1>1. Fits(b, bts, ct_net) /\ bts \in BtsState
  BY DEF CtInv, Fits
<1>2. CASE ct_site.bts[b].excl
  BY <1>1, <1>2 DEF lock_each_trx
<1>3. CASE ~ct_site.bts[b].excl /\ bts.oml
  <2>1. v = [bts EXCEPT !.req = Append(bts.req, new)]
    BY <1>1, <1>3 DEF lock_each_trx, gsm_trx_lock_rf, BtsState
  <2>2. Append(bts.req, new) \in Seq(AdmStates)
    BY <1>1, AppendProperties DEF BtsState
  <2> HIDE DEF bts, v
  <2>3. v \in BtsState /\ v.oml = bts.oml /\ v.plmn = bts.plmn
    BY <1>1, <2>1, <2>2 DEF BtsState
  <2> QED BY <1>1, <1>3, <2>3 DEF Fits, v, bts
<1>4. CASE ~ct_site.bts[b].excl /\ ~bts.oml
  <2>1. v = [bts EXCEPT !.adm = new]
    BY <1>1, <1>4 DEF lock_each_trx, gsm_trx_lock_rf
  <2> HIDE DEF bts, v
  <2>2. v \in BtsState /\ v.oml = bts.oml /\ v.plmn = bts.plmn
    BY <1>1, <2>1 DEF BtsState
  <2> QED BY <1>1, <1>4, <2>2 DEF Fits, v, bts
<1> QED BY <1>2, <1>3, <1>4

\* The invariant after a step of RF control alone
LEMMA RfKeepsInv ==
    ASSUME CtInv, UNCHANGED <<ct_site, ct_net, ct_status, ct_trap>>,
           ct_bts' = ct_bts \/ \E new \in AdmStates : ct_bts' = lock_each_trx(new),
           ct_rf' \in [policy : {"ON", "OFF", "GRACE"}, last : {"none", "d", "1", "0"}, timers : SUBSET RfTimers],
           RfTimersMatch'
    PROVE  CtInv'
<1>1. CtBtss' = CtBtss /\ \A b, bts, plmn : Fits(b, bts, plmn)' <=> Fits(b, bts, plmn)
  BY CtSame
<1>2. /\ ct_bts' = [b \in CtBtss |-> ct_bts'[b]]
      /\ \A b \in CtBtss : Fits(b, ct_bts'[b], ct_net) /\ ct_bts'[b].oml = ct_bts[b].oml
  <2>1. CASE ct_bts' = ct_bts
    BY <2>1 DEF CtInv
  <2>2. ASSUME NEW new \in AdmStates, ct_bts' = lock_each_trx(new)
        PROVE  /\ ct_bts' = [b \in CtBtss |-> ct_bts'[b]]
               /\ \A b \in CtBtss : Fits(b, ct_bts'[b], ct_net) /\ ct_bts'[b].oml = ct_bts[b].oml
    <3>1. ct_bts' = [b \in CtBtss |-> ct_bts'[b]]
      BY <2>2 DEF lock_each_trx
    <3> QED BY <2>2, <3>1, LockKeepsFit
  <2> QED BY <2>1, <2>2
<1>3. (\A b \in CtBtss : Fits(b, ct_bts[b], ct_net))'
  <2>1. \A b \in CtBtss : Fits(b, ct_bts'[b], ct_net')
    BY <1>2
  <2> QED BY <1>1, <2>1 DEF Fits
<1> QED BY <1>1, <1>2, <1>3 DEF CtInv

\* A command, and each timer that expires, keeps the invariant.
LEMMA ScheduleKeepsInv ==
    ASSUME CtInv, NEW cmd \in {"d", "1", "0"}, osmo_bsc_rf_schedule_lock(cmd),
           UNCHANGED <<ct_site, ct_bts, ct_net, ct_status, ct_trap>>
    PROVE  CtInv'
<1>1. /\ ct_rf' \in [policy : {"ON", "OFF", "GRACE"}, last : {"none", "d", "1", "0"}, timers : SUBSET RfTimers]
      /\ RfTimersMatch'
  BY DEF CtInv, osmo_bsc_rf_schedule_lock, RfTimersMatch, RfTimers
<1> QED BY <1>1, RfKeepsInv

LEMMA TimerKeepsInv ==
    ASSUME CtInv, RfDelay \/ grace_timeout
    PROVE  CtInv'
<1> DEFINE RfType == [policy : {"ON", "OFF", "GRACE"}, last : {"none", "d", "1", "0"}, timers : SUBSET RfTimers]
           Lock == ct_bts' = ct_bts \/ \E new \in AdmStates : ct_bts' = lock_each_trx(new)
<1>1. ct_rf \in RfType /\ RfTimersMatch
  BY DEF CtInv
<1>2. "LOCKED" \in AdmStates /\ "UNLOCKED" \in AdmStates
  BY DEF AdmStates
<1>3. ASSUME NEW timers \in SUBSET RfTimers, switch_rf_off(timers), "grace" \notin timers, "check" \notin timers
      PROVE  ct_rf' \in RfType /\ RfTimersMatch' /\ Lock
  <2>1. ct_rf' \in RfType /\ RfTimersMatch'
    BY <1>1, <1>3 DEF switch_rf_off, RfTimersMatch
  <2> QED BY <2>1, <1>2, <1>3 DEF switch_rf_off
<1>4. CASE grace_timeout
  <2>1. "check" \notin ct_rf.timers /\ ct_rf.timers \ {"grace"} \in SUBSET RfTimers
    BY <1>1, <1>4 DEF grace_timeout, RfTimersMatch
  <2>2. ct_rf' \in RfType /\ RfTimersMatch' /\ Lock
    BY <1>3, <1>4, <2>1 DEF grace_timeout
  <2> QED BY <1>4, <2>2, RfKeepsInv DEF grace_timeout
<1>5. CASE RfDelay
  <2> DEFINE rest == ct_rf.timers \ {"delay"}
  <2>1. rest \in SUBSET RfTimers
    BY <1>1
  <2>2. ASSUME switch_rf_off(rest \ {"check", "grace"})
        PROVE  ct_rf' \in RfType /\ RfTimersMatch' /\ Lock
    BY <1>3, <2>1, <2>2
  <2>3. ASSUME ct_bts' = lock_each_trx("UNLOCKED"),
               ct_rf' = [ct_rf EXCEPT !.policy = "ON", !.timers = (rest \ {"grace"}) \cup {"check"}]
        PROVE  ct_rf' \in RfType /\ RfTimersMatch' /\ Lock
    <3>1. ct_rf' \in RfType /\ RfTimersMatch'
      BY <1>1, <2>1, <2>3 DEF RfTimersMatch, RfTimers
    <3> QED BY <3>1, <1>2, <2>3
  <2>4. ASSUME enter_grace(rest \ {"check"})
        PROVE  ct_rf' \in RfType /\ RfTimersMatch' /\ Lock
    BY <1>1, <2>1, <2>4 DEF enter_grace, RfTimersMatch, RfTimers
  <2>5. ct_rf' \in RfType /\ RfTimersMatch' /\ Lock
    BY <1>5, <2>2, <2>3, <2>4 DEF RfDelay, rf_delay_cmd_cb
  <2> QED BY <1>5, <2>5, RfKeepsInv DEF RfDelay
<1> QED BY <1>4, <1>5

-----------------------------------------------------------------------------
(* Links and carriers                                                      *)

\* The invariant after a step that leaves the RF policy to itself but for timers that end
LEMMA LinksKeepInv ==
    ASSUME CtInv, UNCHANGED ct_site, UNCHANGED ct_rf \/ ct_rf' = [ct_rf EXCEPT !.timers = @ \ {"check"}],
           ct_bts' = [b \in CtBtss |-> ct_bts'[b]],
           \A b \in CtBtss : Fits(b, ct_bts'[b], ct_net'),
           ct_net' \in {"A", "B"},
           ct_trap' \in [status : BOOLEAN, loc : Fixes] /\ ct_trap'.status = ct_status',
           (\E b \in CtBtss : ct_bts'[b].oml) => ct_status'
    PROVE  CtInv'
<1>1. CtBtss' = CtBtss /\ \A b, bts, plmn : Fits(b, bts, plmn)' <=> Fits(b, bts, plmn)
  BY CtSame
<1>2. (\A b \in CtBtss : Fits(b, ct_bts[b], ct_net))'
  BY <1>1 DEF Fits
<1>3. /\ ct_rf' \in [policy : {"ON", "OFF", "GRACE"}, last : {"none", "d", "1", "0"}, timers : SUBSET RfTimers]
      /\ RfTimersMatch'
  BY DEF CtInv, RfTimersMatch
<1> QED BY <1>1, <1>2, <1>3 DEF CtInv

\* bts_connection_status_trap_cb() tells what it finds.
LEMMA TrapTells ==
    ASSUME CtInv, NEW links \in [CtBtss -> BOOLEAN], bts_connection_status_trap_cb(links)
    PROVE  /\ ct_trap' \in [status : BOOLEAN, loc : Fixes] /\ ct_trap'.status = ct_status'
           /\ ct_status' = \E b \in CtBtss : links[b]
<1> DEFINE now == \E b \in CtBtss : links[b]
<1>1. now \in BOOLEAN
  OBVIOUS
<1>2. ct_status' = now /\ ct_trap' = IF now # ct_status THEN [ct_trap EXCEPT !.status = now] ELSE ct_trap
  BY DEF bts_connection_status_trap_cb
<1>3. ct_trap \in [status : BOOLEAN, loc : Fixes] /\ ct_trap.status = ct_status
  BY DEF CtInv
<1> HIDE DEF now
<1>4. ct_trap' \in [status : BOOLEAN, loc : Fixes] /\ ct_trap'.status = now
  BY <1>1, <1>2, <1>3
<1> QED BY <1>2, <1>4 DEF now

\* A step of one BTS that changes no link
LEMMA OneBtsKeepsInv ==
    ASSUME CtInv, NEW b \in CtBtss, NEW bts, ct_bts' = [ct_bts EXCEPT ![b] = bts],
           Fits(b, bts, ct_net), bts.oml = ct_bts[b].oml,
           UNCHANGED <<ct_site, ct_rf, ct_net, ct_status, ct_trap>>
    PROVE  CtInv'
<1>1. ct_bts = [c \in CtBtss |-> ct_bts[c]]
  BY DEF CtInv
<1>2. ct_bts'[b] = bts /\ \A c \in CtBtss \ {b} : ct_bts'[c] = ct_bts[c]
  BY <1>1
<1>3. ct_bts' = [c \in CtBtss |-> ct_bts'[c]]
  BY <1>1
<1>4. \A c \in CtBtss : Fits(c, ct_bts'[c], ct_net') /\ ct_bts'[c].oml = ct_bts[c].oml
  BY <1>2 DEF CtInv
<1>5. ct_net' \in {"A", "B"} /\ ct_trap' \in [status : BOOLEAN, loc : Fixes] /\ ct_trap'.status = ct_status'
  BY DEF CtInv
<1>6. (\E c \in CtBtss : ct_bts'[c].oml) => ct_status'
  BY <1>4 DEF CtInv
<1> QED BY <1>3, <1>4, <1>5, <1>6, LinksKeepInv

\* A BTS whose links are dropped fits, whatever the PLMN.
LEMMA DroppedFits ==
    ASSUME CtInv, NEW b \in CtBtss, NEW plmn
    PROVE  Fits(b, Dropped(ct_bts[b]), plmn) /\ Dropped(ct_bts[b]).oml = FALSE
<1> DEFINE bts == ct_bts[b]
           v == Dropped(bts)
<1>1. bts \in BtsState /\ Fits(b, bts, ct_net)
  BY DEF CtInv, Fits
<1>2. v = [bts EXCEPT !.oml = FALSE, !.rsl = FALSE, !.oper = "NULL", !.radio = FALSE, !.req = <<>>, !.plmn = "none"]
  BY DEF Dropped
<1> DEFINE none == <<>>
<1>3. none \in Seq(AdmStates) /\ none \in Seq({"UNLOCKED"})
  OBVIOUS
<1> HIDE DEF bts, v, none
<1>4. v = [bts EXCEPT !.oml = FALSE, !.rsl = FALSE, !.oper = "NULL", !.radio = FALSE, !.req = none, !.plmn = "none"]
  BY <1>2 DEF none
<1>5. v \in BtsState /\ v.oml = FALSE /\ v.adm = bts.adm /\ v.req = none
  BY <1>1, <1>3, <1>4 DEF BtsState
<1>6. v.req \in Seq({"UNLOCKED"}) /\ ~v.oml
  BY <1>5, <1>3
<1> QED BY <1>1, <1>5, <1>6, Zenon DEF Fits, v, bts

\* Links that are dropped, with the PLMN unchanged or with every BTS dropped that would have to know it
LEMMA DropKeepsInv ==
    ASSUME CtInv, NEW set \in SUBSET CtBtss, DropOml(set), UNCHANGED ct_site,
           UNCHANGED ct_rf \/ ct_rf' = [ct_rf EXCEPT !.timers = @ \ {"check"}],
           ct_net' \in {"A", "B"},
           ct_net' = ct_net \/ \A b \in CtBtss \ set : ~(ct_site.bts[b].ipa /\ ct_bts[b].oml)
    PROVE  CtInv'
<1>1. ct_bts' = [b \in CtBtss |-> IF b \in set THEN Dropped(ct_bts[b]) ELSE ct_bts[b]]
  BY DEF DropOml
<1>2. ct_bts' = [b \in CtBtss |-> ct_bts'[b]]
  BY <1>1
<1>3. \A b \in set : ct_bts'[b] = Dropped(ct_bts[b])
  BY <1>1
<1>4. \A b \in CtBtss \ set : ct_bts'[b] = ct_bts[b]
  BY <1>1
<1>5. ASSUME NEW b \in CtBtss
      PROVE  Fits(b, ct_bts'[b], ct_net')
  <2>1. CASE b \in set
    BY <1>3, <2>1, DroppedFits
  <2>2. CASE b \notin set
    BY <1>4, <2>2 DEF CtInv, Fits
  <2> QED BY <2>1, <2>2
<1>6. \A b \in CtBtss : ct_bts[b].oml \in BOOLEAN
  BY DEF CtInv, Fits, BtsState
<1>7. \A b \in CtBtss : ct_bts'[b].oml => ct_bts[b].oml /\ b \notin set
  BY <1>3, <1>4, DroppedFits
<1> DEFINE links == [b \in CtBtss |-> ct_bts[b].oml /\ Seen(set, b)]
           Told == /\ ct_trap' \in [status : BOOLEAN, loc : Fixes] /\ ct_trap'.status = ct_status'
                   /\ (\E b \in CtBtss : ct_bts'[b].oml) => ct_status'
<1>8. CASE bts_connection_status_trap_cb(links)
  <2>1. \A b \in CtBtss : links[b] = (ct_bts[b].oml /\ Seen(set, b)) /\ (b \notin set => Seen(set, b))
    BY DEF Seen
  <2>2. links \in [CtBtss -> BOOLEAN]
    OBVIOUS
  <2>3. \A b \in CtBtss : ct_bts'[b].oml => links[b]
    BY <1>7, <2>1
  <2>4. Told
    <3> HIDE DEF links
    <3> QED BY <1>8, <2>2, <2>3, TrapTells
  <2> QED BY <1>2, <1>5, <2>4, LinksKeepInv
<1>9. CASE UNCHANGED <<ct_status, ct_trap>>
  <2>1. Told
    BY <1>7, <1>9 DEF CtInv
  <2> QED BY <1>2, <1>5, <2>1, LinksKeepInv
<1> QED BY <1>8, <1>9 DEF DropOml

\* The OML link and the RSL link that come up
LEMMA LinkUpKeepsInv ==
    ASSUME CtInv, NEW b \in CtBtss, CtOmlUp(b) \/ CtRslUp(b)
    PROVE  CtInv'
<1> DEFINE bts == ct_bts[b]
           v == ct_bts'[b]
           up == [OmlLinks EXCEPT ![b] = TRUE]
<1>1. ct_bts = [c \in CtBtss |-> ct_bts[c]] /\ bts \in BtsState /\ Fits(b, bts, ct_net) /\ ct_net \in {"A", "B"}
  BY DEF CtInv, Fits
<1>2. UNCHANGED <<ct_site, ct_rf, ct_net>>
  BY DEF CtOmlUp, CtRslUp
<1>3. ct_bts' = [c \in CtBtss |-> ct_bts'[c]] /\ \A c \in CtBtss \ {b} : ct_bts'[c] = ct_bts[c]
  BY <1>1 DEF CtOmlUp, CtRslUp
<1>4. v \in BtsState /\ v.adm = bts.adm /\ v.req = bts.req /\ v.oml
      /\ (CtOmlUp(b) => v.plmn = ct_net) /\ (CtRslUp(b) => v.plmn = bts.plmn /\ bts.oml)
  <2>1. CASE CtOmlUp(b)
    <3>1. v = [bts EXCEPT !.oml = TRUE, !.plmn = ct_net]
      BY <1>1, <2>1 DEF CtOmlUp
    <3>2. ~CtRslUp(b)
      BY <2>1 DEF CtOmlUp, CtRslUp
    <3> HIDE DEF bts, v
    <3> QED BY <1>1, <3>1, <3>2 DEF BtsState
  <2>2. CASE CtRslUp(b)
    <3>1. v = [bts EXCEPT !.rsl = TRUE] /\ bts.oml
      BY <1>1, <2>2 DEF CtRslUp
    <3>2. ~CtOmlUp(b)
      BY <2>2 DEF CtOmlUp, CtRslUp
    <3> HIDE DEF bts, v
    <3> QED BY <1>1, <3>1, <3>2 DEF BtsState
  <2> QED BY <2>1, <2>2
<1>5. Fits(b, v, ct_net)
  <2> HIDE DEF v, bts
  <2> QED BY <1>1, <1>4 DEF Fits
<1>6. \A c \in CtBtss : Fits(c, ct_bts'[c], ct_net')
  BY <1>2, <1>3, <1>5 DEF CtInv
<1>7. OmlLinks \in [CtBtss -> BOOLEAN] /\ up \in [CtBtss -> BOOLEAN] /\ up[b] /\ OmlLinks[b] = bts.oml
  BY DEF CtInv, Fits, BtsState, OmlLinks
<1>8. /\ ct_trap' \in [status : BOOLEAN, loc : Fixes] /\ ct_trap'.status = ct_status'
      /\ ct_status'
  <2>1. CASE CtOmlUp(b)
    <3>1. bts_connection_status_trap_cb(up)
      BY <2>1 DEF CtOmlUp
    <3> HIDE DEF up
    <3> QED BY <3>1, <1>7, TrapTells
  <2>2. CASE CtRslUp(b)
    <3>1. bts_connection_status_trap_cb(OmlLinks) /\ OmlLinks[b]
      BY <2>2, <1>7 DEF CtRslUp
    <3> QED BY <3>1, <1>7, TrapTells
  <2> QED BY <2>1, <2>2
<1> QED BY <1>1, <1>2, <1>3, <1>6, <1>8, LinksKeepInv

\* The carrier: requests are taken in order, and what is asked for at the start is the state it has.
LEMMA CarrierKeepsInv ==
    ASSUME CtInv, NEW b \in CtBtss, CtCarrier(b) \/ CtTakes(b) \/ CtEnabled(b)
    PROVE  CtInv'
<1> DEFINE bts == ct_bts[b]
           v == ct_bts'[b]
<1>1. ct_bts = [c \in CtBtss |-> ct_bts[c]] /\ bts \in BtsState /\ Fits(b, bts, ct_net)
  BY DEF CtInv, Fits
<1>2. UNCHANGED <<ct_site, ct_rf, ct_net, ct_status, ct_trap>>
  BY DEF CtCarrier, CtTakes, CtEnabled
<1>3. ct_bts' = [ct_bts EXCEPT ![b] = v]
  BY <1>1 DEF CtCarrier, CtTakes, CtEnabled
<1>4. bts.req \in Seq(AdmStates) /\ bts.adm \in AdmStates
  BY <1>1 DEF BtsState
<1>5. CASE CtCarrier(b)
  <2>1. v = [bts EXCEPT !.oper = "DISABLED", !.req = Append(bts.req, bts.adm)]
    BY <1>1, <1>5 DEF CtCarrier
  <2>2. Append(bts.req, bts.adm) \in Seq(AdmStates)
    BY <1>4
  <2>3. bts.adm = "UNLOCKED" /\ bts.req \in Seq({"UNLOCKED"}) => Append(bts.req, bts.adm) \in Seq({"UNLOCKED"})
    OBVIOUS
  <2> HIDE DEF bts, v
  <2>4. v \in BtsState /\ v.adm = bts.adm /\ v.req = Append(bts.req, bts.adm) /\ v.oml = bts.oml /\ v.plmn = bts.plmn
    BY <1>1, <2>1, <2>2 DEF BtsState
  <2>5. Fits(b, v, ct_net)
    BY <1>1, <2>3, <2>4, Zenon DEF Fits
  <2> QED BY <1>2, <1>3, <2>4, <2>5, OneBtsKeepsInv DEF bts
<1>6. CASE CtTakes(b)
  <2> DEFINE on == Head(bts.req) = "UNLOCKED" /\ bts.oper = "ENABLED"
  <2>1. v = [bts EXCEPT !.req = Tail(bts.req), !.adm = Head(bts.req), !.radio = on] /\ bts.req # <<>>
    BY <1>1, <1>6 DEF CtTakes
  <2>2. Tail(bts.req) \in Seq(AdmStates) /\ Head(bts.req) \in AdmStates
    BY <1>4, <2>1, HeadTailProperties
  <2>3. bts.req \in Seq({"UNLOCKED"}) => Tail(bts.req) \in Seq({"UNLOCKED"}) /\ Head(bts.req) = "UNLOCKED"
    BY <2>1, HeadTailProperties
  <2>4. on \in BOOLEAN
    OBVIOUS
  <2> HIDE DEF bts, v, on
  <2>5. v \in BtsState /\ v.adm = Head(bts.req) /\ v.req = Tail(bts.req) /\ v.oml = bts.oml /\ v.plmn = bts.plmn
    BY <1>1, <2>1, <2>2, <2>4 DEF BtsState
  <2>6. Fits(b, v, ct_net)
    BY <1>1, <2>3, <2>5, Zenon DEF Fits
  <2> QED BY <1>2, <1>3, <2>5, <2>6, OneBtsKeepsInv DEF bts
<1>7. CASE CtEnabled(b)
  <2> DEFINE on == bts.adm = "UNLOCKED"
  <2>1. v = [bts EXCEPT !.oper = "ENABLED", !.radio = on]
    BY <1>1, <1>7 DEF CtEnabled
  <2>2. on \in BOOLEAN
    OBVIOUS
  <2> HIDE DEF bts, v, on
  <2>3. v \in BtsState /\ v.adm = bts.adm /\ v.req = bts.req /\ v.oml = bts.oml /\ v.plmn = bts.plmn
    BY <1>1, <2>1, <2>2 DEF BtsState
  <2>4. Fits(b, v, ct_net)
    BY <1>1, <2>3, Zenon DEF Fits
  <2> QED BY <1>2, <1>3, <2>3, <2>4, OneBtsKeepsInv DEF bts
<1> QED BY <1>5, <1>6, <1>7

-----------------------------------------------------------------------------
(* The control interface                                                   *)

\* MCC and MNC that are set without being applied, and a position: the BTSs are not told
LEMMA SetKeepsInv ==
    ASSUME CtInv, (\E plmn \in {"A", "B"} : set_net_mcc(plmn)) \/ \E fix \in Fixes \ {"none"} : set_bts_loc(fix)
    PROVE  CtInv'
<1>1. UNCHANGED <<ct_site, ct_rf, ct_bts, ct_status>>
  BY DEF set_net_mcc, set_bts_loc
<1>2. ct_net' \in {"A", "B"} /\ (ct_net' = ct_net \/ "apply" \in ct_site.cmds)
  BY DEF set_net_mcc, set_bts_loc, CtInv
<1>3. \A b \in CtBtss : Fits(b, ct_bts'[b], ct_net')
  BY <1>1, <1>2 DEF CtInv, Fits
<1>4. ct_trap' \in [status : BOOLEAN, loc : Fixes] /\ ct_trap'.status = ct_status'
  <2>1. ct_trap \in [status : BOOLEAN, loc : Fixes] /\ ct_trap.status = ct_status
    BY DEF CtInv
  <2>2. ct_trap' = ct_trap \/ \E fix \in Fixes : ct_trap' = [ct_trap EXCEPT !.loc = fix]
    BY DEF set_net_mcc, set_bts_loc
  <2> QED BY <1>1, <2>1, <2>2
<1>5. ct_bts' = [b \in CtBtss |-> ct_bts'[b]] /\ ((\E b \in CtBtss : ct_bts'[b].oml) => ct_status')
  BY <1>1 DEF CtInv
<1> QED BY <1>1, <1>2, <1>3, <1>4, <1>5, LinksKeepInv

\* mcc-mnc-apply
LEMMA ApplyKeepsInv ==
    ASSUME CtInv, NEW plmn \in {"A", "B"}, set_net_mcc_mnc_apply(plmn)
    PROVE  CtInv'
<1> DEFINE all == {b \in CtBtss : ct_site.bts[b].ipa /\ ct_bts[b].oml}
<1>1. UNCHANGED <<ct_site, ct_rf>> /\ ct_net' = plmn
  BY DEF set_net_mcc_mnc_apply
<1>2. CASE plmn = ct_net
  <2>1. UNCHANGED <<ct_bts, ct_status, ct_trap, ct_net>>
    BY <1>1, <1>2 DEF set_net_mcc_mnc_apply
  <2>2. RfTimersMatch'
    BY <1>1 DEF CtInv, RfTimersMatch
  <2>3. ct_rf' \in [policy : {"ON", "OFF", "GRACE"}, last : {"none", "d", "1", "0"}, timers : SUBSET RfTimers]
    BY <1>1 DEF CtInv
  <2> QED BY <1>1, <2>1, <2>2, <2>3, RfKeepsInv
<1>3. CASE plmn # ct_net
  <2>1. DropOml(all)
    BY <1>3 DEF set_net_mcc_mnc_apply, set_net_apply_config
  <2>2. all \in SUBSET CtBtss /\ \A b \in CtBtss \ all : ~(ct_site.bts[b].ipa /\ ct_bts[b].oml)
    OBVIOUS
  <2> HIDE DEF all
  <2> QED BY <1>1, <2>1, <2>2, DropKeepsInv
<1> QED BY <1>2, <1>3

\* The links that the RF check, the BTS itself or the operator drops
LEMMA DownKeepsInv ==
    ASSUME CtInv, rf_check_cb \/ \E b \in CtBtss : CtLinkDown(b) \/ set_bts_apply_config(b)
    PROVE  CtInv'
<1>1. ct_net \in {"A", "B"}
  BY DEF CtInv
<1>2. CASE rf_check_cb
  <2> PICK faulty \in SUBSET {b \in CtBtss : Checked(b)} : DropOml({b \in CtBtss : CheckFails(b) \/ b \in faulty})
    BY <1>2 DEF rf_check_cb
  <2> DEFINE fails == {b \in CtBtss : CheckFails(b) \/ b \in faulty}
  <2>1. fails \in SUBSET CtBtss /\ DropOml(fails) /\ UNCHANGED <<ct_site, ct_net>>
    BY <1>2 DEF rf_check_cb
  <2>2. ct_rf' = [ct_rf EXCEPT !.timers = @ \ {"check"}]
    BY <1>2 DEF rf_check_cb
  <2> HIDE DEF fails
  <2> QED BY <1>1, <2>1, <2>2, DropKeepsInv
<1>3. ASSUME NEW b \in CtBtss, CtLinkDown(b) \/ set_bts_apply_config(b)
      PROVE  CtInv'
  <2>1. {b} \in SUBSET CtBtss /\ DropOml({b}) /\ UNCHANGED <<ct_site, ct_rf, ct_net>>
    BY <1>3 DEF CtLinkDown, set_bts_apply_config
  <2> QED BY <1>1, <2>1, DropKeepsInv
<1> QED BY <1>2, <1>3

-----------------------------------------------------------------------------

\* Every step keeps the invariant.
LEMMA CtNextKeepsInv ==
    ASSUME CtInv, [CtNext]_ctVars
    PROVE  CtInv'
<1>1. CASE UNCHANGED ctVars
  BY <1>1 DEF ctVars, CtInv, RfTimersMatch, CtBtss, Fits
<1>2. ASSUME NEW cmd \in {"d", "1", "0"}, rf_read_cmd(cmd)
      PROVE  CtInv'
  BY <1>2, ScheduleKeepsInv DEF rf_read_cmd
<1>3. ASSUME NEW locked \in {0, 1}, set_net_rf_lock(locked)
      PROVE  CtInv'
  <2>1. (IF locked = 1 THEN "0" ELSE "1") \in {"d", "1", "0"}
    OBVIOUS
  <2> QED BY <1>3, <2>1, ScheduleKeepsInv DEF set_net_rf_lock
<1>4. CASE RfDelay \/ grace_timeout
  BY <1>4, TimerKeepsInv
<1>5. CASE rf_check_cb \/ \E b \in CtBtss : CtLinkDown(b) \/ set_bts_apply_config(b)
  BY <1>5, DownKeepsInv
<1>6. ASSUME NEW b \in CtBtss, CtOmlUp(b) \/ CtRslUp(b)
      PROVE  CtInv'
  BY <1>6, LinkUpKeepsInv
<1>7. ASSUME NEW b \in CtBtss, CtCarrier(b) \/ CtTakes(b) \/ CtEnabled(b)
      PROVE  CtInv'
  BY <1>7, CarrierKeepsInv
<1>8. ASSUME NEW plmn \in {"A", "B"}, set_net_mcc_mnc_apply(plmn)
      PROVE  CtInv'
  BY <1>8, ApplyKeepsInv
<1>9. CASE (\E plmn \in {"A", "B"} : set_net_mcc(plmn)) \/ \E fix \in Fixes \ {"none"} : set_bts_loc(fix)
  BY <1>9, SetKeepsInv
<1> QED BY <1>1, <1>2, <1>3, <1>4, <1>5, <1>6, <1>7, <1>8, <1>9 DEF CtNext

\* The invariant says what it should.
LEMMA CtMeans == CtInv => RfTimersMatch /\ RfExcluded /\ CtUpIsTold /\ CtPlmnApplied
<1> SUFFICES ASSUME CtInv
             PROVE  RfTimersMatch /\ RfExcluded /\ CtUpIsTold /\ CtPlmnApplied
  OBVIOUS
<1>1. RfExcluded
  <2> SUFFICES ASSUME NEW b \in CtBtss, ct_site.bts[b].excl
               PROVE  /\ ct_bts[b].adm = "UNLOCKED"
                      /\ \A i \in DOMAIN ct_bts[b].req : ct_bts[b].req[i] = "UNLOCKED"
    BY DEF RfExcluded
  <2>1. ct_bts[b].adm = "UNLOCKED" /\ ct_bts[b].req \in Seq({"UNLOCKED"})
    BY DEF CtInv, Fits
  <2> QED BY <2>1, ElementOfSeq
<1>2. CtPlmnApplied
  BY DEF CtInv, Fits, CtPlmnApplied
<1> QED BY <1>1, <1>2 DEF CtInv, CtUpIsTold

\* Whatever the order of commands, timers and links, for any number of BTSs: the grace timer runs exactly
\* while the policy is GRACE and RF is checked only while it should be on (rf_delay_cmd_cb(),
\* grace_timeout()); a BTS excluded from the RF lock is never locked (lock_each_trx()); while a BTS is
\* connected the last trap said so (bts_connection_status_trap_cb()); and mcc-mnc-apply leaves no
\* ip.access BTS with another PLMN (set_net_mcc_mnc_apply()).
THEOREM ControlAgrees == CtSpec => [](RfTimersMatch /\ RfExcluded /\ CtUpIsTold /\ CtPlmnApplied)
<1>1. CtInit => CtInv
  BY CtStart
<1>2. CtInv /\ [CtNext]_ctVars => CtInv'
  BY CtNextKeepsInv
<1>3. CtInv => RfTimersMatch /\ RfExcluded /\ CtUpIsTold /\ CtPlmnApplied
  BY CtMeans
<1> QED BY <1>1, <1>2, <1>3, PTL DEF CtSpec

=============================================================================
