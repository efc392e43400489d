------------------------------ MODULE ChanLoad ------------------------------
(***************************************************************************)
(* The channel load of a BTS and the wait indication T3122 derived from it *)
(* (chan_alloc.c, the sample timer of bsc_init.c, and the IMMEDIATE        *)
(* ASSIGNMENT REJECT of abis_rsl.c that uses it).  A transceiver and its   *)
(* timeslots are running or not; a logical channel is used or not.         *)
(***************************************************************************)
EXTENDS Integers, Sequences, FiniteSets, FiniteSetsExt

CONSTANTS CHAN_LOAD_SAMPLES,  \* samples kept besides the one at hand (7 in gsm_data.h)
          ClTrx,              \* the transceivers, 0 is c0
          ClLchans,           \* logical channels of a transceiver
          ClSites             \* ipaccess: whether trx_is_usable looks at the objects' state;  T3122: the
                              \* network's timer;  events: bound on the steps

GSM_T3122_DEFAULT == 10
MAX_WAIT_IND == 128
ASSUME ClSizes == /\ CHAN_LOAD_SAMPLES \in Nat \ {0} /\ 0 \in ClTrx /\ ClLchans \in Nat \ {0}
                  /\ ClSites \subseteq [ipaccess : BOOLEAN, T3122 : Nat, events : Nat]

VARIABLES cl_site,
          cl_up, cl_used,  \* whether each TRX is running, and how many of its lchans are not in LCHAN_ST_UNUSED
          cl_samples,      \* chan_load_samples up to chan_load_samples_idx
          cl_T3122, cl_avg,
          cl_hist,         \* the samples since the last bogus one
          cl_wait,         \* the wait indication of the last IMMEDIATE ASSIGNMENT REJECT, -1 before any
          cl_steps
clVars == <<cl_site, cl_up, cl_used, cl_samples, cl_T3122, cl_avg, cl_hist, cl_wait, cl_steps>>

--------------------------------------------------------------------------

\* A TRX that is not running is skipped, its channels that are in use included
bts_chan_load(up, used) ==
    [total |-> ClLchans * Cardinality({t \in ClTrx : up[t]}),
     used |-> MapThenSumSet(LAMBDA t : used[t], {t \in ClTrx : up[t]})]

Total(s) == MapThenSumSet(LAMBDA n : s[n].total, DOMAIN s)
Used(s) == MapThenSumSet(LAMBDA n : s[n].used, DOMAIN s)

\* The wait indication and the load in percent of some samples, by the fixed-point arithmetic of the code
WaitInd(s) == LET w == (((Used(s) * 256) \div Total(s)) * MAX_WAIT_IND) \div 256
              IN  IF w < GSM_T3122_DEFAULT THEN GSM_T3122_DEFAULT ELSE IF w > MAX_WAIT_IND THEN MAX_WAIT_IND ELSE w
LoadAvg(s) == (((Used(s) * 256) \div Total(s)) * 100) \div 256

\* The sample of one second.  A bogus one ends the override of T3122 and drops the samples so far; the sample
\* after the array is full makes a new average with all of them
Mut_bts_update_t3122_chan_load ==
    LET sample == bts_chan_load(cl_up, cl_used) IN
    IF cl_site.ipaccess /\ ~cl_up[0] THEN UNCHANGED <<cl_samples, cl_T3122, cl_avg, cl_hist>>
    ELSE IF sample.total = 0 \/ sample.used > sample.total
    THEN cl_T3122' = 0 /\ cl_hist' = <<>> /\ UNCHANGED <<cl_avg, cl_samples>>
    ELSE /\ cl_hist' = Append(cl_hist, sample)
         /\ IF Len(cl_samples) < CHAN_LOAD_SAMPLES
            THEN cl_samples' = Append(cl_samples, sample) /\ UNCHANGED <<cl_T3122, cl_avg>>
            ELSE /\ cl_samples' = <<>>
                 /\ cl_T3122' = WaitInd(Append(cl_samples, sample))
                 /\ cl_avg' = LoadAvg(Append(cl_samples, sample))
bts_update_t3122_chan_load ==
    LET sample == bts_chan_load(cl_up, cl_used) IN
    IF cl_site.ipaccess /\ ~cl_up[0] THEN UNCHANGED <<cl_samples, cl_T3122, cl_avg, cl_hist>>
    ELSE IF sample.total = 0 \/ sample.used > sample.total
    THEN cl_T3122' = 0 /\ cl_samples' = <<>> /\ cl_hist' = <<>> /\ UNCHANGED cl_avg
    ELSE /\ cl_hist' = Append(cl_hist, sample)
         /\ IF Len(cl_samples) < CHAN_LOAD_SAMPLES
            THEN cl_samples' = Append(cl_samples, sample) /\ UNCHANGED <<cl_T3122, cl_avg>>
            ELSE /\ cl_samples' = <<>>
                 /\ cl_T3122' = WaitInd(Append(cl_samples, sample))
                 /\ cl_avg' = LoadAvg(Append(cl_samples, sample))

update_t3122_chan_load_timer == bts_update_t3122_chan_load /\ UNCHANGED <<cl_site, cl_up, cl_used, cl_wait>>

\* The override, the network's timer (both taken into eight bits), or the default
Mut_rsl_tx_imm_ass_rej ==
    /\ cl_wait' = IF cl_T3122 # 0 THEN cl_T3122 ELSE cl_site.T3122 % 256
    /\ UNCHANGED <<cl_site, cl_up, cl_used, cl_samples, cl_T3122, cl_avg, cl_hist>>
rsl_tx_imm_ass_rej ==
    /\ cl_wait' = IF cl_T3122 # 0 THEN cl_T3122
                  ELSE IF cl_site.T3122 % 256 # 0 THEN cl_site.T3122 % 256 ELSE GSM_T3122_DEFAULT
    /\ UNCHANGED <<cl_site, cl_up, cl_used, cl_samples, cl_T3122, cl_avg, cl_hist>>

\* The rest of the BSC: channels are taken and freed, transceivers go down and come up
ClTraffic ==
    /\ \/ \E t \in ClTrx, u \in 0 .. ClLchans : cl_used' = [cl_used EXCEPT ![t] = u] /\ UNCHANGED cl_up
       \/ \E t \in ClTrx : cl_up' = [cl_up EXCEPT ![t] = ~@] /\ UNCHANGED cl_used
    /\ UNCHANGED <<cl_site, cl_samples, cl_T3122, cl_avg, cl_hist, cl_wait>>

ClInit == /\ cl_site \in ClSites /\ cl_up = [t \in ClTrx |-> TRUE] /\ cl_used = [t \in ClTrx |-> 0]
          /\ cl_samples = <<>> /\ cl_T3122 = 0 /\ cl_avg = 0 /\ cl_hist = <<>> /\ cl_wait = -1 /\ cl_steps = 0
ClNext == /\ cl_steps < cl_site.events
          /\ cl_steps' = cl_steps + 1
          /\ update_t3122_chan_load_timer \/ rsl_tx_imm_ass_rej \/ ClTraffic
ClSpec == ClInit /\ [][ClNext]_clVars

--------------------------------------------------------------------------
(* Properties *)

LastBlock == LET K == CHAN_LOAD_SAMPLES + 1
                 e == (Len(cl_hist) \div K) * K
             IN  SubSeq(cl_hist, e - K + 1, e)

\* The override of T3122 is there exactly when a whole block of samples has come since the last bogus one, and
\* it is the load of that block scaled to 0 .. 128 and kept above the default: no sample of before a bogus one,
\* or of the block before, is in it, and the fixed-point arithmetic loses nothing.  The load in percent keeps to
\* the assertion of bts_update_t3122_chan_load
ClOfTheLoad ==
    /\ cl_avg \in 0 .. 100
    /\ IF Len(cl_hist) <= CHAN_LOAD_SAMPLES THEN cl_T3122 = 0
       ELSE LET u == Used(LastBlock)  t == Total(LastBlock) IN
            IF u * MAX_WAIT_IND < GSM_T3122_DEFAULT * t THEN cl_T3122 = GSM_T3122_DEFAULT
            ELSE cl_T3122 * t <= u * MAX_WAIT_IND /\ u * MAX_WAIT_IND < (cl_T3122 + 1) * t

\* An MS is never told to wait for zero seconds, whatever the network's timer is set to
ClMustWait == cl_wait \in {-1} \cup 1 .. 255

\* The wait indication is that of the load, and never zero.
ClSafe == ClOfTheLoad /\ ClMustWait
=============================================================================
