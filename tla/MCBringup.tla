----------------------------- MODULE MCBringup -----------------------------
(***************************************************************************)
(* The ways a BTS is brought up and loaded, each for a few BTSs: one       *)
(* behaviour is about one BTS, whose kind is `unit`.                       *)
(***************************************************************************)
EXTENDS Nanobts, Nokia, SwLoad, Bs11

VARIABLE unit

otherThanNb == <<nkVars, swVars, b11Vars>>
otherThanNk == <<nbVars, swVars, b11Vars>>
otherThanSw == <<nbVars, nkVars, b11Vars>>
otherThanB11 == <<nbVars, nkVars, swVars>>

Nano == [mos |-> {"SITE_MANAGER", "BTS"}, gprs |-> TRUE, comb |-> TRUE, nacks |-> {}, links |-> 2, locks |-> 0, rsls |-> 0]
Nanos == {Nano,
          [Nano EXCEPT !.mos = {"BASEB_TRANSC", "RADIO_CARRIER"}, !.rsls = 1, !.links = 1],
          [Nano EXCEPT !.mos = {"RADIO_CARRIER"}, !.locks = 2],
          [Nano EXCEPT !.mos = {"GPRS_NSE", "GPRS_CELL", "GPRS_NSVC"}, !.links = 1],
          [Nano EXCEPT !.mos = {"CHANNEL"}, !.comb = FALSE],
          [Nano EXCEPT !.mos = {"CHANNEL", "BTS"}, !.nacks = {<<"GET_ATTR", "BTS">>}],
          [Nano EXCEPT !.mos = {"CHANNEL", "BTS"}, !.nacks = {<<"OPSTART", "BTS">>}],
          [Nano EXCEPT !.mos = {"BTS", "RADIO_CARRIER"}, !.nacks = {<<"ACTIVATE_SW", "BTS">>}]}

Nokias == [skip : BOOLEAN, bts : {"booting", "working"}, segments : {1, 3}, losses : {2}]

Ipa == [program |-> "ipaccess-config", opts |-> {}, command |-> "none", files |-> <<5>>, bad |-> {}, win |-> 2,
        forced |-> FALSE, nacks |-> {}, aborts |-> TRUE, reports |-> 1, phase |-> "NONE"]
Bs == [Ipa EXCEPT !.program = "bs11_config", !.files = <<3, 1, 4>>, !.aborts = FALSE, !.reports = 0, !.phase = "MAINTENANCE"]
Loads ==
    {[Ipa EXCEPT !.opts = o] :
        o \in {{"nvattr"}, {"nvattr", "restart"}, {"oml_ip", "restart"}, {"get"}, {"restart"}, {"software"},
               {"software", "restart"}, {"listen"}, {"listen", "loop"}, {"nvattr", "software"}}}
    \cup {[Ipa EXCEPT !.opts = {"software", "restart"}, !.nacks = {n}, !.files = <<2>>] :
             n \in {"LOAD_INIT", "LOAD_END", "SET_NVATTR_SW", "RESTART_IPA"}}
    \cup {[Bs EXCEPT !.command = c, !.phase = p] : c \in BsCommands, p \in {"MAINTENANCE", "NORMAL"}}
    \cup {[Bs EXCEPT !.forced = f, !.nacks = {n}, !.command = "software"] :
             f \in BOOLEAN, n \in {"LOAD_INIT", "LOAD_END", "ACTIVATE_SW"}}
    \cup {[Bs EXCEPT !.command = "software", !.phase = "SOFTWARE_RQD", !.aborts = TRUE],
          [Bs EXCEPT !.command = "software", !.bad = {2}],
          [Bs EXCEPT !.opts = {"-D"}, !.phase = "NORMAL"], [Bs EXCEPT !.opts = {"-r"}, !.phase = "NORMAL"]}
LoadsAndMore == {[Ipa EXCEPT !.opts = {"nvattr", "software", "restart"}]}

Bs11s == {[trx |-> <<<<FALSE, TRUE>>, <<TRUE>>>>, nacks |-> n, losses |-> 3, rsl |-> r] :
             n \in {{}, {"SET_BTS_ATTR"}}, r \in BOOLEAN}

CONSTANT Units  \* the kinds of BTS considered

\* the components that do not take part have some fixed site
Init ==
    /\ unit \in Units
    /\ NbInit /\ NkInit /\ SwInit /\ B11Init
    /\ unit # "nb" => nb_site = CHOOSE s \in NbSites : TRUE
    /\ unit # "nk" => nk_site = CHOOSE s \in NkSites : TRUE
    /\ unit # "sw" => sw_site = CHOOSE s \in SwSites : TRUE
    /\ unit # "b11" => b11_site = CHOOSE s \in B11Sites : TRUE

Next ==
    /\ UNCHANGED unit
    /\ \/ unit = "nb" /\ NbNext /\ UNCHANGED otherThanNb
       \/ unit = "nk" /\ NkNext /\ UNCHANGED otherThanNk
       \/ unit = "sw" /\ SwNext /\ UNCHANGED otherThanSw
       \/ unit = "b11" /\ B11Next /\ UNCHANGED otherThanB11

vars == <<unit, nbVars, nkVars, swVars, b11Vars>>

\* NbFairness, NkFairness, SwFairness or B11Fairness, for the BTS the behaviour is about
Fairness ==
    /\ WF_nbVars(unit = "nb" /\ NbReceive) /\ WF_nbVars(unit = "nb" /\ NbDeferredDrop)
    /\ \A m \in NbMos : WF_nbVars(unit = "nb" /\ NbAsk(m))
    /\ WF_nkVars(unit = "nk" /\ NkOmlUp) /\ WF_nkVars(unit = "nk" /\ NkLinkLost /\ nk_bts = "resetting")
    /\ WF_nkVars(unit = "nk" /\ reset_timer_cb) /\ WF_nkVars(unit = "nk" /\ NkTeiUnknown)
    /\ WF_nkVars(unit = "nk" /\ NkBtsReceive) /\ WF_nkVars(unit = "nk" /\ NkBtsReset)
    /\ WF_nkVars(unit = "nk" /\ NkBtsBoots) /\ WF_nkVars(unit = "nk" /\ NkReceive)
    /\ WF_swVars(unit = "sw" /\ SwBtsReceive) /\ WF_swVars(unit = "sw" /\ SwReceive)
    /\ WF_swVars(unit = "sw" /\ status_timer_cb)
    /\ \A mt \in {"TRANSC", "CARRIER"} : WF_swVars(unit = "sw" /\ SwReport(mt))
    /\ WF_b11Vars(unit = "b11" /\ B11Receive) /\ WF_b11Vars(unit = "b11" /\ B11OmlUp)

Spec == Init /\ [][Next]_vars /\ Fairness

\* The liveness properties of the components, each for the behaviours about it.

\* Nothing stays in the OML queue of a nanoBTS for ever (NbQueueDrains).
NanoQueueDrains == unit = "nb" => NbQueueDrains

\* A Nokia BTS is configured and has its RSL links in the end (NkComesUp).
NokiaComesUp == unit = "nk" => NkComesUp

\* ipaccess-config comes to an end (SwEnds).
LoadEnds == unit = "sw" => SwEnds

\* A BS-11 whose OML link stays up is configured completely (B11Configured).
Bs11Configured == unit = "b11" => B11Configured

\* Whatever is brought up or loaded gets there in the end, with answers that are refused, late or lost
\* on the way: no queue, timer or sequence of requests comes to a standstill.
BringupEnds == NanoQueueDrains /\ NokiaComesUp /\ LoadEnds /\ Bs11Configured
=============================================================================
