-------------------------- MODULE AInterface_proofs --------------------------
(***************************************************************************)
(* Theorems about AInterface, for any number of MSCs, conns, connection    *)
(* ids and SS7 instances.                                                  *)
(*                                                                         *)
(* Conn ids are unique because an id is only handed out when no conn has   *)
(* it; that the stack agrees with the conns needs the uniqueness (closing  *)
(* one conn must not close another's connection), and both need to know    *)
(* that a live conn has an MSC and an id.                                  *)
(***************************************************************************)
EXTENDS AInterface, TLAPS

\* A conn has an MSC and an id exactly while it lives, and only then an lchan.
LiveConns ==
    \A c \in Conn :
        /\ state[c] = "free" => id[c] = NoId /\ msc[c] = None /\ lchan[c] = "none"
        /\ state[c] # "free" => id[c] \in Id /\ msc[c] \in Msc

\* RESETs and answers under way stay within the bound together.
ResetsBounded == \A m \in Msc : toMsc[m] + acks[m] <= MaxReset

IInv == TypeOK /\ ResetsBounded /\ LiveConns /\ ConnIdsUnique /\ SccpStateAgrees

-----------------------------------------------------------------------------
\* The id pick_free_conn_id() returns is one that no conn has.
LEMMA PickedIdIsFree ==
    ASSUME TypeOK, NEW i, pick_free_conn_id(i)
    PROVE  i \in Id /\ ByConnId(i) = {}
<1>1. PICK k \in Tries : i = (counter + k) % NIds
  BY DEF pick_free_conn_id
<1>2. counter \in Nat /\ k \in Nat /\ NIds \in Nat /\ NIds > 0
  BY <1>1, AInterfaceAssumption DEF Tries, TypeOK, Id
<1>3. (counter + k) % NIds \in 0..(NIds - 1)
  BY <1>2
<1>. QED
  BY <1>1, <1>3 DEF Tries, Id

\* A live conn is the only one that has its id.
LEMMA IdInUse ==
    ASSUME IInv, NEW i \in Id, ByConnId(i) = {}
    PROVE  \A c \in Conn : id[c] # i
  BY DEF IInv, LiveConns, ByConnId, Id, NoId

\* gscon_cleanup() keeps the invariant, whichever conns it ends, provided the
\* others keep their connections in the stack by then.
LEMMA CleanupKeepsInv ==
    ASSUME IInv, NEW S \in SUBSET Conn, NEW up,
           NEW st \in [Inst -> [Id -> {"idle", "calling", "called", "open"}]],
           \A c \in Conn \ S : state[c] # "free" =>
               st[InstOf[msc[c]]][id[c]] = stack[InstOf[msc[c]]][id[c]],
           gscon_cleanup(S, up, st)
    PROVE  /\ state' \in [Conn -> ConnState]
           /\ msc' \in [Conn -> Msc \cup {None}]
           /\ id' \in [Conn -> Id \cup {NoId}]
           /\ sccp' \in [Conn -> {"NONE", "WAIT_CONN_CONF", "CONNECTED"}]
           /\ lchan' \in [Conn -> {"none", "ok", "failed"}]
           /\ ending' \subseteq Conn
           /\ stack' \in [Inst -> [Id -> {"idle", "calling", "called", "open"}]]
           /\ early' \in BOOLEAN
           /\ LiveConns' /\ ConnIdsUnique' /\ SccpStateAgrees'
<1>. USE AInterfaceAssumption
<1>1. /\ state' \in [Conn -> ConnState]
      /\ msc' \in [Conn -> Msc \cup {None}]
      /\ id' \in [Conn -> Id \cup {NoId}]
      /\ sccp' \in [Conn -> {"NONE", "WAIT_CONN_CONF", "CONNECTED"}]
      /\ lchan' \in [Conn -> {"none", "ok", "failed"}]
      /\ ending' \subseteq Conn
      /\ early' \in BOOLEAN
  BY DEF gscon_cleanup, IInv, TypeOK, ConnState
<1>2. stack' \in [Inst -> [Id -> {"idle", "calling", "called", "open"}]]
  BY DEF gscon_cleanup
<1>3. LiveConns'
  BY DEF gscon_cleanup, IInv, TypeOK, LiveConns
<1>4. ConnIdsUnique'
  BY DEF gscon_cleanup, IInv, TypeOK, ConnIdsUnique
<1>5. SccpStateAgrees'
  <2>. SUFFICES ASSUME NEW c \in Conn
                PROVE  (/\ sccp[c] = "CONNECTED" => stack[InstOf[msc[c]]][id[c]] = "open"
                        /\ sccp[c] = "WAIT_CONN_CONF" =>
                             state[c] = "WAIT_CC" /\ stack[InstOf[msc[c]]][id[c]] = "calling"
                        /\ sccp[c] = "NONE" <=> state[c] = "free")'
    BY DEF SccpStateAgrees
  <2>1. CASE c \in S
    BY <2>1 DEF gscon_cleanup
  <2>2. CASE c \notin S
    <3>1. /\ state'[c] = state[c] /\ msc'[c] = msc[c]
          /\ id'[c] = id[c] /\ sccp'[c] = sccp[c]
      BY <2>2 DEF gscon_cleanup
    <3>2. CASE state[c] = "free"
      BY <3>1, <3>2 DEF IInv, SccpStateAgrees
    <3>3. CASE state[c] # "free"
      <4>1. id[c] \in Id /\ msc[c] \in Msc /\ InstOf[msc[c]] \in Inst
        BY <3>3 DEF IInv, LiveConns
      <4>2. \A d \in S : id[d] # id[c]
        BY <2>2, <4>1 DEF IInv, ConnIdsUnique, Id, NoId
      <4>3. stack'[InstOf[msc[c]]][id[c]] = st[InstOf[msc[c]]][id[c]]
        BY <4>1, <4>2 DEF gscon_cleanup
      <4>4. stack'[InstOf[msc[c]]][id[c]] = stack[InstOf[msc[c]]][id[c]]
        BY <4>3, <2>2, <3>3
      <4>. QED
        BY <3>1, <4>4 DEF IInv, SccpStateAgrees
    <3>. QED
      BY <3>2, <3>3
  <2>. QED
    BY <2>1, <2>2
<1>. QED
  BY <1>1, <1>2, <1>3, <1>4, <1>5

-----------------------------------------------------------------------------
LEMMA InitIInv == Init => IInv
<1>. SUFFICES ASSUME Init PROVE IInv
  OBVIOUS
<1>. USE AInterfaceAssumption DEF Init
<1>1. counter \in Id /\ "free" \in ConnState
  BY DEF Id, ConnState
<1>2. TypeOK
  <2>1. loss \in [Msc -> 0..3] /\ toMsc \in [Msc -> 0..MaxReset] /\ acks \in [Msc -> 0..MaxReset]
    OBVIOUS
  <2>2. reset \in [Msc -> {"DISC", "CONN"}] /\ sent \in [Msc -> BOOLEAN]
    OBVIOUS
  <2>3. stack \in [Inst -> [Id -> {"idle", "calling", "called", "open"}]]
    OBVIOUS
  <2>4. /\ state \in [Conn -> ConnState] /\ msc \in [Conn -> Msc \cup {None}]
        /\ id \in [Conn -> Id \cup {NoId}]
        /\ sccp \in [Conn -> {"NONE", "WAIT_CONN_CONF", "CONNECTED"}]
        /\ lchan \in [Conn -> {"none", "ok", "failed"}]
    BY <1>1
  <2>. QED
    BY ZenonT(60), <1>1, <2>1, <2>2, <2>3, <2>4 DEF TypeOK, BAD_CONNECTION_THRESOLD
<1>3. ResetsBounded
  BY DEF ResetsBounded
<1>4. LiveConns /\ ConnIdsUnique /\ SccpStateAgrees
  BY DEF LiveConns, ConnIdsUnique, SccpStateAgrees
<1>. QED
  BY <1>2, <1>3, <1>4 DEF IInv

\* The RESET procedure touches the conns only through gscon_cleanup().
LEMMA ResetKeepsInv ==
    ASSUME IInv, NEW m \in Msc, ResetNext(m)
    PROVE  IInv'
<1>. USE AInterfaceAssumption
<1>. DEFINE ResetTypes ==
              /\ reset \in [Msc -> {"DISC", "CONN"}]
              /\ loss \in [Msc -> 0..BAD_CONNECTION_THRESOLD]
              /\ toMsc \in [Msc -> 0..MaxReset]
              /\ acks \in [Msc -> 0..MaxReset]
              /\ sent \in [Msc -> BOOLEAN]
              /\ ResetsBounded
<1>1. ASSUME gscon_cleanup(ConnsOf(m), SccpUp, stack), ResetTypes',
             UNCHANGED <<counter, abort>>
      PROVE  IInv'
  <2>1. ConnsOf(m) \in SUBSET Conn
    BY DEF ConnsOf
  <2>2. stack \in [Inst -> [Id -> {"idle", "calling", "called", "open"}]]
    BY DEF IInv, TypeOK
  <2>3. counter' \in Id /\ abort' \in BOOLEAN
    BY <1>1 DEF IInv, TypeOK
  <2>. QED
    BY ZenonT(60), <1>1, <2>1, <2>2, <2>3, CleanupKeepsInv DEF IInv, TypeOK
<1>2. ASSUME UNCHANGED <<connVars, counter, stack, early, abort>>, ResetTypes'
      PROVE  IInv'
  BY <1>2 DEF IInv, TypeOK, LiveConns, ConnIdsUnique, SccpStateAgrees, connVars
<1>3. /\ toMsc[m] \in Nat /\ acks[m] \in Nat /\ toMsc[m] + acks[m] <= MaxReset
      /\ toMsc \in [Msc -> 0..MaxReset] /\ acks \in [Msc -> 0..MaxReset]
      /\ \A n \in Msc : toMsc[n] + acks[n] <= MaxReset
  BY DEF IInv, TypeOK, ResetsBounded
<1>4. ASSUME \/ UNCHANGED toMsc
             \/ toMsc[m] + 1 <= MaxReset /\ toMsc' = [toMsc EXCEPT ![m] = @ + 1]
             \/ toMsc[m] > 0 /\ toMsc' = [toMsc EXCEPT ![m] = @ - 1],
             \/ UNCHANGED acks
             \/ acks[m] + 1 <= MaxReset /\ acks' = [acks EXCEPT ![m] = @ + 1]
             \/ acks[m] > 0 /\ acks' = [acks EXCEPT ![m] = @ - 1],
             toMsc'[m] + acks'[m] <= MaxReset
      PROVE  toMsc' \in [Msc -> 0..MaxReset] /\ acks' \in [Msc -> 0..MaxReset] /\ ResetsBounded'
  <2>1. toMsc' \in [Msc -> 0..MaxReset]
    BY <1>3, <1>4
  <2>2. acks' \in [Msc -> 0..MaxReset]
    BY <1>3, <1>4
  <2>3. \A n \in Msc : n # m => toMsc'[n] = toMsc[n] /\ acks'[n] = acks[n]
    BY <1>3, <1>4
  <2>. QED
    BY <1>3, <1>4, <2>1, <2>2, <2>3 DEF ResetsBounded
<1>5. CASE fsm_reset_ack_timeout_cb(m)
  <2>1. toMsc' \in [Msc -> 0..MaxReset] /\ acks' \in [Msc -> 0..MaxReset] /\ ResetsBounded'
    BY <1>3, <1>4, <1>5 DEF fsm_reset_ack_timeout_cb
  <2>. QED
    BY <1>1, <1>5, <2>1 DEF fsm_reset_ack_timeout_cb, IInv, TypeOK
<1>6. CASE bssmap_handle_reset_ack(m)
  <2>1. toMsc' \in [Msc -> 0..MaxReset] /\ acks' \in [Msc -> 0..MaxReset] /\ ResetsBounded'
    BY <1>3, <1>4, <1>6 DEF bssmap_handle_reset_ack
  <2>. QED
    BY <1>2, <1>6, <2>1 DEF bssmap_handle_reset_ack, IInv, TypeOK, BAD_CONNECTION_THRESOLD
<1>7. CASE bssmap_handle_reset(m)
  BY <1>1, <1>7 DEF bssmap_handle_reset, IInv, TypeOK, ResetsBounded, resetVars
<1>8. CASE MscAnswersReset(m)
  <2>1. toMsc' \in [Msc -> 0..MaxReset] /\ acks' \in [Msc -> 0..MaxReset] /\ ResetsBounded'
    BY <1>3, <1>4, <1>8 DEF MscAnswersReset
  <2>. QED
    BY <1>2, <1>8, <2>1 DEF MscAnswersReset, IInv, TypeOK
<1>9. CASE ResetLost(m)
  <2>1. toMsc' \in [Msc -> 0..MaxReset] /\ acks' \in [Msc -> 0..MaxReset] /\ ResetsBounded'
    <3>1. CASE toMsc[m] > 0 /\ toMsc' = [toMsc EXCEPT ![m] = @ - 1] /\ UNCHANGED acks
      BY <1>3, <1>4, <3>1
    <3>2. CASE acks[m] > 0 /\ acks' = [acks EXCEPT ![m] = @ - 1] /\ UNCHANGED toMsc
      BY <1>3, <1>4, <3>2
    <3>. QED
      BY <1>9, <3>1, <3>2 DEF ResetLost
  <2>. QED
    BY <1>2, <1>9, <2>1 DEF ResetLost, IInv, TypeOK
<1>. QED
  BY <1>5, <1>6, <1>7, <1>8, <1>9 DEF ResetNext

\* The failure count stays within the threshold.
LEMMA FailType ==
    ASSUME TypeOK, NEW m \in Msc, a_reset_conn_fail(m)
    PROVE  /\ reset' \in [Msc -> {"DISC", "CONN"}]
           /\ loss' \in [Msc -> 0..BAD_CONNECTION_THRESOLD]
           /\ sent' \in [Msc -> BOOLEAN]
<1>. USE DEF BAD_CONNECTION_THRESOLD
<1>1. loss[m] \in 0..3
  BY DEF TypeOK
<1>2. CASE reset[m] = "DISC"
  BY <1>2 DEF a_reset_conn_fail, TypeOK
<1>3. CASE reset[m] # "DISC" /\ loss[m] >= 3
  BY ZenonT(60), <1>3 DEF a_reset_conn_fail, TypeOK
<1>4. CASE reset[m] # "DISC" /\ ~(loss[m] >= 3)
  <2>1. loss[m] + 1 \in 0..3
    BY <1>1, <1>4
  <2>2. loss' = [loss EXCEPT ![m] = loss[m] + 1] /\ reset' = reset /\ sent' = sent
    BY <1>4 DEF a_reset_conn_fail
  <2>. QED
    BY <2>1, <2>2 DEF TypeOK
<1>. QED
  BY <1>2, <1>3, <1>4

\* The conn c is allocated for MSC m with id i: its state s, its SCCP state u,
\* its lchan l, and the state x of the connection in the stack.
Opened(c, m, i, s, u, x, l) ==
    /\ state[c] = "free" /\ ByConnId(i) = {}
    /\ state' = [state EXCEPT ![c] = s]
    /\ msc' = [msc EXCEPT ![c] = m]
    /\ id' = [id EXCEPT ![c] = i]
    /\ sccp' = [sccp EXCEPT ![c] = u]
    /\ lchan' = [lchan EXCEPT ![c] = l]
    /\ stack' = [stack EXCEPT ![InstOf[m]][i] = x]
    /\ UNCHANGED <<resetVars, ending, early, abort>>

\* A new conn gets an id that no conn has, and the stack knows it by that id.
LEMMA NewConnKeepsInv ==
    ASSUME IInv, NEW c \in Conn, NEW m \in Msc, NEW i \in Id,
           NEW s, NEW u, NEW x, NEW l \in {"none", "ok"},
           \/ s = "INIT" /\ u = "CONNECTED" /\ x = "open"
           \/ s = "WAIT_CC" /\ u = "WAIT_CONN_CONF" /\ x = "calling",
           Opened(c, m, i, s, u, x, l), counter' \in Id
    PROVE  IInv'
<1>. USE DEF Opened
<1>. USE AInterfaceAssumption
<1>1. \A d \in Conn : id[d] # i
  BY IdInUse
<1>2. InstOf[m] \in Inst
  OBVIOUS
<1>3. TypeOK'
  BY <1>2 DEF IInv, TypeOK, ConnState, resetVars
<1>4. LiveConns'
  BY DEF IInv, TypeOK, LiveConns
<1>5. ConnIdsUnique'
  BY <1>1 DEF IInv, TypeOK, ConnIdsUnique
<1>6. SccpStateAgrees'
  <2>. SUFFICES ASSUME NEW d \in Conn
                PROVE  (/\ sccp[d] = "CONNECTED" => stack[InstOf[msc[d]]][id[d]] = "open"
                        /\ sccp[d] = "WAIT_CONN_CONF" =>
                             state[d] = "WAIT_CC" /\ stack[InstOf[msc[d]]][id[d]] = "calling"
                        /\ sccp[d] = "NONE" <=> state[d] = "free")'
    BY DEF SccpStateAgrees
  <2>1. CASE d = c
    BY <2>1, <1>2 DEF IInv, TypeOK
  <2>2. CASE d # c /\ state[d] = "free"
    BY <2>2 DEF IInv, TypeOK, SccpStateAgrees
  <2>3. CASE d # c /\ state[d] # "free"
    <3>1. id[d] \in Id /\ id[d] # i /\ InstOf[msc[d]] \in Inst
      BY <2>3, <1>1 DEF IInv, LiveConns
    <3>2. stack'[InstOf[msc[d]]][id[d]] = stack[InstOf[msc[d]]][id[d]]
      BY <3>1, <1>2 DEF IInv, TypeOK
    <3>. QED
      BY <2>3, <3>2 DEF IInv, TypeOK, SccpStateAgrees
  <2>. QED
    BY <2>1, <2>2, <2>3
<1>7. ResetsBounded'
  BY DEF IInv, ResetsBounded, resetVars
<1>. QED
  BY <1>3, <1>4, <1>5, <1>6, <1>7 DEF IInv

\* A step that leaves the ids, the MSCs and the stack alone.
LEMMA SameConnsKeepInv ==
    ASSUME IInv, UNCHANGED <<msc, id, sccp, counter, stack>>,
           \A c \in Conn : state'[c] = "free" <=> state[c] = "free",
           \A c \in Conn : sccp[c] = "WAIT_CONN_CONF" => state'[c] = state[c],
           \A c \in Conn : state'[c] = "free" => lchan'[c] = "none",
           state' \in [Conn -> ConnState],
           lchan' \in [Conn -> {"none", "ok", "failed"}],
           ending' \subseteq Conn, early' \in BOOLEAN, abort' \in BOOLEAN,
           reset' \in [Msc -> {"DISC", "CONN"}],
           loss' \in [Msc -> 0..BAD_CONNECTION_THRESOLD],
           UNCHANGED <<toMsc, acks, sent>>
    PROVE  IInv'
<1>1. TypeOK' /\ ResetsBounded'
  BY DEF IInv, TypeOK, ResetsBounded
<1>2. LiveConns' /\ ConnIdsUnique' /\ SccpStateAgrees'
  BY DEF IInv, LiveConns, ConnIdsUnique, SccpStateAgrees
<1>. QED
  BY <1>1, <1>2 DEF IInv

\* A conn that ends alone, with a failure for the MSC's reset FSM.
LEMMA TimeoutKeepsInv ==
    ASSUME IInv, NEW c \in Conn, gscon_timer_cb(c)
    PROVE  IInv'
<1>1. state[c] # "free" /\ msc[c] \in Msc
  BY DEF gscon_timer_cb, IInv, LiveConns
<1>2. /\ reset' \in [Msc -> {"DISC", "CONN"}]
      /\ loss' \in [Msc -> 0..BAD_CONNECTION_THRESOLD]
      /\ sent' \in [Msc -> BOOLEAN]
  BY <1>1, FailType DEF gscon_timer_cb, IInv
<1>3. stack \in [Inst -> [Id -> {"idle", "calling", "called", "open"}]]
  BY DEF IInv, TypeOK
<1>4. {c} \in SUBSET Conn
  OBVIOUS
<1>5. gscon_cleanup({c}, SccpUp, stack) /\ UNCHANGED <<toMsc, acks, counter, abort>>
  BY DEF gscon_timer_cb
<1>6. toMsc' \in [Msc -> 0..MaxReset] /\ acks' \in [Msc -> 0..MaxReset]
      /\ counter' \in Id /\ abort' \in BOOLEAN /\ ResetsBounded'
  BY <1>5 DEF IInv, TypeOK, ResetsBounded
<1>. QED
  BY ZenonT(60), <1>2, <1>3, <1>4, <1>5, <1>6, CleanupKeepsInv DEF IInv, TypeOK

\* N-DISCONNECT.ind ends the conn with the id; the stack forgets that id only.
LEMMA DisconnectKeepsInv ==
    ASSUME IInv, NEW n \in Inst, NEW i \in Id, NDisconnectInd(n, i)
    PROVE  IInv'
<1>. DEFINE st == [stack EXCEPT ![n][i] = "idle"]
<1>1. st \in [Inst -> [Id -> {"idle", "calling", "called", "open"}]]
  BY DEF IInv, TypeOK
<1>2. ASSUME NEW c \in Conn \ ByConnId(i), state[c] # "free"
      PROVE  st[InstOf[msc[c]]][id[c]] = stack[InstOf[msc[c]]][id[c]]
  <2>1. id[c] # i /\ id[c] \in Id /\ InstOf[msc[c]] \in Inst
    BY <1>2, AInterfaceAssumption DEF ByConnId, IInv, LiveConns
  <2>. QED
    BY <2>1 DEF IInv, TypeOK
<1>3. ByConnId(i) \in SUBSET Conn
  BY DEF ByConnId
<1>4. gscon_cleanup(ByConnId(i), {}, st) /\ UNCHANGED <<resetVars, counter, abort>>
  BY DEF NDisconnectInd
<1>5. /\ reset' \in [Msc -> {"DISC", "CONN"}]
      /\ loss' \in [Msc -> 0..BAD_CONNECTION_THRESOLD]
      /\ toMsc' \in [Msc -> 0..MaxReset]
      /\ acks' \in [Msc -> 0..MaxReset]
      /\ sent' \in [Msc -> BOOLEAN]
      /\ counter' \in Id /\ abort' \in BOOLEAN /\ ResetsBounded'
  BY <1>4 DEF IInv, TypeOK, ResetsBounded, resetVars
<1>. HIDE DEF st
<1>. QED
  BY ZenonT(60), <1>1, <1>2, <1>3, <1>4, <1>5, CleanupKeepsInv DEF IInv, TypeOK

\* The N-CONNECT.cnf opens the connection in the stack and in the conn.
LEMMA ConfirmKeepsInv ==
    ASSUME IInv, NEW c \in Conn, NConnectCnf(c)
    PROVE  IInv'
<1>. USE AInterfaceAssumption
<1>1. id[c] \in Id /\ msc[c] \in Msc /\ InstOf[msc[c]] \in Inst /\ id[c] # NoId
  BY DEF NConnectCnf, IInv, LiveConns, Id, NoId
<1>2. TypeOK' /\ ResetsBounded'
  BY <1>1 DEF NConnectCnf, IInv, TypeOK, ResetsBounded, resetVars, ConnState
<1>3. LiveConns' /\ ConnIdsUnique'
  BY DEF NConnectCnf, IInv, TypeOK, LiveConns, ConnIdsUnique
<1>4. ASSUME NEW d \in Conn, d # c, state[d] # "free"
      PROVE  stack'[InstOf[msc[d]]][id[d]] = stack[InstOf[msc[d]]][id[d]]
  <2>1. id[d] \in Id /\ InstOf[msc[d]] \in Inst /\ id[d] # id[c]
    BY <1>1, <1>4 DEF IInv, LiveConns, ConnIdsUnique
  <2>. QED
    BY <1>1, <2>1 DEF NConnectCnf, IInv, TypeOK
<1>5. stack'[InstOf[msc[c]]][id[c]] = "open"
  BY <1>1 DEF NConnectCnf, IInv, TypeOK
<1>6. SccpStateAgrees'
  BY <1>4, <1>5 DEF NConnectCnf, IInv, TypeOK, SccpStateAgrees
<1>. QED
  BY <1>2, <1>3, <1>6 DEF IInv

\* An N-CONNECT for an id in use leaves the conns alone, and the stack's
\* connection of the conn that has the id is another one, as it was not idle.
LEMMA NConnectKeepsInv ==
    ASSUME IInv, NEW c \in Conn, NEW m \in Msc, NEW i \in Id,
           handle_n_connect_from_msc(c, m, i)
    PROVE  IInv'
<1>. USE AInterfaceAssumption
<1>1. CASE ByConnId(i) = {}
  <2>1. lchan' = [lchan EXCEPT ![c] = "none"]
    BY <1>1 DEF handle_n_connect_from_msc, IInv, TypeOK, LiveConns
  <2>2. counter' \in Id
    BY DEF handle_n_connect_from_msc, IInv, TypeOK
  <2>3. Opened(c, m, i, "INIT", "CONNECTED", "open", "none")
    BY <1>1, <2>1 DEF handle_n_connect_from_msc, Opened
  <2>. QED
    BY <2>2, <2>3, NewConnKeepsInv
<1>2. CASE ByConnId(i) # {}
  <2>1. /\ UNCHANGED <<resetVars, connVars, counter, early, abort>>
        /\ stack' = [stack EXCEPT ![InstOf[m]][i] = "called"]
        /\ stack[InstOf[m]][i] = "idle"
    BY <1>2 DEF handle_n_connect_from_msc
  <2>2. TypeOK' /\ ResetsBounded' /\ LiveConns' /\ ConnIdsUnique'
    BY <2>1 DEF IInv, TypeOK, ResetsBounded, LiveConns, ConnIdsUnique, resetVars, connVars
  <2>3. ASSUME NEW d \in Conn, state[d] # "free"
        PROVE  stack'[InstOf[msc[d]]][id[d]] = stack[InstOf[msc[d]]][id[d]]
    <3>1. id[d] \in Id /\ InstOf[msc[d]] \in Inst /\ sccp[d] # "NONE"
      BY <2>3 DEF IInv, LiveConns, SccpStateAgrees
    <3>2. stack[InstOf[msc[d]]][id[d]] # "idle"
      BY <3>1 DEF IInv, TypeOK, SccpStateAgrees
    <3>. QED
      BY <2>1, <3>1, <3>2 DEF IInv, TypeOK
  <2>4. SccpStateAgrees'
    BY <2>1, <2>3 DEF IInv, SccpStateAgrees, connVars
  <2>. QED
    BY <2>2, <2>4 DEF IInv
<1>. QED
  BY <1>1, <1>2

\* Data on an open connection resets the failure count at most.
LEMMA DataFacts ==
    ASSUME IInv, NEW c \in Conn, DataFromMsc(c)
    PROVE  /\ sccp[c] = "CONNECTED"
           /\ loss' \in [Msc -> 0..BAD_CONNECTION_THRESOLD]
           /\ reset' \in [Msc -> {"DISC", "CONN"}]
           /\ early' \in BOOLEAN
           /\ UNCHANGED <<msc, id, sccp, counter, stack, toMsc, acks, sent>>
<1>1. sccp[c] # "NONE" /\ sccp[c] \in {"NONE", "WAIT_CONN_CONF", "CONNECTED"}
  BY DEF DataFromMsc, IInv, TypeOK, SccpStateAgrees
<1>2. sccp[c] # "WAIT_CONN_CONF"
  BY DEF DataFromMsc, IInv, SccpStateAgrees
<1>3. loss' \in [Msc -> 0..BAD_CONNECTION_THRESOLD]
  <2>1. loss' = loss \/ loss' = [loss EXCEPT ![msc[c]] = 0]
    BY DEF DataFromMsc, a_reset_conn_success
  <2>2. loss \in [Msc -> 0..BAD_CONNECTION_THRESOLD]
    BY DEF IInv, TypeOK
  <2>. QED
    BY <2>1, <2>2 DEF BAD_CONNECTION_THRESOLD
<1>4. /\ reset' \in [Msc -> {"DISC", "CONN"}] /\ early' \in BOOLEAN
      /\ UNCHANGED <<msc, id, sccp, counter, stack, toMsc, acks, sent>>
  BY DEF DataFromMsc, IInv, TypeOK
<1>. QED
  BY <1>1, <1>2, <1>3, <1>4

\* What an ordinary conn step must keep, for SameConnsKeepInv.
LEMMA ConnKeepsInv ==
    ASSUME IInv, NEW c \in Conn, ConnNext(c)
    PROVE  IInv'
<1>. USE AInterfaceAssumption
<1>1. ASSUME NEW m \in Msc, gsm0408_rcvmsg(c, m)
      PROVE  IInv'
  <2>1. PICK i \in Id : /\ pick_free_conn_id(i)
                        /\ id' = [id EXCEPT ![c] = i]
                        /\ counter' = i
                        /\ stack' = [stack EXCEPT ![InstOf[m]][i] = "calling"]
    BY ZenonT(60), <1>1 DEF gsm0408_rcvmsg
  <2>2. ByConnId(i) = {}
    BY <2>1, PickedIdIsFree DEF IInv
  <2>3. Opened(c, m, i, "WAIT_CC", "WAIT_CONN_CONF", "calling", "ok")
    BY <1>1, <2>1, <2>2 DEF gsm0408_rcvmsg, Opened
  <2>4. counter' \in Id
    BY <2>1
  <2>. QED
    BY <2>3, <2>4, NewConnKeepsInv
<1>2. CASE NConnectCnf(c)
  BY <1>2, ConfirmKeepsInv
<1>3. CASE gscon_timer_cb(c)
  BY <1>3, TimeoutKeepsInv
<1>4. ASSUME NEW m \in Msc, NEW i \in Id, handle_n_connect_from_msc(c, m, i)
      PROVE  IInv'
  BY <1>4, NConnectKeepsInv
<1>5. CASE NDataClearCmd(c)
  <2>1. DataFromMsc(c)
    BY <1>5 DEF NDataClearCmd
  <2>2. state[c] # "free" /\ sccp[c] = "CONNECTED"
    BY <2>1, DataFacts DEF DataFromMsc
  <2>. QED
    BY <1>5, <2>1, <2>2, DataFacts, SameConnsKeepInv
    DEF NDataClearCmd, IInv, TypeOK, LiveConns, ConnState
<1>6. ASSUME NEW speech \in BOOLEAN, NDataAssignmentRqst(c, speech)
      PROVE  IInv'
  <2>1. DataFromMsc(c)
    BY <1>6 DEF NDataAssignmentRqst
  <2>2. state[c] # "free" /\ sccp[c] = "CONNECTED"
    BY <2>1, DataFacts DEF DataFromMsc
  <2>3. abort' \in BOOLEAN /\ UNCHANGED <<lchan, ending>>
    BY <1>6 DEF NDataAssignmentRqst
  <2>4. \/ state' = state
        \/ state' = [state EXCEPT ![c] = "ASSIGNMENT"]
    BY <1>6 DEF NDataAssignmentRqst
  <2>5. /\ state' \in [Conn -> ConnState]
        /\ \A d \in Conn : state'[d] = "free" <=> state[d] = "free"
        /\ \A d \in Conn : sccp[d] = "WAIT_CONN_CONF" => state'[d] = state[d]
    BY <2>2, <2>4 DEF IInv, TypeOK, ConnState
  <2>6. /\ lchan' \in [Conn -> {"none", "ok", "failed"}] /\ ending' \subseteq Conn
        /\ \A d \in Conn : state'[d] = "free" => lchan'[d] = "none"
    BY <2>3, <2>5 DEF IInv, TypeOK, LiveConns
  <2>. QED
    BY <2>1, <2>3, <2>5, <2>6, DataFacts, SameConnsKeepInv
<1>7. CASE NDataCipherModeCmd(c)
  <2>1. DataFromMsc(c)
    BY ZenonT(60), <1>7 DEF NDataCipherModeCmd
  <2>2. abort' \in BOOLEAN /\ UNCHANGED <<state, lchan, ending>>
    BY <1>7 DEF NDataCipherModeCmd
  <2>. QED
    BY <2>1, <2>2, DataFacts, SameConnsKeepInv DEF IInv, TypeOK, LiveConns
<1>8. CASE InterBscInEnd(c)
  <2>1. early' \in BOOLEAN
    BY ZenonT(60), <1>8 DEF InterBscInEnd, osmo_bsc_sigtran_send
  <2>2. state[c] = "INIT" /\ sccp[c] # "WAIT_CONN_CONF"
    BY ZenonT(60), <1>8 DEF InterBscInEnd, IInv, SccpStateAgrees
  <2>3. state' = [state EXCEPT ![c] = "ACTIVE"] \/ state' = [state EXCEPT ![c] = "CLEARING"]
    BY <1>8 DEF InterBscInEnd
  <2>4. /\ state' \in [Conn -> ConnState]
        /\ \A d \in Conn : state'[d] = "free" <=> state[d] = "free"
        /\ \A d \in Conn : sccp[d] = "WAIT_CONN_CONF" => state'[d] = state[d]
    BY <2>2, <2>3 DEF IInv, TypeOK, ConnState
  <2>5. lchan' = lchan \/ lchan' = [lchan EXCEPT ![c] = "ok"]
    BY <1>8 DEF InterBscInEnd
  <2>6. /\ lchan' \in [Conn -> {"none", "ok", "failed"}]
        /\ \A d \in Conn : state'[d] = "free" => lchan'[d] = "none"
    BY <2>2, <2>4, <2>5 DEF IInv, TypeOK, LiveConns
  <2>7. ending' \subseteq Conn /\ abort' \in BOOLEAN
        /\ UNCHANGED <<resetVars, msc, id, sccp, counter, stack>>
    BY <1>8 DEF InterBscInEnd, IInv, TypeOK
  <2>. QED
    BY <2>1, <2>4, <2>6, <2>7, SameConnsKeepInv DEF IInv, TypeOK, resetVars
<1>9. CASE HandoverStart(c)
  <2>1. state[c] = "ACTIVE" /\ sccp[c] # "WAIT_CONN_CONF"
    BY ZenonT(60), <1>9 DEF HandoverStart, IInv, SccpStateAgrees
  <2>. QED
    BY <1>9, <2>1, SameConnsKeepInv
    DEF HandoverStart, IInv, TypeOK, LiveConns, ConnState, resetVars
<1>10. CASE ProcedureEnd(c)
  <2>1. early' \in BOOLEAN
    BY ZenonT(60), <1>10 DEF ProcedureEnd, osmo_bsc_sigtran_send, IInv, TypeOK
  <2>2. state[c] \in {"ASSIGNMENT", "HANDOVER"} /\ sccp[c] # "WAIT_CONN_CONF"
    BY ZenonT(60), <1>10 DEF ProcedureEnd, IInv, SccpStateAgrees
  <2>. QED
    BY <1>10, <2>1, <2>2, SameConnsKeepInv
    DEF ProcedureEnd, IInv, TypeOK, LiveConns, ConnState, resetVars
<1>11. CASE gscon_lchan_releasing(c)
  <2>1. early' \in BOOLEAN
    BY ZenonT(60), <1>11 DEF gscon_lchan_releasing, osmo_bsc_sigtran_send
  <2>2. state[c] # "free" /\ (sccp[c] = "WAIT_CONN_CONF" => state[c] = "WAIT_CC")
    BY ZenonT(60), <1>11 DEF gscon_lchan_releasing, IInv, LiveConns, SccpStateAgrees
  <2>. QED
    BY <1>11, <2>1, <2>2, SameConnsKeepInv
    DEF gscon_lchan_releasing, IInv, TypeOK, LiveConns, ConnState, resetVars
<1>12. CASE gscon_forget_lchan(c) \/ RslConnFail(c)
  <2>1. early' \in BOOLEAN
    BY ZenonT(60), <1>12 DEF gscon_forget_lchan, RslConnFail, osmo_bsc_sigtran_send, IInv, TypeOK
  <2>2. state[c] # "free"
    BY <1>12 DEF gscon_forget_lchan, RslConnFail, IInv, LiveConns
  <2>. QED
    BY ZenonT(60), <1>12, <2>1, <2>2, SameConnsKeepInv
    DEF gscon_forget_lchan, RslConnFail, IInv, TypeOK, LiveConns, resetVars
<1>. QED
  BY <1>1, <1>2, <1>3, <1>4, <1>5, <1>6, <1>7, <1>8, <1>9, <1>10, <1>11, <1>12
  DEF ConnNext

\* No step breaks the inductive invariant.
LEMMA StepKeepsInv == IInv /\ [Next]_vars => IInv'
<1>. SUFFICES ASSUME IInv, [Next]_vars PROVE IInv'
  OBVIOUS
<1>1. CASE UNCHANGED vars
  BY <1>1 DEF IInv, TypeOK, ResetsBounded, LiveConns, ConnIdsUnique, SccpStateAgrees,
              vars, resetVars, connVars
<1>2. CASE Next
  BY <1>2, ResetKeepsInv, ConnKeepsInv, DisconnectKeepsInv DEF Next
<1>. QED
  BY <1>1, <1>2

-----------------------------------------------------------------------------
\* The values of every variable stay in their sets; in particular, the count
\* of lost connections never passes the threshold that triggers the reset.
THEOREM TypeCorrect == Spec => []TypeOK
<1>1. IInv => TypeOK
  BY DEF IInv
<1>. QED
  BY <1>1, InitIInv, StepKeepsInv, PTL DEF Spec

\* No two conns ever share an SCCP connection id, however often the counter of
\* pick_free_conn_id() has wrapped and whatever ids the stack hands in, and what each
\* conn holds about its connection is what the stack has, for any number of SS7 instances.
THEOREM ConnsAlwaysMatch == Spec => []ConnsMatch
<1>1. IInv => ConnsMatch
  BY DEF IInv, ConnsMatch
<1>. QED
  BY <1>1, InitIInv, StepKeepsInv, PTL DEF Spec

-----------------------------------------------------------------------------
\* No step but the opening of a connection puts a conn into ST_WAIT_CC, and no
\* step but sending RESET makes an MSC one that was sent a RESET.
LEMMA StepKeepsNoCall ==
    IInv /\ NoCallAcrossReset /\ [Next]_vars => NoCallAcrossReset'
<1>. SUFFICES ASSUME IInv, NoCallAcrossReset, [Next]_vars,
                     NEW m \in Msc, reset'[m] = "DISC", sent'[m],
                     NEW c \in Conn, state'[c] = "WAIT_CC", msc'[c] = m
              PROVE  FALSE
  BY ZenonT(60) DEF NoCallAcrossReset, ConnsOf
<1>0. /\ state \in [Conn -> ConnState] /\ msc \in [Conn -> Msc \cup {None}]
      /\ reset \in [Msc -> {"DISC", "CONN"}] /\ sent \in [Msc -> BOOLEAN]
  BY DEF IInv, TypeOK
<1>1. ASSUME state[c] = "WAIT_CC", msc[c] = m, reset[m] = "DISC", sent[m]
      PROVE  FALSE
  BY <1>0, <1>1 DEF NoCallAcrossReset, ConnsOf
<1>2. ASSUME NEW n \in Msc, ResetNext(n)
      PROVE  FALSE
  <2>1. state[c] = "WAIT_CC" /\ msc[c] = m
    BY <1>0, <1>2 DEF ResetNext, fsm_reset_ack_timeout_cb, bssmap_handle_reset_ack,
                bssmap_handle_reset, MscAnswersReset, ResetLost, gscon_cleanup, connVars
  <2>2. CASE fsm_reset_ack_timeout_cb(n)
    <3>1. CASE n = m
      <4>1. c \in ConnsOf(n)
        BY <1>0, <2>1, <3>1 DEF ConnsOf
      <4>. QED
        BY ZenonT(60), <1>0, <2>2, <4>1 DEF fsm_reset_ack_timeout_cb, gscon_cleanup
    <3>2. CASE n # m
      BY <1>0, <1>1, <2>1, <2>2, <3>2 DEF fsm_reset_ack_timeout_cb
    <3>. QED
      BY <3>1, <3>2
  <2>3. CASE bssmap_handle_reset_ack(n)
    BY <1>0, <1>1, <2>1, <2>3 DEF bssmap_handle_reset_ack
  <2>4. CASE bssmap_handle_reset(n) \/ MscAnswersReset(n) \/ ResetLost(n)
    BY <1>0, <1>1, <2>1, <2>4 DEF bssmap_handle_reset, MscAnswersReset, ResetLost, resetVars
  <2>. QED
    BY <1>0, <1>2, <2>2, <2>3, <2>4 DEF ResetNext
<1>3. ASSUME NEW d \in Conn, NEW n \in Msc, gsm0408_rcvmsg(d, n)
      PROVE  FALSE
  <2>1. reset[m] = "DISC" /\ sent[m] /\ reset[n] = "CONN"
    BY <1>0, <1>3 DEF gsm0408_rcvmsg, a_reset_conn_ready, resetVars
  <2>2. CASE c = d
    BY <1>0, <1>3, <2>1, <2>2 DEF gsm0408_rcvmsg
  <2>3. CASE c # d
    BY <1>0, <1>1, <1>3, <2>1, <2>3 DEF gsm0408_rcvmsg
  <2>. QED
    BY <2>2, <2>3
<1>4. ASSUME NEW d \in Conn, gscon_timer_cb(d)
      PROVE  FALSE
  <2>1. state[c] = "WAIT_CC" /\ msc[c] = m
    BY <1>0, <1>4 DEF gscon_timer_cb, gscon_cleanup
  <2>2. reset[m] = "DISC" /\ sent[m]
    BY <1>0, <1>4, AInterfaceAssumption DEF gscon_timer_cb, a_reset_conn_fail, LiveConns
  <2>. QED
    BY <1>1, <2>1, <2>2
<1>5. ASSUME NEW n \in Inst, NEW i \in Id, NDisconnectInd(n, i)
      PROVE  FALSE
  BY <1>0, <1>1, <1>5 DEF NDisconnectInd, gscon_cleanup, resetVars
<1>6. ASSUME NEW d \in Conn, NEW n \in Msc, NEW i \in Id, handle_n_connect_from_msc(d, n, i)
      PROVE  FALSE
  BY <1>0, <1>1, <1>6 DEF handle_n_connect_from_msc, resetVars, connVars
<1>7. ASSUME NEW d \in Conn,
             \/ NConnectCnf(d) \/ InterBscInEnd(d) \/ NDataClearCmd(d)
             \/ (\E speech \in BOOLEAN : NDataAssignmentRqst(d, speech))
             \/ NDataCipherModeCmd(d) \/ HandoverStart(d) \/ ProcedureEnd(d)
             \/ gscon_lchan_releasing(d) \/ gscon_forget_lchan(d) \/ RslConnFail(d)
      PROVE  FALSE
  <2>1. reset' = reset /\ sent' = sent /\ msc' = msc
    BY <1>0, <1>7 DEF NConnectCnf, InterBscInEnd, NDataClearCmd, NDataAssignmentRqst,
                NDataCipherModeCmd, DataFromMsc, HandoverStart, ProcedureEnd,
                gscon_lchan_releasing, gscon_forget_lchan, RslConnFail, resetVars
  <2>2. \/ state' = state
        \/ \E t \in {"ACTIVE", "CLEARING", "ASSIGNMENT", "HANDOVER"} :
               state' = [state EXCEPT ![d] = t]
    BY <1>0, <1>7 DEF NConnectCnf, InterBscInEnd, NDataClearCmd, NDataAssignmentRqst,
                NDataCipherModeCmd, HandoverStart, ProcedureEnd,
                gscon_lchan_releasing, gscon_forget_lchan, RslConnFail
  <2>3. DOMAIN state = Conn
    BY ZenonT(60) DEF IInv, TypeOK
  <2>4. CASE \E t \in {"ACTIVE", "CLEARING", "ASSIGNMENT", "HANDOVER"} :
                state' = [state EXCEPT ![d] = t]
    <3>1. PICK t \in {"ACTIVE", "CLEARING", "ASSIGNMENT", "HANDOVER"} :
              state' = [state EXCEPT ![d] = t]
      BY ZenonT(60), <2>4
    <3>2. c # d
      BY <3>1, <2>3
    <3>. QED
      BY <1>1, <2>1, <2>3, <3>1, <3>2
  <2>5. CASE state' = state
    BY <1>1, <2>1, <2>5
  <2>. QED
    BY <2>2, <2>4, <2>5
<1>8. CASE UNCHANGED vars
  BY <1>0, <1>1, <1>8 DEF vars, resetVars, connVars
<1>. QED
  BY ZenonT(60), <1>0, <1>2, <1>3, <1>4, <1>5, <1>6, <1>7, <1>8 DEF Next, ConnNext

\* Once a RESET is sent, no connection that was being opened before it is still
\* waiting, until the MSC has answered.
THEOREM NoCallsDuringReset == Spec => []NoCallAcrossReset
<1>1. Init => NoCallAcrossReset
  BY DEF Init, NoCallAcrossReset
<1>. QED
  BY <1>1, InitIInv, StepKeepsInv, StepKeepsNoCall, PTL DEF Spec

-----------------------------------------------------------------------------
\* All MSCs are reached through one SS7 instance, as the code's comments expect.
SingleInstance == \A m, n \in Inst : m = n

\* The conn c answers for the connection i of instance n.
Holds(c, n, i) == state[c] # "free" /\ id[c] = i /\ InstOf[msc[c]] = n

LEMMA HoldsIt == NoOrphanedConnection <=>
    \A n \in Inst, i \in Id : stack[n][i] # "idle" => \E c \in Conn : Holds(c, n, i)
  BY DEF NoOrphanedConnection, ByConnId, Holds

\* A conn has its connection in the stack as long as it lives.
LEMMA LiveIsUp ==
    ASSUME IInv, NEW c \in Conn, state[c] # "free"
    PROVE  /\ c \in SccpUp /\ id[c] \in Id /\ msc[c] \in Msc /\ InstOf[msc[c]] \in Inst
           /\ stack[InstOf[msc[c]]][id[c]] # "idle"
<1>1. id[c] \in Id /\ msc[c] \in Msc
  BY DEF IInv, LiveConns
<1>2. InstOf[msc[c]] \in Inst
  BY <1>1, AInterfaceAssumption
<1>3. sccp[c] # "NONE"
  BY DEF IInv, SccpStateAgrees
<1>4. sccp[c] \in {"WAIT_CONN_CONF", "CONNECTED"}
  BY <1>3 DEF IInv, TypeOK
<1>5. stack[InstOf[msc[c]]][id[c]] # "idle"
  BY <1>4 DEF IInv, SccpStateAgrees
<1>. QED
  BY <1>1, <1>2, <1>3, <1>5 DEF SccpUp

\* With one instance, no step leaves a connection without its conn.
LEMMA StepKeepsNoOrphan ==
    SingleInstance /\ IInv /\ NoOrphanedConnection /\ [Next]_vars => NoOrphanedConnection'
<1>. SUFFICES ASSUME SingleInstance, IInv, NoOrphanedConnection, [Next]_vars,
                     NEW n \in Inst, NEW i \in Id, stack'[n][i] # "idle"
              PROVE  \E c \in Conn : Holds(c, n, i)'
  BY DEF NoOrphanedConnection, ByConnId, Holds
<1>. USE AInterfaceAssumption
<1>1. ASSUME stack[n][i] # "idle"
      PROVE  \E c \in Conn : Holds(c, n, i)
  BY <1>1, HoldsIt
<1>2. ASSUME NEW S \in SUBSET Conn, gscon_cleanup(S, SccpUp, stack)
      PROVE  \E c \in Conn : Holds(c, n, i)'
  <2>1. stack[n][i] # "idle" /\ ~\E c \in S \cap SccpUp : InstOf[msc[c]] = n /\ id[c] = i
    BY <1>2 DEF gscon_cleanup
  <2>2. PICK c \in Conn : Holds(c, n, i)
    BY <1>1, <2>1
  <2>3. c \notin S
    BY <2>1, <2>2, LiveIsUp DEF Holds
  <2>. QED
    BY <1>2, <2>2, <2>3 DEF gscon_cleanup, Holds
<1>3. ASSUME UNCHANGED <<msc, id, stack>>,
             \A c \in Conn : state'[c] = "free" => state[c] = "free"
      PROVE  \E c \in Conn : Holds(c, n, i)'
  BY <1>1, <1>3 DEF Holds
<1>4. ASSUME NEW d \in Conn, NEW m \in Msc, NEW j \in Id, NEW x,
             state[d] = "free", state'[d] # "free",
             \A c \in Conn \ {d} : state'[c] = state[c],
             msc' = [msc EXCEPT ![d] = m], id' = [id EXCEPT ![d] = j],
             stack' = [stack EXCEPT ![InstOf[m]][j] = x]
      PROVE  \E c \in Conn : Holds(c, n, i)'
  <2>1. CASE n = InstOf[m] /\ i = j
    <3>1. Holds(d, n, i)'
      BY <1>4, <2>1 DEF Holds, IInv, TypeOK
    <3>. QED
      BY <3>1
  <2>2. CASE ~(n = InstOf[m] /\ i = j)
    <3>1. stack[n][i] # "idle"
      BY <1>4, <2>2 DEF IInv, TypeOK
    <3>2. PICK c \in Conn : Holds(c, n, i)
      BY <1>1, <3>1
    <3>. QED
      BY <1>4, <3>2 DEF Holds, IInv, TypeOK
  <2>. QED
    BY <2>1, <2>2
<1>5. ASSUME NEW m \in Msc, ResetNext(m)
      PROVE  \E c \in Conn : Holds(c, n, i)'
  <2>1. ConnsOf(m) \in SUBSET Conn
    BY DEF ConnsOf
  <2>. QED
    BY ZenonT(60), <1>2, <1>3, <1>5, <2>1
    DEF ResetNext, fsm_reset_ack_timeout_cb, bssmap_handle_reset_ack,
        bssmap_handle_reset, MscAnswersReset, ResetLost, connVars
<1>6. ASSUME NEW k \in Inst, NEW j \in Id, NDisconnectInd(k, j)
      PROVE  \E c \in Conn : Holds(c, n, i)'
  <2>1. stack' = [p \in Inst |-> [q \in Id |-> [stack EXCEPT ![k][j] = "idle"][p][q]]]
    BY <1>6 DEF NDisconnectInd, gscon_cleanup
  <2>2. n = k
    BY DEF SingleInstance
  <2>3. i # j /\ stack[n][i] # "idle"
    BY <2>1, <2>2 DEF IInv, TypeOK
  <2>4. PICK c \in Conn : Holds(c, n, i)
    BY <1>1, <2>3
  <2>5. c \notin ByConnId(j)
    BY <2>3, <2>4 DEF ByConnId, Holds
  <2>. QED
    BY <1>6, <2>4, <2>5 DEF NDisconnectInd, gscon_cleanup, Holds
<1>7. ASSUME NEW d \in Conn, ConnNext(d)
      PROVE  \E c \in Conn : Holds(c, n, i)'
  <2>1. ASSUME NEW m \in Msc, gsm0408_rcvmsg(d, m)
        PROVE  \E c \in Conn : Holds(c, n, i)'
    BY ZenonT(60), <1>4, <2>1 DEF gsm0408_rcvmsg, IInv, TypeOK
  <2>2. ASSUME NEW m \in Msc, NEW j \in Id, handle_n_connect_from_msc(d, m, j)
        PROVE  \E c \in Conn : Holds(c, n, i)'
    <3>1. ByConnId(j) = {}
      <4>1. ASSUME NEW c \in ByConnId(j) PROVE FALSE
        <5>1. c \in Conn /\ state[c] # "free" /\ id[c] = j
          BY <4>1 DEF ByConnId
        <5>2. InstOf[msc[c]] = InstOf[m] /\ stack[InstOf[msc[c]]][id[c]] # "idle"
          BY <5>1, LiveIsUp DEF SingleInstance
        <5>. QED
          BY <2>2, <5>1, <5>2 DEF handle_n_connect_from_msc
      <4>. QED
        BY <4>1
    <3>2. /\ state[d] = "free" /\ state' = [state EXCEPT ![d] = "INIT"]
          /\ msc' = [msc EXCEPT ![d] = m] /\ id' = [id EXCEPT ![d] = j]
          /\ stack' = [stack EXCEPT ![InstOf[m]][j] = "open"]
      BY <2>2, <3>1 DEF handle_n_connect_from_msc
    <3>3. state'[d] # "free" /\ \A c \in Conn \ {d} : state'[c] = state[c]
      BY <3>2 DEF IInv, TypeOK
    <3>. QED
      BY ZenonT(60), <1>4, <3>2, <3>3
  <2>3. CASE NConnectCnf(d)
    <3>1. state[d] # "free" /\ msc' = msc /\ id' = id
          /\ \A c \in Conn : state'[c] = "free" => state[c] = "free"
      BY <2>3 DEF NConnectCnf, IInv, TypeOK
    <3>2. CASE n = InstOf[msc[d]] /\ i = id[d]
      <4>1. Holds(d, n, i)'
        BY <3>1, <3>2 DEF Holds
      <4>. QED
        BY <4>1
    <3>3. CASE ~(n = InstOf[msc[d]] /\ i = id[d])
      <4>1. stack[n][i] # "idle"
        BY <2>3, <3>1, <3>3, LiveIsUp DEF NConnectCnf, IInv, TypeOK
      <4>. QED
        BY <1>1, <3>1, <4>1 DEF Holds
    <3>. QED
      BY <3>2, <3>3
  <2>4. CASE gscon_timer_cb(d)
    <3>1. {d} \in SUBSET Conn
      OBVIOUS
    <3>. QED
      BY ZenonT(60), <1>2, <2>4, <3>1 DEF gscon_timer_cb
  <2>5. ASSUME \/ InterBscInEnd(d) \/ NDataClearCmd(d)
               \/ (\E speech \in BOOLEAN : NDataAssignmentRqst(d, speech))
               \/ NDataCipherModeCmd(d) \/ HandoverStart(d) \/ ProcedureEnd(d)
               \/ gscon_lchan_releasing(d) \/ gscon_forget_lchan(d) \/ RslConnFail(d)
        PROVE  \E c \in Conn : Holds(c, n, i)'
    <3>1. UNCHANGED <<msc, id, stack>>
      BY ZenonT(60), <2>5 DEF InterBscInEnd, NDataClearCmd, NDataAssignmentRqst,
                  NDataCipherModeCmd, DataFromMsc, HandoverStart, ProcedureEnd,
                  gscon_lchan_releasing, gscon_forget_lchan, RslConnFail
    <3>2. \/ state' = state
          \/ \E t \in {"ACTIVE", "CLEARING", "ASSIGNMENT", "HANDOVER"} :
                 state' = [state EXCEPT ![d] = t]
      BY ZenonT(60), <2>5 DEF InterBscInEnd, NDataClearCmd, NDataAssignmentRqst,
                  NDataCipherModeCmd, HandoverStart, ProcedureEnd,
                  gscon_lchan_releasing, gscon_forget_lchan, RslConnFail
    <3>3. \A c \in Conn : state'[c] = "free" => state[c] = "free"
      BY <3>2 DEF IInv, TypeOK
    <3>. QED
      BY ZenonT(60), <1>3, <3>1, <3>3
  <2>. QED
    BY ZenonT(60), <1>7, <2>1, <2>2, <2>3, <2>4, <2>5 DEF ConnNext
<1>8. CASE UNCHANGED vars
  BY <1>3, <1>8 DEF vars, connVars
<1>. QED
  BY <1>5, <1>6, <1>7, <1>8 DEF Next

\* With a single SS7 instance every connection in the SCCP stack has its conn,
\* so that none is left open when conns end in whatever order.  (With several
\* instances two connections can have one id, and this fails.)
THEOREM NoOrphans ==
    ASSUME SingleInstance
    PROVE  Spec => []NoOrphanedConnection
<1>0. IInv /\ NoOrphanedConnection /\ [Next]_vars => NoOrphanedConnection'
  BY StepKeepsNoOrphan
<1>1. Init => NoOrphanedConnection
  <2>. SUFFICES ASSUME Init, NEW n \in Inst, NEW i \in Id
                PROVE  stack[n][i] = "idle"
    BY DEF NoOrphanedConnection
  <2>. QED
    BY DEF Init
<1>. QED
  BY <1>0, <1>1, InitIInv, StepKeepsInv, PTL DEF Spec

=============================================================================
