----------------------------- MODULE Pcu_proofs -----------------------------
(***************************************************************************)
(* The PCU socket, for any number of timeslots, any limit of the queue and *)
(* any number of events: it is never left deaf, holds messages for a       *)
(* connected PCU only, and that PCU ends up knowing the timeslots.         *)
(***************************************************************************)
EXTENDS Pcu, SequenceTheorems, WellFoundedInduction, TLAPS

\* A set of natural numbers that is not empty has a least element.
LEMMA LeastExists ==
    ASSUME NEW D \in SUBSET Nat, D # {}
    PROVE  \E x \in D : \A y \in D : x <= y
<1> DEFINE R == OpToRel(<, Nat)
<1>1. IsWellFoundedOn(R, Nat)
  BY NatLessThanWellFounded
<1>2. PICK x \in D : \A y \in D : ~ (<<y, x>> \in R)
  <2> HIDE DEF R
  <2> QED BY <1>1, WFMin
<1>3. \A y \in D : ~ (y < x)
  BY <1>2 DEF OpToRel
<1> QED BY ONLY <1>3, D \in SUBSET Nat, x \in D

\* A set of places of a queue that is not empty has a last one.
LEMMA GreatestExists ==
    ASSUME NEW n \in Nat, NEW T \in SUBSET (1 .. n), T # {}
    PROVE  \E i \in T : \A j \in T : j <= i
<1> DEFINE D == {n - i : i \in T}
<1>1. \A i \in T : n - i \in Nat
  OBVIOUS
<1>2. D \subseteq Nat
  BY <1>1
<1>3. D # {}
  BY Zenon
<1>4. PICK x \in D : \A y \in D : x <= y
  <2> HIDE DEF D
  <2> QED BY <1>2, <1>3, LeastExists
<1>5. PICK i \in T : x = n - i
  OBVIOUS
<1>6. ASSUME NEW j \in T
      PROVE  j <= i
  <2>1. n - j \in D
    OBVIOUS
  <2>2. n - i <= n - j
    BY <2>1, <1>4, <1>5
  <2> HIDE DEF D
  <2> QED BY <2>2
<1> QED BY <1>6

-----------------------------------------------------------------------------

\* The messages the BSC sends a PCU
PcMsgs == [type : {"INFO_IND"}, mask : SUBSET PcTs] \cup [type : {"RACH_IND", "DATA_CNF_DT"}]

\* The places of a queue with news of the timeslots
Infos(q) == {i \in 1 .. Len(q) : q[i].type = "INFO_IND"}

\* The last news on its way is up to date, but for the timeslots u; if there is none on its way, the last
\* that has arrived is.
Informed(q, told, mask, u) ==
    /\ \A i \in Infos(q) : (\A j \in Infos(q) : j <= i) => q[i].mask \ u = mask \ u
    /\ Infos(q) = {} /\ told # <<>> => told[1] \ u = mask \ u

\* The types, and that the BTS never holds more than the events account for
PcTypes ==
    /\ pc_site \in PcSite /\ pc_site \in PcSites
    /\ pc_sock \in BOOLEAN /\ pc_listen \in BOOLEAN /\ pc_conn \in BOOLEAN /\ pc_write \in BOOLEAN
    /\ pc_up \in SUBSET PcLinks /\ pc_untold \in SUBSET PcTs
    /\ pc_queue \in Seq(PcMsgs) /\ Len(pc_queue) <= pc_site.len + 1
    /\ pc_ts \in [PcTs -> [enabled : BOOLEAN, pdch : BOOLEAN]]
    /\ pc_told = <<>> \/ \E s \in SUBSET PcTs : pc_told = <<s>>
    /\ pc_held \in Nat /\ pc_left \in Nat /\ pc_held + pc_left <= pc_site.events

\* The inductive invariant
PcInv ==
    /\ PcTypes
    /\ PcListens
    /\ PcQueueIsForPcu
    /\ pc_told # <<>> => pc_conn
    /\ Informed(pc_queue, pc_told, PdchMask(pc_ts), pc_untold)

\* An empty queue for a PCU that knows nothing is informed.
LEMMA NothingTold ==
    ASSUME NEW mask, NEW u
    PROVE  Informed(<<>>, <<>>, mask, u)
BY DEF Informed, Infos

\* The queue without messages has no news.
LEMMA EmptyQueue == <<>> \in Seq(PcMsgs) /\ Len(<<>>) = 0
OBVIOUS

\* pcu_info_update() puts the latest news at the end of the queue.
LEMMA NewsQueued ==
    ASSUME NEW q \in Seq(PcMsgs), NEW told, NEW mask \in SUBSET PcTs, NEW u
    PROVE  Informed(Append(q, [type |-> "INFO_IND", mask |-> mask]), told, mask, u)
<1> DEFINE m == [type |-> "INFO_IND", mask |-> mask]
           r == Append(q, m)
<1>1. m \in PcMsgs /\ m.type = "INFO_IND" /\ m.mask = mask
  BY DEF PcMsgs
<1> HIDE DEF m
<1>2. Len(r) = Len(q) + 1 /\ r[Len(q) + 1] = m /\ Len(q) \in Nat
  BY <1>1, AppendProperties, LenProperties
<1> HIDE DEF r
<1>3. Len(q) + 1 \in Infos(r)
  BY <1>1, <1>2 DEF Infos
<1>4. ASSUME NEW i \in Infos(r), \A j \in Infos(r) : j <= i
      PROVE  r[i].mask = mask
  <2>1. i \in 1 .. Len(q) + 1 /\ Len(q) + 1 <= i
    BY <1>2, <1>3, <1>4 DEF Infos
  <2>2. i = Len(q) + 1
    BY <1>2, <2>1
  <2> QED BY <1>1, <1>2, <2>2
<1>5. Informed(r, told, mask, u)
  BY <1>3, <1>4 DEF Informed
<1> QED BY <1>5 DEF r, m

\* Any other message leaves the news in their places.
LEMMA OtherQueued ==
    ASSUME NEW q \in Seq(PcMsgs), NEW told, NEW mask, NEW u, NEW m \in PcMsgs, m.type # "INFO_IND",
           Informed(q, told, mask, u)
    PROVE  Informed(Append(q, m), told, mask, u)
<1> DEFINE r == Append(q, m)
<1>1. /\ Len(r) = Len(q) + 1 /\ r[Len(q) + 1] = m /\ Len(q) \in Nat
      /\ \A i \in 1 .. Len(q) : r[i] = q[i]
  BY AppendProperties, LenProperties
<1> HIDE DEF r
<1>2. Infos(r) = Infos(q)
  BY <1>1 DEF Infos
<1>3. \A i \in Infos(q) : r[i] = q[i]
  BY <1>1 DEF Infos
<1>4. Informed(r, told, mask, u)
  BY <1>2, <1>3 DEF Informed
<1> QED BY <1>4 DEF r

\* A change that nobody is told of leaves the PCU informed of the other timeslots.
LEMMA ChangedUntold ==
    ASSUME NEW q, NEW told, NEW mask, NEW u, NEW mask2, NEW u2, u \subseteq u2,
           mask2 \ u2 = mask \ u2, Informed(q, told, mask, u)
    PROVE  Informed(q, told, mask2, u2)
<1>1. ASSUME NEW s, s \ u = mask \ u
      PROVE  s \ u2 = mask2 \ u2
  <2>1. s \ u2 = (s \ u) \ u2 /\ mask \ u2 = (mask \ u) \ u2
    OBVIOUS
  <2> QED BY <1>1, <2>1, Zenon
<1> QED BY <1>1 DEF Informed

\* pcu_sock_write() hands over a beginning of the queue: what arrives, and what remains, is informed.
LEMMA NewsWritten ==
    ASSUME PcTypes, NEW n \in 1 .. Len(pc_queue), NEW mask, NEW u
    PROVE  /\ SubSeq(pc_queue, n + 1, Len(pc_queue)) \in Seq(PcMsgs)
           /\ Len(SubSeq(pc_queue, n + 1, Len(pc_queue))) = Len(pc_queue) - n
           /\ Informed(pc_queue, pc_told, mask, u)
                => Informed(SubSeq(pc_queue, n + 1, Len(pc_queue)), ToldBy(n), mask, u)
           /\ ToldBy(n) = pc_told \/ \E s \in SUBSET PcTs : ToldBy(n) = <<s>>
<1> DEFINE q == pc_queue
           r == SubSeq(q, n + 1, Len(q))
           sent == {i \in 1 .. n : q[i].type = "INFO_IND"}
           last == CHOOSE i \in sent : \A j \in sent : j <= i
<1>1. /\ q \in Seq(PcMsgs) /\ Len(q) \in Nat /\ n \in 1 .. Len(q)
      /\ \A i \in 1 .. Len(q) : q[i] \in PcMsgs
  BY LenProperties, ElementOfSeq DEF PcTypes
<1>2. /\ r \in Seq(PcMsgs) /\ Len(r) = Len(q) - n
      /\ \A i \in 1 .. Len(q) - n : r[i] = q[n + i]
  <2>1. \A i \in n + 1 .. Len(q) : q[i] \in PcMsgs
    BY <1>1
  <2>2. /\ r \in Seq(PcMsgs)
        /\ Len(r) = IF n + 1 <= Len(q) THEN Len(q) - (n + 1) + 1 ELSE 0
        /\ \A i \in 1 .. Len(q) - (n + 1) + 1 : r[i] = q[n + 1 + i - 1]
    <3> HIDE DEF r
    <3> QED BY <1>1, <2>1, SubSeqProperties DEF r
  <2> HIDE DEF r
  <2> QED BY <1>1, <2>2
<1> HIDE DEF q, r
<1>3. \A i \in Infos(r) : n + i \in Infos(q)
  BY <1>1, <1>2 DEF Infos
<1>4. \A i \in Infos(q) : i > n => i - n \in Infos(r)
  <2> SUFFICES ASSUME NEW i \in Infos(q), i > n
               PROVE  i - n \in Infos(r)
    OBVIOUS
  <2>1. i \in 1 .. Len(q) /\ q[i].type = "INFO_IND"
    BY DEF Infos
  <2>2. i - n \in 1 .. Len(r) /\ n + (i - n) = i
    BY <1>1, <1>2, <2>1
  <2>3. r[i - n] = q[i]
    BY <1>1, <1>2, <2>2
  <2> QED BY <2>1, <2>2, <2>3 DEF Infos
<1>5. ASSUME Informed(pc_queue, pc_told, mask, u)
      PROVE  \A i \in Infos(r) : (\A j \in Infos(r) : j <= i) => r[i].mask \ u = mask \ u
  <2> SUFFICES ASSUME NEW i \in Infos(r), \A j \in Infos(r) : j <= i
               PROVE  r[i].mask \ u = mask \ u
    OBVIOUS
  <2>1. n + i \in Infos(q) /\ i \in 1 .. Len(q) - n /\ r[i] = q[n + i]
    BY <1>2, <1>3 DEF Infos
  <2>2. ASSUME NEW j \in Infos(q)
        PROVE  j <= n + i
    <3>1. j \in Int /\ i \in Int
      BY <1>1, <2>1 DEF Infos
    <3>2. CASE j > n
      BY <1>4, <3>1, <3>2
    <3>3. CASE ~(j > n)
      BY <2>1, <3>1, <3>3
    <3> QED BY <3>2, <3>3
  <2>3. q[n + i].mask \ u = mask \ u
    BY <1>5, <2>1, <2>2 DEF Informed, q
  <2> QED BY <2>1, <2>3
<1>6. CASE sent = {}
  <2>1. ToldBy(n) = pc_told
    BY <1>6 DEF ToldBy, q
  <2>2. Infos(r) = {} => Infos(q) = {}
    <3> SUFFICES ASSUME Infos(r) = {}, NEW i \in Infos(q)
                 PROVE  FALSE
      OBVIOUS
    <3>1. i \in 1 .. Len(q) /\ q[i].type = "INFO_IND"
      BY DEF Infos
    <3>2. ~(i > n)
      BY <1>4
    <3>3. i \in sent
      BY <1>1, <3>1, <3>2
    <3> QED BY <1>6, <3>3
  <2> QED BY <1>2, <1>5, <2>1, <2>2 DEF Informed, q, r
<1>7. CASE sent # {}
  <2>1. \E i \in sent : \A j \in sent : j <= i
    <3>1. sent \in SUBSET (1 .. n) /\ n \in Nat
      OBVIOUS
    <3> HIDE DEF sent
    <3> QED BY <1>7, <3>1, GreatestExists
  <2>2. last \in sent /\ \A j \in sent : j <= last
    <3> HIDE DEF sent
    <3> QED BY <2>1
  <2>3. ToldBy(n) = <<q[last].mask>>
    BY <1>7 DEF ToldBy, q
  <2> HIDE DEF last
  <2>4. last \in 1 .. Len(q) /\ q[last].type = "INFO_IND" /\ last \in Infos(q)
    BY <1>1, <2>2 DEF Infos
  <2>5. q[last].mask \in SUBSET PcTs
    <3>1. q[last] \in PcMsgs
      BY <1>1, <2>4
    <3> QED BY <2>4, <3>1 DEF PcMsgs
  <2>6. ASSUME Informed(pc_queue, pc_told, mask, u), Infos(r) = {}
        PROVE  q[last].mask \ u = mask \ u
    <3>1. ASSUME NEW j \in Infos(q)
          PROVE  j <= last
      <4>1. j \in 1 .. Len(q) /\ q[j].type = "INFO_IND"
        BY DEF Infos
      <4>2. ~(j > n)
        BY <1>4, <2>6
      <4>3. j \in sent
        BY <1>1, <4>1, <4>2
      <4> QED BY <2>2, <4>3
    <3> QED BY <2>4, <2>6, <3>1 DEF Informed, q
  <2>7. Informed(pc_queue, pc_told, mask, u) => Informed(r, ToldBy(n), mask, u)
    BY <1>5, <2>3, <2>6 DEF Informed
  <2> QED BY <1>2, <2>3, <2>5, <2>7 DEF q, r
<1> QED BY <1>6, <1>7

-----------------------------------------------------------------------------
(* The steps                                                               *)

\* The operators of the model depend on the site alone, which no step changes.
LEMMA SameSite ==
    ASSUME pc_site' = pc_site
    PROVE  PcTs' = PcTs /\ PcMsgs' = PcMsgs
BY DEF PcTs, PcMsgs

\* The mask is a set of timeslots.
LEMMA MaskType ==
    ASSUME NEW ts
    PROVE  PdchMask(ts) \in SUBSET PcTs
BY DEF PdchMask

\* The socket is in order at the start.
LEMMA PcStart == PcInit => PcInv
<1> SUFFICES ASSUME PcInit
             PROVE  PcInv
  OBVIOUS
<1>1. pc_site \in PcSite
  BY PcSitesAssumption DEF PcInit
<1>2. pc_site.len \in Nat /\ pc_site.events \in Nat
  BY <1>1 DEF PcSite
<1>3. PcTypes
  <2>1. pc_queue \in Seq(PcMsgs) /\ Len(pc_queue) <= pc_site.len + 1
    <3>1. pc_queue \in Seq(PcMsgs) /\ Len(pc_queue) = 0
      BY EmptyQueue DEF PcInit
    <3> QED BY <1>2, <3>1
  <2>2. pc_ts \in [PcTs -> [enabled : BOOLEAN, pdch : BOOLEAN]]
    BY DEF PcInit
  <2>3. pc_held \in Nat /\ pc_left \in Nat /\ pc_held + pc_left <= pc_site.events
    BY <1>2 DEF PcInit
  <2>4. pc_up \in SUBSET PcLinks /\ pc_untold \in SUBSET PcTs
    BY DEF PcInit
  <2> QED BY <1>1, <2>1, <2>2, <2>3, <2>4, Zenon DEF PcInit, PcTypes
<1>4. Informed(pc_queue, pc_told, PdchMask(pc_ts), pc_untold)
  BY NothingTold DEF PcInit
<1> QED BY <1>3, <1>4 DEF PcInit, PcInv, PcListens, PcQueueIsForPcu

\* An event takes one from the bound, and what the BTS holds stays within it.
LEMMA EventCounted ==
    ASSUME PcTypes, PcInput, pc_site' = pc_site, pc_held' \in {0, pc_held, pc_held + 1}
    PROVE  pc_held' \in Nat /\ pc_left' \in Nat /\ pc_held' + pc_left' <= pc_site'.events
<1>1. pc_site.events \in Nat
  BY DEF PcTypes, PcSite
<1> QED BY <1>1 DEF PcTypes, PcInput

\* The end of a connection, for whatever reason, and of the socket (pcu_sock_close(), pcu_sock_exit()).
LEMMA CloseKeepsInv ==
    ASSUME PcInv, PcInput, pc_sock' \in BOOLEAN, pc_listen' = pc_sock', pc_conn' = FALSE, pc_write' = FALSE,
           pc_queue' = <<>>, pc_told' = <<>>, UNCHANGED <<pc_site, pcBts>>
    PROVE  PcInv'
<1>1. pc_site.len \in Nat
  BY DEF PcInv, PcTypes, PcSite
<1>2. PcTs' = PcTs /\ PcMsgs' = PcMsgs
  BY SameSite
<1>3. pc_held' \in Nat /\ pc_left' \in Nat /\ pc_held' + pc_left' <= pc_site'.events
  BY EventCounted DEF PcInv, pcBts
<1>4. PcTypes'
  <2>1. pc_queue' \in Seq(PcMsgs)' /\ Len(pc_queue)' <= pc_site'.len + 1
    <3>1. pc_queue' \in Seq(PcMsgs) /\ Len(pc_queue') = 0
      BY EmptyQueue
    <3> QED BY <1>1, <1>2, <3>1
  <2> QED BY <1>2, <1>3, <2>1, Zenon DEF PcInv, PcTypes, pcBts
<1>5. Informed(pc_queue, pc_told, PdchMask(pc_ts), pc_untold)'
  BY NothingTold
<1> QED BY <1>4, <1>5 DEF PcInv, PcListens, PcQueueIsForPcu

\* The queue of a connected PCU, or the lack of one, after a message that is no news.
LEMMA SendKeepsInv ==
    ASSUME PcInv, NEW m \in PcMsgs, m.type # "INFO_IND", pcu_sock_send(m), Len(pc_queue) < pc_site.len,
           UNCHANGED <<pc_site, pcSock, pc_ts, pc_up, pc_told, pc_untold>>,
           pc_held' \in Nat /\ pc_left' \in Nat /\ pc_held' + pc_left' <= pc_site'.events
    PROVE  PcInv'
<1>1. pc_site.len \in Nat /\ pc_queue \in Seq(PcMsgs) /\ Len(pc_queue) \in Nat
  BY LenProperties DEF PcInv, PcTypes, PcSite
<1>2. PcTs' = PcTs /\ PcMsgs' = PcMsgs /\ PdchMask(pc_ts)' = PdchMask(pc_ts)
  BY SameSite DEF PdchMask, PcTs
<1>3. CASE ~pc_conn
  <2>1. UNCHANGED <<pc_queue, pc_write>>
    BY <1>3 DEF pcu_sock_send
  <2> QED BY <1>2, <1>3, <2>1 DEF PcInv, PcTypes, PcListens, PcQueueIsForPcu, Informed, Infos, pcSock
<1>4. CASE pc_conn
  <2>1. pc_queue' = Append(pc_queue, m) /\ pc_write' = TRUE
    BY <1>4 DEF pcu_sock_send
  <2>2. Append(pc_queue, m) \in Seq(PcMsgs) /\ Len(Append(pc_queue, m)) = Len(pc_queue) + 1
    BY <1>1, AppendProperties
  <2>3. PcTypes'
    BY <1>1, <1>2, <2>1, <2>2 DEF PcInv, PcTypes, pcSock
  <2>4. Informed(Append(pc_queue, m), pc_told, PdchMask(pc_ts), pc_untold)
    BY <1>1, OtherQueued DEF PcInv
  <2>5. Informed(pc_queue', pc_told', PdchMask(pc_ts)', pc_untold')
    BY <1>2, <2>1, <2>4
  <2> QED BY <1>4, <2>3, <2>5 DEF PcInv, PcListens, PcQueueIsForPcu, Informed, Infos, pcSock
<1> QED BY <1>3, <1>4 DEF PcInv, PcTypes

\* The queue of a connected PCU, or the lack of one, after pcu_info_update().
LEMMA UpdateKeepsInv ==
    ASSUME PcInv, PcInput, pcu_info_update(pc_ts'), Len(pc_queue) < pc_site.len,
           pc_ts' \in [PcTs -> [enabled : BOOLEAN, pdch : BOOLEAN]], pc_up' \in SUBSET PcLinks,
           UNCHANGED <<pc_site, pcSock, pc_told, pc_held>>
    PROVE  PcInv'
<1> DEFINE m == [type |-> "INFO_IND", mask |-> PdchMask(pc_ts')]
<1>1. pc_site.len \in Nat /\ pc_queue \in Seq(PcMsgs) /\ Len(pc_queue) \in Nat
  BY LenProperties DEF PcInv, PcTypes, PcSite
<1>2. PcTs' = PcTs /\ PcMsgs' = PcMsgs
  BY SameSite
<1>3. PdchMask(pc_ts)' = PdchMask(pc_ts') /\ pc_untold' = {}
  BY <1>2 DEF PdchMask, pcu_info_update
<1>4. pc_held' \in Nat /\ pc_left' \in Nat /\ pc_held' + pc_left' <= pc_site'.events
  BY EventCounted DEF PcInv
<1>5. PdchMask(pc_ts') \in SUBSET PcTs
  BY MaskType
<1>6. CASE ~pc_conn
  <2>1. UNCHANGED <<pc_queue, pc_write>> /\ pc_queue = <<>> /\ pc_told = <<>>
    BY <1>6 DEF pcu_info_update, pcu_sock_send, PcInv, PcQueueIsForPcu
  <2>2. Informed(pc_queue, pc_told, PdchMask(pc_ts), pc_untold)'
    BY <2>1, NothingTold
  <2>3. PcTypes'
    BY <1>2, <1>3, <1>4, <2>1 DEF PcInv, PcTypes, pcSock
  <2> QED BY <1>6, <2>1, <2>2, <2>3 DEF PcInv, PcListens, PcQueueIsForPcu, pcSock
<1>7. CASE pc_conn
  <2>1. pc_queue' = Append(pc_queue, m) /\ pc_write' = TRUE
    BY <1>7 DEF pcu_info_update, pcu_sock_send
  <2>2. m \in PcMsgs
    BY <1>5 DEF PcMsgs
  <2>3. Informed(Append(pc_queue, m), pc_told, PdchMask(pc_ts'), pc_untold')
    BY <1>1, <1>5, NewsQueued
  <2> HIDE DEF m
  <2>4. Append(pc_queue, m) \in Seq(PcMsgs) /\ Len(Append(pc_queue, m)) = Len(pc_queue) + 1
    BY <1>1, <2>2, AppendProperties
  <2>5. PcTypes'
    BY <1>1, <1>2, <1>3, <1>4, <2>1, <2>4 DEF PcInv, PcTypes, pcSock
  <2>6. Informed(pc_queue', pc_told', PdchMask(pc_ts)', pc_untold')
    BY <1>3, <2>1, <2>3
  <2> QED BY <1>7, <2>5, <2>6 DEF PcInv, PcListens, PcQueueIsForPcu, Informed, Infos, pcSock
<1> QED BY <1>6, <1>7 DEF PcInv, PcTypes

\* A change that nobody is told of, by a report or the loss of a link.
LEMMA UntoldKeepsInv ==
    ASSUME PcInv, PcInput, NEW ts \in [PcTs -> [enabled : BOOLEAN, pdch : BOOLEAN]], Untold(ts),
           pc_up' \in SUBSET PcLinks, pc_held' \in {0, pc_held, pc_held + 1},
           UNCHANGED <<pc_site, pcSock, pc_write, pc_queue, pc_told>>
    PROVE  PcInv'
<1>1. PcTs' = PcTs /\ PcMsgs' = PcMsgs
  BY SameSite
<1>2. /\ pc_ts' = ts /\ PdchMask(pc_ts)' = PdchMask(ts)
      /\ pc_untold \subseteq pc_untold' /\ pc_untold' \in SUBSET PcTs
  BY <1>1 DEF Untold, PdchMask, PcInv, PcTypes
<1>3. pc_held' \in Nat /\ pc_left' \in Nat /\ pc_held' + pc_left' <= pc_site'.events
  BY EventCounted DEF PcInv
<1>4. PcTypes'
  BY <1>1, <1>2, <1>3 DEF PcInv, PcTypes, pcSock
<1>5. PdchMask(ts) \ pc_untold' = PdchMask(pc_ts) \ pc_untold'
  <2>1. PdchMask(ts) \in SUBSET PcTs /\ PdchMask(pc_ts) \in SUBSET PcTs
    BY MaskType
  <2>2. \A t \in PcTs : t \notin pc_untold' => ((t \in PdchMask(ts)) <=> (t \in PdchMask(pc_ts)))
    BY DEF Untold
  <2> QED BY <2>1, <2>2
<1>6. Informed(pc_queue, pc_told, PdchMask(ts), pc_untold')
  <2>1. Informed(pc_queue, pc_told, PdchMask(pc_ts), pc_untold)
    BY DEF PcInv
  <2> QED BY <1>2, <1>5, <2>1, ChangedUntold
<1>7. Informed(pc_queue', pc_told', PdchMask(pc_ts)', pc_untold')
  BY <1>2, <1>6
<1> QED BY <1>4, <1>7 DEF PcInv, PcListens, PcQueueIsForPcu, Informed, Infos, pcSock

\* A step that leaves the queue and the timeslots alone.
LEMMA QuietKeepsInv ==
    ASSUME PcInv, UNCHANGED <<pc_site, pc_sock, pc_queue, pc_ts, pc_told, pc_untold>>,
           pc_conn => pc_conn', PcListens', pc_up' \in SUBSET PcLinks,
           pc_listen' \in BOOLEAN, pc_conn' \in BOOLEAN, pc_write' \in BOOLEAN,
           pc_held' \in Nat /\ pc_left' \in Nat /\ pc_held' + pc_left' <= pc_site'.events
    PROVE  PcInv'
<1>1. PcTs' = PcTs /\ PcMsgs' = PcMsgs /\ PdchMask(pc_ts)' = PdchMask(pc_ts)
  BY SameSite DEF PdchMask
<1>2. PcTypes'
  BY <1>1 DEF PcInv, PcTypes
<1> QED BY <1>1, <1>2 DEF PcInv, PcQueueIsForPcu, Informed, Infos

\* pcu_sock_write() keeps the order, and takes away nothing that the PCU does not get.
LEMMA WriteKeepsInv == PcInv /\ pcu_sock_write => PcInv'
<1> SUFFICES ASSUME PcInv, pcu_sock_write
             PROVE  PcInv'
  OBVIOUS
<1>1. PICK n \in 1 .. Len(pc_queue) : PcWritten(n)
  BY DEF pcu_sock_write
<1>2. UNCHANGED <<pc_site, pcBts, pc_left, pcSock>> /\ pc_conn
  BY <1>1 DEF pcu_sock_write, PcWritten
<1>3. /\ pc_site.len \in Nat /\ Len(pc_queue) \in Nat /\ PcTypes
      /\ pc_queue' = SubSeq(pc_queue, n + 1, Len(pc_queue)) /\ pc_told' = ToldBy(n)
      /\ pc_write' \in BOOLEAN
  BY <1>1, LenProperties DEF PcInv, PcTypes, PcSite, PcWritten
<1>4. PcTs' = PcTs /\ PcMsgs' = PcMsgs /\ PdchMask(pc_ts)' = PdchMask(pc_ts)
  BY <1>2, SameSite DEF PdchMask, pcBts
<1>5. /\ pc_queue' \in Seq(PcMsgs) /\ Len(pc_queue') = Len(pc_queue) - n
      /\ Informed(pc_queue, pc_told, PdchMask(pc_ts), pc_untold)
           => Informed(pc_queue', pc_told', PdchMask(pc_ts), pc_untold)
      /\ pc_told' = pc_told \/ \E s \in SUBSET PcTs : pc_told' = <<s>>
  BY <1>3, NewsWritten
<1>6. pc_told' = <<>> \/ \E s \in SUBSET PcTs : pc_told' = <<s>>
  BY <1>3, <1>5, Zenon DEF PcTypes
<1>7. Len(pc_queue') <= pc_site.len + 1
  BY <1>3, <1>5 DEF PcTypes
<1>8. PcTypes'
  BY <1>2, <1>3, <1>4, <1>5, <1>6, <1>7, Zenon DEF PcTypes, pcBts, pcSock
<1>9. Informed(pc_queue', pc_told', PdchMask(pc_ts)', pc_untold')
  BY <1>2, <1>4, <1>5 DEF PcInv, pcBts
<1> QED BY <1>2, <1>8, <1>9 DEF PcInv, PcListens, PcQueueIsForPcu, Informed, Infos, pcSock

\* Every step keeps the invariant.
LEMMA PcStep == PcInv /\ [PcNext]_pcVars => PcInv'
<1> SUFFICES ASSUME PcInv, [PcNext]_pcVars
             PROVE  PcInv'
  OBVIOUS
<1>types. PcTypes /\ pc_site.len \in Nat /\ pc_site.events \in Nat
  BY DEF PcInv, PcTypes, PcSite
<1>1. CASE pcu_sock_accept
  <2>1. UNCHANGED <<pc_site, pc_sock, pc_queue, pc_told, pcBts>> /\ PcInput
    BY <1>1 DEF pcu_sock_accept
  <2>2. /\ pc_conn => pc_conn'
        /\ pc_conn' \in BOOLEAN /\ pc_listen' \in BOOLEAN /\ pc_write' \in BOOLEAN
    BY <1>1, <1>types DEF pcu_sock_accept, PcTypes
  <2>3. PcListens'
    <3>1. pc_sock' = pc_sock /\ pc_listen /\ (pc_listen' = pc_listen \/ (pc_conn' = pc_conn /\ pc_conn))
      BY <1>1, <2>1, Zenon DEF pcu_sock_accept
    <3>2. pc_sock <=> pc_listen \/ pc_conn
      BY DEF PcInv, PcListens
    <3>3. pc_sock' = TRUE /\ (pc_listen' = TRUE \/ pc_conn' = TRUE)
      BY <3>1, <3>2, <1>types, Zenon DEF PcTypes
    <3> QED BY <3>3 DEF PcListens
  <2>4. pc_held' \in Nat /\ pc_left' \in Nat /\ pc_held' + pc_left' <= pc_site'.events
    BY <1>types, <2>1, EventCounted DEF pcBts
  <2>5. pc_up' \in SUBSET PcLinks
    BY <1>types, <2>1 DEF pcBts, PcTypes
  <2> QED BY <2>1, <2>2, <2>3, <2>4, <2>5, QuietKeepsInv DEF pcBts
<1>2. ASSUME NEW sapi \in PcSapis, PcRead(sapi)
      PROVE  PcInv'
  <2>1. UNCHANGED <<pc_site, pcSock, pc_write, pc_queue, pc_ts, pc_up, pc_told, pc_untold>> /\ PcInput
    BY <1>2 DEF PcRead
  <2>2. pc_held' \in {0, pc_held, pc_held + 1}
    BY <1>2, <1>types DEF PcRead, PcTypes
  <2>3. pc_held' \in Nat /\ pc_left' \in Nat /\ pc_held' + pc_left' <= pc_site'.events
    BY <1>types, <2>1, <2>2, EventCounted
  <2>4. PcListens' /\ (pc_conn => pc_conn')
    BY <2>1 DEF PcInv, PcListens, pcSock
  <2>5. /\ pc_up' \in SUBSET PcLinks
        /\ pc_conn' \in BOOLEAN /\ pc_listen' \in BOOLEAN /\ pc_write' \in BOOLEAN
    BY <1>types, <2>1 DEF pcSock, PcTypes
  <2> QED BY <2>1, <2>3, <2>4, <2>5, QuietKeepsInv DEF pcSock
<1>3. CASE PcEnd \/ PcWriteFails
  <2>1. /\ PcInput /\ pc_conn /\ pcu_sock_close
        /\ UNCHANGED <<pc_site, pc_sock, pcBts>>
    BY <1>3 DEF PcEnd, PcWriteFails
  <2>2. pc_sock' = TRUE
    BY <2>1, <1>types DEF PcInv, PcListens, PcTypes
  <2> QED BY <2>1, <2>2, CloseKeepsInv DEF pcu_sock_close
<1>4. CASE pcu_sock_write
  BY <1>4, WriteKeepsInv
<1>5. ASSUME NEW t \in PcTs, PcTsChanges(t)
      PROVE  PcInv'
  <2>1. pc_ts' \in [PcTs -> [enabled : BOOLEAN, pdch : BOOLEAN]] /\ pc_up' \in SUBSET PcLinks
    BY <1>5, <1>types DEF PcTsChanges, PcTypes
  <2> QED BY <1>5, <2>1, UpdateKeepsInv DEF PcTsChanges
<1>6. ASSUME NEW t \in PcTs, PcTsReport(t)
      PROVE  PcInv'
  <2> DEFINE ts == [pc_ts EXCEPT ![t].enabled = ~@]
  <2>1. /\ UNCHANGED <<pc_site, pcSock, pc_write, pc_queue, pc_up, pc_told, pc_held>>
        /\ PcInput /\ Untold(ts)
    BY <1>6 DEF PcTsReport
  <2>2. ts \in [PcTs -> [enabled : BOOLEAN, pdch : BOOLEAN]]
    BY <1>types DEF PcTypes
  <2>3. pc_up' \in SUBSET PcLinks
    BY <2>1, <1>types DEF PcTypes
  <2> HIDE DEF ts
  <2> QED BY <2>1, <2>2, <2>3, UntoldKeepsInv
<1>7. CASE PcSystemInfo
  <2>1. pc_ts' = pc_ts /\ pc_up' = pc_up /\ pcu_info_update(pc_ts')
    BY <1>7 DEF PcSystemInfo
  <2>2. pc_ts' \in [PcTs -> [enabled : BOOLEAN, pdch : BOOLEAN]] /\ pc_up' \in SUBSET PcLinks
    BY <1>types, <2>1 DEF PcTypes
  <2> QED BY <1>7, <2>1, <2>2, UpdateKeepsInv DEF PcSystemInfo
<1>8. CASE PcRach
  <2> DEFINE m == [type |-> "RACH_IND"]
  <2>1. m \in PcMsgs /\ m.type # "INFO_IND"
    BY DEF PcMsgs
  <2>2. PcInput /\ UNCHANGED <<pc_site, pcSock, pc_ts, pc_up, pc_told, pc_untold, pc_held>>
    BY <1>8 DEF PcRach, pcBts
  <2>3. pc_held' \in Nat /\ pc_left' \in Nat /\ pc_held' + pc_left' <= pc_site'.events
    BY <1>types, <2>2, EventCounted
  <2>4. pcu_sock_send(m) /\ Len(pc_queue) < pc_site.len
    BY <1>8 DEF PcRach
  <2> HIDE DEF m
  <2> QED BY <2>1, <2>2, <2>3, <2>4, SendKeepsInv
<1>9. CASE PcImmAssSent
  <2> DEFINE m == [type |-> "DATA_CNF_DT"]
  <2>1. m \in PcMsgs /\ m.type # "INFO_IND"
    BY DEF PcMsgs
  <2>2. UNCHANGED <<pc_site, pcSock, pc_ts, pc_up, pc_told, pc_untold>>
    BY <1>9 DEF PcImmAssSent
  <2>3. pc_held' \in Nat /\ pc_left' \in Nat /\ pc_held' + pc_left' <= pc_site'.events
    BY <1>9, <1>types DEF PcImmAssSent, PcTypes
  <2>4. pcu_sock_send(m) /\ Len(pc_queue) < pc_site.len
    BY <1>9 DEF PcImmAssSent
  <2> HIDE DEF m
  <2> QED BY <2>1, <2>2, <2>3, <2>4, SendKeepsInv
<1>10. ASSUME NEW l \in PcLinks, PcLinkDown(l)
       PROVE  PcInv'
  <2> DEFINE ts == [t \in PcTs |-> [enabled |-> FALSE, pdch |-> FALSE]]
  <2>1. /\ UNCHANGED <<pc_site, pcSock, pc_write, pc_queue, pc_told>>
        /\ PcInput /\ Untold(ts)
    BY <1>10 DEF PcLinkDown
  <2>2. ts \in [PcTs -> [enabled : BOOLEAN, pdch : BOOLEAN]]
    OBVIOUS
  <2>3. pc_up' \in SUBSET PcLinks /\ pc_held' \in {0, pc_held, pc_held + 1}
    BY <1>10, <1>types DEF PcLinkDown, PcTypes
  <2> HIDE DEF ts
  <2> QED BY <2>1, <2>2, <2>3, UntoldKeepsInv
<1>11. ASSUME NEW l \in PcLinks, PcLinkUp(l)
       PROVE  PcInv'
  <2>1. /\ PcInput /\ UNCHANGED <<pc_site, pcSock, pc_ts, pc_told, pc_held>> /\ Len(pc_queue) < pc_site.len
        /\ pc_up' \in SUBSET PcLinks
    BY <1>11, <1>types DEF PcLinkUp, PcTypes
  <2>2. CASE pcu_info_update(pc_ts)
    <3>1. pc_ts' = pc_ts /\ pc_ts' \in [PcTs -> [enabled : BOOLEAN, pdch : BOOLEAN]]
      BY <2>1, <1>types DEF PcTypes
    <3> QED BY <2>1, <2>2, <3>1, UpdateKeepsInv
  <2>3. CASE UNCHANGED <<pc_write, pc_queue, pc_untold>>
    <3>1. pc_held' \in Nat /\ pc_left' \in Nat /\ pc_held' + pc_left' <= pc_site'.events
      BY <1>types, <2>1, EventCounted
    <3>2. PcListens' /\ (pc_conn => pc_conn')
      BY <2>1 DEF PcInv, PcListens, pcSock
    <3>3. pc_conn' \in BOOLEAN /\ pc_listen' \in BOOLEAN /\ pc_write' \in BOOLEAN
      BY <1>types, <2>1, <2>3 DEF pcSock, PcTypes
    <3> QED BY <2>1, <2>3, <3>1, <3>2, <3>3, QuietKeepsInv DEF pcSock
  <2> QED BY <1>11, <2>2, <2>3 DEF PcLinkUp
<1>12. CASE cfg_bts_pcu_sock
  BY <1>12, CloseKeepsInv DEF cfg_bts_pcu_sock
<1>13. CASE UNCHANGED pcVars
  <2>1. PcTs' = PcTs /\ PcMsgs' = PcMsgs /\ PdchMask(pc_ts)' = PdchMask(pc_ts)
    BY <1>13, SameSite DEF PdchMask, pcVars
  <2> QED BY <1>13, <2>1 DEF PcInv, PcTypes, PcListens, PcQueueIsForPcu, Informed, Infos, pcVars
<1> QED BY <1>1, <1>2, <1>3, <1>4, <1>5, <1>6, <1>7, <1>8, <1>9, <1>10, <1>11, <1>12, <1>13 DEF PcNext

\* What the invariant means for the PCU.
LEMMA PcMeans == PcInv => PcSafe
<1> SUFFICES ASSUME PcInv
             PROVE  PcSafe
  OBVIOUS
<1>1. pc_site.len \in Nat /\ pc_site.events \in Nat /\ PcTypes
  BY DEF PcInv, PcTypes, PcSite
<1>2. \A i \in DOMAIN pc_queue : pc_queue[i].type \in {"INFO_IND", "RACH_IND", "DATA_CNF_DT"}
  <2> SUFFICES ASSUME NEW i \in DOMAIN pc_queue
               PROVE  pc_queue[i].type \in {"INFO_IND", "RACH_IND", "DATA_CNF_DT"}
    OBVIOUS
  <2>1. pc_queue[i] \in PcMsgs
    BY <1>1, LenProperties, ElementOfSeq DEF PcTypes
  <2> QED BY <2>1 DEF PcMsgs
<1>3. pc_told = <<>> \/ (Len(pc_told) = 1 /\ pc_told[1] \subseteq PcTs)
  BY <1>1 DEF PcTypes
<1>4. pc_held \in 0 .. pc_site.events /\ pc_left \in 0 .. pc_site.events
  BY <1>1 DEF PcTypes
<1>5. PcTypeOK
  BY <1>1, <1>2, <1>3, <1>4 DEF PcTypes, PcTypeOK
<1>6. PcKnows
  <2> SUFFICES ASSUME pc_queue = <<>>, pc_told # <<>>
               PROVE  pc_told[1] \ pc_untold = PdchMask(pc_ts) \ pc_untold
    BY DEF PcKnows
  <2>1. Infos(pc_queue) = {}
    BY DEF Infos
  <2> QED BY <2>1 DEF PcInv, Informed
<1> QED BY <1>5, <1>6 DEF PcInv, PcSafe

\* For any number of timeslots, any limit of the queue and any number of events, in any order of
\* connections, losses, failed reconfigurations, writes that block, link losses and changes of timeslots:
\* as long as it has a socket the BSC listens or serves a PCU, it keeps messages for the connected PCU only,
\* and whenever nothing is left to be sent it has told that PCU the timeslots as they are, but for those
\* that a report or the loss of a link has changed since (pcu_sock_accept(), pcu_sock_close(),
\* cfg_bts_pcu_sock(), pcu_sock_write(), pcu_info_update()).
THEOREM PcuServed == PcSpec => []PcSafe
BY PcStart, PcStep, PcMeans, PTL DEF PcSpec

=============================================================================
