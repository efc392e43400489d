----------------------------- MODULE Rll_proofs -----------------------------
(***************************************************************************)
(* The messages of the MSC, for any number of messages and connections,    *)
(* any limit of the queue: the queues and requests of the BSC implement    *)
(* the promise of DtapService.                                             *)
(***************************************************************************)
EXTENDS Rll, SequenceTheorems, TLAPS

Distinct(s) == \A i, j \in DOMAIN s : s[i] = s[j] => i = j

-----------------------------------------------------------------------------
(* Sequences without repetitions                                           *)

\* What is in a sequence after a message is added at its end.
LEMMA AppendRange ==
    ASSUME NEW S, NEW s \in Seq(S), NEW m \in S
    PROVE  /\ RangeOf(Append(s, m)) = RangeOf(s) \cup {m}
           /\ Distinct(s) /\ m \notin RangeOf(s) => Distinct(Append(s, m))
<1>1. /\ Append(s, m) \in Seq(S) /\ Len(Append(s, m)) = Len(s) + 1
      /\ \A i \in 1 .. Len(s) : Append(s, m)[i] = s[i]
      /\ Append(s, m)[Len(s) + 1] = m
      /\ DOMAIN s = 1 .. Len(s) /\ DOMAIN Append(s, m) = 1 .. (Len(s) + 1) /\ Len(s) \in Nat
  BY AppendProperties, LenProperties
<1>2. RangeOf(Append(s, m)) = RangeOf(s) \cup {m}
  BY <1>1 DEF RangeOf
<1>3. ASSUME Distinct(s), m \notin RangeOf(s)
      PROVE  Distinct(Append(s, m))
  BY <1>1, <1>3 DEF Distinct, RangeOf
<1> QED BY <1>2, <1>3

\* What is in two sequences put together.
LEMMA ConcatRange ==
    ASSUME NEW S, NEW s \in Seq(S), NEW t \in Seq(S)
    PROVE  /\ RangeOf(s \o t) = RangeOf(s) \cup RangeOf(t)
           /\ Distinct(s) /\ Distinct(t) /\ RangeOf(s) \cap RangeOf(t) = {} => Distinct(s \o t)
<1>1. /\ s \o t \in Seq(S) /\ Len(s \o t) = Len(s) + Len(t)
      /\ \A i \in 1 .. Len(s) + Len(t) : (s \o t)[i] = IF i <= Len(s) THEN s[i] ELSE t[i - Len(s)]
      /\ DOMAIN s = 1 .. Len(s) /\ DOMAIN t = 1 .. Len(t) /\ DOMAIN (s \o t) = 1 .. (Len(s) + Len(t))
      /\ Len(s) \in Nat /\ Len(t) \in Nat
  BY ConcatProperties, LenProperties
<1>2. RangeOf(s \o t) = RangeOf(s) \cup RangeOf(t)
  <2>1. \A i \in DOMAIN t : (s \o t)[i + Len(s)] = t[i] /\ i + Len(s) \in DOMAIN (s \o t)
    BY <1>1
  <2>2. \A i \in DOMAIN s : (s \o t)[i] = s[i] /\ i \in DOMAIN (s \o t)
    BY <1>1
  <2>3. \A i \in DOMAIN (s \o t) :
           \/ i \in DOMAIN s /\ (s \o t)[i] = s[i]
           \/ i - Len(s) \in DOMAIN t /\ (s \o t)[i] = t[i - Len(s)]
    BY <1>1
  <2>4. \A x : x \in RangeOf(s \o t) => x \in RangeOf(s) \/ x \in RangeOf(t)
    BY <2>3, Zenon DEF RangeOf
  <2>5. \A x : x \in RangeOf(s) => x \in RangeOf(s \o t)
    BY <2>2, Zenon DEF RangeOf
  <2>6. \A x : x \in RangeOf(t) => x \in RangeOf(s \o t)
    BY <2>1, Zenon DEF RangeOf
  <2> QED BY <2>4, <2>5, <2>6, Zenon
<1>3. ASSUME Distinct(s), Distinct(t), RangeOf(s) \cap RangeOf(t) = {}
      PROVE  Distinct(s \o t)
  <2>1. \A i \in DOMAIN s, j \in DOMAIN t : s[i] # t[j]
    BY <1>3 DEF RangeOf
  <2>2. SUFFICES ASSUME NEW i \in DOMAIN (s \o t), NEW j \in DOMAIN (s \o t), (s \o t)[i] = (s \o t)[j]
                 PROVE  i = j
    BY DEF Distinct
  <2>3. i \in Int /\ j \in Int
    BY <1>1
  <2>4. CASE i <= Len(s) /\ j <= Len(s)
    <3>1. i \in DOMAIN s /\ j \in DOMAIN s /\ s[i] = s[j]
      BY <1>1, <2>2, <2>4
    <3> QED BY <1>3, <3>1 DEF Distinct
  <2>5. CASE i > Len(s) /\ j > Len(s)
    <3>1. i - Len(s) \in DOMAIN t /\ j - Len(s) \in DOMAIN t /\ t[i - Len(s)] = t[j - Len(s)]
      BY <1>1, <2>2, <2>5
    <3>2. i - Len(s) = j - Len(s)
      BY <1>3, <3>1 DEF Distinct
    <3> QED BY <1>1, <2>3, <3>2
  <2>6. CASE i <= Len(s) /\ j > Len(s)
    BY <1>1, <2>1, <2>2, <2>6
  <2>7. CASE i > Len(s) /\ j <= Len(s)
    BY <1>1, <2>1, <2>2, <2>7
  <2> QED BY <1>1, <2>3, <2>4, <2>5, <2>6, <2>7
<1> QED BY <1>2, <1>3

\* What is left of a sequence without repetitions when its first element is taken out.
LEMMA TailRange ==
    ASSUME NEW S, NEW s \in Seq(S), s # <<>>, Distinct(s)
    PROVE  /\ Tail(s) \in Seq(S) /\ Head(s) \in RangeOf(s)
           /\ RangeOf(Tail(s)) = RangeOf(s) \ {Head(s)} /\ Distinct(Tail(s))
<1>1. /\ Tail(s) \in Seq(S) /\ Len(Tail(s)) = Len(s) - 1 /\ Head(s) = s[1]
      /\ \A i \in 1 .. Len(Tail(s)) : Tail(s)[i] = s[i + 1]
      /\ DOMAIN s = 1 .. Len(s) /\ DOMAIN Tail(s) = 1 .. (Len(s) - 1)
      /\ Len(s) \in Nat /\ Len(s) > 0
  BY HeadTailProperties, LenProperties, EmptySeq
<1>2. \A i \in DOMAIN s : i = 1 \/ (i - 1 \in DOMAIN Tail(s) /\ Tail(s)[i - 1] = s[i])
  BY <1>1
<1>3. \A i \in DOMAIN Tail(s) : i + 1 \in DOMAIN s /\ Tail(s)[i] = s[i + 1] /\ s[i + 1] # s[1]
  BY <1>1 DEF Distinct
<1>4. RangeOf(Tail(s)) = RangeOf(s) \ {Head(s)}
  <2> DEFINE h == Head(s)
  <2>0. h = s[1]
    BY <1>1
  <2> HIDE DEF h
  <2>1. \A x : x \in RangeOf(Tail(s)) => x \in RangeOf(s) /\ x # h
    BY <2>0, <1>3, Zenon DEF RangeOf
  <2>2. \A x : x \in RangeOf(s) => x \in RangeOf(Tail(s)) \/ x = h
    BY <2>0, <1>2, Zenon DEF RangeOf
  <2> USE DEF h
  <2> QED BY <2>1, <2>2, Zenon
<1>5. Distinct(Tail(s))
  <2>1. SUFFICES ASSUME NEW i \in DOMAIN Tail(s), NEW j \in DOMAIN Tail(s), Tail(s)[i] = Tail(s)[j]
                 PROVE  i = j
    BY DEF Distinct
  <2>2. i + 1 \in DOMAIN s /\ j + 1 \in DOMAIN s /\ s[i + 1] = s[j + 1]
    BY <1>3, <2>1
  <2>3. i + 1 = j + 1
    BY <2>2 DEF Distinct
  <2> QED BY <1>1, <2>3
<1> QED BY <1>1, <1>4, <1>5 DEF RangeOf

\* What is left of a sequence without repetitions when its last element is taken out.
LEMMA FrontRange ==
    ASSUME NEW S, NEW s \in Seq(S), s # <<>>, Distinct(s)
    PROVE  LET f == SubSeq(s, 1, Len(s) - 1)
               l == s[Len(s)]
           IN  f \in Seq(S) /\ l \in RangeOf(s) /\ RangeOf(f) = RangeOf(s) \ {l} /\ Distinct(f)
<1> DEFINE f == SubSeq(s, 1, Len(s) - 1)
           l == s[Len(s)]
<1>1. Len(s) \in Nat /\ Len(s) > 0 /\ DOMAIN s = 1 .. Len(s)
  BY LenProperties, EmptySeq
<1>2. /\ f \in Seq(S) /\ Len(f) = Len(s) - 1 /\ DOMAIN f = 1 .. (Len(s) - 1)
      /\ \A i \in 1 .. Len(s) - 1 : f[i] = s[i]
  <2>1. \A i \in 1 .. Len(s) - 1 : s[i] \in S
    BY <1>1, ElementOfSeq
  <2>2. f = [i \in 1 .. Len(s) - 1 |-> s[i]]
    BY <1>1
  <2> QED BY <1>1, <2>1, <2>2, IsASeq, LenProperties
<1>3. l \in RangeOf(s)
  BY <1>1 DEF RangeOf
<1>4. RangeOf(f) = RangeOf(s) \ {l}
  <2>1. \A i \in DOMAIN s : i = Len(s) \/ (i \in DOMAIN f /\ f[i] = s[i])
    BY <1>1, <1>2
  <2>2. \A i \in DOMAIN f : i \in DOMAIN s /\ f[i] = s[i] /\ s[i] # l
    BY <1>1, <1>2 DEF Distinct
  <2> HIDE DEF f, l
  <2>3. l = s[Len(s)] /\ Len(s) \in DOMAIN s
    BY <1>1 DEF l
  <2> QED BY <2>1, <2>2, <2>3 DEF RangeOf
<1>5. Distinct(f)
  <2> HIDE DEF f
  <2> QED BY <1>1, <1>2 DEF Distinct
<1> QED BY <1>2, <1>3, <1>4, <1>5

-----------------------------------------------------------------------------
(* The inductive invariant                                                 *)

\* every message is in one place; what is held has no end yet, except the message of a request that
\* rll_establish() has left behind, which has one
OnePlace ==
    /\ Distinct(rl_queue) /\ Distinct(rl_reqs)
    /\ RangeOf(rl_queue) \cap RangeOf(rl_reqs) = {}
    /\ RangeOf(rl_queue) \cap rl_unsent = {}
    /\ \A m \in Held : rl_for[m] # 0
    /\ \A m \in InHand : rl_told[m] = <<>>
    /\ \A m \in RangeOf(rl_reqs) \cap rl_unsent : Len(rl_told[m]) = 1
    /\ \A m \in RlMsgs : rl_for[m] = 0 => rl_told[m] = <<>> /\ m \notin rl_unsent

RlInv ==
    /\ RlTypeOK
    /\ OnePlace
    /\ RlQueueFlushed
    /\ rl_state # "NONE" => rl_last # 0

\* The messages of a set get one more end, and the others keep theirs (Ends).
LEMMA EndsOnce ==
    ASSUME RlTypeOK, NEW ms \in SUBSET RlMsgs, NEW what \in RlEnds, NEW c \in Nat, Ends(ms, what, c)
    PROVE  /\ rl_told' \in [RlMsgs -> Seq(RlOutcome)]
           /\ \A m \in ms : /\ Len(rl_told'[m]) = Len(rl_told[m]) + 1
                            /\ rl_told'[m][Len(rl_told[m]) + 1] \in RlOutcome
                            /\ \A i \in 1 .. Len(rl_told[m]) : rl_told'[m][i] = rl_told[m][i]
           /\ \A m \in ms : rl_told[m] = <<>> => Len(rl_told'[m]) = 1 /\ rl_told'[m][1] \in RlOutcome
           /\ \A m \in RlMsgs : m \notin ms => rl_told'[m] = rl_told[m]
<1> DEFINE o == [what |-> what, conn |-> c]
<1>1. o \in RlOutcome
  BY DEF RlOutcome
<1>2. rl_told \in [RlMsgs -> Seq(RlOutcome)]
  BY DEF RlTypeOK
<1>3. rl_told' = [m \in RlMsgs |-> IF m \in ms THEN Append(rl_told[m], o) ELSE rl_told[m]]
  BY DEF Ends
<1> HIDE DEF o
<1>4. \A m \in RlMsgs : Append(rl_told[m], o) \in Seq(RlOutcome)
  BY <1>1, <1>2, AppendProperties
<1>5. rl_told' \in [RlMsgs -> Seq(RlOutcome)]
  BY <1>2, <1>3, <1>4
<1>6. ASSUME NEW m \in ms
      PROVE  /\ Len(rl_told'[m]) = Len(rl_told[m]) + 1
             /\ rl_told'[m][Len(rl_told[m]) + 1] \in RlOutcome
             /\ \A i \in 1 .. Len(rl_told[m]) : rl_told'[m][i] = rl_told[m][i]
  <2>1. rl_told'[m] = Append(rl_told[m], o) /\ rl_told[m] \in Seq(RlOutcome)
    BY <1>2, <1>3
  <2> QED BY <1>1, <2>1, AppendProperties
<1>7. \A m \in RlMsgs : m \notin ms => rl_told'[m] = rl_told[m]
  BY <1>3
<1>8. ASSUME NEW m \in ms, rl_told[m] = <<>>
      PROVE  Len(rl_told'[m]) = 1 /\ rl_told'[m][1] \in RlOutcome
  <2>1. rl_told'[m] = Append(<<>>, o)
    BY <1>3, <1>8
  <2>2. Append(<<>>, o) = <<o>>
    OBVIOUS
  <2> QED BY <1>1, <2>1, <2>2
<1> QED BY <1>5, <1>6, <1>7, <1>8

\* What is held, and what was handed over before, are messages.
LEMMA HeldTypes ==
    ASSUME RlTypeOK
    PROVE  /\ RangeOf(rl_queue) \subseteq RlMsgs /\ RangeOf(rl_reqs) \subseteq RlMsgs
           /\ Held \subseteq RlMsgs /\ InHand \subseteq Held
<1>1. \A s \in Seq(RlMsgs) : RangeOf(s) \subseteq RlMsgs
  BY ElementOfSeq, LenProperties DEF RangeOf
<1> QED BY <1>1 DEF RlTypeOK, Held, InHand

\* A step in which the messages of a set end, which are held or have just come, nothing else stops being
\* held, and nothing new is held, is a step of the promise; those that could not be sent are among them.
LEMMA EndingStep ==
    ASSUME RlInv, NEW ms \in SUBSET RlMsgs, NEW us \in SUBSET ms, NEW what \in RlEnds, NEW c \in Nat,
           \A m \in ms : rl_told[m] = <<>>, Ends(ms, what, c),
           InHand' = InHand \ ms, rl_unsent' = rl_unsent \cup us
    PROVE  Promise!Next
<1>1. RlTypeOK /\ OnePlace
  BY DEF RlInv
<1>2. /\ \A m \in ms : Len(rl_told'[m]) = 1 /\ rl_told'[m][1] \in RlOutcome
      /\ \A m \in RlMsgs : m \notin ms => rl_told'[m] = rl_told[m]
  BY <1>1, EndsOnce
<1>3. \A m \in ms : Promise!Ended(m)
  BY <1>2 DEF Promise!Ended
<1>4. \A m \in RlMsgs : m \notin ms => Promise!Kept(m)
  BY <1>2 DEF Promise!Kept
<1>5. rl_unsent \subseteq rl_unsent' /\ \A m \in rl_unsent' : m \in rl_unsent \/ Promise!Ended(m)
  BY <1>3
<1> QED BY <1>3, <1>4, <1>5 DEF Promise!Next

\* A step in which no message ends, and what newly is held had not come before, is a step of the promise.
LEMMA TakingStep ==
    ASSUME NEW ms \in SUBSET RlMsgs, \A m \in ms : m \notin InHand /\ rl_told[m] = <<>>,
           rl_told' = rl_told, InHand' = InHand \cup ms, rl_unsent' = rl_unsent
    PROVE  Promise!Next
<1>1. \A m \in ms : Promise!Taken(m)
  BY DEF Promise!Taken
<1>2. \A m \in RlMsgs : m \notin ms => Promise!Kept(m)
  BY DEF Promise!Kept
<1> QED BY <1>1, <1>2 DEF Promise!Next

\* A step in which a message that could not be sent is answered once more is a step of the promise.
LEMMA AgainStep ==
    ASSUME RlInv, NEW m \in RlMsgs, NEW what \in RlEnds, NEW c \in Nat, m \in rl_unsent,
           Len(rl_told[m]) = 1, Ends({m}, what, c), InHand' = InHand, rl_unsent' = rl_unsent
    PROVE  Promise!Next
<1> DEFINE ms == {m}
<1>1. /\ ms \in SUBSET RlMsgs /\ Ends(ms, what, c) /\ m \in ms
      /\ \A x \in RlMsgs : x # m => x \notin ms
  OBVIOUS
<1> HIDE DEF ms
<1>2. RlTypeOK
  BY DEF RlInv
<1>3. /\ Len(rl_told'[m]) = 2 /\ rl_told'[m][2] \in RlOutcome /\ rl_told'[m][1] = rl_told[m][1]
      /\ \A x \in RlMsgs : x # m => rl_told'[x] = rl_told[x]
  <2>1. /\ Len(rl_told'[m]) = Len(rl_told[m]) + 1
        /\ rl_told'[m][Len(rl_told[m]) + 1] \in RlOutcome
        /\ \A i \in 1 .. Len(rl_told[m]) : rl_told'[m][i] = rl_told[m][i]
        /\ \A x \in RlMsgs : x \notin ms => rl_told'[x] = rl_told[x]
    BY <1>1, <1>2, EndsOnce
  <2>2. Len(rl_told[m]) + 1 = 2
    OBVIOUS
  <2>3. rl_told'[m][2] \in RlOutcome /\ Len(rl_told'[m]) = 2
    BY <2>1, <2>2, Zenon
  <2>4. 1 \in 1 .. Len(rl_told[m])
    OBVIOUS
  <2>5. rl_told'[m][1] = rl_told[m][1]
    BY <2>1, <2>4, Zenon
  <2> QED BY <1>1, <2>1, <2>3, <2>5, Zenon
<1>4. Promise!Again(m)
  BY <1>3 DEF Promise!Again, InHand
<1>5. \A x \in RlMsgs : x # m => Promise!Kept(x)
  BY <1>3 DEF Promise!Kept
<1> QED BY <1>4, <1>5 DEF Promise!Next

\* Messages that come keep their connection.
ForGrows ==
    /\ rl_for' \in [RlMsgs -> Nat]
    /\ \A m \in RlMsgs : rl_for[m] # 0 => rl_for'[m] # 0

\* The places are those of different messages, and only those that could not be sent are both ended and in a
\* request.
PlacesApart ==
    /\ Distinct(rl_queue) /\ Distinct(rl_reqs)
    /\ RangeOf(rl_queue) \cap RangeOf(rl_reqs) = {} /\ RangeOf(rl_queue) \cap rl_unsent = {}

\* Every message stays in one place when those of a set end and are no longer messages that are held.
LEMMA EndKeepsPlace ==
    ASSUME RlInv, NEW ms \in SUBSET RlMsgs, NEW us \in SUBSET ms, NEW what \in RlEnds, NEW c \in Nat,
           \A m \in ms : rl_told[m] = <<>>, Ends(ms, what, c),
           InHand' = InHand \ ms, Held' \subseteq Held \cup ms, rl_unsent' = rl_unsent \cup us,
           RangeOf(rl_reqs') \subseteq RangeOf(rl_reqs) \cup us,
           ForGrows, \A m \in ms : rl_for'[m] # 0, PlacesApart'
    PROVE  OnePlace' /\ rl_told' \in [RlMsgs -> Seq(RlOutcome)] /\ rl_unsent' \in SUBSET RlMsgs
<1>1. RlTypeOK /\ OnePlace
  BY DEF RlInv
<1>2. /\ rl_told' \in [RlMsgs -> Seq(RlOutcome)]
      /\ \A m \in RlMsgs : m \notin ms => rl_told'[m] = rl_told[m]
      /\ \A m \in ms : Len(rl_told'[m]) = 1
  BY <1>1, EndsOnce
<1>3. Held \subseteq RlMsgs /\ InHand \subseteq Held /\ RangeOf(rl_reqs) \subseteq RlMsgs
  BY <1>1, HeldTypes
<1>4. \A m \in Held' : rl_for'[m] # 0
  BY <1>1, <1>3 DEF OnePlace, ForGrows
<1>5. \A m \in InHand' : rl_told'[m] = <<>>
  BY <1>1, <1>2, <1>3 DEF OnePlace
<1>6. \A m \in RangeOf(rl_reqs') \cap rl_unsent' : Len(rl_told'[m]) = 1
  BY <1>1, <1>2, <1>3 DEF OnePlace
<1>7. \A m \in RlMsgs : rl_for'[m] = 0 => rl_told'[m] = <<>> /\ m \notin rl_unsent'
  BY <1>1, <1>2 DEF OnePlace, ForGrows
<1>8. rl_unsent' \in SUBSET RlMsgs
  BY <1>1 DEF RlTypeOK
<1> QED BY <1>2, <1>4, <1>5, <1>6, <1>7, <1>8 DEF OnePlace, PlacesApart

\* Every message stays in one place when some more are held and none ends.
LEMMA TakeKeepsPlace ==
    ASSUME RlInv, NEW ms \in SUBSET RlMsgs, \A m \in ms : rl_told[m] = <<>> /\ m \notin rl_unsent,
           rl_told' = rl_told, Held' = Held \cup ms, rl_unsent' = rl_unsent,
           RangeOf(rl_reqs') \subseteq RangeOf(rl_reqs) \cup ms,
           ForGrows, \A m \in ms : rl_for'[m] # 0, PlacesApart'
    PROVE  OnePlace' /\ InHand' = InHand \cup ms
<1>1. RlTypeOK /\ OnePlace
  BY DEF RlInv
<1>2. InHand' = InHand \cup ms
  BY DEF InHand
<1>3. Held \subseteq RlMsgs /\ InHand \subseteq Held /\ RangeOf(rl_reqs) \subseteq RlMsgs
  BY <1>1, HeldTypes
<1>4. \A m \in Held' : rl_for'[m] # 0
  BY <1>1, <1>3 DEF OnePlace, ForGrows
<1>5. \A m \in InHand' : rl_told'[m] = <<>>
  BY <1>1, <1>2 DEF OnePlace
<1>6. \A m \in RangeOf(rl_reqs') \cap rl_unsent' : Len(rl_told'[m]) = 1
  BY <1>1 DEF OnePlace
<1>7. \A m \in RlMsgs : rl_for'[m] = 0 => rl_told'[m] = <<>> /\ m \notin rl_unsent'
  BY <1>1 DEF OnePlace, ForGrows
<1> QED BY <1>2, <1>4, <1>5, <1>6, <1>7 DEF OnePlace, PlacesApart

\* The empty queue.
LEMMA NoMsgs == <<>> \in Seq(RlMsgs) /\ Len(<<>>) = 0 /\ RangeOf(<<>>) = {} /\ Distinct(<<>>)
BY DEF RangeOf, Distinct

\* A sequence of one message.
LEMMA OneMsg ==
    ASSUME NEW m \in RlMsgs
    PROVE  <<m>> \in Seq(RlMsgs) /\ RangeOf(<<m>>) = {m} /\ Distinct(<<m>>) /\ Len(<<m>>) = 1
BY DEF RangeOf, Distinct

-----------------------------------------------------------------------------
(* One lemma per action                                                    *)

\* Messages that have just come, or are taken from the queue, are sent, requested, refused or dropped
\* (gsm0808_send_rsl_dtap()).
LEMMA SendStep ==
    ASSUME RlInv, NEW msgs \in Seq(RlMsgs), Distinct(msgs), gsm0808_send_rsl_dtap(msgs),
           RangeOf(msgs) \cap RangeOf(rl_reqs) = {}, RangeOf(msgs) \subseteq RlMsgs,
           \A m \in RangeOf(msgs) : rl_told[m] = <<>> /\ m \notin rl_unsent,
           ForGrows, \A m \in RangeOf(msgs) : rl_for'[m] # 0,
           Distinct(rl_queue'), RangeOf(rl_queue') = RangeOf(rl_queue) \ RangeOf(msgs)
    PROVE  /\ OnePlace' /\ Promise!Next
           /\ rl_told' \in [RlMsgs -> Seq(RlOutcome)] /\ rl_unsent' \in SUBSET RlMsgs
           /\ rl_reqs' \in Seq(RlMsgs) /\ rl_asked' \in Nat
<1> DEFINE ms == RangeOf(msgs)
<1>1. /\ RlTypeOK /\ OnePlace /\ rl_last \in Nat /\ rl_conn \in Nat /\ rl_asked \in Nat
      /\ rl_reqs \in Seq(RlMsgs) /\ Distinct(rl_reqs) /\ RangeOf(rl_queue) \cap RangeOf(rl_reqs) = {}
      /\ RangeOf(rl_queue) \cap rl_unsent = {} /\ rl_unsent \in SUBSET RlMsgs
  BY DEF RlInv, RlTypeOK, OnePlace
<1>2. /\ ms \in SUBSET RlMsgs /\ ms \cap RangeOf(rl_reqs) = {}
      /\ \A m \in ms : rl_told[m] = <<>>
      /\ \A m \in ms : m \notin rl_unsent
      /\ \A m \in ms : rl_told[m] = <<>> /\ m \notin rl_unsent
      /\ \A m \in ms : rl_for'[m] # 0
      /\ RangeOf(rl_queue') = RangeOf(rl_queue) \ ms
  OBVIOUS
<1>3. /\ rl_reqs \o msgs \in Seq(RlMsgs) /\ RangeOf(rl_reqs \o msgs) = RangeOf(rl_reqs) \cup ms
      /\ Distinct(rl_reqs \o msgs)
  BY <1>1, <1>2, ConcatProperties, ConcatRange
<1>9. Len(msgs) \in Nat
  BY LenProperties
<1>4. ASSUME NEW what \in RlEnds, NEW c \in Nat, Ends(ms, what, c),
             UNCHANGED <<rl_reqs, rl_asked, rl_unsent>>
      PROVE  /\ OnePlace' /\ Promise!Next
             /\ rl_told' \in [RlMsgs -> Seq(RlOutcome)] /\ rl_unsent' \in SUBSET RlMsgs
             /\ rl_reqs' \in Seq(RlMsgs) /\ rl_asked' \in Nat
  <2> HIDE DEF ms
  <2> DEFINE us == {}
  <2>1. /\ InHand' = InHand \ ms /\ Held' \subseteq Held \cup ms /\ rl_unsent' = rl_unsent \cup us
        /\ us \in SUBSET ms /\ RangeOf(rl_reqs') \subseteq RangeOf(rl_reqs) \cup us
    BY <1>2, <1>4 DEF InHand, Held
  <2>2. PlacesApart'
    BY <1>1, <1>2, <1>4 DEF PlacesApart
  <2> HIDE DEF us
  <2>3. Promise!Next
    BY <1>2, <1>4, <2>1, EndingStep
  <2>4. OnePlace' /\ rl_told' \in [RlMsgs -> Seq(RlOutcome)] /\ rl_unsent' \in SUBSET RlMsgs
    BY <1>2, <1>4, <2>1, <2>2, EndKeepsPlace
  <2> QED BY <1>1, <1>4, <2>3, <2>4
<1>5. CASE rl_conn = 0
  BY <1>1, <1>4, <1>5 DEF gsm0808_send_rsl_dtap, RlEnds
<1>6. CASE rl_conn # 0 /\ rl_sapi
  <2>1. PICK what \in {"sent", "failed"} : Ends(ms, what, rl_conn)
    BY <1>6 DEF gsm0808_send_rsl_dtap
  <2>2. UNCHANGED <<rl_reqs, rl_asked, rl_unsent>>
    BY <1>6 DEF gsm0808_send_rsl_dtap
  <2> QED BY <1>1, <1>4, <2>1, <2>2 DEF RlEnds
<1>7. CASE rl_conn # 0 /\ ~rl_sapi /\ rl_up
  <2>1. /\ rl_reqs' = rl_reqs \o msgs /\ rl_asked' = rl_asked + Len(msgs)
        /\ rl_told' = rl_told /\ rl_unsent' = rl_unsent
    BY <1>7 DEF gsm0808_send_rsl_dtap
  <2>5. rl_asked' \in Nat /\ rl_reqs' \in Seq(RlMsgs)
    BY <1>1, <1>3, <1>9, <2>1
  <2>6. RangeOf(rl_reqs') = RangeOf(rl_reqs) \cup ms /\ Distinct(rl_reqs')
    BY <1>3, <2>1
  <2> HIDE DEF ms
  <2>2. Held' = Held \cup ms /\ RangeOf(rl_reqs') \subseteq RangeOf(rl_reqs) \cup ms
    BY <1>2, <2>6 DEF Held
  <2>3. PlacesApart'
    BY <1>1, <1>2, <2>1, <2>6 DEF PlacesApart
  <2>4. OnePlace' /\ InHand' = InHand \cup ms
    BY <1>2, <2>1, <2>2, <2>3, TakeKeepsPlace
  <2> DEFINE new == ms \ InHand
  <2>7. /\ new \in SUBSET RlMsgs /\ InHand' = InHand \cup new
        /\ \A m \in new : m \notin InHand /\ rl_told[m] = <<>>
    BY <1>2, <2>4
  <2> HIDE DEF new
  <2>8. Promise!Next
    BY <2>1, <2>7, TakingStep
  <2> QED BY <1>1, <2>1, <2>4, <2>5, <2>8 DEF RlTypeOK
<1>8. CASE rl_conn # 0 /\ ~rl_sapi /\ ~rl_up
  <2>1. /\ rl_reqs' = rl_reqs \o msgs /\ rl_unsent' = rl_unsent \cup ms
        /\ Ends(ms, "rejected", rl_conn) /\ rl_asked' = rl_asked
    BY <1>8 DEF gsm0808_send_rsl_dtap
  <2>5. rl_asked' \in Nat /\ rl_reqs' \in Seq(RlMsgs)
    BY <1>1, <1>3, <2>1
  <2>6. RangeOf(rl_reqs') = RangeOf(rl_reqs) \cup ms /\ Distinct(rl_reqs')
    BY <1>3, <2>1
  <2> HIDE DEF ms
  <2>2. /\ InHand' = InHand \ ms /\ Held' \subseteq Held \cup ms /\ ms \in SUBSET ms
        /\ RangeOf(rl_reqs') \subseteq RangeOf(rl_reqs) \cup ms
    BY <1>2, <2>1, <2>6 DEF InHand, Held
  <2>3. PlacesApart'
    BY <1>1, <1>2, <2>1, <2>6 DEF PlacesApart
  <2>4. "rejected" \in RlEnds
    BY DEF RlEnds
  <2>7. Promise!Next
    BY <1>1, <1>2, <2>1, <2>2, <2>4, EndingStep
  <2>8. OnePlace' /\ rl_told' \in [RlMsgs -> Seq(RlOutcome)] /\ rl_unsent' \in SUBSET RlMsgs
    BY <1>1, <1>2, <2>1, <2>2, <2>3, <2>4, EndKeepsPlace
  <2> QED BY <2>5, <2>7, <2>8
<1> QED BY <1>5, <1>6, <1>7, <1>8

\* A message of the MSC is sent, requested, queued or dropped (gscon_submit_rsl_dtap()).
LEMMA SubmitStep ==
    ASSUME RlInv, NEW m \in RlMsgs, RlSubmit(m)
    PROVE  RlInv' /\ Promise!Next
<1>1. /\ RlTypeOK /\ OnePlace /\ RlQueueFlushed /\ rl_last # 0 /\ rl_last \in Nat
      /\ rl_queue \in Seq(RlMsgs) /\ rl_reqs \in Seq(RlMsgs) /\ rl_asked \in Nat /\ rl_unsent \in SUBSET RlMsgs
      /\ Distinct(rl_queue) /\ Distinct(rl_reqs) /\ RangeOf(rl_queue) \cap RangeOf(rl_reqs) = {}
      /\ RangeOf(rl_queue) \cap rl_unsent = {}
  BY DEF RlInv, RlSubmit, RlTypeOK, OnePlace
<1>2. /\ rl_for' = [rl_for EXCEPT ![m] = rl_last] /\ rl_for[m] = 0
      /\ UNCHANGED <<rl_conn, rl_last, rl_state, rl_sapi, rl_up, rl_left>>
  BY DEF RlSubmit
<1>3. ForGrows /\ rl_for'[m] # 0 /\ rl_for' \in [RlMsgs -> Nat]
  BY <1>1, <1>2 DEF ForGrows, RlTypeOK
<1>4. /\ m \notin Held /\ rl_told[m] = <<>> /\ m \notin rl_unsent
      /\ m \notin RangeOf(rl_queue) /\ m \notin RangeOf(rl_reqs)
  BY <1>1, <1>2 DEF OnePlace, Held
<1> DEFINE ms == {m}
<1>9. /\ ms \in SUBSET RlMsgs
      /\ \A x \in ms : rl_told[x] = <<>>
      /\ \A x \in ms : x \notin InHand /\ rl_told[x] = <<>>
      /\ \A x \in ms : rl_told[x] = <<>> /\ x \notin rl_unsent
      /\ \A x \in ms : rl_for'[x] # 0
      /\ RangeOf(rl_queue) = RangeOf(rl_queue) \ ms
  BY <1>3, <1>4 DEF InHand
<1> HIDE DEF ms
<1>6. CASE rl_state = "ACTIVE"
  <2> DEFINE u == <<m>>
  <2>1. gsm0808_send_rsl_dtap(u) /\ rl_queue' = rl_queue
    BY <1>6 DEF RlSubmit
  <2>2. u \in Seq(RlMsgs) /\ RangeOf(u) = ms /\ Distinct(u)
    BY OneMsg DEF ms
  <2> HIDE DEF u
  <2>3. RangeOf(u) \cap RangeOf(rl_reqs) = {} /\ RangeOf(rl_queue') = RangeOf(rl_queue) \ RangeOf(u)
    BY <1>4, <1>9, <2>1, <2>2 DEF ms
  <2>4. /\ OnePlace' /\ Promise!Next
        /\ rl_told' \in [RlMsgs -> Seq(RlOutcome)] /\ rl_unsent' \in SUBSET RlMsgs
        /\ rl_reqs' \in Seq(RlMsgs) /\ rl_asked' \in Nat
    BY <1>1, <1>3, <1>9, <2>1, <2>2, <2>3, SendStep
  <2> QED BY <1>1, <1>2, <1>3, <2>1, <2>4 DEF RlInv, RlTypeOK, RlQueueFlushed
<1>7. CASE rl_state = "CLEARING" \/ (rl_state = "BUSY" /\ Len(rl_queue) >= DtapMax)
  <2> DEFINE us == {}
  <2>1. /\ Ends(ms, "dropped", rl_last) /\ "dropped" \in RlEnds
        /\ rl_queue' = rl_queue /\ rl_reqs' = rl_reqs /\ rl_asked' = rl_asked /\ rl_unsent' = rl_unsent
    BY <1>1, <1>7, LenProperties, RlAssumption DEF RlSubmit, ms, RlEnds
  <2>2. /\ InHand' = InHand \ ms /\ Held' \subseteq Held \cup ms /\ rl_unsent' = rl_unsent \cup us
        /\ us \in SUBSET ms /\ RangeOf(rl_reqs') \subseteq RangeOf(rl_reqs) \cup us
    BY <1>9, <2>1 DEF InHand, Held
  <2>3. PlacesApart'
    BY <1>1, <2>1 DEF PlacesApart
  <2> HIDE DEF us
  <2>4. Promise!Next
    BY <1>1, <1>9, <2>1, <2>2, EndingStep
  <2>5. OnePlace' /\ rl_told' \in [RlMsgs -> Seq(RlOutcome)] /\ rl_unsent' \in SUBSET RlMsgs
    BY <1>1, <1>3, <1>9, <2>1, <2>2, <2>3, EndKeepsPlace
  <2> QED BY <1>1, <1>2, <1>3, <2>1, <2>4, <2>5 DEF RlInv, RlTypeOK, RlQueueFlushed
<1>8. CASE rl_state = "BUSY" /\ Len(rl_queue) < DtapMax
  <2>1. /\ rl_queue' = Append(rl_queue, m) /\ rl_reqs' = rl_reqs /\ rl_asked' = rl_asked
        /\ rl_told' = rl_told /\ rl_unsent' = rl_unsent
    BY <1>8, <1>1, LenProperties, RlAssumption DEF RlSubmit
  <2>2. /\ rl_queue' \in Seq(RlMsgs) /\ RangeOf(rl_queue') = RangeOf(rl_queue) \cup {m}
        /\ Distinct(rl_queue') /\ Len(rl_queue') = Len(rl_queue) + 1
    BY <1>1, <1>4, <2>1, AppendRange, AppendProperties
  <2>3. Held' = Held \cup ms /\ RangeOf(rl_reqs') \subseteq RangeOf(rl_reqs) \cup ms
    BY <2>1, <2>2 DEF Held, ms
  <2>5. PlacesApart'
    BY <1>1, <1>4, <2>1, <2>2 DEF PlacesApart
  <2>6. OnePlace' /\ InHand' = InHand \cup ms
    BY <1>1, <1>3, <1>9, <2>1, <2>3, <2>5, TakeKeepsPlace
  <2>4. Promise!Next
    BY <1>9, <2>1, <2>6, TakingStep
  <2>7. Len(rl_queue') <= DtapMax
    BY <1>1, <1>8, <2>2, LenProperties, RlAssumption
  <2> QED BY <1>1, <1>2, <1>3, <1>8, <2>1, <2>2, <2>4, <2>6, <2>7 DEF RlInv, RlTypeOK, RlQueueFlushed
<1>10. rl_state \in {"ACTIVE", "BUSY", "CLEARING"}
  BY <1>1 DEF RlSubmit, RlTypeOK, RlStates
<1> QED BY <1>1, <1>6, <1>7, <1>8, <1>10, LenProperties, RlAssumption

\* The end of one request: its message, which is held nowhere else, ends, if it is not one that could not be
\* sent (complete_rllr(), rll_ind_cb()).
LEMMA CompleteStep ==
    ASSUME RlInv, NEW m \in RangeOf(rl_reqs), NEW ind, rll_ind_cb(m, ind),
           rl_reqs' \in Seq(RlMsgs), Distinct(rl_reqs'), RangeOf(rl_reqs') = RangeOf(rl_reqs) \ {m},
           UNCHANGED <<rl_queue, rl_for, rl_unsent>>
    PROVE  OnePlace' /\ rl_told' \in [RlMsgs -> Seq(RlOutcome)] /\ Promise!Next
<1>1. /\ RlTypeOK /\ OnePlace /\ Distinct(rl_queue) /\ RangeOf(rl_queue) \cap RangeOf(rl_reqs) = {}
      /\ rl_conn \in Nat /\ rl_for \in [RlMsgs -> Nat] /\ RangeOf(rl_queue) \cap rl_unsent = {}
      /\ rl_told \in [RlMsgs -> Seq(RlOutcome)]
  BY DEF RlInv, OnePlace, RlTypeOK
<1>2. m \in RlMsgs /\ m \in Held /\ rl_for[m] # 0
  BY <1>1, HeldTypes DEF OnePlace, Held
<1>3. Held' = Held \ {m} /\ InHand' = InHand \ {m} /\ PlacesApart'
  BY <1>1 DEF Held, InHand, PlacesApart
<1>4. ForGrows
  BY <1>1 DEF ForGrows
<1>5. CASE m \notin rl_unsent
  <2> DEFINE ms == {m}
             us == {}
  <2>1. /\ ms \in SUBSET RlMsgs
        /\ \A x \in ms : rl_told[x] = <<>>
        /\ \A x \in ms : rl_for'[x] # 0
    BY <1>1, <1>2, <1>5 DEF OnePlace, InHand
  <2>2. PICK what \in RlEnds, c \in Nat : Ends(ms, what, c)
    BY <1>1, <1>5 DEF rll_ind_cb, RlEnds
  <2>3. /\ InHand' = InHand \ ms /\ Held' \subseteq Held \cup ms /\ rl_unsent' = rl_unsent \cup us
        /\ us \in SUBSET ms /\ RangeOf(rl_reqs') \subseteq RangeOf(rl_reqs) \cup us
    BY <1>3
  <2> HIDE DEF ms, us
  <2>4. Promise!Next
    BY <2>1, <2>2, <2>3, EndingStep
  <2>5. OnePlace' /\ rl_told' \in [RlMsgs -> Seq(RlOutcome)]
    BY <1>3, <1>4, <2>1, <2>2, <2>3, EndKeepsPlace
  <2> QED BY <2>4, <2>5
<1>6. CASE m \in rl_unsent /\ rl_conn = 0
  <2>1. rl_told' = rl_told
    BY <1>6 DEF rll_ind_cb
  <2>2. InHand' = InHand
    BY <1>3, <1>6 DEF InHand
  <2>3. \A x \in RlMsgs : Promise!Kept(x)
    BY <2>1, <2>2 DEF Promise!Kept
  <2>4. Promise!Next
    BY <2>3 DEF Promise!Next
  <2>5. OnePlace'
    BY <1>1, <1>3, <2>1, <2>2 DEF OnePlace, PlacesApart
  <2> QED BY <1>1, <2>1, <2>4, <2>5
<1>7. CASE m \in rl_unsent /\ rl_conn # 0
  <2>1. PICK what \in RlEnds : Ends({m}, what, rl_conn)
    BY <1>7 DEF rll_ind_cb, RlEnds
  <2>2. InHand' = InHand /\ Len(rl_told[m]) = 1 /\ m \notin InHand
    BY <1>1, <1>3, <1>7 DEF InHand, OnePlace
  <2>3. Promise!Next
    BY <1>1, <1>2, <1>7, <2>1, <2>2, AgainStep
  <2>4. /\ rl_told' \in [RlMsgs -> Seq(RlOutcome)]
        /\ \A x \in RlMsgs : x # m => rl_told'[x] = rl_told[x]
    <3> DEFINE ms == {m}
    <3>1. ms \in SUBSET RlMsgs /\ Ends(ms, what, rl_conn) /\ \A x \in RlMsgs : x # m => x \notin ms
      BY <1>2, <2>1
    <3> HIDE DEF ms
    <3> QED BY <1>1, <3>1, EndsOnce
  <2>5. InHand \subseteq RlMsgs /\ RangeOf(rl_reqs) \subseteq RlMsgs
    BY <1>1, HeldTypes
  <2>6. \A x \in InHand' : rl_told'[x] = <<>>
    BY <1>1, <2>2, <2>4, <2>5 DEF OnePlace
  <2>7. \A x \in RangeOf(rl_reqs') \cap rl_unsent' : Len(rl_told'[x]) = 1
    BY <1>1, <2>4, <2>5 DEF OnePlace
  <2>8. \A x \in RlMsgs : rl_for'[x] = 0 => rl_told'[x] = <<>> /\ x \notin rl_unsent'
    BY <1>1, <1>2, <2>4 DEF OnePlace
  <2>9. \A x \in Held' : rl_for'[x] # 0
    BY <1>1, <1>3 DEF OnePlace
  <2>10. OnePlace'
    BY <1>3, <2>6, <2>7, <2>8, <2>9 DEF OnePlace, PlacesApart
  <2> QED BY <2>3, <2>4, <2>10
<1> QED BY <1>5, <1>6, <1>7

\* what the promise is about
promised == <<InHand, rl_told, rl_unsent>>

\* A message of the BTS completes at most one request (abis_rsl_rx_rll(), rll_indication()).
LEMMA ReceiveStep ==
    ASSUME RlInv, NEW type \in {"EST_CONF", "EST_IND", "REL_IND", "ERR_IND"}, RlReceive(type)
    PROVE  RlInv' /\ [Promise!Next]_promised
<1>1. /\ RlTypeOK /\ OnePlace /\ Distinct(rl_reqs) /\ rl_reqs \in Seq(RlMsgs)
  BY DEF RlInv, OnePlace, RlTypeOK
<1>2. /\ UNCHANGED <<rl_conn, rl_last, rl_state, rl_queue, rl_up, rl_for, rl_unsent>>
      /\ rl_asked' \in Nat /\ rl_left' \in Nat /\ rl_sapi' \in BOOLEAN
  <2>1. UNCHANGED <<rl_conn, rl_last, rl_state, rl_queue, rl_up, rl_for, rl_unsent>>
    BY DEF RlReceive
  <2>2. rl_asked' \in Nat /\ rl_left' \in Nat
    <3>1. rl_asked \in Nat /\ rl_left \in Nat
      BY <1>1 DEF RlTypeOK
    <3>2. CASE type = "EST_CONF"
      BY <3>1, <3>2 DEF RlReceive
    <3>3. CASE type # "EST_CONF"
      BY <3>1, <3>3 DEF RlReceive
    <3> QED BY <3>2, <3>3
  <2>3. rl_sapi' \in {TRUE, FALSE, rl_sapi}
    BY DEF RlReceive
  <2>4. rl_sapi' \in BOOLEAN
    BY <1>1, <2>3 DEF RlTypeOK
  <2> QED BY <2>1, <2>2, <2>4
<1>3. CASE rl_reqs' = rl_reqs /\ rl_told' = rl_told
  <2>1. Held' = Held /\ InHand' = InHand /\ OnePlace'
    BY <1>1, <1>2, <1>3 DEF Held, InHand, OnePlace
  <2>2. RlInv'
    BY <1>2, <1>3, <2>1 DEF RlInv, RlTypeOK, RlQueueFlushed
  <2> QED BY <1>2, <1>3, <2>1, <2>2 DEF promised
<1>4. CASE ~(rl_reqs' = rl_reqs /\ rl_told' = rl_told)
  <2>1. /\ rl_reqs # <<>> /\ rl_reqs' = SubSeq(rl_reqs, 1, Len(rl_reqs) - 1)
        /\ rll_ind_cb(rl_reqs[Len(rl_reqs)], type)
    BY <1>4 DEF RlReceive, rll_indication
  <2>2. /\ rl_reqs' \in Seq(RlMsgs) /\ rl_reqs[Len(rl_reqs)] \in RangeOf(rl_reqs) /\ Distinct(rl_reqs')
        /\ RangeOf(rl_reqs') = RangeOf(rl_reqs) \ {rl_reqs[Len(rl_reqs)]}
    BY <1>1, <2>1, FrontRange
  <2>3. OnePlace' /\ rl_told' \in [RlMsgs -> Seq(RlOutcome)] /\ Promise!Next
    BY <1>2, <2>1, <2>2, CompleteStep
  <2> QED BY <1>2, <2>2, <2>3 DEF RlInv, RlTypeOK, RlQueueFlushed
<1> QED BY <1>3, <1>4

\* The timer of the oldest request completes it (timer_cb()).
LEMMA TimeoutStep ==
    ASSUME RlInv, RlTimeout
    PROVE  RlInv' /\ Promise!Next
<1>1. Distinct(rl_reqs) /\ rl_reqs \in Seq(RlMsgs)
  BY DEF RlInv, OnePlace, RlTypeOK
<1>2. /\ rl_reqs # <<>> /\ rl_reqs' = Tail(rl_reqs) /\ rll_ind_cb(Head(rl_reqs), "TIMEOUT")
      /\ UNCHANGED <<rl_conn, rl_last, rl_state, rl_queue, rl_sapi, rl_up, rl_asked, rl_for, rl_unsent, rl_left>>
  BY DEF RlTimeout
<1>3. /\ rl_reqs' \in Seq(RlMsgs) /\ Head(rl_reqs) \in RangeOf(rl_reqs) /\ Distinct(rl_reqs')
      /\ RangeOf(rl_reqs') = RangeOf(rl_reqs) \ {Head(rl_reqs)}
  BY <1>1, <1>2, TailRange
<1>4. OnePlace' /\ rl_told' \in [RlMsgs -> Seq(RlOutcome)] /\ Promise!Next
  BY <1>2, <1>3, CompleteStep
<1> QED BY <1>2, <1>3, <1>4 DEF RlInv, RlTypeOK, RlQueueFlushed

\* A procedure ends: what waited for it is sent, refused, dropped, or waits for the link layer.
LEMMA ProcedureEndsStep ==
    ASSUME RlInv, RlProcedureEnds
    PROVE  RlInv' /\ Promise!Next
<1>1. /\ RlTypeOK /\ OnePlace /\ Distinct(rl_queue) /\ rl_queue \in Seq(RlMsgs)
      /\ RangeOf(rl_queue) \cap RangeOf(rl_reqs) = {} /\ RangeOf(rl_queue) \cap rl_unsent = {}
      /\ rl_for \in [RlMsgs -> Nat]
  BY DEF RlInv, OnePlace, RlTypeOK
<1>2. /\ rl_state' = "ACTIVE" /\ rl_state = "BUSY" /\ rl_queue' = <<>> /\ gsm0808_send_rsl_dtap(rl_queue)
      /\ UNCHANGED <<rl_conn, rl_last, rl_sapi, rl_up, rl_for, rl_left>>
  BY DEF RlProcedureEnds
<1>3. rl_queue' \in Seq(RlMsgs) /\ Len(rl_queue') = 0 /\ RangeOf(rl_queue') = {} /\ Distinct(rl_queue')
  BY <1>2, NoMsgs
<1>4. /\ RangeOf(rl_queue) \subseteq RlMsgs
      /\ \A m \in RangeOf(rl_queue) : rl_told[m] = <<>> /\ m \notin rl_unsent
      /\ \A m \in RangeOf(rl_queue) : rl_for'[m] # 0
  BY <1>1, <1>2, HeldTypes DEF OnePlace, Held, InHand
<1>5. RangeOf(rl_queue') = RangeOf(rl_queue) \ RangeOf(rl_queue) /\ ForGrows
  BY <1>1, <1>2, <1>3 DEF ForGrows
<1>6. /\ OnePlace' /\ Promise!Next
      /\ rl_told' \in [RlMsgs -> Seq(RlOutcome)] /\ rl_unsent' \in SUBSET RlMsgs
      /\ rl_reqs' \in Seq(RlMsgs) /\ rl_asked' \in Nat
  BY <1>1, <1>2, <1>3, <1>4, <1>5, SendStep
<1>7. RlQueueFlushed'
  BY <1>2, <1>3, RlAssumption DEF RlQueueFlushed
<1>8. RlTypeOK'
  BY <1>1, <1>2, <1>3, <1>6 DEF RlTypeOK, RlStates
<1> QED BY <1>2, <1>6, <1>7, <1>8 DEF RlInv

\* The connection ends: what waits in its queue is dropped (gscon_dtap_queue_flush()).
LEMMA ConnEndsStep ==
    ASSUME RlInv, RlConnEnds
    PROVE  RlInv' /\ Promise!Next
<1> DEFINE ms == RangeOf(rl_queue)
           us == {}
<1>1. /\ RlTypeOK /\ OnePlace /\ Distinct(rl_reqs) /\ ms \cap RangeOf(rl_reqs) = {} /\ ms \cap rl_unsent = {}
      /\ rl_for \in [RlMsgs -> Nat] /\ rl_last \in Nat
  BY DEF RlInv, OnePlace, RlTypeOK
<1>2. /\ rl_state' = "NONE" /\ rl_queue' = <<>> /\ Ends(ms, "dropped", rl_last)
      /\ rl_conn' = 0 /\ rl_sapi' = FALSE /\ rl_asked' = 0
      /\ UNCHANGED <<rl_last, rl_reqs, rl_up, rl_for, rl_unsent, rl_left>>
  BY DEF RlConnEnds, Freed
<1>3. rl_queue' \in Seq(RlMsgs) /\ Len(rl_queue') = 0 /\ RangeOf(rl_queue') = {} /\ Distinct(rl_queue')
  BY <1>2, NoMsgs
<1>4. /\ ms \in SUBSET RlMsgs /\ "dropped" \in RlEnds
      /\ \A m \in ms : rl_told[m] = <<>>
      /\ \A m \in ms : rl_for'[m] # 0
  BY <1>1, <1>2, HeldTypes DEF OnePlace, Held, InHand, RlEnds
<1>5. /\ InHand' = InHand \ ms /\ Held' \subseteq Held \cup ms /\ rl_unsent' = rl_unsent \cup us
      /\ us \in SUBSET ms /\ RangeOf(rl_reqs') \subseteq RangeOf(rl_reqs) \cup us
  BY <1>1, <1>2, <1>3 DEF InHand, Held
<1>6. PlacesApart' /\ ForGrows
  BY <1>1, <1>2, <1>3 DEF PlacesApart, ForGrows
<1> HIDE DEF ms, us
<1>7. Promise!Next
  BY <1>1, <1>2, <1>4, <1>5, EndingStep
<1>8. OnePlace' /\ rl_told' \in [RlMsgs -> Seq(RlOutcome)] /\ rl_unsent' \in SUBSET RlMsgs
  BY <1>1, <1>2, <1>4, <1>5, <1>6, EndKeepsPlace
<1>9. RlQueueFlushed'
  BY <1>2, <1>3, RlAssumption DEF RlQueueFlushed
<1>10. RlTypeOK'
  BY <1>1, <1>2, <1>3, <1>8 DEF RlTypeOK, RlStates
<1> QED BY <1>2, <1>7, <1>8, <1>9, <1>10 DEF RlInv

\* A step that leaves the messages alone keeps them in their places and is a stutter of the promise.
LEMMA MsgsLeftAlone ==
    ASSUME RlInv, UNCHANGED <<rl_queue, rl_reqs, rl_for, rl_told, rl_unsent>>
    PROVE  OnePlace' /\ promised' = promised
<1>1. OnePlace /\ Held' = Held /\ InHand' = InHand
  BY DEF RlInv, Held, InHand
<1> QED BY <1>1 DEF OnePlace, promised

-----------------------------------------------------------------------------

\* Every step keeps the invariant and is a step of the promise, or leaves it alone.
LEMMA RlStep ==
    ASSUME RlInv, [RlNext]_rlVars
    PROVE  RlInv' /\ [Promise!Next]_promised
<1>1. ASSUME NEW m \in RlMsgs, RlSubmit(m)
      PROVE  RlInv' /\ Promise!Next
  BY <1>1, SubmitStep
<1>2. ASSUME NEW type \in {"EST_CONF", "EST_IND", "REL_IND", "ERR_IND"}, RlReceive(type)
      PROVE  RlInv' /\ [Promise!Next]_promised
  BY <1>2, ReceiveStep
<1>3. CASE RlTimeout
  BY <1>3, TimeoutStep
<1>4. CASE RlProcedureEnds
  BY <1>4, ProcedureEndsStep
<1>5. CASE RlConnEnds
  BY <1>5, ConnEndsStep
<1>6. CASE RlLink
  <2>1. UNCHANGED <<rl_conn, rl_last, rl_state, rl_queue, rl_sapi, rl_reqs, rl_asked, rl_for, rl_told, rl_unsent>>
    BY <1>6 DEF RlLink
  <2>2. OnePlace' /\ promised' = promised
    BY <2>1, MsgsLeftAlone
  <2>3. rl_up' = FALSE \/ rl_up' = TRUE
    BY <1>6, Zenon DEF RlLink
  <2>4. rl_up' \in BOOLEAN
    BY <2>3, Zenon
  <2>5. (rl_left > 0 /\ rl_left' = rl_left - 1) \/ rl_left' = rl_left
    BY <1>6, Zenon DEF RlLink
  <2>6. rl_left' \in Nat
    BY <2>5 DEF RlInv, RlTypeOK
  <2> QED BY <2>1, <2>2, <2>4, <2>6 DEF RlInv, RlTypeOK, RlQueueFlushed
<1>7. CASE RlProcedure
  <2>1. OnePlace' /\ promised' = promised
    BY <1>7, MsgsLeftAlone DEF RlProcedure
  <2> QED BY <1>7, <2>1 DEF RlProcedure, RlInv, RlTypeOK, RlQueueFlushed, RlStates
<1>8. CASE RlLchanLost
  <2>1. OnePlace' /\ promised' = promised
    BY <1>8, MsgsLeftAlone DEF RlLchanLost
  <2> QED BY <1>8, <2>1 DEF RlLchanLost, Freed, RlInv, RlTypeOK, RlQueueFlushed, RlStates
<1>9. CASE RlClear
  <2>1. OnePlace' /\ promised' = promised
    BY <1>9, MsgsLeftAlone DEF RlClear
  <2> QED BY <1>9, <2>1 DEF RlClear, Freed, RlInv, RlTypeOK, RlQueueFlushed, RlStates
<1>10. CASE RlConnStarts
  <2>1. OnePlace' /\ promised' = promised
    BY <1>10, MsgsLeftAlone DEF RlConnStarts
  <2> QED BY <1>10, <2>1 DEF RlConnStarts, RlInv, RlTypeOK, RlQueueFlushed, RlStates
<1>11. CASE UNCHANGED rlVars
  <2>1. OnePlace' /\ promised' = promised
    BY <1>11, MsgsLeftAlone DEF rlVars
  <2> QED BY <1>11, <2>1 DEF rlVars, RlInv, RlTypeOK, RlQueueFlushed
<1> QED BY <1>1, <1>2, <1>3, <1>4, <1>5, <1>6, <1>7, <1>8, <1>9, <1>10, <1>11 DEF RlNext

\* The initial states satisfy the invariant and are initial states of the promise.
LEMMA RlStart ==
    ASSUME RlInit
    PROVE  RlInv /\ Promise!Init
<1>1. RangeOf(<<>>) = {} /\ Distinct(<<>>)
  BY NoMsgs
<1>2. RlTypeOK
  <2>1. rl_queue \in Seq(RlMsgs) /\ rl_reqs \in Seq(RlMsgs)
    BY NoMsgs DEF RlInit
  <2>2. rl_for \in [RlMsgs -> Nat] /\ rl_told \in [RlMsgs -> Seq(RlOutcome)] /\ rl_unsent \in SUBSET RlMsgs
    BY EmptySeq DEF RlInit
  <2>3. rl_state \in RlStates /\ rl_sapi \in BOOLEAN /\ rl_up \in BOOLEAN
    BY DEF RlInit, RlStates
  <2> QED BY <2>1, <2>2, <2>3, RlAssumption DEF RlInit, RlTypeOK
<1>3. Held = {} /\ InHand = {} /\ OnePlace
  BY <1>1 DEF RlInit, Held, InHand, OnePlace
<1> QED BY <1>2, <1>3, NoMsgs, RlAssumption DEF RlInit, RlInv, RlQueueFlushed, Promise!Init

\* The BSC keeps its promise for every message of the MSC: the queue of the connection and the requests for
\* the link layer implement DtapService, also where the RSL link is lost and nothing can be sent: then a
\* message may be answered a second time, and no other ever is.
THEOREM RllKeepsPromise == RlSpec => PromiseKept
<1>1. RlSpec => []RlInv
  <2>1. RlInit => RlInv
    BY RlStart
  <2>2. RlInv /\ [RlNext]_rlVars => RlInv'
    BY RlStep
  <2> QED BY <2>1, <2>2, PTL DEF RlSpec
<1>2. RlInit => Promise!Init
  BY RlStart
<1>3. RlInv /\ [RlNext]_rlVars => [Promise!Next]_<<InHand, rl_told, rl_unsent>>
  BY RlStep DEF promised
<1> QED BY <1>1, <1>2, <1>3, PTL DEF RlSpec, PromiseKept, Promise!Spec

\* The queue of a connection never exceeds its limit, and nothing waits in it once the procedure it waited
\* for is over.
THEOREM RllQueueFlushed == RlSpec => []RlQueueFlushed
<1>1. RlInit => RlInv
  BY RlStart
<1>2. RlInv /\ [RlNext]_rlVars => RlInv'
  BY RlStep
<1>3. RlInv => RlQueueFlushed
  BY DEF RlInv
<1> QED BY <1>1, <1>2, <1>3, PTL DEF RlSpec

=============================================================================
