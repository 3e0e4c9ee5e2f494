------------------------ MODULE EventIdWindow_proofs ------------------------
(***************************************************************************)
(* The window of event ids never lets a message through twice within its   *)
(* length, for every set of messages and every max_event_ids.              *)
(***************************************************************************)
EXTENDS EventIdWindow, SequenceTheorems, TLAPS

\* The window after one more id: a suffix of the ids in order, at most max of
\* them, and all of them while there is room.
LEMMA RememberProperties ==
    ASSUME NEW S, NEW ids \in Seq(S), NEW id \in S, NEW max \in Nat
    PROVE  LET s == Append(ids, id)
               w == Remember(ids, id, max)
           IN  /\ w \in Seq(S)
               /\ Len(w) = IF Len(s) > max THEN max ELSE Len(s)
               /\ \A i \in 1 .. Len(w) : w[i] = s[Len(s) - Len(w) + i]
  <1> DEFINE s == Append(ids, id)
             w == Remember(ids, id, max)
             m == Len(s) - max + 1
  <1>1. s \in Seq(S) /\ Len(s) \in Nat
    BY AppendProperties, LenProperties
  <1>2. w = IF Len(s) > max THEN SubSeq(s, m, Len(s)) ELSE s
    BY DEF Remember
  <1> HIDE DEF s, w
  <1>3. CASE ~(Len(s) > max)
    <2>1. w = s
      BY <1>2, <1>3
    <2>2. \A i \in 1 .. Len(w) : w[i] = s[Len(s) - Len(w) + i]
      BY <1>1, <2>1
    <2> QED
      BY <1>1, <1>3, <2>1, <2>2 DEF s, w
  <1>4. CASE Len(s) > max
    <2>1. m \in Int /\ \A i \in m .. Len(s) : s[i] \in S
      BY <1>1, <1>4
    <2>2. w = SubSeq(s, m, Len(s))
      BY <1>2, <1>4
    <2> HIDE DEF m
    <2>3. /\ w \in Seq(S)
          /\ Len(w) = IF m <= Len(s) THEN Len(s) - m + 1 ELSE 0
          /\ \A i \in 1 .. Len(s) - m + 1 : w[i] = s[m + i - 1]
      BY <1>1, <2>1, <2>2, SubSeqProperties
    <2>4. Len(w) = max
      BY <1>1, <1>4, <2>3 DEF m
    <2>5. \A i \in 1 .. Len(w) : w[i] = s[Len(s) - Len(w) + i]
      BY <1>1, <1>4, <2>3, <2>4 DEF m
    <2> QED
      BY <1>4, <2>3, <2>4, <2>5 DEF s, w
  <1> QED
    BY <1>3, <1>4
-----------------------------------------------------------------------------

\* The window and its history keep their types.
THEOREM TypeCorrect == Spec => []TypeOK
<1>1. Init => TypeOK
  BY DEF Init, TypeOK
<1>2. TypeOK /\ [Next]_vars => TypeOK'
  <2> SUFFICES ASSUME TypeOK, [Next]_vars PROVE TypeOK'
    OBVIOUS
  <2>1. ASSUME NEW m \in Messages, Accept(m) PROVE TypeOK'
    <3>1. EventId(m) \in Ids
      BY DEF Ids
    <3>2. seen' \in Seq(Ids)
      BY <2>1, <3>1, WindowAssumption, RememberProperties DEF TypeOK, Accept
    <3>3. accepted' \in Seq(Messages)
      BY <2>1, AppendProperties DEF TypeOK, Accept
    <3> QED
      BY <2>1, <3>2, <3>3 DEF TypeOK, Accept
  <2>2. ASSUME NEW m \in Messages, Ignore(m) PROVE TypeOK'
    BY <2>2 DEF TypeOK, Ignore, vars
  <2>3. CASE Clear
    BY <2>3 DEF TypeOK, Clear
  <2>4. CASE UNCHANGED vars
    BY <2>4 DEF TypeOK, vars
  <2> QED
    BY <2>1, <2>2, <2>3, <2>4 DEF Next
<1> QED
  BY <1>1, <1>2, PTL DEF Spec

\* The store remembers the ids of the last accepted messages, and no others.
THEOREM WindowIsRecent == Spec => []SeenIsRecent
<1>1. Init => SeenIsRecent
  BY WindowAssumption DEF Init, SeenIsRecent
<1>2. TypeOK /\ SeenIsRecent /\ [Next]_vars => SeenIsRecent'
  <2> SUFFICES ASSUME TypeOK, SeenIsRecent, [Next]_vars PROVE SeenIsRecent'
    OBVIOUS
  <2>1. ASSUME NEW m \in Messages, Accept(m) PROVE SeenIsRecent'
    <3> DEFINE s == Append(seen, EventId(m))
               w == Remember(seen, EventId(m), MaxEventIds)
    <3>1. EventId(m) \in Ids /\ seen \in Seq(Ids) /\ MaxEventIds \in Nat
      BY WindowAssumption DEF Ids, TypeOK
    <3>2. /\ Len(s) = Len(seen) + 1
          /\ \A i \in 1 .. Len(seen) : s[i] = seen[i]
          /\ s[Len(s)] = EventId(m)
      BY <3>1, AppendProperties
    <3>3. /\ w \in Seq(Ids)
          /\ Len(w) = IF Len(s) > MaxEventIds THEN MaxEventIds ELSE Len(s)
          /\ \A i \in 1 .. Len(w) : w[i] = s[Len(s) - Len(w) + i]
      BY <3>1, RememberProperties
    <3>w. seen' = w
      BY <2>1 DEF Accept
    <3> HIDE DEF s, w
    <3>4. /\ accepted \in Seq(Messages)
          /\ Len(accepted') = Len(accepted) + 1
          /\ \A i \in 1 .. Len(accepted) : accepted'[i] = accepted[i]
          /\ accepted'[Len(accepted) + 1] = m
      BY <2>1, AppendProperties DEF TypeOK, Accept
    <3>5. /\ Len(accepted) \in Nat /\ Len(seen) \in Nat
          /\ Len(s) \in Nat /\ Len(w) \in Nat
      BY <3>1, <3>2, <3>3, <3>4, LenProperties
    <3>6. Len(w) = IF Len(accepted') <= MaxEventIds THEN Len(accepted') ELSE MaxEventIds
      BY <3>1, <3>2, <3>3, <3>4, <3>5 DEF SeenIsRecent
    <3>7. ASSUME NEW i \in 1 .. Len(w)
          PROVE  w[i] = EventId(accepted'[Len(accepted') - Len(w) + i])
      <4>1. CASE i = Len(w)
        <5>1. Len(s) - Len(w) + i = Len(s) /\ Len(accepted') - Len(w) + i = Len(accepted) + 1
          BY <3>4, <3>5, <4>1
        <5> QED
          BY <3>2, <3>3, <3>4, <5>1
      <4>2. CASE i < Len(w)
        <5> DEFINE k == Len(s) - Len(w) + i
        <5>1. k \in 1 .. Len(seen)
          BY <3>1, <3>2, <3>3, <3>5, <4>2
        <5>2. w[i] = seen[k]
          BY <3>2, <3>3, <5>1
        <5>3. seen[k] = EventId(accepted[Len(accepted) - Len(seen) + k])
          BY <5>1 DEF SeenIsRecent
        <5>4. Len(accepted) - Len(seen) + k = Len(accepted') - Len(w) + i
          BY <3>2, <3>4, <3>5
        <5>5. Len(accepted') - Len(w) + i \in 1 .. Len(accepted)
          BY <3>1, <3>4, <3>5, <3>6, <4>2
        <5> QED
          BY <3>4, <5>2, <5>3, <5>4, <5>5
      <4> QED
        BY <3>5, <4>1, <4>2
    <3> QED
      BY <3>6, <3>7, <3>w DEF SeenIsRecent
  <2>2. ASSUME NEW m \in Messages, Ignore(m) PROVE SeenIsRecent'
    BY <2>2 DEF SeenIsRecent, Ignore, vars
  <2>3. CASE Clear
    BY <2>3, WindowAssumption DEF SeenIsRecent, Clear
  <2>4. CASE UNCHANGED vars
    BY <2>4 DEF SeenIsRecent, vars
  <2> QED
    BY <2>1, <2>2, <2>3, <2>4 DEF Next
<1> QED
  BY <1>1, <1>2, TypeCorrect, PTL DEF Spec

\* A redelivery within max_event_ids messages never reaches the reducer twice.
THEOREM NoReplay == Spec => []NoReplayInWindow
<1>1. Init => NoReplayInWindow
  BY DEF Init, NoReplayInWindow
<1>2. TypeOK /\ SeenIsRecent /\ NoReplayInWindow /\ [Next]_vars => NoReplayInWindow'
  <2> SUFFICES ASSUME TypeOK, SeenIsRecent, NoReplayInWindow, [Next]_vars
               PROVE NoReplayInWindow'
    OBVIOUS
  <2>1. ASSUME NEW m \in Messages, Accept(m) PROVE NoReplayInWindow'
    <3> SUFFICES ASSUME NEW i \in 1 .. Len(accepted'), NEW j \in 1 .. Len(accepted'),
                        i < j, EventId(accepted'[i]) = EventId(accepted'[j])
                 PROVE  j - i > MaxEventIds
      BY DEF NoReplayInWindow
    <3>1. /\ Len(accepted') = Len(accepted) + 1
          /\ \A k \in 1 .. Len(accepted) : accepted'[k] = accepted[k]
          /\ accepted'[Len(accepted) + 1] = m
      BY <2>1, AppendProperties DEF TypeOK, Accept
    <3>2. Len(accepted) \in Nat /\ Len(seen) \in Nat /\ MaxEventIds \in Nat
      BY LenProperties, WindowAssumption DEF TypeOK
    <3>3. CASE j <= Len(accepted)
      BY <3>1, <3>2, <3>3 DEF NoReplayInWindow
    <3>4. CASE j = Len(accepted) + 1
      <4> SUFFICES ASSUME j - i <= MaxEventIds PROVE FALSE
        BY <3>2
      <4> DEFINE k == i - (Len(accepted) - Len(seen))
      <4>1. k \in 1 .. Len(seen) /\ i \in 1 .. Len(accepted)
        BY <3>1, <3>2, <3>4 DEF SeenIsRecent
      <4>2. Len(accepted) - Len(seen) + k = i
        BY <3>2
      <4>3. seen[k] = EventId(accepted[i])
        BY <4>1, <4>2 DEF SeenIsRecent
      <4>4. EventId(m) \in Range(seen)
        BY <3>1, <3>4, <4>1, <4>3 DEF TypeOK, Range
      <4> QED
        BY <2>1, <4>4 DEF Accept, IsDuplicate
    <3> QED
      BY <3>1, <3>2, <3>3, <3>4
  <2>2. ASSUME NEW m \in Messages, Ignore(m) PROVE NoReplayInWindow'
    BY <2>2 DEF NoReplayInWindow, Ignore, vars
  <2>3. CASE Clear
    BY <2>3 DEF NoReplayInWindow, Clear
  <2>4. CASE UNCHANGED vars
    BY <2>4 DEF NoReplayInWindow, vars
  <2> QED
    BY <2>1, <2>2, <2>3, <2>4 DEF Next
<1> QED
  BY <1>1, <1>2, TypeCorrect, WindowIsRecent, PTL DEF Spec

\* Messages of one id are of one kind and one time, reports of one order and trade.
LEMMA SameIdTwins ==
    ASSUME NEW m \in Message, NEW n \in Message, Normalizable(m), Normalizable(n),
           EventId(m) = EventId(n)
    PROVE  Twins(m, n)
<1>1. /\ m.kind \in {"terminated", "account", "order"}
      /\ n.kind \in {"terminated", "account", "order"}
  BY DEF Normalizable, Message, TerminatedMsg, AccountMsg, OrderMsg, OtherMsg
<1>2. CASE m.kind = "terminated"
  BY <1>1, <1>2 DEF EventId, Twins
<1>3. CASE m.kind = "account"
  BY <1>1, <1>3 DEF EventId, Twins
<1>4. CASE m.kind = "order"
  BY <1>1, <1>4 DEF EventId, Twins
<1> QED  BY <1>1, <1>2, <1>3, <1>4

\* Nothing is ignored but for an accepted message of its kind and time.
THEOREM OnlyTwinsIgnored == Spec => []IgnoredHasTwin
<1>1. TypeOK /\ SeenIsRecent => IgnoredHasTwin
  <2> SUFFICES ASSUME TypeOK, SeenIsRecent, NEW m \in Messages, IsDuplicate(m, seen)
               PROVE  \E i \in 1 .. Len(accepted) : Twins(m, accepted[i])
    BY DEF IgnoredHasTwin
  <2>1. PICK k \in 1 .. Len(seen) : EventId(m) = seen[k]
    BY DEF IsDuplicate, Range, TypeOK
  <2> DEFINE i == Len(accepted) - Len(seen) + k
  <2>2. Len(accepted) \in Nat /\ Len(seen) \in Nat /\ MaxEventIds \in Nat
    BY LenProperties, WindowAssumption DEF TypeOK
  <2>3. i \in 1 .. Len(accepted)
    BY <2>1, <2>2 DEF SeenIsRecent
  <2>4. EventId(m) = EventId(accepted[i]) /\ accepted[i] \in Messages
    BY <2>1, <2>3 DEF SeenIsRecent, TypeOK
  <2>5. \A n \in Messages : n \in Message /\ Normalizable(n)
    BY WindowAssumption
  <2>6. Twins(m, accepted[i])
    BY <2>4, <2>5, SameIdTwins
  <2> QED  BY <2>3, <2>6
<1> QED  BY <1>1, TypeCorrect, WindowIsRecent, PTL
=============================================================================
