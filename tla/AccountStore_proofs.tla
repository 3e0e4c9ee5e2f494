------------------------- MODULE AccountStore_proofs -------------------------
(***************************************************************************)
(* The account state store keeps its types, its readers agree, its version *)
(* covers its state, and what the risk layer sees refines FailClosedGate:  *)
(* for every set of assets, amounts, orders and messages, and every size of*)
(* the window of event ids.                                                *)
(***************************************************************************)
EXTENDS AccountStore, SequenceTheorems, TLAPS

\* A function is a dictionary iff its keys and its values are of the types.
LEMMA DictsElement ==
    ASSUME NEW S, NEW T, NEW D \in SUBSET S, NEW f \in [D -> T]
    PROVE  f \in Dicts(S, T) /\ DOMAIN f = D
  BY DEF Dicts

LEMMA DictsDomain ==
    ASSUME NEW S, NEW T, NEW d \in Dicts(S, T)
    PROVE  DOMAIN d \in SUBSET S /\ d \in [DOMAIN d -> T]
  BY DEF Dicts

LEMMA EmptyDict ==
    ASSUME NEW S, NEW T
    PROVE  <<>> \in Dicts(S, T)
  <1>1. <<>> \in [{} -> T]
    OBVIOUS
  <1> QED
    BY <1>1 DEF Dicts

\* dict.update keeps the types of keys and values.
LEMMA OverlayType ==
    ASSUME NEW S, NEW T, NEW new \in Dicts(S, T), NEW old \in Dicts(S, T)
    PROVE  Overlay(new, old) \in Dicts(S, T)
  <1>1. DOMAIN new \cup DOMAIN old \in SUBSET S
    BY DictsDomain
  <1>2. Overlay(new, old) \in [DOMAIN new \cup DOMAIN old -> T]
    BY DictsDomain DEF Overlay
  <1> QED
    BY <1>1, <1>2, DictsElement

\* An empty update changes nothing.
LEMMA OverlayEmpty ==
    ASSUME NEW S, NEW T, NEW old \in Dicts(S, T)
    PROVE  Overlay(<<>>, old) = old
  <1>1. old = [k \in DOMAIN old |-> old[k]]
    BY DictsDomain
  <1>2. DOMAIN <<>> = {}
    OBVIOUS
  <1> QED
    BY <1>1, <1>2 DEF Overlay

\* dict.pop keeps the types of keys and values.
LEMMA DropType ==
    ASSUME NEW S, NEW T, NEW d \in Dicts(S, T), NEW k
    PROVE  Drop(k, d) \in Dicts(S, T)
  <1>1. DOMAIN d \ {k} \in SUBSET S
    BY DictsDomain
  <1>2. Drop(k, d) \in [DOMAIN d \ {k} -> T]
    BY DictsDomain DEF Drop, Restrict
  <1> QED
    BY <1>1, <1>2, DictsElement

\* The window after one more id is a sequence of ids, none new but that one.
LEMMA RememberElements ==
    ASSUME NEW S, NEW ids \in Seq(S), NEW id \in S, NEW max \in Nat
    PROVE  LET w == Remember(ids, id, max)
           IN  w \in Seq(S) /\ Range(w) \subseteq Range(ids) \cup {id}
  <1> DEFINE s == Append(ids, id)
             w == Remember(ids, id, max)
             m == Len(s) - max + 1
  <1>1. /\ s \in Seq(S) /\ Len(s) \in Nat
        /\ Len(ids) \in Nat /\ Len(s) = Len(ids) + 1
        /\ \A i \in 1 .. Len(ids) : s[i] = ids[i]
        /\ s[Len(ids) + 1] = id
    BY AppendProperties, LenProperties
  <1>2. w = IF Len(s) > max THEN SubSeq(s, m, Len(s)) ELSE s
    BY DEF Remember
  <1> HIDE DEF s, w
  <1>3. /\ Range(s) = {s[i] : i \in 1 .. Len(s)}
        /\ Range(ids) = {ids[i] : i \in 1 .. Len(ids)}
    BY <1>1, RangeEquality
  <1>4. Range(s) \subseteq Range(ids) \cup {id}
    <2>1. ASSUME NEW i \in 1 .. Len(s) PROVE s[i] \in Range(ids) \cup {id}
      BY <1>1, <1>3
    <2> QED
      BY <1>3, <2>1
  <1>5. CASE ~(Len(s) > max)
    <2>1. w = s
      BY <1>2, <1>5
    <2>2. w \in Seq(S) /\ Range(w) \subseteq Range(ids) \cup {id}
      BY <1>1, <1>4, <2>1
    <2> QED
      BY <2>2 DEF w
  <1>6. CASE Len(s) > max
    <2>1. m \in Int /\ m >= 1 /\ Len(s) \in Int
      BY <1>1, <1>6
    <2> HIDE DEF m
    <2>2. \A i \in m .. Len(s) : s[i] \in S /\ s[i] \in Range(s)
      BY <1>1, <1>3, <2>1
    <2>3. w = SubSeq(s, m, Len(s))
      BY <1>2, <1>6 DEF m
    <2>4. w \in Seq(S) /\ w \in Seq(Range(s))
      BY <2>1, <2>2, <2>3, SubSeqProperties
    <2>5. Range(w) \in SUBSET Range(s)
      BY <2>4, RangeOfSeq
    <2> QED
      BY <1>4, <2>4, <2>5 DEF w
  <1> QED
    BY <1>5, <1>6
-----------------------------------------------------------------------------

StoredIds == {EventId(m) : m \in {n \in Messages : Normalizable(n)}}

\* The message kinds, and the fields of a message of each.
LEMMA MessageFields ==
    ASSUME NEW m \in Messages
    PROVE  /\ m.kind = "account" => m.time \in Stamps /\ m.bals \in Balances
           /\ m.kind = "order" => /\ m.time \in Stamps
                                  /\ m.oid \in OrderIds \cup {None}
                                  /\ m.view \in Views
           /\ m.kind = "terminated" => m.time \in Stamps
           /\ Normalizable(m) => m.kind \in {"account", "order", "terminated"}
  BY StoreAssumption DEF Message, AccountMsg, OrderMsg, TerminatedMsg, OtherMsg,
                         Normalizable

\* None is neither a stored snapshot nor a table of balances.
LEMMA NoneIsDistinct ==
    /\ None \notin Snapshot
    /\ None \notin Balances
    /\ None \notin OrderIds
  BY StoreAssumption

LEMMA InitialBook == <<>> \in OrderBook
  BY EmptyDict DEF OrderBook

\* _reduce_balances yields a snapshot whenever there was one.
LEMMA ReduceBalancesType ==
    ASSUME NEW bals \in Balances, snapshot \in Snapshot \cup {None}
    PROVE  /\ ReduceBalances(bals) \in Snapshot \cup {None}
           /\ snapshot # None => /\ ReduceBalances(bals) \in Snapshot
                                 /\ ReduceBalances(bals).balances
                                       = Overlay(bals, snapshot.balances)
  <1>1. CASE snapshot = None
    BY <1>1 DEF ReduceBalances, Snapshot
  <1>2. CASE snapshot # None
    <2>1. snapshot \in Snapshot /\ snapshot.balances \in Balances
      BY <1>2 DEF Snapshot
    <2>2. Overlay(bals, snapshot.balances) \in Balances
      BY <2>1, OverlayType DEF Balances
    <2>3. CASE bals = <<>>
      <3>1. Overlay(bals, snapshot.balances) = snapshot.balances
        BY <2>1, <2>3, OverlayEmpty DEF Balances
      <3> QED
        BY <2>1, <2>3, <3>1 DEF ReduceBalances
    <2>4. CASE bals # <<>>
      <3>1. ReduceBalances(bals)
              = [snapshot EXCEPT !.balances = Overlay(bals, snapshot.balances)]
        BY <1>2, <2>4 DEF ReduceBalances
      <3> QED
        BY <2>1, <2>2, <3>1 DEF Snapshot
    <2> QED
      BY <2>3, <2>4
  <1> QED
    BY <1>1, <1>2

\* _reduce_order yields a book of orders.
LEMMA ReduceOrderType ==
    ASSUME NEW m \in Messages, m.kind = "order", openOrders \in OrderBook
    PROVE  ReduceOrder(m) \in OrderBook
  <1> DEFINE known == m.oid \in DOMAIN openOrders
             entry == [view |-> m.view,
                       restFields |-> known /\ openOrders[m.oid].restFields]
  <1>1. CASE m.oid = None
    BY <1>1 DEF ReduceOrder
  <1>2. CASE m.oid # None /\ m.terminal
    BY <1>2, DropType DEF ReduceOrder, OrderBook
  <1>3. CASE m.oid # None /\ ~m.terminal
    <2>1. m.oid \in OrderIds /\ m.view \in Views
      BY <1>3, MessageFields
    <2>2. known => openOrders[m.oid] \in OpenOrder
      BY DictsDomain DEF OrderBook
    <2>3. (known /\ openOrders[m.oid].restFields) \in BOOLEAN
      BY <2>2 DEF OpenOrder
    <2>4. entry \in OpenOrder
      BY <2>1, <2>3 DEF OpenOrder
    <2>5. [o \in {m.oid} |-> entry] \in OrderBook
      BY <2>1, <2>4, DictsElement DEF OrderBook
    <2>6. ReduceOrder(m) = Overlay([o \in {m.oid} |-> entry], openOrders)
      BY <1>3 DEF ReduceOrder
    <2> QED
      BY <2>5, <2>6, OverlayType DEF OrderBook
  <1> QED
    BY <1>1, <1>2, <1>3
-----------------------------------------------------------------------------
\* A phase and a status that belong together, written by one mark_* method.
LEMMA MarkPreserves ==
    ASSUME StoreInv,
           NEW phase \in {"STALE", "UNKNOWN"},
           NEW recon \in {"STALE", "UNKNOWN", "DIVERGED"},
           Mark(phase, recon)
    PROVE  StoreInv'
  <1>1. StoreTypeOK'
    BY StoreAssumption DEF StoreInv, StoreTypeOK, Mark, BumpVersion, Lifecycles, Statuses
  <1>2. PhaseMatchesStatus'
    BY DEF StoreInv, PhaseMatchesStatus, Mark
  <1> QED
    BY <1>1, <1>2 DEF StoreInv

\* Remembering the id of an event keeps the window's type.
LEMMA RecordPreserves ==
    ASSUME StoreTypeOK, NEW m \in Messages, RecordEvent(m)
    PROVE  seen' \in Seq(StoredIds)
  <1>1. EventId(m) \in StoredIds /\ seen \in Seq(StoredIds)
    BY DEF StoredIds, RecordEvent, StoreTypeOK
  <1>2. Remember(seen, EventId(m), MaxEventIds) \in Seq(StoredIds)
    BY <1>1, StoreAssumption, RememberElements
  <1> QED
    BY <1>2 DEF RecordEvent

\* One event of the private stream, whatever its kind and the store's phase.
LEMMA EventPreserves ==
    ASSUME StoreInv, NEW m \in Messages, ApplyPrivateEvent(m)
    PROVE  StoreInv'
  <1> USE StoreAssumption
  <1>0. StoreTypeOK
    BY DEF StoreInv
  <1>1. CASE IgnoreEvent(m)
    BY <1>1 DEF IgnoreEvent, storeVars, exposed, StoreInv, StoreTypeOK, PhaseMatchesStatus
  <1>2. CASE StreamTerminated(m)
    <2>1. seen' \in Seq(StoredIds)
      BY <1>0, <1>2, RecordPreserves DEF StreamTerminated
    <2>2. StoreTypeOK'
      BY <1>0, <1>2, <2>1
         DEF StreamTerminated, StoreTypeOK, BumpVersion, Lifecycles, Statuses, StoredIds
    <2>3. PhaseMatchesStatus'
      BY <1>2 DEF StreamTerminated, PhaseMatchesStatus, StoreInv
    <2> QED
      BY <2>2, <2>3 DEF StoreInv
  <1>3. CASE EventBeforeBaseline(m)
    <2>1. seen' \in Seq(StoredIds)
      BY <1>0, <1>3, RecordPreserves DEF EventBeforeBaseline
    <2> QED
      BY <1>3, <2>1 DEF EventBeforeBaseline, exposed, StoreInv, StoreTypeOK,
                        PhaseMatchesStatus, StoredIds
  <1>4. CASE ReduceEvent(m)
    <2>1. seen' \in Seq(StoredIds)
      BY <1>0, <1>4, RecordPreserves DEF ReduceEvent
    <2>2. snapshot' \in Snapshot \cup {None} /\ (snapshot # None => snapshot' \in Snapshot)
      BY <1>0, <1>4, MessageFields, ReduceBalancesType DEF ReduceEvent, StoreTypeOK
    <2>3. openOrders' \in OrderBook
      BY <1>0, <1>4, ReduceOrderType DEF ReduceEvent, StoreTypeOK
    <2>4. lastEventAt' \in Stamps
      BY <1>0, <1>4, MessageFields DEF ReduceEvent, RecordEvent, StoreTypeOK
    <2>5. StoreTypeOK'
      BY <1>0, <1>4, <2>1, <2>2, <2>3, <2>4
         DEF ReduceEvent, StoreTypeOK, BumpVersion, Lifecycles, StoredIds
    <2>6. PhaseMatchesStatus'
      BY <1>4, <2>2, NoneIsDistinct DEF ReduceEvent, PhaseMatchesStatus, StoreInv
    <2> QED
      BY <2>5, <2>6 DEF StoreInv
  <1> QED
    BY <1>1, <1>2, <1>3, <1>4 DEF ApplyPrivateEvent

\* Events of the stream reconcile nothing.
LEMMA EventNeverReconciles ==
    ASSUME NEW m, ApplyPrivateEvent(m)
    PROVE  /\ status' = status \/ status' = "STALE"
           /\ Normalizable(m) /\ m.kind = "terminated" /\ ~IsDuplicate(m, seen) =>
                 status' = "STALE"
  BY DEF ApplyPrivateEvent, IgnoreEvent, StreamTerminated, EventBeforeBaseline, ReduceEvent,
         storeVars, exposed

\* The types, and the agreement of phase and status: the inductive invariant.
THEOREM StoreInvariant == StoreSpec => []StoreInv
<1>1. StoreInit => StoreInv
  BY StoreAssumption, InitialBook
     DEF StoreInit, StoreInv, StoreTypeOK, PhaseMatchesStatus, Lifecycles, Statuses, Stamps
<1>2. StoreInv /\ [StoreNext]_storeVars => StoreInv'
  <2> SUFFICES ASSUME StoreInv, [StoreNext]_storeVars PROVE StoreInv'
    OBVIOUS
  <2>1. ASSUME NEW s \in Snapshot, NEW os \in RestOrders, ApplyRestSnapshot(s, os)
        PROVE  StoreInv'
    BY <2>1, StoreAssumption, NoneIsDistinct
       DEF ApplyRestSnapshot, BumpVersion, NextBaseline, RestOrders, StoreInv,
           StoreTypeOK, PhaseMatchesStatus, Lifecycles, Statuses
  <2>2. CASE BeginLiveStreaming
    BY <2>2, StoreAssumption
       DEF BeginLiveStreaming, BumpVersion, StoreInv, StoreTypeOK, PhaseMatchesStatus,
           Lifecycles
  <2>3. CASE MarkStale
    BY <2>3, MarkPreserves DEF MarkStale
  <2>4. CASE MarkUnknown
    BY <2>4, MarkPreserves DEF MarkUnknown
  <2>5. CASE MarkDataConflict
    BY <2>5, MarkPreserves DEF MarkDataConflict
  <2>6. CASE RestartClear
    BY <2>6, StoreAssumption, InitialBook
       DEF RestartClear, BumpVersion, StoreInv, StoreTypeOK, PhaseMatchesStatus,
           Lifecycles, Statuses, Stamps
  <2>7. ASSUME NEW m \in Messages, ApplyPrivateEvent(m) PROVE StoreInv'
    BY <2>7, EventPreserves
  <2>8. CASE UNCHANGED storeVars
    BY <2>8 DEF storeVars, exposed, StoreInv, StoreTypeOK, PhaseMatchesStatus
  <2> QED
    BY <2>1, <2>2, <2>3, <2>4, <2>5, <2>6, <2>7, <2>8 DEF StoreNext
<1> QED
  BY <1>1, <1>2, PTL DEF StoreSpec

\* get(), balances_for_risk() and requires_rest_resync() never disagree.
THEOREM ReadersAlwaysAgree == StoreSpec => []ReadersAgree
<1>1. StoreInv => ReadersAgree
  <2> SUFFICES ASSUME StoreInv PROVE ReadersAgree
    OBVIOUS
  <2>1. snapshot # None => snapshot.balances # None
    BY NoneIsDistinct DEF StoreInv, StoreTypeOK, Snapshot
  <2> QED
    BY <2>1 DEF StoreInv, StoreTypeOK, PhaseMatchesStatus, ReadersAgree,
                IsReadyForExecution, BalancesForRisk, RequiresRestResync, Lifecycles
<1> QED
  BY <1>1, StoreInvariant, PTL

\* No method changes what the readers see without moving the version.
THEOREM VersionCovers == StoreSpec => VersionCoversState
<1>1. StoreInv /\ [StoreNext]_storeVars => [version' = version => UNCHANGED exposed]_storeVars
  <2> SUFFICES ASSUME StoreInv, StoreNext, version' = version PROVE UNCHANGED exposed
    OBVIOUS
  <2>1. version \in Nat /\ Versions \in Nat /\ Versions > 1
    BY StoreAssumption DEF StoreInv, StoreTypeOK
  <2>2. ~BumpVersion
    BY <2>1 DEF BumpVersion
  <2>3. PICK m \in Messages : IgnoreEvent(m) \/ EventBeforeBaseline(m)
    BY <2>2 DEF StoreNext, ApplyRestSnapshot, BeginLiveStreaming, MarkStale, MarkUnknown,
                MarkDataConflict, Mark, RestartClear, ApplyPrivateEvent,
                StreamTerminated, ReduceEvent
  <2> QED
    BY <2>3 DEF IgnoreEvent, EventBeforeBaseline, storeVars
<1> QED
  BY <1>1, StoreInvariant, PTL DEF StoreSpec, VersionCoversState
-----------------------------------------------------------------------------
\* The operators of the gate are those of the store.
LEMMA GateOperators ==
    /\ Gate!Balances = Balances
    /\ \A b : Gate!NextBaseline(b) = NextBaseline(b)
    /\ \A new, old : Gate!Overlay(new, old) = Overlay(new, old)
  BY DEF Gate!Balances, Balances, Gate!Dicts, Dicts, Gate!NextBaseline, NextBaseline,
         Gate!Overlay, Overlay

\* One step of the store is a step of the gate, or leaves what it shows alone.
LEMMA GateStep ==
    ASSUME StoreInv, StoreInv', [StoreNext]_storeVars
    PROVE  [Gate!Next]_(Gate!vars)
  <1> DEFINE view == BalancesForRisk
  <1>0. /\ lifecycle \notin {"RECONCILED", "LIVE_STREAMING"} => view = None
        /\ lifecycle \in {"RECONCILED", "LIVE_STREAMING"} =>
              view = snapshot.balances /\ view \in Balances /\ snapshot \in Snapshot
        /\ lifecycle' \notin {"RECONCILED", "LIVE_STREAMING"} => view' = None
        /\ lifecycle' \in {"RECONCILED", "LIVE_STREAMING"} =>
              view' = snapshot'.balances /\ view' \in Balances
    BY DEF StoreInv, StoreTypeOK, PhaseMatchesStatus, BalancesForRisk, Lifecycles, Snapshot
  <1> HIDE DEF view
  <1>1. ASSUME NEW s \in Snapshot, NEW os \in RestOrders, ApplyRestSnapshot(s, os)
        PROVE  Gate!Resync
    <2>1. view' \in Balances /\ baseline' = NextBaseline(baseline)
      BY <1>0, <1>1 DEF ApplyRestSnapshot
    <2> QED
      BY <2>1, GateOperators DEF Gate!Resync, view
  <1>2. CASE BeginLiveStreaming
    <2>1. view' = view /\ baseline' = baseline
      BY <1>0, <1>2 DEF BeginLiveStreaming
    <2> QED
      BY <2>1 DEF Gate!vars, view
  <1>3. CASE MarkStale \/ MarkUnknown \/ MarkDataConflict
    <2>1. view' = None /\ baseline' = baseline
      BY <1>0, <1>3 DEF MarkStale, MarkUnknown, MarkDataConflict, Mark
    <2> QED
      BY <2>1 DEF Gate!Next, Gate!Fault, view
  <1>4. CASE RestartClear
    <2>1. view' = None /\ baseline' = 0
      BY <1>0, <1>4 DEF RestartClear
    <2> QED
      BY <2>1 DEF Gate!Next, Gate!Restart, view
  <1>5. ASSUME NEW m \in Messages, IgnoreEvent(m) \/ EventBeforeBaseline(m)
        PROVE  UNCHANGED Gate!vars
    BY <1>5 DEF IgnoreEvent, EventBeforeBaseline, storeVars, exposed, Gate!vars,
                BalancesForRisk
  <1>6. ASSUME NEW m \in Messages, StreamTerminated(m) PROVE Gate!Fault
    <2>1. view' = None /\ baseline' = baseline
      BY <1>0, <1>6 DEF StreamTerminated
    <2> QED
      BY <2>1 DEF Gate!Fault, view
  <1>7. ASSUME NEW m \in Messages, ReduceEvent(m) PROVE Gate!StreamUpdate \/ UNCHANGED Gate!vars
    <2>1. CASE lifecycle = "STALE"
      <3>1. view' = None /\ view = None /\ baseline' = baseline
        BY <1>0, <1>7, <2>1 DEF ReduceEvent
      <3> QED
        BY <3>1 DEF Gate!vars, view
    <2>2. CASE lifecycle # "STALE" /\ m.kind # "account"
      <3>1. view' = view /\ baseline' = baseline
        BY <1>0, <1>7, <2>2 DEF ReduceEvent
      <3> QED
        BY <3>1 DEF Gate!vars, view
    <2>3. CASE lifecycle # "STALE" /\ m.kind = "account"
      <3>1. /\ lifecycle \in {"RECONCILED", "LIVE_STREAMING"}
            /\ lifecycle' \in {"RECONCILED", "LIVE_STREAMING"}
            /\ snapshot' = ReduceBalances(m.bals)
            /\ baseline' = baseline
        BY <1>7, <2>3 DEF ReduceEvent
      <3>2. m.bals \in Balances
        BY <2>3, MessageFields
      <3>3. view # None
        BY <1>0, <3>1, NoneIsDistinct
      <3>4. view' = Overlay(m.bals, view)
        BY <1>0, <3>1, <3>2, NoneIsDistinct, ReduceBalancesType
      <3> QED
        BY <3>1, <3>2, <3>3, <3>4, GateOperators DEF Gate!StreamUpdate, view
    <2> QED
      BY <2>1, <2>2, <2>3
  <1>8. CASE UNCHANGED storeVars
    BY <1>8 DEF storeVars, exposed, Gate!vars, BalancesForRisk
  <1> QED
    BY <1>1, <1>2, <1>3, <1>4, <1>5, <1>6, <1>7, <1>8
       DEF StoreNext, ApplyPrivateEvent, Gate!Next

\* What the risk layer sees: nothing until a REST snapshot, nothing after a
\* failure until the next one, and otherwise the snapshot as the stream updates it.
THEOREM StoreRefinesGate == StoreSpec => GateRefined
<1>1. StoreInit => Gate!Init
  BY DEF StoreInit, Gate!Init, BalancesForRisk
<1>2. StoreInv /\ StoreInv' /\ [StoreNext]_storeVars => [Gate!Next]_(Gate!vars)
  BY GateStep
<1> QED
  BY <1>1, <1>2, StoreInvariant, PTL DEF StoreSpec, GateRefined, Gate!Spec
=============================================================================
