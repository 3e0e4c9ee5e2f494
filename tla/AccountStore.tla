---------------------------- MODULE AccountStore ----------------------------
(***************************************************************************)
(* InMemoryAccountStateStore (runtime/state/store.py): the single source of*)
(* truth for balances and open orders.  Every public method runs under one *)
(* RLock, so each is one action and the SNAPSHOT_LOADING phase inside      *)
(* apply_rest_snapshot is never observed.  Clock readings, update times    *)
(* and the free-text last_reason are left out.                             *)
(***************************************************************************)
EXTENDS PrivateEvents

CONSTANTS
    Messages,     \* the messages the private stream may deliver
    MaxEventIds,  \* max_event_ids
    Versions      \* bound of the model: the version counter is kept modulo this

VARIABLES
    lifecycle,    \* _lifecycle
    status,       \* _state.reconciliation_status
    snapshot,     \* _state.snapshot
    openOrders,   \* _state.open_orders, by order id
    lastEventAt,  \* _state.last_private_event_at_ms
    source,       \* _state.source
    seen,         \* _seen_event_ids, oldest first
    version,      \* _version, modulo Versions
    baseline      \* history: 0 until a REST snapshot is applied after a (re)start,
                  \* then flipped between 1 and 2 by every further one

\* The fields AccountState exposes, with the lifecycle phase.
exposed == <<lifecycle, status, snapshot, openOrders, lastEventAt, source>>

storeVars == <<exposed, seen, version, baseline>>

Snapshot == [balances : Balances, canTrade : BOOLEAN]

\* client_order_id, order_type and symbol_type come from REST only.
OpenOrder == [view : Views, restFields : BOOLEAN]

OrderBook == Dicts(OrderIds, OpenOrder)

\* The order list of a REST response.
RestOrders == {os \in OrderBook : \A o \in DOMAIN os : os[o].restFields}

ASSUME StoreAssumption ==
    /\ Messages \subseteq Message
    /\ MaxEventIds \in Nat
    /\ Versions \in Nat /\ Versions > 1
    /\ None \notin Nat \cup OrderIds \cup Snapshot \cup Balances

Lifecycles == {"UNINITIALIZED", "RECONCILED", "LIVE_STREAMING",
               "STALE", "UNKNOWN", "SNAPSHOT_LOADING"}

Statuses == {"UNKNOWN", "IN_PROGRESS", "RECONCILED", "DIVERGED", "STALE"}

RequiresRestResync ==
    lifecycle \in {"STALE", "UNKNOWN", "UNINITIALIZED", "SNAPSHOT_LOADING"}

\* AccountState.is_ready_for_execution on a copy from get().
IsReadyForExecution == status = "RECONCILED" /\ snapshot # None

BalancesForRisk ==
    IF \/ lifecycle \in {"UNKNOWN", "UNINITIALIZED", "SNAPSHOT_LOADING", "STALE"}
       \/ status # "RECONCILED"
       \/ snapshot = None
    THEN None
    ELSE snapshot.balances

StoreInit ==
    /\ lifecycle = "UNINITIALIZED"
    /\ status = "UNKNOWN"
    /\ snapshot = None
    /\ openOrders = <<>>
    /\ lastEventAt = None
    /\ source = "uninitialized"
    /\ seen = <<>>
    /\ version = 0
    /\ baseline = 0

BumpVersion == version' = IF version + 1 = Versions THEN 0 ELSE version + 1
-----------------------------------------------------------------------------
\* Mutant of ApplyRestSnapshot: open orders are merged, not overwritten.
ApplyRestSnapshotMerging(s, os) ==
    /\ BumpVersion
    /\ lifecycle' = "RECONCILED"
    /\ status' = "RECONCILED"
    /\ snapshot' = s
    /\ openOrders' = Overlay(os, openOrders)
    /\ source' = "rest_snapshot"
    /\ baseline' = NextBaseline(baseline)
    /\ UNCHANGED <<lastEventAt, seen>>

\* apply_rest_snapshot: authoritative overwrite, whatever came before.
ApplyRestSnapshot(s, os) ==
    /\ BumpVersion
    /\ lifecycle' = "RECONCILED"
    /\ status' = "RECONCILED"
    /\ snapshot' = s
    /\ openOrders' = os
    /\ source' = "rest_snapshot"
    /\ baseline' = NextBaseline(baseline)
    /\ UNCHANGED <<lastEventAt, seen>>

\* Mutant of BeginLiveStreaming: the version is not moved.
BeginLiveStreamingQuietly ==
    /\ lifecycle = "RECONCILED"
    /\ lifecycle' = "LIVE_STREAMING"
    /\ UNCHANGED <<status, snapshot, openOrders, lastEventAt, source, seen, version, baseline>>

\* begin_live_streaming: no effect in any other phase.
BeginLiveStreaming ==
    /\ lifecycle = "RECONCILED"
    /\ BumpVersion
    /\ lifecycle' = "LIVE_STREAMING"
    /\ UNCHANGED <<status, snapshot, openOrders, lastEventAt, source, seen, baseline>>

\* The common body of the mark_* methods: the data stay as they are.
Mark(phase, recon) ==
    /\ BumpVersion
    /\ lifecycle' = phase
    /\ status' = recon
    /\ UNCHANGED <<snapshot, openOrders, lastEventAt, source, seen, baseline>>

\* Mutant of MarkStale: only a streaming store is marked.
MarkStaleIfStreaming ==
    IF lifecycle = "LIVE_STREAMING" THEN Mark("STALE", "STALE") ELSE UNCHANGED storeVars

\* mark_stale, mark_ws_disconnect.
MarkStale == Mark("STALE", "STALE")

\* Mutant of MarkUnknown: the reason is written where the status belongs.
MarkUnknownReason == Mark("UNKNOWN", "rest_error")

\* mark_unknown, mark_event_gap, mark_rest_error.
MarkUnknown == Mark("UNKNOWN", "UNKNOWN")

MarkDataConflict == Mark("UNKNOWN", "DIVERGED")

\* Mutant of RestartClear: the reconciliation status survives.
RestartClearKeepingStatus ==
    /\ BumpVersion
    /\ lifecycle' = "UNINITIALIZED"
    /\ snapshot' = None
    /\ openOrders' = <<>>
    /\ lastEventAt' = None
    /\ source' = "uninitialized"
    /\ seen' = <<>>
    /\ baseline' = 0
    /\ UNCHANGED status

RestartClear ==
    /\ BumpVersion
    /\ lifecycle' = "UNINITIALIZED"
    /\ status' = "UNKNOWN"
    /\ snapshot' = None
    /\ openOrders' = <<>>
    /\ lastEventAt' = None
    /\ source' = "uninitialized"
    /\ seen' = <<>>
    /\ baseline' = 0
-----------------------------------------------------------------------------
(***************************************************************************)
(* apply_private_event.  A message that cannot be normalized raises to the *)
(* caller before anything is written; a duplicate returns at once.  Any    *)
(* other event is remembered first, even when its effect is then ignored.  *)
(***************************************************************************)
IgnoreEvent(m) ==
    /\ Normalizable(m) => IsDuplicate(m, seen)
    /\ UNCHANGED storeVars

RecordEvent(m) ==
    /\ Normalizable(m)
    /\ ~IsDuplicate(m, seen)
    /\ seen' = Remember(seen, EventId(m), MaxEventIds)

\* Mutant of StreamTerminated: the phase is left as it was.
StreamTerminatedKeepingPhase(m) ==
    /\ RecordEvent(m)
    /\ m.kind = "terminated"
    /\ status' = "STALE"
    /\ BumpVersion
    /\ UNCHANGED <<lifecycle, snapshot, openOrders, lastEventAt, source, baseline>>

StreamTerminated(m) ==
    /\ RecordEvent(m)
    /\ m.kind = "terminated"
    /\ lifecycle' = "STALE"
    /\ status' = "STALE"
    /\ BumpVersion
    /\ UNCHANGED <<snapshot, openOrders, lastEventAt, source, baseline>>

\* event_ignored_until_rest_baseline
EventBeforeBaseline(m) ==
    /\ RecordEvent(m)
    /\ m.kind # "terminated"
    /\ lifecycle \in {"UNINITIALIZED", "SNAPSHOT_LOADING", "UNKNOWN"}
    /\ UNCHANGED <<exposed, version, baseline>>

\* _reduce_balances: with no snapshot yet, one is built from the event alone.
ReduceBalances(bals) ==
    IF bals = <<>> THEN snapshot
    ELSE IF snapshot = None THEN [balances |-> bals, canTrade |-> TRUE]
    ELSE [snapshot EXCEPT !.balances = Overlay(bals, @)]

\* _reduce_order: the REST-only fields of an order already in the book stay.
\* A report carries its symbol, side and status, so that the fallbacks to the
\* known order for a report without them do not arise.
ReduceOrder(m) ==
    LET known == m.oid \in DOMAIN openOrders
        entry == [view |-> m.view,
                  restFields |-> known /\ openOrders[m.oid].restFields]
    IN  IF m.oid = None THEN openOrders
        ELSE IF m.terminal THEN Drop(m.oid, openOrders)
        ELSE Overlay([o \in {m.oid} |-> entry], openOrders)

\* Mutant of ReduceEvent: an event is taken for the proof that the stream is back.
ReduceEventReopening(m) ==
    /\ RecordEvent(m)
    /\ m.kind # "terminated"
    /\ lifecycle \in {"RECONCILED", "LIVE_STREAMING", "STALE"}
    /\ lastEventAt' = IF m.time = None THEN lastEventAt ELSE m.time
    /\ snapshot' = IF m.kind = "account" THEN ReduceBalances(m.bals) ELSE snapshot
    /\ openOrders' = IF m.kind = "order" THEN ReduceOrder(m) ELSE openOrders
    /\ lifecycle' = "LIVE_STREAMING"
    /\ status' = "RECONCILED"
    /\ source' = "private_stream"
    /\ BumpVersion
    /\ UNCHANGED baseline

ReduceEvent(m) ==
    /\ RecordEvent(m)
    /\ m.kind # "terminated"
    /\ lifecycle \in {"RECONCILED", "LIVE_STREAMING", "STALE"}
    /\ lastEventAt' = IF m.time = None THEN lastEventAt ELSE m.time
    /\ snapshot' = IF m.kind = "account" THEN ReduceBalances(m.bals) ELSE snapshot
    /\ openOrders' = IF m.kind = "order" THEN ReduceOrder(m) ELSE openOrders
    /\ lifecycle' = IF lifecycle = "RECONCILED" THEN "LIVE_STREAMING" ELSE lifecycle
    /\ source' = "private_stream"
    /\ BumpVersion
    /\ UNCHANGED <<status, baseline>>

ApplyPrivateEvent(m) ==
    \/ IgnoreEvent(m)
    \/ StreamTerminated(m)
    \/ EventBeforeBaseline(m)
    \/ ReduceEvent(m)
-----------------------------------------------------------------------------
StoreNext ==
    \/ \E s \in Snapshot, os \in RestOrders : ApplyRestSnapshot(s, os)
    \/ BeginLiveStreaming
    \/ MarkStale
    \/ MarkUnknown
    \/ MarkDataConflict
    \/ RestartClear
    \/ \E m \in Messages : ApplyPrivateEvent(m)

StoreSpec == StoreInit /\ [][StoreNext]_storeVars
-----------------------------------------------------------------------------
StoreTypeOK ==
    /\ lifecycle \in Lifecycles
    /\ status \in Statuses
    /\ snapshot \in Snapshot \cup {None}
    /\ openOrders \in OrderBook
    /\ lastEventAt \in Stamps
    /\ source \in {"uninitialized", "rest_snapshot", "private_stream"}
    /\ seen \in Seq({EventId(m) : m \in {n \in Messages : Normalizable(n)}})
    /\ version \in 0 .. Versions - 1
    /\ baseline \in 0 .. 2

(***************************************************************************)
(* The three readers never disagree: the copy handed out by get() is ready *)
(* exactly when the risk layer is given balances, and that is exactly when *)
(* the store does not ask for a REST resync.  lifecycle and status are     *)
(* written by nine methods; a reader blocked in a phase that asks for no   *)
(* resync would be blocked for good (store.py:77-92, 157-159,              *)
(* account_state.py:38-43).                                                *)
(***************************************************************************)
ReadersAgree ==
    /\ IsReadyForExecution <=> BalancesForRisk # None
    /\ IsReadyForExecution <=> ~RequiresRestResync

(***************************************************************************)
(* The strengthening that makes ReadersAgree inductive: phase and status   *)
(* move together, and a phase that is open has a snapshot.                 *)
(***************************************************************************)
PhaseMatchesStatus ==
    /\ lifecycle # "SNAPSHOT_LOADING"
    /\ lifecycle \in {"RECONCILED", "LIVE_STREAMING"} <=> status = "RECONCILED"
    /\ status = "RECONCILED" => snapshot # None

StoreInv == StoreTypeOK /\ PhaseMatchesStatus

(***************************************************************************)
(* version() is enough to detect a change: no step alters what get() or    *)
(* lifecycle() return and leaves the version where it was.                 *)
(***************************************************************************)
VersionCoversState ==
    [][version' = version => UNCHANGED exposed]_storeVars

(***************************************************************************)
(* What the risk layer sees refines FailClosedGate: it opens only on a     *)
(* REST snapshot, and nothing that reached the snapshot while the gate was *)
(* closed is ever shown.                                                   *)
(***************************************************************************)
Gate == INSTANCE FailClosedGate WITH view <- BalancesForRisk

GateRefined == Gate!Spec
=============================================================================
