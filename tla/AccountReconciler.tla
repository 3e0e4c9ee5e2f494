-------------------------- MODULE AccountReconciler --------------------------
(***************************************************************************)
(* AccountReconciler.full_resync (runtime/state/reconciler.py) at work on  *)
(* the store, between an exchange whose account keeps changing and a       *)
(* private stream that reports the changes, may be lost and comes back.    *)
(*                                                                         *)
(* full_resync reads the store, makes two REST calls and writes the store. *)
(* It holds no lock meanwhile, and nothing in the class keeps two callers, *)
(* or a caller and the thread that delivers stream events, apart:          *)
(* Serialised says whether the callers do so.                              *)
(***************************************************************************)
EXTENDS AccountStore, SequencesExt

CONSTANTS
    Zero,        \* the amount an entry without one is read as
    Resyncers,   \* the threads that may call full_resync
    Serialised,  \* TRUE: one thread runs every callback and every resync
    Unparsable,  \* the amounts float() rejects
    Watched,     \* detect_conflict_asset, or None
    MaxUpdates,  \* bound of the model: changes of the account
    MaxCalls     \* bound of the model: callbacks waiting

ASSUME ReconcilerAssumption ==
    /\ Serialised \in BOOLEAN
    /\ Unparsable \subseteq Amounts
    /\ MaxUpdates \in Nat
    /\ MaxCalls \in Nat
    /\ \A m \in Messages : Normalizable(m)
    /\ IsFiniteSet(Assets) /\ IsFiniteSet(OrderIds)
    /\ Zero # 1  \* an answer with code 1 is an error

VARIABLES
    exBalances,  \* the account's balances at the exchange
    exOrders,    \* its open orders at the exchange
    closed,      \* order ids that were closed there: never open again
    clock,       \* exchange time of the latest change
    connected,   \* the private stream is up
    calls,       \* the callbacks due to the store, oldest first
    pc,          \* where each resyncer is in full_resync
    check,       \* what its conflict check will see in the store's snapshot
    fetched,     \* the balances and orders its REST calls returned
    blocked      \* history: a failure was reported, no resync applied since

exchangeVars == <<exBalances, exOrders, closed, clock>>
linkVars == <<connected, calls>>
resyncVars == <<pc, check, fetched>>
reconcilerVars == <<storeVars, exchangeVars, linkVars, resyncVars, blocked>>

Rest == INSTANCE Parsers WITH NoneText <- None, Missing <- None

Lost == [kind |-> "lost"]  \* on_ws_disconnect
Up == [kind |-> "up"]      \* on_ws_reconnected

NotFetched == [balances |-> <<>>, orders |-> <<>>]

ReconcilerInit ==
    /\ StoreInit
    /\ exBalances \in [Assets -> Amounts]
    /\ exOrders = <<>>
    /\ closed = {}
    /\ clock = 0
    /\ connected = FALSE
    /\ calls = <<>>
    /\ pc = [r \in Resyncers |-> "idle"]
    /\ check = [r \in Resyncers |-> "skip"]
    /\ fetched = [r \in Resyncers |-> NotFetched]
    /\ blocked = FALSE
-----------------------------------------------------------------------------
(***************************************************************************)
(* The exchange and the stream (external).  Every change has a timestamp of*)
(* its own; it is reported if the stream is up.  When the stream is lost,  *)
(* so are any number of the last reports; the store is told after the      *)
(* reports that arrived.                                                   *)
(***************************************************************************)
Tick(m) ==
    /\ clock < MaxUpdates
    /\ clock' = clock + 1
    /\ m.time = clock + 1

Report(m) ==
    /\ Len(calls) < MaxCalls
    /\ calls' = IF connected THEN Append(calls, m) ELSE calls

ChangeBalances(m) ==
    /\ m.kind = "account"
    /\ Tick(m)
    /\ Report(m)
    /\ exBalances' = Overlay(m.bals, exBalances)
    /\ UNCHANGED <<storeVars, exOrders, closed, connected, resyncVars, blocked>>

ChangeOrder(m) ==
    /\ m.kind = "order"
    /\ m.oid \notin closed \cup {None}
    /\ m.terminal => m.oid \in DOMAIN exOrders
    /\ Tick(m)
    /\ Report(m)
    /\ exOrders' = IF m.terminal THEN Drop(m.oid, exOrders)
                   ELSE Overlay([o \in {m.oid} |-> [view |-> m.view, restFields |-> TRUE]],
                                exOrders)
    /\ closed' = IF m.terminal THEN closed \cup {m.oid} ELSE closed
    /\ UNCHANGED <<storeVars, exBalances, connected, resyncVars, blocked>>

\* The exchange ends the stream (listen token expired).
EndStream(m) ==
    /\ m.kind = "terminated"
    /\ connected
    /\ Tick(m)
    /\ Report(m)
    /\ connected' = FALSE
    /\ UNCHANGED <<storeVars, exBalances, exOrders, closed, resyncVars, blocked>>

LoseStream ==
    /\ connected
    /\ \E n \in 0 .. Len(calls) :
          /\ n < MaxCalls
          /\ \A i \in n + 1 .. Len(calls) : calls[i] \notin {Lost, Up}
          /\ calls' = Append(SubSeq(calls, 1, n), Lost)
    /\ connected' = FALSE
    /\ UNCHANGED <<storeVars, exchangeVars, resyncVars, blocked>>

Connect ==
    /\ ~connected
    /\ Len(calls) < MaxCalls
    /\ connected' = TRUE
    /\ calls' = Append(calls, Up)
    /\ UNCHANGED <<storeVars, exchangeVars, resyncVars, blocked>>
-----------------------------------------------------------------------------
(***************************************************************************)
(* The answers of the exchange (external): an error code, or what it holds *)
(* in one of the shapes the parsers know.                                  *)
(***************************************************************************)
ErrorAnswer == Rest!Object([code |-> Rest!Atom(1)])

Entry(idKey, id, valueKey, value) ==
    Rest!Object([key \in {idKey, valueKey} |->
                    IF key = idKey THEN Rest!Atom(id) ELSE Rest!Atom(value)])

Entries(d, idKey, valueKey) ==
    Rest!Array([i \in 1 .. Cardinality(DOMAIN d) |->
        LET k == SetToSeq(DOMAIN d)[i] IN Entry(idKey, k, valueKey, d[k])])

AccountAnswers(bals) ==
    {ErrorAnswer,
     Rest!Object([balances |-> Entries(bals, "asset", "free")]),
     Rest!Object([code |-> Rest!Blank,
                  data |-> Rest!Object([assets |-> Entries(bals, "a", "f")])])}

OrderAnswers(os) ==
    LET views == [o \in DOMAIN os |-> os[o].view]
    IN  {ErrorAnswer,
         Entries(views, "bOrderId", "X"),
         Rest!Object([data |-> Rest!Object([list |-> Rest!Null,
                                            orders |-> Entries(views, "orderId", "status")])])}

\* parse_open_orders, its list as a book.
ParsedOrders(body) ==
    LET list == Rest!ParseOpenOrders(body)
    IN  [o \in {e.id : e \in list} |->
            [view |-> (CHOOSE e \in list : e.id = o).view, restFields |-> TRUE]]

(***************************************************************************)
(* get_account_snapshot and get_open_orders: what the exchange may hold,   *)
(* with what they may return for it when the answer does not make them     *)
(* raise.                                                                  *)
(***************************************************************************)
Accepted(answers) == {body \in answers : ~Rest!SignedGetRaises(body)}

AccountReturns ==
    UNION {{<<bals, Rest!ParseAccount(Rest!SignedGet(body))>> :
               body \in Accepted(AccountAnswers(bals))} : bals \in [Assets -> Amounts]}

OrdersReturns ==
    UNION {{<<os, ParsedOrders(Rest!SignedGet(body))>> :
               body \in Accepted(OrderAnswers(os))} : os \in RestOrders}
-----------------------------------------------------------------------------
(***************************************************************************)
(* full_resync, in the steps other threads can come between.               *)
(***************************************************************************)
Resyncing(r) == pc[r] # "idle"

\* With one thread, nothing runs while a resync waits for its answers.
MayRun == Serialised => \A r \in Resyncers : ~Resyncing(r)

GoTo(r, place) == pc' = [pc EXCEPT ![r] = place]

NotNumber(bals) == Watched \in DOMAIN bals /\ bals[Watched] \in Unparsable

\* prev = store.get(), and whether the conflict check will look at it.
Begin(r) ==
    /\ ~Resyncing(r)
    /\ MayRun
    /\ GoTo(r, "account")
    /\ check' = [check EXCEPT ![r] =
          IF Watched = None \/ snapshot = None
             \/ status \notin {"RECONCILED", "STALE", "DIVERGED"} THEN "skip"
          ELSE IF NotNumber(snapshot.balances) THEN "text" ELSE "number"]
    /\ UNCHANGED <<storeVars, exchangeVars, connected, fetched, blocked>>

\* Leave full_resync: the locals are gone.
End(r) ==
    /\ GoTo(r, "idle")
    /\ check' = [check EXCEPT ![r] = "skip"]
    /\ fetched' = [fetched EXCEPT ![r] = NotFetched]

GetAccount(r) ==
    /\ pc[r] = "account"
    /\ \E a \in AccountReturns :
          /\ a[1] = exBalances
          /\ fetched' = [fetched EXCEPT ![r].balances = a[2]]
    /\ GoTo(r, "orders")
    /\ UNCHANGED <<storeVars, exchangeVars, linkVars, check, blocked>>

GetOrders(r) ==
    /\ pc[r] = "orders"
    /\ \E a \in OrdersReturns :
          /\ a[1] = exOrders
          /\ fetched' = [fetched EXCEPT ![r].orders = a[2]]
    /\ GoTo(r, "apply")
    /\ UNCHANGED <<storeVars, exchangeVars, linkVars, check, blocked>>

\* Mutant of RestFails: a failed call is retried without limit.
RestRetries(r) ==
    /\ pc[r] \in {"account", "orders"}
    /\ GoTo(r, "account")
    /\ UNCHANGED <<storeVars, exchangeVars, linkVars, check, fetched, blocked>>

\* A REST call raises: time-out, HTTP error, or an answer with an error code.
RestFails(r) ==
    /\ pc[r] \in {"account", "orders"}
    /\ GoTo(r, "error")
    /\ UNCHANGED <<storeVars, exchangeVars, linkVars, check, fetched, blocked>>

\* The conflict check decides nothing, both of its branches apply the snapshot;
\* but float() raises on an amount that is not a number.
CheckRaises(r) ==
    \/ check[r] = "text"
    \/ check[r] = "number" /\ NotNumber(fetched[r].balances)

CheckFails(r) ==
    /\ pc[r] = "apply"
    /\ CheckRaises(r)
    /\ GoTo(r, "error")
    /\ UNCHANGED <<storeVars, exchangeVars, linkVars, check, fetched, blocked>>

Apply(r) ==
    /\ pc[r] = "apply"
    /\ ~CheckRaises(r)
    /\ ApplyRestSnapshot([balances |-> fetched[r].balances, canTrade |-> TRUE],
                         fetched[r].orders)
    /\ End(r)
    /\ blocked' = FALSE
    /\ UNCHANGED <<exchangeVars, linkVars>>

\* Mutant of MarkRestError: a store that has a baseline is left as it is.
MarkRestErrorUnlessOpen(r) ==
    /\ pc[r] = "error"
    /\ IF BalancesForRisk = None THEN MarkUnknown ELSE UNCHANGED storeVars
    /\ GoTo(r, "mark")
    /\ blocked' = TRUE
    /\ UNCHANGED <<exchangeVars, linkVars, check, fetched>>

\* except: mark_rest_error, then mark_unknown, then raise.
MarkRestError(r) ==
    /\ pc[r] = "error"
    /\ MarkUnknown
    /\ GoTo(r, "mark")
    /\ blocked' = TRUE
    /\ UNCHANGED <<exchangeVars, linkVars, check, fetched>>

MarkAndRaise(r) ==
    /\ pc[r] = "mark"
    /\ MarkUnknown
    /\ End(r)
    /\ blocked' = TRUE
    /\ UNCHANGED <<exchangeVars, linkVars>>

ResyncStep(r) ==
    \/ GetAccount(r) \/ GetOrders(r) \/ RestFails(r)
    \/ CheckFails(r) \/ Apply(r)
    \/ MarkRestError(r) \/ MarkAndRaise(r)
-----------------------------------------------------------------------------
(***************************************************************************)
(* The callbacks of the stream, oldest first, and the owner of the store.  *)
(***************************************************************************)
Take(c) ==
    /\ calls # <<>>
    /\ c = Head(calls)
    /\ calls' = Tail(calls)

\* on_event -> apply_private_event
DeliverMessage(m) ==
    /\ Take(m)
    /\ MayRun
    /\ ApplyPrivateEvent(m)
    /\ blocked' = (blocked \/ (m.kind = "terminated" /\ ~IsDuplicate(m, seen)))
    /\ UNCHANGED <<exchangeVars, connected, resyncVars>>

DeliverLost ==
    /\ Take(Lost)
    /\ MayRun
    /\ MarkStale
    /\ blocked' = TRUE
    /\ UNCHANGED <<exchangeVars, connected, resyncVars>>

DeliverUp(r) ==
    /\ Take(Up)
    /\ Begin(r)

Deliver ==
    \/ \E m \in Messages : DeliverMessage(m)
    \/ DeliverLost
    \/ \E r \in Resyncers : DeliverUp(r)

\* At start, or when requires_rest_resync() says so.
RequestResync(r) ==
    /\ RequiresRestResync
    /\ Begin(r)
    /\ UNCHANGED calls

GoLive ==
    /\ MayRun
    /\ BeginLiveStreaming
    /\ UNCHANGED <<exchangeVars, linkVars, resyncVars, blocked>>

\* mark_event_gap
ReportGap ==
    /\ MayRun
    /\ MarkUnknown
    /\ blocked' = TRUE
    /\ UNCHANGED <<exchangeVars, linkVars, resyncVars>>

\* The process restarts, with the stream down and nothing in flight.
Restart ==
    /\ RestartClear
    /\ connected' = FALSE
    /\ calls' = <<>>
    /\ pc' = [r \in Resyncers |-> "idle"]
    /\ check' = [r \in Resyncers |-> "skip"]
    /\ fetched' = [r \in Resyncers |-> NotFetched]
    /\ blocked' = TRUE
    /\ UNCHANGED exchangeVars

ReconcilerNext ==
    \/ \E m \in Messages : ChangeBalances(m) \/ ChangeOrder(m) \/ EndStream(m)
    \/ LoseStream
    \/ Connect
    \/ Deliver
    \/ \E r \in Resyncers : RequestResync(r) \/ ResyncStep(r)
    \/ GoLive
    \/ ReportGap
    \/ Restart

ReconcilerSafety == ReconcilerInit /\ [][ReconcilerNext]_reconcilerVars

(***************************************************************************)
(* The HTTP client gives up after its timeout, so that every call of a     *)
(* resync returns or raises, and the thread that owns the stream goes on   *)
(* taking callbacks.  Nothing forces a resync to be requested.             *)
(***************************************************************************)
ReconcilerSpec ==
    /\ ReconcilerSafety
    /\ WF_reconcilerVars(Deliver)
    /\ \A r \in Resyncers : WF_reconcilerVars(ResyncStep(r))
-----------------------------------------------------------------------------
ReconcilerTypeOK ==
    /\ StoreTypeOK
    /\ exBalances \in [Assets -> Amounts]
    /\ exOrders \in RestOrders
    /\ closed \subseteq OrderIds \ DOMAIN exOrders
    /\ clock \in 0 .. MaxUpdates
    /\ connected \in BOOLEAN
    /\ calls \in Seq(Messages \cup {Lost, Up}) /\ Len(calls) <= MaxCalls
    /\ pc \in [Resyncers -> {"idle", "account", "orders", "apply", "error", "mark"}]
    /\ check \in [Resyncers -> {"skip", "number", "text"}]
    /\ fetched \in [Resyncers -> [balances : Balances, orders : RestOrders]]
    /\ blocked \in BOOLEAN

Open == BalancesForRisk # None

(***************************************************************************)
(* After a start, a restart, a lost or ended stream, a reported gap or a   *)
(* failed REST call the risk layer gets nothing until a resync succeeds,   *)
(* whatever events, resyncs and other failures come in between.            *)
(***************************************************************************)
BlockedUntilResync == blocked => ~Open

\* Connected, every report delivered and no resync under way.
Quiescent ==
    connected /\ calls = <<>> /\ \A r \in Resyncers : ~Resyncing(r)

(***************************************************************************)
(* "SSOT": once everything reported has been delivered, an open store holds*)
(* the account the exchange holds, balances and open orders.               *)
(***************************************************************************)
Converged ==
    Quiescent /\ Open =>
        /\ snapshot.balances = exBalances
        /\ DOMAIN openOrders = DOMAIN exOrders
        /\ \A o \in DOMAIN exOrders : openOrders[o].view = exOrders[o].view

(***************************************************************************)
(* full_resync always comes to an end, applied or raised.                  *)
(***************************************************************************)
ResyncEnds == \A r \in Resyncers : Resyncing(r) ~> ~Resyncing(r)

(***************************************************************************)
(* A lost stream is noticed: behind whatever is queued, the store is closed*)
(* when the loss is its turn.                                              *)
(***************************************************************************)
LossCloses == Lost \in Range(calls) ~> ~Open
=============================================================================
