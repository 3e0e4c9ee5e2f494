----------------------------- MODULE LiveAccount -----------------------------
(***************************************************************************)
(* The private stream feeding the account store: on_event is the store's   *)
(* apply_private_event (behind a filter or not), run by the receiving      *)
(* threads, while an owner subscribes, resyncs, watches stream_state and   *)
(* starts again when the stream is lost.                                   *)
(*                                                                         *)
(* The repository has the parts and no owner; the owner here makes the     *)
(* calls the parts ask for: on_ws_disconnect when the state is no longer   *)
(* SUBSCRIBED or it gives the stream up, unsubscribe before it subscribes  *)
(* anew, and a resync, either after that, as the name of on_ws_reconnected *)
(* has it, or before, as docs/CONTRACT_LOCK_P0.md:85-88 has it             *)
(* (ResyncFirst).                                                          *)
(***************************************************************************)
EXTENDS AccountStore

CONSTANTS
    Initial,           \* the balances at the exchange when the model starts
    MaxChanges,        \* bound of the model: changes of the balances
    MaxSubscriptions,  \* bound of the model: sockets opened
    ResyncFirst,       \* TRUE: the owner resyncs before it subscribes, else after
    Filtered           \* TRUE: on_event hands only account events to the store

ASSUME LiveAssumption ==
    /\ Initial \in Balances
    /\ MaxChanges \in Nat
    /\ MaxSubscriptions \in Nat
    /\ Filtered \in BOOLEAN
    /\ ResyncFirst \in BOOLEAN
    /\ \A m \in Messages : m.kind = "account"

VARIABLES
    state, token, ws, stop, owner, using, issued, expired, opened, up,
    server, keyed, pc, sock, msg,   \* of the stream
    stage,    \* what the owner does next
    log,      \* the changes at the exchange so far
    next,     \* the change each socket reports next
    held,     \* the event in the hands of each receiving thread
    fetched,  \* the balances the REST call returned
    basis     \* history: how many sockets had been opened at the last resync, None
              \* once the store was marked

\* What the store makes of an answer of the server; see Normalizable.
Stream == INSTANCE PrivateUserStream
    WITH MaxTokens <- 1, CarefulCaller <- TRUE, OtherCallers <- FALSE, ForceStates <- {},
         RaisingKinds <- {k \in {"ack", "refusal"} :
                             ~Filtered /\ ~Normalizable([kind |-> "other"])}

streamVars == <<state, token, ws, stop, owner, using, issued, expired, opened, up,
                server, keyed, pc, sock, msg>>
reportVars == <<next, held>>
ownerVars == <<stage, fetched, basis>>
liveVars == <<storeVars, streamVars, log, reportVars, ownerVars>>

LiveInit ==
    /\ StoreInit
    /\ Stream!Init
    /\ stage = "token"
    /\ log = <<>>
    /\ next = [c \in Stream!Sockets |-> 0]
    /\ held = [c \in Stream!Sockets |-> None]
    /\ fetched = <<>>
    /\ basis = None

Account == IF log = <<>> THEN Initial ELSE log[Len(log)].bals
-----------------------------------------------------------------------------
\* The exchange: a socket is told of the changes after its acceptance.
ChangeBalances(m) ==
    /\ Len(log) < MaxChanges
    /\ m.time = Len(log) + 1
    /\ log' = Append(log, m)
    /\ UNCHANGED <<storeVars, streamVars, reportVars, ownerVars>>

Answer(c) ==
    /\ Stream!Answer(c)
    /\ next' = [next EXCEPT ![c] = Len(log) + 1]
    /\ UNCHANGED <<storeVars, log, held, ownerVars>>

PeerCloses(c) ==
    /\ Stream!PeerCloses(c)
    /\ UNCHANGED <<storeVars, log, reportVars, ownerVars>>

Expire ==
    /\ Stream!Expire(1)
    /\ UNCHANGED <<storeVars, log, reportVars, ownerVars>>
-----------------------------------------------------------------------------
(***************************************************************************)
(* The receiving threads.  A thread takes the next event of the socket it  *)
(* reads, which need not be its own.                                       *)
(***************************************************************************)
Receive(c) ==
    /\ Stream!Receive(c)
    /\ IF msg'[c] = "event"
       THEN LET s == sock[c]
            IN  /\ next[s] \in DOMAIN log
                /\ held' = [held EXCEPT ![c] = log[next[s]]]
                /\ next' = [next EXCEPT ![s] = @ + 1]
       ELSE UNCHANGED reportVars
    /\ UNCHANGED <<storeVars, log, ownerVars>>

CallOnEvent(c) ==
    /\ Stream!CallOnEvent(c)
    /\ IF msg[c] = "event"
       THEN ApplyPrivateEvent(held[c])
       ELSE UNCHANGED storeVars
    /\ held' = [held EXCEPT ![c] = None]
    /\ UNCHANGED <<log, next, ownerVars>>

\* The rest of the loop; a stream that ends does so without a word to the store.
Loop(c) ==
    /\ \/ Stream!CheckStop(c) \/ Stream!TestSocket(c) \/ Stream!CallRecv(c)
       \/ Stream!RecvRaises(c) \/ Stream!HandleTerminated(c)
       \/ Stream!HandleError(c) \/ Stream!ReportLoss(c)
    /\ UNCHANGED <<storeVars, log, reportVars, ownerVars>>

Thread(c) == Receive(c) \/ CallOnEvent(c) \/ Loop(c)
-----------------------------------------------------------------------------
\* How the owner begins to connect, first and again.
FirstStage == IF ResyncFirst THEN "fetch" ELSE "subscribe"

CreateListenToken ==
    /\ stage = "token"
    /\ \/ Stream!RequestToken /\ UNCHANGED stage
       \/ Stream!TokenRefused /\ UNCHANGED stage
       \/ Stream!TokenIssued /\ stage' = FirstStage
    /\ UNCHANGED <<storeVars, log, reportVars, fetched, basis>>

Subscribe ==
    /\ stage = "subscribe"
    /\ \/ Stream!BeginSubscribe(1) /\ UNCHANGED stage
       \/ Stream!OpenSocket /\ UNCHANGED stage
       \/ Stream!SendRequest /\ UNCHANGED stage
       \/ Stream!DeclareSubscribed /\ UNCHANGED stage
       \/ Stream!StartThread /\ stage' = IF ResyncFirst THEN "watch" ELSE "fetch"
       \/ Stream!SubscribeFails /\ stage' = "undo"
    /\ UNCHANGED <<storeVars, log, reportVars, fetched, basis>>

\* The resync (on_ws_reconnected): the account is read, ...
FetchAccount ==
    /\ stage = "fetch"
    /\ fetched' = Account
    /\ stage' = "apply"
    /\ UNCHANGED <<storeVars, streamVars, log, reportVars, basis>>

\* ... or cannot be read, which marks the store (twice, to one effect but for the
\* version), and the owner tries again, ...
FetchFails ==
    /\ stage = "fetch"
    /\ MarkUnknown
    /\ basis' = None
    /\ UNCHANGED <<streamVars, log, reportVars, stage, fetched>>

\* ... and written.
ApplyAccount ==
    /\ stage = "apply"
    /\ ApplyRestSnapshot([balances |-> fetched, canTrade |-> TRUE], <<>>)
    /\ fetched' = <<>>
    /\ basis' = opened
    /\ stage' = IF ResyncFirst THEN "subscribe" ELSE "watch"
    /\ UNCHANGED <<streamVars, log, reportVars>>

NoticeLoss ==
    /\ stage = "watch"
    /\ state # "SUBSCRIBED"
    /\ stage' = "disconnect"
    /\ UNCHANGED <<storeVars, streamVars, log, reportVars, fetched, basis>>

\* Or it subscribes anew of its own accord, as before the token expires.
GiveUp ==
    /\ stage = "watch"
    /\ opened < MaxSubscriptions
    /\ stage' = "disconnect"
    /\ UNCHANGED <<storeVars, streamVars, log, reportVars, fetched, basis>>

OnWsDisconnect ==
    /\ stage = "disconnect"
    /\ MarkStale
    /\ basis' = None
    /\ stage' = "undo"
    /\ UNCHANGED <<streamVars, log, reportVars, fetched>>

Unsubscribe ==
    /\ stage = "undo"
    /\ Stream!Unsubscribe
    /\ stage' = FirstStage
    /\ UNCHANGED <<storeVars, log, reportVars, fetched, basis>>

Owner ==
    \/ CreateListenToken \/ Subscribe \/ FetchAccount \/ FetchFails \/ ApplyAccount
    \/ NoticeLoss \/ OnWsDisconnect \/ Unsubscribe

LiveNext ==
    \/ \E m \in Messages : ChangeBalances(m)
    \/ \E c \in Stream!Sockets : Answer(c) \/ PeerCloses(c) \/ Thread(c)
    \/ Expire
    \/ Owner
    \/ GiveUp

LiveSafety == LiveInit /\ [][LiveNext]_liveVars

(***************************************************************************)
(* The threads run (recv has a timeout), and the owner makes its calls,    *)
(* which return or raise (HTTP and the handshake have timeouts).  Nothing  *)
(* makes it give up a stream that is subscribed.                           *)
(***************************************************************************)
LiveSpec ==
    /\ LiveSafety
    /\ WF_liveVars(Owner)
    /\ \A c \in Stream!Sockets : WF_liveVars(Thread(c))
-----------------------------------------------------------------------------
Open == BalancesForRisk # None

(***************************************************************************)
(* "Reconnect alone does not reopen the execution gate"                    *)
(* (docs/CONTRACT_LOCK_P0.md:82): an open store was resynced since it was  *)
(* last marked, whatever events threads of an earlier socket bring late;   *)
(* and where the stream is ready too, the resync was made on the present   *)
(* socket, or right before it was opened where the owner resyncs first.    *)
(***************************************************************************)
OpenOnCurrent ==
    Open => /\ basis # None
            /\ Stream!IsReadyForExecution =>
                   opened = IF ResyncFirst THEN basis + 1 ELSE basis

(***************************************************************************)
(* "PRIVATE STREAM LOST -> BLOCK" (docs/CONTRACT_LOCK_P0.md:75), through   *)
(* both components: an open store whose stream, once subscribed, no longer *)
(* is served is closed, by way of the time-out of recv, the state the loop *)
(* writes and the owner that reads it.                                     *)
(***************************************************************************)
LossBlocks ==
    Open /\ stage \in {"watch", "disconnect"} /\ ~Stream!Served(ws)
        ~> ~Open \/ Stream!Served(ws)

(***************************************************************************)
(* "Normalize private user-stream payloads into typed internal events"     *)
(* (events.py:1), UNKNOWN ones among them: no payload handed to the store  *)
(* ends the stream.                                                        *)
(***************************************************************************)
PayloadsHarmless ==
    [][\A c \in Stream!Sockets :
          CallOnEvent(c) => pc'[c] = "check"]_liveVars
=============================================================================
