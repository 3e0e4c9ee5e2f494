-------------------------- MODULE LiveAccount_proofs --------------------------
(***************************************************************************)
(* The stream and the store together, for every number of subscriptions and*)
(* changes, filtered or not: the composition uses the store as the store's *)
(* own specification allows, and the store is opened by a resync of the present*)
(* connection only, whether the owner resyncs before or after it.          *)
(***************************************************************************)
EXTENDS LiveAccount, AccountStore_proofs

(***************************************************************************)
(* What keeps OpenOnCurrent, in either order of the owner's calls.  No     *)
(* event of the stream, late or not, writes RECONCILED.  An owner who      *)
(* resyncs last leaves the socket alone between the end of the resync and  *)
(* the handling of the loss.  An owner who resyncs first opens one socket  *)
(* after it, and resyncs again before it opens another.                    *)
(***************************************************************************)
OpenInv ==
    /\ opened \in Nat
    /\ status = "RECONCILED" =>
          /\ basis \in Nat
          /\ IF ~ResyncFirst THEN stage \in {"watch", "disconnect"} /\ opened = basis
             ELSE IF stage = "subscribe" /\ owner \in {"idle", "connect"} THEN opened = basis
             ELSE /\ opened \in {basis, basis + 1}
                  /\ stage \in {"subscribe", "watch", "disconnect"} => opened = basis + 1
                  /\ stage = "undo" => state # "SUBSCRIBED"

\* An owner who resyncs first has no call of the stream under way meanwhile, and the
\* stream is subscribed only from the subscription to its undoing.
OwnerInv ==
    ResyncFirst =>
        /\ stage \notin {"token", "subscribe"} => owner = "idle"
        /\ state = "SUBSCRIBED" => \/ stage \in {"watch", "disconnect", "undo"}
                                   \/ stage = "subscribe" /\ owner = "start"

\* The receiving threads, the exchange and the network open no socket, and make no
\* call of the owner's.
LEMMA SocketsAreTheOwners ==
    ASSUME NEW c,
           \/ Stream!Answer(c) \/ Stream!PeerCloses(c) \/ Stream!Expire(c)
           \/ Stream!Receive(c) \/ Stream!CallOnEvent(c)
           \/ Stream!CheckStop(c) \/ Stream!TestSocket(c) \/ Stream!CallRecv(c)
           \/ Stream!RecvRaises(c) \/ Stream!HandleTerminated(c)
           \/ Stream!HandleError(c) \/ Stream!ReportLoss(c)
    PROVE  UNCHANGED <<opened, owner>> /\ (state' = "SUBSCRIBED" => state = "SUBSCRIBED")
  BY DEF Stream!Answer, Stream!PeerCloses, Stream!Expire, Stream!Receive, Stream!CallOnEvent,
         Stream!CheckStop, Stream!TestSocket, Stream!CallRecv, Stream!RecvRaises,
         Stream!HandleTerminated, Stream!HandleError, Stream!ReportLoss,
         Stream!callerVars, Stream!ownerVars, Stream!netVars

LEMMA StepKeepsOwnerInv ==
    ASSUME OwnerInv, [LiveNext]_liveVars
    PROVE  OwnerInv'
<1>1. ASSUME \/ \E m \in Messages : ChangeBalances(m)
             \/ \E c \in Stream!Sockets : Answer(c) \/ PeerCloses(c) \/ Thread(c)
             \/ Expire \/ UNCHANGED liveVars
      PROVE  OwnerInv'
  <2>1. UNCHANGED <<stage, owner>> /\ (state' = "SUBSCRIBED" => state = "SUBSCRIBED")
    BY <1>1, SocketsAreTheOwners
       DEF ChangeBalances, Answer, PeerCloses, Thread, Receive, CallOnEvent, Loop, Expire,
           liveVars, streamVars, ownerVars
  <2> QED
    BY <2>1 DEF OwnerInv
<1>2. CASE CreateListenToken
  <2>1. stage = "token" /\ stage' \in {"token", FirstStage}
    BY <1>2 DEF CreateListenToken
  <2>2. /\ state' = "SUBSCRIBED" => state = "SUBSCRIBED"
        /\ stage' # "token" => owner' = "idle"
    BY <1>2 DEF CreateListenToken, Stream!RequestToken, Stream!TokenIssued, Stream!TokenRefused
  <2> QED
    BY <2>1, <2>2 DEF OwnerInv
<1>3. CASE Subscribe
  <2>1. stage = "subscribe"
    BY <1>3 DEF Subscribe
  <2>2. CASE Stream!BeginSubscribe(1) /\ stage' = stage
    <3>1. owner = "idle" /\ state' = state
      BY <2>2 DEF Stream!BeginSubscribe
    <3> QED
      BY <2>1, <2>2, <3>1 DEF OwnerInv
  <2>3. CASE Stream!OpenSocket /\ stage' = stage
    <3>1. owner = "connect" /\ state' = state
      BY <2>3 DEF Stream!OpenSocket
    <3> QED
      BY <2>1, <2>3, <3>1 DEF OwnerInv
  <2>4. CASE Stream!SendRequest /\ stage' = stage
    <3>1. owner = "send" /\ state' = state
      BY <2>4 DEF Stream!SendRequest, Stream!callerVars
    <3> QED
      BY <2>1, <2>4, <3>1 DEF OwnerInv
  <2>5. CASE Stream!DeclareSubscribed /\ stage' = stage
    <3>1. owner' = "start"
      BY <2>5 DEF Stream!DeclareSubscribed
    <3> QED
      BY <2>1, <2>5, <3>1 DEF OwnerInv
  <2>6. CASE Stream!StartThread /\ stage' = IF ResyncFirst THEN "watch" ELSE "fetch"
    <3>1. owner' = "idle"
      BY <2>6 DEF Stream!StartThread
    <3>2. ResyncFirst => stage' = "watch"
      BY <2>6
    <3> QED
      BY <3>1, <3>2 DEF OwnerInv
  <2>7. CASE Stream!SubscribeFails /\ stage' = "undo"
    <3>1. owner' = "idle"
      BY <2>7 DEF Stream!SubscribeFails
    <3>2. stage' = "undo"
      BY <2>7
    <3> QED
      BY <3>1, <3>2 DEF OwnerInv
  <2> QED
    BY <1>3, <2>2, <2>3, <2>4, <2>5, <2>6, <2>7 DEF Subscribe
<1>4. CASE FetchAccount \/ FetchFails
  <2>1. stage = "fetch" /\ stage' \in {"fetch", "apply"} /\ UNCHANGED <<owner, state>>
    BY <1>4 DEF FetchAccount, FetchFails, streamVars
  <2> QED
    BY <2>1 DEF OwnerInv
<1>5. CASE ApplyAccount
  BY <1>5 DEF OwnerInv, ApplyAccount, streamVars
<1>6. CASE NoticeLoss \/ GiveUp \/ OnWsDisconnect
  <2>1. /\ stage \in {"watch", "disconnect"} /\ stage' \in {"disconnect", "undo"}
        /\ UNCHANGED <<owner, state>>
    BY <1>6 DEF NoticeLoss, GiveUp, OnWsDisconnect, streamVars
  <2> QED
    BY <2>1 DEF OwnerInv
<1>7. CASE Unsubscribe
  BY <1>7 DEF OwnerInv, Unsubscribe, Stream!Unsubscribe, Stream!ownerVars
<1> QED
  BY <1>1, <1>2, <1>3, <1>4, <1>5, <1>6, <1>7 DEF LiveNext, Owner

LEMMA StepKeepsOpenInv ==
    ASSUME OpenInv, OwnerInv, [LiveNext]_liveVars
    PROVE  OpenInv'
<1>1. ASSUME NEW m \in Messages, ChangeBalances(m)
      PROVE  OpenInv'
  BY <1>1 DEF OpenInv, ChangeBalances, storeVars, exposed, streamVars, ownerVars
<1>2. ASSUME NEW c \in Stream!Sockets, Answer(c) \/ PeerCloses(c) \/ Receive(c) \/ Loop(c)
      PROVE  OpenInv'
  <2>1. UNCHANGED <<storeVars, ownerVars>>
    BY <1>2 DEF Answer, PeerCloses, Receive, Loop, ownerVars
  <2>2. UNCHANGED <<opened, owner>> /\ (state' = "SUBSCRIBED" => state = "SUBSCRIBED")
    BY <1>2, SocketsAreTheOwners DEF Answer, PeerCloses, Receive, Loop
  <2> QED
    BY <2>1, <2>2 DEF OpenInv, storeVars, exposed, ownerVars
<1>3. ASSUME NEW c \in Stream!Sockets, CallOnEvent(c)
      PROVE  OpenInv'
  <2>1. /\ UNCHANGED <<opened, owner, ownerVars>>
        /\ state' = "SUBSCRIBED" => state = "SUBSCRIBED"
    BY <1>3, SocketsAreTheOwners DEF CallOnEvent
  <2>2. status' \in {status, "STALE"}
    BY <1>3, EventNeverReconciles DEF CallOnEvent, storeVars, exposed
  <2> QED
    BY <2>1, <2>2 DEF OpenInv, ownerVars
<1>4. CASE Expire
  BY <1>4, SocketsAreTheOwners DEF OpenInv, Expire, storeVars, exposed, ownerVars
<1>5. CASE CreateListenToken \/ Unsubscribe
  <2>1. /\ UNCHANGED <<opened, status, basis>>
        /\ stage \notin {"subscribe", "watch", "disconnect"}
    BY <1>5 DEF CreateListenToken, Unsubscribe, storeVars, exposed, Stream!RequestToken,
                Stream!TokenIssued, Stream!TokenRefused, Stream!Unsubscribe, Stream!netVars
  <2>2. ~ResyncFirst \/ stage' \in {"token", "fetch"}
    BY <1>5, LiveAssumption DEF CreateListenToken, Unsubscribe, FirstStage
  <2> QED
    BY <2>1, <2>2 DEF OpenInv
<1>6. CASE Subscribe
  <2>1. UNCHANGED <<status, basis>> /\ stage = "subscribe"
    BY <1>6 DEF Subscribe, storeVars, exposed
  <2>2. CASE Stream!OpenSocket /\ stage' = stage
    <3>1. owner = "connect" /\ owner' = "send" /\ opened' = opened + 1
      BY <2>2 DEF Stream!OpenSocket
    <3> QED
      BY <2>1, <2>2, <3>1 DEF OpenInv
  <2>3. CASE Stream!BeginSubscribe(1) /\ stage' = stage
    <3>1. owner = "idle" /\ owner' = "connect" /\ opened' = opened
      BY <2>3 DEF Stream!BeginSubscribe, Stream!netVars
    <3> QED
      BY <2>1, <2>3, <3>1 DEF OpenInv
  <2>4. CASE Stream!SubscribeFails /\ stage' = "undo"
    <3>1. opened' = opened /\ state' = "DISCONNECTED"
      BY <2>4 DEF Stream!SubscribeFails, Stream!netVars
    <3> QED
      BY <2>1, <2>4, <3>1 DEF OpenInv
  <2>5. CASE Stream!SendRequest \/ Stream!DeclareSubscribed
    <3>1. owner' \notin {"idle", "connect"} /\ opened' = opened
      BY <2>5 DEF Stream!SendRequest, Stream!DeclareSubscribed, Stream!netVars
    <3>2. owner \notin {"idle", "connect"} /\ stage' = stage
      BY <1>6, <2>5 DEF Subscribe, Stream!SendRequest, Stream!DeclareSubscribed,
                        Stream!BeginSubscribe, Stream!OpenSocket, Stream!StartThread,
                        Stream!SubscribeFails
    <3> QED
      BY <2>1, <3>1, <3>2 DEF OpenInv
  <2>6. CASE Stream!StartThread /\ stage' = IF ResyncFirst THEN "watch" ELSE "fetch"
    <3>1. opened' = opened /\ owner = "start"
      BY <2>6 DEF Stream!StartThread, Stream!netVars
    <3> QED
      BY <2>1, <2>6, <3>1 DEF OpenInv
  <2> QED
    BY <1>6, <2>2, <2>3, <2>4, <2>5, <2>6 DEF Subscribe
<1>7. CASE FetchAccount \/ FetchFails
  <2>1. /\ stage = "fetch" /\ stage' \in {"fetch", "apply"} /\ opened' = opened
        /\ status' = "UNKNOWN" \/ UNCHANGED <<status, basis>>
    BY <1>7 DEF FetchAccount, FetchFails, MarkUnknown, Mark, storeVars, exposed, streamVars,
                ownerVars
  <2> QED
    BY <2>1 DEF OpenInv
<1>8. CASE ApplyAccount
  BY <1>8 DEF OpenInv, OwnerInv, ApplyAccount, streamVars
<1>9. CASE NoticeLoss \/ GiveUp
  BY <1>9 DEF OpenInv, NoticeLoss, GiveUp, storeVars, exposed, streamVars
<1>10. CASE OnWsDisconnect
  BY <1>10 DEF OpenInv, OnWsDisconnect, MarkStale, Mark, streamVars
<1>11. CASE UNCHANGED liveVars
  BY <1>11 DEF OpenInv, liveVars, storeVars, exposed, streamVars, ownerVars
<1> QED
  BY <1>1, <1>2, <1>3, <1>4, <1>5, <1>6, <1>7, <1>8, <1>9, <1>10, <1>11
     DEF LiveNext, Thread, Owner

(***************************************************************************)
(* An open store was resynced since it was last marked; with the stream    *)
(* ready as well, on the present socket or, where the owner resyncs first, *)
(* right before it was opened.  A reconnect alone opens nothing            *)
(* (docs/CONTRACT_LOCK_P0.md:82), nor does anything that threads of earlier*)
(* subscriptions still bring.                                              *)
(***************************************************************************)
THEOREM OpensOnCurrent == LiveSafety => []OpenOnCurrent
<1>1. LiveInit => OpenInv /\ OwnerInv
  BY DEF LiveInit, StoreInit, Stream!Init, OpenInv, OwnerInv
<1>2. OpenInv /\ OwnerInv /\ [LiveNext]_liveVars => (OpenInv /\ OwnerInv)'
  BY StepKeepsOpenInv, StepKeepsOwnerInv
<1>3. OpenInv /\ OwnerInv => OpenOnCurrent
  <2> SUFFICES ASSUME OpenInv, OwnerInv, Open
               PROVE  /\ basis # None
                      /\ Stream!IsReadyForExecution =>
                             opened = IF ResyncFirst THEN basis + 1 ELSE basis
    BY DEF OpenOnCurrent
  <2>1. status = "RECONCILED"
    BY DEF Open, BalancesForRisk
  <2>2. basis # None
    BY <2>1, StoreAssumption DEF OpenInv
  <2>3. ASSUME Stream!IsReadyForExecution
        PROVE  opened = IF ResyncFirst THEN basis + 1 ELSE basis
    BY <2>1, <2>3 DEF OpenInv, OwnerInv, Stream!IsReadyForExecution
  <2> QED
    BY <2>2, <2>3
<1> QED
  BY <1>1, <1>2, <1>3, PTL DEF LiveSafety
-----------------------------------------------------------------------------
(***************************************************************************)
(* What the owner and the threads hand to the store is what its methods    *)
(* take: a thread about to call on_event with an event holds a message, and*)
(* the owner about to apply a snapshot holds balances.                     *)
(***************************************************************************)
HandedInv ==
    /\ log \in Seq(Messages)
    /\ DOMAIN held = Stream!Sockets /\ DOMAIN pc = Stream!Sockets
    /\ DOMAIN msg = Stream!Sockets
    /\ \A c \in Stream!Sockets : pc[c] = "got" /\ msg[c] = "event" => held[c] \in Messages
    /\ stage = "apply" => fetched \in Balances

\* What the exchange holds is a table of balances.
LEMMA AccountIsBalances ==
    ASSUME log \in Seq(Messages)
    PROVE  Account \in Balances
<1>1. CASE log = <<>>
  BY <1>1, LiveAssumption DEF Account
<1>2. CASE log # <<>>
  <2>1. Len(log) \in 1 .. Len(log)
    BY <1>2
  <2>2. log[Len(log)] \in Messages
    BY <2>1
  <2>3. log[Len(log)].bals \in Balances
    BY <2>2, LiveAssumption, MessageFields
  <2> QED
    BY <1>2, <2>3 DEF Account
<1> QED
  BY <1>1, <1>2

\* A thread that moves holds a message afterwards only if it has just received one.
LEMMA LoopKeepsHanded ==
    ASSUME HandedInv, NEW c \in Stream!Sockets, Loop(c)
    PROVE  HandedInv'
<1>1. UNCHANGED <<log, held, stage, fetched>>
  BY DEF Loop, reportVars, ownerVars
<1>2. /\ DOMAIN pc' = Stream!Sockets /\ pc'[c] # "got"
      /\ \A d \in Stream!Sockets \ {c} : pc'[d] = pc[d]
  BY DEF Loop, HandedInv, Stream!CheckStop, Stream!TestSocket, Stream!CallRecv,
         Stream!RecvRaises, Stream!HandleTerminated, Stream!HandleError, Stream!ReportLoss,
         Stream!Go
<1>3. /\ DOMAIN msg' = Stream!Sockets
      /\ \A d \in Stream!Sockets \ {c} : msg'[d] = msg[d]
  BY DEF Loop, HandedInv, Stream!CheckStop, Stream!TestSocket, Stream!CallRecv,
         Stream!RecvRaises, Stream!HandleTerminated, Stream!HandleError, Stream!ReportLoss,
         Stream!exchangeVars
<1> QED
  BY <1>1, <1>2, <1>3 DEF HandedInv

LEMMA ReceiveKeepsHanded ==
    ASSUME HandedInv, NEW c \in Stream!Sockets, Receive(c)
    PROVE  HandedInv'
<1>1. UNCHANGED <<log, stage, fetched>>
  BY DEF Receive, ownerVars
<1>2. /\ DOMAIN pc' = Stream!Sockets /\ DOMAIN msg' = Stream!Sockets
      /\ \A d \in Stream!Sockets \ {c} : pc'[d] = pc[d] /\ msg'[d] = msg[d]
  BY DEF Receive, HandedInv, Stream!Receive, Stream!Go
<1>3. CASE msg'[c] = "event"
  <2>1. PICK n \in DOMAIN log : held' = [held EXCEPT ![c] = log[n]]
    BY <1>3 DEF Receive
  <2>2. log[n] \in Messages
    BY <2>1 DEF HandedInv
  <2>3. /\ DOMAIN held' = Stream!Sockets /\ held'[c] \in Messages
        /\ \A d \in Stream!Sockets \ {c} : held'[d] = held[d]
    BY <2>1, <2>2 DEF HandedInv
  <2> QED
    BY <1>1, <1>2, <2>3 DEF HandedInv
<1>4. CASE msg'[c] # "event"
  <2>1. held' = held
    BY <1>4 DEF Receive, reportVars
  <2> QED
    BY <1>1, <1>2, <1>4, <2>1 DEF HandedInv
<1> QED
  BY <1>3, <1>4

LEMMA CallOnEventKeepsHanded ==
    ASSUME HandedInv, NEW c \in Stream!Sockets, CallOnEvent(c)
    PROVE  HandedInv'
<1>1. UNCHANGED <<log, stage, fetched>>
  BY DEF CallOnEvent, ownerVars
<1>2. /\ DOMAIN pc' = Stream!Sockets /\ DOMAIN msg' = Stream!Sockets
      /\ DOMAIN held' = Stream!Sockets
      /\ \A d \in Stream!Sockets \ {c} :
            pc'[d] = pc[d] /\ msg'[d] = msg[d] /\ held'[d] = held[d]
      /\ pc'[c] # "got"
  BY DEF CallOnEvent, HandedInv, Stream!CallOnEvent, Stream!Go
<1> QED
  BY <1>1, <1>2 DEF HandedInv

\* The owner starts threads at the head of their loop.
LEMMA OwnerKeepsHanded ==
    ASSUME HandedInv, Owner
    PROVE  HandedInv'
<1>1. UNCHANGED <<log, held>>
  BY DEF Owner, CreateListenToken, Subscribe, FetchAccount, FetchFails, ApplyAccount,
         NoticeLoss, OnWsDisconnect, Unsubscribe, reportVars
<1>2. stage' = "apply" => fetched' \in Balances
  <2>1. CASE FetchAccount
    BY <2>1, AccountIsBalances DEF FetchAccount, HandedInv
  <2>2. CASE CreateListenToken \/ Subscribe \/ FetchFails \/ ApplyAccount \/ NoticeLoss
             \/ OnWsDisconnect \/ Unsubscribe
    BY <2>2 DEF CreateListenToken, Subscribe, FetchFails, ApplyAccount, NoticeLoss,
                OnWsDisconnect, Unsubscribe, FirstStage, HandedInv, ownerVars
  <2> QED
    BY <2>1, <2>2 DEF Owner
<1>3. /\ msg' = msg
      /\ pc' = pc \/ pc' = [pc EXCEPT ![opened] = "check"]
  BY DEF Owner, CreateListenToken, Subscribe, FetchAccount, FetchFails, ApplyAccount,
         NoticeLoss, OnWsDisconnect, Unsubscribe, streamVars,
         Stream!RequestToken, Stream!TokenIssued, Stream!TokenRefused, Stream!BeginSubscribe,
         Stream!OpenSocket, Stream!SendRequest, Stream!DeclareSubscribed,
         Stream!StartThread, Stream!SubscribeFails, Stream!Unsubscribe, Stream!threadVars
<1>4. /\ DOMAIN pc' = Stream!Sockets
      /\ \A d \in Stream!Sockets : pc'[d] = "got" => pc[d] = "got"
  BY <1>3 DEF HandedInv
<1> QED
  BY <1>1, <1>2, <1>3, <1>4 DEF HandedInv

LEMMA HandedInvHolds == LiveSafety => []HandedInv
<1>1. LiveInit => HandedInv
  BY DEF LiveInit, Stream!Init, HandedInv
<1>2. HandedInv /\ [LiveNext]_liveVars => HandedInv'
  <2> SUFFICES ASSUME HandedInv, [LiveNext]_liveVars
               PROVE  HandedInv'
    OBVIOUS
  <2>1. ASSUME NEW m \in Messages, ChangeBalances(m)
        PROVE  HandedInv'
    <3>1. log' \in Seq(Messages)
      BY <2>1 DEF ChangeBalances, HandedInv
    <3> QED
      BY <2>1, <3>1 DEF ChangeBalances, HandedInv, streamVars, reportVars, ownerVars
  <2>2. ASSUME NEW c \in Stream!Sockets, Answer(c) \/ PeerCloses(c)
        PROVE  HandedInv'
    BY <2>2 DEF Answer, PeerCloses, HandedInv, reportVars, ownerVars,
                Stream!Answer, Stream!PeerCloses, Stream!threadVars
  <2>3. CASE Expire
    BY <2>3 DEF Expire, HandedInv, reportVars, ownerVars, Stream!Expire, Stream!threadVars
  <2>4. ASSUME NEW c \in Stream!Sockets, Thread(c)
        PROVE  HandedInv'
    BY <2>4, LoopKeepsHanded, ReceiveKeepsHanded, CallOnEventKeepsHanded DEF Thread
  <2>5. CASE Owner
    BY <2>5, OwnerKeepsHanded
  <2>6. CASE GiveUp \/ UNCHANGED liveVars
    BY <2>6 DEF GiveUp, liveVars, streamVars, reportVars, ownerVars, HandedInv
  <2> QED
    BY <2>1, <2>2, <2>3, <2>4, <2>5, <2>6 DEF LiveNext
<1> QED
  BY <1>1, <1>2, PTL DEF LiveSafety

\* A step of the composition is a step of the store, or leaves it alone.
LEMMA StoreStep ==
    ASSUME HandedInv, [LiveNext]_liveVars
    PROVE  [StoreNext]_storeVars
<1>1. ASSUME NEW c \in Stream!Sockets, CallOnEvent(c)
      PROVE  [StoreNext]_storeVars
  <2>1. CASE msg[c] = "event"
    <3>1. pc[c] = "got"
      BY <1>1 DEF CallOnEvent, Stream!CallOnEvent
    <3>2. held[c] \in Messages /\ ApplyPrivateEvent(held[c])
      BY <1>1, <2>1, <3>1 DEF CallOnEvent, HandedInv
    <3> QED
      BY <3>2 DEF StoreNext
  <2> QED
    BY <1>1, <2>1 DEF CallOnEvent
<1>2. CASE ApplyAccount
  <2>1. [balances |-> fetched, canTrade |-> TRUE] \in Snapshot
    BY <1>2 DEF ApplyAccount, HandedInv, Snapshot
  <2>2. <<>> \in RestOrders
    BY InitialBook DEF RestOrders
  <2> QED
    BY <1>2, <2>1, <2>2 DEF ApplyAccount, StoreNext
<1>3. CASE FetchFails \/ OnWsDisconnect
  BY <1>3 DEF FetchFails, OnWsDisconnect, StoreNext
<1>4. ASSUME \/ \E m \in Messages : ChangeBalances(m)
             \/ \E c \in Stream!Sockets : Answer(c) \/ PeerCloses(c) \/ Receive(c) \/ Loop(c)
             \/ Expire \/ CreateListenToken \/ Subscribe \/ FetchAccount \/ NoticeLoss
             \/ GiveUp \/ Unsubscribe \/ UNCHANGED liveVars
      PROVE  UNCHANGED storeVars
  BY <1>4 DEF ChangeBalances, Answer, PeerCloses, Receive, Loop, Expire, CreateListenToken,
              Subscribe, FetchAccount, NoticeLoss, GiveUp, Unsubscribe, liveVars
<1> QED
  BY <1>1, <1>2, <1>3, <1>4 DEF LiveNext, Thread, Owner

(***************************************************************************)
(* The composition uses the store as the store's specification says: every *)
(* event a thread hands over, however late, and every call of the owner is *)
(* a step of AccountStore.  So all that is proved of the store holds here. *)
(***************************************************************************)
THEOREM LiveImplementsStore == LiveSafety => StoreSpec
<1>1. LiveInit => StoreInit
  BY DEF LiveInit
<1>2. HandedInv /\ [LiveNext]_liveVars => [StoreNext]_storeVars
  BY StoreStep
<1> QED
  BY <1>1, <1>2, HandedInvHolds, PTL DEF LiveSafety, StoreSpec

(***************************************************************************)
(* The risk layer is behind a fail-closed gate while the stream feeds the  *)
(* store, and the readers of the store agree.                              *)
(***************************************************************************)
THEOREM LiveFailsClosed == LiveSafety => GateRefined /\ []ReadersAgree
  BY LiveImplementsStore, StoreRefinesGate, ReadersAlwaysAgree, PTL
-----------------------------------------------------------------------------
\* The owner has the token it subscribes with.
TokenInv == issued \in Nat /\ (stage # "token" => issued >= 1)

LEMMA TokenInvHolds == LiveSafety => []TokenInv
<1>1. LiveInit => TokenInv
  BY DEF LiveInit, Stream!Init, TokenInv
<1>2. TokenInv /\ [LiveNext]_liveVars => TokenInv'
  <2> SUFFICES ASSUME TokenInv, [LiveNext]_liveVars
               PROVE  TokenInv'
    OBVIOUS
  <2> USE DEF TokenInv
  <2>1. CASE CreateListenToken
    BY <2>1 DEF CreateListenToken, Stream!RequestToken, Stream!TokenIssued,
                Stream!TokenRefused, Stream!exchangeVars
  <2>2. CASE Subscribe
    BY <2>2 DEF Subscribe, Stream!BeginSubscribe, Stream!OpenSocket, Stream!SendRequest,
                Stream!DeclareSubscribed, Stream!StartThread, Stream!SubscribeFails,
                Stream!exchangeVars
  <2>3. CASE Unsubscribe
    BY <2>3 DEF Unsubscribe, Stream!Unsubscribe, Stream!exchangeVars
  <2>4. CASE FetchAccount \/ FetchFails \/ ApplyAccount \/ NoticeLoss \/ GiveUp
             \/ OnWsDisconnect
    <3>1. issued' = issued
      BY <2>4 DEF FetchAccount, FetchFails, ApplyAccount, NoticeLoss, GiveUp, OnWsDisconnect,
                  streamVars
    <3>2. stage # "token"
      BY <2>4 DEF FetchAccount, FetchFails, ApplyAccount, NoticeLoss, GiveUp, OnWsDisconnect
    <3> QED  BY <3>1, <3>2
  <2>5. ASSUME \/ \E m \in Messages : ChangeBalances(m)
               \/ \E c \in Stream!Sockets : Answer(c) \/ PeerCloses(c) \/ Thread(c)
               \/ Expire \/ UNCHANGED liveVars
        PROVE  UNCHANGED <<issued, stage>>
    BY <2>5 DEF ChangeBalances, Answer, PeerCloses, Thread, Receive, CallOnEvent, Loop, Expire,
         liveVars, streamVars, ownerVars, Stream!Answer, Stream!PeerCloses, Stream!Expire,
         Stream!Receive, Stream!CallOnEvent, Stream!CheckStop, Stream!TestSocket,
         Stream!CallRecv, Stream!RecvRaises, Stream!HandleTerminated, Stream!HandleError,
         Stream!ReportLoss, Stream!exchangeVars
  <2> QED  BY <2>1, <2>2, <2>3, <2>4, <2>5 DEF LiveNext, Owner
<1> QED  BY <1>1, <1>2, PTL DEF LiveSafety

\* A step of the composition is a step of the stream, or leaves it alone.
LEMMA StreamStep ==
    ASSUME TokenInv, [LiveNext]_liveVars
    PROVE  [Stream!Next]_(Stream!vars)
<1>1. CASE CreateListenToken
  BY <1>1 DEF CreateListenToken, Stream!Next
<1>2. CASE Subscribe
  <2>1. Stream!BeginSubscribe(1) => 1 \in 1 .. issued
    BY <1>2 DEF Subscribe, TokenInv
  <2> QED  BY <1>2, <2>1 DEF Subscribe, Stream!Next, Stream!Subscribing
<1>3. CASE Unsubscribe
  BY <1>3 DEF Unsubscribe, Stream!Next
<1>4. ASSUME NEW c \in Stream!Sockets, Answer(c) \/ PeerCloses(c) \/ Thread(c)
      PROVE  Stream!Next
  BY <1>4 DEF Answer, PeerCloses, Thread, Receive, CallOnEvent, Loop, Stream!Thread, Stream!Next
<1>5. CASE Expire
  BY <1>5 DEF Expire, Stream!Next, Stream!Tokens
<1>6. ASSUME \/ \E m \in Messages : ChangeBalances(m)
             \/ FetchAccount \/ FetchFails \/ ApplyAccount \/ NoticeLoss \/ GiveUp
             \/ OnWsDisconnect \/ UNCHANGED liveVars
      PROVE  UNCHANGED Stream!vars
  <2>1. UNCHANGED streamVars
    BY <1>6 DEF ChangeBalances, FetchAccount, FetchFails, ApplyAccount, NoticeLoss, GiveUp,
                OnWsDisconnect, liveVars
  <2> QED  BY <2>1 DEF streamVars, Stream!vars, Stream!callerVars, Stream!ownerVars,
                       Stream!exchangeVars, Stream!netVars, Stream!threadVars
<1> QED  BY <1>1, <1>2, <1>3, <1>4, <1>5, <1>6 DEF LiveNext, Owner

(***************************************************************************)
(* The composition uses the stream as the stream's specification says: the *)
(* owner subscribes with a token it was given and undoes a subscription    *)
(* before the next, and the threads that feed the store are the stream's.  *)
(***************************************************************************)
THEOREM LiveImplementsStream == LiveSafety => Stream!Safety
<1>1. LiveInit => Stream!Init
  BY DEF LiveInit
<1>2. TokenInv /\ [LiveNext]_liveVars => [Stream!Next]_(Stream!vars)
  BY StreamStep
<1> QED  BY <1>1, <1>2, TokenInvHolds, PTL DEF LiveSafety, Stream!Safety

StreamTheorems == INSTANCE PrivateUserStream_proofs
    WITH MaxTokens <- 1, CarefulCaller <- TRUE, OtherCallers <- FALSE, ForceStates <- {},
         RaisingKinds <- {k \in {"ack", "refusal"} :
                             ~Filtered /\ ~Normalizable([kind |-> "other"])}

\* The stream of the theorems is the stream of the composition.
LEMMA SameStream ==
    /\ StreamTheorems!Init <=> Stream!Init
    /\ StreamTheorems!Next <=> Stream!Next
    /\ UNCHANGED StreamTheorems!vars <=> UNCHANGED Stream!vars
    /\ StreamTheorems!SubscribedHasReceiver <=> Stream!SubscribedHasReceiver
<1>1. StreamTheorems!Init <=> Stream!Init
  BY DEF Stream!Init, StreamTheorems!Init, Stream!Sockets, StreamTheorems!Sockets
<1>2. StreamTheorems!Next <=> Stream!Next
  BY DEF Stream!Next, Stream!Subscribing, Stream!Thread, Stream!RequestToken,
         Stream!TokenIssued, Stream!TokenRefused, Stream!BeginSubscribe,
         Stream!OpenSocket, Stream!SendRequest, Stream!DeclareSubscribed,
         Stream!StartThread, Stream!SubscribeFails, Stream!Unsubscribe,
         Stream!MarkUnsupported, Stream!ForceState, Stream!MayCall, Stream!Answer, Stream!Expire,
         Stream!PeerCloses, Stream!Sent, Stream!Go, Stream!CheckStop,
         Stream!TestSocket, Stream!CallRecv, Stream!Receive, Stream!RecvRaises,
         Stream!HandleTerminated, Stream!CallOnEvent, Stream!HandleError,
         Stream!ReportLoss, Stream!Sockets, Stream!Tokens, Stream!callerVars,
         Stream!ownerVars, Stream!exchangeVars, Stream!netVars, Stream!threadVars,
         Stream!vars, StreamTheorems!Next, StreamTheorems!Subscribing,
         StreamTheorems!Thread, StreamTheorems!RequestToken,
         StreamTheorems!TokenIssued, StreamTheorems!TokenRefused,
         StreamTheorems!BeginSubscribe, StreamTheorems!OpenSocket,
         StreamTheorems!SendRequest, StreamTheorems!DeclareSubscribed,
         StreamTheorems!StartThread, StreamTheorems!SubscribeFails,
         StreamTheorems!Unsubscribe, StreamTheorems!MarkUnsupported,
         StreamTheorems!MayCall,
         StreamTheorems!ForceState, StreamTheorems!Answer, StreamTheorems!Expire,
         StreamTheorems!PeerCloses, StreamTheorems!Sent, StreamTheorems!Go,
         StreamTheorems!CheckStop, StreamTheorems!TestSocket,
         StreamTheorems!CallRecv, StreamTheorems!Receive,
         StreamTheorems!RecvRaises, StreamTheorems!HandleTerminated,
         StreamTheorems!CallOnEvent, StreamTheorems!HandleError,
         StreamTheorems!ReportLoss, StreamTheorems!Sockets, StreamTheorems!Tokens,
         StreamTheorems!callerVars, StreamTheorems!ownerVars,
         StreamTheorems!exchangeVars, StreamTheorems!netVars,
         StreamTheorems!threadVars, StreamTheorems!vars
<1>3. UNCHANGED StreamTheorems!vars <=> UNCHANGED Stream!vars
  BY DEF Stream!vars, Stream!callerVars, Stream!ownerVars, Stream!exchangeVars,
         Stream!netVars, Stream!threadVars, StreamTheorems!vars, StreamTheorems!callerVars,
         StreamTheorems!ownerVars, StreamTheorems!exchangeVars, StreamTheorems!netVars,
         StreamTheorems!threadVars
<1>4. StreamTheorems!SubscribedHasReceiver <=> Stream!SubscribedHasReceiver
  BY DEF StreamTheorems!SubscribedHasReceiver, Stream!SubscribedHasReceiver
<1> QED  BY <1>1, <1>2, <1>3, <1>4

(***************************************************************************)
(* So what is proved of the stream holds while it feeds the store: a stream*)
(* that says SUBSCRIBED has a thread that can notice its loss.             *)
(***************************************************************************)
THEOREM LiveStaysHeard == LiveSafety => []Stream!SubscribedHasReceiver
<1>1. StreamTheorems!PrivateAssumption
  BY LiveAssumption, StoreAssumption
     DEF StreamTheorems!Kinds, StreamTheorems!States
<1>2. StreamTheorems!Safety => []StreamTheorems!SubscribedHasReceiver
  BY <1>1, StreamTheorems!SubscribedAlwaysHeard
<1>3. StreamTheorems!Init <=> Stream!Init
  BY SameStream
<1>4. [StreamTheorems!Next]_(StreamTheorems!vars) <=> [Stream!Next]_(Stream!vars)
  BY SameStream
<1>5. StreamTheorems!SubscribedHasReceiver <=> Stream!SubscribedHasReceiver
  BY SameStream
<1> QED
  BY <1>2, <1>3, <1>4, <1>5, LiveImplementsStream, PTL DEF Stream!Safety, StreamTheorems!Safety

=============================================================================
