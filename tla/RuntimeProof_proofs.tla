-------------------------- MODULE RuntimeProof_proofs --------------------------
(***************************************************************************)
(* The proof script, whatever calls fail and whatever the stream and the   *)
(* exchange do meanwhile: its flags come in its order, VERIFIED vouches for*)
(* what it should, and the store is used as its specification allows.      *)
(***************************************************************************)
EXTENDS RuntimeProof, AccountStore_proofs

\* The flags in the script's order, and the first n of them.
Order == <<"server_time", "symbols", "symbol_type_1", "account_snapshot",
           "open_orders", "listen_token", "private_ws", "reconciliation">>

First(n) == {Order[i] : i \in 1 .. n}

\* How many flags are True when the script is at a stage; at its end, any number.
Rank == [start |-> 0, server_time |-> 0, symbols |-> 1, account_snapshot |-> 3,
         open_orders |-> 4, listen_token |-> 5, stream |-> 6, waiting |-> 6,
         subscribe |-> 6, subscribing |-> 6, poll |-> 6, final |-> 6, unsubscribe |-> 6,
         resync |-> 7, disconnect |-> 7, verdict |-> 8]

(***************************************************************************)
(* What keeps FlagsInOrder: the stage says how far the script has come, and*)
(* the flags are as many as that.                                          *)
(***************************************************************************)
FlagsInv ==
    /\ stage # "end" => stage \in DOMAIN Rank /\ verified = First(Rank[stage])
    /\ \E n \in 0 .. 8 : verified = First(n)

\* One more flag.
LEMMA NextFlag ==
    /\ First(0) = {}
    /\ \A n \in 0 .. 7 : First(n + 1) = First(n) \cup {Order[n + 1]}
<1>1. First(0) = {}
  BY DEF First
<1>2. ASSUME NEW n \in 0 .. 7
      PROVE  First(n + 1) = First(n) \cup {Order[n + 1]}
  <2>1. 1 .. n + 1 = (1 .. n) \cup {n + 1}
    OBVIOUS
  <2> HIDE DEF Order
  <2> QED
    BY <2>1 DEF First
<1> QED
  BY <1>1, <1>2

LEMMA StepKeepsFlags ==
    ASSUME FlagsInv, [ProofNext]_proofVars
    PROVE  FlagsInv'
<1>0. stage # "end" => /\ stage \in DOMAIN Rank /\ Rank[stage] \in 0 .. 8
                       /\ verified = First(Rank[stage])
  BY DEF FlagsInv, Rank
<1>1. CASE CheckCredentials
  <2>1. stage = "start" /\ verified' = verified /\ stage' \in {"server_time", "end"}
    BY <1>1 DEF CheckCredentials, reportVars
  <2> QED
    BY <1>0, <2>1 DEF FlagsInv, Rank
<1>2. CASE CallSucceeds
  <2>1. /\ stage \in DOMAIN After /\ stage' = After[stage]
        /\ verified' = verified \cup {stage}
    BY <1>2 DEF CallSucceeds
  <2>2. /\ Rank[stage] \in 0 .. 7 /\ Rank[stage'] = Rank[stage] + 1
        /\ Order[Rank[stage] + 1] = stage
        /\ stage # "end" /\ stage' \in DOMAIN Rank
    BY <2>1 DEF After, Rank, Order
  <2>3. verified' = First(Rank[stage']) /\ Rank[stage'] \in 0 .. 8
    BY <1>0, <2>1, <2>2, NextFlag
  <2> QED
    BY <2>2, <2>3 DEF FlagsInv
<1>3. CASE ListSymbols
  <2>1. PICK listed \in SUBSET {1, 3} :
           /\ verified' = verified \cup {flag \in {"symbols", "symbol_type_1"} :
                 IF flag = "symbols" THEN listed # {} ELSE 1 \in listed}
           /\ stage' = IF 1 \in listed THEN "account_snapshot" ELSE "end"
    BY <1>3 DEF ListSymbols
  <2>2. verified = First(1)
    BY <1>0, <1>3 DEF ListSymbols, Rank
  <2>3. /\ First(2) = First(1) \cup {"symbols"}
        /\ First(3) = First(1) \cup {"symbols", "symbol_type_1"}
    <3>1. First(1 + 1) = First(1) \cup {Order[1 + 1]}
      BY NextFlag
    <3>2. First(2 + 1) = First(2) \cup {Order[2 + 1]}
      BY NextFlag
    <3> QED
      BY <3>1, <3>2 DEF Order
  <2>4. CASE 1 \in listed
    <3>1. verified' = First(3) /\ stage' = "account_snapshot"
      BY <2>1, <2>2, <2>3, <2>4
    <3> QED
      BY <3>1 DEF FlagsInv, Rank
  <2>5. CASE 1 \notin listed /\ listed # {}
    <3>1. verified' = First(2) /\ stage' = "end"
      BY <2>1, <2>2, <2>3, <2>5
    <3> QED
      BY <3>1 DEF FlagsInv
  <2>6. CASE listed = {}
    <3>1. verified' = First(1) /\ stage' = "end"
      BY <2>1, <2>2, <2>6
    <3> QED
      BY <3>1 DEF FlagsInv
  <2> QED
    BY <2>4, <2>5, <2>6
<1>4. CASE CallFails
  BY <1>4 DEF CallFails, FlagsInv, reportVars
<1>5. CASE CreateListenToken \/ Subscribe \/ Poll \/ ReadFinalState
  <2> DEFINE streaming == {"stream", "waiting", "subscribe", "subscribing", "poll",
                           "final", "unsubscribe"}
  <2>1. verified' = verified
    BY <1>5 DEF CreateListenToken, Subscribe, Poll, ReadFinalState, reportVars
  <2>2. stage \in streaming /\ stage' \in streaming \cup {"end"}
    BY <1>5 DEF CreateListenToken, Subscribe, Poll, ReadFinalState
  <2>3. \A s \in streaming : s \in DOMAIN Rank /\ Rank[s] = 6 /\ s # "end"
    BY DEF Rank
  <2> HIDE DEF streaming
  <2>4. stage' # "end" => stage' \in DOMAIN Rank /\ Rank[stage'] = 6
    BY <2>2, <2>3
  <2> QED
    BY <1>0, <2>1, <2>2, <2>3, <2>4 DEF FlagsInv
<1>6. CASE Unsubscribe
  <2>1. verified = First(6) /\ stage = "unsubscribe"
    BY <1>0, <1>6 DEF Unsubscribe, Rank
  <2>2. First(6 + 1) = First(6) \cup {Order[6 + 1]}
    BY NextFlag
  <2>3. First(7) = First(6) \cup {"private_ws"}
    BY <2>2 DEF Order
  <2>4. \/ verified' = First(7) /\ stage' = "resync"
        \/ verified' = First(6) /\ stage' = "end"
    BY <1>6, <2>1, <2>3 DEF Unsubscribe
  <2> QED
    BY <2>4 DEF FlagsInv, Rank
<1>7. CASE FullResync
  <2>1. /\ verified' = verified /\ stage = "resync"
        /\ stage' \in {"disconnect", "end"}
    BY <1>7 DEF FullResync, reportVars
  <2> QED
    BY <1>0, <2>1 DEF FlagsInv, Rank
<1>8. CASE OnWsDisconnect
  <2>1. verified = First(7)
    BY <1>0, <1>8 DEF OnWsDisconnect, Rank
  <2>2. First(7 + 1) = First(7) \cup {Order[7 + 1]}
    BY NextFlag
  <2>3. First(8) = First(7) \cup {"reconciliation"}
    BY <2>2 DEF Order
  <2>4. \/ verified' = First(8) /\ stage' = "verdict"
        \/ verified' = First(7) /\ stage' = "end"
    BY <1>8, <2>1, <2>3 DEF OnWsDisconnect
  <2> QED
    BY <2>4 DEF FlagsInv, Rank
<1>9. CASE Verdict
  BY <1>9 DEF Verdict, FlagsInv
<1>10. ASSUME \/ \E c \in Stream!Sockets : Thread(c) \/ Exchange(c)
              \/ UNCHANGED proofVars
       PROVE  FlagsInv'
  <2>1. UNCHANGED <<stage, verified>>
    BY <1>10 DEF Thread, Exchange, proofVars, reportVars
  <2> QED
    BY <2>1 DEF FlagsInv
<1> QED
  BY <1>1, <1>2, <1>3, <1>4, <1>5, <1>6, <1>7, <1>8, <1>9, <1>10 DEF ProofNext, Script

LEMMA FlagsInvHolds == ProofSpec => []FlagsInv
<1>1. ProofInit => FlagsInv
  BY NextFlag DEF ProofInit, FlagsInv, Rank
<1>2. FlagsInv /\ [ProofNext]_proofVars => FlagsInv'
  BY StepKeepsFlags
<1> QED
  BY <1>1, <1>2, PTL DEF ProofSpec

\* The place of a flag among the first n.
LEMMA FirstInOrder ==
    ASSUME NEW n \in 0 .. 8, NEW i \in 1 .. 8, NEW j \in 1 .. 8, i < j, Order[j] \in First(n)
    PROVE  Order[i] \in First(n)
<1>1. PICK k \in 1 .. n : Order[j] = Order[k]
  BY DEF First
<1>2. \A a, b \in 1 .. 8 : Order[a] = Order[b] => a = b
  BY DEF Order
<1>3. k \in 1 .. 8
  OBVIOUS
<1>4. j = k
  BY <1>1, <1>2, <1>3
<1> QED
  BY <1>4 DEF First

(***************************************************************************)
(* The flags of the report are the first ones of the script's order, in    *)
(* every state of every execution (p0_runtime_proof.py:84-222).            *)
(***************************************************************************)
THEOREM FlagsComeInOrder == ProofSpec => []FlagsInOrder
<1>1. FlagsInv => FlagsInOrder
  <2> SUFFICES ASSUME FlagsInv
               PROVE  \A i, j \in DOMAIN Order : i < j /\ Order[j] \in verified
                                                       => Order[i] \in verified
    BY DEF FlagsInOrder, Order
  <2>1. DOMAIN Order = 1 .. 8
    BY DEF Order
  <2>2. PICK n \in 0 .. 8 : verified = First(n)
    BY DEF FlagsInv
  <2> QED
    BY <2>1, <2>2, FirstInOrder
<1> QED
  BY <1>1, FlagsInvHolds, PTL
-----------------------------------------------------------------------------
\* The request of the one subscription was sent, with a token of the exchange.
Asked == server[1] # "unasked" /\ keyed[1] \in 1 .. issued

\* Before the script subscribes, and when it is about to undo the subscription.
Opening == {"start", "server_time", "symbols", "account_snapshot", "open_orders",
            "listen_token", "stream", "waiting", "subscribe"}

Holding == {"poll", "final", "unsubscribe"}

(***************************************************************************)
(* What the stream's part of VerifiedMeans rests on: how far the call of   *)
(* subscribe under way has come, that from its end to unsubscribe the      *)
(* socket that may be open is the one in _ws, and that the receiving thread*)
(* opens none.                                                             *)
(***************************************************************************)
SubscriptionInv ==
    /\ issued \in Nat
    /\ opened \in 0 .. 1 /\ up \subseteq 1 .. opened
    /\ DOMAIN server = {1} /\ DOMAIN keyed = {1}
    /\ stage \in Opening => opened = 0
    /\ stage = "subscribe" => token \in 1 .. issued
    /\ stage = "subscribing" =>
          /\ using \in 1 .. issued
          /\ \/ owner = "connect" /\ opened = 0
             \/ owner \in {"send", "sent", "start"} /\ opened = 1 /\ ws = 1
          /\ owner \in {"sent", "start"} => Asked
    /\ stage \in Holding => ws = 1 /\ Asked
    /\ "private_ws" \in verified => ws = None /\ up = {} /\ Asked

\* The baseline of the store, and the fault that closed it again.
ClosedInv ==
    /\ stage = "disconnect" => baseline # 0
    /\ stage = "verdict" => baseline # 0 /\ status = "STALE"
    /\ verdict # "FAILED" =>
          stage = "end" /\ Required = verified /\ baseline # 0 /\ status = "STALE"

LEMMA OneSocket == Stream!Sockets = {1}
BY DEF Stream!Sockets

\* When which flag is True.
LEMMA FlagsByStage ==
    ASSUME FlagsInv
    PROVE  /\ stage \in Opening \cup Holding \cup {"subscribing"} => "private_ws" \notin verified
           /\ stage = "verdict" => verified = Required
<1>1. ASSUME stage \in Opening \cup Holding \cup {"subscribing"}
      PROVE  "private_ws" \notin verified
  <2>1. stage # "end" /\ Rank[stage] \in 0 .. 6
    BY <1>1 DEF Opening, Holding, Rank
  <2>2. \A i \in 1 .. 6 : Order[i] # "private_ws"
    BY DEF Order
  <2>3. \A n \in 0 .. 6 : "private_ws" \notin First(n)
    BY <2>2 DEF First
  <2> QED
    BY <2>1, <2>3 DEF FlagsInv
<1>2. First(8) = Required
  <2>1. 1 .. 8 = {1, 2, 3, 4, 5, 6, 7, 8}
    OBVIOUS
  <2>2. First(8) = {Order[1], Order[2], Order[3], Order[4],
                    Order[5], Order[6], Order[7], Order[8]}
    BY <2>1, Zenon DEF First
  <2> QED
    BY <2>2 DEF Order, Required
<1>3. stage = "verdict" => verified = Required
  BY <1>2 DEF FlagsInv, Rank
<1> QED
  BY <1>1, <1>3

\* The exchange, the network and the receiving thread open and subscribe nothing.
LEMMA WorldKeepsSubscription ==
    ASSUME SubscriptionInv, NEW c \in Stream!Sockets, Thread(c) \/ Exchange(c)
    PROVE  SubscriptionInv'
<1>1. UNCHANGED <<ws, token, owner, using, issued, opened, keyed, stage, verified>>
  BY DEF Thread, Exchange, reportVars, Stream!Thread, Stream!Answer, Stream!PeerCloses,
         Stream!Expire, Stream!CheckStop, Stream!TestSocket, Stream!CallRecv, Stream!Receive,
         Stream!RecvRaises, Stream!HandleTerminated, Stream!CallOnEvent, Stream!HandleError,
         Stream!ReportLoss, Stream!callerVars, Stream!ownerVars, Stream!exchangeVars,
         Stream!netVars
<1>2. up' \subseteq up
  BY DEF Thread, Exchange, Stream!Thread, Stream!Answer, Stream!PeerCloses,
         Stream!Expire, Stream!CheckStop, Stream!TestSocket, Stream!CallRecv, Stream!Receive,
         Stream!RecvRaises, Stream!HandleTerminated, Stream!CallOnEvent, Stream!HandleError,
         Stream!ReportLoss, Stream!netVars
<1>3. DOMAIN server' = {1} /\ (server[1] # "unasked" => server'[1] # "unasked")
  <2>1. CASE Stream!Answer(c)
    BY <2>1, OneSocket DEF Stream!Answer, SubscriptionInv
  <2>2. CASE Stream!Receive(c)
    BY <2>2, OneSocket DEF Stream!Receive, SubscriptionInv
  <2>3. CASE ~Stream!Answer(c) /\ ~Stream!Receive(c)
    BY <2>3 DEF SubscriptionInv, Thread, Exchange, Stream!Thread, Stream!PeerCloses,
           Stream!Expire, Stream!CheckStop, Stream!TestSocket, Stream!CallRecv,
           Stream!RecvRaises, Stream!HandleTerminated, Stream!CallOnEvent,
           Stream!HandleError, Stream!ReportLoss, Stream!exchangeVars
  <2> QED
    BY <2>1, <2>2, <2>3
<1> QED
  BY <1>1, <1>2, <1>3 DEF SubscriptionInv, Asked

\* Token and subscription, as far as the exchange has gone along.
LEMMA CreateListenTokenKeepsSubscription ==
    ASSUME SubscriptionInv, FlagsInv, CreateListenToken
    PROVE  SubscriptionInv'
<1>1. /\ stage \in {"stream", "waiting"} /\ opened = 0 /\ "private_ws" \notin verified
      /\ verified' = verified /\ stage' \in {"waiting", "subscribe", "end"}
  BY FlagsByStage DEF CreateListenToken, SubscriptionInv, Opening, reportVars
<1>2. /\ UNCHANGED <<opened, up, server, keyed>>
      /\ issued' \in Nat
      /\ stage' = "subscribe" => token' \in 1 .. issued'
  BY DEF CreateListenToken, SubscriptionInv, Stream!RequestToken, Stream!TokenIssued,
         Stream!TokenRefused, Stream!exchangeVars, Stream!netVars
<1> QED
  BY <1>1, <1>2 DEF SubscriptionInv, Opening, Holding

LEMMA SubscribeKeepsSubscription ==
    ASSUME SubscriptionInv, FlagsInv, Subscribe
    PROVE  SubscriptionInv'
<1>1. /\ stage \in {"subscribe", "subscribing"} /\ "private_ws" \notin verified
      /\ verified' = verified
  BY FlagsByStage DEF Subscribe, Opening, reportVars
<1>2. CASE Stream!BeginSubscribe(token) /\ stage = "subscribe" /\ stage' = "subscribing"
  BY <1>1, <1>2 DEF SubscriptionInv, Opening, Holding, Stream!BeginSubscribe,
                    Stream!exchangeVars, Stream!netVars
<1>3. CASE Stream!OpenSocket /\ stage = "subscribing" /\ stage' = stage
  <2>1. /\ opened' = 1 /\ ws' = 1 /\ up' \subseteq {1} /\ owner' = "send"
        /\ UNCHANGED <<using, issued, server, keyed>>
    BY <1>3 DEF SubscriptionInv, Stream!OpenSocket, Stream!exchangeVars
  <2> QED
    BY <1>1, <1>3, <2>1 DEF SubscriptionInv, Opening, Holding
<1>4. CASE Stream!SendRequest /\ stage = "subscribing" /\ stage' = stage
  <2>1. /\ ws = 1 /\ owner' = "sent" /\ opened = 1
        /\ server' = [server EXCEPT ![1] = "asked"] /\ keyed' = [keyed EXCEPT ![1] = using]
        /\ UNCHANGED <<ws, using, issued, opened, up>>
    BY <1>4 DEF SubscriptionInv, Stream!SendRequest, Stream!callerVars, Stream!netVars
  <2>2. DOMAIN server' = {1} /\ DOMAIN keyed' = {1} /\ Asked'
    BY <1>4, <2>1 DEF SubscriptionInv, Asked
  <2> QED
    BY <1>1, <1>4, <2>1, <2>2 DEF SubscriptionInv, Opening, Holding
<1>5. CASE Stream!DeclareSubscribed /\ stage = "subscribing" /\ stage' = stage
  BY <1>1, <1>5 DEF SubscriptionInv, Opening, Holding, Asked, Stream!DeclareSubscribed,
                    Stream!exchangeVars, Stream!netVars
<1>6. CASE Stream!StartThread /\ stage = "subscribing" /\ stage' = "poll"
  BY <1>1, <1>6 DEF SubscriptionInv, Opening, Holding, Asked, Stream!StartThread,
                    Stream!callerVars, Stream!exchangeVars, Stream!netVars
<1>7. CASE Stream!SubscribeFails /\ stage' = "end"
  BY <1>1, <1>7 DEF SubscriptionInv, Opening, Holding, Stream!SubscribeFails,
                    Stream!exchangeVars, Stream!netVars
<1> QED
  BY <1>2, <1>3, <1>4, <1>5, <1>6, <1>7 DEF Subscribe

LEMMA UnsubscribeKeepsSubscription ==
    ASSUME SubscriptionInv, FlagsInv, Unsubscribe
    PROVE  SubscriptionInv'
<1>1. /\ stage = "unsubscribe" /\ ws = 1 /\ Asked /\ stage' \in {"resync", "end"}
      /\ ws' = None /\ up' = up \ {1}
      /\ UNCHANGED <<issued, opened, server, keyed>>
  BY DEF SubscriptionInv, Holding, Unsubscribe, Stream!Unsubscribe, Stream!exchangeVars
<1>2. up' = {}
  BY <1>1 DEF SubscriptionInv
<1> QED
  BY <1>1, <1>2 DEF SubscriptionInv, Opening, Holding, Asked

\* The rest of the script leaves the stream alone.
LEMMA RestKeepsSubscription ==
    ASSUME SubscriptionInv, FlagsInv,
           \/ CheckCredentials \/ CallSucceeds \/ ListSymbols \/ CallFails \/ Poll
           \/ ReadFinalState \/ FullResync \/ OnWsDisconnect \/ Verdict
           \/ UNCHANGED proofVars
    PROVE  SubscriptionInv'
<1>1. UNCHANGED streamVars
  BY DEF CheckCredentials, CallSucceeds, ListSymbols, CallFails, Poll, ReadFinalState,
         FullResync, OnWsDisconnect, Verdict, proofVars
<1>2. UNCHANGED <<token, ws, owner, using, issued, opened, up, server, keyed>>
  BY <1>1 DEF streamVars
<1>3. /\ stage' \in Opening => stage \in Opening
      /\ stage' \in Holding => stage \in Holding
      /\ stage' \in {"subscribe", "subscribing"} => stage' = stage
  <2>1. CASE CallSucceeds
    <3>1. stage \in DOMAIN After /\ stage' = After[stage]
      BY <2>1 DEF CallSucceeds
    <3> QED
      BY <3>1 DEF After, Opening, Holding
  <2>2. CASE CallFails
    BY <2>2 DEF CallFails, Opening, Holding
  <2>3. CASE CheckCredentials \/ ListSymbols
    BY <2>3 DEF CheckCredentials, ListSymbols, Opening, Holding
  <2>4. CASE Poll \/ ReadFinalState
    BY <2>4 DEF Poll, ReadFinalState, Opening, Holding
  <2>5. CASE FullResync \/ OnWsDisconnect \/ Verdict
    BY <2>5 DEF FullResync, OnWsDisconnect, Verdict, Opening, Holding
  <2>6. CASE UNCHANGED proofVars
    BY <2>6 DEF proofVars
  <2> QED
    BY <2>1, <2>2, <2>3, <2>4, <2>5, <2>6
<1>4. "private_ws" \in verified' => "private_ws" \in verified
  <2>1. CASE CallSucceeds
    BY <2>1 DEF CallSucceeds, After
  <2>2. CASE ListSymbols \/ OnWsDisconnect
    BY <2>2 DEF ListSymbols, OnWsDisconnect
  <2>3. CASE ~CallSucceeds /\ ~ListSymbols /\ ~OnWsDisconnect
    BY <2>3 DEF CheckCredentials, CallFails, Poll, ReadFinalState, FullResync, Verdict,
                proofVars, reportVars
  <2> QED
    BY <2>1, <2>2, <2>3
<1> QED
  BY <1>2, <1>3, <1>4 DEF SubscriptionInv, Asked

LEMMA SubscriptionInvHolds == ProofSpec => []SubscriptionInv
<1>1. ProofInit => SubscriptionInv
  BY OneSocket DEF ProofInit, Stream!Init, SubscriptionInv, Holding
<1>2. SubscriptionInv /\ FlagsInv /\ [ProofNext]_proofVars => SubscriptionInv'
  BY CreateListenTokenKeepsSubscription, SubscribeKeepsSubscription,
     UnsubscribeKeepsSubscription, RestKeepsSubscription, WorldKeepsSubscription
     DEF ProofNext, Script
<1> QED
  BY <1>1, <1>2, FlagsInvHolds, PTL DEF ProofSpec

LEMMA StepKeepsClosed ==
    ASSUME ClosedInv, FlagsInv, [ProofNext]_proofVars
    PROVE  ClosedInv'
<1>1. CASE FullResync
  <2>1. stage = "resync" /\ verdict' = verdict /\ verdict = "FAILED"
    BY <1>1 DEF FullResync, reportVars, ClosedInv
  <2>2. \/ stage' = "disconnect" /\ baseline' \in {1, 2}
        \/ stage' = "end"
    BY <1>1 DEF FullResync, ApplyRestSnapshot, NextBaseline
  <2> QED
    BY <2>1, <2>2 DEF ClosedInv
<1>2. CASE OnWsDisconnect
  BY <1>2 DEF OnWsDisconnect, MarkStale, Mark, ClosedInv
<1>3. CASE Verdict
  <2>1. verified = Required /\ stage = "verdict"
    BY <1>3, FlagsByStage DEF Verdict
  <2> QED
    BY <1>3, <2>1 DEF Verdict, ClosedInv, storeVars, exposed
<1>4. CASE Unsubscribe
  BY <1>4 DEF Unsubscribe, ClosedInv
<1>5. CASE CallSucceeds \/ ListSymbols
  BY <1>5 DEF CallSucceeds, ListSymbols, ClosedInv, After
<1>6. CASE CheckCredentials \/ CallFails \/ CreateListenToken \/ Subscribe \/ Poll
           \/ ReadFinalState
  BY <1>6 DEF CheckCredentials, CallFails, CreateListenToken, Subscribe, Poll,
              ReadFinalState, ClosedInv, After, reportVars
<1>7. ASSUME \/ \E c \in Stream!Sockets : Thread(c) \/ Exchange(c)
             \/ UNCHANGED proofVars
      PROVE  ClosedInv'
  <2>1. UNCHANGED <<storeVars, stage, verified, verdict>>
    BY <1>7 DEF Thread, Exchange, proofVars, reportVars
  <2> QED
    BY <2>1 DEF ClosedInv, storeVars, exposed
<1> QED
  BY <1>1, <1>2, <1>3, <1>4, <1>5, <1>6, <1>7 DEF ProofNext, Script

(***************************************************************************)
(* What VERIFIED vouches for, for every account and order the exchange may *)
(* report (p0_runtime_proof.py:224-237).                                   *)
(***************************************************************************)
THEOREM VerifiedVouches == ProofSpec => []VerifiedMeans
<1>1. ProofInit => ClosedInv
  BY DEF ProofInit, ClosedInv
<1>2. ClosedInv /\ FlagsInv /\ [ProofNext]_proofVars => ClosedInv'
  BY StepKeepsClosed
<1>3. ClosedInv /\ SubscriptionInv => VerifiedMeans
  <2> SUFFICES ASSUME ClosedInv, SubscriptionInv PROVE VerifiedMeans
    OBVIOUS
  <2>1. "private_ws" \in Required
    BY DEF Required
  <2>2. verdict = "VERIFIED" => \E c \in Stream!Sockets :
                server[c] # "unasked" /\ keyed[c] \in 1 .. issued
    BY <2>1, OneSocket DEF ClosedInv, SubscriptionInv, Asked
  <2> QED
    BY <2>2 DEF ClosedInv, SubscriptionInv, VerifiedMeans, IsReadyForExecution,
                BalancesForRisk
<1> QED
  BY <1>1, <1>2, <1>3, FlagsInvHolds, SubscriptionInvHolds, PTL DEF ProofSpec

(***************************************************************************)
(* The script uses the store as the store's specification says, so that    *)
(* what is proved of the store holds of the script's: it shows nothing but *)
(* what REST has answered, and nothing after the disconnect.               *)
(***************************************************************************)
THEOREM ScriptImplementsStore == ProofSpec => StoreSpec
<1>1. ProofInit => StoreInit
  BY DEF ProofInit
<1>2. [ProofNext]_proofVars => [StoreNext]_storeVars
  <2>1. CASE FullResync \/ OnWsDisconnect
    BY <2>1 DEF FullResync, OnWsDisconnect, StoreNext
  <2>2. ASSUME \/ CheckCredentials \/ CallSucceeds \/ ListSymbols \/ CallFails
               \/ CreateListenToken \/ Subscribe \/ Poll \/ ReadFinalState \/ Unsubscribe
               \/ Verdict \/ UNCHANGED proofVars
               \/ \E c \in Stream!Sockets : Thread(c) \/ Exchange(c)
        PROVE  UNCHANGED storeVars
    BY <2>2 DEF CheckCredentials, CallSucceeds, ListSymbols, CallFails, CreateListenToken,
                Subscribe, Poll, ReadFinalState, Unsubscribe, Verdict, Thread, Exchange,
                proofVars
  <2> QED
    BY <2>1, <2>2 DEF ProofNext, Script
<1> QED
  BY <1>1, <1>2, PTL DEF ProofSpec, StoreSpec

\* So the script, too, sees the account through the fail-closed gate.
COROLLARY ScriptFailsClosed == ProofSpec => GateRefined /\ []ReadersAgree
  BY ScriptImplementsStore, StoreRefinesGate, ReadersAlwaysAgree, PTL

\* A step of the script or of the world is a step of the stream, or leaves it alone.
LEMMA StreamStep ==
    ASSUME SubscriptionInv, [ProofNext]_proofVars
    PROVE  [Stream!Next]_(Stream!vars)
<1>1. CASE CreateListenToken
  BY <1>1 DEF CreateListenToken, Stream!Next
<1>2. CASE Subscribe
  <2>1. stage = "subscribe" => token \in 1 .. issued
    BY DEF SubscriptionInv
  <2> QED  BY <1>2, <2>1 DEF Subscribe, Stream!Next, Stream!Subscribing
<1>3. CASE Unsubscribe
  BY <1>3 DEF Unsubscribe, Stream!Next
<1>4. ASSUME NEW c \in Stream!Sockets, Thread(c) \/ Exchange(c)
      PROVE  Stream!Next
  BY <1>4 DEF Thread, Exchange, Stream!Tokens, Stream!Next
<1>5. ASSUME \/ CheckCredentials \/ CallSucceeds \/ ListSymbols \/ CallFails \/ Poll
             \/ ReadFinalState \/ FullResync \/ OnWsDisconnect \/ Verdict
             \/ UNCHANGED proofVars
      PROVE  UNCHANGED Stream!vars
  <2>1. UNCHANGED streamVars
    BY <1>5 DEF CheckCredentials, CallSucceeds, ListSymbols, CallFails, Poll, ReadFinalState,
                FullResync, OnWsDisconnect, Verdict, proofVars
  <2> QED  BY <2>1 DEF streamVars, Stream!vars, Stream!callerVars, Stream!ownerVars,
                       Stream!exchangeVars, Stream!netVars, Stream!threadVars
<1> QED  BY <1>1, <1>2, <1>3, <1>4, <1>5 DEF ProofNext, Script

(***************************************************************************)
(* The script uses the stream as the stream's specification says: it       *)
(* subscribes once, with the token it was given (p0_runtime_proof.py:      *)
(* 160-199).                                                               *)
(***************************************************************************)
THEOREM ScriptImplementsStream == ProofSpec => Stream!Safety
<1>1. ProofInit => Stream!Init
  BY DEF ProofInit
<1>2. SubscriptionInv /\ [ProofNext]_proofVars => [Stream!Next]_(Stream!vars)
  BY StreamStep
<1> QED  BY <1>1, <1>2, SubscriptionInvHolds, PTL DEF ProofSpec, Stream!Safety
=============================================================================
