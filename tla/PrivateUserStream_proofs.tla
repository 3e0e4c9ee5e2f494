----------------------- MODULE PrivateUserStream_proofs -----------------------
(***************************************************************************)
(* The private user stream: for every number of tokens and sockets, every  *)
(* kind of message on_event raises for, an owner that undoes a subscription*)
(* before the next or does not, and with or without other callers.         *)
(***************************************************************************)
EXTENDS PrivateUserStream, TLAPS

(***************************************************************************)
(* The types, with what a call of the owner under way has still to its     *)
(* credit: a token or a socket within the bounds of the model.             *)
(***************************************************************************)
TypeInv ==
    /\ TypeOK
    /\ owner = "token" => issued < MaxTokens
    /\ owner = "connect" => opened < MaxSubscriptions
    /\ owner \in {"send", "sent", "start"} => opened \in Sockets

(***************************************************************************)
(* What keeps OnlyUnsubscribeSilences: the socket a subscribe under way has*)
(* opened is the current one unless somebody has raised _stop since.       *)
(***************************************************************************)
HeardInv ==
    /\ owner \in {"send", "sent", "start"} /\ ~stop => ws = opened
    /\ OnlyUnsubscribeSilences

(***************************************************************************)
(* What keeps SubscribedHasReceiver where nobody calls in between: _stop is*)
(* cleared when subscribe begins and stays so until unsubscribe, which     *)
(* takes SUBSCRIBED away.                                                  *)
(***************************************************************************)
ReceiverInv ==
    /\ owner \in {"connect", "send", "sent", "start"} \/ state = "SUBSCRIBED" => ~stop
    /\ SubscribedHasReceiver
-----------------------------------------------------------------------------
\* The steps of a receiving thread write no variable of the owner's calls.
LEMMA ThreadKeepsTypes ==
    ASSUME TypeInv, NEW c \in Sockets, Thread(c)
    PROVE  TypeInv'
<1>0. TypeOK
  BY DEF TypeInv
<1>1. UNCHANGED <<owner, issued, opened, ws>>
  BY DEF Thread, CheckStop, TestSocket, CallRecv, Receive, RecvRaises, HandleTerminated,
         CallOnEvent, HandleError, ReportLoss, callerVars, ownerVars, exchangeVars, netVars
<1>2. TypeOK'
  <2> USE <1>0 DEF TypeOK, Go, Places, callerVars, ownerVars, exchangeVars, netVars
  <2>1. CASE CheckStop(c) \/ TestSocket(c)
    BY <2>1 DEF CheckStop, TestSocket
  <2>2. CASE CallRecv(c) \/ RecvRaises(c)
    BY <2>2 DEF CallRecv, RecvRaises
  <2>3. CASE Receive(c)
    <3>1. sock[c] \in Sockets \cup {None}
      OBVIOUS
    <3>2. PICK k \in Sent(sock[c]) :
             /\ msg' = [msg EXCEPT ![c] = k]
             /\ server' = IF k \in {"refusal", "terminated"}
                          THEN [server EXCEPT ![sock[c]] = "silent"] ELSE server
      BY <2>3 DEF Receive
    <3>3. k \in Kinds
      BY <3>2 DEF Sent, Kinds
    <3>4. server' \in [Sockets -> {"unasked", "asked", "accepted", "refused", "silent"}]
      BY <3>2
    <3>5. msg' \in [Sockets -> Kinds \cup {None}]
      BY <3>2, <3>3
    <3> QED
      BY <2>3, <3>4, <3>5 DEF Receive
  <2>4. CASE HandleTerminated(c) \/ ReportLoss(c)
    BY <2>4 DEF HandleTerminated, ReportLoss, States
  <2>5. CASE CallOnEvent(c) \/ HandleError(c)
    BY <2>5 DEF CallOnEvent, HandleError
  <2> QED
    BY <2>1, <2>2, <2>3, <2>4, <2>5 DEF Thread
<1> QED
  BY <1>1, <1>2 DEF TypeInv

\* The owner's calls.
LEMMA OwnerKeepsTypes ==
    ASSUME TypeInv,
           \/ RequestToken \/ TokenIssued \/ TokenRefused
           \/ \E t \in 1 .. issued : BeginSubscribe(t)
           \/ Subscribing \/ Unsubscribe \/ MarkUnsupported
           \/ \E s \in ForceStates : ForceState(s)
    PROVE  TypeInv'
<1> USE DEF TypeInv, TypeOK, States, callerVars, ownerVars, exchangeVars, netVars, threadVars
<1>0. issued \in Nat /\ opened \in Nat
  OBVIOUS
<1>1. CASE RequestToken
  BY <1>1 DEF RequestToken
<1>2. CASE TokenIssued
  <2>1. issued' = issued + 1 /\ issued' \in Tokens /\ issued' \in 0 .. MaxTokens
    BY <1>0, <1>2, PrivateAssumption DEF TokenIssued, Tokens
  <2>2. expired' \subseteq 1 .. issued'
    <3>1. \A t \in expired : t \in 1 .. issued + 1
      BY <1>0
    <3> QED
      BY <1>2, <2>1, <3>1 DEF TokenIssued
  <2> QED
    BY <1>2, <2>1, <2>2 DEF TokenIssued
<1>3. CASE TokenRefused
  BY <1>3 DEF TokenRefused
<1>4. ASSUME NEW t \in 1 .. issued, BeginSubscribe(t)
      PROVE  TypeInv'
  <2>1. t \in Tokens
    BY <1>0, PrivateAssumption DEF Tokens
  <2> QED
    BY <1>4, <2>1 DEF BeginSubscribe
<1>5. CASE OpenSocket
  <2>1. /\ opened' = opened + 1 /\ opened' \in Sockets /\ opened' \in 0 .. MaxSubscriptions
        /\ ws' = opened'
    BY <1>0, <1>5, PrivateAssumption DEF OpenSocket, Sockets
  <2>2. up' \subseteq 1 .. opened'
    <3>1. \A c \in up \cup {opened + 1} : c \in 1 .. opened + 1
      BY <1>0
    <3> QED
      BY <1>5, <2>1, <3>1 DEF OpenSocket
  <2> QED
    BY <1>5, <2>1, <2>2 DEF OpenSocket
<1>6. CASE SendRequest
  <2>1. server' \in [Sockets -> {"unasked", "asked", "accepted", "refused", "silent"}]
    BY <1>6 DEF SendRequest
  <2>2. keyed' \in [Sockets -> Tokens \cup {None}]
    BY <1>6 DEF SendRequest
  <2> QED
    BY <1>6, <2>1, <2>2 DEF SendRequest
<1>7. CASE DeclareSubscribed
  BY <1>7 DEF DeclareSubscribed
<1>8. CASE StartThread
  BY <1>8 DEF StartThread, Places
<1>9. CASE SubscribeFails
  BY <1>9 DEF SubscribeFails
<1>10. CASE Unsubscribe
  BY <1>10 DEF Unsubscribe
<1>11. CASE MarkUnsupported
  BY <1>11 DEF MarkUnsupported
<1>12. ASSUME NEW s \in ForceStates, ForceState(s)
       PROVE  TypeInv'
  BY <1>12 DEF ForceState
<1> QED
  BY <1>1, <1>2, <1>3, <1>4, <1>5, <1>6, <1>7, <1>8, <1>9, <1>10, <1>11, <1>12
     DEF Subscribing

\* The types, and a socket for whoever is about to use one.
LEMMA TypeInvHolds == Safety => []TypeInv
<1>1. ASSUME Init
      PROVE  TypeInv
  <2>1. /\ issued \in 0 .. MaxTokens /\ opened \in 0 .. MaxSubscriptions
        /\ expired \subseteq 1 .. issued /\ up \subseteq 1 .. opened
    BY <1>1, PrivateAssumption DEF Init
  <2>2. /\ server \in [Sockets -> {"unasked", "asked", "accepted", "refused", "silent"}]
        /\ keyed \in [Sockets -> Tokens \cup {None}]
        /\ pc \in [Sockets -> Places]
        /\ sock \in [Sockets -> Sockets \cup {None}]
        /\ msg \in [Sockets -> Kinds \cup {None}]
    BY <1>1 DEF Init, Places
  <2> QED
    BY <1>1, <2>1, <2>2 DEF Init, TypeInv, TypeOK, States
<1>2. TypeInv /\ [Next]_vars => TypeInv'
  <2> SUFFICES ASSUME TypeInv, [Next]_vars
               PROVE  TypeInv'
    OBVIOUS
  <2>1. ASSUME NEW c \in Sockets, Answer(c)
        PROVE  TypeInv'
    BY <2>1 DEF Answer, TypeInv, TypeOK, callerVars, ownerVars, netVars, threadVars
  <2>2. ASSUME NEW t \in Tokens, Expire(t)
        PROVE  TypeInv'
    BY <2>2 DEF Expire, TypeInv, TypeOK, callerVars, ownerVars, netVars, threadVars
  <2>3. ASSUME NEW c \in Sockets, PeerCloses(c)
        PROVE  TypeInv'
    BY <2>3 DEF PeerCloses, TypeInv, TypeOK, callerVars, ownerVars, exchangeVars, threadVars
  <2>4. ASSUME NEW c \in Sockets, Thread(c)
        PROVE  TypeInv'
    BY <2>4, ThreadKeepsTypes
  <2>5. CASE UNCHANGED vars
    BY <2>5 DEF vars, TypeInv, TypeOK, callerVars, ownerVars, exchangeVars, netVars, threadVars
  <2> QED
    BY <2>1, <2>2, <2>3, <2>4, <2>5, OwnerKeepsTypes DEF Next
<1> QED
  BY <1>1, <1>2, PTL DEF Safety

\* Type correctness of the private stream, whether its threads are scheduled or not.
THEOREM PrivateTypes == Safety => []TypeOK
<1>1. TypeInv => TypeOK
  BY DEF TypeInv
<1> QED
  BY <1>1, TypeInvHolds, PTL
-----------------------------------------------------------------------------
LEMMA ThreadKeepsHeard ==
    ASSUME TypeOK, HeardInv, NEW c \in Sockets, Thread(c)
    PROVE  HeardInv'
<1> USE DEF HeardInv, OnlyUnsubscribeSilences, TypeOK, Go, callerVars, ownerVars, netVars
<1>1. CASE CheckStop(c)
  BY <1>1 DEF CheckStop
<1>2. CASE TestSocket(c)
  BY <1>2 DEF TestSocket
<1>3. CASE CallRecv(c)
  BY <1>3 DEF CallRecv
<1>4. CASE Receive(c) \/ RecvRaises(c)
  BY <1>4 DEF Receive, RecvRaises
<1>5. CASE HandleTerminated(c)
  BY <1>5 DEF HandleTerminated
<1>6. CASE CallOnEvent(c)
  BY <1>6 DEF CallOnEvent
<1>7. CASE HandleError(c)
  BY <1>7 DEF HandleError
<1>8. CASE ReportLoss(c)
  BY <1>8 DEF ReportLoss
<1> QED
  BY <1>1, <1>2, <1>3, <1>4, <1>5, <1>6, <1>7, <1>8 DEF Thread

LEMMA StepKeepsHeard ==
    ASSUME "SUBSCRIBED" \notin ForceStates, TypeInv, HeardInv, [Next]_vars
    PROVE  HeardInv'
<1> USE DEF HeardInv, OnlyUnsubscribeSilences
<1>0. TypeOK /\ None \notin Sockets
  BY PrivateAssumption DEF TypeInv, Sockets
<1>1. CASE RequestToken \/ TokenIssued \/ TokenRefused
  BY <1>1 DEF RequestToken, TokenIssued, TokenRefused, threadVars, netVars
<1>2. ASSUME NEW t \in 1 .. issued, BeginSubscribe(t)
      PROVE  HeardInv'
  BY <1>2 DEF BeginSubscribe
<1>3. CASE OpenSocket
  BY <1>3 DEF OpenSocket
<1>4. CASE SendRequest
  BY <1>4 DEF SendRequest, callerVars, netVars
<1>5. CASE DeclareSubscribed
  BY <1>5 DEF DeclareSubscribed, netVars
<1>6. CASE StartThread
  <2>1. opened \in Sockets /\ pc'[opened] = "check"
    BY <1>0, <1>6 DEF StartThread, TypeInv, TypeOK
  <2>2. owner' = "idle" /\ UNCHANGED <<stop, ws>> /\ (~stop => ws = opened)
    BY <1>6 DEF StartThread, callerVars
  <2> QED
    BY <1>0, <2>1, <2>2
<1>7. CASE SubscribeFails \/ Unsubscribe
  BY <1>7 DEF SubscribeFails, Unsubscribe, netVars
<1>8. CASE MarkUnsupported \/ \E s \in ForceStates : ForceState(s)
  BY <1>8 DEF MarkUnsupported, ForceState, ownerVars, netVars
<1>9. ASSUME NEW c \in Sockets, Answer(c) \/ PeerCloses(c)
      PROVE  HeardInv'
  BY <1>9 DEF Answer, PeerCloses, callerVars, ownerVars, netVars, threadVars
<1>10. ASSUME NEW t \in Tokens, Expire(t)
       PROVE  HeardInv'
  BY <1>10 DEF Expire, callerVars, ownerVars, netVars, threadVars
<1>11. ASSUME NEW c \in Sockets, Thread(c)
       PROVE  HeardInv'
  BY <1>0, <1>11, ThreadKeepsHeard
<1>12. CASE UNCHANGED vars
  BY <1>12 DEF vars, callerVars, ownerVars, netVars, threadVars
<1> QED
  BY <1>1, <1>2, <1>3, <1>4, <1>5, <1>6, <1>7, <1>8, <1>9, <1>10, <1>11, <1>12
     DEF Next, Subscribing

LEMMA HeardInvHolds ==
    ASSUME "SUBSCRIBED" \notin ForceStates
    PROVE  Safety => []HeardInv
<1>1. Init => HeardInv
  BY DEF Init, HeardInv, OnlyUnsubscribeSilences
<1>2. TypeInv /\ HeardInv /\ [Next]_vars => HeardInv'
  BY StepKeepsHeard
<1> QED
  BY <1>1, <1>2, TypeInvHolds, PTL DEF Safety

(***************************************************************************)
(* Whichever threads call unsubscribe, mark_unsupported and force_state in *)
(* the midst of a subscribe: while _stop is down a SUBSCRIBED has a thread *)
(* that can notice its loss (private_ws.py:96-139, 153-178), as long as    *)
(* nobody forces the state to SUBSCRIBED.                                  *)
(***************************************************************************)
THEOREM SilencedByUnsubscribeOnly ==
    ASSUME "SUBSCRIBED" \notin ForceStates
    PROVE  Safety => []OnlyUnsubscribeSilences
<1>1. HeardInv => OnlyUnsubscribeSilences
  BY DEF HeardInv
<1> QED
  BY <1>1, HeardInvHolds, PTL
-----------------------------------------------------------------------------
\* A thread ends only when told to stop, when there is no socket, or with a
\* state other than SUBSCRIBED; and it never writes SUBSCRIBED.
LEMMA ThreadKeepsReceiver ==
    ASSUME TypeOK, ReceiverInv, NEW c \in Sockets, Thread(c)
    PROVE  ReceiverInv'
<1> USE DEF ReceiverInv, SubscribedHasReceiver, TypeOK, Go, callerVars, ownerVars
<1>1. CASE CheckStop(c)
  BY <1>1 DEF CheckStop
<1>2. CASE TestSocket(c)
  BY <1>2 DEF TestSocket
<1>3. CASE CallRecv(c)
  BY <1>3 DEF CallRecv
<1>4. CASE Receive(c) \/ RecvRaises(c)
  BY <1>4 DEF Receive, RecvRaises
<1>5. CASE HandleTerminated(c)
  BY <1>5 DEF HandleTerminated
<1>6. CASE CallOnEvent(c)
  BY <1>6 DEF CallOnEvent
<1>7. CASE HandleError(c)
  BY <1>7 DEF HandleError
<1>8. CASE ReportLoss(c)
  BY <1>8 DEF ReportLoss
<1> QED
  BY <1>1, <1>2, <1>3, <1>4, <1>5, <1>6, <1>7, <1>8 DEF Thread

LEMMA StepKeepsReceiver ==
    ASSUME ~OtherCallers, "SUBSCRIBED" \notin ForceStates,
           TypeInv, HeardInv, ReceiverInv, [Next]_vars
    PROVE  ReceiverInv'
<1> USE DEF ReceiverInv, SubscribedHasReceiver
<1>0. TypeOK /\ None \notin Sockets
  BY PrivateAssumption DEF TypeInv, Sockets
<1>a. owner \in {"send", "sent", "start"} => ws = opened /\ ws \in Sockets
  BY DEF HeardInv, TypeInv
<1>1. CASE RequestToken \/ TokenIssued \/ TokenRefused
  BY <1>1 DEF RequestToken, TokenIssued, TokenRefused, threadVars
<1>2. ASSUME NEW t \in 1 .. issued, BeginSubscribe(t)
      PROVE  ReceiverInv'
  BY <1>2 DEF BeginSubscribe, threadVars
<1>3. CASE OpenSocket
  <2>1. ws' # None
    BY <1>3, PrivateAssumption DEF OpenSocket, TypeInv, TypeOK
  <2> QED
    BY <1>3, <2>1 DEF OpenSocket
<1>4. CASE SendRequest
  BY <1>4 DEF SendRequest, callerVars
<1>5. CASE DeclareSubscribed
  BY <1>0, <1>a, <1>5 DEF DeclareSubscribed
<1>6. CASE StartThread
  <2>1. ws \in Sockets /\ ws' = ws /\ pc'[ws] = "check"
    BY <1>0, <1>a, <1>6 DEF StartThread, TypeOK, callerVars
  <2> QED
    BY <1>0, <1>6, <2>1 DEF StartThread, callerVars
<1>7. CASE SubscribeFails \/ Unsubscribe
  BY <1>7 DEF SubscribeFails, Unsubscribe, MayCall, ownerVars
<1>8. CASE MarkUnsupported \/ \E s \in ForceStates : ForceState(s)
  BY <1>8 DEF MarkUnsupported, ForceState, MayCall, ownerVars
<1>9. ASSUME NEW c \in Sockets, Answer(c) \/ PeerCloses(c)
      PROVE  ReceiverInv'
  BY <1>9 DEF Answer, PeerCloses, exchangeVars, callerVars, ownerVars, threadVars
<1>10. ASSUME NEW t \in Tokens, Expire(t)
       PROVE  ReceiverInv'
  BY <1>10 DEF Expire, callerVars, ownerVars, threadVars
<1>11. ASSUME NEW c \in Sockets, Thread(c)
       PROVE  ReceiverInv'
  BY <1>0, <1>11, ThreadKeepsReceiver
<1>12. CASE UNCHANGED vars
  BY <1>12 DEF vars, callerVars, ownerVars, threadVars
<1> QED
  BY <1>1, <1>2, <1>3, <1>4, <1>5, <1>6, <1>7, <1>8, <1>9, <1>10, <1>11, <1>12
     DEF Next, Subscribing

(***************************************************************************)
(* While the state is SUBSCRIBED there is a thread that can notice the     *)
(* loss, or one about to be started, although subscribe writes the state   *)
(* first and neither closes the former socket nor waits for its thread     *)
(* (private_ws.py:96-117, 153-178), as long as nobody forces the state to  *)
(* SUBSCRIBED and nobody but the owner calls while subscribe is under way. *)
(* The second hypothesis cannot be spared: an unsubscribe between the      *)
(* opening of the socket and the writing of SUBSCRIBED leaves a SUBSCRIBED *)
(* with no socket and a thread that ends at once.                          *)
(***************************************************************************)
THEOREM SubscribedAlwaysHeard ==
    ASSUME ~OtherCallers, "SUBSCRIBED" \notin ForceStates
    PROVE  Safety => []SubscribedHasReceiver
<1>1. Init => ReceiverInv
  BY DEF Init, ReceiverInv, SubscribedHasReceiver
<1>2. TypeInv /\ HeardInv /\ ReceiverInv /\ [Next]_vars => ReceiverInv'
  BY StepKeepsReceiver
<1>3. ReceiverInv => SubscribedHasReceiver
  BY DEF ReceiverInv
<1> QED
  BY <1>1, <1>2, <1>3, TypeInvHolds, HeardInvHolds, PTL DEF Safety
=============================================================================
