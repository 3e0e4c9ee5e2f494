---------------------------- MODULE PublicMarketWS ----------------------------
(***************************************************************************)
(* TokocryptoPublicMarketWS (exchange/tokocrypto/websocket/public_ws.py):  *)
(* the market-data socket and its receiving threads.                       *)
(*                                                                         *)
(* connect and disconnect hold the lock throughout.  A receiving thread    *)
(* takes it only to write; it reads _stop and _ws, which all threads share,*)
(* without it, and nobody waits for it to end.  So a thread of an earlier  *)
(* connection can outlive it, and go on with the next connection's socket. *)
(* connect and mark_message_received can be called at any time: with       *)
(* CarefulCaller the owner connects only when the state is not CONNECTED   *)
(* and marks a message only when there is a socket.                        *)
(***************************************************************************)
EXTENDS Naturals

CONSTANTS
    MaxConnections,  \* bound of the model: connections that are opened
    Streams,         \* the market streams one can subscribe to
    ForceStates,     \* the states force_state is called with
    CarefulCaller,   \* TRUE: no connect while CONNECTED, no message marked without a socket
    None             \* Python's None

Connections == 1 .. MaxConnections

States == {"DISCONNECTED", "CONNECTED", "STALE", "UNKNOWN"}

ASSUME PublicAssumption ==
    /\ MaxConnections \in Nat
    /\ ForceStates \subseteq States
    /\ CarefulCaller \in BOOLEAN
    /\ None \notin Nat

VARIABLES
    state,     \* _state (CONNECTING is left before the lock is released)
    lastMsg,   \* _last_msg_ms: None, "fresh", or "old" past the stale limit
    ws,        \* _ws: the connection it belongs to, or None
    stop,      \* _stop
    subscriptions,  \* _subscriptions
    asked,     \* the streams the server of each connection was asked for
    opened,    \* number of connections opened so far
    up,        \* the connections whose socket is not closed
    pc,        \* where the receiving thread of each connection is
    sock,      \* the socket it called recv on
    lastFrom   \* history: the connection the latest message came from

wsVars == <<state, lastMsg, ws, stop>>
netVars == <<opened, up>>
subVars == <<subscriptions, asked>>
threadVars == <<pc, sock>>
vars == <<wsVars, subVars, netVars, threadVars, lastFrom>>

Init ==
    /\ state = "DISCONNECTED"
    /\ lastMsg = None
    /\ ws = None
    /\ stop = FALSE
    /\ subscriptions = {}
    /\ asked = [c \in Connections |-> {}]
    /\ opened = 0
    /\ up = {}
    /\ pc = [c \in Connections |-> "unborn"]
    /\ sock = [c \in Connections |-> None]
    /\ lastFrom = None
-----------------------------------------------------------------------------
\* connect: the former socket, if any, is neither closed nor waited for.
Connect ==
    /\ CarefulCaller => state # "CONNECTED"
    /\ opened < MaxConnections
    /\ opened' = opened + 1
    /\ ws' = opened'
    /\ up' = up \cup {opened'}
    /\ state' = "CONNECTED"
    /\ stop' = FALSE
    /\ pc' = [pc EXCEPT ![opened'] = "check"]
    /\ UNCHANGED <<subVars, lastMsg, sock, lastFrom>>

\* Mutant of ConnectFails: the state is not reset.
ConnectFailsConnecting ==
    /\ CarefulCaller => state # "CONNECTED"
    /\ ws' = None
    /\ state' = "CONNECTING"
    /\ UNCHANGED <<subVars, lastMsg, stop, netVars, threadVars, lastFrom>>

ConnectFails ==
    /\ CarefulCaller => state # "CONNECTED"
    /\ ws' = None
    /\ state' = "DISCONNECTED"
    /\ UNCHANGED <<subVars, lastMsg, stop, netVars, threadVars, lastFrom>>

Disconnect ==
    /\ stop' = TRUE
    /\ up' = up \ {ws}
    /\ ws' = None
    /\ state' = "DISCONNECTED"
    /\ lastMsg' = None
    /\ UNCHANGED <<subVars, opened, threadVars, lastFrom>>

\* subscribe: raises, and leaves no trace, when not connected or send fails.
Subscribe(streams) ==
    /\ state = "CONNECTED"
    /\ ws \in up
    /\ asked' = [asked EXCEPT ![ws] = @ \cup streams]
    /\ subscriptions' = subscriptions \cup streams
    /\ UNCHANGED <<wsVars, netVars, threadVars, lastFrom>>

\* Mutant of Unsubscribe: the list is shortened whether or not there is a connection.
UnsubscribeAnyway(streams) ==
    /\ asked' = IF state = "CONNECTED" /\ ws \in up
                THEN [asked EXCEPT ![ws] = @ \ streams] ELSE asked
    /\ subscriptions' = subscriptions \ streams
    /\ UNCHANGED <<wsVars, netVars, threadVars, lastFrom>>

\* unsubscribe: an error of send is ignored, and the list shortened.
Unsubscribe(streams) ==
    /\ state = "CONNECTED"
    /\ ws # None
    /\ asked' = IF ws \in up THEN [asked EXCEPT ![ws] = @ \ streams] ELSE asked
    /\ subscriptions' = subscriptions \ streams
    /\ UNCHANGED <<wsVars, netVars, threadVars, lastFrom>>

ForceState(s) ==
    /\ state' = s
    /\ lastMsg' = IF s = "DISCONNECTED" THEN None ELSE lastMsg
    /\ UNCHANGED <<subVars, ws, stop, netVars, threadVars, lastFrom>>

\* mark_message_received, which the receiving loop repeats inline.
MarkMessageReceived ==
    /\ lastMsg' = "fresh"
    /\ state' = IF state = "STALE" THEN "CONNECTED" ELSE state

\* The owner vouches for a message on the connection in use.
OwnerMarksMessage ==
    /\ CarefulCaller => ws # None
    /\ MarkMessageReceived
    /\ lastFrom' = ws
    /\ UNCHANGED <<subVars, ws, stop, netVars, threadVars>>

\* The exchange or the network closes a socket (external).
PeerCloses(c) ==
    /\ c \in up
    /\ up' = up \ {c}
    /\ UNCHANGED <<subVars, wsVars, opened, threadVars, lastFrom>>

\* No message for longer than the stale limit.
Age ==
    /\ lastMsg = "fresh"
    /\ lastMsg' = "old"
    /\ UNCHANGED <<subVars, state, ws, stop, netVars, threadVars, lastFrom>>
-----------------------------------------------------------------------------
(***************************************************************************)
(* _recv_loop of connection c.  A thread at "check" is at the head of the  *)
(* loop, or still in the callback of the message before.                   *)
(***************************************************************************)
Go(c, place) == pc' = [pc EXCEPT ![c] = place]

CheckStop(c) ==
    /\ pc[c] = "check"
    /\ Go(c, IF stop THEN "done" ELSE "test")
    /\ UNCHANGED <<subVars, wsVars, netVars, sock, lastFrom>>

TestSocket(c) ==
    /\ pc[c] = "test"
    /\ Go(c, IF ws = None THEN "done" ELSE "load")
    /\ UNCHANGED <<subVars, wsVars, netVars, sock, lastFrom>>

\* self._ws is read again; None has no recv.
CallRecv(c) ==
    /\ pc[c] = "load"
    /\ Go(c, IF ws = None THEN "except" ELSE "wait")
    /\ sock' = [sock EXCEPT ![c] = ws]
    /\ UNCHANGED <<subVars, wsVars, netVars, lastFrom>>

Receive(c) ==
    /\ pc[c] = "wait"
    /\ sock[c] \in up
    /\ Go(c, "got")
    /\ UNCHANGED <<subVars, wsVars, netVars, sock, lastFrom>>

\* Mutant of RecvRaises: the loop goes on after any error.
RecvIgnored(c) ==
    /\ pc[c] = "wait"
    /\ Go(c, "check")
    /\ UNCHANGED <<subVars, wsVars, netVars, sock, lastFrom>>

\* recv raises: closed, one second of silence, or two threads in recv at once.
RecvRaises(c) ==
    /\ pc[c] = "wait"
    /\ Go(c, "except")
    /\ UNCHANGED <<subVars, wsVars, netVars, sock, lastFrom>>

RecordMessage(c) ==
    /\ pc[c] = "got"
    /\ MarkMessageReceived
    /\ lastFrom' = sock[c]
    /\ Go(c, "check")
    /\ UNCHANGED <<subVars, ws, stop, netVars, sock>>

\* Mutant of HandleError: the thread ends without a word.
HandleErrorSilently(c) ==
    /\ pc[c] = "except"
    /\ Go(c, "done")
    /\ UNCHANGED <<subVars, wsVars, netVars, sock, lastFrom>>

HandleError(c) ==
    /\ pc[c] = "except"
    /\ Go(c, IF stop THEN "done" ELSE "report")
    /\ UNCHANGED <<subVars, wsVars, netVars, sock, lastFrom>>

ReportLoss(c) ==
    /\ pc[c] = "report"
    /\ state' = "DISCONNECTED"
    /\ Go(c, "done")
    /\ UNCHANGED <<subVars, lastMsg, ws, stop, netVars, sock, lastFrom>>

Thread(c) ==
    \/ CheckStop(c) \/ TestSocket(c) \/ CallRecv(c)
    \/ Receive(c) \/ RecvRaises(c) \/ RecordMessage(c)
    \/ HandleError(c) \/ ReportLoss(c)

Next ==
    \/ Connect
    \/ ConnectFails
    \/ Disconnect
    \/ \E streams \in SUBSET Streams \ {{}} : Subscribe(streams) \/ Unsubscribe(streams)
    \/ \E s \in ForceStates : ForceState(s)
    \/ OwnerMarksMessage
    \/ Age
    \/ \E c \in Connections : PeerCloses(c) \/ Thread(c)

Safety == Init /\ [][Next]_vars

(***************************************************************************)
(* Threads run: recv returns or raises within its timeout of one second,   *)
(* and the callbacks are assumed to return.                                *)
(***************************************************************************)
Spec == Safety /\ \A c \in Connections : WF_vars(Thread(c))
-----------------------------------------------------------------------------
ConnectionState == IF state = "CONNECTED" /\ lastMsg = "old" THEN "STALE" ELSE state

IsReadyForExecution == ConnectionState = "CONNECTED" /\ lastMsg = "fresh"

Places == {"unborn", "check", "test", "load", "wait", "got", "except", "report", "done"}

TypeOK ==
    /\ state \in States
    /\ lastMsg \in {None, "fresh", "old"}
    /\ ws \in Connections \cup {None}
    /\ stop \in BOOLEAN
    /\ subscriptions \subseteq Streams
    /\ asked \in [Connections -> SUBSET Streams]
    /\ opened \in 0 .. MaxConnections
    /\ up \subseteq 1 .. opened
    /\ pc \in [Connections -> Places]
    /\ sock \in [Connections -> Connections \cup {None}]
    /\ lastFrom \in Connections \cup {None}

(***************************************************************************)
(* Nobody polls the socket but its thread, so a state that says CONNECTED  *)
(* is only as good as that thread: whatever earlier connections left       *)
(* behind, while the state is CONNECTED the thread of the current          *)
(* connection has not ended.                                               *)
(***************************************************************************)
ConnectedHasReceiver ==
    state = "CONNECTED" => ws # None /\ pc[ws] \notin {"unborn", "done"}

(***************************************************************************)
(* "Fail-closed on disconnect" (docs/CONTRACT_LOCK_P0.md:130): a connection*)
(* whose socket is closed does not stay CONNECTED.                         *)
(***************************************************************************)
DeadSocketNoticed ==
    state = "CONNECTED" /\ ws \notin up ~> state # "CONNECTED" \/ ws \in up

(***************************************************************************)
(* Whatever the live socket delivers was subscribed to and not taken back: *)
(* through losses, reconnects and errors of send, the list of subscriptions*)
(* never falls behind what the server was asked for (public_ws.py:78-98).  *)
(* The converse fails: a new connection is asked for nothing.              *)
(***************************************************************************)
NothingUnasked == ws \in up => asked[ws] \subseteq subscriptions

(***************************************************************************)
(* "Reconnect alone does NOT reopen execution gate" (public_market_ws.py:  *)
(* 6): ready only once the current connection has delivered a message.     *)
(***************************************************************************)
NoStaleReopen == IsReadyForExecution => lastFrom = ws
=============================================================================
