-------------------------- MODULE PrivateUserStream --------------------------
(***************************************************************************)
(* TokocryptoPrivateUserStream (exchange/tokocrypto/websocket/             *)
(* private_ws.py): listen token, subscription and receiving threads.       *)
(*                                                                         *)
(* Unlike the public socket, create_listen_token and subscribe release the *)
(* lock around their network calls, so both are several steps here.  One   *)
(* owner at a time makes these two calls; unsubscribe, mark_unsupported and*)
(* force_state, which take the lock and nothing else, may come from other  *)
(* threads in the midst of them (OtherCallers).  The loop of a receiving   *)
(* thread reads _stop and _ws without the lock, and subscribe neither      *)
(* closes the former socket nor waits for the former thread.               *)
(***************************************************************************)
EXTENDS Naturals, FiniteSets

CONSTANTS
    MaxTokens,         \* bound of the model: listen tokens issued
    MaxSubscriptions,  \* bound of the model: sockets opened
    RaisingKinds,      \* the kinds of message on_event raises for
    CarefulCaller,     \* TRUE: no subscribe before the former one is undone
    OtherCallers,      \* TRUE: others call while a call of the owner is under way
    ForceStates,       \* the states force_state is called with
    None               \* Python's None

Tokens == 1 .. MaxTokens
Sockets == 1 .. MaxSubscriptions

\* What the server sends: the acceptance or refusal of a subscription, an
\* account event, the end of the stream.
Kinds == {"ack", "refusal", "event", "terminated"}

\* PrivateStreamState without STALE, which only force_state could write.
States == {"DISCONNECTED", "TOKEN_REQUESTED", "SUBSCRIBED", "TERMINATED",
           "UNSUPPORTED", "UNKNOWN"}

ASSUME PrivateAssumption ==
    /\ MaxTokens \in Nat
    /\ ForceStates \subseteq States \cup {"STALE"}
    /\ MaxSubscriptions \in Nat
    /\ RaisingKinds \subseteq Kinds
    /\ CarefulCaller \in BOOLEAN
    /\ OtherCallers \in BOOLEAN
    /\ None \notin Nat

VARIABLES
    state,     \* _state
    token,     \* _token: the token, or None
    ws,        \* _ws: the socket, or None
    stop,      \* _stop
    owner,     \* where the owner's call is
    using,     \* the token of the owner's subscribe call
    issued,    \* number of tokens issued so far (exchange)
    expired,   \* the tokens that have expired (exchange)
    opened,    \* number of sockets opened so far
    up,        \* the sockets that are not closed
    server,    \* what the server made of the request on each socket
    keyed,     \* the token each socket was subscribed with
    pc,        \* where the receiving thread of each socket is
    sock,      \* the socket it is in recv on
    msg        \* the kind of message it holds

callerVars == <<state, token, ws, stop>>
ownerVars == <<owner, using>>
exchangeVars == <<issued, expired, server, keyed>>
netVars == <<opened, up>>
threadVars == <<pc, sock, msg>>
vars == <<callerVars, ownerVars, exchangeVars, netVars, threadVars>>

Init ==
    /\ state = "DISCONNECTED"
    /\ token = None
    /\ ws = None
    /\ stop = FALSE
    /\ owner = "idle"
    /\ using = None
    /\ issued = 0
    /\ expired = {}
    /\ opened = 0
    /\ up = {}
    /\ server = [c \in Sockets |-> "unasked"]
    /\ keyed = [c \in Sockets |-> None]
    /\ pc = [c \in Sockets |-> "unborn"]
    /\ sock = [c \in Sockets |-> None]
    /\ msg = [c \in Sockets |-> None]
-----------------------------------------------------------------------------
(***************************************************************************)
(* create_listen_token: the state is written, then the POST is made with   *)
(* the lock released.  An HTTP error or an answer without a token raises   *)
(* and leaves TOKEN_REQUESTED; an error code in the answer leaves UNKNOWN. *)
(***************************************************************************)
RequestToken ==
    /\ owner = "idle"
    /\ issued < MaxTokens
    /\ state' = "TOKEN_REQUESTED"
    /\ owner' = "token"
    /\ UNCHANGED <<token, ws, stop, using, exchangeVars, netVars, threadVars>>

TokenIssued ==
    /\ owner = "token"
    /\ issued' = issued + 1
    /\ token' = issued'
    /\ owner' = "idle"
    /\ UNCHANGED <<state, ws, stop, using, expired, server, keyed, netVars, threadVars>>

TokenRefused ==
    /\ owner = "token"
    /\ state' \in {state, "UNKNOWN"}
    /\ owner' = "idle"
    /\ UNCHANGED <<token, ws, stop, using, exchangeVars, netVars, threadVars>>
-----------------------------------------------------------------------------
(***************************************************************************)
(* subscribe(token).                                                       *)
(***************************************************************************)
BeginSubscribe(t) ==
    /\ owner = "idle"
    /\ opened < MaxSubscriptions
    /\ CarefulCaller => ws = None
    /\ token' = t
    /\ stop' = FALSE
    /\ using' = t
    /\ owner' = "connect"
    /\ UNCHANGED <<state, ws, exchangeVars, netVars, threadVars>>

OpenSocket ==
    /\ owner = "connect"
    /\ opened' = opened + 1
    /\ up' = up \cup {opened'}
    /\ ws' = opened'
    /\ owner' = "send"
    /\ UNCHANGED <<state, token, stop, using, exchangeVars, threadVars>>

\* The request is sent; nothing waits for the server's answer.  Without a socket
\* (None has no send), or with one that is closed, the call fails.
SendRequest ==
    /\ owner = "send"
    /\ ws \in up
    /\ server' = [server EXCEPT ![ws] = "asked"]
    /\ keyed' = [keyed EXCEPT ![ws] = using]
    /\ owner' = "sent"
    /\ UNCHANGED <<callerVars, using, issued, expired, netVars, threadVars>>

DeclareSubscribed ==
    /\ owner = "sent"
    /\ state' = "SUBSCRIBED"
    /\ owner' = "start"
    /\ UNCHANGED <<token, ws, stop, using, exchangeVars, netVars, threadVars>>

StartThread ==
    /\ owner = "start"
    /\ pc' = [pc EXCEPT ![opened] = "check"]
    /\ owner' = "idle"
    /\ using' = None
    /\ UNCHANGED <<callerVars, exchangeVars, netVars, sock, msg>>

\* Mutant of SubscribeFails: the state is left as it was.
SubscribeFailsSilently ==
    /\ owner \in {"connect", "send"}
    /\ owner' = "idle"
    /\ using' = None
    /\ UNCHANGED <<callerVars, exchangeVars, netVars, threadVars>>

\* connect or send raises; a socket already stored stays where it is.
SubscribeFails ==
    /\ owner \in {"connect", "send"}
    /\ state' = "DISCONNECTED"
    /\ owner' = "idle"
    /\ using' = None
    /\ UNCHANGED <<token, ws, stop, exchangeVars, netVars, threadVars>>

\* Nothing keeps other threads from calling while the owner's call has no lock.
MayCall == OtherCallers \/ owner = "idle"

\* unsubscribe: under the lock; errors of the socket are ignored.
Unsubscribe ==
    /\ MayCall
    /\ stop' = TRUE
    /\ up' = up \ {ws}
    /\ ws' = None
    /\ state' = "DISCONNECTED"
    /\ token' = None
    /\ UNCHANGED <<ownerVars, exchangeVars, opened, threadVars>>

MarkUnsupported ==
    /\ MayCall
    /\ state' = "UNSUPPORTED"
    /\ UNCHANGED <<token, ws, stop, ownerVars, exchangeVars, netVars, threadVars>>

ForceState(s) ==
    /\ MayCall
    /\ state' = s
    /\ UNCHANGED <<token, ws, stop, ownerVars, exchangeVars, netVars, threadVars>>

Subscribing ==
    OpenSocket \/ SendRequest \/ DeclareSubscribed \/ StartThread \/ SubscribeFails
-----------------------------------------------------------------------------
\* The exchange and the network (external).
Answer(c) ==
    /\ server[c] = "asked"
    /\ \E verdict \in {"accepted", "refused"} :
          /\ verdict = "accepted" => keyed[c] \notin expired
          /\ server' = [server EXCEPT ![c] = verdict]
    /\ UNCHANGED <<callerVars, ownerVars, issued, expired, keyed, netVars, threadVars>>

Expire(t) ==
    /\ t \in 1 .. issued \ expired
    /\ expired' = expired \cup {t}
    /\ UNCHANGED <<callerVars, ownerVars, issued, server, keyed, netVars, threadVars>>

PeerCloses(c) ==
    /\ c \in up
    /\ up' = up \ {c}
    /\ UNCHANGED <<callerVars, ownerVars, exchangeVars, opened, threadVars>>

\* What the server may send on a socket: no events once the token has expired.
\* A refusal and the end of the stream are the last it sends.
Sent(c) ==
    CASE server[c] = "accepted" /\ keyed[c] \notin expired -> {"ack", "event", "terminated"}
      [] server[c] = "accepted" /\ keyed[c] \in expired    -> {"terminated"}
      [] server[c] = "refused"                             -> {"refusal"}
      [] OTHER                                             -> {}
-----------------------------------------------------------------------------
(***************************************************************************)
(* _recv_loop of the thread started with socket c.                         *)
(***************************************************************************)
Go(c, place) == pc' = [pc EXCEPT ![c] = place]

CheckStop(c) ==
    /\ pc[c] = "check"
    /\ Go(c, IF stop THEN "done" ELSE "test")
    /\ UNCHANGED <<callerVars, ownerVars, exchangeVars, netVars, sock, msg>>

TestSocket(c) ==
    /\ pc[c] = "test"
    /\ Go(c, IF ws = None THEN "done" ELSE "load")
    /\ UNCHANGED <<callerVars, ownerVars, exchangeVars, netVars, sock, msg>>

\* self._ws is read again; None has no recv.
CallRecv(c) ==
    /\ pc[c] = "load"
    /\ Go(c, IF ws = None THEN "except" ELSE "wait")
    /\ sock' = [sock EXCEPT ![c] = ws]
    /\ UNCHANGED <<callerVars, ownerVars, exchangeVars, netVars, msg>>

Receive(c) ==
    /\ pc[c] = "wait"
    /\ sock[c] \in up
    /\ \E k \in Sent(sock[c]) :
          /\ msg' = [msg EXCEPT ![c] = k]
          /\ server' = IF k \in {"refusal", "terminated"}
                       THEN [server EXCEPT ![sock[c]] = "silent"] ELSE server
    /\ sock' = [sock EXCEPT ![c] = None]
    /\ Go(c, "got")
    /\ UNCHANGED <<callerVars, ownerVars, issued, expired, keyed, netVars>>

\* Mutant of RecvRaises: the loop goes on after any error.
RecvIgnored(c) ==
    /\ pc[c] = "wait"
    /\ sock' = [sock EXCEPT ![c] = None]
    /\ Go(c, "check")
    /\ UNCHANGED <<callerVars, ownerVars, exchangeVars, netVars, msg>>

\* recv raises: closed, one second of silence, or two threads in recv at once.
RecvRaises(c) ==
    /\ pc[c] = "wait"
    /\ sock' = [sock EXCEPT ![c] = None]
    /\ Go(c, "except")
    /\ UNCHANGED <<callerVars, ownerVars, exchangeVars, netVars, msg>>

\* The end of the stream is noted, and not passed on.
HandleTerminated(c) ==
    /\ pc[c] = "got"
    /\ msg[c] = "terminated"
    /\ state' = "TERMINATED"
    /\ msg' = [msg EXCEPT ![c] = None]
    /\ Go(c, "done")
    /\ UNCHANGED <<token, ws, stop, ownerVars, exchangeVars, netVars, sock>>

\* Anything else, answers of the server included, goes to on_event.
CallOnEvent(c) ==
    /\ pc[c] = "got"
    /\ msg[c] # "terminated"
    /\ Go(c, IF msg[c] \in RaisingKinds THEN "except" ELSE "check")
    /\ msg' = [msg EXCEPT ![c] = None]
    /\ UNCHANGED <<callerVars, ownerVars, exchangeVars, netVars, sock>>

HandleError(c) ==
    /\ pc[c] = "except"
    /\ Go(c, IF stop THEN "done" ELSE "report")
    /\ UNCHANGED <<callerVars, ownerVars, exchangeVars, netVars, sock, msg>>

\* Mutant of ReportLoss: the state becomes STALE.
ReportLossStale(c) ==
    /\ pc[c] = "report"
    /\ state' = IF state = "SUBSCRIBED" THEN "STALE" ELSE state
    /\ Go(c, "done")
    /\ UNCHANGED <<token, ws, stop, ownerVars, exchangeVars, netVars, sock, msg>>

ReportLoss(c) ==
    /\ pc[c] = "report"
    /\ state' = IF state = "SUBSCRIBED" THEN "DISCONNECTED" ELSE state
    /\ Go(c, "done")
    /\ UNCHANGED <<token, ws, stop, ownerVars, exchangeVars, netVars, sock, msg>>

Thread(c) ==
    \/ CheckStop(c) \/ TestSocket(c) \/ CallRecv(c)
    \/ Receive(c) \/ RecvRaises(c) \/ HandleTerminated(c) \/ CallOnEvent(c)
    \/ HandleError(c) \/ ReportLoss(c)

Next ==
    \/ RequestToken
    \/ TokenIssued
    \/ TokenRefused
    \/ \E t \in 1 .. issued : BeginSubscribe(t)
    \/ Subscribing
    \/ Unsubscribe
    \/ MarkUnsupported
    \/ \E s \in ForceStates : ForceState(s)
    \/ \E t \in Tokens : Expire(t)
    \/ \E c \in Sockets : Answer(c) \/ PeerCloses(c) \/ Thread(c)

Safety == Init /\ [][Next]_vars

(***************************************************************************)
(* Threads run: recv returns or raises within its timeout of one second,   *)
(* and on_event is assumed to return.  A subscribe under way goes on: its  *)
(* network calls have timeouts.  The owner need not make any call.         *)
(***************************************************************************)
Spec ==
    /\ Safety
    /\ WF_vars(Subscribing)
    /\ \A c \in Sockets : WF_vars(Thread(c))
-----------------------------------------------------------------------------
Places == {"unborn", "check", "test", "load", "wait", "got", "except", "report", "done"}

IsReadyForExecution == state = "SUBSCRIBED"

TypeOK ==
    /\ state \in States \cup ForceStates
    /\ token \in Tokens \cup {None}
    /\ ws \in Sockets \cup {None}
    /\ stop \in BOOLEAN
    /\ owner \in {"idle", "token", "connect", "send", "sent", "start"}
    /\ using \in Tokens \cup {None}
    /\ issued \in 0 .. MaxTokens
    /\ expired \subseteq 1 .. issued
    /\ opened \in 0 .. MaxSubscriptions
    /\ up \subseteq 1 .. opened
    /\ server \in [Sockets -> {"unasked", "asked", "accepted", "refused", "silent"}]
    /\ keyed \in [Sockets -> Tokens \cup {None}]
    /\ pc \in [Sockets -> Places]
    /\ sock \in [Sockets -> Sockets \cup {None}]
    /\ msg \in [Sockets -> Kinds \cup {None}]

(***************************************************************************)
(* Only a receiving thread can notice that the stream is lost: while the   *)
(* owner's calls are the only ones and the state is SUBSCRIBED, the thread *)
(* of the current socket has not ended, or the call that will start it is  *)
(* under way.                                                              *)
(***************************************************************************)
SubscribedHasReceiver ==
    state = "SUBSCRIBED" =>
        /\ ws # None
        /\ owner \in {"send", "sent", "start"} \/ pc[ws] \notin {"unborn", "done"}

(***************************************************************************)
(* Whichever thread calls unsubscribe, mark_unsupported and force_state,   *)
(* and whenever: a SUBSCRIBED that nobody listens to comes of an           *)
(* unsubscribe in the midst of a subscribe and of nothing else.  No        *)
(* loss, no leftover thread, no failed subscribe and no answer of the      *)
(* server makes one while _stop is down (private_ws.py:96-139, 153-178).   *)
(***************************************************************************)
OnlyUnsubscribeSilences ==
    state = "SUBSCRIBED" /\ ~stop /\ owner \notin {"connect", "send", "sent", "start"} =>
        ws # None /\ pc[ws] \notin {"unborn", "done"}

\* The exchange serves the stream on socket c.
Served(c) == c \in up /\ server[c] = "accepted" /\ keyed[c] \notin expired

(***************************************************************************)
(* "PRIVATE STREAM LOST ... BLOCK" (docs/CONTRACT_LOCK_P0.md:75): a stream *)
(* whose request was refused, whose token expired or whose socket is closed*)
(* does not stay SUBSCRIBED, whichever threads call, unless an unsubscribe *)
(* set _stop in the midst of the subscribe.  It is the time-out of recv,   *)
(* which the loop takes for a loss, that sees to it.                       *)
(***************************************************************************)
LossNoticed ==
    state = "SUBSCRIBED" /\ ~stop /\ ~Served(ws)
        ~> state # "SUBSCRIBED" \/ stop \/ Served(ws)
=============================================================================
