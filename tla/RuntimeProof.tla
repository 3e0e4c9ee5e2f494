----------------------------- MODULE RuntimeProof -----------------------------
(***************************************************************************)
(* run_proof (scripts/p0_runtime_proof.py): the script that tries the real *)
(* exchange once, read-only, and reports VERIFIED or FAILED.               *)
(*                                                                         *)
(* The script is one procedure over a REST client, a private stream with   *)
(* its receiving thread, and a store of its own that no event reaches.  A  *)
(* listen token is requested twice: by a stream that is then dropped, which*)
(* is one call like the others here, and by the stream that subscribes.    *)
(***************************************************************************)
EXTENDS AccountStore

VARIABLES
    state, token, ws, stop, owner, using, issued, expired, opened, up,
    server, keyed, pc, sock, msg,   \* of the stream that subscribes
    stage,     \* what the script does next
    verified,  \* the flags of the report that are True
    polled,    \* the script has seen SUBSCRIBED
    final,     \* st_final
    verdict    \* live_runtime_proof

Stream == INSTANCE PrivateUserStream
    WITH MaxTokens <- 1, MaxSubscriptions <- 1, RaisingKinds <- {},
         CarefulCaller <- TRUE, OtherCallers <- FALSE, ForceStates <- {}

streamVars == <<state, token, ws, stop, owner, using, issued, expired, opened, up,
                server, keyed, pc, sock, msg>>
reportVars == <<verified, verdict>>
localVars == <<polled, final>>
proofVars == <<storeVars, streamVars, stage, reportVars, localVars>>

Required == {"server_time", "symbols", "symbol_type_1", "account_snapshot",
             "open_orders", "listen_token", "private_ws", "reconciliation"}

ProofInit ==
    /\ StoreInit
    /\ Stream!Init
    /\ stage = "start"
    /\ verified = {}
    /\ polled = FALSE
    /\ final = None
    /\ verdict = "FAILED"
-----------------------------------------------------------------------------
\* Without credentials in the environment the script stops at once.
CheckCredentials ==
    /\ stage = "start"
    /\ stage' \in {"server_time", "end"}
    /\ UNCHANGED <<storeVars, streamVars, reportVars, localVars>>

\* The flag each plain REST call sets, and what comes after it.
After == [server_time |-> "symbols", account_snapshot |-> "open_orders",
          open_orders |-> "listen_token", listen_token |-> "stream"]

CallSucceeds ==
    /\ stage \in DOMAIN After
    /\ verified' = verified \cup {stage}
    /\ stage' = After[stage]
    /\ UNCHANGED <<storeVars, streamVars, verdict, localVars>>

\* Symbols may be listed of which none is of type 1.
ListSymbols ==
    /\ stage = "symbols"
    /\ \E listed \in SUBSET {1, 3} :
          /\ verified' = verified \cup {flag \in {"symbols", "symbol_type_1"} :
                 IF flag = "symbols" THEN listed # {} ELSE 1 \in listed}
          /\ stage' = IF 1 \in listed THEN "account_snapshot" ELSE "end"
    /\ UNCHANGED <<storeVars, streamVars, verdict, localVars>>

\* Mutant of CallFails: a failed call is noted and the script goes on.
CallSkipped ==
    /\ stage \in DOMAIN After
    /\ stage' = After[stage]
    /\ UNCHANGED <<storeVars, streamVars, reportVars, localVars>>

\* A call raises or returns what will not do: the report is given as it stands.
CallFails ==
    /\ stage \in DOMAIN After \cup {"symbols"}
    /\ stage' = "end"
    /\ UNCHANGED <<storeVars, streamVars, reportVars, localVars>>
-----------------------------------------------------------------------------
CreateListenToken ==
    /\ \/ stage = "stream" /\ Stream!RequestToken /\ stage' = "waiting"
       \/ stage = "waiting" /\ Stream!TokenIssued /\ stage' = "subscribe"
       \/ stage = "waiting" /\ Stream!TokenRefused /\ stage' = "end"
    /\ UNCHANGED <<storeVars, reportVars, localVars>>

\* When subscribe raises, nobody calls unsubscribe.
Subscribe ==
    /\ \/ stage = "subscribe" /\ Stream!BeginSubscribe(token) /\ stage' = "subscribing"
       \/ /\ stage = "subscribing"
          /\ Stream!OpenSocket \/ Stream!SendRequest \/ Stream!DeclareSubscribed
          /\ UNCHANGED stage
       \/ stage = "subscribing" /\ Stream!StartThread /\ stage' = "poll"
       \/ stage = "subscribing" /\ Stream!SubscribeFails /\ stage' = "end"
    /\ UNCHANGED <<storeVars, reportVars, localVars>>

\* Mutant of Poll: the loop waits for SUBSCRIBED and for nothing else.
PollUntilSubscribed ==
    /\ stage = "poll"
    /\ state = "SUBSCRIBED"
    /\ polled' = TRUE
    /\ stage' = "final"
    /\ UNCHANGED <<storeVars, streamVars, reportVars, final>>

\* SUBSCRIBED, another final state or the deadline, which may already be past.
Poll ==
    /\ stage = "poll"
    /\ polled' \in {FALSE, state = "SUBSCRIBED"}
    /\ stage' = "final"
    /\ UNCHANGED <<storeVars, streamVars, reportVars, final>>

ReadFinalState ==
    /\ stage = "final"
    /\ final' = state
    /\ stage' = "unsubscribe"
    /\ UNCHANGED <<storeVars, streamVars, reportVars, polled>>

\* To have been subscribed once is enough.
Unsubscribe ==
    /\ stage = "unsubscribe"
    /\ Stream!Unsubscribe
    /\ IF polled /\ final \in {"SUBSCRIBED", "DISCONNECTED", "TERMINATED"}
       THEN verified' = verified \cup {"private_ws"} /\ stage' = "resync"
       ELSE UNCHANGED verified /\ stage' = "end"
    /\ UNCHANGED <<storeVars, verdict, localVars>>
-----------------------------------------------------------------------------
\* full_resync on a store nobody else uses: applied, or marked (twice, to one
\* effect but for the version, which nobody reads here) and raised.
FullResync ==
    /\ stage = "resync"
    /\ \/ /\ \E s \in Snapshot, os \in RestOrders : ApplyRestSnapshot(s, os)
          /\ stage' = "disconnect"
       \/ MarkUnknown /\ stage' = "end"
    /\ UNCHANGED <<streamVars, reportVars, localVars>>

\* Mutant of OnWsDisconnect: the flag is set without trying the callback.
OnWsDisconnectUntried ==
    /\ stage = "disconnect"
    /\ verified' = verified \cup {"reconciliation"}
    /\ stage' = "verdict"
    /\ UNCHANGED <<storeVars, streamVars, verdict, localVars>>

\* Open before the callback, and closed after it.
OnWsDisconnect ==
    /\ stage = "disconnect"
    /\ MarkStale
    /\ IF IsReadyForExecution /\ BalancesForRisk # None /\ ~IsReadyForExecution'
       THEN verified' = verified \cup {"reconciliation"} /\ stage' = "verdict"
       ELSE UNCHANGED verified /\ stage' = "end"
    /\ UNCHANGED <<streamVars, verdict, localVars>>

\* create_order_called and cancel_order_called stay False, enablement BLOCKED.
Verdict ==
    /\ stage = "verdict"
    /\ verdict' = IF Required \subseteq verified THEN "VERIFIED" ELSE "FAILED"
    /\ stage' = "end"
    /\ UNCHANGED <<storeVars, streamVars, verified, localVars>>

Script ==
    \/ CheckCredentials \/ CallSucceeds \/ ListSymbols \/ CallFails
    \/ CreateListenToken \/ Subscribe \/ Poll \/ ReadFinalState \/ Unsubscribe
    \/ FullResync \/ OnWsDisconnect \/ Verdict

\* The exchange, the network and the receiving thread.
Thread(c) ==
    /\ Stream!Thread(c)
    /\ UNCHANGED <<storeVars, stage, reportVars, localVars>>

Exchange(c) ==
    /\ Stream!Answer(c) \/ Stream!PeerCloses(c) \/ Stream!Expire(1)
    /\ UNCHANGED <<storeVars, stage, reportVars, localVars>>

ProofNext == Script \/ \E c \in Stream!Sockets : Thread(c) \/ Exchange(c)

(***************************************************************************)
(* Every call of the script has a timeout and its loop a deadline; recv    *)
(* returns or raises within a second.                                      *)
(***************************************************************************)
ProofSpec ==
    /\ ProofInit
    /\ [][ProofNext]_proofVars
    /\ WF_proofVars(Script)
    /\ \A c \in Stream!Sockets : WF_proofVars(Thread(c))
-----------------------------------------------------------------------------
(***************************************************************************)
(* What VERIFIED vouches for (p0_runtime_proof.py:224-237): all the flags; *)
(* a subscription requested with a token the exchange had issued and undone*)
(* again; a store that REST opened and that a lost stream closed.  Whoever *)
(* reads private_ws_verified can rely on the socket being closed.          *)
(***************************************************************************)
VerifiedMeans ==
    /\ "private_ws" \in verified => ws = None /\ up = {}
    /\ verdict = "VERIFIED" =>
        /\ Required = verified
        /\ \E c \in Stream!Sockets : server[c] # "unasked" /\ keyed[c] \in 1 .. issued
        /\ baseline # 0
        /\ ~IsReadyForExecution /\ BalancesForRisk = None

(***************************************************************************)
(* A failed call ends the script: the flags of the report always are the   *)
(* first ones of the script's order, so that the flag of a step says that  *)
(* all steps before it passed as well.                                     *)
(***************************************************************************)
FlagsInOrder ==
    LET order == <<"server_time", "symbols", "symbol_type_1", "account_snapshot",
                   "open_orders", "listen_token", "private_ws", "reconciliation">>
    IN  \A i, j \in DOMAIN order : i < j /\ order[j] \in verified => order[i] \in verified

(***************************************************************************)
(* The script comes to its end, and leaves no receiving thread behind,     *)
(* whichever call fails and whatever the stream does.                      *)
(***************************************************************************)
ScriptEnds ==
    <>[](stage = "end" /\ \A c \in Stream!Sockets : pc[c] \in {"unborn", "done"})
=============================================================================
