-------------------------- MODULE ExecutionReadiness --------------------------
(***************************************************************************)
(* evaluate_execution_readiness (tokocrypto/execution_readiness.py) at work*)
(* on a live public socket, with a private stream and an account that      *)
(* change under it.                                                        *)
(*                                                                         *)
(* The report is put together from readings made one after the other, each *)
(* under a lock of its own; is_ready_for_execution of the public socket is *)
(* two of them.  The account is a copy the caller took from the store when *)
(* the call began.  Of the private stream and the store only what the      *)
(* report reads is kept, and it may change at any time.                    *)
(***************************************************************************)
EXTENDS PublicMarketWS, SymbolRouter

CONSTANTS
    Types,         \* the symbol types of the routes asked about
    Calls,         \* which of "public", "private", "account" a call is given
    StreamStates,  \* the states of the private stream
    Accounts       \* what get() may return: [status, snapshot : BOOLEAN]

VARIABLES
    stream,   \* _state of the private stream
    account,  \* status and presence of a snapshot in the store
    args,     \* the arguments of the call under way
    place,    \* where it is
    reasons,  \* the reasons collected so far
    held,     \* history: the conditions that held at some moment of the call
    failed    \* history: the conditions that did not, at some moment

callVars == <<args, place, reasons>>
otherVars == <<stream, account>>
readinessVars == <<vars, otherVars, callVars, held, failed>>

ASSUME ReadinessAssumption ==
    /\ Calls \subseteq SUBSET {"public", "private", "account"}
    /\ "SUBSCRIBED" \in StreamStates
    /\ \A a \in Accounts : a.snapshot \in BOOLEAN

AccountReady(a) == a.status = "RECONCILED" /\ a.snapshot

Conditions == {"connected", "fresh", "private", "account"}

\* What the report is about, as it is now.
Now ==
    {c \in Conditions :
        CASE c = "connected" -> ConnectionState = "CONNECTED"
          [] c = "fresh"     -> lastMsg = "fresh"
          [] c = "private"   -> stream = "SUBSCRIBED"
          [] c = "account"   -> AccountReady(account)}

NoCall == [type |-> None, given |-> {}, account |-> None]

ReadinessInit ==
    /\ Init
    /\ stream \in StreamStates
    /\ account \in Accounts
    /\ args = NoCall
    /\ place = "idle"
    /\ reasons = {}
    /\ held = {}
    /\ failed = {}
-----------------------------------------------------------------------------
Given(part) == part \in args.given

Reasons(found) == reasons' = reasons \cup found

\* The route was looked up before; its reasons are the first.
Evaluate(type, given) ==
    /\ place = "idle"
    /\ args' = [type |-> type, given |-> given, account |-> account]
    /\ Reasons({r \in {"route", "unsupported"} :
                   \/ r = "route" /\ Classify(type) # "ELIGIBLE_FOR_EXECUTION"
                   \/ r = "unsupported" /\ ~PrivateWsSupported(type)})
    /\ place' = "public"

ReadPublicState ==
    /\ place = "public"
    /\ IF Given("public") /\ ConnectionState # "CONNECTED"
       THEN Reasons({"public"}) /\ place' = "private"
       ELSE /\ UNCHANGED reasons
            /\ place' = IF Given("public") THEN "again" ELSE "private"
    /\ UNCHANGED args

\* is_ready_for_execution: the state once more, ...
ReadStateAgain ==
    /\ place = "again"
    /\ IF ConnectionState # "CONNECTED"
       THEN Reasons({"no_data"}) /\ place' = "private"
       ELSE UNCHANGED reasons /\ place' = "age"
    /\ UNCHANGED args

\* Mutant of ReadAge: no message yet counts as no age.
ReadAgeOld ==
    /\ place = "age"
    /\ Reasons(IF lastMsg = "old" THEN {"no_data"} ELSE {})
    /\ place' = "private"
    /\ UNCHANGED args

\* ... and then the age of the last message.
ReadAge ==
    /\ place = "age"
    /\ Reasons(IF lastMsg = "fresh" THEN {} ELSE {"no_data"})
    /\ place' = "private"
    /\ UNCHANGED args

\* Mutant of ReadPrivate: a stream not yet subscribed is what is asked for.
ReadPrivateInverted ==
    /\ place = "private"
    /\ Reasons(IF Given("private") /\ stream = "SUBSCRIBED" THEN {"private"} ELSE {})
    /\ place' = "account"
    /\ UNCHANGED args

ReadPrivate ==
    /\ place = "private"
    /\ Reasons({r \in {"private", "type_gate"} :
                   /\ Given("private")
                   /\ \/ r = "private" /\ stream # "SUBSCRIBED"
                      \/ r = "type_gate" /\ args.type # None /\ ~PrivateWsSupported(args.type)})
    /\ place' = "account"
    /\ UNCHANGED args

\* The account's copy, and the two locks of this phase of the program.
Conclude ==
    /\ place = "account"
    /\ Reasons({"enablement", "live_proof"} \cup
               {r \in {"reconciliation", "account"} :
                   /\ Given("account")
                   /\ \/ r = "reconciliation" /\ args.account.status # "RECONCILED"
                      \/ r = "account" /\ ~AccountReady(args.account)})
    /\ place' = "returned"
    /\ UNCHANGED args

Return ==
    /\ place = "returned"
    /\ place' = "idle"
    /\ args' = NoCall
    /\ reasons' = {}

Call ==
    \/ \E type \in Types, given \in Calls : Evaluate(type, given)
    \/ ReadPublicState
    \/ ReadStateAgain
    \/ ReadAge
    \/ ReadPrivate
    \/ Conclude
    \/ Return

\* The other components (the private stream and the store as the environment).
StreamChanges ==
    /\ stream' \in StreamStates
    /\ UNCHANGED account

AccountChanges ==
    /\ account' \in Accounts
    /\ UNCHANGED stream

\* What holds from the beginning of a call to its end is kept for the properties.
Watch ==
    /\ held' = CASE place' = "idle"    -> {}
                 [] place = "idle"     -> Now
                 [] place = "returned" -> held
                 [] OTHER              -> held \cup Now'
    /\ failed' = CASE place' = "idle"    -> {}
                   [] place = "idle"     -> Conditions \ Now
                   [] place = "returned" -> failed
                   [] OTHER              -> failed \cup (Conditions \ Now')

ReadinessNext ==
    /\ \/ Call /\ UNCHANGED <<vars, otherVars>>
       \/ Next /\ UNCHANGED <<otherVars, callVars>>
       \/ StreamChanges /\ UNCHANGED <<vars, callVars>>
       \/ AccountChanges /\ UNCHANGED <<vars, callVars>>
    /\ Watch

ReadinessSpec == ReadinessInit /\ [][ReadinessNext]_readinessVars
-----------------------------------------------------------------------------
(***************************************************************************)
(* "Fail-closed" (public_market_ws.py:55): a part the report is silent     *)
(* about was in order at some moment of the call, so that a fault that     *)
(* lasts as long as the call is always reported, whatever threads do       *)
(* between two readings.                                                   *)
(***************************************************************************)
LastingFaultReported ==
    place = "returned" =>
        /\ Given("public") /\ reasons \cap {"public", "no_data"} = {} =>
              {"connected", "fresh"} \subseteq held
        /\ Given("private") /\ "private" \notin reasons => "private" \in held
        /\ Given("account") /\ reasons \cap {"reconciliation", "account"} = {} =>
              "account" \in held

(***************************************************************************)
(* And nothing else is reported: a reason names a part that was out of     *)
(* order at some moment of the call.                                       *)
(***************************************************************************)
ReasonWasTrue ==
    place = "returned" =>
        /\ reasons \cap {"public", "no_data"} # {} => {"connected", "fresh"} \cap failed # {}
        /\ "private" \in reasons => "private" \in failed
        /\ reasons \cap {"reconciliation", "account"} # {} => "account" \in failed
        /\ {"route", "unsupported", "type_gate"} \cap reasons # {} => args.type # 1
=============================================================================
