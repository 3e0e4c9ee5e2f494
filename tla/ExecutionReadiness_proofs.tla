---------------------- MODULE ExecutionReadiness_proofs ----------------------
(***************************************************************************)
(* The public socket and the report on execution readiness: for every      *)
(* number of connections, every set of streams and arguments, and every    *)
(* interleaving of a call with the threads, the owner and the environment. *)
(***************************************************************************)
EXTENDS ExecutionReadiness, TLAPS

(***************************************************************************)
(* The variables of the public socket keep their types.  The connection a  *)
(* thread or the owner names was opened, because ws only ever gets the     *)
(* number of the latest one.                                               *)
(***************************************************************************)
LEMMA ThreadKeepsTypes ==
    ASSUME TypeOK, NEW c \in Connections, Thread(c)
    PROVE  TypeOK'
<1>1. CASE CheckStop(c)
  BY <1>1 DEF CheckStop, Go, TypeOK, Places, subVars, wsVars, netVars
<1>2. CASE TestSocket(c)
  BY <1>2 DEF TestSocket, Go, TypeOK, Places, subVars, wsVars, netVars
<1>3. CASE CallRecv(c)
  BY <1>3 DEF CallRecv, Go, TypeOK, Places, subVars, wsVars, netVars
<1>4. CASE Receive(c) \/ RecvRaises(c)
  BY <1>4 DEF Receive, RecvRaises, Go, TypeOK, Places, subVars, wsVars, netVars
<1>5. CASE RecordMessage(c)
  <2>1. sock[c] \in Connections \cup {None}
    BY DEF TypeOK
  <2> QED
    BY <1>5, <2>1 DEF RecordMessage, MarkMessageReceived, Go, TypeOK, Places, States,
                      subVars, netVars
<1>6. CASE HandleError(c)
  BY <1>6 DEF HandleError, Go, TypeOK, Places, subVars, wsVars, netVars
<1>7. CASE ReportLoss(c)
  BY <1>7 DEF ReportLoss, Go, TypeOK, Places, States, subVars, netVars
<1> QED
  BY <1>1, <1>2, <1>3, <1>4, <1>5, <1>6, <1>7 DEF Thread

LEMMA StepKeepsTypes == TypeOK /\ [Next]_vars => TypeOK'
<1> SUFFICES ASSUME TypeOK, [Next]_vars
             PROVE  TypeOK'
  OBVIOUS
<1>1. CASE Connect
  <2>1. opened \in Nat /\ opened' = opened + 1 /\ opened' \in Connections
    BY <1>1, PublicAssumption DEF Connect, TypeOK, Connections
  <2>2. up' \subseteq 1 .. opened'
    <3>1. up' = up \cup {opened'} /\ up \subseteq 1 .. opened
      BY <1>1 DEF Connect, TypeOK
    <3>2. \A c \in up' : c \in 1 .. opened'
      BY <2>1, <3>1
    <3> QED
      BY <3>2
  <2>3. pc' \in [Connections -> Places]
    BY <1>1 DEF Connect, TypeOK, Places
  <2>4. opened' \in 0 .. MaxConnections
    BY <2>1 DEF Connections
  <2> QED
    BY <1>1, <2>1, <2>2, <2>3, <2>4 DEF Connect, TypeOK, States, subVars
<1>2. CASE ConnectFails
  BY <1>2 DEF ConnectFails, TypeOK, States, subVars, netVars, threadVars
<1>3. CASE Disconnect
  BY <1>3 DEF Disconnect, TypeOK, States, subVars, threadVars
<1>4. ASSUME NEW streams \in SUBSET Streams \ {{}}, Subscribe(streams) \/ Unsubscribe(streams)
      PROVE  TypeOK'
  BY <1>4 DEF Subscribe, Unsubscribe, TypeOK, wsVars, netVars, threadVars
<1>5. ASSUME NEW s \in ForceStates, ForceState(s)
      PROVE  TypeOK'
  BY <1>5, PublicAssumption DEF ForceState, TypeOK, subVars, netVars, threadVars
<1>6. CASE OwnerMarksMessage
  BY <1>6 DEF OwnerMarksMessage, MarkMessageReceived, TypeOK, States, subVars, netVars,
              threadVars
<1>7. CASE Age
  BY <1>7 DEF Age, TypeOK, subVars, netVars, threadVars
<1>8. ASSUME NEW c \in Connections, PeerCloses(c)
      PROVE  TypeOK'
  BY <1>8 DEF PeerCloses, TypeOK, subVars, wsVars, threadVars
<1>9. ASSUME NEW c \in Connections, Thread(c)
      PROVE  TypeOK'
  BY <1>9, ThreadKeepsTypes
<1>10. CASE UNCHANGED vars
  BY <1>10 DEF vars, wsVars, subVars, netVars, threadVars, TypeOK
<1> QED
  BY <1>1, <1>2, <1>3, <1>4, <1>5, <1>6, <1>7, <1>8, <1>9, <1>10 DEF Next

\* Type correctness of the public socket.
THEOREM PublicTypes == Safety => []TypeOK
<1>1. ASSUME Init
      PROVE  TypeOK
  <2>1. opened \in 0 .. MaxConnections
    BY <1>1, PublicAssumption DEF Init
  <2>2. /\ asked \in [Connections -> SUBSET Streams]
        /\ pc \in [Connections -> Places]
        /\ sock \in [Connections -> Connections \cup {None}]
    BY <1>1 DEF Init, Places
  <2> QED
    BY <1>1, <2>1, <2>2 DEF Init, TypeOK, States
<1> QED
  BY <1>1, StepKeepsTypes, PTL DEF Safety
-----------------------------------------------------------------------------
(***************************************************************************)
(* What keeps ConnectedHasReceiver: CONNECTED is only ever written with    *)
(* _stop cleared and a thread started, and _stop is set together with      *)
(* another state.  A state forced to STALE would be raised to CONNECTED by *)
(* the next message, with or without a socket.                             *)
(***************************************************************************)
ReceiverInv ==
    /\ state # "STALE"
    /\ state = "CONNECTED" => ~stop
    /\ ConnectedHasReceiver

(***************************************************************************)
(* What keeps NothingUnasked: nobody was asked for anything on a connection*)
(* that is still to be opened.                                             *)
(***************************************************************************)
AskedInv ==
    /\ \A c \in Connections : c > opened => asked[c] = {}
    /\ NothingUnasked

\* A thread writes CONNECTED over STALE only, and ends only when it is told to
\* stop, when there is no socket, or with DISCONNECTED.
LEMMA ThreadKeepsReceiver ==
    ASSUME TypeOK, ReceiverInv, NEW c \in Connections, Thread(c)
    PROVE  ReceiverInv'
<1> USE DEF ReceiverInv, ConnectedHasReceiver, TypeOK, Go, wsVars, netVars
<1>1. CASE CheckStop(c)
  BY <1>1 DEF CheckStop
<1>2. CASE TestSocket(c)
  BY <1>2 DEF TestSocket
<1>3. CASE CallRecv(c)
  BY <1>3 DEF CallRecv
<1>4. CASE Receive(c) \/ RecvRaises(c)
  BY <1>4 DEF Receive, RecvRaises
<1>5. CASE RecordMessage(c)
  BY <1>5 DEF RecordMessage, MarkMessageReceived
<1>6. CASE HandleError(c)
  BY <1>6 DEF HandleError
<1>7. CASE ReportLoss(c)
  BY <1>7 DEF ReportLoss
<1> QED
  BY <1>1, <1>2, <1>3, <1>4, <1>5, <1>6, <1>7 DEF Thread

LEMMA StepKeepsReceiver ==
    ASSUME ForceStates \cap {"CONNECTED", "STALE"} = {},
           TypeOK, TypeOK', ReceiverInv, [Next]_vars
    PROVE  ReceiverInv'
<1>1. CASE Connect
  <2>1. ws' \in Connections /\ pc' = [pc EXCEPT ![ws'] = "check"]
    <3>1. opened' = opened + 1 /\ opened + 1 \in Connections
      BY <1>1, PublicAssumption DEF Connect, TypeOK, Connections
    <3> QED
      BY <1>1, <3>1 DEF Connect
  <2>2. ws' # None
    BY <2>1, PublicAssumption DEF Connections
  <2> QED
    BY <1>1, <2>1, <2>2 DEF Connect, ReceiverInv, ConnectedHasReceiver, TypeOK
<1>2. CASE ConnectFails \/ Disconnect
  BY <1>2 DEF ConnectFails, Disconnect, ReceiverInv, ConnectedHasReceiver
<1>3. ASSUME NEW streams \in SUBSET Streams \ {{}}, Subscribe(streams) \/ Unsubscribe(streams)
      PROVE  ReceiverInv'
  BY <1>3 DEF Subscribe, Unsubscribe, ReceiverInv, ConnectedHasReceiver, wsVars, threadVars
<1>4. ASSUME NEW s \in ForceStates, ForceState(s)
      PROVE  ReceiverInv'
  BY <1>4 DEF ForceState, ReceiverInv, ConnectedHasReceiver
<1>5. CASE OwnerMarksMessage
  BY <1>5 DEF OwnerMarksMessage, MarkMessageReceived, ReceiverInv, ConnectedHasReceiver,
              threadVars
<1>6. CASE Age
  BY <1>6 DEF Age, ReceiverInv, ConnectedHasReceiver, threadVars
<1>7. ASSUME NEW c \in Connections, PeerCloses(c)
      PROVE  ReceiverInv'
  BY <1>7 DEF PeerCloses, ReceiverInv, ConnectedHasReceiver, wsVars, threadVars
<1>8. ASSUME NEW c \in Connections, Thread(c)
      PROVE  ReceiverInv'
  BY <1>8, ThreadKeepsReceiver
<1>9. CASE UNCHANGED vars
  BY <1>9 DEF vars, wsVars, threadVars, ReceiverInv, ConnectedHasReceiver
<1> QED
  BY <1>1, <1>2, <1>3, <1>4, <1>5, <1>6, <1>7, <1>8, <1>9 DEF Next

(***************************************************************************)
(* While the state is CONNECTED there is a thread that can notice the loss,*)
(* however many connections were opened before and wherever their threads  *)
(* are (public_ws.py:47-76, 126-148), as long as nobody forces the state to*)
(* one that claims a connection.                                           *)
(***************************************************************************)
THEOREM ConnectedAlwaysHeard ==
    ASSUME ForceStates \cap {"CONNECTED", "STALE"} = {}
    PROVE  Safety => []ConnectedHasReceiver
<1>1. Init => ReceiverInv
  BY DEF Init, ReceiverInv, ConnectedHasReceiver
<1>2. TypeOK /\ TypeOK' /\ ReceiverInv /\ [Next]_vars => ReceiverInv'
  BY StepKeepsReceiver
<1>3. ReceiverInv => ConnectedHasReceiver
  BY DEF ReceiverInv
<1> QED
  BY <1>1, <1>2, <1>3, PublicTypes, PTL DEF Safety

LEMMA StepKeepsAsked ==
    ASSUME TypeOK, TypeOK', AskedInv, [Next]_vars
    PROVE  AskedInv'
<1>0. /\ None \notin up
      /\ opened \in Nat /\ \A c \in up : c \in Connections
  <2>1. opened \in Nat /\ opened <= MaxConnections /\ \A c \in up : c \in 1 .. opened
    BY PublicAssumption DEF TypeOK
  <2>2. ASSUME NEW c \in up
        PROVE  c \in Connections /\ c # None
    BY <2>1, PublicAssumption DEF Connections
  <2> QED
    BY <2>1, <2>2
<1>1. CASE Connect
  <2>1. opened' = opened + 1 /\ ws' = opened + 1 /\ asked' = asked
    BY <1>1 DEF Connect, subVars
  <2>2. opened + 1 \in Connections
    BY <1>0, <2>1 DEF TypeOK, Connections
  <2>3. asked[opened + 1] = {}
    BY <1>0, <2>2 DEF AskedInv
  <2>4. \A c \in Connections : c > opened + 1 => asked[c] = {}
    BY <1>0 DEF AskedInv, Connections
  <2> QED
    BY <2>1, <2>3, <2>4 DEF AskedInv, NothingUnasked
<1>2. CASE ConnectFails \/ Disconnect
  <2>1. ws' = None /\ up' \subseteq up /\ opened' = opened /\ asked' = asked
    BY <1>2 DEF ConnectFails, Disconnect, netVars, subVars
  <2> QED
    BY <1>0, <2>1 DEF AskedInv, NothingUnasked
<1>3. ASSUME NEW streams \in SUBSET Streams \ {{}}, Subscribe(streams)
      PROVE  AskedInv'
  <2>1. /\ ws \in Connections /\ ~(ws > opened)
        /\ asked' = [asked EXCEPT ![ws] = @ \cup streams]
        /\ subscriptions' = subscriptions \cup streams
        /\ UNCHANGED <<ws, up, opened>>
    BY <1>0, <1>3 DEF Subscribe, wsVars, netVars, TypeOK, Connections
  <2> QED
    BY <1>3, <2>1 DEF Subscribe, AskedInv, NothingUnasked, TypeOK
<1>4. ASSUME NEW streams \in SUBSET Streams \ {{}}, Unsubscribe(streams)
      PROVE  AskedInv'
  <2>1. /\ asked' = IF ws \in up THEN [asked EXCEPT ![ws] = @ \ streams] ELSE asked
        /\ subscriptions' = subscriptions \ streams
        /\ UNCHANGED <<ws, up, opened>>
    BY <1>4 DEF Unsubscribe, wsVars, netVars
  <2> QED
    BY <1>0, <2>1 DEF AskedInv, NothingUnasked, TypeOK
<1>5. CASE UNCHANGED <<subscriptions, asked, ws, opened>> /\ up' \subseteq up
  BY <1>5 DEF AskedInv, NothingUnasked
<1>6. ASSUME NEW c \in Connections, PeerCloses(c) \/ Thread(c)
      PROVE  UNCHANGED <<subscriptions, asked, ws, opened>> /\ up' \subseteq up
  BY <1>6 DEF PeerCloses, Thread, CheckStop, TestSocket, CallRecv, Receive, RecvRaises,
              RecordMessage, HandleError, ReportLoss, subVars, wsVars, netVars
<1>7. ASSUME \/ \E s \in ForceStates : ForceState(s)
             \/ OwnerMarksMessage
             \/ Age
             \/ UNCHANGED vars
      PROVE  UNCHANGED <<subscriptions, asked, ws, opened>> /\ up' \subseteq up
  BY <1>7 DEF ForceState, OwnerMarksMessage, Age, vars, subVars, wsVars, netVars
<1> QED
  BY <1>1, <1>2, <1>3, <1>4, <1>5, <1>6, <1>7 DEF Next

(***************************************************************************)
(* The server of the live socket was never asked for a stream that is not  *)
(* on the list, through reconnects, losses and failed sends, whatever      *)
(* states are forced in between (public_ws.py:78-98).                      *)
(***************************************************************************)
THEOREM NothingEverUnasked == Safety => []NothingUnasked
<1>1. Init => AskedInv
  BY DEF Init, AskedInv, NothingUnasked
<1>2. TypeOK /\ TypeOK' /\ AskedInv /\ [Next]_vars => AskedInv'
  BY StepKeepsAsked
<1>3. AskedInv => NothingUnasked
  BY DEF AskedInv
<1> QED
  BY <1>1, <1>2, <1>3, PublicTypes, PTL DEF Safety
-----------------------------------------------------------------------------
(***************************************************************************)
(* What a call has established at each place, part by part: what a reason  *)
(* collected or not collected so far says of the moments gone by.          *)
(***************************************************************************)
Underway == {"public", "again", "age", "private", "account"}

\* The history takes in the present, and the copy of the account is from it.
HistoryInv ==
    /\ place \in Underway \cup {"idle", "returned"}
    /\ place \in Underway => Now \subseteq held /\ Conditions \ Now \subseteq failed
    /\ place # "idle" => IF AccountReady(args.account) THEN "account" \in held
                         ELSE "account" \in failed

PublicInv ==
    /\ place = "public" => reasons \cap {"public", "no_data"} = {}
    /\ place = "age" => "connected" \in held
    /\ place \in {"private", "account", "returned"} /\ Given("public")
       /\ reasons \cap {"public", "no_data"} = {} => {"connected", "fresh"} \subseteq held
    /\ place # "idle" /\ reasons \cap {"public", "no_data"} # {} =>
          {"connected", "fresh"} \cap failed # {}

PrivateInv ==
    /\ place \in {"account", "returned"} /\ Given("private") /\ "private" \notin reasons =>
          "private" \in held
    /\ place # "idle" /\ "private" \in reasons => "private" \in failed

AccountInv ==
    /\ place = "returned" /\ Given("account")
       /\ reasons \cap {"reconciliation", "account"} = {} => "account" \in held
    /\ place # "idle" /\ reasons \cap {"reconciliation", "account"} # {} =>
          "account" \in failed

TypeInv == {"route", "unsupported", "type_gate"} \cap reasons # {} => args.type # 1

ReportInv ==
    /\ place = "idle" => reasons = {}
    /\ HistoryInv /\ PublicInv /\ PrivateInv /\ AccountInv /\ TypeInv

\* What Now says of each part.
LEMMA NowMeans ==
    /\ "connected" \in Now <=> ConnectionState = "CONNECTED"
    /\ "fresh" \in Now <=> lastMsg = "fresh"
    /\ "private" \in Now <=> stream = "SUBSCRIBED"
    /\ "account" \in Now <=> AccountReady(account)
  BY DEF Now, Conditions

\* A step of the call itself changes nothing the report is about.
LEMMA CallLeavesNow ==
    ASSUME UNCHANGED <<vars, otherVars>>
    PROVE  Now' = Now
  BY DEF Now, ConnectionState, AccountReady, vars, wsVars, otherVars

\* The histories only grow while a call is under way.
LEMMA HistoryGrows ==
    ASSUME Watch, place # "idle", place' # "idle"
    PROVE  /\ held \subseteq held' /\ failed \subseteq failed'
           /\ place # "returned" => /\ Now' \subseteq held'
                                    /\ Conditions \ Now' \subseteq failed'
<1>1. CASE place = "returned"
  BY <1>1 DEF Watch
<1>2. CASE place # "returned"
  BY <1>2 DEF Watch
<1> QED
  BY <1>1, <1>2

\* The beginning of a call.
LEMMA EvaluateStarts ==
    ASSUME ReportInv, Watch, UNCHANGED <<vars, otherVars>>,
           NEW type \in Types, NEW given \in Calls, Evaluate(type, given)
    PROVE  ReportInv'
<1>1. /\ place = "idle" /\ place' = "public"
      /\ args' = [type |-> type, given |-> given, account |-> account]
      /\ reasons = {}
      /\ reasons' = {r \in {"route", "unsupported"} :
                       \/ r = "route" /\ Classify(type) # "ELIGIBLE_FOR_EXECUTION"
                       \/ r = "unsupported" /\ ~PrivateWsSupported(type)}
  BY DEF Evaluate, Reasons, ReportInv
<1>2. held' = Now /\ failed' = Conditions \ Now
  BY <1>1 DEF Watch
<1>3. args'.type = type /\ args'.account = account
  BY <1>1
<1>4. HistoryInv'
  BY <1>1, <1>2, <1>3, CallLeavesNow, NowMeans
     DEF HistoryInv, Underway, AccountReady, Conditions
<1>5. reasons' \cap {"public", "no_data", "private", "reconciliation", "account"} = {}
  BY <1>1
<1>6. TypeInv'
  <2>1. type = 1 => reasons' = {}
    BY <1>1 DEF Classify, PrivateWsSupported
  <2> QED
    BY <1>3, <2>1 DEF TypeInv
<1> QED
  BY <1>1, <1>4, <1>5, <1>6 DEF ReportInv, PublicInv, PrivateInv, AccountInv

(***************************************************************************)
(* A reading: place and reasons change, the arguments do not, and what is  *)
(* read is in the histories already.                                       *)
(***************************************************************************)
LEMMA ReadingKeeps ==
    ASSUME ReportInv, Watch, UNCHANGED <<vars, otherVars>>,
           ReadPublicState \/ ReadStateAgain \/ ReadAge \/ ReadPrivate \/ Conclude
    PROVE  ReportInv'
<1>1. /\ place \in Underway /\ place' \in Underway \cup {"returned"} /\ place' # "public"
      /\ args' = args
  BY DEF ReadPublicState, ReadStateAgain, ReadAge, ReadPrivate, Conclude, Underway
<1>2. /\ held \subseteq held' /\ failed \subseteq failed'
      /\ Now \subseteq held /\ Conditions \ Now \subseteq failed
      /\ Now' \subseteq held' /\ Conditions \ Now' \subseteq failed'
  BY <1>1, HistoryGrows DEF ReportInv, HistoryInv, Underway
<1>3. /\ "connected" \in held \/ ConnectionState # "CONNECTED"
      /\ "connected" \in failed \/ ConnectionState = "CONNECTED"
      /\ "fresh" \in held \/ lastMsg # "fresh"
      /\ "fresh" \in failed \/ lastMsg = "fresh"
      /\ "private" \in held \/ stream # "SUBSCRIBED"
      /\ "private" \in failed \/ stream = "SUBSCRIBED"
  BY <1>2, NowMeans DEF Conditions
<1>4. HistoryInv'
  BY <1>1, <1>2 DEF ReportInv, HistoryInv, Underway
<1>5. CASE ReadPublicState
  <2>1. PublicInv'
    BY <1>1, <1>2, <1>3, <1>5 DEF ReadPublicState, Reasons, Given, ReportInv, PublicInv
  <2>2. PrivateInv' /\ AccountInv' /\ TypeInv' /\ place' # "idle"
    BY <1>1, <1>2, <1>5
       DEF ReadPublicState, Reasons, Given, ReportInv, PrivateInv, AccountInv, TypeInv
  <2> QED
    BY <1>4, <2>1, <2>2 DEF ReportInv
<1>6. CASE ReadStateAgain
  <2>1. PublicInv'
    BY <1>1, <1>2, <1>3, <1>6 DEF ReadStateAgain, Reasons, Given, ReportInv, PublicInv
  <2>2. PrivateInv' /\ AccountInv' /\ TypeInv' /\ place' # "idle"
    BY <1>1, <1>2, <1>6
       DEF ReadStateAgain, Reasons, Given, ReportInv, PrivateInv, AccountInv, TypeInv
  <2> QED
    BY <1>4, <2>1, <2>2 DEF ReportInv
<1>7. CASE ReadAge
  <2>1. PublicInv'
    BY <1>1, <1>2, <1>3, <1>7 DEF ReadAge, Reasons, Given, ReportInv, PublicInv
  <2>2. PrivateInv' /\ AccountInv' /\ TypeInv' /\ place' # "idle"
    BY <1>1, <1>2, <1>7
       DEF ReadAge, Reasons, Given, ReportInv, PrivateInv, AccountInv, TypeInv
  <2> QED
    BY <1>4, <2>1, <2>2 DEF ReportInv
<1>8. CASE ReadPrivate
  <2>1. PublicInv' /\ AccountInv' /\ place' # "idle"
    BY <1>1, <1>2, <1>8 DEF ReadPrivate, Reasons, Given, ReportInv, PublicInv, AccountInv
  <2>2. PrivateInv'
    BY <1>1, <1>2, <1>3, <1>8 DEF ReadPrivate, Reasons, Given, ReportInv, PrivateInv
  <2>3. TypeInv'
    BY <1>1, <1>8 DEF ReadPrivate, Reasons, PrivateWsSupported, ReportInv, TypeInv
  <2> QED
    BY <1>4, <2>1, <2>2, <2>3 DEF ReportInv
<1>9. CASE Conclude
  <2>1. PublicInv' /\ PrivateInv' /\ TypeInv' /\ place' # "idle"
    BY <1>1, <1>2, <1>9
       DEF Conclude, Reasons, Given, ReportInv, PublicInv, PrivateInv, TypeInv
  <2>2. AccountReady(args.account) => args.account.status = "RECONCILED"
    BY DEF AccountReady
  <2>3. IF AccountReady(args.account) THEN "account" \in held ELSE "account" \in failed
    BY <1>1 DEF ReportInv, HistoryInv, Underway
  <2>4. AccountInv'
    BY <1>1, <1>2, <1>9, <2>2, <2>3 DEF Conclude, Reasons, Given, ReportInv, AccountInv
  <2> QED
    BY <1>4, <2>1, <2>4 DEF ReportInv
<1> QED
  BY <1>5, <1>6, <1>7, <1>8, <1>9

\* What happens around a call leaves the call as it is, and enters the histories.
LEMMA EnvironmentKeeps ==
    ASSUME ReportInv, Watch, UNCHANGED callVars
    PROVE  ReportInv'
<1>1. UNCHANGED <<args, place, reasons>>
  BY DEF callVars
<1>2. CASE place = "idle"
  BY <1>1, <1>2 DEF ReportInv, HistoryInv, PublicInv, PrivateInv, AccountInv, TypeInv, Underway
<1>3. CASE place # "idle"
  <2>1. /\ held \subseteq held' /\ failed \subseteq failed'
        /\ place # "returned" => Now' \subseteq held' /\ Conditions \ Now' \subseteq failed'
    BY <1>1, <1>3, HistoryGrows
  <2>2. HistoryInv'
    BY <1>1, <2>1 DEF ReportInv, HistoryInv, Underway, AccountReady
  <2>3. PublicInv' /\ PrivateInv' /\ AccountInv' /\ TypeInv'
    BY <1>1, <2>1 DEF ReportInv, PublicInv, PrivateInv, AccountInv, TypeInv, Given
  <2> QED
    BY <1>1, <1>3, <2>2, <2>3 DEF ReportInv
<1> QED
  BY <1>2, <1>3

THEOREM ReportInvariant == ReadinessSpec => []ReportInv
<1>1. ReadinessInit => ReportInv
  BY DEF ReadinessInit, ReportInv, HistoryInv, PublicInv, PrivateInv, AccountInv, TypeInv,
         Underway
<1>2. ReportInv /\ [ReadinessNext]_readinessVars => ReportInv'
  <2> SUFFICES ASSUME ReportInv, [ReadinessNext]_readinessVars
               PROVE  ReportInv'
    OBVIOUS
  <2>1. CASE UNCHANGED readinessVars
    <3>1. UNCHANGED <<args, place, reasons, held, failed>> /\ Now' = Now
      BY <2>1, CallLeavesNow DEF readinessVars, callVars
    <3>2. HistoryInv'
      BY <3>1 DEF ReportInv, HistoryInv, AccountReady
    <3> QED
      BY <3>1, <3>2 DEF ReportInv, PublicInv, PrivateInv, AccountInv, TypeInv, Given
  <2>2. CASE ReadinessNext /\ Call /\ UNCHANGED <<vars, otherVars>>
    <3>1. Watch
      BY <2>2 DEF ReadinessNext
    <3>2. ASSUME NEW type \in Types, NEW given \in Calls, Evaluate(type, given)
          PROVE  ReportInv'
      BY <2>2, <3>1, <3>2, EvaluateStarts
    <3>3. CASE Return
      BY <3>3 DEF Return, ReportInv, HistoryInv, PublicInv, PrivateInv, AccountInv, TypeInv,
                  Underway
    <3> QED
      BY <2>2, <3>1, <3>2, <3>3, ReadingKeeps DEF Call
  <2>3. CASE ReadinessNext /\ UNCHANGED callVars
    BY <2>3, EnvironmentKeeps DEF ReadinessNext
  <2> QED
    BY <2>1, <2>2, <2>3 DEF ReadinessNext
<1> QED
  BY <1>1, <1>2, PTL DEF ReadinessSpec

(***************************************************************************)
(* Whatever happens between two readings, a fault that lasts as long as the*)
(* call is reported (execution_readiness.py:24-74).                        *)
(***************************************************************************)
THEOREM FaultsAreReported == ReadinessSpec => []LastingFaultReported
<1>1. ReportInv => LastingFaultReported
  BY DEF ReportInv, PublicInv, PrivateInv, AccountInv, LastingFaultReported
<1> QED
  BY <1>1, ReportInvariant, PTL

(***************************************************************************)
(* ... and no part is blamed that was in order throughout.                 *)
(***************************************************************************)
THEOREM ReasonsWereTrue == ReadinessSpec => []ReasonWasTrue
<1>1. ReportInv => ReasonWasTrue
  BY DEF ReportInv, PublicInv, PrivateInv, AccountInv, TypeInv, ReasonWasTrue
<1> QED
  BY <1>1, ReportInvariant, PTL
-----------------------------------------------------------------------------
(***************************************************************************)
(* The report is made on the public socket as it is: reading leaves the    *)
(* socket alone, and what happens between two readings are its own steps   *)
(* (execution_readiness.py:24-74).                                         *)
(***************************************************************************)
THEOREM ReadinessImplementsSocket == ReadinessSpec => Safety
<1>1. ReadinessInit => Init
  BY DEF ReadinessInit
<1>2. [ReadinessNext]_readinessVars => [Next]_vars
  BY DEF ReadinessNext, readinessVars
<1> QED
  BY <1>1, <1>2, PTL DEF ReadinessSpec, Safety

(***************************************************************************)
(* So a CONNECTED that a report is made from is one with a thread that can *)
(* notice the loss, and no stream was asked for unlisted.                  *)
(***************************************************************************)
COROLLARY ReadinessStaysHeard ==
    ASSUME ForceStates \cap {"CONNECTED", "STALE"} = {}
    PROVE  ReadinessSpec => []ConnectedHasReceiver /\ []NothingUnasked
  BY ReadinessImplementsSocket, ConnectedAlwaysHeard, NothingEverUnasked, PTL
=============================================================================
