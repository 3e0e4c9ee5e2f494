---------------------------- MODULE EventIdWindow ----------------------------
(***************************************************************************)
(* Deduplication of stream events in InMemoryAccountStateStore             *)
(* (runtime/state/store.py): the bounded FIFO of event ids on its own, with*)
(* a history of what it let through.                                       *)
(***************************************************************************)
EXTENDS PrivateEvents

CONSTANTS
    Messages,     \* the normalizable messages the stream may carry
    MaxEventIds,  \* max_event_ids
    MaxAccepted   \* bound of the model: messages accepted between restarts

ASSUME WindowAssumption ==
    /\ MaxEventIds \in Nat
    /\ MaxAccepted \in Nat
    /\ Messages \subseteq Message
    /\ \A m \in Messages : Normalizable(m)

VARIABLES
    seen,      \* _seen_event_ids, oldest first
    accepted   \* history: messages accepted since the last restart

vars == <<seen, accepted>>

Init ==
    /\ seen = <<>>
    /\ accepted = <<>>

\* Mutant of Accept: messages are remembered by kind and time alone.
AcceptByTime(m) ==
    /\ Len(accepted) < MaxAccepted
    /\ ~IsDuplicate(m, seen)
    /\ seen' = Remember(seen, <<m.kind, m.time>>, MaxEventIds)
    /\ accepted' = Append(accepted, m)

\* An event whose id is not remembered goes on to the reducer.
Accept(m) ==
    /\ Len(accepted) < MaxAccepted
    /\ ~IsDuplicate(m, seen)
    /\ seen' = Remember(seen, EventId(m), MaxEventIds)
    /\ accepted' = Append(accepted, m)

\* An event whose id is remembered is ignored; its age is not refreshed.
Ignore(m) ==
    /\ IsDuplicate(m, seen)
    /\ UNCHANGED vars

\* restart_clear forgets every id.
Clear ==
    /\ seen' = <<>>
    /\ accepted' = <<>>

Next ==
    \/ \E m \in Messages : Accept(m) \/ Ignore(m)
    \/ Clear

Spec == Init /\ [][Next]_vars
-----------------------------------------------------------------------------
Ids == {EventId(m) : m \in Messages}

TypeOK ==
    /\ seen \in Seq(Ids)
    /\ accepted \in Seq(Messages)

(***************************************************************************)
(* The store remembers exactly the ids of the last MaxEventIds messages it *)
(* accepted, in their order (store.py:172-175).                            *)
(***************************************************************************)
SeenIsRecent ==
    /\ Len(seen) = IF Len(accepted) <= MaxEventIds
                   THEN Len(accepted) ELSE MaxEventIds
    /\ \A i \in 1 .. Len(seen) :
          seen[i] = EventId(accepted[Len(accepted) - Len(seen) + i])

(***************************************************************************)
(* "duplicate events ignored via event_id set": two accepted messages with *)
(* the same id lie more than MaxEventIds accepted messages apart, so a     *)
(* redelivery within the window never reaches the reducer twice.           *)
(***************************************************************************)
NoReplayInWindow ==
    \A i, j \in 1 .. Len(accepted) :
        i < j /\ EventId(accepted[i]) = EventId(accepted[j])
            => j - i > MaxEventIds

(***************************************************************************)
(* What the ids do tell apart (events.py:52, 67, 80): a message is ignored *)
(* only when one of the same kind and time was accepted, and a report only *)
(* for a report of the same order and trade.  An update that carries       *)
(* another time is never taken for a redelivery.                           *)
(***************************************************************************)
Twins(m, n) ==
    /\ m.kind = n.kind
    /\ m.time = n.time
    /\ m.kind = "order" => m.oid = n.oid /\ m.trade = n.trade

IgnoredHasTwin ==
    \A m \in Messages :
        IsDuplicate(m, seen) => \E i \in 1 .. Len(accepted) : Twins(m, accepted[i])
=============================================================================
