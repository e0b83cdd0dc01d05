---------------------------- MODULE AtomicInbox ----------------------------
(***************************************************************************)
(* What delivering mail promises: a message the server has handed over     *)
(* appears in the inbox whole and at most once, in a slot of its own, and  *)
(* stays there until the console retires it.                               *)
(*                                                                         *)
(* The promise has one exception. A recovery goes back to before the first *)
(* message of the fetch, so from the moment the next message of the fetch  *)
(* is on its way the earlier ones are exposed: they may be gone, or listed *)
(* without a message, and come back. So may an entry the console retires   *)
(* while a recovery is due. Nothing else in the inbox is touched.          *)
(***************************************************************************)
CONSTANTS Slots, Messages

VARIABLES
    inbox,     \* the message in each slot in use
    waiting,   \* the messages the server has not handed over
    running,   \* Wii U mode with the plugin loaded, or else vWii or no power
    batch,     \* the slots of the current fetch
    exposed    \* the slots a recovery may undo

vars == <<inbox, waiting, running, batch, exposed>>

Init ==
    /\ inbox = [s \in {} |-> s]
    /\ waiting = Messages
    /\ running \in BOOLEAN
    /\ batch = {}
    /\ exposed = {}

\* The inbox stays as it is but for these slots.
OnlyChangesAt(slots) ==
    /\ DOMAIN inbox' \subseteq Slots
    /\ \A t \in Slots \ slots :
           /\ t \in DOMAIN inbox <=> t \in DOMAIN inbox'
           /\ t \in DOMAIN inbox => inbox'[t] = inbox[t]

StartFetch ==
    /\ running
    /\ batch' = {}
    /\ exposed' \in SUBSET exposed
    /\ UNCHANGED <<inbox, waiting, running>>

HandOver ==
    /\ running
    /\ waiting' \in SUBSET waiting
    /\ UNCHANGED <<inbox, running, batch, exposed>>

\* A message is on its way to slot s.
Begin ==
    /\ running
    /\ \E s \in Slots :
           /\ batch' = batch \cup {s}
           /\ exposed' = (exposed \cup batch) \ {s}
    /\ UNCHANGED <<inbox, waiting, running>>

Deliver ==
    /\ running
    /\ \E m \in Messages \ waiting, s \in batch \ (exposed \cup DOMAIN inbox) :
           /\ OnlyChangesAt(exposed \cup {s})
           /\ s \in DOMAIN inbox' /\ inbox'[s] = m
           /\ \A t \in DOMAIN inbox' \ {s} : inbox'[t] # m
    /\ UNCHANGED <<waiting, running, batch, exposed>>

Undo ==
    /\ running
    /\ OnlyChangesAt(exposed)
    /\ UNCHANGED <<waiting, running, batch, exposed>>

Retire ==
    /\ ~running
    /\ \E s \in Slots :
           \/ /\ s \in DOMAIN inbox
              /\ inbox' = [t \in DOMAIN inbox \ {s} |-> inbox[t]]
              /\ exposed' = exposed \ {s}
           \/ /\ exposed' = exposed \cup {s}
              /\ OnlyChangesAt({s})
    /\ UNCHANGED <<waiting, running, batch>>

StartOrCut ==
    /\ running' = ~running
    /\ UNCHANGED <<inbox, waiting, batch, exposed>>

Next == StartFetch \/ HandOver \/ Begin \/ Deliver \/ Undo \/ Retire \/ StartOrCut

Spec == Init /\ [][Next]_vars
=============================================================================
