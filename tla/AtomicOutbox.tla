---------------------------- MODULE AtomicOutbox ----------------------------
(***************************************************************************)
(* What sending mail promises: a message written on the console stays      *)
(* queued until the server has taken it. Taking it twice is not ruled out, *)
(* nor is a message that the server has taken coming back into the queue.  *)
(***************************************************************************)
CONSTANT Messages

VARIABLES
    queue,     \* the messages the console still has to send
    accepted   \* the messages the server has taken

vars == <<queue, accepted>>

Init == queue = {} /\ accepted = {}

Compose ==
    /\ \E m \in Messages \ (queue \cup accepted) : queue' = queue \cup {m}
    /\ UNCHANGED accepted

\* The server takes some of what is queued, the console forgets some of what the
\* server has taken or has it queued again.
Transfer ==
    /\ \E taken \in SUBSET queue : accepted' = accepted \cup taken
    /\ \E gone \in SUBSET (queue \cap accepted'), back \in SUBSET accepted' :
           queue' = (queue \ gone) \cup back

Next == Compose \/ Transfer

Spec == Init /\ [][Next]_vars
=============================================================================
