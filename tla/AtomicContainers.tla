-------------------------- MODULE AtomicContainers --------------------------
(***************************************************************************)
(* What the plugin promises about the channels' containers: each one holds *)
(* a whole version at all times. The updater, while it runs, replaces one  *)
(* container at a time, in one step; a channel, while vWii runs, replaces  *)
(* its own. Starting and being cut off change no container.                *)
(***************************************************************************)
CONSTANTS Files, Content

VARIABLES
    value,     \* the version each container holds
    running    \* Wii U mode with the plugin loaded, or else vWii or no power

vars == <<value, running>>

Init ==
    /\ value \in [Files -> Content]
    /\ running \in BOOLEAN

Replace(f) ==
    /\ \E content \in Content : value' = [value EXCEPT ![f] = content]
    /\ UNCHANGED running

Update(f) == running /\ Replace(f)

ChannelWrites(f) == ~running /\ Replace(f)

StartOrCut ==
    /\ running' = ~running
    /\ UNCHANGED value

Next ==
    \/ \E f \in Files : Update(f) \/ ChannelWrites(f)
    \/ StartOrCut

Spec == Init /\ [][Next]_vars
=============================================================================
