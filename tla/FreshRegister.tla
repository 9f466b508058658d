----------------------------- MODULE FreshRegister -----------------------------
(***************************************************************************)
(* What a forced refresh of the memory catalog promises its caller: the    *)
(* catalog is a register that holds a picture of Home Assistant, and when  *)
(* a caller is told that the refresh succeeded or was not needed, nothing  *)
(* in the picture is older than the call.                                  *)
(*                                                                         *)
(* Time is the number of times Home Assistant has changed.  A picture is   *)
(* not taken at one moment: its registries are read before the details of  *)
(* its automations.                                                        *)
(***************************************************************************)
EXTENDS Naturals

CONSTANTS Workers, Nothing

VARIABLES
    world,    \* how often Home Assistant has changed
    held,     \* the picture in the register, or Nothing
    asOf,     \* nothing in the picture is older than this
    asked,    \* when each caller's latest call began
    answer    \* and what became of it

vars == <<world, held, asOf, asked, answer>>

Init ==
    /\ world = 0
    /\ held = Nothing
    /\ asOf = 0
    /\ asked = [w \in Workers |-> 0]
    /\ answer = [w \in Workers |-> "none"]

Answer(w, a) == answer' = [answer EXCEPT ![w] = a]

HomeAssistantChanges ==
    /\ world' = world + 1
    /\ UNCHANGED <<held, asOf, asked, answer>>

Ask(w) ==
    /\ answer[w] # "waiting"
    /\ asked' = [asked EXCEPT ![w] = world]
    /\ Answer(w, "waiting")
    /\ UNCHANGED <<world, held, asOf>>

(* A call that accepts an older picture is told nothing about its age.     *)
AskLoosely(w) ==
    /\ answer[w] # "waiting"
    /\ asked' = [asked EXCEPT ![w] = 0]
    /\ Answer(w, "none")
    /\ UNCHANGED <<world, held, asOf>>

(* The caller's own picture goes in, if that turns no clock back.          *)
Install(w) ==
    /\ answer[w] = "waiting"
    /\ asOf <= asked[w]
    /\ asOf' = asked[w]
    /\ \E r, a \in asked[w]..world :
         r <= a /\ held' = [registries |-> r, automations |-> a]
    /\ Answer(w, "current")
    /\ UNCHANGED <<world, asked>>

(* A picture that is new enough for the caller is already there.           *)
Confirm(w) ==
    /\ answer[w] = "waiting"
    /\ held # Nothing
    /\ asked[w] <= asOf
    /\ Answer(w, "current")
    /\ UNCHANGED <<world, held, asOf, asked>>

GiveUp(w) ==
    /\ answer[w] = "waiting"
    /\ asked' = [asked EXCEPT ![w] = 0]
    /\ Answer(w, "none")
    /\ UNCHANGED <<world, held, asOf>>

Next ==
    \/ HomeAssistantChanges
    \/ \E w \in Workers : Ask(w) \/ AskLoosely(w) \/ Install(w) \/ Confirm(w) \/ GiveUp(w)

Spec == Init /\ [][Next]_vars

=============================================================================
