------------------------------- MODULE Endpoint -------------------------------
(***************************************************************************)
(* What passive mode promises, whatever descriptors stand behind it.       *)
(* Passive sockets are made one after the other.  At most one is armed,    *)
(* the newest; it is handed to the transfer forked while it is armed, or   *)
(* dropped, and either way never comes back.  A socket may also be lost in *)
(* the making.  Session implements this.                                   *)
(***************************************************************************)
EXTENDS Integers

CONSTANTS Transfers, MaxListeners

VARIABLES
  made,     \* the sockets made so far are 1 .. made
  armed,    \* the one the next transfer gets, 0 for none
  served    \* what each transfer was given, 0 for nothing

vars == <<made, armed, served>>

Init == made = 0 /\ armed = 0 /\ served = [t \in Transfers |-> 0]

\* The old socket, if any, is dropped for the new one.
Arm ==
  /\ made < MaxListeners
  /\ made' = made + 1
  /\ armed' \in {made + 1, 0}
  /\ UNCHANGED served

Drop == armed' = 0 /\ UNCHANGED <<made, served>>

Hand(t) ==
  /\ served[t] = 0
  /\ served' = [served EXCEPT ![t] = armed]
  /\ armed' = 0
  /\ UNCHANGED made

Next == Arm \/ Drop \/ \E t \in Transfers : Hand(t)

Spec == Init /\ [][Next]_vars

-----------------------------------------------------------------------------
TypeOK ==
  /\ made \in 0 .. MaxListeners
  /\ armed \in {made, 0}
  /\ served \in [Transfers -> 0 .. made]

\* No socket is given twice, and none that was given is still armed.
GivenOnce ==
  \A t \in Transfers : served[t] # 0 =>
    /\ served[t] # armed
    /\ \A u \in Transfers \ {t} : served[u] # served[t]
=============================================================================
