---------------------------- MODULE EndpointProofs ----------------------------
(***************************************************************************)
(* What Endpoint guarantees, for any number of transfers and sockets.      *)
(***************************************************************************)
EXTENDS Endpoint, TLAPS

\* A step leaves the sockets given only once,
LEMMA StepKeepsPromise ==
  ASSUME MaxListeners \in Nat, TypeOK, GivenOnce, [Next]_vars
  PROVE  TypeOK' /\ GivenOnce'
<1>1. CASE Arm
  <2>1. \A t \in Transfers : served[t] # made + 1
    BY DEF TypeOK
  <2> QED
    BY <1>1, <2>1 DEF Arm, TypeOK, GivenOnce
<1>2. CASE Drop
  BY <1>2 DEF Drop, TypeOK, GivenOnce
<1>3. ASSUME NEW t \in Transfers, Hand(t) PROVE TypeOK' /\ GivenOnce'
  BY <1>3 DEF Hand, TypeOK, GivenOnce
<1>4. CASE UNCHANGED vars
  BY <1>4 DEF vars, TypeOK, GivenOnce
<1> QED
  BY <1>1, <1>2, <1>3, <1>4 DEF Next

\* which carries over to every implementation of Endpoint: no data connection
\* serves two commands.
THEOREM SocketsGivenOnce == MaxListeners \in Nat => (Spec => [](TypeOK /\ GivenOnce))
<1> SUFFICES ASSUME MaxListeners \in Nat PROVE Spec => [](TypeOK /\ GivenOnce)
  OBVIOUS
<1>1. Init => TypeOK /\ GivenOnce
  BY DEF Init, TypeOK, GivenOnce
<1>2. TypeOK /\ GivenOnce /\ [Next]_vars => TypeOK' /\ GivenOnce'
  BY StepKeepsPromise
<1> QED
  BY <1>1, <1>2, PTL DEF Spec
=============================================================================
