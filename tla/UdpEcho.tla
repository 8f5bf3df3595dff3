------------------------------- MODULE UdpEcho -------------------------------
(***************************************************************************)
(* The UDP exercise (udp/src): a server that numbers the datagrams it gets *)
(* and sends them back, and clients that send 0, 1, 2 ... one after the    *)
(* other, each when something has come back for the one before.  Neither   *)
(* has a timeout, and no client looks at what came back.  The network may  *)
(* lose, repeat and reorder datagrams.                                     *)
(***************************************************************************)
EXTENDS Integers, Sequences

CONSTANTS
  Clients,
  Messages,        \* how many each client sends: 51 in client.py
  MaxLosses,       \* bound: the datagrams the network loses
  MaxDuplicates    \* bound: the datagrams the network delivers once more

ASSUME UdpAssumption == Messages \in Nat /\ MaxLosses \in Nat /\ MaxDuplicates \in Nat

VARIABLES
  i,                  \* the client's loop variable
  waiting,            \* whether the client is in recvfrom()
  printed,            \* the responses a client has printed
  sequence_number,    \* the server's
  requests, responses,     \* the datagrams on their way
  losses, duplicates

vars == <<i, waiting, printed, sequence_number, requests, responses, losses, duplicates>>

Request == [from : Clients, msg : Nat]
Response == [to : Clients, number : Nat, msg : Nat]

Init ==
  /\ i = [c \in Clients |-> 0]
  /\ waiting = [c \in Clients |-> FALSE]
  /\ printed = [c \in Clients |-> <<>>]
  /\ sequence_number = 0
  /\ requests = {} /\ responses = {}
  /\ losses = 0 /\ duplicates = 0

Done(c) == i[c] = Messages

\* What delivering d leaves in the network: nothing of it, or a duplicate.
Deliver(d, net, net2) ==
  \/ net2 = net \ {d} /\ UNCHANGED duplicates
  \/ duplicates < MaxDuplicates /\ net2 = net /\ duplicates' = duplicates + 1

-----------------------------------------------------------------------------
\* Fault: sends on without waiting.
ClientSendsOn(c) ==
  /\ ~Done(c)
  /\ requests' = requests \cup {[from |-> c, msg |-> i[c]]}
  /\ i' = [i EXCEPT ![c] = @ + 1]
  /\ waiting' = [waiting EXCEPT ![c] = TRUE]
  /\ UNCHANGED <<printed, sequence_number, responses, losses, duplicates>>

ClientSends(c) ==
  /\ ~Done(c) /\ ~waiting[c]
  /\ requests' = requests \cup {[from |-> c, msg |-> i[c]]}
  /\ waiting' = [waiting EXCEPT ![c] = TRUE]
  /\ UNCHANGED <<i, printed, sequence_number, responses, losses, duplicates>>

\* The first response there is, for whichever message.
ClientReceives(c) ==
  /\ waiting[c]
  /\ \E r \in responses :
        /\ r.to = c
        /\ Deliver(r, responses, responses')
        /\ printed' = [printed EXCEPT ![c] = Append(@, r)]
  /\ i' = [i EXCEPT ![c] = @ + 1]
  /\ waiting' = [waiting EXCEPT ![c] = FALSE]
  /\ UNCHANGED <<sequence_number, requests, losses>>

\* Fault: the count is not kept.
ServerCountsNot ==
  /\ \E d \in requests :
        /\ Deliver(d, requests, requests')
        /\ responses' = responses \cup {[to |-> d.from, number |-> sequence_number + 1, msg |-> d.msg]}
  /\ UNCHANGED <<i, waiting, printed, sequence_number, losses>>

\* Fault: message 0 is taken for an empty one.
ServerSkipsZero ==
  /\ sequence_number' = sequence_number + 1
  /\ \E d \in requests :
        /\ Deliver(d, requests, requests')
        /\ responses' = responses \cup
             (IF d.msg = 0 THEN {}
              ELSE {[to |-> d.from, number |-> sequence_number', msg |-> d.msg]})
  /\ UNCHANGED <<i, waiting, printed, losses>>

ServerAnswers ==
  /\ sequence_number' = sequence_number + 1
  /\ \E d \in requests :
        /\ Deliver(d, requests, requests')
        /\ responses' = responses \cup {[to |-> d.from, number |-> sequence_number', msg |-> d.msg]}
  /\ UNCHANGED <<i, waiting, printed, losses>>

Lose ==
  /\ losses < MaxLosses /\ losses' = losses + 1
  /\ \/ \E d \in requests : requests' = requests \ {d} /\ UNCHANGED responses
     \/ \E r \in responses : responses' = responses \ {r} /\ UNCHANGED requests
  /\ UNCHANGED <<i, waiting, printed, sequence_number, duplicates>>

Next == ServerAnswers \/ Lose \/ \E c \in Clients : ClientSends(c) \/ ClientReceives(c)

\* Both programs run, and what the network does not lose it delivers.
Fairness ==
  /\ WF_vars(ServerAnswers)
  /\ \A c \in Clients : WF_vars(ClientSends(c)) /\ WF_vars(ClientReceives(c))

Spec == Init /\ [][Next]_vars
FairSpec == Spec /\ Fairness

-----------------------------------------------------------------------------
(* Properties.                                                             *)

Printed(c) == {printed[c][n] : n \in 1 .. Len(printed[c])}

\* The programs' variables have their types, and a client has printed as many
\* responses as it has gone round its loop.
TypeOK ==
  /\ requests \subseteq Request /\ responses \subseteq Response
  /\ sequence_number \in Nat
  /\ \A c \in Clients :
       /\ i[c] \in 0 .. Messages
       /\ printed[c] \in Seq(Response) /\ Len(printed[c]) = i[c]

\* A number is given to one datagram only: two responses that clients print with
\* the same number are copies of one.
NumbersUnique ==
  \A c, d \in Clients : \A r \in Printed(c), q \in Printed(d) : r.number = q.number => r = q

\* As long as the network repeats nothing, the response a client prints in each
\* round is the one to the message of that round, whatever other clients send,
\* and the numbers it prints increase.
ResponsesInStep ==
  duplicates = 0 =>
    \A c \in Clients : \A n \in 1 .. Len(printed[c]) :
      /\ printed[c][n].msg = n - 1
      /\ n > 1 => printed[c][n - 1].number < printed[c][n].number

\* A client that loses no datagram sends all its messages and ends.
ClientsFinish == \A c \in Clients : <>(Done(c) \/ losses > 0)
=============================================================================
