---------------------------- MODULE UdpEchoProofs ----------------------------
(***************************************************************************)
(* The echo server's numbers are given once, and clients stay in step with *)
(* it, for any number of clients and messages and any losses.              *)
(***************************************************************************)
EXTENDS UdpEcho, TLAPS

\* The responses there are, on their way or printed.
Known == responses \cup UNION {Printed(c) : c \in Clients}

\* What makes a number name one response.
NumbersGiven ==
  /\ \A r \in Known : r.number <= sequence_number
  /\ \A r, q \in Known : r.number = q.number => r = q

\* Of a client in step, one datagram is on its way, about the message it waits
\* for, and later than all it has printed.
InStep(c) ==
  /\ \A d \in requests : d.from = c =>
       waiting[c] /\ d.msg = i[c] /\ \A r \in responses : r.to # c
  /\ \A r \in responses : r.to = c =>
       /\ waiting[c] /\ r.msg = i[c]
       /\ \A q \in responses : q.to = c => q = r
       /\ \A n \in 1 .. Len(printed[c]) : printed[c][n].number < r.number
  /\ \A n \in 1 .. Len(printed[c]) : printed[c][n].msg = n - 1
  /\ \A n \in 1 .. Len(printed[c]) :
       n > 1 => printed[c][n - 1].number < printed[c][n].number

Types ==
  /\ i \in [Clients -> 0 .. Messages] /\ waiting \in [Clients -> BOOLEAN]
  /\ printed \in [Clients -> Seq(Response)]
  /\ \A c \in Clients : Len(printed[c]) = i[c] /\ (waiting[c] => i[c] < Messages)
  /\ sequence_number \in Nat /\ duplicates \in Nat
  /\ requests \subseteq Request /\ responses \subseteq Response

IInv == Types /\ NumbersGiven /\ (duplicates = 0 => \A c \in Clients : InStep(c))

-----------------------------------------------------------------------------
LEMMA InitInv == Init => IInv
<1> SUFFICES ASSUME Init PROVE IInv
  OBVIOUS
<1>1. Types
  BY UdpAssumption DEF Init, Types, UdpAssumption
<1>2. Known = {}
  BY DEF Init, Known, Printed
<1> QED
  BY <1>1, <1>2 DEF Init, IInv, NumbersGiven, InStep

\* Numbers stay given once where no response is new.
LEMMA NoNewNumbers ==
  ASSUME NumbersGiven, Known' \subseteq Known, UNCHANGED sequence_number
  PROVE  NumbersGiven'
BY DEF NumbersGiven

LEMMA SendInv == ASSUME NEW c \in Clients PROVE IInv /\ ClientSends(c) => IInv'
<1> SUFFICES ASSUME IInv, ClientSends(c) PROVE IInv'
  OBVIOUS
<1>1. UNCHANGED <<i, printed, sequence_number, responses, duplicates>>
  BY DEF ClientSends
<1>2. Types'
  <2>1. i[c] \in Nat /\ i[c] < Messages
    BY UdpAssumption DEF IInv, Types, ClientSends, Done, UdpAssumption
  <2>2. requests' \subseteq Request
    BY <2>1 DEF IInv, Types, ClientSends, Request
  <2>3. waiting' \in [Clients -> BOOLEAN] /\ \A d \in Clients : waiting'[d] => waiting[d] \/ d = c
    BY DEF IInv, Types, ClientSends
  <2> QED
    BY <1>1, <2>1, <2>2, <2>3 DEF IInv, Types
<1>3. NumbersGiven'
  BY <1>1, NoNewNumbers DEF IInv, Known, Printed
<1>4. ASSUME duplicates' = 0, NEW d \in Clients PROVE InStep(d)'
  <2>1. InStep(d)
    BY <1>1, <1>4 DEF IInv
  <2>2. CASE d = c
    <3>1. waiting'[c] /\ ~waiting[c]
      BY DEF IInv, Types, ClientSends
    <3>2. \A r \in responses : r.to # c
      BY <2>1, <2>2, <3>1 DEF InStep
    <3>3. \A q \in requests' : q.from = c => q.msg = i[c]
      BY <2>1, <2>2 DEF InStep, ClientSends
    <3> QED
      BY <1>1, <2>1, <2>2, <3>1, <3>2, <3>3 DEF InStep
  <2>3. CASE d # c
    <3>1. waiting'[d] = waiting[d]
      BY <2>3 DEF IInv, Types, ClientSends
    <3>2. \A q \in requests' : q.from = d => q \in requests
      BY <2>3 DEF ClientSends
    <3> QED
      BY <1>1, <2>1, <3>1, <3>2 DEF InStep
  <2> QED
    BY <2>2, <2>3
<1> QED
  BY <1>2, <1>3, <1>4 DEF IInv

LEMMA ReceiveInv == ASSUME NEW c \in Clients PROVE IInv /\ ClientReceives(c) => IInv'
<1> SUFFICES ASSUME IInv, ClientReceives(c) PROVE IInv'
  OBVIOUS
<1>1. PICK r \in responses : /\ r.to = c /\ Deliver(r, responses, responses')
                             /\ printed' = [printed EXCEPT ![c] = Append(@, r)]
  BY DEF ClientReceives
<1>2. /\ waiting[c] /\ UNCHANGED <<sequence_number, requests>>
      /\ i' = [i EXCEPT ![c] = @ + 1] /\ waiting' = [waiting EXCEPT ![c] = FALSE]
  BY DEF ClientReceives
<1>3. r \in Response /\ printed[c] \in Seq(Response) /\ Len(printed[c]) = i[c]
      /\ i[c] \in Nat /\ i[c] < Messages
  BY <1>1, <1>2, UdpAssumption DEF IInv, Types, UdpAssumption
<1>4. responses' \subseteq responses /\ duplicates' \in Nat
      /\ (duplicates' = 0 => duplicates = 0 /\ responses' = responses \ {r})
  BY <1>1 DEF Deliver, IInv, Types
<1>5. /\ printed'[c] \in Seq(Response) /\ Len(printed'[c]) = i[c] + 1
      /\ \A n \in 1 .. Len(printed[c]) : printed'[c][n] = printed[c][n]
      /\ printed'[c][i[c] + 1] = r
  BY <1>1, <1>3 DEF IInv, Types
<1>6. \A d \in Clients : d # c =>
        printed'[d] = printed[d] /\ i'[d] = i[d] /\ waiting'[d] = waiting[d]
  BY <1>1, <1>2 DEF IInv, Types
<1>7. i'[c] = i[c] + 1 /\ ~waiting'[c]
  BY <1>2 DEF IInv, Types
<1>8. Types'
  <2>1. i' \in [Clients -> 0 .. Messages]
    BY <1>2, <1>3, UdpAssumption DEF IInv, Types, UdpAssumption
  <2>2. waiting' \in [Clients -> BOOLEAN]
    BY <1>2 DEF IInv, Types
  <2>3. printed' \in [Clients -> Seq(Response)]
    BY <1>1, <1>3 DEF IInv, Types
  <2>4. \A d \in Clients : Len(printed'[d]) = i'[d] /\ (waiting'[d] => i'[d] < Messages)
    BY <1>5, <1>6, <1>7 DEF IInv, Types
  <2> QED
    BY <1>2, <1>4, <2>1, <2>2, <2>3, <2>4 DEF IInv, Types
<1>9. NumbersGiven'
  <2>1. Printed(c)' \subseteq Printed(c) \cup {r}
    <3>1. \A n \in 1 .. Len(printed'[c]) : n \in 1 .. Len(printed[c]) \/ n = i[c] + 1
      BY <1>3, <1>5
    <3>2. \A n \in 1 .. Len(printed'[c]) : printed'[c][n] \in Printed(c) \cup {r}
      BY <1>5, <3>1 DEF Printed
    <3> QED
      BY <3>2 DEF Printed
  <2>2. \A d \in Clients : d # c => Printed(d)' = Printed(d)
    BY <1>6 DEF Printed
  <2>3. Known' \subseteq Known
    BY <1>1, <1>4, <2>1, <2>2 DEF Known
  <2> QED
    BY <1>2, <2>3, NoNewNumbers DEF IInv
<1>10. ASSUME duplicates' = 0, NEW d \in Clients PROVE InStep(d)'
  <2>1. InStep(d) /\ responses' = responses \ {r}
    BY <1>4, <1>10 DEF IInv
  <2>2. CASE d = c
    <3>1. r.msg = i[c] /\ \A n \in 1 .. Len(printed[c]) : printed[c][n].number < r.number
      BY <1>1, <2>1, <2>2 DEF InStep
    <3>2. \A q \in responses' : q.to # c
      BY <1>1, <2>1, <2>2 DEF InStep
    <3>3. \A q \in requests' : q.from # c
      BY <1>1, <1>2, <2>1, <2>2 DEF InStep
    <3>4. \A n \in 1 .. Len(printed'[c]) : n \in 1 .. Len(printed[c]) \/ n = i[c] + 1
      BY <1>3, <1>5
    <3>5. ASSUME NEW n \in 1 .. Len(printed'[c]) PROVE printed'[c][n].msg = n - 1
      <4>1. CASE n \in 1 .. Len(printed[c])
        <5>1. printed[c][n].msg = n - 1
          BY <2>1, <2>2, <4>1 DEF InStep
        <5> QED
          BY <1>5, <4>1, <5>1
      <4>2. CASE n = i[c] + 1
        BY <1>3, <1>5, <3>1, <4>2
      <4> QED
        BY <3>4, <4>1, <4>2
    <3>6. ASSUME NEW n \in 1 .. Len(printed'[c]), n > 1
          PROVE  printed'[c][n - 1].number < printed'[c][n].number
      <4>1. n - 1 \in 1 .. Len(printed[c]) /\ printed'[c][n - 1] = printed[c][n - 1]
        <5>1. n \in 1 .. i[c] + 1 /\ i[c] \in Nat /\ Len(printed[c]) = i[c]
          BY <1>3, <1>5
        <5>2. n - 1 \in 1 .. i[c]
          BY <3>6, <5>1
        <5> QED
          BY <1>5, <5>1, <5>2
      <4>2. CASE n \in 1 .. Len(printed[c])
        BY <1>5, <2>1, <2>2, <3>6, <4>1, <4>2 DEF InStep
      <4>3. CASE n = i[c] + 1
        BY <1>5, <3>1, <4>1, <4>3
      <4> QED
        BY <3>4, <4>2, <4>3
    <3> QED
      BY <2>2, <3>2, <3>3, <3>5, <3>6 DEF InStep
  <2>3. CASE d # c
    BY <1>2, <1>6, <2>1, <2>3 DEF InStep
  <2> QED
    BY <2>2, <2>3
<1> QED
  BY <1>8, <1>9, <1>10 DEF IInv

LEMMA AnswerInv == IInv /\ ServerAnswers => IInv'
<1> SUFFICES ASSUME IInv, ServerAnswers PROVE IInv'
  OBVIOUS
<1> DEFINE number == sequence_number + 1
<1>1. PICK d \in requests :
        /\ Deliver(d, requests, requests')
        /\ responses' = responses \cup {[to |-> d.from, number |-> number, msg |-> d.msg]}
  BY DEF ServerAnswers
<1> DEFINE r == [to |-> d.from, number |-> number, msg |-> d.msg]
<1>2. sequence_number' = number /\ UNCHANGED <<i, waiting, printed>>
  BY DEF ServerAnswers
<1>3. sequence_number \in Nat /\ d \in Request /\ r \in Response
  BY <1>1 DEF IInv, Types, Request, Response
<1>4. requests' \subseteq requests /\ duplicates' \in Nat
      /\ (duplicates' = 0 => duplicates = 0 /\ requests' = requests \ {d})
  BY <1>1 DEF Deliver, IInv, Types
<1>5. Types'
  BY <1>1, <1>2, <1>3, <1>4 DEF IInv, Types
<1>6. Known \subseteq Response
  BY DEF IInv, Types, Known, Printed
<1>7. \A q \in Known : q.number \in Nat /\ q.number < number
  BY <1>3, <1>6 DEF IInv, NumbersGiven, Response
<1>8. NumbersGiven'
  <2>1. Known' = Known \cup {r}
    BY <1>1, <1>2 DEF Known, Printed
  <2>2. r.number = number
    OBVIOUS
  <2>3. \A q \in Known' : q.number <= sequence_number'
    BY <1>2, <1>3, <1>7, <2>1, <2>2
  <2>4. \A p, q \in Known' : p.number = q.number => p = q
    BY <1>3, <1>7, <2>1, <2>2 DEF IInv, NumbersGiven
  <2> QED
    BY <2>3, <2>4 DEF NumbersGiven
<1>9. ASSUME duplicates' = 0, NEW c \in Clients PROVE InStep(c)'
  <2>1. InStep(c) /\ requests' = requests \ {d}
    BY <1>4, <1>9 DEF IInv
  <2>2. CASE d.from = c
    <3>1. waiting[c] /\ d.msg = i[c] /\ \A q \in responses : q.to # c
      BY <2>1, <2>2 DEF InStep
    <3>2. \A q \in requests' : q.from = c => q = d
      <4>1. \A q \in requests : q.from = c => q.msg = d.msg /\ q.from = d.from
        BY <2>1, <2>2, <3>1 DEF InStep
      <4>2. requests \subseteq Request
        BY DEF IInv, Types
      <4> QED
        BY <1>3, <2>1, <4>1, <4>2 DEF Request
    <3>3. \A q \in responses' : q.to = c => q = r
      BY <1>1, <3>1
    <3>4. \A n \in 1 .. Len(printed[c]) : printed[c][n] \in Known
      BY DEF Known, Printed
    <3>5. \A n \in 1 .. Len(printed[c]) : printed[c][n].number < r.number
      BY <1>7, <3>4
    <3> QED
      BY <1>2, <2>1, <2>2, <3>1, <3>2, <3>3, <3>5 DEF InStep
  <2>3. CASE d.from # c
    <3>1. \A q \in responses' : q.to = c => q \in responses
      BY <1>1, <2>3
    <3> QED
      BY <1>2, <2>1, <3>1 DEF InStep
  <2> QED
    BY <2>2, <2>3
<1> QED
  BY <1>5, <1>8, <1>9 DEF IInv

LEMMA LoseInv == IInv /\ Lose => IInv'
<1> SUFFICES ASSUME IInv, Lose PROVE IInv'
  OBVIOUS
<1>1. /\ requests' \subseteq requests /\ responses' \subseteq responses
      /\ UNCHANGED <<i, waiting, printed, sequence_number, duplicates>>
  BY DEF Lose
<1>2. Types'
  BY <1>1 DEF IInv, Types
<1>3. NumbersGiven'
  <2>1. Known' \subseteq Known
    BY <1>1 DEF Known, Printed
  <2> QED
    BY <1>1, <2>1, NoNewNumbers DEF IInv
<1>4. ASSUME duplicates' = 0, NEW c \in Clients PROVE InStep(c)'
  <2>1. InStep(c)
    BY <1>1, <1>4 DEF IInv
  <2> QED
    BY <1>1, <2>1 DEF InStep
<1> QED
  BY <1>2, <1>3, <1>4 DEF IInv

LEMMA StepInv == IInv /\ [Next]_vars => IInv'
<1> SUFFICES ASSUME IInv, [Next]_vars PROVE IInv'
  OBVIOUS
<1>1. CASE UNCHANGED vars
  <2>1. UNCHANGED <<i, waiting, printed, sequence_number, requests, responses, duplicates>>
    BY <1>1 DEF vars
  <2>2. Types'
    BY <2>1 DEF IInv, Types
  <2>3. NumbersGiven'
    BY <2>1 DEF IInv, NumbersGiven, Known, Printed
  <2>4. \A c \in Clients : InStep(c) => InStep(c)'
    BY <2>1 DEF InStep
  <2> QED
    BY <2>1, <2>2, <2>3, <2>4 DEF IInv
<1> QED
  BY <1>1, SendInv, ReceiveInv, AnswerInv, LoseInv DEF Next

LEMMA Inductive == Spec => []IInv
<1> QED
  BY InitInv, StepInv, PTL DEF Spec

-----------------------------------------------------------------------------
\* The server gives each number to one datagram: responses with the same number
\* are copies of one, for any clients, losses and repetitions.
THEOREM NumbersGivenOnce == Spec => []NumbersUnique
<1>1. IInv => NumbersUnique
  BY DEF IInv, NumbersGiven, NumbersUnique, Known
<1> QED
  BY <1>1, Inductive, PTL

\* On a network that repeats nothing, every response a client prints is the one to
\* the message it has just sent, and its numbers increase.
THEOREM ClientsStayInStep == Spec => []ResponsesInStep
<1>1. IInv => ResponsesInStep
  BY DEF IInv, InStep, ResponsesInStep
<1> QED
  BY <1>1, Inductive, PTL

\* The programs' variables have their types.
THEOREM UdpTyped == Spec => []TypeOK
<1>1. IInv => TypeOK
  BY DEF IInv, Types, TypeOK
<1> QED
  BY <1>1, Inductive, PTL
=============================================================================
