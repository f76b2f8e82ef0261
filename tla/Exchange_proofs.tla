-------------------------- MODULE Exchange_proofs --------------------------
(***************************************************************************)
(* Requests and answers on the socket, for any number of clients and       *)
(* workers, any requests, and messages and buffers of any size:            *)
(* DeathIsExplained and AnswerIsOwn are invariants of Exchange.            *)
(*                                                                         *)
(* PlacesInv says who holds a connection, UpInv what has become of a       *)
(* request on its way, DownInv of an answer.  A client that has left is    *)
(* exempt from most of it: its request may be cut short.                   *)
(***************************************************************************)
EXTENDS Exchange, SequenceTheorems, TLAPS

AnswerPiece == Clients \X {"tasks", "error"} \X (1..Pieces)
RequestPiece == Clients \X (1..Pieces)

-----------------------------------------------------------------------------
(* Sequences.                                                              *)

LEMMA TailFacts ==
  ASSUME NEW S, NEW s \in Seq(S), s # <<>>
  PROVE  /\ Head(s) = s[1] /\ Head(s) \in S /\ Tail(s) \in Seq(S)
         /\ Len(s) \in Nat \ {0} /\ Len(Tail(s)) = Len(s) - 1
         /\ \A i \in 1..(Len(s) - 1) : Tail(s)[i] = s[i + 1]
         /\ DOMAIN Tail(s) = 1..(Len(s) - 1)
BY HeadTailProperties, EmptySeq

LEMMA AppendFacts ==
  ASSUME NEW S, NEW s \in Seq(S), NEW e \in S
  PROVE  /\ Append(s, e) \in Seq(S)
         /\ Len(Append(s, e)) = Len(s) + 1
         /\ DOMAIN Append(s, e) = 1..(Len(s) + 1)
         /\ \A i \in 1..Len(s) : Append(s, e)[i] = s[i]
         /\ Append(s, e)[Len(s) + 1] = e
BY AppendProperties

LEMMA MessageFacts ==
  ASSUME NEW c \in Clients
  PROVE  /\ Message(c) \in Seq(RequestPiece)
         /\ Len(Message(c)) = Pieces /\ DOMAIN Message(c) = 1..Pieces
         /\ \A n \in 1..Pieces : Message(c)[n] = <<c, n>>
BY PiecesAssumption DEF Message, RequestPiece

LEMMA AnswerFacts ==
  ASSUME NEW c \in Clients, NEW kind \in {"tasks", "error"}
  PROVE  /\ Answer(c, kind) \in Seq(AnswerPiece)
         /\ Len(Answer(c, kind)) = Pieces /\ DOMAIN Answer(c, kind) = 1..Pieces
         /\ \A n \in 1..Pieces : Answer(c, kind)[n] = <<c, kind, n>>
BY PiecesAssumption DEF Answer, AnswerPiece

LEMMA FirstOfAnswer ==
  ASSUME NEW c \in Clients, NEW kind \in {"tasks", "error"}
  PROVE  Answer(c, kind)[1] = <<c, kind, 1>>
<1>1. 1 \in 1..Pieces
  BY PiecesAssumption
<1> QED
  BY <1>1, AnswerFacts
-----------------------------------------------------------------------------
(* Types.                                                                  *)

\* The author of a request that parses.
LEMMA AuthorFacts ==
  ASSUME TypeOK, NEW w \in Workers, Parses(request[w])
  PROVE  /\ Author(w) \in Clients /\ request[w] = Message(Author(w))
         /\ request[w][1] = <<Author(w), 1>>
<1>1. PICK d \in Clients : request[w] = Message(d)
  BY DEF Parses
<1>2. 1 \in 1..Pieces
  BY PiecesAssumption
<1>3. request[w][1] = <<d, 1>>
  BY <1>1, <1>2, MessageFacts
<1> QED
  BY <1>1, <1>3 DEF Author

\* How far the clients have sent; a worker runs tasks of a request that it
\* could decode.
ProgressInv ==
  /\ \A c \in Clients :
       /\ cpc[c] = "idle" => sent[c] = 0
       /\ cpc[c] = "sending" => sent[c] < Pieces
       /\ cpc[c] = "waiting" => sent[c] = Pieces
  /\ \A w \in Workers :
       wpc[w] = "run" => Parses(request[w]) /\ Decodable(asked[Author(w)])

LEMMA TypeInit ==
  ASSUME Init  PROVE TypeOK /\ ProgressInv
<1>1. TypeOK
  BY RequestsAssumption, PiecesAssumption, ClientsAssumption
     DEF Init, TypeOK, ClientPc, WorkerPc, Result
<1> QED
  BY <1>1 DEF Init, ProgressInv

LEMMA ClientType ==
  ASSUME TypeOK, ProgressInv, NEW c \in Clients,
         Connect(c) \/ ClientStep(c) \/ Leave(c)
  PROVE  TypeOK'
<1> USE DEF TypeOK, clientVars, workerVars
<1>1. CASE Connect(c)
  <2>1. backlog' \in Seq(Clients)
    BY <1>1, AppendFacts DEF Connect
  <2> QED
    BY <1>1, <2>1 DEF Connect, ClientPc
<1>2. CASE Send(c)
  <2>1. sent[c] + 1 \in 1..Pieces
    BY <1>2, PiecesAssumption DEF Send, ProgressInv
  <2>2. Message(c)[sent[c] + 1] \in RequestPiece
    BY <2>1, MessageFacts DEF RequestPiece
  <2>3. /\ up[c] \in Seq(RequestPiece) /\ Len(up[c]) \in Nat /\ Len(up[c]) < Room
        /\ Append(up[c], Message(c)[sent[c] + 1]) \in Seq(RequestPiece)
        /\ Len(Append(up[c], Message(c)[sent[c] + 1])) = Len(up[c]) + 1
    BY <1>2, <2>2, AppendFacts DEF Send, RequestPiece
  <2>4. up' \in [Clients -> Seq(RequestPiece)]
    BY <1>2, <2>3 DEF Send, RequestPiece
  <2>5. \A d \in Clients : Len(up'[d]) <= Room
    BY <1>2, <2>3, PiecesAssumption DEF Send
  <2>6. sent' \in [Clients -> 0..Pieces] /\ cpc' \in [Clients -> ClientPc]
    BY <1>2, <2>1 DEF Send, ClientPc
  <2> QED
    BY <1>2, <2>4, <2>5, <2>6 DEF Send, RequestPiece
<1>3. CASE CallFails(c)
  BY <1>3 DEF CallFails, Returns, ClientPc, Result
<1>4. CASE Receive(c)
  <2>1. /\ Head(down[c]) \in AnswerPiece /\ Tail(down[c]) \in Seq(AnswerPiece)
        /\ Len(Tail(down[c])) = Len(down[c]) - 1 /\ Len(down[c]) \in Nat
    BY <1>4, TailFacts DEF Receive, AnswerPiece
  <2>2. Append(got[c], Head(down[c])) \in Seq(AnswerPiece)
    BY <2>1, AppendFacts DEF AnswerPiece
  <2>3. got' \in [Clients -> Seq(AnswerPiece)] /\ down' \in [Clients -> Seq(AnswerPiece)]
    BY <1>4, <2>1, <2>2 DEF Receive, AnswerPiece
  <2>4. \A d \in Clients : Len(down'[d]) <= Room
    BY <1>4, <2>1, PiecesAssumption DEF Receive
  <2> QED
    BY <1>4, <2>3, <2>4 DEF Receive, AnswerPiece
<1>5. CASE Finish(c)
  <2>1. ResultOf(got[c]) \in Result
    <3>1. CASE \E d \in Clients, kind \in {"tasks", "error"} : got[c] = Answer(d, kind)
      <4>1. PICK d \in Clients, kind \in {"tasks", "error"} : got[c] = Answer(d, kind)
        BY <3>1
      <4>2. got[c][1] = <<d, kind, 1>>
        BY <4>1, FirstOfAnswer
      <4> QED
        BY <3>1, <4>2 DEF ResultOf, Result
    <3>2. CASE ~\E d \in Clients, kind \in {"tasks", "error"} : got[c] = Answer(d, kind)
      BY <3>2 DEF ResultOf, Result
    <3> QED
      BY <3>1, <3>2
  <2> QED
    BY <1>5, <2>1 DEF Finish, Returns, ClientPc, Result
<1>6. CASE Leave(c)
  BY <1>6 DEF Leave, ClientPc
<1> QED
  BY <1>1, <1>2, <1>3, <1>4, <1>5, <1>6 DEF ClientStep

LEMMA WorkerType ==
  ASSUME TypeOK, ProgressInv, NEW w \in Workers,
         \/ WorkerStep(w) \/ Collect(w) \/ BoxFails(w)
         \/ Arm(w) \/ Killed(w) \/ BoxesGone(w)
  PROVE  TypeOK'
<1> USE DEF TypeOK, clientVars, workerVars
<1>1. CASE Accept(w)
  <2>1. Head(backlog) \in Clients /\ Tail(backlog) \in Seq(Clients)
    BY <1>1, TailFacts DEF Accept
  <2>2. request' \in [Workers -> Seq(Clients \X (1..Pieces))]
    BY <1>1, EmptySeq DEF Accept
  <2>3. /\ conn' \in [Workers -> Clients \cup {NoClient}]
        /\ wpc' \in [Workers -> WorkerPc]
        /\ \A v \in Workers : wpc'[v] \notin {"accept", "dead"} => conn'[v] \in Clients
    BY <1>1, <2>1 DEF Accept, WorkerPc
  <2> QED
    BY <1>1, <2>1, <2>2, <2>3 DEF Accept
<1>2. CASE Recv(w)
  <2>0. conn[w] \in Clients
    BY <1>2 DEF Recv
  <2>1. /\ Head(up[conn[w]]) \in RequestPiece /\ Tail(up[conn[w]]) \in Seq(RequestPiece)
        /\ Len(Tail(up[conn[w]])) = Len(up[conn[w]]) - 1 /\ Len(up[conn[w]]) \in Nat
    BY <1>2, <2>0, TailFacts DEF Recv, RequestPiece
  <2>2. Append(request[w], Head(up[conn[w]])) \in Seq(RequestPiece)
    BY <2>1, AppendFacts DEF RequestPiece
  <2>3. up' \in [Clients -> Seq(RequestPiece)] /\ request' \in [Workers -> Seq(RequestPiece)]
    BY <1>2, <2>0, <2>1, <2>2 DEF Recv, RequestPiece
  <2>4. \A d \in Clients : Len(up'[d]) <= Room
    BY <1>2, <2>0, <2>1, PiecesAssumption DEF Recv
  <2>5. wpc' \in [Workers -> WorkerPc] /\ \A v \in Workers : wpc'[v] = wpc[v] \/ v = w
    BY <1>2 DEF Recv, WorkerPc
  <2> QED
    BY <1>2, <2>0, <2>3, <2>4, <2>5 DEF Recv, RequestPiece
<1>3. CASE RecvEof(w)
  BY <1>3 DEF RecvEof, WorkerPc
<1>4. ASSUME NEW c \in Clients, NEW kind \in {"tasks", "error"},
             Respond(w, Answer(c, kind)), wpc[w] \in {"process", "run"}
      PROVE  TypeOK'
  <2>1. Answer(c, kind) \in Seq(AnswerPiece)
    BY AnswerFacts
  <2>2. out' \in [Workers -> Seq(AnswerPiece)] /\ wpc' \in [Workers -> WorkerPc]
    BY <1>4, <2>1 DEF Respond, WorkerPc, AnswerPiece
  <2>3. \A v \in Workers : wpc'[v] \notin {"accept", "dead"} => conn'[v] \in Clients
    BY <1>4 DEF Respond
  <2> QED
    BY <1>4, <2>2, <2>3 DEF Respond, AnswerPiece
<1>5. CASE Refuse(w)
  BY <1>4, <1>5 DEF Refuse
<1>6. CASE Begin(w)
  BY <1>6 DEF Begin, WorkerPc
<1>7. CASE Collect(w)
  <2>1. Author(w) \in Clients
    BY <1>7, AuthorFacts DEF Collect, ProgressInv
  <2> QED
    BY <1>4, <1>7, <2>1 DEF Collect
<1>8. CASE WorkerDies(w)
  BY <1>8 DEF WorkerDies, WorkerPc
<1>9. CASE Write(w)
  <2>0. conn[w] \in Clients
    BY <1>9 DEF Write
  <2>1. Head(out[w]) \in AnswerPiece /\ Tail(out[w]) \in Seq(AnswerPiece)
    BY <1>9, TailFacts DEF Write, AnswerPiece
  <2>2. /\ Append(down[conn[w]], Head(out[w])) \in Seq(AnswerPiece)
        /\ Len(Append(down[conn[w]], Head(out[w]))) = Len(down[conn[w]]) + 1
        /\ Len(down[conn[w]]) \in Nat
    BY <2>0, <2>1, AppendFacts DEF AnswerPiece
  <2>3. out' \in [Workers -> Seq(AnswerPiece)] /\ down' \in [Clients -> Seq(AnswerPiece)]
    BY <1>9, <2>0, <2>1, <2>2 DEF Write, AnswerPiece
  <2>4. \A d \in Clients : Len(down'[d]) <= Room
    BY <1>9, <2>0, <2>2, PiecesAssumption DEF Write
  <2> QED
    BY <1>9, <2>3, <2>4 DEF Write, AnswerPiece
<1>10. CASE Close(w)
  BY <1>10 DEF Close, WorkerPc
<1>11. CASE Arm(w) \/ BoxesGone(w)
  BY <1>11 DEF Arm, BoxesGone
<1> QED
  BY <1>1, <1>2, <1>3, <1>5, <1>6, <1>7, <1>8, <1>9, <1>10, <1>11
     DEF WorkerStep, DecodeFails, SetTaskFails, WriteFails, Killed, BoxFails

LEMMA ProgressKept ==
  ASSUME ProgressInv, UNCHANGED <<sent, asked>>,
         \A c \in Clients : cpc'[c] = cpc[c] \/ cpc'[c] \in {"done", "gone"},
         \A w \in Workers :
           \/ wpc'[w] # "run"
           \/ wpc'[w] = wpc[w] /\ request'[w] = request[w]
  PROVE  ProgressInv'
BY DEF ProgressInv, Author

LEMMA ProgressStep ==
  ASSUME TypeOK, ProgressInv, [Next]_vars  PROVE ProgressInv'
<1> USE DEF clientVars, workerVars, TypeOK
<1>1. CASE UNCHANGED vars
  BY <1>1, ProgressKept DEF vars
<1>2. ASSUME NEW c \in Clients, Connect(c)  PROVE ProgressInv'
  <2>1. \A d \in Clients : d # c => cpc'[d] = cpc[d]
    BY <1>2 DEF Connect
  <2>2. cpc'[c] = "sending" /\ sent'[c] < Pieces
    BY <1>2, PiecesAssumption DEF Connect, ProgressInv
  <2> QED
    BY <1>2, <2>1, <2>2 DEF Connect, ProgressInv, Author
<1>3. ASSUME NEW c \in Clients, Send(c)  PROVE ProgressInv'
  <2>1. \A d \in Clients : d # c => cpc'[d] = cpc[d] /\ sent'[d] = sent[d]
    BY <1>3 DEF Send
  <2>2. sent[c] \in Nat /\ sent[c] < Pieces /\ sent'[c] = sent[c] + 1
    BY <1>3, PiecesAssumption DEF Send, ProgressInv
  <2>3. cpc'[c] = IF sent[c] + 1 = Pieces THEN "waiting" ELSE "sending"
    BY <1>3 DEF Send
  <2>4. /\ cpc'[c] = "sending" => sent'[c] < Pieces
        /\ cpc'[c] = "waiting" => sent'[c] = Pieces
        /\ cpc'[c] # "idle"
    BY <2>2, <2>3, PiecesAssumption
  <2>5. UNCHANGED <<asked, wpc, request>>
    BY <1>3 DEF Send
  <2> QED
    BY <2>1, <2>4, <2>5 DEF ProgressInv, Author
<1>4. ASSUME NEW c \in Clients, CallFails(c) \/ Receive(c) \/ Finish(c) \/ Leave(c)
      PROVE  ProgressInv'
  BY <1>4, ProgressKept DEF CallFails, Receive, Finish, Leave, Returns
<1>5. ASSUME NEW w \in Workers, Begin(w)  PROVE ProgressInv'
  BY <1>5 DEF Begin, ProgressInv, Author
<1>6. ASSUME NEW w \in Workers,
             Accept(w) \/ Recv(w) \/ RecvEof(w) \/ Write(w) \/ Close(w)
      PROVE  ProgressInv'
  BY <1>6, ProgressKept DEF Accept, Recv, RecvEof, Write, Close
<1>7. ASSUME NEW w \in Workers,
             Refuse(w) \/ Collect(w) \/ Arm(w) \/ BoxesGone(w) \/ WorkerDies(w)
      PROVE  ProgressInv'
  BY <1>7, ProgressKept DEF Refuse, Respond, Collect, Arm, BoxesGone, WorkerDies
<1> QED
  BY <1>1, <1>2, <1>3, <1>4, <1>5, <1>6, <1>7
     DEF Next, ClientStep, WorkerStep, DecodeFails, SetTaskFails, WriteFails, Killed, BoxFails

LEMMA TypeStep ==
  ASSUME TypeOK, ProgressInv, [Next]_vars  PROVE TypeOK' /\ ProgressInv'
<1>1. CASE UNCHANGED vars
  BY <1>1, ProgressStep DEF vars, clientVars, workerVars, TypeOK
<1>2. CASE Next
  BY <1>2, ClientType, WorkerType, ProgressStep DEF Next
<1> QED
  BY <1>1, <1>2

\* The model is well typed, whatever is requested.
THEOREM TypeCorrect == Spec => []TypeOK
<1>1. Init => TypeOK /\ ProgressInv
  BY TypeInit
<1>2. TypeOK /\ ProgressInv /\ [Next]_vars => (TypeOK /\ ProgressInv)'
  BY TypeStep
<1> QED
  BY <1>1, <1>2, PTL DEF Spec
-----------------------------------------------------------------------------
(* Who holds a connection.                                                 *)

\* Each connection is in the backlog, or served by one worker, or over; its
\* client has asked for it.
PlacesInv ==
  /\ \A w \in Workers : wpc[w] = "accept" => conn[w] = NoClient
  /\ \A v, w \in Workers : conn[v] = conn[w] /\ conn[v] # NoClient => v = w
  /\ \A i, j \in 1..Len(backlog) : backlog[i] = backlog[j] => i = j
  /\ \A i \in 1..Len(backlog), w \in Workers : conn[w] # backlog[i]
  /\ \A i \in 1..Len(backlog) : cpc[backlog[i]] # "idle"
  /\ \A w \in Workers : conn[w] # NoClient => cpc[conn[w]] # "idle"

LEMMA PlacesInit ==
  ASSUME Init  PROVE PlacesInv
BY DEF Init, PlacesInv

LEMMA PlacesKept ==
  ASSUME TypeOK, PlacesInv, UNCHANGED <<conn, backlog>>,
         \A c \in Clients : cpc'[c] = "idle" => cpc[c] = "idle",
         \A w \in Workers : wpc'[w] = "accept" => wpc[w] = "accept"
  PROVE  PlacesInv'
<1>1. \A i \in 1..Len(backlog) : backlog[i] \in Clients
  BY ElementOfSeq DEF TypeOK
<1>2. \A w \in Workers : conn[w] # NoClient => conn[w] \in Clients
  BY DEF TypeOK
<1> QED
  BY <1>1, <1>2 DEF PlacesInv

LEMMA PlacesStep ==
  ASSUME TypeOK, PlacesInv, [Next]_vars  PROVE PlacesInv'
<1> USE DEF clientVars, workerVars
<1>0. /\ \A i \in 1..Len(backlog) : backlog[i] \in Clients
      /\ \A w \in Workers : conn[w] # NoClient => conn[w] \in Clients
  BY ElementOfSeq DEF TypeOK
<1>1. CASE UNCHANGED vars
  BY <1>1, PlacesKept DEF vars
<1>2. ASSUME NEW c \in Clients, Connect(c)  PROVE PlacesInv'
  <2>1. /\ backlog = <<>> /\ backlog' = <<c>>
        /\ cpc[c] = "idle" /\ conn' = conn /\ wpc' = wpc
        /\ cpc' = [cpc EXCEPT ![c] = "sending"]
    <3>1. backlog \in Seq(Clients) /\ Len(backlog) <= 0
      BY <1>2 DEF Connect, TypeOK
    <3>2. backlog = <<>>
      BY <3>1, EmptySeq
    <3> QED
      BY <1>2, <3>2 DEF Connect
  <2>2. \A w \in Workers : conn[w] # c
    BY <2>1, ClientsAssumption DEF PlacesInv
  <2>3. cpc'[c] = "sending" /\ \A d \in Clients : d # c => cpc'[d] = cpc[d]
    BY <2>1 DEF TypeOK
  <2>4. Len(backlog') = 1 /\ backlog'[1] = c
    BY <2>1
  <2> QED
    BY <1>0, <2>1, <2>2, <2>3, <2>4 DEF PlacesInv
<1>3. ASSUME NEW c \in Clients, ClientStep(c) \/ Leave(c)  PROVE PlacesInv'
  BY <1>3, PlacesKept
     DEF ClientStep, Send, CallFails, Receive, Finish, Leave, Returns, TypeOK
<1>4. ASSUME NEW w \in Workers, Accept(w)  PROVE PlacesInv'
  <2>1. /\ Len(backlog) \in Nat \ {0} /\ Len(backlog') = Len(backlog) - 1
        /\ \A i \in 1..Len(backlog') : backlog'[i] = backlog[i + 1]
        /\ Head(backlog) = backlog[1]
    BY <1>4, TailFacts DEF Accept, TypeOK
  <2>2. /\ conn[w] = NoClient /\ conn'[w] = backlog[1] /\ wpc'[w] = "recv"
        /\ \A v \in Workers : v # w => conn'[v] = conn[v] /\ wpc'[v] = wpc[v]
        /\ cpc' = cpc
    BY <1>4, <2>1 DEF Accept, PlacesInv, TypeOK
  <2>3. 1 \in 1..Len(backlog) /\ \A i \in 1..Len(backlog') : i + 1 \in 1..Len(backlog) /\ i + 1 # 1
    BY <2>1
  <2>4. \A v \in Workers : wpc'[v] = "accept" => conn'[v] = NoClient
    BY <2>2 DEF PlacesInv
  <2>5. \A u, v \in Workers : conn'[u] = conn'[v] /\ conn'[u] # NoClient => u = v
    BY <2>2, <2>3 DEF PlacesInv
  <2>6. \A i, j \in 1..Len(backlog') : backlog'[i] = backlog'[j] => i = j
    <3> TAKE i, j \in 1..Len(backlog')
    <3>1. backlog[i + 1] = backlog[j + 1] => i + 1 = j + 1
      BY <2>3 DEF PlacesInv
    <3> QED
      BY <2>1, <3>1
  <2>7. \A i \in 1..Len(backlog'), v \in Workers : conn'[v] # backlog'[i]
    BY <2>1, <2>2, <2>3 DEF PlacesInv
  <2>8. /\ \A i \in 1..Len(backlog') : cpc'[backlog'[i]] # "idle"
        /\ \A v \in Workers : conn'[v] # NoClient => cpc'[conn'[v]] # "idle"
    BY <2>1, <2>2, <2>3 DEF PlacesInv
  <2> QED
    BY <2>4, <2>5, <2>6, <2>7, <2>8 DEF PlacesInv
<1>5. ASSUME NEW w \in Workers, Close(w)  PROVE PlacesInv'
  <2>1. /\ conn'[w] = NoClient /\ wpc'[w] = "accept"
        /\ \A v \in Workers : v # w => conn'[v] = conn[v] /\ wpc'[v] = wpc[v]
        /\ cpc' = cpc /\ backlog' = backlog
    BY <1>5 DEF Close, TypeOK
  <2> QED
    BY <1>0, <2>1, ClientsAssumption DEF PlacesInv
<1>6. ASSUME NEW w \in Workers,
             \/ Recv(w) \/ RecvEof(w) \/ Refuse(w) \/ Begin(w) \/ Arm(w)
             \/ Collect(w) \/ Write(w) \/ WorkerDies(w) \/ BoxesGone(w)
      PROVE  PlacesInv'
  BY <1>6, PlacesKept
     DEF Recv, RecvEof, Refuse, Respond, Begin, Arm, Collect, Write, WorkerDies,
         BoxesGone, TypeOK
<1> QED
  BY <1>1, <1>2, <1>3, <1>4, <1>5, <1>6
     DEF Next, WorkerStep, DecodeFails, SetTaskFails, WriteFails, Killed, BoxFails
-----------------------------------------------------------------------------
(* The requests on their way.                                              *)

Queued(c) == \E i \in 1..Len(backlog) : backlog[i] = c

Over(c) == ~Queued(c) /\ \A w \in Workers : conn[w] # c

\* What is read and what is coming are n pieces of c's request, in order, and
\* there is more to read.
Begins(c, read, coming, n) ==
  /\ Len(read) < Pieces
  /\ Len(read) + Len(coming) = n
  /\ \A i \in 1..Len(coming) : coming[i] = <<c, Len(read) + i>>

\* What is on its way and what is read are the beginning of the request, in
\* order; a request is processed when all of it is read, unless its client has
\* left; and no connection is over before that.
UpInv ==
  /\ \A c \in Clients : cpc[c] = "idle" => up[c] = <<>>
  /\ \A c \in Clients : Queued(c) =>
       Len(up[c]) = sent[c] /\ \A i \in 1..Len(up[c]) : up[c][i] = <<c, i>>
  /\ \A w \in Workers : wpc[w] = "recv" =>
       Begins(conn[w], request[w], up[conn[w]], sent[conn[w]])
  /\ \A w \in Workers : wpc[w] \notin {"accept", "dead"} =>
       \A i \in 1..Len(request[w]) : request[w][i] = <<conn[w], i>>
  /\ \A w \in Workers : wpc[w] \in {"process", "run", "reply"} =>
       \/ cpc[conn[w]] = "gone"
       \/ /\ Len(request[w]) = Pieces /\ up[conn[w]] = <<>>
          /\ sent[conn[w]] = Pieces
  /\ \A c \in Clients : Over(c) =>
       /\ cpc[c] # "sending"
       /\ cpc[c] = "waiting" => up[c] = <<>>

LEMMA UpInit ==
  ASSUME Init  PROVE UpInv
BY DEF Init, UpInv, Queued, Over

\* A client moves on to the end of its call, if it moves.
ClientMoves ==
  \A c \in Clients :
    \/ cpc'[c] = cpc[c]
    \/ cpc[c] # "gone" /\ cpc'[c] \in {"done", "gone"}

\* A step that moves no piece of a request.
LEMMA UpKept ==
  ASSUME TypeOK, UpInv, UNCHANGED <<sent, up, backlog, conn, request>>, ClientMoves,
         \A w \in Workers :
           \/ wpc'[w] = wpc[w]
           \/ wpc'[w] = "dead"
           \/ wpc[w] \in {"process", "run"} /\ wpc'[w] \in {"run", "reply"}
           \/ wpc[w] = "recv" /\ wpc'[w] = "process" /\ cpc[conn[w]] = "gone"
  PROVE  UpInv'
<1>1. \A c \in Clients : /\ cpc[c] = "gone" => cpc'[c] = "gone"
                         /\ cpc'[c] = "idle" => cpc[c] = "idle"
                         /\ cpc'[c] = "sending" => cpc[c] = "sending"
                         /\ cpc'[c] = "waiting" => cpc[c] = "waiting"
  BY DEF ClientMoves
<1>2. \A w \in Workers : wpc[w] \notin {"accept", "dead"} => conn[w] \in Clients
  BY DEF TypeOK
<1>3. \A w \in Workers :
        /\ wpc'[w] = "recv" => wpc[w] = "recv"
        /\ wpc'[w] \notin {"accept", "dead"} => wpc[w] \notin {"accept", "dead"}
        /\ wpc'[w] \in {"process", "run", "reply"} =>
             \/ wpc[w] \in {"process", "run", "reply"}
             \/ wpc[w] = "recv" /\ cpc[conn[w]] = "gone"
  OBVIOUS
<1>4. \A c \in Clients : (Queued(c)' <=> Queued(c)) /\ (Over(c)' <=> Over(c))
  BY DEF Queued, Over
<1>5. /\ \A c \in Clients : cpc'[c] = "idle" => up'[c] = <<>>
      /\ \A c \in Clients : Queued(c)' =>
           Len(up'[c]) = sent'[c] /\ \A i \in 1..Len(up'[c]) : up'[c][i] = <<c, i>>
      /\ \A c \in Clients : Over(c)' =>
           /\ cpc'[c] # "sending"
           /\ cpc'[c] = "waiting" => up'[c] = <<>>
  BY <1>1, <1>4 DEF UpInv
<1>6. \A w \in Workers : wpc'[w] = "recv" =>
        Begins(conn'[w], request'[w], up'[conn'[w]], sent'[conn'[w]])
  BY <1>3 DEF UpInv
<1>7. \A w \in Workers : wpc'[w] \notin {"accept", "dead"} =>
        \A i \in 1..Len(request'[w]) : request'[w][i] = <<conn'[w], i>>
  BY <1>3 DEF UpInv
<1>8. \A w \in Workers : wpc'[w] \in {"process", "run", "reply"} =>
        \/ cpc'[conn'[w]] = "gone"
        \/ /\ Len(request'[w]) = Pieces /\ up'[conn'[w]] = <<>>
           /\ sent'[conn'[w]] = Pieces
  BY <1>1, <1>2, <1>3 DEF UpInv
<1> QED
  BY <1>5, <1>6, <1>7, <1>8 DEF UpInv

LEMMA ConnectUp ==
  ASSUME TypeOK, ProgressInv, PlacesInv, UpInv, NEW c \in Clients, Connect(c)
  PROVE  UpInv'
<1>1. /\ backlog \in Seq(Clients) /\ Len(backlog) <= 0
      /\ backlog' = Append(backlog, c)
      /\ cpc[c] = "idle" /\ cpc' = [cpc EXCEPT ![c] = "sending"]
      /\ UNCHANGED <<sent, up, conn, request, wpc>>
  BY DEF Connect, TypeOK, clientVars, workerVars
<1>2. backlog' = <<c>>
  <2>1. backlog = <<>>
    BY <1>1, EmptySeq
  <2> QED
    BY <1>1, <2>1
<1>3. Len(backlog') = 1 /\ backlog'[1] = c
  BY <1>2
<1>4. up[c] = <<>> /\ sent[c] = 0
  BY <1>1 DEF UpInv, ProgressInv
<1>5. \A d \in Clients : /\ Queued(d)' <=> d = c
                         /\ Over(d)' => Over(d) /\ d # c
  <2>1. \A d \in Clients : Queued(d)' <=> d = c
    BY <1>3 DEF Queued
  <2>2. \A d \in Clients : ~Queued(d)
    BY <1>1 DEF Queued
  <2> QED
    BY <1>1, <2>1, <2>2 DEF Over
<1>6. \A d \in Clients : d # c => cpc'[d] = cpc[d]
  BY <1>1 DEF TypeOK
<1>7. \A w \in Workers : wpc[w] \notin {"accept", "dead"} =>
        conn[w] \in Clients /\ conn[w] # c
  BY <1>1, ClientsAssumption DEF PlacesInv, TypeOK
<1>8. cpc'[c] = "sending"
  BY <1>1 DEF TypeOK
<1>9. /\ Len(up[c]) = sent[c] /\ \A i \in 1..Len(up[c]) : up[c][i] = <<c, i>>
  BY <1>4
<1>10. /\ \A d \in Clients : cpc'[d] = "idle" => up'[d] = <<>>
       /\ \A d \in Clients : Queued(d)' =>
            Len(up'[d]) = sent'[d] /\ \A i \in 1..Len(up'[d]) : up'[d][i] = <<d, i>>
       /\ \A d \in Clients : Over(d)' =>
            /\ cpc'[d] # "sending"
            /\ cpc'[d] = "waiting" => up'[d] = <<>>
  BY <1>1, <1>5, <1>6, <1>8, <1>9 DEF UpInv
<1>11. \A w \in Workers : wpc'[w] \in {"process", "run", "reply"} =>
         \/ cpc'[conn'[w]] = "gone"
         \/ /\ Len(request'[w]) = Pieces /\ up'[conn'[w]] = <<>>
            /\ sent'[conn'[w]] = Pieces
  BY <1>1, <1>6, <1>7 DEF UpInv
<1> QED
  BY <1>1, <1>10, <1>11 DEF UpInv

LEMMA SendUp ==
  ASSUME TypeOK, ProgressInv, PlacesInv, UpInv, NEW c \in Clients, Send(c)
  PROVE  UpInv'
<1> DEFINE n == sent[c]
<1>1. /\ cpc[c] = "sending" /\ n \in Nat /\ n < Pieces /\ PeerOpen(c)
      /\ UNCHANGED <<backlog, conn, request, wpc>>
  BY DEF Send, TypeOK, ProgressInv, clientVars, workerVars
<1>2. /\ sent'[c] = n + 1 /\ cpc'[c] \in {"sending", "waiting"}
      /\ \A d \in Clients :
           d # c => up'[d] = up[d] /\ sent'[d] = sent[d] /\ cpc'[d] = cpc[d]
  BY DEF Send, TypeOK
<1>3. Message(c)[n + 1] = <<c, n + 1>> /\ <<c, n + 1>> \in RequestPiece
  <2>1. n + 1 \in 1..Pieces
    BY <1>1, PiecesAssumption
  <2> QED
    BY <2>1, MessageFacts DEF RequestPiece
<1>4. /\ up[c] \in Seq(RequestPiece) /\ Len(up[c]) \in Nat
      /\ Len(up'[c]) = Len(up[c]) + 1
      /\ \A i \in 1..Len(up[c]) : up'[c][i] = up[c][i]
      /\ up'[c][Len(up[c]) + 1] = <<c, n + 1>>
  <2>1. up[c] \in Seq(RequestPiece) /\ up'[c] = Append(up[c], <<c, n + 1>>)
    BY <1>3 DEF Send, TypeOK, RequestPiece
  <2> QED
    BY <1>3, <2>1, AppendFacts, LenProperties
<1>5. \A d \in Clients : (Queued(d)' <=> Queued(d)) /\ (Over(d)' <=> Over(d))
  BY <1>1 DEF Queued, Over
<1>6. ~Over(c)
  BY <1>1 DEF PeerOpen, Over, Queued
<1>7. \A w \in Workers : wpc[w] \in {"process", "run", "reply"} => conn[w] # c
  BY <1>1 DEF UpInv
<1>8. ASSUME Queued(c)
      PROVE  /\ Len(up'[c]) = sent'[c]
             /\ \A i \in 1..Len(up'[c]) : up'[c][i] = <<c, i>>
  <2>1. Len(up[c]) = n /\ \A i \in 1..Len(up[c]) : up[c][i] = <<c, i>>
    BY <1>8 DEF UpInv
  <2> HIDE DEF n
  <2>2. \A i \in 1..Len(up'[c]) : i \in 1..Len(up[c]) \/ i = Len(up[c]) + 1
    BY <1>4
  <2> QED
    BY <1>2, <1>4, <2>1, <2>2
<1>9. ASSUME NEW w \in Workers, wpc[w] = "recv", conn[w] = c
      PROVE  Begins(c, request[w], up'[c], sent'[c])
  <2>1. Len(request[w]) \in Nat
    BY DEF TypeOK
  <2>2. /\ Len(request[w]) < Pieces
        /\ Len(request[w]) + Len(up[c]) = n
        /\ \A i \in 1..Len(up[c]) : up[c][i] = <<c, Len(request[w]) + i>>
    BY <1>9 DEF UpInv, Begins
  <2>3. Len(request[w]) + (Len(up[c]) + 1) = n + 1
    <3>1. PICK a \in Nat : a = Len(request[w])
      BY <2>1
    <3>2. PICK b \in Nat : b = Len(up[c])
      BY <1>4
    <3>3. a + b = n
      BY <2>2, <3>1, <3>2
    <3>4. a + (b + 1) = n + 1
      BY <3>3
    <3> QED
      BY <3>1, <3>2, <3>4
  <2>4. ASSUME NEW i \in 1..Len(up'[c])
        PROVE  up'[c][i] = <<c, Len(request[w]) + i>>
    <3>1. CASE i = Len(up[c]) + 1
      BY <1>4, <2>3, <3>1
    <3>2. CASE i # Len(up[c]) + 1
      <4>1. i \in 1..Len(up[c])
        BY <1>4, <3>2
      <4> QED
        BY <1>4, <2>2, <4>1
    <3> QED
      BY <3>1, <3>2
  <2> QED
    BY <1>2, <1>4, <2>2, <2>3, <2>4 DEF Begins
<1>10. \A w \in Workers : wpc[w] \notin {"accept", "dead"} => conn[w] \in Clients
  BY DEF TypeOK
<1>11. /\ \A d \in Clients : cpc'[d] = "idle" => up'[d] = <<>>
       /\ \A d \in Clients : Queued(d)' =>
            Len(up'[d]) = sent'[d] /\ \A i \in 1..Len(up'[d]) : up'[d][i] = <<d, i>>
       /\ \A d \in Clients : Over(d)' =>
            /\ cpc'[d] # "sending"
            /\ cpc'[d] = "waiting" => up'[d] = <<>>
  BY <1>2, <1>5, <1>6, <1>8 DEF UpInv
<1>12. \A w \in Workers : wpc'[w] = "recv" =>
         Begins(conn'[w], request'[w], up'[conn'[w]], sent'[conn'[w]])
  <2> TAKE w \in Workers
  <2>1. CASE conn[w] = c
    BY <1>1, <1>9, <2>1 DEF UpInv
  <2>2. CASE conn[w] # c
    BY <1>1, <1>2, <1>10, <2>2 DEF UpInv
  <2> QED
    BY <2>1, <2>2
<1>13. \A w \in Workers : wpc'[w] \in {"process", "run", "reply"} =>
         \/ cpc'[conn'[w]] = "gone"
         \/ /\ Len(request'[w]) = Pieces /\ up'[conn'[w]] = <<>>
            /\ sent'[conn'[w]] = Pieces
  BY <1>1, <1>2, <1>7, <1>10 DEF UpInv
<1> QED
  BY <1>1, <1>11, <1>12, <1>13 DEF UpInv

\* What becomes of the backlog when its first connection is accepted.
LEMMA AcceptPlaces ==
  ASSUME TypeOK, PlacesInv, NEW w \in Workers, Accept(w)
  PROVE  \E c \in Clients :
           /\ Queued(c) /\ ~Queued(c)' /\ conn'[w] = c /\ conn[w] = NoClient
           /\ wpc[w] = "accept" /\ wpc'[w] = "recv"
           /\ \A v \in Workers : v # w =>
                /\ conn'[v] = conn[v] /\ wpc'[v] = wpc[v]
                /\ request'[v] = request[v] /\ out'[v] = out[v]
           /\ request'[w] = <<>>
           /\ \A d \in Clients : d # c => (Queued(d)' <=> Queued(d))
           /\ \A d \in Clients : Over(d)' => Over(d)
           /\ UNCHANGED <<cpc, asked, sent, got, result, up, down>>
<1> USE DEF clientVars, workerVars
<1>1. /\ Len(backlog) \in Nat \ {0} /\ Len(backlog') = Len(backlog) - 1
      /\ \A i \in 1..Len(backlog') : backlog'[i] = backlog[i + 1]
      /\ Head(backlog) = backlog[1] /\ backlog[1] \in Clients
  BY TailFacts DEF Accept, TypeOK
<1>0. PICK c \in Clients : c = backlog[1]
  BY <1>1
<1>2. /\ conn[w] = NoClient /\ conn'[w] = c /\ wpc[w] = "accept" /\ wpc'[w] = "recv"
      /\ \A v \in Workers : v # w =>
           /\ conn'[v] = conn[v] /\ wpc'[v] = wpc[v]
           /\ request'[v] = request[v] /\ out'[v] = out[v]
      /\ request'[w] = <<>>
      /\ UNCHANGED <<cpc, asked, sent, got, result, up, down>>
  BY <1>0, <1>1 DEF Accept, PlacesInv, TypeOK
<1>3. /\ 1 \in 1..Len(backlog)
      /\ \A i \in 1..Len(backlog') : i + 1 \in 1..Len(backlog) /\ i + 1 # 1
      /\ \A i \in 1..Len(backlog) : i = 1 \/ i - 1 \in 1..Len(backlog')
  BY <1>1
<1>4. Queued(c)
  BY <1>0, <1>3 DEF Queued
<1>5. ~Queued(c)'
  BY <1>0, <1>1, <1>3 DEF Queued, PlacesInv
<1>6. ASSUME NEW d \in Clients, d # c  PROVE Queued(d)' <=> Queued(d)
  <2>1. Queued(d)' => Queued(d)
    BY <1>1, <1>3 DEF Queued
  <2>2. ASSUME NEW i \in 1..Len(backlog), backlog[i] = d  PROVE Queued(d)'
    <3>1. i - 1 \in 1..Len(backlog')
      BY <1>0, <1>3, <1>6, <2>2
    <3>2. backlog'[i - 1] = backlog[(i - 1) + 1]
      BY <1>1, <3>1
    <3> QED
      BY <2>2, <3>1, <3>2 DEF Queued
  <2> QED
    BY <2>1, <2>2 DEF Queued
<1>7. ASSUME NEW d \in Clients, Over(d)'  PROVE Over(d)
  <2>1. d # c
    BY <1>2, <1>7 DEF Over
  <2>2. ~Queued(d)
    BY <1>6, <1>7, <2>1 DEF Over
  <2>3. \A v \in Workers : conn[v] # d
    BY <1>2, <1>7, ClientsAssumption DEF Over
  <2> QED
    BY <2>2, <2>3 DEF Over
<1> QED
  BY <1>1, <1>2, <1>4, <1>5, <1>6, <1>7

LEMMA AcceptUp ==
  ASSUME TypeOK, PlacesInv, UpInv, NEW w \in Workers, Accept(w)
  PROVE  UpInv'
<1>1. PICK c \in Clients :
        /\ Queued(c) /\ ~Queued(c)' /\ conn'[w] = c
        /\ wpc'[w] = "recv"
        /\ \A v \in Workers : v # w =>
             conn'[v] = conn[v] /\ wpc'[v] = wpc[v] /\ request'[v] = request[v]
        /\ request'[w] = <<>>
        /\ \A d \in Clients : d # c => (Queued(d)' <=> Queued(d))
        /\ \A d \in Clients : Over(d)' => Over(d)
        /\ UNCHANGED <<cpc, sent, up>>
  BY AcceptPlaces
<1>2. Len(up[c]) = sent[c] /\ \A i \in 1..Len(up[c]) : up[c][i] = <<c, i>>
  BY <1>1 DEF UpInv
<1>3. Len(request'[w]) = 0 /\ 0 < Pieces
  BY <1>1, PiecesAssumption
<1>4. Len(up[c]) \in Nat /\ \A i \in 1..Len(up[c]) : 0 + i = i
  BY DEF TypeOK
<1>5. Begins(c, request'[w], up[c], sent[c])
  BY <1>2, <1>3, <1>4 DEF Begins
<1>6. \A v \in Workers : wpc'[v] = "recv" =>
        Begins(conn'[v], request'[v], up'[conn'[v]], sent'[conn'[v]])
  <2> TAKE v \in Workers
  <2>1. CASE v = w
    BY <1>1, <1>5, <2>1
  <2>2. CASE v # w
    BY <1>1, <2>2 DEF UpInv
  <2> QED
    BY <2>1, <2>2
<1>7. \A v \in Workers : wpc'[v] \notin {"accept", "dead"} =>
        \A i \in 1..Len(request'[v]) : request'[v][i] = <<conn'[v], i>>
  BY <1>1, <1>3 DEF UpInv
<1>8. \A v \in Workers : wpc'[v] \in {"process", "run", "reply"} =>
        \/ cpc'[conn'[v]] = "gone"
        \/ /\ Len(request'[v]) = Pieces /\ up'[conn'[v]] = <<>>
           /\ sent'[conn'[v]] = Pieces
  BY <1>1 DEF UpInv
<1>9. /\ \A d \in Clients : cpc'[d] = "idle" => up'[d] = <<>>
      /\ \A d \in Clients : Queued(d)' =>
           Len(up'[d]) = sent'[d] /\ \A i \in 1..Len(up'[d]) : up'[d][i] = <<d, i>>
      /\ \A d \in Clients : Over(d)' =>
           /\ cpc'[d] # "sending"
           /\ cpc'[d] = "waiting" => up'[d] = <<>>
  BY <1>1 DEF UpInv
<1> QED
  BY <1>6, <1>7, <1>8, <1>9 DEF UpInv

LEMMA RecvUp ==
  ASSUME TypeOK, PlacesInv, UpInv, NEW w \in Workers, Recv(w)
  PROVE  UpInv'
<1> DEFINE c == conn[w]
           r == Len(request[w])
           l == Len(up[c])
<1>1. /\ wpc[w] = "recv" /\ c \in Clients /\ up[c] # <<>>
      /\ UNCHANGED <<cpc, sent, backlog, conn>>
  BY DEF Recv, TypeOK, clientVars
<1>2. /\ up[c] \in Seq(RequestPiece) /\ l \in Nat \ {0}
      /\ Head(up[c]) = up[c][1] /\ Head(up[c]) \in RequestPiece
      /\ Len(Tail(up[c])) = l - 1
      /\ \A i \in 1..(l - 1) : Tail(up[c])[i] = up[c][i + 1]
      /\ Tail(up[c]) \in Seq(RequestPiece)
  <2>1. up[c] \in Seq(RequestPiece)
    BY <1>1 DEF TypeOK, RequestPiece
  <2> QED
    BY <1>1, <2>1, TailFacts
<1>3. /\ request[w] \in Seq(RequestPiece) /\ r \in Nat
      /\ r < Pieces /\ r + l = sent[c]
      /\ \A i \in 1..l : up[c][i] = <<c, r + i>>
      /\ \A i \in 1..r : request[w][i] = <<c, i>>
  <2>1. request[w] \in Seq(RequestPiece)
    BY DEF TypeOK, RequestPiece
  <2> QED
    BY <1>1, <2>1, LenProperties DEF UpInv, Begins
<1>4. Head(up[c]) = <<c, r + 1>>
  <2>1. 1 \in 1..l
    BY <1>2
  <2> QED
    BY <1>2, <1>3, <2>1
<1>5. /\ request' = [request EXCEPT ![w] = Append(request[w], <<c, r + 1>>)]
      /\ up' = [up EXCEPT ![c] = Tail(up[c])]
      /\ wpc' = [wpc EXCEPT ![w] = IF r + 1 = Pieces THEN "process" ELSE wpc[w]]
  <2>1. Head(up[c])[2] = r + 1
    BY <1>4
  <2> HIDE DEF r
  <2> QED
    BY <1>4, <2>1 DEF Recv
<1>6. /\ Len(request'[w]) = r + 1
      /\ \A i \in 1..(r + 1) : request'[w][i] = <<c, i>>
  <2>1. request'[w] = Append(request[w], <<c, r + 1>>)
    BY <1>5 DEF TypeOK
  <2>2. <<c, r + 1>> \in RequestPiece
    BY <1>2, <1>4
  <2>3. /\ Len(request'[w]) = r + 1
        /\ \A i \in 1..r : request'[w][i] = request[w][i]
        /\ request'[w][r + 1] = <<c, r + 1>>
    BY <1>3, <2>1, <2>2, AppendFacts
  <2>4. \A i \in 1..(r + 1) : i \in 1..r \/ i = r + 1
    BY <1>3
  <2> QED
    BY <1>3, <2>3, <2>4
<1>7. /\ Len(up'[c]) = l - 1
      /\ \A i \in 1..(l - 1) : up'[c][i] = <<c, (r + 1) + i>>
      /\ \A d \in Clients : d # c => up'[d] = up[d]
  <2>1. up'[c] = Tail(up[c]) /\ \A d \in Clients : d # c => up'[d] = up[d]
    BY <1>1, <1>5 DEF TypeOK
  <2>2. ASSUME NEW i \in 1..(l - 1)  PROVE up'[c][i] = <<c, (r + 1) + i>>
    <3>1. i + 1 \in 1..l /\ r + (i + 1) = (r + 1) + i
      <4>1. PICK a \in Nat, b \in Nat : a = r /\ b = l
        BY <1>2, <1>3
      <4>2. i \in 1..(b - 1)
        BY <4>1
      <4>3. i + 1 \in 1..b /\ a + (i + 1) = (a + 1) + i
        BY <4>2
      <4> QED
        BY <4>1, <4>3
    <3>2. up'[c][i] = up[c][i + 1] /\ up[c][i + 1] = <<c, r + (i + 1)>>
      BY <1>2, <1>3, <2>1, <3>1
    <3> QED
      BY <3>1, <3>2
  <2> QED
    BY <1>2, <2>1, <2>2
<1>8. /\ \A v \in Workers : v # w =>
           request'[v] = request[v] /\ wpc'[v] = wpc[v] /\ conn[v] # c
      /\ wpc'[w] = IF r + 1 = Pieces THEN "process" ELSE "recv"
  BY <1>1, <1>5, ClientsAssumption DEF PlacesInv, TypeOK
<1>9. /\ \A d \in Clients : (Queued(d)' <=> Queued(d)) /\ (Over(d)' <=> Over(d))
      /\ ~Queued(c) /\ ~Over(c) /\ cpc[c] # "idle"
  BY <1>1, ClientsAssumption DEF Queued, Over, PlacesInv
<1>10. r + 1 = Pieces => up'[c] = <<>> /\ sent[c] = Pieces
  <2> SUFFICES ASSUME r + 1 = Pieces  PROVE up'[c] = <<>> /\ sent[c] = Pieces
    OBVIOUS
  <2>1. sent[c] \in 0..Pieces
    BY <1>1 DEF TypeOK
  <2>2. PICK a \in Nat, b \in Nat \ {0} : a = r /\ b = l
    BY <1>2, <1>3
  <2>3. a + b = sent[c] /\ a + 1 = Pieces
    BY <1>3, <2>2
  <2>4. b = 1 /\ sent[c] = Pieces
    <3>1. PICK x \in Nat : x = sent[c] /\ x <= Pieces
      BY <2>1, PiecesAssumption
    <3>2. a + b = x /\ a + 1 = Pieces /\ x <= Pieces
      BY <2>3, <3>1
    <3>3. b = 1 /\ x = Pieces
      BY <3>2, PiecesAssumption
    <3> QED
      BY <3>1, <3>3
  <2>5. Len(up'[c]) = 0
    BY <1>7, <2>2, <2>4
  <2>6. up'[c] \in Seq(RequestPiece)
    BY <1>1, <1>2, <1>5 DEF TypeOK
  <2> QED
    BY <2>4, <2>5, <2>6, EmptySeq
<1>11. r + 1 # Pieces => r + 1 < Pieces
  BY <1>3, PiecesAssumption
<1>12. (r + 1) + (l - 1) = sent[c]
  <2>1. PICK a \in Nat, b \in Nat : a = r /\ b = l
    BY <1>2, <1>3
  <2>2. a + b = sent[c]
    BY <1>3, <2>1
  <2>3. (a + 1) + (b - 1) = a + b
    OBVIOUS
  <2> QED
    BY <2>1, <2>2, <2>3
<1>13. \A v \in Workers : wpc[v] \notin {"accept", "dead"} => conn[v] \in Clients
  BY DEF TypeOK
<1> HIDE DEF c, r, l
<1>14. \A v \in Workers : wpc'[v] = "recv" =>
         Begins(conn'[v], request'[v], up'[conn'[v]], sent'[conn'[v]])
  <2> TAKE v \in Workers
  <2>1. CASE v = w
    BY <1>1, <1>6, <1>7, <1>8, <1>11, <1>12, <2>1 DEF c, Begins
  <2>2. CASE v # w
    BY <1>1, <1>7, <1>8, <1>13, <2>2 DEF UpInv
  <2> QED
    BY <2>1, <2>2
<1>15. \A v \in Workers : wpc'[v] \notin {"accept", "dead"} =>
         \A i \in 1..Len(request'[v]) : request'[v][i] = <<conn'[v], i>>
  <2> TAKE v \in Workers
  <2>1. CASE v = w
    BY <1>1, <1>6, <2>1 DEF c
  <2>2. CASE v # w
    BY <1>1, <1>8, <2>2 DEF UpInv
  <2> QED
    BY <2>1, <2>2
<1>16. \A v \in Workers : wpc'[v] \in {"process", "run", "reply"} =>
         \/ cpc'[conn'[v]] = "gone"
         \/ /\ Len(request'[v]) = Pieces /\ up'[conn'[v]] = <<>>
            /\ sent'[conn'[v]] = Pieces
  <2> TAKE v \in Workers
  <2>1. CASE v = w
    BY <1>1, <1>6, <1>8, <1>10, <2>1 DEF c
  <2>2. CASE v # w
    BY <1>1, <1>7, <1>8, <1>13, <2>2 DEF UpInv
  <2> QED
    BY <2>1, <2>2
<1>17. /\ \A d \in Clients : cpc'[d] = "idle" => up'[d] = <<>>
       /\ \A d \in Clients : Queued(d)' =>
            Len(up'[d]) = sent'[d] /\ \A i \in 1..Len(up'[d]) : up'[d][i] = <<d, i>>
       /\ \A d \in Clients : Over(d)' =>
            /\ cpc'[d] # "sending"
            /\ cpc'[d] = "waiting" => up'[d] = <<>>
  BY <1>1, <1>7, <1>9 DEF UpInv
<1> QED
  BY <1>14, <1>15, <1>16, <1>17 DEF UpInv

LEMMA CloseUp ==
  ASSUME TypeOK, ProgressInv, PlacesInv, UpInv, NEW w \in Workers, Close(w)
  PROVE  UpInv'
<1>1. /\ wpc[w] = "reply" /\ conn[w] \in Clients
      /\ conn'[w] = NoClient /\ wpc'[w] = "accept"
      /\ \A v \in Workers : v # w => conn'[v] = conn[v] /\ wpc'[v] = wpc[v]
      /\ UNCHANGED <<cpc, sent, up, request, backlog>>
  BY DEF Close, TypeOK, clientVars
<1>2. \A d \in Clients : Queued(d)' <=> Queued(d)
  BY <1>1 DEF Queued
<1>3. \A d \in Clients : Over(d)' => Over(d) \/ d = conn[w]
  BY <1>1, <1>2 DEF Over
<1>4. /\ cpc[conn[w]] # "sending"
      /\ cpc[conn[w]] = "waiting" => up[conn[w]] = <<>>
  <2>1. \/ cpc[conn[w]] = "gone"
        \/ up[conn[w]] = <<>> /\ sent[conn[w]] = Pieces
    BY <1>1 DEF UpInv
  <2> QED
    BY <1>1, <2>1, PiecesAssumption DEF ProgressInv
<1> QED
  BY <1>1, <1>2, <1>3, <1>4 DEF UpInv

LEMMA UpStep ==
  ASSUME TypeOK, ProgressInv, PlacesInv, UpInv, [Next]_vars
  PROVE  UpInv'
<1> USE DEF clientVars, workerVars
<1>0. UNCHANGED cpc => ClientMoves
  BY DEF ClientMoves
<1>1. CASE UNCHANGED vars
  <2>1. UNCHANGED <<cpc, sent, up, backlog, conn, request, wpc>>
    BY <1>1 DEF vars
  <2> QED
    BY <1>0, <2>1, UpKept
<1>2. ASSUME NEW c \in Clients, CallFails(c) \/ Receive(c) \/ Finish(c) \/ Leave(c)
      PROVE  UpInv'
  <2>1. cpc' = cpc \/ \E pc \in {"done", "gone"} : cpc' = [cpc EXCEPT ![c] = pc]
    BY <1>2 DEF CallFails, Receive, Finish, Leave, Returns
  <2>2. cpc' = cpc \/ cpc[c] # "gone"
    BY <1>2 DEF CallFails, Receive, Finish, Leave, Returns
  <2>3. ClientMoves
    BY <1>0, <2>1, <2>2 DEF ClientMoves, TypeOK
  <2> QED
    BY <1>2, <2>3, UpKept DEF CallFails, Receive, Finish, Leave, Returns
<1>3. ASSUME NEW w \in Workers,
             \/ RecvEof(w) \/ Refuse(w) \/ Begin(w) \/ Arm(w)
             \/ Collect(w) \/ Write(w) \/ WorkerDies(w) \/ BoxesGone(w)
      PROVE  UpInv'
  <2>1. ClientMoves /\ UNCHANGED <<sent, up, backlog, conn, request>>
    BY <1>0, <1>3 DEF RecvEof, Refuse, Respond, Begin, Arm, Collect, Write,
                      WorkerDies, BoxesGone
  <2>2. \A v \in Workers :
          \/ wpc'[v] = wpc[v]
          \/ wpc'[v] = "dead"
          \/ wpc[v] \in {"process", "run"} /\ wpc'[v] \in {"run", "reply"}
          \/ wpc[v] = "recv" /\ wpc'[v] = "process" /\ cpc[conn[v]] = "gone"
    BY <1>3 DEF RecvEof, Refuse, Respond, Begin, Arm, Collect, Write, WorkerDies,
                BoxesGone, TypeOK
  <2> QED
    BY <2>1, <2>2, UpKept
<1> QED
  BY <1>1, <1>2, <1>3, ConnectUp, SendUp, AcceptUp, RecvUp, CloseUp
     DEF Next, ClientStep, WorkerStep, DecodeFails, SetTaskFails, WriteFails, Killed, BoxFails

\* Worker w has read a request of the client it serves.
LEMMA AuthorIsServed ==
  ASSUME TypeOK, UpInv, NEW w \in Workers, wpc[w] \in {"process", "run"},
         Parses(request[w])
  PROVE  Author(w) = conn[w]
<1>1. request[w][1] = <<Author(w), 1>> /\ request[w] = Message(Author(w))
      /\ Author(w) \in Clients
  BY AuthorFacts
<1>2. 1 \in 1..Len(request[w])
  BY <1>1, MessageFacts, PiecesAssumption
<1>3. request[w][1] = <<conn[w], 1>>
  BY <1>2 DEF UpInv
<1> QED
  BY <1>1, <1>3

\* The request of a client that has not left parses.
LEMMA WholeRequestParses ==
  ASSUME TypeOK, UpInv, NEW w \in Workers, wpc[w] = "process",
         cpc[conn[w]] # "gone"
  PROVE  Parses(request[w])
<1>1. conn[w] \in Clients /\ Len(request[w]) = Pieces
  BY DEF UpInv, TypeOK
<1>2. \A i \in 1..Len(request[w]) : request[w][i] = <<conn[w], i>>
  BY DEF UpInv
<1>3. request[w] \in Seq(RequestPiece)
  BY DEF TypeOK, RequestPiece
<1>4. request[w] = Message(conn[w])
  <2>1. /\ Message(conn[w]) \in Seq(RequestPiece)
        /\ Len(request[w]) = Len(Message(conn[w]))
        /\ \A i \in 1..Len(request[w]) : request[w][i] = Message(conn[w])[i]
    BY <1>1, <1>2, MessageFacts
  <2> QED
    BY <1>3, <2>1, SeqEqual
<1> QED
  BY <1>1, <1>4 DEF Parses
-----------------------------------------------------------------------------
(* What ends a worker.                                                     *)

\* A caller does not return while a worker has its connection, or may get it.
ServedInv ==
  /\ \A w \in Workers : wpc[w] \notin {"accept", "dead"} => cpc[conn[w]] # "done"
  /\ Listening => \A i \in 1..Len(backlog) : cpc[backlog[i]] # "done"

LEMMA ServedInit ==
  ASSUME Init  PROVE ServedInv
BY DEF Init, ServedInv

LEMMA ListeningEnds ==
  ASSUME TypeOK, [Next]_vars, Listening'  PROVE Listening
<1> USE DEF clientVars, workerVars
<1>1. PICK w \in Workers : wpc'[w] # "dead" \/ boxes'[w] # "none"
  BY DEF Listening, TableOpen
<1>2. CASE UNCHANGED <<wpc, boxes>>
  BY <1>1, <1>2 DEF Listening, TableOpen
<1>3. ASSUME NEW v \in Workers,
             \/ WorkerStep(v) \/ Collect(v) \/ BoxFails(v)
             \/ Arm(v) \/ Killed(v) \/ BoxesGone(v)
      PROVE  Listening
  <2>1. wpc[v] # "dead" \/ boxes[v] # "none"
    BY <1>3 DEF WorkerStep, Arm, Killed, BoxFails, BoxesGone, Accept, Recv, RecvEof, Refuse,
                DecodeFails, Begin, SetTaskFails, Collect, Write, WriteFails, Close
  <2> QED
    BY <2>1 DEF Listening, TableOpen
<1>4. \/ UNCHANGED <<wpc, boxes>>
      \/ \E v \in Workers : \/ WorkerStep(v) \/ Collect(v) \/ BoxFails(v)
                          \/ Arm(v) \/ Killed(v) \/ BoxesGone(v)
  BY DEF Next, vars, Connect, ClientStep, Send, CallFails, Receive, Finish, Leave,
         Returns
<1> QED
  BY <1>2, <1>3, <1>4

LEMMA ServedStep ==
  ASSUME TypeOK, ProgressInv, PlacesInv, ServedInv, [Next]_vars
  PROVE  ServedInv'
<1> USE DEF clientVars, workerVars
<1>0. /\ \A i \in 1..Len(backlog) : backlog[i] \in Clients
      /\ \A w \in Workers : wpc[w] \notin {"accept", "dead"} => conn[w] \in Clients
  BY ElementOfSeq DEF TypeOK
<1>1. ASSUME UNCHANGED <<conn, backlog>>,
             \A c \in Clients : cpc'[c] = "done" => cpc[c] = "done",
             \A w \in Workers :
               wpc'[w] \notin {"accept", "dead"} => wpc[w] \notin {"accept", "dead"}
      PROVE  ServedInv'
  BY <1>0, <1>1, ListeningEnds DEF ServedInv
<1>2. CASE UNCHANGED vars
  BY <1>1, <1>2 DEF vars
<1>3. ASSUME NEW c \in Clients, Connect(c)  PROVE ServedInv'
  <2>1. /\ backlog \in Seq(Clients) /\ Len(backlog) <= 0
        /\ backlog' = Append(backlog, c)
        /\ cpc' = [cpc EXCEPT ![c] = "sending"]
        /\ UNCHANGED <<conn, wpc>>
    BY <1>3 DEF Connect, TypeOK
  <2>2. backlog = <<>>
    BY <2>1, EmptySeq
  <2>3. Len(backlog') = 1 /\ backlog'[1] = c
    BY <2>1, <2>2
  <2>4. \A d \in Clients : cpc'[d] = "done" => cpc[d] = "done" /\ d # c
    BY <2>1 DEF TypeOK
  <2> QED
    BY <1>0, <2>1, <2>3, <2>4 DEF ServedInv
<1>4. ASSUME NEW c \in Clients, Send(c) \/ Receive(c) \/ Leave(c)
      PROVE  ServedInv'
  BY <1>1, <1>4 DEF Send, Receive, Leave, TypeOK
<1>5. ASSUME NEW c \in Clients, CallFails(c) \/ Finish(c)  PROVE ServedInv'
  <2>1. /\ cpc' = [cpc EXCEPT ![c] = "done"]
        /\ UNCHANGED <<conn, backlog, wpc, boxes>>
    BY <1>5 DEF CallFails, Finish, Returns
  <2>2. \A w \in Workers : wpc[w] \notin {"accept", "dead"} => conn[w] # c
    BY <1>5, ClientsAssumption DEF CallFails, Finish, PeerOpen, TableOpen, PlacesInv
  <2>3. Listening => \A i \in 1..Len(backlog) : backlog[i] # c
    BY <1>5 DEF CallFails, Finish, PeerOpen
  <2>4. \A d \in Clients : d # c => cpc'[d] = cpc[d]
    BY <2>1 DEF TypeOK
  <2>5. Listening' <=> Listening
    BY <2>1 DEF Listening, TableOpen
  <2> QED
    BY <1>0, <2>1, <2>2, <2>3, <2>4, <2>5 DEF ServedInv
<1>6. ASSUME NEW w \in Workers, Accept(w)  PROVE ServedInv'
  <2>1. /\ Len(backlog) \in Nat \ {0} /\ Len(backlog') = Len(backlog) - 1
        /\ \A i \in 1..Len(backlog') : backlog'[i] = backlog[i + 1]
        /\ Head(backlog) = backlog[1] /\ backlog[1] \in Clients
    BY <1>6, TailFacts DEF Accept, TypeOK
  <2>2. /\ 1 \in 1..Len(backlog)
        /\ \A i \in 1..Len(backlog') : i + 1 \in 1..Len(backlog)
    BY <2>1
  <2>3. /\ conn'[w] = backlog[1] /\ cpc' = cpc /\ wpc[w] = "accept"
        /\ \A v \in Workers : v # w => conn'[v] = conn[v] /\ wpc'[v] = wpc[v]
    BY <1>6, <2>1 DEF Accept, TypeOK
  <2>4. Listening
    BY <2>3 DEF Listening, TableOpen
  <2> QED
    BY <2>1, <2>2, <2>3, <2>4 DEF ServedInv
<1>7. ASSUME NEW w \in Workers, Close(w)  PROVE ServedInv'
  <2>1. /\ conn'[w] = NoClient /\ cpc' = cpc /\ wpc'[w] = "accept"
        /\ \A v \in Workers : v # w => conn'[v] = conn[v] /\ wpc'[v] = wpc[v]
        /\ backlog' = backlog
    BY <1>7 DEF Close, TypeOK
  <2> QED
    BY <1>0, <2>1, ListeningEnds DEF ServedInv
<1>8. ASSUME NEW w \in Workers,
             \/ Recv(w) \/ RecvEof(w) \/ Refuse(w) \/ Begin(w) \/ Arm(w)
             \/ Collect(w) \/ Write(w) \/ WorkerDies(w) \/ BoxesGone(w)
      PROVE  ServedInv'
  BY <1>1, <1>8
     DEF Recv, RecvEof, Refuse, Respond, Begin, Arm, Collect, Write, WorkerDies,
         BoxesGone, TypeOK
<1> QED
  BY <1>2, <1>3, <1>4, <1>5, <1>6, <1>7, <1>8
     DEF Next, ClientStep, WorkerStep, DecodeFails, SetTaskFails, WriteFails, Killed, BoxFails

\* The containers of a worker can fail only of a task somebody has asked for.
HurtInv ==
  hurt # {} => \E c \in Clients : /\ cpc[c] # "idle" /\ Valid(asked[c])
                                 /\ ~asked[c].safe

\* Every client keeps its request, and does not take it back.
LEMMA AskedKept ==
  ASSUME TypeOK, [Next]_vars
  PROVE  /\ asked' = asked
         /\ \A c \in Clients : /\ cpc[c] # "idle" => cpc'[c] # "idle"
                               /\ cpc[c] = "gone" => cpc'[c] = "gone"
<1> USE DEF clientVars, workerVars
<1>1. \A c \in Clients : /\ cpc[c] # "idle" => cpc'[c] # "idle"
                         /\ cpc[c] = "gone" => cpc'[c] = "gone"
  BY DEF Next, vars, Connect, ClientStep, Send, CallFails, Receive, Finish, Leave,
         Returns, WorkerStep, Arm, Killed, BoxFails, BoxesGone, Accept, Recv, RecvEof, Refuse,
         Respond, DecodeFails, Begin, SetTaskFails, Collect, Write, WriteFails, Close,
         WorkerDies, TypeOK
<1>2. asked' = asked
  BY DEF Next, vars, Connect, ClientStep, Send, CallFails, Receive, Finish, Leave,
         Returns, WorkerStep, Arm, Killed, BoxFails, BoxesGone, Accept, Recv, RecvEof, Refuse,
         Respond, DecodeFails, Begin, SetTaskFails, Collect, Write, WriteFails, Close,
         WorkerDies
<1> QED
  BY <1>1, <1>2

LEMMA HurtStep ==
  ASSUME TypeOK, ProgressInv, PlacesInv, UpInv, HurtInv, [Next]_vars
  PROVE  HurtInv'
<1>1. CASE hurt # {}
  BY <1>1, AskedKept DEF HurtInv
<1>2. CASE hurt' = {}
  BY <1>2 DEF HurtInv
<1>3. CASE hurt = {} /\ hurt' # {}
  <2>1. PICK w \in Workers : Begin(w) /\ ~asked[Author(w)].safe
    BY <1>3
    DEF Next, vars, clientVars, workerVars, Connect, ClientStep, Send, CallFails,
        Receive, Finish, Leave, Returns, WorkerStep, Arm, Killed, BoxFails,
        BoxesGone, Accept, Recv, RecvEof, Refuse, Respond, DecodeFails, Begin,
        SetTaskFails, Collect, Write, WriteFails, Close, WorkerDies
  <2>2. Author(w) \in Clients /\ Author(w) = conn[w]
    BY <2>1, AuthorFacts, AuthorIsServed DEF Begin
  <2>3. Valid(asked[Author(w)])
    BY <2>1 DEF Begin, Decodable, Valid
  <2>4. cpc[Author(w)] # "idle"
    BY <2>2, ClientsAssumption DEF PlacesInv
  <2> QED
    BY <2>1, <2>2, <2>3, <2>4, AskedKept DEF HurtInv
<1> QED
  BY <1>1, <1>2, <1>3

LEMMA DeathStep ==
  ASSUME TypeOK, ProgressInv, PlacesInv, UpInv, ServedInv, HurtInv,
         DeathIsExplained, [Next]_vars
  PROVE  DeathIsExplained'
<1> USE DEF clientVars, workerVars
<1> DEFINE Explains(c) ==
             /\ cpc[c] # "idle"
             /\ \/ cpc[c] = "gone"
                \/ /\ Valid(asked[c])
                   /\ ~(Decodable(asked[c]) /\ asked[c].fits /\ asked[c].safe)
<1>3. (\E c \in Clients : Explains(c)) => DeathIsExplained'
  BY AskedKept DEF DeathIsExplained
<1>4. CASE \E w \in Workers : wpc[w] = "dead"
  BY <1>3, <1>4 DEF DeathIsExplained
<1>5. CASE \A w \in Workers : wpc'[w] # "dead"
  BY <1>5 DEF DeathIsExplained
<1>6. ASSUME NEW w \in Workers, DecodeFails(w)  PROVE \E c \in Clients : Explains(c)
  <2>1. Author(w) \in Clients /\ Author(w) = conn[w]
    BY <1>6, AuthorFacts, AuthorIsServed DEF DecodeFails
  <2>2. Explains(Author(w))
    BY <1>6, <2>1, ClientsAssumption DEF DecodeFails, PlacesInv
  <2> QED
    BY <2>1, <2>2
<1>7. ASSUME NEW w \in Workers, SetTaskFails(w)  PROVE \E c \in Clients : Explains(c)
  <2>1. Parses(request[w]) /\ Decodable(asked[Author(w)])
    BY <1>7 DEF SetTaskFails, ProgressInv
  <2>2. Author(w) \in Clients /\ Author(w) = conn[w]
    BY <1>7, <2>1, AuthorFacts, AuthorIsServed DEF SetTaskFails
  <2>3. Valid(asked[Author(w)])
    BY <2>1 DEF Decodable, Valid
  <2>4. Explains(Author(w))
    BY <1>7, <2>2, <2>3, ClientsAssumption DEF SetTaskFails, PlacesInv
  <2> QED
    BY <2>2, <2>4
<1>8. ASSUME NEW w \in Workers, WriteFails(w)  PROVE \E c \in Clients : Explains(c)
  <2>1. conn[w] \in Clients /\ cpc[conn[w]] = "gone"
    BY <1>8 DEF WriteFails, ServedInv, TypeOK
  <2> QED
    BY <2>1
<1>9. ASSUME NEW w \in Workers, BoxFails(w)  PROVE \E c \in Clients : Explains(c)
  BY <1>9 DEF BoxFails, HurtInv
<1>10. ASSUME \A w \in Workers : wpc[w] # "dead"
       PROVE  \/ \A w \in Workers : wpc'[w] # "dead"
              \/ \E w \in Workers : \/ DecodeFails(w) \/ SetTaskFails(w)
                                  \/ WriteFails(w) \/ BoxFails(w)
  BY <1>10
     DEF Next, vars, Connect, ClientStep, Send, CallFails, Receive, Finish, Leave,
         Returns, WorkerStep, Arm, Killed, BoxesGone, Accept, Recv, RecvEof, Refuse,
         Respond, Begin, Collect, Write, Close, TypeOK
<1> QED
  BY <1>3, <1>4, <1>5, <1>6, <1>7, <1>8, <1>9, <1>10

\* Whatever is requested, a worker dies only with a client that has left, or a
\* request the schema accepts and that cannot be decoded, does not fit, or has
\* a task its container may fail of.
THEOREM DeathIsAlwaysExplained == Spec => []DeathIsExplained
<1> DEFINE Inv == /\ TypeOK /\ ProgressInv /\ PlacesInv /\ UpInv /\ ServedInv
                  /\ HurtInv /\ DeathIsExplained
<1>1. Init => Inv
  <2>1. Init => DeathIsExplained
    BY DEF Init, DeathIsExplained
  <2>2. Init => HurtInv
    BY DEF Init, HurtInv
  <2> QED
    BY <2>1, <2>2, TypeInit, PlacesInit, UpInit, ServedInit
<1>2. Inv /\ [Next]_vars => Inv'
  BY TypeStep, PlacesStep, UpStep, ServedStep, HurtStep, DeathStep
<1> QED
  BY <1>1, <1>2, PTL DEF Spec
-----------------------------------------------------------------------------
(* The answers on their way.                                               *)

\* What the answer to c's request says.
Due(c) == IF Valid(asked[c]) THEN "tasks" ELSE "error"

\* These are pieces of the answer to c that follow the first n.
Follows(c, kind, pieces, n) ==
  \A i \in 1..Len(pieces) : pieces[i] = <<c, kind, n + i>>

Complete(n, m, l) == n + m + l = Pieces

\* Nothing is answered before the request is processed; what is written, on
\* its way and received is the answer that is due, in order; and no connection
\* is over before that.
DownInv ==
  /\ \A c \in Clients :
       cpc[c] = "idle" \/ Queued(c) => got[c] = <<>> /\ down[c] = <<>>
  /\ \A w \in Workers : wpc[w] \in {"recv", "process", "run"} =>
       got[conn[w]] = <<>> /\ down[conn[w]] = <<>>
  /\ \A c \in Clients : cpc[c] # "gone" =>
       /\ Follows(c, Due(c), got[c], 0)
       /\ Follows(c, Due(c), down[c], Len(got[c]))
  /\ \A w \in Workers : wpc[w] = "reply" /\ cpc[conn[w]] # "gone" =>
       /\ Follows(conn[w], Due(conn[w]), out[w],
                  Len(got[conn[w]]) + Len(down[conn[w]]))
       /\ Complete(Len(got[conn[w]]), Len(down[conn[w]]), Len(out[w]))
  /\ \A c \in Clients : Over(c) /\ cpc[c] = "waiting" =>
       Complete(Len(got[c]), Len(down[c]), 0)

LEMMA DownInit ==
  ASSUME Init  PROVE DownInv
<1>1. \A c \in Clients : got[c] = <<>> /\ down[c] = <<>> /\ cpc[c] = "idle"
  BY DEF Init
<1>2. \A w \in Workers : wpc[w] = "accept"
  BY DEF Init
<1>3. \A c \in Clients : \A n \in Nat : Follows(c, Due(c), <<>>, n)
  BY DEF Follows
<1>4. Len(<<>>) = 0
  BY EmptySeq
<1> QED
  BY <1>1, <1>2, <1>3, <1>4 DEF DownInv

\* A step that moves no piece of an answer.
LEMMA DownKept ==
  ASSUME TypeOK, DownInv, UNCHANGED <<got, down, out, backlog, conn, asked>>,
         \A c \in Clients :
           /\ cpc[c] = "gone" => cpc'[c] = "gone"
           /\ cpc'[c] = "idle" => cpc[c] = "idle"
           /\ cpc'[c] = "waiting" => cpc[c] = "waiting" \/ ~Over(c),
         \A w \in Workers :
           \/ wpc'[w] = wpc[w]
           \/ wpc'[w] = "dead"
           \/ /\ wpc[w] \in {"recv", "process", "run"}
              /\ wpc'[w] \in {"recv", "process", "run"}
  PROVE  DownInv'
<1>1. \A w \in Workers : wpc[w] \notin {"accept", "dead"} => conn[w] \in Clients
  BY DEF TypeOK
<1>2. /\ \A c \in Clients : (Queued(c)' <=> Queued(c)) /\ (Over(c)' <=> Over(c))
      /\ \A c \in Clients : Due(c)' = Due(c)
  BY DEF Queued, Over, Due
<1>3. /\ \A c \in Clients :
           cpc'[c] = "idle" \/ Queued(c)' => got'[c] = <<>> /\ down'[c] = <<>>
      /\ \A c \in Clients : cpc'[c] # "gone" =>
           /\ Follows(c, Due(c)', got'[c], 0)
           /\ Follows(c, Due(c)', down'[c], Len(got'[c]))
      /\ \A c \in Clients : Over(c)' /\ cpc'[c] = "waiting" =>
           Complete(Len(got'[c]), Len(down'[c]), 0)
  BY <1>2 DEF DownInv
<1>4. \A w \in Workers : wpc'[w] \in {"recv", "process", "run"} =>
        got'[conn'[w]] = <<>> /\ down'[conn'[w]] = <<>>
  BY DEF DownInv
<1>5. \A w \in Workers : wpc'[w] = "reply" /\ cpc'[conn'[w]] # "gone" =>
        /\ Follows(conn'[w], Due(conn[w])', out'[w],
                   Len(got'[conn'[w]]) + Len(down'[conn'[w]]))
        /\ Complete(Len(got'[conn'[w]]), Len(down'[conn'[w]]), Len(out'[w]))
  <2> TAKE w \in Workers
  <2> HAVE wpc'[w] = "reply" /\ cpc'[conn'[w]] # "gone"
  <2>1. wpc[w] = "reply" /\ conn[w] \in Clients /\ cpc[conn[w]] # "gone"
    BY <1>1
  <2> QED
    BY <1>2, <2>1 DEF DownInv
<1> QED
  BY <1>3, <1>4, <1>5 DEF DownInv

LEMMA ConnectDown ==
  ASSUME TypeOK, PlacesInv, DownInv, NEW c \in Clients, Connect(c)
  PROVE  DownInv'
<1>1. /\ backlog \in Seq(Clients) /\ Len(backlog) <= 0
      /\ backlog' = Append(backlog, c)
      /\ cpc[c] = "idle" /\ cpc' = [cpc EXCEPT ![c] = "sending"]
      /\ UNCHANGED <<asked, got, down, conn, out, wpc>>
  BY DEF Connect, TypeOK, clientVars, workerVars
<1>2. Len(backlog') = 1 /\ backlog'[1] = c
  <2>1. backlog = <<>>
    BY <1>1, EmptySeq
  <2> QED
    BY <1>1, <2>1
<1>3. \A d \in Clients : /\ Queued(d)' => d = c
                         /\ Over(d)' => Over(d) /\ d # c
                         /\ Due(d)' = Due(d)
  <2>1. \A d \in Clients : Queued(d)' <=> d = c
    BY <1>2 DEF Queued
  <2>2. \A d \in Clients : ~Queued(d)
    BY <1>1 DEF Queued
  <2> QED
    BY <1>1, <2>1, <2>2 DEF Over, Due
<1>4. cpc'[c] = "sending" /\ \A d \in Clients : d # c => cpc'[d] = cpc[d]
  BY <1>1 DEF TypeOK
<1>5. \A w \in Workers : wpc[w] \notin {"accept", "dead"} =>
        conn[w] \in Clients /\ conn[w] # c
  BY <1>1, ClientsAssumption DEF PlacesInv, TypeOK
<1>6. /\ \A d \in Clients :
           cpc'[d] = "idle" \/ Queued(d)' => got'[d] = <<>> /\ down'[d] = <<>>
      /\ \A d \in Clients : cpc'[d] # "gone" =>
           /\ Follows(d, Due(d)', got'[d], 0)
           /\ Follows(d, Due(d)', down'[d], Len(got'[d]))
      /\ \A d \in Clients : Over(d)' /\ cpc'[d] = "waiting" =>
           Complete(Len(got'[d]), Len(down'[d]), 0)
  BY <1>1, <1>3, <1>4 DEF DownInv
<1>7. \A w \in Workers : wpc'[w] \in {"recv", "process", "run"} =>
        got'[conn'[w]] = <<>> /\ down'[conn'[w]] = <<>>
  BY <1>1 DEF DownInv
<1>8. \A w \in Workers : wpc'[w] = "reply" /\ cpc'[conn'[w]] # "gone" =>
        /\ Follows(conn'[w], Due(conn[w])', out'[w],
                   Len(got'[conn'[w]]) + Len(down'[conn'[w]]))
        /\ Complete(Len(got'[conn'[w]]), Len(down'[conn'[w]]), Len(out'[w]))
  BY <1>1, <1>3, <1>4, <1>5 DEF DownInv
<1> QED
  BY <1>6, <1>7, <1>8 DEF DownInv

\* A piece that goes from one end of a sequence that follows another to the
\* other's end.
LEMMA Handover ==
  ASSUME NEW c \in Clients, NEW kind, NEW k \in Nat,
         NEW first \in Seq(AnswerPiece), NEW second \in Seq(AnswerPiece),
         second # <<>>,
         Follows(c, kind, first, k), Follows(c, kind, second, k + Len(first))
  PROVE  /\ Len(Append(first, Head(second))) = Len(first) + 1
         /\ Len(Tail(second)) = Len(second) - 1
         /\ Len(first) \in Nat /\ Len(second) \in Nat \ {0}
         /\ Follows(c, kind, Append(first, Head(second)), k)
         /\ Follows(c, kind, Tail(second), k + (Len(first) + 1))
<1>1. /\ Head(second) = second[1] /\ Head(second) \in AnswerPiece
      /\ Len(second) \in Nat \ {0} /\ Len(Tail(second)) = Len(second) - 1
      /\ \A i \in 1..(Len(second) - 1) : Tail(second)[i] = second[i + 1]
  BY TailFacts
<1>2. /\ Len(Append(first, Head(second))) = Len(first) + 1 /\ Len(first) \in Nat
      /\ \A i \in 1..Len(first) : Append(first, Head(second))[i] = first[i]
      /\ Append(first, Head(second))[Len(first) + 1] = Head(second)
  BY <1>1, AppendFacts, LenProperties
<1>3. PICK a \in Nat, b \in Nat \ {0} : a = Len(first) /\ b = Len(second)
  BY <1>1, <1>2
<1>4. Head(second) = <<c, kind, k + (a + 1)>>
  <2>1. 1 \in 1..b /\ (k + a) + 1 = k + (a + 1)
    BY <1>3
  <2> QED
    BY <1>1, <1>3, <2>1 DEF Follows
<1>5. ASSUME NEW i \in 1..(a + 1)
      PROVE  Append(first, Head(second))[i] = <<c, kind, k + i>>
  <2>1. CASE i = a + 1
    BY <1>2, <1>3, <1>4, <2>1
  <2>2. CASE i # a + 1
    <3>1. i \in 1..a
      BY <1>3, <2>2
    <3> QED
      BY <1>2, <1>3, <3>1 DEF Follows
  <2> QED
    BY <2>1, <2>2
<1>6. ASSUME NEW i \in 1..(b - 1)
      PROVE  Tail(second)[i] = <<c, kind, (k + (a + 1)) + i>>
  <2>1. i + 1 \in 1..b /\ (k + a) + (i + 1) = (k + (a + 1)) + i
    BY <1>3
  <2>2. Tail(second)[i] = second[i + 1]
    BY <1>1, <1>3
  <2>3. second[i + 1] = <<c, kind, (k + a) + (i + 1)>>
    BY <1>3, <2>1 DEF Follows
  <2> QED
    BY <2>1, <2>2, <2>3
<1> QED
  BY <1>1, <1>2, <1>3, <1>5, <1>6 DEF Follows

LEMMA CompleteFacts ==
  ASSUME NEW a \in Nat, NEW b \in Nat, NEW l \in Nat, Complete(a, b, l)
  PROVE  /\ b # 0 => Complete(a + 1, b - 1, l)
         /\ l # 0 => Complete(a, b + 1, l - 1)
BY DEF Complete

LEMMA ReceiveDown ==
  ASSUME TypeOK, PlacesInv, DownInv, NEW c \in Clients, Receive(c)
  PROVE  DownInv'
<1>1. /\ cpc[c] = "waiting" /\ down[c] # <<>>
      /\ UNCHANGED <<cpc, asked, backlog, conn, out, wpc>>
      /\ got'[c] = Append(got[c], Head(down[c])) /\ down'[c] = Tail(down[c])
      /\ \A d \in Clients : d # c => got'[d] = got[d] /\ down'[d] = down[d]
  BY DEF Receive, TypeOK, workerVars
<1>2. got[c] \in Seq(AnswerPiece) /\ down[c] \in Seq(AnswerPiece)
  BY DEF TypeOK, AnswerPiece
<1>3. /\ Follows(c, Due(c), got[c], 0) /\ Follows(c, Due(c), down[c], 0 + Len(got[c]))
  <2>1. 0 + Len(got[c]) = Len(got[c])
    BY <1>2
  <2> QED
    BY <1>1, <2>1 DEF DownInv
<1>4. /\ Len(got'[c]) = Len(got[c]) + 1 /\ Len(down'[c]) = Len(down[c]) - 1
      /\ Len(got[c]) \in Nat /\ Len(down[c]) \in Nat \ {0}
      /\ Follows(c, Due(c), got'[c], 0)
      /\ Follows(c, Due(c), down'[c], Len(got'[c]))
  <2>1. /\ Len(Append(got[c], Head(down[c]))) = Len(got[c]) + 1
        /\ Len(Tail(down[c])) = Len(down[c]) - 1
        /\ Len(got[c]) \in Nat /\ Len(down[c]) \in Nat \ {0}
        /\ Follows(c, Due(c), Append(got[c], Head(down[c])), 0)
        /\ Follows(c, Due(c), Tail(down[c]), 0 + (Len(got[c]) + 1))
    <3> DEFINE k == 0  first == got[c]  second == down[c]  kind == Due(c)
    <3>1. /\ k \in Nat /\ first \in Seq(AnswerPiece) /\ second \in Seq(AnswerPiece)
          /\ second # <<>>
          /\ Follows(c, kind, first, k) /\ Follows(c, kind, second, k + Len(first))
      BY <1>1, <1>2, <1>3
    <3> HIDE DEF k, first, second, kind
    <3>2. /\ Len(Append(first, Head(second))) = Len(first) + 1
          /\ Len(Tail(second)) = Len(second) - 1
          /\ Len(first) \in Nat /\ Len(second) \in Nat \ {0}
          /\ Follows(c, kind, Append(first, Head(second)), k)
          /\ Follows(c, kind, Tail(second), k + (Len(first) + 1))
      BY <3>1, Handover
    <3> QED
      BY <3>2 DEF k, first, second, kind
  <2>2. PICK a \in Nat : a = Len(got[c])
    BY <2>1
  <2>3. 0 + (a + 1) = a + 1
    OBVIOUS
  <2> QED
    BY <1>1, <2>1, <2>2, <2>3
<1>5. /\ \A d \in Clients : (Queued(d)' <=> Queued(d)) /\ (Over(d)' <=> Over(d))
      /\ \A d \in Clients : Due(d)' = Due(d)
  BY <1>1 DEF Queued, Over, Due
<1>6. ~Queued(c) /\ \A w \in Workers : wpc[w] \in {"recv", "process", "run"} => conn[w] # c
  BY <1>1 DEF DownInv
<1>7. Over(c) => Complete(Len(got'[c]), Len(down'[c]), 0)
  BY <1>1, <1>4, CompleteFacts DEF DownInv
<1>8. Len(got'[c]) + Len(down'[c]) = Len(got[c]) + Len(down[c])
  <2>1. PICK a \in Nat, b \in Nat \ {0} : a = Len(got[c]) /\ b = Len(down[c])
    BY <1>4
  <2>2. (a + 1) + (b - 1) = a + b
    OBVIOUS
  <2> QED
    BY <1>4, <2>1, <2>2
<1>9. \A w \in Workers : wpc[w] \notin {"accept", "dead"} => conn[w] \in Clients
  BY DEF TypeOK
<1>10. /\ \A d \in Clients :
            cpc'[d] = "idle" \/ Queued(d)' => got'[d] = <<>> /\ down'[d] = <<>>
       /\ \A d \in Clients : cpc'[d] # "gone" =>
            /\ Follows(d, Due(d)', got'[d], 0)
            /\ Follows(d, Due(d)', down'[d], Len(got'[d]))
       /\ \A d \in Clients : Over(d)' /\ cpc'[d] = "waiting" =>
            Complete(Len(got'[d]), Len(down'[d]), 0)
  BY <1>1, <1>4, <1>5, <1>6, <1>7 DEF DownInv
<1>11. \A w \in Workers : wpc'[w] \in {"recv", "process", "run"} =>
         got'[conn'[w]] = <<>> /\ down'[conn'[w]] = <<>>
  BY <1>1, <1>6, <1>9 DEF DownInv
<1>12. \A w \in Workers : wpc'[w] = "reply" /\ cpc'[conn'[w]] # "gone" =>
         /\ Follows(conn'[w], Due(conn[w])', out'[w],
                    Len(got'[conn'[w]]) + Len(down'[conn'[w]]))
         /\ Complete(Len(got'[conn'[w]]), Len(down'[conn'[w]]), Len(out'[w]))
  <2> TAKE w \in Workers
  <2> HAVE wpc'[w] = "reply" /\ cpc'[conn'[w]] # "gone"
  <2>1. /\ wpc[w] = "reply" /\ cpc[conn[w]] # "gone" /\ conn[w] \in Clients
        /\ conn'[w] = conn[w] /\ out'[w] = out[w] /\ Due(conn[w])' = Due(conn[w])
    BY <1>1, <1>5, <1>9
  <2>2. /\ Follows(conn[w], Due(conn[w]), out[w],
                   Len(got[conn[w]]) + Len(down[conn[w]]))
        /\ Complete(Len(got[conn[w]]), Len(down[conn[w]]), Len(out[w]))
    BY <2>1 DEF DownInv
  <2>3. CASE conn[w] # c
    BY <1>1, <2>1, <2>2, <2>3
  <2>4. CASE conn[w] = c
    <3>1. Len(out[w]) \in Nat
      BY DEF TypeOK
    <3>2. Complete(Len(got'[c]), Len(down'[c]), Len(out[w]))
      BY <1>4, <2>2, <2>4, <3>1, CompleteFacts
    <3> QED
      BY <1>8, <2>1, <2>2, <2>4, <3>2
  <2> QED
    BY <2>3, <2>4
<1> QED
  BY <1>10, <1>11, <1>12 DEF DownInv

LEMMA AcceptDown ==
  ASSUME TypeOK, PlacesInv, DownInv, NEW w \in Workers, Accept(w)
  PROVE  DownInv'
<1>1. PICK c \in Clients :
        /\ Queued(c) /\ ~Queued(c)' /\ conn'[w] = c /\ wpc'[w] = "recv"
        /\ \A v \in Workers : v # w =>
             conn'[v] = conn[v] /\ wpc'[v] = wpc[v] /\ out'[v] = out[v]
        /\ \A d \in Clients : d # c => (Queued(d)' <=> Queued(d))
        /\ \A d \in Clients : Over(d)' => Over(d)
        /\ UNCHANGED <<cpc, asked, got, down>>
  BY AcceptPlaces
<1>2. \A d \in Clients : Due(d)' = Due(d)
  BY <1>1 DEF Due
<1>3. /\ \A d \in Clients :
           cpc'[d] = "idle" \/ Queued(d)' => got'[d] = <<>> /\ down'[d] = <<>>
      /\ \A d \in Clients : cpc'[d] # "gone" =>
           /\ Follows(d, Due(d)', got'[d], 0)
           /\ Follows(d, Due(d)', down'[d], Len(got'[d]))
      /\ \A d \in Clients : Over(d)' /\ cpc'[d] = "waiting" =>
           Complete(Len(got'[d]), Len(down'[d]), 0)
  BY <1>1, <1>2 DEF DownInv
<1>4. \A v \in Workers : wpc'[v] \in {"recv", "process", "run"} =>
        got'[conn'[v]] = <<>> /\ down'[conn'[v]] = <<>>
  BY <1>1 DEF DownInv
<1>5. \A v \in Workers : wpc'[v] = "reply" /\ cpc'[conn'[v]] # "gone" =>
        /\ Follows(conn'[v], Due(conn[v])', out'[v],
                   Len(got'[conn'[v]]) + Len(down'[conn'[v]]))
        /\ Complete(Len(got'[conn'[v]]), Len(down'[conn'[v]]), Len(out'[v]))
  <2> TAKE v \in Workers
  <2> HAVE wpc'[v] = "reply" /\ cpc'[conn'[v]] # "gone"
  <2>1. v # w
    BY <1>1
  <2>2. /\ wpc[v] = "reply" /\ conn'[v] = conn[v] /\ out'[v] = out[v]
        /\ conn[v] \in Clients
    BY <1>1, <2>1 DEF TypeOK
  <2> QED
    BY <1>1, <1>2, <2>2 DEF DownInv
<1> QED
  BY <1>3, <1>4, <1>5 DEF DownInv

\* process() has an answer, the one that is due unless the client has left.
LEMMA RespondDown ==
  ASSUME TypeOK, PlacesInv, DownInv, NEW w \in Workers,
         NEW c \in Clients, NEW kind \in {"tasks", "error"},
         wpc[w] \in {"process", "run"}, c = conn[w],
         cpc[c] # "gone" => kind = Due(c), Respond(w, Answer(c, kind))
  PROVE  DownInv'
<1>1. /\ out'[w] = Answer(c, kind) /\ wpc'[w] = "reply"
      /\ \A v \in Workers : v # w => out'[v] = out[v] /\ wpc'[v] = wpc[v]
      /\ UNCHANGED <<cpc, asked, got, down, backlog, conn>>
  BY DEF Respond, TypeOK, clientVars
<1>2. /\ \A d \in Clients : (Queued(d)' <=> Queued(d)) /\ (Over(d)' <=> Over(d))
      /\ \A d \in Clients : Due(d)' = Due(d)
  BY <1>1 DEF Queued, Over, Due
<1>3. /\ \A d \in Clients :
           cpc'[d] = "idle" \/ Queued(d)' => got'[d] = <<>> /\ down'[d] = <<>>
      /\ \A d \in Clients : cpc'[d] # "gone" =>
           /\ Follows(d, Due(d)', got'[d], 0)
           /\ Follows(d, Due(d)', down'[d], Len(got'[d]))
      /\ \A d \in Clients : Over(d)' /\ cpc'[d] = "waiting" =>
           Complete(Len(got'[d]), Len(down'[d]), 0)
  BY <1>1, <1>2 DEF DownInv
<1>4. \A v \in Workers : wpc'[v] \in {"recv", "process", "run"} =>
        got'[conn'[v]] = <<>> /\ down'[conn'[v]] = <<>>
  BY <1>1 DEF DownInv
<1>5. got[c] = <<>> /\ down[c] = <<>>
  BY DEF DownInv
<1>6. /\ Len(Answer(c, kind)) = Pieces
      /\ \A i \in 1..Pieces : Answer(c, kind)[i] = <<c, kind, i>>
  BY AnswerFacts
<1>7. /\ Follows(c, kind, Answer(c, kind), Len(got[c]) + Len(down[c]))
      /\ Complete(Len(got[c]), Len(down[c]), Len(Answer(c, kind)))
  <2>1. Len(got[c]) = 0 /\ Len(down[c]) = 0
    BY <1>5
  <2>2. 0 + 0 + Pieces = Pieces /\ \A i \in 1..Pieces : (0 + 0) + i = i
    BY PiecesAssumption
  <2> QED
    BY <1>6, <2>1, <2>2 DEF Follows, Complete
<1>8. \A v \in Workers : wpc'[v] = "reply" /\ cpc'[conn'[v]] # "gone" =>
        /\ Follows(conn'[v], Due(conn[v])', out'[v],
                   Len(got'[conn'[v]]) + Len(down'[conn'[v]]))
        /\ Complete(Len(got'[conn'[v]]), Len(down'[conn'[v]]), Len(out'[v]))
  <2> TAKE v \in Workers
  <2> HAVE wpc'[v] = "reply" /\ cpc'[conn'[v]] # "gone"
  <2>1. CASE v = w
    BY <1>1, <1>2, <1>7, <2>1
  <2>2. CASE v # w
    <3>1. wpc[v] = "reply" /\ conn'[v] = conn[v] /\ out'[v] = out[v]
          /\ conn[v] \in Clients
      BY <1>1, <2>2 DEF TypeOK
    <3> QED
      BY <1>1, <1>2, <3>1 DEF DownInv
  <2> QED
    BY <2>1, <2>2
<1> QED
  BY <1>3, <1>4, <1>8 DEF DownInv

LEMMA WriteDown ==
  ASSUME TypeOK, PlacesInv, DownInv, NEW w \in Workers, Write(w)
  PROVE  DownInv'
<1>1. /\ wpc[w] = "reply" /\ out[w] # <<>> /\ conn[w] \in Clients
      /\ cpc[conn[w]] \notin {"done", "gone"}
      /\ down'[conn[w]] = Append(down[conn[w]], Head(out[w]))
      /\ out'[w] = Tail(out[w])
      /\ \A d \in Clients : d # conn[w] => down'[d] = down[d]
      /\ \A v \in Workers : v # w => out'[v] = out[v]
      /\ UNCHANGED <<cpc, asked, got, backlog, conn, wpc>>
  BY DEF Write, TypeOK, clientVars
<1>2. PICK c \in Clients : c = conn[w]
  BY <1>1
<1>3. /\ got[c] \in Seq(AnswerPiece) /\ down[c] \in Seq(AnswerPiece)
      /\ out[w] \in Seq(AnswerPiece)
  BY DEF TypeOK, AnswerPiece
<1>4. /\ Len(got[c]) \in Nat
      /\ Follows(c, Due(c), down[c], Len(got[c]))
      /\ Follows(c, Due(c), out[w], Len(got[c]) + Len(down[c]))
      /\ Complete(Len(got[c]), Len(down[c]), Len(out[w]))
  <2>1. Len(got[c]) \in Nat /\ Follows(c, Due(c), down[c], Len(got[c]))
    BY <1>1, <1>2, <1>3 DEF DownInv
  <2>2. /\ Follows(conn[w], Due(conn[w]), out[w],
                   Len(got[conn[w]]) + Len(down[conn[w]]))
        /\ Complete(Len(got[conn[w]]), Len(down[conn[w]]), Len(out[w]))
    BY <1>1 DEF DownInv
  <2> QED
    BY <1>2, <2>1, <2>2
<1>5. /\ Len(down'[c]) = Len(down[c]) + 1 /\ Len(out'[w]) = Len(out[w]) - 1
      /\ Len(down[c]) \in Nat /\ Len(out[w]) \in Nat \ {0}
      /\ Follows(c, Due(c), down'[c], Len(got[c]))
      /\ Follows(c, Due(c), out'[w], Len(got[c]) + Len(down'[c]))
  <2> DEFINE k == Len(got[c])  first == down[c]  second == out[w]  kind == Due(c)
  <2>1. /\ k \in Nat /\ first \in Seq(AnswerPiece) /\ second \in Seq(AnswerPiece)
        /\ second # <<>>
        /\ Follows(c, kind, first, k) /\ Follows(c, kind, second, k + Len(first))
    BY <1>1, <1>2, <1>3, <1>4
  <2>2. down'[c] = Append(first, Head(second)) /\ out'[w] = Tail(second)
    BY <1>1, <1>2
  <2>3. Len(out[w]) = Len(second) /\ Len(down[c]) = Len(first)
    OBVIOUS
  <2> HIDE DEF k, first, second, kind
  <2>4. /\ Len(Append(first, Head(second))) = Len(first) + 1
        /\ Len(Tail(second)) = Len(second) - 1
        /\ Len(first) \in Nat /\ Len(second) \in Nat \ {0}
        /\ Follows(c, kind, Append(first, Head(second)), k)
        /\ Follows(c, kind, Tail(second), k + (Len(first) + 1))
    BY <2>1, Handover
  <2>5. /\ Follows(c, kind, down'[c], k)
        /\ Follows(c, kind, out'[w], k + Len(down'[c]))
    BY <2>2, <2>4
  <2>6. /\ Len(down'[c]) = Len(down[c]) + 1 /\ Len(out'[w]) = Len(out[w]) - 1
        /\ Len(down[c]) \in Nat /\ Len(out[w]) \in Nat \ {0}
    BY <2>2, <2>3, <2>4
  <2> QED
    BY <2>5, <2>6 DEF k, kind
<1>6. Complete(Len(got[c]), Len(down'[c]), Len(out'[w]))
  BY <1>4, <1>5, CompleteFacts
<1>7. /\ \A d \in Clients : (Queued(d)' <=> Queued(d)) /\ (Over(d)' <=> Over(d))
      /\ \A d \in Clients : Due(d)' = Due(d)
  BY <1>1 DEF Queued, Over, Due
<1>8. /\ ~Queued(c) /\ cpc[c] # "idle" /\ ~Over(c)
      /\ \A v \in Workers : v # w => conn[v] # c
  <2>1. /\ \A i \in 1..Len(backlog) : conn[w] # backlog[i]
        /\ cpc[conn[w]] # "idle"
        /\ \A v \in Workers : conn[v] = conn[w] => v = w
    BY <1>1, ClientsAssumption DEF PlacesInv
  <2> QED
    BY <1>2, <2>1 DEF Queued, Over
<1>9. \A v \in Workers : wpc[v] \notin {"accept", "dead"} => conn[v] \in Clients
  BY DEF TypeOK
<1>10. /\ \A d \in Clients :
            cpc'[d] = "idle" \/ Queued(d)' => got'[d] = <<>> /\ down'[d] = <<>>
       /\ \A d \in Clients : cpc'[d] # "gone" =>
            /\ Follows(d, Due(d)', got'[d], 0)
            /\ Follows(d, Due(d)', down'[d], Len(got'[d]))
       /\ \A d \in Clients : Over(d)' /\ cpc'[d] = "waiting" =>
            Complete(Len(got'[d]), Len(down'[d]), 0)
  BY <1>1, <1>2, <1>5, <1>7, <1>8 DEF DownInv
<1>11. \A v \in Workers : wpc'[v] \in {"recv", "process", "run"} =>
         got'[conn'[v]] = <<>> /\ down'[conn'[v]] = <<>>
  BY <1>1, <1>2, <1>8, <1>9 DEF DownInv
<1>12. \A v \in Workers : wpc'[v] = "reply" /\ cpc'[conn'[v]] # "gone" =>
         /\ Follows(conn'[v], Due(conn[v])', out'[v],
                    Len(got'[conn'[v]]) + Len(down'[conn'[v]]))
         /\ Complete(Len(got'[conn'[v]]), Len(down'[conn'[v]]), Len(out'[v]))
  <2> TAKE v \in Workers
  <2> HAVE wpc'[v] = "reply" /\ cpc'[conn'[v]] # "gone"
  <2>1. CASE v = w
    BY <1>1, <1>2, <1>5, <1>6, <1>7, <2>1
  <2>2. CASE v # w
    <3>1. /\ wpc[v] = "reply" /\ conn'[v] = conn[v] /\ out'[v] = out[v]
          /\ conn[v] \in Clients /\ conn[v] # c /\ cpc[conn[v]] # "gone"
      BY <1>1, <1>8, <1>9, <2>2
    <3>2. /\ down'[conn[v]] = down[conn[v]] /\ got'[conn[v]] = got[conn[v]]
          /\ Due(conn[v])' = Due(conn[v])
      BY <1>1, <1>2, <1>7, <3>1
    <3>3. /\ Follows(conn[v], Due(conn[v]), out[v],
                     Len(got[conn[v]]) + Len(down[conn[v]]))
          /\ Complete(Len(got[conn[v]]), Len(down[conn[v]]), Len(out[v]))
      BY <3>1 DEF DownInv
    <3> QED
      BY <3>1, <3>2, <3>3
  <2> QED
    BY <2>1, <2>2
<1> QED
  BY <1>10, <1>11, <1>12 DEF DownInv

LEMMA CloseDown ==
  ASSUME TypeOK, DownInv, NEW w \in Workers, Close(w)
  PROVE  DownInv'
<1>1. /\ wpc[w] = "reply" /\ conn[w] \in Clients /\ out[w] = <<>>
      /\ conn'[w] = NoClient /\ wpc'[w] = "accept"
      /\ \A v \in Workers : v # w => conn'[v] = conn[v] /\ wpc'[v] = wpc[v]
      /\ UNCHANGED <<cpc, asked, got, down, out, backlog>>
  BY DEF Close, TypeOK, clientVars
<1>2. \A d \in Clients : (Queued(d)' <=> Queued(d)) /\ Due(d)' = Due(d)
  BY <1>1 DEF Queued, Due
<1>3. \A d \in Clients : Over(d)' => Over(d) \/ d = conn[w]
  BY <1>1, <1>2 DEF Over
<1>4. cpc[conn[w]] # "gone" =>
        Complete(Len(got[conn[w]]), Len(down[conn[w]]), 0)
  <2>1. Len(out[w]) = 0
    BY <1>1
  <2> QED
    BY <1>1, <2>1 DEF DownInv
<1>5. /\ \A d \in Clients :
           cpc'[d] = "idle" \/ Queued(d)' => got'[d] = <<>> /\ down'[d] = <<>>
      /\ \A d \in Clients : cpc'[d] # "gone" =>
           /\ Follows(d, Due(d)', got'[d], 0)
           /\ Follows(d, Due(d)', down'[d], Len(got'[d]))
      /\ \A d \in Clients : Over(d)' /\ cpc'[d] = "waiting" =>
           Complete(Len(got'[d]), Len(down'[d]), 0)
  BY <1>1, <1>2, <1>3, <1>4 DEF DownInv
<1>6. \A v \in Workers : wpc'[v] \in {"recv", "process", "run"} =>
        got'[conn'[v]] = <<>> /\ down'[conn'[v]] = <<>>
  BY <1>1 DEF DownInv
<1>7. \A v \in Workers : wpc'[v] = "reply" /\ cpc'[conn'[v]] # "gone" =>
        /\ Follows(conn'[v], Due(conn[v])', out'[v],
                   Len(got'[conn'[v]]) + Len(down'[conn'[v]]))
        /\ Complete(Len(got'[conn'[v]]), Len(down'[conn'[v]]), Len(out'[v]))
  <2> TAKE v \in Workers
  <2> HAVE wpc'[v] = "reply" /\ cpc'[conn'[v]] # "gone"
  <2>1. /\ wpc[v] = "reply" /\ conn'[v] = conn[v] /\ conn[v] \in Clients
    BY <1>1 DEF TypeOK
  <2> QED
    BY <1>1, <1>2, <2>1 DEF DownInv
<1> QED
  BY <1>5, <1>6, <1>7 DEF DownInv

LEMMA DownStep ==
  ASSUME TypeOK, ProgressInv, PlacesInv, UpInv, DownInv, [Next]_vars
  PROVE  DownInv'
<1> USE DEF clientVars, workerVars
<1>1. CASE UNCHANGED vars
  <2>1. UNCHANGED <<cpc, got, down, out, backlog, conn, asked, wpc>>
    BY <1>1 DEF vars
  <2> QED
    BY <2>1, DownKept
<1>2. ASSUME NEW c \in Clients, Send(c)  PROVE DownInv'
  <2>1. ~Over(c)
    BY <1>2 DEF Send, PeerOpen, Over, Queued
  <2>2. \A d \in Clients : d # c => cpc'[d] = cpc[d]
    BY <1>2 DEF Send, TypeOK
  <2>3. cpc[c] = "sending" /\ cpc'[c] \in {"sending", "waiting"}
    BY <1>2 DEF Send, TypeOK
  <2>4. UNCHANGED <<got, down, out, backlog, conn, asked, wpc>>
    BY <1>2 DEF Send
  <2> QED
    BY <2>1, <2>2, <2>3, <2>4, DownKept
<1>3. ASSUME NEW c \in Clients, CallFails(c) \/ Finish(c) \/ Leave(c)
      PROVE  DownInv'
  <2>1. /\ cpc[c] \in {"idle", "sending", "waiting"} /\ cpc'[c] \in {"done", "gone"}
        /\ \A d \in Clients : d # c => cpc'[d] = cpc[d]
    BY <1>3 DEF CallFails, Finish, Leave, Returns, TypeOK
  <2>2. UNCHANGED <<got, down, out, backlog, conn, asked, wpc>>
    BY <1>3 DEF CallFails, Finish, Leave, Returns
  <2> QED
    BY <2>1, <2>2, DownKept
<1>4. ASSUME NEW w \in Workers,
             Recv(w) \/ RecvEof(w) \/ Begin(w) \/ WorkerDies(w) \/ Arm(w) \/ BoxesGone(w)
      PROVE  DownInv'
  <2>1. UNCHANGED <<cpc, got, down, out, backlog, conn, asked>>
    BY <1>4 DEF Recv, RecvEof, Begin, WorkerDies, Arm, BoxesGone
  <2>2. \A v \in Workers :
          \/ wpc'[v] = wpc[v]
          \/ wpc'[v] = "dead"
          \/ /\ wpc[v] \in {"recv", "process", "run"}
             /\ wpc'[v] \in {"recv", "process", "run"}
    BY <1>4 DEF Recv, RecvEof, Begin, WorkerDies, Arm, BoxesGone, TypeOK
  <2> QED
    BY <2>1, <2>2, DownKept
<1>5. ASSUME NEW w \in Workers, Refuse(w)  PROVE DownInv'
  <2>1. conn[w] \in Clients /\ wpc[w] = "process"
    BY <1>5 DEF Refuse, TypeOK
  <2>2. cpc[conn[w]] # "gone" => "error" = Due(conn[w])
    <3>1. SUFFICES ASSUME cpc[conn[w]] # "gone"  PROVE ~Valid(asked[conn[w]])
      BY <3>1 DEF Due
    <3>2. Parses(request[w])
      BY <2>1, <3>1, WholeRequestParses
    <3> QED
      BY <1>5, <2>1, <3>2, AuthorIsServed DEF Refuse
  <2> QED
    BY <1>5, <2>1, <2>2, RespondDown DEF Refuse
<1>6. ASSUME NEW w \in Workers, Collect(w)  PROVE DownInv'
  <2>1. /\ conn[w] \in Clients /\ wpc[w] = "run"
        /\ Parses(request[w]) /\ Decodable(asked[Author(w)])
    BY <1>6 DEF Collect, TypeOK, ProgressInv
  <2>2. Author(w) = conn[w]
    BY <2>1, AuthorIsServed
  <2>3. "tasks" = Due(conn[w])
    BY <2>1, <2>2 DEF Due, Decodable, Valid
  <2> QED
    BY <1>6, <2>1, <2>2, <2>3, RespondDown DEF Collect
<1> QED
  BY <1>1, <1>2, <1>3, <1>4, <1>5, <1>6, ConnectDown, ReceiveDown, AcceptDown,
     WriteDown, CloseDown
     DEF Next, ClientStep, WorkerStep, DecodeFails, SetTaskFails, WriteFails, Killed, BoxFails
-----------------------------------------------------------------------------
(* What run_together() returns.                                            *)

AnswerInv ==
  /\ AnswerIsOwn
  /\ \A c \in Clients : cpc[c] # "done" => result[c] = "none"

\* While all the workers live, a connection that nobody has is over.
LEMMA NobodyThere ==
  ASSUME NEW c \in Clients, ~PeerOpen(c), \A w \in Workers : wpc[w] # "dead"
  PROVE  Over(c)
<1>1. \A w \in Workers : TableOpen(w)
  BY DEF TableOpen
<1>2. Listening
  BY <1>1, WorkersAssumption DEF Listening
<1> QED
  BY <1>1, <1>2 DEF PeerOpen, Over, Queued

\* What makes sense of the pieces received is the answer that is due.
LEMMA ReceivedIsDue ==
  ASSUME TypeOK, DownInv, NEW c \in Clients, cpc[c] # "gone",
         ResultOf(got[c]) # "broken"
  PROVE  got[c] = Answer(c, Due(c)) /\ ResultOf(got[c]) = Due(c)
<1>1. PICK d \in Clients, kind \in {"tasks", "error"} : got[c] = Answer(d, kind)
  BY DEF ResultOf
<1>2. 1 \in 1..Len(got[c]) /\ got[c][1] = <<d, kind, 1>>
  BY <1>1, AnswerFacts, FirstOfAnswer, PiecesAssumption
<1>3. got[c][1] = <<c, Due(c), 0 + 1>>
  BY <1>2 DEF DownInv, Follows
<1>4. d = c /\ kind = Due(c)
  BY <1>2, <1>3
<1> QED
  BY <1>1, <1>2, <1>4 DEF ResultOf

\* An answer that is complete makes sense.
LEMMA CompleteIsDue ==
  ASSUME TypeOK, DownInv, NEW c \in Clients, cpc[c] # "gone",
         Len(got[c]) = Pieces
  PROVE  ResultOf(got[c]) # "broken"
<1>1. Due(c) \in {"tasks", "error"}
  BY DEF Due
<1>2. /\ Answer(c, Due(c)) \in Seq(AnswerPiece)
      /\ Len(Answer(c, Due(c))) = Pieces
      /\ \A i \in 1..Pieces : Answer(c, Due(c))[i] = <<c, Due(c), i>>
  BY <1>1, AnswerFacts
<1>3. \A i \in 1..Pieces : got[c][i] = <<c, Due(c), i>>
  <2>1. \A i \in 1..Pieces : 0 + i = i
    BY PiecesAssumption
  <2> QED
    BY <2>1 DEF DownInv, Follows
<1>4. got[c] \in Seq(AnswerPiece)
  BY DEF TypeOK, AnswerPiece
<1>5. got[c] = Answer(c, Due(c))
  BY <1>2, <1>3, <1>4, SeqEqual
<1>6. got[c][1] = <<c, Due(c), 1>>
  BY <1>1, <1>5, FirstOfAnswer
<1> QED
  BY <1>1, <1>5, <1>6 DEF ResultOf

LEMMA AnswerStep ==
  ASSUME TypeOK, UpInv, DownInv, AnswerInv, [Next]_vars
  PROVE  AnswerInv'
<1> USE DEF clientVars, workerVars
<1> DEFINE Own(c, r) == /\ r \in {"tasks", "error"} =>
                             /\ got[c] = Answer(c, r)
                             /\ r = "tasks" <=> Valid(asked[c])
                        /\ r = "broken" => \E w \in Workers : wpc[w] = "dead"
<1>1. (\E w \in Workers : wpc[w] = "dead") => \E w \in Workers : wpc'[w] = "dead"
  BY DEF Next, vars, Connect, ClientStep, Send, CallFails, Receive, Finish, Leave,
         Returns, WorkerStep, Arm, Killed, BoxFails, BoxesGone, Accept, Recv, RecvEof, Refuse,
         Respond, DecodeFails, Begin, SetTaskFails, Collect, Write, WriteFails, Close,
         WorkerDies, TypeOK
<1>2. ASSUME NEW c \in Clients, CallFails(c)
      PROVE  /\ Own(c, "broken") /\ Returns(c, "broken")
             /\ cpc[c] \in {"idle", "sending"}
  <2>1. CASE cpc[c] = "idle" /\ ~Listening
    BY <1>2, <2>1, WorkersAssumption DEF CallFails, Listening, TableOpen
  <2>2. CASE cpc[c] = "sending" /\ ~PeerOpen(c)
    BY <1>2, <2>2, NobodyThere DEF CallFails, UpInv
  <2> QED
    BY <1>2, <2>1, <2>2 DEF CallFails
<1>3. ASSUME NEW c \in Clients, Finish(c)
      PROVE  /\ cpc[c] = "waiting"
             /\ \E r \in Result : Own(c, r) /\ Returns(c, r)
  <2> DEFINE r == IF up[c] = <<>> THEN ResultOf(got[c]) ELSE "broken"
  <2>1. /\ cpc[c] = "waiting" /\ down[c] = <<>> /\ ~PeerOpen(c) /\ Returns(c, r)
    BY <1>3 DEF Finish
  <2>2. CASE r # "broken"
    <3>1. got[c] = Answer(c, Due(c)) /\ r = Due(c)
      BY <2>1, <2>2, ReceivedIsDue
    <3>2. Own(c, r) /\ r \in Result
      BY <3>1 DEF Due, Result
    <3> QED
      BY <2>1, <3>2
  <2>3. CASE r = "broken"
    <3>1. \E w \in Workers : wpc[w] = "dead"
      <4>1. SUFFICES ASSUME \A w \in Workers : wpc[w] # "dead"  PROVE FALSE
        BY <4>1
      <4>2. Over(c)
        BY <2>1, <4>1, NobodyThere
      <4>3. up[c] = <<>> /\ Complete(Len(got[c]), Len(down[c]), 0)
        BY <2>1, <4>2 DEF UpInv, DownInv
      <4>4. Len(got[c]) = Pieces
        <5>1. Len(got[c]) \in Nat /\ Len(down[c]) = 0
          BY <2>1 DEF TypeOK
        <5> QED
          BY <4>3, <5>1, PiecesAssumption DEF Complete
      <4> QED
        BY <2>1, <2>3, <4>3, <4>4, CompleteIsDue
    <3> QED
      BY <2>1, <2>3, <3>1 DEF Result
  <2> QED
    BY <2>1, <2>2, <2>3
<1>4. ASSUME NEW c \in Clients, NEW r \in Result, cpc[c] # "done", cpc[c] # "gone",
             Own(c, r), Returns(c, r)
      PROVE  AnswerInv'
  <2>1. /\ cpc'[c] = "done" /\ result'[c] = r
        /\ \A d \in Clients : d # c => cpc'[d] = cpc[d] /\ result'[d] = result[d]
        /\ UNCHANGED <<got, asked, wpc>>
    BY <1>4 DEF Returns, TypeOK
  <2>2. \A d \in Clients : Valid(asked'[d]) = Valid(asked[d])
    BY <2>1
  <2> QED
    BY <1>4, <2>1, <2>2 DEF AnswerInv, AnswerIsOwn
<1>5. ASSUME NEW c \in Clients, Connect(c) \/ Send(c) \/ Receive(c) \/ Leave(c)
      PROVE  AnswerInv'
  <2>1. /\ cpc[c] # "done" /\ cpc'[c] # "done" /\ UNCHANGED <<result, asked, wpc>>
        /\ \A d \in Clients : d # c => cpc'[d] = cpc[d] /\ got'[d] = got[d]
    BY <1>5 DEF Connect, Send, Receive, Leave, TypeOK
  <2> QED
    BY <2>1 DEF AnswerInv, AnswerIsOwn
<1>6. CASE UNCHANGED clientVars
  BY <1>1, <1>6 DEF AnswerInv, AnswerIsOwn
<1>7. ASSUME NEW w \in Workers,
             \/ WorkerStep(w) \/ Collect(w) \/ BoxFails(w)
             \/ Arm(w) \/ Killed(w) \/ BoxesGone(w)
      PROVE  UNCHANGED clientVars
  BY <1>7 DEF WorkerStep, Arm, Killed, BoxFails, BoxesGone, Accept, Recv, RecvEof, Refuse,
              Respond, DecodeFails, Begin, SetTaskFails, Collect, Write, WriteFails,
              Close, WorkerDies
<1>8. ASSUME NEW c \in Clients, CallFails(c) \/ Finish(c)  PROVE AnswerInv'
  <2>1. PICK r \in Result : /\ Own(c, r) /\ Returns(c, r)
                            /\ cpc[c] # "done" /\ cpc[c] # "gone"
    BY <1>2, <1>3, <1>8 DEF Result
  <2> QED
    BY <1>4, <2>1
<1> QED
  BY <1>5, <1>6, <1>7, <1>8 DEF Next, ClientStep, vars

\* Whatever is requested, by any number of clients, of any number of workers:
\* what run_together() returns is the answer to its own request, and a call
\* breaks off only after a worker has died.
THEOREM AnswerIsAlwaysOwn == Spec => []AnswerIsOwn
<1> DEFINE Inv == TypeOK /\ ProgressInv /\ PlacesInv /\ UpInv /\ DownInv /\ AnswerInv
<1>1. Init => Inv
  <2>1. Init => AnswerInv
    BY DEF Init, AnswerInv, AnswerIsOwn
  <2> QED
    BY <2>1, TypeInit, PlacesInit, UpInit, DownInit
<1>2. Inv /\ [Next]_vars => Inv'
  BY TypeStep, PlacesStep, UpStep, DownStep, AnswerStep
<1>3. Inv => AnswerIsOwn
  BY DEF AnswerInv
<1> QED
  BY <1>1, <1>2, <1>3, PTL DEF Spec
=============================================================================
