------------------------------ MODULE Exchange ------------------------------
(***************************************************************************)
(* How requests and answers pass between the callers of run_together()     *)
(* (src/src/libsbox.cpp) and the workers of libsboxd (serve(), process()   *)
(* in src/src/worker.cpp), which all accept on one socket.                 *)
(*                                                                         *)
(* A message is a sequence of pieces, each as much as one recv() returns;  *)
(* the last piece of a request has the null byte.  The worker's end of a   *)
(* connection is in a descriptor table it shares with its containers       *)
(* (CLONE_FILES): it is closed when the worker closes it, or when the last *)
(* process of the table has ended.  How the tasks are run is Sandbox: here *)
(* a run may end or not, and it may fail if the request gives it reason.   *)
(***************************************************************************)
EXTENDS Integers, Sequences

CONSTANTS
  Clients,    \* callers of run_together()
  Workers,    \* worker processes
  Requests,   \* the requests that are made
  Pieces,     \* the pieces of a request, and of an answer
  Room,       \* how many pieces the buffer of a socket takes
  Impatient,  \* the clients that may end before they have their answer
  NoClient

\* What serialize_request() writes of a task, and deserialize_request() reads.
Members ==
  {"time_limit_ms", "wall_time_limit_ms", "memory_limit_kb", "fsize_limit_kb",
   "max_files", "max_threads", "need_ipc", "use_standard_binds", "stdin",
   "stdout", "stderr", "argv", "env", "binds"}

\* The schema of requests does not ask for env, and it types "ipc" and
\* "standard_binds", which nobody reads.
Required == Members \ {"env"}
Typed == Members \ {"env", "need_ipc", "use_standard_binds"}

\* What holds integers, to the schema of any size: the flags of a bind, too.
Numbers ==
  {"time_limit_ms", "wall_time_limit_ms", "memory_limit_kb", "fsize_limit_kb",
   "max_files", "max_threads", "binds"}

\* A request by what is not as serialize_request() writes it or has an integer
\* outside its C++ type; by whether it keeps to the limits of set_task(); and
\* by whether no container can fail of it: the executables, files and sources
\* it names exist, its binds can be made and its programs leave them so that
\* they can be undone (see TaskBox), and it has no limit that could end a
\* program before it has begun (see Sandbox).
Request ==
  [missing : SUBSET Members, mistyped : SUBSET Members,
   outsized : SUBSET Numbers, fits : BOOLEAN, safe : BOOLEAN]

ASSUME RequestsAssumption == Requests \subseteq Request
ASSUME PiecesAssumption == Pieces \in Nat \ {0} /\ Room \in Nat \ {0}
ASSUME WorkersAssumption == Workers # {}
ASSUME ClientsAssumption == NoClient \notin Clients /\ Impatient \subseteq Clients

\* SchemaValidator::validate().
Valid(r) == r.missing \cap Required = {} /\ r.mistyped \cap Typed = {}

\* deserialize_request() finds every member, of its type.
Decodable(r) == r.missing = {} /\ r.mistyped = {} /\ r.outsized = {}

Message(c) == [n \in 1..Pieces |-> <<c, n>>]
Answer(c, kind) == [n \in 1..Pieces |-> <<c, kind, n>>]

ClientPc == {"idle", "sending", "waiting", "done", "gone"}
WorkerPc == {"accept", "recv", "process", "run", "reply", "dead"}
Result == {"none", "tasks", "error", "broken"}

VARIABLES
  cpc,      \* the program counter of each client
  asked,    \* what each client requests
  sent,     \* how many pieces each client has sent
  got,      \* res: the pieces each client has received
  result,   \* what run_together() has returned to each client
  backlog,  \* the connections nobody has accepted yet
  up,       \* the pieces on their way to the worker, for each connection
  down,     \* the pieces on their way to the client
  wpc,      \* the program counter of each worker
  conn,     \* socket_fd_: the connection each worker serves
  request,  \* request: the pieces each worker has read
  out,      \* the pieces of response still to be written
  boxes,    \* the containers of each worker: "none", "armed" if every one has
            \* its parent death signal set, "new" otherwise
  hurt      \* the workers whose containers were given a task they may fail of

clientVars == <<cpc, asked, sent, got, result>>
workerVars == <<wpc, conn, request, out, boxes, hurt>>
vars == <<clientVars, workerVars, backlog, up, down>>

TypeOK ==
  /\ cpc \in [Clients -> ClientPc]
  /\ asked \in [Clients -> Request]
  /\ sent \in [Clients -> 0..Pieces]
  /\ got \in [Clients -> Seq(Clients \X {"tasks", "error"} \X (1..Pieces))]
  /\ result \in [Clients -> Result]
  /\ backlog \in Seq(Clients)
  /\ up \in [Clients -> Seq(Clients \X (1..Pieces))]
  /\ down \in [Clients -> Seq(Clients \X {"tasks", "error"} \X (1..Pieces))]
  /\ \A c \in Clients : Len(up[c]) <= Room /\ Len(down[c]) <= Room
  /\ wpc \in [Workers -> WorkerPc]
  /\ conn \in [Workers -> Clients \cup {NoClient}]
  /\ \A w \in Workers : wpc[w] \notin {"accept", "dead"} => conn[w] \in Clients
  /\ request \in [Workers -> Seq(Clients \X (1..Pieces))]
  /\ out \in [Workers -> Seq(Clients \X {"tasks", "error"} \X (1..Pieces))]
  /\ boxes \in [Workers -> {"none", "new", "armed"}]
  /\ hurt \subseteq Workers

Init ==
  /\ cpc = [c \in Clients |-> "idle"]
  /\ asked \in [Clients -> Requests]
  /\ sent = [c \in Clients |-> 0]
  /\ got = [c \in Clients |-> <<>>]
  /\ result = [c \in Clients |-> "none"]
  /\ backlog = <<>>
  /\ up = [c \in Clients |-> <<>>]
  /\ down = [c \in Clients |-> <<>>]
  /\ wpc = [w \in Workers |-> "accept"]
  /\ conn = [w \in Workers |-> NoClient]
  /\ request = [w \in Workers |-> <<>>]
  /\ out = [w \in Workers |-> <<>>]
  /\ boxes = [w \in Workers |-> "none"]
  /\ hurt = {}

\* Some process still has the descriptors of worker w.
TableOpen(w) == wpc[w] # "dead" \/ boxes[w] # "none"

\* The listening socket is in every table.  The daemon has it too, and dies
\* with the first of its workers.
Listening == \E w \in Workers : TableOpen(w)

\* The other end of c's connection is open: not accepted yet, or served.
PeerOpen(c) ==
  \/ Listening /\ \E k \in 1..Len(backlog) : backlog[k] = c
  \/ \E w \in Workers : conn[w] = c /\ TableOpen(w)
-----------------------------------------------------------------------------
(* The clients: run_together().                                            *)

\* listen() with a backlog of 0 lets one connection wait.
Connect(c) ==
  /\ cpc[c] = "idle"
  /\ Listening /\ Len(backlog) <= 0
  /\ backlog' = Append(backlog, c)
  /\ cpc' = [cpc EXCEPT ![c] = "sending"]
  /\ UNCHANGED <<asked, sent, got, result, workerVars, up, down>>

\* Mutant: the null byte is not sent.
SendNoNull(c) ==
  /\ cpc[c] = "sending"
  /\ PeerOpen(c) /\ Len(up[c]) < Room
  /\ sent' = [sent EXCEPT ![c] = @ + 1]
  /\ up' = [up EXCEPT ![c] = IF sent[c] + 1 = Pieces THEN @
                             ELSE Append(@, Message(c)[sent[c] + 1])]
  /\ cpc' = [cpc EXCEPT ![c] = IF sent[c] + 1 = Pieces THEN "waiting" ELSE @]
  /\ UNCHANGED <<asked, got, result, workerVars, backlog, down>>

\* The whole message is one send(), which takes its time.
Send(c) ==
  /\ cpc[c] = "sending"
  /\ PeerOpen(c) /\ Len(up[c]) < Room
  /\ sent' = [sent EXCEPT ![c] = @ + 1]
  /\ up' = [up EXCEPT ![c] = Append(@, Message(c)[sent[c] + 1])]
  /\ cpc' = [cpc EXCEPT ![c] = IF sent[c] + 1 = Pieces THEN "waiting" ELSE @]
  /\ UNCHANGED <<asked, got, result, workerVars, backlog, down>>

\* run_together() returns r, and closes the client's end.
Returns(c, r) ==
  /\ cpc' = [cpc EXCEPT ![c] = "done"]
  /\ result' = [result EXCEPT ![c] = r]
  /\ UNCHANGED <<asked, sent, got, workerVars, backlog, up, down>>

\* connect() or send() fails, the latter with a SIGPIPE: nobody is there.
CallFails(c) ==
  /\ \/ cpc[c] = "idle" /\ ~Listening
     \/ cpc[c] = "sending" /\ ~PeerOpen(c)
  /\ Returns(c, "broken")

Receive(c) ==
  /\ cpc[c] = "waiting" /\ down[c] # <<>>
  /\ got' = [got EXCEPT ![c] = Append(@, Head(down[c]))]
  /\ down' = [down EXCEPT ![c] = Tail(@)]
  /\ UNCHANGED <<cpc, asked, sent, result, workerVars, backlog, up>>

\* What run_together() makes of what it has received.  An answer is complete
\* or it does not parse; nothing in it says whose request it answers.
ResultOf(pieces) ==
  IF \E d \in Clients, kind \in {"tasks", "error"} : pieces = Answer(d, kind)
  THEN pieces[1][2] ELSE "broken"

\* recv() returns 0, or ECONNRESET if the worker has closed its end without
\* having read everything.
Finish(c) ==
  /\ cpc[c] = "waiting" /\ down[c] = <<>> /\ ~PeerOpen(c)
  /\ Returns(c, IF up[c] = <<>> THEN ResultOf(got[c]) ELSE "broken")

\* The client's process ends: the kernel closes its end.
Leave(c) ==
  /\ c \in Impatient /\ cpc[c] \in {"sending", "waiting"}
  /\ cpc' = [cpc EXCEPT ![c] = "gone"]
  /\ UNCHANGED <<asked, sent, got, result, workerVars, backlog, up, down>>

ClientStep(c) == Send(c) \/ CallFails(c) \/ Receive(c) \/ Finish(c)
-----------------------------------------------------------------------------
(* The workers: serve() and process().                                     *)

\* die(), or SIGKILL.  A container without a parent death signal stays.
WorkerDies(w) ==
  /\ wpc' = [wpc EXCEPT ![w] = "dead"]
  /\ UNCHANGED <<clientVars, conn, request, out, boxes, hurt, backlog, up, down>>

\* Mutant: request outlives the round of the loop.
AcceptKeepsRequest(w) ==
  /\ wpc[w] = "accept" /\ backlog # <<>>
  /\ conn' = [conn EXCEPT ![w] = Head(backlog)]
  /\ backlog' = Tail(backlog)
  /\ wpc' = [wpc EXCEPT ![w] = "recv"]
  /\ UNCHANGED <<clientVars, request, out, boxes, hurt, up, down>>

Accept(w) ==
  /\ wpc[w] = "accept" /\ backlog # <<>>
  /\ conn' = [conn EXCEPT ![w] = Head(backlog)]
  /\ request' = [request EXCEPT ![w] = <<>>]
  /\ backlog' = Tail(backlog)
  /\ wpc' = [wpc EXCEPT ![w] = "recv"]
  /\ UNCHANGED <<clientVars, out, boxes, hurt, up, down>>

\* A piece is read; after the null byte the request is processed.
Recv(w) ==
  /\ wpc[w] = "recv" /\ up[conn[w]] # <<>>
  /\ LET piece == Head(up[conn[w]]) IN
       /\ request' = [request EXCEPT ![w] = Append(@, piece)]
       /\ wpc' = [wpc EXCEPT ![w] = IF piece[2] = Pieces THEN "process" ELSE @]
  /\ up' = [up EXCEPT ![conn[w]] = Tail(@)]
  /\ UNCHANGED <<clientVars, conn, out, boxes, hurt, backlog, down>>

\* The client has closed its end, and everything it had sent is read.
RecvEof(w) ==
  /\ wpc[w] = "recv" /\ up[conn[w]] = <<>> /\ cpc[conn[w]] = "gone"
  /\ wpc' = [wpc EXCEPT ![w] = "process"]
  /\ UNCHANGED <<clientVars, conn, request, out, boxes, hurt, backlog, up, down>>

\* A part of a message, or more than one, does not parse.
Parses(pieces) == \E d \in Clients : pieces = Message(d)

\* The client whose request worker w has read.
Author(w) == request[w][1][1]

\* Mutant: the connection is closed before the response is written.
RespondAndClose(w, answer) ==
  /\ out' = [out EXCEPT ![w] = answer]
  /\ wpc' = [wpc EXCEPT ![w] = "reply"]
  /\ conn' = [conn EXCEPT ![w] = NoClient]
  /\ UNCHANGED <<clientVars, request, boxes, hurt, backlog, up, down>>

\* process() returns, and its response is to be written.
Respond(w, answer) ==
  /\ out' = [out EXCEPT ![w] = answer]
  /\ wpc' = [wpc EXCEPT ![w] = "reply"]
  /\ UNCHANGED <<clientVars, conn, request, boxes, hurt, backlog, up, down>>

\* Mutant: a request that is refused is fatal.
RefuseByDying(w) ==
  /\ wpc[w] = "process"
  /\ Parses(request[w]) => ~Valid(asked[Author(w)])
  /\ WorkerDies(w)

\* process(): the request is refused.
Refuse(w) ==
  /\ wpc[w] = "process"
  /\ Parses(request[w]) => ~Valid(asked[Author(w)])
  /\ Respond(w, Answer(conn[w], "error"))

\* deserialize_request() dies of what the schema has let pass.
DecodeFails(w) ==
  /\ wpc[w] = "process" /\ Parses(request[w])
  /\ Valid(asked[Author(w)]) /\ ~Decodable(asked[Author(w)])
  /\ WorkerDies(w)

\* prepare_containers() clones the containers that are missing.
Begin(w) ==
  /\ wpc[w] = "process" /\ Parses(request[w]) /\ Decodable(asked[Author(w)])
  /\ wpc' = [wpc EXCEPT ![w] = "run"]
  /\ \/ boxes' = [boxes EXCEPT ![w] = "new"]
     \/ boxes[w] = "armed" /\ UNCHANGED boxes
  /\ hurt' = IF asked[Author(w)].safe THEN hurt ELSE hurt \cup {w}
  /\ UNCHANGED <<clientVars, conn, request, out, backlog, up, down>>

\* set_task() dies of a task that is larger than the task data.
SetTaskFails(w) ==
  /\ wpc[w] = "run" /\ ~asked[Author(w)].fits
  /\ WorkerDies(w)

\* A container fails of a task it was given, or its slave does: as it makes
\* the binds, as the slave opens its streams or executes the program, as it
\* undoes the binds, or as it cleans up when its results are collected.  The
\* worker's handler of SIGCHLD dies, whatever the worker is doing.
BoxFails(w) ==
  /\ w \in hurt /\ wpc[w] # "dead"
  /\ WorkerDies(w)

\* Container::prepare(): the parent death signal is set, in time.
Arm(w) ==
  /\ wpc[w] # "dead" /\ boxes[w] = "new"
  /\ boxes' = [boxes EXCEPT ![w] = "armed"]
  /\ UNCHANGED <<clientVars, wpc, conn, request, out, hurt, backlog, up, down>>

\* collect_results(): all the tasks have ended, if they do: see RunTogether.
Collect(w) ==
  /\ wpc[w] = "run" /\ asked[Author(w)].fits /\ boxes[w] = "armed"
  /\ Respond(w, Answer(Author(w), "tasks"))

Write(w) ==
  /\ wpc[w] = "reply" /\ out[w] # <<>>
  /\ cpc[conn[w]] \notin {"done", "gone"} /\ Len(down[conn[w]]) < Room
  /\ down' = [down EXCEPT ![conn[w]] = Append(@, Head(out[w]))]
  /\ out' = [out EXCEPT ![w] = Tail(@)]
  /\ UNCHANGED <<clientVars, wpc, conn, request, boxes, hurt, backlog, up>>

\* write() finds the client's end closed.
WriteFails(w) ==
  /\ wpc[w] = "reply" /\ out[w] # <<>>
  /\ cpc[conn[w]] \in {"done", "gone"}
  /\ WorkerDies(w)

Close(w) ==
  /\ wpc[w] = "reply" /\ out[w] = <<>>
  /\ conn' = [conn EXCEPT ![w] = NoClient]
  /\ wpc' = [wpc EXCEPT ![w] = "accept"]
  /\ UNCHANGED <<clientVars, request, out, boxes, hurt, backlog, up, down>>

\* The daemon has noticed another worker's death and dies, and w is killed.
Killed(w) ==
  /\ wpc[w] # "dead"
  /\ \E v \in Workers : wpc[v] = "dead"
  /\ WorkerDies(w)

\* The kernel kills the armed containers of a dead worker.
BoxesGone(w) ==
  /\ wpc[w] = "dead" /\ boxes[w] = "armed"
  /\ boxes' = [boxes EXCEPT ![w] = "none"]
  /\ UNCHANGED <<clientVars, wpc, conn, request, out, hurt, backlog, up, down>>

WorkerStep(w) ==
  \/ Accept(w) \/ Recv(w) \/ RecvEof(w) \/ Refuse(w) \/ DecodeFails(w)
  \/ Begin(w) \/ SetTaskFails(w) \/ Write(w) \/ WriteFails(w) \/ Close(w)

Next ==
  \/ \E c \in Clients : Connect(c) \/ ClientStep(c) \/ Leave(c)
  \/ \E w \in Workers : \/ WorkerStep(w) \/ Collect(w) \/ BoxFails(w)
                        \/ Arm(w) \/ Killed(w) \/ BoxesGone(w)

Spec == Init /\ [][Next]_vars

(* Every process that can go on does, and SIGKILL arrives.  Nothing obliges *)
(* a client to call run_together(), or to leave before it returns; a        *)
(* container to fail; or a run to end: its program may have no limit, or    *)
(* the worker may wait for containers whose ends it has not noticed (see    *)
(* Sandbox).                                                                *)
Fairness ==
  /\ \A c \in Clients : WF_vars(ClientStep(c))
  /\ \A w \in Workers :
       /\ WF_vars(WorkerStep(w))
       /\ WF_vars(Arm(w))
       /\ WF_vars(Killed(w))
       /\ WF_vars(BoxesGone(w))

FairSpec == Spec /\ Fairness
-----------------------------------------------------------------------------
(* Properties.                                                             *)

\* What run_together() returns is about the caller's own request: results for
\* one that is valid, the worker's refusal for one that is not.  Nothing in a
\* message names its request: only the framing keeps them together.  No call
\* breaks off while all the workers live.
AnswerIsOwn ==
  \A c \in Clients :
    /\ result[c] \in {"tasks", "error"} =>
         /\ got[c] = Answer(c, result[c])
         /\ result[c] = "tasks" <=> Valid(asked[c])
    /\ result[c] = "broken" => \E w \in Workers : wpc[w] = "dead"

\* A worker, and with it the service, ends only for what a request or a
\* client gives reason to ("Currently all errors lead to libsboxd shutdown",
\* src/src/libsboxd.cpp:113): a task that the schema lets pass and that cannot
\* be decoded, does not fit or fails in its container, or a client that leaves
\* before its answer.  What the schema refuses ends nothing, nor does a caller
\* whose tasks decode, fit and cannot fail, whatever order requests come in.
DeathIsExplained ==
  (\E w \in Workers : wpc[w] = "dead") =>
    \E c \in Clients :
      /\ cpc[c] # "idle"
      /\ \/ cpc[c] = "gone"
         \/ /\ Valid(asked[c])
            /\ ~(Decodable(asked[c]) /\ asked[c].fits /\ asked[c].safe)

\* The request of client c is not run for ever.
RunEnds(c) == []<>(\A w \in Workers : ~(wpc[w] = "run" /\ conn[w] = c))

\* Some worker does not run one request for ever.
WorkerLeft == \E w \in Workers : []<>(wpc[w] # "run")

\* run_together() returns to a caller whose own request is not run for ever,
\* as long as not every worker runs one for ever, also when workers die,
\* unless a container outlives its worker and keeps the connections open.
CallReturns ==
  \A c \in Clients :
    RunEnds(c) /\ WorkerLeft =>
      (cpc[c] \in {"sending", "waiting"} ~>
         \/ cpc[c] \in {"done", "gone"}
         \/ \E w \in Workers : wpc[w] = "dead" /\ boxes[w] = "new")
=============================================================================
