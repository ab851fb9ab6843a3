--------------------------- MODULE ControlServer ---------------------------
(***************************************************************************)
(* One call of control/client.py to the control daemon, over the Unix      *)
(* socket that systemd listens on, through accept, the queue in front of   *)
(* the worker threads and one worker's handle_connection, to the answer.   *)
(* What a request does is ControlDaemon's; here it is performed or not.    *)
(*                                                                         *)
(* The daemon may die at any moment: the socket, with the connections not  *)
(* yet accepted, is systemd's and survives it; the accepted ones do not.   *)
(* The client waits only so long for an answer, and never asks again.      *)
(***************************************************************************)
EXTENDS Sequences, FiniteSets, Naturals

CONSTANTS Calls,       \* one per request; a client makes it once
          Mutations,   \* the calls that need the daemon's operation lock
          WorkerCount, \* CONTROL_WORKER_COUNT
          Backlog,     \* of the systemd socket
          MaxStops     \* bound: crashes of the daemon and stops of the socket

ASSUME MutationsAreCalls == Mutations \subseteq Calls
ASSUME CountsAreNat == WorkerCount \in Nat \ {0} /\ Backlog \in Nat /\ MaxStops \in Nat

VARIABLES caller,     \* the client's end of each call
          sent,       \* the calls whose whole frame the client has sent
          conn,       \* the server's end of each call
          pending,    \* the socket's backlog
          queue,      \* connections accepted and submitted to the workers
          performed,  \* the calls dispatched to the end
          daemon,     \* "up", "down", or "off": with the socket stopped
          stops

vars == <<caller, sent, conn, pending, queue, performed, daemon, stops>>

\* The errors of ControlClientError are told apart by their code.
Told == {"answered", "OPERATION_IN_PROGRESS", "DAEMON_UNAVAILABLE", "DAEMON_TIMEOUT",
         "INVALID_RESPONSE", "SOCKET_ERROR"}
Caller == {"idle", "connected", "waiting"} \union Told

\* pending and queued; a worker's: reading, performing, done, busy; and then:
\* a response delivered, or the connection closed, or reset with data unread.
Worked == {"reading", "performing", "done", "busy"}
Conn == {"none", "pending", "queued"} \union Worked \union
        {"response", "refusal", "closed", "reset"}

TypeOK ==
  /\ caller \in [Calls -> Caller]
  /\ sent \in SUBSET Calls
  /\ conn \in [Calls -> Conn]
  /\ pending \in Seq(Calls) /\ Len(pending) <= Backlog + 1
  /\ queue \in Seq(Calls)
  /\ performed \in SUBSET sent
  /\ daemon \in {"up", "down", "off"}
  /\ stops \in 0 .. MaxStops
  /\ Cardinality({c \in Calls : conn[c] \in Worked}) <= WorkerCount

Init ==
  /\ caller = [c \in Calls |-> "idle"]
  /\ sent = {}
  /\ conn = [c \in Calls |-> "none"]
  /\ pending = <<>>
  /\ queue = <<>>
  /\ performed = {}
  /\ daemon \in {"up", "down"}
  /\ stops = 0

CallerGone(c) == caller[c] \in Told
Tell(c, what) == caller' = [caller EXCEPT ![c] = what]
Move(c, to) == conn' = [conn EXCEPT ![c] = to]

-----------------------------------------------------------------------------
(* The client.  A Faulty variant is used by no action, only by the mutation   *)
(* checks of PROJECT.json.                                                    *)

\* connect(): the kernel refuses it when the backlog is full (a socket with a
\* timeout does not wait for room), or when nothing listens.
Connect(c) ==
  /\ caller[c] = "idle"
  /\ IF daemon = "off"
     THEN Tell(c, "DAEMON_UNAVAILABLE") /\ UNCHANGED <<conn, pending>>
     ELSE IF Len(pending) > Backlog
     THEN Tell(c, "SOCKET_ERROR") /\ UNCHANGED <<conn, pending>>
     ELSE /\ Tell(c, "connected")
          /\ Move(c, "pending")
          /\ pending' = Append(pending, c)
  /\ UNCHANGED <<sent, queue, performed, daemon, stops>>

\* sendall(): a connection closed already breaks the pipe.
Send(c) ==
  /\ caller[c] = "connected"
  /\ IF conn[c] \in {"closed", "reset"}
     THEN Tell(c, "SOCKET_ERROR") /\ UNCHANGED sent
     ELSE Tell(c, "waiting") /\ sent' = sent \union {c}
  /\ UNCHANGED <<conn, pending, queue, performed, daemon, stops>>

\* receive_frame(): the response, or how the connection ended without one.
FaultyCodeOf(end) ==
  CASE end = "response" -> "answered"
    [] end = "refusal"  -> "OPERATION_IN_PROGRESS"
    [] OTHER            -> "DAEMON_UNAVAILABLE"
CodeOf(end) ==
  CASE end = "response" -> "answered"
    [] end = "refusal"  -> "OPERATION_IN_PROGRESS"
    [] end = "reset"    -> "DAEMON_UNAVAILABLE"
    [] end = "closed"   -> "INVALID_RESPONSE"

Return(c) ==
  /\ caller[c] = "waiting"
  /\ conn[c] \in {"response", "refusal", "closed", "reset"}
  /\ Tell(c, CodeOf(conn[c]))
  /\ UNCHANGED <<sent, conn, pending, queue, performed, daemon, stops>>

\* Any operation on the socket may run into its timeout (and the client may be
\* killed, which is the same to the daemon).
TimeOut(c) ==
  /\ caller[c] \in {"connected", "waiting"}
  /\ Tell(c, "DAEMON_TIMEOUT")
  /\ UNCHANGED <<sent, conn, pending, queue, performed, daemon, stops>>

-----------------------------------------------------------------------------
(* The daemon *)

\* serve: accept and submit.
Accept ==
  /\ daemon = "up"
  /\ pending # <<>>
  /\ Move(Head(pending), "queued")
  /\ pending' = Tail(pending)
  /\ queue' = Append(queue, Head(pending))
  /\ UNCHANGED <<caller, sent, performed, daemon, stops>>

\* A worker of the pool takes the first connection.
TakeUp ==
  /\ queue # <<>>
  /\ Cardinality({c \in Calls : conn[c] \in Worked}) < WorkerCount
  /\ Move(Head(queue), "reading")
  /\ queue' = Tail(queue)
  /\ UNCHANGED <<caller, sent, pending, performed, daemon, stops>>

\* dispatch: a mutation takes the lock or is refused at once.
Admitted(c) == c \in Mutations => \A d \in Mutations : conn[d] # "performing"

Receive(c) ==
  /\ conn[c] = "reading"
  /\ c \in sent
  /\ Move(c, IF Admitted(c) THEN "performing" ELSE "busy")
  /\ UNCHANGED <<caller, sent, pending, queue, performed, daemon, stops>>

\* No whole frame: the client is gone, or 5 seconds have passed.
FaultyIncomplete(c) == c \notin sent /\ CallerGone(c)
Incomplete(c) == c \notin sent

ReceiveFails(c) ==
  /\ conn[c] = "reading"
  /\ Incomplete(c)
  /\ Move(c, "closed")
  /\ UNCHANGED <<caller, sent, pending, queue, performed, daemon, stops>>

\* The operation: what it does, whether it then fails or not, and its end,
\* where the lock is released.
Perform(c) ==
  /\ conn[c] = "performing"
  /\ c \notin performed
  /\ performed' = performed \union {c}
  /\ UNCHANGED <<caller, sent, conn, pending, queue, daemon, stops>>

Finish(c) ==
  /\ conn[c] = "performing"
  /\ c \in performed
  /\ Move(c, "done")
  /\ UNCHANGED <<caller, sent, pending, queue, performed, daemon, stops>>

\* sendall and close; nobody may be there to read it.
Reply(c) ==
  Move(c, IF CallerGone(c) THEN "closed"
          ELSE IF conn[c] = "done" THEN "response" ELSE "refusal")

Respond(c) ==
  /\ conn[c] \in {"done", "busy"}
  /\ Reply(c)
  /\ UNCHANGED <<caller, sent, pending, queue, performed, daemon, stops>>

-----------------------------------------------------------------------------
(* systemd and the kernel *)

\* How the death of the process ends a connection: reset if a request was
\* still unread in it, closed otherwise; of a request being read either.
Broken(c) ==
  CASE conn[c] = "queued"  -> {IF c \in sent THEN "reset" ELSE "closed"}
    [] conn[c] = "reading" -> {"closed"} \union (IF c \in sent THEN {"reset"} ELSE {})
    [] conn[c] \in {"performing", "done", "busy"} -> {"closed"}
    [] OTHER -> {conn[c]}

\* The daemon dies, before or after what a running operation does.
Crash ==
  /\ daemon = "up"
  /\ stops < MaxStops
  /\ conn' \in {f \in [Calls -> Conn] : \A c \in Calls : f[c] \in Broken(c)}
  /\ queue' = <<>>
  /\ daemon' = "down"
  /\ stops' = stops + 1
  /\ UNCHANGED <<caller, sent, pending, performed>>

\* Restart=on-failure, or a connection to the socket.
Start ==
  /\ daemon = "down"
  /\ daemon' = "up"
  /\ UNCHANGED <<caller, sent, conn, pending, queue, performed, stops>>

\* The socket unit is stopped, while the daemon is down, and started again:
\* the connections in the backlog are reset.
StopSocket ==
  /\ daemon = "down"
  /\ stops < MaxStops
  /\ conn' = [c \in Calls |-> IF conn[c] = "pending" THEN "reset" ELSE conn[c]]
  /\ pending' = <<>>
  /\ daemon' = "off"
  /\ stops' = stops + 1
  /\ UNCHANGED <<caller, sent, queue, performed>>

StartSocket ==
  /\ daemon = "off"
  /\ daemon' = "down"
  /\ UNCHANGED <<caller, sent, conn, pending, queue, performed, stops>>

-----------------------------------------------------------------------------
Client(c) == Connect(c) \/ Send(c) \/ Return(c) \/ TimeOut(c)
Worker(c) == Receive(c) \/ ReceiveFails(c) \/ Perform(c) \/ Finish(c) \/ Respond(c)

Next ==
  \/ \E c \in Calls : Client(c) \/ Worker(c)
  \/ Accept \/ TakeUp
  \/ Crash \/ Start \/ StopSocket \/ StartSocket

Spec == Init /\ [][Next]_vars

\* The threads of the daemon are scheduled, a read ends by CONTROL_IO_TIMEOUT,
\* an operation by the timeouts of its commands; systemd restarts what it
\* runs.  Nothing is assumed of the client.
ServerFairness ==
  /\ \A c \in Calls : WF_vars(Worker(c))
  /\ WF_vars(Accept) /\ WF_vars(TakeUp) /\ WF_vars(Start) /\ WF_vars(StartSocket)

FairSpec == Spec /\ ServerFairness

-----------------------------------------------------------------------------
(* Properties *)

\* What each code says of the call.  DAEMON_UNAVAILABLE and SOCKET_ERROR mean
\* that it was refused: a request is read whole before it is dispatched, so a
\* connection the daemon leaves unread has not been acted upon.
Known(c) ==
  CASE caller[c] = "idle" -> "idle"
    [] caller[c] \in {"connected", "waiting"} -> "waiting"
    [] caller[c] = "answered" -> "performed"
    [] caller[c] \in {"OPERATION_IN_PROGRESS", "DAEMON_UNAVAILABLE", "SOCKET_ERROR"} -> "refused"
    [] caller[c] \in {"DAEMON_TIMEOUT", "INVALID_RESPONSE"} -> "unknown"

Abstract == INSTANCE RemoteCall WITH told <- [c \in Calls |-> Known(c)]

\* Client and daemon implement a remote call: performed at most once, answered
\* after that, and never performed once it has been reported as refused,
\* however often the daemon dies.
RemoteCallHolds == Abstract!Spec

\* No connection is forgotten: the whole request of a client that waits gets to
\* a worker and to its response, or the client learns that it will not, even
\* when other clients keep silent on their connections for ever.
Served ==
  \A c \in Calls : conn[c] \in {"pending", "queued"} \union Worked
                     ~> conn[c] \in {"response", "refusal", "closed", "reset"}
=============================================================================
