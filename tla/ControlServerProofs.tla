------------------------ MODULE ControlServerProofs ------------------------
(***************************************************************************)
(* ControlServer implements RemoteCall, for any number of calls, workers,  *)
(* connections in the backlog and deaths of the daemon.                    *)
(***************************************************************************)
EXTENDS ControlServer, TLAPS

Over == {"response", "refusal", "closed", "reset"}
NotRun == {"none", "pending", "queued", "reading", "busy", "refusal", "reset"}

-----------------------------------------------------------------------------
(* The inductive invariant *)

\* The functions and queues are what the actions take them for.
Shape ==
  /\ caller \in [Calls -> Caller]
  /\ conn \in [Calls -> Conn]
  /\ pending \in Seq(Calls)
  /\ queue \in Seq(Calls)

\* A queue holds the connections in its state, each once: taking one up again
\* would perform its call again.
Holds(q, state) ==
  /\ \A i \in DOMAIN q : conn[q[i]] = state
  /\ \A i, j \in DOMAIN q : q[i] = q[j] => i = j

\* A client that has not connected has no connection, and until it has sent its
\* request there is nothing to perform.
NotSent ==
  \A c \in Calls :
    /\ caller[c] = "idle" => conn[c] = "none"
    /\ caller[c] \in {"idle", "connected"} => c \notin sent
    /\ caller[c] \in {"connected", "waiting"} => conn[c] # "none"

\* Where a call has been performed, and where it cannot have been.
Effects ==
  \A c \in Calls :
    /\ c \in performed => c \in sent
    /\ conn[c] \in NotRun => c \notin performed
    /\ conn[c] \in {"done", "response"} => c \in performed
    /\ conn[c] \in {"performing", "done", "busy", "response", "refusal"} => c \in sent

\* A call reported as refused is not performed, and its connection is over.
RefusedIsOver ==
  \A c \in Calls : Known(c) = "refused" =>
    /\ c \notin performed
    /\ conn[c] \in Over \union {"none"}

AnsweredIsPerformed ==
  \A c \in Calls : caller[c] = "answered" => c \in performed

SInv ==
  /\ Shape
  /\ Holds(pending, "pending") /\ Holds(queue, "queued")
  /\ NotSent /\ Effects /\ RefusedIsOver /\ AnsweredIsPerformed

LEMMA InitSInv == Init => SInv
BY DEF Init, SInv, Shape, Holds, NotSent, Effects, RefusedIsOver, AnsweredIsPerformed, Known, Caller, Conn, NotRun

-----------------------------------------------------------------------------
(* The queues *)

\* The first of a queue leaves it for another state.
LEMMA Leaves ==
  ASSUME NEW q \in Seq(Calls), NEW state, NEW to \in Conn, Shape, q # <<>>, Holds(q, state),
         conn' = [conn EXCEPT ![Head(q)] = to], to # state
  PROVE  /\ Head(q) \in Calls /\ conn[Head(q)] = state
         /\ Tail(q) \in Seq(Calls)
         /\ \A i \in DOMAIN Tail(q) : conn'[Tail(q)[i]] = state
         /\ \A i, j \in DOMAIN Tail(q) : Tail(q)[i] = Tail(q)[j] => i = j
<1>1. /\ Len(q) \in Nat \ {0} /\ DOMAIN q = 1 .. Len(q)
      /\ Head(q) = q[1] /\ q[1] \in Calls
      /\ Tail(q) \in Seq(Calls)
      /\ DOMAIN Tail(q) = 1 .. (Len(q) - 1)
      /\ \A i \in 1 .. (Len(q) - 1) : Tail(q)[i] = q[i + 1]
  OBVIOUS
<1>2. \A i \in 1 .. Len(q) : q[i] \in Calls
  OBVIOUS
<1>3. \A i \in 1 .. Len(q) : i # 1 => q[i] # q[1]
  BY <1>1 DEF Holds
<1>4. ASSUME NEW i \in DOMAIN Tail(q) PROVE conn'[Tail(q)[i]] = state
  <2>1. i + 1 \in 1 .. Len(q) /\ i + 1 # 1 /\ Tail(q)[i] = q[i + 1]
    BY <1>1
  <2>2. q[i + 1] # Head(q) /\ q[i + 1] \in Calls /\ conn[q[i + 1]] = state
    BY <1>1, <1>2, <1>3, <2>1 DEF Holds
  <2>. QED BY <2>1, <2>2 DEF Shape
<1>5. ASSUME NEW i \in DOMAIN Tail(q), NEW j \in DOMAIN Tail(q), Tail(q)[i] = Tail(q)[j]
      PROVE  i = j
  <2>1. i + 1 \in DOMAIN q /\ j + 1 \in DOMAIN q /\ q[i + 1] = q[j + 1]
    BY <1>1, <1>5
  <2>2. i + 1 = j + 1
    BY <2>1 DEF Holds
  <2>. QED BY <1>1, <2>2
<1>. QED BY <1>1, <1>4, <1>5 DEF Holds

\* A connection that is not in a queue joins it.
LEMMA Joins ==
  ASSUME NEW q \in Seq(Calls), NEW state \in Conn, NEW c \in Calls, Shape, Holds(q, state),
         conn[c] # state, conn' = [conn EXCEPT ![c] = state]
  PROVE  /\ Append(q, c) \in Seq(Calls)
         /\ \A i \in DOMAIN Append(q, c) : conn'[Append(q, c)[i]] = state
         /\ \A i, j \in DOMAIN Append(q, c) : Append(q, c)[i] = Append(q, c)[j] => i = j
<1>1. /\ Len(q) \in Nat /\ DOMAIN q = 1 .. Len(q)
      /\ Append(q, c) \in Seq(Calls)
      /\ DOMAIN Append(q, c) = 1 .. (Len(q) + 1)
      /\ Append(q, c)[Len(q) + 1] = c
      /\ \A i \in 1 .. Len(q) : Append(q, c)[i] = q[i] /\ q[i] \in Calls
  OBVIOUS
<1>2. \A i \in 1 .. Len(q) : q[i] # c
  BY <1>1 DEF Holds
<1>3. ASSUME NEW i \in DOMAIN Append(q, c) PROVE conn'[Append(q, c)[i]] = state
  <2>1. CASE i = Len(q) + 1
    BY <1>1, <2>1 DEF Shape
  <2>2. CASE i \in 1 .. Len(q)
    BY <1>1, <1>2, <2>2 DEF Shape, Holds
  <2>. QED BY <1>1, <2>1, <2>2
<1>4. ASSUME NEW i \in DOMAIN Append(q, c), NEW j \in DOMAIN Append(q, c),
             Append(q, c)[i] = Append(q, c)[j]
      PROVE  i = j
  <2>1. CASE i \in 1 .. Len(q) /\ j \in 1 .. Len(q)
    BY <1>1, <1>4, <2>1 DEF Holds
  <2>2. CASE i = Len(q) + 1 /\ j \in 1 .. Len(q)
    BY <1>1, <1>2, <1>4, <2>2
  <2>3. CASE i \in 1 .. Len(q) /\ j = Len(q) + 1
    BY <1>1, <1>2, <1>4, <2>3
  <2>. QED BY <1>1, <2>1, <2>2, <2>3
<1>. QED BY <1>1, <1>3, <1>4

\* A connection outside a queue moves: the queue is as it was.
LEMMA Apart ==
  ASSUME NEW q \in Seq(Calls), NEW state, NEW c \in Calls, NEW to \in Conn, Shape,
         Holds(q, state), conn[c] # state, conn' = [conn EXCEPT ![c] = to]
  PROVE  /\ \A i \in DOMAIN q : conn'[q[i]] = state
         /\ \A i, j \in DOMAIN q : q[i] = q[j] => i = j
<1>1. \A i \in DOMAIN q : q[i] \in Calls
  OBVIOUS
<1>. QED BY <1>1 DEF Shape, Holds

-----------------------------------------------------------------------------
(* One connection moves, nothing else of the server does *)

\* What a worker's step owes: the new state fits what has been performed.
LEMMA WorkerMoves ==
  ASSUME NEW c \in Calls, NEW to \in Conn, SInv, conn' = [conn EXCEPT ![c] = to],
         conn[c] \in Worked, to \notin {"pending", "queued", "none"},
         to \in NotRun => c \notin performed,
         to \in {"done", "response"} => c \in performed,
         to \in {"performing", "done", "busy", "response", "refusal"} => c \in sent,
         UNCHANGED <<caller, sent, pending, queue, performed>>
  PROVE  SInv'
<1>. USE DEF SInv
<1>1. Shape'
  BY DEF Shape
<1>2. Holds(pending, "pending")'
  BY Apart DEF Holds, Shape, Worked
<1>3. Holds(queue, "queued")'
  BY Apart DEF Holds, Shape, Worked
<1>4. \A d \in Calls : conn'[d] = IF d = c THEN to ELSE conn[d]
  BY DEF Shape
<1>5. NotSent'
  BY <1>4 DEF NotSent, Worked
<1>6. Effects'
  BY <1>4 DEF Effects
<1>7. RefusedIsOver' /\ AnsweredIsPerformed'
  BY <1>4 DEF RefusedIsOver, AnsweredIsPerformed, Known, Worked, Over
<1>. QED BY <1>1, <1>2, <1>3, <1>5, <1>6, <1>7

\* What a client's step on an open connection owes.
LEMMA ClientMoves ==
  ASSUME NEW c \in Calls, NEW what \in Caller \ {"idle", "connected"}, SInv, Tell(c, what),
         conn[c] # "none",
         what = "answered" => c \in performed,
         what \in {"OPERATION_IN_PROGRESS", "DAEMON_UNAVAILABLE", "SOCKET_ERROR"}
           => c \notin performed /\ conn[c] \in Over,
         sent' = sent \/ sent' = sent \union {c},
         UNCHANGED <<conn, pending, queue, performed>>
  PROVE  SInv'
<1>. USE DEF SInv
<1>1. \A d \in Calls : caller'[d] = IF d = c THEN what ELSE caller[d]
  BY DEF Tell, Shape
<1>2. Shape' /\ Holds(pending, "pending")' /\ Holds(queue, "queued")'
  BY DEF Tell, Shape, Holds
<1>3. NotSent'
  BY <1>1 DEF NotSent
<1>4. Effects'
  BY DEF Effects
<1>5. RefusedIsOver'
  BY <1>1 DEF RefusedIsOver, Known, Caller, Told
<1>6. AnsweredIsPerformed'
  BY <1>1 DEF AnsweredIsPerformed
<1>. QED BY <1>2, <1>3, <1>4, <1>5, <1>6

-----------------------------------------------------------------------------
(* The steps *)

LEMMA ConnectSInv == ASSUME NEW c \in Calls, SInv, Connect(c) PROVE SInv'
<1>. USE DEF SInv
<1>1. caller[c] = "idle" /\ conn[c] = "none" /\ c \notin sent /\ c \notin performed
  BY DEF Connect, NotSent, Effects
<1>2. CASE /\ caller' \in {[caller EXCEPT ![c] = "DAEMON_UNAVAILABLE"],
                           [caller EXCEPT ![c] = "SOCKET_ERROR"]}
           /\ UNCHANGED <<conn, pending>>
  <2>1. Shape' /\ Holds(pending, "pending")' /\ Holds(queue, "queued")'
    BY <1>2 DEF Connect, Shape, Holds, Caller, Told
  <2>2. \A d \in Calls \ {c} : caller'[d] = caller[d]
    BY <1>2 DEF Shape
  <2>3. caller'[c] \in {"DAEMON_UNAVAILABLE", "SOCKET_ERROR"}
    BY <1>2 DEF Shape
  <2>4. UNCHANGED <<conn, sent, performed>>
    BY <1>2 DEF Connect
  <2>5. NotSent' /\ AnsweredIsPerformed'
    BY <2>2, <2>3, <2>4 DEF NotSent, AnsweredIsPerformed
  <2>6. Effects'
    BY <2>4 DEF Effects
  <2>7. RefusedIsOver'
    BY <1>1, <2>2, <2>3, <2>4 DEF RefusedIsOver, Known
  <2>. QED BY <2>1, <2>5, <2>6, <2>7
<1>3. CASE /\ caller' = [caller EXCEPT ![c] = "connected"]
           /\ conn' = [conn EXCEPT ![c] = "pending"]
           /\ pending' = Append(pending, c)
  <2>1. Shape'
    BY <1>3 DEF Connect, Shape, Caller, Conn
  <2>2. Holds(pending, "pending")'
    <3>1. pending \in Seq(Calls) /\ "pending" \in Conn
      BY DEF Shape, Conn
    <3>2. /\ \A i \in DOMAIN Append(pending, c) : conn'[Append(pending, c)[i]] = "pending"
          /\ \A i, j \in DOMAIN Append(pending, c) :
               Append(pending, c)[i] = Append(pending, c)[j] => i = j
      BY <1>1, <1>3, <3>1, Joins
    <3>. QED BY <1>3, <3>2 DEF Holds
  <2>3. Holds(queue, "queued")'
    BY <1>1, <1>3, Apart DEF Connect, Holds, Shape, Conn
  <2>4. \A d \in Calls \ {c} : caller'[d] = caller[d] /\ conn'[d] = conn[d]
    BY <1>3 DEF Shape
  <2>5. caller'[c] = "connected" /\ conn'[c] = "pending"
    BY <1>3 DEF Shape
  <2>6. UNCHANGED <<sent, performed>>
    BY DEF Connect
  <2>7. NotSent' /\ AnsweredIsPerformed'
    BY <1>1, <2>4, <2>5, <2>6 DEF NotSent, AnsweredIsPerformed
  <2>8. Effects'
    BY <1>1, <2>4, <2>5, <2>6 DEF Effects
  <2>9. RefusedIsOver'
    BY <2>4, <2>5, <2>6 DEF RefusedIsOver, Known
  <2>. QED BY <2>1, <2>2, <2>3, <2>7, <2>8, <2>9
<1>. QED BY <1>2, <1>3 DEF Connect, Tell, Move

LEMMA ClientSInv ==
  ASSUME NEW c \in Calls, SInv, Send(c) \/ Return(c) \/ TimeOut(c) PROVE SInv'
<1>1. CASE Send(c)
  <2>1. c \notin performed /\ conn[c] # "none"
    BY <1>1 DEF Send, SInv, NotSent, Effects
  <2>2. CASE conn[c] \in {"closed", "reset"}
    BY <1>1, <2>1, <2>2, ClientMoves DEF Send, Over, Caller, Told
  <2>3. CASE conn[c] \notin {"closed", "reset"}
    BY <1>1, <2>1, <2>3, ClientMoves DEF Send, Caller, Told
  <2>. QED BY <2>2, <2>3
<1>2. CASE Return(c)
  <2>1. /\ conn[c] = "response" => c \in performed
        /\ conn[c] \in {"refusal", "reset"} => c \notin performed
    BY DEF SInv, Effects, NotRun
  <2>2. conn[c] \in {"response", "refusal", "closed", "reset"}
    BY <1>2 DEF Return
  <2>3. /\ Tell(c, CodeOf(conn[c]))
        /\ CodeOf(conn[c]) \in Caller \ {"idle", "connected"}
        /\ CodeOf(conn[c]) = "answered" => c \in performed
        /\ CodeOf(conn[c]) \in {"OPERATION_IN_PROGRESS", "DAEMON_UNAVAILABLE", "SOCKET_ERROR"}
             => c \notin performed
    BY <1>2, <2>1, <2>2 DEF Return, CodeOf, Caller, Told
  <2>4. UNCHANGED <<sent, conn, pending, queue, performed>>
    BY <1>2 DEF Return
  <2>. QED BY <2>2, <2>3, <2>4, ClientMoves DEF Over
<1>3. CASE TimeOut(c)
  BY <1>3, ClientMoves DEF TimeOut, SInv, NotSent, Caller, Told
<1>. QED BY <1>1, <1>2, <1>3

LEMMA AcceptSInv == ASSUME SInv, Accept PROVE SInv'
<1>. USE DEF SInv
<1>. DEFINE c == Head(pending)
<1>1. /\ c \in Calls /\ conn[c] = "pending"
      /\ Tail(pending) \in Seq(Calls)
      /\ \A i \in DOMAIN Tail(pending) : conn'[Tail(pending)[i]] = "pending"
      /\ \A i, j \in DOMAIN Tail(pending) : Tail(pending)[i] = Tail(pending)[j] => i = j
  BY Leaves DEF Accept, Move, Shape, Conn
<1>2. /\ Append(queue, c) \in Seq(Calls)
      /\ \A i \in DOMAIN Append(queue, c) : conn'[Append(queue, c)[i]] = "queued"
      /\ \A i, j \in DOMAIN Append(queue, c) : Append(queue, c)[i] = Append(queue, c)[j] => i = j
  BY <1>1, Joins DEF Accept, Move, Shape, Conn
<1>3. Holds(pending, "pending")' /\ Holds(queue, "queued")'
  BY <1>1, <1>2 DEF Holds, Accept
<1>4. Shape'
  BY <1>1, <1>2 DEF Shape, Accept, Move, Conn
<1>5. /\ \A d \in Calls \ {c} : conn'[d] = conn[d]
      /\ conn'[c] = "queued"
      /\ UNCHANGED <<caller, sent, performed>>
  BY <1>1 DEF Accept, Move, Shape
<1>6. NotSent' /\ AnsweredIsPerformed'
  BY <1>1, <1>5 DEF NotSent, AnsweredIsPerformed
<1>7. Effects'
  BY <1>1, <1>5 DEF Effects, NotRun
<1>8. RefusedIsOver'
  BY <1>1, <1>5 DEF RefusedIsOver, Known, Over
<1>. QED BY <1>3, <1>4, <1>6, <1>7, <1>8

LEMMA TakeUpSInv == ASSUME SInv, TakeUp PROVE SInv'
<1>. USE DEF SInv
<1>. DEFINE c == Head(queue)
<1>1. /\ c \in Calls /\ conn[c] = "queued"
      /\ Tail(queue) \in Seq(Calls)
      /\ \A i \in DOMAIN Tail(queue) : conn'[Tail(queue)[i]] = "queued"
      /\ \A i, j \in DOMAIN Tail(queue) : Tail(queue)[i] = Tail(queue)[j] => i = j
  BY Leaves DEF TakeUp, Move, Shape, Conn, Worked
<1>2. Holds(pending, "pending")'
  BY <1>1, Apart DEF Holds, TakeUp, Move, Shape, Conn, Worked
<1>3. Holds(queue, "queued")'
  BY <1>1 DEF Holds, TakeUp
<1>4. Shape'
  BY <1>1 DEF Shape, TakeUp, Move, Conn, Worked
<1>5. /\ \A d \in Calls \ {c} : conn'[d] = conn[d]
      /\ conn'[c] = "reading"
      /\ UNCHANGED <<caller, sent, performed>>
  BY <1>1 DEF TakeUp, Move, Shape
<1>6. NotSent' /\ AnsweredIsPerformed'
  BY <1>1, <1>5 DEF NotSent, AnsweredIsPerformed
<1>7. Effects'
  BY <1>1, <1>5 DEF Effects, NotRun
<1>8. RefusedIsOver'
  BY <1>1, <1>5 DEF RefusedIsOver, Known, Over
<1>. QED BY <1>2, <1>3, <1>4, <1>6, <1>7, <1>8

LEMMA WorkerSInv == ASSUME NEW c \in Calls, SInv, Worker(c) PROVE SInv'
<1>1. CASE Receive(c)
  <2>1. c \notin performed /\ c \in sent /\ conn[c] = "reading"
    BY <1>1 DEF Receive, SInv, Effects, NotRun
  <2>2. PICK to \in {"performing", "busy"} : conn' = [conn EXCEPT ![c] = to]
    BY <1>1 DEF Receive, Move
  <2>. QED BY <1>1, <2>1, <2>2, WorkerMoves DEF Receive, Conn, Worked
<1>2. CASE ReceiveFails(c)
  BY <1>2, WorkerMoves DEF ReceiveFails, Move, Conn, Worked, NotRun
<1>3. CASE Perform(c)
  <2>1. Shape' /\ Holds(pending, "pending")' /\ Holds(queue, "queued")' /\ NotSent'
    BY <1>3 DEF SInv, Perform, Shape, Holds, NotSent
  <2>2. Effects'
    BY <1>3 DEF SInv, Perform, Effects, NotRun
  <2>3. RefusedIsOver' /\ AnsweredIsPerformed'
    BY <1>3 DEF SInv, Perform, RefusedIsOver, AnsweredIsPerformed, Known, Over
  <2>. QED BY <2>1, <2>2, <2>3 DEF SInv
<1>4. CASE Finish(c)
  BY <1>4, WorkerMoves DEF Finish, Move, Conn, Worked, NotRun, SInv, Effects
<1>5. CASE Respond(c)
  <2>1. /\ conn[c] \in {"done", "busy"} /\ c \in sent
        /\ conn[c] = "done" => c \in performed
        /\ conn[c] = "busy" => c \notin performed
    BY <1>5 DEF Respond, SInv, Effects, NotRun
  <2>2. PICK to \in {"closed"} \union (IF conn[c] = "done" THEN {"response"} ELSE {"refusal"}) :
          conn' = [conn EXCEPT ![c] = to]
    BY <1>5 DEF Respond, Reply, Move
  <2>. QED BY <1>5, <2>1, <2>2, WorkerMoves DEF Respond, Conn, Worked, NotRun
<1>. QED BY <1>1, <1>2, <1>3, <1>4, <1>5 DEF Worker

LEMMA CrashSInv == ASSUME SInv, Crash PROVE SInv'
<1>. USE DEF SInv
<1>1. /\ conn' \in [Calls -> Conn] /\ \A c \in Calls : conn'[c] \in Broken(c)
      /\ queue' = <<>>
      /\ UNCHANGED <<caller, sent, pending, performed>>
  BY DEF Crash
<1>2. \A c \in Calls :
        \/ conn'[c] = conn[c] /\ conn[c] \notin {"queued"} \union Worked
        \/ conn'[c] = "closed" /\ conn[c] \in {"queued"} \union Worked
        \/ conn'[c] = "reset" /\ conn[c] \in {"queued", "reading"}
  BY <1>1 DEF Broken, Worked
<1>3. Shape'
  BY <1>1 DEF Shape
<1>4. Holds(pending, "pending")'
  <2>1. \A i \in DOMAIN pending : pending[i] \in Calls
    BY DEF Shape
  <2>. QED BY <1>1, <1>2, <2>1 DEF Holds, Worked
<1>5. Holds(queue, "queued")'
  BY <1>1 DEF Holds
<1>6. NotSent' /\ AnsweredIsPerformed'
  BY <1>1, <1>2 DEF NotSent, AnsweredIsPerformed, Worked
<1>7. Effects'
  BY <1>1, <1>2 DEF Effects, NotRun, Worked
<1>8. RefusedIsOver'
  BY <1>1, <1>2 DEF RefusedIsOver, Known, Over, Worked
<1>. QED BY <1>3, <1>4, <1>5, <1>6, <1>7, <1>8

LEMMA StopSocketSInv == ASSUME SInv, StopSocket PROVE SInv'
<1>. USE DEF SInv
<1>1. /\ \A c \in Calls : conn'[c] = IF conn[c] = "pending" THEN "reset" ELSE conn[c]
      /\ pending' = <<>>
      /\ UNCHANGED <<caller, sent, queue, performed>>
  BY DEF StopSocket
<1>2. Shape'
  BY DEF StopSocket, Shape, Conn
<1>3. Holds(pending, "pending")'
  BY <1>1 DEF Holds
<1>4. Holds(queue, "queued")'
  <2>1. \A i \in DOMAIN queue : queue[i] \in Calls
    BY DEF Shape
  <2>. QED BY <1>1, <2>1 DEF Holds
<1>5. NotSent' /\ AnsweredIsPerformed'
  BY <1>1 DEF NotSent, AnsweredIsPerformed
<1>6. Effects'
  BY <1>1 DEF Effects, NotRun
<1>7. RefusedIsOver'
  BY <1>1 DEF RefusedIsOver, Known, Over
<1>. QED BY <1>2, <1>3, <1>4, <1>5, <1>6, <1>7

LEMMA NextSInv == SInv /\ [Next]_vars => SInv'
<1>. SUFFICES ASSUME SInv, [Next]_vars PROVE SInv'
  OBVIOUS
<1>1. CASE \E c \in Calls : Client(c) \/ Worker(c)
  BY <1>1, ConnectSInv, ClientSInv, WorkerSInv DEF Client
<1>2. CASE Accept \/ TakeUp \/ Crash \/ StopSocket
  BY <1>2, AcceptSInv, TakeUpSInv, CrashSInv, StopSocketSInv
<1>3. CASE Start \/ StartSocket \/ UNCHANGED vars
  BY <1>3 DEF Start, StartSocket, vars, SInv, Shape, Holds, NotSent, Effects,
              RefusedIsOver, AnsweredIsPerformed, Known
<1>. QED BY <1>1, <1>2, <1>3 DEF Next

\* What holds of every reachable state of client and daemon.
THEOREM ServerInvariant == Spec => []SInv
BY InitSInv, NextSInv, PTL DEF Spec

-----------------------------------------------------------------------------
(* The refinement *)

ToldOf == [c \in Calls |-> Known(c)]

\* One client's knowledge changes, or none.
LEMMA Learns ==
  ASSUME NEW c \in Calls, NEW what \in Caller, Shape, Tell(c, what)
  PROVE  ToldOf' = [ToldOf EXCEPT ![c] = Known(c)']
<1>1. \A d \in Calls \ {c} : caller'[d] = caller[d]
  BY DEF Tell, Shape
<1>2. \A d \in Calls \ {c} : Known(d)' = Known(d)
  BY <1>1 DEF Known
<1>. QED BY <1>2 DEF ToldOf

LEMMA SameKnowledge == caller' = caller => ToldOf' = ToldOf
BY DEF ToldOf, Known

LEMMA InitMaps == Init => Abstract!Init
BY DEF Init, Abstract!Init, Known

LEMMA ClientMaps ==
  ASSUME NEW c \in Calls, SInv, Client(c) PROVE [Abstract!Next]_(Abstract!vars)
<1>. USE DEF SInv
<1>0. ToldOf[c] = Known(c)
  BY DEF ToldOf
<1>1. CASE Connect(c)
  <2>1. caller[c] = "idle" /\ c \notin performed /\ UNCHANGED performed /\ Known(c) = "idle"
    BY <1>1 DEF Connect, NotSent, Effects, Known
  <2>2. PICK what \in {"connected", "DAEMON_UNAVAILABLE", "SOCKET_ERROR"} : Tell(c, what)
    BY <1>1 DEF Connect
  <2>3. ToldOf' = [ToldOf EXCEPT ![c] = Known(c)']
    BY <2>2, Learns DEF Caller, Told
  <2>4. caller'[c] = what
    BY <2>2 DEF Tell, Shape
  <2>5. CASE what = "connected"
    <3>1. Known(c)' = "waiting"
      BY <2>4, <2>5 DEF Known
    <3>2. Abstract!Ask(c)
      BY <1>0, <2>1, <2>3, <3>1 DEF Abstract!Ask, ToldOf
    <3>. QED BY <3>2 DEF Abstract!Next
  <2>6. CASE what \in {"DAEMON_UNAVAILABLE", "SOCKET_ERROR"}
    <3>1. Known(c)' = "refused"
      BY <2>4, <2>6 DEF Known
    <3>2. Abstract!Refuse(c)
      BY <1>0, <2>1, <2>3, <3>1 DEF Abstract!Refuse, ToldOf
    <3>. QED BY <3>2 DEF Abstract!Next
  <2>. QED BY <2>5, <2>6
<1>2. CASE Send(c) \/ Return(c) \/ TimeOut(c)
  <2>1. /\ caller[c] \in {"connected", "waiting"} /\ Known(c) = "waiting"
        /\ UNCHANGED performed
    BY <1>2 DEF Send, Return, TimeOut, Known
  <2>2. PICK what \in Told \union {"waiting"} :
          /\ Tell(c, what)
          /\ what = "answered" => c \in performed
          /\ what \in {"OPERATION_IN_PROGRESS", "DAEMON_UNAVAILABLE", "SOCKET_ERROR"}
               => c \notin performed
    <3>1. CASE Send(c)
      BY <3>1 DEF Send, NotSent, Effects, Told
    <3>2. CASE Return(c)
      BY <3>2 DEF Return, CodeOf, Effects, NotRun, Told
    <3>3. CASE TimeOut(c)
      BY <3>3 DEF TimeOut, Told
    <3>. QED BY <1>2, <3>1, <3>2, <3>3
  <2>3. ToldOf' = [ToldOf EXCEPT ![c] = Known(c)']
    BY <2>2, Learns DEF Caller
  <2>4. caller'[c] = what
    BY <2>2 DEF Tell, Shape
  <2>5. CASE what = "waiting"
    <3>1. Known(c)' = "waiting"
      BY <2>4, <2>5 DEF Known
    <3>2. ToldOf' = ToldOf
      BY <1>0, <2>1, <2>3, <3>1 DEF ToldOf
    <3>. QED BY <2>1, <3>2 DEF Abstract!vars, ToldOf
  <2>6. CASE what = "answered"
    <3>1. Known(c)' = "performed"
      BY <2>4, <2>6 DEF Known
    <3>2. Abstract!Answer(c)
      BY <1>0, <2>1, <2>2, <2>3, <2>6, <3>1 DEF Abstract!Answer, ToldOf
    <3>. QED BY <3>2 DEF Abstract!Next
  <2>7. CASE what \in {"OPERATION_IN_PROGRESS", "DAEMON_UNAVAILABLE", "SOCKET_ERROR"}
    <3>1. Known(c)' = "refused"
      BY <2>4, <2>7 DEF Known
    <3>2. Abstract!Refuse(c)
      BY <1>0, <2>1, <2>2, <2>3, <2>7, <3>1 DEF Abstract!Refuse, ToldOf
    <3>. QED BY <3>2 DEF Abstract!Next
  <2>8. CASE what \in {"DAEMON_TIMEOUT", "INVALID_RESPONSE"}
    <3>1. Known(c)' = "unknown"
      BY <2>4, <2>8 DEF Known
    <3>2. Abstract!GiveUp(c)
      BY <1>0, <2>1, <2>3, <3>1 DEF Abstract!GiveUp, ToldOf
    <3>. QED BY <3>2 DEF Abstract!Next
  <2>. QED BY <2>5, <2>6, <2>7, <2>8 DEF Told
<1>. QED BY <1>1, <1>2 DEF Client

\* A running operation may take effect whatever its client knows by then, for
\* that is not yet an answer and not a refusal.
LEMMA PerformMaps == ASSUME NEW c \in Calls, SInv, Perform(c) PROVE Abstract!Perform(c)
<1>1. conn[c] = "performing" /\ c \notin performed /\ performed' = performed \union {c}
      /\ caller' = caller
  BY DEF Perform
<1>2. Known(c) \in {"waiting", "unknown"}
  BY <1>1 DEF SInv, Shape, NotSent, RefusedIsOver, AnsweredIsPerformed, Known, Caller, Told, Over
<1>. QED BY <1>1, <1>2, SameKnowledge DEF Abstract!Perform, ToldOf

LEMMA StepMaps == SInv /\ [Next]_vars => [Abstract!Next]_(Abstract!vars)
<1>. SUFFICES ASSUME SInv, [Next]_vars PROVE [Abstract!Next]_(Abstract!vars)
  OBVIOUS
<1>1. CASE \E c \in Calls : Client(c)
  BY <1>1, ClientMaps
<1>2. CASE \E c \in Calls : Perform(c)
  BY <1>2, PerformMaps DEF Abstract!Next
<1>3. CASE UNCHANGED <<caller, performed>>
  BY <1>3, SameKnowledge DEF Abstract!vars, ToldOf
<1>4. (\E c \in Calls : Client(c) \/ Perform(c)) \/ UNCHANGED <<caller, performed>>
  BY DEF Next, vars, Worker, Receive, ReceiveFails, Finish, Respond, Accept, TakeUp,
         Crash, Start, StopSocket, StartSocket
<1>. QED BY <1>1, <1>2, <1>3, <1>4

\* Client and daemon implement a remote call.
THEOREM ImplementsRemoteCall == Spec => RemoteCallHolds
BY InitMaps, StepMaps, ServerInvariant, PTL DEF Spec, RemoteCallHolds, Abstract!Spec
=============================================================================
