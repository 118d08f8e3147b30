-------------------------- MODULE DashboardProofs --------------------------
(***************************************************************************)
(* Proofs about Dashboard, for any number of connections and reloads and   *)
(* any limits: who waits for the counters, who is queued for them and who  *)
(* has them are never confused.                                            *)
(***************************************************************************)
EXTENDS Dashboard, SequenceTheorems, TLAPS

Asking(c) == At(c, "asking")
Queued(c) == \E i \in DOMAIN requests : requests[i] = c

\* Nobody is queued twice, and who is queued is who waits.
Queue ==
  /\ \A i, j \in DOMAIN requests : requests[i] = requests[j] => i = j
  /\ \A c \in Conn : Queued(c) <=> Asking(c) /\ c \notin replied

\* A reply is for a task that waits.
Replies == \A c \in Conn : c \in replied => Asking(c)

DashInv == TypeOK /\ Queue /\ Replies

----------------------------------------------------------------------------
LEMMA Limits ==
  /\ REQUEST_READ_TIMEOUT \in Nat \ {0} /\ MAX_REQUEST_LINE_LEN \in Nat \ {0}
  /\ DRAIN_TIMEOUT \in Nat \ {0} /\ DRAIN_MAX_BYTES \in Nat \ {0}
  /\ ResponseLen \in Nat \ {0} /\ SEND_BUFFER \in Nat \ {0}
  /\ MaxPending \in Nat \ {0}
BY DashboardAssumption

\* A unit of what a client sent is taken.
LEMMA UnitTaken ==
  ASSUME DashInv, NEW c \in Conn, sock[c].pending > 0, take_unit(c)
  PROVE  sock' \in [Conn -> Socket]
<1>1. sock[c] \in Socket
  BY DEF DashInv, TypeOK
<1>2. [sock[c] EXCEPT !.pending = @ - 1] \in Socket
  BY <1>1, Limits DEF Socket
<1> QED BY <1>2 DEF take_unit, DashInv, TypeOK

\* Nobody asks, and nobody is answered.
LEMMA QuietStep ==
  ASSUME DashInv, UNCHANGED <<requests, replied>>, TypeOK',
         \A c \in Conn : (Asking(c))' <=> Asking(c)
  PROVE  DashInv'
<1>1. Queue'
  BY DEF DashInv, Queue, Queued
<1>2. Replies'
  BY DEF DashInv, Replies, TypeOK
<1> QED BY <1>1, <1>2 DEF DashInv

\* One connection's task goes on, not from and not to asking.
LEMMA TaskMoves ==
  ASSUME DashInv, NEW c \in Conn, NEW task \in Task, become(c, task),
         conn[c].at # "asking", task.at # "asking",
         sock' \in [Conn -> Socket],
         UNCHANGED <<serving, requests, replied, loop>>
  PROVE  DashInv'
<1>1. /\ conn' \in [Conn -> Task] /\ conn'[c] = task
      /\ \A d \in Conn : d # c => conn'[d] = conn[d]
  BY DEF become, DashInv, TypeOK
<1>2. TypeOK'
  BY <1>1 DEF DashInv, TypeOK
<1>3. \A d \in Conn : (Asking(d))' <=> Asking(d)
  BY <1>1 DEF Asking, At
<1> QED BY <1>2, <1>3, QuietStep

\* A task queues for the counters.
LEMMA Asks ==
  ASSUME DashInv, NEW c \in Conn, conn[c].at = "reading", request_counters_json(c),
         sock' \in [Conn -> Socket], UNCHANGED <<serving, loop>>
  PROVE  DashInv'
<1>1. [conn[c] EXCEPT !.at = "asking"] \in Task /\ conn[c] \in Task
  BY DEF DashInv, TypeOK, Task
<1>2. /\ conn' \in [Conn -> Task] /\ conn'[c] = [conn[c] EXCEPT !.at = "asking"]
      /\ \A d \in Conn : d # c => conn'[d] = conn[d]
  BY <1>1 DEF request_counters_json, become, DashInv, TypeOK
<1>3. /\ (Asking(c))' /\ ~Asking(c)
      /\ \A d \in Conn : d # c => ((Asking(d))' <=> Asking(d))
  BY <1>1, <1>2 DEF Asking, At, Task
<1>4. /\ requests' = Append(requests, c) /\ UNCHANGED replied
  BY DEF request_counters_json
<1>5. /\ requests' \in Seq(Conn) /\ Len(requests') = Len(requests) + 1
      /\ \A i \in 1 .. Len(requests) : requests'[i] = requests[i]
      /\ requests'[Len(requests) + 1] = c
      /\ DOMAIN requests = 1 .. Len(requests) /\ Len(requests) \in Nat
      /\ DOMAIN requests' = 1 .. Len(requests) + 1
  <2>1. requests \in Seq(Conn)
    BY DEF DashInv, TypeOK
  <2>2. /\ requests' \in Seq(Conn) /\ Len(requests') = Len(requests) + 1
        /\ \A i \in 1 .. Len(requests) : requests'[i] = requests[i]
        /\ requests'[Len(requests) + 1] = c
    BY <1>4, <2>1, AppendProperties
  <2> QED BY <2>1, <2>2, LenProperties
<1>6. c \notin replied /\ ~Queued(c)
  BY <1>3 DEF DashInv, Queue, Replies
<1>7. TypeOK'
  BY <1>2, <1>4, <1>5 DEF DashInv, TypeOK
<1>8. Queue'
  <2>1. \A i, j \in DOMAIN requests' : requests'[i] = requests'[j] => i = j
    <3>1. \A i \in DOMAIN requests : requests[i] # c
      BY <1>6 DEF Queued
    <3> QED BY <1>5, <3>1 DEF DashInv, Queue
  <2>2. ASSUME NEW d \in Conn PROVE (Queued(d))' <=> Queued(d) \/ d = c
    BY <1>5 DEF Queued
  <2>3. \A d \in Conn : (Queued(d))' <=> (Asking(d))' /\ d \notin replied'
    BY <1>3, <1>4, <1>6, <2>2 DEF DashInv, Queue
  <2> QED BY <2>1, <2>3 DEF Queue
<1>9. Replies'
  BY <1>3, <1>4, <1>6 DEF DashInv, Replies, TypeOK
<1> QED BY <1>7, <1>8, <1>9 DEF DashInv

LEMMA LineHandled ==
  ASSUME DashInv, NEW c \in Conn, conn[c].at = "reading", handle_line(c),
         sock' \in [Conn -> Socket], UNCHANGED <<serving, loop>>
  PROVE  DashInv'
<1>1. CASE request_counters_json(c)
  BY <1>1, Asks
<1>2. CASE respond(c) /\ UNCHANGED <<requests, replied>>
  <2> DEFINE task == [conn[c] EXCEPT !.at = "writing", !.left = ResponseLen]
  <2>1. conn[c] \in Task /\ ResponseLen \in 0 .. ResponseLen
    BY Limits DEF DashInv, TypeOK
  <2>2. task \in Task /\ task.at = "writing"
    BY <2>1 DEF Task
  <2> QED BY <1>2, <2>2, TaskMoves DEF respond
<1> QED BY <1>1, <1>2 DEF handle_line

LEMMA Reads ==
  ASSUME DashInv, NEW c \in Conn, read_request_line(c) \/ read_eof(c)
  PROVE  DashInv'
<1>1. conn[c].at = "reading" /\ UNCHANGED <<serving, loop>>
  BY DEF read_request_line, read_eof, At
<1>2. sock' \in [Conn -> Socket]
  BY UnitTaken DEF read_request_line, read_eof, DashInv, TypeOK
<1>3. CASE handle_line(c)
  BY <1>1, <1>2, <1>3, LineHandled
<1>4. CASE /\ conn[c].line + 1 < MAX_REQUEST_LINE_LEN
           /\ become(c, [conn[c] EXCEPT !.line = @ + 1])
           /\ UNCHANGED <<requests, replied>>
  <2> DEFINE task == [conn[c] EXCEPT !.line = @ + 1]
  <2>1. conn[c] \in Task
    BY DEF DashInv, TypeOK
  <2>2. task \in Task /\ task.at = "reading"
    BY <1>1, <1>4, <2>1, Limits DEF Task
  <2> QED BY <1>1, <1>2, <1>4, <2>2, TaskMoves
<1> QED BY <1>3, <1>4 DEF read_request_line, read_eof

\* What a task writes, drains or gives up is no matter to the queue.
LEMMA Closes ==
  ASSUME DashInv, NEW c \in Conn, conn[c].at # "asking", close(c)
  PROVE  DashInv'
<1>1. Idle \in Task /\ Idle.at # "asking" /\ Fresh \in Socket
  BY DashboardAssumption DEF Idle, Task, Fresh, Socket
<1>2. sock' \in [Conn -> Socket]
  BY <1>1 DEF close, DashInv, TypeOK
<1> QED BY <1>1, <1>2, TaskMoves DEF close

LEMMA Answers ==
  ASSUME DashInv, answer
  PROVE  DashInv'
<1> DEFINE c == Head(requests)
<1>1. /\ requests # << >> /\ requests' = Tail(requests) /\ replied' = replied \cup {c}
      /\ UNCHANGED <<serving, conn, sock, loop>>
  BY DEF answer
<1>2. /\ c = requests[1] /\ c \in Conn /\ requests' \in Seq(Conn)
      /\ Len(requests) \in Nat \ {0} /\ Len(requests') = Len(requests) - 1
      /\ DOMAIN requests = 1 .. Len(requests) /\ DOMAIN requests' = 1 .. Len(requests')
      /\ \A i \in 1 .. Len(requests') : requests'[i] = requests[i + 1]
  <2>1. requests \in Seq(Conn)
    BY DEF DashInv, TypeOK
  <2> QED BY <1>1, <2>1, HeadTailProperties, LenProperties, EmptySeq
<1> HIDE DEF c
<1>6. Queued(c)
  BY <1>2 DEF Queued
<1>7. Asking(c) /\ \A d \in Conn : (Asking(d))' <=> Asking(d)
  BY <1>1, <1>2, <1>6 DEF Asking, At, DashInv, Queue
<1>8. TypeOK'
  BY <1>1, <1>2 DEF DashInv, TypeOK
<1>9. Queue'
  <2>1. \A i \in DOMAIN requests' : /\ i \in Nat \ {0} /\ i + 1 \in DOMAIN requests
                                   /\ requests'[i] = requests[i + 1]
    BY <1>2
  <2>2. \A i \in DOMAIN requests : i # 1 => /\ i - 1 \in DOMAIN requests'
                                            /\ requests'[i - 1] = requests[i]
    BY <1>2
  <2>3. ASSUME NEW i \in DOMAIN requests', NEW j \in DOMAIN requests',
               requests'[i] = requests'[j]
        PROVE  i = j
    <3>1. i + 1 = j + 1
      BY <2>1, <2>3 DEF DashInv, Queue
    <3> QED BY <2>1, <3>1
  <2>4. 1 \in DOMAIN requests /\ \A i \in DOMAIN requests : requests[i] = c => i = 1
    BY <1>2 DEF DashInv, Queue
  <2>5. ASSUME NEW d \in Conn PROVE (Queued(d))' <=> Queued(d) /\ d # c
    <3>1. (Queued(d))' => Queued(d) /\ d # c
      BY <2>1, <2>4 DEF Queued
    <3>2. Queued(d) /\ d # c => (Queued(d))'
      BY <1>2, <2>2 DEF Queued
    <3> QED BY <3>1, <3>2
  <2>6. ASSUME NEW d \in Conn PROVE (Queued(d))' <=> (Asking(d))' /\ d \notin replied'
    BY <1>1, <1>7, <2>5 DEF DashInv, Queue
  <2> QED BY <2>3, <2>6 DEF Queue
<1>10. Replies'
  BY <1>1, <1>7 DEF DashInv, Replies
<1> QED BY <1>8, <1>9, <1>10 DEF DashInv

\* The reply is read, and with it the task stops waiting.
LEMMA ReplyArrives ==
  ASSUME DashInv, NEW c \in Conn, reply_arrives(c)
  PROVE  DashInv'
<1> DEFINE task == [conn[c] EXCEPT !.at = "writing", !.left = ResponseLen]
<1>1. /\ Asking(c) /\ replied' = replied \ {c}
      /\ UNCHANGED <<serving, requests, sock, loop>>
      /\ ~Queued(c)
  BY DEF reply_arrives, Asking, DashInv, Queue
<1>2. task \in Task /\ task.at = "writing"
  <2>1. conn[c] \in Task /\ ResponseLen \in 0 .. ResponseLen
    BY Limits DEF DashInv, TypeOK
  <2> QED BY <2>1 DEF Task
<1>3. /\ conn' \in [Conn -> Task] /\ conn'[c] = task
      /\ \A d \in Conn : d # c => conn'[d] = conn[d]
  BY <1>2 DEF reply_arrives, respond, become, DashInv, TypeOK
<1> HIDE DEF task
<1>4. ~(Asking(c))' /\ \A d \in Conn : d # c => ((Asking(d))' <=> Asking(d))
  BY <1>2, <1>3 DEF Asking, At
<1>6. TypeOK'
  BY <1>1, <1>3 DEF DashInv, TypeOK
<1>7. Queue'
  <2>1. \A d \in Conn : (Queued(d))' <=> Queued(d)
    BY <1>1 DEF Queued
  <2>2. \A d \in Conn : (Queued(d))' <=> (Asking(d))' /\ d \notin replied'
    BY <1>1, <1>4, <2>1 DEF DashInv, Queue
  <2> QED BY <1>1, <2>2 DEF DashInv, Queue
<1>8. Replies'
  BY <1>1, <1>4 DEF DashInv, Replies
<1> QED BY <1>6, <1>7, <1>8 DEF DashInv

\* Writing and draining.
LEMMA Writes ==
  ASSUME DashInv, NEW c \in Conn,
         write_response(c) \/ shutdown(c) \/ drain_request_body(c)
  PROVE  DashInv'
<1>1. conn[c] \in Task /\ sock[c] \in Socket
  BY DEF DashInv, TypeOK
<1>2. CASE write_response(c)
  <2> DEFINE task == [conn[c] EXCEPT !.left = @ - 1]
             client == [sock[c] EXCEPT !.unread = @ + 1]
  <2>1. /\ conn[c].at = "writing" /\ conn[c].left > 0 /\ sock[c].unread < SEND_BUFFER
        /\ become(c, task) /\ sock' = [sock EXCEPT ![c] = client]
        /\ UNCHANGED <<serving, requests, replied, loop>>
    BY <1>2 DEF write_response, At
  <2>2. task \in Task /\ task.at = "writing"
    BY <1>1, <2>1, Limits DEF Task
  <2>3. client \in Socket
    BY <1>1, <2>1, Limits DEF Socket
  <2>4. sock' \in [Conn -> Socket]
    BY <2>1, <2>3 DEF DashInv, TypeOK
  <2> QED BY <2>1, <2>2, <2>4, TaskMoves
<1>3. CASE shutdown(c)
  <2> DEFINE task == [conn[c] EXCEPT !.at = "draining", !.wait = DRAIN_TIMEOUT]
  <2>1. /\ conn[c].at = "writing" /\ become(c, task)
        /\ UNCHANGED <<serving, requests, replied, sock, loop>>
    BY <1>3 DEF shutdown, At
  <2>2. task \in Task /\ task.at = "draining"
    BY <1>1, Limits DEF Task
  <2>3. sock' \in [Conn -> Socket]
    BY <2>1 DEF DashInv, TypeOK
  <2> QED BY <2>1, <2>2, <2>3, TaskMoves
<1>4. CASE drain_request_body(c)
  <2> DEFINE task == [conn[c] EXCEPT !.drained = @ + 1]
  <2>1. /\ conn[c].at = "draining" /\ become(c, task)
        /\ conn[c].drained < DRAIN_MAX_BYTES
        /\ UNCHANGED <<serving, requests, replied, loop>>
    BY <1>4 DEF drain_request_body, At
  <2>2. task \in Task /\ task.at = "draining"
    BY <1>1, <2>1, Limits DEF Task
  <2>3. sock' \in [Conn -> Socket]
    BY <1>4, UnitTaken DEF drain_request_body
  <2> QED BY <2>1, <2>2, <2>3, TaskMoves
<1> QED BY <1>2, <1>3, <1>4

LEMMA Accepts ==
  ASSUME DashInv, NEW c \in Conn, accept(c)
  PROVE  DashInv'
<1> DEFINE task == [Idle EXCEPT !.at = "reading", !.wait = REQUEST_READ_TIMEOUT]
<1>1. task \in Task /\ task.at = "reading"
  <2>1. Idle \in Task
    BY Limits DEF Idle, Task
  <2> QED BY <2>1, Limits DEF Task
<1>2. /\ conn[c].at = "closed" /\ become(c, task)
      /\ UNCHANGED <<serving, requests, replied, sock, loop>>
  BY DEF accept, At
<1>3. sock' \in [Conn -> Socket]
  BY <1>2 DEF DashInv, TypeOK
<1> QED BY <1>1, <1>2, <1>3, TaskMoves

\* Steps that no task of a connection takes.
LEMMA LoopSteps ==
  ASSUME DashInv, accept_fails \/ sighup \/ reload_step \/ UNCHANGED vars
  PROVE  DashInv'
<1>1. /\ UNCHANGED <<conn, sock, requests, replied>>
      /\ serving' \in BOOLEAN /\ loop' \in {"select", "loading", "rebuild"}
  BY DEF accept_fails, sighup, reload_step, load_fails, new_switch, reload_ends,
         server, vars, DashInv, TypeOK
<1>2. TypeOK'
  BY <1>1 DEF DashInv, TypeOK
<1>3. \A c \in Conn : (Asking(c))' <=> Asking(c)
  BY <1>1 DEF Asking, At
<1> QED BY <1>1, <1>2, <1>3, QuietStep

LEMMA ClientSteps ==
  ASSUME DashInv, NEW c \in Conn, client_step(c)
  PROVE  DashInv'
<1>1. UNCHANGED <<serving, conn, requests, replied, loop>>
  BY DEF client_step, server
<1>2. sock[c] \in Socket
  BY DEF DashInv, TypeOK
<1>3. PICK client : sock' = [sock EXCEPT ![c] = client] /\ client \in Socket
  <2>1. CASE ~sock[c].fin /\ sock[c].pending < MaxPending
             /\ sock' = [sock EXCEPT ![c].pending = @ + 1]
    <3>1. [sock[c] EXCEPT !.pending = @ + 1] \in Socket
      BY <1>2, <2>1, Limits DEF Socket
    <3> QED BY <2>1, <3>1
  <2>2. CASE sock' = [sock EXCEPT ![c].fin = TRUE]
    <3>1. [sock[c] EXCEPT !.fin = TRUE] \in Socket
      BY <1>2 DEF Socket
    <3> QED BY <2>2, <3>1
  <2>3. CASE sock' = [sock EXCEPT ![c].gone = TRUE]
    <3>1. [sock[c] EXCEPT !.gone = TRUE] \in Socket
      BY <1>2 DEF Socket
    <3> QED BY <2>3, <3>1
  <2>4. CASE sock[c].unread > 0 /\ sock' = [sock EXCEPT ![c].unread = @ - 1]
    <3>1. [sock[c] EXCEPT !.unread = @ - 1] \in Socket
      BY <1>2, <2>4, Limits DEF Socket
    <3> QED BY <2>4, <3>1
  <2> QED BY <2>1, <2>2, <2>3, <2>4 DEF client_step
<1>4. TypeOK'
  BY <1>1, <1>3 DEF DashInv, TypeOK
<1>5. \A d \in Conn : (Asking(d))' <=> Asking(d)
  BY <1>1 DEF Asking, At
<1> QED BY <1>1, <1>4, <1>5, QuietStep

LEMMA TimeSteps ==
  ASSUME DashInv, time_passes
  PROVE  DashInv'
<1>1. /\ UNCHANGED <<serving, requests, replied, sock, loop>>
      /\ \A c \in Conn : Timed(c) => conn[c].wait > 0
      /\ conn' = [c \in Conn |-> IF Timed(c) THEN [conn[c] EXCEPT !.wait = @ - 1]
                                 ELSE conn[c]]
  BY DEF time_passes
<1>2. ASSUME NEW c \in Conn
      PROVE  conn'[c] \in Task /\ conn'[c].at = conn[c].at
  <2>1. conn[c] \in Task
    BY DEF DashInv, TypeOK
  <2>2. CASE Timed(c)
    <3>1. conn'[c] = [conn[c] EXCEPT !.wait = @ - 1] /\ conn[c].wait > 0
      BY <1>1, <2>2
    <3> QED BY <2>1, <3>1 DEF Task
  <2>3. CASE ~Timed(c)
    BY <1>1, <2>1, <2>3
  <2> QED BY <2>2, <2>3
<1>3. conn' \in [Conn -> Task]
  <2>1. conn' = [c \in Conn |-> conn'[c]]
    BY <1>1
  <2> QED BY <1>2, <2>1
<1>4. TypeOK'
  BY <1>1, <1>3 DEF DashInv, TypeOK
<1>5. \A c \in Conn : (Asking(c))' <=> Asking(c)
  BY <1>2 DEF Asking, At
<1> QED BY <1>1, <1>4, <1>5, QuietStep

----------------------------------------------------------------------------
LEMMA DashInit == Init => DashInv
<1> SUFFICES ASSUME Init PROVE DashInv
  OBVIOUS
<1>1. Idle \in Task /\ Fresh \in Socket
  BY Limits DEF Idle, Task, Fresh, Socket
<1>2. << >> \in Seq(Conn) /\ DOMAIN << >> = {}
  BY EmptySeq
<1>3. TypeOK
  BY <1>1, <1>2 DEF Init, TypeOK
<1>4. ASSUME NEW c \in Conn
      PROVE  ~Asking(c) /\ c \notin replied
  <2>1. conn[c] = Idle /\ Idle.at = "closed"
    BY DEF Init, Idle
  <2> QED BY <2>1 DEF Init, Asking, At
<1>5. Queue
  BY <1>2, <1>4 DEF Init, Queue, Queued
<1>6. Replies
  BY <1>4 DEF Replies
<1> QED BY <1>3, <1>5, <1>6 DEF DashInv

LEMMA DashNext == DashInv /\ [Next]_vars => DashInv'
<1> SUFFICES ASSUME DashInv, [Next]_vars PROVE DashInv'
  OBVIOUS
<1>1. ASSUME NEW c \in Conn, connection_step(c) PROVE DashInv'
  <2>1. CASE request_times_out(c) \/ io_error(c) \/ drained(c)
    BY <2>1, Closes DEF request_times_out, io_error, drained, At
  <2> QED BY <1>1, <2>1, Reads, ReplyArrives, Writes DEF connection_step
<1>2. ASSUME NEW c \in Conn, accept(c) \/ client_step(c) PROVE DashInv'
  BY <1>2, Accepts, ClientSteps
<1> QED BY <1>1, <1>2, LoopSteps, Answers, TimeSteps DEF Next

LEMMA DashInvariance == Spec => []DashInv
BY DashInit, DashNext, PTL DEF Spec

(***************************************************************************)
(* Every variable keeps its type: a request line never reaches its limit,  *)
(* and no drain goes past its own.                                         *)
(***************************************************************************)
THEOREM TypeOKHolds == Spec => []TypeOK
<1>1. DashInv => TypeOK
  BY DEF DashInv
<1> QED BY <1>1, DashInvariance, PTL

(***************************************************************************)
(* For any number of connections, a task that waits for the counters is    *)
(* queued for them once or has its reply, and nobody else is queued.       *)
(***************************************************************************)
THEOREM NoLostRequestHolds == Spec => []NoLostRequest
<1>1. ASSUME DashInv PROVE NoLostRequest
  <2>1. ASSUME NEW c \in Conn, Waits(c)
        PROVE  \E i \in Places(c) : Places(c) = {i}
    <3>1. PICK i \in DOMAIN requests : requests[i] = c
      BY <1>1, <2>1 DEF DashInv, Queue, Queued, Waits, Asking
    <3>2. Places(c) = {i}
      BY <1>1, <3>1 DEF DashInv, Queue, Places
    <3> QED BY <3>2
  <2>2. ASSUME NEW c \in Conn, ~Waits(c)
        PROVE  Places(c) = {}
    BY <1>1, <2>2 DEF DashInv, Queue, Queued, Asking, Waits, Places
  <2> QED BY <2>1, <2>2, Zenon DEF NoLostRequest
<1> QED BY <1>1, DashInvariance, PTL

----------------------------------------------------------------------------
\* A step of one connection's task leaves every other task where it is.
LEMMA Becomes ==
  ASSUME DashInv, NEW c \in Conn, NEW d \in Conn, NEW task, become(d, task)
  PROVE  conn'[c] = IF c = d THEN task ELSE conn[c]
BY DEF become, DashInv, TypeOK

Closing(c) == request_times_out(c) \/ io_error(c) \/ drained(c)

LEMMA OnlyCloseCloses ==
  ASSUME DashInv, NEW c \in Conn, NEW d \in Conn, connection_step(d),
         ~Closing(d), ~At(c, "closed")
  PROVE  conn'[c].at # "closed"
<1>1. conn[c].at # "closed" /\ conn[d] \in Task
  BY DEF At, DashInv, TypeOK
<1>2. PICK task : become(d, task) /\ task.at # "closed"
  <2>1. CASE handle_line(d) \/ reply_arrives(d)
    <3>1. \/ become(d, [conn[d] EXCEPT !.at = "writing", !.left = ResponseLen])
          \/ become(d, [conn[d] EXCEPT !.at = "asking"])
      BY <2>1 DEF handle_line, reply_arrives, respond, request_counters_json
    <3>2. /\ [conn[d] EXCEPT !.at = "writing", !.left = ResponseLen].at = "writing"
          /\ [conn[d] EXCEPT !.at = "asking"].at = "asking"
      BY <1>1 DEF Task
    <3> QED BY <3>1, <3>2
  <2>2. CASE read_request_line(d) /\ ~handle_line(d)
    <3>1. become(d, [conn[d] EXCEPT !.line = @ + 1]) /\ conn[d].at = "reading"
      BY <2>2 DEF read_request_line, At
    <3>2. [conn[d] EXCEPT !.line = @ + 1].at = "reading"
      BY <1>1, <3>1 DEF Task
    <3> QED BY <3>1, <3>2
  <2>3. CASE write_response(d)
    <3>1. become(d, [conn[d] EXCEPT !.left = @ - 1]) /\ conn[d].at = "writing"
      BY <2>3 DEF write_response, At
    <3>2. [conn[d] EXCEPT !.left = @ - 1].at = "writing"
      BY <1>1, <3>1 DEF Task
    <3> QED BY <3>1, <3>2
  <2>4. CASE shutdown(d)
    <3>1. [conn[d] EXCEPT !.at = "draining", !.wait = DRAIN_TIMEOUT].at = "draining"
      BY <1>1 DEF Task
    <3> QED BY <2>4, <3>1 DEF shutdown
  <2>5. CASE drain_request_body(d)
    <3>1. become(d, [conn[d] EXCEPT !.drained = @ + 1]) /\ conn[d].at = "draining"
      BY <2>5 DEF drain_request_body, At
    <3>2. [conn[d] EXCEPT !.drained = @ + 1].at = "draining"
      BY <1>1, <3>1 DEF Task
    <3> QED BY <3>1, <3>2
  <2> QED BY <2>1, <2>2, <2>3, <2>4, <2>5
          DEF connection_step, read_eof, Closing
<1> QED BY <1>1, <1>2, Becomes

(***************************************************************************)
(* A connection is closed with input unread only at a limit of the drain,  *)
(* or when the client has reset it itself.                                 *)
(***************************************************************************)
THEOREM CleanCloseHolds == Spec => CleanClose
<1> DEFINE Clean(c) ==
      ~At(c, "closed") /\ At(c, "closed")' /\ sock[c].pending > 0
      => \/ sock[c].gone
         \/ At(c, "draining") /\ conn[c].drained = DRAIN_MAX_BYTES
         \/ At(c, "draining") /\ conn[c].wait = 0
<1>1. ASSUME DashInv, [Next]_vars, NEW c \in Conn PROVE Clean(c)
  <2> SUFFICES ASSUME ~At(c, "closed"), (At(c, "closed"))', sock[c].pending > 0
               PROVE  \/ sock[c].gone
                      \/ At(c, "draining") /\ conn[c].drained = DRAIN_MAX_BYTES
                      \/ At(c, "draining") /\ conn[c].wait = 0
    OBVIOUS
  <2>1. conn[c].at # "closed" /\ conn'[c].at = "closed"
    BY DEF At
  <2>2. ASSUME NEW d \in Conn, connection_step(d) PROVE Closing(c)
    <3>1. Closing(d)
      BY <1>1, <2>1, <2>2, OnlyCloseCloses
    <3>2. become(d, Idle)
      BY <3>1 DEF Closing, request_times_out, io_error, drained, close
    <3>3. c = d
      BY <1>1, <2>1, <3>2, Becomes
    <3> QED BY <3>1, <3>3
  <2>3. ASSUME NEW d \in Conn, accept(d) PROVE FALSE
    <3>1. become(d, [Idle EXCEPT !.at = "reading", !.wait = REQUEST_READ_TIMEOUT])
      BY <2>3 DEF accept
    <3>2. [Idle EXCEPT !.at = "reading", !.wait = REQUEST_READ_TIMEOUT].at = "reading"
      BY DEF Idle
    <3> QED BY <1>1, <2>1, <3>1, <3>2, Becomes, ZenonT(40)
  <2>4. CASE time_passes
    <3>1. conn'[c] = IF Timed(c) THEN [conn[c] EXCEPT !.wait = @ - 1] ELSE conn[c]
      BY <2>4 DEF time_passes
    <3>2. conn[c] \in Task
      BY <1>1 DEF DashInv, TypeOK
    <3>3. conn'[c].at = conn[c].at
      BY <3>1, <3>2 DEF Task
    <3> QED BY <2>1, <3>3
  <2>5. CASE \/ accept_fails \/ answer \/ sighup \/ reload_step \/ UNCHANGED vars
             \/ \E d \in Conn : client_step(d)
    BY <2>1, <2>5 DEF accept_fails, answer, sighup, reload_step, load_fails, new_switch,
                      reload_ends, client_step, server, vars
  <2>6. CASE Closing(c)
    BY <2>6 DEF Closing, request_times_out, io_error, drained
  <2> QED BY <1>1, <2>2, <2>3, <2>4, <2>5, <2>6 DEF Next
<1>2. DashInv /\ [Next]_vars => [\A c \in Conn : Clean(c)]_vars
  BY <1>1
<1> QED BY <1>2, DashInvariance, PTL DEF Spec, CleanClose

----------------------------------------------------------------------------
(***************************************************************************)
(* Budgets.  What a connection may still take of reads, writes and units   *)
(* of time is counted down from the limits of the code; the waits for the  *)
(* loop's answer and for a client whose buffers are full cost nothing.     *)
(***************************************************************************)
DrainBudget == DRAIN_TIMEOUT + DRAIN_MAX_BYTES + 1
ReplyBudget == ResponseLen + 1 + DrainBudget
Budget == REQUEST_READ_TIMEOUT + MAX_REQUEST_LINE_LEN + 1 + ReplyBudget

LeftOf(task) ==
  CASE task.at = "reading" ->
         task.wait + (MAX_REQUEST_LINE_LEN - task.line) + 1 + ReplyBudget
    [] task.at = "asking" -> ReplyBudget + 1
    [] task.at = "writing" -> task.left + 1 + DrainBudget
    [] task.at = "draining" -> task.wait + (DRAIN_MAX_BYTES - task.drained) + 1
    [] task.at = "closed" -> 0

StepsLeft(c) == LeftOf(conn[c])

WithinBudget == \A c \in Conn : StepsLeft(c) \in 0 .. Budget

LEMMA Budgets ==
  /\ DrainBudget \in Nat \ {0} /\ ReplyBudget \in Nat \ {0} /\ Budget \in Nat
  /\ ReplyBudget = ResponseLen + 1 + DrainBudget
  /\ DrainBudget = DRAIN_TIMEOUT + DRAIN_MAX_BYTES + 1
  /\ Budget = REQUEST_READ_TIMEOUT + MAX_REQUEST_LINE_LEN + 1 + ReplyBudget
BY Limits DEF DrainBudget, ReplyBudget, Budget

\* What is left in each place of the code.
LEMMA LeftAt ==
  ASSUME NEW task \in Task
  PROVE  /\ LeftOf(task) \in Nat
         /\ task.at = "reading" =>
              LeftOf(task) = task.wait + (MAX_REQUEST_LINE_LEN - task.line) + 1 + ReplyBudget
         /\ task.at = "asking" => LeftOf(task) = ReplyBudget + 1
         /\ task.at = "writing" => LeftOf(task) = task.left + 1 + DrainBudget
         /\ task.at = "draining" =>
              LeftOf(task) = task.wait + (DRAIN_MAX_BYTES - task.drained) + 1
         /\ task.at = "closed" => LeftOf(task) = 0
         /\ task.wait \in Nat /\ task.line \in 0 .. MAX_REQUEST_LINE_LEN - 1
         /\ task.left \in 0 .. ResponseLen /\ task.drained \in 0 .. DRAIN_MAX_BYTES
         /\ task.at # "closed" => LeftOf(task) > 0
BY Limits, Budgets DEF LeftOf, Task

LEMMA AfterClose == Idle \in Task /\ LeftOf(Idle) = 0
<1>1. Idle \in Task /\ Idle.at = "closed"
  BY Limits DEF Idle, Task
<1> QED BY <1>1, LeftAt

\* A response, or the wait for one, costs less than what is left while reading.
LEMMA Responds ==
  ASSUME NEW task \in Task
  PROVE  LET new == [task EXCEPT !.at = "writing", !.left = ResponseLen]
         IN  new \in Task /\ LeftOf(new) = ReplyBudget
<1> DEFINE new == [task EXCEPT !.at = "writing", !.left = ResponseLen]
<1>1. ResponseLen \in 0 .. ResponseLen
  BY Limits
<1>2. new \in Task /\ new.at = "writing" /\ new.left = ResponseLen
  BY <1>1 DEF Task
<1> HIDE DEF new
<1>3. LeftOf(new) = ReplyBudget
  BY <1>2, LeftAt, Budgets
<1> QED BY <1>2, <1>3 DEF new

LEMMA WaitsForCounters ==
  ASSUME NEW task \in Task
  PROVE  LET new == [task EXCEPT !.at = "asking"]
         IN  new \in Task /\ LeftOf(new) = ReplyBudget + 1
<1> DEFINE new == [task EXCEPT !.at = "asking"]
<1>1. new \in Task /\ new.at = "asking"
  BY DEF Task
<1> HIDE DEF new
<1>2. LeftOf(new) = ReplyBudget + 1
  BY <1>1, LeftAt
<1> QED BY <1>1, <1>2 DEF new

\* A step of a connection's task spends some of what it has left.
LEMMA StepSpends ==
  ASSUME DashInv, NEW c \in Conn, connection_step(c)
  PROVE  \E task \in Task : become(c, task) /\ LeftOf(task) < StepsLeft(c)
<1> DEFINE old == conn[c]
<1>1. old \in Task
  BY DEF DashInv, TypeOK
<1>2. ASSUME NEW task \in Task, become(c, task), LeftOf(task) < LeftOf(old)
      PROVE  \E new \in Task : become(c, new) /\ LeftOf(new) < StepsLeft(c)
  BY <1>2 DEF StepsLeft
<1> HIDE DEF old
<1> DEFINE writing == [old EXCEPT !.at = "writing", !.left = ResponseLen]
<1>r. writing \in Task /\ LeftOf(writing) = ReplyBudget
  BY <1>1, Responds
<1> HIDE DEF writing
<1>3. CASE handle_line(c) /\ old.at = "reading"
  <2>1. LeftOf(old) > ReplyBudget + 1 /\ LeftOf(old) \in Nat
    BY <1>1, <1>3, LeftAt, Limits, Budgets
  <2>2. CASE become(c, writing)
    BY <1>2, <1>r, <2>1, <2>2, Budgets
  <2>3. CASE become(c, [old EXCEPT !.at = "asking"])
    <3> DEFINE asking == [old EXCEPT !.at = "asking"]
    <3>1. asking \in Task /\ LeftOf(asking) = ReplyBudget + 1
      BY <1>1, WaitsForCounters
    <3>2. become(c, asking)
      BY <2>3
    <3> HIDE DEF asking
    <3> QED BY <1>2, <2>1, <3>1, <3>2, Budgets
  <2> QED BY <1>3, <2>2, <2>3 DEF handle_line, respond, request_counters_json, old, writing
<1>4. CASE read_request_line(c) /\ ~handle_line(c)
  <2> DEFINE task == [old EXCEPT !.line = @ + 1]
  <2>1. old.at = "reading" /\ old.line + 1 < MAX_REQUEST_LINE_LEN /\ become(c, task)
    BY <1>4 DEF read_request_line, At, old
  <2>2. task \in Task /\ task.at = "reading" /\ task.line = old.line + 1 /\ task.wait = old.wait
    BY <1>1, <2>1, Limits DEF Task
  <2> HIDE DEF task
  <2>3. LeftOf(task) < LeftOf(old)
    BY <1>1, <2>1, <2>2, LeftAt, Limits, Budgets
  <2> QED BY <1>2, <2>1, <2>2, <2>3
<1>5. CASE reply_arrives(c)
  <2>1. old.at = "asking" /\ become(c, writing)
    BY <1>5 DEF reply_arrives, respond, At, old, writing
  <2>2. LeftOf(old) = ReplyBudget + 1
    BY <1>1, <2>1, LeftAt
  <2> QED BY <1>2, <1>r, <2>1, <2>2, Budgets
<1>6. CASE write_response(c)
  <2> DEFINE task == [old EXCEPT !.left = @ - 1]
  <2>1. old.at = "writing" /\ old.left > 0 /\ become(c, task)
    BY <1>6 DEF write_response, At, old
  <2>2. task \in Task /\ task.at = "writing" /\ task.left = old.left - 1
    BY <1>1, <2>1, Limits DEF Task
  <2> HIDE DEF task
  <2>3. LeftOf(task) < LeftOf(old)
    BY <1>1, <2>1, <2>2, LeftAt, Limits, Budgets
  <2> QED BY <1>2, <2>1, <2>2, <2>3
<1>7. CASE shutdown(c)
  <2> DEFINE task == [old EXCEPT !.at = "draining", !.wait = DRAIN_TIMEOUT]
  <2>1. old.at = "writing" /\ become(c, task)
    BY <1>7 DEF shutdown, At, old
  <2>2. task \in Task /\ task.at = "draining" /\ task.wait = DRAIN_TIMEOUT
    BY <1>1, Limits DEF Task
  <2> HIDE DEF task
  <2>3. LeftOf(task) < LeftOf(old)
    BY <1>1, <2>1, <2>2, LeftAt, Limits, Budgets
  <2> QED BY <1>2, <2>1, <2>2, <2>3
<1>8. CASE drain_request_body(c)
  <2> DEFINE task == [old EXCEPT !.drained = @ + 1]
  <2>1. old.at = "draining" /\ old.drained < DRAIN_MAX_BYTES /\ become(c, task)
    BY <1>8 DEF drain_request_body, At, old
  <2>2. /\ task \in Task /\ task.at = "draining"
        /\ task.drained = old.drained + 1 /\ task.wait = old.wait
    BY <1>1, <2>1, Limits DEF Task
  <2> HIDE DEF task
  <2>3. LeftOf(task) < LeftOf(old)
    BY <1>1, <2>1, <2>2, LeftAt, Limits, Budgets
  <2> QED BY <1>2, <2>1, <2>2, <2>3
<1>9. CASE Closing(c)
  <2>1. become(c, Idle) /\ old.at # "closed"
    BY <1>9 DEF Closing, request_times_out, io_error, drained, close, At, old
  <2> QED BY <1>1, <1>2, <2>1, AfterClose, LeftAt
<1>10. read_request_line(c) \/ read_eof(c) => old.at = "reading"
  BY DEF read_request_line, read_eof, At, old
<1> QED BY <1>3, <1>4, <1>5, <1>6, <1>7, <1>8, <1>9, <1>10
        DEF connection_step, Closing, read_eof

\* Time that passes is taken off the deadlines of those that have one.
LEMMA TimeSpends ==
  ASSUME DashInv, time_passes, NEW c \in Conn
  PROVE  IF Timed(c) THEN StepsLeft(c)' < StepsLeft(c) /\ StepsLeft(c)' \in Nat
         ELSE StepsLeft(c)' = StepsLeft(c)
<1>1. conn[c] \in Task
  BY DEF DashInv, TypeOK
<1>2. CASE Timed(c)
  <2> DEFINE task == [conn[c] EXCEPT !.wait = @ - 1]
  <2>1. conn[c].wait > 0 /\ conn'[c] = task
    BY <1>2 DEF time_passes
  <2>2. /\ task \in Task /\ task.at = conn[c].at /\ task.wait = conn[c].wait - 1
        /\ task.line = conn[c].line /\ task.drained = conn[c].drained
    BY <1>1, <2>1 DEF Task
  <2> HIDE DEF task
  <2>3. LeftOf(task) < LeftOf(conn[c]) /\ LeftOf(task) \in Nat
    BY <1>1, <1>2, <2>2, LeftAt, Limits, Budgets DEF Timed
  <2> QED BY <1>2, <2>1, <2>3 DEF StepsLeft
<1>3. CASE ~Timed(c)
  BY <1>3 DEF time_passes, StepsLeft
<1> QED BY <1>2, <1>3

\* A connection starts with the budget, and every step of its task and every
\* unit of time it is given are paid from it; nobody else's step is.
PaidFor(c) ==
  /\ accept(c) => StepsLeft(c)' = Budget
  /\ ~At(c, "closed") =>
       /\ StepsLeft(c)' \in 0 .. StepsLeft(c)
       /\ connection_step(c) \/ (time_passes /\ Timed(c))
          => StepsLeft(c)' < StepsLeft(c)

LEMMA StepsArePaid ==
  ASSUME DashInv, [Next]_vars, NEW c \in Conn
  PROVE  PaidFor(c)
<1>1. conn[c] \in Task /\ StepsLeft(c) \in Nat
  BY LeftAt DEF DashInv, TypeOK, StepsLeft
<1>2. ASSUME NEW d \in Conn, NEW task \in Task, become(d, task), d = c
      PROVE  StepsLeft(c)' = LeftOf(task) /\ LeftOf(task) \in Nat
  BY <1>2, Becomes, LeftAt DEF StepsLeft
<1>3. ASSUME NEW d \in Conn, NEW task, become(d, task), d # c
      PROVE  StepsLeft(c)' = StepsLeft(c)
  BY <1>3, Becomes DEF StepsLeft
<1>4. accept(c) => At(c, "closed") /\ StepsLeft(c)' = Budget
  <2> DEFINE task == [Idle EXCEPT !.at = "reading", !.wait = REQUEST_READ_TIMEOUT]
  <2>1. /\ task \in Task /\ task.at = "reading"
        /\ task.wait = REQUEST_READ_TIMEOUT /\ task.line = 0
    BY AfterClose, Limits DEF Idle, Task
  <2> HIDE DEF task
  <2>2. LeftOf(task) = Budget
    BY <2>1, LeftAt, Limits, Budgets
  <2>3. accept(c) => At(c, "closed") /\ become(c, task)
    BY DEF accept, task
  <2> QED BY <1>2, <2>1, <2>2, <2>3
<1>5. connection_step(c) => StepsLeft(c)' < StepsLeft(c) /\ StepsLeft(c)' \in Nat
  BY <1>2, StepSpends
<1>6. ASSUME NEW d \in Conn, accept(d) \/ connection_step(d), d # c
      PROVE  StepsLeft(c)' = StepsLeft(c)
  <2>1. connection_step(d) => \E task \in Task : become(d, task)
    BY StepSpends
  <2> QED BY <1>3, <1>6, <2>1 DEF accept
<1>7. ASSUME \/ accept_fails \/ answer \/ sighup \/ reload_step \/ UNCHANGED vars
             \/ \E d \in Conn : client_step(d)
      PROVE  StepsLeft(c)' = StepsLeft(c)
  <2>1. UNCHANGED conn
    BY <1>7 DEF accept_fails, answer, sighup, reload_step, load_fails, new_switch,
                reload_ends, client_step, server, vars
  <2> QED BY <2>1 DEF StepsLeft
<1>8. ASSUME ~At(c, "closed") PROVE StepsLeft(c)' \in 0 .. StepsLeft(c)
  <2>1. CASE time_passes
    BY <1>1, <2>1, TimeSpends
  <2>2. CASE connection_step(c)
    BY <1>1, <1>5, <2>2
  <2>3. ASSUME StepsLeft(c)' = StepsLeft(c) PROVE StepsLeft(c)' \in 0 .. StepsLeft(c)
    BY <1>1, <2>3
  <2>4. CASE \E d \in Conn : (accept(d) \/ connection_step(d)) /\ d # c
    BY <1>6, <2>3, <2>4
  <2>5. ~accept(c)
    BY <1>4, <1>8
  <2>6. CASE \/ accept_fails \/ answer \/ sighup \/ reload_step \/ UNCHANGED vars
             \/ \E d \in Conn : client_step(d)
    BY <1>7, <2>3, <2>6
  <2> QED BY <2>1, <2>2, <2>4, <2>5, <2>6 DEF Next
<1>9. time_passes /\ Timed(c) => StepsLeft(c)' < StepsLeft(c)
  BY TimeSpends
<1> QED BY <1>4, <1>5, <1>8, <1>9 DEF PaidFor

LEMMA BudgetKept ==
  ASSUME DashInv, WithinBudget, [Next]_vars, DashInv'
  PROVE  WithinBudget'
<1> SUFFICES ASSUME NEW c \in Conn PROVE StepsLeft(c)' \in 0 .. Budget
  BY DEF WithinBudget
<1>1. PaidFor(c) /\ StepsLeft(c) \in 0 .. Budget /\ Budget \in Nat
  BY StepsArePaid, Budgets DEF WithinBudget
<1>2. CASE ~At(c, "closed")
  BY <1>1, <1>2 DEF PaidFor
<1>3. CASE accept(c)
  BY <1>1, <1>3 DEF PaidFor
<1>4. CASE At(c, "closed") /\ ~accept(c)
  <2>1. conn[c] \in Task /\ conn[c].at = "closed"
    BY <1>4 DEF At, DashInv, TypeOK
  <2>2. ~connection_step(c)
    BY <2>1 DEF connection_step, read_request_line, read_eof, request_times_out,
       reply_arrives, write_response, io_error, shutdown, drain_request_body, drained, At
  <2>3. conn'[c] = conn[c]
    <3>1. ASSUME NEW d \in Conn, accept(d) \/ connection_step(d) PROVE conn'[c] = conn[c]
      <4>1. c # d
        BY <1>4, <2>2, <3>1
      <4>2. \E task : become(d, task)
        BY <3>1, StepSpends DEF accept
      <4> QED BY <4>1, <4>2, Becomes
    <3>2. time_passes => conn'[c] = conn[c]
      BY <2>1 DEF time_passes, Timed
    <3>3. CASE \/ accept_fails \/ answer \/ sighup \/ reload_step \/ UNCHANGED vars
               \/ \E d \in Conn : client_step(d)
      BY <3>3 DEF accept_fails, answer, sighup, reload_step, load_fails, new_switch,
                  reload_ends, client_step, server, vars
    <3> QED BY <3>1, <3>2, <3>3 DEF Next
  <2> QED BY <1>1, <2>3 DEF StepsLeft
<1> QED BY <1>2, <1>3, <1>4

(***************************************************************************)
(* What OnlyUnreadResponsesHang rests on, for any number of connections    *)
(* and without fairness: from accept on, a connection's task has a budget  *)
(* set by the five limits of the code.  Each of its steps and each unit of *)
(* time that a deadline of it runs takes some of that, and nothing a       *)
(* client sends, holds back or resets, no other connection and no reload   *)
(* adds to it: a client can only make the task wait.                       *)
(***************************************************************************)
THEOREM ConnectionsAreBounded ==
  Spec => [](\A c \in Conn : StepsLeft(c) \in 0 .. Budget)
          /\ [][\A c \in Conn : PaidFor(c)]_vars
<1>1. Init => WithinBudget
  <2> SUFFICES ASSUME Init, NEW c \in Conn PROVE StepsLeft(c) \in 0 .. Budget
    BY DEF WithinBudget
  <2>1. conn[c] = Idle
    BY DEF Init
  <2> QED BY <2>1, AfterClose, Budgets DEF StepsLeft
<1>2. DashInv /\ WithinBudget /\ [Next]_vars /\ DashInv' => WithinBudget'
  BY BudgetKept
<1>3. Spec => []WithinBudget
  BY <1>1, <1>2, DashInvariance, PTL DEF Spec
<1>4. DashInv /\ [Next]_vars => [\A c \in Conn : PaidFor(c)]_vars
  BY StepsArePaid
<1>5. WithinBudget => \A c \in Conn : StepsLeft(c) \in 0 .. Budget
  BY DEF WithinBudget
<1> QED BY <1>3, <1>4, <1>5, DashInvariance, PTL DEF Spec
=============================================================================
