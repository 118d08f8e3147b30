----------------------------- MODULE Dashboard -----------------------------
(***************************************************************************)
(* The dashboard: src/src/dashboard.rs, and the arm of the daemon's loop   *)
(* that answers it.  One task accepts; each connection is a task of its    *)
(* own: it reads a request line, asks the loop when the request is for the *)
(* counters, writes a response, drains what the client still sends, and    *)
(* closes.  Of the loop only what the dashboard can tell is kept: whether  *)
(* it is in select!, where alone it answers.                               *)
(*                                                                         *)
(* Sizes and times are in units: of what one read returns, of what one     *)
(* write passes on, and of time.  What a snapshot holds is in Switch       *)
(* (render_counters_json); what the texts look like is left out.           *)
(***************************************************************************)
EXTENDS Integers, Sequences

CONSTANTS
  Conn,                   \* sockets; one is reused once it is closed
  REQUEST_READ_TIMEOUT,
  MAX_REQUEST_LINE_LEN,
  DRAIN_TIMEOUT,
  DRAIN_MAX_BYTES,
  ResponseLen,            \* units of the longest response
  SEND_BUFFER,            \* units the two kernels hold for a client
  MaxPending              \* bound on what a client has sent and is unread

ASSUME DashboardAssumption ==
  {REQUEST_READ_TIMEOUT, MAX_REQUEST_LINE_LEN, DRAIN_TIMEOUT,
   DRAIN_MAX_BYTES, ResponseLen, SEND_BUFFER, MaxPending} \subseteq Nat \ {0}

VARIABLES
  serving,    \* serve has not returned
  conn,       \* the task of each connection
  sock,       \* its socket: what the client sent and has not read
  requests,   \* counters_rx: whose reply channels are queued
  replied,    \* the connections whose reply channel holds a snapshot
  loop        \* "select", or in a reload: "loading" or "rebuild"

server == <<serving, conn, requests, replied>>
vars == <<server, sock, loop>>

Task == [at : {"reading", "asking", "writing", "draining", "closed"},
         line : 0 .. MAX_REQUEST_LINE_LEN - 1,    \* buffered, no newline yet
         wait : Nat,                              \* until the deadline
         left : 0 .. ResponseLen,                 \* still to be written
         drained : 0 .. DRAIN_MAX_BYTES]

Socket == [pending : 0 .. MaxPending, fin : BOOLEAN, gone : BOOLEAN,
           unread : 0 .. SEND_BUFFER]

Idle == [at |-> "closed", line |-> 0, wait |-> 0, left |-> 0, drained |-> 0]
Fresh == [pending |-> 0, fin |-> FALSE, gone |-> FALSE, unread |-> 0]

At(c, point) == conn[c].at = point
become(c, task) == conn' = [conn EXCEPT ![c] = task]
take_unit(c) == sock' = [sock EXCEPT ![c].pending = @ - 1]

----------------------------------------------------------------------------
\* serve

accept(c) ==
  /\ serving /\ At(c, "closed")
  /\ become(c, [Idle EXCEPT !.at = "reading", !.wait = REQUEST_READ_TIMEOUT])
  /\ UNCHANGED <<serving, requests, replied, sock, loop>>

\* The tasks of connections that were accepted before go on.
accept_fails ==
  /\ serving /\ serving' = FALSE
  /\ UNCHANGED <<conn, requests, replied, sock, loop>>

----------------------------------------------------------------------------
\* handle_connection

respond(c) == become(c, [conn[c] EXCEPT !.at = "writing", !.left = ResponseLen])

request_counters_json(c) ==
  /\ become(c, [conn[c] EXCEPT !.at = "asking"])
  /\ requests' = Append(requests, c)
  /\ UNCHANGED replied

\* The line may be anything, cut short or empty as well: a request for the
\* counters, or one that is answered at once with the page, 404 or 405.
handle_line(c) ==
  \/ request_counters_json(c)
  \/ respond(c) /\ UNCHANGED <<requests, replied>>

\* Mutant: a line without an end is buffered without a limit.
read_request_line_unlimited(c) ==
  /\ At(c, "reading") /\ ~sock[c].gone /\ sock[c].pending > 0
  /\ take_unit(c)
  /\ \/ handle_line(c)
     \/ /\ become(c, [conn[c] EXCEPT !.line = @ + 1])
        /\ UNCHANGED <<requests, replied>>
  /\ UNCHANGED <<serving, loop>>

\* One read: the line ends in it, or reaches its limit, or more is needed.
read_request_line(c) ==
  /\ At(c, "reading") /\ ~sock[c].gone /\ sock[c].pending > 0
  /\ take_unit(c)
  /\ \/ handle_line(c)
     \/ /\ conn[c].line + 1 < MAX_REQUEST_LINE_LEN
        /\ become(c, [conn[c] EXCEPT !.line = @ + 1])
        /\ UNCHANGED <<requests, replied>>
  /\ UNCHANGED <<serving, loop>>

\* End of input is the end of the line too.
read_eof(c) ==
  /\ At(c, "reading") /\ ~sock[c].gone
  /\ sock[c].pending = 0 /\ sock[c].fin
  /\ handle_line(c)
  /\ UNCHANGED <<serving, sock, loop>>

close(c) ==
  /\ become(c, Idle) /\ sock' = [sock EXCEPT ![c] = Fresh]
  /\ UNCHANGED <<serving, requests, replied, loop>>

\* Mutant: a timer that only starts with the first byte.
request_times_out_once_begun(c) ==
  /\ At(c, "reading") /\ conn[c].line > 0 /\ conn[c].wait = 0
  /\ sock[c].pending = 0 /\ ~sock[c].fin
  /\ close(c)

\* tokio's timeout looks at the deadline after the read, so not while there is
\* something to read.
request_times_out(c) ==
  /\ At(c, "reading") /\ conn[c].wait = 0
  /\ sock[c].pending = 0 /\ ~sock[c].fin
  /\ close(c)

reply_arrives(c) ==
  /\ At(c, "asking") /\ c \in replied
  /\ respond(c)
  /\ replied' = replied \ {c}
  /\ UNCHANGED <<serving, requests, sock, loop>>

\* write_all has no deadline: it waits while the client's buffers are full.
write_response(c) ==
  /\ At(c, "writing") /\ ~sock[c].gone
  /\ conn[c].left > 0 /\ sock[c].unread < SEND_BUFFER
  /\ become(c, [conn[c] EXCEPT !.left = @ - 1])
  /\ sock' = [sock EXCEPT ![c].unread = @ + 1]
  /\ UNCHANGED <<serving, requests, replied, loop>>

\* A read or write of a connection the client has reset fails.
io_error(c) ==
  /\ conn[c].at \in {"reading", "writing"} /\ sock[c].gone
  /\ close(c)

\* Mutant: close right after the response.
shutdown_and_close(c) ==
  /\ At(c, "writing") /\ conn[c].left = 0 /\ ~sock[c].gone
  /\ close(c)

shutdown(c) ==
  /\ At(c, "writing") /\ conn[c].left = 0 /\ ~sock[c].gone
  /\ become(c, [conn[c] EXCEPT !.at = "draining", !.wait = DRAIN_TIMEOUT])
  /\ UNCHANGED <<serving, requests, replied, sock, loop>>

drain_request_body(c) ==
  /\ At(c, "draining") /\ ~sock[c].gone
  /\ sock[c].pending > 0 /\ conn[c].wait > 0
  /\ conn[c].drained < DRAIN_MAX_BYTES
  /\ become(c, [conn[c] EXCEPT !.drained = @ + 1])
  /\ take_unit(c)
  /\ UNCHANGED <<serving, requests, replied, loop>>

drained(c) ==
  /\ At(c, "draining")
  /\ \/ conn[c].drained = DRAIN_MAX_BYTES
     \/ conn[c].wait = 0
     \/ sock[c].pending = 0 /\ sock[c].fin
     \/ sock[c].gone
  /\ close(c)

connection_step(c) ==
  \/ read_request_line(c) \/ read_eof(c) \/ request_times_out(c)
  \/ reply_arrives(c) \/ write_response(c) \/ io_error(c)
  \/ shutdown(c) \/ drain_request_body(c) \/ drained(c)

----------------------------------------------------------------------------
\* The daemon's loop

answer ==
  /\ loop = "select" /\ requests # << >>
  /\ requests' = Tail(requests)
  /\ replied' = replied \cup {Head(requests)}
  /\ UNCHANGED <<serving, conn, sock, loop>>

sighup == loop = "select" /\ loop' = "loading" /\ UNCHANGED <<server, sock>>

load_fails == loop = "loading" /\ loop' = "select" /\ UNCHANGED <<server, sock>>

\* *switch = Switch::new(): its ports are added while loop is "rebuild".
new_switch ==
  /\ loop = "loading" /\ loop' = "rebuild"
  /\ UNCHANGED <<server, sock>>

\* Mutant: a reload starts with an empty queue of requests.
reload_ends_forgetting ==
  /\ loop = "rebuild" /\ loop' = "select" /\ requests' = << >>
  /\ UNCHANGED <<serving, conn, replied, sock>>

reload_ends == loop = "rebuild" /\ loop' = "select" /\ UNCHANGED <<server, sock>>

----------------------------------------------------------------------------
\* The client, and time

client_step(c) ==
  /\ ~At(c, "closed") /\ ~sock[c].gone
  /\ \/ /\ ~sock[c].fin /\ sock[c].pending < MaxPending
        /\ sock' = [sock EXCEPT ![c].pending = @ + 1]
     \/ ~sock[c].fin /\ sock' = [sock EXCEPT ![c].fin = TRUE]
     \/ sock' = [sock EXCEPT ![c].gone = TRUE]
     \/ sock[c].unread > 0 /\ sock' = [sock EXCEPT ![c].unread = @ - 1]
  /\ UNCHANGED <<server, loop>>

Timed(c) == conn[c].at \in {"reading", "draining"}

\* A deadline that has passed is acted upon before more time goes by.
time_passes ==
  /\ \E c \in Conn : Timed(c)
  /\ \A c \in Conn : Timed(c) => conn[c].wait > 0
  /\ conn' = [c \in Conn |-> IF Timed(c) THEN [conn[c] EXCEPT !.wait = @ - 1]
                             ELSE conn[c]]
  /\ UNCHANGED <<serving, requests, replied, sock, loop>>

Init ==
  /\ serving = TRUE
  /\ conn = [c \in Conn |-> Idle] /\ sock = [c \in Conn |-> Fresh]
  /\ requests = << >> /\ replied = {}
  /\ loop = "select"

reload_step == load_fails \/ new_switch \/ reload_ends

Next ==
  \/ \E c \in Conn : accept(c) \/ connection_step(c) \/ client_step(c)
  \/ accept_fails \/ answer \/ sighup \/ reload_step \/ time_passes

Spec == Init /\ [][Next]_vars

(***************************************************************************)
(* Fairness.  The runtime polls every task that can go on; select! takes   *)
(* an arm that is ready again and again; a reload ends, and time passes.   *)
(* Nothing is assumed of a client.                                         *)
(***************************************************************************)
FairSpec ==
  /\ Spec
  /\ \A c \in Conn : WF_vars(connection_step(c))
  /\ SF_vars(answer) /\ WF_vars(reload_step) /\ WF_vars(time_passes)

----------------------------------------------------------------------------
Waits(c) == At(c, "asking") /\ c \notin replied
Places(c) == {i \in DOMAIN requests : requests[i] = c}

TypeOK ==
  /\ serving \in BOOLEAN
  /\ conn \in [Conn -> Task] /\ sock \in [Conn -> Socket]
  /\ requests \in Seq(Conn) /\ replied \subseteq Conn
  /\ loop \in {"select", "loading", "rebuild"}

(***************************************************************************)
(* No lost request: a task that waits for the counters has either its      *)
(* reply or one place, and only one, in the loop's queue, and nobody else  *)
(* has one: whatever became of the accepting task, of clients and of       *)
(* reloads, no reply is computed for nobody and nobody waits for none.     *)
(***************************************************************************)
NoLostRequest ==
  \A c \in Conn :
    /\ Waits(c) => \E i \in Places(c) : Places(c) = {i}
    /\ ~Waits(c) => Places(c) = {}

(***************************************************************************)
(* No reset: closing a socket with unread input would make the kernel send *)
(* RST, and may cost the client its response.  Whichever way a connection  *)
(* ends, that happens only at one of the two limits of the drain.          *)
(***************************************************************************)
CleanClose ==
  [][\A c \in Conn :
       ~At(c, "closed") /\ At(c, "closed")' /\ sock[c].pending > 0
       => \/ sock[c].gone
          \/ At(c, "draining") /\ conn[c].drained = DRAIN_MAX_BYTES
          \/ At(c, "draining") /\ conn[c].wait = 0]_vars

\* The client has not read what fills its buffers, and more is to be written.
Unread(c) ==
  /\ At(c, "writing") /\ conn[c].left > 0
  /\ sock[c].unread = SEND_BUFFER /\ ~sock[c].gone

(***************************************************************************)
(* What bounds "a stalled/slow client": the deadlines are of the read of   *)
(* the request and of the drain.  Whatever a client sends or holds back,   *)
(* and however reloads delay its answer, its connection ends, except in    *)
(* one way: the client leaves unread, without closing or resetting, a      *)
(* response that its buffers do not hold.  Then write_all, which has no    *)
(* deadline, waits for as long as the client pleases.                      *)
(***************************************************************************)
OnlyUnreadResponsesHang ==
  \A c \in Conn : ~At(c, "closed") ~> (At(c, "closed") \/ []Unread(c))
=============================================================================
