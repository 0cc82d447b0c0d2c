------------------------------- MODULE Server -------------------------------
(***************************************************************************)
(* The TCP echo server of src/tools/server.c: one process that serves one  *)
(* connection at a time, and a SIGTERM handler that clears the flag the    *)
(* main loop tests.                                                        *)
(*                                                                         *)
(* pc names the statement the process executes next; "accepting" and       *)
(* "receiving" are the process inside accept(2) and recv(2), the calls     *)
(* that may block and that a signal interrupts (the handler is installed   *)
(* without SA_RESTART).  The handler runs between any two steps.           *)
(*                                                                         *)
(* The clients are the environment: they connect, may send one message (a  *)
(* message of length 0 is a client that closes without sending), and come  *)
(* back once they have been closed.  TCP may hand recv any nonempty prefix *)
(* of a message.  A signal other than SIGTERM is not modelled.             *)
(***************************************************************************)
EXTENDS Integers, Sequences

CONSTANTS
  Client,      \* the clients
  NoClient,    \* fd_conn is -1
  NotSent,     \* in place of a message: nothing has been sent
  Byte,        \* the values of a byte ...
  NUL,         \* ... one of which ends a C string
  BufLen,      \* SL_ARRAY_LEN(msg_buffer), 4096 in the code
  Message,     \* the messages a client may send
  MaxSignals   \* bounds the SIGTERMs of a behaviour

ASSUME ServerAssumption ==
  /\ NoClient \notin Client
  /\ NUL \in Byte
  /\ BufLen \in Nat \ {0}
  /\ Message \subseteq Seq(Byte)
  /\ NotSent \notin Seq(Byte)
  /\ MaxSignals \in Nat

VARIABLES
  pc,          \* the next statement of main
  ok,          \* the variable ok
  running,     \* sl_server_running
  handler,     \* the handler is installed: before, SIGTERM kills
  listening,   \* fd_listen is open
  conn,        \* the client fd_conn is connected to, or NoClient
  msgBuffer,   \* msg_buffer
  msgLen,      \* msg_len
  exitCode,    \* what main returned, -1 before that
  backlog,     \* clients the kernel has connected and accept has not returned
  sent,        \* for each client the message it has sent, or NotSent
  reply,       \* for each client what it has been sent back, or NotSent
  signals,     \* the number of SIGTERMs so far
  stop,        \* "no", or where main was when the handler ran first:
               \* "early" (before the flag is set) or "serving"
  accepted,    \* connections accepted since stop is "serving", counted up to 2
  failed       \* some call has failed

process == <<pc, ok, running, handler, listening, conn, msgBuffer, msgLen, exitCode>>
network == <<backlog, sent, reply>>
history == <<signals, stop, accepted, failed>>
vars == <<process, network, history>>

Slot == 0 .. BufLen - 1
SetUp == {"socket", "bind", "listen", "sigaction"}
PC == SetUp \cup {"args", "start", "loop", "accept", "accepting", "recv", "receiving",
                  "send", "end_loop", "test_ok", "end", "exited", "killed"}
Ended == pc \in {"exited", "killed"}

Init ==
  /\ pc = "args" /\ ok = TRUE /\ running = FALSE /\ handler = FALSE /\ listening = FALSE
  /\ conn = NoClient
  /\ msgBuffer = [i \in Slot |-> NUL] /\ msgLen = 0
  /\ exitCode = -1
  /\ backlog = {}
  /\ sent = [c \in Client |-> NotSent] /\ reply = [c \in Client |-> NotSent]
  /\ signals = 0 /\ stop = "no" /\ accepted = 0 /\ failed = FALSE

-----------------------------------------------------------------------------
(* The start of main *)

GoTo(label) ==
  /\ pc' = label
  /\ UNCHANGED <<ok, running, handler, listening, conn, msgBuffer, msgLen, exitCode, network,
                 history>>

\* A call fails: ok is cleared and control goes to a label.
Fail(label) ==
  /\ pc' = label
  /\ ok' = FALSE
  /\ failed' = TRUE
  /\ UNCHANGED <<running, handler, listening, conn, msgBuffer, msgLen, exitCode, network,
                 signals, stop, accepted>>

ParseArgs == pc = "args" /\ GoTo("socket")

\* A help flag (2) or arguments that are no address and port (1).
Usage ==
  /\ pc = "args"
  /\ pc' = "exited"
  /\ exitCode' \in {1, 2}
  /\ UNCHANGED <<ok, running, handler, listening, conn, msgBuffer, msgLen, network, history>>

Socket ==
  /\ pc = "socket"
  /\ listening' = TRUE
  /\ pc' = "bind"
  /\ UNCHANGED <<ok, running, handler, conn, msgBuffer, msgLen, exitCode, network, history>>

Bind == pc = "bind" /\ GoTo("listen")
Listen == pc = "listen" /\ GoTo("sigaction")

Sigaction ==
  /\ pc = "sigaction"
  /\ handler' = TRUE
  /\ pc' = "start"
  /\ UNCHANGED <<ok, running, listening, conn, msgBuffer, msgLen, exitCode, network, history>>

SetUpError == pc \in SetUp /\ Fail("end")

\* sl_server_running = true, whatever the handler has done before.
Start ==
  /\ pc = "start"
  /\ running' = TRUE
  /\ pc' = "loop"
  /\ UNCHANGED <<ok, handler, listening, conn, msgBuffer, msgLen, exitCode, network, history>>

-----------------------------------------------------------------------------
(* The loop of main *)

\* Mutant: the loop does not test the flag.
AfterTestAccept == "accept"

\* Where the test of the flag leads.
AfterTest == IF running THEN "accept" ELSE "end"

TestFlag == pc = "loop" /\ GoTo(AfterTest)

CallAccept == pc = "accept" /\ GoTo("accepting")

AcceptReturns(c) ==
  /\ pc = "accepting"
  /\ c \in backlog
  /\ backlog' = backlog \ {c}
  /\ conn' = c
  /\ accepted' = IF stop = "serving" /\ accepted < 2 THEN accepted + 1 ELSE accepted
  /\ pc' = "recv"
  /\ UNCHANGED <<ok, running, handler, listening, msgBuffer, msgLen, exitCode, sent, reply,
                 signals, stop, failed>>

AcceptError == pc = "accepting" /\ Fail("end_loop")

CallRecv == pc = "recv" /\ GoTo("receiving")

\* Mutant: only a message longer than the buffer is cut.
TruncatedAbove(len) == IF len > BufLen THEN BufLen - 1 ELSE len

\* A message that fills the buffer is cut to leave room for the NUL.
Truncated(len) == IF len >= BufLen THEN BufLen - 1 ELSE len

\* Mutant: the NUL is not appended.
ReceivedUnterminated(message, len) ==
  [i \in Slot |-> IF i < len THEN message[i + 1] ELSE msgBuffer[i]]

\* The buffer after recv has stored a prefix and the NUL has been appended:
\* what is behind it is left over from earlier connections.
Received(message, len) ==
  [i \in Slot |-> IF i = Truncated(len) THEN NUL
                  ELSE IF i < len THEN message[i + 1] ELSE msgBuffer[i]]

Recv(len) ==
  /\ pc = "receiving"
  /\ sent[conn] # NotSent
  /\ len <= Len(sent[conn]) /\ len <= BufLen
  /\ len = 0 => sent[conn] = <<>>
  /\ msgBuffer' = Received(sent[conn], len)
  /\ msgLen' = Truncated(len)
  /\ pc' = "send"
  /\ UNCHANGED <<ok, running, handler, listening, conn, exitCode, network, history>>

\* Mutant: the error is logged and ok is left alone.
RecvErrorIgnored == pc = "receiving" /\ GoTo("end_loop")

RecvError == pc = "receiving" /\ Fail("end_loop")

\* strlen(msg_buffer)
StrLen(buffer) ==
  CHOOSE n \in 0 .. BufLen :
    /\ \A i \in 0 .. n - 1 : buffer[i] # NUL
    /\ n < BufLen => buffer[n] = NUL

Send ==
  /\ pc = "send"
  /\ reply' = [reply EXCEPT ![conn] = [i \in 1 .. StrLen(msgBuffer) |-> msgBuffer[i - 1]]]
  /\ pc' = "end_loop"
  /\ UNCHANGED <<ok, running, handler, listening, conn, msgBuffer, msgLen, exitCode, backlog, sent,
                 history>>

SendError == pc = "send" /\ Fail("end_loop")

\* The peer is gone and SIGPIPE, which nothing handles, ends the process.
SendPipe ==
  /\ pc = "send"
  /\ pc' = "killed"
  /\ failed' = TRUE
  /\ UNCHANGED <<ok, running, handler, listening, conn, msgBuffer, msgLen, exitCode, network,
                 signals, stop, accepted>>

\* end_loop: close the connection if there is one.
CloseConn ==
  /\ pc = "end_loop"
  /\ conn' = NoClient
  /\ \/ UNCHANGED <<ok, failed>>
     \/ conn # NoClient /\ ok' = FALSE /\ failed' = TRUE
  /\ pc' = "test_ok"
  /\ UNCHANGED <<running, handler, listening, msgBuffer, msgLen, exitCode, network, signals,
                 stop, accepted>>

TestOk ==
  /\ pc = "test_ok"
  /\ running' = (running /\ ok)
  /\ pc' = "loop"
  /\ UNCHANGED <<ok, handler, listening, conn, msgBuffer, msgLen, exitCode, network, history>>

\* end: close the listening socket if there is one, and return.
End ==
  /\ pc = "end"
  /\ listening' = FALSE
  /\ \E closed \in BOOLEAN :
       /\ closed \/ listening
       /\ ok' = (ok /\ closed)
       /\ failed' = (failed \/ ~closed)
  /\ exitCode' = IF ok' THEN 0 ELSE 1
  /\ pc' = "exited"
  /\ UNCHANGED <<running, handler, conn, msgBuffer, msgLen, network, signals, stop, accepted>>

-----------------------------------------------------------------------------
(* stop_server_on_sigterm, and SIGTERM before it is installed *)

\* Mutant: the handler only logs.
FlagAfterSignal == running

\* What the handler leaves in sl_server_running.
FlagAfterHandler == FALSE

Interrupted == pc \in {"accepting", "receiving"}

\* An interrupted accept ends the iteration; an interrupted recv is an error.
Sigterm ==
  /\ handler /\ ~Ended
  /\ signals < MaxSignals
  /\ signals' = signals + 1
  /\ running' = FlagAfterHandler
  /\ stop' = IF stop # "no" THEN stop ELSE IF pc = "start" THEN "early" ELSE "serving"
  /\ pc' = IF Interrupted THEN "end_loop" ELSE pc
  /\ ok' = (ok /\ pc # "receiving")
  /\ failed' = (failed \/ pc = "receiving")
  /\ UNCHANGED <<handler, listening, conn, msgBuffer, msgLen, exitCode, network, accepted>>

\* Without the handler SIGTERM ends the process.
SigtermKills ==
  /\ ~handler /\ ~Ended
  /\ signals < MaxSignals
  /\ signals' = signals + 1
  /\ pc' = "killed"
  /\ UNCHANGED <<ok, running, handler, listening, conn, msgBuffer, msgLen, exitCode,
                 network, stop, accepted, failed>>

-----------------------------------------------------------------------------
(* The clients *)

\* The kernel completes a connection as soon as the socket listens.
Connect(c) ==
  /\ listening /\ pc \notin SetUp /\ ~Ended
  /\ c \notin backlog /\ c # conn
  /\ backlog' = backlog \cup {c}
  /\ sent' = [sent EXCEPT ![c] = NotSent]
  /\ reply' = [reply EXCEPT ![c] = NotSent]
  /\ UNCHANGED <<process, history>>

SendMessage(c) ==
  /\ c \in backlog \/ c = conn
  /\ sent[c] = NotSent
  /\ \E message \in Message : sent' = [sent EXCEPT ![c] = message]
  /\ UNCHANGED <<process, backlog, reply, history>>

-----------------------------------------------------------------------------
\* The steps of the process that no call has to fail for.
Step ==
  \/ ParseArgs \/ Socket \/ Bind \/ Listen \/ Sigaction \/ Start
  \/ TestFlag \/ CallAccept \/ CallRecv \/ Send \/ CloseConn \/ TestOk \/ End
  \/ \E c \in Client : AcceptReturns(c)
  \/ \E len \in 0 .. BufLen : Recv(len)

Error == Usage \/ SetUpError \/ AcceptError \/ RecvError \/ SendError \/ SendPipe

Environment ==
  \/ Sigterm
  \/ SigtermKills
  \/ \E c \in Client : Connect(c) \/ SendMessage(c)

Next == Step \/ Error \/ Environment

Spec == Init /\ [][Next]_vars

\* The process is scheduled, and the clients do not stop coming.
BusySpec ==
  /\ Spec
  /\ WF_vars(Step)
  /\ \A c \in Client : WF_vars(Connect(c)) /\ WF_vars(SendMessage(c))

-----------------------------------------------------------------------------
\* The types of the variables.  msg_len is an index of msg_buffer: the NUL that
\* is stored there stays inside.
TypeOK ==
  /\ pc \in PC
  /\ ok \in BOOLEAN /\ running \in BOOLEAN /\ handler \in BOOLEAN /\ listening \in BOOLEAN
  /\ conn \in Client \cup {NoClient}
  /\ msgBuffer \in [Slot -> Byte]
  /\ msgLen \in Slot
  /\ exitCode \in {-1, 0, 1, 2}
  /\ backlog \subseteq Client
  /\ sent \in [Client -> Message \cup {NotSent}]
  /\ reply \in [Client -> Seq(Byte) \cup {NotSent}]
  /\ signals \in 0 .. MaxSignals
  /\ stop \in {"no", "early", "serving"}
  /\ accepted \in 0 .. 2
  /\ failed \in BOOLEAN

\* msg_buffer is not cleared between connections.  A client is nevertheless
\* sent back bytes of its own message only: a prefix of it that ends before the
\* first NUL and leaves room for one in the buffer.
OwnBytesOnly ==
  \A c \in Client : reply[c] # NotSent =>
    /\ Len(reply[c]) < BufLen
    /\ sent[c] # NotSent
    /\ Len(reply[c]) <= Len(sent[c])
    /\ \A i \in 1 .. Len(reply[c]) : reply[c][i] = sent[c][i] /\ reply[c][i] # NUL

\* A handler that has run while main serves is obeyed, wherever in the loop it
\* interrupted main: at most the connection that was about to be accepted is
\* still served.
AtMostOneMore == accepted <= 1

\* Exit code 0 means that no call has failed but for an accept that the handler
\* interrupted, no socket is open, and every client that was accepted and has
\* sent something has been answered.  It promises nothing to the clients still in the backlog
\* when the loop ends, and a message that is too long for the buffer is cut off
\* and logged as an error (line 143) without any effect on the exit code.
CleanExit ==
  exitCode = 0 =>
    /\ ~failed /\ ~listening /\ conn = NoClient
    /\ \A c \in Client \ backlog : sent[c] # NotSent => reply[c] # NotSent

\* While clients keep coming, a SIGTERM that reaches main in the loop ends the
\* program.
StopsWhenBusy == (stop = "serving") ~> Ended

\* What the handler logs, "received SIGTERM, shutting down" (server.c:21), taken
\* at its word for every SIGTERM it handles.
ShutsDown == (stop # "no") ~> Ended
=============================================================================
