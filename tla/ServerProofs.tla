---------------------------- MODULE ServerProofs ----------------------------
(***************************************************************************)
(* Proofs about Server, for every set of clients and messages and every    *)
(* length of the buffer: type correctness (the NUL stays inside the        *)
(* buffer), that clients get bytes of their own messages only, that at     *)
(* most one more connection is served after a SIGTERM, and what exit code  *)
(* 0 means.                                                                *)
(***************************************************************************)
EXTENDS Server, FiniteSetTheorems, TLAPS

-----------------------------------------------------------------------------
(* What takes the place of induction: facts that are stated over sets, and *)
(* need no operator parameter.                                             *)

\* The order of the natural numbers as a relation.
LessThan == {ss \in Nat \X Nat : ss[1] < ss[2]}

\* There is no endless descent in the natural numbers.
LEMMA LessThanWellFounded == IsWellFoundedOn(LessThan, Nat)
BY NatLessThanWellFounded DEF OpToRel, LessThan

\* A set of natural numbers that is not empty has a least element.
LEMMA LeastNumber ==
  ASSUME NEW S \in SUBSET Nat, S # {}
  PROVE  \E n \in S : \A m \in S : n <= m
<1>1. PICK n \in S : \A m \in S : ~(<<m, n>> \in LessThan)
  BY LessThanWellFounded, WFMin, Zenon
<1>2. \A m \in S : ~(m < n) BY <1>1 DEF LessThan
<1> QED BY <1>2

-----------------------------------------------------------------------------

Connected == {"recv", "receiving", "send"}
Serving == Connected \cup {"loop", "accept", "accepting", "end_loop", "test_ok"}

\* The connection is open where the loop uses it, and only there.
ConnInv ==
  /\ pc \in Connected => conn \in Client
  /\ conn \in Client => pc \in Connected \cup {"end_loop", "killed"}
  /\ conn \notin backlog

\* When send is reached, the buffer holds a C string: a prefix of the message.
BufferInv ==
  pc = "send" =>
    /\ sent[conn] # NotSent
    /\ msgLen <= Len(sent[conn])
    /\ msgBuffer[msgLen] = NUL
    /\ \A i \in 0 .. msgLen - 1 : msgBuffer[i] = sent[conn][i + 1]

\* The flag stays cleared once the handler has run in the loop, so that a
\* connection is counted only when its accept had been decided before.
StopInv ==
  /\ pc \in SetUp \cup {"args"} => ~handler
  /\ ~handler => stop = "no"
  /\ pc = "start" => stop # "serving"
  /\ stop = "serving" => ~running
  /\ stop # "serving" => accepted = 0
  /\ pc \in {"accept", "accepting"} => accepted = 0
  /\ accepted <= 1

\* ok records whether a call has failed, and a client is answered before it is
\* let go unless one has.
ExitInv ==
  /\ pc # "killed" => (ok <=> ~failed)
  /\ pc = "killed" => exitCode = -1
  /\ exitCode # -1 <=> pc = "exited"
  /\ exitCode = 0 => ~failed /\ ~listening
  /\ ~failed /\ pc = "end_loop" /\ conn \in Client => reply[conn] # NotSent
  /\ ~failed =>
       \A c \in Client \ backlog :
          sent[c] # NotSent /\ reply[c] = NotSent => c = conn /\ pc \in Connected \cup {"killed"}

IInv == TypeOK /\ ConnInv /\ BufferInv /\ OwnBytesOnly /\ StopInv /\ ExitInv

-----------------------------------------------------------------------------
(* strlen *)

\* In a buffer that holds a NUL, strlen is the place of the first one.
LEMMA StrLenFirst ==
  ASSUME NEW buffer, NEW k \in Slot, buffer[k] = NUL
  PROVE  /\ StrLen(buffer) \in 0 .. k
         /\ \A i \in 0 .. StrLen(buffer) - 1 : buffer[i] # NUL
<1> DEFINE First(n) == /\ \A i \in 0 .. n - 1 : buffer[i] # NUL
                       /\ n < BufLen => buffer[n] = NUL
<1>1. BufLen \in Nat /\ k \in Nat /\ k < BufLen BY ServerAssumption DEF Slot
<1>2. PICK n \in {m \in Nat : m < BufLen /\ buffer[m] = NUL} :
        \A m \in {m \in Nat : m < BufLen /\ buffer[m] = NUL} : n <= m
  BY <1>1, LeastNumber
<1>3. n \in 0 .. BufLen /\ First(n) BY <1>1, <1>2
<1>4. StrLen(buffer) \in 0 .. BufLen /\ First(StrLen(buffer)) BY <1>3 DEF StrLen
<1>5. StrLen(buffer) <= k BY <1>1, <1>4
<1> QED BY <1>1, <1>4, <1>5

\* What Send sends, given what the buffer holds.
LEMMA SentBack ==
  ASSUME TypeOK, ConnInv, BufferInv, Send
  PROVE  /\ reply'[conn] \in Seq(Byte)
         /\ Len(reply'[conn]) <= msgLen
         /\ \A i \in 1 .. Len(reply'[conn]) :
              reply'[conn][i] = sent[conn][i] /\ reply'[conn][i] # NUL
         /\ \A c \in Client : c # conn => reply'[c] = reply[c]
         /\ reply' = [reply EXCEPT ![conn] = reply'[conn]]
<1>1. msgLen \in Slot /\ msgBuffer[msgLen] = NUL /\ conn \in Client
  BY DEF TypeOK, BufferInv, ConnInv, Connected, Send
<1>2. PICK n : n = StrLen(msgBuffer) OBVIOUS
<1>3. n \in 0 .. msgLen /\ \A i \in 0 .. n - 1 : msgBuffer[i] # NUL
  BY <1>1, <1>2, StrLenFirst
<1>4. msgLen \in Nat /\ BufLen \in Nat /\ msgLen < BufLen BY <1>1, ServerAssumption DEF Slot
<1>5. \A i \in 1 .. n : msgBuffer[i - 1] \in Byte
  BY <1>3, <1>4 DEF TypeOK, Slot
<1>6. reply'[conn] = [i \in 1 .. n |-> msgBuffer[i - 1]] BY <1>1, <1>2 DEF Send, TypeOK
<1>7. n \in Nat BY <1>3, <1>4
<1>8. reply'[conn] \in Seq(Byte) /\ Len(reply'[conn]) = n BY <1>5, <1>6, <1>7
<1>9. \A i \in 1 .. n : msgBuffer[i - 1] = sent[conn][i] /\ msgBuffer[i - 1] # NUL
  <2>1. TAKE i \in 1 .. n
  <2>2. i - 1 \in 0 .. n - 1 /\ i - 1 \in 0 .. msgLen - 1 /\ (i - 1) + 1 = i BY <1>3, <1>4, <2>1
  <2>3. msgBuffer[i - 1] = sent[conn][(i - 1) + 1] BY <2>2 DEF BufferInv, Send
  <2> QED BY <1>3, <2>2, <2>3
<1> QED BY <1>1, <1>2, <1>3, <1>6, <1>8, <1>9 DEF Send, TypeOK

\* What Recv leaves in the buffer.
LEMMA ReceivedString ==
  ASSUME TypeOK, ConnInv, NEW len \in 0 .. BufLen, Recv(len)
  PROVE  /\ msgBuffer' \in [Slot -> Byte] /\ msgLen' \in Slot
         /\ msgLen' <= Len(sent[conn]) /\ sent[conn] \in Seq(Byte)
         /\ msgBuffer'[msgLen'] = NUL
         /\ \A i \in 0 .. msgLen' - 1 : msgBuffer'[i] = sent[conn][i + 1]
<1>1. BufLen \in Nat \ {0} /\ len \in Nat BY ServerAssumption
<1>2. conn \in Client /\ sent[conn] \in Seq(Byte) /\ len <= Len(sent[conn])
  BY ServerAssumption DEF TypeOK, ConnInv, Connected, Recv
<1>3. /\ msgLen' \in Slot /\ msgLen' <= len /\ msgLen' \in Nat
      /\ msgLen' = Truncated(len)
  BY <1>1 DEF Recv, Truncated, Slot
<1>4. \A i \in Slot : i < len => sent[conn][i + 1] \in Byte
  <2>1. TAKE i \in Slot
  <2>2. HAVE i < len
  <2>3. i + 1 \in 1 .. Len(sent[conn]) BY <1>1, <1>2, <2>2 DEF Slot
  <2> QED BY <1>2, <2>3
<1>5. msgBuffer' = [i \in Slot |-> IF i = msgLen' THEN NUL
                                   ELSE IF i < len THEN sent[conn][i + 1] ELSE msgBuffer[i]]
  BY <1>3 DEF Recv, Received
<1>6. msgBuffer' \in [Slot -> Byte] BY <1>4, <1>5, ServerAssumption DEF TypeOK
<1>7. \A i \in 0 .. msgLen' - 1 : i \in Slot /\ i # msgLen' /\ i < len
  BY <1>1, <1>3 DEF Slot
<1> QED BY <1>2, <1>3, <1>5, <1>6, <1>7

-----------------------------------------------------------------------------
(* Each part of the invariant *)

\* The invariant holds before the server starts.
LEMMA InitIInv == Init => IInv
<1> SUFFICES ASSUME Init PROVE IInv OBVIOUS
<1>1. TypeOK
  <2>1. msgBuffer \in [Slot -> Byte] /\ msgLen \in Slot
    BY ServerAssumption DEF Init, Slot
  <2>2. sent \in [Client -> Message \cup {NotSent}] /\ reply \in [Client -> Seq(Byte) \cup {NotSent}]
    BY DEF Init
  <2>3. signals \in 0 .. MaxSignals BY ServerAssumption DEF Init
  <2>4. /\ ok \in BOOLEAN /\ running \in BOOLEAN /\ handler \in BOOLEAN
        /\ listening \in BOOLEAN /\ failed \in BOOLEAN
    BY DEF Init
  <2>5. pc \in PC /\ exitCode \in {-1, 0, 1, 2} /\ stop \in {"no", "early", "serving"}
    BY DEF Init, PC
  <2>6. conn \in Client \cup {NoClient} /\ backlog \subseteq Client /\ accepted \in 0 .. 2
    BY DEF Init
  <2> QED BY <2>1, <2>2, <2>3, <2>4, <2>5, <2>6 DEF TypeOK
<1>2. ConnInv /\ BufferInv /\ OwnBytesOnly
  BY ServerAssumption DEF Init, ConnInv, BufferInv, OwnBytesOnly, Connected
<1>3. StopInv BY DEF Init, StopInv, SetUp
<1>4. ExitInv BY DEF Init, ExitInv
<1> QED BY <1>1, <1>2, <1>3, <1>4 DEF IInv

\* Every step keeps the types.
LEMMA NextTypeOK ==
  ASSUME IInv, [Next]_vars
  PROVE  TypeOK'
<1> USE DEF TypeOK, PC, SetUp, process, network, history
<1>1. TypeOK /\ ConnInv /\ BufferInv BY DEF IInv
<1>2. CASE ParseArgs \/ Bind \/ Listen \/ TestFlag \/ CallAccept \/ CallRecv
  BY <1>1, <1>2 DEF ParseArgs, Bind, Listen, TestFlag, AfterTest, CallAccept, CallRecv, GoTo
<1>3. CASE Socket \/ Sigaction \/ Start \/ TestOk \/ Usage
  <2>1. CASE Socket \/ Sigaction \/ Start \/ Usage
    BY <1>1, <2>1 DEF Socket, Sigaction, Start, Usage
  <2>2. CASE TestOk
    <3>1. running' \in BOOLEAN BY <1>1, <2>2, Zenon DEF TestOk
    <3> QED BY <1>1, <2>2, <3>1 DEF TestOk
  <2> QED BY <1>3, <2>1, <2>2
<1>4. CASE SetUpError \/ AcceptError \/ RecvError \/ SendError \/ SendPipe
  BY <1>1, <1>4 DEF SetUpError, AcceptError, RecvError, SendError, SendPipe, Fail
<1>5. CASE CloseConn BY <1>1, <1>5 DEF CloseConn
<1>6. CASE End BY <1>1, <1>6 DEF End
<1>7. ASSUME NEW c \in Client, AcceptReturns(c) PROVE TypeOK'
  BY <1>1, <1>7 DEF AcceptReturns
<1>8. ASSUME NEW len \in 0 .. BufLen, Recv(len) PROVE TypeOK'
  BY <1>1, <1>8, ReceivedString DEF Recv
<1>9. CASE Send
  <2>1. reply'[conn] \in Seq(Byte) /\ reply' = [reply EXCEPT ![conn] = reply'[conn]]
    BY <1>1, <1>9, SentBack
  <2>2. reply' \in [Client -> Seq(Byte) \cup {NotSent}] BY <1>1, <2>1
  <2> QED BY <1>1, <1>9, <2>2 DEF Send
<1>10. CASE Sigterm \/ SigtermKills
  <2>1. signals' \in 0 .. MaxSignals
    BY <1>1, <1>10, ServerAssumption DEF Sigterm, SigtermKills
  <2>2. CASE SigtermKills BY <1>1, <2>1, <2>2 DEF SigtermKills
  <2>3. CASE Sigterm
    <3>1. ok' \in BOOLEAN /\ running' \in BOOLEAN /\ failed' \in BOOLEAN
      BY <1>1, <2>3, Zenon DEF Sigterm, FlagAfterHandler
    <3>2. pc' \in PC /\ stop' \in {"no", "early", "serving"} BY <1>1, <2>3 DEF Sigterm
    <3> QED BY <1>1, <2>1, <2>3, <3>1, <3>2 DEF Sigterm
  <2> QED BY <1>10, <2>2, <2>3
<1>11. ASSUME NEW c \in Client, Connect(c) PROVE TypeOK'
  BY <1>1, <1>11 DEF Connect
<1>12. ASSUME NEW c \in Client, SendMessage(c) PROVE TypeOK'
  <2>1. sent' \in [Client -> Message \cup {NotSent}] BY <1>1, <1>12 DEF SendMessage
  <2> QED BY <1>1, <1>12, <2>1 DEF SendMessage
<1>13. CASE UNCHANGED vars BY <1>1, <1>13 DEF vars
<1> QED
  BY <1>2, <1>3, <1>4, <1>5, <1>6, <1>7, <1>8, <1>9, <1>10, <1>11, <1>13,
     <1>12
  DEF Next, Step, Error, Environment

\* Every step keeps what is known of the connections.
LEMMA NextConnInv ==
  ASSUME IInv, [Next]_vars
  PROVE  ConnInv'
<1> USE DEF ConnInv, Connected, SetUp, process, network, history
<1>1. TypeOK /\ ConnInv BY DEF IInv
<1>2. CASE ParseArgs \/ Bind \/ Listen \/ TestFlag \/ CallAccept \/ CallRecv
  BY <1>1, <1>2 DEF ParseArgs, Bind, Listen, TestFlag, AfterTest, CallAccept, CallRecv, GoTo
<1>3. CASE Socket \/ Sigaction \/ Start \/ TestOk \/ Usage
  BY <1>1, <1>3 DEF Socket, Sigaction, Start, TestOk, Usage
<1>4. CASE SetUpError \/ AcceptError \/ RecvError \/ SendError \/ SendPipe
  BY <1>1, <1>4 DEF SetUpError, AcceptError, RecvError, SendError, SendPipe, Fail
<1>5. CASE CloseConn \/ End \/ Send
  BY <1>1, <1>5, ServerAssumption DEF CloseConn, End, Send, TypeOK
<1>6. ASSUME NEW c \in Client, AcceptReturns(c) PROVE ConnInv'
  BY <1>1, <1>6 DEF AcceptReturns
<1>7. ASSUME NEW len \in 0 .. BufLen, Recv(len) PROVE ConnInv'
  BY <1>1, <1>7 DEF Recv
<1>8. CASE Sigterm \/ SigtermKills
  BY <1>1, <1>8 DEF Sigterm, SigtermKills, Interrupted
<1>9. ASSUME NEW c \in Client, Connect(c) \/ SendMessage(c) PROVE ConnInv'
  BY <1>1, <1>9 DEF Connect, SendMessage
<1>10. CASE UNCHANGED vars BY <1>1, <1>10 DEF vars
<1> QED
  BY <1>2, <1>3, <1>4, <1>5, <1>6, <1>7, <1>8, <1>9, <1>10 DEF Next, Step, Error, Environment

\* Every step keeps what is known of the receive buffer.
LEMMA NextBufferInv ==
  ASSUME IInv, [Next]_vars
  PROVE  BufferInv'
<1> USE DEF SetUp, process, network, history
<1>1. TypeOK /\ ConnInv /\ BufferInv BY DEF IInv
<1>2. CASE ParseArgs \/ Bind \/ Listen \/ TestFlag \/ CallAccept \/ CallRecv
  BY <1>2 DEF ParseArgs, Bind, Listen, TestFlag, AfterTest, CallAccept, CallRecv, GoTo,
     BufferInv
<1>3. CASE Socket \/ Sigaction \/ Start \/ TestOk \/ Usage \/ CloseConn \/ End \/ Send
  BY <1>3 DEF Socket, Sigaction, Start, TestOk, Usage, CloseConn, End, Send, BufferInv
<1>4. CASE SetUpError \/ AcceptError \/ RecvError \/ SendError \/ SendPipe
  BY <1>4 DEF SetUpError, AcceptError, RecvError, SendError, SendPipe, Fail, BufferInv
<1>5. ASSUME NEW c \in Client, AcceptReturns(c) PROVE BufferInv'
  BY <1>5 DEF AcceptReturns, BufferInv
<1>6. ASSUME NEW len \in 0 .. BufLen, Recv(len) PROVE BufferInv'
  <2>1. sent' = sent /\ conn' = conn /\ sent[conn] # NotSent BY <1>6 DEF Recv
  <2>2. /\ msgLen' <= Len(sent[conn])
        /\ msgBuffer'[msgLen'] = NUL
        /\ \A i \in 0 .. msgLen' - 1 : msgBuffer'[i] = sent[conn][i + 1]
    BY <1>1, <1>6, ReceivedString
  <2> QED BY <2>1, <2>2 DEF BufferInv
<1>7. CASE Sigterm \/ SigtermKills
  <2>1. pc' = "send" => pc = "send" BY <1>7 DEF Sigterm, SigtermKills
  <2>2. UNCHANGED <<sent, conn, msgLen, msgBuffer>> BY <1>7 DEF Sigterm, SigtermKills
  <2> QED BY <1>1, <2>1, <2>2 DEF BufferInv
<1>8. ASSUME NEW c \in Client, Connect(c) \/ SendMessage(c) PROVE BufferInv'
  <2>1. UNCHANGED <<pc, conn, msgLen, msgBuffer>> BY <1>8 DEF Connect, SendMessage
  <2>2. CASE pc = "send"
    <3>1. c # conn
      BY <1>1, <1>8, <2>2 DEF Connect, SendMessage, BufferInv
    <3>2. sent'[conn] = sent[conn]
      BY <1>1, <1>8, <2>2, <3>1 DEF Connect, SendMessage, TypeOK, ConnInv, Connected
    <3> QED BY <1>1, <2>1, <2>2, <3>2 DEF BufferInv
  <2> QED BY <2>1, <2>2 DEF BufferInv
<1>9. CASE UNCHANGED vars BY <1>1, <1>9 DEF vars, BufferInv
<1> QED
  BY <1>2, <1>3, <1>4, <1>5, <1>6, <1>7, <1>8, <1>9 DEF Next, Step, Error, Environment

\* No step sends a client the bytes of another.
LEMMA NextOwnBytesOnly ==
  ASSUME IInv, [Next]_vars
  PROVE  OwnBytesOnly'
<1> USE DEF process, network, history
<1>1. TypeOK /\ ConnInv /\ BufferInv /\ OwnBytesOnly BY DEF IInv
<1>2. CASE UNCHANGED <<sent, reply>>
  BY <1>1, <1>2 DEF OwnBytesOnly
<1>3. CASE Send
  <2>1. sent' = sent /\ conn \in Client /\ sent[conn] # NotSent
    BY <1>1, <1>3 DEF Send, ConnInv, Connected, BufferInv
  <2>2. msgLen < BufLen /\ msgLen <= Len(sent[conn]) /\ msgLen \in Nat /\ BufLen \in Nat
    BY <1>1, <1>3, ServerAssumption DEF TypeOK, BufferInv, Slot, Send
  <2>3. Len(sent[conn]) \in Nat BY <1>1, <2>1, ServerAssumption DEF TypeOK
  <2>4. /\ Len(reply'[conn]) \in Nat /\ Len(reply'[conn]) <= msgLen
        /\ \A i \in 1 .. Len(reply'[conn]) :
             reply'[conn][i] = sent[conn][i] /\ reply'[conn][i] # NUL
        /\ \A c \in Client : c # conn => reply'[c] = reply[c]
    BY <1>1, <1>3, SentBack
  <2>5. Len(reply'[conn]) < BufLen /\ Len(reply'[conn]) <= Len(sent[conn])
    BY <2>2, <2>3, <2>4
  <2> QED BY <1>1, <2>1, <2>4, <2>5 DEF OwnBytesOnly
<1>4. ASSUME NEW c \in Client, Connect(c) \/ SendMessage(c) PROVE OwnBytesOnly'
  <2>1. reply'[c] = NotSent
    BY <1>1, <1>4 DEF Connect, SendMessage, TypeOK, OwnBytesOnly
  <2>2. \A d \in Client : d # c => sent'[d] = sent[d] /\ reply'[d] = reply[d]
    BY <1>1, <1>4 DEF Connect, SendMessage, TypeOK
  <2> QED BY <1>1, <2>1, <2>2 DEF OwnBytesOnly
<1> QED
  BY <1>2, <1>3, <1>4
  DEF Next, Step, Error, Environment, ParseArgs, Bind, Listen, TestFlag, CallAccept,
      CallRecv, GoTo, Socket, Sigaction, Start, TestOk, Usage, SetUpError, AcceptError,
      RecvError, SendError, SendPipe, Fail, CloseConn, End, AcceptReturns, Recv, Sigterm,
      SigtermKills, vars

\* Every step keeps what a stop signal leaves behind.
LEMMA NextStopInv ==
  ASSUME IInv, [Next]_vars
  PROVE  StopInv'
<1> USE DEF SetUp, process, network, history
<1>1. TypeOK /\ StopInv BY DEF IInv
<1>2. CASE ParseArgs \/ Bind \/ Listen \/ CallAccept \/ CallRecv
  BY <1>1, <1>2 DEF ParseArgs, Bind, Listen, CallAccept, CallRecv, GoTo, StopInv
<1>3. CASE TestFlag
  BY <1>1, <1>3 DEF TestFlag, AfterTest, GoTo, StopInv
<1>4. CASE Socket \/ Sigaction \/ Usage \/ CloseConn \/ End \/ Send
  BY <1>1, <1>4 DEF Socket, Sigaction, Usage, CloseConn, End, Send, StopInv
<1>12. CASE Start
  BY <1>1, <1>12 DEF Start, StopInv
<1>13. CASE TestOk
  <2>1. running' => running BY <1>13 DEF TestOk
  <2> QED BY <1>1, <1>13, <2>1 DEF TestOk, StopInv
<1>5. CASE SetUpError \/ AcceptError \/ RecvError \/ SendError \/ SendPipe
  BY <1>1, <1>5 DEF SetUpError, AcceptError, RecvError, SendError, SendPipe, Fail, StopInv
<1>6. ASSUME NEW c \in Client, AcceptReturns(c) PROVE StopInv'
  BY <1>1, <1>6 DEF AcceptReturns, StopInv
<1>7. ASSUME NEW len \in 0 .. BufLen, Recv(len) PROVE StopInv'
  BY <1>1, <1>7 DEF Recv, StopInv
<1>8. CASE Sigterm
  <2>1. handler' = handler /\ handler /\ ~running' /\ accepted' = accepted
    BY <1>8 DEF Sigterm, FlagAfterHandler
  <2>2. pc' \in {"accept", "accepting"} => pc' = pc BY <1>8 DEF Sigterm, Interrupted
  <2>3. pc \notin SetUp \cup {"args"} /\ pc' \notin SetUp \cup {"args"}
    BY <1>1, <1>8, <2>1 DEF Sigterm, StopInv
  <2>4. stop' # "serving" => stop # "serving" BY <1>8 DEF Sigterm
  <2>5. pc' = "start" => stop' # "serving"
    <3>1. ASSUME pc' = "start" PROVE pc = "start" BY <3>1, <1>8 DEF Sigterm
    <3> QED BY <1>1, <1>8, <3>1 DEF Sigterm, StopInv
  <2> QED BY <1>1, <2>1, <2>2, <2>3, <2>4, <2>5 DEF StopInv
<1>11. CASE SigtermKills
  BY <1>1, <1>11 DEF SigtermKills, StopInv
<1>9. ASSUME NEW c \in Client, Connect(c) \/ SendMessage(c) PROVE StopInv'
  BY <1>1, <1>9 DEF Connect, SendMessage, StopInv
<1>10. CASE UNCHANGED vars BY <1>1, <1>10 DEF vars, StopInv
<1> QED
  BY <1>2, <1>3, <1>4, <1>5, <1>6, <1>7, <1>8, <1>9, <1>10, <1>11, <1>12, <1>13
  DEF Next, Step, Error, Environment

\* Every step keeps what holds at the exit.
LEMMA NextExitInv ==
  ASSUME IInv, [Next]_vars
  PROVE  ExitInv'
<1> USE DEF SetUp, process, network, history
<1>1. TypeOK /\ ConnInv /\ OwnBytesOnly /\ ExitInv BY DEF IInv
<1>2. CASE ParseArgs \/ Bind \/ Listen \/ TestFlag \/ CallAccept \/ CallRecv
  BY <1>1, <1>2 DEF ParseArgs, Bind, Listen, TestFlag, AfterTest, CallAccept, CallRecv, GoTo,
     ExitInv, ConnInv, Connected
<1>3. CASE Socket \/ Sigaction \/ Start \/ TestOk \/ Usage
  BY <1>1, <1>3 DEF Socket, Sigaction, Start, TestOk, Usage, ExitInv, ConnInv, Connected, TypeOK
<1>4. CASE SetUpError \/ AcceptError \/ RecvError \/ SendError \/ SendPipe
  <2>1. exitCode' = exitCode /\ failed' /\ pc \notin {"exited", "killed"}
    BY <1>4 DEF SetUpError, AcceptError, RecvError, SendError, SendPipe, Fail
  <2>2. pc' # "exited" /\ (pc' # "killed" => ~ok')
    BY <1>4 DEF SetUpError, AcceptError, RecvError, SendError, SendPipe, Fail
  <2> QED BY <1>1, <2>1, <2>2 DEF ExitInv
<1>5. CASE CloseConn
  <2>1. (ok' <=> ~failed') /\ (~failed' => ~failed)
    BY <1>1, <1>5 DEF CloseConn, ExitInv
  <2>2. pc = "end_loop" /\ pc' = "test_ok" /\ exitCode' = exitCode
        /\ UNCHANGED <<backlog, sent, reply>>
    BY <1>5 DEF CloseConn
  <2> QED BY <1>1, <2>1, <2>2 DEF ExitInv, Connected
<1>6. CASE End
  BY <1>1, <1>6 DEF End, ExitInv, TypeOK, ConnInv, Connected
<1>7. CASE Send
  <2>1. /\ reply'[conn] \in Seq(Byte)
        /\ \A c \in Client : c # conn => reply'[c] = reply[c]
    BY <1>1, <1>7, SentBack DEF IInv
  <2>2. reply'[conn] # NotSent BY <2>1, ServerAssumption
  <2> QED BY <1>1, <1>7, <2>1, <2>2 DEF Send, ExitInv
<1>8. ASSUME NEW c \in Client, AcceptReturns(c) PROVE ExitInv'
  BY <1>1, <1>8 DEF AcceptReturns, ExitInv, ConnInv, Connected
<1>9. ASSUME NEW len \in 0 .. BufLen, Recv(len) PROVE ExitInv'
  BY <1>1, <1>9 DEF Recv, ExitInv, Connected
<1>10. CASE Sigterm
  BY <1>1, <1>10 DEF Sigterm, Interrupted, Ended, ExitInv, Connected, ConnInv, TypeOK
<1>11. CASE SigtermKills
  BY <1>1, <1>11 DEF SigtermKills, Ended, ExitInv, Connected
<1>12. ASSUME NEW c \in Client, Connect(c) PROVE ExitInv'
  BY <1>1, <1>12 DEF Connect, ExitInv, TypeOK
<1>13. ASSUME NEW c \in Client, SendMessage(c) PROVE ExitInv'
  <2>1. UNCHANGED <<pc, ok, exitCode, listening, conn, backlog, reply, failed>>
        /\ \A d \in Client : d # c => sent'[d] = sent[d]
    BY <1>1, <1>13 DEF SendMessage, TypeOK
  <2>2. reply[c] = NotSent BY <1>1, <1>13 DEF SendMessage, OwnBytesOnly
  <2>3. ~failed /\ c \notin backlog => c = conn /\ pc \in Connected \cup {"killed"}
    BY <1>1, <1>13, <2>2 DEF SendMessage, ExitInv, ConnInv
  <2> QED BY <1>1, <2>1, <2>3 DEF ExitInv
<1>14. CASE UNCHANGED vars BY <1>1, <1>14 DEF vars, ExitInv
<1> QED
  BY <1>2, <1>3, <1>4, <1>5, <1>6, <1>7, <1>8, <1>9, <1>10, <1>11, <1>12, <1>13, <1>14
  DEF Next, Step, Error, Environment

-----------------------------------------------------------------------------
(* The theorems *)

\* The invariant holds in every reachable state.
LEMMA SpecIInv == Spec => []IInv
<1>1. IInv /\ [Next]_vars => IInv'
  BY NextTypeOK, NextConnInv, NextBufferInv, NextOwnBytesOnly, NextStopInv, NextExitInv
  DEF IInv
<1> QED BY InitIInv, <1>1, PTL DEF Spec

\* The variables keep their types; in particular the NUL that ends a message is
\* stored inside msg_buffer.
THEOREM ServerTypeOK == Spec => []TypeOK
<1>1. IInv => TypeOK BY DEF IInv
<1> QED BY <1>1, SpecIInv, PTL

\* A client is sent bytes of its own message only, although msg_buffer still
\* holds what earlier clients sent.
THEOREM ServerOwnBytesOnly == Spec => []OwnBytesOnly
<1>1. IInv => OwnBytesOnly BY DEF IInv
<1> QED BY <1>1, SpecIInv, PTL

\* Once the handler has run while main serves, at most one connection is
\* accepted.
THEOREM ServerAtMostOneMore == Spec => []AtMostOneMore
<1>1. IInv => AtMostOneMore BY DEF IInv, StopInv, AtMostOneMore
<1> QED BY <1>1, SpecIInv, PTL

\* Exit code 0 means that nothing failed, nothing is open, and every client that
\* was accepted was answered.
THEOREM ServerCleanExit == Spec => []CleanExit
<1>1. IInv => CleanExit
  BY ServerAssumption DEF IInv, TypeOK, ConnInv, ExitInv, CleanExit, Connected
<1> QED BY <1>1, SpecIInv, PTL
=============================================================================
