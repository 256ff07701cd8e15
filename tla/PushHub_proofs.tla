--------------------------- MODULE PushHub_proofs ---------------------------
(* Theorems about PushHub, for every number of connections, accounts,      *)
(* descriptors and pushing threads.  IInv is inductive: one lemma for each *)
(* of its conjuncts says that every step keeps it, and names the step.     *)
EXTENDS PushHub, FiniteSetTheorems, TLAPS

\* The jobs the handlers start with are jobs of the type.
LEMMA JobType ==
  /\ NoJob \in SendJobs
  /\ \A k \in Kinds, c \in Conn : Job(k, c) \in SendJobs
BY DEF NoJob, Job, SendJobs, Kinds

\* A new send starts at the evaluation of its target's sock.
LEMMA JobFields ==
  /\ NoJob.to = None /\ NoJob.st = "idle"
  /\ \A k \in Kinds, c \in Conn : Job(k, c).to = c /\ Job(k, c).fd = None /\ Job(k, c).st = "sock"
BY DEF NoJob, Job

\* The three kinds of thread that call Conn::close and send_frame.
LEMMA ThreadKinds == Conn \subseteq Thread /\ Pusher \subseteq Thread /\ Stopper \in Thread
BY DEF Thread

\* A snapshot of by_acc holds connections whose handler thread has run.
LEMMA RegisteredKnown ==
  IInv => \A a \in Acc : byAcc[a] # None => byAcc[a] \in Conn /\ Known(byAcc[a])
BY DEF IInv, TypeOK, RegistryEntry, Online, Known

-----------------------------------------------------------------------------
(* One conjunct of the invariant at a time.                                *)

\* Every step keeps every variable in its type; active needs the count
\* (CountStep), for HandlerDone takes one away.
LEMMA TypeStep == TypeOK /\ Busy /\ active' \in Nat /\ [Next]_vars => TypeOK'
<1> SUFFICES ASSUME TypeOK, Busy, active' \in Nat, [Next]_vars PROVE TypeOK'
  OBVIOUS
<1> USE JobType, ThreadKinds
    DEF vars, accVars, hubVars, connVars, sendVars, closeVars,
        TypeOK, Steps, Kinds, Reply, BeginClose
<1>1. CASE AcceptThread
  <2>1. CASE AcceptLoop BY <2>1 DEF AcceptLoop
  <2>2. CASE AcceptNothing BY <2>2 DEF AcceptNothing
  <2>3. CASE RejectConn BY <2>3 DEF RejectConn
  <2>4. CASE AdmitConn BY <2>4 DEF AdmitConn
  <2>5. CASE SpawnHandler BY <2>5 DEF SpawnHandler
  <2>6. CASE SpawnFails BY <2>6 DEF SpawnFails
  <2>7. ASSUME NEW c \in Conn, NEW f \in Fd, AcceptConn(c, f) PROVE TypeOK'
    BY <2>7 DEF AcceptConn
  <2> QED BY <1>1, <2>1, <2>2, <2>3, <2>4, <2>5, <2>6, <2>7 DEF AcceptThread
<1>2. ASSUME NEW t \in Thread, Close(t) PROVE TypeOK'
  <2>1. CASE CloseExchange(t) BY <2>1 DEF CloseExchange
  <2>2. CASE CloseFd(t) BY <2>2 DEF CloseFd
  <2>3. CASE CloseClear(t) BY <2>3 DEF CloseClear
  <2> QED BY <1>2, <2>1, <2>2, <2>3 DEF Close
<1>3. ASSUME NEW t \in Thread, EvalSock(t) PROVE TypeOK'
  BY <1>3 DEF EvalSock, SendJobs
<1>4. ASSUME NEW c \in Conn, Handler(c) PROVE TypeOK'
  <2>1. CASE LoopTop(c) BY <2>1 DEF LoopTop
  <2>2. CASE ReadEnds(c) BY <2>2 DEF ReadEnds
  <2>3. CASE AuthFrame(c) BY <2>3 DEF AuthFrame
  <2>4. CASE OtherFirstFrame(c) BY <2>4 DEF OtherFirstFrame
  <2>5. ASSUME NEW a \in Acc, AuthValid(c, a) PROVE TypeOK'
    BY <2>5 DEF AuthValid
  <2>6. CASE AuthInvalid(c) BY <2>6 DEF AuthInvalid
  <2>7. CASE HandlerThrows(c) BY <2>7 DEF HandlerThrows
  <2>8. CASE Register(c)
    <3>1. acc[c] \in Acc BY <2>8 DEF Busy, Register
    <3>2. byAcc[acc[c]] \in Conn \cup {None} BY <3>1
    <3> QED BY <3>1, <3>2, <2>8 DEF Register
  <2>9. CASE AuthOk(c) BY <2>9 DEF AuthOk
  <2>10. CASE HandlePing(c) BY <2>10 DEF HandlePing
  <2>11. CASE HandleOther(c) BY <2>11 DEF HandleOther
  <2>12. ASSUME NEW to \in Acc, WaveOffline(c, to) PROVE TypeOK'
    BY <2>12 DEF WaveOffline
  <2>13. ASSUME NEW to \in Acc, WaveForward(c, to) PROVE TypeOK'
    BY <2>13 DEF WaveForward
  <2>14. ASSUME NEW s \in Conn, HandleWaveAck(c, s) PROVE TypeOK'
    BY <2>14 DEF HandleWaveAck
  <2>15. CASE FinishReply(c) BY <2>15 DEF FinishReply, AfterReply, CanWrite, MayFail
  <2>16. CASE WaveSent(c) BY <2>16 DEF WaveSent, CanWrite
  <2>17. CASE WaveSentOldProtocol(c) BY <2>17 DEF WaveSentOldProtocol
  <2>18. CASE WaveSendFails(c)
    <3>1. job[c].to \in Conn \cup {None} BY DEF SendJobs
    <3> QED BY <3>1, <2>18 DEF WaveSendFails
  <2>19. CASE Unregister(c) BY <2>19 DEF Unregister
  <2>20. CASE HandlerShut(c) BY <2>20 DEF HandlerShut
  <2>21. CASE HandlerDone(c) BY <2>21 DEF HandlerDone
  <2> QED BY <1>4, <2>1, <2>2, <2>3, <2>4, <2>5, <2>6, <2>7, <2>8, <2>9, <2>10, <2>11, <2>12,
             <2>13, <2>14, <2>15, <2>16, <2>17, <2>18, <2>19, <2>20, <2>21 DEF Handler, HandlerStep, Frames
<1>5. ASSUME NEW p \in Pusher, Push(p) PROVE TypeOK'
  <2>1. ASSUME NEW a \in Acc, PushToAcc(p, a) PROVE TypeOK'
    BY <2>1 DEF PushToAcc
  <2>2. CASE Broadcast(p) BY <2>2 DEF Broadcast, Registered
  <2>3. ASSUME NEW c \in Conn, BroadcastNext(p, c) PROVE TypeOK'
    BY <2>3 DEF BroadcastNext
  <2>4. CASE PushSent(p) BY <2>4 DEF PushSent
  <2>5. CASE PushFails(p)
    <3>1. job[p].to \in Conn \cup {None} BY DEF SendJobs
    <3> QED BY <3>1, <2>5 DEF PushFails
  <2> QED BY <1>5, <2>1, <2>2, <2>3, <2>4, <2>5 DEF Push
<1>6. CASE Stop
  <2>1. CASE StopBegin BY <2>1 DEF StopBegin
  <2>2. CASE StopListener BY <2>2 DEF StopListener
  <2>3. CASE StopSnapshot BY <2>3 DEF StopSnapshot, Registered
  <2>4. CASE StopReturns BY <2>4 DEF StopReturns
  <2>5. CASE Exit BY <2>5 DEF Exit
  <2>6. ASSUME NEW c \in Conn, StopCloses(c) PROVE TypeOK'
    BY <2>6 DEF StopCloses
  <2> QED BY <1>6, <2>1, <2>2, <2>3, <2>4, <2>5, <2>6 DEF Stop
<1>7. CASE UNCHANGED vars BY <1>7
<1> QED BY <1>1, <1>2, <1>3, <1>4, <1>5, <1>6, <1>7 DEF Next

\* What is in by_acc, in a queue or in a send was handed to its handler thread.
LEMMA IncomingStep == IInv /\ [Next]_vars => IncomingPrivate'
<1> SUFFICES ASSUME IInv, [Next]_vars PROVE IncomingPrivate'
  OBVIOUS
<1> USE JobType, JobFields, ThreadKinds, HubAssumption
    DEF vars, accVars, hubVars, connVars, sendVars, closeVars,
        IInv, TypeOK, Kinds, Reply, ReadFrame, BeginClose, Known, IncomingPrivate, RegistryEntry, Online,
        Registered, Busy
<1>1. CASE AcceptThread
  <2>1. CASE AcceptLoop BY <2>1 DEF AcceptLoop
  <2>2. CASE AcceptNothing BY <2>2 DEF AcceptNothing
  <2>3. CASE RejectConn BY <2>3 DEF RejectConn
  <2>4. CASE AdmitConn BY <2>4 DEF AdmitConn
  <2>5. CASE SpawnHandler BY <2>5 DEF SpawnHandler
  <2>6. CASE SpawnFails BY <2>6 DEF SpawnFails
  <2>7. ASSUME NEW c \in Conn, NEW f \in Fd, AcceptConn(c, f) PROVE IncomingPrivate'
    BY <2>7 DEF AcceptConn
  <2> QED BY <1>1, <2>1, <2>2, <2>3, <2>4, <2>5, <2>6, <2>7 DEF AcceptThread
<1>2. ASSUME NEW t \in Thread, Close(t) PROVE IncomingPrivate'
  <2>1. CASE CloseExchange(t) BY <2>1 DEF CloseExchange
  <2>2. CASE CloseFd(t) BY <2>2 DEF CloseFd
  <2>3. CASE CloseClear(t) BY <2>3 DEF CloseClear
  <2> QED BY <1>2, <2>1, <2>2, <2>3 DEF Close
<1>3. ASSUME NEW t \in Thread, EvalSock(t) PROVE IncomingPrivate'
  <2>1. \A u \in Thread : job'[u].to = job[u].to BY <1>3 DEF EvalSock, SendJobs
  <2>2. UNCHANGED <<acceptPc, incoming, pc, closed, acc, victim, queue>> BY <1>3 DEF EvalSock
  <2>3. IncomingPrivate OBVIOUS
  <2> QED BY ONLY <2>1, <2>2, <2>3 DEF IncomingPrivate, Known
<1>4. ASSUME NEW c \in Conn, Handler(c) PROVE IncomingPrivate'
  <2>1. CASE LoopTop(c) BY <2>1 DEF LoopTop
  <2>2. CASE ReadEnds(c) BY <2>2 DEF ReadEnds
  <2>3. CASE AuthFrame(c) BY <2>3 DEF AuthFrame
  <2>4. CASE OtherFirstFrame(c) BY <2>4 DEF OtherFirstFrame
  <2>5. ASSUME NEW a \in Acc, AuthValid(c, a) PROVE IncomingPrivate'
    BY <2>5 DEF AuthValid
  <2>6. CASE AuthInvalid(c) BY <2>6 DEF AuthInvalid
  <2>7. CASE HandlerThrows(c) BY <2>7 DEF HandlerThrows
  <2>8. CASE Register(c)
    <3>1. acc[c] \in Acc BY <2>8 DEF Register
    <3>2. byAcc[acc[c]] \in Conn \cup {None} BY <3>1
    <3>3. byAcc[acc[c]] # None => Known(byAcc[acc[c]]) BY <3>1, RegisteredKnown
    <3> QED BY <3>1, <3>2, <3>3, <2>8 DEF Register
  <2>9. CASE AuthOk(c) BY <2>9 DEF AuthOk
  <2>10. CASE HandlePing(c) BY <2>10 DEF HandlePing
  <2>11. CASE HandleOther(c) BY <2>11 DEF HandleOther
  <2>12. ASSUME NEW to \in Acc, WaveOffline(c, to) PROVE IncomingPrivate'
    BY <2>12 DEF WaveOffline
  <2>13. ASSUME NEW to \in Acc, WaveForward(c, to) PROVE IncomingPrivate'
    BY <2>13, RegisteredKnown DEF WaveForward
  <2>14. ASSUME NEW s \in Conn, HandleWaveAck(c, s) PROVE IncomingPrivate'
    BY <2>14 DEF HandleWaveAck
  <2>15. CASE FinishReply(c) BY <2>15 DEF FinishReply, AfterReply, CanWrite, MayFail
  <2>16. CASE WaveSent(c) BY <2>16 DEF WaveSent, CanWrite
  <2>17. CASE WaveSentOldProtocol(c) BY <2>17 DEF WaveSentOldProtocol
  <2>18. CASE WaveSendFails(c) BY <2>18 DEF WaveSendFails, MayFail
  <2>19. CASE Unregister(c) BY <2>19 DEF Unregister
  <2>20. CASE HandlerShut(c) BY <2>20 DEF HandlerShut
  <2>21. CASE HandlerDone(c) BY <2>21 DEF HandlerDone
  <2> QED BY <1>4, <2>1, <2>2, <2>3, <2>4, <2>5, <2>6, <2>7, <2>8, <2>9, <2>10, <2>11, <2>12,
             <2>13, <2>14, <2>15, <2>16, <2>17, <2>18, <2>19, <2>20, <2>21 DEF Handler, HandlerStep, Frames
<1>5. ASSUME NEW p \in Pusher, Push(p) PROVE IncomingPrivate'
  <2>1. ASSUME NEW a \in Acc, PushToAcc(p, a) PROVE IncomingPrivate'
    BY <2>1, RegisteredKnown DEF PushToAcc
  <2>2. CASE Broadcast(p) BY <2>2, RegisteredKnown DEF Broadcast, Registered
  <2>3. ASSUME NEW c \in Conn, BroadcastNext(p, c) PROVE IncomingPrivate'
    BY <2>3 DEF BroadcastNext
  <2>4. CASE PushSent(p) BY <2>4 DEF PushSent
  <2>5. CASE PushFails(p) BY <2>5 DEF PushFails, MayFail
  <2> QED BY <1>5, <2>1, <2>2, <2>3, <2>4, <2>5 DEF Push
<1>6. CASE Stop
  <2>1. CASE StopBegin BY <2>1 DEF StopBegin
  <2>2. CASE StopListener BY <2>2 DEF StopListener
  <2>3. CASE StopSnapshot BY <2>3 DEF StopSnapshot, Registered
  <2>4. CASE StopReturns BY <2>4 DEF StopReturns
  <2>5. CASE Exit BY <2>5 DEF Exit
  <2>6. ASSUME NEW c \in Conn, StopCloses(c) PROVE IncomingPrivate'
    BY <2>6 DEF StopCloses
  <2> QED BY <1>6, <2>1, <2>2, <2>3, <2>4, <2>5, <2>6 DEF Stop
<1>7. CASE UNCHANGED vars BY <1>7
<1> QED BY <1>1, <1>2, <1>3, <1>4, <1>5, <1>6, <1>7 DEF Next

\* closed.exchange lets one thread only past it, the descriptor in hand.
LEMMA ClosersStep == IInv /\ [Next]_vars => ClosersApart'
<1> SUFFICES ASSUME IInv, [Next]_vars PROVE ClosersApart'
  OBVIOUS
<1> USE JobType, JobFields, ThreadKinds, HubAssumption
    DEF vars, accVars, hubVars, connVars, sendVars, closeVars,
        IInv, TypeOK, Kinds, Reply, ReadFrame, BeginClose, ClosersApart, IncomingPrivate, OpenConnOwnsFd,
        NotClosing, Busy, Known
<1>1. CASE AcceptThread
  <2>1. CASE AcceptLoop BY <2>1 DEF AcceptLoop
  <2>2. CASE AcceptNothing BY <2>2 DEF AcceptNothing
  <2>3. CASE RejectConn BY <2>3 DEF RejectConn
  <2>4. CASE AdmitConn BY <2>4 DEF AdmitConn
  <2>5. CASE SpawnHandler BY <2>5 DEF SpawnHandler
  <2>6. CASE SpawnFails BY <2>6 DEF SpawnFails
  <2>7. ASSUME NEW c \in Conn, NEW f \in Fd, AcceptConn(c, f) PROVE ClosersApart'
    BY <2>7 DEF AcceptConn
  <2> QED BY <1>1, <2>1, <2>2, <2>3, <2>4, <2>5, <2>6, <2>7 DEF AcceptThread
<1>2. ASSUME NEW t \in Thread, Close(t) PROVE ClosersApart'
  <2>1. CASE CloseExchange(t) BY <2>1 DEF CloseExchange
  <2>2. CASE CloseFd(t) BY <2>2 DEF CloseFd
  <2>3. CASE CloseClear(t) BY <2>3 DEF CloseClear
  <2> QED BY <1>2, <2>1, <2>2, <2>3 DEF Close
<1>3. ASSUME NEW t \in Thread, EvalSock(t) PROVE ClosersApart'
  BY <1>3 DEF EvalSock, SendJobs
<1>4. ASSUME NEW c \in Conn, Handler(c) PROVE ClosersApart'
  <2>1. CASE LoopTop(c) BY <2>1 DEF LoopTop
  <2>2. CASE ReadEnds(c) BY <2>2 DEF ReadEnds
  <2>3. CASE AuthFrame(c) BY <2>3 DEF AuthFrame
  <2>4. CASE OtherFirstFrame(c) BY <2>4 DEF OtherFirstFrame
  <2>5. ASSUME NEW a \in Acc, AuthValid(c, a) PROVE ClosersApart'
    BY <2>5 DEF AuthValid
  <2>6. CASE AuthInvalid(c) BY <2>6 DEF AuthInvalid
  <2>7. CASE HandlerThrows(c) BY <2>7 DEF HandlerThrows
  <2>8. CASE Register(c)
    <3>1. acc[c] \in Acc BY <2>8 DEF Register
    <3>2. byAcc[acc[c]] \in Conn \cup {None} BY <3>1
    <3>3. CASE byAcc[acc[c]] \in {None, c} BY <3>3, <2>8 DEF Register
    <3>4. CASE byAcc[acc[c]] \notin {None, c}
      <4>1. /\ closeStep' = [closeStep EXCEPT ![c] = "enter"]
            /\ victim' = [victim EXCEPT ![c] = byAcc[acc[c]]]
            /\ UNCHANGED <<sock, file, closed>>
        BY <3>4, <2>8 DEF Register
      <4> QED BY <3>2, <3>4, <4>1
    <3> QED BY <3>3, <3>4
  <2>9. CASE AuthOk(c) BY <2>9 DEF AuthOk
  <2>10. CASE HandlePing(c) BY <2>10 DEF HandlePing
  <2>11. CASE HandleOther(c) BY <2>11 DEF HandleOther
  <2>12. ASSUME NEW to \in Acc, WaveOffline(c, to) PROVE ClosersApart'
    BY <2>12 DEF WaveOffline
  <2>13. ASSUME NEW to \in Acc, WaveForward(c, to) PROVE ClosersApart'
    BY <2>13 DEF WaveForward
  <2>14. ASSUME NEW s \in Conn, HandleWaveAck(c, s) PROVE ClosersApart'
    BY <2>14 DEF HandleWaveAck
  <2>15. CASE FinishReply(c) BY <2>15 DEF FinishReply, AfterReply, CanWrite, MayFail
  <2>16. CASE WaveSent(c) BY <2>16 DEF WaveSent, CanWrite
  <2>17. CASE WaveSentOldProtocol(c) BY <2>17 DEF WaveSentOldProtocol
  <2>18. CASE WaveSendFails(c) BY <2>18 DEF WaveSendFails, MayFail
  <2>19. CASE Unregister(c) BY <2>19 DEF Unregister
  <2>20. CASE HandlerShut(c) BY <2>20 DEF HandlerShut
  <2>21. CASE HandlerDone(c) BY <2>21 DEF HandlerDone
  <2> QED BY <1>4, <2>1, <2>2, <2>3, <2>4, <2>5, <2>6, <2>7, <2>8, <2>9, <2>10, <2>11, <2>12,
             <2>13, <2>14, <2>15, <2>16, <2>17, <2>18, <2>19, <2>20, <2>21 DEF Handler, HandlerStep, Frames
<1>5. ASSUME NEW p \in Pusher, Push(p) PROVE ClosersApart'
  <2>1. ASSUME NEW a \in Acc, PushToAcc(p, a) PROVE ClosersApart'
    BY <2>1 DEF PushToAcc
  <2>2. CASE Broadcast(p) BY <2>2 DEF Broadcast, Registered
  <2>3. ASSUME NEW c \in Conn, BroadcastNext(p, c) PROVE ClosersApart'
    BY <2>3 DEF BroadcastNext
  <2>4. CASE PushSent(p) BY <2>4 DEF PushSent
  <2>5. CASE PushFails(p) BY <2>5 DEF PushFails, MayFail
  <2> QED BY <1>5, <2>1, <2>2, <2>3, <2>4, <2>5 DEF Push
<1>6. CASE Stop
  <2>1. CASE StopBegin BY <2>1 DEF StopBegin
  <2>2. CASE StopListener BY <2>2 DEF StopListener
  <2>3. CASE StopSnapshot BY <2>3 DEF StopSnapshot, Registered
  <2>4. CASE StopReturns BY <2>4 DEF StopReturns
  <2>5. CASE Exit BY <2>5 DEF Exit
  <2>6. ASSUME NEW c \in Conn, StopCloses(c) PROVE ClosersApart'
    BY <2>6 DEF StopCloses
  <2> QED BY <1>6, <2>1, <2>2, <2>3, <2>4, <2>5, <2>6 DEF Stop
<1>7. CASE UNCHANGED vars BY <1>7
<1> QED BY <1>1, <1>2, <1>3, <1>4, <1>5, <1>6, <1>7 DEF Next

\* A thread runs one close() at a time, at the places of the code that call it.
LEMMA BusyStep == IInv /\ [Next]_vars => Busy'
<1> SUFFICES ASSUME IInv, [Next]_vars PROVE Busy'
  OBVIOUS
<1> USE JobType, JobFields, ThreadKinds, HubAssumption
    DEF vars, accVars, hubVars, connVars, sendVars, closeVars,
        IInv, TypeOK, Kinds, Reply, ReadFrame, BeginClose, Busy, ClosersApart, RegistryEntry, NotClosing, IncomingPrivate
<1>1. CASE AcceptThread
  <2>1. CASE AcceptLoop BY <2>1 DEF AcceptLoop
  <2>2. CASE AcceptNothing BY <2>2 DEF AcceptNothing
  <2>3. CASE RejectConn BY <2>3 DEF RejectConn
  <2>4. CASE AdmitConn BY <2>4 DEF AdmitConn
  <2>5. CASE SpawnHandler BY <2>5 DEF SpawnHandler
  <2>6. CASE SpawnFails BY <2>6 DEF SpawnFails
  <2>7. ASSUME NEW c \in Conn, NEW f \in Fd, AcceptConn(c, f) PROVE Busy'
    BY <2>7 DEF AcceptConn
  <2> QED BY <1>1, <2>1, <2>2, <2>3, <2>4, <2>5, <2>6, <2>7 DEF AcceptThread
<1>2. ASSUME NEW t \in Thread, Close(t) PROVE Busy'
  <2>1. CASE CloseExchange(t) BY <2>1 DEF CloseExchange
  <2>2. CASE CloseFd(t) BY <2>2 DEF CloseFd
  <2>3. CASE CloseClear(t) BY <2>3 DEF CloseClear
  <2> QED BY <1>2, <2>1, <2>2, <2>3 DEF Close
<1>3. ASSUME NEW t \in Thread, EvalSock(t) PROVE Busy'
  BY <1>3 DEF EvalSock, SendJobs
<1>4. ASSUME NEW c \in Conn, Handler(c) PROVE Busy'
  <2>1. CASE LoopTop(c) BY <2>1 DEF LoopTop
  <2>2. CASE ReadEnds(c) BY <2>2 DEF ReadEnds
  <2>3. CASE AuthFrame(c) BY <2>3 DEF AuthFrame
  <2>4. CASE OtherFirstFrame(c) BY <2>4 DEF OtherFirstFrame
  <2>5. ASSUME NEW a \in Acc, AuthValid(c, a) PROVE Busy'
    BY <2>5 DEF AuthValid
  <2>6. CASE AuthInvalid(c) BY <2>6 DEF AuthInvalid
  <2>7. CASE HandlerThrows(c) BY <2>7 DEF HandlerThrows
  <2>8. CASE Register(c) BY <2>8 DEF Register
  <2>9. CASE AuthOk(c) BY <2>9 DEF AuthOk
  <2>10. CASE HandlePing(c) BY <2>10 DEF HandlePing
  <2>11. CASE HandleOther(c) BY <2>11 DEF HandleOther
  <2>12. ASSUME NEW to \in Acc, WaveOffline(c, to) PROVE Busy'
    BY <2>12 DEF WaveOffline
  <2>13. ASSUME NEW to \in Acc, WaveForward(c, to) PROVE Busy'
    BY <2>13 DEF WaveForward
  <2>14. ASSUME NEW s \in Conn, HandleWaveAck(c, s) PROVE Busy'
    BY <2>14 DEF HandleWaveAck
  <2>15. CASE FinishReply(c) BY <2>15 DEF FinishReply, AfterReply, CanWrite, MayFail
  <2>16. CASE WaveSent(c) BY <2>16 DEF WaveSent, CanWrite
  <2>17. CASE WaveSentOldProtocol(c) BY <2>17 DEF WaveSentOldProtocol
  <2>18. CASE WaveSendFails(c) BY <2>18 DEF WaveSendFails, MayFail
  <2>19. CASE Unregister(c) BY <2>19 DEF Unregister
  <2>20. CASE HandlerShut(c) BY <2>20 DEF HandlerShut
  <2>21. CASE HandlerDone(c) BY <2>21 DEF HandlerDone
  <2> QED BY <1>4, <2>1, <2>2, <2>3, <2>4, <2>5, <2>6, <2>7, <2>8, <2>9, <2>10, <2>11, <2>12,
             <2>13, <2>14, <2>15, <2>16, <2>17, <2>18, <2>19, <2>20, <2>21 DEF Handler, HandlerStep, Frames
<1>5. ASSUME NEW p \in Pusher, Push(p) PROVE Busy'
  <2>1. ASSUME NEW a \in Acc, PushToAcc(p, a) PROVE Busy'
    BY <2>1 DEF PushToAcc
  <2>2. CASE Broadcast(p) BY <2>2 DEF Broadcast, Registered
  <2>3. ASSUME NEW c \in Conn, BroadcastNext(p, c) PROVE Busy'
    BY <2>3 DEF BroadcastNext
  <2>4. CASE PushSent(p) BY <2>4 DEF PushSent
  <2>5. CASE PushFails(p) BY <2>5 DEF PushFails, MayFail
  <2> QED BY <1>5, <2>1, <2>2, <2>3, <2>4, <2>5 DEF Push
<1>6. CASE Stop
  <2>1. CASE StopBegin BY <2>1 DEF StopBegin
  <2>2. CASE StopListener BY <2>2 DEF StopListener
  <2>3. CASE StopSnapshot BY <2>3 DEF StopSnapshot, Registered
  <2>4. CASE StopReturns BY <2>4 DEF StopReturns
  <2>5. CASE Exit BY <2>5 DEF Exit
  <2>6. ASSUME NEW c \in Conn, StopCloses(c) PROVE Busy'
    BY <2>6 DEF StopCloses
  <2> QED BY <1>6, <2>1, <2>2, <2>3, <2>4, <2>5, <2>6 DEF Stop
<1>7. CASE UNCHANGED vars BY <1>7
<1> QED BY <1>1, <1>2, <1>3, <1>4, <1>5, <1>6, <1>7 DEF Next

\* The number of a connection that is not closed names it: two closers of one
\* connection, and the reuse of a number, are what could break it.
LEMMA FdStep == IInv /\ [Next]_vars => OpenConnOwnsFd'
<1> SUFFICES ASSUME IInv, [Next]_vars PROVE OpenConnOwnsFd'
  OBVIOUS
<1> USE JobType, JobFields, ThreadKinds, HubAssumption
    DEF vars, accVars, hubVars, connVars, sendVars, closeVars,
        IInv, TypeOK, Kinds, Reply, ReadFrame, BeginClose, OpenConnOwnsFd, IncomingPrivate, ClosersApart, Known
<1>1. CASE AcceptThread
  <2>1. CASE AcceptLoop BY <2>1 DEF AcceptLoop
  <2>2. CASE AcceptNothing BY <2>2 DEF AcceptNothing
  <2>3. CASE RejectConn BY <2>3 DEF RejectConn
  <2>4. CASE AdmitConn BY <2>4 DEF AdmitConn
  <2>5. CASE SpawnHandler BY <2>5 DEF SpawnHandler
  <2>6. CASE SpawnFails BY <2>6 DEF SpawnFails
  <2>7. ASSUME NEW c \in Conn, NEW f \in Fd, AcceptConn(c, f) PROVE OpenConnOwnsFd'
    BY <2>7 DEF AcceptConn
  <2> QED BY <1>1, <2>1, <2>2, <2>3, <2>4, <2>5, <2>6, <2>7 DEF AcceptThread
<1>2. ASSUME NEW t \in Thread, Close(t) PROVE OpenConnOwnsFd'
  <2>1. CASE CloseExchange(t) BY <2>1 DEF CloseExchange
  <2>2. CASE CloseFd(t) BY <2>2 DEF CloseFd
  <2>3. CASE CloseClear(t) BY <2>3 DEF CloseClear
  <2> QED BY <1>2, <2>1, <2>2, <2>3 DEF Close
<1>3. ASSUME NEW t \in Thread, EvalSock(t) PROVE OpenConnOwnsFd'
  BY <1>3 DEF EvalSock, SendJobs
<1>4. ASSUME NEW c \in Conn, Handler(c) PROVE OpenConnOwnsFd'
  <2>1. CASE LoopTop(c) BY <2>1 DEF LoopTop
  <2>2. CASE ReadEnds(c) BY <2>2 DEF ReadEnds
  <2>3. CASE AuthFrame(c) BY <2>3 DEF AuthFrame
  <2>4. CASE OtherFirstFrame(c) BY <2>4 DEF OtherFirstFrame
  <2>5. ASSUME NEW a \in Acc, AuthValid(c, a) PROVE OpenConnOwnsFd'
    BY <2>5 DEF AuthValid
  <2>6. CASE AuthInvalid(c) BY <2>6 DEF AuthInvalid
  <2>7. CASE HandlerThrows(c) BY <2>7 DEF HandlerThrows
  <2>8. CASE Register(c) BY <2>8 DEF Register
  <2>9. CASE AuthOk(c) BY <2>9 DEF AuthOk
  <2>10. CASE HandlePing(c) BY <2>10 DEF HandlePing
  <2>11. CASE HandleOther(c) BY <2>11 DEF HandleOther
  <2>12. ASSUME NEW to \in Acc, WaveOffline(c, to) PROVE OpenConnOwnsFd'
    BY <2>12 DEF WaveOffline
  <2>13. ASSUME NEW to \in Acc, WaveForward(c, to) PROVE OpenConnOwnsFd'
    BY <2>13 DEF WaveForward
  <2>14. ASSUME NEW s \in Conn, HandleWaveAck(c, s) PROVE OpenConnOwnsFd'
    BY <2>14 DEF HandleWaveAck
  <2>15. CASE FinishReply(c) BY <2>15 DEF FinishReply, AfterReply, CanWrite, MayFail
  <2>16. CASE WaveSent(c) BY <2>16 DEF WaveSent, CanWrite
  <2>17. CASE WaveSentOldProtocol(c) BY <2>17 DEF WaveSentOldProtocol
  <2>18. CASE WaveSendFails(c) BY <2>18 DEF WaveSendFails, MayFail
  <2>19. CASE Unregister(c) BY <2>19 DEF Unregister
  <2>20. CASE HandlerShut(c) BY <2>20 DEF HandlerShut
  <2>21. CASE HandlerDone(c) BY <2>21 DEF HandlerDone
  <2> QED BY <1>4, <2>1, <2>2, <2>3, <2>4, <2>5, <2>6, <2>7, <2>8, <2>9, <2>10, <2>11, <2>12,
             <2>13, <2>14, <2>15, <2>16, <2>17, <2>18, <2>19, <2>20, <2>21 DEF Handler, HandlerStep, Frames
<1>5. ASSUME NEW p \in Pusher, Push(p) PROVE OpenConnOwnsFd'
  <2>1. ASSUME NEW a \in Acc, PushToAcc(p, a) PROVE OpenConnOwnsFd'
    BY <2>1 DEF PushToAcc
  <2>2. CASE Broadcast(p) BY <2>2 DEF Broadcast, Registered
  <2>3. ASSUME NEW c \in Conn, BroadcastNext(p, c) PROVE OpenConnOwnsFd'
    BY <2>3 DEF BroadcastNext
  <2>4. CASE PushSent(p) BY <2>4 DEF PushSent
  <2>5. CASE PushFails(p) BY <2>5 DEF PushFails, MayFail
  <2> QED BY <1>5, <2>1, <2>2, <2>3, <2>4, <2>5 DEF Push
<1>6. CASE Stop
  <2>1. CASE StopBegin BY <2>1 DEF StopBegin
  <2>2. CASE StopListener BY <2>2 DEF StopListener
  <2>3. CASE StopSnapshot BY <2>3 DEF StopSnapshot, Registered
  <2>4. CASE StopReturns BY <2>4 DEF StopReturns
  <2>5. CASE Exit BY <2>5 DEF Exit
  <2>6. ASSUME NEW c \in Conn, StopCloses(c) PROVE OpenConnOwnsFd'
    BY <2>6 DEF StopCloses
  <2> QED BY <1>6, <2>1, <2>2, <2>3, <2>4, <2>5, <2>6 DEF Stop
<1>7. CASE UNCHANGED vars BY <1>7
<1> QED BY <1>1, <1>2, <1>3, <1>4, <1>5, <1>6, <1>7 DEF Next

\* What EvalSock read stays right until the target is closed.
LEMMA TargetStep == IInv /\ [Next]_vars => OpenTargetGetsFrame'
<1> SUFFICES ASSUME IInv, [Next]_vars PROVE OpenTargetGetsFrame'
  OBVIOUS
<1> USE JobType, JobFields, ThreadKinds, HubAssumption
    DEF vars, accVars, hubVars, connVars, sendVars, closeVars,
        IInv, TypeOK, Kinds, Reply, ReadFrame, BeginClose, OpenConnOwnsFd, OpenTargetGetsFrame, Known,
        IncomingPrivate, ClosersApart, Busy
<1>1. CASE AcceptThread
  <2>1. CASE AcceptLoop BY <2>1 DEF AcceptLoop
  <2>2. CASE AcceptNothing BY <2>2 DEF AcceptNothing
  <2>3. CASE RejectConn BY <2>3 DEF RejectConn
  <2>4. CASE AdmitConn BY <2>4 DEF AdmitConn
  <2>5. CASE SpawnHandler BY <2>5 DEF SpawnHandler
  <2>6. CASE SpawnFails BY <2>6 DEF SpawnFails
  <2>7. ASSUME NEW c \in Conn, NEW f \in Fd, AcceptConn(c, f) PROVE OpenTargetGetsFrame'
    BY <2>7 DEF AcceptConn
  <2> QED BY <1>1, <2>1, <2>2, <2>3, <2>4, <2>5, <2>6, <2>7 DEF AcceptThread
<1>2. ASSUME NEW t \in Thread, Close(t) PROVE OpenTargetGetsFrame'
  <2>1. CASE CloseExchange(t) BY <2>1 DEF CloseExchange
  <2>2. CASE CloseFd(t) BY <2>2 DEF CloseFd
  <2>3. CASE CloseClear(t) BY <2>3 DEF CloseClear
  <2> QED BY <1>2, <2>1, <2>2, <2>3 DEF Close
<1>3. ASSUME NEW t \in Thread, EvalSock(t) PROVE OpenTargetGetsFrame'
  BY <1>3 DEF EvalSock, SendJobs
<1>4. ASSUME NEW c \in Conn, Handler(c) PROVE OpenTargetGetsFrame'
  <2>1. CASE LoopTop(c) BY <2>1 DEF LoopTop
  <2>2. CASE ReadEnds(c) BY <2>2 DEF ReadEnds
  <2>3. CASE AuthFrame(c) BY <2>3 DEF AuthFrame
  <2>4. CASE OtherFirstFrame(c) BY <2>4 DEF OtherFirstFrame
  <2>5. ASSUME NEW a \in Acc, AuthValid(c, a) PROVE OpenTargetGetsFrame'
    BY <2>5 DEF AuthValid
  <2>6. CASE AuthInvalid(c) BY <2>6 DEF AuthInvalid
  <2>7. CASE HandlerThrows(c) BY <2>7 DEF HandlerThrows
  <2>8. CASE Register(c) BY <2>8 DEF Register
  <2>9. CASE AuthOk(c) BY <2>9 DEF AuthOk
  <2>10. CASE HandlePing(c) BY <2>10 DEF HandlePing
  <2>11. CASE HandleOther(c) BY <2>11 DEF HandleOther
  <2>12. ASSUME NEW to \in Acc, WaveOffline(c, to) PROVE OpenTargetGetsFrame'
    BY <2>12 DEF WaveOffline
  <2>13. ASSUME NEW to \in Acc, WaveForward(c, to) PROVE OpenTargetGetsFrame'
    BY <2>13 DEF WaveForward
  <2>14. ASSUME NEW s \in Conn, HandleWaveAck(c, s) PROVE OpenTargetGetsFrame'
    BY <2>14 DEF HandleWaveAck
  <2>15. CASE FinishReply(c) BY <2>15 DEF FinishReply, AfterReply, CanWrite, MayFail
  <2>16. CASE WaveSent(c) BY <2>16 DEF WaveSent, CanWrite
  <2>17. CASE WaveSentOldProtocol(c) BY <2>17 DEF WaveSentOldProtocol
  <2>18. CASE WaveSendFails(c) BY <2>18 DEF WaveSendFails, MayFail
  <2>19. CASE Unregister(c) BY <2>19 DEF Unregister
  <2>20. CASE HandlerShut(c) BY <2>20 DEF HandlerShut
  <2>21. CASE HandlerDone(c) BY <2>21 DEF HandlerDone
  <2> QED BY <1>4, <2>1, <2>2, <2>3, <2>4, <2>5, <2>6, <2>7, <2>8, <2>9, <2>10, <2>11, <2>12,
             <2>13, <2>14, <2>15, <2>16, <2>17, <2>18, <2>19, <2>20, <2>21 DEF Handler, HandlerStep, Frames
<1>5. ASSUME NEW p \in Pusher, Push(p) PROVE OpenTargetGetsFrame'
  <2>1. ASSUME NEW a \in Acc, PushToAcc(p, a) PROVE OpenTargetGetsFrame'
    BY <2>1 DEF PushToAcc
  <2>2. CASE Broadcast(p) BY <2>2 DEF Broadcast, Registered
  <2>3. ASSUME NEW c \in Conn, BroadcastNext(p, c) PROVE OpenTargetGetsFrame'
    BY <2>3 DEF BroadcastNext
  <2>4. CASE PushSent(p) BY <2>4 DEF PushSent
  <2>5. CASE PushFails(p) BY <2>5 DEF PushFails, MayFail
  <2> QED BY <1>5, <2>1, <2>2, <2>3, <2>4, <2>5 DEF Push
<1>6. CASE Stop
  <2>1. CASE StopBegin BY <2>1 DEF StopBegin
  <2>2. CASE StopListener BY <2>2 DEF StopListener
  <2>3. CASE StopSnapshot BY <2>3 DEF StopSnapshot, Registered
  <2>4. CASE StopReturns BY <2>4 DEF StopReturns
  <2>5. CASE Exit BY <2>5 DEF Exit
  <2>6. ASSUME NEW c \in Conn, StopCloses(c) PROVE OpenTargetGetsFrame'
    BY <2>6 DEF StopCloses
  <2> QED BY <1>6, <2>1, <2>2, <2>3, <2>4, <2>5, <2>6 DEF Stop
<1>7. CASE UNCHANGED vars BY <1>7
<1> QED BY <1>1, <1>2, <1>3, <1>4, <1>5, <1>6, <1>7 DEF Next

\* by_acc lists only connections that have still to unregister: Register and
\* Unregister are the steps that matter.
LEMMA RegistryStep == IInv /\ [Next]_vars => RegistryEntry'
<1> SUFFICES ASSUME IInv, [Next]_vars PROVE RegistryEntry'
  OBVIOUS
<1> USE JobType, JobFields, ThreadKinds, HubAssumption
    DEF vars, accVars, hubVars, connVars, sendVars, closeVars,
        IInv, TypeOK, Kinds, Reply, ReadFrame, BeginClose, RegistryEntry, Online, Known, IncomingPrivate
<1>1. CASE AcceptThread
  <2>1. CASE AcceptLoop BY <2>1 DEF AcceptLoop
  <2>2. CASE AcceptNothing BY <2>2 DEF AcceptNothing
  <2>3. CASE RejectConn BY <2>3 DEF RejectConn
  <2>4. CASE AdmitConn BY <2>4 DEF AdmitConn
  <2>5. CASE SpawnHandler BY <2>5 DEF SpawnHandler
  <2>6. CASE SpawnFails BY <2>6 DEF SpawnFails
  <2>7. ASSUME NEW c \in Conn, NEW f \in Fd, AcceptConn(c, f) PROVE RegistryEntry'
    BY <2>7 DEF AcceptConn
  <2> QED BY <1>1, <2>1, <2>2, <2>3, <2>4, <2>5, <2>6, <2>7 DEF AcceptThread
<1>2. ASSUME NEW t \in Thread, Close(t) PROVE RegistryEntry'
  <2>1. CASE CloseExchange(t) BY <2>1 DEF CloseExchange
  <2>2. CASE CloseFd(t) BY <2>2 DEF CloseFd
  <2>3. CASE CloseClear(t) BY <2>3 DEF CloseClear
  <2> QED BY <1>2, <2>1, <2>2, <2>3 DEF Close
<1>3. ASSUME NEW t \in Thread, EvalSock(t) PROVE RegistryEntry'
  BY <1>3 DEF EvalSock, SendJobs
<1>4. ASSUME NEW c \in Conn, Handler(c) PROVE RegistryEntry'
  <2>1. CASE LoopTop(c) BY <2>1 DEF LoopTop
  <2>2. CASE ReadEnds(c) BY <2>2 DEF ReadEnds
  <2>3. CASE AuthFrame(c) BY <2>3 DEF AuthFrame
  <2>4. CASE OtherFirstFrame(c) BY <2>4 DEF OtherFirstFrame
  <2>5. ASSUME NEW a \in Acc, AuthValid(c, a) PROVE RegistryEntry'
    BY <2>5 DEF AuthValid
  <2>6. CASE AuthInvalid(c) BY <2>6 DEF AuthInvalid
  <2>7. CASE HandlerThrows(c) BY <2>7 DEF HandlerThrows
  <2>8. CASE Register(c) BY <2>8 DEF Register
  <2>9. CASE AuthOk(c) BY <2>9 DEF AuthOk
  <2>10. CASE HandlePing(c) BY <2>10 DEF HandlePing
  <2>11. CASE HandleOther(c) BY <2>11 DEF HandleOther
  <2>12. ASSUME NEW to \in Acc, WaveOffline(c, to) PROVE RegistryEntry'
    BY <2>12 DEF WaveOffline
  <2>13. ASSUME NEW to \in Acc, WaveForward(c, to) PROVE RegistryEntry'
    BY <2>13 DEF WaveForward
  <2>14. ASSUME NEW s \in Conn, HandleWaveAck(c, s) PROVE RegistryEntry'
    BY <2>14 DEF HandleWaveAck
  <2>15. CASE FinishReply(c) BY <2>15 DEF FinishReply, AfterReply, CanWrite, MayFail
  <2>16. CASE WaveSent(c) BY <2>16 DEF WaveSent, CanWrite
  <2>17. CASE WaveSentOldProtocol(c) BY <2>17 DEF WaveSentOldProtocol
  <2>18. CASE WaveSendFails(c) BY <2>18 DEF WaveSendFails, MayFail
  <2>19. CASE Unregister(c) BY <2>19 DEF Unregister
  <2>20. CASE HandlerShut(c) BY <2>20 DEF HandlerShut
  <2>21. CASE HandlerDone(c) BY <2>21 DEF HandlerDone
  <2> QED BY <1>4, <2>1, <2>2, <2>3, <2>4, <2>5, <2>6, <2>7, <2>8, <2>9, <2>10, <2>11, <2>12,
             <2>13, <2>14, <2>15, <2>16, <2>17, <2>18, <2>19, <2>20, <2>21 DEF Handler, HandlerStep, Frames
<1>5. ASSUME NEW p \in Pusher, Push(p) PROVE RegistryEntry'
  <2>1. ASSUME NEW a \in Acc, PushToAcc(p, a) PROVE RegistryEntry'
    BY <2>1 DEF PushToAcc
  <2>2. CASE Broadcast(p) BY <2>2 DEF Broadcast, Registered
  <2>3. ASSUME NEW c \in Conn, BroadcastNext(p, c) PROVE RegistryEntry'
    BY <2>3 DEF BroadcastNext
  <2>4. CASE PushSent(p) BY <2>4 DEF PushSent
  <2>5. CASE PushFails(p) BY <2>5 DEF PushFails, MayFail
  <2> QED BY <1>5, <2>1, <2>2, <2>3, <2>4, <2>5 DEF Push
<1>6. CASE Stop
  <2>1. CASE StopBegin BY <2>1 DEF StopBegin
  <2>2. CASE StopListener BY <2>2 DEF StopListener
  <2>3. CASE StopSnapshot BY <2>3 DEF StopSnapshot, Registered
  <2>4. CASE StopReturns BY <2>4 DEF StopReturns
  <2>5. CASE Exit BY <2>5 DEF Exit
  <2>6. ASSUME NEW c \in Conn, StopCloses(c) PROVE RegistryEntry'
    BY <2>6 DEF StopCloses
  <2> QED BY <1>6, <2>1, <2>2, <2>3, <2>4, <2>5, <2>6 DEF Stop
<1>7. CASE UNCHANGED vars BY <1>7
<1> QED BY <1>1, <1>2, <1>3, <1>4, <1>5, <1>6, <1>7 DEF Next

\* A connection that loses its place in by_acc has somebody about to close it.
LEMMA OneConnStep == IInv /\ [Next]_vars => OneConnPerAccount'
<1> SUFFICES ASSUME IInv, [Next]_vars PROVE OneConnPerAccount'
  OBVIOUS
<1> USE JobType, JobFields, ThreadKinds, HubAssumption
    DEF vars, accVars, hubVars, connVars, sendVars, closeVars,
        IInv, TypeOK, Kinds, Reply, ReadFrame, BeginClose, OneConnPerAccount, Superseded, ClosersApart,
        Busy, Online, NotClosing, IncomingPrivate, Known
<1>1. CASE AcceptThread
  <2>1. CASE AcceptLoop BY <2>1 DEF AcceptLoop
  <2>2. CASE AcceptNothing BY <2>2 DEF AcceptNothing
  <2>3. CASE RejectConn BY <2>3 DEF RejectConn
  <2>4. CASE AdmitConn BY <2>4 DEF AdmitConn
  <2>5. CASE SpawnHandler BY <2>5 DEF SpawnHandler
  <2>6. CASE SpawnFails BY <2>6 DEF SpawnFails
  <2>7. ASSUME NEW c \in Conn, NEW f \in Fd, AcceptConn(c, f) PROVE OneConnPerAccount'
    BY <2>7 DEF AcceptConn
  <2> QED BY <1>1, <2>1, <2>2, <2>3, <2>4, <2>5, <2>6, <2>7 DEF AcceptThread
<1>2. ASSUME NEW t \in Thread, Close(t) PROVE OneConnPerAccount'
  <2>1. CASE CloseExchange(t) BY <2>1 DEF CloseExchange
  <2>2. CASE CloseFd(t) BY <2>2 DEF CloseFd
  <2>3. CASE CloseClear(t) BY <2>3 DEF CloseClear
  <2> QED BY <1>2, <2>1, <2>2, <2>3 DEF Close
<1>3. ASSUME NEW t \in Thread, EvalSock(t) PROVE OneConnPerAccount'
  BY <1>3 DEF EvalSock, SendJobs
<1>4. ASSUME NEW c \in Conn, Handler(c) PROVE OneConnPerAccount'
  <2>1. CASE LoopTop(c) BY <2>1 DEF LoopTop
  <2>2. CASE ReadEnds(c) BY <2>2 DEF ReadEnds
  <2>3. CASE AuthFrame(c) BY <2>3 DEF AuthFrame
  <2>4. CASE OtherFirstFrame(c) BY <2>4 DEF OtherFirstFrame
  <2>5. ASSUME NEW a \in Acc, AuthValid(c, a) PROVE OneConnPerAccount'
    BY <2>5 DEF AuthValid
  <2>6. CASE AuthInvalid(c) BY <2>6 DEF AuthInvalid
  <2>7. CASE HandlerThrows(c) BY <2>7 DEF HandlerThrows
  <2>8. CASE Register(c)
    <3>1. acc[c] \in Acc BY <2>8 DEF Register
    <3>2. byAcc[acc[c]] \in Conn \cup {None} BY <3>1
    <3>3. closeStep[c] = "idle" /\ victim[c] = None BY <2>8 DEF Register
    <3> QED BY <3>1, <3>2, <3>3, <2>8 DEF Register
  <2>9. CASE AuthOk(c) BY <2>9 DEF AuthOk
  <2>10. CASE HandlePing(c) BY <2>10 DEF HandlePing
  <2>11. CASE HandleOther(c) BY <2>11 DEF HandleOther
  <2>12. ASSUME NEW to \in Acc, WaveOffline(c, to) PROVE OneConnPerAccount'
    BY <2>12 DEF WaveOffline
  <2>13. ASSUME NEW to \in Acc, WaveForward(c, to) PROVE OneConnPerAccount'
    BY <2>13 DEF WaveForward
  <2>14. ASSUME NEW s \in Conn, HandleWaveAck(c, s) PROVE OneConnPerAccount'
    BY <2>14 DEF HandleWaveAck
  <2>15. CASE FinishReply(c) BY <2>15 DEF FinishReply, AfterReply, CanWrite, MayFail
  <2>16. CASE WaveSent(c) BY <2>16 DEF WaveSent, CanWrite
  <2>17. CASE WaveSentOldProtocol(c) BY <2>17 DEF WaveSentOldProtocol
  <2>18. CASE WaveSendFails(c) BY <2>18 DEF WaveSendFails, MayFail
  <2>19. CASE Unregister(c) BY <2>19 DEF Unregister
  <2>20. CASE HandlerShut(c) BY <2>20 DEF HandlerShut
  <2>21. CASE HandlerDone(c) BY <2>21 DEF HandlerDone
  <2> QED BY <1>4, <2>1, <2>2, <2>3, <2>4, <2>5, <2>6, <2>7, <2>8, <2>9, <2>10, <2>11, <2>12,
             <2>13, <2>14, <2>15, <2>16, <2>17, <2>18, <2>19, <2>20, <2>21 DEF Handler, HandlerStep, Frames
<1>5. ASSUME NEW p \in Pusher, Push(p) PROVE OneConnPerAccount'
  <2>1. ASSUME NEW a \in Acc, PushToAcc(p, a) PROVE OneConnPerAccount'
    BY <2>1 DEF PushToAcc
  <2>2. CASE Broadcast(p) BY <2>2 DEF Broadcast, Registered
  <2>3. ASSUME NEW c \in Conn, BroadcastNext(p, c) PROVE OneConnPerAccount'
    BY <2>3 DEF BroadcastNext
  <2>4. CASE PushSent(p) BY <2>4 DEF PushSent
  <2>5. CASE PushFails(p) BY <2>5 DEF PushFails, MayFail
  <2> QED BY <1>5, <2>1, <2>2, <2>3, <2>4, <2>5 DEF Push
<1>6. CASE Stop
  <2>1. CASE StopBegin BY <2>1 DEF StopBegin
  <2>2. CASE StopListener BY <2>2 DEF StopListener
  <2>3. CASE StopSnapshot BY <2>3 DEF StopSnapshot, Registered
  <2>4. CASE StopReturns BY <2>4 DEF StopReturns
  <2>5. CASE Exit BY <2>5 DEF Exit
  <2>6. ASSUME NEW c \in Conn, StopCloses(c) PROVE OneConnPerAccount'
    
    <3> SUFFICES ASSUME NEW d \in Conn, Superseded(d)'
                 PROVE  \E t \in Thread : victim'[t] = d \/ (t = Stopper /\ d \in queue'[t])
      OBVIOUS
    <3>1. victim[Stopper] = None /\ Superseded(d) BY <2>6 DEF StopCloses
    <3>2. PICK t \in Thread : victim[t] = d \/ (t = Stopper /\ d \in queue[t]) BY <3>1
    <3>3. CASE d = c BY <3>3, <2>6 DEF StopCloses
    <3>4. CASE d # c /\ t = Stopper BY <3>1, <3>2, <3>4, <2>6 DEF StopCloses
    <3>5. CASE d # c /\ t # Stopper BY <3>2, <3>5, <2>6 DEF StopCloses
    <3> QED BY <3>3, <3>4, <3>5
  <2> QED BY <1>6, <2>1, <2>2, <2>3, <2>4, <2>5, <2>6 DEF Stop
<1>7. CASE UNCHANGED vars BY <1>7
<1> QED BY <1>1, <1>2, <1>3, <1>4, <1>5, <1>6, <1>7 DEF Next

\* active is raised before the thread starts and lowered once on every way out.
LEMMA CountStep == IInv /\ [Next]_vars => CounterExact' /\ active' \in Nat /\ active' <= MaxConns
<1> SUFFICES ASSUME IInv, [Next]_vars PROVE CounterExact' /\ active' \in Nat /\ active' <= MaxConns
  OBVIOUS
<1> USE HubAssumption
    DEF vars, accVars, hubVars, connVars, sendVars, closeVars,
        IInv, TypeOK, IncomingPrivate, Kinds, Reply, ReadFrame, BeginClose
<1> DEFINE Kept == /\ Handlers' = Handlers /\ active' = active
                   /\ (acceptPc' = "spawn") <=> (acceptPc = "spawn")
            Goal == CounterExact' /\ active' \in Nat /\ active' <= MaxConns
<1>a. IsFiniteSet(Handlers) /\ Cardinality(Handlers) \in Nat
  BY FS_Subset, FS_CardinalityType DEF Handlers
<1>b. /\ active = Cardinality(Handlers) + (IF acceptPc = "spawn" THEN 1 ELSE 0)
      /\ active <= MaxConns /\ active \in Nat /\ MaxConns \in Nat
  BY DEF CounterExact
<1>k. Kept => Goal
  BY <1>a, <1>b DEF CounterExact
<1>1. CASE AcceptThread
  <2>1. CASE AcceptLoop
    <3>1. Kept BY <2>1 DEF AcceptLoop, Handlers, Counted
    <3> QED BY <3>1, <1>k
  <2>2. CASE AcceptNothing
    <3>1. Kept BY <2>2 DEF AcceptNothing, Handlers, Counted
    <3> QED BY <3>1, <1>k
  <2>3. CASE RejectConn
    <3>1. Kept BY <2>3 DEF RejectConn, Handlers, Counted
    <3> QED BY <3>1, <1>k
  <2>4. CASE AdmitConn
    <3>1. Handlers' = Handlers BY <2>4 DEF AdmitConn, Handlers
    <3> QED BY <3>1, <1>a, <1>b, <2>4 DEF AdmitConn, CounterExact
  <2>5. CASE SpawnHandler
    <3>1. Handlers' = Handlers \cup {incoming} /\ incoming \notin Handlers /\ incoming \in Conn
      BY <2>5 DEF SpawnHandler, Handlers, Counted
    <3>2. Cardinality(Handlers') = Cardinality(Handlers) + 1
      BY <3>1, <1>a, FS_AddElement
    <3> QED BY <3>2, <1>a, <1>b, <2>5 DEF SpawnHandler, CounterExact
  <2>6. CASE SpawnFails
    <3>1. Handlers' = Handlers BY <2>6 DEF SpawnFails, Handlers, Counted
    <3> QED BY <3>1, <1>a, <1>b, <2>6 DEF SpawnFails, CounterExact
  <2>7. ASSUME NEW c \in Conn, NEW f \in Fd, AcceptConn(c, f) PROVE Goal
    
    <3>1. Kept BY <2>7 DEF AcceptConn, Handlers, Counted
    <3> QED BY <3>1, <1>k
  <2> QED BY <1>1, <2>1, <2>2, <2>3, <2>4, <2>5, <2>6, <2>7 DEF AcceptThread
<1>2. ASSUME NEW t \in Thread, Close(t) PROVE Goal
  <2>1. CASE CloseExchange(t)
    <3>1. Kept BY <2>1 DEF CloseExchange, Handlers, Counted
    <3> QED BY <3>1, <1>k
  <2>2. CASE CloseFd(t)
    <3>1. Kept BY <2>2 DEF CloseFd, Handlers, Counted
    <3> QED BY <3>1, <1>k
  <2>3. CASE CloseClear(t)
    <3>1. Kept BY <2>3 DEF CloseClear, Handlers, Counted
    <3> QED BY <3>1, <1>k
  <2> QED BY <1>2, <2>1, <2>2, <2>3 DEF Close
<1>3. ASSUME NEW t \in Thread, EvalSock(t) PROVE Goal
  BY <1>3, <1>k DEF EvalSock, Handlers
<1>4. ASSUME NEW c \in Conn, Handler(c) PROVE Goal
  <2>1. CASE LoopTop(c)
    <3>1. Kept BY <2>1 DEF LoopTop, Handlers, Counted
    <3> QED BY <3>1, <1>k
  <2>2. CASE ReadEnds(c)
    <3>1. Kept BY <2>2 DEF ReadEnds, Handlers, Counted
    <3> QED BY <3>1, <1>k
  <2>3. CASE AuthFrame(c)
    <3>1. Kept BY <2>3 DEF AuthFrame, Handlers, Counted
    <3> QED BY <3>1, <1>k
  <2>4. CASE OtherFirstFrame(c)
    <3>1. Kept BY <2>4 DEF OtherFirstFrame, Handlers, Counted
    <3> QED BY <3>1, <1>k
  <2>5. ASSUME NEW a \in Acc, AuthValid(c, a) PROVE Goal
    
    <3>1. Kept BY <2>5 DEF AuthValid, Handlers, Counted
    <3> QED BY <3>1, <1>k
  <2>6. CASE AuthInvalid(c)
    <3>1. Kept BY <2>6 DEF AuthInvalid, Handlers, Counted
    <3> QED BY <3>1, <1>k
  <2>7. CASE HandlerThrows(c)
    <3>1. Kept BY <2>7 DEF HandlerThrows, Handlers, Counted
    <3> QED BY <3>1, <1>k
  <2>8. CASE Register(c)
    <3>1. Kept BY <2>8 DEF Register, Handlers, Counted
    <3> QED BY <3>1, <1>k
  <2>9. CASE AuthOk(c)
    <3>1. Kept BY <2>9 DEF AuthOk, Handlers, Counted
    <3> QED BY <3>1, <1>k
  <2>10. CASE HandlePing(c)
    <3>1. Kept BY <2>10 DEF HandlePing, Handlers, Counted
    <3> QED BY <3>1, <1>k
  <2>11. CASE HandleOther(c)
    <3>1. Kept BY <2>11 DEF HandleOther, Handlers, Counted
    <3> QED BY <3>1, <1>k
  <2>12. ASSUME NEW to \in Acc, WaveOffline(c, to) PROVE Goal
    
    <3>1. Kept BY <2>12 DEF WaveOffline, Handlers, Counted
    <3> QED BY <3>1, <1>k
  <2>13. ASSUME NEW to \in Acc, WaveForward(c, to) PROVE Goal
    
    <3>1. Kept BY <2>13 DEF WaveForward, Handlers, Counted
    <3> QED BY <3>1, <1>k
  <2>14. ASSUME NEW s \in Conn, HandleWaveAck(c, s) PROVE Goal
    
    <3>1. Kept BY <2>14 DEF HandleWaveAck, Handlers, Counted
    <3> QED BY <3>1, <1>k
  <2>15. CASE FinishReply(c)
    <3>1. Kept BY <2>15 DEF FinishReply, AfterReply, Handlers, Counted
    <3> QED BY <3>1, <1>k
  <2>16. CASE WaveSent(c)
    <3>1. Kept BY <2>16 DEF WaveSent, Handlers, Counted
    <3> QED BY <3>1, <1>k
  <2>17. CASE WaveSentOldProtocol(c)
    <3>1. Kept BY <2>17 DEF WaveSentOldProtocol, Handlers, Counted
    <3> QED BY <3>1, <1>k
  <2>18. CASE WaveSendFails(c)
    <3>1. Kept BY <2>18 DEF WaveSendFails, Handlers, Counted
    <3> QED BY <3>1, <1>k
  <2>19. CASE Unregister(c)
    <3>1. Kept BY <2>19 DEF Unregister, Handlers, Counted
    <3> QED BY <3>1, <1>k
  <2>20. CASE HandlerShut(c)
    <3>1. Kept BY <2>20 DEF HandlerShut, Handlers, Counted
    <3> QED BY <3>1, <1>k
  <2>21. CASE HandlerDone(c)
    <3>1. Handlers' = Handlers \ {c} /\ c \in Handlers
      BY <2>21 DEF HandlerDone, Handlers, Counted
    <3>2. Cardinality(Handlers') = Cardinality(Handlers) - 1
      BY <3>1, <1>a, FS_RemoveElement
    <3>3. Cardinality(Handlers) # 0
      BY <3>1, <1>a, FS_EmptySet
    <3>4. acceptPc' = acceptPc /\ active' = active - 1
      BY <2>21 DEF HandlerDone
    <3> QED BY <3>2, <3>3, <3>4, <1>a, <1>b DEF CounterExact
  <2> QED BY <1>4, <2>1, <2>2, <2>3, <2>4, <2>5, <2>6, <2>7, <2>8, <2>9, <2>10, <2>11, <2>12,
             <2>13, <2>14, <2>15, <2>16, <2>17, <2>18, <2>19, <2>20, <2>21 DEF Handler, HandlerStep, Frames
<1>5. ASSUME NEW p \in Pusher, Push(p) PROVE Goal
  <2>1. ASSUME NEW a \in Acc, PushToAcc(p, a) PROVE Goal
    
    <3>1. Kept BY <2>1 DEF PushToAcc, Handlers, Counted
    <3> QED BY <3>1, <1>k
  <2>2. CASE Broadcast(p)
    <3>1. Kept BY <2>2 DEF Broadcast, Handlers, Counted
    <3> QED BY <3>1, <1>k
  <2>3. ASSUME NEW c \in Conn, BroadcastNext(p, c) PROVE Goal
    
    <3>1. Kept BY <2>3 DEF BroadcastNext, Handlers, Counted
    <3> QED BY <3>1, <1>k
  <2>4. CASE PushSent(p)
    <3>1. Kept BY <2>4 DEF PushSent, Handlers, Counted
    <3> QED BY <3>1, <1>k
  <2>5. CASE PushFails(p)
    <3>1. Kept BY <2>5 DEF PushFails, Handlers, Counted
    <3> QED BY <3>1, <1>k
  <2> QED BY <1>5, <2>1, <2>2, <2>3, <2>4, <2>5 DEF Push
<1>6. CASE Stop
  <2>1. CASE StopBegin
    <3>1. Kept BY <2>1 DEF StopBegin, Handlers, Counted
    <3> QED BY <3>1, <1>k
  <2>2. CASE StopListener
    <3>1. Kept BY <2>2 DEF StopListener, Handlers, Counted
    <3> QED BY <3>1, <1>k
  <2>3. CASE StopSnapshot
    <3>1. Kept BY <2>3 DEF StopSnapshot, Handlers, Counted
    <3> QED BY <3>1, <1>k
  <2>4. CASE StopReturns
    <3>1. Kept BY <2>4 DEF StopReturns, Handlers, Counted
    <3> QED BY <3>1, <1>k
  <2>5. CASE Exit
    <3>1. Kept BY <2>5 DEF Exit, Handlers, Counted
    <3> QED BY <3>1, <1>k
  <2>6. ASSUME NEW c \in Conn, StopCloses(c) PROVE Goal
    
    <3>1. Kept BY <2>6 DEF StopCloses, Handlers, Counted
    <3> QED BY <3>1, <1>k
  <2> QED BY <1>6, <2>1, <2>2, <2>3, <2>4, <2>5, <2>6 DEF Stop
<1>7. CASE UNCHANGED vars BY <1>7, <1>k DEF Handlers
<1> QED BY <1>1, <1>2, <1>3, <1>4, <1>5, <1>6, <1>7 DEF Next

\* Every used descriptor is its connection's, or a closer is about to free it.
LEMMA HeldStep == IInv /\ FdsHeld /\ [Next]_vars => FdsHeld'
<1> SUFFICES ASSUME IInv, FdsHeld, [Next]_vars PROVE FdsHeld'
  OBVIOUS
<1> USE JobType, JobFields, ThreadKinds, HubAssumption
    DEF vars, accVars, hubVars, connVars, sendVars, closeVars,
        IInv, TypeOK, Kinds, Reply, ReadFrame, BeginClose, FdsHeld, Known, IncomingPrivate, ClosersApart,
        OpenConnOwnsFd, RegistryEntry, NotClosing, Busy, Online
<1>1. CASE AcceptThread
  <2>1. CASE AcceptLoop BY <2>1 DEF AcceptLoop
  <2>2. CASE AcceptNothing BY <2>2 DEF AcceptNothing
  <2>3. CASE RejectConn BY <2>3 DEF RejectConn
  <2>4. CASE AdmitConn BY <2>4 DEF AdmitConn
  <2>5. CASE SpawnHandler BY <2>5 DEF SpawnHandler
  <2>6. CASE SpawnFails BY <2>6 DEF SpawnFails
  <2>7. ASSUME NEW c \in Conn, NEW f \in Fd, AcceptConn(c, f) PROVE FdsHeld'
    BY <2>7 DEF AcceptConn
  <2> QED BY <1>1, <2>1, <2>2, <2>3, <2>4, <2>5, <2>6, <2>7 DEF AcceptThread
<1>2. ASSUME NEW t \in Thread, Close(t) PROVE FdsHeld'
  <2>1. CASE CloseExchange(t) BY <2>1 DEF CloseExchange
  <2>2. CASE CloseFd(t)
    <3> DEFINE v == victim[t]
    <3>1. v \in Conn /\ sock[v] \in Fd /\ file[sock[v]] = v BY <2>2 DEF CloseFd
    <3>2. ASSUME NEW f \in Fd, file'[f] # None
          PROVE  /\ sock'[file'[f]] = f /\ pc'[file'[f]] # "none"
                 /\ closed'[file'[f]] => \E u \in Thread : closeStep'[u] = "fd" /\ victim'[u] = file'[f]
      <4>1. f # sock[v] /\ file'[f] = file[f] /\ file[f] # v BY <3>1, <3>2, <2>2 DEF CloseFd
      <4>2. CASE closed[file[f]]
        <5>1. PICK u \in Thread : closeStep[u] = "fd" /\ victim[u] = file[f] BY <4>1, <4>2, <3>2
        <5>2. u # t BY <5>1, <4>1
        <5> QED BY <5>1, <5>2, <4>1, <3>2, <2>2 DEF CloseFd
      <4> QED BY <4>1, <4>2, <3>2, <2>2 DEF CloseFd
    <3> QED BY <3>2, <2>2 DEF CloseFd
  <2>3. CASE CloseClear(t) BY <2>3 DEF CloseClear
  <2> QED BY <1>2, <2>1, <2>2, <2>3 DEF Close
<1>3. ASSUME NEW t \in Thread, EvalSock(t) PROVE FdsHeld'
  BY <1>3 DEF EvalSock, SendJobs
<1>4. ASSUME NEW c \in Conn, Handler(c) PROVE FdsHeld'
  <2>1. CASE LoopTop(c) BY <2>1 DEF LoopTop
  <2>2. CASE ReadEnds(c) BY <2>2 DEF ReadEnds
  <2>3. CASE AuthFrame(c) BY <2>3 DEF AuthFrame
  <2>4. CASE OtherFirstFrame(c) BY <2>4 DEF OtherFirstFrame
  <2>5. ASSUME NEW a \in Acc, AuthValid(c, a) PROVE FdsHeld'
    BY <2>5 DEF AuthValid
  <2>6. CASE AuthInvalid(c) BY <2>6 DEF AuthInvalid
  <2>7. CASE HandlerThrows(c) BY <2>7 DEF HandlerThrows
  <2>8. CASE Register(c)
    <3>1. acc[c] \in Acc BY <2>8 DEF Register
    <3>2. byAcc[acc[c]] \in Conn \cup {None} BY <3>1
    <3>3. CASE byAcc[acc[c]] \in {None, c} BY <3>3, <2>8 DEF Register
    <3>4. CASE byAcc[acc[c]] \notin {None, c}
      <4>1. /\ closeStep' = [closeStep EXCEPT ![c] = "enter"]
            /\ victim' = [victim EXCEPT ![c] = byAcc[acc[c]]]
            /\ UNCHANGED <<sock, file, closed>>
            /\ pc' = [pc EXCEPT ![c] = "evict"]
            /\ closeStep[c] = "idle"
        BY <3>4, <2>8 DEF Register
      <4> QED BY <3>2, <3>4, <4>1
    <3> QED BY <3>3, <3>4
  <2>9. CASE AuthOk(c) BY <2>9 DEF AuthOk
  <2>10. CASE HandlePing(c) BY <2>10 DEF HandlePing
  <2>11. CASE HandleOther(c) BY <2>11 DEF HandleOther
  <2>12. ASSUME NEW to \in Acc, WaveOffline(c, to) PROVE FdsHeld'
    BY <2>12 DEF WaveOffline
  <2>13. ASSUME NEW to \in Acc, WaveForward(c, to) PROVE FdsHeld'
    BY <2>13 DEF WaveForward
  <2>14. ASSUME NEW s \in Conn, HandleWaveAck(c, s) PROVE FdsHeld'
    BY <2>14 DEF HandleWaveAck
  <2>15. CASE FinishReply(c) BY <2>15 DEF FinishReply, AfterReply, CanWrite, MayFail
  <2>16. CASE WaveSent(c) BY <2>16 DEF WaveSent, CanWrite
  <2>17. CASE WaveSentOldProtocol(c) BY <2>17 DEF WaveSentOldProtocol
  <2>18. CASE WaveSendFails(c) BY <2>18 DEF WaveSendFails, MayFail
  <2>19. CASE Unregister(c) BY <2>19 DEF Unregister
  <2>20. CASE HandlerShut(c) BY <2>20 DEF HandlerShut
  <2>21. CASE HandlerDone(c) BY <2>21 DEF HandlerDone
  <2> QED BY <1>4, <2>1, <2>2, <2>3, <2>4, <2>5, <2>6, <2>7, <2>8, <2>9, <2>10, <2>11, <2>12,
             <2>13, <2>14, <2>15, <2>16, <2>17, <2>18, <2>19, <2>20, <2>21 DEF Handler, HandlerStep, Frames
<1>5. ASSUME NEW p \in Pusher, Push(p) PROVE FdsHeld'
  <2>1. ASSUME NEW a \in Acc, PushToAcc(p, a) PROVE FdsHeld'
    BY <2>1 DEF PushToAcc
  <2>2. CASE Broadcast(p) BY <2>2 DEF Broadcast, Registered
  <2>3. ASSUME NEW c \in Conn, BroadcastNext(p, c) PROVE FdsHeld'
    BY <2>3 DEF BroadcastNext
  <2>4. CASE PushSent(p) BY <2>4 DEF PushSent
  <2>5. CASE PushFails(p) BY <2>5 DEF PushFails, MayFail
  <2> QED BY <1>5, <2>1, <2>2, <2>3, <2>4, <2>5 DEF Push
<1>6. CASE Stop
  <2>1. CASE StopBegin BY <2>1 DEF StopBegin
  <2>2. CASE StopListener BY <2>2 DEF StopListener
  <2>3. CASE StopSnapshot BY <2>3 DEF StopSnapshot, Registered
  <2>4. CASE StopReturns BY <2>4 DEF StopReturns
  <2>5. CASE Exit BY <2>5 DEF Exit
  <2>6. ASSUME NEW c \in Conn, StopCloses(c) PROVE FdsHeld'
    BY <2>6 DEF StopCloses
  <2> QED BY <1>6, <2>1, <2>2, <2>3, <2>4, <2>5, <2>6 DEF Stop
<1>7. CASE UNCHANGED vars BY <1>7
<1> QED BY <1>1, <1>2, <1>3, <1>4, <1>5, <1>6, <1>7 DEF Next

-----------------------------------------------------------------------------
(* The theorems.                                                           *)

\* The process starts in the invariant.
LEMMA InitInv == Init => IInv /\ FdsHeld
<1> SUFFICES ASSUME Init PROVE IInv /\ FdsHeld
  OBVIOUS
<1> USE HubAssumption, ThreadKinds DEF Init
<1>1. TypeOK BY JobType DEF TypeOK, Steps
<1>2. IncomingPrivate /\ ClosersApart /\ Busy
  BY JobFields DEF IncomingPrivate, ClosersApart, Busy, Known
<1>3. OpenConnOwnsFd /\ RegistryEntry /\ OneConnPerAccount /\ FdsHeld
  BY DEF OpenConnOwnsFd, RegistryEntry, OneConnPerAccount, Superseded, Online, FdsHeld
<1>4. OpenTargetGetsFrame BY JobFields DEF OpenTargetGetsFrame
<1>5. CounterExact /\ active <= MaxConns
  <2>1. Handlers = {} BY DEF Handlers, Counted
  <2> QED BY <2>1, FS_EmptySet DEF CounterExact
<1> QED BY <1>1, <1>2, <1>3, <1>4, <1>5 DEF IInv

\* Every step of every thread keeps it.
LEMMA NextInv == IInv /\ FdsHeld /\ [Next]_vars => IInv' /\ FdsHeld'
<1> SUFFICES ASSUME IInv, FdsHeld, [Next]_vars PROVE IInv' /\ FdsHeld'
  OBVIOUS
<1>1. CounterExact' /\ active' \in Nat /\ active' <= MaxConns BY CountStep
<1>2. TypeOK' BY <1>1, TypeStep DEF IInv
<1> QED BY <1>1, <1>2, IncomingStep, ClosersStep, BusyStep, FdStep, TargetStep,
           RegistryStep, OneConnStep, HeldStep DEF IInv

\* The inductive invariant holds in every state of the hub.
THEOREM HubInvariant == Spec => [](IInv /\ FdsHeld)
<1>1. Init => IInv /\ FdsHeld BY InitInv
<1>2. IInv /\ FdsHeld /\ [Next]_vars => (IInv /\ FdsHeld)' BY NextInv
<1> QED BY <1>1, <1>2, PTL DEF Spec

\* Every variable of the hub stays in its type.
THEOREM HubTypeCorrect == Spec => []TypeOK
<1>1. IInv => TypeOK BY DEF IInv
<1> QED BY <1>1, HubInvariant, PTL

\* The descriptor of an open connection names it, however many threads close
\* it and however soon its number is reused (Conn::close).
THEOREM HubOpenConnOwnsFd == Spec => []OpenConnOwnsFd
<1>1. IInv => OpenConnOwnsFd BY DEF IInv
<1> QED BY <1>1, HubInvariant, PTL

\* A frame for a connection that is still open is written to it (send_frame).
THEOREM HubTargetGetsFrame == Spec => []OpenTargetGetsFrame
<1>1. IInv => OpenTargetGetsFrame BY DEF IInv
<1> QED BY <1>1, HubInvariant, PTL

\* by_acc holds a connection under its own account, and only until its thread
\* has run unregister_conn.
THEOREM HubRegistry == Spec => []RegistryEntry
<1>1. IInv => RegistryEntry BY DEF IInv
<1> QED BY <1>1, HubInvariant, PTL

\* An account has one open connection, but for those about to be closed.
THEOREM HubOneConnection == Spec => []OneConnPerAccount
<1>1. IInv => OneConnPerAccount BY DEF IInv
<1> QED BY <1>1, HubInvariant, PTL

\* active is exactly the number of the handler threads.
THEOREM HubCounter == Spec => []CounterExact
<1>1. IInv => CounterExact BY DEF IInv
<1> QED BY <1>1, HubInvariant, PTL

\* No more than push_max_conns handler threads run.
THEOREM HubThreadsBounded == Spec => []ThreadsBounded
<1>1. IInv => ThreadsBounded
  <2> SUFFICES ASSUME IInv PROVE ThreadsBounded
    OBVIOUS
  <2>1. Cardinality(Handlers) \in Nat
    BY HubAssumption, FS_Subset, FS_CardinalityType DEF Handlers
  <2> QED BY <2>1, HubAssumption DEF IInv, TypeOK, CounterExact, ThreadsBounded
<1> QED BY <1>1, HubInvariant, PTL

\* No descriptor stays open once its handler thread is gone, but in the hands
\* of the thread that is about to close it.
THEOREM HubNoFdLeak == Spec => []NoFdLeak
<1>1. IInv /\ FdsHeld => NoFdLeak BY DEF IInv, TypeOK, FdsHeld, NoFdLeak
<1> QED BY <1>1, HubInvariant, PTL

\* Descriptors: an open connection owns its number, and no number is left open
\* without a connection or a thread that closes it (Conn::close).
THEOREM HubDescriptors == Spec => []Descriptors
<1> QED BY HubOpenConnOwnsFd, HubNoFdLeak, PTL DEF Descriptors

\* The registry of the players online: each connection under its own account
\* only, and one open connection of an account (register_conn, unregister_conn).
THEOREM HubRegistryKept == Spec => []Registry
<1> QED BY HubTypeCorrect, HubRegistry, HubOneConnection, PTL DEF Registry

\* The count of handler threads is exact and within push_max_conns.
THEOREM HubThreadCount == Spec => []ThreadCount
<1> QED BY HubCounter, HubThreadsBounded, PTL DEF ThreadCount

=============================================================================
