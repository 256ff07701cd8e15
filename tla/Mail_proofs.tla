------------------------------ MODULE Mail_proofs ------------------------------
(***************************************************************************)
(* Theorems about Mail: its schedule (MailSchedule), its index (MailIndex) *)
(* and the Redis client (RedisClient) keep their properties, for every set *)
(* of tasks and administrators, any number of threads, sockets, requests,  *)
(* calls, repeated commands, faults and crashes.                           *)
(***************************************************************************)
EXTENDS Mail, FiniteSetTheorems, SequenceTheorems, TLAPS

-----------------------------------------------------------------------------
(* The schedule.  IInv is inductive: it says in what state a task is whose *)
(* place is known, unless the outcome of a command about it is not         *)
(* (doubtful).                                                             *)

Working == {"claim", "set", "index", "readd", "drop"}

\* Every thread is at a place of its own program, with a task that was created.
Places ==
  /\ \A t \in Thread : arg[t] \in Task => arg[t] \in used
  /\ redis.tasks \cup todo \subseteq used
  /\ \A s \in Task \ used : sent[s] = 0
  /\ pc[Scheduler] \in Working \cup {"range", "next"}
  /\ pc[Scheduler] \in Working => arg[Scheduler] \in Task
  /\ pc[Scheduler] = "drop" => arg[Scheduler] \in Throwing
  /\ \A a \in Admin :
       /\ pc[a] \in {"idle", "done", "add", "list", "cancel", "set", "index", "get", "del"}
       /\ pc[a] \in {"add", "list", "cancel"} => arg[a] \in Task
       /\ pc[a] \in {"set", "index"} => arg[a] = Direct

\* The administrator has the task's id, and it was neither cancelled nor sent.
Waiting(s) == s \in accepted \ cancelled /\ sent[s] = 0

\* A stored task waits.
StoredWaits == \A s \in redis.tasks \ doubtful : Waiting(s)

\* A task in the scheduler's hands waits too, and is not stored any more.
TakenWaits == \A s \in InHand \ doubtful : Waiting(s) /\ s \notin redis.tasks

\* The task whose mail is being indexed was sent once.
SentIsSent ==
  pc[Scheduler] = "index" /\ arg[Scheduler] \notin doubtful =>
    sent[arg[Scheduler]] = 1 /\ arg[Scheduler] \notin cancelled

\* A task that is being added has no history yet.
AddsNew ==
  \A a \in Admin : pc[a] = "add" =>
    /\ \A b \in Admin \ {a} : pc[b] = "add" => arg[b] # arg[a]
    /\ arg[a] \notin doubtful => arg[a] \notin accepted \cup cancelled /\ sent[arg[a]] = 0

IInv ==
  /\ TypeOK /\ Places /\ StoredWaits /\ TakenWaits /\ SentIsSent /\ AddsNew
  /\ CancelHolds /\ SentOnce /\ TaskConserved

-----------------------------------------------------------------------------
(* One conjunct of the invariant at a time.                                *)

\* What the scheduler has taken out and not sent is in its hands.
LEMMA TakenInHand == pc[Scheduler] \in {"set", "readd", "drop"} => arg[Scheduler] \in InHand
BY DEF InHand

\* The program starts with no task and no thread at work.
LEMMA InvariantInit == Init => IInv
BY MailAssumption
DEF Init, IInv, TypeOK, Places, Working, Thread, Steps, StoredWaits, TakenWaits, SentIsSent,
    AddsNew, CancelHolds, SentOnce, TaskConserved, InHand

\* Every step keeps every variable in its type.
LEMMA TypeStep == IInv /\ [Next]_vars => TypeOK'
<1> SUFFICES ASSUME IInv, [Next]_vars PROVE TypeOK'
  OBVIOUS
<1> USE MailAssumption DEF IInv, TypeOK, Places, Working, Thread, history, Command, Answered,
         Unanswered, With, Without, Steps
<1>1. CASE ReadDue BY <1>1 DEF ReadDue
<1>2. CASE Sleep BY <1>2 DEF Sleep
<1>3. CASE \E s \in Task : NextTask(s) \/ BecomesDue(s) BY <1>3 DEF NextTask, BecomesDue
<1>4. CASE MailExpires BY <1>4 DEF MailExpires
<1>5. CASE UNCHANGED vars BY <1>5 DEF vars
<1>6. CASE ClaimTask BY <1>6 DEF ClaimTask
<1>7. CASE ReaddTask BY <1>7 DEF ReaddTask
<1>8. CASE DropTask BY <1>8 DEF DropTask
<1>9. CASE SetMail(Scheduler) BY <1>9 DEF SetMail
<1>10. CASE IndexMail(Scheduler) BY <1>10 DEF IndexMail
<1>11. CASE Crash
  <2>1. \A t \in Thread : pc'[t] = (IF t = Scheduler THEN "range" ELSE "idle") /\ arg'[t] = None /\ tries'[t] = 0
    BY <1>11 DEF Crash
  <2>2. InHand \subseteq used BY DEF InHand
  <2>3. /\ pc' \in [Thread -> Steps] /\ arg' \in [Thread -> Task \cup {Direct, None}]
        /\ tries' \in [Thread -> {0, 1}]
    BY <1>11 DEF Crash
  <2>4. dropped' \subseteq used' BY <1>11, <2>2 DEF Crash
  <2> QED BY <1>11, <2>3, <2>4 DEF Crash
<1>12. ASSUME NEW a \in Admin, AdminStep(a) PROVE TypeOK'
  <2>1. CASE \E s \in Task : ScheduleGlobal(a, s) BY <2>1 DEF ScheduleGlobal, Request
  <2>2. CASE (\E s \in Task : CancelSchedule(a, s)) \/ SendGlobal(a) \/ RemoveGlobal(a)
    BY <2>2 DEF CancelSchedule, SendGlobal, RemoveGlobal, Request
  <2>3. CASE AddTask(a) BY <2>3 DEF AddTask
  <2>4. CASE ListTasks(a) BY <2>4 DEF ListTasks
  <2>5. CASE CancelTask(a) BY <2>5 DEF CancelTask
  <2>6. CASE SetMail(a) \/ IndexMail(a) BY <2>6 DEF SetMail, IndexMail
  <2>7. CASE RemoveGet(a) \/ RemoveDel(a) BY <2>7 DEF RemoveGet, RemoveDel
  <2> QED BY <1>12, <2>1, <2>2, <2>3, <2>4, <2>5, <2>6, <2>7 DEF AdminStep
<1> QED BY <1>1, <1>2, <1>3, <1>4, <1>5, <1>6, <1>7, <1>8, <1>9, <1>10, <1>11, <1>12
    DEF Next, SchedulerStep

\* Every step leaves every thread at a place of its own program, with a task that
\* was created.
LEMMA PlacesStep == IInv /\ [Next]_vars => Places'
<1> SUFFICES ASSUME IInv, [Next]_vars PROVE Places'
  OBVIOUS
<1> USE MailAssumption DEF IInv, TypeOK, Places, Working, Thread, history, Command, Answered,
         Unanswered, With, Without, Steps
<1>1. CASE ReadDue BY <1>1 DEF ReadDue
<1>2. CASE Sleep BY <1>2 DEF Sleep
<1>3. CASE \E s \in Task : NextTask(s) \/ BecomesDue(s) BY <1>3 DEF NextTask, BecomesDue
<1>4. CASE MailExpires BY <1>4 DEF MailExpires
<1>5. CASE UNCHANGED vars BY <1>5 DEF vars
<1>6. CASE ClaimTask BY <1>6 DEF ClaimTask
<1>7. CASE ReaddTask BY <1>7 DEF ReaddTask
<1>8. CASE DropTask BY <1>8 DEF DropTask
<1>9. CASE SetMail(Scheduler) BY <1>9 DEF SetMail
<1>10. CASE IndexMail(Scheduler) BY <1>10 DEF IndexMail
<1>11. CASE Crash BY <1>11 DEF Crash
<1>12. ASSUME NEW a \in Admin, AdminStep(a) PROVE Places'
  <2>1. CASE \E s \in Task : ScheduleGlobal(a, s) BY <2>1 DEF ScheduleGlobal, Request
  <2>2. CASE (\E s \in Task : CancelSchedule(a, s)) \/ SendGlobal(a) \/ RemoveGlobal(a)
    BY <2>2 DEF CancelSchedule, SendGlobal, RemoveGlobal, Request
  <2>3. CASE AddTask(a) BY <2>3 DEF AddTask
  <2>4. CASE ListTasks(a) BY <2>4 DEF ListTasks
  <2>5. CASE CancelTask(a) BY <2>5 DEF CancelTask
  <2>6. CASE SetMail(a) \/ IndexMail(a) BY <2>6 DEF SetMail, IndexMail
  <2>7. CASE RemoveGet(a) \/ RemoveDel(a) BY <2>7 DEF RemoveGet, RemoveDel
  <2> QED BY <1>12, <2>1, <2>2, <2>3, <2>4, <2>5, <2>6, <2>7 DEF AdminStep
<1> QED BY <1>1, <1>2, <1>3, <1>4, <1>5, <1>6, <1>7, <1>8, <1>9, <1>10, <1>11, <1>12
    DEF Next, SchedulerStep

\* What is in GLOBAL_MAIL_SCHEDULES came from an add or from a readd.
LEMMA StoredStep == IInv /\ [Next]_vars => StoredWaits'
<1> SUFFICES ASSUME IInv, [Next]_vars PROVE StoredWaits'
  OBVIOUS
<1> USE MailAssumption DEF IInv, TypeOK, Places, Working, Thread, history, Command, Answered,
         Unanswered, With, Without, StoredWaits, TakenWaits, AddsNew, Waiting, InHand
<1>1. CASE ReadDue BY <1>1 DEF ReadDue
<1>2. CASE Sleep BY <1>2 DEF Sleep
<1>3. CASE \E s \in Task : NextTask(s) \/ BecomesDue(s) BY <1>3 DEF NextTask, BecomesDue
<1>4. CASE MailExpires BY <1>4 DEF MailExpires
<1>5. CASE UNCHANGED vars BY <1>5 DEF vars
<1>6. CASE ClaimTask BY <1>6 DEF ClaimTask
<1>7. CASE ReaddTask BY <1>7 DEF ReaddTask
<1>8. CASE DropTask BY <1>8 DEF DropTask
<1>9. CASE SetMail(Scheduler) BY <1>9 DEF SetMail
<1>10. CASE IndexMail(Scheduler) BY <1>10 DEF IndexMail
<1>11. CASE Crash BY <1>11 DEF Crash
<1>12. ASSUME NEW a \in Admin, AdminStep(a) PROVE StoredWaits'
  <2>1. CASE \E s \in Task : ScheduleGlobal(a, s) BY <2>1 DEF ScheduleGlobal, Request
  <2>2. CASE (\E s \in Task : CancelSchedule(a, s)) \/ SendGlobal(a) \/ RemoveGlobal(a)
    BY <2>2 DEF CancelSchedule, SendGlobal, RemoveGlobal, Request
  <2>3. CASE AddTask(a) BY <2>3 DEF AddTask
  <2>4. CASE ListTasks(a) BY <2>4 DEF ListTasks
  <2>5. CASE CancelTask(a) BY <2>5 DEF CancelTask
  <2>6. CASE SetMail(a) \/ IndexMail(a) BY <2>6 DEF SetMail, IndexMail
  <2>7. CASE RemoveGet(a) \/ RemoveDel(a) BY <2>7 DEF RemoveGet, RemoveDel
  <2> QED BY <1>12, <2>1, <2>2, <2>3, <2>4, <2>5, <2>6, <2>7 DEF AdminStep
<1> QED BY <1>1, <1>2, <1>3, <1>4, <1>5, <1>6, <1>7, <1>8, <1>9, <1>10, <1>11, <1>12
    DEF Next, SchedulerStep

\* The reply to zrem says whether the scheduler took the task out.
LEMMA TakenStep == IInv /\ [Next]_vars => TakenWaits'
<1> SUFFICES ASSUME IInv, [Next]_vars PROVE TakenWaits'
  OBVIOUS
<1> USE MailAssumption DEF IInv, TypeOK, Places, Working, Thread, history, Command, Answered,
         Unanswered, With, Without, StoredWaits, TakenWaits, AddsNew, Waiting, InHand
<1>1. CASE ReadDue BY <1>1 DEF ReadDue
<1>2. CASE Sleep BY <1>2 DEF Sleep
<1>3. CASE \E s \in Task : NextTask(s) \/ BecomesDue(s) BY <1>3 DEF NextTask, BecomesDue
<1>4. CASE MailExpires BY <1>4 DEF MailExpires
<1>5. CASE UNCHANGED vars BY <1>5 DEF vars
<1>6. CASE ClaimTask BY <1>6 DEF ClaimTask
<1>7. CASE ReaddTask BY <1>7 DEF ReaddTask
<1>8. CASE DropTask BY <1>8 DEF DropTask
<1>9. CASE SetMail(Scheduler) BY <1>9 DEF SetMail
<1>10. CASE IndexMail(Scheduler) BY <1>10 DEF IndexMail
<1>11. CASE Crash BY <1>11 DEF Crash
<1>12. ASSUME NEW a \in Admin, AdminStep(a) PROVE TakenWaits'
  <2>1. CASE \E s \in Task : ScheduleGlobal(a, s) BY <2>1 DEF ScheduleGlobal, Request
  <2>2. CASE (\E s \in Task : CancelSchedule(a, s)) \/ SendGlobal(a) \/ RemoveGlobal(a)
    BY <2>2 DEF CancelSchedule, SendGlobal, RemoveGlobal, Request
  <2>3. CASE AddTask(a) BY <2>3 DEF AddTask
  <2>4. CASE ListTasks(a) BY <2>4 DEF ListTasks
  <2>5. CASE CancelTask(a) BY <2>5 DEF CancelTask
  <2>6. CASE SetMail(a) \/ IndexMail(a) BY <2>6 DEF SetMail, IndexMail
  <2>7. CASE RemoveGet(a) \/ RemoveDel(a) BY <2>7 DEF RemoveGet, RemoveDel
  <2> QED BY <1>12, <2>1, <2>2, <2>3, <2>4, <2>5, <2>6, <2>7 DEF AdminStep
<1> QED BY <1>1, <1>2, <1>3, <1>4, <1>5, <1>6, <1>7, <1>8, <1>9, <1>10, <1>11, <1>12
    DEF Next, SchedulerStep

\* The scheduler sends what it took out, and nobody cancels it meanwhile.
LEMMA SentStep == IInv /\ [Next]_vars => SentIsSent'
<1> SUFFICES ASSUME IInv, [Next]_vars PROVE SentIsSent'
  OBVIOUS
<1> USE MailAssumption DEF IInv, TypeOK, Places, Working, Thread, history, Command, Answered,
         Unanswered, With, Without, StoredWaits, TakenWaits, SentIsSent, Waiting, InHand
<1>1. CASE ReadDue BY <1>1 DEF ReadDue
<1>2. CASE Sleep BY <1>2 DEF Sleep
<1>3. CASE \E s \in Task : NextTask(s) \/ BecomesDue(s) BY <1>3 DEF NextTask, BecomesDue
<1>4. CASE MailExpires BY <1>4 DEF MailExpires
<1>5. CASE UNCHANGED vars BY <1>5 DEF vars
<1>6. CASE ClaimTask BY <1>6 DEF ClaimTask
<1>7. CASE ReaddTask BY <1>7 DEF ReaddTask
<1>8. CASE DropTask BY <1>8 DEF DropTask
<1>9. CASE SetMail(Scheduler) BY <1>9 DEF SetMail
<1>10. CASE IndexMail(Scheduler) BY <1>10 DEF IndexMail
<1>11. CASE Crash BY <1>11 DEF Crash
<1>12. ASSUME NEW a \in Admin, AdminStep(a) PROVE SentIsSent'
  <2>1. CASE \E s \in Task : ScheduleGlobal(a, s) BY <2>1 DEF ScheduleGlobal, Request
  <2>2. CASE (\E s \in Task : CancelSchedule(a, s)) \/ SendGlobal(a) \/ RemoveGlobal(a)
    BY <2>2 DEF CancelSchedule, SendGlobal, RemoveGlobal, Request
  <2>3. CASE AddTask(a) BY <2>3 DEF AddTask
  <2>4. CASE ListTasks(a) BY <2>4 DEF ListTasks
  <2>5. CASE CancelTask(a)
    <3>1. arg[a] \in Task /\ pc'[Scheduler] = pc[Scheduler] /\ arg' = arg /\ sent' = sent
      BY <2>5 DEF CancelTask
    <3>2. cancelled' \subseteq cancelled \cup {s \in redis.tasks : s = arg[a]} /\ doubtful \subseteq doubtful'
      BY <2>5 DEF CancelTask
    <3>3. \A s \in cancelled' \ doubtful' : s \in cancelled \/ sent[s] = 0
      BY <3>2 DEF StoredWaits
    <3> QED BY <3>1, <3>2, <3>3
  <2>6. CASE SetMail(a) \/ IndexMail(a) BY <2>6 DEF SetMail, IndexMail
  <2>7. CASE RemoveGet(a) \/ RemoveDel(a) BY <2>7 DEF RemoveGet, RemoveDel
  <2> QED BY <1>12, <2>1, <2>2, <2>3, <2>4, <2>5, <2>6, <2>7 DEF AdminStep
<1> QED BY <1>1, <1>2, <1>3, <1>4, <1>5, <1>6, <1>7, <1>8, <1>9, <1>10, <1>11, <1>12
    DEF Next, SchedulerStep

\* A task is added by one request, before anybody is given its id.
LEMMA AddsStep == IInv /\ [Next]_vars => AddsNew'
<1> SUFFICES ASSUME IInv, [Next]_vars PROVE AddsNew'
  OBVIOUS
<1> USE MailAssumption DEF IInv, TypeOK, Places, Working, Thread, history, Command, Answered,
         Unanswered, With, Without, StoredWaits, TakenWaits, AddsNew, Waiting, InHand
<1>1. CASE ReadDue BY <1>1 DEF ReadDue
<1>2. CASE Sleep BY <1>2 DEF Sleep
<1>3. CASE \E s \in Task : NextTask(s) \/ BecomesDue(s) BY <1>3 DEF NextTask, BecomesDue
<1>4. CASE MailExpires BY <1>4 DEF MailExpires
<1>5. CASE UNCHANGED vars BY <1>5 DEF vars
<1>6. CASE ClaimTask BY <1>6 DEF ClaimTask
<1>7. CASE ReaddTask BY <1>7 DEF ReaddTask
<1>8. CASE DropTask BY <1>8 DEF DropTask
<1>9. CASE SetMail(Scheduler) BY <1>9 DEF SetMail
<1>10. CASE IndexMail(Scheduler) BY <1>10 DEF IndexMail
<1>11. CASE Crash BY <1>11 DEF Crash
<1>12. ASSUME NEW a \in Admin, AdminStep(a) PROVE AddsNew'
  <2>1. CASE \E s \in Task : ScheduleGlobal(a, s) BY <2>1 DEF ScheduleGlobal, Request
  <2>2. CASE (\E s \in Task : CancelSchedule(a, s)) \/ SendGlobal(a) \/ RemoveGlobal(a)
    BY <2>2 DEF CancelSchedule, SendGlobal, RemoveGlobal, Request
  <2>3. CASE AddTask(a) BY <2>3 DEF AddTask
  <2>4. CASE ListTasks(a) BY <2>4 DEF ListTasks
  <2>5. CASE CancelTask(a)
    <3>1. \A b \in Admin : pc'[b] = "add" => pc[b] = "add"
      BY <2>5 DEF CancelTask
    <3>2. UNCHANGED <<arg, sent, accepted>>
      BY <2>5 DEF CancelTask
    <3>3. cancelled' \subseteq cancelled \cup {s \in redis.tasks : s = arg[a]} /\ doubtful \subseteq doubtful'
      BY <2>5 DEF CancelTask
    <3>4. \A s \in cancelled' \ doubtful' : s \in cancelled \/ s \in accepted
      BY <3>3 DEF StoredWaits
    <3> QED BY <3>1, <3>2, <3>3, <3>4
  <2>6. CASE SetMail(a) \/ IndexMail(a) BY <2>6 DEF SetMail, IndexMail
  <2>7. CASE RemoveGet(a) \/ RemoveDel(a) BY <2>7 DEF RemoveGet, RemoveDel
  <2> QED BY <1>12, <2>1, <2>2, <2>3, <2>4, <2>5, <2>6, <2>7 DEF AdminStep
<1> QED BY <1>1, <1>2, <1>3, <1>4, <1>5, <1>6, <1>7, <1>8, <1>9, <1>10, <1>11, <1>12
    DEF Next, SchedulerStep

\* A cancelled task was in the set, and nobody puts it back.
LEMMA CancelStep == IInv /\ [Next]_vars => CancelHolds'
<1> SUFFICES ASSUME IInv, [Next]_vars PROVE CancelHolds'
  OBVIOUS
<1> USE MailAssumption DEF IInv, TypeOK, Places, Working, Thread, history, Command, Answered,
         Unanswered, With, Without, StoredWaits, TakenWaits, SentIsSent, AddsNew, Waiting, InHand,
         CancelHolds
<1>1. CASE ReadDue BY <1>1 DEF ReadDue
<1>2. CASE Sleep BY <1>2 DEF Sleep
<1>3. CASE \E s \in Task : NextTask(s) \/ BecomesDue(s) BY <1>3 DEF NextTask, BecomesDue
<1>4. CASE MailExpires BY <1>4 DEF MailExpires
<1>5. CASE UNCHANGED vars BY <1>5 DEF vars
<1>6. CASE ClaimTask BY <1>6 DEF ClaimTask
<1>7. CASE ReaddTask BY <1>7 DEF ReaddTask
<1>8. CASE DropTask BY <1>8 DEF DropTask
<1>9. CASE SetMail(Scheduler) BY <1>9 DEF SetMail
<1>10. CASE IndexMail(Scheduler) BY <1>10 DEF IndexMail
<1>11. CASE Crash BY <1>11 DEF Crash
<1>12. ASSUME NEW a \in Admin, AdminStep(a) PROVE CancelHolds'
  <2>1. CASE \E s \in Task : ScheduleGlobal(a, s) BY <2>1 DEF ScheduleGlobal, Request
  <2>2. CASE (\E s \in Task : CancelSchedule(a, s)) \/ SendGlobal(a) \/ RemoveGlobal(a)
    BY <2>2 DEF CancelSchedule, SendGlobal, RemoveGlobal, Request
  <2>3. CASE AddTask(a) BY <2>3 DEF AddTask
  <2>4. CASE ListTasks(a) BY <2>4 DEF ListTasks
  <2>5. CASE CancelTask(a)
    <3>1. /\ UNCHANGED arg /\ pc'[Scheduler] = pc[Scheduler] /\ doubtful \subseteq doubtful'
          /\ redis'.tasks \subseteq redis.tasks
      BY <2>5 DEF CancelTask
    <3>2. \A s \in cancelled' \ cancelled : s = arg[a] /\ s \in redis.tasks /\ s \notin redis'.tasks
      BY <2>5 DEF CancelTask
    <3>3. \A s \in redis.tasks \ doubtful :
            ~(arg[Scheduler] = s /\ pc[Scheduler] \in {"set", "index", "readd"})
      <4>1. ASSUME NEW s \in redis.tasks \ doubtful, arg[Scheduler] = s, pc[Scheduler] = "index" PROVE FALSE
        <5>1. sent[s] = 1 BY <4>1
        <5> QED BY <4>1, <5>1
      <4>2. ASSUME NEW s \in redis.tasks \ doubtful, arg[Scheduler] = s, pc[Scheduler] \in {"set", "readd"}
            PROVE  FALSE
        <5>1. arg[Scheduler] \in InHand BY <4>2, TakenInHand
        <5> QED BY <4>2, <5>1 DEF TakenWaits
      <4> QED BY <4>1, <4>2
    <3> QED BY <3>1, <3>2, <3>3
  <2>6. CASE SetMail(a) \/ IndexMail(a) BY <2>6 DEF SetMail, IndexMail
  <2>7. CASE RemoveGet(a) \/ RemoveDel(a) BY <2>7 DEF RemoveGet, RemoveDel
  <2> QED BY <1>12, <2>1, <2>2, <2>3, <2>4, <2>5, <2>6, <2>7 DEF AdminStep
<1> QED BY <1>1, <1>2, <1>3, <1>4, <1>5, <1>6, <1>7, <1>8, <1>9, <1>10, <1>11, <1>12
    DEF Next, SchedulerStep

\* A task in hand was not sent before.
LEMMA OnceStep == IInv /\ [Next]_vars => SentOnce'
<1> SUFFICES ASSUME IInv, [Next]_vars PROVE SentOnce'
  OBVIOUS
<1> USE MailAssumption DEF IInv, TypeOK, Places, Working, Thread, history, Command, Answered,
         Unanswered, With, Without, TakenWaits, Waiting, InHand, SentOnce
<1>1. CASE ReadDue BY <1>1 DEF ReadDue
<1>2. CASE Sleep BY <1>2 DEF Sleep
<1>3. CASE \E s \in Task : NextTask(s) \/ BecomesDue(s) BY <1>3 DEF NextTask, BecomesDue
<1>4. CASE MailExpires BY <1>4 DEF MailExpires
<1>5. CASE UNCHANGED vars BY <1>5 DEF vars
<1>6. CASE ClaimTask BY <1>6 DEF ClaimTask
<1>7. CASE ReaddTask BY <1>7 DEF ReaddTask
<1>8. CASE DropTask BY <1>8 DEF DropTask
<1>9. CASE SetMail(Scheduler) BY <1>9 DEF SetMail
<1>10. CASE IndexMail(Scheduler) BY <1>10 DEF IndexMail
<1>11. CASE Crash BY <1>11 DEF Crash
<1>12. ASSUME NEW a \in Admin, AdminStep(a) PROVE SentOnce'
  <2>1. CASE \E s \in Task : ScheduleGlobal(a, s) BY <2>1 DEF ScheduleGlobal, Request
  <2>2. CASE (\E s \in Task : CancelSchedule(a, s)) \/ SendGlobal(a) \/ RemoveGlobal(a)
    BY <2>2 DEF CancelSchedule, SendGlobal, RemoveGlobal, Request
  <2>3. CASE AddTask(a) BY <2>3 DEF AddTask
  <2>4. CASE ListTasks(a) BY <2>4 DEF ListTasks
  <2>5. CASE CancelTask(a) BY <2>5 DEF CancelTask
  <2>6. CASE SetMail(a) \/ IndexMail(a) BY <2>6 DEF SetMail, IndexMail
  <2>7. CASE RemoveGet(a) \/ RemoveDel(a) BY <2>7 DEF RemoveGet, RemoveDel
  <2> QED BY <1>12, <2>1, <2>2, <2>3, <2>4, <2>5, <2>6, <2>7 DEF AdminStep
<1> QED BY <1>1, <1>2, <1>3, <1>4, <1>5, <1>6, <1>7, <1>8, <1>9, <1>10, <1>11, <1>12
    DEF Next, SchedulerStep

\* Every way out of the set is one of those TaskConserved names.
LEMMA ConservedStep == IInv /\ [Next]_vars => TaskConserved'
<1> SUFFICES ASSUME IInv, [Next]_vars PROVE TaskConserved'
  OBVIOUS
<1> USE MailAssumption DEF IInv, TypeOK, Places, Working, Thread, history, Command, Answered,
         Unanswered, With, Without, StoredWaits, TakenWaits, SentIsSent, Waiting, TaskConserved
<1>1. CASE ReadDue BY <1>1 DEF ReadDue, InHand
<1>2. CASE Sleep BY <1>2 DEF Sleep, InHand
<1>3. CASE \E s \in Task : NextTask(s) \/ BecomesDue(s) BY <1>3 DEF NextTask, BecomesDue, InHand
<1>4. CASE MailExpires BY <1>4 DEF MailExpires, InHand
<1>5. CASE UNCHANGED vars BY <1>5 DEF vars, InHand
<1>6. CASE ClaimTask
  <2> DEFINE s == arg[Scheduler]
  <2>1. s \in Task /\ InHand = {} BY <1>6 DEF ClaimTask, InHand
  <2>2. UNCHANGED <<accepted, cancelled, sent, dropped, arg>> /\ doubtful \subseteq doubtful'
    BY <1>6 DEF ClaimTask
  <2>3. CASE UNCHANGED redis BY <2>1, <2>2, <2>3
  <2>4. CASE pc'[Scheduler] \in {"set", "drop"} /\ redis'.tasks = redis.tasks \ {s}
    <3>1. s \in InHand' BY <2>4, <2>2 DEF InHand
    <3> QED BY <2>1, <2>2, <2>4, <3>1
  <2>5. CASE s \in doubtful' /\ redis'.tasks = redis.tasks \ {s} BY <2>1, <2>2, <2>5
  <2>6. CASE s \notin redis.tasks /\ redis'.tasks = redis.tasks \ {s} BY <2>1, <2>2, <2>6
  <2> QED BY <1>6, <2>1, <2>3, <2>4, <2>5, <2>6 DEF ClaimTask
<1>7. CASE ReaddTask
  <2> DEFINE s == arg[Scheduler]
  <2>1. s \in Task /\ InHand = {s} BY <1>7 DEF ReaddTask, InHand
  <2>2. UNCHANGED <<accepted, cancelled, sent, dropped, arg>> /\ doubtful \subseteq doubtful'
        /\ redis.tasks \subseteq redis'.tasks BY <1>7 DEF ReaddTask
  <2>3. s \in redis'.tasks \/ s \in doubtful' \/ pc'[Scheduler] = "readd"
    BY <1>7, <2>1 DEF ReaddTask
  <2>4. s \in redis'.tasks \cup doubtful' \cup InHand' BY <2>3, <2>2 DEF InHand
  <2> QED BY <2>1, <2>2, <2>4
<1>8. CASE DropTask BY <1>8 DEF DropTask, InHand
<1>9. CASE SetMail(Scheduler)
  <2> DEFINE s == arg[Scheduler]
  <2>1. pc[Scheduler] = "set" /\ s \in Task /\ InHand = {s} BY <1>9 DEF SetMail, InHand
  <2>2. UNCHANGED <<accepted, cancelled, dropped, arg>> /\ doubtful \subseteq doubtful'
        /\ redis'.tasks = redis.tasks BY <1>9 DEF SetMail
  <2>3. \/ \A x \in Task : sent'[x] = IF x = s THEN sent[x] + 1 ELSE sent[x]
        \/ (\A x \in Task : sent'[x] = sent[x]) /\ pc'[Scheduler] \in {"set", "readd"}
    <3>1. ASSUME Command(Scheduler, TRUE, [redis EXCEPT !.mail = s], TRUE, "index", "readd"),
                 sent' = [x \in Task |-> IF TRUE /\ x = s THEN sent[x] + 1 ELSE sent[x]]
          PROVE \A x \in Task : sent'[x] = IF x = s THEN sent[x] + 1 ELSE sent[x]
      BY <3>1
    <3>2. ASSUME Command(Scheduler, FALSE, [redis EXCEPT !.mail = s], TRUE, "index", "readd"),
                 sent' = [x \in Task |-> IF FALSE /\ x = s THEN sent[x] + 1 ELSE sent[x]]
          PROVE (\A x \in Task : sent'[x] = sent[x]) /\ pc'[Scheduler] \in {"set", "readd"}
      BY <3>2, <2>1
    <3> QED BY <3>1, <3>2, <1>9 DEF SetMail
  <2>4. /\ \A x \in Task : sent[x] > 0 => sent'[x] > 0
        /\ sent'[s] > 0 \/ pc'[Scheduler] \in {"set", "readd"}
    BY <2>1, <2>3
  <2>5. sent'[s] > 0 \/ s \in InHand' BY <2>4, <2>2 DEF InHand
  <2> QED BY <2>1, <2>2, <2>4, <2>5
<1>10. CASE IndexMail(Scheduler) BY <1>10 DEF IndexMail, InHand
<1>11. CASE Crash BY <1>11 DEF Crash, InHand
<1>12. ASSUME NEW a \in Admin, AdminStep(a) PROVE TaskConserved'
  <2>1. CASE \E s \in Task : ScheduleGlobal(a, s) BY <2>1 DEF ScheduleGlobal, Request, InHand
  <2>2. CASE (\E s \in Task : CancelSchedule(a, s)) \/ SendGlobal(a) \/ RemoveGlobal(a)
    BY <2>2 DEF CancelSchedule, SendGlobal, RemoveGlobal, Request, InHand
  <2>3. CASE AddTask(a) BY <2>3 DEF AddTask, InHand
  <2>4. CASE ListTasks(a) BY <2>4 DEF ListTasks, InHand
  <2>5. CASE CancelTask(a) BY <2>5 DEF CancelTask, InHand
  <2>6. CASE SetMail(a) \/ IndexMail(a) BY <2>6 DEF SetMail, IndexMail, InHand
  <2>7. CASE RemoveGet(a) \/ RemoveDel(a) BY <2>7 DEF RemoveGet, RemoveDel, InHand
  <2> QED BY <1>12, <2>1, <2>2, <2>3, <2>4, <2>5, <2>6, <2>7 DEF AdminStep
<1> QED BY <1>1, <1>2, <1>3, <1>4, <1>5, <1>6, <1>7, <1>8, <1>9, <1>10, <1>11, <1>12
    DEF Next, SchedulerStep

-----------------------------------------------------------------------------
(* Theorems.                                                               *)

\* The invariant holds in every behaviour.
THEOREM MailInvariant == Spec => []IInv
<1>1. IInv /\ [Next]_vars => IInv'
  BY TypeStep, PlacesStep, StoredStep, TakenStep, SentStep, AddsStep, CancelStep, OnceStep,
     ConservedStep
  DEF IInv
<1> QED BY <1>1, InvariantInit, PTL DEF Spec

\* A confirmed task is sent once or accounted for: never lost unseen, never
\* paid out twice by the retries of a command (scheduler_loop, send_global).
THEOREM MailTasksKept == Spec => []TasksKept
<1>1. IInv => TasksKept BY DEF IInv, TasksKept
<1> QED BY <1>1, MailInvariant, PTL

\* A confirmed cancellation holds, although the scheduler may have read the
\* task before (cancel_global_schedule against zrem in scheduler_loop).
THEOREM MailCancelHolds == Spec => []CancelHolds
<1>1. IInv => CancelHolds BY DEF IInv
<1> QED BY <1>1, MailInvariant, PTL

-----------------------------------------------------------------------------
(* The refinement: a step of the system moves one task of TaskLife at most. *)

\* The stage of a task depends on six facts about it.
LEMMA StageKept ==
  ASSUME NEW x \in Task, x \in doubtful' <=> x \in doubtful, x \in InHand' <=> x \in InHand,
         sent'[x] = sent[x], x \in redis'.tasks <=> x \in redis.tasks,
         x \in cancelled' <=> x \in cancelled, x \in accepted' <=> x \in accepted
  PROVE  Stage(x)' = Stage(x)
BY DEF Stage

Moves == {<<"none", "stored">>, <<"stored", "taken">>, <<"stored", "cancelled">>,
          <<"taken", "sent">>, <<"taken", "stored">>, <<"taken", "lost">>}

\* One task makes a move of TaskLife, or goes to doubtful, and the others stay.
OneMoves(s) ==
  /\ \A x \in Task \ {s} : Stage(x)' = Stage(x)
  /\ s \in Task => \/ Stage(s)' \in {Stage(s), "doubtful"}
                   \/ <<Stage(s), Stage(s)'>> \in Moves

\* Such a step is one of TaskLife.
LEMMA OneMoveIsLife ==
  ASSUME NEW s, OneMoves(s)
  PROVE  [Life!Next]_([x \in Task |-> Stage(x)])
<1> DEFINE life == [x \in Task |-> Stage(x)]
<1>1. CASE s \notin Task
  <2>1. \A x \in Task : Stage(x)' = Stage(x) BY <1>1 DEF OneMoves
  <2> QED BY <2>1
<1>2. CASE s \in Task /\ Stage(s)' = Stage(s)
  <2>1. \A x \in Task : Stage(x)' = Stage(x) BY <1>2 DEF OneMoves
  <2> QED BY <2>1
<1>3. CASE s \in Task /\ Stage(s)' # Stage(s)
  <2>1. life' = [life EXCEPT ![s] = Stage(s)'] /\ life[s] = Stage(s)
    <3>1. life' = [x \in Task |-> Stage(x)'] OBVIOUS
    <3>2. life' = [x \in Task |-> IF x = s THEN Stage(s)' ELSE Stage(x)]
      BY <1>3, <3>1 DEF OneMoves
    <3> QED BY <1>3, <3>2
  <2>2. Stage(s)' = "doubtful" \/ <<Stage(s), Stage(s)'>> \in Moves BY <1>3 DEF OneMoves
  <2>3. CASE Stage(s)' = "doubtful"
    BY <1>3, <2>1, <2>3 DEF Life!Next, Life!Doubt, Life!Move
  <2>4. CASE <<Stage(s), Stage(s)'>> \in Moves
    BY <1>3, <2>1, <2>4 DEF Moves, Life!Next, Life!Store, Life!Take, Life!Cancel, Life!Send,
                            Life!PutBack, Life!Lose, Life!Move
  <2> QED BY <2>2, <2>3, <2>4
<1> QED BY <1>1, <1>2, <1>3

\* Every step of the system is such a step.
LEMMA StepMovesOne == IInv /\ [Next]_vars => \E s : OneMoves(s)
<1> SUFFICES ASSUME IInv, [Next]_vars PROVE \E s : OneMoves(s)
  OBVIOUS
<1> USE MailAssumption DEF IInv, TypeOK, Places, Working, Thread, history, Command, Answered,
         Unanswered, With, Without, InHand, Waiting
<1>1. ASSUME UNCHANGED <<redis.tasks, accepted, cancelled, sent, doubtful>>, InHand' = InHand
      PROVE  \E s : OneMoves(s)
  <2>1. \A x \in Task : Stage(x)' = Stage(x) BY <1>1, StageKept
  <2>2. OneMoves(None) BY <2>1 DEF OneMoves
  <2> QED BY <2>2
<1>2. CASE ReadDue BY <1>1, <1>2 DEF ReadDue
<1>3. CASE Sleep BY <1>1, <1>3 DEF Sleep
<1>4. CASE \E s \in Task : NextTask(s) \/ BecomesDue(s) BY <1>1, <1>4 DEF NextTask, BecomesDue
<1>5. CASE MailExpires BY <1>1, <1>5 DEF MailExpires
<1>6. CASE UNCHANGED vars BY <1>1, <1>6 DEF vars
<1>7. ASSUME NEW s, s = arg[Scheduler], s \in Task, ClaimTask PROVE OneMoves(s)
  <2>1. \A x \in Task \ {s} : Stage(x)' = Stage(x) BY <1>7, StageKept DEF ClaimTask
  <2>2. CASE s \in doubtful'
    <3>1. Stage(s)' = "doubtful" BY <2>2 DEF Stage
    <3> QED BY <2>1, <3>1 DEF OneMoves
  <2>3. CASE s \notin doubtful'
    <3>1. CASE s \in redis.tasks /\ s \in InHand'
      <4>1. s \notin doubtful BY <1>7, <2>3 DEF ClaimTask
      <4>2. Stage(s) = "stored" BY <1>7, <3>1, <4>1 DEF Stage, StoredWaits, ClaimTask
      <4>3. Stage(s)' = "taken" BY <3>1, <2>3 DEF Stage
      <4>4. <<"stored", "taken">> \in Moves BY DEF Moves
      <4> QED BY <2>1, <4>2, <4>3, <4>4 DEF OneMoves
    <3>2. CASE (s \notin redis.tasks \/ UNCHANGED <<redis, doubtful>>) /\ s \notin InHand'
      <4>1. Stage(s)' = Stage(s) BY <1>7, <2>3, <3>2, StageKept DEF ClaimTask
      <4> QED BY <2>1, <4>1 DEF OneMoves
    <3>3. \/ pc'[Scheduler] \in {"set", "drop"} /\ s \in redis.tasks
          \/ pc'[Scheduler] \in {"claim", "next"} /\ s \notin redis.tasks
          \/ pc'[Scheduler] \in {"claim", "next"} /\ UNCHANGED <<redis, doubtful>>
      BY <1>7, <2>3 DEF ClaimTask
    <3>4. pc'[Scheduler] \in {"set", "drop"} => s \in InHand' BY <1>7 DEF ClaimTask
    <3> QED BY <3>1, <3>2, <3>3, <3>4
  <2> QED BY <2>2, <2>3
<1>8. ASSUME NEW s, s = arg[Scheduler], s \in Task, ReaddTask PROVE OneMoves(s)
  <2>1. \A x \in Task \ {s} : Stage(x)' = Stage(x) BY <1>8, StageKept DEF ReaddTask
  <2> QED BY <1>8, <2>1 DEF ReaddTask, Stage, Moves, OneMoves, TakenWaits
<1>9. ASSUME NEW s, s = arg[Scheduler], s \in Task, DropTask PROVE OneMoves(s)
  <2>1. \A x \in Task \ {s} : Stage(x)' = Stage(x) BY <1>9, StageKept DEF DropTask
  <2> QED BY <1>9, <2>1 DEF DropTask, Stage, Moves, OneMoves, TakenWaits
<1>10. ASSUME NEW s, s = arg[Scheduler], s \in Task, SetMail(Scheduler) PROVE OneMoves(s)
  <2>1. \A x \in Task \ {s} : Stage(x)' = Stage(x) BY <1>10, StageKept DEF SetMail
  <2> QED BY <1>10, <2>1 DEF SetMail, Stage, Moves, OneMoves, TakenWaits
<1>11. ASSUME NEW s, s = arg[Scheduler], s \in Task, IndexMail(Scheduler) PROVE OneMoves(s)
  <2>1. \A x \in Task \ {s} : Stage(x)' = Stage(x) BY <1>11, StageKept DEF IndexMail
  <2> QED BY <1>11, <2>1 DEF IndexMail, Stage, Moves, OneMoves, SentIsSent
<1>12. ASSUME NEW s, s = arg[Scheduler], Crash PROVE OneMoves(s)
  <2>1. InHand' = {} BY <1>12 DEF Crash
  <2>2. UNCHANGED <<redis, accepted, cancelled, sent, doubtful>> BY <1>12 DEF Crash
  <2>3. \A x \in Task \ InHand : Stage(x)' = Stage(x) BY <2>1, <2>2, StageKept
  <2>4. CASE s \in InHand
    <3>1. s \in doubtful \/ (Stage(s) = "taken" /\ Stage(s)' = "lost")
      BY <2>1, <2>2, <2>4 DEF Stage, TakenWaits
    <3>2. s \in doubtful => Stage(s)' = "doubtful" BY <2>2 DEF Stage
    <3>3. <<"taken", "lost">> \in Moves BY DEF Moves
    <3>4. \A x \in Task \ {s} : Stage(x)' = Stage(x) BY <1>12, <2>3
    <3> QED BY <3>1, <3>2, <3>3, <3>4 DEF OneMoves
  <2>5. CASE s \notin InHand
    <3>1. InHand = {} BY <1>12, <2>5
    <3> QED BY <2>3, <3>1 DEF OneMoves
  <2> QED BY <2>4, <2>5
<1>13. ASSUME NEW a \in Admin, AdminStep(a) PROVE \E s : OneMoves(s)
  <2>1. CASE (\E s \in Task : ScheduleGlobal(a, s) \/ CancelSchedule(a, s)) \/ SendGlobal(a) \/ RemoveGlobal(a)
    BY <1>1, <2>1 DEF ScheduleGlobal, CancelSchedule, SendGlobal, RemoveGlobal, Request
  <2>2. ASSUME NEW s, s = arg[a], s \in Task, AddTask(a) PROVE OneMoves(s)
    <3>1. \A x \in Task \ {s} : Stage(x)' = Stage(x) BY <2>2, StageKept DEF AddTask
    <3> QED BY <2>2, <3>1 DEF AddTask, Stage, Moves, OneMoves, StoredWaits, TakenWaits, AddsNew
  <2>3. CASE ListTasks(a) BY <1>1, <2>3 DEF ListTasks
  <2>4. ASSUME NEW s, s = arg[a], s \in Task, CancelTask(a) PROVE OneMoves(s)
    <3>1. \A x \in Task \ {s} : Stage(x)' = Stage(x) BY <2>4, StageKept DEF CancelTask
    <3> QED BY <2>4, <3>1 DEF CancelTask, Stage, Moves, OneMoves, StoredWaits, TakenWaits
  <2>5. CASE SetMail(a) \/ IndexMail(a)
    <3>1. doubtful \cup ({arg[a]} \cap Task) = doubtful
      <4>1. arg[a] = Direct BY <2>5 DEF SetMail, IndexMail
      <4> QED BY <4>1
    <3>2. /\ UNCHANGED <<accepted, cancelled, arg>>
          /\ redis'.tasks = redis.tasks /\ pc'[Scheduler] = pc[Scheduler]
      BY <2>5 DEF SetMail, IndexMail
    <3>3. doubtful' = doubtful BY <2>5, <3>1 DEF SetMail, IndexMail
    <3>4. sent' = sent BY <2>5, <3>1 DEF SetMail, IndexMail
    <3> QED BY <1>1, <3>2, <3>3, <3>4
  <2>6. CASE RemoveGet(a) BY <1>1, <2>6 DEF RemoveGet
  <2>7. CASE RemoveDel(a) BY <1>1, <2>7 DEF RemoveDel
  <2>8. CASE AddTask(a) BY <2>2, <2>8 DEF AddTask
  <2>9. CASE CancelTask(a) BY <2>4, <2>9 DEF CancelTask
  <2> QED BY <1>13, <2>1, <2>3, <2>5, <2>6, <2>7, <2>8, <2>9 DEF AdminStep
<1>14. ClaimTask \/ ReaddTask \/ DropTask \/ SetMail(Scheduler) \/ IndexMail(Scheduler)
         => arg[Scheduler] \in Task
  BY DEF ClaimTask, ReaddTask, DropTask, SetMail, IndexMail
<1>15. CASE SchedulerStep \/ Crash
  BY <1>2, <1>3, <1>4, <1>7, <1>8, <1>9, <1>10, <1>11, <1>12, <1>14, <1>15 DEF SchedulerStep
<1> QED BY <1>4, <1>5, <1>6, <1>13, <1>15 DEF Next

\* The scheduler, the administrators, Redis and the retries together keep every
\* task to the order of TaskLife: the detailed specification implements it.
THEOREM MailTaskLife == Spec => KeepsTaskLife
<1>1. Init => Life!Init
  BY DEF Init, Life!Init, Stage, InHand
<1>2. IInv /\ [Next]_vars => [Life!Next]_([s \in Task |-> Stage(s)])
  BY StepMovesOne, OneMoveIsLife
<1> QED BY <1>1, <1>2, MailInvariant, PTL DEF Spec, KeepsTaskLife, Life!Spec

-----------------------------------------------------------------------------
(* The index.                                                              *)

\* Numbers are given in order; what carries one, carries one that was given.
MailNumbered ==
  /\ mail.of <= requests /\ mail.until <= now + Lifetime
  /\ \A t \in Writer : of[t] <= requests
  /\ \A n \in removed \cup again : n <= requests
  /\ 0 \notin removed
  /\ \A t \in Writer : mailPc[t] \in {"clean", "set", "del", "zrem"} => of[t] # 0

\* The mail that is being sent is not there yet, unless a command was repeated.
MailSentOnce ==
  /\ \A t, u \in Writer : mailPc[t] \in {"clean", "set"} /\ mailPc[u] \in {"clean", "set"} /\ of[t] = of[u] => t = u
  /\ \A t \in Writer : mailPc[t] \in {"clean", "set"} /\ of[t] \notin again =>
       /\ of[t] # mail.of /\ of[t] \notin removed
       /\ \A u \in Writer : mailPc[u] \in {"del", "zrem"} => of[u] # of[t]
  /\ \A t \in Writer : mailPc[t] = "zrem" /\ of[t] = mail.of => of[t] \in again

MailAlone ==
  alone =>
    /\ \A t, u \in Writer : Index!Writing(t) /\ Index!Writing(u) => t = u
    /\ Index!Live /\ ~Index!Sending => entry >= mail.until
    /\ \A t \in Writer : mailPc[t] = "add" => score[t] >= mail.until
    /\ \A t \in Writer : mailPc[t] \in {"zrem", "unlist"} => ~Index!Live

IndexInv ==
  /\ Index!TypeOK /\ MailNumbered /\ MailSentOnce /\ MailAlone /\ Index!RemovedIsGone

\* The index starts empty.
LEMMA IndexInit == Index!Init => IndexInv
BY IndexConstants
   DEF Index!IndexAssumption, Index!Init, IndexInv, Index!TypeOK, Index!Step, MailNumbered,
       MailSentOnce, MailAlone, Index!RemovedIsGone, Index!Live, Index!Sending, Index!Writing

\* Every step keeps every variable of the index in its type.
LEMMA IndexTypeStep == IndexInv /\ [Index!Next]_(Index!vars) => Index!TypeOK'
<1> SUFFICES ASSUME IndexInv, [Index!Next]_(Index!vars) PROVE Index!TypeOK'
  OBVIOUS
<1> USE IndexConstants DEF Index!IndexAssumption, IndexInv, Index!TypeOK, Index!vars, Index!redis,
         Index!request, Index!count, Index!history, Index!Go, Index!Step, MailNumbered
<1>1. ASSUME NEW t \in Writer, Index!Serve(t) PROVE Index!TypeOK'
  <2>1. CASE Index!SendMail(t) BY <2>1 DEF Index!SendMail, Index!Begin, Index!Others, Index!Writing
  <2>2. CASE Index!Clean(t) BY <2>2 DEF Index!Clean, Index!Run
  <2>3. CASE Index!Set(t) BY <2>3 DEF Index!Set, Index!Run
  <2>4. CASE Index!Stamp(t) BY <2>4 DEF Index!Stamp, Index!ExpiresAt
  <2>5. CASE Index!Add(t) BY <2>5 DEF Index!Add, Index!End, Index!Run
  <2>6. CASE Index!RemoveMail(t) BY <2>6 DEF Index!RemoveMail, Index!Begin, Index!Others,
                                             Index!Writing
  <2>7. CASE Index!Look(t) BY <2>7 DEF Index!Look, Index!Live
  <2>8. CASE Index!Del(t) BY <2>8 DEF Index!Del, Index!Run
  <2>9. CASE Index!Unlist(t) BY <2>9 DEF Index!Unlist, Index!End, Index!Run
  <2>10. CASE Index!Unanswered(t)
    <3>1. /\ mail' \in [of : 0..MaxRequests, until : 0..(MaxTime + Lifetime)]
          /\ entry' \in 0..(MaxTime + Lifetime)
      <4>1. CASE UNCHANGED <<mail, entry>> BY <4>1
      <4>2. CASE Index!Run(t) BY <4>2 DEF Index!Run
      <4> QED BY <2>10, <4>1, <4>2 DEF Index!Unanswered
    <3>2. /\ mailTries' \in [Writer -> 0..1] /\ mailPc' \in [Writer -> Index!Step] /\ of' \in [Writer -> 0..MaxRequests]
          /\ score' \in [Writer -> 0..(MaxTime + Lifetime)] /\ alone' \in BOOLEAN
      <4>1. CASE Index!MoreTries(t) BY <2>10, <4>1 DEF Index!Unanswered, Index!MoreTries
      <4>2. CASE ~Index!MoreTries(t)
        <5>1. \E where \in Index!Step : mailPc' = [mailPc EXCEPT ![t] = where]
          BY <2>10, <4>2 DEF Index!Unanswered, Index!GiveUp, Index!End
        <5>2. /\ mailTries' = [mailTries EXCEPT ![t] = 0]
              /\ of' \in {of, [of EXCEPT ![t] = 0]} /\ score' \in {score, [score EXCEPT ![t] = 0]}
              /\ alone' \in {alone, FALSE}
          BY <2>10, <4>2 DEF Index!Unanswered, Index!GiveUp, Index!End
        <5>3. 0 \in 0..1 /\ 0 \in 0..MaxRequests /\ 0 \in 0..(MaxTime + Lifetime) OBVIOUS
        <5>4. mailPc' \in [Writer -> Index!Step] BY <5>1
        <5>5. mailTries' \in [Writer -> 0..1] BY <5>2, <5>3
        <5>6. of' \in [Writer -> 0..MaxRequests] BY <5>2, <5>3
        <5>7. score' \in [Writer -> 0..(MaxTime + Lifetime)] BY <5>2, <5>3
        <5>8. alone' \in BOOLEAN BY <5>2
        <5> QED BY <5>4, <5>5, <5>6, <5>7, <5>8
      <4> QED BY <4>1, <4>2
    <3> QED BY <2>10, <3>1, <3>2 DEF Index!Unanswered
  <2> QED BY <1>1, <2>1, <2>2, <2>3, <2>4, <2>5, <2>6, <2>7, <2>8, <2>9, <2>10 DEF Index!Serve
<1>2. CASE Index!CleanUp BY <1>2 DEF Index!CleanUp
<1>3. CASE Index!Tick BY <1>3 DEF Index!Tick
<1>4. CASE Index!Restart BY <1>4 DEF Index!Restart
<1>5. CASE UNCHANGED Index!vars BY <1>5
<1> QED BY <1>1, <1>2, <1>3, <1>4, <1>5 DEF Index!Next

\* A request takes the next number, and nothing carries a number not yet given.
LEMMA NumberedStep == IndexInv /\ [Index!Next]_(Index!vars) => MailNumbered'
<1> SUFFICES ASSUME IndexInv, [Index!Next]_(Index!vars) PROVE MailNumbered'
  OBVIOUS
<1> USE IndexConstants DEF Index!IndexAssumption, IndexInv, Index!TypeOK, Index!vars, Index!redis,
         Index!request, Index!count, Index!history, Index!Go, MailNumbered
<1>1. ASSUME NEW t \in Writer, Index!Serve(t) PROVE MailNumbered'
  <2>1. CASE Index!SendMail(t) BY <2>1 DEF Index!SendMail, Index!Begin, Index!Others, Index!Writing
  <2>2. CASE Index!Clean(t) BY <2>2 DEF Index!Clean, Index!Run
  <2>3. CASE Index!Set(t) BY <2>3 DEF Index!Set, Index!Run
  <2>4. CASE Index!Stamp(t) BY <2>4 DEF Index!Stamp, Index!ExpiresAt
  <2>5. CASE Index!Add(t) BY <2>5 DEF Index!Add, Index!End, Index!Run
  <2>6. CASE Index!RemoveMail(t) BY <2>6 DEF Index!RemoveMail, Index!Begin, Index!Others,
                                             Index!Writing
  <2>7. CASE Index!Look(t) BY <2>7 DEF Index!Look, Index!Live
  <2>8. CASE Index!Del(t) BY <2>8 DEF Index!Del, Index!Run
  <2>9. CASE Index!Unlist(t) BY <2>9 DEF Index!Unlist, Index!End, Index!Run
  <2>10. CASE Index!Unanswered(t) BY <2>10 DEF Index!Unanswered, Index!Run, Index!End,
                                               Index!GiveUp, Index!MoreTries
  <2> QED BY <1>1, <2>1, <2>2, <2>3, <2>4, <2>5, <2>6, <2>7, <2>8, <2>9, <2>10 DEF Index!Serve
<1>2. CASE Index!CleanUp BY <1>2 DEF Index!CleanUp
<1>3. CASE Index!Tick BY <1>3 DEF Index!Tick
<1>4. CASE Index!Restart BY <1>4 DEF Index!Restart
<1>5. CASE UNCHANGED Index!vars BY <1>5
<1> QED BY <1>1, <1>2, <1>3, <1>4, <1>5 DEF Index!Next

\* Only a repeated SET can put a mail back that was there.
LEMMA SentOnceStep == IndexInv /\ [Index!Next]_(Index!vars) => MailSentOnce'
<1> SUFFICES ASSUME IndexInv, [Index!Next]_(Index!vars) PROVE MailSentOnce'
  OBVIOUS
<1> USE IndexConstants DEF Index!IndexAssumption, IndexInv, Index!TypeOK, Index!vars, Index!redis,
         Index!request, Index!count, Index!history, Index!Go, MailNumbered, MailSentOnce
<1>1. ASSUME NEW t \in Writer, Index!Serve(t) PROVE MailSentOnce'
  <2>1. CASE Index!SendMail(t) BY <2>1 DEF Index!SendMail, Index!Begin, Index!Others, Index!Writing
  <2>2. CASE Index!Clean(t) BY <2>2 DEF Index!Clean, Index!Run
  <2>3. CASE Index!Set(t) BY <2>3 DEF Index!Set, Index!Run
  <2>4. CASE Index!Stamp(t) BY <2>4 DEF Index!Stamp, Index!ExpiresAt
  <2>5. CASE Index!Add(t) BY <2>5 DEF Index!Add, Index!End, Index!Run
  <2>6. CASE Index!RemoveMail(t) BY <2>6 DEF Index!RemoveMail, Index!Begin, Index!Others,
                                             Index!Writing
  <2>7. CASE Index!Look(t) BY <2>7 DEF Index!Look, Index!Live
  <2>8. CASE Index!Del(t) BY <2>8 DEF Index!Del, Index!Run
  <2>9. CASE Index!Unlist(t) BY <2>9 DEF Index!Unlist, Index!End, Index!Run
  <2>10. CASE Index!Unanswered(t) BY <2>10 DEF Index!Unanswered, Index!Run, Index!End,
                                               Index!GiveUp, Index!MoreTries
  <2> QED BY <1>1, <2>1, <2>2, <2>3, <2>4, <2>5, <2>6, <2>7, <2>8, <2>9, <2>10 DEF Index!Serve
<1>2. CASE Index!CleanUp BY <1>2 DEF Index!CleanUp
<1>3. CASE Index!Tick BY <1>3 DEF Index!Tick
<1>4. CASE Index!Restart BY <1>4 DEF Index!Restart
<1>5. CASE UNCHANGED Index!vars BY <1>5
<1> QED BY <1>1, <1>2, <1>3, <1>4, <1>5 DEF Index!Next

\* While requests do not overlap, each leaves the index in agreement with the mail.
LEMMA AloneStep == IndexInv /\ [Index!Next]_(Index!vars) => MailAlone'
<1> SUFFICES ASSUME IndexInv, [Index!Next]_(Index!vars) PROVE MailAlone'
  OBVIOUS
<1> USE IndexConstants DEF Index!IndexAssumption, IndexInv, Index!TypeOK, Index!vars, Index!redis,
         Index!request, Index!count, Index!history, Index!Go, MailNumbered, MailAlone, Index!Live,
         Index!Sending, Index!Writing
<1>1. ASSUME NEW t \in Writer, Index!Serve(t) PROVE MailAlone'
  <2>1. CASE Index!SendMail(t) BY <2>1 DEF Index!SendMail, Index!Begin, Index!Others, Index!Writing
  <2>2. CASE Index!Clean(t) BY <2>2 DEF Index!Clean, Index!Run
  <2>3. CASE Index!Set(t) BY <2>3 DEF Index!Set, Index!Run
  <2>4. CASE Index!Stamp(t) BY <2>4 DEF Index!Stamp, Index!ExpiresAt
  <2>5. CASE Index!Add(t) BY <2>5 DEF Index!Add, Index!End, Index!Run
  <2>6. CASE Index!RemoveMail(t) BY <2>6 DEF Index!RemoveMail, Index!Begin, Index!Others,
                                             Index!Writing
  <2>7. CASE Index!Look(t) BY <2>7 DEF Index!Look, Index!Live
  <2>8. CASE Index!Del(t) BY <2>8 DEF Index!Del, Index!Run
  <2>9. CASE Index!Unlist(t) BY <2>9 DEF Index!Unlist, Index!End, Index!Run
  <2>10. CASE Index!Unanswered(t)
    <3>1. CASE ~Index!MoreTries(t) BY <2>10, <3>1 DEF Index!Unanswered, Index!GiveUp
    <3>2. CASE Index!MoreTries(t) /\ UNCHANGED <<mail, entry>>
      BY <2>10, <3>2 DEF Index!Unanswered
    <3>3. CASE Index!MoreTries(t) /\ Index!Run(t)
      <4>1. UNCHANGED <<mailPc, of, score, alone, now>> BY <2>10, <3>3 DEF Index!Unanswered
      <4>2. Index!Sending' <=> Index!Sending BY <4>1
      <4>3. CASE mailPc[t] \in {"clean", "set", "add"}
        <5>1. Index!Sending BY <4>3
        <5> QED BY <2>10, <3>3, <4>1, <4>2, <4>3, <5>1 DEF Index!Run
      <4>4. CASE mailPc[t] = "look" BY <2>10, <3>3, <4>1, <4>2, <4>4 DEF Index!Run
      <4>5. CASE mailPc[t] = "del" BY <2>10, <3>3, <4>1, <4>2, <4>5 DEF Index!Run
      <4>6. CASE mailPc[t] \in {"zrem", "unlist"}
        <5>1. mail' = mail /\ (alone => ~Index!Live) BY <3>3, <4>6 DEF Index!Run
        <5> QED BY <4>1, <4>2, <4>6, <5>1
      <4> QED BY <2>10, <4>3, <4>4, <4>5, <4>6 DEF Index!Unanswered, Index!Step
    <3> QED BY <2>10, <3>1, <3>2, <3>3 DEF Index!Unanswered
  <2> QED BY <1>1, <2>1, <2>2, <2>3, <2>4, <2>5, <2>6, <2>7, <2>8, <2>9, <2>10 DEF Index!Serve
<1>2. CASE Index!CleanUp BY <1>2 DEF Index!CleanUp
<1>3. CASE Index!Tick BY <1>3 DEF Index!Tick
<1>4. CASE Index!Restart
  <2>1. \A t \in Writer : mailPc'[t] = "idle" BY <1>4 DEF Index!Restart
  <2>2. ~Index!Sending' BY <2>1
  <2>3. alone' => alone /\ ~Index!Sending BY <1>4 DEF Index!Restart
  <2> QED BY <1>4, <2>1, <2>2, <2>3 DEF Index!Restart
<1>5. CASE UNCHANGED Index!vars BY <1>5
<1> QED BY <1>1, <1>2, <1>3, <1>4, <1>5 DEF Index!Next

\* A confirmed removal is undone only by a command that was repeated.
LEMMA GoneStep == IndexInv /\ [Index!Next]_(Index!vars) => Index!RemovedIsGone'
<1> SUFFICES ASSUME IndexInv, [Index!Next]_(Index!vars) PROVE Index!RemovedIsGone'
  OBVIOUS
<1> USE IndexConstants DEF Index!IndexAssumption, IndexInv, Index!TypeOK, Index!vars, Index!redis,
         Index!request, Index!count, Index!history, Index!Go, MailNumbered, MailSentOnce,
         Index!RemovedIsGone
<1>1. ASSUME NEW t \in Writer, Index!Serve(t) PROVE Index!RemovedIsGone'
  <2>1. CASE Index!SendMail(t) BY <2>1 DEF Index!SendMail, Index!Begin, Index!Others, Index!Writing
  <2>2. CASE Index!Clean(t) BY <2>2 DEF Index!Clean, Index!Run
  <2>3. CASE Index!Set(t) BY <2>3 DEF Index!Set, Index!Run
  <2>4. CASE Index!Stamp(t) BY <2>4 DEF Index!Stamp, Index!ExpiresAt
  <2>5. CASE Index!Add(t) BY <2>5 DEF Index!Add, Index!End, Index!Run
  <2>6. CASE Index!RemoveMail(t) BY <2>6 DEF Index!RemoveMail, Index!Begin, Index!Others,
                                             Index!Writing
  <2>7. CASE Index!Look(t) BY <2>7 DEF Index!Look, Index!Live
  <2>8. CASE Index!Del(t) BY <2>8 DEF Index!Del, Index!Run
  <2>9. CASE Index!Unlist(t) BY <2>9 DEF Index!Unlist, Index!End, Index!Run
  <2>10. CASE Index!Unanswered(t) BY <2>10 DEF Index!Unanswered, Index!Run, Index!End,
                                               Index!GiveUp, Index!MoreTries
  <2> QED BY <1>1, <2>1, <2>2, <2>3, <2>4, <2>5, <2>6, <2>7, <2>8, <2>9, <2>10 DEF Index!Serve
<1>2. CASE Index!CleanUp BY <1>2 DEF Index!CleanUp
<1>3. CASE Index!Tick BY <1>3 DEF Index!Tick
<1>4. CASE Index!Restart BY <1>4 DEF Index!Restart
<1>5. CASE UNCHANGED Index!vars BY <1>5
<1> QED BY <1>1, <1>2, <1>3, <1>4, <1>5 DEF Index!Next

\* The invariant of the index, step by step.
LEMMA IndexStep == IndexInv /\ [Index!Next]_(Index!vars) => IndexInv'
BY IndexTypeStep, NumberedStep, SentOnceStep, AloneStep, GoneStep DEF IndexInv

-----------------------------------------------------------------------------
(* The client.                                                             *)

\* What is under way on a connection: at most one command, or its reply.
Mine(t) == sock[slot[t]]
Carries(s, in, out) == inbox[s] = in /\ outbox[s] = out
Quiet(s) == Carries(s, <<>>, <<>>)

Shapes ==
  /\ inbox \in [Socket -> Seq(0..MaxCalls)] /\ outbox \in [Socket -> Seq(0..MaxCalls)]
  /\ reply \in [Client!Call -> 0..MaxCalls]
  /\ stage \in [Client!Call -> {"new", "open", "answered", "failed"}]

\* A call belongs to one thread, from when it is made until it returns.
OneCall ==
  /\ \A t \in Caller : callPc[t] = "idle" <=> call[t] = 0
  /\ \A t \in Caller : call[t] # 0 => call[t] <= made /\ stage[call[t]] = "open"
  /\ \A t, u \in Caller : call[t] = call[u] /\ call[t] # 0 => t = u
  /\ \A n \in Client!Call : n > made <=> stage[n] = "new"
  /\ \A t \in Caller : callTries[t] # 0 => callPc[t] \in Client!Inside
  /\ \A t \in Caller : callPc[t] \in {"setup", "send", "receive"} => Mine(t) \in Socket

OneUnderWay ==
  /\ \A s \in Socket : inbox[s] = <<>> \/ \E m \in 0..MaxCalls : Carries(s, <<m>>, <<>>)
  /\ \A s \in Socket, n \in Client!Call : inbox[s] = <<n>> => s \in ready
  /\ \A s \in Socket, n \in Client!Call : outbox[s] = <<n>> => ran[n] > 0
  /\ \A s \in Socket : ~Client!Open(s) => outbox[s] = <<>>

Spare(i) == sock[i] # None /\ owner[i] = None => Quiet(sock[i]) /\ sock[i] \in ready

Holds(t) ==
  /\ callPc[t] \in {"attempt", "send"} /\ Mine(t) # None => Quiet(Mine(t)) /\ Mine(t) \in ready
  /\ callPc[t] = "setup" =>
       \/ Quiet(Mine(t)) \/ Carries(Mine(t), <<0>>, <<>>)
       \/ Carries(Mine(t), <<>>, <<0>>) /\ Mine(t) \in ready
  /\ callPc[t] = "receive" =>
       /\ Mine(t) \in ready
       /\ \/ Quiet(Mine(t)) \/ Carries(Mine(t), <<call[t]>>, <<>>)
          \/ Carries(Mine(t), <<>>, <<call[t]>>)

OfHolder == (\A i \in Client!Slot : Spare(i)) /\ (\A t \in Caller : Holds(t))

\* The runs of a call, those to come included, are as many as its attempts.
Pend(n) == {s \in Socket : inbox[s] = <<n>>}
Runs(n) == ran[n] + Cardinality(Pend(n))
Sent(t) == callTries[t] + (IF callPc[t] = "receive" THEN 1 ELSE 0)
Twice ==
  /\ \A n \in Client!Call : IsFiniteSet(Pend(n)) /\ Runs(n) <= 2
  /\ \A n \in Client!Call : n > made => Runs(n) = 0
  /\ \A t \in Caller, n \in Client!Call : call[t] = n => Runs(n) <= Sent(t)

ClientInv ==
  /\ Client!TypeOK /\ Shapes /\ Client!HolderWorks /\ OneCall /\ OneUnderWay /\ OfHolder /\ Twice
  /\ Client!ReplyIsOwn /\ Client!AfterSetup

\* The client has two connections and numbers its calls from one; zero is not a call.
LEMMA ClientSlots == Client!Slot = {0, 1} /\ Client!Call = 1..MaxCalls /\ 0 \notin Client!Call
BY DEF Client!Slot, Client!Call

\* A number on a connection is the set-up's zero or a call.
LEMMA SetupOrCall == \A m \in 0..MaxCalls : m = 0 \/ m \in Client!Call
BY ClientConstants DEF Client!RedisAssumption, Client!Call

\* Sequences of at most one message.
LEMMA OneMessage ==
  /\ \A m \in Nat : /\ <<m>> # <<>> /\ Head(<<m>>) = m /\ Tail(<<m>>) = <<>>
                    /\ Append(<<>>, m) = <<m>>
  /\ \A m, n \in Nat : <<m>> = <<n>> => m = n
OBVIOUS

\* Messages are added and taken.
LEMMA Messages ==
  ASSUME NEW q \in Seq(0..MaxCalls), NEW m \in 0..MaxCalls
  PROVE  /\ Append(q, m) \in Seq(0..MaxCalls) /\ <<m>> \in Seq(0..MaxCalls)
         /\ <<>> \in Seq(0..MaxCalls)
         /\ q # <<>> => Head(q) \in 0..MaxCalls /\ Tail(q) \in Seq(0..MaxCalls)
<1>1. Append(q, m) \in Seq(0..MaxCalls) BY AppendProperties
<1>2. <<m>> \in Seq(0..MaxCalls) /\ <<>> \in Seq(0..MaxCalls) OBVIOUS
<1>3. q # <<>> => Head(q) \in 0..MaxCalls /\ Tail(q) \in Seq(0..MaxCalls)
  BY HeadTailProperties
<1> QED BY <1>1, <1>2, <1>3

\* The client's invariant holds before the first call.
LEMMA ClientInit == Client!Init => ClientInv
<1> SUFFICES ASSUME Client!Init PROVE ClientInv OBVIOUS
<1> USE ClientConstants, ClientSlots, OneMessage DEF Client!Init, Client!RedisAssumption
<1>1. Client!TypeOK BY DEF Client!TypeOK, Client!Inside
<1>2. Shapes BY DEF Shapes
<1>3. Client!HolderWorks BY DEF Client!HolderWorks, Client!Inside
<1>4. OneCall BY DEF OneCall
<1>5. OneUnderWay BY DEF OneUnderWay
<1>6. OfHolder BY DEF OfHolder, Spare, Holds, Mine, Client!Inside
<1>7. Twice
  <2>1. \A n \in Client!Call : Pend(n) = {} BY DEF Pend
  <2>2. \A n \in Client!Call : IsFiniteSet(Pend(n)) /\ Runs(n) = 0
    <3>1. \A n \in Client!Call : IsFiniteSet(Pend(n)) /\ Cardinality(Pend(n)) = 0
      BY ONLY <2>1, FS_EmptySet
    <3>2. \A n \in Client!Call : ran[n] = 0 OBVIOUS
    <3> QED BY <3>1, <3>2 DEF Runs
  <2>3. \A t \in Caller : call[t] = 0 OBVIOUS
  <2> QED BY <2>2, <2>3 DEF Twice
<1>8. Client!ReplyIsOwn /\ Client!AfterSetup BY DEF Client!ReplyIsOwn, Client!AfterSetup
<1> QED BY <1>1, <1>2, <1>3, <1>4, <1>5, <1>6, <1>7, <1>8 DEF ClientInv

\* The two ways an attempt ends that failed.
Again(t) ==
  /\ callTries[t] = 0 /\ callPc' = [callPc EXCEPT ![t] = "attempt"]
  /\ callTries' = [callTries EXCEPT ![t] = 1] /\ UNCHANGED <<owner, call, stage, reply>>
Returns(t, how, what) ==
  /\ callPc' = [callPc EXCEPT ![t] = "idle"] /\ owner' = [owner EXCEPT ![slot[t]] = None]
  /\ stage' = [stage EXCEPT ![call[t]] = how] /\ reply' = [reply EXCEPT ![call[t]] = what]
  /\ call' = [call EXCEPT ![t] = 0] /\ callTries' = [callTries EXCEPT ![t] = 0]

\* A failed attempt is repeated once; the second one fails the call.
LEMMA TryAgainCases == ASSUME Client!TypeOK, NEW t \in Caller, Client!TryAgain(t)
                       PROVE  Again(t) \/ (callTries[t] = 1 /\ Returns(t, "failed", 0))
<1>1. callTries[t] \in {0, 1} BY DEF Client!TypeOK
<1>2. CASE callTries[t] = 0
  <2>1. callTries' = [callTries EXCEPT ![t] = callTries[t] + 1]
    BY <1>2 DEF Client!TryAgain, Client!MoreTries
  <2>2. callTries[t] + 1 = 1 BY <1>2
  <2>3. callTries' = [callTries EXCEPT ![t] = 1] BY ONLY <2>1, <2>2
  <2>4. callPc' = [callPc EXCEPT ![t] = "attempt"] /\ UNCHANGED <<owner, call, stage, reply>>
    BY <1>2 DEF Client!TryAgain, Client!MoreTries, Client!Go
  <2> QED BY ONLY <1>2, <2>3, <2>4 DEF Again
<1>3. CASE callTries[t] = 1
  BY <1>3 DEF Client!TryAgain, Client!MoreTries, Client!Go, Client!Return, Client!Unlock, Returns
<1> QED BY <1>1, <1>2, <1>3

\* What a step of a thread inside leaves alone.
Alone(t) ==
  /\ callPc[t] \in Client!Inside /\ owner[slot[t]] = t /\ call[t] \in Client!Call
  /\ slot' = slot /\ next' = next /\ made' = made
  /\ \A u \in Caller \ {t} : callPc'[u] = callPc[u] /\ call'[u] = call[u] /\ callTries'[u] = callTries[u]
  /\ \A i \in Client!Slot : i # slot[t] => sock'[i] = sock[i] /\ owner'[i] = owner[i]
  /\ \A s \in Socket : s \notin {Mine(t), Mine(t)'} => inbox'[s] = inbox[s] /\ outbox'[s] = outbox[s]

Inner(t) == \/ Client!ConnectFails(t) \/ Client!Send(t) \/ Client!Receive(t)
            \/ Client!AttemptFails(t) \/ \E s \in Socket : Client!Connect(t, s)

\* A thread inside an attempt owns its connection, and nobody else uses it.
LEMMA InnerAlone == ASSUME ClientInv, NEW t \in Caller, Inner(t) PROVE Alone(t)
<1> USE ClientConstants DEF Client!Slot, Client!Call, Client!RedisAssumption, ClientInv,
                            Client!TypeOK, Shapes, Mine, Client!Mine,
        Client!pool, Client!server, Client!history, Client!thread
<1>1. callPc[t] \in Client!Inside
  BY DEF Inner, Client!ConnectFails, Client!Send, Client!Receive, Client!AttemptFails,
         Client!Connect, Client!Inside
<1>2. owner[slot[t]] = t /\ call[t] \in Client!Call
  BY <1>1 DEF Client!HolderWorks, OneCall, Client!Inside
<1>3. CASE Client!ConnectFails(t)
  <2>1. Again(t) \/ Returns(t, "failed", 0) BY <1>3, TryAgainCases DEF Client!ConnectFails
  <2> QED BY <1>1, <1>2, <1>3, <2>1 DEF Client!ConnectFails, Again, Returns, Alone
<1>4. CASE Client!Send(t) BY <1>1, <1>2, <1>4 DEF Client!Send, Client!Go, Alone
<1>5. CASE Client!Receive(t)
  BY <1>1, <1>2, <1>5 DEF Client!Receive, Client!Go, Client!Return, Client!Unlock, Alone
<1>6. CASE Client!AttemptFails(t)
  <2>1. Again(t) \/ Returns(t, "failed", 0) BY <1>6, TryAgainCases DEF Client!AttemptFails
  <2> QED BY <1>1, <1>2, <1>6, <2>1 DEF Client!AttemptFails, Client!CloseSocket, Again, Returns,
                                        Alone
<1>7. CASE \E s \in Socket : Client!Connect(t, s)
  BY <1>1, <1>2, <1>7 DEF Client!Connect, Client!Connected, Client!Go, Alone
<1> QED BY <1>3, <1>4, <1>5, <1>6, <1>7 DEF Inner

\* A call that returns keeps what it was given.
LEMMA ReturnShapes ==
  ASSUME Shapes, NEW t \in Caller, call[t] \in Client!Call, NEW how \in {"answered", "failed"},
         NEW what \in 0..MaxCalls, Returns(t, how, what)
  PROVE  /\ stage' \in [Client!Call -> {"new", "open", "answered", "failed"}]
         /\ reply' \in [Client!Call -> 0..MaxCalls]
BY DEF Shapes, Returns

\* Messages are sent and taken one by one.
LEMMA ShapesStep == ClientInv /\ [Client!Next]_(Client!vars) => Shapes'
<1> SUFFICES ASSUME ClientInv, [Client!Next]_(Client!vars) PROVE Shapes'
  OBVIOUS
<1> USE ClientConstants
    DEF Client!Slot, Client!RedisAssumption, ClientInv, Client!TypeOK, Shapes, Client!vars,
        Client!pool, Client!thread,
        Client!server, Client!history, Client!Mine, Mine
<1>0. 0 \in 0..MaxCalls /\ <<>> \in Seq(0..MaxCalls) /\ <<0>> \in Seq(0..MaxCalls) BY Messages
<1>1. ASSUME NEW t \in Caller, Inner(t) PROVE Shapes'
  <2>1. Alone(t) BY <1>1, InnerAlone
  <2>2. call[t] \in Client!Call BY <2>1 DEF Alone
  <2>3. CASE Client!ConnectFails(t)
    <3>1. Again(t) \/ Returns(t, "failed", 0) BY <2>3, TryAgainCases DEF Client!ConnectFails
    <3> QED BY <1>0, <2>2, <2>3, <3>1, ReturnShapes DEF Client!ConnectFails, Again
  <2>4. CASE Client!AttemptFails(t)
    <3>1. Again(t) \/ Returns(t, "failed", 0) BY <2>4, TryAgainCases DEF Client!AttemptFails
    <3>2. stage' \in [Client!Call -> {"new", "open", "answered", "failed"}]
          /\ reply' \in [Client!Call -> 0..MaxCalls]
      BY <1>0, <2>2, <3>1, ReturnShapes DEF Again
    <3> QED BY <1>0, <2>4, <3>2 DEF Client!AttemptFails, Client!CloseSocket
  <2>5. CASE \E s \in Socket : Client!Connect(t, s)
    BY <1>0, <2>5 DEF Client!Connect, Client!Connected, Client!Setup
  <2>6. CASE Client!Send(t)
    <3>1. \A q \in Seq(0..MaxCalls) : Append(q, call[t]) \in Seq(0..MaxCalls) BY <2>2, Messages
    <3> QED BY <2>6, <3>1 DEF Client!Send
  <2>7. CASE Client!Receive(t)
    <3>1. outbox[Mine(t)] # <<>> /\ outbox' = [outbox EXCEPT ![Mine(t)] = Tail(@)]
          /\ inbox' = inbox BY <2>7 DEF Client!Receive
    <3>2. Mine(t) \in Socket BY <2>7 DEF Client!Receive, OneCall
    <3>3. Tail(outbox[Mine(t)]) \in Seq(0..MaxCalls) /\ Head(outbox[Mine(t)]) \in 0..MaxCalls
      BY <3>1, <3>2, <1>0, Messages
    <3>4. outbox' \in [Socket -> Seq(0..MaxCalls)] BY <3>1, <3>2, <3>3
    <3>5. UNCHANGED <<stage, reply>> \/ Returns(t, "answered", Head(outbox[Mine(t)]))
      BY <2>7 DEF Client!Receive, Client!Return, Client!Go, Client!Unlock, Returns
    <3> QED BY <2>2, <3>1, <3>3, <3>4, <3>5, ReturnShapes
  <2> QED BY <1>1, <2>3, <2>4, <2>5, <2>6, <2>7 DEF Inner
<1>2. ASSUME NEW t \in Caller, Client!Begin(t) \/ Client!Lock(t) \/ Client!TryNext(t) PROVE Shapes'
  BY <1>2 DEF Client!Begin, Client!Lock, Client!TryNext
<1>3. ASSUME NEW s \in Socket, Client!Serve(s) PROVE Shapes'
  <2>1. inbox[s] # <<>> BY <1>3 DEF Client!Serve
  <2>2. Tail(inbox[s]) \in Seq(0..MaxCalls) /\ Head(inbox[s]) \in 0..MaxCalls
    BY <1>0, <2>1, Messages
  <2>3. Append(outbox[s], Head(inbox[s])) \in Seq(0..MaxCalls) BY <2>2, Messages
  <2> QED BY <1>3, <2>2, <2>3 DEF Client!Serve
<1>4. ASSUME NEW s \in Socket, Client!Break(s) PROVE Shapes'
  BY <1>0, <1>4 DEF Client!Break
<1>5. CASE UNCHANGED Client!vars BY <1>5
<1> QED BY <1>1, <1>2, <1>3, <1>4, <1>5 DEF Client!Next, Client!Work, Inner

\* Repeating an attempt and returning from a call keep the types.
LEMMA ReturnTypes ==
  ASSUME Client!TypeOK, NEW t \in Caller, slot[t] \in Client!Slot, NEW how, NEW what,
         Again(t) \/ Returns(t, how, what)
  PROVE  /\ owner' \in [Client!Slot -> Caller \cup {None}] /\ call' \in [Caller -> 0..MaxCalls]
         /\ callTries' \in [Caller -> 0..1]
         /\ callPc' \in [Caller -> Client!Inside \cup {"idle", "try", "other", "wait"}]
<1>1. 0 \in 0..MaxCalls /\ 0 \in 0..1 /\ 1 \in 0..1
  BY ClientConstants DEF Client!RedisAssumption
<1>2. CASE Again(t) BY <1>1, <1>2 DEF Client!TypeOK, Client!Inside, Again
<1>3. CASE Returns(t, how, what)
  <2>1. /\ owner' = [owner EXCEPT ![slot[t]] = None] /\ call' = [call EXCEPT ![t] = 0]
        /\ callTries' = [callTries EXCEPT ![t] = 0] /\ callPc' = [callPc EXCEPT ![t] = "idle"]
    BY <1>3 DEF Returns
  <2> QED BY <1>1, <2>1 DEF Client!TypeOK
<1> QED BY <1>2, <1>3

\* Every step keeps every variable in its type.
LEMMA ClientTypeStep == ClientInv /\ [Client!Next]_(Client!vars) => Client!TypeOK'
<1> SUFFICES ASSUME ClientInv, [Client!Next]_(Client!vars) PROVE Client!TypeOK'
  OBVIOUS
<1>0. \A s \in Socket : {inbox'[s], outbox'[s]} \subseteq Seq(0..MaxCalls)
  BY ShapesStep DEF Shapes
<1> USE ClientConstants, <1>0
    DEF Client!Slot, Client!RedisAssumption, ClientInv, Client!TypeOK, Client!vars, Client!pool,
        Client!thread,
        Client!server, Client!history, Client!Mine, Mine, Client!Inside, Client!Go
<1>1. ASSUME NEW t \in Caller, Inner(t) PROVE Client!TypeOK'
  <2>1. call[t] \in Client!Call /\ slot[t] \in Client!Slot BY <1>1, InnerAlone DEF Alone
  <2>3. CASE Client!ConnectFails(t)
    <3>1. Again(t) \/ Returns(t, "failed", 0) BY <2>3, TryAgainCases DEF Client!ConnectFails
    <3>2. /\ owner' \in [Client!Slot -> Caller \cup {None}] /\ call' \in [Caller -> 0..MaxCalls]
          /\ callTries' \in [Caller -> 0..1]
          /\ callPc' \in [Caller -> Client!Inside \cup {"idle", "try", "other", "wait"}]
      BY <2>1, <3>1, ReturnTypes
    <3> QED BY <2>3, <3>2 DEF Client!ConnectFails
  <2>4. CASE Client!AttemptFails(t)
    <3>1. Again(t) \/ Returns(t, "failed", 0) BY <2>4, TryAgainCases DEF Client!AttemptFails
    <3>2. /\ owner' \in [Client!Slot -> Caller \cup {None}] /\ call' \in [Caller -> 0..MaxCalls]
          /\ callTries' \in [Caller -> 0..1]
          /\ callPc' \in [Caller -> Client!Inside \cup {"idle", "try", "other", "wait"}]
      BY <2>1, <3>1, ReturnTypes
    <3>3. sock' = [sock EXCEPT ![slot[t]] = None]
      BY <2>4 DEF Client!AttemptFails, Client!CloseSocket
    <3>4. sock' \in [Client!Slot -> Socket \cup {None}] /\ (sock'[0] = sock'[1] => sock'[0] = None)
      BY <2>1, <3>3
    <3> QED BY <2>4, <3>2, <3>4 DEF Client!AttemptFails
  <2>5. ASSUME NEW s \in Socket, Client!Connect(t, s) PROVE Client!TypeOK'
    <3>1. /\ sock' = [sock EXCEPT ![slot[t]] = s] /\ callPc' = [callPc EXCEPT ![t] = "setup"]
          /\ \A i \in Client!Slot : sock[i] # s /\ ready' = ready \ {s}
      BY <2>5 DEF Client!Connect, Client!Connected, Client!Unused
    <3>2. sock' \in [Client!Slot -> Socket \cup {None}] /\ (sock'[0] = sock'[1] => sock'[0] = None)
      BY <2>1, <3>1
    <3> QED BY <2>5, <3>1, <3>2 DEF Client!Connect, Client!Connected
  <2>6. CASE Client!Send(t) BY <2>6 DEF Client!Send
  <2>7. CASE Client!Receive(t)
    <3>1. \/ UNCHANGED <<owner, call, callTries>> /\ callPc' = [callPc EXCEPT ![t] = "send"]
          \/ Returns(t, "answered", Head(outbox[Mine(t)]))
      BY <2>7 DEF Client!Receive, Client!Return, Client!Go, Client!Unlock, Returns
    <3>2. /\ owner' \in [Client!Slot -> Caller \cup {None}] /\ call' \in [Caller -> 0..MaxCalls]
          /\ callTries' \in [Caller -> 0..1]
          /\ callPc' \in [Caller -> Client!Inside \cup {"idle", "try", "other", "wait"}]
      <4>1. CASE UNCHANGED <<owner, call, callTries>> /\ callPc' = [callPc EXCEPT ![t] = "send"]
        BY <4>1
      <4> QED BY <2>1, <3>1, <4>1, ReturnTypes
    <3> QED BY <2>7, <3>2 DEF Client!Receive
  <2> QED BY <1>1, <2>3, <2>4, <2>5, <2>6, <2>7 DEF Inner
<1>2. ASSUME NEW t \in Caller, Client!Begin(t) \/ Client!Lock(t) \/ Client!TryNext(t)
      PROVE  Client!TypeOK'
  <2>1. CASE Client!Begin(t)
    <3>1. next' \in Client!Slot /\ made' \in 0..MaxCalls BY <2>1 DEF Client!Begin
    <3> QED BY <2>1, <3>1 DEF Client!Begin
  <2>2. CASE Client!Lock(t) BY <2>2 DEF Client!Lock
  <2>3. CASE Client!TryNext(t)
    <3>1. slot' = [slot EXCEPT ![t] = 1 - slot[t]] BY <2>3 DEF Client!TryNext
    <3>2. slot[t] \in {0, 1} OBVIOUS
    <3>3. 1 - slot[t] \in {0, 1} BY ONLY <3>2
    <3> QED BY <2>3, <3>1, <3>3 DEF Client!TryNext
  <2> QED BY <1>2, <2>1, <2>2, <2>3
<1>3. ASSUME NEW s \in Socket, Client!Serve(s) PROVE Client!TypeOK'
  <2>1. inbox[s] # <<>> /\ inbox[s] \in Seq(0..MaxCalls) BY <1>3 DEF Client!Serve, Shapes
  <2>2. Head(inbox[s]) \in 0..MaxCalls BY <2>1, HeadTailProperties
  <2>3. Head(inbox[s]) = 0 \/ Head(inbox[s]) \in Client!Call BY ONLY <2>2, SetupOrCall
  <2>4. ran' \in [Client!Call -> Nat] /\ stray' \subseteq Client!Call /\ ready' \subseteq Socket
    <3> DEFINE n == Head(inbox[s])
    <3>1. CASE n = 0 BY <1>3, <3>1 DEF Client!Serve, Client!Setup
    <3>2. CASE n \in Client!Call
      <4>1. /\ ran' = [ran EXCEPT ![n] = ran[n] + 1] /\ ready' = ready
            /\ stray' \in {stray, stray \cup {n}}
        BY <1>3, <3>2 DEF Client!Serve, Client!Setup, Client!Call
      <4>2. ran \in [Client!Call -> Nat] /\ stray \subseteq Client!Call /\ ready \subseteq Socket
        OBVIOUS
      <4> QED BY ONLY <3>2, <4>1, <4>2
    <3> QED BY <2>3, <3>1, <3>2
  <2> QED BY <1>3, <2>4 DEF Client!Serve
<1>4. ASSUME NEW s \in Socket, Client!Break(s) PROVE Client!TypeOK'
  BY <1>4 DEF Client!Break
<1>5. CASE UNCHANGED Client!vars BY <1>5
<1> QED BY <1>1, <1>2, <1>3, <1>4, <1>5 DEF Client!Next, Client!Work, Inner

\* A step inside keeps the connection and the call, or the call returns.
Stays(t) == callPc'[t] \in Client!Inside /\ UNCHANGED <<owner, call, stage, reply>>
Answers(t) ==
  /\ Client!Receive(t) /\ callPc[t] = "receive" /\ outbox[Mine(t)] = <<call[t]>>
  /\ Returns(t, "answered", call[t])

\* What a thread finds on its connection.
LEMMA ReceivesOwn ==
  ASSUME ClientInv, NEW t \in Caller, Client!Receive(t)
  PROVE  /\ Mine(t) \in Socket /\ inbox[Mine(t)] = <<>> /\ Mine(t) \in ready
         /\ callPc[t] = "receive" => outbox[Mine(t)] = <<call[t]>>
         /\ callPc[t] = "setup" => outbox[Mine(t)] = <<0>>
<1>1. callPc[t] \in {"setup", "receive"} /\ outbox[Mine(t)] # <<>>
  BY DEF Client!Receive, Client!Mine, Mine
<1>2. Holds(t) /\ Mine(t) \in Socket BY <1>1 DEF ClientInv, OfHolder, OneCall
<1> QED BY <1>1, <1>2 DEF Holds, Quiet, Carries

\* A step inside an attempt goes on with the call, fails it or answers it.
LEMMA InnerEnds ==
  ASSUME ClientInv, NEW t \in Caller, Inner(t)
  PROVE  Stays(t) \/ Returns(t, "failed", 0) \/ Answers(t)
<1>0. call[t] \in Client!Call /\ Client!TypeOK BY InnerAlone DEF Alone, ClientInv
<1> USE <1>0 DEF Client!Inside
<1>1. ASSUME Again(t) PROVE Stays(t) BY <1>1 DEF Again, Stays, Client!TypeOK
<1>2. CASE Client!ConnectFails(t) BY <1>1, <1>2, TryAgainCases DEF Client!ConnectFails
<1>3. CASE Client!AttemptFails(t) BY <1>1, <1>3, TryAgainCases DEF Client!AttemptFails
<1>4. CASE \E s \in Socket : Client!Connect(t, s)
  BY <1>4 DEF Client!Connect, Client!Connected, Client!Go, Stays, Client!TypeOK, Client!pool,
              Client!history
<1>5. CASE Client!Send(t)
  BY <1>5 DEF Client!Send, Client!Go, Stays, Client!TypeOK, Client!pool, Client!history
<1>6. CASE Client!Receive(t)
  <2>1. CASE callPc[t] = "setup"
    BY <1>6, <2>1 DEF Client!Receive, Client!Go, Stays, Client!TypeOK
  <2>2. CASE callPc[t] = "receive"
    <3>1. outbox[Mine(t)] = <<call[t]>> BY <1>6, <2>2, ReceivesOwn
    <3>2. Head(outbox[Mine(t)]) = call[t]
      BY <3>1, OneMessage, ClientConstants DEF Client!Call, Client!RedisAssumption
    <3>3. Returns(t, "answered", Head(outbox[Mine(t)]))
      BY <1>6, <2>2 DEF Client!Receive, Client!Return, Client!Go, Client!Unlock, Client!Mine,
                        Mine, Returns
    <3> QED BY <1>6, <2>2, <3>1, <3>2, <3>3 DEF Answers
  <2> QED BY <1>6, <2>1, <2>2 DEF Client!Receive
<1> QED BY <1>2, <1>3, <1>4, <1>5, <1>6 DEF Inner

\* Threads inside are on different connections.
LEMMA Apart ==
  ASSUME ClientInv, NEW t \in Caller, NEW u \in Caller, t # u,
         callPc[t] \in Client!Inside, callPc[u] \in Client!Inside
  PROVE  slot[u] # slot[t]
BY DEF ClientInv, Client!HolderWorks, Client!TypeOK

\* A mutex is held by the thread that is inside, and by nobody else.
LEMMA HolderStep == ClientInv /\ [Client!Next]_(Client!vars) => Client!HolderWorks'
<1> SUFFICES ASSUME ClientInv, [Client!Next]_(Client!vars) PROVE Client!HolderWorks'
  OBVIOUS
<1> USE ClientConstants DEF Client!RedisAssumption, ClientInv, Client!TypeOK, Client!HolderWorks
<1>0. ASSUME UNCHANGED <<owner, slot, callPc>> PROVE Client!HolderWorks' BY <1>0
<1>1. ASSUME NEW t \in Caller, Inner(t) PROVE Client!HolderWorks'
  <2>1. Alone(t) BY <1>1, InnerAlone
  <2>2. CASE Stays(t) BY <2>1, <2>2 DEF Alone, Stays
  <2>3. ASSUME NEW how, NEW what, Returns(t, how, what) PROVE Client!HolderWorks'
    <3>1. callPc' = [callPc EXCEPT ![t] = "idle"] /\ owner' = [owner EXCEPT ![slot[t]] = None]
      BY <2>3 DEF Returns
    <3>2. \A u \in Caller \ {t} : callPc[u] \in Client!Inside => slot[u] # slot[t]
      BY <2>1, Apart DEF Alone
    <3> QED BY <2>1, <3>1, <3>2 DEF Alone, Client!Inside
  <2> QED BY <1>1, <2>2, <2>3, InnerEnds DEF Answers
<1>2. ASSUME NEW t \in Caller, Client!Begin(t) \/ Client!TryNext(t) PROVE Client!HolderWorks'
  <2>1. /\ callPc[t] \notin Client!Inside /\ callPc'[t] \notin Client!Inside /\ owner' = owner
        /\ \A u \in Caller \ {t} : callPc'[u] = callPc[u] /\ slot'[u] = slot[u]
    BY <1>2 DEF Client!Begin, Client!TryNext, Client!Go, Client!Inside, Client!server, Client!pool
  <2>2. ASSUME NEW i \in Client!Slot, owner[i] = t PROVE FALSE
    <3>1. t # None BY DEF Client!RedisAssumption
    <3>2. slot[t] = i BY <2>2, <3>1
    <3> QED BY <2>1, <2>2, <3>2
  <2>3. slot'[t] \in Client!Slot
    BY <1>2, ClientTypeStep
  <2>4. \A u \in Caller : callPc'[u] \in Client!Inside <=> owner'[slot'[u]] = u
    BY <2>1, <2>2, <2>3
  <2>5. \A i \in Client!Slot : owner'[i] # None => slot'[owner'[i]] = i
    BY <2>1, <2>2
  <2> QED BY <2>4, <2>5
<1>3. ASSUME NEW t \in Caller, Client!Lock(t) PROVE Client!HolderWorks'
  BY <1>3 DEF Client!Lock, Client!Go, Client!Free, Client!Inside
<1>4. ASSUME NEW s \in Socket, Client!Serve(s) \/ Client!Break(s) PROVE Client!HolderWorks'
  BY <1>0, <1>4 DEF Client!Serve, Client!Break, Client!pool, Client!thread
<1>5. CASE UNCHANGED Client!vars BY <1>0, <1>5 DEF Client!vars, Client!pool, Client!thread
<1> QED BY <1>1, <1>2, <1>3, <1>4, <1>5 DEF Client!Next, Client!Work, Inner

\* Calls are numbered, and each has one thread.
LEMMA OneCallStep == ClientInv /\ [Client!Next]_(Client!vars) => OneCall'
<1> SUFFICES ASSUME ClientInv, [Client!Next]_(Client!vars) PROVE OneCall'
  OBVIOUS
<1> USE ClientConstants DEF Client!RedisAssumption, ClientInv, Client!TypeOK, Shapes
<1>0. ASSUME UNCHANGED <<call, callPc, callTries, slot, sock, stage, made>> PROVE OneCall'
  BY <1>0 DEF OneCall, Mine
<1>1. ASSUME NEW t \in Caller, Inner(t) PROVE OneCall'
  <2>1. Alone(t) BY <1>1, InnerAlone
  <2>2. \A u \in Caller : callPc'[u] \in {"setup", "send", "receive"} => Mine(u)' \in Socket
    <3>1. ASSUME NEW u \in Caller \ {t}, callPc'[u] \in {"setup", "send", "receive"}
          PROVE  Mine(u)' \in Socket
      <4>1. callPc[u] = callPc'[u] /\ callPc[u] \in Client!Inside
        BY <2>1, <3>1 DEF Alone, Client!Inside
      <4>2. slot[u] # slot[t] BY <2>1, <4>1, Apart DEF Alone
      <4>3. Mine(u)' = Mine(u) BY <2>1, <4>2 DEF Alone, Mine
      <4> QED BY <3>1, <4>1, <4>3 DEF OneCall
    <3>2. ASSUME callPc'[t] \in {"setup", "send", "receive"} PROVE Mine(t)' \in Socket
      <4>0. Mine(t) \in Socket \cup {None} BY DEF Mine
      <4>1. CASE Client!ConnectFails(t) \/ Client!AttemptFails(t)
        <5>1. Again(t) \/ Returns(t, "failed", 0)
          BY <4>1, TryAgainCases DEF Client!ConnectFails, Client!AttemptFails
        <5> QED BY <5>1, <3>2 DEF Again, Returns
      <4>2. ASSUME NEW s \in Socket, Client!Connect(t, s) PROVE Mine(t)' \in Socket
        BY <4>2 DEF Client!Connect, Client!Connected, Mine
      <4>3. CASE Client!Send(t)
        BY <4>0, <4>3 DEF Client!Send, Client!Mine, Client!pool, Mine, OneCall
      <4>4. CASE Client!Receive(t)
        BY <4>4, ReceivesOwn DEF Client!Receive, Mine
      <4> QED BY <1>1, <4>1, <4>2, <4>3, <4>4 DEF Inner
    <3> QED BY <3>1, <3>2
  <2>3. CASE Stays(t)
    <3>1. UNCHANGED <<call, stage, made>> /\ callPc'[t] \in Client!Inside /\ call[t] # 0
      BY <2>1, <2>3, ClientSlots DEF Alone, Stays
    <3>2. \A u \in Caller \ {t} : callPc'[u] = callPc[u] /\ callTries'[u] = callTries[u]
      BY <2>1 DEF Alone
    <3>3. \A u \in Caller : callPc'[u] = "idle" <=> call'[u] = 0
      BY <3>1, <3>2 DEF OneCall, Client!Inside
    <3>4. \A u \in Caller : callTries'[u] # 0 => callPc'[u] \in Client!Inside
      BY <3>1, <3>2 DEF OneCall
    <3>5. /\ \A u \in Caller : call'[u] # 0 => call'[u] <= made' /\ stage'[call'[u]] = "open"
          /\ \A u, v \in Caller : call'[u] = call'[v] /\ call'[u] # 0 => u = v
          /\ \A n \in Client!Call : n > made' <=> stage'[n] = "new"
      BY <3>1 DEF OneCall
    <3> QED BY <2>2, <3>3, <3>4, <3>5 DEF OneCall
  <2>4. ASSUME NEW how \in {"answered", "failed"}, NEW what, Returns(t, how, what) PROVE OneCall'
    <3>1. /\ callPc' = [callPc EXCEPT ![t] = "idle"] /\ call' = [call EXCEPT ![t] = 0]
          /\ callTries' = [callTries EXCEPT ![t] = 0] /\ stage' = [stage EXCEPT ![call[t]] = how]
          /\ made' = made
      BY <2>1, <2>4 DEF Returns, Alone
    <3>2. call[t] # 0 /\ call[t] \in Client!Call /\ stage[call[t]] = "open" /\ call[t] <= made
      BY <2>1, ClientSlots DEF Alone, OneCall
    <3>3. \A u \in Caller \ {t} : call[u] # call[t] BY <3>2 DEF OneCall
    <3>4. \A n \in Client!Call : n > made' <=> stage'[n] = "new" BY <3>1, <3>2 DEF OneCall
    <3> QED BY <2>1, <2>2, <3>1, <3>2, <3>3, <3>4 DEF Alone, OneCall, Client!Inside
  <2> QED BY <1>1, <2>3, <2>4, InnerEnds DEF Answers
<1>2. ASSUME NEW t \in Caller, Client!Begin(t) PROVE OneCall'
  <2>1. /\ callPc[t] = "idle" /\ callPc' = [callPc EXCEPT ![t] = "try"]
        /\ made' = made + 1 /\ made + 1 \in Client!Call /\ made \in Nat
        /\ call' = [call EXCEPT ![t] = made + 1] /\ stage' = [stage EXCEPT ![made + 1] = "open"]
        /\ UNCHANGED <<callTries, sock>> /\ \A u \in Caller \ {t} : slot'[u] = slot[u]
    BY <1>2 DEF Client!Begin, Client!Go, Client!Call, Client!server
  <2>2. callTries[t] = 0 /\ \A u \in Caller : call[u] # 0 => call[u] <= made
    BY <2>1 DEF OneCall, Client!Inside
  <2>3. /\ \A u \in Caller : call'[u] # 0 => call'[u] <= made' /\ stage'[call'[u]] = "open"
        /\ \A u, v \in Caller : call'[u] = call'[v] /\ call'[u] # 0 => u = v
    BY <2>1, <2>2 DEF OneCall, Client!Call
  <2>4. \A n \in Client!Call : n > made' <=> stage'[n] = "new"
    BY <2>1 DEF OneCall, Client!Call
  <2>5. /\ \A u \in Caller : callPc'[u] = "idle" <=> call'[u] = 0
        /\ \A u \in Caller : callTries'[u] # 0 => callPc'[u] \in Client!Inside
    BY <2>1, <2>2 DEF OneCall, Client!Inside
  <2>6. \A u \in Caller : callPc'[u] \in {"setup", "send", "receive"} => Mine(u)' \in Socket
    BY <2>1 DEF OneCall, Mine
  <2> QED BY ONLY <2>3, <2>4, <2>5, <2>6 DEF OneCall
<1>3. ASSUME NEW t \in Caller, Client!Lock(t) PROVE OneCall'
  BY <1>3 DEF Client!Lock, Client!Go, OneCall, Mine, Client!Inside, Client!history
<1>4. ASSUME NEW t \in Caller, Client!TryNext(t) PROVE OneCall'
  BY <1>4 DEF Client!TryNext, Client!Go, OneCall, Mine, Client!Inside, Client!history, Client!pool
<1>5. ASSUME NEW s \in Socket, Client!Serve(s) \/ Client!Break(s) PROVE OneCall'
  BY <1>0, <1>5 DEF Client!Serve, Client!Break, Client!pool, Client!thread, Client!history
<1>6. CASE UNCHANGED Client!vars
  BY <1>0, <1>6 DEF Client!vars, Client!pool, Client!thread, Client!history
<1> QED BY <1>1, <1>2, <1>3, <1>4, <1>5, <1>6 DEF Client!Next, Client!Work, Inner

\* A connection in use carries nothing, or the thread's own command or reply.
LEMMA UnderWayStep == ClientInv /\ [Client!Next]_(Client!vars) => OneUnderWay'
<1> SUFFICES ASSUME ClientInv, [Client!Next]_(Client!vars) PROVE OneUnderWay'
  OBVIOUS
<1>0. ASSUME UNCHANGED <<inbox, outbox, ready, sock, ran>> PROVE OneUnderWay'
  BY <1>0 DEF ClientInv, OneUnderWay, Carries, Client!Open
<1>a. /\ inbox \in [Socket -> Seq(0..MaxCalls)] /\ outbox \in [Socket -> Seq(0..MaxCalls)]
      /\ MaxCalls \in Nat /\ ready \subseteq Socket /\ ran \in [Client!Call -> Nat]
      /\ sock \in [Client!Slot -> Socket \cup {None}]
      /\ OneUnderWay /\ OfHolder /\ Client!Call = 1..MaxCalls /\ None \notin Socket
  BY ClientConstants DEF ClientInv, Shapes, Client!TypeOK, Client!RedisAssumption, Client!Call
<1>1. ASSUME NEW t \in Caller, Client!ConnectFails(t) PROVE OneUnderWay'
  BY <1>0, <1>1 DEF Client!ConnectFails, Client!server
<1>2. ASSUME NEW t \in Caller, Client!Send(t) PROVE OneUnderWay'
  <2>1. call[t] \in Client!Call BY <1>2, InnerAlone DEF Inner, Alone
  <2>2. Mine(t) \in Socket /\ Quiet(Mine(t)) /\ Mine(t) \in ready
    <3>1. Mine(t) # None /\ callPc[t] \in {"attempt", "send"}
      BY <1>2, <1>a DEF Client!Send, Client!Mine, Mine, ClientInv, OneCall
    <3>2. slot[t] \in Client!Slot BY DEF ClientInv, Client!TypeOK
    <3> QED BY <3>1, <3>2, <1>a DEF OfHolder, Holds, Mine
  <2>3. /\ inbox' = [inbox EXCEPT ![Mine(t)] = <<call[t]>>]
        /\ UNCHANGED <<outbox, ready, sock, ran>>
    <3>1. Append(<<>>, call[t]) = <<call[t]>> BY <2>1, <1>a, OneMessage
    <3> QED BY <1>2, <2>2, <3>1 DEF Client!Send, Client!Mine, Mine, Quiet, Carries, Client!pool,
                                    Client!history
  <2>4. call[t] \in 0..MaxCalls BY <2>1, <1>a
  <2> QED BY <1>a, <2>2, <2>3, <2>4, OneMessage DEF OneUnderWay, Quiet, Carries, Client!Open
<1>3. ASSUME NEW t \in Caller, Client!Receive(t) PROVE OneUnderWay'
  <2>1. Mine(t) \in Socket /\ inbox[Mine(t)] = <<>> BY <1>3, ReceivesOwn
  <2>2. \E m \in Nat : outbox[Mine(t)] = <<m>>
    <3>1. callPc[t] \in {"setup", "receive"} BY <1>3 DEF Client!Receive
    <3>2. call[t] \in 0..MaxCalls BY DEF ClientInv, Client!TypeOK
    <3> QED BY <1>3, <1>a, <3>1, <3>2, ReceivesOwn
  <2>3. outbox' = [outbox EXCEPT ![Mine(t)] = <<>>] /\ UNCHANGED <<inbox, ready, sock, ran>>
    BY <1>3, <2>2, OneMessage DEF Client!Receive, Client!Mine, Mine
  <2> QED BY <1>a, <2>1, <2>3, OneMessage DEF OneUnderWay, Carries, Client!Open
<1>4. ASSUME NEW t \in Caller, Client!AttemptFails(t) PROVE OneUnderWay'
  <2>1. /\ sock' = [sock EXCEPT ![slot[t]] = None] /\ outbox' = [outbox EXCEPT ![Mine(t)] = <<>>]
        /\ UNCHANGED <<inbox, ready, ran>>
    BY <1>4 DEF Client!AttemptFails, Client!CloseSocket, Client!Mine, Mine
  <2>2. slot[t] \in Client!Slot BY DEF ClientInv, Client!TypeOK
  <2>3. \A s \in Socket : ~Client!Open(s)' => s = Mine(t) \/ ~Client!Open(s)
    BY <1>a, <2>1, <2>2 DEF Client!Open, Mine
  <2> QED BY <1>a, <2>1, <2>3, OneMessage DEF OneUnderWay, Carries
<1>5. ASSUME NEW t \in Caller, NEW s \in Socket, Client!Connect(t, s) PROVE OneUnderWay'
  <2>1. /\ sock' = [sock EXCEPT ![slot[t]] = s] /\ sock[slot[t]] = None
        /\ inbox' = [inbox EXCEPT ![s] = <<0>>] /\ inbox[s] = <<>> /\ outbox[s] = <<>>
        /\ ready' = ready \ {s} /\ UNCHANGED <<outbox, ran>>
    BY <1>5 DEF Client!Connect, Client!Connected, Client!Unused, Client!Mine, Client!Setup,
                Client!history
  <2>2. slot[t] \in Client!Slot BY DEF ClientInv, Client!TypeOK
  <2>3. \A x \in Socket : ~Client!Open(x)' => ~Client!Open(x)
    BY <1>a, <2>1, <2>2 DEF Client!Open
  <2>4. 0 \in 0..MaxCalls /\ \A n \in Client!Call : <<n>> # <<0>> BY <1>a, OneMessage
  <2> QED BY <1>a, <2>1, <2>3, <2>4, OneMessage DEF OneUnderWay, Carries
<1>6. ASSUME NEW s \in Socket, Client!Serve(s) PROVE OneUnderWay'
  <2>1. PICK m \in 0..MaxCalls : inbox[s] = <<m>> /\ outbox[s] = <<>>
    BY <1>6, <1>a DEF Client!Serve, OneUnderWay, Carries
  <2>2. inbox' = [inbox EXCEPT ![s] = <<>>] BY <1>6, <2>1, <1>a, OneMessage DEF Client!Serve
  <2>3. Head(inbox[s]) = m /\ Append(outbox[s], Head(inbox[s])) = <<m>> BY <2>1, <1>a, OneMessage
  <2>4. outbox' = IF Client!Open(s) THEN [outbox EXCEPT ![s] = <<m>>] ELSE outbox
    BY <1>6, <2>3 DEF Client!Serve
  <2>5. /\ ready \subseteq ready' /\ \A n \in Client!Call : ran'[n] >= ran[n]
        /\ m \in Client!Call => ran'[m] > 0
    <3>1. CASE m = 0
      <4>1. ready' = ready \cup {s} /\ ran' = ran BY <1>6, <2>3, <3>1 DEF Client!Serve, Client!Setup
      <4> QED BY <4>1, <3>1, <1>a
    <3>2. CASE m \in Client!Call
      <4>1. m # 0 BY <3>2, <1>a
      <4>2. ready' = ready /\ ran' = [ran EXCEPT ![m] = @ + 1]
        BY <1>6, <2>3, <4>1 DEF Client!Serve, Client!Setup
      <4> QED BY <4>2, <3>2, <1>a
    <3> QED BY <3>1, <3>2, SetupOrCall
  <2>6. sock' = sock BY <1>6 DEF Client!Serve, Client!pool
  <2> HIDE <1>6
  <2>7. \A x \in Socket : inbox'[x] = <<>> \/ (inbox'[x] = inbox[x] /\ outbox'[x] = outbox[x])
    BY <1>a, <2>2, <2>4
  <2>8. \A x \in Socket : outbox'[x] = outbox[x] \/ (x = s /\ outbox'[x] = <<m>> /\ Client!Open(s))
    BY <1>a, <2>4
  <2>9. \A x \in Socket : inbox'[x] = <<>> \/ \E k \in 0..MaxCalls : Carries(x, <<k>>, <<>>)'
    BY <1>a, <2>7 DEF OneUnderWay, Carries
  <2>10. ASSUME NEW x \in Socket, NEW n \in Client!Call, inbox'[x] = <<n>> PROVE x \in ready'
    <3>1. <<n>> # <<>> OBVIOUS
    <3>2. inbox[x] = <<n>> BY <2>7, <2>10, <3>1
    <3> QED BY <1>a, <2>5, <3>2 DEF OneUnderWay
  <2>11. ASSUME NEW x \in Socket, NEW n \in Client!Call, outbox'[x] = <<n>> PROVE ran'[n] > 0
    <3>1. CASE outbox'[x] = outbox[x]
      <4>1. ran[n] > 0 /\ ran'[n] >= ran[n] BY <1>a, <2>5, <2>11, <3>1 DEF OneUnderWay
      <4>2. ran'[n] \in Nat BY ClientTypeStep DEF Client!TypeOK
      <4>3. ran[n] \in Nat BY <1>a
      <4> QED BY <4>1, <4>2, <4>3
    <3>2. CASE outbox'[x] = <<m>>
      <4>1. n = m BY <2>11, <3>2, <1>a, OneMessage
      <4> QED BY <4>1, <2>5
    <3> QED BY <2>8, <3>1, <3>2
  <2>12. \A x \in Socket : ~Client!Open(x)' => outbox'[x] = <<>>
    BY <1>a, <2>6, <2>8 DEF OneUnderWay, Client!Open
  <2> QED BY <2>9, <2>10, <2>11, <2>12 DEF OneUnderWay
<1>7. ASSUME NEW s \in Socket, Client!Break(s) PROVE OneUnderWay'
  BY <1>7, <1>a, OneMessage DEF Client!Break, Client!pool, Client!history, OneUnderWay, Carries,
                                Client!Open
<1>8. ASSUME NEW t \in Caller, Client!Begin(t) \/ Client!Lock(t) \/ Client!TryNext(t)
      PROVE  OneUnderWay'
  BY <1>0, <1>8 DEF Client!Begin, Client!Lock, Client!TryNext, Client!server, Client!history,
                    Client!pool
<1>9. CASE UNCHANGED Client!vars
  BY <1>0, <1>9 DEF Client!vars, Client!pool, Client!server, Client!history
<1> QED BY <1>1, <1>2, <1>3, <1>4, <1>5, <1>6, <1>7, <1>8, <1>9 DEF Client!Next, Client!Work

\* A step inside leaves the connections of the others alone.
LEMMA OthersHold ==
  ASSUME ClientInv, Client!TypeOK', NEW t \in Caller, Inner(t)
  PROVE  /\ \A u \in Caller \ {t} : Holds(u)'
         /\ \A i \in Client!Slot : i # slot[t] => Spare(i)'
<1>1. Alone(t) BY InnerAlone
<1>2. slot \in [Caller -> Client!Slot] /\ sock \in [Client!Slot -> Socket \cup {None}]
      /\ Client!Slot = {0, 1} /\ (sock'[0] = sock'[1] => sock'[0] = None)
      /\ (sock[0] = sock[1] => sock[0] = None) /\ slot' = slot
  BY <1>1, ClientSlots DEF ClientInv, Client!TypeOK, Alone
<1>3. \A s \in Socket : s # Mine(t)' /\ s \in ready => s \in ready'
  <2>1. UNCHANGED ready \/ \E s \in Socket : ready' = ready \ {s} /\ sock' = [sock EXCEPT ![slot[t]] = s]
    BY DEF Inner, Client!ConnectFails, Client!Send, Client!Receive, Client!AttemptFails,
           Client!Connect, Client!Connected, Client!server
  <2> QED BY <1>2, <2>1 DEF Mine
<1>4. ASSUME NEW i \in Client!Slot, i # slot[t], sock[i] # None
      PROVE  /\ sock'[i] = sock[i] /\ owner'[i] = owner[i]
             /\ inbox'[sock[i]] = inbox[sock[i]] /\ outbox'[sock[i]] = outbox[sock[i]]
             /\ sock[i] \in ready => sock[i] \in ready'
  <2>1. sock'[i] = sock[i] /\ owner'[i] = owner[i] BY <1>1, <1>4 DEF Alone
  <2>2. sock[i] \in Socket /\ sock[i] # Mine(t) /\ sock[i] # Mine(t)' BY <1>2, <1>4, <2>1 DEF Mine
  <2> QED BY <1>1, <1>3, <2>1, <2>2 DEF Alone
<1>5. ASSUME NEW u \in Caller \ {t} PROVE Holds(u)'
  <2>1. callPc'[u] = callPc[u] /\ call'[u] = call[u] BY <1>1 DEF Alone
  <2>2. CASE callPc[u] \notin Client!Inside BY <2>1, <2>2 DEF Holds, Client!Inside
  <2>3. CASE callPc[u] \in Client!Inside
    <3>1. slot[u] # slot[t] /\ slot[u] \in Client!Slot BY <1>1, <1>2, <2>3, Apart DEF Alone
    <3>2. CASE sock[slot[u]] = None
      <4>1. callPc[u] = "attempt"
        BY <2>3, <3>2, ClientConstants DEF ClientInv, OneCall, Mine, Client!Inside,
                                           Client!RedisAssumption
      <4>2. Mine(u)' = None BY <1>1, <3>1, <3>2 DEF Alone, Mine
      <4> QED BY <2>1, <4>1, <4>2 DEF Holds
    <3>3. CASE sock[slot[u]] # None
      <4>1. Holds(u) BY DEF ClientInv, OfHolder
      <4>2. /\ Mine(u)' = Mine(u) /\ inbox'[Mine(u)] = inbox[Mine(u)]
            /\ outbox'[Mine(u)] = outbox[Mine(u)] /\ (Mine(u) \in ready => Mine(u) \in ready')
        BY <1>2, <1>4, <3>1, <3>3 DEF Mine
      <4> QED BY <2>1, <4>1, <4>2 DEF Holds, Quiet, Carries
    <3> QED BY <3>2, <3>3
  <2> QED BY <2>2, <2>3
<1>6. ASSUME NEW i \in Client!Slot, i # slot[t] PROVE Spare(i)'
  <2>1. Spare(i) /\ sock'[i] = sock[i] BY <1>1, <1>6 DEF ClientInv, OfHolder, Alone
  <2> QED BY <1>4, <1>6, <2>1 DEF Spare, Quiet, Carries
<1> QED BY <1>5, <1>6

\* A step inside leaves the own connection to the next in order.
LEMMA OwnHold ==
  ASSUME ClientInv, NEW t \in Caller, Inner(t)
  PROVE  Holds(t)' /\ \A i \in Client!Slot : i = slot[t] => Spare(i)'
<1>1. /\ owner[slot[t]] = t /\ slot' = slot /\ slot[t] \in Client!Slot /\ t # None
      /\ call[t] \in Client!Call
  BY InnerAlone, ClientConstants DEF Alone, Client!RedisAssumption, ClientInv, Client!TypeOK
<1>2. callPc \in [Caller -> Client!Inside \cup {"idle", "try", "other", "wait"}]
      /\ sock \in [Client!Slot -> Socket \cup {None}] /\ owner \in [Client!Slot -> Caller \cup {None}]
      /\ inbox \in [Socket -> Seq(0..MaxCalls)] /\ outbox \in [Socket -> Seq(0..MaxCalls)]
  BY DEF ClientInv, Client!TypeOK, Shapes
<1>a. Holds(t) BY DEF ClientInv, OfHolder
<1>3. ASSUME Client!ConnectFails(t) \/ Client!AttemptFails(t) PROVE Holds(t)' /\ Spare(slot[t])'
  <2>1. Again(t) \/ Returns(t, "failed", 0)
    BY <1>3, TryAgainCases DEF Client!ConnectFails, Client!AttemptFails, ClientInv
  <2>2. callPc'[t] \in {"attempt", "idle"} BY <1>2, <2>1 DEF Again, Returns
  <2>3. sock'[slot[t]] = None
    BY <1>1, <1>2, <1>3 DEF Client!ConnectFails, Client!AttemptFails, Client!CloseSocket,
                            Client!Mine
  <2> QED BY <1>1, <2>2, <2>3 DEF Holds, Spare, Mine
<1>4. ASSUME Client!Send(t) PROVE Holds(t)' /\ Spare(slot[t])'
  <2>1. Mine(t) # None /\ callPc[t] \in {"attempt", "send"}
    BY <1>4, ClientConstants DEF Client!Send, Client!Mine, Mine, ClientInv, OneCall,
                                 Client!RedisAssumption
  <2>2. Quiet(Mine(t)) /\ Mine(t) \in ready /\ Mine(t) \in Socket
    BY <1>a, <1>1, <1>2, <2>1 DEF Holds, Mine
  <2>3. Append(<<>>, call[t]) = <<call[t]>>
    BY <1>1, ClientConstants, OneMessage DEF Client!Call, Client!RedisAssumption
  <2>4. /\ inbox' = [inbox EXCEPT ![Mine(t)] = <<call[t]>>] /\ callPc'[t] = "receive"
        /\ UNCHANGED <<outbox, ready, sock, call, owner>>
    BY <1>2, <1>4, <2>2, <2>3 DEF Client!Send, Client!Go, Client!Mine, Mine, Quiet, Carries,
                                  Client!pool
  <2> QED BY <1>1, <1>2, <2>2, <2>4 DEF Holds, Spare, Mine, Quiet, Carries
<1>5. ASSUME Client!Receive(t) PROVE Holds(t)' /\ Spare(slot[t])'
  <2>1. Mine(t) \in Socket /\ inbox[Mine(t)] = <<>> /\ Mine(t) \in ready BY <1>5, ReceivesOwn
  <2>2. outbox'[Mine(t)] = <<>> /\ UNCHANGED <<inbox, ready, sock>>
    <3>1. callPc[t] \in {"setup", "receive"} BY <1>5 DEF Client!Receive
    <3>2. Tail(<<call[t]>>) = <<>> /\ Tail(<<0>>) = <<>>
      BY <1>1, ClientConstants, OneMessage DEF Client!Call, Client!RedisAssumption
    <3>3. Tail(outbox[Mine(t)]) = <<>> BY <1>5, <3>1, <3>2, ReceivesOwn
    <3>4. outbox' = [outbox EXCEPT ![Mine(t)] = Tail(outbox[Mine(t)])] /\ UNCHANGED <<inbox, ready, sock>>
      BY <1>5 DEF Client!Receive, Client!Mine, Mine
    <3> QED BY <1>2, <2>1, <3>3, <3>4
  <2>3. callPc'[t] \in {"send", "idle"}
    BY <1>2, <1>5 DEF Client!Receive, Client!Go, Client!Return
  <2>4. Quiet(Mine(t))' /\ Mine(t)' = Mine(t) /\ Mine(t)' \in ready'
    BY <1>1, <2>1, <2>2 DEF Mine, Quiet, Carries
  <2> QED BY <1>1, <2>3, <2>4 DEF Holds, Spare, Mine
<1>6. ASSUME NEW s \in Socket, Client!Connect(t, s) PROVE Holds(t)' /\ Spare(slot[t])'
  <2>1. /\ sock'[slot[t]] = s /\ callPc'[t] = "setup" /\ owner' = owner
        /\ inbox'[s] = <<0>> /\ outbox'[s] = <<>>
    BY <1>1, <1>2, <1>6 DEF Client!Connect, Client!Connected, Client!Go, Client!Unused, Client!Setup
  <2> QED BY <1>1, <2>1 DEF Holds, Spare, Mine, Quiet, Carries
<1>7. Holds(t)' /\ Spare(slot[t])' BY <1>3, <1>4, <1>5, <1>6 DEF Inner
<1> QED BY <1>1, <1>7 DEF Spare

\* What is found on a connection is of the thread that holds it.
LEMMA OfHolderStep == ClientInv /\ [Client!Next]_(Client!vars) => OfHolder'
<1> SUFFICES ASSUME ClientInv, [Client!Next]_(Client!vars) PROVE OfHolder'
  OBVIOUS
<1>0. ASSUME UNCHANGED <<callPc, call, slot, sock, owner, inbox, outbox, ready>> PROVE OfHolder'
  BY <1>0 DEF ClientInv, OfHolder, Holds, Spare, Mine, Quiet, Carries
<1>1. ASSUME NEW t \in Caller, Inner(t) PROVE OfHolder'
  <2>1. Client!TypeOK' BY ClientTypeStep
  <2>2. \A u \in Caller : Holds(u)' BY <1>1, <2>1, OthersHold, OwnHold
  <2>3. \A i \in Client!Slot : Spare(i)' BY <1>1, <2>1, OthersHold, OwnHold
  <2> QED BY <2>2, <2>3 DEF OfHolder
<1>2. ASSUME NEW t \in Caller, Client!Begin(t) \/ Client!TryNext(t) PROVE OfHolder'
  <2>1. /\ callPc'[t] \notin Client!Inside /\ UNCHANGED <<owner, sock, inbox, outbox, ready>>
        /\ \A u \in Caller \ {t} : callPc'[u] = callPc[u] /\ slot'[u] = slot[u] /\ call'[u] = call[u]
    BY <1>2 DEF Client!Begin, Client!TryNext, Client!Go, Client!Inside, Client!server, Client!pool,
                ClientInv, Client!TypeOK
  <2> QED BY <2>1 DEF ClientInv, OfHolder, Holds, Spare, Mine, Quiet, Carries, Client!Inside
<1>3. ASSUME NEW t \in Caller, Client!Lock(t) PROVE OfHolder'
  <2>1. /\ callPc'[t] = "attempt" /\ owner[slot[t]] = None /\ slot[t] \in Client!Slot
        /\ \A u \in Caller \ {t} : callPc'[u] = callPc[u]
        /\ UNCHANGED <<slot, call, sock, inbox, outbox, ready>>
        /\ \A i \in Client!Slot : owner'[i] = None => owner[i] = None
    BY <1>3, ClientConstants
    DEF Client!Lock, Client!Go, Client!Free, Client!server, ClientInv, Client!TypeOK,
        Client!RedisAssumption
  <2>2. Holds(t)' BY <2>1 DEF ClientInv, OfHolder, Holds, Spare, Mine, Quiet, Carries
  <2>3. \A u \in Caller \ {t} : Holds(u)' BY <2>1 DEF ClientInv, OfHolder, Holds, Mine, Quiet,
                                                      Carries
  <2>4. \A i \in Client!Slot : Spare(i)' BY <2>1 DEF ClientInv, OfHolder, Spare, Quiet, Carries
  <2> QED BY <2>2, <2>3, <2>4 DEF OfHolder
<1>4. ASSUME NEW s \in Socket, Client!Serve(s) PROVE OfHolder'
  <2>1. PICK m \in 0..MaxCalls : inbox[s] = <<m>> /\ outbox[s] = <<>>
    BY <1>4 DEF Client!Serve, ClientInv, OneUnderWay, Carries
  <2>a. MaxCalls \in Nat BY ClientConstants DEF Client!RedisAssumption
  <2>2. /\ inbox \in [Socket -> Seq(0..MaxCalls)] /\ outbox \in [Socket -> Seq(0..MaxCalls)]
        /\ slot \in [Caller -> Client!Slot] /\ call \in [Caller -> 0..MaxCalls]
    BY DEF ClientInv, Shapes, Client!TypeOK
  <2>3. Head(inbox[s]) = m /\ Tail(inbox[s]) = <<>> /\ Append(outbox[s], Head(inbox[s])) = <<m>>
    BY <2>1, <2>a, OneMessage
  <2>4. /\ inbox' = [inbox EXCEPT ![s] = <<>>] /\ UNCHANGED <<callPc, call, slot, sock, owner>>
        /\ outbox' = IF Client!Open(s) THEN [outbox EXCEPT ![s] = <<m>>] ELSE outbox
        /\ ready \subseteq ready' /\ (m = 0 => s \in ready')
    BY <1>4, <2>3 DEF Client!Serve, Client!pool, Client!thread, Client!Setup
  <2>5. \A x \in Socket \ {s} : inbox'[x] = inbox[x] /\ outbox'[x] = outbox[x] BY <2>2, <2>4
  <2>6. ~Quiet(s) BY <2>1, <2>a, OneMessage DEF Quiet, Carries
  <2>7. ASSUME NEW i \in Client!Slot PROVE Spare(i)'
    <3>1. Spare(i) /\ sock[i] \in Socket \cup {None} BY DEF ClientInv, OfHolder, Client!TypeOK
    <3> QED BY <2>4, <2>5, <2>6, <3>1 DEF Spare, Quiet, Carries
  <2>8. ASSUME NEW t \in Caller PROVE Holds(t)'
    <3>1. Holds(t) /\ Mine(t) \in Socket \cup {None} /\ Mine(t)' = Mine(t)
          /\ (callPc[t] \in {"setup", "send", "receive"} => Mine(t) \in Socket)
      BY <2>2, <2>4 DEF ClientInv, OfHolder, Client!TypeOK, Mine, OneCall
    <3>2. CASE Mine(t) # s BY <2>4, <2>5, <3>1, <3>2 DEF Holds, Quiet, Carries
    <3>3. CASE Mine(t) = s
      <4>1. Client!Open(s) BY <2>2, <3>3 DEF Client!Open, Mine
      <4>2. outbox'[s] = <<m>> /\ inbox'[s] = <<>> BY <2>2, <2>4, <4>1
      <4>3. ~(callPc[t] \in {"attempt", "send"})
        BY <2>6, <3>1, <3>3, ClientConstants DEF Holds, Client!RedisAssumption
      <4>4. CASE callPc[t] = "setup"
        <5>1. m = 0 BY <2>1, <2>6, <2>a, <3>1, <3>3, <4>4, OneMessage DEF Holds, Carries
        <5> QED BY <2>4, <3>1, <3>3, <4>2, <4>4, <5>1 DEF Holds, Quiet, Carries
      <4>5. CASE callPc[t] = "receive"
        <5>0. call[t] \in Nat /\ m \in Nat BY <2>2, <2>a
        <5>1. inbox[s] = <<call[t]>>
          BY <2>1, <2>6, <2>a, <3>1, <3>3, <4>5, OneMessage DEF Holds, Carries
        <5>2. m = call[t] BY <2>1, <5>0, <5>1, OneMessage
        <5>3. s \in ready BY <3>1, <3>3, <4>5 DEF Holds
        <5> QED BY <2>4, <3>1, <3>3, <4>2, <4>5, <5>2, <5>3 DEF Holds, Quiet, Carries
      <4> QED BY <2>4, <4>3, <4>4, <4>5 DEF Holds
    <3> QED BY <3>2, <3>3
  <2> QED BY <2>7, <2>8 DEF OfHolder
<1>5. ASSUME NEW s \in Socket, Client!Break(s) PROVE OfHolder'
  <2>1. /\ inbox \in [Socket -> Seq(0..MaxCalls)] /\ outbox \in [Socket -> Seq(0..MaxCalls)]
        /\ slot \in [Caller -> Client!Slot]
    BY DEF ClientInv, Shapes, Client!TypeOK
  <2>2. /\ inbox' = [inbox EXCEPT ![s] = <<>>] /\ outbox' = [outbox EXCEPT ![s] = <<>>]
        /\ UNCHANGED <<callPc, call, slot, sock, owner, ready>> /\ ~Quiet(s)
    BY <1>5 DEF Client!Break, Client!pool, Client!thread, Quiet, Carries
  <2>3. \A x \in Socket \ {s} : inbox'[x] = inbox[x] /\ outbox'[x] = outbox[x] BY <2>1, <2>2
  <2>4. inbox'[s] = <<>> /\ outbox'[s] = <<>> BY <2>1, <2>2
  <2>5. ASSUME NEW i \in Client!Slot PROVE Spare(i)'
    <3>1. Spare(i) /\ sock[i] \in Socket \cup {None} BY DEF ClientInv, OfHolder, Client!TypeOK
    <3> QED BY <2>2, <2>3, <3>1 DEF Spare, Quiet, Carries
  <2>6. ASSUME NEW t \in Caller PROVE Holds(t)'
    <3>1. Holds(t) /\ Mine(t) \in Socket \cup {None} /\ Mine(t)' = Mine(t)
          /\ (callPc[t] \in {"setup", "send", "receive"} => Mine(t) \in Socket)
      BY <2>1, <2>2 DEF ClientInv, OfHolder, Client!TypeOK, Mine, OneCall
    <3>2. CASE Mine(t) # s BY <2>2, <2>3, <3>1, <3>2 DEF Holds, Quiet, Carries
    <3>3. CASE Mine(t) = s
      BY <2>2, <2>4, <3>1, <3>3, ClientConstants DEF Holds, Quiet, Carries, Client!RedisAssumption
    <3> QED BY <3>2, <3>3
  <2> QED BY <2>5, <2>6 DEF OfHolder
<1>6. CASE UNCHANGED Client!vars
  BY <1>0, <1>6 DEF Client!vars, Client!pool, Client!thread, Client!server
<1> QED BY <1>1, <1>2, <1>3, <1>4, <1>5, <1>6 DEF Client!Next, Client!Work, Inner

\* A call is answered with its own reply.
LEMMA OwnStep == ClientInv /\ [Client!Next]_(Client!vars) => Client!ReplyIsOwn'
<1> SUFFICES ASSUME ClientInv, [Client!Next]_(Client!vars) PROVE Client!ReplyIsOwn'
  OBVIOUS
<1> USE DEF ClientInv, Client!ReplyIsOwn
<1>0. ASSUME UNCHANGED <<stage, reply>> PROVE Client!ReplyIsOwn' BY <1>0
<1>a. stage \in [Client!Call -> {"new", "open", "answered", "failed"}]
      /\ reply \in [Client!Call -> 0..MaxCalls]
  BY DEF Shapes
<1>1. ASSUME NEW t \in Caller, Inner(t) PROVE Client!ReplyIsOwn'
  <2>1. CASE Stays(t) BY <1>0, <2>1 DEF Stays
  <2>2. CASE Returns(t, "failed", 0) BY <1>a, <2>2 DEF Returns
  <2>3. CASE Returns(t, "answered", call[t]) BY <1>a, <2>3 DEF Returns
  <2> QED BY <1>1, <2>1, <2>2, <2>3, InnerEnds DEF Answers
<1>2. ASSUME NEW t \in Caller, Client!Begin(t) PROVE Client!ReplyIsOwn'
  BY <1>a, <1>2 DEF Client!Begin
<1>3. ASSUME NEW t \in Caller, Client!Lock(t) \/ Client!TryNext(t) PROVE Client!ReplyIsOwn'
  BY <1>0, <1>3 DEF Client!Lock, Client!TryNext, Client!history
<1>4. ASSUME NEW s \in Socket, Client!Serve(s) \/ Client!Break(s) PROVE Client!ReplyIsOwn'
  BY <1>0, <1>4 DEF Client!Serve, Client!Break, Client!history
<1>5. CASE UNCHANGED Client!vars BY <1>0, <1>5 DEF Client!vars, Client!history
<1> QED BY <1>1, <1>2, <1>3, <1>4, <1>5 DEF Client!Next, Client!Work, Inner

\* The server runs a call on a connection only after the set-up.
LEMMA SetupStep == ClientInv /\ [Client!Next]_(Client!vars) => Client!AfterSetup'
<1> SUFFICES ASSUME ClientInv, [Client!Next]_(Client!vars) PROVE Client!AfterSetup'
  OBVIOUS
<1> USE DEF ClientInv, Client!AfterSetup
<1>1. ASSUME NEW t \in Caller, Inner(t) PROVE Client!AfterSetup'
  BY <1>1 DEF Inner, Client!ConnectFails, Client!Send, Client!Receive, Client!AttemptFails,
              Client!Connect, Client!history
<1>2. ASSUME NEW t \in Caller, Client!Begin(t) \/ Client!Lock(t) \/ Client!TryNext(t)
      PROVE  Client!AfterSetup'
  BY <1>2 DEF Client!Begin, Client!Lock, Client!TryNext, Client!history
<1>3. ASSUME NEW s \in Socket, Client!Serve(s) PROVE Client!AfterSetup'
  <2>1. PICK m \in 0..MaxCalls : inbox[s] = <<m>>
    BY <1>3 DEF Client!Serve, OneUnderWay, Carries
  <2>2. Head(inbox[s]) = m
    BY <2>1, ClientConstants, OneMessage DEF Client!RedisAssumption
  <2>3. m = 0 \/ s \in ready BY <2>1, SetupOrCall DEF OneUnderWay
  <2> QED BY <1>3, <2>2, <2>3 DEF Client!Serve, Client!Setup
<1>4. ASSUME NEW s \in Socket, Client!Break(s) PROVE Client!AfterSetup'
  BY <1>4 DEF Client!Break, Client!history
<1>5. CASE UNCHANGED Client!vars BY <1>5 DEF Client!vars, Client!history
<1> QED BY <1>1, <1>2, <1>3, <1>4, <1>5 DEF Client!Next, Client!Work, Inner

\* The calls whose runs a step changes.
LEMMA PendKept ==
  ASSUME UNCHANGED <<ran, inbox>>, NEW n \in Client!Call PROVE Pend(n)' = Pend(n) /\ Runs(n)' = Runs(n)
BY DEF Pend, Runs

\* A run takes the call out of one inbox.
LEMMA PendTaken ==
  ASSUME NEW n \in Client!Call, NEW s \in Socket, inbox[s] = <<n>>, IsFiniteSet(Pend(n)),
         Pend(n)' = Pend(n) \ {s}
  PROVE  IsFiniteSet(Pend(n)') /\ Cardinality(Pend(n)') = Cardinality(Pend(n)) - 1
         /\ Cardinality(Pend(n)) \in Nat \ {0}
<1>1. s \in Pend(n) BY DEF Pend
<1>2. IsFiniteSet(Pend(n) \ {s}) /\ Cardinality(Pend(n) \ {s}) = Cardinality(Pend(n)) - 1
  BY <1>1, FS_RemoveElement
<1>3. Cardinality(Pend(n)) \in Nat /\ Cardinality(Pend(n)) # 0
  BY <1>1, FS_CardinalityType, FS_EmptySet
<1> QED BY <1>2, <1>3

\* A call is sent once in each of its attempts, so it is run twice at most.
LEMMA TwiceStep == ClientInv /\ [Client!Next]_(Client!vars) => Twice'
<1> SUFFICES ASSUME ClientInv, [Client!Next]_(Client!vars) PROVE Twice'
  OBVIOUS
<1>a. /\ inbox \in [Socket -> Seq(0..MaxCalls)] /\ MaxCalls \in Nat /\ Client!Call = 1..MaxCalls
      /\ ran \in [Client!Call -> Nat] /\ callTries \in [Caller -> 0..1] /\ made \in 0..MaxCalls
      /\ call \in [Caller -> 0..MaxCalls]
      /\ \A n \in Client!Call : IsFiniteSet(Pend(n)) /\ Cardinality(Pend(n)) \in Nat /\ Runs(n) \in Nat
  <2>1. \A n \in Client!Call : IsFiniteSet(Pend(n)) BY DEF ClientInv, Twice
  <2>2. \A n \in Client!Call : Cardinality(Pend(n)) \in Nat BY <2>1, FS_CardinalityType
  <2>3. ran \in [Client!Call -> Nat] BY DEF ClientInv, Client!TypeOK
  <2>4. \A n \in Client!Call : Runs(n) \in Nat BY <2>2, <2>3 DEF Runs
  <2> QED BY <2>1, <2>2, <2>3, <2>4, ClientConstants
          DEF ClientInv, Client!TypeOK, Shapes, Client!RedisAssumption, Client!Call
<1>b. Twice BY DEF ClientInv
<1>c. \A t \in Caller : Sent(t) \in Nat /\ Sent(t) <= 2 /\ callTries[t] \in {0, 1}
  <2> TAKE t \in Caller
  <2>1. callTries[t] \in {0, 1} BY <1>a
  <2> QED BY <2>1 DEF Sent
<1>0. ASSUME \A n \in Client!Call : IsFiniteSet(Pend(n)') /\ Runs(n)' \in Nat /\ Runs(n)' <= Runs(n),
             made' \in Nat, made <= made',
             \A t \in Caller, n \in Client!Call : call'[t] = n =>
               /\ Sent(t)' \in Nat
               /\ Runs(n) = 0 \/ (call[t] = n /\ Sent(t) <= Sent(t)')
      PROVE  Twice'
  <2>1. \A n \in Client!Call : IsFiniteSet(Pend(n)') /\ Runs(n)' <= 2 BY <1>0, <1>a, <1>b DEF Twice
  <2>2. ASSUME NEW n \in Client!Call, n > made' PROVE Runs(n)' = 0
    <3>1. n > made BY <1>0, <1>a, <2>2
    <3>2. Runs(n) = 0 BY <3>1, <1>b DEF Twice
    <3> QED BY <1>0, <3>2
  <2>3. ASSUME NEW t \in Caller, NEW n \in Client!Call, call'[t] = n PROVE Runs(n)' <= Sent(t)'
    <3>1. CASE Runs(n) = 0 BY <1>0, <2>3, <3>1
    <3>2. CASE call[t] = n /\ Sent(t) <= Sent(t)'
      <4>1. Runs(n) <= Sent(t) BY <3>2, <1>b DEF Twice
      <4>2. Sent(t)' \in Nat /\ Runs(n)' \in Nat /\ Runs(n)' <= Runs(n) BY <1>0, <2>3
      <4> QED BY <4>1, <4>2, <3>2, <1>a, <1>c
    <3> QED BY <1>0, <2>3, <3>1, <3>2
  <2> QED BY <2>1, <2>2, <2>3 DEF Twice
<1>d. ASSUME UNCHANGED <<ran, inbox>>
      PROVE  \A n \in Client!Call : IsFiniteSet(Pend(n)') /\ Runs(n)' \in Nat /\ Runs(n)' <= Runs(n)
  <2> TAKE n \in Client!Call
  <2>1. Pend(n)' = Pend(n) /\ Runs(n)' = Runs(n) BY <1>d, PendKept
  <2> QED BY <2>1, <1>a
<1>e. ASSUME NEW t \in Caller, Inner(t),
             \A n \in Client!Call : IsFiniteSet(Pend(n)') /\ Runs(n)' \in Nat /\ Runs(n)' <= Runs(n),
             call'[t] = 0 \/ (call'[t] = call[t] /\ Sent(t)' \in Nat /\ Sent(t) <= Sent(t)')
      PROVE  Twice'
  <2>1. Alone(t) BY <1>e, InnerAlone
  <2>2. made' = made BY <2>1 DEF Alone
  <2>3. ASSUME NEW u \in Caller \ {t} PROVE call'[u] = call[u] /\ Sent(u)' = Sent(u)
    BY <2>1 DEF Alone, Sent
  <2>4. ASSUME NEW u \in Caller, NEW n \in Client!Call, call'[u] = n
        PROVE  Sent(u)' \in Nat /\ call[u] = n /\ Sent(u) <= Sent(u)'
    <3>1. CASE u = t BY <3>1, <2>4, <1>e, <1>a
    <3>2. CASE u # t
      <4>1. call[u] = n /\ Sent(u)' = Sent(u) BY <3>2, <2>3, <2>4
      <4>2. Sent(u) \in Nat BY <1>c
      <4> QED BY <4>1, <4>2
    <3> QED BY <3>1, <3>2
  <2>5. made' \in Nat /\ made <= made' BY <2>2, <1>a
  <2> QED BY <1>0, <1>e, <2>4, <2>5
<1>f. ASSUME NEW t \in Caller, Again(t) PROVE Sent(t)' \in Nat /\ Sent(t) <= Sent(t)'
  <2>1. callPc'[t] = "attempt" /\ callTries'[t] = 1 /\ callTries[t] = 0
    BY <1>f, <1>a DEF ClientInv, Client!TypeOK, Again
  <2>2. Sent(t)' = 1 BY <2>1 DEF Sent
  <2>3. Sent(t) <= 1 BY <2>1 DEF Sent
  <2> QED BY <2>2, <2>3
<1>1. ASSUME NEW t \in Caller, Client!ConnectFails(t) \/ Client!AttemptFails(t) PROVE Twice'
  <2>1. Again(t) \/ Returns(t, "failed", 0)
    BY <1>1, TryAgainCases DEF ClientInv, Client!ConnectFails, Client!AttemptFails
  <2>2. UNCHANGED <<ran, inbox>> BY <1>1 DEF Client!ConnectFails, Client!AttemptFails, Client!server
  <2>3. CASE Again(t)
    <3>1. call'[t] = call[t] BY <2>3 DEF Again
    <3>2. Sent(t)' \in Nat /\ Sent(t) <= Sent(t)' BY <2>3, <1>f
    <3> QED BY <1>1, <1>d, <1>e, <2>2, <3>1, <3>2 DEF Inner
  <2>4. CASE Returns(t, "failed", 0)
    <3>1. call'[t] = 0 BY <2>4, <1>a DEF Returns
    <3> QED BY <1>1, <1>d, <1>e, <2>2, <3>1 DEF Inner
  <2> QED BY <2>1, <2>3, <2>4
<1>2. ASSUME NEW t \in Caller, NEW s \in Socket, Client!Connect(t, s) PROVE Twice'
  <2>1. /\ inbox' = [inbox EXCEPT ![s] = <<0>>] /\ inbox[s] = <<>> /\ ran' = ran
        /\ callPc[t] = "attempt" /\ callPc' = [callPc EXCEPT ![t] = "setup"]
        /\ call' = call /\ callTries' = callTries
    BY <1>2 DEF Client!Connect, Client!Connected, Client!Unused, Client!Setup, Client!Go,
                Client!history
  <2>2. ASSUME NEW n \in Client!Call PROVE Pend(n)' = Pend(n) /\ Runs(n)' = Runs(n)
    <3>1. <<0>> # <<n>> /\ <<>> # <<n>> BY <1>a, OneMessage
    <3>2. Pend(n)' = Pend(n) BY <2>1, <3>1, <1>a DEF Pend
    <3> QED BY <2>1, <3>2 DEF Runs
  <2>3. Sent(t)' = Sent(t)
    <3>1. callPc'[t] = "setup" BY <2>1 DEF ClientInv, Client!TypeOK
    <3> QED BY <2>1, <3>1 DEF Sent
  <2>4. \A n \in Client!Call : IsFiniteSet(Pend(n)') /\ Runs(n)' \in Nat /\ Runs(n)' <= Runs(n)
    BY <2>2, <1>a
  <2>5. Sent(t)' \in Nat /\ Sent(t) <= Sent(t)' BY <2>3, <1>c
  <2> QED BY <1>2, <1>e, <2>1, <2>4, <2>5 DEF Inner
<1>3. ASSUME NEW t \in Caller, Client!Receive(t) PROVE Twice'
  <2>1. UNCHANGED <<ran, inbox>> BY <1>3 DEF Client!Receive
  <2>2. CASE callPc[t] = "setup"
    <3>1. callPc' = [callPc EXCEPT ![t] = "send"] /\ call' = call /\ callTries' = callTries
      BY <1>3, <2>2 DEF Client!Receive, Client!Go
    <3>2. callPc'[t] = "send" BY <3>1 DEF ClientInv, Client!TypeOK
    <3>3. Sent(t)' = Sent(t) BY <2>2, <3>1, <3>2 DEF Sent
    <3>4. Sent(t)' \in Nat /\ Sent(t) <= Sent(t)' BY <3>3, <1>c
    <3> QED BY <1>3, <1>d, <1>e, <2>1, <3>1, <3>4 DEF Inner
  <2>3. CASE callPc[t] = "receive"
    <3>1. call'[t] = 0 BY <1>3, <2>3, <1>a DEF Client!Receive, Client!Return
    <3> QED BY <1>3, <1>d, <1>e, <2>1, <3>1 DEF Inner
  <2> QED BY <1>3, <2>2, <2>3 DEF Client!Receive
<1>4. ASSUME NEW t \in Caller, Client!Send(t) PROVE Twice'
  <2>0. Inner(t) /\ call[t] \in Client!Call BY <1>4, InnerAlone DEF Inner, Alone
  <2>n. PICK n \in Client!Call : n = call[t] BY <2>0
  <2>1. Mine(t) \in Socket /\ inbox[Mine(t)] = <<>>
    <3>1. callPc[t] = "send" => Mine(t) \in Socket BY DEF ClientInv, OneCall
    <3>2. Mine(t) \in Socket \cup {None} BY DEF ClientInv, Client!TypeOK, Mine
    <3>3. callPc[t] \in {"attempt", "send"} /\ Mine(t) # None
      BY <1>4, <3>1, ClientConstants DEF Client!Send, Client!Mine, Mine, Client!RedisAssumption
    <3> QED BY <3>2, <3>3 DEF ClientInv, OfHolder, Holds, Quiet, Carries
  <2>2. inbox' = [inbox EXCEPT ![Mine(t)] = <<n>>]
    <3>1. Append(<<>>, n) = <<n>> BY <1>a, OneMessage
    <3> QED BY <1>4, <2>1, <2>n, <3>1 DEF Client!Send, Client!Mine, Mine
  <2>3. /\ UNCHANGED <<ran, call, callTries, made>> /\ callPc' = [callPc EXCEPT ![t] = "receive"]
        /\ callPc[t] # "receive"
    BY <1>4 DEF Client!Send, Client!Go, Client!history
  <2>4. ASSUME NEW m \in Client!Call, m # n PROVE Runs(m)' = Runs(m) /\ Pend(m)' = Pend(m)
    <3>1. <<n>> # <<m>> /\ <<>> # <<m>> BY <2>4, <1>a, OneMessage
    <3>2. Pend(m)' = Pend(m) BY <2>1, <2>2, <3>1, <1>a DEF Pend
    <3> QED BY <2>3, <3>2 DEF Runs
  <2>5. IsFiniteSet(Pend(n)') /\ Runs(n)' = Runs(n) + 1
    <3>1. <<n>> # <<>> OBVIOUS
    <3>2. Pend(n)' = Pend(n) \cup {Mine(t)} /\ Mine(t) \notin Pend(n)
      BY <2>1, <2>2, <3>1, <1>a DEF Pend
    <3>3. IsFiniteSet(Pend(n)) BY <1>a
    <3>4. IsFiniteSet(Pend(n) \cup {Mine(t)}) /\ Cardinality(Pend(n) \cup {Mine(t)}) = Cardinality(Pend(n)) + 1
      BY <3>2, <3>3, FS_AddElement
    <3>5. ran[n] \in Nat /\ Cardinality(Pend(n)) \in Nat BY <1>a
    <3> QED BY <2>3, <3>2, <3>4, <3>5 DEF Runs
  <2>6. Sent(t) = callTries[t] /\ Sent(t)' = callTries[t] + 1
    <3>1. callPc'[t] = "receive" BY <2>3 DEF ClientInv, Client!TypeOK
    <3>2. callTries[t] \in {0, 1} BY <1>c
    <3> QED BY <2>3, <3>1, <3>2 DEF Sent
  <2>7. Runs(n) <= Sent(t) BY <2>n, <1>b DEF Twice
  <2>8. n <= made /\ n # 0 BY <2>n, <1>a DEF ClientInv, OneCall
  <2>9. Runs(n)' <= 2 /\ Runs(n)' <= Sent(t)'
    <3>1. Runs(n) \in Nat BY <1>a
    <3>2. callTries[t] \in {0, 1} BY <1>c
    <3>3. Runs(n)' = Runs(n) + 1 BY <2>5
    <3> QED BY ONLY <2>6, <2>7, <3>1, <3>2, <3>3
  <2>10. \A m \in Client!Call : IsFiniteSet(Pend(m)') /\ Runs(m)' <= 2
    BY <2>4, <2>5, <2>9, <1>a, <1>b DEF Twice
  <2>11. \A m \in Client!Call : m > made' => Runs(m)' = 0
    <3> TAKE m \in Client!Call
    <3>1. CASE m = n BY <3>1, <2>3, <2>8, <1>a
    <3>2. CASE m # n
      <4>1. Runs(m)' = Runs(m) BY <3>2, <2>4
      <4> QED BY <4>1, <2>3, <1>b DEF Twice
    <3> QED BY <3>1, <3>2
  <2>12. ASSUME NEW u \in Caller, NEW m \in Client!Call, call'[u] = m PROVE Runs(m)' <= Sent(u)'
    <3>1. CASE u = t BY <3>1, <2>n, <2>3, <2>9, <2>12
    <3>2. CASE u # t
      <4>1. call[u] = m /\ m # 0 BY <2>3, <2>12, <1>a
      <4>2. m # n BY <2>n, <3>2, <4>1 DEF ClientInv, OneCall
      <4>3. Sent(u)' = Sent(u) BY <2>3, <3>2 DEF Sent, ClientInv, Client!TypeOK
      <4>4. Runs(m) <= Sent(u) BY <4>1, <1>b DEF Twice
      <4>5. Runs(m)' = Runs(m) BY <2>4, <4>2
      <4> QED BY <4>3, <4>4, <4>5
    <3> QED BY <3>1, <3>2
  <2> QED BY <2>10, <2>11, <2>12 DEF Twice
<1>5. ASSUME NEW t \in Caller, Client!Begin(t) PROVE Twice'
  <2>1. /\ UNCHANGED <<ran, inbox, callTries>> /\ made' = made + 1 /\ callPc[t] = "idle"
        /\ call' = [call EXCEPT ![t] = made + 1] /\ callPc' = [callPc EXCEPT ![t] = "try"]
    BY <1>5 DEF Client!Begin, Client!Go, Client!server
  <2>2. \A u \in Caller : Sent(u)' = Sent(u)
    BY <2>1 DEF Sent, ClientInv, Client!TypeOK
  <2>3. ASSUME NEW u \in Caller, NEW n \in Client!Call, call'[u] = n
        PROVE  Sent(u)' \in Nat /\ (Runs(n) = 0 \/ (call[u] = n /\ Sent(u) <= Sent(u)'))
    <3>1. Sent(u)' \in Nat /\ Sent(u) <= Sent(u)' BY <2>2, <1>c
    <3>2. CASE u = t
      <4>1. n = made + 1 BY <2>1, <2>3, <3>2, <1>a
      <4>2. n > made BY <4>1, <1>a
      <4> QED BY <3>1, <4>2, <1>b DEF Twice
    <3>3. CASE u # t BY <2>1, <2>3, <3>1, <3>3, <1>a
    <3> QED BY <3>2, <3>3
  <2>4. made' \in Nat /\ made <= made' BY <2>1, <1>a
  <2> QED BY <1>0, <1>d, <2>1, <2>3, <2>4
<1>g. ASSUME \A n \in Client!Call : IsFiniteSet(Pend(n)') /\ Runs(n)' \in Nat /\ Runs(n)' <= Runs(n),
             UNCHANGED <<call, made>>, \A u \in Caller : Sent(u)' = Sent(u)
      PROVE  Twice'
  <2>1. \A t \in Caller, n \in Client!Call : call'[t] = n =>
          Sent(t)' \in Nat /\ call[t] = n /\ Sent(t) <= Sent(t)' BY <1>g, <1>c
  <2>2. made' \in Nat /\ made <= made' BY <1>g, <1>a
  <2> QED BY <1>0, <1>g, <2>1, <2>2
<1>6. ASSUME NEW t \in Caller, Client!Lock(t) \/ Client!TryNext(t) PROVE Twice'
  <2>1. /\ UNCHANGED <<ran, inbox, call, callTries, made>> /\ callPc[t] # "receive"
        /\ \E where \in {"attempt", "other", "wait"} : callPc' = [callPc EXCEPT ![t] = where]
    BY <1>6 DEF Client!Lock, Client!TryNext, Client!Go, Client!server, Client!history
  <2>2. \A u \in Caller : Sent(u)' = Sent(u)
    BY <2>1 DEF Sent, ClientInv, Client!TypeOK
  <2> QED BY <1>d, <1>g, <2>1, <2>2
<1>7. ASSUME NEW s \in Socket, Client!Serve(s) PROVE Twice'
  <2>1. PICK m \in 0..MaxCalls : inbox[s] = <<m>>
    BY <1>7 DEF Client!Serve, ClientInv, OneUnderWay, Carries
  <2>2. /\ inbox' = [inbox EXCEPT ![s] = <<>>] /\ UNCHANGED <<call, made, callPc, callTries>>
        /\ m # 0 => ran' = [ran EXCEPT ![m] = @ + 1]
        /\ m = 0 => ran' = ran
    BY <1>7, <1>a, <2>1, OneMessage DEF Client!Serve, Client!Setup, Client!thread
  <2>3. ASSUME NEW n \in Client!Call PROVE IsFiniteSet(Pend(n)') /\ Runs(n)' \in Nat /\ Runs(n)' <= Runs(n)
    <3>1. <<n>> # <<>> OBVIOUS
    <3>2. CASE n = m
      <4>1. Pend(n)' = Pend(n) \ {s} BY <2>1, <2>2, <3>1, <3>2, <1>a DEF Pend
      <4>2. IsFiniteSet(Pend(n)') /\ Cardinality(Pend(n)') = Cardinality(Pend(n)) - 1
            /\ Cardinality(Pend(n)) \in Nat \ {0}
        BY <2>1, <3>2, <4>1, <1>a, PendTaken
      <4>3. ran'[n] = ran[n] + 1 /\ ran[n] \in Nat BY <2>2, <3>2, <1>a
      <4> QED BY <4>2, <4>3 DEF Runs
    <3>3. CASE n # m
      <4>1. <<n>> # <<m>> BY <3>3, <1>a, OneMessage
      <4>2. Pend(n)' = Pend(n) BY <2>1, <2>2, <3>1, <4>1, <1>a DEF Pend
      <4>3. ran'[n] = ran[n] BY <2>2, <3>3, <1>a
      <4> QED BY <4>2, <4>3, <1>a DEF Runs
    <3> QED BY <3>2, <3>3
  <2>4. \A u \in Caller : Sent(u)' = Sent(u) BY <2>2 DEF Sent
  <2> QED BY <1>g, <2>2, <2>3, <2>4
<1>8. ASSUME NEW s \in Socket, Client!Break(s) PROVE Twice'
  <2>1. /\ inbox' = [inbox EXCEPT ![s] = <<>>] /\ UNCHANGED <<ran, call, made, callPc, callTries>>
    BY <1>8 DEF Client!Break, Client!thread, Client!history
  <2>3. ASSUME NEW n \in Client!Call PROVE IsFiniteSet(Pend(n)') /\ Runs(n)' \in Nat /\ Runs(n)' <= Runs(n)
    <3>1. <<n>> # <<>> OBVIOUS
    <3>2. CASE inbox[s] = <<n>>
      <4>1. Pend(n)' = Pend(n) \ {s} BY <2>1, <3>1, <1>a DEF Pend
      <4>2. IsFiniteSet(Pend(n)') /\ Cardinality(Pend(n)') = Cardinality(Pend(n)) - 1
            /\ Cardinality(Pend(n)) \in Nat \ {0}
        BY <3>2, <4>1, <1>a, PendTaken
      <4>3. ran'[n] = ran[n] /\ ran[n] \in Nat BY <2>1, <1>a
      <4> QED BY <4>2, <4>3 DEF Runs
    <3>3. CASE inbox[s] # <<n>>
      <4>1. Pend(n)' = Pend(n) BY <2>1, <3>1, <3>3, <1>a DEF Pend
      <4> QED BY <2>1, <4>1, <1>a DEF Runs
    <3> QED BY <3>2, <3>3
  <2>4. \A u \in Caller : Sent(u)' = Sent(u) BY <2>1 DEF Sent
  <2> QED BY <1>g, <2>1, <2>3, <2>4
<1>9. CASE UNCHANGED Client!vars
  <2>1. UNCHANGED <<ran, inbox, call, made, callPc, callTries>>
    BY <1>9 DEF Client!vars, Client!thread, Client!server, Client!history
  <2>2. \A u \in Caller : Sent(u)' = Sent(u) BY <2>1 DEF Sent
  <2> QED BY <1>d, <1>g, <2>1, <2>2
<1> QED BY <1>1, <1>2, <1>3, <1>4, <1>5, <1>6, <1>7, <1>8, <1>9 DEF Client!Next, Client!Work

\* Every step of the client is a step of RedisCall, or none.
LEMMA PromiseStep == ClientInv /\ [Client!Next]_(Client!vars) => [Client!Promise!Next]_(Client!Promise!vars)
<1> SUFFICES ASSUME ClientInv, [Client!Next]_(Client!vars) PROVE [Client!Promise!Next]_(Client!Promise!vars)
  OBVIOUS
<1> USE DEF Client!Promise!vars
<1>0. ASSUME UNCHANGED <<stage, ran>> PROVE [Client!Promise!Next]_(Client!Promise!vars) BY <1>0
<1>a. /\ stage \in [Client!Call -> {"new", "open", "answered", "failed"}]
      /\ MaxCalls \in Nat /\ Client!Call = 1..MaxCalls /\ ran \in [Client!Call -> Nat]
      /\ made \in Nat
  BY ClientConstants DEF ClientInv, Shapes, Client!TypeOK, Client!RedisAssumption, Client!Call
<1>1. ASSUME NEW t \in Caller, Inner(t) PROVE [Client!Promise!Next]_(Client!Promise!vars)
  <2>1. call[t] \in Client!Call /\ stage[call[t]] = "open" BY <1>1, InnerAlone DEF Alone,
                                                              ClientInv, OneCall, Client!Inside
  <2>2. ran' = ran
    BY <1>1 DEF Inner, Client!ConnectFails, Client!Send, Client!Receive, Client!AttemptFails,
                Client!Connect, Client!history
  <2>3. CASE Stays(t) BY <2>2, <2>3, <1>0 DEF Stays
  <2>4. CASE Returns(t, "failed", 0)
    BY <2>1, <2>2, <2>4 DEF Returns, Client!Promise!Next, Client!Promise!Fail, Client!Promise!Move
  <2>5. CASE Answers(t)
    <3>1. Mine(t) \in Socket /\ outbox[Mine(t)] = <<call[t]>> BY <2>5, ReceivesOwn DEF Answers
    <3>2. ran[call[t]] > 0 BY <2>1, <3>1 DEF ClientInv, OneUnderWay
    <3> QED BY <2>1, <2>2, <2>5, <3>2
            DEF Answers, Returns, Client!Promise!Next, Client!Promise!Answer, Client!Promise!Move
  <2> QED BY <1>1, <2>3, <2>4, <2>5, InnerEnds
<1>2. ASSUME NEW t \in Caller, Client!Begin(t) PROVE [Client!Promise!Next]_(Client!Promise!vars)
  <2>1. made' \in Client!Call /\ made' > made BY <1>2, <1>a DEF Client!Begin
  <2>2. stage[made'] = "new" BY <2>1 DEF ClientInv, OneCall
  <2>3. stage' = [stage EXCEPT ![made'] = "open"] /\ ran' = ran BY <1>2 DEF Client!Begin
  <2> QED BY <2>1, <2>2, <2>3 DEF Client!Promise!Next, Client!Promise!Open, Client!Promise!Move
<1>3. ASSUME NEW t \in Caller, Client!Lock(t) \/ Client!TryNext(t)
      PROVE  [Client!Promise!Next]_(Client!Promise!vars)
  BY <1>0, <1>3 DEF Client!Lock, Client!TryNext, Client!history
<1>4. ASSUME NEW s \in Socket, Client!Serve(s) PROVE [Client!Promise!Next]_(Client!Promise!vars)
  <2>1. PICK m \in 0..MaxCalls : inbox[s] = <<m>>
    BY <1>4 DEF Client!Serve, ClientInv, OneUnderWay, Carries
  <2>2. stage' = stage /\ (m # 0 => ran' = [ran EXCEPT ![m] = @ + 1]) /\ (m = 0 => ran' = ran)
    BY <1>4, <1>a, <2>1, OneMessage DEF Client!Serve, Client!Setup
  <2>3. CASE m # 0
    <3>1. m \in Client!Call BY <2>3, SetupOrCall
    <3>2. s \in Pend(m) /\ IsFiniteSet(Pend(m)) /\ Runs(m) <= 2
      BY <2>1, <3>1 DEF Pend, ClientInv, Twice
    <3>3. Cardinality(Pend(m)) \in Nat /\ Cardinality(Pend(m)) # 0
      BY <3>2, FS_CardinalityType, FS_EmptySet
    <3>4. ran[m] \in Nat BY <3>1, <1>a
    <3>5. ran[m] < 2 /\ Runs(m) # 0 BY <3>2, <3>3, <3>4 DEF Runs
    <3>6. m <= made BY <3>1, <3>5, <1>a DEF ClientInv, Twice
    <3>7. stage[m] # "new" BY <3>1, <3>6, <1>a DEF ClientInv, OneCall
    <3> QED BY <2>2, <2>3, <3>1, <3>5, <3>7 DEF Client!Promise!Next, Client!Promise!Run
  <2> QED BY <1>0, <2>2, <2>3
<1>5. ASSUME NEW s \in Socket, Client!Break(s) PROVE [Client!Promise!Next]_(Client!Promise!vars)
  BY <1>0, <1>5 DEF Client!Break, Client!history
<1>6. CASE UNCHANGED Client!vars BY <1>0, <1>6 DEF Client!vars, Client!history
<1> QED BY <1>1, <1>2, <1>3, <1>4, <1>5, <1>6 DEF Client!Next, Client!Work, Inner

\* The first states of the client are those of RedisCall.
LEMMA PromiseInit == Client!Init => Client!Promise!Init
BY DEF Client!Init, Client!Promise!Init

\* The invariant of the client, step by step.
LEMMA ClientStep == ClientInv /\ [Client!Next]_(Client!vars) => ClientInv'
BY ShapesStep, ClientTypeStep, HolderStep, OneCallStep, UnderWayStep, OfHolderStep, TwiceStep,
   OwnStep, SetupStep DEF ClientInv

-----------------------------------------------------------------------------
(* Both, in the behaviours of Mail.                                        *)

\* A step of Mail is one of the index and of the client, or none.
LEMMA MailSteps ==
  ASSUME [Step]_<<part, vars, index, client>>
  PROVE  [Index!Next]_(Index!vars) /\ [Client!Next]_(Client!vars)
<1> USE DEF Index!vars, Index!redis, Index!request, Index!count, Index!history, index,
            Client!vars, Client!pool, Client!thread, Client!server, Client!history, client
<1>1. CASE UNCHANGED <<index, client>> BY <1>1
<1>2. CASE Index!Next /\ UNCHANGED client BY <1>2
<1>3. CASE Client!Next /\ UNCHANGED index BY <1>3
<1> QED BY <1>1, <1>2, <1>3 DEF Step

\* The inductive invariant of the index and the client holds in every state
\* (mail.cpp: send, remove, cleanup; redis.cpp: command, command_unlocked).
THEOREM MailsInvariant == Mails => [](IndexInv /\ ClientInv)
<1>1. Start => IndexInv /\ ClientInv BY IndexInit, ClientInit DEF Start
<1>2. IndexInv /\ ClientInv /\ [Step]_<<part, vars, index, client>> => IndexInv' /\ ClientInv'
  BY MailSteps, IndexStep, ClientStep
<1> QED BY <1>1, <1>2, PTL DEF Mails

\* A valid mail that was sent alone is in the index, and a removed mail does
\* not come back, whatever was repeated, cleaned up or cut off (MailIndex).
THEOREM MailIndexHolds == Mails => []IndexHolds
<1>1. IndexInv => IndexHolds
  <2>1. IndexInv => Index!ValidIsListed
    BY DEF IndexInv, MailAlone, Index!ValidIsListed
  <2> QED BY <2>1 DEF IndexInv, IndexHolds, Index!IndexHolds
<1> QED BY <1>1, MailsInvariant, PTL

\* A call is answered with the reply to its own command, and no command is run
\* before the set-up of its connection was (command_unlocked, connect_unlocked).
THEOREM ClientReplies == Mails => []Replies
<1>1. ClientInv => Replies BY DEF ClientInv, Replies, Client!Replies
<1> QED BY <1>1, MailsInvariant, PTL

\* A connection is used by the thread that holds its mutex, which waits for no
\* other (Hold).
THEOREM ClientHolderWorks == Mails => []HolderWorks
<1>1. ClientInv => HolderWorks BY DEF ClientInv, HolderWorks
<1> QED BY <1>1, MailsInvariant, PTL

\* The client implements RedisCall: a call is run at most twice and answered
\* only after it was run (command_unlocked).
THEOREM ClientPromise == Mails => KeepsPromise
<1>1. Start => Client!Promise!Init BY PromiseInit DEF Start
<1>2. IndexInv /\ ClientInv /\ [Step]_<<part, vars, index, client>>
        => [Client!Promise!Next]_(Client!Promise!vars)
  BY MailSteps, PromiseStep
<1> QED BY <1>1, <1>2, MailsInvariant, PTL
        DEF Mails, KeepsPromise, Client!KeepsPromise, Client!Promise!Spec
===============================================================================
