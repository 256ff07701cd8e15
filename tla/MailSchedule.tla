---------------------------- MODULE MailSchedule ----------------------------
(***************************************************************************)
(* Global mail and its timed tasks (mail.cpp), for one channel: the        *)
(* scheduler thread, the administrator's requests, and Redis behind the    *)
(* client of redis.cpp, which tries every command twice and cannot tell a  *)
(* command that was not executed from one whose reply was lost.            *)
(*                                                                         *)
(* A task stands for the JSON string in GLOBAL_MAIL_SCHEDULES and for the  *)
(* mail made from it.  GLOBAL_MAIL_SET is only written, never read: of the *)
(* commands on it only the replies that are looked at are modelled.        *)
(***************************************************************************)
EXTENDS Naturals, FiniteSets

CONSTANTS Task,      \* the timed tasks that are ever created
          Throwing,  \* those whose stored activity list makes send_global throw
          Admin,     \* gateway threads that serve the administrator
          Scheduler, \* the thread of scheduler_loop
          Direct,    \* a mail sent at once
          None,
          MaxFaults, \* commands without an answer in one behaviour
          MaxCrashes

Thread == Admin \cup {Scheduler}

ASSUME MailAssumption ==
  /\ Throwing \subseteq Task /\ Scheduler \notin Admin
  /\ Direct \notin Task /\ None \notin Task \cup {Direct}
  /\ MaxFaults \in Nat /\ MaxCrashes \in Nat

VARIABLES
  redis,     \* tasks: GLOBAL_MAIL_SCHEDULES; mail: the channel's global mail
  due,       \* tasks whose time has come
  pc, arg,   \* where a thread is, and the task or mail it works on
  tries,     \* the failed attempts of its present command
  todo,      \* the rest of scheduler_loop's list
  used,      \* tasks that were created
  faults, crashes,
  accepted,  \* history: tasks the administrator was given the id of
  cancelled, \* history: tasks whose cancellation was confirmed
  sent,      \* history: tasks that became the channel's mail, how often
  doubtful,  \* history: tasks with a command whose outcome nobody knows
  dropped    \* history: tasks in the scheduler's hands at a crash

history == <<accepted, cancelled, sent, doubtful, dropped>>
vars == <<redis, due, pc, arg, tries, todo, used, faults, crashes, history>>

Init ==
  /\ redis = [tasks |-> {}, mail |-> None]
  /\ due = {} /\ used = {} /\ todo = {}
  /\ pc = [t \in Thread |-> IF t = Scheduler THEN "range" ELSE "idle"]
  /\ arg = [t \in Thread |-> None]
  /\ tries = [t \in Thread |-> 0]
  /\ faults = 0 /\ crashes = 0
  /\ accepted = {} /\ cancelled = {} /\ doubtful = {} /\ dropped = {}
  /\ sent = [s \in Task |-> 0]

-----------------------------------------------------------------------------
(* Faulty variants of the operators below, which a property must find.     *)

\* The reply to zrem is not looked at.
BlindClaim ==
  /\ pc[Scheduler] = "claim" /\ UNCHANGED <<faults, doubtful, tries>>
  /\ redis' = [redis EXCEPT !.tasks = @ \ {arg[Scheduler]}]
  /\ pc' = [pc EXCEPT ![Scheduler] = "set"]
  /\ UNCHANGED <<due, arg, todo, used, crashes, accepted, cancelled, sent, dropped>>

\* The task is sent first, and would be taken out later.
LateClaim ==
  /\ pc[Scheduler] = "claim" /\ UNCHANGED <<faults, doubtful, tries, redis>>
  /\ pc' = [pc EXCEPT ![Scheduler] = IF arg[Scheduler] \in redis.tasks THEN "set" ELSE "next"]
  /\ UNCHANGED <<due, arg, todo, used, crashes, accepted, cancelled, sent, dropped>>

\* The task that could not be sent is not put back.
FaultyReadd ==
  /\ pc[Scheduler] = "readd"
  /\ pc' = [pc EXCEPT ![Scheduler] = "next"]
  /\ UNCHANGED <<redis, due, arg, tries, todo, used, faults, crashes, history>>

\* The bounds of zrangebyscore are mixed up.
FaultyReadDue ==
  /\ pc[Scheduler] = "range"
  /\ pc' = [pc EXCEPT ![Scheduler] = "next"]
  /\ todo' = redis.tasks \ due
  /\ UNCHANGED <<redis, due, arg, tries, used, faults, crashes, history>>

-----------------------------------------------------------------------------
(* command_unlocked: thread t tries the command it is at.  It may be run   *)
(* (ran) or not; without a reply it is tried once more, then reported as   *)
(* an error.  yes and no are where the caller goes on a true and on a      *)
(* false result; result is what the reply says.                            *)

Answered(t, ran, after, result, yes, no) ==
  /\ ran /\ redis' = after
  /\ pc' = [pc EXCEPT ![t] = IF result THEN yes ELSE no]
  /\ tries' = [tries EXCEPT ![t] = 0]
  /\ UNCHANGED <<faults, doubtful>>

Unanswered(t, ran, after, no) ==
  /\ faults < MaxFaults /\ faults' = faults + 1
  /\ redis' = IF ran THEN after ELSE redis
  /\ tries' = [tries EXCEPT ![t] = 1 - @]
  /\ pc' = [pc EXCEPT ![t] = IF tries[t] = 0 THEN @ ELSE no]
  /\ doubtful' = IF \/ ran /\ pc[t] \in {"claim", "set", "readd", "drop", "add", "cancel"}
                    \/ tries[t] = 1 /\ pc[t] \in {"index", "readd"}
                 THEN doubtful \cup ({arg[t]} \cap Task) ELSE doubtful

Command(t, ran, after, result, yes, no) ==
  Answered(t, ran, after, result, yes, no) \/ Unanswered(t, ran, after, no)

With(s)    == [redis EXCEPT !.tasks = @ \cup {s}]
Without(s) == [redis EXCEPT !.tasks = @ \ {s}]

-----------------------------------------------------------------------------
(* scheduler_loop.                                                         *)

ReadDue ==
  /\ pc[Scheduler] = "range"
  /\ \E ran \in BOOLEAN : Command(Scheduler, ran, redis, TRUE, "next", "range")
  /\ todo' = IF pc'[Scheduler] = "next" THEN redis.tasks \cap due ELSE todo
  /\ UNCHANGED <<due, arg, used, crashes, accepted, cancelled, sent, dropped>>

NextTask(s) ==
  /\ pc[Scheduler] = "next" /\ s \in todo
  /\ todo' = todo \ {s}
  /\ arg' = [arg EXCEPT ![Scheduler] = s]
  /\ pc' = [pc EXCEPT ![Scheduler] = "claim"]
  /\ UNCHANGED <<redis, due, tries, used, faults, crashes, history>>

Sleep ==
  /\ pc[Scheduler] = "next" /\ todo = {}
  /\ pc' = [pc EXCEPT ![Scheduler] = "range"]
  /\ UNCHANGED <<redis, due, arg, tries, todo, used, faults, crashes, history>>

\* zrem: whoever takes the task out sends it.
ClaimTask ==
  LET s == arg[Scheduler] IN
  /\ pc[Scheduler] = "claim"
  /\ \E ran \in BOOLEAN :
       Command(Scheduler, ran, Without(s), s \in redis.tasks,
               IF s \in Throwing THEN "drop" ELSE "set", "next")
  /\ UNCHANGED <<due, arg, todo, used, crashes, accepted, cancelled, sent, dropped>>

\* send_global for the scheduler and for the administrator: SET, then ZADD.
SetMail(t) ==
  /\ pc[t] = "set"
  /\ \E ran \in BOOLEAN :
       /\ Command(t, ran, [redis EXCEPT !.mail = arg[t]], TRUE, "index",
                  IF t = Scheduler THEN "readd" ELSE "idle")
       /\ sent' = [s \in Task |-> IF ran /\ s = arg[t] THEN sent[s] + 1 ELSE sent[s]]
  /\ UNCHANGED <<due, arg, todo, used, crashes, accepted, cancelled, dropped>>

IndexMail(t) ==
  /\ pc[t] = "index"
  /\ \E ran \in BOOLEAN :
       IF t = Scheduler THEN Command(t, ran, redis, TRUE, "next", "readd")
       ELSE Command(t, ran, redis, TRUE, "done", "idle")
  /\ UNCHANGED <<due, arg, todo, used, crashes, accepted, cancelled, sent, dropped>>

\* A task that could not be sent goes back, if that succeeds.
ReaddTask ==
  /\ pc[Scheduler] = "readd"
  /\ \E ran \in BOOLEAN : Command(Scheduler, ran, With(arg[Scheduler]), TRUE, "next", "next")
  /\ UNCHANGED <<due, arg, todo, used, crashes, accepted, cancelled, sent, dropped>>

\* catch (...): the claimed task is not put back.
DropTask ==
  /\ pc[Scheduler] = "drop"
  /\ \E ran \in BOOLEAN : Command(Scheduler, ran, Without(arg[Scheduler]), TRUE, "next", "next")
  /\ UNCHANGED <<due, arg, todo, used, crashes, accepted, cancelled, sent, dropped>>

-----------------------------------------------------------------------------
(* The administrator.                                                      *)

Request(a, x, l) ==
  /\ pc[a] \in {"idle", "done"}
  /\ arg' = [arg EXCEPT ![a] = x]
  /\ pc' = [pc EXCEPT ![a] = l]
  /\ UNCHANGED <<redis, due, tries, todo, faults, crashes, history>>

ScheduleGlobal(a, s) == s \notin used /\ used' = used \cup {s} /\ Request(a, s, "add")
CancelSchedule(a, s) == s \in used /\ UNCHANGED used /\ Request(a, s, "list")
SendGlobal(a)        == UNCHANGED used /\ Request(a, Direct, "set")
RemoveGlobal(a)      == UNCHANGED used /\ Request(a, None, "get")

AddTask(a) ==
  /\ pc[a] = "add"
  /\ \E ran \in BOOLEAN : Command(a, ran, With(arg[a]), TRUE, "done", "idle")
  /\ accepted' = IF pc'[a] = "done" THEN accepted \cup {arg[a]} ELSE accepted
  /\ UNCHANGED <<due, arg, todo, used, crashes, cancelled, sent, dropped>>

\* cancel_global_schedule looks for the id in the whole set, then removes it.
ListTasks(a) ==
  /\ pc[a] = "list"
  /\ \E ran \in BOOLEAN : Command(a, ran, redis, arg[a] \in redis.tasks, "cancel", "idle")
  /\ UNCHANGED <<due, arg, todo, used, crashes, accepted, cancelled, sent, dropped>>

CancelTask(a) ==
  /\ pc[a] = "cancel"
  /\ \E ran \in BOOLEAN :
       Command(a, ran, Without(arg[a]), arg[a] \in redis.tasks, "done", "idle")
  /\ cancelled' = IF pc'[a] = "done" THEN cancelled \cup {arg[a]} ELSE cancelled
  /\ UNCHANGED <<due, arg, todo, used, crashes, accepted, sent, dropped>>

RemoveGet(a) ==
  /\ pc[a] = "get"
  /\ \E ran \in BOOLEAN : Command(a, ran, redis, redis.mail # None, "del", "idle")
  /\ UNCHANGED <<due, arg, todo, used, crashes, accepted, cancelled, sent, dropped>>

RemoveDel(a) ==
  /\ pc[a] = "del"
  /\ \E ran \in BOOLEAN : Command(a, ran, [redis EXCEPT !.mail = None], TRUE, "done", "idle")
  /\ UNCHANGED <<due, arg, todo, used, crashes, accepted, cancelled, sent, dropped>>

-----------------------------------------------------------------------------
(* Time, and the process.                                                  *)

BecomesDue(s) ==
  /\ s \in used \ due
  /\ due' = due \cup {s}
  /\ UNCHANGED <<redis, pc, arg, tries, todo, used, faults, crashes, history>>

\* EX 7200
MailExpires ==
  /\ redis.mail # None
  /\ redis' = [redis EXCEPT !.mail = None]
  /\ UNCHANGED <<due, pc, arg, tries, todo, used, faults, crashes, history>>

\* The scheduler has taken the task arg[Scheduler] out and not sent it yet.
InHand == {arg[Scheduler] : l \in {pc[Scheduler]} \cap {"set", "readd", "drop"}}

Crash ==
  /\ crashes < MaxCrashes /\ crashes' = crashes + 1
  /\ dropped' = dropped \cup InHand
  /\ pc' = [t \in Thread |-> IF t = Scheduler THEN "range" ELSE "idle"]
  /\ arg' = [t \in Thread |-> None]
  /\ tries' = [t \in Thread |-> 0]
  /\ todo' = {}
  /\ UNCHANGED <<redis, due, used, faults, accepted, cancelled, sent, doubtful>>

SchedulerStep ==
  \/ ReadDue \/ Sleep \/ ClaimTask \/ ReaddTask \/ DropTask
  \/ SetMail(Scheduler) \/ IndexMail(Scheduler)
  \/ \E s \in Task : NextTask(s)

AdminStep(a) ==
  \/ \E s \in Task : ScheduleGlobal(a, s) \/ CancelSchedule(a, s)
  \/ SendGlobal(a) \/ RemoveGlobal(a)
  \/ AddTask(a) \/ ListTasks(a) \/ CancelTask(a) \/ SetMail(a) \/ IndexMail(a)
  \/ RemoveGet(a) \/ RemoveDel(a)

Next ==
  \/ SchedulerStep
  \/ \E a \in Admin : AdminStep(a)
  \/ \E s \in Task : BecomesDue(s)
  \/ MailExpires \/ Crash

Spec == Init /\ [][Next]_vars

\* The scheduler thread runs for as long as the process does.
Fairness == WF_vars(SchedulerStep)

FairSpec == Spec /\ Fairness

-----------------------------------------------------------------------------
(* Properties.                                                             *)

Steps == {"range", "next", "claim", "set", "index", "readd", "drop",
          "idle", "done", "add", "list", "cancel", "get", "del"}

TypeOK ==
  /\ redis \in [tasks : SUBSET Task, mail : Task \cup {Direct, None}]
  /\ due \subseteq used /\ used \subseteq Task /\ todo \subseteq Task
  /\ pc \in [Thread -> Steps]
  /\ arg \in [Thread -> Task \cup {Direct, None}]
  /\ tries \in [Thread -> {0, 1}]
  /\ faults \in 0..MaxFaults /\ crashes \in 0..MaxCrashes
  /\ accepted \subseteq used /\ cancelled \subseteq used
  /\ doubtful \subseteq used /\ dropped \subseteq used
  /\ sent \in [Task -> Nat]

\* A confirmed cancellation holds: the task is neither stored nor about to be
\* sent, although the scheduler may have read it before.  A ZADD repeated after
\* a lost reply is the one way back.
CancelHolds ==
  \A s \in cancelled \ doubtful :
    s \notin redis.tasks /\ ~(arg[Scheduler] = s /\ pc[Scheduler] \in {"set", "index", "readd"})

\* A task becomes mail once: the scheduler's retries, crashes and restarts do
\* not send it again (a second mail has another md, and is paid out again).
SentOnce == \A s \in Task \ doubtful : sent[s] <= 1

\* A task whose creation was confirmed is stored, or sent, or cancelled, or in
\* the scheduler's hands; it is lost by a crash, by a command whose outcome is
\* not known, and by an activity list that throws, and in no other way.
TaskConserved ==
  \A s \in accepted :
    \/ s \in redis.tasks \cup cancelled \cup InHand \/ sent[s] > 0
    \/ s \in dropped \cup doubtful \cup Throwing

\* A confirmed task is sent once or accounted for, never lost unseen and never
\* paid out twice: the two properties above (scheduler_thread).
TasksKept == TypeOK /\ SentOnce /\ TaskConserved

\* README 104: tasks are in Redis and a restart of the server does not lose them.
RestartKeepsTasks ==
  \A s \in accepted : s \in redis.tasks \cup cancelled \cup InHand \/ sent[s] > 0

\* README 105: a task whose time has come turns into the channel's mail.
DueIsSent ==
  \A s \in Task : (s \in accepted \cap due) ~> (sent[s] > 0 \/ s \in cancelled)

-----------------------------------------------------------------------------
(* The stages of TaskLife in terms of this module.                         *)

Stage(s) ==
  IF s \in doubtful         THEN "doubtful"
  ELSE IF s \in InHand      THEN "taken"
  ELSE IF sent[s] > 0       THEN "sent"
  ELSE IF s \in redis.tasks THEN "stored"
  ELSE IF s \in cancelled   THEN "cancelled"
  ELSE IF s \in accepted    THEN "lost" ELSE "none"

Life == INSTANCE TaskLife WITH life <- [s \in Task |-> Stage(s)]

\* The scheduler, the administrator, Redis and the retries together keep a task
\* to the order of TaskLife: taken once, never both cancelled and taken, never
\* revived after it was sent, cancelled or lost.
KeepsTaskLife == Life!Spec

=============================================================================
