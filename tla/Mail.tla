--------------------------------- MODULE Mail ---------------------------------
(* What is built on Redis, and its client: MailSchedule, MailIndex and     *)
(* RedisClient.  Each takes a command for one that is run, or not, with or *)
(* without an answer; they share no variable, and no property is about two *)
(* of them: behaviours in which one of them moves show all there is to     *)
(* see.  part says which.                                                  *)
EXTENDS MailSchedule, Sequences

CONSTANTS
  Writer, Lifetime, MaxTime, MaxRequests, MaxRepeats, MaxRestarts, \* of MailIndex
  Caller, Socket, MaxCalls                                         \* of RedisClient

VARIABLES
  part,
  mail, entry, now, mailPc, of, score, mailTries, requests, mailFaults, mailCrashes,
  alone, removed, again,
  next, owner, sock, callPc, slot, call, callTries, inbox, outbox, ready, made,
  ran, stage, reply, stray

index  == <<mail, entry, now, mailPc, of, score, mailTries, requests, mailFaults,
            mailCrashes, alone, removed, again>>
client == <<next, owner, sock, callPc, slot, call, callTries, inbox, outbox, ready, made,
            ran, stage, reply, stray>>

Index == INSTANCE MailIndex WITH
  Thread <- Writer, MaxFaults <- MaxRepeats, MaxCrashes <- MaxRestarts,
  pc <- mailPc, tries <- mailTries, faults <- mailFaults, crashes <- mailCrashes
Client == INSTANCE RedisClient WITH Thread <- Caller, pc <- callPc, tries <- callTries

ASSUME IndexConstants == Index!IndexAssumption
ASSUME ClientConstants == Client!RedisAssumption

Start == part \in {"schedule", "index", "client"} /\ Init /\ Index!Init /\ Client!Init

Step ==
  \/ part = "schedule" /\ Next /\ UNCHANGED <<part, index, client>>
  \/ part = "index" /\ Index!Next /\ UNCHANGED <<part, vars, client>>
  \/ part = "client" /\ Client!Next /\ UNCHANGED <<part, vars, index>>

Mails == Start /\ [][Step]_<<part, vars, index, client>>

-----------------------------------------------------------------------------
(* The properties of MailIndex and RedisClient, which state them at length. *)

\* A valid mail is in the index, and a removed one does not come back.
IndexHolds == part = "index" => Index!IndexHolds
\* A call is answered with the reply to its own command, after the set-up.
Replies == part = "client" => Client!Replies
\* A connection has one user, who waits for no other.
HolderWorks == part = "client" => Client!HolderWorks
\* The client keeps what RedisCall promises.
KeepsPromise == Client!KeepsPromise
===============================================================================
