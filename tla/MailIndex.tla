------------------------------- MODULE MailIndex -------------------------------
(***************************************************************************)
(* The mail of one player (mail.cpp): a Redis key that expires, and its    *)
(* entry in the sorted set MAIL_SET, scored with a time of expiry, from    *)
(* which the administrator's list is made.  Sending and removing are some  *)
(* commands each; a command whose reply is lost is tried once more, then   *)
(* reported as failed, as in MailSchedule.                                 *)
(***************************************************************************)
EXTENDS Naturals

CONSTANTS Thread,
          Lifetime, \* kMailLifetimeSeconds
          MaxTime, MaxRequests, MaxFaults, MaxCrashes

IndexAssumption ==
  {Lifetime, MaxTime} \subseteq Nat \ {0} /\ {MaxRequests, MaxFaults, MaxCrashes} \subseteq Nat

VARIABLES
  mail,  \* the key: which mail it holds (0: none) and when it expires
  entry, \* the score of the key in MAIL_SET, 0 without one
  now,
  pc, of, score, tries, \* a request: its command, the mail it sends or found,
                        \* the score it will give, the attempts that failed
  requests, faults, crashes,
  alone,   \* history: since the mail was sent, what was done to it ran alone and was answered
  removed, \* history: mails whose removal was confirmed
  again    \* history: mails with a command that was tried twice

redis   == <<mail, entry>>
request == <<pc, of, score, tries>>
count   == <<requests, faults, crashes>>
history == <<alone, removed, again>>
vars == <<redis, now, request, count, history>>

Init ==
  /\ mail = [of |-> 0, until |-> 0] /\ entry = 0 /\ now = 1
  /\ pc = [t \in Thread |-> "idle"] /\ of = [t \in Thread |-> 0]
  /\ score = [t \in Thread |-> 0] /\ tries = [t \in Thread |-> 0]
  /\ requests = 0 /\ faults = 0 /\ crashes = 0
  /\ alone = TRUE /\ removed = {} /\ again = {}

Live == mail.of # 0 /\ mail.until > now
Writing(t) == pc[t] # "idle"

-----------------------------------------------------------------------------
(* Faulty variants of the operators below, which a property must find.     *)

\* The score is the time of the mail, not that of its end.
ScoreIsNow == now

-----------------------------------------------------------------------------
(* command_unlocked: the reply comes, or it does not, and the command was  *)
(* run or not.                                                             *)

Go(t, where) == pc' = [pc EXCEPT ![t] = where] /\ tries' = [tries EXCEPT ![t] = 0]

End(t) ==
  /\ Go(t, "idle") /\ of' = [of EXCEPT ![t] = 0] /\ score' = [score EXCEPT ![t] = 0]

\* Two attempts have failed.  The cleaning does not matter to send; remove takes an
\* unanswered GET for an expired mail and goes on from an unanswered DEL, both to
\* the index entry, and will answer false; whatever else fails ends the request.
GiveUp(t) ==
  \/ pc[t] = "clean" /\ Go(t, "set") /\ UNCHANGED <<of, score, alone>>
  \/ /\ pc[t] \in {"look", "del"} /\ Go(t, "unlist")
     /\ of' = [of EXCEPT ![t] = 0] /\ UNCHANGED score /\ alone' = FALSE
  \/ pc[t] \in {"set", "add", "zrem", "unlist"} /\ End(t) /\ alone' = FALSE

\* What the commands do.
Run(t) ==
  CASE pc[t] = "clean" -> entry' = (IF entry <= now THEN 0 ELSE entry) /\ mail' = mail
    [] pc[t] = "set"   -> mail' = [of |-> of[t], until |-> now + Lifetime] /\ entry' = entry
    [] pc[t] = "add"   -> entry' = score[t] /\ mail' = mail
    [] pc[t] = "look"  -> UNCHANGED redis
    [] pc[t] = "del"   -> mail' = [of |-> 0, until |-> 0] /\ entry' = entry
    [] OTHER           -> entry' = 0 /\ mail' = mail

MoreTries(t) == tries[t] = 0

Unanswered(t) ==
  /\ pc[t] \notin {"idle", "stamp"}
  /\ faults < MaxFaults /\ faults' = faults + 1
  /\ Run(t) \/ UNCHANGED redis
  /\ again' = again \cup {of[t]}
  /\ IF MoreTries(t)
     THEN tries' = [tries EXCEPT ![t] = @ + 1] /\ UNCHANGED <<pc, of, score, alone>>
     ELSE GiveUp(t)
  /\ UNCHANGED <<now, requests, crashes, removed>>

-----------------------------------------------------------------------------
(* Requests.                                                               *)

Begin(t, where) ==
  /\ pc[t] = "idle" /\ requests < MaxRequests /\ requests' = requests + 1
  /\ Go(t, where) /\ UNCHANGED <<redis, now, score, faults, crashes, removed, again>>

Others(t) == \E u \in Thread \ {t} : Writing(u)

\* send
SendMail(t) ==
  /\ Begin(t, "clean") /\ of' = [of EXCEPT ![t] = requests'] /\ alone' = ~Others(t)

Clean(t) ==
  /\ pc[t] = "clean" /\ Go(t, "set") /\ Run(t)
  /\ UNCHANGED <<now, of, score, count, history>>

Set(t) ==
  /\ pc[t] = "set" /\ Go(t, "stamp") /\ Run(t)
  /\ UNCHANGED <<now, of, score, count, history>>

\* expires_at, computed when the mail is there
ExpiresAt == now + Lifetime

Stamp(t) ==
  /\ pc[t] = "stamp" /\ Go(t, "add") /\ score' = [score EXCEPT ![t] = ExpiresAt]
  /\ UNCHANGED <<redis, now, of, count, history>>

Add(t) ==
  /\ pc[t] = "add" /\ End(t) /\ Run(t)
  /\ UNCHANGED <<now, count, history>>

\* remove
RemoveMail(t) ==
  /\ Begin(t, "look") /\ of' = of /\ alone' = (alone /\ ~Others(t))

Look(t) ==
  /\ pc[t] = "look"
  /\ Go(t, IF Live THEN "del" ELSE "unlist")
  /\ of' = [of EXCEPT ![t] = IF Live THEN mail.of ELSE 0]
  /\ UNCHANGED <<redis, now, score, count, history>>

Del(t) ==
  /\ pc[t] = "del" /\ Go(t, "zrem") /\ Run(t)
  /\ UNCHANGED <<now, of, score, count, history>>

\* The index entry; the answer is true if there was one, and a mail that was deleted.
Unlist(t) ==
  /\ pc[t] \in {"zrem", "unlist"} /\ End(t) /\ Run(t)
  /\ removed' = IF pc[t] = "zrem" /\ entry # 0 THEN removed \cup {of[t]} ELSE removed
  /\ UNCHANGED <<now, count, alone, again>>

\* cleanup_expired_index, once a second by the scheduler and before each list.
CleanUp ==
  /\ entry # 0 /\ entry <= now /\ entry' = 0
  /\ UNCHANGED <<mail, now, request, count, history>>

Tick ==
  /\ now < MaxTime /\ now' = now + 1
  /\ UNCHANGED <<redis, request, count, history>>

\* The server stops, and is started again: init cleans the index.
Restart ==
  /\ crashes < MaxCrashes /\ crashes' = crashes + 1
  /\ entry' = IF entry <= now THEN 0 ELSE entry
  /\ pc' = [t \in Thread |-> "idle"] /\ of' = [t \in Thread |-> 0]
  /\ score' = [t \in Thread |-> 0] /\ tries' = [t \in Thread |-> 0]
  /\ alone' = (alone /\ \A t \in Thread : pc[t] = "idle")
  /\ UNCHANGED <<mail, now, requests, faults, removed, again>>

Serve(t) ==
  \/ SendMail(t) \/ Clean(t) \/ Set(t) \/ Stamp(t) \/ Add(t)
  \/ RemoveMail(t) \/ Look(t) \/ Del(t) \/ Unlist(t) \/ Unanswered(t)

Next == (\E t \in Thread : Serve(t)) \/ CleanUp \/ Tick \/ Restart

Spec == Init /\ [][Next]_vars

-----------------------------------------------------------------------------
(* The variables keep their types, and a command is tried twice at most.   *)
Step == {"idle", "clean", "set", "stamp", "add", "look", "del", "zrem", "unlist"}
TypeOK ==
  /\ mail \in [of : 0..MaxRequests, until : 0..(MaxTime + Lifetime)]
  /\ entry \in 0..(MaxTime + Lifetime) /\ now \in 1..MaxTime
  /\ pc \in [Thread -> Step] /\ of \in [Thread -> 0..MaxRequests]
  /\ score \in [Thread -> 0..(MaxTime + Lifetime)] /\ tries \in [Thread -> 0..1]
  /\ requests \in 0..MaxRequests /\ alone \in BOOLEAN
  /\ removed \cup again \subseteq 0..MaxRequests

Sending == \E t \in Thread : pc[t] \in {"clean", "set", "stamp", "add"}

(* A valid mail is in the index for as long as it is valid, also when      *)
(* commands had to be repeated or the index was cleaned in between, unless *)
(* a request on it overlapped another, was cut off, or went on without the *)
(* answer of Redis: a removal whose GET or DEL got none leaves the mail    *)
(* and takes the entry away (send, remove, cleanup_expired_index).         *)
ValidIsListed == Live /\ alone /\ ~Sending => entry >= mail.until

(* A mail whose removal was confirmed does not come back, unless one of    *)
(* its commands was tried twice (remove).                                  *)
RemovedIsGone == mail.of \in removed => mail.of \in again

(* The index and the mail agree in both directions (send, remove, list).   *)
IndexHolds == TypeOK /\ ValidIsListed /\ RemovedIsGone
=============================================================================
