----------------------------- MODULE AdminSignup ----------------------------
(***************************************************************************)
(* The signup of administrators in apps/admin-server: a look-up by email,  *)
(* the insert under a unique index, and a Bull job that has apps/identity  *)
(* store a mail of welcome.                                                *)
(***************************************************************************)
EXTENDS ServiceCalls

CONSTANTS
  Emails,
  MaxUsers,         \* bound: the rows ever inserted
  MaxMailAttempts   \* attempts, of the queue's options

ASSUME SignupAssumption ==
  "none" \notin Emails /\ MaxUsers \in Nat /\ MaxMailAttempts \in Nat \ {0}

VARIABLES
  users,     \* table user: the email of each row, "none" if it has been deleted
  signup,    \* signup[c]: the request of call c
  mailJob,   \* mailJob[i]: the job send-mail of user i
  mails,     \* mails[i]: the rows of table mail for user i
  answered   \* history: users whose signup was answered as done

signupVars == <<users, signup, mailJob, mails, answered, callFaults>>

Signup(pc, email, id) == [pc |-> pc, email |-> email, id |-> id]
NoSignup == Signup("idle", "none", 0)
Unique(email) == email \notin ToSet(users)
Ids == 1..MaxUsers

SignupInit ==
  /\ users = <<>>
  /\ signup = [c \in Calls |-> NoSignup]
  /\ mailJob = [i \in Ids |-> [state |-> "none", failures |-> 0, stalls |-> 0]]
  /\ mails = [i \in Ids |-> 0]
  /\ answered = {}
  /\ callFaults = 0

\* isDuplicated; then the password is hashed.
CountByEmail(c, email) ==
  /\ signup[c].pc = "idle" /\ Unique(email)
  /\ signup' = [signup EXCEPT ![c] = Signup("persist", email, 0)]
  /\ UNCHANGED <<users, mailJob, mails, answered, callFaults>>

\* The unique index refuses an email that another signup has inserted since.
PersistUser(c) ==
  LET email == signup[c].email IN
  /\ signup[c].pc = "persist" /\ Len(users) < MaxUsers
  /\ IF Unique(email)
     THEN /\ users' = Append(users, email)
          /\ signup' = [signup EXCEPT ![c] = Signup("enqueue", email, Len(users) + 1)]
     ELSE UNCHANGED users /\ signup' = [signup EXCEPT ![c] = NoSignup]
  /\ UNCHANGED <<mailJob, mails, answered, callFaults>>

AddMailJob(c) ==
  /\ signup[c].pc = "enqueue"
  /\ mailJob' = [mailJob EXCEPT ![signup[c].id].state = "waiting"]
  /\ signup' = [signup EXCEPT ![c].pc = "answer"]
  /\ UNCHANGED <<users, mails, answered, callFaults>>

AnswerSignup(c) ==
  /\ signup[c].pc = "answer"
  /\ answered' = answered \cup {signup[c].id}
  /\ signup' = [signup EXCEPT ![c] = NoSignup]
  /\ UNCHANGED <<users, mailJob, mails, callFaults>>

\* Whatever is awaited rejects, before or after it took effect, or the process dies.
\* The row stays, and its email cannot sign up again; a job that was added stays too.
SignupStops(c) ==
  /\ signup[c].pc # "idle"
  /\ JobFault
  /\ signup' = [signup EXCEPT ![c] = NoSignup]
  /\ UNCHANGED <<users, mailJob, mails, answered>>

\* removeAdminUser: findUserById, then a delete that is without effect the second
\* time.
RemoveAdminUser(i) ==
  /\ i <= Len(users) /\ users[i] # "none"
  /\ users' = [users EXCEPT ![i] = "none"]
  /\ UNCHANGED <<signup, mailJob, mails, answered, callFaults>>

MailStep(i, from, to) ==
  mailJob[i].state = from /\ mailJob' = [mailJob EXCEPT ![i].state = to]

\* MailNotificationConsumer, and SendMail of IdentityGrpcController.
TakeMailJob(i) ==
  MailStep(i, "waiting", "active") /\ UNCHANGED <<users, signup, mails, answered, callFaults>>

SendMail(i) ==
  /\ MailStep(i, "active", "sent")
  /\ mails' = [mails EXCEPT ![i] = @ + 1]
  /\ UNCHANGED <<users, signup, answered, callFaults>>

CompleteMailJob(i) ==
  MailStep(i, "sent", "completed") /\ UNCHANGED <<users, signup, mails, answered, callFaults>>

\* Mutant: a job that fails is not tried again.
DropMailJob(i) ==
  /\ mailJob[i].state \in {"active", "sent"}
  /\ JobFault
  /\ mailJob' = [mailJob EXCEPT ![i].state = "failed"]
  /\ UNCHANGED <<users, signup, mails, answered>>

\* The call rejects, before or after identity has stored the mail.
FailMailJob(i) ==
  LET n == mailJob[i].failures + 1 IN
  /\ mailJob[i].state \in {"active", "sent"}
  /\ JobFault
  /\ mailJob' = [mailJob EXCEPT ![i] =
       [@ EXCEPT !.state = IF n < MaxMailAttempts THEN "waiting" ELSE "failed", !.failures = n]]
  /\ UNCHANGED <<users, signup, mails, answered>>

\* The worker dies: Bull finds the job stalled and hands it out again, or fails it
\* the second time.
StallMailJob(i) ==
  LET n == mailJob[i].stalls + 1 IN
  /\ mailJob[i].state \in {"active", "sent"}
  /\ JobFault
  /\ mailJob' = [mailJob EXCEPT ![i] =
       [@ EXCEPT !.state = IF n > MaxStalledCount THEN "failed" ELSE "waiting", !.stalls = n]]
  /\ UNCHANGED <<users, signup, mails, answered>>

SignupNext ==
  \/ \E c \in Calls : \/ \E email \in Emails : CountByEmail(c, email)
                      \/ PersistUser(c) \/ AddMailJob(c) \/ AnswerSignup(c) \/ SignupStops(c)
  \/ \E i \in Ids : \/ RemoveAdminUser(i) \/ TakeMailJob(i) \/ SendMail(i)
                    \/ CompleteMailJob(i) \/ FailMailJob(i) \/ StallMailJob(i)

SignupSpec == SignupInit /\ [][SignupNext]_signupVars

-----------------------------------------------------------------------------
SignupTypeOK ==
  /\ users \in Seq(Emails \cup {"none"}) /\ Len(users) <= MaxUsers
  /\ signup \in [Calls -> [pc : {"idle", "persist", "enqueue", "answer"},
                           email : Emails \cup {"none"}, id : 0..MaxUsers]]
  /\ mailJob \in [Ids -> [state : {"none", "waiting", "active", "sent", "completed", "failed"},
                          failures : 0..MaxMailAttempts, stalls : 0..(MaxStalledCount + 1)]]
  /\ mails \in [Ids -> Nat] /\ answered \subseteq Ids

\* Once nothing of a signup is under way: a user whose signup was answered has got the
\* mail of welcome, unless the job met as many rejected calls as it has attempts, or
\* one dead worker too many; one mail more needs a rejected call or a dead worker; and a
\* user who was inserted without an answer, with or without a mail, is due to a fault.
SignupMailed ==
  \A i \in Ids :
    (/\ i <= Len(users) /\ mailJob[i].state \notin {"waiting", "active", "sent"}
     /\ \A c \in Calls : signup[c].id # i) =>
      /\ (i \in answered /\ mails[i] = 0) =>
           (mailJob[i].failures >= MaxMailAttempts \/ mailJob[i].stalls > MaxStalledCount)
      /\ mails[i] <= 1 + mailJob[i].failures + mailJob[i].stalls
      /\ i \notin answered => callFaults > 0

=============================================================================
