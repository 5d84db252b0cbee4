--------------------------- MODULE ServicesProofs ---------------------------
(***************************************************************************)
(* What holds of the admin server, of identity and of the reconciliation,  *)
(* for any numbers of calls, accounts and transactions and any number of   *)
(* faults; and the services side by side, as the run checks them: each     *)
(* behaves as its own specification says, so that what is proved of each   *)
(* holds of all.                                                           *)
(***************************************************************************)
EXTENDS Services, AiServiceProofs

-----------------------------------------------------------------------------
(***************************************************************************)
(* Who has signed up gets the mail of welcome, whatever breaks off         *)
(* signups, calls and workers; and passwords and tokens stay with their    *)
(* owners, however the later requests interleave.                          *)
(***************************************************************************)

Underway == {"waiting", "active", "sent"}
JobType == [state : {"none", "waiting", "active", "sent", "completed", "failed"},
            failures : 0..MaxMailAttempts, stalls : 0..(MaxStalledCount + 1)]

\* From its insert to its answer a call holds a row that no other call holds; the row has
\* a job once it has been added.  Elsewhere a call holds none.
HeldInv ==
  \A c \in Calls :
    /\ signup[c].pc \in {"enqueue", "answer"} =>
         /\ signup[c].id \in 1..Len(users)
         /\ mailJob[signup[c].id].state = "none" <=> signup[c].pc = "enqueue"
         /\ \A d \in Calls \ {c} : signup[d].id # signup[c].id
    /\ signup[c].pc \notin {"enqueue", "answer"} => signup[c].id = 0

\* Only a row has a job, and only a row with a job is answered; some call holds a row
\* that is not answered, unless there was a fault.
UnansweredInv ==
  \A i \in Ids :
    /\ mailJob[i].state # "none" => i <= Len(users)
    /\ i \in answered => mailJob[i].state # "none"
    /\ (i <= Len(users) /\ i \notin answered) =>
         (callFaults > 0 \/ \E c \in Calls : signup[c].id = i)

\* The faults that a job has met.
Hits(i) == mailJob[i].failures + mailJob[i].stalls

\* A job that has sent a mail has stored one, one that has failed has met its
\* share of the faults, and each mail but one is the work of a fault of its job.
MailInv ==
  \A i \in Ids :
    /\ mailJob[i].state \in {"sent", "completed"} => mails[i] >= 1
    /\ mailJob[i].state = "failed" =>
         (mailJob[i].failures >= MaxMailAttempts \/ mailJob[i].stalls > MaxStalledCount)
    /\ mailJob[i].state = "none" => Hits(i) = 0
    /\ mailJob[i].state \in Underway =>
         mailJob[i].failures < MaxMailAttempts /\ mailJob[i].stalls <= MaxStalledCount
    /\ mails[i] <= 1 + Hits(i)
    /\ mailJob[i].state \in {"none", "waiting", "active"} => mails[i] <= Hits(i)

\* The invariant that the steps keep.
SignupIInv ==
  /\ SignupTypeOK /\ callFaults \in Nat
  /\ HeldInv /\ UnansweredInv /\ MailInv

-----------------------------------------------------------------------------
\* Nothing has happened at the beginning.
LEMMA SignupInitIInv == SignupInit => SignupIInv
<1> SUFFICES ASSUME SignupInit PROVE SignupIInv
  OBVIOUS
<1> USE SignupAssumption DEF SignupInit
<1>1. SignupTypeOK /\ callFaults \in Nat
  BY DEF SignupTypeOK, NoSignup, Signup, Ids, MaxStalledCount
<1>2. HeldInv
  BY DEF HeldInv, NoSignup, Signup
<1>3. UnansweredInv
  BY DEF UnansweredInv, Ids
<1>4. MailInv
  BY DEF MailInv, Ids, Underway, Hits
<1> QED
  BY <1>1, <1>2, <1>3, <1>4 DEF SignupIInv

\* The steps of UserService keep the invariant.
LEMMA SignupStepSafe ==
  ASSUME SignupIInv, NEW c \in Calls,
         \/ \E email \in Emails : CountByEmail(c, email)
         \/ PersistUser(c) \/ AddMailJob(c) \/ AnswerSignup(c) \/ SignupStops(c)
  PROVE  SignupIInv'
<1> USE SignupAssumption, CallsAssumption DEF SignupIInv
<1>1. ASSUME NEW email \in Emails, CountByEmail(c, email)
      PROVE  SignupIInv'
  <2>1. /\ signup' = [signup EXCEPT ![c] = Signup("persist", email, 0)]
        /\ UNCHANGED <<users, mailJob, mails, answered, callFaults>>
        /\ signup[c].pc = "idle"
    BY <1>1 DEF CountByEmail
  <2>2. SignupTypeOK' /\ (callFaults \in Nat)'
    BY <2>1 DEF SignupTypeOK, Signup
  <2>3. HeldInv'
    BY <2>1 DEF HeldInv, SignupTypeOK, Signup
  <2>4. UnansweredInv'
    BY <2>1 DEF UnansweredInv, HeldInv, SignupTypeOK, Signup
  <2>5. MailInv'
    BY <2>1 DEF MailInv, Hits
  <2> QED
    BY <2>2, <2>3, <2>4, <2>5
<1>2. CASE PersistUser(c)
  <2> DEFINE email == signup[c].email
             n == Len(users) + 1
  <2>1. /\ signup[c].pc = "persist" /\ Len(users) < MaxUsers
        /\ UNCHANGED <<mailJob, mails, answered, callFaults>>
    BY <1>2 DEF PersistUser
  <2>2. /\ users \in Seq(Emails \cup {"none"}) /\ email \in Emails \cup {"none"}
        /\ Len(users) \in Nat /\ n \in Ids
    BY <2>1 DEF SignupTypeOK, Ids
  <2>3. CASE Unique(email)
    <3>1. /\ users' = Append(users, email)
          /\ signup' = [signup EXCEPT ![c] = Signup("enqueue", email, n)]
      BY <1>2, <2>3 DEF PersistUser
    <3>2. users' \in Seq(Emails \cup {"none"}) /\ Len(users') = n
      BY <2>2, <3>1
    <3>3. SignupTypeOK' /\ (callFaults \in Nat)'
      BY <2>1, <2>2, <3>1, <3>2 DEF SignupTypeOK, Signup
    <3>4. HeldInv'
      <4>1. mailJob[n].state = "none" /\ \A d \in Calls : signup[d].id # n
        BY <2>2 DEF HeldInv, UnansweredInv
      <4>2. signup'[c].pc = "enqueue" /\ signup'[c].id = n
        BY <3>1 DEF SignupTypeOK, Signup
      <4>3. \A d \in Calls \ {c} : signup'[d] = signup[d]
        BY <3>1 DEF SignupTypeOK
      <4>4. n \in 1..Len(users') /\ Len(users) < Len(users')
        BY <2>2, <3>2
      <4> HIDE DEF n
      <4> QED
        BY <2>1, <2>2, <3>2, <4>1, <4>2, <4>3, <4>4 DEF HeldInv
    <3>5. UnansweredInv'
      <4>1. signup[c].id = 0 /\ signup'[c].id = n
        BY <2>1, <3>1 DEF HeldInv, SignupTypeOK, Signup
      <4>2. \A i \in Ids : (\E d \in Calls : signup[d].id = i) => \E d \in Calls : signup'[d].id = i
        BY <3>1, <4>1 DEF SignupTypeOK, Ids
      <4>3. \A i \in Ids : i <= Len(users') <=> i <= Len(users) \/ i = n
        BY <2>2, <3>2 DEF Ids
      <4> HIDE DEF n
      <4> QED
        BY <2>1, <4>1, <4>2, <4>3 DEF UnansweredInv
    <3>6. MailInv'
      BY <2>1 DEF MailInv, Hits
    <3> QED
      BY <3>3, <3>4, <3>5, <3>6
  <2>4. CASE ~Unique(email)
    <3>1. users' = users /\ signup' = [signup EXCEPT ![c] = NoSignup]
      BY <1>2, <2>4 DEF PersistUser
    <3>2. SignupTypeOK' /\ (callFaults \in Nat)'
      BY <2>1, <3>1 DEF SignupTypeOK, NoSignup, Signup
    <3>3. HeldInv'
      BY <2>1, <3>1 DEF HeldInv, SignupTypeOK, NoSignup, Signup
    <3>4. UnansweredInv'
      BY <2>1, <3>1 DEF UnansweredInv, HeldInv, SignupTypeOK, NoSignup, Signup
    <3>5. MailInv'
      BY <2>1 DEF MailInv, Hits
    <3> QED
      BY <3>2, <3>3, <3>4, <3>5
  <2> QED
    BY <2>3, <2>4
<1>3. CASE AddMailJob(c)
  <2> DEFINE i == signup[c].id
  <2>1. /\ signup[c].pc = "enqueue"
        /\ mailJob' = [mailJob EXCEPT ![i].state = "waiting"]
        /\ signup' = [signup EXCEPT ![c].pc = "answer"]
        /\ UNCHANGED <<users, mails, answered, callFaults>>
    BY <1>3 DEF AddMailJob
  <2>2. i \in Ids /\ i <= Len(users) /\ i # 0 /\ mailJob[i].state = "none"
    BY <2>1 DEF HeldInv, SignupTypeOK, Ids
  <2>3. /\ mailJob' \in [Ids -> JobType] /\ mailJob'[i].state = "waiting"
        /\ mailJob'[i].failures = mailJob[i].failures /\ mailJob'[i].stalls = mailJob[i].stalls
        /\ \A k \in Ids \ {i} : mailJob'[k] = mailJob[k]
    BY <2>1, <2>2 DEF SignupTypeOK, JobType
  <2>4. /\ signup'[c].pc = "answer" /\ signup'[c].id = i
        /\ \A d \in Calls \ {c} : signup'[d] = signup[d]
        /\ signup' \in [Calls -> [pc : {"idle", "persist", "enqueue", "answer"},
                                  email : Emails \cup {"none"}, id : 0..MaxUsers]]
    BY <2>1 DEF SignupTypeOK
  <2>5. SignupTypeOK' /\ (callFaults \in Nat)'
    BY <2>1, <2>3, <2>4 DEF SignupTypeOK, JobType
  <2>6. HeldInv'
    <3>1. ASSUME NEW d \in Calls \ {c}, signup[d].pc \in {"enqueue", "answer"}
          PROVE  signup[d].id \in Ids \ {i}
      BY <2>1, <3>1 DEF HeldInv, SignupTypeOK, Ids
    <3> HIDE DEF i
    <3> QED
      BY <2>1, <2>2, <2>3, <2>4, <3>1 DEF HeldInv
  <2>7. UnansweredInv'
    <3> HIDE DEF i
    <3> QED
      BY <2>1, <2>2, <2>3, <2>4 DEF UnansweredInv
  <2>9. MailInv'
    <3>1. \A k \in Ids : /\ mailJob'[k].failures = mailJob[k].failures
                         /\ mailJob'[k].stalls = mailJob[k].stalls
      BY <2>3
    <3>2. mails[i] <= 0 + Hits(i) /\ Hits(i) = 0
      BY <2>2 DEF MailInv, SignupTypeOK, Hits
    <3>3. /\ mails[i] <= Hits(i) /\ mailJob[i].failures = 0 /\ mailJob[i].stalls = 0
      BY <2>2, <3>2 DEF SignupTypeOK, Hits
    <3> HIDE DEF i
    <3>4. ASSUME NEW k \in Ids PROVE MailInv!(k)'
      <4>1. CASE k = i
        BY <2>1, <2>2, <2>3, <3>1, <3>2, <3>3, <4>1
           DEF MailInv, SignupTypeOK, Underway, Hits, MaxStalledCount
      <4>2. CASE k # i
        BY <2>1, <2>3, <4>2 DEF MailInv, Hits
      <4> QED
        BY <4>1, <4>2
    <3> QED
      BY <3>4 DEF MailInv
  <2> QED
    BY <2>5, <2>6, <2>7, <2>9
<1>5. CASE AnswerSignup(c)
  <2> DEFINE i == signup[c].id
  <2>1. /\ signup[c].pc = "answer" /\ answered' = answered \cup {i}
        /\ signup' = [signup EXCEPT ![c] = NoSignup]
        /\ UNCHANGED <<users, mailJob, mails, callFaults>>
    BY <1>5 DEF AnswerSignup
  <2>2. i \in Ids /\ mailJob[i].state # "none"
    BY <2>1 DEF HeldInv, SignupTypeOK, Ids
  <2>3. SignupTypeOK' /\ (callFaults \in Nat)'
    BY <2>1, <2>2 DEF SignupTypeOK, NoSignup, Signup
  <2>4. HeldInv'
    BY <2>1 DEF HeldInv, SignupTypeOK, NoSignup, Signup
  <2>5. UnansweredInv'
    BY <2>1, <2>2 DEF UnansweredInv, HeldInv, SignupTypeOK, NoSignup, Signup
  <2>6. MailInv'
    BY <2>1 DEF MailInv, Hits
  <2> QED
    BY <2>3, <2>4, <2>5, <2>6
<1>4. CASE SignupStops(c)
  <2>1. /\ signup' = [signup EXCEPT ![c] = NoSignup]
        /\ callFaults' = callFaults + 1
        /\ UNCHANGED <<users, mailJob, mails, answered>>
    BY <1>4 DEF SignupStops, JobFault
  <2>2. SignupTypeOK' /\ (callFaults \in Nat)'
    BY <2>1 DEF SignupTypeOK, NoSignup, Signup
  <2>3. HeldInv'
    BY <2>1 DEF HeldInv, SignupTypeOK, NoSignup, Signup
  <2>4. UnansweredInv'
    BY <2>1 DEF UnansweredInv, SignupTypeOK, NoSignup, Signup
  <2>5. MailInv'
    BY <2>1 DEF MailInv, SignupTypeOK, Hits
  <2> QED
    BY <2>2, <2>3, <2>4, <2>5
<1> QED
  BY <1>1, <1>2, <1>3, <1>4, <1>5

\* Removal and the steps of the mail queue keep the invariant.
LEMMA MailStepSafe ==
  ASSUME SignupIInv, NEW i \in Ids,
         \/ RemoveAdminUser(i) \/ TakeMailJob(i) \/ SendMail(i)
         \/ CompleteMailJob(i) \/ FailMailJob(i) \/ StallMailJob(i)
  PROVE  SignupIInv'
<1> USE SignupAssumption, CallsAssumption DEF SignupIInv
<1>1. CASE RemoveAdminUser(i)
  <2>1. /\ users' = [users EXCEPT ![i] = "none"]
        /\ UNCHANGED <<signup, mailJob, mails, answered, callFaults>>
    BY <1>1 DEF RemoveAdminUser
  <2>2. users' \in Seq(Emails \cup {"none"}) /\ Len(users') = Len(users)
    <3> DEFINE S == Emails \cup {"none"}
    <3>1. users \in Seq(S) /\ i \in 1..Len(users) /\ "none" \in S
      BY <1>1 DEF RemoveAdminUser, SignupTypeOK, Ids
    <3> HIDE DEF S
    <3>2. users' \in Seq(S) /\ Len(users') = Len(users)
      BY <2>1, <3>1
    <3> QED
      BY <3>2 DEF S
  <2>3. SignupTypeOK' /\ (callFaults \in Nat)'
    BY <2>1, <2>2 DEF SignupTypeOK
  <2>4. HeldInv' /\ UnansweredInv' /\ MailInv'
    BY <2>1, <2>2 DEF HeldInv, UnansweredInv, MailInv, Hits
  <2> QED
    BY <2>3, <2>4
<1>2. CASE TakeMailJob(i) \/ CompleteMailJob(i) \/ SendMail(i) \/ StallMailJob(i) \/ FailMailJob(i)
  <2>1. UNCHANGED <<users, signup, answered>> /\ callFaults' \in {callFaults, callFaults + 1}
    BY <1>2 DEF TakeMailJob, CompleteMailJob, SendMail, StallMailJob, FailMailJob, JobFault
  <2>2. mailJob[i] \in JobType /\ mailJob[i].failures \in Nat /\ mailJob[i].stalls \in Nat
        /\ mails[i] \in Nat
    BY DEF SignupTypeOK, JobType
  <2>8. mailJob[i].state \in Underway =>
          /\ mailJob[i].failures < MaxMailAttempts /\ mailJob[i].stalls <= MaxStalledCount
          /\ mailJob[i].state # "none"
    BY DEF MailInv, Underway
  <2>9. /\ mails[i] <= 1 + mailJob[i].failures + mailJob[i].stalls
        /\ mailJob[i].state \in {"none", "waiting", "active"} =>
             mails[i] <= mailJob[i].failures + mailJob[i].stalls
        /\ mailJob[i].state \in {"sent", "completed"} => mails[i] >= 1
    BY <2>2 DEF MailInv, Hits
  <2> DEFINE mail == mailJob'[i]
             stored == mails'[i]
  <2>3. /\ mailJob' = [mailJob EXCEPT ![i] = mail] /\ mail \in JobType
        /\ mailJob[i].state # "none" /\ mail.state # "none"
        /\ mail.state = "failed" =>
             (mail.failures >= MaxMailAttempts \/ mail.stalls > MaxStalledCount)
        /\ mail.state \in Underway =>
             mail.failures < MaxMailAttempts /\ mail.stalls <= MaxStalledCount
        /\ mails' = [mails EXCEPT ![i] = stored] /\ stored \in Nat
        /\ mail.state \in {"sent", "completed"} => stored >= 1
        /\ stored <= 1 + mail.failures + mail.stalls
        /\ mail.state \in {"waiting", "active"} => stored <= mail.failures + mail.stalls
    <3>1. CASE TakeMailJob(i)
      <4>1. /\ mailJob' = [mailJob EXCEPT ![i].state = "active"] /\ mailJob[i].state = "waiting"
            /\ mails' = mails
            /\ callFaults' = callFaults
        BY <3>1 DEF TakeMailJob, MailStep, Underway
      <4>2. mail.state = "active" /\ mail.failures = mailJob[i].failures /\ mail \in JobType
            /\ mail.stalls = mailJob[i].stalls
        BY <2>2, <4>1 DEF SignupTypeOK, JobType
      <4> QED
        BY <2>2, <4>1, <4>2 DEF MailInv, SignupTypeOK, Underway, Hits
    <3>2. CASE CompleteMailJob(i)
      <4>1. /\ mailJob' = [mailJob EXCEPT ![i].state = "completed"] /\ mailJob[i].state = "sent"
            /\ mails' = mails
            /\ callFaults' = callFaults
        BY <3>2 DEF CompleteMailJob, MailStep, Underway
      <4>2. mail.state = "completed" /\ mail.failures = mailJob[i].failures /\ mail \in JobType
            /\ mail.stalls = mailJob[i].stalls
        BY <2>2, <4>1 DEF SignupTypeOK, JobType
      <4> QED
        BY <2>2, <4>1, <4>2 DEF MailInv, SignupTypeOK, Underway, Hits
    <3>3. CASE SendMail(i)
      <4>1. /\ mailJob' = [mailJob EXCEPT ![i].state = "sent"] /\ mailJob[i].state = "active"
            /\ mails' = [mails EXCEPT ![i] = @ + 1]
            /\ callFaults' = callFaults
        BY <3>3 DEF SendMail, MailStep, Underway
      <4>2. mail.state = "sent" /\ mail.failures = mailJob[i].failures /\ mail \in JobType
            /\ mail.stalls = mailJob[i].stalls
        BY <2>2, <4>1 DEF SignupTypeOK, JobType
      <4> QED
        BY <2>2, <4>1, <4>2 DEF MailInv, SignupTypeOK, Underway, Hits
    <3>4. CASE StallMailJob(i)
      <4> DEFINE n == mailJob[i].stalls + 1
                 to == IF n > MaxStalledCount THEN "failed" ELSE "waiting"
                 next == [mailJob[i] EXCEPT !.state = to, !.stalls = n]
      <4>1. /\ mailJob' = [mailJob EXCEPT ![i] = next] /\ callFaults' = callFaults + 1
            /\ mails' = mails /\ mailJob[i].state \in Underway
        BY <3>4 DEF StallMailJob, JobFault, Underway
      <4>2. n \in 0..(MaxStalledCount + 1) /\ to \in {"failed", "waiting"}
        BY <2>2, <2>8, <4>1 DEF MaxStalledCount
      <4>8. next \in JobType /\ next.stalls = n /\ next.state = to
            /\ next.failures = mailJob[i].failures
        <5> HIDE DEF n, to
        <5> QED
          BY <2>2, <4>2 DEF JobType
      <4>3. mail = next
        BY <4>1 DEF SignupTypeOK
      <4>4. /\ stored = mails[i] /\ stored <= 1 + mailJob[i].failures + mailJob[i].stalls
            /\ mailJob[i].failures < MaxMailAttempts /\ mailJob[i].stalls <= MaxStalledCount
            /\ mailJob[i].state # "none"
        BY <2>8, <2>9, <4>1
      <4>5. mails' = [mails EXCEPT ![i] = stored]
        BY <4>1 DEF SignupTypeOK
      <4>6. mailJob' = [mailJob EXCEPT ![i] = mail]
        BY <4>1, <4>3
      <4> HIDE DEF mail, next, stored, n
      <4>7. n \in Nat /\ mail = next /\ n = mailJob[i].stalls + 1
        BY <2>2, <4>3 DEF n
      <4> QED
        BY <2>2, <4>2, <4>4, <4>5, <4>6, <4>7, <4>8 DEF Underway, MaxStalledCount
    <3>5. CASE FailMailJob(i)
      <4> DEFINE n == mailJob[i].failures + 1
                 to == IF n < MaxMailAttempts THEN "waiting" ELSE "failed"
                 next == [mailJob[i] EXCEPT !.state = to, !.failures = n]
      <4>1. /\ mailJob' = [mailJob EXCEPT ![i] = next] /\ callFaults' = callFaults + 1
            /\ mails' = mails /\ mailJob[i].state \in Underway
        BY <3>5 DEF FailMailJob, JobFault, Underway
      <4>2. n \in 0..MaxMailAttempts /\ to \in {"failed", "waiting"}
        BY <2>2, <2>8, <4>1
      <4>8. next \in JobType /\ next.failures = n /\ next.state = to
            /\ next.stalls = mailJob[i].stalls
        <5> HIDE DEF n, to
        <5> QED
          BY <2>2, <4>2 DEF JobType
      <4>3. mail = next
        BY <4>1 DEF SignupTypeOK
      <4>4. /\ stored = mails[i] /\ stored <= 1 + mailJob[i].failures + mailJob[i].stalls
            /\ mailJob[i].failures < MaxMailAttempts /\ mailJob[i].stalls <= MaxStalledCount
            /\ mailJob[i].state # "none"
        BY <2>8, <2>9, <4>1
      <4>5. mails' = [mails EXCEPT ![i] = stored]
        BY <4>1 DEF SignupTypeOK
      <4>6. mailJob' = [mailJob EXCEPT ![i] = mail]
        BY <4>1, <4>3
      <4> HIDE DEF mail, next, stored, n
      <4>7. n \in Nat /\ mail = next /\ n = mailJob[i].failures + 1
        BY <2>2, <4>3 DEF n
      <4> QED
        BY <2>2, <4>2, <4>4, <4>5, <4>6, <4>7, <4>8 DEF Underway
    <3> QED
      BY <1>2, <3>1, <3>2, <3>3, <3>4, <3>5
  <2> HIDE DEF mail, stored
  <2>4. SignupTypeOK' /\ (callFaults \in Nat)'
    BY <2>1, <2>3 DEF SignupTypeOK, JobType
  <2>5. HeldInv'
    <3>1. \A k \in Ids : mailJob'[k].state = "none" <=> mailJob[k].state = "none"
      BY <2>3 DEF SignupTypeOK
    <3>2. Len(users) \in Nat /\ 1..Len(users) \subseteq Ids
      BY DEF SignupTypeOK, Ids
    <3> QED
      BY <2>1, <3>1, <3>2 DEF HeldInv
  <2>6. UnansweredInv'
    BY <2>1, <2>3 DEF SignupTypeOK, UnansweredInv
  <2>7. MailInv'
    <3> SUFFICES ASSUME NEW k \in Ids PROVE MailInv!(k)'
      BY DEF MailInv
    <3>1. CASE k = i
      <4>1. mailJob'[i] = mail /\ mails'[i] = stored
        BY <2>3 DEF SignupTypeOK
      <4> QED
        BY <2>3, <3>1, <4>1 DEF Underway, Hits, JobType, MaxStalledCount
    <3>2. CASE k # i
      <4>1. mailJob'[k] = mailJob[k] /\ mails'[k] = mails[k] /\ mailJob[k] \in JobType
        BY <2>3, <3>2 DEF SignupTypeOK, JobType
      <4> QED
        BY <2>1, <4>1 DEF SignupTypeOK, MailInv, JobType, Hits
    <3> QED
      BY <3>1, <3>2
  <2> QED
    BY <2>4, <2>5, <2>6, <2>7
<1> QED
  BY <1>1, <1>2

\* Every step keeps the invariant.
LEMMA NextIInv == SignupIInv /\ [SignupNext]_signupVars => SignupIInv'
<1> SUFFICES ASSUME SignupIInv, [SignupNext]_signupVars PROVE SignupIInv'
  OBVIOUS
<1>1. CASE SignupNext
  BY <1>1, SignupStepSafe, MailStepSafe DEF SignupNext
<1>2. CASE UNCHANGED signupVars
  BY <1>2 DEF signupVars, SignupIInv, SignupTypeOK, HeldInv, UnansweredInv, MailInv, Hits
<1> QED
  BY <1>1, <1>2

\* Requests, jobs and mails keep their types.
THEOREM SignupTypeCorrect == SignupSpec => []SignupTypeOK
<1>1. SignupIInv => SignupTypeOK
  BY DEF SignupIInv
<1> QED
  BY SignupInitIInv, NextIInv, <1>1, PTL DEF SignupSpec

\* The mail of welcome, whatever is rejected before or after it took effect and whoever
\* dies: a user who was answered has got it, unless its job met as many rejected calls as
\* it has attempts or a second dead worker; one mail more needs a fault of its job; and a
\* row without an answer, with or without a mail, is due to a fault.
THEOREM SignupIsMailed == SignupSpec => []SignupMailed
<1>1. SignupIInv => SignupMailed
  <2> SUFFICES ASSUME SignupIInv, NEW i \in Ids, i <= Len(users),
                      mailJob[i].state \notin Underway, \A c \in Calls : signup[c].id # i
               PROVE  /\ (i \in answered /\ mails[i] = 0) =>
                           (mailJob[i].failures >= MaxMailAttempts
                              \/ mailJob[i].stalls > MaxStalledCount)
                      /\ mails[i] <= 1 + mailJob[i].failures + mailJob[i].stalls
                      /\ i \notin answered => callFaults > 0
    BY DEF SignupMailed, Underway
  <2>1. /\ mailJob[i].state \in {"none", "completed", "failed"} /\ mails[i] \in Nat
        /\ mailJob[i].failures \in Nat /\ mailJob[i].stalls \in Nat
    BY DEF SignupIInv, SignupTypeOK, Underway
  <2>2. (i \in answered /\ mails[i] = 0) =>
          (mailJob[i].failures >= MaxMailAttempts \/ mailJob[i].stalls > MaxStalledCount)
    BY <2>1 DEF SignupIInv, UnansweredInv, MailInv
  <2>3. mails[i] <= 1 + mailJob[i].failures + mailJob[i].stalls
    BY <2>1 DEF SignupIInv, MailInv, Hits
  <2>4. i \notin answered => callFaults > 0
    BY DEF SignupIInv, UnansweredInv
  <2> QED
    BY <2>2, <2>3, <2>4
<1> QED
  BY SignupInitIInv, NextIInv, <1>1, PTL DEF SignupSpec

-----------------------------------------------------------------------------
\* A token that is right for its row, in the way CredentialsAreOwners says.
Genuine(t) == Chooses(t.person, t.admin) /\ admins[t.admin].activatedAt # "never"

\* What a call is about to write was right when the call read the row.
RequestInv ==
  \A c \in Calls :
    /\ access[c].pc \in {"sign", "hash"} => access[c].token \in Tokens /\ Genuine(access[c].token)
    /\ access[c].pc = "hash" => AdminEmail[access[c].admin] = AdminEmail[access[c].token.admin]
    /\ access[c].pc = "delete" => access[c].admin \in Admins /\ admins[access[c].admin] # NoAdmin

\* A row has a password, and no other row that is stored has its email.
RowsInv ==
  /\ \A a \in Admins : admins[a] # NoAdmin => admins[a].password \in Admins
  /\ \A a, b \in Admins :
       (admins[a].stored /\ admins[b].stored /\ AdminEmail[a] = AdminEmail[b]) => a = b

\* The invariant that the steps of AdminAccess keep.
AccessInv == AccessTypeOK /\ CredentialsAreOwners /\ RequestInv /\ RowsInv

\* Rows only ever go on: inserted, activated, removed.
Grows ==
  \A a \in Admins :
    /\ admins[a] # NoAdmin => admins'[a] # NoAdmin
    /\ (admins[a] # NoAdmin /\ ~admins[a].stored) => ~admins'[a].stored
    /\ admins[a].activatedAt # "never" => admins'[a].activatedAt # "never"

\* Nobody has signed up at the beginning.
LEMMA InitAccessInv == AccessInit => AccessInv
<1> SUFFICES ASSUME AccessInit PROVE AccessInv
  OBVIOUS
<1> USE AdminsAssumption DEF AccessInit, NoAdmin, Admin, NoAccess, Access, NoToken, Token
<1>1. AccessTypeOK
  BY DEF AccessTypeOK, AdminRows
<1>2. CredentialsAreOwners
  BY DEF CredentialsAreOwners
<1>3. RequestInv
  BY DEF RequestInv
<1>4. RowsInv
  BY DEF RowsInv
<1> QED
  BY <1>1, <1>2, <1>3, <1>4 DEF AccessInv

\* What was right stays right when rows go on.
LEMMA GenuineKept ==
  ASSUME Grows, NEW a \in Admins, NEW person \in Admins
  PROVE  Chooses(person, a) => Chooses(person, a)'
BY DEF Grows, Chooses, Former

\* So that a step that lets rows go on, adds no token that is wrong and writes no
\* request that is wrong keeps the invariant, if its rows are right.
LEMMA Kept ==
  ASSUME AccessInv, AccessTypeOK', Grows, RowsInv',
         \A t \in tokens' : t \in tokens \/ Genuine(t),
         \A c \in Calls : access'[c] = access[c] \/ access'[c] = NoAccess,
         \A a \in Admins : admins'[a].stored =>
           \/ admins[a].stored /\ admins'[a].password = admins[a].password
           \/ \E person \in Admins : admins'[a].password = person /\ Chooses(person, a)'
  PROVE  AccessInv'
<1> USE DEF AccessInv
<1>1. \A t \in Tokens : Genuine(t) => Genuine(t)'
  BY GenuineKept DEF Genuine, Grows, Tokens
<1>2. CredentialsAreOwners'
  <2>1. ASSUME NEW a \in Admins, admins'[a].stored
        PROVE  \E person \in Admins : admins'[a].password = person /\ Chooses(person, a)'
    <3>1. CASE admins[a].stored /\ admins'[a].password = admins[a].password
      <4>1. PICK person \in Admins : admins[a].password = person
        BY <3>1 DEF RowsInv, NoAdmin, Admin
      <4>2. Chooses(person, a)
        BY <3>1, <4>1 DEF CredentialsAreOwners
      <4>3. Chooses(person, a)'
        BY <4>2, GenuineKept
      <4> QED
        BY <4>1, <4>3, <3>1
    <3> QED
      BY <2>1, <3>1
  <2>2. ASSUME NEW t \in tokens' PROVE Genuine(t)'
    BY <1>1, <2>2 DEF CredentialsAreOwners, AccessTypeOK, Genuine
  <2> QED
    BY <2>1, <2>2 DEF CredentialsAreOwners, Genuine
<1>3. RequestInv'
  <2> SUFFICES ASSUME NEW c \in Calls
               PROVE  /\ access'[c].pc \in {"sign", "hash"} =>
                           access'[c].token \in Tokens /\ Genuine(access[c].token)'
                      /\ access'[c].pc = "hash" =>
                           AdminEmail[access'[c].admin] = AdminEmail[access'[c].token.admin]
                      /\ access'[c].pc = "delete" =>
                           access'[c].admin \in Admins /\ admins'[access'[c].admin] # NoAdmin
    BY DEF RequestInv, Tokens, Genuine, Chooses, Former
  <2>1. CASE access'[c] = access[c]
    BY <1>1, <2>1 DEF RequestInv, Grows
  <2>2. CASE access'[c] = NoAccess
    BY <2>2 DEF NoAccess, Access
  <2> QED
    BY <2>1, <2>2
<1> QED
  BY <1>2, <1>3

\* A request that is right, with the rows and the tokens as they are.
LEMMA RequestRight ==
  ASSUME AccessInv, UNCHANGED <<admins, tokens>>, NEW c \in Calls,
         NEW pc \in {"sign", "hash", "delete"}, NEW a \in Admins, NEW token \in Tokens \cup {NoToken},
         SetAccess(c, Access(pc, a, token)),
         pc # "delete" => token \in Tokens /\ Genuine(token),
         pc = "hash" => AdminEmail[a] = AdminEmail[token.admin],
         pc = "delete" => admins[a] # NoAdmin
  PROVE  AccessInv'
<1> USE DEF AccessInv, SetAccess, Access
<1>1. AccessTypeOK'
  BY DEF AccessTypeOK, AdminRows, Tokens
<1>2. CredentialsAreOwners' /\ RowsInv'
  BY DEF CredentialsAreOwners, RowsInv, Chooses, Former
<1>3. RequestInv'
  <2> SUFFICES ASSUME NEW d \in Calls
               PROVE  /\ access'[d].pc \in {"sign", "hash"} =>
                           access'[d].token \in Tokens /\ Genuine(access'[d].token)
                      /\ access'[d].pc = "hash" =>
                           AdminEmail[access'[d].admin] = AdminEmail[access'[d].token.admin]
                      /\ access'[d].pc = "delete" =>
                           access'[d].admin \in Admins /\ admins[access'[d].admin] # NoAdmin
    BY DEF RequestInv, Tokens, Genuine, Chooses, Former
  <2>1. CASE d = c
    BY <2>1 DEF AccessTypeOK
  <2>2. CASE d # c
    <3>1. access'[d] = access[d]
      BY <2>2 DEF AccessTypeOK
    <3> QED
      BY <3>1 DEF RequestInv
  <2> QED
    BY <2>1, <2>2
<1> QED
  BY <1>1, <1>2, <1>3

\* Steps that read a row and go on with a request of their own.
LEMMA BeginAccess ==
  ASSUME AccessInv, NEW c \in Calls, NEW a \in Admins,
         \/ \E person \in Admins : SignIn(c, a, person)
         \/ \E token \in tokens : ChangePassword(c, a, token)
         \/ FindRemoved(c, a)
  PROVE  AccessInv'
<1> USE DEF AccessInv
<1>1. ASSUME NEW person \in Admins, SignIn(c, a, person) PROVE AccessInv'
  <2>1. Token(a, person) \in Tokens /\ Genuine(Token(a, person))
    BY <1>1 DEF SignIn, MaySignIn, CredentialsAreOwners, Genuine, Token, Tokens
  <2> QED
    BY <1>1, <2>1, RequestRight DEF SignIn
<1>2. ASSUME NEW token \in tokens, ChangePassword(c, a, token) PROVE AccessInv'
  <2>1. token \in Tokens /\ Genuine(token)
    BY DEF CredentialsAreOwners, Genuine, AccessTypeOK
  <2> QED
    BY <1>2, <2>1, RequestRight DEF ChangePassword, IsExecutor
<1>3. CASE FindRemoved(c, a)
  <2>1. admins[a] # NoAdmin
    BY <1>3 DEF FindRemoved, NoAdmin, Admin
  <2> QED
    BY <1>3, <2>1, RequestRight DEF FindRemoved
<1> QED
  BY <1>1, <1>2, <1>3

\* Steps that end a request.
LEMMA EndAccess ==
  ASSUME AccessInv, NEW c \in Calls,
         AdminLogin(c) \/ UpdatePasswordByEmail(c) \/ SoftDeleteById(c) \/ AccessStops(c)
  PROVE  AccessInv'
<1> USE AdminsAssumption DEF AccessInv
<1>1. access' = [access EXCEPT ![c] = NoAccess]
  BY DEF AdminLogin, UpdatePasswordByEmail, SoftDeleteById, AccessStops, SetAccess
<1>2. /\ access' \in [Calls -> [pc : {"idle", "sign", "hash", "delete"},
                                admin : Admins \cup {Anybody}, token : Tokens \cup {NoToken}]]
      /\ \A d \in Calls : access'[d] = access[d] \/ access'[d] = NoAccess
  BY <1>1 DEF AccessTypeOK, NoAccess, Access
<1>3. CASE AdminLogin(c) \/ AccessStops(c)
  <2>1. admins' = admins /\ \A t \in tokens' : t \in tokens \/ (t \in Tokens /\ Genuine(t))
    BY <1>3 DEF AdminLogin, AccessStops, RequestInv
  <2>2. AccessTypeOK' /\ Grows /\ RowsInv'
    BY <1>2, <2>1 DEF AccessTypeOK, Grows, RowsInv
  <2> QED
    BY <1>2, <2>1, <2>2, Kept
<1>4. CASE UpdatePasswordByEmail(c)
  <2> DEFINE token == access[c].token
             written == RowsOf(AdminEmail[access[c].admin])
  <2>1. /\ tokens' = tokens
        /\ admins' = [a \in Admins |-> IF a \in written THEN [admins[a] EXCEPT !.password = token.person]
                                       ELSE admins[a]]
    BY <1>4 DEF UpdatePasswordByEmail
  <2>2. /\ token \in Tokens /\ Genuine(token)
        /\ \A a \in written : a \in Admins /\ admins[a].stored /\ AdminEmail[a] = AdminEmail[token.admin]
    BY <1>4 DEF UpdatePasswordByEmail, RequestInv, RowsOf
  <2>3. token.person \in Admins /\ token.admin \in Admins
    BY <2>2 DEF Tokens
  <2> HIDE DEF token, written
  <2>4. \A a \in Admins :
          /\ admins'[a] \in AdminRows
          /\ admins'[a].stored = admins[a].stored /\ admins'[a].activatedAt = admins[a].activatedAt
          /\ a \in written => admins'[a].password = token.person
          /\ a \notin written => admins'[a] = admins[a]
    BY <2>1, <2>3 DEF AccessTypeOK, AdminRows
  <2>5. \A a \in written : admins'[a] # NoAdmin
    BY <2>2, <2>4 DEF NoAdmin, Admin
  <2>6. AccessTypeOK' /\ Grows
    BY <1>2, <2>1, <2>4, <2>5 DEF AccessTypeOK, Grows
  <2>7. RowsInv'
    BY <2>2, <2>3, <2>4 DEF RowsInv
  <2>8. \A a \in written : Chooses(token.person, a)
    <3> SUFFICES ASSUME NEW a \in written PROVE Chooses(token.person, a)
      OBVIOUS
    <3>1. AdminEmail[token.person] = AdminEmail[a] /\ admins[token.person] # NoAdmin
      BY <2>2, <2>3 DEF Genuine, Chooses, Former, NoAdmin, Admin
    <3>2. CASE admins[token.person].stored
      BY <2>2, <2>3, <3>1, <3>2 DEF RowsInv, Chooses
    <3>3. CASE ~admins[token.person].stored
      BY <3>1, <3>3 DEF Chooses, Former
    <3> QED
      BY <3>2, <3>3
  <2>9. \A a \in Admins : admins'[a].stored =>
          \/ admins[a].stored /\ admins'[a].password = admins[a].password
          \/ \E person \in Admins : admins'[a].password = person /\ Chooses(person, a)'
    <3> SUFFICES ASSUME NEW a \in written
                 PROVE  \E person \in Admins : admins'[a].password = person /\ Chooses(person, a)'
      BY <2>4
    <3>1. PICK person \in Admins : person = token.person
      BY <2>3
    <3>2. Chooses(person, a)'
      BY <2>2, <2>6, <2>8, <3>1, GenuineKept
    <3> QED
      BY <2>2, <2>4, <3>1, <3>2
  <2> QED
    BY <1>2, <2>1, <2>6, <2>7, <2>9, Kept
<1>5. CASE SoftDeleteById(c)
  <2> DEFINE a == access[c].admin
  <2>1. /\ tokens' = tokens /\ a \in Admins /\ admins[a] # NoAdmin
        /\ admins' = [admins EXCEPT ![a] = Removed(admins[a])]
    BY <1>5 DEF SoftDeleteById, RequestInv
  <2> HIDE DEF a
  <2>2. /\ admins'[a] = [admins[a] EXCEPT !.stored = FALSE] /\ admins'[a] \in AdminRows
        /\ \A b \in Admins \ {a} : admins'[b] = admins[b]
    BY <2>1 DEF AccessTypeOK, AdminRows, Removed
  <2>3. ~admins'[a].stored /\ admins'[a].password \in Admins /\ admins'[a] # NoAdmin
        /\ admins'[a].activatedAt = admins[a].activatedAt
    BY <2>1, <2>2 DEF RowsInv, NoAdmin, Admin, AccessTypeOK, AdminRows
  <2>4. AccessTypeOK' /\ Grows /\ RowsInv'
    BY <1>2, <2>1, <2>2, <2>3 DEF AccessTypeOK, Grows, RowsInv
  <2>5. \A b \in Admins : admins'[b].stored => admins[b].stored /\ admins'[b].password = admins[b].password
    BY <2>2, <2>3
  <2> QED
    BY <1>2, <2>1, <2>4, <2>5, Kept
<1> QED
  BY <1>3, <1>4, <1>5

\* Steps without a request: a signup, an activation, the end of a token.
LEMMA OtherAccess ==
  ASSUME AccessInv,
         \/ \E a \in Admins : SignUp(a) \/ \E v \in {"on", "off"} : ActivateAdminUser(a, v)
         \/ \E token \in tokens : TokenExpires(token)
  PROVE  AccessInv'
<1> USE AdminsAssumption DEF AccessInv
<1>1. ASSUME NEW a \in Admins, SignUp(a) PROVE AccessInv'
  <2>1. /\ tokens' = tokens /\ access' = access /\ admins[a] = NoAdmin /\ RowsOf(AdminEmail[a]) = {}
        /\ admins' = [admins EXCEPT ![a] = Admin(TRUE, a, "never")]
    BY <1>1 DEF SignUp
  <2>2. /\ admins'[a] = Admin(TRUE, a, "never") /\ admins'[a] \in AdminRows
        /\ \A b \in Admins \ {a} : admins'[b] = admins[b]
        /\ \A b \in Admins : admins[b].stored => AdminEmail[b] # AdminEmail[a]
    BY <2>1 DEF AccessTypeOK, AdminRows, Admin, RowsOf
  <2>3. AccessTypeOK' /\ Grows
    <3>1. admins'[a] # NoAdmin /\ ~admins[a].stored /\ admins[a].activatedAt = "never"
      BY <2>1, <2>2 DEF NoAdmin, Admin
    <3>2. Grows
      BY <2>1, <2>2, <3>1 DEF Grows
    <3> QED
      BY <2>1, <2>2, <3>2 DEF AccessTypeOK
  <2>4. RowsInv'
    <3>1. admins'[a].password \in Admins
      BY <2>2 DEF Admin
    <3> QED
      BY <2>2, <3>1 DEF RowsInv
  <2>5. \A b \in Admins : admins'[b].stored =>
          \/ admins[b].stored /\ admins'[b].password = admins[b].password
          \/ \E person \in Admins : admins'[b].password = person /\ Chooses(person, b)'
    BY <2>2 DEF Admin, Chooses
  <2> QED
    BY <2>1, <2>3, <2>4, <2>5, Kept
<1>2. ASSUME NEW a \in Admins, NEW v \in {"on", "off"}, ActivateAdminUser(a, v) PROVE AccessInv'
  <2>1. /\ tokens' = tokens /\ access' = access
        /\ admins' = IF admins[a].stored /\ "on" \in {v, admins[a].activatedAt}
                     THEN [admins EXCEPT ![a].activatedAt = v] ELSE admins
    BY <1>2 DEF ActivateAdminUser, SetActivatedAt
  <2>2. \A b \in Admins :
          /\ admins'[b] \in AdminRows
          /\ admins'[b].stored = admins[b].stored /\ admins'[b].password = admins[b].password
          /\ admins'[b] = admins[b] \/ (admins[b].stored /\ admins'[b].activatedAt # "never")
    BY <2>1 DEF AccessTypeOK, AdminRows
  <2>3. AccessTypeOK' /\ Grows
    BY <2>1, <2>2 DEF AccessTypeOK, Grows, NoAdmin, Admin
  <2>4. RowsInv'
    <3>1. \A b \in Admins : admins'[b] # NoAdmin => admins'[b].password \in Admins
      BY <2>2 DEF RowsInv, NoAdmin, Admin
    <3> QED
      BY <2>2, <3>1 DEF RowsInv
  <2> QED
    BY <2>1, <2>2, <2>3, <2>4, Kept
<1>3. ASSUME NEW token \in tokens, TokenExpires(token) PROVE AccessInv'
  <2>1. tokens' \subseteq tokens /\ admins' = admins /\ access' = access
    BY <1>3 DEF TokenExpires
  <2>2. AccessTypeOK' /\ Grows /\ RowsInv'
    BY <2>1 DEF AccessTypeOK, Grows, RowsInv
  <2> QED
    BY <2>1, <2>2, Kept
<1> QED
  BY <1>1, <1>2, <1>3

\* Every step of AdminAccess keeps the invariant.
LEMMA NextAccessInv == AccessInv /\ [AccessNext]_accessVars => AccessInv'
<1> SUFFICES ASSUME AccessInv, [AccessNext]_accessVars PROVE AccessInv'
  OBVIOUS
<1>1. CASE AccessNext
  BY <1>1, BeginAccess, EndAccess, OtherAccess DEF AccessNext
<1>2. CASE UNCHANGED accessVars
  BY <1>2 DEF accessVars, AccessInv, AccessTypeOK, CredentialsAreOwners, RequestInv, RowsInv,
              Chooses, Former, Genuine
<1> QED
  BY <1>1, <1>2

\* Whoever has a row's password or a token for it is its owner, or the owner of an
\* earlier row with its email, for any rows and calls.
THEOREM CredentialsStay == AccessSpec => []CredentialsAreOwners
<1>1. AccessInv => CredentialsAreOwners
  BY DEF AccessInv
<1> QED
  BY InitAccessInv, NextAccessInv, <1>1, PTL DEF AccessSpec

\* The administrators, their tokens and the requests of the admin server stay in their
\* types, however requests interleave, stop and let tokens expire.
THEOREM AccessTypeCorrect == AccessSpec => []AccessTypeOK
<1>1. AccessInv => AccessTypeOK
  BY DEF AccessInv
<1> QED
  BY InitAccessInv, NextAccessInv, <1>1, PTL DEF AccessSpec

-----------------------------------------------------------------------------
(***************************************************************************)
(* What a reconciliation reports, for any numbers of transactions and of   *)
(* overlapping runs, any interval, look-back and number of faults.         *)
(***************************************************************************)

\* Run c will still compare transaction t, or log it.
WillCheck(c, t) ==
  \/ run[c].pc = "list" /\ pg[t].score \in run[c].from..run[c].to
  \/ run[c].pc = "check" /\ t \in run[c].left \cup run[c].mismatches

\* An open run has its window behind it; what it has left, or found, lies in the window.
RunInv ==
  \A c \in Calls, t \in Transactions :
    t \in run[c].left \cup run[c].mismatches =>
      /\ run[c].pc = "check"
      /\ pg[t].state = "ledger" /\ pg[t].score \in run[c].from..run[c].to

\* A transaction that a window has passed has been reported or a run will see it.
Reachable(t) ==
  (/\ pg[t].state = "ledger" /\ t \notin settled /\ t \notin late
   /\ pg[t].score < lastTo /\ pg[t].score \notin gaps)
    => (t \in reported \/ \E c \in Calls : WillCheck(c, t))

\* The invariant that the steps keep.
ReconcileIInv == ReconcileTypeOK /\ RunInv /\ \A t \in Transactions : Reachable(t)

-----------------------------------------------------------------------------
LEMMA TypeFacts ==
  ASSUME ReconcileTypeOK
  PROVE  /\ clock \in Nat /\ clock =< MaxPgTime /\ lastTo \in Nat /\ lastTo =< clock /\ due \in Nat
         /\ \A t \in Transactions : pg[t].score \in Nat /\ pg[t].score =< clock
         /\ \A c \in Calls : run[c].from \in Nat /\ run[c].to \in Nat /\ run[c].to =< clock
BY ReconcileAssumption DEF ReconcileTypeOK

LEMMA ReconcileInitIInv == ReconcileInit => ReconcileIInv
<1> SUFFICES ASSUME ReconcileInit PROVE ReconcileIInv
  OBVIOUS
<1>1. ReconcileTypeOK
  BY ReconcileAssumption DEF ReconcileInit, ReconcileTypeOK, NoReconcile
<1>2. RunInv /\ \A t \in Transactions : Reachable(t)
  BY DEF ReconcileInit, RunInv, Reachable, NoReconcile
<1> QED
  BY <1>1, <1>2 DEF ReconcileIInv

LEMMA WindowStartFits == ASSUME NEW to \in Nat PROVE WindowStart(to) \in 0..to
BY ReconcileAssumption DEF WindowStart

\* Each step keeps the types.
LEMMA ReconcileTypeStep == ReconcileTypeOK /\ [ReconcileNext]_reconcileVars => ReconcileTypeOK'
<1> SUFFICES ASSUME ReconcileTypeOK, [ReconcileNext]_reconcileVars PROVE ReconcileTypeOK'
  OBVIOUS
<1> USE DEF ReconcileTypeOK
<1>1. CASE PgTick
  <2>1. clock' \in 0..MaxPgTime /\ \A n : n \in 0..clock => n \in 0..clock'
    BY <1>1, TypeFacts, ReconcileAssumption DEF PgTick
  <2>2. pg \in [Transactions -> [state : {"none", "sent", "ledger", "lost"}, score : 0..clock']]
    BY <2>1
  <2>3. run \in [Calls -> [pc : {"idle", "list", "check"}, from : 0..clock', to : 0..clock',
                           left : SUBSET Transactions, mismatches : SUBSET Transactions]]
    BY <2>1
  <2> QED
    BY <1>1, <2>1, <2>2, <2>3 DEF PgTick
<1>2. ASSUME NEW t \in Transactions, SetTransaction(t) \/ ZAdd(t) \/ Settle(t)
      PROVE  ReconcileTypeOK'
  <2>1. clock \in 0..clock
    BY TypeFacts
  <2>2. CASE SetTransaction(t)
    BY <2>1, <2>2 DEF SetTransaction
  <2>3. CASE ZAdd(t)
    BY <2>3 DEF ZAdd
  <2>4. CASE Settle(t)
    BY <2>4 DEF Settle
  <2> QED
    BY <1>2, <2>2, <2>3, <2>4
<1>3. ASSUME NEW c \in Calls, StartReconcile(c) PROVE ReconcileTypeOK'
  <2>1. clock \in 0..clock /\ WindowStart(clock) \in 0..clock /\ clock + Interval \in Nat
    BY TypeFacts, WindowStartFits, ReconcileAssumption
  <2> QED
    BY <1>3, <2>1 DEF StartReconcile
<1>4. ASSUME NEW c \in Calls, ListTransactions(c) PROVE ReconcileTypeOK'
  <2> DEFINE found == {t \in Transactions : /\ pg[t].state = "ledger"
                                            /\ pg[t].score \in run[c].from..run[c].to}
  <2>1. found \in SUBSET Transactions
    OBVIOUS
  <2>2. run' = [run EXCEPT ![c].pc = "check", ![c].left = found]
    BY <1>4 DEF ListTransactions
  <2> HIDE DEF found
  <2>3. run' \in [Calls -> [pc : {"idle", "list", "check"}, from : 0..clock, to : 0..clock,
                            left : SUBSET Transactions, mismatches : SUBSET Transactions]]
    <3>1. run'[c] = [run[c] EXCEPT !.pc = "check", !.left = found]
      BY <2>2
    <3>2. run'[c] \in [pc : {"idle", "list", "check"}, from : 0..clock, to : 0..clock,
                       left : SUBSET Transactions, mismatches : SUBSET Transactions]
      BY <2>1, <3>1
    <3> QED
      BY <2>2, <3>2
  <2> QED
    BY <1>4, <2>3 DEF ListTransactions
<1>5. ASSUME NEW c \in Calls, NEW t \in Transactions, CheckTransaction(c, t) PROVE ReconcileTypeOK'
  <2> DEFINE rest == run[c].left \ {t}
             wrong == IF t \in settled THEN run[c].mismatches ELSE run[c].mismatches \cup {t}
  <2>1. rest \in SUBSET Transactions /\ wrong \in SUBSET Transactions
    OBVIOUS
  <2>2. run' = [run EXCEPT ![c] = [run[c] EXCEPT !.left = rest, !.mismatches = wrong]]
    BY <1>5 DEF CheckTransaction
  <2> HIDE DEF rest, wrong
  <2>3. run'[c] \in [pc : {"idle", "list", "check"}, from : 0..clock, to : 0..clock,
                     left : SUBSET Transactions, mismatches : SUBSET Transactions]
    BY <2>1, <2>2
  <2>4. run' \in [Calls -> [pc : {"idle", "list", "check"}, from : 0..clock, to : 0..clock,
                            left : SUBSET Transactions, mismatches : SUBSET Transactions]]
    BY <2>2, <2>3
  <2> QED
    BY <1>5, <2>4 DEF CheckTransaction
<1>6. NoReconcile \in [pc : {"idle", "list", "check"}, from : 0..clock, to : 0..clock,
                       left : SUBSET Transactions, mismatches : SUBSET Transactions]
  BY TypeFacts DEF NoReconcile
<1>7. ASSUME NEW c \in Calls, EndReconcile(c) PROVE ReconcileTypeOK'
  BY <1>6, <1>7 DEF EndReconcile
<1>8. CASE ProcessRestarts
  <2>1. clock + Interval \in Nat
    BY TypeFacts, ReconcileAssumption
  <2>2. gaps' \subseteq 0..MaxPgTime
    <3>1. \A c \in Calls : run[c].from..run[c].to \subseteq 0..MaxPgTime
      BY TypeFacts, ReconcileAssumption
    <3> QED
      BY <1>8, <3>1 DEF ProcessRestarts
  <2>3. pg' \in [Transactions -> [state : {"none", "sent", "ledger", "lost"}, score : 0..clock]]
    BY <1>8 DEF ProcessRestarts
  <2> QED
    BY <1>6, <1>8, <2>1, <2>2, <2>3 DEF ProcessRestarts
<1>9. CASE UNCHANGED reconcileVars
  BY <1>9 DEF reconcileVars
<1> QED
  BY <1>1, <1>2, <1>3, <1>4, <1>5, <1>7, <1>8, <1>9 DEF ReconcileNext

\* Steps that leave the runs and the reports alone.
LEMMA LedgerSafe ==
  ASSUME ReconcileIInv, PgTick \/ \E t \in Transactions : SetTransaction(t) \/ ZAdd(t) \/ Settle(t)
  PROVE  RunInv' /\ \A t \in Transactions : Reachable(t)'
<1> USE DEF ReconcileIInv
<1>1. /\ run' = run /\ reported' = reported /\ lastTo' = lastTo /\ gaps' = gaps
      /\ settled \subseteq settled' /\ late \subseteq late'
  BY DEF PgTick, SetTransaction, ZAdd, Settle
<1>2. ASSUME NEW t \in Transactions
      PROVE  \/ pg'[t] = pg[t]
             \/ pg'[t].state = "sent" /\ pg[t].state = "none"
             \/ pg[t].state = "sent" /\ pg'[t].score = pg[t].score /\ (pg[t].score < lastTo => t \in late')
  BY TypeFacts DEF PgTick, SetTransaction, ZAdd, Settle, ReconcileTypeOK
<1>3. ASSUME NEW c \in Calls, NEW t \in Transactions, WillCheck(c, t), pg[t].state = "ledger"
      PROVE  WillCheck(c, t)'
  BY <1>1, <1>2, <1>3 DEF WillCheck
<1>4. ASSUME NEW t \in Transactions PROVE Reachable(t)'
  BY <1>1, <1>2, <1>3 DEF Reachable
<1>5. RunInv'
  BY <1>1, <1>2 DEF RunInv
<1> QED
  BY <1>4, <1>5

\* The window that opens covers what the last one has not, save in a gap.
LEMMA StartSafe ==
  ASSUME ReconcileIInv, NEW c \in Calls, StartReconcile(c)
  PROVE  RunInv' /\ \A t \in Transactions : Reachable(t)'
<1> USE DEF ReconcileIInv
<1>1. /\ run[c].pc = "idle" /\ run'[c].pc = "list" /\ run'[c].from = WindowStart(clock) /\ run'[c].to = clock
      /\ \A d \in Calls : d # c => run'[d] = run[d]
      /\ run'[c].left = {} /\ run'[c].mismatches = {}
  BY DEF StartReconcile, ReconcileTypeOK
<1>2. /\ pg' = pg /\ settled' = settled /\ late' = late /\ reported' = reported /\ lastTo' = clock
      /\ gaps' = gaps \cup {n \in 0..MaxPgTime : lastTo <= n /\ n + Lookback < clock}
  BY DEF StartReconcile
<1>3. ASSUME NEW t \in Transactions PROVE Reachable(t)'
  <2>1. pg[t].score \in 0..MaxPgTime /\ pg[t].score =< clock /\ lastTo \in Nat /\ clock \in Nat
    BY TypeFacts, ReconcileAssumption
  <2>2. CASE pg[t].score < lastTo
    <3>1. ASSUME NEW d \in Calls, WillCheck(d, t) PROVE WillCheck(d, t)'
      BY <1>1, <1>2, <3>1 DEF WillCheck
    <3> QED
      BY <1>2, <2>2, <3>1 DEF Reachable
  <2>3. CASE lastTo =< pg[t].score
    <3>1. pg[t].score \in gaps' \/ pg[t].score + Lookback >= clock
      BY <1>2, <2>1, <2>3, ReconcileAssumption
    <3>2. pg[t].score + Lookback >= clock => pg[t].score \in WindowStart(clock)..clock
      BY <2>1, ReconcileAssumption DEF WindowStart
    <3>3. pg[t].score \in WindowStart(clock)..clock => WillCheck(c, t)'
      BY <1>1, <1>2 DEF WillCheck
    <3> QED
      BY <1>2, <3>1, <3>2, <3>3 DEF Reachable
  <2> QED
    BY <2>1, <2>2, <2>3
<1>4. RunInv'
  BY <1>1, <1>2 DEF RunInv
<1> QED
  BY <1>3, <1>4

LEMMA ListSafe ==
  ASSUME ReconcileIInv, NEW c \in Calls, ListTransactions(c)
  PROVE  RunInv' /\ \A t \in Transactions : Reachable(t)'
<1> USE DEF ReconcileIInv
<1> DEFINE found == {t \in Transactions : /\ pg[t].state = "ledger"
                                          /\ pg[t].score \in run[c].from..run[c].to}
<1>1. /\ run[c].pc = "list" /\ run' = [run EXCEPT ![c].pc = "check", ![c].left = found]
      /\ UNCHANGED <<pg, settled, late, reported, lastTo, gaps>>
  BY DEF ListTransactions
<1>2. /\ run'[c].pc = "check" /\ run'[c].left = found
      /\ run'[c].from = run[c].from /\ run'[c].to = run[c].to
      /\ run'[c].mismatches = run[c].mismatches
      /\ \A d \in Calls : d # c => run'[d] = run[d]
  <2> HIDE DEF found
  <2> QED
    BY <1>1 DEF ReconcileTypeOK
<1>3. ASSUME NEW d \in Calls, NEW t \in Transactions, WillCheck(d, t), pg[t].state = "ledger"
      PROVE  WillCheck(d, t)'
  BY <1>1, <1>2, <1>3 DEF WillCheck
<1>4. ASSUME NEW t \in Transactions PROVE Reachable(t)'
  BY <1>1, <1>3 DEF Reachable
<1>5. RunInv'
  BY <1>1, <1>2 DEF RunInv
<1> QED
  BY <1>4, <1>5

LEMMA CheckSafe ==
  ASSUME ReconcileIInv, NEW c \in Calls, NEW k \in Transactions, CheckTransaction(c, k)
  PROVE  RunInv' /\ \A t \in Transactions : Reachable(t)'
<1> USE DEF ReconcileIInv
<1>1. /\ run'[c] = [run[c] EXCEPT !.left = @ \ {k},
                                  !.mismatches = IF k \in settled THEN @ ELSE @ \cup {k}]
      /\ \A d \in Calls : d # c => run'[d] = run[d]
      /\ k \in run[c].left /\ run[c].pc = "check"
      /\ UNCHANGED <<pg, settled, late, reported, lastTo, gaps>>
  BY DEF CheckTransaction, ReconcileTypeOK, RunInv
<1>2. /\ run'[c].pc = run[c].pc /\ run'[c].from = run[c].from /\ run'[c].to = run[c].to
      /\ run'[c].left = run[c].left \ {k}
      /\ run'[c].mismatches = IF k \in settled THEN run[c].mismatches ELSE run[c].mismatches \cup {k}
  BY <1>1 DEF ReconcileTypeOK
<1>3. ASSUME NEW d \in Calls, NEW t \in Transactions, WillCheck(d, t), t \notin settled
      PROVE  WillCheck(d, t)'
  BY <1>1, <1>2, <1>3 DEF WillCheck
<1>4. ASSUME NEW t \in Transactions PROVE Reachable(t)'
  BY <1>1, <1>3 DEF Reachable
<1>5. ASSUME NEW d \in Calls, NEW t \in Transactions, t \in run'[d].left \cup run'[d].mismatches
      PROVE  /\ t \in run[d].left \cup run[d].mismatches
             /\ run'[d].pc = run[d].pc /\ run'[d].from = run[d].from /\ run'[d].to = run[d].to
  <2>1. CASE d # c
    BY <1>1, <1>5, <2>1
  <2>2. CASE d = c
    <3>1. t \in run[c].left \cup run[c].mismatches
      BY <1>1, <1>2, <1>5, <2>2
    <3> QED
      BY <1>2, <2>2, <3>1
  <2> QED
    BY <2>1, <2>2
<1>6. RunInv'
  <2> SUFFICES ASSUME NEW d \in Calls, NEW t \in Transactions, t \in run'[d].left \cup run'[d].mismatches
               PROVE  /\ run'[d].pc = "check"
                      /\ pg'[t].state = "ledger" /\ pg'[t].score \in run'[d].from..run'[d].to
    BY DEF RunInv
  <2> QED
    BY <1>1, <1>5 DEF RunInv
<1> QED
  BY <1>4, <1>6

LEMMA ReconcileEndSafe ==
  ASSUME ReconcileIInv, NEW c \in Calls, EndReconcile(c)
  PROVE  RunInv' /\ \A t \in Transactions : Reachable(t)'
<1> USE DEF ReconcileIInv
<1>1. /\ run[c].pc = "check" /\ run[c].left = {} /\ run'[c] = NoReconcile
      /\ \A d \in Calls : d # c => run'[d] = run[d]
      /\ reported' = reported \cup run[c].mismatches
      /\ UNCHANGED <<pg, settled, late, lastTo, gaps>>
  BY DEF EndReconcile, ReconcileTypeOK
<1>2. ASSUME NEW d \in Calls, NEW t \in Transactions, WillCheck(d, t)
      PROVE  WillCheck(d, t)' \/ t \in reported'
  BY <1>1, <1>2 DEF WillCheck
<1>3. ASSUME NEW t \in Transactions PROVE Reachable(t)'
  BY <1>1, <1>2 DEF Reachable
<1>4. ASSUME NEW d \in Calls, NEW t \in Transactions, t \in run'[d].left \cup run'[d].mismatches
      PROVE  t \in run[d].left \cup run[d].mismatches /\ run'[d] = run[d]
  BY <1>1, <1>4 DEF NoReconcile
<1>5. RunInv'
  <2> SUFFICES ASSUME NEW d \in Calls, NEW t \in Transactions, t \in run'[d].left \cup run'[d].mismatches
               PROVE  /\ run'[d].pc = "check"
                      /\ pg'[t].state = "ledger" /\ pg'[t].score \in run'[d].from..run'[d].to
    BY DEF RunInv
  <2> QED
    BY <1>1, <1>4 DEF RunInv
<1> QED
  BY <1>3, <1>5

\* What a lost run would have checked lies in its window, which becomes a gap.
LEMMA RestartSafe ==
  ASSUME ReconcileIInv, ProcessRestarts
  PROVE  RunInv' /\ \A t \in Transactions : Reachable(t)'
<1> USE DEF ReconcileIInv
<1>1. /\ \A c \in Calls : /\ run'[c].pc = "idle"
                           /\ run'[c].left = {} /\ run'[c].mismatches = {}
      /\ UNCHANGED <<settled, late, reported, lastTo>>
      /\ gaps \subseteq gaps'
      /\ \A c \in Calls : run[c].pc # "idle" => run[c].from..run[c].to \subseteq gaps'
  BY DEF ProcessRestarts, NoReconcile
<1>2. ASSUME NEW t \in Transactions PROVE pg'[t] = pg[t] \/ pg'[t].state = "lost"
  BY DEF ProcessRestarts, ReconcileTypeOK
<1>3. ASSUME NEW c \in Calls, NEW t \in Transactions, WillCheck(c, t) PROVE pg[t].score \in gaps'
  BY <1>1, <1>3 DEF WillCheck, RunInv
<1>4. ASSUME NEW t \in Transactions PROVE Reachable(t)'
  BY <1>1, <1>2, <1>3 DEF Reachable
<1>5. RunInv'
  BY <1>1 DEF RunInv
<1> QED
  BY <1>4, <1>5

-----------------------------------------------------------------------------
LEMMA IInvStep == ReconcileIInv /\ [ReconcileNext]_reconcileVars => ReconcileIInv'
<1> SUFFICES ASSUME ReconcileIInv, [ReconcileNext]_reconcileVars PROVE ReconcileIInv'
  OBVIOUS
<1>1. ReconcileTypeOK'
  BY ReconcileTypeStep DEF ReconcileIInv
<1>2. CASE PgTick \/ \E t \in Transactions : SetTransaction(t) \/ ZAdd(t) \/ Settle(t)
  BY <1>1, <1>2, LedgerSafe DEF ReconcileIInv
<1>3. ASSUME NEW c \in Calls,
             \/ StartReconcile(c) \/ ListTransactions(c) \/ EndReconcile(c)
             \/ \E t \in Transactions : CheckTransaction(c, t)
      PROVE  ReconcileIInv'
  BY <1>1, <1>3, StartSafe, ListSafe, CheckSafe, ReconcileEndSafe DEF ReconcileIInv
<1>4. CASE ProcessRestarts
  BY <1>1, <1>4, RestartSafe DEF ReconcileIInv
<1>5. CASE UNCHANGED reconcileVars
  BY <1>1, <1>5 DEF ReconcileIInv, reconcileVars, RunInv, Reachable, WillCheck
<1> QED
  BY <1>2, <1>3, <1>4, <1>5 DEF ReconcileNext

LEMMA Invariance == ReconcileSpec => []ReconcileIInv
<1>1. ReconcileInit => ReconcileIInv
  BY ReconcileInitIInv
<1>2. ReconcileIInv /\ [ReconcileNext]_reconcileVars => ReconcileIInv'
  BY IInvStep
<1> QED
  BY <1>1, <1>2, PTL DEF ReconcileSpec

\* Type correctness of PaymentReconciliation; a run's window never ends ahead of
\* the clock, nor does the last window.
THEOREM ReconcileTypeCorrect == ReconcileSpec => []ReconcileTypeOK
<1>1. ReconcileIInv => ReconcileTypeOK
  BY DEF ReconcileIInv
<1> QED
  BY <1>1, Invariance, PTL

\* reconcileOnce: a transaction of the ledger that never reached its payment is
\* reported by a run whose window passes it, for every interval up to the
\* look-back; the exceptions are late entries and windows lost or never opened.
THEOREM ReconcileReports == ReconcileSpec => []UnsettledIsReported
<1>1. ReconcileIInv => UnsettledIsReported
  BY DEF ReconcileIInv, UnsettledIsReported, Reachable, WillCheck
<1> QED
  BY <1>1, Invariance, PTL

-----------------------------------------------------------------------------
(***************************************************************************)
(* Accounts: every account that was told can be reached.                   *)
(***************************************************************************)
\* A request that has found or inserted its row is at the row of its uuid.
LoginInv ==
  \A c \in Calls :
    /\ login[c].pc = "idle" => login[c].uuid = "none"
    /\ login[c].pc # "idle" => login[c].uuid \in Uuids
    /\ login[c].pc \in {"idle", "persist"} => login[c].id = 0
    /\ login[c].pc \in {"session", "answer"} =>
         login[c].id \in DOMAIN accounts /\ accounts[login[c].id] = login[c].uuid

\* The unique index.
UuidsUnique == \A i, j \in DOMAIN accounts : accounts[i] = accounts[j] => i = j

ToldInv == \A answer \in told : accounts[answer.id] = answer.uuid

\* The invariant that the steps keep.
AccountsIInv ==
  /\ AccountsTypeOK /\ callFaults \in Nat /\ LoginInv /\ UuidsUnique /\ ToldInv
  /\ \A uuid \in refused : FindByUuid(uuid) # {}
  /\ IsFiniteSet(Unreachable) /\ Cardinality(Unreachable) <= callFaults

LEMMA AccountsTypes ==
  ASSUME AccountsTypeOK
  PROVE  /\ accounts \in Seq(Uuids) /\ Len(accounts) \in Nat /\ DOMAIN accounts = 1..Len(accounts)
         /\ \A i \in DOMAIN accounts : accounts[i] \in Uuids
BY DEF AccountsTypeOK

LEMMA InitAccounts == AccountsInit => AccountsIInv
<1> SUFFICES ASSUME AccountsInit PROVE AccountsIInv
  OBVIOUS
<1>1. accounts = <<>> /\ accounts \in Seq(Uuids) /\ DOMAIN accounts = {} /\ Len(accounts) = 0
  BY DEF AccountsInit
<1>2. AccountsTypeOK /\ callFaults \in Nat
  BY <1>1 DEF AccountsInit, AccountsTypeOK, NoLogin, LoginAt
<1>3. LoginInv /\ UuidsUnique /\ ToldInv /\ \A uuid \in refused : FindByUuid(uuid) # {}
  BY <1>1 DEF AccountsInit, LoginInv, UuidsUnique, ToldInv, NoLogin, LoginAt
<1>4. Unreachable = {} /\ callFaults = 0
  BY <1>1 DEF Unreachable, AccountsInit
<1>5. IsFiniteSet(Unreachable) /\ Cardinality(Unreachable) <= callFaults
  BY <1>4, FS_EmptySet
<1> QED
  BY <1>2, <1>3, <1>5 DEF AccountsIInv

\* What is finite and small remains so in a smaller set.
LEMMA FewerUnreachable ==
  ASSUME IsFiniteSet(Unreachable), Cardinality(Unreachable) <= callFaults,
         callFaults \in Nat, callFaults' >= callFaults, callFaults' \in Nat,
         Unreachable' \subseteq Unreachable
  PROVE  IsFiniteSet(Unreachable)' /\ (Cardinality(Unreachable) <= callFaults)'
<1>1. IsFiniteSet(Unreachable') /\ Cardinality(Unreachable') <= Cardinality(Unreachable)
  BY FS_Subset
<1>2. Cardinality(Unreachable') \in Nat /\ Cardinality(Unreachable) \in Nat
  BY <1>1, FS_CardinalityType
<1> QED
  BY <1>1, <1>2

\* A step that leaves the rows and what was told, and lets go of no row.
LEMMA LoginMoves ==
  ASSUME AccountsIInv, UNCHANGED <<accounts, told, refused, callFaults>>, NEW c \in Calls,
         drawn' \subseteq Randoms, live' \subseteq DOMAIN accounts,
         NEW pc \in {"idle", "persist", "session", "answer"}, NEW uuid, NEW id,
         SetLogin(c, LoginAt(pc, uuid, id)),
         pc = "idle" => uuid = "none", pc # "idle" => uuid \in Uuids,
         pc \in {"idle", "persist"} => id = 0,
         pc \in {"session", "answer"} => id \in DOMAIN accounts /\ accounts[id] = uuid,
         login[c].id \in {0, id}
  PROVE  AccountsIInv'
<1> USE DEF AccountsIInv
<1>1. login' = [login EXCEPT ![c] = [pc |-> pc, uuid |-> uuid, id |-> id]]
  BY DEF SetLogin, LoginAt
<1>2. id \in 0..Len(accounts) /\ uuid \in Uuids \cup {"none"}
  BY AccountsTypes
<1>3. AccountsTypeOK'
  BY <1>1, <1>2 DEF AccountsTypeOK
<1>4. LoginInv'
  <2> SUFFICES ASSUME NEW d \in Calls
               PROVE  /\ login'[d].pc = "idle" => login'[d].uuid = "none"
                      /\ login'[d].pc # "idle" => login'[d].uuid \in Uuids
                      /\ login'[d].pc \in {"idle", "persist"} => login'[d].id = 0
                      /\ login'[d].pc \in {"session", "answer"} =>
                           login'[d].id \in DOMAIN accounts /\ accounts[login'[d].id] = login'[d].uuid
    BY DEF LoginInv
  <2>1. CASE d = c
    BY <1>1, <2>1 DEF AccountsTypeOK
  <2>2. CASE d # c
    BY <1>1, <2>2 DEF AccountsTypeOK, LoginInv
  <2> QED
    BY <2>1, <2>2
<1>5. UuidsUnique' /\ ToldInv' /\ \A u \in refused' : FindByUuid(u)' # {}
  BY DEF UuidsUnique, ToldInv, FindByUuid
<1>6. Unreachable' \subseteq Unreachable
  <2> SUFFICES ASSUME NEW i \in Unreachable' PROVE i \in Unreachable
    OBVIOUS
  <2>1. /\ i \in DOMAIN accounts /\ i # 0
        /\ accounts[i] \notin Devices \cup {answer.uuid : answer \in told}
        /\ \A d \in Calls : login'[d].id # i
    BY AccountsTypes DEF Unreachable
  <2>2. \A d \in Calls : login[d].id # i
    BY <1>1, <2>1 DEF AccountsTypeOK
  <2> QED
    BY <2>1, <2>2 DEF Unreachable
<1> QED
  BY <1>3, <1>4, <1>5, <1>6, FewerUnreachable

LEMMA LoginSafe ==
  ASSUME AccountsIInv, NEW c \in Calls, NEW uuid \in Uuids, Login(c, uuid)
  PROVE  AccountsIInv'
<1>1. login[c].id = 0 /\ drawn' \subseteq Randoms /\ live' \subseteq DOMAIN accounts
  BY DEF Login, AccountsIInv, LoginInv, AccountsTypeOK
<1>2. UNCHANGED <<accounts, told, refused, callFaults>>
  BY DEF Login
<1>3. CASE FindByUuid(uuid) = {}
  <2>1. SetLogin(c, LoginAt("persist", uuid, 0))
    BY <1>3 DEF Login
  <2> QED
    BY <1>1, <1>2, <2>1, LoginMoves
<1>4. CASE FindByUuid(uuid) # {}
  <2>1. PICK id \in FindByUuid(uuid) : SetLogin(c, LoginAt("session", uuid, id))
    BY <1>4 DEF Login
  <2>2. id \in DOMAIN accounts /\ accounts[id] = uuid
    BY DEF FindByUuid
  <2> QED
    BY <1>1, <1>2, <2>1, <2>2, LoginMoves
<1> QED
  BY <1>3, <1>4

LEMMA RegisterSafe == ASSUME AccountsIInv, NEW c \in Calls, Register(c) PROVE AccountsIInv'
<1>1. PICK uuid \in Randoms : drawn' = drawn \cup {uuid} /\ SetLogin(c, LoginAt("persist", uuid, 0))
  BY DEF Register
<1>2. login[c].id = 0 /\ drawn' \subseteq Randoms /\ live' \subseteq DOMAIN accounts
  BY <1>1 DEF Register, AccountsIInv, LoginInv, AccountsTypeOK
<1>3. UNCHANGED <<accounts, told, refused, callFaults>> /\ uuid \in Uuids
  BY DEF Register, Uuids
<1> QED
  BY <1>1, <1>2, <1>3, LoginMoves

LEMMA SetSessionSafe == ASSUME AccountsIInv, NEW c \in Calls, SetSession(c) PROVE AccountsIInv'
<1> DEFINE id == login[c].id  uuid == login[c].uuid
<1>1. id \in DOMAIN accounts /\ accounts[id] = uuid /\ uuid \in Uuids
  BY DEF SetSession, AccountsIInv, LoginInv
<1>2. [login[c] EXCEPT !.pc = "answer"] = LoginAt("answer", uuid, id)
  BY DEF AccountsIInv, AccountsTypeOK, LoginAt
<1>3. SetLogin(c, LoginAt("answer", uuid, id)) /\ UNCHANGED <<accounts, told, refused, callFaults>>
  BY <1>2, Zenon DEF SetSession
<1>4. live' \subseteq DOMAIN accounts /\ drawn' \subseteq Randoms
  BY <1>1 DEF SetSession, AccountsIInv, AccountsTypeOK
<1> QED
  BY <1>1, <1>3, <1>4, LoginMoves

\* The unique index rejects the row of a uuid that has one.
LEMMA PersistRefused ==
  ASSUME AccountsIInv, NEW c \in Calls, PersistAccount(c), ~MayInsert(login[c].uuid)
  PROVE  AccountsIInv'
<1> USE DEF AccountsIInv
<1>1. /\ login' = [login EXCEPT ![c] = NoLogin]
      /\ refused' = refused \cup {login[c].uuid}
      /\ UNCHANGED <<accounts, live, drawn, told, callFaults>>
      /\ login[c].pc = "persist" /\ FindByUuid(login[c].uuid) # {}
  BY DEF PersistAccount, SetLogin, MayInsert
<1>2. login[c].uuid \in Uuids /\ login[c].id = 0
  BY <1>1 DEF LoginInv
<1>3. AccountsTypeOK'
  BY <1>1, <1>2, AccountsTypes DEF AccountsTypeOK, NoLogin, LoginAt
<1>4. LoginInv'
  BY <1>1 DEF LoginInv, NoLogin, LoginAt, AccountsTypeOK
<1>5. UuidsUnique' /\ ToldInv' /\ \A u \in refused' : FindByUuid(u)' # {}
  BY <1>1 DEF UuidsUnique, ToldInv, FindByUuid
<1>6. Unreachable' \subseteq Unreachable
  BY <1>1, <1>2, AccountsTypes DEF Unreachable, NoLogin, LoginAt, AccountsTypeOK
<1> QED
  BY <1>1, <1>3, <1>4, <1>5, <1>6, FewerUnreachable

\* The row that is inserted has a new uuid and is held by its request.
LEMMA PersistInserts ==
  ASSUME AccountsIInv, NEW c \in Calls, PersistAccount(c), MayInsert(login[c].uuid)
  PROVE  AccountsIInv'
<1> USE DEF AccountsIInv
<1> DEFINE uuid == login[c].uuid  new == Len(accounts) + 1
<1>1. /\ accounts' = Append(accounts, uuid)
      /\ login' = [login EXCEPT ![c] = [pc |-> "session", uuid |-> uuid, id |-> new]]
      /\ UNCHANGED <<live, drawn, told, refused, callFaults>>
      /\ login[c].pc = "persist" /\ FindByUuid(uuid) = {}
  BY DEF PersistAccount, SetLogin, MayInsert, LoginAt
<1>2. uuid \in Uuids /\ login[c].id = 0
  BY <1>1 DEF LoginInv
<1>3. /\ accounts' \in Seq(Uuids) /\ Len(accounts') = new /\ DOMAIN accounts' = 1..new
      /\ accounts'[new] = uuid /\ \A i \in DOMAIN accounts : accounts'[i] = accounts[i]
      /\ DOMAIN accounts = 1..Len(accounts) /\ Len(accounts) \in Nat
  BY <1>1, <1>2, AccountsTypes
<1>4. AccountsTypeOK'
  <2>1. login' \in [Calls -> [pc : {"idle", "persist", "session", "answer"},
                              uuid : Uuids \cup {"none"}, id : 0..Len(accounts')]]
    BY <1>1, <1>2, <1>3 DEF AccountsTypeOK
  <2>2. told \subseteq [uuid : Uuids, id : DOMAIN accounts'] /\ live \subseteq DOMAIN accounts'
    BY <1>3 DEF AccountsTypeOK
  <2> QED
    BY <1>1, <1>3, <2>1, <2>2 DEF AccountsTypeOK
<1>5. LoginInv'
  <2> SUFFICES ASSUME NEW d \in Calls
               PROVE  /\ login'[d].pc = "idle" => login'[d].uuid = "none"
                      /\ login'[d].pc # "idle" => login'[d].uuid \in Uuids
                      /\ login'[d].pc \in {"idle", "persist"} => login'[d].id = 0
                      /\ login'[d].pc \in {"session", "answer"} =>
                           login'[d].id \in DOMAIN accounts' /\ accounts'[login'[d].id] = login'[d].uuid
    BY DEF LoginInv
  <2>1. CASE d = c
    BY <1>1, <1>2, <1>3, <2>1 DEF AccountsTypeOK
  <2>2. CASE d # c
    <3>1. login'[d] = login[d]
      BY <1>1, <2>2 DEF AccountsTypeOK
    <3> QED
      BY <1>3, <3>1 DEF LoginInv
  <2> QED
    BY <2>1, <2>2
<1>6. \A i \in DOMAIN accounts : accounts[i] # uuid
  BY <1>1 DEF FindByUuid
<1>7. UuidsUnique' /\ ToldInv'
  BY <1>1, <1>3, <1>6 DEF UuidsUnique, ToldInv, AccountsTypeOK
<1>8. \A u \in refused' : FindByUuid(u)' # {}
  BY <1>1, <1>3 DEF FindByUuid
<1>9. Unreachable' \subseteq Unreachable
  <2> SUFFICES ASSUME NEW i \in Unreachable' PROVE i \in Unreachable
    OBVIOUS
  <2>1. /\ i \in 1..new /\ accounts'[i] \notin Devices \cup {answer.uuid : answer \in told}
        /\ \A d \in Calls : login'[d].id # i
    BY <1>1, <1>3 DEF Unreachable
  <2>2. i # new
    BY <1>1, <2>1 DEF AccountsTypeOK
  <2>3. i \in DOMAIN accounts /\ accounts'[i] = accounts[i]
    BY <1>3, <2>1, <2>2
  <2>4. \A d \in Calls : login[d].id # i
    BY <1>1, <1>2, <2>1 DEF AccountsTypeOK
  <2> QED
    BY <2>1, <2>3, <2>4 DEF Unreachable
<1> QED
  BY <1>1, <1>4, <1>5, <1>7, <1>8, <1>9, FewerUnreachable

\* The request lets its row go, whose uuid is told now.
LEMMA AnswerLoginSafe == ASSUME AccountsIInv, NEW c \in Calls, AnswerLogin(c) PROVE AccountsIInv'
<1> USE DEF AccountsIInv
<1> DEFINE uuid == login[c].uuid  id == login[c].id
<1>1. /\ told' = told \cup {[uuid |-> uuid, id |-> id]}
      /\ login' = [login EXCEPT ![c] = NoLogin]
      /\ UNCHANGED <<accounts, live, drawn, refused, callFaults>>
  BY DEF AnswerLogin, SetLogin
<1>2. id \in DOMAIN accounts /\ accounts[id] = uuid /\ uuid \in Uuids
  BY DEF AnswerLogin, LoginInv
<1>3. AccountsTypeOK'
  BY <1>1, <1>2, AccountsTypes DEF AccountsTypeOK, NoLogin, LoginAt
<1>4. LoginInv'
  BY <1>1 DEF LoginInv, NoLogin, LoginAt, AccountsTypeOK
<1>5. UuidsUnique' /\ ToldInv' /\ \A u \in refused' : FindByUuid(u)' # {}
  BY <1>1, <1>2 DEF UuidsUnique, ToldInv, FindByUuid
<1>6. Unreachable' \subseteq Unreachable
  <2> SUFFICES ASSUME NEW i \in Unreachable' PROVE i \in Unreachable
    OBVIOUS
  <2>1. /\ i \in DOMAIN accounts
        /\ accounts[i] \notin Devices \cup {answer.uuid : answer \in told'}
        /\ \A d \in Calls : login'[d].id # i
    BY <1>1 DEF Unreachable
  <2>2. uuid \in {answer.uuid : answer \in told'}
    <3>1. [uuid |-> uuid, id |-> id] \in told' /\ [uuid |-> uuid, id |-> id].uuid = uuid
      BY <1>1
    <3> QED
      BY <3>1, Zenon
  <2>3. i # id
    BY <1>2, <2>1, <2>2
  <2>4. \A d \in Calls : login[d].id # i
    BY <1>1, <2>1, <2>3 DEF AccountsTypeOK
  <2>5. accounts[i] \notin Devices \cup {answer.uuid : answer \in told}
    BY <1>1, <2>1
  <2> QED
    BY <2>1, <2>4, <2>5 DEF Unreachable
<1> QED
  BY <1>1, <1>3, <1>4, <1>5, <1>6, FewerUnreachable

\* The request lets its row go, and counts as a fault.
LEMMA LoginStopsSafe == ASSUME AccountsIInv, NEW c \in Calls, LoginStops(c) PROVE AccountsIInv'
<1> USE DEF AccountsIInv
<1> DEFINE id == login[c].id
<1>1. /\ login' = [login EXCEPT ![c] = NoLogin] /\ callFaults' = callFaults + 1
      /\ UNCHANGED <<accounts, live, drawn, told, refused>>
  BY DEF LoginStops, SetLogin, CallFault
<1>2. AccountsTypeOK' /\ (callFaults \in Nat)'
  BY <1>1, AccountsTypes DEF AccountsTypeOK, NoLogin, LoginAt
<1>3. LoginInv'
  BY <1>1 DEF LoginInv, NoLogin, LoginAt, AccountsTypeOK
<1>4. UuidsUnique' /\ ToldInv' /\ \A u \in refused' : FindByUuid(u)' # {}
  BY <1>1 DEF UuidsUnique, ToldInv, FindByUuid
<1>5. Unreachable' \subseteq Unreachable \cup {id}
  <2> SUFFICES ASSUME NEW i \in Unreachable', i # id PROVE i \in Unreachable
    OBVIOUS
  <2>1. \A d \in Calls : login[d].id # i
    BY <1>1 DEF Unreachable, AccountsTypeOK
  <2> QED
    BY <1>1, <2>1 DEF Unreachable
<1>6. /\ IsFiniteSet(Unreachable \cup {id})
      /\ Cardinality(Unreachable \cup {id}) <= Cardinality(Unreachable) + 1
  <2> HIDE DEF id
  <2>1. Cardinality(Unreachable) \in Nat
    BY FS_CardinalityType
  <2>2. /\ IsFiniteSet(Unreachable \cup {id})
        /\ Cardinality(Unreachable \cup {id}) = IF id \in Unreachable THEN Cardinality(Unreachable)
                                                ELSE Cardinality(Unreachable) + 1
    BY FS_AddElement
  <2> QED
    BY <2>1, <2>2
<1>7. /\ IsFiniteSet(Unreachable') /\ Cardinality(Unreachable') <= Cardinality(Unreachable \cup {id})
  BY <1>5, <1>6, FS_Subset
<1>8. Cardinality(Unreachable') \in Nat /\ Cardinality(Unreachable \cup {id}) \in Nat
      /\ Cardinality(Unreachable) \in Nat
  BY <1>6, <1>7, FS_CardinalityType
<1>9. Cardinality(Unreachable') <= callFaults'
  BY <1>1, <1>6, <1>7, <1>8
<1> QED
  BY <1>2, <1>3, <1>4, <1>7, <1>9

LEMMA SessionExpiresSafe ==
  ASSUME AccountsIInv, (\E id \in live : SessionExpires(id)) \/ UNCHANGED accountsVars
  PROVE  AccountsIInv'
<1> USE DEF AccountsIInv
<1>1. UNCHANGED <<accounts, drawn, told, refused, login, callFaults>> /\ live' \subseteq live
  BY DEF SessionExpires, accountsVars
<1>2. AccountsTypeOK' /\ LoginInv' /\ UuidsUnique' /\ ToldInv'
  BY <1>1 DEF AccountsTypeOK, LoginInv, UuidsUnique, ToldInv
<1>3. Unreachable' = Unreachable
      /\ \A u \in refused' : FindByUuid(u)' # {}
  BY <1>1 DEF FindByUuid, Unreachable
<1> QED
  BY <1>1, <1>2, <1>3

\* One lemma per action.
LEMMA AccountsStep == AccountsIInv /\ [AccountsNext]_accountsVars => AccountsIInv'
<1> SUFFICES ASSUME AccountsIInv, [AccountsNext]_accountsVars PROVE AccountsIInv'
  OBVIOUS
<1>1. ASSUME NEW c \in Calls, NEW uuid \in Uuids, Login(c, uuid) PROVE AccountsIInv'
  BY <1>1, LoginSafe
<1>2. ASSUME NEW c \in Calls, PersistAccount(c) PROVE AccountsIInv'
  BY <1>2, PersistInserts, PersistRefused
<1>3. ASSUME NEW c \in Calls, Register(c) \/ SetSession(c) \/ AnswerLogin(c) \/ LoginStops(c)
      PROVE  AccountsIInv'
  BY <1>3, RegisterSafe, SetSessionSafe, AnswerLoginSafe, LoginStopsSafe
<1>4. CASE (\E id \in live : SessionExpires(id)) \/ UNCHANGED accountsVars
  BY <1>4, SessionExpiresSafe
<1> QED
  BY <1>1, <1>2, <1>3, <1>4 DEF AccountsNext

\* Whoever was told an account is led to it, a refused login can be repeated, and only
\* a fault leaves an account that nobody can log in to.
THEOREM ToldAccountsAreReached == AccountsSpec => [](AccountsTypeOK /\ AccountsAreReached)
<1>1. AccountsIInv => AccountsTypeOK /\ AccountsAreReached
  <2> SUFFICES ASSUME AccountsIInv PROVE AccountsTypeOK /\ AccountsAreReached
    OBVIOUS
  <2>1. ASSUME NEW answer \in told PROVE FindByUuid(answer.uuid) = {answer.id}
    BY DEF AccountsIInv, UuidsUnique, ToldInv, FindByUuid, AccountsTypeOK
  <2> QED
    BY <2>1 DEF AccountsIInv, AccountsAreReached
<1> QED
  BY <1>1, InitAccounts, AccountsStep, PTL DEF AccountsSpec

-----------------------------------------------------------------------------
(***************************************************************************)
(* The services side by side: a step of one service is none of another.    *)
(***************************************************************************)

LEMMA LlmAlone ==
  [ServicesNext]_servicesVars =>
    /\ service' = service
    /\ service = "llm" => [LlmNext]_llmVars
    /\ service # "llm" => UNCHANGED llmState
BY DEF ServicesNext, OthersStay, servicesVars, llmVars,
       llmState, promptState, ingestState, askState, searchState, splitState,
       reconcileState, signupState, accessState, accountState

LEMMA PromptAlone ==
  [ServicesNext]_servicesVars =>
    /\ service' = service
    /\ service = "prompt" => [PromptNext]_promptVars
    /\ service # "prompt" => UNCHANGED promptState
BY DEF ServicesNext, OthersStay, servicesVars, promptVars,
       llmState, promptState, ingestState, askState, searchState, splitState,
       reconcileState, signupState, accessState, accountState

LEMMA IngestAlone ==
  [ServicesNext]_servicesVars =>
    /\ service' = service
    /\ service = "ingest" => [IngestNext]_ingestVars
    /\ service # "ingest" => UNCHANGED ingestState
BY DEF ServicesNext, OthersStay, servicesVars, ingestVars,
       llmState, promptState, ingestState, askState, searchState, splitState,
       reconcileState, signupState, accessState, accountState

LEMMA AskAlone ==
  [ServicesNext]_servicesVars =>
    /\ service' = service
    /\ service = "ask" => [AskNext]_askVars
    /\ service # "ask" => UNCHANGED askState
BY DEF ServicesNext, OthersStay, servicesVars, askVars,
       llmState, promptState, ingestState, askState, searchState, splitState,
       reconcileState, signupState, accessState, accountState

LEMMA SearchAlone ==
  [ServicesNext]_servicesVars =>
    /\ service' = service
    /\ service = "search" => [SearchNext]_searchVars
    /\ service # "search" => UNCHANGED searchState
BY DEF ServicesNext, OthersStay, servicesVars, searchVars,
       llmState, promptState, ingestState, askState, searchState, splitState,
       reconcileState, signupState, accessState, accountState

LEMMA SplitAlone ==
  [ServicesNext]_servicesVars =>
    /\ service' = service
    /\ service = "split" => [SplitNext]_splitVars
    /\ service # "split" => UNCHANGED splitState
BY DEF ServicesNext, OthersStay, servicesVars, splitVars,
       llmState, promptState, ingestState, askState, searchState, splitState,
       reconcileState, signupState, accessState, accountState

LEMMA ReconcileAlone ==
  [ServicesNext]_servicesVars =>
    /\ service' = service
    /\ service = "reconcile" => [ReconcileNext]_reconcileVars
    /\ service # "reconcile" => UNCHANGED reconcileState
BY DEF ServicesNext, OthersStay, servicesVars, reconcileVars,
       llmState, promptState, ingestState, askState, searchState, splitState,
       reconcileState, signupState, accessState, accountState

LEMMA SignupAlone ==
  [ServicesNext]_servicesVars =>
    /\ service' = service
    /\ service = "signup" => [SignupNext]_signupVars
    /\ service # "signup" => UNCHANGED signupState
BY DEF ServicesNext, OthersStay, servicesVars, signupVars,
       llmState, promptState, ingestState, askState, searchState, splitState,
       reconcileState, signupState, accessState, accountState

LEMMA AccessAlone ==
  [ServicesNext]_servicesVars =>
    /\ service' = service
    /\ service = "access" => [AccessNext]_accessVars
    /\ service # "access" => UNCHANGED accessState
BY DEF ServicesNext, OthersStay, servicesVars, accessVars,
       llmState, promptState, ingestState, askState, searchState, splitState,
       reconcileState, signupState, accessState, accountState

LEMMA AccountsAlone ==
  [ServicesNext]_servicesVars =>
    /\ service' = service
    /\ service = "account" => [AccountsNext]_accountsVars
    /\ service # "account" => UNCHANGED accountState
BY DEF ServicesNext, OthersStay, servicesVars, accountsVars,
       llmState, promptState, ingestState, askState, searchState, splitState,
       reconcileState, signupState, accessState, accountState

-----------------------------------------------------------------------------
(* Faults are counted and never forgotten                                  *)

Counted == callFaults' \in {callFaults, callFaults + 1}

LEMMA LlmCounts == LlmNext => Counted
BY DEF Counted, CallFault, LlmNext, LlmTick, StartStream, CheckBreaker,
       CheckBreakerThrows, ModelCompletes, ModelFails, LoadState,
       LoadStateThrows, SaveSuccess, SaveFailure, SaveThrows, SaveState, Track,
       TrackThrows, ExpireBreaker

LEMMA PromptCounts == PromptNext => Counted
BY DEF Counted, CallFault, PromptNext, ListVersions, FindTarget,
       DeactivateActive, DeleteVersion, PersistTemplate, SwitchOff, SwitchOn,
       PromptStops

LEMMA IngestCounts == IngestNext => Counted
BY DEF Counted, JobFault, IngestNext, Upload, Enqueue, EnqueueThrows,
       RemoveChunks, RemoveDocument, RemoveThrows, TakeJob, FindById,
       PrepareThrows, DeleteByDocumentId, Upsert, UpsertThrows, MarkProcessed,
       MarkFailed, RunThrows, Stall, WorkerDies

LEMMA AskCounts == AskNext => Counted
BY DEF Counted, CallFault, AskNext, OpenSession, CreateSession, ReadHistory,
       SearchDocs, LlmCacheGet, FindSimilar, StreamAnswer, SetWithTtl,
       StoreSemantic, Collect, GenerateCritique, UpdateSession, AskBreaks,
       DeleteSession, ExpireCaches

LEMMA ReconcileCounts == ReconcileNext => Counted
BY DEF Counted, CallFault, ReconcileNext, PgTick, ProcessRestarts,
       SetTransaction, ZAdd, Settle, StartReconcile, ListTransactions,
       EndReconcile, CheckTransaction

LEMMA SignupCounts == SignupNext => Counted
BY DEF Counted, JobFault, SignupNext, CountByEmail, PersistUser, AddMailJob,
       AnswerSignup, SignupStops, RemoveAdminUser, TakeMailJob, SendMail, CompleteMailJob,
       FailMailJob, StallMailJob

LEMMA AccessCounts == AccessNext => Counted
BY DEF Counted, CallFault, AccessNext, SignUp, ActivateAdminUser, AdminLogin,
       UpdatePasswordByEmail, SoftDeleteById, AccessStops, SignIn,
       ChangePassword, FindRemoved, TokenExpires

LEMMA AccountsCounts == AccountsNext => Counted
BY DEF Counted, CallFault, AccountsNext, Login, Register, PersistAccount,
       SetSession, AnswerLogin, LoginStops, SessionExpires

LEMMA ServicesCount == [ServicesNext]_servicesVars => Counted
BY LlmCounts, PromptCounts, IngestCounts, AskCounts, ReconcileCounts, SignupCounts, AccessCounts,
   AccountsCounts DEF ServicesNext, OthersStay, servicesVars, Counted

LEMMA FaultsAreNatural == ServicesSpec => [](callFaults \in Nat)
<1>1. ServicesInit => callFaults \in Nat
  BY DEF ServicesInit, LlmInit
<1>2. callFaults \in Nat /\ [ServicesNext]_servicesVars => (callFaults \in Nat)'
  BY ServicesCount DEF Counted
<1> QED
  BY <1>1, <1>2, PTL DEF ServicesSpec

-----------------------------------------------------------------------------
(* The service of a behaviour implements its specification                 *)

LEMMA LlmBehaves == ServicesSpec => (service = "llm" => LlmSpec)
<1>1. ServicesInit /\ service = "llm" => LlmInit
  BY DEF ServicesInit
<1>2. [ServicesNext]_servicesVars /\ service = "llm" =>
        [LlmNext]_llmVars /\ (service = "llm")'
  BY LlmAlone
<1> QED
  BY <1>1, <1>2, PTL DEF ServicesSpec, LlmSpec

LEMMA PromptBehaves == ServicesSpec => (service = "prompt" => PromptSpec)
<1>1. ServicesInit /\ service = "prompt" => PromptInit
  BY DEF ServicesInit
<1>2. [ServicesNext]_servicesVars /\ service = "prompt" =>
        [PromptNext]_promptVars /\ (service = "prompt")'
  BY PromptAlone
<1> QED
  BY <1>1, <1>2, PTL DEF ServicesSpec, PromptSpec

LEMMA IngestBehaves == ServicesSpec => (service = "ingest" => IngestSpec)
<1>1. ServicesInit /\ service = "ingest" => IngestInit
  BY DEF ServicesInit
<1>2. [ServicesNext]_servicesVars /\ service = "ingest" =>
        [IngestNext]_ingestVars /\ (service = "ingest")'
  BY IngestAlone
<1> QED
  BY <1>1, <1>2, PTL DEF ServicesSpec, IngestSpec

LEMMA AskBehaves == ServicesSpec => (service = "ask" => AskSpec)
<1>1. ServicesInit /\ service = "ask" => AskInit
  BY DEF ServicesInit
<1>2. [ServicesNext]_servicesVars /\ service = "ask" =>
        [AskNext]_askVars /\ (service = "ask")'
  BY AskAlone
<1> QED
  BY <1>1, <1>2, PTL DEF ServicesSpec, AskSpec

LEMMA SearchBehaves == ServicesSpec => (service = "search" => SearchSpec)
<1>1. ServicesInit /\ service = "search" => SearchInit
  BY DEF ServicesInit
<1>2. [ServicesNext]_servicesVars /\ service = "search" =>
        [SearchNext]_searchVars /\ (service = "search")'
  BY SearchAlone
<1> QED
  BY <1>1, <1>2, PTL DEF ServicesSpec, SearchSpec

LEMMA SplitBehaves == ServicesSpec => (service = "split" => SplitSpec)
<1>1. ServicesInit /\ service = "split" => SplitInit
  BY DEF ServicesInit
<1>2. [ServicesNext]_servicesVars /\ service = "split" =>
        [SplitNext]_splitVars /\ (service = "split")'
  BY SplitAlone
<1> QED
  BY <1>1, <1>2, PTL DEF ServicesSpec, SplitSpec

LEMMA ReconcileBehaves == ServicesSpec => (service = "reconcile" => ReconcileSpec)
<1>1. ServicesInit /\ service = "reconcile" => ReconcileInit
  BY DEF ServicesInit
<1>2. [ServicesNext]_servicesVars /\ service = "reconcile" =>
        [ReconcileNext]_reconcileVars /\ (service = "reconcile")'
  BY ReconcileAlone
<1> QED
  BY <1>1, <1>2, PTL DEF ServicesSpec, ReconcileSpec

LEMMA SignupBehaves == ServicesSpec => (service = "signup" => SignupSpec)
<1>1. ServicesInit /\ service = "signup" => SignupInit
  BY DEF ServicesInit
<1>2. [ServicesNext]_servicesVars /\ service = "signup" =>
        [SignupNext]_signupVars /\ (service = "signup")'
  BY SignupAlone
<1> QED
  BY <1>1, <1>2, PTL DEF ServicesSpec, SignupSpec

LEMMA AccessBehaves == ServicesSpec => (service = "access" => AccessSpec)
<1>1. ServicesInit /\ service = "access" => AccessInit
  BY DEF ServicesInit
<1>2. [ServicesNext]_servicesVars /\ service = "access" =>
        [AccessNext]_accessVars /\ (service = "access")'
  BY AccessAlone
<1> QED
  BY <1>1, <1>2, PTL DEF ServicesSpec, AccessSpec

LEMMA AccountsBehaves == ServicesSpec => (service = "account" => AccountsSpec)
<1>1. ServicesInit /\ service = "account" => AccountsInit
  BY DEF ServicesInit
<1>2. [ServicesNext]_servicesVars /\ service = "account" =>
        [AccountsNext]_accountsVars /\ (service = "account")'
  BY AccountsAlone
<1> QED
  BY <1>1, <1>2, PTL DEF ServicesSpec, AccountsSpec

\* Side by side, the services do nothing that they do not do alone: a behaviour in which
\* one of them is chosen is a behaviour of that service, whatever the others' actions are.
THEOREM ServicesBehave ==
  ServicesSpec =>
    /\ service = "llm" => LlmSpec
    /\ service = "prompt" => PromptSpec
    /\ service = "ingest" => IngestSpec
    /\ service = "ask" => AskSpec
    /\ service = "search" => SearchSpec
    /\ service = "split" => SplitSpec
    /\ service = "reconcile" => ReconcileSpec
    /\ service = "signup" => SignupSpec
    /\ service = "access" => AccessSpec
    /\ service = "account" => AccountsSpec
BY LlmBehaves, PromptBehaves, IngestBehaves, AskBehaves, SearchBehaves, SplitBehaves,
   ReconcileBehaves, SignupBehaves, AccessBehaves, AccountsBehaves

-----------------------------------------------------------------------------
(* The other services stay as they began, and so keep their properties     *)

LlmAtRest == breaker = [m \in Models |-> Create] /\ stream = [c \in Calls |-> Call("idle", <<>>)]

LEMMA LlmKeeps ==
  ServicesSpec => []((service = "llm" => LlmTypeOK) /\ BreakerOpensAfterFailures /\ AnswerEndsWhole)
<1>1. ServicesInit => LlmAtRest
  BY DEF ServicesInit, LlmInit, LlmAtRest
<1>2. LlmAtRest /\ [ServicesNext]_servicesVars /\ ~(service = "llm") =>
        LlmAtRest' /\ (~(service = "llm"))'
  BY LlmAlone DEF LlmAtRest, llmState
<1>3. LlmAtRest => BreakerOpensAfterFailures /\ AnswerEndsWhole
  BY DEF LlmAtRest, BreakerOpensAfterFailures, AnswerEndsWhole, Create, Call
<1> QED
  BY <1>1, <1>2, <1>3, LlmBehaves, LlmTypeCorrect, BreakerIsDeserved, AnswersEndWhole, PTL DEF ServicesSpec

PromptAtRest == templates = {}

LEMMA PromptKeeps ==
  ServicesSpec => []((service = "prompt" => PromptTypeOK) /\ VersionsUnique /\ OneActivePerOwner)
<1>1. ServicesInit => PromptAtRest
  BY DEF ServicesInit, PromptInit, PromptAtRest
<1>2. PromptAtRest /\ [ServicesNext]_servicesVars /\ ~(service = "prompt") =>
        PromptAtRest' /\ (~(service = "prompt"))'
  BY PromptAlone DEF PromptAtRest, promptState
<1>3. PromptAtRest => VersionsUnique /\ OneActivePerOwner
  BY DEF PromptAtRest, VersionsUnique, OneActivePerOwner
<1> QED
  BY <1>1, <1>2, <1>3, PromptBehaves, PromptTypeCorrect, NumbersStayUnique, ActivationIsExclusive,
     PTL DEF ServicesSpec

IngestAtRest == document = [d \in Documents |-> "none"] /\ chunks = [k \in Keys |-> {}]

LEMMA IngestKeeps ==
  ServicesSpec => []((service = "ingest" => IngestTypeOK) /\ OrphansOnlyByRace /\ ProcessedHasAllChunks)
<1>1. ServicesInit => IngestAtRest
  BY DEF ServicesInit, IngestInit, IngestAtRest
<1>2. IngestAtRest /\ [ServicesNext]_servicesVars /\ ~(service = "ingest") =>
        IngestAtRest' /\ (~(service = "ingest"))'
  BY IngestAlone DEF IngestAtRest, ingestState
<1>3. IngestAtRest => OrphansOnlyByRace /\ ProcessedHasAllChunks
  BY DEF IngestAtRest, OrphansOnlyByRace, ProcessedHasAllChunks
<1> QED
  BY <1>1, <1>2, <1>3, IngestBehaves, IngestTypeCorrect, RemovalLeavesNoChunks, ProcessedIsWhole,
     PTL DEF ServicesSpec

AskAtRest == ask = [c \in Calls |-> Ask("idle", "none", "none", <<>>, {})]

LEMMA AskKeeps ==
  ServicesSpec => []((service = "ask" => AskTypeOK) /\ AnswersKept)
<1>1. ServicesInit => AskAtRest
  BY DEF ServicesInit, AskInit, AskAtRest
<1>2. AskAtRest /\ [ServicesNext]_servicesVars /\ ~(service = "ask") =>
        AskAtRest' /\ (~(service = "ask"))'
  BY AskAlone DEF AskAtRest, askState
<1>3. AskAtRest => AnswersKept
  BY DEF AskAtRest, AnswersKept, Ask, TurnsKept, AnswerFitsSources
<1> QED
  BY <1>1, <1>2, <1>3, AskBehaves, AnswersAreKept, PTL DEF ServicesSpec

SearchAtRest == search = Search("done", 0)

LEMMA SearchKeeps ==
  ServicesSpec => [](/\ service = "search" => SearchTypeOK
                     /\ FusedByReciprocalRanks /\ NeighboursFollowHits /\ SourcesOfPrompt)
<1>1. ServicesInit /\ ~(service = "search") => SearchAtRest
  BY DEF ServicesInit, SearchAtRest
<1>2. SearchAtRest /\ [ServicesNext]_servicesVars /\ ~(service = "search") =>
        SearchAtRest' /\ (~(service = "search"))'
  BY SearchAlone DEF SearchAtRest, searchState
<1>3. SearchAtRest => FusedByReciprocalRanks /\ NeighboursFollowHits /\ SourcesOfPrompt
  <2>1. Search("done", 0).pc = "done"
    BY DEF Search
  <2> QED
    BY <2>1 DEF SearchAtRest, FusedByReciprocalRanks, NeighboursFollowHits, SourcesOfPrompt
<1> QED
  BY <1>1, <1>2, <1>3, SearchBehaves, SearchIsDefined, PTL DEF ServicesSpec

SplitAtRest == split = Split("placed", NoText, <<>>, <<>>, <<>>)

LEMMA SplitKeeps ==
  ServicesSpec => []((service = "split" => SplitTypeOK) /\ SplitIsWhole /\ OffsetsNotLate)
<1>1. ServicesInit /\ ~(service = "split") => SplitAtRest
  BY DEF ServicesInit, SplitAtRest
<1>2. SplitAtRest /\ [ServicesNext]_servicesVars /\ ~(service = "split") =>
        SplitAtRest' /\ (~(service = "split"))'
  BY SplitAlone DEF SplitAtRest, splitState
<1>3. SplitAtRest => SplitIsWhole /\ OffsetsNotLate
  <2>1. ASSUME SplitAtRest PROVE split.pc = "placed" /\ split.parents = <<>>
    BY <2>1 DEF SplitAtRest, Split
  <2>2. DOMAIN <<>> = {}
    OBVIOUS
  <2> QED
    BY <2>1, <2>2 DEF SplitIsWhole, OffsetsNotLate
<1> QED
  BY <1>1, <1>2, <1>3, SplitBehaves, SplitIsDefined, PTL DEF ServicesSpec

ReconcileAtRest == pg = [t \in Transactions |-> [state |-> "none", score |-> 0]]

LEMMA ReconcileKeeps ==
  ServicesSpec => []((service = "reconcile" => ReconcileTypeOK) /\ UnsettledIsReported)
<1>1. ServicesInit => ReconcileAtRest
  BY DEF ServicesInit, ReconcileInit, ReconcileAtRest
<1>2. ReconcileAtRest /\ [ServicesNext]_servicesVars /\ ~(service = "reconcile") =>
        ReconcileAtRest' /\ (~(service = "reconcile"))'
  BY ReconcileAlone DEF ReconcileAtRest, reconcileState
<1>3. ReconcileAtRest => UnsettledIsReported
  BY DEF ReconcileAtRest, UnsettledIsReported
<1> QED
  BY <1>1, <1>2, <1>3, ReconcileBehaves, ReconcileTypeCorrect, ReconcileReports, PTL DEF ServicesSpec

SignupAtRest == users = <<>>

LEMMA SignupKeeps ==
  ServicesSpec => []((service = "signup" => SignupTypeOK) /\ SignupMailed)
<1>1. ServicesInit => SignupAtRest
  BY DEF ServicesInit, SignupInit, SignupAtRest
<1>2. SignupAtRest /\ [ServicesNext]_servicesVars /\ ~(service = "signup") =>
        SignupAtRest' /\ (~(service = "signup"))'
  BY SignupAlone DEF SignupAtRest, signupState
<1>3. SignupAtRest => SignupMailed
  BY DEF SignupAtRest, SignupMailed, Ids
<1> QED
  BY <1>1, <1>2, <1>3, SignupBehaves, SignupTypeCorrect, SignupIsMailed, PTL DEF ServicesSpec

AccessAtRest == admins = [a \in Admins |-> NoAdmin] /\ tokens = {}

LEMMA AccessKeeps ==
  ServicesSpec => []((service = "access" => AccessTypeOK) /\ CredentialsAreOwners)
<1>1. ServicesInit => AccessAtRest
  BY DEF ServicesInit, AccessInit, AccessAtRest
<1>2. AccessAtRest /\ [ServicesNext]_servicesVars /\ ~(service = "access") =>
        AccessAtRest' /\ (~(service = "access"))'
  BY AccessAlone DEF AccessAtRest, accessState
<1>3. AccessAtRest => CredentialsAreOwners
  BY DEF AccessAtRest, CredentialsAreOwners, NoAdmin, Admin
<1> QED
  BY <1>1, <1>2, <1>3, AccessBehaves, AccessTypeCorrect, CredentialsStay, PTL DEF ServicesSpec

AccountsAtRest == accounts = <<>> /\ told = {} /\ refused = {}

LEMMA AccountsKeeps ==
  ServicesSpec => []((service = "account" => AccountsTypeOK) /\ AccountsAreReached)
<1>1. ServicesInit => AccountsAtRest
  BY DEF ServicesInit, AccountsInit, AccountsAtRest
<1>2. AccountsAtRest /\ [ServicesNext]_servicesVars /\ ~(service = "account") =>
        AccountsAtRest' /\ (~(service = "account"))'
  BY AccountsAlone DEF AccountsAtRest, accountState
<1>3. AccountsAtRest /\ callFaults \in Nat => AccountsAreReached
  BY FS_EmptySet DEF AccountsAtRest, AccountsAreReached, Unreachable
<1> QED
  BY <1>1, <1>2, <1>3, AccountsBehaves, ToldAccountsAreReached, FaultsAreNatural,
     PTL DEF ServicesSpec

\* All that the theorems about the single services say, of the specification that the
\* run checks: for any numbers of calls, faults and data, whichever service is chosen.
THEOREM ServicesKeep ==
  ServicesSpec => [](/\ BreakerOpensAfterFailures /\ AnswerEndsWhole
                     /\ VersionsUnique /\ OneActivePerOwner
                     /\ OrphansOnlyByRace /\ ProcessedHasAllChunks
                     /\ AnswersKept
                     /\ UnsettledIsReported
                     /\ SignupMailed /\ CredentialsAreOwners
                     /\ AccountsAreReached)
BY LlmKeeps, PromptKeeps, IngestKeeps, AskKeeps, ReconcileKeeps, SignupKeeps, AccessKeeps,
   AccountsKeeps, PTL

\* The lists of HybridSearchUseCase, the sources of its prompt, the chunks of a document
\* and their places are what their definitions say, of the specification that the run
\* checks: for any chunks, parents, texts and sizes.
THEOREM RetrievalStays == ServicesSpec => []RetrievalIsAsDefined
<1>1. /\ FusedByReciprocalRanks /\ NeighboursFollowHits /\ SourcesOfPrompt
      /\ SplitIsWhole /\ OffsetsNotLate
      => RetrievalIsAsDefined
  BY DEF RetrievalIsAsDefined
<1> QED
  BY <1>1, SearchKeeps, SplitKeeps, PTL

ServiceNames ==
  {"llm", "prompt", "ingest", "ask", "search", "split", "reconcile", "signup", "access", "account"}

\* Every request of the service chosen is at a point of its handler and what is stored has
\* the shape of its schema, of the specification that the run checks: for any numbers of
\* calls, faults and data.
THEOREM ServicesTypeCorrect == ServicesSpec => []ServicesTypeOK
<1>1. ServicesInit => service \in ServiceNames
  BY DEF ServicesInit, ServiceNames
<1>2. service \in ServiceNames /\ [ServicesNext]_servicesVars => (service \in ServiceNames)'
  BY LlmAlone
<1>3. /\ service \in ServiceNames
      /\ service = "llm" => LlmTypeOK
      /\ service = "prompt" => PromptTypeOK
      /\ service = "ingest" => IngestTypeOK
      /\ service = "ask" => AskTypeOK
      /\ service = "search" => SearchTypeOK
      /\ service = "reconcile" => ReconcileTypeOK
      /\ service = "signup" => SignupTypeOK
      /\ service = "access" => AccessTypeOK
      /\ service = "account" => AccountsTypeOK
      /\ service = "split" => SplitTypeOK
      => ServicesTypeOK
  BY DEF ServiceNames, ServicesTypeOK
<1> QED
  BY <1>1, <1>2, <1>3, LlmKeeps, PromptKeeps, IngestKeeps, AskKeeps, SearchKeeps, SplitKeeps,
     ReconcileKeeps, SignupKeeps, AccessKeeps, AccountsKeeps, PTL DEF ServicesSpec

=============================================================================
