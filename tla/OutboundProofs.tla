--------------------------- MODULE OutboundProofs ---------------------------
(***************************************************************************)
(* Proofs about the approval gate and its notices for any fix actions,     *)
(* channels and numbers of attempts.                                       *)
(***************************************************************************)
EXTENDS Outbound, SequenceTheorems, TLAPS

-----------------------------------------------------------------------------
(***************************************************************************)
(* The notice and the records.                                             *)
(***************************************************************************)

\* Every HIGH-risk action is still to be asked for, recorded or refused.
GateTyped ==
    /\ gate \in {"request", "record", "done"}
    /\ Actions = todo \cup record \cup refused
    /\ gate = "done" => todo = {}

LogStatus == {"SUCCESS", "FAIL"}

HookTyped ==
    /\ delivery \in [Configs -> {"idle", "send", "ok", "fail"}]
    /\ attempt \in [Configs -> Nat]
    /\ log \in [Configs -> Seq(LogStatus)]
    /\ received \in [Configs -> Nat]
    /\ failures \in [Configs -> Nat]

\* Until the gate is through no channel has been served.
NotYet ==
    gate # "done" =>
        \A c \in Configs :
            /\ delivery[c] = "idle" /\ received[c] = 0 /\ failures[c] = 0
            /\ c \notin answered /\ log[c] = <<>>

GateInv == GateTyped /\ HookTyped /\ NotYet

\* The three hold in the beginning.
LEMMA GateInit == Init => GateInv
  <1> SUFFICES ASSUME Init PROVE GateInv
    OBVIOUS
  <1>1. <<>> \in Seq(LogStatus)
    OBVIOUS
  <1> QED BY <1>1 DEF Init, GateInv, GateTyped, HookTyped, NotYet

\* The log gets a row for the attempt, or none, and no other log changes.
LEMMA LogType ==
    ASSUME HookTyped, NEW c \in Configs, NEW s \in LogStatus, LogDelivery(c, s)
    PROVE  /\ log' \in [Configs -> Seq(LogStatus)]
           /\ \A d \in Configs \ {c} : log'[d] = log[d]
           /\ log'[c] \in {log[c], Append(log[c], s)}
  <1>1. log \in [Configs -> Seq(LogStatus)]
    BY DEF HookTyped
  <1>2. Append(log[c], s) \in Seq(LogStatus)
    BY <1>1, AppendProperties
  <1>3. CASE log' = [log EXCEPT ![c] = Append(log[c], s)]
    BY <1>1, <1>2, <1>3
  <1>4. CASE log' = log
    BY <1>1, <1>4
  <1> QED BY <1>3, <1>4 DEF LogDelivery

\* The loop of a delivery goes on with the next attempt or ends.
LEMMA NextAttemptType ==
    ASSUME HookTyped, NEW c \in Configs, NextAttempt(c) \/ EndDelivery(c)
    PROVE  /\ delivery' \in [Configs -> {"idle", "send", "ok", "fail"}]
           /\ attempt' \in [Configs -> Nat]
           /\ \A d \in Configs \ {c} : delivery'[d] = delivery[d] /\ attempt'[d] = attempt[d]
           /\ \/ /\ NextAttempt(c) /\ attempt[c] < MaxAttempts
                 /\ delivery'[c] = "send" /\ attempt'[c] = attempt[c] + 1
              \/ delivery'[c] = "idle"
  <1>1. /\ delivery \in [Configs -> {"idle", "send", "ok", "fail"}]
        /\ attempt \in [Configs -> Nat]
    BY DEF HookTyped
  <1>2. CASE EndDelivery(c)
    BY <1>1, <1>2 DEF EndDelivery
  <1>3. CASE /\ NextAttempt(c) /\ attempt[c] < MaxAttempts
             /\ delivery' = [delivery EXCEPT ![c] = "send"]
             /\ attempt' = [attempt EXCEPT ![c] = attempt[c] + 1]
    BY <1>1, <1>3
  <1> QED BY <1>2, <1>3 DEF NextAttempt

\* A sent request is answered 2xx, or it is a failure that may have arrived.
LEMMA SendType ==
    ASSUME HookTyped, NEW c \in Configs, Send(c)
    PROVE  /\ delivery' \in [Configs -> {"idle", "send", "ok", "fail"}]
           /\ received' \in [Configs -> Nat] /\ failures' \in [Configs -> Nat]
           /\ \A d \in Configs \ {c} :
                 /\ delivery'[d] = delivery[d] /\ received'[d] = received[d]
                 /\ failures'[d] = failures[d] /\ (d \in answered' <=> d \in answered)
           /\ \/ /\ delivery'[c] = "ok" /\ received'[c] = received[c] + 1
                 /\ failures'[c] = failures[c] /\ c \in answered'
              \/ /\ delivery'[c] = "fail" /\ received'[c] \in {received[c], received[c] + 1}
                 /\ failures'[c] = failures[c] + 1 /\ answered' = answered
  <1>1. /\ delivery \in [Configs -> {"idle", "send", "ok", "fail"}]
        /\ received \in [Configs -> Nat] /\ failures \in [Configs -> Nat]
    BY DEF HookTyped
  <1>2. CASE /\ received' = [received EXCEPT ![c] = received[c] + 1]
             /\ answered' = answered \cup {c}
             /\ delivery' = [delivery EXCEPT ![c] = "ok"]
             /\ failures' = failures
    BY <1>1, <1>2
  <1>3. ASSUME NEW n \in {0, 1},
               received' = [received EXCEPT ![c] = received[c] + n],
               failures' = [failures EXCEPT ![c] = failures[c] + 1],
               delivery' = [delivery EXCEPT ![c] = "fail"],
               answered' = answered
        PROVE  /\ delivery' \in [Configs -> {"idle", "send", "ok", "fail"}]
               /\ received' \in [Configs -> Nat] /\ failures' \in [Configs -> Nat]
               /\ \A d \in Configs \ {c} :
                     /\ delivery'[d] = delivery[d] /\ received'[d] = received[d]
                     /\ failures'[d] = failures[d] /\ (d \in answered' <=> d \in answered)
               /\ delivery'[c] = "fail" /\ received'[c] \in {received[c], received[c] + 1}
               /\ failures'[c] = failures[c] + 1
    BY <1>1, <1>3
  <1> QED BY <1>2, <1>3 DEF Send

\* The steps of a delivery leave the gate alone and happen when it is done.
LEMMA DeliverStep ==
    ASSUME GateInv, NEW c \in Configs, Deliver(c)
    PROVE  GateInv'
  <1> USE DEF GateInv
  <1>1. gate = "done"
    BY DEF Deliver, BuildFails, Send, Succeed, Retry, NotYet
  <1>2. UNCHANGED <<gate, todo, record, refused>>
    BY DEF Deliver, BuildFails, Send, Succeed, Retry, gateVars
  <1>3. GateTyped' /\ NotYet'
    BY <1>1, <1>2 DEF GateTyped, NotYet
  <1>4. CASE Send(c)
    <2>1. attempt' = attempt /\ log' = log
      BY <1>4 DEF Send
    <2> QED BY <1>3, <1>4, <2>1, SendType DEF HookTyped
  <1>5. CASE Succeed(c) \/ Retry(c)
    <2>1. log' \in [Configs -> Seq(LogStatus)]
      BY <1>5, LogType DEF Succeed, Retry, LogStatus
    <2>2. received' = received /\ failures' = failures
      BY <1>5 DEF Succeed, Retry, seen
    <2> QED BY <1>3, <1>5, <2>1, <2>2, NextAttemptType DEF HookTyped, Succeed, Retry
  <1>6. CASE BuildFails(c)
    <2>1. log' = log /\ received' = received
      BY <1>6 DEF BuildFails
    <2>2. failures' \in [Configs -> Nat]
      BY <1>6 DEF BuildFails, HookTyped
    <2> QED BY <1>3, <1>6, <2>1, <2>2, NextAttemptType DEF HookTyped, BuildFails
  <1> QED BY <1>4, <1>5, <1>6 DEF Deliver

\* Every step keeps the invariant of the gate.
LEMMA GateStep == GateInv /\ [Next]_vars => GateInv'
  <1> SUFFICES ASSUME GateInv, [Next]_vars PROVE GateInv'
    OBVIOUS
  <1> USE DEF GateInv
  <1>1. CASE Notify
    <2>1. /\ delivery' \in [Configs -> {"idle", "send", "ok", "fail"}]
          /\ attempt' \in [Configs -> Nat]
      BY <1>1 DEF Notify, Launch, HookTyped
    <2>2. /\ log' = log /\ received' = received /\ failures' = failures
          /\ todo' = todo /\ record' = record /\ refused' = refused
          /\ gate' = "done" /\ todo = {}
      BY <1>1 DEF Notify, Launch, seen
    <2> QED BY <2>1, <2>2 DEF GateTyped, HookTyped, NotYet
  <1>2. ASSUME NEW a \in Actions, NOOPRequestApproval(a) \/ RequestApproval(a)
        PROVE  GateInv'
    BY <1>2
    DEF NOOPRequestApproval, RequestApproval, Skip, GateTyped, HookTyped, NotYet,
        hookVars, seen
  <1>3. ASSUME NEW a \in Actions, PersistRecord(a) PROVE GateInv'
    BY <1>3 DEF PersistRecord, GateTyped, HookTyped, NotYet, hookVars, seen
  <1>4. CASE Restart
    BY <1>4 DEF Restart, GateTyped, HookTyped, NotYet, seen
  <1>5. CASE UNCHANGED vars
    BY <1>5 DEF vars, gateVars, hookVars, seen, GateTyped, HookTyped, NotYet
  <1> QED
    BY <1>1, <1>2, <1>3, <1>4, <1>5, DeliverStep DEF Next, Gate

\* Who is notified finds the request: when a channel has the notice, every
\* HIGH-risk action has its record or asking for it failed.
THEOREM OutboundNoticeFindsRequest == Spec => []NoticeFindsRequest
  <1>1. GateInv => NoticeFindsRequest
    BY DEF GateInv, GateTyped, HookTyped, NotYet, NoticeFindsRequest
  <1> QED BY <1>1, GateInit, GateStep, PTL DEF Spec

-----------------------------------------------------------------------------
(***************************************************************************)
(* Copies of the notice, attempts and the log of deliveries.               *)
(***************************************************************************)

NoSuccess(s) == \A i \in DOMAIN s : s[i] # "SUCCESS"

\* A SUCCESS among the rows of channel c is the last one and was answered.
TrueLog(c) ==
    \A i \in DOMAIN log[c] : log[c][i] = "SUCCESS" => i = Len(log[c]) /\ c \in answered

\* What is at the end of a log after a row, and what was there before.
LEMMA SuccessAppend ==
    ASSUME NEW s \in Seq(LogStatus), NEW x \in LogStatus, NoSuccess(s)
    PROVE  /\ Len(Append(s, x)) = Len(s) + 1
           /\ x = "FAIL" => NoSuccess(Append(s, x))
           /\ \A i \in DOMAIN Append(s, x) :
                 Append(s, x)[i] = "SUCCESS" => i = Len(Append(s, x))
  <1>1. /\ Append(s, x) \in Seq(LogStatus)
        /\ Len(Append(s, x)) = Len(s) + 1 /\ Len(s) \in Nat
        /\ \A i \in 1..Len(s) : Append(s, x)[i] = s[i]
        /\ Append(s, x)[Len(s) + 1] = x
    BY AppendProperties
  <1>2. DOMAIN s = 1..Len(s) /\ DOMAIN Append(s, x) = 1..(Len(s) + 1)
    BY <1>1
  <1>3. \A i \in 1..(Len(s) + 1) : i \in 1..Len(s) \/ i = Len(s) + 1
    BY <1>1
  <1> QED BY <1>1, <1>2, <1>3 DEF NoSuccess

\* While a delivery runs its attempts are the failed ones and the present one;
\* every earlier one is in the log at most once.
Paid(c) ==
    /\ received[c] <= failures[c] + Answers(c)
    /\ delivery[c] = "send" =>
          /\ c \notin answered /\ NoSuccess(log[c])
          /\ failures[c] + 1 = attempt[c] /\ attempt[c] <= MaxAttempts
          /\ Len(log[c]) <= failures[c]
    /\ delivery[c] = "ok" =>
          /\ c \in answered /\ NoSuccess(log[c])
          /\ failures[c] + 1 = attempt[c] /\ attempt[c] <= MaxAttempts
          /\ Len(log[c]) <= failures[c]
    /\ delivery[c] = "fail" =>
          /\ c \notin answered /\ NoSuccess(log[c])
          /\ failures[c] = attempt[c] /\ attempt[c] <= MaxAttempts
          /\ Len(log[c]) + 1 <= failures[c]
    /\ failures[c] + Answers(c) <= MaxAttempts
    /\ Len(log[c]) <= failures[c] + Answers(c)
    /\ TrueLog(c)

AllPaid == \A c \in Configs : Paid(c)

\* A step keeps Paid for every channel it does not touch.
LEMMA PaidFrame ==
    ASSUME NEW c \in Configs, Paid(c), delivery'[c] = delivery[c],
           received'[c] = received[c], failures'[c] = failures[c],
           attempt'[c] = attempt[c], log'[c] = log[c],
           c \in answered' <=> c \in answered
    PROVE  Paid(c)'
  BY DEF Paid, Answers, TrueLog, NoSuccess

\* The channels of a delivery step stay paid.
LEMMA DeliverPaid ==
    ASSUME GateInv, NEW c \in Configs, Paid(c), Deliver(c)
    PROVE  Paid(c)'
  <1>0. HookTyped
    BY DEF GateInv
  <1>1. /\ log[c] \in Seq(LogStatus) /\ Len(log[c]) \in Nat /\ received[c] \in Nat
        /\ failures[c] \in Nat /\ attempt[c] \in Nat /\ MaxAttempts \in Nat
    BY <1>0, OutboundAssumption DEF HookTyped
  <1>2. CASE Send(c)
    <2>1. delivery[c] = "send" /\ log' = log /\ attempt' = attempt
      BY <1>2 DEF Send
    <2>2. /\ c \notin answered /\ NoSuccess(log[c])
          /\ failures[c] + 1 = attempt[c] /\ attempt[c] <= MaxAttempts
          /\ Len(log[c]) <= failures[c] /\ received[c] <= failures[c]
      BY <1>1, <2>1 DEF Paid, Answers
    <2>3. TrueLog(c)' /\ NoSuccess(log[c])'
      BY <2>1, <2>2 DEF TrueLog, NoSuccess
    <2>4. CASE /\ delivery'[c] = "ok" /\ received'[c] = received[c] + 1
               /\ failures'[c] = failures[c] /\ c \in answered'
      <3>1. Answers(c)' = 1
        BY <2>4 DEF Answers
      <3> QED BY <1>1, <2>1, <2>2, <2>3, <2>4, <3>1 DEF Paid
    <2>5. CASE /\ delivery'[c] = "fail" /\ received'[c] \in {received[c], received[c] + 1}
               /\ failures'[c] = failures[c] + 1 /\ answered' = answered
      <3>1. Answers(c)' = 0
        BY <2>2, <2>5 DEF Answers
      <3> QED BY <1>1, <2>1, <2>2, <2>3, <2>5, <3>1 DEF Paid
    <2> QED BY <1>0, <1>2, <2>4, <2>5, SendType
  <1>3. CASE Succeed(c)
    <2>1. /\ delivery[c] = "ok" /\ LogDelivery(c, "SUCCESS") /\ delivery'[c] = "idle"
          /\ received' = received /\ failures' = failures /\ answered' = answered
      BY <1>0, <1>3 DEF Succeed, EndDelivery, seen, HookTyped
    <2>2. /\ c \in answered /\ NoSuccess(log[c]) /\ Len(log[c]) <= failures[c]
          /\ Answers(c) = 1 /\ Answers(c)' = 1
      BY <2>1 DEF Paid, Answers
    <2>3. log'[c] \in {log[c], Append(log[c], "SUCCESS")}
      BY <1>0, <2>1, LogType DEF LogStatus
    <2>4. Len(log'[c]) <= failures[c] + 1
      BY <1>1, <2>2, <2>3, SuccessAppend DEF LogStatus
    <2>5. TrueLog(c)'
      <3>1. CASE log'[c] = log[c]
        BY <2>1, <3>1 DEF Paid, TrueLog
      <3>2. CASE log'[c] = Append(log[c], "SUCCESS")
        <4>1. \A i \in DOMAIN log'[c] : log'[c][i] = "SUCCESS" => i = Len(log'[c])
          BY <1>1, <2>2, <3>2, SuccessAppend DEF LogStatus
        <4> QED BY <2>1, <2>2, <4>1 DEF TrueLog
      <3> QED BY <2>3, <3>1, <3>2
    <2>6. received[c] <= failures[c] + 1 /\ failures[c] + 1 <= MaxAttempts
      BY <2>2 DEF Paid
    <2> QED BY <2>1, <2>2, <2>4, <2>5, <2>6 DEF Paid
  <1>4. CASE Retry(c)
    <2>1. /\ delivery[c] = "fail" /\ LogDelivery(c, "FAIL") /\ NextAttempt(c)
          /\ received' = received /\ failures' = failures /\ answered' = answered
      BY <1>4 DEF Retry, seen
    <2>2. /\ c \notin answered /\ NoSuccess(log[c]) /\ Len(log[c]) + 1 <= failures[c]
          /\ failures[c] = attempt[c] /\ Answers(c) = 0 /\ Answers(c)' = 0
      BY <2>1 DEF Paid, Answers
    <2>3. log'[c] \in {log[c], Append(log[c], "FAIL")}
      BY <1>0, <2>1, LogType DEF LogStatus
    <2>4. Len(log'[c]) <= failures[c]
      BY <1>1, <2>2, <2>3, SuccessAppend DEF LogStatus
    <2>5. NoSuccess(log'[c])
      BY <1>1, <2>2, <2>3, SuccessAppend DEF LogStatus
    <2>6. received[c] <= failures[c] /\ failures[c] <= MaxAttempts
      BY <1>1, <2>2 DEF Paid
    <2>7. TrueLog(c)'
      BY <2>5 DEF TrueLog, NoSuccess
    <2>8. CASE /\ attempt[c] < MaxAttempts
               /\ delivery'[c] = "send" /\ attempt'[c] = attempt[c] + 1
      <3>1. failures[c] + 1 = attempt'[c] /\ attempt'[c] <= MaxAttempts
        BY <1>1, <2>2, <2>8
      <3> QED
        BY <1>1, <2>1, <2>2, <2>4, <2>5, <2>6, <2>7, <2>8, <3>1 DEF Paid
    <2>9. CASE delivery'[c] = "idle"
      BY <1>1, <2>1, <2>2, <2>4, <2>6, <2>7, <2>9 DEF Paid
    <2> QED BY <1>0, <2>1, <2>8, <2>9, NextAttemptType
  <1>5. CASE BuildFails(c)
    <2>1. /\ delivery[c] = "send" /\ NextAttempt(c) /\ log' = log
          /\ received' = received /\ answered' = answered
          /\ failures'[c] = failures[c] + 1
      BY <1>0, <1>5 DEF BuildFails, HookTyped
    <2>2. /\ c \notin answered /\ NoSuccess(log[c]) /\ Len(log[c]) <= failures[c]
          /\ failures[c] + 1 = attempt[c] /\ attempt[c] <= MaxAttempts
          /\ Answers(c) = 0 /\ Answers(c)' = 0
      BY <2>1 DEF Paid, Answers
    <2>3. TrueLog(c)' /\ NoSuccess(log[c])'
      BY <2>1, <2>2 DEF TrueLog, NoSuccess
    <2>4. received[c] <= failures[c]
      BY <1>1, <2>2 DEF Paid
    <2>5. CASE /\ attempt[c] < MaxAttempts
               /\ delivery'[c] = "send" /\ attempt'[c] = attempt[c] + 1
      <3>1. failures'[c] + 1 = attempt'[c] /\ attempt'[c] <= MaxAttempts
        BY <1>1, <2>1, <2>2, <2>5
      <3> QED BY <1>1, <2>1, <2>2, <2>3, <2>4, <2>5, <3>1 DEF Paid
    <2>6. CASE delivery'[c] = "idle"
      BY <1>1, <2>1, <2>2, <2>3, <2>4, <2>6 DEF Paid
    <2> QED BY <1>0, <2>1, <2>5, <2>6, NextAttemptType
  <1> QED BY <1>2, <1>3, <1>4, <1>5 DEF Deliver

\* A delivery step touches no other channel.
LEMMA DeliverOther ==
    ASSUME GateInv, AllPaid, NEW d \in Configs, Deliver(d), NEW c \in Configs \ {d}
    PROVE  Paid(c)'
  <1>0. HookTyped /\ Paid(c)
    BY DEF GateInv, AllPaid
  <1>1. CASE Send(d)
    <2>1. attempt' = attempt /\ log' = log
      BY <1>1 DEF Send
    <2> QED BY <1>0, <1>1, <2>1, SendType, PaidFrame
  <1>2. CASE Succeed(d) \/ Retry(d)
    <2>1. received' = received /\ failures' = failures /\ answered' = answered
      BY <1>2 DEF Succeed, Retry, seen
    <2>2. log'[c] = log[c]
      BY <1>0, <1>2, LogType DEF Succeed, Retry, LogStatus
    <2>3. delivery'[c] = delivery[c] /\ attempt'[c] = attempt[c]
      BY <1>0, <1>2, NextAttemptType DEF Succeed, Retry
    <2> QED BY <1>0, <2>1, <2>2, <2>3, PaidFrame
  <1>3. CASE BuildFails(d)
    <2>1. /\ log' = log /\ received' = received /\ answered' = answered
          /\ failures'[c] = failures[c]
      BY <1>0, <1>3 DEF BuildFails, HookTyped
    <2>2. delivery'[c] = delivery[c] /\ attempt'[c] = attempt[c]
      BY <1>0, <1>3, NextAttemptType DEF BuildFails
    <2> QED BY <1>0, <2>1, <2>2, PaidFrame
  <1> QED BY <1>1, <1>2, <1>3 DEF Deliver

\* Every step keeps the channels paid.
LEMMA PaidStep == GateInv /\ AllPaid /\ [Next]_vars => AllPaid'
  <1> SUFFICES ASSUME GateInv, AllPaid, [Next]_vars, NEW c \in Configs PROVE Paid(c)'
    BY DEF AllPaid
  <1>0. Paid(c)
    BY DEF AllPaid
  <1>1. CASE Notify
    <2>1. /\ delivery[c] = "idle" /\ received[c] = 0 /\ failures[c] = 0
          /\ c \notin answered /\ log[c] = <<>>
      BY <1>1 DEF Notify, GateInv, NotYet
    <2>2. /\ received' = received /\ failures' = failures /\ answered' = answered
          /\ log' = log /\ delivery'[c] \in {"idle", "send"}
          /\ delivery'[c] = "send" => attempt'[c] = 1
      BY <1>1, <2>1 DEF Notify, Launch, seen
    <2>3. NoSuccess(log[c])' /\ TrueLog(c)' /\ Len(log'[c]) = 0
      BY <2>1, <2>2 DEF NoSuccess, TrueLog
    <2>4. Answers(c)' = 0
      BY <2>1, <2>2 DEF Answers
    <2> QED BY <2>1, <2>2, <2>3, <2>4, OutboundAssumption DEF Paid
  <1>2. CASE Restart
    <2>1. /\ delivery'[c] = "idle" /\ received' = received /\ log' = log
          /\ failures' = failures /\ answered' = answered /\ attempt' = attempt
      BY <1>2 DEF Restart, seen
    <2>2. Answers(c)' = Answers(c) /\ TrueLog(c)'
      BY <1>0, <2>1 DEF Paid, Answers, TrueLog
    <2> QED BY <1>0, <2>1, <2>2 DEF Paid
  <1>3. ASSUME NEW d \in Configs, Deliver(d) PROVE Paid(c)'
    BY <1>0, <1>3, DeliverPaid, DeliverOther
  <1>4. CASE UNCHANGED hookVars
    BY <1>0, <1>4, PaidFrame DEF hookVars, seen
  <1>5. ASSUME NEW a \in Actions,
               \/ NOOPRequestApproval(a) \/ RequestApproval(a)
               \/ PersistRecord(a)
        PROVE  UNCHANGED hookVars
    BY <1>5 DEF NOOPRequestApproval, RequestApproval, PersistRecord
  <1> QED
    BY <1>1, <1>2, <1>3, <1>4, <1>5 DEF Next, Gate, vars

\* A channel gets a further copy of the notice only for an attempt the hub saw
\* fail and nothing after a 2xx answer, whatever happens to the log, which
\* claims no attempt that was not made.
THEOREM OutboundDuplicatesHaveCause == Spec => []DuplicatesHaveCause
  <1>1. Init => AllPaid
    <2> SUFFICES ASSUME Init, NEW c \in Configs PROVE Paid(c)
      BY DEF AllPaid
    <2>1. /\ delivery[c] = "idle" /\ received[c] = 0 /\ failures[c] = 0
          /\ c \notin answered /\ log[c] = <<>>
      BY DEF Init
    <2>2. Answers(c) = 0 /\ TrueLog(c) /\ Len(log[c]) = 0
      BY <2>1 DEF Answers, TrueLog
    <2> QED BY <2>1, <2>2, OutboundAssumption DEF Paid
  <1>2. AllPaid => DuplicatesHaveCause
    BY DEF AllPaid, Paid, TrueLog, DuplicatesHaveCause
  <1> QED BY <1>1, <1>2, GateInit, GateStep, PaidStep, PTL DEF Spec
=============================================================================
