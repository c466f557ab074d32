----------------------------- MODULE LLMProofs -----------------------------
(***************************************************************************)
(* Proofs about the rate limiter of the model client, for any number of    *)
(* callers, attempts and calls.                                            *)
(***************************************************************************)
EXTENDS LLM, FiniteSetTheorems, TLAPS

USE LLMAssumption

\* The mutex is held exactly by the callers between Lock and Reserve, and by
\* one of them at most.
Mutex ==
    /\ \A c \in Callers : pc[c] = "reserve" <=> c \in mu
    /\ \A c, d \in mu : c = d

\* The time stamp is the latest slot.
LastIsLatest == \A s \in slots : s <= lastRequest

\* What a caller computed under the mutex leads past the interval of the last
\* slot, however much time passes before it reserves.
WaitSuffices ==
    \A c \in Callers : pc[c] = "reserve" => now + wait[c] >= lastRequest + MinInterval

\* A call that has not returned has an attempt left.
AttemptLeft == \A c \in Callers : pc[c] # "idle" => attempt[c] < MaxAttempts

\* The inductive invariant.
LimiterInv == TypeOK /\ AttemptLeft /\ Mutex /\ LastIsLatest /\ WaitSuffices /\ SlotsSpaced

(***************************************************************************)
(* NewClient starts with a free mutex and no slot reserved.                *)
(***************************************************************************)
LEMMA LimiterInit == Init => LimiterInv
<1> SUFFICES ASSUME Init PROVE LimiterInv
    OBVIOUS
<1>1. TypeOK
    BY DEF Init, TypeOK
<1>2. AttemptLeft /\ Mutex /\ LastIsLatest /\ WaitSuffices /\ SlotsSpaced
    BY DEF Init, AttemptLeft, Mutex, LastIsLatest, WaitSuffices, SlotsSpaced
<1> QED
    BY <1>1, <1>2 DEF LimiterInv

(***************************************************************************)
(* Every step of a caller and of the clock keeps the types; the attempts   *)
(* of chatWithRetry stay within their bound.                               *)
(***************************************************************************)
LEMMA TypeStep ==
    ASSUME TypeOK, AttemptLeft, [Next]_vars PROVE TypeOK'
<1> USE DEF TypeOK
<1>1. CASE Tick
    BY <1>1 DEF Tick, caller
<1>2. ASSUME NEW c \in Callers, Chat(c) PROVE TypeOK'
    BY <1>2 DEF Chat, Goto
<1>3. ASSUME NEW c \in Callers, Lock(c) PROVE TypeOK'
    BY <1>3 DEF Lock, Goto
<1>4. ASSUME NEW c \in Callers, Reserve(c) PROVE TypeOK'
  <2>1. Slot(c) \in Int
    BY DEF Slot
  <2>2. lastRequest' \in Int /\ slots' \subseteq Int
    BY <1>4, <2>1 DEF Reserve
  <2>3. pc' = [pc EXCEPT ![c] = "sleep"] \/ pc' = [pc EXCEPT ![c] = "send"]
    BY <1>4 DEF Reserve, Goto
  <2>4. due' = [due EXCEPT ![c] = now + wait[c]] \/ due' = due
    BY <1>4 DEF Reserve
  <2>5. due' \in [Callers -> Int]
    BY <2>4
  <2>6. wait' \in [Callers -> Int]
    BY <1>4 DEF Reserve
  <2>7. /\ now' = now /\ mu' = mu \ {c} /\ attempt' = attempt
        /\ cancelled' = cancelled /\ calls' = calls /\ sends' = sends
    BY <1>4 DEF Reserve
  <2> QED
    BY <2>2, <2>3, <2>5, <2>6, <2>7
<1>5. ASSUME NEW c \in Callers, Wake(c) PROVE TypeOK'
    BY <1>5 DEF Wake, Goto
<1>6. ASSUME NEW c \in Callers, Abandon(c) PROVE TypeOK'
    BY <1>6 DEF Abandon, Goto
<1>7. ASSUME NEW c \in Callers, Send(c) PROVE TypeOK'
    BY <1>7 DEF Send, Goto
<1>8. ASSUME NEW c \in Callers, Answer(c) PROVE TypeOK'
    BY <1>8 DEF Answer, Goto
<1>9. ASSUME NEW c \in Callers, Fail(c) PROVE TypeOK'
  <2>1. pc' = [pc EXCEPT ![c] = "backoff"] \/ pc' = [pc EXCEPT ![c] = "idle"]
    BY <1>9 DEF Fail, Goto
  <2>2. attempt' = [attempt EXCEPT ![c] = @ + 1] /\ attempt[c] < MaxAttempts
    BY <1>9 DEF Fail, AttemptLeft
  <2>3. attempt' \in [Callers -> 0..MaxAttempts] /\ attempt'[c] = attempt[c] + 1
    BY <2>2
  <2>4. due' \in [Callers -> Int]
    <3>1. CASE attempt'[c] < MaxAttempts
      <4>1. attempt'[c] \in 1..MaxAttempts - 1
        BY <2>3, <3>1
      <4>2. now + Backoff[attempt'[c]] \in Int
        BY <4>1
      <4> QED
        BY <1>9, <3>1, <4>2 DEF Fail
    <3>2. CASE ~(attempt'[c] < MaxAttempts)
      BY <1>9, <3>2 DEF Fail
    <3> QED
      BY <3>1, <3>2
  <2>5. /\ now' = now /\ lastRequest' = lastRequest /\ mu' = mu /\ wait' = wait
        /\ cancelled' = cancelled /\ calls' = calls /\ slots' = slots /\ sends' = sends
    BY <1>9 DEF Fail
  <2> QED
    BY <2>1, <2>3, <2>4, <2>5
<1>10. ASSUME NEW c \in Callers, Cancel(c) PROVE TypeOK'
    BY <1>10 DEF Cancel
<1>11. CASE UNCHANGED vars
    BY <1>11 DEF vars, caller
<1> QED
    BY <1>1, <1>2, <1>3, <1>4, <1>5, <1>6, <1>7, <1>8, <1>9, <1>10, <1>11
    DEF Next, Running

(***************************************************************************)
(* A call backs off only while it has an attempt left, and a new call      *)
(* starts with all of them.                                                *)
(***************************************************************************)
LEMMA AttemptStep ==
    ASSUME TypeOK, AttemptLeft, [Next]_vars PROVE AttemptLeft'
<1> SUFFICES ASSUME NEW d \in Callers, pc'[d] # "idle" PROVE attempt'[d] < MaxAttempts
    BY DEF AttemptLeft
<1> USE DEF TypeOK, AttemptLeft
<1>1. CASE Tick
    BY <1>1 DEF Tick, caller
<1>2. ASSUME NEW c \in Callers, Chat(c) PROVE attempt'[d] < MaxAttempts
    BY <1>2 DEF Chat, Goto
<1>3. ASSUME NEW c \in Callers,
             Lock(c) \/ Reserve(c) \/ Wake(c) \/ Abandon(c) \/ Send(c) \/ Answer(c)
      PROVE  attempt'[d] < MaxAttempts
  <2>1. attempt' = attempt /\ pc[c] # "idle"
    BY <1>3 DEF Lock, Reserve, Wake, Abandon, Send, Answer, Sleeping
  <2>2. \E x \in {"idle", "lock", "reserve", "sleep", "send", "answer"} :
            pc' = [pc EXCEPT ![c] = x]
    BY <1>3 DEF Lock, Reserve, Wake, Abandon, Send, Answer, Goto
  <2> QED
    BY <2>1, <2>2
<1>4. ASSUME NEW c \in Callers, Fail(c) PROVE attempt'[d] < MaxAttempts
  <2>1. attempt' = [attempt EXCEPT ![c] = @ + 1]
    BY <1>4 DEF Fail
  <2>2. \/ attempt'[c] < MaxAttempts /\ pc' = [pc EXCEPT ![c] = "backoff"]
        \/ pc' = [pc EXCEPT ![c] = "idle"]
    BY <1>4 DEF Fail, Goto
  <2> QED
    BY <2>1, <2>2
<1>5. ASSUME NEW c \in Callers, Cancel(c) PROVE attempt'[d] < MaxAttempts
    BY <1>5 DEF Cancel
<1>6. CASE UNCHANGED vars
    BY <1>6 DEF vars, caller
<1> QED
    BY <1>1, <1>2, <1>3, <1>4, <1>5, <1>6 DEF Next, Running

(***************************************************************************)
(* A step that leaves the limiter alone keeps what is said about it: it    *)
(* moves no caller into or out of the section between Lock and Reserve.    *)
(***************************************************************************)
LEMMA Outside ==
    ASSUME LimiterInv, TypeOK',
           lastRequest' = lastRequest, mu' = mu, slots' = slots, wait' = wait,
           now' >= now,
           \A c \in Callers : pc'[c] = "reserve" <=> pc[c] = "reserve"
    PROVE  (Mutex /\ LastIsLatest /\ WaitSuffices /\ SlotsSpaced)'
<1>1. Mutex' /\ LastIsLatest' /\ SlotsSpaced'
    BY DEF LimiterInv, Mutex, LastIsLatest, SlotsSpaced
<1>2. WaitSuffices'
  <2> SUFFICES ASSUME NEW c \in Callers, pc'[c] = "reserve"
               PROVE  now' + wait[c] >= lastRequest + MinInterval
    BY DEF WaitSuffices
  <2>1. now + wait[c] >= lastRequest + MinInterval
    BY DEF LimiterInv, WaitSuffices
  <2>2. now \in Nat /\ now' \in Nat /\ wait[c] \in Int /\ lastRequest \in Int
    BY DEF LimiterInv, TypeOK
  <2> QED
    BY <2>1, <2>2, LLMAssumption
<1> QED
    BY <1>1, <1>2

(***************************************************************************)
(* Taking the mutex: the caller's wait reaches exactly the end of the      *)
(* interval that follows the last slot.                                    *)
(***************************************************************************)
LEMMA LockStep ==
    ASSUME LimiterInv, TypeOK', NEW c \in Callers, Lock(c)
    PROVE  (Mutex /\ LastIsLatest /\ WaitSuffices /\ SlotsSpaced)'
<1> USE DEF LimiterInv
<1>1. /\ mu = {} /\ mu' = {c} /\ pc' = [pc EXCEPT ![c] = "reserve"]
      /\ wait' = [wait EXCEPT ![c] = MinInterval - (now - lastRequest)]
      /\ now' = now /\ lastRequest' = lastRequest /\ slots' = slots
    BY DEF Lock, Goto
<1>2. Mutex'
    BY <1>1 DEF Mutex, TypeOK
<1>3. LastIsLatest' /\ SlotsSpaced'
    BY <1>1 DEF LastIsLatest, SlotsSpaced
<1>4. WaitSuffices'
  <2> SUFFICES ASSUME NEW d \in Callers, pc'[d] = "reserve"
               PROVE  now' + wait'[d] >= lastRequest' + MinInterval
    BY DEF WaitSuffices
  <2>1. d = c
    BY <1>1, <1>2 DEF Mutex
  <2> QED
    BY <1>1, <2>1 DEF TypeOK
<1> QED
    BY <1>2, <1>3, <1>4

\* A slot is a time, not before now and not before the wait is over.
LEMMA SlotType ==
    ASSUME TypeOK, NEW c \in Callers
    PROVE  Slot(c) \in Nat /\ Slot(c) >= now + wait[c] /\ Slot(c) >= now
<1>1. now \in Nat /\ wait[c] \in Int
    BY DEF TypeOK
<1>2. CASE wait[c] > 0
  <2>1. Slot(c) = now + wait[c]
    BY <1>2 DEF Slot
  <2> QED
    BY <1>1, <1>2, <2>1
<1>3. CASE ~(wait[c] > 0)
  <2>1. Slot(c) = now
    BY <1>1, <1>3 DEF Slot
  <2> QED
    BY <1>1, <1>3, <2>1
<1> QED
    BY <1>2, <1>3

(***************************************************************************)
(* Reserving: the new slot lies at least MinInterval behind every earlier  *)
(* one and becomes the time stamp.                                         *)
(***************************************************************************)
LEMMA ReserveStep ==
    ASSUME LimiterInv, TypeOK', NEW c \in Callers, Reserve(c)
    PROVE  (Mutex /\ LastIsLatest /\ WaitSuffices /\ SlotsSpaced)'
<1> USE DEF LimiterInv
<1>1. /\ pc[c] = "reserve" /\ lastRequest' = Slot(c) /\ mu' = mu \ {c}
      /\ slots' = slots \cup {Slot(c)} /\ now' = now
    BY DEF Reserve
<1>2. pc' = [pc EXCEPT ![c] = "sleep"] \/ pc' = [pc EXCEPT ![c] = "send"]
    BY DEF Reserve, Goto
<1>3. Slot(c) \in Int /\ Slot(c) >= now + wait[c]
    BY SlotType
<1>4. Slot(c) >= lastRequest + MinInterval
  <2>1. now + wait[c] >= lastRequest + MinInterval
    BY <1>1 DEF WaitSuffices
  <2>2. now \in Nat /\ wait[c] \in Int /\ lastRequest \in Int
    BY DEF TypeOK
  <2> QED
    BY <1>3, <2>1, <2>2, LLMAssumption
<1>5. \A s \in slots : Slot(c) - s >= MinInterval /\ s \in Int
  <2>1. ASSUME NEW s \in slots PROVE s \in Int /\ s <= lastRequest
    BY DEF LastIsLatest, TypeOK
  <2>2. lastRequest \in Int /\ MinInterval \in Int
    BY DEF TypeOK
  <2> QED
    BY <1>3, <1>4, <2>1, <2>2
<1>6. Mutex' /\ \A d \in Callers : pc'[d] # "reserve"
  <2>1. mu = {c}
    BY <1>1 DEF Mutex
  <2>2. mu' = {}
    BY <1>1, <2>1
  <2>3. ASSUME NEW d \in Callers PROVE pc'[d] # "reserve"
    <3>1. CASE d = c
      BY <1>2, <3>1 DEF TypeOK
    <3>2. CASE d # c
      <4>1. pc[d] # "reserve"
        BY <2>1, <3>2 DEF Mutex
      <4> QED
        BY <1>2, <3>2, <4>1 DEF TypeOK
    <3> QED
      BY <3>1, <3>2
  <2> QED
    BY <2>2, <2>3 DEF Mutex
<1>7. WaitSuffices'
    BY <1>6 DEF WaitSuffices
<1>8. LastIsLatest'
    BY <1>1, <1>3, <1>5 DEF LastIsLatest
<1>9. SlotsSpaced'
    BY <1>1, <1>3, <1>5 DEF SlotsSpaced
<1> QED
    BY <1>6, <1>7, <1>8, <1>9

(***************************************************************************)
(* Every step keeps the invariant.                                         *)
(***************************************************************************)
LEMMA LimiterNext == LimiterInv /\ [Next]_vars => LimiterInv'
<1> SUFFICES ASSUME LimiterInv, [Next]_vars PROVE LimiterInv'
    OBVIOUS
<1>0. TypeOK /\ TypeOK' /\ AttemptLeft'
    BY TypeStep, AttemptStep DEF LimiterInv
<1> DEFINE Rest == (Mutex /\ LastIsLatest /\ WaitSuffices /\ SlotsSpaced)'
<1>1. ASSUME Tick PROVE Rest
  <2>1. lastRequest' = lastRequest /\ mu' = mu /\ slots' = slots /\ wait' = wait /\ pc' = pc
        /\ now' = now + 1
    BY <1>1 DEF Tick, caller
  <2>2. now' >= now
    BY <1>0, <2>1 DEF TypeOK
  <2> QED
    BY <1>0, <2>1, <2>2, Outside
<1>2. ASSUME NEW c \in Callers, Chat(c) PROVE Rest
  <2>1. /\ lastRequest' = lastRequest /\ mu' = mu /\ slots' = slots /\ wait' = wait
        /\ now' = now /\ pc[c] = "idle" /\ pc' = [pc EXCEPT ![c] = "lock"]
    BY <1>2 DEF Chat, Goto
  <2>2. now' >= now /\ \A d \in Callers : (pc'[d] = "reserve" <=> pc[d] = "reserve")
    BY <1>0, <2>1 DEF TypeOK
  <2> QED
    BY <1>0, <2>1, <2>2, Outside
<1>3. ASSUME NEW c \in Callers, Lock(c) PROVE Rest
    BY <1>0, <1>3, LockStep
<1>4. ASSUME NEW c \in Callers, Reserve(c) PROVE Rest
    BY <1>0, <1>4, ReserveStep
<1>5. ASSUME NEW c \in Callers, Wake(c) \/ Abandon(c) PROVE Rest
  <2>1. /\ lastRequest' = lastRequest /\ mu' = mu /\ slots' = slots /\ wait' = wait
        /\ now' = now /\ pc[c] \in {"backoff", "sleep"}
        /\ \E x \in {"send", "lock", "idle"} : pc' = [pc EXCEPT ![c] = x]
    BY <1>5 DEF Wake, Abandon, Goto, Sleeping
  <2>a. PICK x \in {"send", "lock", "idle"} : pc' = [pc EXCEPT ![c] = x]
    BY <2>1
  <2>b. pc'[c] # "reserve" /\ \A d \in Callers : d # c => pc'[d] = pc[d]
    BY <1>0, <2>a DEF TypeOK
  <2>c. \A d \in Callers : (pc'[d] = "reserve" <=> pc[d] = "reserve")
    BY <2>1, <2>b
  <2>d. now' >= now
    BY <1>0, <2>1 DEF TypeOK
  <2>2. now' >= now /\ \A d \in Callers : (pc'[d] = "reserve" <=> pc[d] = "reserve")
    BY <2>c, <2>d
  <2> QED
    BY <1>0, <2>1, <2>2, Outside
<1>6. ASSUME NEW c \in Callers, Send(c) \/ Answer(c) \/ Fail(c) PROVE Rest
  <2>1. /\ lastRequest' = lastRequest /\ mu' = mu /\ slots' = slots /\ wait' = wait
        /\ now' = now /\ pc[c] \in {"send", "answer"}
        /\ \E x \in {"answer", "idle", "backoff"} : pc' = [pc EXCEPT ![c] = x]
    BY <1>6 DEF Send, Answer, Fail, Goto
  <2>a. PICK x \in {"answer", "idle", "backoff"} : pc' = [pc EXCEPT ![c] = x]
    BY <2>1
  <2>b. pc'[c] # "reserve" /\ \A d \in Callers : d # c => pc'[d] = pc[d]
    BY <1>0, <2>a DEF TypeOK
  <2>c. \A d \in Callers : (pc'[d] = "reserve" <=> pc[d] = "reserve")
    BY <2>1, <2>b
  <2>d. now' >= now
    BY <1>0, <2>1 DEF TypeOK
  <2>2. now' >= now /\ \A d \in Callers : (pc'[d] = "reserve" <=> pc[d] = "reserve")
    BY <2>c, <2>d
  <2> QED
    BY <1>0, <2>1, <2>2, Outside
<1>7. ASSUME NEW c \in Callers, Cancel(c) PROVE Rest
  <2>1. lastRequest' = lastRequest /\ mu' = mu /\ slots' = slots /\ wait' = wait /\ pc' = pc
        /\ now' = now
    BY <1>7 DEF Cancel
  <2> QED
    BY <1>0, <2>1, Outside DEF TypeOK
<1>8. ASSUME UNCHANGED vars PROVE Rest
  <2>1. lastRequest' = lastRequest /\ mu' = mu /\ slots' = slots /\ wait' = wait /\ pc' = pc
        /\ now' = now
    BY <1>8 DEF vars, caller
  <2> QED
    BY <1>0, <2>1, Outside DEF TypeOK
<1> QED
    BY <1>0, <1>1, <1>2, <1>3, <1>4, <1>5, <1>6, <1>7, <1>8 DEF Next, Running, LimiterInv

(***************************************************************************)
(* chatWithRetry's variables keep their types, and no call makes more than *)
(* MaxAttempts attempts.                                                   *)
(***************************************************************************)
THEOREM LLMTypeCorrect == Spec => []TypeOK
<1>1. LimiterInv => TypeOK
    BY DEF LimiterInv
<1> QED
    BY <1>1, LimiterInit, LimiterNext, PTL DEF Spec

(***************************************************************************)
(* The slots reserved by any number of concurrent callers of chatWithRetry *)
(* are at least MinInterval apart.                                         *)
(***************************************************************************)
THEOREM LLMSlotsSpaced == Spec => []SlotsSpaced
<1>1. LimiterInv => SlotsSpaced
    BY DEF LimiterInv
<1> QED
    BY <1>1, LimiterInit, LimiterNext, PTL DEF Spec

-----------------------------------------------------------------------------
(***************************************************************************)
(* The rate.  Slots are counted against requests: a slot is open for use   *)
(* once its time has come and nobody sleeps for it any more, and every     *)
(* request sent and every caller about to send has an open slot of its own.*)
(***************************************************************************)
AtSend == {c \in Callers : pc[c] = "send"}

Open == {s \in slots : s <= now /\ \A c \in Callers : pc[c] = "sleep" => due[c] # s}

\* Each sleeper sleeps until a reserved slot that no other sleeper waits for.
SleepersOwnSlots ==
    /\ \A c \in Callers : pc[c] = "sleep" => due[c] \in slots
    /\ \A c, d \in Callers :
          pc[c] = "sleep" /\ pc[d] = "sleep" /\ due[c] = due[d] => c = d

Paid == sends + Cardinality(AtSend) <= Cardinality(Open)

RateInv == LimiterInv /\ slots \subseteq Nat /\ SleepersOwnSlots /\ Paid

\* Natural numbers up to n lie in an interval.
LEMMA UpTo ==
    ASSUME NEW n \in Nat, NEW S, S \subseteq Nat,
           NEW O, \A s \in O : s \in S /\ s <= n
    PROVE  O \subseteq 0..n
<1> SUFFICES ASSUME NEW s \in O PROVE s \in 0..n
    OBVIOUS
<1>1. s \in Nat
    OBVIOUS
<1>2. s <= n
    OBVIOUS
<1> QED
    BY <1>1, <1>2

(***************************************************************************)
(* The sets that are counted are finite.                                   *)
(***************************************************************************)
LEMMA CountsFinite ==
    ASSUME NEW n \in Nat, NEW A \in SUBSET Callers, NEW O \in SUBSET (0..n)
    PROVE  /\ IsFiniteSet(A) /\ Cardinality(A) \in Nat
           /\ IsFiniteSet(O) /\ Cardinality(O) \in Nat
<1>1. IsFiniteSet(A)
    BY FS_Subset
<1>2. IsFiniteSet(0..n)
    BY FS_Interval
<1>3. IsFiniteSet(O)
    BY <1>2, FS_Subset
<1> QED
    BY <1>1, <1>3, FS_CardinalityType

(***************************************************************************)
(* A step in which nobody reaches or leaves the sending of a request and   *)
(* no open slot is lost.                                                   *)
(***************************************************************************)
LEMMA PaidSame ==
    ASSUME TypeOK, TypeOK', slots \subseteq Nat, slots' \subseteq Nat, Paid,
           sends' = sends, AtSend' = AtSend, Open \subseteq Open'
    PROVE  Paid'
<1>0. now \in Nat /\ now' \in Nat /\ sends \in Nat
    BY DEF TypeOK
<1>b. /\ \A s \in Open : s \in slots /\ s <= now
      /\ \A s \in Open' : s \in slots' /\ s <= now'
    BY DEF Open
<1>c. AtSend \subseteq Callers
    BY DEF AtSend
<1>a. Open \subseteq 0..now /\ Open' \subseteq 0..now' /\ AtSend \subseteq Callers
    BY <1>0, <1>b, <1>c, UpTo
<1>1. IsFiniteSet(Open') /\ Cardinality(Open') \in Nat
    BY <1>0, <1>a, CountsFinite
<1>2. Cardinality(Open) \in Nat /\ Cardinality(AtSend) \in Nat
    BY <1>0, <1>a, CountsFinite
<1>3. Cardinality(Open) <= Cardinality(Open')
    BY <1>1, FS_Subset
<1> QED
    BY <1>0, <1>1, <1>2, <1>3 DEF Paid

(***************************************************************************)
(* A caller reaches the sending of its request: its slot opens with it.    *)
(***************************************************************************)
LEMMA PaidEnter ==
    ASSUME TypeOK, TypeOK', slots \subseteq Nat, slots' \subseteq Nat, Paid,
           NEW c \in Callers, c \notin AtSend, AtSend' = AtSend \cup {c},
           NEW x, x \notin Open, Open \cup {x} \subseteq Open',
           sends' = sends
    PROVE  Paid'
<1>0. now \in Nat /\ now' \in Nat /\ sends \in Nat
    BY DEF TypeOK
<1>b. /\ \A s \in Open : s \in slots /\ s <= now
      /\ \A s \in Open' : s \in slots' /\ s <= now'
    BY DEF Open
<1>c. AtSend \subseteq Callers
    BY DEF AtSend
<1>a. Open \subseteq 0..now /\ Open' \subseteq 0..now' /\ AtSend \subseteq Callers
    BY <1>0, <1>b, <1>c, UpTo
<1>1. /\ IsFiniteSet(Open) /\ Cardinality(Open) \in Nat
      /\ IsFiniteSet(AtSend) /\ Cardinality(AtSend) \in Nat
    BY <1>0, <1>a, CountsFinite
<1>2. IsFiniteSet(Open') /\ Cardinality(Open') \in Nat
    BY <1>0, <1>a, CountsFinite
<1>3. Cardinality(Open \cup {x}) = Cardinality(Open) + 1
    BY <1>1, FS_AddElement
<1>4. Cardinality(Open \cup {x}) <= Cardinality(Open')
    BY <1>2, FS_Subset
<1>5. Cardinality(AtSend') = Cardinality(AtSend) + 1
    BY <1>1, FS_AddElement
<1> QED
    BY <1>0, <1>1, <1>2, <1>3, <1>4, <1>5 DEF Paid

(***************************************************************************)
(* A caller sends its request, or finds its context done.                  *)
(***************************************************************************)
LEMMA PaidSend ==
    ASSUME TypeOK, TypeOK', slots \subseteq Nat, slots' \subseteq Nat, Paid,
           NEW c \in AtSend, AtSend' = AtSend \ {c}, Open' = Open,
           sends' = sends \/ sends' = sends + 1
    PROVE  Paid'
<1>0. now \in Nat /\ sends \in Nat
    BY DEF TypeOK
<1>b. \A s \in Open : s \in slots /\ s <= now
    BY DEF Open
<1>c. AtSend \subseteq Callers
    BY DEF AtSend
<1>a. Open \subseteq 0..now /\ AtSend \subseteq Callers
    BY <1>0, <1>b, <1>c, UpTo
<1>1. /\ IsFiniteSet(Open) /\ Cardinality(Open) \in Nat
      /\ IsFiniteSet(AtSend) /\ Cardinality(AtSend) \in Nat
    BY <1>0, <1>a, CountsFinite
<1>2. Cardinality(AtSend') = Cardinality(AtSend) - 1
    BY <1>1, FS_RemoveElement
<1> QED
    BY <1>0, <1>1, <1>2 DEF Paid

(***************************************************************************)
(* Reserving opens the slot when there is nothing to wait for, and gives   *)
(* it to the sleeper otherwise.  It is later than every earlier slot.      *)
(***************************************************************************)
LEMMA ReserveRate ==
    ASSUME RateInv, LimiterInv', NEW c \in Callers, Reserve(c)
    PROVE  RateInv'
<1>0. TypeOK /\ TypeOK' /\ slots \subseteq Nat /\ Paid /\ SleepersOwnSlots
    BY DEF RateInv, LimiterInv
<1>1. /\ pc[c] = "reserve" /\ slots' = slots \cup {Slot(c)} /\ now' = now
      /\ sends' = sends
    BY DEF Reserve
<1>2. Slot(c) \in Nat /\ Slot(c) >= now + wait[c] /\ Slot(c) >= now
    BY <1>0, SlotType
<1>3. Slot(c) \notin slots
  <2>1. Slot(c) >= lastRequest + MinInterval
    BY <1>0, <1>1, <1>2 DEF RateInv, LimiterInv, WaitSuffices, TypeOK
  <2>2. \A s \in slots : s <= lastRequest
    BY DEF RateInv, LimiterInv, LastIsLatest
  <2> QED
    BY <1>0, <1>2, <2>1, <2>2 DEF TypeOK
<1>4. slots' \subseteq Nat
    BY <1>0, <1>1, <1>2
<1>5. c \notin AtSend
    BY <1>1 DEF AtSend
<1>6. CASE wait[c] > 0
  <2>1. /\ pc' = [pc EXCEPT ![c] = "sleep"] /\ due' = [due EXCEPT ![c] = now + wait[c]]
        /\ Slot(c) = now + wait[c]
    BY <1>6 DEF Reserve, Goto, Slot
  <2>2. /\ pc'[c] = "sleep" /\ due'[c] = Slot(c)
        /\ \A d \in Callers : d # c => pc'[d] = pc[d] /\ due'[d] = due[d]
    BY <1>0, <2>1 DEF TypeOK
  <2>3. SleepersOwnSlots'
    <3>1. \A d \in Callers : pc'[d] = "sleep" => due'[d] \in slots'
      BY <1>0, <1>1, <2>2 DEF SleepersOwnSlots
    <3>2. \A d \in Callers : d # c /\ pc'[d] = "sleep" => due'[d] # Slot(c)
      BY <1>0, <1>3, <2>2 DEF SleepersOwnSlots
    <3>3. \A d, e \in Callers :
            pc'[d] = "sleep" /\ pc'[e] = "sleep" /\ due'[d] = due'[e] => d = e
      BY <1>0, <2>2, <3>2 DEF SleepersOwnSlots
    <3> QED
      BY <3>1, <3>3 DEF SleepersOwnSlots
  <2>4. AtSend' = AtSend
    BY <1>5, <2>2 DEF AtSend
  <2>5. Open \subseteq Open'
    BY <1>1, <1>3, <2>2 DEF Open
  <2>6. Paid'
    BY <1>0, <1>1, <1>4, <2>4, <2>5, PaidSame
  <2> QED
    BY <1>4, <2>3, <2>6 DEF RateInv
<1>7. CASE ~(wait[c] > 0)
  <2>1. pc' = [pc EXCEPT ![c] = "send"] /\ due' = due /\ Slot(c) = now + 0
    BY <1>7 DEF Reserve, Goto, Slot
  <2>2. /\ pc'[c] = "send"
        /\ \A d \in Callers : d # c => pc'[d] = pc[d]
    BY <1>0, <2>1 DEF TypeOK
  <2>3. SleepersOwnSlots'
    BY <1>0, <1>1, <2>1, <2>2 DEF SleepersOwnSlots
  <2>4. AtSend' = AtSend \cup {c}
    BY <2>2 DEF AtSend
  <2>5. \A d \in Callers : pc'[d] = "sleep" => due'[d] # Slot(c)
    BY <1>0, <1>3, <2>1, <2>2 DEF SleepersOwnSlots
  <2>6. Slot(c) <= now'
    BY <1>0, <1>1, <2>1 DEF TypeOK
  <2>7. Open \cup {Slot(c)} \subseteq Open'
    BY <1>1, <2>1, <2>2, <2>5, <2>6 DEF Open
  <2>8. Slot(c) \notin Open
    BY <1>3 DEF Open
  <2>9. Paid'
    BY <1>0, <1>1, <1>4, <1>5, <2>4, <2>7, <2>8, PaidEnter
  <2> QED
    BY <1>4, <2>3, <2>9 DEF RateInv
<1> QED
    BY <1>6, <1>7

(***************************************************************************)
(* A sleeper wakes at its slot, which opens, or gives its slot up.         *)
(***************************************************************************)
LEMMA SleepEnds ==
    ASSUME RateInv, LimiterInv', NEW c \in Callers, Wake(c) \/ Abandon(c)
    PROVE  RateInv'
<1>0. TypeOK /\ TypeOK' /\ slots \subseteq Nat /\ Paid /\ SleepersOwnSlots
    BY DEF RateInv, LimiterInv
<1>1. /\ slots' = slots /\ now' = now /\ sends' = sends
      /\ due' = [due EXCEPT ![c] = 0] /\ pc[c] \in {"backoff", "sleep"}
      /\ \E x \in {"send", "lock", "idle"} : pc' = [pc EXCEPT ![c] = x]
    BY DEF Wake, Abandon, Goto, Sleeping
<1>2. /\ pc'[c] # "sleep"
      /\ \A d \in Callers : d # c => pc'[d] = pc[d] /\ due'[d] = due[d]
    BY <1>0, <1>1 DEF TypeOK
<1>3. SleepersOwnSlots'
    BY <1>0, <1>1, <1>2 DEF SleepersOwnSlots
<1>4. slots' \subseteq Nat
    BY <1>0, <1>1
<1>5. Open \subseteq Open'
    BY <1>1, <1>2 DEF Open
<1>6. c \notin AtSend
    BY <1>1 DEF AtSend
<1>7. CASE pc'[c] = "send"
  <2>1. pc[c] = "sleep" /\ now >= due[c]
    BY <1>0, <1>1, <1>7 DEF Wake, Abandon, Goto, Sleeping, TypeOK
  <2>2. AtSend' = AtSend \cup {c}
    BY <1>2, <1>7 DEF AtSend
  <2>3. due[c] \in slots /\ due[c] <= now
    BY <1>0, <2>1 DEF SleepersOwnSlots, TypeOK
  <2>4. due[c] \notin Open
    BY <2>1 DEF Open
  <2>5. \A d \in Callers : pc'[d] = "sleep" => due'[d] # due[c]
    BY <1>0, <1>2, <2>1 DEF SleepersOwnSlots
  <2>6. Open \cup {due[c]} \subseteq Open'
    BY <1>1, <1>5, <2>3, <2>5 DEF Open
  <2>7. Paid'
    BY <1>0, <1>1, <1>4, <1>6, <2>2, <2>4, <2>6, PaidEnter
  <2> QED
    BY <1>3, <1>4, <2>7 DEF RateInv
<1>8. CASE pc'[c] # "send"
  <2>1. AtSend' = AtSend
    BY <1>2, <1>6, <1>8 DEF AtSend
  <2>2. Paid'
    BY <1>0, <1>1, <1>4, <1>5, <2>1, PaidSame
  <2> QED
    BY <1>3, <1>4, <2>2 DEF RateInv
<1> QED
    BY <1>7, <1>8

(***************************************************************************)
(* A caller sends.                                                         *)
(***************************************************************************)
LEMMA SendRate ==
    ASSUME RateInv, LimiterInv', NEW c \in Callers, Send(c)
    PROVE  RateInv'
<1>0. TypeOK /\ TypeOK' /\ slots \subseteq Nat /\ Paid /\ SleepersOwnSlots
    BY DEF RateInv, LimiterInv
<1>1. /\ slots' = slots /\ now' = now /\ due' = due /\ pc[c] = "send"
      /\ pc' = [pc EXCEPT ![c] = "answer"]
      /\ sends' = sends \/ sends' = sends + 1
    BY DEF Send, Goto
<1>2. /\ pc'[c] = "answer"
      /\ \A d \in Callers : d # c => pc'[d] = pc[d]
    BY <1>0, <1>1 DEF TypeOK
<1>3. SleepersOwnSlots'
    BY <1>0, <1>1, <1>2 DEF SleepersOwnSlots
<1>4. slots' \subseteq Nat
    BY <1>0, <1>1
<1>5. c \in AtSend /\ AtSend' = AtSend \ {c}
    BY <1>1, <1>2 DEF AtSend
<1>6. Open' = Open
    BY <1>1, <1>2 DEF Open
<1>7. Paid'
    BY <1>0, <1>1, <1>4, <1>5, <1>6, PaidSend
<1> QED
    BY <1>3, <1>4, <1>7 DEF RateInv

(***************************************************************************)
(* The other steps leave slots, sleepers and senders alone.                *)
(***************************************************************************)
LEMMA OtherRate ==
    ASSUME RateInv, LimiterInv',
           slots' = slots, sends' = sends, now' = now \/ now' = now + 1,
           \A c \in Callers :
              /\ pc'[c] = "send" <=> pc[c] = "send"
              /\ pc'[c] = "sleep" <=> pc[c] = "sleep"
              /\ pc[c] = "sleep" => due'[c] = due[c]
    PROVE  RateInv'
<1>0. TypeOK /\ TypeOK' /\ slots \subseteq Nat /\ Paid /\ SleepersOwnSlots
    BY DEF RateInv, LimiterInv
<1>1. SleepersOwnSlots'
    BY <1>0 DEF SleepersOwnSlots
<1>2. AtSend' = AtSend
    BY DEF AtSend
<1>3. \A s \in slots : s <= now => s <= now'
    BY <1>0 DEF TypeOK
<1>4. Open \subseteq Open'
    BY <1>3 DEF Open
<1>5. slots' \subseteq Nat
    BY <1>0
<1>6. Paid'
    BY <1>0, <1>2, <1>4, <1>5, PaidSame
<1> QED
    BY <1>1, <1>5, <1>6 DEF RateInv

(***************************************************************************)
(* The counting holds throughout.                                          *)
(***************************************************************************)
LEMMA RateInit == Init => RateInv
<1> SUFFICES ASSUME Init PROVE RateInv
    OBVIOUS
<1>1. LimiterInv
    BY LimiterInit
<1>2. slots \subseteq Nat /\ SleepersOwnSlots
    BY DEF Init, SleepersOwnSlots
<1>3. AtSend = {} /\ Open = {} /\ sends = 0
    BY DEF Init, AtSend, Open
<1>4. Paid
    BY <1>3, FS_EmptySet DEF Paid
<1> QED
    BY <1>1, <1>2, <1>4 DEF RateInv

LEMMA RateNext == RateInv /\ [Next]_vars => RateInv'
<1> SUFFICES ASSUME RateInv, [Next]_vars PROVE RateInv'
    OBVIOUS
<1>0. LimiterInv' /\ TypeOK
    BY LimiterNext DEF RateInv, LimiterInv
<1>1. CASE Tick \/ UNCHANGED vars
  <2>1. /\ slots' = slots /\ sends' = sends /\ pc' = pc /\ due' = due
        /\ now' = now \/ now' = now + 1
    BY <1>1 DEF Tick, vars, caller
  <2> QED
    BY <1>0, <2>1, OtherRate
<1>2. ASSUME NEW c \in Callers, Cancel(c) PROVE RateInv'
  <2>1. /\ slots' = slots /\ sends' = sends /\ pc' = pc /\ due' = due /\ now' = now
    BY <1>2 DEF Cancel
  <2> QED
    BY <1>0, <2>1, OtherRate
<1>3. ASSUME NEW c \in Callers, Chat(c) \/ Lock(c) \/ Answer(c) \/ Fail(c)
      PROVE  RateInv'
  <2>1. /\ slots' = slots /\ sends' = sends /\ now' = now
        /\ pc[c] \in {"idle", "lock", "answer"}
        /\ \E x \in {"lock", "reserve", "idle", "backoff"} : pc' = [pc EXCEPT ![c] = x]
    BY <1>3 DEF Chat, Lock, Answer, Fail, Goto
  <2>2. due' = due \/ \E t : due' = [due EXCEPT ![c] = t]
    BY <1>3 DEF Chat, Lock, Answer, Fail
  <2>3. \A d \in Callers : d # c => due'[d] = due[d]
    BY <1>0, <2>2 DEF TypeOK
  <2>4. \A d \in Callers : /\ pc'[d] = "send" <=> pc[d] = "send"
                           /\ pc'[d] = "sleep" <=> pc[d] = "sleep"
    BY <1>0, <2>1 DEF TypeOK
  <2>5. \A d \in Callers : pc[d] = "sleep" => due'[d] = due[d]
    BY <2>1, <2>3
  <2> QED
    BY <1>0, <2>1, <2>4, <2>5, OtherRate
<1>4. ASSUME NEW c \in Callers, Reserve(c) \/ Wake(c) \/ Abandon(c) \/ Send(c)
      PROVE  RateInv'
    BY <1>0, <1>4, ReserveRate, SleepEnds, SendRate
<1> QED
    BY <1>1, <1>2, <1>3, <1>4 DEF Next, Running

(***************************************************************************)
(* Numbers of a set that are a distance m apart lie in different multiples *)
(* of m, of which there are n \div m + 1 up to n.                          *)
(***************************************************************************)
LEMMA SpacedCount ==
    ASSUME NEW n \in Nat, NEW m \in Nat \ {0}, NEW S, S \subseteq 0..n,
           \A s, t \in S : s < t => t - s >= m
    PROVE  Cardinality(S) * m <= n + m
<1> DEFINE T == 0..(n \div m)
           f == [s \in S |-> s \div m]
<1>1. \A s \in Nat : /\ s \div m \in Nat /\ (s \div m) * m \in Nat
                     /\ (s \div m) * m <= s /\ s < (s \div m) * m + m
    OBVIOUS
<1>2. ASSUME NEW s \in S PROVE s \div m \in T
  <2>1. s \in Nat /\ s <= n
    OBVIOUS
  <2>2. ASSUME s \div m >= (n \div m) + 1 PROVE FALSE
    <3>1. (s \div m) * m >= (n \div m) * m + m
      BY <1>1, <2>1, <2>2
    <3> QED
      BY <1>1, <2>1, <3>1
  <2> QED
    BY <1>1, <2>1, <2>2
<1>3. ASSUME NEW s \in S, NEW t \in S, s # t, s \div m = t \div m PROVE FALSE
  <2>1. PICK z \in Nat : z = (s \div m) * m /\ z = (t \div m) * m
    BY <1>1, <1>3
  <2>2. z <= s /\ s < z + m /\ z <= t /\ t < z + m
    BY <1>1, <2>1
  <2>3. s < t \/ t < s
    BY <1>3
  <2>4. s - t >= m \/ t - s >= m
    BY <2>3
  <2> QED
    BY <2>2, <2>4
<1>4. f \in Injection(S, T)
    BY <1>2, <1>3 DEF Injection, IsInjective
<1>5. PICK q \in Nat : q = n \div m /\ q * m <= n /\ q * m \in Nat
    BY <1>1
<1>6. IsFiniteSet(T) /\ Cardinality(T) = q + 1
  <2>1. T = 0..q
    BY <1>5
  <2>2. IsFiniteSet(0..q) /\ Cardinality(0..q) = q + 1
    BY FS_Interval
  <2> HIDE DEF T
  <2> QED
    BY <2>1, <2>2
<1> HIDE DEF T, f
<1>7. IsFiniteSet(S) /\ Cardinality(S) <= q + 1
    BY <1>4, <1>6, FS_Injection
<1>8. Cardinality(S) \in Nat
    BY <1>7, FS_CardinalityType
<1>10. Cardinality(S) * m <= (q + 1) * m
    BY <1>7, <1>8
<1>11. (q + 1) * m = q * m + m
    OBVIOUS
<1>12. Cardinality(S) * m \in Nat
    BY <1>8
<1> QED
    BY <1>5, <1>10, <1>11, <1>12

(***************************************************************************)
(* The rate limit of chatWithRetry, for any number of concurrent callers,  *)
(* retries and cancelled contexts: at any moment the client has sent at    *)
(* most one request per interval that has begun.                           *)
(***************************************************************************)
THEOREM LLMRateBound == Spec => []RateBound
<1>1. RateInv => RateBound
  <2> SUFFICES ASSUME RateInv PROVE RateBound
    OBVIOUS
  <2>1. TypeOK /\ slots \subseteq Nat /\ SlotsSpaced /\ Paid
    BY DEF RateInv, LimiterInv
  <2>a. now \in Nat /\ sends \in Nat
    BY <2>1 DEF TypeOK
  <2>c. \A s \in Open : s \in slots /\ s <= now
    BY DEF Open
  <2>d. AtSend \subseteq Callers
    BY DEF AtSend
  <2>b. Open \subseteq 0..now /\ AtSend \subseteq Callers
    BY <2>1, <2>a, <2>c, <2>d, UpTo
  <2>2. Cardinality(Open) \in Nat /\ Cardinality(AtSend) \in Nat
    BY <2>a, <2>b, CountsFinite
  <2>3. sends <= Cardinality(Open)
    BY <2>1, <2>2, <2>a DEF Paid
  <2>4. \A s, t \in Open : s < t => t - s >= MinInterval
    BY <2>1 DEF Open, SlotsSpaced
  <2>5. Cardinality(Open) * MinInterval <= now + MinInterval
    BY <2>a, <2>b, <2>4, SpacedCount
  <2>6. ASSUME NEW k \in Nat, sends <= k
        PROVE  sends * MinInterval <= k * MinInterval
    BY <2>a, <2>6
  <2>7. /\ sends * MinInterval \in Nat /\ Cardinality(Open) * MinInterval \in Nat
        /\ now + MinInterval \in Nat
    BY <2>a, <2>2
  <2>8. sends * MinInterval <= Cardinality(Open) * MinInterval
    BY <2>2, <2>3, <2>6
  <2> QED
    BY <2>5, <2>7, <2>8 DEF RateBound
<1> QED
    BY <1>1, RateInit, RateNext, PTL DEF Spec
=============================================================================
