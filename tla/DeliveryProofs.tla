--------------------------- MODULE DeliveryProofs ---------------------------
(***************************************************************************)
(* What the event loop commits, for every number of partitions, messages,  *)
(* stops and rebalances and every capacity of the fan-in channel.          *)
(***************************************************************************)
EXTENDS Delivery, TLAPS

-----------------------------------------------------------------------------
(* Types. *)

\* The offsets that Resume yields are offsets to read from.
LEMMA ResumeType == \A c \in Offset : Resume(c) \in 0..N
  BY DeliveryAssumption DEF Resume, Offset

LEMMA TypeInit == Init => TypeOK
  BY DeliveryAssumption
  DEF Init, TypeOK, Zero, Offset, NoMessage, Message

\* Taking from and appending to the channel.
LEMMA ChannelType ==
    ASSUME TypeOK
    PROVE  /\ msgCh # <<>> =>
                /\ Head(msgCh) \in Message /\ Tail(msgCh) \in Seq(Message)
                /\ Len(Tail(msgCh)) = Len(msgCh) - 1
                /\ Len(msgCh) \in Nat \ {0} /\ Head(msgCh) = msgCh[1]
                /\ \A i \in 1..Len(Tail(msgCh)) : Tail(msgCh)[i] = msgCh[i + 1]
           /\ \A m \in Message :
                /\ Append(msgCh, m) \in Seq(Message)
                /\ Len(Append(msgCh, m)) = Len(msgCh) + 1
                /\ Append(msgCh, m)[Len(msgCh) + 1] = m
                /\ \A i \in 1..Len(msgCh) : Append(msgCh, m)[i] = msgCh[i]
           /\ Len(msgCh) \in Nat
  BY DEF TypeOK

LEMMA TypeStep == TypeOK /\ [Next]_vars => TypeOK'
  <1> SUFFICES ASSUME TypeOK, [Next]_vars
               PROVE  TypeOK'
    OBVIOUS
  <1> USE DeliveryAssumption
  <1>1. ASSUME NEW p \in Partitions, Publish(p)
        PROVE  TypeOK'
    BY <1>1 DEF Publish, TypeOK, group, skipper, intake, bounds, record
  <1>2. ASSUME NEW p \in Partitions, Forward(p)
        PROVE  TypeOK'
    <2>1. <<p, next[p]>> \in Message
      BY <1>2 DEF Forward, TypeOK, Message
    <2>2. /\ msgCh' \in Seq(Message) /\ Len(msgCh') <= Cap
      BY <1>2, <2>1, ChannelType DEF Forward, TypeOK
    <2>3. next' \in [Partitions -> 0..N]
      BY <1>2 DEF Forward, TypeOK
    <2> QED
      BY <1>2, <2>2, <2>3 DEF Forward, TypeOK, group, skipper, bounds, record
  <1>3. ASSUME NEW p \in Partitions, PreviousRuns(p)
        PROVE  TypeOK'
    <2>1. <<p, Resume(committed[p])>> \in Message
      BY <1>3, ResumeType DEF PreviousRuns, TypeOK, Message
    <2>2. committed' \in [Partitions -> Offset]
      <3>1. Resume(committed[p]) + 1 \in Offset
        <4>1. /\ Resume(committed[p]) \in 0..N /\ end[p] \in 0..N
              /\ Resume(committed[p]) < end[p]
          BY <1>3, ResumeType DEF PreviousRuns, TypeOK
        <4> QED BY <4>1 DEF Offset
      <3> QED BY <1>3, <3>1 DEF PreviousRuns, TypeOK
    <2> QED
      BY <1>3, <2>1, <2>2
      DEF PreviousRuns, TypeOK, skipper, intake, bounds
  <1>4. CASE FetchCommitted
    BY <1>4 DEF FetchCommitted, Skipping, TypeOK, bounds
  <1>a. ASSUME NEW offsets \in [Partitions -> Offset], StartReaders(offsets)
        PROVE  /\ lpc' = "run" /\ base' \in [Partitions -> Offset]
               /\ last' \in [Partitions -> 0..N]
               /\ next' \in [Partitions -> 0..N]
    BY <1>a, ResumeType DEF StartReaders, Zero, Offset
  <1>5. CASE SkipBacklogFails
    <2>1. StartReaders(committed) /\ committed \in [Partitions -> Offset]
      BY <1>5 DEF SkipBacklogFails, TypeOK
    <2> QED
      BY <1>5, <1>a, <2>1 DEF SkipBacklogFails, Skipping, TypeOK, bounds
  <1>6. CASE ListOffsets
    <2>1. CASE Backlogged(base, end)
      BY <1>6, <2>1 DEF ListOffsets, Skipping, TypeOK, bounds
    <2>2. CASE ~Backlogged(base, end)
      <3>1. StartReaders(committed) /\ committed \in [Partitions -> Offset]
        BY <1>6, <2>2 DEF ListOffsets, TypeOK
      <3> QED
        BY <1>6, <1>a, <3>1 DEF ListOffsets, Skipping, TypeOK, bounds
    <2> QED BY <2>1, <2>2
  <1>b. ASSUME NEW ps \in SUBSET Partitions, MoveToTail(ps)
        PROVE  committed' \in [Partitions -> Offset] /\ skipped' \subseteq Message
    <2>1. \A p \in Partitions : last[p] \in Offset /\ committed[p] \in Offset
      BY DEF TypeOK, Offset
    <2> QED BY <1>b, <2>1 DEF MoveToTail, TypeOK
  <1>7. CASE CommitTailPartly
    BY <1>7, <1>b DEF CommitTailPartly, Skipping, TypeOK, bounds, skipper
  <1>8. CASE CommitTail
    <2>1. MoveToTail(Partitions) /\ StartReaders(last)
      BY <1>8 DEF CommitTail
    <2>2. last \in [Partitions -> Offset]
      BY DEF TypeOK, Offset
    <2>3. committed' \in [Partitions -> Offset] /\ skipped' \subseteq Message
      BY <1>b, <2>1
    <2> QED
      BY <1>8, <1>a, <2>1, <2>2, <2>3 DEF CommitTail, Skipping, TypeOK, bounds
  <1>9. CASE SkipTimeout
    <2>1. StartReaders(committed) /\ committed \in [Partitions -> Offset]
      BY <1>9 DEF SkipTimeout, TypeOK
    <2> QED
      BY <1>9, <1>a, <2>1 DEF SkipTimeout, Skipping, TypeOK, bounds
  <1>10. CASE Receive
    BY <1>10, ChannelType DEF Receive, Looping, TypeOK, skipper, bounds
  <1>11. CASE HandleObservation
    BY <1>11 DEF HandleObservation, Looping, TypeOK, skipper, bounds
  <1>12. CASE HandlerFails
    BY <1>12 DEF HandlerFails, Looping, TypeOK, skipper, bounds
  <1>13. CASE CommitOffset
    <2>1. cur \in Message
      BY <1>13 DEF CommitOffset, Looping, TypeOK
    <2>2. cur[1] \in Partitions /\ cur[2] + 1 \in Offset
      BY <2>1 DEF Message, Offset
    <2>3. committed' \in [Partitions -> Offset]
      BY <1>13, <2>2 DEF CommitOffset, TypeOK
    <2> QED
      BY <1>13, <2>3 DEF CommitOffset, Looping, TypeOK, skipper, bounds
  <1>14. CASE PreviousLeaves
    BY <1>14, ResumeType
    DEF PreviousLeaves, TypeOK, skipper, bounds, record
  <1>15. CASE Rebalance
    BY <1>15, ResumeType
    DEF Rebalance, TypeOK, group, skipper, record
  <1>16. CASE Stop
    <2>1. Zero \in [Partitions -> Offset] /\ Zero \in [Partitions -> 0..N]
      BY DEF Zero, Offset
    <2>2. <<>> \in Seq(Message) /\ Len(<<>>) = 0
      OBVIOUS
    <2> QED BY <1>16, <2>1, <2>2 DEF Stop, TypeOK, record
  <1>17. CASE Restart
    BY <1>17 DEF Restart, TypeOK, group, skipper, intake, bounds, record
  <1>18. CASE UNCHANGED vars
    BY <1>18 DEF vars, TypeOK, group, skipper, intake, bounds, record
  <1> QED
    BY <1>1, <1>2, <1>3, <1>4, <1>5, <1>6, <1>7, <1>8, <1>9, <1>10, <1>11,
       <1>12, <1>13, <1>14, <1>15, <1>16, <1>17, <1>18
    DEF Next, SkipStep, LoopStep

\* Every variable of the event loop's intake keeps its type; the fan-in
\* channel never holds more than its capacity.
THEOREM DeliveryTypeCorrect == Spec => []TypeOK
  BY TypeInit, TypeStep, PTL DEF Spec

-----------------------------------------------------------------------------
(***************************************************************************)
(* What is committed.  A commit is cumulative, so that it may cover only   *)
(* settled messages depends on the order in which messages pass through    *)
(* the channel: everything below a message of the channel is settled, in   *)
(* the loop's hands, or further to the front; everything below a reader's  *)
(* position is settled, in the loop's hands, or somewhere in the channel.  *)
(***************************************************************************)
InHand == IF lpc = "handle" THEN {cur} ELSE {}

CurCovered ==
    /\ lpc \in {"handle", "commit"} =>
         \A o \in 0..(cur[2] - 1) : <<cur[1], o>> \in Settled
    /\ lpc = "commit" => cur \in Settled

ChannelOrdered ==
    \A i \in 1..Len(msgCh) : \A o \in 0..(msgCh[i][2] - 1) :
        \/ <<msgCh[i][1], o>> \in Settled \cup InHand
        \/ \E j \in 1..(i - 1) : msgCh[j] = <<msgCh[i][1], o>>

NextCovered ==
    Reading =>
        \A p \in Partitions : \A o \in 0..(next[p] - 1) :
            \/ <<p, o>> \in Settled \cup InHand
            \/ \E j \in 1..Len(msgCh) : msgCh[j] = <<p, o>>

Inv ==
    /\ TypeOK /\ CommitCoversSettled
    /\ CurCovered /\ ChannelOrdered /\ NextCovered

-----------------------------------------------------------------------------
LEMMA InvInit == Init => Inv
  <1> SUFFICES ASSUME Init PROVE Inv
    OBVIOUS
  <1>1. TypeOK
    BY TypeInit
  <1>2. CommitCoversSettled
    BY DEF Init, CommitCoversSettled, Resume
  <1>3. CurCovered /\ NextCovered
    BY DEF Init, CurCovered, NextCovered, Reading
  <1>4. ChannelOrdered
    BY DEF Init, ChannelOrdered
  <1> QED BY <1>1, <1>2, <1>3, <1>4 DEF Inv

\* Steps that lose no settled message and touch neither the channel nor the
\* message in hand keep what is known of the two.
LEMMA ChannelFrame ==
    ASSUME Inv, Settled \subseteq Settled', UNCHANGED <<msgCh, cur>>,
           \/ lpc' = lpc
           \/ lpc' \notin {"handle", "commit"} /\ lpc # "handle"
    PROVE  CurCovered' /\ ChannelOrdered'
  <1>1. CurCovered'
    BY DEF Inv, CurCovered
  <1>2. InHand \subseteq InHand'
    BY DEF InHand
  <1>3. ChannelOrdered'
    BY <1>2 DEF Inv, ChannelOrdered
  <1> QED BY <1>1, <1>3

\* Readers that resume where the group is have nothing unsettled behind them.
LEMMA ResumeCovered ==
    ASSUME CommitCoversSettled',
           next' = [p \in Partitions |-> Resume(committed'[p])]
    PROVE  NextCovered'
  BY DEF CommitCoversSettled, NextCovered

LEMMA MoveToTailCovers ==
    ASSUME Inv, NEW ps \in SUBSET Partitions, MoveToTail(ps),
           UNCHANGED <<handled, failed>>
    PROVE  CommitCoversSettled' /\ Settled \subseteq Settled'
  <1>1. Settled \subseteq Settled'
    BY DEF MoveToTail, Settled
  <1>2. ASSUME NEW p \in Partitions, NEW o \in 0..(Resume(committed'[p]) - 1)
        PROVE  <<p, o>> \in Settled'
    <2>1. /\ committed[p] \in Offset /\ Resume(committed[p]) \in 0..N
          /\ last[p] \in 0..N /\ N \in Nat
      BY ResumeType, DeliveryAssumption DEF Inv, TypeOK
    <2>2. CASE o < Resume(committed[p])
      <3>1. o \in 0..(Resume(committed[p]) - 1)
        BY <2>1, <2>2
      <3> QED BY <1>1, <3>1 DEF Inv, CommitCoversSettled
    <2>3. CASE ~(o < Resume(committed[p]))
      <3>1. p \in ps
        BY <2>1, <2>3 DEF MoveToTail
      <3>2. committed'[p] = last[p]
        BY <3>1 DEF MoveToTail
      <3>3. o < last[p] /\ o \in 0..(N - 1) /\ Resume(committed[p]) <= o
        BY <2>1, <2>3, <3>2 DEF Resume
      <3>4. <<p, o>> \in Message
        BY <3>3 DEF Message
      <3>5. <<p, o>> \in skipped'
        BY <3>1, <3>3, <3>4 DEF MoveToTail
      <3> QED BY <3>5 DEF Settled
    <2> QED BY <2>2, <2>3
  <1>3. CommitCoversSettled'
    BY <1>2 DEF CommitCoversSettled
  <1> QED BY <1>1, <1>3

LEMMA InvStep == Inv /\ [Next]_vars => Inv'
  <1> SUFFICES ASSUME Inv, [Next]_vars
               PROVE  Inv'
    OBVIOUS
  <1> USE DeliveryAssumption
  <1>0. TypeOK /\ TypeOK'
    BY TypeStep DEF Inv
  <1>1. ASSUME NEW p \in Partitions, Publish(p)
        PROVE  Inv'
    <2>1. UNCHANGED <<committed, lpc, next, msgCh, cur, handled, failed, skipped>>
      BY <1>1 DEF Publish, group, intake, record
    <2>2. UNCHANGED <<Settled, Reading, InHand>>
      BY <2>1 DEF Settled, Reading, InHand
    <2>3. CommitCoversSettled'
      BY <2>1, <2>2 DEF Inv, CommitCoversSettled
    <2>4. CurCovered' /\ ChannelOrdered'
      <3>1. Settled \subseteq Settled' /\ UNCHANGED <<msgCh, cur>> /\ lpc' = lpc
        BY <2>1, <2>2
      <3> QED BY <3>1, ChannelFrame
    <2>5. NextCovered'
      BY <2>1, <2>2 DEF Inv, NextCovered
    <2> QED BY <1>0, <2>3, <2>4, <2>5 DEF Inv
  <1>2. ASSUME NEW p \in Partitions, Forward(p)
        PROVE  Inv'
    <2>1. UNCHANGED <<committed, lpc, cur, handled, failed, skipped>>
      BY <1>2 DEF Forward, group, record
    <2>2. UNCHANGED <<Settled, Reading, InHand>>
      BY <2>1 DEF Settled, Reading, InHand
    <2>3. CommitCoversSettled' /\ CurCovered'
      BY <2>1, <2>2 DEF Inv, CommitCoversSettled, CurCovered
    <2>4. /\ Reading /\ next[p] \in 0..(N - 1) /\ <<p, next[p]>> \in Message
          /\ next' = [next EXCEPT ![p] = @ + 1]
      BY <1>0, <1>2 DEF Forward, TypeOK, Message
    <2>5. /\ Len(msgCh) \in Nat /\ Len(msgCh') = Len(msgCh) + 1
          /\ msgCh'[Len(msgCh) + 1] = <<p, next[p]>>
          /\ \A i \in 1..Len(msgCh) : msgCh'[i] = msgCh[i]
      BY <1>0, <1>2, <2>4, ChannelType DEF Forward
    <2>6. ChannelOrdered'
      <3> SUFFICES ASSUME NEW i \in 1..Len(msgCh'), NEW o \in 0..(msgCh'[i][2] - 1)
                   PROVE  \/ <<msgCh'[i][1], o>> \in Settled \cup InHand
                          \/ \E j \in 1..(i - 1) : msgCh'[j] = <<msgCh'[i][1], o>>
        BY <2>2 DEF ChannelOrdered
      <3>1. CASE i \in 1..Len(msgCh)
        <4>1. msgCh'[i] = msgCh[i] /\ o \in 0..(msgCh[i][2] - 1)
          BY <2>5, <3>1
        <4>2. \A j \in 1..(i - 1) : j \in 1..Len(msgCh) /\ msgCh'[j] = msgCh[j]
          BY <2>5, <3>1
        <4> QED BY <3>1, <4>1, <4>2 DEF Inv, ChannelOrdered
      <3>2. CASE i = Len(msgCh) + 1
        <4>1. msgCh'[i][1] = p /\ o \in 0..(next[p] - 1)
          BY <2>5, <3>2
        <4>2. \/ <<p, o>> \in Settled \cup InHand
              \/ \E j \in 1..Len(msgCh) : msgCh[j] = <<p, o>>
          BY <2>4, <4>1 DEF Inv, NextCovered
        <4>3. \A j \in 1..Len(msgCh) : j \in 1..(i - 1) /\ msgCh'[j] = msgCh[j]
          BY <2>5, <3>2
        <4> QED BY <4>1, <4>2, <4>3
      <3> QED BY <2>5, <3>1, <3>2
    <2>7. NextCovered'
      <3> SUFFICES ASSUME NEW q \in Partitions, NEW o \in 0..(next'[q] - 1)
                   PROVE  \/ <<q, o>> \in Settled \cup InHand
                          \/ \E j \in 1..Len(msgCh') : msgCh'[j] = <<q, o>>
        BY <2>2 DEF NextCovered
      <3>1. \A j \in 1..Len(msgCh) : j \in 1..Len(msgCh') /\ msgCh'[j] = msgCh[j]
        BY <2>5
      <3>2. CASE o \in 0..(next[q] - 1)
        BY <2>4, <3>1, <3>2 DEF Inv, NextCovered
      <3>3. CASE q = p /\ o = next[p]
        <4>1. Len(msgCh) + 1 \in 1..Len(msgCh')
          BY <2>5
        <4> QED BY <2>5, <3>3, <4>1
      <3> QED
        <4>1. next[q] \in 0..N /\ next'[q] = IF q = p THEN next[q] + 1 ELSE next[q]
          BY <1>0, <2>4 DEF TypeOK
        <4> QED BY <3>2, <3>3, <4>1
    <2> QED BY <1>0, <2>3, <2>6, <2>7 DEF Inv
  <1>3. ASSUME NEW p \in Partitions, PreviousRuns(p)
        PROVE  Inv'
    <2>1. UNCHANGED <<lpc, next, msgCh, cur, failed, skipped>>
      BY <1>3 DEF PreviousRuns, intake
    <2>2. Settled \subseteq Settled' /\ UNCHANGED <<Reading, InHand>>
      BY <1>3, <2>1 DEF PreviousRuns, Settled, Reading, InHand
    <2>3. CommitCoversSettled'
      <3> SUFFICES ASSUME NEW q \in Partitions,
                          NEW o \in 0..(Resume(committed'[q]) - 1)
                   PROVE  <<q, o>> \in Settled'
        BY DEF CommitCoversSettled
      <3>1. /\ Resume(committed[p]) \in 0..N /\ Resume(committed[q]) \in 0..N
            /\ committed'[q] = IF q = p THEN Resume(committed[p]) + 1
                                        ELSE committed[q]
        BY <1>0, <1>3, ResumeType DEF PreviousRuns, TypeOK
      <3>2. CASE o \in 0..(Resume(committed[q]) - 1)
        BY <2>2, <3>2 DEF Inv, CommitCoversSettled
      <3>3. CASE q = p /\ o = Resume(committed[p])
        BY <1>3, <3>3 DEF PreviousRuns, Settled
      <3>4. q = p => Resume(committed'[q]) = Resume(committed[p]) + 1
        BY <3>1 DEF Resume
      <3> QED BY <3>1, <3>2, <3>3, <3>4
    <2>4. CurCovered' /\ ChannelOrdered'
      <3>1. Settled \subseteq Settled' /\ UNCHANGED <<msgCh, cur>> /\ lpc' = lpc
        BY <2>1, <2>2
      <3> QED BY <3>1, ChannelFrame
    <2>5. NextCovered'
      BY <2>1, <2>2 DEF Inv, NextCovered
    <2> QED BY <1>0, <2>3, <2>4, <2>5 DEF Inv
  <1>4. CASE FetchCommitted
    <2>1. /\ UNCHANGED <<committed, msgCh, cur, handled, failed, skipped>>
          /\ lpc = "measure" /\ lpc' = "list"
      BY <1>4 DEF FetchCommitted, Skipping
    <2>2. UNCHANGED Settled /\ ~Reading'
      BY <2>1 DEF Settled, Reading
    <2>3. CommitCoversSettled'
      BY <2>1, <2>2 DEF Inv, CommitCoversSettled
    <2>4. CurCovered' /\ ChannelOrdered'
      BY <2>1, <2>2, ChannelFrame
    <2> QED BY <1>0, <2>2, <2>3, <2>4 DEF Inv, NextCovered
  \* skipBacklogFast returns without having moved the group.
  <1>a. ASSUME StartReaders(committed), lpc \in {"measure", "list", "skip"},
               UNCHANGED <<committed, msgCh, cur, handled, failed, skipped>>
        PROVE  Inv'
    <2>1. UNCHANGED Settled
      BY <1>a DEF Settled
    <2>2. CommitCoversSettled'
      BY <1>a, <2>1 DEF Inv, CommitCoversSettled
    <2>3. CurCovered' /\ ChannelOrdered'
      BY <1>a, <2>1, ChannelFrame DEF StartReaders
    <2>4. NextCovered'
      BY <1>a, <2>2, ResumeCovered DEF StartReaders
    <2> QED BY <1>0, <2>2, <2>3, <2>4 DEF Inv
  <1>5. CASE SkipBacklogFails
    BY <1>5, <1>a DEF SkipBacklogFails, Skipping
  <1>6. CASE ListOffsets
    <2>1. CASE Backlogged(base, end)
      <3>1. /\ UNCHANGED <<committed, msgCh, cur, handled, failed, skipped>>
            /\ lpc = "list" /\ lpc' = "skip"
        BY <1>6, <2>1 DEF ListOffsets, Skipping
      <3>2. UNCHANGED Settled /\ ~Reading'
        BY <3>1 DEF Settled, Reading
      <3>3. CommitCoversSettled'
        BY <3>1, <3>2 DEF Inv, CommitCoversSettled
      <3>4. CurCovered' /\ ChannelOrdered'
        BY <3>1, <3>2, ChannelFrame
      <3> QED BY <1>0, <3>2, <3>3, <3>4 DEF Inv, NextCovered
    <2>2. CASE ~Backlogged(base, end)
      BY <1>6, <1>a, <2>2 DEF ListOffsets, Skipping
    <2> QED BY <2>1, <2>2
  <1>7. CASE CommitTailPartly
    <2>1. /\ UNCHANGED <<lpc, next, msgCh, cur, handled, failed>>
          /\ lpc = "skip" /\ \E ps \in SUBSET Partitions : MoveToTail(ps)
      BY <1>7 DEF CommitTailPartly, Skipping
    <2>2. CommitCoversSettled' /\ Settled \subseteq Settled'
      BY <2>1, MoveToTailCovers
    <2>3. CurCovered' /\ ChannelOrdered'
      BY <2>1, <2>2, ChannelFrame
    <2>4. NextCovered'
      BY <2>1 DEF NextCovered, Reading
    <2> QED BY <1>0, <2>2, <2>3, <2>4 DEF Inv
  <1>8. CASE CommitTail
    <2>1. /\ UNCHANGED <<msgCh, cur, handled, failed>>
          /\ lpc = "skip" /\ lpc' = "run" /\ MoveToTail(Partitions)
          /\ next' = [p \in Partitions |-> Resume(last[p])]
      BY <1>8 DEF CommitTail, Skipping, StartReaders
    <2>2. CommitCoversSettled' /\ Settled \subseteq Settled'
      BY <2>1, MoveToTailCovers
    <2>3. CurCovered' /\ ChannelOrdered'
      BY <2>1, <2>2, ChannelFrame
    <2>4. next' = [p \in Partitions |-> Resume(committed'[p])]
      BY <2>1 DEF MoveToTail
    <2>5. NextCovered'
      BY <2>2, <2>4, ResumeCovered
    <2> QED BY <1>0, <2>2, <2>3, <2>5 DEF Inv
  <1>9. CASE SkipTimeout
    BY <1>9, <1>a DEF SkipTimeout, Skipping
  <1>10. CASE Receive
    <2>1. /\ UNCHANGED <<committed, next, handled, failed, skipped>>
          /\ lpc = "run" /\ lpc' = "handle"
          /\ msgCh # <<>> /\ cur' = Head(msgCh) /\ msgCh' = Tail(msgCh)
      BY <1>10 DEF Receive, Looping
    <2>2. UNCHANGED Settled /\ Reading /\ InHand = {} /\ InHand' = {cur'}
      BY <2>1 DEF Settled, Reading, InHand
    <2>3. /\ Len(msgCh) \in Nat \ {0} /\ Len(msgCh') = Len(msgCh) - 1
          /\ cur' = msgCh[1]
          /\ \A i \in 1..Len(msgCh') : msgCh'[i] = msgCh[i + 1]
      BY <1>0, <2>1, ChannelType
    <2>4. CommitCoversSettled'
      BY <2>1, <2>2 DEF Inv, CommitCoversSettled
    <2>5. CurCovered'
      <3>1. 1 \in 1..Len(msgCh) /\ \A j \in 1..(1 - 1) : FALSE
        BY <2>3
      <3>2. \A o \in 0..(msgCh[1][2] - 1) : <<msgCh[1][1], o>> \in Settled
        BY <2>2, <3>1 DEF Inv, ChannelOrdered
      <3> QED BY <2>1, <2>2, <2>3, <3>2 DEF CurCovered
    \* What was in the channel is in hand or still in the channel.
    <2>6. ASSUME NEW j \in 1..Len(msgCh)
          PROVE  \/ msgCh[j] \in InHand'
                 \/ j - 1 \in 1..Len(msgCh') /\ msgCh'[j - 1] = msgCh[j]
      <3>1. CASE j = 1
        BY <2>2, <2>3, <3>1
      <3>2. CASE j # 1
        <4>1. j - 1 \in 1..Len(msgCh') /\ (j - 1) + 1 = j
          BY <2>3, <3>2
        <4> QED BY <2>3, <4>1
      <3> QED BY <3>1, <3>2
    <2>7. ChannelOrdered'
      <3> SUFFICES ASSUME NEW i \in 1..Len(msgCh'), NEW o \in 0..(msgCh'[i][2] - 1)
                   PROVE  \/ <<msgCh'[i][1], o>> \in Settled' \cup InHand'
                          \/ \E j \in 1..(i - 1) : msgCh'[j] = <<msgCh'[i][1], o>>
        BY DEF ChannelOrdered
      <3>1. /\ i + 1 \in 1..Len(msgCh) /\ msgCh'[i] = msgCh[i + 1]
            /\ (i + 1) - 1 = i /\ i \in Nat
        BY <2>3
      <3>2. \/ <<msgCh'[i][1], o>> \in Settled
            \/ \E j \in 1..i : msgCh[j] = <<msgCh'[i][1], o>>
        BY <2>2, <3>1 DEF Inv, ChannelOrdered
      <3>3. ASSUME NEW j \in 1..i, msgCh[j] = <<msgCh'[i][1], o>>
            PROVE  \/ msgCh[j] \in InHand'
                   \/ j - 1 \in 1..(i - 1) /\ msgCh'[j - 1] = msgCh[j]
        <4>1. j \in 1..Len(msgCh)
          BY <3>1
        <4> QED BY <2>6, <3>1, <4>1
      <3> QED BY <2>2, <3>2, <3>3
    <2>8. NextCovered'
      <3> SUFFICES ASSUME NEW p \in Partitions, NEW o \in 0..(next[p] - 1)
                   PROVE  \/ <<p, o>> \in Settled' \cup InHand'
                          \/ \E j \in 1..Len(msgCh') : msgCh'[j] = <<p, o>>
        BY <2>1 DEF NextCovered
      <3>1. \/ <<p, o>> \in Settled
            \/ \E j \in 1..Len(msgCh) : msgCh[j] = <<p, o>>
        BY <2>2 DEF Inv, NextCovered
      <3> QED BY <2>2, <2>6, <3>1
    <2> QED BY <1>0, <2>4, <2>5, <2>7, <2>8 DEF Inv
  \* The handler returns, with or without an error.
  <1>b. ASSUME lpc = "handle", lpc' \in {"run", "commit"},
               lpc' = "commit" => cur' = cur,
               UNCHANGED <<committed, next, msgCh>>,
               Settled' = Settled \cup {cur}
        PROVE  Inv'
    <2>1. InHand = {cur} /\ InHand' = {} /\ Reading
      BY <1>b DEF InHand, Reading
    <2>2. Settled \cup InHand \subseteq Settled' \cup InHand'
      BY <1>b, <2>1
    <2>3. CommitCoversSettled'
      BY <1>b DEF Inv, CommitCoversSettled
    <2>4. CurCovered'
      BY <1>b DEF Inv, CurCovered
    <2>5. ChannelOrdered'
      BY <1>b, <2>2 DEF Inv, ChannelOrdered
    <2>6. NextCovered'
      BY <1>b, <2>1, <2>2 DEF Inv, NextCovered
    <2> QED BY <1>0, <2>3, <2>4, <2>5, <2>6 DEF Inv
  <1>11. CASE HandleObservation
    <2>1. Settled' = Settled \cup {cur}
      BY <1>11 DEF HandleObservation, Looping, Settled
    <2> QED BY <1>11, <1>b, <2>1 DEF HandleObservation, Looping
  <1>12. CASE HandlerFails
    <2>1. Settled' = Settled \cup {cur}
      BY <1>12 DEF HandlerFails, Looping, Settled
    <2> QED BY <1>12, <1>b, <2>1 DEF HandlerFails, Looping
  <1>13. CASE CommitOffset
    <2>1. /\ UNCHANGED <<next, msgCh, handled, failed, skipped>>
          /\ lpc = "commit" /\ lpc' = "run"
          /\ committed' \in {committed, [committed EXCEPT ![cur[1]] = cur[2] + 1]}
      BY <1>13 DEF CommitOffset, Looping
    <2>2. UNCHANGED <<Settled, InHand>> /\ Reading
      BY <2>1 DEF Settled, InHand, Reading
    <2>3. CommitCoversSettled'
      <3>1. CASE committed' = committed
        BY <2>2, <3>1 DEF Inv, CommitCoversSettled
      <3>2. CASE committed' = [committed EXCEPT ![cur[1]] = cur[2] + 1]
        <4>1. /\ cur \in Partitions \X (0..(N - 1))
              /\ \A o \in 0..(cur[2] - 1) : <<cur[1], o>> \in Settled
              /\ cur \in Settled
          BY <1>0, <2>1 DEF Inv, TypeOK, CurCovered, Message
        <4>2. PICK q \in Partitions, n \in 0..(N - 1) : cur = <<q, n>>
          BY <4>1
        <4> SUFFICES ASSUME NEW p \in Partitions,
                            NEW o \in 0..(Resume(committed'[p]) - 1)
                     PROVE  <<p, o>> \in Settled
          BY <2>2 DEF CommitCoversSettled
        <4>3. CASE p = q
          <5>1. committed'[p] = n + 1
            BY <1>0, <3>2, <4>2, <4>3 DEF TypeOK
          <5>2. o \in 0..(n - 1) \/ o = n
            BY <5>1 DEF Resume
          <5> QED BY <4>1, <4>2, <4>3, <5>2
        <4>4. CASE p # q
          <5>1. committed'[p] = committed[p]
            BY <1>0, <3>2, <4>2, <4>4 DEF TypeOK
          <5> QED BY <5>1 DEF Inv, CommitCoversSettled
        <4> QED BY <4>3, <4>4
      <3> QED BY <2>1, <3>1, <3>2
    <2>4. CurCovered'
      BY <2>1 DEF CurCovered
    <2>5. ChannelOrdered'
      BY <2>1, <2>2 DEF Inv, ChannelOrdered
    <2>6. NextCovered'
      BY <2>1, <2>2 DEF Inv, NextCovered
    <2> QED BY <1>0, <2>3, <2>4, <2>5, <2>6 DEF Inv
  \* The group assigns the partitions anew.
  <1>c. ASSUME UNCHANGED <<committed, lpc, msgCh, cur, handled, failed, skipped>>,
               Reading => next' = [p \in Partitions |-> Resume(committed[p])]
        PROVE  Inv'
    <2>1. Settled \subseteq Settled' /\ UNCHANGED <<Settled, Reading>>
      BY <1>c DEF Settled, Reading
    <2>2. CommitCoversSettled'
      BY <1>c, <2>1 DEF Inv, CommitCoversSettled
    <2>3. CurCovered' /\ ChannelOrdered'
      <3>1. UNCHANGED <<msgCh, cur>> /\ lpc' = lpc
        BY <1>c
      <3> QED BY <2>1, <3>1, ChannelFrame
    <2>4. CASE Reading
      <3>1. NextCovered'
        BY <1>c, <2>2, <2>4, ResumeCovered
      <3> QED BY <1>0, <2>2, <2>3, <3>1 DEF Inv
    <2>5. CASE ~Reading
      BY <1>0, <2>1, <2>2, <2>3, <2>5 DEF Inv, NextCovered
    <2> QED BY <2>4, <2>5
  <1>14. CASE PreviousLeaves
    BY <1>14, <1>c DEF PreviousLeaves, record
  <1>15. CASE Rebalance
    BY <1>15, <1>c DEF Rebalance, group, record
  <1>16. CASE Stop
    <2>1. /\ UNCHANGED <<committed, handled, failed, skipped>>
          /\ lpc' = "down" /\ msgCh' = <<>>
      BY <1>16 DEF Stop, record
    <2>2. UNCHANGED Settled
      BY <2>1 DEF Settled
    <2>3. CommitCoversSettled'
      BY <2>1, <2>2 DEF Inv, CommitCoversSettled
    <2>4. CurCovered' /\ NextCovered'
      BY <2>1 DEF CurCovered, NextCovered, Reading
    <2>5. ChannelOrdered'
      BY <2>1 DEF ChannelOrdered
    <2> QED BY <1>0, <2>3, <2>4, <2>5 DEF Inv
  <1>17. CASE Restart
    <2>1. /\ UNCHANGED <<committed, msgCh, cur, handled, failed, skipped>>
          /\ lpc = "down" /\ lpc' = "measure"
      BY <1>17 DEF Restart, group, intake, record
    <2>2. UNCHANGED Settled
      BY <2>1 DEF Settled
    <2>3. CommitCoversSettled'
      BY <2>1, <2>2 DEF Inv, CommitCoversSettled
    <2>4. CurCovered' /\ ChannelOrdered'
      BY <2>1, <2>2, ChannelFrame
    <2>5. NextCovered'
      BY <2>1 DEF NextCovered, Reading
    <2> QED BY <1>0, <2>3, <2>4, <2>5 DEF Inv
  <1>18. CASE UNCHANGED vars
    <2>1. UNCHANGED <<committed, lpc, next, msgCh, cur, handled, failed, skipped>>
      BY <1>18 DEF vars, group, intake, record
    <2>2. UNCHANGED <<Settled, Reading, InHand>>
      BY <2>1 DEF Settled, Reading, InHand
    <2>3. CommitCoversSettled' /\ CurCovered'
      BY <2>1, <2>2 DEF Inv, CommitCoversSettled, CurCovered
    <2>4. ChannelOrdered'
      BY <2>1, <2>2 DEF Inv, ChannelOrdered
    <2>5. NextCovered'
      BY <2>1, <2>2 DEF Inv, NextCovered
    <2> QED BY <1>0, <2>3, <2>4, <2>5 DEF Inv
  <1> QED
    BY <1>1, <1>2, <1>3, <1>4, <1>5, <1>6, <1>7, <1>8, <1>9, <1>10, <1>11,
       <1>12, <1>13, <1>14, <1>15, <1>16, <1>17, <1>18
    DEF Next, SkipStep, LoopStep

\* The offsets that the event loop, the backlog skip and the instance it
\* replaces commit cover only messages that were handled, failed or were
\* skipped on purpose, with any number of partitions, stops and rebalances
\* and any capacity of the channel.
THEOREM CommitsAreCovered == Spec => []CommitCoversSettled
  <1>1. Init => Inv
    BY InvInit
  <1>2. Inv /\ [Next]_vars => Inv'
    BY InvStep
  <1>3. Inv => CommitCoversSettled
    BY DEF Inv
  <1> QED BY <1>1, <1>2, <1>3, PTL DEF Spec

-----------------------------------------------------------------------------
(***************************************************************************)
(* Fresh groups.  The decision to skip is taken from offsets that were     *)
(* read earlier; it stays right because an offset that a group has         *)
(* committed is replaced and never removed.                                *)
(***************************************************************************)
FreshInv ==
    /\ lpc = "list" => \A p \in Partitions : base[p] # -1 => committed[p] # -1
    /\ lpc = "skip" => \A p \in Partitions : committed[p] # -1

\* No step takes a committed offset away.
LEMMA OffsetsStay ==
    ASSUME TypeOK, [Next]_vars
    PROVE  \A p \in Partitions : committed[p] # -1 => committed'[p] # -1
  <1> SUFFICES ASSUME NEW p \in Partitions, committed[p] # -1
               PROVE  committed'[p] # -1
    OBVIOUS
  <1>1. CASE committed' = committed
    BY <1>1
  <1>2. CASE CommitTailPartly \/ CommitTail
    <2>1. PICK ps \in SUBSET Partitions : MoveToTail(ps)
      BY <1>2 DEF CommitTailPartly, CommitTail
    <2>2. committed'[p] = last[p] \/ committed'[p] = committed[p]
      BY <2>1 DEF MoveToTail
    <2>3. last[p] # -1
      BY DeliveryAssumption DEF TypeOK
    <2> QED BY <2>2, <2>3
  <1>3. CASE CommitOffset
    <2>1. cur[2] \in 0..(N - 1)
      BY <1>3 DEF CommitOffset, Looping, TypeOK, Message
    <2>2. cur[2] + 1 # -1
      BY <2>1, DeliveryAssumption
    <2> QED BY <1>3, <2>2 DEF CommitOffset, TypeOK
  <1>4. ASSUME NEW q \in Partitions, PreviousRuns(q)
        PROVE  committed'[p] # -1
    <2>1. Resume(committed[q]) \in 0..N
      BY ResumeType DEF TypeOK
    <2>2. Resume(committed[q]) + 1 # -1
      BY <2>1, DeliveryAssumption
    <2> QED BY <1>4, <2>2 DEF PreviousRuns, TypeOK
  <1>5. ASSUME committed' # committed
        PROVE  \/ CommitTailPartly \/ CommitTail \/ CommitOffset
               \/ \E q \in Partitions : PreviousRuns(q)
    BY <1>5
    DEF Next, vars, group, SkipStep, LoopStep, Publish, Forward, FetchCommitted,
        SkipBacklogFails, ListOffsets, SkipTimeout, Receive, HandleObservation,
        HandlerFails, PreviousLeaves, Rebalance, Stop, Restart
  <1> QED BY <1>1, <1>2, <1>3, <1>4, <1>5

\* The two positions of skipBacklogFast that FreshInv is about are entered by
\* the reading of the offsets and by the decision.
LEMMA SkipPositions ==
    ASSUME [Next]_vars
    PROVE  \/ lpc' \notin {"list", "skip"}
           \/ lpc' = lpc /\ base' = base
           \/ FetchCommitted
           \/ lpc = "list" /\ lpc' = "skip" /\ Backlogged(base, end)
  <1>1. CASE SkipStep
    BY <1>1
    DEF SkipStep, FetchCommitted, SkipBacklogFails, ListOffsets,
        CommitTailPartly, CommitTail, SkipTimeout, StartReaders, skipper
  <1>2. CASE LoopStep
    BY <1>2
    DEF LoopStep, Receive, HandleObservation, HandlerFails, CommitOffset
  <1>3. ASSUME NEW p \in Partitions, Publish(p) \/ Forward(p) \/ PreviousRuns(p)
        PROVE  lpc' = lpc /\ base' = base
    BY <1>3 DEF Publish, Forward, PreviousRuns, skipper
  <1>4. CASE PreviousLeaves \/ Rebalance
    BY <1>4 DEF PreviousLeaves, Rebalance, skipper
  <1>5. CASE Stop \/ Restart
    BY <1>5 DEF Stop, Restart
  <1>6. CASE UNCHANGED vars
    BY <1>6 DEF vars, skipper
  <1> QED BY <1>1, <1>2, <1>3, <1>4, <1>5, <1>6 DEF Next

LEMMA FreshStep == TypeOK /\ FreshInv /\ [Next]_vars => FreshInv'
  <1> SUFFICES ASSUME TypeOK, FreshInv, [Next]_vars
               PROVE  FreshInv'
    OBVIOUS
  <1>1. \A p \in Partitions : committed[p] # -1 => committed'[p] # -1
    BY OffsetsStay
  <1>2. CASE lpc' \notin {"list", "skip"}
    BY <1>2 DEF FreshInv
  <1>3. CASE lpc' = lpc /\ base' = base
    BY <1>1, <1>3 DEF FreshInv
  <1>4. CASE FetchCommitted
    BY <1>4 DEF FetchCommitted, FreshInv
  <1>5. CASE lpc = "list" /\ lpc' = "skip" /\ Backlogged(base, end)
    BY <1>1, <1>5 DEF Backlogged, FreshInv
  <1> QED BY <1>2, <1>3, <1>4, <1>5, SkipPositions

\* A partition is passed over only when the group had committed offsets for
\* all of them, also when the offsets were committed by the instance that is
\* being replaced, between the reading and the decision or after it
\* (event_loop.go:177-180).
THEOREM FreshGroupsBackfill == Spec => FreshGroupBackfills
  <1> DEFINE Kept == skipped' # skipped => \A p \in Partitions : committed[p] # -1
  <1>1. Init => FreshInv
    BY DEF Init, FreshInv
  <1>2. FreshInv /\ [Next]_vars => [Kept]_vars
    <2> SUFFICES ASSUME FreshInv, Next, skipped' # skipped
                 PROVE  \A p \in Partitions : committed[p] # -1
      OBVIOUS
    <2>1. CommitTailPartly \/ CommitTail
      BY DEF Next, SkipStep, LoopStep, Publish, Forward, PreviousRuns,
             FetchCommitted, SkipBacklogFails, ListOffsets, SkipTimeout,
             Receive, HandleObservation, HandlerFails, CommitOffset, Looping,
             PreviousLeaves, Rebalance, Stop, Restart, record
    <2>2. lpc = "skip"
      BY <2>1 DEF CommitTailPartly, CommitTail
    <2> QED BY <2>2 DEF FreshInv
  <1> QED
    BY <1>1, <1>2, FreshStep, DeliveryTypeCorrect, PTL
    DEF Spec, FreshGroupBackfills
=============================================================================
