------------------------ MODULE AgentConsumerProofs ------------------------
(***************************************************************************)
(* What an agent's group commits, for every length of the topic, capacity  *)
(* of the channel, number of attempts, stops and rebalances.               *)
(***************************************************************************)
EXTENDS AgentConsumer, FiniteSetTheorems, TLAPS

-----------------------------------------------------------------------------
(***************************************************************************)
(* Types.  TypeOK alone is not inductive: a message that a goroutine works *)
(* on is an offset of the topic, and an attempt is left while one is made. *)
(***************************************************************************)
TypeInv ==
    /\ TypeOK
    /\ fpc \in {"send", "commit"} => held \in Offsets
    /\ rpc \in {"handle", "publish"} => cur \in Offsets /\ tries < MaxTries

LEMMA TypeInit == Init => TypeInv
  <1> SUFFICES ASSUME Init PROVE TypeInv
    OBVIOUS
  <1>1. /\ 0 \in 0..N /\ 1 \in 1..(N + 1) /\ 0 \in 0..MaxTries
        /\ <<>> \in Seq(Offsets) /\ Len(<<>>) = 0 /\ 0 <= Cap
    BY ConsumerAssumption
  <1>2. TypeOK
    BY <1>1 DEF Init, TypeOK
  <1> QED BY <1>2 DEF Init, TypeInv

\* Taking from and appending to the channel.
LEMMA ChannelType ==
    ASSUME TypeInv
    PROVE  /\ Len(chan) \in Nat
           /\ chan # <<>> =>
                /\ Head(chan) \in Offsets /\ Tail(chan) \in Seq(Offsets)
                /\ Len(chan) \in Nat \ {0} /\ Len(Tail(chan)) = Len(chan) - 1
                /\ Head(chan) = chan[1]
                /\ \A i \in 1..Len(Tail(chan)) : Tail(chan)[i] = chan[i + 1]
           /\ \A o \in Offsets :
                /\ Append(chan, o) \in Seq(Offsets)
                /\ Len(Append(chan, o)) = Len(chan) + 1
                /\ Append(chan, o)[Len(chan) + 1] = o
                /\ \A i \in 1..Len(chan) : Append(chan, o)[i] = chan[i]
  BY DEF TypeInv, TypeOK

LEMMA MemoryType ==
    ASSUME TypeInv
    PROVE  Memory \subseteq Offsets
  <1>1. InChan \subseteq Offsets
    BY DEF TypeInv, TypeOK, InChan
  <1> QED BY <1>1 DEF Memory, TypeInv

LEMMA TypeStep == TypeInv /\ [Next]_vars => TypeInv'
  <1> SUFFICES ASSUME TypeInv, [Next]_vars
               PROVE  TypeInv'
    OBVIOUS
  <1> USE ConsumerAssumption
  <1>1. CASE Publish
    BY <1>1 DEF Publish, TypeInv, TypeOK, reader, runner, lifetime, record
  <1>2. CASE FetchMessage
    <2>1. next \in Offsets /\ next + 1 \in 1..(N + 1) /\ next \in 0..N
      BY <1>2 DEF FetchMessage, TypeInv, TypeOK, Offsets
    <2> QED
      BY <1>2, <2>1
      DEF FetchMessage, Forwarding, TypeInv, TypeOK, runner, lifetime, record
  <1>3. CASE Forward
    <2>1. chan' \in Seq(Offsets) /\ Len(chan') <= Cap
      BY <1>3, ChannelType DEF Forward, Forwarding, TypeInv, TypeOK
    <2> QED
      BY <1>3, <2>1
      DEF Forward, Forwarding, TypeInv, TypeOK, runner, lifetime, record
  <1>4. CASE CommitMessages
    BY <1>4
    DEF CommitMessages, Forwarding, TypeInv, TypeOK, Offsets, runner, lifetime,
        record
  <1>5. CASE StopForwarding
    BY <1>5 DEF StopForwarding, TypeInv, TypeOK, runner, lifetime, record
  <1>6. CASE Messages
    BY <1>6 DEF Messages, Running, TypeInv, TypeOK, lifetime
  <1>7. CASE Receive
    <2>1. /\ cur' \in Offsets /\ chan' \in Seq(Offsets) /\ Len(chan') <= Cap
          /\ cur' \in 0..N
      BY <1>7, ChannelType DEF Receive, TypeInv, TypeOK, Offsets
    <2> QED BY <1>7, <2>1 DEF Receive, Running, TypeInv, TypeOK, lifetime
  <1>a. ASSUME Finish, rpc \in {"handle", "publish"}
        PROVE  done' \subseteq Offsets
    BY <1>a DEF Finish, TypeInv, TypeOK
  <1>8. CASE Handle
    <2>1. CASE Finish
      BY <1>8, <1>a, <2>1 DEF Handle, Finish, Running, TypeInv, TypeOK, lifetime
    <2>2. CASE rpc' = "publish" /\ UNCHANGED <<chan, cur, done>>
      BY <1>8, <2>2 DEF Handle, Running, TypeInv, TypeOK, lifetime
    <2> QED BY <1>8, <2>1, <2>2 DEF Handle
  <1>9. CASE PublishWithRetry
    <2>1. /\ tries' \in 0..MaxTries
          /\ \/ Finish
             \/ tries' # MaxTries /\ UNCHANGED <<rpc, chan, cur, done>>
      BY <1>9 DEF PublishWithRetry, Running, TypeInv, TypeOK
    <2>2. CASE Finish
      BY <1>9, <1>a, <2>1, <2>2
      DEF PublishWithRetry, Finish, Running, TypeInv, TypeOK, lifetime
    <2>3. CASE tries' # MaxTries /\ UNCHANGED <<rpc, chan, cur, done>>
      BY <1>9, <2>1, <2>3
      DEF PublishWithRetry, Running, TypeInv, TypeOK, lifetime
    <2> QED BY <2>1, <2>2, <2>3
  <1>10. CASE StopRunning
    BY <1>10 DEF StopRunning, TypeInv, TypeOK, reader, lifetime, record
  <1>11. CASE Terminate
    BY <1>11 DEF Terminate, TypeInv, TypeOK, reader, runner, record
  <1>b. CASE ProcessEnds
    <2>1. <<>> \in Seq(Offsets) /\ Len(<<>>) = 0
      OBVIOUS
    <2>2. dropped' \subseteq Offsets
      BY <1>b, MemoryType DEF ProcessEnds, TypeInv, TypeOK
    <2> QED BY <1>b, <2>1, <2>2 DEF ProcessEnds, TypeInv, TypeOK
  <1>12. CASE Exit
    BY <1>12, <1>b DEF Exit
  <1>13. CASE Crash
    BY <1>13, <1>b DEF Crash
  <1>14. CASE Restart
    <2>1. /\ 0 \in 0..N /\ committed + 1 \in 1..(N + 1) /\ 0 \in 0..MaxTries
      BY DEF TypeInv, TypeOK
    <2>2. TypeOK'
      BY <1>14, <2>1 DEF Restart, TypeInv, TypeOK, record
    <2> QED BY <1>14, <2>2 DEF Restart, TypeInv
  <1>15. CASE Rebalance
    BY <1>15 DEF Rebalance, TypeInv, TypeOK, runner, record
  <1>16. CASE UNCHANGED vars
    BY <1>16 DEF vars, TypeInv, TypeOK, reader, runner, lifetime, record
  <1> QED
    BY <1>1, <1>2, <1>3, <1>4, <1>5, <1>6, <1>7, <1>8, <1>9, <1>10, <1>11,
       <1>12, <1>13, <1>14, <1>15, <1>16
    DEF Next, ForwarderStep, RunnerStep

\* The variables of an agent's reader and runner keep their types: the channel
\* never holds more than its capacity and publishWithRetry never makes more
\* than its attempts.
THEOREM ConsumerTypeCorrect == Spec => []TypeOK
  <1>1. TypeInv => TypeOK
    BY DEF TypeInv
  <1> QED BY <1>1, TypeInit, TypeStep, PTL DEF Spec

-----------------------------------------------------------------------------
(***************************************************************************)
(* What is committed.  A message is safe when it is finished, lost with a  *)
(* process, in the channel, or in the runner's hands; the one that the     *)
(* forwarding goroutine holds is not, because the goroutine drops it when  *)
(* the context is done.  Everything committed, everything below the        *)
(* message in the goroutine's hands and everything that the reader has     *)
(* passed is safe.                                                         *)
(***************************************************************************)
Safe == done \cup dropped \cup InChan
             \cup (IF rpc \in {"handle", "publish"} THEN {cur} ELSE {})

CommittedSafe == \A o \in 1..committed : o \in Safe

HeldSafe ==
    /\ fpc \in {"send", "commit"} => \A o \in 1..(held - 1) : o \in Safe
    /\ fpc = "commit" => held \in Safe

PassedSafe ==
    fpc # "exited" =>
        \A o \in 1..(next - 1) : o \in Safe \/ (fpc = "send" /\ o = held)

Inv == TypeInv /\ CommittedSafe /\ HeldSafe /\ PassedSafe

-----------------------------------------------------------------------------
LEMMA InvInit == Init => Inv
  <1> SUFFICES ASSUME Init PROVE Inv
    OBVIOUS
  <1>1. TypeInv
    BY TypeInit
  <1>2. CommittedSafe /\ HeldSafe /\ PassedSafe
    BY DEF Init, CommittedSafe, HeldSafe, PassedSafe
  <1> QED BY <1>1, <1>2 DEF Inv

\* A step of the runner or of the environment that loses no safe message.
LEMMA SafeGrows ==
    ASSUME Inv, TypeInv', Safe \subseteq Safe',
           UNCHANGED <<committed, next, fpc, held>>
    PROVE  Inv'
  <1>1. CommittedSafe' /\ HeldSafe' /\ PassedSafe'
    BY DEF Inv, CommittedSafe, HeldSafe, PassedSafe
  <1> QED BY <1>1 DEF Inv

LEMMA InvStep == Inv /\ [Next]_vars => Inv'
  <1> SUFFICES ASSUME Inv, [Next]_vars
               PROVE  Inv'
    OBVIOUS
  <1> USE ConsumerAssumption
  <1>0. TypeInv /\ TypeInv'
    BY TypeStep DEF Inv
  <1>n. committed \in 0..N /\ next \in 1..(N + 1) /\ held \in 0..N
    BY <1>0 DEF TypeInv, TypeOK
  <1>1. CASE Publish
    <2>1. UNCHANGED <<committed, next, fpc, held, chan, rpc, cur, done, dropped>>
      BY <1>1 DEF Publish, reader, runner, record
    <2>2. Safe \subseteq Safe'
      BY <2>1 DEF Safe, InChan
    <2> QED BY <1>0, <2>1, <2>2, SafeGrows
  <1>2. CASE FetchMessage
    <2>1. /\ UNCHANGED <<committed, chan, rpc, cur, done, dropped>>
          /\ fpc = "fetch" /\ fpc' = "send" /\ held' = next /\ next' = next + 1
      BY <1>2 DEF FetchMessage, Forwarding, runner, record
    <2>2. Safe' = Safe
      BY <2>1 DEF Safe, InChan
    <2>3. \A o \in 1..(next - 1) : o \in Safe
      BY <2>1 DEF Inv, PassedSafe
    <2>4. CommittedSafe'
      BY <2>1, <2>2 DEF Inv, CommittedSafe
    <2>5. HeldSafe'
      BY <2>1, <2>2, <2>3 DEF HeldSafe
    <2>6. \A o \in 1..(next' - 1) : o \in 1..(next - 1) \/ o = next
      BY <1>n, <2>1
    <2>7. PassedSafe'
      BY <2>1, <2>2, <2>3, <2>6 DEF PassedSafe
    <2> QED BY <1>0, <2>4, <2>5, <2>7 DEF Inv
  <1>3. CASE Forward
    <2>1. /\ UNCHANGED <<committed, next, held, rpc, cur, done, dropped>>
          /\ fpc = "send" /\ fpc' = "commit" /\ chan' = Append(chan, held)
          /\ held \in Offsets
      BY <1>0, <1>3 DEF Forward, Forwarding, runner, record, TypeInv
    <2>2. InChan \subseteq InChan' /\ held \in InChan'
      <3>1. /\ Len(chan) \in Nat /\ Len(chan') = Len(chan) + 1
            /\ chan'[Len(chan) + 1] = held
            /\ \A i \in 1..Len(chan) : chan'[i] = chan[i]
        BY <1>0, <2>1, ChannelType
      <3>2. /\ Len(chan) + 1 \in 1..Len(chan')
            /\ \A i \in 1..Len(chan) : i \in 1..Len(chan')
        BY <3>1
      <3> QED BY <3>1, <3>2 DEF InChan
    <2>3. Safe \subseteq Safe' /\ held \in Safe'
      BY <2>1, <2>2 DEF Safe
    <2>4. CommittedSafe'
      BY <2>1, <2>3 DEF Inv, CommittedSafe
    <2>5. HeldSafe'
      BY <2>1, <2>3 DEF Inv, HeldSafe
    <2>6. PassedSafe'
      BY <2>1, <2>3 DEF Inv, PassedSafe
    <2> QED BY <1>0, <2>4, <2>5, <2>6 DEF Inv
  <1>4. CASE CommitMessages
    <2>1. /\ UNCHANGED <<next, held, chan, rpc, cur, done, dropped>>
          /\ fpc = "commit" /\ fpc' = "fetch" /\ committed' \in {held, committed}
      BY <1>4 DEF CommitMessages, Forwarding, runner, record
    <2>2. Safe' = Safe
      BY <2>1 DEF Safe, InChan
    <2>3. \A o \in 1..held : o \in 1..(held - 1) \/ o = held
      BY <1>n
    <2>4. CommittedSafe'
      BY <2>1, <2>2, <2>3 DEF Inv, CommittedSafe, HeldSafe
    <2>5. HeldSafe' /\ PassedSafe'
      BY <2>1, <2>2 DEF Inv, HeldSafe, PassedSafe
    <2> QED BY <1>0, <2>4, <2>5 DEF Inv
  <1>5. CASE StopForwarding
    <2>1. /\ UNCHANGED <<committed, chan, rpc, cur, done, dropped>>
          /\ fpc' = "exited"
      BY <1>5 DEF StopForwarding, runner, record
    <2>2. Safe' = Safe
      BY <2>1 DEF Safe, InChan
    <2>3. CommittedSafe' /\ HeldSafe' /\ PassedSafe'
      BY <2>1, <2>2 DEF Inv, CommittedSafe, HeldSafe, PassedSafe
    <2> QED BY <1>0, <2>3 DEF Inv
  <1>6. CASE Messages
    <2>1. /\ UNCHANGED <<committed, next, fpc, held, chan, cur, done, dropped>>
          /\ rpc = "poll"
      BY <1>6 DEF Messages, Running
    <2>2. Safe \subseteq Safe'
      BY <2>1 DEF Safe, InChan
    <2> QED BY <1>0, <2>1, <2>2, SafeGrows
  <1>7. CASE Receive
    <2>1. /\ UNCHANGED <<committed, next, fpc, held, done, dropped>>
          /\ rpc = "wait" /\ rpc' = "handle"
          /\ chan # <<>> /\ cur' = Head(chan) /\ chan' = Tail(chan)
      BY <1>7 DEF Receive, Running
    <2>2. InChan \subseteq InChan' \cup {cur'}
      <3>1. /\ Len(chan) \in Nat \ {0} /\ Len(chan') = Len(chan) - 1
            /\ cur' = chan[1]
            /\ \A i \in 1..Len(chan') : chan'[i] = chan[i + 1]
        BY <1>0, <2>1, ChannelType
      <3>2. ASSUME NEW i \in 1..Len(chan), i # 1
            PROVE  chan[i] \in InChan'
        <4>1. i - 1 \in 1..Len(chan') /\ (i - 1) + 1 = i
          BY <3>1, <3>2
        <4>2. chan'[i - 1] = chan[i]
          BY <3>1, <4>1
        <4> QED BY <4>1, <4>2 DEF InChan
      <3> QED BY <3>1, <3>2 DEF InChan
    <2>3. Safe \subseteq Safe'
      BY <2>1, <2>2 DEF Safe
    <2> QED BY <1>0, <2>1, <2>3, SafeGrows
  \* processMessage goes on or ends.
  <1>a. ASSUME UNCHANGED <<committed, next, fpc, held, dropped>>,
               rpc \in {"handle", "publish"},
               \/ Finish
               \/ rpc' \in {"handle", "publish"} /\ UNCHANGED <<chan, cur, done>>
        PROVE  Inv'
    <2>1. Safe \subseteq Safe'
      BY <1>a DEF Finish, Safe, InChan
    <2> QED BY <1>0, <1>a, <2>1, SafeGrows
  <1>8. CASE Handle
    BY <1>8, <1>a DEF Handle, Running
  <1>9. CASE PublishWithRetry
    BY <1>9, <1>a DEF PublishWithRetry, Running
  <1>10. CASE StopRunning
    <2>1. /\ UNCHANGED <<committed, next, fpc, held, chan, cur, done, dropped>>
          /\ rpc \notin {"handle", "publish"}
      BY <1>10 DEF StopRunning, reader, record
    <2>2. Safe \subseteq Safe'
      BY <2>1 DEF Safe, InChan
    <2> QED BY <1>0, <2>1, <2>2, SafeGrows
  <1>11. CASE Terminate
    <2>1. UNCHANGED <<committed, next, fpc, held, chan, rpc, cur, done, dropped>>
      BY <1>11 DEF Terminate, reader, runner, record
    <2>2. Safe \subseteq Safe'
      BY <2>1 DEF Safe, InChan
    <2> QED BY <1>0, <2>1, <2>2, SafeGrows
  \* What was in memory and committed is recorded as lost.
  <1>b. CASE ProcessEnds
    <2>1. /\ UNCHANGED <<committed, done>> /\ fpc' = "exited"
          /\ dropped' = dropped \cup {o \in Memory \ done : o <= committed}
      BY <1>b DEF ProcessEnds
    <2>2. Safe \subseteq done \cup dropped \cup Memory
      BY DEF Safe, Memory
    <2>3. \A o \in 1..committed : o \in done \cup dropped'
      BY <1>n, <2>1, <2>2 DEF Inv, CommittedSafe
    <2>4. CommittedSafe'
      BY <2>1, <2>3 DEF CommittedSafe, Safe
    <2>5. HeldSafe' /\ PassedSafe'
      BY <2>1 DEF HeldSafe, PassedSafe
    <2> QED BY <1>0, <2>4, <2>5 DEF Inv
  <1>12. CASE Exit
    BY <1>12, <1>b DEF Exit
  <1>13. CASE Crash
    BY <1>13, <1>b DEF Crash
  \* The reader starts where the group is.
  <1>c. ASSUME next' = committed + 1, Safe' = Safe,
               UNCHANGED <<committed, held>>, fpc' = fpc
        PROVE  Inv'
    <2>1. next' - 1 = committed
      BY <1>c, <1>n
    <2>2. CommittedSafe' /\ HeldSafe'
      BY <1>c DEF Inv, CommittedSafe, HeldSafe
    <2>3. PassedSafe'
      BY <1>c, <2>1 DEF Inv, CommittedSafe, PassedSafe
    <2> QED BY <1>0, <2>2, <2>3 DEF Inv
  <1>14. CASE Restart
    <2>1. /\ UNCHANGED <<committed, chan, done, dropped>>
          /\ fpc' = "fetch" /\ rpc = "down" /\ rpc' = "poll"
          /\ next' = committed + 1
      BY <1>14 DEF Restart, record
    <2>2. Safe' = Safe /\ next' - 1 = committed
      BY <1>n, <2>1 DEF Safe, InChan
    <2>3. CommittedSafe' /\ HeldSafe'
      BY <2>1, <2>2 DEF Inv, CommittedSafe, HeldSafe
    <2>4. PassedSafe'
      BY <2>1, <2>2 DEF Inv, CommittedSafe, PassedSafe
    <2> QED BY <1>0, <2>3, <2>4 DEF Inv
  <1>15. CASE Rebalance
    <2>1. /\ UNCHANGED <<committed, held, fpc, chan, rpc, cur, done, dropped>>
          /\ next' = committed + 1
      BY <1>15 DEF Rebalance, runner, record
    <2>2. Safe' = Safe
      BY <2>1 DEF Safe, InChan
    <2> QED BY <1>c, <2>1, <2>2
  <1>16. CASE UNCHANGED vars
    <2>1. UNCHANGED <<committed, next, fpc, held, chan, rpc, cur, done, dropped>>
      BY <1>16 DEF vars, reader, runner, record
    <2>2. Safe \subseteq Safe'
      BY <2>1 DEF Safe, InChan
    <2> QED BY <1>0, <2>1, <2>2, SafeGrows
  <1> QED
    BY <1>1, <1>2, <1>3, <1>4, <1>5, <1>6, <1>7, <1>8, <1>9, <1>10, <1>11,
       <1>12, <1>13, <1>14, <1>15, <1>16
    DEF Next, ForwarderStep, RunnerStep

\* Whatever the capacity, the retries and the number of stops and rebalances,
\* a committed message was processed, is in the process's memory, or was there
\* when a process ended: no other path of Subscribe, Consume and Run loses one.
THEOREM CommitsAreAccounted == Spec => []CommittedIsAccounted
  <1>1. Inv => CommittedIsAccounted
    <2>1. Safe \subseteq done \cup Memory \cup dropped
      BY DEF Safe, Memory
    <2> QED BY <2>1 DEF Inv, CommittedSafe, CommittedIsAccounted
  <1> QED BY <1>1, InvInit, InvStep, PTL DEF Spec

-----------------------------------------------------------------------------
(***************************************************************************)
(* What a stop can lose.                                                   *)
(***************************************************************************)

\* The channel holds no more messages than its capacity.
LEMMA ChannelCount ==
    ASSUME TypeInv
    PROVE  /\ IsFiniteSet(InChan) /\ Cardinality(InChan) \in Nat
           /\ Cardinality(InChan) <= Cap
  <1>1. /\ chan \in Seq(Offsets) /\ Len(chan) \in Nat /\ Len(chan) <= Cap
        /\ DOMAIN chan = 1..Len(chan)
    BY DEF TypeInv, TypeOK
  <1>2. IsFiniteSet(1..Len(chan)) /\ Cardinality(1..Len(chan)) = Len(chan)
    <2>1. 1 \in Int /\ Len(chan) \in Int
      BY <1>1
    <2>2. /\ IsFiniteSet(1..Len(chan))
          /\ Cardinality(1..Len(chan)) =
                IF 1 > Len(chan) THEN 0 ELSE Len(chan) - 1 + 1
      BY <2>1, FS_Interval, Zenon
    <2> QED BY <1>1, <2>2
  <1>3. /\ chan \in [1..Len(chan) -> InChan]
        /\ \A o \in InChan : \E i \in 1..Len(chan) : chan[i] = o
    BY <1>1 DEF InChan
  <1>4. chan \in Surjection(1..Len(chan), InChan)
    BY <1>3 DEF Surjection
  <1>5. IsFiniteSet(InChan) /\ Cardinality(InChan) <= Cardinality(1..Len(chan))
    BY <1>2, <1>4, FS_Surjection
  <1>6. Cardinality(InChan) \in Nat
    BY <1>5, FS_CardinalityType
  <1> QED BY <1>1, <1>2, <1>5, <1>6, ConsumerAssumption

\* A committed message that a process loses was in the channel or in the
\* runner's hands: one that the forwarding goroutine holds has not been
\* committed, or is the redelivery of a message that is accounted for.
LEMMA LostByStop ==
    ASSUME Inv, ProcessEnds
    PROVE  dropped' \subseteq dropped \cup InChan \cup {cur}
  <1> SUFFICES ASSUME NEW o \in Memory \ done, o <= committed
               PROVE  o \in dropped \cup InChan \cup {cur}
    BY DEF ProcessEnds
  <1>1. o \in Offsets /\ committed \in Nat
    BY MemoryType, ConsumerAssumption DEF Inv, TypeInv, TypeOK
  <1>2. o \in 1..committed
    BY <1>1 DEF Offsets
  <1>3. o \in Safe
    BY <1>2 DEF Inv, CommittedSafe
  <1> QED BY <1>3 DEF Safe

\* The bound, with the finiteness it needs.
LossInv == Inv /\ IsFiniteSet(dropped) /\ LossBound

LEMMA LossInit == Init => LossInv
  <1> SUFFICES ASSUME Init PROVE LossInv
    OBVIOUS
  <1>1. IsFiniteSet(dropped) /\ Cardinality(dropped) = 0
    BY FS_EmptySet DEF Init
  <1>2. stops * (Cap + 1) = 0
    BY ConsumerAssumption DEF Init
  <1> QED BY <1>1, <1>2, InvInit DEF LossInv, LossBound

LEMMA LossStep == LossInv /\ [Next]_vars => LossInv'
  <1> SUFFICES ASSUME LossInv, [Next]_vars
               PROVE  LossInv'
    OBVIOUS
  <1>0. Inv /\ Inv' /\ TypeInv
    BY InvStep DEF LossInv, Inv
  <1>1. CASE ProcessEnds
    <2>1. dropped' \subseteq (dropped \cup InChan) \cup {cur}
      BY <1>0, <1>1, LostByStop
    <2>2. /\ IsFiniteSet(dropped) /\ IsFiniteSet(InChan) /\ IsFiniteSet({cur})
          /\ Cardinality({cur}) = 1
      BY <1>0, ChannelCount, FS_Singleton DEF LossInv
    <2>3. /\ IsFiniteSet(dropped \cup InChan)
          /\ Cardinality(dropped \cup InChan)
                = Cardinality(dropped) + Cardinality(InChan)
                  - Cardinality(dropped \cap InChan)
      BY <2>2, FS_Union
    <2>4. /\ IsFiniteSet((dropped \cup InChan) \cup {cur})
          /\ Cardinality((dropped \cup InChan) \cup {cur})
                = Cardinality(dropped \cup InChan) + Cardinality({cur})
                  - Cardinality((dropped \cup InChan) \cap {cur})
      BY <2>2, <2>3, FS_Union
    <2>5. /\ IsFiniteSet(dropped \cap InChan)
          /\ IsFiniteSet((dropped \cup InChan) \cap {cur})
      BY <2>2, <2>3, FS_Intersection
    <2>6. /\ IsFiniteSet(dropped')
          /\ Cardinality(dropped') <= Cardinality((dropped \cup InChan) \cup {cur})
      BY <2>1, <2>4, FS_Subset
    <2>7. /\ Cardinality(dropped) \in Nat /\ Cardinality(dropped') \in Nat
          /\ Cardinality(dropped \cup InChan) \in Nat
          /\ Cardinality((dropped \cup InChan) \cup {cur}) \in Nat
          /\ Cardinality(dropped \cap InChan) \in Nat
          /\ Cardinality((dropped \cup InChan) \cap {cur}) \in Nat
      BY <2>2, <2>3, <2>4, <2>5, <2>6, FS_CardinalityType
    <2>8. Cardinality(InChan) \in Nat /\ Cardinality(InChan) <= Cap
      BY <1>0, ChannelCount
    <2>9. Cardinality(dropped') <= Cardinality(dropped) + Cap + 1
      BY <2>2, <2>3, <2>4, <2>6, <2>7, <2>8, ConsumerAssumption
    <2>10. PICK z \in Nat : /\ z = stops * (Cap + 1)
                            /\ (stops + 1) * (Cap + 1) = z + Cap + 1
      <3>1. stops \in Nat /\ Cap \in Nat
        BY <1>0, ConsumerAssumption DEF TypeInv, TypeOK
      <3>2. stops * (Cap + 1) \in Nat
        BY <3>1
      <3>3. (stops + 1) * (Cap + 1) = stops * (Cap + 1) + Cap + 1
        BY <3>1
      <3> QED BY <3>2, <3>3
    <2>11. Cardinality(dropped) <= z
      BY <2>10 DEF LossInv, LossBound
    <2>12. Cardinality(dropped') <= z + Cap + 1
      BY <2>7, <2>9, <2>11, ConsumerAssumption
    <2>13. stops' = stops + 1
      BY <1>1 DEF ProcessEnds
    <2> QED BY <1>0, <2>6, <2>10, <2>12, <2>13 DEF LossInv, LossBound
  <1>2. CASE ~ProcessEnds
    <2>1. dropped' = dropped /\ stops' = stops
      BY <1>2
      DEF Next, vars, ForwarderStep, RunnerStep, Publish, FetchMessage, Forward,
          CommitMessages, StopForwarding, Forwarding, Messages, Receive, Handle,
          PublishWithRetry, StopRunning, Running, Terminate, Exit, Crash,
          Restart, Rebalance, reader, runner, lifetime, record
    <2> QED BY <1>0, <2>1 DEF LossInv, LossBound
  <1> QED BY <1>1, <1>2

\* Whatever the order of failed commits, rebalances, redeliveries and stops,
\* each stop loses at most a channel full of messages and the one that the
\* runner is working on.
THEOREM ConsumerLossBound == Spec => []LossBound
  <1>1. LossInv => LossBound
    BY DEF LossInv
  <1> QED BY <1>1, LossInit, LossStep, PTL DEF Spec
=============================================================================
