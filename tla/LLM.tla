-------------------------------- MODULE LLM --------------------------------
(***************************************************************************)
(* The client of the language model (internal/llm/client.go): concurrent   *)
(* Chat calls that share one rate limiter.  A call reserves a slot under   *)
(* the mutex, sleeps until the slot outside of it, sends its request, and  *)
(* after a failure backs off and reserves again.  The two clock readings   *)
(* of the limiter are steps of their own, sleepers and requests may be     *)
(* late by any amount, and a context may be cancelled at any time.         *)
(***************************************************************************)
EXTENDS Integers, FiniteSets

CONSTANTS
    Callers,      \* goroutines that call Chat on one client
    MinInterval,  \* least distance of two requests, in ticks
    MaxAttempts,  \* attempts of chatWithRetry (3 in the code)
    Backoff,      \* Backoff[k]: pause after k failed attempts (200 << (k-1) ms)
    MaxCalls,     \* bound: Chat calls per goroutine
    MaxTime       \* bound: ticks of the clock while nobody sleeps

ASSUME LLMAssumption ==
    /\ IsFiniteSet(Callers)
    /\ MinInterval \in Nat \ {0} /\ MaxAttempts \in Nat \ {0}
    /\ Backoff \in [1..MaxAttempts - 1 -> Nat]
    /\ MaxCalls \in Nat /\ MaxTime \in Nat

VARIABLES
    now,          \* the monotonic clock
    lastRequest,  \* the limiter's time stamp
    mu,           \* callers that hold the mutex, one at most
    pc,           \* pc[c]: position of c in chatWithRetry
    attempt,      \* attempt[c]: failed attempts of the call
    due,          \* due[c]: end of c's sleep
    wait,         \* wait[c]: what c computed under the mutex
    cancelled,    \* cancelled[c]: the context of c's call is done
    calls,        \* calls[c]: Chat calls that c has made
    slots,        \* history: reserved slots, one per reservation
    sends         \* history: number of requests sent

caller == <<pc, attempt, due, wait, cancelled, calls>>
vars   == <<now, lastRequest, mu, caller, slots, sends>>

Sleeping == {c \in Callers : pc[c] \in {"backoff", "sleep"}}

\* NewClient: lastRequest is the zero time, longer ago than any interval.
Init ==
    /\ now = 0 /\ lastRequest = -MinInterval /\ mu = {}
    /\ pc = [c \in Callers |-> "idle"]
    /\ attempt = [c \in Callers |-> 0]
    /\ due = [c \in Callers |-> 0]
    /\ wait = [c \in Callers |-> 0]
    /\ cancelled = [c \in Callers |-> FALSE]
    /\ calls = [c \in Callers |-> 0]
    /\ slots = {} /\ sends = 0

Goto(c, p) == pc' = [pc EXCEPT ![c] = p]

\* A caller calls Chat.
Chat(c) ==
    /\ pc[c] = "idle" /\ calls[c] < MaxCalls
    /\ Goto(c, "lock")
    /\ attempt' = [attempt EXCEPT ![c] = 0]
    /\ cancelled' = [cancelled EXCEPT ![c] = FALSE]
    /\ calls' = [calls EXCEPT ![c] = @ + 1]
    /\ UNCHANGED <<now, lastRequest, mu, due, wait, slots, sends>>

\* Mutant: the section is not protected.
BugLock(c) ==
    /\ pc[c] = "lock"
    /\ wait' = [wait EXCEPT ![c] = MinInterval - (now - lastRequest)]
    /\ Goto(c, "reserve")
    /\ UNCHANGED <<now, lastRequest, mu, attempt, due, cancelled, calls, slots, sends>>

\* c.mu.Lock(), elapsed and wait.
Lock(c) ==
    /\ pc[c] = "lock" /\ mu = {}
    /\ mu' = {c}
    /\ wait' = [wait EXCEPT ![c] = MinInterval - (now - lastRequest)]
    /\ Goto(c, "reserve")
    /\ UNCHANGED <<now, lastRequest, attempt, due, cancelled, calls, slots, sends>>

\* Mutant: the time stamp is the time of the reservation.
BugSlot(c) == now

\* time.Now().Add(maxDuration(wait, 0))
Slot(c) == now + (IF wait[c] > 0 THEN wait[c] ELSE 0)

\* Mutant: the mutex stays locked.
BugReserve(c) ==
    /\ pc[c] = "reserve"
    /\ lastRequest' = Slot(c)
    /\ slots' = slots \cup {Slot(c)}
    /\ Goto(c, "send")
    /\ UNCHANGED <<now, mu, attempt, due, wait, cancelled, calls, sends>>

\* The write of lastRequest and c.mu.Unlock(); then sleepCtx, unless there is
\* nothing to wait for.
Reserve(c) ==
    /\ pc[c] = "reserve"
    /\ lastRequest' = Slot(c) /\ mu' = mu \ {c}
    /\ slots' = slots \cup {Slot(c)}
    /\ IF wait[c] > 0
       THEN Goto(c, "sleep") /\ due' = [due EXCEPT ![c] = now + wait[c]]
       ELSE Goto(c, "send") /\ UNCHANGED due
    /\ wait' = [wait EXCEPT ![c] = 0]
    /\ UNCHANGED <<now, attempt, cancelled, calls, sends>>

\* The timer of sleepCtx fires, possibly late.
Wake(c) ==
    /\ c \in Sleeping /\ now >= due[c]
    /\ Goto(c, IF pc[c] = "sleep" THEN "send" ELSE "lock")
    /\ due' = [due EXCEPT ![c] = 0]
    /\ UNCHANGED <<now, lastRequest, mu, attempt, wait, cancelled, calls, slots, sends>>

\* ctx.Done() in sleepCtx: Chat returns the error, its slot stays reserved.
Abandon(c) ==
    /\ c \in Sleeping /\ cancelled[c]
    /\ Goto(c, "idle")
    /\ due' = [due EXCEPT ![c] = 0]
    /\ UNCHANGED <<now, lastRequest, mu, attempt, wait, cancelled, calls, slots, sends>>

\* doChatRequest sends the request, unless the context is done already.
Send(c) ==
    /\ pc[c] = "send"
    /\ sends' = IF cancelled[c] THEN sends ELSE sends + 1
    /\ Goto(c, "answer")
    /\ UNCHANGED <<now, lastRequest, mu, attempt, due, wait, cancelled, calls, slots>>

\* A completion comes back and Chat returns it.
Answer(c) ==
    /\ pc[c] = "answer" /\ ~cancelled[c]
    /\ Goto(c, "idle")
    /\ UNCHANGED <<now, lastRequest, mu, attempt, due, wait, cancelled, calls, slots, sends>>

\* Any error of doChatRequest (transport, time-out of 60 s, status, body,
\* API error, no choices): back off and try again, or give up after the last.
Fail(c) ==
    /\ pc[c] = "answer"
    /\ attempt' = [attempt EXCEPT ![c] = @ + 1]
    /\ IF attempt'[c] < MaxAttempts
       THEN /\ Goto(c, "backoff")
            /\ due' = [due EXCEPT ![c] = now + Backoff[attempt'[c]]]
       ELSE Goto(c, "idle") /\ UNCHANGED due
    /\ UNCHANGED <<now, lastRequest, mu, wait, cancelled, calls, slots, sends>>

\* The caller's context is cancelled.
Cancel(c) ==
    /\ pc[c] # "idle" /\ ~cancelled[c]
    /\ cancelled' = [cancelled EXCEPT ![c] = TRUE]
    /\ UNCHANGED <<now, lastRequest, mu, pc, attempt, due, wait, calls, slots, sends>>

\* Time passes.
Tick ==
    /\ now < MaxTime \/ \E c \in Sleeping : now < due[c]
    /\ now' = now + 1
    /\ UNCHANGED <<lastRequest, mu, caller, slots, sends>>

Running(c) ==
    \/ Lock(c) \/ Reserve(c) \/ Wake(c) \/ Abandon(c) \/ Send(c) \/ Answer(c) \/ Fail(c)

Next == Tick \/ \E c \in Callers : Chat(c) \/ Running(c) \/ Cancel(c)

Spec == Init /\ [][Next]_vars

(***************************************************************************)
(* Goroutines are scheduled, timers fire, and a request is answered or     *)
(* fails within the 60 s of the HTTP client.                               *)
(***************************************************************************)
FairSpec == Spec /\ WF_vars(Tick) /\ \A c \in Callers : WF_vars(Running(c))

-----------------------------------------------------------------------------
TypeOK ==
    /\ now \in Nat /\ lastRequest \in Int
    /\ mu \in SUBSET Callers
    /\ pc \in [Callers -> {"idle", "lock", "reserve", "sleep", "send", "answer", "backoff"}]
    /\ attempt \in [Callers -> 0..MaxAttempts]
    /\ due \in [Callers -> Int] /\ wait \in [Callers -> Int]
    /\ cancelled \in [Callers -> BOOLEAN]
    /\ calls \in [Callers -> 0..MaxCalls]
    /\ slots \subseteq Int /\ sends \in Nat

(***************************************************************************)
(* The slots that concurrent callers reserve are at least MinInterval      *)
(* apart, although each computes its slot from a clock that runs on and a  *)
(* time stamp that the others move ahead (client.go:108-113).              *)
(***************************************************************************)
SlotsSpaced ==
    \A s, t \in slots : s < t => t - s >= MinInterval

(***************************************************************************)
(* The rate limit: up to any moment the client has sent at most one        *)
(* request per interval that has begun, however its calls overlap, retry   *)
(* and are cancelled.  No request is sent before its slot and no slot is   *)
(* used twice.                                                             *)
(***************************************************************************)
RateBound == sends * MinInterval <= now + MinInterval

(***************************************************************************)
(* Every Chat call returns: neither the mutex nor the sleeps nor the       *)
(* retries keep a caller for ever.                                         *)
(***************************************************************************)
ChatReturns == \A c \in Callers : pc[c] # "idle" ~> pc[c] = "idle"
=============================================================================
