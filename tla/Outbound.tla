------------------------------ MODULE Outbound ------------------------------
(***************************************************************************)
(* What the hub sends out when a session needs approval: the approval gate *)
(* issues tokens (approval.TokenManager behind the NOOP or the webhook     *)
(* client), writes the approval records and notifies the webhook channels  *)
(* (notify.WebhookNotifier).  Requests, records, the list of channels and  *)
(* the log of deliveries may fail at any time, endpoints fail or answer    *)
(* too late, and the process may die with tokens and pending deliveries.   *)
(***************************************************************************)
EXTENDS Integers, Sequences

CONSTANTS
    Actions,      \* HIGH-risk fix actions without approval; each gets a token
    Configs,      \* the enabled rows of webhook_configs
    Healthy,      \* configs whose endpoint always answers 2xx
    Malformed,    \* configs whose URL gives no request
    MaxAttempts   \* attempts of one delivery (3 in the code)

ASSUME OutboundAssumption ==
    /\ Healthy \subseteq Configs /\ Malformed \subseteq Configs \ Healthy
    /\ MaxAttempts \in Nat \ {0}

VARIABLES
    mode,      \* approval.mode of the configuration
    columns,   \* the webhook tables have the columns that notify/webhook.go names
    gate,      \* position of TriggerApprovalGate
    todo,      \* HIGH-risk actions the gate has still to ask for
    entry,     \* entry[a]: the token of a in TokenManager, and its result
    record,    \* actions with a row in approvals
    refused,   \* actions whose request or record failed
    listed,    \* the configurations that ListEnabled gave to Notify
    delivery,  \* delivery[c]: deliver goroutine of channel c
    attempt,   \* attempt[c]: its loop counter
    log,       \* log[c]: status column of the rows of webhook_deliveries
    received,  \* history: received[c], copies of the notice the endpoint got
    failures,  \* history: failures[c], attempts that saw no 2xx answer
    answered,  \* history: channels that were seen to answer 2xx
    up         \* the process has not been restarted

gateVars == <<gate, todo, record, refused, entry>>
seen     == <<received, failures, answered>>
hookVars == <<listed, delivery, attempt, log, seen>>
vars     == <<mode, columns, gateVars, hookVars, up>>

\* A mode that is not known gives the NOOP client, which approves everything.
BuildApprovalClient(configured) == IF configured = "webhook" THEN "webhook" ELSE "noop"

Init ==
    /\ \E configured \in {"noop", "webhook", "other"} : mode = BuildApprovalClient(configured)
    /\ columns \in BOOLEAN
    /\ gate = "request" /\ todo = Actions /\ record = {} /\ refused = {}
    /\ entry = [a \in Actions |-> "none"]
    /\ listed = {} /\ delivery = [c \in Configs |-> "idle"]
    /\ attempt = [c \in Configs |-> 0] /\ log = [c \in Configs |-> <<>>]
    /\ received = [c \in Configs |-> 0] /\ failures = [c \in Configs |-> 0]
    /\ answered = {} /\ up = TRUE

-----------------------------------------------------------------------------
(* The approval gate. *)

\* RequestApproval failed: the action is skipped.
Skip(a) == todo' = todo \ {a} /\ refused' = refused \cup {a} /\ UNCHANGED gate

\* RequestApproval of the NOOP client: the token is issued and resolved,
\* unless the random source fails.
NOOPRequestApproval(a) ==
    /\ mode = "noop" /\ gate = "request" /\ a \in todo
    /\ \/ entry' = [entry EXCEPT ![a] = "APPROVED"] /\ gate' = "record" /\ UNCHANGED <<todo, refused>>
       \/ Skip(a) /\ UNCHANGED entry
    /\ UNCHANGED <<record, mode, columns, hookVars, up>>

\* The webhook client issues a token and posts the request.  When the post
\* fails the action is skipped, but its token stays in the map.
RequestApproval(a) ==
    /\ mode = "webhook" /\ gate = "request" /\ a \in todo
    /\ \/ /\ entry' = [entry EXCEPT ![a] = "pending"]
          /\ \/ gate' = "record" /\ UNCHANGED <<todo, refused>>
             \/ Skip(a)
       \/ Skip(a) /\ UNCHANGED entry
    /\ UNCHANGED <<record, mode, columns, hookVars, up>>

\* ApprovalDAO.Create for the token just issued; an error skips the action.
PersistRecord(a) ==
    /\ gate = "record" /\ a \in todo /\ entry[a] # "none"
    /\ todo' = todo \ {a} /\ gate' = "request"
    /\ \/ record' = record \cup {a} /\ UNCHANGED refused
       \/ refused' = refused \cup {a} /\ UNCHANGED record
    /\ UNCHANGED <<entry, mode, columns, hookVars, up>>

\* What ListEnabled can give: without the column created_at the query fails,
\* an error of the query or of a Scan (a NULL secret is one) gives nothing, and
\* rows.Err is not asked, so a connection lost half way shortens the list.
ListEnabled == IF columns THEN SUBSET Configs ELSE {{}}

\* One deliver goroutine for every channel in "to".
Launch(to) ==
    /\ delivery' = [c \in Configs |-> IF c \in to THEN "send" ELSE delivery[c]]
    /\ attempt' = [c \in Configs |-> IF c \in to THEN 1 ELSE attempt[c]]
    /\ UNCHANGED <<todo, record, refused, entry, mode, columns, log, seen, up>>

\* Mutant: the notice goes out before the loop over the actions is done.
BugNotify ==
    /\ gate = "request" /\ listed = {}
    /\ listed' \in ListEnabled
    /\ gate' = IF todo = {} THEN "done" ELSE gate
    /\ Launch(listed')

\* Mutant: only one channel is served.
BugNotifyOne ==
    /\ gate = "request" /\ todo = {} /\ gate' = "done"
    /\ listed' \in ListEnabled
    /\ \E first \in Configs : Launch(listed' \cap {first})

\* After the loop, Notify: one goroutine per configuration that was listed;
\* the gate drops an error.
Notify ==
    /\ gate = "request" /\ todo = {} /\ gate' = "done"
    /\ listed' \in ListEnabled
    /\ Launch(listed')

-----------------------------------------------------------------------------
(* Webhook delivery. *)

\* LogDelivery: deliver ignores an error of the insert, which without the
\* column response_code always fails.
LogDelivery(c, s) ==
    \/ columns /\ log' = [log EXCEPT ![c] = Append(@, s)]
    \/ UNCHANGED log

\* The loop is over.
EndDelivery(c) ==
    /\ delivery' = [delivery EXCEPT ![c] = "idle"]
    /\ UNCHANGED attempt

\* The next round of the loop, or its end.
NextAttempt(c) ==
    \/ /\ attempt[c] < MaxAttempts
       /\ delivery' = [delivery EXCEPT ![c] = "send"]
       /\ attempt' = [attempt EXCEPT ![c] = @ + 1]
    \/ attempt[c] = MaxAttempts /\ EndDelivery(c)

\* The request cannot be built: no log, no pause, the next attempt.
BuildFails(c) ==
    /\ delivery[c] = "send" /\ c \in Malformed
    /\ failures' = [failures EXCEPT ![c] = @ + 1]
    /\ NextAttempt(c)
    /\ UNCHANGED <<listed, log, received, answered, gateVars, mode, columns, up>>

\* client.Do: the request reaches the endpoint or not; the answer is 2xx,
\* something else, or does not come back within ten seconds.
Send(c) ==
    /\ delivery[c] = "send" /\ c \notin Malformed
    /\ \/ /\ received' = [received EXCEPT ![c] = @ + 1]
          /\ answered' = answered \cup {c}
          /\ delivery' = [delivery EXCEPT ![c] = "ok"]
          /\ UNCHANGED failures
       \/ /\ c \notin Healthy
          /\ \E n \in {0, 1} : received' = [received EXCEPT ![c] = @ + n]
          /\ failures' = [failures EXCEPT ![c] = @ + 1]
          /\ delivery' = [delivery EXCEPT ![c] = "fail"]
          /\ UNCHANGED answered
    /\ UNCHANGED <<listed, attempt, log, gateVars, mode, columns, up>>

\* Mutant: the success does not end the loop.
BugSucceed(c) ==
    /\ delivery[c] = "ok"
    /\ LogDelivery(c, "SUCCESS")
    /\ NextAttempt(c)
    /\ UNCHANGED <<listed, seen, gateVars, mode, columns, up>>

\* A 2xx answer is logged and ends the delivery.
Succeed(c) ==
    /\ delivery[c] = "ok"
    /\ LogDelivery(c, "SUCCESS")
    /\ EndDelivery(c)
    /\ UNCHANGED <<listed, seen, gateVars, mode, columns, up>>

\* Anything else is logged; then the pause and the next attempt, or the end.
Retry(c) ==
    /\ delivery[c] = "fail"
    /\ LogDelivery(c, "FAIL")
    /\ NextAttempt(c)
    /\ UNCHANGED <<listed, seen, gateVars, mode, columns, up>>

-----------------------------------------------------------------------------
\* The process dies and starts again: tokens, the gate and the deliveries in
\* progress are gone, tables and endpoints keep what they have.
Restart ==
    /\ up /\ up' = FALSE
    /\ gate' = "done" /\ todo' = {} /\ refused' = refused \cup todo
    /\ entry' = [a \in Actions |-> "none"]
    /\ delivery' = [c \in Configs |-> "idle"]
    /\ UNCHANGED <<record, listed, attempt, log, seen, mode, columns>>

-----------------------------------------------------------------------------
Gate       == Notify \/ \E a \in Actions :
                  NOOPRequestApproval(a) \/ RequestApproval(a) \/ PersistRecord(a)
Deliver(c) == BuildFails(c) \/ Send(c) \/ Succeed(c) \/ Retry(c)

Next == Gate \/ Restart \/ \E c \in Configs : Deliver(c)

Spec == Init /\ [][Next]_vars

(***************************************************************************)
(* The gate and every deliver goroutine are scheduled; calls of the HTTP   *)
(* client end within its ten seconds.                                      *)
(***************************************************************************)
FairSpec == Spec /\ WF_vars(Gate) /\ \A c \in Configs : WF_vars(Deliver(c))

-----------------------------------------------------------------------------
(***************************************************************************)
(* Who is notified that an approval is required finds the request: when a  *)
(* channel has received the notice, every HIGH-risk action has its record  *)
(* in the approvals table, or asking for it failed (orchestrator.go:       *)
(* 673-725).                                                               *)
(***************************************************************************)
NoticeFindsRequest ==
    \A c \in Configs : received[c] > 0 => Actions = record \cup refused

\* 1 when the hub has seen channel c answer 2xx.
Answers(c) == IF c \in answered THEN 1 ELSE 0

(***************************************************************************)
(* A channel gets the notice twice only after an attempt that failed as    *)
(* far as the hub could see: every copy but one that was answered 2xx is   *)
(* paid for by such an attempt, after a 2xx answer no attempt follows, and *)
(* whether the log could be written makes no difference.  The log in turn  *)
(* claims no attempt that was not made, and a SUCCESS in it was answered   *)
(* and is its last row (webhook.go:149-203).                               *)
(***************************************************************************)
DuplicatesHaveCause ==
    \A c \in Configs :
        /\ received[c] <= failures[c] + Answers(c)
        /\ failures[c] + Answers(c) <= MaxAttempts
        /\ Len(log[c]) <= failures[c] + Answers(c)
        /\ \A i \in DOMAIN log[c] :
              log[c][i] = "SUCCESS" => i = Len(log[c]) /\ c \in answered

(***************************************************************************)
(* An endpoint that works is reached although other channels hang, fail,   *)
(* cannot be called at all or exhaust their attempts, and although the log *)
(* of deliveries cannot be written: every healthy channel that ListEnabled *)
(* gave to Notify gets the notice, unless the process dies                 *)
(* (webhook.go:139-141).                                                   *)
(***************************************************************************)
HealthyIsReached ==
    \A c \in Healthy : (c \in listed) ~> (received[c] > 0 \/ ~up)

=============================================================================
