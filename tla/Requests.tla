------------------------------ MODULE Requests ------------------------------
(***************************************************************************)
(* Requests: the messages of OxenMQ::request() on top of Connections, from *)
(* proxy_send to the reply, the error or the time-out that answers them.   *)
(* Replies may be lost, late, doubled or never sent.  (proxy_send,         *)
(* proxy_handle_builtin and proxy_conn_cleanup)                            *)
(***************************************************************************)
EXTENDS Connections

CONSTANTS
    Tags,            \* reply tags, and with them requests; drawn at random, never twice
    SendCallbacks,   \* Tags -> which of queue_failure ("fail"), queue_full ("full") it has
    RequestTimeout   \* in ticks

ASSUME CallbacksAssumption == SendCallbacks \in [Tags -> SUBSET {"fail", "full"}]

VARIABLES
    used,              \* tags that were drawn
    pending_requests,  \* tag -> ticks left
    answers,           \* Tags -> the results its request callback was called with
    outcome,           \* Tags -> how proxy_send ended for it; "none" before (history)
    reports            \* Tags -> the send callbacks that were called

reqs == <<used, pending_requests, answers, outcome, reports>>
rvars == <<vars, reqs>>

request(t, to, opts) ==
    /\ t \notin used
    /\ proxy_send(to, opts, t)
    /\ used' = used \cup {t}
    /\ UNCHANGED <<pending_requests, answers, outcome, reports>>

(***************************************************************************)
(* What proxy_send does after its loop.  A queue_failure callback that was *)
(* called with the error, inside the loop, is forgotten: a queue_full one  *)
(* is then called as well.                                                 *)
(***************************************************************************)
Reports_Always(t) == [reports EXCEPT ![t] = Append(@, "fail")]
Reports(t) ==
    LET fail == IF "fail" \in SendCallbacks[t] THEN <<"fail">> ELSE <<>>
        full == IF "full" \in SendCallbacks[t] THEN <<"full">> ELSE <<>>
        calls == CASE send.result = "sent" -> <<>>
                   [] send.result = "error" -> fail \o full
                   [] OTHER -> IF fail # <<>> THEN fail ELSE full
    IN [reports EXCEPT ![t] = @ \o calls]
Deadline_Microseconds == 1000 * RequestTimeout
Deadline == RequestTimeout
Concluded ==
    LET t == send.tag IN
    /\ IF send.result = "sent"
       THEN pending_requests' = With(pending_requests, t, Deadline) /\ UNCHANGED answers
       ELSE answers' = [answers EXCEPT ![t] = Append(@, "timeout")] /\ UNCHANGED pending_requests
    /\ outcome' = [outcome EXCEPT ![t] = send.result]
    /\ reports' = Reports(t)
RequestReturns == SendReturns /\ Concluded /\ UNCHANGED used

(* The REPLY and error branches of proxy_handle_builtin; a tag that is not *)
(* pending, or no longer, is ignored.                                      *)
Answered_Keeps(t, result) ==
    /\ Ready
    /\ t \in DOMAIN pending_requests
    /\ answers' = [answers EXCEPT ![t] = Append(@, result)]
    /\ UNCHANGED <<vars, used, pending_requests, outcome, reports>>
Answered(t, result) ==
    /\ Ready
    /\ t \in DOMAIN pending_requests
    /\ answers' = [answers EXCEPT ![t] = Append(@, result)]
    /\ pending_requests' = Restrict(pending_requests, DOMAIN pending_requests \ {t})
    /\ UNCHANGED <<vars, used, outcome, reports>>
OnReply(t) == Answered(t, "reply")
OnErrorResponse(t) == Answered(t, "refused")

(* The last part of proxy_conn_cleanup, with the parts before it. *)
Late == {t \in DOMAIN pending_requests : pending_requests[t] = 0}
Cleanup ==
    /\ proxy_conn_cleanup
    /\ answers' = [t \in Tags |-> IF t \in Late THEN Append(answers[t], "timeout") ELSE answers[t]]
    /\ pending_requests' = Restrict(pending_requests, DOMAIN pending_requests \ Late)
    /\ UNCHANGED <<used, outcome, reports>>

TickAll ==
    /\ Tick
    /\ pending_requests' = [t \in DOMAIN pending_requests |->
                               IF pending_requests[t] > 0 THEN pending_requests[t] - 1 ELSE 0]
    /\ UNCHANGED <<used, answers, outcome, reports>>

-----------------------------------------------------------------------------
InitAll ==
    /\ Init
    /\ used = {}
    /\ pending_requests = <<>>
    /\ answers = [t \in Tags |-> <<>>]
    /\ outcome = [t \in Tags |-> "none"]
    /\ reports = [t \in Tags |-> <<>>]

NextAll ==
    \/ (Clients \/ Connects \/ Arrivals \/ SendLoop \/ Terminated) /\ UNCHANGED reqs
    \/ \E t \in Tags, to \in Recipients : \E opts \in OptionsFor(to) : request(t, to, opts)
    \/ RequestReturns \/ Cleanup \/ TickAll
    \/ \E t \in Tags : OnReply(t) \/ OnErrorResponse(t)

(***************************************************************************)
(* The clock runs; the timer of proxy_conn_cleanup fires again and again;  *)
(* the proxy handles the CONNECT_REMOTE messages it gets and goes on with  *)
(* a send it has begun.                                                    *)
(***************************************************************************)
FairnessAll ==
    /\ WF_rvars(SendLoop /\ UNCHANGED reqs) /\ WF_rvars(RequestReturns)
    /\ WF_rvars(Connects /\ UNCHANGED reqs) /\ WF_rvars(Cleanup) /\ WF_rvars(TickAll)
SpecAll == InitAll /\ [][NextAll]_rvars /\ FairnessAll

-----------------------------------------------------------------------------
RequestsTypeOK ==
    /\ TypeOK
    /\ used \subseteq Tags
    /\ DOMAIN pending_requests \subseteq used
    /\ Range(pending_requests) \subseteq 0..RequestTimeout
    /\ DOMAIN answers = Tags /\ DOMAIN outcome = Tags /\ DOMAIN reports = Tags

(***************************************************************************)
(* The proxy implements RequestService: a request counts as asked while    *)
(* proxy_send has it in hand, while it is pending and once it is answered, *)
(* so one that falls between them would be a step the service cannot take. *)
(***************************************************************************)
Asked == {t \in Tags : \/ send # Idle /\ send.tag = t
                       \/ t \in DOMAIN pending_requests
                       \/ answers[t] # <<>>}
Service == INSTANCE RequestService
               WITH asked <- Asked, Results <- {"reply", "refused", "timeout"}
RequestsAnswered == Service!Spec

(***************************************************************************)
(* The caller of a message that was not sent hears of it, and no other:    *)
(* while proxy_send has the message in hand, and once it went out, no send *)
(* callback is called.  When it did not go out one is called, if there is  *)
(* any, and the first is queue_failure if there is that one; each once.    *)
(* The request is then answered, and no longer waits for a reply.          *)
(***************************************************************************)
Unsent(t) == outcome[t] \notin {"none", "sent"}
UnsentReported ==
    \A t \in Tags :
        /\ IsInjective(reports[t]) /\ Range(reports[t]) \subseteq SendCallbacks[t]
        /\ reports[t] # <<>> <=> Unsent(t) /\ SendCallbacks[t] # {}
        /\ reports[t] # <<>> /\ "fail" \in SendCallbacks[t] => Head(reports[t]) = "fail"
        /\ Unsent(t) => answers[t] = <<"timeout">> /\ t \notin DOMAIN pending_requests

(***************************************************************************)
(* What oxenmq.h says of queue_full: it "is only invoked on a (potentially *)
(* recoverable) full queue failure".                                       *)
(***************************************************************************)
QueueFullOnly ==
    \A t \in Tags : "full" \in Range(reports[t]) => outcome[t] = "full"

(***************************************************************************)
(* connect_remote() always comes to an answer: the time-out sees to it     *)
(* when the remote says nothing, or says BYE, or we disconnect meanwhile.  *)
(***************************************************************************)
ConnectAnswered ==
    \A id \in ConnIds :
        id \in DOMAIN issued \cup DOMAIN pending_connects ~> callbacks[id] # <<>>
=============================================================================
