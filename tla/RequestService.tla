--------------------------- MODULE RequestService ---------------------------
(***************************************************************************)
(* What OxenMQ::request() promises (oxenmq.h, request() and ReplyCallback):*)
(* its callback is called exactly once, with a reply or with the reason    *)
(* why there is none.                                                      *)
(***************************************************************************)
EXTENDS Sequences

CONSTANTS Tags, Results

VARIABLES
    asked,    \* the requests that were made
    answers   \* Tags -> the results its callback was called with

vars == <<asked, answers>>

Init ==
    /\ asked = {}
    /\ answers = [t \in Tags |-> <<>>]

Ask(t) ==
    /\ t \notin asked
    /\ asked' = asked \cup {t}
    /\ UNCHANGED answers

Answer(t) ==
    /\ t \in asked
    /\ answers[t] = <<>>
    /\ \E r \in Results : answers' = [answers EXCEPT ![t] = <<r>>]
    /\ UNCHANGED asked

(* One step of the proxy may time several requests out. *)
Expire(late) ==
    /\ late # {} /\ \A t \in late : t \in asked /\ answers[t] = <<>>
    /\ answers' = [t \in Tags |-> IF t \in late THEN <<"timeout">> ELSE answers[t]]
    /\ UNCHANGED asked

Next ==
    \/ \E t \in Tags : Ask(t) \/ Answer(t)
    \/ \E late \in SUBSET Tags : Expire(late)

Safe == Init /\ [][Next]_vars
Spec == Safe /\ \A t \in Tags : WF_vars(Answer(t))
=============================================================================
