------------------------------- MODULE UrlService -------------------------------
(***************************************************************************)
(* What getpushurl and getSecret promise to the threads that call them:    *)
(* requests are served one at a time, each caller is given the answer to   *)
(* its own request, and the service is free again afterwards.              *)
(***************************************************************************)
CONSTANTS Callers, Nobody

VARIABLES holder,   \* the caller being served
          answer    \* per caller, whose answer it has, Nobody's at first

vars == <<holder, answer>>

Init == holder = Nobody /\ answer = [c \in Callers |-> Nobody]

\* A caller asks (again): what it had is void.
Ask(c) ==
    /\ holder # c
    /\ answer' = [answer EXCEPT ![c] = Nobody]
    /\ UNCHANGED holder

Serve(c) ==
    /\ holder = Nobody /\ answer[c] = Nobody
    /\ holder' = c
    /\ UNCHANGED answer

Answer(c) ==
    /\ holder = c /\ answer[c] = Nobody
    /\ answer' = [answer EXCEPT ![c] = c]
    /\ UNCHANGED holder

Release(c) ==
    /\ holder = c /\ answer[c] = c
    /\ holder' = Nobody
    /\ UNCHANGED answer

Next == \E c \in Callers : Ask(c) \/ Serve(c) \/ Answer(c) \/ Release(c)

Spec == Init /\ [][Next]_vars

\* Who is served is answered and lets the service go.
Fairness == \A c \in Callers : WF_vars(Answer(c)) /\ WF_vars(Release(c))

FairSpec == Spec /\ Fairness
=============================================================================
