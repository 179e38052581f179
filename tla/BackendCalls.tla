---------------------------- MODULE BackendCalls ----------------------------
(***************************************************************************)
(* One request of a method of Backend: the XMLHttpRequest (external) goes  *)
(* through its ready states and calls the method's handler in each.        *)
(***************************************************************************)
EXTENDS Naturals, Sequences

LOCAL INSTANCE Backend

CONSTANTS
  CallMethods,  \* methods that are called
  Statuses      \* statuses a server or something in between may answer with

VARIABLES
  call,       \* the request: its method, how many callbacks were given, and the answer so far
  told        \* what the handler did so far: Seq([at : ready state, did : outcome])

callVars == <<call, told>>

NoCall == [state |-> "none"]    \* nothing is called
Ready == [state |-> "ready"]    \* a method is going to be called

\* What the body is: JSON where an operation describes its output or its error.  The
\* authentication of the administrator answers 401 without a body, HEAD has none at all.
BodyIsJSON(m, status) ==
  /\ m.verb # "HEAD"
  /\ status \notin {0, 202, 204, 401}

\* Mutant: the handler looks at the status in every ready state.
OnReadyStateEarly(c) ==
  told' = Append(told, [at |-> c.state, did |-> Outcome(c.m, c.given, c.status,
                                                        c.state = "done" /\ BodyIsJSON(c.m, c.status))])

\* x.onreadystatechange.
OnReadyState(c) ==
  IF c.state # "done" THEN UNCHANGED told
  ELSE told' = Append(told, [at |-> c.state,
                             did |-> Outcome(c.m, c.given, c.status, BodyIsJSON(c.m, c.status))])

Become(c) == call' = c /\ OnReadyState(c)

\* The method is called with the first n callbacks.
Send(m, n) ==
  /\ call = Ready
  /\ Become([state |-> "opened", m |-> m, given |-> n, status |-> 0])

Headers(status) ==
  /\ call.state = "opened"
  /\ status # 0
  /\ Become([call EXCEPT !.state = "headers", !.status = status])

\* A part of the body; this state is announced once per part.
Loading ==
  /\ call.state \in {"headers", "loading"}
  /\ call.m.verb # "HEAD"
  /\ Become([call EXCEPT !.state = "loading"])

Arrived ==
  /\ call.state \in {"headers", "loading"}
  /\ Become([call EXCEPT !.state = "done"])

\* The connection breaks: the status is 0.
Broken ==
  /\ call.state \in {"opened", "headers", "loading"}
  /\ Become([call EXCEPT !.state = "done", !.status = 0])

CallInit(c) == call = c /\ told = << >>

CallNext ==
  \/ \E m \in CallMethods : \E n \in 0..Len(m.arms) : Send(m, n)
  \/ \E status \in Statuses : Headers(status)
  \/ Loading \/ Arrived \/ Broken
-----------------------------------------------------------------------------
(* Properties *)

\* Of one request the page hears at most once, and not before the answer is complete, however
\* often the browser announces progress.
ToldOnce ==
  /\ Len(told) <= 1
  /\ told # << >> => call.state = "done"

\* A complete answer whose status is described reaches the callback that was given for it,
\* whatever the method; but for 401, which comes without the body the handler decodes.
AnswerReachesPage ==
  call.state = "done" /\ call.status # 401 /\ Arm(call.m, call.status) \cap 1..call.given # {}
    => \E k \in DOMAIN told : told[k].did = "called"

=============================================================================
