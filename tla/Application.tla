---------------------------- MODULE Application -----------------------------
(***************************************************************************)
(* What main relies on when it runs an application (app/app.go): Run comes *)
(* to an end at most once, it returns without error only after the context *)
(* was cancelled, and then no connection it has accepted is left, neither  *)
(* unserved nor half served.  policy says how far the application keeps to *)
(* this: "drain" waits for its connections before any return, "onCancel"   *)
(* before one without error, "never" waits for none.                       *)
(***************************************************************************)
VARIABLES
  policy,
  state,      \* of Run: "started", "running", "drained", "failed", "ended"
  busy,       \* connections accepted and not yet finished
  cancelled   \* the context

vars == <<policy, state, busy, cancelled>>

Init ==
  /\ policy \in {"drain", "onCancel", "never"}
  /\ state = "started" /\ busy = {} /\ cancelled = FALSE

\* Run listens, cannot, or finds that there is nothing to do.
Begin ==
  /\ state = "started"
  /\ state' \in {"running", "failed"} \cup (IF policy = "never" THEN {"ended"} ELSE {})
  /\ UNCHANGED <<policy, busy, cancelled>>

\* A running application accepts a connection.
Take ==
  /\ state = "running"
  /\ \E c \in busy' : c \notin busy /\ busy' = busy \cup {c}
  /\ UNCHANGED <<policy, state, cancelled>>

\* A connection is finished, at any time.
Finish ==
  /\ \E c \in busy : busy' = busy \ {c}
  /\ UNCHANGED <<policy, state, cancelled>>

\* Run returns nil, or an error, or gives up without telling.
Drained ==
  /\ state = "running" /\ cancelled /\ busy = {} /\ policy # "never"
  /\ state' = "drained"
  /\ UNCHANGED <<policy, busy, cancelled>>

Failed ==
  /\ state = "running" /\ (policy = "drain" => busy = {})
  /\ state' = IF policy = "never" THEN "ended" ELSE "failed"
  /\ UNCHANGED <<policy, busy, cancelled>>

Cancel ==
  /\ ~cancelled /\ cancelled' = TRUE
  /\ UNCHANGED <<policy, state, busy>>

Next == Begin \/ Take \/ Finish \/ Drained \/ Failed \/ Cancel

Spec == Init /\ [][Next]_vars
=============================================================================
