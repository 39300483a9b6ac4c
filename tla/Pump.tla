------------------------------- MODULE Pump -------------------------------
(***************************************************************************)
(* What one direction of the relay promises, whatever the other direction  *)
(* does: a writer appends chunks to a stream and closes it, the pump hands *)
(* them to a reader one by one and in order (so a count of each is all     *)
(* there is to say), and it may report "complete" only when the stream is  *)
(* closed and nothing is left.  "cut" is the other way to stop: the        *)
(* process ended first.                                                    *)
(***************************************************************************)
EXTENDS Naturals

VARIABLES
  sent,     \* chunks the writer has produced
  closed,   \* the writer has closed its end
  got,      \* chunks handed to the reader
  state     \* "flow", "complete" or "cut"

vars == <<sent, closed, got, state>>

Init ==
  /\ sent = 0
  /\ closed = FALSE
  /\ got = 0
  /\ state = "flow"

Send ==
  /\ ~closed
  /\ sent' = sent + 1
  /\ UNCHANGED <<closed, got, state>>

Close ==
  /\ ~closed
  /\ closed' = TRUE
  /\ UNCHANGED <<sent, got, state>>

Deliver ==
  /\ state = "flow"
  /\ got < sent
  /\ got' = got + 1
  /\ UNCHANGED <<sent, closed, state>>

Complete ==
  /\ state = "flow"
  /\ closed
  /\ got = sent
  /\ state' = "complete"
  /\ UNCHANGED <<sent, closed, got>>

Cut ==
  /\ state = "flow"
  /\ state' = "cut"
  /\ UNCHANGED <<sent, closed, got>>

Next == Send \/ Close \/ Deliver \/ Complete \/ Cut

Spec == Init /\ [][Next]_vars
=============================================================================
