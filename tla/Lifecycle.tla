----------------------------- MODULE Lifecycle ------------------------------
(***************************************************************************)
(* main.go from the choice of the agent to the end of the process: the     *)
(* applications are started in goroutines of their own, the event loop     *)
(* runs menu handlers (menu.go, app/pubkey.go) on main's goroutine, and    *)
(* quitting cancels the context, waits for the applications or for 5 s,    *)
(* and closes the CAPIAgent in a deferred call.                            *)
(*                                                                         *)
(* Of an application there is left whether its Run reacts to the context   *)
(* and when it waits for its handlers (AcceptLoop, Pageant and VSock have  *)
(* the details), and one connection; of the CAPIAgent its mutex, held      *)
(* through PIN prompts (CapiAgent).                                        *)
(***************************************************************************)
EXTENDS Naturals

CONSTANTS
  Draining,   \* applications that drain and return when the context is cancelled
  Ignoring,   \* those that return on an error only: XShell and VSock
  Waiting,    \* those that wait for their handlers before they return an error too:
              \* NamedPipe, Pageant and XShell, but not WSL, Cygwin and VSock
  PubKeyView, \* the application whose Run only stores the agent
  Main        \* main as the holder of the mutex

Apps == Draining \cup Ignoring \cup {PubKeyView}

ASSUME LifecycleAssumption ==
  /\ Draining \cap Ignoring = {} /\ PubKeyView \notin Draining \cup Ignoring
  /\ Main \notin Apps
  /\ Waiting \subseteq Draining \cup Ignoring

VARIABLES
  main,       \* program counter of main
  capi,       \* the agent has a CAPIAgent
  app,        \* per application: its goroutine
  wg,         \* the WaitGroup
  conn,       \* per application: its connection
  mutex,      \* of the CAPIAgent
  ag,         \* PubKeyView.ag is assigned
  quit,       \* Quit was chosen or an interrupt has come
  cancelled,
  timedOut    \* main has stopped waiting after 5 s

vars == <<main, capi, app, wg, conn, mutex, ag, quit, cancelled, timedOut>>

None == "none"

TypeOK ==
  /\ main \in {"start", "startError", "loop", "list", "box", "addError", "cleanup",
               "wait", "close", "exited", "panic"}
  /\ capi \in BOOLEAN
  /\ app \in [Apps -> {"none", "started", "running", "failed", "drained", "ended"}]
  /\ wg \in Nat
  /\ conn \in [Apps -> {"none", "idle", "lock", "prompt"}]
  /\ mutex \in Apps \cup {Main, None}
  /\ ag \in BOOLEAN /\ quit \in BOOLEAN /\ cancelled \in BOOLEAN /\ timedOut \in BOOLEAN

Init ==
  /\ main = "start" /\ capi \in BOOLEAN
  /\ app = [a \in Apps |-> "none"] /\ wg = 0
  /\ conn = [a \in Apps |-> "none"] /\ mutex = None
  /\ ag = FALSE /\ quit = FALSE /\ cancelled = FALSE /\ timedOut = FALSE

Alive == main \notin {"exited", "panic"}
-----------------------------------------------------------------------------
(* main. *)

\* initSystray fails, and main returns after a message box.
SystrayFails ==
  /\ main = "start" /\ \A a \in Apps : app[a] = "none"
  /\ main' = "startError"
  /\ UNCHANGED <<capi, app, wg, conn, mutex, ag, quit, cancelled, timedOut>>

\* Mutant: wg.Add is left to the goroutine.
StartApp_LateAdd(a) ==
  /\ main = "start" /\ app[a] = "none"
  /\ app' = [app EXCEPT ![a] = "started"]
  /\ UNCHANGED <<main, capi, wg, conn, mutex, ag, quit, cancelled, timedOut>>

\* One turn of the loop over applications.
StartApp(a) ==
  /\ main = "start" /\ app[a] = "none"
  /\ app' = [app EXCEPT ![a] = "started"]
  /\ wg' = wg + 1
  /\ UNCHANGED <<main, capi, conn, mutex, ag, quit, cancelled, timedOut>>

\* sysTray.Add, or an error and a message box.
ShowSystray ==
  /\ main = "start" /\ \A a \in Apps : app[a] # "none"
  /\ main' \in {"loop", "addError"}
  /\ UNCHANGED <<capi, app, wg, conn, mutex, ag, quit, cancelled, timedOut>>

\* menu.Handle: a box with settings; the public keys take a List, on an agent
\* that PubKeyView.Run may not have assigned yet.
MenuClick ==
  /\ main = "loop"
  /\ \/ main' = "box"
     \/ main' = IF ag THEN "list" ELSE "panic"
  /\ UNCHANGED <<capi, app, wg, conn, mutex, ag, quit, cancelled, timedOut>>

\* List, under the mutex if there is a CAPIAgent; its result goes into a box.
ListLock ==
  /\ main = "list" /\ capi /\ mutex = None
  /\ mutex' = Main
  /\ UNCHANGED <<main, capi, app, wg, conn, ag, quit, cancelled, timedOut>>

ListReturn ==
  /\ main = "list" /\ (capi => mutex = Main)
  /\ main' = "box"
  /\ mutex' = IF capi THEN None ELSE mutex
  /\ UNCHANGED <<capi, app, wg, conn, ag, quit, cancelled, timedOut>>

\* The user closes a box of main's.
BoxClosed ==
  /\ \/ main = "box" /\ main' = "loop"
     \/ main = "startError" /\ main' = "exited"
     \/ main = "addError" /\ main' = "cleanup"
  /\ UNCHANGED <<capi, app, wg, conn, mutex, ag, quit, cancelled, timedOut>>

\* From the event loop, or after the box for sysTray.Add.
Cleanup ==
  /\ (main = "loop" /\ quit) \/ main = "cleanup"
  /\ cancelled' = TRUE
  /\ main' = "wait"
  /\ UNCHANGED <<capi, app, wg, conn, mutex, ag, quit, timedOut>>

Deferred == IF capi THEN "close" ELSE "exited"

\* wg.Wait has returned in its goroutine.
WaitDone ==
  /\ main = "wait" /\ wg = 0
  /\ main' = Deferred
  /\ UNCHANGED <<capi, app, wg, conn, mutex, ag, quit, cancelled, timedOut>>

\* Mutant: main waits for the applications only.
WaitTimeout_Never == FALSE

WaitTimeout ==
  /\ main = "wait"
  /\ timedOut' = TRUE
  /\ main' = Deferred
  /\ UNCHANGED <<capi, app, wg, conn, mutex, ag, quit, cancelled>>

\* The deferred CAPIAgent.Close takes and gives back the mutex; main returns.
DeferredClose ==
  /\ main = "close" /\ mutex = None
  /\ main' = "exited"
  /\ UNCHANGED <<capi, app, wg, conn, mutex, ag, quit, cancelled, timedOut>>

-----------------------------------------------------------------------------
(* The goroutine of an application. *)

\* Mutant: wg.Done also when the box comes up.
Finished_Early(a, how) == app' = [app EXCEPT ![a] = how] /\ wg' = wg - 1

\* Run has returned; an error is shown before wg.Done.
Finished(a, how) ==
  /\ app' = [app EXCEPT ![a] = how]
  /\ wg' = IF how = "failed" THEN wg ELSE wg - 1

\* How Run ends without a cancel; VSock also returns nil, without a Hyper-V
\* service or when its Accept fails.
Ends(a) == {"failed"} \cup (IF a \in Ignoring \ Waiting THEN {"ended"} ELSE {})

\* Run begins: it listens or ends at once.  PubKeyView stores the agent and is
\* done.
RunStarts(a) ==
  /\ Alive /\ app[a] = "started"
  /\ IF a = PubKeyView THEN ag' = TRUE /\ Finished(a, "ended")
     ELSE /\ UNCHANGED ag
          /\ \/ app' = [app EXCEPT ![a] = "running"] /\ UNCHANGED wg
             \/ \E how \in Ends(a) : Finished(a, how)
  /\ UNCHANGED <<main, capi, conn, mutex, quit, cancelled, timedOut>>

\* A failing Accept.  WSL, Cygwin and VSock return at once and leave their
\* handlers running, the others when their handlers have.
RunFails(a) ==
  /\ Alive /\ app[a] = "running" /\ (a \in Waiting => conn[a] = "none")
  /\ \E how \in Ends(a) : Finished(a, how)
  /\ UNCHANGED <<main, capi, conn, mutex, ag, quit, cancelled, timedOut>>

\* The user closes the box of an application.
ErrorBoxClosed(a) ==
  /\ Alive /\ app[a] = "failed"
  /\ Finished(a, "ended")
  /\ UNCHANGED <<main, capi, conn, mutex, ag, quit, cancelled, timedOut>>

\* Run returns on cancel, when its handlers have.
RunDrained(a) ==
  /\ Alive /\ a \in Draining /\ app[a] = "running" /\ cancelled /\ conn[a] = "none"
  /\ Finished(a, "drained")
  /\ UNCHANGED <<main, capi, conn, mutex, ag, quit, cancelled, timedOut>>

-----------------------------------------------------------------------------
(* A connection, and the user. *)

\* Also just after the context was cancelled.
Connect(a) ==
  /\ Alive /\ app[a] = "running" /\ conn[a] = "none"
  /\ conn' = [conn EXCEPT ![a] = "idle"]
  /\ UNCHANGED <<main, capi, app, wg, mutex, ag, quit, cancelled, timedOut>>

\* It asks for a signature of the CAPIAgent, or ends.
Request(a) ==
  /\ Alive /\ conn[a] = "idle"
  /\ conn' \in {[conn EXCEPT ![a] = s] : s \in {"none"} \cup (IF capi THEN {"lock"} ELSE {})}
  /\ UNCHANGED <<main, capi, app, wg, mutex, ag, quit, cancelled, timedOut>>

SignLock(a) ==
  /\ Alive /\ conn[a] = "lock" /\ mutex = None
  /\ mutex' = a
  /\ conn' = [conn EXCEPT ![a] = "prompt"]
  /\ UNCHANGED <<main, capi, app, wg, ag, quit, cancelled, timedOut>>

\* The user enters the PIN or dismisses the prompt; the mutex is given back.
SignReturn(a) ==
  /\ Alive /\ conn[a] = "prompt"
  /\ mutex' = None
  /\ conn' = [conn EXCEPT ![a] = "idle"]
  /\ UNCHANGED <<main, capi, app, wg, ag, quit, cancelled, timedOut>>

\* Quit in the menu or an interrupt: a channel that main reads in its loop.
Quit ==
  /\ Alive /\ main \notin {"start", "startError"} /\ ~quit
  /\ quit' = TRUE
  /\ UNCHANGED <<main, capi, app, wg, conn, mutex, ag, cancelled, timedOut>>

-----------------------------------------------------------------------------
MainSteps == \/ \E a \in Apps : StartApp(a)
             \/ ShowSystray \/ ListReturn \/ WaitDone \/ WaitTimeout

Next ==
  \/ SystrayFails \/ MainSteps \/ MenuClick \/ ListLock \/ BoxClosed \/ Cleanup \/ DeferredClose
  \/ \E a \in Apps : \/ RunStarts(a) \/ RunFails(a) \/ ErrorBoxClosed(a) \/ RunDrained(a)
                     \/ Connect(a) \/ Request(a) \/ SignLock(a) \/ SignReturn(a)
  \/ Quit

Spec == Init /\ [][Next]_vars

\* main's goroutine is scheduled and the timer fires; Go's select is fair
\* between ready channels and its mutex between waiting goroutines.
Fairness ==
  WF_vars(MainSteps) /\ SF_vars(Cleanup) /\ SF_vars(ListLock) /\ SF_vars(DeferredClose)

\* The user closes the boxes of main's goroutine and answers PIN prompts.
UserAnswers == WF_vars(BoxClosed) /\ \A a \in Apps : WF_vars(SignReturn(a))

FairSpec == Spec /\ Fairness /\ UserAnswers
-----------------------------------------------------------------------------
(* Properties. *)

\* If main did not run into its 5 s, every application has returned, and the
\* exit cuts off only clients that their application had abandoned before: the
\* Accept of WSL, Cygwin or VSock failed and Run returned without waiting for
\* its handlers.  No client of NamedPipe, Pageant or XShell is cut off, and none
\* of an application that drained, also when applications fail, wait for their
\* error box or have hardly started when the user quits.
CutOffOnlyIfAbandoned ==
  main \in {"close", "exited"} /\ cancelled /\ ~timedOut =>
    \A a \in Apps : /\ app[a] \in {"drained", "ended"}
                    /\ conn[a] # "none" => app[a] = "ended" /\ a \notin Waiting

\* Quitting ends the process, whatever the applications do and although some
\* of them never return, if the user answers PIN prompts and the boxes of
\* main's goroutine; error boxes of applications need no answer.
QuitEnds == quit ~> ~Alive
=============================================================================
