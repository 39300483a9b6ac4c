--------------------------- MODULE LifecycleProofs --------------------------
(***************************************************************************)
(* Proofs about Lifecycle, for any sets of applications.                   *)
(***************************************************************************)
EXTENDS Lifecycle, FiniteSets, FiniteSetTheorems, TLAPS

-----------------------------------------------------------------------------
(* The inductive invariant. *)

\* Applications whose goroutine has not called wg.Done.
Busy == {a \in Apps : app[a] \in {"started", "running", "failed"}}

\* The WaitGroup counts them.
WgInv == IsFiniteSet(Busy) /\ wg = Cardinality(Busy)

\* The context is cancelled by Cleanup only.
CancelInv == cancelled => main \in {"wait", "close", "exited"}

\* Past the loop over applications every one of them was started; a process
\* that has ended without a cancel may have started none.
StartedInv ==
  main \notin {"start", "startError"} /\ (main = "exited" => cancelled) =>
    \A a \in Apps : app[a] # "none"

\* Who has no client: an application before it runs and after it has drained,
\* and one that waits for its handlers also after an error.
NoClient(a) ==
  \/ app[a] \in {"none", "started", "drained"}
  \/ a \in Waiting /\ app[a] \in {"failed", "ended"}

DrainedInv == \A a \in Apps : NoClient(a) => conn[a] = "none"

IInv == TypeOK /\ WgInv /\ CancelInv /\ StartedInv /\ DrainedInv /\ CutOffOnlyIfAbandoned

-----------------------------------------------------------------------------
(* The WaitGroup. *)

\* Once it is down to zero nobody is busy.
LEMMA NoneBusy ==
  ASSUME WgInv, wg = 0, NEW a \in Apps
  PROVE app[a] \notin {"started", "running", "failed"}
  <1>1. Busy = {} BY FS_EmptySet DEF WgInv
  <1> QED BY <1>1 DEF Busy

\* It stays right while nobody becomes busy or ceases to be.
LEMMA SameBusy ==
  ASSUME WgInv, UNCHANGED wg,
         \A a \in Apps : app'[a] \in {"started", "running", "failed"}
                         <=> app[a] \in {"started", "running", "failed"}
  PROVE WgInv'
  <1>1. Busy' = Busy BY DEF Busy
  <1> QED BY <1>1 DEF WgInv

\* wg.Add comes with the start of a goroutine.
LEMMA OneMoreBusy ==
  ASSUME TypeOK, WgInv, NEW a \in Apps, app[a] = "none",
         app' = [app EXCEPT ![a] = "started"], wg' = wg + 1
  PROVE WgInv'
  <1>1. Busy' = Busy \cup {a} /\ a \notin Busy BY DEF TypeOK, Busy
  <1>2. IsFiniteSet(Busy') /\ Cardinality(Busy') = Cardinality(Busy) + 1
    BY <1>1, FS_AddElement DEF WgInv
  <1> QED BY <1>2 DEF WgInv

\* wg.Done comes with the end of one.
LEMMA OneLessBusy ==
  ASSUME TypeOK, WgInv, NEW a \in Apps, app[a] \in {"started", "running", "failed"},
         NEW how \in {"drained", "ended"},
         app' = [app EXCEPT ![a] = how], wg' = wg - 1
  PROVE WgInv' /\ wg' \in Nat
  <1>1. Busy' = Busy \ {a} /\ a \in Busy BY DEF TypeOK, Busy
  <1>2. IsFiniteSet(Busy') /\ Cardinality(Busy') = Cardinality(Busy) - 1
    BY <1>1, FS_RemoveElement DEF WgInv
  <1>3. Cardinality(Busy') \in Nat BY <1>2, FS_CardinalityType
  <1> QED BY <1>2, <1>3 DEF WgInv

\* The end of Run keeps the count, with a box in between or without.
LEMMA FinishedCounts ==
  ASSUME TypeOK, WgInv, NEW a \in Apps, app[a] \in {"started", "running", "failed"},
         NEW how \in {"failed", "drained", "ended"}, Finished(a, how)
  PROVE /\ WgInv' /\ wg' \in Nat /\ app' = [app EXCEPT ![a] = how]
        /\ app' \in [Apps -> {"none", "started", "running", "failed", "drained", "ended"}]
  <1>1. app' = [app EXCEPT ![a] = how] BY DEF Finished
  <1>2. app' \in [Apps -> {"none", "started", "running", "failed", "drained", "ended"}]
    BY <1>1 DEF TypeOK
  <1>3. CASE how = "failed"
    <2>1. UNCHANGED wg BY <1>3 DEF Finished
    <2>2. \A b \in Apps : app'[b] \in {"started", "running", "failed"}
                          <=> app[b] \in {"started", "running", "failed"}
      BY <1>1, <1>3 DEF TypeOK
    <2> QED BY <1>1, <1>2, <2>1, <2>2, SameBusy DEF TypeOK
  <1>4. CASE how # "failed"
    <2>1. wg' = wg - 1 BY <1>4 DEF Finished
    <2> QED BY <1>1, <1>2, <1>4, <2>1, OneLessBusy
  <1> QED BY <1>3, <1>4

-----------------------------------------------------------------------------
(* The steps. *)

\* The initial states satisfy the invariant.
LEMMA InitIInv == Init => IInv
  <1> SUFFICES ASSUME Init PROVE IInv OBVIOUS
  <1>1. capi \in BOOLEAN /\ ag \in BOOLEAN /\ quit \in BOOLEAN /\ cancelled \in BOOLEAN /\ timedOut \in BOOLEAN
    BY Zenon DEF Init
  <1>2. TypeOK BY <1>1 DEF Init, TypeOK
  <1>3. Busy = {} BY DEF Init, Busy
  <1>4. WgInv BY <1>3, FS_EmptySet DEF Init, WgInv
  <1> QED BY <1>2, <1>4 DEF Init, IInv, CancelInv, StartedInv, DrainedInv, NoClient, CutOffOnlyIfAbandoned

\* A step of main that starts no application and ends no wait.
LEMMA MainStep ==
  ASSUME IInv, UNCHANGED <<capi, app, wg, conn, ag, timedOut>>,
         SystrayFails \/ ShowSystray \/ MenuClick \/ ListLock \/ ListReturn
           \/ BoxClosed \/ Cleanup \/ DeferredClose \/ Quit
  PROVE IInv'
  <1>1. mutex' \in Apps \cup {Main, None}
    <2>1. UNCHANGED mutex \/ mutex' = Main \/ mutex' = None
      BY DEF SystrayFails, ShowSystray, MenuClick, ListLock, ListReturn, BoxClosed, Cleanup,
             DeferredClose, Quit
    <2> QED BY <2>1 DEF IInv, TypeOK
  <1>2. quit' \in BOOLEAN
    <2>1. UNCHANGED quit \/ quit' = TRUE
      BY Zenon DEF SystrayFails, ShowSystray, MenuClick, ListLock, ListReturn, BoxClosed, Cleanup,
             DeferredClose, Quit
    <2> QED BY <2>1, Zenon DEF IInv, TypeOK
  <1>3. cancelled' \in BOOLEAN
    <2>1. UNCHANGED cancelled \/ cancelled' = TRUE
      BY Zenon DEF SystrayFails, ShowSystray, MenuClick, ListLock, ListReturn, BoxClosed, Cleanup,
             DeferredClose, Quit
    <2> QED BY <2>1, Zenon DEF IInv, TypeOK
  <1>4. \/ main' \in {"startError", "loop", "list", "box", "addError", "cleanup", "wait", "exited", "panic"}
        \/ UNCHANGED main
    BY DEF SystrayFails, ShowSystray, MenuClick, ListLock, ListReturn, BoxClosed, Cleanup,
           DeferredClose, Quit
  <1>5. TypeOK' BY <1>1, <1>2, <1>3, <1>4 DEF IInv, TypeOK
  <1>6. WgInv' BY SameBusy DEF IInv
  <1>7. DrainedInv' BY DEF IInv, DrainedInv, NoClient
  <1>8. CancelInv' /\ StartedInv' /\ CutOffOnlyIfAbandoned'
    <2>1. CASE SystrayFails BY <2>1 DEF SystrayFails, IInv, CancelInv, StartedInv, CutOffOnlyIfAbandoned
    <2>2. CASE ShowSystray BY <2>2 DEF ShowSystray, IInv, CancelInv, StartedInv, CutOffOnlyIfAbandoned
    <2>3. CASE MenuClick BY <2>3 DEF MenuClick, IInv, CancelInv, StartedInv, CutOffOnlyIfAbandoned
    <2>4. CASE ListLock \/ ListReturn BY <2>4 DEF ListLock, ListReturn, IInv, CancelInv, StartedInv, CutOffOnlyIfAbandoned
    <2>5. CASE BoxClosed BY <2>5 DEF BoxClosed, IInv, CancelInv, StartedInv, CutOffOnlyIfAbandoned
    <2>6. CASE Cleanup BY <2>6 DEF Cleanup, IInv, CancelInv, StartedInv, CutOffOnlyIfAbandoned
    <2>7. CASE DeferredClose BY <2>7 DEF DeferredClose, IInv, CancelInv, StartedInv, CutOffOnlyIfAbandoned
    <2>8. CASE Quit BY <2>8 DEF Quit, IInv, CancelInv, StartedInv, CutOffOnlyIfAbandoned
    <2> QED BY <2>1, <2>2, <2>3, <2>4, <2>5, <2>6, <2>7, <2>8
  <1> QED BY <1>5, <1>6, <1>7, <1>8 DEF IInv

\* The loop over applications.
LEMMA StartAppStep == ASSUME IInv, NEW a \in Apps, StartApp(a) PROVE IInv'
  <1>1. /\ main = "start" /\ app[a] = "none" /\ app' = [app EXCEPT ![a] = "started"] /\ wg' = wg + 1
        /\ UNCHANGED <<main, capi, conn, mutex, ag, quit, cancelled, timedOut>>
    BY DEF StartApp
  <1>2. TypeOK' BY <1>1 DEF IInv, TypeOK
  <1>3. WgInv' BY <1>1, OneMoreBusy DEF IInv
  <1>4. DrainedInv' BY <1>1 DEF IInv, TypeOK, DrainedInv, NoClient
  <1> QED BY <1>1, <1>2, <1>3, <1>4 DEF IInv, CancelInv, StartedInv, CutOffOnlyIfAbandoned

\* main stops waiting: because the count is zero and all have returned, or
\* after 5 s.
LEMMA WaitStep == ASSUME IInv, WaitDone \/ WaitTimeout PROVE IInv'
  <1>1. /\ main = "wait" /\ main' \in {"close", "exited"}
        /\ UNCHANGED <<capi, app, wg, conn, mutex, ag, quit, cancelled>>
    BY DEF WaitDone, WaitTimeout, Deferred
  <1>2. (UNCHANGED timedOut /\ wg = 0) \/ timedOut' = TRUE BY Zenon DEF WaitDone, WaitTimeout
  <1>3. timedOut' \in BOOLEAN BY <1>2, Zenon DEF IInv, TypeOK
  <1>4. TypeOK' BY <1>1, <1>3 DEF IInv, TypeOK
  <1>5. WgInv' BY <1>1, SameBusy DEF IInv
  <1>6. CancelInv' /\ StartedInv' /\ DrainedInv' BY <1>1 DEF IInv, CancelInv, StartedInv, DrainedInv, NoClient
  <1>7. CutOffOnlyIfAbandoned'
    <2>1. CASE timedOut' BY <2>1 DEF CutOffOnlyIfAbandoned
    <2>2. CASE ~timedOut'
      <3>1. wg = 0 BY <1>2, <2>2
      <3>2. ASSUME NEW a \in Apps
            PROVE app[a] \in {"drained", "ended"} /\ (app[a] = "drained" \/ a \in Waiting => conn[a] = "none")
        <4>1. app[a] \notin {"started", "running", "failed"} BY <3>1, NoneBusy DEF IInv
        <4>2. app[a] # "none" BY <1>1 DEF IInv, StartedInv
        <4> QED BY <4>1, <4>2 DEF IInv, TypeOK, DrainedInv, NoClient
      <3> QED BY <1>1, <3>2 DEF CutOffOnlyIfAbandoned
    <2> QED BY <2>1, <2>2
  <1> QED BY <1>4, <1>5, <1>6, <1>7 DEF IInv

\* In a process that is about to end, or has ended, without running into its
\* 5 s no application moves.
LEMMA AppMoves ==
  ASSUME IInv, NEW a \in Apps, app[a] \in {"started", "running", "failed"},
         NEW s \in {"running", "failed", "drained", "ended"},
         app' = [app EXCEPT ![a] = s],
         s = "drained" \/ (s # "running" /\ a \in Waiting) => conn[a] = "none",
         UNCHANGED <<main, conn, cancelled, timedOut>>
  PROVE CancelInv' /\ StartedInv' /\ DrainedInv' /\ CutOffOnlyIfAbandoned'
  <1>1. CancelInv' BY DEF IInv, CancelInv
  <1>2. StartedInv' BY DEF IInv, TypeOK, StartedInv
  <1>3. DrainedInv' BY DEF IInv, TypeOK, DrainedInv, NoClient
  <1>4. ~(main \in {"close", "exited"} /\ cancelled /\ ~timedOut) BY DEF IInv, CutOffOnlyIfAbandoned
  <1>5. CutOffOnlyIfAbandoned' BY <1>4 DEF CutOffOnlyIfAbandoned
  <1> QED BY <1>1, <1>2, <1>3, <1>5

\* Run begins.
LEMMA RunStartsStep == ASSUME IInv, NEW a \in Apps, RunStarts(a) PROVE IInv'
  <1>1. app[a] = "started" /\ UNCHANGED <<main, capi, conn, mutex, quit, cancelled, timedOut>>
    BY DEF RunStarts
  <1>2. ag' \in BOOLEAN
    <2>1. ag' = TRUE \/ ag' = ag BY Zenon DEF RunStarts
    <2> QED BY <2>1, Zenon DEF IInv, TypeOK
  <1>3. PICK s \in {"running", "failed", "ended"} :
          IF s = "running" THEN app' = [app EXCEPT ![a] = "running"] /\ UNCHANGED wg ELSE Finished(a, s)
    <2>1. CASE Finished(a, "ended") BY <2>1
    <2>2. CASE app' = [app EXCEPT ![a] = "running"] /\ UNCHANGED wg BY <2>2
    <2>3. ASSUME NEW how \in Ends(a), Finished(a, how)
          PROVE \E s \in {"running", "failed", "ended"} :
                  IF s = "running" THEN app' = [app EXCEPT ![a] = "running"] /\ UNCHANGED wg ELSE Finished(a, s)
      <3>1. how \in {"failed", "ended"} BY DEF Ends
      <3> QED BY <2>3, <3>1
    <2>4. \/ Finished(a, "ended")
          \/ app' = [app EXCEPT ![a] = "running"] /\ UNCHANGED wg
          \/ \E how \in Ends(a) : Finished(a, how)
      BY Zenon DEF RunStarts
    <2> QED BY <2>1, <2>2, <2>3, <2>4
  <1>4. /\ app' = [app EXCEPT ![a] = s] /\ WgInv' /\ wg' \in Nat
        /\ app' \in [Apps -> {"none", "started", "running", "failed", "drained", "ended"}]
    <2>1. CASE s # "running" BY <1>1, <1>3, <2>1, FinishedCounts DEF IInv
    <2>2. CASE s = "running"
      <3>1. app' = [app EXCEPT ![a] = "running"] /\ UNCHANGED wg BY <1>3, <2>2
      <3>2. \A b \in Apps : app'[b] \in {"started", "running", "failed"}
                            <=> app[b] \in {"started", "running", "failed"}
        BY <1>1, <3>1 DEF IInv, TypeOK
      <3> QED BY <2>2, <3>1, <3>2, SameBusy DEF IInv, TypeOK
    <2> QED BY <2>1, <2>2
  <1>5. TypeOK' BY <1>1, <1>2, <1>4 DEF IInv, TypeOK
  <1>6. conn[a] = "none" BY <1>1 DEF IInv, DrainedInv, NoClient
  <1>7. CancelInv' /\ StartedInv' /\ DrainedInv' /\ CutOffOnlyIfAbandoned' BY <1>1, <1>4, <1>6, AppMoves
  <1> QED BY <1>4, <1>5, <1>7 DEF IInv

\* Run ends: on an error, after its box, or on a cancel without clients.
LEMMA RunEndsStep ==
  ASSUME IInv, NEW a \in Apps, RunFails(a) \/ ErrorBoxClosed(a) \/ RunDrained(a) PROVE IInv'
  <1>1. /\ app[a] \in {"running", "failed"}
        /\ UNCHANGED <<main, capi, conn, mutex, ag, quit, cancelled, timedOut>>
    BY DEF RunFails, ErrorBoxClosed, RunDrained
  <1>2. PICK how \in {"failed", "drained", "ended"} :
          Finished(a, how) /\ (how = "drained" \/ a \in Waiting => conn[a] = "none")
    <2>1. CASE RunFails(a) BY <2>1 DEF RunFails, Ends
    <2>2. CASE ErrorBoxClosed(a) BY <2>2 DEF ErrorBoxClosed, IInv, DrainedInv, NoClient
    <2>3. CASE RunDrained(a) BY <2>3 DEF RunDrained
    <2> QED BY <2>1, <2>2, <2>3
  <1>3. /\ WgInv' /\ wg' \in Nat /\ app' = [app EXCEPT ![a] = how]
        /\ app' \in [Apps -> {"none", "started", "running", "failed", "drained", "ended"}]
    BY <1>1, <1>2, FinishedCounts DEF IInv
  <1>4. TypeOK' BY <1>1, <1>3 DEF IInv, TypeOK
  <1>5. CancelInv' /\ StartedInv' /\ DrainedInv' /\ CutOffOnlyIfAbandoned' BY <1>1, <1>2, <1>3, AppMoves
  <1> QED BY <1>3, <1>4, <1>5 DEF IInv

\* Connections come to running applications only, and all else is done by
\* one that is there.
LEMMA ConnStep ==
  ASSUME IInv, NEW a \in Apps, Connect(a) \/ Request(a) \/ SignLock(a) \/ SignReturn(a) PROVE IInv'
  <1>1. UNCHANGED <<main, capi, app, wg, ag, quit, cancelled, timedOut>>
    BY DEF Connect, Request, SignLock, SignReturn
  <1>2. ~NoClient(a) BY DEF IInv, DrainedInv, NoClient, Connect, Request, SignLock, SignReturn
  <1>3. PICK s \in {"none", "idle", "lock", "prompt"} : conn' = [conn EXCEPT ![a] = s]
    BY DEF Connect, Request, SignLock, SignReturn
  <1>4. mutex' \in Apps \cup {Main, None} BY DEF IInv, TypeOK, Connect, Request, SignLock, SignReturn
  <1>5. TypeOK' BY <1>1, <1>3, <1>4 DEF IInv, TypeOK
  <1>6. WgInv' BY <1>1, SameBusy DEF IInv
  <1>7. DrainedInv' BY <1>1, <1>2, <1>3 DEF IInv, TypeOK, DrainedInv, NoClient
  <1>8. CutOffOnlyIfAbandoned' BY <1>1, <1>7 DEF IInv, DrainedInv, NoClient, CutOffOnlyIfAbandoned
  <1> QED BY <1>1, <1>5, <1>6, <1>7, <1>8 DEF IInv, CancelInv, StartedInv

\* The invariant is inductive.
LEMMA IInvInvariant == Spec => []IInv
  <1>1. ASSUME IInv, [Next]_vars PROVE IInv'
    <2>1. CASE SystrayFails \/ ShowSystray \/ MenuClick \/ ListLock \/ ListReturn
                 \/ BoxClosed \/ Cleanup \/ DeferredClose \/ Quit
      <3>1. UNCHANGED <<capi, app, wg, conn, ag, timedOut>>
        BY <2>1 DEF SystrayFails, ShowSystray, MenuClick, ListLock, ListReturn, BoxClosed, Cleanup,
                    DeferredClose, Quit
      <3> QED BY <1>1, <2>1, <3>1, MainStep
    <2>2. CASE UNCHANGED vars
      <3>1. WgInv' BY <1>1, <2>2, SameBusy DEF vars, IInv
      <3> QED BY <1>1, <2>2, <3>1
              DEF vars, IInv, TypeOK, CancelInv, StartedInv, DrainedInv, NoClient, CutOffOnlyIfAbandoned
    <2> QED BY <1>1, <2>1, <2>2, StartAppStep, WaitStep, RunStartsStep, RunEndsStep, ConnStep
            DEF Next, MainSteps
  <1> QED BY <1>1, InitIInv, PTL DEF Spec

-----------------------------------------------------------------------------
(* What the run checks. *)

\* Every reachable state of the process is well typed; in particular wg.Done
\* is never called more often than wg.Add.
THEOREM TypeCorrect == Spec => []TypeOK
  <1>1. IInv => TypeOK BY DEF IInv
  <1> QED BY <1>1, IInvInvariant, PTL

\* An exit of the process that did not run into the 5 s finds every application
\* returned, and no client but those an application without wg.Wait on its error
\* path had left behind.
THEOREM ExitSafe == Spec => []CutOffOnlyIfAbandoned
  <1>1. IInv => CutOffOnlyIfAbandoned BY DEF IInv
  <1> QED BY <1>1, IInvInvariant, PTL
=============================================================================
