---------------------------- MODULE VSockProofs ----------------------------
(***************************************************************************)
(* Proofs about VSock, for any set of VMs and any bound of events.         *)
(***************************************************************************)
EXTENDS VSock, TLAPS

\* The inductive invariant: the types, without which workers is no function,
\* and the tie of the map of workers to the last scan.
IInv == TypeOK /\ WorkersOfLastScan

\* The initial states satisfy IInv.
LEMMA InitOK == Init => IInv
<1> SUFFICES ASSUME Init PROVE IInv
  OBVIOUS
<1>1. wmiOK \in BOOLEAN /\ cancelled \in BOOLEAN
  BY Zenon DEF Init
<1>2. WorkersOfLastScan
  BY DEF Init, WorkersOfLastScan
<1>3. TypeOK
  BY <1>1, VSockAssumption DEF Init, TypeOK
<1> QED
  BY <1>2, <1>3 DEF IInv

\* Every step preserves IInv: Apply moves the workers and the last scan
\* together, a worker that dies stays in the map, nothing else touches either.
LEMMA StepOK == IInv /\ [Next]_vars => IInv'
<1> SUFFICES ASSUME IInv, [Next]_vars PROVE IInv'
  OBVIOUS
<1> USE VSockAssumption DEF IInv, TypeOK, WorkersOfLastScan, notify, environment
<1>1. CASE Start
  BY <1>1 DEF Start
<1>2. CASE AcceptError
  BY <1>2 DEF AcceptError
<1>3. CASE Subscribe
  BY <1>3 DEF Subscribe, StartNotify
<1>4. CASE GetVMIDs
  BY <1>4 DEF GetVMIDs
<1>5. CASE Apply
  <2>1. \A v \in VMs : workers'[v] # "none" => v \in snapshot
    BY <1>5 DEF Apply, VmidDiff
  <2>2. workers' \in [VMs -> {"none", "listening", "dead"}]
    BY <1>5 DEF Apply, VmidDiff
  <2> QED
    BY <1>5, <2>1, <2>2 DEF Apply
<1>6. CASE WaitCancelled
  BY <1>6 DEF WaitCancelled
<1>7. CASE WaitEvent
  BY <1>7 DEF WaitEvent
<1>8. CASE WaitTimer
  BY <1>8 DEF WaitTimer
<1>9. CASE DispatchEvent
  BY <1>9 DEF DispatchEvent
<1>10. CASE DispatchDone
  BY <1>10 DEF DispatchDone
<1>11. CASE DispatchSend
  BY <1>11 DEF DispatchSend
<1>12. ASSUME NEW v \in VMs, VMChange(v) PROVE IInv'
  BY <1>12 DEF VMChange
<1>13. ASSUME NEW v \in VMs, ListenChange(v) PROVE IInv'
  BY <1>13 DEF ListenChange
<1>14. ASSUME NEW v \in VMs, WorkerDies(v) PROVE IInv'
  BY <1>14 DEF WorkerDies
<1>15. CASE WMIChange
  BY <1>15 DEF WMIChange
<1>16. CASE NotifierFails
  BY <1>16 DEF NotifierFails
<1>17. CASE Cancel
  BY <1>17 DEF Cancel
<1>18. CASE UNCHANGED vars
  BY <1>18 DEF vars
<1> QED
  BY <1>1, <1>2, <1>3, <1>4, <1>5, <1>6, <1>7, <1>8, <1>9, <1>10, <1>11, <1>12, <1>13,
     <1>14, <1>15, <1>16, <1>17, <1>18 DEF Next, Watch, Dispatch, Environment

\* The invariant holds in every reachable state of the transport.
THEOREM Inductive == Spec => []IInv
  BY InitOK, StepOK, PTL DEF Spec

\* The variables of the transport keep their types: in particular the channel
\* of dispatch never holds more than its one event.
THEOREM TypeCorrect == Spec => []TypeOK
<1>1. IInv => TypeOK
  BY DEF IInv
<1> QED
  BY Inductive, <1>1, PTL

\* No worker outlives the scan that no longer saw its VM.
THEOREM WorkersSafe == Spec => []WorkersOfLastScan
<1>1. IInv => WorkersOfLastScan
  BY DEF IInv
<1> QED
  BY Inductive, <1>1, PTL

\* Only Apply closes listeners, and only those of VMs its scan did not see.
THEOREM ClosedSafe == Spec => ClosedOnlyIfGone
<1>1. IInv /\ [Next]_vars =>
        [\A v \in VMs : workers[v] = "listening" /\ workers'[v] = "none" => v \notin snapshot]_vars
  <2> SUFFICES ASSUME IInv, [Next]_vars, NEW v \in VMs,
                      workers[v] = "listening", workers'[v] = "none"
               PROVE  v \notin snapshot
    OBVIOUS
  <2> USE DEF IInv, TypeOK
  <2>1. CASE Apply
    BY <2>1 DEF Apply, VmidDiff
  <2>2. ASSUME NEW w \in VMs, WorkerDies(w) PROVE FALSE
    BY <2>2 DEF WorkerDies
  <2>3. CASE UNCHANGED workers
    BY <2>3
  <2> QED
    BY <2>1, <2>2, <2>3 DEF Next, Watch, Dispatch, Environment, vars, Start, AcceptError,
       Subscribe, GetVMIDs, WaitCancelled, WaitEvent, WaitTimer, DispatchEvent, DispatchDone,
       DispatchSend, VMChange, ListenChange, WMIChange, NotifierFails, Cancel
<1> QED
  BY Inductive, <1>1, PTL DEF Spec, ClosedOnlyIfGone
=============================================================================
