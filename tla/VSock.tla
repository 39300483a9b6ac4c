------------------------------- MODULE VSock -------------------------------
(***************************************************************************)
(* The Hyper-V socket transport (app/vsock.go) and what it is woken by     *)
(* (utils/processnotify.go, GetVMIDs of utils/wsl2.go).  Run serves a      *)
(* wildcard listener; wsl2Watcher keeps one more listener per running WSL2 *)
(* VM.  It compares what it sees with what it saw last time, each time an  *)
(* event about wslhost.exe reaches it or its timer fires.                  *)
(*                                                                         *)
(* Events carry nothing the watcher looks at, so a queue of them is a      *)
(* number.  Real time is left out: the timer may fire in any wait.         *)
(***************************************************************************)
EXTENDS Naturals

CONSTANTS
  VMs,        \* WSL2 virtual machines
  MaxEvents   \* bound: WMI events not yet dispatched; further ones count as one

ASSUME VSockAssumption == MaxEvents \in Nat \ {0}

VARIABLES
  run,        \* program counter of Run
  watcher,    \* program counter of wsl2Watcher
  snapshot,   \* vmids, the result of GetVMIDs
  lastVMIDs,
  workers,    \* per VM: its vSockWorker, "dead" if its accept loop has ended
  period,     \* seconds of the timer
  notifier,   \* the WMI subscription of ProcessNotify
  events,     \* its events not yet dispatched
  disp,       \* program counter of ProcessNotify.dispatch
  ch,         \* events in the channel of capacity 1
  cancelled,
  vms, wmiOK, listenOK  \* VMs running; does a WMI query work; VMs ListenHvsock works for

environment == <<vms, wmiOK, listenOK>>
notify == <<notifier, events, disp, ch>>
vars == <<run, watcher, snapshot, lastVMIDs, workers, period, notifier, events, disp, ch,
          cancelled, vms, wmiOK, listenOK>>

TypeOK ==
  /\ run \in {"start", "accept", "returned"}
  /\ watcher \in {"none", "subscribe", "scan", "apply", "wait", "returned"}
  /\ snapshot \in SUBSET VMs /\ lastVMIDs \in SUBSET VMs
  /\ workers \in [VMs -> {"none", "listening", "dead"}]
  /\ period \in {15, 60}
  /\ notifier \in {"none", "running", "failed", "stopped"}
  /\ events \in 0..MaxEvents
  /\ disp \in {"none", "select", "send", "sendError", "returned"}
  /\ ch \in 0..1
  /\ cancelled \in BOOLEAN
  /\ vms \in SUBSET VMs /\ wmiOK \in BOOLEAN /\ listenOK \in SUBSET VMs

Init ==
  /\ run = "start" /\ watcher = "none"
  /\ snapshot = {} /\ lastVMIDs = {}
  /\ workers = [v \in VMs |-> "none"]
  /\ period = 60
  /\ notifier = "none" /\ events = 0 /\ disp = "none" /\ ch = 0
  /\ cancelled = FALSE
  /\ vms \in SUBSET VMs /\ wmiOK = TRUE /\ listenOK \in SUBSET VMs

-----------------------------------------------------------------------------
(* Run. *)

\* In a guest, without Hyper-V sockets, without the registered service or
\* without the wildcard listener there is nothing to serve.
Start ==
  /\ run = "start"
  /\ \/ run' = "returned" /\ UNCHANGED watcher
     \/ run' = "accept" /\ watcher' = "subscribe"
  /\ UNCHANGED <<snapshot, lastVMIDs, workers, period, notify, cancelled, environment>>

\* The accept loop ends on an error only; cancelling the context does not
\* close the listener.
AcceptError ==
  /\ run = "accept"
  /\ run' = "returned"
  /\ UNCHANGED <<watcher, snapshot, lastVMIDs, workers, period, notify, cancelled, environment>>

(* wsl2Watcher. *)

\* NewProcessNotify succeeds and Start runs dispatch.
StartNotify == notifier' = "running" /\ disp' = "select"

\* Events, or polling.
Subscribe ==
  /\ watcher = "subscribe"
  /\ watcher' = "scan"
  /\ \/ StartNotify /\ UNCHANGED period
     \/ period' = 15 /\ UNCHANGED <<notifier, disp>>
  /\ UNCHANGED <<run, snapshot, lastVMIDs, workers, events, ch, cancelled, environment>>

\* GetVMIDs: a failed query reads as no VM at all.
GetVMIDs ==
  /\ watcher = "scan"
  /\ snapshot' = IF wmiOK THEN vms ELSE {}
  /\ watcher' = "apply"
  /\ UNCHANGED <<run, lastVMIDs, workers, period, notify, cancelled, environment>>

\* Mutant: the arguments of vmidDiff are swapped.
VmidDiff_Swapped(old, new) == [add |-> old \ new, del |-> new \ old]

\* Mutant: VMs that are gone are not reported.
VmidDiff_NoDel(old, new) == [add |-> new \ old, del |-> {}]

\* vmidDiff: what is new and what is gone.
VmidDiff(old, new) == [add |-> new \ old, del |-> old \ new]

\* newVSockWorker returns a worker, not an error.
NewVSockWorker(v) == v \in listenOK

\* Workers for the new VMs, where listening succeeds; the workers of VMs that
\* are gone are closed.  A VM counts as seen in either case.
Apply ==
  /\ watcher = "apply"
  /\ LET diff == VmidDiff(lastVMIDs, snapshot)
     IN workers' = [v \in VMs |->
          IF v \in diff.add /\ NewVSockWorker(v) THEN "listening"
          ELSE IF v \in diff.del THEN "none" ELSE workers[v]]
  /\ lastVMIDs' = snapshot
  /\ watcher' = "wait"
  /\ UNCHANGED <<run, snapshot, period, notify, cancelled, environment>>

\* The select: ctx.Done (and the deferred Stop of the subscription), ...
WaitCancelled ==
  /\ watcher = "wait" /\ cancelled
  /\ watcher' = "returned"
  /\ notifier' = IF notifier = "running" THEN "stopped" ELSE notifier
  /\ events' = 0
  /\ UNCHANGED <<run, snapshot, lastVMIDs, workers, period, disp, ch, cancelled, environment>>

\* ... an event, of whatever type, ...
WaitEvent ==
  /\ watcher = "wait" /\ ch = 1
  /\ ch' = 0
  /\ watcher' = "scan"
  /\ UNCHANGED <<run, snapshot, lastVMIDs, workers, period, notifier, events, disp,
                 cancelled, environment>>

\* Mutant: only events wake the watcher.
WaitTimer_Never == FALSE

\* ... or the timer.
WaitTimer ==
  /\ watcher = "wait"
  /\ watcher' = "scan"
  /\ UNCHANGED <<run, snapshot, lastVMIDs, workers, period, notify, cancelled, environment>>

\* vSockWorker.Run ends when Accept fails; nobody is told.
WorkerDies(v) ==
  /\ workers[v] = "listening"
  /\ workers' = [workers EXCEPT ![v] = "dead"]
  /\ UNCHANGED <<run, watcher, snapshot, lastVMIDs, period, notify, cancelled, environment>>

(* ProcessNotify.dispatch. *)

DispatchEvent ==
  /\ disp = "select" /\ events > 0
  /\ events' = events - 1
  /\ disp' = "send"
  /\ UNCHANGED <<run, watcher, snapshot, lastVMIDs, workers, period, notifier, ch,
                 cancelled, environment>>

DispatchDone ==
  /\ disp = "select" /\ notifier \in {"failed", "stopped"}
  /\ disp' = "sendError"
  /\ UNCHANGED <<run, watcher, snapshot, lastVMIDs, workers, period, notifier, events, ch,
                 cancelled, environment>>

\* s.ch <- event blocks while the channel is full.
DispatchSend ==
  /\ disp \in {"send", "sendError"} /\ ch = 0
  /\ ch' = 1
  /\ disp' = IF disp = "send" THEN "select" ELSE "returned"
  /\ UNCHANGED <<run, watcher, snapshot, lastVMIDs, workers, period, notifier, events,
                 cancelled, environment>>

-----------------------------------------------------------------------------
(* The environment. *)

\* A VM starts or stops.  The query samples once a second and may miss it.
VMChange(v) ==
  /\ vms' = IF v \in vms THEN vms \ {v} ELSE vms \cup {v}
  /\ \/ UNCHANGED events
     \/ /\ notifier = "running" /\ events < MaxEvents
        /\ events' = events + 1
  /\ UNCHANGED <<run, watcher, snapshot, lastVMIDs, workers, period, notifier, disp, ch,
                 cancelled, wmiOK, listenOK>>

WMIChange ==
  /\ wmiOK' = ~wmiOK
  /\ UNCHANGED <<run, watcher, snapshot, lastVMIDs, workers, period, notify, cancelled,
                 vms, listenOK>>

ListenChange(v) ==
  /\ listenOK' = IF v \in listenOK THEN listenOK \ {v} ELSE listenOK \cup {v}
  /\ UNCHANGED <<run, watcher, snapshot, lastVMIDs, workers, period, notify, cancelled,
                 vms, wmiOK>>

\* StartNotifications returns an error.
NotifierFails ==
  /\ notifier = "running"
  /\ notifier' = "failed"
  /\ events' = 0
  /\ UNCHANGED <<run, watcher, snapshot, lastVMIDs, workers, period, disp, ch,
                 cancelled, environment>>

Cancel ==
  /\ ~cancelled
  /\ cancelled' = TRUE
  /\ UNCHANGED <<run, watcher, snapshot, lastVMIDs, workers, period, notify, environment>>

-----------------------------------------------------------------------------
Watch == Subscribe \/ GetVMIDs \/ Apply \/ WaitCancelled \/ WaitEvent \/ WaitTimer
Dispatch == DispatchEvent \/ DispatchDone \/ DispatchSend
Environment ==
  \/ \E v \in VMs : VMChange(v) \/ ListenChange(v) \/ WorkerDies(v)
  \/ WMIChange \/ NotifierFails \/ Cancel

Next == Start \/ AcceptError \/ Watch \/ Dispatch \/ Environment

Spec == Init /\ [][Next]_vars

\* Goroutines are scheduled and timers fire; nothing is assumed of the
\* environment or of events arriving.
Fairness == WF_vars(Start) /\ WF_vars(Watch) /\ WF_vars(Dispatch)

FairSpec == Spec /\ Fairness
-----------------------------------------------------------------------------
(* Properties. *)

Watching == watcher \notin {"none", "returned"}

\* Between scans the map of workers holds only VMs of the last scan: a worker
\* is never left behind for a VM that has gone, so no VM that comes back meets
\* the listener of its former self.
WorkersOfLastScan == \A v \in VMs : workers[v] # "none" => v \in lastVMIDs

\* A listener is taken away only from a VM that the scan no longer saw: the
\* start or stop of one VM never costs another its listener.
ClosedOnlyIfGone ==
  [][\A v \in VMs : workers[v] = "listening" /\ workers'[v] = "none" => v \notin snapshot]_vars

\* A VM that stays up, on a system where queries and listening work from then
\* on and before, ends up with a listener however many of its events are
\* missed, also after a failed query has cost it the one it had.
ServedIfListenWorks ==
  \A v \in VMs :
    (/\ [](v \in listenOK /\ workers[v] # "dead")
     /\ <>[](v \in vms /\ wmiOK) /\ [](~cancelled) /\ <>Watching)
      => <>[](workers[v] = "listening")

\* The listener of a VM that is gone for good is closed, whether or not its
\* exit was notified and whether or not queries work.
ClosedIfGone ==
  \A v \in VMs : (<>[](v \notin vms) /\ [](~cancelled)) => <>[](workers[v] = "none")

\* docs/FLOWS.md:178: "new VM found -> open a per-VM Hyper-V socket worker".  A
\* VM for which listening failed once is never tried again while it runs.
NewVMServedEventually ==
  \A v \in VMs :
    (/\ [](workers[v] # "dead")
     /\ <>[](v \in vms /\ wmiOK /\ v \in listenOK) /\ [](~cancelled) /\ <>Watching)
      => <>(workers[v] = "listening")
=============================================================================
