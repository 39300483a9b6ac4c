--------------------------- MODULE PageantProofs ---------------------------
(***************************************************************************)
(* Proofs about Pageant, for any number of clients and handlers, any width *)
(* of the length field and any limit on the size of a message.             *)
(***************************************************************************)
EXTENDS Pageant, TLAPS

-----------------------------------------------------------------------------
(* The inductive invariant. *)

NoConn == \A c \in Clients : conn[c] = "none"

\* The window's thread has a message exactly while wndProc handles it; its
\* client is blocked, and the message passed the checks.
CurInv ==
  /\ wt \in {"none", "create", "loop"} => cur = {}
  /\ wt \notin {"none", "create", "loop"} => \E c \in Clients : cur = {c}
  /\ \A c \in cur : pc[c] = "sent" /\ Admitted(msg[c])

\* A result is there only until the client has returned from SendMessage.
RetInv == \A c \in Clients : ret[c] # "none" => pc[c] = "answered"

\* The WaitGroup counts the one live connection and the handlers behind theirs.
CountInv ==
  /\ NoConn => wg = finishing
  /\ ~NoConn => wg = finishing + 1

\* There is no window's thread before Register.
StageInv == run = "register" => wt = "none"

\* Run returns only when every request it accepted has been answered.
DrainedBeforeReturn == run = "returned" => NoConn

IInv == TypeOK /\ CurInv /\ RetInv /\ CountInv /\ StageInv
        /\ OnlyWholeRequestsServed /\ OneRequestAtATime /\ DrainedBeforeReturn

-----------------------------------------------------------------------------
\* Where adding the header does not wrap, Size adds it; where it does, what is
\* left is less than a header.
LEMMA SizeWraps ==
  ASSUME NEW len \in 0..(Word - 1)
  PROVE  /\ len + 4 < Word => Size(len) = len + 4
         /\ len + 4 >= Word => Size(len) < 4
<1> USE PageantAssumption
<1>1. CASE len + 4 < Word
  BY <1>1 DEF Size
<1>2. CASE len + 4 >= Word
  <2> DEFINE r == len + 4 - Word
  <2>1. r \in 0..3 /\ r < Word
    BY <1>2
  <2>2. (len + 4) % Word = r
    BY <1>2, <2>1
  <2> QED
    BY <1>2, <2>1, <2>2 DEF Size
<1> QED
  BY <1>1, <1>2

\* A message that was admitted and in which ServeAgent finds a whole request
\* has one, complete and within the limit.
LEMMA WholeFits ==
  ASSUME NEW m \in Messages, Admitted(m), WholeRequest(m.len)
  PROVE  m.check = "pass" /\ m.len # 0 /\ m.len + 4 =< MaxMsglen
<1>1. m.len \in 0..(Word - 1)
  BY PageantAssumption DEF Messages
<1>2. m.len + 4 < Word
  BY <1>1, SizeWraps, PageantAssumption DEF WholeRequest, Size
<1> QED
  BY <1>1, <1>2, SizeWraps DEF Admitted, WholeRequest

-----------------------------------------------------------------------------
\* The initial states satisfy IInv.
LEMMA InitIInv == Init => IInv
<1> SUFFICES ASSUME Init PROVE IInv
  OBVIOUS
<1>1. cancelled \in BOOLEAN
  BY Zenon DEF Init
<1>2. TypeOK
  BY <1>1, PageantAssumption DEF Init, TypeOK
<1> QED
  BY <1>2 DEF Init, IInv, CurInv, RetInv, CountInv, StageInv, NoConn,
     OnlyWholeRequestsServed, OneRequestAtATime, DrainedBeforeReturn

\* NewPageant and the accept loop.
LEMMA RunPreserves == ASSUME IInv, RunStep PROVE IInv'
<1> USE PageantAssumption DEF IInv, TypeOK, CurInv, RetInv, CountInv, StageInv, NoConn,
      OnlyWholeRequestsServed, OneRequestAtATime, DrainedBeforeReturn, clients, handlers
<1>1. CASE Register
  BY <1>1 DEF Register
<1>2. CASE CreateWindow
  BY <1>2 DEF CreateWindow
<1>3. CASE MakeRequestCh
  BY <1>3 DEF MakeRequestCh
<1>4. CASE AcceptDone
  BY <1>4 DEF AcceptDone
<1>5. CASE RunReturn
  \* wg = 0 leaves no connection.
  BY <1>5 DEF RunReturn
<1> QED
  BY <1>1, <1>2, <1>3, <1>4, <1>5 DEF RunStep

\* The rendezvous of AcceptCtx and wndProc: the new connection is the only one.
LEMMA AcceptPreserves == ASSUME IInv, NEW c \in Clients, Accept(c) PROVE IInv'
<1> USE PageantAssumption DEF Accept, clients
<1>1. NoConn /\ cur = {c} /\ pc[c] = "sent"
  BY DEF IInv, CurInv, OneRequestAtATime, NoConn
<1>2. TypeOK'
  BY DEF IInv, TypeOK
<1>3. /\ conn'[c] = "accepted"
      /\ \A d \in Clients : d # c => conn'[d] = "none"
  BY <1>1 DEF IInv, TypeOK, NoConn
<1>4. CurInv' /\ RetInv' /\ StageInv' /\ DrainedBeforeReturn'
  BY DEF IInv, CurInv, RetInv, StageInv, DrainedBeforeReturn
<1>5. CountInv'
  BY <1>1, <1>3 DEF IInv, TypeOK, CountInv, NoConn
<1>6. OneRequestAtATime'
  BY <1>1, <1>3 DEF OneRequestAtATime
<1>7. OnlyWholeRequestsServed'
  BY <1>3 DEF IInv, OnlyWholeRequestsServed
<1> QED
  BY <1>2, <1>4, <1>5, <1>6, <1>7 DEF IInv

\* wndProc takes a message, and refuses it or goes on to send it on requestCh.
LEMMA WndProcPreserves ==
  ASSUME IInv, EvalRequestCh \/ \E c \in Clients : Dispatch(c)
  PROVE  IInv'
<1>1. CASE EvalRequestCh
  BY <1>1 DEF EvalRequestCh, IInv, TypeOK, CurInv, RetInv, CountInv, StageInv, NoConn,
     OnlyWholeRequestsServed, OneRequestAtATime, DrainedBeforeReturn, clients, handlers
<1>2. ASSUME NEW c \in Clients, Dispatch(c) PROVE IInv'
  <2> USE <1>2 DEF Dispatch, SendMessageReturns, clients, handlers
  <2>1. NoConn /\ cur = {}
    BY DEF IInv, CurInv, OneRequestAtATime, NoConn
  <2>2. TypeOK'
    BY DEF IInv, TypeOK
  <2>3. CurInv'
    BY <2>1 DEF IInv, TypeOK, CurInv, Admitted, Size
  <2>4. RetInv' /\ CountInv' /\ StageInv' /\ DrainedBeforeReturn'
    BY DEF IInv, TypeOK, RetInv, CountInv, StageInv, DrainedBeforeReturn, NoConn
  <2>5. OneRequestAtATime'
    BY <2>1 DEF OneRequestAtATime, NoConn
  <2>6. OnlyWholeRequestsServed'
    BY <2>1 DEF IInv, TypeOK, OnlyWholeRequestsServed, NoConn
  <2> QED
    BY <2>2, <2>3, <2>4, <2>5, <2>6 DEF IInv
<1> QED
  BY <1>1, <1>2

\* Serving a request: only a whole one, of a message that was admitted, is
\* answered.
LEMMA ServePreserves == ASSUME IInv, NEW c \in Clients, Serve(c) PROVE IInv'
<1> USE DEF Serve, clients
<1>1. /\ conn'[c] \in {"replied", "tooLarge", "silent"}
      /\ \A d \in Clients : d # c => conn'[d] = conn[d]
      /\ conn' \in [Clients -> {"none", "accepted", "silent", "replied", "tooLarge"}]
  BY DEF IInv, TypeOK
<1>2. TypeOK'
  BY <1>1 DEF IInv, TypeOK
<1>3. CurInv' /\ RetInv' /\ StageInv'
  BY DEF IInv, CurInv, RetInv, StageInv
<1>4. CountInv'
  BY <1>1 DEF IInv, CountInv, NoConn
<1>5. OneRequestAtATime' /\ DrainedBeforeReturn'
  BY <1>1 DEF IInv, OneRequestAtATime, DrainedBeforeReturn, NoConn
<1>6. c \in cur /\ Admitted(msg[c])
  BY DEF IInv, CurInv, OneRequestAtATime
<1>7. conn'[c] \in {"replied", "tooLarge"} =>
        msg[c].check = "pass" /\ msg[c].len # 0 /\ msg[c].len + 4 =< MaxMsglen
  <2> SUFFICES ASSUME conn'[c] \in {"replied", "tooLarge"}
               PROVE  msg[c].check = "pass" /\ msg[c].len # 0 /\ msg[c].len + 4 =< MaxMsglen
    OBVIOUS
  <2>1. WholeRequest(msg[c].len)
    BY DEF IInv, TypeOK
  <2>2. msg[c] \in Messages
    BY <1>6 DEF IInv, TypeOK, Admitted, NoMessage
  <2> QED
    BY <1>6, <2>1, <2>2, WholeFits
<1>8. OnlyWholeRequestsServed'
  BY <1>1, <1>7 DEF IInv, OnlyWholeRequestsServed
<1> QED
  BY <1>2, <1>3, <1>4, <1>5, <1>8 DEF IInv

\* The response goes to the message wndProc is handling.
LEMMA ClosePreserves == ASSUME IInv, NEW c \in Clients, CloseConn(c) PROVE IInv'
<1> USE PageantAssumption DEF CloseConn, SendMessageReturns
<1>1. /\ \A d \in Clients : conn'[d] = "none"
      /\ ~NoConn
  BY DEF IInv, TypeOK, OneRequestAtATime, NoConn
<1>2. wg = finishing + 1
  BY <1>1 DEF IInv, CountInv
<1>3. TypeOK'
  BY <1>2 DEF IInv, TypeOK
<1>4. CurInv' /\ RetInv' /\ StageInv'
  BY DEF IInv, TypeOK, CurInv, RetInv, StageInv
<1>5. CountInv'
  BY <1>1, <1>2 DEF CountInv, NoConn
<1>6. OneRequestAtATime' /\ DrainedBeforeReturn'
  BY <1>1 DEF OneRequestAtATime, DrainedBeforeReturn, NoConn
<1>7. OnlyWholeRequestsServed'
  BY <1>1 DEF IInv, TypeOK, OnlyWholeRequestsServed
<1> QED
  BY <1>3, <1>4, <1>5, <1>6, <1>7 DEF IInv

\* wg.Done, the clients and main.
LEMMA OthersPreserve ==
  ASSUME IInv,
         \/ HandlerDone \/ Cancel \/ MainReturns \/ Terminated \/ UNCHANGED vars
         \/ \E c \in Clients : SendMessage(c) \/ Return(c)
  PROVE  IInv'
<1> USE DEF IInv, TypeOK, CurInv, RetInv, CountInv, StageInv, NoConn,
      OnlyWholeRequestsServed, OneRequestAtATime, DrainedBeforeReturn, clients, handlers
<1>1. CASE HandlerDone
  BY <1>1, PageantAssumption DEF HandlerDone
<1>2. CASE Cancel
  BY <1>2 DEF Cancel
<1>3. CASE MainReturns
  BY <1>3 DEF MainReturns
<1>4. CASE Terminated \/ UNCHANGED vars
  BY <1>4 DEF Terminated, vars
<1>5. ASSUME NEW c \in Clients, SendMessage(c) PROVE IInv'
  BY <1>5 DEF SendMessage
<1>6. ASSUME NEW c \in Clients, Return(c) PROVE IInv'
  BY <1>6 DEF Return
<1> QED
  BY <1>1, <1>2, <1>3, <1>4, <1>5, <1>6

\* Every step preserves IInv.
LEMMA NextPreserves == IInv /\ [Next]_vars => IInv'
  BY RunPreserves, AcceptPreserves, WndProcPreserves, ServePreserves, ClosePreserves,
     OthersPreserve DEF Next, Handler

-----------------------------------------------------------------------------
(* The safety properties. *)

\* The invariant holds in every reachable state.
THEOREM Inductive == Spec => []IInv
  BY InitIInv, NextPreserves, PTL DEF Spec

\* The variables of the transport keep their types: the WaitGroup's counter
\* never falls below zero, which would be a panic.
THEOREM TypeCorrect == Spec => []TypeOK
<1>1. IInv => TypeOK
  BY DEF IInv
<1> QED
  BY Inductive, <1>1, PTL

\* No request is answered that was not checked, whole and within the buffer,
\* for every width of the length field and every wrap of it.
THEOREM WholeSafe == Spec => []OnlyWholeRequestsServed
<1>1. IInv => OnlyWholeRequestsServed
  BY DEF IInv
<1> QED
  BY Inductive, <1>1, PTL

\* A live connection belongs to the message wndProc waits with.
THEOREM OneSafe == Spec => []OneRequestAtATime
<1>1. IInv => OneRequestAtATime
  BY DEF IInv
<1> QED
  BY Inductive, <1>1, PTL

-----------------------------------------------------------------------------
(* Run implements Application. *)

\* The channel exists from the accept loop on, which only a cancel ends.
RunInv ==
  /\ run \in {"register", "await", "assign"} => requestCh = "nil"
  /\ run \in {"accept", "drain"} => requestCh = "made"
  /\ run = "drain" => cancelled

\* RunInv is inductive by itself.
LEMMA RunInvariant == Spec => []RunInv
<1>1. Init => RunInv
  BY DEF Init, RunInv
<1>2. ASSUME RunInv, [Next]_vars PROVE RunInv'
  <2> USE <1>2 DEF RunInv
  <2>1. CASE Register
    BY <2>1 DEF Register
  <2>2. CASE CreateWindow
    BY <2>2 DEF CreateWindow
  <2>3. CASE MakeRequestCh
    BY <2>3 DEF MakeRequestCh
  <2>4. CASE AcceptDone
    BY <2>4 DEF AcceptDone
  <2>5. CASE RunReturn
    BY <2>5 DEF RunReturn
  <2>6. CASE UNCHANGED <<run, requestCh, cancelled>>
    BY <2>6
  <2>7. CASE Cancel
    BY <2>7 DEF Cancel
  <2>8. ASSUME NEW c \in Clients,
               Accept(c) \/ Dispatch(c) \/ Handler(c) \/ SendMessage(c) \/ Return(c)
        PROVE  UNCHANGED <<run, requestCh, cancelled>>
    BY <2>8 DEF Accept, Dispatch, Handler, Serve, CloseConn, SendMessage, Return
  <2>9. CASE EvalRequestCh \/ HandlerDone \/ MainReturns \/ Terminated \/ UNCHANGED vars
    BY <2>6, <2>9 DEF EvalRequestCh, HandlerDone, MainReturns, Terminated, vars
  <2> QED
    BY <2>1, <2>2, <2>3, <2>4, <2>5, <2>6, <2>7, <2>8, <2>9 DEF Next, RunStep
<1> QED
  BY <1>1, <1>2, PTL DEF Spec

\* The connections Run has accepted and not finished.
Busy == {c \in Clients : conn[c] # "none"}

\* Steps that change none of what main sees are stuttering steps.
LEMMA Stutter ==
  ASSUME UNCHANGED <<RunState, Busy, cancelled>> PROVE UNCHANGED Run!vars
  BY DEF Run!vars, Busy

\* The window is there, or the class could not be registered.
LEMMA BeginSteps ==
  ASSUME RunInv, Register \/ CreateWindow \/ MakeRequestCh PROVE [Run!Next]_Run!vars
<1>1. UNCHANGED <<Busy, cancelled>>
  BY DEF Register, CreateWindow, MakeRequestCh, handlers, Busy
<1>2. RunState = "started" /\ RunState' \in {"started", "running", "failed"}
  BY DEF RunInv, RunState, Register, CreateWindow, MakeRequestCh
<1>3. CASE RunState' = "started"
  BY <1>1, <1>2, <1>3, Stutter
<1>4. CASE RunState' \in {"running", "failed"}
  <2>1. Run!Begin
    BY <1>1, <1>2, <1>4 DEF Run!Begin, Busy
  <2> QED
    BY <2>1 DEF Run!Next
<1> QED
  BY <1>2, <1>3, <1>4

\* The rendezvous adds the one connection there is.
LEMMA TakeStep ==
  ASSUME IInv, NEW c \in Clients, Accept(c) PROVE [Run!Next]_Run!vars
<1>1. c \notin Busy /\ Busy' = Busy \cup {c}
  BY DEF Accept, IInv, TypeOK, OneRequestAtATime, Busy
<1>2. RunState = "running" /\ UNCHANGED <<RunState, cancelled>>
  BY DEF Accept, RunState
<1>3. Run!Take
  BY <1>1, <1>2 DEF Run!Take, Busy
<1> QED
  BY <1>3 DEF Run!Next

\* The response ends it.
LEMMA FinishStep ==
  ASSUME IInv, NEW c \in Clients, CloseConn(c) PROVE [Run!Next]_Run!vars
<1>1. c \in Busy /\ Busy' = Busy \ {c}
  BY DEF CloseConn, IInv, TypeOK, Busy
<1>2. UNCHANGED <<RunState, cancelled>>
  BY DEF CloseConn, RunState
<1>3. Run!Finish
  BY <1>1, <1>2 DEF Run!Finish, Busy
<1> QED
  BY <1>3 DEF Run!Next

\* While a request is served it stays with Run.
LEMMA ServeStep ==
  ASSUME IInv, NEW c \in Clients, Serve(c) PROVE [Run!Next]_Run!vars
<1>1. UNCHANGED Busy
  BY DEF Serve, IInv, TypeOK, Busy
<1>2. UNCHANGED <<RunState, cancelled>>
  BY DEF Serve, RunState
<1> QED
  BY <1>1, <1>2, Stutter

\* wg.Wait has returned: nothing is busy, and it was a cancel that ended the
\* loop.
LEMMA ReturnStep == ASSUME IInv, RunInv, RunReturn PROVE [Run!Next]_Run!vars
<1>1. Busy = {}
  BY DEF RunReturn, IInv, TypeOK, CountInv, NoConn, Busy
<1>2. RunState = "running" /\ RunState' = "drained" /\ cancelled /\ UNCHANGED <<Busy, cancelled>>
  BY DEF RunReturn, RunInv, RunState, handlers, Busy
<1>3. Run!Drained
  BY <1>1, <1>2 DEF Run!Drained, Busy
<1> QED
  BY <1>3 DEF Run!Next

\* Every step of the transport is one of Application or none.
LEMMA RunStepImplements ==
  ASSUME IInv, RunInv, [Next]_vars PROVE [Run!Next]_Run!vars
<1>1. CASE AcceptDone
  BY <1>1, Stutter DEF AcceptDone, RunState, handlers, Busy
<1>2. CASE EvalRequestCh \/ HandlerDone \/ MainReturns \/ Terminated \/ UNCHANGED vars
  BY <1>2, Stutter DEF EvalRequestCh, HandlerDone, MainReturns, Terminated, vars, RunState, handlers, Busy
<1>3. ASSUME NEW c \in Clients, Dispatch(c) \/ SendMessage(c) \/ Return(c)
      PROVE  [Run!Next]_Run!vars
  BY <1>3, Stutter DEF Dispatch, SendMessage, Return, RunState, handlers, Busy
<1>4. CASE Cancel
  <2>1. UNCHANGED <<RunState, Busy>>
    BY <1>4 DEF Cancel, RunState, handlers, Busy
  <2>2. ~cancelled /\ cancelled' = TRUE
    BY <1>4, Zenon DEF Cancel
  <2>3. Run!Cancel
    BY <2>1, <2>2 DEF Run!Cancel, Busy
  <2> QED
    BY <2>3 DEF Run!Next
<1> QED
  BY <1>1, <1>2, <1>3, <1>4, BeginSteps, TakeStep, FinishStep, ServeStep, ReturnStep
     DEF Next, RunStep, Handler

\* The Pageant transport implements Application with the policy that waits
\* before every return.
THEOREM RunImplements == Spec => RunSpec
<1>1. Init => Run!Init
  BY DEF Init, Run!Init, RunState
<1> QED
  BY <1>1, RunStepImplements, Inductive, RunInvariant, PTL DEF Spec, RunSpec, Run!Spec
=============================================================================
