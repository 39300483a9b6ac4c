-------------------------- MODULE AcceptLoopProofs --------------------------
(***************************************************************************)
(* Proofs about AcceptLoop, for any number of clients, whatever they do,   *)
(* and whichever users have sockets with the port of a peer.               *)
(***************************************************************************)
EXTENDS AcceptLoop, FiniteSets, FiniteSetTheorems, TLAPS

-----------------------------------------------------------------------------
(* The inductive invariant. *)

\* Where Run has a connection in hand; a panic leaves it there.
Vetting == {"owner", "secret", "pids", "serve", "panic"}
Served == {c \in Clients : conn[c] = "served"}

\* Where the transports can be in the code they share.
ControlInv ==
  /\ pc \in Vetting <=> hand # None
  /\ pc = "loop" => kind \in Polling
  /\ pc = "tcp" => kind = "wsl"
  /\ pc = "create" => kind \in {"cygwin", "xshell"}
  /\ kind = "vsock" => ~(pc \in {"drain", "unlink"}) /\ (pc = "close" => result = "nil")

\* Between opening and closing it only a cancelled NamedPipe has no listener.
ListenInv ==
  pc \notin {"start", "tcp", "returned"} /\ ~listening => kind = "pipe" /\ cancelled

\* What is at the place clients look at is ours from its making to Unlink, and
\* a WSL that has fallen back to TCP made nothing there.
SockInv ==
  /\ fallback => kind = "wsl" /\ pc # "start"
  /\ sockfile = "ours" =>
       /\ kind \in {"wsl", "cygwin", "xshell"} /\ ~fallback
       /\ pc \notin {"start", "tcp", "close", "returned"}

\* The one connection that is being vetted, and those the WaitGroup counts.
ConnInv ==
  /\ \A c \in Clients : conn[c] = "accepted" <=> c = hand
  /\ IsFiniteSet(Served) /\ wg = Cardinality(Served)
  /\ pc \in {"start", "tcp", "create"} => Served = {}

\* On its way out Run has been cancelled, has waited, or has a failed Accept.
DrainInv ==
  /\ kind # "vsock" /\ result = "nil" => cancelled
  /\ pc \in {"unlink", "close"} /\ kind # "vsock" /\ (kind \in {"pipe", "xshell"} \/ result = "nil")
       => Served = {}

IInv == TypeOK /\ ControlInv /\ ListenInv /\ SockInv /\ ConnInv /\ DrainInv
-----------------------------------------------------------------------------
(* The initial states. *)

\* No client is served at first.
LEMMA InitServed == Init => Served = {} BY DEF Init, Served

\* The initial states satisfy the invariant.
LEMMA InitIInv == Init => IInv
  <1> SUFFICES ASSUME Init PROVE IInv OBVIOUS
  <1> USE AcceptLoopAssumption
  <1>1. fallback \in BOOLEAN /\ listening \in BOOLEAN /\ running \in BOOLEAN /\ cancelled \in BOOLEAN
    BY Zenon DEF Init
  <1>2. TypeOK BY <1>1 DEF Init, TypeOK, Kinds, Polling, ConnStates, PeerStates
  <1>3. ControlInv /\ ListenInv /\ SockInv BY DEF Init, ControlInv, ListenInv, SockInv, Vetting, Polling
  <1>4. ConnInv
    <2>1. IsFiniteSet(Served) /\ wg = Cardinality(Served) BY InitServed, FS_EmptySet DEF Init
    <2> QED BY <2>1, InitServed DEF Init, ConnInv
  <1>5. DrainInv BY DEF Init, DrainInv
  <1> QED BY <1>2, <1>3, <1>4, <1>5 DEF IInv

-----------------------------------------------------------------------------
(* Steps. *)

\* The steps that neither take a connection nor let one go.
Flow ==
  \/ Listen \/ CheckCancel \/ AcceptTimeout \/ AcceptError \/ AcceptClosed \/ Drain \/ Unlink
  \/ OtherInstance \/ Cancel \/ (\E c \in Clients : PeerSends(c) \/ PeerLeaves(c)) \/ UNCHANGED vars

\* The others.
LEMMA Steps ==
  ASSUME [Next]_vars
  PROVE \/ Flow \/ Vet \/ Serve \/ Close \/ PipeCloser
        \/ \E c \in Clients : Accept(c) \/ HandlerDone(c) \/ Connect(c)
  BY DEF Next, Flow, Loop, Environment

\* Flow does not touch connections.
LEMMA FlowConn == ASSUME Flow PROVE UNCHANGED <<conn, hand, wg, attempt>>
  BY DEF Flow, Listen, ListenPipe, ListenUnixSock, ListenTCP, CreateCygwinSocket, CreateWindows,
         CheckCancel, AcceptTimeout, AcceptError, AcceptClosed, Drain, Unlink, OtherInstance, Cancel,
         PeerSends, PeerLeaves, vars

\* Vetting goes on, ends in Serve, or ends in a refusal.
LEMMA VetStep ==
  ASSUME IInv, Vet
  PROVE /\ pc \in Vetting \ {"serve", "panic"} /\ hand \in Clients /\ conn[hand] = "accepted"
        /\ UNCHANGED <<kind, owner, fallback, running, result, listening, sockfile, peer, wg, cancelled>>
        /\ attempt' \in 0..3
        /\ \/ pc' \in Vetting /\ UNCHANGED <<hand, conn>>
           \/ Refuse
  <1>1. pc \in Vetting \ {"serve", "panic"} BY DEF Vet, SameUserTCPConn, ReadSecret, XShellPanic, ReadPids, Vetting
  <1>2. hand \in Clients BY <1>1 DEF IInv, TypeOK, ControlInv
  <1>3. conn[hand] = "accepted" BY <1>2 DEF IInv, ConnInv
  <1>4. UNCHANGED <<kind, owner, fallback, running, result, listening, sockfile, peer, wg, cancelled>>
    BY DEF Vet, SameUserTCPConn, ReadSecret, XShellPanic, ReadPids, setup
  <1>5. attempt' \in 0..3 BY DEF Vet, SameUserTCPConn, ReadSecret, XShellPanic, ReadPids, IInv, TypeOK
  <1>6. \/ pc' \in Vetting /\ UNCHANGED <<hand, conn>>
        \/ Refuse
    BY DEF Vet, SameUserTCPConn, ReadSecret, XShellPanic, ReadPids, Vetting
  <1> QED BY <1>1, <1>2, <1>3, <1>4, <1>5, <1>6

\* Run begins once: nothing leads back before the loop.
LEMMA EarlyStep ==
  ASSUME Flow, pc' \in {"start", "tcp", "create"} PROVE pc \in {"start", "tcp", "create"}
  BY DEF Flow, Listen, ListenPipe, ListenUnixSock, ListenTCP, CreateCygwinSocket, CreateWindows,
         CheckCancel, AcceptTimeout, AcceptError, AcceptClosed, Drain, Unlink, OtherInstance, Cancel,
         PeerSends, PeerLeaves, vars, ListenFails, Return

\* Every step keeps one connection in hand and the WaitGroup in balance.
LEMMA ConnStep == ASSUME IInv, [Next]_vars PROVE ConnInv'
  <1> USE AcceptLoopAssumption
  <1>1. conn \in [Clients -> ConnStates] /\ hand \in Clients \cup {None} BY DEF IInv, TypeOK
  <1>2. /\ \A c \in Clients : conn[c] = "accepted" <=> c = hand
        /\ IsFiniteSet(Served) /\ wg = Cardinality(Served)
        /\ pc \in {"start", "tcp", "create"} => Served = {}
    BY DEF IInv, ConnInv
  <1>3. CASE Flow
    <2>1. Served' = Served BY <1>3, FlowConn DEF Served
    <2> QED BY <1>2, <1>3, <2>1, FlowConn, EarlyStep DEF ConnInv
  <1>4. CASE Vet
    <2>1. pc' \notin {"start", "tcp", "create"} BY <1>4, VetStep DEF Vetting, Refuse, Continue
    <2>2. Served' = Served BY <1>1, <1>4, VetStep DEF Served, Refuse
    <2>3. \A c \in Clients : conn'[c] = "accepted" <=> c = hand'
      BY <1>1, <1>2, <1>4, VetStep DEF Refuse
    <2> QED BY <1>2, <1>4, <2>1, <2>2, <2>3, VetStep DEF ConnInv
  <1>5. CASE Serve
    <2>1. hand \in Clients BY <1>5 DEF Serve, IInv, ControlInv, TypeOK, Vetting
    <2>2. Served' = Served \cup {hand} /\ hand \notin Served BY <1>1, <1>2, <1>5, <2>1 DEF Served, Serve
    <2>3. Cardinality(Served \cup {hand}) = Cardinality(Served) + 1 /\ IsFiniteSet(Served \cup {hand})
      BY <1>2, <2>2, FS_AddElement
    <2>4. \A c \in Clients : conn'[c] = "accepted" <=> c = hand' BY <1>1, <1>2, <1>5, <2>1 DEF Serve
    <2>5. pc' \notin {"start", "tcp", "create"} BY <1>5 DEF Serve, Continue
    <2>6. wg' = wg + 1 BY <1>5 DEF Serve
    <2> QED BY <1>2, <2>2, <2>3, <2>4, <2>5, <2>6 DEF ConnInv
  <1>6. CASE Close \/ PipeCloser
    <2>1. /\ CloseListener /\ UNCHANGED <<hand, wg>>
          /\ pc' \in {pc, "returned"}
      BY <1>6 DEF Close, PipeCloser
    <2>2. Served' = Served BY <1>1, <2>1 DEF Served, CloseListener
    <2>3. \A c \in Clients : conn'[c] = "accepted" <=> c = hand' BY <1>1, <1>2, <2>1 DEF CloseListener
    <2> QED BY <1>2, <2>1, <2>2, <2>3 DEF ConnInv
  <1>7. ASSUME NEW c \in Clients, Accept(c) \/ Connect(c) PROVE ConnInv'
    <2>1. Served' = Served BY <1>1, <1>7 DEF Served, Accept, Connect
    <2>2. \A d \in Clients : conn'[d] = "accepted" <=> d = hand'
      <3>1. CASE Accept(c)
        <4>1. hand = None BY <3>1 DEF Accept, IInv, ControlInv, Vetting
        <4> QED BY <1>1, <1>2, <3>1, <4>1 DEF Accept
      <3>2. CASE Connect(c) BY <1>1, <1>2, <3>2 DEF Connect
      <3> QED BY <1>7, <3>1, <3>2
    <2>3. wg' = wg /\ (pc' = pc \/ pc' \in {"secret", "owner", "serve"}) BY <1>7 DEF Accept, Connect
    <2> QED BY <1>2, <2>1, <2>2, <2>3 DEF ConnInv
  <1>8. ASSUME NEW c \in Clients, HandlerDone(c) PROVE ConnInv'
    <2>1. c \in Served /\ Served' = Served \ {c} BY <1>1, <1>8 DEF Served, HandlerDone
    <2>2. Cardinality(Served \ {c}) = Cardinality(Served) - 1 /\ IsFiniteSet(Served \ {c})
      BY <1>2, <2>1, FS_RemoveElement
    <2>3. \A d \in Clients : conn'[d] = "accepted" <=> d = hand' BY <1>1, <1>2, <1>8 DEF HandlerDone
    <2>4. wg' = wg - 1 /\ pc' = pc BY <1>8 DEF HandlerDone
    <2> QED BY <1>2, <2>1, <2>2, <2>3, <2>4 DEF ConnInv
  <1> QED BY <1>3, <1>4, <1>5, <1>6, <1>7, <1>8, Steps

\* Every step keeps to the ways through the code.
LEMMA ControlStep == ASSUME IInv, [Next]_vars PROVE ControlInv'
  <1> USE AcceptLoopAssumption
  <1>1. ControlInv /\ hand \in Clients \cup {None} /\ kind \in Kinds BY DEF IInv, TypeOK
  <1>2. kind' = kind BY DEF Next, Listen, ListenPipe, ListenUnixSock, ListenTCP, CreateCygwinSocket,
      CreateWindows, Loop, CheckCancel, Accept, AcceptTimeout, AcceptClosed, Vet, SameUserTCPConn,
      ReadSecret, XShellPanic, ReadPids, Serve, Drain, Unlink, Close, AcceptError, PipeCloser, HandlerDone,
      Environment, Connect, PeerSends, PeerLeaves, OtherInstance, Cancel, setup, vars
  <1>3. CASE Listen
    BY <1>1, <1>2, <1>3 DEF Listen, ListenPipe, ListenUnixSock, ListenTCP, CreateCygwinSocket, CreateWindows,
       ListenFails, Return, ControlInv, Vetting, Polling
  <1>4. CASE CheckCancel \/ AcceptTimeout \/ AcceptError
    BY <1>1, <1>2, <1>4 DEF CheckCancel, AcceptTimeout, AcceptError, Return, ControlInv, Vetting, Polling
  <1>5. CASE AcceptClosed BY <1>1, <1>2, <1>5 DEF AcceptClosed, ControlInv, Vetting, IInv, ListenInv
  <1>6. CASE Drain \/ Unlink \/ Close
    BY <1>1, <1>2, <1>6 DEF Drain, Unlink, Close, Return, ControlInv, Vetting
  <1>7. CASE Vet
    <2>1. CASE pc' \in Vetting /\ hand' = hand BY <1>1, <1>2, <1>7, <2>1, VetStep DEF ControlInv, Vetting
    <2>2. CASE Refuse BY <1>1, <1>2, <2>2 DEF Refuse, Continue, ControlInv, Vetting, Polling
    <2> QED BY <1>7, <2>1, <2>2, VetStep
  <1>8. CASE Serve BY <1>1, <1>2, <1>8 DEF Serve, Continue, ControlInv, Vetting, Polling
  <1>9. ASSUME NEW c \in Clients, Accept(c) PROVE ControlInv'
    BY <1>1, <1>2, <1>9 DEF Accept, ControlInv, Vetting
  <1>10. CASE UNCHANGED <<pc, hand, result>> BY <1>1, <1>2, <1>10 DEF ControlInv
  <1> QED BY <1>3, <1>4, <1>5, <1>6, <1>7, <1>8, <1>9, <1>10
         DEF Next, Loop, Environment, PipeCloser, HandlerDone, Connect, PeerSends, PeerLeaves,
             OtherInstance, Cancel, vars

\* The listener is closed last, but for a cancelled NamedPipe.
LEMMA ListenStep == ASSUME IInv, [Next]_vars PROVE ListenInv'
  <1>1. ListenInv BY DEF IInv
  <1>2. CASE Listen
    <2>1. CASE ListenPipe BY <2>1 DEF ListenPipe, ListenFails, ListenInv
    <2>2. CASE ListenUnixSock BY <2>2 DEF ListenUnixSock, ListenInv
    <2>3. CASE ListenTCP BY <2>3 DEF ListenTCP, ListenFails, ListenInv
    <2>4. CASE CreateCygwinSocket BY <1>1, <2>4 DEF CreateCygwinSocket, Return, ListenInv
    <2>5. CASE CreateWindows BY <1>1, <2>5 DEF CreateWindows, ListenInv, setup
    <2> QED BY <1>2, <2>1, <2>2, <2>3, <2>4, <2>5 DEF Listen
  <1>3. CASE Close BY <1>3 DEF Close, ListenInv
  <1>4. CASE PipeCloser BY <1>4 DEF PipeCloser, ListenInv, setup
  <1>5. CASE Cancel BY <1>1, <1>5 DEF Cancel, ListenInv, setup
  <1>6. CASE /\ UNCHANGED <<kind, listening, cancelled>>
             /\ pc' \in {"start", "tcp", "returned"} \/ ~(pc \in {"start", "tcp", "returned"}) \/ pc' = pc
    BY <1>1, <1>6 DEF ListenInv
  <1> QED BY <1>2, <1>3, <1>4, <1>5, <1>6
         DEF Next, Loop, CheckCancel, Accept, AcceptTimeout, AcceptClosed, Vet, SameUserTCPConn,
             ReadSecret, XShellPanic, ReadPids, Serve, Drain, Unlink, AcceptError, HandlerDone, Environment,
             Connect, PeerSends, PeerLeaves, OtherInstance, setup, vars

\* The socket file and the windows are gone before Close.
LEMMA SockStep == ASSUME IInv, [Next]_vars PROVE SockInv'
  <1>1. SockInv /\ ControlInv BY DEF IInv
  <1>2. CASE Listen
    <2>1. CASE ListenPipe BY <1>1, <2>1 DEF ListenPipe, ListenFails, SockInv
    <2>2. CASE ListenUnixSock BY <1>1, <2>2 DEF ListenUnixSock, SockInv
    <2>3. CASE ListenTCP BY <1>1, <2>3 DEF ListenTCP, ListenFails, SockInv, ControlInv
    <2>4. CASE CreateCygwinSocket BY <1>1, <2>4 DEF CreateCygwinSocket, Return, SockInv
    <2>5. CASE CreateWindows BY <1>1, <2>5 DEF CreateWindows, SockInv, setup
    <2> QED BY <1>2, <2>1, <2>2, <2>3, <2>4, <2>5 DEF Listen
  <1>3. CASE Drain \/ AcceptError BY <1>1, <1>3 DEF Drain, AcceptError, Return, SockInv, setup
  <1>4. CASE Unlink \/ OtherInstance BY <1>1, <1>4 DEF Unlink, OtherInstance, SockInv, setup
  <1>5. CASE Close BY <1>1, <1>5 DEF Close, SockInv, setup
  <1>6. CASE /\ UNCHANGED <<kind, fallback, sockfile>>
             /\ pc' = pc \/ pc' \in {"loop", "accept", "drain"} \cup Vetting
    BY <1>1, <1>6 DEF SockInv, Vetting
  <1> QED BY <1>2, <1>3, <1>4, <1>5, <1>6
         DEF Next, Loop, CheckCancel, Accept, AcceptTimeout, AcceptClosed, Vet, SameUserTCPConn,
             ReadSecret, XShellPanic, ReadPids, Serve, Refuse, Continue, PipeCloser, HandlerDone, Environment,
             Connect, PeerSends, PeerLeaves, Cancel, setup, vars, Vetting

\* Run goes to its return from the drain, or on an error.
LEMMA DrainStep == ASSUME IInv, [Next]_vars PROVE DrainInv'
  <1> USE AcceptLoopAssumption
  <1>1. DrainInv /\ ControlInv /\ conn \in [Clients -> ConnStates] BY DEF IInv, TypeOK
  <1>2. CASE Flow
    <2>1. Served' = Served BY <1>2, FlowConn DEF Served
    <2>2. wg = 0 => Served = {}
      <3>1. IsFiniteSet(Served) /\ wg = Cardinality(Served) BY DEF IInv, ConnInv
      <3> QED BY <3>1, FS_EmptySet
    <2>3. CASE Listen
      BY <1>1, <2>1, <2>3 DEF Listen, ListenPipe, ListenUnixSock, ListenTCP, CreateCygwinSocket,
         CreateWindows, ListenFails, Return, DrainInv, ControlInv, setup
    <2>4. CASE CheckCancel \/ AcceptTimeout BY <1>1, <2>1, <2>4 DEF CheckCancel, AcceptTimeout, DrainInv, setup
    <2>5. CASE AcceptError BY <1>1, <2>1, <2>5 DEF AcceptError, Return, DrainInv, setup
    <2>6. CASE AcceptClosed BY <2>6 DEF AcceptClosed, DrainInv, IInv, ListenInv, setup
    <2>7. CASE Drain BY <1>1, <2>1, <2>2, <2>7 DEF Drain, DrainInv, setup, Return
    <2>8. CASE Unlink BY <1>1, <2>1, <2>8 DEF Unlink, DrainInv, setup
    <2>9. CASE UNCHANGED <<kind, pc, result>> /\ (cancelled => cancelled')
      BY <1>1, <2>1, <2>9 DEF DrainInv
    <2> QED BY <1>2, <2>3, <2>4, <2>5, <2>6, <2>7, <2>8, <2>9
           DEF Flow, OtherInstance, Cancel, PeerSends, PeerLeaves, setup, vars
  <1>3. CASE Vet \/ Serve \/ \E c \in Clients : Accept(c)
    <2>1. UNCHANGED <<kind, result, cancelled>> /\ ~(pc' \in {"unlink", "close"})
      <3>1. CASE Vet BY <3>1, VetStep DEF Vetting, Refuse, Continue
      <3>2. CASE Serve BY <3>2 DEF Serve, Continue, setup
      <3>3. ASSUME NEW c \in Clients, Accept(c) PROVE UNCHANGED <<kind, result, cancelled>> /\ ~(pc' \in {"unlink", "close"})
        BY <3>3 DEF Accept, setup
      <3> QED BY <1>3, <3>1, <3>2, <3>3
    <2> QED BY <1>1, <2>1 DEF DrainInv
  <1>4. CASE Close \/ PipeCloser \/ \E c \in Clients : HandlerDone(c) \/ Connect(c)
    <2>1. UNCHANGED <<kind, result, cancelled>> /\ pc' \in {pc, "returned"}
      BY <1>4 DEF Close, PipeCloser, HandlerDone, Connect, setup
    <2>2. Served' \subseteq Served
      BY <1>1, <1>4 DEF Close, PipeCloser, HandlerDone, Connect, CloseListener, Served
    <2> QED BY <1>1, <2>1, <2>2 DEF DrainInv
  <1> QED BY <1>2, <1>3, <1>4, Steps

\* Every step keeps the types.  The WaitGroup stays a number because ConnInv
\* counts with it.
LEMMA TypeStep == ASSUME IInv, [Next]_vars PROVE TypeOK'
  <1> USE AcceptLoopAssumption
  <1>1. TypeOK /\ ControlInv BY DEF IInv
  <1>2. wg' \in Nat
    <2>1. IsFiniteSet(Served') /\ wg' = Cardinality(Served') BY ConnStep DEF ConnInv
    <2> QED BY <2>1, FS_CardinalityType
  <1>3. fallback' \in BOOLEAN /\ listening' \in BOOLEAN /\ running' \in BOOLEAN /\ cancelled' \in BOOLEAN
    BY <1>1, Zenon DEF TypeOK, Next, Listen, ListenPipe, ListenUnixSock, ListenTCP, ListenFails, CreateCygwinSocket,
       CreateWindows, Loop, CheckCancel, Accept, AcceptTimeout, AcceptClosed, Vet, SameUserTCPConn,
       ReadSecret, XShellPanic, ReadPids, Serve, Drain, Unlink, Close, CloseListener, AcceptError, PipeCloser, HandlerDone,
       Environment, Connect, PeerSends, PeerLeaves, OtherInstance, Cancel, setup, vars
  <1>4. UNCHANGED <<kind, owner>>
    BY DEF Next, Listen, ListenPipe, ListenUnixSock, ListenTCP, CreateCygwinSocket,
       CreateWindows, Loop, CheckCancel, Accept, AcceptTimeout, AcceptClosed, Vet, SameUserTCPConn,
       ReadSecret, XShellPanic, ReadPids, Serve, Drain, Unlink, Close, AcceptError, PipeCloser, HandlerDone,
       Environment, Connect, PeerSends, PeerLeaves, OtherInstance, Cancel, setup, vars
  <1>5. pc' \in {"start", "tcp", "create", "loop", "accept", "owner", "secret", "pids", "serve",
                 "drain", "unlink", "close", "returned", "panic"}
    BY <1>1 DEF TypeOK, Next, Listen, ListenPipe, ListenUnixSock, ListenTCP, ListenFails,
       CreateCygwinSocket, CreateWindows, Loop, CheckCancel, Accept, AcceptTimeout, AcceptClosed, Vet,
       SameUserTCPConn, ReadSecret, XShellPanic, ReadPids, Refuse, Continue, Serve, Drain, Return, Unlink, Close,
       AcceptError, PipeCloser, HandlerDone, Environment, Connect, PeerSends, PeerLeaves,
       OtherInstance, Cancel, vars
  <1>6. result' \in {"none", "nil", "err"} /\ sockfile' \in {"none", "empty", "ours", "theirs"}
    BY <1>1 DEF TypeOK, Next, Listen, ListenPipe, ListenUnixSock, ListenTCP, ListenFails,
       CreateCygwinSocket, CreateWindows, Loop, CheckCancel, Accept, AcceptTimeout, AcceptClosed, Vet,
       SameUserTCPConn, ReadSecret, XShellPanic, ReadPids, Serve, Drain, Return, Unlink, Close,
       AcceptError, PipeCloser, HandlerDone, Environment, Connect, PeerSends, PeerLeaves,
       OtherInstance, Cancel, vars
  <1>7. hand' \in Clients \cup {None} /\ attempt' \in 0..3 /\ conn' \in [Clients -> ConnStates]
    <2>1. CASE Flow BY <1>1, <2>1, FlowConn DEF TypeOK
    <2>2. CASE Vet BY <1>1, <2>2, VetStep DEF TypeOK, Refuse, ConnStates
    <2>3. CASE Serve \/ Close \/ PipeCloser
      BY <1>1, <2>3 DEF TypeOK, Serve, Close, PipeCloser, CloseListener, ConnStates
    <2>4. ASSUME NEW c \in Clients, Accept(c) \/ HandlerDone(c) \/ Connect(c)
          PROVE hand' \in Clients \cup {None} /\ attempt' \in 0..3 /\ conn' \in [Clients -> ConnStates]
      BY <1>1, <2>4 DEF TypeOK, Accept, HandlerDone, Connect, ConnStates
    <2> QED BY <2>1, <2>2, <2>3, <2>4, Steps
  <1>8. peer' \in [Clients -> PeerStates]
    <2>1. CASE peer' = peer BY <1>1, <2>1 DEF TypeOK
    <2>2. ASSUME NEW c \in Clients, NEW v \in PeerStates, peer' = [peer EXCEPT ![c] = v]
          PROVE peer' \in [Clients -> PeerStates]
      BY <1>1, <2>2 DEF TypeOK
    <2>3. ASSUME NEW c \in Clients, PeerSends(c) \/ PeerLeaves(c)
          PROVE \E v \in PeerStates : peer' = [peer EXCEPT ![c] = v]
      BY <1>1, <2>3 DEF PeerSends, PeerLeaves, PeerStates, TypeOK
    <2> QED BY <2>1, <2>2, <2>3 DEF Next, Listen, ListenPipe, ListenUnixSock, ListenTCP, CreateCygwinSocket,
       CreateWindows, Loop, CheckCancel, Accept, AcceptTimeout, AcceptClosed, Vet, SameUserTCPConn,
       ReadSecret, XShellPanic, ReadPids, Serve, Drain, Unlink, Close, AcceptError, PipeCloser, HandlerDone,
       Environment, Connect, OtherInstance, Cancel, vars
  <1> QED BY <1>1, <1>2, <1>3, <1>4, <1>5, <1>6, <1>7, <1>8 DEF TypeOK

\* The invariant is inductive.
LEMMA IInvInvariant == Spec => []IInv
  <1>1. IInv /\ [Next]_vars => IInv'
    BY TypeStep, ControlStep, ListenStep, SockStep, ConnStep, DrainStep DEF IInv
  <1> QED BY <1>1, InitIInv, PTL DEF Spec

-----------------------------------------------------------------------------
(* What the runs check. *)

\* Every reachable state of a transport is well typed; above all the WaitGroup
\* never goes below zero, where Go panics.
THEOREM TypeCorrect == Spec => []TypeOK
  <1>1. IInv => TypeOK BY DEF IInv
  <1> QED BY <1>1, IInvInvariant, PTL

\* No client is pointed to a listener that is not there, on any path out of Run.
THEOREM AdvertisedSafe == Spec => []AdvertisedIsListening
  <1>1. IInv => AdvertisedIsListening BY DEF IInv, ListenInv, SockInv, AdvertisedIsListening
  <1> QED BY <1>1, IInvInvariant, PTL

\* Connections taken and not finished, as the abstract specification sees them.
Busy == {c \in Clients : conn[c] \in {"accepted", "served"}}

\* With nobody in hand and nobody served none is left.
LEMMA NobodyBusy == ASSUME IInv, hand = None, Served = {} PROVE Busy = {}
  BY AcceptLoopAssumption DEF IInv, ConnInv, Busy, Served

\* Every step of a transport is one of Application, or none it can see.
LEMMA RunStep == ASSUME IInv, [Next]_vars PROVE [Run!Next]_(Run!vars)
  <1> USE AcceptLoopAssumption
  <1> DEFINE Stutter == UNCHANGED <<Policy, RunState, Busy, cancelled>>
  <1>1. kind' = kind BY DEF Next, Listen, ListenPipe, ListenUnixSock, ListenTCP, CreateCygwinSocket,
      CreateWindows, Loop, CheckCancel, Accept, AcceptTimeout, AcceptClosed, Vet, SameUserTCPConn,
      ReadSecret, XShellPanic, ReadPids, Serve, Drain, Unlink, Close, AcceptError, PipeCloser, HandlerDone,
      Environment, Connect, PeerSends, PeerLeaves, OtherInstance, Cancel, setup, vars
  <1>2. UNCHANGED Policy BY <1>1 DEF Policy
  <1>3. conn \in [Clients -> ConnStates] /\ kind \in Kinds /\ ControlInv BY DEF IInv, TypeOK
  <1>4. Stutter => [Run!Next]_(Run!vars) BY DEF Run!vars, Busy
  <1>5. CASE ListenPipe \/ ListenUnixSock \/ ListenTCP
    <2>1. UNCHANGED <<Busy, cancelled>> BY <1>5 DEF ListenPipe, ListenUnixSock, ListenTCP, Busy
    <2>2. Stutter \/ Run!Begin
      <3>1. CASE pc' = "tcp" \/ (pc' = "loop" \/ pc' = "accept" \/ pc' = "create")
        BY <1>2, <1>5, <2>1, <3>1 DEF ListenPipe, ListenUnixSock, ListenTCP, ListenFails, RunState, Run!Begin, Busy
      <3>2. CASE pc' = "returned"
        BY <1>1, <1>2, <1>5, <2>1, <3>2 DEF ListenPipe, ListenUnixSock, ListenTCP, ListenFails, RunState, Run!Begin,
           Policy, Busy, Polling
      <3> QED BY <1>5, <3>1, <3>2 DEF ListenPipe, ListenUnixSock, ListenTCP, ListenFails
    <2> QED BY <1>4, <2>2 DEF Run!Next
  <1>6. CASE CreateCygwinSocket \/ CreateWindows
    <2>1. UNCHANGED <<Busy, cancelled>> BY <1>6 DEF CreateCygwinSocket, CreateWindows, Busy
    <2>2. CASE pc' # "returned"
      <3>1. Stutter BY <1>2, <1>6, <2>1, <2>2 DEF CreateCygwinSocket, CreateWindows, Return, RunState
      <3> QED BY <1>4, <3>1
    <2>3. CASE pc' = "returned"
      <3>1. hand = None /\ Served = {} BY <1>3, <1>6 DEF CreateCygwinSocket, CreateWindows, ControlInv, Vetting, IInv, ConnInv
      <3>2. Busy = {} BY <3>1, NobodyBusy
      <3>3. RunState = "running" /\ RunState' = "failed" /\ Policy = "drain"
        BY <1>1, <1>6, <2>3 DEF CreateCygwinSocket, CreateWindows, Return, RunState, Policy
      <3>4. Run!Failed BY <1>2, <2>1, <3>2, <3>3 DEF Run!Failed, Busy
      <3> QED BY <3>4 DEF Run!Next
    <2> QED BY <2>2, <2>3
  <1>7. CASE CheckCancel \/ AcceptTimeout \/ AcceptError \/ AcceptClosed \/ Drain
    <2>1. UNCHANGED <<conn, cancelled>> /\ ~(pc \in {"start", "tcp", "returned"}) /\ ~(pc' \in {"start", "tcp", "returned"})
      BY <1>7 DEF CheckCancel, AcceptTimeout, AcceptError, AcceptClosed, Drain, Return
    <2>2. Stutter BY <1>2, <2>1 DEF RunState, Busy
    <2> QED BY <1>4, <2>2
  <1>8. ASSUME NEW c \in Clients, Accept(c) PROVE [Run!Next]_(Run!vars)
    <2>1. RunState = "running" /\ RunState' = RunState /\ cancelled' = cancelled BY <1>8 DEF Accept, RunState
    <2>2. c \notin Busy /\ c \in Busy' /\ Busy' = Busy \cup {c} BY <1>3, <1>8 DEF Accept, Busy
    <2>3. Run!Take BY <1>2, <2>1, <2>2 DEF Run!Take, Busy
    <2> QED BY <2>3 DEF Run!Next
  <1>9. CASE Vet
    <2>1. UNCHANGED <<RunState, cancelled>>
      BY <1>1, <1>9, VetStep DEF RunState, Vetting, Refuse, Continue
    <2>2. CASE conn' = conn
      <3>1. Stutter BY <1>2, <2>1, <2>2 DEF Busy
      <3> QED BY <1>4, <3>1
    <2>3. CASE Refuse
      <3>1. hand \in Busy /\ Busy' = Busy \ {hand} BY <1>3, <1>9, <2>3, VetStep DEF Refuse, Busy
      <3>2. Run!Finish BY <1>2, <2>1, <3>1 DEF Run!Finish, Busy
      <3> QED BY <3>2 DEF Run!Next
    <2> QED BY <1>9, <2>2, <2>3, VetStep
  <1>10. CASE Serve
    <2>1. hand \in Clients BY <1>10 DEF Serve, IInv, ControlInv, TypeOK, Vetting
    <2>2. conn[hand] = "accepted" BY <2>1 DEF IInv, ConnInv
    <2>3. Busy' = Busy BY <1>3, <1>10, <2>1, <2>2 DEF Serve, Busy
    <2>4. Stutter BY <1>1, <1>2, <1>10, <2>3 DEF Serve, Continue, RunState
    <2> QED BY <1>4, <2>4
  <1>11. CASE Unlink \/ Close
    <2>1. UNCHANGED <<cancelled, result>> /\ Busy' = Busy
      BY <1>3, <1>11 DEF Unlink, Close, CloseListener, Busy
    <2>2. CASE pc' # "returned"
      <3>1. Stutter BY <1>2, <1>11, <2>1, <2>2 DEF Unlink, Close, RunState
      <3> QED BY <1>4, <3>1
    <2>3. CASE pc' = "returned"
      <3>1. hand = None /\ pc \in {"unlink", "close"} /\ RunState = "running"
        BY <1>3, <1>11 DEF Unlink, Close, ControlInv, Vetting, RunState
      <3>2. CASE kind # "vsock" /\ result = "nil"
        <4>1. Busy = {} /\ cancelled BY <3>1, <3>2, NobodyBusy DEF IInv, DrainInv
        <4>2. Policy # "never" /\ RunState' = "drained"
          BY <1>1, <1>3, <2>1, <2>3, <3>2 DEF Policy, RunState, Kinds, Polling
        <4>3. Run!Drained BY <1>2, <2>1, <3>1, <4>1, <4>2 DEF Run!Drained, Busy
        <4> QED BY <4>3 DEF Run!Next
      <3>3. CASE kind = "vsock"
        <4>1. Policy = "never" /\ RunState' = "ended"
          BY <1>1, <1>3, <2>1, <2>3, <3>1, <3>3 DEF Policy, RunState, Polling, ControlInv
        <4>2. Run!Failed BY <1>2, <2>1, <3>1, <4>1 DEF Run!Failed, Busy
        <4> QED BY <4>2 DEF Run!Next
      <3>4. CASE kind # "vsock" /\ result # "nil"
        <4>1. Policy # "never" /\ RunState' = "failed"
          BY <1>1, <1>3, <2>1, <2>3, <3>4 DEF Policy, RunState, Kinds, Polling
        <4>2. Policy = "drain" => Busy = {}
          BY <3>1, <3>4, NobodyBusy DEF Policy, IInv, DrainInv
        <4>3. Run!Failed BY <1>2, <2>1, <3>1, <4>1, <4>2 DEF Run!Failed, Busy
        <4> QED BY <4>3 DEF Run!Next
      <3> QED BY <3>2, <3>3, <3>4
    <2> QED BY <2>2, <2>3
  <1>12. CASE PipeCloser
    <2>1. Busy' = Busy BY <1>3, <1>12 DEF PipeCloser, CloseListener, Busy
    <2>2. Stutter BY <1>1, <1>2, <1>12, <2>1 DEF PipeCloser, RunState
    <2> QED BY <1>4, <2>2
  <1>13. ASSUME NEW c \in Clients, HandlerDone(c) PROVE [Run!Next]_(Run!vars)
    <2>1. c \in Busy /\ Busy' = Busy \ {c} BY <1>3, <1>13 DEF HandlerDone, Busy
    <2>2. UNCHANGED <<RunState, cancelled>> BY <1>1, <1>13 DEF HandlerDone, RunState
    <2>3. Run!Finish BY <1>2, <2>1, <2>2 DEF Run!Finish, Busy
    <2> QED BY <2>3 DEF Run!Next
  <1>14. ASSUME NEW c \in Clients, Connect(c) PROVE [Run!Next]_(Run!vars)
    <2>1. Busy' = Busy BY <1>3, <1>14 DEF Connect, Busy
    <2>2. Stutter BY <1>1, <1>2, <1>14, <2>1 DEF Connect, RunState
    <2> QED BY <1>4, <2>2
  <1>15. CASE Cancel
    <2>1. UNCHANGED <<Busy, RunState>> BY <1>1, <1>15 DEF Cancel, Busy, RunState
    <2>2. Run!Cancel BY <1>2, <1>15, <2>1 DEF Run!Cancel, Cancel, Busy
    <2> QED BY <2>2 DEF Run!Next
  <1>16. CASE UNCHANGED <<pc, result, conn, cancelled>>
    <2>1. Stutter BY <1>1, <1>2, <1>16 DEF Busy, RunState
    <2> QED BY <1>4, <2>1
  <1> QED BY <1>5, <1>6, <1>7, <1>8, <1>9, <1>10, <1>11, <1>12, <1>13, <1>14, <1>15, <1>16
         DEF Next, Listen, Loop, Environment, PeerSends, PeerLeaves, OtherInstance, vars

\* All five transports implement Application, whatever is accepted, refused and
\* served in between: none returns nil before it is cancelled and has drained.
THEOREM RunImplements == Spec => RunSpec
  <1>1. Init => Run!Init BY AcceptLoopAssumption DEF Init, Run!Init, Policy, RunState, Polling
  <1> QED BY <1>1, RunStep, IInvInvariant, PTL DEF Spec, RunSpec, Run!Spec
=============================================================================
