------------------------------ MODULE Pageant ------------------------------
(***************************************************************************)
(* The Pageant transport (utils/pageant.go, utils/mmap.go, app/pageant.go).*)
(* Three parties: the goroutine that runs NewPageant and then the accept   *)
(* loop of Run; the OS thread that owns the hidden window, on which        *)
(* wndProc handles one WM_COPYDATA at a time and blocks until it is        *)
(* answered; and one handler goroutine per accepted request.               *)
(*                                                                         *)
(* A client is a process blocked in SendMessage.  The uint32 length field  *)
(* is scaled: arithmetic is modulo Word, the buffer holds MaxMsglen bytes. *)
(***************************************************************************)
EXTENDS Naturals

CONSTANTS
  Clients,
  Word,         \* 2^32, scaled down
  MaxMsglen,    \* agentMaxMsglen
  Lens,         \* length fields that clients put into the shared memory
  MaxHandlers   \* bound: handler goroutines not yet finished

ASSUME PageantAssumption ==
  /\ Word \in Nat /\ MaxMsglen \in Nat
  /\ 4 < MaxMsglen /\ MaxMsglen + 4 < Word
  /\ Lens \subseteq 0..(Word - 1)
  /\ MaxHandlers \in Nat \ {0}

VARIABLES
  run,        \* program counter of the goroutine of Run
  requestCh,  \* "nil" or "made"
  wt,         \* program counter of the window's thread
  cur,        \* {} or the client whose message wndProc is handling
  pc, msg,    \* per client: its SendMessage call and what it sent
  ret,        \* per client: what SendMessage returned
  conn,       \* per client: the memoryMapConn of its request
  wg,         \* counter of Run's WaitGroup
  finishing,  \* handlers that have returned and not yet called wg.Done
  cancelled,  \* ctx is done
  exit        \* "no", "main" or "panic": the process is gone

clients == <<pc, msg, ret>>
handlers == <<conn, wg, finishing>>
vars == <<run, requestCh, wt, cur, pc, msg, ret, conn, wg, finishing, cancelled, exit>>

Checks == {"badId", "noMapping", "noSID", "wrongOwner", "noView", "pass"}
Messages == [check : Checks, len : Lens]
NoMessage == [check |-> "none", len |-> 0]
Running == exit = "no"

TypeOK ==
  /\ run \in {"register", "await", "assign", "accept", "drain", "returned"}
  /\ requestCh \in {"nil", "made"}
  /\ wt \in {"none", "create", "loop", "proc", "sending", "stuck", "waitResp"}
  /\ cur \in SUBSET Clients
  /\ pc \in [Clients -> {"idle", "sent", "answered"}]
  /\ msg \in [Clients -> Messages \cup {NoMessage}]
  /\ ret \in [Clients -> {"none", "0", "1"}]
  /\ conn \in [Clients -> {"none", "accepted", "silent", "replied", "tooLarge"}]
  /\ wg \in 0..MaxHandlers /\ finishing \in 0..MaxHandlers
  /\ cancelled \in BOOLEAN
  /\ exit \in {"no", "main", "panic"}

Init ==
  /\ run = "register" /\ requestCh = "nil" /\ wt = "none" /\ cur = {}
  /\ pc = [c \in Clients |-> "idle"]
  /\ msg = [c \in Clients |-> NoMessage]
  /\ ret = [c \in Clients |-> "none"]
  /\ conn = [c \in Clients |-> "none"]
  /\ wg = 0 /\ finishing = 0
  /\ cancelled = FALSE /\ exit = "no"

-----------------------------------------------------------------------------
(* NewPageant and Run. *)

\* wcex.register, and the start of the window's thread; Run returns the error.
Register ==
  /\ Running /\ run = "register"
  /\ \/ run' = "await" /\ wt' = "create"
     \/ run' = "returned" /\ UNCHANGED wt
  /\ UNCHANGED <<requestCh, cur, clients, handlers, cancelled, exit>>

\* CreateWindowEx and the rendezvous on ch.  From here on the window exists and
\* its thread pumps messages.  If the window could not be created NewPageant
\* returns the outer err, which is nil, with a nil window: Run goes on to
\* dereference it.
CreateWindow ==
  /\ Running /\ run = "await" /\ wt = "create"
  /\ \/ run' = "assign" /\ wt' = "loop" /\ UNCHANGED exit
     \/ exit' = "panic" /\ UNCHANGED <<run, wt>>
  /\ UNCHANGED <<requestCh, cur, clients, handlers, cancelled>>

\* win.requestCh = make(chan request), read by the window's thread without
\* synchronisation.
MakeRequestCh ==
  /\ Running /\ run = "assign"
  /\ requestCh' = "made"
  /\ run' = "accept"
  /\ UNCHANGED <<wt, cur, clients, handlers, cancelled, exit>>

\* Mutant: the window's thread does not wait for the response.
Accept_NoWait(c) ==
  /\ Running /\ run = "accept" /\ wt = "sending" /\ c \in cur
  /\ wg < MaxHandlers
  /\ wt' = "loop"
  /\ conn' = [conn EXCEPT ![c] = "accepted"]
  /\ wg' = wg + 1
  /\ UNCHANGED <<run, requestCh, cur, clients, finishing, cancelled, exit>>

\* AcceptCtx takes a request: the rendezvous with the window's thread.
Accept(c) ==
  /\ Running /\ run = "accept" /\ wt = "sending" /\ c \in cur
  /\ wg < MaxHandlers
  /\ wt' = "waitResp"
  /\ conn' = [conn EXCEPT ![c] = "accepted"]
  /\ wg' = wg + 1
  /\ UNCHANGED <<run, requestCh, cur, clients, finishing, cancelled, exit>>

\* Mutant: Run returns on ctx.Done without wg.Wait.
AcceptDone_NoWait ==
  /\ Running /\ run = "accept" /\ cancelled
  /\ run' = "returned"
  /\ UNCHANGED <<requestCh, wt, cur, clients, handlers, cancelled, exit>>

\* AcceptCtx sees ctx.Done and Run waits for its handlers.
AcceptDone ==
  /\ Running /\ run = "accept" /\ cancelled
  /\ run' = "drain"
  /\ UNCHANGED <<requestCh, wt, cur, clients, handlers, cancelled, exit>>

\* wg.Wait returns, and so does Run.  win.Close is called on another thread
\* than the window's, where DestroyWindow does nothing: the window stays.
RunReturn ==
  /\ Running /\ run = "drain" /\ wg = 0
  /\ run' = "returned"
  /\ UNCHANGED <<requestCh, wt, cur, clients, handlers, cancelled, exit>>

(* wndProc on the window's thread. *)

Size(len) == (len + 4) % Word

SendMessageReturns(c, r) ==
  /\ pc' = [pc EXCEPT ![c] = "answered"]
  /\ ret' = [ret EXCEPT ![c] = r]

\* Mutant: the limit is compared with the length before the header is added.
Admitted_NoHeader(m) == m.check = "pass" /\ m.len =< MaxMsglen

Admitted(m) == m.check = "pass" /\ Size(m.len) =< MaxMsglen

\* From GetMessage to the copy of the request out of the shared memory.
Dispatch(c) ==
  /\ Running /\ wt = "loop" /\ pc[c] = "sent"
  /\ \/ /\ ~Admitted(msg[c])
        /\ SendMessageReturns(c, "0")
        /\ UNCHANGED <<wt, cur>>
     \/ /\ Admitted(msg[c])
        /\ wt' = "proc"
        /\ cur' = {c}
        /\ UNCHANGED <<pc, ret>>
  /\ UNCHANGED <<run, requestCh, msg, handlers, cancelled, exit>>

\* s.requestCh <- request: the operand is evaluated once, and a send on a nil
\* channel never proceeds.
EvalRequestCh ==
  /\ Running /\ wt = "proc"
  /\ wt' = IF requestCh = "made" THEN "sending" ELSE "stuck"
  /\ UNCHANGED <<run, requestCh, cur, clients, handlers, cancelled, exit>>

(* Handler goroutines: Server.SSHAgentHandler on a memoryMapConn. *)

\* agent.ServeAgent finds one whole request in the Size(len) bytes it can read.
WholeRequest(len) == Size(len) >= 4 /\ len # 0 /\ len =< Size(len) - 4

\* ServeAgent answers the request and then reads EOF, or fails before writing.
Serve(c) ==
  /\ Running /\ conn[c] = "accepted"
  /\ \/ /\ WholeRequest(msg[c].len)
        /\ conn' \in {[conn EXCEPT ![c] = r] : r \in {"replied", "tooLarge"}}
     \/ conn' = [conn EXCEPT ![c] = "silent"]
  /\ UNCHANGED <<run, requestCh, wt, cur, clients, wg, finishing, cancelled, exit>>

\* Mutant: a connection nothing was written to closes without a response.
CloseConn_OnlyReply(c) ==
  /\ Running /\ conn[c] \in {"replied", "tooLarge"}
  /\ wt = "waitResp" /\ cur = {c}
  /\ SendMessageReturns(c, IF conn[c] = "replied" THEN "1" ELSE "0")
  /\ conn' = [conn EXCEPT ![c] = "none"]
  /\ finishing' = finishing + 1
  /\ wt' = "loop" /\ cur' = {}
  /\ UNCHANGED <<run, requestCh, msg, wg, cancelled, exit>>

\* The deferred conn.Close hands the response to wndProc, which copies it if
\* it fits and returns.
CloseConn(c) ==
  /\ Running /\ conn[c] \in {"replied", "tooLarge", "silent"}
  /\ wt = "waitResp" /\ cur = {c}
  /\ SendMessageReturns(c, IF conn[c] = "replied" THEN "1" ELSE "0")
  /\ conn' = [conn EXCEPT ![c] = "none"]
  /\ finishing' = finishing + 1
  /\ wt' = "loop" /\ cur' = {}
  /\ UNCHANGED <<run, requestCh, msg, wg, cancelled, exit>>

\* Mutant: wg.Done is called twice.
HandlerDone_Twice ==
  /\ Running /\ finishing > 0
  /\ finishing' = finishing - 1
  /\ wg' = wg - 2
  /\ UNCHANGED <<run, requestCh, wt, cur, clients, conn, cancelled, exit>>

\* Mutant: wg.Done is forgotten.
HandlerDone_Missing ==
  /\ Running /\ finishing > 0
  /\ finishing' = finishing - 1
  /\ UNCHANGED <<run, requestCh, wt, cur, clients, conn, wg, cancelled, exit>>

HandlerDone ==
  /\ Running /\ finishing > 0
  /\ finishing' = finishing - 1
  /\ wg' = wg - 1
  /\ UNCHANGED <<run, requestCh, wt, cur, clients, conn, cancelled, exit>>

-----------------------------------------------------------------------------
(* The environment: clients, and main. *)

\* FindWindow succeeds from the moment the window exists.
SendMessage(c) ==
  /\ Running /\ pc[c] = "idle" /\ wt \notin {"none", "create"}
  /\ \E m \in Messages : msg' = [msg EXCEPT ![c] = m]
  /\ pc' = [pc EXCEPT ![c] = "sent"]
  /\ UNCHANGED <<run, requestCh, wt, cur, ret, handlers, cancelled, exit>>

Return(c) ==
  /\ Running /\ pc[c] = "answered"
  /\ pc' = [pc EXCEPT ![c] = "idle"]
  /\ ret' = [ret EXCEPT ![c] = "none"]
  /\ msg' = [msg EXCEPT ![c] = NoMessage]
  /\ UNCHANGED <<run, requestCh, wt, cur, handlers, cancelled, exit>>

Cancel ==
  /\ Running /\ ~cancelled
  /\ cancelled' = TRUE
  /\ UNCHANGED <<run, requestCh, wt, cur, clients, handlers, exit>>

\* main returns after the wait that follows cancel().
MainReturns ==
  /\ Running /\ cancelled
  /\ exit' = "main"
  /\ UNCHANGED <<run, requestCh, wt, cur, clients, handlers, cancelled>>

Terminated == ~Running /\ UNCHANGED vars

-----------------------------------------------------------------------------
RunStep == Register \/ CreateWindow \/ MakeRequestCh \/ AcceptDone \/ RunReturn
Handler(c) == Serve(c) \/ CloseConn(c)

Next ==
  \/ RunStep \/ EvalRequestCh \/ HandlerDone
  \/ \E c \in Clients : Accept(c) \/ Dispatch(c) \/ Handler(c) \/ SendMessage(c) \/ Return(c)
  \/ Cancel \/ MainReturns \/ Terminated

Spec == Init /\ [][Next]_vars

(***************************************************************************)
(* Fairness: goroutines and the window's thread are scheduled, handlers    *)
(* finish, and Windows delivers sent messages in turn (strong fairness of  *)
(* Dispatch).  Neither clients nor main have to do anything.               *)
(***************************************************************************)
Fairness ==
  /\ WF_vars(RunStep) /\ WF_vars(EvalRequestCh) /\ WF_vars(HandlerDone)
  /\ \A c \in Clients : /\ WF_vars(Accept(c)) /\ WF_vars(Handler(c))
                        /\ SF_vars(Dispatch(c))

FairSpec == Spec /\ Fairness
-----------------------------------------------------------------------------
(* Properties. *)

\* The agent answers only requests that passed every check of wndProc and lie
\* complete within the shared buffer, whatever the length field wraps to.
OnlyWholeRequestsServed ==
  \A c \in Clients : conn[c] \in {"replied", "tooLarge"} \/ ret[c] = "1" =>
    msg[c].check = "pass" /\ msg[c].len # 0 /\ msg[c].len + 4 =< MaxMsglen

\* The window's thread waits for the answer to the one message it is handling:
\* a live connection is that message's, and its client is still blocked with
\* its buffer mapped.
OneRequestAtATime ==
  \A c \in Clients : conn[c] # "none" => cur = {c} /\ wt = "waitResp" /\ pc[c] = "sent"

\* A Run that returns without having had a channel was stopped by an error.
RunState == CASE run \in {"register", "await", "assign"} -> "started"
              [] run \in {"accept", "drain"} -> "running"
              [] OTHER -> IF requestCh = "nil" THEN "failed" ELSE "drained"

Run == INSTANCE Application WITH
  policy <- "drain", state <- RunState, busy <- {c \in Clients : conn[c] # "none"}

\* Run keeps what Application promises main, in its strictest form: it accepts
\* nothing before it listens and nothing once it has returned, returns nil only
\* after a cancel, and leaves no accepted request behind.
RunSpec == Run!Spec

\* Once requestCh exists, a client that sends a message gets its answer, valid
\* or not, as long as main does not quit.
AnsweredOnceReady ==
  \A c \in Clients :
    (pc[c] = "sent" /\ requestCh = "made" /\ wt # "stuck")
      ~> (pc[c] = "answered" \/ cancelled \/ wt = "stuck" \/ ~Running)

\* After cancel() the accept loop ends and Run returns, requests in flight
\* included.
RunReturnsOnCancel == cancelled ~> (run = "returned" \/ ~Running)

\* docs/FLOWS.md:43 of the transports: "every one of them ends up calling the
\* exact same handler".  A message that arrives between the creation of the
\* window and MakeRequestCh never does, and neither does any later one.
EveryMessageAnswered ==
  \A c \in Clients : pc[c] = "sent" ~> (pc[c] = "answered" \/ cancelled \/ ~Running)
=============================================================================
