----------------------------- MODULE AcceptLoop -----------------------------
(***************************************************************************)
(* Run of the stream transports, which share one shape: NamedPipe          *)
(* (app/pipe.go), WSL (app/wsl.go, with the owner check of                 *)
(* utils/tcpowner.go), Cygwin (app/cygwin.go), XShell (app/xshell.go,      *)
(* utils/xagent.go) and the wildcard listener of VSock (app/vsock.go).     *)
(* Each opens a listener, accepts connections, vets them in its own way,   *)
(* hands them to handler goroutines counted by a WaitGroup, and drains,    *)
(* each a little differently.  kind says which of them runs.               *)
(*                                                                         *)
(* A connection is what Run does with it (conn) and what its peer has done *)
(* (peer); bytes, names and ports are left out.                            *)
(***************************************************************************)
EXTENDS Naturals

CONSTANTS
  Clients,    \* peers, each of which connects once
  SamePort,   \* users with sockets on another address and the same port as a peer
  None        \* no client

Users == {"same", "other"}

ASSUME AcceptLoopAssumption == None \notin Clients /\ SamePort \subseteq Users

VARIABLES
  kind,
  pc,         \* program counter of Run; a panic ends the process with it
  result,     \* error that Run returns, "nil" for none
  fallback,   \* WSL: listening on TCP
  listening,  \* the listener is open
  running,    \* s.running, read by the menu
  sockfile,   \* where clients look for the listener (the socket file of WSL and
              \* Cygwin, the window of XShell): nothing, something unfinished,
              \* ours or that of another process
  hand,       \* conn of the current iteration
  attempt,    \* of the query for the TCP table
  conn,       \* per client, see ConnStates
  peer,       \* per client, see PeerStates
  wg,         \* the WaitGroup
  cancelled,
  owner       \* per client: the user it runs as

setup == <<kind, owner, fallback, running>>
vars == <<kind, pc, result, fallback, listening, running, sockfile, hand, attempt,
          conn, peer, wg, cancelled, owner>>

Kinds == {"pipe", "wsl", "cygwin", "xshell", "vsock"}
Polling == {"wsl", "cygwin"}  \* look at the context between Accepts with a deadline
ConnStates == {"idle", "queued", "accepted", "served", "closed"}
PeerStates == {"quiet", "wrong", "wraps", "secret", "pids", "gone", "sentAndGone", "wrapsAndGone"}

\* The peer has hung up, with or without having sent its whole handshake.
Gone(c) == peer[c] \in {"gone", "sentAndGone", "wrapsAndGone"}

TypeOK ==
  /\ kind \in Kinds
  /\ pc \in {"start", "tcp", "create", "loop", "accept", "owner", "secret", "pids", "serve",
             "drain", "unlink", "close", "returned", "panic"}
  /\ result \in {"none", "nil", "err"}
  /\ fallback \in BOOLEAN /\ listening \in BOOLEAN /\ running \in BOOLEAN
  /\ sockfile \in {"none", "empty", "ours", "theirs"}
  /\ hand \in Clients \cup {None}
  /\ attempt \in 0..3
  /\ conn \in [Clients -> ConnStates] /\ peer \in [Clients -> PeerStates]
  /\ wg \in Nat
  /\ cancelled \in BOOLEAN
  /\ owner \in [Clients -> Users]

\* The socket file of an earlier process may still be there.
Init ==
  /\ kind \in Kinds
  /\ pc = "start" /\ result = "none"
  /\ fallback = FALSE /\ listening = FALSE /\ running = FALSE
  /\ sockfile \in IF kind \in Polling THEN {"none", "theirs"} ELSE {"none"}
  /\ hand = None /\ attempt = 0
  /\ conn = [c \in Clients |-> "idle"] /\ peer = [c \in Clients |-> "quiet"]
  /\ wg = 0 /\ cancelled = FALSE
  /\ owner \in [Clients -> Users]
  /\ kind # "wsl" => owner = [c \in Clients |-> "same"]

-----------------------------------------------------------------------------
(* Opening the listener. *)

ListenFails == pc' = "returned" /\ result' = "err" /\ UNCHANGED <<listening, running>>

\* winio.ListenPipe, and ListenHvsock of a host that has the service.
ListenPipe ==
  /\ kind \in {"pipe", "vsock"} /\ pc = "start"
  /\ \/ ListenFails
     \/ kind = "vsock" /\ pc' = "returned" /\ result' = "nil" /\ UNCHANGED <<listening, running>>
     \/ pc' = "accept" /\ listening' = TRUE /\ running' = TRUE /\ UNCHANGED result
  /\ UNCHANGED <<kind, owner, fallback, sockfile, hand, attempt, conn, peer,
                 wg, cancelled>>

\* listenUnixSock removes what is at the path and binds it, or TCP is tried.
ListenUnixSock ==
  /\ kind = "wsl" /\ pc = "start"
  /\ \/ pc' = "loop" /\ listening' = TRUE /\ running' = TRUE /\ sockfile' = "ours"
     \/ pc' = "tcp" /\ sockfile' \in {sockfile, "none"} /\ UNCHANGED <<listening, running>>
  /\ UNCHANGED <<kind, owner, result, fallback, hand, attempt, conn, peer, wg,
                 cancelled>>

\* net.Listen("tcp"): the fallback of WSL, the first step of Cygwin and XShell.
ListenTCP ==
  /\ pc = "tcp" \/ (kind \in {"cygwin", "xshell"} /\ pc = "start")
  /\ fallback' = (kind = "wsl")
  /\ \/ ListenFails
     \/ /\ listening' = TRUE /\ running' = (kind = "wsl")
        /\ pc' = IF kind = "wsl" THEN "loop" ELSE "create"
        /\ UNCHANGED result
  /\ UNCHANGED <<kind, owner, sockfile, hand, attempt, conn, peer, wg, cancelled>>

\* Mutant: the socket file is left behind.
Return_NoUnlink(res) == result' = res /\ pc' = "close"

\* The deferred calls: Close of a Unix listener removes its path first, and so
\* does the deferred function of Cygwin; XShell closes its windows.
Return(res) ==
  /\ result' = res
  /\ pc' = IF kind \in {"cygwin", "xshell"} \/ (kind = "wsl" /\ ~fallback) THEN "unlink" ELSE "close"

\* createCygwinSocket fails to open the file, to get a uuid (and leaves the
\* file open) or to set its attributes.
CreateCygwinSocket ==
  /\ kind = "cygwin" /\ pc = "create"
  /\ \/ pc' = "loop" /\ sockfile' = "ours" /\ running' = TRUE /\ UNCHANGED result
     \/ Return("err") /\ sockfile' \in {"none", "empty", "ours"} /\ UNCHANGED running
  /\ UNCHANGED <<kind, owner, fallback, listening, hand, attempt, conn, peer,
                 wg, cancelled>>

\* The rest of NewXAgent.  If a window cannot be made the listener stays open,
\* as does the first window if the second one fails.
CreateWindows ==
  /\ kind = "xshell" /\ pc = "create"
  /\ \/ pc' = "accept" /\ sockfile' = "ours" /\ UNCHANGED result
     \/ pc' = "returned" /\ result' = "err" /\ sockfile' \in {"none", "empty"}
  /\ UNCHANGED <<setup, listening, hand, attempt, conn, peer, wg, cancelled>>

-----------------------------------------------------------------------------
(* The loop. *)

Continue == IF kind \in Polling THEN "loop" ELSE "accept"

\* The select at the top, in WSL and Cygwin.
CheckCancel ==
  /\ pc = "loop"
  /\ pc' = IF cancelled THEN "drain" ELSE "accept"
  /\ result' = IF cancelled THEN "nil" ELSE result
  /\ UNCHANGED <<setup, listening, sockfile, hand, attempt, conn, peer, wg, cancelled>>

Accept(c) ==
  /\ pc = "accept" /\ listening /\ conn[c] = "queued"
  /\ conn' = [conn EXCEPT ![c] = "accepted"]
  /\ hand' = c
  /\ pc' = IF kind \in {"cygwin", "xshell"} THEN "secret"
           ELSE IF fallback THEN "owner" ELSE "serve"
  /\ UNCHANGED <<setup, result, listening, sockfile, attempt, peer, wg, cancelled>>

\* Mutant: Accept has no deadline.
AcceptTimeout_Never == FALSE

\* SetListenerDeadline: a second without a connection.
AcceptTimeout ==
  /\ pc = "accept" /\ kind \in Polling /\ \A c \in Clients : conn[c] # "queued"
  /\ pc' = "loop"
  /\ UNCHANGED <<setup, result, listening, sockfile, hand, attempt, conn, peer, wg,
                 cancelled>>

\* Any other error ends Run.  NamedPipe and XShell drain first.
AcceptError ==
  /\ pc = "accept" /\ listening
  /\ IF kind \in {"pipe", "xshell"} THEN pc' = "drain" /\ result' = "err"
     ELSE Return(IF kind = "vsock" THEN "nil" ELSE "err")
  /\ UNCHANGED <<setup, listening, sockfile, hand, attempt, conn, peer, wg, cancelled>>

\* ErrPipeListenerClosed.
AcceptClosed ==
  /\ pc = "accept" /\ ~listening
  /\ pc' = "drain" /\ result' = "nil"
  /\ UNCHANGED <<setup, listening, sockfile, hand, attempt, conn, peer, wg, cancelled>>

\* conn.Close and continue.
Refuse ==
  /\ conn' = [conn EXCEPT ![hand] = "closed"]
  /\ hand' = None
  /\ pc' = Continue

\* tcpConnOwnerPID returns the owner of the first row of the table with the
\* port, whatever the address of that row.
FoundOwner(c) == {owner[c]} \cup SamePort

\* SameUserTCPConn: the table grows and is asked for again, up to three times;
\* something fails, and the connection is let in; or the owner is found.
SameUserTCPConn ==
  /\ pc = "owner"
  /\ \/ attempt < 3 /\ attempt' = attempt + 1 /\ UNCHANGED <<pc, hand, conn>>
     \/ attempt' = 0 /\ pc' = "serve" /\ UNCHANGED <<hand, conn>>
     \/ attempt < 3 /\ attempt' = 0 /\ "other" \in FoundOwner(hand) /\ Refuse
  /\ UNCHANGED <<setup, result, listening, sockfile, peer, wg, cancelled>>

\* cygwinHandshake and xshellHandshake, on the loop's goroutine: a uuid or a
\* cookie, in Cygwin followed by twelve bytes.  What a peer sent before it hung
\* up may still be read and answered, or that may fail.
ReadSecret ==
  /\ pc = "secret"
  /\ \/ /\ peer[hand] \in {"secret", "pids", "sentAndGone"}
        /\ pc' = IF kind = "cygwin" THEN "pids" ELSE "serve"
        /\ UNCHANGED <<hand, conn>>
     \/ (peer[hand] = "wrong" \/ Gone(hand)) /\ Refuse
  /\ UNCHANGED <<setup, result, listening, sockfile, attempt, peer, wg, cancelled>>

\* xshellHandshake adds 4 to the length of the hello before it checks it: the
\* length that wraps to 0 makes a request without bytes, and req[0] panics.
XShellPanic ==
  /\ pc = "secret" /\ peer[hand] \in {"wraps", "wrapsAndGone"}
  /\ pc' = "panic"
  /\ UNCHANGED <<setup, result, listening, sockfile, hand, attempt, conn, peer, wg, cancelled>>

ReadPids ==
  /\ pc = "pids"
  /\ \/ peer[hand] \in {"pids", "sentAndGone"} /\ pc' = "serve" /\ UNCHANGED <<hand, conn>>
     \/ Gone(hand) /\ Refuse
  /\ UNCHANGED <<setup, result, listening, sockfile, attempt, peer, wg, cancelled>>

\* Mutant: the handler runs on the loop's goroutine.
Serve_Inline ==
  /\ pc = "serve"
  /\ \/ conn[hand] = "accepted" /\ wg' = wg + 1 /\ conn' = [conn EXCEPT ![hand] = "served"]
        /\ UNCHANGED <<hand, pc>>
     \/ conn[hand] = "closed" /\ hand' = None
        /\ pc' = Continue /\ UNCHANGED <<conn, wg>>
  /\ UNCHANGED <<setup, result, listening, sockfile, attempt, peer, cancelled>>

\* wg.Add(1) and the handler's goroutine.
Serve ==
  /\ pc = "serve"
  /\ wg' = wg + 1
  /\ conn' = [conn EXCEPT ![hand] = "served"]
  /\ hand' = None
  /\ pc' = Continue
  /\ UNCHANGED <<setup, result, listening, sockfile, attempt, peer, cancelled>>

\* Mutant: Run does not wait for its handlers.
Drain_NoWait ==
  /\ pc = "drain"
  /\ Return(result)
  /\ UNCHANGED <<setup, listening, sockfile, hand, attempt, conn, peer, wg, cancelled>>

\* wg.Wait.
Drain ==
  /\ pc = "drain" /\ wg = 0
  /\ Return(result)
  /\ UNCHANGED <<setup, listening, sockfile, hand, attempt, conn, peer, wg, cancelled>>

\* Whoever's file it is; a file still open stays.  XAgent.Close leaves the
\* listener open.
Unlink ==
  /\ pc = "unlink"
  /\ sockfile' = IF sockfile = "empty" THEN "empty" ELSE "none"
  /\ pc' = IF kind = "xshell" THEN "returned" ELSE "close"
  /\ UNCHANGED <<setup, result, listening, hand, attempt, conn, peer, wg, cancelled>>

\* Connections nobody has accepted end with the listener.
CloseListener ==
  /\ listening' = FALSE
  /\ conn' = [c \in Clients |-> IF conn[c] = "queued" THEN "closed" ELSE conn[c]]

Close ==
  /\ pc = "close"
  /\ CloseListener
  /\ pc' = "returned"
  /\ UNCHANGED <<setup, result, sockfile, hand, attempt, peer, wg, cancelled>>

\* The goroutine of NamedPipe that waits for the context.
PipeCloser ==
  /\ kind = "pipe" /\ cancelled /\ listening
  /\ CloseListener
  /\ UNCHANGED <<setup, pc, result, sockfile, hand, attempt, peer, wg, cancelled>>

\* Mutant: wg.Done is called on both ways out.
HandlerDone_Twice(c) ==
  /\ pc # "panic" /\ conn[c] = "served" /\ Gone(c)
  /\ conn' = [conn EXCEPT ![c] = "closed"]
  /\ wg' = wg - 2
  /\ UNCHANGED <<setup, pc, result, listening, sockfile, hand, attempt, peer, cancelled>>

\* The handler returns, having closed the connection, and wg.Done.
HandlerDone(c) ==
  /\ pc # "panic" /\ conn[c] = "served" /\ Gone(c)
  /\ conn' = [conn EXCEPT ![c] = "closed"]
  /\ wg' = wg - 1
  /\ UNCHANGED <<setup, pc, result, listening, sockfile, hand, attempt, peer, cancelled>>

-----------------------------------------------------------------------------
(* The environment. *)

Connect(c) ==
  /\ listening /\ conn[c] = "idle"
  /\ conn' = [conn EXCEPT ![c] = "queued"]
  /\ UNCHANGED <<setup, pc, result, listening, sockfile, hand, attempt, peer, wg,
                 cancelled>>

\* The peer's side of the handshake.
PeerSends(c) ==
  /\ kind \in {"cygwin", "xshell"} /\ conn[c] \in {"queued", "accepted"}
  /\ \/ peer[c] = "quiet" /\ peer' = [peer EXCEPT ![c] = "wrong"]
     \/ peer[c] = "quiet" /\ peer' = [peer EXCEPT ![c] = "secret"]
     \/ kind = "xshell" /\ peer[c] = "quiet" /\ peer' = [peer EXCEPT ![c] = "wraps"]
     \/ kind = "cygwin" /\ peer[c] = "secret" /\ peer' = [peer EXCEPT ![c] = "pids"]
  /\ UNCHANGED <<setup, pc, result, listening, sockfile, hand, attempt, conn, wg, cancelled>>

\* A client hangs up, or sends what ServeAgent ends the connection for.
PeerLeaves(c) ==
  /\ conn[c] # "idle" /\ ~Gone(c)
  /\ peer' = [peer EXCEPT ![c] = IF @ = "pids" \/ (@ = "secret" /\ kind = "xshell")
                                 THEN "sentAndGone"
                                 ELSE IF @ = "wraps" THEN "wrapsAndGone" ELSE "gone"]
  /\ UNCHANGED <<setup, pc, result, listening, sockfile, hand, attempt, conn, wg,
                 cancelled>>

\* Another process of the program replaces the socket file by its own.
OtherInstance ==
  /\ kind \in Polling /\ sockfile # "theirs"
  /\ sockfile' = "theirs"
  /\ UNCHANGED <<setup, pc, result, listening, hand, attempt, conn, peer, wg, cancelled>>

Cancel ==
  /\ ~cancelled
  /\ cancelled' = TRUE
  /\ UNCHANGED <<setup, pc, result, listening, sockfile, hand, attempt, conn, peer, wg>>

-----------------------------------------------------------------------------
Listen == ListenPipe \/ ListenUnixSock \/ ListenTCP \/ CreateCygwinSocket \/ CreateWindows
Vet == SameUserTCPConn \/ ReadSecret \/ XShellPanic \/ ReadPids
Loop ==
  \/ CheckCancel \/ (\E c \in Clients : Accept(c)) \/ AcceptTimeout \/ AcceptClosed
  \/ Vet \/ Serve \/ Drain \/ Unlink \/ Close
Environment ==
  /\ pc # "panic"
  /\ \/ \E c \in Clients : Connect(c) \/ PeerSends(c) \/ PeerLeaves(c)
     \/ OtherInstance \/ Cancel

Next ==
  \/ Listen \/ Loop \/ AcceptError \/ PipeCloser
  \/ \E c \in Clients : HandlerDone(c)
  \/ Environment

Spec == Init /\ [][Next]_vars

\* Goroutines are scheduled and deadlines expire; peers need do nothing.
Fairness ==
  /\ WF_vars(Listen) /\ WF_vars(Loop) /\ WF_vars(PipeCloser)
  /\ \A c \in Clients : WF_vars(HandlerDone(c))

FairSpec == Spec /\ Fairness
-----------------------------------------------------------------------------
(* Properties. *)

Policy == IF kind \in {"pipe", "xshell"} THEN "drain"
          ELSE IF kind \in Polling THEN "onCancel" ELSE "never"

RunState == IF pc \in {"start", "tcp"} THEN "started"
            ELSE IF pc # "returned" THEN "running"
            ELSE IF kind = "vsock" THEN IF result = "nil" THEN "ended" ELSE "failed"
            ELSE IF result = "nil" THEN "drained" ELSE "failed"

Run == INSTANCE Application WITH
  policy <- Policy, state <- RunState, busy <- {c \in Clients : conn[c] \in {"accepted", "served"}}

\* Run keeps what Application promises main: it returns once, without error
\* only after a cancel, and then, NamedPipe and XShell also with an error,
\* every connection it accepted has been refused or served to its end; no path
\* through the vetting leaks one.
RunSpec == Run!Spec

\* As long as the socket file is ours a client that follows it finds a
\* listener: the file comes after the listener and goes before it, on the error
\* paths too, and with another process replacing the file in between.
AdvertisedIsListening == sockfile = "ours" => listening

SilentHandshake == pc \in {"secret", "pids"}
HandshakesEnd == [](SilentHandshake => <>~SilentHandshake)
ClientsLeave == \A c \in Clients : [](conn[c] = "served" => <>Gone(c))

\* NamedPipe, WSL and Cygwin return once the context is cancelled, if served
\* clients leave at some time; in Cygwin this also takes peers that do not stay
\* silent in the handshake, which holds up the loop.
ReturnsOnCancel ==
  kind \in {"pipe", "wsl", "cygwin"} /\ ClientsLeave /\ HandshakesEnd =>
    [](cancelled => <>(pc = "returned"))

\* As long as Run accepts at all, a client in the queue is taken, however long
\* those being served stay and whatever becomes of the owner lookup.  Two things
\* keep others out: a peer that stays silent in a handshake, and in XShell a
\* hello whose length wraps to 0, which ends the process; nothing else does.
QueuedIsTaken ==
  HandshakesEnd =>
    \A c \in Clients : [](conn[c] = "queued" =>
      <>(\/ conn[c] # "queued"
         \/ pc \in {"drain", "unlink", "close", "returned"}
         \/ pc = "panic" /\ kind = "xshell"))
=============================================================================
