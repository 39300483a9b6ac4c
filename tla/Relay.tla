------------------------------- MODULE Relay -------------------------------
(***************************************************************************)
(* `keybridge relay` (relay.go): a process that dials a named pipe and     *)
(* then runs two copies at once, stdin -> pipe in a goroutine of its own   *)
(* and pipe -> stdout in the main goroutine, until one of six ways to end  *)
(* the process is taken.  The environment is the writer of stdin, the      *)
(* reader of stdout, and the server at the other end of the pipe.          *)
(*                                                                         *)
(* A chunk is what one Read of io.Copy returns; streams keep their order,  *)
(* so each is represented by how many chunks passed each point of it.      *)
(***************************************************************************)
EXTENDS Naturals

CONSTANTS
  MaxIn,      \* bound: chunks the upstream process writes to stdin
  MaxOut,     \* bound: chunks the server writes to the pipe
  PipeCap     \* chunks a pipe direction holds before a write blocks

ASSUME BoundsAssumption ==
  /\ MaxIn \in Nat
  /\ MaxOut \in Nat
  /\ PipeCap \in Nat \ {0}

VARIABLES
  opts,       \* command line flags -p -s -ep -ei, and msg: is the pipe message-mode
  exit,       \* "running", or how the process ended
  pcMain,     \* program counter of the main goroutine
  pcIn,       \* program counter of the stdin -> pipe goroutine
  cw,         \* what became of -s: "none", "sent", "failed" or "warned"
  stdoutOpen, \* os.Stdout not yet closed by the relay
  server,     \* what a dial of the pipe path meets
  peer,       \* the server's end of the connection
  stdin,      \* "open", "eof" or "err"
  inSent, inRd, inWr, peerRd,   \* chunks: written upstream, read, written to the pipe, read by the server
  outSent, outRd, outWr,        \* chunks: written by the server, read from the pipe, written to stdout
  sink        \* the reader of stdout: "open" or "gone"

process == <<opts, exit, pcMain, pcIn, cw, stdoutOpen>>
inStream == <<stdin, inSent, inRd, inWr, peerRd>>
outStream == <<outSent, outRd, outWr, sink>>
vars == <<opts, exit, pcMain, pcIn, cw, stdoutOpen, server, peer,
          stdin, inSent, inRd, inWr, peerRd, outSent, outRd, outWr, sink>>

Options == [p : BOOLEAN, s : BOOLEAN, ep : BOOLEAN, ei : BOOLEAN, msg : BOOLEAN]
Exits == {"running", "usage", "dialFailed", "copyFailed", "stdinEOF",
          "pipeEOF", "returned", "drainTimeout"}
Running == exit = "running"
Connected == peer # "none"

TypeOK ==
  /\ opts \in Options
  /\ exit \in Exits
  /\ pcMain \in {"parse", "dial", "sleep", "outRead", "outWrite", "outDone", "select"}
  /\ pcIn \in {"none", "inRead", "inWrite", "closeWrite", "eiCheck", "done"}
  /\ cw \in {"none", "sent", "failed", "warned"}
  /\ stdoutOpen \in BOOLEAN
  /\ server \in {"absent", "busy", "ready", "denied"}
  /\ peer \in {"none", "open", "ended", "closed", "reset"}
  /\ stdin \in {"open", "eof", "err"}
  /\ inSent \in 0..MaxIn /\ inRd \in Nat /\ inWr \in Nat /\ peerRd \in Nat
  /\ outSent \in 0..MaxOut /\ outRd \in Nat /\ outWr \in Nat
  /\ sink \in {"open", "gone"}

Init ==
  /\ opts \in Options
  /\ exit = "running"
  /\ pcMain = "parse"
  /\ pcIn = "none"
  /\ cw = "none"
  /\ stdoutOpen = TRUE
  /\ server \in {"absent", "busy", "ready", "denied"}
  /\ peer = "none"
  /\ stdin = "open"
  /\ inSent = 0 /\ inRd = 0 /\ inWr = 0 /\ peerRd = 0
  /\ outSent = 0 /\ outRd = 0 /\ outWr = 0
  /\ sink = "open"

-----------------------------------------------------------------------------
(* The process. *)

\* os.Exit, log.Fatalln and the return of main all end both goroutines at once.
Exit(how) == exit' = how

\* Mutant: the usage error does not end the process.
ParseArgs_NoExit ==
  /\ Running /\ pcMain = "parse"
  /\ pcMain' \in {"dial", "usage"}
  /\ UNCHANGED <<opts, exit, pcIn, cw, stdoutOpen, server, peer, inStream, outStream>>

\* fs.Parse and the check for exactly one path argument.
ParseArgs ==
  /\ Running /\ pcMain = "parse"
  /\ \/ pcMain' = "dial" /\ UNCHANGED exit
     \/ Exit("usage") /\ UNCHANGED pcMain
  /\ UNCHANGED <<opts, pcIn, cw, stdoutOpen, server, peer, inStream, outStream>>

\* The error one winio.DialPipe returns: the path does not exist, every
\* instance stayed busy for dialTimeoutPerAttempt, or anything else.
DialError ==
  CASE server = "absent" -> "notExist"
    [] server = "busy"   -> "timeout"
    [] server = "denied" -> "other"

\* Mutant: a busy pipe is not retried.
Retryable_NotExistOnly(err) == err = "notExist"

Retryable(err) == err \in {"notExist", "timeout"}

DialOK ==
  /\ Running /\ pcMain = "dial"
  /\ server = "ready"
  /\ peer' = "open"
  /\ pcMain' = "outRead"
  /\ pcIn' = "inRead"
  /\ UNCHANGED <<opts, exit, cw, stdoutOpen, server, inStream, outStream>>

DialFail ==
  /\ Running /\ pcMain = "dial"
  /\ server # "ready"
  /\ \/ /\ opts.p /\ Retryable(DialError)
        /\ pcMain' = "sleep"
        /\ UNCHANGED exit
     \/ /\ ~(opts.p /\ Retryable(DialError))
        /\ Exit("dialFailed")
        /\ UNCHANGED pcMain
  /\ UNCHANGED <<opts, pcIn, cw, stdoutOpen, server, peer, inStream, outStream>>

SleepPollInterval ==
  /\ Running /\ pcMain = "sleep"
  /\ pcMain' = "dial"
  /\ UNCHANGED <<opts, exit, pcIn, cw, stdoutOpen, server, peer, inStream, outStream>>

(* The stdin -> pipe goroutine. *)

InRead ==
  /\ Running /\ pcIn = "inRead"
  /\ inRd < inSent
  /\ inRd' = inRd + 1
  /\ pcIn' = "inWrite"
  /\ UNCHANGED <<opts, exit, pcMain, cw, stdoutOpen, server, peer,
                 stdin, inSent, inWr, peerRd, outStream>>

\* Mutant: -ei is looked at before -s.
InEOF_EiFirst ==
  /\ Running /\ pcIn = "inRead"
  /\ inRd = inSent /\ stdin = "eof"
  /\ pcIn' = IF opts.ei THEN "eiCheck" ELSE "closeWrite"
  /\ UNCHANGED <<opts, exit, pcMain, cw, stdoutOpen, server, peer, inStream, outStream>>

\* Mutant: the copy stops at the close of stdin with chunks still to read.
InEOF_Early ==
  /\ Running /\ pcIn = "inRead"
  /\ stdin = "eof"
  /\ pcIn' = "closeWrite"
  /\ UNCHANGED <<opts, exit, pcMain, cw, stdoutOpen, server, peer, inStream, outStream>>

InEOF ==
  /\ Running /\ pcIn = "inRead"
  /\ inRd = inSent /\ stdin = "eof"
  /\ pcIn' = "closeWrite"
  /\ UNCHANGED <<opts, exit, pcMain, cw, stdoutOpen, server, peer, inStream, outStream>>

\* The pipe takes the chunk when it has room; a write to a pipe whose server
\* end is gone fails.
InWrite ==
  /\ Running /\ pcIn = "inWrite"
  /\ peer \in {"open", "ended"} /\ inWr - peerRd < PipeCap
  /\ inWr' = inWr + 1
  /\ pcIn' = "inRead"
  /\ UNCHANGED <<opts, exit, pcMain, cw, stdoutOpen, server, peer,
                 stdin, inSent, inRd, peerRd, outStream>>

\* copyOrFatal of the stdin side: a read or a write error ends the process.
InFatal ==
  /\ Running
  /\ \/ pcIn = "inRead" /\ inRd = inSent /\ stdin = "err"
     \/ pcIn = "inWrite" /\ peer \in {"closed", "reset"}
  /\ Exit("copyFailed")
  /\ UNCHANGED <<opts, pcMain, pcIn, cw, stdoutOpen, server, peer, inStream, outStream>>

\* -s: CloseWrite waits until the server has read everything and then sends
\* the zero-length message.  It exists on message-mode connections only; a
\* failure is logged and nothing else.
CloseWrite ==
  /\ Running /\ pcIn = "closeWrite"
  /\ \/ ~opts.s /\ UNCHANGED cw
     \/ opts.s /\ ~opts.msg /\ cw' = "warned"
     \/ /\ opts.s /\ opts.msg
        /\ peer \in {"open", "ended"} /\ peerRd = inWr
        /\ cw' = "sent"
     \/ /\ opts.s /\ opts.msg
        /\ peer \in {"closed", "reset"}
        /\ cw' = "failed"
  /\ pcIn' = "eiCheck"
  /\ UNCHANGED <<opts, exit, pcMain, stdoutOpen, server, peer, inStream, outStream>>

\* -ei, and otherwise close(stdinDone).
EiCheck ==
  /\ Running /\ pcIn = "eiCheck"
  /\ \/ opts.ei /\ Exit("stdinEOF") /\ UNCHANGED pcIn
     \/ ~opts.ei /\ pcIn' = "done" /\ UNCHANGED exit
  /\ UNCHANGED <<opts, pcMain, cw, stdoutOpen, server, peer, inStream, outStream>>

(* The pipe -> stdout copy of the main goroutine. *)

OutRead ==
  /\ Running /\ pcMain = "outRead"
  /\ outRd < outSent /\ peer # "reset"
  /\ outRd' = outRd + 1
  /\ pcMain' = "outWrite"
  /\ UNCHANGED <<opts, exit, pcIn, cw, stdoutOpen, server, peer,
                 inStream, outSent, outWr, sink>>

\* Mutant: the copy stops at the end of the pipe with chunks still to read.
OutEOF_Early ==
  /\ Running /\ pcMain = "outRead"
  /\ peer \in {"ended", "closed"}
  /\ pcMain' = "outDone"
  /\ UNCHANGED <<opts, exit, pcIn, cw, stdoutOpen, server, peer, inStream, outStream>>

\* A zero-length message and a closed pipe both read as io.EOF.
OutEOF ==
  /\ Running /\ pcMain = "outRead"
  /\ outRd = outSent /\ peer \in {"ended", "closed"}
  /\ pcMain' = "outDone"
  /\ UNCHANGED <<opts, exit, pcIn, cw, stdoutOpen, server, peer, inStream, outStream>>

OutWrite ==
  /\ Running /\ pcMain = "outWrite"
  /\ sink = "open"
  /\ outWr' = outWr + 1
  /\ pcMain' = "outRead"
  /\ UNCHANGED <<opts, exit, pcIn, cw, stdoutOpen, server, peer,
                 inStream, outSent, outRd, sink>>

OutFatal ==
  /\ Running
  /\ \/ pcMain = "outRead" /\ peer = "reset"
     \/ pcMain = "outWrite" /\ sink = "gone"
  /\ Exit("copyFailed")
  /\ UNCHANGED <<opts, pcMain, pcIn, cw, stdoutOpen, server, peer, inStream, outStream>>

\* -ep, and otherwise the close of stdout before the wait for the stdin side.
EpCheck ==
  /\ Running /\ pcMain = "outDone"
  /\ \/ opts.ep /\ Exit("pipeEOF") /\ UNCHANGED <<pcMain, stdoutOpen>>
     \/ ~opts.ep /\ pcMain' = "select" /\ stdoutOpen' = FALSE /\ UNCHANGED exit
  /\ UNCHANGED <<opts, pcIn, cw, server, peer, inStream, outStream>>

\* Mutant: the process returns without waiting for stdinDone.
SelectStdinDone_NoWait ==
  /\ Running /\ pcMain = "select"
  /\ Exit("returned")
  /\ UNCHANGED <<opts, pcMain, pcIn, cw, stdoutOpen, server, peer, inStream, outStream>>

SelectStdinDone ==
  /\ Running /\ pcMain = "select"
  /\ pcIn = "done"
  /\ Exit("returned")
  /\ UNCHANGED <<opts, pcMain, pcIn, cw, stdoutOpen, server, peer, inStream, outStream>>

\* Mutant: no drain timeout.
SelectTimeout_Never == FALSE

\* time.After(stdinDrainTimeout): real time is not modelled, the timer may
\* fire at any moment of the wait.
SelectTimeout ==
  /\ Running /\ pcMain = "select"
  /\ Exit("drainTimeout")
  /\ UNCHANGED <<opts, pcMain, pcIn, cw, stdoutOpen, server, peer, inStream, outStream>>

-----------------------------------------------------------------------------
(* The environment. *)

ServerChange ==
  /\ Running /\ ~Connected
  /\ server' \in {"absent", "busy", "ready", "denied"} \ {server}
  /\ UNCHANGED <<process, peer, inStream, outStream>>

UpstreamWrite ==
  /\ Running /\ stdin = "open" /\ inSent < MaxIn
  /\ inSent' = inSent + 1
  /\ UNCHANGED <<process, server, peer, stdin, inRd, inWr, peerRd, outStream>>

UpstreamEnd ==
  /\ Running /\ stdin = "open"
  /\ stdin' \in {"eof", "err"}
  /\ UNCHANGED <<process, server, peer, inSent, inRd, inWr, peerRd, outStream>>

PeerRead ==
  /\ Running /\ peer \in {"open", "ended"} /\ peerRd < inWr
  /\ peerRd' = peerRd + 1
  /\ UNCHANGED <<process, server, peer, stdin, inSent, inRd, inWr, outStream>>

PeerWrite ==
  /\ Running /\ peer = "open"
  /\ outSent < MaxOut /\ outSent - outRd < PipeCap
  /\ outSent' = outSent + 1
  /\ UNCHANGED <<process, server, peer, inStream, outRd, outWr, sink>>

\* The server sends a zero-length message (message mode), or its end goes away.
PeerEnd ==
  /\ Running
  /\ \/ peer = "open" /\ opts.msg /\ peer' = "ended"
     \/ peer \in {"open", "ended"} /\ peer' \in {"closed", "reset"}
  /\ UNCHANGED <<process, server, inStream, outStream>>

SinkGone ==
  /\ Running /\ sink = "open"
  /\ sink' = "gone"
  /\ UNCHANGED <<process, server, peer, inStream, outSent, outRd, outWr>>

Terminated == ~Running /\ UNCHANGED vars

-----------------------------------------------------------------------------
Dial == ParseArgs \/ DialOK \/ DialFail \/ SleepPollInterval
StdinSide == InRead \/ InEOF \/ InWrite \/ InFatal \/ CloseWrite \/ EiCheck
PipeSide == OutRead \/ OutEOF \/ OutWrite \/ OutFatal \/ EpCheck
            \/ SelectStdinDone \/ SelectTimeout
Environment == ServerChange \/ UpstreamWrite \/ UpstreamEnd \/ PeerRead
               \/ PeerWrite \/ PeerEnd \/ SinkGone

Next == Dial \/ StdinSide \/ PipeSide \/ Environment \/ Terminated

Spec == Init /\ [][Next]_vars

(***************************************************************************)
(* Fairness: the Go scheduler runs both goroutines, timers fire, and the   *)
(* server keeps reading its pipe while it is open.  Nothing is assumed of  *)
(* the writer of stdin, of the reader of stdout, or of the server ever     *)
(* writing or closing.                                                     *)
(***************************************************************************)
Fairness ==
  /\ WF_vars(Dial)
  /\ WF_vars(StdinSide)
  /\ WF_vars(OutEOF \/ OutFatal \/ EpCheck)
  /\ WF_vars(SelectStdinDone \/ SelectTimeout)
  /\ WF_vars(PeerRead)

FairSpec == Spec /\ Fairness
-----------------------------------------------------------------------------
(* Properties. *)

\* An exit loses nothing of the direction it waited for: when runRelay returns
\* because the stdin side is done, both streams were delivered in full; -ei
\* has delivered all of stdin and -ep all of the pipe; and stdout is closed
\* only behind the last chunk.  What -ei, -ep and the drain timeout may lose
\* (relay.go's "known limitation") is the other direction only.
ExitsLoseOnlyTheOtherSide ==
  /\ exit = "returned" => inWr = inSent /\ outWr = outSent
  /\ exit = "stdinEOF" => inWr = inSent
  /\ exit = "pipeEOF" => outWr = outSent
  /\ ~stdoutOpen => outWr = outSent

\* -s: the end-of-data signal goes out behind all of stdin, and no exit of the
\* stdin side skips it, -ei included: it was sent, or refused by a server that
\* is gone, or reported as unsupported on a byte-mode pipe.
EndSignalNotSkipped ==
  /\ cw = "sent" => stdin = "eof" /\ inWr = inSent /\ peerRd = inWr
  /\ (exit = "stdinEOF" \/ pcIn = "done") /\ opts.s =>
        \/ cw = "sent" /\ opts.msg
        \/ cw = "failed" /\ peer \in {"closed", "reset"}
        \/ cw = "warned" /\ ~opts.msg

\* log.Fatalln is reached only for a reason: the copies fail when one of their
\* ends did, and -p gives up only on an error that retrying cannot cure.
FatalHasCause ==
  /\ exit = "copyFailed" =>
        stdin = "err" \/ peer \in {"closed", "reset"} \/ sink = "gone"
  /\ exit = "dialFailed" /\ opts.p => server = "denied"

\* Each direction implements Pump: no chunk is invented, repeated or skipped,
\* and a direction counts as finished only when its source is closed and all
\* of it has been written out, in every interleaving with the other.
InPump == INSTANCE Pump WITH
  sent <- inSent, closed <- stdin # "open", got <- inWr,
  state <- IF pcIn \in {"closeWrite", "eiCheck", "done"} THEN "complete"
           ELSE IF Running THEN "flow" ELSE "cut"

OutPump == INSTANCE Pump WITH
  sent <- outSent, closed <- peer \notin {"none", "open"}, got <- outWr,
  state <- IF pcMain \in {"outDone", "select"} THEN "complete"
           ELSE IF Running THEN "flow" ELSE "cut"

\* The stdin -> pipe copy implements Pump.
InPumpSpec == InPump!Spec

\* The pipe -> stdout copy implements Pump.
OutPumpSpec == OutPump!Spec

\* -p: if the pipe is never refused outright and comes to stay available to a
\* process that is still waiting for it, dialPipeWithPoll connects, whether
\* earlier attempts met no pipe or a busy one; giving up does not count.
PollConnects ==
  ([](server # "denied") /\ <>[](server = "ready" \/ ~Running)) =>
      [](opts.p /\ pcMain = "dial" => <>Connected)

\* Either end brings the process to its end.  Once the pipe side has ended it
\* exits even if stdin stays open and idle or its last write is stuck: -ep or
\* the drain timeout see to it.  With -ei the end of stdin does, whatever the
\* pipe side is waiting for, as long as the server reads what it is sent.
PipeEndExits == pcMain = "outDone" ~> ~Running
StdinEndExits == (opts.ei /\ Connected /\ stdin = "eof") ~> ~Running
EitherEndExits == PipeEndExits /\ StdinEndExits
=============================================================================
