---------------------------- MODULE RelayProofs ----------------------------
(***************************************************************************)
(* Proofs about Relay, for any number of chunks in either direction and    *)
(* any pipe capacity.                                                      *)
(***************************************************************************)
EXTENDS Relay, TLAPS

-----------------------------------------------------------------------------
(* The inductive invariant. *)

InDone == pcIn \in {"closeWrite", "eiCheck", "done"}
OutDone == pcMain \in {"outDone", "select"}

\* The stdin goroutine exists exactly from the successful dial on.
ConnInv ==
  /\ pcIn = "none" <=> peer = "none"
  /\ pcIn = "none" <=> pcMain \in {"parse", "dial", "sleep"}

\* Where the chunks of stdin are: at most one is between read and write, and
\* a finished copy left none behind.
InInv ==
  /\ peerRd =< inWr
  /\ inRd =< inSent
  /\ inRd = IF pcIn = "inWrite" THEN inWr + 1 ELSE inWr
  /\ InDone => stdin = "eof" /\ inRd = inSent

\* The same for the chunks of the pipe; stdout is closed on entry to the select.
OutInv ==
  /\ outRd =< outSent
  /\ outRd = IF pcMain = "outWrite" THEN outWr + 1 ELSE outWr
  /\ OutDone => peer \in {"ended", "closed", "reset"} /\ outRd = outSent
  /\ ~stdoutOpen => pcMain = "select"

\* What -s did, from the moment its step is behind.
CloseWriteInv ==
  /\ cw # "none" => pcIn \in {"eiCheck", "done"}
  /\ cw = "sent" => peerRd = inWr
  /\ pcIn \in {"eiCheck", "done"} /\ opts.s =>
        \/ cw = "sent" /\ opts.msg
        \/ cw = "failed" /\ peer \in {"closed", "reset"}
        \/ cw = "warned" /\ ~opts.msg

\* Where each kind of exit left the two goroutines.
ExitInv ==
  /\ exit = "returned" => pcMain = "select" /\ pcIn = "done"
  /\ exit = "stdinEOF" => pcIn = "eiCheck"
  /\ exit = "pipeEOF" => pcMain = "outDone"

IInv == TypeOK /\ ConnInv /\ InInv /\ OutInv /\ CloseWriteInv /\ ExitInv
        /\ FatalHasCause

-----------------------------------------------------------------------------
\* The initial states satisfy IInv.
LEMMA InitIInv == Init => IInv
  BY BoundsAssumption DEF Init, IInv, TypeOK, ConnInv, InInv, OutInv, CloseWriteInv, ExitInv, FatalHasCause,
     InDone, OutDone, Options, Exits

\* Parsing the arguments and dialling preserve IInv.
LEMMA DialStep == ASSUME IInv, Dial PROVE IInv'
  <1> USE BoundsAssumption DEF IInv, TypeOK, ConnInv, InInv, OutInv, CloseWriteInv, ExitInv, FatalHasCause,
       InDone, OutDone, Options, Exits, Exit, Running, inStream, outStream
  <1>1. CASE ParseArgs BY <1>1 DEF ParseArgs
  <1>2. CASE DialOK BY <1>2 DEF DialOK
  <1>3. CASE DialFail BY <1>3 DEF DialFail, DialError, Retryable
  <1>4. CASE SleepPollInterval BY <1>4 DEF SleepPollInterval
  <1> QED BY <1>1, <1>2, <1>3, <1>4 DEF Dial

\* The steps of the stdin -> pipe goroutine preserve IInv.
LEMMA StdinSideStep == ASSUME IInv, StdinSide PROVE IInv'
  <1> USE BoundsAssumption DEF IInv, TypeOK, ConnInv, InInv, OutInv, CloseWriteInv, ExitInv, FatalHasCause,
       InDone, OutDone, Options, Exits, Exit, Running, inStream, outStream
  <1>1. CASE InRead BY <1>1 DEF InRead
  <1>2. CASE InEOF BY <1>2 DEF InEOF
  <1>3. CASE InWrite BY <1>3 DEF InWrite
  <1>4. CASE InFatal BY <1>4 DEF InFatal
  <1>5. CASE CloseWrite BY <1>5 DEF CloseWrite
  <1>6. CASE EiCheck BY <1>6 DEF EiCheck
  <1> QED BY <1>1, <1>2, <1>3, <1>4, <1>5, <1>6 DEF StdinSide

\* The steps of the main goroutine after the dial preserve IInv.
LEMMA PipeSideStep == ASSUME IInv, PipeSide PROVE IInv'
  <1> USE BoundsAssumption DEF IInv, TypeOK, ConnInv, InInv, OutInv, CloseWriteInv, ExitInv, FatalHasCause,
       InDone, OutDone, Options, Exits, Exit, Running, inStream, outStream
  <1>1. CASE OutRead BY <1>1 DEF OutRead
  <1>2. CASE OutEOF BY <1>2 DEF OutEOF
  <1>3. CASE OutWrite BY <1>3 DEF OutWrite
  <1>4. CASE OutFatal BY <1>4 DEF OutFatal
  <1>5. CASE EpCheck
    <2>1. CASE opts.ep BY <1>5, <2>1 DEF EpCheck
    <2>2. CASE ~opts.ep
      <3>0. stdoutOpen' \in BOOLEAN BY <1>5, <2>2, Zenon DEF EpCheck
      <3>1. TypeOK' BY <1>5, <2>2, <3>0 DEF EpCheck
      <3>2. ConnInv' /\ InInv' /\ CloseWriteInv' /\ ExitInv' /\ FatalHasCause' BY <1>5, <2>2 DEF EpCheck
      <3>3. OutInv' BY <1>5, <2>2 DEF EpCheck
      <3> QED BY <3>1, <3>2, <3>3
    <2> QED BY <2>1, <2>2
  <1>6. CASE SelectStdinDone BY <1>6 DEF SelectStdinDone
  <1>7. CASE SelectTimeout BY <1>7 DEF SelectTimeout
  <1> QED BY <1>1, <1>2, <1>3, <1>4, <1>5, <1>6, <1>7 DEF PipeSide

\* The steps of stdin's writer, stdout's reader and the server preserve IInv.
LEMMA EnvironmentStep == ASSUME IInv, Environment PROVE IInv'
  <1> USE BoundsAssumption DEF IInv, TypeOK, ConnInv, InInv, OutInv, CloseWriteInv, ExitInv, FatalHasCause,
       InDone, OutDone, Options, Exits, Running, Connected, process, inStream, outStream
  <1>1. CASE ServerChange BY <1>1 DEF ServerChange
  <1>2. CASE UpstreamWrite BY <1>2 DEF UpstreamWrite
  <1>3. CASE UpstreamEnd BY <1>3 DEF UpstreamEnd
  <1>4. CASE PeerRead BY <1>4 DEF PeerRead
  <1>5. CASE PeerWrite BY <1>5 DEF PeerWrite
  <1>6. CASE PeerEnd BY <1>6 DEF PeerEnd
  <1>7. CASE SinkGone BY <1>7 DEF SinkGone
  <1> QED BY <1>1, <1>2, <1>3, <1>4, <1>5, <1>6, <1>7 DEF Environment

\* A step that changes nothing preserves IInv.
LEMMA IInvStutter == ASSUME IInv, UNCHANGED vars PROVE IInv'
  BY DEF vars, IInv, TypeOK, ConnInv, InInv, OutInv, CloseWriteInv, ExitInv,
     FatalHasCause, InDone, OutDone

\* IInv holds in every reachable state of the relay.
LEMMA IInvInvariant == Spec => []IInv
  <1>1. IInv /\ [Next]_vars => IInv'
    BY DialStep, StdinSideStep, PipeSideStep, EnvironmentStep, IInvStutter
       DEF Next, Terminated
  <1> QED BY <1>1, InitIInv, PTL DEF Spec
-----------------------------------------------------------------------------
(* The safety properties. *)

\* Every reachable state of the relay is well typed; relay.go's counters of
\* chunks in flight never go below zero.
THEOREM TypeCorrect == Spec => []TypeOK
  <1>1. IInv => TypeOK BY DEF IInv
  <1> QED BY <1>1, IInvInvariant, PTL

\* No exit of runRelay loses data of the direction it waited for, and stdout
\* is closed only behind the last chunk read from the pipe.
THEOREM ExitsSafe == Spec => []ExitsLoseOnlyTheOtherSide
  <1>1. IInv => ExitsLoseOnlyTheOtherSide
    BY DEF IInv, InInv, OutInv, ExitInv, InDone, OutDone, ExitsLoseOnlyTheOtherSide
  <1> QED BY <1>1, IInvInvariant, PTL

\* -s is never skipped by an exit of the stdin side, and never overtakes data.
THEOREM EndSignalSafe == Spec => []EndSignalNotSkipped
  <1>1. IInv => EndSignalNotSkipped
    BY DEF IInv, InInv, CloseWriteInv, ExitInv, InDone, EndSignalNotSkipped
  <1> QED BY <1>1, IInvInvariant, PTL
-----------------------------------------------------------------------------
(* log.Fatalln and the refinements of Pump. *)

\* copyOrFatal ends the process only when an end of a copy failed, and -p gives
\* up only on an error that is neither "no such pipe" nor a busy timeout.
THEOREM FatalSafe == Spec => []FatalHasCause
  <1>1. IInv => FatalHasCause BY DEF IInv
  <1> QED BY <1>1, IInvInvariant, PTL

\* The initial states of the relay map to those of the stdin direction's Pump.
LEMMA InPumpInit == Init => InPump!Init
  BY DEF Init, InPump!Init, Running

\* Every step of the relay is a step or a stutter of the stdin direction's Pump.
LEMMA InPumpStep == ASSUME IInv, [Next]_vars PROVE [InPump!Next]_(InPump!vars)
  <1> USE DEF Running, inStream, outStream, process, Exit, InPump!vars
  <1> USE IInv DEF IInv, TypeOK, ConnInv, InInv, InDone
  <1> USE DEF InPump!Next, InPump!Send, InPump!Close, InPump!Deliver, InPump!Complete, InPump!Cut
  <1>1. CASE Dial
    BY <1>1 DEF Dial, ParseArgs, DialOK, DialFail, SleepPollInterval
  <1>2. CASE StdinSide
    <2>1. CASE InRead BY <2>1 DEF InRead
    <2>2. CASE InEOF BY <2>2 DEF InEOF
    <2>3. CASE InWrite BY <2>3 DEF InWrite
    <2>4. CASE InFatal BY <2>4 DEF InFatal
    <2>5. CASE CloseWrite BY <2>5 DEF CloseWrite
    <2>6. CASE EiCheck BY <2>6 DEF EiCheck
    <2> QED BY <1>2, <2>1, <2>2, <2>3, <2>4, <2>5, <2>6 DEF StdinSide
  <1>3. CASE PipeSide
    BY <1>3 DEF PipeSide, OutRead, OutEOF, OutWrite, OutFatal, EpCheck, SelectStdinDone, SelectTimeout
  <1>4. CASE Environment
    BY <1>4 DEF Environment, ServerChange, UpstreamWrite, UpstreamEnd, PeerRead, PeerWrite, PeerEnd, SinkGone
  <1>5. CASE UNCHANGED vars BY <1>5 DEF vars
  <1> QED BY <1>1, <1>2, <1>3, <1>4, <1>5 DEF Next, Terminated

\* copyOrFatal(conn, os.Stdin) delivers stdin in order, once each, and reports
\* the end only behind the last chunk.
THEOREM InRefines == Spec => InPumpSpec
  <1>1. IInv /\ [Next]_vars => [InPump!Next]_(InPump!vars) BY InPumpStep
  <1> QED BY <1>1, InPumpInit, IInvInvariant, PTL DEF Spec, InPumpSpec, InPump!Spec

\* The initial states of the relay map to those of the pipe direction's Pump.
LEMMA OutPumpInit == Init => OutPump!Init
  BY DEF Init, OutPump!Init, Running

\* Every step of the relay is a step or a stutter of the pipe direction's Pump.
LEMMA OutPumpStep == ASSUME IInv, [Next]_vars PROVE [OutPump!Next]_(OutPump!vars)
  <1> USE DEF Running, Connected, inStream, outStream, process, Exit, OutPump!vars
  <1> USE IInv DEF IInv, TypeOK, ConnInv, OutInv, OutDone
  <1> USE DEF OutPump!Next, OutPump!Send, OutPump!Close, OutPump!Deliver, OutPump!Complete, OutPump!Cut
  <1>1. CASE Dial
    BY <1>1 DEF Dial, ParseArgs, DialOK, DialFail, SleepPollInterval
  <1>2. CASE StdinSide
    BY <1>2 DEF StdinSide, InRead, InEOF, InWrite, InFatal, CloseWrite, EiCheck
  <1>3. CASE PipeSide
    <2>1. CASE OutRead BY <2>1 DEF OutRead
    <2>2. CASE OutEOF BY <2>2 DEF OutEOF
    <2>3. CASE OutWrite BY <2>3 DEF OutWrite
    <2>4. CASE OutFatal BY <2>4 DEF OutFatal
    <2>5. CASE EpCheck BY <2>5 DEF EpCheck
    <2>6. CASE SelectStdinDone \/ SelectTimeout BY <2>6 DEF SelectStdinDone, SelectTimeout
    <2> QED BY <1>3, <2>1, <2>2, <2>3, <2>4, <2>5, <2>6 DEF PipeSide
  <1>4. CASE Environment
    BY <1>4 DEF Environment, ServerChange, UpstreamWrite, UpstreamEnd, PeerRead, PeerWrite, PeerEnd, SinkGone
  <1>5. CASE UNCHANGED vars BY <1>5 DEF vars
  <1> QED BY <1>1, <1>2, <1>3, <1>4, <1>5 DEF Next, Terminated

\* copyOrFatal(os.Stdout, conn) does the same for the pipe.
THEOREM OutRefines == Spec => OutPumpSpec
  <1>1. IInv /\ [Next]_vars => [OutPump!Next]_(OutPump!vars) BY OutPumpStep
  <1> QED BY <1>1, OutPumpInit, IInvInvariant, PTL DEF Spec, OutPumpSpec, OutPump!Spec
============================================================================
