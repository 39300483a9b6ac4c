---------------------------- MODULE XShellProofs ----------------------------
(***************************************************************************)
(* Proofs about XShell, for any width of the length field, any limits, any *)
(* cookie, and any number and lengths of requests and answers.             *)
(***************************************************************************)
EXTENDS XShell, SequenceTheorems, TLAPS

-----------------------------------------------------------------------------
(* The inductive invariant. *)

\* Frames are read in the order they were sent, each once.
QueueInv == taken + Len(in) = sent

\* Between requests every one taken has been answered, and nothing of it is
\* left in the buffer; while one is handled it is the only one without answer.
TurnInv ==
  status = "serving" =>
    /\ Len(out) + (IF phase = "header" /\ need = 4 THEN 0 ELSE 1) = taken
    /\ phase \in {"answer", "answerBody"} => buf = 0

\* Nothing moves before the handshake is over.
HelloInv ==
  status = "hello" =>
    phase = "header" /\ need = 4 /\ buf = 0 /\ wlength = 0 /\ wbuf = 0 /\ Len(out) = taken

IInv == TypeOK /\ QueueInv /\ FramesAligned /\ TurnInv /\ HelloInv

-----------------------------------------------------------------------------
(* The handshake. *)

\* Whatever the length field, the length that is used is a number below 2^32.
LEMMA HelloSizeType ==
  ASSUME NEW h \in Hellos PROVE HelloSize(h) \in 0..(Modulus - 1)
  BY XShellAssumption DEF Hellos, HelloSize

\* A handshake that succeeds was shown the cookie and has read the hello and
\* the cookie to the last byte, however they were split.
LEMMA HelloConsumes ==
  ASSUME NEW h \in Hellos, HelloOutcome(h) = "serving"
  PROVE h.right /\ 4 + HelloSize(h) + Remaining(h) = 4 + HelloLen + CookieLen
  <1>1. /\ HelloSize(h) \in 0..(Modulus - 1) /\ h.right
        /\ h.cookieLength = CookieLen /\ CookieLen \in Nat
    BY HelloSizeType, XShellAssumption DEF HelloOutcome
  <1> QED BY <1>1, XShellAssumption DEF Remaining, HelloLen

\* The initial states satisfy the invariant.
LEMMA InitIInv == Init => IInv
  <1> SUFFICES ASSUME Init PROVE IInv OBVIOUS
  <1>1. shown \in BOOLEAN BY Zenon DEF Init
  <1>2. TypeOK BY <1>1, XShellAssumption DEF Init, TypeOK
  <1>3. QueueInv /\ FramesAligned /\ TurnInv /\ HelloInv
    BY DEF Init, QueueInv, FramesAligned, TurnInv, HelloInv
  <1> QED BY <1>2, <1>3 DEF IInv

\* The handshake leads to a client that is served from its first frame on.
LEMMA HandshakeStep == ASSUME IInv, Handshake PROVE IInv'
  <1>1. UNCHANGED <<in, taken, buf, field, sent, phase, need, reply, wlength, wbuf, out>>
    BY DEF Handshake, reading, writing
  <1>2. /\ status' \in {"closed", "panic", "serving"} /\ shown' \in BOOLEAN
        /\ consumed' = consumed \/ consumed' = 4 + HelloLen + CookieLen
        /\ status' = "serving" => shown' /\ consumed' = 4 + HelloLen + CookieLen
    <2>1. CASE status' = "closed" /\ UNCHANGED <<shown, consumed>>
      BY <2>1, Zenon DEF IInv, TypeOK
    <2>2. ASSUME NEW h \in Hellos, status' = HelloOutcome(h), shown' = h.right,
                 consumed' = IF status' = "serving" THEN 4 + HelloSize(h) + Remaining(h) ELSE consumed
          PROVE /\ status' \in {"closed", "panic", "serving"} /\ shown' \in BOOLEAN
                /\ consumed' = consumed \/ consumed' = 4 + HelloLen + CookieLen
                /\ status' = "serving" => shown' /\ consumed' = 4 + HelloLen + CookieLen
      <3>1. h.right \in BOOLEAN BY Zenon DEF Hellos
      <3>2. shown' \in BOOLEAN BY <2>2, <3>1, Zenon
      <3>3. status' \in {"closed", "panic", "serving"} BY <2>2 DEF HelloOutcome
      <3> QED BY <2>2, <3>2, <3>3, HelloConsumes
    <2> QED BY <2>1, <2>2 DEF Handshake
  <1>3. consumed' \in Nat BY <1>2, XShellAssumption DEF IInv, TypeOK, HelloLen
  <1>4. TypeOK' BY <1>1, <1>2, <1>3 DEF IInv, TypeOK
  <1>5. status = "hello" BY DEF Handshake
  <1>6. QueueInv' /\ HelloInv' BY <1>1, <1>2 DEF IInv, QueueInv, HelloInv
  <1>7. FramesAligned' BY <1>1, <1>2, <1>5 DEF IInv, FramesAligned, HelloInv
  <1>8. TurnInv' BY <1>1, <1>5 DEF IInv, TypeOK, TurnInv, HelloInv
  <1> QED BY <1>4, <1>6, <1>7, <1>8 DEF IInv

-----------------------------------------------------------------------------
(* Reading. *)

\* Frames of the client have lengths.
LEMMA FrameTypes ==
  ASSUME NEW r \in Frames
  PROVE Padded(r) \in Nat /\ Announced(r) = Padded(r)
  <1>1. r.len \in RequestLens BY DEF Frames
  <1>2. r.len \in 0..(Modulus - 1) /\ Modulus \in Nat BY <1>1, XShellAssumption
  <1>3. r.len \in Nat BY <1>2
  <1>4. Padded(r) \in Nat BY <1>3 DEF Padded
  <1> QED BY <1>4 DEF Announced

\* A Read takes what there is, but no more than is asked for.
LEMMA CopiedBounds ==
  ASSUME NEW avail \in Nat, need \in Nat
  PROVE Copied(avail) \in Nat /\ Copied(avail) <= avail /\ Copied(avail) <= need
  BY DEF Copied

\* The buffer holds just the request that is being read.
LEMMA ReadBufferedStep == ASSUME IInv, ReadBuffered PROVE IInv'
  <1>1. phase = "body" /\ buf = need /\ need \in Nat
    BY DEF IInv, TypeOK, FramesAligned, ReadBuffered
  <1>2. /\ UNCHANGED <<status, consumed, shown, in, sent, taken, phase, reply, wlength, wbuf, out, field>>
        /\ buf' = 0 /\ need' = 0 /\ status = "serving"
    BY <1>1 DEF ReadBuffered, Copied, writing
  <1>3. TypeOK' BY <1>2 DEF IInv, TypeOK
  <1>4. QueueInv' /\ FramesAligned' /\ TurnInv' /\ HelloInv'
    BY <1>1, <1>2 DEF IInv, QueueInv, FramesAligned, TurnInv, HelloInv
  <1> QED BY <1>3, <1>4 DEF IInv

\* The connection is closed, and with it go all claims but those of types.
LEMMA HangupStep ==
  ASSUME IInv, Hangup, UNCHANGED <<consumed, shown, sent, reply>> PROVE IInv'
  <1>1. /\ UNCHANGED <<consumed, shown, sent, reply, in, taken, buf, field, phase, need, wlength, wbuf, out>>
        /\ status' = "closed"
    BY DEF Hangup, reading, writing
  <1>2. TypeOK' BY <1>1 DEF IInv, TypeOK
  <1> QED BY <1>1, <1>2 DEF IInv, QueueInv, FramesAligned, TurnInv, HelloInv

\* A frame is taken when the last one is used up, and its length field is read.
LEMMA ReadFrameStep == ASSUME IInv, ReadFrame PROVE IInv'
  <1>1. /\ status = "serving" /\ phase = "header" /\ need = 4 /\ buf = 0
    BY DEF IInv, TypeOK, FramesAligned, ReadFrame
  <1>2. in \in Seq(Frames) /\ in # <<>> /\ UNCHANGED <<consumed, shown, sent, reply>>
    BY DEF IInv, TypeOK, ReadFrame
  <1>3. Head(in) \in Frames /\ Tail(in) \in Seq(Frames) /\ Len(Tail(in)) = Len(in) - 1 /\ Len(in) \in Nat
    BY <1>2, HeadTailProperties, LenProperties
  <1>4. CASE Hangup BY <1>2, <1>4, HangupStep
  <1>5. CASE ~Hangup
    <2>1. /\ in' = Tail(in) /\ taken' = taken + 1
          /\ buf' = 4 + Padded(Head(in)) - Copied(4 + Padded(Head(in)))
          /\ need' = need - Copied(4 + Padded(Head(in)))
          /\ field' = Announced(Head(in))
          /\ UNCHANGED <<status, phase, wlength, wbuf, out>>
      BY <1>1, <1>5 DEF ReadFrame, writing
    <2>2. Padded(Head(in)) \in Nat /\ Announced(Head(in)) = Padded(Head(in)) BY <1>3, FrameTypes
    <2>3. Copied(4 + Padded(Head(in))) = 4 BY <1>1, <2>2 DEF Copied
    <2>4. buf' = Padded(Head(in)) /\ need' = 0 /\ field' = Padded(Head(in)) BY <1>1, <2>1, <2>2, <2>3
    <2>5. taken' + Len(in') = sent' BY <1>2, <1>3, <2>1 DEF IInv, QueueInv, TypeOK
    <2>6. taken' \in 0..MaxRequests
      <3>1. sent \in 0..MaxRequests /\ taken \in Nat /\ Len(in') \in Nat BY <1>3, <2>1, LenProperties DEF IInv, TypeOK
      <3> QED BY <1>2, <2>1, <2>5, <3>1, XShellAssumption
    <2>7. TypeOK' BY <1>2, <1>3, <2>1, <2>2, <2>4, <2>6 DEF IInv, TypeOK
    <2>8. QueueInv' /\ HelloInv' BY <1>1, <2>1, <2>5 DEF QueueInv, HelloInv
    <2>9. FramesAligned' BY <1>1, <1>2, <2>1, <2>4 DEF IInv, FramesAligned
    <2>10. TurnInv'
      <3>1. Len(out) = taken /\ taken \in Nat BY <1>1 DEF IInv, TurnInv, TypeOK
      <3> QED BY <1>1, <2>1, <2>4, <3>1 DEF TurnInv
    <2> QED BY <2>7, <2>8, <2>9, <2>10 DEF IInv
  <1> QED BY <1>4, <1>5

\* ServeAgent asks for what the length field said.
LEMMA HaveHeaderStep == ASSUME IInv, HaveHeader PROVE IInv'
  <1>1. status = "serving" /\ phase = "header" /\ need = 0 /\ UNCHANGED <<consumed, shown, sent, reply>>
    BY DEF HaveHeader
  <1>2. CASE Hangup BY <1>1, <1>2, HangupStep
  <1>3. CASE ~Hangup
    <2>1. /\ phase' = "body" /\ need' = field
          /\ UNCHANGED <<status, in, taken, buf, field, wlength, wbuf, out>>
      BY <1>3 DEF HaveHeader, reading, writing
    <2>2. TypeOK' BY <1>1, <2>1 DEF IInv, TypeOK
    <2> QED BY <1>1, <2>1, <2>2 DEF IInv, QueueInv, FramesAligned, TurnInv, HelloInv
  <1> QED BY <1>2, <1>3

\* The agent has an answer, and the request has been read to its end.
LEMMA ProcessStep == ASSUME IInv, Process PROVE IInv'
  <1>1. status = "serving" /\ phase = "body" /\ need = 0 /\ UNCHANGED <<consumed, shown, sent>>
    BY DEF Process
  <1>2. CASE Hangup /\ UNCHANGED reply BY <1>1, <1>2, HangupStep
  <1>3. CASE ~(Hangup /\ UNCHANGED reply)
    <2>1. /\ phase' = "answer" /\ reply' \in ReplyLens
          /\ UNCHANGED <<status, in, taken, buf, field, need, wlength, wbuf, out>>
      BY <1>3 DEF Process, reading, writing
    <2>2. TypeOK' BY <1>1, <2>1, XShellAssumption DEF IInv, TypeOK
    <2> QED BY <1>1, <2>1, <2>2 DEF IInv, QueueInv, FramesAligned, TurnInv, HelloInv
  <1> QED BY <1>2, <1>3

-----------------------------------------------------------------------------
(* Writing. *)

\* The length field of an answer is kept back.
LEMMA WriteHeaderStep == ASSUME IInv, WriteHeader PROVE IInv'
  <1>1. /\ status = "serving" /\ phase = "answer" /\ phase' = "answerBody" /\ wlength = 0 /\ wbuf = 0
        /\ UNCHANGED <<consumed, shown, in, taken, buf, field, sent, need, reply>>
    BY DEF WriteHeader, IInv, FramesAligned, reading
  <1>2. wlength' = reply + 4 /\ wbuf' = 4 /\ UNCHANGED <<status, out>>
    BY <1>1 DEF WriteHeader, Write
  <1>3. TypeOK' BY <1>1, <1>2 DEF IInv, TypeOK
  <1>4. FramesAligned' BY <1>1, <1>2 DEF IInv, TypeOK, FramesAligned
  <1> QED BY <1>1, <1>2, <1>3, <1>4 DEF IInv, QueueInv, TurnInv, HelloInv

\* The rest completes it, and it goes out as a whole or the connection ends.
LEMMA WriteBodyEffect ==
  ASSUME IInv, WriteBody
  PROVE /\ status = "serving" /\ phase = "answerBody" /\ phase' = "header" /\ need' = 4
        /\ UNCHANGED <<consumed, shown, in, taken, buf, field, sent, reply>>
        /\ \/ wlength' = 0 /\ wbuf' = 0 /\ out' = Append(out, 4 + reply) /\ UNCHANGED status
           \/ wlength' = 0 /\ wbuf' = 4 + reply /\ status' = "closed" /\ UNCHANGED out
  <1>1. /\ status = "serving" /\ phase = "answerBody" /\ phase' = "header" /\ need' = 4
        /\ UNCHANGED <<consumed, shown, in, taken, buf, field, sent, reply>>
    BY DEF WriteBody, reading
  <1>2. wlength = 4 + reply /\ wbuf = 4 /\ reply \in Nat
    BY <1>1 DEF IInv, TypeOK, FramesAligned
  <1>3. Write(reply) BY DEF WriteBody
  <1> QED BY <1>1, <1>2, <1>3 DEF Write, writing

\* After it the next request may come.
LEMMA WriteBodyStep == ASSUME IInv, WriteBody PROVE IInv'
  <1>1. out \in Seq(Nat) /\ reply \in Nat /\ taken \in Nat BY DEF IInv, TypeOK
  <1>2. CASE wlength' = 0 /\ wbuf' = 0 /\ out' = Append(out, 4 + reply) /\ UNCHANGED status
    <2>1. out' \in Seq(Nat) /\ Len(out') = Len(out) + 1 /\ Len(out) \in Nat
      BY <1>1, <1>2, AppendProperties, LenProperties
    <2>2. TypeOK' BY <1>2, <2>1, WriteBodyEffect DEF IInv, TypeOK
    <2>3. QueueInv' /\ HelloInv' BY <1>2, WriteBodyEffect DEF IInv, QueueInv, HelloInv
    <2>4. buf = 0 /\ Len(out) + 1 = taken BY <1>1, WriteBodyEffect DEF IInv, TurnInv
    <2>5. FramesAligned'
      <3>1. shown /\ consumed = 4 + HelloLen + CookieLen BY WriteBodyEffect DEF IInv, FramesAligned
      <3>2. phase' = "header" /\ need' = 4 /\ buf' = 0 /\ UNCHANGED <<shown, consumed>>
        BY <2>4, WriteBodyEffect
      <3>3. shown' BY <3>1, <3>2, Zenon
      <3> QED BY <1>2, <3>1, <3>2, <3>3 DEF FramesAligned
    <2>6. TurnInv' BY <1>1, <1>2, <2>1, <2>4, WriteBodyEffect DEF TurnInv
    <2> QED BY <2>2, <2>3, <2>5, <2>6 DEF IInv
  <1>3. CASE wlength' = 0 /\ wbuf' = 4 + reply /\ status' = "closed" /\ UNCHANGED out
    <2>1. TypeOK' BY <1>1, <1>3, WriteBodyEffect DEF IInv, TypeOK
    <2> QED BY <1>3, <2>1, WriteBodyEffect DEF IInv, QueueInv, FramesAligned, TurnInv, HelloInv
  <1> QED BY <1>2, <1>3, WriteBodyEffect

\* The client may send at any time.
LEMMA SendStep == ASSUME IInv, Send PROVE IInv'
  <1>1. PICK r \in Frames : in' = Append(in, r) BY DEF Send
  <1>2. /\ UNCHANGED <<status, consumed, shown, taken, buf, phase, need, field, reply, wlength, wbuf, out>>
        /\ sent' = sent + 1 /\ sent < MaxRequests /\ status = "serving"
    BY DEF Send, writing
  <1>3. in \in Seq(Frames) /\ sent \in 0..MaxRequests /\ taken \in 0..MaxRequests BY DEF IInv, TypeOK
  <1>4. in' \in Seq(Frames) /\ Len(in') = Len(in) + 1 /\ Len(in) \in Nat
    BY <1>1, <1>3, AppendProperties, LenProperties
  <1>5. sent' \in 0..MaxRequests BY <1>2, <1>3, XShellAssumption
  <1>6. TypeOK' BY <1>2, <1>4, <1>5 DEF IInv, TypeOK
  <1>7. QueueInv' BY <1>2, <1>3, <1>4 DEF IInv, QueueInv
  <1> QED BY <1>2, <1>6, <1>7 DEF IInv, FramesAligned, TurnInv, HelloInv

\* The invariant is inductive.
LEMMA IInvInvariant == Spec => []IInv
  <1>1. ASSUME IInv, [Next]_vars PROVE IInv'
    <2>1. CASE ReadEOF BY <1>1, <2>1, HangupStep DEF ReadEOF
    <2>2. CASE UNCHANGED vars BY <1>1, <2>2 DEF vars, IInv, TypeOK, QueueInv, FramesAligned, TurnInv, HelloInv
    <2> QED BY <1>1, <2>1, <2>2, HandshakeStep, ReadBufferedStep, ReadFrameStep, HaveHeaderStep, ProcessStep,
               WriteHeaderStep, WriteBodyStep, SendStep DEF Next, Serve
  <1> QED BY <1>1, InitIInv, PTL DEF Spec

-----------------------------------------------------------------------------
(* What the run checks. *)

\* Every reachable state of a connection is well typed.
THEOREM TypeCorrect == Spec => []TypeOK
  <1>1. IInv => TypeOK BY DEF IInv
  <1> QED BY <1>1, IInvInvariant, PTL

\* The proxy never loses its place in the stream of a client, whatever the
\* client announces: the handshake, with a wrapped length too, and every frame
\* are consumed to the byte.
THEOREM AlignmentSafe == Spec => []FramesAligned
  <1>1. IInv => FramesAligned BY DEF IInv
  <1> QED BY <1>1, IInvInvariant, PTL

\* XShell gets every answer in one piece, in the order of the requests.
THEOREM AnswersSafe == Spec => AnswersWhole
  <1> DEFINE Whole == out' # out => out' = Append(out, 4 + reply) /\ Len(out') = taken
  <1>1. IInv /\ [Next]_vars => [Whole]_vars
    <2> SUFFICES ASSUME IInv, Next, out' # out
                 PROVE out' = Append(out, 4 + reply) /\ Len(out') = taken
      OBVIOUS
    <2>1. WriteBody \/ WriteHeader
      BY DEF Next, Serve, Handshake, ReadEOF, Send, ReadBuffered, ReadFrame, HaveHeader, Process, Hangup, writing
    <2>2. ~WriteHeader
      <3> SUFFICES ASSUME WriteHeader PROVE FALSE OBVIOUS
      <3>1. wlength = 0 BY DEF WriteHeader, IInv, FramesAligned
      <3> QED BY <3>1 DEF WriteHeader, Write
    <2>3. WriteBody BY <2>1, <2>2
    <2>4. out' = Append(out, 4 + reply) BY <2>3, WriteBodyEffect
    <2>5. out \in Seq(Nat) /\ reply \in Nat /\ taken \in Nat BY DEF IInv, TypeOK
    <2>6. Len(out') = Len(out) + 1 /\ Len(out) \in Nat BY <2>4, <2>5, AppendProperties, LenProperties
    <2>7. Len(out) + 1 = taken BY <2>3, WriteBodyEffect DEF IInv, TurnInv
    <2> QED BY <2>4, <2>6, <2>7
  <1> QED BY <1>1, IInvInvariant, PTL DEF Spec, AnswersWhole
=============================================================================
