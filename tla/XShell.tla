------------------------------- MODULE XShell -------------------------------
(***************************************************************************)
(* One connection of the XShell transport (app/xshell.go): the handshake,  *)
(* and xshellProxy, which stands between the client and agent.ServeAgent   *)
(* of x/crypto (external).  Towards ServeAgent it turns every frame of the *)
(* client into a frame with signature flags; towards the client it turns   *)
(* the two writes of an answer into one, because XShell takes every TCP    *)
(* segment for a message.                                                  *)
(*                                                                         *)
(* Bytes are counted; the only ones told apart are lengths and opcodes.    *)
(* What the accept loop does with the handshake is in AcceptLoop.          *)
(***************************************************************************)
EXTENDS Naturals, Sequences

CONSTANTS
  Modulus,      \* 2^32, the range of a length field
  MaxAgent,     \* maxAgentResponseBytes
  CookieLen,    \* of the cookie in the window's title
  RequestLens,  \* lengths of the requests a client announces
  ReplyLens,    \* lengths of the answers of the agent
  MaxRequests   \* bound: requests of the client

HelloLen == 9   \* opcode, flag and length of initAgentMsg

ASSUME XShellAssumption ==
  /\ MaxAgent \in Nat /\ Modulus \in Nat /\ HelloLen + CookieLen <= MaxAgent
  /\ MaxAgent + 8 < Modulus
  /\ CookieLen \in Nat /\ MaxRequests \in Nat
  /\ RequestLens \subseteq 0..(Modulus - 1) /\ ReplyLens \subseteq Nat \ {0}

VARIABLES
  status,       \* of the connection
  consumed,     \* bytes the handshake has taken from the connection
  shown,        \* the client has shown the cookie
  in,           \* frames of the client not yet read
  sent, taken,  \* frames sent by the client, read by the proxy
  buf,          \* bytes in s.buf
  phase,        \* what ServeAgent is doing
  need,         \* bytes it still asks for
  field,        \* value of the length field it reads
  reply,        \* bytes of its answer
  wlength,      \* s.wlength
  wbuf,         \* bytes in s.wbuf
  out           \* sizes of the segments written to the client

reading == <<in, taken, buf, field>>
writing == <<wlength, wbuf, out>>
vars == <<status, consumed, shown, in, sent, taken, buf, phase, need, field, reply,
          wlength, wbuf, out>>

\* A frame of the client: its length, and whether its body is a sign request
\* with flags, one that does not parse with them, or another message.
\* The shortest one with flags has 13 bytes.
Frames == {f \in [len : RequestLens, body : {"sign", "bare", "other"}] :
             f.body = "sign" => f.len >= 13}

TypeOK ==
  /\ status \in {"hello", "serving", "closed", "panic"}
  /\ consumed \in Nat /\ shown \in BOOLEAN
  /\ in \in Seq(Frames) /\ sent \in 0..MaxRequests /\ taken \in 0..MaxRequests
  /\ buf \in Nat /\ need \in Nat /\ field \in Nat /\ reply \in Nat
  /\ phase \in {"header", "body", "answer", "answerBody"}
  /\ wlength \in Nat /\ wbuf \in Nat /\ out \in Seq(Nat)

Init ==
  /\ status = "hello" /\ consumed = 0 /\ shown = FALSE
  /\ in = <<>> /\ sent = 0 /\ taken = 0
  /\ buf = 0 /\ phase = "header" /\ need = 4 /\ field = 0 /\ reply = 0
  /\ wlength = 0 /\ wbuf = 0 /\ out = <<>>

-----------------------------------------------------------------------------
(* xshellHandshake. *)

\* What a client may send: a length field, an opcode that is 99 or not, the
\* length of the cookie, and the cookie itself, right or wrong.
Hellos == [length : 0..(Modulus - 1), opcode : BOOLEAN, cookieLength : 0..(Modulus - 1),
           right : BOOLEAN]

\* The size of the request that is read, computed in 32 bits.
HelloSize(h) == (h.length + 4) % Modulus

\* Bytes of the cookie that are still to be read behind the request.
Remaining(h) == h.cookieLength - (HelloSize(h) - HelloLen)

\* Which of its returns the handshake takes.  The opcode of a request without
\* bytes is looked at.
HelloOutcome(h) ==
  LET l == HelloSize(h)
  IN CASE l > MaxAgent -> "closed"
       [] l = 0 -> "panic"
       [] l > 0 /\ l < HelloLen -> "closed"
       [] OTHER ->
            IF /\ h.opcode
               /\ h.cookieLength = CookieLen /\ l - HelloLen <= h.cookieLength
               /\ h.right
            THEN "serving" ELSE "closed"

\* The client is silent, hangs up, or sends a hello.
Handshake ==
  /\ status = "hello"
  /\ \/ \E h \in Hellos :
          /\ status' = HelloOutcome(h)
          /\ shown' = h.right
          /\ consumed' = IF status' = "serving" THEN 4 + HelloSize(h) + Remaining(h) ELSE consumed
     \/ status' = "closed" /\ UNCHANGED <<shown, consumed>>
  /\ UNCHANGED <<reading, sent, phase, need, reply, writing>>

-----------------------------------------------------------------------------
(* xshellProxy.Read, and the reads of ServeAgent. *)

\* ServeAgent returns an error; SSHAgentHandler closes the connection.
Hangup == status' = "closed" /\ UNCHANGED <<reading, phase, need, writing>>

\* Zero flags are added to a sign request that does not parse.
Padded(r) == IF r.body = "bare" THEN r.len + 4 ELSE r.len

\* Mutant: the length field stays that of the client.
Announced_Unpadded(r) == r.len

\* The length field the proxy writes in front.
Announced(r) == Padded(r)

\* Mutant: reads are taken to be those of a length field.
Copied_Four(avail) == 4

\* copy(p, s.buf).
Copied(avail) == IF need <= avail THEN need ELSE avail

\* A Read hands out what is in the buffer ...
ReadBuffered ==
  /\ status = "serving" /\ phase \in {"header", "body"} /\ need > 0 /\ buf > 0
  /\ buf' = buf - Copied(buf)
  /\ need' = need - Copied(buf)
  /\ field' = IF phase = "header" THEN 0 ELSE field
  /\ UNCHANGED <<status, consumed, shown, in, sent, taken, phase, reply, writing>>

\* ... or fetches a frame, unless its length is refused.
ReadFrame ==
  /\ status = "serving" /\ phase \in {"header", "body"} /\ need > 0 /\ buf = 0
  /\ in # <<>>
  /\ LET r == Head(in)
     IN IF r.len = 0 \/ r.len > MaxAgent
        THEN Hangup
        ELSE /\ in' = Tail(in) /\ taken' = taken + 1
             /\ buf' = 4 + Padded(r) - Copied(4 + Padded(r))
             /\ need' = need - Copied(4 + Padded(r))
             /\ field' = IF phase = "header" THEN Announced(r) ELSE field
             /\ UNCHANGED <<status, phase, writing>>
  /\ UNCHANGED <<consumed, shown, sent, reply>>

\* The client hangs up in front of a frame or inside one.
ReadEOF ==
  /\ status = "serving" /\ phase \in {"header", "body"} /\ need > 0 /\ buf = 0
  /\ Hangup
  /\ UNCHANGED <<consumed, shown, sent, reply>>

\* ServeAgent has its length field, and then the request.
HaveHeader ==
  /\ status = "serving" /\ phase = "header" /\ need = 0
  /\ IF field = 0 \/ field > MaxAgent THEN Hangup
     ELSE phase' = "body" /\ need' = field /\ UNCHANGED <<status, reading, writing>>
  /\ UNCHANGED <<consumed, shown, sent, reply>>

\* processRequestBytes; an answer that is too long ends the connection.
Process ==
  /\ status = "serving" /\ phase = "body" /\ need = 0
  /\ \E n \in ReplyLens :
       IF n > MaxAgent THEN Hangup /\ UNCHANGED reply
       ELSE phase' = "answer" /\ reply' = n /\ UNCHANGED <<status, reading, need, writing>>
  /\ UNCHANGED <<consumed, shown, sent>>

-----------------------------------------------------------------------------
(* xshellProxy.Write, and the two writes of ServeAgent. *)

\* Mutant: every write goes to the client.
Write_Through(n) ==
  /\ out' = Append(out, n)
  /\ UNCHANGED <<status, wlength, wbuf>>

\* n bytes are written: a length field is kept, what follows completes the
\* answer, which goes out in one piece, or not yet, or is too much.
Write(n) ==
  IF wlength = 0
  THEN IF n # 4 THEN status' = "closed" /\ UNCHANGED writing
       ELSE wlength' = reply + 4 /\ wbuf' = wbuf + n /\ UNCHANGED <<status, out>>
  ELSE \/ /\ wbuf + n = wlength
          /\ wlength' = 0
          /\ \/ wbuf' = 0 /\ out' = Append(out, wbuf + n) /\ UNCHANGED status
             \/ wbuf' = wbuf + n /\ status' = "closed" /\ UNCHANGED out
       \/ wbuf + n < wlength /\ wbuf' = wbuf + n /\ UNCHANGED <<status, wlength, out>>
       \/ wbuf + n > wlength /\ wbuf' = wbuf + n /\ status' = "closed" /\ UNCHANGED <<wlength, out>>

WriteHeader ==
  /\ status = "serving" /\ phase = "answer"
  /\ Write(4)
  /\ phase' = "answerBody"
  /\ UNCHANGED <<consumed, shown, reading, sent, need, reply>>

WriteBody ==
  /\ status = "serving" /\ phase = "answerBody"
  /\ Write(reply)
  /\ phase' = "header" /\ need' = 4
  /\ UNCHANGED <<consumed, shown, reading, sent, reply>>

\* The client sends a request, waiting for answers or not.
Send ==
  /\ status = "serving" /\ sent < MaxRequests
  /\ \E r \in Frames : in' = Append(in, r)
  /\ sent' = sent + 1
  /\ UNCHANGED <<status, consumed, shown, taken, buf, phase, need, field, reply, writing>>

Serve ==
  \/ ReadBuffered \/ ReadFrame \/ HaveHeader \/ Process \/ WriteHeader \/ WriteBody

Next == Handshake \/ Serve \/ ReadEOF \/ Send

Spec == Init /\ [][Next]_vars

-----------------------------------------------------------------------------
(* Properties. *)

\* The proxy never loses its place in the stream.  The handshake has taken
\* exactly a hello and the cookie, however the cookie was split and whatever
\* the length field, wrapped ones included.  When ServeAgent asks for a length
\* field nothing is left of the last frame or answer, and when it asks for a
\* request the buffer holds just that, flags added or not.
FramesAligned ==
  status = "serving" =>
    /\ shown /\ consumed = 4 + HelloLen + CookieLen
    /\ phase = "header" => IF need = 0 THEN buf = field ELSE need = 4 /\ buf = 0
    /\ phase = "body" => buf = need
    /\ phase \in {"header", "body", "answer"} => wlength = 0 /\ wbuf = 0
    /\ phase = "answerBody" => wlength = 4 + reply /\ wbuf = 4

\* Every segment the client gets is one whole answer, length field included,
\* to the request taken last, and every request before it has had its own.
AnswersWhole ==
  [][out' # out => out' = Append(out, 4 + reply) /\ Len(out') = taken]_vars
=============================================================================
