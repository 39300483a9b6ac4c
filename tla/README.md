# A TLA+ model of KeyBridge

KeyBridge is an SSH agent for Windows. Its keys are the certificates of the
Windows certificate store (smart cards, Windows Hello, plain certificates) and
keys added with `ssh-add`; it serves them over six transports, and a second
program in the same binary, `keybridge relay`, connects a named pipe with stdin
and stdout. The repository has no tests. This project models its core in TLA+,
model-checks it with TLC, and proves the main safety properties with TLAPS.

## 1. The system

| component | state | operations | talks to |
|---|---|---|---|
| relay (`relay.go`) | flags, two goroutines, one pipe connection | parse, dial with retries, two copies, `-s`, `-ep`, `-ei`, drain timeout | a pipe server, stdin, stdout |
| CAPIAgent (`sshagent/capi_agent.go`, `capi/wincapi.go`) | mutex, table of keys, references to contexts, key handles, PIN cache of Windows | `List`, `Sign`, `SignWithFlags`, `Close` | CryptoAPI, CNG, prompts |
| KeyRingAgent, WrappedAgent (`sshagent/`) | x/crypto's keyring; none of their own | all of `agent.Agent` | each other, notifications |
| HVAgent (`sshagent/hyperv.go`) | none | `List`, `Sign` by dialling the host, anew each time | KeyBridge on the host |
| Server (`sshagent/server.go`) | none | one handler per connection | the configured agent |
| Pageant (`app/pageant.go`, `utils/pageant.go`, `utils/mmap.go`) | a window with its own OS thread, a request channel | `WM_COPYDATA`, accept, drain | clients blocked in `SendMessage` |
| VSock (`app/vsock.go`, `utils/processnotify.go`, `utils/wsl2.go`) | listeners per VM, what the last scan saw, a WMI subscription | scan, open, close | WMI, Hyper-V sockets |
| NamedPipe, WSL, Cygwin, XShell (`app/`) | a listener, a WaitGroup, a socket file or windows that advertise it | listen, accept, vet (owner, handshake), serve, drain | clients, other processes of the program |
| xshellProxy (`app/xshell.go`) | two buffers per connection | re-framing of requests and answers | XShell, `agent.ServeAgent` |
| main, tray, menu (`main.go`, `menu.go`, `app/pubkey.go`) | context, WaitGroup, the agent of the key view | start, menu handlers, quit, wait up to 5 s, close | all of the above |

Every transport runs in a goroutine of its own and starts a goroutine per
connection, which serves one request at a time with the one agent there is.
What is hard about this code:

- *interleavings*: connections share the agents; `List` of one frees and reloads
  the table that `Sign` of another uses; the wrappers make several calls per
  request and lock nothing; the relay's goroutines can each end the process;
- *blocking*: the CAPIAgent keeps its mutex while the user types a PIN; the
  window's thread of Pageant waits for the answer to every message; handshakes
  run inside accept loops; message boxes block main or a transport's goroutine;
- *resources across failures*: context references, key handles and a cached PIN
  have to be given back on every path;
- *start and end*: a window that exists before its channel does, a socket file
  that another process may replace, five ways to drain or not to on cancel, a
  bounded wait, exits that must not lose data;
- *framing*: a proxy that changes the length of messages in a stream;
- *unreliable inputs*: WMI events are missed, queries and listeners fail, pipes
  are absent or busy, stdin or the pipe never ends;
- *boundaries*: `uint32` lengths to which a header is added, signature flags that
  are bits and are compared as values.

`PROJECT.json` lists these hazards one by one with the line each is at and the
properties that would show it going wrong.

## 2. Modules

| module | models | role |
|---|---|---|
| `Pump` | | abstract: a stream delivered in order, complete only at its end |
| `Relay` | `relay.go` | the relay; implements two `Pump`s |
| `RelayProofs` | | theorems about `Relay` |
| `CapiAgent`, `MCCapiAgent` | `capi_agent.go`, `certificate.go`, `rsa.go`, `ecdsa.go`, `eku.go`, `wincapi.go` | the agent over the certificate store |
| `CapiAgentProofs` | | theorems about `CapiAgent` |
| `Agents`, `MCAgents` | `wrapped_agent.go`, `keyring_agent.go`, `hyperv.go` | what a connection talks to |
| `AgentsProofs` | | theorems about `Agents` |
| `Pageant` | `utils/pageant.go`, `utils/mmap.go`, `app/pageant.go` | the Pageant transport; implements `Application` |
| `PageantProofs` | | theorems about `Pageant` |
| `VSock` | `app/vsock.go`, `processnotify.go`, `GetVMIDs` | the Hyper-V transport |
| `VSockProofs` | | theorems about `VSock` |
| `Application` | `app/app.go`, as `main` uses it | abstract: what `main` relies on in `Run` |
| `AcceptLoop` | `app/pipe.go`, `wsl.go`, `cygwin.go`, `xshell.go`, `vsock.go` (wildcard listener), `utils/tcpowner.go`, `xagent.go` | `Run` of the stream transports; implements `Application` |
| `AcceptLoopProofs` | | theorems about `AcceptLoop` |
| `XShell` | `app/xshell.go` | handshake and proxy of one connection |
| `XShellProofs` | | theorems about `XShell` |
| `Lifecycle` | `main.go`, `menu.go`, `app/pubkey.go` | start, event loop and end of the process |
| `LifecycleProofs` | | theorems about `Lifecycle` |

The operators whose name ends in `_<Something>` and whose comment begins with
"Mutant" are variants of a definition with a plausible bug; no specification
uses them. Each shows that the property it is listed with in `PROJECT.json` can
fail.

### Relay

`pcMain` and `pcIn` are the program counters of the main goroutine and of the
stdin goroutine. A stream is four counters of chunks: written by its source,
read by `io.Copy`, written by `io.Copy`, and (for stdin) read by the server; as
both pipes and `io.Copy` keep order, counts say which chunks are where.
`exit` is set by `os.Exit`, `log.Fatalln` and the return of `main` alike and
stops both goroutines. `CloseWrite` waits for the server to have read
everything, as go-winio's flush does, and exists on message-mode pipes only.
Time is not modelled: the drain timer may fire at any moment of the `select`,
and a dial of a busy pipe fails after an unspecified time.

### CapiAgent

A call of `Sign` is cut where something else can happen: before the mutex, at
the prompt of `KB_CHECKSVR`, before loading, matching, acquiring the key handle,
in `CryptSignMessage` (the PIN prompt), and at the deferred calls. `List` shows
no prompt and runs under the mutex from start to end, so it is one step.
`refs` counts the certificate context references the process has, `lost` those of
them that an enumeration that broke off (`wincapi.go:256`) left without owner.
`owned` are handles yet to be passed to `NCryptFreeObject`, `cache` the handle
CryptoAPI keeps with a context; `pin` the certificates whose PIN Windows knows.
Files named `<serial>-cert.pub` and `<common name>-cert.pub` are classified as
absent, unusable, for another key, or matching.
Assumed of Windows: a call that succeeds leaves no last error behind (the code
would take it for a failure); a context drops its cached handle with its last
reference.

### Agents

A request is a series of steps, one per call on an agent: `ListRing` then
`ListCapi`; `FindKeyComment` then `RingSign` then `CapiSign`; `FindKeyComment` then
`Remove`. The keyring of x/crypto is external: a set of keys with comments, locked
as a whole, that drops expired keys. Of the CAPIAgent there is the `table` of keys
besides the store `certs` it is loaded from: `List` drops and reloads it, or fails and
leaves none; `SignWithFlags` loads it only if there is none and otherwise signs from
it without asking the store, so that a certificate may go on signing after it was
removed. Its mutex makes each of these calls one step (`CapiAgent` has the steps and
proves that the table does not change under a signature). `hist` and `since` are
history variables: which of the keys a request is about were there in every, and in
some, state of it, and what has been in the store since a `List` last reached the
CAPIAgent. With the backend `hv` a
request goes to `dial` and `host` instead: `certs` then are the keys the host lists,
and only its answers are known: it may sign with any key it might ever hold, as it
has a table of its own. A signature carries the flags it was made
with, because `HVSign` loses those of the request.

### Pageant

`run` is the goroutine of `NewPageant` and `Run`, `wt` the window's thread, `conn[c]`
the handler of the request of client `c`. The checks of `wndProc` are a
classification of messages (`Checks`); the length field is modelled modulo
`Word`, the scaled-down 2^32. Clients wait for the answer: one that dies or gives up in
`SendMessage` is left out. A send on a nil channel never proceeds
(`wt = "stuck"`). `win.Close` is called on another thread than the one that created
the window, where `DestroyWindow` has no effect, so the window lives on. For `main` the transport is
an `Application` that waits before every return: it has started until there is a
channel, and its busy connections are the requests taken and not yet answered. A
panic for want of a window ends the process with `Run` still started.

### VSock

`watcher` is the loop of `wsl2Watcher`, `disp` that of `ProcessNotify.dispatch`, `ch`
the channel of capacity 1 between them. Events carry nothing the watcher reads,
so they are counted. `vms`, `wmiOK` and `listenOK` are the environment: VMs that run,
whether queries work, VMs for which `ListenHvsock` works.

### AcceptLoop and Application

Five transports have the same shape and differ in details that matter, so `kind`
chooses one of them: whether `Accept` has a deadline and the context is looked at
(WSL, Cygwin), a goroutine closes the listener (NamedPipe) or nothing happens on
cancel (XShell, VSock); what is done with a connection before it is served (owner
check of the TCP fallback, one- or two-part handshake); and which returns wait for
the handlers. `pc` is the program counter of `Run`, `conn[c]` what has become of a
connection, `peer[c]` what its other side has done. `sockfile` stands for whatever
tells clients where to connect. `FoundOwner` is the search of `tcpConnOwnerPID`,
which compares ports and no addresses: `SamePort` are the users that may own the row
found instead. A hello of XShell whose length wraps to 0 makes `xshellHandshake` panic
(`XShellPanic`; `XShell` has the arithmetic): the process is gone, and nothing of the
model moves any more. So it is with the end of the process at the 5 s of `main`, which
is outside of this module: a socket file still in place then stays behind. Assumed: `os.Remove` succeeds unless the file is open in this process
(which it is when `createCygwinSocket` fails for want of random bytes).

`Application` has the states of a `Run` as `main` sees them, and the connections it has
accepted. Its `policy` is how far a transport keeps to waiting for them: before any
return, before a return without error, never. The mapping takes connections that
were accepted and not yet closed as busy, those still in the handshake included.

### XShell

`xshellProxy` sits between the client and `agent.ServeAgent`, whose reads (a length
field, a request) and writes (a length field, an answer) are external actions of the
module. Frames are lengths with a classification of the body: a sign request that
parses with flags, one that does not, another message. Length fields are modulo
`Modulus`, the scaled-down 2^32. A hello of all lengths is one step, as nothing of
it depends on how the bytes arrive; that it may never arrive is in `AcceptLoop`.

### Lifecycle

`main` is the program counter of `main`, `app[a]` the goroutine of an application,
`conn[a]` one connection of it, which may hold the mutex of the CAPIAgent through a PIN
prompt. `Waiting` are the applications whose `Run` waits for its handlers before it returns
an error, too (NamedPipe, Pageant, XShell); WSL (`wsl.go:79`), Cygwin (`cygwin.go:106`)
and VSock return at once, and a client they were serving goes on with nobody waiting
for it. Menu handlers run on main's goroutine, so that an open box also keeps
main from quitting. A `List` of theirs is assumed to return, also over the vsock of a
guest. Time is not modelled: the 5 s may be over at any moment.

## 3. Runs

| run | checks | states |
|---|---|---|
| `Relay_run` | types, exits, `-s`, two refinements of `Pump`; `-p` connects, the process ends after either side does | 213 k |
| `CapiAgent_run` | references, use of contexts, PIN, handles; every request is answered | 413 k |
| `CapiAgent_flags` | all key types and flag values: the signature is the one asked for | 94 k |
| `Agents_run` | lists and notifications that were true during the request, signatures refused for a reason; a removed certificate signs only until the next `List` | 2.8 M |
| `Pageant_run` | whole requests, one at a time; `Run` implements `Application`; answers, return on cancel | 110 k |
| `VSock_run` | workers follow the scans; listeners come and go with the VMs | 226 k |
| `AcceptLoop_run` | `Run` implements `Application`; what is advertised is listening; it returns on cancel and nobody is left in the queue while the process lives | 18 k |
| `XShell_run` | the proxy keeps its place in both streams, answers go out whole | 8 k |
| `Lifecycle_run` | quitting ends the process, and before the 5 s are over cuts off only clients whose application had failed and left them | 312 k |

Three more runs expect a violation; see section 5.

**Bounds.** Two clients (connections) are enough for each pair of requests to
meet at each pair of steps; the safety invariants of `CapiAgent` speak of one
signature and one other client at a time, and are proved for any number. Two
chunks per direction and a capacity of one let a copy be before, in and behind a
chunk and a write block. The certificates of `MCCapiAgent` are one of each kind
the code tells apart: accepted by usage, without usage, rejected; RSA and ECDSA;
the rejected one shares its key with an accepted one. `MaxLost` stops repeated
failed enumerations. `Agents` has a key that may be in both agents and one that
is in the keyring only, and two comments. The lengths of Pageant lie around the
limit and around the wrap; `MaxHandlers` bounds goroutines between `conn.Close` and
`wg.Done`. Two VMs suffice for one VM's change to be confused with the other's;
`MaxEvents` bounds the events WMI has for the dispatcher,
besides the one dispatched and the one in the channel. In `AcceptLoop` two clients
are one being vetted and one waiting, or one served and one vetted; a client
connects once. `XShell` has a limit of 14 and a modulus of 32, so that all hellos
fit, the shortest request with flags lies below the limit and one with flags added
may exceed it; three requests let two be in the stream while one is answered.
`Lifecycle` has one application of each kind (drains or ignores the context, waits on
an error or not) and the key view. Symmetry is used for clients and
comments in `Agents_run` only, whose properties are invariants and one action property
and where no definition tells them apart; the other runs check liveness or are small.

**Fairness.** Goroutines that can run are run (weak fairness of their steps) and
timers fire. In `Relay` the server goes on reading what it is sent; nothing is
assumed of who writes stdin or reads stdout. In `CapiAgent` the user answers
prompts, and the lock is strongly fair: `sync.Mutex` hands itself to a waiter that
has waited for more than a millisecond. In `Pageant` Windows delivers sent
messages in turn (strong fairness of `Dispatch`). In `AcceptLoop` goroutines are
scheduled and deadlines expire; what is needed of peers is a hypothesis of the
properties: clients leave at some time, and for Cygwin and XShell no peer stays silent
in a handshake, for which the code has no timeout. In `Lifecycle` a `select` with two
ready channels takes each at some time and the mutex is handed to waiters (strong
fairness), and the user answers PIN prompts and the boxes of main's goroutine
(`UserAnswers`), not those of the applications. Nothing is assumed of clients, VMs or
events.

## 4. Proofs

TLAPS proves, for all values of the constants:

- `RelayProofs`: `TypeOK`, `ExitsLoseOnlyTheOtherSide`, `EndSignalNotSkipped`,
  `FatalHasCause`, and that each direction implements `Pump`. None of these is
  inductive: that an exit loses nothing follows from where the goroutines are,
  and that from where the chunks are. The invariant `IInv` therefore ties the
  counters to the program counters (`InInv`, `OutInv`: at most one chunk is between
  a read and a write, and a finished copy left none), the outcome of `-s` to the
  position of the stdin goroutine (`CloseWriteInv`), and each exit to the positions
  at that moment (`ExitInv`). The refinements then hold step by step.
- `CapiAgentProofs`: `TypeOK`, `ContextsAccounted`, `NoUseAfterFree`, `PinForgotten`,
  `HandlesReleased`, `SignatureMatchesRequest` and the action property
  `TableFrozenWhileSigning`. `IInv` says that
  only the holder of the mutex is inside (`MutexInv`), that references are those of
  the table (`TableInv`), that the certificate in use is in the table (`UseInv`) and
  that there is an owned handle exactly while the holder has one (`HandleInv`).
  `SigInv` adds, client by client, that what is in the table was kept by the rules of
  `Kept` and that a certificate in use, and then a result, has the key of the request.
- `AgentsProofs`: `TypeOK`, `ListIsRegular`, `SignTriesAll`, `NotificationIsTrue` and the
  action property `ListForgetsRemoved`. The
  invariant is stated client by client: while a request is in progress its history
  agrees with what the agents hold now (`Current`), what the request read earlier
  lies between "throughout" and "at some time" (`Learnt`), and its variables fit the
  place where it is (`Place`). `Frame` shows that steps of others keep all of this,
  whatever they do to the keyring; it is where the interleavings are dealt with.
  `GuestInv` adds that a guest's keyring stays empty, `TableInv` that the table and the
  store hold nothing that was not in the store since the last `List`: on the failing
  path this needs the table to be dropped before it is reloaded.
- `PageantProofs`: `TypeOK`, `OnlyWholeRequestsServed`, `OneRequestAtATime`,
  and that `Run` implements `Application`. `IInv` adds what wndProc knows of the message it handles
  (`CurInv`) and that the WaitGroup counts the one live connection and the handlers
  behind theirs (`CountInv`). `SizeWraps` is the arithmetic of the length field: a
  wrapped size is less than a header, so `ServeAgent` finds no request in it. The
  refinement needs `RunInv` besides: only a cancel ends the accept loop.
- `VSockProofs`: `TypeOK`, `WorkersOfLastScan` and the action property
  `ClosedOnlyIfGone`, from `TypeOK /\ WorkersOfLastScan`, which is inductive.
- `AcceptLoopProofs`: `TypeOK`, `AdvertisedIsListening`, and that all five transports
  implement `Application` (`RunSpec`). `IInv` says where each transport can be in the code
  they share (`ControlInv`), that a connection is accepted exactly while `Run` has it in
  hand and that the WaitGroup is the number of those served (`ConnInv`), which of the
  returns have waited for them (`DrainInv`), and which span of the code the listener
  and the socket file are there for (`ListenInv`, `SockInv`). That the served
  connections are finitely many is part of the invariant, not an assumption: they are
  taken one by one.
- `XShellProofs`: `TypeOK`, `FramesAligned` and the action property `AnswersWhole`. With
  `FramesAligned` itself `IInv` counts frames (`QueueInv`: taken and waiting ones are the
  ones sent) and turns (`TurnInv`: all requests taken are answered but the one in hand,
  and nothing of a request is left when its answer is written); `HelloInv` is the state
  before the handshake. `HelloConsumes` is the arithmetic of the handshake modulo 2^32.
- `LifecycleProofs`: `TypeOK` and `CutOffOnlyIfAbandoned`. `IInv` says that the WaitGroup is the
  number of goroutines that have not called `wg.Done` (`WgInv`), that all applications
  were started when `main` waits for them (`StartedInv`), that the context is cancelled by
  the cleanup only (`CancelInv`) and that an application that drained, or that waits on
  errors and has failed, has no connection (`DrainedInv`). A wait that ends without the timer then finds nobody busy.

Each inductive invariant was checked with TLC on the bounds of section 3 (that of
`Agents` with one comment) before it was proved.

They rest on the assumptions named in the modules (`BoundsAssumption`,
`CapiAssumption`, `AgentsAssumption`, `PageantAssumption`, `VSockAssumption`,
`AcceptLoopAssumption`, `XShellAssumption`, `LifecycleAssumption`), which say that bounds
are natural numbers, that the constants have their types, that roles are told apart, and
that the limits of a Pageant and of an XShell message and their headers fit the length
field.

`FatalHasCause`, `TableFrozenWhileSigning` and `TypeOK` of `VSock` are proved only: no run
repeats them.

Every invariant, action property and refinement that a passing run checks has a
theorem. Only model-checked are the liveness properties (`PollConnects`,
`EitherEndExits`, `RequestsAnswered`, `AnsweredOnceReady`, `RunReturnsOnCancel`,
`ServedIfListenWorks`, `ClosedIfGone`, `ReturnsOnCancel`, `QueuedIsTaken`, `QuitEnds`): they need
fairness and `ENABLED`, which are beyond this prover.

## 5. Where code and documents disagree

| run | document | code |
|---|---|---|
| `Agents_hv` | `docs/FLOWS.md:25` of HVAgent: "forwards every request to the host over a vsock" | `hyperv.go:37-59` forwards nothing but `List` and `Sign`, `hyperv.go:27` the latter without flags |
| `Pageant_startup` | `docs/FLOWS.md:43`: "every one of them ends up calling the exact same handler" | `utils/pageant.go:106` assigns `requestCh` when messages are already handled; one that comes before blocks the transport for good |
| `VSock_retry` | `docs/FLOWS.md:178`: "new VM found -> open a per-VM Hyper-V socket worker" | `vsock.go:110` tries once |

Other disagreements that the models show, without a run of their own:

- `relay.go:177` gives up on stdin after `stdinDrainTimeout`; `docs/FLOWS.md:152`: "it
  always waits on the stdin side to finish on its own instead" (line 141 of the same
  document has the timeout). `Relay`: `SelectTimeout`.
- `eku.go:41` and `capi_agent.go:74` drop certificates that have a private key;
  `README.md:7`: "Any certificate with a usable private key [...] becomes an SSH
  identity automatically". `CapiAgent`: `Kept`.
- `vsock.go:127` takes the end of the WMI subscription for an event and goes on with
  the slow period; `docs/FLOWS.md:175`: "falls back to 15s polling if that fails".
  `VSock`: `WaitEvent`.
- `tcpowner.go:84` may find the row of another socket with the same port; `wsl.go:84`:
  "Refuse a connection only when we can positively confirm it belongs to a different
  user". `AcceptLoop`: `FoundOwner`.
- `main.go:152` lets quitting wait for the user of a PIN prompt, after the 5 s of
  `docs/FLOWS.md:34`. `Lifecycle`: `DeferredClose`.

## 6. Not modelled

Clipboard, DPI, formatting of help texts, elevation and the registry entry of the
service are one-shot I/O. The codec of the agent protocol
(`agent.ServeAgent`), the keyring, go-winio, WMI and CryptoAPI are outside of the
repository and appear as what the code is told by them.

## 7. Plan

1. Done: the relay and its refinement; the CAPIAgent; the wrappers and HVAgent;
   Pageant; VSock; the accept loops and their refinement; XShell; the lifecycle.
2. Done: theorems for the safety properties of all of them, and the refinements of
   `Pump` and `Application`.
3. An abstract agent whose operations are atomic, implemented by `Agents` up to the
   regularity that `ListIsRegular` states.
