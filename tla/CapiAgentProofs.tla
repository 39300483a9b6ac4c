-------------------------- MODULE CapiAgentProofs --------------------------
(***************************************************************************)
(* Proofs about CapiAgent, for any number of clients, certificates and     *)
(* keys, any contents of the store and any failures.                       *)
(***************************************************************************)
EXTENDS CapiAgent, TLAPS

-----------------------------------------------------------------------------
(* The inductive invariant. *)

Inside == {"svcPrompt", "find", "match", "acquire", "crypt", "return"}

\* The mutex has one holder, and it is the client inside Sign.
MutexInv ==
  /\ \A a, b \in mu : a = b
  /\ \A cl \in Clients : pc[cl] \in Inside <=> cl \in mu

\* A nil table has no entries.
TableInv ==
  /\ ContextsAccounted
  /\ ~loaded => keys = {}

\* The certificate in use is one of the table's.
UseInv ==
  \A cl \in Clients : UsingContext(cl) =>
    /\ cur[cl] \in [cert : Certs, alg : Algorithms]
    /\ \E k \in Kinds : Entry(cur[cl].cert, k) \in keys

\* With -disable-pin-cache, and only then, a signature holds a key handle from
\* acquisition to return; the caller's own ones are counted by owned.
HandleInv ==
  /\ \A c \in Certs : cache[c] # "freed"
  /\ \A cl \in Clients : handle[cl] # "none" <=> pinCache = "off" /\ pc[cl] \in {"crypt", "return"}
  /\ owned = One(\E cl \in Clients : handle[cl] = "owned")

IInv == TypeOK /\ MutexInv /\ TableInv /\ UseInv /\ HandleInv /\ PinForgotten

-----------------------------------------------------------------------------
(* What loading and closing do to the references. *)

\* An entry of a freshly loaded table, in terms of loadCerts' decisions.
LEMMA LoadedEntries ==
  ASSUME NEW c \in Certs
  PROVE /\ Entry(c, "plain") \in LoadedKeys <=> Kept(c)
        /\ Entry(c, "ssh") \in LoadedKeys <=> Kept(c) /\ LoadSSHCertificate(c)
  BY DEF Entry, LoadedKeys, Entries, Kinds

\* loadCerts leaves exactly one more reference per entry it creates.
LEMMA LoadBalance ==
  ASSUME NEW base \in [Certs -> Nat], NEW c \in Certs
  PROVE LoadedRefs(base)[c] = Held(LoadedKeys, c) + base[c] /\ LoadedRefs(base)[c] \in Nat
  <1>1. Kept(c) => c \in LoadUserCerts BY DEF Kept
  <1> QED BY <1>1, LoadedEntries DEF LoadedRefs, Held, One

\* close() takes back what the table holds, leaving the lost references.
LEMMA CloseBalance ==
  ASSUME TypeOK, TableInv, NEW c \in Certs
  PROVE ClosedRefs[c] = lost[c]
  BY DEF TypeOK, TableInv, ContextsAccounted, ClosedRefs, Held, One

\* An empty table holds nothing.
LEMMA NoneHeld == ASSUME NEW c \in Certs PROVE Held({}, c) = 0
  BY DEF Held, One

\* Both outcomes of loadCerts, started from references that are all lost ones,
\* leave a well-typed and balanced table.
LEMMA LoadStep ==
  ASSUME TypeOK, NEW base \in [Certs -> Nat], \A c \in Certs : base[c] = lost[c],
         LoadOK(base) \/ LoadError(base)
  PROVE /\ TableInv'
        /\ loaded' \in BOOLEAN /\ keys' \in SUBSET Entries
        /\ refs' \in [Certs -> Nat] /\ lost' \in [Certs -> Nat]
  <1>1. CASE LoadOK(base)
    <2>1. keys' \in SUBSET Entries BY <1>1 DEF LoadOK, LoadedKeys
    <2>2. refs' \in [Certs -> Nat] BY <1>1, LoadBalance DEF LoadOK, LoadedRefs
    <2>3. ContextsAccounted' BY <1>1, LoadBalance DEF LoadOK, ContextsAccounted, Held
    <2>4. loaded' BY <1>1 DEF LoadOK
    <2>5. lost' \in [Certs -> Nat] BY <1>1 DEF LoadOK, TypeOK
    <2>6. loaded' \in BOOLEAN BY <1>1, Zenon DEF LoadOK
    <2> QED BY <2>1, <2>2, <2>3, <2>4, <2>5, <2>6 DEF TableInv
  <1>2. CASE LoadError(base)
    <2>1. PICK abandoned \in SUBSET LoadUserCerts :
            /\ loaded' = FALSE /\ keys' = {}
            /\ refs' = [c \in Certs |-> base[c] + One(c \in abandoned)]
            /\ lost' = [c \in Certs |-> lost[c] + One(c \in abandoned)]
      BY <1>2 DEF LoadError
    <2>2. refs' \in [Certs -> Nat] /\ lost' \in [Certs -> Nat] BY <2>1 DEF TypeOK, One
    <2>3. ContextsAccounted' BY <2>1, <2>2, NoneHeld DEF ContextsAccounted, TypeOK
    <2>4. loaded' \in BOOLEAN BY <2>1, Zenon
    <2> QED BY <2>1, <2>2, <2>3, <2>4 DEF TableInv
  <1> QED BY <1>1, <1>2

\* The answers given are results.
LEMMA ResultTypes ==
  /\ Error \in Results /\ Nothing \in Results /\ [kind |-> "nil"] \in Results
  /\ [kind |-> "keys", ids |-> {IdOf(e) : e \in LoadedKeys}] \in Results
  /\ \A job \in [cert : Certs, alg : Algorithms] :
        [kind |-> "sig", cert |-> job.cert, alg |-> job.alg] \in Results
  <1>1. {IdOf(e) : e \in LoadedKeys} \in SUBSET Ids
    BY CapiAssumption DEF LoadedKeys, Entries, IdOf, Ids, CertAttributes
  <1> QED BY <1>1 DEF Results, Error, Nothing

\* The initial states satisfy the invariant.
LEMMA InitIInv == Init => IInv
  <1> SUFFICES ASSUME Init PROVE IInv OBVIOUS
  <1> USE CapiAssumption DEF Init
  <1>1. TypeOK BY ResultTypes DEF TypeOK, Jobs
  <1>2. MutexInv /\ UseInv BY DEF MutexInv, UseInv, Inside, UsingContext
  <1>3. TableInv BY NoneHeld DEF TableInv, ContextsAccounted
  <1>4. HandleInv /\ PinForgotten BY DEF HandleInv, PinForgotten, One
  <1> QED BY <1>1, <1>2, <1>3, <1>4 DEF IInv

\* The table does not change: what depends on it alone is kept.
LEMMA TableKept == ASSUME TableInv, UNCHANGED table PROVE TableInv'
  BY DEF TableInv, ContextsAccounted, table, Held, One

-----------------------------------------------------------------------------
(* Every step keeps the invariant. *)

\* Sending a request and taking an answer concern the client alone.
LEMMA ClientStep == ASSUME IInv, NEW cl \in Clients, Call(cl) \/ Receive(cl) PROVE IInv'
  <1> USE DEF IInv
  <1>1. /\ UNCHANGED <<mu, loaded, keys, refs, lost, store, files, checkSvr, pinCache,
                      pin, resetFailed, owned, cache, handle, exited>>
        /\ \/ pc[cl] = "idle" /\ pc' = [pc EXCEPT ![cl] = "wait"] /\ UNCHANGED cur
           \/ pc[cl] = "answered" /\ pc' = [pc EXCEPT ![cl] = "idle"] /\ cur' = [cur EXCEPT ![cl] = <<>>]
    BY DEF Call, Receive, table, windows, config
  <1>2. TypeOK'
    <2>1. req' \in [Clients -> Requests \cup {<<>>}] BY DEF TypeOK, Call, Receive
    <2>2. cur' \in [Clients -> Jobs] BY <1>1 DEF TypeOK, Jobs
    <2>3. res' \in [Clients -> Results] BY ResultTypes DEF TypeOK, Call, Receive
    <2>4. pc' \in [Clients -> {"idle", "wait", "svcPrompt", "find", "match", "acquire",
                              "crypt", "return", "answered"}]
      <3>1. \E v \in {"wait", "idle"} : pc' = [pc EXCEPT ![cl] = v] BY <1>1
      <3> QED BY <3>1 DEF TypeOK
    <2> QED BY <1>1, <2>1, <2>2, <2>3, <2>4 DEF TypeOK
  <1>3. MutexInv' BY <1>1 DEF TypeOK, MutexInv, Inside
  <1>4. TableInv' BY <1>1, TableKept DEF table
  <1>5. UseInv'
    <2>1. \A d \in Clients : UsingContext(d)' => UsingContext(d) /\ cur'[d] = cur[d]
      BY <1>1 DEF TypeOK, UsingContext
    <2> QED BY <1>1, <2>1 DEF UseInv, Entry
  <1>6. HandleInv'
    <2>1. \A d \in Clients : pc'[d] \in {"crypt", "return"} <=> pc[d] \in {"crypt", "return"}
      BY <1>1 DEF TypeOK
    <2> QED BY <1>1, <2>1 DEF HandleInv, One
  <1>7. PinForgotten'
    <2>1. \A d \in mu : pc[d] = "return" => pc'[d] = "return" /\ cur'[d] = cur[d]
      BY <1>1 DEF TypeOK
    <2> QED BY <1>1, <2>1 DEF PinForgotten
  <1> QED BY <1>2, <1>3, <1>4, <1>5, <1>6, <1>7

\* List runs with the mutex free, when nobody uses an entry.
LEMMA ListStep == ASSUME IInv, NEW cl \in Clients, List(cl) PROVE IInv'
  <1> USE DEF IInv, List, config
  <1>1. ClosedRefs \in [Certs -> Nat] /\ \A c \in Certs : ClosedRefs[c] = lost[c]
    BY CloseBalance DEF TypeOK, ClosedRefs
  <1>2. LoadOK(ClosedRefs) \/ LoadError(ClosedRefs) OBVIOUS
  <1>3. /\ TableInv'
        /\ loaded' \in BOOLEAN /\ keys' \in SUBSET Entries
        /\ refs' \in [Certs -> Nat] /\ lost' \in [Certs -> Nat]
    BY <1>1, <1>2, LoadStep
  <1>4. pc' = [pc EXCEPT ![cl] = "answered"] BY DEF Answer
  <1>5. res' \in [Clients -> Results] BY ResultTypes DEF TypeOK, Answer
  <1>6. cache' \in [Certs -> {"absent", "live", "freed"}] /\ \A c \in Certs : cache'[c] # "freed"
    BY DEF TypeOK, HandleInv, ClosedCache
  <1>7. TypeOK' BY <1>3, <1>4, <1>5, <1>6 DEF TypeOK
  <1>8. MutexInv' BY <1>4 DEF TypeOK, MutexInv, Inside
  <1>9. UseInv' BY <1>4 DEF TypeOK, UseInv, UsingContext, MutexInv, Inside, Lock, Free
  <1>10. HandleInv' BY <1>4, <1>6 DEF TypeOK, HandleInv, One
  <1>11. PinForgotten' BY <1>4 DEF TypeOK, PinForgotten, Lock, Free
  <1> QED BY <1>3, <1>7, <1>8, <1>9, <1>10, <1>11

\* Taking the mutex, and the answer to the first prompt.
LEMMA LockStep == ASSUME IInv, NEW cl \in Clients, SignLock(cl) \/ SvcAnswer(cl) PROVE IInv'
  <1> USE DEF IInv, SignLock, SvcAnswer, Lock, Free, table, windows, config
  <1>1. TypeOK' BY DEF TypeOK
  <1>2. MutexInv' BY DEF TypeOK, MutexInv, Inside
  <1>3. TableInv' BY TableKept
  <1>4. UseInv' BY DEF TypeOK, UseInv, UsingContext
  <1>5. HandleInv' BY DEF TypeOK, HandleInv, One
  <1>6. PinForgotten' BY DEF TypeOK, PinForgotten, MutexInv, Inside
  <1> QED BY <1>1, <1>2, <1>3, <1>4, <1>5, <1>6

\* loadCerts within Sign starts from an empty table.
LEMMA SignLoadStep == ASSUME IInv, NEW cl \in Clients, SignLoad(cl) PROVE IInv'
  <1> USE DEF IInv, SignLoad, windows, config
  <1>0. /\ UNCHANGED <<store, files, checkSvr, pinCache, pin, resetFailed, owned, cache, req, cur,
                      handle, exited>>
        /\ pc[cl] = "find"
    OBVIOUS
  <1>1. /\ TableInv'
        /\ loaded' \in BOOLEAN /\ keys' \in SUBSET Entries
        /\ refs' \in [Certs -> Nat] /\ lost' \in [Certs -> Nat]
    <2>1. CASE loaded /\ UNCHANGED table BY <2>1, TableKept DEF TypeOK, table
    <2>2. CASE ~loaded /\ (LoadOK(refs) \/ LoadError(refs))
      <3>1. refs \in [Certs -> Nat] /\ \A c \in Certs : refs[c] = lost[c]
        <4>1. keys = {} BY <2>2, Zenon DEF TableInv
        <4> QED BY <4>1, NoneHeld DEF TypeOK, TableInv, ContextsAccounted
      <3> QED BY <2>2, <3>1, LoadStep
    <2> QED BY <2>1, <2>2
  <1>2. \/ pc' = [pc EXCEPT ![cl] = "match"] /\ UNCHANGED <<mu, res>>
        \/ pc' = [pc EXCEPT ![cl] = "answered"] /\ mu' = {} /\ res' = [res EXCEPT ![cl] = Error]
    BY DEF Answer, Unlock
  <1> HIDE DEF SignLoad
  <1>3. TypeOK'
    <2>1. pc' \in [Clients -> {"idle", "wait", "svcPrompt", "find", "match", "acquire",
                              "crypt", "return", "answered"}]
      BY <1>2 DEF TypeOK
    <2>2. res' \in [Clients -> Results] /\ mu' \in SUBSET Clients BY <1>2, ResultTypes DEF TypeOK
    <2> QED BY <1>1, <1>0, <2>1, <2>2 DEF TypeOK
  <1>4. MutexInv' BY <1>2, <1>0 DEF TypeOK, MutexInv, Inside
  <1>5. UseInv'
    <2>1. \A d \in Clients : UsingContext(d)' => d = cl /\ FALSE
      BY <1>2, <1>0 DEF TypeOK, UsingContext, MutexInv, Inside
    <2> QED BY <2>1 DEF UseInv
  <1>6. HandleInv'
    <2>1. \A d \in Clients : pc'[d] \in {"crypt", "return"} <=> pc[d] \in {"crypt", "return"}
      BY <1>2, <1>0 DEF TypeOK
    <2> QED BY <1>0, <2>1 DEF HandleInv, One
  <1>7. PinForgotten' BY <1>2, <1>0 DEF TypeOK, PinForgotten, MutexInv, Inside
  <1> QED BY <1>1, <1>3, <1>4, <1>5, <1>6, <1>7

\* The entry chosen is one of the table.
LEMMA SignMatchStep == ASSUME IInv, NEW cl \in Clients, SignMatch(cl) PROVE IInv'
  <1> USE DEF IInv, table, windows, config
  <1>0. /\ UNCHANGED <<table, store, files, config, windows, req, handle, exited>>
        /\ pc[cl] = "match"
    BY DEF SignMatch
  <1>1. CASE /\ pc' = [pc EXCEPT ![cl] = "answered"] /\ res' = [res EXCEPT ![cl] = Error]
             /\ mu' = {} /\ UNCHANGED cur
    <2>1. TypeOK' BY <1>0, <1>1, ResultTypes DEF TypeOK
    <2>2. MutexInv' BY <1>0, <1>1 DEF TypeOK, MutexInv, Inside
    <2>3. TableInv' BY <1>0, TableKept
    <2>4. UseInv' BY <1>0, <1>1 DEF TypeOK, UseInv, UsingContext
    <2>5. HandleInv' BY <1>0, <1>1 DEF TypeOK, HandleInv, One
    <2>6. PinForgotten' BY <1>0, <1>1 DEF TypeOK, PinForgotten, MutexInv, Inside
    <2> QED BY <2>1, <2>2, <2>3, <2>4, <2>5, <2>6
  <1>2. ASSUME NEW e \in Matches(cl), NEW alg \in Algorithms,
               cur' = [cur EXCEPT ![cl] = [cert |-> e.cert, alg |-> alg]],
               pc' = [pc EXCEPT ![cl] = "acquire"], UNCHANGED <<mu, res>>
        PROVE IInv'
    <2>0. /\ [cert |-> e.cert, alg |-> alg] \in [cert : Certs, alg : Algorithms]
          /\ e.kind \in Kinds /\ Entry(e.cert, e.kind) \in keys
      BY DEF Matches, TypeOK, Entries, Entry
    <2>1. TypeOK' BY <1>0, <1>2, <2>0 DEF TypeOK, Jobs
    <2>2. MutexInv' BY <1>0, <1>2 DEF TypeOK, MutexInv, Inside
    <2>3. TableInv' BY <1>0, TableKept
    <2>4. UseInv'
      <3> SUFFICES ASSUME NEW d \in Clients, UsingContext(d)'
                   PROVE /\ cur'[d] \in [cert : Certs, alg : Algorithms]
                         /\ \E k \in Kinds : Entry(cur'[d].cert, k) \in keys'
        BY DEF UseInv, Entry
      <3>1. CASE d = cl BY <1>0, <1>2, <2>0, <3>1 DEF TypeOK
      <3>2. CASE d # cl BY <1>0, <1>2, <3>2 DEF TypeOK, UseInv, UsingContext
      <3> QED BY <3>1, <3>2
    <2>5. HandleInv' BY <1>0, <1>2 DEF TypeOK, HandleInv, One
    <2>6. PinForgotten' BY <1>0, <1>2 DEF TypeOK, PinForgotten, MutexInv, Inside
    <2> QED BY <2>1, <2>2, <2>3, <2>4, <2>5, <2>6
  <1>3. \A type, flags : AlgorithmFor(type, flags) # "none" => AlgorithmFor(type, flags) \in Algorithms
    BY DEF AlgorithmFor, RsaAlgorithm, Algorithms
  <1> QED BY <1>1, <1>2, <1>3 DEF SignMatch, Answer, Unlock

\* Acquiring a handle or failing to.
LEMMA SignAcquireStep == ASSUME IInv, NEW cl \in Clients, SignAcquire(cl) PROVE IInv'
  <1> USE DEF IInv, table, config
  <1>0. /\ UNCHANGED <<table, store, files, config, pin, resetFailed, req, cur, exited>>
        /\ pc[cl] = "acquire"
    BY DEF SignAcquire, AcquireKey
  <1>1. cur[cl].cert \in Certs /\ handle[cl] = "none" /\ cl \in mu
    BY <1>0 DEF TypeOK, UseInv, UsingContext, HandleInv, MutexInv, Inside
  <1>2. TableInv' BY <1>0, TableKept
  <1>3. TypeOK'
    <2>1. res' \in [Clients -> Results] BY ResultTypes DEF SignAcquire, AcquireKey, Answer, TypeOK
    <2>2. mu' \in SUBSET Clients /\ owned' \in Nat BY DEF SignAcquire, AcquireKey, Unlock, TypeOK
    <2>4. pc' \in [Clients -> {"idle", "wait", "svcPrompt", "find", "match", "acquire",
                              "crypt", "return", "answered"}]
      <3>1. \/ pc' = [pc EXCEPT ![cl] = "crypt"]
            \/ pc' = [pc EXCEPT ![cl] = "answered"]
        BY DEF SignAcquire, AcquireKey, Answer
      <3> QED BY <3>1 DEF TypeOK
    <2>5. handle' \in [Clients -> {"none", "owned", "borrowed"}] BY DEF SignAcquire, AcquireKey, TypeOK
    <2>3. cache' \in [Certs -> {"absent", "live", "freed"}] BY <1>1 DEF SignAcquire, AcquireKey, TypeOK
    <2> QED BY <1>0, <2>1, <2>2, <2>3, <2>4, <2>5 DEF TypeOK
  <1>4. MutexInv' BY <1>0 DEF SignAcquire, AcquireKey, Answer, Unlock, TypeOK, MutexInv, Inside
  <1>5. UseInv'
    <2>1. \A d \in Clients : UsingContext(d)' => UsingContext(d)
      BY <1>0 DEF SignAcquire, AcquireKey, Answer, TypeOK, UsingContext
    <2> QED BY <1>0, <2>1 DEF UseInv, Entry
  <1>6. HandleInv'
    <2>1. owned = One(\E d \in Clients : handle[d] = "owned") BY DEF HandleInv
    <2>2. \A d \in Clients : handle[d] = "none"
      <3>1. \A d \in Clients : handle[d] # "none" => pc[d] \in {"crypt", "return"} BY DEF HandleInv
      <3>2. \A d \in Clients : pc[d] \in {"crypt", "return"} => d = cl
        BY <1>1 DEF MutexInv, Inside
      <3> QED BY <1>0, <3>1, <3>2
    <2>3. owned = 0 BY <2>1, <2>2 DEF One
    <2>4. \A c \in Certs : cache'[c] # "freed"
      BY <1>1 DEF SignAcquire, AcquireKey, TypeOK, HandleInv
    <2>5. \A d \in Clients : handle'[d] # "none" <=> pinCache' = "off" /\ pc'[d] \in {"crypt", "return"}
      <3>1. \A d \in Clients \ {cl} : ~(pc[d] \in {"crypt", "return"})
        BY <1>1 DEF MutexInv, Inside
      <3>2. \/ pinCache = "on" /\ pc' = [pc EXCEPT ![cl] = "crypt"] /\ UNCHANGED handle
            \/ pinCache = "off" /\ pc' = [pc EXCEPT ![cl] = "crypt"]
               /\ \E h \in {"borrowed", "owned"} : handle' = [handle EXCEPT ![cl] = h]
            \/ pinCache = "off" /\ pc' = [pc EXCEPT ![cl] = "answered"] /\ UNCHANGED handle
        BY DEF SignAcquire, AcquireKey, Answer
      <3>3. handle \in [Clients -> {"none", "owned", "borrowed"}] /\ pc = [d \in Clients |-> pc[d]]
        BY DEF TypeOK
      <3>4. pinCache' = pinCache BY <1>0
      <3> HIDE DEF IInv
      <3> QED BY <2>2, <3>1, <3>2, <3>3, <3>4
    <2>6. owned' = One(\E d \in Clients : handle'[d] = "owned")
      <3>1. CASE UNCHANGED <<handle, owned>> BY <3>1, <2>1
      <3>2. CASE handle' = [handle EXCEPT ![cl] = "borrowed"] /\ UNCHANGED owned
        BY <2>2, <2>3, <3>2 DEF TypeOK, One
      <3>3. CASE handle' = [handle EXCEPT ![cl] = "owned"] /\ owned' = owned + 1
        <4>1. handle'[cl] = "owned" BY <3>3 DEF TypeOK
        <4> QED BY <2>3, <3>3, <4>1 DEF One
      <3> QED BY <3>1, <3>2, <3>3 DEF SignAcquire, AcquireKey
    <2> QED BY <2>4, <2>5, <2>6 DEF HandleInv
  <1>7. PinForgotten' BY <1>0, <1>1 DEF SignAcquire, AcquireKey, Answer, TypeOK, PinForgotten, MutexInv
  <1> QED BY <1>2, <1>3, <1>4, <1>5, <1>6, <1>7

\* CryptSignMessage may leave a PIN behind, of the certificate in use.
LEMMA SignCryptStep == ASSUME IInv, NEW cl \in Clients, SignCrypt(cl) PROVE IInv'
  <1> USE DEF IInv, table, config
  <1>0. /\ UNCHANGED <<mu, table, store, files, config, resetFailed, owned, cache, req, cur, handle, exited>>
        /\ pc[cl] = "crypt" /\ pc' = [pc EXCEPT ![cl] = "return"]
        /\ pin' \in {pin, pin \cup {cur[cl].cert}}
    BY DEF SignCrypt, CryptSignMessage
  <1>1. cur[cl] \in [cert : Certs, alg : Algorithms] /\ cl \in mu
    BY <1>0 DEF TypeOK, UseInv, UsingContext, MutexInv, Inside
  <1>2. TableInv' BY <1>0, TableKept
  <1>3. TypeOK'
    <2>1. \E r \in Results : res' = [res EXCEPT ![cl] = r]
      <3>1. [kind |-> "sig", cert |-> cur[cl].cert, alg |-> cur[cl].alg] \in Results
        BY <1>1, ResultTypes
      <3>2. \A r \in SignerResults(cur[cl]) : r \in Results
        BY <3>1, ResultTypes DEF SignerResults
      <3> QED BY <3>2, ResultTypes DEF SignCrypt
    <2>2. res' \in [Clients -> Results] BY <2>1 DEF TypeOK
    <2> QED BY <1>0, <1>1, <2>2 DEF TypeOK
  <1>4. MutexInv' BY <1>0 DEF TypeOK, MutexInv, Inside
  <1>5. UseInv'
    <2>1. \A d \in Clients : UsingContext(d)' => UsingContext(d)
      BY <1>0 DEF TypeOK, UsingContext
    <2> QED BY <1>0, <2>1 DEF UseInv, Entry
  <1>6. HandleInv' BY <1>0 DEF TypeOK, HandleInv, One
  <1>7. PinForgotten'
    <2> SUFFICES ASSUME pinCache' = "off", NEW c \in pin' \ resetFailed'
                 PROVE \E d \in mu' : pc'[d] = "return" /\ cur'[d].cert = c
      BY DEF PinForgotten
    <2>1. CASE c = cur[cl].cert BY <1>0, <1>1, <2>1 DEF TypeOK
    <2>2. CASE c \in pin BY <1>0, <1>1, <2>2 DEF TypeOK, PinForgotten, MutexInv
    <2> QED BY <1>0, <2>1, <2>2
  <1> QED BY <1>2, <1>3, <1>4, <1>5, <1>6, <1>7

\* The deferred calls take back the PIN and the handle.
LEMMA SignReturnStep == ASSUME IInv, NEW cl \in Clients, SignReturn(cl) PROVE IInv'
  <1> USE DEF IInv, table, config
  <1>0. /\ UNCHANGED <<table, store, files, config, cache, req, cur, res, exited>>
        /\ pc[cl] = "return" /\ pc' = [pc EXCEPT ![cl] = "answered"]
        /\ handle' = [handle EXCEPT ![cl] = "none"]
        /\ owned' = IF handle[cl] = "owned" THEN owned - 1 ELSE owned
        /\ mu' = {}
    BY DEF SignReturn, ResetPIN, Unlock
  <1>1. cur[cl] \in [cert : Certs, alg : Algorithms] /\ mu = {cl}
    BY <1>0 DEF TypeOK, UseInv, UsingContext, MutexInv, Inside
  <1>2. TableInv' BY <1>0, TableKept
  <1>3. \A d \in Clients \ {cl} : handle[d] = "none"
    <2>1. \A d \in Clients : handle[d] # "none" => pc[d] \in {"crypt", "return"} BY DEF HandleInv
    <2>2. \A d \in Clients : pc[d] \in {"crypt", "return"} => d = cl BY <1>1 DEF MutexInv, Inside
    <2> QED BY <2>1, <2>2
  <1>4. owned' = 0
    <2>1. CASE handle[cl] = "owned"
      <3>1. owned = 1 BY <2>1 DEF HandleInv, One
      <3> QED BY <1>0, <2>1, <3>1
    <2>2. CASE handle[cl] # "owned"
      <3>1. ~ \E d \in Clients : handle[d] = "owned" BY <1>3, <2>2
      <3>2. owned = 0 BY <3>1 DEF HandleInv, One
      <3> QED BY <1>0, <2>2, <3>2
    <2> QED BY <2>1, <2>2
  <1>5. pin' \in SUBSET Certs /\ resetFailed' \in SUBSET Certs
    BY <1>1 DEF SignReturn, ResetPIN, TypeOK
  <1>6. TypeOK' BY <1>0, <1>4, <1>5 DEF TypeOK
  <1>7. MutexInv' BY <1>0, <1>1 DEF TypeOK, MutexInv, Inside
  <1>8. UseInv'
    <2>1. \A d \in Clients : UsingContext(d)' => UsingContext(d)
      BY <1>0 DEF TypeOK, UsingContext
    <2> QED BY <1>0, <2>1 DEF UseInv, Entry
  <1>9. HandleInv'
    <2>1. \A d \in Clients : handle'[d] = "none" BY <1>0, <1>3 DEF TypeOK
    <2>2. owned' = One(\E d \in Clients : handle'[d] = "owned") BY <1>4, <2>1 DEF One
    <2>3. \A d \in Clients : ~(pc'[d] \in {"crypt", "return"}) BY <1>0, <1>1 DEF TypeOK, MutexInv, Inside
    <2>4. \A c \in Certs : cache'[c] # "freed" BY <1>0 DEF HandleInv
    <2> QED BY <2>1, <2>2, <2>3, <2>4 DEF HandleInv
  <1>10. PinForgotten'
    <2> SUFFICES ASSUME pinCache = "off" PROVE pin' \ resetFailed' = {}
      BY <1>0 DEF PinForgotten
    <2>1. handle[cl] # "none" BY <1>0 DEF HandleInv
    <2>2. pin \ resetFailed \subseteq {cur[cl].cert} BY <1>1 DEF PinForgotten
    <2> QED BY <2>1, <2>2 DEF SignReturn, ResetPIN
  <1> QED BY <1>2, <1>6, <1>7, <1>8, <1>9, <1>10

\* Close runs with the mutex free and empties the table.
LEMMA CloseStep == ASSUME IInv, Close PROVE IInv'
  <1> USE DEF IInv, Close, config, call
  <1>1. refs' \in [Certs -> Nat] /\ \A c \in Certs : refs'[c] = lost[c]
    BY CloseBalance DEF TypeOK, ClosedRefs
  <1>2. cache' \in [Certs -> {"absent", "live", "freed"}] /\ \A c \in Certs : cache'[c] # "freed"
    BY DEF TypeOK, HandleInv, ClosedCache
  <1>3. loaded' \in BOOLEAN /\ exited' \in BOOLEAN BY Zenon
  <1>4. /\ UNCHANGED <<mu, lost, store, files, checkSvr, pinCache, pin, resetFailed, owned,
                      pc, req, cur, handle, res>>
        /\ keys' = {} /\ mu = {}
    BY DEF Free
  <1> HIDE DEF Close
  <1>5. TypeOK' BY <1>1, <1>2, <1>3, <1>4 DEF TypeOK
  <1>6. TableInv' BY <1>1, <1>4, NoneHeld DEF TypeOK, TableInv, ContextsAccounted
  <1>7. MutexInv' BY <1>4 DEF MutexInv
  <1>8. UseInv' BY <1>4 DEF UseInv, UsingContext, MutexInv, Inside
  <1>9. HandleInv' BY <1>2, <1>4 DEF HandleInv, One
  <1>10. PinForgotten' BY <1>4 DEF PinForgotten
  <1> QED BY <1>5, <1>6, <1>7, <1>8, <1>9, <1>10

\* The environment and stuttering leave the agent alone.
LEMMA OtherStep ==
  ASSUME IInv, StoreChange \/ FilesChange \/ UNCHANGED vars PROVE IInv'
  <1>1. UNCHANGED <<mu, loaded, keys, refs, lost, checkSvr, pinCache, pin, resetFailed, owned,
                    cache, pc, req, cur, handle, res, exited>>
    BY DEF StoreChange, FilesChange, vars, table, config, windows, call
  <1>2. store' \in SUBSET Certs /\ files' \in FileConfigs
    BY CapiAssumption DEF StoreChange, FilesChange, vars, IInv, TypeOK
  <1>3. TypeOK' BY <1>1, <1>2 DEF IInv, TypeOK
  <1>4. TableInv' BY <1>1, TableKept DEF IInv, table
  <1>5. MutexInv' /\ UseInv' BY <1>1 DEF IInv, MutexInv, UseInv, UsingContext, Entry
  <1>6. HandleInv' /\ PinForgotten' BY <1>1 DEF IInv, HandleInv, PinForgotten, One
  <1> QED BY <1>3, <1>4, <1>5, <1>6 DEF IInv

\* The invariant is inductive.
LEMMA IInvInvariant == Spec => []IInv
  <1>1. IInv /\ [Next]_vars => IInv'
    BY ClientStep, ListStep, LockStep, SignLoadStep, SignMatchStep, SignAcquireStep,
       SignCryptStep, SignReturnStep, CloseStep, OtherStep
       DEF Next, Operation, Acquiring, Signing, Terminated
  <1> QED BY <1>1, InitIInv, PTL DEF Spec

-----------------------------------------------------------------------------
(* The safety properties. *)

\* Every reachable state of the agent is well typed.
THEOREM TypeCorrect == Spec => []TypeOK
  <1>1. IInv => TypeOK BY DEF IInv
  <1> QED BY <1>1, IInvInvariant, PTL

\* No certificate context is freed twice, and none is leaked but by an
\* enumeration of the store that breaks off.
THEOREM ContextsSafe == Spec => []ContextsAccounted
  <1>1. IInv => ContextsAccounted BY DEF IInv, TableInv
  <1> QED BY <1>1, IInvInvariant, PTL

\* Sign never uses a certificate context that List or Close has freed.
THEOREM UseSafe == Spec => []NoUseAfterFree
  <1>1. IInv => NoUseAfterFree
    <2> SUFFICES ASSUME IInv, NEW cl \in Clients, UsingContext(cl)
                 PROVE refs[cur[cl].cert] > lost[cur[cl].cert]
      BY DEF NoUseAfterFree
    <2>1. PICK k \in Kinds : Entry(cur[cl].cert, k) \in keys BY DEF IInv, UseInv
    <2>2. cur[cl].cert \in Certs BY DEF IInv, UseInv
    <2>3. Held(keys, cur[cl].cert) > 0 BY <2>1 DEF Held, One, Kinds
    <2>4. Held(keys, cur[cl].cert) \in Nat BY DEF Held, One
    <2>5. lost[cur[cl].cert] \in Nat BY <2>2 DEF IInv, TypeOK
    <2> QED BY <2>2, <2>3, <2>4, <2>5 DEF IInv, TableInv, ContextsAccounted
  <1> QED BY <1>1, IInvInvariant, PTL

\* -disable-pin-cache keeps its promise on every path out of capi.Sign.
THEOREM PinSafe == Spec => []PinForgotten
  <1>1. IInv => PinForgotten BY DEF IInv
  <1> QED BY <1>1, IInvInvariant, PTL

\* Key handles are freed by their owner, once, before the mutex is.
THEOREM HandlesSafe == Spec => []HandlesReleased
  <1>1. IInv => HandlesReleased
    <2> SUFFICES ASSUME IInv PROVE HandlesReleased OBVIOUS
    <2>1. \A cl \in Clients : handle[cl] = "owned" => cl \in mu
      BY DEF IInv, HandleInv, MutexInv, Inside
    <2>2. Free => owned = 0 BY <2>1 DEF IInv, HandleInv, Free, One
    <2>3. owned = 1 => \E cl \in mu : handle[cl] = "owned" BY <2>1 DEF IInv, HandleInv, One
    <2> QED BY <2>2, <2>3 DEF IInv, HandleInv, HandlesReleased
  <1> QED BY <1>1, IInvInvariant, PTL

\* The mutex keeps the key table still while a signature is being made, across
\* the PIN prompt.
THEOREM TableSafe == Spec => TableFrozenWhileSigning
  <1> DEFINE Frozen == \A cl \in Clients : UsingContext(cl) => UNCHANGED <<loaded, keys, refs>>
  <1>1. IInv /\ [Next]_vars => [Frozen]_vars
    <2> SUFFICES ASSUME IInv, Next, NEW cl \in Clients, UsingContext(cl)
                 PROVE UNCHANGED <<loaded, keys, refs>>
      OBVIOUS
    <2>1. mu = {cl} BY DEF IInv, TypeOK, MutexInv, Inside, UsingContext
    <2>2. ASSUME NEW d \in Clients, Operation(d) PROVE UNCHANGED <<loaded, keys, refs>>
      <3>1. ~List(d) /\ ~SignLock(d) BY <2>1 DEF List, SignLock, Lock, Free
      <3>2. ~SignLoad(d)
        BY <2>1 DEF SignLoad, IInv, MutexInv, Inside, UsingContext
      <3> QED BY <2>2, <3>1, <3>2 DEF Operation, Acquiring, Signing, Call, Receive, SvcAnswer,
                 SignMatch, SignAcquire, AcquireKey, SignCrypt, SignReturn, table
    <2>3. ~Close BY <2>1 DEF Close, Free
    <2> QED BY <2>2, <2>3 DEF Next, StoreChange, FilesChange, Terminated, vars, table
  <1> QED BY <1>1, IInvInvariant, PTL DEF Spec, TableFrozenWhileSigning

-----------------------------------------------------------------------------
(* Signatures are what was asked for. *)

\* c may sign as alg for the request r.
Proper(c, alg, r) ==
  /\ Attr[c].private /\ FilterCertificateEKU(Attr[c].eku)
  /\ Attr[c].key = r.id.key
  /\ alg = AlgorithmFor(Attr[c].type, r.flags) /\ alg # "none"

\* Entries are made of certificates that may sign.
KeysProper == \A e \in keys : Attr[e.cert].private /\ FilterCertificateEKU(Attr[e.cert].eku)

\* The certificate in use and the signature at hand fit the request, and there
\* is a signature only between its making and its delivery.
ProperFor(cl) ==
  /\ UsingContext(cl) => Proper(cur[cl].cert, cur[cl].alg, req[cl])
  /\ res[cl].kind = "sig" => /\ pc[cl] \in {"return", "answered"}
                            /\ Proper(res[cl].cert, res[cl].alg, req[cl])

SigInv == KeysProper /\ \A cl \in Clients : ProperFor(cl)

\* loadCerts makes entries of such certificates only, whatever the store holds.
LEMMA LoadProper ==
  ASSUME NEW base, LoadOK(base) \/ LoadError(base) PROVE KeysProper'
  BY DEF LoadOK, LoadError, KeysProper, LoadedKeys, Kept, LoadUserCerts

\* A step of one client leaves the call of another one alone.
LEMMA OtherCalls ==
  ASSUME TypeOK, NEW cl \in Clients, Operation(cl), NEW d \in Clients \ {cl}, ProperFor(d)
  PROVE ProperFor(d)'
  <1>1. pc'[d] = pc[d]
    BY DEF TypeOK, Operation, Acquiring, Signing, Call, Receive, List, SignLock, SvcAnswer, SignLoad,
           SignMatch, SignAcquire, SignCrypt, SignReturn, Answer
  <1>2. req'[d] = req[d] /\ cur'[d] = cur[d]
    BY DEF TypeOK, Operation, Acquiring, Signing, Call, Receive, List, SignLock, SvcAnswer, SignLoad,
           SignMatch, SignAcquire, SignCrypt, SignReturn
  <1>3. res'[d] = res[d]
    BY DEF TypeOK, Operation, Acquiring, Signing, Call, Receive, List, SignLock, SvcAnswer, SignLoad,
           SignMatch, SignAcquire, SignCrypt, SignReturn, Answer
  <1> QED BY <1>1, <1>2, <1>3 DEF ProperFor, UsingContext, Proper

\* What the client's own step does to the key table: nothing, or a load.
LEMMA OperationKeys ==
  ASSUME KeysProper, NEW cl \in Clients, Operation(cl) PROVE KeysProper'
  <1>1. CASE keys' = keys BY <1>1 DEF KeysProper
  <1>2. CASE \E base : LoadOK(base) \/ LoadError(base) BY <1>2, LoadProper
  <1> QED BY <1>1, <1>2 DEF Operation, Acquiring, Signing, Call, Receive, List, SignLock, SvcAnswer,
             SignLoad, SignMatch, SignAcquire, SignCrypt, SignReturn, table

\* An answer that is no signature.
LEMMA NoSignature ==
  ASSUME NEW cl \in Clients, TypeOK, NEW r, r.kind # "sig", Answer(cl, r)
  PROVE ProperFor(cl)'
  BY DEF TypeOK, Answer, ProperFor, UsingContext

\* The client's own step.
LEMMA OwnCall ==
  ASSUME IInv, SigInv, NEW cl \in Clients, Operation(cl) PROVE ProperFor(cl)'
  <1> USE DEF IInv
  <1>1. ProperFor(cl) /\ KeysProper BY DEF SigInv
  <1>2. CASE Call(cl) \/ Receive(cl)
    <2>1. pc'[cl] \in {"wait", "idle"} /\ res'[cl].kind # "sig"
      BY <1>1, <1>2 DEF Call, Receive, TypeOK, ProperFor, Nothing
    <2> QED BY <2>1 DEF ProperFor, UsingContext
  <1>3. CASE List(cl)
    <2>1. PICK r : r.kind # "sig" /\ Answer(cl, r) BY <1>3 DEF List, Error
    <2> QED BY <2>1, NoSignature
  <1>4. CASE SignLock(cl) \/ SvcAnswer(cl)
    <2>1. pc[cl] \in {"wait", "svcPrompt"} /\ pc'[cl] \in {"svcPrompt", "find"} /\ res' = res
      BY <1>4 DEF SignLock, SvcAnswer, TypeOK
    <2> QED BY <1>1, <2>1 DEF ProperFor, UsingContext
  <1>5. CASE SignLoad(cl)
    <2>1. \/ Answer(cl, Error)
          \/ pc[cl] = "find" /\ pc'[cl] = "match" /\ res' = res
      BY <1>5 DEF SignLoad, TypeOK
    <2> QED BY <1>1, <2>1, NoSignature DEF ProperFor, UsingContext, Error
  <1>6. CASE SignMatch(cl)
    <2>1. CASE Answer(cl, Error) BY <2>1, NoSignature DEF Error
    <2>2. CASE ~Answer(cl, Error)
      <3>1. PICK e \in Matches(cl) :
              /\ AlgorithmFor(Attr[e.cert].type, req[cl].flags) # "none"
              /\ cur' = [cur EXCEPT ![cl] =
                           [cert |-> e.cert, alg |-> AlgorithmFor(Attr[e.cert].type, req[cl].flags)]]
              /\ pc' = [pc EXCEPT ![cl] = "acquire"] /\ res' = res
        BY <1>6, <2>2 DEF SignMatch
      <3>2. req' = req /\ pc[cl] = "match" BY <1>6 DEF SignMatch
      <3>3. res'[cl].kind # "sig" BY <1>1, <3>1, <3>2 DEF ProperFor
      <3>4. e \in keys /\ Attr[e.cert].key = req[cl].id.key BY DEF Matches, IdOf
      <3>5. cur'[cl] = [cert |-> e.cert, alg |-> AlgorithmFor(Attr[e.cert].type, req[cl].flags)]
        BY <3>1 DEF TypeOK
      <3>6. Proper(e.cert, AlgorithmFor(Attr[e.cert].type, req[cl].flags), req[cl])
        BY <1>1, <3>1, <3>4 DEF Proper, KeysProper
      <3>7. Proper(cur[cl].cert, cur[cl].alg, req[cl])' BY <3>2, <3>5, <3>6 DEF Proper
      <3> QED BY <3>3, <3>7 DEF ProperFor
    <2> QED BY <2>1, <2>2
  <1>7. CASE SignAcquire(cl)
    <2>1. \/ Answer(cl, Error)
          \/ pc[cl] = "acquire" /\ pc'[cl] = "crypt" /\ res' = res
      BY <1>7 DEF SignAcquire, TypeOK
    <2>2. req' = req /\ cur' = cur BY <1>7 DEF SignAcquire
    <2> QED BY <1>1, <2>1, <2>2, NoSignature DEF ProperFor, UsingContext, Error, Proper
  <1>8. CASE SignCrypt(cl)
    <2>1. pc[cl] = "crypt" /\ pc'[cl] = "return" /\ req' = req /\ cur' = cur
      BY <1>8 DEF SignCrypt, TypeOK
    <2>2. res'[cl] \in SignerResults(cur[cl]) BY <1>8 DEF SignCrypt, SignerResults, TypeOK
    <2>3. Proper(cur[cl].cert, cur[cl].alg, req[cl]) BY <1>1, <2>1 DEF ProperFor, UsingContext
    <2>4. res'[cl].kind = "sig" => res'[cl].cert = cur[cl].cert /\ res'[cl].alg = cur[cl].alg
      BY <2>2 DEF SignerResults, Error
    <2> QED BY <2>1, <2>3, <2>4 DEF ProperFor, UsingContext, Proper
  <1>9. CASE SignReturn(cl)
    <2>1. pc[cl] = "return" /\ pc'[cl] = "answered" /\ req' = req /\ res' = res
      BY <1>9 DEF SignReturn, TypeOK
    <2> QED BY <1>1, <2>1 DEF ProperFor, UsingContext, Proper
  <1> QED BY <1>2, <1>3, <1>4, <1>5, <1>6, <1>7, <1>8, <1>9 DEF Operation, Acquiring, Signing

\* Every step keeps what is said about signatures.
LEMMA SigStep == ASSUME IInv, SigInv, [Next]_vars PROVE SigInv'
  <1>1. ASSUME NEW cl \in Clients, Operation(cl) PROVE SigInv'
    <2>1. KeysProper' BY <1>1, OperationKeys DEF SigInv
    <2>2. \A d \in Clients \ {cl} : ProperFor(d)' BY <1>1, OtherCalls DEF SigInv, IInv
    <2>3. ProperFor(cl)' BY <1>1, OwnCall
    <2> QED BY <2>1, <2>2, <2>3 DEF SigInv
  <1>2. CASE Close \/ StoreChange \/ FilesChange \/ UNCHANGED vars
    <2>1. keys' \subseteq keys /\ UNCHANGED <<pc, req, cur, res>>
      BY <1>2 DEF Close, StoreChange, FilesChange, vars, table, call
    <2> QED BY <2>1 DEF SigInv, KeysProper, ProperFor, UsingContext, Proper
  <1> QED BY <1>1, <1>2 DEF Next, Terminated

\* A certificate usable for signing has a usage besides disk encryption and
\* servers, or none at all.
LEMMA UsagesProper ==
  ASSUME NEW eku, FilterCertificateEKU(eku), eku \subseteq {"bitLocker", "efs", "serverAuth"}
  PROVE eku = {}
  BY DEF FilterCertificateEKU

\* Whatever the clients do at the same time, a signature is made with the key
\* and in the algorithm of the request it answers, by a certificate that is
\* meant for signing in.
THEOREM SignaturesProper == Spec => []SignatureMatchesRequest
  <1>1. Init => SigInv
    BY DEF Init, SigInv, KeysProper, ProperFor, UsingContext, Nothing
  <1>2. SigInv => SignatureMatchesRequest
    <2> SUFFICES ASSUME SigInv, NEW cl \in Clients, res[cl].kind = "sig"
                 PROVE /\ Attr[res[cl].cert].private
                       /\ Attr[res[cl].cert].key = req[cl].id.key
                       /\ res[cl].alg = CASE req[cl].flags = 0 ->
                                               IF Attr[res[cl].cert].type = "rsa" THEN "ssh-rsa" ELSE "ecdsa"
                                          [] req[cl].flags = 2 -> "rsa-sha2-256"
                                          [] req[cl].flags = 4 -> "rsa-sha2-512"
                                          [] OTHER             -> "none"
                       /\ Attr[res[cl].cert].eku \subseteq {"bitLocker", "efs", "serverAuth"}
                            => Attr[res[cl].cert].eku = {}
      BY DEF SignatureMatchesRequest
    <2>1. Proper(res[cl].cert, res[cl].alg, req[cl]) BY DEF SigInv, ProperFor
    <2> QED BY <2>1, UsagesProper DEF Proper, AlgorithmFor, RsaAlgorithm
  <1> QED BY <1>1, <1>2, SigStep, IInvInvariant, PTL DEF Spec
=============================================================================
