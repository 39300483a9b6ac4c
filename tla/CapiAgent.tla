----------------------------- MODULE CapiAgent -----------------------------
(***************************************************************************)
(* CAPIAgent (sshagent/capi_agent.go): the agent over the Windows          *)
(* certificate store.  One mutex guards a table of keys that List throws   *)
(* away and reloads and that Sign reads; every entry of the table owns a   *)
(* counted reference to a certificate context (capi/wincapi.go).  Sign     *)
(* keeps the mutex across the prompts Windows shows: the question whether  *)
(* to start the smart card service, and the PIN of the card.               *)
(*                                                                         *)
(* Windows is external: the store, the *-cert.pub files of the profile     *)
(* folder, reference counts, the PIN cache and key handles are modelled by *)
(* what the code is told of them.  A call of theirs that succeeds is taken *)
(* to leave no last error behind.                                          *)
(***************************************************************************)
EXTENDS Naturals

CONSTANTS
  Clients,      \* connections being served, each one request at a time
  Certs,        \* certificates that may be in the store
  Keys,         \* public keys
  Attr,         \* what is fixed about a certificate, see CertAttributes
  StoreConfigs, \* bound: the contents the store may have
  FileConfigs,  \* bound: the *-cert.pub files there may be
  FlagValues,   \* bound: signature flags that clients send
  MaxLost       \* bound: contexts lost to failed enumerations, per certificate

EKUs == {"any", "clientAuth", "serverAuth", "smartCardLogon", "bitLocker", "efs", "unrelated"}
CertAttributes == [key : Keys, type : {"rsa", "ecdsa", "other"},
                   eku : SUBSET EKUs, private : BOOLEAN]
\* "unusable": cannot be read or is no certificate; "otherKey": certifies another key.
FileStates == {"absent", "unusable", "otherKey", "matching"}

ASSUME CapiAssumption ==
  /\ Attr \in [Certs -> CertAttributes]
  /\ StoreConfigs \subseteq SUBSET Certs
  /\ FileConfigs \subseteq [Certs -> [serial : FileStates, cn : FileStates]]
  /\ FlagValues \subseteq Nat
  /\ MaxLost \in Nat

VARIABLES
  mu,           \* {} or the one client that holds CAPIAgent.mu
  loaded,       \* keys # nil
  keys,         \* the entries of CAPIAgent.keys
  refs,         \* references to contexts of each certificate the process owns
  lost,         \* those of them that no variable of the program points to any more
  store, files, \* the environment of LoadUserCerts and of loadCertFile
  checkSvr,     \* KB_CHECKSVR=1
  pinCache,     \* "off" iff capi.disablePINCache
  pin,          \* certificates whose PIN Windows has cached
  resetFailed,  \* certificates for which resetting NCRYPT_PIN_PROPERTY failed last time
  owned,        \* NCrypt handles the process has yet to pass to NCryptFreeObject
  cache,        \* the handle CRYPT_ACQUIRE_CACHE_FLAG keeps with the context
  pc, req, cur, handle, res,  \* per client: the call in progress
  exited        \* main has returned

table == <<loaded, keys, refs, lost>>
windows == <<pin, resetFailed, owned, cache>>
config == <<checkSvr, pinCache>>
call == <<pc, req, cur, handle, res>>
vars == <<mu, loaded, keys, refs, lost, store, files, checkSvr, pinCache, pin, resetFailed,
          owned, cache, pc, req, cur, handle, res, exited>>

Kinds == {"plain", "ssh"}
Entries == [cert : Certs, kind : Kinds]
Ids == [key : Keys, kind : Kinds]
Algorithms == {"ssh-rsa", "rsa-sha2-256", "rsa-sha2-512", "ecdsa"}
Requests == [op : {"list"}] \cup [op : {"sign"}, id : Ids, flags : FlagValues]
Results == [kind : {"none", "err", "nil"}] \cup [kind : {"keys"}, ids : SUBSET Ids]
           \cup [kind : {"sig"}, cert : Certs, alg : Algorithms]
Jobs == [cert : Certs, alg : Algorithms] \cup {<<>>}
Free == mu = {}

TypeOK ==
  /\ mu \in SUBSET Clients
  /\ loaded \in BOOLEAN /\ keys \in SUBSET Entries
  /\ refs \in [Certs -> Nat] /\ lost \in [Certs -> Nat]
  /\ store \in SUBSET Certs /\ files \in FileConfigs
  /\ checkSvr \in BOOLEAN /\ pinCache \in {"on", "off"}
  /\ pin \in SUBSET Certs /\ resetFailed \in SUBSET Certs
  /\ owned \in Nat
  /\ cache \in [Certs -> {"absent", "live", "freed"}]
  /\ pc \in [Clients -> {"idle", "wait", "svcPrompt", "find", "match", "acquire",
                         "crypt", "return", "answered"}]
  /\ req \in [Clients -> Requests \cup {<<>>}]
  /\ cur \in [Clients -> Jobs]
  /\ handle \in [Clients -> {"none", "owned", "borrowed"}]
  /\ res \in [Clients -> Results]
  /\ exited \in BOOLEAN

Nothing == [kind |-> "none"]
Error == [kind |-> "err"]

Init ==
  /\ mu = {}
  /\ loaded = FALSE /\ keys = {}
  /\ refs = [c \in Certs |-> 0] /\ lost = [c \in Certs |-> 0]
  /\ store \in StoreConfigs /\ files \in FileConfigs
  /\ checkSvr \in BOOLEAN /\ pinCache \in {"on", "off"}
  /\ pin = {} /\ resetFailed = {}
  /\ owned = 0
  /\ cache = [c \in Certs |-> "absent"]
  /\ pc = [cl \in Clients |-> "idle"]
  /\ req = [cl \in Clients |-> <<>>]
  /\ cur = [cl \in Clients |-> <<>>]
  /\ handle = [cl \in Clients |-> "none"]
  /\ res = [cl \in Clients |-> Nothing]
  /\ exited = FALSE

-----------------------------------------------------------------------------
(* The key table. *)

One(b) == IF b THEN 1 ELSE 0
Entry(c, kind) == [cert |-> c, kind |-> kind]
IdOf(e) == [key |-> Attr[e.cert].key, kind |-> e.kind]

\* References the entries of ks own.
Held(ks, c) == One(Entry(c, "plain") \in ks) + One(Entry(c, "ssh") \in ks)

FilterCertificateEKU(eku) ==
  \/ eku \cap {"any", "clientAuth", "smartCardLogon"} # {}
  \/ eku \cap {"bitLocker", "efs", "serverAuth"} = {}

\* LoadUserCerts skips certificates without a private key or that do not parse.
LoadUserCerts == {c \in store : Attr[c].private}

\* A certificate loadCerts makes a signer of; it frees the others.
Kept(c) ==
  /\ c \in LoadUserCerts
  /\ FilterCertificateEKU(Attr[c].eku)
  /\ Attr[c].type \in {"rsa", "ecdsa"}

\* loadSSHCertificate: the file named after the serial number if it can be
\* loaded, else the one named after the common name; ssh.NewCertSigner then
\* refuses a certificate for another key.
LoadSSHCertificate(c) ==
  LET found == IF files[c].serial \in {"absent", "unusable"}
               THEN files[c].cn ELSE files[c].serial
  IN found = "matching"

\* The table after a successful loadCerts.
LoadedKeys ==
  {e \in Entries : Kept(e.cert) /\ (e.kind = "plain" \/ LoadSSHCertificate(e.cert))}

\* Mutant: the entry of an SSH certificate shares the context of the plain one.
LoadedRefs_NoCopy(base) ==
  [c \in Certs |-> base[c] + One(c \in LoadUserCerts) - One(c \in LoadUserCerts /\ ~Kept(c))]

\* References after loadCerts: one duplicated for each certificate enumerated,
\* those of the rejected ones freed again, one more copied for an SSH certificate.
LoadedRefs(base) ==
  [c \in Certs |-> base[c] + One(c \in LoadUserCerts)
                   - One(c \in LoadUserCerts /\ ~Kept(c))
                   + One(Kept(c) /\ LoadSSHCertificate(c))]

LoadOK(base) ==
  /\ loaded' = TRUE
  /\ keys' = LoadedKeys
  /\ refs' = LoadedRefs(base)
  /\ UNCHANGED lost

\* capi.LoadUserCerts fails: the store does not open (abandoned = {}), or the
\* enumeration breaks off and the contexts duplicated so far are never freed.
LoadError(base) ==
  \E abandoned \in SUBSET LoadUserCerts :
    /\ \A c \in abandoned : lost[c] < MaxLost
    /\ loaded' = FALSE
    /\ keys' = {}
    /\ refs' = [c \in Certs |-> base[c] + One(c \in abandoned)]
    /\ lost' = [c \in Certs |-> lost[c] + One(c \in abandoned)]

\* close(): every entry frees its context, and with its last reference a
\* context drops the key handle cached with it.
ClosedRefs == [c \in Certs |-> refs[c] - Held(keys, c)]
ClosedCache ==
  [c \in Certs |-> IF Held(keys, c) > 0 THEN "absent" ELSE cache[c]]

Unlock == mu' = {}
Answer(cl, r) ==
  /\ pc' = [pc EXCEPT ![cl] = "answered"]
  /\ res' = [res EXCEPT ![cl] = r]

-----------------------------------------------------------------------------
(* Operations. *)

\* A client sends its next request.
Call(cl) ==
  /\ ~exited /\ pc[cl] = "idle"
  /\ \E r \in Requests : req' = [req EXCEPT ![cl] = r]
  /\ pc' = [pc EXCEPT ![cl] = "wait"]
  /\ UNCHANGED <<mu, table, store, files, config, windows, cur, handle, res, exited>>

\* The client has its answer.
Receive(cl) ==
  /\ ~exited /\ pc[cl] = "answered"
  /\ pc' = [pc EXCEPT ![cl] = "idle"]
  /\ req' = [req EXCEPT ![cl] = <<>>]
  /\ cur' = [cur EXCEPT ![cl] = <<>>]
  /\ res' = [res EXCEPT ![cl] = Nothing]
  /\ UNCHANGED <<mu, table, store, files, config, windows, handle, exited>>

\* Mutant: List and Sign do not wait for the mutex.
Lock_None(cl) == TRUE

Lock(cl) == Free

\* List holds the mutex from start to end and shows no prompt.
List(cl) ==
  /\ ~exited /\ pc[cl] = "wait" /\ req[cl].op = "list"
  /\ Lock(cl)
  /\ cache' = ClosedCache
  /\ \/ /\ LoadOK(ClosedRefs)
        /\ Answer(cl, [kind |-> "keys", ids |-> {IdOf(e) : e \in LoadedKeys}])
     \/ /\ LoadError(ClosedRefs)
        /\ Answer(cl, Error)
  /\ UNCHANGED <<mu, store, files, config, pin, resetFailed, owned, req, cur, handle, exited>>

\* SignWithFlags up to the question of KB_CHECKSVR, asked when the smart card
\* service is known to be stopped.
SignLock(cl) ==
  /\ ~exited /\ pc[cl] = "wait" /\ req[cl].op = "sign"
  /\ Lock(cl)
  /\ mu' = {cl}
  /\ \/ checkSvr /\ pc' = [pc EXCEPT ![cl] = "svcPrompt"]
     \/ pc' = [pc EXCEPT ![cl] = "find"]
  /\ UNCHANGED <<table, store, files, config, windows, req, cur, handle, res, exited>>

\* The user answers; either answer goes on to sign.
SvcAnswer(cl) ==
  /\ ~exited /\ pc[cl] = "svcPrompt"
  /\ pc' = [pc EXCEPT ![cl] = "find"]
  /\ UNCHANGED <<mu, table, store, files, config, windows, req, cur, handle, res, exited>>

\* Mutant: the return on a failed load leaves the mutex locked.
SignLoad_NoUnlock(cl) ==
  /\ ~exited /\ pc[cl] = "find"
  /\ \/ /\ loaded
        /\ pc' = [pc EXCEPT ![cl] = "match"]
        /\ UNCHANGED <<table, res>>
     \/ /\ ~loaded
        /\ LoadOK(refs)
        /\ pc' = [pc EXCEPT ![cl] = "match"]
        /\ UNCHANGED res
     \/ /\ ~loaded
        /\ LoadError(refs)
        /\ Answer(cl, Error)
  /\ UNCHANGED <<mu, store, files, config, windows, req, cur, handle, exited>>

\* Certificates are loaded only if no List or Sign has done so before.
SignLoad(cl) ==
  /\ ~exited /\ pc[cl] = "find"
  /\ \/ /\ loaded
        /\ pc' = [pc EXCEPT ![cl] = "match"]
        /\ UNCHANGED <<mu, table, res>>
     \/ /\ ~loaded
        /\ LoadOK(refs)
        /\ pc' = [pc EXCEPT ![cl] = "match"]
        /\ UNCHANGED <<mu, res>>
     \/ /\ ~loaded
        /\ LoadError(refs)
        /\ Answer(cl, Error)
        /\ Unlock
  /\ UNCHANGED <<store, files, config, windows, req, cur, handle, exited>>

\* Mutant: every flag means SHA-256.
AlgorithmFor_OneHash(type, flags) ==
  CASE type = "rsa" /\ flags = 0      -> "ssh-rsa"
    [] type = "rsa" /\ flags # 0      -> "rsa-sha2-256"
    [] type = "ecdsa" /\ flags = 0    -> "ecdsa"
    [] OTHER                          -> "none"

\* rsaSigner: the algorithm of the signature for the flags it was called with.
RsaAlgorithm(flags) ==
  CASE flags = 0 -> "ssh-rsa"
    [] flags = 2 -> "rsa-sha2-256"
    [] flags = 4 -> "rsa-sha2-512"
    [] OTHER     -> "none"

\* The algorithm SignWithFlags and the signer of the key arrive at, or "none":
\* only RSA signers take flags, and of those only the two SHA-2 ones.
AlgorithmFor(type, flags) ==
  CASE type = "rsa"                -> RsaAlgorithm(flags)
    [] type = "ecdsa" /\ flags = 0 -> "ecdsa"
    [] OTHER                       -> "none"

\* The first entry whose public key is the wanted one; the order is that of
\* the store, which is not specified.
Matches(cl) == {e \in keys : IdOf(e) = req[cl].id}

SignMatch(cl) ==
  /\ ~exited /\ pc[cl] = "match"
  /\ \/ \E e \in Matches(cl) :
          LET alg == AlgorithmFor(Attr[e.cert].type, req[cl].flags)
          IN /\ alg # "none"
             /\ cur' = [cur EXCEPT ![cl] = [cert |-> e.cert, alg |-> alg]]
             /\ pc' = [pc EXCEPT ![cl] = "acquire"]
             /\ UNCHANGED <<mu, res>>
     \/ /\ \/ Matches(cl) = {}
           \/ \E e \in Matches(cl) : AlgorithmFor(Attr[e.cert].type, req[cl].flags) = "none"
        /\ Answer(cl, Error)
        /\ Unlock
        /\ UNCHANGED cur
  /\ UNCHANGED <<table, store, files, config, windows, req, handle, exited>>

\* cryptAcquireCertificatePrivateKey succeeds.  CryptoAPI hands out the handle it
\* keeps with the context, or one that is the caller's to free.
AcquireKey(cl, c) ==
  \/ /\ handle' = [handle EXCEPT ![cl] = "borrowed"]
     /\ cache' = [cache EXCEPT ![c] = "live"]
     /\ UNCHANGED owned
  \/ /\ cache[c] = "absent"
     /\ handle' = [handle EXCEPT ![cl] = "owned"]
     /\ owned' = owned + 1
     /\ UNCHANGED cache

\* capi.Sign up to CryptSignMessage: with -disable-pin-cache a key handle is
\* acquired first.
SignAcquire(cl) ==
  /\ ~exited /\ pc[cl] = "acquire"
  /\ \/ /\ pinCache = "on"
        /\ pc' = [pc EXCEPT ![cl] = "crypt"]
        /\ UNCHANGED <<mu, res, handle, owned, cache>>
     \/ /\ pinCache = "off"
        /\ pc' = [pc EXCEPT ![cl] = "crypt"]
        /\ AcquireKey(cl, cur[cl].cert)
        /\ UNCHANGED <<mu, res>>
     \/ /\ pinCache = "off"
        /\ Answer(cl, Error)
        /\ Unlock
        /\ UNCHANGED <<handle, owned, cache>>
  /\ UNCHANGED <<table, store, files, config, pin, resetFailed, req, cur, exited>>

\* cryptSignMessage: the user is asked for the PIN unless Windows has it;
\* signing may fail after that, or before.
CryptSignMessage(c, ok) == pin' \in {pin \cup {c}} \cup (IF ok THEN {} ELSE {pin})

\* What the signers of rsa.go and ecdsa.go make of a signed message: one without
\* a signer gives nil, nil, and one that does not parse an error.
SignerResults(job) ==
  {[kind |-> "sig", cert |-> job.cert, alg |-> job.alg], [kind |-> "nil"], Error}

SignCrypt(cl) ==
  /\ ~exited /\ pc[cl] = "crypt"
  /\ \E ok \in BOOLEAN :
       /\ CryptSignMessage(cur[cl].cert, ok)
       /\ \E r \in IF ok THEN SignerResults(cur[cl]) ELSE {Error} : res' = [res EXCEPT ![cl] = r]
  /\ pc' = [pc EXCEPT ![cl] = "return"]
  /\ UNCHANGED <<mu, table, store, files, config, resetFailed, owned, cache, req, cur, handle, exited>>

\* Mutant: the PIN is reset only after a successful signature.
SignReturn_ResetOnSuccess(cl) ==
  /\ ~exited /\ pc[cl] = "return"
  /\ \/ /\ handle[cl] # "none" /\ res[cl].kind = "sig"
        /\ pin' = pin \ {cur[cl].cert} /\ resetFailed' = resetFailed \ {cur[cl].cert}
     \/ ~(handle[cl] # "none" /\ res[cl].kind = "sig") /\ UNCHANGED <<pin, resetFailed>>
  /\ owned' = IF handle[cl] = "owned" THEN owned - 1 ELSE owned
  /\ handle' = [handle EXCEPT ![cl] = "none"]
  /\ pc' = [pc EXCEPT ![cl] = "answered"]
  /\ Unlock
  /\ UNCHANGED <<table, store, files, config, cache, req, cur, res, exited>>

\* Mutant: NCryptFreeObject is called on every handle, CryptoAPI's own included.
SignReturn_FreeBorrowed(cl) ==
  /\ ~exited /\ pc[cl] = "return"
  /\ cache' = IF handle[cl] = "borrowed"
              THEN [cache EXCEPT ![cur[cl].cert] = "freed"] ELSE cache
  /\ owned' = IF handle[cl] = "owned" THEN owned - 1 ELSE owned
  /\ handle' = [handle EXCEPT ![cl] = "none"]
  /\ pc' = [pc EXCEPT ![cl] = "answered"]
  /\ Unlock
  /\ UNCHANGED <<table, store, files, config, pin, resetFailed, req, cur, res, exited>>

\* Mutant: a handle is given back whether or not one was acquired.
SignReturn_AlwaysFree(cl) ==
  /\ ~exited /\ pc[cl] = "return"
  /\ owned' = owned - 1
  /\ handle' = [handle EXCEPT ![cl] = "none"]
  /\ pc' = [pc EXCEPT ![cl] = "answered"]
  /\ Unlock
  /\ UNCHANGED <<table, store, files, config, pin, resetFailed, cache, req, cur, res, exited>>

\* nCryptSetPropertyString with an empty NCRYPT_PIN_PROPERTY; a failure is
\* printed and nothing else.
ResetPIN(c) ==
  \/ pin' = pin \ {c} /\ resetFailed' = resetFailed \ {c}
  \/ resetFailed' = resetFailed \cup {c} /\ UNCHANGED pin

\* The deferred calls of capi.Sign and of SignWithFlags: forget the PIN, free
\* the handle if it is the caller's to free, unlock.
SignReturn(cl) ==
  /\ ~exited /\ pc[cl] = "return"
  /\ LET c == cur[cl].cert
     IN \/ /\ handle[cl] = "none"
           /\ UNCHANGED <<pin, resetFailed>>
        \/ /\ handle[cl] # "none"
           /\ ResetPIN(c)
  /\ owned' = IF handle[cl] = "owned" THEN owned - 1 ELSE owned
  /\ handle' = [handle EXCEPT ![cl] = "none"]
  /\ pc' = [pc EXCEPT ![cl] = "answered"]
  /\ Unlock
  /\ UNCHANGED <<table, store, files, config, cache, req, cur, res, exited>>

\* main's deferred Close, after which the process is gone.
Close ==
  /\ ~exited
  /\ Free
  /\ refs' = ClosedRefs
  /\ cache' = ClosedCache
  /\ keys' = {}
  /\ loaded' = FALSE
  /\ exited' = TRUE
  /\ UNCHANGED <<mu, lost, store, files, config, pin, resetFailed, owned, call>>

\* Cards are inserted and removed, files come and go.
StoreChange ==
  /\ ~exited
  /\ store' \in StoreConfigs \ {store}
  /\ UNCHANGED <<mu, table, files, config, windows, call, exited>>

FilesChange ==
  /\ ~exited
  /\ files' \in FileConfigs \ {files}
  /\ UNCHANGED <<mu, table, store, config, windows, call, exited>>

Terminated == exited /\ UNCHANGED vars

-----------------------------------------------------------------------------
Signing(cl) == SvcAnswer(cl) \/ SignLoad(cl) \/ SignMatch(cl) \/ SignAcquire(cl)
               \/ SignCrypt(cl) \/ SignReturn(cl)
Acquiring(cl) == List(cl) \/ SignLock(cl)
Operation(cl) == Call(cl) \/ Receive(cl) \/ Acquiring(cl) \/ Signing(cl)

Next == (\E cl \in Clients : Operation(cl)) \/ Close \/ StoreChange \/ FilesChange \/ Terminated

Spec == Init /\ [][Next]_vars

(***************************************************************************)
(* Fairness: a goroutine inside the mutex goes on, the user answers the    *)
(* prompts, and sync.Mutex hands itself to a waiter that has waited for    *)
(* long (its starvation mode), hence strong fairness of the lock.          *)
(***************************************************************************)
Fairness ==
  \A cl \in Clients : WF_vars(Signing(cl)) /\ SF_vars(Acquiring(cl))

FairSpec == Spec /\ Fairness
-----------------------------------------------------------------------------
(* Properties. *)

UsingContext(cl) == pc[cl] \in {"acquire", "crypt", "return"}

\* Every reference to a certificate context is owned by exactly one entry of
\* the table, through reloads, rejected certificates, copies for SSH
\* certificates and failed loads; none is freed twice and none but those of a
\* broken-off enumeration is forgotten.
ContextsAccounted == \A c \in Certs : refs[c] = Held(keys, c) + lost[c]

\* A signer whose entry is being used still has its certificate context: no
\* List or Close of another connection frees it across the prompts.
NoUseAfterFree ==
  \A cl \in Clients : UsingContext(cl) => refs[cur[cl].cert] > lost[cur[cl].cert]

\* -disable-pin-cache: outside of a signature in progress Windows remembers no
\* PIN, whichever way the signature ended, unless resetting it failed.
PinForgotten ==
  pinCache = "off" => \A c \in pin \ resetFailed :
                   \E cl \in mu : pc[cl] = "return" /\ cur[cl].cert = c

\* Key handles that are the caller's are freed exactly once, by the time the
\* mutex is free, and handles that CryptoAPI caches never.
HandlesReleased ==
  /\ \A c \in Certs : cache[c] # "freed"
  /\ Free => owned = 0
  /\ owned = 1 => \E cl \in mu : handle[cl] = "owned"

\* A signature is made with the key that was asked for, in the algorithm the
\* flags ask for, and never with a certificate whose key usages are only for
\* disk encryption or servers.
SignatureMatchesRequest ==
  \A cl \in Clients : res[cl].kind = "sig" =>
    LET a == Attr[res[cl].cert]
    IN /\ a.private /\ a.key = req[cl].id.key
       /\ res[cl].alg = CASE req[cl].flags = 0 -> IF a.type = "rsa" THEN "ssh-rsa" ELSE "ecdsa"
                          [] req[cl].flags = 2 -> "rsa-sha2-256"
                          [] req[cl].flags = 4 -> "rsa-sha2-512"
                          [] OTHER             -> "none"
       /\ a.eku \subseteq {"bitLocker", "efs", "serverAuth"} => a.eku = {}

\* While a client signs, from the match to the deferred calls, no step of any
\* client or of main's Close changes the key table or the references it holds:
\* the certificate in use stays the one that was matched.
TableFrozenWhileSigning ==
  [][\A cl \in Clients : UsingContext(cl) => UNCHANGED <<loaded, keys, refs>>]_vars

\* Every request is answered, whoever else keeps asking, unless the process
\* ends: the mutex is given back on every path.
RequestsAnswered ==
  \A cl \in Clients : pc[cl] = "wait" ~> (pc[cl] = "answered" \/ exited)
=============================================================================
