------------------------------- MODULE Agents -------------------------------
(***************************************************************************)
(* What every connection talks to: WrappedAgent (sshagent/wrapped_agent.go)*)
(* over the KeyRingAgent (sshagent/keyring_agent.go) and the CAPIAgent,    *)
(* with -disable-capi the KeyRingAgent alone, or inside a Hyper-V guest    *)
(* the HVAgent (sshagent/hyperv.go), which asks the host.  None of them    *)
(* locks anything: a request is a series of calls on agents that guard     *)
(* only themselves, and requests of other connections come in between.     *)
(*                                                                         *)
(* External: the keyring of x/crypto, a set of keys that is locked as a    *)
(* whole.  The CAPIAgent (CapiAgent is its model) is reduced to the table  *)
(* it keeps: its mutex makes each call on it one step.  So is each call on *)
(* the KeyBridge of the host, of which only the answers are known.         *)
(***************************************************************************)
EXTENDS Naturals

CONSTANTS
  Clients,    \* connections, each with one request at a time
  Keys,
  RsaKeys,    \* those of type RSA, the only ones signature flags apply to
  CertKeys,   \* those the certificate store, or the host, may hold
  Comments,   \* comments keys are added with
  FlagValues, \* signature flags that clients send
  Fallback    \* what findKeyComment returns of a key it does not find

ASSUME AgentsAssumption ==
  /\ RsaKeys \subseteq Keys /\ CertKeys \subseteq Keys
  /\ FlagValues \subseteq Nat
  /\ Fallback \notin Comments

VARIABLES
  backend,    \* "wrapped", "keyring" for -disable-capi, "hv" in a guest
  ring,       \* the keys of the keyring
  locked,     \* the keyring is locked
  certs,      \* keys of the certificates in the store; in a guest, those the host lists
  table,      \* CAPIAgent.keys, a copy of the store, or NoTable for nil
  pc, req,    \* per client: where its request is, and what it asks for
  got,        \* per client: List's allKeys so far
  comment,    \* per client: the result of findKeyComment
  refused,    \* per client: the agents that failed it, firstError being the ring's if it did
  res,        \* per client: the answer
  note,       \* per client: the notification its request has shown
  hist,       \* per client: what was true during its request, see Track
  since       \* what was in the store at some time since it was last listed, see Track

call == <<pc, req, got, comment, refused, res, note>>
state == <<backend, ring, locked, certs, table>>
vars == <<backend, ring, locked, certs, table, pc, req, got, comment, refused, res, note,
          hist, since>>

Entries == [key : Keys, comment : Comments]
Agent == {"ring", "capi", "host"}
Backends == {"wrapped", "keyring", "hv"}
Requests ==
  [op : {"list", "removeAll", "lock", "extension"}]
  \cup [op : {"unlock"}, right : BOOLEAN]
  \cup [op : {"sign"}, key : Keys, flags : FlagValues]
  \cup [op : {"add"}, key : Keys, comment : Comments]
  \cup [op : {"remove"}, key : Keys]
Results == [kind : {"none", "ok", "err"}] \cup [kind : {"keys"}, keys : SUBSET Keys]
           \cup [kind : {"sig"}, from : Agent, flags : Nat]
Notes == [kind : {"none", "allRemoved"}]
         \cup [kind : {"signed", "added", "removed"}, comment : Comments \cup {Fallback}]
Nothing == [kind |-> "none"]
NoRequest == [op |-> "none"]
Error == [kind |-> "err"]
Done == [kind |-> "ok"]

\* Keys the keyring shows and signs with.
RingKeys == IF locked THEN {} ELSE {e.key : e \in ring}
CapiKeys == IF backend = "keyring" THEN {} ELSE certs
NoTable == [loaded |-> FALSE, keys |-> {}]
Loaded(K) == [loaded |-> TRUE, keys |-> K]
CommentsOf(k) == IF locked THEN {} ELSE {e.comment : e \in {d \in ring : d.key = k}}

History == [ringAll : SUBSET Keys, ringEver : SUBSET Keys,
            capiAll : SUBSET Keys, capiEver : SUBSET Keys, names : SUBSET Comments]
NoHistory == [ringAll |-> {}, ringEver |-> {}, capiAll |-> {}, capiEver |-> {}, names |-> {}]

TypeOK ==
  /\ backend \in Backends
  /\ ring \subseteq Entries /\ locked \in BOOLEAN /\ certs \subseteq CertKeys
  /\ table \in [loaded : BOOLEAN, keys : SUBSET CertKeys]
  /\ pc \in [Clients -> {"idle", "ring", "act", "capi", "dial", "host", "answered"}]
  /\ req \in [Clients -> Requests \cup {NoRequest}]
  /\ got \in [Clients -> SUBSET Keys]
  /\ comment \in [Clients -> Comments \cup {Fallback}]
  /\ refused \in [Clients -> SUBSET Agent]
  /\ res \in [Clients -> Results]
  /\ note \in [Clients -> Notes]
  /\ hist \in [Clients -> History]
  /\ since \subseteq CertKeys

Init ==
  /\ backend \in Backends
  /\ ring = {} /\ locked = FALSE /\ certs \in SUBSET CertKeys
  /\ table = NoTable
  /\ pc = [cl \in Clients |-> "idle"]
  /\ req = [cl \in Clients |-> NoRequest]
  /\ got = [cl \in Clients |-> {}]
  /\ comment = [cl \in Clients |-> Fallback]
  /\ refused = [cl \in Clients |-> {}]
  /\ res = [cl \in Clients |-> Nothing]
  /\ note = [cl \in Clients |-> Nothing]
  /\ hist = [cl \in Clients |-> NoHistory]
  /\ since = CapiKeys

-----------------------------------------------------------------------------
\* What agents do with signature flags: RSA keys take one of two, others none.
FlagsFit(k, flags) == flags = 0 \/ (k \in RsaKeys /\ flags \in {2, 4})

RingSigns(k, flags) == k \in RingKeys /\ FlagsFit(k, flags)

\* Mutant: a List that fails leaves the table of an earlier one in place.
CapiList_KeepOnError(ok) == table' = IF ok THEN Loaded(CapiKeys) ELSE table

\* CAPIAgent.List closes the table it has and loads it again, or fails with none.
CapiList(ok) == table' = IF ok THEN Loaded(CapiKeys) ELSE NoTable

\* CAPIAgent.SignWithFlags asks the store only if nothing is loaded; else it
\* signs from the table, whatever the store holds by now.
SignTable == IF table.loaded THEN table ELSE Loaded(CapiKeys)
CapiMaySign(k, flags) == k \in SignTable.keys /\ FlagsFit(k, flags)

At(cl, place, op) == pc[cl] = place /\ req[cl].op = op
Goto(cl, place) == pc' = [pc EXCEPT ![cl] = place]

\* A call returns, and its locals are gone.
Answer(cl, r) ==
  /\ Goto(cl, "answered")
  /\ res' = [res EXCEPT ![cl] = r]
  /\ got' = [got EXCEPT ![cl] = {}]
  /\ comment' = [comment EXCEPT ![cl] = Fallback]

Notify(cl, n) == note' = [note EXCEPT ![cl] = n]

Call(cl) ==
  /\ pc[cl] = "idle"
  /\ \E r \in Requests : req' = [req EXCEPT ![cl] = r]
  /\ Goto(cl, IF backend = "hv" THEN "dial" ELSE "ring")
  /\ UNCHANGED <<state, got, comment, refused, res, note>>

Receive(cl) ==
  /\ pc[cl] = "answered"
  /\ Goto(cl, "idle")
  /\ req' = [req EXCEPT ![cl] = NoRequest]
  /\ refused' = [refused EXCEPT ![cl] = {}]
  /\ res' = [res EXCEPT ![cl] = Nothing]
  /\ note' = [note EXCEPT ![cl] = Nothing]
  /\ UNCHANGED <<state, got, comment>>

\* The first agent of List: a locked keyring lists nothing.
ListRing(cl) ==
  /\ At(cl, "ring", "list")
  /\ \/ /\ backend = "keyring"
        /\ Answer(cl, [kind |-> "keys", keys |-> RingKeys])
     \/ /\ backend = "wrapped"
        /\ got' = [got EXCEPT ![cl] = RingKeys]
        /\ Goto(cl, "capi")
        /\ UNCHANGED <<comment, res>>
  /\ UNCHANGED <<state, req, refused, note>>

\* Mutant: the keys of the second agent replace those of the first.
ListCapi_Replace(cl) ==
  /\ At(cl, "capi", "list")
  /\ \/ /\ CapiList(TRUE)
        /\ Answer(cl, [kind |-> "keys", keys |-> CapiKeys])
        /\ UNCHANGED refused
     \/ /\ CapiList(FALSE)
        /\ Answer(cl, Error)
        /\ refused' = [refused EXCEPT ![cl] = {"capi"}]
  /\ UNCHANGED <<backend, ring, locked, certs, req, note>>

\* The second: if it fails the whole List does.
ListCapi(cl) ==
  /\ At(cl, "capi", "list")
  /\ \/ /\ CapiList(TRUE)
        /\ Answer(cl, [kind |-> "keys", keys |-> got[cl] \cup CapiKeys])
        /\ UNCHANGED refused
     \/ /\ CapiList(FALSE)
        /\ Answer(cl, Error)
        /\ refused' = [refused EXCEPT ![cl] = {"capi"}]
  /\ UNCHANGED <<backend, ring, locked, certs, req, note>>

\* Mutant: a key that is not found has no fallback.
FindKeyComment_NoFallback(cl) ==
  /\ At(cl, "ring", "sign") \/ At(cl, "ring", "remove")
  /\ \E c \in IF CommentsOf(req[cl].key) = {} THEN {""} ELSE CommentsOf(req[cl].key) :
       comment' = [comment EXCEPT ![cl] = c]
  /\ Goto(cl, "act")
  /\ UNCHANGED <<state, req, got, refused, res, note>>

\* KeyRingAgent's Sign and Remove first look up the comment, in a List of its own.
FindKeyComment(cl) ==
  /\ At(cl, "ring", "sign") \/ At(cl, "ring", "remove")
  /\ \E c \in IF CommentsOf(req[cl].key) = {} THEN {Fallback} ELSE CommentsOf(req[cl].key) :
       comment' = [comment EXCEPT ![cl] = c]
  /\ Goto(cl, "act")
  /\ UNCHANGED <<state, req, got, refused, res, note>>

\* Mutant: the first agent's failure is the answer.
RingSign_NoFallback(cl) ==
  /\ At(cl, "act", "sign")
  /\ \/ /\ RingSigns(req[cl].key, req[cl].flags)
        /\ Notify(cl, [kind |-> "signed", comment |-> comment[cl]])
        /\ Answer(cl, [kind |-> "sig", from |-> "ring", flags |-> req[cl].flags])
        /\ UNCHANGED refused
     \/ /\ ~RingSigns(req[cl].key, req[cl].flags)
        /\ refused' = [refused EXCEPT ![cl] = {"ring"}]
        /\ Answer(cl, Error)
        /\ UNCHANGED note
  /\ UNCHANGED <<state, req>>

\* Sign in the keyring; WrappedAgent goes on to the next agent if it fails.
RingSign(cl) ==
  /\ At(cl, "act", "sign")
  /\ \/ /\ RingSigns(req[cl].key, req[cl].flags)
        /\ Notify(cl, [kind |-> "signed", comment |-> comment[cl]])
        /\ Answer(cl, [kind |-> "sig", from |-> "ring", flags |-> req[cl].flags])
        /\ UNCHANGED refused
     \/ /\ ~RingSigns(req[cl].key, req[cl].flags)
        /\ refused' = [refused EXCEPT ![cl] = {"ring"}]
        /\ \/ backend = "wrapped" /\ Goto(cl, "capi") /\ UNCHANGED <<got, comment, res>>
           \/ backend = "keyring" /\ Answer(cl, Error)
        /\ UNCHANGED note
  /\ UNCHANGED <<state, req>>

\* The CAPIAgent refuses a key its table does not have, and may refuse any: the
\* card or the user says no, or the table is not loaded and loading it fails.
CapiSign(cl) ==
  /\ At(cl, "capi", "sign")
  /\ \/ /\ CapiMaySign(req[cl].key, req[cl].flags)
        /\ table' = SignTable
        /\ Answer(cl, [kind |-> "sig", from |-> "capi", flags |-> req[cl].flags])
        /\ UNCHANGED refused
     \/ /\ table' = SignTable \/ (~table.loaded /\ UNCHANGED table)
        /\ refused' = [refused EXCEPT ![cl] = @ \cup {"capi"}]
        /\ Answer(cl, Error)
  /\ UNCHANGED <<backend, ring, locked, certs, req, note>>

Add(cl) ==
  /\ At(cl, "ring", "add")
  /\ \/ /\ ~locked
        /\ ring' = ring \cup {[key |-> req[cl].key, comment |-> req[cl].comment]}
        /\ Answer(cl, Done)
        /\ Notify(cl, [kind |-> "added", comment |-> req[cl].comment])
     \/ locked /\ Answer(cl, Error) /\ UNCHANGED <<ring, note>>
  /\ UNCHANGED <<backend, locked, certs, table, req, refused>>

\* Mutant: the comment is looked up when the key is already gone.
Remove_CommentAfter(cl) ==
  /\ At(cl, "act", "remove")
  /\ \/ /\ req[cl].key \in RingKeys
        /\ ring' = {e \in ring : e.key # req[cl].key}
        /\ Answer(cl, Done)
        /\ Notify(cl, [kind |-> "removed", comment |-> Fallback])
     \/ req[cl].key \notin RingKeys /\ Answer(cl, Error) /\ UNCHANGED <<ring, note>>
  /\ UNCHANGED <<backend, locked, certs, table, req, refused>>

Remove(cl) ==
  /\ At(cl, "act", "remove")
  /\ \/ /\ req[cl].key \in RingKeys
        /\ ring' = {e \in ring : e.key # req[cl].key}
        /\ Answer(cl, Done)
        /\ Notify(cl, [kind |-> "removed", comment |-> comment[cl]])
     \/ req[cl].key \notin RingKeys /\ Answer(cl, Error) /\ UNCHANGED <<ring, note>>
  /\ UNCHANGED <<backend, locked, certs, table, req, refused>>

RemoveAll(cl) ==
  /\ At(cl, "ring", "removeAll")
  /\ \/ ~locked /\ ring' = {} /\ Answer(cl, Done) /\ Notify(cl, [kind |-> "allRemoved"])
     \/ locked /\ Answer(cl, Error) /\ UNCHANGED <<ring, note>>
  /\ UNCHANGED <<backend, locked, certs, table, req, refused>>

\* Lock and Unlock reach the keyring only.
Lock(cl) ==
  /\ At(cl, "ring", "lock")
  /\ locked' = TRUE
  /\ Answer(cl, IF locked THEN Error ELSE Done)
  /\ UNCHANGED <<backend, ring, certs, table, req, refused, note>>

Unlock(cl) ==
  /\ At(cl, "ring", "unlock")
  /\ \/ locked /\ req[cl].right /\ locked' = FALSE /\ Answer(cl, Done)
     \/ ~(locked /\ req[cl].right) /\ Answer(cl, Error) /\ UNCHANGED locked
  /\ UNCHANGED <<backend, ring, certs, table, req, refused, note>>

Extension(cl) ==
  /\ At(cl, "ring", "extension")
  /\ Answer(cl, Error)
  /\ UNCHANGED <<state, req, refused, note>>

\* HVAgent: List and Sign dial the host anew for every request.
HVDial(cl) ==
  /\ At(cl, "dial", "list") \/ At(cl, "dial", "sign")
  /\ \/ Goto(cl, "host") /\ UNCHANGED <<got, comment, refused, res>>
     \/ Answer(cl, Error) /\ refused' = [refused EXCEPT ![cl] = {"host"}]
  /\ UNCHANGED <<state, req, note>>

\* The host answers, or the connection breaks.
HVList(cl) ==
  /\ At(cl, "host", "list")
  /\ \/ Answer(cl, [kind |-> "keys", keys |-> CapiKeys]) /\ UNCHANGED refused
     \/ Answer(cl, Error) /\ refused' = [refused EXCEPT ![cl] = {"host"}]
  /\ UNCHANGED <<state, req, note>>

\* HVAgent has no SignWithFlags: ServeAgent calls Sign, which asks the host for
\* a signature without flags.  The host may sign with a key it would not list
\* now, from a table of its own CAPIAgent.
HVSign(cl) ==
  /\ At(cl, "host", "sign")
  /\ \/ /\ req[cl].key \in CertKeys
        /\ Answer(cl, [kind |-> "sig", from |-> "host", flags |-> 0])
        /\ UNCHANGED refused
     \/ Answer(cl, Error) /\ refused' = [refused EXCEPT ![cl] = {"host"}]
  /\ UNCHANGED <<state, req, note>>

\* "implement me", or an extension that ServeAgent finds no method for; the host
\* is not asked.
HVNotImplemented(cl) ==
  /\ pc[cl] = "dial" /\ req[cl].op \notin {"list", "sign"}
  /\ Answer(cl, Error)
  /\ UNCHANGED <<state, req, refused, note>>

\* A key that was added with a lifetime reaches its end; the keyring drops it
\* before it lists or signs next.
Expire ==
  /\ \E e \in ring : ring' = ring \ {e}
  /\ UNCHANGED <<backend, locked, certs, table, call>>

StoreChange ==
  /\ certs' \in SUBSET CertKeys \ {certs}
  /\ UNCHANGED <<backend, ring, locked, table, call>>

-----------------------------------------------------------------------------
(***************************************************************************)
(* History, for the properties: of the keys a request is about, those the  *)
(* keyring, and for List the store, held in every state and in some state  *)
(* of it, and the comments of the key it names; of the store, what it has held since a List last   *)
(* reached the CAPIAgent, whoever made it and whether or not it failed.    *)
(***************************************************************************)
About(r) == IF r.op = "list" THEN Keys ELSE IF r.op \in {"sign", "remove"} THEN {r.key} ELSE {}
Stored(r) == IF r.op = "list" THEN CapiKeys ELSE {}
Named(r) == IF r.op \in {"sign", "remove"} THEN CommentsOf(r.key) ELSE {}

Started(r) ==
  [ringAll |-> RingKeys \cap About(r), ringEver |-> RingKeys \cap About(r),
   capiAll |-> Stored(r), capiEver |-> Stored(r),
   names |-> Named(r)]

ListReachesCapi == \E cl \in Clients : At(cl, "capi", "list") /\ pc'[cl] = "answered"

Track ==
  /\ since' = IF ListReachesCapi THEN CapiKeys' ELSE since \cup CapiKeys'
  /\ hist' = [cl \in Clients |->
       IF pc'[cl] = "idle" THEN NoHistory
       ELSE IF pc[cl] = "idle" THEN Started(req[cl])'
       ELSE IF pc'[cl] = "answered" THEN hist[cl]
       ELSE [ringAll |-> hist[cl].ringAll \cap RingKeys',
             ringEver |-> hist[cl].ringEver \cup (RingKeys' \cap About(req[cl])),
             capiAll |-> hist[cl].capiAll \cap CapiKeys',
             capiEver |-> hist[cl].capiEver \cup Stored(req[cl])',
             names |-> hist[cl].names \cup Named(req[cl])']]

Operation(cl) ==
  \/ Call(cl) \/ Receive(cl) \/ ListRing(cl) \/ ListCapi(cl)
  \/ FindKeyComment(cl) \/ RingSign(cl) \/ CapiSign(cl)
  \/ Add(cl) \/ Remove(cl) \/ RemoveAll(cl) \/ Lock(cl) \/ Unlock(cl) \/ Extension(cl)
  \/ HVDial(cl) \/ HVList(cl) \/ HVSign(cl) \/ HVNotImplemented(cl)

Next == ((\E cl \in Clients : Operation(cl)) \/ Expire \/ StoreChange) /\ Track

Spec == Init /\ [][Next]_vars
-----------------------------------------------------------------------------
(* Properties. *)

\* List is made of two snapshots taken one after the other, and yet it is a
\* list of what there was: it has every key that was there all the time and
\* none that was not there at any time of the request, and it fails only if the
\* CAPIAgent, or in a guest the host, does.
ListIsRegular ==
  \A cl \in Clients :
    /\ res[cl].kind = "keys" =>
         /\ hist[cl].ringAll \cup hist[cl].capiAll \subseteq res[cl].keys
         /\ res[cl].keys \subseteq hist[cl].ringEver \cup hist[cl].capiEver
    /\ res[cl].kind = "err" /\ req[cl].op = "list" => "capi" \in refused[cl] \/ "host" \in refused[cl]

\* The agents a request to sign is tried with.
Asked == IF backend = "hv" THEN {"host"}
         ELSE {"ring"} \cup IF backend = "wrapped" THEN {"capi"} ELSE {}

\* A request to sign fails only if every agent there is refused it, and the
\* keyring does not refuse a key it held unlocked all along, whatever other
\* connections added, removed or locked meanwhile; the certificate store is not
\* bothered with a key the keyring has signed with, and the keyring signs with
\* nothing it did not hold unlocked at some time of the request.  Both sign
\* with the flags asked for; for the host see ForwardsEveryRequest.  With what
\* certificates the CAPIAgent signs is the subject of ListForgetsRemoved.
SignTriesAll ==
  \A cl \in Clients : req[cl].op = "sign" =>
    /\ res[cl].kind = "err" =>
         refused[cl] = Asked
    /\ "ring" \in refused[cl] /\ FlagsFit(req[cl].key, req[cl].flags) =>
         req[cl].key \notin hist[cl].ringAll
    /\ res[cl].kind = "sig" /\ res[cl].from = "ring" =>
         refused[cl] = {} /\ req[cl].key \in hist[cl].ringEver /\ res[cl].flags = req[cl].flags
    /\ res[cl].kind = "sig" /\ res[cl].from = "capi" =>
         refused[cl] = {"ring"} /\ res[cl].flags = req[cl].flags
    /\ res[cl].kind = "sig" /\ res[cl].from = "host" =>
         refused[cl] = {}

\* CAPIAgent.SignWithFlags does not ask the store, so a certificate that is gone
\* from it may go on signing, but only until the next List: whichever connection
\* made it, and even if it failed, no signature is made after it with a
\* certificate that has not been in the store since.
ListForgetsRemoved ==
  [][\A cl \in Clients :
       res[cl] # res'[cl] /\ res'[cl].kind = "sig" /\ res'[cl].from = "capi" =>
         req[cl].key \in since]_vars

\* What a notification calls a key was its comment at some time of the request,
\* although it was read before the key was used or removed; the fallback stands
\* for a key that was missing at some time.
NotificationIsTrue ==
  \A cl \in Clients : note[cl].kind \in {"signed", "removed"} =>
    IF note[cl].comment = Fallback THEN req[cl].key \notin hist[cl].ringAll
    ELSE note[cl].comment \in hist[cl].names

\* docs/FLOWS.md:25 of HVAgent: "forwards every request to the host over a
\* vsock".  Only List and Sign are forwarded, the latter without its flags.
ForwardsEveryRequest ==
  \A cl \in Clients : backend = "hv" /\ pc[cl] = "answered" =>
    /\ res[cl].kind = "err" => refused[cl] = {"host"}
    /\ res[cl].kind = "sig" => res[cl].flags = req[cl].flags
=============================================================================
