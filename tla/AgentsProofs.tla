---------------------------- MODULE AgentsProofs ----------------------------
(***************************************************************************)
(* Proofs about Agents, for any sets of clients, keys and comments.        *)
(***************************************************************************)
EXTENDS Agents, TLAPS

-----------------------------------------------------------------------------
(* The inductive invariant, client by client. *)

InProgress(cl) == pc[cl] \in {"ring", "act", "capi", "dial", "host"}

\* While a request is in progress its history agrees with what there is now.
Current(cl) ==
  InProgress(cl) =>
    /\ hist[cl].ringAll \subseteq RingKeys
    /\ RingKeys \cap About(req[cl]) \subseteq hist[cl].ringEver
    /\ hist[cl].capiAll \subseteq CapiKeys
    /\ Stored(req[cl]) \subseteq hist[cl].capiEver
    /\ Named(req[cl]) \subseteq hist[cl].names

\* What is known of a request from the place where it is.
Place(cl) ==
  /\ pc[cl] # "idle" => req[cl] \in Requests
  /\ pc[cl] = "idle" => req[cl] = NoRequest
  /\ pc[cl] # "answered" => res[cl] = Nothing /\ note[cl] = Nothing
  /\ pc[cl] \in {"idle", "ring", "act", "dial", "host"} => refused[cl] = {}
  /\ pc[cl] \in {"ring", "act"} => backend # "hv"
  /\ pc[cl] \in {"dial", "host"} => backend = "hv"
  /\ pc[cl] = "act" => req[cl].op \in {"sign", "remove"}
  /\ pc[cl] = "capi" =>
       /\ backend = "wrapped"
       /\ \/ req[cl].op = "list" /\ refused[cl] = {}
          \/ req[cl].op = "sign" /\ refused[cl] = {"ring"}

\* What a request has read earlier was true at some time of it.
Learnt(cl) ==
  /\ pc[cl] = "capi" /\ req[cl].op = "list" =>
       hist[cl].ringAll \subseteq got[cl] /\ got[cl] \subseteq hist[cl].ringEver
  /\ pc[cl] = "act" =>
       IF comment[cl] = Fallback THEN req[cl].key \notin hist[cl].ringAll
       ELSE comment[cl] \in hist[cl].names

\* The properties of Agents, of one client.
ListOf(cl) ==
  /\ res[cl].kind = "keys" =>
       /\ hist[cl].ringAll \cup hist[cl].capiAll \subseteq res[cl].keys
       /\ res[cl].keys \subseteq hist[cl].ringEver \cup hist[cl].capiEver
  /\ res[cl].kind = "err" /\ req[cl].op = "list" => "capi" \in refused[cl] \/ "host" \in refused[cl]

SignOf(cl) ==
  req[cl].op = "sign" =>
    /\ res[cl].kind = "err" =>
         refused[cl] = Asked
    /\ "ring" \in refused[cl] /\ FlagsFit(req[cl].key, req[cl].flags) =>
         req[cl].key \notin hist[cl].ringAll
    /\ res[cl].kind = "sig" /\ res[cl].from = "ring" =>
         refused[cl] = {} /\ req[cl].key \in hist[cl].ringEver /\ res[cl].flags = req[cl].flags
    /\ res[cl].kind = "sig" /\ res[cl].from = "capi" =>
         refused[cl] = {"ring"} /\ res[cl].flags = req[cl].flags
    /\ res[cl].kind = "sig" /\ res[cl].from = "host" =>
         refused[cl] = {}

NoteOf(cl) ==
  note[cl].kind \in {"signed", "removed"} =>
    IF note[cl].comment = Fallback THEN req[cl].key \notin hist[cl].ringAll
    ELSE note[cl].comment \in hist[cl].names

ClientInv(cl) ==
  Current(cl) /\ Place(cl) /\ Learnt(cl) /\ ListOf(cl) /\ SignOf(cl) /\ NoteOf(cl)

\* In a guest nothing is ever added to the keyring, as there is none.
GuestInv == backend = "hv" => ring = {}

\* What the CAPIAgent signs with, now or after a load, was in the store at some
\* time since it was last listed.
TableInv == table.keys \subseteq since /\ CapiKeys \subseteq since

IInv == TypeOK /\ GuestInv /\ TableInv /\ \A cl \in Clients : ClientInv(cl)

-----------------------------------------------------------------------------
(* What the keyring and the store offer. *)

\* The keys on offer are keys, and a key is on offer if it has a comment.
LEMMA Offered ==
  ASSUME ring \subseteq Entries, certs \subseteq CertKeys
  PROVE  /\ RingKeys \subseteq Keys /\ CapiKeys \subseteq Keys
         /\ \A k : CommentsOf(k) \subseteq Comments
         /\ \A k : CommentsOf(k) = {} => k \notin RingKeys
<1>1. RingKeys \subseteq Keys
  BY DEF RingKeys, Entries
<1>2. CapiKeys \subseteq Keys
  BY AgentsAssumption DEF CapiKeys
<1>3. \A k : CommentsOf(k) \subseteq Comments
  BY DEF CommentsOf, Entries
<1>4. \A k : CommentsOf(k) = {} => k \notin RingKeys
  BY DEF CommentsOf, RingKeys
<1> QED
  BY <1>1, <1>2, <1>3, <1>4

\* The history of a request that goes on stays current: "all" only loses keys,
\* "ever" only gains them.
LEMMA HistoryGrows ==
  ASSUME Track, NEW cl \in Clients, InProgress(cl), InProgress(cl)', req'[cl] = req[cl]
  PROVE  /\ Current(cl)'
         /\ hist'[cl].ringAll \subseteq hist[cl].ringAll
         /\ hist[cl].ringEver \subseteq hist'[cl].ringEver
         /\ hist[cl].names \subseteq hist'[cl].names
<1>1. hist'[cl] = [ringAll |-> hist[cl].ringAll \cap RingKeys',
          ringEver |-> hist[cl].ringEver \cup (RingKeys' \cap About(req[cl])),
          capiAll |-> hist[cl].capiAll \cap CapiKeys',
          capiEver |-> hist[cl].capiEver \cup Stored(req[cl])',
          names |-> hist[cl].names \cup Named(req[cl])']
  BY Zenon DEF Track, InProgress
<1>2. /\ hist'[cl].ringAll = hist[cl].ringAll \cap RingKeys'
      /\ hist'[cl].ringEver = hist[cl].ringEver \cup (RingKeys' \cap About(req[cl]))
      /\ hist'[cl].capiAll = hist[cl].capiAll \cap CapiKeys'
      /\ hist'[cl].capiEver = hist[cl].capiEver \cup Stored(req[cl])'
      /\ hist'[cl].names = hist[cl].names \cup Named(req[cl])'
  BY <1>1
<1>3. About(req[cl])' = About(req[cl])
  BY DEF About
<1> QED
  BY <1>2, <1>3 DEF Current

\* A request that starts knows what there is at its start.
LEMMA HistoryStarts ==
  ASSUME Track, NEW cl \in Clients, pc[cl] = "idle", pc'[cl] # "idle"
  PROVE  Current(cl)'
<1>1. hist'[cl] = Started(req[cl])'
  BY Zenon DEF Track
<1> QED
  BY <1>1 DEF Current, Started, Stored

\* The history of a request that is answered is that of its last step.
LEMMA HistoryKept ==
  ASSUME Track, NEW cl \in Clients, pc[cl] # "idle", pc'[cl] = "answered"
  PROVE  hist'[cl] = hist[cl]
  BY Zenon DEF Track

\* Histories have their type.
LEMMA HistoryType ==
  ASSUME TypeOK, Track, ring' \subseteq Entries, certs' \subseteq CertKeys
  PROVE  hist' \in [Clients -> History] /\ since' \subseteq CertKeys
<1>1. RingKeys' \subseteq Keys /\ CapiKeys' \subseteq Keys
  BY AgentsAssumption DEF RingKeys, CapiKeys, Entries
<1>2. \A cl \in Clients : Named(req[cl])' \subseteq Comments
  BY DEF Named, CommentsOf, Entries
<1>7. \A cl \in Clients : Stored(req[cl])' \subseteq Keys
  BY <1>1 DEF Stored
<1>3. \A cl \in Clients : Started(req[cl])' \in History
  BY <1>1, <1>2, <1>7 DEF Started, History
<1>4. NoHistory \in History
  BY DEF NoHistory, History
<1>5. ASSUME NEW cl \in Clients
      PROVE  [ringAll |-> hist[cl].ringAll \cap RingKeys',
          ringEver |-> hist[cl].ringEver \cup (RingKeys' \cap About(req[cl])),
          capiAll |-> hist[cl].capiAll \cap CapiKeys',
          capiEver |-> hist[cl].capiEver \cup Stored(req[cl])',
          names |-> hist[cl].names \cup Named(req[cl])'] \in History
  <2>1. hist[cl] \in History
    BY DEF TypeOK
  <2> QED
    BY <1>1, <1>2, <1>7, <2>1 DEF History
<1>6. \A cl \in Clients : hist[cl] \in History
  BY DEF TypeOK
<1>8. hist' \in [Clients -> History]
  BY <1>3, <1>4, <1>5, <1>6, Zenon DEF Track
<1>9. since' = CapiKeys' \/ since' = since \cup CapiKeys'
  BY Zenon DEF Track
<1>10. since' \subseteq CertKeys
  BY <1>9 DEF TypeOK, CapiKeys
<1> QED
  BY <1>8, <1>10

-----------------------------------------------------------------------------
(* Steps. *)

\* A client that does not move keeps its invariant, whatever the step does to
\* the keyring and the store.
LEMMA Frame ==
  ASSUME Track, backend' = backend, NEW d \in Clients, ClientInv(d),
         pc[d] \in {"idle", "ring", "act", "capi", "dial", "host", "answered"},
         pc'[d] = pc[d], req'[d] = req[d], got'[d] = got[d], comment'[d] = comment[d],
         refused'[d] = refused[d], res'[d] = res[d], note'[d] = note[d]
  PROVE  ClientInv(d)'
<1> USE DEF ClientInv
<1>1. Place(d)'
  BY DEF Place
<1>2. CASE pc[d] = "idle"
  BY <1>1, <1>2 DEF Place, Current, Learnt, ListOf, SignOf, NoteOf, InProgress, NoRequest, Nothing
<1>3. CASE pc[d] = "answered"
  <2>1. hist'[d] = hist[d]
    BY <1>3, HistoryKept
  <2> QED
    BY <1>1, <1>3, <2>1 DEF Current, Learnt, ListOf, SignOf, Asked, NoteOf, InProgress
<1>4. CASE InProgress(d)
  <2>1. InProgress(d)'
    BY <1>4 DEF InProgress
  <2>2. /\ Current(d)'
        /\ hist'[d].ringAll \subseteq hist[d].ringAll
        /\ hist[d].ringEver \subseteq hist'[d].ringEver
        /\ hist[d].names \subseteq hist'[d].names
    BY <1>4, <2>1, HistoryGrows
  <2>3. res'[d] = Nothing /\ note'[d] = Nothing
    BY <1>4 DEF Place, InProgress
  <2>4. ListOf(d)' /\ NoteOf(d)'
    BY <2>3 DEF ListOf, NoteOf, Nothing
  <2>5. SignOf(d)'
    BY <2>2, <2>3 DEF SignOf, Nothing
  <2>6. Learnt(d)'
    BY <2>2 DEF Learnt
  <2> QED
    BY <1>1, <2>2, <2>4, <2>5, <2>6
<1> QED
  BY <1>2, <1>3, <1>4 DEF InProgress

\* An operation moves its own client only, and never the choice of agents.
LEMMA OthersKept ==
  ASSUME TypeOK, NEW cl \in Clients, Operation(cl), NEW d \in Clients, d # cl
  PROVE  /\ backend' = backend /\ pc'[d] = pc[d] /\ req'[d] = req[d] /\ got'[d] = got[d]
         /\ comment'[d] = comment[d] /\ refused'[d] = refused[d]
         /\ res'[d] = res[d] /\ note'[d] = note[d]
<1> USE DEF TypeOK, state, Goto, Answer, Notify
<1>1. CASE Call(cl) \/ Receive(cl)
  BY <1>1 DEF Call, Receive
<1>2. CASE ListRing(cl) \/ ListCapi(cl)
  BY <1>2 DEF ListRing, ListCapi
<1>3. CASE FindKeyComment(cl) \/ RingSign(cl) \/ CapiSign(cl)
  BY <1>3 DEF FindKeyComment, RingSign, CapiSign
<1>4. CASE Add(cl) \/ Remove(cl) \/ RemoveAll(cl)
  BY <1>4 DEF Add, Remove, RemoveAll
<1>5. CASE Lock(cl) \/ Unlock(cl) \/ Extension(cl)
  BY <1>5 DEF Lock, Unlock, Extension
<1>6. CASE HVDial(cl) \/ HVList(cl) \/ HVSign(cl) \/ HVNotImplemented(cl)
  BY <1>6 DEF HVDial, HVList, HVSign, HVNotImplemented
<1> QED
  BY <1>1, <1>2, <1>3, <1>4, <1>5, <1>6 DEF Operation

\* What is left to show of a client whose request is answered.
LEMMA Answered ==
  ASSUME NEW cl \in Clients, Place(cl), pc[cl] # "idle", pc'[cl] = "answered",
         req'[cl] = req[cl], ListOf(cl)', SignOf(cl)', NoteOf(cl)'
  PROVE  ClientInv(cl)'
  BY DEF ClientInv, Current, Place, Learnt, InProgress

\* A new request, and the end of one.
LEMMA CallStep ==
  ASSUME IInv, Track, NEW cl \in Clients, Call(cl) \/ Receive(cl)
  PROVE  ClientInv(cl)'
<1> USE DEF IInv, TypeOK, state, Goto
<1>1. CASE Call(cl)
  <2>1. /\ pc[cl] = "idle" /\ pc'[cl] = IF backend' = "hv" THEN "dial" ELSE "ring"
        /\ req'[cl] \in Requests
        /\ res'[cl] = Nothing /\ note'[cl] = Nothing /\ refused'[cl] = {}
    BY <1>1 DEF Call, ClientInv, Place
  <2>2. Current(cl)'
    BY <2>1, HistoryStarts
  <2>3. Place(cl)' /\ Learnt(cl)' /\ ListOf(cl)' /\ SignOf(cl)' /\ NoteOf(cl)'
    BY <2>1 DEF Place, Learnt, ListOf, SignOf, NoteOf, Nothing
  <2> QED
    BY <2>2, <2>3 DEF ClientInv
<1>2. CASE Receive(cl)
  <2>1. /\ pc'[cl] = "idle" /\ req'[cl] = NoRequest
        /\ res'[cl] = Nothing /\ note'[cl] = Nothing /\ refused'[cl] = {}
    BY <1>2 DEF Receive
  <2> QED
    BY <2>1 DEF ClientInv, Current, InProgress, Place, Learnt, ListOf, SignOf, NoteOf,
       Nothing, NoRequest
<1> QED
  BY <1>1, <1>2

\* List: the first snapshot is between what was there all along and what was
\* there at some time, and stays so until the second one is added.
LEMMA ListStep ==
  ASSUME IInv, Track, NEW cl \in Clients, ListRing(cl) \/ ListCapi(cl)
  PROVE  ClientInv(cl)'
<1> USE DEF state, Goto, At
<1>1. ClientInv(cl) /\ pc[cl] # "idle" /\ InProgress(cl)
  BY DEF IInv, ListRing, ListCapi, InProgress
<1>2. /\ hist[cl].ringAll \subseteq RingKeys /\ RingKeys \subseteq hist[cl].ringEver
      /\ hist[cl].capiAll \subseteq CapiKeys /\ CapiKeys \subseteq hist[cl].capiEver
  <2>1. About(req[cl]) = Keys
    BY DEF ListRing, ListCapi, About
  <2>2. RingKeys \subseteq Keys /\ CapiKeys \subseteq Keys
    BY Offered DEF IInv, TypeOK
  <2> QED
    BY <1>1, <2>1, <2>2 DEF ClientInv, Current, Stored, ListRing, ListCapi
<1>3. CASE ListRing(cl) /\ pc'[cl] = "answered"
  <2>1. /\ res'[cl] = [kind |-> "keys", keys |-> RingKeys]
        /\ req'[cl] = req[cl] /\ note'[cl] = note[cl] /\ refused'[cl] = refused[cl]
        /\ req[cl].op = "list" /\ backend = "keyring"
    BY <1>3 DEF IInv, TypeOK, ListRing, Answer
  <2>2. hist'[cl] = hist[cl]
    BY <1>1, <1>3, HistoryKept
  <2>3. CapiKeys = {}
    BY <2>1 DEF CapiKeys
  <2>4. ListOf(cl)'
    BY <1>2, <2>1, <2>2, <2>3 DEF ListOf
  <2>5. SignOf(cl)' /\ NoteOf(cl)'
    BY <1>1, <1>3, <2>1 DEF SignOf, NoteOf, ClientInv, Place, Nothing, ListRing
  <2> QED
    BY <1>1, <1>3, <2>1, <2>4, <2>5, Answered DEF ClientInv
<1>4. CASE ListRing(cl) /\ pc'[cl] # "answered"
  <2>1. /\ pc'[cl] = "capi" /\ got'[cl] = RingKeys /\ backend' = "wrapped"
        /\ req'[cl] = req[cl] /\ note'[cl] = Nothing /\ res'[cl] = Nothing
        /\ refused'[cl] = {} /\ req[cl].op = "list"
    BY <1>1, <1>4 DEF IInv, TypeOK, ListRing, Answer, ClientInv, Place
  <2>2. InProgress(cl)'
    BY <2>1 DEF InProgress
  <2>3. /\ Current(cl)'
        /\ hist'[cl].ringAll \subseteq hist[cl].ringAll
        /\ hist[cl].ringEver \subseteq hist'[cl].ringEver
    BY <1>1, <2>1, <2>2, HistoryGrows
  <2>4. Learnt(cl)'
    BY <1>2, <2>1, <2>3 DEF Learnt
  <2>5. Place(cl)' /\ ListOf(cl)' /\ SignOf(cl)' /\ NoteOf(cl)'
    BY <1>1, <2>1 DEF Place, ListOf, SignOf, NoteOf, ClientInv, Nothing
  <2> QED
    BY <2>3, <2>4, <2>5 DEF ClientInv
<1>5. CASE ListCapi(cl)
  <2>1. /\ pc[cl] = "capi" /\ pc'[cl] = "answered" /\ req[cl].op = "list"
        /\ req'[cl] = req[cl] /\ note'[cl] = Nothing
        /\ \/ res'[cl] = [kind |-> "keys", keys |-> got[cl] \cup CapiKeys]
           \/ res'[cl] = Error /\ refused'[cl] = {"capi"}
    BY <1>1, <1>5 DEF IInv, TypeOK, ListCapi, Answer, ClientInv, Place
  <2>2. hist'[cl] = hist[cl]
    BY <1>1, <2>1, HistoryKept
  <2>3. hist[cl].ringAll \subseteq got[cl] /\ got[cl] \subseteq hist[cl].ringEver
    BY <1>1, <2>1 DEF ClientInv, Learnt
  <2>4. ListOf(cl)'
    BY <1>2, <2>1, <2>2, <2>3 DEF ListOf, Error
  <2>5. SignOf(cl)' /\ NoteOf(cl)'
    BY <2>1 DEF SignOf, NoteOf, Nothing
  <2> QED
    BY <1>1, <2>1, <2>4, <2>5, Answered DEF ClientInv
<1> QED
  BY <1>3, <1>4, <1>5

\* The comment read is one the key has now, or it has none.
LEMMA CommentStep ==
  ASSUME IInv, Track, NEW cl \in Clients, FindKeyComment(cl)
  PROVE  ClientInv(cl)'
<1> USE DEF state, Goto, At
<1>1. ClientInv(cl) /\ InProgress(cl)
  BY DEF IInv, FindKeyComment, InProgress
<1>2. /\ pc[cl] = "ring" /\ pc'[cl] = "act" /\ req'[cl] = req[cl]
      /\ req[cl].op \in {"sign", "remove"} /\ refused'[cl] = {}
      /\ res'[cl] = Nothing /\ note'[cl] = Nothing /\ backend' = backend
  BY <1>1 DEF IInv, TypeOK, FindKeyComment, ClientInv, Place
<1>3. /\ Current(cl)'
      /\ hist'[cl].ringAll \subseteq hist[cl].ringAll
      /\ hist[cl].names \subseteq hist'[cl].names
  <2>1. InProgress(cl)'
    BY <1>2 DEF InProgress
  <2> QED
    BY <1>1, <1>2, <2>1, HistoryGrows
<1>4. /\ hist[cl].ringAll \subseteq RingKeys
      /\ CommentsOf(req[cl].key) \subseteq hist[cl].names
  BY <1>1, <1>2 DEF ClientInv, Current, Named
<1>5. \/ CommentsOf(req[cl].key) = {} /\ comment'[cl] = Fallback
      \/ comment'[cl] \in CommentsOf(req[cl].key)
  BY DEF FindKeyComment, IInv, TypeOK
<1>6. /\ CommentsOf(req[cl].key) \subseteq Comments
      /\ CommentsOf(req[cl].key) = {} => req[cl].key \notin RingKeys
  BY Offered DEF IInv, TypeOK
<1>7. Learnt(cl)'
  BY <1>2, <1>3, <1>4, <1>5, <1>6, AgentsAssumption DEF Learnt
<1>8. Place(cl)' /\ ListOf(cl)' /\ SignOf(cl)' /\ NoteOf(cl)'
  BY <1>1, <1>2 DEF ClientInv, Place, ListOf, SignOf, NoteOf, Nothing
<1> QED
  BY <1>3, <1>7, <1>8 DEF ClientInv

\* The keyring signs, or refuses a key that it does not hold now.
LEMMA RingSignStep ==
  ASSUME IInv, Track, NEW cl \in Clients, RingSign(cl)
  PROVE  ClientInv(cl)'
<1> USE DEF state, Goto, At
<1>1. ClientInv(cl) /\ InProgress(cl) /\ pc[cl] = "act" /\ req[cl].op = "sign"
      /\ req'[cl] = req[cl] /\ backend' = backend
  BY DEF IInv, RingSign, InProgress
<1>2. hist[cl].ringAll \subseteq RingKeys
      /\ (req[cl].key \in RingKeys => req[cl].key \in hist[cl].ringEver)
  BY <1>1 DEF ClientInv, Current, About
<1>3. CASE RingSigns(req[cl].key, req[cl].flags)
  <2>1. /\ pc'[cl] = "answered" /\ res'[cl] = [kind |-> "sig", from |-> "ring", flags |-> req[cl].flags]
        /\ note'[cl] = [kind |-> "signed", comment |-> comment[cl]]
        /\ refused'[cl] = {}
    BY <1>1, <1>3 DEF IInv, TypeOK, RingSign, Answer, Notify, ClientInv, Place
  <2>2. hist'[cl] = hist[cl]
    BY <1>1, <2>1, HistoryKept
  <2>3. ListOf(cl)' /\ SignOf(cl)'
    BY <1>1, <1>2, <1>3, <2>1, <2>2 DEF ListOf, SignOf, RingSigns
  <2>4. NoteOf(cl)'
    BY <1>1, <2>1, <2>2 DEF NoteOf, ClientInv, Learnt
  <2> QED
    BY <1>1, <2>1, <2>3, <2>4, Answered DEF ClientInv
<1>4. CASE ~RingSigns(req[cl].key, req[cl].flags)
  <2>1. /\ note'[cl] = Nothing /\ refused'[cl] = {"ring"}
        /\ \/ backend = "wrapped" /\ pc'[cl] = "capi" /\ res'[cl] = Nothing
           \/ backend = "keyring" /\ pc'[cl] = "answered" /\ res'[cl] = Error
    BY <1>1, <1>4 DEF IInv, TypeOK, RingSign, Answer, ClientInv, Place
  <2>2. FlagsFit(req[cl].key, req[cl].flags) => req[cl].key \notin hist[cl].ringAll
    BY <1>2, <1>4 DEF RingSigns
  <2>3. CASE pc'[cl] = "capi"
    <3>1. InProgress(cl)'
      BY <2>3 DEF InProgress
    <3>2. Current(cl)' /\ hist'[cl].ringAll \subseteq hist[cl].ringAll
      BY <1>1, <3>1, HistoryGrows
    <3>3. SignOf(cl)'
      BY <1>1, <2>1, <2>2, <2>3, <3>2 DEF SignOf, FlagsFit, Nothing
    <3>4. Place(cl)' /\ Learnt(cl)' /\ ListOf(cl)' /\ NoteOf(cl)'
      BY <1>1, <2>1, <2>3 DEF ClientInv, Place, Learnt, ListOf, NoteOf, Nothing
    <3> QED
      BY <3>2, <3>3, <3>4 DEF ClientInv
  <2>4. CASE pc'[cl] = "answered"
    <3>1. hist'[cl] = hist[cl]
      BY <1>1, <2>4, HistoryKept
    <3>2. SignOf(cl)'
      BY <1>1, <2>1, <2>2, <2>4, <3>1 DEF SignOf, FlagsFit, Error, Asked
    <3>3. ListOf(cl)' /\ NoteOf(cl)'
      BY <1>1, <2>1, <2>4 DEF ListOf, NoteOf, Error, Nothing
    <3> QED
      BY <1>1, <2>4, <3>2, <3>3, Answered DEF ClientInv
  <2> QED
    BY <2>1, <2>3, <2>4
<1> QED
  BY <1>3, <1>4

\* The CAPIAgent is asked after the keyring has refused.
LEMMA CapiSignStep ==
  ASSUME IInv, Track, NEW cl \in Clients, CapiSign(cl)
  PROVE  ClientInv(cl)'
<1> USE DEF state, Goto, At
<1>1. /\ ClientInv(cl) /\ InProgress(cl) /\ pc[cl] = "capi" /\ req[cl].op = "sign"
      /\ req'[cl] = req[cl] /\ backend' = backend
  BY DEF IInv, CapiSign, InProgress
<1>2. /\ backend = "wrapped" /\ refused[cl] = {"ring"} /\ note'[cl] = Nothing
      /\ pc'[cl] = "answered"
      /\ \/ /\ res'[cl] = [kind |-> "sig", from |-> "capi", flags |-> req[cl].flags]
            /\ refused'[cl] = {"ring"}
         \/ res'[cl] = Error /\ refused'[cl] = {"ring", "capi"}
  BY <1>1 DEF IInv, TypeOK, CapiSign, Answer, ClientInv, Place
<1>3. hist'[cl] = hist[cl]
  BY <1>1, <1>2, HistoryKept
<1>5. SignOf(cl)'
  BY <1>1, <1>2, <1>3 DEF ClientInv, SignOf, FlagsFit, Error, Asked
<1>6. ListOf(cl)' /\ NoteOf(cl)'
  BY <1>1, <1>2 DEF ListOf, NoteOf, Error, Nothing
<1> QED
  BY <1>1, <1>2, <1>5, <1>6, Answered DEF ClientInv

\* Operations that are neither List nor Sign: only Remove's notification says
\* anything about the past.
LEMMA RingStep ==
  ASSUME IInv, Track, NEW cl \in Clients,
         Add(cl) \/ Remove(cl) \/ RemoveAll(cl) \/ Lock(cl) \/ Unlock(cl) \/ Extension(cl)
  PROVE  ClientInv(cl)'
<1> USE DEF state, Goto, At, Answer, Notify
<1>1. /\ ClientInv(cl) /\ pc[cl] \in {"ring", "act"} /\ pc'[cl] = "answered"
      /\ req'[cl] = req[cl] /\ req[cl].op \notin {"list", "sign"}
      /\ res'[cl] \in {Done, Error}
  BY DEF IInv, TypeOK, Add, Remove, RemoveAll, Lock, Unlock, Extension
<1>2. hist'[cl] = hist[cl]
  BY <1>1, HistoryKept
<1>3. \/ note'[cl].kind \notin {"signed", "removed"}
      \/ pc[cl] = "act" /\ note'[cl].comment = comment[cl]
  <2>1. note[cl].kind = "none"
    BY <1>1 DEF ClientInv, Place, Nothing
  <2> QED
    BY <2>1 DEF IInv, TypeOK, Add, Remove, RemoveAll, Lock, Unlock, Extension
<1>4. NoteOf(cl)'
  BY <1>1, <1>2, <1>3 DEF NoteOf, ClientInv, Learnt
<1>5. ListOf(cl)' /\ SignOf(cl)'
  BY <1>1 DEF ListOf, SignOf, Done, Error
<1> QED
  BY <1>1, <1>4, <1>5, Answered DEF ClientInv

\* In a guest: the keyring is empty, and the host's keys are what the history
\* has of the other agent.
LEMMA GuestStep ==
  ASSUME IInv, Track, NEW cl \in Clients,
         HVDial(cl) \/ HVList(cl) \/ HVSign(cl) \/ HVNotImplemented(cl)
  PROVE  ClientInv(cl)'
<1> USE DEF state, Goto, At, Answer
<1>1. /\ ClientInv(cl) /\ InProgress(cl) /\ pc[cl] # "idle" /\ refused[cl] = {}
      /\ req'[cl] = req[cl] /\ backend' = backend /\ backend = "hv"
      /\ res[cl] = Nothing /\ note'[cl] = Nothing
  BY DEF IInv, TypeOK, HVDial, HVList, HVSign, HVNotImplemented, InProgress, ClientInv, Place
<1>2. /\ hist[cl].ringAll = {} /\ hist[cl].capiAll \subseteq CapiKeys
      /\ Stored(req[cl]) \subseteq hist[cl].capiEver
  BY <1>1 DEF IInv, GuestInv, ClientInv, Current, RingKeys
<1>3. CASE pc'[cl] = "host"
  <2>1. /\ InProgress(cl)' /\ refused'[cl] = {} /\ res'[cl] = Nothing
    BY <1>1, <1>3 DEF InProgress, IInv, TypeOK, HVDial, HVList, HVSign, HVNotImplemented
  <2>2. Current(cl)'
    BY <1>1, <2>1, HistoryGrows
  <2>3. Place(cl)' /\ Learnt(cl)' /\ ListOf(cl)' /\ SignOf(cl)' /\ NoteOf(cl)'
    BY <1>1, <1>3, <2>1 DEF ClientInv, Place, Learnt, ListOf, SignOf, NoteOf, Nothing
  <2> QED
    BY <2>2, <2>3 DEF ClientInv
<1>4. CASE pc'[cl] # "host"
  <2>1. pc'[cl] = "answered"
    BY <1>4 DEF IInv, TypeOK, HVDial, HVList, HVSign, HVNotImplemented
  <2>2. \/ res'[cl] = Error /\ refused'[cl] = {"host"}
        \/ res'[cl] = Error /\ req[cl].op \notin {"list", "sign"}
        \/ res'[cl] = [kind |-> "keys", keys |-> CapiKeys] /\ req[cl].op = "list"
        \/ /\ res'[cl] = [kind |-> "sig", from |-> "host", flags |-> 0]
           /\ refused'[cl] = {} /\ req[cl].op = "sign"
    BY <1>1, <1>4 DEF IInv, TypeOK, HVDial, HVList, HVSign, HVNotImplemented
  <2>3. hist'[cl] = hist[cl]
    BY <1>1, <2>1, HistoryKept
  <2>4. CapiKeys \subseteq Keys
    BY Offered DEF IInv, TypeOK
  <2>5. ListOf(cl)'
    BY <1>1, <1>2, <2>2, <2>3, <2>4 DEF ListOf, Stored, Error
  <2>6. SignOf(cl)'
    BY <1>1, <1>2, <2>2, <2>3 DEF SignOf, Error, Asked
  <2>7. NoteOf(cl)'
    BY <1>1 DEF NoteOf, Nothing
  <2> QED
    BY <1>1, <2>1, <2>5, <2>6, <2>7, Answered DEF ClientInv
<1> QED
  BY <1>3, <1>4

\* Nothing is added in a guest.
LEMMA GuestKept ==
  ASSUME IInv, NEW cl \in Clients, Operation(cl)
  PROVE  GuestInv'
<1> USE DEF state, IInv, GuestInv
<1>1. CASE Call(cl) \/ Receive(cl) \/ ListRing(cl) \/ ListCapi(cl)
  BY <1>1 DEF Call, Receive, ListRing, ListCapi
<1>2. CASE FindKeyComment(cl) \/ RingSign(cl) \/ CapiSign(cl)
  BY <1>2 DEF FindKeyComment, RingSign, CapiSign
<1>3. CASE Add(cl)
  BY <1>3 DEF Add, At, ClientInv, Place
<1>4. CASE Remove(cl) \/ RemoveAll(cl) \/ Lock(cl) \/ Unlock(cl) \/ Extension(cl)
  BY <1>4 DEF Remove, RemoveAll, Lock, Unlock, Extension
<1>5. CASE HVDial(cl) \/ HVList(cl) \/ HVSign(cl) \/ HVNotImplemented(cl)
  BY <1>5 DEF HVDial, HVList, HVSign, HVNotImplemented
<1> QED
  BY <1>1, <1>2, <1>3, <1>4, <1>5 DEF Operation

\* The table and the store stay within what the history has of them: a List sets
\* it back to the store and reloads the table or drops it, Sign loads it only if
\* there is none.
LEMMA TableKept ==
  ASSUME IInv, Track, NEW cl \in Clients, Operation(cl)
  PROVE  TableInv'
<1>1. CASE ListCapi(cl)
  <2>1. CapiKeys' = CapiKeys /\ (table' = Loaded(CapiKeys) \/ table' = NoTable)
    BY <1>1 DEF ListCapi, CapiList, CapiKeys
  <2>2. CapiKeys' \subseteq since'
    BY Zenon DEF Track
  <2> QED
    BY <2>1, <2>2 DEF TableInv, Loaded, NoTable
<1>2. CASE ~ListCapi(cl)
  <2>1. ~ListReachesCapi
    <3>1. ASSUME NEW d \in Clients, d # cl PROVE pc'[d] = pc[d]
      BY <3>1, OthersKept DEF IInv
    <3>2. ~(At(cl, "capi", "list") /\ pc'[cl] = "answered")
      BY <1>2 DEF Operation, At, Call, Receive, ListRing, FindKeyComment, RingSign, CapiSign,
         Add, Remove, RemoveAll, Lock, Unlock, Extension, HVDial, HVList, HVSign, HVNotImplemented
    <3> QED
      BY <3>1, <3>2 DEF ListReachesCapi, At
  <2>2. since' = since \cup CapiKeys'
    BY <2>1, Zenon DEF Track
  <2>3. table' = table \/ table' = SignTable
    BY <1>2 DEF state, Operation, Call, Receive, ListRing, FindKeyComment, RingSign, CapiSign,
       Add, Remove, RemoveAll, Lock, Unlock, Extension, HVDial, HVList, HVSign, HVNotImplemented
  <2>4. table'.keys \subseteq since
    BY <2>3 DEF IInv, TableInv, SignTable, Loaded
  <2> QED
    BY <2>2, <2>4 DEF TableInv
<1> QED
  BY <1>1, <1>2

\* The table has its type.
LEMMA TableType ==
  ASSUME TypeOK, NEW cl \in Clients, Operation(cl)
  PROVE  table' \in [loaded : BOOLEAN, keys : SUBSET CertKeys]
<1>1. NoTable \in [loaded : BOOLEAN, keys : SUBSET CertKeys]
  BY DEF NoTable
<1>2. Loaded(CapiKeys) \in [loaded : BOOLEAN, keys : SUBSET CertKeys]
  BY DEF Loaded, CapiKeys, TypeOK
<1>3. \/ table' = table \/ table' = NoTable \/ table' = Loaded(CapiKeys)
  BY DEF state, Operation, Call, Receive, ListRing, ListCapi, CapiList, FindKeyComment,
     RingSign, CapiSign, SignTable, Add, Remove, RemoveAll, Lock, Unlock, Extension,
     HVDial, HVList, HVSign, HVNotImplemented
<1> QED
  BY <1>1, <1>2, <1>3 DEF TypeOK

\* Every operation keeps the types; that of the history is Track's.
LEMMA TypeStep ==
  ASSUME TypeOK, Track, NEW cl \in Clients, Operation(cl)
  PROVE  TypeOK'
<1> USE DEF state, Goto, At, Answer, Notify, TypeOK
<1>1. RingKeys \subseteq Keys /\ CapiKeys \subseteq Keys
  BY Offered
<1>2. \A k : CommentsOf(k) \subseteq Comments
  BY Offered
<1>3. SUFFICES
            /\ ring' \subseteq Entries /\ locked' \in BOOLEAN /\ certs' \subseteq CertKeys
            /\ backend' = backend
            /\ pc' \in [Clients -> {"idle", "ring", "act", "capi", "dial", "host", "answered"}]
            /\ req' \in [Clients -> Requests \cup {NoRequest}]
            /\ got' \in [Clients -> SUBSET Keys]
            /\ comment' \in [Clients -> Comments \cup {Fallback}]
            /\ refused' \in [Clients -> SUBSET Agent]
            /\ res' \in [Clients -> Results]
            /\ note' \in [Clients -> Notes]
  BY <1>3, HistoryType, TableType
<1>4. Nothing \in Results /\ Nothing \in Notes /\ Error \in Results /\ Done \in Results
  BY DEF Nothing, Error, Done, Results, Notes
<1>5. CASE Call(cl) \/ Receive(cl)
  BY <1>4, <1>5 DEF Call, Receive
<1>6. CASE ListRing(cl) \/ ListCapi(cl)
  <2>1. \A K \in SUBSET Keys : [kind |-> "keys", keys |-> K] \in Results
    BY DEF Results
  <2>2. CASE ListRing(cl)
    BY <1>1, <2>1, <2>2 DEF ListRing
  <2>3. CASE ListCapi(cl)
    <3>1. [kind |-> "keys", keys |-> got[cl] \cup CapiKeys] \in Results
      BY <1>1, <2>1
    <3>2. res' \in [Clients -> Results]
      BY <1>4, <2>3, <3>1 DEF ListCapi
    <3>3. refused' \in [Clients -> SUBSET Agent]
      BY <2>3 DEF ListCapi, CapiList, Agent
    <3>4. /\ pc' = [pc EXCEPT ![cl] = "answered"] /\ got' = [got EXCEPT ![cl] = {}]
          /\ comment' = [comment EXCEPT ![cl] = Fallback]
          /\ UNCHANGED <<backend, ring, locked, certs, req, note>>
      BY <2>3 DEF ListCapi
    <3> QED
      BY <3>2, <3>3, <3>4
  <2> QED
    BY <1>6, <2>2, <2>3
<1>7. CASE FindKeyComment(cl)
  BY <1>2, <1>7 DEF FindKeyComment
<1>8. CASE RingSign(cl) \/ CapiSign(cl)
  <2>1. \A a \in Agent, n \in Nat : [kind |-> "sig", from |-> a, flags |-> n] \in Results
    BY DEF Results
  <2>2. req[cl].op = "sign" => req[cl].flags \in Nat
    <3>1. req[cl] \in Requests \cup {NoRequest}
      BY Zenon
    <3>2. \A r \in Requests : r.op = "sign" => r.flags \in FlagValues
      BY DEF Requests
    <3>3. NoRequest.op # "sign"
      BY DEF NoRequest
    <3>4. FlagValues \subseteq Nat
      BY AgentsAssumption
    <3> HIDE DEF TypeOK
    <3> QED
      BY <3>1, <3>2, <3>3, <3>4
  <2>3. [kind |-> "signed", comment |-> comment[cl]] \in Notes
    BY DEF Notes
  <2> QED
    BY <1>4, <1>8, <2>1, <2>2, <2>3 DEF RingSign, CapiSign, Agent
<1>9. CASE Add(cl)
  <2>1. req[cl].key \in Keys /\ req[cl].comment \in Comments
    BY <1>9 DEF Add, Requests, NoRequest
  <2>2. [kind |-> "added", comment |-> req[cl].comment] \in Notes
    BY <2>1 DEF Notes
  <2> QED
    BY <1>4, <1>9, <2>1, <2>2 DEF Add, Entries
<1>10. CASE Remove(cl) \/ RemoveAll(cl)
  <2>1. [kind |-> "removed", comment |-> comment[cl]] \in Notes /\ [kind |-> "allRemoved"] \in Notes
    BY DEF Notes
  <2> QED
    BY <1>4, <1>10, <2>1 DEF Remove, RemoveAll
<1>11. CASE Lock(cl) \/ Unlock(cl) \/ Extension(cl)
  <2>1. locked' \in BOOLEAN
    BY <1>11, Zenon DEF Lock, Unlock, Extension
  <2> QED
    BY <1>4, <1>11, <2>1 DEF Lock, Unlock, Extension
<1>12. CASE HVDial(cl) \/ HVList(cl) \/ HVNotImplemented(cl)
  <2>1. [kind |-> "keys", keys |-> CapiKeys] \in Results
    BY <1>1 DEF Results
  <2> QED
    BY <1>4, <1>12, <2>1 DEF HVDial, HVList, HVNotImplemented, Agent
<1>13. CASE HVSign(cl)
  <2>1. [kind |-> "sig", from |-> "host", flags |-> 0] \in Results
    BY DEF Results, Agent
  <2> QED
    BY <1>4, <1>13, <2>1 DEF HVSign, Agent
<1> QED
  BY <1>5, <1>6, <1>7, <1>8, <1>9, <1>10, <1>11, <1>12, <1>13 DEF Operation

-----------------------------------------------------------------------------
\* The initial states satisfy IInv.
LEMMA InitIInv == Init => IInv
<1> SUFFICES ASSUME Init PROVE IInv
  OBVIOUS
<1>1. locked \in BOOLEAN
  BY Zenon DEF Init
<1>2. Nothing \in Results /\ Nothing \in Notes /\ NoHistory \in History
  BY DEF Nothing, Results, Notes, NoHistory, History
<1>6. NoTable \in [loaded : BOOLEAN, keys : SUBSET CertKeys]
  BY DEF NoTable
<1>3. TypeOK
  BY <1>1, <1>2, <1>6 DEF Init, TypeOK, CapiKeys
<1>4. ASSUME NEW cl \in Clients PROVE ClientInv(cl)
  BY DEF Init, ClientInv, Current, InProgress, Place, Learnt, ListOf, SignOf, NoteOf,
     Nothing, NoRequest
<1>5. GuestInv
  BY DEF Init, GuestInv
<1>7. TableInv
  BY DEF Init, TableInv, NoTable
<1> QED
  BY <1>3, <1>4, <1>5, <1>7 DEF IInv

\* Every step preserves IInv: the client that moves by the lemma of its
\* operation, all others by Frame.
LEMMA NextIInv == IInv /\ [Next]_vars => IInv'
<1> SUFFICES ASSUME IInv, [Next]_vars PROVE IInv'
  OBVIOUS
<1>1. ASSUME NEW cl \in Clients, Operation(cl), Track PROVE IInv'
  <2>1. TypeOK'
    BY <1>1, TypeStep DEF IInv
  <2>2. ClientInv(cl)'
    BY <1>1, CallStep, ListStep, CommentStep, RingSignStep, CapiSignStep, RingStep,
       GuestStep DEF Operation
  <2>4. GuestInv'
    BY <1>1, GuestKept
  <2>5. TableInv'
    BY <1>1, TableKept
  <2>3. ASSUME NEW d \in Clients, d # cl PROVE ClientInv(d)'
    <3>1. /\ backend' = backend /\ pc'[d] = pc[d] /\ req'[d] = req[d] /\ got'[d] = got[d]
          /\ comment'[d] = comment[d] /\ refused'[d] = refused[d]
          /\ res'[d] = res[d] /\ note'[d] = note[d]
      BY <1>1, <2>3, OthersKept DEF IInv
    <3>2. ClientInv(d) /\ pc[d] \in {"idle", "ring", "act", "capi", "dial", "host", "answered"}
      BY DEF IInv, TypeOK
    <3> QED
      BY <1>1, <3>1, <3>2, Frame
  <2> QED
    BY <2>1, <2>2, <2>3, <2>4, <2>5 DEF IInv
<1>2. CASE (Expire \/ StoreChange) /\ Track
  <2>1. backend' = backend /\ UNCHANGED call /\ ring' \subseteq Entries
        /\ locked' = locked /\ certs' \subseteq CertKeys /\ table' = table
    BY <1>2 DEF IInv, TypeOK, Expire, StoreChange
  <2>2. TypeOK'
    BY <1>2, <2>1, HistoryType DEF IInv, TypeOK, call
  <2>3. ASSUME NEW d \in Clients PROVE ClientInv(d)'
    <3>1. ClientInv(d) /\ pc[d] \in {"idle", "ring", "act", "capi", "dial", "host", "answered"}
      BY DEF IInv, TypeOK
    <3>2. /\ pc'[d] = pc[d] /\ req'[d] = req[d] /\ got'[d] = got[d]
          /\ comment'[d] = comment[d] /\ refused'[d] = refused[d]
          /\ res'[d] = res[d] /\ note'[d] = note[d]
      BY <2>1 DEF call
    <3> QED
      BY <1>2, <2>1, <3>1, <3>2, Frame
  <2>4. GuestInv'
    BY <1>2 DEF IInv, GuestInv, Expire, StoreChange
  <2>5. TableInv'
    <3>1. ~ListReachesCapi
      BY <2>1 DEF ListReachesCapi, At, call
    <3>2. since' = since \cup CapiKeys'
      BY <1>2, <3>1, Zenon DEF Track
    <3> QED
      BY <2>1, <3>2 DEF IInv, TableInv
  <2> QED
    BY <2>2, <2>3, <2>4, <2>5 DEF IInv
<1>3. CASE UNCHANGED vars
  BY <1>3 DEF vars, IInv, TypeOK, GuestInv, ClientInv, Current, InProgress, Place, Learnt,
     ListOf, SignOf, Asked, NoteOf, RingKeys, CapiKeys, CommentsOf, About, Stored, Named,
     TableInv
<1> QED
  BY <1>1, <1>2, <1>3 DEF Next

-----------------------------------------------------------------------------
(* The safety properties. *)

\* The invariant holds in every reachable state.
THEOREM Inductive == Spec => []IInv
  BY InitIInv, NextIInv, PTL DEF Spec

\* The variables of the agents and of the requests keep their types.
THEOREM TypeCorrect == Spec => []TypeOK
<1>1. IInv => TypeOK
  BY DEF IInv
<1> QED
  BY Inductive, <1>1, PTL

\* The list WrappedAgent puts together from two calls has all that was there
\* throughout, and nothing that never was.
THEOREM ListSafe == Spec => []ListIsRegular
<1>1. IInv => ListIsRegular
  BY DEF IInv, ClientInv, ListOf, ListIsRegular
<1> QED
  BY Inductive, <1>1, PTL

\* SignWithFlags of WrappedAgent fails only when all agents have refused, and
\* none refuses or signs without reason.
THEOREM SignSafe == Spec => []SignTriesAll
<1>1. IInv => SignTriesAll
  BY DEF IInv, ClientInv, SignOf, SignTriesAll
<1> QED
  BY Inductive, <1>1, PTL

\* The notifications of KeyRingAgent name the key by a comment it had.
THEOREM NoteSafe == Spec => []NotificationIsTrue
<1>1. IInv => NotificationIsTrue
  BY DEF IInv, ClientInv, NoteOf, NotificationIsTrue
<1> QED
  BY Inductive, <1>1, PTL

\* A step in which the CAPIAgent signs is CapiSign of that client.
LEMMA SignedStep ==
  ASSUME IInv, NEW cl \in Clients, Operation(cl), NEW d \in Clients,
         res[d] # res'[d], res'[d].kind = "sig", res'[d].from = "capi"
  PROVE  d = cl /\ CapiMaySign(req[d].key, req[d].flags)
<1>1. d = cl
  BY OthersKept DEF IInv
<1>2. CapiSign(cl)
  <2> USE <1>1 DEF IInv, TypeOK, Answer, Nothing, Error, Done
  <2>1. ~Call(cl) /\ ~Receive(cl) /\ ~FindKeyComment(cl)
    BY DEF Call, Receive, FindKeyComment
  <2>2. ~ListRing(cl)
    BY DEF ListRing
  <2>6. ~ListCapi(cl)
    <3>1. ListCapi(cl) => res'[cl].kind \in {"keys", "err"}
      BY DEF ListCapi, CapiList
    <3> QED
      BY <3>1
  <2>5. ~RingSign(cl)
    BY DEF RingSign
  <2>3. ~Add(cl) /\ ~Remove(cl) /\ ~RemoveAll(cl) /\ ~Lock(cl) /\ ~Unlock(cl) /\ ~Extension(cl)
    BY DEF Add, Remove, RemoveAll, Lock, Unlock, Extension
  <2>4. ~HVDial(cl) /\ ~HVList(cl) /\ ~HVSign(cl) /\ ~HVNotImplemented(cl)
    BY DEF HVDial, HVList, HVSign, HVNotImplemented
  <2> QED
    BY <2>1, <2>2, <2>3, <2>4, <2>5, <2>6 DEF Operation
<1>3. res'[cl] # Error
  BY <1>1 DEF Error
<1> QED
  BY <1>1, <1>2, <1>3 DEF CapiSign, Answer, IInv, TypeOK

\* A certificate that has left the store signs only until the next List,
\* whichever connection makes it and whether or not it succeeds.
THEOREM StaleSafe == Spec => ListForgetsRemoved
<1>1. IInv /\ [Next]_vars =>
        [\A cl \in Clients :
           res[cl] # res'[cl] /\ res'[cl].kind = "sig" /\ res'[cl].from = "capi" =>
             req[cl].key \in since]_vars
  <2> SUFFICES ASSUME IInv, Next, NEW d \in Clients, res[d] # res'[d],
                      res'[d].kind = "sig", res'[d].from = "capi"
               PROVE  req[d].key \in since
    OBVIOUS
  <2>1. PICK cl \in Clients : Operation(cl)
    BY DEF Next, Expire, StoreChange, call
  <2>2. req[d].key \in SignTable.keys
    BY <2>1, SignedStep DEF CapiMaySign
  <2> QED
    BY <2>2 DEF IInv, TableInv, SignTable, Loaded
<1> QED
  BY Inductive, <1>1, PTL DEF Spec, ListForgetsRemoved
=============================================================================
