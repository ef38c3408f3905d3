------------------------------ MODULE Ratchet ------------------------------
(***************************************************************************)
(* The Double Ratchet of the web SDK: RatchetEngine                        *)
(* (web_sdk/src/crypto/ratchet-engine.ts) and the handlers of              *)
(* OneToOneConversation that load, advance and save its state.             *)
(*                                                                         *)
(* A conversation has no RatchetState at first, and the SDK never gives it *)
(* one: openConversation saves its states under an id of its own making,   *)
(* while the conversation has the id the server answers with, and nothing  *)
(* but ratchet-engine.test.ts calls initReceiver.  Establish is what that  *)
(* test does, so that the engine and its callers can be checked together.  *)
(*                                                                         *)
(* Keys are terms: a root key is the sequence of the Diffie-Hellman        *)
(* outputs that went into it, a chain key is a root key and how often it   *)
(* was advanced, a message key is the chain key it is derived from, and    *)
(* decryption succeeds with the key of the encryption.  The network, which *)
(* stands for the server, loses, repeats and reorders.                     *)
(***************************************************************************)
EXTENDS Naturals, FiniteSets, Sequences, Functions, TLC

CONSTANTS
    Call,       \* calls of send, onIncomingMessage and fetchHistory ...
    Owner,      \* ... and the party of each: a party's calls may overlap
    MAX_SKIP,   \* 2000 in the code
    MaxSend,    \* how many messages a party encrypts (bounds the model)
    MaxReload,  \* page reloads (bounds the model)
    None

Party == {"initiator", "responder"}

ASSUME RatchetAssumption ==
    /\ {MAX_SKIP, MaxReload} \subseteq Nat
    /\ MaxSend \in [Party -> Nat]
    /\ Owner \in [Call -> Party]

VARIABLES
    stored,     \* the RatchetState each party has in its SessionStore
    call,       \* None, or what the call has in its local variables
    keys,       \* key pairs generated so far
    made,       \* messages encrypted and saved
    net,        \* messages the server has
    used,       \* <<party, message>> whose key has left the stored state
    shown,      \* <<party, message>> emitted to the application
    again,      \* <<party, message>> emitted once more
    reloads,    \* page reloads so far
    lost        \* a save has overwritten that of a call it overlapped with

vars == <<stored, call, keys, made, net, used, shown, again, reloads, lost>>

(***************************************************************************)
(* Keys.                                                                   *)
(***************************************************************************)

Dh(a, b) == {a, b}

\* ratchetKdf: the new root key and the chain that starts at it.
RatchetKdf(root, dh) == Append(root, dh)
ChainOf(root)        == [root |-> root, n |-> 0]

\* new Uint8Array(32), as a chain key and as a public key
ZeroChain == [root |-> <<{}>>, n |-> 0]
ZeroKey   == 0

\* chainKdf, k times: the message key is named by the chain key it comes from.
Advance(chain, k) == [chain EXCEPT !.n = @ + k]

(***************************************************************************)
(* RatchetEngine.                                                          *)
(***************************************************************************)

InitSender(own, peer) ==
    LET root == RatchetKdf(<<>>, Dh(own, peer))
    IN  [root |-> root, send |-> ChainOf(root), recv |-> ZeroChain, dhSend |-> own,
         dhRecv |-> peer, nSend |-> 0, nRecv |-> 0, pn |-> 0, skipped |-> <<>>]

InitReceiver(own) ==
    [root |-> <<>>, send |-> ZeroChain, recv |-> ZeroChain, dhSend |-> own,
     dhRecv |-> ZeroKey, nSend |-> 0, nRecv |-> 0, pn |-> 0, skipped |-> <<>>]

\* The message that encrypt returns (the id tells the plaintexts apart), ...
Encrypted(p, s, id) ==
    [type |-> "double_ratchet", from |-> p, id |-> id,
     dh |-> s.dhSend, n |-> s.nSend, pn |-> s.pn, key |-> s.send]

\* Mutant: the chain key is not advanced.
AfterEncryptSame(s) == [s EXCEPT !.nSend = @ + 1]

\* ... and its nextSession.
AfterEncrypt(s) == [s EXCEPT !.send = Advance(@, 1), !.nSend = @ + 1]

\* Mutant: the keys about to be kept are not counted.
TooManyKept(s, until) == until > s.nRecv /\ Cardinality(DOMAIN s.skipped) > MAX_SKIP

TooMany(s, until) ==
    until > s.nRecv /\ Cardinality(DOMAIN s.skipped) + (until - s.nRecv) > MAX_SKIP

\* skipMessageKeys, unless TooMany
SkipMessageKeys(s, until) ==
    IF s.nRecv >= until THEN s
    ELSE [s EXCEPT !.recv = Advance(@, until - s.nRecv),
                   !.nRecv = until,
                   !.skipped = [x \in {s.dhRecv} \X (s.nRecv .. until - 1) |->
                                   Advance(s.recv, x[2] - s.nRecv)] @@ @]

\* Mutant: the length of the previous sending chain is not recorded.
DhRatchetStepNoPn(s, dh, fresh) ==
    LET root1 == RatchetKdf(s.root, Dh(s.dhSend, dh))
        root2 == RatchetKdf(root1, Dh(fresh, dh))
    IN  [s EXCEPT !.root = root2, !.send = ChainOf(root2), !.recv = ChainOf(root1),
                  !.dhSend = fresh, !.dhRecv = dh, !.nSend = 0, !.nRecv = 0]

DhRatchetStep(s, dh, fresh) ==
    LET root1 == RatchetKdf(s.root, Dh(s.dhSend, dh))
        root2 == RatchetKdf(root1, Dh(fresh, dh))
    IN  [s EXCEPT !.root = root2, !.send = ChainOf(root2), !.recv = ChainOf(root1),
                  !.dhSend = fresh, !.dhRecv = dh, !.nSend = 0, !.nRecv = 0, !.pn = s.nSend]

\* Mutant: the key stays.
WithoutSkippedSame(s, x) == s

\* nextSkipped.delete
WithoutSkipped(s, x) == [s EXCEPT !.skipped = Restrict(@, DOMAIN @ \ {x})]

\* nextSession of decrypt, or None if it throws.
Decrypt(s, m, fresh) ==
    IF <<m.dh, m.n>> \in DOMAIN s.skipped
    THEN IF s.skipped[<<m.dh, m.n>>] = m.key THEN WithoutSkipped(s, <<m.dh, m.n>>) ELSE None
    ELSE LET turns   == m.dh # s.dhRecv
             turned  == IF turns THEN DhRatchetStep(SkipMessageKeys(s, m.pn), m.dh, fresh) ELSE s
             reached == SkipMessageKeys(turned, m.n)
         IN  IF \/ turns /\ TooMany(s, m.pn)
                \/ TooMany(turned, m.n)
                \/ reached.recv # m.key
             THEN None
             ELSE [reached EXCEPT !.recv = Advance(@, 1), !.nRecv = @ + 1]

(***************************************************************************)
(* OneToOneConversation.  Each await of a handler ends a step, so that the *)
(* calls of a party may overlap.                                           *)
(***************************************************************************)

Init ==
    /\ stored = [p \in Party |-> None]
    /\ call = [k \in Call |-> None]
    /\ keys = 2
    /\ made = {}
    /\ net = {}
    /\ used = {}
    /\ shown = {}
    /\ again = {}
    /\ reloads = 0
    /\ lost = FALSE

\* The envelope of openConversation: nothing but its type and sender is ever read.
Opening == [type |-> "x3dh_init", from |-> "initiator", id |-> 0]

\* openConversation: its states go under an id that is not the conversation's.
OpenConversation ==
    /\ Opening \notin net
    /\ net' = net \cup {Opening}
    /\ UNCHANGED <<stored, call, keys, made, used, shown, again, reloads, lost>>

\* initPair of the test: a state for the party, under the id of the conversation.
Establish(p) ==
    /\ stored[p] = None
    /\ stored' = [stored EXCEPT ![p] = IF p = "initiator" THEN InitSender(1, 2)
                                       ELSE InitReceiver(2)]
    /\ UNCHANGED <<call, keys, made, net, used, shown, again, reloads, lost>>

MadeBy(p) == {m \in made : m.from = p}

\* The state is no longer the one the call has loaded.
Overwrites(k) == lost \/ stored[Owner[k]] # call[k].s

\* loadRatchetState, in send and in sendAttachment: without a state they throw, ...
SendLoad(k) ==
    /\ call[k] = None
    /\ stored[Owner[k]] # None
    /\ Cardinality(MadeBy(Owner[k])) < MaxSend[Owner[k]]
    /\ call' = [call EXCEPT ![k] = [at |-> "encrypt", s |-> stored[Owner[k]], m |-> None]]
    /\ UNCHANGED <<stored, keys, made, net, used, shown, again, reloads, lost>>

\* encrypt and saveRatchetState, before the request ...
SendSave(k) ==
    /\ call[k] # None /\ call[k].at = "encrypt"
    /\ LET p == Owner[k]
           m == Encrypted(p, call[k].s, Cardinality(MadeBy(p)) + 1)
       IN  /\ stored' = [stored EXCEPT ![p] = AfterEncrypt(call[k].s)]
           /\ made' = made \cup {m}
           /\ call' = [call EXCEPT ![k] = [@ EXCEPT !.at = "post", !.m = m]]
    /\ lost' = Overwrites(k)
    /\ UNCHANGED <<keys, net, used, shown, again, reloads>>

\* ... and rest.sendMessage, which may fail.
SendPost(k) ==
    /\ call[k] # None /\ call[k].at = "post"
    /\ \/ net' = net \cup {call[k].m}
       \/ UNCHANGED net
    /\ call' = [call EXCEPT ![k] = None]
    /\ UNCHANGED <<stored, keys, made, used, shown, again, reloads, lost>>

\* There is a state, and the header is one the ratchet knows.
Readable(p, m) == stored[p] # None /\ m.type = "double_ratchet"

\* loadRatchetState, in onIncomingMessage, and for each message in fetchHistory:
\* the party's own messages are among them, and those it has shown.
ReceiveLoad(k, m) ==
    /\ call[k] = None
    /\ LET at == IF Readable(Owner[k], m) THEN "decrypt" ELSE "error"
       IN  call' = [call EXCEPT ![k] = [at |-> at, s |-> stored[Owner[k]], m |-> m]]
    /\ UNCHANGED <<stored, keys, made, net, used, shown, again, reloads, lost>>

\* decrypt and saveRatchetState, or an error and nothing saved
ReceiveSave(k) ==
    /\ call[k] # None /\ call[k].at = "decrypt"
    /\ LET p    == Owner[k]
           m    == call[k].m
           next == Decrypt(call[k].s, m, keys + 1)
       IN  \/ /\ next # None
              /\ stored' = [stored EXCEPT ![p] = next]
              /\ keys' = IF next.dhSend = keys + 1 THEN keys + 1 ELSE keys
              /\ lost' = Overwrites(k)
              /\ used' = used \cup {<<p, m>>}
              /\ call' = [call EXCEPT ![k] = [@ EXCEPT !.at = "emit"]]
           \/ /\ next = None
              /\ call' = [call EXCEPT ![k] = [@ EXCEPT !.at = "error"]]
              /\ UNCHANGED <<stored, keys, used, lost>>
    /\ UNCHANGED <<made, net, shown, again, reloads>>

\* emit('message'), or a message of the result of fetchHistory
ReceiveEmit(k) ==
    /\ call[k] # None /\ call[k].at = "emit"
    /\ LET x == <<Owner[k], call[k].m>>
       IN  /\ again' = IF x \in shown THEN again \cup {x} ELSE again
           /\ shown' = shown \cup {x}
    /\ call' = [call EXCEPT ![k] = None]
    /\ UNCHANGED <<stored, keys, made, net, used, reloads, lost>>

\* makeDecryptionErrorMessage, or a message with decryptionError in the result
ReceiveError(k) ==
    /\ call[k] # None /\ call[k].at = "error"
    /\ call' = [call EXCEPT ![k] = None]
    /\ UNCHANGED <<stored, keys, made, net, used, shown, again, reloads, lost>>

\* The page is reloaded: what was saved is all that is left.
Reload(p) ==
    /\ reloads < MaxReload
    /\ reloads' = reloads + 1
    /\ \E k \in Call : call[k] # None /\ Owner[k] = p
    /\ call' = [k \in Call |-> IF Owner[k] = p THEN None ELSE call[k]]
    /\ UNCHANGED <<stored, keys, made, net, used, shown, again, lost>>

Next ==
    \/ \E k \in Call :
          \/ SendLoad(k)
          \/ SendSave(k)
          \/ SendPost(k)
          \/ \E m \in net : ReceiveLoad(k, m)
          \/ ReceiveSave(k)
          \/ ReceiveEmit(k)
          \/ ReceiveError(k)
    \/ \E p \in Party : Reload(p) \/ Establish(p)
    \/ OpenConversation

Spec == Init /\ [][Next]_vars

(***************************************************************************)
(* Properties.                                                             *)
(***************************************************************************)

\* The stored states are well formed, and never keep more than MAX_SKIP keys.
TypeOK ==
    \A p \in Party : stored[p] # None =>
        /\ {stored[p].nSend, stored[p].pn} \subseteq 0 .. MaxSend[p]
        /\ \A q \in Party \ {p} : stored[p].nRecv <= MaxSend[q]
        /\ {stored[p].dhSend, stored[p].dhRecv} \subseteq 0 .. keys
        /\ Cardinality(DOMAIN stored[p].skipped) <= MAX_SKIP

\* Messages before m whose keys p has not used.
Missing(p, m) == {x \in made : x.from = m.from /\ x.id < m.id /\ <<p, x>> \notin used}

\* Once a party has a session, a message of its peer's session can be decrypted when
\* it arrives for the first time, in a frame or in the history, in whatever order,
\* after whatever losses, repetitions and reloads, unless more than MAX_SKIP messages
\* before it are missing.  Without a session, which is all the SDK ever has, every
\* delivery is an error, and the message of openConversation always is.  Nothing keeps
\* the calls of a conversation apart: this holds of a call whose state is still the
\* stored one, and all three hold until a call saves what it made from a state that
\* was replaced.
FirstDeliveryDecrypts ==
    \A k \in Call :
        ~lost /\ call[k] # None /\ call[k].at = "error" =>
            \/ call[k].s = None \/ call[k].m = Opening
            \/ call[k].s # stored[Owner[k]]
            \/ call[k].m.from = Owner[k]
            \/ <<Owner[k], call[k].m>> \in used
            \/ Cardinality(Missing(Owner[k], call[k].m)) > MAX_SKIP

\* No two messages are encrypted with the same key, although the page may be
\* reloaded between any two awaits.
KeysUsedOnce == \A m, x \in made : ~lost /\ m.key = x.key => m = x

\* A message that arrives again is not emitted again.
EmittedOnce == lost \/ again = {}
=============================================================================
