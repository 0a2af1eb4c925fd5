---------------------------- MODULE PacketStream ----------------------------
(***************************************************************************)
(* The incremental packet classes: packet_encryptor and packet_decryptor   *)
(* are handles that own at most one implementation object each and pass it *)
(* on when they are moved from.  An object is used once: begin, updates,   *)
(* finalize.  Every call may fail half way, and the callers then go on     *)
(* with any call they like.                                                *)
(*                                                                         *)
(* Encryption is ideal: a tag is the record of the secret (key and         *)
(* associated data), the nonce and the text that went into the backend's   *)
(* context, and of how often the header and the associated data did, so it *)
(* verifies only for these.                                                *)
(***************************************************************************)
EXTENDS Naturals, Sequences

CONSTANTS
    Encryptors, Decryptors,   \* the handles: variables of the two classes
    Objects,                  \* the implementation objects that handles own
    None,                     \* what a moved-from handle owns
    Secrets,                  \* pairs of a key and associated data
    Chunks,                   \* what one update call is given
    MaxNonces,                \* bound on the number of nonces drawn
    MaxChunks,                \* bound on the updates that reach a context
    Faults                    \* what may go wrong inside a call

ASSUME NoneAssumption == None \notin Objects
ASSUME ClassesAssumption == Encryptors \cap Decryptors = {}
ASSUME BoundsAssumption == MaxNonces \in Nat /\ MaxChunks \in Nat
ASSUME FaultsAssumption == Faults \subseteq {"backend", "late"}

VARIABLES
    owned,     \* handle -> object or None
    phase,     \* packet_stream_phase of an object, "unmade" before its constructor
    secret,    \* its key and associated data
    context,   \* its backend context
    drawn,     \* how many nonces were drawn
    prefix,    \* the nonce of the prefix that begin returned or was given
    shown,     \* the chunks that updates of the object returned
    broken,    \* an update of the object failed inside the backend
    tags,      \* the tags that finalize calls of encryptors returned
    accepted,  \* what finalize calls of decryptors accepted
    misused    \* a call has reached a context that the backend had released

observed == <<prefix, shown, broken, tags, accepted>>
vars == <<owned, phase, secret, context, drawn, prefix, shown, broken, tags, accepted, misused>>

Handles == Encryptors \cup Decryptors
Phases == {"unmade", "ready", "active", "finished"}

NoNonce == 0
Nonces == 1 .. MaxNonces
Texts == UNION {[1 .. n -> Chunks] : n \in 0 .. MaxChunks}

\* The context pointer is empty, or leads to a backend context that works, or to
\* one whose own pointer finalize has emptied.
NoContext == [state |-> "none", nonce |-> NoNonce, text |-> <<>>, bound |-> 0]
Contexts ==
    {NoContext} \cup [state : {"open", "released"}, nonce : Nonces, text : Texts, bound : 0 .. 1]

Tag(s, c) == [secret |-> s, nonce |-> c.nonce, text |-> c.text, bound |-> c.bound]

May(fault) == fault \in Faults

Init ==
    /\ owned = [h \in Handles |-> None]
    /\ phase = [o \in Objects |-> "unmade"]
    /\ secret \in [Objects -> Secrets]
    /\ context = [o \in Objects |-> NoContext]
    /\ drawn = 0
    /\ prefix = [o \in Objects |-> NoNonce]
    /\ shown = [o \in Objects |-> <<>>]
    /\ broken = [o \in Objects |-> FALSE]
    /\ tags = {}
    /\ accepted = {}
    /\ misused = FALSE

-----------------------------------------------------------------------------
(* Handles.                                                                *)

\* The constructors; the object that the variable owned is destroyed.
Construct(h) ==
    \E o \in Objects :
        /\ phase[o] = "unmade"
        /\ owned' = [owned EXCEPT ![h] = o]
        /\ phase' = [phase EXCEPT ![o] = "ready"]
        /\ UNCHANGED <<secret, context, drawn, observed, misused>>

\* The move constructors and assignments: what the handle k owned is destroyed.
Move(h, k) ==
    /\ h # k
    /\ h \in Encryptors <=> k \in Encryptors
    /\ owned' = [owned EXCEPT ![k] = owned[h], ![h] = None]
    /\ UNCHANGED <<phase, secret, context, drawn, observed, misused>>

\* (Mutant.) Only a second begin in a row is refused.
NotActive(h) == owned[h] # None /\ phase[owned[h]] # "active"

\* What a call may do: a handle without an object and an object in the wrong phase
\* are refused with invalid_input and nothing changes.
Ready(h) == owned[h] # None /\ phase[owned[h]] = "ready"
Active(h) == owned[h] # None /\ phase[owned[h]] = "active"

-----------------------------------------------------------------------------
(* begin.                                                                  *)

\* (Mutant.) A context that a failed begin left is used again.
KeptContext(old, n) ==
    IF old.state = "open" THEN old ELSE [state |-> "open", nonce |-> n, text |-> <<>>, bound |-> 0]

\* A fresh context replaces whatever an earlier, failed begin left.
NewContext(old, n) == [state |-> "open", nonce |-> n, text |-> <<>>, bound |-> 0]

\* The two update_aad calls: the header, then the associated data.
Bound(c) == [c EXCEPT !.bound = 1]

\* The steps up to the change of phase, of which any may fail: nothing remains of
\* them, or a new context that has or has not been given the associated data.
ContextMade(o, n) == context' = [context EXCEPT ![o] = Bound(NewContext(@, n))]

ContextFails(o, n) ==
    /\ May("backend")
    /\ context' \in {context, [context EXCEPT ![o] = NewContext(@, n)],
                     [context EXCEPT ![o] = Bound(NewContext(@, n))]}

Activate(o) == phase' = [phase EXCEPT ![o] = "active"]

\* The object is active before its prefix is put together: when that allocation
\* fails the prefix is lost.
EncryptBegin(h) ==
    /\ Ready(h)
    /\ drawn < MaxNonces
    /\ drawn' = drawn + 1
    /\ \/ /\ ContextMade(owned[h], drawn')
          /\ Activate(owned[h])
          /\ \/ prefix' = [prefix EXCEPT ![owned[h]] = drawn']
             \/ May("late") /\ UNCHANGED prefix
       \/ ContextFails(owned[h], drawn') /\ UNCHANGED <<phase, prefix>>
    /\ UNCHANGED <<owned, secret, shown, broken, tags, accepted, misused>>

\* A malformed prefix is refused before anything changes; any other one names a
\* nonce, whether or not a packet has it.
DecryptBegin(h) ==
    /\ Ready(h)
    /\ \E n \in Nonces :
          /\ prefix' = [prefix EXCEPT ![owned[h]] = n]
          /\ \/ ContextMade(owned[h], n) /\ Activate(owned[h])
             \/ ContextFails(owned[h], n) /\ UNCHANGED phase
    /\ UNCHANGED <<owned, secret, drawn, shown, broken, tags, accepted, misused>>

-----------------------------------------------------------------------------
(* update and finalize.                                                    *)

Open(h) == Active(h) /\ context[owned[h]].state = "open"

\* (Mutant.) The chunk is returned and the backend never sees it.
Unfed(c, x) == c

\* The context after one more chunk.
Fed(c, x) == [c EXCEPT !.text = Append(@, x)]

Update(h) ==
    /\ Open(h)
    /\ Len(context[owned[h]].text) < MaxChunks
    /\ Len(shown[owned[h]]) < MaxChunks
    /\ \E x \in Chunks :
          /\ context' = [context EXCEPT ![owned[h]] = Fed(@, x)]
          /\ shown' = [shown EXCEPT ![owned[h]] = Append(@, x)]
    /\ UNCHANGED <<owned, phase, secret, drawn, prefix, broken, tags, accepted, misused>>

\* A chunk that is too long and a result that cannot be allocated are refused before
\* the backend sees the chunk, and nothing changes.  When the backend itself fails
\* it may have taken the chunk in, and the caller gets nothing.
UpdateFails(h) ==
    /\ May("backend")
    /\ Open(h)
    /\ Len(context[owned[h]].text) < MaxChunks
    /\ \E x \in Chunks :
          context' \in {context, [context EXCEPT ![owned[h]] = Fed(@, x)]}
    /\ broken' = [broken EXCEPT ![owned[h]] = TRUE]
    /\ UNCHANGED <<owned, phase, secret, drawn, prefix, shown, tags, accepted, misused>>

\* Any call that reaches the context of an object after the backend emptied it: it
\* follows a null pointer, and the program ends or does anything.
UseReleased(h) ==
    /\ Active(h)
    /\ context[owned[h]].state # "open"
    /\ misused' = TRUE
    /\ UNCHANGED <<owned, phase, secret, context, drawn, observed>>

\* (Mutant.) The context goes, and the object stays active.
OnlyReset(o) == context' = [context EXCEPT ![o] = NoContext] /\ UNCHANGED phase

\* context.reset() and the phase.
Finish(o) ==
    /\ context' = [context EXCEPT ![o] = NoContext]
    /\ phase' = [phase EXCEPT ![o] = "finished"]

EncryptFinalize(h) ==
    LET o == owned[h] IN
    /\ Open(h)
    /\ Finish(o)
    /\ tags' = tags \cup {[object |-> o, tag |-> Tag(secret[o], context[o])]}
    /\ UNCHANGED <<owned, secret, drawn, prefix, shown, broken, accepted, misused>>

\* The backend has let go of its context before the copy of the tag is allocated;
\* when that fails the object stays active.  A backend that fails itself keeps its
\* context, and nothing changes that these properties can tell apart.
EncryptFinalizeFails(h) ==
    /\ May("late")
    /\ Open(h)
    /\ context' = [context EXCEPT ![owned[h]].state = "released"]
    /\ UNCHANGED <<owned, phase, secret, drawn, observed, misused>>

\* The tag is the one of this secret and of this context.
Verifies(t, o) == t.tag = Tag(secret[o], context[o])

\* Whether the tag is of the wrong size, wrong, or the backend fails: the context
\* is dropped and the object is finished, as it is after success.
DecryptFinalize(h) ==
    LET o == owned[h] IN
    /\ Open(h)
    /\ Finish(o)
    /\ \/ UNCHANGED accepted
       \/ \E t \in tags :
             /\ Verifies(t, o)
             /\ accepted' = accepted \cup {[object |-> o, packet |-> t.object]}
    /\ UNCHANGED <<owned, secret, drawn, prefix, shown, broken, tags, misused>>

-----------------------------------------------------------------------------

Next ==
    /\ ~misused
    /\ \/ \E h \in Handles : Construct(h) \/ Update(h) \/ UpdateFails(h) \/ UseReleased(h)
       \/ \E h, k \in Handles : Move(h, k)
       \/ \E h \in Encryptors : EncryptBegin(h) \/ EncryptFinalize(h) \/ EncryptFinalizeFails(h)
       \/ \E h \in Decryptors : DecryptBegin(h) \/ DecryptFinalize(h)

Spec == Init /\ [][Next]_vars

-----------------------------------------------------------------------------
(* Properties.                                                             *)

\* The types, and how the phase of an object and its context agree between calls:
\* an active object always has a context to call, a finished one has none.
TypeOK ==
    /\ owned \in [Handles -> Objects \cup {None}]
    /\ phase \in [Objects -> Phases]
    /\ secret \in [Objects -> Secrets]
    /\ context \in [Objects -> Contexts]
    /\ drawn \in 0 .. MaxNonces
    /\ prefix \in [Objects -> Nonces \cup {NoNonce}]
    /\ shown \in [Objects -> Texts]
    /\ broken \in [Objects -> BOOLEAN]
    /\ tags \subseteq [object : Objects,
                       tag : [secret : Secrets, nonce : Nonces, text : Texts, bound : 0 .. 1]]
    /\ accepted \subseteq [object : Objects, packet : Objects]
    /\ misused \in BOOLEAN
    /\ \A o \in Objects :
          /\ phase[o] \in {"unmade", "finished"} => context[o] = NoContext
          /\ phase[o] = "active" => context[o].state # "none" /\ context[o].bound = 1

\* A tag that finalize returns covers what the calls before it returned: the
\* prefix (unless begin failed after the object became active), the chunks (unless
\* an update failed in the backend), and the header and associated data, once.
\* Failed begin and update calls in between, and their repetition, leave no trace.
TagCoversWhatWasReturned ==
    \A t \in tags :
        /\ t.tag.secret = secret[t.object]
        /\ t.tag.bound = 1
        /\ prefix[t.object] # NoNonce => t.tag.nonce = prefix[t.object]
        /\ ~broken[t.object] => t.tag.text = shown[t.object]

\* What a decryptor accepts is what an encryptor with the same key and associated
\* data produced under the prefix that begin was given, chunk by chunk, however
\* often begin failed before or with whichever prefix.
AcceptedIsSealed ==
    \A a \in accepted :
        /\ secret[a.object] = secret[a.packet]
        /\ prefix[a.packet] \in {NoNonce, prefix[a.object]}
        /\ ~broken[a.object] /\ ~broken[a.packet] => shown[a.object] = shown[a.packet]

\* Objects are one-shot, through whichever handle they are reached: a packet has one
\* prefix and one tag, nothing follows the tag, and no nonce serves two packets.
OneShot ==
    /\ \A t, u \in tags : t.tag.nonce = u.tag.nonce \/ t.object = u.object => t = u
    /\ \A t \in tags : phase[t.object] = "finished"

\* README.md: the classes are one-shot and invalid sequencing raises invalid_input;
\* no sequence of calls makes one follow a pointer that finalize has emptied.
ReleasedIsNeverUsed == ~misused
=============================================================================
