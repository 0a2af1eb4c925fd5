------------------------- MODULE PacketStreamProofs -------------------------
(***************************************************************************)
(* Proofs about the packet classes for every number of handles, objects,   *)
(* secrets, nonces and chunks.                                             *)
(***************************************************************************)
EXTENDS PacketStream, SequenceTheorems, TLAPS

\* A text with room for one more chunk stays a text when it gets it.
LEMMA TextGrows ==
    /\ <<>> \in Texts
    /\ \A s \in Texts, x \in Chunks : Len(s) < MaxChunks => Append(s, x) \in Texts
<1> USE BoundsAssumption DEF Texts
<1>1. <<>> \in Texts
  <2>1. <<>> \in [1 .. 0 -> Chunks] /\ 0 \in 0 .. MaxChunks
    OBVIOUS
  <2> QED BY <2>1
<1>2. ASSUME NEW n \in 0 .. MaxChunks, NEW s \in [1 .. n -> Chunks], NEW x \in Chunks, Len(s) < MaxChunks
      PROVE  Append(s, x) \in Texts
  <2>1. s \in Seq(Chunks) /\ Len(s) = n
    BY <1>2
  <2>2. Append(s, x) \in Seq(Chunks) /\ Len(Append(s, x)) = n + 1
    BY <2>1, AppendProperties
  <2>3. Append(s, x) \in [1 .. n + 1 -> Chunks]
    BY <2>2, LenProperties
  <2>4. n + 1 \in 0 .. MaxChunks
    BY <1>2, <2>1
  <2> QED BY <2>3, <2>4
<1> QED BY <1>1, <1>2

\* The initial states have their types.
LEMMA TypeInit == Init => TypeOK
<1> SUFFICES ASSUME Init PROVE TypeOK
  OBVIOUS
<1>1. context \in [Objects -> Contexts] /\ \A o \in Objects : context[o] = NoContext
  BY DEF Init, Contexts
<1>2. phase \in [Objects -> Phases] /\ shown \in [Objects -> Texts] /\ drawn \in 0 .. MaxNonces
  BY TextGrows, BoundsAssumption DEF Init, Phases
<1> QED BY <1>1, <1>2 DEF Init, TypeOK

\* Every step that begins a packet leaves a context that has a type.
LEMMA ContextType ==
    ASSUME NEW old, NEW n \in Nonces
    PROVE  /\ NewContext(old, n) \in Contexts /\ Bound(NewContext(old, n)) \in Contexts
           /\ Bound(NewContext(old, n)) = [state |-> "open", nonce |-> n, text |-> <<>>, bound |-> 1]
           /\ NewContext(old, n) # NoContext
BY TextGrows DEF Contexts, NewContext, Bound, NoContext

\* An open context takes one more chunk.
LEMMA FedType ==
    ASSUME NEW c \in Contexts, c.state = "open", NEW x \in Chunks, Len(c.text) < MaxChunks
    PROVE  /\ Fed(c, x) \in Contexts /\ Fed(c, x).state = "open"
           /\ Fed(c, x).nonce = c.nonce /\ Fed(c, x).bound = c.bound
           /\ Fed(c, x).text = Append(c.text, x)
<1>1. c \in [state : {"open", "released"}, nonce : Nonces, text : Texts, bound : 0 .. 1]
  BY DEF Contexts, NoContext
<1>2. Append(c.text, x) \in Texts
  BY <1>1, TextGrows
<1> QED BY <1>1, <1>2 DEF Contexts, Fed

\* What a tag is made of.
LEMMA TagType ==
    ASSUME NEW s \in Secrets, NEW c \in Contexts, c.state = "open"
    PROVE  Tag(s, c) \in [secret : Secrets, nonce : Nonces, text : Texts, bound : 0 .. 1]
BY DEF Contexts, NoContext, Tag

\* Nothing that a call changes leaves its type, and phase and context keep agreeing.
LEMMA TypeStep == TypeOK /\ [Next]_vars => TypeOK'
<1> SUFFICES ASSUME TypeOK, [Next]_vars PROVE TypeOK'
  OBVIOUS
<1> USE DEF TypeOK, Handles, observed
<1>own. \A h \in Handles : owned[h] # None => owned[h] \in Objects
  OBVIOUS
<1>1. ASSUME NEW h \in Handles, Construct(h) PROVE TypeOK'
  BY <1>1 DEF Construct, Phases
<1>2. ASSUME NEW h \in Handles, NEW k \in Handles, Move(h, k) PROVE TypeOK'
  BY <1>2 DEF Move
<1>3. ASSUME NEW o \in Objects, NEW n \in Nonces,
             \/ ContextMade(o, n) /\ Activate(o)
             \/ ContextFails(o, n) /\ UNCHANGED phase /\ phase[o] = "ready"
      PROVE  /\ context' \in [Objects -> Contexts] /\ phase' \in [Objects -> Phases]
             /\ \A u \in Objects :
                   /\ phase'[u] \in {"unmade", "finished"} => context'[u] = NoContext
                   /\ phase'[u] = "active" => context'[u].state # "none" /\ context'[u].bound = 1
  BY <1>3, ContextType DEF ContextMade, ContextFails, Activate, Phases
<1>4. ASSUME NEW h \in Encryptors, EncryptBegin(h) PROVE TypeOK'
  <2>1. owned[h] \in Objects /\ drawn' \in Nonces /\ drawn' \in 0 .. MaxNonces
    BY <1>4, <1>own, BoundsAssumption DEF EncryptBegin, Ready, Nonces
  <2>2. \/ ContextMade(owned[h], drawn') /\ Activate(owned[h])
        \/ ContextFails(owned[h], drawn') /\ UNCHANGED phase /\ phase[owned[h]] = "ready"
    BY <1>4 DEF EncryptBegin, Ready
  <2> QED BY <1>3, <1>4, <2>1, <2>2 DEF EncryptBegin
<1>5. ASSUME NEW h \in Decryptors, DecryptBegin(h) PROVE TypeOK'
  <2>1. owned[h] \in Objects
    BY <1>5, <1>own DEF DecryptBegin, Ready
  <2>2. PICK n \in Nonces :
           /\ prefix' = [prefix EXCEPT ![owned[h]] = n]
           /\ \/ ContextMade(owned[h], n) /\ Activate(owned[h])
              \/ ContextFails(owned[h], n) /\ UNCHANGED phase
    BY <1>5 DEF DecryptBegin
  <2>3. phase[owned[h]] = "ready"
    BY <1>5 DEF DecryptBegin, Ready
  <2> QED BY <1>3, <1>5, <2>1, <2>2, <2>3 DEF DecryptBegin
<1>6. ASSUME NEW h \in Handles, Update(h) PROVE TypeOK'
  <2>1. owned[h] \in Objects /\ phase[owned[h]] = "active" /\ context[owned[h]].state = "open"
        /\ Len(context[owned[h]].text) < MaxChunks /\ Len(shown[owned[h]]) < MaxChunks
    BY <1>6, <1>own DEF Update, Open, Active
  <2>2. PICK x \in Chunks : /\ context' = [context EXCEPT ![owned[h]] = Fed(@, x)]
                            /\ shown' = [shown EXCEPT ![owned[h]] = Append(@, x)]
    BY <1>6 DEF Update
  <2>3. Fed(context[owned[h]], x) \in Contexts /\ Fed(context[owned[h]], x).state = "open"
        /\ Fed(context[owned[h]], x).bound = context[owned[h]].bound
    BY <2>1, FedType
  <2>4. Append(shown[owned[h]], x) \in Texts
    BY <2>1, TextGrows
  <2> QED BY <1>6, <2>1, <2>2, <2>3, <2>4 DEF Update
<1>7. ASSUME NEW h \in Handles, UpdateFails(h) PROVE TypeOK'
  <2>1. owned[h] \in Objects /\ phase[owned[h]] = "active" /\ context[owned[h]].state = "open"
        /\ Len(context[owned[h]].text) < MaxChunks
    BY <1>7, <1>own DEF UpdateFails, Open, Active
  <2>2. PICK x \in Chunks : context' \in {context, [context EXCEPT ![owned[h]] = Fed(@, x)]}
    BY <1>7 DEF UpdateFails
  <2>3. Fed(context[owned[h]], x) \in Contexts /\ Fed(context[owned[h]], x).state = "open"
        /\ Fed(context[owned[h]], x).bound = context[owned[h]].bound
    BY <2>1, FedType
  <2> QED BY <1>7, <2>1, <2>2, <2>3 DEF UpdateFails
<1>8. ASSUME NEW h \in Handles, UseReleased(h) PROVE TypeOK'
  BY <1>8 DEF UseReleased
<1>9. ASSUME NEW h \in Encryptors, EncryptFinalize(h) PROVE TypeOK'
  <2>1. owned[h] \in Objects /\ context[owned[h]].state = "open"
    BY <1>9, <1>own DEF EncryptFinalize, Open, Active
  <2>2. Tag(secret[owned[h]], context[owned[h]])
           \in [secret : Secrets, nonce : Nonces, text : Texts, bound : 0 .. 1]
    BY <2>1, TagType
  <2>3. NoContext \in Contexts
    BY DEF Contexts
  <2> QED BY <1>9, <2>1, <2>2, <2>3 DEF EncryptFinalize, Finish, Phases
<1>10. ASSUME NEW h \in Encryptors, EncryptFinalizeFails(h) PROVE TypeOK'
  <2>1. owned[h] \in Objects /\ phase[owned[h]] = "active" /\ context[owned[h]].state = "open"
    BY <1>10, <1>own DEF EncryptFinalizeFails, Open, Active
  <2>2. [context[owned[h]] EXCEPT !.state = "released"] \in Contexts
    BY <2>1 DEF Contexts, NoContext
  <2>3. context' = [context EXCEPT ![owned[h]] = [context[owned[h]] EXCEPT !.state = "released"]]
    BY <1>10 DEF EncryptFinalizeFails
  <2> QED BY <1>10, <2>1, <2>2, <2>3 DEF EncryptFinalizeFails, Contexts, NoContext
<1>11. ASSUME NEW h \in Decryptors, DecryptFinalize(h) PROVE TypeOK'
  <2>1. owned[h] \in Objects
    BY <1>11, <1>own DEF DecryptFinalize, Open, Active
  <2>2. accepted' \subseteq [object : Objects, packet : Objects]
    BY <1>11, <2>1 DEF DecryptFinalize
  <2>3. NoContext \in Contexts
    BY DEF Contexts
  <2> QED BY <1>11, <2>1, <2>2, <2>3 DEF DecryptFinalize, Finish, Phases
<1>12. CASE UNCHANGED vars
  BY <1>12 DEF vars
<1> QED BY <1>1, <1>2, <1>4, <1>5, <1>6, <1>7, <1>8, <1>9, <1>10, <1>11, <1>12 DEF Next

\* Every variable keeps its type; an active object has a context to call, to which the
\* header and the associated data were given, and a finished one has none.
THEOREM PacketTypes == Spec => []TypeOK
BY TypeInit, TypeStep, PTL DEF Spec

-----------------------------------------------------------------------------
(* The inductive invariant: who owns an object, what an object remembers   *)
(* of the calls it was used for, and whose nonce is whose.                 *)

\* An object is owned by one handle at most, and only after its constructor ran.
OneOwner ==
    /\ \A h, k \in Handles : owned[h] = owned[k] /\ owned[h] # None => h = k
    /\ \A h \in Handles : owned[h] # None => phase[owned[h]] # "unmade"

\* Before begin returns no chunk went through an object; only a decryptor that was
\* given a prefix has one.
Unused ==
    /\ \A o \in Objects : phase[o] \in {"unmade", "ready"} => shown[o] = <<>> /\ ~broken[o]
    /\ \A o \in Objects : phase[o] = "unmade" => prefix[o] = NoNonce
    /\ \A h \in Encryptors : Ready(h) => prefix[owned[h]] = NoNonce

\* The context of an active object has seen what the caller has.
Tracks ==
    /\ \A o \in Objects : phase[o] = "active" =>
          /\ prefix[o] # NoNonce => context[o].nonce = prefix[o]
          /\ ~broken[o] => context[o].text = shown[o]
    /\ \A h \in Decryptors : Active(h) => prefix[owned[h]] # NoNonce

\* No nonce that was drawn is in two packets, finished or not.
NoncesOnce ==
    /\ \A t \in tags : t.tag.nonce <= drawn
    /\ \A h \in Encryptors : Active(h) =>
          /\ context[owned[h]].nonce <= drawn
          /\ \A t \in tags : t.tag.nonce # context[owned[h]].nonce
          /\ \A k \in Encryptors : Active(k) /\ context[owned[k]].nonce = context[owned[h]].nonce => k = h

\* What was accepted, and what it was accepted as, is finished.
BothFinished ==
    \A a \in accepted : phase[a.object] = "finished" /\ phase[a.packet] = "finished"

Remembers == OneOwner /\ Unused /\ Tracks /\ NoncesOnce /\ BothFinished

Promises == TagCoversWhatWasReturned /\ AcceptedIsSealed /\ OneShot

PacketInvariant == Remembers /\ Promises

\* Before the first call there is nothing to remember.
LEMMA PacketInit == Init => PacketInvariant
BY NoneAssumption
   DEF Init, PacketInvariant, Remembers, Promises, OneOwner, Unused, Tracks, NoncesOnce, BothFinished,
       TagCoversWhatWasReturned, AcceptedIsSealed, OneShot, Handles, Ready, Active

\* The steps that only bring a handle and an object together keep the rest as it is.
LEMMA HandleStep ==
    ASSUME TypeOK, PacketInvariant, NEW h \in Handles,
           Construct(h) \/ UseReleased(h) \/ \E k \in Handles : Move(h, k)
    PROVE  PacketInvariant'
<1> USE NoneAssumption DEF TypeOK, observed
<1> USE DEF PacketInvariant, Remembers
<1>1. UNCHANGED <<secret, context, drawn, prefix, shown, broken, tags, accepted>>
  BY DEF Construct, UseReleased, Move
<1>2. \A o \in Objects : phase'[o] = phase[o] \/ (phase[o] = "unmade" /\ phase'[o] = "ready")
  BY DEF Construct, UseReleased, Move
<1>3. Promises' /\ BothFinished'
  BY <1>1, <1>2 DEF Promises, TagCoversWhatWasReturned, AcceptedIsSealed, OneShot, BothFinished
<1>4. CASE Construct(h)
  <2>1. PICK o \in Objects : /\ phase[o] = "unmade"
                             /\ owned' = [owned EXCEPT ![h] = o] /\ phase' = [phase EXCEPT ![o] = "ready"]
    BY <1>4 DEF Construct
  <2>2. \A g \in Handles : owned[g] # None => owned[g] # o
    BY <2>1 DEF OneOwner
  <2>3. OneOwner'
    BY <2>1, <2>2 DEF OneOwner, Handles
  <2>4. Unused'
    BY <1>1, <2>1, <2>2 DEF Unused, Ready, Handles
  <2>5. \A g \in Handles : Active(g)' => Active(g) /\ owned'[g] = owned[g]
    BY <2>1, <2>2 DEF Active, Handles
  <2>6. Tracks' /\ NoncesOnce'
    BY <1>1, <2>1, <2>5 DEF Tracks, NoncesOnce, Handles
  <2> QED BY <1>3, <2>3, <2>4, <2>6
<1>5. ASSUME NEW k \in Handles, Move(h, k) PROVE PacketInvariant'
  <2>1. /\ h # k /\ (h \in Encryptors <=> k \in Encryptors) /\ phase' = phase
        /\ \A g \in Handles : owned'[g] = IF g = h THEN None ELSE IF g = k THEN owned[h] ELSE owned[g]
    BY <1>5 DEF Move, Handles
  <2>2. OneOwner'
    BY <2>1 DEF OneOwner
  <2>3. Unused'
    BY <1>1, <2>1 DEF Unused, Ready, Handles
  <2>4. /\ ~Active(h)' /\ (Active(k)' => Active(h) /\ owned'[k] = owned[h])
        /\ \A g \in Handles \ {h, k} : (Active(g)' => Active(g)) /\ owned'[g] = owned[g]
    BY <2>1 DEF Active
  <2>5. Tracks'
    BY <1>1, <2>1, <2>4, ClassesAssumption DEF Tracks, Handles
  <2>6. NoncesOnce'
    <3>1. ASSUME NEW g \in Encryptors, Active(g)'
          PROVE  \E f \in Encryptors : Active(f) /\ owned'[g] = owned[f] /\ (f = g \/ (f = h /\ g = k))
      BY <2>1, <2>4, <3>1 DEF Handles
    <3> QED BY <1>1, <2>1, <2>4, <3>1 DEF NoncesOnce, Handles
  <2> QED BY <1>3, <2>2, <2>3, <2>5, <2>6
<1>6. CASE UseReleased(h)
  <2>1. UNCHANGED <<owned, phase>>
    BY <1>6 DEF UseReleased
  <2> QED BY <1>1, <1>3, <2>1 DEF OneOwner, Unused, Tracks, NoncesOnce, Ready, Active
<1> QED BY <1>4, <1>5, <1>6

\* A begin that succeeds gives the object a context that knows nothing yet, and an
\* encryptor a nonce that no packet has.
LEMMA BeginStep ==
    ASSUME TypeOK, TypeOK', PacketInvariant,
           (\E h \in Encryptors : EncryptBegin(h)) \/ (\E h \in Decryptors : DecryptBegin(h))
    PROVE  PacketInvariant'
<1> USE NoneAssumption, ClassesAssumption, BoundsAssumption DEF TypeOK, observed, Handles
<1> USE DEF PacketInvariant, Remembers
<1>1. PICK h \in Handles : (h \in Encryptors /\ EncryptBegin(h)) \/ (h \in Decryptors /\ DecryptBegin(h))
  OBVIOUS
<1> DEFINE o == owned[h]
<1>2. o \in Objects /\ phase[o] = "ready" /\ UNCHANGED <<owned, secret, shown, broken, tags, accepted>>
      /\ \A g \in Handles : owned[g] = o => g = h
  BY <1>1 DEF EncryptBegin, DecryptBegin, Ready, OneOwner
<1>3. PICK n \in Nonces :
         \/ /\ ContextMade(o, n) /\ Activate(o)
            /\ \/ h \in Encryptors /\ n = drawn + 1 /\ drawn' = n /\ prefix' \in {prefix, [prefix EXCEPT ![o] = n]}
               \/ h \in Decryptors /\ drawn' = drawn /\ prefix' = [prefix EXCEPT ![o] = n]
         \/ /\ ContextFails(o, n) /\ phase' = phase
            /\ \/ h \in Encryptors /\ n = drawn + 1 /\ drawn' = n /\ prefix' = prefix
               \/ h \in Decryptors /\ drawn' = drawn /\ prefix' = [prefix EXCEPT ![o] = n]
  <2>1. CASE h \in Encryptors /\ EncryptBegin(h)
    <3>1. drawn' \in Nonces /\ drawn' = drawn + 1
      BY <2>1 DEF EncryptBegin, Nonces
    <3> QED BY <2>1, <3>1 DEF EncryptBegin
  <2>2. CASE h \in Decryptors /\ DecryptBegin(h)
    BY <2>2 DEF DecryptBegin
  <2> QED BY <1>1, <2>1, <2>2
<1>4. \A u \in Objects \ {o} : context'[u] = context[u] /\ phase'[u] = phase[u] /\ prefix'[u] = prefix[u]
  BY <1>2, <1>3 DEF ContextMade, ContextFails, Activate
<1>5. \/ /\ phase'[o] = "active"
         /\ context'[o] = [state |-> "open", nonce |-> n, text |-> <<>>, bound |-> 1]
      \/ phase'[o] = "ready" /\ (h \in Encryptors => prefix'[o] = prefix[o])
  BY <1>2, <1>3, ContextType DEF ContextMade, Activate
<1>6. drawn <= drawn' /\ n \in 1 .. MaxNonces /\ drawn \in Nat /\ drawn' \in Nat
      /\ (h \in Encryptors => drawn < n /\ n <= drawn')
      /\ (h \in Decryptors => prefix'[o] = n)
      /\ (prefix'[o] = n \/ (h \in Encryptors /\ prefix'[o] = prefix[o]))
  BY <1>2, <1>3 DEF Nonces
<1>7. (\A t \in tags : t.object # o) /\ (\A a \in accepted : a.object # o /\ a.packet # o)
  BY <1>2 DEF Promises, OneShot, BothFinished
<1>8. Promises' /\ BothFinished'
  <2>1. OneShot'
    BY <1>2, <1>4, <1>7 DEF Promises, OneShot
  <2>2. TagCoversWhatWasReturned'
    BY <1>2, <1>4, <1>7 DEF Promises, TagCoversWhatWasReturned
  <2>3. AcceptedIsSealed' /\ BothFinished'
    BY <1>2, <1>4, <1>7 DEF Promises, AcceptedIsSealed, BothFinished
  <2> QED BY <2>1, <2>2, <2>3 DEF Promises
<1>9. OneOwner'
  BY <1>2, <1>4, <1>5 DEF OneOwner
<1>10. Unused'
  <2>1. \A u \in Objects : phase'[u] \in {"unmade", "ready"} => shown'[u] = <<>> /\ ~broken'[u]
    BY <1>2, <1>4, <1>5 DEF Unused
  <2>2. \A u \in Objects : phase'[u] = "unmade" => prefix'[u] = NoNonce
    BY <1>2, <1>4, <1>5 DEF Unused
  <2>3. \A g \in Encryptors : Ready(g)' => prefix'[owned'[g]] = NoNonce
    BY <1>2, <1>4, <1>5 DEF Unused, Ready
  <2> QED BY <2>1, <2>2, <2>3 DEF Unused
<1>11. Tracks'
  <2>1. \A u \in Objects : phase'[u] = "active" =>
           /\ prefix'[u] # NoNonce => context'[u].nonce = prefix'[u]
           /\ ~broken'[u] => context'[u].text = shown'[u]
    <3>1. ~broken[o] /\ shown[o] = <<>> /\ (h \in Encryptors => prefix[o] = NoNonce)
      BY <1>2 DEF Unused, Ready
    <3> QED BY <1>2, <1>4, <1>5, <1>6, <3>1 DEF Tracks
  <2>2. \A g \in Decryptors : Active(g)' => prefix'[owned'[g]] # NoNonce
    BY <1>1, <1>2, <1>4, <1>5, <1>6 DEF Tracks, Active, NoNonce
  <2> QED BY <2>1, <2>2 DEF Tracks
<1>12. NoncesOnce'
  <2>1. \A t \in tags' : t \in tags /\ t.tag.nonce <= drawn' /\ t.tag.nonce <= drawn
    BY <1>2, <1>6 DEF NoncesOnce, Nonces
  <2>2. ASSUME NEW g \in Encryptors, Active(g)'
        PROVE  \/ g = h /\ context'[owned'[g]].nonce = n
               \/ g # h /\ Active(g) /\ context'[owned'[g]] = context[owned[g]] /\ owned[g] \in Objects
    BY <1>2, <1>4, <1>5, <2>2 DEF Active
  <2>3. \A g \in Encryptors : Active(g) => context[owned[g]].nonce \in Nat /\ context[owned[g]].nonce <= drawn
    <3>1. ASSUME NEW g \in Encryptors, Active(g) PROVE context[owned[g]].nonce \in Nat
      <4>1. owned[g] \in Objects /\ context[owned[g]] \in Contexts /\ context[owned[g]] # NoContext
        BY <3>1 DEF Active, NoContext
      <4> QED BY <4>1 DEF Contexts, Nonces
    <3> QED BY <3>1 DEF NoncesOnce
  <2>4. \A t \in tags : t.tag.nonce \in Nat
    BY DEF Nonces
  <2>5. ASSUME NEW g \in Encryptors, Active(g)'
        PROVE  /\ context'[owned'[g]].nonce <= drawn'
               /\ \A t \in tags' : t.tag.nonce # context'[owned'[g]].nonce
    <3>1. CASE g = h /\ context'[owned'[g]].nonce = n
      BY <1>6, <2>1, <2>4, <3>1
    <3>2. CASE g # h /\ Active(g) /\ context'[owned'[g]] = context[owned[g]]
      BY <1>6, <2>1, <2>3, <3>2 DEF NoncesOnce
    <3> QED BY <2>2, <2>5, <3>1, <3>2
  <2>6. ASSUME NEW g \in Encryptors, NEW k \in Encryptors, Active(g)', Active(k)',
               context'[owned'[k]].nonce = context'[owned'[g]].nonce
        PROVE  k = g
    <3>1. \/ g = h /\ context'[owned'[g]].nonce = n
          \/ g # h /\ Active(g) /\ context'[owned'[g]].nonce = context[owned[g]].nonce
      BY <2>2, <2>6
    <3>2. \/ k = h /\ context'[owned'[k]].nonce = n
          \/ k # h /\ Active(k) /\ context'[owned'[k]].nonce = context[owned[k]].nonce
      BY <2>2, <2>6
    <3> QED BY <1>6, <2>3, <2>6, <3>1, <3>2 DEF NoncesOnce
  <2> QED BY <2>1, <2>5, <2>6 DEF NoncesOnce
<1> QED BY <1>8, <1>9, <1>10, <1>11, <1>12

\* An update that fails or succeeds, and a finalize that loses its tag, change the
\* context of one active object and nothing that was promised of finished ones.
LEMMA ActiveStep ==
    ASSUME TypeOK, PacketInvariant, NEW h \in Handles,
           Update(h) \/ UpdateFails(h) \/ (h \in Encryptors /\ EncryptFinalizeFails(h))
    PROVE  PacketInvariant'
<1> USE NoneAssumption DEF TypeOK, observed, Handles
<1> USE DEF PacketInvariant, Remembers
<1> DEFINE o == owned[h]
<1>1. /\ o \in Objects /\ phase[o] = "active" /\ context[o].state = "open"
      /\ UNCHANGED <<owned, phase, secret, drawn, prefix, tags, accepted>>
  BY DEF Update, UpdateFails, EncryptFinalizeFails, Open, Active
<1>2. /\ \A u \in Objects \ {o} : context'[u] = context[u] /\ shown'[u] = shown[u] /\ broken'[u] = broken[u]
      /\ context'[o].nonce = context[o].nonce
      /\ broken'[o] \/ (broken'[o] = broken[o] /\ (context[o].text = shown[o] => context'[o].text = shown'[o]))
  <2>1. CASE Update(h)
    <3>1. PICK x \in Chunks : /\ context' = [context EXCEPT ![o] = Fed(@, x)]
                              /\ shown' = [shown EXCEPT ![o] = Append(@, x)]
      BY <2>1 DEF Update
    <3>2. Fed(context[o], x).nonce = context[o].nonce /\ Fed(context[o], x).text = Append(context[o].text, x)
      BY <2>1, <1>1, FedType DEF Update
    <3> QED BY <1>1, <2>1, <3>1, <3>2 DEF Update
  <2>2. CASE UpdateFails(h)
    <3>1. PICK x \in Chunks : context' \in {context, [context EXCEPT ![o] = Fed(@, x)]}
      BY <2>2 DEF UpdateFails
    <3>2. Fed(context[o], x).nonce = context[o].nonce
      BY <2>2, <1>1, FedType DEF UpdateFails
    <3> QED BY <1>1, <2>2, <3>1, <3>2 DEF UpdateFails
  <2>3. CASE EncryptFinalizeFails(h)
    <3>1. context' = [context EXCEPT ![o] = [context[o] EXCEPT !.state = "released"]]
          /\ UNCHANGED <<shown, broken>>
      BY <2>3 DEF EncryptFinalizeFails
    <3>2. context[o] \in [state : {"open", "released"}, nonce : Nonces, text : Texts, bound : 0 .. 1]
      BY <1>1 DEF Contexts, NoContext
    <3> QED BY <1>1, <3>1, <3>2
  <2> QED BY <2>1, <2>2, <2>3
<1>3. (\A t \in tags : t.object # o) /\ (\A a \in accepted : a.object # o /\ a.packet # o)
  BY <1>1 DEF Promises, OneShot, BothFinished
<1>4. Promises' /\ BothFinished'
  <2>1. OneShot'
    BY <1>1 DEF Promises, OneShot
  <2>2. TagCoversWhatWasReturned'
    BY <1>1, <1>2, <1>3 DEF Promises, TagCoversWhatWasReturned
  <2>3. AcceptedIsSealed' /\ BothFinished'
    BY <1>1, <1>2, <1>3 DEF Promises, AcceptedIsSealed, BothFinished
  <2> QED BY <2>1, <2>2, <2>3 DEF Promises
<1>5. OneOwner' /\ Unused'
  BY <1>1, <1>2 DEF OneOwner, Unused, Ready
<1>6. Tracks'
  BY <1>1, <1>2 DEF Tracks, Active
<1>7. NoncesOnce'
  <2>1. \A g \in Encryptors : Active(g) => owned[g] \in Objects /\ context'[owned[g]].nonce = context[owned[g]].nonce
    BY <1>2 DEF Active
  <2>2. \A g \in Encryptors : Active(g)' <=> Active(g)
    BY <1>1 DEF Active
  <2> QED BY <1>1, <2>1, <2>2 DEF NoncesOnce
<1> QED BY <1>4, <1>5, <1>6, <1>7

\* A finalize ends its object: an encryptor's tag covers what the object has tracked, a
\* decryptor accepts only what it was asked to compare.
LEMMA FinalizeStep ==
    ASSUME TypeOK, TypeOK', PacketInvariant,
           \/ \E h \in Encryptors : EncryptFinalize(h)
           \/ \E h \in Decryptors : DecryptFinalize(h)
    PROVE  PacketInvariant'
<1> USE NoneAssumption DEF TypeOK, observed, Handles
<1> USE DEF PacketInvariant, Remembers
<1>1. PICK h \in Handles : (h \in Encryptors /\ EncryptFinalize(h)) \/ (h \in Decryptors /\ DecryptFinalize(h))
  OBVIOUS
<1> DEFINE o == owned[h]
<1>2. /\ o \in Objects /\ phase[o] = "active" /\ context[o].state = "open"
      /\ UNCHANGED <<owned, secret, drawn, prefix, shown, broken>>
      /\ phase' = [phase EXCEPT ![o] = "finished"] /\ context' = [context EXCEPT ![o] = NoContext]
      /\ \A g \in Handles : owned[g] = o => g = h
  BY <1>1 DEF EncryptFinalize, DecryptFinalize, Finish, Open, Active, OneOwner
<1>3. (\A t \in tags : t.object # o) /\ (\A a \in accepted : a.object # o /\ a.packet # o)
  BY <1>2 DEF Promises, OneShot, BothFinished
<1>4. OneOwner'
  BY <1>2 DEF OneOwner
<1>5. Unused' /\ Tracks'
  BY <1>2 DEF Unused, Ready, Tracks, Active
<1>6. \A g \in Handles : Active(g)' => Active(g) /\ g # h /\ context'[owned'[g]] = context[owned[g]]
  BY <1>2 DEF Active
<1>7. CASE h \in Encryptors /\ EncryptFinalize(h)
  <2> DEFINE new == [object |-> o, tag |-> Tag(secret[o], context[o])]
  <2>1. tags' = tags \cup {new} /\ accepted' = accepted
    BY <1>7 DEF EncryptFinalize
  <2>2. /\ new.object = o /\ new.tag.secret = secret[o] /\ new.tag.nonce = context[o].nonce
        /\ new.tag.text = context[o].text /\ new.tag.bound = 1
    BY <1>2 DEF Tag
  <2>3. Active(h) /\ context[o].nonce <= drawn /\ \A t \in tags : t.tag.nonce # context[o].nonce
    BY <1>2, <1>7 DEF Active, NoncesOnce
  <2> HIDE DEF new
  <2>4. OneShot'
    BY <1>2, <1>3, <2>1, <2>2, <2>3 DEF Promises, OneShot
  <2>5. TagCoversWhatWasReturned'
    BY <1>2, <1>3, <2>1, <2>2 DEF Promises, TagCoversWhatWasReturned, Tracks
  <2>6. AcceptedIsSealed' /\ BothFinished'
    BY <1>2, <1>3, <2>1 DEF Promises, AcceptedIsSealed, BothFinished
  <2>7. NoncesOnce'
    BY <1>2, <1>6, <1>7, <2>1, <2>2, <2>3 DEF NoncesOnce
  <2> QED BY <1>4, <1>5, <2>4, <2>5, <2>6, <2>7 DEF Promises
<1>8. CASE h \in Decryptors /\ DecryptFinalize(h)
  <2>1. tags' = tags
    BY <1>8 DEF DecryptFinalize
  <2>2. OneShot' /\ TagCoversWhatWasReturned'
    BY <1>2, <1>3, <2>1 DEF Promises, OneShot, TagCoversWhatWasReturned
  <2>3. NoncesOnce'
    BY <1>2, <1>6, <2>1 DEF NoncesOnce
  <2>4. ASSUME NEW t \in tags, Verifies(t, o)
        PROVE  /\ secret[o] = secret[t.object] /\ prefix[t.object] \in {NoNonce, prefix[o]}
               /\ ~broken[o] /\ ~broken[t.object] => shown[o] = shown[t.object]
               /\ phase[t.object] = "finished"
    <3>1. t.tag.secret = secret[o] /\ t.tag.nonce = context[o].nonce /\ t.tag.text = context[o].text
      BY <2>4 DEF Verifies, Tag
    <3>2. /\ context[o].nonce = prefix[o]
          /\ ~broken[o] => context[o].text = shown[o]
      BY <1>2, <1>8 DEF Tracks, Active
    <3> QED BY <2>4, <3>1, <3>2 DEF Promises, TagCoversWhatWasReturned, OneShot
  <2>5. AcceptedIsSealed' /\ BothFinished'
    <3>1. CASE accepted' = accepted
      BY <1>2, <1>3, <3>1 DEF Promises, AcceptedIsSealed, BothFinished
    <3>2. ASSUME NEW t \in tags, Verifies(t, o), accepted' = accepted \cup {[object |-> o, packet |-> t.object]}
          PROVE  AcceptedIsSealed' /\ BothFinished'
      BY <1>2, <1>3, <2>4, <3>2 DEF Promises, AcceptedIsSealed, BothFinished
    <3> QED BY <1>8, <3>1, <3>2 DEF DecryptFinalize
  <2> QED BY <1>4, <1>5, <2>2, <2>3, <2>5 DEF Promises
<1> QED BY <1>1, <1>7, <1>8

\* The invariant holds in every reachable state.
THEOREM PacketInvariantHolds == Spec => [](TypeOK /\ PacketInvariant)
<1>1. Init => TypeOK /\ PacketInvariant
  BY TypeInit, PacketInit
<1>2. TypeOK /\ PacketInvariant /\ [Next]_vars => TypeOK' /\ PacketInvariant'
  <2> SUFFICES ASSUME TypeOK, PacketInvariant, [Next]_vars PROVE TypeOK' /\ PacketInvariant'
    OBVIOUS
  <2>1. TypeOK'
    BY TypeStep
  <2>2. CASE Next
    <3>1. ASSUME NEW h \in Handles, Construct(h) \/ UseReleased(h) \/ \E k \in Handles : Move(h, k)
          PROVE  PacketInvariant'
      BY <3>1, HandleStep
    <3>2. ASSUME NEW h \in Handles, Update(h) \/ UpdateFails(h) PROVE PacketInvariant'
      BY <3>2, ActiveStep
    <3>5. ASSUME NEW h \in Encryptors, EncryptFinalizeFails(h) PROVE PacketInvariant'
      BY <3>5, ActiveStep DEF Handles
    <3>3. ASSUME (\E h \in Encryptors : EncryptBegin(h)) \/ (\E h \in Decryptors : DecryptBegin(h))
          PROVE  PacketInvariant'
      BY <2>1, <3>3, BeginStep
    <3>4. ASSUME (\E h \in Encryptors : EncryptFinalize(h)) \/ (\E h \in Decryptors : DecryptFinalize(h))
          PROVE  PacketInvariant'
      BY <2>1, <3>4, FinalizeStep
    <3>6. CASE \E h \in Handles : Construct(h) \/ Update(h) \/ UpdateFails(h) \/ UseReleased(h)
      BY <2>1, <3>6, <3>1, <3>2
    <3>7. CASE \E h, k \in Handles : Move(h, k)
      BY <2>1, <3>7, <3>1
    <3>8. CASE \E h \in Encryptors : EncryptBegin(h) \/ EncryptFinalize(h) \/ EncryptFinalizeFails(h)
      BY <2>1, <3>8, <3>3, <3>4, <3>5
    <3>9. CASE \E h \in Decryptors : DecryptBegin(h) \/ DecryptFinalize(h)
      BY <2>1, <3>9, <3>3, <3>4
    <3> QED BY <2>2, <3>6, <3>7, <3>8, <3>9 DEF Next
  <2>3. CASE UNCHANGED vars
    BY <2>1, <2>3 DEF vars, PacketInvariant, Remembers, Promises, OneOwner, Unused, Tracks, NoncesOnce, BothFinished,
                TagCoversWhatWasReturned, AcceptedIsSealed, OneShot, Ready, Active
  <2> QED BY <2>1, <2>2, <2>3
<1> QED BY <1>1, <1>2, PTL DEF Spec

\* A tag covers what the calls before it returned, whatever failed between them.
THEOREM TagsCoverWhatWasReturned == Spec => []TagCoversWhatWasReturned
BY PacketInvariantHolds, PTL DEF PacketInvariant, Promises

\* A decryptor accepts only what an encryptor with the same secret produced under the
\* same prefix, chunk by chunk.
THEOREM AcceptedWasSealed == Spec => []AcceptedIsSealed
BY PacketInvariantHolds, PTL DEF PacketInvariant, Promises

\* An object gives one prefix and one tag, and no nonce is in two packets.
THEOREM ObjectsAreOneShot == Spec => []OneShot
BY PacketInvariantHolds, PTL DEF PacketInvariant, Promises
=============================================================================
