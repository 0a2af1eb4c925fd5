------------------------------ MODULE PacketBox ------------------------------
(***************************************************************************)
(* What the one-shot calls promise: a packet is a closed box.  Putting a   *)
(* message into one gives a packet that nobody had before; opening returns *)
(* the message that was put in, to a caller with the same secret and the   *)
(* very same packet, and an error otherwise.                               *)
(***************************************************************************)
EXTENDS Naturals, Sequences

CONSTANTS
    Secrets,        \* pairs of a key and associated data
    LargeSecrets,   \* those whose associated data exceed the limit of the backend
    Messages,       \* what may be put in
    KeySize,        \* the length of the messages that are keys
    IntMax          \* the longest message

VARIABLES
    box,        \* the packets there are, with what is in them
    request,    \* the call that is running, or was the last to run
    answer      \* what it returned or threw

vars == <<box, request, answer>>

Seals == {"encrypt", "wrap_key"}
Opens == {"decrypt", "unwrap_key"}

None == [op |-> "none", secret |-> "none", input |-> <<>>]
NoAnswer == [kind |-> "none", value |-> <<>>]
Error(codes) == [kind : {"error"}, value : codes]
Running == answer = NoAnswer /\ request # None

Init == box = {} /\ request = None /\ answer = NoAnswer

Call ==
    /\ request = None
    /\ request'.op \in Seals \cup Opens /\ request'.secret \in Secrets
    /\ request'.op \in Seals => request'.input \in Messages
    /\ request'.op = "wrap_key" => Len(request'.input) = KeySize
    /\ UNCHANGED <<box, answer>>

TooLarge == request.secret \in LargeSecrets \/ Len(request.input) > IntMax

\* The packet that is returned is new.
Put ==
    /\ Running /\ request.op \in Seals
    /\ ~TooLarge
    /\ answer'.kind = "packet"
    /\ answer'.value \notin {e.packet : e \in box}
    /\ box' = box \cup {[packet |-> answer'.value, secret |-> request.secret, message |-> request.input]}
    /\ UNCHANGED request

Refuse ==
    /\ Running /\ request.op \in Seals
    /\ TooLarge
    /\ answer' \in Error({"invalid_input"})
    /\ UNCHANGED <<box, request>>

Opened == {e \in box : e.packet = request.input /\ e.secret = request.secret}

\* Only a key can be unwrapped.
Take ==
    /\ Running /\ request.op \in Opens
    /\ \E e \in Opened :
          IF request.op = "unwrap_key" /\ Len(e.message) # KeySize
          THEN answer' \in Error({"invalid_packet"})
          ELSE answer' = [kind |-> "message", value |-> e.message]
    /\ UNCHANGED <<box, request>>

Reject ==
    /\ Running /\ request.op \in Opens
    /\ Opened = {}
    /\ answer' \in Error({"invalid_packet", "authentication_failed", "invalid_input"})
    /\ UNCHANGED <<box, request>>

Fail ==
    /\ Running
    /\ answer' \in Error({"backend_failure", "bad_alloc"})
    /\ UNCHANGED <<box, request>>

Leave == answer # NoAnswer /\ request' = None /\ answer' = NoAnswer /\ UNCHANGED box

Next == Leave \/ Call \/ Put \/ Refuse \/ Take \/ Reject \/ Fail

Spec == Init /\ [][Next]_vars
=============================================================================
