---------------------------- MODULE MessageStream ----------------------------
(***************************************************************************)
(* What a session promises its message handlers: the messages the other end *)
(* sent, whole, once each and in order, whatever pieces TCP delivers them   *)
(* in.  The promise ends when the sender spoils the stream: when it starts  *)
(* a write before the last one is finished, or frees the message of one.    *)
(***************************************************************************)
EXTENDS Naturals, Sequences

VARIABLES
  sent,        \* every message given to send_session_message, in order
  handled,     \* every message given to handle_peer_signal, in order
  spoiled      \* the sender has spoiled the stream

Init == sent = <<>> /\ handled = <<>> /\ spoiled = FALSE

Send == /\ Len(sent') = Len(sent) + 1 /\ SubSeq(sent', 1, Len(sent)) = sent
        /\ spoiled' \in {spoiled, TRUE}
        /\ UNCHANGED handled

Handle == /\ ~spoiled /\ Len(handled) < Len(sent)
          /\ handled' = Append(handled, sent[Len(handled) + 1])
          /\ UNCHANGED <<sent, spoiled>>

Spoiled == /\ spoiled' = TRUE
           /\ UNCHANGED sent
           /\ spoiled \/ UNCHANGED handled

Next == Send \/ Handle \/ Spoiled

Spec == Init /\ [][Next]_<<sent, handled, spoiled>>
=============================================================================
