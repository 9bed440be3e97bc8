------------------------------ MODULE MsgQueue ------------------------------
(***************************************************************************)
(* What the outgoing message queue of the MQTT client promises to mqtt.c:  *)
(* whole messages come out once each, in the order they went in.  A caller *)
(* of MQTT_Publish may cost the queue its oldest messages, and is refused  *)
(* only when that left nothing to discard.  FrameQueue implements it.      *)
(***************************************************************************)
EXTENDS Sequences

CONSTANT Packets      \* the messages mqtt.c queues

VARIABLES msgs,       \* whole messages queued, oldest first
          result      \* what the last completed call returned

queueVars == <<msgs, result>>

Reply(call, ok, data) == [call |-> call, ok |-> ok, data |-> data]

Init == /\ msgs = << >>
        /\ result = Reply("init", TRUE, << >>)

\* A message is accepted at the end of the queue.
Accept(call, m) ==
  /\ msgs' = Append(msgs, m)
  /\ result' = Reply(call, TRUE, m)

\* A protocol reply that does not fit is dropped and disturbs nothing.
RefuseReply(m) ==
  /\ result' = Reply("reply", FALSE, m)
  /\ UNCHANGED msgs

\* A publisher making room discards the oldest message.
DropOldest ==
  /\ msgs # << >>
  /\ msgs' = Tail(msgs)
  /\ UNCHANGED result

\* A publisher is refused when there is nothing left to discard.
RefusePublish(m) ==
  /\ msgs = << >>
  /\ result' = Reply("publish", FALSE, m)
  /\ UNCHANGED msgs

Take ==
  \/ /\ msgs # << >>
     /\ msgs' = Tail(msgs)
     /\ result' = Reply("task", TRUE, Head(msgs))
  \/ /\ msgs = << >>
     /\ result' = Reply("task", FALSE, << >>)
     /\ UNCHANGED msgs

Next == \/ \E m \in Packets : \/ Accept("reply", m) \/ Accept("publish", m)
                              \/ RefuseReply(m) \/ RefusePublish(m)
        \/ DropOldest
        \/ Take

Spec == Init /\ [][Next]_queueVars
=============================================================================
