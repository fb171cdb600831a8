--------------------------- MODULE EventChannel ---------------------------
(***************************************************************************)
(* What the transactional outbox promises to the services that write to it *)
(* and to the consumers of the events: an event that was committed is      *)
(* handed over to the channel, perhaps more than once, and its row says    *)
(* ENTREGADO only after that, for good.                                    *)
(***************************************************************************)
CONSTANT Events

VARIABLES
  outbox,     \* estado of each event's committed row; AUSENTE before
  accepted    \* events the channel (QStash) has taken

channelVars == << outbox, accepted >>

ChannelInit ==
  /\ outbox = [e \in Events |-> "AUSENTE"]
  /\ accepted = {}

\* The row is committed with the identity it announces.
Enqueue(e) ==
  /\ outbox[e] = "AUSENTE"
  /\ outbox' = [outbox EXCEPT ![e] = "PENDIENTE"]
  /\ UNCHANGED accepted

Accept(e) ==
  /\ outbox[e] = "PENDIENTE"
  /\ accepted' = accepted \cup {e}
  /\ UNCHANGED outbox

MarkDelivered(e) ==
  /\ outbox[e] = "PENDIENTE"
  /\ e \in accepted
  /\ outbox' = [outbox EXCEPT ![e] = "ENTREGADO"]
  /\ UNCHANGED accepted

ChannelNext == \E e \in Events : Enqueue(e) \/ Accept(e) \/ MarkDelivered(e)

\* The scheduled dispatcher keeps trying.
ChannelFairness ==
  \A e \in Events : WF_channelVars(Accept(e)) /\ WF_channelVars(MarkDelivered(e))

ChannelSafety == ChannelInit /\ [][ChannelNext]_channelVars

ChannelSpec == ChannelSafety /\ ChannelFairness
===========================================================================
