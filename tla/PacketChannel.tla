--------------------------- MODULE PacketChannel ---------------------------
(***************************************************************************)
(* What a connection promises to the two applications at its ends, without *)
(* bytes, chunks and buffers: packets are accepted in an order, completed  *)
(* at the other end in the same order, each once and unchanged, and the    *)
(* newest one is shown to the application there.  PeerLink implements it.  *)
(*                                                                         *)
(* The promise weakens twice.  A channel that is ending may not complete   *)
(* what it has accepted; a broken one may complete anything.               *)
(***************************************************************************)
EXTENDS Naturals, Sequences

CONSTANT Packets     \* what a packet may be

VARIABLES
  accepted,   \* packets the sending side has finished with, in order
  completed,  \* packets completed at the receiving side, in order
  shown,      \* indices in completed of the packets the application was given
  state       \* "sound", "ending" or "broken"

vars == <<accepted, completed, shown, state>>

\* The type invariant.
TypeOK ==
  /\ accepted \in Seq(Packets) /\ completed \in Seq(Packets)
  /\ shown \subseteq 1..Len(completed)
  /\ state \in {"sound", "ending", "broken"}

Init ==
  /\ accepted = <<>> /\ completed = <<>> /\ shown = {}
  /\ state = "sound"

\* The last byte of a packet is written.
Accept(p) ==
  /\ accepted' = Append(accepted, p)
  /\ UNCHANGED <<completed, shown, state>>

\* The sending side gives a packet up before its last byte.
Tear(p) ==
  /\ accepted' = Append(accepted, p)
  /\ state' = "broken"
  /\ UNCHANGED <<completed, shown>>

\* The next packet accepted is completed.
Complete ==
  /\ state # "broken" /\ Len(completed) < Len(accepted)
  /\ completed' = Append(completed, accepted[Len(completed) + 1])
  /\ UNCHANGED <<accepted, shown, state>>

\* A broken channel completes whatever its bytes happen to say.
Garble(p) ==
  /\ state = "broken"
  /\ completed' = Append(completed, p)
  /\ UNCHANGED <<accepted, shown, state>>

\* The application gets the newest packet; any before it that it was not given
\* it will never be given.
Show ==
  /\ completed # <<>>
  /\ shown' = shown \cup {Len(completed)}
  /\ UNCHANGED <<accepted, completed, state>>

End ==
  /\ state = "sound" /\ state' = "ending"
  /\ UNCHANGED <<accepted, completed, shown>>

Break ==
  /\ state' = "broken"
  /\ UNCHANGED <<accepted, completed, shown>>

Next ==
  \/ \E p \in Packets : Accept(p) \/ Tear(p) \/ Garble(p)
  \/ Complete \/ Show \/ End \/ Break

Spec == Init /\ [][Next]_vars

\* As long as the channel is sound, what was accepted is completed, and the
\* newest completed packet is shown.
FairSpec ==
  /\ Spec
  /\ WF_vars(state = "sound" /\ Complete)
  /\ WF_vars(state = "sound" /\ Show)
=============================================================================
