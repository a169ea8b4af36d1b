--------------------------- MODULE MessageChannel ---------------------------
(***************************************************************************)
(* What a client may rely on: the messages that the server has for it come *)
(* out at its window once each, in their order and as they were sent,      *)
(* until the connection breaks.  Then what was on its way is lost from     *)
(* some message on, that message may still come out damaged, and the       *)
(* window may be told.                                                     *)
(***************************************************************************)
EXTENDS Integers, Sequences, SequencesExt

CONSTANTS Notice     \* the message that tells of the break

VARIABLES waiting,   \* sent, and not at the client yet
          arrived,   \* at the client, for its window to take
          broken

channelVars == <<waiting, arrived, broken>>

ChannelInit == waiting = <<>> /\ arrived = <<>> /\ broken = FALSE

Send ==
  /\ ~broken
  /\ IsPrefix(waiting, waiting')
  /\ UNCHANGED <<arrived, broken>>

Arrive ==
  /\ waiting # <<>>
  /\ arrived' = Append(arrived, Head(waiting)) /\ waiting' = Tail(waiting)
  /\ UNCHANGED broken

Take ==
  /\ arrived # <<>>
  /\ arrived' = Tail(arrived)
  /\ UNCHANGED <<waiting, broken>>

(* The message at place i, of the type it had, with any contents.          *)
Damaged(i) ==
  i \in DOMAIN waiting /\ i \in DOMAIN waiting' /\ waiting'[i].type = waiting[i].type

Break ==
  /\ ~broken /\ broken'
  /\ \E kept \in 0..Len(waiting) :
       /\ SubSeq(waiting', 1, kept) = SubSeq(waiting, 1, kept)
       /\ \/ Len(waiting') = kept
          \/ waiting' = Append(SubSeq(waiting', 1, kept), Notice)
          \/ Len(waiting') = kept + 1 /\ Damaged(kept + 1)
          \/ Len(waiting') = kept + 2 /\ Damaged(kept + 1) /\ waiting'[kept + 2] = Notice
  /\ UNCHANGED arrived

(* The client closes its window and takes nothing more.                    *)
HangUp == broken' /\ waiting' = <<>> /\ arrived' = <<>>

ChannelSpec ==
  ChannelInit /\ [][Send \/ Arrive \/ Take \/ Break \/ HangUp]_channelVars
=============================================================================
