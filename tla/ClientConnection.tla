-------------------------- MODULE ClientConnection --------------------------
(***************************************************************************)
(* The way between a game and the window of its client Me: the Sender      *)
(* thread of the server writes bytes that the ClientReceiver thread reads, *)
(* and back the ClientSender thread writes what the server's Receiver      *)
(* reads (server_sender.cpp, client_receiver.cpp, client_sender.cpp,       *)
(* server_receiver.cpp, socket.cpp).                                       *)
(*                                                                         *)
(* While both sides live a message is written and read in one step: no     *)
(* other thread tells bytes on the wire from a message that still waits    *)
(* for its sender.  The server may die at any moment: what it had not yet  *)
(* put on the wire is lost, to the byte.                                   *)
(***************************************************************************)
EXTENDS GameFeed

CONSTANTS MaxInbox      \* bound of the model: messages waiting for the window

VARIABLES
  playing,       \* Sender::playing
  stream,        \* the bytes a dead server leaves on the wire
  receiver,      \* ClientReceiver: "on", "told" (it pushed SRV_DISCONNECTION
                 \* and ended) or "threw" (an exception ended it)
  inbox,         \* Client::receiverQueue
  senderQueue    \* Client::senderQueue

connectionVars == <<playing, stream, receiver, inbox, senderQueue>>

Dead == phase = "dead"

(* Sender::run sends nothing of a game but these until the client has a    *)
(* car in it.                                                              *)
Unfiltered == {"REQUEST_GAMES", "JOIN_GAME", "CAR_SELECT", "STARTING_GAME"}

StartsPlaying(m) == m.type \in {"INIT_PLAYER", "NEW_PLAYER"}

Passes(m) == playing \/ StartsPlaying(m) \/ m.type \in Unfiltered

(* One iteration of ClientReceiver::run on the bytes there are:            *)
(* readActionByte and the read that its opcode asks for.  An unknown       *)
(* opcode is skipped.  The reads are outside of its try: one that throws   *)
(* ends the thread.                                                        *)
Receive(bytes) ==
  LET type == TypeOf(ClientReads, Head(bytes))
      r    == Decode(ClientReads, type, Tail(bytes))
  IN IF type = "unknown" THEN [rest |-> Tail(bytes), msgs |-> <<>>, threw |-> FALSE]
     ELSE [rest |-> r.bytes, msgs |-> IF r.threw THEN <<>> ELSE <<r.msg>>, threw |-> r.threw]

(* What a game may send to Me.                                             *)
GameMessages ==
  [type : {"INIT_PLAYER", "NEW_PLAYER", "CLIENT_DISCONNECT"}, id : Players]
  \cup [type : {"COLLISION"}, id : Players, health : 0..Hundredths(FullHealth)]
  \cup [type : {"CHECKPOINT_HIT"}, id : {Me}, checkpoint : 1..NumCheckpoints]
  \cup [type : {"CURRENT_INFO"}, race : 1..NumRaces, next : 0..NumCheckpoints]
  \cup [type : {"UPGRADE_SEND"}, upgrade : Upgrades \cup {None}, success : {0, 1}]
  \cup [type : {"UPGRADE_LOGIC"}, size : {Cardinality(Upgrades)}]
  \cup [type : {"STATS"}, position : {1}]
  \cup [type : {"STARTING_GAME"}]

(* The conversions of these messages.  The @@ makes TLC work them out once.*)
Written == <<>> @@ [m \in GameMessages |-> Encode(ServerSends, m)]

FirstBytes(bytes) == {SubSeq(bytes, 1, n) : n \in DOMAIN bytes}

Received ==
  <<>> @@ [bytes \in UNION {FirstBytes(Written[m]) : m \in GameMessages} |-> Receive(bytes)]

(* A variant that lets nothing of a game through before the client plays,  *)
(* and with it not the message that makes it play.                         *)
ServerSenderLate ==
  /\ out # <<>> /\ receiver = "on" /\ Len(inbox) < MaxInbox
  /\ LET m == Head(out) IN
       /\ playing' = (playing \/ StartsPlaying(m))
       /\ inbox' = IF playing \/ m.type \in Unfiltered
                   THEN inbox \o Received[Written[m]].msgs ELSE inbox
  /\ out' = Tail(out)
  /\ UNCHANGED <<gameVars, loopVars, registry, departed, queue, stream, receiver, senderQueue>>

(* One iteration of Sender::run, and the iteration of ClientReceiver::run  *)
(* that gets what it sends.                                                *)
ServerSender ==
  /\ out # <<>> /\ receiver = "on" /\ Len(inbox) < MaxInbox
  /\ LET m == Head(out) IN
       /\ playing' = (playing \/ StartsPlaying(m))
       /\ inbox' = IF Passes(m) THEN inbox \o Received[Written[m]].msgs ELSE inbox
  /\ out' = Tail(out)
  /\ UNCHANGED <<gameVars, loopVars, registry, departed, queue, stream, receiver, senderQueue>>

(* ClientReceiver reads what a dead server has left.                       *)
ClientReceiver ==
  /\ receiver = "on" /\ stream # <<>> /\ Len(inbox) < MaxInbox
  /\ LET r == Received[stream] IN
       /\ stream' = r.rest
       /\ inbox' = inbox \o r.msgs
       /\ receiver' = IF r.threw THEN "threw" ELSE "on"
  /\ UNCHANGED <<feedVars, playing, senderQueue>>

(* A variant that ends without a word.                                     *)
EndOfFileSilent ==
  /\ receiver = "on" /\ stream = <<>> /\ Dead /\ Len(inbox) < MaxInbox
  /\ receiver' = "told"
  /\ UNCHANGED <<feedVars, playing, stream, inbox, senderQueue>>

(* The iteration whose readActionByte throws.                              *)
EndOfFile ==
  /\ receiver = "on" /\ stream = <<>> /\ Dead /\ Len(inbox) < MaxInbox
  /\ receiver' = "told"
  /\ inbox' = Append(inbox, [type |-> "SRV_DISCONNECTION"])
  /\ UNCHANGED <<feedVars, playing, stream, senderQueue>>

(* What the window may send, and the command that the server's Receiver    *)
(* makes of it.                                                            *)
UserMessages ==
  [type : {"START_GAME"}] \cup [type : {"UPGRADE_REQUEST"}, upgrade : Upgrades]

CommandOf(bytes) ==
  LET type == TypeOf(ServerReads, Head(bytes))
  IN [client |-> Me, op |-> type, arg |-> Get(Decode(ServerReads, type, Tail(bytes)).msg, "upgrade")]

Asked == <<>> @@ [m \in UserMessages |-> CommandOf(Encode(ClientSends, m))]

(* One iteration of ClientSender::run, and the iteration of Receiver::run  *)
(* that gets what it sends.                                                *)
ClientSender ==
  /\ senderQueue # <<>> /\ Len(queue) < MaxQueue /\ phase \in {"lobby", "race"}
  /\ queue' = Append(queue, Asked[Head(senderQueue)])
  /\ senderQueue' = Tail(senderQueue)
  /\ UNCHANGED <<gameVars, out, loopVars, registry, departed, playing, stream, receiver, inbox>>

(* What the other side makes of a message that arrives whole is what was   *)
(* written, both ways.                                                     *)
ASSUME WireAssumption ==
  /\ \A m \in GameMessages :
       Received[Written[m]] = [rest |-> <<>>, msgs |-> <<m>>, threw |-> FALSE]
  /\ \A m \in UserMessages :
       Asked[m] = [client |-> Me, op |-> m.type, arg |-> Get(m, "upgrade")]

(* The first bytes of a message that may arrive alone: of all cuts that    *)
(* read the same, the shortest.                                            *)
Cuts ==
  <<>> @@ [m \in GameMessages |->
    {<<>>} \cup {bytes \in FirstBytes(Written[m]) :
                  \A less \in FirstBytes(bytes) \ {bytes} : Received[less] # Received[bytes]}]

(* A message that is cut is read with the type it had, or not at all, and  *)
(* nothing of it is left.                                                  *)
ASSUME CutAssumption ==
  \A m \in GameMessages : \A bytes \in Cuts[m] \ {<<>>} :
    LET r == Received[bytes] IN
      /\ r.rest = <<>>
      /\ IF r.threw THEN r.msgs = <<>>
         ELSE r.msgs = <<r.msgs[1]>> /\ r.msgs[1].type = m.type

(* The server dies.  Of the message that its Sender was about to write,    *)
(* any number of bytes may still arrive.                                   *)
Die ==
  /\ ~Dead
  /\ phase' = "dead" /\ raceIndex' = 0 /\ startRequested' = FALSE /\ cars' = <<>> /\ hits' = 0
  /\ out' = <<>> /\ at' = "top" /\ drained' = <<>> /\ visiting' = {}
  /\ registry' = {} /\ departed' = {} /\ queue' = <<>> /\ playing' = FALSE
  /\ stream' \in IF out # <<>> /\ Passes(Head(out)) THEN Cuts[Head(out)] ELSE {<<>>}
  /\ UNCHANGED <<receiver, inbox, senderQueue>>

ConnectionInit ==
  /\ playing = FALSE /\ stream = <<>> /\ receiver = "on" /\ inbox = <<>>
  /\ senderQueue = <<>>
=============================================================================
