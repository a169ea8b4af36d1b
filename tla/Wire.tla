--------------------------------- MODULE Wire -------------------------------
(***************************************************************************)
(* The protocol between server and client: what ServerProtocol and         *)
(* ClientProtocol write for a message, byte by byte, and what the other    *)
(* side reads back (server_protocol.cpp, client_protocol.cpp, opcodes.h).  *)
(*                                                                         *)
(* A message is a record with a type and those of its fields that some     *)
(* property looks at.  The others (positions, angles, times, names) take   *)
(* their place on the wire as zeros and are dropped on reading.  The two   *)
(* sides have tables of their own: nothing but the checks makes a writer   *)
(* agree with its reader.                                                  *)
(***************************************************************************)
EXTENDS Integers, Sequences, SequencesExt, TLC

CONSTANT Junk       \* the value of a variable that was never written

Opcode ==
  [Movement |-> 1, INIT_PLAYER |-> 2, NEW_PLAYER |-> 3, JOIN_GAME |-> 4, REQUEST_GAMES |-> 5,
   COLLISION |-> 6, CHECKPOINT_HIT |-> 8, CLIENT_DISCONNECT |-> 9, STATS |-> 16,
   CURRENT_INFO |-> 17, TIME |-> 18, UPGRADE_LOGIC |-> 19, UPGRADE_REQUEST |-> 20,
   UPGRADE_SEND |-> 21, START_GAME |-> 22, RECOMMENDED_PATH |-> 23, CAR_SELECT |-> 25,
   REQUEST_CHEAT |-> 33, STARTING_GAME |-> 34]

(* A field: its bytes, and whether its number is signed.                   *)
Field(name, width, signed) == [name |-> name, width |-> width, signed |-> signed]
U8(name) == Field(name, 1, FALSE)
U16(name) == Field(name, 2, FALSE)
U32(name) == Field(name, 4, FALSE)
F32(name) == Field(name, 4, TRUE)

(* The lround of encodeFloatBE: a float travels as a whole number of       *)
(* hundredths, and that is what a message here has for it.  Where a float  *)
(* is compared before it is sent, it is counted in thousandths.            *)
Hundredths(thousandths) == (thousandths + 5) \div 10

(* Big-endian bytes of v: htons, htonl, and the narrowing to the width of  *)
(* the variable it is stored in.                                           *)
Bytes(v, f) == [i \in 1..f.width |-> (v \div 256^(f.width - i)) % 256]

(* ntohs, ntohl; the number of a float is signed.                          *)
Value(bytes, f) ==
  LET number(bs) == FoldLeft(LAMBDA n, b : 256 * n + b, 0, bs)
  IN IF ~f.signed \/ bytes[1] < 128 THEN number(bytes)
     ELSE -(number([i \in DOMAIN bytes |-> 255 - bytes[i]]) + 1)

(* The fields of a message after its opcode.  A list writes its `item`     *)
(* fields as often as its length says.                                     *)
Layout(head) == [head |-> head, item |-> <<>>]
ListOf(head, item) == [head |-> head, item |-> item]

(***************************************************************************)
(* What the server sends.                                                  *)
(***************************************************************************)
PlayerLayout == <<U16("id"), U8("car"), F32("x"), F32("y"), F32("angle")>>

sendPlayerInit == Layout(PlayerLayout)
recvSendPlayer == Layout(PlayerLayout)
recvNewPlayer == Layout(PlayerLayout)

sendPlayerState == Layout(<<U16("id"), F32("x"), F32("y"), F32("angle")>>)
recvSrvMsg == Layout(<<U16("id"), F32("x"), F32("y"), F32("angle")>>)

sendCollisionEvent == Layout(<<U32("id"), F32("health"), F32("totalHealth")>>)
recvCollisionEvent == Layout(<<U32("id"), F32("health"), F32("totalHealth")>>)

sendCheckpointHit == Layout(<<U32("id"), U32("checkpoint")>>)
recvCheckpointHitEvent == Layout(<<U32("id"), U32("checkpoint")>>)

sendClientDisconnect == Layout(<<U32("id")>>)
recvClientDisconnect == Layout(<<U32("id")>>)

sendPlayerStats == Layout(<<U8("position"), F32("time")>>)
recvStats == Layout(<<U8("position"), F32("time")>>)

(* The checkpoint is turned by htons into the low half of four bytes and   *)
(* turned back by ntohs: its upper half is lost and two zeros follow.      *)
sendCurrentInfo ==
  Layout(<<F32("speed"), F32("time"), U8("race"), U16("next"), U16("zeros"), F32("checkX"),
           F32("checkY"), F32("angle"), F32("distance"), U8("totalRaces"), U8("totalCheckpoints")>>)
recvCurrentInfo ==
  Layout(<<F32("speed"), F32("time"), U8("race"), U16("next"), U16("zeros"), F32("checkX"),
           F32("checkY"), F32("angle"), F32("distance"), U8("totalRaces"), U8("totalCheckpoints")>>)

sendTimeLeft == Layout(<<U8("time")>>)
recvTimeLeft == Layout(<<U8("time")>>)

(* sendUpgrade makes room for two bytes and writes three; the third lies   *)
(* in the same allocation unit of the heap and goes out as it was written. *)
sendUpgrade == Layout(<<U8("upgrade"), U8("success")>>)
recvUpgrade == Layout(<<U8("upgrade"), U8("success")>>)

(* Both lists write all their elements after a length of one byte.         *)
sendUpgradeLogic == ListOf(<<U8("size")>>, <<U8("upgrade"), F32("value"), F32("penalty")>>)
recvUpgradeLogic == ListOf(<<U8("size")>>, <<U8("upgrade"), F32("value"), F32("penalty")>>)

sendRecommendedPath == ListOf(<<U8("size")>>, <<F32("x"), F32("y")>>)
recvRecommendedPath == ListOf(<<U8("size")>>, <<F32("x"), F32("y")>>)

sendCarConfirmation == Layout(<<U8("selected")>>)
recvCarConfirmation == Layout(<<U8("selected")>>)

sendSartingGame == Layout(<<>>)

sendGameInfo == Layout(<<U8("joined"), U8("code"), U32("game")>>)
recvJoinGame == Layout(<<U8("joined"), U8("code"), U32("game")>>)

writeGameAppend == <<U32("game"), U32("players"), U8("started")>>
readOneGame == <<U32("game"), U32("players"), U8("started")>>
sendGames == ListOf(<<U32("size")>>, writeGameAppend)
getMetadata == ListOf(<<U32("size")>>, readOneGame)

(***************************************************************************)
(* What the client sends.                                                  *)
(***************************************************************************)
sendInitPlayer == Layout(<<U8("car")>>)
recvInitPlayer == Layout(<<U8("car")>>)

sendClientMove == Layout(<<U8("accelerate"), U8("brake"), U8("steer"), U8("nitro")>>)
recvMoveInfo == Layout(<<U8("accelerate"), U8("brake"), U8("steer"), U8("nitro")>>)

sendRequestGame == Layout(<<U32("game")>>)
recvGameInfo == Layout(<<U32("game")>>)

sendDisconnectReq == Layout(<<U32("game")>>)
recvDisconnectReq == Layout(<<U32("game")>>)

sendRequestUpgrade == Layout(<<U8("upgrade")>>)
recvUpgradeReq == Layout(<<U8("upgrade")>>)

sendCheat == Layout(<<U8("cheat")>>)
recvCheat == Layout(<<U8("cheat")>>)

requestGames == Layout(<<>>)
sendStartGame == Layout(<<>>)

(***************************************************************************)
(* Which of these each thread calls for a message, and for an opcode.      *)
(***************************************************************************)
ServerSends ==
  [Movement |-> sendPlayerState, INIT_PLAYER |-> sendPlayerInit, NEW_PLAYER |-> sendPlayerInit,
   COLLISION |-> sendCollisionEvent, CHECKPOINT_HIT |-> sendCheckpointHit,
   CLIENT_DISCONNECT |-> sendClientDisconnect, CURRENT_INFO |-> sendCurrentInfo,
   STATS |-> sendPlayerStats, TIME |-> sendTimeLeft, UPGRADE_SEND |-> sendUpgrade,
   UPGRADE_LOGIC |-> sendUpgradeLogic, RECOMMENDED_PATH |-> sendRecommendedPath,
   CAR_SELECT |-> sendCarConfirmation, STARTING_GAME |-> sendSartingGame,
   JOIN_GAME |-> sendGameInfo, REQUEST_GAMES |-> sendGames]

(* ClientReceiver::run.                                                    *)
ClientReads ==
  [Movement |-> recvSrvMsg, INIT_PLAYER |-> recvSendPlayer, NEW_PLAYER |-> recvNewPlayer,
   COLLISION |-> recvCollisionEvent, CHECKPOINT_HIT |-> recvCheckpointHitEvent,
   CLIENT_DISCONNECT |-> recvClientDisconnect, CURRENT_INFO |-> recvCurrentInfo,
   STATS |-> recvStats, TIME |-> recvTimeLeft, UPGRADE_SEND |-> recvUpgrade,
   UPGRADE_LOGIC |-> recvUpgradeLogic, RECOMMENDED_PATH |-> recvRecommendedPath,
   STARTING_GAME |-> Layout(<<>>)]

(* The lobby window, each where it waits for the answer.                   *)
LobbyReads ==
  [REQUEST_GAMES |-> getMetadata, JOIN_GAME |-> recvJoinGame, CAR_SELECT |-> recvCarConfirmation]

(* The lobby window, and ClientSender::run for the game.                   *)
ClientSends ==
  [REQUEST_GAMES |-> requestGames, JOIN_GAME |-> sendRequestGame, INIT_PLAYER |-> sendInitPlayer,
   CLIENT_DISCONNECT |-> sendDisconnectReq, Movement |-> sendClientMove,
   START_GAME |-> sendStartGame, UPGRADE_REQUEST |-> sendRequestUpgrade,
   REQUEST_CHEAT |-> sendCheat]

(* Receiver::run.                                                          *)
ServerReads ==
  [REQUEST_GAMES |-> Layout(<<>>), JOIN_GAME |-> recvGameInfo, INIT_PLAYER |-> recvInitPlayer,
   CLIENT_DISCONNECT |-> recvDisconnectReq, Movement |-> recvMoveInfo, START_GAME |-> Layout(<<>>),
   UPGRADE_REQUEST |-> recvUpgradeReq, REQUEST_CHEAT |-> recvCheat]

(* These test what they have read only as a whole, or not at all: at an    *)
(* end of file before the first field the others throw.                    *)
Unchecked == {"Movement", "CURRENT_INFO"}

(***************************************************************************)
(* Writing and reading.                                                    *)
(***************************************************************************)
Tracked == {"id", "health", "checkpoint", "next", "race", "position", "upgrade", "success",
            "size", "selected", "joined", "game", "cheat"}

Get(m, name) == IF name \in DOMAIN m THEN m[name] ELSE 0

Encode(sends, m) ==
  LET write(fields) == FlattenSeq([i \in DOMAIN fields |-> Bytes(Get(m, fields[i].name), fields[i])])
      l == sends[m.type]
  IN <<Opcode[m.type]>> \o write(l.head)
       \o IF l.item = <<>> THEN <<>>
          ELSE FlattenSeq([i \in 1..Get(m, "size") |->
                 FlattenSeq([j \in DOMAIN l.item |-> Bytes(0, l.item[j])])])

(* recvall of one field.  r.bytes is what the connection still holds: if   *)
(* it ends in the middle of the field recvall throws, if it ends before    *)
(* the field recvall returns 0 and the variable keeps what it held.        *)
RecvAll(r, f) ==
  LET keep(v) == IF f.name \in Tracked THEN r.msg @@ (f.name :> v) ELSE r.msg
  IN IF r.threw THEN r
     ELSE IF Len(r.bytes) >= f.width
     THEN [r EXCEPT !.bytes = SubSeq(@, f.width + 1, Len(@)), !.read = @ + f.width,
                    !.msg = keep(Value(SubSeq(r.bytes, 1, f.width), f))]
     ELSE IF r.bytes = <<>> THEN [r EXCEPT !.short = TRUE, !.msg = keep(Junk)]
     ELSE [r EXCEPT !.bytes = <<>>, !.short = TRUE, !.threw = TRUE]

(* One message from the bytes that follow its opcode.                      *)
Decode(reads, type, bytes) ==
  LET l == reads[type]
      start == [bytes |-> bytes, msg |-> [type |-> type], read |-> 0, short |-> FALSE, threw |-> FALSE]
      head == FoldLeft(RecvAll, start, l.head)
      items == FlattenSeq([i \in 1..Get(head.msg, "size") |->
                 [j \in DOMAIN l.item |-> [l.item[j] EXCEPT !.name = "item"]]])
      all == IF l.item = <<>> \/ head.short THEN head ELSE FoldLeft(RecvAll, head, items)
  IN IF all.read = 0 /\ all.short /\ type \notin Unchecked THEN [all EXCEPT !.threw = TRUE] ELSE all

(* The message type an opcode stands for; "unknown" has no case.           *)
TypeOf(reads, op) ==
  IF \E t \in DOMAIN reads : Opcode[t] = op
  THEN CHOOSE t \in DOMAIN reads : Opcode[t] = op
  ELSE "unknown"
=============================================================================
