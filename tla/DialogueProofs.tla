--------------------------- MODULE DialogueProofs ---------------------------
(***************************************************************************)
(* The lobby dialogue.  Its invariant is a table: what the client waits    *)
(* for, where on its way the request is, and where the client is           *)
(* registered meanwhile.  Of what the games send unasked it says nothing:  *)
(* any number of STARTING_GAME may stand before or behind the answer.      *)
(***************************************************************************)
EXTENDS LobbyDialogue, SequenceTheorems, TLAPS

Command == {"INIT_PLAYER", "START_GAME"}
Game ==
  [life : {"none", "listed", "erased", "stopped"}, phase : {"lobby", "race", "over"}, race : Nat,
   commands : Seq(Command), drained : Seq(Command), start : BOOLEAN,
   member : BOOLEAN, others : BOOLEAN, seat : {"none", "car", "no spawn"}]

Requests ==
  [op : {"none", "REQUEST_GAMES", "JOIN_GAME", "INIT_PLAYER", "CLIENT_DISCONNECT"},
   game : 0..MaxGames]

Reply ==
  [op : {"REQUEST_GAMES"}, arg : SUBSET Games] \cup [op : {"JOIN_GAME"}, arg : 0..MaxGames]
    \cup [op : {"CAR_SELECT"}, arg : {0, 1}] \cup [op : {"closed"}, arg : {0}]
Starting == Answer("STARTING_GAME", 0)

DialogueTypes ==
  /\ screen \in {"menu", "selector", "cars", "game", "closed"}
  /\ awaiting \in Requests /\ requests \in Seq(Requests)
  /\ answers \in Seq(Reply \cup {Starting})
  /\ joinedId \in 0..MaxGames /\ admitting \in 0..MaxGames /\ joined \in 0..MaxGames
  /\ receiver \in {"on", "ended", "dead"}
  /\ listed \subseteq Games /\ discarded \in BOOLEAN
  /\ games \in [Games -> Game]

(* None, or just one, of the elements of s is in S.                        *)
Free(s, S) == \A i \in DOMAIN s : s[i] \notin S
Once(s, S) == \E k \in DOMAIN s : s[k] \in S /\ \A i \in DOMAIN s : s[i] \in S => i = k

-----------------------------------------------------------------------------
Init == {"INIT_PLAYER"}
NoInit(g) == Free(games[g].commands, Init) /\ Free(games[g].drained, Init)
OneInit(g) ==
  \/ Once(games[g].commands, Init) /\ Free(games[g].drained, Init)
  \/ Free(games[g].commands, Init) /\ Once(games[g].drained, Init)

(* The client is registered where its Receiver has it, or is taking it.    *)
Registered ==
  /\ joined # 0 => games[joined].member
  /\ \A g \in Games : OnTheList(g) /\ games[g].member => g \in {joined, admitting}
  /\ joined = 0 \/ admitting = 0

(* Of what is asked for: nothing is under way, the request is, or the      *)
(* answer is.                                                              *)
NoneAsked == \A g \in Games : NoInit(g)
Nothing == requests = <<>> /\ admitting = 0 /\ NoneAsked /\ Free(answers, Reply)
Sent == requests = <<awaiting>> /\ admitting = 0 /\ NoneAsked /\ Free(answers, Reply)
Replied(replies) ==
  /\ requests = <<>> /\ admitting = 0 /\ NoneAsked
  /\ Once(answers, Reply) /\ Free(answers, Reply \ replies)

Leaving == Request("CLIENT_DISCONNECT", joined)

Idle ==
  /\ screen \in {"menu", "selector", "cars"} /\ awaiting = NoRequest
  /\ joinedId = joined /\ (screen = "cars" <=> joined # 0)
  /\ Nothing

Closed ==
  /\ screen = "closed" /\ awaiting = NoRequest /\ joinedId = 0
  /\ admitting = 0 /\ NoneAsked
  /\ requests = <<Leaving>> \/ (requests = <<>> /\ joined = 0)

Entered ==
  /\ screen = "game" /\ awaiting = NoRequest
  /\ joinedId = joined /\ joined # 0 /\ games[joined].seat # "none"
  /\ Nothing

WaitsForGames ==
  /\ screen = "selector" /\ awaiting = Request("REQUEST_GAMES", 0) /\ joinedId = 0
  /\ \/ requests = <<Leaving, awaiting>> /\ admitting = 0 /\ NoneAsked /\ Free(answers, Reply)
     \/ joined = 0 /\ Sent
     \/ joined = 0 /\ Replied({a \in Reply : a.op = "REQUEST_GAMES"})

WaitsToJoin ==
  /\ screen = "selector" /\ awaiting.op = "JOIN_GAME" /\ joinedId = 0
  /\ \/ joined = 0 /\ Sent
     \/ joined = 0 /\ admitting # 0 /\ requests = <<>> /\ NoneAsked /\ Free(answers, Reply)
     \/ Replied({Answer("JOIN_GAME", joined)})

WaitsForCar ==
  /\ screen = "cars" /\ awaiting = Request("INIT_PLAYER", 0) /\ joinedId # 0 /\ admitting = 0
  /\ joinedId = joined
  /\ \/ Sent
     \/ /\ requests = <<>> /\ Free(answers, Reply)
        /\ OneInit(joined) \/ (NoInit(joined) /\ discarded)
        /\ \A g \in Games \ {joined} : NoInit(g)
     \/ Replied({Answer("CAR_SELECT", 0)})
     \/ games[joined].seat # "none" /\ Replied({Answer("CAR_SELECT", 1)})

Situation == Idle \/ Closed \/ Entered \/ WaitsForGames \/ WaitsToJoin \/ WaitsForCar

(* The INIT_PLAYER has ended the Receiver, and no answer is under way.     *)
Unanswered ==
  /\ receiver = "ended"
  /\ screen = "cars" /\ awaiting = Request("INIT_PLAYER", 0) /\ joinedId = joined
  /\ Nothing

(* After that the server has gone: the window is to notice, or has closed. *)
Gone ==
  /\ receiver = "dead"
  /\ \/ screen = "cars" /\ awaiting = Request("INIT_PLAYER", 0) /\ Replied({Answer("closed", 0)})
     \/ screen = "closed" /\ awaiting = NoRequest

DialogueOK ==
  /\ misread = "none" =>
       /\ Registered
       /\ (receiver = "on" /\ Situation) \/ Unanswered \/ Gone
  /\ misread # "none" => misread = "STARTING_GAME" /\ screen # "game"

-----------------------------------------------------------------------------
(* Sequences.                                                              *)

LEMMA ShortSeqs ==
  ASSUME NEW T, NEW a \in T, NEW b \in T
  PROVE  /\ <<a>> \in Seq(T) /\ <<a, b>> \in Seq(T)
         /\ <<a>> # <<>> /\ Head(<<a>>) = a /\ Tail(<<a>>) = <<>>
         /\ <<a, b>> # <<>> /\ Head(<<a, b>>) = a /\ Tail(<<a, b>>) = <<b>>
         /\ Append(<<>>, a) = <<a>>
         /\ <<>> \o <<a>> = <<a>> /\ <<>> \o <<a, b>> = <<a, b>>
         /\ Last(<<a>>) = a /\ Last(<<a, b>>) = b
  BY DEF Last

LEMMA FreeEmpty == ASSUME NEW S PROVE Free(<<>>, S)
  BY DEF Free

LEMMA FreeAppend ==
  ASSUME NEW T, NEW s \in Seq(T), NEW x \in T, NEW S, Free(s, S)
  PROVE  /\ x \notin S => Free(Append(s, x), S)
         /\ x \in S => Once(Append(s, x), S)
<1>1. /\ DOMAIN Append(s, x) = 1..(Len(s) + 1) /\ DOMAIN s = 1..Len(s) /\ Len(s) \in Nat
      /\ \A i \in 1..Len(s) : Append(s, x)[i] = s[i]
      /\ Append(s, x)[Len(s) + 1] = x
  OBVIOUS
<1>2. \A i \in 1..Len(s) : Append(s, x)[i] \notin S
  BY <1>1 DEF Free
<1>3. x \notin S => Free(Append(s, x), S)
  BY <1>1, <1>2 DEF Free
<1>4. ASSUME x \in S PROVE Once(Append(s, x), S)
  <2>1. Len(s) + 1 \in DOMAIN Append(s, x) /\ Append(s, x)[Len(s) + 1] \in S
    BY <1>1, <1>4
  <2>2. \A i \in DOMAIN Append(s, x) : Append(s, x)[i] \in S => i = Len(s) + 1
    BY <1>1, <1>2
  <2> QED
    BY <2>1, <2>2 DEF Once
<1> QED
  BY <1>3, <1>4

LEMMA OnceAppend ==
  ASSUME NEW T, NEW s \in Seq(T), NEW x \in T, NEW S, Once(s, S), x \notin S
  PROVE  Once(Append(s, x), S)
<1>1. /\ DOMAIN Append(s, x) = 1..(Len(s) + 1) /\ DOMAIN s = 1..Len(s) /\ Len(s) \in Nat
      /\ \A i \in 1..Len(s) : Append(s, x)[i] = s[i]
      /\ Append(s, x)[Len(s) + 1] = x
  OBVIOUS
<1>2. PICK k \in 1..Len(s) : s[k] \in S /\ \A i \in 1..Len(s) : s[i] \in S => i = k
  BY <1>1 DEF Once
<1>3. Append(s, x)[k] \in S /\ k \in DOMAIN Append(s, x)
  BY <1>1, <1>2
<1>4. \A i \in DOMAIN Append(s, x) : Append(s, x)[i] \in S => i = k
  BY <1>1, <1>2
<1> QED
  BY <1>3, <1>4 DEF Once

LEMMA FreeTail ==
  ASSUME NEW T, NEW s \in Seq(T), s # <<>>, NEW S
  PROVE  /\ Head(s) \in T /\ Tail(s) \in Seq(T)
         /\ Free(s, S) => Free(Tail(s), S) /\ Head(s) \notin S
         /\ Once(s, S) /\ Head(s) \notin S => Once(Tail(s), S)
         /\ Once(s, S) /\ Head(s) \in S => Free(Tail(s), S)
<1>1. /\ DOMAIN Tail(s) = 1..(Len(s) - 1) /\ DOMAIN s = 1..Len(s) /\ Len(s) \in Nat \ {0}
      /\ \A i \in 1..(Len(s) - 1) : Tail(s)[i] = s[i + 1]
      /\ Head(s) = s[1] /\ Head(s) \in T /\ Tail(s) \in Seq(T)
  OBVIOUS
<1>2. Free(s, S) => Free(Tail(s), S) /\ Head(s) \notin S
  BY <1>1 DEF Free
<1>3. ASSUME Once(s, S)
      PROVE  /\ Head(s) \notin S => Once(Tail(s), S)
             /\ Head(s) \in S => Free(Tail(s), S)
  <2>1. PICK k \in 1..Len(s) : s[k] \in S /\ \A i \in 1..Len(s) : s[i] \in S => i = k
    BY <1>1, <1>3 DEF Once
  <2>2. ASSUME Head(s) \notin S PROVE Once(Tail(s), S)
    <3>1. k - 1 \in 1..(Len(s) - 1) /\ (k - 1) + 1 = k
      BY <1>1, <2>1, <2>2
    <3>2. k - 1 \in DOMAIN Tail(s) /\ Tail(s)[k - 1] \in S
      BY <1>1, <2>1, <3>1
    <3>3. \A i \in DOMAIN Tail(s) : Tail(s)[i] \in S => i = k - 1
      BY <1>1, <2>1
    <3> QED
      BY <3>2, <3>3 DEF Once
  <2>3. ASSUME Head(s) \in S PROVE Free(Tail(s), S)
    <3>1. k = 1
      BY <1>1, <2>1, <2>3
    <3> QED
      BY <1>1, <2>1, <3>1 DEF Free
  <2> QED
    BY <2>2, <2>3
<1> QED
  BY <1>1, <1>2, <1>3

LEMMA FreePrefix ==
  ASSUME NEW T, NEW s \in Seq(T), NEW n \in 0..Len(s), NEW S
  PROVE  SubSeq(s, 1, n) \in Seq(T) /\ (Free(s, S) => Free(SubSeq(s, 1, n), S))
<1>1. /\ SubSeq(s, 1, n) \in Seq(T) /\ DOMAIN SubSeq(s, 1, n) = 1..n /\ DOMAIN s = 1..Len(s)
      /\ \A i \in 1..n : SubSeq(s, 1, n)[i] = s[i]
  OBVIOUS
<1>2. 1..n \subseteq 1..Len(s)
  OBVIOUS
<1> QED
  BY <1>1, <1>2 DEF Free

-----------------------------------------------------------------------------
(* Types.                                                                  *)

LEMMA GameFields ==
  ASSUME NEW game \in Game
  PROVE  /\ game.commands \in Seq(Command) /\ game.drained \in Seq(Command)
         /\ game.race \in Nat /\ game.member \in BOOLEAN
  BY DEF Game

LEMMA AnswerTypes ==
  /\ \A S \in SUBSET Games : Answer("REQUEST_GAMES", S) \in Reply
  /\ \A g \in 0..MaxGames : Answer("JOIN_GAME", g) \in Reply
  /\ \A ok \in {0, 1} : Answer("CAR_SELECT", ok) \in Reply
  /\ Answer("closed", 0) \in Reply
  /\ Starting \notin Reply
  /\ \A a \in Reply : /\ a.op = "REQUEST_GAMES" => a.arg \subseteq Games
                      /\ a.op = "JOIN_GAME" => a.arg \in 0..MaxGames
                      /\ a.op = "CAR_SELECT" => a.arg \in {0, 1}
  BY DEF Reply, Answer, Starting

LEMMA RequestTypes ==
  /\ NoRequest \in Requests
  /\ \A op \in {"REQUEST_GAMES", "JOIN_GAME", "INIT_PLAYER", "CLIENT_DISCONNECT"}, g \in 0..MaxGames :
       /\ Request(op, g) \in Requests /\ Request(op, g) # NoRequest
       /\ Request(op, g).op = op /\ Request(op, g).game = g
  /\ 0 \in 0..MaxGames
  BY DialogueAssumption DEF Requests, Request, NoRequest

(* What leads into the dialogue, and what a handler of the window sends.   *)
LEMMA SendTypes ==
  ASSUME DialogueTypes
  PROVE  /\ \A r \in Requests : requests \o <<r>> \in Seq(Requests) /\ Last(<<r>>) \in Requests
         /\ requests \o LeaveCars \in Seq(Requests) /\ Last(LeaveCars) \in Requests
         /\ \A r \in Requests : Append(requests, r) \in Seq(Requests)
<1>1. requests \in Seq(Requests) /\ joinedId \in 0..MaxGames
  BY DEF DialogueTypes
<1>2. \A r \in Requests : <<r>> \in Seq(Requests) /\ Last(<<r>>) = r
  BY ShortSeqs
<1>3. LeaveCars \in Seq(Requests) /\ Last(LeaveCars) \in Requests
  <2>1. Request("CLIENT_DISCONNECT", joinedId) \in Requests /\ Request("REQUEST_GAMES", 0) \in Requests
    BY <1>1, RequestTypes
  <2> QED
    BY <2>1, ShortSeqs DEF LeaveCars
<1> QED
  BY <1>1, <1>2, <1>3

LEMMA WindowTypes == ASSUME DialogueTypes, Window PROVE DialogueTypes'
<1>0. /\ requests \in Seq(Requests) /\ Append(requests, Request("REQUEST_GAMES", 0)) \in Seq(Requests)
      /\ requests \o LeaveCars \in Seq(Requests) /\ Last(LeaveCars) \in Requests
      /\ NoRequest \in Requests /\ Request("REQUEST_GAMES", 0) \in Requests
  <2>1. requests \in Seq(Requests)
    BY DEF DialogueTypes
  <2>2. NoRequest \in Requests /\ Request("REQUEST_GAMES", 0) \in Requests
    BY RequestTypes
  <2> QED
    BY <2>1, <2>2, SendTypes
<1> USE DEF DialogueTypes, windowVars, serverVars
<1>1. CASE ClickPlay \/ ClickRefresh
  <2>1. Request("REQUEST_GAMES", 0) \in Requests
    BY RequestTypes
  <2>2. requests' \in Seq(Requests) /\ awaiting' \in Requests
    BY <1>1, <2>1, SendTypes DEF ClickPlay, ClickRefresh, Click
  <2> QED
    BY <1>1, <2>2 DEF ClickPlay, ClickRefresh, Click
<1>2. CASE ClickCreate \/ ClickSelectCar
  <2>1. Request("JOIN_GAME", 0) \in Requests /\ Request("INIT_PLAYER", 0) \in Requests
    BY RequestTypes
  <2>2. requests' \in Seq(Requests) /\ awaiting' \in Requests
    BY <1>2, <2>1, SendTypes DEF ClickCreate, ClickSelectCar, Click
  <2> QED
    BY <1>2, <2>2 DEF ClickCreate, ClickSelectCar, Click
<1>3. ASSUME NEW g \in Games, ClickJoin(g) PROVE DialogueTypes'
  <2>1. Request("JOIN_GAME", g) \in Requests
    BY RequestTypes, DialogueAssumption DEF Games
  <2>2. requests' \in Seq(Requests) /\ awaiting' \in Requests
    BY <1>3, <2>1, SendTypes DEF ClickJoin, Click
  <2> QED
    BY <1>3, <2>2 DEF ClickJoin, Click
<1>4. CASE ClickBackFromCars
  BY <1>4, SendTypes, RequestTypes DEF ClickBackFromCars, Click
<1>5. CASE ClickBack
  BY <1>5 DEF ClickBack
<1>6. CASE ClickClose
  <2>1. requests' \in Seq(Requests)
    BY <1>6, SendTypes, RequestTypes DEF ClickClose
  <2> QED
    BY <1>6, <2>1, RequestTypes DEF ClickClose
<1>7. CASE Misread
  BY <1>7 DEF Misread
<1>8. ASSUME NEW op, Reads(op)
      PROVE  /\ Head(answers) \in Reply \cup {Starting} /\ answers' \in Seq(Reply \cup {Starting})
             /\ Head(answers).op = op
  BY <1>8, FreeTail DEF Reads
<1>9. CASE ReadGames
  <2>1. Head(answers).arg \subseteq Games /\ answers' \in Seq(Reply \cup {Starting})
    BY <1>8, <1>9, AnswerTypes DEF ReadGames, Starting, Answer
  <2> QED
    BY <1>9, <2>1, RequestTypes DEF ReadGames, Reads
<1>10. CASE ReadJoin
  <2>1. Head(answers).arg \in 0..MaxGames /\ answers' \in Seq(Reply \cup {Starting})
    BY <1>8, <1>10, AnswerTypes DEF ReadJoin, Starting, Answer
  <2>2. requests' \in Seq(Requests) /\ awaiting' \in Requests
    BY <1>0, <1>10 DEF ReadJoin, Refresh
  <2> QED
    BY <1>10, <2>1, <2>2 DEF ReadJoin, Reads
<1>11. CASE ReadCarSelect
  <2>1. answers' \in Seq(Reply \cup {Starting})
    BY <1>8, <1>11 DEF ReadCarSelect
  <2>2. requests' \in Seq(Requests) /\ awaiting' \in Requests
    BY <1>0, <1>11 DEF ReadCarSelect
  <2> QED
    BY <1>11, <2>1, <2>2, RequestTypes DEF ReadCarSelect, Reads
<1>12. CASE ReadClosed
  BY <1>12, RequestTypes DEF ReadClosed
<1> QED
  BY <1>1, <1>2, <1>3, <1>4, <1>5, <1>6, <1>7, <1>9, <1>10, <1>11, <1>12 DEF Window

(* One game is given another record.                                       *)
LEMMA GameTypes ==
  ASSUME DialogueTypes, NEW g \in Games, NEW game \in Game
  PROVE  [games EXCEPT ![g] = game] \in [Games -> Game]
  BY DEF DialogueTypes

LEMMA TellTypes ==
  ASSUME DialogueTypes, NEW op, NEW arg, Answer(op, arg) \in Reply \cup {Starting}, Tell(op, arg)
  PROVE  answers' \in Seq(Reply \cup {Starting})
  BY DEF DialogueTypes, Tell

LEMMA LeaveTypes ==
  ASSUME DialogueTypes, LeaveGame
  PROVE  games' \in [Games -> Game] /\ joined' \in 0..MaxGames
<1>1. joined' = 0
  BY DEF LeaveGame
<1>2. CASE joined # 0 /\ OnTheList(joined)
  <2>1. joined \in Games /\ games[joined] \in Game
    BY <1>2, DialogueAssumption DEF DialogueTypes, Games
  <2>2. Left(games[joined]) \in Game
    BY <2>1 DEF Left, Game
  <2>3. games' = [games EXCEPT ![joined] = Left(games[joined])]
    BY <1>2 DEF LeaveGame
  <2> QED
    BY <1>1, <2>1, <2>2, <2>3, GameTypes, RequestTypes
<1> QED
  BY <1>1, <1>2, RequestTypes DEF LeaveGame, DialogueTypes

LEMMA ServeTypes ==
  ASSUME DialogueTypes, NEW op, Serve(op)
  PROVE  /\ Head(requests) \in Requests /\ Head(requests).op = op /\ requests' \in Seq(Requests)
         /\ UNCHANGED windowVars
  BY FreeTail DEF DialogueTypes, Serve

(* What the Receiver does to the answers and the games keeps the types.    *)
LEMMA RestTypes ==
  ASSUME DialogueTypes, UNCHANGED windowVars, requests' \in Seq(Requests),
         answers' \in Seq(Reply \cup {Starting}), games' \in [Games -> Game],
         admitting' \in 0..MaxGames, joined' \in 0..MaxGames, discarded' \in BOOLEAN,
         receiver' \in {"on", "ended", "dead"}
  PROVE  DialogueTypes'
  BY DEF DialogueTypes, windowVars

LEMMA ReceiverKeepsTypes == ASSUME DialogueTypes, Receiver PROVE DialogueTypes'
<1>0. /\ requests \in Seq(Requests) /\ answers \in Seq(Reply \cup {Starting})
      /\ games \in [Games -> Game] /\ discarded \in BOOLEAN
      /\ admitting \in 0..MaxGames /\ joined \in 0..MaxGames /\ 0 \in 0..MaxGames
      /\ Games \subseteq 0..MaxGames /\ receiver \in {"on", "ended", "dead"}
  BY RequestTypes, DialogueAssumption DEF DialogueTypes, Games
<1>1. CASE ServeGames
  <2>1. answers' \in Seq(Reply \cup {Starting})
    BY <1>1, AnswerTypes, TellTypes DEF ServeGames
  <2> QED
    BY <1>0, <1>1, <2>1, ServeTypes, RestTypes DEF ServeGames, serverVars
<1>2. CASE ServeCreate
  <2>1. PICK g \in Games : games' = [games EXCEPT ![g] = NewGame] /\ Tell("JOIN_GAME", g) /\ joined' = g
    BY <1>2 DEF ServeCreate
  <2>2. NewGame \in Game
    BY DEF NewGame, Game, Command
  <2>3. answers' \in Seq(Reply \cup {Starting}) /\ games' \in [Games -> Game] /\ joined' \in 0..MaxGames
    BY <1>0, <2>1, <2>2, AnswerTypes, TellTypes, GameTypes
  <2> QED
    BY <1>0, <1>2, <2>3, ServeTypes, RestTypes DEF ServeCreate
<1>3. CASE ServeJoin
  <2>1. answers' \in Seq(Reply \cup {Starting})
    BY <1>0, <1>3, AnswerTypes, TellTypes DEF ServeJoin
  <2>2. admitting' \in 0..MaxGames
    BY <1>0, <1>3, ServeTypes DEF ServeJoin, Requests
  <2> QED
    BY <1>0, <1>3, <2>1, <2>2, ServeTypes, RestTypes DEF ServeJoin
<1>4. CASE AddClient
  <2>1. answers' \in Seq(Reply \cup {Starting})
    BY <1>0, <1>4, AnswerTypes, TellTypes DEF AddClient
  <2>2. admitting' \in 0..MaxGames /\ UNCHANGED <<windowVars, requests, joined, receiver, discarded>>
    BY <1>0, <1>4 DEF AddClient
  <2>3. admitting \in Games /\ games[admitting] \in Game
    BY <1>0, <1>4, DialogueAssumption DEF AddClient, Games
  <2>4. games' \in [Games -> Game]
    <3>1. [games[admitting] EXCEPT !.member = TRUE] \in Game
      BY <2>3 DEF Game
    <3>2. [games EXCEPT ![admitting].member = TRUE]
            = [games EXCEPT ![admitting] = [games[admitting] EXCEPT !.member = TRUE]]
      BY <1>0, <2>3
    <3> QED
      BY <1>0, <1>4, <2>3, <3>1, <3>2, GameTypes DEF AddClient
  <2> QED
    BY <1>0, <2>1, <2>2, <2>4, RestTypes
<1>5. CASE ConfirmJoin
  <2>1. answers' \in Seq(Reply \cup {Starting})
    BY <1>0, <1>5, AnswerTypes, TellTypes DEF ConfirmJoin
  <2> QED
    BY <1>0, <1>5, <2>1, RestTypes DEF ConfirmJoin
<1>6. CASE ServeDisconnect
  BY <1>0, <1>6, ServeTypes, LeaveTypes, RestTypes DEF ServeDisconnect
<1>7. CASE ServeInitPlayer
  <2>1. UNCHANGED <<windowVars, answers, admitting, joined>> /\ requests' \in Seq(Requests)
    BY <1>7, ServeTypes DEF ServeInitPlayer
  <2>2. CASE receiver' = "ended" /\ UNCHANGED <<games, discarded>>
    BY <1>0, <2>1, <2>2, RestTypes
  <2>3. CASE /\ games' = [games EXCEPT ![joined].commands = Append(@, "INIT_PLAYER")]
             /\ discarded' = (discarded \/ games[joined].phase = "over")
             /\ UNCHANGED receiver
    <3>1. CASE joined \in Games
      <4>1. [games[joined] EXCEPT !.commands = Append(@, "INIT_PLAYER")] \in Game
        <5>1. games[joined] \in Game /\ games[joined].commands \in Seq(Command)
          BY <1>0, <3>1 DEF Game
        <5>2. Append(games[joined].commands, "INIT_PLAYER") \in Seq(Command)
          BY <5>1 DEF Command
        <5> QED
          BY <5>1, <5>2 DEF Game
      <4>2. games' = [games EXCEPT ![joined] = [games[joined] EXCEPT !.commands = Append(@, "INIT_PLAYER")]]
        BY <1>0, <2>3, <3>1
      <4>3. games' \in [Games -> Game]
        BY <3>1, <4>1, <4>2, GameTypes
      <4> QED
        BY <1>0, <2>1, <2>3, <4>3, RestTypes
    <3>2. CASE joined \notin Games
      <4>1. games' = games
        BY <1>0, <2>3, <3>2
      <4> QED
        BY <1>0, <2>1, <2>3, <4>1, RestTypes
    <3> QED
      BY <3>1, <3>2
  <2> QED
    BY <1>7, <2>2, <2>3 DEF ServeInitPlayer
<1> QED
  BY <1>1, <1>2, <1>3, <1>4, <1>5, <1>6, <1>7 DEF Receiver

LEMMA NextAcceptTypes == ASSUME DialogueTypes, NextAccept PROVE DialogueTypes'
<1>1. PICK n \in 0..Len(answers) : answers' = Append(SubSeq(answers, 1, n), Answer("closed", 0))
  BY DEF NextAccept
<1>2. /\ answers \in Seq(Reply \cup {Starting}) /\ requests \in Seq(Requests)
      /\ games \in [Games -> Game] /\ discarded \in BOOLEAN
      /\ admitting \in 0..MaxGames /\ joined \in 0..MaxGames
  BY DEF DialogueTypes
<1>3. SubSeq(answers, 1, n) \in Seq(Reply \cup {Starting}) /\ Answer("closed", 0) \in Reply
  BY <1>2, FreePrefix, AnswerTypes
<1>4. answers' \in Seq(Reply \cup {Starting})
  BY <1>1, <1>3
<1> QED
  BY <1>2, <1>4, RestTypes DEF NextAccept

(* Threads, the stop and the other players change one game.                *)
LEMMA OneGameTypes ==
  ASSUME DialogueTypes, NEW g \in Games, UNCHANGED <<windowVars, requests, serverVars>>,
         answers' \in Seq(Reply \cup {Starting}), discarded' \in BOOLEAN,
         NEW game \in Game, games' = [games EXCEPT ![g] = game]
  PROVE  DialogueTypes'
<1>1. /\ requests \in Seq(Requests) /\ admitting \in 0..MaxGames /\ joined \in 0..MaxGames
      /\ games' \in [Games -> Game] /\ receiver \in {"on", "ended", "dead"}
  BY GameTypes DEF DialogueTypes
<1> QED
  BY <1>1, RestTypes DEF serverVars

LEMMA ServedTypes ==
  ASSUME DialogueTypes, NEW g \in Games, NEW phase, NEW op, Cmd(g, phase, op)
  PROVE  Served(g) \in Game /\ [Served(g) EXCEPT !.start = TRUE] \in Game
<1>1. games[g] \in Game /\ games[g].drained \in Seq(Command) /\ games[g].drained # <<>>
  BY DEF DialogueTypes, Cmd, Game
<1>2. Tail(games[g].drained) \in Seq(Command)
  BY <1>1, FreeTail
<1> QED
  BY <1>1, <1>2 DEF Served, Game

LEMMA SaidTypes ==
  ASSUME DialogueTypes, NEW g \in Games, NEW op, NEW arg, Answer(op, arg) \in Reply \cup {Starting},
         Said(g, op, arg)
  PROVE  answers' \in Seq(Reply \cup {Starting})
  BY TellTypes DEF Said, DialogueTypes

LEMMA InitPlayerTypes ==
  ASSUME DialogueTypes, NEW g \in Games, NEW game \in Game, InitPlayer(g, game),
         UNCHANGED <<windowVars, requests, serverVars, discarded>>
  PROVE  DialogueTypes'
<1>1. answers' \in Seq(Reply \cup {Starting}) /\ discarded' \in BOOLEAN
  BY SaidTypes, AnswerTypes DEF InitPlayer, Confirmed, DialogueTypes
<1>2. CASE games' = [games EXCEPT ![g] = game]
  BY <1>1, <1>2, OneGameTypes
<1>3. ASSUME NEW seat \in {"car", "no spawn"}, games' = [games EXCEPT ![g] = [game EXCEPT !.seat = seat]]
      PROVE  DialogueTypes'
  <2>1. [game EXCEPT !.seat = seat] \in Game
    BY DEF Game
  <2> QED
    BY <1>1, <1>3, <2>1, OneGameTypes
<1> QED
  BY <1>2, <1>3 DEF InitPlayer

LEMMA GamesKeepTypes ==
  ASSUME DialogueTypes, NEW g \in Games, Thread(g) \/ Stop(g) \/ Others(g)
  PROVE  DialogueTypes'
<1>0. /\ games[g] \in Game /\ games \in [Games -> Game] /\ answers \in Seq(Reply \cup {Starting})
      /\ discarded \in BOOLEAN
      /\ games[g].commands \in Seq(Command) /\ <<>> \in Seq(Command)
      /\ Append(games[g].commands, "START_GAME") \in Seq(Command)
  <2>1. games[g] \in Game
    BY DEF DialogueTypes
  <2>2. games[g].commands \in Seq(Command) /\ <<>> \in Seq(Command) /\ "START_GAME" \in Command
    BY <2>1, GameFields DEF Command
  <2>3. Append(games[g].commands, "START_GAME") \in Seq(Command)
    BY <2>2
  <2> QED
    BY <2>1, <2>2, <2>3 DEF DialogueTypes
<1>1. CASE Drain(g)
  <2> DEFINE game == [games[g] EXCEPT !.drained = games[g].commands, !.commands = <<>>]
  <2>1. game \in Game
    BY <1>0 DEF Game
  <2>2. games' = [games EXCEPT ![g] = game]
    BY <1>0, <1>1 DEF Drain
  <2> QED
    BY <1>0, <1>1, <2>1, <2>2, OneGameTypes DEF Drain
<1>2. CASE LobbyCmd(g)
  <2>1. CASE Cmd(g, "lobby", "INIT_PLAYER") /\ InitPlayer(g, Served(g))
    BY <2>1, ServedTypes, InitPlayerTypes DEF Cmd
  <2>2. CASE /\ Cmd(g, "lobby", "START_GAME") /\ Said(g, "STARTING_GAME", 0)
             /\ games' = [games EXCEPT ![g] = [Served(g) EXCEPT !.start = TRUE]]
    <3>1. answers' \in Seq(Reply \cup {Starting})
      BY <2>2, SaidTypes DEF Starting
    <3>2. [Served(g) EXCEPT !.start = TRUE] \in Game
      BY <2>2, ServedTypes
    <3> QED
      BY <1>0, <2>2, <3>1, <3>2, OneGameTypes DEF Cmd
  <2> QED
    BY <1>2, <2>1, <2>2 DEF LobbyCmd
<1>3. CASE RaceCmd(g)
  <2>1. CASE Cmd(g, "race", "INIT_PLAYER") /\ InitPlayer(g, Served(g))
    BY <2>1, ServedTypes, InitPlayerTypes DEF Cmd
  <2>2. CASE Cmd(g, "race", "START_GAME") /\ games' = [games EXCEPT ![g] = Served(g)] /\ UNCHANGED answers
    <3>1. Served(g) \in Game
      BY <2>2, ServedTypes
    <3> QED
      BY <1>0, <2>2, <3>1, OneGameTypes DEF Cmd
  <2> QED
    BY <1>3, <2>1, <2>2 DEF RaceCmd
<1>4. CASE LobbyEnds(g)
  <2> DEFINE game == [games[g] EXCEPT !.phase = "race", !.start = FALSE]
  <2>1. game \in Game
    BY <1>0 DEF Game
  <2>2. games' = [games EXCEPT ![g] = game]
    BY <1>0, <1>4 DEF LobbyEnds
  <2> QED
    BY <1>0, <1>4, <2>1, <2>2, OneGameTypes DEF LobbyEnds, LastIteration
<1>5. CASE RaceEnds(g)
  <2>1. PICK game \in Game : games' = [games EXCEPT ![g] = game]
    <3> DEFINE next == [games[g] EXCEPT !.phase = "lobby", !.race = games[g].race + 1, !.commands = <<>>]
               over == [games[g] EXCEPT !.phase = "over"]
    <3>1. next \in Game
      <4>1. games[g].race + 1 \in Nat
        BY <1>0, GameFields
      <4> QED
        BY <1>0, <4>1 DEF Game
    <3>2. over \in Game
      BY <1>0 DEF Game
    <3>3. CASE games[g].race + 1 < NumRaces
      <4>1. games' = [games EXCEPT ![g] = next]
        BY <1>0, <1>5, <3>3 DEF RaceEnds
      <4> QED
        BY <3>1, <4>1
    <3>4. CASE ~(games[g].race + 1 < NumRaces)
      <4>1. games' = [games EXCEPT ![g] = over]
        BY <1>0, <1>5, <3>4 DEF RaceEnds
      <4> QED
        BY <3>2, <4>1
    <3> QED
      BY <3>3, <3>4
  <2>2. discarded' \in BOOLEAN
    BY <1>5 DEF RaceEnds
  <2> QED
    BY <1>0, <1>5, <2>1, <2>2, OneGameTypes DEF RaceEnds, LastIteration
<1>6. CASE Stop(g)
  <2> DEFINE game == [games[g] EXCEPT !.life = "stopped"]
  <2>1. game \in Game
    BY <1>0 DEF Game
  <2>2. games' = [games EXCEPT ![g] = game]
    BY <1>0, <1>6 DEF Stop
  <2> QED
    BY <1>0, <1>6, <2>1, <2>2, OneGameTypes DEF Stop
<1>8. CASE ThreadStops(g)
  <2> DEFINE game == [games[g] EXCEPT !.phase = "over", !.start = FALSE, !.commands = <<>>]
  <2>1. game \in Game
    BY <1>0 DEF Game
  <2>2. games' = [games EXCEPT ![g] = game]
    BY <1>0, <1>8 DEF ThreadStops
  <2>3. discarded' \in BOOLEAN
    BY <1>8 DEF ThreadStops
  <2> QED
    BY <1>0, <1>8, <2>1, <2>2, <2>3, OneGameTypes DEF ThreadStops
<1>7. CASE Others(g)
  <2>1. PICK game \in Game : games' = [games EXCEPT ![g] = game]
    <3>1. /\ [games[g] EXCEPT !.others = TRUE] \in Game
          /\ [games[g] EXCEPT !.commands = Append(games[g].commands, "START_GAME")] \in Game
          /\ \A life \in {games[g].life, "erased"} :
               [games[g] EXCEPT !.others = FALSE, !.life = life] \in Game
      BY <1>0 DEF Game
    <3>2. CASE games' = [games EXCEPT ![g].others = TRUE]
      <4>1. games' = [games EXCEPT ![g] = [games[g] EXCEPT !.others = TRUE]]
        BY <1>0, <3>2
      <4> QED
        BY <3>1, <4>1
    <3>3. CASE games' = [games EXCEPT ![g].commands = Append(@, "START_GAME")]
      <4>1. games' = [games EXCEPT ![g] =
                       [games[g] EXCEPT !.commands = Append(games[g].commands, "START_GAME")]]
        BY <1>0, <3>3
      <4> QED
        BY <3>1, <4>1
    <3>4. ASSUME NEW life \in {games[g].life, "erased"},
                 games' = [games EXCEPT ![g].others = FALSE, ![g].life = life]
          PROVE  \E game \in Game : games' = [games EXCEPT ![g] = game]
      <4>1. games' = [games EXCEPT ![g] = [games[g] EXCEPT !.others = FALSE, !.life = life]]
        BY <1>0, <3>4
      <4> QED
        BY <3>1, <4>1
    <3> QED
      BY <1>7, <3>2, <3>3, <3>4 DEF Others
  <2> QED
    BY <1>0, <1>7, <2>1, OneGameTypes DEF Others
<1> QED
  BY <1>1, <1>2, <1>3, <1>4, <1>5, <1>6, <1>7, <1>8 DEF Thread

LEMMA DialogueTypeCorrect == DialogueSpec => []DialogueTypes
<1>1. DialogueInit => DialogueTypes
  <2> SUFFICES ASSUME DialogueInit PROVE DialogueTypes
    OBVIOUS
  <2>1. PICK running \in SUBSET {1} :
          games = [g \in Games |->
            IF g \in running THEN [NewGame EXCEPT !.member = FALSE, !.others = TRUE]
            ELSE [NewGame EXCEPT !.life = "none", !.member = FALSE]]
    BY DEF DialogueInit
  <2>2. /\ [NewGame EXCEPT !.member = FALSE, !.others = TRUE] \in Game
        /\ [NewGame EXCEPT !.life = "none", !.member = FALSE] \in Game
    <3>1. <<>> \in Seq(Command)
      OBVIOUS
    <3>2. NewGame \in Game
      BY <3>1 DEF NewGame, Game
    <3> QED
      BY <3>2 DEF Game
  <2>3. games \in [Games -> Game]
    BY <2>1, <2>2
  <2>4. requests \in Seq(Requests) /\ answers \in Seq(Reply \cup {Starting})
    BY DEF DialogueInit
  <2> QED
    BY <2>3, <2>4, RequestTypes DEF DialogueInit, DialogueTypes
<1>2. DialogueTypes /\ [DialogueNext]_dialogueVars => DialogueTypes'
  <2> SUFFICES ASSUME DialogueTypes, [DialogueNext]_dialogueVars PROVE DialogueTypes'
    OBVIOUS
  <2>1. CASE UNCHANGED dialogueVars
    BY <2>1 DEF dialogueVars, windowVars, serverVars, DialogueTypes
  <2> QED
    BY <2>1, WindowTypes, ReceiverKeepsTypes, NextAcceptTypes, GamesKeepTypes DEF DialogueNext, Over
<1> QED
  BY <1>1, <1>2, PTL DEF DialogueSpec

-----------------------------------------------------------------------------
(* The window.                                                             *)

(* The window changes nothing on the server.                               *)
LEMMA ServerStays ==
  ASSUME UNCHANGED <<serverVars, games, discarded>>
  PROVE  /\ Registered' = Registered /\ NoneAsked' = NoneAsked /\ Leaving' = Leaving
         /\ joined' = joined /\ admitting' = admitting /\ receiver' = receiver
         /\ \A g \in Games : NoInit(g)' = NoInit(g) /\ OneInit(g)' = OneInit(g)
  BY DEF serverVars, Registered, NoneAsked, NoInit, OneInit, OnTheList, Leaving

(* Who waits for nothing and can click is idle.                            *)
LEMMA ClicksAreIdle ==
  ASSUME DialogueOK, misread = "none", awaiting = NoRequest, screen \in {"menu", "selector", "cars"}
  PROVE  Registered /\ Idle /\ receiver = "on"
  BY RequestTypes DEF DialogueOK, Situation, Unanswered, Gone, Closed, Entered, WaitsForGames, WaitsToJoin,
     WaitsForCar, NoRequest

(* A click that sends one request, from a window that is idle.             *)
LEMMA SendsOne ==
  ASSUME DialogueTypes, DialogueOK, NEW from \in {"menu", "selector", "cars"}, NEW r \in Requests,
         Click(from, <<r>>)
  PROVE  /\ Registered' /\ Sent' /\ awaiting' = r /\ misread' = "none"
         /\ Idle /\ screen = from /\ joined' = joined /\ receiver' = "on"
<1>1. /\ Registered /\ Idle /\ screen = from /\ receiver = "on"
      /\ requests = <<>> /\ admitting = 0 /\ NoneAsked /\ Free(answers, Reply)
  BY ClicksAreIdle DEF Click, Idle, Nothing
<1>2. requests' = <<r>> /\ awaiting' = r
  BY <1>1, ShortSeqs DEF Click
<1>3. /\ Registered' /\ NoneAsked' /\ admitting' = 0 /\ joined' = joined /\ answers' = answers
      /\ receiver' = "on"
  BY <1>1, ServerStays DEF Click
<1> QED
  BY <1>1, <1>2, <1>3 DEF Sent, Click

LEMMA ClicksKeep ==
  ASSUME DialogueTypes, DialogueOK,
         \/ ClickPlay \/ ClickRefresh \/ ClickCreate \/ ClickSelectCar
         \/ ClickBackFromCars \/ ClickBack \/ ClickClose
         \/ \E g \in Games : ClickJoin(g)
  PROVE  DialogueOK'
<1>1. CASE ClickPlay \/ ClickRefresh
  <2> DEFINE r == Request("REQUEST_GAMES", 0)
  <2>1. PICK from \in {"menu", "selector"} : Click(from, <<r>>) /\ screen' = "selector" /\ joinedId' = joinedId
    BY <1>1 DEF ClickPlay, ClickRefresh, Click
  <2>2. r \in Requests
    BY RequestTypes
  <2>3. /\ Registered' /\ Sent' /\ receiver' = "on" /\ awaiting' = r /\ misread' = "none"
        /\ Idle /\ screen = from /\ joined' = joined
    BY <2>1, <2>2, SendsOne
  <2>4. joined' = 0 /\ joinedId' = 0
    BY <2>1, <2>3 DEF Idle
  <2> QED
    BY <2>1, <2>3, <2>4 DEF DialogueOK, Situation, WaitsForGames
<1>2. ASSUME NEW g \in 0..MaxGames,
             Click("selector", <<Request("JOIN_GAME", g)>>), UNCHANGED <<screen, joinedId>>
      PROVE  DialogueOK'
  <2> DEFINE r == Request("JOIN_GAME", g)
  <2>1. r \in Requests /\ r.op = "JOIN_GAME"
    BY RequestTypes
  <2>2. /\ Registered' /\ Sent' /\ receiver' = "on" /\ awaiting' = r /\ misread' = "none"
        /\ Idle /\ screen = "selector" /\ joined' = joined
    BY <1>2, <2>1, SendsOne
  <2>3. joined' = 0 /\ joinedId' = 0 /\ screen' = "selector"
    BY <1>2, <2>2 DEF Idle
  <2> QED
    BY <2>1, <2>2, <2>3 DEF DialogueOK, Situation, WaitsToJoin
<1>3. CASE ClickSelectCar
  <2> DEFINE r == Request("INIT_PLAYER", 0)
  <2>1. r \in Requests
    BY RequestTypes
  <2>2. /\ Registered' /\ Sent' /\ receiver' = "on" /\ awaiting' = r /\ misread' = "none"
        /\ Idle /\ screen = "cars" /\ joined' = joined
    BY <1>3, <2>1, SendsOne DEF ClickSelectCar
  <2>3. joinedId' = joined' /\ joinedId' # 0 /\ screen' = "cars" /\ admitting' = 0
    BY <1>3, <2>2 DEF Idle, ClickSelectCar, Sent
  <2> QED
    BY <2>2, <2>3 DEF DialogueOK, Situation, WaitsForCar
<1>4. CASE ClickBackFromCars
  <2>1. /\ Registered /\ Idle /\ receiver = "on" /\ requests = <<>> /\ admitting = 0 /\ NoneAsked /\ Free(answers, Reply)
        /\ joinedId = joined /\ joinedId \in 0..MaxGames
    BY <1>4, ClicksAreIdle DEF ClickBackFromCars, Click, Idle, Nothing, DialogueTypes
  <2>2. LeaveCars = <<Leaving, Request("REQUEST_GAMES", 0)>>
    BY <2>1 DEF LeaveCars, Leaving
  <2>3. Leaving \in Requests /\ Request("REQUEST_GAMES", 0) \in Requests
    BY <2>1, RequestTypes DEF Leaving
  <2>4. requests' = LeaveCars /\ awaiting' = Request("REQUEST_GAMES", 0)
    <3>1. <<>> \o LeaveCars = LeaveCars /\ Last(LeaveCars) = Request("REQUEST_GAMES", 0)
      BY <2>2, <2>3, ShortSeqs
    <3>2. requests' = requests \o LeaveCars /\ awaiting' = Last(LeaveCars)
      BY <1>4 DEF ClickBackFromCars, Click
    <3> QED
      BY <2>1, <3>1, <3>2
  <2>5. /\ Registered' /\ NoneAsked' /\ admitting' = 0 /\ joined' = joined /\ answers' = answers
        /\ Leaving' = Leaving /\ receiver' = "on"
    <3>1. UNCHANGED <<serverVars, games, discarded>> /\ answers' = answers
      BY <1>4 DEF ClickBackFromCars, Click
    <3>2. /\ Registered' = Registered /\ NoneAsked' = NoneAsked /\ Leaving' = Leaving
          /\ joined' = joined /\ admitting' = admitting /\ receiver' = receiver
      BY <3>1, ServerStays
    <3> QED
      BY <2>1, <3>1, <3>2
  <2>6. screen' = "selector" /\ joinedId' = 0 /\ misread' = "none"
    BY <1>4 DEF ClickBackFromCars, Click
  <2> QED
    BY <2>1, <2>2, <2>4, <2>5, <2>6 DEF DialogueOK, Situation, WaitsForGames
<1>5. CASE ClickBack
  <2>1. Registered /\ Idle /\ screen = "selector" /\ receiver = "on"
    BY <1>5, ClicksAreIdle DEF ClickBack
  <2>2. /\ Registered' /\ NoneAsked' = NoneAsked /\ joined' = joined /\ admitting' = admitting
        /\ receiver' = "on"
    BY <1>5, <2>1, ServerStays DEF ClickBack
  <2> QED
    BY <1>5, <2>1, <2>2 DEF ClickBack, DialogueOK, Situation, Idle, Nothing
<1>6. CASE ClickClose
  <2>1. /\ Registered /\ receiver = "on" /\ requests = <<>> /\ admitting = 0 /\ NoneAsked /\ joinedId = joined
        /\ joinedId \in 0..MaxGames
    BY <1>6, ClicksAreIdle DEF ClickClose, Idle, Nothing, DialogueTypes
  <2>2. /\ Registered' /\ NoneAsked' /\ joined' = joined /\ admitting' = 0 /\ Leaving' = Leaving
        /\ receiver' = "on"
    BY <1>6, <2>1, ServerStays DEF ClickClose
  <2>3. requests' = <<Leaving>> \/ (requests' = <<>> /\ joined = 0)
    <3>1. Leaving = Request("CLIENT_DISCONNECT", joinedId) /\ Leaving \in Requests
      BY <2>1, RequestTypes DEF Leaving
    <3> QED
      BY <1>6, <2>1, <3>1, ShortSeqs DEF ClickClose
  <2>4. screen' = "closed" /\ awaiting' = NoRequest /\ joinedId' = 0 /\ misread' = "none"
    BY <1>6 DEF ClickClose
  <2> QED
    BY <2>2, <2>3, <2>4 DEF DialogueOK, Situation, Closed
<1>7. CASE ClickCreate
  BY <1>2, <1>7, RequestTypes DEF ClickCreate
<1>8. ASSUME NEW g \in Games, ClickJoin(g) PROVE DialogueOK'
  BY <1>2, <1>8, DialogueAssumption DEF ClickJoin, Games
<1> QED
  BY <1>1, <1>3, <1>4, <1>5, <1>6, <1>7, <1>8

(* The head of the answers is the reply, if it is one.                     *)
LEMMA HeadReply ==
  ASSUME DialogueTypes, answers # <<>>
  PROVE  /\ Head(answers) = Starting \/ Head(answers) \in Reply
         /\ Free(answers, Reply) => Head(answers) = Starting
         /\ \A replies : Replied(replies) /\ Head(answers) \in Reply
              => Head(answers) \in replies /\ Free(Tail(answers), Reply)
<1>1. answers \in Seq(Reply \cup {Starting})
  BY DEF DialogueTypes
<1>2. Head(answers) \in Reply \cup {Starting}
  BY <1>1, FreeTail
<1>3. Free(answers, Reply) => Head(answers) \notin Reply
  BY <1>1, FreeTail
<1>4. ASSUME NEW replies, Replied(replies), Head(answers) \in Reply
      PROVE  Head(answers) \in replies /\ Free(Tail(answers), Reply)
  <2>1. Once(answers, Reply) /\ Free(answers, Reply \ replies)
    BY <1>4 DEF Replied
  <2>2. Head(answers) \notin Reply \ replies
    BY <1>1, <2>1, FreeTail
  <2>3. Free(Tail(answers), Reply)
    BY <1>1, <1>4, <2>1, FreeTail
  <2> QED
    BY <1>4, <2>2, <2>3
<1> QED
  BY <1>2, <1>3, <1>4

(* Who is answered by a living server is on the table.                     *)
LEMMA Answering ==
  ASSUME DialogueTypes, DialogueOK, misread = "none", answers # <<>>, awaiting # NoRequest,
         Head(answers) \in Reply, Head(answers).op # "closed"
  PROVE  /\ Registered /\ receiver = "on" /\ (WaitsForGames \/ WaitsToJoin \/ WaitsForCar)
         /\ ~Free(answers, Reply)
<1>1. ~Free(answers, Reply)
  BY HeadReply, AnswerTypes
<1>2. ~Unanswered
  BY <1>1 DEF Unanswered, Nothing
<1>3. ~Gone
  BY HeadReply DEF Gone, Answer
<1> QED
  BY <1>1, <1>2, <1>3 DEF DialogueOK, Situation, Idle, Closed, Entered

(* Nothing but a STARTING_GAME is taken for an answer.                     *)
LEMMA MisreadKeeps == ASSUME DialogueTypes, DialogueOK, Misread PROVE DialogueOK'
<1>1. /\ misread = "none" /\ awaiting # NoRequest /\ answers # <<>>
      /\ Head(answers).op # Expects(awaiting) /\ Head(answers).op # "closed"
      /\ misread' = Head(answers).op /\ screen' = screen
  BY DEF Misread, Waits
<1>2. screen # "game"
  BY <1>1 DEF DialogueOK, Situation, Idle, Closed, Entered, WaitsForGames, WaitsToJoin, WaitsForCar,
     Unanswered, Gone
<1>3. ASSUME Head(answers) \in Reply PROVE FALSE
  <2>1. (WaitsForGames \/ WaitsToJoin \/ WaitsForCar) /\ ~Free(answers, Reply)
    BY <1>1, <1>3, Answering
  <2>2. CASE WaitsForGames
    <3>1. Replied({a \in Reply : a.op = "REQUEST_GAMES"}) /\ Expects(awaiting) = "REQUEST_GAMES"
      BY <2>1, <2>2 DEF WaitsForGames, Sent, Expects, Request
    <3> QED
      BY <1>1, <1>3, <3>1, HeadReply
  <2>3. CASE WaitsToJoin
    <3>1. Replied({Answer("JOIN_GAME", joined)}) /\ Expects(awaiting) = "JOIN_GAME"
      BY <2>1, <2>3 DEF WaitsToJoin, Sent, Expects
    <3> QED
      BY <1>1, <1>3, <3>1, HeadReply DEF Answer
  <2>4. CASE WaitsForCar
    <3>1. /\ \E arg : Replied({Answer("CAR_SELECT", arg)})
          /\ Expects(awaiting) = "CAR_SELECT"
      BY <2>1, <2>4 DEF WaitsForCar, Sent, Expects, Request
    <3> QED
      BY <1>1, <1>3, <3>1, HeadReply DEF Answer
  <2> QED
    BY <2>1, <2>2, <2>3, <2>4
<1>4. misread' = "STARTING_GAME"
  BY <1>1, <1>3, HeadReply DEF Starting, Answer
<1> QED
  BY <1>1, <1>2, <1>4 DEF DialogueOK

LEMMA ReadGamesKeeps == ASSUME DialogueTypes, DialogueOK, ReadGames PROVE DialogueOK'
<1>1. /\ misread = "none" /\ awaiting # NoRequest /\ answers # <<>>
      /\ Head(answers).op = "REQUEST_GAMES" /\ Expects(awaiting) = "REQUEST_GAMES"
      /\ answers' = Tail(answers) /\ awaiting' = NoRequest
      /\ UNCHANGED <<misread, serverVars, games, discarded, screen, joinedId, requests>>
  BY DEF ReadGames, Reads, Waits
<1>2. Head(answers) \in Reply
  BY <1>1, HeadReply DEF Starting, Answer
<1>3. Registered /\ receiver = "on" /\ (WaitsForGames \/ WaitsToJoin \/ WaitsForCar) /\ ~Free(answers, Reply)
  BY <1>1, <1>2, Answering
<1>4. WaitsForGames
  BY <1>1, <1>3 DEF WaitsToJoin, WaitsForCar, Expects, Request
<1>5. joined = 0 /\ Replied({a \in Reply : a.op = "REQUEST_GAMES"})
  BY <1>3, <1>4 DEF WaitsForGames, Sent
<1>6. Free(answers', Reply)
  BY <1>1, <1>2, <1>5, HeadReply
<1>7. Registered' /\ NoneAsked' /\ joined' = joined /\ admitting' = 0 /\ receiver' = "on"
  BY <1>1, <1>3, <1>5, ServerStays DEF Replied
<1>8. requests' = <<>> /\ screen' = "selector" /\ joinedId' = 0
  BY <1>1, <1>4, <1>5 DEF Replied, WaitsForGames
<1> QED
  BY <1>1, <1>5, <1>6, <1>7, <1>8 DEF DialogueOK, Situation, Idle, Nothing

LEMMA ReadJoinKeeps == ASSUME DialogueTypes, DialogueOK, ReadJoin PROVE DialogueOK'
<1>1. /\ misread = "none" /\ awaiting # NoRequest /\ answers # <<>>
      /\ Head(answers).op = "JOIN_GAME" /\ Expects(awaiting) = "JOIN_GAME"
      /\ answers' = Tail(answers)
      /\ UNCHANGED <<misread, serverVars, games, discarded>>
  BY DEF ReadJoin, Reads, Waits
<1>2. Head(answers) \in Reply
  BY <1>1, HeadReply DEF Starting, Answer
<1>3. Registered /\ receiver = "on" /\ (WaitsForGames \/ WaitsToJoin \/ WaitsForCar) /\ ~Free(answers, Reply)
  BY <1>1, <1>2, Answering
<1>4. WaitsToJoin
  BY <1>1, <1>3 DEF WaitsForGames, WaitsForCar, Expects, Request
<1>5. Replied({Answer("JOIN_GAME", joined)})
  BY <1>3, <1>4 DEF WaitsToJoin, Sent
<1>6. Free(answers', Reply) /\ Head(answers).arg = joined
  BY <1>1, <1>2, <1>5, HeadReply DEF Answer
<1>7. Registered' /\ NoneAsked' /\ joined' = joined /\ admitting' = 0 /\ receiver' = "on"
  BY <1>1, <1>3, <1>5, ServerStays DEF Replied
<1>8. requests = <<>> /\ screen = "selector" /\ joinedId = 0
  BY <1>4, <1>5 DEF Replied, WaitsToJoin
<1>9. CASE joined # 0
  <2>1. joinedId' = joined /\ screen' = "cars" /\ awaiting' = NoRequest /\ requests' = <<>>
    BY <1>6, <1>8, <1>9 DEF ReadJoin
  <2> QED
    BY <1>1, <1>6, <1>7, <1>9, <2>1 DEF DialogueOK, Situation, Idle, Nothing
<1>10. CASE joined = 0
  <2> DEFINE r == Request("REQUEST_GAMES", 0)
  <2>1. requests' = Append(<<>>, r) /\ awaiting' = r /\ joinedId' = 0 /\ screen' = "selector"
    BY <1>6, <1>8, <1>10 DEF ReadJoin, Refresh
  <2>2. requests' = <<awaiting'>>
    BY <2>1, RequestTypes, ShortSeqs
  <2> QED
    BY <1>1, <1>6, <1>7, <1>10, <2>1, <2>2 DEF DialogueOK, Situation, WaitsForGames, Sent
<1> QED
  BY <1>9, <1>10

LEMMA ReadCarSelectKeeps == ASSUME DialogueTypes, DialogueOK, ReadCarSelect PROVE DialogueOK'
<1>1. /\ misread = "none" /\ awaiting # NoRequest /\ answers # <<>>
      /\ Head(answers).op = "CAR_SELECT" /\ Expects(awaiting) = "CAR_SELECT"
      /\ answers' = Tail(answers)
      /\ UNCHANGED <<misread, serverVars, games, discarded>>
  BY DEF ReadCarSelect, Reads, Waits
<1>2. Head(answers) \in Reply
  BY <1>1, HeadReply DEF Starting, Answer
<1>3. Registered /\ receiver = "on" /\ (WaitsForGames \/ WaitsToJoin \/ WaitsForCar) /\ ~Free(answers, Reply)
  BY <1>1, <1>2, Answering
<1>4. WaitsForCar
  BY <1>1, <1>3 DEF WaitsForGames, WaitsToJoin, Expects, Request
<1>5. joinedId = joined /\ joined # 0
  BY <1>4 DEF WaitsForCar
<1>6. \/ Replied({Answer("CAR_SELECT", 0)})
      \/ games[joined].seat # "none" /\ Replied({Answer("CAR_SELECT", 1)})
  BY <1>3, <1>4 DEF WaitsForCar, Sent
<1>7. requests = <<>> /\ admitting = 0 /\ NoneAsked
  BY <1>6 DEF Replied
<1>8. /\ Registered' /\ NoneAsked' /\ joined' = joined /\ admitting' = 0 /\ Leaving' = Leaving
      /\ games' = games /\ receiver' = "on"
  BY <1>1, <1>3, <1>7, ServerStays
<1>9. CASE Head(answers).arg = 1
  <2>1. games[joined].seat # "none" /\ Free(answers', Reply)
    BY <1>1, <1>2, <1>6, <1>9, HeadReply DEF Answer
  <2>2. screen' = "game" /\ awaiting' = NoRequest /\ joinedId' = joinedId /\ requests' = requests
    BY <1>9 DEF ReadCarSelect
  <2> QED
    BY <1>1, <1>5, <1>6, <1>7, <1>8, <2>1, <2>2 DEF DialogueOK, Situation, Entered, Nothing
<1>10. CASE Head(answers).arg = 0
  <2>1. Free(answers', Reply)
    BY <1>1, <1>2, <1>6, <1>10, HeadReply DEF Answer
  <2>2. LeaveCars = <<Leaving, Request("REQUEST_GAMES", 0)>>
    BY <1>5 DEF LeaveCars, Leaving
  <2>3. Leaving \in Requests /\ Request("REQUEST_GAMES", 0) \in Requests
    BY RequestTypes DEF Leaving, DialogueTypes
  <2>4. requests' = requests \o LeaveCars /\ awaiting' = Last(LeaveCars) /\ screen' = "selector" /\ joinedId' = 0
    BY <1>10 DEF ReadCarSelect
  <2>5. requests' = LeaveCars /\ awaiting' = Request("REQUEST_GAMES", 0)
    BY <1>7, <2>2, <2>3, <2>4, ShortSeqs
  <2> QED
    BY <1>1, <1>8, <2>1, <2>2, <2>4, <2>5 DEF DialogueOK, Situation, WaitsForGames
<1> QED
  BY <1>9, <1>10 DEF ReadCarSelect

(* No living server closes the connection.                                 *)
LEMMA ReadClosedKeeps == ASSUME DialogueTypes, DialogueOK, ReadClosed PROVE DialogueOK'
<1>1. /\ misread = "none" /\ awaiting # NoRequest /\ answers # <<>> /\ Head(answers).op = "closed"
      /\ screen' = "closed" /\ awaiting' = NoRequest
      /\ UNCHANGED <<misread, serverVars, games, discarded>>
  BY DEF ReadClosed, Waits
<1>2. Head(answers) \in Reply
  BY <1>1, HeadReply DEF Starting, Answer
<1>3. ~Free(answers, Reply)
  BY <1>1, <1>2, HeadReply, AnswerTypes
<1>4. /\ ~Replied({a \in Reply : a.op = "REQUEST_GAMES"})
      /\ \A arg : ~Replied({Answer("JOIN_GAME", arg)}) /\ ~Replied({Answer("CAR_SELECT", arg)})
  BY <1>1, <1>2, HeadReply DEF Answer
<1>5. ~Situation
  BY <1>1, <1>3, <1>4 DEF Situation, Idle, Closed, Entered, WaitsForGames, WaitsToJoin, WaitsForCar, Sent
<1>6. Registered /\ receiver = "dead"
  BY <1>1, <1>3, <1>5 DEF DialogueOK, Unanswered, Gone, Nothing
<1>7. Registered' /\ receiver' = "dead"
  BY <1>1, <1>6, ServerStays
<1> QED
  BY <1>1, <1>7 DEF DialogueOK, Gone

-----------------------------------------------------------------------------
(* The Receiver.                                                           *)

LEMMA Serves ==
  ASSUME DialogueTypes, DialogueOK, NEW op, Serve(op)
  PROVE  /\ misread = "none" /\ misread' = "none" /\ Registered /\ admitting = 0 /\ NoneAsked
         /\ receiver = "on"
         /\ UNCHANGED <<screen, awaiting, joinedId>>
         /\ op # "CLIENT_DISCONNECT" => Sent /\ Head(requests) = awaiting /\ requests' = <<>>
         /\ op = "REQUEST_GAMES" => WaitsForGames /\ joined = 0
         /\ op = "JOIN_GAME" => WaitsToJoin /\ joined = 0
         /\ op = "INIT_PLAYER" => WaitsForCar /\ joinedId = joined
         /\ op = "CLIENT_DISCONNECT" =>
              \/ Closed /\ requests' = <<>>
              \/ WaitsForGames /\ Free(answers, Reply) /\ requests' = <<awaiting>>
<1>1. /\ misread = "none" /\ screen # "game" /\ receiver = "on" /\ requests # <<>> /\ Head(requests).op = op
      /\ admitting = 0 /\ requests' = Tail(requests) /\ UNCHANGED windowVars
  BY DEF Serve, Followed
<1>2. Registered /\ (Closed \/ WaitsForGames \/ WaitsToJoin \/ WaitsForCar)
  BY <1>1 DEF DialogueOK, Situation, Unanswered, Gone, Idle, Nothing, Entered
<1>3. Leaving \in Requests /\ awaiting \in Requests /\ Leaving.op = "CLIENT_DISCONNECT"
  BY RequestTypes DEF Leaving, DialogueTypes
<1>4. ASSUME Sent PROVE Head(requests) = awaiting /\ requests' = <<>> /\ awaiting.op = op /\ NoneAsked
  BY <1>1, <1>3, <1>4, ShortSeqs DEF Sent
<1>5. CASE Closed
  <2>1. requests = <<Leaving>> /\ NoneAsked
    BY <1>1, <1>5 DEF Closed
  <2>2. op = "CLIENT_DISCONNECT" /\ requests' = <<>>
    BY <1>1, <1>3, <2>1, ShortSeqs
  <2> QED
    BY <1>1, <1>2, <1>5, <2>1, <2>2 DEF windowVars
<1>6. CASE WaitsForGames
  <2>1. awaiting.op = "REQUEST_GAMES"
    BY <1>6 DEF WaitsForGames, Request
  <2>2. CASE requests = <<Leaving, awaiting>> /\ NoneAsked /\ Free(answers, Reply)
    <3>1. op = "CLIENT_DISCONNECT" /\ requests' = <<awaiting>>
      BY <1>1, <1>3, <2>2, ShortSeqs
    <3> QED
      BY <1>1, <1>2, <1>6, <2>2, <3>1 DEF windowVars
  <2>3. CASE joined = 0 /\ Sent
    BY <1>1, <1>2, <1>4, <1>6, <2>1, <2>3 DEF windowVars
  <2> QED
    BY <1>1, <1>6, <2>2, <2>3 DEF WaitsForGames, Replied
<1>7. CASE WaitsToJoin
  <2>1. awaiting.op = "JOIN_GAME" /\ joined = 0 /\ Sent
    BY <1>1, <1>7 DEF WaitsToJoin, Replied
  <2> QED
    BY <1>1, <1>2, <1>4, <1>7, <2>1 DEF windowVars
<1>8. CASE WaitsForCar
  <2>1. awaiting.op = "INIT_PLAYER" /\ joinedId = joined /\ Sent
    BY <1>1, <1>8 DEF WaitsForCar, Replied, Request
  <2> QED
    BY <1>1, <1>2, <1>4, <1>8, <2>1 DEF windowVars
<1> QED
  BY <1>2, <1>5, <1>6, <1>7, <1>8

(* The one reply.                                                          *)
LEMMA TellsReply ==
  ASSUME DialogueTypes, Free(answers, Reply), NEW op, NEW arg, NEW replies,
         Answer(op, arg) \in Reply \cap replies, Tell(op, arg)
  PROVE  Once(answers', Reply) /\ Free(answers', Reply \ replies)
<1>1. answers \in Seq(Reply \cup {Starting}) /\ Answer(op, arg) \in Reply \cup {Starting}
      /\ answers' = Append(answers, Answer(op, arg))
  BY DEF DialogueTypes, Tell
<1>2. Free(answers, Reply \ replies)
  BY DEF Free
<1> QED
  BY <1>1, <1>2, FreeAppend

LEMMA ServeGamesKeeps == ASSUME DialogueTypes, DialogueOK, ServeGames PROVE DialogueOK'
<1> DEFINE reply == Answer("REQUEST_GAMES", {g \in Games : OnTheList(g)})
           replies == {a \in Reply : a.op = "REQUEST_GAMES"}
<1>1. Serve("REQUEST_GAMES") /\ UNCHANGED <<serverVars, games, discarded>>
  BY DEF ServeGames
<1>2. /\ misread' = "none" /\ Registered /\ NoneAsked /\ Sent /\ WaitsForGames /\ joined = 0
      /\ requests' = <<>> /\ receiver = "on" /\ UNCHANGED <<screen, awaiting, joinedId>>
  BY <1>1, Serves
<1>3. reply \in Reply \cap replies
  BY AnswerTypes DEF Answer
<1>4. Once(answers', Reply) /\ Free(answers', Reply \ replies)
  BY <1>2, <1>3, TellsReply DEF ServeGames, Sent
<1>5. Registered' /\ NoneAsked' /\ joined' = 0 /\ admitting' = 0 /\ receiver' = "on"
  BY <1>1, <1>2, ServerStays DEF Sent
<1> QED
  BY <1>2, <1>4, <1>5 DEF DialogueOK, Situation, WaitsForGames, Replied

LEMMA ServeCreateKeeps == ASSUME DialogueTypes, DialogueOK, ServeCreate PROVE DialogueOK'
<1>1. Serve("JOIN_GAME") /\ admitting' = admitting /\ receiver' = receiver
  BY DEF ServeCreate
<1>2. /\ misread' = "none" /\ Registered /\ NoneAsked /\ Sent /\ WaitsToJoin /\ joined = 0 /\ admitting = 0
      /\ requests' = <<>> /\ receiver = "on" /\ UNCHANGED <<screen, awaiting, joinedId>>
  BY <1>1, Serves
<1>3. PICK g \in Games : games' = [games EXCEPT ![g] = NewGame] /\ Tell("JOIN_GAME", g) /\ joined' = g
  BY DEF ServeCreate
<1>4. g # 0 /\ g \in 0..MaxGames /\ games \in [Games -> Game]
  BY DialogueAssumption DEF Games, DialogueTypes
<1>5. Once(answers', Reply) /\ Free(answers', Reply \ {Answer("JOIN_GAME", g)})
  BY <1>2, <1>3, <1>4, AnswerTypes, TellsReply DEF Sent
<1>6. games'[g] = NewGame /\ \A h \in Games \ {g} : games'[h] = games[h]
  BY <1>3, <1>4
<1>7. Registered'
  BY <1>1, <1>2, <1>3, <1>4, <1>6 DEF Registered, OnTheList, NewGame
<1>8. NoneAsked'
  <2>1. NoInit(g)'
    BY <1>6, FreeEmpty DEF NoInit, NewGame
  <2>2. ASSUME NEW h \in Games \ {g} PROVE NoInit(h)'
    BY <1>2, <1>6 DEF NoInit, NoneAsked
  <2> QED
    BY <2>1, <2>2 DEF NoneAsked
<1>9. Replied({Answer("JOIN_GAME", joined)})'
  BY <1>1, <1>2, <1>3, <1>5, <1>8 DEF Replied
<1> QED
  BY <1>1, <1>2, <1>7, <1>9 DEF DialogueOK, Situation, WaitsToJoin

LEMMA ServeJoinKeeps == ASSUME DialogueTypes, DialogueOK, ServeJoin PROVE DialogueOK'
<1> DEFINE g == Head(requests).game
<1>1. Serve("JOIN_GAME") /\ UNCHANGED <<joined, receiver, games, discarded>> /\ g # 0
  BY DEF ServeJoin
<1>2. /\ misread' = "none" /\ Registered /\ NoneAsked /\ Sent /\ WaitsToJoin /\ joined = 0 /\ admitting = 0
      /\ requests' = <<>> /\ receiver = "on" /\ UNCHANGED <<screen, awaiting, joinedId>> /\ Free(answers, Reply)
  BY <1>1, Serves DEF Sent
<1>3. NoneAsked' /\ joined' = 0 /\ \A h \in Games : OnTheList(h)' = OnTheList(h)
  BY <1>1, <1>2 DEF NoneAsked, NoInit, OnTheList
<1>4. Registered'
  BY <1>1, <1>2, <1>3 DEF Registered
<1>5. CASE admitting' = g /\ UNCHANGED answers
  BY <1>1, <1>2, <1>3, <1>4, <1>5 DEF DialogueOK, Situation, WaitsToJoin
<1>6. CASE Tell("JOIN_GAME", 0) /\ UNCHANGED admitting
  <2>1. Once(answers', Reply) /\ Free(answers', Reply \ {Answer("JOIN_GAME", 0)})
    BY <1>2, <1>6, AnswerTypes, RequestTypes, TellsReply
  <2> QED
    BY <1>1, <1>2, <1>3, <1>4, <1>6, <2>1 DEF DialogueOK, Situation, WaitsToJoin, Replied
<1> QED
  BY <1>5, <1>6 DEF ServeJoin

LEMMA Admits ==
  ASSUME DialogueTypes, DialogueOK, Followed, admitting # 0
  PROVE  /\ misread = "none" /\ Registered /\ WaitsToJoin /\ joined = 0 /\ requests = <<>>
         /\ NoneAsked /\ Free(answers, Reply) /\ admitting \in Games /\ receiver = "on"
<1>1. misread = "none" /\ screen # "game" /\ receiver # "dead" /\ admitting \in Games
  BY DialogueAssumption DEF Followed, DialogueTypes, Games
<1> QED
  BY <1>1 DEF DialogueOK, Situation, Unanswered, Gone, Idle, Nothing, Closed, Entered, WaitsForGames, WaitsToJoin, WaitsForCar, Sent, Replied

LEMMA AddClientKeeps == ASSUME DialogueTypes, DialogueOK, AddClient PROVE DialogueOK'
<1>1. /\ misread = "none" /\ Registered /\ WaitsToJoin /\ joined = 0 /\ requests = <<>>
      /\ NoneAsked /\ Free(answers, Reply) /\ admitting \in Games /\ receiver = "on"
      /\ ~games[admitting].member /\ admitting # 0
  BY Admits DEF AddClient
<1>2. UNCHANGED <<screen, awaiting, joinedId, misread, requests, joined, receiver, discarded>>
  BY DEF AddClient, windowVars
<1>3. CASE /\ games' = [games EXCEPT ![admitting].member = TRUE]
           /\ UNCHANGED <<admitting, answers>>
  <2>1. \A h \in Games : /\ games'[h].life = games[h].life /\ games'[h].commands = games[h].commands
                         /\ games'[h].drained = games[h].drained
                         /\ h # admitting => games'[h] = games[h]
    BY <1>1, <1>3 DEF DialogueTypes, Game
  <2>2. NoneAsked'
    <3>1. ASSUME NEW h \in Games PROVE NoInit(h)'
      <4>1. NoInit(h)
        BY <1>1 DEF NoneAsked
      <4>2. games'[h].commands = games[h].commands /\ games'[h].drained = games[h].drained
        BY <2>1
      <4> QED
        BY <4>1, <4>2 DEF NoInit
    <3> QED
      BY <3>1 DEF NoneAsked
  <2>3. Registered'
    BY <1>1, <1>2, <1>3, <2>1 DEF Registered, OnTheList
  <2> QED
    BY <1>1, <1>2, <1>3, <2>2, <2>3 DEF DialogueOK, Situation, WaitsToJoin
<1>4. CASE Tell("JOIN_GAME", 0) /\ admitting' = 0 /\ UNCHANGED games
  <2>1. Once(answers', Reply) /\ Free(answers', Reply \ {Answer("JOIN_GAME", 0)})
    BY <1>1, <1>4, AnswerTypes, RequestTypes, TellsReply
  <2>2. NoneAsked' /\ Registered'
    BY <1>1, <1>2, <1>4 DEF NoneAsked, NoInit, Registered, OnTheList
  <2> QED
    BY <1>1, <1>2, <1>4, <2>1, <2>2 DEF DialogueOK, Situation, WaitsToJoin, Replied
<1> QED
  BY <1>3, <1>4 DEF AddClient

LEMMA ConfirmJoinKeeps == ASSUME DialogueTypes, DialogueOK, ConfirmJoin PROVE DialogueOK'
<1>1. /\ misread = "none" /\ Registered /\ WaitsToJoin /\ joined = 0 /\ requests = <<>>
      /\ NoneAsked /\ Free(answers, Reply) /\ admitting \in Games /\ receiver = "on"
      /\ games[admitting].member /\ admitting # 0
  BY Admits DEF ConfirmJoin
<1>2. /\ UNCHANGED <<screen, awaiting, joinedId, misread, requests, receiver, games, discarded>>
      /\ joined' = admitting /\ admitting' = 0
  BY DEF ConfirmJoin, windowVars
<1>3. Once(answers', Reply) /\ Free(answers', Reply \ {Answer("JOIN_GAME", admitting)})
  BY <1>1, AnswerTypes, TellsReply DEF ConfirmJoin, DialogueTypes
<1>4. NoneAsked' /\ Registered'
  BY <1>1, <1>2 DEF NoneAsked, NoInit, Registered, OnTheList
<1> QED
  BY <1>1, <1>2, <1>3, <1>4 DEF DialogueOK, Situation, WaitsToJoin, Replied

(* Who leaves is registered nowhere, or in a game that is off the list.    *)
LEMMA Leaves ==
  ASSUME DialogueTypes, Registered, NoneAsked, admitting = 0, admitting' = 0, LeaveGame
  PROVE  Registered' /\ NoneAsked' /\ joined' = 0
<1>1. joined' = 0 /\ games \in [Games -> Game] /\ \A g \in Games : g # 0
  BY DialogueAssumption DEF LeaveGame, DialogueTypes, Games
<1>2. CASE joined # 0 /\ OnTheList(joined)
  <2>1. joined \in Games /\ games' = [games EXCEPT ![joined] = Left(games[joined])]
    BY <1>2, DialogueAssumption DEF LeaveGame, DialogueTypes, Games
  <2>2. /\ games'[joined].member = FALSE
        /\ games'[joined].commands = games[joined].commands
        /\ games'[joined].drained = games[joined].drained
        /\ \A h \in Games \ {joined} : games'[h] = games[h]
    <3>1. games'[joined] = Left(games[joined]) /\ \A h \in Games \ {joined} : games'[h] = games[h]
      BY <1>1, <2>1
    <3>2. games[joined] \in Game
      BY <1>1, <2>1
    <3>3. /\ Left(games[joined]).member = FALSE
          /\ Left(games[joined]).commands = games[joined].commands
          /\ Left(games[joined]).drained = games[joined].drained
      BY <3>2 DEF Left, Game
    <3> QED
      BY <3>1, <3>3
  <2>3. Registered'
    BY <1>1, <2>2 DEF Registered, OnTheList
  <2>4. ASSUME NEW h \in Games PROVE NoInit(h)'
    <3>1. NoInit(h) /\ games'[h].commands = games[h].commands /\ games'[h].drained = games[h].drained
      BY <2>2 DEF NoneAsked
    <3> QED
      BY <3>1 DEF NoInit
  <2> QED
    BY <1>1, <2>3, <2>4 DEF NoneAsked
<1>3. CASE ~(joined # 0 /\ OnTheList(joined))
  <2>1. games' = games
    BY <1>3 DEF LeaveGame
  <2> QED
    BY <1>1, <1>3, <2>1 DEF Registered, OnTheList, NoneAsked, NoInit
<1> QED
  BY <1>2, <1>3

LEMMA ServeDisconnectKeeps == ASSUME DialogueTypes, DialogueOK, ServeDisconnect PROVE DialogueOK'
<1>1. Serve("CLIENT_DISCONNECT") /\ LeaveGame /\ UNCHANGED <<answers, admitting, receiver>>
  BY DEF ServeDisconnect
<1>2. /\ misread' = "none" /\ Registered /\ admitting = 0 /\ NoneAsked /\ receiver = "on"
      /\ UNCHANGED <<screen, awaiting, joinedId>>
      /\ \/ Closed /\ requests' = <<>>
         \/ WaitsForGames /\ Free(answers, Reply) /\ requests' = <<awaiting>>
  BY <1>1, Serves
<1>3. Registered' /\ NoneAsked' /\ joined' = 0 /\ admitting' = 0
  BY <1>1, <1>2, Leaves
<1>4. CASE Closed /\ requests' = <<>>
  BY <1>1, <1>2, <1>3, <1>4 DEF DialogueOK, Situation, Closed
<1>5. CASE WaitsForGames /\ Free(answers, Reply) /\ requests' = <<awaiting>>
  BY <1>1, <1>2, <1>3, <1>5 DEF DialogueOK, Situation, WaitsForGames, Sent
<1> QED
  BY <1>2, <1>4, <1>5

LEMMA ServeInitPlayerKeeps == ASSUME DialogueTypes, DialogueOK, ServeInitPlayer PROVE DialogueOK'
<1>1. Serve("INIT_PLAYER") /\ UNCHANGED <<answers, admitting, joined>>
  BY DEF ServeInitPlayer
<1>2. /\ misread' = "none" /\ Registered /\ NoneAsked /\ Sent /\ WaitsForCar /\ admitting = 0
      /\ requests' = <<>> /\ Free(answers, Reply) /\ receiver = "on"
      /\ joinedId = joined /\ UNCHANGED <<screen, awaiting, joinedId>>
  BY <1>1, Serves DEF Sent
<1>3. joined # 0 /\ joined \in Games /\ games[joined] \in Game /\ games \in [Games -> Game]
  BY <1>2, DialogueAssumption DEF WaitsForCar, DialogueTypes, Games
<1>4. CASE receiver' = "ended" /\ UNCHANGED games
  <2>1. Registered' /\ NoneAsked'
    BY <1>1, <1>2, <1>4 DEF Registered, OnTheList, NoneAsked, NoInit
  <2> QED
    BY <1>1, <1>2, <1>4, <2>1 DEF DialogueOK, Unanswered, Nothing, WaitsForCar
<1>5. CASE /\ games' = [games EXCEPT ![joined].commands = Append(@, "INIT_PLAYER")]
           /\ UNCHANGED receiver
  <2>1. /\ games'[joined].commands = Append(games[joined].commands, "INIT_PLAYER")
        /\ games'[joined].drained = games[joined].drained
        /\ games'[joined].member = games[joined].member /\ games'[joined].life = games[joined].life
        /\ \A h \in Games \ {joined} : games'[h] = games[h]
    BY <1>3, <1>5 DEF Game
  <2>2. OneInit(joined)'
    <3>1. games[joined].commands \in Seq(Command) /\ "INIT_PLAYER" \in Command /\ "INIT_PLAYER" \in Init
      BY <1>3, GameFields DEF Command, Init
    <3>2. NoInit(joined)
      BY <1>2, <1>3 DEF NoneAsked
    <3>3. Once(games'[joined].commands, Init) /\ Free(games'[joined].drained, Init)
      BY <2>1, <3>1, <3>2, FreeAppend DEF NoInit
    <3> QED
      BY <1>1, <3>3 DEF OneInit
  <2>3. \A h \in Games \ {joined} : NoInit(h)'
    BY <1>2, <2>1 DEF NoInit, NoneAsked
  <2>4. Registered'
    BY <1>1, <1>2, <1>3, <1>5, <2>1 DEF Registered, OnTheList
  <2> QED
    BY <1>1, <1>2, <1>5, <2>2, <2>3, <2>4 DEF DialogueOK, Situation, WaitsForCar
<1> QED
  BY <1>4, <1>5 DEF ServeInitPlayer

(* The end of the server is told last, and nothing of what may come before *)
(* it is a reply.                                                          *)
LEMMA NextAcceptKeeps == ASSUME DialogueTypes, DialogueOK, NextAccept PROVE DialogueOK'
<1>1. PICK n \in 0..Len(answers) : answers' = Append(SubSeq(answers, 1, n), Answer("closed", 0))
  BY DEF NextAccept
<1>2. /\ misread = "none" /\ receiver = "ended" /\ receiver' = "dead"
      /\ UNCHANGED <<screen, awaiting, joinedId, misread, requests, admitting, joined, games, discarded>>
  BY DEF NextAccept, Followed, windowVars
<1>3. Registered /\ Unanswered
  BY <1>2 DEF DialogueOK, Gone
<1>4. Registered' /\ NoneAsked'
  BY <1>2, <1>3 DEF Unanswered, Nothing, Registered, OnTheList, NoneAsked, NoInit
<1>5. Once(answers', Reply) /\ Free(answers', Reply \ {Answer("closed", 0)})
  <2> DEFINE before == SubSeq(answers, 1, n)
             closed == Answer("closed", 0)
  <2>1. answers \in Seq(Reply \cup {Starting}) /\ Free(answers, Reply)
    BY <1>3 DEF Unanswered, Nothing, DialogueTypes
  <2>2. before \in Seq(Reply \cup {Starting}) /\ Free(before, Reply)
    BY <2>1, FreePrefix
  <2>3. Free(before, Reply \ {closed})
    BY <2>2 DEF Free
  <2>4. closed \in Reply /\ closed \in Reply \cup {Starting}
    BY AnswerTypes
  <2> HIDE DEF before, closed
  <2>5. Once(Append(before, closed), Reply) /\ Free(Append(before, closed), Reply \ {closed})
    BY <2>2, <2>3, <2>4, FreeAppend
  <2> QED
    BY <1>1, <2>5 DEF before, closed
<1> QED
  BY <1>2, <1>3, <1>4, <1>5 DEF DialogueOK, Unanswered, Nothing, Gone, Replied

-----------------------------------------------------------------------------
(* The games.                                                              *)

(* A STARTING_GAME more makes no difference.                               *)
LEMMA StartingKeeps ==
  ASSUME DialogueTypes, answers' \in {answers, Append(answers, Starting)}
  PROVE  \A S \in SUBSET Reply : /\ Free(answers, S) => Free(answers', S)
                                 /\ Once(answers, S) => Once(answers', S)
<1>1. answers \in Seq(Reply \cup {Starting}) /\ Starting \in Reply \cup {Starting}
  BY DEF DialogueTypes
<1>2. ASSUME NEW S \in SUBSET Reply, answers' = Append(answers, Starting)
      PROVE  /\ Free(answers, S) => Free(answers', S)
             /\ Once(answers, S) => Once(answers', S)
  <2>1. Starting \notin S
    BY AnswerTypes
  <2> QED
    BY <1>1, <1>2, <2>1, FreeAppend, OnceAppend
<1> QED
  BY <1>2

(* What a game may do at any time without the client noticing.             *)
LEMMA SteadyKeeps ==
  ASSUME DialogueTypes, DialogueOK, Followed, UNCHANGED <<windowVars, requests, serverVars>>,
         answers' \in {answers, Append(answers, Starting)}, discarded => discarded',
         NEW g \in Games, \A h \in Games \ {g} : games'[h] = games[h],
         games'[g].member = games[g].member, games'[g].seat = games[g].seat,
         games'[g].life = "listed" => games[g].life = "listed",
         NoInit(g) => NoInit(g)', OneInit(g) => OneInit(g)' \/ (NoInit(g)' /\ discarded')
  PROVE  DialogueOK'
<1>1. /\ misread = "none" /\ misread' = "none" /\ screen # "game" /\ receiver # "dead"
      /\ UNCHANGED <<screen, awaiting, joinedId, requests, admitting, joined, receiver>>
      /\ joined # 0 => joined \in Games
  BY DialogueAssumption DEF Followed, windowVars, serverVars, DialogueTypes, Games
<1>2. \A h \in Games : /\ games'[h].member = games[h].member /\ games'[h].seat = games[h].seat
                       /\ games'[h].life = "listed" => games[h].life = "listed"
  OBVIOUS
<1>3. ASSUME NEW h \in Games
      PROVE  /\ NoInit(h) => NoInit(h)'
             /\ OneInit(h) => OneInit(h)' \/ (NoInit(h)' /\ discarded')
  <2>1. CASE h # g
    <3>1. games'[h] = games[h]
      BY <2>1
    <3> QED
      BY <3>1 DEF NoInit, OneInit
  <2> QED
    BY <2>1
<1>4. /\ Registered
      /\ \/ receiver = "on" /\ (Idle \/ Closed \/ WaitsForGames \/ WaitsToJoin \/ WaitsForCar)
         \/ Unanswered
  BY <1>1 DEF DialogueOK, Situation, Gone, Entered
<1>5. Registered' /\ (NoneAsked => NoneAsked') /\ Leaving' = Leaving
  BY <1>1, <1>2, <1>3, <1>4 DEF Registered, OnTheList, NoneAsked, Leaving
<1>6. /\ Free(answers, Reply) => Free(answers', Reply)
      /\ \A replies : Replied(replies) => Once(answers', Reply) /\ Free(answers', Reply \ replies)
  BY StartingKeeps DEF Replied
<1>7. CASE receiver = "on" /\ Idle
  BY <1>1, <1>5, <1>6, <1>7 DEF DialogueOK, Situation, Idle, Nothing
<1>8. CASE receiver = "on" /\ Closed
  BY <1>1, <1>5, <1>8 DEF DialogueOK, Situation, Closed
<1>9. CASE receiver = "on" /\ WaitsForGames
  BY <1>1, <1>5, <1>6, <1>9 DEF DialogueOK, Situation, WaitsForGames, Sent, Replied
<1>10. CASE receiver = "on" /\ WaitsToJoin
  BY <1>1, <1>5, <1>6, <1>10 DEF DialogueOK, Situation, WaitsToJoin, Sent, Replied
<1>11. CASE receiver = "on" /\ WaitsForCar
  <2>1. CASE Sent
    BY <1>1, <1>5, <1>6, <1>11, <2>1 DEF DialogueOK, Situation, WaitsForCar, Sent
  <2>2. CASE /\ requests = <<>> /\ Free(answers, Reply)
             /\ OneInit(joined) \/ (NoInit(joined) /\ discarded)
             /\ \A h \in Games \ {joined} : NoInit(h)
    <3>1. joined \in Games
      BY <1>1, <1>11, <2>2 DEF WaitsForCar
    <3>2. OneInit(joined)' \/ (NoInit(joined)' /\ discarded')
      <4>1. OneInit(joined)' <=> (Once(games'[joined].commands, Init) /\ Free(games'[joined].drained, Init))
                \/ (Free(games'[joined].commands, Init) /\ Once(games'[joined].drained, Init))
        BY <1>1 DEF OneInit
      <4>2. NoInit(joined)' <=> Free(games'[joined].commands, Init) /\ Free(games'[joined].drained, Init)
        BY <1>1 DEF NoInit
      <4> QED
        BY <1>3, <2>2, <3>1, <4>1, <4>2 DEF OneInit, NoInit
    <3>3. \A h \in Games \ {joined} : NoInit(h)'
      BY <1>3, <2>2
    <3> QED
      BY <1>1, <1>5, <1>6, <1>11, <2>2, <3>2, <3>3 DEF DialogueOK, Situation, WaitsForCar
  <2>3. CASE Replied({Answer("CAR_SELECT", 0)})
    BY <1>1, <1>5, <1>6, <1>11, <2>3 DEF DialogueOK, Situation, WaitsForCar, Replied
  <2>4. CASE games[joined].seat # "none" /\ Replied({Answer("CAR_SELECT", 1)})
    <3>1. joined \in Games
      BY <1>1, <1>11, <2>4 DEF WaitsForCar
    <3> QED
      BY <1>1, <1>2, <1>5, <1>6, <1>11, <2>4, <3>1 DEF DialogueOK, Situation, WaitsForCar, Replied
  <2> QED
    BY <1>11, <2>1, <2>2, <2>3, <2>4 DEF WaitsForCar
<1>12. CASE Unanswered
  BY <1>1, <1>5, <1>6, <1>12 DEF DialogueOK, Unanswered, Nothing
<1> QED
  BY <1>4, <1>7, <1>8, <1>9, <1>10, <1>11, <1>12


(* What the sequences of a game say of INIT_PLAYER.                        *)
LEMMA InitsOf ==
  ASSUME NEW c \in Seq(Command), NEW d \in Seq(Command)
  PROVE  /\ ~Once(<<>>, Init) /\ Free(<<>>, Init)
         /\ Once(c, Init) => "INIT_PLAYER" \in Range(c)
         /\ Free(c, Init) => Free(Append(c, "START_GAME"), Init)
         /\ Once(c, Init) => Once(Append(c, "START_GAME"), Init)
         /\ d # <<>> /\ Head(d) = "START_GAME" =>
              /\ Free(d, Init) => Free(Tail(d), Init)
              /\ Once(d, Init) => Once(Tail(d), Init)
         /\ d # <<>> /\ Head(d) = "INIT_PLAYER" =>
              /\ ~Free(d, Init)
              /\ Once(d, Init) => Free(Tail(d), Init)
<1>1. ~Once(<<>>, Init) /\ Free(<<>>, Init)
  BY FreeEmpty DEF Once
<1>2. Once(c, Init) => "INIT_PLAYER" \in Range(c)
  BY DEF Once, Init, Range
<1>3. "START_GAME" \in Command /\ "START_GAME" \notin Init /\ "INIT_PLAYER" \in Init
  BY DEF Command, Init
<1>4. /\ Free(c, Init) => Free(Append(c, "START_GAME"), Init)
      /\ Once(c, Init) => Once(Append(c, "START_GAME"), Init)
  BY <1>3, FreeAppend, OnceAppend
<1>5. ASSUME d # <<>>
      PROVE  /\ Head(d) = "START_GAME" =>
                  /\ Free(d, Init) => Free(Tail(d), Init)
                  /\ Once(d, Init) => Once(Tail(d), Init)
             /\ Head(d) = "INIT_PLAYER" =>
                  /\ ~Free(d, Init)
                  /\ Once(d, Init) => Free(Tail(d), Init)
  BY <1>3, <1>5, FreeTail
<1> QED
  BY <1>1, <1>2, <1>4, <1>5

LEMMA DrainKeeps ==
  ASSUME DialogueTypes, DialogueOK, NEW g \in Games, Drain(g) PROVE DialogueOK'
<1>1. games[g] \in Game /\ games \in [Games -> Game] /\ games[g].commands \in Seq(Command)
  BY GameFields DEF DialogueTypes
<1>2. /\ Followed /\ UNCHANGED <<windowVars, requests, answers, serverVars, discarded>>
      /\ games[g].drained = <<>>
      /\ games' = [games EXCEPT ![g].drained = games[g].commands, ![g].commands = <<>>]
  BY DEF Drain
<1>3. /\ \A h \in Games \ {g} : games'[h] = games[h]
      /\ games'[g].member = games[g].member /\ games'[g].seat = games[g].seat
      /\ games'[g].life = games[g].life
      /\ games'[g].drained = games[g].commands /\ games'[g].commands = <<>>
  BY <1>1, <1>2 DEF Game
<1>4. (NoInit(g) => NoInit(g)') /\ (OneInit(g) => OneInit(g)')
  BY <1>1, <1>2, <1>3, InitsOf DEF NoInit, OneInit
<1> QED
  BY <1>2, <1>3, <1>4, SteadyKeeps

(* START_GAME, in the lobby or in the race.                                *)
LEMMA StartKeeps ==
  ASSUME DialogueTypes, DialogueOK, NEW g \in Games, NEW phase, Cmd(g, phase, "START_GAME"),
         answers' \in {answers, Append(answers, Starting)},
         games' = [games EXCEPT ![g] = Served(g)]
           \/ games' = [games EXCEPT ![g] = [Served(g) EXCEPT !.start = TRUE]]
  PROVE  DialogueOK'
<1>1. /\ games[g] \in Game /\ games \in [Games -> Game]
      /\ games[g].commands \in Seq(Command) /\ games[g].drained \in Seq(Command)
  BY GameFields DEF DialogueTypes
<1>2. /\ Followed /\ games[g].drained # <<>> /\ Head(games[g].drained) = "START_GAME"
      /\ UNCHANGED <<windowVars, requests, serverVars, discarded>>
  BY DEF Cmd
<1>3. /\ \A h \in Games \ {g} : games'[h] = games[h]
      /\ games'[g].member = games[g].member /\ games'[g].seat = games[g].seat
      /\ games'[g].life = games[g].life
      /\ games'[g].drained = Tail(games[g].drained) /\ games'[g].commands = games[g].commands
  <2> DEFINE served == Served(g)
             started == [served EXCEPT !.start = TRUE]
  <2>1. /\ served.member = games[g].member /\ served.seat = games[g].seat /\ served.life = games[g].life
        /\ served.drained = Tail(games[g].drained) /\ served.commands = games[g].commands
    BY <1>1 DEF Served, Game
  <2>2. /\ started.member = games[g].member /\ started.seat = games[g].seat
        /\ started.life = games[g].life
        /\ started.drained = Tail(games[g].drained) /\ started.commands = games[g].commands
    BY <1>1 DEF Served, Game
  <2>3. games' = [games EXCEPT ![g] = served] \/ games' = [games EXCEPT ![g] = started]
    OBVIOUS
  <2> HIDE DEF served, started
  <2> QED
    BY <1>1, <2>1, <2>2, <2>3
<1>4. (NoInit(g) => NoInit(g)') /\ (OneInit(g) => OneInit(g)')
  BY <1>1, <1>2, <1>3, InitsOf DEF NoInit, OneInit
<1> QED
  BY <1>2, <1>3, <1>4, SteadyKeeps

(* INIT_PLAYER: the one the client waits for the answer of.                *)
LEMMA InitPlayerKeeps ==
  ASSUME DialogueTypes, DialogueOK, NEW g \in Games, NEW phase, Cmd(g, phase, "INIT_PLAYER"),
         InitPlayer(g, Served(g))
  PROVE  DialogueOK'
<1>1. /\ games[g] \in Game /\ games \in [Games -> Game]
      /\ games[g].commands \in Seq(Command) /\ games[g].drained \in Seq(Command)
  BY GameFields DEF DialogueTypes
<1>2. /\ misread = "none" /\ screen # "game" /\ receiver # "dead"
      /\ games[g].drained # <<>> /\ Head(games[g].drained) = "INIT_PLAYER"
      /\ UNCHANGED <<screen, awaiting, joinedId, misread, requests, admitting, joined, receiver>>
  BY DEF Cmd, Followed, windowVars, serverVars
<1>3. ~NoInit(g)
  BY <1>1, <1>2, InitsOf DEF NoInit
<1>4. ~NoneAsked
  BY <1>3 DEF NoneAsked
<1>5. /\ Registered /\ receiver = "on" /\ WaitsForCar /\ joinedId = joined /\ requests = <<>> /\ Free(answers, Reply)
      /\ g = joined /\ OneInit(g) /\ \A h \in Games \ {g} : NoInit(h)
  <2>1. Registered /\ receiver = "on" /\ WaitsForCar
    BY <1>2, <1>4 DEF DialogueOK, Situation, Unanswered, Gone, Idle, Nothing, Closed, Entered,
       WaitsForGames, WaitsToJoin, Sent, Replied
  <2>2. /\ joinedId = joined /\ requests = <<>> /\ Free(answers, Reply)
        /\ OneInit(joined) \/ (NoInit(joined) /\ discarded)
        /\ \A h \in Games \ {joined} : NoInit(h)
    BY <1>4, <2>1 DEF WaitsForCar, Sent, Replied
  <2>3. g = joined
    BY <1>3, <2>2
  <2>4. OneInit(g) \/ (NoInit(g) /\ discarded)
    BY <2>2, <2>3
  <2> QED
    BY <1>3, <2>1, <2>2, <2>3, <2>4
<1>6. /\ admitting = 0 /\ screen = "cars" /\ awaiting = Request("INIT_PLAYER", 0) /\ joinedId # 0
      /\ games[g].member
  BY <1>5 DEF WaitsForCar, Registered
<1>7. Free(games[g].commands, Init) /\ Free(Tail(games[g].drained), Init)
  BY <1>1, <1>2, <1>5, InitsOf DEF OneInit
<1>8. /\ Served(g).member = games[g].member /\ Served(g).life = games[g].life
      /\ Served(g).commands = games[g].commands /\ Served(g).drained = Tail(games[g].drained)
      /\ Served(g).phase = games[g].phase
      /\ \A seat : /\ [Served(g) EXCEPT !.seat = seat].seat = seat
                   /\ [Served(g) EXCEPT !.seat = seat].member = games[g].member
                   /\ [Served(g) EXCEPT !.seat = seat].life = games[g].life
                   /\ [Served(g) EXCEPT !.seat = seat].commands = games[g].commands
                   /\ [Served(g) EXCEPT !.seat = seat].drained = Tail(games[g].drained)
  BY <1>1 DEF Served, Game
<1>9. ASSUME NEW game, games' = [games EXCEPT ![g] = game],
             game.member = games[g].member, game.life = games[g].life,
             game.commands = games[g].commands, game.drained = Tail(games[g].drained)
      PROVE  Registered' /\ NoneAsked'
  <2>1. games'[g] = game /\ \A h \in Games \ {g} : games'[h] = games[h]
    BY <1>1, <1>9
  <2>2. Registered'
    BY <1>2, <1>5, <1>9, <2>1 DEF Registered, OnTheList
  <2>3. NoInit(g)'
    BY <1>7, <1>9, <2>1 DEF NoInit
  <2>4. ASSUME NEW h \in Games \ {g} PROVE NoInit(h)'
    BY <1>5, <2>1 DEF NoInit
  <2> QED
    BY <2>2, <2>3, <2>4 DEF NoneAsked
<1>10. CASE RaceStarted(games[g])
  <2>1. games' = [games EXCEPT ![g] = Served(g)]
    BY <1>8, <1>10 DEF InitPlayer, RaceStarted
  <2>2. Registered' /\ NoneAsked'
    BY <1>8, <1>9, <2>1
  <2>3. Tell("CAR_SELECT", 0)
    BY <1>6, <1>10 DEF InitPlayer, Said, Confirmed
  <2>4. Once(answers', Reply) /\ Free(answers', Reply \ {Answer("CAR_SELECT", 0)})
    BY <1>5, <2>3, AnswerTypes, TellsReply
  <2> QED
    BY <1>2, <1>5, <1>6, <2>2, <2>4 DEF DialogueOK, Situation, WaitsForCar, Replied
<1>11. CASE ~RaceStarted(games[g])
  <2>1. PICK seat \in {"car", "no spawn"} : games' = [games EXCEPT ![g] = [Served(g) EXCEPT !.seat = seat]]
    BY <1>6, <1>8, <1>11 DEF InitPlayer, RaceStarted
  <2>2. Registered' /\ NoneAsked'
    BY <1>8, <1>9, <2>1
  <2>3. Tell("CAR_SELECT", 1)
    BY <1>6, <1>11 DEF InitPlayer, Said, Confirmed
  <2>4. Once(answers', Reply) /\ Free(answers', Reply \ {Answer("CAR_SELECT", 1)})
    BY <1>5, <2>3, AnswerTypes, TellsReply
  <2>5. games'[joined'].seat # "none"
    BY <1>1, <1>2, <1>5, <1>8, <2>1
  <2> QED
    BY <1>2, <1>5, <1>6, <2>2, <2>4, <2>5 DEF DialogueOK, Situation, WaitsForCar, Replied
<1> QED
  BY <1>10, <1>11

LEMMA PhaseEndsKeep ==
  ASSUME DialogueTypes, DialogueOK, NEW g \in Games, LobbyEnds(g) \/ RaceEnds(g) \/ ThreadStops(g)
  PROVE  DialogueOK'
<1>1. /\ games[g] \in Game /\ games \in [Games -> Game]
      /\ games[g].commands \in Seq(Command) /\ games[g].drained \in Seq(Command) /\ discarded \in BOOLEAN
  BY GameFields DEF DialogueTypes
<1>2. /\ Followed /\ games[g].drained = <<>>
      /\ UNCHANGED <<windowVars, requests, answers, serverVars>> /\ (discarded => discarded')
  <2>1. CASE LobbyEnds(g)
    BY <2>1 DEF LobbyEnds, LastIteration
  <2>2. CASE RaceEnds(g)
    <3>1. discarded => discarded'
      BY <2>2 DEF RaceEnds
    <3> QED
      BY <2>2, <3>1 DEF RaceEnds, LastIteration
  <2>3. CASE ThreadStops(g)
    <3>1. discarded => discarded'
      BY <2>3 DEF ThreadStops
    <3> QED
      BY <2>3, <3>1 DEF ThreadStops
  <2> QED
    BY <2>1, <2>2, <2>3
<1>3. /\ \A h \in Games \ {g} : games'[h] = games[h]
      /\ games'[g].member = games[g].member /\ games'[g].seat = games[g].seat
      /\ games'[g].life = "listed" => games[g].life = "listed"
      /\ games'[g].drained = <<>>
      /\ \/ games'[g].commands = games[g].commands
         \/ games'[g].commands = <<>> /\ ("INIT_PLAYER" \in Range(games[g].commands) => discarded')
  <2>1. CASE LobbyEnds(g)
    BY <1>1, <1>2, <2>1 DEF LobbyEnds, Game
  <2>2. CASE RaceEnds(g)
    <3> DEFINE next == [games[g] EXCEPT !.phase = "lobby", !.race = games[g].race + 1, !.commands = <<>>]
               over == [games[g] EXCEPT !.phase = "over"]
    <3>1. games' = [games EXCEPT ![g] = next] \/ games' = [games EXCEPT ![g] = over]
      BY <1>1, <2>2 DEF RaceEnds
    <3>2. "INIT_PLAYER" \in Range(games[g].commands) => discarded'
      BY <2>2 DEF RaceEnds
    <3>3. CASE games' = [games EXCEPT ![g] = next]
      BY <1>1, <1>2, <3>2, <3>3 DEF Game
    <3>4. CASE games' = [games EXCEPT ![g] = over]
      BY <1>1, <1>2, <3>4 DEF Game
    <3> QED
      BY <3>1, <3>3, <3>4
  <2>3. CASE ThreadStops(g)
    BY <1>1, <1>2, <2>3 DEF ThreadStops, Game
  <2> QED
    BY <2>1, <2>2, <2>3
<1>4. (NoInit(g) => NoInit(g)') /\ (OneInit(g) => OneInit(g)' \/ (NoInit(g)' /\ discarded'))
  BY <1>1, <1>2, <1>3, InitsOf DEF NoInit, OneInit
<1> QED
  BY <1>2, <1>3, <1>4, SteadyKeeps

LEMMA StopKeeps ==
  ASSUME DialogueTypes, DialogueOK, NEW g \in Games, Stop(g) PROVE DialogueOK'
<1>1. games[g] \in Game /\ games \in [Games -> Game]
  BY DEF DialogueTypes
<1>2. /\ Followed /\ UNCHANGED <<windowVars, requests, answers, serverVars, discarded>>
      /\ games' = [games EXCEPT ![g].life = "stopped"]
  BY DEF Stop
<1>3. /\ \A h \in Games \ {g} : games'[h] = games[h]
      /\ games'[g].member = games[g].member /\ games'[g].seat = games[g].seat
      /\ games'[g].life = "stopped"
      /\ games'[g].drained = games[g].drained /\ games'[g].commands = games[g].commands
  BY <1>1, <1>2 DEF Game
<1>4. (NoInit(g) => NoInit(g)') /\ (OneInit(g) => OneInit(g)')
  BY <1>3 DEF NoInit, OneInit
<1> QED
  BY <1>2, <1>3, <1>4, SteadyKeeps

LEMMA OthersKeep ==
  ASSUME DialogueTypes, DialogueOK, NEW g \in Games, Others(g) PROVE DialogueOK'
<1>1. /\ games[g] \in Game /\ games \in [Games -> Game]
      /\ games[g].commands \in Seq(Command) /\ games[g].drained \in Seq(Command)
  BY GameFields DEF DialogueTypes
<1>2. /\ Followed /\ OnTheList(g) /\ UNCHANGED <<windowVars, requests, answers, serverVars, discarded>>
  BY DEF Others
<1>3. /\ \A h \in Games \ {g} : games'[h] = games[h]
      /\ games'[g].member = games[g].member /\ games'[g].seat = games[g].seat
      /\ games'[g].drained = games[g].drained
      /\ games'[g].commands \in {games[g].commands, Append(games[g].commands, "START_GAME")}
  <2>1. CASE games' = [games EXCEPT ![g].others = TRUE]
    BY <1>1, <2>1 DEF Game
  <2>2. CASE games' = [games EXCEPT ![g].commands = Append(@, "START_GAME")]
    BY <1>1, <2>2 DEF Game
  <2>3. ASSUME NEW life, games' = [games EXCEPT ![g].others = FALSE, ![g].life = life]
        PROVE  /\ \A h \in Games \ {g} : games'[h] = games[h]
               /\ games'[g].member = games[g].member /\ games'[g].seat = games[g].seat
               /\ games'[g].drained = games[g].drained
               /\ games'[g].commands = games[g].commands
    BY <1>1, <2>3 DEF Game
  <2>4. \/ games' = [games EXCEPT ![g].others = TRUE]
        \/ games' = [games EXCEPT ![g].commands = Append(@, "START_GAME")]
        \/ \E life : games' = [games EXCEPT ![g].others = FALSE, ![g].life = life]
    BY DEF Others
  <2> QED
    BY <2>1, <2>2, <2>3, <2>4
<1>4. (NoInit(g) => NoInit(g)') /\ (OneInit(g) => OneInit(g)')
  BY <1>1, <1>3, InitsOf DEF NoInit, OneInit
<1> QED
  BY <1>2, <1>3, <1>4, SteadyKeeps DEF OnTheList

LEMMA GamesKeep ==
  ASSUME DialogueTypes, DialogueOK, NEW g \in Games, Thread(g) \/ Stop(g) \/ Others(g)
  PROVE  DialogueOK'
<1>1. CASE LobbyCmd(g)
  <2>1. CASE Cmd(g, "lobby", "START_GAME") /\ Said(g, "STARTING_GAME", 0)
               /\ games' = [games EXCEPT ![g] = [Served(g) EXCEPT !.start = TRUE]]
    <3>1. answers' \in {answers, Append(answers, Starting)}
      BY <2>1 DEF Said, Tell, Starting
    <3> QED
      BY <2>1, <3>1, StartKeeps
  <2> QED
    BY <1>1, <2>1, InitPlayerKeeps DEF LobbyCmd
<1>2. CASE RaceCmd(g)
  BY <1>2, InitPlayerKeeps, StartKeeps DEF RaceCmd
<1> QED
  BY <1>1, <1>2, DrainKeeps, PhaseEndsKeep, StopKeeps, OthersKeep DEF Thread

-----------------------------------------------------------------------------
(* The theorems.                                                           *)

(* Every reachable state of the dialogue is in the table, in whatever      *)
(* order the clicks, the Receiver, the threads of the games and the other  *)
(* players take their steps.                                               *)
THEOREM DialogueSafe == DialogueSpec => []DialogueOK
<1>1. DialogueInit => DialogueOK
  <2> SUFFICES ASSUME DialogueInit PROVE DialogueOK
    OBVIOUS
  <2>1. PICK running \in SUBSET {1} :
          games = [g \in Games |->
            IF g \in running THEN [NewGame EXCEPT !.member = FALSE, !.others = TRUE]
            ELSE [NewGame EXCEPT !.life = "none", !.member = FALSE]]
    BY DEF DialogueInit
  <2>2. \A g \in Games : games[g].member = FALSE /\ games[g].commands = <<>> /\ games[g].drained = <<>>
    BY <2>1 DEF NewGame
  <2>3. Registered /\ NoneAsked
    BY <2>2, FreeEmpty DEF DialogueInit, Registered, NoneAsked, NoInit
  <2> QED
    BY <2>3, FreeEmpty DEF DialogueInit, DialogueOK, Situation, Idle, Nothing
<1>2. DialogueTypes /\ DialogueOK /\ [DialogueNext]_dialogueVars => DialogueOK'
  <2> SUFFICES ASSUME DialogueTypes, DialogueOK, [DialogueNext]_dialogueVars PROVE DialogueOK'
    OBVIOUS
  <2>1. CASE UNCHANGED dialogueVars
    <3>1. /\ UNCHANGED <<screen, awaiting, joinedId, misread, requests, answers>>
          /\ UNCHANGED <<serverVars, games, discarded>>
      BY <2>1 DEF dialogueVars, windowVars
    <3>2. Idle' = Idle /\ Closed' = Closed /\ Entered' = Entered
      BY <3>1, ServerStays DEF Idle, Closed, Entered, Nothing
    <3>3. WaitsForGames' = WaitsForGames /\ WaitsToJoin' = WaitsToJoin
      BY <3>1, ServerStays DEF WaitsForGames, WaitsToJoin, Sent, Replied
    <3>4. WaitsForCar' = WaitsForCar
      <4>1. joined' = joined /\ games' = games /\ discarded' = discarded
        BY <3>1 DEF serverVars
      <4>2. OneInit(joined)' = OneInit(joined) /\ NoInit(joined)' = NoInit(joined)
        BY <4>1 DEF OneInit, NoInit
      <4> QED
        BY <3>1, <4>1, <4>2, ServerStays DEF WaitsForCar, Sent, Replied
    <3>5. Unanswered' = Unanswered /\ Gone' = Gone
      BY <3>1, ServerStays DEF Unanswered, Gone, Nothing, Replied
    <3> QED
      BY <3>1, <3>2, <3>3, <3>4, <3>5, ServerStays DEF DialogueOK, Situation
  <2>2. CASE Window
    BY <2>2, ClicksKeep, MisreadKeeps, ReadGamesKeeps, ReadJoinKeeps, ReadCarSelectKeeps, ReadClosedKeeps
       DEF Window
  <2>3. CASE Receiver
    BY <2>3, ServeGamesKeeps, ServeCreateKeeps, ServeJoinKeeps, AddClientKeeps, ConfirmJoinKeeps,
       ServeDisconnectKeeps, ServeInitPlayerKeeps DEF Receiver
  <2> QED
    BY <2>1, <2>2, <2>3, NextAcceptKeeps, GamesKeep DEF DialogueNext, Over
<1> QED
  BY <1>1, <1>2, DialogueTypeCorrect, PTL DEF DialogueSpec

(* The client is registered in one game at most, and when nothing is under *)
(* way window and server agree on it.                                      *)
THEOREM ClientIsInOneGame == DialogueSpec => []OneGame
<1>1. DialogueOK => OneGame
  <2> SUFFICES ASSUME DialogueOK, misread = "none"
               PROVE  Registered /\ (awaiting = NoRequest /\ requests = <<>> /\ receiver = "on" => joinedId = joined)
    BY DEF OneGame, Registered
  <2>1. Registered /\ (receiver = "on" => Situation)
    BY DEF DialogueOK, Unanswered, Gone
  <2>2. WaitsForGames \/ WaitsToJoin \/ WaitsForCar => awaiting # NoRequest
    BY DEF WaitsForGames, WaitsToJoin, WaitsForCar, NoRequest, Request
  <2>3. Idle \/ Entered => joinedId = joined
    BY DEF Idle, Entered
  <2>4. Closed /\ requests = <<>> => joinedId = joined
    BY DEF Closed
  <2> QED
    BY <2>1, <2>2, <2>3, <2>4 DEF Situation
<1> QED
  BY <1>1, DialogueSafe, PTL

(* Whatever the window takes for an answer and is none is a STARTING_GAME. *)
THEOREM OnlyStartIsMisread == DialogueSpec => []OnlyStartMisread
<1>1. DialogueOK => OnlyStartMisread
  BY DEF DialogueOK, OnlyStartMisread
<1> QED
  BY <1>1, DialogueSafe, PTL

(* Who gets into a game has a car there, or a spawn point was missing.     *)
THEOREM EntersTheGameWithCar == DialogueSpec => []EntersWithCar
<1>1. DialogueOK => EntersWithCar
  BY DEF DialogueOK, Situation, Unanswered, Gone, EntersWithCar, Registered, Idle, Closed, Entered,
     WaitsForGames, WaitsToJoin, WaitsForCar
<1> QED
  BY <1>1, DialogueSafe, PTL
=============================================================================
