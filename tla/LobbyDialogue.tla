---------------------------- MODULE LobbyDialogue ----------------------------
(***************************************************************************)
(* How a client gets into a game: its lobby window (lobbywindow.cpp), the  *)
(* Receiver of its connection (server_receiver.cpp) with GameManager       *)
(* (server_game_manager.cpp), and the games' threads, as far as they       *)
(* answer it.  The window sends a request on a click and blocks until the  *)
(* next message comes; whatever comes is taken for the answer, although    *)
(* the games send STARTING_GAME to every registered client unasked.        *)
(*                                                                         *)
(* The other players are a part of the environment: of a game is kept      *)
(* whether it has any.  A window that has taken one message for another is *)
(* not followed any further.                                               *)
(***************************************************************************)
EXTENDS Integers, FiniteSets, Sequences, SequencesExt

CONSTANTS NumRaces,
          MaxGames      \* bound of the model: games created

ASSUME DialogueAssumption == NumRaces \in Nat \ {0} /\ MaxGames \in Nat \ {0}

Games == 1..MaxGames

VARIABLES
  screen,     \* "menu", "selector", "cars", "game" (silentClose) or "closed"
  awaiting,   \* the request of the click that is being served, or NoRequest
  joinedId,   \* LobbyWindow::joined_id
  listed,     \* the games in the table
  misread,    \* history: the type of message taken for another, or "none"
  requests,   \* on their way to the Receiver
  answers,    \* the queue of the Sender: what the window will read
  admitting,  \* the game CreateJoinGame has found, or 0
  joined,     \* Receiver::joined_game_id
  receiver,   \* "on", "ended" (its loop was left), or "dead" with its server
  games,      \* of each game: its life ("none", "listed", "erased" from the list,
              \* "stopped"), the phase its thread is in ("lobby", "race" or "over"),
              \* the race, the commands in its queue and those drained from it,
              \* startRequested, whether the client is registered (member),
              \* whether others are, and what the client's INIT_PLAYER came to
              \* (seat: "none", "car" or "no spawn")
  discarded   \* history: an INIT_PLAYER of the client was never served

windowVars == <<screen, awaiting, joinedId, listed, misread>>
serverVars == <<admitting, joined, receiver>>
dialogueVars == <<windowVars, requests, answers, serverVars, games, discarded>>

NoRequest == [op |-> "none", game |-> 0]
Request(op, g) == [op |-> op, game |-> g]
Answer(op, arg) == [op |-> op, arg |-> arg]

-----------------------------------------------------------------------------
(* The window.  A click sends its requests and waits for the last one.     *)
Click(from, sends) ==
  /\ screen = from /\ awaiting = NoRequest /\ misread = "none"
  /\ requests' = requests \o sends
  /\ awaiting' = Last(sends)
  /\ UNCHANGED <<listed, misread, answers, serverVars, games, discarded>>

(* on_playButton_clicked.                                                  *)
ClickPlay ==
  Click("menu", <<Request("REQUEST_GAMES", 0)>>) /\ screen' = "selector" /\ UNCHANGED joinedId

(* on_refreshButton_clicked, on_joinButton_clicked, on_createButton_clicked *)
(* and on_selectCarButton_clicked.                                         *)
ClickRefresh ==
  Click("selector", <<Request("REQUEST_GAMES", 0)>>) /\ UNCHANGED <<screen, joinedId>>

ClickJoin(g) ==
  /\ g \in listed
  /\ Click("selector", <<Request("JOIN_GAME", g)>>) /\ UNCHANGED <<screen, joinedId>>

ClickCreate ==
  /\ \E g \in Games : games[g].life = "none"
  /\ Click("selector", <<Request("JOIN_GAME", 0)>>)
  /\ UNCHANGED <<screen, joinedId>>

ClickSelectCar ==
  Click("cars", <<Request("INIT_PLAYER", 0)>>) /\ UNCHANGED <<screen, joinedId>>

(* A variant that leaves the screen without leaving the game.              *)
LeaveCarsQuietly == <<Request("REQUEST_GAMES", 0)>>

(* What on_backButtonCar_clicked sends, its refresh included.              *)
LeaveCars == <<Request("CLIENT_DISCONNECT", joinedId), Request("REQUEST_GAMES", 0)>>

ClickBackFromCars == Click("cars", LeaveCars) /\ screen' = "selector" /\ joinedId' = 0

(* on_backButton_clicked.                                                  *)
ClickBack ==
  /\ screen = "selector" /\ awaiting = NoRequest /\ misread = "none"
  /\ screen' = "menu"
  /\ UNCHANGED <<awaiting, joinedId, listed, misread, requests, answers, serverVars, games, discarded>>

(* closeEvent, confirmed by the user.                                      *)
ClickClose ==
  /\ screen \in {"menu", "selector", "cars"} /\ awaiting = NoRequest /\ misread = "none"
  /\ screen' = "closed" /\ joinedId' = 0
  /\ requests' = IF joinedId = 0 THEN requests
                 ELSE Append(requests, Request("CLIENT_DISCONNECT", joinedId))
  /\ UNCHANGED <<awaiting, listed, misread, answers, serverVars, games, discarded>>

(* The opcode a click waits for.                                           *)
Expects(request) == IF request.op = "INIT_PLAYER" THEN "CAR_SELECT" ELSE request.op

Waits == awaiting # NoRequest /\ misread = "none"

(* readActionByte returns another opcode.                                  *)
Misread ==
  /\ Waits /\ answers # <<>> /\ Head(answers).op \notin {Expects(awaiting), "closed"}
  /\ misread' = Head(answers).op
  /\ UNCHANGED <<screen, awaiting, joinedId, listed, requests, answers, serverVars, games, discarded>>

(* The rest of the click, once the answer is there.                        *)
Reads(op) ==
  /\ Waits /\ answers # <<>> /\ Head(answers).op = op /\ Expects(awaiting) = op
  /\ answers' = Tail(answers)
  /\ UNCHANGED <<misread, serverVars, games, discarded>>

ReadGames ==
  /\ Reads("REQUEST_GAMES")
  /\ listed' = Head(answers).arg
  /\ awaiting' = NoRequest
  /\ UNCHANGED <<screen, joinedId, requests>>

(* A variant that goes on without waiting for the table.                   *)
RefreshHasty ==
  awaiting' = NoRequest /\ requests' = Append(requests, Request("REQUEST_GAMES", 0))

(* on_refreshButton_clicked, called by a handler.                          *)
Refresh ==
  LET request == Request("REQUEST_GAMES", 0)
  IN awaiting' = request /\ requests' = Append(requests, request)

(* A refused join refreshes the table.  A creation is never refused.       *)
ReadJoin ==
  /\ Reads("JOIN_GAME")
  /\ UNCHANGED listed
  /\ \/ /\ Head(answers).arg # 0
        /\ joinedId' = Head(answers).arg /\ screen' = "cars" /\ awaiting' = NoRequest
        /\ UNCHANGED requests
     \/ /\ Head(answers).arg = 0
        /\ Refresh
        /\ UNCHANGED <<joinedId, screen>>

(* A refused car leads back to the selector.                               *)
ReadCarSelect ==
  /\ Reads("CAR_SELECT")
  /\ UNCHANGED listed
  /\ \/ /\ Head(answers).arg = 1
        /\ screen' = "game" /\ awaiting' = NoRequest
        /\ UNCHANGED <<joinedId, requests>>
     \/ /\ Head(answers).arg = 0
        /\ screen' = "selector" /\ joinedId' = 0
        /\ requests' = requests \o LeaveCars /\ awaiting' = Last(LeaveCars)

(* The connection was closed: the window closes, if the user agrees.  Of   *)
(* an answer that is cut the reading throws as well.                       *)
ReadClosed ==
  /\ Waits /\ answers # <<>> /\ Head(answers).op = "closed"
  /\ screen' = "closed" /\ joinedId' = 0 /\ awaiting' = NoRequest
  /\ UNCHANGED <<listed, misread, requests, answers, serverVars, games, discarded>>

Window ==
  \/ ClickPlay \/ ClickRefresh \/ ClickCreate \/ ClickSelectCar
  \/ ClickBackFromCars \/ ClickBack \/ ClickClose
  \/ \E g \in Games : ClickJoin(g)
  \/ Misread \/ ReadGames \/ ReadJoin \/ ReadCarSelect \/ ReadClosed

-----------------------------------------------------------------------------
(* The Receiver of the client and GameManager.                             *)
NewGame == [life |-> "listed", phase |-> "lobby", race |-> 0, commands |-> <<>>, drained |-> <<>>,
            start |-> FALSE, member |-> TRUE, others |-> FALSE, seat |-> "none"]

OnTheList(g) == games[g].life = "listed"
RaceStarted(game) == game.phase \in {"race", "over"}

(* Followed further: the window waits in the dialogue, or was closed, and   *)
(* the server is there.                                                    *)
Followed == misread = "none" /\ screen # "game" /\ receiver # "dead"

Serve(op) ==
  /\ Followed /\ receiver = "on" /\ requests # <<>> /\ Head(requests).op = op /\ admitting = 0
  /\ requests' = Tail(requests)
  /\ UNCHANGED windowVars

Tell(op, arg) == answers' = Append(answers, Answer(op, arg))

ServeGames ==
  /\ Serve("REQUEST_GAMES")
  /\ Tell("REQUEST_GAMES", {g \in Games : OnTheList(g)})
  /\ UNCHANGED <<serverVars, games, discarded>>

(* CreateJoinGame(0, ...).  The game is not started, and can send nothing, *)
(* before the answer is in the queue.                                      *)
ServeCreate ==
  /\ Serve("JOIN_GAME") /\ Head(requests).game = 0
  /\ \E g \in Games :
       /\ games[g].life = "none" /\ \A h \in 1..(g - 1) : games[h].life # "none"
       /\ games' = [games EXCEPT ![g] = NewGame]
       /\ Tell("JOIN_GAME", g)
       /\ joined' = g
  /\ UNCHANGED <<admitting, receiver, discarded>>

(* CreateJoinGame(g, ...), under the lock.                                 *)
ServeJoin ==
  /\ Serve("JOIN_GAME") /\ Head(requests).game # 0
  /\ LET g == Head(requests).game IN
       IF OnTheList(g) /\ ~RaceStarted(games[g])
       THEN admitting' = g /\ UNCHANGED answers
       ELSE Tell("JOIN_GAME", 0) /\ UNCHANGED admitting
  /\ UNCHANGED <<joined, receiver, games, discarded>>

(* AddClient; a game with others may be full.                              *)
AddClient ==
  /\ Followed /\ admitting # 0 /\ ~games[admitting].member
  /\ \/ /\ games' = [games EXCEPT ![admitting].member = TRUE]
        /\ UNCHANGED <<admitting, answers>>
     \/ /\ games[admitting].others
        /\ Tell("JOIN_GAME", 0) /\ admitting' = 0
        /\ UNCHANGED games
  /\ UNCHANGED <<windowVars, requests, joined, receiver, discarded>>

(* The answer follows, from then on the Receiver has the queue.            *)
ConfirmJoin ==
  /\ Followed /\ admitting # 0 /\ games[admitting].member
  /\ Tell("JOIN_GAME", admitting)
  /\ joined' = admitting /\ admitting' = 0
  /\ UNCHANGED <<windowVars, requests, receiver, games, discarded>>

(* LeaveGame: who leaves a game that is off the list stays registered in   *)
(* it, and who leaves a game as the last takes it off.                     *)
Left(game) ==
  [game EXCEPT !.member = FALSE, !.life = IF game.others THEN game.life ELSE "erased"]

LeaveGame ==
  /\ games' = IF joined # 0 /\ OnTheList(joined) THEN [games EXCEPT ![joined] = Left(@)] ELSE games
  /\ joined' = 0

ServeDisconnect ==
  /\ Serve("CLIENT_DISCONNECT")
  /\ LeaveGame
  /\ UNCHANGED <<answers, admitting, receiver, discarded>>

(* The queue of a game that was stopped is closed: the push throws, and     *)
(* the Receiver leaves its loop.  Its connection stays open, its client    *)
(* stays registered, and nobody tells the window.                          *)
ServeInitPlayer ==
  /\ Serve("INIT_PLAYER")
  /\ IF games[joined].life = "stopped"
     THEN receiver' = "ended" /\ UNCHANGED <<games, discarded>>
     ELSE /\ games' = [games EXCEPT ![joined].commands = Append(@, "INIT_PLAYER")]
          /\ discarded' = (discarded \/ games[joined].phase = "over")
          /\ UNCHANGED receiver
  /\ UNCHANGED <<answers, admitting, joined>>

(* The next connection that the Acceptor takes: reap_dead destroys the     *)
(* handler of such a Receiver with its threads unjoined, which ends the    *)
(* process.  Of the answers any number has been sent.                      *)
NextAccept ==
  /\ Followed /\ receiver = "ended" /\ receiver' = "dead"
  /\ \E n \in 0..Len(answers) : answers' = Append(SubSeq(answers, 1, n), Answer("closed", 0))
  /\ UNCHANGED <<windowVars, requests, admitting, joined, games, discarded>>

Receiver ==
  \/ ServeGames \/ ServeCreate \/ ServeJoin \/ AddClient \/ ConfirmJoin
  \/ ServeDisconnect \/ ServeInitPlayer

-----------------------------------------------------------------------------
(* The thread of a game.                                                   *)
Running(g) == games[g].life \in {"listed", "erased", "stopped"}

(* What the client is told of the command at the head of the drained ones. *)
Said(g, op, arg) == IF games[g].member THEN Tell(op, arg) ELSE UNCHANGED answers

(* A variant that confirms a car whenever it is asked for one.             *)
ConfirmAlways(g) == 1

(* What initPlayer answers.                                                *)
Confirmed(g) == IF RaceStarted(games[g]) THEN 0 ELSE 1

(* initPlayer: the answer goes out before a spawn point is looked for.     *)
InitPlayer(g, game) ==
  /\ Said(g, "CAR_SELECT", Confirmed(g))
  /\ IF ~game.member \/ RaceStarted(game)
     THEN games' = [games EXCEPT ![g] = game]
     ELSE \E seat \in {"car", "no spawn"} :
            /\ game.seat = "car" => seat = "car"
            /\ games' = [games EXCEPT ![g] = [game EXCEPT !.seat = seat]]

(* emptyQueue, in an iteration of runLobbyLoop or runRace.  An iteration    *)
(* that finds the queue empty shows nothing; one that was begun before the *)
(* stop still takes what is in the closed queue.                           *)
Drain(g) ==
  /\ Followed /\ Running(g)
  /\ games[g].phase \in {"lobby", "race"} /\ games[g].drained = <<>> /\ ~games[g].start
  /\ games[g].commands # <<>>
  /\ games' = [games EXCEPT ![g].drained = games[g].commands, ![g].commands = <<>>]
  /\ UNCHANGED <<windowVars, requests, answers, serverVars, discarded>>

(* The next command.                                                       *)
Cmd(g, phase, op) ==
  /\ Followed /\ games[g].phase = phase /\ games[g].drained # <<>> /\ Head(games[g].drained) = op
  /\ UNCHANGED <<windowVars, requests, serverVars, discarded>>

Served(g) == [games[g] EXCEPT !.drained = Tail(@)]

(* processLobbyCmds.                                                       *)
LobbyCmd(g) ==
  \/ Cmd(g, "lobby", "INIT_PLAYER") /\ InitPlayer(g, Served(g))
  \/ /\ Cmd(g, "lobby", "START_GAME")
     /\ Said(g, "STARTING_GAME", 0)
     /\ games' = [games EXCEPT ![g] = [Served(g) EXCEPT !.start = TRUE]]

(* A variant that takes INIT_PLAYER for an unknown command.                *)
RaceCmdUnknown(g) ==
  /\ \E op \in {"INIT_PLAYER", "START_GAME"} : Cmd(g, "race", op)
  /\ games' = [games EXCEPT ![g] = Served(g)]
  /\ UNCHANGED answers

(* RaceController::processCmds.                                            *)
RaceCmd(g) ==
  \/ Cmd(g, "race", "INIT_PLAYER") /\ InitPlayer(g, Served(g))
  \/ /\ Cmd(g, "race", "START_GAME")
     /\ games' = [games EXCEPT ![g] = Served(g)]
     /\ UNCHANGED answers

(* The iteration is the last: of a lobby by request or, from the second    *)
(* race on, at the deadline; of a race at any time.                        *)
LastIteration(g, phase) ==
  /\ Followed /\ games[g].life \in {"listed", "erased"}
  /\ games[g].phase = phase /\ games[g].drained = <<>>
  /\ UNCHANGED <<windowVars, requests, answers, serverVars>>

LobbyEnds(g) ==
  /\ LastIteration(g, "lobby") /\ (games[g].start \/ games[g].race # 0)
  /\ games' = [games EXCEPT ![g].phase = "race", ![g].start = FALSE]
  /\ UNCHANGED discarded

(* After a race resetRaceState empties the queue, after the last one       *)
(* nobody looks into it any more.                                          *)
RaceEnds(g) ==
  /\ LastIteration(g, "race")
  /\ games' = [games EXCEPT ![g] =
       IF @.race + 1 < NumRaces
       THEN [@ EXCEPT !.phase = "lobby", !.race = games[g].race + 1, !.commands = <<>>]
       ELSE [@ EXCEPT !.phase = "over"]]
  /\ discarded' = (discarded \/ "INIT_PLAYER" \in Range(games[g].commands))

(* should_keep_running is no more, at some time after the game was taken   *)
(* off the list: the thread ends after the iteration it is in.             *)
ThreadStops(g) ==
  /\ Followed /\ games[g].life \in {"erased", "stopped"}
  /\ games[g].phase \in {"lobby", "race"} /\ games[g].drained = <<>>
  /\ games' = [games EXCEPT ![g].phase = "over", ![g].start = FALSE, ![g].commands = <<>>]
  /\ discarded' = (discarded \/ "INIT_PLAYER" \in Range(games[g].commands))
  /\ UNCHANGED <<windowVars, requests, answers, serverVars>>

Thread(g) == Drain(g) \/ LobbyCmd(g) \/ RaceCmd(g) \/ LobbyEnds(g) \/ RaceEnds(g) \/ ThreadStops(g)

(* GameLoop::stop, by whoever left as the last: the queue is closed, while *)
(* the thread may not have noticed yet, or has ended.                      *)
Stop(g) ==
  /\ Followed /\ games[g].life = "erased"
  /\ games' = [games EXCEPT ![g].life = "stopped"]
  /\ UNCHANGED <<windowVars, requests, answers, serverVars, discarded>>

-----------------------------------------------------------------------------
(* The other players: they join games, ask for the start, leave.           *)
Others(g) ==
  /\ Followed /\ OnTheList(g)
  /\ \/ /\ ~RaceStarted(games[g]) /\ ~games[g].others
        /\ games' = [games EXCEPT ![g].others = TRUE]
     \/ /\ games[g].phase = "lobby" /\ games[g].others /\ ~games[g].start
        /\ "START_GAME" \notin Range(games[g].commands) \cup Range(games[g].drained)
        /\ games' = [games EXCEPT ![g].commands = Append(@, "START_GAME")]
     \/ /\ games[g].others
        /\ games' = [games EXCEPT ![g].others = FALSE,
                                  ![g].life = IF games[g].member THEN games[g].life ELSE "erased"]
  /\ UNCHANGED <<windowVars, requests, answers, serverVars, discarded>>

DialogueInit ==
  /\ screen = "menu" /\ awaiting = NoRequest /\ joinedId = 0 /\ listed = {} /\ misread = "none"
  /\ requests = <<>> /\ answers = <<>>
  /\ admitting = 0 /\ joined = 0 /\ receiver = "on" /\ discarded = FALSE
  /\ \E running \in SUBSET {1} :
       games = [g \in Games |->
         IF g \in running THEN [NewGame EXCEPT !.member = FALSE, !.others = TRUE]
         ELSE [NewGame EXCEPT !.life = "none", !.member = FALSE]]

(* The dialogue is over, or waits for an answer that nobody will give.     *)
Over ==
  /\ ~Followed \/ screen = "closed" \/ discarded \/ receiver = "ended"
  /\ UNCHANGED dialogueVars

DialogueNext ==
  \/ Window \/ Receiver \/ NextAccept
  \/ \E g \in Games : Thread(g) \/ Stop(g) \/ Others(g)
  \/ Over

DialogueSpec == DialogueInit /\ [][DialogueNext]_dialogueVars

(* Every thread goes on; clicks, other players and whether anybody connects *)
(* again are free.                                                         *)
DialogueFairSpec ==
  /\ DialogueSpec
  /\ WF_dialogueVars(ReadGames \/ ReadJoin \/ ReadCarSelect \/ ReadClosed \/ Misread)
  /\ WF_dialogueVars(Receiver)
  /\ \A g \in Games : WF_dialogueVars(Thread(g)) /\ WF_dialogueVars(Stop(g))

-----------------------------------------------------------------------------
(* A client is registered in one game at most, and when nothing is under   *)
(* way window and server agree which one it is, or that it is none:        *)
(* neither the refusals, the ways back nor the closing of the window leave *)
(* a registration behind.                                                  *)
OneGame ==
  misread = "none" =>
    /\ \A g \in Games : OnTheList(g) /\ games[g].member => g \in {joined, admitting}
    /\ joined = 0 \/ admitting = 0
    /\ awaiting = NoRequest /\ requests = <<>> /\ receiver = "on" => joinedId = joined

(* The window never takes one answer for another: what it may take for an  *)
(* answer is a STARTING_GAME, which the server sends unasked.              *)
OnlyStartMisread == misread \in {"none", "STARTING_GAME"}

(* A window that lets its client into the game does so for the game that   *)
(* the server has it in, and the game has made a car for it, or had no     *)
(* spawn point left when it had already confirmed the car.                 *)
EntersWithCar ==
  screen = "game" =>
    /\ joinedId = joined /\ joined # 0 /\ games[joined].member
    /\ games[joined].seat # "none"

(* A window that waits for an answer gets one or learns that there will be *)
(* none, with two exceptions.  The game threw the INIT_PLAYER away between *)
(* two races, after the last or when it was stopped: then the window waits *)
(* for good.  Or the queue of the game was already closed, which ended the *)
(* Receiver: then it waits until somebody else connects.                   *)
Answered ==
  Waits ~> ~Waits \/ discarded \/ receiver = "ended"
=============================================================================
