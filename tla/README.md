# Verification of Need for Speed (TP Final, Taller de Programación)

TLA+ models of the multiplayer racing game in `src/source`, the TLC runs that
check them on small instances, and TLAPS proofs for every size. Paths below are
relative to `src/source/`.

## 1. Inventory

The server is one process. An acceptor thread gives every connection a
`ClientHandler` with two threads, a receiver and a sender. `GameManager` holds
the games; each game is a `GameLoop` thread with a command queue that the
receivers of its players push to, and a `ClientsRegistry` with the outgoing
queues of those players. The client is a Qt lobby followed by an SDL game.

| component | state it keeps | operations | talks to |
|---|---|---|---|
| Car (`server_src/world/entities/car.*`) | health, checkpoint, finish, upgrades, penalty, body | applyDamage, kill, applyUpgrade, applyCheat, markFinished, resetForNewRace | called by the game logic |
| PlayerManager (`game_logic/player_manager.*`) | usedSpawnIds, carToSpawnId; shares playerCars | initPlayer, disconnectPlayer, handleRequestUpgrade, cheatHandler, handleMovement | called by both controllers |
| LobbyController (`game_logic/lobby_controller.*`) | startRequested, a deadline | runLobbyLoop, processLobbyCmds | command queue, PlayerManager |
| RaceController (`game_logic/race_controller.*`) | shares the counters, results and cars | runRace, checkPlayersStatus, processCmds, processWorldEvents, forcePlayerWin/Lose, finalizeDNFs | queue, registry, world, handlers |
| WorldEventHandlers (`game_logic/world_event_handlers.*`) | shares the counters, results and cars | checkpoint, building and car hits, CarFinishRace, setKillCar | RaceController |
| GameLoop (`game_logic/server_gameloop.*`) | race index, flags, counters, results, global times | run, resetRaceState, updateGlobalStatsFromLastRace, computeGlobalRanking, stop | owns all of the above |
| World (`server_src/world`) | bodies, sensors, pending events | step, contact events, map parser | box2d |
| GameManager, GameContext, ClientsRegistry (`server_src/server_game_manager.*`, ...) | games, clients of each game | CreateJoinGame, LeaveGame, getGames, AddClient, broadcast | receivers, GameLoop |
| Acceptor, ClientHandler, Receiver, Sender (`server_src`) | connections, threads, `playing`, `joined_game_id` | accept, poll, reap_dead, kill_all, run, stop | sockets, queues, GameManager |
| Queue, Thread, ConstantRateLoop (`common_src`) | a bounded buffer, its closed flag; flags of a thread | push, pop, try_push, try_pop, close; start, stop, join | everybody |
| Wire protocol (`server_protocol.*`, `client_protocol.*`, `common_src/*_msg`) | none | one send and one receive per message | sockets |
| Client lobby (`client_src/lobby`) | current screen, chosen game and car | requests and the answers it waits for | server |
| Client game (`client_src`) | a replica of cars, checkpoints, times | handlers of server messages, events, rendering | server, SDL |
| Configuration, assets, audio, textures, sockets | - | I/O | - |

What makes it hard: the receivers, the acceptor and the game thread interleave
around three locks and one unsynchronised flag (`isStarted`); players join,
leave, ask twice and come too late at any step of a race; the end of a race is
decided by comparing two `uint8_t` counters that five different handlers change;
cars, results, spawn points and penalties live across races and have to be reset
in the right place; a frame can bring several events for a car that the previous
event has just wrecked or taken over the line.

What makes each component correct:

- results: one per player and race, finishers numbered in the order of arrival,
  nobody forgotten, times in order;
- end of a race: not before everybody has finished or left, not after, and by
  the time limit in any case;
- cars and spawn points: one owner each, nobody gets a car during a race;
- reset: a race starts with nothing of the one before;
- final ranking: everybody once, by total time;
- progress: no race, lobby or abandoned game lasts for ever;
- wire: what one side writes the other reads, byte for byte;
- connection: a client with a car gets every message of its game once and in order,
  and notices when the server is gone;
- lobby dialogue: window and server agree on the client's game, no answer is taken
  for another, every request is answered;
- client game: the cars, wrecks, upgrades and checkpoints on the screen are those of
  the game.

`PROJECT.json` lists, under `hazards`, every place where this could go wrong and
a test would hardly reach it.

## 2. Modules

```
Car -> GameState -> PlayerManager -> LobbyController ---+
              \---> WorldEventHandlers -----------------+-> RaceController -> GameLoop
GameLoop -> GameProperties -> MCGame
                          \-> GameHistory -> MCGameHistory
                          \-> GameProofs -> RaceProofs -> CountProofs
                                                     \-> BoardProofs
RaceBoard <- (INSTANCE, the abstraction) - GameProperties
GameManager -> Sessions -> SessionProperties -> MCSessions
                                             \-> SessionProofs
BlockingQueue -> BlockingQueueProofs

GameFeed -+
Wire -----+-> ClientConnection -> ClientGame -> ClientProperties -> MCClient
                                                               \-> ClientProofs
MessageChannel <- (INSTANCE, the abstraction) - ClientProperties
LobbyDialogue -> DialogueProofs
```

(`A -> B`: B extends A.) The C++ objects of a game hold references to the fields
of one `GameLoop`; the modules do the same, with the variables in `GameState`
and one module per class for what it does to them.

| module | models | state |
|---|---|---|
| `Car` | `Car`, as a record and operators | a value of `playerCars` |
| `GameState` | fields of `GameLoop` and the queue, registry and flags around it | all variables |
| `PlayerManager` | `PlayerManager` | `playerCars`, `usedSpawnIds`, `carToSpawnId`, `ghosts` |
| `LobbyController` | `runLobbyLoop` | `startRequested`, `deadlinePassed`, `cmds` |
| `WorldEventHandlers` | the handlers of one world event | cars, counters, results, `hitBuilding`, `hitPairs` |
| `RaceController` | `runRace` | `raceTime`, `worldEvents`, counters, results |
| `GameLoop` | `GameLoop::run`; `GameManager` and the receivers as its environment | `raceIndex`, `globalStats`, `joining`, `listed`, `registry`, `queue`, `stopping` |
| `GameProperties` | the properties, the refinement of `RaceBoard` | - |
| `RaceBoard` | abstract: the results of a race as a board that is only added to | `stage`, `race`, `drivers`, `clock`, `board` |
| `GameHistory` | a history variable for what a comment says of a whole game | `penalties` |
| `GameProofs`, `RaceProofs`, `CountProofs`, `BoardProofs` | theorems | - |
| `GameManager` | `GameManager` with its `GameContext`s and `ClientsRegistry`s | `lastGame`, `listed`, `registry`, `game`, `closedQueues`, `toStop` |
| `Sessions` | `Acceptor`, `ClientHandler`, `Receiver`, `Sender`, `Server::run` | `handlers`, `session`, `receiver`, `joined`, `peerClosed`, `sender`, ... |
| `SessionProperties` | the properties of the two above | - |
| `SessionProofs` | theorems | - |
| `BlockingQueue` | `Queue<T>` of `common_src/queue.h`, its conditions and waits | `q`, `closed`, `thread`, `pushing` |
| `BlockingQueueProofs` | theorems | - |
| `Wire` | both protocols and the sockets under them: a layout per message and side, what a send writes, what a read makes of it | - |
| `MessageChannel` | abstract: a queue of messages that may break | `waiting`, `arrived`, `broken` |
| `GameFeed` | one game as the messages it sends to one client, `Me` | `phase`, `raceIndex`, `startRequested`, `cars`, `hits`, `out`, `at`, `drained`, `visiting`, `registry`, `departed`, `queue` |
| `ClientConnection` | the `Sender` of the server, `ClientReceiver`, `ClientSender`, the bytes between them | `playing`, `stream`, `receiver`, `inbox`, `senderQueue` |
| `ClientGame` | `ClientWindow::run` with its `EventManager` and cars, `Client::stop` and `join` | `window`, `client` |
| `ClientProperties` | the properties of the four above, the refinement of `MessageChannel` | - |
| `ClientProofs` | theorems | - |
| `LobbyDialogue` | the lobby window, the requests it sends and the answers it waits for, the server as far as it answers | `screen`, `awaiting`, `joinedId`, `listed`, `requests`, `answers`, `admitting`, `joined`, `receiver`, `games`, ... |
| `DialogueProofs` | theorems | - |

The game thread is a loop over `pc`:

```
outer -> lobby <-> lobbyCmds -> race -> raceDrain -> raceCmds -> events -> race ... -> dnf
  ^                                                                                     |
  +---------------------------- accumulate <--------------------------------------------+
outer -> done
```

An action is one stretch of that loop between two points where another thread
can matter: a drain of the queue, one command, one world event, the check of who
left. Everything a handler does is in its action, as the game thread is the only
one to touch the game's state; the other threads act between the actions
(`JoinGame`, `AddClient`, `LeaveGame`, `Stop`, `PushCmd`). `CreateJoinGame` is two
actions because the lock of `GameManager` is released between reading `isStarted`
and `AddClient`.

Abstractions:

- physics: `WorldStep` may report any contacts between enabled bodies and
  sensors, hits before sensors as in `checkContactEvents`. A hit deals any damage
  of `Damages`, or none;
- `findUpgradeDef` throws for an upgrade that is not configured. The buttons of the window are
  made from the same table, so no client asks for one, and `RequestUpgrade` is modelled for
  configured upgrades;
- messages to the clients change no state of the server and are left out here;
  `GameFeed` has them;
- a time is a number of frames; an upgrade's penalty is in the same unit;
- the order in which an `unordered_map` yields its entries is a free choice
  (`Bijection`), at every place where the code iterates one;
- a second body of one client, which `createCarForClient` leaves in the world when
  `INIT_PLAYER` comes twice, is remembered in `ghosts`, as it can still touch
  things in that client's name.

`wrecked` and `penalties` are history variables: no action reads them.

The server around the games is modelled from the other side in `Sessions`. There a
game is no more than a thread that runs until it is stopped or has raced its
routes, and the subject is the threads of the connections:

```
acceptor   accept -> scan (poll each handler) -> reap -> accept ...
              scan, on a flagged handler: stop -> (stop and join its game) -> join -> scan
              after the stop: scan (kill_all) -> ended -> exited or terminated
receiver   recv -> start -> assign -> recv      (a new game)
           recv -> add -> assign -> recv        (a game of the list)
           recv -> leave -> recv                (CLIENT_DISCONNECT)
           recv -> break -> exit                (end of file at an opcode)
           recv -> exit                         (closed queue; a message that ends behind its opcode)
sender     pop -> exit
```

`LeaveGame` is called by a receiver and by the acceptor, so `GameManager` takes the
calling thread as a parameter and keeps, in `toStop`, the game that thread has taken
off the list and has to stop and join. The steps of a method that run after its
lock is released are actions of their own. A client's messages are requests its
receiver may be given at any time; clients ask for a game only when they are in
none, connect once (the server numbers connections), and may go at any time; what a client
sent before it went may still be served. A receiver that ends by an exception (`Command` on a
closed queue, `ReceiveCut` for a message that ends behind its opcode) raises no flag and leaves
no game: `poll` never stops it, and `reap_dead` destroys its handler with the threads unjoined at the
next connection. The lobby of the game does not see that player go, and `kill_all` does. The
joinability of a game (`isStarted`) is free here, as `GameLoop` has that flag.
`answered` remembers that a client's sender ever had something to send: only then
can a send fail. `std::terminate` is the state `terminated`.

`BlockingQueue` makes one action of what a call does while it holds the mutex. A
waiting thread is in `notFull` or `notEmpty`; `notify_all` or a spurious wakeup
moves it to `push` or `pop`, where it tests the condition again. `accepted` and
`taken` are history variables.

The client in a game is `ClientGame` on `ClientConnection` on `GameFeed`. `GameFeed`
is a second, smaller model of a game: of the server it keeps what messages to `Me` are
about (cars, checkpoints, healths, upgrades, the registry) and lets a frame be the
last of its race at any time; `GameLoop` is where races end for a reason. A step of the
game thread sends `Me` at most one message, so that its `Sender`, which takes them while the
thread goes on, may come between any two: `at` is the place in the iteration (`top`,
`cmds`, `drops`, `events`), `drained` the commands still to do, and `visiting` the cars that
the loop at that place still has to go over: those that `notifyClientExistingCars` has to
name, that `checkPlayersStatus` found gone, or that the world step may hit. Left out of it are Movement, TIME and RECOMMENDED_PATH:
they change nothing the properties look at, and would be most of the states. Their
bytes are checked by `RoundTrip` like those of all the others.

`Wire` gives every message a layout for each side that touches it (`ServerSends` and
`ClientReads`, `ClientSends` and `ServerReads`, `LobbyReads` for the blocking reads
of the lobby window), each translated from its own function, so that a disagreement of
the two sides would show. `Encode` writes the fields with their width, in network
order, truncated as the code truncates them; `Decode` reads bytes until they end. A
read that finds the stream closed between two fields leaves the rest of the message
unwritten (`Junk`, any of `JunkValues` when it is used); one that is cut inside a field
throws. `ASSUME RoundTrip` in `MCClient` has TLC evaluate, before the run `client`, that
every message comes out as it went in and to the last byte, with fields of 0, 1, 127, 128
and 255 and lists of 0, 1 and 5 entries. Fields that no property looks at (positions, angles,
times, names) are written as zeros, so of them it checks the place and width only.
`sendUpgrade` copies three bytes to a vector of two, which is undefined behaviour. The third byte
lies within the block of memory that was allocated for the two, and `sendall` is given all three, so
they go out as they should; `Wire` has that outcome only, and no property would notice another.
The hazard is listed without one.

A float goes out as a whole number of hundredths (`lround` in `encodeFloatBE`), so the health that
the window compares with 0 is not the one the server compares with 0. `GameFeed` counts healths and
damages in thousandths and `Hundredths` rounds them on their way: a car with less than half a
hundredth left is sent as 0, drawn as a wreck, and drives on. `CarsAgree` says just that: every
killed car is a wreck in the window, and the wrecks are the cars of which some hit was sent as 0
(`spent`).

While server and client live, sending and receiving a message is one step: nobody can tell
bytes in the socket from a message that waits for its sender. When the server dies
(`Die`), of the message it was about to write any prefix may still arrive; of two
prefixes that read the same, `Cuts` takes the shorter. The reads of `ClientReceiver` are
outside of its `try`, so a cut inside a field ends that thread and nobody tells the
window. One thread does the rest of the client: it empties the inbox, takes the user's
input, draws. `spent` and `bought` in `GameFeed`'s cars are history.

`LobbyDialogue` is about messages, not bytes. A click sends its requests and blocks in
`readActionByte` until the next message comes, which it takes for its answer. The
`Receiver` serves requests in order and `CreateJoinGame` is two steps here too; `answers`
is the queue of the `Sender`. A game is a record: whether it is on the list, the phase its thread is
in, the commands in its queue and those already drained (`Drain` empties the queue at
once, `LobbyCmd` and `RaceCmd` serve one of them per step), and whether this client is registered.
Of the other players is kept whether a game has any; they have one `START_GAME` waiting at most.
`Stop` closes the queue of a game, and its thread may be in the middle of an iteration:
`ThreadStops` is the moment it notices, after the commands it had drained. An
`INIT_PLAYER` for a closed queue ends the `Receiver` (`receiver` becomes `ended`) and nothing
else: `peerClosed` is not set, the client stays registered, its socket stays open, and the
window waits. `NextAccept` is the next connection of anybody: `reap_dead` destroys that
handler, which ends the server, and the window reads the end of its stream. The server also ends
when another client's handler is in that state, or by `kill_all`; both are in `Sessions` only. A window
that has misread an answer is not followed further, and neither is a client that has
entered its game, which is the subject of `ClientGame`. `misread` and `discarded` are
history variables.

A definition whose comment begins with "A variant" is not part of the
specification. It is a plausible mistake in the definition next to it, and
shows that a property would notice it (`mutants` in `PROJECT.json`).

## 3. Runs

| run | bounds | shows |
|---|---|---|
| `race` | 3 clients, 1 race of 3 frames, 1 checkpoint, 3 spawns, 1 queued command, 1 event per frame, crashes | `OneResultPerPlayer`, `CountsAddUp`, `NoEarlyEnd`, `NoLateEnd`, `SpawnsOwned`, `FirstGridDistinct`, `NoLateDrivers` |
| `frame` | 2 clients, 1 race of 2 frames, 2 checkpoints, 2 events per frame, the WIN, LOST and HEALTH cheats | `FinishOrder`, `NobodyForgotten`, `FinishedAtTheLine`, `CheckpointsInOrder` |
| `series` | 2 clients, 2 races of 2 frames, an upgrade, crashes | `TypeOK`, `LobbyIsClean`, `FinalRanking`, `UpgradesLastOneRace`, `BoardKept` |
| `live` | 2 clients, 2 races of 2 frames, 1 spawn point, no symmetry | `RaceEnds`, `GameRunsOn`, `AbandonedGameEnds` |
| `queue` | 3 threads, 2 items, capacity 2, 4 pushes | `TypeOK`, `NobodyOversleeps`, `FirstInFirstOut`, `CloseFreesConsumers` |
| `sessions` | 2 clients, 2 games of 2 players | `TypeOK`, `StartedGameExists`, `OneStopper`, `ReceiverKnowsGame`, `NoGhostPlayers`, `ConnectionsEnd` |
| `shutdown` | 2 clients, 1 game of 1 player, no symmetry | `ShutdownCompletes` |
| `client` | `Me` and another player, 2 races, 2 checkpoints, 2 spawns, a hit in a game that leaves 0 or 4 thousandths of health (healths of 40, damages of 36 or 40, no low health that can be hit again), 1 upgrade; 1 message in the inbox, the game waits while a message waits for the sender | `MembershipAgrees`, `CarsAgree`, `HudFollows`, `ChannelRefined`, `EndIsNoticed`, `ClientEnds`; before it, `RoundTrip`, `WireAssumption` and `CutAssumption` |
| `dialogue` | 2 games, 2 races, 1 `START_GAME` of others waiting in a game | `OneGame`, `OnlyStartMisread`, `EntersWithCar`, `Answered` |
| `reap` | 2 clients, 1 game | violated: `FlaggedHandlersAreStopped` |
| `penalty` | 2 races of 1 frame, an upgrade | violated: `TotalPenaltyAdded` |
| `grid` | 2 races of 2 frames | violated: `SpotsOccupied` |

Why the bounds are enough. Three clients are needed for the counters: one who has
finished, one who leaves, one still on the road; and to have a finisher leave
while another does. Two events per frame are needed for a car that finishes or is
wrecked and is hit again in the same frame, and for the sets that ignore the
second hit of a frame. Two races are the least with a reset in between; a third
one starts from a state the second could start from. With one spawn point in
`live`, a second player is refused. One pending command per drain is enough as
the frames and lobby rounds between let further ones in; commands are handled one
by one and clients leave between them. The queue of the code is unbounded in
practice (`UINT_MAX - 1`), and `MaxQueue` bounds it here. Clients are
interchangeable and no definition chooses among them other than by `\E`, so the
safety runs use their symmetry.

Fairness (`FairSpec`): the game thread is scheduled for ever (it never blocks on
a player: it polls its queue and sleeps until the next frame); a lobby's deadline
is a point in time and passes; the thread that took an empty game off the list
goes on to stop it. Nothing is assumed of the players, and none of the progress
properties needs them: a race is ended by its clock, a later lobby by its
deadline, an abandoned game by the stop. The first lobby may wait for ever for
`START_GAME`, as it does in the code, so `GameRunsOn` speaks of `raceIndex # 0`.
`CHECK_DEADLOCK` stays on: the game ends in `Terminated` and stops nowhere else.

For the sessions, two clients are the least with an interleaving of two receivers
and the acceptor, and with a handler that is polled because another client has
connected; two games let a client leave one and take another; with one player per
game the second client meets a full game. Three threads let two sleep on one
condition while the third acts, four items wrap the two places of the queue twice.

For the client, one other player is enough for every order of arrivals and departures
around `Me` (before it, after it, in the lobby, in a race); its id is not used again, as the
server numbers connections. Two races are the least with a counter to start again, and a car
that was wrecked in the first is there in the second. With `MaxOut = 0` the game sends
the next message when the last has been taken, with `MaxInbox = 1` that is when the one before it has been
handled. A damage of 40 kills a car of 40 thousandths, one of 36 leaves it alive with a health
that is sent as 0. These bounds cut off a game further ahead of its client, several cars for
one newcomer to hear of, and a car with low health that is hit again; `ClientProofs` has all of
them, for the invariants.
`MaxShown = 1` stands for the three upgrades a car of the
window shows. For the dialogue two games let the client be refused by one, leave it,
and take or create another; the second race is needed for the lobby that ends by its
deadline, and for the drain between two races.

Fairness of the client (`ClientFairSpec`): the threads are scheduled, and bytes that
were sent arrive. A user need not do anything, a server need not die, a race need not end, and
a receiver blocked in `recv` need not wake (`Socket::close` does not wake it) until there are
bytes or an end of file. So `ClientEnds` is promised only once the server is gone: a client that is
closed while its server lives and sends nothing more waits in `join`. `EndIsNoticed`
excepts the server that dies within a field. `DialogueFairSpec` has the
window's reads, the receiver and the games' threads go on; clicks and other players are
free. `Answered` has two exceptions. An `INIT_PLAYER` may be thrown away with the queue, between two
races or after the last: then the window waits for an answer that nobody gives. Or it may
end the `Receiver`, when its game was stopped: then the window waits until somebody else connects,
and `NextAccept` has no fairness, as nobody need.

`BoardKept` states that a game implements `RaceBoard`: one board per race, to which each
finisher is added once, in the next place and with the time of its arrival, and those who are still
there and did not finish when the race closes; nothing on it is changed or taken back
before the next race. The mapping takes `stage` from `pc`, `board` from `lastRaceResults`,
`drivers` from `playerCars`; counters, ranking, queue, events and what happens to the cars
have no counterpart. That later lines have no better times (`TimesFollowResults`) is a consequence
of it.

`ChannelRefined` states that the connection implements `MessageChannel`: a message sent
to a client that has its car is delivered once, in order and unchanged, until the
connection breaks; then a prefix of what was on its way arrives, at most one more message
damaged, and at most one notice. `waiting` maps to the bytes a dead server left, the
sender's queue without what the filter drops, and the notice that is still to come;
`arrived` is the inbox.

`OnlyStartMisread` is what remains of "no answer is taken for another": with
`STARTING_GAME` it does happen. A client that joins between another player's `START_GAME`
being sent and processed is in the registry before its answer is in the queue; the
broadcast comes first and the window, which waits for `JOIN_GAME` or `CAR_SELECT`, reports
an error and goes on as if it had not joined.

Fairness of `Sessions`: every thread that does not wait for a client goes on, a game
that was stopped ends (`AbandonedGameEnds` of `GameLoop` is what this rests on), and
`Server::run` completes a stop it has begun. The clients may do nothing, and nobody
need connect. In `BlockingQueue` a notified thread gets the mutex.
`ShutdownCompletes` counts an end by `std::terminate` as an end: the process does not
hang; that it may end that way is the finding of `reap` and, in `kill_all`, the
hazard listed at `CreateJoinGame`.

The three violations are disagreements between the code and its own comments;
`findings` in `PROJECT.json` quotes them:

- `reap`: `poll` is said to react to the receiver's end-of-file flag; a flag that is
  raised between `poll` and `reap_dead` has the handler erased with its threads
  unjoined, which ends the server. Two steps of a departing client and one accepted
  connection are enough;

- `penalty`: the comment in `computeGlobalRanking` says that the penalties of the
  whole game are added; `resetForNewRace` has cleared those of all races but the last;
- `grid`: `usedSpawnIds` is declared to hold the occupied spawn points;
  `resetRaceState` puts the cars elsewhere without telling it, and the next player
  may be placed on top of a car.

A fourth disagreement has no run of its own: `sendPlayerStats` says that place 0 is for
who has no ranking, but whoever was in the race has, if only by the time limit's result.

`CountsAddUp`, `NoEarlyEnd` and `NoLateEnd` are stated for races in which nobody was
killed. `setKillCar` takes the car off `totalCars` and leaves it in `playerCars`;
from then on the departure of that car lowers `totalCars` again and a kill of a
finished car leaves the two counters unequal for good. The time limit still ends
such a race (`RaceEnds`, with kills), and its results still hold everybody
(`NobodyForgotten`, with kills).

## 4. Proofs

All proofs are of `Spec` of their module (`ClientSpec` for the client); those of a game are for any finite set of
clients and any values of the other constants that satisfy `CarAssumption` and
`GameAssumption`:

- `GameProofs!TypeCorrect`: `Spec => [](TypeOK /\ PhaseOK)`. `TypeOK` alone is not
  inductive: `raceIndex` stays within the routes only because the loop is entered
  below its bound, which `PhaseOK` adds. What is not obvious in it: the spawn point
  of a new car exists (`LeastNatural`, by well-foundedness, since `CHOOSE` must have
  something to choose); the counters stay in a byte through `setKillCar`, which
  has no test for zero; the random order of a map yields one spot per car;
- the grid, in `GameProofs` too: every step leaves it alone, gives one client a car, takes
  some away, or is the step to the next race (`GridSteps`). From this:
  - `SpawnsAreOwned`: `SpawnsOwned`, inductive by itself;
  - `FirstGridIsDistinct`: from `FirstGrid`, which adds that no car stands on a
    spawn point that another client would free by leaving. Without it a departure
    could free the place of a car that stays, after a second `INIT_PLAYER` has given
    its owner another entry in `carToSpawnId`;
  - `NobodyDrivesLate`: the action property `NoLateDrivers`.
- `RaceProofs`: as far as results are concerned every step is one of eight kinds
  (`RaceSteps`): it leaves them alone, lets a player join, starts the race, lets
  players leave, moves one car on, takes one over the line, closes the race, or resets
  everything for the next. Each kind keeps `RaceOK`, the five invariants of the
  results together (`OneResultPerPlayer`, `FinishOrder`, `TimesFollowResults`,
  `FinishedAtTheLine`, `NobodyForgotten`) with what they need to be inductive
  (`ResultsAreSound`):
  - `ResultsOK`: during a race there are exactly as many results as places in the
    ranking, a car is finished if and only if its driver has a result, and no result is of the
    future. Without the second a car could finish twice, or the results of the
    time limit could repeat that of a finisher; without the third its time could come before
    theirs. A finisher that leaves takes its car along and its result stays; nobody gets a car before
    the next race, so it does not come back to finish again;
  - `LobbyOK`: before a race there is nothing: no result, no ranking, no event, and every car
    is whole and at checkpoint 0. From it `LobbyStartsClean`, and the start of the
    race finds `ResultsOK` true.

  The action properties `CheckpointsPassInOrder` and `UpgradesAreForOneRace` follow from
  these and the types, action by action;
- `CountProofs`: `CountsAgree`, `NoRaceEndsEarly`, `NoRaceEndsLate` for
  `NumSpawns < 256`, and `RankingIsFinal` for `NumRaces * NumSpawns < 256`. The counters
  are bytes and the code compares and subtracts them, so without a bound they are
  false: with 256 cars `totalCars` is 0. A race never counts more than `NumSpawns` cars
  (`CountOK`): whoever has a car owns a spawn point (`SpawnsOwned`), no one gets a car after
  the start, and each counted finisher once had one. The positions of the final ranking
  number all who ever finished a race of the game or ran out of time in it, so each
  race adds at most `NumSpawns` of them (`RankOK`). The maps of the repository have two
  routes with eight spawn points each. In `NoRaceEndsLate` the case that is easily
  forgotten is the departure of the last car on the road after others have finished;
  `checkPlayersStatus` compares the counters there once more.
- `BoardProofs!GameKeepsBoard`: `GameLoop` implements `RaceBoard`. The board's stage is
  a function of `pc` and `raceIndex` (`Stage`). Only four actions lead from one stage to another
  (`StageMoves`): the end of a lobby is the board's `Start`, `finalizeDNFs` its
  `Close`, the reset its `NextRace` or `End`, the end of the loop its `End`. All others are sorted
  by their kind of step in `RaceProofs`: time passes (`Tick`, which needs that a race that goes on is
  below its limit, `ClockOK`), a player joins (`Enter`) or goes (`Leave`), a car finishes
  (`Finish`), or nothing that the board shows. That `Finish` gives the place of the next line, and that
  `Close` adds those who are missing and nobody twice, is `ResultsOK` and `FinishOrder` of
  `RaceOK`.

- `BlockingQueueProofs`: every call is one of five kinds of step (`QueueSteps`); from
  these `QueueTypeCorrect`, `NoLostWakeup` and `QueueIsFifo`, for any number of
  threads and any capacity. `NobodyOversleeps` and `FirstInFirstOut` are inductive
  given the types. The first needs no more because a thread falls asleep only
  with the queue empty (or full), and the step that changes this wakes everybody.
  `QueueAssumption` (a capacity of at least one) is all that is assumed.

- `DialogueProofs`: the lobby dialogue, for any number of games and races. None of the
  three properties says enough to be inductive: that window and server agree when nothing is
  under way rests on what is under way otherwise. `DialogueOK` (`DialogueSafe`) is the table of
  it, one line per situation of the window: it is idle, waits for the games, to join, or for a
  car, has entered, is closed. A line says which requests are on their way, that exactly one
  reply is among the answers or none, which one it may be, and where the client is registered.
  While the window waits for a car, one `INIT_PLAYER` is in the queue of its game or among the
  drained commands (`OneInit`), or was thrown away (`discarded`). Two more lines are for a
  `Receiver` that an `INIT_PLAYER` has ended: the window waits for a car and nothing is under way
  (`Unanswered`), or the server has gone and the end of the stream is what it will read, or has
  read (`Gone`). In both the client stays registered where it was. Any number of `STARTING_GAME` may
  stand around the reply; this is why the table counts replies (`Free`, `Once`) instead of listing
  the queue, and what the games do besides serving the `INIT_PLAYER` keeps it (`SteadyKeeps`).
  From it `ClientIsInOneGame`, `OnlyStartIsMisread`, `EntersTheGameWithCar`. Assumed is that
  there is a game and a race (`DialogueAssumption`).

- `SessionProofs`: the connections and the games they join, for any clients, games and
  players. The invariants are proved one after the other:
  - `ThreadTypesCorrect`: every id in use is one that `CreateJoinGame` gave out;
  - `SocketsCloseLast`: `ClosedSocketsAreIdle` with `ReceiverOK`, which says where a
    receiver is when its client is flagged and that one that is getting a game has none.
    A client whose connection is accepted only then has a receiver, so nothing else is
    disturbed by `Accept`;
  - `GamesHaveOneStopper`: `OneStopper` with the fact that a game somebody must stop is
    off the list (`StoppersOK`). Whoever finds the registry empty takes the game off the
    list under the lock, so the next one to leave cannot find it;
  - `StartedGamesExist`: `StartedGameExists` with the fact that the client that starts a game is
    in its registry and the only one to start it (`StartersOK`). Others may join and
    leave in between, yet the registry never becomes empty, so the game stays listed;
  - `ReceiversKnowTheirGames` and `NobodyIsLeftBehind`: neither invariant is inductive, nor
    are both. `poll` leaves the game the handler knows of, so it is the first that lets the
    second hold; `RunningOK` adds that only receivers past their end of file are
    stopped while the server runs, and `HandledOK` that `shut` and `join` come after
    that departure.

  - `SessionTypeCorrect` and `NobodyIsKeptConnected` (`ConnectionsEnd`): the list of handlers. `SessionsOK` says that it
    has a handler once, that while the acceptor runs whatever is not closed is on it, and that
    `kill_all` leaves closed sessions behind its iterator. Of `reap_dead` the proof uses that it
    keeps survivors in their order, and that the process ends if one of the others was not
    closed.

  Assumed: `ManagerAssumption` (a bound on the games, at least one player to a game, and the
  acceptor is not one of the clients).

The assumptions on the constants of a game are what the configuration promises: positive
health, one checkpoint and one spawn point at least, no negative penalty, and,
where the HEALTH upgrade is on sale, a base health of which half is not zero.

Two more say nothing of the code: that the value which stands for an absent entry of a map
is neither a car (`GameAssumption`) nor an entry of the global times (`StatsAssumption`).

- `ClientProofs`: the window of a client in its game, for any players, races, checkpoints,
  damages and upgrades, and however many messages are under way:
  - `ClientTypes`: while server and window live, everything in the sender's queue, on the wire and
    in the inbox is one of `GameMessages`, which is what the other proofs compute with;
  - `ServedOnce`: until `Me` has its car nothing was sent to it or shown, and its `INIT_PLAYER` is the
    first command of the next iteration; afterwards there is none. So the first message to
    `Me` is `INIT_PLAYER`, and the sender's filter holds nothing back after it; a second one would
    show its car whole and without upgrades. No car that `Me` is still to be told of was ever `spent`: the loop that
    tells of them runs in a lobby that `Me` entered, before any race it hears of;
  - `NothingLost`: the agreement at rest says nothing while messages are under way, so the
    invariant is about them. `Shown` is what the window shows, `Truth` what
    there is in the game, less the cars that `Me` is still to be told of (`Telling`), and `Leads` says
    that the messages of inbox and sender's queue, in their order, turn the one into the other: there are
    views, one per message, each of which `ViewAfter` makes of the one before. A step of the
    game leaves `Truth` alone or sends the message that tells of the change (`Telltale`), a
    step of the window takes the first message and shows what it says, and the steps between move
    messages and keep their order. The healths in it are the hundredths that are sent. From it
    `WindowShowsMembers`, and with `KilledSpent` (a car that was killed had nothing left that would
    show on the wire) `WindowShowsCars`;
  - `HudKept`: no message names a race that has not begun; from the first one that
    names the current race on, no checkpoint shown or under way is beyond the car's; and between two
    frames the last message under way is the `CURRENT_INFO` with the next checkpoint, or the window
    has it. The second needs the order of the messages: a hit of the race before may still be
    under way when the counter of the window has a new race to begin, and `CURRENT_INFO` comes
    after it. From these `WindowFollowsRace`;
  - `ConnectionIsChannel`, the refinement: in every step of both sides `waiting`, `arrived` and `broken`
    change as `MessageChannel` says, or not at all. By `ServedOnce` and `NothingLost` a client
    with a car has everything in its sender's queue let through (`AllGoThrough`); before that
    `QuietInv` has nothing in the queue open the filter, so that what will pass is as many
    `STARTING_GAME`s as there are in it (`SomeGoThrough`, and `StartingCounts` for one sent and one
    taken), and the message that opens it comes into an empty queue. `WireInv` says that only a
    dead server leaves bytes and that these are of one message: its death is a `Break` that
    keeps nothing, with at most the first message after it, damaged, and the notice.

  Assumed: `FeedAssumption` and `ClientAssumption`, which say of which kind the constants are, and
  `WireAssumption`: each of `GameMessages` and of the user's messages is read as it was sent,
  so ids, healths and the numbers of races and checkpoints fit the fields they are sent in.
  `Wire` folds its layouts over bytes, and what a fold yields for every message takes an
  induction that the prover cannot do; so TLC evaluates the assumption, with the constants
  of each run. So it does with `CutAssumption`: of the first bytes of a message the client
  makes a message of the same type or an exception, and as they end before the message does
  it leaves nothing of them.

Only model-checked:

- all progress properties, as the prover has no liveness under fairness;
- `RoundTrip`, `WireAssumption` and `CutAssumption`, by evaluation.

## 5. Plan

1. A client that goes on after a misread `STARTING_GAME`: its window still shows the
   selector, so it can ask for a second game while registered in the first; and with it
   the refusal of a second game in `Sessions`.

Not modelled: physics, drawing, audio, the Qt widgets, configuration and map
parsing, name resolution. They are I/O or out of the reach of a
discrete model; where the game depends on them, the model chooses freely among
what they may return.
