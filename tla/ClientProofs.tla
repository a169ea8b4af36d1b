---------------------------- MODULE ClientProofs ----------------------------
(***************************************************************************)
(* What the window of a client shows, and what comes of the messages sent  *)
(* to it, for every number of players, races, checkpoints and messages on  *)
(* their way.                                                              *)
(***************************************************************************)
EXTENDS ClientProperties, FiniteSetTheorems, TLAPS

(***************************************************************************)
(* Types, while server and window live.                                    *)
(***************************************************************************)

CarStates ==
  [checkpoint : 0..NumCheckpoints, health : 0..FullHealth, enabled : BOOLEAN,
   upgrades : SUBSET Upgrades, spent : BOOLEAN, bought : Nat]

Commands ==
  [client : Players, op : {"INIT_PLAYER", "START_GAME", "UPGRADE_REQUEST"},
   arg : {0} \cup Upgrades]

ShownCars ==
  [state : {"ALIVE", "LOW_HEALTH", "EXPLODING", "DESTROYED"}, upgrades : 0..MaxShown]

(* Cars of some of the players.                                            *)
CarMaps(T) == UNION {[D -> T] : D \in SUBSET Players}

Windows ==
  [running : BOOLEAN, quit : BOOLEAN, showStart : BOOLEAN, shop : BOOLEAN,
   myCarId : {NOT_ACCESSIBLE} \cup Players, cars : CarMaps(ShownCars),
   nextCheckpoint : Int, checkpointNumber : Nat, lastRaceNumber : Nat]

LEMMA PlayersAreNumbers ==
  Players \subseteq Nat /\ Me \in Players /\ Me \notin Others /\ NOT_ACCESSIBLE \notin Players
BY FeedAssumption DEF Players, NOT_ACCESSIBLE

LEMMA CarMapsIntro ==
  ASSUME NEW D \in SUBSET Players, NEW T, NEW f, f \in [D -> T]
  PROVE  f \in CarMaps(T)
BY DEF CarMaps

LEMMA CarMapsElim ==
  ASSUME NEW T, NEW f \in CarMaps(T)
  PROVE  /\ DOMAIN f \in SUBSET Players /\ f \in [DOMAIN f -> T]
         /\ \A c \in DOMAIN f : f[c] \in T
BY DEF CarMaps

-----------------------------------------------------------------------------
(***************************************************************************)
(* The window.                                                             *)
(***************************************************************************)

(* What the properties compare of a window.                                *)
Shown(w) ==
  [mine |-> w.myCarId, cars |-> DOMAIN w.cars,
   wrecks |-> {c \in DOMAIN w.cars : Wreck(w.cars[c])},
   upgrades |-> IF Shows(w, w.myCarId) THEN w.cars[w.myCarId].upgrades ELSE 0]

Views == [mine : {NOT_ACCESSIBLE} \cup Players, cars : SUBSET Players, wrecks : SUBSET Players,
          upgrades : 0..MaxShown]

View(mine, shown, wrecks, upgrades) ==
  [mine |-> mine, cars |-> shown, wrecks |-> wrecks, upgrades |-> upgrades]

(* What a message makes of it.                                             *)
ViewAfter(v, m) ==
  CASE m.type = "INIT_PLAYER" -> View(m.id, v.cars \cup {m.id}, v.wrecks \ {m.id}, 0)
    [] m.type = "NEW_PLAYER" -> View(v.mine, v.cars \cup {m.id}, v.wrecks, v.upgrades)
    [] m.type = "COLLISION" ->
         IF m.id \in v.cars /\ m.health <= 0
         THEN View(v.mine, v.cars, v.wrecks \cup {m.id}, v.upgrades) ELSE v
    [] m.type = "CLIENT_DISCONNECT" ->
         View(IF m.id = v.mine THEN NOT_ACCESSIBLE ELSE v.mine, v.cars \ {m.id},
              v.wrecks \ {m.id}, IF m.id = v.mine THEN 0 ELSE v.upgrades)
    [] m.type = "UPGRADE_SEND" ->
         IF m.success # 0 /\ v.mine \in v.cars /\ v.upgrades # MaxShown
         THEN View(v.mine, v.cars, v.wrecks, v.upgrades + 1) ELSE v
    [] OTHER -> v

LEMMA WindowFields ==
  ASSUME NEW w \in Windows
  PROVE  /\ w.myCarId \in {NOT_ACCESSIBLE} \cup Players
         /\ DOMAIN w.cars \in SUBSET Players
         /\ w.cars \in [DOMAIN w.cars -> ShownCars]
         /\ w.cars \in CarMaps(ShownCars)
         /\ w.running \in BOOLEAN /\ w.quit \in BOOLEAN /\ w.showStart \in BOOLEAN
         /\ w.shop \in BOOLEAN /\ w.nextCheckpoint \in Int
         /\ w.checkpointNumber \in Nat /\ w.lastRaceNumber \in Nat
<1>1. w.cars \in CarMaps(ShownCars)
  BY DEF Windows
<1> QED
  BY <1>1, CarMapsElim DEF Windows

(* PutCar shows a new car.                                                 *)
LEMMA PutCarShows ==
  ASSUME NEW w \in Windows, NEW c \in Players
  PROVE  /\ PutCar(w, c) \in Windows
         /\ PutCar(w, c) = [w EXCEPT !.cars = PutCar(w, c).cars]
         /\ DOMAIN PutCar(w, c).cars = DOMAIN w.cars \cup {c}
         /\ PutCar(w, c).cars[c] = NewShownCar
         /\ \A d \in DOMAIN w.cars : d # c => PutCar(w, c).cars[d] = w.cars[d]
<1> DEFINE f == [d \in DOMAIN w.cars \cup {c} |-> IF d = c THEN NewShownCar ELSE w.cars[d]]
<1>1. PutCar(w, c) = [w EXCEPT !.cars = f]
  BY DEF PutCar
<1>2. NewShownCar \in ShownCars
  BY ClientAssumption DEF NewShownCar, ShownCars
<1>3. f \in [DOMAIN w.cars \cup {c} -> ShownCars]
  BY <1>2, WindowFields
<1>4. f \in CarMaps(ShownCars)
  BY <1>3, WindowFields, CarMapsIntro
<1>5. [w EXCEPT !.cars = f] \in Windows
  BY <1>4 DEF Windows
<1>6. [w EXCEPT !.cars = f].cars = f
  BY DEF Windows
<1> QED
  BY <1>1, <1>5, <1>6

(* What is left of a number of thousandths in hundredths.                  *)
LEMMA HundredthsOf ==
  /\ \A h \in Nat : Hundredths(h) \in Nat
  /\ \A h, k \in Nat : h <= k => Hundredths(h) <= Hundredths(k)
  /\ Hundredths(0) = 0
BY DEF Hundredths

LEMMA HealthSent ==
  ASSUME NEW h \in 0..FullHealth
  PROVE  Hundredths(h) \in 0..Hundredths(FullHealth)
<1>1. h \in Nat /\ FullHealth \in Nat /\ h <= FullHealth
  BY FeedAssumption
<1>2. /\ Hundredths(h) \in Nat /\ Hundredths(FullHealth) \in Nat
      /\ Hundredths(h) <= Hundredths(FullHealth)
  BY <1>1, HundredthsOf
<1> QED
  BY <1>2

LEMMA MessageFields ==
  ASSUME NEW m \in GameMessages
  PROVE  /\ m.type \in {"INIT_PLAYER", "NEW_PLAYER", "CLIENT_DISCONNECT"} => m.id \in Players
         /\ m.type = "COLLISION" => m.id \in Players /\ m.health \in 0..Hundredths(FullHealth)
         /\ m.type = "CHECKPOINT_HIT" => m.id = Me /\ m.checkpoint \in 1..NumCheckpoints
         /\ m.type = "CURRENT_INFO" =>
              m.race \in 1..NumRaces /\ m.next \in 0..NumCheckpoints
                /\ m = [type |-> "CURRENT_INFO", race |-> m.race, next |-> m.next]
         /\ m.type = "UPGRADE_SEND" => m.success \in {0, 1}
         /\ m.type \in {"INIT_PLAYER", "NEW_PLAYER", "CLIENT_DISCONNECT", "COLLISION",
                        "CHECKPOINT_HIT", "CURRENT_INFO", "UPGRADE_SEND", "UPGRADE_LOGIC",
                        "STATS", "STARTING_GAME"}
BY DEF GameMessages

LEMMA ShownIsView ==
  ASSUME NEW w \in Windows
  PROVE  Shown(w) \in Views
<1>1. Shows(w, w.myCarId) => w.cars[w.myCarId].upgrades \in 0..MaxShown
  BY WindowFields DEF Shows, ShownCars
<1>2. {c \in DOMAIN w.cars : Wreck(w.cars[c])} \in SUBSET Players
  BY WindowFields
<1>3. 0 \in 0..MaxShown
  BY ClientAssumption
<1> QED
  BY <1>1, <1>2, <1>3, WindowFields DEF Shown, Views

(* A new state of the cars, with the rest of the view.                     *)
LEMMA InitPlayerShown ==
  ASSUME NEW w \in Windows, NEW m \in GameMessages, m.type = "INIT_PLAYER"
  PROVE  /\ OnInitPlayer(w, m) \in Windows
         /\ Shown(OnInitPlayer(w, m)) = ViewAfter(Shown(w), m)
         /\ OnInitPlayer(w, m).lastRaceNumber = w.lastRaceNumber
         /\ OnInitPlayer(w, m).checkpointNumber = w.checkpointNumber
<1> DEFINE u == [w EXCEPT !.myCarId = m.id]
           x == PutCar(u, m.id)
<1>1. m.id \in Players
  BY MessageFields
<1>2. u \in Windows /\ u.cars = w.cars /\ u.myCarId = m.id
        /\ u.lastRaceNumber = w.lastRaceNumber /\ u.checkpointNumber = w.checkpointNumber
  BY <1>1 DEF Windows
<1> HIDE DEF u
<1>3. /\ x \in Windows /\ x = [u EXCEPT !.cars = x.cars]
      /\ DOMAIN x.cars = DOMAIN w.cars \cup {m.id} /\ x.cars[m.id] = NewShownCar
      /\ \A d \in DOMAIN w.cars : d # m.id => x.cars[d] = w.cars[d]
  BY <1>1, <1>2, PutCarShows
<1>4. x.myCarId = m.id /\ x.lastRaceNumber = w.lastRaceNumber
        /\ x.checkpointNumber = w.checkpointNumber
  BY <1>2, <1>3 DEF Windows
<1>5. {c \in DOMAIN x.cars : Wreck(x.cars[c])} = {c \in DOMAIN w.cars : Wreck(w.cars[c])} \ {m.id}
  BY <1>3 DEF Wreck, NewShownCar
<1>6. Shows(x, x.myCarId) /\ x.cars[x.myCarId].upgrades = 0
  BY <1>3, <1>4 DEF Shows, NewShownCar
<1>7. Shown(x) = View(m.id, DOMAIN w.cars \cup {m.id}, {c \in DOMAIN w.cars : Wreck(w.cars[c])} \ {m.id}, 0)
  BY <1>3, <1>4, <1>5, <1>6 DEF Shown, View
<1>8. ViewAfter(Shown(w), m) = Shown(x)
  BY <1>7 DEF ViewAfter, Shown
<1> QED
  BY <1>3, <1>4, <1>8 DEF OnInitPlayer, u

LEMMA NewPlayerShown ==
  ASSUME NEW w \in Windows, NEW m \in GameMessages, m.type = "NEW_PLAYER"
  PROVE  /\ OnNewPlayer(w, m) \in Windows
         /\ Shown(OnNewPlayer(w, m)) = ViewAfter(Shown(w), m)
         /\ OnNewPlayer(w, m).lastRaceNumber = w.lastRaceNumber
         /\ OnNewPlayer(w, m).checkpointNumber = w.checkpointNumber
<1>1. m.id \in Players
  BY MessageFields
<1>2. CASE Shows(w, m.id)
  <2>1. DOMAIN w.cars \cup {m.id} = DOMAIN w.cars
    BY <1>2 DEF Shows
  <2>2. ViewAfter(Shown(w), m) = Shown(w)
    BY <2>1 DEF ViewAfter, Shown, View
  <2> QED
    BY <1>2, <2>2 DEF OnNewPlayer
<1>3. CASE ~Shows(w, m.id)
  <2> DEFINE x == PutCar(w, m.id)
  <2>1. /\ x \in Windows /\ x = [w EXCEPT !.cars = x.cars]
        /\ DOMAIN x.cars = DOMAIN w.cars \cup {m.id} /\ x.cars[m.id] = NewShownCar
        /\ \A d \in DOMAIN w.cars : d # m.id => x.cars[d] = w.cars[d]
    BY <1>1, PutCarShows
  <2>2. x.myCarId = w.myCarId /\ x.lastRaceNumber = w.lastRaceNumber
          /\ x.checkpointNumber = w.checkpointNumber
    BY <2>1 DEF Windows
  <2>3. {c \in DOMAIN x.cars : Wreck(x.cars[c])} = {c \in DOMAIN w.cars : Wreck(w.cars[c])}
    BY <1>3, <2>1 DEF Wreck, NewShownCar, Shows
  <2>4. (IF Shows(x, x.myCarId) THEN x.cars[x.myCarId].upgrades ELSE 0)
          = (IF Shows(w, w.myCarId) THEN w.cars[w.myCarId].upgrades ELSE 0)
    BY <1>3, <2>1, <2>2 DEF Shows, NewShownCar
  <2>5. ViewAfter(Shown(w), m) = Shown(x)
    BY <2>1, <2>2, <2>3, <2>4 DEF ViewAfter, Shown, View
  <2> QED
    BY <1>3, <2>1, <2>2, <2>5 DEF OnNewPlayer
<1> QED
  BY <1>2, <1>3

LEMMA CollisionShown ==
  ASSUME NEW w \in Windows, NEW m \in GameMessages, m.type = "COLLISION"
  PROVE  /\ OnCollision(w, m) \in Windows
         /\ Shown(OnCollision(w, m)) = ViewAfter(Shown(w), m)
         /\ OnCollision(w, m).lastRaceNumber = w.lastRaceNumber
         /\ OnCollision(w, m).checkpointNumber = w.checkpointNumber
<1>1. CASE ~Shows(w, m.id)
  BY <1>1 DEF OnCollision, ViewAfter, Shown, Shows
<1>2. CASE Shows(w, m.id)
  <2> DEFINE car == w.cars[m.id]
             now == HealthState(car.state, m.health)
             f == [w.cars EXCEPT ![m.id].state = now]
             x == [w EXCEPT !.cars = f]
  <2>1. car \in ShownCars /\ m.id \in DOMAIN w.cars /\ m.health \in Nat
    <3>1. m.health \in 0..Hundredths(FullHealth) /\ Hundredths(FullHealth) \in Nat
      BY MessageFields, HundredthsOf, FeedAssumption
    <3> QED
      BY <1>2, <3>1, WindowFields DEF Shows
  <2>2. now \in {"ALIVE", "LOW_HEALTH", "EXPLODING", "DESTROYED"}
    BY <2>1 DEF HealthState, ShownCars
  <2>3. [car EXCEPT !.state = now] \in ShownCars
    BY <2>1, <2>2 DEF ShownCars
  <2>4. f \in [DOMAIN w.cars -> ShownCars] /\ DOMAIN f = DOMAIN w.cars
    BY <2>1, <2>3, WindowFields
  <2>5. x \in Windows /\ x.cars = f /\ x.myCarId = w.myCarId
          /\ x.lastRaceNumber = w.lastRaceNumber /\ x.checkpointNumber = w.checkpointNumber
    BY <2>4, WindowFields, CarMapsIntro DEF Windows
  <2>6. OnCollision(w, m) = x
    BY <1>2 DEF OnCollision
  <2>7. f[m.id].state = now /\ f[m.id].upgrades = car.upgrades
          /\ \A d \in DOMAIN w.cars : d # m.id => f[d] = w.cars[d]
    BY <2>1 DEF ShownCars
  <2>8. Wreck(f[m.id]) <=> m.health <= 0 \/ Wreck(car)
    <3> HIDE DEF f
    <3>1. now \in {"EXPLODING", "DESTROYED"} <=> m.health <= 0 \/ car.state \in {"EXPLODING", "DESTROYED"}
      BY <2>1 DEF HealthState, ShownCars
    <3> QED
      BY <2>7, <3>1 DEF Wreck
  <2>9. {c \in DOMAIN f : Wreck(f[c])} =
          IF m.health <= 0 THEN {c \in DOMAIN w.cars : Wreck(w.cars[c])} \cup {m.id}
          ELSE {c \in DOMAIN w.cars : Wreck(w.cars[c])}
    <3>1. \A c \in DOMAIN w.cars : Wreck(f[c]) <=> Wreck(w.cars[c]) \/ (c = m.id /\ m.health <= 0)
      BY <2>7, <2>8
    <3> QED
      BY <2>1, <2>4, <3>1
  <2>10. (IF Shows(x, x.myCarId) THEN x.cars[x.myCarId].upgrades ELSE 0)
           = (IF Shows(w, w.myCarId) THEN w.cars[w.myCarId].upgrades ELSE 0)
    BY <2>4, <2>5, <2>7 DEF Shows
  <2>11. Shown(x) = View(Shown(w).mine, Shown(w).cars, {c \in DOMAIN f : Wreck(f[c])}, Shown(w).upgrades)
    BY <2>4, <2>5, <2>10 DEF Shown, View
  <2>12. Shown(x) = ViewAfter(Shown(w), m)
    BY <1>2, <2>9, <2>11 DEF ViewAfter, Shown, View, Shows
  <2> QED
    BY <2>5, <2>6, <2>12
<1> QED
  BY <1>1, <1>2

LEMMA ClientDisconnectShown ==
  ASSUME NEW w \in Windows, NEW m \in GameMessages, m.type = "CLIENT_DISCONNECT"
  PROVE  /\ OnClientDisconnect(w, m) \in Windows
         /\ Shown(OnClientDisconnect(w, m)) = ViewAfter(Shown(w), m)
         /\ OnClientDisconnect(w, m).lastRaceNumber = w.lastRaceNumber
         /\ OnClientDisconnect(w, m).checkpointNumber = w.checkpointNumber
<1> DEFINE f == [c \in DOMAIN w.cars \ {m.id} |-> w.cars[c]]
           left == [w EXCEPT !.cars = f]
           x == OnClientDisconnect(w, m)
<1>1. f \in [DOMAIN w.cars \ {m.id} -> ShownCars] /\ DOMAIN f = DOMAIN w.cars \ {m.id}
        /\ \A c \in DOMAIN f : f[c] = w.cars[c]
  BY WindowFields
<1>2. f \in CarMaps(ShownCars)
  BY <1>1, WindowFields, CarMapsIntro
<1>3. left \in Windows /\ left.cars = f /\ left.myCarId = w.myCarId
        /\ left.lastRaceNumber = w.lastRaceNumber /\ left.checkpointNumber = w.checkpointNumber
  BY <1>2 DEF Windows
<1>4. {c \in DOMAIN f : Wreck(f[c])} = {c \in DOMAIN w.cars : Wreck(w.cars[c])} \ {m.id}
  BY <1>1
<1>5. x = IF m.id = w.myCarId THEN [left EXCEPT !.myCarId = NOT_ACCESSIBLE, !.running = FALSE] ELSE left
  BY DEF OnClientDisconnect
<1> HIDE DEF left, x, f
<1>6. CASE m.id = w.myCarId
  <2>1. x \in Windows /\ x.cars = f /\ x.myCarId = NOT_ACCESSIBLE
          /\ x.lastRaceNumber = w.lastRaceNumber /\ x.checkpointNumber = w.checkpointNumber
    BY <1>3, <1>5, <1>6 DEF Windows
  <2>2. ~Shows(x, x.myCarId)
    BY <1>1, <2>1, WindowFields, PlayersAreNumbers DEF Shows
  <2>3. Shown(x) = ViewAfter(Shown(w), m)
    BY <1>1, <1>4, <1>6, <2>1, <2>2 DEF Shown, ViewAfter, View
  <2> QED
    BY <2>1, <2>3 DEF x
<1>7. CASE m.id # w.myCarId
  <2>1. x = left
    BY <1>5, <1>7
  <2>2. (IF Shows(x, x.myCarId) THEN x.cars[x.myCarId].upgrades ELSE 0)
          = (IF Shows(w, w.myCarId) THEN w.cars[w.myCarId].upgrades ELSE 0)
    BY <1>1, <1>3, <1>7, <2>1 DEF Shows
  <2>3. Shown(x) = ViewAfter(Shown(w), m)
    BY <1>1, <1>3, <1>4, <1>7, <2>1, <2>2 DEF Shown, ViewAfter, View
  <2> QED
    BY <1>3, <2>1, <2>3 DEF x
<1> QED
  BY <1>6, <1>7

LEMMA UpgradeSendShown ==
  ASSUME NEW w \in Windows, NEW m \in GameMessages, m.type = "UPGRADE_SEND"
  PROVE  /\ OnUpgradeSend(w, m) \in Windows
         /\ Shown(OnUpgradeSend(w, m)) = ViewAfter(Shown(w), m)
         /\ OnUpgradeSend(w, m).lastRaceNumber = w.lastRaceNumber
         /\ OnUpgradeSend(w, m).checkpointNumber = w.checkpointNumber
<1> DEFINE i == w.myCarId
           now == IF w.cars[i].upgrades = MaxShown THEN w.cars[i].upgrades ELSE w.cars[i].upgrades + 1
           f == [w.cars EXCEPT ![i].upgrades = now]
           x == [w EXCEPT !.cars = f]
<1>1. CASE m.success = 0
  BY <1>1 DEF OnUpgradeSend, ViewAfter
<1>2. CASE m.success # 0
  <2>1. OnUpgradeSend(w, m) = x
    BY <1>2 DEF OnUpgradeSend
  <2>2. CASE ~Shows(w, i)
    <3>1. f = w.cars
      BY <2>2, WindowFields DEF Shows
    <3>2. x = w
      BY <3>1 DEF Windows
    <3>3. ViewAfter(Shown(w), m) = Shown(w)
      BY <2>2 DEF ViewAfter, Shown, Shows
    <3> QED
      BY <2>1, <3>2, <3>3
  <2>3. CASE Shows(w, i)
    <3>1. w.cars[i] \in ShownCars /\ i \in DOMAIN w.cars
      BY <2>3, WindowFields DEF Shows
    <3>2. w.cars[i].upgrades \in 0..MaxShown /\ now \in 0..MaxShown
      BY <3>1, ClientAssumption DEF ShownCars
    <3>3. [w.cars[i] EXCEPT !.upgrades = now] \in ShownCars
      BY <3>1, <3>2 DEF ShownCars
    <3>4. f \in [DOMAIN w.cars -> ShownCars] /\ DOMAIN f = DOMAIN w.cars
      BY <3>1, <3>3, WindowFields
    <3>5. f[i].upgrades = now /\ f[i].state = w.cars[i].state
            /\ \A c \in DOMAIN w.cars : c # i => f[c] = w.cars[c]
      BY <3>1 DEF ShownCars
    <3> HIDE DEF f, now
    <3>6. x \in Windows /\ x.cars = f /\ x.myCarId = i
            /\ x.lastRaceNumber = w.lastRaceNumber /\ x.checkpointNumber = w.checkpointNumber
      BY <3>4, WindowFields, CarMapsIntro DEF Windows
    <3>7. {c \in DOMAIN f : Wreck(f[c])} = {c \in DOMAIN w.cars : Wreck(w.cars[c])}
      BY <3>4, <3>5 DEF Wreck
    <3>8. Shows(x, x.myCarId) /\ x.cars[x.myCarId].upgrades = now
      BY <3>1, <3>4, <3>5, <3>6 DEF Shows
    <3>9. Shown(x) = View(i, DOMAIN w.cars, {c \in DOMAIN w.cars : Wreck(w.cars[c])}, now)
      BY <3>4, <3>6, <3>7, <3>8 DEF Shown, View
    <3>10. Shown(w) = View(i, DOMAIN w.cars, {c \in DOMAIN w.cars : Wreck(w.cars[c])}, w.cars[i].upgrades)
      BY <2>3 DEF Shown, View
    <3>11. Shown(x) = ViewAfter(Shown(w), m)
      BY <1>2, <3>1, <3>9, <3>10 DEF ViewAfter, View, now
    <3> QED
      BY <2>1, <3>6, <3>11
  <2> QED
    BY <2>2, <2>3
<1> QED
  BY <1>1, <1>2

(* A window with its cars and its own as they were shows the same.         *)
LEMMA SameShown ==
  ASSUME NEW w, NEW x, x.cars = w.cars, x.myCarId = w.myCarId
  PROVE  Shown(x) = Shown(w)
BY DEF Shown, Shows

(* What a message of the game does to a window.                            *)
LEMMA MessageHandled ==
  ASSUME NEW w \in Windows, NEW m \in GameMessages, NEW x, x = HandleServerMessage(w, m)
  PROVE  /\ x \in Windows
         /\ Shown(x) = ViewAfter(Shown(w), m)
         /\ IF m.type = "CURRENT_INFO"
            THEN /\ x.lastRaceNumber = m.race /\ x.nextCheckpoint = m.next
                 /\ x.checkpointNumber = IF m.race # w.lastRaceNumber THEN 0 ELSE w.checkpointNumber
            ELSE /\ x.lastRaceNumber = w.lastRaceNumber
                 /\ \/ x.checkpointNumber = w.checkpointNumber
                    \/ m.type = "CHECKPOINT_HIT" /\ x.checkpointNumber = m.checkpoint
<1>1. CASE m.type = "INIT_PLAYER"
  BY <1>1, InitPlayerShown DEF HandleServerMessage
<1>2. CASE m.type = "NEW_PLAYER"
  BY <1>2, NewPlayerShown DEF HandleServerMessage
<1>3. CASE m.type = "COLLISION"
  BY <1>3, CollisionShown DEF HandleServerMessage
<1>4. CASE m.type = "CLIENT_DISCONNECT"
  BY <1>4, ClientDisconnectShown DEF HandleServerMessage
<1>5. CASE m.type = "UPGRADE_SEND"
  BY <1>5, UpgradeSendShown DEF HandleServerMessage
<1>6. CASE m.type = "CHECKPOINT_HIT"
  <2>1. x = OnCheckpointHit(w, m)
    BY <1>6 DEF HandleServerMessage
  <2>2. m.checkpoint \in Nat
    BY <1>6, MessageFields, FeedAssumption
  <2>3. /\ x \in Windows /\ x.cars = w.cars /\ x.myCarId = w.myCarId
        /\ x.lastRaceNumber = w.lastRaceNumber
        /\ x.checkpointNumber \in {w.checkpointNumber, m.checkpoint}
    BY <2>1, <2>2 DEF OnCheckpointHit, Windows
  <2> QED
    BY <1>6, <2>3, SameShown DEF ViewAfter
<1>7. CASE m.type = "CURRENT_INFO"
  <2>1. x = OnCurrentInfo(w, m)
    BY <1>7 DEF HandleServerMessage
  <2>2. m.race \in Nat /\ m.next \in Int
    BY <1>7, MessageFields, FeedAssumption
  <2>3. /\ x \in Windows /\ x.cars = w.cars /\ x.myCarId = w.myCarId
        /\ x.lastRaceNumber = m.race /\ x.nextCheckpoint = m.next
        /\ x.checkpointNumber = IF m.race # w.lastRaceNumber THEN 0 ELSE w.checkpointNumber
    <3> DEFINE n == IF m.race # w.lastRaceNumber THEN 0 ELSE w.checkpointNumber
    <3>1. n \in Nat
      BY WindowFields
    <3>2. x = [w EXCEPT !.checkpointNumber = n, !.lastRaceNumber = m.race, !.nextCheckpoint = m.next]
      BY <2>1 DEF OnCurrentInfo
    <3> HIDE DEF n
    <3>3. /\ x \in Windows /\ x.cars = w.cars /\ x.myCarId = w.myCarId
          /\ x.lastRaceNumber = m.race /\ x.nextCheckpoint = m.next
          /\ x.checkpointNumber = n
      BY <2>2, <3>1, <3>2 DEF Windows
    <3> QED
      BY <3>3 DEF n
  <2> QED
    BY <1>7, <2>3, SameShown DEF ViewAfter
<1>8. CASE m.type \in {"UPGRADE_LOGIC", "STATS", "STARTING_GAME"}
  <2>1. /\ x \in Windows /\ x.cars = w.cars /\ x.myCarId = w.myCarId
        /\ x.lastRaceNumber = w.lastRaceNumber
        /\ x.checkpointNumber = w.checkpointNumber
    <3>1. CASE m.type = "UPGRADE_LOGIC"
      <4>1. x = [w EXCEPT !.shop = TRUE]
        BY <3>1 DEF HandleServerMessage
      <4> QED
        BY <4>1 DEF Windows
    <3>2. CASE m.type = "STATS"
      <4>1. x = [w EXCEPT !.running = FALSE, !.quit = TRUE]
        BY <3>2 DEF HandleServerMessage
      <4> QED
        BY <4>1 DEF Windows
    <3>3. CASE m.type = "STARTING_GAME"
      <4>1. x = [w EXCEPT !.showStart = FALSE]
        BY <3>3 DEF HandleServerMessage
      <4> QED
        BY <4>1 DEF Windows
    <3> QED
      BY <1>8, <3>1, <3>2, <3>3
  <2> QED
    BY <1>8, <2>1, SameShown DEF ViewAfter
<1> QED
  BY <1>1, <1>2, <1>3, <1>4, <1>5, <1>6, <1>7, <1>8, MessageFields

(* A frame: an input and the drawing leave the view as it was, and take    *)
(* the next checkpoint away for a wreck that has burnt out, or not at all. *)
LEMMA FrameShown ==
  ASSUME NEW w \in Windows, NEW input \in Inputs(w), NEW x \in Drawn(input.window)
  PROVE  /\ x \in Windows /\ Shown(x) = Shown(w)
         /\ x.lastRaceNumber = w.lastRaceNumber /\ x.checkpointNumber = w.checkpointNumber
         /\ \A c \in DOMAIN w.cars :
              c \in DOMAIN x.cars /\ (w.cars[c].state = "DESTROYED" => x.cars[c].state = "DESTROYED")
         /\ \/ x.nextCheckpoint = w.nextCheckpoint
            \/ /\ x.nextCheckpoint = NOT_ACCESSIBLE
               /\ \E c \in DOMAIN x.cars : x.cars[c].state = "DESTROYED"
<1> DEFINE y == input.window
<1>1. /\ y \in Windows /\ y.cars = w.cars /\ y.myCarId = w.myCarId
      /\ y.lastRaceNumber = w.lastRaceNumber /\ y.checkpointNumber = w.checkpointNumber
      /\ y.nextCheckpoint = w.nextCheckpoint
  <2>1. y = w \/ y = [w EXCEPT !.running = FALSE, !.quit = FALSE] \/ y = [w EXCEPT !.showStart = FALSE]
    <3> DEFINE closed == [w EXCEPT !.running = FALSE, !.quit = FALSE]
               started == [w EXCEPT !.showStart = FALSE]
    <3>1. \E z \in {w, closed, started} : \E s : input = Input(z, s)
      BY DEF Inputs
    <3> HIDE DEF closed, started
    <3>2. PICK z \in {w, closed, started} : \E s : input = Input(z, s)
      BY <3>1
    <3>3. y = z
      BY <3>2 DEF Input
    <3> QED
      BY <3>3 DEF closed, started
  <2> QED
    BY <2>1 DEF Windows
<1> HIDE DEF y
<1>2. CASE x = y
  BY <1>1, <1>2, SameShown
<1>3. CASE x # y
  <2> DEFINE inState(s) == {c \in DOMAIN y.cars : y.cars[c].state = s}
             ended(b) == [c \in DOMAIN y.cars |->
                           IF c \in b THEN [y.cars[c] EXCEPT !.state = "DESTROYED"] ELSE y.cars[c]]
  <2>1. PICK burnt \in SUBSET inState("EXPLODING") :
          x = [y EXCEPT !.cars = ended(burnt),
                        !.nextCheckpoint = IF inState("DESTROYED") # {} THEN NOT_ACCESSIBLE
                                           ELSE y.nextCheckpoint]
    BY <1>3 DEF Drawn, y
  <2> DEFINE f == ended(burnt)
  <2>2. /\ DOMAIN f = DOMAIN y.cars
        /\ \A c \in DOMAIN y.cars :
             /\ y.cars[c] \in ShownCars
             /\ f[c] = IF c \in burnt THEN [y.cars[c] EXCEPT !.state = "DESTROYED"] ELSE y.cars[c]
    BY <1>1, WindowFields
  <2>3. \A c \in DOMAIN y.cars :
          /\ f[c] \in ShownCars /\ f[c].upgrades = y.cars[c].upgrades
          /\ y.cars[c].state = "DESTROYED" => f[c].state = "DESTROYED"
    BY <2>2 DEF ShownCars
  <2>4. \A c \in DOMAIN y.cars : Wreck(f[c]) <=> Wreck(y.cars[c])
    BY <2>1, <2>2 DEF ShownCars, Wreck
  <2>5. f \in [DOMAIN y.cars -> ShownCars]
    BY <2>2, <2>3
  <2>6. f \in CarMaps(ShownCars)
    BY <1>1, <2>5, WindowFields, CarMapsIntro
  <2> HIDE DEF f
  <2>7. x = [y EXCEPT !.cars = f,
                        !.nextCheckpoint = IF inState("DESTROYED") # {} THEN NOT_ACCESSIBLE
                                           ELSE y.nextCheckpoint]
    BY <2>1 DEF f
  <2>8. /\ x \in Windows /\ x.cars = f /\ x.myCarId = y.myCarId
        /\ x.lastRaceNumber = y.lastRaceNumber /\ x.checkpointNumber = y.checkpointNumber
        /\ x.nextCheckpoint = IF inState("DESTROYED") # {} THEN NOT_ACCESSIBLE ELSE y.nextCheckpoint
    <3> DEFINE n == IF inState("DESTROYED") # {} THEN NOT_ACCESSIBLE ELSE y.nextCheckpoint
    <3>1. n \in Int
      BY <1>1, WindowFields DEF NOT_ACCESSIBLE
    <3> HIDE DEF n
    <3>2. x = [y EXCEPT !.cars = f, !.nextCheckpoint = n]
      BY <2>7 DEF n
    <3>3. /\ x \in Windows /\ x.cars = f /\ x.myCarId = y.myCarId
          /\ x.lastRaceNumber = y.lastRaceNumber /\ x.checkpointNumber = y.checkpointNumber
          /\ x.nextCheckpoint = n
      BY <1>1, <2>6, <3>1, <3>2 DEF Windows
    <3> QED
      BY <3>3 DEF n
  <2>9. {c \in DOMAIN f : Wreck(f[c])} = {c \in DOMAIN y.cars : Wreck(y.cars[c])}
    BY <2>2, <2>4
  <2>10. Shown(x) = Shown(w)
    <3>1. Shows(x, x.myCarId) <=> Shows(y, y.myCarId)
      BY <2>2, <2>8 DEF Shows
    <3>2. Shows(y, y.myCarId) => x.cars[x.myCarId].upgrades = y.cars[y.myCarId].upgrades
      BY <2>2, <2>3, <2>8 DEF Shows
    <3>3. Shown(x) = Shown(y)
      BY <2>2, <2>8, <2>9, <3>1, <3>2 DEF Shown
    <3> QED
      BY <1>1, <3>3, SameShown
  <2>11. inState("DESTROYED") # {} => \E c \in DOMAIN x.cars : x.cars[c].state = "DESTROYED"
    BY <2>2, <2>3, <2>8
  <2> QED
    BY <1>1, <2>2, <2>3, <2>8, <2>10, <2>11
<1> QED
  BY <1>2, <1>3

-----------------------------------------------------------------------------
(***************************************************************************)
(* The step that keeps the types.                                          *)
(***************************************************************************)

(* The game is followed as long as its server and the window live.         *)
Live == ~Dead /\ client = "window"

GameTypes ==
  /\ phase \in {"lobby", "race", "over"}
  /\ raceIndex \in 0..(NumRaces - 1) /\ startRequested \in BOOLEAN /\ hits \in Nat
  /\ cars \in CarMaps(CarStates) /\ registry \subseteq Others

(* Where an iteration may be, and the cars it has still to go over.        *)
LoopTypes ==
  /\ at \in {"top", "cmds", "drops", "events"}
  /\ at = "cmds" => phase = "lobby"
  /\ at \in {"drops", "events"} => phase = "race"
  /\ at # "cmds" => drained = <<>>
  /\ at = "top" => visiting = {}
  /\ at \in {"cmds", "drops"} => Me \notin visiting
  /\ visiting \subseteq DOMAIN cars

QueueTypes ==
  /\ queue \in Seq(Commands) /\ drained \in Seq(Commands)
  /\ senderQueue \in Seq(UserMessages)
  /\ out \in Seq(GameMessages) /\ inbox \in Seq(GameMessages)
  /\ playing \in BOOLEAN /\ stream = <<>> /\ receiver = "on"

LiveTypes == GameTypes /\ LoopTypes /\ QueueTypes /\ window \in Windows

(* A game thread that is dead is at no place of a loop.                    *)
TypeInv == (Live => LiveTypes) /\ (Dead => at = "top")

LEMMA NewCarTyped == NewCar \in CarStates
BY FeedAssumption DEF NewCar, CarStates

LEMMA CarFields ==
  ASSUME NEW car \in CarStates
  PROVE  /\ car.checkpoint \in 0..NumCheckpoints /\ car.health \in 0..FullHealth
         /\ car.enabled \in BOOLEAN /\ car.upgrades \in SUBSET Upgrades
         /\ car.spent \in BOOLEAN /\ car.bought \in Nat
BY DEF CarStates

LEMMA SendTyped ==
  ASSUME out \in Seq(GameMessages), NEW m \in GameMessages, NEW c, SendTo(c, m)
  PROVE  out' \in Seq(GameMessages)
BY DEF SendTo

(* The messages of the game.                                               *)
LEMMA MessageTypes ==
  /\ \A c \in Players : /\ [type |-> "INIT_PLAYER", id |-> c] \in GameMessages
                        /\ [type |-> "NEW_PLAYER", id |-> c] \in GameMessages
                        /\ [type |-> "CLIENT_DISCONNECT", id |-> c] \in GameMessages
  /\ \A c \in Players, h \in 0..FullHealth :
       [type |-> "COLLISION", id |-> c, health |-> Hundredths(h)] \in GameMessages
  /\ \A n \in 1..NumCheckpoints :
       [type |-> "CHECKPOINT_HIT", id |-> Me, checkpoint |-> n] \in GameMessages
  /\ \A r \in 1..NumRaces, n \in 0..NumCheckpoints :
       [type |-> "CURRENT_INFO", race |-> r, next |-> n] \in GameMessages
  /\ \A u \in Upgrades \cup {None}, s \in {0, 1} :
       [type |-> "UPGRADE_SEND", upgrade |-> u, success |-> s] \in GameMessages
  /\ [type |-> "UPGRADE_LOGIC", size |-> Cardinality(Upgrades)] \in GameMessages
  /\ [type |-> "STATS", position |-> 1] \in GameMessages
  /\ [type |-> "STARTING_GAME"] \in GameMessages
BY HealthSent DEF GameMessages

(* A hit takes no more than there is, and hurts the car for good if what   *)
(* is left of it rounds to nothing; it goes on only if something is left.  *)
LEMMA HurtCar ==
  ASSUME NEW car \in CarStates, NEW damage \in Nat
  PROVE  /\ Hurt(car, damage) \in CarStates
         /\ Hurt(car, damage).checkpoint = car.checkpoint
         /\ Hurt(car, damage).bought = car.bought
         /\ Hurt(car, damage).spent <=> car.spent \/ Hundredths(Hurt(car, damage).health) = 0
         /\ Hurt(car, damage).enabled \/ Hundredths(Hurt(car, damage).health) = 0 \/ ~car.enabled
<1> DEFINE left == IF damage < car.health THEN car.health - damage ELSE 0
           on == car.enabled /\ left # 0
           gone == car.spent \/ Hundredths(left) = 0
<1>1. left \in 0..FullHealth
  BY CarFields, FeedAssumption
<1>2. on \in BOOLEAN /\ gone \in BOOLEAN
  BY CarFields
<1>3. left = 0 => Hundredths(left) = 0
  BY HundredthsOf
<1>4. Hurt(car, damage) = [car EXCEPT !.health = left, !.enabled = on, !.spent = gone]
  BY DEF Hurt
<1> HIDE DEF left
<1>5. car.enabled => on \/ Hundredths(left) = 0
  BY <1>3
<1> HIDE DEF on, gone
<1>6. /\ Hurt(car, damage) \in CarStates
      /\ Hurt(car, damage).checkpoint = car.checkpoint /\ Hurt(car, damage).bought = car.bought
      /\ Hurt(car, damage).health = left /\ Hurt(car, damage).enabled = on
      /\ Hurt(car, damage).spent = gone
  BY <1>1, <1>2, <1>4 DEF CarStates
<1> QED
  BY <1>5, <1>6 DEF gone

LEMMA InitPlayerTypes ==
  ASSUME Live, LiveTypes, NEW c \in Players, InitPlayer(c), UNCHANGED <<connectionVars, clientVars>>
  PROVE  LiveTypes'
<1> USE DEF LiveTypes
<1>1. cars' = WithCar(c) /\ at = "cmds" /\ at' = at /\ drained' = Tail(drained) /\ drained # <<>>
        /\ UNCHANGED <<phase, raceIndex, startRequested, hits, registry, queue>>
  BY DEF InitPlayer, Serve, NextCmd, Running
<1>2. cars' \in [DOMAIN cars \cup {c} -> CarStates]
  BY <1>1, NewCarTyped, CarMapsElim DEF WithCar, HasCar, GameTypes
<1>3. DOMAIN cars' = DOMAIN cars \cup {c} /\ cars' \in CarMaps(CarStates)
  BY <1>2, CarMapsElim, CarMapsIntro DEF GameTypes
<1>4. GameTypes'
  BY <1>1, <1>3 DEF GameTypes
<1>5. visiting' \subseteq DOMAIN cars' /\ Me \notin visiting'
  BY <1>1, <1>3 DEF InitPlayer, LoopTypes
<1>6. LoopTypes'
  BY <1>1, <1>5 DEF LoopTypes
<1>7. out' \in Seq(GameMessages)
  BY SendTyped, MessageTypes, PlayersAreNumbers DEF InitPlayer, QueueTypes
<1>8. drained' \in Seq(Commands)
  BY <1>1 DEF QueueTypes
<1>9. QueueTypes'
  BY <1>1, <1>7, <1>8 DEF QueueTypes, connectionVars
<1> QED
  BY <1>4, <1>6, <1>9 DEF clientVars

LEMMA RequestUpgradeTypes ==
  ASSUME Live, LiveTypes, NEW c \in Players, NEW u \in Upgrades, RequestUpgrade(c, u),
         UNCHANGED <<connectionVars, clientVars>>
  PROVE  LiveTypes'
<1> USE DEF LiveTypes
<1> DEFINE new == [cars EXCEPT ![c].upgrades = cars[c].upgrades \cup {u}, ![c].bought = cars[c].bought + 1]
<1>1. /\ at = "cmds" /\ at' = at /\ drained' = Tail(drained) /\ drained # <<>>
      /\ UNCHANGED <<phase, raceIndex, startRequested, hits, registry, queue, visiting>>
      /\ c \in DOMAIN cars
  BY DEF RequestUpgrade, Serve, NextCmd, Running, Counts, HasCar
<1>2. cars' = cars \/ cars' = new
  BY DEF RequestUpgrade
<1>3. new \in [DOMAIN cars -> CarStates]
  <2>1. cars[c] \in CarStates /\ cars \in [DOMAIN cars -> CarStates]
    BY <1>1, CarMapsElim DEF GameTypes
  <2>2. [cars[c] EXCEPT !.upgrades = cars[c].upgrades \cup {u}, !.bought = cars[c].bought + 1] \in CarStates
    <3>1. cars[c].upgrades \cup {u} \in SUBSET Upgrades /\ cars[c].bought + 1 \in Nat
      BY <2>1, CarFields
    <3> QED
      BY <2>1, <3>1 DEF CarStates
  <2>3. new = [cars EXCEPT ![c] = [cars[c] EXCEPT !.upgrades = cars[c].upgrades \cup {u},
                                                  !.bought = cars[c].bought + 1]]
    BY <1>1, <2>1
  <2> QED
    BY <1>1, <2>1, <2>2, <2>3
<1> HIDE DEF new
<1>4. DOMAIN cars' = DOMAIN cars /\ cars' \in CarMaps(CarStates)
  <2>1. cars' \in [DOMAIN cars -> CarStates] /\ DOMAIN cars \in SUBSET Players
    BY <1>2, <1>3, CarMapsElim DEF GameTypes
  <2> QED
    BY <2>1, CarMapsIntro
<1>5. GameTypes' /\ LoopTypes'
  BY <1>1, <1>4 DEF GameTypes, LoopTypes
<1>6. out' \in Seq(GameMessages)
  BY SendTyped, MessageTypes DEF RequestUpgrade, QueueTypes
<1>7. drained' \in Seq(Commands)
  BY <1>1 DEF QueueTypes
<1>8. QueueTypes'
  BY <1>1, <1>6, <1>7 DEF QueueTypes, connectionVars
<1> QED
  BY <1>5, <1>8 DEF clientVars

LEMMA LobbyTypes ==
  ASSUME Live, LiveTypes, UNCHANGED <<connectionVars, clientVars>>, NEW c \in Players,
         \/ EmptyQueue \/ NotifyExisting(c) \/ StartGame(c) \/ SkipCmd \/ LobbyEnds \/ UpgradeLogic
  PROVE  LiveTypes'
<1> USE DEF LiveTypes
<1>1. CASE EmptyQueue
  <2>1. GameTypes' /\ LoopTypes'
    BY <1>1 DEF EmptyQueue, gameVars, GameTypes, LoopTypes, Running
  <2>2. QueueTypes'
    BY <1>1 DEF EmptyQueue, QueueTypes, connectionVars
  <2> QED
    BY <2>1, <2>2 DEF clientVars
<1>2. CASE NotifyExisting(c)
  <2>1. GameTypes' /\ LoopTypes'
    BY <1>2 DEF NotifyExisting, gameVars, GameTypes, LoopTypes, Running
  <2>2. out' \in Seq(GameMessages)
    BY <1>2, SendTyped, MessageTypes DEF NotifyExisting, QueueTypes
  <2>3. QueueTypes'
    BY <1>2, <2>2 DEF NotifyExisting, QueueTypes, connectionVars
  <2> QED
    BY <2>1, <2>3 DEF clientVars
<1>3. CASE StartGame(c) \/ SkipCmd
  <2>1. /\ at = "cmds" /\ at' = at /\ drained' = Tail(drained) /\ drained # <<>>
        /\ startRequested' \in {startRequested, TRUE}
        /\ UNCHANGED <<phase, raceIndex, hits, registry, queue, visiting, cars>>
    BY <1>3 DEF StartGame, SkipCmd, Serve, NextCmd, Running
  <2>2. GameTypes' /\ LoopTypes'
    BY <2>1 DEF GameTypes, LoopTypes
  <2>3. out' \in Seq(GameMessages)
    BY <1>3, SendTyped, MessageTypes DEF StartGame, SkipCmd, Broadcast, QueueTypes
  <2>4. drained' \in Seq(Commands)
    BY <2>1 DEF QueueTypes
  <2>5. QueueTypes'
    BY <2>1, <2>3, <2>4 DEF QueueTypes, connectionVars
  <2> QED
    BY <2>2, <2>5 DEF clientVars
<1>4. CASE LobbyEnds
  <2>1. GameTypes' /\ LoopTypes' /\ QueueTypes'
    BY <1>4 DEF LobbyEnds, CmdsDone, Running, GameTypes, LoopTypes, QueueTypes, connectionVars
  <2> QED
    BY <2>1 DEF clientVars
<1>5. CASE UpgradeLogic
  <2>1. out' \in Seq(GameMessages)
    BY <1>5, SendTyped, MessageTypes DEF UpgradeLogic, Broadcast, QueueTypes
  <2>2. GameTypes' /\ LoopTypes' /\ QueueTypes'
    BY <1>5, <2>1 DEF UpgradeLogic, CmdsDone, Running, GameTypes, LoopTypes, QueueTypes, gameVars, connectionVars
  <2> QED
    BY <2>2 DEF clientVars
<1> QED
  BY <1>1, <1>2, <1>3, <1>4, <1>5

(* The step of a race that changes no car.                                 *)
LEMMA RaceLoopTypes ==
  ASSUME Live, LiveTypes, UNCHANGED <<connectionVars, clientVars>>,
         CheckPlayersStatus \/ WorldStep \/ FrameEnds
  PROVE  LiveTypes'
<1> USE DEF LiveTypes
<1>1. CASE CheckPlayersStatus
  <2>1. GameTypes' /\ LoopTypes' /\ QueueTypes'
    BY <1>1 DEF CheckPlayersStatus, Running, gameVars, connectionVars, GameTypes, LoopTypes, QueueTypes
  <2> QED
    BY <2>1 DEF clientVars
<1>2. CASE WorldStep
  <2>1. <<>> \in Seq(Commands)
    OBVIOUS
  <2>2. GameTypes' /\ LoopTypes' /\ QueueTypes'
    BY <1>2, <2>1 DEF WorldStep, Running, gameVars, connectionVars, GameTypes, LoopTypes, QueueTypes
  <2> QED
    BY <2>2 DEF clientVars
<1>3. CASE FrameEnds
  <2>1. CASE ~HasCar(Me) \/ Finished(cars[Me])
    <3>1. GameTypes' /\ LoopTypes' /\ QueueTypes'
      BY <1>3, <2>1 DEF FrameEnds, CurrentInfo, Running, gameVars, connectionVars, GameTypes, LoopTypes, QueueTypes
    <3> QED
      BY <3>1 DEF clientVars
  <2>2. CASE HasCar(Me) /\ ~Finished(cars[Me])
    <3>1. cars[Me].checkpoint + 1 \in 0..NumCheckpoints /\ raceIndex + 1 \in 1..NumRaces
      <4>1. cars[Me] \in CarStates
        BY <2>2, CarMapsElim DEF HasCar, GameTypes
      <4> QED
        BY <2>2, <4>1, CarFields, FeedAssumption DEF Finished, GameTypes
    <3>2. out' \in Seq(GameMessages)
      BY <1>3, <2>2, <3>1, SendTyped, MessageTypes DEF FrameEnds, CurrentInfo, QueueTypes
    <3>3. GameTypes' /\ LoopTypes' /\ QueueTypes'
      BY <1>3, <3>2 DEF FrameEnds, Running, gameVars, connectionVars, GameTypes, LoopTypes, QueueTypes
    <3> QED
      BY <3>3 DEF clientVars
  <2> QED
    BY <2>1, <2>2
<1> QED
  BY <1>1, <1>2, <1>3

LEMMA DropCarTypes ==
  ASSUME Live, LiveTypes, UNCHANGED <<connectionVars, clientVars>>, NEW c \in Others, DropCar(c)
  PROVE  LiveTypes'
<1> USE DEF LiveTypes
<1>1. c \in Players
  BY DEF Players
<1>2. cars' \in [DOMAIN cars \ {c} -> CarStates] /\ DOMAIN cars \in SUBSET Players
  BY CarMapsElim DEF DropCar, GameTypes
<1>3. cars' \in CarMaps(CarStates) /\ DOMAIN cars' = DOMAIN cars \ {c}
  BY <1>2, CarMapsIntro
<1>4. GameTypes' /\ LoopTypes'
  BY <1>3 DEF DropCar, Running, GameTypes, LoopTypes
<1>5. out' \in Seq(GameMessages)
  BY <1>1, SendTyped, MessageTypes DEF DropCar, Broadcast, QueueTypes
<1>6. QueueTypes'
  BY <1>5 DEF DropCar, connectionVars, QueueTypes
<1> QED
  BY <1>4, <1>6 DEF clientVars

LEMMA HitTypes ==
  ASSUME Live, LiveTypes, UNCHANGED <<connectionVars, clientVars>>, NEW c \in Players,
         \/ c = Me /\ \E n \in 1..NumCheckpoints : CarHitCheckpoint(c, n)
         \/ \E damage \in Damages : CarHit(c, damage)
  PROVE  LiveTypes'
<1> USE DEF LiveTypes
<1>1. c \in DOMAIN cars /\ cars[c] \in CarStates /\ DOMAIN cars \in SUBSET Players
        /\ cars \in [DOMAIN cars -> CarStates]
  BY CarMapsElim DEF CarHitCheckpoint, CarHit, WorldEvent, LoopTypes, GameTypes
<1>2. CASE c = Me /\ \E n \in 1..NumCheckpoints : CarHitCheckpoint(c, n)
  <2>1. PICK n \in 1..NumCheckpoints : CarHitCheckpoint(c, n)
    BY <1>2
  <2>2. [cars[c] EXCEPT !.checkpoint = n] \in CarStates
    <3>1. n \in 0..NumCheckpoints
      BY FeedAssumption
    <3> QED
      BY <1>1, <3>1 DEF CarStates
  <2>3. cars' = [cars EXCEPT ![c] = [cars[c] EXCEPT !.checkpoint = n]]
    BY <1>1, <2>1 DEF CarHitCheckpoint
  <2>4. cars' \in [DOMAIN cars -> CarStates]
    BY <1>1, <2>2, <2>3
  <2>5. cars' \in CarMaps(CarStates) /\ DOMAIN cars' = DOMAIN cars
    BY <1>1, <2>4, CarMapsIntro
  <2>6. GameTypes' /\ LoopTypes'
    BY <2>1, <2>5 DEF CarHitCheckpoint, WorldEvent, Running, loopVars, GameTypes, LoopTypes
  <2>7. out' \in Seq(GameMessages)
    BY <1>2, <2>1, SendTyped, MessageTypes DEF CarHitCheckpoint, QueueTypes
  <2>8. QueueTypes'
    BY <2>1, <2>7 DEF CarHitCheckpoint, WorldEvent, loopVars, connectionVars, QueueTypes
  <2> QED
    BY <2>6, <2>8 DEF clientVars
<1>3. CASE \E damage \in Damages : CarHit(c, damage)
  <2>1. PICK damage \in Damages : CarHit(c, damage)
    BY <1>3
  <2>2. Hurt(cars[c], damage) \in CarStates
    BY <1>1, HurtCar, FeedAssumption
  <2>3. cars' = [cars EXCEPT ![c] = Hurt(cars[c], damage)] /\ cars' \in [DOMAIN cars -> CarStates]
    BY <1>1, <2>1, <2>2 DEF CarHit
  <2>4. cars' \in CarMaps(CarStates) /\ DOMAIN cars' = DOMAIN cars /\ cars'[c] \in CarStates
    BY <1>1, <2>3, CarMapsIntro
  <2>5. GameTypes' /\ LoopTypes'
    BY <2>1, <2>4 DEF CarHit, WorldEvent, Running, loopVars, GameTypes, LoopTypes
  <2>6. out' \in Seq(GameMessages)
    BY <2>1, <2>4, CarFields, SendTyped, MessageTypes DEF CarHit, Broadcast, QueueTypes
  <2>7. QueueTypes'
    BY <2>1, <2>6 DEF CarHit, WorldEvent, loopVars, connectionVars, QueueTypes
  <2> QED
    BY <2>5, <2>7 DEF clientVars
<1> QED
  BY <1>2, <1>3

LEMMA RaceEndsTypes ==
  ASSUME Live, LiveTypes, UNCHANGED <<connectionVars, clientVars>>, RaceEnds
  PROVE  LiveTypes'
<1> USE DEF LiveTypes
<1>1. cars' \in CarMaps(CarStates)
  <2> DEFINE reset(c) == [NewCar EXCEPT !.spent = cars[c].spent, !.bought = cars[c].bought]
  <2>1. cars' = cars \/ cars' = [c \in DOMAIN cars |-> reset(c)]
    BY DEF RaceEnds
  <2>2. \A c \in DOMAIN cars : cars[c] \in CarStates
    BY CarMapsElim DEF GameTypes
  <2>3. \A c \in DOMAIN cars : reset(c) \in CarStates
    BY <2>2, NewCarTyped DEF CarStates
  <2> HIDE DEF reset
  <2>4. [c \in DOMAIN cars |-> reset(c)] \in [DOMAIN cars -> CarStates] /\ DOMAIN cars \in SUBSET Players
    BY <2>3, CarMapsElim DEF GameTypes
  <2> QED
    BY <2>1, <2>4, CarMapsIntro DEF GameTypes
<1>2. out' \in Seq(GameMessages)
  BY SendTyped, MessageTypes DEF RaceEnds, QueueTypes
<1>3. /\ phase' \in {"lobby", "race", "over"} /\ raceIndex' \in 0..(NumRaces - 1)
      /\ queue' \in Seq(Commands)
  <2>1. <<>> \in Seq(Commands) /\ queue \in Seq(Commands)
    BY DEF QueueTypes
  <2>2. \/ /\ raceIndex + 1 < NumRaces /\ phase' = "lobby" /\ raceIndex' = raceIndex + 1
           /\ queue' = <<>>
        \/ phase' = "over" /\ raceIndex' = raceIndex /\ queue' = queue
    BY DEF RaceEnds
  <2>3. raceIndex \in 0..(NumRaces - 1)
    BY DEF GameTypes
  <2>4. raceIndex + 1 < NumRaces => raceIndex + 1 \in 0..(NumRaces - 1)
    BY <2>3, FeedAssumption
  <2> QED
    BY <2>1, <2>2, <2>3, <2>4
<1>5. GameTypes' /\ LoopTypes' /\ QueueTypes'
  BY <1>1, <1>2, <1>3 DEF RaceEnds, Running, connectionVars, GameTypes, LoopTypes, QueueTypes
<1> QED
  BY <1>5 DEF clientVars

LEMMA OthersTypes ==
  ASSUME Live, LiveTypes, UNCHANGED <<connectionVars, clientVars>>, OtherClients
  PROVE  LiveTypes'
<1> USE DEF LiveTypes
<1>1. PICK c \in Others : Join(c) \/ Leave(c) \/ \E op \in {"START_GAME", "INIT_PLAYER"} : Push(c, op)
  BY DEF OtherClients
<1>2. CASE Join(c) \/ Leave(c)
  <2>1. GameTypes' /\ LoopTypes' /\ QueueTypes'
    BY <1>1, <1>2 DEF Join, Leave, gameVars, loopVars, connectionVars, GameTypes, LoopTypes, QueueTypes
  <2> QED
    BY <2>1 DEF clientVars
<1>3. CASE \E op \in {"START_GAME", "INIT_PLAYER"} : Push(c, op)
  <2>1. PICK op \in {"START_GAME", "INIT_PLAYER"} : Push(c, op)
    BY <1>3
  <2>2. [client |-> c, op |-> op, arg |-> 0] \in Commands
    BY DEF Commands, Players
  <2>3. queue' \in Seq(Commands)
    BY <2>1, <2>2 DEF Push, QueueTypes
  <2>4. GameTypes' /\ LoopTypes' /\ QueueTypes'
    BY <2>1, <2>3 DEF Push, gameVars, loopVars, connectionVars, GameTypes, LoopTypes, QueueTypes
  <2> QED
    BY <2>4 DEF clientVars
<1> QED
  BY <1>1, <1>2, <1>3

(* What ServerSender and ClientSender move is what the other side reads.   *)
LEMMA SenderTypes ==
  ASSUME Live, LiveTypes, UNCHANGED clientVars, ServerSender \/ ClientSender
  PROVE  LiveTypes'
<1> USE DEF LiveTypes
<1>1. CASE ServerSender
  <2>1. Head(out) \in GameMessages /\ Tail(out) \in Seq(GameMessages)
    BY <1>1 DEF ServerSender, QueueTypes
  <2>2. Received[Written[Head(out)]].msgs = <<Head(out)>>
    <3>1. Received[Written[Head(out)]] = [rest |-> <<>>, msgs |-> <<Head(out)>>, threw |-> FALSE]
      BY <2>1, WireAssumption
    <3> QED
      BY <3>1
  <2>3. inbox' \in Seq(GameMessages)
    BY <1>1, <2>1, <2>2 DEF ServerSender, QueueTypes
  <2>4. GameTypes' /\ LoopTypes'
    BY <1>1 DEF ServerSender, gameVars, loopVars, GameTypes, LoopTypes
  <2>5. playing' \in BOOLEAN
    BY <1>1 DEF ServerSender, QueueTypes, StartsPlaying
  <2>6. QueueTypes'
    BY <1>1, <2>1, <2>3, <2>5 DEF ServerSender, loopVars, QueueTypes
  <2> QED
    BY <2>4, <2>6 DEF clientVars
<1>2. CASE ClientSender
  <2>1. Head(senderQueue) \in UserMessages /\ Tail(senderQueue) \in Seq(UserMessages)
    BY <1>2 DEF ClientSender, QueueTypes
  <2>2. \A m \in UserMessages : Asked[m] \in Commands
    <3>1. \A m \in UserMessages :
            Asked[m] = [client |-> Me, op |-> m.type, arg |-> Get(m, "upgrade")]
      BY WireAssumption
    <3>2. \A m \in UserMessages : m.type \in {"START_GAME", "UPGRADE_REQUEST"}
      BY DEF UserMessages
    <3>3. \A m \in UserMessages : Get(m, "upgrade") \in {0} \cup Upgrades
      BY DEF UserMessages, Get
    <3>4. Me \in Players
      BY DEF Players
    <3> TAKE m \in UserMessages
    <3>5. Asked[m] = [client |-> Me, op |-> m.type, arg |-> Get(m, "upgrade")]
      BY <3>1
    <3> QED
      BY <3>2, <3>3, <3>4, <3>5 DEF Commands
  <2>3. queue' \in Seq(Commands)
    BY <1>2, <2>1, <2>2 DEF ClientSender, QueueTypes
  <2>4. GameTypes' /\ LoopTypes'
    BY <1>2 DEF ClientSender, gameVars, loopVars, GameTypes, LoopTypes
  <2>5. QueueTypes'
    BY <1>2, <2>1, <2>3 DEF ClientSender, loopVars, QueueTypes
  <2> QED
    BY <2>4, <2>5 DEF clientVars
<1> QED
  BY <1>1, <1>2

(* A message of the game has no field that was not written.                *)
LEMMA SettledSame ==
  ASSUME NEW m \in GameMessages, NEW s \in Settled(m)
  PROVE  s = m
<1>1. m = [f \in DOMAIN m |-> m[f]]
  BY DEF GameMessages
<1>2. \A f \in DOMAIN m : m[f] # Junk
  BY ClientAssumption
<1>3. PICK v \in JunkValues : s = [f \in DOMAIN m |-> IF m[f] = Junk THEN v ELSE m[f]]
  BY DEF Settled
<1>4. s = [f \in DOMAIN m |-> m[f]]
  BY <1>2, <1>3
<1> QED
  BY <1>1, <1>4

(* The head of the inbox is handled, as it was sent.                       *)
LEMMA Handled ==
  ASSUME Live, LiveTypes, HandleMessage
  PROVE  /\ inbox # <<>> /\ Head(inbox) \in GameMessages /\ inbox' = Tail(inbox)
         /\ Tail(inbox) \in Seq(GameMessages)
         /\ window' = HandleServerMessage(window, Head(inbox))
         /\ UNCHANGED <<feedVars, playing, stream, receiver, senderQueue, client>>
<1>1. inbox # <<>> /\ inbox \in Seq(GameMessages)
  BY DEF HandleMessage, LiveTypes, QueueTypes
<1>2. Head(inbox) \in GameMessages /\ Tail(inbox) \in Seq(GameMessages)
  BY <1>1
<1>3. \E s \in Settled(Head(inbox)) : window' = HandleServerMessage(window, s)
  BY DEF HandleMessage
<1>4. window' = HandleServerMessage(window, Head(inbox))
  BY <1>2, <1>3, SettledSame
<1> QED
  BY <1>1, <1>2, <1>4 DEF HandleMessage

(* A frame after which the window still runs.                              *)
LEMMA Drew ==
  ASSUME Live, LiveTypes, Frame, client' = "window"
  PROVE  /\ inbox = <<>> /\ senderQueue' \in Seq(UserMessages)
         /\ \E input \in Inputs(window) : window' \in Drawn(input.window)
         /\ UNCHANGED <<feedVars, playing, stream, receiver, inbox, client>>
<1>1. PICK input \in Inputs(window) :
        /\ senderQueue' = senderQueue \o input.sends
        /\ \E w \in Drawn(input.window) :
             IF w.running THEN window' = w /\ UNCHANGED client
                          ELSE window' = Left /\ client' = "stopping"
  BY DEF Frame
<1>2. window' \in Drawn(input.window) /\ UNCHANGED client
  BY <1>1
<1>3. input.sends \in Seq(UserMessages)
  <2>1. \/ input.sends = <<>>
        \/ \E u \in Upgrades : input.sends = <<[type |-> "UPGRADE_REQUEST", upgrade |-> u]>>
        \/ input.sends = <<[type |-> "START_GAME"]>>
    <3> DEFINE closed == [window EXCEPT !.running = FALSE, !.quit = FALSE]
               started == [window EXCEPT !.showStart = FALSE]
               shop == IF window.showStart /\ window.shop THEN Upgrades ELSE {}
    <3>1. \/ input \in {Input(window, <<>>), Input(closed, <<>>)}
          \/ \E u \in shop : input = Input(window, <<[type |-> "UPGRADE_REQUEST", upgrade |-> u]>>)
          \/ input = Input(started, <<[type |-> "START_GAME"]>>)
      BY DEF Inputs
    <3>2. shop \subseteq Upgrades
      OBVIOUS
    <3> HIDE DEF closed, started, shop
    <3> QED
      BY <3>1, <3>2 DEF Input
  <2>2. /\ \A u \in Upgrades : [type |-> "UPGRADE_REQUEST", upgrade |-> u] \in UserMessages
        /\ [type |-> "START_GAME"] \in UserMessages
    BY DEF UserMessages
  <2>3. <<>> \in Seq(UserMessages) /\ \A m \in UserMessages : <<m>> \in Seq(UserMessages)
    OBVIOUS
  <2> QED
    BY <2>1, <2>2, <2>3
<1>4. senderQueue' \in Seq(UserMessages)
  <2>1. senderQueue \in Seq(UserMessages)
    BY DEF LiveTypes, QueueTypes
  <2> QED
    BY <1>1, <1>3, <2>1
<1> QED
  BY <1>2, <1>4 DEF Frame

LEMMA WindowTypes ==
  ASSUME Live, LiveTypes, HandleMessage \/ (Frame /\ client' = "window")
  PROVE  LiveTypes'
<1>1. CASE HandleMessage
  <2>1. window \in Windows
    BY DEF LiveTypes
  <2>2. window' \in Windows
    BY <1>1, <2>1, Handled, MessageHandled
  <2>3. GameTypes' /\ LoopTypes' /\ QueueTypes'
    BY <1>1, Handled DEF LiveTypes, GameTypes, LoopTypes, QueueTypes, feedVars, gameVars, loopVars
  <2> QED
    BY <2>2, <2>3 DEF LiveTypes
<1>2. CASE Frame /\ client' = "window"
  <2>1. window \in Windows
    BY DEF LiveTypes
  <2>2. window' \in Windows
    BY <1>2, <2>1, Drew, FrameShown
  <2>3. GameTypes' /\ LoopTypes' /\ QueueTypes'
    BY <1>2, Drew DEF LiveTypes, GameTypes, LoopTypes, QueueTypes, feedVars, gameVars, loopVars
  <2> QED
    BY <2>2, <2>3 DEF LiveTypes
<1> QED
  BY <1>1, <1>2

(* The steps after which server and window both live: those of the game,   *)
(* of the two sender threads and of the window.                            *)
LiveStep ==
  \/ (GameThread \/ OtherClients) /\ UNCHANGED <<connectionVars, clientVars>>
  \/ (ServerSender \/ ClientSender) /\ UNCHANGED clientVars
  \/ HandleMessage
  \/ Frame /\ client' = "window"

LEMMA OneStep ==
  ASSUME LiveTypes, Live, Live', [ClientNext]_allVars
  PROVE  LiveStep \/ UNCHANGED allVars
<1>1. client = "window" /\ client' = "window" /\ phase # "dead" /\ phase' # "dead" /\ stream = <<>>
  BY DEF Live, Dead, LiveTypes, QueueTypes
<1>2. ~ClientReceiver /\ ~EndOfFile /\ ~Die /\ ~LeaveWindow
  BY <1>1 DEF ClientReceiver, EndOfFile, Die, LeaveWindow, Dead
<1>3. ~ReceiverWoken /\ ~ReceiverStops /\ ~ClientJoins /\ ~Over
  BY <1>1 DEF ReceiverWoken, ReceiverStops, ClientJoins, Over
<1> QED
  BY <1>1, <1>2, <1>3 DEF ClientNext, Server, ClientThreads, Window, LiveStep

(* What has ended stays ended.                                             *)
LEMMA NoReturn ==
  ASSUME TypeInv, [ClientNext]_allVars
  PROVE  /\ Dead => Dead' /\ at' = "top"
         /\ client' = "window" => client = "window"
<1>1. client' = "window" => client = "window"
  <2>1. CASE Server /\ UNCHANGED <<connectionVars, clientVars>>
    BY <2>1 DEF Server
  <2>2. CASE (ClientThreads \/ Die) /\ UNCHANGED clientVars
    BY <2>2 DEF clientVars
  <2>3. CASE Window
    BY <2>3 DEF Window, HandleMessage, Frame, LeaveWindow, ReceiverWoken, ReceiverStops,
               ClientJoins, clientVars
  <2>4. CASE Over \/ UNCHANGED allVars
    BY <2>4 DEF Over, allVars, clientVars
  <2> QED
    BY <2>1, <2>2, <2>3, <2>4 DEF ClientNext
<1>2. ASSUME Dead
      PROVE  Dead' /\ at' = "top"
  <2>1. at = "top" /\ phase = "dead"
    BY <1>2 DEF TypeInv, Dead
  <2>2. CASE Server /\ UNCHANGED <<connectionVars, clientVars>>
    <3>1. ~EmptyQueue /\ ~LobbyEnds /\ ~UpgradeLogic /\ ~RaceFrame
      BY <2>1 DEF EmptyQueue, LobbyEnds, UpgradeLogic, CmdsDone, Running, RaceFrame,
                  CheckPlayersStatus, WorldStep, FrameEnds, RaceEnds, DropCar, CarHitCheckpoint,
                  CarHit, WorldEvent
    <3>2. ~LobbyCmd
      BY <2>1 DEF LobbyCmd, InitPlayer, StartGame, NotifyExisting, RequestUpgrade, SkipCmd,
                  Serve, NextCmd, Running
    <3>3. OtherClients
      BY <2>2, <3>1, <3>2 DEF Server, GameThread
    <3>4. UNCHANGED <<phase, at>>
      BY <3>3 DEF OtherClients, Join, Leave, Push, gameVars, loopVars
    <3> QED
      BY <2>1, <3>4 DEF Dead
  <2>3. CASE ClientThreads
    <3>1. UNCHANGED <<phase, at>>
      BY <2>1, <2>3 DEF ClientThreads, ServerSender, ClientReceiver, EndOfFile, ClientSender,
                  feedVars, gameVars, loopVars
    <3> QED
      BY <2>1, <3>1 DEF Dead
  <2>4. CASE Window \/ Over \/ UNCHANGED allVars
    <3>1. UNCHANGED feedVars
      BY <2>4 DEF Window, HandleMessage, Frame, LeaveWindow, ReceiverWoken, ReceiverStops,
                 ClientJoins, Over, allVars
    <3> QED
      BY <2>1, <3>1 DEF Dead, feedVars, gameVars, loopVars
  <2> QED
    BY <1>2, <2>2, <2>3, <2>4 DEF ClientNext, Die
<1> QED
  BY <1>1, <1>2

LEMMA StepTypes ==
  ASSUME Live, LiveTypes, LiveStep
  PROVE  LiveTypes'
<1>1. CASE (GameThread \/ OtherClients) /\ UNCHANGED <<connectionVars, clientVars>>
  <2>1. Others \subseteq Players /\ Me \in Players
    BY DEF Players
  <2>2. CASE LobbyCmd
    BY <1>1, <2>1, <2>2, InitPlayerTypes, RequestUpgradeTypes, LobbyTypes DEF LobbyCmd
  <2>3. CASE RaceFrame
    BY <1>1, <2>1, <2>3, RaceLoopTypes, RaceEndsTypes, DropCarTypes, HitTypes DEF RaceFrame
  <2> QED
    BY <1>1, <2>1, <2>2, <2>3, LobbyTypes, OthersTypes DEF GameThread
<1> QED
  BY <1>1, SenderTypes, WindowTypes DEF LiveStep

LEMMA InitTypes ==
  ASSUME ClientInit
  PROVE  Live /\ LiveTypes
<1>1. Live
  BY DEF ClientInit, FeedInit, Live, Dead
<1>2. GameTypes
  <2>1. PICK there \in SUBSET registry : cars = [c \in there |-> NewCar]
    BY DEF ClientInit, FeedInit
  <2>2. registry \in SUBSET Others
    BY DEF ClientInit, FeedInit
  <2>3. cars \in [there -> CarStates] /\ there \in SUBSET Players
    BY <2>1, <2>2, NewCarTyped DEF Players
  <2>4. cars \in CarMaps(CarStates)
    BY <2>3, CarMapsIntro
  <2> QED
    BY <2>2, <2>4 DEF ClientInit, FeedInit, GameTypes
<1>3. LoopTypes
  BY DEF ClientInit, FeedInit, LoopTypes
<1>4. QueueTypes
  <2>1. [client |-> Me, op |-> "INIT_PLAYER", arg |-> 0] \in Commands
    BY DEF Commands, Players
  <2>2. <<>> \in Seq(Commands) /\ <<>> \in Seq(GameMessages) /\ <<>> \in Seq(UserMessages)
          /\ <<[client |-> Me, op |-> "INIT_PLAYER", arg |-> 0]>> \in Seq(Commands)
    BY <2>1
  <2> QED
    BY <2>2 DEF ClientInit, FeedInit, ConnectionInit, QueueTypes
<1>5. window \in Windows
  <2>1. <<>> \in [{} -> ShownCars]
    OBVIOUS
  <2>2. <<>> \in CarMaps(ShownCars)
    BY <2>1, CarMapsIntro
  <2>3. FirstWindow \in Windows
    BY <2>2 DEF FirstWindow, Windows, NOT_ACCESSIBLE
  <2> QED
    BY <2>3 DEF ClientInit
<1> QED
  BY <1>1, <1>2, <1>3, <1>4, <1>5 DEF LiveTypes

(* As long as server and window live, everything has its type, on both     *)
(* sides and on the way between them.                                      *)
THEOREM ClientTypes == ClientSpec => []TypeInv
<1>1. ClientInit => TypeInv
  BY InitTypes DEF TypeInv, Live
<1>2. TypeInv /\ [ClientNext]_allVars => TypeInv'
  <2> SUFFICES ASSUME TypeInv, [ClientNext]_allVars
               PROVE  TypeInv'
    OBVIOUS
  <2>1. Live' => LiveTypes'
    <3> SUFFICES ASSUME Live' PROVE LiveTypes'
      OBVIOUS
    <3>1. Live /\ LiveTypes
      BY NoReturn DEF Live, TypeInv
    <3>2. CASE LiveStep
      BY <3>1, <3>2, StepTypes
    <3>3. CASE UNCHANGED allVars
      BY <3>1, <3>3 DEF LiveTypes, GameTypes, LoopTypes, QueueTypes, allVars, feedVars, gameVars,
                  loopVars, connectionVars, clientVars
    <3> QED
      BY <3>1, <3>2, <3>3, OneStep
  <2>2. Dead' => at' = "top"
    <3>1. CASE Dead
      BY <3>1, NoReturn
    <3>2. CASE ~Dead /\ Dead'
      <4>1. CASE GameThread
        BY <3>2, <4>1 DEF Dead, GameThread, LobbyCmd, EmptyQueue, LobbyEnds, UpgradeLogic, RaceFrame,
             CheckPlayersStatus, WorldStep, FrameEnds, RaceEnds, DropCar, CarHitCheckpoint,
             CarHit, WorldEvent, InitPlayer, StartGame, NotifyExisting, RequestUpgrade, SkipCmd,
             Serve, NextCmd, gameVars
      <4>2. CASE OtherClients
        BY <3>2, <4>2 DEF Dead, OtherClients, Join, Leave, Push, gameVars
      <4>3. CASE ClientThreads
        BY <3>2, <4>3 DEF Dead, ClientThreads, ServerSender, ClientReceiver, EndOfFile,
             ClientSender, feedVars, gameVars
      <4>4. CASE Die
        BY <4>4 DEF Die
      <4>5. CASE Window \/ Over \/ UNCHANGED allVars
        BY <3>2, <4>5 DEF Dead, Window, HandleMessage, Frame, LeaveWindow, ReceiverWoken,
             ReceiverStops, ClientJoins, Over, allVars, feedVars, gameVars
      <4> QED
        BY <4>1, <4>2, <4>3, <4>4, <4>5 DEF ClientNext, Server
    <3> QED
      BY <3>1, <3>2
  <2> QED
    BY <2>1, <2>2 DEF TypeInv
<1> QED
  BY <1>1, <1>2, PTL DEF ClientSpec

-----------------------------------------------------------------------------
(***************************************************************************)
(* Before and after Me has its car.                                        *)
(***************************************************************************)

(* Where its INIT_PLAYER stands among commands.                            *)
MyInits(cmds) == {i \in DOMAIN cmds : cmds[i].client = Me /\ cmds[i].op = "INIT_PLAYER"}

(* It is the first command of the next iteration, or of this one: nothing  *)
(* of the game has been sent or shown yet.                                 *)
Waiting ==
  /\ phase = "lobby" /\ visiting = {}
  /\ out = <<>> /\ inbox = <<>> /\ ~HasCar(Me)
  /\ DOMAIN window.cars = {} /\ window.lastRaceNumber = 0
  /\ \A c \in DOMAIN cars : ~cars[c].spent
  /\ \/ at = "top" /\ MyInits(queue) = {1}
     \/ at = "cmds" /\ MyInits(drained) = {1} /\ MyInits(queue) = {}

(* It has been done; there is no second one.                               *)
Served == MyInits(drained) = {} /\ MyInits(queue) = {}

(* The cars that Me is still to be told of.                                *)
Telling == IF at = "cmds" THEN visiting ELSE {}

StageInv ==
  Live => /\ Waiting \/ Served
          /\ \A c \in Telling : ~cars[c].spent

LEMMA InitsOfTail ==
  ASSUME NEW cmds \in Seq(Commands), cmds # <<>>, MyInits(cmds) \subseteq {1}
  PROVE  MyInits(Tail(cmds)) = {}
<1>1. \A i \in DOMAIN Tail(cmds) : i + 1 \in DOMAIN cmds /\ i + 1 # 1 /\ Tail(cmds)[i] = cmds[i + 1]
  OBVIOUS
<1> QED
  BY <1>1 DEF MyInits

LEMMA InitsOfAppend ==
  ASSUME NEW cmds \in Seq(Commands), NEW cmd \in Commands,
         ~(cmd.client = Me /\ cmd.op = "INIT_PLAYER")
  PROVE  MyInits(Append(cmds, cmd)) = MyInits(cmds)
<1>1. /\ DOMAIN Append(cmds, cmd) = DOMAIN cmds \cup {Len(cmds) + 1}
      /\ Append(cmds, cmd)[Len(cmds) + 1] = cmd
      /\ \A i \in DOMAIN cmds : Append(cmds, cmd)[i] = cmds[i]
  OBVIOUS
<1> QED
  BY <1>1 DEF MyInits

LEMMA InitsOfNone == MyInits(<<>>) = {}
BY DEF MyInits

(* Steps of other clients and of Me's own commands on their way change     *)
(* nothing of the game and nothing of what is on its way to Me.            *)
LEMMA Aside ==
  ASSUME \/ OtherClients /\ UNCHANGED <<connectionVars, clientVars>>
         \/ ClientSender /\ UNCHANGED clientVars
  PROVE  UNCHANGED <<gameVars, loopVars, out, playing, inbox, clientVars>>
BY DEF OtherClients, Join, Leave, Push, ClientSender, connectionVars

(* They leave the queue with the INIT_PLAYER it had.                       *)
LEMMA AsideInits ==
  ASSUME LiveTypes,
         \/ OtherClients /\ UNCHANGED <<connectionVars, clientVars>>
         \/ ClientSender /\ UNCHANGED clientVars
  PROVE  MyInits(queue') = MyInits(queue)
<1> USE DEF LiveTypes
<1>0. queue \in Seq(Commands)
  BY DEF QueueTypes
<1>1. CASE OtherClients
  <2>1. PICK c \in Others : Join(c) \/ Leave(c) \/ \E op \in {"START_GAME", "INIT_PLAYER"} : Push(c, op)
    BY <1>1 DEF OtherClients
  <2>2. CASE Join(c) \/ Leave(c)
    BY <2>2 DEF Join, Leave
  <2>3. CASE \E op \in {"START_GAME", "INIT_PLAYER"} : Push(c, op)
    <3>1. PICK op \in {"START_GAME", "INIT_PLAYER"} : Push(c, op)
      BY <2>3
    <3>2. /\ [client |-> c, op |-> op, arg |-> 0] \in Commands /\ c # Me
          /\ queue' = Append(queue, [client |-> c, op |-> op, arg |-> 0])
      BY <3>1, PlayersAreNumbers DEF Push, Commands, Players
    <3> QED
      BY <1>0, <3>2, InitsOfAppend
  <2> QED
    BY <2>1, <2>2, <2>3
<1>2. CASE ClientSender
  <2>1. Head(senderQueue) \in UserMessages
    BY <1>2 DEF ClientSender, QueueTypes
  <2>2. Asked[Head(senderQueue)] =
          [client |-> Me, op |-> Head(senderQueue).type, arg |-> Get(Head(senderQueue), "upgrade")]
    BY <2>1, WireAssumption
  <2>3. Head(senderQueue).type \in {"START_GAME", "UPGRADE_REQUEST"}
          /\ Get(Head(senderQueue), "upgrade") \in {0} \cup Upgrades
    BY <2>1 DEF UserMessages, Get
  <2>4. Asked[Head(senderQueue)] \in Commands /\ Asked[Head(senderQueue)].op # "INIT_PLAYER"
    BY <2>2, <2>3 DEF Commands, Players
  <2> QED
    BY <1>0, <1>2, <2>4, InitsOfAppend DEF ClientSender
<1> QED
  BY <1>1, <1>2

LEMMA LobbyCmdStage ==
  ASSUME Live, LiveTypes, StageInv, LobbyCmd, UNCHANGED <<connectionVars, clientVars>>
  PROVE  Served' /\ \A c \in Telling' : ~cars'[c].spent
<1> USE DEF LiveTypes
<1>1. /\ at = "cmds" /\ at' = "cmds" /\ queue' = queue
      /\ \A c \in DOMAIN cars : cars[c] \in CarStates
  BY CarMapsElim DEF LobbyCmd, InitPlayer, StartGame, NotifyExisting, RequestUpgrade, SkipCmd, Serve,
     NextCmd, Running, GameTypes
<1>2. MyInits(queue) = {} /\ MyInits(drained) \subseteq {1}
  BY <1>1 DEF StageInv, Waiting, Served
<1>3. CASE \E c \in Players : NotifyExisting(c)
  <2>1. drained' = drained /\ cars' = cars /\ visiting' \subseteq visiting /\ visiting # {}
    BY <1>3 DEF NotifyExisting, gameVars
  <2>2. Served
    BY <2>1 DEF StageInv, Waiting
  <2> QED
    BY <1>1, <2>1, <2>2 DEF Served, StageInv, Telling
<1>4. CASE NextCmd
  <2>1. drained' = Tail(drained) /\ drained # <<>> /\ drained \in Seq(Commands) /\ visiting = {}
    BY <1>4 DEF NextCmd, QueueTypes
  <2>2. Served'
    BY <1>1, <1>2, <2>1, InitsOfTail DEF Served
  <2>3. CASE InitPlayer(Me)
    <3>1. Head(drained).op = "INIT_PLAYER" /\ Head(drained).client = Me
      BY <2>3 DEF InitPlayer, Serve
    <3>2. 1 \in MyInits(drained)
      BY <2>1, <3>1 DEF MyInits
    <3>3. \A c \in DOMAIN cars : ~cars[c].spent
      BY <3>2 DEF StageInv, Waiting, Served
    <3>4. cars' = WithCar(Me) /\ visiting' = DOMAIN cars \ {Me}
      BY <2>3 DEF InitPlayer
    <3>5. \A c \in visiting' : ~cars'[c].spent
      BY <3>3, <3>4 DEF WithCar, HasCar
    <3> QED
      BY <2>2, <3>5, <1>1 DEF Telling
  <2>4. CASE ~InitPlayer(Me)
    <3>1. visiting' = visiting
      BY <1>4, <2>4, <2>1 DEF LobbyCmd, InitPlayer, StartGame, NotifyExisting, RequestUpgrade, SkipCmd
    <3> QED
      BY <2>1, <2>2, <3>1 DEF Telling
  <2> QED
    BY <2>3, <2>4
<1> QED
  BY <1>3, <1>4 DEF LobbyCmd, InitPlayer, StartGame, RequestUpgrade, SkipCmd, Serve

LEMMA StepStage ==
  ASSUME Live, LiveTypes, StageInv, LiveStep
  PROVE  (Waiting \/ Served)' /\ \A c \in Telling' : ~cars'[c].spent
<1> USE DEF LiveTypes
<1>1. CASE LobbyCmd /\ UNCHANGED <<connectionVars, clientVars>>
  BY <1>1, LobbyCmdStage
<1>2. CASE EmptyQueue /\ UNCHANGED <<connectionVars, clientVars>>
  <2>1. /\ at = "top" /\ at' = "cmds" /\ drained = <<>> /\ drained' = queue /\ queue' = <<>>
        /\ visiting = {} /\ UNCHANGED <<gameVars, out, visiting, inbox, window>>
    BY <1>2 DEF EmptyQueue, Running, LoopTypes, connectionVars, clientVars
  <2>2. \A c \in Telling' : ~cars'[c].spent
    BY <2>1 DEF Telling
  <2>3. MyInits(queue') = {} /\ MyInits(drained') = MyInits(queue)
    BY <2>1, InitsOfNone
  <2>4. CASE Waiting
    <3>1. Waiting'
      BY <2>1, <2>3, <2>4 DEF Waiting, HasCar, gameVars
    <3> QED
      BY <2>2, <3>1
  <2>5. CASE Served
    BY <2>2, <2>3, <2>5 DEF Served
  <2> QED
    BY <2>4, <2>5 DEF StageInv
<1>3. CASE (LobbyEnds \/ UpgradeLogic) /\ UNCHANGED <<connectionVars, clientVars>>
  <2>1. at = "cmds" /\ at' = "top" /\ drained = <<>> /\ UNCHANGED <<drained, queue>>
    BY <1>3 DEF LobbyEnds, UpgradeLogic, CmdsDone, Running
  <2>2. ~Waiting
    BY <2>1, InitsOfNone DEF Waiting
  <2> QED
    BY <2>1, <2>2 DEF StageInv, Served, Telling
<1>4. CASE RaceFrame /\ UNCHANGED <<connectionVars, clientVars>>
  <2>1. /\ phase = "race" /\ at' # "cmds" /\ drained = <<>> /\ drained' = drained
        /\ queue' \in {queue, <<>>}
    BY <1>4 DEF RaceFrame, CheckPlayersStatus, WorldStep, FrameEnds, RaceEnds, DropCar,
       CarHitCheckpoint, CarHit, WorldEvent, Running, LoopTypes, loopVars
  <2>2. Served
    BY <2>1 DEF StageInv, Waiting
  <2>3. Served'
    BY <2>1, <2>2, InitsOfNone DEF Served
  <2> QED
    BY <2>1, <2>3 DEF Telling
<1>5. CASE \/ OtherClients /\ UNCHANGED <<connectionVars, clientVars>>
           \/ ClientSender /\ UNCHANGED clientVars
  <2>1. MyInits(queue') = MyInits(queue)
    BY <1>5, AsideInits
  <2>2. UNCHANGED <<gameVars, loopVars, out, playing, inbox, clientVars>>
    BY <1>5, Aside
  <2>3. \A c \in Telling' : ~cars'[c].spent
    BY <2>2 DEF StageInv, Telling, gameVars, loopVars
  <2>4. Waiting => Waiting'
    BY <2>1, <2>2 DEF Waiting, HasCar, gameVars, loopVars, clientVars
  <2>5. Served => Served'
    BY <2>1, <2>2 DEF Served, loopVars
  <2> QED
    BY <2>3, <2>4, <2>5 DEF StageInv
<1>6. CASE ServerSender /\ UNCHANGED clientVars
  <2>1. out # <<>> /\ UNCHANGED <<gameVars, loopVars, queue>>
    BY <1>6 DEF ServerSender
  <2> QED
    BY <2>1 DEF StageInv, Waiting, Served, Telling, gameVars, loopVars
<1>7. CASE HandleMessage
  <2>1. inbox # <<>> /\ UNCHANGED <<gameVars, loopVars, queue>>
    BY <1>7 DEF HandleMessage, feedVars
  <2> QED
    BY <2>1 DEF StageInv, Waiting, Served, Telling, gameVars, loopVars
<1>8. CASE Frame /\ client' = "window"
  <2>1. UNCHANGED <<gameVars, loopVars, out, queue, inbox>>
    BY <1>8 DEF Frame, feedVars
  <2>2. Shown(window') = Shown(window) /\ window'.lastRaceNumber = window.lastRaceNumber
    BY <1>8, Drew, FrameShown
  <2>3. DOMAIN window'.cars = DOMAIN window.cars
    BY <2>2 DEF Shown
  <2>4. Waiting => Waiting'
    BY <2>1, <2>2, <2>3 DEF Waiting, HasCar, gameVars, loopVars
  <2> QED
    BY <2>1, <2>4 DEF StageInv, Served, Telling, gameVars, loopVars
<1> QED
  BY <1>1, <1>2, <1>3, <1>4, <1>5, <1>6, <1>7, <1>8 DEF LiveStep, GameThread

(* What a step that leaves both sides alive may be.                        *)
LEMMA LiveSteps ==
  ASSUME TypeInv, [ClientNext]_allVars, Live'
  PROVE  Live /\ LiveTypes /\ (LiveStep \/ UNCHANGED allVars)
<1>1. Live /\ LiveTypes
  BY NoReturn DEF Live, TypeInv
<1> QED
  BY <1>1, OneStep

(* Me is served once, and not before anything else is sent to it.          *)
THEOREM ServedOnce == ClientSpec => []StageInv
<1>1. ClientInit => StageInv
  <2> SUFFICES ASSUME ClientInit PROVE StageInv
    OBVIOUS
  <2>1. PICK there \in SUBSET registry : cars = [c \in there |-> NewCar]
    BY DEF ClientInit, FeedInit
  <2>2. Me \notin there /\ \A c \in DOMAIN cars : ~cars[c].spent
    BY <2>1, PlayersAreNumbers DEF ClientInit, FeedInit, NewCar
  <2>3. MyInits(queue) = {1}
    <3>1. queue = <<[client |-> Me, op |-> "INIT_PLAYER", arg |-> 0]>>
      BY DEF ClientInit, FeedInit
    <3> QED
      BY <3>1 DEF MyInits
  <2> QED
    BY <2>1, <2>2, <2>3 DEF ClientInit, FeedInit, ConnectionInit, FirstWindow, StageInv, Waiting,
       HasCar, Telling
<1>2. TypeInv /\ StageInv /\ [ClientNext]_allVars => StageInv'
  <2> SUFFICES ASSUME TypeInv, StageInv, [ClientNext]_allVars, Live'
               PROVE  (Waiting \/ Served)' /\ \A c \in Telling' : ~cars'[c].spent
    BY DEF StageInv
  <2>1. CASE UNCHANGED allVars
    BY <2>1, LiveSteps DEF StageInv, Waiting, Served, Telling, HasCar, allVars, feedVars, gameVars,
       loopVars, connectionVars, clientVars
  <2> QED
    BY <2>1, LiveSteps, StepStage
<1> QED
  BY <1>1, <1>2, ClientTypes, PTL DEF ClientSpec

-----------------------------------------------------------------------------

(***************************************************************************)
(* The messages on their way.                                              *)
(***************************************************************************)

(* Those that wait for the window, and behind them those that wait for the *)
(* Sender.                                                                 *)
Pending == inbox \o out

LEMMA JoinSent ==
  ASSUME NEW S, NEW s \in Seq(S), NEW t \in Seq(S), NEW m \in S
  PROVE  /\ Append(t, m) \in Seq(S) /\ s \o t \in Seq(S)
         /\ s \o Append(t, m) = Append(s \o t, m)
OBVIOUS

LEMMA JoinMoved ==
  ASSUME NEW S, NEW s \in Seq(S), NEW t \in Seq(S), t # <<>>
  PROVE  (s \o <<Head(t)>>) \o Tail(t) = s \o t
<1>1. (s \o <<Head(t)>>) \o Tail(t) = s \o (<<Head(t)>> \o Tail(t))
  OBVIOUS
<1>2. <<Head(t)>> \o Tail(t) = t
  OBVIOUS
<1> QED
  BY <1>1, <1>2

LEMMA JoinTaken ==
  ASSUME NEW S, NEW s \in Seq(S), NEW t \in Seq(S), s # <<>>
  PROVE  Tail(s) \o t = Tail(s \o t) /\ Head(s) = Head(s \o t) /\ s \o t # <<>>
OBVIOUS

(* Handling the messages one after the other leads from a view to another. *)
Leads(v, msgs, w) ==
  \E t \in [0..Len(msgs) -> Views] :
    /\ t[0] = v /\ t[Len(msgs)] = w
    /\ \A i \in 1..Len(msgs) : t[i] = ViewAfter(t[i - 1], msgs[i])

LEMMA ViewAfterTyped ==
  ASSUME NEW v \in Views, NEW m \in GameMessages
  PROVE  ViewAfter(v, m) \in Views
<1>1. /\ v.mine \in {NOT_ACCESSIBLE} \cup Players /\ v.cars \in SUBSET Players
      /\ v.wrecks \in SUBSET Players /\ v.upgrades \in 0..MaxShown /\ 0 \in 0..MaxShown
  BY ClientAssumption DEF Views
<1>2. \A a \in {NOT_ACCESSIBLE} \cup Players, b \in SUBSET Players, c \in SUBSET Players, d \in 0..MaxShown :
        View(a, b, c, d) \in Views
  BY DEF View, Views
<1>3. CASE m.type = "INIT_PLAYER"
  BY <1>1, <1>2, <1>3, MessageFields DEF ViewAfter
<1>4. CASE m.type = "NEW_PLAYER"
  BY <1>1, <1>2, <1>4, MessageFields DEF ViewAfter
<1>5. CASE m.type = "COLLISION"
  BY <1>1, <1>2, <1>5, MessageFields DEF ViewAfter
<1>6. CASE m.type = "CLIENT_DISCONNECT"
  BY <1>1, <1>2, <1>6, MessageFields DEF ViewAfter
<1>7. CASE m.type = "UPGRADE_SEND"
  <2>1. v.upgrades # MaxShown => v.upgrades + 1 \in 0..MaxShown
    BY <1>1, ClientAssumption
  <2> QED
    BY <1>1, <1>2, <1>7, <2>1 DEF ViewAfter
<1> QED
  BY <1>3, <1>4, <1>5, <1>6, <1>7 DEF ViewAfter

LEMMA LeadsNowhere ==
  ASSUME NEW v \in Views, NEW w
  PROVE  Leads(v, <<>>, w) <=> v = w
<1>1. Leads(v, <<>>, w) => v = w
  BY DEF Leads
<1>2. Leads(v, <<>>, v)
  <2> DEFINE t == [i \in 0..0 |-> v]
  <2>1. Len(<<>>) = 0 /\ t \in [0..0 -> Views] /\ t[0] = v /\ 1..0 = {}
    OBVIOUS
  <2> HIDE DEF t
  <2> QED
    BY <2>1 DEF Leads
<1> QED
  BY <1>1, <1>2

LEMMA LeadsOn ==
  ASSUME NEW msgs \in Seq(GameMessages), NEW v, NEW w, Leads(v, msgs, w), NEW m \in GameMessages
  PROVE  Leads(v, Append(msgs, m), ViewAfter(w, m))
<1> DEFINE n == Len(msgs)
<1>1. PICK t \in [0..n -> Views] :
        t[0] = v /\ t[n] = w /\ \A i \in 1..n : t[i] = ViewAfter(t[i - 1], msgs[i])
  BY DEF Leads
<1>2. /\ n \in Nat /\ Len(Append(msgs, m)) = n + 1 /\ Append(msgs, m)[n + 1] = m
      /\ \A i \in 1..n : Append(msgs, m)[i] = msgs[i]
  OBVIOUS
<1> HIDE DEF n
<1>3. w \in Views /\ ViewAfter(w, m) \in Views
  BY <1>1, <1>2, ViewAfterTyped
<1> DEFINE s == [i \in 0..(n + 1) |-> IF i = n + 1 THEN ViewAfter(w, m) ELSE t[i]]
<1>4. /\ s \in [0..(n + 1) -> Views] /\ s[n + 1] = ViewAfter(w, m)
      /\ \A i \in 0..n : s[i] = t[i]
  BY <1>1, <1>2, <1>3
<1> HIDE DEF s
<1>5. \A i \in 1..(n + 1) : s[i] = ViewAfter(s[i - 1], Append(msgs, m)[i])
  <2> TAKE i \in 1..(n + 1)
  <2>1. CASE i = n + 1
    <3>1. s[i - 1] = w
      BY <1>1, <1>2, <1>4, <2>1
    <3> QED
      BY <1>2, <1>4, <2>1, <3>1
  <2>2. CASE i # n + 1
    <3>1. i \in 1..n /\ i \in 0..n /\ i - 1 \in 0..n
      BY <1>2, <2>2
    <3> QED
      BY <1>1, <1>2, <1>4, <3>1
  <2> QED
    BY <2>1, <2>2
<1>6. s[0] = v
  BY <1>1, <1>2, <1>4
<1> QED
  BY <1>2, <1>4, <1>5, <1>6 DEF Leads

LEMMA LeadsAfterFirst ==
  ASSUME NEW msgs \in Seq(GameMessages), msgs # <<>>, NEW v, NEW w, Leads(v, msgs, w)
  PROVE  Leads(ViewAfter(v, Head(msgs)), Tail(msgs), w)
<1> DEFINE n == Len(msgs)
<1>1. PICK t \in [0..n -> Views] :
        t[0] = v /\ t[n] = w /\ \A i \in 1..n : t[i] = ViewAfter(t[i - 1], msgs[i])
  BY DEF Leads
<1>2. /\ n \in Nat /\ n > 0 /\ Len(Tail(msgs)) = n - 1 /\ Head(msgs) = msgs[1]
      /\ \A i \in 1..(n - 1) : Tail(msgs)[i] = msgs[i + 1]
  OBVIOUS
<1> HIDE DEF n
<1> DEFINE s == [i \in 0..(n - 1) |-> t[i + 1]]
<1>3. \A i \in 0..(n - 1) : s[i] = t[i + 1] /\ i + 1 \in 1..n /\ i + 1 \in 0..n
  BY <1>2
<1>4. s \in [0..(n - 1) -> Views]
  BY <1>1, <1>3
<1> HIDE DEF s
<1>5. s[0] = ViewAfter(v, Head(msgs)) /\ s[n - 1] = w
  BY <1>1, <1>2, <1>3
<1>6. \A i \in 1..(n - 1) : s[i] = ViewAfter(s[i - 1], Tail(msgs)[i])
  <2> TAKE i \in 1..(n - 1)
  <2>1. s[i] = t[i + 1] /\ s[i - 1] = t[i] /\ i + 1 \in 1..n /\ (i + 1) - 1 = i
    BY <1>2, <1>3
  <2>2. t[i + 1] = ViewAfter(t[i], msgs[i + 1])
    BY <1>1, <2>1
  <2> QED
    BY <1>2, <2>1, <2>2
<1> QED
  BY <1>2, <1>4, <1>5, <1>6 DEF Leads

(* What Me would see if nothing were on its way.                           *)
Truth ==
  View(Me, DOMAIN cars \ Telling, {c \in DOMAIN cars \ Telling : cars[c].spent},
       IF cars[Me].bought < MaxShown THEN cars[Me].bought ELSE MaxShown)

(* A step of the game says nothing and changes nothing of that, or it      *)
(* sends the message that tells the change.                                *)
Telltale ==
  \/ out' = out /\ Truth' = Truth
  \/ \E m \in GameMessages : out' = Append(out, m) /\ Truth' = ViewAfter(Truth, m)

LEMMA TruthFields ==
  ASSUME NEW m \in GameMessages
  PROVE  /\ m.type \in {"STARTING_GAME", "UPGRADE_LOGIC", "CURRENT_INFO", "STATS", "CHECKPOINT_HIT"} =>
              ViewAfter(Truth, m) = Truth
         /\ Truth.mine = Me /\ Truth.cars = DOMAIN cars \ Telling
         /\ Truth.wrecks = {c \in DOMAIN cars \ Telling : cars[c].spent}
         /\ Truth.upgrades = IF cars[Me].bought < MaxShown THEN cars[Me].bought ELSE MaxShown
BY DEF ViewAfter, Truth, View

(* The same cars with the same history.                                    *)
LEMMA SameTruth ==
  ASSUME HasCar(Me), DOMAIN cars' = DOMAIN cars, Telling' = Telling,
         \A c \in DOMAIN cars : cars'[c].spent = cars[c].spent,
         cars'[Me].bought = cars[Me].bought
  PROVE  Truth' = Truth
<1>1. {c \in DOMAIN cars' \ Telling' : cars'[c].spent} = {c \in DOMAIN cars \ Telling : cars[c].spent}
  OBVIOUS
<1> QED
  BY <1>1 DEF Truth

(* The car of another player is made: NEW_PLAYER.                          *)
LEMMA InitPlayerTold ==
  ASSUME LiveTypes, HasCar(Me), NEW c \in Players, c # Me, InitPlayer(c)
  PROVE  Telltale
<1> DEFINE m == [type |-> "NEW_PLAYER", id |-> c]
<1>1. m \in GameMessages /\ out' = Append(out, m)
  BY MessageTypes DEF InitPlayer, SendTo
<1>2. /\ visiting = {} /\ visiting' = {} /\ cars' = WithCar(c)
  BY DEF InitPlayer, Serve, NextCmd
<1>3. Telling = {} /\ Telling' = {}
  BY <1>2 DEF Telling
<1>4. /\ DOMAIN cars' = DOMAIN cars \cup {c}
      /\ \A d \in DOMAIN cars : cars'[d] = cars[d]
      /\ c \notin DOMAIN cars => ~cars'[c].spent
  BY <1>2 DEF WithCar, HasCar, NewCar
<1>5. {d \in DOMAIN cars' : cars'[d].spent} = {d \in DOMAIN cars : cars[d].spent}
  BY <1>4
<1>6. cars'[Me].bought = cars[Me].bought
  BY <1>4 DEF HasCar
<1>7. Truth' = View(Me, DOMAIN cars \cup {c}, {d \in DOMAIN cars : cars[d].spent},
                    IF cars[Me].bought < MaxShown THEN cars[Me].bought ELSE MaxShown)
  BY <1>3, <1>4, <1>5, <1>6 DEF Truth
<1>8. Truth' = ViewAfter(Truth, m)
  BY <1>3, <1>7 DEF ViewAfter, Truth, View
<1> QED
  BY <1>1, <1>8 DEF Telltale

LEMMA RequestUpgradeTold ==
  ASSUME LiveTypes, HasCar(Me), NEW c \in Players, NEW u \in Upgrades, RequestUpgrade(c, u)
  PROVE  Telltale
<1> DEFINE no == [type |-> "UPGRADE_SEND", upgrade |-> None, success |-> 0]
           yes == [type |-> "UPGRADE_SEND", upgrade |-> u, success |-> 1]
<1>1. no \in GameMessages /\ yes \in GameMessages
  BY MessageTypes
<1>2. /\ visiting = {} /\ visiting' = {} /\ c \in DOMAIN cars
      /\ \A d \in DOMAIN cars : cars[d] \in CarStates
  BY CarMapsElim DEF RequestUpgrade, Serve, NextCmd, Counts, HasCar, LiveTypes, GameTypes
<1>3. Telling = {} /\ Telling' = {}
  BY <1>2 DEF Telling
<1>4. CASE SendTo(c, no) /\ UNCHANGED cars
  <2>1. Truth' = Truth
    BY <1>3, <1>4 DEF Truth
  <2>2. ViewAfter(Truth, no) = Truth
    BY DEF ViewAfter
  <2> QED
    BY <1>1, <1>4, <2>1, <2>2 DEF Telltale, SendTo
<1>5. CASE /\ SendTo(c, yes)
           /\ cars' = [cars EXCEPT ![c].upgrades = cars[c].upgrades \cup {u},
                                   ![c].bought = cars[c].bought + 1]
  <2>1. /\ DOMAIN cars' = DOMAIN cars /\ \A d \in DOMAIN cars : cars'[d].spent = cars[d].spent
        /\ \A d \in DOMAIN cars : cars'[d].bought = IF d = c THEN cars[d].bought + 1 ELSE cars[d].bought
    BY <1>2, <1>5 DEF CarStates
  <2>2. CASE c # Me
    BY <1>3, <1>5, <2>1, <2>2, SameTruth DEF Telltale, SendTo, HasCar
  <2>3. CASE c = Me
    <3>1. out' = Append(out, yes)
      BY <1>5, <2>3 DEF SendTo
    <3>2. {d \in DOMAIN cars' : cars'[d].spent} = {d \in DOMAIN cars : cars[d].spent}
      BY <2>1
    <3> DEFINE b == cars[Me].bought
               shown == IF b < MaxShown THEN b ELSE MaxShown
    <3>3. cars'[Me].bought = b + 1 /\ b \in Nat
      BY <1>2, <2>1, <2>3, CarFields
    <3> HIDE DEF b
    <3>4. (IF b + 1 < MaxShown THEN b + 1 ELSE MaxShown) = IF shown # MaxShown THEN shown + 1 ELSE shown
      BY <3>3, ClientAssumption
    <3>5. Truth = View(Me, DOMAIN cars, {d \in DOMAIN cars : cars[d].spent}, shown)
      BY <1>3 DEF Truth, b
    <3>6. Truth' = View(Me, DOMAIN cars, {d \in DOMAIN cars : cars[d].spent},
                        IF b + 1 < MaxShown THEN b + 1 ELSE MaxShown)
      BY <1>3, <2>1, <3>2, <3>3 DEF Truth
    <3> HIDE DEF shown
    <3>7. ViewAfter(Truth, yes) = Truth'
      <4>1. Me \in DOMAIN cars
        BY DEF HasCar
      <4>2. ViewAfter(Truth, yes) = IF Truth.mine \in Truth.cars /\ Truth.upgrades # MaxShown
              THEN View(Truth.mine, Truth.cars, Truth.wrecks, Truth.upgrades + 1) ELSE Truth
        BY DEF ViewAfter
      <4> QED
        BY <3>4, <3>5, <3>6, <4>1, <4>2 DEF View
    <3> QED
      BY <1>1, <3>1, <3>7 DEF Telltale
  <2> QED
    BY <2>2, <2>3
<1> QED
  BY <1>4, <1>5 DEF RequestUpgrade

(* The loop that tells Me of the cars that were there.                     *)
LEMMA NotifyExistingTold ==
  ASSUME LiveTypes, StageInv, Live, HasCar(Me), NEW c \in Players, NotifyExisting(c)
  PROVE  Telltale
<1> DEFINE m == [type |-> "NEW_PLAYER", id |-> c]
<1>1. m \in GameMessages /\ out' = Append(out, m)
  BY MessageTypes DEF NotifyExisting, SendTo
<1>2. Telling = visiting /\ Telling' = visiting \ {c} /\ c \in visiting /\ cars' = cars /\ c \in DOMAIN cars
  BY DEF NotifyExisting, Running, Telling, gameVars, LiveTypes, LoopTypes
<1>3. ~cars[c].spent
  BY <1>2 DEF StageInv
<1>4. /\ DOMAIN cars' \ Telling' = (DOMAIN cars \ Telling) \cup {c}
      /\ {d \in DOMAIN cars' \ Telling' : cars'[d].spent} = {d \in DOMAIN cars \ Telling : cars[d].spent}
  BY <1>2, <1>3
<1>5. Truth' = ViewAfter(Truth, m)
  BY <1>2, <1>4 DEF Truth, ViewAfter, View
<1> QED
  BY <1>1, <1>5 DEF Telltale

LEMMA DropCarTold ==
  ASSUME LiveTypes, HasCar(Me), NEW c \in Others, DropCar(c)
  PROVE  Telltale
<1> DEFINE m == [type |-> "CLIENT_DISCONNECT", id |-> c]
<1>1. m \in GameMessages /\ out' = Append(out, m) /\ c # Me
  BY MessageTypes, PlayersAreNumbers DEF DropCar, Broadcast, SendTo, Players
<1>2. /\ Telling = {} /\ Telling' = {} /\ DOMAIN cars' = DOMAIN cars \ {c}
      /\ \A d \in DOMAIN cars' : cars'[d] = cars[d]
  BY DEF DropCar, Running, Telling
<1>3. /\ {d \in DOMAIN cars' : cars'[d].spent} = {d \in DOMAIN cars : cars[d].spent} \ {c}
      /\ cars'[Me].bought = cars[Me].bought
  BY <1>1, <1>2 DEF HasCar
<1>4. Truth' = ViewAfter(Truth, m)
  BY <1>1, <1>2, <1>3 DEF Truth, ViewAfter, View
<1> QED
  BY <1>1, <1>4 DEF Telltale

LEMMA CarHitTold ==
  ASSUME LiveTypes, HasCar(Me), NEW c \in Players, NEW damage \in Damages, CarHit(c, damage)
  PROVE  Telltale
<1> DEFINE h == Hundredths(cars'[c].health)
           m == [type |-> "COLLISION", id |-> c, health |-> h]
<1>1. /\ Telling = {} /\ Telling' = {} /\ c \in DOMAIN cars /\ damage \in Nat
      /\ \A d \in DOMAIN cars : cars[d] \in CarStates
      /\ cars' = [cars EXCEPT ![c] = Hurt(cars[c], damage)]
  BY CarMapsElim, FeedAssumption DEF CarHit, WorldEvent, Running, Telling, loopVars, LiveTypes, LoopTypes, GameTypes
<1>2. /\ DOMAIN cars' = DOMAIN cars /\ cars'[c] = Hurt(cars[c], damage)
      /\ \A d \in DOMAIN cars : d # c => cars'[d] = cars[d]
  BY <1>1
<1>3. /\ cars'[c].health \in 0..FullHealth /\ Hurt(cars[c], damage).bought = cars[c].bought
      /\ Hurt(cars[c], damage).spent <=> h <= 0 \/ cars[c].spent
  <2>1. cars'[c] \in CarStates /\ cars'[c].health \in 0..FullHealth
    BY <1>1, <1>2, HurtCar, CarFields
  <2>2. h \in Nat
    BY <2>1, HundredthsOf, FeedAssumption
  <2>3. /\ Hurt(cars[c], damage).bought = cars[c].bought
        /\ Hurt(cars[c], damage).spent <=> cars[c].spent \/ h = 0
    BY <1>1, <1>2, HurtCar
  <2> QED
    BY <2>1, <2>2, <2>3
<1>4. m \in GameMessages /\ out' = Append(out, m)
  BY <1>3, MessageTypes DEF CarHit, Broadcast, SendTo
<1>5. cars'[Me].bought = cars[Me].bought
  BY <1>2, <1>3 DEF HasCar
<1>6. {d \in DOMAIN cars' : cars'[d].spent} =
        IF h <= 0 THEN {d \in DOMAIN cars : cars[d].spent} \cup {c}
        ELSE {d \in DOMAIN cars : cars[d].spent}
  <2>1. \A d \in DOMAIN cars : cars'[d].spent <=> cars[d].spent \/ (d = c /\ h <= 0)
    BY <1>2, <1>3
  <2> QED
    BY <1>1, <1>2, <2>1
<1> HIDE DEF h
<1>7. Truth' = ViewAfter(Truth, m)
  BY <1>1, <1>2, <1>5, <1>6 DEF Truth, ViewAfter, View
<1> QED
  BY <1>4, <1>7 DEF Telltale

(* Every step of the game tells Me what it changes.                        *)
LEMMA GameTold ==
  ASSUME Live, LiveTypes, StageInv, HasCar(Me), GameThread
  PROVE  Telltale /\ HasCar(Me)'
<1> USE DEF HasCar
<1>0. \A c \in DOMAIN cars : cars[c] \in CarStates
  BY CarMapsElim DEF LiveTypes, GameTypes
<1>1. CASE \E c \in Players : InitPlayer(c)
  <2>1. PICK c \in Players : InitPlayer(c)
    BY <1>1
  <2>2. c # Me
    <3>1. /\ at = "cmds" /\ drained # <<>> /\ drained \in Seq(Commands)
          /\ Head(drained).client = c /\ Head(drained).op = "INIT_PLAYER"
      BY <2>1 DEF InitPlayer, Serve, NextCmd, Running, LiveTypes, QueueTypes
    <3>2. MyInits(drained) = {}
      BY DEF StageInv, Waiting, Served
    <3>3. 1 \in DOMAIN drained /\ drained[1] = Head(drained)
      BY <3>1
    <3> QED
      BY <3>1, <3>2, <3>3 DEF MyInits
  <2>3. Me \in DOMAIN cars'
    BY <2>1 DEF InitPlayer, WithCar
  <2> QED
    BY <2>1, <2>2, <2>3, InitPlayerTold
<1>2. CASE \E c \in Players, u \in Upgrades : RequestUpgrade(c, u)
  <2>1. PICK c \in Players, u \in Upgrades : RequestUpgrade(c, u)
    BY <1>2
  <2>2. DOMAIN cars' = DOMAIN cars
    BY <2>1 DEF RequestUpgrade
  <2> QED
    BY <2>1, <2>2, RequestUpgradeTold
<1>3. CASE \E c \in Players : NotifyExisting(c)
  BY <1>3, NotifyExistingTold DEF NotifyExisting, gameVars
<1>4. CASE \E c \in Others : DropCar(c)
  <2>1. PICK c \in Others : DropCar(c)
    BY <1>4
  <2>2. Me \in DOMAIN cars'
    BY <2>1, PlayersAreNumbers DEF DropCar
  <2> QED
    BY <2>1, <2>2, DropCarTold
<1>5. CASE \E c \in Players, damage \in Damages : CarHit(c, damage)
  <2>1. PICK c \in Players, damage \in Damages : CarHit(c, damage)
    BY <1>5
  <2>2. DOMAIN cars' = DOMAIN cars
    BY <2>1 DEF CarHit
  <2> QED
    BY <2>1, <2>2, CarHitTold
<1>6. CASE \E n \in 1..NumCheckpoints : CarHitCheckpoint(Me, n)
  <2>1. PICK n \in 1..NumCheckpoints : CarHitCheckpoint(Me, n)
    BY <1>6
  <2> DEFINE m == [type |-> "CHECKPOINT_HIT", id |-> Me, checkpoint |-> n]
  <2>2. m \in GameMessages /\ out' = Append(out, m) /\ cars' = [cars EXCEPT ![Me].checkpoint = n]
          /\ UNCHANGED loopVars
    BY <2>1, MessageTypes DEF CarHitCheckpoint, WorldEvent, SendTo, loopVars
  <2>3. /\ DOMAIN cars' = DOMAIN cars /\ Telling' = Telling
        /\ \A c \in DOMAIN cars : cars'[c].spent = cars[c].spent /\ cars'[c].bought = cars[c].bought
    BY <1>0, <2>2 DEF Telling, loopVars, CarStates
  <2>4. Truth' = Truth
    BY <2>3, SameTruth
  <2>5. ViewAfter(Truth, m) = Truth
    BY <2>2, TruthFields
  <2> QED
    BY <2>2, <2>3, <2>4, <2>5 DEF Telltale
<1>7. CASE RaceEnds
  <2>1. /\ DOMAIN cars' = DOMAIN cars /\ Telling = {} /\ Telling' = {}
        /\ \A c \in DOMAIN cars : cars'[c].spent = cars[c].spent /\ cars'[c].bought = cars[c].bought
    BY <1>7, <1>0 DEF RaceEnds, Running, Telling, NewCar
  <2>2. Truth' = Truth
    BY <2>1, SameTruth
  <2> DEFINE m == [type |-> "STATS", position |-> 1]
  <2>3. m \in GameMessages /\ (out' = out \/ out' = Append(out, m))
    BY <1>7, MessageTypes DEF RaceEnds, SendTo
  <2>4. ViewAfter(Truth, m) = Truth
    BY <2>3, TruthFields
  <2> QED
    BY <2>1, <2>2, <2>3, <2>4 DEF Telltale
<1>8. CASE FrameEnds
  <2>1. UNCHANGED cars /\ Telling = {} /\ Telling' = {}
    BY <1>8 DEF FrameEnds, Running, Telling, gameVars
  <2>2. Truth' = Truth
    BY <2>1, SameTruth
  <2> DEFINE m == [type |-> "CURRENT_INFO", race |-> raceIndex + 1, next |-> cars[Me].checkpoint + 1]
  <2>3. out' = out \/ (out' = Append(out, m) /\ m \in GameMessages)
    <3>1. CASE ~Finished(cars[Me])
      <4>1. cars[Me].checkpoint + 1 \in 0..NumCheckpoints /\ raceIndex + 1 \in 1..NumRaces
        BY <1>0, <3>1, CarFields, FeedAssumption DEF Finished, LiveTypes, GameTypes
      <4> QED
        BY <1>8, <3>1, <4>1, MessageTypes DEF FrameEnds, CurrentInfo, SendTo
    <3> QED
      BY <1>8, <3>1 DEF FrameEnds, CurrentInfo
  <2>4. m \in GameMessages => ViewAfter(Truth, m) = Truth
    BY TruthFields
  <2> QED
    BY <2>1, <2>2, <2>3, <2>4 DEF Telltale
<1>9. CASE (\E c \in Players : StartGame(c)) \/ UpgradeLogic
  <2>1. UNCHANGED <<cars, visiting>> /\ at = "cmds" /\ at' \in {"cmds", "top"} /\ visiting = {}
    BY <1>9 DEF StartGame, Serve, NextCmd, UpgradeLogic, CmdsDone, Running, gameVars
  <2>2. Telling = {} /\ Telling' = {}
    BY <2>1 DEF Telling
  <2>3. Truth' = Truth
    BY <2>1, <2>2, SameTruth
  <2>4. \E m \in GameMessages : out' = Append(out, m) /\ ViewAfter(Truth, m) = Truth
    <3>1. /\ [type |-> "STARTING_GAME"] \in GameMessages
          /\ [type |-> "UPGRADE_LOGIC", size |-> Cardinality(Upgrades)] \in GameMessages
      BY MessageTypes
    <3>2. /\ ViewAfter(Truth, [type |-> "STARTING_GAME"]) = Truth
          /\ ViewAfter(Truth, [type |-> "UPGRADE_LOGIC", size |-> Cardinality(Upgrades)]) = Truth
      BY <3>1, TruthFields
    <3>3. \/ out' = Append(out, [type |-> "STARTING_GAME"])
          \/ out' = Append(out, [type |-> "UPGRADE_LOGIC", size |-> Cardinality(Upgrades)])
      BY <1>9 DEF StartGame, UpgradeLogic, Broadcast, SendTo
    <3> QED
      BY <3>1, <3>2, <3>3
  <2> QED
    BY <2>1, <2>3, <2>4 DEF Telltale
<1>10. CASE EmptyQueue \/ SkipCmd \/ LobbyEnds \/ CheckPlayersStatus \/ WorldStep
  <2>1. UNCHANGED <<cars, out>> /\ Telling = {} /\ Telling' = {}
    BY <1>10 DEF EmptyQueue, SkipCmd, NextCmd, LobbyEnds, CmdsDone, CheckPlayersStatus, WorldStep,
       Running, Telling, gameVars, LiveTypes, LoopTypes
  <2>2. Truth' = Truth
    BY <2>1, SameTruth
  <2> QED
    BY <2>1, <2>2 DEF Telltale
<1> QED
  BY <1>1, <1>2, <1>3, <1>4, <1>5, <1>6, <1>7, <1>8, <1>9, <1>10 DEF GameThread, LobbyCmd, RaceFrame

(* Me gets its car from its INIT_PLAYER and from nothing else.             *)
LEMMA CarFromInit ==
  ASSUME ~HasCar(Me), HasCar(Me)', GameThread
  PROVE  InitPlayer(Me)
<1> USE DEF HasCar
<1>1. CASE LobbyCmd
  <2>1. \A c \in Players : InitPlayer(c) => c = Me
    BY DEF InitPlayer, WithCar
  <2>2. \A c \in Players, u \in Upgrades : ~RequestUpgrade(c, u)
    BY DEF RequestUpgrade
  <2> QED
    BY <1>1, <2>1, <2>2 DEF LobbyCmd, StartGame, NotifyExisting, SkipCmd, gameVars
<1>2. CASE RaceFrame
  <2>1. \A c \in Others : ~DropCar(c)
    BY DEF DropCar
  <2>2. \A c \in Players, damage \in Damages : ~CarHit(c, damage)
    BY DEF CarHit
  <2>3. \A n \in 1..NumCheckpoints : ~CarHitCheckpoint(Me, n)
    BY DEF CarHitCheckpoint
  <2>4. ~RaceEnds
    BY DEF RaceEnds
  <2> QED
    BY <1>2, <2>1, <2>2, <2>3, <2>4 DEF RaceFrame, CheckPlayersStatus, WorldStep, FrameEnds, gameVars
<1> QED
  BY <1>1, <1>2 DEF GameThread, EmptyQueue, LobbyEnds, UpgradeLogic, gameVars

(* What Me has been shown, and what is on its way to it, add up to the     *)
(* game; and the Sender lets it through.                                   *)
ToldInv ==
  Live /\ HasCar(Me) =>
    /\ playing \/ (out # <<>> /\ Head(out).type = "INIT_PLAYER")
    /\ Leads(Shown(window), Pending, Truth)

LEMMA FirstCarTold ==
  ASSUME Live, LiveTypes, StageInv, ~HasCar(Me), InitPlayer(Me),
         UNCHANGED <<connectionVars, clientVars>>
  PROVE  ToldInv'
<1> DEFINE m == [type |-> "INIT_PLAYER", id |-> Me]
<1>1. m \in GameMessages /\ out' = Append(out, m) /\ cars' = WithCar(Me)
        /\ visiting' = DOMAIN cars \ {Me} /\ at = "cmds" /\ at' = "cmds" /\ UNCHANGED <<inbox, window>>
  BY MessageTypes, PlayersAreNumbers
  DEF InitPlayer, Serve, NextCmd, Running, SendTo, connectionVars, clientVars
<1>2. /\ drained # <<>> /\ drained \in Seq(Commands)
      /\ Head(drained).client = Me /\ Head(drained).op = "INIT_PLAYER"
  BY DEF InitPlayer, Serve, NextCmd, LiveTypes, QueueTypes
<1>3. 1 \in MyInits(drained)
  <2>1. 1 \in DOMAIN drained /\ drained[1] = Head(drained)
    BY <1>2
  <2> QED
    BY <1>2, <2>1 DEF MyInits
<1>4. out = <<>> /\ inbox = <<>> /\ DOMAIN window.cars = {}
  BY <1>3 DEF StageInv, Waiting, Served
<1>5. out' = <<m>> /\ Pending' = <<m>>
  BY <1>1, <1>4 DEF Pending
<1>6. /\ DOMAIN cars' = DOMAIN cars \cup {Me} /\ cars'[Me] = NewCar
      /\ Telling' = DOMAIN cars \ {Me}
  BY <1>1 DEF WithCar, HasCar, Telling
<1>7. Truth' = View(Me, {Me}, {}, 0)
  <2>1. DOMAIN cars' \ Telling' = {Me} /\ {c \in {Me} : cars'[c].spent} = {}
    BY <1>6 DEF NewCar
  <2>2. (IF cars'[Me].bought < MaxShown THEN cars'[Me].bought ELSE MaxShown) = 0
    BY <1>6, ClientAssumption DEF NewCar
  <2> QED
    BY <2>1, <2>2 DEF Truth
<1>8. Shown(window) \in Views /\ Shown(window).cars = {} /\ Shown(window).wrecks = {}
  BY <1>4, ShownIsView DEF Shown, LiveTypes
<1>9. ViewAfter(Shown(window), m) = Truth'
  BY <1>7, <1>8 DEF ViewAfter, View
<1>10. Leads(Shown(window), <<>>, Shown(window))
  BY <1>8, LeadsNowhere
<1>11. Leads(Shown(window), <<m>>, Truth')
  <2>1. <<>> \in Seq(GameMessages) /\ Append(<<>>, m) = <<m>>
    OBVIOUS
  <2> QED
    BY <1>1, <1>9, <1>10, <2>1, LeadsOn
<1> QED
  BY <1>1, <1>5, <1>11 DEF ToldInv

(* The Sender brings a message of the game to the window as it was sent.   *)
LEMMA SenderMoves ==
  ASSUME Live, LiveTypes, ToldInv, HasCar(Me), ServerSender
  PROVE  playing' /\ Pending' = Pending
<1>1. /\ out # <<>> /\ out' = Tail(out) /\ out \in Seq(GameMessages) /\ inbox \in Seq(GameMessages)
      /\ playing' = (playing \/ StartsPlaying(Head(out)))
      /\ inbox' = IF Passes(Head(out)) THEN inbox \o Received[Written[Head(out)]].msgs ELSE inbox
  BY DEF ServerSender, LiveTypes, QueueTypes
<1>2. playing' /\ Passes(Head(out))
  BY <1>1 DEF ToldInv, StartsPlaying, Passes
<1>3. Received[Written[Head(out)]].msgs = <<Head(out)>>
  <2>1. Head(out) \in GameMessages
    BY <1>1
  <2>2. Received[Written[Head(out)]] = [rest |-> <<>>, msgs |-> <<Head(out)>>, threw |-> FALSE]
    BY <2>1, WireAssumption
  <2> QED
    BY <2>2
<1> QED
  BY <1>1, <1>2, <1>3, JoinMoved DEF Pending

LEMMA StepTold ==
  ASSUME Live, LiveTypes, StageInv, ToldInv, LiveStep
  PROVE  ToldInv'
<1> DEFINE init == out # <<>> /\ Head(out).type = "INIT_PLAYER"
<1>0. out \in Seq(GameMessages) /\ inbox \in Seq(GameMessages) /\ Pending \in Seq(GameMessages)
  BY JoinSent DEF LiveTypes, QueueTypes, Pending
<1>1. CASE GameThread /\ UNCHANGED <<connectionVars, clientVars>> /\ ~HasCar(Me)
  BY <1>1, CarFromInit, FirstCarTold DEF ToldInv
<1>2. CASE GameThread /\ UNCHANGED <<connectionVars, clientVars>> /\ HasCar(Me)
  <2>1. Telltale /\ (playing \/ init) /\ Leads(Shown(window), Pending, Truth)
    BY <1>2, GameTold DEF ToldInv
  <2>2. UNCHANGED <<playing, inbox, window>>
    BY <1>2 DEF connectionVars, clientVars
  <2>3. CASE out' = out /\ Truth' = Truth
    BY <2>1, <2>2, <2>3 DEF ToldInv, Pending
  <2>4. CASE \E m \in GameMessages : out' = Append(out, m) /\ Truth' = ViewAfter(Truth, m)
    <3>1. PICK m \in GameMessages : out' = Append(out, m) /\ Truth' = ViewAfter(Truth, m)
      BY <2>4
    <3>2. Pending' = Append(Pending, m)
      BY <1>0, <2>2, <3>1, JoinSent DEF Pending
    <3>3. Leads(Shown(window), Pending', Truth')
      BY <1>0, <2>1, <3>1, <3>2, LeadsOn
    <3>4. init => out' # <<>> /\ Head(out') = Head(out)
      BY <1>0, <3>1
    <3> QED
      BY <2>1, <2>2, <3>3, <3>4 DEF ToldInv
  <2> QED
    BY <2>1, <2>3, <2>4 DEF Telltale
<1>3. CASE \/ OtherClients /\ UNCHANGED <<connectionVars, clientVars>>
           \/ ClientSender /\ UNCHANGED clientVars
  <2>1. UNCHANGED <<gameVars, loopVars, out, playing, inbox, clientVars>>
    BY <1>3, Aside
  <2> QED
    BY <2>1 DEF ToldInv, Live, Dead, HasCar, Pending, Truth, Telling, gameVars, loopVars, clientVars
<1>4. CASE ServerSender /\ UNCHANGED clientVars
  <2> SUFFICES ASSUME HasCar(Me)' PROVE ToldInv'
    BY DEF ToldInv
  <2>1. /\ out # <<>> /\ out' = Tail(out) /\ UNCHANGED <<gameVars, loopVars, window>>
    BY <1>4 DEF ServerSender, clientVars
  <2>2. HasCar(Me) /\ Truth' = Truth
    BY <2>1 DEF HasCar, Truth, Telling, gameVars, loopVars
  <2>3. playing' /\ Pending' = Pending
    BY <1>4, <2>2, SenderMoves
  <2> QED
    BY <2>1, <2>2, <2>3 DEF ToldInv
<1>5. CASE HandleMessage
  <2>1. /\ inbox # <<>> /\ Head(inbox) \in GameMessages /\ inbox' = Tail(inbox)
        /\ window' = HandleServerMessage(window, Head(inbox))
        /\ UNCHANGED <<feedVars, playing>>
    BY <1>5, Handled
  <2>2. Shown(window') = ViewAfter(Shown(window), Head(inbox))
    BY <2>1, MessageHandled DEF LiveTypes
  <2>3. Pending # <<>> /\ Head(Pending) = Head(inbox) /\ Pending' = Tail(Pending)
    BY <1>0, <2>1, JoinTaken DEF Pending, feedVars
  <2>4. UNCHANGED <<gameVars, loopVars, out>>
    BY <2>1 DEF feedVars
  <2>5. Leads(Shown(window), Pending, Truth) => Leads(Shown(window'), Pending', Truth)
    BY <1>0, <2>2, <2>3, LeadsAfterFirst
  <2>6. Truth' = Truth /\ (HasCar(Me)' <=> HasCar(Me))
    BY <2>4 DEF Truth, Telling, HasCar, gameVars, loopVars
  <2> QED
    BY <2>1, <2>4, <2>5, <2>6 DEF ToldInv
<1>6. CASE Frame /\ client' = "window"
  <2>1. Shown(window') = Shown(window) /\ UNCHANGED <<feedVars, playing, inbox>>
    BY <1>6, Drew, FrameShown DEF LiveTypes
  <2>2. UNCHANGED <<gameVars, loopVars, out, playing, inbox>>
    BY <2>1 DEF feedVars
  <2> QED
    BY <2>1, <2>2 DEF ToldInv, HasCar, Pending, Truth, Telling, gameVars, loopVars
<1> QED
  BY <1>1, <1>2, <1>3, <1>4, <1>5, <1>6 DEF LiveStep

(* What the window shows and what is on its way to it add up to the game   *)
(* as long as both live.                                                   *)
THEOREM NothingLost == ClientSpec => []ToldInv
<1>1. ClientInit => ToldInv
  <2>1. ClientInit => ~HasCar(Me)
    BY PlayersAreNumbers DEF ClientInit, FeedInit, HasCar
  <2> QED
    BY <2>1 DEF ToldInv
<1>2. TypeInv /\ StageInv /\ ToldInv /\ [ClientNext]_allVars => ToldInv'
  <2> SUFFICES ASSUME TypeInv, StageInv, ToldInv, [ClientNext]_allVars, Live'
               PROVE  ToldInv'
    BY DEF ToldInv
  <2>1. CASE UNCHANGED allVars
    BY <2>1, LiveSteps DEF ToldInv, HasCar, Pending, Truth, Telling, allVars, feedVars, gameVars,
       loopVars, connectionVars, clientVars
  <2> QED
    BY <2>1, LiveSteps, StepTold
<1> QED
  BY <1>1, <1>2, ClientTypes, ServedOnce, PTL DEF ClientSpec

(* Once everything has been handled, the window shows the truth.           *)
LEMMA UpToDateShown ==
  ASSUME TypeInv, ToldInv, UpToDate
  PROVE  /\ Live /\ LiveTypes /\ Telling = {} /\ Pending = <<>>
         /\ Shown(window) = Truth
<1>1. Live /\ LiveTypes
  BY DEF UpToDate, Live, Dead, TypeInv
<1>2. Telling = {} /\ Pending = <<>>
  BY DEF UpToDate, Telling, Pending
<1>3. Shown(window) \in Views
  BY <1>1, ShownIsView DEF LiveTypes
<1>4. Leads(Shown(window), <<>>, Truth)
  BY <1>1, <1>2 DEF UpToDate, ToldInv
<1> QED
  BY <1>1, <1>2, <1>3, <1>4, LeadsNowhere

(* The cars of the window are those of the game, for every number of       *)
(* players, races and messages on their way.                               *)
THEOREM WindowShowsMembers == ClientSpec => []MembershipAgrees
<1>1. TypeInv /\ ToldInv => MembershipAgrees
  <2> SUFFICES ASSUME TypeInv, ToldInv, UpToDate
               PROVE  window.myCarId = Me /\ DOMAIN window.cars = DOMAIN cars
    BY DEF MembershipAgrees
  <2>1. Shown(window).mine = Me /\ Shown(window).cars = DOMAIN cars
    <3>1. Truth.mine = Me /\ Truth.cars = DOMAIN cars \ Telling
      BY DEF Truth, View
    <3> QED
      BY <3>1, UpToDateShown
  <2> QED
    BY <2>1 DEF Shown
<1> QED
  BY <1>1, ClientTypes, NothingLost, PTL

(* A killed car had nothing left: what is not enabled is spent.            *)
Killed == \A c \in DOMAIN cars : cars[c].enabled \/ cars[c].spent

KilledInv == Live => Killed

LEMMA GameKills ==
  ASSUME Live, LiveTypes, Killed, GameThread
  PROVE  Killed'
<1>0. \A c \in DOMAIN cars : cars[c] \in CarStates
  BY CarMapsElim DEF LiveTypes, GameTypes
<1>1. CASE \E c \in Players : InitPlayer(c)
  <2>1. PICK c \in Players : cars' = WithCar(c)
    BY <1>1 DEF InitPlayer
  <2> QED
    BY <2>1 DEF Killed, WithCar, HasCar, NewCar
<1>2. CASE \E c \in Players, u \in Upgrades : RequestUpgrade(c, u)
  <2>1. PICK c \in Players, u \in Upgrades : RequestUpgrade(c, u)
    BY <1>2
  <2>2. \/ cars' = cars
        \/ cars' = [cars EXCEPT ![c].upgrades = cars[c].upgrades \cup {u}, ![c].bought = cars[c].bought + 1]
    BY <2>1 DEF RequestUpgrade
  <2>3. /\ DOMAIN cars' = DOMAIN cars
        /\ \A d \in DOMAIN cars : cars'[d].enabled = cars[d].enabled /\ cars'[d].spent = cars[d].spent
    BY <1>0, <2>2 DEF CarStates
  <2> QED
    BY <2>3 DEF Killed
<1>3. CASE \E c \in Others : DropCar(c)
  BY <1>3 DEF DropCar, Killed
<1>4. CASE \E n \in 1..NumCheckpoints : CarHitCheckpoint(Me, n)
  <2>1. PICK n \in 1..NumCheckpoints : cars' = [cars EXCEPT ![Me].checkpoint = n]
    BY <1>4 DEF CarHitCheckpoint
  <2>2. /\ DOMAIN cars' = DOMAIN cars
        /\ \A d \in DOMAIN cars : cars'[d].enabled = cars[d].enabled /\ cars'[d].spent = cars[d].spent
    BY <1>0, <2>1 DEF CarStates
  <2> QED
    BY <2>2 DEF Killed
<1>5. CASE \E c \in Players, damage \in Damages : CarHit(c, damage)
  <2>1. PICK c \in Players, damage \in Damages : CarHit(c, damage)
    BY <1>5
  <2>2. /\ c \in DOMAIN cars /\ damage \in Nat /\ cars[c] \in CarStates
        /\ cars' = [cars EXCEPT ![c] = Hurt(cars[c], damage)]
    BY <1>0, <2>1, FeedAssumption DEF CarHit, WorldEvent, LiveTypes, LoopTypes
  <2>3. Hurt(cars[c], damage).enabled \/ Hurt(cars[c], damage).spent
    BY <2>2, HurtCar DEF Killed
  <2> QED
    BY <2>2, <2>3 DEF Killed
<1>6. CASE RaceEnds
  <2>1. \/ cars' = cars
        \/ cars' = [c \in DOMAIN cars |->
                      [NewCar EXCEPT !.spent = cars[c].spent, !.bought = cars[c].bought]]
    BY <1>6 DEF RaceEnds
  <2> QED
    BY <2>1 DEF Killed, NewCar
<1>7. CASE UNCHANGED cars
  BY <1>7 DEF Killed
<1> QED
  BY <1>1, <1>2, <1>3, <1>4, <1>5, <1>6, <1>7 DEF GameThread, EmptyQueue, LobbyCmd, StartGame,
     NotifyExisting, SkipCmd, LobbyEnds, UpgradeLogic, RaceFrame, CheckPlayersStatus, WorldStep,
     FrameEnds, gameVars

(* In no race is there a killed car whose health still shows on the wire.  *)
THEOREM KilledSpent == ClientSpec => []KilledInv
<1>1. ClientInit => KilledInv
  BY DEF ClientInit, FeedInit, KilledInv, Killed, NewCar
<1>2. TypeInv /\ KilledInv /\ [ClientNext]_allVars => KilledInv'
  <2> SUFFICES ASSUME TypeInv, KilledInv, [ClientNext]_allVars, Live'
               PROVE  Killed'
    BY DEF KilledInv
  <2>1. Live /\ LiveTypes /\ Killed /\ (LiveStep \/ UNCHANGED allVars)
    BY LiveSteps DEF KilledInv
  <2>2. CASE GameThread
    BY <2>1, <2>2, GameKills
  <2>3. CASE UNCHANGED cars
    BY <2>1, <2>3 DEF Killed
  <2>4. GameThread \/ UNCHANGED cars
    BY <2>1, Aside DEF LiveStep, ServerSender, HandleMessage, Frame, allVars, feedVars, gameVars
  <2> QED
    BY <2>2, <2>3, <2>4
<1> QED
  BY <1>1, <1>2, ClientTypes, PTL DEF ClientSpec

(* A car is shown as a wreck exactly if the health of some hit rounded to  *)
(* nothing, as that of every killed car did, and with as many upgrades as  *)
(* were bought and there is room for.                                      *)
THEOREM WindowShowsCars == ClientSpec => []CarsAgree
<1>1. TypeInv /\ ToldInv /\ KilledInv => CarsAgree
  <2> SUFFICES ASSUME TypeInv, ToldInv, KilledInv, UpToDate
               PROVE  /\ \A c \in DOMAIN cars : /\ ~cars[c].enabled => Wreck(window.cars[c])
                                                 /\ Wreck(window.cars[c]) <=> cars[c].spent
                      /\ window.cars[Me].upgrades = Min({MaxShown, cars[Me].bought})
    BY DEF CarsAgree
  <2> DEFINE b == cars[Me].bought
  <2>1. Shown(window) = View(Me, DOMAIN cars, {c \in DOMAIN cars : cars[c].spent},
                             IF b < MaxShown THEN b ELSE MaxShown)
    BY UpToDateShown DEF Truth
  <2>2. /\ window.myCarId = Me /\ DOMAIN window.cars = DOMAIN cars /\ Me \in DOMAIN cars
        /\ {c \in DOMAIN window.cars : Wreck(window.cars[c])} = {c \in DOMAIN cars : cars[c].spent}
    BY <2>1 DEF Shown, View, UpToDate, HasCar
  <2>3. \A c \in DOMAIN cars : cars[c].spent \in BOOLEAN /\ cars[c].bought \in Nat
    BY UpToDateShown, CarMapsElim, CarFields DEF LiveTypes, GameTypes
  <2>4. \A c \in DOMAIN cars : Wreck(window.cars[c]) <=> cars[c].spent
    BY <2>2, <2>3
  <2>5. Killed
    BY UpToDateShown DEF KilledInv
  <2>6. window.cars[Me].upgrades = IF b < MaxShown THEN b ELSE MaxShown
    BY <2>1, <2>2 DEF Shown, View, Shows
  <2>7. Min({MaxShown, b}) = IF b < MaxShown THEN b ELSE MaxShown
    <3>1. b \in Nat /\ MaxShown \in Nat
      BY <2>2, <2>3, ClientAssumption
    <3> HIDE DEF b
    <3> DEFINE x == IF b < MaxShown THEN b ELSE MaxShown
    <3>2. x \in {MaxShown, b} /\ (\A y \in {MaxShown, b} : x <= y)
            /\ \A z \in {MaxShown, b} : (\A y \in {MaxShown, b} : z <= y) => z = x
      BY <3>1
    <3> QED
      BY <3>2 DEF Min
  <2> QED
    BY <2>4, <2>5, <2>6, <2>7 DEF Killed
<1> QED
  BY <1>1, ClientTypes, NothingLost, KilledSpent, PTL

-----------------------------------------------------------------------------
(***************************************************************************)
(* The checkpoints of the current race.                                    *)
(***************************************************************************)

Race == raceIndex + 1

IsInfo(m) == m.type = "CURRENT_INFO"
IsHit(m) == m.type = "CHECKPOINT_HIT"

(* No message names a race that has not begun, nor does the window.        *)
Bound == IF phase = "lobby" THEN raceIndex ELSE Race

InfoBounded ==
  /\ window.lastRaceNumber <= Bound
  /\ \A i \in 1..Len(Pending) : IsInfo(Pending[i]) => Pending[i].race <= Bound

(* From this message on the window is in the race that is run; 0 is for    *)
(* what has been handled.                                                  *)
Informed(i) ==
  \/ i = 0 /\ window.lastRaceNumber = Race
  \/ i # 0 /\ IsInfo(Pending[i]) /\ Pending[i].race = Race

(* What the window counts from there on, the car has passed.               *)
HitsBehind ==
  /\ Informed(0) => window.checkpointNumber <= cars[Me].checkpoint
  /\ \A i \in 0..Len(Pending), j \in 1..Len(Pending) :
       i < j /\ Informed(i) /\ IsHit(Pending[j]) => Pending[j].checkpoint <= cars[Me].checkpoint

(* Between two frames of a race the last message on its way names the next *)
(* checkpoint; if none is, the window has it or a wreck took it away.      *)
Hint ==
  phase = "race" /\ at = "top" /\ ~Finished(cars[Me]) /\ (\E i \in 0..Len(Pending) : Informed(i)) =>
    IF Pending = <<>>
    THEN \/ window.nextCheckpoint = cars[Me].checkpoint + 1
         \/ /\ window.nextCheckpoint = NOT_ACCESSIBLE
            /\ \E c \in DOMAIN window.cars : window.cars[c].state = "DESTROYED"
    ELSE Pending[Len(Pending)] =
           [type |-> "CURRENT_INFO", race |-> Race, next |-> cars[Me].checkpoint + 1]

HudInv == Live /\ HasCar(Me) => InfoBounded /\ HitsBehind /\ Hint

(* A step that sends at most one message, and lets the window be.          *)
Sends(m) == out' = Append(out, m) /\ UNCHANGED <<inbox, window>>

LEMMA PendingAfterSend ==
  ASSUME LiveTypes, NEW m \in GameMessages, Sends(m)
  PROVE  /\ Pending \in Seq(GameMessages) /\ Pending' = Append(Pending, m)
         /\ Len(Pending') = Len(Pending) + 1 /\ Pending'[Len(Pending) + 1] = m
         /\ \A i \in 1..Len(Pending) : Pending'[i] = Pending[i]
<1>1. out \in Seq(GameMessages) /\ inbox \in Seq(GameMessages) /\ Pending \in Seq(GameMessages)
  BY JoinSent DEF LiveTypes, QueueTypes, Pending
<1>2. Pending' = Append(Pending, m)
  BY <1>1, JoinSent DEF Sends, Pending
<1>3. /\ Len(Append(Pending, m)) = Len(Pending) + 1 /\ Append(Pending, m)[Len(Pending) + 1] = m
      /\ \A i \in 1..Len(Pending) : Append(Pending, m)[i] = Pending[i]
  BY <1>1
<1> QED
  BY <1>1, <1>2, <1>3

(* What a step of the game does to it: it goes on in the same race, and    *)
(* what it says of a race or of a checkpoint is true.                      *)
GoesOn ==
  /\ raceIndex' = raceIndex /\ Bound <= Bound'
  /\ HasCar(Me)' => HasCar(Me) /\ cars[Me].checkpoint <= cars'[Me].checkpoint
  /\ \/ out' = out
     \/ \E m \in GameMessages :
          /\ out' = Append(out, m)
          /\ IsInfo(m) => m.race <= Bound'
          /\ IsHit(m) /\ HasCar(Me)' => m.checkpoint <= cars'[Me].checkpoint

LEMMA HudTypes ==
  ASSUME LiveTypes
  PROVE  /\ raceIndex \in Nat /\ Bound \in Nat /\ Race \in Nat
         /\ window.lastRaceNumber \in Nat /\ window.checkpointNumber \in Nat
         /\ HasCar(Me) => cars[Me].checkpoint \in Nat
         /\ Pending \in Seq(GameMessages) /\ Len(Pending) \in Nat
         /\ \A i \in 1..Len(Pending) :
              /\ Pending[i] \in GameMessages
              /\ IsInfo(Pending[i]) => Pending[i].race \in Nat
              /\ IsHit(Pending[i]) => Pending[i].checkpoint \in Nat
<1>1. raceIndex \in Nat
  BY FeedAssumption DEF LiveTypes, GameTypes
<1>2. HasCar(Me) => cars[Me].checkpoint \in Nat
  <2>1. HasCar(Me) => cars[Me] \in CarStates
    BY CarMapsElim DEF LiveTypes, GameTypes, HasCar
  <2> QED
    BY <2>1, CarFields, FeedAssumption
<1>3. Pending \in Seq(GameMessages)
  BY JoinSent DEF LiveTypes, QueueTypes, Pending
<1>4. Len(Pending) \in Nat /\ \A i \in 1..Len(Pending) : Pending[i] \in GameMessages
  BY <1>3
<1>5. \A i \in 1..Len(Pending) : /\ IsInfo(Pending[i]) => Pending[i].race \in Nat
                                 /\ IsHit(Pending[i]) => Pending[i].checkpoint \in Nat
  BY <1>4, MessageFields, FeedAssumption DEF IsInfo, IsHit
<1> QED
  BY <1>1, <1>2, <1>3, <1>4, <1>5, WindowFields DEF Bound, Race, LiveTypes

LEMMA StillBehind ==
  ASSUME LiveTypes, LiveTypes', Live, HudInv, HasCar(Me)', GoesOn, UNCHANGED <<inbox, window>>
  PROVE  InfoBounded' /\ HitsBehind'
<1>1. /\ HasCar(Me) /\ InfoBounded /\ HitsBehind /\ Race' = Race
      /\ cars[Me].checkpoint <= cars'[Me].checkpoint /\ Bound <= Bound'
      /\ cars[Me].checkpoint \in Nat /\ cars'[Me].checkpoint \in Nat /\ Bound \in Nat /\ Bound' \in Nat
  <2>1. HasCar(Me) /\ cars'[Me].checkpoint \in Nat /\ Bound' \in Nat
    <3>1. cars' \in CarMaps(CarStates) /\ Me \in DOMAIN cars'
      BY DEF LiveTypes, GameTypes, HasCar
    <3>2. cars'[Me] \in CarStates
      BY <3>1, CarMapsElim
    <3>3. Bound' \in Nat
      BY HudTypes DEF Bound, Race, GoesOn
    <3> QED
      BY <3>2, <3>3, CarFields, FeedAssumption DEF GoesOn
  <2> QED
    BY <2>1, HudTypes DEF HudInv, GoesOn, Race
<1>2. CASE out' = out
  <2>1. Pending' = Pending /\ UNCHANGED window
    BY <1>2 DEF Pending
  <2>2. InfoBounded'
    BY <1>1, <2>1, HudTypes DEF InfoBounded
  <2>3. \A i : Informed(i)' <=> Informed(i)
    BY <1>1, <2>1 DEF Informed
  <2>4. HitsBehind'
    <3> SUFFICES ASSUME NEW i \in 0..Len(Pending), NEW j \in 1..Len(Pending), Informed(i), IsHit(Pending[j]), i < j
                 PROVE  Pending[j].checkpoint <= cars'[Me].checkpoint
      <4>1. Informed(0)' => window'.checkpointNumber <= cars'[Me].checkpoint
        <5>1. Informed(0) => window.checkpointNumber <= cars[Me].checkpoint
          BY <1>1 DEF HitsBehind
        <5>2. window' = window /\ window.checkpointNumber \in Nat /\ (Informed(0)' => Informed(0))
          BY <1>1, <2>1, HudTypes DEF Informed
        <5> QED
          BY <1>1, <5>1, <5>2
      <4> QED
        BY <2>1, <2>3, <4>1 DEF HitsBehind
    <3>1. Pending[j].checkpoint <= cars[Me].checkpoint /\ Pending[j].checkpoint \in Nat
      BY <1>1, HudTypes DEF HitsBehind
    <3> QED
      BY <1>1, <3>1
  <2> QED
    BY <2>2, <2>4
<1>3. CASE \E m \in GameMessages :
             /\ out' = Append(out, m)
             /\ IsInfo(m) => m.race <= Bound'
             /\ IsHit(m) /\ HasCar(Me)' => m.checkpoint <= cars'[Me].checkpoint
  <2> DEFINE n == Len(Pending)
  <2>1. PICK m \in GameMessages :
             /\ out' = Append(out, m)
             /\ IsInfo(m) => m.race <= Bound'
             /\ IsHit(m) => m.checkpoint <= cars'[Me].checkpoint
    BY <1>3
  <2>2. /\ Len(Pending') = n + 1 /\ Pending'[n + 1] = m
        /\ \A i \in 1..n : Pending'[i] = Pending[i]
    BY <2>1, PendingAfterSend DEF Sends
  <2>3. n \in Nat
    BY HudTypes
  <2> HIDE DEF n
  <2>4. \A i \in 1..(n + 1) : i \in 1..n \/ i = n + 1
    BY <2>3
  <2>5. InfoBounded'
    <3>1. window'.lastRaceNumber <= Bound'
      BY <1>1, HudTypes DEF InfoBounded
    <3>2. ASSUME NEW i \in 1..(n + 1), IsInfo(Pending'[i])
          PROVE  Pending'[i].race <= Bound'
      <4>1. CASE i \in 1..n
        BY <1>1, <2>2, <3>2, <4>1, HudTypes DEF InfoBounded, n
      <4> QED
        BY <2>1, <2>2, <2>4, <3>2, <4>1
    <3> QED
      BY <2>2, <3>1, <3>2 DEF InfoBounded, IsInfo
  <2>6. \A i \in 0..n : Informed(i)' => Informed(i)
    <3> SUFFICES ASSUME NEW i \in 0..n, Informed(i)' PROVE Informed(i)
      OBVIOUS
    <3>1. CASE i = 0
      BY <1>1, <3>1 DEF Informed
    <3>2. CASE i # 0
      <4>1. i \in 1..n
        BY <2>3, <3>2
      <4> QED
        BY <1>1, <2>2, <3>2, <4>1 DEF Informed, IsInfo
    <3> QED
      BY <3>1, <3>2
  <2>7. HitsBehind'
    <3>1. Informed(0)' => window'.checkpointNumber <= cars'[Me].checkpoint
      <4>1. Informed(0)' => Informed(0)
        BY <2>3, <2>6
      <4> QED
        BY <1>1, <4>1, HudTypes DEF HitsBehind
    <3>2. ASSUME NEW i \in 0..(n + 1), NEW j \in 1..(n + 1), i < j, Informed(i)', IsHit(Pending'[j])
          PROVE  Pending'[j].checkpoint <= cars'[Me].checkpoint
      <4>1. CASE j = n + 1
        BY <2>1, <2>2, <3>2, <4>1
      <4>2. CASE j \in 1..n
        <5>1. i \in 0..n
          BY <2>3, <3>2, <4>2
        <5>2. Informed(i) /\ Pending'[j] = Pending[j]
          BY <2>2, <2>6, <3>2, <4>2, <5>1
        <5>3. Pending[j].checkpoint <= cars[Me].checkpoint
          BY <1>1, <3>2, <4>2, <5>1, <5>2 DEF HitsBehind, n
        <5>4. Pending[j].checkpoint \in Nat
          BY <3>2, <4>2, <5>2, HudTypes DEF n
        <5> QED
          BY <1>1, <5>2, <5>3, <5>4
      <4> QED
        BY <2>4, <4>1, <4>2
    <3> QED
      BY <2>2, <3>1, <3>2 DEF HitsBehind, IsHit
  <2> QED
    BY <2>5, <2>7
<1> QED
  BY <1>2, <1>3 DEF GoesOn

LEMMA LobbyGoesOn ==
  ASSUME LiveTypes, EmptyQueue \/ LobbyCmd \/ LobbyEnds \/ UpgradeLogic, HasCar(Me)' => HasCar(Me)
  PROVE  GoesOn
<1> USE DEF HasCar
<1>0. /\ \A c \in DOMAIN cars : cars[c] \in CarStates
      /\ HasCar(Me) => cars[Me].checkpoint \in Nat /\ cars[Me].checkpoint <= cars[Me].checkpoint
      /\ Bound <= Bound
  BY CarMapsElim, HudTypes DEF LiveTypes, GameTypes
<1>1. CASE EmptyQueue \/ LobbyEnds
  <2>1. UNCHANGED <<raceIndex, cars, out>>
    BY <1>1 DEF EmptyQueue, LobbyEnds, gameVars
  <2>2. Bound <= Bound'
    BY <1>1, <2>1, HudTypes DEF EmptyQueue, LobbyEnds, CmdsDone, Running, gameVars, Bound, Race,
       LiveTypes, LoopTypes
  <2> QED
    BY <1>0, <2>1, <2>2 DEF GoesOn
<1>2. CASE LobbyCmd \/ UpgradeLogic
  <2>1. UNCHANGED <<raceIndex, phase>>
    BY <1>2 DEF LobbyCmd, UpgradeLogic, InitPlayer, StartGame, NotifyExisting, RequestUpgrade,
       SkipCmd, Serve, NextCmd, gameVars
  <2>2. Bound' = Bound
    BY <2>1 DEF Bound, Race
  <2>3. Me \in DOMAIN cars' => cars'[Me].checkpoint = cars[Me].checkpoint
    <3>1. CASE \E c \in Players : InitPlayer(c)
      BY <3>1 DEF InitPlayer, WithCar
    <3>2. CASE \E c \in Players, u \in Upgrades : RequestUpgrade(c, u)
      <4>1. PICK c \in Players, u \in Upgrades : RequestUpgrade(c, u)
        BY <3>2
      <4> DEFINE new == [cars EXCEPT ![c].upgrades = cars[c].upgrades \cup {u},
                                     ![c].bought = cars[c].bought + 1]
      <4>2. cars' = cars \/ cars' = new
        BY <4>1 DEF RequestUpgrade
      <4>3. Me \in DOMAIN cars => new[Me].checkpoint = cars[Me].checkpoint
        BY <1>0 DEF CarStates
      <4> QED
        BY <4>2, <4>3
    <3>3. CASE UNCHANGED cars
      BY <3>3
    <3> QED
      BY <1>2, <3>1, <3>2, <3>3 DEF LobbyCmd, UpgradeLogic, StartGame, NotifyExisting, SkipCmd, gameVars
  <2>4. out' = out \/ \E m \in GameMessages : out' = Append(out, m) /\ ~IsInfo(m) /\ ~IsHit(m)
    <3> DEFINE Other(m) == m \in GameMessages /\ ~IsInfo(m) /\ ~IsHit(m)
    <3>1. CASE \E c \in Players : InitPlayer(c) \/ NotifyExisting(c)
      <4>1. PICK c \in Players : InitPlayer(c) \/ NotifyExisting(c)
        BY <3>1
      <4>2. /\ Other([type |-> "INIT_PLAYER", id |-> Me]) /\ Other([type |-> "NEW_PLAYER", id |-> c])
        BY MessageTypes, PlayersAreNumbers DEF IsInfo, IsHit
      <4>3. \/ out' = out \/ out' = Append(out, [type |-> "INIT_PLAYER", id |-> Me])
            \/ out' = Append(out, [type |-> "NEW_PLAYER", id |-> c])
        BY <4>1 DEF InitPlayer, NotifyExisting, SendTo
      <4> QED
        BY <4>2, <4>3
    <3>2. CASE \E c \in Players, u \in Upgrades : RequestUpgrade(c, u)
      <4>1. PICK c \in Players, u \in Upgrades : RequestUpgrade(c, u)
        BY <3>2
      <4> DEFINE no == [type |-> "UPGRADE_SEND", upgrade |-> None, success |-> 0]
                 yes == [type |-> "UPGRADE_SEND", upgrade |-> u, success |-> 1]
      <4>2. Other(no) /\ Other(yes)
        BY MessageTypes DEF IsInfo, IsHit
      <4>3. SendTo(c, no) \/ SendTo(c, yes)
        BY <4>1 DEF RequestUpgrade
      <4> HIDE DEF no, yes
      <4> QED
        BY <4>2, <4>3 DEF SendTo
    <3>3. CASE UpgradeLogic \/ (\E c \in Players : StartGame(c)) \/ SkipCmd
      <4>1. /\ Other([type |-> "STARTING_GAME"])
            /\ Other([type |-> "UPGRADE_LOGIC", size |-> Cardinality(Upgrades)])
        BY MessageTypes DEF IsInfo, IsHit
      <4>2. \/ out' = out \/ out' = Append(out, [type |-> "STARTING_GAME"])
            \/ out' = Append(out, [type |-> "UPGRADE_LOGIC", size |-> Cardinality(Upgrades)])
        BY <3>3 DEF UpgradeLogic, StartGame, SkipCmd, Broadcast, SendTo
      <4> QED
        BY <4>1, <4>2
    <3> QED
      BY <1>2, <3>1, <3>2, <3>3 DEF LobbyCmd
  <2> QED
    BY <1>0, <2>1, <2>2, <2>3, <2>4 DEF GoesOn
<1> QED
  BY <1>1, <1>2

(* A race, until it ends for another lobby.                                *)
LEMMA RaceGoesOn ==
  ASSUME LiveTypes, RaceFrame, raceIndex' = raceIndex
  PROVE  GoesOn
<1> USE DEF HasCar
<1>0. /\ \A c \in DOMAIN cars : cars[c] \in CarStates
      /\ HasCar(Me) => cars[Me].checkpoint \in Nat /\ cars[Me].checkpoint <= cars[Me].checkpoint
      /\ Bound <= Bound
  BY CarMapsElim, HudTypes DEF LiveTypes, GameTypes
<1>1. CASE CheckPlayersStatus \/ WorldStep
  <2>1. UNCHANGED <<phase, raceIndex, cars, out>>
    BY <1>1 DEF CheckPlayersStatus, WorldStep, gameVars
  <2> QED
    BY <1>0, <2>1 DEF GoesOn, Bound, Race
<1>2. CASE FrameEnds
  <2> DEFINE m == [type |-> "CURRENT_INFO", race |-> raceIndex + 1, next |-> cars[Me].checkpoint + 1]
  <2>1. UNCHANGED <<phase, raceIndex, cars>> /\ phase = "race"
    BY <1>2 DEF FrameEnds, Running, gameVars, LiveTypes, LoopTypes
  <2>2. out' = out \/ (m \in GameMessages /\ out' = Append(out, m))
    <3>1. CASE HasCar(Me) /\ ~Finished(cars[Me])
      <4>1. cars[Me].checkpoint + 1 \in 0..NumCheckpoints /\ raceIndex + 1 \in 1..NumRaces
        BY <1>0, <3>1, CarFields, FeedAssumption DEF Finished, LiveTypes, GameTypes
      <4> QED
        BY <1>2, <3>1, <4>1, MessageTypes DEF FrameEnds, CurrentInfo, SendTo
    <3> QED
      BY <1>2, <3>1 DEF FrameEnds, CurrentInfo
  <2>3. ~IsHit(m) /\ m.race <= Bound' /\ Bound' = Bound
    <3>1. m.race = Race /\ Bound = Race /\ Bound' = Bound /\ ~IsHit(m)
      BY <2>1 DEF Bound, Race, IsHit
    <3> QED
      BY <3>1, HudTypes
  <2> HIDE DEF m
  <2> QED
    BY <1>0, <2>1, <2>2, <2>3 DEF GoesOn
<1>3. CASE RaceEnds
  <2>1. UNCHANGED <<raceIndex, cars>> /\ phase = "race" /\ phase' = "over"
    <3>1. raceIndex # raceIndex + 1
      BY HudTypes
    <3>2. phase' = "over" /\ UNCHANGED cars
      BY <1>3, <3>1 DEF RaceEnds
    <3> QED
      BY <1>3, <3>2 DEF RaceEnds, Running, LiveTypes, LoopTypes
  <2>2. Bound' = Bound
    BY <2>1 DEF Bound, Race
  <2>3. out' = out \/ \E m \in GameMessages : out' = Append(out, m) /\ ~IsInfo(m) /\ ~IsHit(m)
    BY <1>3, MessageTypes DEF RaceEnds, SendTo, IsInfo, IsHit
  <2> QED
    BY <1>0, <2>1, <2>2, <2>3 DEF GoesOn
<1>4. CASE \E c \in Others : DropCar(c)
  <2>1. PICK c \in Others : DropCar(c)
    BY <1>4
  <2> DEFINE m == [type |-> "CLIENT_DISCONNECT", id |-> c]
  <2>2. m \in GameMessages /\ out' = Append(out, m) /\ c # Me /\ UNCHANGED <<phase, raceIndex>>
    BY <2>1, MessageTypes, PlayersAreNumbers DEF DropCar, Broadcast, SendTo, Players
  <2>3. ~IsHit(m) /\ ~IsInfo(m) /\ Bound' = Bound
    BY <2>2 DEF IsHit, IsInfo, Bound, Race
  <2>4. Me \in DOMAIN cars' => Me \in DOMAIN cars /\ cars'[Me] = cars[Me]
    BY <2>1 DEF DropCar
  <2> HIDE DEF m
  <2> QED
    BY <1>0, <2>2, <2>3, <2>4 DEF GoesOn
<1>5. CASE \E n \in 1..NumCheckpoints : CarHitCheckpoint(Me, n)
  <2>1. PICK n \in 1..NumCheckpoints : CarHitCheckpoint(Me, n)
    BY <1>5
  <2> DEFINE m == [type |-> "CHECKPOINT_HIT", id |-> Me, checkpoint |-> n]
  <2>2. /\ m \in GameMessages /\ out' = Append(out, m) /\ UNCHANGED <<phase, raceIndex>>
        /\ cars' = [cars EXCEPT ![Me].checkpoint = n] /\ cars[Me].checkpoint + 1 = n
        /\ Me \in DOMAIN cars
    BY <2>1, MessageTypes DEF CarHitCheckpoint, WorldEvent, SendTo, LiveTypes, LoopTypes
  <2>3. ~IsInfo(m) /\ Bound' = Bound /\ m.checkpoint = n
    BY <2>2 DEF IsInfo, Bound, Race
  <2>4. DOMAIN cars' = DOMAIN cars /\ cars'[Me].checkpoint = n /\ n \in Nat /\ n <= n
          /\ cars[Me].checkpoint <= n
    <3>1. cars[Me] \in CarStates /\ cars[Me].checkpoint \in Nat
      BY <1>0, <2>2
    <3> QED
      BY <2>2, <3>1 DEF CarStates
  <2> HIDE DEF m
  <2>5. m.checkpoint <= cars'[Me].checkpoint
    BY <2>3, <2>4
  <2> QED
    BY <1>0, <2>2, <2>3, <2>4, <2>5 DEF GoesOn
<1>6. CASE \E c \in Players, damage \in Damages : CarHit(c, damage)
  <2>1. PICK c \in Players, damage \in Damages : CarHit(c, damage)
    BY <1>6
  <2> DEFINE m == [type |-> "COLLISION", id |-> c, health |-> Hundredths(cars'[c].health)]
  <2>2. /\ out' = Append(out, m) /\ UNCHANGED <<phase, raceIndex>> /\ c \in DOMAIN cars
        /\ cars' = [cars EXCEPT ![c] = Hurt(cars[c], damage)] /\ damage \in Nat
    BY <2>1, FeedAssumption DEF CarHit, WorldEvent, Broadcast, SendTo, LiveTypes, LoopTypes
  <2>3. cars[c] \in CarStates
    BY <1>0, <2>2
  <2>4. Hurt(cars[c], damage).checkpoint = cars[c].checkpoint
    BY <2>2, <2>3, HurtCar
  <2>5. DOMAIN cars' = DOMAIN cars /\ (HasCar(Me) => cars'[Me].checkpoint = cars[Me].checkpoint)
    BY <2>2, <2>4
  <2>6. m \in GameMessages
    <3>1. Hurt(cars[c], damage).health \in 0..FullHealth
      BY <2>2, <2>3, HurtCar, CarFields
    <3> QED
      BY <2>2, <3>1, MessageTypes
  <2>7. ~IsHit(m) /\ ~IsInfo(m) /\ Bound' = Bound
    BY <2>2 DEF IsHit, IsInfo, Bound, Race
  <2> HIDE DEF m
  <2> QED
    BY <1>0, <2>2, <2>5, <2>6, <2>7 DEF GoesOn
<1> QED
  BY <1>1, <1>2, <1>3, <1>4, <1>5, <1>6 DEF RaceFrame

(* The step after which a frame of a race may be handled in full.          *)
LEMMA HintAfterGame ==
  ASSUME Live, LiveTypes, LiveTypes', HudInv, HasCar(Me), HasCar(Me)', GameThread,
         UNCHANGED <<inbox, window>>
  PROVE  Hint'
<1> SUFFICES ASSUME phase' = "race", at' = "top", ~Finished(cars'[Me]),
                    \E i \in 0..Len(Pending') : Informed(i)'
             PROVE  Hint'
  BY DEF Hint
<1>1. LobbyEnds \/ FrameEnds
  <2>1. ~EmptyQueue /\ ~UpgradeLogic
    BY DEF EmptyQueue, UpgradeLogic, CmdsDone, Running, gameVars, LiveTypes, LoopTypes
  <2>2. ~LobbyCmd
    BY DEF LobbyCmd, InitPlayer, StartGame, NotifyExisting, RequestUpgrade, SkipCmd, Serve, NextCmd,
       Running
  <2>3. RaceFrame => FrameEnds
    BY DEF RaceFrame, CheckPlayersStatus, WorldStep, RaceEnds, DropCar, CarHitCheckpoint, CarHit,
       WorldEvent, Running, loopVars
  <2> QED
    BY <2>1, <2>2, <2>3 DEF GameThread
<1>2. CASE LobbyEnds
  <2>1. phase = "lobby" /\ UNCHANGED <<raceIndex, out>>
    BY <1>2 DEF LobbyEnds, CmdsDone, Running, LiveTypes, LoopTypes
  <2>2. Pending' = Pending /\ Race' = Race /\ Race > Bound
    BY <2>1, HudTypes DEF Pending, Race, Bound
  <2>3. PICK i \in 0..Len(Pending) : Informed(i)'
    BY <2>2
  <2>4. Informed(i)
    BY <2>2, <2>3 DEF Informed
  <2>5. i = 0 \/ i \in 1..Len(Pending)
    BY HudTypes
  <2> QED
    BY <2>2, <2>4, <2>5, HudTypes DEF HudInv, InfoBounded, Informed
<1>3. CASE FrameEnds
  <2> DEFINE m == [type |-> "CURRENT_INFO", race |-> raceIndex + 1, next |-> cars[Me].checkpoint + 1]
  <2>1. UNCHANGED <<raceIndex, cars>> /\ out' = Append(out, m)
    BY <1>3 DEF FrameEnds, CurrentInfo, SendTo, gameVars
  <2>2. m \in GameMessages
    <3>1. cars[Me] \in CarStates
      BY CarMapsElim DEF LiveTypes, GameTypes, HasCar
    <3>2. cars[Me].checkpoint + 1 \in 0..NumCheckpoints /\ raceIndex + 1 \in 1..NumRaces
      BY <2>1, <3>1, CarFields, FeedAssumption DEF Finished, LiveTypes, GameTypes
    <3> QED
      BY <3>2, MessageTypes
  <2>3. m = [type |-> "CURRENT_INFO", race |-> Race', next |-> cars'[Me].checkpoint + 1]
    BY <2>1 DEF Race
  <2> HIDE DEF m
  <2>4. Len(Pending') = Len(Pending) + 1 /\ Pending'[Len(Pending')] = m /\ Pending' # <<>>
    <3>1. Len(Pending') = Len(Pending) + 1 /\ Pending'[Len(Pending) + 1] = m
      BY <2>1, <2>2, PendingAfterSend DEF Sends
    <3>2. Len(Pending) \in Nat /\ Len(<<>>) = 0
      BY HudTypes
    <3> QED
      BY <3>1, <3>2
  <2> QED
    BY <2>3, <2>4 DEF Hint
<1> QED
  BY <1>1, <1>2, <1>3

(* The car is new: nothing was said of any race.                           *)
LEMMA FirstCarHud ==
  ASSUME Live, LiveTypes, LiveTypes', StageInv, ~HasCar(Me), InitPlayer(Me),
         UNCHANGED <<connectionVars, clientVars>>
  PROVE  HudInv'
<1> DEFINE m == [type |-> "INIT_PLAYER", id |-> Me]
<1>1. /\ drained # <<>> /\ drained \in Seq(Commands) /\ out' = Append(out, m)
      /\ Head(drained).client = Me /\ Head(drained).op = "INIT_PLAYER"
      /\ at' = "cmds" /\ UNCHANGED <<inbox, window, raceIndex>>
  BY DEF InitPlayer, Serve, NextCmd, Running, SendTo, LiveTypes, QueueTypes, connectionVars, clientVars
<1>2. 1 \in MyInits(drained)
  <2>1. 1 \in DOMAIN drained /\ drained[1] = Head(drained)
    BY <1>1
  <2> QED
    BY <1>1, <2>1 DEF MyInits
<1>3. out = <<>> /\ inbox = <<>> /\ window.lastRaceNumber = 0
  BY <1>2 DEF StageInv, Waiting, Served
<1>4. Pending' = <<m>> /\ Race' # 0 /\ Bound' \in Nat
  <2>1. Pending' = <<m>>
    BY <1>1, <1>3 DEF Pending
  <2> QED
    BY <1>1, <2>1, HudTypes DEF Race, Bound
<1>5. Len(Pending') = 1 /\ Pending'[1] = m /\ ~IsInfo(m) /\ ~IsHit(m)
  BY <1>4 DEF IsInfo, IsHit
<1> HIDE DEF m
<1>6. InfoBounded'
  BY <1>1, <1>3, <1>4, <1>5 DEF InfoBounded, IsInfo
<1>7. HitsBehind'
  <2>1. ~Informed(0)'
    BY <1>1, <1>3, <1>4 DEF Informed
  <2>2. \A j \in 1..Len(Pending') : ~IsHit(Pending'[j])
    BY <1>5
  <2> QED
    BY <2>1, <2>2 DEF HitsBehind, IsHit
<1>8. Hint'
  BY <1>1 DEF Hint
<1> QED
  BY <1>6, <1>7, <1>8 DEF HudInv

(* The next race has not been heard of.                                    *)
LEMMA NextRaceHud ==
  ASSUME Live, LiveTypes, HudInv, HasCar(Me), RaceEnds, raceIndex' # raceIndex,
         UNCHANGED <<connectionVars, clientVars>>
  PROVE  HudInv'
<1>1. /\ phase = "race" /\ phase' = "lobby" /\ raceIndex' = raceIndex + 1
      /\ UNCHANGED <<out, inbox, window>>
  BY DEF RaceEnds, Running, LiveTypes, LoopTypes, connectionVars, clientVars
<1>2. Pending' = Pending /\ Bound' = Bound /\ Race' > Bound /\ Bound \in Nat /\ Race' \in Nat
  BY <1>1, HudTypes DEF Pending, Bound, Race
<1>3. InfoBounded /\ InfoBounded'
  BY <1>1, <1>2 DEF HudInv, InfoBounded
<1>4. \A i \in 0..Len(Pending) : ~Informed(i)'
  <2> SUFFICES ASSUME NEW i \in 0..Len(Pending), Informed(i)' PROVE FALSE
    OBVIOUS
  <2>1. i = 0 \/ i \in 1..Len(Pending)
    BY HudTypes
  <2>2. CASE i = 0
    BY <1>1, <1>2, <1>3, <2>2, HudTypes DEF Informed, InfoBounded
  <2>3. CASE i # 0
    <3>1. i \in 1..Len(Pending) /\ IsInfo(Pending[i]) /\ Pending[i].race = Race'
      BY <1>2, <2>1, <2>3 DEF Informed, IsInfo
    <3> QED
      BY <1>2, <1>3, <3>1, HudTypes DEF InfoBounded
  <2> QED
    BY <2>2, <2>3
<1>5. HitsBehind'
  <2>1. 0 \in 0..Len(Pending)
    BY HudTypes
  <2> QED
    BY <1>2, <1>4, <2>1 DEF HitsBehind, IsHit
<1> QED
  BY <1>1, <1>3, <1>5 DEF HudInv, Hint

(* The head of what is on its way is handled.                              *)
LEMMA HandledHud ==
  ASSUME Live, LiveTypes, HudInv, HasCar(Me), HandleMessage
  PROVE  InfoBounded' /\ HitsBehind' /\ Hint'
<1> DEFINE n == Len(Pending)
           m == Pending[1]
<1>1. UNCHANGED <<phase, raceIndex, cars, at, out>>
  BY DEF HandleMessage, feedVars, gameVars, loopVars
<1>2. /\ Pending # <<>> /\ m = Head(inbox) /\ m \in GameMessages /\ Pending' = Tail(Pending)
      /\ window' = HandleServerMessage(window, m) /\ Pending \in Seq(GameMessages)
  <2>1. inbox # <<>> /\ inbox' = Tail(inbox) /\ Head(inbox) \in GameMessages
          /\ window' = HandleServerMessage(window, Head(inbox))
    BY Handled
  <2>2. inbox \in Seq(GameMessages) /\ out \in Seq(GameMessages)
    BY DEF LiveTypes, QueueTypes
  <2>3. Head(Pending) = Head(inbox) /\ Pending # <<>> /\ Pending' = Tail(Pending)
          /\ Pending \in Seq(GameMessages)
    BY <1>1, <2>1, <2>2, JoinTaken, HudTypes DEF Pending
  <2>4. Head(Pending) = m
    BY <2>3
  <2> QED
    BY <2>1, <2>3, <2>4
<1>3. /\ n \in Nat /\ n > 0 /\ Len(Pending') = n - 1
      /\ \A i \in 1..(n - 1) : Pending'[i] = Pending[i + 1]
      /\ n = 1 <=> Pending' = <<>>
  <2>1. /\ n \in Nat /\ n > 0 /\ Len(Tail(Pending)) = n - 1 /\ Tail(Pending) \in Seq(GameMessages)
        /\ \A i \in 1..(n - 1) : Tail(Pending)[i] = Pending[i + 1]
    BY <1>2
  <2>2. Len(Tail(Pending)) = 0 <=> Tail(Pending) = <<>>
    BY <2>1
  <2> QED
    BY <1>2, <2>1, <2>2
<1>4. InfoBounded /\ HitsBehind /\ Hint
  BY DEF HudInv
<1>5. /\ IF IsInfo(m)
         THEN /\ window'.lastRaceNumber = m.race /\ window'.nextCheckpoint = m.next
              /\ window'.checkpointNumber = IF m.race # window.lastRaceNumber THEN 0
                                            ELSE window.checkpointNumber
         ELSE /\ window'.lastRaceNumber = window.lastRaceNumber
              /\ \/ window'.checkpointNumber = window.checkpointNumber
                 \/ IsHit(m) /\ window'.checkpointNumber = m.checkpoint
  BY <1>2, MessageHandled DEF IsInfo, IsHit, LiveTypes
<1>6. cars[Me].checkpoint \in Nat /\ Race \in Nat /\ Race' = Race /\ Bound' = Bound
  BY <1>1, HudTypes DEF Race, Bound
<1> HIDE DEF n, m
<1>7. \A i \in 1..(n - 1) : i + 1 \in 1..n /\ i + 1 # 0
  BY <1>3
<1>8. \A i \in 1..(n - 1) : Informed(i)' => Informed(i + 1)
  BY <1>3, <1>6, <1>7 DEF Informed, IsInfo
<1>9. Informed(0)' => Informed(0) \/ Informed(1)
  BY <1>5, <1>6 DEF Informed, m
<1>10. InfoBounded'
  <2>1. window'.lastRaceNumber <= Bound'
    <3>1. 1 \in 1..n
      BY <1>3
    <3>2. IsInfo(m) => m.race <= Bound
      BY <1>4, <3>1 DEF InfoBounded, n, m
    <3> QED
      BY <1>4, <1>5, <1>6, <3>2 DEF InfoBounded
  <2>2. \A i \in 1..(n - 1) : IsInfo(Pending'[i]) => Pending'[i].race <= Bound'
    BY <1>3, <1>4, <1>6, <1>7 DEF InfoBounded, n
  <2> QED
    BY <1>3, <2>1, <2>2 DEF InfoBounded, IsInfo
<1>11. HitsBehind'
  <2>1. Informed(0)' => window'.checkpointNumber <= cars[Me].checkpoint
    <3> SUFFICES ASSUME Informed(0)' PROVE window'.checkpointNumber <= cars[Me].checkpoint
      OBVIOUS
    <3>1. window'.lastRaceNumber = Race
      BY <1>6 DEF Informed
    <3>2. CASE IsInfo(m)
      <4>1. window.lastRaceNumber = Race => Informed(0)
        BY DEF Informed
      <4> QED
        BY <1>4, <1>5, <1>6, <3>1, <3>2, <4>1 DEF HitsBehind
    <3>3. CASE ~IsInfo(m)
      <4>1. Informed(0)
        BY <1>5, <3>1, <3>3 DEF Informed
      <4>2. IsHit(m) => m.checkpoint <= cars[Me].checkpoint
        <5>1. 0 \in 0..n /\ 1 \in 1..n /\ 0 < 1
          BY <1>3
        <5> QED
          BY <1>4, <4>1, <5>1 DEF HitsBehind, n, m
      <4> QED
        BY <1>4, <1>5, <3>3, <4>1, <4>2 DEF HitsBehind
    <3> QED
      BY <3>2, <3>3
  <2>2. ASSUME NEW i \in 0..(n - 1), NEW j \in 1..(n - 1), i < j, Informed(i)', IsHit(Pending'[j])
        PROVE  Pending'[j].checkpoint <= cars[Me].checkpoint
    <3>1. \E k \in 0..n : k < j + 1 /\ Informed(k)
      <4>1. CASE i = 0
        <5>1. 0 \in 0..n /\ 1 \in 0..n /\ 0 < j + 1 /\ 1 < j + 1
          BY <1>3
        <5> QED
          BY <1>9, <2>2, <4>1, <5>1
      <4>2. CASE i # 0
        <5>1. i \in 1..(n - 1) /\ i + 1 \in 0..n /\ i + 1 < j + 1
          BY <1>3, <2>2, <4>2
        <5> QED
          BY <1>8, <2>2, <5>1
      <4> QED
        BY <4>1, <4>2
    <3>2. j + 1 \in 1..n /\ Pending'[j] = Pending[j + 1]
      BY <1>3, <1>7
    <3> QED
      BY <1>4, <2>2, <3>1, <3>2 DEF HitsBehind, n
  <2> QED
    BY <1>1, <1>3, <2>1, <2>2 DEF HitsBehind, IsHit
<1>12. Hint'
  <2> SUFFICES ASSUME phase' = "race", at' = "top", ~Finished(cars'[Me]),
                      \E i \in 0..Len(Pending') : Informed(i)'
               PROVE  Hint'
    BY DEF Hint
  <2>1. \E i \in 0..n : Informed(i)
    <3>1. PICK i \in 0..(n - 1) : Informed(i)'
      BY <1>3
    <3>2. 0 \in 0..n /\ 1 \in 0..n /\ (i # 0 => i \in 1..(n - 1) /\ i + 1 \in 0..n)
      BY <1>3
    <3> QED
      BY <1>8, <1>9, <3>1, <3>2
  <2> DEFINE info == [type |-> "CURRENT_INFO", race |-> Race, next |-> cars[Me].checkpoint + 1]
  <2>2. Pending[n] = info
    BY <1>1, <1>2, <1>4, <2>1 DEF Hint, Finished, n
  <2>3. CASE n = 1
    <3>1. IsInfo(m) /\ m.next = cars[Me].checkpoint + 1
      BY <2>2, <2>3 DEF IsInfo, m
    <3> QED
      BY <1>1, <1>3, <1>5, <2>3, <3>1 DEF Hint
  <2>4. CASE n # 1
    <3>1. n - 1 \in 1..(n - 1) /\ (n - 1) + 1 = n
      BY <1>3, <2>4
    <3>2. Pending'[Len(Pending')] = info
      BY <1>3, <2>2, <3>1
    <3> QED
      BY <1>1, <1>3, <1>6, <2>4, <3>2 DEF Hint
  <2> QED
    BY <2>3, <2>4
<1> QED
  BY <1>10, <1>11, <1>12

(* What is not of the game changes the hint at most by a wreck.            *)
LEMMA SameHud ==
  ASSUME Live, HudInv, HasCar(Me), UNCHANGED <<phase, raceIndex, cars, at>>, Pending' = Pending,
         window'.lastRaceNumber = window.lastRaceNumber,
         window'.checkpointNumber = window.checkpointNumber,
         \A c \in DOMAIN window.cars :
           c \in DOMAIN window'.cars
             /\ (window.cars[c].state = "DESTROYED" => window'.cars[c].state = "DESTROYED"),
         \/ window'.nextCheckpoint = window.nextCheckpoint
         \/ /\ window'.nextCheckpoint = NOT_ACCESSIBLE
            /\ \E c \in DOMAIN window'.cars : window'.cars[c].state = "DESTROYED"
  PROVE  InfoBounded' /\ HitsBehind' /\ Hint'
<1>1. InfoBounded /\ HitsBehind /\ Hint /\ Race' = Race /\ Bound' = Bound
  BY DEF HudInv, Race, Bound
<1>2. \A i : Informed(i)' <=> Informed(i)
  BY <1>1 DEF Informed
<1>3. InfoBounded'
  BY <1>1 DEF InfoBounded
<1>4. HitsBehind'
  BY <1>1, <1>2 DEF HitsBehind
<1>5. Hint'
  BY <1>1, <1>2 DEF Hint, Finished
<1> QED
  BY <1>3, <1>4, <1>5

LEMMA StepHud ==
  ASSUME Live, LiveTypes, LiveTypes', Live', StageInv, ToldInv, HudInv, LiveStep, HasCar(Me)'
  PROVE  HudInv'
<1>1. CASE GameThread /\ UNCHANGED <<connectionVars, clientVars>> /\ ~HasCar(Me)
  BY <1>1, CarFromInit, FirstCarHud
<1>2. CASE GameThread /\ UNCHANGED <<connectionVars, clientVars>> /\ HasCar(Me)
  <2>1. CASE RaceEnds /\ raceIndex' # raceIndex
    BY <1>2, <2>1, NextRaceHud
  <2>2. CASE ~(RaceEnds /\ raceIndex' # raceIndex)
    <3>1. UNCHANGED <<inbox, window>>
      BY <1>2 DEF connectionVars, clientVars
    <3>2. RaceFrame => raceIndex' = raceIndex
      BY <2>2 DEF RaceFrame, CheckPlayersStatus, WorldStep, FrameEnds, DropCar, CarHitCheckpoint,
         CarHit, WorldEvent, gameVars
    <3>3. GoesOn
      BY <1>2, <3>2, LobbyGoesOn, RaceGoesOn DEF GameThread
    <3>4. InfoBounded' /\ HitsBehind'
      BY <3>1, <3>3, StillBehind
    <3>5. Hint'
      BY <1>2, <3>1, HintAfterGame
    <3> QED
      BY <3>4, <3>5 DEF HudInv
  <2> QED
    BY <2>1, <2>2
<1>3. CASE \/ OtherClients /\ UNCHANGED <<connectionVars, clientVars>>
           \/ ClientSender /\ UNCHANGED clientVars
           \/ ServerSender /\ UNCHANGED clientVars
           \/ Frame /\ client' = "window"
  <2>1. UNCHANGED <<phase, raceIndex, cars, at>>
    BY <1>3, Aside DEF ServerSender, Frame, feedVars, gameVars, loopVars
  <2>2. HasCar(Me)
    BY <2>1 DEF HasCar
  <2>3. CASE ~(Frame /\ client' = "window")
    <3>1. UNCHANGED window
      BY <1>3, <2>3 DEF clientVars
    <3>2. Pending' = Pending
      BY <1>3, <2>2, <2>3, Aside, SenderMoves DEF Pending
    <3> QED
      BY <2>1, <2>2, <3>1, <3>2, SameHud DEF HudInv
  <2>4. CASE Frame /\ client' = "window"
    <3>1. window \in Windows
      BY DEF LiveTypes
    <3>2. PICK input \in Inputs(window) : window' \in Drawn(input.window)
      BY <2>4, Drew
    <3>3. Pending' = Pending
      BY <2>4 DEF Frame, feedVars, Pending
    <3> QED
      BY <2>1, <2>2, <3>1, <3>2, <3>3, FrameShown, SameHud DEF HudInv
  <2> QED
    BY <2>3, <2>4
<1>4. CASE HandleMessage
  <2>1. HasCar(Me)
    BY <1>4 DEF HandleMessage, feedVars, gameVars, HasCar
  <2> QED
    BY <1>4, <2>1, HandledHud DEF HudInv
<1> QED
  BY <1>1, <1>2, <1>3, <1>4 DEF LiveStep

(* What the window and the messages on their way say of the race that is   *)
(* run.                                                                    *)
THEOREM HudKept == ClientSpec => []HudInv
<1>1. ClientInit => HudInv
  <2>1. ClientInit => ~HasCar(Me)
    BY PlayersAreNumbers DEF ClientInit, FeedInit, HasCar
  <2> QED
    BY <2>1 DEF HudInv
<1>2. TypeInv /\ TypeInv' /\ StageInv /\ ToldInv /\ HudInv /\ [ClientNext]_allVars => HudInv'
  <2> SUFFICES ASSUME TypeInv, TypeInv', StageInv, ToldInv, HudInv, [ClientNext]_allVars,
                      Live', HasCar(Me)'
               PROVE  HudInv'
    BY DEF HudInv
  <2>1. Live /\ LiveTypes /\ LiveTypes'
    BY LiveSteps DEF TypeInv
  <2>2. CASE UNCHANGED allVars
    <3>1. UNCHANGED <<phase, raceIndex, cars, at, window>> /\ Pending' = Pending
      BY <2>2 DEF allVars, feedVars, gameVars, loopVars, connectionVars, clientVars, Pending
    <3>2. HasCar(Me)
      BY <3>1 DEF HasCar
    <3> QED
      BY <2>1, <3>1, <3>2, SameHud DEF HudInv
  <2> QED
    BY <2>1, <2>2, LiveSteps, StepHud
<1> QED
  BY <1>1, <1>2, ClientTypes, ServedOnce, NothingLost, PTL DEF ClientSpec

(* Nothing is kept of a window that was left.                              *)
LeftInv == raceIndex \in Nat /\ (client # "window" => window = Left)

THEOREM NothingKept == ClientSpec => []LeftInv
<1>1. ClientInit => LeftInv
  BY FeedAssumption DEF ClientInit, FeedInit, LeftInv
<1>2. LeftInv /\ [ClientNext]_allVars => LeftInv'
  <2> SUFFICES ASSUME LeftInv, [ClientNext]_allVars PROVE LeftInv'
    OBVIOUS
  <2>1. CASE Server /\ UNCHANGED <<connectionVars, clientVars>>
    <3>1. raceIndex' \in {raceIndex, raceIndex + 1}
      BY <2>1 DEF Server, GameThread, OtherClients, LobbyCmd, RaceFrame, EmptyQueue, LobbyEnds,
         UpgradeLogic, CheckPlayersStatus, WorldStep, FrameEnds, RaceEnds, DropCar,
         CarHitCheckpoint, CarHit, WorldEvent, InitPlayer, StartGame, NotifyExisting,
         RequestUpgrade, SkipCmd, Serve, NextCmd, Join, Leave, Push, gameVars
    <3> QED
      BY <2>1, <3>1 DEF LeftInv, clientVars
  <2>2. CASE (ClientThreads \/ Die) /\ UNCHANGED clientVars
    <3>1. raceIndex' \in {raceIndex, 0}
      BY <2>2 DEF ClientThreads, ServerSender, ClientReceiver, EndOfFile, ClientSender, Die,
         feedVars, gameVars
    <3> QED
      BY <2>2, <3>1 DEF LeftInv, clientVars
  <2>3. CASE Window \/ Over \/ UNCHANGED allVars
    <3>1. UNCHANGED raceIndex
      BY <2>3 DEF Window, HandleMessage, Frame, LeaveWindow, ReceiverWoken, ReceiverStops,
         ClientJoins, Over, allVars, feedVars, gameVars
    <3>2. client' # "window" => window' = Left
      BY <2>3 DEF Window, HandleMessage, Frame, LeaveWindow, ReceiverWoken, ReceiverStops,
         ClientJoins, Over, allVars, clientVars, LeftInv
    <3> QED
      BY <3>1, <3>2 DEF LeftInv
  <2> QED
    BY <2>1, <2>2, <2>3 DEF ClientNext
<1> QED
  BY <1>1, <1>2, PTL DEF ClientSpec

(* The head-up display never runs ahead of the car, and between two frames *)
(* it points at the next checkpoint unless a wreck took it away.           *)
THEOREM WindowFollowsRace == ClientSpec => []HudFollows
<1>1. TypeInv /\ LeftInv /\ ToldInv /\ HudInv => HudFollows
  <2> SUFFICES ASSUME TypeInv, LeftInv, ToldInv, HudInv, phase = "race", HasCar(Me),
                      window.lastRaceNumber = raceIndex + 1
               PROVE  HudFollows
    BY DEF HudFollows
  <2> DEFINE car == cars[Me]
  <2>1. CASE client = "window"
    <3>1. Live /\ LiveTypes /\ HitsBehind /\ Hint /\ Informed(0)
      BY <2>1 DEF Live, Dead, TypeInv, HudInv, Informed, Race
    <3>2. window.checkpointNumber <= car.checkpoint
      BY <3>1 DEF HitsBehind
    <3>3. ASSUME UpToDate, at = "top", ~Finished(car)
          PROVE  \/ window.nextCheckpoint = car.checkpoint + 1
                 \/ /\ window.nextCheckpoint = NOT_ACCESSIBLE
                    /\ \E c \in DOMAIN window.cars : window.cars[c].state = "DESTROYED"
      <4>1. Pending = <<>> /\ 0 \in 0..Len(Pending)
        BY <3>1, <3>3, UpToDateShown, HudTypes
      <4> QED
        BY <3>1, <3>3, <4>1 DEF Hint
    <3> QED
      BY <3>2, <3>3 DEF HudFollows
  <2>2. CASE client # "window"
    <3>1. window.lastRaceNumber = 0 /\ raceIndex \in Nat
      BY <2>2 DEF LeftInv, Left, FirstWindow
    <3> QED
      BY <3>1
  <2> QED
    BY <2>1, <2>2
<1> QED
  BY <1>1, ClientTypes, NothingKept, NothingLost, HudKept, PTL

-----------------------------------------------------------------------------
(***************************************************************************)
(* The connection as a channel of messages.                                *)
(***************************************************************************)

Starting == [type |-> "STARTING_GAME"]

StartingIn(msgs) == {i \in 1..Len(msgs) : msgs[i].type = "STARTING_GAME"}

Copies(n) == [i \in 1..n |-> Starting]

(* A client that plays, or will with the first message, gets all of them.  *)
LEMMA AllGoThrough ==
  ASSUME NEW open, NEW msgs \in Seq(GameMessages),
         open \/ (msgs # <<>> /\ StartsPlaying(msgs[1]))
  PROVE  LetThrough(open, msgs) = msgs
<1> DEFINE starts == {i \in DOMAIN msgs : StartsPlaying(msgs[i])}
           first  == IF open THEN 1 ELSE Min(starts \cup {Len(msgs) + 1})
           early  == {i \in 1..(first - 1) : msgs[i].type \in Unfiltered}
<1>1. first = 1
  <2>1. CASE open
    BY <2>1
  <2>2. CASE ~open
    <3>1. 1 \in starts /\ starts \subseteq 1..Len(msgs)
      BY <2>2
    <3>2. 1 \in starts \cup {Len(msgs) + 1} /\ \A i \in starts \cup {Len(msgs) + 1} : i \in Int /\ 1 <= i
      BY <3>1
    <3> HIDE DEF starts
    <3>3. Min(starts \cup {Len(msgs) + 1}) = 1
      BY <3>2 DEF Min
    <3> QED
      BY <2>2, <3>3
  <2> QED
    BY <2>1, <2>2
<1>2. early = {}
  <2> HIDE DEF first
  <2> QED
    BY <1>1
<1>3. LetThrough(open, msgs) = [n \in 1..Cardinality(early) |-> Starting] \o SubSeq(msgs, first, Len(msgs))
  BY DEF LetThrough, Starting
<1> HIDE DEF first, early
<1>4. LetThrough(open, msgs) = [n \in 1..0 |-> Starting] \o SubSeq(msgs, 1, Len(msgs))
  BY <1>1, <1>2, <1>3, FS_EmptySet
<1>5. [n \in 1..0 |-> Starting] = <<>> /\ SubSeq(msgs, 1, Len(msgs)) = msgs
  OBVIOUS
<1> QED
  BY <1>4, <1>5

(* Before, and as long as there is nothing to make it play, it gets the    *)
(* STARTING_GAMEs alone.                                                   *)
LEMMA SomeGoThrough ==
  ASSUME NEW msgs \in Seq(GameMessages), \A i \in 1..Len(msgs) : ~StartsPlaying(msgs[i])
  PROVE  LetThrough(FALSE, msgs) = Copies(Cardinality(StartingIn(msgs)))
<1> DEFINE starts == {i \in DOMAIN msgs : StartsPlaying(msgs[i])}
           first  == Min(starts \cup {Len(msgs) + 1})
           early  == {i \in 1..(first - 1) : msgs[i].type \in Unfiltered}
<1>1. starts = {}
  OBVIOUS
<1>2. first = Len(msgs) + 1
  <2> HIDE DEF starts
  <2>1. first = Min({Len(msgs) + 1})
    BY <1>1
  <2>2. Min({Len(msgs) + 1}) = Len(msgs) + 1
    BY DEF Min
  <2> QED
    BY <2>1, <2>2
<1> HIDE DEF first
<1>3. early = StartingIn(msgs)
  <2>1. first - 1 = Len(msgs)
    BY <1>2
  <2>2. \A m \in GameMessages : m.type \in Unfiltered <=> m.type = "STARTING_GAME"
    BY DEF GameMessages, Unfiltered
  <2>3. \A i \in 1..Len(msgs) : msgs[i] \in GameMessages
    OBVIOUS
  <2> QED
    BY <2>1, <2>2, <2>3 DEF StartingIn
<1>4. LetThrough(FALSE, msgs) = [n \in 1..Cardinality(early) |-> Starting] \o SubSeq(msgs, first, Len(msgs))
  BY DEF LetThrough, Starting, first
<1>5. SubSeq(msgs, first, Len(msgs)) = <<>>
  BY <1>2
<1> HIDE DEF early
<1>6. /\ LetThrough(FALSE, msgs) = Copies(Cardinality(StartingIn(msgs))) \o <<>>
      /\ Cardinality(StartingIn(msgs)) \in Nat
  <2>1. IsFiniteSet(StartingIn(msgs))
    BY FS_Interval, FS_Subset DEF StartingIn
  <2> QED
    BY <1>3, <1>4, <1>5, <2>1, FS_CardinalityType DEF Copies
<1>7. Copies(Cardinality(StartingIn(msgs))) \in Seq({Starting})
  BY <1>6 DEF Copies
<1>8. \A s \in Seq({Starting}) : s \o <<>> = s
  OBVIOUS
<1> QED
  BY <1>6, <1>7, <1>8

LEMMA NothingGoesThrough == \A open : LetThrough(open, <<>>) = <<>>
<1> TAKE open
<1>1. CASE open
  <2>1. <<>> \in Seq(GameMessages)
    OBVIOUS
  <2> QED
    BY <1>1, <2>1, AllGoThrough
<1>2. CASE ~open
  <2> DEFINE early == {i \in 1..(Min({i \in DOMAIN <<>> : StartsPlaying(<<>>[i])} \cup {Len(<<>>) + 1}) - 1) :
                         <<>>[i].type \in Unfiltered}
             first == Min({i \in DOMAIN <<>> : StartsPlaying(<<>>[i])} \cup {Len(<<>>) + 1})
  <2>1. first = 1
    <3>1. {i \in DOMAIN <<>> : StartsPlaying(<<>>[i])} \cup {Len(<<>>) + 1} = {1}
      OBVIOUS
    <3>2. Min({1}) = 1
      BY DEF Min
    <3> QED
      BY <3>1, <3>2
  <2>2. LetThrough(open, <<>>) = [n \in 1..Cardinality(early) |-> Starting] \o SubSeq(<<>>, first, Len(<<>>))
    BY <1>2 DEF LetThrough, Starting
  <2>3. early = {}
    BY <2>1
  <2> HIDE DEF early, first
  <2>4. LetThrough(open, <<>>) = [n \in 1..0 |-> Starting] \o SubSeq(<<>>, 1, 0)
    BY <2>1, <2>2, <2>3, FS_EmptySet
  <2> QED
    BY <2>4
<1> QED
  BY <1>1, <1>2

(* How many there are when one more is sent, and when the first is taken.  *)
LEMMA StartingCounts ==
  ASSUME NEW msgs \in Seq(GameMessages)
  PROVE  /\ Cardinality(StartingIn(msgs)) \in Nat
         /\ \A m \in GameMessages :
              Cardinality(StartingIn(Append(msgs, m)))
                = Cardinality(StartingIn(msgs)) + (IF m.type = "STARTING_GAME" THEN 1 ELSE 0)
         /\ msgs # <<>> =>
              Cardinality(StartingIn(msgs))
                = Cardinality(StartingIn(Tail(msgs))) + (IF Head(msgs).type = "STARTING_GAME" THEN 1 ELSE 0)
<1>1. \A s \in Seq(GameMessages) : IsFiniteSet(StartingIn(s)) /\ Cardinality(StartingIn(s)) \in Nat
  <2> TAKE s \in Seq(GameMessages)
  <2>1. IsFiniteSet(StartingIn(s))
    BY FS_Interval, FS_Subset DEF StartingIn
  <2> QED
    BY <2>1, FS_CardinalityType
<1>2. ASSUME NEW m \in GameMessages
      PROVE  Cardinality(StartingIn(Append(msgs, m)))
               = Cardinality(StartingIn(msgs)) + (IF m.type = "STARTING_GAME" THEN 1 ELSE 0)
  <2> DEFINE last == Len(msgs) + 1
  <2>1. /\ Len(Append(msgs, m)) = last /\ Append(msgs, m)[last] = m
        /\ \A i \in 1..Len(msgs) : Append(msgs, m)[i] = msgs[i]
    OBVIOUS
  <2>2. last \notin StartingIn(msgs)
    BY DEF StartingIn
  <2>3. CASE m.type = "STARTING_GAME"
    <3>1. StartingIn(Append(msgs, m)) = StartingIn(msgs) \cup {last}
      BY <2>1, <2>3 DEF StartingIn
    <3> QED
      BY <1>1, <2>2, <2>3, <3>1, FS_AddElement
  <2>4. CASE m.type # "STARTING_GAME"
    <3>1. StartingIn(Append(msgs, m)) = StartingIn(msgs)
      BY <2>1, <2>4 DEF StartingIn
    <3> QED
      BY <1>1, <2>4, <3>1
  <2> QED
    BY <2>3, <2>4
<1>3. ASSUME msgs # <<>>
      PROVE  Cardinality(StartingIn(msgs))
               = Cardinality(StartingIn(Tail(msgs))) + (IF Head(msgs).type = "STARTING_GAME" THEN 1 ELSE 0)
  <2> DEFINE rest == StartingIn(Tail(msgs))
             later == StartingIn(msgs) \ {1}
             shift == [i \in rest |-> i + 1]
  <2>1. /\ Tail(msgs) \in Seq(GameMessages) /\ Len(Tail(msgs)) = Len(msgs) - 1 /\ Head(msgs) = msgs[1]
        /\ Len(msgs) \in Nat /\ Len(msgs) >= 1
        /\ \A i \in 1..(Len(msgs) - 1) : Tail(msgs)[i] = msgs[i + 1]
    BY <1>3
  <2>2. \A i \in rest : i \in 1..(Len(msgs) - 1) /\ i + 1 \in later
    BY <2>1 DEF StartingIn
  <2>3. \A j \in later : j \in 2..Len(msgs) /\ j - 1 \in rest
    <3> TAKE j \in later
    <3>1. j \in 2..Len(msgs) /\ msgs[j].type = "STARTING_GAME"
      BY <2>1 DEF StartingIn
    <3>2. j - 1 \in 1..(Len(msgs) - 1) /\ (j - 1) + 1 = j
      BY <2>1, <3>1
    <3>3. Tail(msgs)[j - 1] = msgs[j]
      BY <2>1, <3>2
    <3> QED
      BY <2>1, <3>1, <3>2, <3>3 DEF StartingIn
  <2> HIDE DEF rest, later
  <2>4. shift \in Bijection(rest, later)
    <3>1. shift \in [rest -> later]
      BY <2>2
    <3>2. \A a, b \in rest : shift[a] = shift[b] => a = b
      BY <2>2
    <3>3. \A j \in later : \E i \in rest : shift[i] = j
      <4> TAKE j \in later
      <4>1. j - 1 \in rest /\ (j - 1) + 1 = j
        BY <2>3
      <4> QED
        BY <4>1
    <3> QED
      BY <3>1, <3>2, <3>3 DEF Bijection, Injection, Surjection, IsInjective
  <2>5. Cardinality(later) = Cardinality(rest)
    BY <1>1, <2>1, <2>4, FS_Bijection DEF ExistsBijection, rest
  <2>6. Cardinality(later) = IF 1 \in StartingIn(msgs) THEN Cardinality(StartingIn(msgs)) - 1
                             ELSE Cardinality(StartingIn(msgs))
    BY <1>1, FS_RemoveElement DEF later
  <2>7. 1 \in StartingIn(msgs) <=> Head(msgs).type = "STARTING_GAME"
    BY <2>1 DEF StartingIn
  <2> QED
    BY <1>1, <2>1, <2>5, <2>6, <2>7 DEF rest
<1> QED
  BY <1>1, <1>2, <1>3

-----------------------------------------------------------------------------
(* What a dead server may leave on the wire, and what may come of it.      *)
Torn == UNION {Cuts[m] : m \in GameMessages}

Arrivals == GameMessages \cup {NoticeMsg} \cup {Received[bytes].msgs[1] : bytes \in Torn}

(* The wire holds nothing but that, and only after the server's death.     *)
WireInv ==
  /\ stream \in {<<>>} \cup Torn /\ inbox \in Seq(Arrivals) /\ out \in Seq(GameMessages)
  /\ ~Dead => stream = <<>>
  /\ Dead => out = <<>>

LEMMA GameStepAlive ==
  ASSUME TypeInv, Server
  PROVE  /\ Dead' <=> Dead
         /\ Dead => out' = out
<1>1. CASE Dead
  <2>1. at = "top" /\ phase = "dead"
    BY <1>1 DEF TypeInv, Dead
  <2>2. ~EmptyQueue /\ ~LobbyEnds /\ ~UpgradeLogic /\ ~RaceFrame
    BY <2>1 DEF EmptyQueue, LobbyEnds, UpgradeLogic, CmdsDone, Running, RaceFrame,
                CheckPlayersStatus, WorldStep, FrameEnds, RaceEnds, DropCar, CarHitCheckpoint,
                CarHit, WorldEvent
  <2>3. ~LobbyCmd
    BY <2>1 DEF LobbyCmd, InitPlayer, StartGame, NotifyExisting, RequestUpgrade, SkipCmd,
                Serve, NextCmd, Running
  <2>4. OtherClients
    BY <2>2, <2>3 DEF Server, GameThread
  <2>5. UNCHANGED <<phase, out>>
    BY <2>4 DEF OtherClients, Join, Leave, Push, gameVars
  <2> QED
    BY <2>5 DEF Dead
<1>2. CASE ~Dead
  <2>1. phase' # "dead"
    <3>1. CASE GameThread
      BY <1>2, <3>1 DEF Dead, GameThread, LobbyCmd, EmptyQueue, LobbyEnds, UpgradeLogic, RaceFrame,
         CheckPlayersStatus, WorldStep, FrameEnds, RaceEnds, DropCar, CarHitCheckpoint,
         CarHit, WorldEvent, InitPlayer, StartGame, NotifyExisting, RequestUpgrade, SkipCmd,
         Serve, NextCmd, gameVars
    <3>2. CASE OtherClients
      BY <1>2, <3>2 DEF Dead, OtherClients, Join, Leave, Push, gameVars
    <3> QED
      BY <3>1, <3>2 DEF Server
  <2> QED
    BY <1>2, <2>1 DEF Dead
<1> QED
  BY <1>1, <1>2

(* What is read of what a dead server left.                                *)
LEMMA ReadTorn ==
  ASSUME NEW bytes \in Torn, bytes # <<>>
  PROVE  /\ Received[bytes].rest = <<>>
         /\ Received[bytes].threw => Received[bytes].msgs = <<>>
         /\ ~Received[bytes].threw =>
              \E d \in Arrivals : Received[bytes].msgs = <<d>>
<1>1. PICK m \in GameMessages : bytes \in Cuts[m]
  BY DEF Torn
<1> DEFINE r == Received[bytes]
<1>2. /\ r.rest = <<>>
      /\ IF r.threw THEN r.msgs = <<>> ELSE r.msgs = <<r.msgs[1]>> /\ r.msgs[1].type = m.type
  BY <1>1, CutAssumption
<1>3. r.msgs[1] \in Arrivals
  BY DEF Arrivals
<1> QED
  BY <1>2, <1>3

LEMMA StepWire ==
  ASSUME TypeInv, TypeInv', WireInv, [ClientNext]_allVars
  PROVE  WireInv'
<1> USE DEF WireInv
<1>1. CASE Server /\ UNCHANGED <<connectionVars, clientVars>>
  <2>1. (Dead' <=> Dead) /\ (Dead => out' = out)
    BY <1>1, GameStepAlive
  <2>2. UNCHANGED <<stream, inbox, client>> /\ client = "window"
    BY <1>1 DEF Server, connectionVars, clientVars
  <2>3. ~Dead => out' \in Seq(GameMessages)
    BY <2>1, <2>2 DEF TypeInv, Live, LiveTypes, QueueTypes
  <2> QED
    BY <2>1, <2>2, <2>3
<1>2. CASE ClientThreads /\ UNCHANGED clientVars
  <2>1. CASE ServerSender
    <3>1. /\ out # <<>> /\ Head(out) \in GameMessages /\ Tail(out) \in Seq(GameMessages)
          /\ out' = Tail(out) /\ UNCHANGED <<phase, stream>>
      BY <2>1 DEF ServerSender, gameVars
    <3>2. inbox' = inbox \/ inbox' = inbox \o <<Head(out)>>
      <4>1. Received[Written[Head(out)]] = [rest |-> <<>>, msgs |-> <<Head(out)>>, threw |-> FALSE]
        BY <3>1, WireAssumption
      <4>2. Received[Written[Head(out)]].msgs = <<Head(out)>>
        BY <4>1
      <4> QED
        BY <2>1, <4>2 DEF ServerSender
    <3>3. inbox' \in Seq(Arrivals)
      <4>1. Head(out) \in Arrivals
        BY <3>1 DEF Arrivals
      <4> QED
        BY <3>2, <4>1
    <3> QED
      BY <3>1, <3>3 DEF Dead
  <2>2. CASE ClientReceiver
    <3>1. /\ stream # <<>> /\ stream \in Torn /\ stream' = Received[stream].rest
          /\ inbox' = inbox \o Received[stream].msgs /\ UNCHANGED <<phase, out>>
      BY <2>2 DEF ClientReceiver, feedVars, gameVars
    <3>2. stream' = <<>>
      BY <3>1, ReadTorn
    <3>3. inbox' \in Seq(Arrivals)
      <4>1. Received[stream].msgs \in Seq(Arrivals)
        <5>1. CASE Received[stream].threw
          <6>1. Received[stream].msgs = <<>>
            BY <3>1, <5>1, ReadTorn
          <6> QED
            BY <6>1
        <5>2. CASE ~Received[stream].threw
          <6>1. PICK d \in Arrivals : Received[stream].msgs = <<d>>
            BY <3>1, <5>2, ReadTorn
          <6> QED
            BY <6>1
        <5> QED
          BY <5>1, <5>2
      <4> QED
        BY <3>1, <4>1
    <3> QED
      BY <3>1, <3>2, <3>3 DEF Dead
  <2>3. CASE EndOfFile
    <3>1. NoticeMsg \in Arrivals /\ inbox' = Append(inbox, NoticeMsg)
      BY <2>3 DEF EndOfFile, Arrivals, NoticeMsg
    <3>2. UNCHANGED <<phase, out, stream>>
      BY <2>3 DEF EndOfFile, feedVars, gameVars
    <3> QED
      BY <3>1, <3>2 DEF Dead
  <2>4. CASE ClientSender
    BY <2>4 DEF ClientSender, gameVars, Dead
  <2> QED
    BY <1>2, <2>1, <2>2, <2>3, <2>4 DEF ClientThreads
<1>3. CASE Die
  <2>1. stream' \in {<<>>} \cup Torn
    <3>1. CASE out # <<>> /\ Passes(Head(out))
      <4>1. Head(out) \in GameMessages /\ stream' \in Cuts[Head(out)]
        BY <1>3, <3>1 DEF Die
      <4> QED
        BY <4>1 DEF Torn
    <3>2. CASE ~(out # <<>> /\ Passes(Head(out)))
      BY <1>3, <3>2 DEF Die
    <3> QED
      BY <3>1, <3>2
  <2>2. out' = <<>> /\ inbox' = inbox /\ Dead'
    BY <1>3 DEF Die, Dead
  <2>3. <<>> \in Seq(GameMessages)
    OBVIOUS
  <2> QED
    BY <2>1, <2>2, <2>3
<1>4. CASE Window \/ Over \/ UNCHANGED allVars
  <2>1. UNCHANGED <<phase, out, stream>>
    BY <1>4 DEF Window, HandleMessage, Frame, LeaveWindow, ReceiverWoken, ReceiverStops, ClientJoins,
       Over, allVars, feedVars, gameVars, connectionVars
  <2>2. inbox' = inbox \/ (inbox # <<>> /\ inbox' = Tail(inbox))
    BY <1>4 DEF Window, HandleMessage, Frame, LeaveWindow, ReceiverWoken, ReceiverStops, ClientJoins,
       Over, allVars, connectionVars
  <2> QED
    BY <2>1, <2>2 DEF Dead
<1> QED
  BY <1>1, <1>2, <1>3, <1>4 DEF ClientNext

LEMMA WireHolds == ClientSpec => []WireInv
<1>1. ClientInit => WireInv
  <2>1. <<>> \in Seq(GameMessages) /\ <<>> \in Seq(Arrivals)
    OBVIOUS
  <2> QED
    BY <2>1 DEF ClientInit, FeedInit, ConnectionInit, WireInv, Dead
<1>2. TypeInv /\ TypeInv' /\ WireInv /\ [ClientNext]_allVars => WireInv'
  BY StepWire
<1> QED
  BY <1>1, <1>2, ClientTypes, PTL DEF ClientSpec


-----------------------------------------------------------------------------
(* As long as Me has no car, nothing in the queue makes its Sender play.   *)
QuietInv ==
  Live /\ ~HasCar(Me) =>
    ~playing /\ Telling = {} /\ \A i \in 1..Len(out) : ~StartsPlaying(out[i])

(* What a step of the game sends meanwhile.                                *)
LEMMA QuietSends ==
  ASSUME LiveTypes, LiveTypes', ~HasCar(Me), ~HasCar(Me)', Telling = {}, GameThread
  PROVE  /\ Telling' = {}
         /\ \/ out' = out
            \/ \E m \in GameMessages : out' = Append(out, m) /\ ~StartsPlaying(m)
<1> USE DEF LiveTypes, HasCar
<1> DEFINE Says(m) == out' = Append(out, m) /\ ~StartsPlaying(m)
<1>1. at = "cmds" => visiting = {}
  BY DEF Telling
<1>2. Telling' = {} /\ (out' = out \/ \E m : Says(m))
  <2>1. CASE \E c \in Players : InitPlayer(c)
    <3>1. PICK c \in Players : InitPlayer(c)
      BY <2>1
    <3>2. c # Me
      BY <3>1 DEF InitPlayer, WithCar
    <3> QED
      BY <1>1, <3>1, <3>2 DEF InitPlayer, Serve, NextCmd, Running, Telling
  <2>2. CASE \E c \in Players, u \in Upgrades : RequestUpgrade(c, u)
    <3>1. PICK c \in Players, u \in Upgrades : RequestUpgrade(c, u)
      BY <2>2
    <3>2. at = "cmds" /\ at' = at /\ visiting' = visiting
      BY <3>1 DEF RequestUpgrade, Serve, NextCmd, Running
    <3>3. \/ SendTo(c, [type |-> "UPGRADE_SEND", upgrade |-> None, success |-> 0])
          \/ SendTo(c, [type |-> "UPGRADE_SEND", upgrade |-> u, success |-> 1])
      BY <3>1 DEF RequestUpgrade
    <3> QED
      BY <1>1, <3>2, <3>3 DEF SendTo, StartsPlaying, Telling
  <2>3. CASE \E c \in Players : NotifyExisting(c)
    BY <1>1, <2>3 DEF NotifyExisting, Running
  <2>4. CASE \E c \in Players : StartGame(c)
    BY <1>1, <2>4 DEF StartGame, Serve, NextCmd, Running, Broadcast, SendTo, StartsPlaying, Telling
  <2>5. CASE \E c \in Others : DropCar(c)
    BY <2>5 DEF DropCar, Running, Broadcast, SendTo, StartsPlaying, Telling
  <2>6. CASE \E c \in Players, damage \in Damages : CarHit(c, damage)
    <3>1. PICK c \in Players, damage \in Damages : CarHit(c, damage)
      BY <2>6
    <3> DEFINE m == [type |-> "COLLISION", id |-> c, health |-> Hundredths(cars'[c].health)]
    <3>2. at' = "events" /\ out' = Append(out, m)
      BY <3>1 DEF CarHit, WorldEvent, Running, loopVars, Broadcast, SendTo
    <3>3. ~StartsPlaying(m)
      BY DEF StartsPlaying
    <3> QED
      BY <3>2, <3>3 DEF Telling
  <2>7. CASE \E n \in 1..NumCheckpoints : CarHitCheckpoint(Me, n)
    BY <2>7 DEF CarHitCheckpoint, WorldEvent, Running, loopVars, SendTo, StartsPlaying, Telling
  <2>8. CASE FrameEnds \/ RaceEnds
    <3>1. at' = "top"
      BY <2>8 DEF FrameEnds, RaceEnds
    <3>2. out' = out
      BY <2>8 DEF FrameEnds, RaceEnds, CurrentInfo
    <3> QED
      BY <3>1, <3>2 DEF Telling
  <2>9. CASE UpgradeLogic
    BY <2>9 DEF UpgradeLogic, CmdsDone, Broadcast, SendTo, StartsPlaying, Telling
  <2>10. CASE EmptyQueue
    BY <2>10 DEF EmptyQueue, Running, LoopTypes, Telling
  <2>11. CASE SkipCmd \/ LobbyEnds \/ CheckPlayersStatus \/ WorldStep
    BY <1>1, <2>11 DEF SkipCmd, NextCmd, LobbyEnds, CmdsDone, CheckPlayersStatus, WorldStep,
       Running, Telling
  <2> QED
    BY <2>1, <2>2, <2>3, <2>4, <2>5, <2>6, <2>7, <2>8, <2>9, <2>10, <2>11
    DEF GameThread, LobbyCmd, RaceFrame
<1>3. \A m : out' = Append(out, m) => m \in GameMessages
  <2> TAKE m
  <2> HAVE out' = Append(out, m)
  <2>1. out \in Seq(GameMessages) /\ out' \in Seq(GameMessages)
    BY DEF QueueTypes
  <2>2. Len(out') = Len(out) + 1 /\ out'[Len(out) + 1] = m
    BY <2>1
  <2> QED
    BY <2>1, <2>2
<1> QED
  BY <1>2, <1>3

(* Other steps neither give Me a car nor take it away.                     *)
LEMMA StepQuiet ==
  ASSUME Live, LiveTypes, LiveTypes', StageInv, QuietInv, LiveStep
  PROVE  QuietInv'
<1> SUFFICES ASSUME ~HasCar(Me)'
             PROVE  ~playing' /\ Telling' = {} /\ \A i \in 1..Len(out') : ~StartsPlaying(out'[i])
  BY DEF QuietInv
<1>0. out \in Seq(GameMessages) /\ out' \in Seq(GameMessages)
  BY DEF LiveTypes, QueueTypes
<1>1. CASE GameThread /\ UNCHANGED <<connectionVars, clientVars>>
  <2>1. ~HasCar(Me)
    BY <1>1, GameTold
  <2>2. ~playing /\ Telling = {} /\ \A i \in 1..Len(out) : ~StartsPlaying(out[i])
    BY <2>1 DEF QuietInv
  <2>3. /\ Telling' = {}
        /\ \/ out' = out
           \/ \E m \in GameMessages : out' = Append(out, m) /\ ~StartsPlaying(m)
    BY <1>1, <2>1, <2>2, QuietSends
  <2>4. \A i \in 1..Len(out') : ~StartsPlaying(out'[i])
    BY <1>0, <2>2, <2>3
  <2> QED
    BY <1>1, <2>2, <2>3, <2>4 DEF connectionVars
<1>2. CASE ServerSender /\ UNCHANGED clientVars
  <2>1. /\ out # <<>> /\ out' = Tail(out) /\ UNCHANGED <<gameVars, loopVars>>
        /\ playing' = (playing \/ StartsPlaying(Head(out)))
    BY <1>2 DEF ServerSender
  <2>2. Telling' = Telling /\ ~HasCar(Me)
    BY <2>1 DEF Telling, HasCar, gameVars, loopVars
  <2>3. ~playing /\ Telling = {} /\ \A i \in 1..Len(out) : ~StartsPlaying(out[i])
    BY <2>2 DEF QuietInv
  <2>4. \A i \in 1..Len(out') : out'[i] = out[i + 1] /\ i + 1 \in 1..Len(out)
    BY <1>0, <2>1
  <2>5. 1 \in 1..Len(out) /\ Head(out) = out[1]
    BY <1>0, <2>1
  <2> QED
    BY <2>1, <2>2, <2>3, <2>4, <2>5
<1>3. CASE \/ OtherClients /\ UNCHANGED <<connectionVars, clientVars>>
           \/ ClientSender /\ UNCHANGED clientVars
           \/ HandleMessage
           \/ Frame /\ client' = "window"
  <2>1. UNCHANGED <<cars, at, visiting, out, playing>>
    BY <1>3, Aside DEF HandleMessage, Frame, feedVars, gameVars, loopVars
  <2>2. ~HasCar(Me)
    BY <2>1 DEF HasCar
  <2>3. ~playing /\ Telling = {} /\ \A i \in 1..Len(out) : ~StartsPlaying(out[i])
    BY <2>2 DEF QuietInv
  <2> QED
    BY <2>1, <2>3 DEF Telling
<1> QED
  BY <1>1, <1>2, <1>3 DEF LiveStep

LEMMA QuietHolds == ClientSpec => []QuietInv
<1>1. ClientInit => QuietInv
  BY DEF ClientInit, FeedInit, ConnectionInit, QuietInv, Telling
<1>2. TypeInv /\ TypeInv' /\ StageInv /\ QuietInv /\ [ClientNext]_allVars => QuietInv'
  <2> SUFFICES ASSUME TypeInv, TypeInv', StageInv, QuietInv, [ClientNext]_allVars, Live'
               PROVE  QuietInv'
    BY DEF QuietInv
  <2>1. CASE UNCHANGED allVars
    BY <2>1, LiveSteps DEF QuietInv, HasCar, Telling, allVars, feedVars, gameVars, loopVars, connectionVars
  <2>2. LiveTypes'
    BY DEF TypeInv
  <2> QED
    BY <2>1, <2>2, LiveSteps, StepQuiet
<1> QED
  BY <1>1, <1>2, ClientTypes, ServedOnce, PTL DEF ClientSpec

-----------------------------------------------------------------------------
(* The connection as a channel: what is on its way, what has come, and     *)
(* whether it is broken.                                                   *)
OnWay == IF client = "window" THEN OnTheWire \o InTheQueue \o Ending ELSE <<>>
Come == IF client = "window" THEN inbox ELSE <<>>
Broken == Dead \/ client # "window"

LinkInv == TypeInv /\ StageInv /\ ToldInv /\ QuietInv /\ WireInv

LinkNext ==
  \/ Channel!Send \/ Channel!Arrive \/ Channel!Take \/ Channel!Break \/ Channel!HangUp
  \/ UNCHANGED <<OnWay, Come, Broken>>

(* The steps of the channel in these words.                                *)
LEMMA LinkSteps ==
  /\ ~Broken /\ ~Broken' /\ IsPrefix(OnWay, OnWay') /\ Come' = Come => LinkNext
  /\ OnWay # <<>> /\ Come' = Append(Come, Head(OnWay)) /\ OnWay' = Tail(OnWay)
       /\ (Broken' <=> Broken) => LinkNext
  /\ Come # <<>> /\ Come' = Tail(Come) /\ OnWay' = OnWay /\ (Broken' <=> Broken) => LinkNext
  /\ Broken' /\ OnWay' = <<>> /\ Come' = <<>> => LinkNext
  /\ OnWay' = OnWay /\ Come' = Come /\ (Broken' <=> Broken) => LinkNext
<1>1. \A s, t : Channel!IsPrefix(s, t) = IsPrefix(s, t)
  BY DEF Channel!IsPrefix, IsPrefix
<1>2. ~Broken /\ ~Broken' /\ IsPrefix(OnWay, OnWay') /\ Come' = Come => Channel!Send
  BY <1>1 DEF Channel!Send, OnWay, Come, Broken
<1>3. OnWay # <<>> /\ Come' = Append(Come, Head(OnWay)) /\ OnWay' = Tail(OnWay)
        /\ (Broken' <=> Broken) => Channel!Arrive
  BY DEF Channel!Arrive, OnWay, Come, Broken
<1>4. Come # <<>> /\ Come' = Tail(Come) /\ OnWay' = OnWay /\ (Broken' <=> Broken) => Channel!Take
  BY DEF Channel!Take, OnWay, Come, Broken
<1>5. Broken' /\ OnWay' = <<>> /\ Come' = <<>> => Channel!HangUp
  BY DEF Channel!HangUp, OnWay, Come, Broken
<1>6. OnWay' = OnWay /\ Come' = Come /\ (Broken' <=> Broken) => UNCHANGED <<OnWay, Come, Broken>>
  BY DEF Broken
<1> QED
  BY <1>2, <1>3, <1>4, <1>5, <1>6 DEF LinkNext

(* Of a game that lives all is on its way once Me has its car, and until   *)
(* then the STARTING_GAMEs.                                                *)
InOrder ==
  /\ OnWay \in Seq(GameMessages) /\ Come = inbox /\ ~Broken
  /\ HasCar(Me) => OnWay = out
  /\ ~HasCar(Me) => OnWay = Copies(Cardinality(StartingIn(out)))

LEMMA LiveWay == Live /\ LiveTypes /\ ToldInv /\ QuietInv => InOrder
<1> SUFFICES ASSUME Live, LiveTypes, ToldInv, QuietInv PROVE InOrder
  OBVIOUS
<1>1. out \in Seq(GameMessages) /\ stream = <<>>
  BY DEF LiveTypes, QueueTypes
<1>2. OnTheWire = <<>> /\ Ending = <<>> /\ client = "window" /\ ~Dead
  BY <1>1 DEF OnTheWire, Ending, Live
<1>3. InTheQueue = IF HasCar(Me) THEN out ELSE Copies(Cardinality(StartingIn(out)))
  <2>1. CASE HasCar(Me)
    <3>1. playing \/ (out # <<>> /\ StartsPlaying(out[1]))
      <4>1. out # <<>> => Head(out) = out[1]
        BY <1>1
      <4> QED
        BY <2>1, <4>1 DEF ToldInv, StartsPlaying
    <3> QED
      BY <1>1, <2>1, <3>1, AllGoThrough DEF InTheQueue
  <2>2. CASE ~HasCar(Me)
    <3>1. playing = FALSE
      BY <2>2 DEF QuietInv, LiveTypes, QueueTypes
    <3>2. \A i \in 1..Len(out) : ~StartsPlaying(out[i])
      BY <2>2 DEF QuietInv
    <3> QED
      BY <1>1, <2>2, <3>1, <3>2, SomeGoThrough DEF InTheQueue
  <2> QED
    BY <2>1, <2>2
<1>4. InTheQueue \in Seq(GameMessages)
  <2>1. Cardinality(StartingIn(out)) \in Nat
    BY <1>1, StartingCounts
  <2>2. Starting \in GameMessages
    BY MessageTypes DEF Starting
  <2>3. \A k \in Nat : Copies(k) \in Seq(GameMessages)
    BY <2>2 DEF Copies
  <2> QED
    BY <1>1, <1>3, <2>1, <2>3
<1>5. OnWay = InTheQueue
  <2>1. \A s \in Seq(GameMessages) : <<>> \o s \o <<>> = s
    OBVIOUS
  <2> QED
    BY <1>2, <1>4, <2>1 DEF OnWay
<1> QED
  BY <1>2, <1>3, <1>4, <1>5 DEF Come, Broken, InOrder

LEMMA NextWay ==
  ASSUME (Live /\ LiveTypes /\ ToldInv /\ QuietInv)'
  PROVE  InOrder'
BY LiveWay, PTL

LEMMA CopiesOf ==
  ASSUME NEW n \in Nat
  PROVE  /\ IsPrefix(Copies(n), Copies(n)) /\ IsPrefix(Copies(n), Copies(n + 1))
         /\ Copies(n + 1) # <<>> /\ Copies(n + 1)[1] = Starting /\ Head(Copies(n + 1)) = Starting
         /\ Tail(Copies(n + 1)) = Copies(n)
<1>1. Copies(n) \in Seq({Starting}) /\ Copies(n + 1) \in Seq({Starting})
  BY DEF Copies
<1>2. /\ Len(Copies(n)) = n /\ \A i \in 1..n : Copies(n)[i] = Starting
      /\ Len(Copies(n + 1)) = n + 1 /\ \A i \in 1..(n + 1) : Copies(n + 1)[i] = Starting
  BY DEF Copies
<1> HIDE DEF Copies
<1>3. SubSeq(Copies(n), 1, n) = SubSeq(Copies(n + 1), 1, n)
  BY <1>1, <1>2
<1>4. Copies(n + 1) # <<>> /\ Head(Copies(n + 1)) = Starting
  BY <1>1, <1>2
<1>5. Tail(Copies(n + 1)) = Copies(n)
  <2>1. Len(Tail(Copies(n + 1))) = n /\ \A i \in 1..n : Tail(Copies(n + 1))[i] = Starting
    BY <1>1, <1>2
  <2>2. Tail(Copies(n + 1)) \in Seq({Starting})
    BY <1>1, <1>4
  <2> QED
    BY <1>1, <1>2, <2>1, <2>2
<1> QED
  BY <1>2, <1>3, <1>4, <1>5 DEF IsPrefix

LEMMA PrefixOfMore ==
  ASSUME NEW msgs \in Seq(GameMessages)
  PROVE  /\ IsPrefix(msgs, msgs)
         /\ \A m \in GameMessages : IsPrefix(msgs, Append(msgs, m))
<1>1. \A m \in GameMessages : SubSeq(Append(msgs, m), 1, Len(msgs)) = SubSeq(msgs, 1, Len(msgs))
  OBVIOUS
<1> QED
  BY <1>1 DEF IsPrefix

(* A step of the game sends.                                               *)
LEMMA GameSends ==
  ASSUME Live, LiveTypes, Live', LiveTypes', StageInv, ToldInv, ToldInv', QuietInv, QuietInv',
         GameThread, UNCHANGED <<connectionVars, clientVars>>
  PROVE  LinkNext
<1>0. out \in Seq(GameMessages) /\ out' \in Seq(GameMessages)
  BY DEF LiveTypes, QueueTypes
<1>1. /\ Come' = Come /\ ~Broken /\ ~Broken'
      /\ HasCar(Me)' => OnWay' = out'
      /\ ~HasCar(Me)' => OnWay' = Copies(Cardinality(StartingIn(out')))
      /\ HasCar(Me) => OnWay = out
      /\ ~HasCar(Me) => OnWay = Copies(Cardinality(StartingIn(out)))
  <2>1. inbox' = inbox
    BY DEF connectionVars
  <2>2. InOrder /\ InOrder'
    BY LiveWay, NextWay
  <2> QED
    BY <2>1, <2>2 DEF InOrder
<1>2. IsPrefix(OnWay, OnWay')
  <2>1. CASE HasCar(Me)
    <3>1. HasCar(Me)' /\ (out' = out \/ \E m \in GameMessages : out' = Append(out, m))
      BY <2>1, GameTold DEF Telltale
    <3> QED
      BY <1>0, <1>1, <2>1, <3>1, PrefixOfMore
  <2>2. CASE ~HasCar(Me) /\ HasCar(Me)'
    <3>1. InitPlayer(Me)
      BY <2>2, CarFromInit
    <3>2. out = <<>>
      <4>1. /\ drained # <<>> /\ drained \in Seq(Commands)
            /\ Head(drained).client = Me /\ Head(drained).op = "INIT_PLAYER"
        BY <3>1 DEF InitPlayer, Serve, NextCmd, LiveTypes, QueueTypes
      <4>2. 1 \in DOMAIN drained /\ drained[1] = Head(drained)
        BY <4>1
      <4>3. 1 \in MyInits(drained)
        BY <4>1, <4>2 DEF MyInits
      <4> QED
        BY <4>3 DEF StageInv, Waiting, Served
    <3>3. OnWay = <<>>
      <4>1. StartingIn(out) = {}
        BY <3>2 DEF StartingIn
      <4>2. OnWay = Copies(0)
        BY <1>1, <2>2, <4>1, FS_EmptySet
      <4> QED
        BY <4>2 DEF Copies
    <3>4. SubSeq(<<>>, 1, 0) = SubSeq(out', 1, 0) /\ Len(<<>>) = 0 /\ 0 <= Len(out')
      BY <1>0
    <3> QED
      BY <1>1, <2>2, <3>3, <3>4 DEF IsPrefix
  <2>3. CASE ~HasCar(Me) /\ ~HasCar(Me)'
    <3>1. Telling = {}
      BY <2>3 DEF QuietInv
    <3>2. out' = out \/ \E m \in GameMessages : out' = Append(out, m)
      BY <2>3, <3>1, QuietSends
    <3> DEFINE k == Cardinality(StartingIn(out))
               l == Cardinality(StartingIn(out'))
    <3>3. k \in Nat /\ (l = k \/ l = k + 1)
      <4>1. k \in Nat
        BY <1>0, StartingCounts
      <4>2. CASE out' = out
        BY <4>1, <4>2
      <4>3. ASSUME NEW m \in GameMessages, out' = Append(out, m)
            PROVE  l = k \/ l = k + 1
        <5>1. l = k + (IF m.type = "STARTING_GAME" THEN 1 ELSE 0)
          BY <1>0, <4>3, StartingCounts
        <5> QED
          BY <4>1, <5>1
      <4> QED
        BY <3>2, <4>1, <4>2, <4>3
    <3>4. OnWay = Copies(k) /\ OnWay' = Copies(l)
      BY <1>1, <2>3
    <3> QED
      BY <3>3, <3>4, CopiesOf
  <2> QED
    BY <2>1, <2>2, <2>3
<1> QED
  BY <1>1, <1>2, LinkSteps

(* The Sender passes the first message on, or drops one that would not     *)
(* have been let through.                                                  *)
LEMMA SenderArrives ==
  ASSUME Live, LiveTypes, Live', LiveTypes', ToldInv, ToldInv', QuietInv, QuietInv',
         ServerSender, UNCHANGED clientVars
  PROVE  LinkNext
<1>0. /\ out # <<>> /\ out' = Tail(out) /\ out \in Seq(GameMessages) /\ inbox \in Seq(GameMessages)
      /\ Head(out) \in GameMessages /\ Head(out) = out[1] /\ 1 \in 1..Len(out)
  BY DEF ServerSender, LiveTypes, QueueTypes
<1>1. inbox' = IF Passes(Head(out)) THEN Append(inbox, Head(out)) ELSE inbox
  <2>1. Received[Written[Head(out)]] = [rest |-> <<>>, msgs |-> <<Head(out)>>, threw |-> FALSE]
    BY <1>0, WireAssumption
  <2>2. Received[Written[Head(out)]].msgs = <<Head(out)>>
    BY <2>1
  <2>3. inbox \o <<Head(out)>> = Append(inbox, Head(out))
    BY <1>0
  <2> QED
    BY <2>2, <2>3 DEF ServerSender
<1>2. /\ Come = inbox /\ ~Broken
      /\ HasCar(Me) => OnWay = out
      /\ ~HasCar(Me) => OnWay = Copies(Cardinality(StartingIn(out)))
  BY LiveWay DEF InOrder
<1>3. /\ Come' = inbox' /\ ~Broken'
      /\ HasCar(Me)' => OnWay' = out'
      /\ ~HasCar(Me)' => OnWay' = Copies(Cardinality(StartingIn(out')))
  BY NextWay DEF InOrder
<1>4. HasCar(Me)' <=> HasCar(Me)
  BY DEF ServerSender, gameVars, HasCar
<1>5. CASE HasCar(Me)
  <2>1. Passes(Head(out))
    BY <1>5 DEF ToldInv, Passes, StartsPlaying
  <2> QED
    BY <1>0, <1>1, <1>2, <1>3, <1>4, <1>5, <2>1, LinkSteps
<1>6. CASE ~HasCar(Me)
  <2>1. Passes(Head(out)) <=> Head(out).type = "STARTING_GAME"
    <3>1. ~playing /\ ~StartsPlaying(Head(out))
      BY <1>0, <1>6 DEF QuietInv
    <3>2. Head(out).type \in Unfiltered <=> Head(out).type = "STARTING_GAME"
      BY <1>0, MessageFields DEF Unfiltered
    <3> QED
      BY <3>1, <3>2 DEF Passes
  <2> DEFINE k == Cardinality(StartingIn(out))
             l == Cardinality(StartingIn(out'))
  <2>2. OnWay = Copies(k) /\ OnWay' = Copies(l) /\ l \in Nat
    <3>1. Tail(out) \in Seq(GameMessages)
      BY <1>0
    <3>2. l \in Nat
      BY <1>0, <3>1, StartingCounts
    <3> QED
      BY <1>2, <1>3, <1>4, <1>6, <3>2
  <2>3. k = l + (IF Head(out).type = "STARTING_GAME" THEN 1 ELSE 0)
    BY <1>0, StartingCounts
  <2>4. CASE Head(out).type = "STARTING_GAME"
    <3>1. Head(out) = Starting
      BY <1>0, <2>4 DEF GameMessages, Starting
    <3>2. k = l + 1
      BY <2>3, <2>4
    <3>3. OnWay # <<>> /\ Head(OnWay) = Starting /\ Tail(OnWay) = OnWay'
      BY <2>2, <3>2, CopiesOf
    <3> QED
      BY <1>1, <1>2, <1>3, <2>1, <2>4, <3>1, <3>3, LinkSteps
  <2>5. CASE Head(out).type # "STARTING_GAME"
    <3>1. OnWay' = OnWay
      BY <2>2, <2>3, <2>5
    <3> QED
      BY <1>1, <1>2, <1>3, <2>1, <2>5, <3>1, LinkSteps
  <2> QED
    BY <2>4, <2>5
<1> QED
  BY <1>5, <1>6

(* Both sides live.                                                        *)
LEMMA LiveLink ==
  ASSUME LinkInv, LinkInv', Live, Live', LiveStep
  PROVE  LinkNext
<1>0. LiveTypes /\ LiveTypes'
  BY DEF LinkInv, TypeInv
<1>1. CASE GameThread /\ UNCHANGED <<connectionVars, clientVars>>
  BY <1>0, <1>1, GameSends DEF LinkInv
<1>2. CASE ServerSender /\ UNCHANGED clientVars
  BY <1>0, <1>2, SenderArrives DEF LinkInv
<1>3. CASE \/ OtherClients /\ UNCHANGED <<connectionVars, clientVars>>
           \/ ClientSender /\ UNCHANGED clientVars
           \/ HandleMessage
           \/ Frame /\ client' = "window"
  <2>1. UNCHANGED <<phase, playing, out, stream, receiver, client>>
    <3>1. (OtherClients /\ UNCHANGED <<connectionVars, clientVars>>) \/ ClientSender
            => UNCHANGED <<stream, receiver>>
      BY DEF ClientSender, connectionVars
    <3> QED
      BY <1>3, <3>1, Aside DEF HandleMessage, Frame, Live, feedVars, gameVars, loopVars, clientVars
  <2>2. OnWay' = OnWay /\ Broken' = Broken
    BY <2>1 DEF OnWay, Broken, OnTheWire, InTheQueue, Ending, Dead
  <2>3. inbox' = inbox \/ (inbox # <<>> /\ inbox' = Tail(inbox))
    BY <1>3, Aside DEF HandleMessage, Frame
  <2>4. Come = inbox /\ Come' = inbox'
    BY DEF Come, Live
  <2> QED
    BY <2>2, <2>3, <2>4, LinkSteps
<1> QED
  BY <1>1, <1>2, <1>3 DEF LiveStep

LEMMA JoinTwo ==
  ASSUME NEW d, NEW e
  PROVE  /\ <<d>> \o <<e>> = <<d, e>> /\ <<d>> \o <<>> \o <<e>> = <<d, e>>
         /\ <<>> \o <<>> \o <<e>> = <<e>>
<1> DEFINE S == {d, e}
<1>1. <<d>> \in Seq(S) /\ <<e>> \in Seq(S) /\ <<>> \in Seq(S) /\ <<d, e>> \in Seq(S)
  OBVIOUS
<1>2. \A s \in Seq(S) : s \o <<>> = s /\ <<>> \o s = s
  OBVIOUS
<1>3. <<d>> \o <<e>> = <<d, e>>
  <2>1. \A s, t \in Seq(S) : /\ s \o t \in Seq(S) /\ Len(s \o t) = Len(s) + Len(t)
                             /\ \A i \in 1..Len(s) : (s \o t)[i] = s[i]
                             /\ \A i \in 1..Len(t) : (s \o t)[Len(s) + i] = t[i]
    OBVIOUS
  <2>2. /\ Len(<<d>>) = 1 /\ Len(<<e>>) = 1 /\ Len(<<d, e>>) = 2
        /\ <<d>>[1] = d /\ <<e>>[1] = e /\ <<d, e>>[1] = d /\ <<d, e>>[2] = e
    OBVIOUS
  <2> DEFINE j == <<d>> \o <<e>>
  <2>3. j \in Seq(S) /\ Len(j) = 2 /\ j[1] = d /\ j[2] = e
    <3>1. j \in Seq(S) /\ Len(j) = 2
      BY <1>1, <2>1, <2>2
    <3>2. j[1] = <<d>>[1]
      BY <1>1, <2>1, <2>2
    <3>3. j[1 + 1] = <<e>>[1]
      BY <1>1, <2>1, <2>2
    <3> QED
      BY <2>2, <3>1, <3>2, <3>3
  <2> HIDE DEF j, S
  <2>4. \A i \in 1..2 : j[i] = <<d, e>>[i]
    BY <2>2, <2>3
  <2>5. j = <<d, e>>
    BY <1>1, <2>2, <2>3, <2>4
  <2> QED
    BY <2>5 DEF j
<1> HIDE DEF S
<1> QED
  BY <1>1, <1>2, <1>3

(* The server dies: of what was on its way the first message at most is    *)
(* left, in its place and with its type.                                   *)
LEMMA DieBreaks ==
  ASSUME LinkInv, Live, Die, UNCHANGED clientVars
  PROVE  LinkNext
<1>0. /\ LiveTypes /\ out \in Seq(GameMessages) /\ receiver = "on"
      /\ client = "window" /\ client' = "window"
  BY DEF LinkInv, TypeInv, LiveTypes, QueueTypes, Live, clientVars
<1>1. OnWay \in Seq(GameMessages) /\ ~Broken /\ Broken' /\ Come' = Come
  BY <1>0, LiveWay DEF LinkInv, InOrder, Die, Broken, Dead, Come
<1>2. OnWay' = OnTheWire' \o Ending'
  <2>1. InTheQueue' = <<>>
    BY NothingGoesThrough DEF Die, InTheQueue
  <2>2. Ending' \in {<<>>, <<NoticeMsg>>}
    BY DEF Ending
  <2>3. OnWay' = OnTheWire' \o <<>> \o Ending'
    BY <1>0, <2>1 DEF OnWay
  <2>4. OnTheWire' = <<>> \/ OnTheWire' = Received[stream'].msgs
    BY DEF OnTheWire
  <2>5. stream' # <<>> =>
          Received[stream'].msgs = <<>> \/ \E d \in Arrivals : Received[stream'].msgs = <<d>>
    <3>1. out # <<>> => Head(out) \in GameMessages
      BY <1>0
    <3>2. stream' # <<>> => out # <<>> /\ stream' \in Cuts[Head(out)]
      BY DEF Die
    <3>3. stream' # <<>> => stream' \in Torn
      BY <3>1, <3>2 DEF Torn
    <3> QED
      BY <3>3, ReadTorn
  <2>6. OnTheWire' = <<>> \/ \E d \in Arrivals : OnTheWire' = <<d>>
    BY <2>5 DEF OnTheWire
  <2>7. OnTheWire' \o <<>> = OnTheWire'
    BY <2>6
  <2> QED
    BY <2>3, <2>7
<1>3. Ending' = IF stream' # <<>> /\ Received[stream'].threw THEN <<>> ELSE <<NoticeMsg>>
  BY <1>0 DEF Die, Ending, Dead
<1> DEFINE Kept(n) == SubSeq(OnWay', 1, n) = SubSeq(OnWay, 1, n)
           SameType(n) == n \in DOMAIN OnWay /\ n \in DOMAIN OnWay' /\ OnWay'[n].type = OnWay[n].type
<1>4. \/ OnWay' = <<>>
      \/ OnWay' = <<NoticeMsg>>
      \/ SameType(1) /\ \E d : OnWay' = <<d, NoticeMsg>>
  <2>1. CASE stream' = <<>>
    <3>1. OnTheWire' = <<>> /\ Ending' = <<NoticeMsg>>
      BY <1>3, <2>1 DEF OnTheWire
    <3>2. <<>> \o <<NoticeMsg>> = <<NoticeMsg>>
      OBVIOUS
    <3> QED
      BY <1>2, <3>1, <3>2
  <2>2. CASE stream' # <<>>
    <3>1. out # <<>> /\ Passes(Head(out)) /\ stream' \in Cuts[Head(out)]
      BY <2>2 DEF Die
    <3>2. Head(out) \in GameMessages
      BY <1>0, <3>1
    <3> DEFINE r == Received[stream']
    <3>3. IF r.threw THEN r.msgs = <<>> ELSE r.msgs = <<r.msgs[1]>> /\ r.msgs[1].type = Head(out).type
      BY <2>2, <3>1, <3>2, CutAssumption
    <3>4. CASE r.threw
      <4>1. OnTheWire' = <<>> /\ Ending' = <<>>
        BY <1>3, <2>2, <3>3, <3>4 DEF OnTheWire
      <4> QED
        BY <1>2, <4>1
    <3>5. CASE ~r.threw
      <4>1. PICK d : OnTheWire' = <<d>> /\ Ending' = <<NoticeMsg>> /\ d.type = Head(out).type
        BY <1>3, <2>2, <3>3, <3>5 DEF OnTheWire
      <4>2. OnWay' = <<d, NoticeMsg>>
        BY <1>2, <4>1, JoinTwo
      <4>3. OnWay # <<>> /\ OnWay[1].type = Head(out).type
        <5>1. CASE HasCar(Me)
          <6>1. OnWay = out
            BY <1>0, <5>1, LiveWay DEF LinkInv, InOrder
          <6> QED
            BY <1>0, <3>1, <6>1
        <5>2. CASE ~HasCar(Me)
          <6> DEFINE k == Cardinality(StartingIn(out))
          <6>1. OnWay = Copies(k) /\ k \in Nat
            BY <1>0, <5>2, LiveWay, StartingCounts DEF LinkInv, InOrder
          <6>2. Head(out).type = "STARTING_GAME"
            <7>1. Head(out) = out[1] /\ 1 \in 1..Len(out)
              BY <1>0, <3>1
            <7>2. ~playing /\ ~StartsPlaying(Head(out))
              BY <5>2, <7>1 DEF LinkInv, QuietInv
            <7> QED
              BY <3>1, <3>2, <7>2, MessageFields DEF Passes, Unfiltered
          <6>3. k >= 1
            <7>1. Tail(out) \in Seq(GameMessages)
              BY <1>0, <3>1
            <7>2. Cardinality(StartingIn(Tail(out))) \in Nat
              BY <7>1, StartingCounts
            <7> QED
              BY <1>0, <3>1, <6>2, <7>2, StartingCounts
          <6>4. k - 1 \in Nat /\ (k - 1) + 1 = k
            BY <6>1, <6>3
          <6>5. OnWay # <<>> /\ OnWay[1] = Starting
            BY <6>1, <6>4, CopiesOf
          <6> QED
            BY <6>2, <6>5 DEF Starting
        <5> QED
          BY <5>1, <5>2
      <4>4. 1 \in DOMAIN OnWay
        BY <1>1, <4>3
      <4> QED
        BY <4>1, <4>2, <4>3, <4>4
    <3> QED
      BY <3>4, <3>5
  <2> QED
    BY <2>1, <2>2
<1>5. \E kept \in 0..Len(OnWay) :
        /\ Kept(kept)
        /\ \/ Len(OnWay') = kept
           \/ OnWay' = Append(SubSeq(OnWay', 1, kept), NoticeMsg)
           \/ Len(OnWay') = kept + 1 /\ SameType(kept + 1)
           \/ Len(OnWay') = kept + 2 /\ SameType(kept + 1) /\ OnWay'[kept + 2] = NoticeMsg
  <2>1. 0 \in 0..Len(OnWay)
    BY <1>1
  <2>2. SubSeq(OnWay, 1, 0) = <<>> /\ SubSeq(OnWay', 1, 0) = <<>>
    <3>1. \A d : SubSeq(<<d, NoticeMsg>>, 1, 0) = <<>>
      OBVIOUS
    <3>2. SubSeq(<<>>, 1, 0) = <<>> /\ SubSeq(<<NoticeMsg>>, 1, 0) = <<>>
      OBVIOUS
    <3> QED
      BY <1>1, <1>4, <3>1, <3>2
  <2>3. OnWay' = <<NoticeMsg>> => OnWay' = Append(SubSeq(OnWay', 1, 0), NoticeMsg)
    <3>1. Append(<<>>, NoticeMsg) = <<NoticeMsg>>
      OBVIOUS
    <3> QED
      BY <2>2, <3>1
  <2>4. OnWay' = <<>> => Len(OnWay') = 0
    OBVIOUS
  <2>5. \A d : OnWay' = <<d, NoticeMsg>> => Len(OnWay') = 0 + 2 /\ OnWay'[0 + 2] = NoticeMsg
    <3>1. \A d : Len(<<d, NoticeMsg>>) = 0 + 2 /\ <<d, NoticeMsg>>[0 + 2] = NoticeMsg
      OBVIOUS
    <3> QED
      BY <3>1
  <2>6. SameType(1) => SameType(0 + 1)
    OBVIOUS
  <2> HIDE DEF SameType
  <2> QED
    BY <1>4, <2>1, <2>2, <2>3, <2>4, <2>5, <2>6
<1>6. Channel!Break
  BY <1>1, <1>5 DEF Channel!Break, Channel!Damaged, OnWay, Come, Broken
<1> QED
  BY <1>6 DEF LinkNext

(* A window that goes on without its server gets what is left on the wire  *)
(* and the notice, if its receiver does.                                   *)
LEMMA DeadLink ==
  ASSUME TypeInv, WireInv, WireInv', [ClientNext]_allVars,
         Dead, Dead', client = "window", client' = "window"
  PROVE  LinkNext
<1>1. /\ Broken /\ Broken' /\ Come = inbox /\ Come' = inbox'
      /\ OnWay = OnTheWire \o <<>> \o Ending /\ OnWay' = OnTheWire' \o <<>> \o Ending'
  BY NothingGoesThrough DEF Broken, Come, OnWay, InTheQueue, WireInv
<1>2. CASE ClientReceiver
  <2>1. /\ stream # <<>> /\ stream \in Torn /\ stream' = <<>> /\ receiver = "on"
        /\ inbox' = inbox \o Received[stream].msgs /\ inbox \in Seq(Arrivals)
        /\ receiver' = IF Received[stream].threw THEN "threw" ELSE "on"
    BY <1>2, ReadTorn DEF ClientReceiver, WireInv
  <2>2. CASE Received[stream].threw
    <3>1. OnTheWire = <<>> /\ Ending = <<>> /\ OnTheWire' = <<>> /\ Ending' = <<>>
      BY <2>1, <2>2, ReadTorn DEF OnTheWire, Ending
    <3>2. inbox' = inbox
      BY <2>1, <2>2, ReadTorn
    <3> QED
      BY <1>1, <3>1, <3>2, LinkSteps
  <2>3. CASE ~Received[stream].threw
    <3>1. PICK d \in Arrivals : Received[stream].msgs = <<d>>
      BY <2>1, <2>3, ReadTorn
    <3>2. /\ OnTheWire = <<d>> /\ Ending = <<NoticeMsg>>
          /\ OnTheWire' = <<>> /\ Ending' = <<NoticeMsg>>
      BY <2>1, <2>3, <3>1 DEF OnTheWire, Ending
    <3>3. OnWay = <<d, NoticeMsg>> /\ OnWay' = <<NoticeMsg>>
      BY <1>1, <3>2, JoinTwo
    <3>4. OnWay # <<>> /\ Head(OnWay) = d /\ Tail(OnWay) = OnWay'
      BY <3>3
    <3>5. inbox' = Append(inbox, d)
      BY <2>1, <3>1
    <3> QED
      BY <1>1, <3>4, <3>5, LinkSteps
  <2> QED
    BY <2>2, <2>3
<1>3. CASE EndOfFile
  <2>1. OnTheWire = <<>> /\ Ending = <<NoticeMsg>> /\ OnTheWire' = <<>> /\ Ending' = <<>>
    BY <1>3 DEF EndOfFile, OnTheWire, Ending
  <2>2. OnWay = <<NoticeMsg>> /\ OnWay' = <<>>
    BY <1>1, <2>1
  <2>3. OnWay # <<>> /\ Head(OnWay) = NoticeMsg /\ Tail(OnWay) = OnWay'
    BY <2>2
  <2>4. inbox' = Append(inbox, NoticeMsg)
    BY <1>3 DEF EndOfFile, NoticeMsg
  <2> QED
    BY <1>1, <2>3, <2>4, LinkSteps
<1>4. CASE /\ UNCHANGED <<stream, receiver>>
           /\ inbox' = inbox \/ (inbox # <<>> /\ inbox' = Tail(inbox))
  <2>1. OnTheWire' = OnTheWire /\ Ending' = Ending
    BY <1>4 DEF OnTheWire, Ending
  <2> QED
    BY <1>1, <1>4, <2>1, LinkSteps
<1>5. CASE Server /\ UNCHANGED <<connectionVars, clientVars>>
  BY <1>4, <1>5 DEF connectionVars
<1>6. CASE (ServerSender \/ ClientSender \/ Die)
  <2>1. ~ServerSender /\ ~Die
    BY DEF ServerSender, Die, WireInv
  <2> QED
    BY <1>4, <1>6, <2>1 DEF ClientSender
<1>7. CASE Window \/ Over \/ UNCHANGED allVars
  BY <1>4, <1>7 DEF Window, HandleMessage, Frame, LeaveWindow, ReceiverWoken, ReceiverStops, ClientJoins,
     Over, allVars, connectionVars
<1> QED
  BY <1>2, <1>3, <1>5, <1>6, <1>7 DEF ClientNext, ClientThreads

(* Nothing but its death ends a server.                                    *)
LEMMA OnlyDeath ==
  ASSUME TypeInv, [ClientNext]_allVars, ~Dead, Dead'
  PROVE  Die /\ UNCHANGED clientVars
<1>1. ~(Server /\ UNCHANGED <<connectionVars, clientVars>>)
  BY GameStepAlive
<1>2. ~ClientThreads /\ ~Window /\ ~Over /\ ~UNCHANGED allVars
  BY DEF ClientThreads, ServerSender, ClientReceiver, EndOfFile, ClientSender, Window, HandleMessage,
     Frame, LeaveWindow, ReceiverWoken, ReceiverStops, ClientJoins, Over, allVars, feedVars,
     gameVars, Dead
<1> QED
  BY <1>1, <1>2 DEF ClientNext

LEMMA StepLinks ==
  ASSUME LinkInv, LinkInv', [ClientNext]_allVars
  PROVE  LinkNext
<1>1. CASE client' # "window"
  <2>1. Broken' /\ OnWay' = <<>> /\ Come' = <<>>
    BY <1>1 DEF Broken, OnWay, Come
  <2> QED
    BY <2>1, LinkSteps
<1>2. CASE client' = "window"
  <2>1. client = "window"
    BY <1>2, NoReturn DEF LinkInv
  <2>2. CASE ~Dead /\ ~Dead'
    <3>1. Live /\ Live'
      BY <1>2, <2>1, <2>2 DEF Live
    <3>2. CASE UNCHANGED allVars
      <4>1. UNCHANGED <<phase, playing, out, stream, receiver, client, inbox>>
        BY <3>2 DEF allVars, feedVars, gameVars, connectionVars, clientVars
      <4>2. OnWay' = OnWay /\ Come' = Come /\ (Broken' <=> Broken)
        BY <4>1 DEF OnWay, Come, Broken, OnTheWire, InTheQueue, Ending, Dead
      <4> QED
        BY <4>2, LinkSteps
    <3> QED
      BY <3>1, <3>2, LiveSteps, LiveLink DEF LinkInv
  <2>3. CASE ~Dead /\ Dead'
    BY <2>1, <2>3, OnlyDeath, DieBreaks DEF LinkInv, Live
  <2>4. CASE Dead
    BY <1>2, <2>1, <2>4, NoReturn, DeadLink DEF LinkInv
  <2> QED
    BY <2>2, <2>3, <2>4
<1> QED
  BY <1>1, <1>2

(* The connection is a channel: whatever the threads on both sides do, the *)
(* messages sent to a client that has its car come out at its window once  *)
(* each, in order and as they were sent, until the server dies or the      *)
(* window is closed; then no message comes out of turn.                    *)
THEOREM ConnectionIsChannel == ClientSpec => ChannelRefined
<1>1. ClientInit => Channel!ChannelInit
  <2> SUFFICES ASSUME ClientInit PROVE Channel!ChannelInit
    OBVIOUS
  <2>1. /\ client = "window" /\ ~Dead /\ inbox = <<>> /\ out = <<>>
        /\ OnTheWire = <<>> /\ Ending = <<>>
    BY DEF ClientInit, FeedInit, ConnectionInit, Dead, OnTheWire, Ending
  <2>2. InTheQueue = <<>> /\ <<>> \o <<>> \o <<>> = <<>>
    BY <2>1, NothingGoesThrough DEF InTheQueue
  <2> QED
    BY <2>1, <2>2 DEF Channel!ChannelInit
<1>2. LinkInv /\ LinkInv' /\ [ClientNext]_allVars
        => [Channel!Send \/ Channel!Arrive \/ Channel!Take \/ Channel!Break \/ Channel!HangUp]_(Channel!channelVars)
  BY StepLinks DEF LinkNext, Channel!channelVars, OnWay, Come, Broken
<1> QED
  BY <1>1, <1>2, ClientTypes, ServedOnce, NothingLost, QuietHolds, WireHolds, PTL
     DEF ClientSpec, ChannelRefined, Channel!ChannelSpec, LinkInv
=============================================================================
