---------------------------- MODULE ControllerProofs ----------------------------
(***************************************************************************)
(* Proofs about the controller, for any names, any number of requests and  *)
(* jobs, any range of ports and any number of backups kept.                *)
(***************************************************************************)
EXTENDS ControllerProperties, FiniteSetTheorems, WellFoundedInduction, TLAPS

-----------------------------------------------------------------------------
(* Numbers *)

\* A set of naturals that is not empty has a minimum, and a bounded one a maximum.
LEMMA MinExists ==
    ASSUME NEW S, S \subseteq Nat, S # {}
    PROVE  \E m \in S : \A y \in S : m <= y
<1>1. PICK m \in S : \A y \in S : ~ (<<y, m>> \in OpToRel(<, Nat))
  BY NatLessThanWellFounded, WFMin
<1>2. ASSUME NEW y \in S PROVE m <= y
  <2>1. y \in Nat /\ m \in Nat
    OBVIOUS
  <2>2. ~ (y < m)
    BY <1>1, <2>1 DEF OpToRel
  <2> QED
    BY <2>1, <2>2
<1> QED
  BY <1>2

LEMMA MaxExists ==
    ASSUME NEW n \in Nat, NEW S, S \subseteq 0 .. n, S # {}
    PROVE  \E m \in S : \A y \in S : y <= m
<1> DEFINE T == {x \in 0 .. n : n - x \in S}
<1>1. T \subseteq Nat /\ T # {}
  <2>1. PICK x \in S : TRUE
    OBVIOUS
  <2>2. x \in 0 .. n /\ n - x \in 0 .. n /\ n - (n - x) = x
    OBVIOUS
  <2>3. n - x \in T
    BY <2>2
  <2>4. T \subseteq Nat
    OBVIOUS
  <2> QED
    BY <2>3, <2>4
<1>2. PICK m \in T : \A y \in T : m <= y
  BY <1>1, MinExists
<1>3. n - m \in S
  BY <1>2
<1>4. ASSUME NEW y \in S PROVE y <= n - m
  <2>1. y \in 0 .. n /\ m \in 0 .. n /\ n - y \in 0 .. n /\ n - (n - y) = y
    BY <1>2
  <2>2. n - y \in T
    BY <2>1
  <2>3. m <= n - y
    BY <1>2, <2>2
  <2> QED
    BY <2>1, <2>3
<1> QED
  BY <1>3, <1>4

-----------------------------------------------------------------------------
(* The ports that a create chooses *)

\* The lowest number of a set, and the one after it.
LEMMA NthOfTwo ==
    ASSUME NEW S, S \subseteq Nat, IsFiniteSet(S), NEW k \in {0, 1}, k < Cardinality(S)
    PROVE  Nth(S, k) \in S /\ Cardinality({q \in S : q < Nth(S, k)}) = k
<1> SUFFICES \E p \in S : Cardinality({q \in S : q < p}) = k
  BY DEF Nth
<1>1. S # {} /\ Cardinality(S) \in Nat
  BY FS_EmptySet, FS_CardinalityType
<1>2. PICK m \in S : \A y \in S : m <= y
  BY <1>1, MinExists
<1>3. CASE k = 0
  <2>1. \A q \in S : q \in Nat /\ m \in Nat /\ ~ (q < m)
    BY <1>2
  <2>2. {q \in S : q < m} = {}
    BY <2>1
  <2> QED
    BY <1>3, <2>2, FS_EmptySet
<1>4. CASE k = 1
  <2>1. /\ IsFiniteSet(S \ {m}) /\ Cardinality(S \ {m}) = Cardinality(S) - 1
    BY FS_RemoveElement
  <2>2. S \ {m} # {}
    BY <1>1, <1>4, <2>1, FS_EmptySet
  <2>3. PICK p \in S \ {m} : \A y \in S \ {m} : p <= y
    BY <2>2, MinExists
  <2>4. \A q \in S : q < p <=> q = m
    <3>1. \A q \in S : q \in Nat /\ m \in Nat /\ p \in Nat /\ m <= q /\ (q # m => p <= q)
      BY <1>2, <2>3
    <3>2. p # m /\ p \in S
      BY <2>3
    <3> QED
      BY <3>1, <3>2
  <2>5. {q \in S : q < p} = {m}
    BY <1>2, <2>4
  <2> QED
    BY <1>4, <2>3, <2>5, FS_Singleton
<1> QED
  BY <1>3, <1>4

LEMMA AvailablePorts == /\ IsFiniteSet(Available) /\ Available \subseteq Nat
                        /\ Available \subseteq HostPort /\ Cardinality(Available) \in Nat
                        /\ 0 \notin HostPort
<1>1. IsFiniteSet(HostPort)
  BY MaxPortAssumption, FS_Interval DEF HostPort, MinPort
<1>2. IsFiniteSet(Available)
  BY <1>1, FS_Subset DEF Available
<1>3. HostPort \subseteq Nat \ {0}
  BY MaxPortAssumption DEF HostPort, MinPort
<1> QED
  BY <1>2, <1>3, FS_CardinalityType DEF Available

\* The table of each game: two entries for one port, one for another.
LEMMA ThreeEntries ==
    ASSUME NEW a, NEW b, a # b, NEW config, DOMAIN config = 1 .. 3,
           config[1].container = a, config[2].container = a, config[3].container = b
    PROVE  /\ Before(config, a) = 0 /\ Before(config, b) = 1
           /\ UniquePorts(config) = {a, b} /\ Cardinality(UniquePorts(config)) = 2
<1>1. FirstAt(config, a) = 1
  <2>1. \A k \in 1 .. 3 :
           (config[k].container = a /\ \A j \in 1 .. k - 1 : config[j].container # a) <=> k = 1
    OBVIOUS
  <2> QED
    BY <2>1 DEF FirstAt
<1>2. FirstAt(config, b) = 3
  <2>1. \A k \in 1 .. 3 :
           (config[k].container = b /\ \A j \in 1 .. k - 1 : config[j].container # b) <=> k = 3
    OBVIOUS
  <2> QED
    BY <2>1 DEF FirstAt
<1>3. {config[j].container : j \in 1 .. FirstAt(config, a) - 1} = {}
  BY <1>1
<1>4. {config[j].container : j \in 1 .. FirstAt(config, b) - 1} = {a}
  <2>1. 3 - 1 = 2 /\ \A j \in 1 .. 2 : j = 1 \/ j = 2
    OBVIOUS
  <2> QED
    BY <1>2, <2>1
<1>5. UniquePorts(config) = {a, b}
  <2>1. \A j \in 1 .. 3 : j = 1 \/ j = 2 \/ j = 3
    OBVIOUS
  <2> QED
    BY <2>1 DEF UniquePorts
<1>6. Cardinality({a, b}) = 2
  <2>1. IsFiniteSet({a}) /\ Cardinality({a}) = 1
    BY FS_Singleton
  <2>2. Cardinality({a} \cup {b}) = Cardinality({a}) + 1
    BY <2>1, FS_AddElement
  <2>3. {a, b} = {a} \cup {b}
    OBVIOUS
  <2> QED
    BY <2>1, <2>2, <2>3
<1>7. Cardinality({}) = 0 /\ Cardinality({a}) = 1
  BY FS_EmptySet, FS_Singleton
<1> QED
  BY <1>3, <1>4, <1>5, <1>6, <1>7 DEF Before

\* What is published and told to the server for a game.
WellMapped(g, config, env) ==
    /\ DOMAIN config = 1 .. 3
    /\ \A j, k \in 1 .. 3 :
          config[j].host # 0 =>
              (config[j].host = config[k].host
                   <=> GAMES[g][j].container = GAMES[g][k].container)
    /\ g = "satisfactory" =>
          /\ \A k \in 1 .. 3 : config[k].host = config[k].container /\ config[k].host # 0
          /\ env = [Port |-> config[1].host, ReliablePort |-> config[3].host]

LEMMA Tables ==
    /\ \A g \in Game : DOMAIN GAMES[g] = 1 .. 3 /\ GAMES[g] \in Config
    /\ /\ GAMES["satisfactory"][1].container = 7777 /\ GAMES["satisfactory"][2].container = 7777
       /\ GAMES["satisfactory"][3].container = 8888
    /\ /\ GAMES["minecraft"][1].container = 25565 /\ GAMES["minecraft"][2].container = 25565
       /\ GAMES["minecraft"][3].container = 8080
<1>1. \A c \in ContainerPort :
         Published(c) \in [host : {0} \cup HostPort, container : ContainerPort]
  BY DEF Published
<1>2. {7777, 8888, 25565, 8080} \subseteq ContainerPort
  BY DEF ContainerPort
<1>3. GAMES["satisfactory"] = <<Published(7777), Published(7777), Published(8888)>>
  BY DEF GAMES
<1>4. GAMES["minecraft"] = <<Published(25565), Published(25565), Published(8080)>>
  BY DEF GAMES
<1>5. GAMES["satisfactory"] \in Config /\ GAMES["minecraft"] \in Config
  <2>1. \A x, y \in [host : {0} \cup HostPort, container : ContainerPort] :
           <<x, x, y>> \in Config
    BY DEF Config
  <2> QED
    BY <1>1, <1>2, <1>3, <1>4, <2>1
<1>6. DOMAIN GAMES["satisfactory"] = 1 .. 3 /\ DOMAIN GAMES["minecraft"] = 1 .. 3
  BY <1>3, <1>4
<1> QED
  BY <1>3, <1>4, <1>5, <1>6 DEF Game, Published

\* The two ports found for a game: different ones, or not found.
LEMMA TwoPorts ==
    ASSUME NEW g \in Game, NEW a, NEW b, a # b,
           GAMES[g][1].container = a, GAMES[g][2].container = a, GAMES[g][3].container = b
    PROVE  LET p == PortMapping(GAMES[g], a)
               q == PortMapping(GAMES[g], b)
           IN  /\ p \in {0} \cup HostPort /\ q \in {0} \cup HostPort
               /\ p # 0 \/ q # 0 => p # q
               /\ Cardinality(Available) >= 2 => p # 0 /\ q # 0
               /\ UniquePorts(GAMES[g]) = {a, b} /\ Cardinality(UniquePorts(GAMES[g])) = 2
<1> DEFINE p == PortMapping(GAMES[g], a)
           q == PortMapping(GAMES[g], b)
           n == Cardinality(Available)
<1>1. /\ Before(GAMES[g], a) = 0 /\ Before(GAMES[g], b) = 1
      /\ UniquePorts(GAMES[g]) = {a, b} /\ Cardinality(UniquePorts(GAMES[g])) = 2
  <2>1. DOMAIN GAMES[g] = 1 .. 3
    BY Tables
  <2> QED
    BY <2>1, ThreeEntries
<1>2. p = IF 0 < n THEN Nth(Available, 0) ELSE 0
  BY <1>1 DEF PortMapping
<1>3. q = IF 1 < n THEN Nth(Available, 1) ELSE 0
  BY <1>1 DEF PortMapping
<1>4. n \in Nat /\ 0 \notin HostPort
  BY AvailablePorts
<1>5. 0 < n => /\ Nth(Available, 0) \in HostPort
               /\ Cardinality({x \in Available : x < Nth(Available, 0)}) = 0
  BY AvailablePorts, NthOfTwo
<1>6. 1 < n => /\ Nth(Available, 1) \in HostPort
               /\ Cardinality({x \in Available : x < Nth(Available, 1)}) = 1
  BY AvailablePorts, NthOfTwo
<1>7. 1 < n => Nth(Available, 0) # Nth(Available, 1)
  BY <1>4, <1>5, <1>6
<1> HIDE DEF p, q, n
<1>8. p \in {0} \cup HostPort /\ q \in {0} \cup HostPort
  BY <1>2, <1>3, <1>5, <1>6
<1>9. p # 0 \/ q # 0 => p # q
  BY <1>2, <1>3, <1>4, <1>5, <1>6, <1>7
<1>10. n >= 2 => p # 0 /\ q # 0
  BY <1>2, <1>3, <1>4, <1>5, <1>6
<1> QED
  BY <1>1, <1>8, <1>9, <1>10 DEF p, q, n

LEMMA ChosenPorts ==
    ASSUME games = GAMES, NEW g \in Game, ~ OutOfPorts(g)
    PROVE  /\ Mapped(g, GAMES[g]) \in Config /\ EnvOf(g, GAMES[g]) \in Env
           /\ WellMapped(g, Mapped(g, GAMES[g]), EnvOf(g, GAMES[g]))
<1>1. PICK a \in ContainerPort, b \in ContainerPort :
         /\ a # b
         /\ GAMES[g][1].container = a /\ GAMES[g][2].container = a /\ GAMES[g][3].container = b
         /\ g = "satisfactory" => a = 7777 /\ b = 8888
  BY Tables DEF Game, ContainerPort
<1> DEFINE p == PortMapping(GAMES[g], a)
           q == PortMapping(GAMES[g], b)
           c == Mapped(g, GAMES[g])
           e == EnvOf(g, GAMES[g])
<1>2. /\ p \in {0} \cup HostPort /\ q \in {0} \cup HostPort
      /\ p # 0 \/ q # 0 => p # q
      /\ Cardinality(Available) >= 2 => p # 0 /\ q # 0
      /\ UniquePorts(GAMES[g]) = {a, b} /\ Cardinality(UniquePorts(GAMES[g])) = 2
  BY <1>1, TwoPorts
<1>3. g = "satisfactory" => p \in HostPort /\ q \in HostPort /\ p # 0 /\ q # 0
  <2>1. g = "satisfactory" => Cardinality(Available) >= 2
    BY <1>2, AvailablePorts DEF OutOfPorts
  <2> QED
    BY <1>2, <2>1
<1>4. DOMAIN GAMES[g] = 1 .. 3
  BY Tables
<1>5. /\ c = [k \in 1 .. 3 |-> [host |-> PortMapping(GAMES[g], GAMES[g][k].container),
                               container |-> IF g = "satisfactory"
                                               THEN PortMapping(GAMES[g], GAMES[g][k].container)
                                               ELSE GAMES[g][k].container]]
  BY <1>4 DEF Mapped
<1> HIDE DEF c
<1>6. /\ DOMAIN c = 1 .. 3
      /\ c[1].host = p /\ c[2].host = p /\ c[3].host = q
      /\ c[1].container = IF g = "satisfactory" THEN p ELSE a
      /\ c[2].container = IF g = "satisfactory" THEN p ELSE a
      /\ c[3].container = IF g = "satisfactory" THEN q ELSE b
  BY <1>1, <1>5
<1>7. e = [Port |-> IF g = "satisfactory" THEN p ELSE 0,
           ReliablePort |-> IF g = "satisfactory" THEN q ELSE 0]
  BY <1>1, <1>2 DEF EnvOf
<1> HIDE DEF p, q, e
<1>8. HostPort \subseteq ContainerPort
  BY DEF ContainerPort
<1>9. c \in Config
  <2>1. \A k \in 1 .. 3 : c[k] \in [host : {0} \cup HostPort, container : ContainerPort]
    <3>1. \A k \in 1 .. 3 : k = 1 \/ k = 2 \/ k = 3
      OBVIOUS
    <3>2. \A k \in 1 .. 3 : c[k] = [host |-> c[k].host, container |-> c[k].container]
      BY <1>5
    <3> QED
      BY <1>1, <1>2, <1>3, <1>6, <1>8, <3>1, <3>2
  <2>2. c = [k \in 1 .. 3 |-> c[k]]
    BY <1>5
  <2> QED
    BY <2>1, <2>2 DEF Config
<1>10. e \in Env
  BY <1>2, <1>7 DEF Env
<1>11. WellMapped(g, c, e)
  <2>1. \A k \in 1 .. 3 : k = 1 \/ k = 2 \/ k = 3
    OBVIOUS
  <2>2. \A j, k \in 1 .. 3 :
           c[j].host # 0 =>
               (c[j].host = c[k].host <=> GAMES[g][j].container = GAMES[g][k].container)
    BY <1>1, <1>2, <1>6, <2>1
  <2>3. g = "satisfactory" =>
           /\ \A k \in 1 .. 3 : c[k].host = c[k].container /\ c[k].host # 0
           /\ e = [Port |-> c[1].host, ReliablePort |-> c[3].host]
    BY <1>3, <1>6, <1>7, <2>1
  <2> QED
    BY <1>6, <2>2, <2>3 DEF WellMapped
<1> QED
  BY <1>9, <1>10, <1>11 DEF c, e

-----------------------------------------------------------------------------
(* The game servers: every create has its name and its game, every port    *)
(* chosen is one of its game's, and the table stays as it was.             *)

Chosen(c) == WellMapped(c.game, c.config, c.env)

GamesInv ==
    /\ GamesTypeOK
    /\ games = GAMES
    /\ \A r \in Request : create[r].pc # "idle" =>
          create[r].name \in Name /\ create[r].game \in Game
    /\ \A r \in Request : create[r].pc \in {"create", "start"} => Chosen(create[r])
    /\ \A n \in Name : IF container[n].game = Nil THEN container[n].config = <<>>
                                                  ELSE Chosen(container[n])

LEMMA Blanks == NoContainer \in Container /\ NoCreate \in Create /\ <<>> \in Config
<1>1. <<>> \in Config /\ NoEnv \in Env
  BY DEF Config, NoEnv, Env
<1> QED
  BY <1>1 DEF NoContainer, Container, NoCreate, Create

LEMMA InitGames == GamesInit => GamesInv
<1>1. GAMES \in [Game -> Config]
  <2>1. \A g \in Game : GAMES[g] \in Config
    BY Tables
  <2>2. GAMES = [g \in Game |-> GAMES[g]]
    BY DEF GAMES, Game
  <2> QED
    BY <2>1, <2>2
<1> QED
  BY <1>1, Blanks DEF GamesInit, GamesInv, GamesTypeOK, NoContainer, NoCreate

GamesNext ==
    \/ \E r \in Request, g \in Game, n \in Name : CreateArrives(r, g, n)
    \/ \E r \in Request : CreateHandler(r)
    \/ \E n \in Name : Manage(n)
    \/ GamesCrash
    \/ UNCHANGED gameVars

LEMMA GamesKept == GamesInv /\ GamesNext => GamesInv'
<1> SUFFICES ASSUME GamesInv, GamesNext PROVE GamesInv'
  OBVIOUS
<1>0. /\ games \in [Game -> Config] /\ container \in [Name -> Container]
      /\ create \in [Request -> Create] /\ games = GAMES
  BY DEF GamesInv, GamesTypeOK
<1>1. ASSUME NEW r \in Request, NEW c \in Create, create' = [create EXCEPT ![r] = c],
             c.pc # "idle" => c.name \in Name /\ c.game \in Game,
             c.pc \in {"create", "start"} => Chosen(c),
             UNCHANGED <<games, container>>
      PROVE  GamesInv'
  <2>1. create' \in [Request -> Create]
    BY <1>0, <1>1
  <2>2. create'[r] = c /\ \A s \in Request : s # r => create'[s] = create[s]
    BY <1>0, <1>1
  <2> QED
    BY <1>0, <1>1, <2>1, <2>2 DEF GamesInv, GamesTypeOK
<1>2. ASSUME NEW n \in Name, NEW c \in Container, container' = [container EXCEPT ![n] = c],
             IF c.game = Nil THEN c.config = <<>> ELSE Chosen(c),
             create' = create \/ (\E r \in Request, d \in Create :
                 /\ create' = [create EXCEPT ![r] = d]
                 /\ d.pc # "idle" => d.name \in Name /\ d.game \in Game
                 /\ d.pc \in {"create", "start"} => Chosen(d)),
             games' = games
      PROVE  GamesInv'
  <2>1. /\ container' \in [Name -> Container] /\ container'[n] = c
        /\ \A m \in Name : m # n => container'[m] = container[m]
    BY <1>0, <1>2
  <2>2. \A m \in Name : IF container'[m].game = Nil THEN container'[m].config = <<>>
                                                    ELSE Chosen(container'[m])
    BY <1>2, <2>1 DEF GamesInv
  <2>3. /\ create' \in [Request -> Create]
        /\ \A s \in Request : create'[s].pc # "idle" =>
              create'[s].name \in Name /\ create'[s].game \in Game
        /\ \A s \in Request : create'[s].pc \in {"create", "start"} => Chosen(create'[s])
    <3>1. CASE create' = create
      BY <1>0, <3>1 DEF GamesInv
    <3>2. CASE create' # create
      <4>1. PICK r \in Request, d \in Create :
                 /\ create' = [create EXCEPT ![r] = d]
                 /\ d.pc # "idle" => d.name \in Name /\ d.game \in Game
                 /\ d.pc \in {"create", "start"} => Chosen(d)
        BY <1>2, <3>2
      <4>2. create'[r] = d /\ \A s \in Request : s # r => create'[s] = create[s]
        BY <1>0, <4>1
      <4> QED
        BY <1>0, <4>1, <4>2 DEF GamesInv
    <3> QED
      BY <3>1, <3>2
  <2> QED
    BY <1>0, <1>2, <2>1, <2>2, <2>3 DEF GamesInv, GamesTypeOK
<1>3. ASSUME NEW r \in Request, NEW g \in Game, NEW n \in Name, CreateArrives(r, g, n)
      PROVE  GamesInv'
  <2> DEFINE c == [NoCreate EXCEPT !.pc = "ports", !.name = n, !.game = g]
  <2>1. c \in Create /\ c.pc = "ports" /\ c.name = n /\ c.game = g
    BY Blanks DEF NoCreate, Create
  <2>2. create' = [create EXCEPT ![r] = c] /\ UNCHANGED <<games, container>>
    BY <1>3 DEF CreateArrives
  <2> HIDE DEF c
  <2> QED
    BY <1>1, <2>1, <2>2
<1>4. ASSUME NEW r \in Request, PodmanRefuses(r) \/ PodmanDoesNotStart(r) PROVE GamesInv'
  <2>1. create' = [create EXCEPT ![r] = NoCreate] /\ UNCHANGED <<games, container>>
    BY <1>4 DEF PodmanRefuses, PodmanDoesNotStart, Answer
  <2>2. NoCreate.pc = "idle"
    BY DEF NoCreate
  <2> QED
    BY <1>1, <2>1, <2>2, Blanks
<1>5. ASSUME NEW r \in Request, ChoosePorts(r) PROVE GamesInv'
  <2> DEFINE g == create[r].game
             config == Mapped(g, GAMES[g])
             env == EnvOf(g, GAMES[g])
             c == [create[r] EXCEPT !.pc = "create", !.config = config, !.env = env]
  <2>1. /\ g \in Game /\ create[r].name \in Name /\ ~ OutOfPorts(g)
        /\ create' = [create EXCEPT ![r] = c]
        /\ UNCHANGED <<games, container>>
    BY <1>0, <1>5 DEF ChoosePorts, CreateAt, TableAfter, GamesInv
  <2>2. config \in Config /\ env \in Env /\ WellMapped(g, config, env)
    BY <1>0, <2>1, ChosenPorts
  <2> HIDE DEF config, env
  <2>3. /\ c \in Create /\ c.pc = "create" /\ c.game = g /\ c.name = create[r].name
        /\ c.config = config /\ c.env = env
    BY <1>0, <2>2 DEF Create
  <2> HIDE DEF c, g
  <2> QED
    BY <1>1, <2>1, <2>2, <2>3 DEF Chosen
<1>6. ASSUME NEW r \in Request, PodmanCreates(r) PROVE GamesInv'
  <2> DEFINE n == create[r].name
             c == [status |-> "stopped", game |-> create[r].game,
                   config |-> create[r].config, env |-> create[r].env]
             d == [create[r] EXCEPT !.pc = "start"]
  <2>1. /\ n \in Name /\ create[r].game \in Game /\ Chosen(create[r])
        /\ container' = [container EXCEPT ![n] = c]
        /\ create' = [create EXCEPT ![r] = d] /\ games' = games
    BY <1>6 DEF PodmanCreates, CreateAt, GamesInv
  <2>2. c \in Container /\ c.game # Nil /\ Chosen(c)
    BY <1>0, <2>1, NilIsNoGame DEF Create, Container, Chosen
  <2>3. /\ d \in Create /\ d.pc = "start" /\ d.name \in Name /\ d.game \in Game /\ Chosen(d)
    BY <1>0, <2>1 DEF Create, Chosen
  <2> HIDE DEF n, c, d
  <2> QED
    BY <1>2, <2>1, <2>2, <2>3
<1>7. ASSUME NEW n \in Name, NEW st \in {"stopped", "running"}, SetStatus(n, st), games' = games,
             create' = create \/ \E r \in Request : Answer(r)
      PROVE  GamesInv'
  <2> DEFINE c == [container[n] EXCEPT !.status = st]
  <2>1. c \in Container /\ c.game = container[n].game /\ c.config = container[n].config
        /\ c.env = container[n].env
    BY <1>0 DEF Container
  <2>2. container' = [container EXCEPT ![n] = c]
    BY <1>7 DEF SetStatus
  <2>3. IF c.game = Nil THEN c.config = <<>> ELSE Chosen(c)
    BY <2>1 DEF GamesInv, Chosen
  <2>4. create' = create \/ (\E r \in Request, d \in Create :
                 /\ create' = [create EXCEPT ![r] = d]
                 /\ d.pc # "idle" => d.name \in Name /\ d.game \in Game
                 /\ d.pc \in {"create", "start"} => Chosen(d))
    <3>1. NoCreate.pc = "idle"
      BY DEF NoCreate
    <3> QED
      BY <1>7, <3>1, Blanks DEF Answer
  <2> HIDE DEF c
  <2> QED
    BY <1>2, <1>7, <2>1, <2>2, <2>3, <2>4
<1>8. ASSUME NEW r \in Request, PodmanStarts(r) PROVE GamesInv'
  <2>1. create[r].name \in Name
    BY <1>8 DEF PodmanStarts, CreateAt, GamesInv
  <2> QED
    BY <1>7, <1>8, <2>1 DEF PodmanStarts
<1>9. ASSUME NEW n \in Name, Manage(n) PROVE GamesInv'
  <2>1. CASE Start(n) \/ Stop(n)
    BY <1>7, <2>1 DEF Start, Stop
  <2>2. CASE \E force \in BOOLEAN : Destroy(n, force)
    <3>1. container' = [container EXCEPT ![n] = NoContainer] /\ UNCHANGED <<games, create>>
      BY <2>2 DEF Destroy
    <3>2. NoContainer.game = Nil /\ NoContainer.config = <<>>
      BY DEF NoContainer
    <3> QED
      BY <1>2, <3>1, <3>2, Blanks
  <2> QED
    BY <1>9, <2>1, <2>2 DEF Manage
<1>10. ASSUME GamesCrash PROVE GamesInv'
  BY <1>0, <1>10, Blanks DEF GamesCrash, GamesInv, GamesTypeOK, NoCreate
<1>11. ASSUME UNCHANGED gameVars PROVE GamesInv'
  BY <1>11 DEF gameVars, GamesInv, GamesTypeOK
<1> QED
  BY <1>3, <1>4, <1>5, <1>6, <1>8, <1>9, <1>10, <1>11 DEF GamesNext, CreateHandler

-----------------------------------------------------------------------------
(* What prune lists *)

\* No name is the beginning of another's keys: a key ends with the only slash
\* that is in it.
LEMMA PrefixIsName ==
    ASSUME NEW T, NEW n \in Seq(T), NEW m \in Seq(T), NEW x,
           \A k \in DOMAIN n : n[k] # x, \A k \in DOMAIN m : m[k] # x
    PROVE  IsPrefix(Append(n, x), Append(m, x)) <=> n = m
<1> DEFINE a == Append(n, x)
           b == Append(m, x)
           U == T \cup {x}
<1>0. n \in Seq(U) /\ m \in Seq(U) /\ x \in U
  OBVIOUS
<1>1. /\ a \in Seq(U) /\ Len(a) = Len(n) + 1 /\ a[Len(n) + 1] = x
      /\ \A k \in 1 .. Len(n) : a[k] = n[k]
  BY <1>0
<1>2. /\ b \in Seq(U) /\ Len(b) = Len(m) + 1 /\ b[Len(m) + 1] = x
      /\ \A k \in 1 .. Len(m) : b[k] = m[k]
  BY <1>0
<1>3. /\ Len(n) \in Nat /\ DOMAIN n = 1 .. Len(n)
      /\ Len(m) \in Nat /\ DOMAIN m = 1 .. Len(m)
  OBVIOUS
<1> HIDE DEF a, b
<1>4. ASSUME IsPrefix(a, b) PROVE n = m
  <2>1. Len(a) <= Len(b) /\ SubSeq(a, 1, Len(a)) = SubSeq(b, 1, Len(a))
    BY <1>4 DEF IsPrefix
  <2>2. \A k \in 1 .. Len(a) : a[k] = b[k]
    <3>1. ASSUME NEW k \in 1 .. Len(a)
          PROVE  SubSeq(a, 1, Len(a))[k] = a[k] /\ SubSeq(b, 1, Len(a))[k] = b[k]
      BY <1>1, <1>2, <1>3, <2>1
    <3> QED
      BY <2>1, <3>1
  <2>3. Len(n) = Len(m)
    <3>1. b[Len(n) + 1] = x /\ Len(n) <= Len(m)
      BY <1>1, <1>2, <1>3, <2>1, <2>2
    <3>2. ~ (Len(n) + 1 <= Len(m))
      <4>1. \A k \in 1 .. Len(m) : m[k] # x
        BY <1>3
      <4>2. Len(n) + 1 <= Len(m) => Len(n) + 1 \in 1 .. Len(m)
        BY <1>3
      <4> QED
        BY <1>2, <3>1, <4>1, <4>2
    <3>3. Len(n) \in Nat /\ Len(m) \in Nat
      BY <1>3
    <3>4. Len(n) <= Len(m)
      BY <3>1
    <3> QED
      BY <3>2, <3>3, <3>4
  <2>4. \A k \in 1 .. Len(n) : n[k] = m[k]
    BY <1>1, <1>2, <1>3, <2>2, <2>3
  <2> QED
    BY <2>3, <2>4
<1>5. ASSUME n = m PROVE IsPrefix(a, b)
  <2>1. a = b
    BY <1>5 DEF a, b
  <2> QED
    BY <1>1, <2>1 DEF IsPrefix
<1> QED
  BY <1>4, <1>5 DEF a, b

\* The listing of a directory's keys is that of its own backups.
LEMMA ListedAreKept ==
    ASSUME NEW n \in Name, \A u \in DOMAIN store : store[u].name \in Name
    PROVE  Listed(n) = Kept(n)
<1>1. ASSUME NEW m \in Name PROVE IsPrefix(Key(n), Key(m)) <=> n = m
  <2>1. /\ n \in Seq(STRING) /\ m \in Seq(STRING)
        /\ \A k \in DOMAIN n : n[k] # "/"
        /\ \A k \in DOMAIN m : m[k] # "/"
    BY NamesAreStrings
  <2> QED
    BY <2>1, PrefixIsName DEF Key
<1> QED
  BY <1>1 DEF Listed, Kept, Prefix

-----------------------------------------------------------------------------
(* The store: why an upload that may be deleted stays one that may be.     *)

Newer(u) == {v \in Kept(store[u].name) : v > u}
Outdated(u) == Cardinality(Newer(u)) >= Keep

StoreOK ==
    /\ store \in Seq(Upload) /\ Len(store) <= MaxUploads
    /\ \A u \in DOMAIN store : store[u].name \in dirs
    /\ OnlyWholeStored
    /\ \A u \in DOMAIN store : ~ store[u].stored => Outdated(u)

\* What is outdated stays so, and nothing leaves the order of the uploads.
OutdatedStays ==
    \A u \in DOMAIN store : u \in DOMAIN store' /\ (Outdated(u) => Outdated(u)')

LEMMA StoreIndex ==
    ASSUME store \in Seq(Upload)
    PROVE  /\ Len(store) \in Nat /\ DOMAIN store = 1 .. Len(store)
           /\ \A u \in DOMAIN store :
                 /\ Newer(u) \subseteq DOMAIN store /\ IsFiniteSet(Newer(u))
                 /\ Cardinality(Newer(u)) \in Nat
<1>1. Len(store) \in Nat /\ DOMAIN store = 1 .. Len(store)
  OBVIOUS
<1>2. IsFiniteSet(DOMAIN store)
  BY <1>1, FS_Interval
<1>3. \A u \in DOMAIN store : Newer(u) \subseteq DOMAIN store
  BY DEF Newer, Kept
<1> QED
  BY <1>1, <1>2, <1>3, FS_Subset, FS_CardinalityType

\* More newer backups do no harm.
LEMMA MoreNewer ==
    ASSUME store \in Seq(Upload), store' \in Seq(Upload),
           NEW u \in DOMAIN store, NEW w \in DOMAIN store, u \in DOMAIN store',
           Outdated(w), Newer(w) \subseteq Newer(u)'
    PROVE  Outdated(u)'
<1>1. /\ Cardinality(Newer(w)) \in Nat
  BY StoreIndex
<1>2. IsFiniteSet(Newer(u)') /\ Cardinality(Newer(u)') \in Nat
  <2>1. /\ Len(store') \in Nat /\ DOMAIN store' = 1 .. Len(store')
    OBVIOUS
  <2>2. IsFiniteSet(DOMAIN store')
    BY <2>1, FS_Interval
  <2>3. Newer(u)' \subseteq DOMAIN store'
    BY DEF Newer, Kept
  <2> QED
    BY <2>2, <2>3, FS_Subset, FS_CardinalityType
<1>3. Cardinality(Newer(w)) <= Cardinality(Newer(u)')
  BY <1>2, FS_Subset
<1>4. Cardinality(Newer(w)) >= Keep
  BY DEF Outdated
<1>5. Cardinality(Newer(u)') >= Keep
  BY <1>1, <1>2, <1>3, <1>4, KeepAssumption
<1> QED
  BY <1>5 DEF Outdated

\* A delete of outdated uploads. If it takes some of those that make u outdated,
\* let x be the newest it takes: those newer than x, enough of them, remain.
LEMMA DeleteKeeps ==
    ASSUME StoreOK, NEW S, \A x \in S : x \in DOMAIN store /\ Outdated(x),
           Delete(S), dirs' = dirs
    PROVE  StoreOK' /\ OutdatedStays
<1>1. /\ store \in Seq(Upload) /\ Len(store) \in Nat /\ DOMAIN store = 1 .. Len(store)
  BY StoreIndex DEF StoreOK
<1>2. /\ store' = [u \in DOMAIN store |-> [store[u] EXCEPT !.stored = @ /\ u \notin S]]
      /\ DOMAIN store' = DOMAIN store
  BY DEF Delete
<1>3. \A u \in DOMAIN store : store[u] \in Upload
  BY <1>1
<1>4. ASSUME NEW u \in DOMAIN store
      PROVE  /\ store'[u] \in Upload /\ store'[u].name = store[u].name
             /\ store'[u].whole = store[u].whole
             /\ store'[u].stored = (store[u].stored /\ u \notin S)
  <2>1. store[u] \in Upload /\ (store[u].stored /\ u \notin S) \in BOOLEAN
    BY <1>3
  <2>2. store'[u] = [store[u] EXCEPT !.stored = (store[u].stored /\ u \notin S)]
    BY <1>2
  <2> QED
    BY <2>1, <2>2 DEF Upload
<1>5. store' \in Seq(Upload) /\ Len(store') = Len(store)
  <2>1. store' \in [1 .. Len(store) -> Upload]
    BY <1>1, <1>2, <1>4
  <2> QED
    BY <1>1, <2>1
<1>6. \A n, u : u \in Kept(n)' <=> u \in Kept(n) /\ u \notin S
  BY <1>2, <1>4 DEF Kept
<1>7. \A u \in DOMAIN store : \A v : v \in Newer(u)' <=> v \in Newer(u) /\ v \notin S
  BY <1>4, <1>6 DEF Newer
<1>8. ASSUME NEW u \in DOMAIN store, Outdated(u) PROVE Outdated(u)'
  <2>1. CASE Newer(u) \cap S = {}
    <3>1. Newer(u) \subseteq Newer(u)'
      BY <1>7, <2>1
    <3> QED
      BY <1>1, <1>2, <1>5, <1>8, <3>1, MoreNewer
  <2>2. CASE Newer(u) \cap S # {}
    <3>1. Newer(u) \cap S \subseteq 0 .. Len(store)
      BY <1>1, StoreIndex
    <3>2. PICK x \in Newer(u) \cap S : \A y \in Newer(u) \cap S : y <= x
      BY <1>1, <2>2, <3>1, MaxExists
    <3>3. /\ x \in DOMAIN store /\ Outdated(x)
          /\ store[x].name = store[u].name /\ x > u
      BY DEF Newer, Kept
    <3>4. ASSUME NEW v \in Newer(x) PROVE v \in Newer(u)'
      <4>1. v \in Kept(store[u].name) /\ v > x /\ v \in DOMAIN store
        BY <3>3 DEF Newer, Kept
      <4>2. v > u
        BY <1>1, <3>3, <4>1
      <4>3. v \in Newer(u)
        BY <4>1, <4>2 DEF Newer
      <4>4. ~ (v <= x)
        BY <1>1, <3>3, <4>1
      <4>5. v \notin S
        BY <3>2, <4>3, <4>4
      <4> QED
        BY <1>7, <4>3, <4>5
    <3> QED
      BY <1>1, <1>2, <1>5, <3>3, <3>4, MoreNewer
  <2> QED
    BY <2>1, <2>2
<1>9. ASSUME NEW u \in DOMAIN store', ~ store'[u].stored PROVE Outdated(u)'
  <2>1. u \in DOMAIN store /\ (u \in S \/ ~ store[u].stored)
    BY <1>2, <1>4, <1>9
  <2>2. Outdated(u)
    BY <2>1 DEF StoreOK
  <2> QED
    BY <1>8, <2>1, <2>2
<1>10. OutdatedStays
  BY <1>2, <1>8 DEF OutdatedStays
<1>11. OnlyWholeStored'
  BY <1>2, <1>4 DEF StoreOK, OnlyWholeStored
<1>12. ASSUME NEW u \in DOMAIN store' PROVE store'[u].name \in dirs'
  <2>1. u \in DOMAIN store /\ store'[u].name = store[u].name
    BY <1>2, <1>4
  <2>2. store[u].name \in dirs
    BY <2>1 DEF StoreOK
  <2> QED
    BY <2>1, <2>2
<1>13. Len(store') <= MaxUploads
  BY <1>5 DEF StoreOK
<1> QED
  BY <1>5, <1>9, <1>10, <1>11, <1>12, <1>13 DEF StoreOK

\* An upload of a whole archive is the newest of its directory.
LEMMA UploadKeeps ==
    ASSUME StoreOK, NEW n \in dirs, dirs \subseteq Name, Len(store) < MaxUploads,
           store' = Append(store, [name |-> n, whole |-> TRUE, stored |-> TRUE]), dirs' = dirs
    PROVE  StoreOK' /\ OutdatedStays
<1> DEFINE e == [name |-> n, whole |-> TRUE, stored |-> TRUE]
<1>1. /\ store \in Seq(Upload) /\ Len(store) \in Nat /\ DOMAIN store = 1 .. Len(store)
  BY StoreIndex DEF StoreOK
<1>2. e \in Upload /\ e.name = n /\ e.whole /\ e.stored
  BY DEF Upload
<1> HIDE DEF e
<1>3. /\ store' \in Seq(Upload) /\ Len(store') = Len(store) + 1
      /\ DOMAIN store' = 1 .. Len(store) + 1
      /\ \A u \in DOMAIN store : u \in DOMAIN store' /\ store'[u] = store[u]
      /\ store'[Len(store) + 1] = e
  <2>1. store' = Append(store, e)
    BY DEF e
  <2> QED
    BY <1>1, <1>2, <2>1
<1>4. \A u \in DOMAIN store' : u \in DOMAIN store \/ u = Len(store) + 1
  BY <1>1, <1>3
<1>5. ASSUME NEW u \in DOMAIN store, Outdated(u) PROVE Outdated(u)'
  <2>1. Newer(u) \subseteq Newer(u)'
    BY <1>3 DEF Newer, Kept
  <2> QED
    BY <1>1, <1>3, <1>5, <2>1, MoreNewer
<1>6. OutdatedStays
  BY <1>3, <1>5 DEF OutdatedStays
<1>7. \A u \in DOMAIN store' : ~ store'[u].stored => Outdated(u)'
  BY <1>2, <1>3, <1>4, <1>5 DEF StoreOK
<1>8. OnlyWholeStored'
  BY <1>2, <1>3, <1>4 DEF StoreOK, OnlyWholeStored
<1>9. \A u \in DOMAIN store' : store'[u].name \in dirs'
  BY <1>2, <1>3, <1>4 DEF StoreOK
<1>10. Len(store') <= MaxUploads
  BY <1>1, <1>3, MaxUploadsAssumption
<1> QED
  BY <1>3, <1>6, <1>7, <1>8, <1>9, <1>10 DEF StoreOK

LEMMA SameStore ==
    ASSUME StoreOK, UNCHANGED store, dirs \subseteq dirs'
    PROVE  StoreOK' /\ OutdatedStays
<1>1. \A n : Kept(n)' = Kept(n)
  BY DEF Kept
<1>2. \A u : Newer(u)' = Newer(u)
  BY <1>1 DEF Newer
<1>3. \A u : Outdated(u)' = Outdated(u)
  BY <1>2 DEF Outdated
<1> QED
  BY <1>3 DEF StoreOK, OutdatedStays, OnlyWholeStored

-----------------------------------------------------------------------------
(* The jobs *)

\* A job that makes an archive does so of a directory there is, uploads only a
\* whole one, and deletes only what was outdated when it listed it.
JobOK(c) ==
    /\ c.pc \in {"tar", "put"} => c.name \in dirs
    /\ c.pc = "put" => c.whole
    /\ \A u \in c.old : u \in DOMAIN store /\ Outdated(u)

BackupsInv ==
    /\ dirs \subseteq Name
    /\ StoreOK
    /\ job \in [Jobs -> Job]
    /\ \A j \in Jobs : JobOK(job[j])

\* A job between directories, with nothing in its hands.
Quiet(c) == c \in Job /\ c.pc \notin {"tar", "put"} /\ c.old = {}

LEMMA NoJobQuiet == Quiet(NoJob)
  BY DEF Quiet, NoJob, Job

LEMMA OnwardQuiet == ASSUME NEW r \in Job PROVE Quiet(Onward(r))
<1>1. Quiet([r EXCEPT !.pc = "list", !.old = {}])
  <2> DEFINE d == [r EXCEPT !.pc = "list"]
  <2>1. d \in Job /\ d.pc = "list"
    BY DEF Job
  <2>2. [r EXCEPT !.pc = "list", !.old = {}] = [d EXCEPT !.old = {}]
    BY DEF Job
  <2> HIDE DEF d
  <2> QED
    BY <2>1, <2>2 DEF Quiet, Job
<1>2. Quiet([NoJob EXCEPT !.pc = "next", !.todo = r.todo])
  BY DEF Quiet, NoJob, Job
<1> QED
  BY <1>1, <1>2, NoJobQuiet DEF Onward

\* One job moves; the store does what keeps the outdated outdated.
LEMMA OneJob ==
    ASSUME BackupsInv, StoreOK', OutdatedStays, dirs \subseteq dirs', dirs' \subseteq Name,
           NEW j \in Jobs, NEW c \in Job, Set(j, c),
           Quiet(c) \/ (dirs' = dirs /\ store' = store /\ JobOK(c))
    PROVE  BackupsInv'
<1>1. ASSUME NEW d, JobOK(d) PROVE JobOK(d)'
  BY <1>1 DEF JobOK, OutdatedStays
<1>2. JobOK(c)'
  <2>1. CASE Quiet(c)
    BY <2>1 DEF Quiet, JobOK
  <2>2. CASE JobOK(c)
    BY <1>1, <2>2
  <2> QED
    BY <2>1, <2>2
<1>3. /\ job' \in [Jobs -> Job] /\ job'[j] = c
      /\ \A i \in Jobs : i # j => job'[i] = job[i]
  BY DEF BackupsInv, Set
<1>4. ASSUME NEW i \in Jobs, NEW d, d = job'[i] PROVE JobOK(d)'
  <2>1. CASE i = j
    BY <1>2, <1>3, <1>4, <2>1
  <2>2. CASE i # j
    <3>1. d = job[i]
      BY <1>3, <1>4, <2>2
    <3>2. JobOK(d)
      BY <3>1 DEF BackupsInv
    <3> QED
      BY <1>1, <3>2
  <2> QED
    BY <2>1, <2>2
<1>5. \A i \in Jobs : JobOK(job[i])'
  BY <1>4 DEF JobOK
<1> QED
  BY <1>3, <1>5 DEF BackupsInv

LEMMA InitBackups == BackupsInit => BackupsInv
<1> SUFFICES ASSUME BackupsInit PROVE BackupsInv
  OBVIOUS
<1>1. StoreOK
  <2>1. store = <<>> /\ DOMAIN store = {} /\ store \in Seq(Upload) /\ Len(store) = 0
    BY DEF BackupsInit
  <2> QED
    BY <2>1, MaxUploadsAssumption DEF StoreOK, OnlyWholeStored
<1>2. job \in [Jobs -> Job] /\ \A j \in Jobs : job[j] = NoJob
  BY NoJobQuiet DEF BackupsInit, Quiet
<1>3. \A j \in Jobs : JobOK(job[j])
  BY <1>2, NoJobQuiet DEF Quiet, JobOK
<1> QED
  BY <1>1, <1>2, <1>3 DEF BackupsInit, BackupsInv

BackupsNext ==
    \/ \E n \in Name : Mkdir(n)
    \/ JobStarts
    \/ \E j \in Jobs : Backup(j) \/ Prune(j)
    \/ BackupsCrash
    \/ UNCHANGED backupVars

\* Per action: where its job is afterwards, and why the store may change so.
LEMMA BackupsKept == BackupsInv /\ BackupsNext => BackupsInv'
<1> SUFFICES ASSUME BackupsInv, BackupsNext PROVE BackupsInv'
  OBVIOUS
<1>0. dirs \subseteq Name /\ StoreOK /\ job \in [Jobs -> Job] /\ \A j \in Jobs : job[j] \in Job
  BY DEF BackupsInv
<1>1. UNCHANGED <<dirs, store>> => StoreOK' /\ OutdatedStays /\ dirs \subseteq dirs'
                                   /\ dirs' \subseteq Name
  BY <1>0, SameStore
<1>2. ASSUME NEW j \in Jobs, NEW c, Quiet(c), Set(j, c), UNCHANGED <<dirs, store>>
      PROVE  BackupsInv'
  BY <1>1, <1>2, OneJob DEF Quiet
<1>3. ASSUME NEW j \in Jobs, NEW c, Quiet(c), Set(j, c), dirs' = dirs, StoreOK', OutdatedStays
      PROVE  BackupsInv'
  BY <1>0, <1>3, OneJob DEF Quiet
<1>4. ASSUME NEW j \in Jobs, NEW c \in Job, JobOK(c), Set(j, c), UNCHANGED <<dirs, store>>
      PROVE  BackupsInv'
  BY <1>1, <1>4, OneJob
<1>5. ASSUME NEW j \in Jobs, Throw(j), dirs' = dirs, StoreOK', OutdatedStays
      PROVE  BackupsInv'
  BY <1>3, <1>5, NoJobQuiet DEF Throw, Caught
<1>6. ASSUME NEW j \in Jobs, Throw(j), UNCHANGED <<dirs, store>> PROVE BackupsInv'
  BY <1>2, <1>6, NoJobQuiet DEF Throw, Caught
<1>7. ASSUME NEW n \in Name, Mkdir(n) PROVE BackupsInv'
  <2>1. dirs \subseteq dirs' /\ dirs' \subseteq Name /\ UNCHANGED <<store, job>>
    BY <1>0, <1>7 DEF Mkdir
  <2>2. StoreOK' /\ OutdatedStays
    BY <1>0, <2>1, SameStore
  <2>3. \A j \in Jobs : JobOK(job[j])'
    BY <2>1, <2>2 DEF BackupsInv, JobOK, OutdatedStays
  <2> QED
    BY <1>0, <2>1, <2>2, <2>3 DEF BackupsInv
<1>8. ASSUME JobStarts PROVE BackupsInv'
  <2>1. ASSUME NEW T \in SUBSET Name
        PROVE  Quiet([NoJob EXCEPT !.pc = "next", !.todo = T])
    BY DEF Quiet, NoJob, Job
  <2>2. CASE BackupLoopWakes
    BY <1>0, <1>2, <2>1, <2>2 DEF BackupLoopWakes, Jobs, Loops
  <2>3. CASE PruneLoopWakes
    <3>1. [NoJob EXCEPT !.list = dirs] \in Job
      BY <1>0 DEF NoJob, Job
    <3> QED
      BY <1>2, <2>3, <3>1, OnwardQuiet DEF PruneLoopWakes, Jobs, Loops
  <2>4. ASSUME NEW j \in Jobs, NEW n \in Name, BackupRequested(j, n) PROVE BackupsInv'
    BY <1>2, <2>1, <2>4 DEF BackupRequested
  <2> QED
    BY <1>8, <2>2, <2>3, <2>4 DEF JobStarts
<1>9. ASSUME NEW j \in Jobs, NEW n \in Name, Begin(j, n) PROVE BackupsInv'
  <2>1. CASE Accessible(n)
    <3> DEFINE c == [job[j] EXCEPT !.pc = "tar", !.name = n, !.todo = @ \ {n}]
    <3>1. c \in Job /\ c.pc = "tar" /\ c.name = n /\ c.old = job[j].old
      BY <1>0 DEF Job
    <3>2. Set(j, c) /\ UNCHANGED <<dirs, store>>
      BY <1>9, <2>1 DEF Begin
    <3> HIDE DEF c
    <3>3. JobOK(c)
      BY <2>1, <3>1 DEF JobOK, BackupsInv, Accessible
    <3> QED
      BY <1>4, <3>1, <3>2, <3>3
  <2>2. CASE ~ Accessible(n)
    BY <1>6, <1>9, <2>2 DEF Begin
  <2> QED
    BY <2>1, <2>2
<1>10. ASSUME NEW j \in Jobs, TarEnds(j) PROVE BackupsInv'
  <2>1. PICK exit \in {0, 1} :
           IF Usable(exit) THEN Set(j, [job[j] EXCEPT !.pc = "put", !.whole = exit = 0])
           ELSE Throw(j)
    BY <1>10 DEF TarEnds
  <2>2. CASE Usable(exit)
    <3> DEFINE c == [job[j] EXCEPT !.pc = "put", !.whole = TRUE]
    <3>1. exit = 0 /\ (exit = 0) = TRUE
      BY <2>2 DEF Usable
    <3>2. Set(j, c) /\ UNCHANGED <<dirs, store>>
      BY <1>10, <2>1, <2>2, <3>1 DEF TarEnds
    <3>3. /\ c \in Job /\ c.pc = "put" /\ c.name = job[j].name /\ c.old = job[j].old
          /\ c.whole
      BY <1>0 DEF Job
    <3> HIDE DEF c
    <3>4. JobOK(c)
      BY <1>10, <3>3 DEF TarEnds, JobAt, JobOK, BackupsInv
    <3> QED
      BY <1>4, <3>2, <3>3, <3>4
  <2>3. CASE ~ Usable(exit)
    BY <1>6, <1>10, <2>1, <2>3 DEF TarEnds
  <2> QED
    BY <2>2, <2>3
<1>11. ASSUME NEW j \in Jobs, JobAt(j, "put"), Stored(j), dirs' = dirs
       PROVE  StoreOK' /\ OutdatedStays
  <2>1. job[j].name \in dirs /\ job[j].whole = TRUE
    BY <1>0, <1>11 DEF JobAt, BackupsInv, JobOK, Job
  <2> QED
    BY <1>0, <1>11, <2>1, UploadKeeps DEF Stored
<1>12. ASSUME NEW j \in Jobs, Put(j) \/ PutFails(j) PROVE BackupsInv'
  <2>1. Quiet([NoJob EXCEPT !.pc = "prune", !.todo = job[j].todo])
    BY <1>0 DEF Quiet, NoJob, Job
  <2>2. CASE Put(j)
    BY <1>3, <1>11, <2>1, <2>2 DEF Put
  <2>3. CASE PutFails(j)
    BY <1>5, <1>6, <1>11, <2>3 DEF PutFails
  <2> QED
    BY <1>12, <2>2, <2>3
<1>13. ASSUME NEW j \in Jobs, PruneReads(j) PROVE BackupsInv'
  <2>1. [job[j] EXCEPT !.list = dirs] \in Job
    BY <1>0 DEF Job
  <2> QED
    BY <1>2, <1>13, <2>1, OnwardQuiet DEF PruneReads
<1>14. ASSUME NEW j \in Jobs, NEW n \in Name, List(j, n) PROVE BackupsInv'
  <2> DEFINE T == TooOld(n)
             l == job[j].list \ {n}
             r == [job[j] EXCEPT !.list = l, !.old = T]
             c == [r EXCEPT !.pc = "delete"]
  <2>1. \A u \in T : u \in DOMAIN store /\ Outdated(u)
    <3>1. Listed(n) = Kept(n)
      BY <1>0, ListedAreKept DEF StoreOK
    <3>2. \A u \in Kept(n) : u \in DOMAIN store /\ store[u].name = n
      BY DEF Kept
    <3> QED
      BY <3>1, <3>2 DEF TooOld, Outdated, Newer
  <2>2. T \subseteq 1 .. MaxUploads
    <3>1. DOMAIN store \subseteq 1 .. MaxUploads
      BY <1>0, StoreIndex, MaxUploadsAssumption DEF StoreOK
    <3> QED
      BY <2>1, <3>1
  <2>3. /\ Set(j, IF r.old = {} THEN Onward(r) ELSE c)
        /\ UNCHANGED <<dirs, store>>
    BY <1>14 DEF List
  <2> HIDE DEF T
  <2>4. r \in Job
    <3>1. l \in SUBSET Name
      BY <1>0 DEF Job
    <3> HIDE DEF l
    <3>2. [job[j] EXCEPT !.list = l] \in Job
      BY <1>0, <3>1 DEF Job
    <3>3. r = [[job[j] EXCEPT !.list = l] EXCEPT !.old = T]
      BY <1>0 DEF Job
    <3> QED
      BY <2>2, <3>2, <3>3 DEF Job
  <2>5. r.old = T
    BY <1>0 DEF Job
  <2> HIDE DEF r
  <2>6. c \in Job /\ c.pc = "delete" /\ c.old = T
    BY <2>4, <2>5 DEF Job
  <2> HIDE DEF c
  <2>7. CASE r.old = {}
    BY <1>2, <2>3, <2>4, <2>7, OnwardQuiet
  <2>8. CASE r.old # {}
    <3>1. JobOK(c)
      BY <2>1, <2>6 DEF JobOK
    <3> QED
      BY <1>4, <2>3, <2>6, <2>8, <3>1
  <2> QED
    BY <2>7, <2>8
<1>15. ASSUME NEW j \in Jobs, ListFails(j) PROVE BackupsInv'
  BY <1>6, <1>15 DEF ListFails
<1>16. ASSUME NEW j \in Jobs, NEW S \in SUBSET job[j].old, Delete(S), dirs' = dirs
       PROVE  StoreOK' /\ OutdatedStays
  <2>1. \A x \in S : x \in DOMAIN store /\ Outdated(x)
    BY DEF BackupsInv, JobOK
  <2> QED
    BY <1>0, <1>16, <2>1, DeleteKeeps
<1>17. ASSUME NEW j \in Jobs, DeleteOld(j) \/ DeleteSome(j) PROVE BackupsInv'
  <2>1. Quiet(Onward(job[j]))
    BY <1>0, OnwardQuiet
  <2>2. dirs' = dirs /\ (Set(j, Onward(job[j])) \/ Throw(j))
    BY <1>17 DEF DeleteOld, DeleteSome
  <2>3. StoreOK' /\ OutdatedStays
    BY <1>16, <1>17, <2>2 DEF DeleteOld, DeleteSome
  <2> QED
    BY <1>3, <1>5, <2>1, <2>2, <2>3
<1>18. ASSUME BackupsCrash PROVE BackupsInv'
  <2>1. StoreOK' /\ dirs' \subseteq Name
    BY <1>0, <1>1, <1>18 DEF BackupsCrash
  <2>2. job' \in [Jobs -> Job] /\ \A j \in Jobs : job'[j] = NoJob
    BY <1>18, NoJobQuiet DEF BackupsCrash, Quiet
  <2>3. \A j \in Jobs : JobOK(job[j])'
    BY <2>2, NoJobQuiet DEF Quiet, JobOK
  <2> QED
    BY <2>1, <2>2, <2>3 DEF BackupsInv
<1>19. ASSUME UNCHANGED backupVars PROVE BackupsInv'
  <2>1. UNCHANGED <<dirs, store, job>>
    BY <1>19 DEF backupVars
  <2>2. \A j \in Jobs : JobOK(job[j])'
    BY <1>1, <2>1 DEF BackupsInv, JobOK, OutdatedStays
  <2> QED
    BY <1>0, <1>1, <2>1, <2>2 DEF BackupsInv
<1> QED
  BY <1>7, <1>8, <1>9, <1>10, <1>12, <1>13, <1>14, <1>15, <1>17, <1>18, <1>19
  DEF BackupsNext, Backup, Prune

-----------------------------------------------------------------------------
(* The controller: both together. What keeps the invariants apart is that    *)
(* the handlers share only dirs with the jobs, and only add to it.           *)

IInv == GamesInv /\ BackupsInv

LEMMA InitHolds == Init => IInv
  BY InitGames, InitBackups DEF Init, IInv

LEMMA StepKeeps == IInv /\ [Next]_vars => IInv'
<1> SUFFICES ASSUME IInv, [Next]_vars PROVE GamesNext /\ BackupsNext
  BY GamesKept, BackupsKept DEF IInv
<1>1. CASE Serve
  BY <1>1 DEF Serve, GamesNext, BackupsNext
<1>2. CASE RunJobs
  BY <1>2 DEF RunJobs, GamesNext, BackupsNext
<1>3. CASE Crash \/ \E r \in Request : NoPortCrash(r)
  BY <1>3 DEF Crash, NoPortCrash, GamesNext, BackupsNext
<1>4. CASE UNCHANGED vars
  BY <1>4 DEF vars, gameVars, backupVars, GamesNext, BackupsNext
<1> QED
  BY <1>1, <1>2, <1>3, <1>4 DEF Next

\* The invariant of the controller: GamesInv and BackupsInv together.
THEOREM Invariance == Spec => []IInv
<1>1. Init => IInv
  BY InitHolds
<1>2. IInv /\ [Next]_vars => IInv'
  BY StepKeeps
<1> QED
  BY <1>1, <1>2, PTL DEF Spec

LEMMA InvIsSafe ==
    IInv => TypeOK /\ ListensWherePublished /\ OneHostPortPerGamePort
                   /\ NewestKept /\ OnlyWholeStored
<1> SUFFICES ASSUME IInv
             PROVE  TypeOK /\ ListensWherePublished /\ OneHostPortPerGamePort
                           /\ NewestKept /\ OnlyWholeStored
  OBVIOUS
<1>1. TypeOK
  BY DEF IInv, GamesInv, BackupsInv, StoreOK, TypeOK, BackupsTypeOK
<1>2. \A n \in Name : \/ container[n].game = Nil /\ container[n].config = <<>>
                      \/ /\ container[n].game \in Game /\ container[n].game # Nil
                         /\ Chosen(container[n])
  <2>1. \A n \in Name : container[n].game \in Game \cup {Nil}
    BY DEF IInv, GamesInv, GamesTypeOK, Container
  <2> QED
    BY <2>1 DEF IInv, GamesInv
<1>3. ListensWherePublished
  <2> SUFFICES ASSUME NEW n \in Name, container[n].game = "satisfactory"
               PROVE  /\ \A k \in DOMAIN Ports(n) : Ports(n)[k].host = Ports(n)[k].container
                      /\ container[n].env = [Port |-> Ports(n)[1].host,
                                             ReliablePort |-> Ports(n)[3].host]
                      /\ 0 \notin {container[n].env.Port, container[n].env.ReliablePort}
    BY DEF ListensWherePublished
  <2>1. Chosen(container[n])
    BY <1>2, NilIsNoGame DEF Game
  <2> QED
    BY <2>1 DEF Chosen, WellMapped, Ports
<1>4. OneHostPortPerGamePort
  <2> SUFFICES ASSUME NEW n \in Name, NEW j \in DOMAIN Ports(n), NEW k \in DOMAIN Ports(n),
                      Ports(n)[j].host # 0, container[n].game # Nil
               PROVE  (Ports(n)[j].host = Ports(n)[k].host)
                        <=> (GAMES[container[n].game][j].container
                               = GAMES[container[n].game][k].container)
    BY DEF OneHostPortPerGamePort
  <2>1. /\ Ports(n) = container[n].config
        /\ WellMapped(container[n].game, container[n].config, container[n].env)
    BY <1>2 DEF Ports, Chosen
  <2>2. j \in 1 .. 3 /\ k \in 1 .. 3
    BY <2>1 DEF WellMapped
  <2> QED
    BY <2>1, <2>2 DEF WellMapped
<1>5. NewestKept /\ OnlyWholeStored
  BY DEF IInv, BackupsInv, StoreOK, NewestKept, Outdated, Newer
<1> QED
  BY <1>1, <1>3, <1>4, <1>5

\* Types: with them, that every upload is one of a directory there is.
THEOREM TypeCorrect == Spec => []TypeOK
  BY Invariance, InvIsSafe, PTL

\* A Satisfactory server listens on the ports that are published for it: the
\* port a create finds is the same for every entry with the same game port,
\* and a create that finds too few takes the controller down first.
THEOREM ListeningWherePublished == Spec => []ListensWherePublished
  BY Invariance, InvIsSafe, PTL

\* Each port of a game has one host port, for its tcp and for its udp side.
THEOREM PortsApart == Spec => []OneHostPortPerGamePort
  BY Invariance, InvIsSafe, PTL

\* Only a backup with Keep newer ones in the store is gone, however the prunes
\* of several jobs, their failures, uploads and restarts interleave.
THEOREM NewestStay == Spec => []NewestKept
  BY Invariance, InvIsSafe, PTL

\* Only archives that tar finished are stored.
THEOREM StoredWhole == Spec => []OnlyWholeStored
  BY Invariance, InvIsSafe, PTL
===============================================================================
