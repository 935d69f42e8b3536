----------------------------- MODULE GameServers -----------------------------
(***************************************************************************)
(* The controller's handlers of /create and /manage: containers of game    *)
(* servers and the host ports they publish.                                *)
(*                                                                         *)
(* A create awaits mkdir, the files of /proc/net and two calls to podman,  *)
(* and other requests run in between. Podman is external: a container      *)
(* holds its host ports while it runs, and its start fails if one of them  *)
(* is taken. The directories themselves are in module Backups.             *)
(***************************************************************************)
EXTENDS Integers, Sequences, FiniteSets

CONSTANTS Name,      \* of containers
          Request,   \* create requests that can be open at once
          MaxPort,   \* last host port tried: 60000 in the code
          Nil

MinPort == 20000
ASSUME MaxPortAssumption == MaxPort \in Int /\ MaxPort >= MinPort - 1
ASSUME NilIsNoName == Nil \notin Name

VARIABLES
  games,       \* games[g]: the entry of the table GAMES, in the controller's memory
  container,   \* container[n]: the container named n, see Container
  create       \* create[r]: the handler of create request r, see Create

gameVars == <<games, container, create>>

Game == {"satisfactory", "minecraft"}
ASSUME NilIsNoGame == Nil \notin Game

\* port_config, without the protocols; 0 is a host port left to podman.
Published(c) == [host |-> 0, container |-> c]
GAMES == [satisfactory |-> <<Published(7777), Published(7777), Published(8888)>>,
          minecraft |-> <<Published(25565), Published(25565), Published(8080)>>]

HostPort == MinPort .. MaxPort
ContainerPort == {7777, 8888, 25565, 8080} \cup HostPort
Config == Seq([host : {0} \cup HostPort, container : ContainerPort])
Env == [Port : {0} \cup HostPort, ReliablePort : {0} \cup HostPort]   \* 0: not set
NoEnv == [Port |-> 0, ReliablePort |-> 0]

\* "stopped" is created, and not started yet, or exited.
Container == [status : {"none", "stopped", "running"}, game : Game \cup {Nil},
              config : Config, env : Env]
NoContainer == [status |-> "none", game |-> Nil, config |-> <<>>, env |-> NoEnv]

Create == [pc : {"idle", "ports", "create", "start"}, name : Name \cup {Nil},
           game : Game \cup {Nil}, config : Config, env : Env]
NoCreate == [pc |-> "idle", name |-> Nil, game |-> Nil, config |-> <<>>, env |-> NoEnv]

GamesTypeOK ==
    /\ games \in [Game -> Config]
    /\ container \in [Name -> Container]
    /\ create \in [Request -> Create]

GamesInit ==
    /\ games = GAMES
    /\ container = [n \in Name |-> NoContainer]
    /\ create = [r \in Request |-> NoCreate]

-----------------------------------------------------------------------------
(* Ports. An operator X_Y is X with a bug that the properties must detect;   *)
(* no action uses it.                                                       *)

Running(n) == container[n].status = "running"
PortsOf(config) == {config[k].host : k \in DOMAIN config} \ {0}
Bound == UNION {PortsOf(container[n].config) : n \in {m \in Name : Running(m)}}

\* findAvailablePorts: those that nobody listens on now, in ascending order.
Available == HostPort \ Bound
Nth(S, k) == CHOOSE p \in S : Cardinality({q \in S : q < p}) = k

UniquePorts(config) == {config[k].container : k \in DOMAIN config}

\* portMapping: the unique container ports get the available ports in the
\* order in which they occur first; 0 when there are not enough.
FirstAt(config, c) == CHOOSE k \in DOMAIN config :
                         config[k].container = c /\ \A j \in 1 .. k - 1 : config[j].container # c
Before(config, c) == Cardinality({config[j].container : j \in 1 .. FirstAt(config, c) - 1})
PortMapping_NotUnique(config, c) ==
    IF Available = {} THEN 0 ELSE Nth(Available, 0)
PortMapping(config, c) ==
    IF Before(config, c) < Cardinality(Available) THEN Nth(Available, Before(config, c)) ELSE 0

\* The server Satisfactory listens where it is told to, so the ports inside
\* and outside are the same.
Mapped(g, config) ==
    [k \in DOMAIN config |->
       LET host == PortMapping(config, config[k].container)
       IN [host |-> host, container |-> IF g = "satisfactory" THEN host ELSE config[k].container]]
EnvOf(g, config) ==
    LET told(c) == IF g = "satisfactory" /\ c \in UniquePorts(config)
                     THEN PortMapping(config, c) ELSE 0
    IN [Port |-> told(7777), ReliablePort |-> told(8888)]

\* getServer returns a copy, so the table stays as it was.
TableAfter_NotCloned(g, config) == [games EXCEPT ![g] = config]
TableAfter(g, config) == games

-----------------------------------------------------------------------------
(* GET /:game/:server/:version/create *)

CreateAt(r, place) == create[r].pc = place
Answer(r) == create' = [create EXCEPT ![r] = NoCreate]

CreateArrives(r, g, n) ==
    /\ CreateAt(r, "idle")
    /\ create' = [create EXCEPT ![r] = [NoCreate EXCEPT !.pc = "ports", !.name = n, !.game = g]]
    /\ UNCHANGED <<games, container>>

\* toString of a port that was not found is an error outside of the try: it
\* rejects the handler's promise, nobody handles that, and the process dies.
OutOfPorts(g) == /\ g = "satisfactory"
                 /\ Cardinality(Available) < Cardinality(UniquePorts(games[g]))

ChoosePorts(r) ==
    /\ CreateAt(r, "ports")
    /\ LET g == create[r].game
           config == Mapped(g, games[g]) IN
       /\ ~ OutOfPorts(g)
       /\ create' = [create EXCEPT ![r].pc = "create", ![r].config = config,
                                   ![r].env = EnvOf(g, games[g])]
       /\ games' = TableAfter(g, config)
    /\ UNCHANGED container

\* The process dies, and is started again. Containers run on.
GamesCrash ==
    /\ create' = [r \in Request |-> NoCreate]
    /\ games' = GAMES
    /\ UNCHANGED container

PodmanCreates(r) ==
    /\ CreateAt(r, "create") /\ container[create[r].name].status = "none"
    /\ container' = [container EXCEPT ![create[r].name] =
                       [status |-> "stopped", game |-> create[r].game,
                        config |-> create[r].config, env |-> create[r].env]]
    /\ create' = [create EXCEPT ![r].pc = "start"]
    /\ UNCHANGED games

\* 409 when the name is taken, 404 when there is no such image, 500.
PodmanRefuses(r) ==
    /\ CreateAt(r, "create")
    /\ Answer(r)
    /\ UNCHANGED <<games, container>>

\* A start works if every port of the container is free.
CanStart(n) == /\ container[n].status = "stopped"
               /\ PortsOf(container[n].config) \cap Bound = {}
SetStatus(n, s) == container' = [container EXCEPT ![n].status = s]

PodmanStarts(r) ==
    /\ CreateAt(r, "start") /\ CanStart(create[r].name)
    /\ SetStatus(create[r].name, "running")
    /\ Answer(r)
    /\ UNCHANGED games

\* The container stays as it was created.
PodmanDoesNotStart(r) ==
    /\ CreateAt(r, "start")
    /\ Answer(r)
    /\ UNCHANGED <<games, container>>

-----------------------------------------------------------------------------
(* GET /manage/:id/start, stop and destroy: one call to podman each. When it *)
(* fails nothing changes.                                                   *)

Start(n) ==
    /\ CanStart(n)
    /\ SetStatus(n, "running")
    /\ UNCHANGED <<games, create>>

Stop(n) ==
    /\ Running(n)
    /\ SetStatus(n, "stopped")
    /\ UNCHANGED <<games, create>>

\* The directory stays. Only force removes a container that runs.
Destroy(n, force) ==
    /\ container[n].status # "none" /\ (force \/ ~ Running(n))
    /\ container' = [container EXCEPT ![n] = NoContainer]
    /\ UNCHANGED <<games, create>>

-----------------------------------------------------------------------------
CreateHandler(r) ==
    \/ ChoosePorts(r)
    \/ PodmanCreates(r) \/ PodmanRefuses(r) \/ PodmanStarts(r) \/ PodmanDoesNotStart(r)
Manage(n) == Start(n) \/ Stop(n) \/ \E force \in BOOLEAN : Destroy(n, force)
==============================================================================
