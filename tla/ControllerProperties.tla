------------------------- MODULE ControllerProperties -------------------------
(***************************************************************************)
(* What the controller promises of the game servers and their backups.     *)
(***************************************************************************)
EXTENDS Controller

Ports(n) == container[n].config

\* A Satisfactory server is told to listen on the ports that are published
\* for it, at the same number inside and outside: in the first container made
\* and in every later one, whatever requests came before.
ListensWherePublished ==
    \A n \in Name : container[n].game = "satisfactory" =>
        /\ \A k \in DOMAIN Ports(n) : Ports(n)[k].host = Ports(n)[k].container
        /\ container[n].env = [Port |-> Ports(n)[1].host, ReliablePort |-> Ports(n)[3].host]
        /\ 0 \notin {container[n].env.Port, container[n].env.ReliablePort}

\* Inside one container, two entries have the same host port just when they
\* are the tcp and the udp side of one port of the game.
OneHostPortPerGamePort ==
    \A n \in Name : \A j, k \in DOMAIN Ports(n) :
        Ports(n)[j].host # 0 /\ container[n].game # Nil =>
            LET game == GAMES[container[n].game] IN
            (Ports(n)[j].host = Ports(n)[k].host) <=> (game[j].container = game[k].container)

-----------------------------------------------------------------------------
Kept(n) == {u \in DOMAIN store : store[u].name = n /\ store[u].stored}

\* A backup is gone only if Keep newer ones of the same directory are in the
\* store, and stay there: however prunes, uploads and failed deletes of several
\* jobs interleave, and though the name of one directory may be the beginning
\* of another's.
NewestKept ==
    \A u \in DOMAIN store :
        ~ store[u].stored => Cardinality({v \in Kept(store[u].name) : v > u}) >= Keep

\* No archive is stored that tar did not finish: the newest backups, which
\* push the older ones out, can be restored.
OnlyWholeStored == \A u \in DOMAIN store : store[u].whole

\* Old backups are deleted at some time, though calls fail and the controller
\* dies again and again: a loop survives the error of one turn.
OldOnesGo ==
    \A n \in Name : n \in dirs /\ Cardinality(Kept(n)) > Keep ~> Cardinality(Kept(n)) <= Keep
==============================================================================
