----------------------------- MODULE Connection -----------------------------
(***************************************************************************)
(* The set-up of the three parties: the constructor of Party                *)
(* (src/core/Party.h) in three processes that are started in any order, and *)
(* what it calls of src/utils/connection.h.  Each process opens or connects *)
(* its sockets one by one; a listener takes one connection, is closed, and  *)
(* both ends exchange a byte that says who they are.  The kernel's part     *)
(* (listening, the queue of connections that wait to be accepted, the       *)
(* streams) is modelled as far as the calls of the code rely on it.         *)
(***************************************************************************)
EXTENDS Integers, Sequences, SequencesExt

CONSTANTS
    SCKNUM,     \* sockets per pair of parties
    Backlog,    \* connections that may wait at a listener
    HPort,      \* the helper's first port
    CPort       \* P1's first port

ASSUME SCKNUMAssumption == SCKNUM \in Nat \ {0}
ASSUME BacklogAssumption == Backlog \in Nat \ {0}
ASSUME PortAssumption == HPort \in Nat /\ CPort \in Nat

P1 == 0
P2 == 1
HELPER == 2
Roles == {P1, P2, HELPER}

-----------------------------------------------------------------------------
(* What each party opens and connects to, in order. *)

Sockets == 1..SCKNUM

(* A listener at port: the byte it asks for and the byte it answers. *)
Opening(peer, k, port, asks, says) ==
    [kind |-> "open", peer |-> peer, k |-> k, addr |-> port, asks |-> asks, says |-> says]
Connecting(peer, k, port, says, asks) ==
    [kind |-> "connect", peer |-> peer, k |-> k, addr |-> port, asks |-> asks, says |-> says]

(* Addresses are a host and a port. *)
At(host, port) == <<host, port>>

Mutantopen_helper ==
    [i \in 1..(2 * SCKNUM) |->
        IF i <= SCKNUM THEN Opening(P1, i, At(HELPER, HPort + i - 1), 2, 2)
                       ELSE Opening(P2, 2 * SCKNUM + 1 - i, At(HELPER, HPort + i - 1), 2, 2)]
open_helper ==
    [i \in 1..(2 * SCKNUM) |->
        IF i <= SCKNUM THEN Opening(P1, i, At(HELPER, HPort + i - 1), 2, 2)
                       ELSE Opening(P2, i - SCKNUM, At(HELPER, HPort + i - 1), 2, 2)]
connect2helper(port) ==
    [i \in Sockets |-> Connecting(HELPER, i, At(HELPER, port + i - 1), 2, 2)]
open_P0 == [i \in Sockets |-> Opening(P2, i, At(P1, CPort + i - 1), 1, 0)]
connect2P0 == [i \in Sockets |-> Connecting(P1, i, At(P1, CPort + i - 1), 1, 0)]

MutantConstructorOrder(p) ==
    CASE p = P1     -> open_P0 \o connect2helper(HPort)
      [] p = P2     -> connect2helper(HPort + SCKNUM) \o connect2P0
      [] p = HELPER -> open_helper
Constructor(p) ==
    CASE p = P1     -> connect2helper(HPort) \o open_P0
      [] p = P2     -> connect2helper(HPort + SCKNUM) \o connect2P0
      [] p = HELPER -> open_helper

Addresses == {Constructor(p)[n].addr : p \in Roles, n \in 1..(2 * SCKNUM)}

VARIABLES
    pc,         \* pc[p]: where p is
    step,       \* step[p]: sockets p has set up
    sock,       \* sock[p][q][k]: p's k-th socket to q: a connection or 0
    new,        \* new[p]: the connection p is setting up
    listening,  \* addresses somebody listens at
    queue,      \* queue[a]: connections waiting to be accepted at a
    stream,     \* stream[c][d]: bytes of connection c in direction d
    opened,     \* connections made so far
    reset,      \* connections the kernel has reset
    seed        \* seed[p]: the common seed of p

vars == <<pc, step, sock, new, listening, queue, stream, opened, reset, seed>>

(* Connections are numbered as they are made. *)
Connections == 1..(3 * SCKNUM)
Seed == 77
Unset == -1

Init ==
    /\ pc = [p \in Roles |-> "off"]
    /\ step = [p \in Roles |-> 0]
    /\ sock = [p \in Roles |-> [q \in Roles |-> [k \in Sockets |-> 0]]]
    /\ new = [p \in Roles |-> 0]
    /\ listening = {}
    /\ queue = [a \in Addresses |-> <<>>]
    /\ stream = [c \in Connections |-> [d \in {"up", "down"} |-> <<>>]]
    /\ opened = 0
    /\ reset = {}
    /\ seed = [p \in Roles |-> Unset]

Current(p) == Constructor(p)[step[p] + 1]
Goto(p, label) == pc' = [pc EXCEPT ![p] = label]

(* What p does once n sockets are set up. *)
After(p, n) ==
    IF n = 2 * SCKNUM THEN "seed"
    ELSE IF Constructor(p)[n + 1].kind = "open" THEN "listen" ELSE "connect"

Start(p) ==
    /\ pc[p] = "off"
    /\ Goto(p, After(p, 0))
    /\ UNCHANGED <<step, sock, new, listening, queue, stream, opened, reset, seed>>

-----------------------------------------------------------------------------
(* openscoket *)

Listen(p) ==
    /\ pc[p] = "listen"
    /\ Current(p).addr \notin listening
    /\ listening' = listening \cup {Current(p).addr}
    /\ Goto(p, "accept")
    /\ UNCHANGED <<step, sock, new, queue, stream, opened, reset, seed>>

(* The first connection is taken and the listener closed: whatever else     *)
(* waits there is reset.                                                    *)
Accept(p) ==
    LET a == Current(p).addr
    IN  /\ pc[p] = "accept"
        /\ queue[a] # <<>>
        /\ new' = [new EXCEPT ![p] = Head(queue[a])]
        /\ reset' = reset \cup ToSet(Tail(queue[a]))
        /\ queue' = [queue EXCEPT ![a] = <<>>]
        /\ listening' = listening \ {a}
        /\ Goto(p, "ask")
        /\ UNCHANGED <<step, sock, stream, opened, seed>>

(* connect2socket: tried again until somebody listens. *)
Connect(p) ==
    LET a == Current(p).addr
    IN  /\ pc[p] = "connect"
        /\ a \in listening
        /\ Len(queue[a]) < Backlog
        /\ opened' = opened + 1
        /\ new' = [new EXCEPT ![p] = opened']
        /\ queue' = [queue EXCEPT ![a] = Append(@, opened')]
        /\ Goto(p, "say")
        /\ UNCHANGED <<step, sock, listening, stream, reset, seed>>

-----------------------------------------------------------------------------
(* The hand-shake. *)

Outgoing(p) == IF Current(p).kind = "open" THEN "down" ELSE "up"
Incoming(p) == IF Current(p).kind = "open" THEN "up" ELSE "down"

Established(p) ==
    /\ sock' = [sock EXCEPT ![p][Current(p).peer][Current(p).k] = new[p]]
    /\ step' = [step EXCEPT ![p] = @ + 1]
    /\ Goto(p, After(p, step[p] + 1))

(* The server answers after it has asked, and is done; a client asks then. *)
MutantSaysLast(p) == TRUE
SaysLast(p) == Current(p).kind = "open"

Say(p) ==
    /\ pc[p] = "say"
    /\ stream' = [stream EXCEPT ![new[p]][Outgoing(p)] = Append(@, Current(p).says)]
    /\ IF SaysLast(p)
       THEN Established(p)
       ELSE Goto(p, "ask") /\ UNCHANGED <<step, sock>>
    /\ UNCHANGED <<new, listening, queue, opened, reset, seed>>

Recognised(p, byte) == byte = Current(p).asks

Ask(p) ==
    /\ pc[p] = "ask"
    /\ stream[new[p]][Incoming(p)] # <<>>
    /\ stream' = [stream EXCEPT ![new[p]][Incoming(p)] = Tail(@)]
    /\ IF ~Recognised(p, Head(stream[new[p]][Incoming(p)]))
       THEN Goto(p, "failed") /\ UNCHANGED <<step, sock>>
       ELSE IF SaysLast(p)
            THEN Goto(p, "say") /\ UNCHANGED <<step, sock>>
            ELSE Established(p)
    /\ UNCHANGED <<new, listening, queue, opened, reset, seed>>

-----------------------------------------------------------------------------
(* SetCommonSeed: over the first socket between the proxies. *)

SendSeed ==
    /\ pc[P1] = "seed"
    /\ stream' = [stream EXCEPT ![sock[P1][P2][1]]["down"] = Append(@, Seed)]
    /\ seed' = [seed EXCEPT ![P1] = Seed]
    /\ Goto(P1, "done")
    /\ UNCHANGED <<step, sock, new, listening, queue, opened, reset>>

ReceiveSeed ==
    LET c == sock[P2][P1][1]
    IN  /\ pc[P2] = "seed"
        /\ stream[c]["down"] # <<>>
        /\ seed' = [seed EXCEPT ![P2] = Head(stream[c]["down"])]
        /\ stream' = [stream EXCEPT ![c]["down"] = Tail(@)]
        /\ Goto(P2, "done")
        /\ UNCHANGED <<step, sock, new, listening, queue, opened, reset>>

NoSeed ==
    /\ pc[HELPER] = "seed"
    /\ Goto(HELPER, "done")
    /\ UNCHANGED <<step, sock, new, listening, queue, stream, opened, reset, seed>>

Connected == \A p \in Roles : pc[p] = "done"
Done == Connected /\ UNCHANGED vars

Run(p) ==
    \/ Start(p) \/ Listen(p) \/ Accept(p) \/ Connect(p) \/ Say(p) \/ Ask(p)
    \/ p = P1 /\ SendSeed
    \/ p = P2 /\ ReceiveSeed
    \/ p = HELPER /\ NoSeed

Next == (\E p \in Roles : Run(p)) \/ Done

Spec == Init /\ [][Next]_vars

-----------------------------------------------------------------------------
(* Properties. *)

(* Two sockets of the same name are the two ends of one connection, once    *)
(* both parties have set up their k-th socket to each other; and on the way *)
(* there nobody is turned away: no hand-shake fails, and no connection      *)
(* waits at a listener that takes another one and closes.                   *)
SocketsPair ==
    /\ reset = {}
    /\ \A p \in Roles : pc[p] # "failed"
    /\ \A p, q \in Roles : \A k \in Sockets :
          (sock[p][q][k] # 0 /\ sock[q][p][k] # 0) => sock[p][q][k] = sock[q][p][k]

(* A party that has finished its constructor has a live socket to everybody *)
(* it needs, and what is left in a stream is not of the hand-shake: the     *)
(* first byte a building block reads is the first one a block has sent.     *)
StreamsClean ==
    Connected => /\ \A c \in Connections : stream[c]["up"] = <<>> /\ stream[c]["down"] = <<>>
                 /\ seed[P1] = seed[P2]
=============================================================================
