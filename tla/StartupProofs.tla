--------------------------- MODULE StartupProofs ---------------------------
(***************************************************************************)
(* Theorems about the set-up of the parties and the loading of the data,    *)
(* for every number of sockets per pair, every backlog, all ports, all      *)
(* arguments and every order in which the processes run.                    *)
(***************************************************************************)
EXTENDS Startup, Lemmas, FiniteSetTheorems

-----------------------------------------------------------------------------
(* The plan of the connections. *)

Steps == 1..(2 * SCKNUM)

(* The party of step n of p, and which of their sockets it is. *)
FirstPeer(p) == IF p = HELPER THEN P1 ELSE HELPER
SecondPeer(p) == IF p = P2 THEN P1 ELSE P2
PeerAt(p, n) == IF n <= SCKNUM THEN FirstPeer(p) ELSE SecondPeer(p)
SocketAt(n) == IF n <= SCKNUM THEN n ELSE n - SCKNUM

(* The step of p that sets up its k-th socket to q. *)
StepFor(p, q, k) == IF q = FirstPeer(p) THEN k ELSE SCKNUM + k

(* The steps of p that connect come first. *)
Connects(p) == CASE p = P1 -> SCKNUM [] p = P2 -> 2 * SCKNUM [] p = HELPER -> 0

(* The step at the other end. *)
MateStep(p, n) == StepFor(PeerAt(p, n), p, SocketAt(n))

-----------------------------------------------------------------------------
(* The invariant. *)

Labels == {"off", "listen", "accept", "connect", "ask", "say", "seed", "done"}

(* Where p is in its step n, and what it has of the connection by then. *)
Phase(p, n) ==
    IF step[p] >= n THEN "past"
    ELSE IF step[p] = n - 1 /\ pc[p] \in {"accept", "ask", "say"} THEN pc[p]
    ELSE "before"

EndOf(p, n) ==
    IF Phase(p, n) = "past" THEN sock[p][PeerAt(p, n)][SocketAt(n)]
    ELSE IF Phase(p, n) \in {"ask", "say"} THEN new[p]
    ELSE 0

(* Connections p has made. *)
Made(p) ==
    IF step[p] >= Connects(p) THEN Connects(p)
    ELSE IF pc[p] \in {"ask", "say"} THEN step[p] + 1 ELSE step[p]

ConnectionTypeOK ==
    /\ pc \in [Roles -> Labels]
    /\ step \in [Roles -> 0..(2 * SCKNUM)]
    /\ sock \in [Roles -> [Roles -> [Sockets -> Nat]]]
    /\ new \in [Roles -> Nat]
    /\ listening \subseteq Addresses
    /\ queue \in [Addresses -> Seq(Nat)]
    /\ stream \in [Connections -> [{"up", "down"} -> Seq(Int)]]
    /\ opened \in Nat
    /\ seed \in [Roles -> Int]

(* A party is where its step takes it. *)
Placed ==
    \A p \in Roles :
        /\ pc[p] = "off" => step[p] = 0
        /\ (pc[p] \in {"seed", "done"}) = (step[p] = 2 * SCKNUM)
        /\ pc[p] = "connect" => step[p] < Connects(p)
        /\ pc[p] \in {"listen", "accept"} => step[p] >= Connects(p)

(* Sockets of steps to come are not set. *)
Unbound ==
    \A p, q \in Roles : \A k \in Sockets :
        p = q \/ step[p] < StepFor(p, q, k) => sock[p][q][k] = 0

(* The connections are those the connecting steps have made, one each. *)
Counted == opened = Made(P1) + Made(P2)
Distinct ==
    \A c, d \in {P1, P2} : \A j \in 1..Connects(c), l \in 1..Connects(d) :
        EndOf(c, j) # 0 /\ EndOf(c, j) = EndOf(d, l) => c = d /\ j = l
Known ==
    \A c \in {P1, P2} : \A j \in 1..Connects(c) : EndOf(c, j) <= opened
AllKnown ==
    \A x \in 1..opened : \E c \in {P1, P2} : \E j \in 1..Connects(c) : EndOf(c, j) = x
Untouched ==
    \A x \in Connections : x > opened =>
        stream[x]["up"] = <<>> /\ stream[x]["down"] = <<>>

(* The hand-shake of one connection: where its opener and its connector are, *)
(* what they have of it, and what is on the way between them.  sd is the    *)
(* seed, when that is on the way.                                           *)
Bytes(x, d) == IF x = 0 THEN <<>> ELSE stream[x][d]

Shaking(opener, connector, xo, xc, listens, q, up, down, says, asks, sd) ==
    /\ listens = (opener = "accept")
    /\ \/ /\ opener \in {"before", "accept"} /\ connector = "before"
          /\ xo = 0 /\ xc = 0 /\ q = <<>>
       \/ /\ opener = "accept" /\ connector \in {"say", "ask"}
          /\ xo = 0 /\ xc # 0 /\ q = <<xc>>
          /\ up = (IF connector = "say" THEN <<>> ELSE <<says>>) /\ down = <<>>
       \/ /\ opener = "ask" /\ connector \in {"say", "ask"}
          /\ xo = xc /\ xc # 0 /\ q = <<>>
          /\ up = (IF connector = "say" THEN <<>> ELSE <<says>>) /\ down = <<>>
       \/ /\ opener = "say" /\ connector = "ask"
          /\ xo = xc /\ xc # 0 /\ q = <<>>
          /\ up = <<>> /\ down = <<>>
       \/ /\ opener = "past" /\ connector \in {"ask", "past"}
          /\ xo = xc /\ xc # 0 /\ q = <<>>
          /\ up = <<>> /\ down = (IF connector = "ask" THEN <<asks>> ELSE <<>>) \o sd

SeedUnderway(c, j) ==
    IF c = P2 /\ j = SCKNUM + 1 /\ pc[P1] = "done" /\ pc[P2] # "done"
    THEN <<Seed>> ELSE <<>>

(* The connection of a connecting step of c. *)
Link(c, j) ==
    Shaking(Phase(PeerAt(c, j), MateStep(c, j)), Phase(c, j),
            EndOf(PeerAt(c, j), MateStep(c, j)), EndOf(c, j),
            Constructor(c)[j].addr \in listening, queue[Constructor(c)[j].addr],
            Bytes(EndOf(c, j), "up"), Bytes(EndOf(c, j), "down"),
            Constructor(c)[j].says, Constructor(c)[j].asks, SeedUnderway(c, j))

Linked == \A c \in {P1, P2} : \A j \in 1..Connects(c) : Link(c, j)

Seeded ==
    /\ pc[P1] = "done" => seed[P1] = Seed
    /\ pc[P2] = "done" => seed[P2] = Seed /\ pc[P1] = "done"

ConnectionInv ==
    /\ ConnectionTypeOK /\ Placed /\ Unbound
    /\ Counted /\ Distinct /\ Known /\ AllKnown /\ Untouched
    /\ Linked /\ Seeded /\ reset = {}

-----------------------------------------------------------------------------
(* The plan fits together: every step has its mate at the other end.        *)

LEMMA RolesFacts ==
  /\ Roles = {0, 1, 2} /\ P1 = 0 /\ P2 = 1 /\ HELPER = 2
  /\ SCKNUM \in Nat /\ SCKNUM >= 1
  /\ HPort \in Nat /\ CPort \in Nat
  BY SCKNUMAssumption, PortAssumption DEF Roles, P1, P2, HELPER

LEMMA TableIsSequence ==
  ASSUME NEW n \in Nat, NEW s, DOMAIN s = 1..n, s = [k \in 1..n |-> s[k]]
  PROVE  s \in Seq({s[k] : k \in 1..n}) /\ Len(s) = n
<1>1. s \in [1..n -> {s[k] : k \in 1..n}]
  OBVIOUS
<1> QED
  BY <1>1

LEMMA HelperPlanRecord ==
  ASSUME NEW n \in Steps
  PROVE  Constructor(HELPER)[n] =
            [kind |-> "open", peer |-> PeerAt(HELPER, n), k |-> SocketAt(n),
             addr |-> <<HELPER, HPort + n - 1>>, asks |-> 2, says |-> 2]
  BY RolesFacts DEF Constructor, open_helper, Opening, PeerAt, SocketAt, At, FirstPeer,
     SecondPeer, Steps

LEMMA HelperPlan ==
  ASSUME NEW n \in Steps
  PROVE  LET r == Constructor(HELPER)[n]
         IN  /\ r.kind = "open" /\ r.peer = PeerAt(HELPER, n) /\ r.k = SocketAt(n)
             /\ r.addr = <<HELPER, HPort + n - 1>> /\ r.asks = 2 /\ r.says = 2
<1>1. Constructor(HELPER)[n] =
            [kind |-> "open", peer |-> PeerAt(HELPER, n), k |-> SocketAt(n),
             addr |-> <<HELPER, HPort + n - 1>>, asks |-> 2, says |-> 2]
  BY HelperPlanRecord
<1> QED
  BY <1>1

LEMMA P1PlanRecord ==
  ASSUME NEW n \in Steps
  PROVE  Constructor(P1)[n] =
            IF n <= SCKNUM
            THEN [kind |-> "connect", peer |-> HELPER, k |-> n,
                  addr |-> <<HELPER, HPort + n - 1>>, asks |-> 2, says |-> 2]
            ELSE [kind |-> "open", peer |-> P2, k |-> n - SCKNUM,
                  addr |-> <<P1, CPort + (n - SCKNUM) - 1>>, asks |-> 1, says |-> 0]
<1> DEFINE s == connect2helper(HPort)
           t == open_P0
<1>1. s \in Seq({s[k] : k \in Sockets}) /\ Len(s) = SCKNUM
  BY TableIsSequence, RolesFacts, Zenon DEF connect2helper, Sockets
<1>2. t \in Seq({t[k] : k \in Sockets}) /\ Len(t) = SCKNUM
  BY TableIsSequence, RolesFacts, Zenon DEF open_P0, Sockets
<1>3. Constructor(P1) = s \o t
  BY RolesFacts DEF Constructor
<1>4. (s \o t)[n] = IF n <= SCKNUM THEN s[n] ELSE t[n - SCKNUM]
  <2> HIDE DEF s, t
  <2> QED
    BY <1>1, <1>2, RolesFacts DEF Steps
<1> QED
  BY <1>3, <1>4, RolesFacts DEF connect2helper, open_P0, Connecting, Opening, At, Sockets, Steps

LEMMA P1Plan ==
  ASSUME NEW n \in Steps
  PROVE  LET r == Constructor(P1)[n]
         IN  /\ n <= SCKNUM =>
                    /\ r.kind = "connect" /\ r.peer = HELPER /\ r.k = n
                    /\ r.addr = <<HELPER, HPort + n - 1>> /\ r.asks = 2 /\ r.says = 2
             /\ n > SCKNUM =>
                    /\ r.kind = "open" /\ r.peer = P2 /\ r.k = n - SCKNUM
                    /\ r.addr = <<P1, CPort + (n - SCKNUM) - 1>> /\ r.asks = 1 /\ r.says = 0
<1>1. CASE n <= SCKNUM
  <2>1. Constructor(P1)[n] = [kind |-> "connect", peer |-> HELPER, k |-> n,
                  addr |-> <<HELPER, HPort + n - 1>>, asks |-> 2, says |-> 2]
    BY <1>1, P1PlanRecord
  <2>2. ~(n > SCKNUM)
    BY <1>1, RolesFacts DEF Steps
  <2> QED
    BY <1>1, <2>1, <2>2
<1>2. CASE n > SCKNUM
  <2>1. ~(n <= SCKNUM)
    BY <1>2, RolesFacts DEF Steps
  <2>2. Constructor(P1)[n] = [kind |-> "open", peer |-> P2, k |-> n - SCKNUM,
                  addr |-> <<P1, CPort + (n - SCKNUM) - 1>>, asks |-> 1, says |-> 0]
    BY <2>1, P1PlanRecord
  <2> QED
    BY <1>2, <2>1, <2>2
<1> QED
  BY <1>1, <1>2, RolesFacts DEF Steps

LEMMA P2PlanRecord ==
  ASSUME NEW n \in Steps
  PROVE  Constructor(P2)[n] =
            IF n <= SCKNUM
            THEN [kind |-> "connect", peer |-> HELPER, k |-> n,
                  addr |-> <<HELPER, HPort + SCKNUM + n - 1>>, asks |-> 2, says |-> 2]
            ELSE [kind |-> "connect", peer |-> P1, k |-> n - SCKNUM,
                  addr |-> <<P1, CPort + (n - SCKNUM) - 1>>, asks |-> 0, says |-> 1]
<1> DEFINE s == connect2helper(HPort + SCKNUM)
           t == connect2P0
<1>1. s \in Seq({s[k] : k \in Sockets}) /\ Len(s) = SCKNUM
  BY TableIsSequence, RolesFacts, Zenon DEF connect2helper, Sockets
<1>2. t \in Seq({t[k] : k \in Sockets}) /\ Len(t) = SCKNUM
  BY TableIsSequence, RolesFacts, Zenon DEF connect2P0, Sockets
<1>3. Constructor(P2) = s \o t
  BY RolesFacts DEF Constructor
<1>4. (s \o t)[n] = IF n <= SCKNUM THEN s[n] ELSE t[n - SCKNUM]
  <2> HIDE DEF s, t
  <2> QED
    BY <1>1, <1>2, RolesFacts DEF Steps
<1> QED
  BY <1>3, <1>4, RolesFacts DEF connect2helper, connect2P0, Connecting, At, Sockets, Steps

LEMMA P2Plan ==
  ASSUME NEW n \in Steps
  PROVE  LET r == Constructor(P2)[n]
         IN  /\ n <= SCKNUM =>
                    /\ r.kind = "connect" /\ r.peer = HELPER /\ r.k = n
                    /\ r.addr = <<HELPER, HPort + SCKNUM + n - 1>>
                    /\ r.asks = 2 /\ r.says = 2
             /\ n > SCKNUM =>
                    /\ r.kind = "connect" /\ r.peer = P1 /\ r.k = n - SCKNUM
                    /\ r.addr = <<P1, CPort + (n - SCKNUM) - 1>> /\ r.asks = 0 /\ r.says = 1
<1>1. CASE n <= SCKNUM
  <2>1. Constructor(P2)[n] = [kind |-> "connect", peer |-> HELPER, k |-> n,
                  addr |-> <<HELPER, HPort + SCKNUM + n - 1>>, asks |-> 2, says |-> 2]
    BY <1>1, P2PlanRecord
  <2>2. ~(n > SCKNUM)
    BY <1>1, RolesFacts DEF Steps
  <2> QED
    BY <1>1, <2>1, <2>2
<1>2. CASE n > SCKNUM
  <2>1. ~(n <= SCKNUM)
    BY <1>2, RolesFacts DEF Steps
  <2>2. Constructor(P2)[n] = [kind |-> "connect", peer |-> P1, k |-> n - SCKNUM,
                  addr |-> <<P1, CPort + (n - SCKNUM) - 1>>, asks |-> 0, says |-> 1]
    BY <2>1, P2PlanRecord
  <2> QED
    BY <1>2, <2>1, <2>2
<1> QED
  BY <1>1, <1>2, RolesFacts DEF Steps

LEMMA PeersOf ==
  ASSUME NEW n \in Steps
  PROVE  /\ n \in Int /\ 1 <= n /\ n <= 2 * SCKNUM
         /\ SocketAt(n) = IF n <= SCKNUM THEN n ELSE n - SCKNUM
         /\ PeerAt(HELPER, n) = IF n <= SCKNUM THEN P1 ELSE P2
         /\ MateStep(HELPER, n) = IF n <= SCKNUM THEN n ELSE n - SCKNUM
         /\ PeerAt(P1, n) = IF n <= SCKNUM THEN HELPER ELSE P2
         /\ MateStep(P1, n) = n
         /\ PeerAt(P2, n) = IF n <= SCKNUM THEN HELPER ELSE P1
         /\ MateStep(P2, n) = IF n <= SCKNUM THEN SCKNUM + n ELSE n
<1>1. n \in Int /\ 1 <= n /\ n <= 2 * SCKNUM
  BY RolesFacts DEF Steps
<1> QED
  BY <1>1, RolesFacts DEF PeerAt, SocketAt, StepFor, MateStep, FirstPeer, SecondPeer

(* The party at the other end of a step has its step for the same socket.   *)
LEMMA PlanFits ==
  ASSUME NEW p \in Roles, NEW n \in Steps
  PROVE  /\ Constructor(p)[n].kind = IF n <= Connects(p) THEN "connect" ELSE "open"
         /\ Constructor(p)[n].peer = PeerAt(p, n)
         /\ Constructor(p)[n].k = SocketAt(n)
         /\ PeerAt(p, n) \in Roles /\ PeerAt(p, n) # p
         /\ SocketAt(n) \in Sockets
         /\ StepFor(p, PeerAt(p, n), SocketAt(n)) = n
         /\ MateStep(p, n) \in Steps
         /\ PeerAt(PeerAt(p, n), MateStep(p, n)) = p
         /\ SocketAt(MateStep(p, n)) = SocketAt(n)
         /\ MateStep(PeerAt(p, n), MateStep(p, n)) = n
         /\ (n <= Connects(p)) = (MateStep(p, n) > Connects(PeerAt(p, n)))
<1>1. n \in Int /\ 1 <= n /\ n <= 2 * SCKNUM
  BY PeersOf
<1>2. CASE p = HELPER
  <2>1. MateStep(p, n) \in Steps
    BY <1>2, PeersOf, RolesFacts DEF Steps
  <2> QED
    BY <1>2, <2>1, PeersOf, HelperPlan, RolesFacts DEF StepFor, Connects, FirstPeer,
       SecondPeer, Sockets
<1>3. CASE p = P1
  <2>1. MateStep(p, n) \in Steps
    BY <1>3, PeersOf, RolesFacts DEF Steps
  <2> QED
    BY <1>3, <2>1, PeersOf, P1Plan, RolesFacts DEF StepFor, Connects, FirstPeer,
       SecondPeer, Sockets
<1>4. CASE p = P2
  <2>1. MateStep(p, n) \in Steps
    BY <1>4, PeersOf, RolesFacts DEF Steps
  <2> QED
    BY <1>4, <2>1, PeersOf, P2Plan, RolesFacts DEF StepFor, Connects, FirstPeer,
       SecondPeer, Sockets
<1> QED
  BY <1>2, <1>3, <1>4, RolesFacts

(* The two ends of a connection use one address, and what one says the      *)
(* other asks for.                                                          *)
LEMMA EndsAgree ==
  ASSUME NEW c \in {P1, P2}, NEW j \in 1..Connects(c)
  PROVE  LET o == PeerAt(c, j)
             i == MateStep(c, j)
         IN  /\ j \in Steps
             /\ Constructor(o)[i].addr = Constructor(c)[j].addr
             /\ Constructor(o)[i].asks = Constructor(c)[j].says
             /\ Constructor(o)[i].says = Constructor(c)[j].asks
             /\ Constructor(c)[j].asks \in Int /\ Constructor(c)[j].says \in Int
<1>1. j \in Steps /\ j <= Connects(c)
  BY RolesFacts DEF Connects, Steps
<1>2. j \in Int /\ 1 <= j /\ j <= 2 * SCKNUM /\ MateStep(c, j) \in Steps
  BY <1>1, PeersOf, PlanFits, RolesFacts
<1>3. CASE c = P1
  <2>1. j <= SCKNUM /\ PeerAt(c, j) = HELPER /\ MateStep(c, j) = j
    BY <1>1, <1>3, PeersOf, RolesFacts DEF Connects
  <2> QED
    BY <1>1, <1>2, <1>3, <2>1, P1Plan, HelperPlan, RolesFacts
<1>4. CASE c = P2 /\ j <= SCKNUM
  <2>1. PeerAt(c, j) = HELPER /\ MateStep(c, j) = SCKNUM + j
    BY <1>1, <1>4, PeersOf, RolesFacts
  <2> QED
    BY <1>1, <1>2, <1>4, <2>1, P2Plan, HelperPlan, RolesFacts
<1>5. CASE c = P2 /\ j > SCKNUM
  <2>1. PeerAt(c, j) = P1 /\ MateStep(c, j) = j
    BY <1>1, <1>2, <1>5, PeersOf, RolesFacts
  <2> QED
    BY <1>1, <1>2, <1>5, <2>1, P2Plan, P1Plan, RolesFacts
<1> QED
  BY <1>2, <1>3, <1>4, <1>5, RolesFacts

(* Every connection has an address of its own.                              *)
LEMMA AddressesDiffer ==
  ASSUME NEW c \in {P1, P2}, NEW j \in 1..Connects(c),
         NEW d \in {P1, P2}, NEW l \in 1..Connects(d),
         Constructor(c)[j].addr = Constructor(d)[l].addr
  PROVE  c = d /\ j = l
<1>1. j \in Steps /\ l \in Steps
  BY RolesFacts DEF Connects, Steps
<1>2. ASSUME NEW e \in {P1, P2}, NEW m \in 1..Connects(e)
      PROVE  /\ m \in Nat /\ (e = P1 => m <= SCKNUM)
             /\ Constructor(e)[m].addr[1] = IF e = P1 \/ m <= SCKNUM THEN 2 ELSE 0
             /\ Constructor(e)[m].addr[2] = IF e = P1 THEN HPort + m - 1
                                            ELSE IF m <= SCKNUM THEN HPort + SCKNUM + m - 1
                                            ELSE CPort + (m - SCKNUM) - 1
  <2>1. m \in Steps /\ m \in Nat /\ (e = P1 => m <= SCKNUM)
    BY RolesFacts DEF Connects, Steps
  <2>2. CASE e = P1
    BY <2>1, <2>2, P1Plan, RolesFacts
  <2>3. CASE e = P2
    BY <2>1, <2>3, P2Plan, RolesFacts
  <2> QED
    BY <2>1, <2>2, <2>3, RolesFacts
<1> DEFINE host(e, m) == IF e = P1 \/ m <= SCKNUM THEN 2 ELSE 0
           port(e, m) == IF e = P1 THEN HPort + m - 1
                         ELSE IF m <= SCKNUM THEN HPort + SCKNUM + m - 1
                         ELSE CPort + (m - SCKNUM) - 1
<1>3. host(c, j) = host(d, l) /\ port(c, j) = port(d, l)
  <2>1. /\ Constructor(c)[j].addr[1] = host(c, j) /\ Constructor(c)[j].addr[2] = port(c, j)
        /\ Constructor(d)[l].addr[1] = host(d, l) /\ Constructor(d)[l].addr[2] = port(d, l)
    BY <1>2
  <2> HIDE DEF host, port
  <2> QED
    BY <2>1
<1>4. /\ j \in Nat /\ (c = P1 => j <= SCKNUM)
      /\ l \in Nat /\ (d = P1 => l <= SCKNUM) /\ j >= 1 /\ l >= 1
  BY <1>2
<1> QED
  BY <1>3, <1>4, RolesFacts

LEMMA AddressKnown ==
  ASSUME NEW p \in Roles, NEW n \in Steps
  PROVE  Constructor(p)[n].addr \in Addresses
  BY DEF Addresses, Steps

-----------------------------------------------------------------------------
(* What a step of one party leaves of the others.                           *)

LEMMA TypesOfEnds ==
  ASSUME ConnectionTypeOK, NEW p \in Roles, NEW n \in Steps
  PROVE  /\ EndOf(p, n) \in Nat
         /\ step[p] \in Nat /\ step[p] <= 2 * SCKNUM /\ pc[p] \in Labels
         /\ Phase(p, n) \in {"before", "accept", "ask", "say", "past"}
<1>1. PeerAt(p, n) \in Roles /\ SocketAt(n) \in Sockets
  BY PlanFits
<1>2. sock[p][PeerAt(p, n)][SocketAt(n)] \in Nat /\ new[p] \in Nat
  BY <1>1 DEF ConnectionTypeOK
<1>3. step[p] \in Nat /\ step[p] <= 2 * SCKNUM /\ pc[p] \in Labels
  BY RolesFacts DEF ConnectionTypeOK
<1> QED
  BY <1>2, <1>3 DEF EndOf, Phase

LEMMA ConnectsBounds ==
  ASSUME NEW p \in Roles
  PROVE  Connects(p) \in Nat /\ Connects(p) <= 2 * SCKNUM /\ 1..Connects(p) \subseteq Steps
  BY RolesFacts DEF Connects, Steps

LEMMA MadeBounds ==
  ASSUME ConnectionTypeOK, Placed, Counted
  PROVE  /\ \A p \in Roles : Made(p) \in 0..Connects(p)
         /\ \A p \in Roles : pc[p] = "connect" => Made(p) = step[p] /\ Made(p) < Connects(p)
         /\ opened <= 3 * SCKNUM
         /\ \A p \in {P1, P2} : pc[p] = "connect" => opened < 3 * SCKNUM
<1>1. ASSUME NEW p \in Roles
      PROVE  /\ Made(p) \in 0..Connects(p)
             /\ pc[p] = "connect" => Made(p) = step[p] /\ Made(p) < Connects(p)
  <2>1. step[p] \in Nat /\ Connects(p) \in Nat
    BY <1>1, ConnectsBounds, RolesFacts DEF ConnectionTypeOK
  <2> QED
    BY <2>1 DEF Made, Placed
<1>2. Connects(P1) = SCKNUM /\ Connects(P2) = 2 * SCKNUM
  BY RolesFacts DEF Connects
<1>3. /\ Made(P1) \in Int /\ Made(P2) \in Int
      /\ Made(P1) <= SCKNUM /\ Made(P2) <= 2 * SCKNUM
      /\ pc[P1] = "connect" => Made(P1) < SCKNUM
      /\ pc[P2] = "connect" => Made(P2) < 2 * SCKNUM
  BY <1>1, <1>2, RolesFacts
<1> QED
  BY <1>1, <1>3, RolesFacts DEF Counted

(* The step a party is in. *)
LEMMA CurrentStep ==
  ASSUME ConnectionTypeOK, Placed, NEW p \in Roles,
         pc[p] \in {"listen", "accept", "connect", "ask", "say"}
  PROVE  LET n == step[p] + 1
         IN  /\ n \in Steps /\ step[p] \in Nat
             /\ Current(p) = Constructor(p)[n]
             /\ pc[p] \in {"listen", "accept"} => n > Connects(p)
             /\ pc[p] = "connect" => n <= Connects(p)
             /\ (Current(p).kind = "open") = (n > Connects(p))
             /\ Phase(p, n) = IF pc[p] \in {"accept", "ask", "say"} THEN pc[p] ELSE "before"
             /\ EndOf(p, n) = IF pc[p] \in {"ask", "say"} THEN new[p] ELSE 0
<1>1. /\ step[p] \in Nat /\ step[p] <= 2 * SCKNUM /\ step[p] # 2 * SCKNUM
      /\ Connects(p) \in Nat
  BY ConnectsBounds, RolesFacts DEF ConnectionTypeOK, Placed
<1>2. step[p] + 1 \in Steps
  BY <1>1, RolesFacts DEF Steps
<1>3. Constructor(p)[step[p] + 1].kind = IF step[p] + 1 <= Connects(p) THEN "connect" ELSE "open"
  BY <1>2, PlanFits
<1>4. Phase(p, step[p] + 1) = IF pc[p] \in {"accept", "ask", "say"} THEN pc[p] ELSE "before"
  BY <1>1 DEF Phase
<1>5. EndOf(p, step[p] + 1) = IF pc[p] \in {"ask", "say"} THEN new[p] ELSE 0
  BY <1>4 DEF EndOf
<1> QED
  BY <1>1, <1>2, <1>3, <1>4, <1>5 DEF Current, Placed

LEMMA AfterStep ==
  ASSUME NEW p \in Roles, NEW m \in 0..(2 * SCKNUM)
  PROVE  /\ After(p, m) \in {"listen", "connect", "seed"}
         /\ (After(p, m) = "seed") = (m = 2 * SCKNUM)
         /\ After(p, m) = "connect" => m < Connects(p)
         /\ After(p, m) = "listen" => m >= Connects(p)
<1>1. CASE m = 2 * SCKNUM
  BY <1>1 DEF After
<1>2. CASE m # 2 * SCKNUM
  <2>1. m + 1 \in Steps /\ m \in Nat /\ Connects(p) \in Nat
    BY <1>2, ConnectsBounds, RolesFacts DEF Steps
  <2>2. Constructor(p)[m + 1].kind = IF m + 1 <= Connects(p) THEN "connect" ELSE "open"
    BY <2>1, PlanFits
  <2> QED
    BY <1>2, <2>1, <2>2 DEF After
<1> QED
  BY <1>1, <1>2

(* A party that changes its label within a step changes nothing of its other *)
(* steps.                                                                   *)
LEMMA MoveWithin ==
  ASSUME ConnectionTypeOK, Placed, NEW p \in Roles,
         pc[p] \in {"listen", "accept", "connect", "ask", "say"},
         NEW n \in Steps, n = step[p] + 1,
         NEW l \in {"accept", "ask", "say"}, Goto(p, l),
         UNCHANGED <<step, sock>>,
         \A q \in Roles : q # p => new'[q] = new[q]
  PROVE  /\ \A q \in Roles, m \in Steps : ~(q = p /\ m = n) =>
               Phase(q, m)' = Phase(q, m) /\ EndOf(q, m)' = EndOf(q, m)
         /\ Phase(p, n)' = l
         /\ EndOf(p, n)' = IF l = "accept" THEN 0 ELSE new'[p]
<1>1. \A q \in Roles : pc'[q] = IF q = p THEN l ELSE pc[q]
  BY DEF Goto, ConnectionTypeOK
<1>2. \A q \in Roles : step[q] \in Nat /\ step'[q] = step[q]
  BY RolesFacts DEF ConnectionTypeOK
<1>3. ASSUME NEW q \in Roles, NEW m \in Steps, ~(q = p /\ m = n)
      PROVE  Phase(q, m)' = Phase(q, m) /\ EndOf(q, m)' = EndOf(q, m)
  <2>1. m \in Nat
    BY RolesFacts DEF Steps
  <2>2. Phase(q, m)' = Phase(q, m)
    BY <1>1, <1>2, <1>3, <2>1 DEF Phase
  <2>3. q = p => Phase(q, m) \in {"before", "past"}
    BY <1>2, <1>3, <2>1 DEF Phase
  <2> QED
    BY <2>2, <2>3, <1>3 DEF EndOf
<1>4. Phase(p, n)' = l
  BY <1>1, <1>2 DEF Phase
<1>5. EndOf(p, n)' = IF l = "accept" THEN 0 ELSE new'[p]
  BY <1>4 DEF EndOf
<1> QED
  BY <1>3, <1>4, <1>5

(* A party that has set up a socket keeps the connection. *)
LEMMA MoveOn ==
  ASSUME ConnectionTypeOK, Placed, NEW p \in Roles, pc[p] \in {"ask", "say"},
         NEW n \in Steps, n = step[p] + 1,
         Established(p), UNCHANGED new
  PROVE  /\ \A q \in Roles, m \in Steps :
               /\ EndOf(q, m)' = EndOf(q, m)
               /\ ~(q = p /\ m = n) => Phase(q, m)' = Phase(q, m)
         /\ Phase(p, n)' = "past"
<1>1. n \in Steps /\ step[p] \in Nat /\ Current(p) = Constructor(p)[n] /\ step[p] + 1 \in 0..(2 * SCKNUM)
      /\ EndOf(p, n) = new[p]
  BY CurrentStep, RolesFacts DEF Steps
<1>2. Current(p).peer = PeerAt(p, n) /\ Current(p).k = SocketAt(n)
      /\ PeerAt(p, n) \in Roles /\ SocketAt(n) \in Sockets
  <2>1. /\ Constructor(p)[n].peer = PeerAt(p, n) /\ Constructor(p)[n].k = SocketAt(n)
        /\ PeerAt(p, n) \in Roles /\ SocketAt(n) \in Sockets
    BY <1>1, PlanFits
  <2> QED
    BY <1>1, <2>1
<1>3. After(p, step[p] + 1) \in {"listen", "connect", "seed"}
  BY <1>1, AfterStep
<1>4. \A q \in Roles : pc'[q] = IF q = p THEN After(p, step[p] + 1) ELSE pc[q]
  BY DEF Established, Goto, ConnectionTypeOK
<1>5. \A q \in Roles : step[q] \in Nat /\ step'[q] = IF q = p THEN n ELSE step[q]
  BY RolesFacts DEF Established, ConnectionTypeOK
<1>6. \A q, r \in Roles, k \in Sockets :
         sock'[q][r][k] = IF q = p /\ r = PeerAt(p, n) /\ k = SocketAt(n) THEN new[p]
                          ELSE sock[q][r][k]
  <2>1. sock' = [sock EXCEPT ![p][PeerAt(p, n)][SocketAt(n)] = new[p]]
    BY <1>2 DEF Established
  <2>2. sock \in [Roles -> [Roles -> [Sockets -> Nat]]]
    BY DEF ConnectionTypeOK
  <2> QED
    BY <1>2, <2>1, <2>2
<1>7. ASSUME NEW q \in Roles, NEW m \in Steps, ~(q = p /\ m = n)
      PROVE  Phase(q, m)' = Phase(q, m) /\ EndOf(q, m)' = EndOf(q, m)
  <2>1. m \in Nat /\ PeerAt(q, m) \in Roles /\ SocketAt(m) \in Sockets
    BY PlanFits, RolesFacts DEF Steps
  <2>2. Phase(q, m)' = Phase(q, m)
    BY <1>3, <1>4, <1>5, <1>7, <2>1 DEF Phase
  <2>3. sock'[q][PeerAt(q, m)][SocketAt(m)] = sock[q][PeerAt(q, m)][SocketAt(m)]
    <3>1. StepFor(q, PeerAt(q, m), SocketAt(m)) = m /\ StepFor(p, PeerAt(p, n), SocketAt(n)) = n
      BY <1>1, PlanFits
    <3> QED
      BY <1>6, <1>7, <2>1, <3>1
  <2> QED
    BY <2>2, <2>3 DEF EndOf
<1>8. Phase(p, n)' = "past"
  BY <1>1, <1>5 DEF Phase
<1>9. EndOf(p, n)' = EndOf(p, n)
  <2>1. EndOf(p, n)' = sock'[p][PeerAt(p, n)][SocketAt(n)]
    BY <1>1, <1>8 DEF EndOf
  <2> QED
    BY <1>1, <1>2, <1>6, <2>1
<1> QED
  BY <1>7, <1>8, <1>9

(* One connection at a time: the others are left as they are. *)
LEMMA LinksKept ==
  ASSUME ConnectionTypeOK, Distinct, Known, Linked,
         NEW p \in Roles, NEW n \in Steps,
         NEW c \in {P1, P2}, NEW j \in 1..Connects(c),
         (p = c /\ n = j) \/ (p = PeerAt(c, j) /\ n = MateStep(c, j)),
         \A q \in Roles, m \in Steps : ~(q = p /\ m = n) =>
             Phase(q, m)' = Phase(q, m) /\ EndOf(q, m)' = EndOf(q, m),
         \A b \in Addresses : b # Constructor(c)[j].addr =>
             (b \in listening') = (b \in listening) /\ queue'[b] = queue[b],
         \A x \in 1..opened : x # EndOf(c, j) => stream'[x] = stream[x],
         \A d \in {P1, P2} : \A l \in 1..Connects(d) :
             (d = c /\ l = j) \/ SeedUnderway(d, l)' = SeedUnderway(d, l),
         Link(c, j)'
  PROVE  Linked'
<1> SUFFICES ASSUME NEW d \in {P1, P2}, NEW l \in 1..Connects(d), ~(d = c /\ l = j)
             PROVE  Link(d, l)'
  BY DEF Linked
<1>1. d \in Roles /\ l \in Steps /\ c \in Roles /\ j \in Steps
  BY ConnectsBounds, RolesFacts
<1>2. PeerAt(d, l) \in Roles /\ MateStep(d, l) \in Steps
  BY <1>1, PlanFits
<1>3. /\ j <= Connects(c) /\ MateStep(c, j) > Connects(PeerAt(c, j))
      /\ l <= Connects(d) /\ MateStep(d, l) > Connects(PeerAt(d, l))
  <2>1. j <= Connects(c) /\ l <= Connects(d)
    BY <1>1, ConnectsBounds
  <2> QED
    BY <1>1, <2>1, PlanFits
<1>4. ~(d = p /\ l = n)
  <2>1. PeerAt(c, j) \in Roles /\ MateStep(c, j) \in Steps
    BY <1>1, PlanFits
  <2>2. Connects(d) \in Nat /\ Connects(PeerAt(c, j)) \in Nat
    BY <1>1, <2>1, ConnectsBounds
  <2>3. MateStep(c, j) \in Nat /\ l \in Nat
    BY <1>1, <2>1, RolesFacts DEF Steps
  <2> QED
    BY <1>3, <2>2, <2>3
<1>5. ~(PeerAt(d, l) = p /\ MateStep(d, l) = n)
  <2>1. CASE p = c /\ n = j
    <3>1. Connects(c) \in Nat /\ MateStep(d, l) \in Nat
      BY <1>1, PlanFits, ConnectsBounds, RolesFacts DEF Steps
    <3> QED
      BY <1>3, <2>1, <3>1
  <2>2. CASE p = PeerAt(c, j) /\ n = MateStep(c, j)
    <3>1. PeerAt(PeerAt(d, l), MateStep(d, l)) = d /\ MateStep(PeerAt(d, l), MateStep(d, l)) = l
          /\ PeerAt(PeerAt(c, j), MateStep(c, j)) = c /\ MateStep(PeerAt(c, j), MateStep(c, j)) = j
      BY <1>1, PlanFits
    <3> QED
      BY <2>2, <3>1
  <2> QED
    BY <2>1, <2>2
<1>6. /\ Phase(d, l)' = Phase(d, l) /\ EndOf(d, l)' = EndOf(d, l)
      /\ Phase(PeerAt(d, l), MateStep(d, l))' = Phase(PeerAt(d, l), MateStep(d, l))
      /\ EndOf(PeerAt(d, l), MateStep(d, l))' = EndOf(PeerAt(d, l), MateStep(d, l))
  BY <1>1, <1>2, <1>4, <1>5
<1>7. /\ (Constructor(d)[l].addr \in listening') = (Constructor(d)[l].addr \in listening)
      /\ queue'[Constructor(d)[l].addr] = queue[Constructor(d)[l].addr]
  <2>1. Constructor(d)[l].addr \in Addresses /\ Constructor(d)[l].addr # Constructor(c)[j].addr
    BY <1>1, AddressKnown, AddressesDiffer
  <2> QED
    BY <2>1
<1>8. EndOf(d, l) = 0 \/ stream'[EndOf(d, l)] = stream[EndOf(d, l)]
  <2>1. EndOf(d, l) \in Nat /\ EndOf(d, l) <= opened /\ opened \in Nat
    BY <1>1, TypesOfEnds DEF Known, ConnectionTypeOK
  <2>2. EndOf(d, l) # 0 => EndOf(d, l) # EndOf(c, j)
    BY DEF Distinct
  <2> QED
    BY <2>1, <2>2
<1>9. /\ Bytes(EndOf(d, l), "up")' = Bytes(EndOf(d, l), "up")
      /\ Bytes(EndOf(d, l), "down")' = Bytes(EndOf(d, l), "down")
  BY <1>6, <1>8 DEF Bytes
<1>10. Link(d, l)
  BY DEF Linked
<1>11. SeedUnderway(d, l)' = SeedUnderway(d, l)
  OBVIOUS
<1> QED
  BY <1>6, <1>7, <1>9, <1>10, <1>11 DEF Link

LEMMA SeedSame ==
  ASSUME (pc'[P1] = "done") = (pc[P1] = "done"), (pc'[P2] = "done") = (pc[P2] = "done")
  PROVE  \A d, l : SeedUnderway(d, l)' = SeedUnderway(d, l)
  BY DEF SeedUnderway

LEMMA LinksSame ==
  ASSUME Linked,
         \A q \in Roles, m \in Steps : Phase(q, m)' = Phase(q, m) /\ EndOf(q, m)' = EndOf(q, m),
         (pc'[P1] = "done") = (pc[P1] = "done"), (pc'[P2] = "done") = (pc[P2] = "done"),
         UNCHANGED <<listening, queue, stream>>
  PROVE  Linked'
<1> SUFFICES ASSUME NEW d \in {P1, P2}, NEW l \in 1..Connects(d)
             PROVE  Link(d, l)'
  BY DEF Linked
<1>1. d \in Roles /\ l \in Steps
  BY ConnectsBounds, RolesFacts
<1>2. PeerAt(d, l) \in Roles /\ MateStep(d, l) \in Steps
  BY <1>1, PlanFits
<1>3. /\ Phase(d, l)' = Phase(d, l) /\ EndOf(d, l)' = EndOf(d, l)
      /\ Phase(PeerAt(d, l), MateStep(d, l))' = Phase(PeerAt(d, l), MateStep(d, l))
      /\ EndOf(PeerAt(d, l), MateStep(d, l))' = EndOf(PeerAt(d, l), MateStep(d, l))
  BY <1>1, <1>2
<1>4. /\ Bytes(EndOf(d, l), "up")' = Bytes(EndOf(d, l), "up")
      /\ Bytes(EndOf(d, l), "down")' = Bytes(EndOf(d, l), "down")
  BY <1>3 DEF Bytes
<1>5. Link(d, l)
  BY DEF Linked
<1>6. SeedUnderway(d, l)' = SeedUnderway(d, l)
  BY SeedSame
<1> QED
  BY <1>3, <1>4, <1>5, <1>6 DEF Link

LEMMA NumbersKept ==
  ASSUME Counted, Distinct, Known, AllKnown,
         \A d \in {P1, P2} : \A l \in 1..Connects(d) : EndOf(d, l)' = EndOf(d, l),
         Made(P1)' = Made(P1), Made(P2)' = Made(P2), opened' = opened
  PROVE  Counted' /\ Distinct' /\ Known' /\ AllKnown'
<1>1. Counted'
  BY DEF Counted
<1>2. Distinct'
  BY DEF Distinct
<1>3. Known'
  BY DEF Known
<1>4. AllKnown'
  BY DEF AllKnown
<1> QED
  BY <1>1, <1>2, <1>3, <1>4

(* The other end of a step, seen from the end that connects. *)
LEMMA LinkOf ==
  ASSUME NEW p \in Roles, NEW n \in Steps
  PROVE  \E c \in {P1, P2} : \E j \in 1..Connects(c) :
            /\ Constructor(c)[j].addr = Constructor(p)[n].addr
            /\ \/ n <= Connects(p) /\ c = p /\ j = n
               \/ /\ n > Connects(p) /\ p = PeerAt(c, j) /\ n = MateStep(c, j)
                  /\ c = PeerAt(p, n) /\ j = MateStep(p, n)
                  /\ Constructor(p)[n].asks = Constructor(c)[j].says
                  /\ Constructor(p)[n].says = Constructor(c)[j].asks
<1>0. n \in Nat /\ n >= 1 /\ Connects(p) \in Nat
  BY ConnectsBounds, RolesFacts DEF Steps
<1>1. CASE n <= Connects(p)
  <2>1. p # HELPER
    BY <1>0, <1>1 DEF Connects, P1, P2, HELPER
  <2>2. p \in {P1, P2} /\ n \in 1..Connects(p)
    BY <1>0, <1>1, <2>1 DEF Roles
  <2> QED
    BY <1>1, <2>2
<1>2. CASE n > Connects(p)
  <2> DEFINE c == PeerAt(p, n)
             j == MateStep(p, n)
  <2>1. /\ c \in Roles /\ j \in Steps /\ PeerAt(c, j) = p /\ MateStep(c, j) = n
        /\ (n <= Connects(p)) = (j > Connects(c))
    BY PlanFits
  <2>2. j \in Nat /\ j >= 1 /\ Connects(c) \in Nat
    BY <2>1, ConnectsBounds, RolesFacts DEF Steps
  <2>3. j <= Connects(c)
    BY <1>0, <1>2, <2>1, <2>2
  <2>4. c # HELPER
    BY <2>2, <2>3 DEF Connects, P1, P2, HELPER
  <2>5. c \in {P1, P2} /\ j \in 1..Connects(c)
    BY <2>1, <2>2, <2>3, <2>4 DEF Roles
  <2>6. /\ Constructor(p)[n].addr = Constructor(c)[j].addr
        /\ Constructor(p)[n].asks = Constructor(c)[j].says
        /\ Constructor(p)[n].says = Constructor(c)[j].asks
    <3> HIDE DEF c, j
    <3> QED
      BY <2>1, <2>5, EndsAgree
  <2> HIDE DEF c, j
  <2> QED
    BY <1>2, <2>1, <2>5, <2>6 DEF c, j
<1> QED
  BY <1>0, <1>1, <1>2

-----------------------------------------------------------------------------
(* The steps. *)

LEMMA StartKeeps ==
  ASSUME ConnectionInv, NEW p \in Roles, Start(p)
  PROVE  ConnectionInv'
<1> USE DEF ConnectionInv
<1>1. step[p] = 0 /\ pc[p] = "off" /\ 0 \in 0..(2 * SCKNUM)
  BY RolesFacts DEF Start, Placed
<1> DEFINE l == After(p, 0)
<1>2. /\ l \in {"listen", "connect"}
      /\ l = "connect" => 0 < Connects(p)
      /\ l = "listen" => 0 >= Connects(p)
  <2>1. 0 # 2 * SCKNUM
    BY RolesFacts
  <2> QED
    BY <1>1, <2>1, AfterStep
<1>3. pc' = [pc EXCEPT ![p] = l]
      /\ UNCHANGED <<step, sock, new, listening, queue, stream, opened, reset, seed>>
  BY <1>1 DEF Start, Goto
<1> HIDE DEF l
<1>4. \A q \in Roles : pc'[q] = IF q = p THEN l ELSE pc[q]
  BY <1>3 DEF ConnectionTypeOK
<1>5. ConnectionTypeOK'
  BY <1>2, <1>3 DEF ConnectionTypeOK, Labels
<1>6. Placed'
  BY <1>1, <1>2, <1>3, <1>4, RolesFacts DEF Placed
<1>7. Unbound'
  BY <1>3 DEF Unbound
<1>8. \A q \in Roles, m \in Steps : Phase(q, m)' = Phase(q, m) /\ EndOf(q, m)' = EndOf(q, m)
  <2> SUFFICES ASSUME NEW q \in Roles, NEW m \in Steps
               PROVE  Phase(q, m)' = Phase(q, m) /\ EndOf(q, m)' = EndOf(q, m)
    OBVIOUS
  <2>1. Phase(q, m)' = Phase(q, m)
    BY <1>1, <1>2, <1>3, <1>4 DEF Phase
  <2> QED
    BY <2>1, <1>3 DEF EndOf
<1>9. Made(P1)' = Made(P1) /\ Made(P2)' = Made(P2)
  BY <1>1, <1>2, <1>3, <1>4 DEF Made, Roles
<1>10. Counted' /\ Distinct' /\ Known' /\ AllKnown'
  BY <1>3, <1>8, <1>9, NumbersKept, ConnectsBounds, RolesFacts
<1>11. Untouched'
  BY <1>3 DEF Untouched
<1>12. (pc'[P1] = "done") = (pc[P1] = "done") /\ (pc'[P2] = "done") = (pc[P2] = "done")
  BY <1>1, <1>2, <1>4 DEF Roles
<1>13. Linked'
  BY <1>3, <1>8, <1>12, LinksSame
<1>14. Seeded' /\ (reset = {})'
  BY <1>3, <1>12 DEF Seeded
<1> QED
  BY <1>5, <1>6, <1>7, <1>10, <1>11, <1>13, <1>14

LEMMA ListenKeeps ==
  ASSUME ConnectionInv, NEW p \in Roles, Listen(p)
  PROVE  ConnectionInv'
<1> USE DEF ConnectionInv
<1>1. PICK n \in Steps : n = step[p] + 1
  BY CurrentStep DEF Listen
<1>2. /\ pc[p] = "listen" /\ Current(p) = Constructor(p)[n] /\ n > Connects(p)
      /\ Phase(p, n) = "before" /\ EndOf(p, n) = 0 /\ step[p] \in Nat
  BY <1>1, CurrentStep DEF Listen
<1> DEFINE a == Constructor(p)[n].addr
<1>3. /\ pc' = [pc EXCEPT ![p] = "accept"] /\ listening' = listening \cup {a}
      /\ UNCHANGED <<step, sock, new, queue, stream, opened, reset, seed>>
  BY <1>2 DEF Listen, Goto
<1>4. a \in Addresses
  BY AddressKnown
<1> HIDE DEF a
<1>5. \A q \in Roles : pc'[q] = IF q = p THEN "accept" ELSE pc[q]
  BY <1>3 DEF ConnectionTypeOK
<1>6. ConnectionTypeOK'
  BY <1>3, <1>4 DEF ConnectionTypeOK, Labels
<1>7. Placed'
  BY <1>2, <1>3, <1>5 DEF Placed
<1>8. Unbound'
  BY <1>3 DEF Unbound
<1>9. /\ \A q \in Roles, m \in Steps : ~(q = p /\ m = n) =>
            Phase(q, m)' = Phase(q, m) /\ EndOf(q, m)' = EndOf(q, m)
      /\ Phase(p, n)' = "accept" /\ EndOf(p, n)' = 0
  <2>1. Goto(p, "accept")
    BY DEF Listen
  <2> QED
    BY <1>1, <1>2, <1>3, <2>1, MoveWithin
<1>10. \A q \in Roles, m \in Steps : EndOf(q, m)' = EndOf(q, m)
  BY <1>2, <1>9
<1>11. Made(P1)' = Made(P1) /\ Made(P2)' = Made(P2)
  BY <1>2, <1>3, <1>5 DEF Made, Roles
<1>12. Counted' /\ Distinct' /\ Known' /\ AllKnown'
  BY <1>3, <1>10, <1>11, NumbersKept, ConnectsBounds, RolesFacts
<1>13. Untouched'
  BY <1>3 DEF Untouched
<1>14. (pc'[P1] = "done") = (pc[P1] = "done") /\ (pc'[P2] = "done") = (pc[P2] = "done")
  BY <1>2, <1>5 DEF Roles
<1>15. Linked'
  <2>1. PICK c \in {P1, P2} : \E j \in 1..Connects(c) :
            /\ Constructor(c)[j].addr = a
            /\ p = PeerAt(c, j) /\ n = MateStep(c, j)
            /\ c = PeerAt(p, n) /\ j = MateStep(p, n)
    BY <1>2, LinkOf, ConnectsBounds DEF a, Steps
  <2>2. PICK j \in 1..Connects(c) :
            /\ Constructor(c)[j].addr = a
            /\ p = PeerAt(c, j) /\ n = MateStep(c, j)
            /\ c = PeerAt(p, n) /\ j = MateStep(p, n)
    BY <2>1
  <2>3. c \in Roles /\ j \in Steps /\ c # p
    BY <2>2, ConnectsBounds, RolesFacts, PlanFits
  <2>4. Link(c, j)'
    <3>1. Link(c, j)
      BY DEF Linked
    <3>2. Phase(c, j)' = Phase(c, j) /\ EndOf(c, j)' = EndOf(c, j)
      BY <1>9, <2>3
    <3>3. Bytes(EndOf(c, j), "up")' = Bytes(EndOf(c, j), "up")
          /\ Bytes(EndOf(c, j), "down")' = Bytes(EndOf(c, j), "down")
      BY <1>3, <3>2 DEF Bytes
    <3>4. SeedUnderway(c, j)' = SeedUnderway(c, j)
      BY <1>14, SeedSame
    <3>5. Phase(PeerAt(c, j), MateStep(c, j)) = "before" /\ Phase(PeerAt(c, j), MateStep(c, j))' = "accept"
          /\ EndOf(PeerAt(c, j), MateStep(c, j)) = 0 /\ EndOf(PeerAt(c, j), MateStep(c, j))' = 0
      BY <1>2, <1>9, <2>2
    <3>6. (Constructor(c)[j].addr \in listening') = TRUE
          /\ queue'[Constructor(c)[j].addr] = queue[Constructor(c)[j].addr]
      BY <1>3, <2>2
    <3> QED
      BY <3>1, <3>2, <3>3, <3>4, <3>5, <3>6 DEF Link, Shaking
  <2>5. \A b \in Addresses : b # Constructor(c)[j].addr =>
             (b \in listening') = (b \in listening) /\ queue'[b] = queue[b]
    BY <1>3, <2>2
  <2>6. \A d \in {P1, P2} : \A l \in 1..Connects(d) :
             (d = c /\ l = j) \/ SeedUnderway(d, l)' = SeedUnderway(d, l)
    BY <1>14, SeedSame
  <2> QED
    BY <1>3, <1>9, <2>2, <2>4, <2>5, <2>6, LinksKept
<1>16. Seeded' /\ (reset = {})'
  BY <1>3, <1>14 DEF Seeded
<1> QED
  BY <1>6, <1>7, <1>8, <1>12, <1>13, <1>15, <1>16

LEMMA AcceptKeeps ==
  ASSUME ConnectionInv, NEW p \in Roles, Accept(p)
  PROVE  ConnectionInv'
<1> USE DEF ConnectionInv
<1>1. PICK n \in Steps : n = step[p] + 1
  BY CurrentStep DEF Accept
<1>2. /\ pc[p] = "accept" /\ Current(p) = Constructor(p)[n] /\ n > Connects(p)
      /\ Phase(p, n) = "accept" /\ EndOf(p, n) = 0 /\ step[p] \in Nat
  BY <1>1, CurrentStep DEF Accept
<1>3. PICK c \in {P1, P2} : \E j \in 1..Connects(c) :
          /\ Constructor(c)[j].addr = Constructor(p)[n].addr
          /\ p = PeerAt(c, j) /\ n = MateStep(c, j)
  BY <1>2, LinkOf, ConnectsBounds DEF Steps
<1>4. PICK j \in 1..Connects(c) :
          /\ Constructor(c)[j].addr = Constructor(p)[n].addr
          /\ p = PeerAt(c, j) /\ n = MateStep(c, j)
  BY <1>3
<1>5. c \in Roles /\ j \in Steps /\ c # p
  BY <1>4, ConnectsBounds, RolesFacts, PlanFits
<1> DEFINE a == Constructor(p)[n].addr
           x == EndOf(c, j)
<1>6. a \in Addresses
  BY AddressKnown
<1>7. queue[a] # <<>>
  BY <1>2 DEF Accept
<1>8. /\ queue[a] = <<x>> /\ x # 0 /\ Phase(c, j) \in {"say", "ask"}
      /\ Bytes(x, "down") = <<>>
      /\ Bytes(x, "up") = (IF Phase(c, j) = "say" THEN <<>> ELSE <<Constructor(c)[j].says>>)
  <2>1. Link(c, j)
    BY DEF Linked
  <2> QED
    BY <1>2, <1>4, <1>7, <2>1 DEF Link, Shaking
<1>9. x \in Nat
  BY <1>5, TypesOfEnds
<1>10. Head(queue[a]) = x /\ Tail(queue[a]) = <<>>
  <2> HIDE DEF a, x
  <2> QED
    BY <1>8
<1>11. ToSet(Tail(queue[a])) = {}
  BY <1>10 DEF ToSet
<1>12. /\ pc' = [pc EXCEPT ![p] = "ask"]
       /\ new' = [new EXCEPT ![p] = Head(queue[a])]
       /\ reset' = reset \cup ToSet(Tail(queue[a]))
       /\ queue' = [queue EXCEPT ![a] = <<>>]
       /\ listening' = listening \ {a}
       /\ UNCHANGED <<step, sock, stream, opened, seed>>
  BY <1>2 DEF Accept, Goto
<1>13. new' = [new EXCEPT ![p] = x] /\ reset' = reset
  <2> HIDE DEF a, x
  <2> QED
    BY <1>10, <1>11, <1>12
<1>14. \A q \in Roles : pc'[q] = IF q = p THEN "ask" ELSE pc[q]
  BY <1>12 DEF ConnectionTypeOK
<1>15. \A q \in Roles : new'[q] = IF q = p THEN x ELSE new[q]
  <2> HIDE DEF x
  <2> QED
    BY <1>13 DEF ConnectionTypeOK
<1>16. \A b \in Addresses : queue'[b] = IF b = a THEN <<>> ELSE queue[b]
  <2> HIDE DEF a
  <2> QED
    BY <1>12 DEF ConnectionTypeOK
<1>17. /\ \A q \in Roles, m \in Steps : ~(q = p /\ m = n) =>
            Phase(q, m)' = Phase(q, m) /\ EndOf(q, m)' = EndOf(q, m)
       /\ Phase(p, n)' = "ask" /\ EndOf(p, n)' = new'[p]
  <2>1. Goto(p, "ask")
    BY DEF Accept
  <2>2. UNCHANGED <<step, sock>>
    BY <1>12
  <2>3. \A q \in Roles : q # p => new'[q] = new[q]
    BY <1>15
  <2> QED
    BY <1>1, <1>2, <2>1, <2>2, <2>3, MoveWithin
<1> DEFINE y == Constructor(c)[j].addr
<1>18. new'[p] = x /\ y = a
  BY <1>4, <1>15
<1> HIDE DEF a, y
<1>19. ConnectionTypeOK'
  <2>1. queue' \in [Addresses -> Seq(Nat)]
    <3>1. <<>> \in Seq(Nat)
      OBVIOUS
    <3> QED
      BY <1>6, <1>12, <3>1 DEF ConnectionTypeOK
  <2>2. new' \in [Roles -> Nat]
    <3> HIDE DEF x
    <3> QED
      BY <1>9, <1>13 DEF ConnectionTypeOK
  <2> QED
    BY <1>12, <2>1, <2>2 DEF ConnectionTypeOK, Labels
<1>20. Placed'
  BY <1>2, <1>12, <1>14 DEF Placed
<1>21. Unbound'
  BY <1>12 DEF Unbound
<1>22. \A d \in {P1, P2} : \A l \in 1..Connects(d) : EndOf(d, l)' = EndOf(d, l)
  <2> SUFFICES ASSUME NEW d \in {P1, P2}, NEW l \in 1..Connects(d)
               PROVE  EndOf(d, l)' = EndOf(d, l)
    OBVIOUS
  <2>1. d \in Roles /\ l \in Steps /\ l <= Connects(d) /\ Connects(d) \in Nat /\ l \in Nat
    BY ConnectsBounds, RolesFacts
  <2>2. ~(d = p /\ l = n)
    BY <1>2, <2>1
  <2> QED
    BY <1>17, <2>1, <2>2
<1>23. Made(P1)' = Made(P1) /\ Made(P2)' = Made(P2)
  <2>1. ASSUME NEW q \in Roles
        PROVE  Made(q)' = Made(q)
    <3>1. step[q] \in Nat /\ Connects(q) \in Nat
      <4>1. step \in [Roles -> 0..2 * SCKNUM]
        BY DEF ConnectionTypeOK
      <4> HIDE DEF ConnectionInv
      <4>2. step[q] \in Nat
        BY <4>1
      <4>3. Connects(q) \in Nat
        BY ConnectsBounds
      <4> QED
        BY <4>2, <4>3
    <3> QED
      BY <1>1, <1>2, <1>12, <1>14, <3>1 DEF Made
  <2> QED
    BY <2>1 DEF Roles
<1>24. Counted' /\ Distinct' /\ Known' /\ AllKnown'
  BY <1>12, <1>22, <1>23, NumbersKept
<1>25. Untouched'
  BY <1>12 DEF Untouched
<1>26. (pc'[P1] = "done") = (pc[P1] = "done") /\ (pc'[P2] = "done") = (pc[P2] = "done")
  BY <1>2, <1>14 DEF Roles
<1>27. Linked'
  <2>1. Link(c, j)'
    <3>1. Phase(c, j)' = Phase(c, j) /\ EndOf(c, j)' = EndOf(c, j)
      BY <1>5, <1>17
    <3>2. Bytes(EndOf(c, j), "up")' = Bytes(EndOf(c, j), "up")
          /\ Bytes(EndOf(c, j), "down")' = Bytes(EndOf(c, j), "down")
      BY <1>12, <3>1 DEF Bytes
    <3>3. /\ Phase(PeerAt(c, j), MateStep(c, j))' = "ask"
          /\ EndOf(PeerAt(c, j), MateStep(c, j))' = EndOf(c, j)
      BY <1>4, <1>17, <1>18
    <3>4. ~(y \in listening') /\ queue'[y] = <<>>
      BY <1>6, <1>12, <1>16, <1>18
    <3> QED
      BY <1>8, <3>1, <3>2, <3>3, <3>4 DEF Link, Shaking, y
  <2>2. \A b \in Addresses : b # y => (b \in listening') = (b \in listening) /\ queue'[b] = queue[b]
    BY <1>12, <1>16, <1>18
  <2>3. \A d \in {P1, P2} : \A l \in 1..Connects(d) :
             (d = c /\ l = j) \/ SeedUnderway(d, l)' = SeedUnderway(d, l)
    BY <1>26, SeedSame
  <2> QED
    BY <1>4, <1>12, <1>17, <2>1, <2>2, <2>3, LinksKept DEF y
<1>28. Seeded' /\ (reset = {})'
  BY <1>12, <1>13, <1>26 DEF Seeded
<1> QED
  BY <1>19, <1>20, <1>21, <1>24, <1>25, <1>27, <1>28

LEMMA ConnectKeeps ==
  ASSUME ConnectionInv, NEW p \in Roles, Connect(p)
  PROVE  ConnectionInv'
<1> USE DEF ConnectionInv
<1>1. PICK n \in Steps : n = step[p] + 1
  BY CurrentStep DEF Connect
<1>2. /\ pc[p] = "connect" /\ Current(p) = Constructor(p)[n] /\ n <= Connects(p)
      /\ Phase(p, n) = "before" /\ EndOf(p, n) = 0 /\ step[p] \in Nat
  BY <1>1, CurrentStep DEF Connect
<1>3. p \in {P1, P2} /\ n \in 1..Connects(p) /\ Connects(p) \in Nat
  <2>1. n \in Nat /\ n >= 1 /\ Connects(p) \in Nat
    BY ConnectsBounds, RolesFacts DEF Steps
  <2>2. p # HELPER
    BY <1>2, <2>1, RolesFacts DEF Connects
  <2> QED
    BY <1>2, <2>1, <2>2 DEF Roles
<1> DEFINE a == Constructor(p)[n].addr
           x == opened + 1
<1>4. a \in Addresses
  BY AddressKnown
<1>5. /\ pc' = [pc EXCEPT ![p] = "say"] /\ a \in listening
      /\ opened' = x /\ new' = [new EXCEPT ![p] = x]
      /\ queue' = [queue EXCEPT ![a] = Append(queue[a], x)]
      /\ UNCHANGED <<step, sock, listening, stream, reset, seed>>
  BY <1>2 DEF Connect, Goto
<1>6. opened \in Nat /\ x \in Nat /\ x # 0 /\ x \in Connections
  <2>1. opened \in Nat
    BY DEF ConnectionTypeOK
  <2>2. opened < 3 * SCKNUM
    BY <1>2, <1>3, MadeBounds
  <2> QED
    BY <2>1, <2>2, RolesFacts DEF Connections
<1> DEFINE o == PeerAt(p, n)
           i == MateStep(p, n)
<1>7. o \in Roles /\ i \in Steps /\ o # p
  BY PlanFits
<1>8. Phase(o, i) = "accept" /\ EndOf(o, i) = 0 /\ queue[a] = <<>>
  <2>1. Link(p, n)
    BY <1>3 DEF Linked
  <2> QED
    BY <1>2, <1>5, <2>1 DEF Link, Shaking
<1> HIDE DEF a, x, o, i
<1>9. \A q \in Roles : pc'[q] = IF q = p THEN "say" ELSE pc[q]
  BY <1>5 DEF ConnectionTypeOK
<1>10. \A q \in Roles : new'[q] = IF q = p THEN x ELSE new[q]
  BY <1>5 DEF ConnectionTypeOK
<1>11. queue'[a] = <<x>> /\ \A b \in Addresses : b # a => queue'[b] = queue[b]
  <2>1. Append(queue[a], x) = <<x>>
    BY <1>8
  <2> QED
    BY <1>4, <1>5, <2>1 DEF ConnectionTypeOK
<1>12. /\ \A q \in Roles, m \in Steps : ~(q = p /\ m = n) =>
            Phase(q, m)' = Phase(q, m) /\ EndOf(q, m)' = EndOf(q, m)
       /\ Phase(p, n)' = "say" /\ EndOf(p, n)' = x
  <2>1. Goto(p, "say")
    BY DEF Connect
  <2>2. UNCHANGED <<step, sock>>
    BY <1>5
  <2>3. \A q \in Roles : q # p => new'[q] = new[q]
    BY <1>10
  <2>4. new'[p] = x
    BY <1>10
  <2> QED
    BY <1>1, <1>2, <2>1, <2>2, <2>3, <2>4, MoveWithin
<1>13. ConnectionTypeOK'
  <2>1. queue' \in [Addresses -> Seq(Nat)]
    BY <1>5, <1>6, <1>8 DEF ConnectionTypeOK
  <2>2. new' \in [Roles -> Nat]
    BY <1>5, <1>6 DEF ConnectionTypeOK
  <2> QED
    BY <1>5, <1>6, <2>1, <2>2 DEF ConnectionTypeOK, Labels
<1>14. Placed'
  BY <1>2, <1>5, <1>9 DEF Placed
<1>15. Unbound'
  BY <1>5 DEF Unbound
<1>16. \A d \in {P1, P2} : \A l \in 1..Connects(d) :
          /\ EndOf(d, l)' = IF d = p /\ l = n THEN x ELSE EndOf(d, l)
          /\ EndOf(d, l) \in Nat /\ EndOf(d, l) <= opened
  <2> SUFFICES ASSUME NEW d \in {P1, P2}, NEW l \in 1..Connects(d)
               PROVE  /\ EndOf(d, l)' = IF d = p /\ l = n THEN x ELSE EndOf(d, l)
                      /\ EndOf(d, l) \in Nat /\ EndOf(d, l) <= opened
    OBVIOUS
  <2>1. d \in Roles /\ l \in Steps
    BY ConnectsBounds, RolesFacts
  <2>2. EndOf(d, l) \in Nat /\ EndOf(d, l) <= opened
    BY <2>1, TypesOfEnds DEF Known
  <2> QED
    BY <1>12, <2>1, <2>2
<1>17. Counted'
  <2>1. Made(p)' = Made(p) + 1
    <3>1. Made(p) = step[p]
      BY <1>2, MadeBounds
    <3> QED
      BY <1>1, <1>2, <1>3, <1>5, <1>9, <3>1 DEF Made
  <2>2. \A q \in Roles : q # p => Made(q)' = Made(q)
    BY <1>5, <1>9 DEF Made
  <2>3. Made(P1) \in Int /\ Made(P2) \in Int
    BY MadeBounds, ConnectsBounds, RolesFacts
  <2> QED
    BY <1>3, <1>5, <2>1, <2>2, <2>3, RolesFacts DEF Counted, x
<1>18. Distinct' /\ Known'
  <2>1. \A d \in {P1, P2} : \A l \in 1..Connects(d) :
           EndOf(d, l)' <= opened' /\ (EndOf(d, l)' = x => d = p /\ l = n)
    BY <1>5, <1>6, <1>16 DEF x
  <2>2. Known'
    BY <2>1 DEF Known
  <2>3. ASSUME NEW d \in {P1, P2}, NEW e \in {P1, P2}, NEW l \in 1..Connects(d),
               NEW m \in 1..Connects(e), EndOf(d, l)' # 0, EndOf(d, l)' = EndOf(e, m)'
        PROVE  d = e /\ l = m
    <3>1. CASE EndOf(d, l)' = x
      BY <2>1, <2>3, <3>1
    <3>2. CASE EndOf(d, l)' # x
      <4>1. EndOf(d, l) = EndOf(d, l)' /\ EndOf(e, m) = EndOf(e, m)'
        BY <1>16, <2>3, <3>2
      <4> QED
        BY <2>3, <4>1 DEF Distinct
    <3> QED
      BY <3>1, <3>2
  <2>4. Distinct'
    BY <2>3 DEF Distinct
  <2> QED
    BY <2>2, <2>4
<1>19. AllKnown'
  <2> SUFFICES ASSUME NEW y \in 1..opened'
               PROVE  \E d \in {P1, P2} : \E l \in 1..Connects(d) : EndOf(d, l)' = y
    BY DEF AllKnown
  <2>1. CASE y = x
    BY <1>3, <1>16, <2>1
  <2>2. CASE y # x
    <3>1. y \in 1..opened
      BY <1>5, <1>6, <2>2 DEF x
    <3>2. PICK d \in {P1, P2} : \E l \in 1..Connects(d) : EndOf(d, l) = y
      BY <3>1 DEF AllKnown
    <3>3. PICK l \in 1..Connects(d) : EndOf(d, l) = y
      BY <3>2
    <3>4. EndOf(p, n) # y
      BY <1>2, <3>1
    <3> QED
      BY <1>16, <3>3, <3>4
  <2> QED
    BY <2>1, <2>2
<1>20. Untouched'
  BY <1>5, <1>6 DEF Untouched, x, Connections
<1>21. (pc'[P1] = "done") = (pc[P1] = "done") /\ (pc'[P2] = "done") = (pc[P2] = "done")
  BY <1>2, <1>9 DEF Roles
<1>22. Linked'
  <2>1. Link(p, n)'
    <3>1. Phase(p, n)' = "say" /\ EndOf(p, n)' = x
      BY <1>12
    <3>2. stream[x]["up"] = <<>> /\ stream[x]["down"] = <<>>
      BY <1>6 DEF Untouched, x
    <3>3. Bytes(EndOf(p, n), "up")' = <<>> /\ Bytes(EndOf(p, n), "down")' = <<>>
      BY <1>5, <1>6, <3>1, <3>2 DEF Bytes
    <3>4. Phase(PeerAt(p, n), MateStep(p, n))' = "accept"
          /\ EndOf(PeerAt(p, n), MateStep(p, n))' = 0
      BY <1>7, <1>8, <1>12 DEF o, i
    <3>5. a \in listening' /\ queue'[a] = <<x>>
      BY <1>5, <1>11
    <3> QED
      BY <1>6, <3>1, <3>3, <3>4, <3>5 DEF Link, Shaking, a
  <2>2. \A b \in Addresses : b # Constructor(p)[n].addr =>
             (b \in listening') = (b \in listening) /\ queue'[b] = queue[b]
    BY <1>5, <1>11 DEF a
  <2>3. \A d \in {P1, P2} : \A l \in 1..Connects(d) :
             (d = p /\ l = n) \/ SeedUnderway(d, l)' = SeedUnderway(d, l)
    BY <1>21, SeedSame
  <2> QED
    BY <1>3, <1>5, <1>12, <2>1, <2>2, <2>3, LinksKept
<1>23. Seeded' /\ (reset = {})'
  BY <1>5, <1>21 DEF Seeded
<1> QED
  BY <1>13, <1>14, <1>15, <1>17, <1>18, <1>19, <1>20, <1>22, <1>23

(* What a step of the hand-shake leaves alone, whether it ends the set-up of *)
(* the socket or not.                                                       *)
HandShakes(p, l) ==
    \/ Established(p)
    \/ Goto(p, l) /\ UNCHANGED <<step, sock>>

LEMMA HandShakeKeeps ==
  ASSUME ConnectionInv, NEW p \in Roles, pc[p] \in {"ask", "say"},
         NEW l \in {"ask", "say"}, HandShakes(p, l), UNCHANGED <<new, opened, seed>>
  PROVE  /\ pc' \in [Roles -> Labels] /\ step' \in [Roles -> 0..(2 * SCKNUM)]
         /\ sock' \in [Roles -> [Roles -> [Sockets -> Nat]]]
         /\ Placed' /\ Unbound'
         /\ Counted' /\ Distinct' /\ Known' /\ AllKnown' /\ Seeded'
         /\ (pc'[P1] = "done") = (pc[P1] = "done")
         /\ (pc'[P2] = "done") = (pc[P2] = "done")
<1> USE DEF ConnectionInv
<1>1. PICK n \in Steps : n = step[p] + 1
  BY CurrentStep
<1>2. /\ Current(p) = Constructor(p)[n] /\ n \in Nat /\ step[p] \in Nat
      /\ n \in 0..(2 * SCKNUM) /\ EndOf(p, n) = new[p]
  BY <1>1, CurrentStep, RolesFacts DEF Steps
<1>3. CASE Goto(p, l) /\ UNCHANGED <<step, sock>>
  <2>1. \A q \in Roles : pc'[q] = IF q = p THEN l ELSE pc[q]
    BY <1>3 DEF Goto, ConnectionTypeOK
  <2>2. pc' \in [Roles -> Labels]
    BY <1>3 DEF Goto, ConnectionTypeOK, Labels
  <2>3. Placed'
    BY <1>3, <2>1 DEF Placed
  <2>4. Unbound'
    BY <1>3 DEF Unbound
  <2>5. \A q \in Roles, m \in Steps : EndOf(q, m)' = EndOf(q, m)
    <3>1. /\ \A q \in Roles, m \in Steps : ~(q = p /\ m = n) => EndOf(q, m)' = EndOf(q, m)
          /\ EndOf(p, n)' = IF l = "accept" THEN 0 ELSE new'[p]
      BY <1>1, <1>3, MoveWithin
    <3> QED
      BY <1>2, <3>1
  <2>6. Made(P1)' = Made(P1) /\ Made(P2)' = Made(P2)
    BY <1>3, <2>1 DEF Made, Roles
  <2>7. Counted' /\ Distinct' /\ Known' /\ AllKnown'
    BY <2>5, <2>6, NumbersKept, ConnectsBounds, RolesFacts
  <2>8. (pc'[P1] = "done") = (pc[P1] = "done") /\ (pc'[P2] = "done") = (pc[P2] = "done")
    BY <2>1 DEF Roles
  <2> QED
    BY <1>3, <2>2, <2>3, <2>4, <2>7, <2>8 DEF ConnectionTypeOK, Seeded
<1>4. CASE Established(p)
  <2>1. /\ After(p, n) \in {"listen", "connect", "seed"}
        /\ (After(p, n) = "seed") = (n = 2 * SCKNUM)
        /\ After(p, n) = "connect" => n < Connects(p)
        /\ After(p, n) = "listen" => n >= Connects(p)
    BY <1>2, AfterStep
  <2>2. pc' = [pc EXCEPT ![p] = After(p, n)] /\ step' = [step EXCEPT ![p] = n]
    BY <1>1, <1>4 DEF Established, Goto
  <2>3. \A q \in Roles : /\ pc'[q] = IF q = p THEN After(p, n) ELSE pc[q]
                         /\ step'[q] = IF q = p THEN n ELSE step[q]
    BY <2>2 DEF ConnectionTypeOK
  <2>4. pc' \in [Roles -> Labels] /\ step' \in [Roles -> 0..(2 * SCKNUM)]
    BY <1>2, <2>1, <2>2 DEF ConnectionTypeOK, Labels
  <2>5. Placed'
    BY <2>1, <2>3, RolesFacts DEF Placed
  <2>6. /\ Constructor(p)[n].peer = PeerAt(p, n) /\ Constructor(p)[n].k = SocketAt(n)
        /\ PeerAt(p, n) \in Roles /\ PeerAt(p, n) # p /\ SocketAt(n) \in Sockets
        /\ StepFor(p, PeerAt(p, n), SocketAt(n)) = n
    BY PlanFits
  <2>7. sock' = [sock EXCEPT ![p][PeerAt(p, n)][SocketAt(n)] = new[p]]
    BY <1>2, <1>4, <2>6 DEF Established
  <2>8. new[p] \in Nat /\ sock \in [Roles -> [Roles -> [Sockets -> Nat]]]
    BY DEF ConnectionTypeOK
  <2>9. sock' \in [Roles -> [Roles -> [Sockets -> Nat]]]
    <3>1. [sock[p][PeerAt(p, n)] EXCEPT ![SocketAt(n)] = new[p]] \in [Sockets -> Nat]
      BY <2>6, <2>8
    <3>2. [sock[p] EXCEPT ![PeerAt(p, n)] = [sock[p][PeerAt(p, n)] EXCEPT ![SocketAt(n)] = new[p]]]
             \in [Roles -> [Sockets -> Nat]]
      BY <2>6, <2>8, <3>1
    <3>3. sock' = [sock EXCEPT ![p] = [sock[p] EXCEPT ![PeerAt(p, n)] =
                      [sock[p][PeerAt(p, n)] EXCEPT ![SocketAt(n)] = new[p]]]]
      BY <2>7
    <3> QED
      BY <2>8, <3>2, <3>3
  <2>10. \A q, r \in Roles, k \in Sockets :
           sock'[q][r][k] = IF q = p /\ r = PeerAt(p, n) /\ k = SocketAt(n) THEN new[p]
                            ELSE sock[q][r][k]
    BY <2>6, <2>7, <2>8
  <2>11. Unbound'
    <3> SUFFICES ASSUME NEW q \in Roles, NEW r \in Roles, NEW k \in Sockets,
                        q = r \/ step'[q] < StepFor(q, r, k)
                 PROVE  sock'[q][r][k] = 0
      BY DEF Unbound
    <3>1. StepFor(q, r, k) \in Nat
      BY RolesFacts DEF StepFor, Sockets
    <3>2. ~(q = p /\ r = PeerAt(p, n) /\ k = SocketAt(n))
      BY <2>3, <2>6, <3>1
    <3>3. q = r \/ step[q] < StepFor(q, r, k)
      BY <1>1, <1>2, <2>3, <3>1
    <3> QED
      BY <2>10, <3>2, <3>3 DEF Unbound
  <2>12. \A q \in Roles, m \in Steps : EndOf(q, m)' = EndOf(q, m)
    BY <1>1, <1>4, MoveOn
  <2>13. Made(P1)' = Made(P1) /\ Made(P2)' = Made(P2)
    <3>1. ASSUME NEW q \in Roles
          PROVE  Made(q)' = Made(q)
      <4>1. step[q] \in Nat /\ Connects(q) \in Nat
        BY ConnectsBounds, RolesFacts DEF ConnectionTypeOK
      <4> QED
        BY <1>1, <1>2, <2>1, <2>3, <4>1 DEF Made
    <3> QED
      BY <3>1 DEF Roles
  <2>14. Counted' /\ Distinct' /\ Known' /\ AllKnown'
    BY <2>12, <2>13, NumbersKept, ConnectsBounds, RolesFacts
  <2>15. (pc'[P1] = "done") = (pc[P1] = "done") /\ (pc'[P2] = "done") = (pc[P2] = "done")
    BY <2>1, <2>3 DEF Roles
  <2> QED
    BY <2>4, <2>5, <2>9, <2>11, <2>14, <2>15 DEF Seeded
<1> QED
  BY <1>3, <1>4 DEF HandShakes

(* One stream at a time. *)
LEMMA StreamStep ==
  ASSUME ConnectionTypeOK, Counted, Placed, NEW x \in 1..opened, NEW d \in {"up", "down"},
         NEW v \in Seq(Int), stream' = [stream EXCEPT ![x][d] = v]
  PROVE  /\ stream' \in [Connections -> [{"up", "down"} -> Seq(Int)]]
         /\ stream'[x][d] = v
         /\ \A e \in {"up", "down"} : e # d => stream'[x][e] = stream[x][e]
         /\ \A y \in Connections : y # x => stream'[y] = stream[y]
         /\ 1..opened \subseteq Connections
         /\ Untouched => (opened' = opened => Untouched')
<1>1. opened \in Nat /\ opened <= 3 * SCKNUM
  BY MadeBounds DEF ConnectionTypeOK
<1>2. 1..opened \subseteq Connections
  BY <1>1, RolesFacts DEF Connections
<1>3. stream \in [Connections -> [{"up", "down"} -> Seq(Int)]]
  BY DEF ConnectionTypeOK
<1>4. [stream[x] EXCEPT ![d] = v] \in [{"up", "down"} -> Seq(Int)]
  BY <1>2, <1>3
<1>5. stream' = [stream EXCEPT ![x] = [stream[x] EXCEPT ![d] = v]]
  OBVIOUS
<1>6. stream' \in [Connections -> [{"up", "down"} -> Seq(Int)]]
  BY <1>3, <1>4, <1>5
<1>7. \A y \in Connections : y # x => stream'[y] = stream[y]
  BY <1>3, <1>5
<1>8. /\ stream'[x][d] = v
      /\ \A e \in {"up", "down"} : e # d => stream'[x][e] = stream[x][e]
  BY <1>2, <1>3, <1>5
<1>9. Untouched => (opened' = opened => Untouched')
  <2> SUFFICES ASSUME Untouched, opened' = opened, NEW y \in Connections, y > opened
               PROVE  stream'[y]["up"] = <<>> /\ stream'[y]["down"] = <<>>
    BY DEF Untouched, Connections
  <2>1. y # x
    BY <1>1
  <2> QED
    BY <1>7, <2>1 DEF Untouched
<1> QED
  BY <1>2, <1>6, <1>7, <1>8, <1>9

(* The connection of the step a party is in. *)
LEMMA OwnConnection ==
  ASSUME ConnectionInv, NEW p \in Roles, pc[p] \in {"ask", "say"},
         NEW n \in Steps, n = step[p] + 1,
         NEW c \in {P1, P2}, NEW j \in 1..Connects(c),
         (p = c /\ n = j) \/ (p = PeerAt(c, j) /\ n = MateStep(c, j))
  PROVE  /\ new[p] = EndOf(c, j) /\ new[p] \in 1..opened
         /\ EndOf(c, j) \in 1..opened
<1> USE DEF ConnectionInv
<1>1. Phase(p, n) = pc[p] /\ EndOf(p, n) = new[p]
  BY CurrentStep
<1>2. Link(c, j)
  BY DEF Linked
<1>3. EndOf(p, n) = EndOf(c, j) /\ EndOf(c, j) # 0
  BY <1>1, <1>2 DEF Link, Shaking
<1>4. c \in Roles /\ j \in Steps
  BY ConnectsBounds, RolesFacts
<1>5. EndOf(c, j) \in Nat /\ EndOf(c, j) <= opened /\ opened \in Nat
  BY <1>4, TypesOfEnds DEF Known, ConnectionTypeOK
<1> QED
  BY <1>1, <1>3, <1>5

LEMMA SayKeeps ==
  ASSUME ConnectionInv, NEW p \in Roles, Say(p)
  PROVE  ConnectionInv'
<1> USE DEF ConnectionInv
<1>1. PICK n \in Steps : n = step[p] + 1
  BY CurrentStep DEF Say
<1>2. /\ pc[p] = "say" /\ Current(p) = Constructor(p)[n] /\ Phase(p, n) = "say"
      /\ (Current(p).kind = "open") = (n > Connects(p))
  BY <1>1, CurrentStep DEF Say
<1>3. PICK c \in {P1, P2} : \E j \in 1..Connects(c) :
          \/ n <= Connects(p) /\ c = p /\ j = n
          \/ /\ n > Connects(p) /\ p = PeerAt(c, j) /\ n = MateStep(c, j)
             /\ Constructor(p)[n].asks = Constructor(c)[j].says
             /\ Constructor(p)[n].says = Constructor(c)[j].asks
  BY LinkOf
<1>4. PICK j \in 1..Connects(c) :
          \/ n <= Connects(p) /\ c = p /\ j = n
          \/ /\ n > Connects(p) /\ p = PeerAt(c, j) /\ n = MateStep(c, j)
             /\ Constructor(p)[n].asks = Constructor(c)[j].says
             /\ Constructor(p)[n].says = Constructor(c)[j].asks
  BY <1>3
<1>5. c \in Roles /\ j \in Steps
  BY ConnectsBounds, RolesFacts
<1>6. PICK x \in 1..opened : x = new[p] /\ x = EndOf(c, j)
  BY <1>1, <1>2, <1>4, OwnConnection
<1>7. x # 0
  BY <1>6
<1>8. Constructor(c)[j].says \in Int /\ Constructor(c)[j].asks \in Int
  BY EndsAgree
<1>9. Constructor(p)[n].says \in Int
  BY <1>4, <1>8
<1>10. UNCHANGED <<new, listening, queue, opened, reset, seed>>
  BY DEF Say
<1>11. HandShakes(p, "ask")
  BY DEF Say, HandShakes
<1>12. /\ pc' \in [Roles -> Labels] /\ step' \in [Roles -> 0..(2 * SCKNUM)]
       /\ sock' \in [Roles -> [Roles -> [Sockets -> Nat]]]
       /\ Placed' /\ Unbound'
       /\ Counted' /\ Distinct' /\ Known' /\ AllKnown' /\ Seeded'
       /\ (pc'[P1] = "done") = (pc[P1] = "done")
       /\ (pc'[P2] = "done") = (pc[P2] = "done")
  BY <1>2, <1>10, <1>11, HandShakeKeeps
<1>13. Link(c, j)
  BY DEF Linked
<1>14. 1..opened \subseteq Connections /\ stream \in [Connections -> [{"up", "down"} -> Seq(Int)]]
  <2>1. opened <= 3 * SCKNUM /\ opened \in Nat
    BY MadeBounds DEF ConnectionTypeOK
  <2>2. 1..opened \subseteq Connections
    BY <2>1, RolesFacts DEF Connections
  <2> QED
    BY <2>2 DEF ConnectionTypeOK
<1>15. SeedUnderway(c, j)' = SeedUnderway(c, j)
  BY <1>12, SeedSame
<1>16. CASE n > Connects(p)
  <2>1. c # p /\ p = PeerAt(c, j) /\ n = MateStep(c, j) /\ Constructor(p)[n].says = Constructor(c)[j].asks
    <3>1. n \in Nat /\ Connects(p) \in Nat
      BY ConnectsBounds, RolesFacts DEF Steps
    <3>2. PeerAt(c, j) # c
      BY <1>5, PlanFits
    <3> QED
      BY <1>4, <1>16, <3>1, <3>2
  <2>2. /\ Phase(c, j) = "ask" /\ ~(Constructor(c)[j].addr \in listening)
        /\ queue[Constructor(c)[j].addr] = <<>>
        /\ stream[x]["up"] = <<>> /\ stream[x]["down"] = <<>>
    BY <1>2, <1>6, <1>7, <1>13, <2>1 DEF Link, Shaking, Bytes
  <2>3. /\ Established(p)
        /\ stream' = [stream EXCEPT ![x]["down"] = <<Constructor(p)[n].says>>]
    <3>1. Current(p).kind = "open"
      BY <1>2, <1>16
    <3>2. stream' = [stream EXCEPT ![x]["down"] = Append(stream[x]["down"], Constructor(p)[n].says)]
      BY <1>2, <1>6, <3>1 DEF Say, Outgoing
    <3>3. Append(stream[x]["down"], Constructor(p)[n].says) = <<Constructor(p)[n].says>>
      BY <2>2
    <3> QED
      BY <3>1, <3>2, <3>3 DEF Say, SaysLast
  <2>4. /\ stream' \in [Connections -> [{"up", "down"} -> Seq(Int)]]
        /\ stream'[x]["down"] = <<Constructor(p)[n].says>>
        /\ stream'[x]["up"] = <<>>
        /\ \A y \in Connections : y # x => stream'[y] = stream[y]
        /\ Untouched'
    <3>1. <<Constructor(p)[n].says>> \in Seq(Int)
      BY <1>9
    <3> QED
      BY <1>10, <2>2, <2>3, <3>1, StreamStep
  <2>5. /\ \A q \in Roles, m \in Steps :
               /\ EndOf(q, m)' = EndOf(q, m)
               /\ ~(q = p /\ m = n) => Phase(q, m)' = Phase(q, m)
        /\ Phase(p, n)' = "past"
    BY <1>1, <1>2, <1>10, <2>3, MoveOn
  <2>6. SeedUnderway(c, j) = <<>>
    <3>1. p = P1 => pc[P1] # "done"
      BY <1>2
    <3>2. p # P1 => ~(c = P2 /\ j = SCKNUM + 1)
      BY <1>5, <2>1, PeersOf, RolesFacts
    <3> QED
      BY <3>1, <3>2 DEF SeedUnderway
  <2>7. Link(c, j)'
    <3>1. Phase(c, j)' = "ask" /\ EndOf(c, j)' = x
      BY <1>5, <1>6, <2>1, <2>2, <2>5
    <3>2. Phase(PeerAt(c, j), MateStep(c, j))' = "past" /\ EndOf(PeerAt(c, j), MateStep(c, j))' = x
      <4>1. EndOf(p, n) = x
        BY <1>1, <1>2, <1>6, CurrentStep
      <4> QED
        BY <2>1, <2>5, <4>1
    <3>3. /\ Bytes(EndOf(c, j), "up")' = <<>>
          /\ Bytes(EndOf(c, j), "down")' = <<Constructor(c)[j].asks>>
      BY <1>7, <2>1, <2>4, <3>1 DEF Bytes
    <3>4. <<Constructor(c)[j].asks>> \o SeedUnderway(c, j)' = <<Constructor(c)[j].asks>>
      <4>1. <<Constructor(c)[j].asks>> \in Seq(Int)
        BY <1>8
      <4> QED
        BY <1>15, <2>6, <4>1
    <3>5. ~(Constructor(c)[j].addr \in listening') /\ queue'[Constructor(c)[j].addr] = <<>>
      BY <1>10, <2>2
    <3>6. Shaking("past", "ask", x, x, FALSE, <<>>, <<>>, <<Constructor(c)[j].asks>>,
                  Constructor(c)[j].says, Constructor(c)[j].asks, <<>>)
      BY <1>7, <3>4, <1>15, <2>6 DEF Shaking
    <3>7. SeedUnderway(c, j)' = <<>>
      BY <1>15, <2>6
    <3> QED
      BY <3>1, <3>2, <3>3, <3>5, <3>6, <3>7 DEF Link, Shaking
  <2>8. Linked'
    <3>1. \A b \in Addresses : b # Constructor(c)[j].addr =>
             (b \in listening') = (b \in listening) /\ queue'[b] = queue[b]
      BY <1>10
    <3>2. \A y \in 1..opened : y # EndOf(c, j) => stream'[y] = stream[y]
      BY <1>6, <1>14, <2>4
    <3>3. \A d \in {P1, P2} : \A l \in 1..Connects(d) :
             (d = c /\ l = j) \/ SeedUnderway(d, l)' = SeedUnderway(d, l)
      BY <1>12, SeedSame
    <3> QED
      BY <2>1, <2>5, <2>7, <3>1, <3>2, <3>3, LinksKept
  <2> QED
    BY <1>10, <1>12, <2>4, <2>8 DEF ConnectionTypeOK
<1>17. CASE n <= Connects(p)
  <2>1. c = p /\ n = j
    <3>1. n \in Nat /\ Connects(p) \in Nat
      BY ConnectsBounds, RolesFacts DEF Steps
    <3> QED
      BY <1>4, <1>17, <3>1
  <2>2. /\ Phase(PeerAt(c, j), MateStep(c, j)) \in {"accept", "ask"}
        /\ stream[x]["up"] = <<>> /\ stream[x]["down"] = <<>>
    BY <1>2, <1>6, <1>7, <1>13, <2>1 DEF Link, Shaking, Bytes
  <2>3. /\ Goto(p, "ask") /\ UNCHANGED <<step, sock>>
        /\ stream' = [stream EXCEPT ![x]["up"] = <<Constructor(p)[n].says>>]
    <3>1. n \in Nat /\ Connects(p) \in Nat
      BY ConnectsBounds, RolesFacts DEF Steps
    <3>2. ~(Current(p).kind = "open")
      BY <1>2, <1>17, <3>1
    <3>3. stream' = [stream EXCEPT ![x]["up"] = Append(stream[x]["up"], Constructor(p)[n].says)]
      BY <1>2, <1>6, <3>2 DEF Say, Outgoing
    <3>4. Append(stream[x]["up"], Constructor(p)[n].says) = <<Constructor(p)[n].says>>
      BY <2>2
    <3> QED
      BY <3>2, <3>3, <3>4 DEF Say, SaysLast
  <2>4. /\ stream' \in [Connections -> [{"up", "down"} -> Seq(Int)]]
        /\ stream'[x]["up"] = <<Constructor(p)[n].says>>
        /\ stream'[x]["down"] = <<>>
        /\ \A y \in Connections : y # x => stream'[y] = stream[y]
        /\ Untouched'
    <3>1. <<Constructor(p)[n].says>> \in Seq(Int)
      BY <1>9
    <3> QED
      BY <1>10, <2>2, <2>3, <3>1, StreamStep
  <2>5. /\ \A q \in Roles, m \in Steps : ~(q = p /\ m = n) =>
               Phase(q, m)' = Phase(q, m) /\ EndOf(q, m)' = EndOf(q, m)
        /\ Phase(p, n)' = "ask" /\ EndOf(p, n)' = x
    <3>1. \A q \in Roles : q # p => new'[q] = new[q]
      BY <1>10
    <3> QED
      BY <1>1, <1>2, <1>6, <1>10, <2>3, <3>1, MoveWithin
  <2>6. Link(c, j)'
    <3>1. PeerAt(c, j) \in Roles /\ MateStep(c, j) \in Steps /\ PeerAt(c, j) # p
      BY <1>5, <2>1, PlanFits
    <3>2. /\ Phase(PeerAt(c, j), MateStep(c, j))' = Phase(PeerAt(c, j), MateStep(c, j))
          /\ EndOf(PeerAt(c, j), MateStep(c, j))' = EndOf(PeerAt(c, j), MateStep(c, j))
      BY <2>5, <3>1
    <3>3. /\ Bytes(EndOf(c, j), "up")' = <<Constructor(c)[j].says>>
          /\ Bytes(EndOf(c, j), "down")' = <<>>
      BY <1>7, <2>1, <2>4, <2>5 DEF Bytes
    <3>4. Phase(c, j)' = "ask" /\ EndOf(c, j)' = x
      BY <2>1, <2>5
    <3> QED
      BY <1>2, <1>6, <1>7, <1>10, <1>13, <2>1, <2>2, <3>2, <3>3, <3>4 DEF Link, Shaking
  <2>7. Linked'
    <3>1. \A b \in Addresses : b # Constructor(c)[j].addr =>
             (b \in listening') = (b \in listening) /\ queue'[b] = queue[b]
      BY <1>10
    <3>2. \A y \in 1..opened : y # EndOf(c, j) => stream'[y] = stream[y]
      BY <1>6, <1>14, <2>4
    <3>3. \A d \in {P1, P2} : \A l \in 1..Connects(d) :
             (d = c /\ l = j) \/ SeedUnderway(d, l)' = SeedUnderway(d, l)
      BY <1>12, SeedSame
    <3> QED
      BY <2>1, <2>5, <2>6, <3>1, <3>2, <3>3, LinksKept
  <2> QED
    BY <1>10, <1>12, <2>4, <2>7 DEF ConnectionTypeOK
<1>18. n \in Nat /\ Connects(p) \in Nat
  BY ConnectsBounds, RolesFacts DEF Steps
<1> QED
  BY <1>16, <1>17, <1>18

LEMMA AskKeeps ==
  ASSUME ConnectionInv, NEW p \in Roles, Ask(p)
  PROVE  ConnectionInv'
<1> USE DEF ConnectionInv
<1>1. PICK n \in Steps : n = step[p] + 1
  BY CurrentStep DEF Ask
<1>2. /\ pc[p] = "ask" /\ Current(p) = Constructor(p)[n] /\ Phase(p, n) = "ask"
      /\ (Current(p).kind = "open") = (n > Connects(p))
  BY <1>1, CurrentStep DEF Ask
<1>3. PICK c \in {P1, P2} : \E j \in 1..Connects(c) :
          \/ n <= Connects(p) /\ c = p /\ j = n
          \/ /\ n > Connects(p) /\ p = PeerAt(c, j) /\ n = MateStep(c, j)
             /\ Constructor(p)[n].asks = Constructor(c)[j].says
             /\ Constructor(p)[n].says = Constructor(c)[j].asks
  BY LinkOf
<1>4. PICK j \in 1..Connects(c) :
          \/ n <= Connects(p) /\ c = p /\ j = n
          \/ /\ n > Connects(p) /\ p = PeerAt(c, j) /\ n = MateStep(c, j)
             /\ Constructor(p)[n].asks = Constructor(c)[j].says
             /\ Constructor(p)[n].says = Constructor(c)[j].asks
  BY <1>3
<1>5. c \in Roles /\ j \in Steps
  BY ConnectsBounds, RolesFacts
<1>6. PICK x \in 1..opened : x = new[p] /\ x = EndOf(c, j)
  BY <1>1, <1>2, <1>4, OwnConnection
<1>7. x # 0
  BY <1>6
<1>8. Constructor(c)[j].says \in Int /\ Constructor(c)[j].asks \in Int
  BY EndsAgree
<1>9. UNCHANGED <<new, listening, queue, opened, reset, seed>>
  BY DEF Ask
<1>10. Link(c, j)
  BY DEF Linked
<1>11. n \in Nat /\ Connects(p) \in Nat
  BY ConnectsBounds, RolesFacts DEF Steps
<1>12. 1..opened \subseteq Connections /\ stream \in [Connections -> [{"up", "down"} -> Seq(Int)]]
  <2>1. opened <= 3 * SCKNUM /\ opened \in Nat
    BY MadeBounds DEF ConnectionTypeOK
  <2>2. 1..opened \subseteq Connections
    BY <2>1, RolesFacts DEF Connections
  <2> QED
    BY <2>2 DEF ConnectionTypeOK
<1>13. ASSUME HandShakes(p, "say"), Linked', Untouched',
              stream' \in [Connections -> [{"up", "down"} -> Seq(Int)]]
       PROVE  ConnectionInv'
  <2>1. /\ pc' \in [Roles -> Labels] /\ step' \in [Roles -> 0..(2 * SCKNUM)]
        /\ sock' \in [Roles -> [Roles -> [Sockets -> Nat]]]
        /\ Placed' /\ Unbound'
        /\ Counted' /\ Distinct' /\ Known' /\ AllKnown' /\ Seeded'
    BY <1>2, <1>9, <1>13, HandShakeKeeps
  <2> QED
    BY <1>9, <1>13, <2>1 DEF ConnectionTypeOK
<1>14. ASSUME HandShakes(p, "say")
       PROVE  \A d, l : SeedUnderway(d, l)' = SeedUnderway(d, l)
  <2>1. /\ (pc'[P1] = "done") = (pc[P1] = "done")
        /\ (pc'[P2] = "done") = (pc[P2] = "done")
    BY <1>2, <1>9, <1>14, HandShakeKeeps
  <2> QED
    BY <2>1, SeedSame
<1>15. CASE n > Connects(p)
  <2>1. c # p /\ p = PeerAt(c, j) /\ n = MateStep(c, j) /\ Constructor(p)[n].asks = Constructor(c)[j].says
    <3>1. PeerAt(c, j) # c
      BY <1>5, PlanFits
    <3> QED
      BY <1>4, <1>11, <1>15, <3>1
  <2>2. Current(p).kind = "open"
    BY <1>2, <1>15
  <2>3. stream[x]["up"] # <<>>
    BY <1>6, <2>2 DEF Ask, Incoming
  <2>4. /\ Phase(c, j) = "ask" /\ ~(Constructor(c)[j].addr \in listening)
        /\ queue[Constructor(c)[j].addr] = <<>>
        /\ stream[x]["up"] = <<Constructor(c)[j].says>> /\ stream[x]["down"] = <<>>
    BY <1>2, <1>6, <1>7, <1>10, <2>1, <2>3 DEF Link, Shaking, Bytes
  <2>5. Head(stream[x]["up"]) = Constructor(c)[j].says /\ Tail(stream[x]["up"]) = <<>>
    BY <2>4
  <2>6. Recognised(p, Head(stream[new[p]][Incoming(p)]))
    BY <1>2, <1>6, <2>1, <2>2, <2>5 DEF Recognised, Incoming
  <2>7. /\ Goto(p, "say") /\ UNCHANGED <<step, sock>>
        /\ stream' = [stream EXCEPT ![x]["up"] = <<>>]
    <3>1. stream' = [stream EXCEPT ![x]["up"] = Tail(stream[x]["up"])]
      BY <1>6, <2>2 DEF Ask, Incoming
    <3> QED
      BY <2>2, <2>5, <2>6, <3>1 DEF Ask, SaysLast
  <2>8. /\ stream' \in [Connections -> [{"up", "down"} -> Seq(Int)]]
        /\ stream'[x]["up"] = <<>> /\ stream'[x]["down"] = <<>>
        /\ \A y \in Connections : y # x => stream'[y] = stream[y]
        /\ Untouched'
    <3>1. <<>> \in Seq(Int)
      OBVIOUS
    <3> QED
      BY <1>9, <2>4, <2>7, <3>1, StreamStep
  <2>9. HandShakes(p, "say")
    BY <2>7 DEF HandShakes
  <2>10. /\ \A q \in Roles, m \in Steps : ~(q = p /\ m = n) =>
               Phase(q, m)' = Phase(q, m) /\ EndOf(q, m)' = EndOf(q, m)
         /\ Phase(p, n)' = "say" /\ EndOf(p, n)' = x
    <3>1. \A q \in Roles : q # p => new'[q] = new[q]
      BY <1>9
    <3> QED
      BY <1>1, <1>2, <1>6, <1>9, <2>7, <3>1, MoveWithin
  <2>11. Link(c, j)'
    <3>1. Phase(c, j)' = "ask" /\ EndOf(c, j)' = x
      BY <1>5, <1>6, <2>1, <2>4, <2>10
    <3>2. Phase(PeerAt(c, j), MateStep(c, j))' = "say" /\ EndOf(PeerAt(c, j), MateStep(c, j))' = x
      BY <2>1, <2>10
    <3>3. Bytes(EndOf(c, j), "up")' = <<>> /\ Bytes(EndOf(c, j), "down")' = <<>>
      BY <1>7, <2>8, <3>1 DEF Bytes
    <3>4. ~(Constructor(c)[j].addr \in listening') /\ queue'[Constructor(c)[j].addr] = <<>>
      BY <1>9, <2>4
    <3> QED
      BY <1>7, <3>1, <3>2, <3>3, <3>4 DEF Link, Shaking
  <2>12. Linked'
    <3>1. \A b \in Addresses : b # Constructor(c)[j].addr =>
             (b \in listening') = (b \in listening) /\ queue'[b] = queue[b]
      BY <1>9
    <3>2. \A y \in 1..opened : y # EndOf(c, j) => stream'[y] = stream[y]
      BY <1>6, <1>12, <2>8
    <3>3. \A d \in {P1, P2} : \A l \in 1..Connects(d) :
             (d = c /\ l = j) \/ SeedUnderway(d, l)' = SeedUnderway(d, l)
      BY <1>14, <2>9
    <3> QED
      BY <2>1, <2>10, <2>11, <3>1, <3>2, <3>3, LinksKept
  <2> QED
    BY <1>13, <2>8, <2>9, <2>12
<1>16. CASE n <= Connects(p)
  <2>1. c = p /\ n = j
    BY <1>4, <1>11, <1>16
  <2>2. ~(Current(p).kind = "open")
    BY <1>2, <1>11, <1>16
  <2>3. stream[x]["down"] # <<>>
    BY <1>6, <2>2 DEF Ask, Incoming
  <2> DEFINE sd == SeedUnderway(c, j)
             asks == Constructor(c)[j].asks
  <2>4. /\ Phase(PeerAt(c, j), MateStep(c, j)) = "past"
        /\ EndOf(PeerAt(c, j), MateStep(c, j)) = x
        /\ ~(Constructor(c)[j].addr \in listening)
        /\ queue[Constructor(c)[j].addr] = <<>>
        /\ stream[x]["up"] = <<>> /\ stream[x]["down"] = <<asks>> \o sd
    BY <1>2, <1>6, <1>7, <1>10, <2>1, <2>3 DEF Link, Shaking, Bytes
  <2>5. sd \in Seq(Int) /\ asks \in Int
    BY <1>8 DEF SeedUnderway, Seed
  <2>6. Head(stream[x]["down"]) = asks /\ Tail(stream[x]["down"]) = sd
    <3> HIDE DEF sd, asks
    <3> QED
      BY <2>4, <2>5
  <2>7. Recognised(p, Head(stream[new[p]][Incoming(p)]))
    BY <1>2, <1>6, <2>1, <2>2, <2>6 DEF Recognised, Incoming
  <2>8. Established(p) /\ stream' = [stream EXCEPT ![x]["down"] = sd]
    <3>1. stream' = [stream EXCEPT ![x]["down"] = Tail(stream[x]["down"])]
      BY <1>6, <2>2 DEF Ask, Incoming
    <3> HIDE DEF sd, asks
    <3> QED
      BY <2>2, <2>6, <2>7, <3>1 DEF Ask, SaysLast
  <2>9. HandShakes(p, "say")
    BY <2>8 DEF HandShakes
  <2>10. SeedUnderway(c, j)' = sd
    BY <1>14, <2>9
  <2> HIDE DEF sd, asks
  <2>11. /\ stream' \in [Connections -> [{"up", "down"} -> Seq(Int)]]
         /\ stream'[x]["down"] = sd /\ stream'[x]["up"] = <<>>
         /\ \A y \in Connections : y # x => stream'[y] = stream[y]
         /\ Untouched'
    BY <1>9, <2>4, <2>5, <2>8, StreamStep
  <2>12. /\ \A q \in Roles, m \in Steps :
               /\ EndOf(q, m)' = EndOf(q, m)
               /\ ~(q = p /\ m = n) => Phase(q, m)' = Phase(q, m)
         /\ Phase(p, n)' = "past"
    BY <1>1, <1>2, <1>9, <2>8, MoveOn
  <2>13. Link(c, j)'
    <3>1. PeerAt(c, j) \in Roles /\ MateStep(c, j) \in Steps /\ PeerAt(c, j) # p
      BY <1>5, <2>1, PlanFits
    <3>2. /\ Phase(PeerAt(c, j), MateStep(c, j))' = "past"
          /\ EndOf(PeerAt(c, j), MateStep(c, j))' = x
      BY <2>4, <2>12, <3>1
    <3>3. Phase(c, j)' = "past" /\ EndOf(c, j)' = x
      BY <1>5, <1>6, <2>1, <2>12
    <3>4. Bytes(EndOf(c, j), "up")' = <<>> /\ Bytes(EndOf(c, j), "down")' = sd
      BY <1>7, <2>11, <3>3 DEF Bytes
    <3>5. ~(Constructor(c)[j].addr \in listening') /\ queue'[Constructor(c)[j].addr] = <<>>
      BY <1>9, <2>4
    <3>6. <<>> \o sd = sd
      BY <2>5
    <3>7. Shaking("past", "past", x, x, FALSE, <<>>, <<>>, sd,
                  Constructor(c)[j].says, Constructor(c)[j].asks, sd)
      BY <1>7, <3>6 DEF Shaking
    <3> QED
      BY <2>10, <3>2, <3>3, <3>4, <3>5, <3>7 DEF Link, Shaking
  <2>14. Linked'
    <3>1. \A b \in Addresses : b # Constructor(c)[j].addr =>
             (b \in listening') = (b \in listening) /\ queue'[b] = queue[b]
      BY <1>9
    <3>2. \A y \in 1..opened : y # EndOf(c, j) => stream'[y] = stream[y]
      BY <1>6, <1>12, <2>11
    <3>3. \A d \in {P1, P2} : \A l \in 1..Connects(d) :
             (d = c /\ l = j) \/ SeedUnderway(d, l)' = SeedUnderway(d, l)
      BY <1>14, <2>9
    <3> QED
      BY <2>1, <2>12, <2>13, <3>1, <3>2, <3>3, LinksKept
  <2> QED
    BY <1>13, <2>9, <2>11, <2>14
<1> QED
  BY <1>11, <1>15, <1>16

(* The connection of the common seed, and what only changes labels. *)
LEMMA SeedConnection ==
  ASSUME ConnectionInv
  PROVE  /\ P2 \in {P1, P2} /\ (SCKNUM + 1) \in 1..Connects(P2) /\ (SCKNUM + 1) \in Steps
         /\ PeerAt(P2, SCKNUM + 1) = P1 /\ MateStep(P2, SCKNUM + 1) = SCKNUM + 1
         /\ pc[P1] \in {"seed", "done"} => /\ Phase(P1, SCKNUM + 1) = "past"
                                           /\ EndOf(P1, SCKNUM + 1) = sock[P1][P2][1]
         /\ pc[P2] \in {"seed", "done"} => /\ Phase(P2, SCKNUM + 1) = "past"
                                           /\ EndOf(P2, SCKNUM + 1) = sock[P2][P1][1]
<1>1. (SCKNUM + 1) \in Steps /\ P1 \in Roles /\ P2 \in Roles
  BY RolesFacts DEF Steps
<1>2. Connects(P2) = 2 * SCKNUM /\ (SCKNUM + 1) \in 1..Connects(P2)
  BY RolesFacts DEF Connects
<1>3. PeerAt(P2, SCKNUM + 1) = P1 /\ MateStep(P2, SCKNUM + 1) = SCKNUM + 1
      /\ PeerAt(P1, SCKNUM + 1) = P2 /\ SocketAt(SCKNUM + 1) = 1
  BY <1>1, PeersOf, RolesFacts
<1>4. \A p \in Roles : pc[p] \in {"seed", "done"} => Phase(p, SCKNUM + 1) = "past"
  BY RolesFacts DEF Phase, ConnectionInv, Placed
<1> QED
  BY <1>1, <1>2, <1>3, <1>4 DEF EndOf

LEMMA LabelOnly ==
  ASSUME ConnectionInv, NEW p \in Roles, pc[p] = "seed", pc' = [pc EXCEPT ![p] = "done"],
         UNCHANGED <<step, sock, new, opened>>
  PROVE  /\ pc' \in [Roles -> Labels] /\ Placed' /\ Unbound'
         /\ Counted' /\ Distinct' /\ Known' /\ AllKnown'
         /\ \A q \in Roles, m \in Steps : Phase(q, m)' = Phase(q, m) /\ EndOf(q, m)' = EndOf(q, m)
         /\ \A q \in Roles : pc'[q] = IF q = p THEN "done" ELSE pc[q]
<1> USE DEF ConnectionInv
<1>1. \A q \in Roles : pc'[q] = IF q = p THEN "done" ELSE pc[q]
  BY DEF ConnectionTypeOK
<1>2. pc' \in [Roles -> Labels] /\ Placed'
  BY <1>1 DEF ConnectionTypeOK, Placed, Labels
<1>3. Unbound'
  BY DEF Unbound
<1>4. ASSUME NEW q \in Roles, NEW m \in Steps
      PROVE  Phase(q, m)' = Phase(q, m) /\ EndOf(q, m)' = EndOf(q, m)
  <2>1. Phase(q, m)' = Phase(q, m)
    BY <1>1 DEF Phase
  <2> QED
    BY <2>1 DEF EndOf
<1>5. Made(P1)' = Made(P1) /\ Made(P2)' = Made(P2)
  BY <1>1 DEF Made, Roles
<1>6. Counted' /\ Distinct' /\ Known' /\ AllKnown'
  BY <1>4, <1>5, NumbersKept, ConnectsBounds, RolesFacts
<1> QED
  BY <1>1, <1>2, <1>3, <1>4, <1>6

LEMMA NoSeedKeeps ==
  ASSUME ConnectionInv, NoSeed
  PROVE  ConnectionInv'
<1>1. /\ HELPER \in Roles /\ pc[HELPER] = "seed" /\ pc' = [pc EXCEPT ![HELPER] = "done"]
      /\ UNCHANGED <<step, sock, new, listening, queue, stream, opened, reset, seed>>
  BY DEF NoSeed, Goto, Roles
<1>2. /\ pc' \in [Roles -> Labels] /\ Placed' /\ Unbound'
      /\ Counted' /\ Distinct' /\ Known' /\ AllKnown'
      /\ \A q \in Roles, m \in Steps : Phase(q, m)' = Phase(q, m) /\ EndOf(q, m)' = EndOf(q, m)
      /\ \A q \in Roles : pc'[q] = IF q = HELPER THEN "done" ELSE pc[q]
  BY <1>1, LabelOnly
<1>3. pc'[P1] = pc[P1] /\ pc'[P2] = pc[P2]
  BY <1>2, RolesFacts
<1>4. Linked'
  BY <1>1, <1>2, <1>3, LinksSame DEF ConnectionInv
<1>5. ConnectionTypeOK' /\ Untouched' /\ Seeded' /\ (reset = {})'
  BY <1>1, <1>2, <1>3 DEF ConnectionInv, ConnectionTypeOK, Untouched, Seeded
<1> QED
  BY <1>2, <1>4, <1>5 DEF ConnectionInv

(* A step on the stream of the seed. *)
LEMMA SeedStep ==
  ASSUME ConnectionInv, NEW p \in {P1, P2}, pc[p] = "seed", pc' = [pc EXCEPT ![p] = "done"],
         UNCHANGED <<step, sock, new, listening, queue, opened, reset>>,
         NEW x \in 1..opened, x = EndOf(P2, SCKNUM + 1),
         NEW v \in Seq(Int), stream' = [stream EXCEPT ![x]["down"] = v],
         v = (IF Phase(P2, SCKNUM + 1) = "ask" THEN <<Constructor(P2)[SCKNUM + 1].asks>>
                                               ELSE <<>>) \o SeedUnderway(P2, SCKNUM + 1)',
         seed' \in [Roles -> Int], Seeded'
  PROVE  ConnectionInv'
<1> USE DEF ConnectionInv
<1> DEFINE f == SCKNUM + 1
<1>1. /\ f \in 1..Connects(P2) /\ f \in Steps /\ PeerAt(P2, f) = P1 /\ MateStep(P2, f) = f
      /\ P1 \in Roles /\ P2 \in Roles
  BY SeedConnection, RolesFacts
<1> HIDE DEF f
<1>2. /\ pc' \in [Roles -> Labels] /\ Placed' /\ Unbound'
      /\ Counted' /\ Distinct' /\ Known' /\ AllKnown'
      /\ \A q \in Roles, m \in Steps : Phase(q, m)' = Phase(q, m) /\ EndOf(q, m)' = EndOf(q, m)
  BY LabelOnly, RolesFacts
<1>3. /\ stream' \in [Connections -> [{"up", "down"} -> Seq(Int)]]
      /\ stream'[x]["down"] = v /\ stream'[x]["up"] = stream[x]["up"]
      /\ \A y \in Connections : y # x => stream'[y] = stream[y]
      /\ 1..opened \subseteq Connections
      /\ Untouched'
  <2>1. "down" \in {"up", "down"} /\ "up" \in {"up", "down"} /\ "up" # "down" /\ opened' = opened
    OBVIOUS
  <2>2. /\ stream' \in [Connections -> [{"up", "down"} -> Seq(Int)]]
        /\ stream'[x]["down"] = v
        /\ \A e \in {"up", "down"} : e # "down" => stream'[x][e] = stream[x][e]
        /\ \A y \in Connections : y # x => stream'[y] = stream[y]
        /\ 1..opened \subseteq Connections
        /\ Untouched => (opened' = opened => Untouched')
    <3>1. ConnectionTypeOK /\ Counted /\ Placed
      OBVIOUS
    <3> HIDE DEF ConnectionInv
    <3>2. stream' = [stream EXCEPT ![x]["down"] = v]
      OBVIOUS
    <3> QED
      BY <2>1, <3>1, <3>2, StreamStep, ZenonT(40)
  <2>3. Untouched /\ opened' = opened
    BY <2>1
  <2> HIDE DEF ConnectionInv
  <2> QED
    BY <2>1, <2>2, <2>3
<1>4. Link(P2, f)
  BY <1>1 DEF Linked
<1>5. Phase(P1, f) = "past"
  <2>1. p = P1 => Phase(P1, f) = "past"
    BY SeedConnection DEF f
  <2>2. p = P2 => Phase(P2, f) = "past"
    BY SeedConnection DEF f
  <2>3. Phase(P2, f) = "past" => Phase(P1, f) = "past"
    BY <1>1, <1>4 DEF Link, Shaking
  <2> QED
    BY <2>1, <2>2, <2>3
<1>6. Link(P2, f)'
  <2>1. x # 0 /\ EndOf(P2, f)' = x /\ EndOf(P2, f) = x
    BY <1>1, <1>2 DEF f
  <2>2. Phase(P2, f)' = Phase(P2, f) /\ Phase(P1, f)' = "past" /\ EndOf(P1, f)' = EndOf(P1, f)
    BY <1>1, <1>2, <1>5
  <2>3. Bytes(EndOf(P2, f), "up")' = Bytes(EndOf(P2, f), "up") /\ Bytes(EndOf(P2, f), "down")' = v
    BY <1>3, <2>1 DEF Bytes
  <2>4. ~(Constructor(P2)[f].addr \in listening) /\ queue[Constructor(P2)[f].addr] = <<>>
        /\ Phase(P2, f) \in {"ask", "past"} /\ EndOf(P1, f) = x
        /\ Bytes(EndOf(P2, f), "up") = <<>>
    BY <1>1, <1>4, <1>5, <2>1 DEF Link, Shaking
  <2>5. ~(Constructor(P2)[f].addr \in listening') /\ queue'[Constructor(P2)[f].addr] = <<>>
    BY <2>4
  <2>6. Shaking("past", Phase(P2, f), x, x, FALSE, <<>>, <<>>, v,
                Constructor(P2)[f].says, Constructor(P2)[f].asks, SeedUnderway(P2, f)')
    BY <2>1, <2>4 DEF Shaking, f
  <2>7. /\ Phase(PeerAt(P2, f), MateStep(P2, f))' = "past"
        /\ EndOf(PeerAt(P2, f), MateStep(P2, f))' = x
    <3>1. PeerAt(P2, f) \in Roles /\ MateStep(P2, f) \in Steps
      BY <1>1
    <3>2. /\ Phase(PeerAt(P2, f), MateStep(P2, f)) = "past"
          /\ EndOf(PeerAt(P2, f), MateStep(P2, f)) = x
      BY <1>1, <1>5, <2>4
    <3> QED
      BY <1>2, <3>1, <3>2
  <2>8. Shaking(Phase(PeerAt(P2, f), MateStep(P2, f))', Phase(P2, f)',
                EndOf(PeerAt(P2, f), MateStep(P2, f))', EndOf(P2, f)',
                Constructor(P2)[f].addr \in listening', queue'[Constructor(P2)[f].addr],
                Bytes(EndOf(P2, f), "up")', Bytes(EndOf(P2, f), "down")',
                Constructor(P2)[f].says, Constructor(P2)[f].asks, SeedUnderway(P2, f)')
    <3>1. /\ Phase(P2, f)' = Phase(P2, f) /\ EndOf(P2, f)' = x
          /\ Bytes(EndOf(P2, f), "up")' = <<>> /\ Bytes(EndOf(P2, f), "down")' = v
          /\ queue'[Constructor(P2)[f].addr] = <<>>
          /\ (Constructor(P2)[f].addr \in listening') = FALSE
      BY <2>1, <2>2, <2>3, <2>4, <2>5
    <3> QED
      BY <2>6, <2>7, <3>1
  <2> QED
    BY <2>8 DEF Link
<1>7. Linked'
  <2>1. \A b \in Addresses : b # Constructor(P2)[f].addr =>
           (b \in listening') = (b \in listening) /\ queue'[b] = queue[b]
    OBVIOUS
  <2>2. \A y \in 1..opened : y # EndOf(P2, f) => stream'[y] = stream[y]
    BY <1>3 DEF f
  <2>3. \A d \in {P1, P2} : \A l \in 1..Connects(d) :
           (d = P2 /\ l = f) \/ SeedUnderway(d, l)' = SeedUnderway(d, l)
    BY DEF SeedUnderway, f
  <2>4. P2 \in {P1, P2}
    OBVIOUS
  <2> QED
    BY <1>1, <1>2, <1>6, <2>1, <2>2, <2>3, <2>4, LinksKept
<1> QED
  BY <1>2, <1>3, <1>7 DEF ConnectionTypeOK

LEMMA SendSeedKeeps ==
  ASSUME ConnectionInv, SendSeed
  PROVE  ConnectionInv'
<1> USE DEF ConnectionInv
<1> DEFINE f == SCKNUM + 1
           hs == IF Phase(P2, f) = "ask" THEN <<Constructor(P2)[f].asks>> ELSE <<>>
           x == EndOf(P2, f)
<1>1. /\ pc[P1] = "seed" /\ pc' = [pc EXCEPT ![P1] = "done"]
      /\ seed' = [seed EXCEPT ![P1] = Seed]
      /\ stream' = [stream EXCEPT ![sock[P1][P2][1]]["down"] =
                       Append(stream[sock[P1][P2][1]]["down"], Seed)]
      /\ UNCHANGED <<step, sock, new, listening, queue, opened, reset>>
  BY DEF SendSeed, Goto
<1>2. /\ P2 \in {P1, P2} /\ f \in 1..Connects(P2) /\ f \in Steps
      /\ PeerAt(P2, f) = P1 /\ MateStep(P2, f) = f
      /\ Phase(P1, f) = "past" /\ EndOf(P1, f) = sock[P1][P2][1]
      /\ P1 \in Roles /\ P2 \in Roles
  BY <1>1, SeedConnection, RolesFacts
<1>3. Link(P2, f)
  BY <1>2 DEF Linked
<1>4. SeedUnderway(P2, f) = <<>>
  BY <1>1 DEF SeedUnderway
<1>5. /\ x # 0 /\ sock[P1][P2][1] = x /\ stream[x]["down"] = hs \o <<>>
  BY <1>2, <1>3, <1>4 DEF Link, Shaking, Bytes
<1>6. x \in 1..opened
  <2>1. x \in Nat /\ x <= opened /\ opened \in Nat
    BY <1>2, TypesOfEnds DEF Known, ConnectionTypeOK
  <2> QED
    BY <1>5, <2>1
<1>7. hs \in Seq(Int)
  BY <1>2, EndsAgree
<1>8. /\ pc'[P1] = "done" /\ pc'[P2] # "done" /\ pc[P2] # "done" /\ pc'[P2] = pc[P2]
      /\ seed'[P1] = Seed /\ seed' \in [Roles -> Int]
  <2>1. /\ pc'[P1] = "done" /\ pc'[P2] = pc[P2] /\ pc[P2] # "done"
    BY <1>1, <1>2, RolesFacts DEF ConnectionTypeOK, Seeded
  <2>2. seed'[P1] = Seed /\ seed' \in [Roles -> Int]
    <3>1. seed \in [Roles -> Int] /\ Seed \in Int
      BY DEF ConnectionTypeOK, Seed
    <3> QED
      BY <1>1, <1>2, <3>1
  <2> QED
    BY <2>1, <2>2
<1>9. SeedUnderway(P2, f)' = <<Seed>>
  BY <1>8 DEF SeedUnderway
<1>10. Append(stream[x]["down"], Seed) = hs \o <<Seed>> /\ hs \o <<Seed>> \in Seq(Int)
  <2> HIDE DEF hs, x
  <2>1. Seed \in Int
    BY DEF Seed
  <2> QED
    BY <1>5, <1>7, <2>1
<1>11. Seeded'
  BY <1>8 DEF Seeded
<1>12. PICK v \in Seq(Int) : v = hs \o SeedUnderway(P2, f)' /\ v = Append(stream[x]["down"], Seed)
  BY <1>9, <1>10
<1>13. stream' = [stream EXCEPT ![x]["down"] = v]
  BY <1>1, <1>5, <1>12
<1>14. PICK y \in 1..opened : y = x
  BY <1>6
<1>15. stream' = [stream EXCEPT ![y]["down"] = v]
  BY <1>13, <1>14
<1> QED
  BY <1>1, <1>8, <1>11, <1>12, <1>14, <1>15, SeedStep

LEMMA ReceiveSeedKeeps ==
  ASSUME ConnectionInv, ReceiveSeed
  PROVE  ConnectionInv'
<1> USE DEF ConnectionInv
<1> DEFINE f == SCKNUM + 1
           x == EndOf(P2, f)
<1>1. /\ pc[P2] = "seed" /\ pc' = [pc EXCEPT ![P2] = "done"]
      /\ stream[sock[P2][P1][1]]["down"] # <<>>
      /\ seed' = [seed EXCEPT ![P2] = Head(stream[sock[P2][P1][1]]["down"])]
      /\ stream' = [stream EXCEPT ![sock[P2][P1][1]]["down"] =
                       Tail(stream[sock[P2][P1][1]]["down"])]
      /\ UNCHANGED <<step, sock, new, listening, queue, opened, reset>>
  BY DEF ReceiveSeed, Goto
<1>2. /\ P2 \in {P1, P2} /\ f \in 1..Connects(P2) /\ f \in Steps
      /\ PeerAt(P2, f) = P1 /\ MateStep(P2, f) = f
      /\ Phase(P2, f) = "past" /\ x = sock[P2][P1][1]
      /\ P1 \in Roles /\ P2 \in Roles
  BY <1>1, SeedConnection, RolesFacts
<1>3. Link(P2, f)
  BY <1>2 DEF Linked
<1>4. x # 0 /\ stream[x]["down"] = <<>> \o SeedUnderway(P2, f)
  BY <1>2, <1>3 DEF Link, Shaking, Bytes
<1>5. pc[P1] = "done" /\ SeedUnderway(P2, f) = <<Seed>>
  <2>1. SeedUnderway(P2, f) # <<>>
    BY <1>1, <1>2, <1>4
  <2> QED
    BY <2>1 DEF SeedUnderway
<1>6. Head(stream[x]["down"]) = Seed /\ Tail(stream[x]["down"]) = <<>>
  <2> HIDE DEF x
  <2>1. stream[x]["down"] = <<Seed>>
    BY <1>4, <1>5 DEF Seed
  <2> QED
    BY <2>1
<1>7. x \in 1..opened
  <2>1. x \in Nat /\ x <= opened /\ opened \in Nat
    BY <1>2, TypesOfEnds DEF Known, ConnectionTypeOK
  <2> QED
    BY <1>4, <2>1
<1>8. /\ pc'[P1] = "done" /\ pc'[P2] = "done" /\ seed'[P2] = Seed /\ seed'[P1] = seed[P1]
      /\ seed' \in [Roles -> Int]
  <2>1. pc'[P1] = "done" /\ pc'[P2] = "done"
    BY <1>1, <1>2, <1>5, RolesFacts DEF ConnectionTypeOK
  <2>2. seed' = [seed EXCEPT ![P2] = Seed]
    BY <1>1, <1>2, <1>6
  <2>3. seed'[P2] = Seed /\ seed'[P1] = seed[P1] /\ seed' \in [Roles -> Int]
    <3>1. seed \in [Roles -> Int] /\ Seed \in Int /\ P1 # P2
      BY RolesFacts DEF ConnectionTypeOK, Seed
    <3> QED
      BY <1>2, <2>2, <3>1
  <2> QED
    BY <2>1, <2>3
<1>9. SeedUnderway(P2, f)' = <<>>
  BY <1>8 DEF SeedUnderway
<1>10. Seeded'
  BY <1>5, <1>8 DEF Seeded
<1>11. PICK v \in Seq(Int) : v = <<>>
  <2>1. <<>> \in Seq(Int)
    OBVIOUS
  <2> QED
    BY <2>1
<1>12. v = (IF Phase(P2, f) = "ask" THEN <<Constructor(P2)[f].asks>> ELSE <<>>) \o SeedUnderway(P2, f)'
  BY <1>2, <1>9, <1>11
<1>13. PICK y \in 1..opened : y = x
  BY <1>7
<1>14. stream' = [stream EXCEPT ![y]["down"] = v]
  BY <1>1, <1>2, <1>6, <1>11, <1>13
<1> QED
  BY <1>1, <1>8, <1>10, <1>12, <1>13, <1>14, SeedStep

-----------------------------------------------------------------------------
(* The invariant holds. *)

LEMMA ConnectionStarts == Init => ConnectionInv
<1> SUFFICES ASSUME Init
             PROVE  ConnectionInv
  OBVIOUS
<1> USE RolesFacts
<1>1. ConnectionTypeOK
  BY DEF Init, ConnectionTypeOK, Labels, Unset
<1>2. \A p \in Roles : step[p] = 0 /\ pc[p] = "off"
  BY DEF Init
<1>3. Placed
  BY <1>2 DEF Placed
<1>4. Unbound
  BY DEF Init, Unbound
<1>5. \A p \in Roles, n \in Steps : Phase(p, n) = "before" /\ EndOf(p, n) = 0
  BY <1>2 DEF Phase, EndOf, Steps
<1>6. Made(P1) = 0 /\ Made(P2) = 0
  BY <1>2 DEF Made, Connects
<1>7. Counted /\ AllKnown /\ opened = 0
  BY <1>6 DEF Init, Counted, AllKnown
<1>8. Distinct /\ Known
  <2>1. \A c \in {P1, P2} : \A j \in 1..Connects(c) : EndOf(c, j) = 0
    BY <1>5, ConnectsBounds
  <2> QED
    BY <1>7, <2>1 DEF Distinct, Known
<1>9. Untouched
  BY DEF Init, Untouched
<1>10. Linked
  <2> SUFFICES ASSUME NEW c \in {P1, P2}, NEW j \in 1..Connects(c)
               PROVE  Link(c, j)
    BY DEF Linked
  <2>1. c \in Roles /\ j \in Steps
    BY ConnectsBounds
  <2>2. PeerAt(c, j) \in Roles /\ MateStep(c, j) \in Steps
    BY <2>1, PlanFits
  <2>3. Constructor(c)[j].addr \in Addresses
    BY <2>1, AddressKnown
  <2>4. ~(Constructor(c)[j].addr \in listening) /\ queue[Constructor(c)[j].addr] = <<>>
    BY <2>3 DEF Init
  <2>5. /\ Phase(c, j) = "before" /\ EndOf(c, j) = 0
        /\ Phase(PeerAt(c, j), MateStep(c, j)) = "before"
        /\ EndOf(PeerAt(c, j), MateStep(c, j)) = 0
    BY <1>5, <2>1, <2>2
  <2> QED
    BY <2>4, <2>5 DEF Link, Shaking
<1>11. Seeded /\ reset = {}
  BY <1>2 DEF Seeded, Init
<1> QED
  BY <1>1, <1>3, <1>4, <1>7, <1>8, <1>9, <1>10, <1>11 DEF ConnectionInv

LEMMA RunKeeps ==
  ASSUME ConnectionInv, NEW p \in Roles, Run(p)
  PROVE  ConnectionInv'
  BY StartKeeps, ListenKeeps, AcceptKeeps, ConnectKeeps, SayKeeps, AskKeeps,
     SendSeedKeeps, ReceiveSeedKeeps, NoSeedKeeps DEF Run

LEMMA ConnectionStays ==
  ASSUME ConnectionInv, UNCHANGED vars
  PROVE  ConnectionInv'
<1> USE DEF ConnectionInv
<1>1. UNCHANGED <<pc, step, sock, new, listening, queue, stream, opened, reset, seed>>
  BY DEF vars
<1>2. ConnectionTypeOK' /\ Placed' /\ Unbound' /\ Seeded' /\ (reset = {})' /\ Untouched'
  BY <1>1 DEF ConnectionTypeOK, Placed, Unbound, Seeded, Untouched
<1>3. \A q \in Roles, m \in Steps : Phase(q, m)' = Phase(q, m) /\ EndOf(q, m)' = EndOf(q, m)
  BY <1>1 DEF Phase, EndOf
<1>4. Made(P1)' = Made(P1) /\ Made(P2)' = Made(P2)
  BY <1>1 DEF Made
<1>5. Counted' /\ Distinct' /\ Known' /\ AllKnown'
  BY <1>1, <1>3, <1>4, NumbersKept, ConnectsBounds, RolesFacts
<1>6. Linked'
  BY <1>1, <1>3, LinksSame
<1> QED
  BY <1>2, <1>5, <1>6

LEMMA ConnectionFacts ==
  ASSUME ConnectionInv
  PROVE  SocketsPair /\ StreamsClean
<1> USE DEF ConnectionInv
<1>1. ASSUME NEW p \in Roles
      PROVE  pc[p] # "failed"
  BY DEF ConnectionTypeOK, Labels
<1>2. ASSUME NEW p \in Roles, NEW q \in Roles, NEW k \in Sockets,
             sock[p][q][k] # 0, sock[q][p][k] # 0
      PROVE  sock[p][q][k] = sock[q][p][k]
  <2>1. p # q
    BY <1>2 DEF Unbound
  <2> DEFINE n == StepFor(p, q, k)
             m == StepFor(q, p, k)
  <2>2. n \in Nat /\ m \in Nat /\ step[p] >= n /\ step[q] >= m
    <3>0. SCKNUM \in Nat /\ k \in Nat
      BY RolesFacts DEF Sockets
    <3>1. n \in Nat /\ m \in Nat
      BY <3>0 DEF StepFor
    <3>3. step[p] \in Nat /\ step[q] \in Nat
      BY <3>0 DEF ConnectionTypeOK
    <3>2. ~(step[p] < n) /\ ~(step[q] < m)
      BY <1>2 DEF Unbound
    <3> HIDE DEF n, m
    <3> QED
      BY <3>1, <3>2, <3>3
  <2>3. /\ n \in Steps /\ PeerAt(p, n) = q /\ SocketAt(n) = k
        /\ m \in Steps /\ PeerAt(q, m) = p /\ SocketAt(m) = k
    BY <2>1, RolesFacts DEF StepFor, Sockets, Steps, PeerAt, SocketAt, FirstPeer, SecondPeer
  <2>4. MateStep(p, n) = m /\ MateStep(q, m) = n
    BY <2>3 DEF MateStep
  <2> HIDE DEF n, m
  <2>5. EndOf(p, n) = sock[p][q][k] /\ EndOf(q, m) = sock[q][p][k]
    BY <2>2, <2>3 DEF EndOf, Phase
  <2>6. PICK c \in {P1, P2} : \E j \in 1..Connects(c) :
            \/ c = p /\ j = n
            \/ p = PeerAt(c, j) /\ n = MateStep(c, j) /\ c = PeerAt(p, n) /\ j = MateStep(p, n)
    BY <2>3, LinkOf
  <2>7. PICK j \in 1..Connects(c) :
            \/ c = p /\ j = n
            \/ c = q /\ j = m
    BY <2>3, <2>4, <2>6
  <2>8. Link(c, j) /\ EndOf(c, j) # 0 /\ EndOf(PeerAt(c, j), MateStep(c, j)) # 0
    BY <1>2, <2>3, <2>4, <2>5, <2>7 DEF Linked
  <2>9. EndOf(PeerAt(c, j), MateStep(c, j)) = EndOf(c, j)
    BY <2>8 DEF Link, Shaking
  <2> QED
    BY <2>3, <2>4, <2>5, <2>7, <2>9
<1>3. SocketsPair
  BY <1>1, <1>2 DEF SocketsPair
<1>4. ASSUME Connected
      PROVE  /\ \A x \in Connections : stream[x]["up"] = <<>> /\ stream[x]["down"] = <<>>
             /\ seed[P1] = seed[P2]
  <2>1. \A p \in Roles : pc[p] = "done" /\ step[p] = 2 * SCKNUM
    BY <1>4 DEF Connected, Placed
  <2>2. seed[P1] = seed[P2]
    BY <2>1, RolesFacts DEF Seeded
  <2>3. ASSUME NEW x \in Connections
        PROVE  stream[x]["up"] = <<>> /\ stream[x]["down"] = <<>>
    <3>0. opened \in Nat /\ x \in Nat /\ x >= 1
      BY RolesFacts DEF ConnectionTypeOK, Connections
    <3>1. CASE x > opened
      BY <3>1 DEF Untouched
    <3>2. CASE x <= opened
      <4>1. x \in 1..opened
        BY <3>0, <3>2
      <4>2. PICK c \in {P1, P2} : \E j \in 1..Connects(c) : EndOf(c, j) = x
        BY <4>1 DEF AllKnown
      <4>3. PICK j \in 1..Connects(c) : EndOf(c, j) = x
        BY <4>2
      <4>4. c \in Roles /\ j \in Nat /\ j <= 2 * SCKNUM
        BY ConnectsBounds, RolesFacts DEF Steps
      <4>5. Phase(c, j) = "past" /\ SeedUnderway(c, j) = <<>>
        BY <2>1, <4>4, RolesFacts DEF Phase, SeedUnderway
      <4>6. Link(c, j)
        BY DEF Linked
      <4>7. stream[x]["up"] = <<>> /\ stream[x]["down"] = <<>> \o <<>>
        BY <3>0, <4>3, <4>5, <4>6 DEF Link, Shaking, Bytes
      <4> QED
        BY <4>7
    <3> QED
      BY <3>0, <3>1, <3>2
  <2> QED
    BY <2>2, <2>3
<1>5. StreamsClean
  BY <1>4 DEF StreamsClean
<1> QED
  BY <1>3, <1>5

(* The constructors on their own. *)
LEMMA ConnectionInvariance == Spec => []ConnectionInv
<1>1. ConnectionInv /\ [Next]_vars => ConnectionInv'
  <2> SUFFICES ASSUME ConnectionInv, [Next]_vars
               PROVE  ConnectionInv'
    OBVIOUS
  <2>1. CASE UNCHANGED vars
    BY <2>1, ConnectionStays
  <2>2. CASE Next
    BY <2>1, <2>2, RunKeeps, ConnectionStays DEF Next, Done
  <2> QED
    BY <2>1, <2>2
<1> QED
  BY ConnectionStarts, <1>1, PTL DEF Spec

(* And within the programs of the proxies. *)
LEMMA StartupConnects == StartupSpec => []ConnectionInv
<1>1. StartupInit => ConnectionInv
  BY ConnectionStarts DEF StartupInit
<1>2. ConnectionInv /\ [StartupNext]_<<mainVars, vars>> => ConnectionInv'
  <2> SUFFICES ASSUME ConnectionInv, [StartupNext]_<<mainVars, vars>>
               PROVE  ConnectionInv'
    OBVIOUS
  <2>1. CASE UNCHANGED vars
    BY <2>1, ConnectionStays
  <2>2. CASE \E p \in Roles : Program(p)
    <3>1. PICK p \in Roles : Program(p)
      BY <2>2
    <3>2. Run(p) \/ UNCHANGED vars
      BY <3>1 DEF Program, Construct, Parse, Load, Round, Finish
    <3> QED
      BY <2>1, <3>2, RunKeeps
  <2>3. CASE StartupDone
    BY <2>1, <2>3 DEF StartupDone
  <2> QED
    BY <2>1, <2>2, <2>3 DEF StartupNext
<1> QED
  BY <1>1, <1>2, PTL DEF StartupSpec

(* Whoever is started first, and however the opening and the connecting of  *)
(* the three constructors interleave (src/core/Party.h:81-296), the k-th    *)
(* socket of one party to another is the other end of the k-th socket of    *)
(* the other to it: the announcements, the roles sent back and the two      *)
(* ports are enough to match them, although SCKNUM sockets are opened on    *)
(* consecutive ports and accept takes what comes.                           *)
THEOREM SocketsOfAName == StartupSpec => []SocketsPair
<1>1. ConnectionInv => SocketsPair
  BY ConnectionFacts
<1> QED
  BY StartupConnects, <1>1, PTL

(* When all three are connected nothing of the set-up is left in a stream,  *)
(* where the first command would read it, and both proxies have the seed.   *)
THEOREM NothingIsLeft == StartupSpec => []StreamsClean
<1>1. ConnectionInv => StreamsClean
  BY ConnectionFacts
<1> QED
  BY StartupConnects, <1>1, PTL

(* The same of the constructors by themselves, with a helper and two        *)
(* proxies that start whenever they like.                                   *)
THEOREM ConstructorsAgree == Spec => [](SocketsPair /\ StreamsClean)
<1>1. ConnectionInv => SocketsPair /\ StreamsClean
  BY ConnectionFacts
<1> QED
  BY ConnectionInvariance, <1>1, PTL

-----------------------------------------------------------------------------
(* What a directory is loaded into. *)

DirEntries == [name : STRING, opens : BOOLEAN, rows : Nat]

(* Files before an entry. *)
Before(dir, k) == {j \in 1..(k - 1) : Opened(dir[j])}

(* The index counts the files so far. *)
LEMMA IndexStep ==
  ASSUME NEW dir, Len(dir) \in Nat
  PROVE  /\ IndexAfter(dir)[0] = 0
         /\ \A k \in 1..Len(dir) :
               IndexAfter(dir)[k] = NextIndex(IndexAfter(dir)[k - 1], dir[k])
<1> DEFINE n == Len(dir)
           onward == [q \in Nat \X Nat |-> NextIndex(q[2], dir[q[1] + 1])]
           Recurs(f) == f = [k \in 0..Len(dir) |->
                                IF k = 0 THEN 0 ELSE NextIndex(f[k - 1], dir[k])]
<1>1. onward \in [Nat \X Nat -> Nat]
  BY DEF NextIndex
<1>2. PICK g \in [0..n -> Nat] : Beginning(g, n, 0, onward)
  <2> HIDE DEF onward
  <2> QED
    BY <1>1, BeginningExists
<1>3. /\ g[0] = 0
      /\ \A k \in 0..(n - 1) : g[k + 1] = onward[<<k, g[k]>>]
  BY <1>2 DEF Beginning
<1>4. ASSUME NEW k \in 1..n
      PROVE  g[k] = NextIndex(g[k - 1], dir[k])
  <2>0. k - 1 \in 0..(n - 1) /\ (k - 1) + 1 = k /\ k - 1 \in Nat /\ k - 1 \in 0..n
    OBVIOUS
  <2>1. g[k - 1] \in Nat
    BY <1>2, <2>0
  <2>2. g[k] = onward[<<k - 1, g[k - 1]>>]
    <3> HIDE DEF onward
    <3> QED
      BY <1>3, <2>0
  <2> QED
    BY <2>0, <2>1, <2>2
<1>5. Recurs(g)
  <2>1. g = [k \in 0..n |-> g[k]]
    BY <1>2
  <2>2. \A k \in 0..n : g[k] = IF k = 0 THEN 0 ELSE NextIndex(g[k - 1], dir[k])
    BY <1>3, <1>4
  <2> QED
    BY <2>1, <2>2
<1>6. Recurs(IndexAfter(dir))
  <2> HIDE DEF Recurs
  <2>1. Recurs(CHOOSE f : Recurs(f))
    BY <1>5
  <2>2. IndexAfter(dir) = CHOOSE f : Recurs(f)
    BY DEF IndexAfter, Recurs
  <2> QED
    BY <2>1, <2>2
<1>7. \A k \in 0..n : IndexAfter(dir)[k] =
          IF k = 0 THEN 0 ELSE NextIndex(IndexAfter(dir)[k - 1], dir[k])
  BY <1>6
<1> QED
  BY <1>7

LEMMA IndexCounts ==
  ASSUME NEW dir, Len(dir) \in Nat
  PROVE  \A k \in 0..Len(dir) :
            /\ IsFiniteSet(Before(dir, k + 1))
            /\ IndexAfter(dir)[k] = Cardinality(Before(dir, k + 1))
            /\ IndexAfter(dir)[k] \in Nat
<1> DEFINE Holds(k) == /\ IsFiniteSet(Before(dir, k + 1))
                       /\ IndexAfter(dir)[k] = Cardinality(Before(dir, k + 1))
                       /\ IndexAfter(dir)[k] \in Nat
           S == {k \in Nat : Holds(k)}
<1>1. 0 \in S
  <2>1. Before(dir, 0 + 1) = {}
    BY DEF Before
  <2>2. IndexAfter(dir)[0] = 0
    BY IndexStep
  <2>3. IsFiniteSet(Before(dir, 0 + 1)) /\ Cardinality(Before(dir, 0 + 1)) = 0
    BY <2>1, FS_EmptySet
  <2>4. Holds(0)
    BY <2>2, <2>3
  <2> QED
    BY <2>4
<1>2. ASSUME NEW k \in 0..(Len(dir) - 1), k \in S
      PROVE  k + 1 \in S
  <2>1. k \in Nat /\ k + 1 \in 1..Len(dir) /\ (k + 1) - 1 = k
    OBVIOUS
  <2>2. IndexAfter(dir)[k + 1] = NextIndex(IndexAfter(dir)[k], dir[k + 1])
    BY <2>1, IndexStep
  <2>3. /\ IsFiniteSet(Before(dir, k + 1))
        /\ IndexAfter(dir)[k] = Cardinality(Before(dir, k + 1))
        /\ IndexAfter(dir)[k] \in Nat
    BY <1>2
  <2>4. k + 1 \notin Before(dir, k + 1)
    BY <2>1 DEF Before
  <2>5. CASE Opened(dir[k + 1])
    <3>1. Before(dir, (k + 1) + 1) = Before(dir, k + 1) \cup {k + 1}
      BY <2>1, <2>5 DEF Before
    <3>2. /\ IsFiniteSet(Before(dir, (k + 1) + 1))
          /\ Cardinality(Before(dir, (k + 1) + 1)) = Cardinality(Before(dir, k + 1)) + 1
      BY <3>1, <2>3, <2>4, FS_AddElement
    <3>3. IndexAfter(dir)[k + 1] = IndexAfter(dir)[k] + 1
      BY <2>2, <2>5 DEF NextIndex
    <3>4. Holds(k + 1)
      BY <2>3, <3>2, <3>3
    <3> QED
      BY <2>1, <3>4
  <2>6. CASE ~Opened(dir[k + 1])
    <3>1. Before(dir, (k + 1) + 1) = Before(dir, k + 1)
      BY <2>1, <2>6 DEF Before
    <3>2. IndexAfter(dir)[k + 1] = IndexAfter(dir)[k]
      BY <2>2, <2>6 DEF NextIndex
    <3>3. Holds(k + 1)
      BY <2>3, <3>1, <3>2
    <3> QED
      BY <2>1, <3>3
  <2> QED
    BY <2>5, <2>6
<1>3. 0..Len(dir) \subseteq S
  <2> HIDE DEF S
  <2> QED
    BY <1>1, <1>2, BoundedInduction
<1> QED
  BY <1>3

(* It never falls, so no two files have the same one. *)
LEMMA IndexRises ==
  ASSUME NEW dir, Len(dir) \in Nat, NEW k \in 0..Len(dir)
  PROVE  \A l \in k..Len(dir) : IndexAfter(dir)[k] <= IndexAfter(dir)[l]
<1> DEFINE S == {l \in Nat : l >= k => IndexAfter(dir)[k] <= IndexAfter(dir)[l]}
<1>1. \A l \in 0..Len(dir) : IndexAfter(dir)[l] \in Nat
  BY IndexCounts
<1>2. 0 \in S
  BY <1>1
<1>3. ASSUME NEW l \in 0..(Len(dir) - 1), l \in S
      PROVE  l + 1 \in S
  <2>1. l + 1 \in 1..Len(dir) /\ (l + 1) - 1 = l /\ l \in 0..Len(dir) /\ l + 1 \in 0..Len(dir)
    OBVIOUS
  <2>2. IndexAfter(dir)[l + 1] = NextIndex(IndexAfter(dir)[l], dir[l + 1])
    BY <2>1, IndexStep
  <2>3. IndexAfter(dir)[l] <= IndexAfter(dir)[l + 1]
    BY <1>1, <2>1, <2>2 DEF NextIndex
  <2>4. CASE l + 1 = k
    BY <1>1, <2>1, <2>4
  <2>5. CASE l + 1 # k
    BY <1>1, <1>3, <2>1, <2>3, <2>5
  <2> QED
    BY <2>4, <2>5
<1>4. 0..Len(dir) \subseteq S
  <2> HIDE DEF S
  <2> QED
    BY <1>2, <1>3, BoundedInduction
<1> QED
  BY <1>4

LEMMA IndexDistinct ==
  ASSUME NEW dir, Len(dir) \in Nat, NEW k \in 1..Len(dir), NEW l \in 1..Len(dir),
         Opened(dir[k]), Opened(dir[l]),
         IndexAfter(dir)[k - 1] = IndexAfter(dir)[l - 1]
  PROVE  k = l
<1>1. ASSUME NEW i \in 1..Len(dir), NEW j \in 1..Len(dir), i < j, Opened(dir[i])
      PROVE  IndexAfter(dir)[i - 1] # IndexAfter(dir)[j - 1]
  <2>1. /\ i - 1 \in 0..Len(dir) /\ i \in 0..Len(dir) /\ j - 1 \in 0..Len(dir)
        /\ j - 1 \in i..Len(dir)
    BY <1>1
  <2>2. IndexAfter(dir)[i] = IndexAfter(dir)[i - 1] + 1
    BY <1>1, IndexStep DEF NextIndex
  <2>3. IndexAfter(dir)[i] <= IndexAfter(dir)[j - 1]
    BY <2>1, IndexRises
  <2>4. IndexAfter(dir)[i - 1] \in Nat /\ IndexAfter(dir)[j - 1] \in Nat
    BY <2>1, IndexCounts
  <2> QED
    BY <2>2, <2>3, <2>4
<1> QED
  BY <1>1

(* The files with their indices. *)
LEMMA FilesByIndex ==
  ASSUME NEW dir \in Seq(DirEntries)
  PROVE  /\ Files(dir) = {<<IndexAfter(dir)[k - 1], dir[k]>> : k \in {k \in 1..Len(dir) : Opened(dir[k])}}
         /\ \A f \in Files(dir) : f[1] \in Nat /\ f[2] \in DirEntries
         /\ \A f, g \in Files(dir) : f[1] = g[1] => f = g
<1>1. Len(dir) \in Nat
  OBVIOUS
<1>2. ASSUME NEW k \in 1..Len(dir)
      PROVE  IndexAfter(dir)[k - 1] = Cardinality({j \in 1..(k - 1) : Opened(dir[j])})
  <2>1. k - 1 \in 0..Len(dir) /\ (k - 1) + 1 = k
    OBVIOUS
  <2>2. IndexAfter(dir)[k - 1] = Cardinality(Before(dir, k))
    BY <1>1, <2>1, IndexCounts
  <2> QED
    BY <2>2 DEF Before
<1>3. Files(dir) = {<<IndexAfter(dir)[k - 1], dir[k]>> : k \in {k \in 1..Len(dir) : Opened(dir[k])}}
  <2>1. Files(dir) \subseteq {<<IndexAfter(dir)[k - 1], dir[k]>> : k \in {k \in 1..Len(dir) : Opened(dir[k])}}
    BY <1>2 DEF Files
  <2>2. {<<IndexAfter(dir)[k - 1], dir[k]>> : k \in {k \in 1..Len(dir) : Opened(dir[k])}} \subseteq Files(dir)
    BY <1>2 DEF Files
  <2> QED
    BY <2>1, <2>2
<1>4. ASSUME NEW f \in Files(dir)
      PROVE  f[1] \in Nat /\ f[2] \in DirEntries
  <2>1. PICK k \in 1..Len(dir) : f = <<IndexAfter(dir)[k - 1], dir[k]>>
    BY <1>3
  <2>2. k - 1 \in 0..Len(dir) /\ dir[k] \in DirEntries
    OBVIOUS
  <2>3. IndexAfter(dir)[k - 1] \in Nat
    BY <1>1, <2>2, IndexCounts
  <2> QED
    BY <2>1, <2>2, <2>3
<1>5. ASSUME NEW f \in Files(dir), NEW g \in Files(dir), f[1] = g[1]
      PROVE  f = g
  <2>1. PICK k \in 1..Len(dir) : Opened(dir[k]) /\ f = <<IndexAfter(dir)[k - 1], dir[k]>>
    BY <1>3
  <2>2. PICK l \in 1..Len(dir) : Opened(dir[l]) /\ g = <<IndexAfter(dir)[l - 1], dir[l]>>
    BY <1>3
  <2>3. k = l
    BY <1>1, <1>5, <2>1, <2>2, IndexDistinct
  <2> QED
    BY <2>1, <2>2, <2>3
<1> QED
  BY <1>3, <1>4, <1>5

(* What a slot has when the files are those of the set.                     *)
SlotList(files, s) ==
    LET here == {f \in files : f[1] = s}
    IN  IF here = {} THEN NoList
        ELSE [stations |-> here, rows |-> (CHOOSE f \in here : TRUE)[2].rows]

(* A slot has the list of the file that many files are before.              *)
LEMMA SlotOfFile ==
  ASSUME NEW dir \in Seq(DirEntries), NEW s \in 0..(Len(dir) - 1)
  PROVE  FileLists(dir)[s] = SlotList(Files(dir), s)
<1>1. Len(dir) \in Nat
  OBVIOUS
<1>2. Files(dir) = {<<IndexAfter(dir)[k - 1], dir[k]>> : k \in {k \in 1..Len(dir) : Opened(dir[k])}}
  BY FilesByIndex
<1> DEFINE here == {f \in Files(dir) : f[1] = s}
<1>3. here = {<<s, dir[k]>> : k \in LoadedInto(dir, s)}
  <2>1. ASSUME NEW f \in here
        PROVE  \E k \in LoadedInto(dir, s) : f = <<s, dir[k]>>
    <3>1. PICK k \in {k \in 1..Len(dir) : Opened(dir[k])} : f = <<IndexAfter(dir)[k - 1], dir[k]>>
      BY <1>2
    <3>2. f[1] = IndexAfter(dir)[k - 1] /\ f[1] = s
      BY <3>1
    <3>3. k \in LoadedInto(dir, s)
      BY <3>1, <3>2 DEF LoadedInto
    <3> QED
      BY <3>1, <3>2, <3>3
  <2>2. ASSUME NEW k \in LoadedInto(dir, s)
        PROVE  <<s, dir[k]>> \in here
    <3>1. k \in 1..Len(dir) /\ Opened(dir[k]) /\ IndexAfter(dir)[k - 1] = s
      BY DEF LoadedInto
    <3>2. <<s, dir[k]>> \in Files(dir)
      BY <1>2, <3>1
    <3> QED
      BY <3>2
  <2> HIDE DEF here
  <2> QED
    BY <2>1, <2>2
<1>4. SlotList(Files(dir), s) =
         IF here = {} THEN NoList
         ELSE [stations |-> here, rows |-> (CHOOSE f \in here : TRUE)[2].rows]
  BY DEF SlotList
<1> HIDE DEF here
<1>5. CASE LoadedInto(dir, s) = {}
  <2>1. here = {}
    BY <1>3, <1>5
  <2>2. FileLists(dir)[s] = NoList
    BY <1>5 DEF FileLists
  <2> QED
    BY <1>4, <2>1, <2>2
<1>6. CASE LoadedInto(dir, s) # {}
  <2> DEFINE k == CHOOSE k \in LoadedInto(dir, s) : TRUE
  <2>1. k \in LoadedInto(dir, s)
    BY <1>6
  <2>2. FileLists(dir)[s] = [stations |-> {<<s, dir[k]>>}, rows |-> dir[k].rows]
    BY <1>6 DEF FileLists
  <2> HIDE DEF k
  <2>3. \A l \in LoadedInto(dir, s) : l = k
    <3>1. ASSUME NEW l \in LoadedInto(dir, s)
          PROVE  l = k
      <4>1. /\ k \in 1..Len(dir) /\ Opened(dir[k]) /\ IndexAfter(dir)[k - 1] = s
            /\ l \in 1..Len(dir) /\ Opened(dir[l]) /\ IndexAfter(dir)[l - 1] = s
        BY <2>1 DEF LoadedInto
      <4> QED
        BY <1>1, <4>1, IndexDistinct
    <3> QED
      BY <3>1
  <2>4. here = {<<s, dir[k]>>}
    BY <1>3, <2>1, <2>3
  <2>5. (CHOOSE f \in here : TRUE) = <<s, dir[k]>>
    BY <2>4
  <2>6. here # {}
    BY <2>4
  <2> DEFINE e == dir[k]
             c == CHOOSE f \in here : TRUE
  <2> HIDE DEF e
  <2>7. (CHOOSE f \in here : TRUE)[2].rows = e.rows
    <3>1. c = <<s, e>>
      BY <2>5 DEF e
    <3> HIDE DEF c
    <3>2. c[2] = e
      BY <3>1
    <3>3. c[2].rows = e.rows
      BY <3>2
    <3> QED
      BY <3>3 DEF c
  <2>8. SlotList(Files(dir), s) = [stations |-> {<<s, e>>}, rows |-> e.rows]
    BY <1>4, <2>4, <2>6, <2>7 DEF e
  <2> QED
    BY <2>2, <2>8 DEF e
<1> QED
  BY <1>5, <1>6

-----------------------------------------------------------------------------
(* The arguments. *)

LEMMA PathFacts ==
  ASSUME NEW a \in Arguments, a.kind = "path", NEW p \in Proxies
  PROVE  /\ a.dir[p] \in Seq(DirEntries)
         /\ Len(a.dir[p]) \in Nat /\ Len(a.dir[p]) >= 2
<1>1. /\ a.dir \in [Proxies -> Seq(DirEntries)]
      /\ \A q \in Proxies : {".", ".."} \subseteq {a.dir[q][k].name : k \in 1..Len(a.dir[q])}
  BY ArgumentsAssumption DEF DirEntries
<1>2. a.dir[p] \in Seq(DirEntries)
  BY <1>1
<1>3. Len(a.dir[p]) \in Nat
  BY <1>2
<1>4. PICK k, l \in 1..Len(a.dir[p]) : a.dir[p][k].name = "." /\ a.dir[p][l].name = ".."
  BY <1>1
<1>5. k # l
  BY <1>4
<1>6. Len(a.dir[p]) >= 2
  BY <1>3, <1>5
<1> QED
  BY <1>2, <1>3, <1>6

LEMMA ListFacts ==
  ASSUME NEW a \in Arguments, a.kind = "list", Accepted(a)
  PROVE  a.fields[1] \in Nat /\ \A s \in 0..(a.fields[1] - 1) : a.fields[s + 2] \in Nat
<1>1. /\ a.fields \in Seq(Int) /\ a.fields # <<>>
      /\ \A k \in 2..Len(a.fields) : a.fields[k] >= 0
  BY ArgumentsAssumption
<1> DEFINE n == Len(a.fields)
           to == IF a.fields[1] < n THEN a.fields[1] + 1 ELSE n
           sizes == SubSeq(a.fields, 2, to)
<1>2. n \in Nat /\ n >= 1 /\ a.fields[1] \in Int
  BY <1>1
<1>3. Len(sizes) = a.fields[1]
  BY DEF Accepted, Sizes
<1>4. to \in Int /\ to <= n
  BY <1>2
<1>5. a.fields[1] \in Nat
  <2>1. CASE to < 2
    <3>1. Len(sizes) = 0
      BY <2>1, <1>1, <1>2, <1>4, SubSeqProperties
    <3> HIDE DEF sizes
    <3> QED
      BY <1>3, <3>1
  <2>2. CASE to >= 2
    BY <1>2, <2>2
  <2> QED
    BY <1>4, <2>1, <2>2
<1>6. ASSUME NEW s \in 0..(a.fields[1] - 1)
      PROVE  a.fields[s + 2] \in Nat
  <2>1. to >= 2
    <3> SUFFICES ASSUME to < 2
                 PROVE  FALSE
      BY <1>4
    <3>1. Len(sizes) = 0
      BY <1>1, <1>2, <1>4, SubSeqProperties
    <3> QED
      BY <1>3, <1>5, <3>1
  <2>2. Len(sizes) = to - 1
    BY <2>1, <1>1, <1>2, <1>4, SubSeqProperties
  <2>3. s + 2 \in 2..n
    BY <1>2, <1>3, <1>4, <1>5, <2>2
  <2>4. a.fields[s + 2] \in Int /\ a.fields[s + 2] >= 0
    BY <1>1, <2>3
  <2> QED
    BY <2>4
<1> QED
  BY <1>5, <1>6

-----------------------------------------------------------------------------
(* The lists of every round, as p should have them. *)

Lists == [stations : SUBSET (Nat \cup (Nat \X DirEntries)), rows : Nat]
Level == Nat \X [Nat -> Lists]

FirstLists(a, p) ==
    [s \in Nat |->
        IF s >= Stations(a) THEN NoList
        ELSE IF a.kind = "path" THEN FileLists(a.dir[p])[s]
        ELSE [stations |-> {s},
              rows |-> IF a.kind = "none" THEN DefaultSize ELSE a.fields[s + 2]]]

NextLists(lists, n) ==
    [s \in Nat |-> IF 2 * s + 1 < n THEN Merged(lists[2 * s], lists[2 * s + 1])
                   ELSE lists[2 * s]]

LevelStep == [q \in Nat \X Level |-> <<Remaining(q[2][1]), NextLists(q[2][2], q[2][1])>>]

Levels(a, p) == CHOOSE f : Follows(f, Level, <<Stations(a), FirstLists(a, p)>>, LevelStep)

StationNames(a, p) ==
    IF a.kind = "path" THEN FirstFiles(a.dir[p]) ELSE 0..(Stations(a) - 1)

LEMMA RemainingFacts ==
  ASSUME NEW n \in Nat
  PROVE  /\ Remaining(n) \in Nat /\ 2 * Remaining(n) >= n /\ 2 * Remaining(n) <= n + 1
         /\ n >= 2 => Remaining(n) < n
<1>1. n \in Int /\ 2 \in Nat \ {0} /\ n \div 2 \in Nat
  OBVIOUS
<1>2. n % 2 \in 0..(2 - 1) /\ n = (n \div 2) * 2 + (n % 2)
  BY <1>1, Division
<1> DEFINE q == n \div 2
           r == n % 2
<1>3. q \in Nat /\ r \in 0..1 /\ n = q * 2 + r
  BY <1>1, <1>2
<1>4. Remaining(n) = q + r
  BY DEF Remaining
<1> HIDE DEF q, r
<1> QED
  BY <1>3, <1>4

(* The first lists of a directory are those of its first two files. *)
LEMMA FirstOfPath ==
  ASSUME NEW a \in Arguments, NEW p \in Proxies, a.kind = "path"
  PROVE  /\ \A s \in 0..1 : /\ s \in 0..(Len(a.dir[p]) - 1)
                            /\ FirstLists(a, p)[s] \in Lists
                            /\ FirstLists(a, p)[s] = FileLists(a.dir[p])[s]
                            /\ FirstLists(a, p)[s] = SlotList(FirstFiles(a.dir[p]), s)
         /\ FirstLists(a, p)[0].stations \cup FirstLists(a, p)[1].stations = StationNames(a, p)
<1> DEFINE files == Files(a.dir[p])
           first == FirstFiles(a.dir[p])
           Those(s) == {f \in first : f[1] = s}
<1>1. Stations(a) = 2
  BY DEF Stations
<1>2. a.dir[p] \in Seq(DirEntries) /\ Len(a.dir[p]) \in Nat /\ Len(a.dir[p]) >= 2
  BY PathFacts
<1>3. /\ \A f \in files : f[1] \in Nat /\ f[2] \in DirEntries /\ f = <<f[1], f[2]>>
      /\ \A f, g \in files : f[1] = g[1] => f = g
  <2>1. /\ \A f \in files : f[1] \in Nat /\ f[2] \in DirEntries
        /\ \A f, g \in files : f[1] = g[1] => f = g
    BY <1>2, FilesByIndex
  <2>2. files = {<<IndexAfter(a.dir[p])[k - 1], a.dir[p][k]>> :
                    k \in {k \in 1..Len(a.dir[p]) : Opened(a.dir[p][k])}}
    BY <1>2, FilesByIndex
  <2>3. \A f \in files : f = <<f[1], f[2]>>
    BY <2>2
  <2> QED
    BY <2>1, <2>3
<1>4. first = {f \in files : f[1] < 2}
  BY DEF FirstFiles
<1> HIDE DEF files, first
<1>5. ASSUME NEW s \in 0..1
      PROVE  /\ s \in 0..(Len(a.dir[p]) - 1)
             /\ FirstLists(a, p)[s] = FileLists(a.dir[p])[s]
             /\ FirstLists(a, p)[s] = SlotList(first, s)
  <2>1. s \in Nat /\ ~(s >= 2) /\ s \in 0..(Len(a.dir[p]) - 1)
    BY <1>2
  <2>2. FirstLists(a, p)[s] = FileLists(a.dir[p])[s]
    BY <1>1, <2>1 DEF FirstLists
  <2>3. FileLists(a.dir[p])[s] = SlotList(files, s)
    BY <1>2, <2>1, SlotOfFile DEF files
  <2>4. {f \in files : f[1] = s} = {f \in first : f[1] = s}
    BY <1>4, <2>1
  <2>5. SlotList(files, s) = SlotList(first, s)
    BY <2>4 DEF SlotList
  <2> QED
    BY <2>1, <2>2, <2>3, <2>5
<1>6. ASSUME NEW s \in 0..1
      PROVE  FirstLists(a, p)[s] \in Lists /\ FirstLists(a, p)[s].stations = Those(s)
  <2>1. FirstLists(a, p)[s] =
            IF Those(s) = {} THEN NoList
            ELSE [stations |-> Those(s), rows |-> (CHOOSE f \in Those(s) : TRUE)[2].rows]
    BY <1>5 DEF SlotList
  <2>2. \A f \in Those(s) : f \in Nat \X DirEntries /\ f[2].rows \in Nat
    <3>1. ASSUME NEW f \in Those(s)
          PROVE  f \in Nat \X DirEntries /\ f[2].rows \in Nat
      <4>1. f \in files
        BY <1>4
      <4>2. f[1] \in Nat /\ f[2] \in DirEntries /\ f = <<f[1], f[2]>>
        BY <1>3, <4>1
      <4>3. \A e \in DirEntries : e.rows \in Nat
        BY DEF DirEntries
      <4> QED
        BY <4>2, <4>3
    <3> QED
      BY <3>1
  <2> DEFINE here == Those(s)
  <2> HIDE DEF here
  <2>3. CASE here = {}
    <3>1. FirstLists(a, p)[s] = NoList
      BY <2>1, <2>3 DEF here
    <3>2. NoList \in Lists /\ NoList.stations = {}
      BY DEF NoList, Lists
    <3> QED
      BY <2>3, <3>1, <3>2 DEF here
  <2>4. CASE here # {}
    <3> DEFINE r == (CHOOSE f \in here : TRUE)[2].rows
    <3>1. (CHOOSE f \in here : TRUE) \in here
      BY <2>4
    <3>2. r \in Nat /\ here \subseteq Nat \X DirEntries
      BY <2>2, <3>1 DEF here
    <3>3. FirstLists(a, p)[s] = [stations |-> here, rows |-> r]
      BY <2>1, <2>4 DEF here
    <3> HIDE DEF r
    <3>4. FirstLists(a, p)[s] \in Lists /\ FirstLists(a, p)[s].stations = here
      BY <3>2, <3>3 DEF Lists
    <3> QED
      BY <3>4 DEF here
  <2> QED
    BY <2>3, <2>4
<1>7. FirstLists(a, p)[0].stations \cup FirstLists(a, p)[1].stations = StationNames(a, p)
  <2>1. StationNames(a, p) = first
    BY DEF StationNames, first
  <2>2. \A f \in first : f[1] = 0 \/ f[1] = 1
    BY <1>3, <1>4
  <2>3. first = Those(0) \cup Those(1)
    BY <2>2
  <2> QED
    BY <1>6, <2>1, <2>3
<1> HIDE DEF Those
<1> QED
  BY <1>5, <1>6, <1>7 DEF first

LEMMA FirstOfNumbers ==
  ASSUME NEW a \in Arguments, NEW p \in Proxies, Accepted(a), a.kind # "path"
  PROVE  /\ Stations(a) \in Nat
         /\ \A s \in 0..(Stations(a) - 1) :
               /\ FirstLists(a, p)[s] \in Lists
               /\ FirstLists(a, p)[s].stations = {s}
               /\ FirstLists(a, p)[s].rows = IF a.kind = "none" THEN DefaultSize
                                          ELSE a.fields[s + 2]
<1>1. a.kind \in {"none", "list"}
  BY ArgumentsAssumption
<1>2. Stations(a) \in Nat
  BY <1>1, ListFacts, DefaultAssumption DEF Stations
<1>3. ASSUME NEW s \in 0..(Stations(a) - 1)
      PROVE  /\ FirstLists(a, p)[s] = [stations |-> {s},
                                    rows |-> IF a.kind = "none" THEN DefaultSize
                                             ELSE a.fields[s + 2]]
             /\ (IF a.kind = "none" THEN DefaultSize ELSE a.fields[s + 2]) \in Nat
  <2>1. s \in Nat /\ ~(s >= Stations(a))
    BY <1>2
  <2>2. CASE a.kind = "none"
    BY <2>1, <2>2, DefaultAssumption DEF FirstLists
  <2>3. CASE a.kind = "list"
    <3>1. s \in 0..(a.fields[1] - 1)
      BY <2>3 DEF Stations
    <3>2. a.fields[s + 2] \in Nat
      BY <2>3, <3>1, ListFacts
    <3> QED
      BY <2>1, <2>3, <3>2 DEF FirstLists
  <2> QED
    BY <1>1, <2>2, <2>3
<1>4. ASSUME NEW s \in 0..(Stations(a) - 1)
      PROVE  /\ FirstLists(a, p)[s] \in Lists
             /\ FirstLists(a, p)[s].stations = {s}
             /\ FirstLists(a, p)[s].rows = IF a.kind = "none" THEN DefaultSize
                                        ELSE a.fields[s + 2]
  <2>1. s \in Nat
    BY <1>2
  <2> DEFINE r == IF a.kind = "none" THEN DefaultSize ELSE a.fields[s + 2]
  <2>2. FirstLists(a, p)[s] = [stations |-> {s}, rows |-> r] /\ r \in Nat
    BY <1>3
  <2> HIDE DEF r
  <2>3. /\ FirstLists(a, p)[s] \in Lists /\ FirstLists(a, p)[s].stations = {s}
        /\ FirstLists(a, p)[s].rows = r
    BY <2>1, <2>2 DEF Lists
  <2> QED
    BY <2>3 DEF r
<1> QED
  BY <1>2, <1>4

LEMMA FirstTyped ==
  ASSUME NEW a \in Arguments, NEW p \in Proxies, Accepted(a)
  PROVE  /\ Stations(a) \in Nat
         /\ FirstLists(a, p) \in [Nat -> Lists]
         /\ UNION {FirstLists(a, p)[s].stations : s \in 0..(Stations(a) - 1)} = StationNames(a, p)
<1>1. Stations(a) \in Nat
  <2>1. CASE a.kind = "path"
    BY <2>1 DEF Stations
  <2>2. CASE a.kind # "path"
    BY <2>2, FirstOfNumbers
  <2> QED
    BY <2>1, <2>2
<1>2. ASSUME NEW s \in Nat
      PROVE  FirstLists(a, p)[s] \in Lists
  <2>1. CASE s >= Stations(a)
    BY <2>1 DEF FirstLists, NoList, Lists
  <2>2. CASE s < Stations(a) /\ a.kind = "path"
    <3>1. s \in 0..1
      BY <2>2 DEF Stations
    <3> QED
      BY <2>2, <3>1, FirstOfPath
  <2>3. CASE s < Stations(a) /\ a.kind # "path"
    <3>1. s \in 0..(Stations(a) - 1)
      BY <1>1, <2>3
    <3> QED
      BY <2>3, <3>1, FirstOfNumbers
  <2> QED
    BY <1>1, <2>1, <2>2, <2>3
<1>3. FirstLists(a, p) \in [Nat -> Lists]
  <2>1. FirstLists(a, p) = [s \in Nat |-> FirstLists(a, p)[s]]
    BY DEF FirstLists
  <2> QED
    BY <1>2, <2>1
<1>4. UNION {FirstLists(a, p)[s].stations : s \in 0..(Stations(a) - 1)} = StationNames(a, p)
  <2>1. CASE a.kind = "path"
    <3>1. 0..(Stations(a) - 1) = {0, 1}
      BY <2>1 DEF Stations
    <3>2. UNION {FirstLists(a, p)[s].stations : s \in {0, 1}}
              = FirstLists(a, p)[0].stations \cup FirstLists(a, p)[1].stations
      OBVIOUS
    <3> QED
      BY <2>1, <3>1, <3>2, FirstOfPath
  <2>2. CASE a.kind # "path"
    <3>1. \A s \in 0..(Stations(a) - 1) : FirstLists(a, p)[s].stations = {s}
      BY <2>2, FirstOfNumbers
    <3>2. UNION {FirstLists(a, p)[s].stations : s \in 0..(Stations(a) - 1)} = 0..(Stations(a) - 1)
      BY <3>1
    <3> QED
      BY <2>2, <3>2 DEF StationNames
  <2> QED
    BY <2>1, <2>2
<1> QED
  BY <1>1, <1>3, <1>4

LEMMA LevelsFollow ==
  ASSUME NEW a \in Arguments, NEW p \in Proxies, Accepted(a)
  PROVE  /\ \A g \in Nat : Levels(a, p)[g][1] \in Nat /\ Levels(a, p)[g][2] \in [Nat -> Lists]
         /\ Levels(a, p)[0][1] = Stations(a) /\ Levels(a, p)[0][2] = FirstLists(a, p)
         /\ \A g \in Nat :
               /\ Levels(a, p)[g + 1][1] = Remaining(Levels(a, p)[g][1])
               /\ Levels(a, p)[g + 1][2] = NextLists(Levels(a, p)[g][2], Levels(a, p)[g][1])
<1> DEFINE first == <<Stations(a), FirstLists(a, p)>>
           Has(f) == Follows(f, Level, first, LevelStep)
<1>1. first \in Level
  BY FirstTyped DEF Level
<1>2. ASSUME NEW n \in Nat, NEW lists \in [Nat -> Lists]
      PROVE  <<Remaining(n), NextLists(lists, n)>> \in Level
  <2>1. Remaining(n) \in Nat
    BY RemainingFacts
  <2>2. ASSUME NEW s \in Nat
        PROVE  (IF 2 * s + 1 < n THEN Merged(lists[2 * s], lists[2 * s + 1])
                ELSE lists[2 * s]) \in Lists
    <3>1. 2 * s \in Nat /\ 2 * s + 1 \in Nat
      OBVIOUS
    <3>2. lists[2 * s] \in Lists /\ lists[2 * s + 1] \in Lists
      BY <3>1
    <3>3. Merged(lists[2 * s], lists[2 * s + 1]) \in Lists
      BY <3>2 DEF Merged, Lists
    <3> QED
      BY <3>2, <3>3
  <2>3. NextLists(lists, n) \in [Nat -> Lists]
    BY <2>2 DEF NextLists
  <2> QED
    BY <2>1, <2>3 DEF Level
<1>3. IsStep(LevelStep, Level)
  <2>1. ASSUME NEW q \in Nat \X Level
        PROVE  <<Remaining(q[2][1]), NextLists(q[2][2], q[2][1])>> \in Level
    <3>1. q[2][1] \in Nat /\ q[2][2] \in [Nat -> Lists]
      BY DEF Level
    <3> QED
      BY <1>2, <3>1
  <2> QED
    BY <2>1 DEF IsStep, LevelStep
<1>4. Has(Levels(a, p))
  <2>1. \E f : Has(f)
    <3> HIDE DEF first
    <3> QED
      BY <1>1, <1>3, Recursion
  <2>2. Levels(a, p) = CHOOSE f : Has(f)
    BY DEF Levels
  <2> HIDE DEF Has
  <2> QED
    BY <2>1, <2>2
<1>5. /\ Levels(a, p) \in [Nat -> Level]
      /\ Levels(a, p)[0] = first
      /\ \A g \in Nat : Levels(a, p)[g + 1] = LevelStep[<<g, Levels(a, p)[g]>>]
  BY <1>4 DEF Follows
<1>6. ASSUME NEW g \in Nat
      PROVE  /\ Levels(a, p)[g][1] \in Nat /\ Levels(a, p)[g][2] \in [Nat -> Lists]
             /\ Levels(a, p)[g + 1][1] = Remaining(Levels(a, p)[g][1])
             /\ Levels(a, p)[g + 1][2] = NextLists(Levels(a, p)[g][2], Levels(a, p)[g][1])
  <2> DEFINE l == Levels(a, p)[g]
  <2>1. l \in Level
    BY <1>5
  <2>2. Levels(a, p)[g + 1] = LevelStep[<<g, l>>]
    BY <1>5
  <2> HIDE DEF l
  <2>3. <<g, l>> \in Nat \X Level /\ <<g, l>>[2] = l
    BY <2>1
  <2>4. LevelStep[<<g, l>>] = <<Remaining(l[1]), NextLists(l[2], l[1])>>
    BY <2>3 DEF LevelStep
  <2>5. Levels(a, p)[g + 1][1] = Remaining(l[1]) /\ Levels(a, p)[g + 1][2] = NextLists(l[2], l[1])
    BY <2>2, <2>4
  <2>6. l[1] \in Nat /\ l[2] \in [Nat -> Lists]
    BY <2>1 DEF Level
  <2> QED
    BY <2>5, <2>6 DEF l
<1> QED
  BY <1>5, <1>6

(* The proxies have equally many lists in every round, and the same ones if *)
(* they begin with the same.                                                *)
LEMMA LevelsAgree ==
  ASSUME NEW a \in Arguments, Accepted(a)
  PROVE  /\ \A g \in Nat : Levels(a, P1)[g][1] = Levels(a, P2)[g][1]
         /\ OneOrder(a) => Levels(a, P1) = Levels(a, P2)
<1>1. P1 \in Proxies /\ P2 \in Proxies
  BY DEF Proxies
<1>2. \A g \in Nat : Levels(a, P1)[g][1] = Levels(a, P2)[g][1]
  <2> DEFINE n1 == [g \in Nat |-> Levels(a, P1)[g][1]]
             n2 == [g \in Nat |-> Levels(a, P2)[g][1]]
             S == {g \in Nat : n1[g] = n2[g]}
  <2>1. n1[0] = Stations(a) /\ \A g \in Nat : n1[g + 1] = Remaining(n1[g])
    BY <1>1, LevelsFollow
  <2>2. n2[0] = Stations(a) /\ \A g \in Nat : n2[g + 1] = Remaining(n2[g])
    BY <1>1, LevelsFollow
  <2> HIDE DEF n1, n2
  <2>3. 0 \in S
    BY <2>1, <2>2
  <2>4. ASSUME NEW g \in Nat, g \in S
        PROVE  g + 1 \in S
    BY <2>1, <2>2, <2>4
  <2>5. Nat \subseteq S
    <3> HIDE DEF S
    <3> QED
      BY <2>3, <2>4, SetInduction
  <2>6. \A g \in Nat : n1[g] = n2[g]
    BY <2>5
  <2> QED
    BY <2>6 DEF n1, n2
<1>3. ASSUME OneOrder(a)
      PROVE  Levels(a, P1) = Levels(a, P2)
  <2>1. ASSUME NEW s \in Nat
        PROVE  FirstLists(a, P1)[s] = FirstLists(a, P2)[s]
    <3>1. CASE a.kind = "path" /\ s \in 0..1
      <4>1. FirstFiles(a.dir[P1]) = FirstFiles(a.dir[P2])
        BY <1>3, <3>1 DEF OneOrder
      <4>2. /\ FirstLists(a, P1)[s] = SlotList(FirstFiles(a.dir[P1]), s)
            /\ FirstLists(a, P2)[s] = SlotList(FirstFiles(a.dir[P2]), s)
        BY <1>1, <3>1, FirstOfPath
      <4> QED
        BY <4>1, <4>2
    <3>2. CASE a.kind = "path" /\ s \notin 0..1
      <4>1. s >= Stations(a)
        BY <3>2 DEF Stations
      <4> QED
        BY <4>1 DEF FirstLists
    <3>3. CASE a.kind # "path"
      BY <3>3 DEF FirstLists
    <3> QED
      BY <3>1, <3>2, <3>3
  <2>2. FirstLists(a, P1) = FirstLists(a, P2)
    <3>1. FirstLists(a, P1) \in [Nat -> Lists] /\ FirstLists(a, P2) \in [Nat -> Lists]
      BY <1>1, FirstTyped
    <3> QED
      BY <2>1, <3>1
  <2> QED
    BY <2>2 DEF Levels
<1> QED
  BY <1>2, <1>3

(* No station is lost by a round and none is added. *)
LEMMA RoundKeepsStations ==
  ASSUME NEW lists \in [Nat -> Lists], NEW n \in Nat
  PROVE  UNION {NextLists(lists, n)[s].stations : s \in 0..(Remaining(n) - 1)}
            = UNION {lists[s].stations : s \in 0..(n - 1)}
<1> DEFINE m == Remaining(n)
           next == NextLists(lists, n)
<1>1. m \in Nat /\ 2 * m >= n /\ 2 * m <= n + 1
  BY RemainingFacts
<1>2. \A s \in Nat : next[s] = IF 2 * s + 1 < n THEN Merged(lists[2 * s], lists[2 * s + 1])
                               ELSE lists[2 * s]
  BY DEF NextLists
<1> HIDE DEF m, next
<1>3. ASSUME NEW s \in 0..(m - 1)
      PROVE  /\ 2 * s \in 0..(n - 1)
             /\ \/ next[s].stations = lists[2 * s].stations
                \/ /\ 2 * s + 1 \in 0..(n - 1)
                   /\ next[s].stations = lists[2 * s].stations \cup lists[2 * s + 1].stations
  <2>1. s \in Nat /\ 2 * s \in 0..(n - 1)
    BY <1>1
  <2>2. CASE 2 * s + 1 < n
    <3>1. 2 * s + 1 \in 0..(n - 1)
      BY <2>1, <2>2
    <3>2. next[s] = Merged(lists[2 * s], lists[2 * s + 1])
      BY <1>2, <2>1, <2>2
    <3> QED
      BY <2>1, <3>1, <3>2 DEF Merged
  <2>3. CASE ~(2 * s + 1 < n)
    BY <1>2, <2>1, <2>3
  <2> QED
    BY <2>2, <2>3
<1>4. ASSUME NEW s \in 0..(n - 1)
      PROVE  \E t \in 0..(m - 1) : lists[s].stations \subseteq next[t].stations
  <2>1. PICK t \in Nat : s = 2 * t \/ s = 2 * t + 1
    <3>1. s \in Int /\ 2 \in Nat \ {0}
      OBVIOUS
    <3>2. s \div 2 \in Int /\ s % 2 \in 0..(2 - 1) /\ s = (s \div 2) * 2 + (s % 2)
      BY <3>1, Division
    <3>3. PICK q \in Int, r \in 0..1 : s = q * 2 + r
      BY <3>2
    <3>4. q \in Nat /\ (s = 2 * q \/ s = 2 * q + 1)
      BY <3>3
    <3> QED
      BY <3>4
  <2>2. t \in 0..(m - 1)
    BY <1>1, <2>1
  <2>3. CASE 2 * t + 1 < n
    <3>1. next[t] = Merged(lists[2 * t], lists[2 * t + 1])
      BY <1>2, <2>3
    <3> QED
      BY <2>1, <2>2, <3>1 DEF Merged
  <2>4. CASE ~(2 * t + 1 < n)
    <3>1. next[t] = lists[2 * t] /\ s = 2 * t
      BY <1>2, <2>1, <2>4
    <3> QED
      BY <2>2, <3>1
  <2> QED
    BY <2>3, <2>4
<1>5. UNION {next[s].stations : s \in 0..(m - 1)} \subseteq UNION {lists[s].stations : s \in 0..(n - 1)}
  <2> SUFFICES ASSUME NEW s \in 0..(m - 1), NEW x \in next[s].stations
               PROVE  \E t \in 0..(n - 1) : x \in lists[t].stations
    OBVIOUS
  <2> QED
    BY <1>3
<1>6. UNION {lists[s].stations : s \in 0..(n - 1)} \subseteq UNION {next[s].stations : s \in 0..(m - 1)}
  <2> SUFFICES ASSUME NEW s \in 0..(n - 1), NEW x \in lists[s].stations
               PROVE  \E t \in 0..(m - 1) : x \in next[t].stations
    OBVIOUS
  <2> QED
    BY <1>4
<1>7. UNION {next[s].stations : s \in 0..(m - 1)} = UNION {lists[s].stations : s \in 0..(n - 1)}
  BY <1>5, <1>6
<1> QED
  BY <1>7 DEF m, next

LEMMA LevelStations ==
  ASSUME NEW a \in Arguments, NEW p \in Proxies, Accepted(a)
  PROVE  \A g \in Nat :
            UNION {Levels(a, p)[g][2][s].stations : s \in 0..(Levels(a, p)[g][1] - 1)} = StationNames(a, p)
<1> DEFINE Whole(g) ==
             UNION {Levels(a, p)[g][2][s].stations : s \in 0..(Levels(a, p)[g][1] - 1)} = StationNames(a, p)
           S == {g \in Nat : Whole(g)}
<1>1. 0 \in S
  <2>1. Whole(0)
    BY LevelsFollow, FirstTyped
  <2> QED
    BY <2>1
<1>2. ASSUME NEW g \in Nat, g \in S
      PROVE  g + 1 \in S
  <2>1. Whole(g)
    BY <1>2
  <2>2. Levels(a, p)[g][1] \in Nat /\ Levels(a, p)[g][2] \in [Nat -> Lists]
    BY LevelsFollow
  <2>3. /\ Levels(a, p)[g + 1][1] = Remaining(Levels(a, p)[g][1])
        /\ Levels(a, p)[g + 1][2] = NextLists(Levels(a, p)[g][2], Levels(a, p)[g][1])
    BY LevelsFollow
  <2> DEFINE n == Levels(a, p)[g][1]
             lists == Levels(a, p)[g][2]
  <2>4. UNION {NextLists(lists, n)[s].stations : s \in 0..(Remaining(n) - 1)}
            = UNION {lists[s].stations : s \in 0..(n - 1)}
    <3>1. n \in Nat /\ lists \in [Nat -> Lists]
      BY <2>2
    <3> HIDE DEF n, lists
    <3> QED
      BY <3>1, RoundKeepsStations
  <2>5. Whole(g + 1)
    BY <2>1, <2>3, <2>4
  <2> QED
    BY <2>5
<1>3. Nat \subseteq S
  <2> HIDE DEF S
  <2> QED
    BY <1>1, <1>2, SetInduction
<1> QED
  BY <1>3

(* The number of lists falls as long as there are two. *)
LEMMA LevelsFall ==
  ASSUME NEW a \in Arguments, NEW p \in Proxies, Accepted(a), NEW g \in Nat
  PROVE  \A h \in Nat : h > g =>
            /\ Levels(a, p)[h][1] <= Levels(a, p)[g][1]
            /\ Levels(a, p)[g][1] >= 2 => Levels(a, p)[h][1] < Levels(a, p)[g][1]
<1> DEFINE size(h) == Levels(a, p)[h][1]
           Lower(h) == /\ size(h) <= size(g)
                       /\ size(g) >= 2 => size(h) < size(g)
           S == {h \in Nat : h > g => Lower(h)}
<1>1. 0 \in S
  OBVIOUS
<1>2. \A h \in Nat : size(h) \in Nat /\ size(h + 1) = Remaining(size(h))
  BY LevelsFollow
<1> HIDE DEF size
<1>3. ASSUME NEW h \in Nat
      PROVE  /\ size(h) \in Nat /\ size(h + 1) \in Nat
             /\ size(h + 1) <= size(h) /\ (size(h) >= 2 => size(h + 1) < size(h))
  BY <1>2, RemainingFacts
<1>4. ASSUME NEW h \in Nat, h \in S
      PROVE  h + 1 \in S
  <2>1. CASE h > g
    BY <1>3, <1>4, <2>1
  <2>2. CASE h = g
    BY <1>3, <2>2
  <2>3. CASE h < g
    BY <2>3
  <2> QED
    BY <2>1, <2>2, <2>3
<1>5. Nat \subseteq S
  <2> HIDE DEF S
  <2> QED
    BY <1>1, <1>4, SetInduction
<1>6. \A h \in Nat : h > g => Lower(h)
  BY <1>5
<1> QED
  BY <1>6 DEF size

-----------------------------------------------------------------------------
(* The invariant of the programs. *)

Stages == {"parse", "rejected", "construct", "sort", "metric", "undefined"}

LoadTypeOK ==
    /\ argument \in Arguments
    /\ stage \in [Proxies -> Stages]
    /\ nstation \in [Proxies -> Int]
    /\ left \in [Proxies -> Int]
    /\ DOMAIN c_data = Proxies

(* p has the lists of level g, and got there by rounds. *)
AtLevel(p, g) ==
    /\ left[p] = Levels(argument, p)[g][1]
    /\ \A i \in 0..(g - 1) : Levels(argument, p)[i][1] # 1
    /\ \A s \in 0..(left[p] - 1) : c_data[p][s] = Levels(argument, p)[g][2][s]

LoadInv ==
    /\ LoadTypeOK
    /\ \A p \in Proxies :
          /\ stage[p] \in {"construct", "sort", "metric"} => Accepted(argument)
          /\ stage[p] = "construct" => nstation[p] = Stations(argument)
          /\ stage[p] \in {"sort", "metric"} => \E g \in Nat : AtLevel(p, g)
          /\ stage[p] = "metric" => left[p] = 1

LEMMA StationsInt ==
  ASSUME NEW a \in Arguments
  PROVE  Stations(a) \in Int
  BY ArgumentsAssumption, DefaultAssumption DEF Stations

LEMMA LoadStays ==
  ASSUME LoadInv, UNCHANGED mainVars
  PROVE  LoadInv'
  BY DEF LoadInv, LoadTypeOK, AtLevel, mainVars

LEMMA ParseKeeps ==
  ASSUME LoadInv, NEW p \in Proxies, Parse(p)
  PROVE  LoadInv'
<1> USE DEF LoadInv, LoadTypeOK, Parse
<1>1. argument' = argument /\ c_data' = c_data /\ left' = left
  OBVIOUS
<1>2. LoadTypeOK'
  BY <1>1, StationsInt DEF Stages
<1>3. ASSUME NEW q \in Proxies, q # p
      PROVE  stage'[q] = stage[q] /\ nstation'[q] = nstation[q]
  BY <1>3
<1>4. nstation'[p] = Stations(argument) /\ stage'[p] \in {"construct", "rejected"}
      /\ (stage'[p] = "construct" => Accepted(argument))
  OBVIOUS
<1>5. ASSUME NEW q \in Proxies
      PROVE  /\ stage'[q] \in {"construct", "sort", "metric"} => Accepted(argument')
             /\ stage'[q] = "construct" => nstation'[q] = Stations(argument')
             /\ stage'[q] \in {"sort", "metric"} => \E g \in Nat : AtLevel(q, g)'
             /\ stage'[q] = "metric" => left'[q] = 1
  <2>1. CASE q = p
    BY <1>1, <1>4, <2>1
  <2>2. CASE q # p
    BY <1>1, <1>3, <2>2 DEF AtLevel
  <2> QED
    BY <2>1, <2>2
<1> QED
  BY <1>2, <1>5

LEMMA LoadKeeps ==
  ASSUME LoadInv, NEW p \in Proxies, Load(p)
  PROVE  LoadInv'
<1> USE DEF LoadInv, LoadTypeOK, Load
<1>1. argument' = argument /\ nstation' = nstation
  OBVIOUS
<1>2. LoadTypeOK'
  BY <1>1 DEF Stages
<1>3. ASSUME NEW q \in Proxies, q # p
      PROVE  stage'[q] = stage[q] /\ c_data'[q] = c_data[q] /\ left'[q] = left[q]
  BY <1>3
<1>4. /\ stage'[p] = "sort" /\ left'[p] = Stations(argument)
      /\ c_data'[p] = IF argument.kind = "path" THEN FileLists(argument.dir[p])
                                                ELSE RandomLists(p)
      /\ Accepted(argument) /\ nstation[p] = Stations(argument)
  OBVIOUS
<1>5. ASSUME NEW s \in 0..(Stations(argument) - 1)
      PROVE  c_data'[p][s] = FirstLists(argument, p)[s]
  <2>1. CASE argument.kind = "path"
    <3>1. s \in 0..1
      BY <2>1 DEF Stations
    <3> QED
      BY <1>4, <2>1, <3>1, FirstOfPath
  <2>2. CASE argument.kind # "path"
    <3>1. RandomLists(p)[s] = [stations |-> {s},
                               rows |-> IF argument.kind = "none" THEN DefaultSize
                                        ELSE argument.fields[s + 2]]
      BY <1>4 DEF RandomLists
    <3>2. Stations(argument) \in Nat
      BY <1>4, FirstTyped
    <3>3. s \in Nat /\ ~(s >= Stations(argument))
      BY <3>2
    <3>4. FirstLists(argument, p)[s] = [stations |-> {s},
                               rows |-> IF argument.kind = "none" THEN DefaultSize
                                        ELSE argument.fields[s + 2]]
      BY <2>2, <3>3 DEF FirstLists
    <3> QED
      BY <1>4, <2>2, <3>1, <3>4
  <2> QED
    BY <2>1, <2>2
<1>6. AtLevel(p, 0)'
  <2>1. Levels(argument, p)[0][1] = Stations(argument) /\ Levels(argument, p)[0][2] = FirstLists(argument, p)
    BY <1>4, LevelsFollow
  <2> QED
    BY <1>1, <1>4, <1>5, <2>1 DEF AtLevel
<1>7. ASSUME NEW q \in Proxies
      PROVE  /\ stage'[q] \in {"construct", "sort", "metric"} => Accepted(argument')
             /\ stage'[q] = "construct" => nstation'[q] = Stations(argument')
             /\ stage'[q] \in {"sort", "metric"} => \E g \in Nat : AtLevel(q, g)'
             /\ stage'[q] = "metric" => left'[q] = 1
  <2>1. CASE q = p
    BY <1>1, <1>4, <1>6, <2>1
  <2>2. CASE q # p
    BY <1>1, <1>3, <2>2 DEF AtLevel
  <2> QED
    BY <2>1, <2>2
<1> QED
  BY <1>2, <1>7

LEMMA RoundKeeps ==
  ASSUME LoadInv, NEW p \in Proxies, Round(p)
  PROVE  LoadInv'
<1> USE DEF LoadInv, LoadTypeOK
<1>1. argument' = argument /\ nstation' = nstation /\ stage[p] = "sort" /\ left[p] # 1
  BY DEF Round
<1>2. PICK g \in Nat : AtLevel(p, g)
  BY <1>1
<1>3. Accepted(argument)
  BY <1>1
<1> DEFINE n == left[p]
           level == Levels(argument, p)
<1>4. /\ n \in Nat /\ n = level[g][1]
      /\ level[g + 1][1] = Remaining(n) /\ level[g + 1][2] = NextLists(level[g][2], n)
      /\ level[g][2] \in [Nat -> Lists]
  BY <1>2, <1>3, LevelsFollow DEF AtLevel
<1>5. ASSUME NEW q \in Proxies, q # p
      PROVE  stage'[q] = stage[q] /\ c_data'[q] = c_data[q] /\ left'[q] = left[q]
  BY <1>5 DEF Round
<1>6. LoadTypeOK'
  <2>0. Remaining(n) \in Nat
    <3>1. n \in Nat
      BY <1>4
    <3> HIDE DEF n
    <3> QED
      BY <3>1, RemainingFacts
  <2>1. Remaining(left[p]) \in Int
    BY <2>0
  <2> QED
    BY <1>1, <2>1 DEF Round, Stages
<1>7. CASE Touched(n) \subseteq DOMAIN c_data[p]
  <2>1. /\ c_data'[p] = AfterRound(c_data[p], n) /\ left'[p] = Remaining(n)
        /\ stage'[p] = "sort"
    BY <1>1, <1>7 DEF Round
  <2>2. 0..(n - 1) \subseteq DOMAIN c_data[p]
    BY <1>7 DEF Touched
  <2>3. \A s \in 0..(n - 1) : c_data[p][s] = level[g][2][s]
    BY <1>2 DEF AtLevel
  <2>4. /\ Remaining(n) \in Nat /\ 2 * Remaining(n) >= n /\ 2 * Remaining(n) <= n + 1
    BY <1>4, RemainingFacts
  <2> DEFINE m == Remaining(n)
  <2> HIDE DEF m, n
  <2>5. ASSUME NEW s \in 0..(m - 1)
        PROVE  AfterRound(c_data[p], n)[s] = NextLists(level[g][2], n)[s]
    <3>1. s \in Nat /\ s < n /\ s < m /\ 2 * s \in 0..(n - 1)
      BY <1>4, <2>4 DEF m
    <3>2. s \in 0..(n - 1)
      BY <1>4, <3>1
    <3>3. AfterRound(c_data[p], n)[s] =
              IF 2 * s + 1 < n THEN Merged(c_data[p][2 * s], c_data[p][2 * s + 1])
              ELSE c_data[p][2 * s]
      BY <1>4, <2>2, <2>4, <3>1, <3>2 DEF AfterRound, m
    <3>4. NextLists(level[g][2], n)[s] =
              IF 2 * s + 1 < n THEN Merged(level[g][2][2 * s], level[g][2][2 * s + 1])
              ELSE level[g][2][2 * s]
      BY <3>1 DEF NextLists
    <3>5. 2 * s + 1 < n => 2 * s + 1 \in 0..(n - 1)
      BY <1>4, <3>1
    <3> QED
      BY <2>3, <3>1, <3>3, <3>4, <3>5
  <2>6. AtLevel(p, g + 1)'
    <3>1. \A i \in 0..((g + 1) - 1) : level[i][1] # 1
      <4>1. \A i \in 0..(g - 1) : level[i][1] # 1
        BY <1>2 DEF AtLevel
      <4>2. level[g][1] # 1
        BY <1>1, <1>4 DEF n
      <4> QED
        BY <4>1, <4>2
    <3>2. left'[p] = level[g + 1][1]
      BY <1>4, <2>1
    <3>3. \A s \in 0..(left'[p] - 1) : c_data'[p][s] = level[g + 1][2][s]
      BY <1>4, <2>1, <2>5 DEF m
    <3> QED
      BY <1>1, <3>1, <3>2, <3>3 DEF AtLevel
  <2>7. ASSUME NEW q \in Proxies
        PROVE  /\ stage'[q] \in {"construct", "sort", "metric"} => Accepted(argument')
               /\ stage'[q] = "construct" => nstation'[q] = Stations(argument')
               /\ stage'[q] \in {"sort", "metric"} => \E h \in Nat : AtLevel(q, h)'
               /\ stage'[q] = "metric" => left'[q] = 1
    <3>1. CASE q = p
      BY <1>1, <1>3, <2>1, <2>6, <3>1
    <3>2. CASE q # p
      BY <1>1, <1>5, <3>2 DEF AtLevel
    <3> QED
      BY <3>1, <3>2
  <2> QED
    BY <1>6, <2>7
<1>8. CASE ~(Touched(n) \subseteq DOMAIN c_data[p])
  <2>1. stage'[p] = "undefined"
    BY <1>8 DEF Round
  <2>2. ASSUME NEW q \in Proxies
        PROVE  /\ stage'[q] \in {"construct", "sort", "metric"} => Accepted(argument')
               /\ stage'[q] = "construct" => nstation'[q] = Stations(argument')
               /\ stage'[q] \in {"sort", "metric"} => \E h \in Nat : AtLevel(q, h)'
               /\ stage'[q] = "metric" => left'[q] = 1
    <3>1. CASE q = p
      BY <2>1, <3>1
    <3>2. CASE q # p
      BY <1>1, <1>5, <3>2 DEF AtLevel
    <3> QED
      BY <3>1, <3>2
  <2> QED
    BY <1>6, <2>2
<1> QED
  BY <1>7, <1>8

LEMMA FinishKeeps ==
  ASSUME LoadInv, NEW p \in Proxies, Finish(p)
  PROVE  LoadInv'
<1> USE DEF LoadInv, LoadTypeOK, Finish
<1>1. argument' = argument /\ nstation' = nstation /\ c_data' = c_data /\ left' = left
  OBVIOUS
<1>2. LoadTypeOK'
  BY <1>1 DEF Stages
<1>3. ASSUME NEW q \in Proxies, q # p
      PROVE  stage'[q] = stage[q]
  BY <1>3
<1>4. stage[p] = "sort" /\ stage'[p] = "metric" /\ left[p] = 1
  OBVIOUS
<1>5. ASSUME NEW q \in Proxies
      PROVE  /\ stage'[q] \in {"construct", "sort", "metric"} => Accepted(argument')
             /\ stage'[q] = "construct" => nstation'[q] = Stations(argument')
             /\ stage'[q] \in {"sort", "metric"} => \E g \in Nat : AtLevel(q, g)'
             /\ stage'[q] = "metric" => left'[q] = 1
  <2>1. CASE q = p
    BY <1>1, <1>4, <2>1 DEF AtLevel
  <2>2. CASE q # p
    BY <1>1, <1>3, <2>2 DEF AtLevel
  <2> QED
    BY <2>1, <2>2
<1> QED
  BY <1>2, <1>5

(* Proxies with equally many lists have come through the same rounds. *)
LEMMA OneRound ==
  ASSUME LoadInv, SameRound, left[P1] # 0
  PROVE  Accepted(argument) /\ \E g \in Nat : AtLevel(P1, g) /\ AtLevel(P2, g)
<1>1. P1 \in Proxies /\ P2 \in Proxies
  BY DEF Proxies
<1>2. PICK g \in Nat : AtLevel(P1, g)
  BY <1>1 DEF LoadInv, SameRound
<1>3. PICK h \in Nat : AtLevel(P2, h)
  BY <1>1 DEF LoadInv, SameRound
<1>4. Accepted(argument) /\ argument \in Arguments /\ left[P1] = left[P2]
  BY <1>1 DEF LoadInv, LoadTypeOK, SameRound
<1> DEFINE size(i) == Levels(argument, P1)[i][1]
<1>5. \A i \in Nat : size(i) = Levels(argument, P2)[i][1] /\ size(i) \in Nat
  BY <1>1, <1>4, LevelsAgree, LevelsFollow
<1>6. size(g) = left[P1] /\ \A i \in 0..(g - 1) : size(i) # 1
  BY <1>2 DEF AtLevel
<1>7. size(h) = left[P1] /\ \A i \in 0..(h - 1) : size(i) # 1
  <2>1. left[P2] = Levels(argument, P2)[h][1]
    BY <1>3 DEF AtLevel
  <2>2. ASSUME NEW i \in 0..(h - 1)
        PROVE  size(i) # 1
    <3>1. Levels(argument, P2)[i][1] # 1 /\ i \in Nat
      BY <1>3 DEF AtLevel
    <3> QED
      BY <1>5, <3>1
  <2> QED
    BY <1>4, <1>5, <2>1, <2>2
<1>8. \A i, j \in Nat : i < j /\ size(i) >= 2 => size(j) < size(i)
  BY <1>1, <1>4, LevelsFall
<1>9. g = h
  <2> HIDE DEF size
  <2>1. g < h => FALSE
    <3>1. g < h => g \in 0..(h - 1)
      OBVIOUS
    <3> QED
      BY <1>5, <1>6, <1>7, <1>8, <3>1
  <2>2. h < g => FALSE
    <3>1. h < g => h \in 0..(g - 1)
      OBVIOUS
    <3> QED
      BY <1>5, <1>6, <1>7, <1>8, <3>1
  <2> QED
    BY <2>1, <2>2
<1> QED
  BY <1>2, <1>3, <1>4, <1>9
(* All the stations a proxy named are in the lists it has. *)
LEMMA NoneLost ==
  ASSUME LoadInv, NEW p \in Proxies, stage[p] \in {"sort", "metric"}
  PROVE  UNION {c_data[p][s].stations : s \in 0..(left[p] - 1)} = StationNames(argument, p)
<1>1. PICK g \in Nat : AtLevel(p, g)
  BY DEF LoadInv
<1>2. Accepted(argument) /\ argument \in Arguments
  BY DEF LoadInv, LoadTypeOK
<1>3. UNION {Levels(argument, p)[g][2][s].stations : s \in 0..(Levels(argument, p)[g][1] - 1)}
         = StationNames(argument, p)
  BY <1>2, LevelStations
<1>4. /\ left[p] = Levels(argument, p)[g][1]
      /\ \A s \in 0..(left[p] - 1) : c_data[p][s] = Levels(argument, p)[g][2][s]
  BY <1>1 DEF AtLevel
<1>5. {c_data[p][s].stations : s \in 0..(left[p] - 1)}
         = {Levels(argument, p)[g][2][s].stations : s \in 0..(left[p] - 1)}
  BY <1>4
<1> QED
  BY <1>3, <1>4, <1>5

LEMMA AlignedExactly ==
  ASSUME LoadInv, SameRound
  PROVE  Aligned <=> OneOrder(argument)
<1>1. P1 \in Proxies /\ P2 \in Proxies
  BY DEF Proxies
<1>2. left[P1] = left[P2] /\ \A p \in Proxies : stage[p] \in {"sort", "metric"}
  BY DEF SameRound
<1>3. ASSUME OneOrder(argument)
      PROVE  Aligned
  <2> SUFFICES ASSUME NEW s \in 0..(left[P1] - 1)
               PROVE  c_data[P1][s] = c_data[P2][s]
    BY DEF Aligned
  <2>1. left[P1] # 0
    OBVIOUS
  <2>2. PICK g \in Nat : AtLevel(P1, g) /\ AtLevel(P2, g)
    BY <2>1, OneRound
  <2>3. Accepted(argument) /\ argument \in Arguments
    BY <2>1, OneRound DEF LoadInv, LoadTypeOK
  <2>4. Levels(argument, P1) = Levels(argument, P2)
    BY <1>3, <2>3, LevelsAgree
  <2>5. c_data[P1][s] = Levels(argument, P1)[g][2][s]
    BY <2>2 DEF AtLevel
  <2>6. c_data[P2][s] = Levels(argument, P2)[g][2][s]
    BY <1>2, <2>2 DEF AtLevel
  <2> QED
    BY <2>4, <2>5, <2>6
<1>4. ASSUME Aligned
      PROVE  OneOrder(argument)
  <2>1. /\ UNION {c_data[P1][s].stations : s \in 0..(left[P1] - 1)} = StationNames(argument, P1)
        /\ UNION {c_data[P2][s].stations : s \in 0..(left[P2] - 1)} = StationNames(argument, P2)
    BY <1>1, <1>2, NoneLost
  <2>2. {c_data[P1][s].stations : s \in 0..(left[P1] - 1)}
           = {c_data[P2][s].stations : s \in 0..(left[P2] - 1)}
    BY <1>2, <1>4 DEF Aligned
  <2>3. StationNames(argument, P1) = StationNames(argument, P2)
    BY <2>1, <2>2
  <2> QED
    BY <2>3 DEF StationNames, OneOrder
<1> QED
  BY <1>3, <1>4

LEMMA MergedAll ==
  ASSUME LoadInv, NEW p \in Proxies, stage[p] = "metric"
  PROVE  c_data[p][0].stations = Names(p)
<1>1. UNION {c_data[p][s].stations : s \in 0..(left[p] - 1)} = StationNames(argument, p)
  BY NoneLost
<1>2. 0..(left[p] - 1) = {0}
  BY DEF LoadInv
<1>3. UNION {c_data[p][s].stations : s \in {0}} = c_data[p][0].stations
  OBVIOUS
<1>4. Names(p) = StationNames(argument, p)
  BY DEF Names, StationNames
<1> QED
  BY <1>1, <1>2, <1>3, <1>4

LEMMA LoadFacts ==
  ASSUME LoadInv
  PROVE  StationsAligned /\ MergesStations
<1>1. StationsAligned
  BY AlignedExactly DEF StationsAligned
<1>2. MergesStations
  BY MergedAll DEF MergesStations
<1> QED
  BY <1>1, <1>2

LEMMA StartupLoads == StartupSpec => []LoadInv
<1>1. StartupInit => LoadInv
  BY DEF StartupInit, LoadInv, LoadTypeOK, Stages
<1>2. LoadInv /\ [StartupNext]_<<mainVars, vars>> => LoadInv'
  <2> SUFFICES ASSUME LoadInv, [StartupNext]_<<mainVars, vars>>
               PROVE  LoadInv'
    OBVIOUS
  <2>1. CASE UNCHANGED mainVars
    BY <2>1, LoadStays
  <2>2. CASE \E p \in Roles : Program(p)
    <3>1. PICK p \in Roles : Program(p)
      BY <2>2
    <3>2. CASE Construct(p)
      BY <2>1, <3>2 DEF Construct
    <3>3. CASE p \in Proxies /\ (Parse(p) \/ Load(p) \/ Round(p) \/ Finish(p))
      BY <3>3, ParseKeeps, LoadKeeps, RoundKeeps, FinishKeeps
    <3> QED
      BY <3>1, <3>2, <3>3 DEF Program
  <2>3. CASE StartupDone
    BY <2>1, <2>3 DEF StartupDone
  <2> QED
    BY <2>1, <2>2, <2>3 DEF StartupNext
<1> QED
  BY <1>1, <1>2, PTL DEF StartupSpec

(* Each proxy reads the argument, or a directory of its own, and merges by  *)
(* itself.  Whenever both have the same number of lists, slot by slot these *)
(* are of the same stations and equally long if they were generated; and of *)
(* two directories exactly if their first two files are the same, in the    *)
(* same order (src/utils/auc_utils.h:30-109 and SORT in src/core/auc.h).    *)
(* Nothing is assumed of what the directories hold nor of its order.        *)
THEOREM ListsMatch == StartupSpec => []StationsAligned
<1>1. LoadInv => StationsAligned
  BY LoadFacts
<1> QED
  BY StartupLoads, <1>1, PTL

(* A proxy comes to the metric only with one list that every station of the *)
(* argument has gone into; for a directory, that of its first two files     *)
(* has.                                                                     *)
THEOREM EveryStationMerged == StartupSpec => []MergesStations
<1>1. LoadInv => MergesStations
  BY LoadFacts
<1> QED
  BY StartupLoads, <1>1, PTL
=============================================================================
