--------------------------- MODULE SessionProofs ---------------------------
(***************************************************************************)
(* For every sequence of calls, every size, and sockets of any capacity:    *)
(* whatever a party reads is the field it decodes, messages that are        *)
(* combined were masked at one place of the common stream, nothing is left  *)
(* over, and the parties keep the lock step of module Lockstep.  First what *)
(* two parties say to each other in every building block, then the          *)
(* session's invariant and its steps, who must have spoken before somebody  *)
(* can leave a call, and the lock step.                                     *)
(***************************************************************************)
EXTENDS SessionRefinement, Lemmas

-----------------------------------------------------------------------------
(* What a block says. *)

TransferOf(p) ==
  [dir : {"send", "receive"}, peer : Roles \ {p}, units : Seq(Unit), buf : {1, 2}]

(* Two transfers of a block share neither buffer nor direction of a socket, *)
(* and carry the same number of units; the helper's go the same way, the    *)
(* proxies' to each other.                                                  *)
ApartIn(p, s, t) ==
  /\ s.buf = 1 /\ t.buf = 2
  /\ Len(s.units) = Len(t.units)
  /\ s.dir # t.dir \/ s.peer # t.peer
  /\ p = HELPER => s.dir = t.dir
  /\ p # HELPER => s.peer = Other(p) /\ t.peer = Other(p)

BlockOf(p) ==
  {b \in [draws : Nat, transfers : Seq(TransferOf(p))] :
      /\ p = HELPER => b.draws = 0
      /\ Len(b.transfers) <= 2
      /\ Len(b.transfers) = 2 => ApartIn(p, b.transfers[1], b.transfers[2])}

Program(p) == Seq(BlockOf(p))

(* A unit on its way, whose sender computed it at a place of the proxies'   *)
(* common stream; the helper takes nothing from that stream.                *)
Packed(unit, from, place) == Stamped(unit, from, IF from = HELPER THEN 0 ELSE place)
Sender(p, dir, q) == IF dir = "send" THEN p ELSE q

Ways(tr, dir, q) == {i \in 1..Len(tr) : tr[i].dir = dir /\ tr[i].peer = q}
Units(units, m, from, place) ==
  [k \in 1..(Len(units) - m) |-> Packed(units[m + k], from, place)]

(* What p's transfers still say to q, or hear from q, when mv[i] units of   *)
(* each have moved.                                                         *)
Rest(p, tr, mv, dir, q, place) ==
  IF Ways(tr, dir, q) = {} THEN <<>>
  ELSE LET i == CHOOSE i \in Ways(tr, dir, q) : TRUE
       IN  Units(tr[i].units, mv[i], Sender(p, dir, q), place)
Unmoved(tr) == [i \in 1..Len(tr) |-> 0]
Said(p, b, dir, q, place) ==
  Rest(p, b.transfers, Unmoved(b.transfers), dir, q, place)

(* What a program says, block by block, at the places e.                    *)
Stream(p, code, dir, q, e) ==
  FlattenSeq([i \in 1..Len(code) |-> Said(p, code[i], dir, q, e[i])])

LEMMA PackedTyped ==
  ASSUME NEW unit \in Unit, NEW from \in Roles, NEW place \in Nat
  PROVE  Packed(unit, from, place) \in Packet
BY DEF Packed, Stamped, Packet, Unit

LEMMA UnitsTyped ==
  ASSUME NEW units \in Seq(Unit), NEW m \in 0..Len(units), NEW from \in Roles,
         NEW place \in Nat
  PROVE  /\ Units(units, m, from, place) \in Seq(Packet)
         /\ Len(Units(units, m, from, place)) = Len(units) - m
<1> DEFINE n == Len(units) - m
<1>1. n \in Nat /\ \A k \in 1..n : m + k \in 1..Len(units)
  OBVIOUS
<1>2. \A k \in 1..n : Packed(units[m + k], from, place) \in Packet
  BY <1>1, PackedTyped
<1>3. Units(units, m, from, place) \in [1..n -> Packet]
  BY <1>2 DEF Units
<1> HIDE DEF n
<1>4. Units(units, m, from, place) \in Seq(Packet) /\ Len(Units(units, m, from, place)) = n
  BY <1>1, <1>3
<1> QED
  BY <1>4 DEF n

(* The first of the units that are left.                                    *)
LEMMA UnitsFirst ==
  ASSUME NEW units \in Seq(Unit), NEW m \in 0..Len(units), m < Len(units),
         NEW from \in Roles, NEW place \in Nat
  PROVE  /\ m + 1 \in 1..Len(units)
         /\ Units(units, m, from, place)
              = <<Packed(units[m + 1], from, place)>> \o Units(units, m + 1, from, place)
<1>1. m + 1 \in 1..Len(units) /\ m + 1 \in 0..Len(units) /\ m \in Nat /\ Len(units) \in Nat
  OBVIOUS
<1> DEFINE whole == Units(units, m, from, place)
           one == <<Packed(units[m + 1], from, place)>>
           rest == Units(units, m + 1, from, place)
           n == Len(units) - m
<1>2. whole \in Seq(Packet) /\ Len(whole) = n
  BY UnitsTyped
<1>3. rest \in Seq(Packet) /\ Len(rest) = n - 1
  <2>1. rest \in Seq(Packet) /\ Len(rest) = Len(units) - (m + 1)
    BY <1>1, UnitsTyped
  <2>2. Len(units) - (m + 1) = n - 1
    BY <1>1
  <2> HIDE DEF rest, n
  <2> QED
    BY <2>1, <2>2
<1>4. Packed(units[m + 1], from, place) \in Packet
  BY <1>1, PackedTyped
<1>5. one \in Seq(Packet) /\ Len(one) = 1
  BY <1>4
<1>6. \A k \in 1..n : whole[k] = Packed(units[m + k], from, place)
  BY DEF Units
<1>7. \A k \in 1..(n - 1) : rest[k] = Packed(units[(m + 1) + k], from, place)
  BY <1>1 DEF Units
<1>8. one[1] = Packed(units[m + 1], from, place)
  OBVIOUS
<1>9. n \in Nat \ {0}
  BY <1>1
<1>10. ASSUME NEW k \in 1..n
       PROVE  whole[k] = IF k <= 1 THEN one[k] ELSE rest[k - 1]
  <2>1. CASE k = 1
    <3> HIDE DEF whole, one
    <3> QED
      BY <1>6, <1>8, <1>9, <2>1
  <2>2. CASE k # 1
    <3>1. k - 1 \in 1..(n - 1) /\ (m + 1) + (k - 1) = m + k
      BY <1>1, <1>9, <2>2
    <3> HIDE DEF whole, rest, n
    <3> QED
      BY <1>6, <1>7, <1>9, <2>2, <3>1
  <2> QED
    BY <2>1, <2>2
<1>11. one \o rest \in Seq(Packet) /\ Len(one \o rest) = n
       /\ \A k \in 1..n : (one \o rest)[k] = IF k <= 1 THEN one[k] ELSE rest[k - 1]
  <2> HIDE DEF one, rest, n
  <2>1. Len(one) + Len(rest) = n
    BY <1>3, <1>5, <1>9
  <2>2. /\ one \o rest \in Seq(Packet)
        /\ Len(one \o rest) = Len(one) + Len(rest)
        /\ \A k \in 1..(Len(one) + Len(rest)) :
             (one \o rest)[k] = IF k <= Len(one) THEN one[k] ELSE rest[k - Len(one)]
    BY <1>3, <1>5, ConcatProperties
  <2> QED
    BY <1>5, <2>1, <2>2
<1>12. whole = one \o rest
  <2> HIDE DEF one, rest, whole, n
  <2> QED
    BY <1>2, <1>10, <1>11, SeqEqual
<1> QED
  BY <1>1, <1>12

LEMMA RestNone ==
  ASSUME NEW p, NEW tr, NEW mv, NEW dir, NEW q, NEW place, Ways(tr, dir, q) = {}
  PROVE  Rest(p, tr, mv, dir, q, place) = <<>>
BY DEF Rest

LEMMA RestOne ==
  ASSUME NEW p, NEW tr, NEW mv, NEW dir, NEW q, NEW place, NEW i, Ways(tr, dir, q) = {i}
  PROVE  Rest(p, tr, mv, dir, q, place) = Units(tr[i].units, mv[i], Sender(p, dir, q), place)
<1>1. (CHOOSE j \in Ways(tr, dir, q) : TRUE) = i
  OBVIOUS
<1> QED
  BY <1>1 DEF Rest

LEMMA RestTyped ==
  ASSUME NEW p \in Roles, NEW tr \in Seq(TransferOf(p)), NEW mv,
         \A i \in 1..Len(tr) : mv[i] \in 0..Len(tr[i].units),
         NEW dir, NEW q \in Roles, NEW place \in Nat
  PROVE  Rest(p, tr, mv, dir, q, place) \in Seq(Packet)
<1>1. CASE Ways(tr, dir, q) = {}
  <2>1. <<>> \in Seq(Packet)
    OBVIOUS
  <2> QED
    BY <1>1, <2>1, RestNone
<1>2. CASE Ways(tr, dir, q) # {}
  <2> DEFINE i == CHOOSE i \in Ways(tr, dir, q) : TRUE
  <2>1. i \in Ways(tr, dir, q)
    BY <1>2
  <2>2. Rest(p, tr, mv, dir, q, place) = Units(tr[i].units, mv[i], Sender(p, dir, q), place)
    BY <1>2 DEF Rest
  <2> HIDE DEF i
  <2>3. i \in 1..Len(tr)
    BY <2>1 DEF Ways
  <2>4. tr[i] \in TransferOf(p)
    BY <2>3
  <2>5. tr[i].units \in Seq(Unit)
    BY <2>4 DEF TransferOf
  <2>6. Sender(p, dir, q) \in Roles
    BY DEF Sender
  <2>7. mv[i] \in 0..Len(tr[i].units)
    BY <2>3
  <2> QED
    BY <2>2, <2>5, <2>6, <2>7, UnitsTyped
<1> QED
  BY <1>1, <1>2

LEMMA BlockTyped ==
  ASSUME NEW p, NEW b \in BlockOf(p)
  PROVE  /\ b.draws \in Nat /\ b.transfers \in Seq(TransferOf(p))
         /\ p = HELPER => b.draws = 0
         /\ Len(b.transfers) \in {0, 1, 2}
         /\ Len(b.transfers) = 2 => ApartIn(p, b.transfers[1], b.transfers[2])
<1>1. /\ b.draws \in Nat /\ b.transfers \in Seq(TransferOf(p))
      /\ p = HELPER => b.draws = 0
      /\ Len(b.transfers) <= 2
      /\ Len(b.transfers) = 2 => ApartIn(p, b.transfers[1], b.transfers[2])
  BY DEF BlockOf
<1>2. Len(b.transfers) \in Nat
  BY <1>1
<1>3. Len(b.transfers) \in {0, 1, 2}
  <2> DEFINE n == Len(b.transfers)
  <2>1. n <= 2
    BY <1>1, Zenon
  <2>2. n \in Nat
    BY <1>2
  <2> HIDE DEF n
  <2>3. n \in {0, 1, 2}
    BY <2>1, <2>2
  <2> QED
    BY <2>3 DEF n
<1> QED
  BY <1>1, <1>3, Zenon

LEMMA SaidTyped ==
  ASSUME NEW p \in Roles, NEW b \in BlockOf(p), NEW dir, NEW q \in Roles, NEW place \in Nat
  PROVE  Said(p, b, dir, q, place) \in Seq(Packet)
<1> DEFINE tr == b.transfers
<1>1. tr \in Seq(TransferOf(p))
  BY BlockTyped
<1>2. ASSUME NEW i \in 1..Len(tr)
      PROVE  Unmoved(tr)[i] \in 0..Len(tr[i].units)
  <2>1. tr[i] \in TransferOf(p)
    BY <1>1
  <2>2. tr[i].units \in Seq(Unit)
    BY <2>1 DEF TransferOf
  <2>3. Len(tr[i].units) \in Nat
    BY <2>2
  <2>4. Unmoved(tr)[i] = 0
    BY DEF Unmoved
  <2> QED
    BY <2>3, <2>4
<1> HIDE DEF tr
<1>3. Rest(p, tr, Unmoved(tr), dir, q, place) \in Seq(Packet)
  BY <1>1, <1>2, RestTyped
<1> QED
  BY <1>3 DEF tr, Said

LEMMA StreamPieces ==
  ASSUME NEW p \in Roles, NEW code \in Program(p), NEW dir, NEW q \in Roles,
         NEW e \in Seq(Nat), Len(e) = Len(code)
  PROVE  [i \in 1..Len(code) |-> Said(p, code[i], dir, q, e[i])] \in Seq(Seq(Packet))
<1>1. Len(code) \in Nat
  BY DEF Program
<1>2. \A i \in 1..Len(code) : code[i] \in BlockOf(p) /\ e[i] \in Nat
  BY DEF Program
<1>3. \A i \in 1..Len(code) : Said(p, code[i], dir, q, e[i]) \in Seq(Packet)
  BY <1>2, SaidTyped
<1> DEFINE n == Len(code)
           s == [i \in 1..Len(code) |-> Said(p, code[i], dir, q, e[i])]
<1>4. s \in [1..n -> Seq(Packet)]
  BY <1>3
<1> HIDE DEF n, s
<1>5. s \in Seq(Seq(Packet))
  BY <1>1, <1>4 DEF n
<1> QED
  BY <1>5 DEF s

LEMMA StreamTyped ==
  ASSUME NEW p \in Roles, NEW code \in Program(p), NEW dir, NEW q \in Roles,
         NEW e \in Seq(Nat), Len(e) = Len(code)
  PROVE  Stream(p, code, dir, q, e) \in Seq(Packet)
BY StreamPieces, FlattenTyped DEF Stream

LEMMA StreamNone ==
  ASSUME NEW p, NEW dir, NEW q, NEW e
  PROVE  Stream(p, <<>>, dir, q, e) = <<>>
<1>1. [i \in 1..Len(<<>>) |-> Said(p, <<>>[i], dir, q, e[i])] = <<>>
  OBVIOUS
<1> QED
  BY <1>1, FlattenNone DEF Stream

LEMMA StreamOne ==
  ASSUME NEW p \in Roles, NEW b \in BlockOf(p), NEW dir, NEW q \in Roles, NEW place \in Nat
  PROVE  Stream(p, <<b>>, dir, q, <<place>>) = Said(p, b, dir, q, place)
<1>1. [i \in 1..Len(<<b>>) |-> Said(p, <<b>>[i], dir, q, <<place>>[i])]
        = <<Said(p, b, dir, q, place)>>
  OBVIOUS
<1>2. Said(p, b, dir, q, place) \in Seq(Packet)
  BY SaidTyped
<1> QED
  BY <1>1, <1>2, FlattenOne DEF Stream

StreamSplits(p, a, b, dir, q, e, f) ==
  (/\ p \in Roles /\ q \in Roles /\ a \in Program(p) /\ b \in Program(p)
   /\ e \in Seq(Nat) /\ Len(e) = Len(a) /\ f \in Seq(Nat) /\ Len(f) = Len(b))
  => Stream(p, a \o b, dir, q, e \o f)
       = Stream(p, a, dir, q, e) \o Stream(p, b, dir, q, f)

LEMMA StreamSplit ==
  ASSUME NEW p, NEW a, NEW b, NEW dir, NEW q, NEW e, NEW f
  PROVE  StreamSplits(p, a, b, dir, q, e, f)
<1> SUFFICES ASSUME p \in Roles, q \in Roles, a \in Program(p), b \in Program(p),
                    e \in Seq(Nat), Len(e) = Len(a), f \in Seq(Nat), Len(f) = Len(b)
             PROVE  Stream(p, a \o b, dir, q, e \o f)
                      = Stream(p, a, dir, q, e) \o Stream(p, b, dir, q, f)
  BY DEF StreamSplits
<1> DEFINE c == a \o b
           g == e \o f
           s == [i \in 1..Len(a) |-> Said(p, a[i], dir, q, e[i])]
           t == [i \in 1..Len(b) |-> Said(p, b[i], dir, q, f[i])]
           u == [i \in 1..Len(c) |-> Said(p, c[i], dir, q, g[i])]
           n == Len(a)
           m == Len(b)
<1>1. n \in Nat /\ m \in Nat
  BY DEF Program
<1>2. c \in Program(p) /\ Len(c) = n + m
      /\ \A i \in 1..(n + m) : c[i] = IF i <= n THEN a[i] ELSE b[i - n]
  BY ConcatProperties DEF Program
<1>3. g \in Seq(Nat) /\ Len(g) = n + m
      /\ \A i \in 1..(n + m) : g[i] = IF i <= n THEN e[i] ELSE f[i - n]
  <2>1. /\ g \in Seq(Nat) /\ Len(g) = Len(e) + Len(f)
        /\ \A i \in 1..(Len(e) + Len(f)) : g[i] = IF i <= Len(e) THEN e[i] ELSE f[i - Len(e)]
    BY ConcatProperties
  <2> HIDE DEF g
  <2> QED
    BY <2>1
<1>4. s \in Seq(Seq(Packet)) /\ t \in Seq(Seq(Packet)) /\ u \in Seq(Seq(Packet))
  <2>1. s \in Seq(Seq(Packet))
    BY StreamPieces
  <2>2. t \in Seq(Seq(Packet))
    BY StreamPieces
  <2>3. Len(g) = Len(c) /\ c \in Program(p) /\ g \in Seq(Nat)
    <3> HIDE DEF c, g
    <3> QED
      BY <1>2, <1>3
  <2>4. u \in Seq(Seq(Packet))
    <3> HIDE DEF c, g
    <3> QED
      BY <2>3, StreamPieces
  <2> QED
    BY <2>1, <2>2, <2>4
<1>5. Len(s) = n /\ Len(t) = m /\ Len(u) = n + m
  <2> HIDE DEF c, g
  <2> QED
    BY <1>1, <1>2
<1>6. ASSUME NEW i \in 1..(n + m)
      PROVE  u[i] = IF i <= n THEN s[i] ELSE t[i - n]
  <2>1. u[i] = Said(p, c[i], dir, q, g[i])
    <3> HIDE DEF c, g
    <3> QED
      BY <1>2
  <2>2. CASE i <= n
    <3>1. i \in 1..n
      BY <1>1, <2>2
    <3>2. c[i] = a[i] /\ g[i] = e[i]
      <4> HIDE DEF c, g
      <4> QED
        BY <1>2, <1>3, <2>2
    <3>3. s[i] = Said(p, a[i], dir, q, e[i])
      BY <3>1
    <3> HIDE DEF c, g, s, t, u
    <3> QED
      BY <2>1, <2>2, <3>2, <3>3
  <2>3. CASE ~(i <= n)
    <3>1. i - n \in 1..m
      BY <1>1, <2>3
    <3>2. c[i] = b[i - n] /\ g[i] = f[i - n]
      <4> HIDE DEF c, g
      <4> QED
        BY <1>2, <1>3, <2>3
    <3>3. t[i - n] = Said(p, b[i - n], dir, q, f[i - n])
      BY <3>1
    <3> HIDE DEF c, g, s, t, u
    <3> QED
      BY <2>1, <2>3, <3>2, <3>3
  <2> QED
    BY <2>2, <2>3
<1>7. u = s \o t
  <2> HIDE DEF s, t, u, n, m
  <2>1. s \o t \in Seq(Seq(Packet)) /\ Len(s \o t) = n + m
        /\ \A i \in 1..(n + m) : (s \o t)[i] = IF i <= n THEN s[i] ELSE t[i - n]
    BY <1>4, <1>5, ConcatProperties
  <2>2. \A i \in 1..Len(u) : u[i] = (s \o t)[i]
    BY <1>5, <1>6, <2>1
  <2> DEFINE v == s \o t
  <2>3. v \in Seq(Seq(Packet)) /\ Len(v) = Len(u) /\ \A i \in 1..Len(u) : u[i] = v[i]
    BY <1>5, <2>1, <2>2
  <2> HIDE DEF v
  <2>4. u = v
    BY <1>4, <2>3, SeqEqual
  <2> QED
    BY <2>4 DEF v
<1>8. FlattenSeq(u) = FlattenSeq(s) \o FlattenSeq(t)
  <2> HIDE DEF s, t, u
  <2> QED
    BY <1>4, <1>7, FlattenConcat
<1> QED
  BY <1>8 DEF Stream

-----------------------------------------------------------------------------
(* Programs that say to each other what they hear from each other. *)

(* The places of the blocks of a proxy's program that starts at place d of  *)
(* the common stream and ends at d2.                                        *)
Places(code, d, e, d2) ==
  /\ \A i \in 1..Len(code) : e[i] = (IF i = 1 THEN d ELSE e[i - 1]) + code[i].draws
  /\ d2 = IF Len(code) = 0 THEN d ELSE e[Len(code)]

(* Programs f[p] of the three roles, the proxies' from place d to d2: there *)
(* are places of the helper's blocks so that all that is said to someone is *)
(* what he hears, unit by unit and from the same place.                     *)
InStep(f, d, e, d2) ==
  /\ d2 \in Nat
  /\ \A p \in Roles : e[p] \in Seq(Nat) /\ Len(e[p]) = Len(f[p])
  /\ \A p \in Proxies : Places(f[p], d, e[p], d2)
  /\ \A p, q \in Roles : Stream(p, f[p], "send", q, e[p]) = Stream(q, f[q], "receive", p, e[q])

Match(f) ==
  /\ \A p \in Roles : f[p] \in Program(p)
  /\ \A d \in Nat : \E e, d2 : InStep(f, d, e, d2)

LEMMA PlacesConcat ==
  ASSUME NEW S, NEW a \in Seq(S), NEW b \in Seq(S),
         NEW e \in Seq(Nat), Len(e) = Len(a), NEW f \in Seq(Nat), Len(f) = Len(b),
         NEW d, NEW d1, NEW d2, Places(a, d, e, d1), Places(b, d1, f, d2)
  PROVE  Places(a \o b, d, e \o f, d2)
<1> DEFINE c == a \o b
           g == e \o f
           n == Len(a)
           m == Len(b)
<1>1. n \in Nat /\ m \in Nat
  OBVIOUS
<1>2. /\ Len(c) = n + m
      /\ \A i \in 1..(n + m) : c[i] = IF i <= n THEN a[i] ELSE b[i - n]
  BY ConcatProperties
<1>3. /\ Len(g) = n + m
      /\ \A i \in 1..(n + m) : g[i] = IF i <= n THEN e[i] ELSE f[i - n]
  <2>1. /\ g \in Seq(Nat) /\ Len(g) = Len(e) + Len(f)
        /\ \A i \in 1..(Len(e) + Len(f)) : g[i] = IF i <= Len(e) THEN e[i] ELSE f[i - Len(e)]
    BY ConcatProperties
  <2> HIDE DEF g
  <2> QED
    BY <2>1
<1> HIDE DEF c, g
<1>4. ASSUME NEW i \in 1..(n + m)
      PROVE  g[i] = (IF i = 1 THEN d ELSE g[i - 1]) + c[i].draws
  <2>1. CASE i <= n
    <3>1. i \in 1..n /\ g[i] = e[i] /\ c[i] = a[i] /\ (i # 1 => g[i - 1] = e[i - 1])
      <4> HIDE DEF n, m
      <4>1. i \in 1..n /\ (i # 1 => i - 1 \in 1..(n + m) /\ i - 1 <= n)
        BY <1>1, <2>1
      <4> QED
        BY <1>2, <1>3, <2>1, <4>1
    <3>2. e[i] = (IF i = 1 THEN d ELSE e[i - 1]) + a[i].draws
      BY <3>1 DEF Places
    <3> HIDE DEF n, m
    <3> QED
      BY <3>1, <3>2
  <2>2. CASE i = n + 1
    <3>1. i - n = 1 /\ 1 \in 1..m /\ ~(i <= n) /\ i - 1 = n
      BY <1>1, <2>2
    <3>2. g[i] = f[1] /\ c[i] = b[1]
      <4> HIDE DEF n, m
      <4> QED
        BY <1>2, <1>3, <3>1
    <3>3. f[1] = d1 + b[1].draws
      BY <3>1 DEF Places
    <3>4. CASE n = 0
      <4>1. d1 = d /\ i = 1
        BY <2>2, <3>4 DEF Places
      <4> HIDE DEF n, m
      <4> QED
        BY <3>2, <3>3, <4>1
    <3>5. CASE n # 0
      <4>1. d1 = e[n] /\ i # 1
        BY <1>1, <2>2, <3>5 DEF Places
      <4>2. g[i - 1] = e[n]
        <5> HIDE DEF n, m
        <5>1. n \in 1..(n + m) /\ n <= n
          BY <1>1, <3>5
        <5> QED
          BY <1>3, <3>1, <5>1
      <4> HIDE DEF n, m
      <4> QED
        BY <3>2, <3>3, <4>1, <4>2
    <3> QED
      BY <3>4, <3>5
  <2>3. CASE i > n + 1
    <3>1. /\ i - n \in 1..m /\ i - n # 1 /\ ~(i <= n) /\ ~(i - 1 <= n)
          /\ i - 1 \in 1..(n + m) /\ (i - 1) - n = (i - n) - 1 /\ i # 1
      BY <1>1, <2>3
    <3>2. g[i] = f[i - n] /\ c[i] = b[i - n] /\ g[i - 1] = f[(i - n) - 1]
      <4> HIDE DEF n, m
      <4> QED
        BY <1>2, <1>3, <3>1
    <3>3. f[i - n] = f[(i - n) - 1] + b[i - n].draws
      BY <3>1 DEF Places
    <3> HIDE DEF n, m
    <3> QED
      BY <3>1, <3>2, <3>3
  <2> HIDE DEF n, m
  <2> QED
    BY <1>1, <2>1, <2>2, <2>3
<1>5. d2 = IF n + m = 0 THEN d ELSE g[n + m]
  <2>1. CASE m = 0
    <3>1. d2 = d1
      BY <2>1 DEF Places
    <3>2. d1 = IF n = 0 THEN d ELSE e[n]
      BY DEF Places
    <3> HIDE DEF n, m
    <3>3. n # 0 => n \in 1..(n + m) /\ n <= n
      BY <1>1, <2>1
    <3> QED
      BY <1>1, <1>3, <2>1, <3>1, <3>2, <3>3
  <2>2. CASE m # 0
    <3>1. d2 = f[m]
      BY <2>2 DEF Places
    <3> HIDE DEF n, m
    <3>2. n + m \in 1..(n + m) /\ ~(n + m <= n) /\ (n + m) - n = m /\ n + m # 0
      BY <1>1, <2>2
    <3>3. g[n + m] = f[m]
      BY <1>3, <3>2
    <3> QED
      BY <3>1, <3>2, <3>3
  <2> QED
    BY <2>1, <2>2
<1>6. Places(c, d, g, d2)
  <2> HIDE DEF n, m
  <2> QED
    BY <1>2, <1>4, <1>5 DEF Places
<1> QED
  BY <1>6 DEF c, g

LEMMA MatchConcat ==
  ASSUME NEW f, NEW g, NEW h, Match(f), Match(g),
         \A p \in Roles : h[p] = f[p] \o g[p]
  PROVE  Match(h)
<1>1. \A p \in Roles : f[p] \in Program(p) /\ g[p] \in Program(p) /\ h[p] = f[p] \o g[p]
  BY DEF Match
<1>2. ASSUME NEW d \in Nat
      PROVE  \E e, d2 : InStep(h, d, e, d2)
  <2>1. PICK a, d1 : InStep(f, d, a, d1)
    BY DEF Match
  <2>2. d1 \in Nat
    BY <2>1 DEF InStep
  <2>3. PICK b, d2 : InStep(g, d1, b, d2)
    BY <2>2 DEF Match
  <2> DEFINE e == [p \in Roles |-> a[p] \o b[p]]
  <2>4. \A p \in Roles : e[p] = a[p] \o b[p]
    OBVIOUS
  <2> HIDE DEF e
  <2>5. ASSUME NEW p \in Roles
        PROVE  /\ a[p] \in Seq(Nat) /\ Len(a[p]) = Len(f[p])
               /\ b[p] \in Seq(Nat) /\ Len(b[p]) = Len(g[p])
               /\ f[p] \in Program(p) /\ g[p] \in Program(p) /\ h[p] = f[p] \o g[p]
               /\ e[p] = a[p] \o b[p]
    BY <1>1, <2>1, <2>3, <2>4 DEF InStep
  <2>6. ASSUME NEW p \in Roles
        PROVE  e[p] \in Seq(Nat) /\ Len(e[p]) = Len(h[p])
    <3>1. a[p] \o b[p] \in Seq(Nat) /\ Len(a[p] \o b[p]) = Len(a[p]) + Len(b[p])
      <4>1. a[p] \in Seq(Nat) /\ b[p] \in Seq(Nat)
        BY <2>5
      <4> QED
        BY <4>1, ConcatProperties
    <3>2. Len(f[p] \o g[p]) = Len(f[p]) + Len(g[p])
      BY <2>5, ConcatProperties DEF Program
    <3> QED
      BY <2>5, <3>1, <3>2
  <2>7. ASSUME NEW p \in Proxies
        PROVE  Places(h[p], d, e[p], d2)
    <3>1. p \in Roles
      BY DEF Proxies, Roles
    <3>2. Places(f[p], d, a[p], d1) /\ Places(g[p], d1, b[p], d2)
      BY <2>1, <2>3 DEF InStep
    <3>3. f[p] \in Seq(BlockOf(p)) /\ g[p] \in Seq(BlockOf(p))
      BY <2>5, <3>1 DEF Program
    <3>4. Places(f[p] \o g[p], d, a[p] \o b[p], d2)
      BY <2>5, <3>1, <3>2, <3>3, PlacesConcat
    <3> QED
      BY <2>5, <3>1, <3>4
  <2>8. ASSUME NEW p \in Roles, NEW q \in Roles, NEW dir
        PROVE  Stream(p, h[p], dir, q, e[p])
                 = Stream(p, f[p], dir, q, a[p]) \o Stream(p, g[p], dir, q, b[p])
    <3>1. Stream(p, f[p] \o g[p], dir, q, a[p] \o b[p])
            = Stream(p, f[p], dir, q, a[p]) \o Stream(p, g[p], dir, q, b[p])
      <4>1. StreamSplits(p, f[p], g[p], dir, q, a[p], b[p])
        BY StreamSplit
      <4> QED
        BY <2>5, <4>1 DEF StreamSplits
    <3> QED
      BY <2>5, <3>1
  <2>9. ASSUME NEW p \in Roles, NEW q \in Roles
        PROVE  Stream(p, h[p], "send", q, e[p]) = Stream(q, h[q], "receive", p, e[q])
    <3>1. Stream(p, f[p], "send", q, a[p]) = Stream(q, f[q], "receive", p, a[q])
      BY <2>1 DEF InStep
    <3>2. Stream(p, g[p], "send", q, b[p]) = Stream(q, g[q], "receive", p, b[q])
      BY <2>3 DEF InStep
    <3> QED
      BY <2>8, <3>1, <3>2
  <2>10. d2 \in Nat
    BY <2>3 DEF InStep
  <2> QED
    BY <2>6, <2>7, <2>9, <2>10 DEF InStep
<1>3. ASSUME NEW p \in Roles
      PROVE  h[p] \in Program(p)
  BY <1>1, ConcatProperties DEF Program
<1> QED
  BY <1>2, <1>3 DEF Match

LEMMA MatchNone ==
  ASSUME NEW h, \A p \in Roles : h[p] = <<>>
  PROVE  Match(h)
<1>1. ASSUME NEW p \in Roles
      PROVE  h[p] \in Program(p)
  <2>1. <<>> \in Seq(BlockOf(p))
    OBVIOUS
  <2> QED
    BY <2>1 DEF Program
<1>2. ASSUME NEW d \in Nat
      PROVE  \E e, d2 : InStep(h, d, e, d2)
  <2> DEFINE e == [p \in Roles |-> <<>>]
  <2>1. ASSUME NEW p \in Roles
        PROVE  e[p] = <<>> /\ e[p] \in Seq(Nat) /\ Len(e[p]) = Len(h[p]) /\ Len(h[p]) = 0
    OBVIOUS
  <2> HIDE DEF e
  <2>2. ASSUME NEW p \in Roles, NEW q \in Roles, NEW dir
        PROVE  Stream(p, h[p], dir, q, e[p]) = <<>>
    BY <2>1, StreamNone
  <2>3. ASSUME NEW p \in Proxies
        PROVE  Places(h[p], d, e[p], d)
    <3>1. Len(h[p]) = 0
      BY <2>1 DEF Proxies, Roles
    <3> QED
      BY <3>1 DEF Places
  <2>4. InStep(h, d, e, d)
    BY <2>1, <2>2, <2>3 DEF InStep
  <2> QED
    BY <2>4
<1> QED
  BY <1>1, <1>2 DEF Match

LEMMA MatchFlatten ==
  ASSUME NEW n \in Nat, NEW f, \A c \in 1..n : Match(f[c]),
         NEW h, \A p \in Roles : h[p] = FlattenSeq([c \in 1..n |-> f[c][p]])
  PROVE  Match(h)
<1> DEFINE Part(m, p) == [c \in 1..m |-> f[c][p]]
           G(m) == [p \in Roles |-> FlattenSeq(Part(m, p))]
           T == {m \in Nat : m <= n => Match(G(m))}
<1>1. ASSUME NEW m \in Nat, m <= n, NEW p \in Roles
      PROVE  Part(m, p) \in Seq(Program(p)) /\ Len(Part(m, p)) = m
  <2>1. \A c \in 1..m : f[c][p] \in Program(p)
    BY <1>1 DEF Match
  <2>2. Part(m, p) \in [1..m -> Program(p)]
    BY <2>1
  <2> HIDE DEF Part
  <2> QED
    BY <1>1, <2>2
<1>2. 0 \in T
  <2>1. \A p \in Roles : G(0)[p] = <<>>
    <3>1. \A p \in Roles : Part(0, p) = <<>>
      OBVIOUS
    <3> HIDE DEF Part
    <3> QED
      BY <3>1, FlattenNone
  <2> HIDE DEF G
  <2> QED
    BY <2>1, MatchNone
<1>3. ASSUME NEW m \in Nat, m \in T
      PROVE  m + 1 \in T
  <2>1. ASSUME m + 1 <= n
        PROVE  Match(G(m + 1))
    <3>1. m <= n /\ m + 1 \in 1..n /\ m + 1 \in Nat
      BY <2>1
    <3>2. Match(G(m)) /\ Match(f[m + 1])
      <4> HIDE DEF G
      <4> QED
        BY <1>3, <3>1
    <3>3. ASSUME NEW p \in Roles
          PROVE  G(m + 1)[p] = G(m)[p] \o f[m + 1][p]
      <4>1. f[m + 1][p] \in Program(p)
        BY <3>2 DEF Match
      <4> DEFINE x == f[m + 1][p]
                 s == Part(m, p)
                 t == Part(m + 1, p)
      <4>2. x \in Program(p) /\ <<x>> \in Seq(Program(p))
        BY <4>1
      <4>3. s \in Seq(Program(p)) /\ t \in Seq(Program(p)) /\ Len(s) = m /\ Len(t) = m + 1
        <5> HIDE DEF Part
        <5> QED
          BY <1>1, <2>1, <3>1
      <4>4. \A c \in 1..(m + 1) : t[c] = IF c <= m THEN s[c] ELSE x
        OBVIOUS
      <4>5. t = s \o <<x>>
        <5> HIDE DEF s, t, x
        <5>1. /\ s \o <<x>> \in Seq(Program(p)) /\ Len(s \o <<x>>) = m + 1
              /\ \A c \in 1..(m + 1) : (s \o <<x>>)[c] = IF c <= m THEN s[c] ELSE x
          BY <4>2, <4>3
        <5> DEFINE v == s \o <<x>>
        <5>2. v \in Seq(Program(p)) /\ Len(v) = Len(t) /\ \A c \in 1..Len(t) : t[c] = v[c]
          BY <4>3, <4>4, <5>1
        <5> HIDE DEF v
        <5>3. t = v
          BY <4>3, <5>2, SeqEqual
        <5> QED
          BY <5>3 DEF v
      <4>6. FlattenSeq(t) = FlattenSeq(s) \o FlattenSeq(<<x>>) /\ FlattenSeq(<<x>>) = x
        <5> HIDE DEF s, t, x
        <5> QED
          BY <4>2, <4>3, <4>5, FlattenConcat, FlattenOne DEF Program
      <4>7. FlattenSeq(t) = FlattenSeq(s) \o x
        <5> HIDE DEF s, t, x
        <5> QED
          BY <4>6
      <4> HIDE DEF Part
      <4> QED
        BY <4>7
    <3> HIDE DEF G
    <3> QED
      BY <3>2, <3>3, MatchConcat
  <2> HIDE DEF G
  <2> QED
    BY <2>1
<1>4. Match(G(n))
  <2> HIDE DEF T, G
  <2>1. Nat \subseteq T
    BY <1>2, <1>3, SetInduction
  <2>2. n \in T
    BY <2>1
  <2> QED
    BY <2>2 DEF T
<1>5. \A p \in Roles : h[p] = G(n)[p] \o <<>>
  <2>1. ASSUME NEW p \in Roles
        PROVE  h[p] = G(n)[p] /\ G(n)[p] \in Program(p)
    <3>1. h[p] = G(n)[p]
      OBVIOUS
    <3> HIDE DEF G
    <3> QED
      BY <1>4, <3>1 DEF Match
  <2> HIDE DEF G
  <2> QED
    BY <2>1 DEF Program
<1>6. Match([p \in Roles |-> <<>>])
  BY MatchNone
<1> HIDE DEF G
<1> QED
  BY <1>4, <1>5, <1>6, MatchConcat

-----------------------------------------------------------------------------
(* The exchanges the building blocks are made of. *)

LEMMA SilentTyped ==
  ASSUME NEW p, NEW n \in Nat, p = HELPER => n = 0
  PROVE  /\ Block(n, <<>>) \in BlockOf(p)
         /\ Block(n, <<>>).draws = n
         /\ \A dir, q, place : Said(p, Block(n, <<>>), dir, q, place) = <<>>
<1> DEFINE b == Block(n, <<>>)
<1>1. <<>> \in Seq(TransferOf(p)) /\ Len(<<>>) = 0
  OBVIOUS
<1>2. b.draws = n /\ b.transfers = <<>>
  BY DEF Block
<1>3. b \in [draws : Nat, transfers : Seq(TransferOf(p))]
  BY <1>1 DEF Block
<1> HIDE DEF b
<1>4. b \in BlockOf(p)
  BY <1>1, <1>2, <1>3 DEF BlockOf
<1>5. \A dir, q : Ways(<<>>, dir, q) = {}
  BY DEF Ways
<1>6. \A dir, q, place : Said(p, b, dir, q, place) = <<>>
  BY <1>2, <1>5, RestNone DEF Said
<1> QED
  BY <1>2, <1>4, <1>6 DEF b

LEMMA AloneTyped ==
  ASSUME NEW p, NEW n \in Nat, p = HELPER => n = 0, NEW t \in TransferOf(p)
  PROVE  /\ Block(n, <<t>>) \in BlockOf(p)
         /\ Block(n, <<t>>).draws = n
         /\ \A dir, q, place :
              Said(p, Block(n, <<t>>), dir, q, place)
                = IF t.dir = dir /\ t.peer = q THEN Units(t.units, 0, Sender(p, dir, q), place)
                                               ELSE <<>>
<1> DEFINE tr == <<t>>
           b == Block(n, tr)
           mv == Unmoved(tr)
<1>1. tr \in Seq(TransferOf(p)) /\ Len(tr) = 1 /\ tr[1] = t
  OBVIOUS
<1> HIDE DEF tr
<1>2. b.draws = n /\ b.transfers = tr
  BY DEF Block
<1>3. b \in [draws : Nat, transfers : Seq(TransferOf(p))]
  BY <1>1 DEF Block
<1> HIDE DEF b
<1>4. b \in BlockOf(p)
  <2>1. Len(tr) <= 2 /\ Len(tr) # 2
    BY <1>1
  <2>2. p = HELPER => b.draws = 0
    BY <1>2
  <2> QED
    BY <1>2, <1>3, <2>1, <2>2 DEF BlockOf
<1>5. mv[1] = 0
  BY <1>1 DEF Unmoved
<1> HIDE DEF mv
<1>6. ASSUME NEW dir, NEW q, NEW place
      PROVE  Rest(p, tr, mv, dir, q, place)
               = IF t.dir = dir /\ t.peer = q THEN Units(t.units, 0, Sender(p, dir, q), place)
                                              ELSE <<>>
  <2>1. CASE t.dir = dir /\ t.peer = q
    <3>1. Ways(tr, dir, q) = {1}
      BY <1>1, <2>1 DEF Ways
    <3>2. (CHOOSE i \in Ways(tr, dir, q) : TRUE) = 1
      BY <3>1
    <3>3. Rest(p, tr, mv, dir, q, place)
            = Units(tr[1].units, mv[1], Sender(p, dir, q), place)
      BY <3>1, <3>2 DEF Rest
    <3> QED
      BY <1>1, <1>5, <2>1, <3>3
  <2>2. CASE ~(t.dir = dir /\ t.peer = q)
    <3>1. Ways(tr, dir, q) = {}
      BY <1>1, <2>2 DEF Ways
    <3> QED
      BY <2>2, <3>1, RestNone
  <2> QED
    BY <2>1, <2>2
<1>7. \A dir, q, place : Said(p, b, dir, q, place) = Rest(p, tr, mv, dir, q, place)
  BY <1>2 DEF Said, mv
<1> QED
  BY <1>2, <1>4, <1>6, <1>7 DEF tr, b

LEMMA PairTyped ==
  ASSUME NEW p, NEW s \in TransferOf(p), NEW t \in TransferOf(p), ApartIn(p, s, t)
  PROVE  /\ Block(0, <<s, t>>) \in BlockOf(p)
         /\ Block(0, <<s, t>>).draws = 0
         /\ \A dir, q, place :
              Said(p, Block(0, <<s, t>>), dir, q, place)
                = IF s.dir = dir /\ s.peer = q
                  THEN Units(s.units, 0, Sender(p, dir, q), place)
                  ELSE IF t.dir = dir /\ t.peer = q
                  THEN Units(t.units, 0, Sender(p, dir, q), place)
                  ELSE <<>>
<1> DEFINE tr == <<s, t>>
           b == Block(0, tr)
           mv == Unmoved(tr)
<1>1. tr \in Seq(TransferOf(p)) /\ Len(tr) = 2 /\ tr[1] = s /\ tr[2] = t
  OBVIOUS
<1> HIDE DEF tr
<1>2. b.draws = 0 /\ b.transfers = tr
  BY DEF Block
<1>3. b \in [draws : Nat, transfers : Seq(TransferOf(p))]
  BY <1>1 DEF Block
<1> HIDE DEF b
<1>4. b \in BlockOf(p)
  <2>1. ApartIn(p, tr[1], tr[2]) /\ Len(tr) <= 2
    BY <1>1
  <2> QED
    BY <1>2, <1>3, <2>1 DEF BlockOf
<1>5. mv[1] = 0 /\ mv[2] = 0
  BY <1>1 DEF Unmoved
<1> HIDE DEF mv
<1>6. s.dir # t.dir \/ s.peer # t.peer
  BY DEF ApartIn
<1>7. ASSUME NEW dir, NEW q, NEW place
      PROVE  Rest(p, tr, mv, dir, q, place)
                = IF s.dir = dir /\ s.peer = q
                  THEN Units(s.units, 0, Sender(p, dir, q), place)
                  ELSE IF t.dir = dir /\ t.peer = q
                  THEN Units(t.units, 0, Sender(p, dir, q), place)
                  ELSE <<>>
  <2>1. CASE s.dir = dir /\ s.peer = q
    <3>1. Ways(tr, dir, q) = {1}
      BY <1>1, <1>6, <2>1 DEF Ways
    <3>2. (CHOOSE i \in Ways(tr, dir, q) : TRUE) = 1
      BY <3>1
    <3>3. Rest(p, tr, mv, dir, q, place)
            = Units(tr[1].units, mv[1], Sender(p, dir, q), place)
      BY <3>1, <3>2 DEF Rest
    <3> QED
      BY <1>1, <1>5, <2>1, <3>3
  <2>2. CASE t.dir = dir /\ t.peer = q
    <3>1. Ways(tr, dir, q) = {2} /\ ~(s.dir = dir /\ s.peer = q)
      BY <1>1, <1>6, <2>2 DEF Ways
    <3>2. (CHOOSE i \in Ways(tr, dir, q) : TRUE) = 2
      BY <3>1
    <3>3. Rest(p, tr, mv, dir, q, place)
            = Units(tr[2].units, mv[2], Sender(p, dir, q), place)
      BY <3>1, <3>2 DEF Rest
    <3> QED
      BY <1>1, <1>5, <2>2, <3>1, <3>3
  <2>3. CASE ~(s.dir = dir /\ s.peer = q) /\ ~(t.dir = dir /\ t.peer = q)
    <3>1. Ways(tr, dir, q) = {}
      BY <1>1, <2>3 DEF Ways
    <3> QED
      BY <2>3, <3>1, RestNone
  <2> QED
    BY <2>1, <2>2, <2>3
<1>8. \A dir, q, place : Said(p, b, dir, q, place) = Rest(p, tr, mv, dir, q, place)
  BY <1>2 DEF Said, mv
<1> QED
  BY <1>2, <1>4, <1>7, <1>8 DEF tr, b

TwoSay(p, a, b, dir, q, x, y) ==
  (/\ p \in Roles /\ q \in Roles /\ a \in BlockOf(p) /\ b \in BlockOf(p)
   /\ x \in Nat /\ y \in Nat)
  => Stream(p, <<a, b>>, dir, q, <<x, y>>)
       = Said(p, a, dir, q, x) \o Said(p, b, dir, q, y)

LEMMA StreamTwo ==
  ASSUME NEW p, NEW a, NEW b, NEW dir, NEW q, NEW x, NEW y
  PROVE  TwoSay(p, a, b, dir, q, x, y)
<1> SUFFICES ASSUME p \in Roles, q \in Roles, a \in BlockOf(p), b \in BlockOf(p),
                    x \in Nat, y \in Nat
             PROVE  Stream(p, <<a, b>>, dir, q, <<x, y>>)
                      = Said(p, a, dir, q, x) \o Said(p, b, dir, q, y)
  BY DEF TwoSay
<1>1. <<a>> \in Program(p) /\ <<b>> \in Program(p) /\ Len(<<a>>) = 1 /\ Len(<<b>>) = 1
  BY DEF Program
<1>2. <<x>> \in Seq(Nat) /\ <<y>> \in Seq(Nat) /\ Len(<<x>>) = 1 /\ Len(<<y>>) = 1
  OBVIOUS
<1>3. <<a, b>> = <<a>> \o <<b>> /\ <<x, y>> = <<x>> \o <<y>>
  BY TwoIsConcat
<1> DEFINE k == <<a>>
           l == <<b>>
           u == <<x>>
           v == <<y>>
<1>4. /\ k \in Program(p) /\ l \in Program(p) /\ u \in Seq(Nat) /\ v \in Seq(Nat)
      /\ Len(u) = Len(k) /\ Len(v) = Len(l)
  BY <1>1, <1>2
<1>5. Stream(p, k, dir, q, u) = Said(p, a, dir, q, x)
      /\ Stream(p, l, dir, q, v) = Said(p, b, dir, q, y)
  BY StreamOne
<1>6. <<a, b>> = k \o l /\ <<x, y>> = u \o v
  BY <1>3
<1> HIDE DEF k, l, u, v
<1>7. Stream(p, k \o l, dir, q, u \o v) = Stream(p, k, dir, q, u) \o Stream(p, l, dir, q, v)
  <2>1. StreamSplits(p, k, l, dir, q, u, v)
    BY StreamSplit
  <2> QED
    BY <1>4, <2>1 DEF StreamSplits
<1> QED
  BY <1>5, <1>6, <1>7, Zenon

LEMMA PlacesOne ==
  ASSUME NEW b, NEW d \in Nat, NEW n \in Nat, b.draws = n
  PROVE  Places(<<b>>, d, <<d + n>>, d + n)
BY DEF Places

LEMMA FieldsTyped ==
  ASSUME NEW msg \in Messages, NEW n \in Nat
  PROVE  Fields(msg, n) \in Seq(Unit)
<1> DEFINE s == Fields(msg, n)
<1>1. \A k \in 1..n : [msg |-> msg, k |-> k] \in Unit
  BY DEF Unit
<1>2. s \in [1..n -> Unit]
  BY <1>1 DEF Fields
<1> HIDE DEF s
<1>3. s \in Seq(Unit)
  BY <1>2
<1> QED
  BY <1>3 DEF s

Transfer(way, q, units, b) == [dir |-> way, peer |-> q, units |-> units, buf |-> b]
Ways2 == {"send", "receive"}
Opposite(way) == IF way = "send" THEN "receive" ELSE "send"

LEMMA TransferTyped ==
  ASSUME NEW p \in Roles, NEW way \in Ways2, NEW q \in Roles, q # p,
         NEW units \in Seq(Unit), NEW b \in {1, 2}
  PROVE  Transfer(way, q, units, b) \in TransferOf(p)
BY DEF Transfer, TransferOf, Ways2

(* The helper tells both proxies the same number of fields, or hears them   *)
(* from both.                                                               *)
HelperWay(g, way, units) ==
  \A place \in Nat :
    \E e \in Seq(Nat) :
      /\ Len(e) = Len(g)
      /\ \A q \in Roles :
           /\ Stream(HELPER, g, way, q, e)
                = IF q \in Proxies THEN Units(units, 0, Sender(HELPER, way, q), place) ELSE <<>>
           /\ Stream(HELPER, g, Opposite(way), q, e) = <<>>

LEMMA BothWay ==
  ASSUME NEW way \in Ways2, NEW units \in Seq(Unit)
  PROVE  LET g == <<Block(0, <<Transfer(way, P1, units, 1), Transfer(way, P2, units, 2)>>)>>
         IN  g \in Program(HELPER) /\ HelperWay(g, way, units)
<1> DEFINE s == Transfer(way, P1, units, 1)
           t == Transfer(way, P2, units, 2)
           b == Block(0, <<s, t>>)
<1>1. s \in TransferOf(HELPER) /\ t \in TransferOf(HELPER)
  <2>1. HELPER \in Roles /\ P1 \in Roles /\ P2 \in Roles /\ P1 # HELPER /\ P2 # HELPER
    BY DEF Roles, HELPER, P1, P2
  <2> QED
    BY <2>1, TransferTyped
<1>2. s.dir = way /\ s.peer = P1 /\ s.units = units /\ t.dir = way /\ t.peer = P2
      /\ t.units = units /\ s.buf = 1 /\ t.buf = 2
  BY DEF Transfer
<1> HIDE DEF s, t
<1>3. ApartIn(HELPER, s, t)
  BY <1>2 DEF ApartIn, P1, P2
<1>4. /\ b \in BlockOf(HELPER)
      /\ \A dir, q, place :
              Said(HELPER, b, dir, q, place)
                = IF s.dir = dir /\ s.peer = q
                  THEN Units(s.units, 0, Sender(HELPER, dir, q), place)
                  ELSE IF t.dir = dir /\ t.peer = q
                  THEN Units(t.units, 0, Sender(HELPER, dir, q), place)
                  ELSE <<>>
  BY <1>1, <1>3, PairTyped
<1> HIDE DEF b
<1>5. <<b>> \in Program(HELPER) /\ Len(<<b>>) = 1
  BY <1>4 DEF Program
<1>6. ASSUME NEW place \in Nat
      PROVE  /\ <<place>> \in Seq(Nat) /\ Len(<<place>>) = 1
             /\ \A q \in Roles :
                  /\ Stream(HELPER, <<b>>, way, q, <<place>>)
                       = IF q \in Proxies THEN Units(units, 0, Sender(HELPER, way, q), place)
                                          ELSE <<>>
                  /\ Stream(HELPER, <<b>>, Opposite(way), q, <<place>>) = <<>>
  <2>1. HELPER \in Roles
    BY DEF Roles
  <2>2. \A dir : \A q \in Roles :
          Stream(HELPER, <<b>>, dir, q, <<place>>) = Said(HELPER, b, dir, q, place)
    BY <1>4, <2>1, StreamOne
  <2>3. Opposite(way) # way
    BY DEF Opposite, Ways2
  <2>4. \A q : q \in Proxies <=> q = P1 \/ q = P2
    BY DEF Proxies
  <2>5. ASSUME NEW q \in Roles
        PROVE  /\ Said(HELPER, b, way, q, place)
                    = IF q \in Proxies THEN Units(units, 0, Sender(HELPER, way, q), place)
                                       ELSE <<>>
               /\ Said(HELPER, b, Opposite(way), q, place) = <<>>
    BY <1>2, <1>4, <2>3, <2>4
  <2> QED
    BY <2>2, <2>5
<1>7. HelperWay(<<b>>, way, units)
  <2> SUFFICES ASSUME NEW place \in Nat
               PROVE  \E e \in Seq(Nat) :
      /\ Len(e) = Len(<<b>>)
      /\ \A q \in Roles :
           /\ Stream(HELPER, <<b>>, way, q, e)
                = IF q \in Proxies THEN Units(units, 0, Sender(HELPER, way, q), place) ELSE <<>>
           /\ Stream(HELPER, <<b>>, Opposite(way), q, e) = <<>>
    BY DEF HelperWay
  <2> WITNESS <<place>> \in Seq(Nat)
  <2> QED
    BY <1>5, <1>6
<1> QED
  BY <1>5, <1>7 DEF b, s, t

LEMMA EachWay ==
  ASSUME NEW way \in Ways2, NEW units \in Seq(Unit)
  PROVE  LET g == <<Alone(Transfer(way, P1, units, 1)), Alone(Transfer(way, P2, units, 2))>>
         IN  g \in Program(HELPER) /\ HelperWay(g, way, units)
<1> DEFINE s == Transfer(way, P1, units, 1)
           t == Transfer(way, P2, units, 2)
           a == Alone(s)
           b == Alone(t)
<1>1. s \in TransferOf(HELPER) /\ t \in TransferOf(HELPER)
  <2>1. HELPER \in Roles /\ P1 \in Roles /\ P2 \in Roles /\ P1 # HELPER /\ P2 # HELPER
    BY DEF Roles, HELPER, P1, P2
  <2> QED
    BY <2>1, TransferTyped
<1>2. s.dir = way /\ s.peer = P1 /\ s.units = units /\ t.dir = way /\ t.peer = P2
      /\ t.units = units
  BY DEF Transfer
<1> HIDE DEF s, t
<1>3. /\ a \in BlockOf(HELPER)
      /\ \A dir, q, place :
              Said(HELPER, a, dir, q, place)
                = IF s.dir = dir /\ s.peer = q
                  THEN Units(s.units, 0, Sender(HELPER, dir, q), place)
                  ELSE <<>>
  BY <1>1, AloneTyped DEF Alone
<1>4. /\ b \in BlockOf(HELPER)
      /\ \A dir, q, place :
              Said(HELPER, b, dir, q, place)
                = IF t.dir = dir /\ t.peer = q
                  THEN Units(t.units, 0, Sender(HELPER, dir, q), place)
                  ELSE <<>>
  BY <1>1, AloneTyped DEF Alone
<1> HIDE DEF a, b
<1> DEFINE g == <<a, b>>
<1>5. g \in Program(HELPER) /\ Len(g) = 2
  BY <1>3, <1>4 DEF Program
<1>6. ASSUME NEW place \in Nat
      PROVE  /\ <<place, place>> \in Seq(Nat) /\ Len(<<place, place>>) = 2
             /\ \A q \in Roles :
                  /\ Stream(HELPER, g, way, q, <<place, place>>)
                       = IF q \in Proxies THEN Units(units, 0, Sender(HELPER, way, q), place)
                                          ELSE <<>>
                  /\ Stream(HELPER, g, Opposite(way), q, <<place, place>>) = <<>>
  <2>1. HELPER \in Roles
    BY DEF Roles
  <2>2. ASSUME NEW dir, NEW q \in Roles
        PROVE  Stream(HELPER, g, dir, q, <<place, place>>)
                 = Said(HELPER, a, dir, q, place) \o Said(HELPER, b, dir, q, place)
    <3>1. a \in BlockOf(HELPER) /\ b \in BlockOf(HELPER)
      BY <1>3, <1>4
    <3>2. TwoSay(HELPER, a, b, dir, q, place, place)
      BY StreamTwo
    <3> QED
      BY <2>1, <3>1, <3>2 DEF TwoSay
  <2>3. Opposite(way) # way
    BY DEF Opposite, Ways2
  <2>4. \A q : q \in Proxies <=> q = P1 \/ q = P2
    BY DEF Proxies
  <2>5. P1 # P2 /\ P1 \in Roles /\ P2 \in Roles
    BY DEF P1, P2, Roles
  <2>6. ASSUME NEW q \in Roles
        PROVE  Units(units, 0, Sender(HELPER, way, q), place) \in Seq(Packet)
    <3>1. Sender(HELPER, way, q) \in Roles
      BY <2>1 DEF Sender
    <3>2. 0 \in 0..Len(units)
      OBVIOUS
    <3> QED
      BY <3>1, <3>2, UnitsTyped
  <2>7. \A x \in Seq(Packet) : x \o <<>> = x /\ <<>> \o x = x
    OBVIOUS
  <2>8. <<>> \o <<>> = <<>>
    OBVIOUS
  <2>9. ASSUME NEW q \in Roles
        PROVE  /\ Said(HELPER, a, way, q, place) \o Said(HELPER, b, way, q, place)
                    = IF q \in Proxies THEN Units(units, 0, Sender(HELPER, way, q), place)
                                       ELSE <<>>
               /\ Said(HELPER, a, Opposite(way), q, place)
                    \o Said(HELPER, b, Opposite(way), q, place) = <<>>
    <3>1. Said(HELPER, a, Opposite(way), q, place) = <<>>
          /\ Said(HELPER, b, Opposite(way), q, place) = <<>>
      BY <1>2, <1>3, <1>4, <2>3
    <3>2. CASE q = P1
      <4>1. Said(HELPER, a, way, q, place) = Units(units, 0, Sender(HELPER, way, q), place)
        BY <1>2, <1>3, <3>2
      <4>2. Said(HELPER, b, way, q, place) = <<>>
        BY <1>2, <1>4, <2>5, <3>2
      <4> QED
        BY <2>4, <2>6, <2>7, <2>8, <3>1, <3>2, <4>1, <4>2, Zenon
    <3>3. CASE q = P2
      <4>1. Said(HELPER, b, way, q, place) = Units(units, 0, Sender(HELPER, way, q), place)
        BY <1>2, <1>4, <3>3
      <4>2. Said(HELPER, a, way, q, place) = <<>>
        BY <1>2, <1>3, <2>5, <3>3
      <4> QED
        BY <2>4, <2>6, <2>7, <2>8, <3>1, <3>3, <4>1, <4>2, Zenon
    <3>4. CASE q # P1 /\ q # P2
      <4>1. Said(HELPER, a, way, q, place) = <<>> /\ Said(HELPER, b, way, q, place) = <<>>
        BY <1>2, <1>3, <1>4, <3>4
      <4> QED
        BY <2>4, <2>8, <3>1, <3>4, <4>1, Zenon
    <3> QED
      BY <3>2, <3>3, <3>4
  <2>10. <<place, place>> \in Seq(Nat) /\ Len(<<place, place>>) = 2
    OBVIOUS
  <2> HIDE DEF g
  <2> QED
    BY <2>2, <2>9, <2>10
<1> HIDE DEF g
<1>7. HelperWay(g, way, units)
  <2> SUFFICES ASSUME NEW place \in Nat
               PROVE  \E e \in Seq(Nat) :
      /\ Len(e) = Len(g)
      /\ \A q \in Roles :
           /\ Stream(HELPER, g, way, q, e)
                = IF q \in Proxies THEN Units(units, 0, Sender(HELPER, way, q), place) ELSE <<>>
           /\ Stream(HELPER, g, Opposite(way), q, e) = <<>>
    BY DEF HelperWay
  <2> WITNESS <<place, place>> \in Seq(Nat)
  <2> QED
    BY <1>5, <1>6
<1> QED
  BY <1>5, <1>7 DEF g, a, b, s, t

(* Both proxies face the helper with one transfer.                          *)
LEMMA MatchWay ==
  ASSUME NEW way \in Ways2, NEW units \in Seq(Unit), NEW n \in Nat, NEW b \in {1, 2},
         NEW h, h[HELPER] \in Program(HELPER), HelperWay(h[HELPER], way, units),
         \A p \in Proxies :
           h[p] = <<Block(n, <<Transfer(Opposite(way), HELPER, units, b)>>)>>
  PROVE  Match(h)
<1> DEFINE t == Transfer(Opposite(way), HELPER, units, b)
           block == Block(n, <<t>>)
<1>0. HELPER \in Roles /\ HELPER \notin Proxies /\ Proxies \subseteq Roles
      /\ Roles = Proxies \cup {HELPER}
  BY DEF Roles, Proxies, HELPER, P1, P2
<1>1. Opposite(way) \in Ways2 /\ Opposite(way) # way
  BY DEF Opposite, Ways2
<1>2. ASSUME NEW p \in Proxies
      PROVE  t \in TransferOf(p)
  <2>1. p \in Roles /\ HELPER # p
    BY <1>0
  <2> QED
    BY <1>0, <1>1, <2>1, TransferTyped
<1>3. t.dir = Opposite(way) /\ t.peer = HELPER /\ t.units = units
  BY DEF Transfer
<1> HIDE DEF t
<1>4. ASSUME NEW p \in Proxies
      PROVE  /\ block \in BlockOf(p) /\ block.draws = n
             /\ \A dir, q, place :
                  Said(p, block, dir, q, place)
                    = IF t.dir = dir /\ t.peer = q
                      THEN Units(t.units, 0, Sender(p, dir, q), place) ELSE <<>>
  <2>1. p # HELPER /\ t \in TransferOf(p)
    BY <1>0, <1>2
  <2> QED
    BY <2>1, AloneTyped
<1> HIDE DEF block
<1>5. \A p \in Proxies : h[p] = <<block>>
  BY DEF block, t
<1>6. ASSUME NEW p \in Roles
      PROVE  h[p] \in Program(p)
  <2>1. CASE p \in Proxies
    <3>1. block \in BlockOf(p)
      BY <1>4, <2>1
    <3>2. <<block>> \in Seq(BlockOf(p))
      BY <3>1
    <3> QED
      BY <1>5, <2>1, <3>2 DEF Program
  <2> QED
    BY <1>0, <2>1
<1>7. ASSUME NEW d \in Nat
      PROVE  \E e, d2 : InStep(h, d, e, d2)
  <2> DEFINE place == d + n
  <2>1. place \in Nat
    OBVIOUS
  <2>2. PICK g \in Seq(Nat) :
          /\ Len(g) = Len(h[HELPER])
          /\ \A q \in Roles :
               /\ Stream(HELPER, h[HELPER], way, q, g)
                    = IF q \in Proxies THEN Units(units, 0, Sender(HELPER, way, q), place)
                                       ELSE <<>>
               /\ Stream(HELPER, h[HELPER], Opposite(way), q, g) = <<>>
    BY <2>1 DEF HelperWay
  <2> DEFINE e == [p \in Roles |-> IF p = HELPER THEN g ELSE <<place>>]
  <2>3. e[HELPER] = g /\ \A p \in Proxies : e[p] = <<place>>
    BY <1>0
  <2> HIDE DEF e
  <2>4. ASSUME NEW p \in Roles
        PROVE  e[p] \in Seq(Nat) /\ Len(e[p]) = Len(h[p])
    <3>1. CASE p \in Proxies
      <4>1. <<place>> \in Seq(Nat) /\ Len(<<place>>) = 1 /\ Len(<<block>>) = 1
        BY <2>1
      <4> QED
        BY <1>5, <2>3, <3>1, <4>1
    <3> QED
      BY <1>0, <2>2, <2>3, <3>1
  <2>5. ASSUME NEW p \in Proxies
        PROVE  Places(h[p], d, e[p], place)
    <3>1. block.draws = n
      BY <1>4
    <3>2. Places(<<block>>, d, <<place>>, place)
      BY <3>1, PlacesOne
    <3> QED
      BY <1>5, <2>3, <3>2
  <2> HIDE DEF place
  <2>6. ASSUME NEW p \in Proxies, NEW q \in Roles, NEW dir
        PROVE  Stream(p, h[p], dir, q, e[p])
                 = IF dir = Opposite(way) /\ q = HELPER
                   THEN Units(units, 0, Sender(p, dir, HELPER), place) ELSE <<>>
    <3>1. p \in Roles /\ block \in BlockOf(p)
      BY <1>0, <1>4
    <3>2. Stream(p, <<block>>, dir, q, <<place>>) = Said(p, block, dir, q, place)
      BY <2>1, <3>1, StreamOne
    <3>3. Said(p, block, dir, q, place)
            = IF t.dir = dir /\ t.peer = q
              THEN Units(t.units, 0, Sender(p, dir, q), place) ELSE <<>>
      BY <1>4
    <3> QED
      BY <1>3, <1>5, <2>3, <3>2, <3>3
  <2>7. ASSUME NEW p \in Roles, NEW q \in Roles
        PROVE  Stream(p, h[p], "send", q, e[p]) = Stream(q, h[q], "receive", p, e[q])
    <3>1. \/ way = "send" /\ Opposite(way) = "receive"
          \/ way = "receive" /\ Opposite(way) = "send"
      <4>1. way = "send" \/ way = "receive"
        BY DEF Ways2
      <4> QED
        BY <4>1 DEF Opposite
    <3>2. \A x, y : Sender(x, "send", y) = x /\ Sender(x, "receive", y) = y
      BY DEF Sender
    <3>3. CASE p \in Proxies /\ q \in Proxies
      <4>1. Stream(p, h[p], "send", q, e[p]) = <<>>
        BY <1>0, <2>6, <3>3
      <4>2. Stream(q, h[q], "receive", p, e[q]) = <<>>
        BY <1>0, <2>6, <3>3
      <4> QED
        BY <4>1, <4>2
    <3>4. CASE p = HELPER /\ q = HELPER
      <4>1. /\ Stream(HELPER, h[HELPER], way, HELPER, g) = <<>>
            /\ Stream(HELPER, h[HELPER], Opposite(way), HELPER, g) = <<>>
        BY <1>0, <2>2
      <4> QED
        BY <2>3, <3>1, <3>4, <4>1
    <3>5. CASE p = HELPER /\ q \in Proxies
      <4>1. CASE way = "send"
        <5>1. Stream(HELPER, h[HELPER], "send", q, g) = Units(units, 0, HELPER, place)
          BY <2>2, <3>2, <3>5, <4>1
        <5>2. Stream(q, h[q], "receive", HELPER, e[q]) = Units(units, 0, HELPER, place)
          <6>1. Opposite(way) = "receive"
            BY <3>1, <4>1
          <6>2. Stream(q, h[q], "receive", HELPER, e[q])
                  = Units(units, 0, Sender(q, "receive", HELPER), place)
            BY <1>0, <2>6, <3>5, <6>1
          <6> QED
            BY <3>2, <6>2
        <5> QED
          BY <2>3, <3>5, <5>1, <5>2
      <4>2. CASE way = "receive"
        <5>1. Stream(HELPER, h[HELPER], "send", q, g) = <<>>
          BY <2>2, <3>1, <4>2
        <5>2. Stream(q, h[q], "receive", HELPER, e[q]) = <<>>
          BY <1>0, <2>6, <3>1, <3>5, <4>2
        <5> QED
          BY <2>3, <3>5, <5>1, <5>2
      <4> QED
        BY <3>1, <4>1, <4>2
    <3>6. CASE p \in Proxies /\ q = HELPER
      <4>1. CASE way = "receive"
        <5>1. Stream(HELPER, h[HELPER], "receive", p, g) = Units(units, 0, p, place)
          BY <2>2, <3>2, <3>6, <4>1
        <5>2. Stream(p, h[p], "send", HELPER, e[p]) = Units(units, 0, p, place)
          <6>1. Opposite(way) = "send"
            BY <3>1, <4>1
          <6>2. Stream(p, h[p], "send", HELPER, e[p])
                  = Units(units, 0, Sender(p, "send", HELPER), place)
            BY <1>0, <2>6, <3>6, <6>1
          <6> QED
            BY <3>2, <6>2
        <5> QED
          BY <2>3, <3>6, <5>1, <5>2
      <4>2. CASE way = "send"
        <5>1. Stream(HELPER, h[HELPER], "receive", p, g) = <<>>
          BY <2>2, <3>1, <4>2
        <5>2. Stream(p, h[p], "send", HELPER, e[p]) = <<>>
          BY <1>0, <2>6, <3>1, <3>6, <4>2
        <5> QED
          BY <2>3, <3>6, <5>1, <5>2
      <4> QED
        BY <3>1, <4>1, <4>2
    <3> QED
      BY <1>0, <3>3, <3>4, <3>5, <3>6
  <2>8. InStep(h, d, e, place)
    BY <2>1, <2>4, <2>5, <2>7 DEF InStep
  <2> QED
    BY <2>8
<1> QED
  BY <1>6, <1>7 DEF Match

(* The four forms the helper's side takes.                                  *)
LEMMA MatchToBoth ==
  ASSUME NEW units \in Seq(Unit), NEW n \in Nat, NEW b \in {1, 2}, NEW h,
         h[HELPER] = <<ToBoth(units)>>,
         \A p \in Proxies : h[p] = <<Block(n, <<Receive(HELPER, units, b)>>)>>
  PROVE  Match(h)
<1> DEFINE g == <<Block(0, <<Transfer("send", P1, units, 1), Transfer("send", P2, units, 2)>>)>>
<1>1. g \in Program(HELPER) /\ HelperWay(g, "send", units)
  BY BothWay DEF Ways2
<1>2. h[HELPER] = g
  BY DEF ToBoth, Send, Transfer
<1>3. \A p \in Proxies :
        h[p] = <<Block(n, <<Transfer(Opposite("send"), HELPER, units, b)>>)>>
  BY DEF Receive, Transfer, Opposite
<1> HIDE DEF g
<1> QED
  BY <1>1, <1>2, <1>3, MatchWay DEF Ways2

LEMMA MatchFromBoth ==
  ASSUME NEW units \in Seq(Unit), NEW n \in Nat, NEW b \in {1, 2}, NEW h,
         h[HELPER] = <<FromBoth(units)>>,
         \A p \in Proxies : h[p] = <<Block(n, <<Send(HELPER, units, b)>>)>>
  PROVE  Match(h)
<1> DEFINE g == <<Block(0, <<Transfer("receive", P1, units, 1),
                             Transfer("receive", P2, units, 2)>>)>>
<1>1. g \in Program(HELPER) /\ HelperWay(g, "receive", units)
  BY BothWay DEF Ways2
<1>2. h[HELPER] = g
  BY DEF FromBoth, Receive, Transfer
<1>3. \A p \in Proxies :
        h[p] = <<Block(n, <<Transfer(Opposite("receive"), HELPER, units, b)>>)>>
  BY DEF Send, Transfer, Opposite
<1> HIDE DEF g
<1> QED
  BY <1>1, <1>2, <1>3, MatchWay DEF Ways2

LEMMA MatchToEach ==
  ASSUME NEW units \in Seq(Unit), NEW n \in Nat, NEW b \in {1, 2}, NEW h,
         h[HELPER] = <<Alone(Send(P1, units, 1)), Alone(Send(P2, units, 2))>>,
         \A p \in Proxies : h[p] = <<Block(n, <<Receive(HELPER, units, b)>>)>>
  PROVE  Match(h)
<1> DEFINE g == <<Alone(Transfer("send", P1, units, 1)), Alone(Transfer("send", P2, units, 2))>>
<1>1. g \in Program(HELPER) /\ HelperWay(g, "send", units)
  BY EachWay DEF Ways2
<1>2. h[HELPER] = g
  BY DEF Send, Transfer
<1>3. \A p \in Proxies :
        h[p] = <<Block(n, <<Transfer(Opposite("send"), HELPER, units, b)>>)>>
  BY DEF Receive, Transfer, Opposite
<1> HIDE DEF g
<1> QED
  BY <1>1, <1>2, <1>3, MatchWay DEF Ways2

LEMMA MatchFromEach ==
  ASSUME NEW units \in Seq(Unit), NEW n \in Nat, NEW b \in {1, 2}, NEW h,
         h[HELPER] = <<Alone(Receive(P1, units, 1)), Alone(Receive(P2, units, 2))>>,
         \A p \in Proxies : h[p] = <<Block(n, <<Send(HELPER, units, b)>>)>>
  PROVE  Match(h)
<1> DEFINE g == <<Alone(Transfer("receive", P1, units, 1)),
                  Alone(Transfer("receive", P2, units, 2))>>
<1>1. g \in Program(HELPER) /\ HelperWay(g, "receive", units)
  BY EachWay DEF Ways2
<1>2. h[HELPER] = g
  BY DEF Receive, Transfer
<1>3. \A p \in Proxies :
        h[p] = <<Block(n, <<Transfer(Opposite("receive"), HELPER, units, b)>>)>>
  BY DEF Send, Transfer, Opposite
<1> HIDE DEF g
<1> QED
  BY <1>1, <1>2, <1>3, MatchWay DEF Ways2

(* Roles who have one block each, and the others nothing.                   *)
OneSaid(who, b, p, dir, q, place) == IF p \in who THEN Said(p, b[p], dir, q, place) ELSE <<>>

Singles(n, b, who, h) ==
  /\ n \in Nat
  /\ \A p \in Roles : h[p] = IF p \in who THEN <<b[p]>> ELSE <<>>
  /\ \A p \in Roles : p \in who => b[p] \in BlockOf(p)
  /\ \A p \in Proxies : IF p \in who THEN b[p].draws = n ELSE n = 0
  /\ \A p, q \in Roles : \A place \in Nat :
       OneSaid(who, b, p, "send", q, place) = OneSaid(who, b, q, "receive", p, place)

LEMMA MatchSingle ==
  ASSUME NEW n, NEW b, NEW who, NEW h, Singles(n, b, who, h)
  PROVE  Match(h)
<1> USE DEF Singles
<1>0. Proxies \subseteq Roles
  BY DEF Roles, Proxies
<1>1. ASSUME NEW p \in Roles
      PROVE  h[p] \in Program(p)
  <2>1. CASE p \in who
    <3>1. <<b[p]>> \in Seq(BlockOf(p))
      BY <2>1
    <3> QED
      BY <2>1, <3>1 DEF Program
  <2>2. CASE p \notin who
    <3>1. <<>> \in Seq(BlockOf(p))
      OBVIOUS
    <3> QED
      BY <2>2, <3>1 DEF Program
  <2> QED
    BY <2>1, <2>2
<1>2. ASSUME NEW d \in Nat
      PROVE  \E e, d2 : InStep(h, d, e, d2)
  <2> DEFINE place == d + n
             e == [p \in Roles |-> IF p \in who THEN <<place>> ELSE <<>>]
  <2>1. place \in Nat
    OBVIOUS
  <2>2. \A p \in Roles : e[p] = IF p \in who THEN <<place>> ELSE <<>>
    OBVIOUS
  <2> HIDE DEF e
  <2>3. ASSUME NEW p \in Proxies
        PROVE  Places(h[p], d, e[p], place)
    <3>1. CASE p \in who
      <4>1. b[p].draws = n
        BY <3>1
      <4>2. Places(<<b[p]>>, d, <<place>>, place)
        BY <4>1, PlacesOne
      <4> HIDE DEF place
      <4> QED
        BY <1>0, <2>2, <3>1, <4>2
    <3>2. CASE p \notin who
      <4>1. place = d
        BY <3>2
      <4>2. h[p] = <<>> /\ Len(<<>>) = 0
        BY <1>0, <3>2
      <4> HIDE DEF place
      <4> QED
        BY <4>1, <4>2 DEF Places
    <3> QED
      BY <3>1, <3>2
  <2> HIDE DEF place
  <2>4. ASSUME NEW p \in Roles
        PROVE  e[p] \in Seq(Nat) /\ Len(e[p]) = Len(h[p])
    <3>1. <<place>> \in Seq(Nat) /\ <<>> \in Seq(Nat) /\ Len(<<place>>) = 1 /\ Len(<<b[p]>>) = 1
      BY <2>1
    <3> QED
      BY <2>2, <3>1
  <2>5. ASSUME NEW p \in Roles, NEW q \in Roles, NEW dir
        PROVE  Stream(p, h[p], dir, q, e[p]) = OneSaid(who, b, p, dir, q, place)
    <3>1. CASE p \in who
      <4>1. b[p] \in BlockOf(p)
        BY <3>1
      <4>2. Stream(p, <<b[p]>>, dir, q, <<place>>) = Said(p, b[p], dir, q, place)
        BY <2>1, <4>1, StreamOne
      <4> QED
        BY <2>2, <3>1, <4>2 DEF OneSaid
    <3>2. CASE p \notin who
      BY <2>2, <3>2, StreamNone DEF OneSaid
    <3> QED
      BY <3>1, <3>2
  <2>6. ASSUME NEW p \in Roles, NEW q \in Roles
        PROVE  Stream(p, h[p], "send", q, e[p]) = Stream(q, h[q], "receive", p, e[q])
    <3>1. OneSaid(who, b, p, "send", q, place) = OneSaid(who, b, q, "receive", p, place)
      BY <2>1
    <3> QED
      BY <2>5, <3>1
  <2>7. InStep(h, d, e, place)
    BY <2>1, <2>3, <2>4, <2>6 DEF InStep
  <2> QED
    BY <2>7
<1> QED
  BY <1>1, <1>2 DEF Match

(* Values the proxies take from the common stream.                          *)
LEMMA MatchDraw ==
  ASSUME NEW n \in Nat, NEW h, \A p \in Roles : h[p] = Draw(p, n)
  PROVE  Match(h)
<1> DEFINE b == [p \in Roles |-> Block(n, <<>>)]
<1>1. Proxies \subseteq Roles /\ HELPER \notin Proxies /\ Roles = Proxies \cup {HELPER}
  BY DEF Roles, Proxies, HELPER, P1, P2
<1>2. \A p \in Roles : h[p] = IF p \in Proxies THEN <<b[p]>> ELSE <<>>
  BY <1>1 DEF Draw
<1>3. \A p \in Roles : p \in Proxies => b[p] \in BlockOf(p) /\ b[p].draws = n
                        /\ \A dir, q, place : Said(p, b[p], dir, q, place) = <<>>
  BY <1>1, SilentTyped
<1> HIDE DEF b
<1>4. \A p, q \in Roles : \A place \in Nat :
        OneSaid(Proxies, b, p, "send", q, place) = OneSaid(Proxies, b, q, "receive", p, place)
  BY <1>3 DEF OneSaid
<1>5. \A p \in Proxies : IF p \in Proxies THEN b[p].draws = n ELSE n = 0
  BY <1>1, <1>3
<1>6. \A p \in Roles : p \in Proxies => b[p] \in BlockOf(p)
  BY <1>3
<1>7. Singles(n, b, Proxies, h)
  BY <1>2, <1>4, <1>5, <1>6 DEF Singles
<1> QED
  BY <1>7, MatchSingle

(* The proxies' shares cross.                                               *)
LEMMA MatchREC ==
  ASSUME NEW n \in Nat, NEW h, \A p \in Roles : h[p] = REC(p, n)
  PROVE  Match(h)
<1> DEFINE units == Fields("rec", n)
           s == [p \in Roles |-> Transfer("send", Other(p), units, 1)]
           t == [p \in Roles |-> Transfer("receive", Other(p), units, 2)]
           b == [p \in Roles |-> Block(0, <<s[p], t[p]>>)]
<1>1. Proxies \subseteq Roles /\ HELPER \notin Proxies /\ Roles = Proxies \cup {HELPER}
  BY DEF Roles, Proxies, HELPER, P1, P2
<1>2. \A p \in Proxies : Other(p) \in Proxies /\ Other(p) # p /\ Other(Other(p)) = p
                          /\ \A q \in Proxies : q # p => q = Other(p)
  BY DEF Proxies, P1, P2, Other
<1>3. \A p \in Roles : h[p] = IF p \in Proxies THEN <<b[p]>> ELSE <<>>
  BY <1>1 DEF REC, Send, Receive, Transfer
<1>4. units \in Seq(Unit)
  <2>1. "rec" \in Messages
    BY DEF Messages
  <2> QED
    BY <2>1, FieldsTyped
<1> HIDE DEF units
<1>5. ASSUME NEW p \in Proxies
      PROVE  s[p] \in TransferOf(p) /\ t[p] \in TransferOf(p)
  <2>1. p \in Roles /\ Other(p) \in Roles /\ Other(p) # p
    BY <1>1, <1>2
  <2>2. "send" \in Ways2 /\ "receive" \in Ways2
    BY DEF Ways2
  <2> QED
    BY <1>4, <2>1, <2>2, TransferTyped
<1>6. \A p \in Roles : /\ s[p].dir = "send" /\ s[p].peer = Other(p) /\ s[p].units = units
                        /\ t[p].dir = "receive" /\ t[p].peer = Other(p) /\ t[p].units = units
                        /\ s[p].buf = 1 /\ t[p].buf = 2
  BY DEF Transfer
<1>7. \A p \in Roles : b[p] = Block(0, <<s[p], t[p]>>)
  OBVIOUS
<1> HIDE DEF s, t, b
<1>8. ASSUME NEW p \in Proxies
      PROVE  /\ b[p] \in BlockOf(p) /\ b[p].draws = 0
             /\ \A q, place : Said(p, b[p], "send", q, place)
                             = IF q = Other(p) THEN Units(units, 0, p, place) ELSE <<>>
             /\ \A q, place : Said(p, b[p], "receive", q, place)
                             = IF q = Other(p) THEN Units(units, 0, q, place) ELSE <<>>
  <2>1. ApartIn(p, s[p], t[p])
    BY <1>1, <1>6 DEF ApartIn
  <2>2. p \in Roles
    BY <1>1
  <2> DEFINE x == s[p]
             y == t[p]
             z == b[p]
  <2>3. x \in TransferOf(p) /\ y \in TransferOf(p) /\ ApartIn(p, x, y)
        /\ z = Block(0, <<x, y>>)
    BY <1>5, <1>7, <2>1, <2>2
  <2>4. x.dir = "send" /\ x.peer = Other(p) /\ x.units = units
        /\ y.dir = "receive" /\ y.peer = Other(p) /\ y.units = units
    BY <1>6, <2>2
  <2>5. \A q : Sender(p, "send", q) = p /\ Sender(p, "receive", q) = q
    BY DEF Sender
  <2> HIDE DEF x, y, z
  <2>6. /\ z \in BlockOf(p) /\ z.draws = 0
        /\ \A dir, q, place :
                  Said(p, z, dir, q, place)
                    = IF x.dir = dir /\ x.peer = q
                      THEN Units(x.units, 0, Sender(p, dir, q), place)
                      ELSE IF y.dir = dir /\ y.peer = q
                      THEN Units(y.units, 0, Sender(p, dir, q), place)
                      ELSE <<>>
    BY <2>3, PairTyped
  <2>7. \A q, place : Said(p, z, "send", q, place)
                             = IF q = Other(p) THEN Units(units, 0, p, place) ELSE <<>>
    BY <2>4, <2>5, <2>6
  <2>8. \A q, place : Said(p, z, "receive", q, place)
                             = IF q = Other(p) THEN Units(units, 0, q, place) ELSE <<>>
    BY <2>4, <2>5, <2>6
  <2> QED
    BY <2>6, <2>7, <2>8 DEF z
<1>9. ASSUME NEW p \in Roles, NEW q \in Roles, NEW place \in Nat
      PROVE  OneSaid(Proxies, b, p, "send", q, place)
               = OneSaid(Proxies, b, q, "receive", p, place)
  <2>2. p \in Proxies => Said(p, b[p], "send", q, place)
                           = IF q = Other(p) THEN Units(units, 0, p, place) ELSE <<>>
    BY <1>8
  <2>3. q \in Proxies => Said(q, b[q], "receive", p, place)
                           = IF p = Other(q) THEN Units(units, 0, p, place) ELSE <<>>
    BY <1>8
  <2>4. CASE p \in Proxies /\ q \in Proxies
    <3>1. q = Other(p) <=> p = Other(q)
      BY <1>2, <2>4
    <3> QED
      BY <2>2, <2>3, <2>4, <3>1 DEF OneSaid
  <2>5. CASE p \in Proxies /\ q \notin Proxies
    <3>1. q # Other(p)
      BY <1>2, <2>5
    <3> QED
      BY <2>2, <2>5, <3>1 DEF OneSaid
  <2>6. CASE p \notin Proxies /\ q \in Proxies
    <3>1. p # Other(q)
      BY <1>2, <2>6
    <3> QED
      BY <2>3, <2>6, <3>1 DEF OneSaid
  <2>7. CASE p \notin Proxies /\ q \notin Proxies
    BY <2>7 DEF OneSaid
  <2> QED
    BY <2>4, <2>5, <2>6, <2>7
<1>10. \A p \in Roles : p \in Proxies => b[p] \in BlockOf(p)
  BY <1>8
<1>11. \A p \in Proxies : IF p \in Proxies THEN b[p].draws = 0 ELSE 0 = 0
  BY <1>8
<1>12. Singles(0, b, Proxies, h)
  BY <1>3, <1>9, <1>10, <1>11 DEF Singles
<1> QED
  BY <1>12, MatchSingle

(* P1's command.                                                            *)
LEMMA MatchCommand ==
  ASSUME NEW units \in Seq(Unit), NEW h,
         h[P1] = <<Alone(Send(HELPER, units, 1))>>,
         h[P2] = <<>>,
         h[HELPER] = <<Alone(Receive(P1, units, 1))>>
  PROVE  Match(h)
<1> DEFINE s == Transfer("send", HELPER, units, 1)
           t == Transfer("receive", P1, units, 1)
           b == [p \in Roles |-> IF p = P1 THEN Block(0, <<s>>) ELSE Block(0, <<t>>)]
           who == {P1, HELPER}
<1>1. Roles = {P1, P2, HELPER} /\ P1 # P2 /\ P1 # HELPER /\ P2 # HELPER /\ Proxies = {P1, P2}
  BY DEF Roles, HELPER, P1, P2, Proxies
<1>2. \A p \in Roles : h[p] = IF p \in who THEN <<b[p]>> ELSE <<>>
  BY <1>1 DEF Alone, Send, Receive, Transfer
<1>3. s \in TransferOf(P1) /\ t \in TransferOf(HELPER)
  BY <1>1, TransferTyped DEF Ways2
<1>4. s.dir = "send" /\ s.peer = HELPER /\ s.units = units
      /\ t.dir = "receive" /\ t.peer = P1 /\ t.units = units
  BY DEF Transfer
<1>5. b[P1] = Block(0, <<s>>) /\ b[HELPER] = Block(0, <<t>>)
  BY <1>1
<1> HIDE DEF s, t, b
<1>6. /\ b[P1] \in BlockOf(P1) /\ b[P1].draws = 0
      /\ \A dir, q, place :
              Said(P1, b[P1], dir, q, place)
                = IF s.dir = dir /\ s.peer = q THEN Units(s.units, 0, Sender(P1, dir, q), place)
                                               ELSE <<>>
  BY <1>3, <1>5, AloneTyped
<1>7. /\ b[HELPER] \in BlockOf(HELPER)
      /\ \A dir, q, place :
              Said(HELPER, b[HELPER], dir, q, place)
                = IF t.dir = dir /\ t.peer = q
                  THEN Units(t.units, 0, Sender(HELPER, dir, q), place) ELSE <<>>
  BY <1>3, <1>5, AloneTyped
<1>8. ASSUME NEW p \in Roles, NEW q \in Roles, NEW place \in Nat
      PROVE  OneSaid(who, b, p, "send", q, place) = OneSaid(who, b, q, "receive", p, place)
  <2>1. Sender(P1, "send", HELPER) = P1 /\ Sender(HELPER, "receive", P1) = P1
    BY DEF Sender
  <2>2. CASE p = P1 /\ q = HELPER
    BY <1>4, <1>6, <1>7, <2>1, <2>2 DEF OneSaid
  <2>3. CASE ~(p = P1 /\ q = HELPER)
    <3>1. p \in who => Said(p, b[p], "send", q, place) = <<>>
      BY <1>4, <1>6, <1>7, <2>3
    <3>2. q \in who => Said(q, b[q], "receive", p, place) = <<>>
      BY <1>4, <1>6, <1>7, <2>3
    <3> QED
      BY <3>1, <3>2 DEF OneSaid
  <2> QED
    BY <2>2, <2>3
<1>9. \A p \in Roles : p \in who => b[p] \in BlockOf(p)
  BY <1>6, <1>7
<1>10. \A p \in Proxies : IF p \in who THEN b[p].draws = 0 ELSE 0 = 0
  BY <1>1, <1>6
<1> HIDE DEF who
<1>11. Singles(0, b, who, h)
  BY <1>2, <1>8, <1>9, <1>10 DEF Singles
<1> QED
  BY <1>11, MatchSingle

-----------------------------------------------------------------------------
(* The building blocks. *)

LEMMA RolesAre ==
  /\ HELPER \in Roles /\ HELPER \notin Proxies /\ Proxies \subseteq Roles
  /\ Roles = Proxies \cup {HELPER}
  /\ \A p \in Proxies : p # HELPER
BY DEF Roles, Proxies, HELPER, P1, P2

(* The helper hears from both proxies and answers both.                     *)
Asks(h, n, units, answer, b) ==
  /\ n \in Nat /\ units \in Seq(Unit) /\ answer \in Seq(Unit) /\ b \in {1, 2}
  /\ h[HELPER] = <<FromBoth(units), ToBoth(answer)>>
  /\ \A p \in Proxies : h[p] = <<Block(n, <<Send(HELPER, units, 1)>>),
                                  Alone(Receive(HELPER, answer, b))>>

LEMMA MatchAsks ==
  ASSUME NEW h, NEW n, NEW units, NEW answer, NEW b, Asks(h, n, units, answer, b)
  PROVE  Match(h)
<1> DEFINE f == [p \in Roles |-> IF p = HELPER THEN <<FromBoth(units)>>
                                 ELSE <<Block(n, <<Send(HELPER, units, 1)>>)>>]
           g == [p \in Roles |-> IF p = HELPER THEN <<ToBoth(answer)>>
                                 ELSE <<Block(0, <<Receive(HELPER, answer, b)>>)>>]
<1>1. n \in Nat /\ units \in Seq(Unit) /\ answer \in Seq(Unit) /\ b \in {1, 2}
  BY DEF Asks
<1>2. f[HELPER] = <<FromBoth(units)>>
      /\ \A p \in Proxies : f[p] = <<Block(n, <<Send(HELPER, units, 1)>>)>>
  BY RolesAre
<1>3. g[HELPER] = <<ToBoth(answer)>>
      /\ \A p \in Proxies : g[p] = <<Block(0, <<Receive(HELPER, answer, b)>>)>>
  BY RolesAre
<1> HIDE DEF f, g
<1>4. Match(f)
  <2>1. 1 \in {1, 2}
    OBVIOUS
  <2> QED
    BY <1>1, <1>2, <2>1, MatchFromBoth
<1>5. Match(g)
  <2>1. 0 \in Nat
    OBVIOUS
  <2> QED
    BY <1>1, <1>3, <2>1, MatchToBoth
<1>6. ASSUME NEW p \in Roles
      PROVE  h[p] = f[p] \o g[p]
  <2>1. CASE p = HELPER
    <3>1. h[HELPER] = <<FromBoth(units), ToBoth(answer)>>
      BY DEF Asks
    <3> QED
      BY <1>2, <1>3, <2>1, <3>1, TwoConcat
  <2>2. CASE p \in Proxies
    <3>1. h[p] = <<Block(n, <<Send(HELPER, units, 1)>>), Block(0, <<Receive(HELPER, answer, b)>>)>>
      BY <2>2 DEF Asks, Alone
    <3> QED
      BY <1>2, <1>3, <2>2, <3>1, TwoConcat
  <2> QED
    BY <2>1, <2>2, RolesAre
<1> QED
  BY <1>4, <1>5, <1>6, MatchConcat

(* The same with the helper serving one proxy after the other.              *)
AsksEach(h, n, units, answer) ==
  /\ n \in Nat /\ units \in Seq(Unit) /\ answer \in Seq(Unit)
  /\ h[HELPER] = <<Alone(Receive(P1, units, 1)), Alone(Receive(P2, units, 2)),
                   Alone(Send(P1, answer, 1)), Alone(Send(P2, answer, 2))>>
  /\ \A p \in Proxies : h[p] = <<Block(n, <<Send(HELPER, units, 1)>>),
                                  Alone(Receive(HELPER, answer, 1))>>

LEMMA MatchAsksEach ==
  ASSUME NEW h, NEW n, NEW units, NEW answer, AsksEach(h, n, units, answer)
  PROVE  Match(h)
<1> DEFINE f == [p \in Roles |->
                   IF p = HELPER
                   THEN <<Alone(Receive(P1, units, 1)), Alone(Receive(P2, units, 2))>>
                   ELSE <<Block(n, <<Send(HELPER, units, 1)>>)>>]
           g == [p \in Roles |->
                   IF p = HELPER
                   THEN <<Alone(Send(P1, answer, 1)), Alone(Send(P2, answer, 2))>>
                   ELSE <<Block(0, <<Receive(HELPER, answer, 1)>>)>>]
<1>1. n \in Nat /\ units \in Seq(Unit) /\ answer \in Seq(Unit) /\ 1 \in {1, 2} /\ 0 \in Nat
  BY DEF AsksEach
<1>2. f[HELPER] = <<Alone(Receive(P1, units, 1)), Alone(Receive(P2, units, 2))>>
      /\ \A p \in Proxies : f[p] = <<Block(n, <<Send(HELPER, units, 1)>>)>>
  BY RolesAre
<1>3. g[HELPER] = <<Alone(Send(P1, answer, 1)), Alone(Send(P2, answer, 2))>>
      /\ \A p \in Proxies : g[p] = <<Block(0, <<Receive(HELPER, answer, 1)>>)>>
  BY RolesAre
<1> HIDE DEF f, g
<1>4. Match(f)
  BY <1>1, <1>2, MatchFromEach
<1>5. Match(g)
  BY <1>1, <1>3, MatchToEach
<1>6. ASSUME NEW p \in Roles
      PROVE  h[p] = f[p] \o g[p]
  <2>1. CASE p = HELPER
    <3>1. h[HELPER] = <<Alone(Receive(P1, units, 1)), Alone(Receive(P2, units, 2)),
                        Alone(Send(P1, answer, 1)), Alone(Send(P2, answer, 2))>>
      BY DEF AsksEach
    <3> DEFINE a == Alone(Receive(P1, units, 1))
               b == Alone(Receive(P2, units, 2))
               c == Alone(Send(P1, answer, 1))
               d == Alone(Send(P2, answer, 2))
    <3>2. h[p] = <<a, b, c, d>> /\ f[p] = <<a, b>> /\ g[p] = <<c, d>>
      BY <1>2, <1>3, <2>1, <3>1
    <3> HIDE DEF a, b, c, d
    <3>3. <<a, b, c, d>> = <<a, b>> \o <<c, d>>
      BY FourConcat
    <3> QED
      BY <3>2, <3>3
  <2>2. CASE p \in Proxies
    <3>1. h[p] = <<Block(n, <<Send(HELPER, units, 1)>>), Block(0, <<Receive(HELPER, answer, 1)>>)>>
      BY <2>2 DEF AsksEach, Alone
    <3> QED
      BY <1>2, <1>3, <2>2, <3>1, TwoConcat
  <2> QED
    BY <2>1, <2>2, RolesAre
<1> QED
  BY <1>4, <1>5, <1>6, MatchConcat

LEMMA MatchMUX ==
  ASSUME NEW n \in Nat, NEW h, \A p \in Roles : h[p] = MUX(p, n)
  PROVE  Match(h)
<1> DEFINE units == Fields("mux", 2 * n)
           answer == Fields("muxed", n)
<1>1. units \in Seq(Unit) /\ answer \in Seq(Unit)
  <2>1. "mux" \in Messages /\ "muxed" \in Messages /\ 2 * n \in Nat
    BY DEF Messages
  <2> QED
    BY <2>1, FieldsTyped
<1>2. Asks(h, n * 4, units, answer, 1)
  <2>1. h[HELPER] = <<FromBoth(units), ToBoth(answer)>>
    BY RolesAre DEF MUX
  <2>2. \A p \in Proxies : h[p] = <<Block(n * 4, <<Send(HELPER, units, 1)>>),
                                    Alone(Receive(HELPER, answer, 1))>>
    BY RolesAre DEF MUX, MUXDraws
  <2>3. n * 4 \in Nat /\ 1 \in {1, 2}
    OBVIOUS
  <2> HIDE DEF units, answer
  <2> QED
    BY <1>1, <2>1, <2>2, <2>3 DEF Asks
<1> HIDE DEF units, answer
<1> QED
  BY <1>2, MatchAsks

LEMMA MatchMUX1 ==
  ASSUME NEW h, \A p \in Roles : h[p] = MUX1(p)
  PROVE  Match(h)
<1> DEFINE units == Fields("mux", 2)
           answer == Fields("muxed", 1)
<1>1. units \in Seq(Unit) /\ answer \in Seq(Unit)
  <2>1. "mux" \in Messages /\ "muxed" \in Messages /\ 2 \in Nat /\ 1 \in Nat
    BY DEF Messages
  <2> QED
    BY <2>1, FieldsTyped
<1>2. AsksEach(h, 4, units, answer)
  <2>1. h[HELPER] = <<Alone(Receive(P1, units, 1)), Alone(Receive(P2, units, 2)),
                   Alone(Send(P1, answer, 1)), Alone(Send(P2, answer, 2))>>
    BY RolesAre DEF MUX1
  <2>2. \A p \in Proxies : h[p] = <<Block(4, <<Send(HELPER, units, 1)>>),
                                    Alone(Receive(HELPER, answer, 1))>>
    BY RolesAre DEF MUX1
  <2> HIDE DEF units, answer
  <2> QED
    BY <1>1, <2>1, <2>2 DEF AsksEach
<1> HIDE DEF units, answer
<1> QED
  BY <1>2, MatchAsksEach

LEMMA MatchMRound ==
  ASSUME NEW n \in Nat, NEW h, \A p \in Roles : h[p] = MRound(p, n)
  PROVE  Match(h)
<1> DEFINE units == Fields("round", n)
           answer == Fields("rounded", n)
<1>1. units \in Seq(Unit) /\ answer \in Seq(Unit)
  <2>1. "round" \in Messages /\ "rounded" \in Messages
    BY DEF Messages
  <2> QED
    BY <2>1, FieldsTyped
<1>2. Asks(h, 0, units, answer, 1)
  <2>1. h[HELPER] = <<FromBoth(units), ToBoth(answer)>>
    BY RolesAre DEF MRound
  <2>2. \A p \in Proxies : h[p] = <<Block(0, <<Send(HELPER, units, 1)>>),
                                    Alone(Receive(HELPER, answer, 1))>>
    BY RolesAre DEF MRound, Alone
  <2>3. 0 \in Nat /\ 1 \in {1, 2}
    OBVIOUS
  <2> HIDE DEF units, answer
  <2> QED
    BY <1>1, <2>1, <2>2, <2>3 DEF Asks
<1> HIDE DEF units, answer
<1> QED
  BY <1>2, MatchAsks

LEMMA MatchPCB ==
  ASSUME NEW n \in Nat, NEW h, \A p \in Roles : h[p] = PCB(p, n)
  PROVE  Match(h)
<1> DEFINE units == Fields("compare", n * BITS)
           answer == Fields("compared", n)
<1>0. n * BITS \in Nat /\ n * BITS * 3 \in Nat
  BY BITSAssumption
<1>1. units \in Seq(Unit) /\ answer \in Seq(Unit)
  <2>1. "compare" \in Messages /\ "compared" \in Messages
    BY DEF Messages
  <2> QED
    BY <1>0, <2>1, FieldsTyped
<1>2. AsksEach(h, n * BITS * 3, units, answer)
  <2>1. h[HELPER] = <<Alone(Receive(P1, units, 1)), Alone(Receive(P2, units, 2)),
                   Alone(Send(P1, answer, 1)), Alone(Send(P2, answer, 2))>>
    BY RolesAre DEF PCB
  <2>2. \A p \in Proxies : h[p] = <<Block(n * BITS * 3, <<Send(HELPER, units, 1)>>),
                                    Alone(Receive(HELPER, answer, 1))>>
    BY RolesAre DEF PCB
  <2> HIDE DEF units, answer
  <2> QED
    BY <1>0, <1>1, <2>1, <2>2 DEF AsksEach
<1> HIDE DEF units, answer
<1> QED
  BY <1>2, MatchAsksEach

(* A message of the helper, an opening, then an exchange with the helper.   *)
Opens(h, m, n, units, rest) ==
  /\ n \in Nat /\ m \in Nat /\ units \in Seq(Unit) /\ Match(rest)
  /\ h[HELPER] = <<ToBoth(units)>> \o rest[HELPER]
  /\ \A p \in Proxies :
       h[p] = <<Block(m, <<Receive(HELPER, units, 1)>>)>> \o REC(p, n) \o rest[p]

LEMMA MatchOpened ==
  ASSUME NEW h, NEW m, NEW n, NEW units, NEW rest, Opens(h, m, n, units, rest)
  PROVE  Match(h)
<1> USE DEF Opens
<1> DEFINE f == [p \in Roles |-> IF p = HELPER THEN <<ToBoth(units)>>
                                 ELSE <<Block(m, <<Receive(HELPER, units, 1)>>)>>]
           g == [p \in Roles |-> REC(p, n)]
           k == [p \in Roles |-> f[p] \o g[p]]
<1>1. f[HELPER] = <<ToBoth(units)>>
      /\ \A p \in Proxies : f[p] = <<Block(m, <<Receive(HELPER, units, 1)>>)>>
  BY RolesAre
<1>2. \A p \in Roles : g[p] = REC(p, n) /\ k[p] = f[p] \o g[p]
  OBVIOUS
<1> HIDE DEF f, g, k
<1>3. Match(f)
  <2>1. 1 \in {1, 2}
    OBVIOUS
  <2> QED
    BY <1>1, <2>1, MatchToBoth
<1>4. Match(g)
  BY <1>2, MatchREC
<1>5. Match(k)
  BY <1>2, <1>3, <1>4, MatchConcat
<1>6. ASSUME NEW p \in Roles
      PROVE  h[p] = k[p] \o rest[p]
  <2>1. CASE p = HELPER
    <3>1. k[HELPER] = <<ToBoth(units)>> \o <<>>
      BY <1>1, <1>2, RolesAre DEF REC
    <3> DEFINE s == <<ToBoth(units)>>
    <3>2. s \in Seq({ToBoth(units)})
      OBVIOUS
    <3>3. s \o <<>> = s
      <4> HIDE DEF s
      <4> QED
        BY <3>2
    <3> QED
      BY <2>1, <3>1, <3>3
  <2>2. CASE p \in Proxies
    BY <1>1, <1>2, <2>2, RolesAre
  <2> QED
    BY <2>1, <2>2, RolesAre
<1> QED
  BY <1>5, <1>6, MatchConcat

LEMMA MatchMSB ==
  ASSUME NEW n \in Nat, NEW h, \A p \in Roles : h[p] = MSB(p, n)
  PROVE  Match(h)
<1> DEFINE mask == Fields("mask", n * (1 + BITS))
           masked == Fields("masked", n * (BITS + 2))
           answer == Fields("msb", n * 2)
           first == <<Block(1, <<Send(HELPER, masked, 1)>>), Alone(Receive(HELPER, answer, 2))>>
           rest == [p \in Roles |-> IF p = HELPER THEN <<FromBoth(masked), ToBoth(answer)>>
                                    ELSE first]
<1>0. n * (1 + BITS) \in Nat /\ n * (BITS + 2) \in Nat /\ n * 2 \in Nat
  BY BITSAssumption
<1>1. mask \in Seq(Unit) /\ masked \in Seq(Unit) /\ answer \in Seq(Unit)
  <2>1. "mask" \in Messages /\ "masked" \in Messages /\ "msb" \in Messages
    BY DEF Messages
  <2> QED
    BY <1>0, <2>1, FieldsTyped
<1>2. h[HELPER] = <<ToBoth(mask), FromBoth(masked), ToBoth(answer)>>
  BY RolesAre DEF MSB
<1>3. \A p \in Proxies : h[p] = <<Block(1, <<Receive(HELPER, mask, 1)>>)>> \o REC(p, n) \o first
  BY RolesAre DEF MSB
<1>4. rest[HELPER] = <<FromBoth(masked), ToBoth(answer)>> /\ \A p \in Proxies : rest[p] = first
  BY RolesAre
<1> HIDE DEF mask, masked, answer, rest
<1>5. Asks(rest, 1, masked, answer, 2)
  BY <1>1, <1>4 DEF Asks
<1>6. Match(rest)
  BY <1>5, MatchAsks
<1>8. h[HELPER] = <<ToBoth(mask)>> \o rest[HELPER]
  <2> DEFINE b1 == ToBoth(mask)
             b2 == FromBoth(masked)
             b3 == ToBoth(answer)
  <2>1. h[HELPER] = <<b1, b2, b3>> /\ rest[HELPER] = <<b2, b3>>
    BY <1>2, <1>4
  <2> HIDE DEF b1, b2, b3
  <2>2. <<b1, b2, b3>> = <<b1>> \o <<b2, b3>>
    BY ThreeConcat, Zenon
  <2>3. h[HELPER] = <<b1>> \o rest[HELPER]
    BY <2>1, <2>2
  <2> QED
    BY <2>3 DEF b1
<1>9. \A p \in Proxies :
         h[p] = <<Block(1, <<Receive(HELPER, mask, 1)>>)>> \o REC(p, n) \o rest[p]
  BY <1>3, <1>4
<1>10. Opens(h, 1, n, mask, rest)
  BY <1>1, <1>6, <1>8, <1>9 DEF Opens
<1> QED
  BY <1>10, MatchOpened

LEMMA MatchMOC ==
  ASSUME NEW n \in Nat, NEW h, \A p \in Roles : h[p] = MOC(p, n)
  PROVE  Match(h)
<1> DEFINE wrap == Fields("wrap", n * (1 + BITS + 1))
           rest == [p \in Roles |-> PCB(p, n)]
<1>1. wrap \in Seq(Unit)
  <2>1. "wrap" \in Messages
    BY DEF Messages
  <2>2. n * (1 + BITS + 1) \in Nat
    BY BITSAssumption
  <2> QED
    BY <2>1, <2>2, FieldsTyped
<1>2. \A p \in Roles : rest[p] = PCB(p, n)
  OBVIOUS
<1>3. h[HELPER] = <<ToBoth(wrap)>> \o REC(HELPER, n) \o PCB(HELPER, n)
  BY RolesAre DEF MOC
<1>4. \A p \in Proxies :
         h[p] = <<Block(0, <<Receive(HELPER, wrap, 1)>>)>> \o REC(p, n) \o PCB(p, n)
  BY RolesAre DEF MOC, Alone
<1> HIDE DEF wrap, rest
<1>5. Match(rest)
  BY <1>2, MatchPCB
<1>7. h[HELPER] = <<ToBoth(wrap)>> \o rest[HELPER]
  <2> DEFINE s == <<ToBoth(wrap)>>
  <2>1. s \in Seq({ToBoth(wrap)})
    OBVIOUS
  <2>2. s \o <<>> = s
    <3> HIDE DEF s
    <3> QED
      BY <2>1
  <2>3. REC(HELPER, n) = <<>>
    BY DEF REC
  <2> QED
    BY <1>2, <1>3, <2>2, <2>3, RolesAre
<1>8. \A p \in Proxies :
         h[p] = <<Block(0, <<Receive(HELPER, wrap, 1)>>)>> \o REC(p, n) \o rest[p]
  BY <1>2, <1>4, RolesAre
<1>9. Opens(h, 0, n, wrap, rest)
  BY <1>1, <1>5, <1>7, <1>8 DEF Opens
<1> QED
  BY <1>9, MatchOpened

LEMMA MatchMSB1 ==
  ASSUME NEW h, \A p \in Roles : h[p] = MSB1(p)
  PROVE  Match(h)
<1> DEFINE masked == Fields("masked", 2)
           answer == Fields("msb", 2)
           first == [p \in Roles |-> MOC(p, 1)]
           rest == [p \in Roles |->
                      IF p = HELPER THEN <<FromBoth(masked), ToBoth(answer)>>
                      ELSE <<Block(1, <<Send(HELPER, masked, 1)>>),
                             Alone(Receive(HELPER, answer, 1))>>]
<1>1. masked \in Seq(Unit) /\ answer \in Seq(Unit)
  <2>1. "masked" \in Messages /\ "msb" \in Messages /\ 2 \in Nat
    BY DEF Messages
  <2> QED
    BY <2>1, FieldsTyped
<1>2. \A p \in Roles : h[p] = first[p] \o rest[p]
  BY DEF MSB1
<1>3. rest[HELPER] = <<FromBoth(masked), ToBoth(answer)>>
      /\ \A p \in Proxies : rest[p] = <<Block(1, <<Send(HELPER, masked, 1)>>),
                                        Alone(Receive(HELPER, answer, 1))>>
  BY RolesAre
<1>4. \A p \in Roles : first[p] = MOC(p, 1)
  OBVIOUS
<1> HIDE DEF masked, answer, first, rest
<1>5. Asks(rest, 1, masked, answer, 1)
  BY <1>1, <1>3 DEF Asks
<1>6. Match(rest)
  BY <1>5, MatchAsks
<1>7. Match(first)
  <2>1. 1 \in Nat
    OBVIOUS
  <2> QED
    BY <1>4, <2>1, MatchMOC
<1> QED
  BY <1>2, <1>6, <1>7, MatchConcat

LEMMA MatchAck ==
  ASSUME NEW h, \A p \in Roles : h[p] = Ack(p)
  PROVE  Match(h)
<1> DEFINE units == Fields("ack", 1)
<1>1. units \in Seq(Unit)
  <2>1. "ack" \in Messages /\ 1 \in Nat
    BY DEF Messages
  <2> QED
    BY <2>1, FieldsTyped
<1>2. h[HELPER] = <<Alone(Receive(P1, units, 1)), Alone(Receive(P2, units, 2))>>
  BY RolesAre DEF Ack
<1>3. \A p \in Proxies : h[p] = <<Block(0, <<Send(HELPER, units, 1)>>)>>
  BY RolesAre DEF Ack, Alone
<1>4. 0 \in Nat /\ 1 \in {1, 2}
  OBVIOUS
<1> HIDE DEF units
<1> QED
  BY <1>1, <1>2, <1>3, <1>4, MatchFromEach

LEMMA MatchTriples ==
  ASSUME NEW n \in Nat, NEW h, \A p \in Roles : h[p] = Triples(p, n)
  PROVE  Match(h)
<1> DEFINE units == Fields("triple", 3 * n)
           f == [p \in Roles |->
                   IF p = HELPER THEN <<Alone(Send(P1, units, 1)), Alone(Send(P2, units, 2))>>
                   ELSE <<Block(0, <<Receive(HELPER, units, 1)>>)>>]
           g == [p \in Roles |-> REC(p, 2 * n)]
<1>0. 2 * n \in Nat /\ 3 * n \in Nat /\ 0 \in Nat /\ 1 \in {1, 2}
  OBVIOUS
<1>1. units \in Seq(Unit)
  <2>1. "triple" \in Messages
    BY DEF Messages
  <2> QED
    BY <1>0, <2>1, FieldsTyped
<1>2. f[HELPER] = <<Alone(Send(P1, units, 1)), Alone(Send(P2, units, 2))>>
      /\ \A p \in Proxies : f[p] = <<Block(0, <<Receive(HELPER, units, 1)>>)>>
  BY RolesAre
<1>3. \A p \in Roles : g[p] = REC(p, 2 * n)
  OBVIOUS
<1>4. h[HELPER] = <<Alone(Send(P1, units, 1)), Alone(Send(P2, units, 2))>>
  BY RolesAre DEF Triples
<1>5. \A p \in Proxies : h[p] = <<Block(0, <<Receive(HELPER, units, 1)>>)>> \o REC(p, 2 * n)
  BY RolesAre DEF Triples, Alone
<1> HIDE DEF units, f, g
<1>6. Match(f)
  BY <1>0, <1>1, <1>2, MatchToEach
<1>7. Match(g)
  BY <1>0, <1>3, MatchREC
<1>8. ASSUME NEW p \in Roles
      PROVE  h[p] = f[p] \o g[p]
  <2>1. CASE p = HELPER
    <3>1. g[p] = <<>>
      BY <1>3, <2>1 DEF REC
    <3>2. f[p] \in Program(p) /\ h[p] = f[p]
      BY <1>2, <1>4, <1>6, <2>1 DEF Match
    <3> QED
      BY <3>1, <3>2 DEF Program
  <2>2. CASE p \in Proxies
    BY <1>2, <1>3, <1>5, <2>2
  <2> QED
    BY <2>1, <2>2, RolesAre
<1> QED
  BY <1>6, <1>7, <1>8, MatchConcat

LEMMA MatchMUL1 ==
  ASSUME NEW h, \A p \in Roles : h[p] = MUL1(p)
  PROVE  Match(h)
<1>1. 1 \in Nat /\ \A p \in Roles : h[p] = Triples(p, 1)
  BY DEF MUL1
<1> QED
  BY <1>1, MatchTriples

LEMMA MatchPMUL ==
  ASSUME NEW n \in Nat, NEW h, \A p \in Roles : h[p] = PMUL(p, n)
  PROVE  Match(h)
<1> DEFINE f == [p \in Roles |-> Triples(p, n)]
           g == [p \in Roles |-> Ack(p)]
<1>1. \A p \in Roles : f[p] = Triples(p, n) /\ g[p] = Ack(p) /\ h[p] = f[p] \o g[p]
  BY DEF PMUL
<1> HIDE DEF f, g
<1>2. Match(f)
  BY <1>1, MatchTriples
<1>3. Match(g)
  BY <1>1, MatchAck
<1> QED
  BY <1>1, <1>2, <1>3, MatchConcat

(* The batches of a product.                                                *)
LEMMA BatchesTyped ==
  ASSUME NEW n \in Nat
  PROVE  /\ Batches(n) \in Nat
         /\ n # 0 => Batches(n) # 0
         /\ \A c \in 1..Batches(n) : BatchSize(n, c) \in Nat \ {0}
<1> DEFINE m == Batches(n)
<1>1. MAXMUL \in Nat \ {0}
  BY MAXMULAssumption
<1>2. m \in Nat /\ m * MAXMUL <= n + MAXMUL - 1 /\ (n # 0 => m # 0)
  <2> DEFINE x == n + MAXMUL - 1
  <2>1. x \in Nat
    BY <1>1
  <2>2. /\ x \div MAXMUL \in Nat /\ (x \div MAXMUL) * MAXMUL <= x
        /\ x >= MAXMUL => x \div MAXMUL # 0
    <3> HIDE DEF x
    <3> DEFINE q == x \div MAXMUL
               r == x % MAXMUL
    <3>1. q \in Int /\ r \in 0..(MAXMUL - 1) /\ x = q * MAXMUL + r
      BY <1>1, <2>1, Division
    <3>2. x >= 0 /\ MAXMUL > 0 /\ MAXMUL \in Int
      BY <1>1, <2>1
    <3> HIDE DEF q, r
    <3>3. q >= 0
      BY <1>1, <3>1, <3>2
    <3>4. q * MAXMUL \in Int
      BY <3>1, <3>2
    <3>5. q * MAXMUL <= x
      BY <3>1, <3>4
    <3>6. q = 0 => x < MAXMUL
      <4> SUFFICES ASSUME q = 0
                   PROVE  x < MAXMUL
        OBVIOUS
      <4>1. q * MAXMUL = 0
        BY <3>2
      <4> QED
        BY <1>1, <3>1, <3>2, <4>1
    <3>7. x >= MAXMUL => q # 0
      BY <1>1, <2>1, <3>6
    <3> QED
      BY <3>1, <3>3, <3>5, <3>7 DEF q
  <2>3. n # 0 => x >= MAXMUL
    BY <1>1
  <2> HIDE DEF x
  <2>4. m = x \div MAXMUL
    BY DEF Batches, x
  <2> QED
    BY <2>2, <2>3, <2>4 DEF x
<1>3. ASSUME NEW c \in 1..m
      PROVE  BatchSize(n, c) \in Nat \ {0}
  <2> DEFINE left == n - (c - 1) * MAXMUL
  <2>1. (c - 1) * MAXMUL <= (m - 1) * MAXMUL
    <3> HIDE DEF m
    <3>1. c - 1 \in Nat /\ m - 1 \in Nat /\ c - 1 <= m - 1
      BY <1>2
    <3> QED
      BY <1>1, <3>1
  <2>2. (m - 1) * MAXMUL = m * MAXMUL - MAXMUL
    <3> HIDE DEF m
    <3> QED
      BY <1>1, <1>2
  <2>3. (c - 1) * MAXMUL \in Int
    BY <1>1
  <2>4. left \in Int /\ left >= 1
    <3> DEFINE x == (c - 1) * MAXMUL
               y == m * MAXMUL
               z == (m - 1) * MAXMUL
    <3>1. x \in Int /\ y \in Int /\ z \in Int
      <4> HIDE DEF m
      <4> QED
        BY <1>1, <1>2
    <3> HIDE DEF x, y, z, m
    <3>2. x <= z /\ z = y - MAXMUL /\ y <= n + MAXMUL - 1
      BY <1>2, <2>1, <2>2 DEF x, y, z
    <3>3. n - x \in Int /\ n - x >= 1
      BY <1>1, <3>1, <3>2
    <3> QED
      BY <3>3 DEF x
  <2>5. BatchSize(n, c) = IF left < MAXMUL THEN left ELSE MAXMUL
    BY DEF BatchSize
  <2> HIDE DEF left
  <2> QED
    BY <1>1, <2>4, <2>5
<1> QED
  BY <1>2, <1>3

LEMMA MatchMUL ==
  ASSUME NEW n \in Nat, NEW h, \A p \in Roles : h[p] = MUL(p, n)
  PROVE  Match(h)
<1> DEFINE m == Batches(n)
           f == [c \in 1..m |-> [p \in Roles |-> PMUL(p, BatchSize(n, c))]]
<1>1. m \in Nat /\ \A c \in 1..m : BatchSize(n, c) \in Nat
  BY BatchesTyped
<1>2. ASSUME NEW c \in 1..m
      PROVE  Match(f[c])
  <2> DEFINE g == f[c]
             size == BatchSize(n, c)
  <2>1. size \in Nat /\ \A p \in Roles : g[p] = PMUL(p, size)
    BY <1>1
  <2> HIDE DEF g, size
  <2>2. Match(g)
    BY <2>1, MatchPMUL
  <2> QED
    BY <2>2 DEF g
<1>3. \A p \in Roles : h[p] = FlattenSeq([c \in 1..m |-> f[c][p]])
  <2>1. \A p \in Roles : [c \in 1..m |-> f[c][p]] = [c \in 1..m |-> PMUL(p, BatchSize(n, c))]
    OBVIOUS
  <2> QED
    BY <2>1 DEF MUL
<1> HIDE DEF m, f
<1> QED
  BY <1>1, <1>2, <1>3, MatchFlatten

LEMMA MatchNORM ==
  ASSUME NEW n \in Nat, NEW h, \A p \in Roles : h[p] = NORM(p, n)
  PROVE  Match(h)
<1> DEFINE a == [p \in Roles |-> MSB(p, n)]
           b == [p \in Roles |-> MUL(p, 2 * n)]
           g == [p \in Roles |-> a[p] \o b[p]]
           f == [r \in 1..FRAC |-> g]
<1>1. \A p \in Roles : a[p] = MSB(p, n) /\ b[p] = MUL(p, 2 * n) /\ g[p] = a[p] \o b[p]
  OBVIOUS
<1>2. \A p \in Roles : h[p] = FlattenSeq([r \in 1..FRAC |-> f[r][p]])
  <2>1. \A p \in Roles : [r \in 1..FRAC |-> f[r][p]] = [r \in 1..FRAC |-> MSB(p, n) \o MUL(p, 2 * n)]
    OBVIOUS
  <2> QED
    BY <2>1 DEF NORM
<1>3. 2 * n \in Nat /\ FRAC \in Nat
  BY FRACAssumption
<1>4. \A r \in 1..FRAC : f[r] = g
  OBVIOUS
<1> HIDE DEF a, b, g, f
<1>5. Match(a)
  BY <1>1, MatchMSB
<1>6. Match(b)
  BY <1>1, <1>3, MatchMUL
<1>7. Match(g)
  BY <1>1, <1>5, <1>6, MatchConcat
<1> QED
  BY <1>2, <1>3, <1>4, <1>7, MatchFlatten

LEMMA MatchSamples ==
  ASSUME NEW n \in Nat, NEW h, \A p \in Roles : h[p] = Samples(p, n)
  PROVE  Match(h)
<1> DEFINE a == [p \in Roles |-> MUL(p, 2)]
           b == [p \in Roles |-> MUX(p, 2)]
           c == [p \in Roles |-> a[p] \o a[p]]
           g == [p \in Roles |-> c[p] \o b[p]]
           f == [s \in 1..n |-> g]
<1>1. \A p \in Roles : /\ a[p] = MUL(p, 2) /\ b[p] = MUX(p, 2)
                        /\ c[p] = a[p] \o a[p] /\ g[p] = c[p] \o b[p]
  OBVIOUS
<1>2. \A p \in Roles : h[p] = FlattenSeq([s \in 1..n |-> f[s][p]])
  <2>1. \A p \in Roles : [s \in 1..n |-> f[s][p]] = [s \in 1..n |-> Sample(p)]
    BY DEF Sample
  <2> QED
    BY <2>1 DEF Samples
<1>3. 2 \in Nat
  OBVIOUS
<1>4. \A s \in 1..n : f[s] = g
  OBVIOUS
<1> HIDE DEF a, b, c, g, f
<1>5. Match(a)
  BY <1>1, <1>3, MatchMUL
<1>6. Match(b)
  BY <1>1, <1>3, MatchMUX
<1>7. Match(c)
  BY <1>1, <1>5, MatchConcat
<1>8. Match(g)
  BY <1>1, <1>6, <1>7, MatchConcat
<1> QED
  BY <1>2, <1>4, <1>8, MatchFlatten

LEMMA MatchROCNOTIE ==
  ASSUME NEW n \in Nat, NEW h, \A p \in Roles : h[p] = ROCNOTIE(p, n)
  PROVE  Match(h)
<1> DEFINE a == [p \in Roles |-> MUL(p, n)]
           b == [p \in Roles |-> Draw(p, 1)]
           c == [p \in Roles |-> MUL1(p)]
           d == [p \in Roles |-> NORM(p, 1)]
           ab == [p \in Roles |-> a[p] \o b[p]]
           abc == [p \in Roles |-> ab[p] \o c[p]]
<1>1. \A p \in Roles : /\ a[p] = MUL(p, n) /\ b[p] = Draw(p, 1) /\ c[p] = MUL1(p)
                        /\ d[p] = NORM(p, 1) /\ ab[p] = a[p] \o b[p]
                        /\ abc[p] = ab[p] \o c[p] /\ h[p] = abc[p] \o d[p]
  BY DEF ROCNOTIE
<1>2. 1 \in Nat
  OBVIOUS
<1> HIDE DEF a, b, c, d, ab, abc
<1>3. Match(a)
  BY <1>1, MatchMUL
<1>4. Match(b)
  BY <1>1, <1>2, MatchDraw
<1>5. Match(c)
  BY <1>1, MatchMUL1
<1>6. Match(d)
  BY <1>1, <1>2, MatchNORM
<1>7. Match(ab)
  BY <1>1, <1>3, <1>4, MatchConcat
<1>8. Match(abc)
  BY <1>1, <1>5, <1>7, MatchConcat
<1> QED
  BY <1>1, <1>6, <1>8, MatchConcat

LEMMA MatchROCWITHTIE ==
  ASSUME NEW n \in Nat, NEW h, \A p \in Roles : h[p] = ROCWITHTIE(p, n)
  PROVE  Match(h)
<1> DEFINE a == [p \in Roles |-> Draw(p, n)]
           b == [p \in Roles |-> MRound(p, n)]
           c == [p \in Roles |-> Samples(p, n)]
           d == [p \in Roles |-> MUL1(p)]
           e == [p \in Roles |-> NORM(p, 1)]
           ab == [p \in Roles |-> a[p] \o b[p]]
           abc == [p \in Roles |-> ab[p] \o c[p]]
           abcd == [p \in Roles |-> abc[p] \o d[p]]
<1>1. \A p \in Roles : /\ a[p] = Draw(p, n) /\ b[p] = MRound(p, n) /\ c[p] = Samples(p, n)
                        /\ d[p] = MUL1(p) /\ e[p] = NORM(p, 1) /\ ab[p] = a[p] \o b[p]
                        /\ abc[p] = ab[p] \o c[p] /\ abcd[p] = abc[p] \o d[p]
                        /\ h[p] = abcd[p] \o e[p]
  BY DEF ROCWITHTIE
<1>2. 1 \in Nat
  OBVIOUS
<1> HIDE DEF a, b, c, d, e, ab, abc, abcd
<1>3. Match(a)
  BY <1>1, MatchDraw
<1>4. Match(b)
  BY <1>1, MatchMRound
<1>5. Match(c)
  BY <1>1, MatchSamples
<1>6. Match(d)
  BY <1>1, MatchMUL1
<1>7. Match(e)
  BY <1>1, <1>2, MatchNORM
<1>8. Match(ab)
  BY <1>1, <1>3, <1>4, MatchConcat
<1>9. Match(abc)
  BY <1>1, <1>5, <1>8, MatchConcat
<1>10. Match(abcd)
  BY <1>1, <1>6, <1>9, MatchConcat
<1> QED
  BY <1>1, <1>7, <1>10, MatchConcat

LEMMA MatchPRCURVE ==
  ASSUME NEW n \in Nat, NEW h, \A p \in Roles : h[p] = PRCURVE(p, n)
  PROVE  Match(h)
<1> DEFINE a == [p \in Roles |-> Draw(p, n)]
           b == [p \in Roles |-> MRound(p, n)]
           c == [p \in Roles |-> NORM(p, n)]
           d == [p \in Roles |-> Samples(p, n)]
           e == [p \in Roles |-> NORM(p, 1)]
           ab == [p \in Roles |-> a[p] \o b[p]]
           abc == [p \in Roles |-> ab[p] \o c[p]]
           abcd == [p \in Roles |-> abc[p] \o d[p]]
<1>1. \A p \in Roles : /\ a[p] = Draw(p, n) /\ b[p] = MRound(p, n) /\ c[p] = NORM(p, n)
                        /\ d[p] = Samples(p, n) /\ e[p] = NORM(p, 1) /\ ab[p] = a[p] \o b[p]
                        /\ abc[p] = ab[p] \o c[p] /\ abcd[p] = abc[p] \o d[p]
                        /\ h[p] = abcd[p] \o e[p]
  BY DEF PRCURVE
<1>2. 1 \in Nat
  OBVIOUS
<1> HIDE DEF a, b, c, d, e, ab, abc, abcd
<1>3. Match(a)
  BY <1>1, MatchDraw
<1>4. Match(b)
  BY <1>1, MatchMRound
<1>5. Match(c)
  BY <1>1, MatchNORM
<1>6. Match(d)
  BY <1>1, MatchSamples
<1>7. Match(e)
  BY <1>1, <1>2, MatchNORM
<1>8. Match(ab)
  BY <1>1, <1>3, <1>4, MatchConcat
<1>9. Match(abc)
  BY <1>1, <1>5, <1>8, MatchConcat
<1>10. Match(abcd)
  BY <1>1, <1>6, <1>9, MatchConcat
<1> QED
  BY <1>1, <1>7, <1>10, MatchConcat

(* The blocks of any call.                                                  *)
LEMMA MatchBody ==
  ASSUME NEW c \in Call, NEW h, \A p \in Roles : h[p] = Body(p, c)
  PROVE  Match(h)
<1>0. c.n \in Nat /\ c.op \in Commands \cup {"REC"} /\ 1 \in Nat
  BY DEF Call, Commands
<1>1. CASE c.op = "REC"
  <2>1. \A p \in Roles : h[p] = REC(p, c.n)
    BY <1>1 DEF Body
  <2> QED
    BY <1>0, <2>1, MatchREC
<1>2. CASE c.op = "CORE_MC"
  <2>1. \A p \in Roles : h[p] = MOC(p, 1)
    BY <1>2 DEF Body
  <2> QED
    BY <1>0, <2>1, MatchMOC
<1>3. CASE c.op = "CORE_MMC"
  <2>1. \A p \in Roles : h[p] = MOC(p, c.n)
    BY <1>3 DEF Body
  <2> QED
    BY <1>0, <2>1, MatchMOC
<1>4. CASE c.op \in {"CORE_MSB", "CORE_CMP"}
  <2>1. \A p \in Roles : h[p] = MSB1(p)
    BY <1>4 DEF Body
  <2> QED
    BY <2>1, MatchMSB1
<1>5. CASE c.op \in {"CORE_MMSB", "CORE_MCMP"}
  <2>1. \A p \in Roles : h[p] = MSB(p, c.n)
    BY <1>5 DEF Body
  <2> QED
    BY <1>0, <2>1, MatchMSB
<1>6. CASE c.op = "CORE_MUX"
  <2>1. \A p \in Roles : h[p] = MUX1(p)
    BY <1>6 DEF Body
  <2> QED
    BY <2>1, MatchMUX1
<1>7. CASE c.op = "CORE_MMUX"
  <2>1. \A p \in Roles : h[p] = MUX(p, c.n)
    BY <1>7 DEF Body
  <2> QED
    BY <1>0, <2>1, MatchMUX
<1>8. CASE c.op = "CORE_MUL"
  <2>1. \A p \in Roles : h[p] = MUL1(p)
    BY <1>8 DEF Body
  <2> QED
    BY <2>1, MatchMUL1
<1>9. CASE c.op = "CORE_MMUL"
  <2>1. \A p \in Roles : h[p] = MUL(p, c.n)
    BY <1>9 DEF Body
  <2> QED
    BY <1>0, <2>1, MatchMUL
<1>10. CASE c.op = "CORE_MNORM"
  <2>1. \A p \in Roles : h[p] = NORM(p, c.n)
    BY <1>10 DEF Body
  <2> QED
    BY <1>0, <2>1, MatchNORM
<1>11. CASE c.op = "AUC_MROU"
  <2>1. \A p \in Roles : h[p] = MRound(p, c.n)
    BY <1>11 DEF Body
  <2> QED
    BY <1>0, <2>1, MatchMRound
<1>12. CASE c.op = "AUC_ROCNOTIE"
  <2>1. \A p \in Roles : h[p] = ROCNOTIE(p, c.n)
    BY <1>12 DEF Body
  <2> QED
    BY <1>0, <2>1, MatchROCNOTIE
<1>13. CASE c.op = "AUC_ROCWITHTIE"
  <2>1. \A p \in Roles : h[p] = ROCWITHTIE(p, c.n)
    BY <1>13 DEF Body
  <2> QED
    BY <1>0, <2>1, MatchROCWITHTIE
<1>14. CASE c.op = "AUC_PR"
  <2>1. \A p \in Roles : h[p] = PRCURVE(p, c.n)
    BY <1>14 DEF Body
  <2> QED
    BY <1>0, <2>1, MatchPRCURVE
<1>15. CASE c.op = "CORE_END"
  <2>1. \A p \in Roles : h[p] = <<>>
    BY <1>15 DEF Body
  <2> QED
    BY <2>1, MatchNone
<1> QED
  BY <1>0, <1>1, <1>2, <1>3, <1>4, <1>5, <1>6, <1>7, <1>8, <1>9, <1>10, <1>11, <1>12,
     <1>13, <1>14, <1>15 DEF Commands, ScalarOps, SizedOps

-----------------------------------------------------------------------------
(* Whole calls, and what is left of a sequence. *)

(* What the helper's loop reads before a call.                              *)
Hears(c) == IF c.op \in Commands THEN <<Alone(Receive(P1, Command(c), 1))>> ELSE <<>>
Whole(p, c) == IF p = HELPER THEN Hears(c) \o Body(p, c) ELSE Code(p, c)

LEMMA CommandTyped ==
  ASSUME NEW c \in Call, c.op \in Commands
  PROVE  /\ Command(c) \in Seq(Unit)
         /\ Len(Command(c)) = IF c.op \in SizedOps THEN 2 ELSE 1
         /\ Command(c)[1] = [msg |-> c.op, k |-> 0]
         /\ c.op \in SizedOps => Command(c)[2] = [msg |-> "size", k |-> c.n]
<1>1. c.n \in Nat
  BY DEF Call
<1> DEFINE a == [msg |-> c.op, k |-> 0]
           b == [msg |-> "size", k |-> c.n]
<1>2. a \in Unit /\ b \in Unit
  BY <1>1 DEF Unit, Messages
<1>3. c.op \in SizedOps => Command(c) = <<a, b>>
  BY TwoConcat DEF Command
<1>4. c.op \notin SizedOps => Command(c) = <<a>>
  <2>1. <<a>> \in Seq(Unit)
    BY <1>2
  <2> DEFINE t == <<a>>
  <2> HIDE DEF t
  <2>2. t \o <<>> = t
    BY <2>1 DEF t
  <2>3. c.op \notin SizedOps => Command(c) = t \o <<>>
    BY DEF Command, t
  <2> QED
    BY <2>2, <2>3 DEF t
<1> HIDE DEF a, b
<1>5. <<a, b>> \in Seq(Unit) /\ Len(<<a, b>>) = 2 /\ <<a, b>>[1] = a /\ <<a, b>>[2] = b
  BY <1>2
<1>6. <<a>> \in Seq(Unit) /\ Len(<<a>>) = 1 /\ <<a>>[1] = a
  BY <1>2
<1>7. /\ Command(c) \in Seq(Unit)
      /\ Len(Command(c)) = IF c.op \in SizedOps THEN 2 ELSE 1
      /\ Command(c)[1] = a
      /\ c.op \in SizedOps => Command(c)[2] = b
  BY <1>3, <1>4, <1>5, <1>6
<1> QED
  BY <1>7 DEF a, b

LEMMA MatchWhole ==
  ASSUME NEW c \in Call, NEW h, \A p \in Roles : h[p] = Whole(p, c)
  PROVE  Match(h)
<1> DEFINE f == [p \in Roles |-> IF p = HELPER THEN Hears(c) ELSE SendBytes(p, c)]
           g == [p \in Roles |-> Body(p, c)]
<1>1. \A p \in Roles : h[p] = f[p] \o g[p] /\ g[p] = Body(p, c)
  BY DEF Whole, Code
<1>2. \A p \in Roles : f[p] = IF p = HELPER THEN Hears(c) ELSE SendBytes(p, c)
  OBVIOUS
<1> HIDE DEF f, g
<1>3. Match(g)
  BY <1>1, MatchBody
<1>4. Match(f)
  <2>1. P1 \in Roles /\ P2 \in Roles /\ HELPER \in Roles /\ P1 # HELPER /\ P2 # HELPER /\ P1 # P2
    BY DEF Roles, P1, P2, HELPER
  <2>2. CASE c.op \in Commands
    <3> DEFINE units == Command(c)
    <3>1. units \in Seq(Unit)
      BY <2>2, CommandTyped
    <3>2. f[P1] = <<Alone(Send(HELPER, units, 1))>> /\ f[P2] = <<>>
          /\ f[HELPER] = <<Alone(Receive(P1, units, 1))>>
      BY <1>2, <2>1, <2>2 DEF Hears, SendBytes
    <3> HIDE DEF units
    <3> QED
      BY <3>1, <3>2, MatchCommand
  <2>3. CASE c.op \notin Commands
    <3>1. \A p \in Roles : f[p] = <<>>
      BY <1>2, <2>3 DEF Hears, SendBytes
    <3> QED
      BY <3>1, MatchNone
  <2> QED
    BY <2>2, <2>3
<1> QED
  BY <1>1, <1>3, <1>4, MatchConcat

LEMMA CallTyped ==
  ASSUME NEW p \in Roles, NEW c \in Call
  PROVE  Whole(p, c) \in Program(p) /\ Body(p, c) \in Program(p)
<1> DEFINE g == [r \in Roles |-> Body(r, c)]
           h == [r \in Roles |-> Whole(r, c)]
<1>1. \A r \in Roles : g[r] = Body(r, c) /\ h[r] = Whole(r, c)
  OBVIOUS
<1> HIDE DEF g, h
<1>2. Match(g) /\ Match(h)
  BY <1>1, MatchBody, MatchWhole
<1> QED
  BY <1>1, <1>2 DEF Match

(* The first block of a program and the rest.                               *)
NextStream(p, b, rest, e) ==
  /\ e[1] \in Nat /\ Drop(e, 1) \in Seq(Nat) /\ Len(Drop(e, 1)) = Len(rest)
  /\ \A dir : \A q \in Roles :
       Stream(p, <<b>> \o rest, dir, q, e)
         = Said(p, b, dir, q, e[1]) \o Stream(p, rest, dir, q, Drop(e, 1))

LEMMA StreamNext ==
  ASSUME NEW p \in Roles, NEW b \in BlockOf(p), NEW rest \in Program(p),
         NEW e \in Seq(Nat), Len(e) = Len(<<b>> \o rest)
  PROVE  NextStream(p, b, rest, e)
<1> DEFINE k == <<b>>
           x == e[1]
           f == <<x>>
           g == Drop(e, 1)
<1>1. k \in Program(p) /\ Len(k) = 1 /\ rest \in Seq(BlockOf(p)) /\ Len(rest) \in Nat
  BY DEF Program
<1>2. Len(e) = 1 + Len(rest)
  <2>1. Len(k \o rest) = Len(k) + Len(rest)
    <3>1. k \in Seq(BlockOf(p))
      BY <1>1 DEF Program
    <3> HIDE DEF k
    <3> QED
      BY <1>1, <3>1, ConcatProperties
  <2> QED
    BY <1>1, <2>1
<1>3. x \in Nat /\ g \in Seq(Nat) /\ Len(g) = Len(rest) /\ e = f \o g
  <2>1. 0 \in Nat /\ 0 < Len(e) /\ 0 + 1 = 1 /\ Len(e) - 1 = Len(rest)
    BY <1>1, <1>2
  <2>2. /\ e[0 + 1] \in Nat
        /\ Drop(e, 0 + 1) \in Seq(Nat) /\ Len(Drop(e, 0 + 1)) = Len(e) - (0 + 1)
        /\ Drop(e, 0) = <<e[0 + 1]>> \o Drop(e, 0 + 1)
    BY <2>1, DropNext
  <2>3. Drop(e, 0) = e
    BY DropNone
  <2> QED
    BY <2>1, <2>2, <2>3
<1>4. f \in Seq(Nat) /\ Len(f) = 1
  BY <1>3
<1>5. ASSUME NEW dir, NEW q \in Roles
      PROVE  Stream(p, k \o rest, dir, q, e) = Said(p, b, dir, q, x) \o Stream(p, rest, dir, q, g)
  <2>1. Stream(p, k, dir, q, f) = Said(p, b, dir, q, x)
    BY <1>3, StreamOne
  <2>2. StreamSplits(p, k, rest, dir, q, f, g)
    BY StreamSplit
  <2> HIDE DEF k, f, g, x
  <2> QED
    BY <1>1, <1>3, <1>4, <2>1, <2>2 DEF StreamSplits
<1> QED
  BY <1>3, <1>5 DEF NextStream

LEMMA PlacesNext ==
  ASSUME NEW p, NEW b \in BlockOf(p), NEW rest \in Program(p), NEW d, NEW d2,
         NEW e \in Seq(Nat), Len(e) = Len(<<b>> \o rest), Places(<<b>> \o rest, d, e, d2)
  PROVE  e[1] = d + b.draws /\ Places(rest, e[1], Drop(e, 1), d2)
<1> DEFINE k == <<b>>
           c == k \o rest
           n == Len(rest)
           g == Drop(e, 1)
<1>1. n \in Nat /\ k \in Seq(BlockOf(p)) /\ rest \in Seq(BlockOf(p)) /\ Len(k) = 1 /\ k[1] = b
  BY DEF Program
<1>2. Len(c) = 1 + n /\ \A i \in 1..(1 + n) : c[i] = IF i <= 1 THEN k[i] ELSE rest[i - 1]
  <2>1. /\ Len(c) = Len(k) + Len(rest)
        /\ \A i \in 1..(Len(k) + Len(rest)) :
             c[i] = IF i <= Len(k) THEN k[i] ELSE rest[i - Len(k)]
    <3> DEFINE S == BlockOf(p)
    <3>1. k \in Seq(S) /\ rest \in Seq(S)
      BY <1>1
    <3> HIDE DEF k, S, n
    <3> QED
      BY <3>1, ConcatProperties
  <2> HIDE DEF c, k
  <2> QED
    BY <1>1, <2>1
<1>3. Places(c, d, e, d2) /\ Len(e) = Len(c)
  OBVIOUS
<1>4. \A i \in 1..n : g[i] = e[1 + i]
  <2>1. Len(e) - 1 = n
    <3> HIDE DEF c, n
    <3> QED
      BY <1>1, <1>2, <1>3
  <2> QED
    BY <2>1 DEF Drop
<1> HIDE DEF c, g, n, k
<1>5. c[1] = b
  BY <1>1, <1>2
<1>6. e[1] = d + b.draws
  BY <1>1, <1>2, <1>3, <1>5 DEF Places
<1>7. ASSUME NEW i \in 1..n
      PROVE  g[i] = (IF i = 1 THEN e[1] ELSE g[i - 1]) + rest[i].draws
  <2>1. 1 + i \in 1..(1 + n) /\ 1 + i # 1 /\ (1 + i) - 1 = i /\ ~(1 + i <= 1)
    BY <1>1
  <2>2. e[1 + i] = e[i] + c[1 + i].draws
    BY <1>2, <1>3, <2>1 DEF Places
  <2>3. c[1 + i] = rest[i]
    BY <1>2, <2>1
  <2>4. i # 1 => g[i - 1] = e[i]
    <3>1. i # 1 => i - 1 \in 1..n /\ 1 + (i - 1) = i
      BY <1>1
    <3> QED
      BY <1>4, <3>1
  <2> QED
    BY <1>4, <2>2, <2>3, <2>4
<1>8. d2 = IF n = 0 THEN e[1] ELSE g[n]
  <2>1. d2 = e[1 + n]
    <3>1. Len(c) # 0
      BY <1>1, <1>2
    <3> QED
      BY <1>2, <1>3, <3>1 DEF Places
  <2>2. n # 0 => n \in 1..n
    BY <1>1
  <2> QED
    BY <1>1, <1>4, <2>1, <2>2
<1>9. Places(rest, e[1], g, d2)
  BY <1>7, <1>8 DEF Places, n
<1> QED
  BY <1>6, <1>9 DEF g

-----------------------------------------------------------------------------
(* Where a party stands. *)

(* A party's own state.                                                     *)
Here(p) == [pc |-> pc[p], begun |-> begun[p], call |-> call[p], at |-> at[p],
            moved |-> moved[p], buf |-> buf[p], drawn |-> drawn[p]]

Its(p, x) == CodeOf(p, x.call)
Threads(p, x) == IF x.at = 0 THEN <<>> ELSE Its(p, x)[x.at].transfers

Sound(cs) ==
  /\ cs \in Seq(Call) /\ Len(cs) # 0
  /\ \A k \in 1..Len(cs) : cs[k] \in Calls /\ (cs[k].op = "CORE_END" <=> k = Len(cs))

Wholes(p, cs) == [i \in 1..Len(cs) |-> Whole(p, cs[i])]
Later(p, cs, n) == FlattenSeq(Drop(Wholes(p, cs), n))

(* In a call: the transfers have moved what they have moved, and the        *)
(* buffers hold it.                                                         *)
Busy(p, x, place) ==
  /\ Its(p, x) \in Program(p)
  /\ x.at \in 0..Len(Its(p, x))
  /\ x.moved \in Seq(Nat) /\ Len(x.moved) = Len(Threads(p, x))
  /\ \A i \in 1..Len(Threads(p, x)) :
       LET t == Threads(p, x)[i]
       IN  /\ x.moved[i] \in 0..Len(t.units)
           /\ t.dir = "send" =>
                \A k \in 1..Len(t.units) : x.buf[t.buf][k] = Packed(t.units[k], p, place)
           /\ t.dir = "receive" =>
                \A k \in 1..x.moved[i] : /\ k \in DOMAIN x.buf[t.buf]
                                         /\ x.buf[t.buf][k] = Packed(t.units[k], t.peer, place)

(* Commands among the first n calls.                                        *)
Number(cs, n) == Len(CommandsAmong(cs)[n])

(* The call a party is in, and how many commands the helper has begun: one  *)
(* less than P1 has named while it waits for a size or after CORE_END.      *)
Counts(p, x, cs, n) ==
  /\ x.pc = "run" => n # 0 /\ x.call = cs[n]
  /\ x.pc = "exit" => n = Len(cs)
  /\ p = HELPER =>
       /\ n # 0 => cs[n].op \in Commands
       /\ x.begun + (IF x.pc \in {"size", "exit"} THEN 1 ELSE 0) = Number(cs, n)

(* What is left to do after the current block; n calls have begun.          *)
Position(p, x, cs, n, todo) ==
  /\ x.pc \in IF p = HELPER THEN {"command", "size", "run", "exit"} ELSE {"call", "run", "exit"}
  /\ x.pc = "run" => todo = Drop(Its(p, x), x.at) \o Later(p, cs, n)
  /\ x.pc \in {"call", "command"} => todo = Later(p, cs, n)
  /\ x.pc = "size" => /\ n # 0 /\ x.begun < n
                      /\ cs[n].op \in SizedOps /\ x.call = ACall(cs[n].op, 0)
                      /\ todo = Body(p, cs[n]) \o Later(p, cs, n)
  /\ x.pc = "exit" => todo = <<>>

Stands(p, x, cs, n, todo, e, place) ==
  /\ n \in 0..Len(cs) /\ todo \in Program(p)
  /\ e \in Seq(Nat) /\ Len(e) = Len(todo) /\ place \in Nat
  /\ x.call \in Call /\ x.begun \in Nat
  /\ p = HELPER => x.begun <= n /\ x.drawn = 0
  /\ p # HELPER => x.begun = n /\ x.drawn = place /\ \E d2 : Places(todo, place, e, d2)
  /\ Position(p, x, cs, n, todo)
  /\ Counts(p, x, cs, n)
  /\ x.pc = "run" => Busy(p, x, place)

(* What the current block, or the size the helper waits for, still says.    *)
Current(p, x, cs, n, place, way, q) ==
  IF x.pc = "run" THEN Rest(p, Threads(p, x), x.moved, way, q, place)
  ELSE IF x.pc = "size" /\ way = "receive" /\ q = P1
  THEN <<Packed([msg |-> "size", k |-> cs[n].n], P1, place)>>
  ELSE <<>>

(* s[way][q]: what p will still say to q, or hear from q, to the end.       *)
Says(p, x, cs, s, n, todo, e, place) ==
  /\ s \in [Ways2 -> [Roles -> Seq(Packet)]]
  /\ \A way \in Ways2 : \A q \in Roles :
       s[way][q] = Current(p, x, cs, n, place, way, q) \o Stream(p, todo, way, q, e)

Local(p, x, cs, s) ==
  \E n, todo, e, place : Stands(p, x, cs, n, todo, e, place) /\ Says(p, x, cs, s, n, todo, e, place)

-----------------------------------------------------------------------------
(* The commands among the calls. *)

LEMMA CommandSteps ==
  ASSUME NEW cs \in Seq(Call)
  PROVE  /\ CommandsAmong(cs)[0] = <<>>
         /\ \A k \in 0..Len(cs) : CommandsAmong(cs)[k] \in Seq(Call)
         /\ \A k \in 1..Len(cs) :
              CommandsAmong(cs)[k] =
                IF IsCommand(cs[k]) THEN Append(CommandsAmong(cs)[k - 1], cs[k])
                ELSE CommandsAmong(cs)[k - 1]
<1> DEFINE V == Seq(Call)
           n == Len(cs)
           first == <<>>
           Step(k, v) == IF IsCommand(cs[k]) THEN Append(v, cs[k]) ELSE v
           step == [q \in Nat \X V |-> IF q[1] < n THEN Step(q[1] + 1, q[2]) ELSE q[2]]
           Recurs(f) == f = [k \in 0..Len(cs) |->
                                IF k = 0 THEN <<>>
                                ELSE IF IsCommand(cs[k]) THEN Append(f[k - 1], cs[k])
                                ELSE f[k - 1]]
<1>0. n \in Nat /\ first \in V
  OBVIOUS
<1>1. step \in [Nat \X V -> V]
  <2>1. ASSUME NEW q \in Nat \X V
        PROVE  (IF q[1] < n THEN Step(q[1] + 1, q[2]) ELSE q[2]) \in V
    <3>1. CASE q[1] < n
      <4>1. cs[q[1] + 1] \in Call
        BY <3>1
      <4> QED
        BY <3>1, <4>1
    <3>2. CASE ~(q[1] < n)
      BY <3>2
    <3> QED
      BY <3>1, <3>2
  <2> HIDE DEF V, n, Step
  <2> QED
    BY <2>1
<1>2. PICK g \in [0..n -> V] : Beginning(g, n, first, step)
  <2> HIDE DEF V, step, first, n
  <2> QED
    BY <1>0, <1>1, BeginningExists
<1>3. /\ g[0] = first
      /\ \A k \in 0..(n - 1) : g[k + 1] = step[<<k, g[k]>>]
  BY <1>2 DEF Beginning
<1>4. ASSUME NEW k \in 1..n
      PROVE  g[k] = Step(k, g[k - 1])
  <2>0. k - 1 \in 0..(n - 1) /\ (k - 1) + 1 = k /\ k - 1 \in Nat /\ k - 1 \in 0..n /\ k - 1 < n
    OBVIOUS
  <2>1. g[k - 1] \in V
    BY <1>2, <2>0
  <2>2. g[k] = step[<<k - 1, g[k - 1]>>]
    <3> HIDE DEF step, V, n
    <3> QED
      BY <1>3, <2>0
  <2>3. <<k - 1, g[k - 1]>> \in Nat \X V
    BY <2>0, <2>1
  <2> HIDE DEF V, n, Step
  <2> QED
    BY <2>0, <2>2, <2>3
<1>5. Recurs(g)
  <2>1. g = [k \in 0..n |-> g[k]]
    <3> HIDE DEF V
    <3> QED
      BY <1>2
  <2>2. \A k \in 0..n : g[k] = IF k = 0 THEN <<>> ELSE Step(k, g[k - 1])
    <3>1. \A k \in 0..n : k = 0 \/ k \in 1..n
      BY <1>0
    <3> HIDE DEF Step, V, n, step
    <3> QED
      BY <1>3, <1>4, <3>1 DEF first
  <2> HIDE DEF V, step
  <2> QED
    BY <2>1, <2>2
<1>6. Recurs(CommandsAmong(cs))
  <2> HIDE DEF Recurs
  <2>1. Recurs(CHOOSE f : Recurs(f))
    BY <1>5
  <2>2. CommandsAmong(cs) = CHOOSE f : Recurs(f)
    BY DEF CommandsAmong, Recurs
  <2> QED
    BY <2>1, <2>2
<1> DEFINE f == CommandsAmong(cs)
<1> HIDE DEF f
<1>7. \A k \in 0..n : f[k] = IF k = 0 THEN <<>> ELSE Step(k, f[k - 1])
  BY <1>6 DEF f
<1>8. \A k \in 1..n : f[k] = Step(k, f[k - 1])
  <2>1. \A k \in 1..n : k \in 0..n /\ k # 0
    BY <1>0
  <2> HIDE DEF Step, n
  <2> QED
    BY <1>7, <2>1
<1>9. f[0] = <<>>
  <2>1. 0 \in 0..n
    BY <1>0
  <2> HIDE DEF Step, n
  <2> QED
    BY <1>7, <2>1
<1> DEFINE S == {k \in Nat : k <= n => f[k] \in V}
<1>10. 0 \in S
  <2>1. f[0] \in V
    BY <1>0, <1>9
  <2> HIDE DEF V, n
  <2> QED
    BY <2>1
<1>11. ASSUME NEW k \in Nat, k \in S
       PROVE  k + 1 \in S
  <2> SUFFICES ASSUME k + 1 <= n
               PROVE  f[k + 1] \in V
    OBVIOUS
  <2>1. k + 1 \in 1..n /\ k <= n /\ (k + 1) - 1 = k
    BY <1>0
  <2>2. f[k + 1] = Step(k + 1, f[k]) /\ f[k] \in V
    <3> HIDE DEF Step, V, n
    <3> QED
      BY <1>8, <1>11, <2>1
  <2>3. cs[k + 1] \in Call
    BY <2>1
  <2> QED
    BY <2>2, <2>3
<1>12. Nat \subseteq S
  <2> HIDE DEF S
  <2> QED
    BY <1>10, <1>11, SetInduction
<1>13. \A k \in 0..n : f[k] \in V
  <2>1. \A k \in 0..n : k \in Nat /\ k <= n
    BY <1>0
  <2> HIDE DEF V, n
  <2> QED
    BY <1>12, <2>1
<1> QED
  BY <1>8, <1>9, <1>13 DEF f

(* Commands among the first n calls.                                        *)
LEMMA NumberNext ==
  ASSUME NEW cs \in Seq(Call), NEW n \in Nat, n < Len(cs)
  PROVE  /\ Number(cs, 0) = 0
         /\ Number(cs, n) \in Nat /\ Number(cs, n + 1) \in Nat
         /\ Number(cs, n + 1) = IF IsCommand(cs[n + 1]) THEN Number(cs, n) + 1 ELSE Number(cs, n)
<1> DEFINE f == CommandsAmong(cs)
           u == cs[n + 1]
<1>1. n \in 0..Len(cs) /\ n + 1 \in 0..Len(cs) /\ n + 1 \in 1..Len(cs) /\ (n + 1) - 1 = n
      /\ u \in Call
  OBVIOUS
<1>2. /\ f[0] = <<>> /\ f[n] \in Seq(Call) /\ f[n + 1] \in Seq(Call)
      /\ f[n + 1] = IF IsCommand(u) THEN Append(f[n], u) ELSE f[n]
  <2>1. /\ f[0] = <<>> /\ f[n] \in Seq(Call) /\ f[n + 1] \in Seq(Call)
        /\ f[n + 1] = IF IsCommand(cs[n + 1]) THEN Append(f[(n + 1) - 1], cs[n + 1])
                                              ELSE f[(n + 1) - 1]
    <3> HIDE DEF u
    <3> QED
      BY <1>1, CommandSteps
  <2> QED
    BY <1>1, <2>1
<1>3. Len(f[n]) \in Nat /\ Len(f[n + 1]) \in Nat /\ Len(f[0]) = 0
  <2> HIDE DEF f, u
  <2> QED
    BY <1>2
<1>4. Len(f[n + 1]) = IF IsCommand(u) THEN Len(f[n]) + 1 ELSE Len(f[n])
  <2> DEFINE v == f[n]
  <2>1. v \in Seq(Call) /\ u \in Call
    BY <1>1, <1>2
  <2> HIDE DEF f, u, v
  <2>2. Len(Append(v, u)) = Len(v) + 1
    BY <2>1
  <2> QED
    BY <1>2, <2>2 DEF v
<1> QED
  BY <1>3, <1>4 DEF Number

LEMMA TableIs ==
  ASSUME NEW p \in Roles, NEW c \in Calls, NEW x, x.call = c
  PROVE  /\ Its(p, x) = (IF p = HELPER THEN Body(p, c) ELSE Whole(p, c))
         /\ c \in Call => Its(p, x) \in Program(p)
<1> DEFINE codes(d) == <<Code(P1, d), Code(P2, d), Body(HELPER, d)>>
           mine == [call |-> c, code |-> codes(c)]
           found == CHOOSE entry \in CodeTable : entry.call = c
<1>1. mine \in CodeTable /\ mine.call = c
  BY DEF CodeTable
<1>2. \A entry \in CodeTable : entry.call = c => entry.code = codes(c)
  BY DEF CodeTable
<1>3. found \in CodeTable /\ found.call = c
  <2> HIDE DEF mine
  <2> QED
    BY <1>1
<1>4. found.code = codes(c)
  <2> HIDE DEF found, codes
  <2> QED
    BY <1>2, <1>3
<1>5. CodeOf(p, c) = codes(c)[p + 1]
  <2>1. CodeOf(p, c) = found.code[p + 1]
    BY DEF CodeOf
  <2> HIDE DEF found, codes
  <2> QED
    BY <1>4, <2>1
<1>6. codes(c)[p + 1] = IF p = HELPER THEN Body(p, c) ELSE Code(p, c)
  BY DEF Roles, P1, P2, HELPER
<1>7. Its(p, x) = IF p = HELPER THEN Body(p, c) ELSE Whole(p, c)
  <2> HIDE DEF codes
  <2> QED
    BY <1>5, <1>6 DEF Its, Whole
<1> QED
  BY <1>7, CallTyped

LEMMA WholesTyped ==
  ASSUME NEW p \in Roles, NEW cs, Sound(cs)
  PROVE  /\ Len(cs) \in Nat /\ cs \in Seq(Call)
         /\ Wholes(p, cs) \in Seq(Program(p)) /\ Len(Wholes(p, cs)) = Len(cs)
         /\ \A i \in 1..Len(cs) : cs[i] \in Call /\ Wholes(p, cs)[i] = Whole(p, cs[i])
<1>1. cs \in Seq(Call) /\ Len(cs) \in Nat
  BY DEF Sound
<1>2. \A i \in 1..Len(cs) : cs[i] \in Call /\ Wholes(p, cs)[i] = Whole(p, cs[i])
  BY <1>1 DEF Wholes
<1>3. \A i \in 1..Len(cs) : Whole(p, cs[i]) \in Program(p)
  BY <1>2, CallTyped
<1> DEFINE m == Len(cs)
           w == Wholes(p, cs)
<1>4. w \in [1..m -> Program(p)]
  BY <1>3 DEF Wholes
<1> HIDE DEF m, w
<1>5. w \in Seq(Program(p)) /\ Len(w) = m
  BY <1>1, <1>4 DEF m
<1> QED
  BY <1>1, <1>2, <1>5 DEF m, w

LEMMA LaterTyped ==
  ASSUME NEW p \in Roles, NEW cs, Sound(cs), NEW n \in 0..Len(cs)
  PROVE  Later(p, cs, n) \in Program(p)
<1> DEFINE w == Wholes(p, cs)
           t == Drop(w, n)
<1>1. w \in Seq(Program(p)) /\ n \in 0..Len(w)
  BY WholesTyped
<1> HIDE DEF w
<1>2. t \in Seq(Program(p))
  BY <1>1, DropTyped
<1> HIDE DEF t
<1>3. FlattenSeq(t) \in Program(p)
  BY <1>2, FlattenTyped DEF Program
<1> QED
  BY <1>3 DEF Later, w, t

LEMMA LaterEnd ==
  ASSUME NEW p \in Roles, NEW cs, Sound(cs)
  PROVE  Later(p, cs, Len(cs)) = <<>>
<1> DEFINE w == Wholes(p, cs)
<1>1. w \in Seq(Program(p)) /\ Len(cs) = Len(w)
  BY WholesTyped
<1> HIDE DEF w
<1>2. Drop(w, Len(w)) = <<>>
  BY <1>1, DropEnd
<1> QED
  BY <1>1, <1>2, FlattenNone DEF Later, w

LEMMA LaterNext ==
  ASSUME NEW p \in Roles, NEW cs, Sound(cs), NEW n \in Nat, n < Len(cs)
  PROVE  /\ n + 1 \in 1..Len(cs) /\ n + 1 \in 0..Len(cs)
         /\ cs[n + 1] \in Call /\ cs[n + 1] \in Calls
         /\ Later(p, cs, n) = Whole(p, cs[n + 1]) \o Later(p, cs, n + 1)
<1>1. Len(cs) \in Nat /\ n + 1 \in 1..Len(cs) /\ n + 1 \in 0..Len(cs)
  <2>1. Len(cs) \in Nat
    BY WholesTyped
  <2> QED
    BY <2>1
<1>2. cs[n + 1] \in Call /\ cs[n + 1] \in Calls /\ Wholes(p, cs)[n + 1] = Whole(p, cs[n + 1])
  BY <1>1, WholesTyped DEF Sound
<1> DEFINE w == Wholes(p, cs)
<1>3. w \in Seq(Seq(BlockOf(p))) /\ n < Len(w)
  BY WholesTyped DEF Program
<1> HIDE DEF w
<1>4. FlattenSeq(Drop(w, n)) = w[n + 1] \o FlattenSeq(Drop(w, n + 1))
  BY <1>3, FlattenDrop
<1> QED
  BY <1>1, <1>2, <1>4 DEF Later, w

(* The helper has no part in an opening.                                    *)
LEMMA LaterSkips ==
  ASSUME NEW cs, Sound(cs), NEW n \in 0..Len(cs)
  PROVE  \E m \in n..Len(cs) : /\ Later(HELPER, cs, m) = Later(HELPER, cs, n)
                               /\ Number(cs, m) = Number(cs, n)
                               /\ m < Len(cs) => cs[m + 1].op \in Commands
<1> DEFINE L == Len(cs)
           G(v, m) == /\ Later(HELPER, cs, m) = Later(HELPER, cs, v)
                      /\ Number(cs, m) = Number(cs, v)
                      /\ m < L => cs[m + 1].op \in Commands
           T == {k \in Nat : k <= L => \E m \in (L - k)..L : G(L - k, m)}
<1>0. HELPER \in Roles
  BY RolesAre
<1>1. L \in Nat
  BY <1>0, WholesTyped
<1>2. 0 \in T
  <2>1. L \in (L - 0)..L /\ ~(L < L) /\ L - 0 = L
    <3> HIDE DEF L
    <3> QED
      BY <1>1
  <2>2. G(L - 0, L)
    <3> HIDE DEF L
    <3> QED
      BY <2>1
  <2> HIDE DEF L, G
  <2> QED
    BY <2>1, <2>2
<1>3. ASSUME NEW k \in Nat, k \in T
      PROVE  k + 1 \in T
  <2>1. ASSUME k + 1 <= L
        PROVE  \E m \in (L - (k + 1))..L : G(L - (k + 1), m)
    <3> DEFINE v == L - (k + 1)
    <3>1. v \in Nat /\ v < L /\ v + 1 = L - k /\ k <= L /\ v \in v..L
      <4> HIDE DEF L
      <4> QED
        BY <1>1, <2>1
    <3>2. PICK m \in (L - k)..L : G(L - k, m)
      <4> HIDE DEF L, G
      <4> QED
        BY <1>3, <3>1
    <3>3. m \in v..L
      <4> HIDE DEF L, G
      <4>1. L - k \in Int /\ L \in Int /\ m \in Int /\ L - k <= m /\ m <= L
        BY <1>1, <3>2
      <4> QED
        BY <1>1, <3>1, <4>1
    <3>4. CASE cs[v + 1].op \in Commands
      <4>1. G(v, v)
        BY <3>4
      <4> HIDE DEF L, G, v
      <4>2. \E mm \in v..L : G(v, mm)
        BY <3>1, <4>1
      <4> QED
        BY <4>2 DEF v
    <3>5. CASE cs[v + 1].op \notin Commands
      <4>1. Later(HELPER, cs, v) = Whole(HELPER, cs[v + 1]) \o Later(HELPER, cs, v + 1)
            /\ v + 1 \in 0..Len(cs) /\ cs[v + 1] \in Call
        <5> HIDE DEF v
        <5> QED
          BY <1>0, <3>1, LaterNext
      <4>2. Whole(HELPER, cs[v + 1]) = <<>> \o <<>>
        <5>1. cs[v + 1].op = "REC"
          <6> HIDE DEF v
          <6> QED
            BY <3>5, <4>1 DEF Call, Commands
        <5> HIDE DEF v
        <5> QED
          BY <3>5, <5>1 DEF Whole, Hears, Body, REC
      <4>3. Later(HELPER, cs, v) = Later(HELPER, cs, v + 1)
        <5> HIDE DEF v
        <5>1. Later(HELPER, cs, v + 1) \in Seq(BlockOf(HELPER))
          BY <1>0, <4>1, LaterTyped DEF Program
        <5>2. (<<>> \o <<>>) \o Later(HELPER, cs, v + 1) = Later(HELPER, cs, v + 1)
          <6> DEFINE t == Later(HELPER, cs, v + 1)
          <6> HIDE DEF t
          <6>1. <<>> \o <<>> = <<>>
            OBVIOUS
          <6>2. t \in Seq(BlockOf(HELPER))
            BY <5>1 DEF t
          <6>3. <<>> \o t = t
            BY <6>2
          <6> QED
            BY <6>1, <6>3 DEF t
        <5> QED
          BY <4>1, <4>2, <5>2
      <4>6. Number(cs, v + 1) = Number(cs, v)
        <5>1. cs \in Seq(Call) /\ v \in Nat /\ v < Len(cs) /\ ~IsCommand(cs[v + 1])
          <6> HIDE DEF v
          <6> QED
            BY <3>1, <3>5 DEF Sound, IsCommand
        <5> HIDE DEF v
        <5> QED
          BY <5>1, NumberNext
      <4>4. G(v, m)
        BY <3>1, <3>2, <4>3, <4>6
      <4> HIDE DEF L, G, v
      <4>5. \E mm \in v..L : G(v, mm)
        BY <3>3, <4>4
      <4> QED
        BY <4>5 DEF v
    <3> QED
      BY <3>4, <3>5
  <2> HIDE DEF L, G
  <2> QED
    BY <2>1
<1>4. L - n \in T
  <2> HIDE DEF T
  <2>1. Nat \subseteq T
    BY <1>2, <1>3, SetInduction
  <2>2. L - n \in Nat
    BY <1>1
  <2> QED
    BY <2>1, <2>2
<1>5. L - n <= L /\ L - (L - n) = n
  <2> HIDE DEF L
  <2>1. n \in Nat
    BY <1>1 DEF L
  <2> QED
    BY <1>1, <2>1
<1>6. \E m \in (L - (L - n))..L : G(L - (L - n), m)
  <2> HIDE DEF L, G
  <2> QED
    BY <1>4, <1>5
<1> QED
  BY <1>5, <1>6

-----------------------------------------------------------------------------
(* One party's steps. *)

LEMMA UnitsOver ==
  ASSUME NEW units \in Seq(Unit), NEW from, NEW place
  PROVE  Units(units, Len(units), from, place) = <<>>
<1>1. Len(units) - Len(units) = 0
  OBVIOUS
<1> QED
  BY <1>1 DEF Units

(* Transfers that have moved everything say nothing more.                   *)
LEMMA RestOver ==
  ASSUME NEW p, NEW tr \in Seq(TransferOf(p)), NEW mv,
         \A i \in 1..Len(tr) : mv[i] = Len(tr[i].units),
         NEW dir, NEW q, NEW place
  PROVE  Rest(p, tr, mv, dir, q, place) = <<>>
<1>1. CASE Ways(tr, dir, q) = {}
  BY <1>1, RestNone
<1>2. CASE Ways(tr, dir, q) # {}
  <2> DEFINE i == CHOOSE i \in Ways(tr, dir, q) : TRUE
  <2>1. i \in Ways(tr, dir, q)
    BY <1>2
  <2>2. Rest(p, tr, mv, dir, q, place) = Units(tr[i].units, mv[i], Sender(p, dir, q), place)
    BY <1>2 DEF Rest
  <2> HIDE DEF i
  <2>3. i \in 1..Len(tr)
    BY <2>1 DEF Ways
  <2>4. tr[i] \in TransferOf(p) /\ mv[i] = Len(tr[i].units)
    BY <2>3
  <2>5. tr[i].units \in Seq(Unit)
    BY <2>4 DEF TransferOf
  <2> QED
    BY <2>2, <2>4, <2>5, UnitsOver
<1> QED
  BY <1>1, <1>2

(* The transfers of the current block.                                      *)
LEMMA ThreadsTyped ==
  ASSUME NEW p \in Roles, NEW x, NEW place, Busy(p, x, place)
  PROVE  /\ Threads(p, x) \in Seq(TransferOf(p))
         /\ Len(Threads(p, x)) \in {0, 1, 2}
         /\ Len(Threads(p, x)) = 2 => ApartIn(p, Threads(p, x)[1], Threads(p, x)[2])
         /\ x.at # 0 => Its(p, x)[x.at] \in BlockOf(p)
<1>1. CASE x.at = 0
  <2>1. Threads(p, x) = <<>> /\ <<>> \in Seq(TransferOf(p)) /\ Len(<<>>) = 0
    BY <1>1 DEF Threads
  <2> QED
    BY <1>1, <2>1
<1>2. CASE x.at # 0
  <2> DEFINE b == Its(p, x)[x.at]
  <2>1. b \in BlockOf(p)
    <3> DEFINE code == Its(p, x)
    <3>1. code \in Seq(BlockOf(p)) /\ x.at \in 0..Len(code)
      BY DEF Busy, Program
    <3> HIDE DEF code
    <3>2. x.at \in 1..Len(code)
      BY <1>2, <3>1
    <3>3. code[x.at] \in BlockOf(p)
      BY <3>1, <3>2
    <3> QED
      BY <3>3 DEF code
  <2>2. Threads(p, x) = b.transfers
    BY <1>2 DEF Threads
  <2> HIDE DEF b
  <2> QED
    BY <2>1, <2>2, BlockTyped DEF b
<1> QED
  BY <1>1, <1>2

(* The transfers of a block are known by direction and peer.                *)
Spread(p, tr) ==
  Len(tr) \in {0, 1, 2} /\ (Len(tr) = 2 => ApartIn(p, tr[1], tr[2]))
OnlyWay(tr, i) ==
  /\ Ways(tr, tr[i].dir, tr[i].peer) = {i}
  /\ \A j \in 1..Len(tr) : tr[j].buf = tr[i].buf => j = i

LEMMA OneWay ==
  ASSUME NEW p, NEW tr, Spread(p, tr), NEW i, i \in 1..Len(tr)
  PROVE  OnlyWay(tr, i)
<1>1. \A j \in 1..Len(tr) : j = i \/ /\ tr[j].dir # tr[i].dir \/ tr[j].peer # tr[i].peer
                                     /\ tr[j].buf # tr[i].buf
  BY DEF ApartIn, Spread
<1> QED
  BY <1>1 DEF Ways, OnlyWay

RestIs(p, tr, mv, dir, q, place, i) ==
  Ways(tr, dir, q) = {i} =>
    Rest(p, tr, mv, dir, q, place) = Units(tr[i].units, mv[i], Sender(p, dir, q), place)

LEMMA RestOneIs ==
  ASSUME NEW p, NEW tr, NEW mv, NEW dir, NEW q, NEW place, NEW i
  PROVE  RestIs(p, tr, mv, dir, q, place, i)
<1> SUFFICES ASSUME Ways(tr, dir, q) = {i}
             PROVE  Rest(p, tr, mv, dir, q, place)
                      = Units(tr[i].units, mv[i], Sender(p, dir, q), place)
  BY DEF RestIs
<1>1. (CHOOSE j \in Ways(tr, dir, q) : TRUE) = i
  OBVIOUS
<1> QED
  BY <1>1 DEF Rest

LEMMA SayTyped ==
  ASSUME NEW p \in Roles, NEW x, NEW cs, Sound(cs), NEW n, NEW todo, NEW e, NEW place,
         Stands(p, x, cs, n, todo, e, place), NEW way \in Ways2, NEW q \in Roles
  PROVE  Stream(p, todo, way, q, e) \in Seq(Packet)
BY StreamTyped DEF Stands

(* A call begins.                                                           *)
LEMMA LocalBegin ==
  ASSUME NEW p \in Proxies, NEW x, NEW y, NEW cs, Sound(cs), NEW s, Local(p, x, cs, s),
         x.pc = "call", x.begun < Len(cs),
         y.pc = "run", y.begun = x.begun + 1, y.call = cs[x.begun + 1], y.at = 0,
         y.moved = <<>>, y.drawn = x.drawn
  PROVE  Local(p, y, cs, s)
<1>0. p \in Roles /\ p # HELPER
  BY RolesAre
<1>1. PICK n, todo, e, place :
        Stands(p, x, cs, n, todo, e, place) /\ Says(p, x, cs, s, n, todo, e, place)
  BY DEF Local
<1>2. n = x.begun /\ n \in Nat /\ todo = Later(p, cs, n)
  BY <1>0, <1>1 DEF Stands, Position
<1> DEFINE c == cs[n + 1]
<1>3. /\ n + 1 \in 0..Len(cs) /\ c \in Call /\ c \in Calls
      /\ Later(p, cs, n) = Whole(p, c) \o Later(p, cs, n + 1)
  BY <1>0, <1>2, LaterNext
<1>4. y.call = c
  BY <1>2
<1> HIDE DEF c
<1>5. Its(p, y) = Whole(p, c) /\ Its(p, y) \in Program(p)
  BY <1>0, <1>3, <1>4, TableIs
<1>6. Threads(p, y) = <<>>
  BY DEF Threads
<1>7. Drop(Its(p, y), 0) = Its(p, y)
  BY <1>5, DropNone DEF Program
<1>8. Len(Its(p, y)) \in Nat
  BY <1>5 DEF Program
<1>9. Busy(p, y, place)
  BY <1>5, <1>6, <1>8 DEF Busy
<1>10. Position(p, y, cs, n + 1, todo)
  BY <1>0, <1>2, <1>3, <1>5, <1>7 DEF Position
<1>11. Stands(p, y, cs, n + 1, todo, e, place)
  <2>1. Counts(p, y, cs, n + 1)
    BY <1>0, <1>2 DEF Counts
  <2> QED
    BY <1>0, <1>1, <1>2, <1>3, <1>4, <1>9, <1>10, <2>1 DEF Stands
<1>12. Says(p, y, cs, s, n + 1, todo, e, place)
  <2>1. \A way, q : Current(p, x, cs, n, place, way, q) = <<>>
    BY DEF Current
  <2>2. \A way, q : Current(p, y, cs, n + 1, place, way, q) = <<>>
    <3>1. \A way, q : Ways(<<>>, way, q) = {}
      BY DEF Ways
    <3> QED
      BY <1>6, <3>1, RestNone DEF Current
  <2> QED
    BY <1>1, <2>1, <2>2 DEF Says
<1> QED
  BY <1>11, <1>12 DEF Local

(* All blocks of a call are over.                                           *)
LEMMA LocalReturn ==
  ASSUME NEW p \in Roles, NEW x, NEW y, NEW cs, Sound(cs), NEW s, Local(p, x, cs, s),
         x.pc = "run", x.at = Len(Its(p, x)),
         \A i \in 1..Len(Threads(p, x)) : x.moved[i] = Len(Threads(p, x)[i].units),
         y.pc = (IF p = HELPER THEN "command" ELSE "call"),
         y.begun = x.begun, y.call = x.call, y.drawn = x.drawn
  PROVE  Local(p, y, cs, s)
<1>1. PICK n, todo, e, place :
        Stands(p, x, cs, n, todo, e, place) /\ Says(p, x, cs, s, n, todo, e, place)
  BY DEF Local
<1>2. Busy(p, x, place) /\ n \in 0..Len(cs)
  BY <1>1 DEF Stands
<1>3. todo = Later(p, cs, n)
  <2>1. todo = Drop(Its(p, x), x.at) \o Later(p, cs, n)
    BY <1>1 DEF Stands, Position
  <2>2. Drop(Its(p, x), x.at) = <<>>
    BY <1>2, DropEnd DEF Busy, Program
  <2>3. Later(p, cs, n) \in Seq(BlockOf(p))
    BY <1>2, LaterTyped DEF Program
  <2> DEFINE t == Later(p, cs, n)
  <2>4. <<>> \o t = t
    <3> HIDE DEF t
    <3> QED
      BY <2>3, EmptyLeft DEF t
  <2> QED
    BY <2>1, <2>2, <2>4
<1>4. Position(p, y, cs, n, todo)
  BY <1>3 DEF Position
<1>5. Stands(p, y, cs, n, todo, e, place)
  <2>1. Counts(p, x, cs, n)
    BY <1>1 DEF Stands
  <2>2. Counts(p, y, cs, n)
    BY <2>1 DEF Counts
  <2> QED
    BY <1>1, <1>4, <2>2 DEF Stands
<1>6. Says(p, y, cs, s, n, todo, e, place)
  <2>1. \A way, q : Current(p, x, cs, n, place, way, q) = <<>>
    <3> DEFINE tr == Threads(p, x)
               mv == x.moved
    <3>1. tr \in Seq(TransferOf(p))
      BY <1>2, ThreadsTyped
    <3>2. \A i \in 1..Len(tr) : mv[i] = Len(tr[i].units)
      OBVIOUS
    <3>3. ASSUME NEW way, NEW q
          PROVE  Current(p, x, cs, n, place, way, q) = Rest(p, tr, mv, way, q, place)
      BY DEF Current
    <3> HIDE DEF tr, mv
    <3>4. ASSUME NEW way, NEW q
          PROVE  Rest(p, tr, mv, way, q, place) = <<>>
      BY <3>1, <3>2, RestOver
    <3> QED
      BY <3>3, <3>4
  <2>2. \A way, q : Current(p, y, cs, n, place, way, q) = <<>>
    BY DEF Current
  <2> QED
    BY <1>1, <2>1, <2>2 DEF Says
<1> QED
  BY <1>5, <1>6 DEF Local

(* A proxy's program ends.                                                  *)
LEMMA LocalExit ==
  ASSUME NEW p \in Proxies, NEW x, NEW y, NEW cs, Sound(cs), NEW s, Local(p, x, cs, s),
         x.pc = "call", x.begun = Len(cs),
         y.pc = "exit", y.begun = x.begun, y.call = x.call, y.drawn = x.drawn
  PROVE  Local(p, y, cs, s)
<1>0. p \in Roles /\ p # HELPER
  BY RolesAre
<1>1. PICK n, todo, e, place :
        Stands(p, x, cs, n, todo, e, place) /\ Says(p, x, cs, s, n, todo, e, place)
  BY DEF Local
<1>2. n = Len(cs) /\ todo = Later(p, cs, n)
  BY <1>0, <1>1 DEF Stands, Position
<1>3. todo = <<>>
  BY <1>0, <1>2, LaterEnd
<1>4. Position(p, y, cs, n, todo)
  BY <1>0, <1>3 DEF Position
<1>5. Stands(p, y, cs, n, todo, e, place)
  <2>1. Counts(p, y, cs, n)
    BY <1>0, <1>2 DEF Counts
  <2> QED
    BY <1>0, <1>1, <1>4, <2>1 DEF Stands
<1>6. Says(p, y, cs, s, n, todo, e, place)
  <2>1. \A way, q : Current(p, x, cs, n, place, way, q) = <<>>
    BY DEF Current
  <2>2. \A way, q : Current(p, y, cs, n, place, way, q) = <<>>
    BY DEF Current
  <2> QED
    BY <1>1, <2>1, <2>2 DEF Says
<1> QED
  BY <1>5, <1>6 DEF Local

(* The next block starts.                                                   *)
LEMMA LocalNextBlock ==
  ASSUME NEW p \in Roles, NEW x, NEW y, NEW cs, Sound(cs), NEW s, Local(p, x, cs, s),
         x.pc = "run", x.at < Len(Its(p, x)),
         \A i \in 1..Len(Threads(p, x)) : x.moved[i] = Len(Threads(p, x)[i].units),
         NEW b, b = Its(p, x)[x.at + 1],
         y.pc = "run", y.begun = x.begun, y.call = x.call, y.at = x.at + 1,
         y.drawn = x.drawn + b.draws, y.moved = Unmoved(b.transfers),
         \A i \in 1..Len(b.transfers) : b.transfers[i].dir = "send" =>
           \A k \in 1..Len(b.transfers[i].units) :
             y.buf[b.transfers[i].buf][k] = Stamped(b.transfers[i].units[k], p, y.drawn)
  PROVE  Local(p, y, cs, s)
<1>1. PICK n, todo, e, place :
        Stands(p, x, cs, n, todo, e, place) /\ Says(p, x, cs, s, n, todo, e, place)
  BY DEF Local
<1>2. Busy(p, x, place) /\ n \in 0..Len(cs)
  BY <1>1 DEF Stands
<1> DEFINE code == Its(p, x)
           l == Later(p, cs, n)
           a == Drop(code, x.at + 1)
           rest == a \o l
           tr == b.transfers
           e1 == e[1]
           g == Drop(e, 1)
<1>3. todo = Drop(code, x.at) \o l
  BY <1>1 DEF Stands, Position
<1>4. code \in Program(p) /\ x.at \in Nat /\ x.at + 1 # 0
  <2> DEFINE c == Its(p, x)
             o == x.at
  <2>1. c \in Program(p) /\ o \in 0..Len(c)
    BY <1>2 DEF Busy
  <2>2. Len(c) \in Nat
    BY <2>1 DEF Program
  <2> HIDE DEF c, o
  <2>3. o \in Nat /\ o + 1 # 0
    BY <2>1, <2>2
  <2> QED
    BY <2>1, <2>3 DEF c, o
<1>5. b \in BlockOf(p) /\ a \in Seq(BlockOf(p)) /\ Drop(code, x.at) = <<b>> \o a
      /\ Len(a) = Len(code) - (x.at + 1)
  BY <1>4, DropNext DEF Program
<1>6. l \in Seq(BlockOf(p))
  BY <1>2, LaterTyped DEF Program
<1>7. rest \in Program(p) /\ todo = <<b>> \o rest
  <2> HIDE DEF a, l, code
  <2>1. rest \in Seq(BlockOf(p)) /\ (<<b>> \o a) \o l = <<b>> \o rest
    BY <1>5, <1>6, Regroup
  <2> QED
    BY <1>3, <1>5, <2>1 DEF Program
<1>8. todo \in Program(p) /\ e \in Seq(Nat) /\ Len(e) = Len(todo)
  BY <1>1 DEF Stands
<1>9. /\ e1 \in Nat /\ g \in Seq(Nat) /\ Len(g) = Len(rest)
      /\ \A dir : \A q \in Roles :
           Stream(p, todo, dir, q, e) = Said(p, b, dir, q, e1) \o Stream(p, rest, dir, q, g)
  <2> HIDE DEF rest
  <2>1. rest \in Program(p) /\ Len(e) = Len(<<b>> \o rest)
    BY <1>7, <1>8
  <2>2. NextStream(p, b, rest, e)
    BY <1>5, <1>8, <2>1, StreamNext
  <2> QED
    BY <1>7, <2>2 DEF NextStream
<1>10. /\ b.draws \in Nat /\ tr \in Seq(TransferOf(p))
       /\ p = HELPER => b.draws = 0
       /\ Len(tr) \in {0, 1, 2}
  BY <1>5, BlockTyped
<1>11. p # HELPER => y.drawn = e1 /\ \E d2 : Places(rest, e1, g, d2)
  <2> SUFFICES ASSUME p # HELPER
               PROVE  y.drawn = e1 /\ \E d2 : Places(rest, e1, g, d2)
    OBVIOUS
  <2>1. x.drawn = place
    BY <1>1 DEF Stands
  <2>2. PICK d2 : Places(todo, place, e, d2)
    BY <1>1 DEF Stands
  <2> HIDE DEF rest
  <2>3. rest \in Program(p) /\ Len(e) = Len(<<b>> \o rest) /\ Places(<<b>> \o rest, place, e, d2)
    BY <1>7, <1>8, <2>2
  <2>4. e1 = place + b.draws /\ Places(rest, e1, g, d2)
    BY <1>5, <1>8, <2>3, PlacesNext
  <2> QED
    BY <2>1, <2>4
<1>12. p = HELPER => y.drawn = 0
  BY <1>1, <1>10 DEF Stands
<1>13. Its(p, y) = code
  BY DEF Its
<1>14. Threads(p, y) = tr
  BY <1>4, <1>13 DEF Threads
<1>15. Busy(p, y, e1)
  <2>1. y.at \in 0..Len(Its(p, y))
    <3> DEFINE o == x.at
    <3>1. o \in Nat /\ o < Len(code) /\ Len(code) \in Nat
      BY <1>4 DEF Program
    <3> HIDE DEF code, o
    <3>2. o + 1 \in 0..Len(code)
      BY <3>1
    <3> QED
      BY <1>13, <3>2 DEF o
  <2>2. Unmoved(tr) \in Seq(Nat) /\ Len(Unmoved(tr)) = Len(tr)
        /\ \A i \in 1..Len(tr) : Unmoved(tr)[i] = 0
    <3> DEFINE m == Len(tr)
    <3>1. m \in Nat
      BY <1>10
    <3>2. Unmoved(tr) \in [1..m -> Nat]
      <4> HIDE DEF m
      <4>1. 0 \in Nat
        OBVIOUS
      <4> QED
        BY <4>1 DEF Unmoved, m
    <3>3. \A i \in 1..Len(tr) : Unmoved(tr)[i] = 0
      BY DEF Unmoved
    <3> DEFINE u == Unmoved(tr)
    <3> HIDE DEF m, u
    <3>4. u \in Seq(Nat) /\ Len(u) = m
      BY <3>1, <3>2 DEF u
    <3> QED
      BY <3>3, <3>4 DEF u, m
  <2>3. ASSUME NEW i \in 1..Len(tr)
        PROVE  /\ y.moved[i] \in 0..Len(tr[i].units)
               /\ tr[i].dir = "send" =>
                    \A k \in 1..Len(tr[i].units) : y.buf[tr[i].buf][k] = Packed(tr[i].units[k], p, e1)
               /\ tr[i].dir = "receive" =>
                    \A k \in 1..y.moved[i] :
                      /\ k \in DOMAIN y.buf[tr[i].buf]
                      /\ y.buf[tr[i].buf][k] = Packed(tr[i].units[k], tr[i].peer, e1)
    <3>1. y.moved[i] = 0
      BY <2>2
    <3>2. Len(tr[i].units) \in Nat
      <4> DEFINE t == tr[i]
      <4>1. t \in TransferOf(p)
        BY <1>10
      <4> HIDE DEF t
      <4>2. Len(t.units) \in Nat
        BY <4>1 DEF TransferOf
      <4> QED
        BY <4>2 DEF t
    <3>3. tr[i].dir = "send" =>
            \A k \in 1..Len(tr[i].units) : y.buf[tr[i].buf][k] = Packed(tr[i].units[k], p, e1)
      <4>1. \A unit : Stamped(unit, p, y.drawn) = Packed(unit, p, e1)
        BY <1>11, <1>12 DEF Packed
      <4> QED
        BY <4>1
    <3>4. y.moved[i] \in 0..Len(tr[i].units) /\ 1..y.moved[i] = {}
      <4> DEFINE m == Len(tr[i].units)
      <4> HIDE DEF m
      <4>1. 0 \in 0..m /\ 1..0 = {}
        BY <3>2 DEF m
      <4> QED
        BY <3>1, <4>1 DEF m
    <3> DEFINE z == y.moved[i]
    <3> HIDE DEF z
    <3>5. tr[i].dir = "receive" =>
            \A k \in 1..z :
              /\ k \in DOMAIN y.buf[tr[i].buf]
              /\ y.buf[tr[i].buf][k] = Packed(tr[i].units[k], tr[i].peer, e1)
      <4>1. 1..z = {}
        BY <3>4 DEF z
      <4> QED
        BY <4>1, Zenon
    <3> QED
      BY <3>3, <3>4, <3>5, Zenon DEF z
  <2>4. y.moved = Unmoved(tr)
    OBVIOUS
  <2> HIDE DEF tr, e1
  <2>5. y.moved \in Seq(Nat) /\ Len(y.moved) = Len(tr)
    BY <2>2, <2>4
  <2> HIDE DEF code
  <2> QED
    BY <1>4, <1>13, <1>14, <2>1, <2>3, <2>5 DEF Busy
<1>16. Position(p, y, cs, n, rest)
  BY <1>1, <1>13 DEF Stands, Position
<1>17. Stands(p, y, cs, n, rest, g, e1)
  <2>1. x.call \in Call /\ x.begun \in Nat /\ (p = HELPER => x.begun <= n) /\ (p # HELPER => x.begun = n)
    BY <1>1 DEF Stands
  <2>2. Counts(p, x, cs, n)
    BY <1>1 DEF Stands
  <2>3. Counts(p, y, cs, n)
    BY <2>2 DEF Counts
  <2> HIDE DEF rest, g, e1
  <2> QED
    BY <1>2, <1>7, <1>9, <1>11, <1>12, <1>15, <1>16, <2>1, <2>3 DEF Stands
<1>18. Says(p, y, cs, s, n, rest, g, e1)
  <2>1. \A way, q : Current(p, y, cs, n, e1, way, q) = Said(p, b, way, q, e1)
    BY <1>14 DEF Current, Said
  <2>2. ASSUME NEW way \in Ways2, NEW q \in Roles
        PROVE  s[way][q] = Current(p, y, cs, n, e1, way, q) \o Stream(p, rest, way, q, g)
    <3>1. s[way][q] = Current(p, x, cs, n, place, way, q) \o Stream(p, todo, way, q, e)
      BY <1>1 DEF Says
    <3>2. Current(p, x, cs, n, place, way, q) = <<>>
      <4> DEFINE trx == Threads(p, x)
                 mv == x.moved
      <4>1. trx \in Seq(TransferOf(p))
        BY <1>2, ThreadsTyped
      <4>2. \A i \in 1..Len(trx) : mv[i] = Len(trx[i].units)
        OBVIOUS
      <4>3. Current(p, x, cs, n, place, way, q) = Rest(p, trx, mv, way, q, place)
        BY DEF Current
      <4> HIDE DEF trx, mv
      <4> QED
        BY <4>1, <4>2, <4>3, RestOver
    <3>3. Stream(p, todo, way, q, e) \in Seq(Packet)
      BY <1>1, SayTyped
    <3>4. s[way][q] = Stream(p, todo, way, q, e)
      BY <3>1, <3>2, <3>3, EmptyLeft
    <3>5. Stream(p, todo, way, q, e) = Said(p, b, way, q, e1) \o Stream(p, rest, way, q, g)
      BY <1>9
    <3> HIDE DEF rest, g, e1
    <3> QED
      BY <2>1, <3>4, <3>5
  <2>3. s \in [Ways2 -> [Roles -> Seq(Packet)]]
    BY <1>1 DEF Says
  <2> QED
    BY <2>2, <2>3 DEF Says
<1> QED
  BY <1>17, <1>18 DEF Local

(* One unit less on the way to, or from, q.                                 *)
Less(s, way, q) ==
  [w \in Ways2 |-> [r \in Roles |-> IF w = way /\ r = q THEN Tail(s[w][r]) ELSE s[w][r]]]

LEMMA LessTyped ==
  ASSUME NEW s \in [Ways2 -> [Roles -> Seq(Packet)]], NEW way \in Ways2, NEW q \in Roles,
         s[way][q] # <<>>
  PROVE  /\ Less(s, way, q) \in [Ways2 -> [Roles -> Seq(Packet)]]
         /\ Less(s, way, q)[way][q] = Tail(s[way][q])
         /\ \A w \in Ways2 : \A r \in Roles :
              w # way \/ r # q => Less(s, way, q)[w][r] = s[w][r]
<1>1. \A w \in Ways2 : \A r \in Roles :
        Less(s, way, q)[w][r] = IF w = way /\ r = q THEN Tail(s[w][r]) ELSE s[w][r]
  BY DEF Less
<1>2. ASSUME NEW w \in Ways2, NEW r \in Roles
      PROVE  (IF w = way /\ r = q THEN Tail(s[w][r]) ELSE s[w][r]) \in Seq(Packet)
  <2> DEFINE t == s[w][r]
  <2>1. t \in Seq(Packet)
    OBVIOUS
  <2>2. w = way /\ r = q => t # <<>>
    OBVIOUS
  <2> HIDE DEF t
  <2>3. t # <<>> => Tail(t) \in Seq(Packet)
    BY <2>1
  <2> QED
    BY <2>1, <2>2, <2>3 DEF t
<1>3. Less(s, way, q) \in [Ways2 -> [Roles -> Seq(Packet)]]
  BY <1>2 DEF Less
<1> QED
  BY <1>1, <1>3

LEMMA RestSame ==
  ASSUME NEW p, NEW tr, NEW mv, NEW mv2, NEW dir, NEW q, NEW place,
         \A j \in Ways(tr, dir, q) : mv[j] = mv2[j]
  PROVE  Rest(p, tr, mv, dir, q, place) = Rest(p, tr, mv2, dir, q, place)
<1>1. CASE Ways(tr, dir, q) = {}
  BY <1>1, RestNone
<1>2. CASE Ways(tr, dir, q) # {}
  <2> DEFINE i == CHOOSE i \in Ways(tr, dir, q) : TRUE
  <2>1. i \in Ways(tr, dir, q)
    BY <1>2
  <2>2. /\ Rest(p, tr, mv, dir, q, place) = Units(tr[i].units, mv[i], Sender(p, dir, q), place)
        /\ Rest(p, tr, mv2, dir, q, place) = Units(tr[i].units, mv2[i], Sender(p, dir, q), place)
    BY <1>2 DEF Rest
  <2> HIDE DEF i
  <2> QED
    BY <2>1, <2>2
<1> QED
  BY <1>1, <1>2

(* The next unit of a transfer is the next one on its way.                  *)
NextIs(p, x, s, t, k, todo, e, place) ==
  /\ t \in TransferOf(p) /\ t.dir \in Ways2 /\ t.peer \in Roles
  /\ k \in 1..Len(t.units) /\ t.units[k] \in Unit /\ Sender(p, t.dir, t.peer) \in Roles
  /\ s[t.dir][t.peer] # <<>>
  /\ Head(s[t.dir][t.peer]) = Packed(t.units[k], Sender(p, t.dir, t.peer), place)
  /\ Tail(s[t.dir][t.peer])
       = Units(t.units, k, Sender(p, t.dir, t.peer), place) \o Stream(p, todo, t.dir, t.peer, e)

LEMMA NextUnit ==
  ASSUME NEW p \in Roles, NEW x, NEW cs, Sound(cs), NEW s, NEW n, NEW todo, NEW e, NEW place,
         Stands(p, x, cs, n, todo, e, place), Says(p, x, cs, s, n, todo, e, place),
         x.pc = "run", NEW i \in 1..Len(Threads(p, x)),
         x.moved[i] < Len(Threads(p, x)[i].units)
  PROVE  NextIs(p, x, s, Threads(p, x)[i], x.moved[i] + 1, todo, e, place)
<1> DEFINE tr == Threads(p, x)
           t == tr[i]
           m == x.moved[i]
           mv == x.moved
           from == Sender(p, t.dir, t.peer)
<1>1. Busy(p, x, place) /\ place \in Nat
  BY DEF Stands
<1>2. /\ tr \in Seq(TransferOf(p)) /\ Len(tr) \in {0, 1, 2}
      /\ Len(tr) = 2 => ApartIn(p, tr[1], tr[2])
  BY <1>1, ThreadsTyped
<1>3. t \in TransferOf(p)
  <2> HIDE DEF tr
  <2> QED
    BY <1>2 DEF tr
<1>4. t.dir \in Ways2 /\ t.peer \in Roles /\ t.units \in Seq(Unit)
  <2> HIDE DEF t
  <2> QED
    BY <1>3 DEF TransferOf, Ways2
<1>5. m \in 0..Len(t.units)
  BY <1>1 DEF Busy
<1>6. from \in Roles
  BY <1>4 DEF Sender
<1>7. m < Len(t.units)
  OBVIOUS
<1>8. /\ m + 1 \in 1..Len(t.units)
      /\ Units(t.units, m, from, place)
           = <<Packed(t.units[m + 1], from, place)>> \o Units(t.units, m + 1, from, place)
  <2> DEFINE units == t.units
  <2> HIDE DEF t, from, m
  <2>1. units \in Seq(Unit) /\ m \in 0..Len(units) /\ m < Len(units)
    BY <1>4, <1>5, <1>7
  <2> HIDE DEF units
  <2>2. /\ m + 1 \in 1..Len(units)
        /\ Units(units, m, from, place)
             = <<Packed(units[m + 1], from, place)>> \o Units(units, m + 1, from, place)
    BY <1>1, <1>6, <2>1, UnitsFirst
  <2> QED
    BY <2>2 DEF units
<1>9. t.units[m + 1] \in Unit
  <2> DEFINE units == t.units
             k == m + 1
  <2>1. units \in Seq(Unit) /\ k \in 1..Len(units)
    BY <1>4, <1>8
  <2> HIDE DEF units, k
  <2>2. units[k] \in Unit
    BY <2>1
  <2> QED
    BY <2>2 DEF units, k
<1> DEFINE u == Packed(t.units[m + 1], from, place)
           r == Units(t.units, m + 1, from, place)
           st == Stream(p, todo, t.dir, t.peer, e)
<1>10. u \in Packet
  <2> DEFINE unit == t.units[m + 1]
  <2>1. unit \in Unit
    BY <1>9
  <2> HIDE DEF unit, from
  <2>2. Packed(unit, from, place) \in Packet
    BY <1>1, <1>6, <2>1, PackedTyped
  <2> QED
    BY <2>2 DEF unit
<1>11. r \in Seq(Packet)
  <2> DEFINE units == t.units
             k == m + 1
  <2>1. units \in Seq(Unit) /\ k \in 0..Len(units)
    <3> HIDE DEF m, t
    <3>1. Len(units) \in Nat
      BY <1>4
    <3> QED
      BY <1>4, <1>8, <3>1
  <2> HIDE DEF units, k, from
  <2>2. Units(units, k, from, place) \in Seq(Packet)
    BY <1>1, <1>6, <2>1, UnitsTyped
  <2> QED
    BY <2>2 DEF units, k
<1>12. st \in Seq(Packet)
  <2> DEFINE way == t.dir
             q == t.peer
  <2>1. way \in Ways2 /\ q \in Roles
    BY <1>4
  <2> HIDE DEF way, q
  <2>2. Stream(p, todo, way, q, e) \in Seq(Packet)
    BY <2>1, SayTyped
  <2> QED
    BY <2>2 DEF way, q
<1>13. s[t.dir][t.peer] = Rest(p, tr, mv, t.dir, t.peer, place) \o st
  <2> DEFINE way == t.dir
             q == t.peer
  <2>1. way \in Ways2 /\ q \in Roles
    BY <1>4
  <2> HIDE DEF way, q, t
  <2>2. s[way][q] = Current(p, x, cs, n, place, way, q) \o Stream(p, todo, way, q, e)
    BY <2>1 DEF Says
  <2>3. Current(p, x, cs, n, place, way, q) = Rest(p, tr, mv, way, q, place)
    BY DEF Current
  <2> QED
    BY <2>2, <2>3 DEF way, q
<1>14. Rest(p, tr, mv, t.dir, t.peer, place) = Units(t.units, m, from, place)
  <2>1. Ways(tr, tr[i].dir, tr[i].peer) = {i}
    <3>1. i \in 1..Len(tr)
      OBVIOUS
    <3>2. Spread(p, tr)
      BY <1>2 DEF Spread
    <3> HIDE DEF tr
    <3> QED
      BY <3>1, <3>2, OneWay DEF OnlyWay
  <2> DEFINE way == t.dir
             q == t.peer
  <2>2. Ways(tr, way, q) = {i}
    BY <2>1
  <2> HIDE DEF way, q, tr, mv
  <2>3. RestIs(p, tr, mv, way, q, place, i)
    BY RestOneIs
  <2>4. Rest(p, tr, mv, way, q, place) = Units(tr[i].units, mv[i], Sender(p, way, q), place)
    BY <2>2, <2>3 DEF RestIs
  <2> QED
    BY <2>4 DEF way, q, mv
<1>15. s[t.dir][t.peer] = <<u>> \o (r \o st)
  <2> HIDE DEF u, r, st
  <2> DEFINE k == <<u>>
  <2>1. k \in Seq(Packet)
    BY <1>10
  <2>2. s[t.dir][t.peer] = (k \o r) \o st
    BY <1>8, <1>13, <1>14 DEF u, r, st
  <2> HIDE DEF k
  <2>3. (k \o r) \o st = k \o (r \o st)
    <3>1. r \in Seq(Packet) /\ st \in Seq(Packet) /\ k \in Seq(Packet)
      BY <1>11, <1>12, <2>1
    <3> QED
      BY <3>1, ConcatAssociative, SMTT(40)
  <2> QED
    BY <2>2, <2>3 DEF k
<1> DEFINE w == r \o st
<1>16. w \in Seq(Packet)
  <2> HIDE DEF r, st
  <2> QED
    BY <1>11, <1>12, ConcatProperties
<1>17. <<u>> \o w # <<>> /\ Head(<<u>> \o w) = u /\ Tail(<<u>> \o w) = w
  <2> HIDE DEF u, w
  <2> QED
    BY <1>10, <1>16, HeadTail
<1>18. t \in TransferOf(p) /\ m + 1 \in 1..Len(t.units)
  BY <1>3, <1>8
<1> QED
  BY <1>3, <1>4, <1>6, <1>8, <1>9, <1>15, <1>17 DEF NextIs

(* What a transfer's step leaves of a party.                                *)
Moves(p, x, y, i, u) ==
  LET t == Threads(p, x)[i]
      k == x.moved[i] + 1
  IN  /\ x.pc = "run" /\ i \in 1..Len(Threads(p, x)) /\ x.moved[i] < Len(t.units)
      /\ y.pc = "run" /\ y.begun = x.begun /\ y.call = x.call /\ y.at = x.at
      /\ y.drawn = x.drawn
      /\ y.moved = [x.moved EXCEPT ![i] = k]
      /\ \A b \in {1, 2} : b # t.buf => y.buf[b] = x.buf[b]
      /\ t.dir = "send" => y.buf[t.buf] = x.buf[t.buf]
      /\ t.dir = "receive" =>
           /\ DOMAIN y.buf[t.buf] = DOMAIN x.buf[t.buf] \cup {k}
           /\ y.buf[t.buf][k] = u
           /\ \A n \in DOMAIN x.buf[t.buf] : n # k => y.buf[t.buf][n] = x.buf[t.buf][n]

(* One unit of a transfer moves: the first on its way.                      *)
LEMMA LocalMove ==
  ASSUME NEW p \in Roles, NEW x, NEW y, NEW cs, Sound(cs), NEW s, Local(p, x, cs, s),
         NEW i, NEW way, NEW q, way = Threads(p, x)[i].dir, q = Threads(p, x)[i].peer,
         Moves(p, x, y, i, Head(s[way][q]))
  PROVE  Local(p, y, cs, Less(s, way, q))
<1>1. PICK n, todo, e, place :
        Stands(p, x, cs, n, todo, e, place) /\ Says(p, x, cs, s, n, todo, e, place)
  BY DEF Local
<1> DEFINE tr == Threads(p, x)
           t == tr[i]
           m == x.moved[i]
           mv == x.moved
           from == Sender(p, t.dir, t.peer)
           rem == Less(s, way, q)
<1>2. x.pc = "run" /\ i \in 1..Len(tr) /\ m < Len(t.units) /\ way = t.dir /\ q = t.peer
  BY DEF Moves
<1>3. Busy(p, x, place) /\ place \in Nat
  BY <1>1, <1>2 DEF Stands
<1>4. /\ tr \in Seq(TransferOf(p)) /\ Len(tr) \in {0, 1, 2}
      /\ Len(tr) = 2 => ApartIn(p, tr[1], tr[2])
  BY <1>3, ThreadsTyped
<1>5. NextIs(p, x, s, t, m + 1, todo, e, place)
  BY <1>1, <1>2, NextUnit
<1>6. Ways(tr, way, q) = {i} /\ \A j \in 1..Len(tr) : tr[j].buf = t.buf => j = i
  <2>1. i \in 1..Len(tr) /\ way = tr[i].dir /\ q = tr[i].peer
    BY <1>2
  <2>2. Spread(p, tr)
    BY <1>4 DEF Spread
  <2> HIDE DEF tr
  <2>3. OnlyWay(tr, i)
    BY <2>1, <2>2, OneWay
  <2> QED
    BY <2>1, <2>3 DEF OnlyWay
<1>7. y.moved = [mv EXCEPT ![i] = m + 1]
  BY DEF Moves
<1>8. mv \in Seq(Nat) /\ Len(mv) = Len(tr)
  BY <1>3 DEF Busy
<1>9. m \in Nat
  <2> HIDE DEF mv, tr
  <2>1. mv[i] \in Nat
    BY <1>2, <1>8
  <2> QED
    BY <2>1 DEF mv
<1> DEFINE my == y.moved
<1>10. /\ my \in Seq(Nat) /\ Len(my) = Len(tr) /\ my[i] = m + 1
       /\ \A j \in 1..Len(tr) : j # i => my[j] = mv[j]
  <2> DEFINE k == m + 1
  <2>1. k \in Nat
    BY <1>9
  <2>2. my = [mv EXCEPT ![i] = k]
    BY <1>7
  <2> HIDE DEF mv, my, tr, k
  <2> QED
    BY <1>2, <1>8, <2>1, <2>2 DEF k
<1>11. Threads(p, y) = tr /\ Its(p, y) = Its(p, x) /\ y.at = x.at /\ y.pc = "run"
  BY DEF Threads, Its, Moves
<1>12. ASSUME NEW j \in 1..Len(tr)
       PROVE  /\ my[j] \in 0..Len(tr[j].units)
              /\ tr[j].dir = "send" =>
                   \A k \in 1..Len(tr[j].units) : y.buf[tr[j].buf][k] = Packed(tr[j].units[k], p, place)
              /\ tr[j].dir = "receive" =>
                   \A k \in 1..my[j] : /\ k \in DOMAIN y.buf[tr[j].buf]
                                       /\ y.buf[tr[j].buf][k] = Packed(tr[j].units[k], tr[j].peer, place)
  <2>1. /\ mv[j] \in 0..Len(tr[j].units)
        /\ tr[j].dir = "send" =>
             \A k \in 1..Len(tr[j].units) : x.buf[tr[j].buf][k] = Packed(tr[j].units[k], p, place)
        /\ tr[j].dir = "receive" =>
             \A k \in 1..mv[j] : /\ k \in DOMAIN x.buf[tr[j].buf]
                                 /\ x.buf[tr[j].buf][k] = Packed(tr[j].units[k], tr[j].peer, place)
    BY <1>3 DEF Busy
  <2>2. CASE j # i
    <3>1. tr[j].buf # t.buf /\ my[j] = mv[j]
      BY <1>6, <1>10, <2>2
    <3>2. tr[j].buf \in {1, 2}
      <4> DEFINE tt == tr[j]
      <4>1. tt \in TransferOf(p)
        BY <1>4
      <4> HIDE DEF tt
      <4>2. tt.buf \in {1, 2}
        BY <4>1 DEF TransferOf
      <4> QED
        BY <4>2 DEF tt
    <3>3. y.buf[tr[j].buf] = x.buf[tr[j].buf]
      BY <3>1, <3>2 DEF Moves
    <3> HIDE DEF tr, mv, my
    <3> QED
      BY <2>1, <3>1, <3>3
  <2>3. CASE j = i
    <3>1. m + 1 \in 1..Len(t.units)
      BY <1>5 DEF NextIs
    <3>2. my[j] \in 0..Len(tr[j].units)
      <4> DEFINE o == Len(t.units)
                 k == m + 1
      <4>1. k \in 1..o
        BY <3>1
      <4> HIDE DEF o, k
      <4>2. k \in 0..o
        BY <4>1
      <4> QED
        BY <1>10, <2>3, <4>2 DEF o, k
    <3>3. tr[j].dir = "send" =>
            \A k \in 1..Len(tr[j].units) : y.buf[tr[j].buf][k] = Packed(tr[j].units[k], p, place)
      <4>1. t.dir = "send" => y.buf[t.buf] = x.buf[t.buf]
        BY DEF Moves
      <4> HIDE DEF tr, mv, my, m
      <4> QED
        BY <2>1, <2>3, <4>1 DEF tr
    <3>4. ASSUME tr[j].dir = "receive", NEW k \in 1..my[j]
          PROVE  /\ k \in DOMAIN y.buf[tr[j].buf]
                 /\ y.buf[tr[j].buf][k] = Packed(tr[j].units[k], tr[j].peer, place)
      <4>1. /\ DOMAIN y.buf[t.buf] = DOMAIN x.buf[t.buf] \cup {m + 1}
            /\ y.buf[t.buf][m + 1] = Head(s[way][q])
            /\ \A nn \in DOMAIN x.buf[t.buf] : nn # m + 1 => y.buf[t.buf][nn] = x.buf[t.buf][nn]
        BY <2>3, <3>4 DEF Moves
      <4>2. Head(s[way][q]) = Packed(t.units[m + 1], t.peer, place)
        <5>1. Head(s[t.dir][t.peer]) = Packed(t.units[m + 1], Sender(p, t.dir, t.peer), place)
          BY <1>5 DEF NextIs
        <5>2. t.dir = "receive"
          BY <2>3, <3>4
        <5>3. Sender(p, t.dir, t.peer) = t.peer
          <6> HIDE DEF t
          <6> QED
            BY <5>2 DEF Sender
        <5> HIDE DEF t, m
        <5> QED
          BY <1>2, <5>1, <5>3
      <4>3. k \in 1..(m + 1)
        BY <1>10, <2>3
      <4>4. CASE k = m + 1
        <5> HIDE DEF mv, my, m
        <5> QED
          BY <2>3, <4>1, <4>2, <4>4
      <4>5. CASE k # m + 1
        <5>1. k \in 1..mv[j]
          <6>1. k \in 1..m
            <7> HIDE DEF m
            <7> QED
              BY <1>9, <4>3, <4>5
          <6> QED
            BY <2>3, <6>1
        <5>2. /\ k \in DOMAIN x.buf[tr[j].buf]
              /\ x.buf[tr[j].buf][k] = Packed(tr[j].units[k], tr[j].peer, place)
          BY <2>1, <3>4, <5>1
        <5> HIDE DEF mv, my, m, tr
        <5> QED
          BY <2>3, <4>1, <4>5, <5>2 DEF tr
      <4> QED
        BY <4>4, <4>5
    <3> QED
      BY <3>2, <3>3, <3>4
  <2> QED
    BY <2>2, <2>3
<1>13. Busy(p, y, place)
  <2>1. Its(p, x) \in Program(p) /\ x.at \in 0..Len(Its(p, x))
    BY <1>3 DEF Busy
  <2> HIDE DEF tr
  <2> QED
    BY <1>10, <1>11, <1>12, <2>1 DEF Busy
<1>14. Position(p, y, cs, n, todo)
  <2>1. Position(p, x, cs, n, todo)
    BY <1>1 DEF Stands
  <2> QED
    BY <1>2, <1>11, <2>1 DEF Position
<1>15. Stands(p, y, cs, n, todo, e, place)
  <2>1. y.call = x.call /\ y.begun = x.begun /\ y.drawn = x.drawn
    BY DEF Moves
  <2>2. Counts(p, x, cs, n)
    BY <1>1 DEF Stands
  <2>3. Counts(p, y, cs, n)
    BY <1>2, <1>11, <2>2 DEF Counts, Moves
  <2> QED
    BY <1>1, <1>13, <1>14, <2>1, <2>3 DEF Stands
<1>16. s \in [Ways2 -> [Roles -> Seq(Packet)]] /\ way \in Ways2 /\ q \in Roles /\ s[way][q] # <<>>
  <2>1. s \in [Ways2 -> [Roles -> Seq(Packet)]]
    BY <1>1 DEF Says
  <2> QED
    BY <1>2, <1>5, <2>1 DEF NextIs
<1>17. /\ rem \in [Ways2 -> [Roles -> Seq(Packet)]]
       /\ rem[way][q] = Tail(s[way][q])
       /\ \A w \in Ways2 : \A r \in Roles : w # way \/ r # q => rem[w][r] = s[w][r]
  BY <1>16, LessTyped
<1>18. ASSUME NEW w \in Ways2, NEW r \in Roles
       PROVE  rem[w][r] = Current(p, y, cs, n, place, w, r) \o Stream(p, todo, w, r, e)
  <2>1. Current(p, y, cs, n, place, w, r) = Rest(p, tr, my, w, r, place)
    BY <1>11 DEF Current
  <2>2. CASE w = way /\ r = q
    <3>1. rem[w][r] = Units(t.units, m + 1, from, place) \o Stream(p, todo, w, r, e)
      <4>1. Tail(s[t.dir][t.peer])
              = Units(t.units, m + 1, from, place) \o Stream(p, todo, t.dir, t.peer, e)
        BY <1>5 DEF NextIs
      <4> HIDE DEF t, m, from, rem
      <4> QED
        BY <1>2, <1>17, <2>2, <4>1
    <3>2. Rest(p, tr, my, w, r, place) = Units(tr[i].units, my[i], Sender(p, w, r), place)
      <4>1. Ways(tr, w, r) = {i}
        BY <1>6, <2>2
      <4> HIDE DEF tr, my
      <4> QED
        BY <4>1, RestOne
    <3>3. Sender(p, w, r) = from
      BY <1>2, <2>2
    <3> HIDE DEF my, m, from, rem
    <3> QED
      BY <1>10, <2>1, <3>1, <3>2, <3>3
  <2>3. CASE ~(w = way /\ r = q)
    <3>1. rem[w][r] = Current(p, x, cs, n, place, w, r) \o Stream(p, todo, w, r, e)
      <4>1. s[w][r] = Current(p, x, cs, n, place, w, r) \o Stream(p, todo, w, r, e)
        BY <1>1 DEF Says
      <4> HIDE DEF rem
      <4> QED
        BY <1>17, <2>3, <4>1
    <3>2. Current(p, x, cs, n, place, w, r) = Rest(p, tr, mv, w, r, place)
      BY <1>2 DEF Current
    <3>3. \A j \in Ways(tr, w, r) : mv[j] = my[j]
      <4>1. i \in 1..Len(tr) /\ tr[i].dir = way /\ tr[i].peer = q
        BY <1>2
      <4> HIDE DEF tr, mv, my
      <4> QED
        BY <1>10, <2>3, <4>1 DEF Ways
    <3>4. Rest(p, tr, mv, w, r, place) = Rest(p, tr, my, w, r, place)
      <4> HIDE DEF tr, mv, my
      <4> QED
        BY <3>3, RestSame
    <3> HIDE DEF rem, mv, my, tr
    <3> QED
      BY <2>1, <3>1, <3>2, <3>4
  <2> QED
    BY <2>2, <2>3
<1>19. Says(p, y, cs, rem, n, todo, e, place)
  <2> HIDE DEF rem
  <2> QED
    BY <1>17, <1>18 DEF Says
<1> QED
  BY <1>15, <1>19 DEF Local

-----------------------------------------------------------------------------
(* The helper's loop. *)

(* What follows the byte of an operation.                                   *)
SizeOf(c, place) ==
  IF c.op \in SizedOps THEN <<Packed([msg |-> "size", k |-> c.n], P1, place)>> ELSE <<>>

LEMMA CommandSaid ==
  ASSUME NEW c \in Call, c.op \in Commands, NEW place \in Nat
  PROVE  /\ Packed([msg |-> c.op, k |-> 0], P1, place) \in Packet
         /\ SizeOf(c, place) \in Seq(Packet)
         /\ Units(Command(c), 0, P1, place)
              = <<Packed([msg |-> c.op, k |-> 0], P1, place)>> \o SizeOf(c, place)
<1> DEFINE units == Command(c)
<1>1. /\ units \in Seq(Unit)
      /\ Len(units) = IF c.op \in SizedOps THEN 2 ELSE 1
      /\ units[1] = [msg |-> c.op, k |-> 0]
      /\ c.op \in SizedOps => units[2] = [msg |-> "size", k |-> c.n]
  BY CommandTyped
<1>2. P1 \in Roles
  BY DEF Roles
<1> HIDE DEF units
<1>3. /\ 0 + 1 \in 1..Len(units)
      /\ Units(units, 0, P1, place)
           = <<Packed(units[0 + 1], P1, place)>> \o Units(units, 0 + 1, P1, place)
  <2>1. 0 \in 0..Len(units) /\ 0 < Len(units)
    BY <1>1
  <2> QED
    BY <1>1, <1>2, <2>1, UnitsFirst
<1>4. Packed([msg |-> c.op, k |-> 0], P1, place) \in Packet
  <2>1. units[1] \in Unit
    <3>1. 1 \in 1..Len(units)
      BY <1>3
    <3> QED
      BY <1>1, <3>1
  <2>2. Packed(units[1], P1, place) \in Packet
    BY <1>2, <2>1, PackedTyped
  <2> QED
    BY <1>1, <2>2
<1>5. SizeOf(c, place) \in Seq(Packet) /\ Units(units, 1, P1, place) = SizeOf(c, place)
  <2>1. CASE c.op \in SizedOps
    <3> DEFINE u == Packed([msg |-> "size", k |-> c.n], P1, place)
    <3>1. 1 \in 0..Len(units) /\ 1 < Len(units) /\ 1 + 1 = 2 /\ Len(units) = 2 /\ 2 \in 1..Len(units)
      BY <1>1, <2>1
    <3>2. Units(units, 1, P1, place)
            = <<Packed(units[1 + 1], P1, place)>> \o Units(units, 1 + 1, P1, place)
      BY <1>1, <1>2, <3>1, UnitsFirst
    <3>3. Units(units, 2, P1, place) = <<>>
      BY <1>1, <3>1, UnitsOver
    <3>4. u \in Packet
      <4>1. units[2] \in Unit
        BY <1>1, <3>1
      <4>2. Packed(units[2], P1, place) \in Packet
        BY <1>2, <4>1, PackedTyped
      <4> QED
        BY <1>1, <2>1, <4>2
    <3>5. Units(units, 1, P1, place) = <<u>> \o <<>>
      BY <1>1, <2>1, <3>1, <3>2, <3>3
    <3>6. SizeOf(c, place) = <<u>>
      BY <2>1 DEF SizeOf
    <3> HIDE DEF u
    <3>7. <<u>> \in Seq(Packet)
      BY <3>4
    <3>8. <<u>> \o <<>> = <<u>>
      OBVIOUS
    <3> QED
      BY <3>5, <3>6, <3>7, <3>8
  <2>2. CASE c.op \notin SizedOps
    <3>1. Units(units, 1, P1, place) = <<>>
      BY <1>1, <2>2, UnitsOver
    <3>2. SizeOf(c, place) = <<>> /\ <<>> \in Seq(Packet)
      BY <2>2 DEF SizeOf
    <3> QED
      BY <3>1, <3>2
  <2> QED
    BY <2>1, <2>2
<1>6. Units(units, 0, P1, place)
        = <<Packed([msg |-> c.op, k |-> 0], P1, place)>> \o SizeOf(c, place)
  <2>1. 0 + 1 = 1
    OBVIOUS
  <2> QED
    BY <1>1, <1>3, <1>5, <2>1
<1> QED
  BY <1>4, <1>5, <1>6 DEF units

(* The loop waits for a byte: the operation of the call after the m-th.     *)
Awaits(x, cs, s, m, todo, e, place) ==
  /\ m \in Nat /\ m < Len(cs) /\ m + 1 \in 1..Len(cs) /\ x.begun <= m
  /\ x.begun = Number(cs, m)
  /\ cs[m + 1].op \in Commands /\ cs[m + 1] \in Call /\ cs[m + 1] \in Calls
  /\ todo = Body(HELPER, cs[m + 1]) \o Later(HELPER, cs, m + 1)
  /\ todo \in Program(HELPER) /\ e \in Seq(Nat) /\ Len(e) = Len(todo) /\ place \in Nat
  /\ s["receive"][P1]
       = <<Packed([msg |-> cs[m + 1].op, k |-> 0], P1, place)>>
           \o (SizeOf(cs[m + 1], place) \o Stream(HELPER, todo, "receive", P1, e))
  /\ \A way \in Ways2 : \A q \in Roles :
       way # "receive" \/ q # P1 => s[way][q] = Stream(HELPER, todo, way, q, e)

LEMMA SomeAwaits ==
  ASSUME NEW x, NEW cs, Sound(cs), NEW s, Local(HELPER, x, cs, s),
         x.pc = "command", s["receive"][P1] # <<>>
  PROVE  \E m, todo, e, place : Awaits(x, cs, s, m, todo, e, place)
<1>0. HELPER \in Roles /\ P1 \in Roles /\ "receive" \in Ways2
  BY DEF Roles, Ways2
<1>1. PICK n, todo0, e0, place0 :
        /\ Stands(HELPER, x, cs, n, todo0, e0, place0)
        /\ Says(HELPER, x, cs, s, n, todo0, e0, place0)
  BY DEF Local
<1>2. n \in 0..Len(cs) /\ todo0 = Later(HELPER, cs, n) /\ x.begun <= n /\ x.begun \in Nat
  BY <1>1 DEF Stands, Position
<1>18. x.begun = Number(cs, n)
  <2>1. x.begun + 0 = Number(cs, n)
    BY <1>1 DEF Stands, Counts
  <2> QED
    BY <1>2, <2>1
<1>3. PICK m \in n..Len(cs) : /\ Later(HELPER, cs, m) = Later(HELPER, cs, n)
                              /\ Number(cs, m) = Number(cs, n)
                              /\ m < Len(cs) => cs[m + 1].op \in Commands
  BY <1>2, LaterSkips
<1>4. Len(cs) \in Nat
  BY <1>0, WholesTyped
<1>5. m \in Nat /\ m <= Len(cs) /\ x.begun <= m
  <2> DEFINE L == Len(cs)
             o == x.begun
  <2>1. L \in Nat /\ n \in 0..L /\ m \in n..L /\ o \in Nat /\ o <= n
    BY <1>2, <1>3, <1>4
  <2> HIDE DEF L, o
  <2>2. m \in Nat /\ m <= L /\ o <= m
    BY <2>1
  <2> QED
    BY <2>2 DEF L, o
<1>6. \A way \in Ways2 : \A q \in Roles : s[way][q] = Stream(HELPER, todo0, way, q, e0)
  <2>1. ASSUME NEW way \in Ways2, NEW q \in Roles
        PROVE  s[way][q] = Stream(HELPER, todo0, way, q, e0)
    <3>1. s[way][q] = Current(HELPER, x, cs, n, place0, way, q) \o Stream(HELPER, todo0, way, q, e0)
      BY <1>1 DEF Says
    <3>2. Current(HELPER, x, cs, n, place0, way, q) = <<>>
      BY DEF Current
    <3>3. Stream(HELPER, todo0, way, q, e0) \in Seq(Packet)
      BY <1>0, <1>1, SayTyped
    <3> QED
      BY <3>1, <3>2, <3>3, EmptyLeft
  <2> QED
    BY <2>1
<1>7. m < Len(cs)
  <2> SUFFICES ASSUME m = Len(cs)
               PROVE  FALSE
    BY <1>4, <1>5
  <2>1. todo0 = <<>>
    BY <1>0, <1>2, <1>3, LaterEnd
  <2>2. s["receive"][P1] = <<>>
    BY <1>0, <1>6, <2>1, StreamNone
  <2> QED
    BY <2>2
<1> DEFINE c == cs[m + 1]
           l == Later(HELPER, cs, m + 1)
           a == Body(HELPER, c)
           b == Alone(Receive(P1, Command(c), 1))
           rest == a \o l
<1>8. /\ m + 1 \in 1..Len(cs) /\ m + 1 \in 0..Len(cs) /\ c \in Call /\ c \in Calls
      /\ Later(HELPER, cs, m) = Whole(HELPER, c) \o l
  BY <1>0, <1>5, <1>7, LaterNext
<1>9. c.op \in Commands
  BY <1>3, <1>7
<1>10. l \in Seq(BlockOf(HELPER)) /\ a \in Seq(BlockOf(HELPER))
  <2> HIDE DEF c
  <2> QED
    BY <1>0, <1>8, LaterTyped, CallTyped DEF Program
<1>11. b \in BlockOf(HELPER)
       /\ \A dir, q, place :
            Said(HELPER, b, dir, q, place)
              = IF "receive" = dir /\ P1 = q THEN Units(Command(c), 0, Sender(HELPER, dir, q), place)
                                             ELSE <<>>
  <2> DEFINE t == Receive(P1, Command(c), 1)
  <2>1. t \in TransferOf(HELPER)
    <3>1. Command(c) \in Seq(Unit)
      <4> HIDE DEF c
      <4> QED
        BY <1>8, <1>9, CommandTyped
    <3>2. P1 \in Roles \ {HELPER} /\ 1 \in {1, 2}
      BY DEF Roles, P1, HELPER
    <3> DEFINE units == Command(c)
    <3> HIDE DEF units
    <3> QED
      BY <3>1, <3>2 DEF Receive, TransferOf, units
  <2>2. t.dir = "receive" /\ t.peer = P1 /\ t.units = Command(c)
    BY DEF Receive
  <2> HIDE DEF t, c
  <2>3. /\ Block(0, <<t>>) \in BlockOf(HELPER)
        /\ \A dir, q, place :
             Said(HELPER, Block(0, <<t>>), dir, q, place)
               = IF t.dir = dir /\ t.peer = q THEN Units(t.units, 0, Sender(HELPER, dir, q), place)
                                              ELSE <<>>
    <3>1. 0 \in Nat
      OBVIOUS
    <3> QED
      BY <2>1, <3>1, AloneTyped
  <2>4. b = Block(0, <<t>>)
    BY DEF Alone, t
  <2> HIDE DEF b
  <2> QED
    BY <2>2, <2>3, <2>4
<1>12. rest \in Program(HELPER) /\ todo0 = <<b>> \o rest
  <2>1. Whole(HELPER, c) = <<b>> \o a
    BY <1>9 DEF Whole, Hears
  <2> HIDE DEF a, l, b, c
  <2>2. rest \in Seq(BlockOf(HELPER)) /\ (<<b>> \o a) \o l = <<b>> \o rest
    BY <1>10, <1>11, Regroup
  <2> QED
    BY <1>2, <1>3, <1>8, <2>1, <2>2 DEF Program
<1> DEFINE d == e0[1]
           e == Drop(e0, 1)
<1>13. /\ d \in Nat /\ e \in Seq(Nat) /\ Len(e) = Len(rest)
       /\ \A dir : \A q \in Roles :
            Stream(HELPER, todo0, dir, q, e0)
              = Said(HELPER, b, dir, q, d) \o Stream(HELPER, rest, dir, q, e)
  <2>1. e0 \in Seq(Nat) /\ Len(e0) = Len(todo0)
    BY <1>1 DEF Stands
  <2> HIDE DEF rest, b
  <2>2. rest \in Program(HELPER) /\ Len(e0) = Len(<<b>> \o rest)
    BY <1>12, <2>1
  <2>3. NextStream(HELPER, b, rest, e0)
    BY <1>0, <1>11, <2>1, <2>2, StreamNext
  <2> QED
    BY <1>12, <2>3 DEF NextStream
<1>14. \A dir : \A q \in Roles : Stream(HELPER, rest, dir, q, e) \in Seq(Packet)
  <2> HIDE DEF rest, e
  <2> QED
    BY <1>0, <1>12, <1>13, StreamTyped
<1>15. s["receive"][P1]
         = <<Packed([msg |-> c.op, k |-> 0], P1, d)>>
             \o (SizeOf(c, d) \o Stream(HELPER, rest, "receive", P1, e))
  <2> DEFINE u == Packed([msg |-> c.op, k |-> 0], P1, d)
             z == SizeOf(c, d)
             st == Stream(HELPER, rest, "receive", P1, e)
  <2>1. u \in Packet /\ z \in Seq(Packet) /\ Units(Command(c), 0, P1, d) = <<u>> \o z
    <3> HIDE DEF c, d
    <3> QED
      BY <1>8, <1>9, <1>13, CommandSaid
  <2>2. Said(HELPER, b, "receive", P1, d) = <<u>> \o z
    <3>1. Sender(HELPER, "receive", P1) = P1
      BY DEF Sender
    <3>2. Said(HELPER, b, "receive", P1, d) = Units(Command(c), 0, Sender(HELPER, "receive", P1), d)
      <4> HIDE DEF b, c, d
      <4> QED
        BY <1>11
    <3> HIDE DEF b, c, d, u, z
    <3> QED
      BY <2>1, <3>1, <3>2
  <2>3. st \in Seq(Packet)
    BY <1>0, <1>14
  <2>4. s["receive"][P1] = (<<u>> \o z) \o st
    <3>1. s["receive"][P1] = Stream(HELPER, todo0, "receive", P1, e0)
      BY <1>0, <1>6
    <3>2. Stream(HELPER, todo0, "receive", P1, e0) = Said(HELPER, b, "receive", P1, d) \o st
      BY <1>0, <1>13
    <3> HIDE DEF u, z, st, b, d
    <3> QED
      BY <2>2, <3>1, <3>2
  <2> HIDE DEF u, z, st
  <2>5. (<<u>> \o z) \o st = <<u>> \o (z \o st)
    BY <2>1, <2>3, Regroup
  <2> QED
    BY <2>4, <2>5 DEF u, z, st
<1>16. ASSUME NEW way \in Ways2, NEW q \in Roles, way # "receive" \/ q # P1
       PROVE  s[way][q] = Stream(HELPER, rest, way, q, e)
  <2>1. Said(HELPER, b, way, q, d) = <<>>
    <3> HIDE DEF b, d
    <3> QED
      BY <1>11, <1>16
  <2>2. s[way][q] = <<>> \o Stream(HELPER, rest, way, q, e)
    <3> HIDE DEF b, d, rest, e
    <3> QED
      BY <1>6, <1>13, <2>1
  <2> DEFINE st == Stream(HELPER, rest, way, q, e)
  <2>3. st \in Seq(Packet)
    BY <1>14
  <2> HIDE DEF st
  <2>4. <<>> \o st = st
    BY <2>3, EmptyLeft
  <2> QED
    BY <2>2, <2>4 DEF st
<1>17. Awaits(x, cs, s, m, rest, e, d)
  <2> HIDE DEF d, e
  <2> QED
    BY <1>3, <1>5, <1>7, <1>8, <1>9, <1>12, <1>13, <1>15, <1>16, <1>18 DEF Awaits
<1> QED
  BY <1>17

(* The helper's part of a call begins.                                      *)
LEMMA HelperRuns ==
  ASSUME NEW y, NEW cs, Sound(cs), NEW n \in 0..Len(cs), NEW todo, NEW e \in Seq(Nat),
         NEW place \in Nat, NEW c, c \in Call, c \in Calls,
         todo \in Program(HELPER), Len(e) = Len(todo),
         todo = Body(HELPER, c) \o Later(HELPER, cs, n),
         y.pc = "run", y.begun \in Nat, y.begun <= n, y.call = c, y.at = 0, y.moved = <<>>,
         y.drawn = 0, n # 0, c = cs[n], c.op \in Commands, y.begun = Number(cs, n)
  PROVE  /\ Stands(HELPER, y, cs, n, todo, e, place)
         /\ \A way, q : Current(HELPER, y, cs, n, place, way, q) = <<>>
<1>0. HELPER \in Roles
  BY RolesAre
<1>1. Its(HELPER, y) = Body(HELPER, c) /\ Its(HELPER, y) \in Program(HELPER)
  BY <1>0, TableIs
<1>2. Threads(HELPER, y) = <<>>
  BY DEF Threads
<1>3. Drop(Its(HELPER, y), 0) = Its(HELPER, y)
  BY <1>1, DropNone DEF Program
<1>4. Len(Its(HELPER, y)) \in Nat
  BY <1>1 DEF Program
<1>5. Busy(HELPER, y, place)
  BY <1>1, <1>2, <1>4 DEF Busy
<1>6. Position(HELPER, y, cs, n, todo)
  BY <1>1, <1>3 DEF Position
<1>7. Stands(HELPER, y, cs, n, todo, e, place)
  <2>1. y.begun + 0 = Number(cs, n)
    OBVIOUS
  <2>2. Counts(HELPER, y, cs, n)
    BY <2>1 DEF Counts
  <2> QED
    BY <1>5, <1>6, <2>2 DEF Stands
<1>8. \A way, q : Ways(<<>>, way, q) = {}
  BY DEF Ways
<1>9. \A way, q : Current(HELPER, y, cs, n, place, way, q) = <<>>
  BY <1>2, <1>8, RestNone DEF Current
<1> QED
  BY <1>7, <1>9

LEMMA ReadTyped ==
  ASSUME NEW p \in Roles, NEW x, NEW cs, NEW s, Local(p, x, cs, s)
  PROVE  s \in [Ways2 -> [Roles -> Seq(Packet)]] /\ "receive" \in Ways2 /\ P1 \in Roles
         /\ x.call \in Call /\ x.begun \in Nat /\ x.drawn \in Nat /\ (p = HELPER => x.drawn = 0)
<1>1. PICK n, todo, e, place :
         Stands(p, x, cs, n, todo, e, place) /\ Says(p, x, cs, s, n, todo, e, place)
  BY DEF Local
<1>2. s \in [Ways2 -> [Roles -> Seq(Packet)]]
  BY <1>1 DEF Says
<1>3. x.call \in Call /\ x.begun \in Nat
  BY <1>1 DEF Stands
<1>4. x.drawn \in Nat /\ (p = HELPER => x.drawn = 0)
  <2>1. place \in Nat /\ (p = HELPER => x.drawn = 0) /\ (p # HELPER => x.drawn = place)
    BY <1>1 DEF Stands
  <2> QED
    BY <2>1
<1>5. "receive" \in Ways2 /\ P1 \in Roles
  BY DEF Ways2, Roles
<1> QED
  BY <1>2, <1>3, <1>4, <1>5

(* ReadByte.                                                                *)
ByteRead(x, y, op) ==
  /\ y.drawn = x.drawn
  /\ op \in ScalarOps => /\ y.pc = "run" /\ y.begun = x.begun + 1 /\ y.call = ACall(op, 0)
                         /\ y.at = 0 /\ y.moved = <<>>
  /\ op \notin ScalarOps =>
       /\ y.pc = (IF op \in SizedOps THEN "size" ELSE IF op = "CORE_END" THEN "exit" ELSE "command")
       /\ y.call = IF op \in SizedOps THEN ACall(op, 0) ELSE x.call
       /\ y.begun = x.begun

LEMMA LocalReadByte ==
  ASSUME NEW x, NEW y, NEW cs, Sound(cs), NEW s, Local(HELPER, x, cs, s),
         x.pc = "command", s["receive"][P1] # <<>>,
         ByteRead(x, y, Head(s["receive"][P1]).msg)
  PROVE  /\ Head(s["receive"][P1]).msg \in Commands
         /\ Local(HELPER, y, cs, Less(s, "receive", P1))
<1>1. PICK m, todo, e, place : Awaits(x, cs, s, m, todo, e, place)
  BY SomeAwaits
<1> DEFINE c == cs[m + 1]
           op == c.op
           u == Packed([msg |-> op, k |-> 0], P1, place)
           z == SizeOf(c, place)
           st(way, q) == Stream(HELPER, todo, way, q, e)
           rem == Less(s, "receive", P1)
<1>2. /\ s \in [Ways2 -> [Roles -> Seq(Packet)]] /\ "receive" \in Ways2 /\ P1 \in Roles
      /\ HELPER \in Roles /\ x.call \in Call /\ x.begun \in Nat /\ x.drawn = 0
  BY RolesAre, ReadTyped
<1>3. /\ m \in Nat /\ m < Len(cs) /\ m + 1 \in 1..Len(cs) /\ x.begun <= m
      /\ op \in Commands /\ c \in Call /\ c \in Calls
      /\ todo = Body(HELPER, c) \o Later(HELPER, cs, m + 1)
      /\ todo \in Program(HELPER) /\ e \in Seq(Nat) /\ Len(e) = Len(todo) /\ place \in Nat
      /\ s["receive"][P1] = <<u>> \o (z \o st("receive", P1))
      /\ \A way \in Ways2 : \A q \in Roles :
           way # "receive" \/ q # P1 => s[way][q] = st(way, q)
  BY <1>1 DEF Awaits
<1>15. Number(cs, m + 1) = x.begun + 1
  <2>1. x.begun = Number(cs, m) /\ cs \in Seq(Call) /\ IsCommand(c)
    BY <1>1 DEF Awaits, Sound, IsCommand
  <2> QED
    BY <1>3, <2>1, NumberNext
<1>4. u \in Packet /\ z \in Seq(Packet)
  <2> HIDE DEF c
  <2> QED
    BY <1>3, CommandSaid
<1>5. \A way : \A q \in Roles : st(way, q) \in Seq(Packet)
  BY <1>2, <1>3, StreamTyped
<1>6. Head(s["receive"][P1]) = u /\ Tail(s["receive"][P1]) = z \o st("receive", P1)
  <2> DEFINE t == st("receive", P1)
             w == z \o t
  <2>1. t \in Seq(Packet)
    BY <1>2, <1>5
  <2>2. w \in Seq(Packet)
    <3> HIDE DEF z, t
    <3> QED
      BY <1>4, <2>1, ConcatProperties
  <2> HIDE DEF u, w
  <2>3. Head(<<u>> \o w) = u /\ Tail(<<u>> \o w) = w
    BY <1>4, <2>2, HeadTail
  <2> QED
    BY <1>3, <2>3 DEF w
<1>7. Head(s["receive"][P1]).msg = op
  BY <1>6 DEF Packed, Stamped
<1>8. /\ rem \in [Ways2 -> [Roles -> Seq(Packet)]]
      /\ rem["receive"][P1] = z \o st("receive", P1)
      /\ \A way \in Ways2 : \A q \in Roles :
           way # "receive" \/ q # P1 => rem[way][q] = st(way, q)
  <2> HIDE DEF z, st, u
  <2>1. s["receive"][P1] # <<>>
    OBVIOUS
  <2>2. /\ rem \in [Ways2 -> [Roles -> Seq(Packet)]]
        /\ rem["receive"][P1] = Tail(s["receive"][P1])
        /\ \A w \in Ways2 : \A r \in Roles :
             w # "receive" \/ r # P1 => rem[w][r] = s[w][r]
    BY <1>2, <2>1, LessTyped
  <2> QED
    BY <1>3, <1>6, <2>2
<1>9. ByteRead(x, y, op)
  BY <1>7
<1>10. \A way \in Ways2 : \A q \in Roles : <<>> \o st(way, q) = st(way, q)
  <2> HIDE DEF st
  <2> QED
    BY <1>5, EmptyLeft
<1>11. m + 1 \in 0..Len(cs) /\ m + 1 \in Nat /\ m + 1 # 0 /\ x.begun <= m + 1 /\ x.begun < m + 1
       /\ x.begun + 1 <= m + 1 /\ x.begun + 1 \in Nat
  <2> DEFINE L == Len(cs)
             o == x.begun
  <2>1. o \in Nat /\ o <= m /\ m \in Nat /\ m + 1 \in 1..L
    BY <1>2, <1>3
  <2> HIDE DEF L, o
  <2>2. m + 1 \in 0..L /\ m + 1 \in Nat /\ m + 1 # 0 /\ o <= m + 1 /\ o < m + 1
        /\ o + 1 <= m + 1 /\ o + 1 \in Nat
    BY <2>1
  <2> QED
    BY <2>2 DEF L, o
<1>12. CASE op \in ScalarOps
  <2>1. /\ y.pc = "run" /\ y.begun = x.begun + 1 /\ y.call = ACall(op, 0)
        /\ y.at = 0 /\ y.moved = <<>> /\ y.drawn = 0
    BY <1>2, <1>9, <1>12 DEF ByteRead
  <2>2. y.call = c /\ op \notin SizedOps
    <3> HIDE DEF c
    <3>1. c.op \notin SizedOps \cup {"REC"}
      BY <1>12 DEF ScalarOps, SizedOps
    <3>2. c \in [op : ScalarOps \cup {"CORE_END"}, n : {0}]
      BY <1>3, <3>1 DEF Call
    <3>3. c = ACall(c.op, 0)
      BY <3>2 DEF ACall
    <3> QED
      BY <2>1, <3>1, <3>3
  <2>3. /\ Stands(HELPER, y, cs, m + 1, todo, e, place)
        /\ \A way, q : Current(HELPER, y, cs, m + 1, place, way, q) = <<>>
    <3> DEFINE n == m + 1
    <3>1. n \in 0..Len(cs) /\ y.begun <= n /\ y.begun \in Nat /\ todo = Body(HELPER, c) \o Later(HELPER, cs, n)
          /\ n # 0 /\ c = cs[n] /\ c.op \in Commands /\ y.begun = Number(cs, n)
      BY <1>3, <1>11, <1>15, <2>1
    <3> HIDE DEF n, c
    <3>2. /\ Stands(HELPER, y, cs, n, todo, e, place)
          /\ \A way, q : Current(HELPER, y, cs, n, place, way, q) = <<>>
      BY <1>3, <2>1, <2>2, <3>1, HelperRuns
    <3> QED
      BY <3>2 DEF n
  <2>4. z = <<>>
    BY <2>2 DEF SizeOf
  <2>5. Says(HELPER, y, cs, rem, m + 1, todo, e, place)
    <3>1. ASSUME NEW way \in Ways2, NEW q \in Roles
          PROVE  rem[way][q] = <<>> \o Stream(HELPER, todo, way, q, e)
      <4> HIDE DEF rem, z
      <4> QED
        BY <1>8, <1>10, <2>4
    <3> HIDE DEF rem
    <3> QED
      BY <1>8, <2>3, <3>1 DEF Says
  <2> QED
    BY <1>3, <1>7, <2>3, <2>5 DEF Local
<1>13. CASE op \in SizedOps
  <2>0. op \notin ScalarOps
    BY <1>13 DEF ScalarOps, SizedOps
  <2>1. y.pc = "size" /\ y.call = ACall(op, 0) /\ y.begun = x.begun /\ y.drawn = 0
    BY <1>2, <1>9, <1>13, <2>0 DEF ByteRead
  <2>2. y.call \in Call
    <3> HIDE DEF op
    <3>1. 0 \in Nat
      OBVIOUS
    <3> QED
      BY <1>13, <2>1, <3>1 DEF Call, ACall
  <2>3. Position(HELPER, y, cs, m + 1, todo)
    BY <1>3, <1>11, <1>13, <2>1 DEF Position
  <2>4. Stands(HELPER, y, cs, m + 1, todo, e, place)
    <3> DEFINE n == m + 1
    <3>1. n \in 0..Len(cs) /\ y.begun \in Nat /\ y.begun <= n /\ Position(HELPER, y, cs, n, todo)
      BY <1>2, <1>11, <2>1, <2>3
    <3>2. y.pc # "run"
      BY <2>1
    <3>3. Counts(HELPER, y, cs, n)
      BY <1>3, <1>15, <2>1 DEF Counts
    <3> HIDE DEF n, c
    <3> QED
      BY <1>3, <2>1, <2>2, <3>1, <3>2, <3>3 DEF Stands, n
  <2>5. \A way, q : Current(HELPER, y, cs, m + 1, place, way, q)
                      = IF way = "receive" /\ q = P1 THEN z ELSE <<>>
    BY <1>13, <2>1 DEF Current, SizeOf
  <2>6. Says(HELPER, y, cs, rem, m + 1, todo, e, place)
    <3>1. ASSUME NEW way \in Ways2, NEW q \in Roles
          PROVE  rem[way][q]
                   = (IF way = "receive" /\ q = P1 THEN z ELSE <<>>) \o Stream(HELPER, todo, way, q, e)
      <4> HIDE DEF rem, z
      <4> QED
        BY <1>8, <1>10
    <3> HIDE DEF rem, z
    <3> QED
      BY <1>8, <2>5, <3>1 DEF Says
  <2> QED
    BY <1>3, <1>7, <2>4, <2>6 DEF Local
<1>14. CASE op = "CORE_END"
  <2>0. op \notin ScalarOps /\ op \notin SizedOps
    BY <1>14 DEF ScalarOps, SizedOps
  <2>1. y.pc = "exit" /\ y.call = x.call /\ y.begun = x.begun /\ y.drawn = 0
    BY <1>2, <1>9, <1>14, <2>0 DEF ByteRead
  <2>2. m + 1 = Len(cs)
    BY <1>3, <1>14 DEF Sound
  <2>3. todo = <<>>
    <3>1. Later(HELPER, cs, m + 1) = <<>>
      BY <1>2, <2>2, LaterEnd
    <3>2. Body(HELPER, c) = <<>>
      <4> HIDE DEF c
      <4> QED
        BY <1>14 DEF Body
    <3>3. <<>> \o <<>> = <<>>
      OBVIOUS
    <3> HIDE DEF c
    <3> QED
      BY <1>3, <3>1, <3>2, <3>3
  <2>4. Position(HELPER, y, cs, m + 1, todo)
    BY <2>1, <2>3 DEF Position
  <2>5. Stands(HELPER, y, cs, m + 1, todo, e, place)
    <3> DEFINE n == m + 1
    <3>1. n \in 0..Len(cs) /\ y.begun \in Nat /\ y.begun <= n /\ Position(HELPER, y, cs, n, todo)
          /\ y.call \in Call
      BY <1>2, <1>11, <2>1, <2>4
    <3>2. y.pc # "run"
      BY <2>1
    <3>3. Counts(HELPER, y, cs, n)
      BY <1>3, <1>15, <2>1, <2>2 DEF Counts
    <3> HIDE DEF n, c
    <3> QED
      BY <1>3, <2>1, <3>1, <3>2, <3>3 DEF Stands, n
  <2>6. \A way, q : Current(HELPER, y, cs, m + 1, place, way, q) = <<>>
    BY <2>1 DEF Current
  <2>7. z = <<>>
    BY <2>0 DEF SizeOf
  <2>8. Says(HELPER, y, cs, rem, m + 1, todo, e, place)
    <3>1. ASSUME NEW way \in Ways2, NEW q \in Roles
          PROVE  rem[way][q] = <<>> \o Stream(HELPER, todo, way, q, e)
      <4> HIDE DEF rem, z
      <4> QED
        BY <1>8, <1>10, <2>7
    <3> HIDE DEF rem
    <3> QED
      BY <1>8, <2>6, <3>1 DEF Says
  <2> QED
    BY <1>3, <1>7, <2>5, <2>8 DEF Local
<1> QED
  BY <1>3, <1>12, <1>13, <1>14 DEF Commands

(* ReadInt.                                                                 *)
LEMMA LocalReadInt ==
  ASSUME NEW x, NEW y, NEW cs, Sound(cs), NEW s, Local(HELPER, x, cs, s), x.pc = "size",
         y.pc = "run", y.begun = x.begun + 1, y.at = 0, y.moved = <<>>, y.drawn = x.drawn,
         y.call = ACall(x.call.op, Head(s["receive"][P1]).k)
  PROVE  /\ s["receive"][P1] # <<>>
         /\ Head(s["receive"][P1]).msg = "size"
         /\ Local(HELPER, y, cs, Less(s, "receive", P1))
<1>1. PICK n, todo, e, place :
        /\ Stands(HELPER, x, cs, n, todo, e, place)
        /\ Says(HELPER, x, cs, s, n, todo, e, place)
  BY DEF Local
<1> DEFINE c == cs[n]
           unit == [msg |-> "size", k |-> c.n]
           u == Packed(unit, P1, place)
           st(way, q) == Stream(HELPER, todo, way, q, e)
           rem == Less(s, "receive", P1)
<1>2. /\ s \in [Ways2 -> [Roles -> Seq(Packet)]] /\ "receive" \in Ways2 /\ P1 \in Roles
      /\ HELPER \in Roles /\ x.begun \in Nat /\ x.drawn = 0
  BY RolesAre, ReadTyped
<1>3. /\ n \in 0..Len(cs) /\ todo \in Program(HELPER) /\ e \in Seq(Nat) /\ Len(e) = Len(todo)
      /\ place \in Nat /\ n # 0 /\ x.begun < n /\ c.op \in SizedOps
      /\ x.call = ACall(c.op, 0) /\ todo = Body(HELPER, c) \o Later(HELPER, cs, n)
  BY <1>1 DEF Stands, Position
<1>4. n \in 1..Len(cs) /\ x.begun + 1 <= n /\ x.begun + 1 \in Nat /\ Len(cs) \in Nat
  <2> DEFINE L == Len(cs)
             o == x.begun
  <2>1. L \in Nat /\ n \in 0..L /\ n # 0 /\ o \in Nat /\ o < n
    BY <1>2, <1>3, WholesTyped
  <2> HIDE DEF L, o
  <2>2. n \in 1..L /\ o + 1 <= n /\ o + 1 \in Nat
    BY <2>1
  <2> QED
    BY <2>1, <2>2 DEF L, o
<1>5. c \in Call /\ c \in Calls
  BY <1>2, <1>4, WholesTyped DEF Sound
<1>6. c = ACall(c.op, c.n) /\ c.n \in Nat
  <2> HIDE DEF c
  <2>1. c.op \notin ScalarOps \cup {"CORE_END"}
    BY <1>3 DEF ScalarOps, SizedOps
  <2>2. c \in [op : SizedOps \cup {"REC"}, n : Nat]
    BY <1>5, <2>1 DEF Call
  <2> QED
    BY <2>2 DEF ACall
<1>7. u \in Packet
  <2>1. unit \in Unit
    <3> HIDE DEF c
    <3>1. "size" \in Messages
      BY DEF Messages
    <3> QED
      BY <1>6, <3>1 DEF Unit
  <2> HIDE DEF unit
  <2> QED
    BY <1>2, <1>3, <2>1, PackedTyped
<1>8. \A way : \A q \in Roles : st(way, q) \in Seq(Packet)
  BY <1>2, <1>3, StreamTyped
<1>9. \A way \in Ways2 : \A q \in Roles : <<>> \o st(way, q) = st(way, q)
  <2> HIDE DEF st
  <2> QED
    BY <1>8, EmptyLeft
<1>10. \A way \in Ways2 : \A q \in Roles :
         s[way][q] = (IF way = "receive" /\ q = P1 THEN <<u>> ELSE <<>>) \o st(way, q)
  BY <1>1 DEF Says, Current
<1>11. s["receive"][P1] = <<u>> \o st("receive", P1)
  BY <1>2, <1>10
<1>12. /\ s["receive"][P1] # <<>> /\ Head(s["receive"][P1]) = u
       /\ Tail(s["receive"][P1]) = st("receive", P1)
  <2> DEFINE w == st("receive", P1)
  <2>1. w \in Seq(Packet)
    BY <1>2, <1>8
  <2> HIDE DEF u, w
  <2>2. <<u>> \o w # <<>> /\ Head(<<u>> \o w) = u /\ Tail(<<u>> \o w) = w
    BY <1>7, <2>1, HeadTail
  <2> QED
    BY <1>11, <2>2 DEF w
<1>13. Head(s["receive"][P1]).msg = "size" /\ Head(s["receive"][P1]).k = c.n
  BY <1>12 DEF Packed, Stamped
<1>14. y.call = c
  <2>1. x.call.op = c.op
    BY <1>3 DEF ACall
  <2> HIDE DEF c
  <2> QED
    BY <1>6, <1>13, <2>1
<1>15. /\ Stands(HELPER, y, cs, n, todo, e, place)
       /\ \A way, q : Current(HELPER, y, cs, n, place, way, q) = <<>>
  <2>1. c.op \in Commands /\ c = cs[n]
    BY <1>3 DEF Commands
  <2>2. x.begun + 1 = Number(cs, n)
    BY <1>1 DEF Stands, Counts
  <2> HIDE DEF c
  <2> QED
    BY <1>2, <1>3, <1>4, <1>5, <1>14, <2>1, <2>2, HelperRuns
<1>16. /\ rem \in [Ways2 -> [Roles -> Seq(Packet)]]
       /\ rem["receive"][P1] = st("receive", P1)
       /\ \A way \in Ways2 : \A q \in Roles :
            way # "receive" \/ q # P1 => rem[way][q] = s[way][q]
  <2> HIDE DEF st, u
  <2> QED
    BY <1>2, <1>12, LessTyped
<1>17. Says(HELPER, y, cs, rem, n, todo, e, place)
  <2>1. ASSUME NEW way \in Ways2, NEW q \in Roles
        PROVE  rem[way][q] = <<>> \o Stream(HELPER, todo, way, q, e)
    <3> HIDE DEF rem, u
    <3> QED
      BY <1>9, <1>10, <1>16
  <2> HIDE DEF rem
  <2> QED
    BY <1>15, <1>16, <2>1 DEF Says
<1> QED
  BY <1>12, <1>13, <1>15, <1>17 DEF Local

-----------------------------------------------------------------------------
(* All parties. *)

LEMMA HeadFirst ==
  ASSUME NEW S, NEW s \in Seq(S), s # <<>>
  PROVE  Head(s) \in S /\ Tail(s) \in Seq(S) /\ s = <<Head(s)>> \o Tail(s)
<1> DEFINE h == Head(s)
           t == Tail(s)
           u == <<h>> \o t
<1>1. h \in S /\ t \in Seq(S) /\ Len(s) = 1 + Len(t) /\ s[1] = h
      /\ \A i \in 1..Len(t) : t[i] = s[i + 1]
  OBVIOUS
<1>2. <<h>> \in Seq(S) /\ Len(<<h>>) = 1 /\ <<h>>[1] = h
  <2> HIDE DEF h
  <2> QED
    BY <1>1
<1>3. /\ u \in Seq(S) /\ Len(u) = 1 + Len(t)
      /\ \A i \in 1..(1 + Len(t)) : u[i] = IF i <= 1 THEN <<h>>[i] ELSE t[i - 1]
  <2> DEFINE k == <<h>>
  <2>1. k \in Seq(S) /\ Len(k) = 1
    BY <1>2
  <2>2. u = k \o t
    OBVIOUS
  <2> HIDE DEF h, t, k, u
  <2>3. /\ u \in Seq(S) /\ Len(u) = Len(k) + Len(t)
        /\ \A i \in 1..(Len(k) + Len(t)) : u[i] = IF i <= Len(k) THEN k[i] ELSE t[i - Len(k)]
    BY <1>1, <2>1, <2>2, ConcatProperties
  <2> QED
    BY <2>1, <2>3 DEF k
<1>4. ASSUME NEW i \in 1..Len(s)
      PROVE  s[i] = u[i]
  <2> HIDE DEF h, t, u
  <2>1. Len(t) \in Nat
    BY <1>1
  <2>2. CASE i = 1
    <3>1. 1 \in 1..(1 + Len(t)) /\ 1 <= 1
      BY <2>1
    <3> QED
      BY <1>1, <1>2, <1>3, <2>2, <3>1
  <2>3. CASE i # 1
    <3>1. i \in 1..(1 + Len(t)) /\ ~(i <= 1) /\ i - 1 \in 1..Len(t) /\ (i - 1) + 1 = i
      BY <1>1, <2>1, <2>3
    <3>2. u[i] = t[i - 1] /\ t[i - 1] = s[(i - 1) + 1]
      BY <1>1, <1>3, <3>1
    <3> QED
      BY <3>1, <3>2
  <2> QED
    BY <2>2, <2>3
<1>5. s = u
  <2> HIDE DEF h, t, u
  <2>1. Len(s) = Len(u) /\ u \in Seq(S)
    BY <1>1, <1>3
  <2> QED
    BY <1>4, <2>1, SeqEqual
<1> QED
  BY <1>1, <1>5

LEMMA SendOne ==
  ASSUME NEW S, NEW c \in Seq(S), NEW s \in Seq(S), s # <<>>
  PROVE  /\ Append(c, Head(s)) \in Seq(S) /\ Len(Append(c, Head(s))) = Len(c) + 1
         /\ Append(c, Head(s)) \o Tail(s) = c \o s
<1> DEFINE h == Head(s)
           t == Tail(s)
           k == <<h>>
<1>1. h \in S /\ t \in Seq(S) /\ s = k \o t
  BY HeadFirst
<1>2. k \in Seq(S)
  <2> HIDE DEF h
  <2> QED
    BY <1>1
<1>3. Append(c, h) \in Seq(S) /\ Len(Append(c, h)) = Len(c) + 1 /\ Append(c, h) = c \o k
  <2> HIDE DEF h
  <2> QED
    BY <1>1
<1> HIDE DEF h, t, k
<1>4. (c \o k) \o t = c \o (k \o t)
  BY <1>1, <1>2, ConcatAssociative
<1> QED
  BY <1>1, <1>3, <1>4 DEF h, t

LEMMA TakeOne ==
  ASSUME NEW S, NEW c \in Seq(S), NEW s \in Seq(S), c # <<>>
  PROVE  /\ Tail(c) \in Seq(S) /\ Len(Tail(c)) <= Len(c)
         /\ c \o s # <<>> /\ Head(c \o s) = Head(c) /\ Tail(c \o s) = Tail(c) \o s
<1> DEFINE h == Head(c)
           t == Tail(c)
           w == t \o s
<1>1. h \in S /\ t \in Seq(S) /\ c = <<h>> \o t
  BY HeadFirst
<1>2. w \in Seq(S) /\ (<<h>> \o t) \o s = <<h>> \o w
  <2> HIDE DEF h, t
  <2> QED
    BY <1>1, Regroup
<1>3. <<h>> \o w # <<>> /\ Head(<<h>> \o w) = h /\ Tail(<<h>> \o w) = w
  <2> HIDE DEF h, w
  <2> QED
    BY <1>1, <1>2, HeadTail
<1>4. Len(t) <= Len(c)
  OBVIOUS
<1>5. c \o s = <<h>> \o w
  <2> HIDE DEF h, t, w
  <2> QED
    BY <1>1, <1>2
<1> HIDE DEF h, t, w
<1>6. c \o s # <<>> /\ Head(c \o s) = h /\ Tail(c \o s) = w
  BY <1>3, <1>5
<1> QED
  BY <1>1, <1>4, <1>6 DEF h, t, w

(* What is on its way from p to q, and then what p still says to q, is what *)
(* q still hears from p.                                                    *)
Linked(h, cs, c, s) ==
  /\ \A p \in Roles : Local(p, h[p], cs, s[p])
  /\ \A p, q \in Roles : c[p][q] \o s[p]["send"][q] = s[q]["receive"][p]

Wired(c) == c \in [Roles -> [Roles -> Seq(Packet)]]
OthersStay(h, h2, p) == \A r \in Roles : r # p => h2[r] = h[r]

LEMMA LinkedSay ==
  ASSUME NEW h, NEW cs, NEW c, NEW s, Linked(h, cs, c, s), NEW p \in Roles
  PROVE  s[p] \in [Ways2 -> [Roles -> Seq(Packet)]]
BY DEF Linked, Local, Says

LEMMA LinkedStay ==
  ASSUME NEW h, NEW h2, NEW cs, NEW c, NEW s, Linked(h, cs, c, s), NEW p \in Roles,
         OthersStay(h, h2, p), Local(p, h2[p], cs, s[p])
  PROVE  Linked(h2, cs, c, s)
BY DEF Linked, OthersStay

(* One unit leaves a party, or reaches one.                                 *)
Sends(c, c2, s, p, q) ==
  /\ c2[p][q] = Append(c[p][q], Head(s[p]["send"][q]))
  /\ \A a, b \in Roles : a # p \/ b # q => c2[a][b] = c[a][b]
Takes(c, c2, p, q) ==
  /\ c[q][p] # <<>> /\ c2[q][p] = Tail(c[q][p])
  /\ \A a, b \in Roles : a # q \/ b # p => c2[a][b] = c[a][b]

LEMMA LinkedSend ==
  ASSUME NEW h, NEW h2, NEW cs, NEW c, NEW c2, NEW s, Linked(h, cs, c, s), Wired(c),
         NEW p \in Roles, NEW q \in Roles, OthersStay(h, h2, p),
         s[p]["send"][q] # <<>>, Sends(c, c2, s, p, q),
         Local(p, h2[p], cs, Less(s[p], "send", q))
  PROVE  \E s2 : Linked(h2, cs, c2, s2)
<1> DEFINE s2 == [r \in Roles |-> IF r = p THEN Less(s[p], "send", q) ELSE s[r]]
<1>1. "send" \in Ways2 /\ "receive" \in Ways2 /\ "send" # "receive"
  BY DEF Ways2
<1>2. \A r \in Roles : s[r] \in [Ways2 -> [Roles -> Seq(Packet)]]
  BY LinkedSay
<1>3. /\ s2[p]["send"][q] = Tail(s[p]["send"][q])
      /\ \A r \in Roles : r # q => s2[p]["send"][r] = s[p]["send"][r]
      /\ \A r \in Roles : s2[p]["receive"][r] = s[p]["receive"][r]
      /\ \A r \in Roles : r # p => s2[r] = s[r]
  <2> DEFINE z == s[p]
             l == Less(z, "send", q)
  <2>1. z \in [Ways2 -> [Roles -> Seq(Packet)]] /\ z["send"][q] # <<>>
    BY <1>2
  <2>2. s2[p] = l /\ \A r \in Roles : r # p => s2[r] = s[r]
    OBVIOUS
  <2> HIDE DEF z, s2
  <2>3. /\ l["send"][q] = Tail(z["send"][q])
        /\ \A w \in Ways2 : \A r \in Roles : w # "send" \/ r # q => l[w][r] = z[w][r]
    BY <1>1, <2>1, LessTyped
  <2> HIDE DEF l
  <2> QED
    BY <1>1, <2>2, <2>3 DEF z
<1>4. \A r \in Roles : Local(r, h2[r], cs, s2[r])
  BY DEF Linked, OthersStay
<1> HIDE DEF s2
<1>5. ASSUME NEW a \in Roles, NEW b \in Roles
      PROVE  c2[a][b] \o s2[a]["send"][b] = s2[b]["receive"][a]
  <2>1. s2[b]["receive"][a] = s[b]["receive"][a]
    BY <1>3
  <2>2. c[a][b] \o s[a]["send"][b] = s[b]["receive"][a]
    BY DEF Linked
  <2>3. CASE a = p /\ b = q
    <3> DEFINE x == c[p][q]
               y == s[p]["send"][q]
    <3>1. x \in Seq(Packet) /\ y \in Seq(Packet) /\ y # <<>>
      BY <1>1, <1>2 DEF Wired
    <3>2. c2[p][q] = Append(x, Head(y)) /\ s2[p]["send"][q] = Tail(y)
      BY <1>3 DEF Sends
    <3> HIDE DEF x, y
    <3>3. Append(x, Head(y)) \o Tail(y) = x \o y
      BY <3>1, SendOne
    <3> QED
      BY <2>1, <2>2, <2>3, <3>2, <3>3 DEF x, y
  <2>4. CASE ~(a = p /\ b = q)
    <3>1. c2[a][b] = c[a][b] /\ s2[a]["send"][b] = s[a]["send"][b]
      BY <1>3, <2>4 DEF Sends
    <3> QED
      BY <2>1, <2>2, <3>1
  <2> QED
    BY <2>3, <2>4
<1> QED
  BY <1>4, <1>5 DEF Linked

(* The first unit on its way to p is the first p will hear.                 *)
First(c, s, p, q) ==
  /\ s[p]["receive"][q] # <<>>
  /\ Head(s[p]["receive"][q]) = Head(c[q][p])
  /\ Tail(s[p]["receive"][q]) = Tail(c[q][p]) \o s[q]["send"][p]

LEMMA FirstIsFirst ==
  ASSUME NEW h, NEW cs, NEW c, NEW s, Linked(h, cs, c, s), Wired(c),
         NEW p \in Roles, NEW q \in Roles, c[q][p] # <<>>
  PROVE  First(c, s, p, q)
<1> DEFINE x == c[q][p]
           y == s[q]["send"][p]
<1>1. "send" \in Ways2
  BY DEF Ways2
<1>2. x \in Seq(Packet) /\ x # <<>>
  BY DEF Wired
<1>3. s[q] \in [Ways2 -> [Roles -> Seq(Packet)]]
  BY LinkedSay
<1>4. y \in Seq(Packet)
  BY <1>1, <1>3
<1>5. x \o y = s[p]["receive"][q]
  BY DEF Linked
<1> HIDE DEF x, y
<1>6. x \o y # <<>> /\ Head(x \o y) = Head(x) /\ Tail(x \o y) = Tail(x) \o y
  BY <1>2, <1>4, TakeOne
<1> QED
  BY <1>5, <1>6 DEF x, y, First

LEMMA LinkedTake ==
  ASSUME NEW h, NEW h2, NEW cs, NEW c, NEW c2, NEW s, Linked(h, cs, c, s), Wired(c),
         NEW p \in Roles, NEW q \in Roles, OthersStay(h, h2, p), Takes(c, c2, p, q),
         Local(p, h2[p], cs, Less(s[p], "receive", q))
  PROVE  \E s2 : Linked(h2, cs, c2, s2)
<1> DEFINE s2 == [r \in Roles |-> IF r = p THEN Less(s[p], "receive", q) ELSE s[r]]
<1>1. "send" \in Ways2 /\ "receive" \in Ways2 /\ "send" # "receive"
  BY DEF Ways2
<1>2. s[p] \in [Ways2 -> [Roles -> Seq(Packet)]]
  BY LinkedSay
<1>3. /\ s[p]["receive"][q] # <<>>
      /\ Tail(s[p]["receive"][q]) = Tail(c[q][p]) \o s[q]["send"][p]
  <2>1. c[q][p] # <<>>
    BY DEF Takes
  <2>2. First(c, s, p, q)
    BY <2>1, FirstIsFirst
  <2> QED
    BY <2>2 DEF First
<1>4. /\ s2[p]["receive"][q] = Tail(s[p]["receive"][q])
      /\ \A r \in Roles : r # q => s2[p]["receive"][r] = s[p]["receive"][r]
      /\ \A r \in Roles : s2[p]["send"][r] = s[p]["send"][r]
      /\ \A r \in Roles : r # p => s2[r] = s[r]
  <2> DEFINE z == s[p]
             l == Less(z, "receive", q)
  <2>1. z \in [Ways2 -> [Roles -> Seq(Packet)]] /\ z["receive"][q] # <<>>
    BY <1>2, <1>3
  <2>2. s2[p] = l /\ \A r \in Roles : r # p => s2[r] = s[r]
    OBVIOUS
  <2> HIDE DEF z, s2
  <2>3. /\ l["receive"][q] = Tail(z["receive"][q])
        /\ \A w \in Ways2 : \A r \in Roles : w # "receive" \/ r # q => l[w][r] = z[w][r]
    BY <1>1, <2>1, LessTyped
  <2> HIDE DEF l
  <2> QED
    BY <1>1, <2>2, <2>3 DEF z
<1>5. \A r \in Roles : Local(r, h2[r], cs, s2[r])
  BY DEF Linked, OthersStay
<1> HIDE DEF s2
<1>6. ASSUME NEW a \in Roles, NEW b \in Roles
      PROVE  c2[a][b] \o s2[a]["send"][b] = s2[b]["receive"][a]
  <2>1. s2[a]["send"][b] = s[a]["send"][b]
    BY <1>4
  <2>2. c[a][b] \o s[a]["send"][b] = s[b]["receive"][a]
    BY DEF Linked
  <2>3. CASE a = q /\ b = p
    BY <1>3, <1>4, <2>1, <2>3 DEF Takes
  <2>4. CASE ~(a = q /\ b = p)
    <3>1. c2[a][b] = c[a][b] /\ s2[b]["receive"][a] = s[b]["receive"][a]
      BY <1>4, <2>4 DEF Takes
    <3> QED
      BY <2>1, <2>2, <3>1
  <2> QED
    BY <2>3, <2>4
<1> QED
  BY <1>5, <1>6 DEF Linked

(* The transfers of a party that is in a call.                              *)
InCall(p, x) ==
  LET tr == Threads(p, x)
  IN  /\ Its(p, x) \in Program(p) /\ x.at \in 0..Len(Its(p, x)) /\ Len(Its(p, x)) \in Nat
      /\ tr \in Seq(TransferOf(p)) /\ Spread(p, tr)
      /\ x.moved \in Seq(Nat) /\ Len(x.moved) = Len(tr)
      /\ \A i \in 1..Len(tr) : /\ tr[i] \in TransferOf(p) /\ Len(tr[i].units) \in Nat
                               /\ tr[i].peer \in Roles /\ tr[i].buf \in {1, 2}
                               /\ x.moved[i] \in 0..Len(tr[i].units)

LEMMA RunTyped ==
  ASSUME NEW p \in Roles, NEW x, NEW cs, NEW s, Local(p, x, cs, s), x.pc = "run"
  PROVE  InCall(p, x)
<1>1. PICK place : Busy(p, x, place)
  BY DEF Local, Stands
<1> DEFINE tr == Threads(p, x)
<1>2. tr \in Seq(TransferOf(p)) /\ Spread(p, tr)
  BY <1>1, ThreadsTyped DEF Spread
<1>3. /\ Its(p, x) \in Program(p) /\ x.at \in 0..Len(Its(p, x))
      /\ x.moved \in Seq(Nat) /\ Len(x.moved) = Len(tr)
      /\ \A i \in 1..Len(tr) : x.moved[i] \in 0..Len(tr[i].units)
  BY <1>1 DEF Busy
<1>4. Len(Its(p, x)) \in Nat
  BY <1>3 DEF Program
<1>5. ASSUME NEW i \in 1..Len(tr)
      PROVE  /\ tr[i] \in TransferOf(p) /\ Len(tr[i].units) \in Nat
             /\ tr[i].peer \in Roles /\ tr[i].buf \in {1, 2}
  <2> DEFINE t == tr[i]
  <2>1. t \in TransferOf(p)
    <3> HIDE DEF tr
    <3> QED
      BY <1>2
  <2> HIDE DEF t
  <2>2. Len(t.units) \in Nat /\ t.peer \in Roles /\ t.buf \in {1, 2}
    BY <2>1 DEF TransferOf
  <2> QED
    BY <2>1, <2>2 DEF t
<1> HIDE DEF tr
<1>6. InCall(p, x)
  BY <1>2, <1>3, <1>4, <1>5 DEF InCall, tr
<1> QED
  BY <1>6

(* What a transfer sends next is what is next said; what it receives next   *)
(* is the field it expects.                                                 *)
Awaited(x, s, t, k) ==
  /\ s[t.dir][t.peer] # <<>>
  /\ t.dir = "send" => Head(s["send"][t.peer]) = x.buf[t.buf][k]
  /\ t.dir = "receive" =>
       LET u == Head(s["receive"][t.peer])
       IN  u.from = t.peer /\ [msg |-> u.msg, k |-> u.k] = t.units[k]

LEMMA HeadIs ==
  ASSUME NEW p \in Roles, NEW x, NEW cs, Sound(cs), NEW s, Local(p, x, cs, s), x.pc = "run",
         NEW i \in 1..Len(Threads(p, x)), x.moved[i] < Len(Threads(p, x)[i].units)
  PROVE  Awaited(x, s, Threads(p, x)[i], x.moved[i] + 1)
<1>1. PICK n, todo, e, place :
        Stands(p, x, cs, n, todo, e, place) /\ Says(p, x, cs, s, n, todo, e, place)
  BY DEF Local
<1> DEFINE t == Threads(p, x)[i]
           k == x.moved[i] + 1
<1>2. NextIs(p, x, s, t, k, todo, e, place)
  BY <1>1, NextUnit
<1>3. /\ s[t.dir][t.peer] # <<>> /\ k \in 1..Len(t.units) /\ t.units[k] \in Unit
      /\ Head(s[t.dir][t.peer]) = Packed(t.units[k], Sender(p, t.dir, t.peer), place)
  BY <1>2 DEF NextIs
<1>4. t.dir = "send" => x.buf[t.buf][k] = Packed(t.units[k], p, place)
  <2>1. t.dir = "send" =>
          \A kk \in 1..Len(t.units) : x.buf[t.buf][kk] = Packed(t.units[kk], p, place)
    BY <1>1 DEF Stands, Busy
  <2> HIDE DEF t, k
  <2> QED
    BY <1>3, <2>1
<1> HIDE DEF t, k
<1>5. t.dir = "send" => Sender(p, t.dir, t.peer) = p
  BY DEF Sender
<1>6. t.dir = "receive" => Sender(p, t.dir, t.peer) = t.peer
  BY DEF Sender
<1>7. CASE t.dir = "send"
  <2>1. t.dir # "receive"
    BY <1>7
  <2> QED
    BY <1>3, <1>4, <1>5, <1>7, <2>1 DEF Awaited, t, k
<1>8. CASE t.dir # "send"
  <2>1. ASSUME t.dir = "receive"
        PROVE  LET u == Head(s["receive"][t.peer])
               IN  u.from = t.peer /\ [msg |-> u.msg, k |-> u.k] = t.units[k]
    <3> DEFINE u == Head(s["receive"][t.peer])
               v == t.units[k]
               from == t.peer
    <3>1. u = Packed(v, from, place) /\ v \in Unit
      BY <1>3, <1>6, <2>1
    <3> HIDE DEF u, v, from
    <3>2. u.from = from /\ u.msg = v.msg /\ u.k = v.k
      BY <3>1 DEF Packed, Stamped
    <3>3. v = [msg |-> v.msg, k |-> v.k]
      BY <3>1 DEF Unit
    <3> QED
      BY <3>2, <3>3 DEF u, v, from
  <2> QED
    BY <1>3, <1>8, <2>1 DEF Awaited, t, k
<1> QED
  BY <1>7, <1>8

-----------------------------------------------------------------------------
(* The invariant. *)

Now == [p \in Roles |-> Here(p)]

(* Every party has its part of each variable.                               *)
OfRoles(f) == f = [r \in Roles |-> f[r]]
Shape ==
  /\ DOMAIN pc = Roles /\ DOMAIN begun = Roles /\ DOMAIN call = Roles /\ DOMAIN at = Roles
  /\ DOMAIN moved = Roles /\ DOMAIN buf = Roles /\ DOMAIN drawn = Roles
  /\ OfRoles(pc) /\ OfRoles(begun) /\ OfRoles(drawn)
  /\ \A p \in Roles : DOMAIN buf[p] = {1, 2}

Setting == [capacity |-> capacity, calls |-> calls] \in Settings

Inv ==
  /\ Setting
  /\ Shape
  /\ Wired(chan)
  /\ \A p, q \in Roles : Len(chan[p][q]) <= capacity
  /\ \E s : Linked(Now, calls, chan, s)

LEMMA SettingSound ==
  ASSUME NEW x \in Settings
  PROVE  Sound(x.calls) /\ x.capacity \in Nat \ {0}
<1> DEFINE cs == x.calls
<1>1. /\ x.capacity \in Nat \ {0} /\ cs \in Seq(Call) /\ cs # <<>>
      /\ \A k \in 1..Len(cs) : (cs[k].op = "CORE_END") = (k = Len(cs))
  BY SettingsAssumption
<1>2. ASSUME NEW k \in 1..Len(cs)
      PROVE  cs[k] \in Calls
  <2> DEFINE mine == {x.calls[j] : j \in 1..Len(x.calls)}
  <2>1. mine \in {{t.calls[j] : j \in 1..Len(t.calls)} : t \in Settings}
    OBVIOUS
  <2>2. cs[k] \in mine
    OBVIOUS
  <2> HIDE DEF mine
  <2> QED
    BY <2>1, <2>2 DEF Calls
<1> HIDE DEF cs
<1>3. Len(cs) # 0
  BY <1>1
<1>4. \A k \in 1..Len(cs) : cs[k].op = "CORE_END" <=> k = Len(cs)
  BY <1>1
<1>5. Sound(cs)
  BY <1>1, <1>2, <1>3, <1>4 DEF Sound
<1> QED
  BY <1>1, <1>5 DEF cs

LEMMA NowSound ==
  ASSUME Inv
  PROVE  Sound(calls) /\ capacity \in Nat \ {0}
<1> DEFINE x == [capacity |-> capacity, calls |-> calls]
<1>1. x \in Settings /\ x.calls = calls /\ x.capacity = capacity
  BY DEF Inv, Setting
<1> HIDE DEF x
<1>2. Sound(x.calls) /\ x.capacity \in Nat \ {0}
  BY <1>1, SettingSound
<1> QED
  BY <1>1, <1>2

(* What is left to do after the same number of calls matches.               *)
LEMMA LaterMatch ==
  ASSUME NEW cs, Sound(cs), NEW k \in 0..Len(cs),
         NEW f, \A p \in Roles : f[p] = Later(p, cs, k)
  PROVE  Match(f)
<1> DEFINE n == Len(cs) - k
           g == [i \in 1..n |-> [p \in Roles |-> Whole(p, cs[k + i])]]
<1>0. P1 \in Roles
  BY DEF Roles
<1>1. n \in Nat /\ \A i \in 1..n : cs[k + i] \in Call
  <2> DEFINE L == Len(cs)
  <2>1. L \in Nat /\ \A i \in 1..L : cs[i] \in Call
    BY <1>0, WholesTyped
  <2>2. L - k \in Nat /\ \A i \in 1..(L - k) : k + i \in 1..L
    <3> HIDE DEF L
    <3>1. k \in 0..L
      BY DEF L
    <3> QED
      BY <2>1, <3>1
  <2> QED
    BY <2>1, <2>2
<1>2. ASSUME NEW i \in 1..n
      PROVE  Match(g[i])
  <2> DEFINE h == g[i]
             b == cs[k + i]
  <2>1. b \in Call /\ \A p \in Roles : h[p] = Whole(p, b)
    BY <1>1
  <2> HIDE DEF h, b
  <2>2. Match(h)
    BY <2>1, MatchWhole
  <2> QED
    BY <2>2 DEF h
<1>3. ASSUME NEW p \in Roles
      PROVE  f[p] = FlattenSeq([i \in 1..n |-> g[i][p]])
  <2> DEFINE w == Wholes(p, cs)
  <2>1. Len(w) = Len(cs)
    BY WholesTyped
  <2>2. \A i \in 1..n : k + i \in 1..Len(cs)
    BY <1>0, WholesTyped
  <2>3. \A i \in 1..n : w[k + i] = g[i][p]
    <3>1. \A i \in 1..n : w[k + i] = Whole(p, cs[k + i])
      BY <2>2 DEF Wholes
    <3> QED
      BY <3>1
  <2>4. Drop(w, k) = [i \in 1..n |-> g[i][p]]
    <3>1. Drop(w, k) = [i \in 1..(Len(w) - k) |-> w[k + i]]
      BY DEF Drop
    <3>2. Drop(w, k) = [i \in 1..n |-> w[k + i]]
      <4> HIDE DEF w
      <4> QED
        BY <2>1, <3>1
    <3> HIDE DEF w, g, n
    <3> QED
      BY <2>3, <3>2
  <2>5. f[p] = FlattenSeq(Drop(w, k))
    BY DEF Later
  <2> HIDE DEF w, g, n
  <2> QED
    BY <2>4, <2>5
<1>4. Match(f)
  <2> HIDE DEF g, n
  <2> QED
    BY <1>1, <1>2, <1>3, MatchFlatten
<1> QED
  BY <1>4

(* All programs, from the start, say what the others hear.                  *)
Starts(h, c) ==
  /\ \A p \in Roles : /\ h[p].pc = IF p = HELPER THEN "command" ELSE "call"
                      /\ h[p].begun = 0 /\ h[p].call = ACall("CORE_END", 0) /\ h[p].drawn = 0
  /\ \A p, q \in Roles : c[p][q] = <<>>

LEMMA LinkedStart ==
  ASSUME NEW cs, Sound(cs), NEW h, NEW c, Starts(h, c)
  PROVE  \E s : Linked(h, cs, c, s)
<1> DEFINE f == [p \in Roles |-> Later(p, cs, 0)]
           n == Len(cs)
<1>0. P1 \in Roles
  BY DEF Roles
<1>1. n \in Nat /\ 0 \in 0..n
  <2>1. n \in Nat
    BY <1>0, WholesTyped
  <2> HIDE DEF n
  <2> QED
    BY <2>1
<1>4. Match(f)
  <2>1. 0 \in 0..Len(cs) /\ \A p \in Roles : f[p] = Later(p, cs, 0)
    BY <1>1
  <2> HIDE DEF f
  <2> QED
    BY <2>1, LaterMatch
<1>5. PICK e, d2 : InStep(f, 0, e, d2)
  <2>1. 0 \in Nat
    OBVIOUS
  <2> HIDE DEF f
  <2> QED
    BY <1>4, <2>1 DEF Match
<1>6. \A p \in Roles : f[p] = Later(p, cs, 0) /\ f[p] \in Program(p)
  <2>1. \A p \in Roles : f[p] = Later(p, cs, 0)
    OBVIOUS
  <2> HIDE DEF f
  <2> QED
    BY <1>4, <2>1 DEF Match
<1> HIDE DEF f, n
<1>7. /\ \A p \in Roles : e[p] \in Seq(Nat) /\ Len(e[p]) = Len(f[p])
      /\ \A p \in Proxies : Places(f[p], 0, e[p], d2)
      /\ \A p, q \in Roles : Stream(p, f[p], "send", q, e[p]) = Stream(q, f[q], "receive", p, e[q])
  BY <1>5 DEF InStep
<1>8. \A p, q \in Roles : \A way : Stream(p, f[p], way, q, e[p]) \in Seq(Packet)
  BY <1>6, <1>7, StreamTyped
<1> DEFINE s == [p \in Roles |-> [way \in Ways2 |-> [q \in Roles |-> Stream(p, f[p], way, q, e[p])]]]
<1>9. ASSUME NEW p \in Roles
      PROVE  Local(p, h[p], cs, s[p])
  <2> DEFINE x == h[p]
             todo == f[p]
             ep == e[p]
  <2>1. /\ x.pc = (IF p = HELPER THEN "command" ELSE "call")
        /\ x.begun = 0 /\ x.call = ACall("CORE_END", 0) /\ x.drawn = 0
    BY DEF Starts
  <2>2. todo = Later(p, cs, 0) /\ todo \in Program(p) /\ ep \in Seq(Nat) /\ Len(ep) = Len(todo)
    BY <1>6, <1>7
  <2>3. p # HELPER => \E d : Places(todo, 0, ep, d)
    <3>1. p # HELPER => p \in Proxies
      BY RolesAre
    <3> QED
      BY <1>7, <3>1
  <2>4. ACall("CORE_END", 0) \in Call
    BY DEF ACall, Call
  <2>5. 0 \in 0..Len(cs) /\ 0 \in Nat /\ 0 <= 0
    BY <1>1 DEF n
  <2>6. s[p] = [way \in Ways2 |-> [q \in Roles |-> Stream(p, todo, way, q, ep)]]
    OBVIOUS
  <2>7. \A way \in Ways2 : \A q \in Roles : Stream(p, todo, way, q, ep) \in Seq(Packet)
    BY <1>8
  <2> HIDE DEF x, todo, ep, s
  <2>8. Position(p, x, cs, 0, todo)
    BY <2>1, <2>2 DEF Position
  <2>9. x.pc # "run" /\ x.pc # "size" /\ x.pc # "exit"
    BY <2>1
  <2>15. Counts(p, x, cs, 0)
    <3>1. cs \in Seq(Call) /\ 0 \in Nat /\ 0 < Len(cs)
      BY <1>1 DEF Sound, n
    <3>2. Number(cs, 0) = 0 /\ 0 + 0 = 0
      BY <3>1, NumberNext
    <3> QED
      BY <2>1, <2>9, <3>2 DEF Counts
  <2>10. Stands(p, x, cs, 0, todo, ep, 0)
    BY <2>1, <2>2, <2>3, <2>4, <2>5, <2>8, <2>9, <2>15 DEF Stands
  <2>11. \A way, q : Current(p, x, cs, 0, 0, way, q) = <<>>
    BY <2>9 DEF Current
  <2>12. \A way \in Ways2 : \A q \in Roles : <<>> \o Stream(p, todo, way, q, ep) = Stream(p, todo, way, q, ep)
    BY <2>7, EmptyLeft
  <2>13. Says(p, x, cs, s[p], 0, todo, ep, 0)
    <3>1. s[p] \in [Ways2 -> [Roles -> Seq(Packet)]]
      BY <2>6, <2>7
    <3>2. \A way \in Ways2 : \A q \in Roles : s[p][way][q] = Stream(p, todo, way, q, ep)
      BY <2>6
    <3> QED
      BY <2>11, <2>12, <3>1, <3>2 DEF Says
  <2>14. Local(p, x, cs, s[p])
    BY <2>10, <2>13 DEF Local
  <2> QED
    BY <2>14 DEF x
<1>10. ASSUME NEW p \in Roles, NEW q \in Roles
       PROVE  c[p][q] \o s[p]["send"][q] = s[q]["receive"][p]
  <2>1. s[p]["send"][q] = Stream(p, f[p], "send", q, e[p])
        /\ s[q]["receive"][p] = Stream(q, f[q], "receive", p, e[q])
    BY DEF Ways2
  <2> DEFINE st == Stream(p, f[p], "send", q, e[p])
  <2>2. st \in Seq(Packet)
    BY <1>8
  <2>3. st = s[q]["receive"][p] /\ st = s[p]["send"][q]
    BY <1>7, <2>1
  <2> HIDE DEF st, s
  <2>4. <<>> \o st = st
    BY <2>2, EmptyLeft
  <2> QED
    BY <2>3, <2>4 DEF Starts
<1> HIDE DEF s
<1>11. Linked(h, cs, c, s)
  BY <1>9, <1>10 DEF Linked
<1> QED
  BY <1>11

LEMMA InitInv ==
  ASSUME Init
  PROVE  Inv
<1>1. PICK x \in Settings : capacity = x.capacity /\ calls = x.calls
  BY DEF Init
<1>2. Sound(calls) /\ capacity \in Nat \ {0}
  BY <1>1, SettingSound
<1>3. Setting
  <2>1. x \in [capacity : Nat \ {0}, calls : Seq(Call)]
    BY SettingsAssumption
  <2>2. x = [capacity |-> capacity, calls |-> calls]
    BY <1>1, <2>1
  <2> QED
    BY <2>2 DEF Setting
<1>4. Shape
  BY DEF Init, Shape, OfRoles
<1>5. \A p, q \in Roles : chan[p][q] = <<>>
  BY DEF Init
<1>6. Wired(chan)
  <2>1. <<>> \in Seq(Packet)
    OBVIOUS
  <2> QED
    BY <2>1 DEF Init, Wired
<1>7. \A p, q \in Roles : Len(chan[p][q]) <= capacity
  <2>1. Len(<<>>) = 0 /\ 0 <= capacity
    BY <1>2
  <2> QED
    BY <1>5, <2>1
<1>8. Starts(Now, chan)
  BY <1>5 DEF Init, Now, Here, Starts
<1>9. \E s : Linked(Now, calls, chan, s)
  BY <1>2, <1>8, LinkedStart
<1> QED
  BY <1>3, <1>4, <1>6, <1>7, <1>9 DEF Inv

-----------------------------------------------------------------------------
(* The steps. *)

LEMMA HereIs ==
  ASSUME NEW p \in Roles
  PROVE  /\ Now[p] = Here(p)
         /\ Here(p).pc = pc[p] /\ Here(p).begun = begun[p] /\ Here(p).call = call[p]
         /\ Here(p).at = at[p] /\ Here(p).moved = moved[p] /\ Here(p).buf = buf[p]
         /\ Here(p).drawn = drawn[p]
         /\ Its(p, Here(p)) = BlocksOf(p) /\ Threads(p, Here(p)) = Transfers(p)
<1>1. Now[p] = Here(p)
  BY DEF Now
<1>2. /\ Here(p).pc = pc[p] /\ Here(p).begun = begun[p] /\ Here(p).call = call[p]
      /\ Here(p).at = at[p] /\ Here(p).moved = moved[p] /\ Here(p).buf = buf[p]
      /\ Here(p).drawn = drawn[p]
  BY DEF Here
<1>3. Its(p, Here(p)) = BlocksOf(p)
  BY <1>2 DEF Its, BlocksOf
<1>4. Threads(p, Here(p)) = Transfers(p)
  BY <1>2, <1>3 DEF Threads, Transfers
<1> QED
  BY <1>1, <1>2, <1>3, <1>4

LEMMA JoinedIs ==
  ASSUME NEW p \in Roles, NEW x, x = Here(p), InCall(p, x), Joined(p)
  PROVE  \A i \in 1..Len(Threads(p, x)) : x.moved[i] = Len(Threads(p, x)[i].units)
<1> DEFINE tr == Threads(p, x)
<1>1. tr = Transfers(p) /\ x.moved = moved[p]
  BY HereIs
<1>2. ASSUME NEW i \in 1..Len(tr)
      PROVE  x.moved[i] = Len(tr[i].units)
  <2> DEFINE a == Len(tr[i].units)
             m == x.moved[i]
  <2>1. a \in Nat /\ m \in 0..a
    BY DEF InCall
  <2>2. a - m = 0
    BY <1>1 DEF Joined, Left
  <2> HIDE DEF a, m
  <2>3. m = a
    BY <2>1, <2>2
  <2> QED
    BY <2>3 DEF a, m
<1> QED
  BY <1>2

LEMMA EncodedIs ==
  ASSUME NEW p \in Roles, NEW tr, Spread(p, tr), NEW stamp,
         NEW i \in 1..Len(tr), tr[i].dir = "send", tr[i].buf \in {1, 2}
  PROVE  \A k \in 1..Len(tr[i].units) :
           Encoded(p, tr, stamp)[tr[i].buf][k] = Stamped(tr[i].units[k], p, stamp)
<1> DEFINE b == tr[i].buf
           out == {j \in 1..Len(tr) : tr[j].dir = "send" /\ tr[j].buf = b}
           units == tr[CHOOSE j \in out : TRUE].units
<1>1. out = {i}
  <2>1. OnlyWay(tr, i)
    BY OneWay
  <2> QED
    BY <2>1 DEF OnlyWay
<1>2. Encoded(p, tr, stamp)[b]
        = IF out = {} THEN buf[p][b] ELSE [k \in 1..Len(units) |-> Stamped(units[k], p, stamp)]
  BY DEF Encoded
<1>3. (CHOOSE j \in out : TRUE) = i
  <2> HIDE DEF out
  <2> QED
    BY <1>1
<1>4. units = tr[i].units /\ out # {}
  BY <1>1, <1>3
<1>5. Encoded(p, tr, stamp)[b] = [k \in 1..Len(tr[i].units) |-> Stamped(tr[i].units[k], p, stamp)]
  <2> HIDE DEF units, out, b
  <2> QED
    BY <1>2, <1>4
<1> QED
  BY <1>5

(* A step of p alone, that moves nothing.                                   *)
LEMMA StayInv ==
  ASSUME Inv, NEW p \in Roles, UNCHANGED <<capacity, calls, chan>>, Shape',
         OthersStay(Now, Now', p),
         \A s : Local(p, Here(p), calls, s) => Local(p, Here(p)', calls, s)
  PROVE  Inv'
<1>1. PICK s : Linked(Now, calls, chan, s)
  BY DEF Inv
<1>2. Local(p, Here(p), calls, s[p])
  BY <1>1, HereIs DEF Linked
<1>3. Local(p, Here(p)', calls, s[p])
  BY <1>2
<1>4. Now'[p] = Here(p)'
  BY DEF Now
<1> DEFINE h == Now
           h2 == Now'
<1>5. Local(p, h2[p], calls, s[p]) /\ OthersStay(h, h2, p) /\ Linked(h, calls, chan, s)
  BY <1>1, <1>3, <1>4
<1> HIDE DEF h, h2
<1>6. Linked(h2, calls, chan, s)
  BY <1>5, LinkedStay
<1>7. Linked(Now', calls', chan', s)
  BY <1>6 DEF h2
<1> QED
  BY <1>7 DEF Inv, Setting, Wired

LEMMA NextBlockInv ==
  ASSUME Inv, NEW p \in Roles, NextBlock(p)
  PROVE  Inv'
<1> DEFINE x == Here(p)
           y == Here(p)'
           b == BlocksOf(p)[at[p] + 1]
           tr == b.transfers
<1>1. Sound(calls) /\ Shape
  BY NowSound DEF Inv
<1>2. UNCHANGED <<capacity, calls, chan>>
  BY DEF NextBlock
<1>3. /\ pc[p] = "run" /\ Joined(p) /\ at[p] < Len(BlocksOf(p))
      /\ UNCHANGED <<pc, begun, call>>
      /\ at' = [at EXCEPT ![p] = @ + 1]
      /\ drawn' = [drawn EXCEPT ![p] = drawn[p] + b.draws]
      /\ moved' = [moved EXCEPT ![p] = Unmoved(tr)]
      /\ buf' = [buf EXCEPT ![p] = Encoded(p, tr, drawn[p] + b.draws)]
  BY DEF NextBlock, Unmoved
<1>4. Shape'
  <2>1. \A stamp : DOMAIN Encoded(p, tr, stamp) = {1, 2}
    BY DEF Encoded
  <2> HIDE DEF tr, b
  <2> QED
    BY <1>1, <1>3, <2>1 DEF Shape, OfRoles
<1>5. OthersStay(Now, Now', p)
  <2> HIDE DEF tr, b
  <2> QED
    BY <1>1, <1>3 DEF OthersStay, Now, Here, Shape
<1>6. /\ x.pc = "run" /\ x.at < Len(Its(p, x)) /\ b = Its(p, x)[x.at + 1]
  <2> HIDE DEF x, b
  <2> QED
    BY <1>3, HereIs DEF x, b
<1>7. /\ y.pc = x.pc /\ y.begun = x.begun /\ y.call = x.call /\ y.at = x.at + 1
      /\ y.drawn = x.drawn + b.draws /\ y.moved = Unmoved(tr)
      /\ y.buf = Encoded(p, tr, y.drawn)
  <2> HIDE DEF tr, b
  <2> QED
    BY <1>1, <1>3 DEF Here, Shape
<1>8. ASSUME NEW s, Local(p, x, calls, s)
      PROVE  Local(p, y, calls, s)
  <2>1. InCall(p, x)
    <3> HIDE DEF x
    <3> QED
      BY <1>6, <1>8, RunTyped
  <2>2. b \in BlockOf(p)
    <3> DEFINE code == Its(p, x)
               o == x.at
    <3>1. code \in Seq(BlockOf(p)) /\ o \in 0..Len(code) /\ Len(code) \in Nat /\ o < Len(code)
          /\ b = code[o + 1]
      <4> HIDE DEF x, b
      <4> QED
        BY <1>6, <2>1 DEF InCall, Program
    <3> HIDE DEF code, o, b
    <3>2. o + 1 \in 1..Len(code)
      BY <3>1
    <3>3. code[o + 1] \in BlockOf(p)
      BY <3>1, <3>2
    <3> QED
      BY <3>1, <3>3
  <2>3. Spread(p, tr) /\ \A i \in 1..Len(tr) : tr[i].buf \in {1, 2}
    <3>1. /\ tr \in Seq(TransferOf(p)) /\ Len(tr) \in {0, 1, 2}
          /\ Len(tr) = 2 => ApartIn(p, tr[1], tr[2])
      <4> HIDE DEF b
      <4> QED
        BY <2>2, BlockTyped
    <3> HIDE DEF tr
    <3>2. \A i \in 1..Len(tr) : tr[i] \in TransferOf(p)
      BY <3>1
    <3> QED
      BY <3>1, <3>2 DEF Spread, TransferOf
  <2>4. ASSUME NEW i \in 1..Len(tr), tr[i].dir = "send"
        PROVE  \A k \in 1..Len(tr[i].units) :
                 y.buf[tr[i].buf][k] = Stamped(tr[i].units[k], p, y.drawn)
    <3> DEFINE d == y.drawn
    <3>1. y.buf = Encoded(p, tr, d)
      BY <1>7
    <3> HIDE DEF tr, d, y
    <3>2. \A k \in 1..Len(tr[i].units) :
            Encoded(p, tr, d)[tr[i].buf][k] = Stamped(tr[i].units[k], p, d)
      BY <2>3, <2>4, EncodedIs
    <3> QED
      BY <3>1, <3>2 DEF d
  <2>5. \A i \in 1..Len(Threads(p, x)) : x.moved[i] = Len(Threads(p, x)[i].units)
    <3>1. x = Here(p)
      OBVIOUS
    <3> HIDE DEF x
    <3> QED
      BY <1>3, <2>1, <3>1, JoinedIs
  <2> HIDE DEF x, y, b
  <2>6. \A i \in 1..Len(b.transfers) : b.transfers[i].dir = "send" =>
          \A k \in 1..Len(b.transfers[i].units) :
            y.buf[b.transfers[i].buf][k] = Stamped(b.transfers[i].units[k], p, y.drawn)
    BY <2>4
  <2>7. y.pc = "run" /\ y.moved = Unmoved(b.transfers)
    BY <1>6, <1>7
  <2> QED
    BY <1>1, <1>6, <1>7, <1>8, <2>5, <2>6, <2>7, LocalNextBlock
<1> HIDE DEF b
<1> QED
  BY <1>2, <1>4, <1>5, <1>8, StayInv

LEMMA BeginCallInv ==
  ASSUME Inv, NEW p \in Proxies, BeginCall(p)
  PROVE  Inv'
<1> DEFINE x == Here(p)
           y == Here(p)'
<1>0. p \in Roles
  BY RolesAre
<1>1. Sound(calls) /\ Shape
  BY NowSound DEF Inv
<1>2. UNCHANGED <<capacity, calls, chan>>
  BY DEF BeginCall
<1>3. /\ pc[p] = "call" /\ begun[p] < Len(calls)
      /\ pc' = [pc EXCEPT ![p] = "run"] /\ begun' = [begun EXCEPT ![p] = @ + 1]
      /\ call' = [call EXCEPT ![p] = calls[begun[p] + 1]]
      /\ at' = [at EXCEPT ![p] = 0] /\ moved' = [moved EXCEPT ![p] = <<>>]
      /\ UNCHANGED <<buf, drawn>>
  BY DEF BeginCall, Start
<1>4. Shape'
  BY <1>1, <1>3 DEF Shape, OfRoles
<1>5. OthersStay(Now, Now', p)
  BY <1>1, <1>3 DEF OthersStay, Now, Here, Shape
<1>6. x.pc = "call" /\ x.begun < Len(calls)
  BY <1>3 DEF Here
<1>7. /\ y.pc = "run" /\ y.begun = x.begun + 1 /\ y.call = calls[x.begun + 1]
      /\ y.at = 0 /\ y.moved = <<>> /\ y.drawn = x.drawn
  BY <1>0, <1>1, <1>3 DEF Here, Shape
<1>8. ASSUME NEW s, Local(p, x, calls, s)
      PROVE  Local(p, y, calls, s)
  <2> HIDE DEF x, y
  <2> QED
    BY <1>1, <1>6, <1>7, <1>8, LocalBegin
<1> QED
  BY <1>0, <1>2, <1>4, <1>5, <1>8, StayInv

LEMMA ReturnFromInv ==
  ASSUME Inv, NEW p \in Roles, ReturnFrom(p)
  PROVE  Inv'
<1> DEFINE x == Here(p)
           y == Here(p)'
<1>1. Sound(calls) /\ Shape
  BY NowSound DEF Inv
<1>2. UNCHANGED <<capacity, calls, chan>>
  BY DEF ReturnFrom
<1>3. /\ pc[p] = "run" /\ Joined(p) /\ at[p] = Len(BlocksOf(p))
      /\ pc' = [pc EXCEPT ![p] = IF p = HELPER THEN "command" ELSE "call"]
      /\ UNCHANGED <<begun, call, at, moved, buf, drawn>>
  BY DEF ReturnFrom, blockVars
<1>4. Shape'
  BY <1>1, <1>3 DEF Shape, OfRoles
<1>5. OthersStay(Now, Now', p)
  BY <1>1, <1>3 DEF OthersStay, Now, Here, Shape
<1>6. x.pc = "run" /\ x.at = Len(Its(p, x))
  <2> HIDE DEF x
  <2> QED
    BY <1>3, HereIs DEF x
<1>7. /\ y.pc = (IF p = HELPER THEN "command" ELSE "call")
      /\ y.begun = x.begun /\ y.call = x.call /\ y.drawn = x.drawn
  BY <1>1, <1>3 DEF Here, Shape
<1>8. ASSUME NEW s, Local(p, x, calls, s)
      PROVE  Local(p, y, calls, s)
  <2>1. x = Here(p)
    OBVIOUS
  <2> HIDE DEF x, y
  <2>2. InCall(p, x)
    BY <1>6, <1>8, RunTyped
  <2>3. \A i \in 1..Len(Threads(p, x)) : x.moved[i] = Len(Threads(p, x)[i].units)
    BY <1>3, <2>1, <2>2, JoinedIs
  <2> QED
    BY <1>1, <1>6, <1>7, <1>8, <2>3, LocalReturn
<1> QED
  BY <1>2, <1>4, <1>5, <1>8, StayInv

LEMMA ExitInv ==
  ASSUME Inv, NEW p \in Proxies, Exit(p)
  PROVE  Inv'
<1> DEFINE x == Here(p)
           y == Here(p)'
<1>0. p \in Roles
  BY RolesAre
<1>1. Sound(calls) /\ Shape
  BY NowSound DEF Inv
<1>2. UNCHANGED <<capacity, calls, chan>>
  BY DEF Exit
<1>3. /\ pc[p] = "call" /\ begun[p] = Len(calls)
      /\ pc' = [pc EXCEPT ![p] = "exit"]
      /\ UNCHANGED <<begun, call, at, moved, buf, drawn>>
  BY DEF Exit, blockVars
<1>4. Shape'
  BY <1>1, <1>3 DEF Shape, OfRoles
<1>5. OthersStay(Now, Now', p)
  BY <1>1, <1>3 DEF OthersStay, Now, Here, Shape
<1>6. x.pc = "call" /\ x.begun = Len(calls)
  BY <1>3 DEF Here
<1>7. y.pc = "exit" /\ y.begun = x.begun /\ y.call = x.call /\ y.drawn = x.drawn
  BY <1>0, <1>1, <1>3 DEF Here, Shape
<1>8. ASSUME NEW s, Local(p, x, calls, s)
      PROVE  Local(p, y, calls, s)
  <2> HIDE DEF x, y
  <2> QED
    BY <1>1, <1>6, <1>7, <1>8, LocalExit
<1> QED
  BY <1>0, <1>2, <1>4, <1>5, <1>8, StayInv

(* The channels after a step that moves one unit.                           *)
Longer(c, c2, p, q, u) ==
  /\ Wired(c2)
  /\ c2[p][q] = Append(c[p][q], u) /\ Len(c2[p][q]) = Len(c[p][q]) + 1
  /\ \A a, b \in Roles : a # p \/ b # q => c2[a][b] = c[a][b]

LEMMA ChanSend ==
  ASSUME NEW c, Wired(c), NEW p \in Roles, NEW q \in Roles, NEW u \in Packet,
         NEW c2, c2 = [c EXCEPT ![p][q] = Append(@, u)]
  PROVE  Longer(c, c2, p, q, u)
<1> DEFINE x == c[p][q]
           v == Append(x, u)
<1>1. x \in Seq(Packet)
  BY DEF Wired
<1>2. v \in Seq(Packet) /\ Len(v) = Len(x) + 1
  <2> HIDE DEF x
  <2> QED
    BY <1>1
<1>3. c2 = [c EXCEPT ![p][q] = v]
  OBVIOUS
<1> HIDE DEF v
<1>4. c2[p][q] = v /\ \A a, b \in Roles : a # p \/ b # q => c2[a][b] = c[a][b]
  BY <1>3 DEF Wired
<1>5. Wired(c2)
  BY <1>2, <1>3 DEF Wired
<1> QED
  BY <1>2, <1>4, <1>5 DEF v, Longer

LEMMA ChanTake ==
  ASSUME NEW c, Wired(c), NEW p \in Roles, NEW q \in Roles, c[q][p] # <<>>
  PROVE  LET c2 == [c EXCEPT ![q][p] = Tail(@)]
         IN  /\ Wired(c2) /\ Takes(c, c2, p, q) /\ Len(c2[q][p]) <= Len(c[q][p])
             /\ Head(c[q][p]) \in Packet
<1> DEFINE c2 == [c EXCEPT ![q][p] = Tail(@)]
           x == c[q][p]
           v == Tail(x)
<1>1. x \in Seq(Packet) /\ x # <<>>
  BY DEF Wired
<1>2. v \in Seq(Packet) /\ Len(v) <= Len(x) /\ Head(x) \in Packet
  <2> HIDE DEF x
  <2> QED
    BY <1>1
<1>3. c2 = [c EXCEPT ![q][p] = v]
  OBVIOUS
<1> HIDE DEF v, c2
<1>4. c2[q][p] = v /\ \A a, b \in Roles : a # q \/ b # p => c2[a][b] = c[a][b]
  BY <1>3 DEF Wired
<1>5. Wired(c2)
  BY <1>2, <1>3 DEF Wired
<1> QED
  BY <1>1, <1>2, <1>4, <1>5 DEF v, c2, Takes

(* A step that sends a unit, and one that takes one.                        *)
LEMMA SendInv ==
  ASSUME Inv, NEW p \in Roles, NEW q \in Roles, NEW u \in Packet,
         UNCHANGED <<capacity, calls>>, Shape', OthersStay(Now, Now', p),
         Len(chan[p][q]) < capacity, chan' = [chan EXCEPT ![p][q] = Append(@, u)],
         \A s : Local(p, Here(p), calls, s) =>
                  /\ s["send"][q] # <<>> /\ u = Head(s["send"][q])
                  /\ Local(p, Here(p)', calls, Less(s, "send", q))
  PROVE  Inv'
<1>1. PICK s : Linked(Now, calls, chan, s)
  BY DEF Inv
<1>2. Local(p, Here(p), calls, s[p])
  BY <1>1, HereIs DEF Linked
<1>3. /\ s[p]["send"][q] # <<>> /\ u = Head(s[p]["send"][q])
      /\ Local(p, Here(p)', calls, Less(s[p], "send", q))
  BY <1>2
<1>4. Now'[p] = Here(p)'
  BY DEF Now
<1> DEFINE h == Now
           h2 == Now'
           c2 == [chan EXCEPT ![p][q] = Append(@, u)]
<1>5. Wired(chan)
  BY DEF Inv
<1>6. /\ Wired(c2)
      /\ c2[p][q] = Append(chan[p][q], u) /\ Len(c2[p][q]) = Len(chan[p][q]) + 1
      /\ \A a, b \in Roles : a # p \/ b # q => c2[a][b] = chan[a][b]
  <2>1. c2 = [chan EXCEPT ![p][q] = Append(@, u)]
    OBVIOUS
  <2> HIDE DEF c2
  <2>2. Longer(chan, c2, p, q, u)
    BY <1>5, <2>1, ChanSend
  <2> QED
    BY <2>2 DEF Longer
<1>7. Sends(chan, c2, s, p, q)
  <2> HIDE DEF c2
  <2> QED
    BY <1>3, <1>6 DEF Sends
<1>8. Local(p, h2[p], calls, Less(s[p], "send", q)) /\ OthersStay(h, h2, p)
      /\ Linked(h, calls, chan, s)
  BY <1>1, <1>3, <1>4
<1>9. chan' = c2
  OBVIOUS
<1> HIDE DEF h, h2, c2
<1>10. \E s2 : Linked(h2, calls, c2, s2)
  BY <1>3, <1>5, <1>7, <1>8, LinkedSend
<1>11. \E s2 : Linked(Now', calls', chan', s2)
  BY <1>9, <1>10 DEF h2
<1>12. \A a, b \in Roles : Len(c2[a][b]) <= capacity
  <2>1. ASSUME NEW a \in Roles, NEW b \in Roles
        PROVE  Len(c2[a][b]) <= capacity
    <3>1. CASE a = p /\ b = q
      <4> DEFINE n == Len(chan[p][q])
      <4>1. n \in Nat
        <5> DEFINE z == chan[p][q]
        <5>1. z \in Seq(Packet)
          BY <1>5 DEF Wired
        <5> HIDE DEF z
        <5>2. Len(z) \in Nat
          BY <5>1
        <5> QED
          BY <5>2 DEF z
      <4>2. capacity \in Nat /\ n < capacity
        BY NowSound
      <4>3. Len(c2[p][q]) = n + 1
        BY <1>6
      <4> HIDE DEF n
      <4> QED
        BY <3>1, <4>1, <4>2, <4>3
    <3>2. CASE ~(a = p /\ b = q)
      BY <1>6, <3>2 DEF Inv
    <3> QED
      BY <3>1, <3>2
  <2> QED
    BY <2>1
<1>13. Wired(chan') /\ \A a, b \in Roles : Len(chan'[a][b]) <= capacity'
  BY <1>6, <1>9, <1>12
<1> QED
  BY <1>11, <1>13 DEF Inv, Setting, Wired

LEMMA TakeInv ==
  ASSUME Inv, NEW p \in Roles, NEW q \in Roles,
         UNCHANGED <<capacity, calls>>, Shape', OthersStay(Now, Now', p),
         chan[q][p] # <<>>, chan' = [chan EXCEPT ![q][p] = Tail(@)],
         \A s : /\ Local(p, Here(p), calls, s)
                /\ s["receive"][q] # <<>> /\ Head(s["receive"][q]) = Head(chan[q][p])
                => Local(p, Here(p)', calls, Less(s, "receive", q))
  PROVE  Inv'
<1>1. PICK s : Linked(Now, calls, chan, s)
  BY DEF Inv
<1>2. Local(p, Here(p), calls, s[p])
  BY <1>1, HereIs DEF Linked
<1> DEFINE h == Now
           h2 == Now'
           c2 == [chan EXCEPT ![q][p] = Tail(@)]
<1>3. Wired(chan)
  BY DEF Inv
<1>4. Linked(h, calls, chan, s)
  BY <1>1
<1>5. First(chan, s, p, q)
  <2> HIDE DEF h
  <2> QED
    BY <1>3, <1>4, FirstIsFirst
<1>6. Local(p, Here(p)', calls, Less(s[p], "receive", q))
  <2>1. s[p]["receive"][q] # <<>> /\ Head(s[p]["receive"][q]) = Head(chan[q][p])
    BY <1>5 DEF First
  <2> QED
    BY <1>2, <2>1
<1>7. Now'[p] = Here(p)'
  BY DEF Now
<1>8. Wired(c2) /\ Takes(chan, c2, p, q) /\ Len(c2[q][p]) <= Len(chan[q][p])
  BY <1>3, ChanTake
<1>9. Local(p, h2[p], calls, Less(s[p], "receive", q)) /\ OthersStay(h, h2, p)
  BY <1>6, <1>7
<1>10. chan' = c2
  OBVIOUS
<1> HIDE DEF h, h2, c2
<1>11. \E s2 : Linked(h2, calls, c2, s2)
  BY <1>3, <1>4, <1>8, <1>9, LinkedTake
<1>12. \E s2 : Linked(Now', calls', chan', s2)
  BY <1>10, <1>11 DEF h2
<1>13. \A a, b \in Roles : Len(c2[a][b]) <= capacity
  <2>1. ASSUME NEW a \in Roles, NEW b \in Roles
        PROVE  Len(c2[a][b]) <= capacity
    <3>1. CASE a = q /\ b = p
      <4> DEFINE n == Len(chan[q][p])
                 m == Len(c2[q][p])
      <4>1. n \in Nat /\ m \in Nat
        <5> DEFINE z == chan[q][p]
                   w == c2[q][p]
        <5>1. z \in Seq(Packet) /\ w \in Seq(Packet)
          BY <1>3, <1>8 DEF Wired
        <5> HIDE DEF z, w
        <5>2. Len(z) \in Nat /\ Len(w) \in Nat
          BY <5>1
        <5> QED
          BY <5>2 DEF z, w
      <4>2. capacity \in Nat /\ n <= capacity /\ m <= n
        BY <1>8, NowSound DEF Inv
      <4> HIDE DEF n
      <4>3. m <= capacity
        <5> HIDE DEF m
        <5> QED
          BY <4>1, <4>2
      <4> QED
        BY <3>1, <4>3
    <3>2. CASE ~(a = q /\ b = p)
      BY <1>8, <3>2 DEF Inv, Takes
    <3> QED
      BY <3>1, <3>2
  <2> QED
    BY <2>1
<1>14. Wired(chan') /\ \A a, b \in Roles : Len(chan'[a][b]) <= capacity'
  BY <1>8, <1>10, <1>13
<1> QED
  BY <1>12, <1>14 DEF Inv, Setting, Wired

(* The i-th transfer of p's block, and p's state, when it moves a unit.     *)
LEMMA SendUnitInv ==
  ASSUME Inv, NEW p \in Roles, NEW i, Thread(p, i), SendUnit(p, i)
  PROVE  Inv'
<1> DEFINE x == Here(p)
           y == Here(p)'
           t == Threads(p, x)[i]
           q == t.peer
           k == x.moved[i] + 1
           u == x.buf[t.buf][k]
<1>1. Sound(calls) /\ Shape
  BY NowSound DEF Inv
<1>2. UNCHANGED <<capacity, calls>>
  BY DEF SendUnit
<1>3. t = Transfers(p)[i] /\ x.moved = moved[p] /\ x.buf = buf[p]
  BY HereIs
<1>4. /\ pc[p] = "run" /\ t.dir = "send" /\ Left(p, i) > 0 /\ Len(chan[p][q]) < capacity
      /\ chan' = [chan EXCEPT ![p][q] = Append(@, u)]
      /\ moved' = [moved EXCEPT ![p][i] = k]
      /\ UNCHANGED <<pc, begun, call, at, buf, drawn>>
      /\ i \in 1..Len(moved[p])
  <2> HIDE DEF t, x
  <2> QED
    BY <1>3 DEF SendUnit, Room, Thread
<1>5. x.pc = "run"
  BY <1>4, HereIs
<1>6. PICK s0 : Local(p, x, calls, s0)
  <2>1. PICK s : Linked(Now, calls, chan, s)
    BY DEF Inv
  <2>2. Local(p, Here(p), calls, s[p])
    BY <2>1, HereIs DEF Linked
  <2> QED
    BY <2>2
<1>7. InCall(p, x)
  <2> HIDE DEF x
  <2> QED
    BY <1>5, <1>6, RunTyped
<1>8. i \in 1..Len(Threads(p, x)) /\ q \in Roles /\ t.buf \in {1, 2} /\ x.moved[i] < Len(t.units)
  <2>1. i \in 1..Len(Threads(p, x)) /\ q \in Roles /\ t.buf \in {1, 2}
        /\ Len(t.units) \in Nat /\ x.moved[i] \in 0..Len(t.units)
    <3>1. i \in 1..Len(x.moved)
      BY <1>3, <1>4
    <3> HIDE DEF x
    <3> QED
      BY <1>7, <3>1 DEF InCall
  <2>2. Len(t.units) - x.moved[i] > 0
    <3> HIDE DEF t, x
    <3> QED
      BY <1>3, <1>4 DEF Left
  <2> DEFINE a == Len(t.units)
             m == x.moved[i]
  <2>3. a \in Nat /\ m \in 0..a /\ a - m > 0
    BY <2>1, <2>2
  <2> HIDE DEF a, m
  <2>4. m < a
    BY <2>3
  <2> QED
    BY <2>1, <2>4 DEF a, m
<1>9. Shape'
  <2> HIDE DEF t, x, k, u
  <2> QED
    BY <1>1, <1>4 DEF Shape, OfRoles
<1>10. OthersStay(Now, Now', p)
  <2> HIDE DEF t, x, k, u
  <2> QED
    BY <1>1, <1>4 DEF OthersStay, Now, Here, Shape
<1>11. /\ y.pc = x.pc /\ y.begun = x.begun /\ y.call = x.call /\ y.at = x.at
       /\ y.drawn = x.drawn /\ y.buf = x.buf
       /\ y.moved = [x.moved EXCEPT ![i] = k]
  <2> HIDE DEF t, k, u
  <2> QED
    BY <1>1, <1>4 DEF Here, Shape
<1>12. ASSUME NEW s, Local(p, x, calls, s)
       PROVE  /\ s["send"][q] # <<>> /\ u = Head(s["send"][q])
              /\ Local(p, y, calls, Less(s, "send", q))
  <2>1. Awaited(x, s, t, k)
    <3> HIDE DEF x
    <3> QED
      BY <1>1, <1>5, <1>8, <1>12, HeadIs
  <2>2. s["send"][q] # <<>> /\ u = Head(s["send"][q])
    <3> HIDE DEF x, t, k
    <3> QED
      BY <1>4, <2>1 DEF Awaited
  <2>3. Moves(p, x, y, i, Head(s["send"][q]))
    <3>1. t.dir # "receive"
      BY <1>4
    <3> HIDE DEF x, y
    <3> QED
      BY <1>5, <1>8, <1>11, <3>1 DEF Moves
  <2> DEFINE way == t.dir
  <2>4. way = Threads(p, x)[i].dir /\ q = Threads(p, x)[i].peer /\ way = "send"
    BY <1>4
  <2> HIDE DEF x, y, way, q
  <2>5. Moves(p, x, y, i, Head(s[way][q]))
    BY <2>3, <2>4
  <2>6. Local(p, y, calls, Less(s, way, q))
    BY <1>1, <1>12, <2>4, <2>5, LocalMove
  <2> QED
    BY <2>2, <2>4, <2>6
<1>13. u \in Packet
  <2>1. u = Head(s0["send"][q]) /\ s0["send"][q] # <<>>
    BY <1>6, <1>12
  <2>2. s0["send"][q] \in Seq(Packet)
    <3>1. "send" \in Ways2
      BY DEF Ways2
    <3>2. s0 \in [Ways2 -> [Roles -> Seq(Packet)]]
      BY <1>6, ReadTyped
    <3> HIDE DEF q
    <3> QED
      BY <1>8, <3>1, <3>2
  <2> DEFINE z == s0["send"][q]
  <2>3. z \in Seq(Packet) /\ z # <<>> /\ u = Head(z)
    BY <2>1, <2>2
  <2> HIDE DEF z, u
  <2>4. Head(z) \in Packet
    BY <2>3
  <2> QED
    BY <2>3, <2>4
<1>14. q \in Roles /\ Len(chan[p][q]) < capacity /\ chan' = [chan EXCEPT ![p][q] = Append(@, u)]
       /\ \A s : Local(p, Here(p), calls, s) =>
                  /\ s["send"][q] # <<>> /\ u = Head(s["send"][q])
                  /\ Local(p, Here(p)', calls, Less(s, "send", q))
  BY <1>4, <1>8, <1>12
<1> HIDE DEF u, q
<1> QED
  BY <1>2, <1>9, <1>10, <1>13, <1>14, SendInv

LEMMA ReceiveUnitInv ==
  ASSUME Inv, NEW p \in Roles, NEW i, Thread(p, i), ReceiveUnit(p, i)
  PROVE  Inv'
<1> DEFINE x == Here(p)
           y == Here(p)'
           t == Threads(p, x)[i]
           q == t.peer
           k == x.moved[i] + 1
           u == Head(chan[q][p])
<1>1. Sound(calls) /\ Shape
  BY NowSound DEF Inv
<1>2. UNCHANGED <<capacity, calls>>
  BY DEF ReceiveUnit
<1>3. t = Transfers(p)[i] /\ x.moved = moved[p] /\ x.buf = buf[p]
  BY HereIs
<1>4. /\ pc[p] = "run" /\ t.dir = "receive" /\ Left(p, i) > 0 /\ chan[q][p] # <<>>
      /\ chan' = [chan EXCEPT ![q][p] = Tail(@)]
      /\ moved' = [moved EXCEPT ![p][i] = k]
      /\ buf' = [buf EXCEPT ![p][t.buf] =
                   [n \in DOMAIN @ \cup {k} |-> IF n = k THEN u ELSE @[n]]]
      /\ UNCHANGED <<pc, begun, call, at, drawn>>
      /\ i \in 1..Len(moved[p])
  <2> HIDE DEF t, x
  <2> QED
    BY <1>3 DEF ReceiveUnit, Reading, Thread
<1>5. x.pc = "run"
  BY <1>4, HereIs
<1>6. PICK s0 : Local(p, x, calls, s0)
  <2>1. PICK s : Linked(Now, calls, chan, s)
    BY DEF Inv
  <2>2. Local(p, Here(p), calls, s[p])
    BY <2>1, HereIs DEF Linked
  <2> QED
    BY <2>2
<1>7. InCall(p, x)
  <2> HIDE DEF x
  <2> QED
    BY <1>5, <1>6, RunTyped
<1>8. i \in 1..Len(Threads(p, x)) /\ q \in Roles /\ t.buf \in {1, 2} /\ x.moved[i] < Len(t.units)
  <2>1. i \in 1..Len(Threads(p, x)) /\ q \in Roles /\ t.buf \in {1, 2}
        /\ Len(t.units) \in Nat /\ x.moved[i] \in 0..Len(t.units)
    <3>1. i \in 1..Len(x.moved)
      BY <1>3, <1>4
    <3> HIDE DEF x
    <3> QED
      BY <1>7, <3>1 DEF InCall
  <2>2. Len(t.units) - x.moved[i] > 0
    <3> HIDE DEF t, x
    <3> QED
      BY <1>3, <1>4 DEF Left
  <2> DEFINE a == Len(t.units)
             m == x.moved[i]
  <2>3. a \in Nat /\ m \in 0..a /\ a - m > 0
    BY <2>1, <2>2
  <2> HIDE DEF a, m
  <2>4. m < a
    BY <2>3
  <2> QED
    BY <2>1, <2>4 DEF a, m
<1> DEFINE new == [n \in DOMAIN buf[p][t.buf] \cup {k} |-> IF n = k THEN u ELSE buf[p][t.buf][n]]
<1>9. buf' = [buf EXCEPT ![p][t.buf] = new]
  <2> HIDE DEF t, x, k, u
  <2> QED
    BY <1>4
<1>10. Shape'
  <2> HIDE DEF t, x, k, u, new
  <2> QED
    BY <1>1, <1>4, <1>9 DEF Shape, OfRoles
<1>11. OthersStay(Now, Now', p)
  <2> HIDE DEF t, x, k, u, new
  <2> QED
    BY <1>1, <1>4, <1>9 DEF OthersStay, Now, Here, Shape
<1>12. /\ y.pc = x.pc /\ y.begun = x.begun /\ y.call = x.call /\ y.at = x.at
       /\ y.drawn = x.drawn
       /\ y.moved = [x.moved EXCEPT ![i] = k]
       /\ y.buf = [x.buf EXCEPT ![t.buf] = new]
  <2> HIDE DEF t, k, u, new
  <2> QED
    BY <1>1, <1>4, <1>9 DEF Here, Shape
<1>13. /\ \A b \in {1, 2} : b # t.buf => y.buf[b] = x.buf[b]
       /\ y.buf[t.buf] = new
  <2>1. DOMAIN x.buf = {1, 2}
    BY <1>1, <1>3 DEF Shape
  <2> HIDE DEF new, x, y, t
  <2> QED
    BY <1>8, <1>12, <2>1
<1>14. /\ DOMAIN y.buf[t.buf] = DOMAIN x.buf[t.buf] \cup {k}
       /\ y.buf[t.buf][k] = u
       /\ \A n \in DOMAIN x.buf[t.buf] : n # k => y.buf[t.buf][n] = x.buf[t.buf][n]
  <2>1. new = [n \in DOMAIN x.buf[t.buf] \cup {k} |-> IF n = k THEN u ELSE x.buf[t.buf][n]]
    BY <1>3
  <2> HIDE DEF new, x, y, t, k, u
  <2> QED
    BY <1>13, <2>1
<1>15. ASSUME NEW s, Local(p, x, calls, s), s["receive"][q] # <<>>, Head(s["receive"][q]) = u
       PROVE  Local(p, y, calls, Less(s, "receive", q))
  <2> DEFINE way == t.dir
             v == Head(s[way][q])
  <2>1. way = Threads(p, x)[i].dir /\ q = Threads(p, x)[i].peer /\ way = "receive"
    BY <1>4
  <2>2. v = u
    BY <1>15, <2>1
  <2>3. Moves(p, x, y, i, v)
    <3>1. t.dir # "send"
      BY <1>4
    <3> HIDE DEF x, y, u, v
    <3> QED
      BY <1>5, <1>8, <1>12, <1>13, <1>14, <2>2, <3>1 DEF Moves
  <2> HIDE DEF x, y, way, q
  <2>4. Local(p, y, calls, Less(s, way, q))
    BY <1>1, <1>15, <2>1, <2>3, LocalMove
  <2> QED
    BY <2>1, <2>4
<1>16. q \in Roles /\ chan[q][p] # <<>> /\ chan' = [chan EXCEPT ![q][p] = Tail(@)]
       /\ \A s : /\ Local(p, Here(p), calls, s)
                 /\ s["receive"][q] # <<>> /\ Head(s["receive"][q]) = Head(chan[q][p])
                 => Local(p, Here(p)', calls, Less(s, "receive", q))
  BY <1>4, <1>8, <1>15
<1> HIDE DEF q
<1> QED
  BY <1>2, <1>10, <1>11, <1>16, TakeInv

LEMMA ReadByteInv ==
  ASSUME Inv, ReadByte
  PROVE  Inv'
<1> DEFINE x == Here(HELPER)
           y == Here(HELPER)'
           u == Head(Incoming)
           op == u.msg
<1>0. HELPER \in Roles /\ P1 \in Roles
  BY DEF Roles
<1>1. Sound(calls) /\ Shape
  BY NowSound DEF Inv
<1>2. UNCHANGED <<capacity, calls>> /\ Incoming = chan[P1][HELPER]
  BY DEF ReadByte, Incoming
<1>3. /\ pc[HELPER] = "command" /\ Incoming # <<>> /\ UNCHANGED drawn
      /\ chan' = [chan EXCEPT ![P1][HELPER] = Tail(@)]
      /\ buf' = [buf EXCEPT ![HELPER][1] =
                   [n \in DOMAIN @ \cup {1} |-> IF n = 1 THEN u ELSE @[n]]]
  BY DEF ReadByte, TakeIncoming
<1>4. op \in ScalarOps =>
        /\ pc' = [pc EXCEPT ![HELPER] = "run"] /\ begun' = [begun EXCEPT ![HELPER] = @ + 1]
        /\ call' = [call EXCEPT ![HELPER] = ACall(op, 0)]
        /\ at' = [at EXCEPT ![HELPER] = 0] /\ moved' = [moved EXCEPT ![HELPER] = <<>>]
  <2> HIDE DEF u
  <2> QED
    BY DEF ReadByte, Start, u
<1> DEFINE next == IF op \in SizedOps THEN "size" ELSE IF op = "CORE_END" THEN "exit" ELSE "command"
           kept == IF op \in SizedOps THEN ACall(op, 0) ELSE call[HELPER]
<1>5. op \notin ScalarOps =>
        /\ pc' = [pc EXCEPT ![HELPER] = next]
        /\ call' = [call EXCEPT ![HELPER] = kept]
        /\ UNCHANGED <<begun, at, moved>>
  <2>1. (CASE op \in SizedOps    -> "size"
           [] op = "CORE_END" -> "exit"
           [] OTHER           -> "command") = next
    <3>1. "CORE_END" \notin SizedOps
      BY DEF SizedOps
    <3> HIDE DEF op
    <3> QED
      BY <3>1
  <2>2. op \notin ScalarOps =>
          /\ pc' = [pc EXCEPT ![HELPER] = CASE op \in SizedOps    -> "size"
                                            [] op = "CORE_END" -> "exit"
                                            [] OTHER           -> "command"]
          /\ call' = [call EXCEPT ![HELPER] = kept]
          /\ UNCHANGED <<begun, at, moved>>
    <3> HIDE DEF u
    <3> QED
      BY DEF ReadByte, u
  <2> HIDE DEF op, next, kept
  <2> QED
    BY <2>1, <2>2
<1> HIDE DEF next, kept
<1>6. Shape'
  <2>1. CASE op \in ScalarOps
    <3> HIDE DEF u
    <3> QED
      BY <1>0, <1>1, <1>3, <1>4, <2>1 DEF Shape, OfRoles
  <2>2. CASE op \notin ScalarOps
    <3> HIDE DEF u
    <3> QED
      BY <1>0, <1>1, <1>3, <1>5, <2>2 DEF Shape, OfRoles
  <2> QED
    BY <2>1, <2>2
<1>7. OthersStay(Now, Now', HELPER)
  <2>1. CASE op \in ScalarOps
    <3> HIDE DEF u
    <3> QED
      BY <1>0, <1>1, <1>3, <1>4, <2>1 DEF OthersStay, Now, Here, Shape
  <2>2. CASE op \notin ScalarOps
    <3> HIDE DEF u
    <3> QED
      BY <1>0, <1>1, <1>3, <1>5, <2>2 DEF OthersStay, Now, Here, Shape
  <2> QED
    BY <2>1, <2>2
<1>8. x.pc = "command"
  BY <1>3 DEF Here
<1>9. ByteRead(x, y, op)
  <2>1. y.drawn = x.drawn
    BY <1>3 DEF Here
  <2>2. op \in ScalarOps => /\ y.pc = "run" /\ y.begun = x.begun + 1 /\ y.call = ACall(op, 0)
                            /\ y.at = 0 /\ y.moved = <<>>
    <3> HIDE DEF u
    <3> QED
      BY <1>0, <1>1, <1>4 DEF Here, Shape
  <2>3. op \notin ScalarOps => y.pc = next /\ y.call = kept /\ y.begun = x.begun
    <3> HIDE DEF u
    <3> QED
      BY <1>0, <1>1, <1>5 DEF Here, Shape
  <2>4. call[HELPER] = x.call
    BY DEF Here
  <2> HIDE DEF x, y, op
  <2> QED
    BY <2>1, <2>2, <2>3, <2>4 DEF ByteRead, next, kept
<1>10. ASSUME NEW s, Local(HELPER, x, calls, s), s["receive"][P1] # <<>>,
              Head(s["receive"][P1]) = u
       PROVE  Local(HELPER, y, calls, Less(s, "receive", P1))
  <2>1. ByteRead(x, y, Head(s["receive"][P1]).msg)
    <3> HIDE DEF x, y, u
    <3> QED
      BY <1>9, <1>10
  <2> HIDE DEF x, y, u
  <2> QED
    BY <1>1, <1>8, <1>10, <2>1, LocalReadByte
<1>11. chan[P1][HELPER] # <<>>
       /\ \A s : /\ Local(HELPER, Here(HELPER), calls, s)
                 /\ s["receive"][P1] # <<>> /\ Head(s["receive"][P1]) = Head(chan[P1][HELPER])
                 => Local(HELPER, Here(HELPER)', calls, Less(s, "receive", P1))
  BY <1>2, <1>3, <1>10
<1> QED
  BY <1>0, <1>2, <1>3, <1>6, <1>7, <1>11, TakeInv

LEMMA ReadIntInv ==
  ASSUME Inv, ReadInt
  PROVE  Inv'
<1> DEFINE x == Here(HELPER)
           y == Here(HELPER)'
           u == Head(Incoming)
           c == ACall(call[HELPER].op, u.k)
<1>0. HELPER \in Roles /\ P1 \in Roles
  BY DEF Roles
<1>1. Sound(calls) /\ Shape
  BY NowSound DEF Inv
<1>2. UNCHANGED <<capacity, calls>> /\ Incoming = chan[P1][HELPER]
  BY DEF ReadInt, Incoming
<1>3. /\ pc[HELPER] = "size" /\ Incoming # <<>> /\ UNCHANGED drawn
      /\ chan' = [chan EXCEPT ![P1][HELPER] = Tail(@)]
      /\ buf' = [buf EXCEPT ![HELPER][1] =
                   [n \in DOMAIN @ \cup {1} |-> IF n = 1 THEN u ELSE @[n]]]
      /\ pc' = [pc EXCEPT ![HELPER] = "run"] /\ begun' = [begun EXCEPT ![HELPER] = @ + 1]
      /\ call' = [call EXCEPT ![HELPER] = c]
      /\ at' = [at EXCEPT ![HELPER] = 0] /\ moved' = [moved EXCEPT ![HELPER] = <<>>]
  BY DEF ReadInt, TakeIncoming, Start
<1>4. Shape'
  <2> HIDE DEF u, c
  <2> QED
    BY <1>0, <1>1, <1>3 DEF Shape, OfRoles
<1>5. OthersStay(Now, Now', HELPER)
  <2> HIDE DEF u, c
  <2> QED
    BY <1>0, <1>1, <1>3 DEF OthersStay, Now, Here, Shape
<1>6. x.pc = "size" /\ x.call = call[HELPER]
  BY <1>3 DEF Here
<1>7. /\ y.pc = "run" /\ y.begun = x.begun + 1 /\ y.call = c /\ y.at = 0 /\ y.moved = <<>>
      /\ y.drawn = x.drawn
  <2> HIDE DEF u, c
  <2> QED
    BY <1>0, <1>1, <1>3 DEF Here, Shape
<1>8. ASSUME NEW s, Local(HELPER, x, calls, s), Head(s["receive"][P1]) = u
      PROVE  Local(HELPER, y, calls, Less(s, "receive", P1))
  <2>1. y.call = ACall(x.call.op, Head(s["receive"][P1]).k)
    <3> HIDE DEF x, y, u
    <3> QED
      BY <1>6, <1>7, <1>8
  <2> HIDE DEF x, y, u
  <2> QED
    BY <1>1, <1>6, <1>7, <1>8, <2>1, LocalReadInt
<1>9. chan[P1][HELPER] # <<>>
      /\ \A s : /\ Local(HELPER, Here(HELPER), calls, s)
                /\ s["receive"][P1] # <<>> /\ Head(s["receive"][P1]) = Head(chan[P1][HELPER])
                => Local(HELPER, Here(HELPER)', calls, Less(s, "receive", P1))
  BY <1>2, <1>3, <1>8
<1> QED
  BY <1>0, <1>2, <1>3, <1>4, <1>5, <1>9, TakeInv

LEMMA NextInv ==
  ASSUME Inv, [Next]_vars
  PROVE  Inv'
<1>1. CASE Next
  <2>1. CASE Done
    <3>1. UNCHANGED vars
      BY <2>1 DEF Done
    <3> QED
      BY <3>1 DEF vars, Inv, Setting, Shape, OfRoles, Wired, Now, Here
  <2>2. ASSUME NEW p \in Roles, Main(p)
        PROVE  Inv'
    BY <2>2, NextBlockInv, ReturnFromInv, BeginCallInv, ExitInv, ReadByteInv, ReadIntInv
    DEF Main
  <2>3. ASSUME NEW p \in Roles, NEW i \in {1, 2}, Thread(p, i)
        PROVE  Inv'
    <3>1. CASE SendUnit(p, i)
      BY <2>3, <3>1, SendUnitInv
    <3>2. CASE ReceiveUnit(p, i)
      BY <2>3, <3>2, ReceiveUnitInv
    <3> QED
      BY <2>3, <3>1, <3>2 DEF Thread
  <2> QED
    BY <1>1, <2>1, <2>2, <2>3 DEF Next
<1>2. CASE UNCHANGED vars
  BY <1>2 DEF vars, Inv, Setting, Shape, OfRoles, Wired, Now, Here
<1> QED
  BY <1>1, <1>2

(* In every session all that is said is what is heard.                      *)
THEOREM Invariance == Spec => []Inv
<1>1. Init => Inv
  BY InitInv
<1>2. Inv /\ [Next]_vars => Inv'
  BY NextInv
<1> QED
  BY <1>1, <1>2, PTL DEF Spec

-----------------------------------------------------------------------------
(* What the invariant says of every state. *)

LEMMA NowLocal ==
  ASSUME Inv, NEW p \in Roles
  PROVE  \E s : Local(p, Here(p), calls, s)
<1>1. PICK s : Linked(Now, calls, chan, s)
  BY DEF Inv
<1>2. Local(p, Here(p), calls, s[p])
  BY <1>1, HereIs DEF Linked
<1> QED
  BY <1>2

LEMMA LocalTyped ==
  ASSUME NEW p \in Roles, NEW x, NEW cs, Sound(cs), NEW s, Local(p, x, cs, s)
  PROVE  /\ x.pc \in {"call", "command", "size", "run", "exit"}
         /\ x.begun \in 0..Len(cs) /\ x.drawn \in Nat
         /\ x.call.op \in Commands \cup {"REC"} /\ x.call.n \in Nat
<1>1. PICK n, todo, e, place : Stands(p, x, cs, n, todo, e, place)
  BY DEF Local
<1>2. /\ n \in 0..Len(cs) /\ place \in Nat /\ x.call \in Call /\ x.begun \in Nat
      /\ p = HELPER => x.begun <= n /\ x.drawn = 0
      /\ p # HELPER => x.begun = n /\ x.drawn = place
  BY <1>1 DEF Stands
<1>3. x.pc \in {"call", "command", "size", "run", "exit"}
  <2>1. x.pc \in IF p = HELPER THEN {"command", "size", "run", "exit"} ELSE {"call", "run", "exit"}
    BY <1>1 DEF Stands, Position
  <2> QED
    BY <2>1
<1>4. x.begun \in 0..Len(cs)
  <2> DEFINE o == x.begun
             m == Len(cs)
  <2>1. m \in Nat /\ o \in Nat /\ n \in 0..m /\ o <= n
    BY <1>2, WholesTyped
  <2> HIDE DEF o, m
  <2>2. o \in 0..m
    BY <2>1
  <2> QED
    BY <2>2 DEF o, m
<1>5. x.drawn \in Nat
  BY <1>2
<1>6. x.call.op \in Commands \cup {"REC"} /\ x.call.n \in Nat
  <2> DEFINE c == x.call
  <2>1. c \in Call
    BY <1>2
  <2> HIDE DEF c
  <2>2. c.op \in Commands \cup {"REC"} /\ c.n \in Nat
    BY <2>1 DEF Call, Commands
  <2> QED
    BY <2>2 DEF c
<1> QED
  BY <1>3, <1>4, <1>5, <1>6

LEMMA TypesFollow ==
  ASSUME Inv
  PROVE  TypeOK
<1>1. Sound(calls) /\ Shape /\ Setting /\ Wired(chan)
      /\ \A p, q \in Roles : Len(chan[p][q]) <= capacity
  BY NowSound DEF Inv
<1>2. ASSUME NEW p \in Roles
      PROVE  /\ pc[p] \in {"call", "command", "size", "run", "exit"}
             /\ begun[p] \in 0..Len(calls) /\ drawn[p] \in Nat
             /\ call[p].op \in Commands \cup {"REC"} /\ call[p].n \in Nat
             /\ pc[p] = "run" =>
                  /\ at[p] \in 0..Len(BlocksOf(p))
                  /\ DOMAIN moved[p] = 1..Len(Transfers(p))
                  /\ \A i \in DOMAIN moved[p] : moved[p][i] \in 0..Len(Transfers(p)[i].units)
  <2> DEFINE x == Here(p)
  <2>1. PICK s : Local(p, x, calls, s)
    BY NowLocal
  <2>2. /\ x.pc = pc[p] /\ x.begun = begun[p] /\ x.call = call[p] /\ x.at = at[p]
        /\ x.moved = moved[p] /\ x.drawn = drawn[p]
        /\ Its(p, x) = BlocksOf(p) /\ Threads(p, x) = Transfers(p)
    BY HereIs
  <2> HIDE DEF x
  <2>3. /\ x.pc \in {"call", "command", "size", "run", "exit"}
        /\ x.begun \in 0..Len(calls) /\ x.drawn \in Nat
        /\ x.call.op \in Commands \cup {"REC"} /\ x.call.n \in Nat
    BY <1>1, <2>1, LocalTyped
  <2>4. ASSUME x.pc = "run"
        PROVE  /\ x.at \in 0..Len(Its(p, x))
               /\ DOMAIN x.moved = 1..Len(Threads(p, x))
               /\ \A i \in DOMAIN x.moved : x.moved[i] \in 0..Len(Threads(p, x)[i].units)
    <3>1. InCall(p, x)
      BY <2>1, <2>4, RunTyped
    <3> DEFINE mv == x.moved
    <3>2. x.at \in 0..Len(Its(p, x)) /\ mv \in Seq(Nat) /\ Len(mv) = Len(Threads(p, x))
          /\ \A i \in 1..Len(Threads(p, x)) : x.moved[i] \in 0..Len(Threads(p, x)[i].units)
      BY <3>1 DEF InCall
    <3> HIDE DEF mv
    <3>3. DOMAIN mv = 1..Len(Threads(p, x))
      BY <3>2
    <3> QED
      BY <3>2, <3>3 DEF mv
  <2> QED
    BY <2>2, <2>3, <2>4
<1>3. pc \in [Roles -> {"call", "command", "size", "run", "exit"}]
  <2> DEFINE S == {"call", "command", "size", "run", "exit"}
  <2>1. \A p \in Roles : pc[p] \in S
    BY <1>2
  <2>2. pc = [r \in Roles |-> pc[r]]
    BY <1>1 DEF Shape, OfRoles
  <2> HIDE DEF S
  <2>3. pc \in [Roles -> S]
    BY <2>1, <2>2
  <2> QED
    BY <2>3 DEF S
<1>4. begun \in [Roles -> 0..Len(calls)]
  <2> DEFINE S == 0..Len(calls)
  <2>1. \A p \in Roles : begun[p] \in S
    BY <1>2
  <2>2. begun = [r \in Roles |-> begun[r]]
    BY <1>1 DEF Shape, OfRoles
  <2> HIDE DEF S
  <2>3. begun \in [Roles -> S]
    BY <2>1, <2>2
  <2> QED
    BY <2>3 DEF S
<1>5. drawn \in [Roles -> Nat]
  <2>1. \A p \in Roles : drawn[p] \in Nat
    BY <1>2
  <2>2. drawn = [r \in Roles |-> drawn[r]]
    BY <1>1 DEF Shape, OfRoles
  <2> QED
    BY <2>1, <2>2
<1>6. DOMAIN call = Roles /\ DOMAIN at = Roles
  BY <1>1 DEF Shape
<1>7. \A p, q \in Roles : chan[p][q] \in Seq(Packet)
  BY <1>1 DEF Wired
<1> QED
  BY <1>1, <1>2, <1>3, <1>4, <1>5, <1>6, <1>7 DEF TypeOK, Setting

(* The loop's next byte is an operation, its next size a size.              *)
LEMMA BytesAreOps ==
  ASSUME NEW x, NEW cs, Sound(cs), NEW s, Local(HELPER, x, cs, s), s["receive"][P1] # <<>>
  PROVE  /\ x.pc = "command" => Head(s["receive"][P1]).msg \in Commands
         /\ x.pc = "size" => Head(s["receive"][P1]).msg = "size"
<1> DEFINE u == Head(s["receive"][P1])
           op == u.msg
<1>1. ASSUME x.pc = "command"
      PROVE  op \in Commands
  <2> DEFINE y == [pc |-> IF op \in ScalarOps THEN "run"
                          ELSE IF op \in SizedOps THEN "size"
                          ELSE IF op = "CORE_END" THEN "exit" ELSE "command",
                   begun |-> IF op \in ScalarOps THEN x.begun + 1 ELSE x.begun,
                   call |-> IF op \in ScalarOps \cup SizedOps THEN ACall(op, 0) ELSE x.call,
                   at |-> 0, moved |-> <<>>, drawn |-> x.drawn]
  <2>1. ByteRead(x, y, op)
    <3> HIDE DEF op
    <3> QED
      BY DEF ByteRead
  <2> HIDE DEF y
  <2> QED
    BY <1>1, <2>1, LocalReadByte
<1>2. ASSUME x.pc = "size"
      PROVE  op = "size"
  <2> DEFINE y == [pc |-> "run", begun |-> x.begun + 1, call |-> ACall(x.call.op, u.k),
                   at |-> 0, moved |-> <<>>, drawn |-> x.drawn]
  <2>1. /\ y.pc = "run" /\ y.begun = x.begun + 1 /\ y.at = 0 /\ y.moved = <<>>
        /\ y.drawn = x.drawn /\ y.call = ACall(x.call.op, Head(s["receive"][P1]).k)
    OBVIOUS
  <2> HIDE DEF y
  <2> QED
    BY <1>2, <2>1, LocalReadInt
<1> QED
  BY <1>1, <1>2

LEMMA FramesFollow ==
  ASSUME Inv
  PROVE  FramesAgree
<1>1. Sound(calls) /\ Wired(chan)
  BY NowSound DEF Inv
<1>2. PICK s : Linked(Now, calls, chan, s)
  BY DEF Inv
<1>3. \A p \in Roles : Local(p, Here(p), calls, s[p])
  BY <1>2, HereIs DEF Linked
<1> DEFINE h == Now
<1>4. Linked(h, calls, chan, s)
  BY <1>2
<1> HIDE DEF h
<1>5. ASSUME NEW p \in Roles, pc[p] = "run", NEW i \in 1..Len(Transfers(p)),
             Transfers(p)[i].dir = "receive", Left(p, i) > 0,
             chan[Transfers(p)[i].peer][p] # <<>>
      PROVE  LET t == Transfers(p)[i]
                 next == Head(chan[t.peer][p])
             IN  /\ next.from = t.peer
                 /\ [msg |-> next.msg, k |-> next.k] = t.units[moved[p][i] + 1]
  <2> DEFINE x == Here(p)
             sp == s[p]
             t == Transfers(p)[i]
             q == t.peer
  <2>1. x.pc = "run" /\ x.moved = moved[p] /\ Threads(p, x) = Transfers(p)
    BY <1>5, HereIs
  <2>2. Local(p, x, calls, sp)
    BY <1>3
  <2> HIDE DEF x, sp
  <2>3. InCall(p, x)
    BY <2>1, <2>2, RunTyped
  <2>4. q \in Roles /\ x.moved[i] < Len(t.units)
    <3> DEFINE a == Len(t.units)
               m == x.moved[i]
    <3>1. q \in Roles /\ a \in Nat /\ m \in 0..a
      BY <1>5, <2>1, <2>3 DEF InCall
    <3>2. a - m > 0
      BY <1>5, <2>1 DEF Left
    <3> HIDE DEF a, m
    <3>3. m < a
      BY <3>1, <3>2
    <3> QED
      BY <3>1, <3>3 DEF a, m
  <2>5. Awaited(x, sp, Threads(p, x)[i], x.moved[i] + 1)
    <3>1. i \in 1..Len(Threads(p, x)) /\ x.moved[i] < Len(Threads(p, x)[i].units)
      BY <1>5, <2>1, <2>4
    <3> QED
      BY <1>1, <2>1, <2>2, <3>1, HeadIs
  <2>6. First(chan, s, p, q)
    <3>1. chan[q][p] # <<>>
      BY <1>5
    <3> HIDE DEF q
    <3> QED
      BY <1>1, <1>4, <2>4, <3>1, FirstIsFirst
  <2>7. /\ Head(sp["receive"][q]).from = q
        /\ [msg |-> Head(sp["receive"][q]).msg, k |-> Head(sp["receive"][q]).k]
             = t.units[moved[p][i] + 1]
    <3>1. Awaited(x, sp, t, moved[p][i] + 1) /\ t.dir = "receive"
      BY <1>5, <2>1, <2>5
    <3> HIDE DEF t
    <3> QED
      BY <3>1 DEF Awaited
  <2>8. Head(sp["receive"][q]) = Head(chan[q][p])
    BY <2>6 DEF First, sp
  <2> HIDE DEF q
  <2> QED
    BY <2>7, <2>8 DEF q
<1>6. ASSUME Incoming # <<>>
      PROVE  /\ pc[HELPER] = "command" => Head(Incoming).msg \in Commands
             /\ pc[HELPER] = "size" => Head(Incoming).msg = "size"
  <2>0. HELPER \in Roles /\ P1 \in Roles /\ chan[P1][HELPER] # <<>>
    BY <1>6 DEF Roles, Incoming
  <2>1. First(chan, s, HELPER, P1)
    BY <1>1, <1>4, <2>0, FirstIsFirst
  <2> DEFINE x == Here(HELPER)
             sp == s[HELPER]
  <2>2. Local(HELPER, x, calls, sp) /\ x.pc = pc[HELPER]
    BY <1>3, <2>0, HereIs
  <2>3. sp["receive"][P1] # <<>> /\ Head(sp["receive"][P1]) = Head(Incoming)
    BY <2>1 DEF First, Incoming
  <2> HIDE DEF x, sp
  <2>4. /\ x.pc = "command" => Head(sp["receive"][P1]).msg \in Commands
        /\ x.pc = "size" => Head(sp["receive"][P1]).msg = "size"
    BY <1>1, <2>2, <2>3, BytesAreOps
  <2> QED
    BY <2>2, <2>3, <2>4
<1>7. \A p \in Roles : pc[p] = "run" =>
        \A i \in 1..Len(Transfers(p)) :
          LET t == Transfers(p)[i]
          IN  (t.dir = "receive" /\ Left(p, i) > 0 /\ chan[t.peer][p] # <<>>) =>
                LET next == Head(chan[t.peer][p])
                IN  /\ next.from = t.peer
                    /\ [msg |-> next.msg, k |-> next.k] = t.units[moved[p][i] + 1]
  BY <1>5
<1>8. /\ (pc[HELPER] = "command" /\ Incoming # <<>>) => Head(Incoming).msg \in Commands
      /\ (pc[HELPER] = "size" /\ Incoming # <<>>) => Head(Incoming).msg = "size"
  BY <1>6
<1> QED
  BY <1>7, <1>8 DEF FramesAgree

(* Two messages side by side come from one place of the common stream.      *)
LEMMA SameStamp ==
  ASSUME NEW p \in Roles, NEW x, NEW cs, NEW s, Local(p, x, cs, s), x.pc = "run",
         \A i \in 1..Len(Threads(p, x)) : x.moved[i] = Len(Threads(p, x)[i].units),
         Len(Threads(p, x)) = 2
  PROVE  \A k \in 1..Len(Threads(p, x)[1].units) : x.buf[1][k].stamp = x.buf[2][k].stamp
<1>1. PICK place : Busy(p, x, place)
  BY DEF Local, Stands
<1> DEFINE tr == Threads(p, x)
<1>2. tr \in Seq(TransferOf(p)) /\ ApartIn(p, tr[1], tr[2])
  BY <1>1, ThreadsTyped
<1>3. 1 \in 1..Len(tr) /\ 2 \in 1..Len(tr)
  OBVIOUS
<1>4. ASSUME NEW i \in {1, 2}
      PROVE  /\ tr[i] \in TransferOf(p) /\ tr[i].dir \in {"send", "receive"}
             /\ tr[i].peer \in Roles \ {p}
             /\ \A k \in 1..Len(tr[i].units) :
                  x.buf[tr[i].buf][k]
                    = Packed(tr[i].units[k], IF tr[i].dir = "send" THEN p ELSE tr[i].peer, place)
  <2>1. i \in 1..Len(tr)
    BY <1>3
  <2>2. x.moved[i] = Len(tr[i].units)
    BY <2>1
  <2>3. /\ tr[i].dir = "send" =>
             \A k \in 1..Len(tr[i].units) : x.buf[tr[i].buf][k] = Packed(tr[i].units[k], p, place)
        /\ tr[i].dir = "receive" =>
             \A k \in 1..x.moved[i] : x.buf[tr[i].buf][k] = Packed(tr[i].units[k], tr[i].peer, place)
    BY <1>1, <2>1 DEF Busy
  <2> DEFINE t == tr[i]
  <2>4. t \in TransferOf(p)
    <3> HIDE DEF tr
    <3> QED
      BY <1>2, <2>1
  <2> HIDE DEF t
  <2>5. t.dir \in {"send", "receive"} /\ t.peer \in Roles \ {p}
    BY <2>4 DEF TransferOf
  <2> HIDE DEF tr
  <2> QED
    BY <2>2, <2>3, <2>4, <2>5 DEF t
<1> HIDE DEF tr
<1>5. \A unit, from : Packed(unit, from, place).stamp = IF from = HELPER THEN 0 ELSE place
  BY DEF Packed, Stamped
<1>6. /\ tr[1].buf = 1 /\ tr[2].buf = 2 /\ Len(tr[1].units) = Len(tr[2].units)
      /\ p = HELPER => tr[1].dir = tr[2].dir
  BY <1>2 DEF ApartIn
<1> DEFINE from(i) == IF tr[i].dir = "send" THEN p ELSE tr[i].peer
<1>7. from(1) = HELPER <=> from(2) = HELPER
  <2>1. CASE p = HELPER
    BY <1>4, <1>6, <2>1
  <2>2. CASE p # HELPER
    <3>1. tr[1].peer = Other(p) /\ tr[2].peer = Other(p)
      BY <1>2, <2>2 DEF ApartIn
    <3>2. Other(p) # HELPER
      BY <2>2 DEF Other, Roles, P1, P2, HELPER
    <3> QED
      BY <2>2, <3>1, <3>2
  <2> QED
    BY <2>1, <2>2
<1>8. ASSUME NEW k \in 1..Len(tr[1].units)
      PROVE  x.buf[1][k].stamp = x.buf[2][k].stamp
  <2>1. x.buf[1][k] = Packed(tr[1].units[k], from(1), place)
    BY <1>4, <1>6
  <2>2. x.buf[2][k] = Packed(tr[2].units[k], from(2), place)
    <3>1. k \in 1..Len(tr[2].units)
      BY <1>6
    <3> QED
      BY <1>4, <1>6, <3>1
  <2> HIDE DEF from
  <2> QED
    BY <1>5, <1>7, <2>1, <2>2
<1> QED
  BY <1>8 DEF tr

LEMMA MasksFollow ==
  ASSUME Inv
  PROVE  MasksAgree
<1>1. ASSUME NEW p \in Roles, pc[p] = "run", Joined(p), Len(Transfers(p)) = 2
      PROVE  \A k \in 1..Len(Transfers(p)[1].units) : buf[p][1][k].stamp = buf[p][2][k].stamp
  <2> DEFINE x == Here(p)
  <2>1. PICK s : Local(p, x, calls, s)
    BY NowLocal
  <2>2. x.pc = "run" /\ x.buf = buf[p] /\ Threads(p, x) = Transfers(p) /\ x = Here(p)
    BY <1>1, HereIs
  <2> HIDE DEF x
  <2>3. InCall(p, x)
    BY <2>1, <2>2, RunTyped
  <2>4. \A i \in 1..Len(Threads(p, x)) : x.moved[i] = Len(Threads(p, x)[i].units)
    BY <1>1, <2>2, <2>3, JoinedIs
  <2>5. Len(Threads(p, x)) = 2
    BY <1>1, <2>2
  <2>6. \A k \in 1..Len(Threads(p, x)[1].units) : x.buf[1][k].stamp = x.buf[2][k].stamp
    BY <2>1, <2>2, <2>4, <2>5, SameStamp
  <2> QED
    BY <2>2, <2>6
<1> QED
  BY <1>1 DEF MasksAgree

(* A party that has ended has nothing to say or hear.                       *)
LEMMA EndedSays ==
  ASSUME NEW p \in Roles, NEW x, NEW cs, NEW s, Local(p, x, cs, s), x.pc = "exit"
  PROVE  \A way \in Ways2 : \A q \in Roles : s[way][q] = <<>>
<1>1. PICK n, todo, e, place :
        Stands(p, x, cs, n, todo, e, place) /\ Says(p, x, cs, s, n, todo, e, place)
  BY DEF Local
<1>2. todo = <<>>
  BY <1>1 DEF Stands, Position
<1>3. \A way, q : Current(p, x, cs, n, place, way, q) = <<>>
  BY DEF Current
<1>4. \A way, q : Stream(p, todo, way, q, e) = <<>>
  BY <1>2, StreamNone
<1>5. <<>> \o <<>> = <<>>
  OBVIOUS
<1> QED
  BY <1>1, <1>3, <1>4, <1>5 DEF Says

LEMMA DrainedFollows ==
  ASSUME Inv
  PROVE  Drained
<1>1. PICK s : Linked(Now, calls, chan, s)
  BY DEF Inv
<1>2. ASSUME Terminated, NEW p \in Roles, NEW q \in Roles
      PROVE  chan[p][q] = <<>>
  <2>1. Local(p, Here(p), calls, s[p]) /\ Local(q, Here(q), calls, s[q])
        /\ Here(p).pc = "exit" /\ Here(q).pc = "exit"
    BY <1>1, <1>2, HereIs DEF Linked, Terminated
  <2>2. "send" \in Ways2 /\ "receive" \in Ways2
    BY DEF Ways2
  <2> DEFINE x == Here(p)
             y == Here(q)
  <2> HIDE DEF x, y
  <2>3. s[p]["send"][q] = <<>> /\ s[q]["receive"][p] = <<>>
    BY <2>1, <2>2, EndedSays
  <2>4. chan[p][q] \o s[p]["send"][q] = s[q]["receive"][p]
    BY <1>1 DEF Linked
  <2> DEFINE c == chan[p][q]
  <2>5. c \in Seq(Packet) /\ c \o <<>> = <<>>
    BY <2>3, <2>4 DEF Inv, Wired
  <2> HIDE DEF c
  <2>6. c = <<>>
    BY <2>5, EmptyLeft
  <2> QED
    BY <2>6 DEF c
<1> QED
  BY <1>2 DEF Drained

-----------------------------------------------------------------------------
(* The theorems. *)

(* Every variable keeps its type: no thread moves more than its transfer    *)
(* has and no socket holds more than it can.                                *)
THEOREM SessionTypes == Spec => []TypeOK
BY Invariance, TypesFollow, PTL

(* Whatever a Rcv, ReadByte or ReadInt takes next is the field that the     *)
(* code at that place decodes, in every sequence of calls.                  *)
THEOREM SessionFrames == Spec => []FramesAgree
BY Invariance, FramesFollow, PTL

(* Messages that a party combines were masked at one place of the proxies'  *)
(* common stream, in every sequence of calls.                               *)
THEOREM SessionMasks == Spec => []MasksAgree
BY Invariance, MasksFollow, PTL

(* When the three programs have ended, every unit sent has been read.       *)
THEOREM SessionDrained == Spec => []Drained
BY Invariance, DrainedFollows, PTL

-----------------------------------------------------------------------------
(* How much is said. *)

(* Units p's program says to q, or hears from q.                            *)
Talk(p, code, way, q) == Len(Stream(p, code, way, q, [i \in 1..Len(code) |-> 0]))

(* What a transfer says is as long wherever it was computed.                *)
LEMMA UnitsLength ==
  ASSUME NEW units \in Seq(Unit), NEW m \in 0..Len(units), NEW from, NEW place
  PROVE  Len(Units(units, m, from, place)) = Len(units) - m
<1> DEFINE n == Len(units) - m
           s == Units(units, m, from, place)
<1>1. n \in Nat
  OBVIOUS
<1>2. s = [k \in 1..n |-> Packed(units[m + k], from, place)]
  BY DEF Units
<1> HIDE DEF n
<1>3. Len([k \in 1..n |-> Packed(units[m + k], from, place)]) = n
  BY <1>1
<1> QED
  BY <1>2, <1>3 DEF n

LEMMA SaidLength ==
  ASSUME NEW p \in Roles, NEW b \in BlockOf(p), NEW way, NEW q \in Roles,
         NEW x \in Nat, NEW y \in Nat
  PROVE  Len(Said(p, b, way, q, x)) = Len(Said(p, b, way, q, y))
<1> DEFINE tr == b.transfers
           mv == Unmoved(tr)
           W == Ways(tr, way, q)
           i == CHOOSE i \in W : TRUE
<1>1. \A z : Said(p, b, way, q, z)
        = IF W = {} THEN <<>> ELSE Units(tr[i].units, mv[i], Sender(p, way, q), z)
  BY DEF Said, Rest
<1>2. CASE W = {}
  BY <1>1, <1>2
<1>3. CASE W # {}
  <2>1. i \in W
    <3> HIDE DEF W
    <3> QED
      BY <1>3
  <2>2. i \in 1..Len(tr)
    <3> HIDE DEF i, tr
    <3> QED
      BY <2>1 DEF Ways
  <2>3. mv[i] = 0
    <3> HIDE DEF i, tr
    <3> QED
      BY <2>2 DEF Unmoved
  <2>4. tr[i].units \in Seq(Unit)
    <3> HIDE DEF i
    <3>1. tr \in Seq(TransferOf(p))
      BY BlockTyped
    <3>2. tr[i] \in TransferOf(p)
      BY <2>2, <3>1
    <3> QED
      BY <3>2 DEF TransferOf
  <2> DEFINE u == tr[i].units
             from == Sender(p, way, q)
  <2>5. u \in Seq(Unit) /\ 0 \in 0..Len(u)
    <3>1. u \in Seq(Unit)
      BY <2>4
    <3> HIDE DEF u
    <3> QED
      BY <3>1
  <2>6. \A z : Said(p, b, way, q, z) = Units(u, 0, from, z)
    <3> HIDE DEF W, i, tr, mv
    <3> QED
      BY <1>1, <1>3, <2>3
  <2> HIDE DEF u, from
  <2>7. Len(Units(u, 0, from, x)) = Len(u) - 0 /\ Len(Units(u, 0, from, y)) = Len(u) - 0
    BY <2>5, UnitsLength
  <2> QED
    BY <2>6, <2>7
<1> QED
  BY <1>2, <1>3

LEMMA StreamLength ==
  ASSUME NEW p \in Roles, NEW code \in Program(p), NEW way, NEW q \in Roles,
         NEW e \in Seq(Nat), Len(e) = Len(code)
  PROVE  Len(Stream(p, code, way, q, e)) = Talk(p, code, way, q) /\ Talk(p, code, way, q) \in Nat
<1> DEFINE n == Len(code)
           z == [i \in 1..n |-> 0]
           s(f) == [i \in 1..n |-> Said(p, code[i], way, q, f[i])]
<1>1. n \in Nat
  BY DEF Program
<1>2. z \in Seq(Nat) /\ Len(z) = n
  <2> HIDE DEF n
  <2>1. z \in [1..n -> Nat]
    OBVIOUS
  <2> QED
    BY <1>1, <2>1
<1>3. s(e) \in Seq(Seq(Packet)) /\ s(z) \in Seq(Seq(Packet))
  <2> HIDE DEF z
  <2> QED
    BY <1>2, StreamPieces
<1>4. Len(s(e)) = n /\ Len(s(z)) = n
  <2> HIDE DEF n, z
  <2> QED
    BY <1>1
<1>5. ASSUME NEW i \in 1..n
      PROVE  Len(s(e)[i]) = Len(s(z)[i])
  <2>1. code[i] \in BlockOf(p)
    BY DEF Program
  <2>2. e[i] \in Nat /\ z[i] \in Nat
    BY <1>2
  <2>3. s(e)[i] = Said(p, code[i], way, q, e[i]) /\ s(z)[i] = Said(p, code[i], way, q, z[i])
    OBVIOUS
  <2> HIDE DEF z, n
  <2> QED
    BY <2>1, <2>2, <2>3, SaidLength
<1>6. Len(FlattenSeq(s(e))) = Len(FlattenSeq(s(z)))
  <2> DEFINE a == s(e)
             b == s(z)
  <2>1. a \in Seq(Seq(Packet)) /\ b \in Seq(Seq(Packet)) /\ Len(a) = Len(b)
        /\ \A i \in 1..Len(a) : Len(a[i]) = Len(b[i])
    <3> HIDE DEF n, z, s
    <3> QED
      BY <1>3, <1>4, <1>5
  <2> HIDE DEF a, b
  <2>2. Len(FlattenSeq(a)) = Len(FlattenSeq(b))
    BY <2>1, FlattenLength
  <2> QED
    BY <2>2 DEF a, b
<1>7. Stream(p, code, way, q, e) = FlattenSeq(s(e)) /\ Stream(p, code, way, q, z) = FlattenSeq(s(z))
  BY DEF Stream
<1>8. Stream(p, code, way, q, z) \in Seq(Packet)
  <2> HIDE DEF z
  <2> QED
    BY <1>2, StreamTyped
<1>9. Talk(p, code, way, q) = Len(Stream(p, code, way, q, z))
  BY DEF Talk
<1> HIDE DEF z, s, n
<1>10. Len(Stream(p, code, way, q, z)) \in Nat
  BY <1>8
<1> QED
  BY <1>6, <1>7, <1>9, <1>10

Zeros(n) == [i \in 1..n |-> 0]

LEMMA ZerosTyped ==
  ASSUME NEW n \in Nat
  PROVE  Zeros(n) \in Seq(Nat) /\ Len(Zeros(n)) = n
<1>1. Zeros(n) \in [1..n -> Nat]
  BY DEF Zeros
<1>2. Zeros(n) = [i \in 1..n |-> 0]
  BY DEF Zeros
<1>3. Len([i \in 1..n |-> 0]) = n
  OBVIOUS
<1> QED
  BY <1>1, <1>2, <1>3

LEMMA TalkTyped ==
  ASSUME NEW p \in Roles, NEW code \in Program(p), NEW way, NEW q \in Roles
  PROVE  Talk(p, code, way, q) \in Nat
<1> DEFINE e == Zeros(Len(code))
<1>1. Len(code) \in Nat
  BY DEF Program
<1>2. e \in Seq(Nat) /\ Len(e) = Len(code)
  BY <1>1, ZerosTyped
<1> HIDE DEF e
<1> QED
  BY <1>2, StreamLength

LEMMA TalkNone ==
  ASSUME NEW p, NEW way, NEW q
  PROVE  Talk(p, <<>>, way, q) = 0
BY StreamNone DEF Talk

LEMMA TalkOne ==
  ASSUME NEW p \in Roles, NEW b \in BlockOf(p), NEW way, NEW q \in Roles
  PROVE  /\ <<b>> \in Program(p)
         /\ \A x \in Nat : Len(Said(p, b, way, q, x)) = Talk(p, <<b>>, way, q)
<1>1. <<b>> \in Program(p)
  BY DEF Program
<1>2. ASSUME NEW x \in Nat
      PROVE  Len(Said(p, b, way, q, x)) = Talk(p, <<b>>, way, q)
  <2> DEFINE e == <<x>>
             code == <<b>>
  <2>1. e \in Seq(Nat) /\ Len(e) = Len(code)
    OBVIOUS
  <2>2. Stream(p, code, way, q, e) = Said(p, b, way, q, x)
    BY StreamOne
  <2>3. code \in Program(p)
    BY <1>1
  <2> HIDE DEF e, code
  <2>4. Len(Stream(p, code, way, q, e)) = Talk(p, code, way, q)
    BY <2>1, <2>3, StreamLength
  <2> QED
    BY <2>2, <2>4 DEF code
<1> QED
  BY <1>1, <1>2

LEMMA TalkSplit ==
  ASSUME NEW p \in Roles, NEW a \in Program(p), NEW b \in Program(p), NEW way, NEW q \in Roles
  PROVE  /\ a \o b \in Program(p)
         /\ Talk(p, a, way, q) \in Nat /\ Talk(p, b, way, q) \in Nat
         /\ Talk(p, a \o b, way, q) = Talk(p, a, way, q) + Talk(p, b, way, q)
<1> DEFINE e == Zeros(Len(a))
           f == Zeros(Len(b))
           c == a \o b
           g == e \o f
<1>1. a \in Seq(BlockOf(p)) /\ b \in Seq(BlockOf(p)) /\ Len(a) \in Nat /\ Len(b) \in Nat
  BY DEF Program
<1>2. e \in Seq(Nat) /\ Len(e) = Len(a) /\ f \in Seq(Nat) /\ Len(f) = Len(b)
  BY <1>1, ZerosTyped
<1>3. c \in Seq(BlockOf(p)) /\ Len(c) = Len(a) + Len(b)
  BY <1>1, ConcatProperties
<1>4. c \in Program(p)
  BY <1>3 DEF Program
<1> HIDE DEF e, f
<1>5. g \in Seq(Nat) /\ Len(g) = Len(e) + Len(f)
  BY <1>2, ConcatProperties
<1>6. Stream(p, c, way, q, g) = Stream(p, a, way, q, e) \o Stream(p, b, way, q, f)
  BY <1>2, StreamSplit DEF StreamSplits
<1>7. /\ Len(Stream(p, a, way, q, e)) = Talk(p, a, way, q) /\ Talk(p, a, way, q) \in Nat
      /\ Len(Stream(p, b, way, q, f)) = Talk(p, b, way, q) /\ Talk(p, b, way, q) \in Nat
      /\ Stream(p, a, way, q, e) \in Seq(Packet) /\ Stream(p, b, way, q, f) \in Seq(Packet)
  BY <1>2, StreamLength, StreamTyped
<1>8. Len(Stream(p, c, way, q, g)) = Talk(p, c, way, q)
  <2> HIDE DEF c, g
  <2>1. Len(g) = Len(c)
    BY <1>2, <1>3, <1>5
  <2> QED
    BY <1>4, <1>5, <2>1, StreamLength
<1>9. Len(Stream(p, a, way, q, e) \o Stream(p, b, way, q, f))
        = Len(Stream(p, a, way, q, e)) + Len(Stream(p, b, way, q, f))
  BY <1>7, ConcatProperties
<1> QED
  BY <1>4, <1>6, <1>7, <1>8, <1>9

(* Programs that match say as much as is heard.                             *)
LEMMA TalkMatch ==
  ASSUME NEW f, Match(f), NEW p \in Roles, NEW q \in Roles
  PROVE  Talk(p, f[p], "send", q) = Talk(q, f[q], "receive", p)
<1>1. f[p] \in Program(p) /\ f[q] \in Program(q)
  BY DEF Match
<1>2. PICK e, d2 : InStep(f, 0, e, d2)
  <2>1. 0 \in Nat
    OBVIOUS
  <2> QED
    BY <2>1 DEF Match
<1>3. /\ e[p] \in Seq(Nat) /\ Len(e[p]) = Len(f[p])
      /\ e[q] \in Seq(Nat) /\ Len(e[q]) = Len(f[q])
      /\ Stream(p, f[p], "send", q, e[p]) = Stream(q, f[q], "receive", p, e[q])
  BY <1>2 DEF InStep
<1>4. Len(Stream(p, f[p], "send", q, e[p])) = Talk(p, f[p], "send", q)
  BY <1>1, <1>3, StreamLength
<1>5. Len(Stream(q, f[q], "receive", p, e[q])) = Talk(q, f[q], "receive", p)
  BY <1>1, <1>3, StreamLength
<1> QED
  BY <1>3, <1>4, <1>5

(* What is said after the first n blocks of a program.                      *)
TalkFrom(p, code, way, q, n) ==
  /\ Drop(code, n) \in Program(p)
  /\ Talk(p, Drop(code, n), way, q) <= Talk(p, code, way, q)
  /\ n # 0 => Talk(p, <<code[n]>>, way, q) + Talk(p, Drop(code, n), way, q)
                <= Talk(p, code, way, q)

LEMMA TalkAfter ==
  ASSUME NEW p \in Roles, NEW code \in Program(p), NEW way, NEW q \in Roles,
         NEW n \in 0..Len(code)
  PROVE  TalkFrom(p, code, way, q, n)
<1> DEFINE L == Len(code)
           w == Talk(p, code, way, q)
           T == {k \in Nat : k <= L => TalkFrom(p, code, way, q, k)}
<1>1. L \in Nat /\ w \in Nat /\ code \in Seq(BlockOf(p))
  BY TalkTyped DEF Program
<1>2. 0 \in T
  <2>1. Drop(code, 0) = code
    BY <1>1, DropNone
  <2>2. TalkFrom(p, code, way, q, 0)
    <3>1. w <= w
      BY <1>1
    <3> QED
      BY <2>1, <3>1 DEF TalkFrom
  <2> QED
    BY <2>2
<1>3. ASSUME NEW k \in Nat, k \in T
      PROVE  k + 1 \in T
  <2> SUFFICES ASSUME k + 1 <= L
               PROVE  TalkFrom(p, code, way, q, k + 1)
    OBVIOUS
  <2>1. k < L /\ k <= L /\ k + 1 # 0
    BY <1>1
  <2> DEFINE b == code[k + 1]
             a == Drop(code, k)
             r == Drop(code, k + 1)
             one == <<b>>
  <2>2. b \in BlockOf(p) /\ r \in Program(p) /\ a = one \o r
    BY <1>1, <2>1, DropNext DEF Program
  <2>3. one \in Program(p)
    BY <2>2 DEF Program
  <2>4. Talk(p, a, way, q) <= w
    BY <1>3, <2>1 DEF TalkFrom
  <2> HIDE DEF a, one, r, b, w
  <2>5. /\ Talk(p, one, way, q) \in Nat /\ Talk(p, r, way, q) \in Nat
        /\ Talk(p, a, way, q) = Talk(p, one, way, q) + Talk(p, r, way, q)
    BY <2>2, <2>3, TalkSplit
  <2>6. Talk(p, one, way, q) + Talk(p, r, way, q) <= w /\ Talk(p, r, way, q) <= w
    BY <1>1, <2>4, <2>5
  <2> QED
    BY <2>2, <2>6 DEF TalkFrom, r, one, b, w
<1>4. n \in T
  <2> HIDE DEF T
  <2>1. Nat \subseteq T
    BY <1>2, <1>3, SetInduction
  <2> QED
    BY <2>1
<1> QED
  BY <1>1, <1>4

LEMMA TalkLater ==
  ASSUME NEW p \in Roles, NEW cs, Sound(cs), NEW way, NEW q \in Roles,
         NEW n \in Nat, n < Len(cs)
  PROVE  /\ Whole(p, cs[n + 1]) \in Program(p) /\ Later(p, cs, n + 1) \in Program(p)
         /\ Talk(p, Whole(p, cs[n + 1]), way, q) \in Nat
         /\ Talk(p, Later(p, cs, n + 1), way, q) \in Nat
         /\ Talk(p, Later(p, cs, n), way, q)
              = Talk(p, Whole(p, cs[n + 1]), way, q) + Talk(p, Later(p, cs, n + 1), way, q)
<1> DEFINE c == cs[n + 1]
           a == Whole(p, c)
           l == Later(p, cs, n + 1)
<1>1. n + 1 \in 0..Len(cs) /\ c \in Call /\ Later(p, cs, n) = a \o l
  BY LaterNext
<1>2. l \in Program(p)
  BY <1>1, LaterTyped
<1>3. a \in Program(p)
  <2> HIDE DEF c
  <2> QED
    BY <1>1, CallTyped
<1> HIDE DEF a, l, c
<1>4. /\ Talk(p, a, way, q) \in Nat /\ Talk(p, l, way, q) \in Nat
      /\ Talk(p, a \o l, way, q) = Talk(p, a, way, q) + Talk(p, l, way, q)
  BY <1>2, <1>3, TalkSplit
<1> QED
  BY <1>1, <1>2, <1>3, <1>4 DEF a, l, c

(* What is said from the m-th call on, and from a later one on.             *)
LaterLess(p, cs, way, q, m, k) ==
  /\ Talk(p, Later(p, cs, m), way, q) \in Nat
  /\ Talk(p, Later(p, cs, k), way, q) \in Nat
  /\ Talk(p, Later(p, cs, k), way, q) <= Talk(p, Later(p, cs, m), way, q)
  /\ m < k => /\ Talk(p, Whole(p, cs[k]), way, q) \in Nat
              /\ Talk(p, Whole(p, cs[k]), way, q) + Talk(p, Later(p, cs, k), way, q)
                   <= Talk(p, Later(p, cs, m), way, q)

LEMMA LaterIsLess ==
  ASSUME NEW p \in Roles, NEW cs, Sound(cs), NEW way, NEW q \in Roles,
         NEW k \in 0..Len(cs), NEW m \in 0..k
  PROVE  LaterLess(p, cs, way, q, m, k)
<1> DEFINE L == Len(cs)
           w(i) == Talk(p, Later(p, cs, i), way, q)
           v(i) == Talk(p, Whole(p, cs[i]), way, q)
           Holds(i) == /\ w(m) \in Nat /\ w(i) \in Nat /\ w(i) <= w(m)
                       /\ m < i => v(i) \in Nat /\ v(i) + w(i) <= w(m)
           T == {j \in Nat : m + j <= L => Holds(m + j)}
<1>1. L \in Nat /\ m \in Nat /\ k \in Nat /\ m <= k /\ k <= L /\ k - m \in Nat /\ m + (k - m) = k
  <2>1. L \in Nat
    BY WholesTyped
  <2>2. k \in 0..L
    OBVIOUS
  <2> HIDE DEF L
  <2> QED
    BY <2>1, <2>2
<1>2. w(m) \in Nat
  <2>1. m \in 0..Len(cs)
    <3> DEFINE h == Len(cs)
    <3>1. h = L
      OBVIOUS
    <3> HIDE DEF L, h
    <3>2. m \in 0..h
      BY <1>1, <3>1
    <3> QED
      BY <3>2 DEF h
  <2>2. Later(p, cs, m) \in Program(p)
    BY <2>1, LaterTyped
  <2> QED
    BY <2>2, TalkTyped
<1>3. 0 \in T
  <2>1. m + 0 = m /\ ~(m < m)
    BY <1>1
  <2> HIDE DEF w, v, L
  <2>2. w(m) <= w(m)
    BY <1>2
  <2>3. Holds(m)
    BY <1>2, <2>1, <2>2
  <2> HIDE DEF Holds
  <2> QED
    BY <2>1, <2>3
<1>4. ASSUME NEW j \in Nat, j \in T
      PROVE  j + 1 \in T
  <2> DEFINE i == m + j
  <2>1. m + (j + 1) = i + 1 /\ i \in Nat
    BY <1>1
  <2> SUFFICES ASSUME i + 1 <= L
               PROVE  Holds(i + 1)
    <3> HIDE DEF Holds, i, L
    <3> QED
      BY <2>1
  <2>2. i < L /\ i <= L
    <3> HIDE DEF i, L
    <3> QED
      BY <1>1, <2>1
  <2>3. Holds(i)
    <3> HIDE DEF Holds, L
    <3> QED
      BY <1>4, <2>2
  <2>4. v(i + 1) \in Nat /\ w(i + 1) \in Nat /\ w(i) = v(i + 1) + w(i + 1)
    <3> HIDE DEF i
    <3> QED
      BY <2>1, <2>2, TalkLater
  <2> HIDE DEF w, v, L, i
  <2> QED
    BY <1>2, <2>3, <2>4
<1>5. k - m \in T
  <2> HIDE DEF T
  <2>1. Nat \subseteq T
    BY <1>3, <1>4, SetInduction
  <2> QED
    BY <1>1, <2>1
<1>6. Holds(k)
  <2> HIDE DEF Holds, L
  <2> QED
    BY <1>1, <1>5
<1> QED
  BY <1>6 DEF LaterLess

-----------------------------------------------------------------------------
(* How much a party has left to say and to hear. *)

(* What the helper's loop hears before a call.                              *)
LEMMA HearsTalk ==
  ASSUME NEW c \in Call, c.op \in Commands, NEW q \in Roles
  PROVE  /\ Hears(c) \in Program(HELPER)
         /\ Talk(HELPER, Hears(c), "send", q) = 0
         /\ Talk(HELPER, Hears(c), "receive", q)
              = IF q = P1 THEN (IF c.op \in SizedOps THEN 2 ELSE 1) ELSE 0
<1> DEFINE units == Command(c)
           t == Receive(P1, units, 1)
           b == Block(0, <<t>>)
<1>0. HELPER \in Roles /\ P1 \in Roles \ {HELPER} /\ 0 \in Nat /\ 1 \in {1, 2}
  BY DEF Roles, P1, HELPER
<1>1. units \in Seq(Unit) /\ Len(units) = IF c.op \in SizedOps THEN 2 ELSE 1
  BY CommandTyped
<1> HIDE DEF units
<1>2. t \in TransferOf(HELPER) /\ t.dir = "receive" /\ t.peer = P1 /\ t.units = units
  BY <1>0, <1>1 DEF Receive, TransferOf
<1> HIDE DEF t
<1>3. /\ b \in BlockOf(HELPER)
      /\ \A dir, r, place :
           Said(HELPER, b, dir, r, place)
             = IF t.dir = dir /\ t.peer = r THEN Units(t.units, 0, Sender(HELPER, dir, r), place)
                                            ELSE <<>>
  BY <1>0, <1>2, AloneTyped
<1>4. Hears(c) = <<b>>
  BY DEF Hears, Alone, b, t, units
<1> HIDE DEF b
<1>5. /\ Hears(c) \in Program(HELPER)
      /\ \A way : Talk(HELPER, Hears(c), way, q) = Len(Said(HELPER, b, way, q, 0))
  BY <1>0, <1>3, <1>4, TalkOne
<1>6. Len(Said(HELPER, b, "send", q, 0)) = 0
  BY <1>2, <1>3
<1>7. q # P1 => Len(Said(HELPER, b, "receive", q, 0)) = 0
  BY <1>2, <1>3
<1>8. q = P1 => Len(Said(HELPER, b, "receive", q, 0)) = Len(units)
  <2> SUFFICES ASSUME q = P1
               PROVE  Len(Said(HELPER, b, "receive", P1, 0)) = Len(units)
    OBVIOUS
  <2>1. Said(HELPER, b, "receive", P1, 0) = Units(units, 0, Sender(HELPER, "receive", P1), 0)
    BY <1>2, <1>3
  <2>2. 0 \in 0..Len(units) /\ Len(units) - 0 = Len(units)
    BY <1>1
  <2> QED
    BY <1>1, <2>1, <2>2, UnitsLength
<1> QED
  BY <1>1, <1>5, <1>6, <1>7, <1>8

LEMMA RestShorter ==
  ASSUME NEW p \in Roles, NEW tr \in Seq(TransferOf(p)), NEW mv,
         \A i \in 1..Len(tr) : mv[i] \in 0..Len(tr[i].units),
         NEW way, NEW q \in Roles, NEW x \in Nat
  PROVE  /\ Len(Rest(p, tr, mv, way, q, x)) \in Nat
         /\ Len(Rest(p, tr, mv, way, q, x)) <= Len(Rest(p, tr, Unmoved(tr), way, q, x))
<1> DEFINE W == Ways(tr, way, q)
           i == CHOOSE i \in W : TRUE
           um == Unmoved(tr)
           from == Sender(p, way, q)
<1>1. CASE W = {}
  <2>1. Rest(p, tr, mv, way, q, x) = <<>> /\ Rest(p, tr, um, way, q, x) = <<>>
    BY <1>1, RestNone
  <2> QED
    BY <2>1
<1>2. CASE W # {}
  <2>1. i \in W
    <3> HIDE DEF W
    <3> QED
      BY <1>2
  <2>2. i \in 1..Len(tr)
    <3> HIDE DEF i
    <3> QED
      BY <2>1 DEF Ways
  <2>3. /\ Rest(p, tr, mv, way, q, x) = Units(tr[i].units, mv[i], from, x)
        /\ Rest(p, tr, um, way, q, x) = Units(tr[i].units, um[i], from, x)
    BY <1>2 DEF Rest
  <2> HIDE DEF i, W
  <2> DEFINE u == tr[i].units
             m == mv[i]
  <2>4. u \in Seq(Unit)
    <3>1. tr[i] \in TransferOf(p)
      BY <2>2
    <3> QED
      BY <3>1 DEF TransferOf
  <2>5. um[i] = 0 /\ m \in 0..Len(u)
    BY <2>2 DEF Unmoved
  <2>6. /\ Rest(p, tr, mv, way, q, x) = Units(u, m, from, x)
        /\ Rest(p, tr, um, way, q, x) = Units(u, 0, from, x)
    <3> HIDE DEF um, from
    <3> QED
      BY <2>3, <2>5
  <2> HIDE DEF u, m, um, from
  <2>7. Len(u) \in Nat /\ 0 \in 0..Len(u) /\ m \in Nat
    BY <2>4, <2>5
  <2>8. Len(Units(u, m, from, x)) = Len(u) - m /\ Len(Units(u, 0, from, x)) = Len(u) - 0
    BY <2>4, <2>5, <2>7, UnitsLength
  <2> QED
    BY <2>5, <2>6, <2>7, <2>8 DEF um
<1> QED
  BY <1>1, <1>2

(* In a call: no more is left of it than it says.                           *)
LEMMA RunLeft ==
  ASSUME NEW p \in Roles, NEW x, NEW place \in Nat, Busy(p, x, place), NEW way, NEW q \in Roles
  PROVE  /\ Drop(Its(p, x), x.at) \in Program(p)
         /\ Talk(p, Drop(Its(p, x), x.at), way, q) \in Nat
         /\ Talk(p, Its(p, x), way, q) \in Nat
         /\ Len(Rest(p, Threads(p, x), x.moved, way, q, place)) \in Nat
         /\ Len(Rest(p, Threads(p, x), x.moved, way, q, place))
              + Talk(p, Drop(Its(p, x), x.at), way, q) <= Talk(p, Its(p, x), way, q)
<1> DEFINE code == Its(p, x)
           n == x.at
           tr == Threads(p, x)
           mv == x.moved
           a == Drop(code, n)
           r == Len(Rest(p, tr, mv, way, q, place))
<1>1. code \in Program(p) /\ n \in 0..Len(code)
      /\ \A i \in 1..Len(tr) : mv[i] \in 0..Len(tr[i].units)
  BY DEF Busy
<1>2. tr \in Seq(TransferOf(p)) /\ (n # 0 => code[n] \in BlockOf(p))
  BY ThreadsTyped
<1>3. tr = IF n = 0 THEN <<>> ELSE code[n].transfers
  BY DEF Threads
<1> HIDE DEF code, n, tr, mv
<1>4. TalkFrom(p, code, way, q, n)
  BY <1>1, TalkAfter
<1>5. a \in Program(p) /\ Talk(p, a, way, q) \in Nat /\ Talk(p, code, way, q) \in Nat
  BY <1>1, <1>4, TalkTyped DEF TalkFrom
<1>6. r \in Nat /\ r <= Len(Rest(p, tr, Unmoved(tr), way, q, place))
  BY <1>1, <1>2, RestShorter
<1>7. r + Talk(p, a, way, q) <= Talk(p, code, way, q)
  <2>1. CASE n = 0
    <3>1. Rest(p, tr, mv, way, q, place) = <<>>
      <4>1. Ways(tr, way, q) = {}
        BY <1>3, <2>1 DEF Ways
      <4> QED
        BY <4>1, RestNone
    <3>2. r = 0
      BY <3>1
    <3>3. Talk(p, a, way, q) <= Talk(p, code, way, q)
      BY <1>4 DEF TalkFrom
    <3> HIDE DEF r, a
    <3> QED
      BY <1>5, <3>2, <3>3
  <2>2. CASE n # 0
    <3> DEFINE b == code[n]
    <3>1. b \in BlockOf(p) /\ tr = b.transfers
      BY <1>2, <1>3, <2>2
    <3>2. Talk(p, <<b>>, way, q) + Talk(p, a, way, q) <= Talk(p, code, way, q)
      BY <1>4, <2>2 DEF TalkFrom
    <3> HIDE DEF b
    <3>3. Len(Said(p, b, way, q, place)) = Talk(p, <<b>>, way, q)
      BY <3>1, TalkOne
    <3>4. Said(p, b, way, q, place) = Rest(p, tr, Unmoved(tr), way, q, place)
      BY <3>1 DEF Said
    <3>5. r <= Talk(p, <<b>>, way, q)
      <4> HIDE DEF r
      <4> QED
        BY <1>6, <3>3, <3>4
    <3>6. Talk(p, <<b>>, way, q) \in Nat
      BY <3>1, TalkOne, TalkTyped
    <3> HIDE DEF r, a
    <3> QED
      BY <1>5, <1>6, <3>2, <3>5, <3>6
  <2> QED
    BY <2>1, <2>2
<1> QED
  BY <1>5, <1>6, <1>7 DEF code, n, tr, mv

(* All that is left: of the current block, and of the program after it.     *)
LeftIs(p, x, cs, s, n, todo, place, way, q) ==
  /\ todo \in Program(p) /\ Talk(p, todo, way, q) \in Nat
  /\ Len(Current(p, x, cs, n, place, way, q)) \in Nat
  /\ Len(s[way][q]) = Len(Current(p, x, cs, n, place, way, q)) + Talk(p, todo, way, q)

LEMMA LeftToSay ==
  ASSUME NEW p \in Roles, NEW x, NEW cs, Sound(cs), NEW s, NEW n, NEW todo, NEW e, NEW place,
         Stands(p, x, cs, n, todo, e, place), Says(p, x, cs, s, n, todo, e, place),
         NEW way \in Ways2, NEW q \in Roles
  PROVE  LeftIs(p, x, cs, s, n, todo, place, way, q)
<1> DEFINE cur == Current(p, x, cs, n, place, way, q)
           st == Stream(p, todo, way, q, e)
<1>1. todo \in Program(p) /\ e \in Seq(Nat) /\ Len(e) = Len(todo) /\ place \in Nat
      /\ n \in 0..Len(cs)
  BY DEF Stands
<1>2. s[way][q] = cur \o st
  BY DEF Says
<1>3. st \in Seq(Packet) /\ Len(st) = Talk(p, todo, way, q) /\ Talk(p, todo, way, q) \in Nat
  BY <1>1, StreamTyped, StreamLength
<1>4. cur \in Seq(Packet)
  <2>1. CASE x.pc = "run"
    <3>1. Busy(p, x, place)
      BY <2>1 DEF Stands
    <3>2. Threads(p, x) \in Seq(TransferOf(p))
      BY <3>1, ThreadsTyped
    <3>3. \A i \in 1..Len(Threads(p, x)) : x.moved[i] \in 0..Len(Threads(p, x)[i].units)
      BY <3>1 DEF Busy
    <3>4. Rest(p, Threads(p, x), x.moved, way, q, place) \in Seq(Packet)
      BY <1>1, <3>2, <3>3, RestTyped
    <3> QED
      BY <2>1, <3>4 DEF Current
  <2>2. CASE x.pc = "size" /\ way = "receive" /\ q = P1
    <3>1. n # 0
      BY <2>2 DEF Stands, Position
    <3>2. n \in 1..Len(cs)
      <4> DEFINE L == Len(cs)
      <4>1. L \in Nat /\ n \in 0..L
        BY <1>1, WholesTyped
      <4> HIDE DEF L
      <4>2. n \in 1..L
        BY <3>1, <4>1
      <4> QED
        BY <4>2 DEF L
    <3>3. cs[n] \in Call
      BY <3>2, WholesTyped
    <3>4. cs[n].n \in Nat
      BY <3>3 DEF Call
    <3> DEFINE unit == [msg |-> "size", k |-> cs[n].n]
    <3>5. unit \in Unit
      BY <3>4 DEF Unit, Messages
    <3> HIDE DEF unit
    <3>6. Packed(unit, P1, place) \in Packet
      <4>1. P1 \in Roles
        BY DEF Roles
      <4> QED
        BY <1>1, <3>5, <4>1, PackedTyped
    <3>7. cur = <<Packed(unit, P1, place)>>
      BY <2>2 DEF Current, unit
    <3> QED
      BY <3>6, <3>7
  <2>3. CASE x.pc # "run" /\ ~(x.pc = "size" /\ way = "receive" /\ q = P1)
    <3>1. cur = <<>>
      BY <2>3 DEF Current
    <3> QED
      BY <3>1
  <2> QED
    BY <2>1, <2>2, <2>3
<1> HIDE DEF cur, st
<1>5. Len(cur \o st) = Len(cur) + Len(st) /\ Len(cur) \in Nat
  BY <1>3, <1>4, ConcatProperties
<1> QED
  BY <1>1, <1>2, <1>3, <1>5 DEF LeftIs, cur

(* The calls a party has taken up; the helper, only when it has the size.   *)
Reach(x, n) == IF x.pc = "size" THEN n - 1 ELSE n

LEMMA HelperWhole ==
  ASSUME NEW c \in Call, c.op \in Commands, NEW way, NEW q \in Roles
  PROVE  /\ Talk(HELPER, Hears(c), way, q) \in Nat /\ Talk(HELPER, Body(HELPER, c), way, q) \in Nat
         /\ Body(HELPER, c) \in Program(HELPER)
         /\ Talk(HELPER, Whole(HELPER, c), way, q)
              = Talk(HELPER, Hears(c), way, q) + Talk(HELPER, Body(HELPER, c), way, q)
<1>0. HELPER \in Roles
  BY RolesAre
<1>1. Hears(c) \in Program(HELPER) /\ Body(HELPER, c) \in Program(HELPER)
  BY <1>0, HearsTalk, CallTyped
<1>2. Whole(HELPER, c) = Hears(c) \o Body(HELPER, c)
  BY DEF Whole
<1> QED
  BY <1>0, <1>1, <1>2, TalkSplit

(* What is left of the calls that have not begun is to be said.             *)
LEMMA StillSays ==
  ASSUME NEW p \in Roles, NEW x, NEW cs, Sound(cs), NEW s, NEW n, NEW todo, NEW e, NEW place,
         Stands(p, x, cs, n, todo, e, place), Says(p, x, cs, s, n, todo, e, place),
         NEW q \in Roles
  PROVE  /\ Reach(x, n) \in 0..Len(cs)
         /\ Talk(p, Later(p, cs, Reach(x, n)), "send", q) \in Nat
         /\ Len(s["send"][q]) \in Nat
         /\ Talk(p, Later(p, cs, Reach(x, n)), "send", q) <= Len(s["send"][q])
<1> DEFINE way == "send"
           cur == Len(Current(p, x, cs, n, place, way, q))
           L == Len(cs)
           l == Later(p, cs, n)
           len == Len(s[way][q])
<1>1. LeftIs(p, x, cs, s, n, todo, place, way, q)
  BY LeftToSay DEF Ways2
<1>2. /\ todo \in Program(p) /\ Talk(p, todo, way, q) \in Nat /\ cur \in Nat
      /\ len = cur + Talk(p, todo, way, q)
  BY <1>1 DEF LeftIs
<1>3. n \in 0..Len(cs) /\ L \in Nat /\ Position(p, x, cs, n, todo)
  BY WholesTyped DEF Stands
<1>4. l \in Program(p) /\ Talk(p, l, way, q) \in Nat
  BY <1>3, LaterTyped, TalkTyped
<1>5. len \in Nat /\ Talk(p, todo, way, q) <= len
  <2> HIDE DEF cur, len
  <2> QED
    BY <1>2
<1>6. CASE x.pc = "run"
  <2>1. todo = Drop(Its(p, x), x.at) \o l /\ Reach(x, n) = n
    BY <1>3, <1>6 DEF Position, Reach
  <2>2. Busy(p, x, place) /\ place \in Nat
    BY <1>6 DEF Stands
  <2>3. Drop(Its(p, x), x.at) \in Program(p)
    BY <2>2, RunLeft
  <2> DEFINE a == Drop(Its(p, x), x.at)
  <2> HIDE DEF a, l, len
  <2>4. Talk(p, todo, way, q) = Talk(p, a, way, q) + Talk(p, l, way, q) /\ Talk(p, a, way, q) \in Nat
    BY <1>4, <2>1, <2>3, TalkSplit DEF a
  <2>5. Talk(p, l, way, q) <= len
    BY <1>2, <1>4, <1>5, <2>4
  <2> QED
    BY <1>3, <1>4, <1>5, <2>1, <2>5 DEF l, len
<1>7. CASE x.pc \in {"call", "command"}
  <2>1. todo = l /\ Reach(x, n) = n
    BY <1>3, <1>7 DEF Position, Reach
  <2> QED
    BY <1>3, <1>4, <1>5, <2>1
<1>8. CASE x.pc = "exit"
  <2>1. n = Len(cs) /\ Reach(x, n) = n
    BY <1>8 DEF Stands, Counts, Reach
  <2>2. l = <<>>
    BY <2>1, LaterEnd
  <2>3. Talk(p, l, way, q) = 0
    BY <2>2, TalkNone
  <2>4. 0 <= len
    <3> HIDE DEF len
    <3> QED
      BY <1>5
  <2> QED
    BY <1>3, <1>4, <1>5, <2>1, <2>3, <2>4
<1>9. CASE x.pc = "size"
  <2>1. p = HELPER /\ n # 0 /\ cs[n].op \in SizedOps /\ todo = Body(p, cs[n]) \o l
        /\ Reach(x, n) = n - 1
    BY <1>3, <1>9 DEF Position, Reach
  <2>2. n - 1 \in Nat /\ n - 1 < L /\ (n - 1) + 1 = n /\ n - 1 \in 0..L
    <3> HIDE DEF L
    <3>1. n \in 0..L
      BY <1>3 DEF L
    <3> QED
      BY <1>3, <2>1, <3>1
  <2> DEFINE c == cs[n]
             k == n - 1
             b == Body(HELPER, c)
  <2>3. c \in Call /\ c.op \in Commands
    <3>1. cs[(n - 1) + 1] \in Call
      BY <2>2, LaterNext
    <3> QED
      BY <2>1, <2>2, <3>1 DEF Commands
  <2>4. Talk(p, Later(p, cs, k), way, q)
          = Talk(p, Whole(p, cs[k + 1]), way, q) + Talk(p, Later(p, cs, k + 1), way, q)
    <3> HIDE DEF k
    <3> QED
      BY <2>2, TalkLater DEF k
  <2>5. Talk(p, Later(p, cs, k), way, q) = Talk(HELPER, Whole(HELPER, c), way, q) + Talk(p, l, way, q)
    BY <2>1, <2>2, <2>4
  <2>6. /\ Talk(HELPER, Hears(c), way, q) = 0 /\ Talk(HELPER, b, way, q) \in Nat
        /\ b \in Program(HELPER)
        /\ Talk(HELPER, Whole(HELPER, c), way, q) = Talk(HELPER, Hears(c), way, q) + Talk(HELPER, b, way, q)
    <3> HIDE DEF c
    <3> QED
      BY <2>3, HelperWhole, HearsTalk
  <2> HIDE DEF b, l, len
  <2>7. Talk(HELPER, todo, way, q) = Talk(HELPER, b, way, q) + Talk(HELPER, l, way, q)
    <3>1. todo = b \o l
      BY <2>1 DEF b
    <3> QED
      BY <1>4, <2>1, <2>6, <3>1, TalkSplit
  <2>8. Talk(p, Later(p, cs, k), way, q) = Talk(p, todo, way, q)
    <3> HIDE DEF k, c
    <3> QED
      BY <1>4, <2>1, <2>5, <2>6, <2>7
  <2> QED
    BY <1>2, <1>5, <2>1, <2>2, <2>8 DEF len, k
<1> QED
  BY <1>3, <1>6, <1>7, <1>8, <1>9 DEF Position

HeardIn(cs, s, n, q) ==
  /\ n - 1 \in 0..Len(cs)
  /\ Talk(HELPER, Later(HELPER, cs, n - 1), "receive", q) \in Nat
  /\ Len(s["receive"][q]) \in Nat
  /\ Len(s["receive"][q]) <= Talk(HELPER, Later(HELPER, cs, n - 1), "receive", q)
  /\ q = P1 => Len(s["receive"][q]) + 1 <= Talk(HELPER, Later(HELPER, cs, n - 1), "receive", q)

(* The helper has heard P1 name the call it is in, or was in last.          *)
LEMMA HelperHeard ==
  ASSUME NEW x, NEW cs, Sound(cs), NEW s, NEW n, NEW todo, NEW e, NEW place,
         Stands(HELPER, x, cs, n, todo, e, place), Says(HELPER, x, cs, s, n, todo, e, place),
         NEW q \in Roles, n # 0
  PROVE  HeardIn(cs, s, n, q)
<1> DEFINE way == "receive"
           cur == Len(Current(HELPER, x, cs, n, place, way, q))
           L == Len(cs)
           l == Later(HELPER, cs, n)
           len == Len(s[way][q])
           c == cs[n]
           k == n - 1
           b == Body(HELPER, c)
           lt == Talk(HELPER, l, way, q)
           bt == Talk(HELPER, b, way, q)
           ht == Talk(HELPER, Hears(c), way, q)
           kt == Talk(HELPER, Later(HELPER, cs, k), way, q)
           tt == Talk(HELPER, todo, way, q)
           one == IF q = P1 THEN 1 ELSE 0
<1>0. HELPER \in Roles
  BY RolesAre
<1>1. LeftIs(HELPER, x, cs, s, n, todo, place, way, q)
  BY <1>0, LeftToSay DEF Ways2
<1>2. todo \in Program(HELPER) /\ tt \in Nat /\ cur \in Nat /\ len = cur + tt
  BY <1>1 DEF LeftIs
<1>3. n \in 0..Len(cs) /\ L \in Nat /\ Position(HELPER, x, cs, n, todo)
      /\ Counts(HELPER, x, cs, n)
  BY <1>0, WholesTyped DEF Stands
<1>4. l \in Program(HELPER) /\ lt \in Nat
  BY <1>0, <1>3, LaterTyped, TalkTyped
<1>5. n - 1 \in Nat /\ n - 1 < L /\ (n - 1) + 1 = n /\ n - 1 \in 0..L
  <2> HIDE DEF L
  <2>1. n \in 0..L
    BY <1>3 DEF L
  <2> QED
    BY <1>3, <2>1
<1>6. c \in Call /\ c \in Calls /\ c.op \in Commands
  <2>1. cs[(n - 1) + 1] \in Call /\ cs[(n - 1) + 1] \in Calls
    BY <1>0, <1>5, LaterNext
  <2> QED
    BY <1>3, <1>5, <2>1 DEF Counts
<1>7. kt = ht + bt + lt /\ ht \in Nat /\ bt \in Nat /\ b \in Program(HELPER)
  <2>1. kt = Talk(HELPER, Whole(HELPER, cs[k + 1]), way, q) + Talk(HELPER, Later(HELPER, cs, k + 1), way, q)
    <3> HIDE DEF k
    <3> QED
      BY <1>0, <1>5, TalkLater DEF k
  <2>2. kt = Talk(HELPER, Whole(HELPER, c), way, q) + lt
    BY <1>5, <2>1
  <2>3. ht \in Nat /\ bt \in Nat /\ b \in Program(HELPER) /\ Talk(HELPER, Whole(HELPER, c), way, q) = ht + bt
    <3> HIDE DEF c
    <3> QED
      BY <1>6, HelperWhole
  <2> HIDE DEF kt, ht, bt, lt, b
  <2> QED
    BY <1>4, <2>2, <2>3
<1>8. ht = IF q = P1 THEN (IF c.op \in SizedOps THEN 2 ELSE 1) ELSE 0
  <2> HIDE DEF c
  <2> QED
    BY <1>6, HearsTalk
<1>9. len + one <= kt
  <2>1. CASE x.pc = "run"
    <3>1. todo = Drop(Its(HELPER, x), x.at) \o l /\ x.call = c
      BY <1>3, <2>1 DEF Position, Counts
    <3>2. Busy(HELPER, x, place) /\ place \in Nat
      BY <2>1 DEF Stands
    <3>3. Its(HELPER, x) = b
      <4> HIDE DEF c
      <4> QED
        BY <1>0, <1>6, <3>1, TableIs DEF b
    <3> DEFINE a == Drop(Its(HELPER, x), x.at)
               ta == Talk(HELPER, a, way, q)
    <3>4. a \in Program(HELPER) /\ ta \in Nat /\ cur + ta <= bt
      <4>1. cur = Len(Rest(HELPER, Threads(HELPER, x), x.moved, way, q, place))
        BY <2>1 DEF Current
      <4> HIDE DEF cur
      <4> QED
        BY <1>0, <3>2, <3>3, <4>1, RunLeft
    <3> HIDE DEF a, l
    <3>5. tt = ta + lt
      BY <1>0, <1>4, <3>1, <3>4, TalkSplit DEF a
    <3>6. one <= ht
      BY <1>8
    <3>7. one \in Nat
      OBVIOUS
    <3> HIDE DEF tt, ta, lt, bt, ht, kt, cur, len, one
    <3> QED
      BY <1>2, <1>4, <1>7, <3>4, <3>5, <3>6, <3>7
  <2>2. CASE x.pc = "command"
    <3>1. todo = l
      BY <1>3, <2>2 DEF Position
    <3>2. cur = 0
      BY <2>2 DEF Current
    <3>3. one <= ht /\ one \in Nat
      BY <1>8
    <3>4. tt = lt
      BY <3>1
    <3> HIDE DEF tt, lt, bt, ht, kt, cur, len, one
    <3> QED
      BY <1>2, <1>4, <1>7, <3>2, <3>3, <3>4
  <2>3. CASE x.pc = "exit"
    <3>1. todo = <<>>
      BY <1>3, <2>3 DEF Position
    <3>2. cur = 0
      BY <2>3 DEF Current
    <3>3. one <= ht /\ one \in Nat
      BY <1>8
    <3>4. tt = 0
      BY <3>1, TalkNone
    <3> HIDE DEF tt, lt, bt, ht, kt, cur, len, one
    <3> QED
      BY <1>2, <1>4, <1>7, <3>2, <3>3, <3>4
  <2>4. CASE x.pc = "size"
    <3>1. todo = b \o l /\ c.op \in SizedOps
      BY <1>3, <2>4 DEF Position
    <3>2. cur = one
      <4>1. q = P1 => Current(HELPER, x, cs, n, place, way, q)
                        = <<Packed([msg |-> "size", k |-> cs[n].n], P1, place)>>
        BY <2>4 DEF Current
      <4>2. q # P1 => Current(HELPER, x, cs, n, place, way, q) = <<>>
        BY <2>4 DEF Current
      <4>3. \A u : Len(<<u>>) = 1
        OBVIOUS
      <4> QED
        BY <4>1, <4>2, <4>3
    <3>3. one + one <= ht /\ one \in Nat
      BY <1>8, <3>1
    <3>4. tt = bt + lt
      <4> HIDE DEF b, l
      <4> QED
        BY <1>0, <1>4, <1>7, <3>1, TalkSplit
    <3> HIDE DEF tt, lt, bt, ht, kt, cur, len, one
    <3> QED
      BY <1>2, <1>4, <1>7, <3>2, <3>3, <3>4
  <2> QED
    BY <1>3, <2>1, <2>2, <2>3, <2>4 DEF Position
<1>10. kt \in Nat /\ len \in Nat
  <2> HIDE DEF kt, ht, bt, lt, len, cur, tt
  <2> QED
    BY <1>2, <1>4, <1>7
<1>11. len <= kt /\ (q = P1 => len + 1 <= kt)
  <2>1. q = P1 => one = 1
    OBVIOUS
  <2>2. one \in Nat
    OBVIOUS
  <2> HIDE DEF kt, len, one
  <2> QED
    BY <1>9, <1>10, <2>1, <2>2
<1> QED
  BY <1>5, <1>10, <1>11 DEF k, HeardIn

(* A call is over: all that is left are the calls after it.                 *)
LEMMA OverLeft ==
  ASSUME NEW p \in Roles, NEW x, NEW cs, Sound(cs), NEW s, NEW n, NEW todo, NEW e, NEW place,
         Stands(p, x, cs, n, todo, e, place), Says(p, x, cs, s, n, todo, e, place),
         NEW way \in Ways2, NEW q \in Roles,
         x.pc = "run", x.at = Len(Its(p, x)),
         \A i \in 1..Len(Threads(p, x)) : x.moved[i] = Len(Threads(p, x)[i].units)
  PROVE  Len(s[way][q]) = Talk(p, Later(p, cs, n), way, q)
<1> DEFINE l == Later(p, cs, n)
           tr == Threads(p, x)
           mv == x.moved
<1>1. LeftIs(p, x, cs, s, n, todo, place, way, q)
  BY LeftToSay
<1>2. Busy(p, x, place) /\ n \in 0..Len(cs) /\ Position(p, x, cs, n, todo)
  BY DEF Stands
<1>3. Current(p, x, cs, n, place, way, q) = <<>>
  <2>1. Current(p, x, cs, n, place, way, q) = Rest(p, tr, mv, way, q, place)
    BY DEF Current
  <2>2. tr \in Seq(TransferOf(p))
    BY <1>2, ThreadsTyped
  <2>3. \A i \in 1..Len(tr) : mv[i] = Len(tr[i].units)
    OBVIOUS
  <2> HIDE DEF tr, mv
  <2> QED
    BY <2>1, <2>2, <2>3, RestOver
<1>4. l \in Program(p) /\ Talk(p, l, way, q) \in Nat
  BY <1>2, LaterTyped, TalkTyped
<1>5. todo = l
  <2>1. todo = Drop(Its(p, x), x.at) \o l
    BY <1>2 DEF Position
  <2>2. Drop(Its(p, x), x.at) = <<>>
    BY <1>2, DropEnd DEF Busy, Program
  <2>3. l \in Seq(BlockOf(p))
    BY <1>4 DEF Program
  <2> HIDE DEF l
  <2>4. <<>> \o l = l
    BY <2>3, EmptyLeft
  <2> QED
    BY <2>1, <2>2, <2>4
<1>6. Len(s[way][q]) = Len(<<>>) + Talk(p, l, way, q)
  BY <1>1, <1>3, <1>5 DEF LeftIs
<1> HIDE DEF l
<1>7. Len(<<>>) = 0
  OBVIOUS
<1>8. 0 + Talk(p, l, way, q) = Talk(p, l, way, q)
  BY <1>4
<1> QED
  BY <1>6, <1>7, <1>8 DEF l

-----------------------------------------------------------------------------
(* How far the others are. *)

(* p has begun n calls (the helper: taken up the n-th).                     *)
Begun(p, x, cs, s, n) ==
  \E todo, e, place : Stands(p, x, cs, n, todo, e, place) /\ Says(p, x, cs, s, n, todo, e, place)
Over(p, x) ==
  /\ x.pc = "run" /\ x.at = Len(Its(p, x))
  /\ \A i \in 1..Len(Threads(p, x)) : x.moved[i] = Len(Threads(p, x)[i].units)

LEMMA BegunTyped ==
  ASSUME NEW p \in Roles, NEW x, NEW cs, Sound(cs), NEW s, NEW n, Begun(p, x, cs, s, n)
  PROVE  /\ Len(cs) \in Nat \ {0} /\ n \in 0..Len(cs) /\ n \in Nat /\ n <= Len(cs)
         /\ Reach(x, n) \in 0..Len(cs) /\ Reach(x, n) \in Nat /\ Reach(x, n) <= Len(cs)
         /\ x.pc # "size" => Reach(x, n) = n
         /\ p # HELPER => Reach(x, n) = n /\ n = x.begun
         /\ x.pc = "run" => n # 0 /\ x.call = cs[n]
         /\ n # 0 => cs[n] \in Call /\ cs[n] \in Calls
<1> DEFINE L == Len(cs)
           r == Reach(x, n)
<1>1. PICK todo, e, place :
        Stands(p, x, cs, n, todo, e, place) /\ Says(p, x, cs, s, n, todo, e, place)
  BY DEF Begun
<1>2. /\ n \in 0..Len(cs) /\ Position(p, x, cs, n, todo) /\ Counts(p, x, cs, n)
      /\ p # HELPER => n = x.begun
  BY <1>1 DEF Stands
<1>3. x.pc = "run" => n # 0 /\ x.call = cs[n]
  BY <1>2 DEF Counts
<1>4. p # HELPER => x.pc # "size"
  BY <1>2 DEF Position
<1>5. Reach(x, n) \in 0..Len(cs)
  <2>1. P1 \in Roles
    BY DEF Roles
  <2> QED
    BY <1>1, <2>1, StillSays
<1>6. L \in Nat /\ L # 0
  BY WholesTyped DEF Sound
<1>7. x.pc # "size" => r = n
  BY DEF Reach
<1>8. n \in 0..L /\ r \in 0..L
  BY <1>2, <1>5
<1>9. n # 0 => cs[n] \in Call /\ cs[n] \in Calls
  <2> SUFFICES ASSUME n # 0
               PROVE  cs[n] \in Call /\ cs[n] \in Calls
    OBVIOUS
  <2> HIDE DEF L
  <2>1. n \in 1..L
    BY <1>6, <1>8
  <2>2. n \in 1..Len(cs)
    BY <2>1 DEF L
  <2> QED
    BY <2>2 DEF Sound
<1> HIDE DEF L, r
<1>10. n \in Nat /\ n <= L /\ r \in Nat /\ r <= L /\ L \in Nat \ {0}
  BY <1>6, <1>8
<1> QED
  BY <1>2, <1>3, <1>4, <1>5, <1>7, <1>9, <1>10 DEF L, r

LEMMA LinkedLess ==
  ASSUME NEW h, NEW cs, NEW c, NEW s, Linked(h, cs, c, s), Wired(c),
         NEW p \in Roles, NEW q \in Roles
  PROVE  Len(s[p]["send"][q]) <= Len(s[q]["receive"][p])
<1>1. s[p] \in [Ways2 -> [Roles -> Seq(Packet)]]
  BY LinkedSay
<1>2. "send" \in Ways2
  BY DEF Ways2
<1> DEFINE a == c[p][q]
           b == s[p]["send"][q]
<1>3. a \in Seq(Packet)
  BY DEF Wired
<1>4. b \in Seq(Packet)
  BY <1>1, <1>2
<1>5. a \o b = s[q]["receive"][p]
  BY DEF Linked
<1> HIDE DEF a, b
<1>6. Len(a \o b) = Len(a) + Len(b) /\ Len(a) \in Nat /\ Len(b) \in Nat
  BY <1>3, <1>4, ConcatProperties
<1>7. Len(b) <= Len(a \o b)
  BY <1>6
<1> QED
  BY <1>5, <1>7 DEF b

LEMMA LaterTalks ==
  ASSUME NEW cs, Sound(cs), NEW k \in 0..Len(cs), NEW p \in Roles, NEW q \in Roles
  PROVE  /\ Talk(p, Later(p, cs, k), "send", q) = Talk(q, Later(q, cs, k), "receive", p)
         /\ Talk(p, Later(p, cs, k), "send", q) \in Nat
<1> DEFINE f == [r \in Roles |-> Later(r, cs, k)]
<1>1. \A r \in Roles : f[r] = Later(r, cs, k)
  OBVIOUS
<1> HIDE DEF f
<1>2. Match(f)
  BY <1>1, LaterMatch
<1>3. Talk(p, f[p], "send", q) = Talk(q, f[q], "receive", p)
  BY <1>2, TalkMatch
<1>4. Talk(p, Later(p, cs, k), "send", q) \in Nat
  BY LaterTyped, TalkTyped
<1> QED
  BY <1>1, <1>3, <1>4

(* If q says something to p in its call, p ends the call only when q is in  *)
(* it, or past it.                                                          *)
LEMMA Passed ==
  ASSUME NEW h, NEW cs, Sound(cs), NEW c, NEW s, Linked(h, cs, c, s), Wired(c),
         NEW p \in Roles, NEW q \in Roles,
         NEW k, Begun(p, h[p], cs, s[p], k), Over(p, h[p]),
         NEW m, Begun(q, h[q], cs, s[q], m),
         Talk(q, Whole(q, cs[k]), "send", p) >= 1
  PROVE  k <= Reach(h[q], m)
<1> DEFINE r == Reach(h[q], m)
           L == Len(cs)
<1>1. L \in Nat \ {0} /\ k \in 0..Len(cs) /\ k \in Nat /\ k <= L /\ k # 0
      /\ r \in 0..Len(cs) /\ r \in Nat /\ r <= L
  <2>1. r \in 0..Len(cs) /\ r \in Nat /\ r <= L
    BY BegunTyped
  <2>2. Begun(p, h[p], cs, s[p], k) /\ h[p].pc = "run"
    BY DEF Over
  <2>3. L \in Nat \ {0} /\ k \in 0..Len(cs) /\ k \in Nat /\ k <= L /\ k # 0
    BY <2>2, BegunTyped
  <2> QED
    BY <2>1, <2>3
<1> SUFFICES ASSUME r < k
             PROVE  FALSE
  <2> HIDE DEF r
  <2> QED
    BY <1>1 DEF r
<1>2. LaterLess(q, cs, "send", p, r, k)
  <2> HIDE DEF r
  <2>1. r \in 0..k
    BY <1>1
  <2> QED
    BY <1>1, <2>1, LaterIsLess
<1> DEFINE w == Talk(q, Whole(q, cs[k]), "send", p)
           lk == Talk(q, Later(q, cs, k), "send", p)
           lr == Talk(q, Later(q, cs, r), "send", p)
           sent == Len(s[q]["send"][p])
           heard == Len(s[p]["receive"][q])
<1>3. w \in Nat /\ lk \in Nat /\ lr \in Nat /\ w + lk <= lr
  BY <1>2 DEF LaterLess
<1>4. lr <= sent /\ sent \in Nat
  <2>1. PICK todo, e, place :
          Stands(q, h[q], cs, m, todo, e, place) /\ Says(q, h[q], cs, s[q], m, todo, e, place)
    BY DEF Begun
  <2> QED
    BY <2>1, StillSays
<1>5. sent <= heard
  BY LinkedLess
<1>6. heard = lk
  <2>1. PICK todo, e, place :
          Stands(p, h[p], cs, k, todo, e, place) /\ Says(p, h[p], cs, s[p], k, todo, e, place)
    BY DEF Begun
  <2>2. heard = Talk(p, Later(p, cs, k), "receive", q)
    BY <2>1, OverLeft DEF Over, Ways2
  <2> QED
    BY <1>1, <2>2, LaterTalks
<1>7. w >= 1
  OBVIOUS
<1> HIDE DEF w, lk, lr, sent, heard
<1> QED
  BY <1>3, <1>4, <1>5, <1>6, <1>7

(* The helper is in no call that P1 has not named.                          *)
LEMMA HelperBehind ==
  ASSUME NEW h, NEW cs, Sound(cs), NEW c, NEW s, Linked(h, cs, c, s), Wired(c),
         NEW n, Begun(HELPER, h[HELPER], cs, s[HELPER], n),
         NEW m, Begun(P1, h[P1], cs, s[P1], m)
  PROVE  n <= m
<1>0. HELPER \in Roles /\ P1 \in Roles /\ P1 # HELPER
  BY DEF Roles, P1, HELPER
<1> DEFINE k == n - 1
<1>1. n \in Nat /\ n \in 0..Len(cs) /\ m \in Nat /\ m \in 0..Len(cs) /\ Reach(h[P1], m) = m
  <2>1. n \in Nat /\ n \in 0..Len(cs)
    BY <1>0, BegunTyped
  <2>2. m \in Nat /\ m \in 0..Len(cs) /\ Reach(h[P1], m) = m
    BY <1>0, BegunTyped
  <2> QED
    BY <2>1, <2>2
<1> SUFFICES ASSUME m < n
             PROVE  FALSE
  BY <1>1
<1>2. k \in Nat /\ m \in 0..k /\ n # 0
  BY <1>1
<1>3. PICK todo, e, place :
        /\ Stands(HELPER, h[HELPER], cs, n, todo, e, place)
        /\ Says(HELPER, h[HELPER], cs, s[HELPER], n, todo, e, place)
  BY DEF Begun
<1> DEFINE lk == Talk(HELPER, Later(HELPER, cs, k), "receive", P1)
           heard == Len(s[HELPER]["receive"][P1])
           sent == Len(s[P1]["send"][HELPER])
           lm == Talk(P1, Later(P1, cs, m), "send", HELPER)
           pk == Talk(P1, Later(P1, cs, k), "send", HELPER)
<1>4. k \in 0..Len(cs) /\ lk \in Nat /\ heard \in Nat /\ heard + 1 <= lk
  <2>1. HeardIn(cs, s[HELPER], n, P1)
    BY <1>0, <1>2, <1>3, HelperHeard
  <2> QED
    BY <2>1 DEF HeardIn
<1>5. pk = lk
  <2> HIDE DEF k
  <2> QED
    BY <1>0, <1>4, LaterTalks
<1>6. lm \in Nat /\ pk \in Nat /\ pk <= lm
  <2>1. LaterLess(P1, cs, "send", HELPER, m, k)
    <3> HIDE DEF k
    <3> QED
      BY <1>0, <1>2, <1>4, LaterIsLess
  <2> QED
    BY <2>1 DEF LaterLess
<1>7. lm <= sent /\ sent \in Nat
  <2>1. PICK todo1, e1, place1 :
          /\ Stands(P1, h[P1], cs, m, todo1, e1, place1)
          /\ Says(P1, h[P1], cs, s[P1], m, todo1, e1, place1)
    BY DEF Begun
  <2> QED
    BY <1>0, <1>1, <2>1, StillSays
<1>8. sent <= heard
  BY <1>0, LinkedLess
<1> HIDE DEF lk, heard, sent, lm, pk
<1> QED
  BY <1>4, <1>5, <1>6, <1>7, <1>8

-----------------------------------------------------------------------------
(* Who must speak. *)

(* The j-th transfer of the i-th block says something to q, or hears it.    *)
Speaks(code, i, j, way, q) ==
  /\ i \in 1..Len(code) /\ j \in 1..Len(code[i].transfers)
  /\ code[i].transfers[j].dir = way /\ code[i].transfers[j].peer = q
  /\ Len(code[i].transfers[j].units) >= 1

LEMMA TalkBlock ==
  ASSUME NEW p \in Roles, NEW code \in Program(p), NEW way, NEW q \in Roles,
         NEW i, NEW j, Speaks(code, i, j, way, q)
  PROVE  Talk(p, code, way, q) >= 1
<1> DEFINE b == code[i]
           tr == b.transfers
           u == tr[j].units
           from == Sender(p, way, q)
<1>1. i \in 1..Len(code) /\ j \in 1..Len(tr) /\ tr[j].dir = way /\ tr[j].peer = q
      /\ Len(u) >= 1
  BY DEF Speaks
<1>2. b \in BlockOf(p)
  <2> HIDE DEF b
  <2> QED
    BY <1>1 DEF Program, b
<1>3. tr \in Seq(TransferOf(p)) /\ Spread(p, tr)
  <2> HIDE DEF b
  <2> QED
    BY <1>2, BlockTyped DEF Spread
<1>4. OnlyWay(tr, j)
  <2> HIDE DEF tr
  <2> QED
    BY <1>1, <1>3, OneWay
<1>5. u \in Seq(Unit)
  <2> HIDE DEF tr
  <2>1. tr[j] \in TransferOf(p)
    BY <1>1, <1>3
  <2> QED
    BY <2>1 DEF TransferOf
<1>6. Said(p, b, way, q, 0) = Units(u, 0, from, 0)
  <2>1. Ways(tr, way, q) = {j}
    <3> HIDE DEF tr
    <3> QED
      BY <1>1, <1>4 DEF OnlyWay
  <2>2. Unmoved(tr)[j] = 0
    <3> HIDE DEF tr
    <3> QED
      BY <1>1 DEF Unmoved
  <2>3. RestIs(p, tr, Unmoved(tr), way, q, 0, j)
    BY RestOneIs
  <2> HIDE DEF tr
  <2> QED
    BY <2>1, <2>2, <2>3 DEF RestIs, Said, tr
<1>7. Len(Units(u, 0, from, 0)) = Len(u)
  <2> HIDE DEF u, from
  <2>1. 0 \in 0..Len(u)
    BY <1>5
  <2>2. Len(Units(u, 0, from, 0)) = Len(u) - 0
    BY <1>5, <2>1, UnitsLength
  <2> QED
    BY <1>5, <2>2
<1>8. Len(Said(p, b, way, q, 0)) = Talk(p, <<b>>, way, q)
  <2> HIDE DEF b
  <2> QED
    BY <1>2, TalkOne
<1>9. Talk(p, <<b>>, way, q) >= 1
  BY <1>1, <1>6, <1>7, <1>8
<1>10. /\ Drop(code, i) \in Program(p) /\ i # 0
       /\ Talk(p, <<b>>, way, q) + Talk(p, Drop(code, i), way, q) <= Talk(p, code, way, q)
  <2>1. i \in 0..Len(code) /\ i # 0
    BY <1>1
  <2>2. TalkFrom(p, code, way, q, i)
    BY <2>1, TalkAfter
  <2> QED
    BY <2>1, <2>2 DEF TalkFrom
<1>11. Talk(p, Drop(code, i), way, q) \in Nat /\ Talk(p, code, way, q) \in Nat
  BY <1>10, TalkTyped
<1>12. Talk(p, <<b>>, way, q) \in Nat
  <2>1. <<b>> \in Program(p)
    <3> HIDE DEF b
    <3> QED
      BY <1>2 DEF Program
  <2> QED
    BY <2>1, TalkTyped
<1> HIDE DEF b
<1> QED
  BY <1>9, <1>10, <1>11, <1>12

LEMMA FieldsLength ==
  ASSUME NEW msg, NEW n \in Nat
  PROVE  Len(Fields(msg, n)) = n
BY DEF Fields

(* p says something to q. *)
Talks(f, p, q) == Talk(p, f[p], "send", q) >= 1
(* The helper to both proxies; everybody but P1 to everybody. *)
Tells(f) == Talks(f, HELPER, P1) /\ Talks(f, HELPER, P2)
Loud(f) == Tells(f) /\ Talks(f, P2, HELPER) /\ Talks(f, P2, P1)

LEMMA TalksEither ==
  ASSUME NEW f, NEW g, NEW h, Match(f), Match(g),
         \A p \in Roles : h[p] = f[p] \o g[p], NEW p \in Roles, NEW q \in Roles,
         Talks(f, p, q) \/ Talks(g, p, q)
  PROVE  Talks(h, p, q)
<1> DEFINE a == f[p]
           b == g[p]
<1>1. a \in Program(p) /\ b \in Program(p) /\ h[p] = a \o b
  BY DEF Match
<1> HIDE DEF a, b
<1>2. /\ Talk(p, a, "send", q) \in Nat /\ Talk(p, b, "send", q) \in Nat
      /\ Talk(p, a \o b, "send", q) = Talk(p, a, "send", q) + Talk(p, b, "send", q)
  BY <1>1, TalkSplit
<1>3. Talk(p, a, "send", q) >= 1 \/ Talk(p, b, "send", q) >= 1
  BY DEF Talks, a, b
<1> QED
  BY <1>1, <1>2, <1>3 DEF Talks

LEMMA LoudEither ==
  ASSUME NEW f, NEW g, NEW h, Match(f), Match(g),
         \A p \in Roles : h[p] = f[p] \o g[p], Loud(f) \/ Loud(g)
  PROVE  Match(h) /\ Loud(h)
<1>1. Match(h)
  BY MatchConcat
<1>2. P1 \in Roles /\ P2 \in Roles /\ HELPER \in Roles
  BY DEF Roles
<1>3. ASSUME NEW p \in Roles, NEW q \in Roles, Talks(f, p, q) \/ Talks(g, p, q)
      PROVE  Talks(h, p, q)
  BY <1>3, TalksEither
<1> QED
  BY <1>1, <1>2, <1>3 DEF Loud, Tells

(* A sequence of programs of which the first is loud.                       *)
LEMMA LoudFlatten ==
  ASSUME NEW n \in Nat \ {0}, NEW f, \A c \in 1..n : Match(f[c]), Loud(f[1]),
         NEW h, \A p \in Roles : h[p] = FlattenSeq([c \in 1..n |-> f[c][p]])
  PROVE  Match(h) /\ Loud(h)
<1> DEFINE g(p) == [c \in 1..n |-> f[c][p]]
           r == [p \in Roles |-> FlattenSeq([c \in 1..(n - 1) |-> f[c + 1][p]])]
           k == [c \in 1..(n - 1) |-> f[c + 1]]
<1>1. Match(r)
  <2>1. n - 1 \in Nat
    OBVIOUS
  <2>2. \A c \in 1..(n - 1) : Match(k[c])
    OBVIOUS
  <2>3. \A p \in Roles : r[p] = FlattenSeq([c \in 1..(n - 1) |-> k[c][p]])
    <3>1. \A p \in Roles : [c \in 1..(n - 1) |-> k[c][p]] = [c \in 1..(n - 1) |-> f[c + 1][p]]
      OBVIOUS
    <3> QED
      BY <3>1
  <2> HIDE DEF r, k
  <2> QED
    BY <2>1, <2>2, <2>3, MatchFlatten
<1>2. Match(f[1])
  OBVIOUS
<1>3. ASSUME NEW p \in Roles
      PROVE  h[p] = f[1][p] \o r[p]
  <2> DEFINE s == g(p)
             t == [c \in 1..(n - 1) |-> f[c + 1][p]]
             a == f[1][p]
  <2>1. \A c \in 1..n : f[c][p] \in Program(p)
    BY DEF Match
  <2>2. s \in Seq(Program(p)) /\ Len(s) = n
    <3>1. s \in [1..n -> Program(p)]
      BY <2>1
    <3> QED
      BY <3>1
  <2>3. t \in Seq(Program(p)) /\ Len(t) = n - 1
    <3>1. t \in [1..(n - 1) -> Program(p)]
      BY <2>1
    <3> QED
      BY <3>1
  <2>4. a \in Program(p)
    BY <2>1
  <2>5. s = <<a>> \o t
    <3>1. Len(<<a>> \o t) = n
      BY <2>3, <2>4
    <3>2. \A i \in 1..n : (<<a>> \o t)[i] = s[i]
      BY <2>3, <2>4
    <3>3. <<a>> \o t \in Seq(Program(p))
      BY <2>3, <2>4
    <3> HIDE DEF s, t, a
    <3> QED
      BY <2>2, <3>1, <3>2, <3>3
  <2>6. FlattenSeq(s) = FlattenSeq(<<a>>) \o FlattenSeq(t)
    <3>1. <<a>> \in Seq(Seq(BlockOf(p))) /\ t \in Seq(Seq(BlockOf(p)))
      BY <2>3, <2>4 DEF Program
    <3> HIDE DEF s, t, a
    <3> QED
      BY <2>5, <3>1, FlattenConcat
  <2>7. FlattenSeq(<<a>>) = a
    <3> HIDE DEF a
    <3> QED
      BY <2>4, FlattenOne DEF Program
  <2> QED
    BY <2>6, <2>7
<1> HIDE DEF r
<1> QED
  BY <1>1, <1>2, <1>3, LoudEither

LEMMA AsksTalk ==
  ASSUME NEW h, NEW n, NEW units, NEW answer, NEW b, Asks(h, n, units, answer, b),
         Len(units) >= 1, Len(answer) >= 1
  PROVE  Match(h) /\ Tells(h) /\ Talks(h, P2, HELPER)
<1>1. Match(h)
  BY MatchAsks
<1>2. P1 \in Roles /\ P2 \in Roles /\ HELPER \in Roles /\ P2 \in Proxies
  BY DEF Roles, Proxies
<1>3. /\ h[HELPER] = <<FromBoth(units), ToBoth(answer)>>
      /\ h[P2] = <<Block(n, <<Send(HELPER, units, 1)>>), Alone(Receive(HELPER, answer, b))>>
  BY <1>2 DEF Asks
<1>4. h[HELPER] \in Program(HELPER) /\ h[P2] \in Program(P2)
  BY <1>1, <1>2 DEF Match
<1>5. Speaks(h[HELPER], 2, 1, "send", P1) /\ Speaks(h[HELPER], 2, 2, "send", P2)
  BY <1>3 DEF Speaks, ToBoth, Block, Send
<1>6. Speaks(h[P2], 1, 1, "send", HELPER)
  BY <1>3 DEF Speaks, Block, Send
<1>7. Talk(HELPER, h[HELPER], "send", P1) >= 1
  BY <1>2, <1>4, <1>5, TalkBlock
<1>8. Talk(HELPER, h[HELPER], "send", P2) >= 1
  BY <1>2, <1>4, <1>5, TalkBlock
<1>9. Talk(P2, h[P2], "send", HELPER) >= 1
  BY <1>2, <1>4, <1>6, TalkBlock
<1> QED
  BY <1>1, <1>7, <1>8, <1>9 DEF Tells, Talks

LEMMA AsksEachTalk ==
  ASSUME NEW h, NEW n, NEW units, NEW answer, AsksEach(h, n, units, answer),
         Len(units) >= 1, Len(answer) >= 1
  PROVE  Match(h) /\ Tells(h) /\ Talks(h, P2, HELPER)
<1>1. Match(h)
  BY MatchAsksEach
<1>2. P1 \in Roles /\ P2 \in Roles /\ HELPER \in Roles /\ P2 \in Proxies
  BY DEF Roles, Proxies
<1>3. /\ h[HELPER] = <<Alone(Receive(P1, units, 1)), Alone(Receive(P2, units, 2)),
                       Alone(Send(P1, answer, 1)), Alone(Send(P2, answer, 2))>>
      /\ h[P2] = <<Block(n, <<Send(HELPER, units, 1)>>), Alone(Receive(HELPER, answer, 1))>>
  BY <1>2 DEF AsksEach
<1>4. h[HELPER] \in Program(HELPER) /\ h[P2] \in Program(P2)
  BY <1>1, <1>2 DEF Match
<1>5. Speaks(h[HELPER], 3, 1, "send", P1) /\ Speaks(h[HELPER], 4, 1, "send", P2)
  BY <1>3 DEF Speaks, Alone, Block, Send
<1>6. Speaks(h[P2], 1, 1, "send", HELPER)
  BY <1>3 DEF Speaks, Block, Send
<1>7. Talk(HELPER, h[HELPER], "send", P1) >= 1
  BY <1>2, <1>4, <1>5, TalkBlock
<1>8. Talk(HELPER, h[HELPER], "send", P2) >= 1
  BY <1>2, <1>4, <1>5, TalkBlock
<1>9. Talk(P2, h[P2], "send", HELPER) >= 1
  BY <1>2, <1>4, <1>6, TalkBlock
<1> QED
  BY <1>1, <1>7, <1>8, <1>9 DEF Tells, Talks

LEMMA OpensTalk ==
  ASSUME NEW h, NEW m, NEW n, NEW units, NEW rest, Opens(h, m, n, units, rest),
         Len(units) >= 1, n >= 1, Talks(rest, P2, HELPER)
  PROVE  Match(h) /\ Loud(h)
<1> DEFINE one == Block(m, <<Receive(HELPER, units, 1)>>)
           two == Block(0, <<Send(P1, Fields("rec", n), 1), Receive(P1, Fields("rec", n), 2)>>)
           r == rest[P2]
           c == h[P2]
           d == h[HELPER]
           s == rest[HELPER]
           to == ToBoth(units)
<1>1. Match(h)
  BY MatchOpened
<1>2. P1 \in Roles /\ P2 \in Roles /\ HELPER \in Roles /\ P2 \in Proxies /\ P2 # HELPER
      /\ Other(P2) = P1
  BY DEF Roles, Proxies, Other, P1, P2, HELPER
<1>3. n \in Nat /\ Match(rest) /\ d = <<to>> \o s /\ c = <<one>> \o REC(P2, n) \o r
  BY <1>2 DEF Opens
<1>4. REC(P2, n) = <<two>>
  BY <1>2 DEF REC
<1>5. c \in Program(P2) /\ d \in Program(HELPER) /\ r \in Program(P2) /\ s \in Program(HELPER)
  BY <1>1, <1>2, <1>3 DEF Match
<1>6. d = <<to>> \o s /\ c = <<one>> \o <<two>> \o r
  BY <1>3, <1>4
<1>7. d[1] = to /\ Len(d) \in Nat /\ Len(d) >= 1
  <2> HIDE DEF to, s, d
  <2> QED
    BY <1>5, <1>6 DEF Program
<1>8. <<one>> \o <<two>> = <<one, two>>
  <2> HIDE DEF one, two
  <2> QED
    BY TwoConcat
<1> DEFINE p == <<one, two>>
<1>9. c = p \o r
  BY <1>6, <1>8
<1>10. c[1] = one /\ c[2] = two /\ Len(c) \in Nat /\ Len(c) >= 2
  <2> HIDE DEF one, two, c, r
  <2> QED
    BY <1>5, <1>9 DEF Program
<1>11. p \in Program(P2)
  <2>1. one \in BlockOf(P2) /\ two \in BlockOf(P2)
    <3> HIDE DEF one, two, c
    <3> QED
      BY <1>5, <1>10 DEF Program
  <2> HIDE DEF one, two
  <2> QED
    BY <2>1 DEF Program
<1>12. Talks(h, P2, HELPER)
  <2>1. Talk(P2, r, "send", HELPER) >= 1
    BY DEF Talks
  <2> HIDE DEF p, r, c
  <2>2. /\ Talk(P2, p, "send", HELPER) \in Nat /\ Talk(P2, r, "send", HELPER) \in Nat
        /\ Talk(P2, p \o r, "send", HELPER)
             = Talk(P2, p, "send", HELPER) + Talk(P2, r, "send", HELPER)
    BY <1>2, <1>5, <1>11, TalkSplit
  <2>3. Talk(P2, c, "send", HELPER) >= 1
    BY <1>9, <2>1, <2>2
  <2> QED
    BY <2>3 DEF Talks, c
<1>13. Talks(h, P2, P1)
  <2>1. Len(Fields("rec", n)) = n
    BY <1>3, FieldsLength
  <2>2. two.transfers = <<Send(P1, Fields("rec", n), 1), Receive(P1, Fields("rec", n), 2)>>
    BY DEF Block
  <2>3. 1 \in 1..Len(two.transfers) /\ two.transfers[1] = Send(P1, Fields("rec", n), 1)
    BY <2>2
  <2> HIDE DEF two, c
  <2>4. 2 \in 1..Len(c)
    BY <1>10
  <2> DEFINE t == two.transfers
             u == Fields("rec", n)
  <2>5. t[1].dir = "send" /\ t[1].peer = P1 /\ t[1].units = u /\ 1 \in 1..Len(t)
    BY <2>3 DEF Send
  <2>6. Len(u) >= 1 /\ c[2].transfers = t
    BY <1>3, <1>10, <2>1
  <2> HIDE DEF t, u
  <2>7. Speaks(c, 2, 1, "send", P1)
    BY <2>4, <2>5, <2>6 DEF Speaks
  <2>8. Talk(P2, c, "send", P1) >= 1
    BY <1>2, <1>5, <2>7, TalkBlock
  <2> QED
    BY <2>8 DEF Talks, c
<1>14. Tells(h)
  <2>1. to.transfers = <<Send(P1, units, 1), Send(P2, units, 2)>>
    BY DEF Block, ToBoth
  <2>2. /\ 1 \in 1..Len(to.transfers) /\ to.transfers[1] = Send(P1, units, 1)
        /\ 2 \in 1..Len(to.transfers) /\ to.transfers[2] = Send(P2, units, 2)
    BY <2>1
  <2> HIDE DEF to, d
  <2>3. 1 \in 1..Len(d)
    BY <1>7
  <2>4. Speaks(d, 1, 1, "send", P1) /\ Speaks(d, 1, 2, "send", P2)
    BY <1>7, <2>2, <2>3 DEF Speaks, Send
  <2>5. Talk(HELPER, d, "send", P1) >= 1
    BY <1>2, <1>5, <2>4, TalkBlock
  <2>6. Talk(HELPER, d, "send", P2) >= 1
    BY <1>2, <1>5, <2>4, TalkBlock
  <2> QED
    BY <2>5, <2>6 DEF Tells, Talks, d
<1> QED
  BY <1>1, <1>12, <1>13, <1>14 DEF Loud

LEMMA LoudMSB ==
  ASSUME NEW n \in Nat \ {0}, NEW h, \A p \in Roles : h[p] = MSB(p, n)
  PROVE  Match(h) /\ Loud(h)
<1> DEFINE mask == Fields("mask", n * (1 + BITS))
           masked == Fields("masked", n * (BITS + 2))
           answer == Fields("msb", n * 2)
           first == <<Block(1, <<Send(HELPER, masked, 1)>>), Alone(Receive(HELPER, answer, 2))>>
           rest == [p \in Roles |-> IF p = HELPER THEN <<FromBoth(masked), ToBoth(answer)>>
                                    ELSE first]
<1>0. /\ n * (1 + BITS) \in Nat /\ n * (BITS + 2) \in Nat /\ n * 2 \in Nat
      /\ n * (1 + BITS) >= 1 /\ n * (BITS + 2) >= 1 /\ n * 2 >= 1
  <2>1. ASSUME NEW k \in Nat \ {0}
        PROVE  n * k \in Nat /\ n * k >= 1
    OBVIOUS
  <2>2. 1 + BITS \in Nat \ {0} /\ BITS + 2 \in Nat \ {0} /\ 2 \in Nat \ {0}
    BY BITSAssumption
  <2> QED
    BY <2>1, <2>2
<1>1. /\ mask \in Seq(Unit) /\ masked \in Seq(Unit) /\ answer \in Seq(Unit)
      /\ Len(mask) >= 1 /\ Len(masked) >= 1 /\ Len(answer) >= 1
  <2>1. "mask" \in Messages /\ "masked" \in Messages /\ "msb" \in Messages
    BY DEF Messages
  <2>2. mask \in Seq(Unit) /\ Len(mask) >= 1
    BY <1>0, <2>1, FieldsTyped, FieldsLength
  <2>3. masked \in Seq(Unit) /\ Len(masked) >= 1
    BY <1>0, <2>1, FieldsTyped, FieldsLength
  <2>4. answer \in Seq(Unit) /\ Len(answer) >= 1
    BY <1>0, <2>1, FieldsTyped, FieldsLength
  <2> QED
    BY <2>2, <2>3, <2>4
<1>2. h[HELPER] = <<ToBoth(mask), FromBoth(masked), ToBoth(answer)>>
  BY RolesAre DEF MSB
<1>3. \A p \in Proxies : h[p] = <<Block(1, <<Receive(HELPER, mask, 1)>>)>> \o REC(p, n) \o first
  BY RolesAre DEF MSB
<1>4. rest[HELPER] = <<FromBoth(masked), ToBoth(answer)>> /\ \A p \in Proxies : rest[p] = first
  BY RolesAre
<1> HIDE DEF mask, masked, answer, rest
<1>5. Asks(rest, 1, masked, answer, 2)
  BY <1>1, <1>4 DEF Asks
<1>6. Match(rest) /\ Talks(rest, P2, HELPER)
  BY <1>1, <1>5, AsksTalk
<1>8. h[HELPER] = <<ToBoth(mask)>> \o rest[HELPER]
  <2> DEFINE b1 == ToBoth(mask)
             b2 == FromBoth(masked)
             b3 == ToBoth(answer)
  <2>1. h[HELPER] = <<b1, b2, b3>> /\ rest[HELPER] = <<b2, b3>>
    BY <1>2, <1>4
  <2> HIDE DEF b1, b2, b3
  <2>2. <<b1, b2, b3>> = <<b1>> \o <<b2, b3>>
    BY ThreeConcat, Zenon
  <2>3. h[HELPER] = <<b1>> \o rest[HELPER]
    BY <2>1, <2>2
  <2> QED
    BY <2>3 DEF b1
<1>9. \A p \in Proxies :
         h[p] = <<Block(1, <<Receive(HELPER, mask, 1)>>)>> \o REC(p, n) \o rest[p]
  BY <1>3, <1>4
<1>10. Opens(h, 1, n, mask, rest)
  BY <1>1, <1>6, <1>8, <1>9 DEF Opens
<1> QED
  BY <1>1, <1>6, <1>10, OpensTalk

LEMMA LoudMOC ==
  ASSUME NEW n \in Nat \ {0}, NEW h, \A p \in Roles : h[p] = MOC(p, n)
  PROVE  Match(h) /\ Loud(h)
<1> DEFINE wrap == Fields("wrap", n * (1 + BITS + 1))
           units == Fields("compare", n * BITS)
           answer == Fields("compared", n)
           rest == [p \in Roles |-> PCB(p, n)]
<1>0. /\ n * (1 + BITS + 1) \in Nat /\ n * BITS \in Nat /\ n * BITS * 3 \in Nat
      /\ n * (1 + BITS + 1) >= 1 /\ n * BITS >= 1
  <2>1. ASSUME NEW k \in Nat \ {0}
        PROVE  n * k \in Nat /\ n * k >= 1
    OBVIOUS
  <2>2. 1 + BITS + 1 \in Nat \ {0} /\ BITS \in Nat \ {0}
    BY BITSAssumption
  <2>3. n * (1 + BITS + 1) \in Nat /\ n * (1 + BITS + 1) >= 1
    BY <2>1, <2>2
  <2>4. n * BITS \in Nat /\ n * BITS >= 1
    BY <2>1, <2>2
  <2> QED
    BY <2>3, <2>4
<1>1. /\ wrap \in Seq(Unit) /\ units \in Seq(Unit) /\ answer \in Seq(Unit)
      /\ Len(wrap) >= 1 /\ Len(units) >= 1 /\ Len(answer) >= 1
  <2>1. "wrap" \in Messages /\ "compare" \in Messages /\ "compared" \in Messages
    BY DEF Messages
  <2>2. wrap \in Seq(Unit) /\ Len(wrap) >= 1
    BY <1>0, <2>1, FieldsTyped, FieldsLength
  <2>3. units \in Seq(Unit) /\ Len(units) >= 1
    BY <1>0, <2>1, FieldsTyped, FieldsLength
  <2>4. answer \in Seq(Unit) /\ Len(answer) >= 1
    BY <1>0, <2>1, FieldsTyped, FieldsLength
  <2> QED
    BY <2>2, <2>3, <2>4
<1>2. \A p \in Roles : rest[p] = PCB(p, n)
  OBVIOUS
<1>3. h[HELPER] = <<ToBoth(wrap)>> \o REC(HELPER, n) \o PCB(HELPER, n)
  BY RolesAre DEF MOC
<1>4. \A p \in Proxies :
         h[p] = <<Block(0, <<Receive(HELPER, wrap, 1)>>)>> \o REC(p, n) \o PCB(p, n)
  BY RolesAre DEF MOC, Alone
<1>5. AsksEach(rest, n * BITS * 3, units, answer)
  <2>1. rest[HELPER] = <<Alone(Receive(P1, units, 1)), Alone(Receive(P2, units, 2)),
                         Alone(Send(P1, answer, 1)), Alone(Send(P2, answer, 2))>>
    BY RolesAre DEF PCB
  <2>2. \A p \in Proxies : rest[p] = <<Block(n * BITS * 3, <<Send(HELPER, units, 1)>>),
                                       Alone(Receive(HELPER, answer, 1))>>
    BY RolesAre DEF PCB
  <2> HIDE DEF units, answer, rest
  <2> QED
    BY <1>0, <1>1, <2>1, <2>2 DEF AsksEach
<1> HIDE DEF wrap, units, answer, rest
<1>6. Match(rest) /\ Talks(rest, P2, HELPER)
  BY <1>1, <1>5, AsksEachTalk
<1>7. h[HELPER] = <<ToBoth(wrap)>> \o rest[HELPER]
  <2> DEFINE s == <<ToBoth(wrap)>>
  <2>1. s \in Seq({ToBoth(wrap)})
    OBVIOUS
  <2>2. s \o <<>> = s
    <3> HIDE DEF s
    <3> QED
      BY <2>1
  <2>3. REC(HELPER, n) = <<>>
    BY DEF REC
  <2> QED
    BY <1>2, <1>3, <2>2, <2>3, RolesAre
<1>8. \A p \in Proxies :
         h[p] = <<Block(0, <<Receive(HELPER, wrap, 1)>>)>> \o REC(p, n) \o rest[p]
  BY <1>2, <1>4, RolesAre
<1>9. Opens(h, 0, n, wrap, rest)
  BY <1>1, <1>6, <1>7, <1>8 DEF Opens
<1> QED
  BY <1>1, <1>6, <1>9, OpensTalk

LEMMA LoudMSB1 ==
  ASSUME NEW h, \A p \in Roles : h[p] = MSB1(p)
  PROVE  Match(h) /\ Loud(h)
<1> DEFINE masked == Fields("masked", 2)
           answer == Fields("msb", 2)
           first == [p \in Roles |-> MOC(p, 1)]
           rest == [p \in Roles |->
                      IF p = HELPER THEN <<FromBoth(masked), ToBoth(answer)>>
                      ELSE <<Block(1, <<Send(HELPER, masked, 1)>>),
                             Alone(Receive(HELPER, answer, 1))>>]
<1>1. masked \in Seq(Unit) /\ answer \in Seq(Unit)
  <2>1. "masked" \in Messages /\ "msb" \in Messages /\ 2 \in Nat
    BY DEF Messages
  <2> QED
    BY <2>1, FieldsTyped
<1>2. \A p \in Roles : h[p] = first[p] \o rest[p]
  BY DEF MSB1
<1>3. rest[HELPER] = <<FromBoth(masked), ToBoth(answer)>>
      /\ \A p \in Proxies : rest[p] = <<Block(1, <<Send(HELPER, masked, 1)>>),
                                        Alone(Receive(HELPER, answer, 1))>>
  BY RolesAre
<1>4. \A p \in Roles : first[p] = MOC(p, 1)
  OBVIOUS
<1> HIDE DEF masked, answer, first, rest
<1>5. Asks(rest, 1, masked, answer, 1)
  BY <1>1, <1>3 DEF Asks
<1>6. Match(rest)
  BY <1>5, MatchAsks
<1>7. Match(first) /\ Loud(first)
  <2>1. 1 \in Nat \ {0}
    OBVIOUS
  <2> QED
    BY <1>4, <2>1, LoudMOC
<1> QED
  BY <1>2, <1>6, <1>7, LoudEither

LEMMA TriplesTalk ==
  ASSUME NEW n \in Nat \ {0}, NEW h, \A p \in Roles : h[p] = Triples(p, n)
  PROVE  Match(h) /\ Tells(h) /\ Talks(h, P2, P1)
<1> DEFINE units == Fields("triple", 3 * n)
           u == Fields("rec", 2 * n)
           c == h[P2]
           d == h[HELPER]
           one == Alone(Receive(HELPER, units, 1))
           two == Block(0, <<Send(P1, u, 1), Receive(P1, u, 2)>>)
<1>1. Match(h)
  <2>1. n \in Nat
    OBVIOUS
  <2> QED
    BY <2>1, MatchTriples
<1>2. P1 \in Roles /\ P2 \in Roles /\ HELPER \in Roles /\ P2 # HELPER /\ Other(P2) = P1
  BY DEF Roles, Other, P1, P2, HELPER
<1>3. d = <<Alone(Send(P1, units, 1)), Alone(Send(P2, units, 2))>>
  BY <1>2 DEF Triples
<1>4. c = <<one, two>>
  <2>1. c = <<one>> \o REC(P2, 2 * n)
    BY <1>2 DEF Triples
  <2>2. REC(P2, 2 * n) = <<two>>
    BY <1>2 DEF REC
  <2>3. <<one>> \o <<two>> = <<one, two>>
    <3> HIDE DEF one, two
    <3> QED
      BY TwoConcat
  <2> QED
    BY <2>1, <2>2, <2>3
<1>5. Len(units) >= 1 /\ Len(u) >= 1
  <2>1. 3 * n \in Nat /\ 3 * n >= 1 /\ 2 * n \in Nat /\ 2 * n >= 1
    OBVIOUS
  <2>2. Len(units) = 3 * n
    BY <2>1, FieldsLength
  <2>3. Len(u) = 2 * n
    BY <2>1, FieldsLength
  <2> QED
    BY <2>1, <2>2, <2>3
<1>6. c \in Program(P2) /\ d \in Program(HELPER)
  BY <1>1, <1>2 DEF Match
<1> HIDE DEF units, u
<1>7. Speaks(d, 1, 1, "send", P1) /\ Speaks(d, 2, 1, "send", P2)
  BY <1>3, <1>5 DEF Speaks, Alone, Block, Send
<1>8. Speaks(c, 2, 1, "send", P1)
  <2>1. two.transfers = <<Send(P1, u, 1), Receive(P1, u, 2)>>
    BY DEF Block
  <2>2. 1 \in 1..Len(two.transfers) /\ two.transfers[1] = Send(P1, u, 1)
    BY <2>1
  <2>3. 2 \in 1..Len(c) /\ c[2] = two
    BY <1>4
  <2> HIDE DEF two, c
  <2> QED
    BY <1>5, <2>2, <2>3 DEF Speaks, Send
<1> HIDE DEF c, d
<1>9. Talk(HELPER, d, "send", P1) >= 1
  BY <1>2, <1>6, <1>7, TalkBlock
<1>10. Talk(HELPER, d, "send", P2) >= 1
  BY <1>2, <1>6, <1>7, TalkBlock
<1>11. Talk(P2, c, "send", P1) >= 1
  BY <1>2, <1>6, <1>8, TalkBlock
<1> QED
  BY <1>1, <1>9, <1>10, <1>11 DEF Tells, Talks, c, d

LEMMA LoudPMUL ==
  ASSUME NEW n \in Nat \ {0}, NEW h, \A p \in Roles : h[p] = PMUL(p, n)
  PROVE  Match(h) /\ Loud(h)
<1> DEFINE f == [p \in Roles |-> Triples(p, n)]
           g == [p \in Roles |-> Ack(p)]
<1>1. \A p \in Roles : f[p] = Triples(p, n) /\ g[p] = Ack(p) /\ h[p] = f[p] \o g[p]
  BY DEF PMUL
<1> HIDE DEF f, g
<1>2. Match(f) /\ Tells(f) /\ Talks(f, P2, P1)
  BY <1>1, TriplesTalk
<1>3. Match(g)
  BY <1>1, MatchAck
<1>4. P1 \in Roles /\ P2 \in Roles /\ HELPER \in Roles /\ P2 # HELPER
  BY DEF Roles, P2, HELPER
<1>5. Talks(g, P2, HELPER)
  <2> DEFINE c == g[P2]
  <2>1. c = <<Alone(Send(HELPER, Fields("ack", 1), 1))>>
    BY <1>1, <1>4 DEF Ack
  <2>2. c \in Program(P2)
    BY <1>3, <1>4 DEF Match
  <2>3. Len(Fields("ack", 1)) = 1
    BY FieldsLength
  <2>4. Speaks(c, 1, 1, "send", HELPER)
    BY <2>1, <2>3 DEF Speaks, Alone, Block, Send
  <2> HIDE DEF c
  <2>5. Talk(P2, c, "send", HELPER) >= 1
    BY <1>4, <2>2, <2>4, TalkBlock
  <2> QED
    BY <2>5 DEF Talks, c
<1>6. Match(h)
  BY <1>1, <1>2, <1>3, MatchConcat
<1>7. ASSUME NEW p \in Roles, NEW q \in Roles, Talks(f, p, q) \/ Talks(g, p, q)
      PROVE  Talks(h, p, q)
  BY <1>1, <1>2, <1>3, <1>7, TalksEither
<1> QED
  BY <1>2, <1>4, <1>5, <1>6, <1>7 DEF Loud, Tells

LEMMA LoudMUL ==
  ASSUME NEW n \in Nat \ {0}, NEW h, \A p \in Roles : h[p] = MUL(p, n)
  PROVE  Match(h) /\ Loud(h)
<1> DEFINE m == Batches(n)
           f == [c \in 1..m |-> [p \in Roles |-> PMUL(p, BatchSize(n, c))]]
<1>1. m \in Nat \ {0} /\ \A c \in 1..m : BatchSize(n, c) \in Nat \ {0}
  <2>1. n \in Nat
    OBVIOUS
  <2> QED
    BY <2>1, BatchesTyped
<1>2. ASSUME NEW c \in 1..m
      PROVE  Match(f[c]) /\ Loud(f[c])
  <2> DEFINE g == f[c]
             size == BatchSize(n, c)
  <2>1. size \in Nat \ {0} /\ \A p \in Roles : g[p] = PMUL(p, size)
    BY <1>1
  <2> HIDE DEF g, size
  <2>2. Match(g) /\ Loud(g)
    BY <2>1, LoudPMUL
  <2> QED
    BY <2>2 DEF g
<1>3. \A p \in Roles : h[p] = FlattenSeq([c \in 1..m |-> f[c][p]])
  <2>1. \A p \in Roles : [c \in 1..m |-> f[c][p]] = [c \in 1..m |-> PMUL(p, BatchSize(n, c))]
    OBVIOUS
  <2> QED
    BY <2>1 DEF MUL
<1> HIDE DEF m, f
<1>4. 1 \in 1..m
  BY <1>1
<1>5. Loud(f[1]) /\ \A c \in 1..m : Match(f[c])
  BY <1>2, <1>4
<1> QED
  BY <1>1, <1>3, <1>5, LoudFlatten

LEMMA LoudNORM ==
  ASSUME NEW n \in Nat \ {0}, NEW h, \A p \in Roles : h[p] = NORM(p, n)
  PROVE  Match(h) /\ Loud(h)
<1> DEFINE a == [p \in Roles |-> MSB(p, n)]
           b == [p \in Roles |-> MUL(p, 2 * n)]
           g == [p \in Roles |-> a[p] \o b[p]]
           f == [r \in 1..FRAC |-> g]
<1>1. \A p \in Roles : a[p] = MSB(p, n) /\ b[p] = MUL(p, 2 * n) /\ g[p] = a[p] \o b[p]
  OBVIOUS
<1>2. \A p \in Roles : h[p] = FlattenSeq([r \in 1..FRAC |-> f[r][p]])
  <2>1. \A p \in Roles : [r \in 1..FRAC |-> f[r][p]] = [r \in 1..FRAC |-> MSB(p, n) \o MUL(p, 2 * n)]
    OBVIOUS
  <2> QED
    BY <2>1 DEF NORM
<1>3. 2 * n \in Nat /\ FRAC \in Nat \ {0} /\ 1 \in 1..FRAC
  BY FRACAssumption
<1>4. \A r \in 1..FRAC : f[r] = g
  OBVIOUS
<1> HIDE DEF a, b, g, f
<1>5. Match(a) /\ Loud(a)
  BY <1>1, LoudMSB
<1>6. Match(b)
  BY <1>1, <1>3, MatchMUL
<1>7. Match(g) /\ Loud(g)
  BY <1>1, <1>5, <1>6, LoudEither
<1>8. Loud(f[1]) /\ \A r \in 1..FRAC : Match(f[r])
  BY <1>3, <1>4, <1>7
<1> QED
  BY <1>2, <1>3, <1>8, LoudFlatten

(* Each metric ends with the division of one element.                       *)
LEMMA LoudEnding ==
  ASSUME NEW f, Match(f), NEW h, \A p \in Roles : h[p] = f[p] \o NORM(p, 1)
  PROVE  Loud(h)
<1> DEFINE g == [p \in Roles |-> NORM(p, 1)]
<1>1. \A p \in Roles : g[p] = NORM(p, 1) /\ h[p] = f[p] \o g[p]
  OBVIOUS
<1>2. 1 \in Nat \ {0}
  OBVIOUS
<1> HIDE DEF g
<1>3. Match(g) /\ Loud(g)
  BY <1>1, <1>2, LoudNORM
<1> QED
  BY <1>1, <1>3, LoudEither

LEMMA LoudROCNOTIE ==
  ASSUME NEW n \in Nat, NEW h, \A p \in Roles : h[p] = ROCNOTIE(p, n)
  PROVE  Loud(h)
<1> DEFINE a == [p \in Roles |-> MUL(p, n)]
           b == [p \in Roles |-> Draw(p, 1)]
           c == [p \in Roles |-> MUL1(p)]
           ab == [p \in Roles |-> a[p] \o b[p]]
           abc == [p \in Roles |-> ab[p] \o c[p]]
<1>1. \A p \in Roles : /\ a[p] = MUL(p, n) /\ b[p] = Draw(p, 1) /\ c[p] = MUL1(p)
                        /\ ab[p] = a[p] \o b[p] /\ abc[p] = ab[p] \o c[p]
                        /\ h[p] = abc[p] \o NORM(p, 1)
  BY DEF ROCNOTIE
<1>2. 1 \in Nat
  OBVIOUS
<1> HIDE DEF a, b, c, ab, abc
<1>3. Match(a)
  BY <1>1, MatchMUL
<1>4. Match(b)
  BY <1>1, <1>2, MatchDraw
<1>5. Match(c)
  BY <1>1, MatchMUL1
<1>6. Match(ab)
  BY <1>1, <1>3, <1>4, MatchConcat
<1>7. Match(abc)
  BY <1>1, <1>5, <1>6, MatchConcat
<1> QED
  BY <1>1, <1>7, LoudEnding

LEMMA LoudROCWITHTIE ==
  ASSUME NEW n \in Nat, NEW h, \A p \in Roles : h[p] = ROCWITHTIE(p, n)
  PROVE  Loud(h)
<1> DEFINE a == [p \in Roles |-> Draw(p, n)]
           b == [p \in Roles |-> MRound(p, n)]
           c == [p \in Roles |-> Samples(p, n)]
           d == [p \in Roles |-> MUL1(p)]
           ab == [p \in Roles |-> a[p] \o b[p]]
           abc == [p \in Roles |-> ab[p] \o c[p]]
           abcd == [p \in Roles |-> abc[p] \o d[p]]
<1>1. \A p \in Roles : /\ a[p] = Draw(p, n) /\ b[p] = MRound(p, n) /\ c[p] = Samples(p, n)
                        /\ d[p] = MUL1(p) /\ ab[p] = a[p] \o b[p]
                        /\ abc[p] = ab[p] \o c[p] /\ abcd[p] = abc[p] \o d[p]
                        /\ h[p] = abcd[p] \o NORM(p, 1)
  BY DEF ROCWITHTIE
<1> HIDE DEF a, b, c, d, ab, abc, abcd
<1>2. Match(a)
  BY <1>1, MatchDraw
<1>3. Match(b)
  BY <1>1, MatchMRound
<1>4. Match(c)
  BY <1>1, MatchSamples
<1>5. Match(d)
  BY <1>1, MatchMUL1
<1>6. Match(ab)
  BY <1>1, <1>2, <1>3, MatchConcat
<1>7. Match(abc)
  BY <1>1, <1>4, <1>6, MatchConcat
<1>8. Match(abcd)
  BY <1>1, <1>5, <1>7, MatchConcat
<1> QED
  BY <1>1, <1>8, LoudEnding

LEMMA LoudPRCURVE ==
  ASSUME NEW n \in Nat, NEW h, \A p \in Roles : h[p] = PRCURVE(p, n)
  PROVE  Loud(h)
<1> DEFINE a == [p \in Roles |-> Draw(p, n)]
           b == [p \in Roles |-> MRound(p, n)]
           c == [p \in Roles |-> NORM(p, n)]
           d == [p \in Roles |-> Samples(p, n)]
           ab == [p \in Roles |-> a[p] \o b[p]]
           abc == [p \in Roles |-> ab[p] \o c[p]]
           abcd == [p \in Roles |-> abc[p] \o d[p]]
<1>1. \A p \in Roles : /\ a[p] = Draw(p, n) /\ b[p] = MRound(p, n) /\ c[p] = NORM(p, n)
                        /\ d[p] = Samples(p, n) /\ ab[p] = a[p] \o b[p]
                        /\ abc[p] = ab[p] \o c[p] /\ abcd[p] = abc[p] \o d[p]
                        /\ h[p] = abcd[p] \o NORM(p, 1)
  BY DEF PRCURVE
<1> HIDE DEF a, b, c, d, ab, abc, abcd
<1>2. Match(a)
  BY <1>1, MatchDraw
<1>3. Match(b)
  BY <1>1, MatchMRound
<1>4. Match(c)
  BY <1>1, MatchNORM
<1>5. Match(d)
  BY <1>1, MatchSamples
<1>6. Match(ab)
  BY <1>1, <1>2, <1>3, MatchConcat
<1>7. Match(abc)
  BY <1>1, <1>4, <1>6, MatchConcat
<1>8. Match(abcd)
  BY <1>1, <1>5, <1>7, MatchConcat
<1> QED
  BY <1>1, <1>8, LoudEnding

LEMMA MUXTalk ==
  ASSUME NEW n \in Nat \ {0}, NEW h, \A p \in Roles : h[p] = MUX(p, n)
  PROVE  Tells(h) /\ Talks(h, P2, HELPER)
<1> DEFINE units == Fields("mux", 2 * n)
           answer == Fields("muxed", n)
<1>1. /\ units \in Seq(Unit) /\ answer \in Seq(Unit)
      /\ Len(units) >= 1 /\ Len(answer) >= 1
  <2>1. "mux" \in Messages /\ "muxed" \in Messages /\ 2 * n \in Nat /\ 2 * n >= 1 /\ n \in Nat
    BY DEF Messages
  <2>2. units \in Seq(Unit) /\ Len(units) >= 1
    BY <2>1, FieldsTyped, FieldsLength
  <2>3. answer \in Seq(Unit) /\ Len(answer) >= 1
    BY <2>1, FieldsTyped, FieldsLength
  <2> QED
    BY <2>2, <2>3
<1>2. Asks(h, n * 4, units, answer, 1)
  <2>1. h[HELPER] = <<FromBoth(units), ToBoth(answer)>>
    BY RolesAre DEF MUX
  <2>2. \A p \in Proxies : h[p] = <<Block(n * 4, <<Send(HELPER, units, 1)>>),
                                    Alone(Receive(HELPER, answer, 1))>>
    BY RolesAre DEF MUX, MUXDraws
  <2>3. n * 4 \in Nat /\ 1 \in {1, 2}
    OBVIOUS
  <2> HIDE DEF units, answer
  <2> QED
    BY <1>1, <2>1, <2>2, <2>3 DEF Asks
<1> HIDE DEF units, answer
<1> QED
  BY <1>1, <1>2, AsksTalk

LEMMA MUX1Talk ==
  ASSUME NEW h, \A p \in Roles : h[p] = MUX1(p)
  PROVE  Tells(h) /\ Talks(h, P2, HELPER)
<1> DEFINE units == Fields("mux", 2)
           answer == Fields("muxed", 1)
<1>1. /\ units \in Seq(Unit) /\ answer \in Seq(Unit)
      /\ Len(units) >= 1 /\ Len(answer) >= 1
  <2>1. "mux" \in Messages /\ "muxed" \in Messages /\ 2 \in Nat /\ 1 \in Nat
    BY DEF Messages
  <2>2. units \in Seq(Unit) /\ Len(units) >= 1
    BY <2>1, FieldsTyped, FieldsLength
  <2>3. answer \in Seq(Unit) /\ Len(answer) >= 1
    BY <2>1, FieldsTyped, FieldsLength
  <2> QED
    BY <2>2, <2>3
<1>2. AsksEach(h, 4, units, answer)
  <2>1. h[HELPER] = <<Alone(Receive(P1, units, 1)), Alone(Receive(P2, units, 2)),
                   Alone(Send(P1, answer, 1)), Alone(Send(P2, answer, 2))>>
    BY RolesAre DEF MUX1
  <2>2. \A p \in Proxies : h[p] = <<Block(4, <<Send(HELPER, units, 1)>>),
                                    Alone(Receive(HELPER, answer, 1))>>
    BY RolesAre DEF MUX1
  <2> HIDE DEF units, answer
  <2> QED
    BY <1>1, <2>1, <2>2 DEF AsksEach
<1> HIDE DEF units, answer
<1> QED
  BY <1>1, <1>2, AsksEachTalk

LEMMA MRoundTalk ==
  ASSUME NEW n \in Nat \ {0}, NEW h, \A p \in Roles : h[p] = MRound(p, n)
  PROVE  Tells(h) /\ Talks(h, P2, HELPER)
<1> DEFINE units == Fields("round", n)
           answer == Fields("rounded", n)
<1>1. /\ units \in Seq(Unit) /\ answer \in Seq(Unit)
      /\ Len(units) >= 1 /\ Len(answer) >= 1
  <2>1. "round" \in Messages /\ "rounded" \in Messages /\ n \in Nat
    BY DEF Messages
  <2>2. units \in Seq(Unit) /\ Len(units) >= 1
    BY <2>1, FieldsTyped, FieldsLength
  <2>3. answer \in Seq(Unit) /\ Len(answer) >= 1
    BY <2>1, FieldsTyped, FieldsLength
  <2> QED
    BY <2>2, <2>3
<1>2. Asks(h, 0, units, answer, 1)
  <2>1. h[HELPER] = <<FromBoth(units), ToBoth(answer)>>
    BY RolesAre DEF MRound
  <2>2. \A p \in Proxies : h[p] = <<Block(0, <<Send(HELPER, units, 1)>>),
                                    Alone(Receive(HELPER, answer, 1))>>
    BY RolesAre DEF MRound, Alone
  <2>3. 0 \in Nat /\ 1 \in {1, 2}
    OBVIOUS
  <2> HIDE DEF units, answer
  <2> QED
    BY <1>1, <2>1, <2>2, <2>3 DEF Asks
<1> HIDE DEF units, answer
<1> QED
  BY <1>1, <1>2, AsksTalk

(* Blocks of which P1 hears the end from the helper alone.                  *)
Answers == {"CORE_MMUX", "CORE_MUX", "AUC_MROU"}

LEMMA BodyTalks ==
  ASSUME NEW c \in Call, c.op \in Commands \ {"CORE_END"},
         c.op \in SizedOps \ Metrics => c.n # 0,
         NEW h, \A p \in Roles : h[p] = Body(p, c)
  PROVE  /\ Tells(h)
         /\ c.op # "CORE_MUL" => Talks(h, P2, HELPER)
         /\ c.op \notin Answers => Talks(h, P2, P1)
<1>0. c.n \in Nat /\ 1 \in Nat \ {0}
  BY DEF Call
<1>1. CASE c.op = "CORE_MC"
  <2>1. \A p \in Roles : h[p] = MOC(p, 1)
    BY <1>1 DEF Body
  <2> QED
    BY <1>0, <2>1, LoudMOC DEF Loud
<1>2. CASE c.op \in {"CORE_MSB", "CORE_CMP"}
  <2>1. \A p \in Roles : h[p] = MSB1(p)
    BY <1>2 DEF Body
  <2> QED
    BY <2>1, LoudMSB1 DEF Loud
<1>3. CASE c.op = "CORE_MUX"
  <2>1. \A p \in Roles : h[p] = MUX1(p)
    BY <1>3 DEF Body
  <2> QED
    BY <1>3, <2>1, MUX1Talk DEF Answers
<1>4. CASE c.op = "CORE_MUL"
  <2>1. \A p \in Roles : h[p] = Triples(p, 1)
    BY <1>4 DEF Body, MUL1
  <2> QED
    BY <1>0, <1>4, <2>1, TriplesTalk
<1>5. CASE c.op = "AUC_ROCNOTIE"
  <2>1. \A p \in Roles : h[p] = ROCNOTIE(p, c.n)
    BY <1>5 DEF Body
  <2> QED
    BY <1>0, <2>1, LoudROCNOTIE DEF Loud
<1>6. CASE c.op = "AUC_ROCWITHTIE"
  <2>1. \A p \in Roles : h[p] = ROCWITHTIE(p, c.n)
    BY <1>6 DEF Body
  <2> QED
    BY <1>0, <2>1, LoudROCWITHTIE DEF Loud
<1>7. CASE c.op = "AUC_PR"
  <2>1. \A p \in Roles : h[p] = PRCURVE(p, c.n)
    BY <1>7 DEF Body
  <2> QED
    BY <1>0, <2>1, LoudPRCURVE DEF Loud
<1>8. CASE c.op \in SizedOps \ Metrics
  <2>0. c.n \in Nat \ {0}
    BY <1>0, <1>8
  <2>1. CASE c.op = "CORE_MMC"
    <3>1. \A p \in Roles : h[p] = MOC(p, c.n)
      BY <2>1 DEF Body
    <3> QED
      BY <2>0, <3>1, LoudMOC DEF Loud
  <2>2. CASE c.op \in {"CORE_MMSB", "CORE_MCMP"}
    <3>1. \A p \in Roles : h[p] = MSB(p, c.n)
      BY <2>2 DEF Body
    <3> QED
      BY <2>0, <3>1, LoudMSB DEF Loud
  <2>3. CASE c.op = "CORE_MMUX"
    <3>1. \A p \in Roles : h[p] = MUX(p, c.n)
      BY <2>3 DEF Body
    <3> QED
      BY <2>0, <2>3, <3>1, MUXTalk DEF Answers
  <2>4. CASE c.op = "CORE_MMUL"
    <3>1. \A p \in Roles : h[p] = MUL(p, c.n)
      BY <2>4 DEF Body
    <3> QED
      BY <2>0, <3>1, LoudMUL DEF Loud
  <2>5. CASE c.op = "CORE_MNORM"
    <3>1. \A p \in Roles : h[p] = NORM(p, c.n)
      BY <2>5 DEF Body
    <3> QED
      BY <2>0, <3>1, LoudNORM DEF Loud
  <2>6. CASE c.op = "AUC_MROU"
    <3>1. \A p \in Roles : h[p] = MRound(p, c.n)
      BY <2>6 DEF Body
    <3> QED
      BY <2>0, <2>6, <3>1, MRoundTalk DEF Answers
  <2> QED
    BY <1>8, <2>1, <2>2, <2>3, <2>4, <2>5, <2>6 DEF SizedOps, Metrics
<1> QED
  BY <1>1, <1>2, <1>3, <1>4, <1>5, <1>6, <1>7, <1>8 DEF Commands, ScalarOps, SizedOps, Metrics

(* The same of a whole call: what the helper hears first and P1's command   *)
(* come before the blocks.                                                  *)
CallTalks(c) ==
  /\ Talk(HELPER, Whole(HELPER, c), "send", P1) >= 1
  /\ Talk(HELPER, Whole(HELPER, c), "send", P2) >= 1
  /\ c.op # "CORE_MUL" => Talk(P2, Whole(P2, c), "send", HELPER) >= 1
  /\ c.op \notin Answers => Talk(P2, Whole(P2, c), "send", P1) >= 1

LEMMA WholeTalks ==
  ASSUME NEW c \in Call, c.op \in Commands \ {"CORE_END"},
         c.op \in SizedOps \ Metrics => c.n # 0
  PROVE  CallTalks(c)
<1> DEFINE h == [p \in Roles |-> Body(p, c)]
           a == Hears(c)
           b == Body(HELPER, c)
<1>1. \A p \in Roles : h[p] = Body(p, c)
  OBVIOUS
<1> HIDE DEF h
<1>2. /\ Tells(h)
      /\ c.op # "CORE_MUL" => Talks(h, P2, HELPER)
      /\ c.op \notin Answers => Talks(h, P2, P1)
  BY <1>1, BodyTalks
<1>3. P1 \in Roles /\ P2 \in Roles /\ HELPER \in Roles /\ P2 # HELPER /\ P2 # P1
  BY DEF Roles, P1, P2, HELPER
<1>4. Match(h)
  BY <1>1, MatchBody
<1>5. \A p \in Roles : h[p] \in Program(p)
  BY <1>4 DEF Match
<1>6. Whole(P2, c) = h[P2]
  <2>1. Whole(P2, c) = <<>> \o h[P2]
    BY <1>1, <1>3 DEF Whole, Code, SendBytes
  <2> DEFINE s == h[P2]
  <2>2. s \in Program(P2)
    BY <1>3, <1>5
  <2> HIDE DEF s
  <2>3. <<>> \o s = s
    BY <2>2 DEF Program
  <2> QED
    BY <2>1, <2>3 DEF s
<1>7. ASSUME NEW q \in Roles, Talks(h, HELPER, q)
      PROVE  Talk(HELPER, Whole(HELPER, c), "send", q) >= 1
  <2> DEFINE ht == Talk(HELPER, a, "send", q)
             bt == Talk(HELPER, b, "send", q)
  <2>1. ht \in Nat /\ bt \in Nat /\ Talk(HELPER, Whole(HELPER, c), "send", q) = ht + bt
    BY HelperWhole
  <2>2. bt >= 1
    BY <1>1, <1>3, <1>7 DEF Talks
  <2> HIDE DEF ht, bt
  <2> QED
    BY <2>1, <2>2
<1> QED
  BY <1>2, <1>3, <1>6, <1>7 DEF CallTalks, Tells, Talks

(* From its i-th block on the helper answers P1 and hears no more of P2.    *)
LastWord(code, i) ==
  /\ Len(code) <= i + 1
  /\ Speaks(code, i, 1, "send", P1)
  /\ \A j \in i..Len(code) : Ways(code[j].transfers, "receive", P2) = {}

LEMMA NoWay ==
  ASSUME NEW tr, NEW dir, NEW q, \A i \in 1..Len(tr) : tr[i].dir # dir
  PROVE  Ways(tr, dir, q) = {}
BY DEF Ways

LEMMA AnswersLast ==
  ASSUME NEW c \in Call, c.op \in Answers, c.op \in SizedOps => c.n # 0
  PROVE  \E i : LastWord(Body(HELPER, c), i)
<1>0. c.n \in Nat
  BY DEF Call
<1>1. ASSUME NEW units, NEW answer, Len(answer) >= 1, NEW code,
             code = <<FromBoth(units), ToBoth(answer)>>
      PROVE  LastWord(code, 2)
  <2>1. Len(code) = 2 /\ code[2].transfers = <<Send(P1, answer, 1), Send(P2, answer, 2)>>
    BY <1>1 DEF ToBoth, Block
  <2>2. \A i \in 1..2 : <<Send(P1, answer, 1), Send(P2, answer, 2)>>[i].dir # "receive"
    BY DEF Send
  <2>3. Ways(<<Send(P1, answer, 1), Send(P2, answer, 2)>>, "receive", P2) = {}
    <3> DEFINE tr == <<Send(P1, answer, 1), Send(P2, answer, 2)>>
    <3>1. Len(tr) = 2
      OBVIOUS
    <3>2. \A i \in 1..Len(tr) : tr[i].dir # "receive"
      BY <2>2, <3>1
    <3> HIDE DEF tr
    <3>3. Ways(tr, "receive", P2) = {}
      BY <3>2, NoWay
    <3> QED
      BY <3>3 DEF tr
  <2>4. Speaks(code, 2, 1, "send", P1)
    <3> DEFINE tr == <<Send(P1, answer, 1), Send(P2, answer, 2)>>
    <3>1. 1 \in 1..Len(tr) /\ tr[1].dir = "send" /\ tr[1].peer = P1 /\ tr[1].units = answer
      BY DEF Send
    <3>2. Len(code) = 2 /\ code[2].transfers = tr
      BY <2>1
    <3> HIDE DEF tr
    <3> QED
      BY <1>1, <3>1, <3>2 DEF Speaks
  <2> QED
    BY <2>1, <2>3, <2>4 DEF LastWord
<1>2. CASE c.op = "CORE_MMUX"
  <2>1. Body(HELPER, c) = <<FromBoth(Fields("mux", 2 * c.n)), ToBoth(Fields("muxed", c.n))>>
    BY <1>2 DEF Body, MUX
  <2>2. Len(Fields("muxed", c.n)) = c.n /\ c.n >= 1
    BY <1>0, <1>2, FieldsLength DEF SizedOps
  <2>3. LastWord(Body(HELPER, c), 2)
    BY <1>1, <2>1, <2>2
  <2> QED
    BY <2>3
<1>3. CASE c.op = "AUC_MROU"
  <2>1. Body(HELPER, c) = <<FromBoth(Fields("round", c.n)), ToBoth(Fields("rounded", c.n))>>
    BY <1>3 DEF Body, MRound
  <2>2. Len(Fields("rounded", c.n)) = c.n /\ c.n >= 1
    BY <1>0, <1>3, FieldsLength DEF SizedOps
  <2>3. LastWord(Body(HELPER, c), 2)
    BY <1>1, <2>1, <2>2
  <2> QED
    BY <2>3
<1>4. CASE c.op = "CORE_MUX"
  <2> DEFINE code == Body(HELPER, c)
             units == Fields("mux", 2)
             answer == Fields("muxed", 1)
  <2>1. code = <<Alone(Receive(P1, units, 1)), Alone(Receive(P2, units, 2)),
                 Alone(Send(P1, answer, 1)), Alone(Send(P2, answer, 2))>>
    BY <1>4 DEF Body, MUX1
  <2>2. Len(answer) = 1
    BY FieldsLength
  <2> HIDE DEF code, units, answer
  <2>3. /\ Len(code) = 4 /\ code[3].transfers = <<Send(P1, answer, 1)>>
        /\ code[4].transfers = <<Send(P2, answer, 2)>>
    BY <2>1 DEF Alone, Block
  <2>4. ASSUME NEW q, NEW b
        PROVE  Ways(<<Send(q, answer, b)>>, "receive", P2) = {}
    <3> DEFINE tr == <<Send(q, answer, b)>>
    <3>1. \A i \in 1..Len(tr) : tr[i].dir # "receive"
      BY DEF Send
    <3> HIDE DEF tr
    <3>2. Ways(tr, "receive", P2) = {}
      BY <3>1, NoWay
    <3> QED
      BY <3>2 DEF tr
  <2>5. \A j \in 3..4 : Ways(code[j].transfers, "receive", P2) = {}
    <3>1. Ways(code[3].transfers, "receive", P2) = {} /\ Ways(code[4].transfers, "receive", P2) = {}
      BY <2>3, <2>4
    <3>2. \A j \in 3..4 : j = 3 \/ j = 4
      OBVIOUS
    <3> QED
      BY <3>1, <3>2
  <2>6. Speaks(code, 3, 1, "send", P1)
    BY <2>2, <2>3 DEF Speaks, Send
  <2>7. LastWord(code, 3)
    BY <2>3, <2>5, <2>6 DEF LastWord
  <2> QED
    BY <2>7 DEF code
<1> QED
  BY <1>2, <1>3, <1>4 DEF Answers

(* When nothing is left to say to P1, nothing is left to hear from P2.      *)
LEMMA NothingMore ==
  ASSUME NEW code \in Program(HELPER), NEW i, LastWord(code, i), NEW n \in 0..Len(code),
         Talk(HELPER, Drop(code, n), "send", P1) = 0
  PROVE  /\ n # 0
         /\ Ways(code[n].transfers, "receive", P2) = {}
         /\ Talk(HELPER, Drop(code, n), "receive", P2) = 0
<1> DEFINE a == Drop(code, n)
           L == Len(code)
<1>0. HELPER \in Roles /\ P1 \in Roles /\ P2 \in Roles
  BY DEF Roles
<1>1. code \in Seq(BlockOf(HELPER)) /\ L \in Nat
  BY DEF Program
<1>2. L <= i + 1 /\ i \in 1..L /\ Speaks(code, i, 1, "send", P1)
  BY DEF LastWord, Speaks
<1>3. a \in Program(HELPER) /\ Len(a) = L - n
  BY <1>1, DropTyped DEF Program
<1>4. n >= i
  <2> SUFFICES ASSUME n < i
               PROVE  FALSE
    BY <1>2
  <2> DEFINE j == i - n
  <2>1. j \in 1..(L - n) /\ n + j = i
    BY <1>1, <1>2
  <2>2. a[j] = code[i]
    BY <2>1 DEF Drop
  <2> HIDE DEF a, j, L
  <2>3. Speaks(a, j, 1, "send", P1)
    BY <1>2, <1>3, <2>1, <2>2 DEF Speaks
  <2>4. Talk(HELPER, a, "send", P1) >= 1
    BY <1>0, <1>3, <2>3, TalkBlock
  <2> QED
    BY <2>4 DEF a
<1>5. n # 0 /\ n \in i..L
  BY <1>1, <1>2, <1>4
<1>6. Ways(code[n].transfers, "receive", P2) = {}
  BY <1>5 DEF LastWord
<1>7. Talk(HELPER, a, "receive", P2) = 0
  <2>1. CASE n = L
    BY <1>1, <2>1, DropEnd, TalkNone
  <2>2. CASE n # L
    <3>1. n < L /\ n + 1 = L /\ n \in Nat /\ n + 1 \in i..L
      BY <1>1, <1>2, <1>5, <2>2
    <3> DEFINE b == code[n + 1]
               r == Drop(code, n + 1)
               tr == b.transfers
    <3>2. b \in BlockOf(HELPER) /\ a = <<b>> \o r
      BY <1>1, <3>1, DropNext
    <3>3. r = <<>>
      BY <1>1, <3>1, DropEnd
    <3>4. Ways(tr, "receive", P2) = {}
      BY <3>1 DEF LastWord
    <3> HIDE DEF a, b, r
    <3>5. a = <<b>>
      <4>1. <<b>> \in Seq({b})
        OBVIOUS
      <4> DEFINE s == <<b>>
      <4> HIDE DEF s
      <4>2. s \o <<>> = s
        BY <4>1 DEF s
      <4> QED
        BY <3>2, <3>3, <4>2 DEF s
    <3>6. Said(HELPER, b, "receive", P2, 0) = <<>>
      BY <3>4, RestNone DEF Said
    <3>7. Len(Said(HELPER, b, "receive", P2, 0)) = Talk(HELPER, <<b>>, "receive", P2)
      BY <1>0, <3>2, TalkOne
    <3> QED
      BY <3>5, <3>6, <3>7
  <2> QED
    BY <2>1, <2>2
<1> QED
  BY <1>5, <1>6, <1>7

(* P1 has its answer: the helper has heard P2 ask.                          *)
LEMMA Answered ==
  ASSUME NEW h, NEW cs, Sound(cs), NEW c, NEW s, Linked(h, cs, c, s), Wired(c),
         NEW k, Begun(P1, h[P1], cs, s[P1], k), Over(P1, h[P1]),
         NEW m, Begun(P2, h[P2], cs, s[P2], m),
         NEW n, Begun(HELPER, h[HELPER], cs, s[HELPER], n),
         cs[k].op \in Answers, cs[k].op \in SizedOps => cs[k].n # 0
  PROVE  k <= m
<1> DEFINE x == h[HELPER]
           L == Len(cs)
<1>0. /\ P1 \in Roles /\ P2 \in Roles /\ HELPER \in Roles /\ P2 # HELPER /\ P1 # HELPER
      /\ P1 # P2 /\ "send" \in Ways2 /\ "receive" \in Ways2
  BY DEF Roles, Ways2, P1, P2, HELPER
<1>1. h[P1].pc = "run"
  BY DEF Over
<1>2. L \in Nat /\ k \in 0..L /\ k \in Nat /\ k <= L /\ k # 0 /\ cs[k] \in Call /\ cs[k] \in Calls
  BY <1>0, <1>1, BegunTyped
<1>3. m \in Nat /\ m <= L /\ Reach(h[P2], m) = m
  BY <1>0, BegunTyped
<1>4. n \in Nat /\ n \in 0..L /\ (x.pc = "run" => x.call = cs[n])
      /\ Reach(x, n) \in Nat /\ (x.pc # "size" => Reach(x, n) = n)
  BY <1>0, BegunTyped
<1>5. CallTalks(cs[k])
  <2>1. cs[k].op \in Commands \ {"CORE_END"}
    BY DEF Answers, Commands, ScalarOps, SizedOps
  <2> QED
    BY <1>2, <2>1, WholeTalks
<1>6. k <= Reach(x, n)
  <2>1. Talk(HELPER, Whole(HELPER, cs[k]), "send", P1) >= 1
    BY <1>5 DEF CallTalks
  <2> QED
    BY <1>0, <2>1, Passed
<1> SUFFICES ASSUME m < k
             PROVE  FALSE
  BY <1>2, <1>3
<1> DEFINE lk == Talk(HELPER, Later(HELPER, cs, k), "receive", P2)
           heard == Len(s[HELPER]["receive"][P2])
           told == Len(s[HELPER]["send"][P1])
           tk == Talk(HELPER, Later(HELPER, cs, k), "send", P1)
<1>7. lk \in Nat /\ heard \in Nat /\ heard >= 1 + lk
  <2> DEFINE w == Talk(P2, Whole(P2, cs[k]), "send", HELPER)
             pk == Talk(P2, Later(P2, cs, k), "send", HELPER)
             pm == Talk(P2, Later(P2, cs, m), "send", HELPER)
             sent == Len(s[P2]["send"][HELPER])
  <2>1. w >= 1
    BY <1>5 DEF CallTalks, Answers
  <2>2. LaterLess(P2, cs, "send", HELPER, m, k)
    <3>1. m \in 0..k
      BY <1>2, <1>3
    <3> QED
      BY <1>0, <1>2, <3>1, LaterIsLess
  <2>3. w \in Nat /\ pk \in Nat /\ pm \in Nat /\ w + pk <= pm
    BY <2>2 DEF LaterLess
  <2>4. pm <= sent /\ sent \in Nat
    <3>1. PICK todo, e, place :
            /\ Stands(P2, h[P2], cs, m, todo, e, place)
            /\ Says(P2, h[P2], cs, s[P2], m, todo, e, place)
      BY DEF Begun
    <3> QED
      BY <1>0, <1>3, <3>1, StillSays
  <2>5. sent <= heard
    BY <1>0, LinkedLess
  <2>6. pk = lk
    BY <1>0, <1>2, LaterTalks
  <2>7. heard \in Nat
    <3>1. s[HELPER] \in [Ways2 -> [Roles -> Seq(Packet)]]
      BY <1>0, LinkedSay
    <3>2. s[HELPER]["receive"][P2] \in Seq(Packet)
      BY <1>0, <3>1
    <3> QED
      BY <3>2
  <2> HIDE DEF w, pk, pm, sent, lk, heard
  <2> QED
    BY <2>1, <2>3, <2>4, <2>5, <2>6, <2>7
<1>8. PICK todo, e, place : /\ Stands(HELPER, x, cs, n, todo, e, place)
                             /\ Says(HELPER, x, cs, s[HELPER], n, todo, e, place)
  BY DEF Begun
<1>9. CASE n # k
  <2>1. k <= n - 1 /\ n # 0 /\ n - 1 \in 0..L /\ k \in 0..(n - 1)
    <3>1. Reach(x, n) <= n
      BY <1>4 DEF Reach
    <3> HIDE DEF x, L
    <3> QED
      BY <1>2, <1>4, <1>6, <1>9, <3>1
  <2>2. HeardIn(cs, s[HELPER], n, P2)
    BY <1>0, <1>8, <2>1, HelperHeard
  <2> DEFINE j == n - 1
             lj == Talk(HELPER, Later(HELPER, cs, j), "receive", P2)
  <2>3. heard <= lj /\ lj \in Nat
    BY <2>2 DEF HeardIn
  <2>4. lj <= lk
    <3> HIDE DEF j
    <3>1. LaterLess(HELPER, cs, "receive", P2, k, j)
      BY <1>0, <2>1, LaterIsLess DEF j
    <3> QED
      BY <3>1 DEF LaterLess
  <2> HIDE DEF lj, lk, heard
  <2> QED
    BY <1>7, <2>3, <2>4
<1>10. CASE n = k
  <2>1. LeftIs(HELPER, x, cs, s[HELPER], k, todo, place, "receive", P2)
    BY <1>0, <1>8, <1>10, LeftToSay
  <2>2. LeftIs(HELPER, x, cs, s[HELPER], k, todo, place, "send", P1)
    BY <1>0, <1>8, <1>10, LeftToSay
  <2>3. Position(HELPER, x, cs, k, todo) /\ Counts(HELPER, x, cs, k)
    BY <1>8, <1>10 DEF Stands
  <2>4. x.pc # "size"
    <3>1. x.pc = "size" => Reach(x, n) = n - 1
      BY DEF Reach
    <3> HIDE DEF x
    <3> QED
      BY <1>2, <1>4, <1>6, <1>10, <3>1
  <2>5. CASE x.pc \in {"command", "exit"}
    <3>1. Current(HELPER, x, cs, k, place, "receive", P2) = <<>>
      BY <2>5 DEF Current
    <3>2. heard = Len(<<>>) + Talk(HELPER, todo, "receive", P2)
          /\ Talk(HELPER, todo, "receive", P2) \in Nat
      BY <2>1, <3>1 DEF LeftIs
    <3>3. Len(<<>>) = 0
      OBVIOUS
    <3>4. todo = Later(HELPER, cs, k) \/ todo = <<>>
      BY <2>3, <2>5 DEF Position
    <3>5. Talk(HELPER, todo, "receive", P2) \in {lk, 0}
      BY <3>4, TalkNone
    <3> HIDE DEF lk, heard
    <3> QED
      BY <1>7, <3>2, <3>3, <3>5
  <2>6. CASE x.pc = "run"
    <3> DEFINE code == Body(HELPER, cs[k])
               a == Drop(code, x.at)
               l == Later(HELPER, cs, k)
    <3>1. Its(HELPER, x) = code /\ code \in Program(HELPER)
      <4>1. x.call = cs[k] /\ cs[k] \in Call /\ cs[k] \in Calls
        BY <1>2, <1>4, <1>10, <2>6
      <4> HIDE DEF x
      <4> QED
        BY <1>0, <4>1, TableIs
    <3>2. Busy(HELPER, x, place) /\ place \in Nat /\ x.at \in 0..Len(code)
      BY <1>8, <2>6, <3>1 DEF Stands, Busy
    <3>3. todo = a \o l
      BY <2>3, <2>6, <3>1 DEF Position
    <3>4. a \in Program(HELPER) /\ l \in Program(HELPER)
      <4>1. a \in Program(HELPER)
        BY <3>1, <3>2, DropTyped DEF Program
      <4>2. l \in Program(HELPER)
        BY <1>0, <1>2, LaterTyped
      <4> QED
        BY <4>1, <4>2
    <3>5. Talk(HELPER, a, "send", P1) = 0
      <4> DEFINE ta == Talk(HELPER, a, "send", P1)
                 tt == Talk(HELPER, todo, "send", P1)
                 cur == Len(Current(HELPER, x, cs, k, place, "send", P1))
                 heard1 == Len(s[P1]["receive"][HELPER])
      <4>1. ta \in Nat /\ tk \in Nat /\ tt = ta + tk
        <5> HIDE DEF a, l
        <5>1. /\ ta \in Nat /\ Talk(HELPER, l, "send", P1) \in Nat
              /\ tt = ta + Talk(HELPER, l, "send", P1)
          BY <1>0, <3>3, <3>4, TalkSplit
        <5> QED
          BY <5>1 DEF l
      <4>2. told = cur + tt /\ cur \in Nat
        BY <2>2 DEF LeftIs
      <4>3. told <= heard1
        BY <1>0, LinkedLess
      <4>4. heard1 = tk
        <5>1. PICK todo1, e1, place1 :
                /\ Stands(P1, h[P1], cs, k, todo1, e1, place1)
                /\ Says(P1, h[P1], cs, s[P1], k, todo1, e1, place1)
          BY DEF Begun
        <5>2. heard1 = Talk(P1, Later(P1, cs, k), "receive", HELPER)
          BY <1>0, <5>1, OverLeft DEF Over
        <5> QED
          BY <1>0, <1>2, <5>2, LaterTalks
      <4> HIDE DEF a, ta, tt, cur, heard1, told, tk
      <4>5. ta = 0
        BY <4>1, <4>2, <4>3, <4>4
      <4> QED
        BY <4>5 DEF ta
    <3>6. PICK i : LastWord(code, i)
      <4>1. cs[k] \in Call
        BY <1>2
      <4> QED
        BY <4>1, AnswersLast
    <3>7. /\ x.at # 0 /\ Ways(code[x.at].transfers, "receive", P2) = {}
          /\ Talk(HELPER, a, "receive", P2) = 0
      <4> DEFINE pos == x.at
      <4>1. pos \in 0..Len(code) /\ Talk(HELPER, Drop(code, pos), "send", P1) = 0
        BY <3>2, <3>5
      <4> HIDE DEF pos, code
      <4>2. /\ pos # 0 /\ Ways(code[pos].transfers, "receive", P2) = {}
            /\ Talk(HELPER, Drop(code, pos), "receive", P2) = 0
        BY <3>1, <3>6, <4>1, NothingMore
      <4> QED
        BY <4>2 DEF pos
    <3>8. Current(HELPER, x, cs, k, place, "receive", P2) = <<>>
      <4>1. Threads(HELPER, x) = code[x.at].transfers
        BY <3>1, <3>7 DEF Threads
      <4>2. Rest(HELPER, Threads(HELPER, x), x.moved, "receive", P2, place) = <<>>
        BY <3>7, <4>1, RestNone
      <4> QED
        BY <2>6, <4>2 DEF Current
    <3>9. Talk(HELPER, todo, "receive", P2) = 0 + lk
      <4> HIDE DEF a, l
      <4>1. Talk(HELPER, todo, "receive", P2)
              = Talk(HELPER, a, "receive", P2) + Talk(HELPER, l, "receive", P2)
        BY <1>0, <3>3, <3>4, TalkSplit
      <4> QED
        BY <3>7, <4>1 DEF l
    <3>10. heard = Len(<<>>) + Talk(HELPER, todo, "receive", P2)
      BY <2>1, <3>8 DEF LeftIs
    <3>11. Len(<<>>) = 0
      OBVIOUS
    <3> HIDE DEF lk, heard
    <3> QED
      BY <1>7, <3>9, <3>10, <3>11
  <2> QED
    BY <2>3, <2>4, <2>5, <2>6 DEF Position
<1> QED
  BY <1>9, <1>10

(* Who is in a call, or past it, when another one leaves it.                *)

(* A call of a command that has elements to say something about.            *)
Spoken(c) ==
  c.op \in Commands \ {"CORE_END"} /\ (c.op \in SizedOps \ Metrics => c.n # 0)

LEMMA P1Reaches ==
  ASSUME NEW x, NEW cs, Sound(cs), NEW s, NEW m, Begun(P1, x, cs, s, m)
  PROVE  m \in Nat /\ Reach(x, m) = m
<1>1. P1 \in Roles /\ P1 # HELPER
  BY DEF Roles, P1, HELPER
<1>2. PICK todo, e, place : Stands(P1, x, cs, m, todo, e, place)
  BY DEF Begun
<1>3. m \in 0..Len(cs) /\ Position(P1, x, cs, m, todo)
  BY <1>2 DEF Stands
<1>4. x.pc # "size"
  BY <1>1, <1>3 DEF Position
<1> QED
  BY <1>3, <1>4 DEF Reach

LEMMA P2Reaches ==
  ASSUME NEW x, NEW cs, Sound(cs), NEW s, NEW m, Begun(P2, x, cs, s, m)
  PROVE  m \in Nat /\ Reach(x, m) = m
<1>1. P2 \in Roles /\ P2 # HELPER
  BY DEF Roles, P2, HELPER
<1>2. PICK todo, e, place : Stands(P2, x, cs, m, todo, e, place)
  BY DEF Begun
<1>3. m \in 0..Len(cs) /\ Position(P2, x, cs, m, todo)
  BY <1>2 DEF Stands
<1>4. x.pc # "size"
  BY <1>1, <1>3 DEF Position
<1> QED
  BY <1>3, <1>4 DEF Reach

LEMMA P1Leaves ==
  ASSUME NEW h, NEW cs, Sound(cs), NEW c, NEW s, Linked(h, cs, c, s), Wired(c),
         NEW k, Begun(P1, h[P1], cs, s[P1], k), Over(P1, h[P1]),
         NEW m, Begun(P2, h[P2], cs, s[P2], m),
         NEW n, Begun(HELPER, h[HELPER], cs, s[HELPER], n), Spoken(cs[k])
  PROVE  k <= m /\ k <= Reach(h[HELPER], n)
<1>0. P1 \in Roles /\ P2 \in Roles /\ HELPER \in Roles /\ P2 # HELPER
  BY DEF Roles, P1, P2, HELPER
<1>1. h[P1].pc = "run"
  BY DEF Over
<1>2. cs[k] \in Call
  BY <1>0, <1>1, BegunTyped
<1>3. CallTalks(cs[k])
  BY <1>2, WholeTalks DEF Spoken
<1>4. Reach(h[P2], m) = m
  BY P2Reaches
<1>5. k <= Reach(h[HELPER], n)
  BY <1>0, <1>3, Passed DEF CallTalks
<1>6. CASE cs[k].op \in Answers
  <2>1. cs[k].op \in SizedOps => cs[k].n # 0
    BY <1>6 DEF Spoken, Answers, Metrics
  <2>2. k <= m
    BY <1>6, <2>1, Answered
  <2> QED
    BY <1>5, <2>2
<1>7. CASE cs[k].op \notin Answers
  <2>1. Talk(P2, Whole(P2, cs[k]), "send", P1) >= 1
    BY <1>3, <1>7 DEF CallTalks
  <2>2. k <= Reach(h[P2], m)
    BY <1>0, <2>1, Passed
  <2> QED
    BY <1>4, <1>5, <2>2
<1> QED
  BY <1>6, <1>7

LEMMA P2Leaves ==
  ASSUME NEW h, NEW cs, Sound(cs), NEW c, NEW s, Linked(h, cs, c, s), Wired(c),
         NEW k, Begun(P1, h[P1], cs, s[P1], k),
         NEW m, Begun(P2, h[P2], cs, s[P2], m), Over(P2, h[P2]),
         NEW n, Begun(HELPER, h[HELPER], cs, s[HELPER], n), Spoken(cs[m])
  PROVE  m <= Reach(h[HELPER], n) /\ m <= k
<1>0. P1 \in Roles /\ P2 \in Roles /\ HELPER \in Roles /\ P2 # HELPER
  BY DEF Roles, P1, P2, HELPER
<1>1. h[P2].pc = "run"
  BY DEF Over
<1>2. cs[m] \in Call /\ m \in Nat
  BY <1>0, <1>1, BegunTyped
<1>3. CallTalks(cs[m])
  BY <1>2, WholeTalks DEF Spoken
<1>4. m <= Reach(h[HELPER], n)
  BY <1>0, <1>3, Passed DEF CallTalks
<1>5. n <= k
  BY HelperBehind
<1>6. k \in Nat
  BY <1>0, BegunTyped
<1>7. n \in Nat /\ Reach(h[HELPER], n) \in Nat
  BY <1>0, BegunTyped
<1>8. Reach(h[HELPER], n) <= n
  BY <1>7 DEF Reach
<1> QED
  BY <1>2, <1>4, <1>5, <1>6, <1>7, <1>8

LEMMA HelperLeaves ==
  ASSUME NEW h, NEW cs, Sound(cs), NEW c, NEW s, Linked(h, cs, c, s), Wired(c),
         NEW k, Begun(P1, h[P1], cs, s[P1], k),
         NEW m, Begun(P2, h[P2], cs, s[P2], m),
         NEW n, Begun(HELPER, h[HELPER], cs, s[HELPER], n), Over(HELPER, h[HELPER]),
         Spoken(cs[n]), cs[n].op # "CORE_MUL"
  PROVE  n <= k /\ n <= m
<1>0. P2 \in Roles /\ HELPER \in Roles /\ P2 # HELPER
  BY DEF Roles, P1, P2, HELPER
<1>1. h[HELPER].pc = "run"
  BY DEF Over
<1>2. cs[n] \in Call
  BY <1>0, <1>1, BegunTyped
<1>3. CallTalks(cs[n])
  BY <1>2, WholeTalks DEF Spoken
<1>4. n <= Reach(h[P2], m)
  BY <1>0, <1>3, Passed DEF CallTalks
<1>5. Reach(h[P2], m) = m
  BY P2Reaches
<1>6. n <= k
  BY HelperBehind
<1> QED
  BY <1>4, <1>5, <1>6

-----------------------------------------------------------------------------
(* The commands in their places.                                            *)

(* Among the first j calls, every command has its place, and every place    *)
(* its command.                                                             *)
Gathers(cs, j) ==
  /\ \A k \in 0..j : Number(cs, k) \in Nat /\ Number(cs, k) <= Number(cs, j)
  /\ \A k \in 1..j : IsCommand(cs[k]) => /\ Number(cs, k) # 0
                                         /\ CommandsAmong(cs)[j][Number(cs, k)] = cs[k]
  /\ \A i \in 1..Number(cs, j) : \E k \in 1..j : IsCommand(cs[k]) /\ Number(cs, k) = i

LEMMA GathersNext ==
  ASSUME NEW cs \in Seq(Call), NEW j \in Nat, j < Len(cs), Gathers(cs, j)
  PROVE  Gathers(cs, j + 1)
<1> DEFINE v == CommandsAmong(cs)[j]
           w == CommandsAmong(cs)[j + 1]
           u == cs[j + 1]
           a == Number(cs, j)
           b == Number(cs, j + 1)
<1>1. a \in Nat /\ b \in Nat /\ b = IF IsCommand(u) THEN a + 1 ELSE a
  BY NumberNext
<1>2. v \in Seq(Call) /\ a = Len(v) /\ u \in Call /\ w = IF IsCommand(u) THEN Append(v, u) ELSE v
  <2>1. j \in 0..Len(cs) /\ j + 1 \in 1..Len(cs) /\ (j + 1) - 1 = j
    OBVIOUS
  <2>2. v \in Seq(Call) /\ u \in Call
    BY <2>1, CommandSteps
  <2>3. w = IF IsCommand(cs[j + 1]) THEN Append(CommandsAmong(cs)[(j + 1) - 1], cs[j + 1])
                                    ELSE CommandsAmong(cs)[(j + 1) - 1]
    BY <2>1, CommandSteps
  <2> QED
    BY <2>1, <2>2, <2>3 DEF Number
<1>3. /\ \A k \in 0..j : Number(cs, k) \in Nat /\ Number(cs, k) <= a
      /\ \A k \in 1..j : IsCommand(cs[k]) => Number(cs, k) # 0 /\ v[Number(cs, k)] = cs[k]
      /\ \A i \in 1..a : \E k \in 1..j : IsCommand(cs[k]) /\ Number(cs, k) = i
  BY DEF Gathers
<1>4. \A k \in 0..(j + 1) : k = j + 1 \/ k \in 0..j
  OBVIOUS
<1>5. \A k \in 1..(j + 1) : k = j + 1 \/ k \in 1..j
  OBVIOUS
<1>6. \A k \in 0..(j + 1) : Number(cs, k) \in Nat /\ Number(cs, k) <= b
  <2> HIDE DEF a, v, w, u
  <2> QED
    BY <1>1, <1>3, <1>4
<1>7. ASSUME NEW k \in 1..(j + 1), IsCommand(cs[k])
      PROVE  Number(cs, k) # 0 /\ w[Number(cs, k)] = cs[k]
  <2>1. CASE k = j + 1
    <3>1. b = a + 1 /\ w = Append(v, u) /\ IsCommand(u)
      BY <1>1, <1>2, <1>7, <2>1
    <3> HIDE DEF a, v, w, u, b
    <3>2. w[a + 1] = u
      BY <1>2, <3>1
    <3>3. b # 0
      BY <1>1, <3>1
    <3>5. w[b] = u
      BY <3>1, <3>2
    <3> QED
      BY <2>1, <3>3, <3>5 DEF b, u
  <2>2. CASE k \in 1..j
    <3> DEFINE i == Number(cs, k)
    <3>1. k \in 0..j
      BY <2>2
    <3>2. i \in Nat /\ i <= a /\ i # 0 /\ v[i] = cs[k]
      BY <1>3, <1>7, <2>2, <3>1
    <3> HIDE DEF a, v, w, u, b, i
    <3>3. w[i] = v[i]
      BY <1>2, <3>2
    <3> QED
      BY <3>2, <3>3 DEF i
  <2> QED
    BY <1>5, <2>1, <2>2
<1>8. ASSUME NEW i \in 1..b
      PROVE  \E k \in 1..(j + 1) : IsCommand(cs[k]) /\ Number(cs, k) = i
  <2>1. CASE i \in 1..a
    <3>1. PICK k \in 1..j : IsCommand(cs[k]) /\ Number(cs, k) = i
      BY <1>3, <2>1
    <3>2. k \in 1..(j + 1)
      OBVIOUS
    <3> QED
      BY <3>1, <3>2
  <2>2. CASE i \notin 1..a
    <3>1. IsCommand(u) /\ i = b
      <4> HIDE DEF a, b, u
      <4> QED
        BY <1>1, <2>2
    <3>2. j + 1 \in 1..(j + 1)
      OBVIOUS
    <3> QED
      BY <3>1, <3>2
  <2> QED
    BY <2>1, <2>2
<1> QED
  BY <1>6, <1>7, <1>8 DEF Gathers

LEMMA GathersAll ==
  ASSUME NEW cs \in Seq(Call), NEW j \in 0..Len(cs)
  PROVE  Gathers(cs, j)
<1> DEFINE L == Len(cs)
           T == {k \in Nat : k <= L => Gathers(cs, k)}
<1>1. L \in Nat
  OBVIOUS
<1>2. 0 \in T
  <2>1. CommandsAmong(cs)[0] = <<>>
    BY CommandSteps
  <2>2. Number(cs, 0) = 0
    BY <2>1 DEF Number
  <2> QED
    BY <2>2 DEF Gathers
<1>3. ASSUME NEW k \in Nat, k \in T
      PROVE  k + 1 \in T
  <2>1. ASSUME k + 1 <= L
        PROVE  Gathers(cs, k + 1)
    <3>1. k < Len(cs) /\ k <= L
      BY <1>1, <2>1
    <3> QED
      BY <1>3, <3>1, GathersNext
  <2> HIDE DEF L
  <2> QED
    BY <2>1
<1>4. Nat \subseteq T
  <2> HIDE DEF T
  <2> QED
    BY <1>2, <1>3, SetInduction
<1>5. j \in Nat /\ j <= L
  BY <1>1
<1> HIDE DEF L
<1> QED
  BY <1>4, <1>5

(* Later calls have no lower number.                                        *)
LEMMA NumberGrows ==
  ASSUME NEW cs \in Seq(Call), NEW m \in 0..Len(cs), NEW k \in 0..Len(cs), m <= k
  PROVE  Number(cs, m) \in Nat /\ Number(cs, k) \in Nat /\ Number(cs, m) <= Number(cs, k)
<1>1. Gathers(cs, k)
  BY GathersAll
<1>2. m \in 0..k /\ k \in 0..k
  OBVIOUS
<1> QED
  BY <1>1, <1>2 DEF Gathers

(* The place of a command in the script, which ends with CORE_END.          *)
LEMMA CommandAt ==
  ASSUME NEW cs \in Seq(Call), NEW k \in 1..Len(cs), IsCommand(cs[k])
  PROVE  /\ Number(cs, k) \in 1..Len(CommandsAmong(cs)[Len(cs)])
         /\ CommandsAmong(cs)[Len(cs)][Number(cs, k)] = cs[k]
         /\ Number(cs, k - 1) = Number(cs, k) - 1
<1> DEFINE L == Len(cs)
<1>1. L \in Nat /\ L \in 0..L /\ k \in 0..L /\ k - 1 \in Nat /\ k - 1 < L /\ (k - 1) + 1 = k
  OBVIOUS
<1>2. Gathers(cs, L)
  BY <1>1, GathersAll
<1>3. /\ Number(cs, k) \in Nat /\ Number(cs, k) # 0 /\ Number(cs, k) <= Number(cs, L)
      /\ Number(cs, L) \in Nat /\ CommandsAmong(cs)[L][Number(cs, k)] = cs[k]
  <2> HIDE DEF L
  <2>1. k \in 1..L
    BY DEF L
  <2> QED
    BY <1>1, <1>2, <2>1 DEF Gathers
<1>4. Number(cs, k - 1) = Number(cs, k) - 1
  <2> DEFINE i == k - 1
  <2>1. i \in Nat /\ i < Len(cs) /\ i + 1 = k
    BY <1>1
  <2> HIDE DEF i
  <2>2. Number(cs, i) \in Nat /\ Number(cs, i + 1) = Number(cs, i) + 1
    BY <2>1, NumberNext
  <2> QED
    BY <2>1, <2>2 DEF i
<1>5. Number(cs, k) \in 1..Number(cs, L)
  BY <1>3
<1> QED
  BY <1>3, <1>4, <1>5 DEF Number

LEMMA ScriptOf ==
  ASSUME NEW cs, Sound(cs)
  PROVE  Abstract!IsScript(CommandsAmong(cs)[Len(cs)])
<1> DEFINE L == Len(cs)
           w == CommandsAmong(cs)[L]
           N == Len(w)
<1>1. cs \in Seq(Call) /\ L \in Nat /\ L # 0 /\ L \in 0..L /\ L \in 1..L
  BY DEF Sound
<1>2. cs[L].op = "CORE_END" /\ IsCommand(cs[L])
  <2>1. cs[L].op = "CORE_END"
    BY <1>1 DEF Sound
  <2> QED
    BY <2>1 DEF IsCommand, Commands
<1>3. w \in Seq(Call) /\ Number(cs, L) = N
  BY <1>1, CommandSteps DEF Number
<1>4. Gathers(cs, L)
  BY <1>1, GathersAll
<1>5. N \in 1..N
  <2>1. Number(cs, L) # 0 /\ Number(cs, L) \in Nat
    <3> HIDE DEF L
    <3> QED
      BY <1>1, <1>2, <1>4 DEF Gathers
  <2> QED
    BY <1>3, <2>1
<1>6. ASSUME NEW i \in 1..N
      PROVE  w[i] \in [op : Commands, n : Nat] /\ (w[i].op = "CORE_END" <=> i = N)
  <2>1. PICK k \in 1..L : IsCommand(cs[k]) /\ Number(cs, k) = i
    <3> HIDE DEF L, w
    <3> QED
      BY <1>3, <1>4 DEF Gathers
  <2>2. w[i] = cs[k] /\ k \in 1..Len(cs) /\ cs[k] \in Call
    <3>1. w[Number(cs, k)] = cs[k]
      <4> HIDE DEF L
      <4> QED
        BY <1>4, <2>1 DEF Gathers
    <3> QED
      BY <1>1, <2>1, <3>1
  <2>3. w[i] \in [op : Commands, n : Nat]
    BY <2>1, <2>2 DEF Call, IsCommand
  <2>4. w[i].op = "CORE_END" <=> k = L
    BY <2>2 DEF Sound
  <2>5. k = L <=> i = N
    <3>1. ASSUME k = L
          PROVE  i = N
      <4> HIDE DEF L, N
      <4> QED
        BY <1>3, <2>1, <3>1
    <3>2. ASSUME i = N, k # L
          PROVE  FALSE
      <4>1. k \in 0..L /\ L - 1 \in 0..L /\ k <= L - 1
        BY <1>1, <3>2
      <4>2. Number(cs, k) <= Number(cs, L - 1) /\ Number(cs, L - 1) \in Nat
        BY <1>1, <4>1, NumberGrows
      <4>3. Number(cs, L - 1) = Number(cs, L) - 1
        BY <1>1, <1>2, CommandAt
      <4> HIDE DEF L, w
      <4> QED
        BY <1>3, <1>5, <2>1, <3>2, <4>2, <4>3
    <3> QED
      BY <3>1, <3>2
  <2> QED
    BY <2>3, <2>4, <2>5
<1>7. w \in Seq([op : Commands, n : Nat])
  <2> DEFINE X == [op : Commands, n : Nat]
  <2>1. \A i \in 1..Len(w) : w[i] \in X
    BY <1>6
  <2> HIDE DEF w, X
  <2>2. Len(w) \in Nat /\ w = [i \in 1..Len(w) |-> w[i]]
    BY <1>3
  <2>3. w \in [1..Len(w) -> X]
    BY <2>1, <2>2
  <2>4. w \in Seq(X)
    BY <2>2, <2>3
  <2> QED
    BY <2>4 DEF X
<1>8. w # <<>>
  <2> HIDE DEF w
  <2>1. Len(<<>>) = 0
    OBVIOUS
  <2> QED
    BY <1>3, <1>5, <2>1
<1> HIDE DEF w, N
<1> QED
  BY <1>6, <1>7, <1>8 DEF Abstract!IsScript, w, N

-----------------------------------------------------------------------------
(* What a party's state says of its commands. *)

Script(cs) == CommandsAmong(cs)[Len(cs)]

(* The commands p has begun and ended.                                      *)
Commanded(p, x, cs) ==
  IF p \in Proxies THEN Number(cs, x.begun)
  ELSE IF x.pc = "exit" THEN x.begun + 1 ELSE x.begun
Finished(p, x, cs) ==
  IF x.pc # "run" THEN Commanded(p, x, cs)
  ELSE IF p = HELPER THEN x.begun - 1 ELSE Number(cs, x.begun - 1)

LEMMA CommandedIs ==
  ASSUME NEW p \in Roles, NEW x, NEW cs, Sound(cs), NEW s, NEW n, Begun(p, x, cs, s, n)
  PROVE  /\ n \in 0..Len(cs) /\ Reach(x, n) \in 0..Len(cs)
         /\ Commanded(p, x, cs) = Number(cs, Reach(x, n))
         /\ x.pc = "run" => /\ n # 0 /\ x.call = cs[n] /\ Commanded(p, x, cs) = Number(cs, n)
                            /\ Finished(p, x, cs) = Number(cs, n - 1)
                            /\ p = HELPER => IsCommand(cs[n])
<1> DEFINE L == Len(cs)
<1>0. P1 # HELPER /\ P2 # HELPER /\ (p \in Proxies <=> p # HELPER)
  BY DEF Roles, Proxies, P1, P2, HELPER
<1>1. L \in Nat /\ cs \in Seq(Call)
  BY DEF Sound
<1>2. PICK todo, e, place : Stands(p, x, cs, n, todo, e, place)
  BY DEF Begun
<1>3. /\ n \in 0..L /\ Counts(p, x, cs, n) /\ Position(p, x, cs, n, todo)
      /\ x.begun \in Nat /\ (p # HELPER => x.begun = n)
  BY <1>2 DEF Stands
<1>4. ASSUME n # 0, IsCommand(cs[n])
      PROVE  Number(cs, n) \in Nat /\ Number(cs, n - 1) = Number(cs, n) - 1
  <2>1. n \in 1..L /\ n \in 0..L
    BY <1>1, <1>3, <1>4
  <2>2. Number(cs, n - 1) = Number(cs, n) - 1
    BY <1>1, <1>4, <2>1, CommandAt
  <2>3. Number(cs, n) \in Nat
    BY <1>1, <2>1, NumberGrows
  <2> QED
    BY <2>2, <2>3
<1> HIDE DEF L
<1>5. CASE p # HELPER
  <2>1. x.pc # "size"
    BY <1>3, <1>5 DEF Position
  <2>2. Reach(x, n) = n /\ Commanded(p, x, cs) = Number(cs, n)
    BY <1>0, <1>3, <1>5, <2>1 DEF Reach, Commanded
  <2>3. x.pc = "run" => n # 0 /\ x.call = cs[n]
    BY <1>3 DEF Counts
  <2>4. x.pc = "run" => Finished(p, x, cs) = Number(cs, n - 1)
    BY <1>3, <1>5 DEF Finished
  <2> QED
    BY <1>3, <1>5, <2>2, <2>3, <2>4 DEF L
<1>6. CASE p = HELPER
  <2>1. /\ n # 0 => IsCommand(cs[n])
        /\ x.begun + (IF x.pc \in {"size", "exit"} THEN 1 ELSE 0) = Number(cs, n)
        /\ x.pc = "run" => n # 0 /\ x.call = cs[n]
    BY <1>3, <1>6 DEF Counts, IsCommand
  <2>2. CASE x.pc = "size"
    <3>1. n # 0 /\ Reach(x, n) = n - 1
      BY <1>3, <2>2 DEF Position, Reach
    <3>2. n - 1 \in 0..L
      BY <1>1, <1>3, <3>1
    <3>3. Number(cs, n) \in Nat /\ Number(cs, n - 1) = Number(cs, n) - 1
      BY <1>4, <2>1, <3>1
    <3>4. Commanded(p, x, cs) = x.begun /\ x.begun + 1 = Number(cs, n)
      BY <1>0, <1>6, <2>1, <2>2 DEF Commanded
    <3>5. x.begun = Number(cs, n - 1)
      BY <1>3, <3>3, <3>4
    <3> QED
      BY <1>3, <2>2, <3>1, <3>2, <3>4, <3>5 DEF L
  <2>3. CASE x.pc # "size"
    <3>1. Reach(x, n) = n
      BY <2>3 DEF Reach
    <3>2. Commanded(p, x, cs) = Number(cs, n)
      BY <1>0, <1>3, <1>6, <2>1, <2>3 DEF Commanded
    <3>3. ASSUME x.pc = "run"
          PROVE  Finished(p, x, cs) = Number(cs, n - 1)
      <4>1. x.begun = Number(cs, n) /\ n # 0 /\ IsCommand(cs[n])
        BY <1>3, <2>1, <3>3
      <4>2. Finished(p, x, cs) = x.begun - 1
        BY <1>6, <3>3 DEF Finished
      <4>3. Number(cs, n - 1) = Number(cs, n) - 1
        BY <1>4, <4>1
      <4> QED
        BY <4>1, <4>2, <4>3
    <3> QED
      BY <1>3, <2>1, <3>1, <3>2, <3>3 DEF L
  <2> QED
    BY <2>2, <2>3
<1> QED
  BY <1>5, <1>6

(* Who has taken up no fewer calls has begun no fewer commands.             *)
LEMMA NoFewer ==
  ASSUME NEW cs, Sound(cs), NEW n \in 0..Len(cs),
         NEW q \in Roles, NEW x, NEW s, NEW m, Begun(q, x, cs, s, m), n <= Reach(x, m)
  PROVE  Number(cs, n) <= Commanded(q, x, cs)
<1>1. Reach(x, m) \in 0..Len(cs) /\ Commanded(q, x, cs) = Number(cs, Reach(x, m))
  BY CommandedIs
<1>2. cs \in Seq(Call)
  BY DEF Sound
<1> QED
  BY <1>1, <1>2, NumberGrows

(* The calls all parties have taken up.                                     *)
LEMMA AllBegun ==
  ASSUME NEW h, NEW cs, NEW c, NEW s, Linked(h, cs, c, s)
  PROVE  \A p \in Roles : \E n : Begun(p, h[p], cs, s[p], n)
BY DEF Linked, Local, Begun

(* A party that leaves a command others have to answer knows them in it.    *)
Leaves(h, p, cs) ==
  LET b == Commanded(p, h[p], cs)
      u == h[p].call
  IN  /\ u.op \in Commands => b \in 1..Len(Script(cs)) /\ Finished(p, h[p], cs) = b - 1
                              /\ Script(cs)[b] = u
      /\ u.op \notin Commands => p # HELPER /\ Finished(p, h[p], cs) = b
      /\ Spoken(u) /\ ~(p = HELPER /\ u.op = "CORE_MUL") =>
           \A q \in Roles : b <= Commanded(q, h[q], cs)

LEMMA LeavesOver ==
  ASSUME NEW h, NEW cs, Sound(cs), NEW c, NEW s, Linked(h, cs, c, s), Wired(c),
         NEW p \in Roles, Over(p, h[p])
  PROVE  Leaves(h, p, cs)
<1> DEFINE b == Commanded(p, h[p], cs)
           u == h[p].call
           L == Len(cs)
<1>0. P1 \in Roles /\ P2 \in Roles /\ HELPER \in Roles /\ P2 # HELPER /\ P1 # HELPER /\ P1 # P2
  BY DEF Roles, P1, P2, HELPER
<1>1. cs \in Seq(Call) /\ L \in Nat
  BY DEF Sound
<1>2. PICK k : Begun(P1, h[P1], cs, s[P1], k)
  BY <1>0, AllBegun
<1>3. PICK m : Begun(P2, h[P2], cs, s[P2], m)
  BY <1>0, AllBegun
<1>4. PICK n : Begun(HELPER, h[HELPER], cs, s[HELPER], n)
  BY <1>0, AllBegun
<1>5. PICK i : Begun(p, h[p], cs, s[p], i) /\ (p = P1 => i = k) /\ (p = P2 => i = m)
                                           /\ (p = HELPER => i = n)
  BY <1>0, <1>2, <1>3, <1>4 DEF Roles
<1>6. h[p].pc = "run"
  BY DEF Over
<1>7. /\ i \in 0..L /\ i # 0 /\ u = cs[i] /\ b = Number(cs, i)
      /\ Finished(p, h[p], cs) = Number(cs, i - 1) /\ (p = HELPER => IsCommand(cs[i]))
  <2> DEFINE x == h[p]
             t == s[p]
  <2>1. Begun(p, x, cs, t, i) /\ x.pc = "run"
    BY <1>5, <1>6
  <2> HIDE DEF x, t
  <2>2. /\ i \in 0..Len(cs) /\ i # 0 /\ x.call = cs[i] /\ Commanded(p, x, cs) = Number(cs, i)
        /\ Finished(p, x, cs) = Number(cs, i - 1) /\ (p = HELPER => IsCommand(cs[i]))
    BY <2>1, CommandedIs
  <2> QED
    BY <2>2 DEF x
<1>8. i \in 1..L /\ cs[i] \in Call
  BY <1>1, <1>7
<1>9. u.op \in Commands => b \in 1..Len(Script(cs)) /\ Finished(p, h[p], cs) = b - 1
                           /\ Script(cs)[b] = u
  <2> SUFFICES ASSUME IsCommand(cs[i])
               PROVE  /\ b \in 1..Len(Script(cs)) /\ Finished(p, h[p], cs) = b - 1
                      /\ Script(cs)[b] = u
    BY <1>7 DEF IsCommand
  <2>1. /\ Number(cs, i) \in 1..Len(Script(cs)) /\ Script(cs)[Number(cs, i)] = cs[i]
        /\ Number(cs, i - 1) = Number(cs, i) - 1
    BY <1>1, <1>8, CommandAt DEF Script
  <2> QED
    BY <1>7, <2>1
<1>10. u.op \notin Commands => p # HELPER /\ Finished(p, h[p], cs) = b
  <2> SUFFICES ASSUME ~IsCommand(cs[i])
               PROVE  p # HELPER /\ Number(cs, i - 1) = Number(cs, i)
    BY <1>7 DEF IsCommand
  <2> DEFINE j == i - 1
  <2>1. j \in Nat /\ j < Len(cs) /\ j + 1 = i
    BY <1>1, <1>8
  <2> HIDE DEF j
  <2>2. Number(cs, j + 1) = Number(cs, j)
    BY <1>1, <2>1, NumberNext
  <2> QED
    BY <1>7, <2>1, <2>2 DEF j
<1>11. ASSUME Spoken(u), ~(p = HELPER /\ u.op = "CORE_MUL")
       PROVE  /\ i <= Reach(h[P1], k) /\ i <= Reach(h[P2], m) /\ i <= Reach(h[HELPER], n)
  <2>1. Reach(h[P2], m) = m /\ m \in Nat
    BY <1>3, P2Reaches
  <2>2. Reach(h[P1], k) = k /\ k \in Nat
    <3>1. Begun(P1, h[P1], cs, s[P1], k)
      BY <1>2
    <3> QED
      BY <3>1, P1Reaches
  <2>3. CASE p = P1
    <3>1. i = k /\ Over(P1, h[P1]) /\ Spoken(cs[k])
      BY <1>5, <1>7, <1>11, <2>3
    <3>2. k <= m /\ k <= Reach(h[HELPER], n)
      BY <1>2, <1>3, <1>4, <3>1, P1Leaves
    <3> QED
      BY <2>1, <2>2, <3>1, <3>2
  <2>4. CASE p = P2
    <3>1. i = m /\ Over(P2, h[P2]) /\ Spoken(cs[m])
      BY <1>5, <1>7, <1>11, <2>4
    <3>2. m <= k /\ m <= Reach(h[HELPER], n)
      BY <1>2, <1>3, <1>4, <3>1, P2Leaves
    <3> QED
      BY <2>1, <2>2, <3>1, <3>2
  <2>5. CASE p = HELPER
    <3>1. i = n /\ Over(HELPER, h[HELPER]) /\ Spoken(cs[n]) /\ cs[n].op # "CORE_MUL"
      BY <1>5, <1>7, <1>11, <2>5
    <3>2. n <= k /\ n <= m
      BY <1>2, <1>3, <1>4, <3>1, HelperLeaves
    <3>3. Reach(h[HELPER], n) = n
      BY <1>6, <2>5 DEF Reach
    <3>4. n <= n
      BY <1>7, <3>1
    <3> QED
      BY <2>1, <2>2, <3>1, <3>2, <3>3, <3>4
  <2> QED
    BY <2>3, <2>4, <2>5 DEF Roles
<1>12. ASSUME Spoken(u), ~(p = HELPER /\ u.op = "CORE_MUL")
       PROVE  \A q \in Roles : b <= Commanded(q, h[q], cs)
  <2>1. i \in 0..Len(cs)
    BY <1>7
  <2>2. Number(cs, i) <= Commanded(P1, h[P1], cs)
    BY <1>0, <1>2, <1>11, <1>12, <2>1, NoFewer
  <2>3. Number(cs, i) <= Commanded(P2, h[P2], cs)
    BY <1>0, <1>3, <1>11, <1>12, <2>1, NoFewer
  <2>4. Number(cs, i) <= Commanded(HELPER, h[HELPER], cs)
    BY <1>0, <1>4, <1>11, <1>12, <2>1, NoFewer
  <2> QED
    BY <1>7, <2>2, <2>3, <2>4 DEF Roles
<1> QED
  BY <1>9, <1>10, <1>12 DEF Leaves

(* The helper has taken up a command: the next of the script, and P1 is in  *)
(* it or past it.                                                           *)
LEMMA HelperNames ==
  ASSUME NEW h, NEW cs, Sound(cs), NEW c, NEW s, Linked(h, cs, c, s), Wired(c),
         h[HELPER].pc \in {"run", "exit"}
  PROVE  LET b == Commanded(HELPER, h[HELPER], cs)
         IN  /\ b \in 1..Len(Script(cs)) /\ b <= Commanded(P1, h[P1], cs)
             /\ h[HELPER].pc = "run" => Script(cs)[b] = h[HELPER].call
             /\ h[HELPER].pc = "exit" => Script(cs)[b].op = "CORE_END"
<1> DEFINE b == Commanded(HELPER, h[HELPER], cs)
           L == Len(cs)
<1>0. P1 \in Roles /\ HELPER \in Roles /\ P1 # HELPER
  BY DEF Roles, P1, P2, HELPER
<1>1. cs \in Seq(Call) /\ L \in Nat /\ L # 0
  BY DEF Sound
<1>2. PICK k : Begun(P1, h[P1], cs, s[P1], k)
  BY <1>0, AllBegun
<1>3. PICK n : Begun(HELPER, h[HELPER], cs, s[HELPER], n)
  BY <1>0, AllBegun
<1>4. Reach(h[HELPER], n) = n
  BY DEF Reach
<1>5. n \in 0..L /\ b = Number(cs, n) /\ (h[HELPER].pc = "run" => n # 0 /\ h[HELPER].call = cs[n])
  BY <1>0, <1>3, <1>4, CommandedIs
<1>6. h[HELPER].pc = "exit" => n = L
  <2>1. PICK todo, e, place : Stands(HELPER, h[HELPER], cs, n, todo, e, place)
    BY <1>3 DEF Begun
  <2> QED
    BY <2>1 DEF Stands, Counts
<1>7. n \in 1..L
  BY <1>1, <1>5, <1>6
<1>8. IsCommand(cs[n])
  <2>1. PICK todo, e, place : Stands(HELPER, h[HELPER], cs, n, todo, e, place)
    BY <1>3 DEF Begun
  <2>2. n # 0
    BY <1>7
  <2> QED
    BY <2>1, <2>2 DEF Stands, Counts, IsCommand
<1>9. Number(cs, n) \in 1..Len(Script(cs)) /\ Script(cs)[Number(cs, n)] = cs[n]
  BY <1>1, <1>7, <1>8, CommandAt DEF Script
<1>10. n <= Reach(h[P1], k)
  <2>1. n <= k
    BY <1>2, <1>3, HelperBehind
  <2>2. Reach(h[P1], k) = k
    BY <1>2, P1Reaches
  <2> QED
    BY <2>1, <2>2
<1>11. Number(cs, n) <= Commanded(P1, h[P1], cs)
  BY <1>0, <1>2, <1>5, <1>10, NoFewer
<1>12. h[HELPER].pc = "exit" => cs[n].op = "CORE_END"
  BY <1>6, <1>7 DEF Sound
<1> HIDE DEF b
<1> QED
  BY <1>5, <1>9, <1>11, <1>12 DEF b

-----------------------------------------------------------------------------
(* The session's steps are steps of the lock step. *)

LEMMA MapIs ==
  /\ CommandCalls = Script(calls)
  /\ \A p \in Roles : /\ BegunCommands[p] = Commanded(p, Now[p], calls)
                      /\ EndedCommands[p] = Finished(p, Now[p], calls)
  /\ DOMAIN BegunCommands = Roles /\ DOMAIN EndedCommands = Roles
<1>1. CommandCalls = Script(calls)
  BY DEF CommandCalls, Script
<1>2. \A n : CommandsIn(n) = Number(calls, n)
  BY DEF CommandsIn, Number
<1>3. \A p \in Roles : Now[p].pc = pc[p] /\ Now[p].begun = begun[p]
  BY DEF Now, Here
<1>4. \A p \in Roles : BegunCommands[p] = Commanded(p, Now[p], calls)
  BY <1>2, <1>3 DEF BegunCommands, Commanded
<1>5. \A p \in Roles : EndedCommands[p] = Finished(p, Now[p], calls)
  BY <1>2, <1>3, <1>4 DEF EndedCommands, Finished
<1>6. DOMAIN BegunCommands = Roles /\ DOMAIN EndedCommands = Roles
  BY DEF BegunCommands, EndedCommands
<1> QED
  BY <1>1, <1>4, <1>5, <1>6

LEMMA MapNext ==
  /\ CommandCalls' = Script(calls')
  /\ \A p \in Roles : /\ BegunCommands'[p] = Commanded(p, Now'[p], calls')
                      /\ EndedCommands'[p] = Finished(p, Now'[p], calls')
  /\ DOMAIN BegunCommands' = Roles /\ DOMAIN EndedCommands' = Roles
<1>1. CommandCalls' = Script(calls')
  BY DEF CommandCalls, Script
<1>2. \A n : CommandsIn(n)' = Number(calls', n)
  BY DEF CommandsIn, Number
<1>3. \A p \in Roles : Now'[p].pc = pc'[p] /\ Now'[p].begun = begun'[p]
  BY DEF Now, Here
<1>4. \A p \in Roles : BegunCommands'[p] = Commanded(p, Now'[p], calls')
  <2>1. \A p \in Roles :
          BegunCommands'[p] = IF p \in Proxies THEN Number(calls', begun'[p])
                              ELSE IF pc'[p] = "exit" THEN begun'[p] + 1 ELSE begun'[p]
    BY DEF BegunCommands, CommandsIn, Number
  <2> QED
    BY <1>3, <2>1 DEF Commanded
<1>5. \A p \in Roles : EndedCommands'[p] = Finished(p, Now'[p], calls')
  <2>1. \A p \in Roles :
          EndedCommands'[p] = IF pc'[p] # "run" THEN BegunCommands'[p]
                              ELSE IF p = HELPER THEN begun'[p] - 1
                              ELSE Number(calls', begun'[p] - 1)
    BY DEF EndedCommands, CommandsIn, Number
  <2> QED
    BY <1>3, <1>4, <2>1 DEF Finished
<1>6. DOMAIN BegunCommands' = Roles /\ DOMAIN EndedCommands' = Roles
  BY DEF BegunCommands, EndedCommands
<1> QED
  BY <1>1, <1>4, <1>5, <1>6

(* A step of p leaves what the others have begun and ended.                 *)
MapOf(f, g, p) == \A r \in Roles : r # p => g[r] = f[r]

LEMMA MapOthers ==
  ASSUME NEW p \in Roles, UNCHANGED calls,
         \A r \in Roles : r # p => pc'[r] = pc[r] /\ begun'[r] = begun[r]
  PROVE  /\ MapOf(BegunCommands, BegunCommands', p) /\ MapOf(EndedCommands, EndedCommands', p)
         /\ CommandCalls' = CommandCalls
         /\ p # HELPER /\ call'[HELPER] = call[HELPER] => Served' = Served
<1>1. \A r \in Roles : Now[r].pc = pc[r] /\ Now[r].begun = begun[r]
  BY DEF Now, Here
<1>2. \A r \in Roles : Now'[r].pc = pc'[r] /\ Now'[r].begun = begun'[r]
  BY DEF Now, Here
<1>3. \A r \in Roles : r # p => Commanded(r, Now'[r], calls) = Commanded(r, Now[r], calls)
  BY <1>1, <1>2 DEF Commanded
<1>4. \A r \in Roles : r # p => Finished(r, Now'[r], calls) = Finished(r, Now[r], calls)
  BY <1>1, <1>2, <1>3 DEF Finished
<1>5. MapOf(BegunCommands, BegunCommands', p)
  BY <1>3, MapIs, MapNext DEF MapOf
<1>6. MapOf(EndedCommands, EndedCommands', p)
  BY <1>4, MapIs, MapNext DEF MapOf
<1>7. CommandCalls' = CommandCalls
  BY MapIs, MapNext
<1>8. ASSUME p # HELPER, call'[HELPER] = call[HELPER]
      PROVE  Served' = Served
  <2>1. HELPER \in Roles
    BY DEF Roles
  <2>2. pc'[HELPER] = pc[HELPER]
    BY <1>8, <2>1
  <2> QED
    BY <1>8, <2>2 DEF Served
<1> QED
  BY <1>5, <1>6, <1>7, <1>8

(* A function of the parties that changes at p.                             *)
LEMMA ChangedAt ==
  ASSUME NEW f, NEW g, DOMAIN f = Roles, DOMAIN g = Roles, OfRoles(f), OfRoles(g),
         NEW p \in Roles, MapOf(f, g, p)
  PROVE  g = [f EXCEPT ![p] = g[p]] /\ (g[p] = f[p] => g = f)
BY DEF OfRoles, MapOf

LEMMA MapShape ==
  /\ OfRoles(BegunCommands) /\ OfRoles(EndedCommands)
  /\ OfRoles(BegunCommands') /\ OfRoles(EndedCommands')
BY DEF OfRoles, BegunCommands, EndedCommands

(* Nothing of the lock step changes.                                        *)
LEMMA MapStays ==
  ASSUME NEW p \in Roles, MapOf(BegunCommands, BegunCommands', p),
         MapOf(EndedCommands, EndedCommands', p), UNCHANGED <<CommandCalls, Served>>,
         BegunCommands'[p] = BegunCommands[p], EndedCommands'[p] = EndedCommands[p]
  PROVE  UNCHANGED Abstract!vars
<1>1. BegunCommands' = BegunCommands
  BY MapIs, MapNext, MapShape, ChangedAt
<1>2. EndedCommands' = EndedCommands
  BY MapIs, MapNext, MapShape, ChangedAt
<1> QED
  BY <1>1, <1>2 DEF Abstract!vars

LEMMA PartiesAre ==
  /\ Abstract!Parties = Roles /\ Abstract!P1 = P1 /\ Abstract!P2 = P2 /\ Abstract!HELPER = HELPER
BY DEF Abstract!Parties, Abstract!P1, Abstract!P2, Abstract!HELPER, Roles, P1, P2, HELPER

(* A proxy begins a command, or an opening, which is none.                  *)
LEMMA ProxyBegins ==
  ASSUME Inv, NEW p \in Proxies, BeginCall(p)
  PROVE  Abstract!Begin(p) \/ UNCHANGED Abstract!vars
<1> DEFINE n == begun[p]
           B == BegunCommands
           E == EndedCommands
           a == Number(calls, n)
           b == Number(calls, n + 1)
<1>0. p \in Roles /\ p # HELPER /\ HELPER \in Roles
  BY DEF Proxies, Roles, P1, P2, HELPER
<1>1. Sound(calls) /\ Shape /\ calls \in Seq(Call)
  BY NowSound DEF Inv, Sound
<1>2. /\ pc[p] = "call" /\ n < Len(calls) /\ calls' = calls
      /\ pc' = [pc EXCEPT ![p] = "run"] /\ begun' = [begun EXCEPT ![p] = @ + 1]
      /\ call' = [call EXCEPT ![p] = calls[n + 1]]
  BY DEF BeginCall, Start
<1>3. n \in Nat
  <2>1. PICK s : Local(p, Here(p), calls, s)
    BY <1>0, NowLocal
  <2>2. Here(p).begun \in 0..Len(calls)
    BY <1>0, <1>1, <2>1, LocalTyped
  <2> QED
    BY <1>0, <2>2, HereIs
<1>4. pc'[p] = "run" /\ begun'[p] = n + 1 /\ (n + 1) - 1 = n
      /\ \A r \in Roles : r # p => pc'[r] = pc[r] /\ begun'[r] = begun[r]
  BY <1>0, <1>1, <1>2, <1>3 DEF Shape
<1>5. MapOf(B, B', p) /\ MapOf(E, E', p) /\ CommandCalls' = CommandCalls /\ Served' = Served
  <2>1. call'[HELPER] = call[HELPER]
    BY <1>0, <1>1, <1>2 DEF Shape
  <2> QED
    BY <1>0, <1>2, <1>4, <2>1, MapOthers
<1>6. B[p] = a /\ E[p] = a
  BY <1>0, <1>2 DEF BegunCommands, EndedCommands, CommandsIn, Number
<1>7. B'[p] = b /\ E'[p] = a
  BY <1>0, <1>2, <1>4 DEF BegunCommands, EndedCommands, CommandsIn, Number
<1>8. CASE ~IsCommand(calls[n + 1])
  <2>1. b = a
    <3> HIDE DEF n
    <3> QED
      BY <1>1, <1>2, <1>3, <1>8, NumberNext
  <2> HIDE DEF n, a, b
  <2> QED
    BY <1>0, <1>5, <1>6, <1>7, <2>1, MapStays
<1>9. CASE IsCommand(calls[n + 1])
  <2>1. b = a + 1 /\ a \in Nat
    <3> HIDE DEF n
    <3> QED
      BY <1>1, <1>2, <1>3, <1>9, NumberNext
  <2>2. b \in 1..Len(CommandCalls)
    <3> DEFINE k == n + 1
    <3>1. k \in 1..Len(calls)
      BY <1>1, <1>2, <1>3
    <3> HIDE DEF k
    <3>2. Number(calls, k) \in 1..Len(CommandsAmong(calls)[Len(calls)])
      BY <1>1, <1>9, <3>1, CommandAt DEF k
    <3> QED
      BY <3>2 DEF k, CommandCalls
  <2>3. B' = [B EXCEPT ![p] = b] /\ E' = E
    <3> HIDE DEF n, a, b
    <3>1. B' = [B EXCEPT ![p] = B'[p]]
      BY <1>0, <1>5, MapIs, MapNext, MapShape, ChangedAt
    <3>2. E' = E
      BY <1>0, <1>5, <1>6, <1>7, MapIs, MapNext, MapShape, ChangedAt
    <3> QED
      BY <1>7, <3>1, <3>2
  <2>4. B' = [B EXCEPT ![p] = @ + 1]
    <3> HIDE DEF n, a, b
    <3> QED
      BY <1>6, <2>1, <2>3
  <2>5. B[p] = E[p] /\ B[p] < Len(CommandCalls)
    <3>1. Len(CommandCalls) \in Int
      <4>1. Abstract!IsScript(CommandCalls)
        BY <1>1, ScriptOf DEF CommandCalls
      <4> QED
        BY <4>1 DEF Abstract!IsScript
    <3> HIDE DEF n, a, b
    <3> QED
      BY <1>6, <2>1, <2>2, <3>1
  <2> HIDE DEF n, a, b
  <2>6. Abstract!Named(p) /\ ~Abstract!Stops(p)
    BY <1>0, <2>5, PartiesAre DEF Abstract!Named, Abstract!Stops
  <2>7. Abstract!Begin(p)
    BY <1>0, <1>5, <2>3, <2>4, <2>6, PartiesAre DEF Abstract!Begin
  <2> QED
    BY <2>7
<1> QED
  BY <1>8, <1>9

(* The calls of the settings have elements.                                 *)
LEMMA CallsSpoken ==
  ASSUME Inv, NEW n \in 1..Len(calls), calls[n].op \in Commands \ {"CORE_END"}
  PROVE  Spoken(calls[n])
<1> DEFINE x == [capacity |-> capacity, calls |-> calls]
<1>1. x \in Settings /\ x.calls = calls
  BY DEF Inv, Setting
<1> HIDE DEF x
<1>2. \A k \in 1..Len(x.calls) : x.calls[k].op \in SizedOps \ Metrics => x.calls[k].n # 0
  BY <1>1, SizesAssumption
<1> QED
  BY <1>1, <1>2 DEF Spoken

(* A party leaves a command.                                                *)
LEMMA Returns ==
  ASSUME Inv, NEW p \in Roles, ReturnFrom(p)
  PROVE  Abstract!End(p) \/ UNCHANGED Abstract!vars
<1> DEFINE x == Here(p)
           B == BegunCommands
           E == EndedCommands
           b == B[p]
           u == x.call
<1>0. HELPER \in Roles
  BY DEF Roles
<1>1. Sound(calls) /\ Shape /\ Wired(chan)
  BY NowSound DEF Inv
<1>2. /\ pc[p] = "run" /\ Joined(p) /\ at[p] = Len(BlocksOf(p)) /\ calls' = calls
      /\ pc' = [pc EXCEPT ![p] = IF p = HELPER THEN "command" ELSE "call"]
      /\ begun' = begun /\ call' = call
  BY DEF ReturnFrom, blockVars
<1>3. PICK s : Linked(Now, calls, chan, s)
  BY DEF Inv
<1>4. Local(p, x, calls, s[p]) /\ Now[p] = x
  BY <1>3, HereIs DEF Linked
<1>5. Over(p, x)
  <2>1. x = Here(p)
    OBVIOUS
  <2>2. x.pc = "run" /\ x.at = Len(Its(p, x))
    <3> HIDE DEF x
    <3> QED
      BY <1>2, HereIs DEF x
  <2> HIDE DEF x
  <2>3. InCall(p, x)
    BY <1>4, <2>2, RunTyped
  <2>4. \A i \in 1..Len(Threads(p, x)) : x.moved[i] = Len(Threads(p, x)[i].units)
    BY <1>2, <2>1, <2>3, JoinedIs
  <2> QED
    BY <2>2, <2>4 DEF Over
<1>6. Leaves(Now, p, calls)
  <2> DEFINE h == Now
  <2>1. Over(p, h[p]) /\ Linked(h, calls, chan, s)
    BY <1>3, <1>4, <1>5
  <2> HIDE DEF h
  <2>2. Leaves(h, p, calls)
    BY <1>1, <2>1, LeavesOver
  <2> QED
    BY <2>2 DEF h
<1>7. /\ u.op \in Commands => /\ b \in 1..Len(CommandCalls) /\ E[p] = b - 1
                              /\ CommandCalls[b] = u
      /\ u.op \notin Commands => p # HELPER /\ E[p] = b
      /\ Spoken(u) /\ ~(p = HELPER /\ u.op = "CORE_MUL") => \A q \in Roles : b <= B[q]
  <2>1. b = Commanded(p, Now[p], calls) /\ E[p] = Finished(p, Now[p], calls) /\ u = Now[p].call
        /\ (\A q \in Roles : B[q] = Commanded(q, Now[q], calls)) /\ CommandCalls = Script(calls)
    BY <1>4, MapIs
  <2> HIDE DEF b, u, B, E, x
  <2> QED
    BY <1>6, <2>1 DEF Leaves
<1>8. u.op \in Commands \ {"CORE_END"} => Spoken(u)
  <2>1. PICK n : Begun(p, x, calls, s[p], n)
    BY <1>4 DEF Local, Begun
  <2>2. x.pc = "run"
    BY <1>5 DEF Over
  <2>3. n \in 1..Len(calls) /\ u = calls[n]
    <3> HIDE DEF x
    <3>1. n \in 0..Len(calls) /\ n # 0 /\ x.call = calls[n]
      BY <1>1, <2>1, <2>2, CommandedIs
    <3>2. Len(calls) \in Nat
      BY <1>1 DEF Sound
    <3> QED
      BY <3>1, <3>2
  <2> QED
    BY <2>3, CallsSpoken
<1>9. \A r \in Roles : r # p => pc'[r] = pc[r] /\ begun'[r] = begun[r]
  BY <1>1, <1>2 DEF Shape
<1>10. MapOf(B, B', p) /\ MapOf(E, E', p) /\ CommandCalls' = CommandCalls
  BY <1>2, <1>9, MapOthers
<1>11. B'[p] = b /\ E'[p] = b
  <2>1. pc'[p] = (IF p = HELPER THEN "command" ELSE "call") /\ begun'[p] = begun[p] /\ pc[p] = "run"
    BY <1>1, <1>2 DEF Shape
  <2>2. B'[p] = b
    BY <1>2, <2>1 DEF BegunCommands, CommandsIn
  <2>3. E'[p] = B'[p]
    BY <2>1 DEF EndedCommands
  <2> QED
    BY <2>2, <2>3
<1>12. Served' = IF p = HELPER THEN Abstract!Nothing ELSE Served
  <2>1. CASE p = HELPER
    <3>1. pc'[HELPER] = "command"
      BY <1>0, <1>1, <1>2, <2>1 DEF Shape
    <3> QED
      BY <2>1, <3>1 DEF Served, Abstract!Nothing
  <2>2. CASE p # HELPER
    <3>1. Served' = Served
      BY <1>0, <1>2, <1>9, <2>2, MapOthers
    <3> QED
      BY <2>2, <3>1
  <2> QED
    BY <2>1, <2>2
<1>13. B' = B
  <2>1. MapOf(B, B', p) /\ B'[p] = B[p]
    BY <1>10, <1>11
  <2> QED
    BY <2>1, MapIs, MapNext, MapShape, ChangedAt
<1>14. E' = [E EXCEPT ![p] = b]
  <2>1. E' = [E EXCEPT ![p] = E'[p]]
    BY <1>10, MapIs, MapNext, MapShape, ChangedAt
  <2> QED
    BY <1>11, <2>1
<1> HIDE DEF x
<1>15. CASE u.op \in Commands
  <2>1. Abstract!Complete(p)
    <3>1. E[p] < B[p]
      <4> HIDE DEF B, E
      <4>1. b \in Int
        BY <1>7, <1>15
      <4> QED
        BY <1>7, <1>15, <4>1
    <3>2. ASSUME Abstract!Waits(p, CommandCalls[B[p]])
          PROVE  \A q \in Abstract!Parties : B[p] <= B[q]
      <4>1. u.op # "CORE_END" /\ ~(p = HELPER /\ u.op = "CORE_MUL")
        BY <1>7, <1>15, <3>2, PartiesAre DEF Abstract!Waits
      <4> QED
        BY <1>7, <1>8, <1>15, <4>1, PartiesAre
    <3> QED
      BY <3>1, <3>2 DEF Abstract!Complete
  <2>2. Abstract!End(p)
    BY <1>10, <1>12, <1>13, <1>14, <2>1, PartiesAre DEF Abstract!End
  <2> QED
    BY <2>2
<1>16. CASE u.op \notin Commands
  <2>1. p # HELPER /\ E[p] = b
    BY <1>7, <1>16
  <2>2. E'[p] = E[p] /\ B'[p] = B[p] /\ Served' = Served
    BY <1>11, <1>12, <2>1
  <2> QED
    BY <1>10, <2>2, MapStays
<1> QED
  BY <1>15, <1>16

LEMMA LinkedNext ==
  ASSUME Inv'
  PROVE  Wired(chan') /\ \E s : Linked(Now', calls', chan', s)
BY DEF Inv, Wired

LEMMA ScriptNow ==
  ASSUME Inv
  PROVE  Abstract!IsScript(CommandCalls) /\ Len(CommandCalls) \in Nat
<1>1. Sound(calls)
  BY NowSound
<1>2. Abstract!IsScript(CommandCalls)
  BY <1>1, ScriptOf DEF CommandCalls
<1> QED
  BY <1>2 DEF Abstract!IsScript

(* The helper takes up a command: what it has read is the next of the       *)
(* script, which P1 has begun.                                              *)
LEMMA HelperTakes ==
  ASSUME Inv, Inv', UNCHANGED calls, pc[HELPER] \in {"command", "size"},
         pc'[HELPER] \in {"run", "exit"},
         \A r \in Roles : r # HELPER => pc'[r] = pc[r] /\ begun'[r] = begun[r],
         pc'[HELPER] = "run" => begun'[HELPER] = begun[HELPER] + 1,
         pc'[HELPER] = "exit" => begun'[HELPER] = begun[HELPER]
  PROVE  LET b == BegunCommands[HELPER]
         IN  /\ b \in Nat /\ b + 1 \in 1..Len(CommandCalls) /\ b < BegunCommands[P1]
             /\ Abstract!Named(HELPER) /\ CommandCalls' = CommandCalls
             /\ BegunCommands' = [BegunCommands EXCEPT ![HELPER] = @ + 1]
             /\ pc'[HELPER] = "run" => /\ CommandCalls[b + 1] = call'[HELPER]
                                       /\ EndedCommands' = EndedCommands
             /\ pc'[HELPER] = "exit" => /\ CommandCalls[b + 1].op = "CORE_END"
                                        /\ EndedCommands' = [EndedCommands EXCEPT ![HELPER] = @ + 1]
<1> DEFINE B == BegunCommands
           E == EndedCommands
           b == B[HELPER]
           h == Now'
<1>0. HELPER \in Roles /\ P1 \in Roles /\ P1 # HELPER /\ P2 # HELPER /\ HELPER \notin Proxies
  BY DEF Roles, Proxies, P1, P2, HELPER
<1>1. Sound(calls)
  BY NowSound
<1>2. Wired(chan') /\ \E s : Linked(h, calls, chan', s)
  BY LinkedNext
<1>3. /\ h[HELPER].pc = pc'[HELPER] /\ h[HELPER].call = call'[HELPER]
  BY <1>0 DEF Now, Here
<1>4. /\ B'[HELPER] \in 1..Len(CommandCalls) /\ B'[HELPER] <= B'[P1]
      /\ pc'[HELPER] = "run" => CommandCalls[B'[HELPER]] = call'[HELPER]
      /\ pc'[HELPER] = "exit" => CommandCalls[B'[HELPER]].op = "CORE_END"
  <2>1. /\ B'[HELPER] = Commanded(HELPER, h[HELPER], calls)
        /\ B'[P1] = Commanded(P1, h[P1], calls) /\ CommandCalls = Script(calls)
    BY <1>0, MapIs, MapNext
  <2>2. h[HELPER].pc \in {"run", "exit"}
    BY <1>3
  <2>3. PICK s : Linked(h, calls, chan', s)
    BY <1>2
  <2> HIDE DEF h, B
  <2> DEFINE a == Commanded(HELPER, h[HELPER], calls)
             d == chan'
  <2>4. Wired(d) /\ Linked(h, calls, d, s)
    BY <1>2, <2>3
  <2> HIDE DEF d
  <2>5. /\ a \in 1..Len(Script(calls)) /\ a <= Commanded(P1, h[P1], calls)
        /\ h[HELPER].pc = "run" => Script(calls)[a] = h[HELPER].call
        /\ h[HELPER].pc = "exit" => Script(calls)[a].op = "CORE_END"
    BY <1>1, <2>2, <2>4, HelperNames
  <2> QED
    BY <1>3, <2>1, <2>5
<1>5. MapOf(B, B', HELPER) /\ MapOf(E, E', HELPER) /\ CommandCalls' = CommandCalls
  BY <1>0, MapOthers
<1>6. b = begun[HELPER] /\ E[HELPER] = b /\ B'[HELPER] = begun[HELPER] + 1
  <2>1. b = begun[HELPER] /\ E[HELPER] = b
    BY <1>0 DEF BegunCommands, EndedCommands
  <2>2. B'[HELPER] = IF pc'[HELPER] = "exit" THEN begun'[HELPER] + 1 ELSE begun'[HELPER]
    BY <1>0 DEF BegunCommands
  <2> QED
    BY <2>1, <2>2
<1>7. b \in Nat
  <2>1. PICK s : Local(HELPER, Here(HELPER), calls, s)
    BY <1>0, NowLocal
  <2>2. Here(HELPER).begun \in 0..Len(calls)
    BY <1>0, <1>1, <2>1, LocalTyped
  <2> QED
    BY <1>0, <1>6, <2>2, HereIs
<1>8. B'[P1] = B[P1]
  BY <1>0, <1>5 DEF MapOf
<1>9. E'[HELPER] = IF pc'[HELPER] = "run" THEN b ELSE b + 1
  <2>1. E'[HELPER] = IF pc'[HELPER] # "run" THEN B'[HELPER] ELSE begun'[HELPER] - 1
    BY <1>0 DEF EndedCommands
  <2> HIDE DEF B, E
  <2>2. pc'[HELPER] = "run" => begun'[HELPER] - 1 = b
    BY <1>6, <1>7
  <2> QED
    BY <1>6, <2>1, <2>2
<1>10. B' = [B EXCEPT ![HELPER] = b + 1] /\ E' = [E EXCEPT ![HELPER] = E'[HELPER]]
       /\ (E'[HELPER] = E[HELPER] => E' = E)
  <2>1. B' = [B EXCEPT ![HELPER] = B'[HELPER]]
    BY <1>0, <1>5, MapIs, MapNext, MapShape, ChangedAt
  <2>2. E' = [E EXCEPT ![HELPER] = E'[HELPER]] /\ (E'[HELPER] = E[HELPER] => E' = E)
    BY <1>0, <1>5, MapIs, MapNext, MapShape, ChangedAt
  <2>3. B'[HELPER] = b + 1
    BY <1>6
  <2> QED
    BY <2>1, <2>2, <2>3
<1>11. Len(CommandCalls) \in Nat
  BY ScriptNow
<1>12. b + 1 \in 1..Len(CommandCalls) /\ b < B[P1] /\ b < Len(CommandCalls)
  <2>1. B'[P1] \in Int
    <3>1. PICK s : Linked(h, calls, chan', s)
      BY <1>2
    <3>2. B'[P1] = Commanded(P1, h[P1], calls)
      BY <1>0, MapNext
    <3> HIDE DEF h, B
    <3> DEFINE d == chan'
    <3>3. Linked(h, calls, d, s)
      BY <3>1
    <3> HIDE DEF d
    <3>4. PICK n : Begun(P1, h[P1], calls, s[P1], n)
      BY <1>0, <3>3, AllBegun
    <3>5. Reach(h[P1], n) \in 0..Len(calls) /\ Commanded(P1, h[P1], calls) = Number(calls, Reach(h[P1], n))
      BY <1>0, <1>1, <3>4, CommandedIs
    <3>6. calls \in Seq(Call)
      BY <1>1 DEF Sound
    <3>7. Number(calls, Reach(h[P1], n)) \in Nat
      BY <3>5, <3>6, NumberGrows
    <3> QED
      BY <3>2, <3>5, <3>7
  <2> HIDE DEF B, b
  <2>2. b + 1 \in 1..Len(CommandCalls) /\ b + 1 <= B[P1] /\ B[P1] \in Int
    BY <1>4, <1>6, <1>8, <2>1
  <2> QED
    BY <1>7, <1>11, <2>2
<1>13. Abstract!Named(HELPER)
  BY <1>6, <1>12, PartiesAre DEF Abstract!Named
<1>14. E' = IF pc'[HELPER] = "run" THEN E ELSE [E EXCEPT ![HELPER] = @ + 1]
  <2>1. pc'[HELPER] = "run" => E' = E
    BY <1>6, <1>9, <1>10
  <2>2. pc'[HELPER] # "run" => E' = [E EXCEPT ![HELPER] = E[HELPER] + 1]
    BY <1>6, <1>9, <1>10
  <2> QED
    BY <2>1, <2>2
<1>15. pc'[HELPER] = "run" => CommandCalls[b + 1] = call'[HELPER]
  BY <1>4, <1>6
<1>16. pc'[HELPER] = "exit" => CommandCalls[b + 1].op = "CORE_END"
  BY <1>4, <1>6
<1> QED
  BY <1>5, <1>7, <1>10, <1>12, <1>13, <1>14, <1>15, <1>16

(* The helper's step that starts its part of a call.                        *)
LEMMA HelperBegins ==
  ASSUME Inv, Inv', UNCHANGED calls, pc[HELPER] \in {"command", "size"},
         pc' = [pc EXCEPT ![HELPER] = "run"], begun' = [begun EXCEPT ![HELPER] = @ + 1],
         call'[HELPER].op # "CORE_END"
  PROVE  Abstract!Begin(HELPER)
<1> DEFINE b == BegunCommands[HELPER]
<1>0. HELPER \in Roles
  BY DEF Roles
<1>1. Shape
  BY DEF Inv
<1>2. pc'[HELPER] = "run" /\ begun'[HELPER] = begun[HELPER] + 1
      /\ \A r \in Roles : r # HELPER => pc'[r] = pc[r] /\ begun'[r] = begun[r]
  BY <1>0, <1>1 DEF Shape
<1>3. /\ b \in Nat /\ b + 1 \in 1..Len(CommandCalls) /\ Abstract!Named(HELPER)
      /\ BegunCommands' = [BegunCommands EXCEPT ![HELPER] = @ + 1]
      /\ CommandCalls' = CommandCalls /\ CommandCalls[b + 1] = call'[HELPER]
      /\ EndedCommands' = EndedCommands
  <2>1. pc'[HELPER] \in {"run", "exit"} /\ pc'[HELPER] # "exit"
    BY <1>2
  <2> QED
    BY <1>2, <2>1, HelperTakes
<1>4. Served' = CommandCalls[b + 1]
  BY <1>2, <1>3 DEF Served
<1>5. ~Abstract!Stops(HELPER)
  BY <1>3 DEF Abstract!Stops
<1> QED
  BY <1>3, <1>4, <1>5, PartiesAre DEF Abstract!Begin

LEMMA ReadsByte ==
  ASSUME Inv, ReadByte
  PROVE  Abstract!Begin(HELPER) \/ Abstract!Stop(HELPER) \/ UNCHANGED Abstract!vars
<1> DEFINE op == Head(Incoming).msg
           b == BegunCommands[HELPER]
<1>0. HELPER \in Roles /\ HELPER \notin Proxies
  BY DEF Roles, Proxies, P1, P2, HELPER
<1>1. Inv' /\ Shape /\ calls' = calls /\ pc[HELPER] = "command"
  BY ReadByteInv DEF ReadByte, Inv
<1>2. CASE op \in ScalarOps
  <2>1. /\ pc' = [pc EXCEPT ![HELPER] = "run"] /\ begun' = [begun EXCEPT ![HELPER] = @ + 1]
        /\ call' = [call EXCEPT ![HELPER] = ACall(op, 0)]
    <3> DEFINE u == Head(Incoming)
    <3> HIDE DEF u
    <3> QED
      BY <1>2 DEF ReadByte, Start, u
  <2>2. call'[HELPER].op = op /\ op # "CORE_END"
    <3>1. call'[HELPER] = ACall(op, 0)
      <4> HIDE DEF op
      <4> QED
        BY <1>0, <1>1, <2>1 DEF Shape
    <3> HIDE DEF op
    <3> QED
      BY <1>2, <3>1 DEF ACall, ScalarOps
  <2> HIDE DEF op
  <2> QED
    BY <1>1, <2>1, <2>2, HelperBegins
<1>3. CASE op \notin ScalarOps
  <2> DEFINE next == CASE op \in SizedOps -> "size" [] op = "CORE_END" -> "exit"
                       [] OTHER -> "command"
  <2>1. pc' = [pc EXCEPT ![HELPER] = next] /\ begun' = begun
    <3> DEFINE u == Head(Incoming)
    <3> HIDE DEF u
    <3> QED
      BY <1>3 DEF ReadByte, u
  <2>2. next = IF op \in SizedOps THEN "size" ELSE IF op = "CORE_END" THEN "exit" ELSE "command"
    <3>1. "CORE_END" \notin SizedOps
      BY DEF SizedOps
    <3> HIDE DEF op
    <3> QED
      BY <3>1
  <2> HIDE DEF op, next
  <2>3. pc'[HELPER] = next /\ begun'[HELPER] = begun[HELPER]
        /\ \A r \in Roles : r # HELPER => pc'[r] = pc[r] /\ begun'[r] = begun[r]
    BY <1>0, <1>1, <2>1 DEF Shape
  <2>4. CASE next = "exit"
    <3>1. /\ b + 1 \in 1..Len(CommandCalls) /\ Abstract!Named(HELPER)
          /\ BegunCommands' = [BegunCommands EXCEPT ![HELPER] = @ + 1]
          /\ CommandCalls' = CommandCalls /\ CommandCalls[b + 1].op = "CORE_END"
          /\ EndedCommands' = [EndedCommands EXCEPT ![HELPER] = @ + 1]
      <4>1. pc'[HELPER] \in {"run", "exit"} /\ pc'[HELPER] = "exit" /\ pc'[HELPER] # "run"
        BY <2>3, <2>4
      <4> QED
        BY <1>1, <2>3, <4>1, HelperTakes
    <3>2. Served' = Served
      BY <1>1, <2>3, <2>4 DEF Served
    <3>3. Abstract!Stops(HELPER)
      BY <3>1, PartiesAre DEF Abstract!Stops
    <3> QED
      BY <3>1, <3>2, <3>3, PartiesAre DEF Abstract!Stop
  <2>5. CASE next # "exit"
    <3>1. next \in {"size", "command"}
      BY <2>2, <2>5
    <3>2. Served' = Served
      BY <1>1, <2>3, <3>1 DEF Served
    <3>3. /\ MapOf(BegunCommands, BegunCommands', HELPER)
          /\ MapOf(EndedCommands, EndedCommands', HELPER) /\ CommandCalls' = CommandCalls
      BY <1>0, <1>1, <2>3, MapOthers
    <3>4. BegunCommands'[HELPER] = BegunCommands[HELPER]
      BY <1>0, <1>1, <2>3, <3>1 DEF BegunCommands
    <3>5. EndedCommands'[HELPER] = EndedCommands[HELPER]
      BY <1>0, <1>1, <2>3, <3>1, <3>4 DEF EndedCommands
    <3> QED
      BY <1>0, <3>2, <3>3, <3>4, <3>5, MapStays
  <2> QED
    BY <2>4, <2>5
<1> QED
  BY <1>2, <1>3

LEMMA ReadsSize ==
  ASSUME Inv, ReadInt
  PROVE  Abstract!Begin(HELPER)
<1> DEFINE u == Head(Incoming)
           c == ACall(call[HELPER].op, u.k)
<1>0. HELPER \in Roles
  BY DEF Roles
<1>1. Inv' /\ Shape /\ calls' = calls /\ pc[HELPER] = "size"
  BY ReadIntInv DEF ReadInt, Inv
<1>2. /\ pc' = [pc EXCEPT ![HELPER] = "run"] /\ begun' = [begun EXCEPT ![HELPER] = @ + 1]
      /\ call' = [call EXCEPT ![HELPER] = c]
  BY DEF ReadInt, Start
<1>3. call[HELPER].op \in SizedOps
  <2>1. PICK s : Local(HELPER, Here(HELPER), calls, s)
    BY <1>0, <1>1, NowLocal
  <2> DEFINE x == Here(HELPER)
  <2>2. x.pc = "size" /\ x.call = call[HELPER]
    BY <1>0, <1>1, HereIs
  <2> HIDE DEF x
  <2>3. PICK n, todo : Position(HELPER, x, calls, n, todo)
    BY <2>1 DEF Local, Stands, x
  <2>4. calls[n].op \in SizedOps /\ x.call = ACall(calls[n].op, 0)
    BY <2>2, <2>3 DEF Position
  <2> QED
    BY <2>2, <2>4 DEF ACall
<1>4. call'[HELPER].op # "CORE_END"
  <2>1. call'[HELPER] = c
    <3> HIDE DEF c
    <3> QED
      BY <1>0, <1>1, <1>2 DEF Shape
  <2> QED
    BY <1>3, <2>1 DEF ACall, SizedOps
<1> HIDE DEF c, u
<1> QED
  BY <1>1, <1>2, <1>4, HelperBegins

(* A step that leaves every party where it is in its calls.                 *)
LEMMA CallsStay ==
  ASSUME UNCHANGED <<calls, pc, begun, call>>
  PROVE  UNCHANGED Abstract!vars
<1>1. CommandCalls' = CommandCalls /\ Served' = Served
  BY DEF CommandCalls, Served
<1>2. BegunCommands' = BegunCommands
  BY DEF BegunCommands, CommandsIn
<1>3. EndedCommands' = EndedCommands
  BY <1>2 DEF EndedCommands, CommandsIn
<1> QED
  BY <1>1, <1>2, <1>3 DEF Abstract!vars

LEMMA Exits ==
  ASSUME Inv, NEW p \in Proxies, Exit(p)
  PROVE  UNCHANGED Abstract!vars
<1>0. p \in Roles /\ p # HELPER /\ HELPER \in Roles
  BY DEF Proxies, Roles, P1, P2, HELPER
<1>1. /\ Shape /\ pc[p] = "call" /\ pc' = [pc EXCEPT ![p] = "exit"]
      /\ calls' = calls /\ begun' = begun /\ call' = call
  BY DEF Exit, Inv
<1>2. pc'[p] = "exit" /\ \A r \in Roles : r # p => pc'[r] = pc[r] /\ begun'[r] = begun[r]
  BY <1>0, <1>1 DEF Shape
<1>3. /\ MapOf(BegunCommands, BegunCommands', p) /\ MapOf(EndedCommands, EndedCommands', p)
      /\ CommandCalls' = CommandCalls /\ Served' = Served
  BY <1>0, <1>1, <1>2, MapOthers
<1>4. BegunCommands'[p] = BegunCommands[p]
  BY <1>0, <1>1 DEF BegunCommands, CommandsIn
<1>5. EndedCommands'[p] = EndedCommands[p]
  BY <1>0, <1>1, <1>2, <1>4 DEF EndedCommands
<1> QED
  BY <1>0, <1>3, <1>4, <1>5, MapStays

LEMMA StartsTogether ==
  ASSUME Init
  PROVE  Abstract!Init
<1>0. HELPER \in Roles /\ HELPER \notin Proxies
  BY DEF Roles, Proxies, P1, P2, HELPER
<1>1. Inv
  BY InitInv
<1>2. Sound(calls)
  BY <1>1, NowSound
<1>3. /\ \A p \in Roles : begun[p] = 0 /\ pc[p] # "run" /\ pc[p] # "exit"
  BY DEF Init
<1>4. CommandsIn(0) = 0
  <2>1. calls \in Seq(Call) /\ 0 \in Nat /\ 0 < Len(calls)
    BY <1>2 DEF Sound
  <2> QED
    BY <2>1, NumberNext DEF CommandsIn, Number
<1>5. BegunCommands = [p \in Roles |-> 0]
  BY <1>3, <1>4 DEF BegunCommands
<1>6. EndedCommands = [p \in Roles |-> 0]
  BY <1>3, <1>5 DEF EndedCommands
<1>7. Served = Abstract!Nothing
  BY <1>0, <1>3 DEF Served, Abstract!Nothing
<1> QED
  BY <1>1, <1>5, <1>6, <1>7, ScriptNow, PartiesAre DEF Abstract!Init

LEMMA StepsTogether ==
  ASSUME Inv, [Next]_vars
  PROVE  [Abstract!Next]_Abstract!vars
<1> USE PartiesAre
<1>1. CASE UNCHANGED vars
  BY <1>1, CallsStay DEF vars
<1>2. CASE Done
  BY <1>2, CallsStay DEF Done, vars
<1>3. ASSUME NEW p \in Roles, NEW i \in {1, 2}, Thread(p, i)
      PROVE  UNCHANGED Abstract!vars
  BY <1>3, CallsStay DEF Thread, SendUnit, ReceiveUnit
<1>4. ASSUME NEW p \in Roles, Main(p)
      PROVE  [Abstract!Next]_Abstract!vars
  <2>0. p \in Abstract!Parties /\ HELPER \in Abstract!Parties /\ Proxies \subseteq Roles
    BY DEF Roles, Proxies
  <2>1. CASE NextBlock(p)
    BY <2>1, CallsStay DEF NextBlock
  <2>2. CASE ReturnFrom(p)
    BY <2>0, <2>2, Returns DEF Abstract!Next
  <2>3. CASE p \in Proxies /\ BeginCall(p)
    BY <2>0, <2>3, ProxyBegins DEF Abstract!Next
  <2>4. CASE p \in Proxies /\ Exit(p)
    BY <2>4, Exits
  <2>5. CASE p = HELPER /\ ReadByte
    BY <2>0, <2>5, ReadsByte DEF Abstract!Next
  <2>6. CASE p = HELPER /\ ReadInt
    BY <2>0, <2>6, ReadsSize DEF Abstract!Next
  <2> QED
    BY <1>4, <2>1, <2>2, <2>3, <2>4, <2>5, <2>6 DEF Main
<1> QED
  BY <1>1, <1>2, <1>3, <1>4 DEF Next

(* Whatever the calls, their sizes and the room in the sockets, the session *)
(* keeps the three parties in lock step: the helper serves the command the  *)
(* proxies are in, with its size, and nobody leaves a command the others    *)
(* have not reached.                                                        *)
THEOREM SessionImplements == Spec => ImplementsLockstep
<1>1. Init => Abstract!Init
  BY StartsTogether
<1>2. Inv /\ [Next]_vars => [Abstract!Next]_Abstract!vars
  BY StepsTogether
<1> QED
  BY <1>1, <1>2, Invariance, PTL DEF Spec, ImplementsLockstep, Abstract!Spec

-----------------------------------------------------------------------------
(* What the lock step promises, and the session with it. *)

USE DEF Abstract!Parties, Abstract!P1, Abstract!P2, Abstract!HELPER,
        Roles, Proxies, P1, P2, HELPER

(* A proxy that has left a command knows the others in it or past it, but   *)
(* for the last one, CORE_END.  The helper leaves its scalar product alone, *)
(* so of the helper only this is known: it follows P1.                      *)
LeftBehind ==
    \A p \in Proxies : \A q \in Roles :
        \/ EndedCommands[p] <= BegunCommands[q]
        \/ EndedCommands[p] = Len(CommandCalls) /\ Len(CommandCalls) <= BegunCommands[q] + 1
HelperFollows == BegunCommands[HELPER] <= BegunCommands[P1]
Serves ==
    EndedCommands[HELPER] < BegunCommands[HELPER] =>
        Served = CommandCalls[BegunCommands[HELPER]]

KeepsStep == Abstract!TypeOK /\ LeftBehind /\ HelperFollows /\ Serves

LEMMA KeepsStepAtFirst == Abstract!Init => KeepsStep
  BY DEF Abstract!Init, Abstract!IsScript, Abstract!Nothing, Abstract!TypeOK,
         KeepsStep, LeftBehind, HelperFollows, Serves

LEMMA ScriptFacts ==
  ASSUME Abstract!IsScript(CommandCalls)
  PROVE  /\ Len(CommandCalls) \in Nat \ {0}
         /\ \A m \in 1..Len(CommandCalls) :
               (CommandCalls[m].op = "CORE_END") = (m = Len(CommandCalls))
  BY DEF Abstract!IsScript

LEMMA LockstepBegin ==
  ASSUME KeepsStep, NEW p \in Roles, Abstract!Begin(p)
  PROVE  KeepsStep'
<1>0. Len(CommandCalls) \in Nat \ {0}
  BY ScriptFacts DEF KeepsStep, Abstract!TypeOK
<1>1. Abstract!TypeOK'
  BY <1>0 DEF KeepsStep, Abstract!TypeOK, Abstract!Begin, Abstract!Named
<1>2. LeftBehind'
  BY <1>0 DEF KeepsStep, Abstract!TypeOK, LeftBehind, Abstract!Begin
<1>3. HelperFollows'
  BY <1>0 DEF KeepsStep, Abstract!TypeOK, HelperFollows, Abstract!Begin, Abstract!Named
<1>4. Serves'
  BY <1>0 DEF KeepsStep, Abstract!TypeOK, Serves, Abstract!Begin, Abstract!Named
<1> QED
  BY <1>1, <1>2, <1>3, <1>4 DEF KeepsStep

LEMMA LockstepStop ==
  ASSUME KeepsStep, NEW p \in Roles, Abstract!Stop(p)
  PROVE  KeepsStep'
<1>0. Len(CommandCalls) \in Nat \ {0}
  BY ScriptFacts DEF KeepsStep, Abstract!TypeOK
<1>1. Abstract!TypeOK'
  BY <1>0 DEF KeepsStep, Abstract!TypeOK, Abstract!Stop, Abstract!Named
<1>2. LeftBehind'
  BY <1>0 DEF KeepsStep, Abstract!TypeOK, LeftBehind, Abstract!Stop, Abstract!Stops
<1>3. HelperFollows'
  BY <1>0 DEF KeepsStep, Abstract!TypeOK, HelperFollows, Abstract!Stop, Abstract!Stops,
              Abstract!Named
<1>4. Serves'
  BY <1>0 DEF KeepsStep, Abstract!TypeOK, Serves, Abstract!Stop, Abstract!Stops,
              Abstract!Named
<1> QED
  BY <1>1, <1>2, <1>3, <1>4 DEF KeepsStep

LEMMA LockstepEnd ==
  ASSUME KeepsStep, NEW p \in Roles, Abstract!End(p)
  PROVE  KeepsStep'
<1>0. /\ Len(CommandCalls) \in Nat \ {0}
      /\ \A m \in 1..Len(CommandCalls) :
            (CommandCalls[m].op = "CORE_END") = (m = Len(CommandCalls))
  BY ScriptFacts DEF KeepsStep, Abstract!TypeOK
<1>1. Abstract!TypeOK'
  BY <1>0 DEF KeepsStep, Abstract!TypeOK, Abstract!End, Abstract!Complete
<1>2. LeftBehind'
  <2> SUFFICES ASSUME p \in Proxies, NEW q \in Roles
               PROVE  \/ BegunCommands[p] <= BegunCommands[q]
                      \/ BegunCommands[p] = Len(CommandCalls)
                         /\ Len(CommandCalls) <= BegunCommands[q] + 1
    BY <1>0 DEF KeepsStep, Abstract!TypeOK, LeftBehind, Abstract!End
  <2>1. BegunCommands[p] = EndedCommands[p] + 1 /\ BegunCommands[p] \in 1..Len(CommandCalls)
    BY <1>0 DEF KeepsStep, Abstract!TypeOK, Abstract!End, Abstract!Complete
  <2>2. CASE CommandCalls[BegunCommands[p]].op = "CORE_END"
    <3>1. BegunCommands[p] = Len(CommandCalls)
      BY <1>0, <2>1, <2>2
    <3>2. EndedCommands[p] <= BegunCommands[q]
      BY <1>0, <2>1, <3>1 DEF KeepsStep, Abstract!TypeOK, LeftBehind
    <3> QED
      BY <1>0, <2>1, <3>1, <3>2 DEF KeepsStep, Abstract!TypeOK
  <2>3. CASE CommandCalls[BegunCommands[p]].op # "CORE_END"
    BY <2>3 DEF Abstract!End, Abstract!Complete, Abstract!Waits
  <2> QED
    BY <2>2, <2>3
<1>3. HelperFollows'
  BY DEF KeepsStep, HelperFollows, Abstract!End
<1>4. Serves'
  BY <1>0 DEF KeepsStep, Abstract!TypeOK, Serves, Abstract!End, Abstract!Complete
<1> QED
  BY <1>1, <1>2, <1>3, <1>4 DEF KeepsStep

(* The rules of the lock step alone keep all of this.                       *)
LEMMA LockstepInvariance == Abstract!Spec => []KeepsStep
<1>1. KeepsStep /\ [Abstract!Next]_Abstract!vars => KeepsStep'
  <2> SUFFICES ASSUME KeepsStep, [Abstract!Next]_Abstract!vars
               PROVE  KeepsStep'
    OBVIOUS
  <2>1. CASE Abstract!Next
    BY <2>1, LockstepBegin, LockstepStop, LockstepEnd DEF Abstract!Next
  <2>2. CASE UNCHANGED Abstract!vars
    BY <2>2 DEF Abstract!vars, KeepsStep, Abstract!TypeOK, LeftBehind, HelperFollows, Serves
  <2> QED
    BY <2>1, <2>2
<1> QED
  BY KeepsStepAtFirst, <1>1, PTL DEF Abstract!Spec

-----------------------------------------------------------------------------
(* Every party begins and ends the session's commands one at a time.        *)
THEOREM LockstepTyped == Spec => []Abstract!TypeOK
  BY SessionImplements, LockstepInvariance, PTL DEF KeepsStep, ImplementsLockstep

(* No two parties are ever more than one command apart, whatever the calls, *)
(* their sizes and the sockets are.                                         *)
THEOREM WithinOneCommand == Spec => []Abstract!Adjacent
<1>1. KeepsStep => Abstract!Adjacent
  <2> SUFFICES ASSUME KeepsStep, NEW p \in Roles, NEW q \in Roles
               PROVE  BegunCommands[p] <= BegunCommands[q] + 1
    BY DEF Abstract!Adjacent
  <2>1. \A r \in Roles :
                    /\ BegunCommands[r] \in Nat /\ EndedCommands[r] \in Nat
                    /\ BegunCommands[r] <= EndedCommands[r] + 1
                    /\ BegunCommands[r] <= Len(CommandCalls)
    BY ScriptFacts DEF KeepsStep, Abstract!TypeOK
  <2>2. ASSUME NEW r \in Proxies
        PROVE  BegunCommands[r] <= BegunCommands[q] + 1
    <3> DEFINE b == BegunCommands[r]
               d == EndedCommands[r]
               c == BegunCommands[q]
               l == Len(CommandCalls)
    <3>1. d <= c \/ (d = l /\ l <= c + 1)
      <4>1. LeftBehind
        BY DEF KeepsStep
      <4> QED
        BY <4>1 DEF LeftBehind
    <3>2. b \in Nat /\ d \in Nat /\ b <= d + 1 /\ b <= l /\ c \in Nat
      BY <2>1 DEF Proxies, Roles
    <3>3. l \in Nat
      BY ScriptFacts DEF KeepsStep, Abstract!TypeOK
    <3> HIDE DEF b, d, c, l
    <3>4. b <= c + 1
      BY <3>1, <3>2, <3>3
    <3> QED
      BY <3>4 DEF b, c
  <2>3. BegunCommands[HELPER] <= BegunCommands[P1]
    BY DEF KeepsStep, HelperFollows
  <2> QED
    BY <2>1, <2>2, <2>3
<1> QED
  BY SessionImplements, LockstepInvariance, <1>1, PTL DEF ImplementsLockstep

(* The helper serves the command in its place of the session, with its      *)
(* size, and P1 has begun it.                                               *)
THEOREM HelperServes == Spec => []Abstract!ServesTheScript
<1>1. KeepsStep => Abstract!ServesTheScript
  BY DEF KeepsStep, Serves, HelperFollows, Abstract!ServesTheScript
<1> QED
  BY SessionImplements, LockstepInvariance, <1>1, PTL DEF ImplementsLockstep

(* Until all three have ended the session's commands, what they wait for is *)
(* never circular: the lock step leaves one of them able to go on.          *)
THEOREM LockstepNeverStuck == Spec => []Abstract!NeverStuck
<1>1. KeepsStep => Abstract!NeverStuck
  <2> SUFFICES ASSUME KeepsStep,
                      \A p \in Roles : ~Abstract!Named(p) /\ ~Abstract!Complete(p)
               PROVE  \A p \in Roles : EndedCommands[p] = Len(CommandCalls)
    BY DEF Abstract!NeverStuck
  <2>1. \A r \in Roles : /\ BegunCommands[r] \in 0..Len(CommandCalls)
                          /\ EndedCommands[r] \in 0..Len(CommandCalls)
                          /\ BegunCommands[r] \in {EndedCommands[r], EndedCommands[r] + 1}
    BY DEF KeepsStep, Abstract!TypeOK
  <2>2. /\ Len(CommandCalls) \in Nat \ {0}
        /\ \A m \in 1..Len(CommandCalls) :
              (CommandCalls[m].op = "CORE_END") = (m = Len(CommandCalls))
    BY ScriptFacts DEF KeepsStep, Abstract!TypeOK
  <2>3. \A p \in Proxies :
          EndedCommands[p] < BegunCommands[p] \/ EndedCommands[p] = Len(CommandCalls)
    BY <2>1, <2>2 DEF Abstract!Named
  <2>4. \/ EndedCommands[HELPER] < BegunCommands[HELPER]
        \/ EndedCommands[HELPER] = Len(CommandCalls)
        \/ BegunCommands[HELPER] = BegunCommands[P1]
    BY <2>1, <2>2 DEF KeepsStep, HelperFollows, Abstract!Named
  <2>5. \A p \in Roles : EndedCommands[p] < BegunCommands[p] =>
            /\ BegunCommands[p] # Len(CommandCalls)
            /\ \E q \in Roles : BegunCommands[q] < BegunCommands[p]
    BY <2>1, <2>2 DEF Abstract!Complete, Abstract!Waits
  <2>6. \A p \in Proxies : \A q \in Roles :
            \/ EndedCommands[p] <= BegunCommands[q]
            \/ EndedCommands[p] = Len(CommandCalls) /\ Len(CommandCalls) <= BegunCommands[q] + 1
    BY DEF KeepsStep, LeftBehind
  <2>7. BegunCommands[HELPER] <= BegunCommands[P1]
    BY DEF KeepsStep, HelperFollows
  <2>8. EndedCommands[P2] = Len(CommandCalls)
    BY <2>1, <2>2, <2>3, <2>4, <2>5, <2>6, <2>7
  <2>9. EndedCommands[P1] = Len(CommandCalls)
    BY <2>1, <2>2, <2>3, <2>4, <2>5, <2>6, <2>7, <2>8
  <2> QED
    BY <2>1, <2>2, <2>4, <2>5, <2>6, <2>7, <2>8, <2>9
<1> QED
  BY SessionImplements, LockstepInvariance, <1>1, PTL DEF ImplementsLockstep

=============================================================================
