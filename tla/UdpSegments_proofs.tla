------------------------- MODULE UdpSegments_proofs -------------------------
(***************************************************************************)
(* Proofs about segmented data over UDP: whatever the parser puts together *)
(* is a whole unit, and no reliable unit loses a part before its deadline. *)
(***************************************************************************)
EXTENDS UdpSegments, FiniteSetTheorems, TLAPS

-----------------------------------------------------------------------------
(* The inductive invariant.  It is stated of packages N that are under     *)
(* way, discardable datagrams L, a sender d and a parser p, so that it can *)
(* also be said of a datagram that is half filled or half parsed: one that *)
(* is parsed is a package of the sections that are left.                   *)

Sender == [queue |-> queue, sending |-> sending, id |-> packageId, ciphered |-> ciphered]

Parser == [cache |-> cache, deciphered |-> deciphered, delivered |-> delivered,
           garbled |-> garbled, cleared |-> cleared, ok |-> TRUE]

Pieces(c) == UNION {c[i] : i \in DOMAIN c}

PieceType ==
    [index : Nat \ {0}, unit : Units, from : Nat, bytes : Nat, isLast : BOOLEAN,
     inStep : BOOLEAN]

\* The sections that are somewhere on their way.
Flat(N, L) ==
    (UNION {{g.sections[i] : i \in DOMAIN g.sections} : g \in N})
      \cup (UNION {{l[i] : i \in DOMAIN l} : l \in L})

\* The parts of units that are on their way or cached.
Parts(N, L, c) == {x \in Flat(N, L) : x.kind # "cancel"} \cup Pieces(c)

\* Units that left the queue, in the order they were pushed.
Taken(d) == pushed - Len(d.queue)

\* How many ids were used up to this one.
Age(id) == IF id >= FirstId THEN id - FirstId ELSE id - FirstId + IdSpace

SenderInv(d) ==
    /\ d.queue \in Seq(Units) /\ Len(d.queue) <= pushed
    /\ \A i \in 1 .. Len(d.queue) : d.queue[i] = Taken(d) + i
    /\ d.id \in 0 .. IdSpace - 1 /\ Age(d.id) <= Taken(d)
    /\ d.sending \in [unit : Units \cup {0}, next : Nat, offset : Nat]
    /\ d.sending.unit # 0 =>
          d.sending.unit <= Taken(d) /\ d.sending.next > 1 /\ d.sending.offset < Size[d.sending.unit]
    /\ d.ciphered \in Nat

NetInv(N, L, d) ==
    /\ \A g \in N : g.no \in Nat /\ DOMAIN g.sections \subseteq Nat
    /\ \A g, h \in N : g.no = h.no => g = h
    /\ \A l \in L : \A i \in DOMAIN l : l[i].unit \in Oneway
    /\ \A x \in Flat(N, L) :
          /\ x \in Sections /\ x.unit <= Taken(d)
          /\ x.kind = "cancel" => x.unit \in expired
          /\ x.kind = "data" <=> x.index = 0
          /\ x.oneway <=> x.unit \in Oneway

CacheInv(c) ==
    /\ DOMAIN c \subseteq 0 .. IdSpace - 1
    /\ \A i \in DOMAIN c :
          /\ c[i] \subseteq PieceType /\ IsFiniteSet(c[i]) /\ c[i] # {}
          /\ \A x \in c[i] : x.inStep
          /\ \A x, y \in c[i] : x.index = y.index => x = y
          /\ ~Complete(c[i])

(* An id is that of one unit.                                              *)
Named(id, u, N, L, c, d) ==
    \/ \E x \in Flat(N, L) : x.kind # "data" /\ x.id = id /\ x.unit = u
    \/ id \in DOMAIN c /\ \E x \in c[id] : x.unit = u
    \/ d.sending.unit # 0 /\ u = d.sending.unit /\ id = d.id

IdInv(N, L, c, d) ==
    \A a, b \in 0 .. IdSpace - 1 : \A u, v \in Units :
        Named(a, u, N, L, c, d) /\ Named(b, v, N, L, c, d) =>
            (a = b <=> u = v) /\ Age(a) \in 1 .. Age(d.id)

(* The parts of a unit follow each other; index 0 is all of it.            *)
PartFits(k, d) ==
    /\ k.unit <= Taken(d) /\ k.from + k.bytes <= Size[k.unit]
    /\ k.index = 0 => k.bytes = Size[k.unit]
    /\ k.index \in {0, 1} => k.from = 0 /\ ~k.isLast
    /\ k.isLast => k.from + k.bytes = Size[k.unit]
    /\ k.unit = d.sending.unit =>
          /\ k.index \in 1 .. d.sending.next - 1 /\ ~k.isLast
          /\ k.index = d.sending.next - 1 => k.from + k.bytes = d.sending.offset

Adjoin(k, l) ==
    /\ k.index = l.index => k.from = l.from /\ k.bytes = l.bytes /\ k.isLast = l.isLast
    /\ k.index # 0 /\ l.index = k.index + 1 => l.from = k.from + k.bytes
    /\ k.isLast => l.index <= k.index
    /\ k.index = 0 => l.index = 0

ChainInv(K, d) ==
    /\ \A k \in K : PartFits(k, d)
    /\ \A k, l \in K : k.unit = l.unit => Adjoin(k, l)

(* A part of a reliable package is nowhere else.                           *)
SamePart(x, y) == x.unit = y.unit /\ x.index = y.index

KeyInv(N, L, c) ==
    \A g \in N : \A i \in DOMAIN g.sections :
        LET x == g.sections[i] IN
        x.kind # "cancel" =>
            /\ \A h \in N : \A j \in DOMAIN h.sections :
                  LET y == h.sections[j] IN
                  y.kind # "cancel" /\ SamePart(x, y) => h.no = g.no /\ j = i
            /\ \A l \in L : \A j \in DOMAIN l : l[j].kind # "cancel" => ~SamePart(x, l[j])
            /\ \A y \in Pieces(c) : ~SamePart(x, y)

(* Nothing is left of a reliable unit that was handed over.                *)
OnceInv(K, d, p) ==
    /\ p.delivered \in [Units -> 0 .. 2] /\ ~p.garbled
    /\ \A u \in Units : p.delivered[u] > 0 => u <= Taken(d)
    /\ \A u \in Units \ Oneway :
          p.delivered[u] > 0 =>
              p.delivered[u] = 1 /\ d.sending.unit # u /\ \A k \in K : k.unit # u

(* The sections the parser has still to decipher are numbered through.     *)
Deciphers(x) == x.kind # "cancel" /\ Ciphers(x.unit)

InOrder(g, i, h, j) == g.no < h.no \/ (g.no = h.no /\ i < j)

CipherInv(N, d, n) ==
    /\ n \in Nat /\ n <= d.ciphered
    /\ \A g \in N : \A i \in DOMAIN g.sections :
          Deciphers(g.sections[i]) => g.sections[i].at \in n .. d.ciphered - 1
    /\ \A g, h \in N : \A i \in DOMAIN g.sections, j \in DOMAIN h.sections :
          Deciphers(g.sections[i]) /\ Deciphers(h.sections[j]) /\ InOrder(g, i, h, j) =>
              g.sections[i].at < h.sections[j].at
    /\ encrypted => \A m \in n .. d.ciphered - 1 :
          \E g \in N : \E i \in DOMAIN g.sections :
              Deciphers(g.sections[i]) /\ g.sections[i].at = m

(* All parts of a unit that were made are still there.                     *)
Present(u, m, K) == \E k \in K : k.unit = u /\ k.index = m

AllThere(u, K, d) ==
    \/ Present(u, 0, K)
    \/ d.sending.unit = u /\ \A m \in 1 .. d.sending.next - 1 : Present(u, m, K)
    \/ \E k \in K : k.unit = u /\ k.isLast /\ \A m \in 1 .. k.index : Present(u, m, K)

LiveInv(K, d, p) ==
    \A u \in Units \ (Oneway \cup expired \cup p.cleared) :
        u <= Taken(d) /\ p.delivered[u] = 0 => AllThere(u, K, d)

World(N, L, d, p) ==
    /\ SenderInv(d) /\ NetInv(N, L, d) /\ CacheInv(p.cache)
    /\ IdInv(N, L, p.cache, d)
    /\ ChainInv(Parts(N, L, p.cache), d)
    /\ KeyInv(N, L, p.cache)
    /\ OnceInv(Parts(N, L, p.cache), d, p)
    /\ CipherInv(N, d, p.deciphered)
    /\ LiveInv(Parts(N, L, p.cache), d, p)

BaseInv ==
    /\ encrypted \in BOOLEAN /\ pushed \in 0 .. Len(Size) /\ expired \subseteq Units
    /\ made \in Nat /\ reports \in 0 .. MaxReports /\ cleared \subseteq Units
    /\ net \subseteq [no : 1 .. made, sections : Seq(Sections)]
    /\ loose \subseteq Seq(Sections)

SegInv == BaseInv /\ World(net, loose, Sender, Parser)

-----------------------------------------------------------------------------
(* What the parts of the invariant depend on.                              *)

LEMMA FlatIs ==
    ASSUME NEW N, NEW L, NEW x
    PROVE  x \in Flat(N, L) <=>
               \/ \E g \in N : \E i \in DOMAIN g.sections : x = g.sections[i]
               \/ \E l \in L : \E i \in DOMAIN l : x = l[i]
  BY DEF Flat

LEMMA PiecesIs ==
    ASSUME NEW c, NEW x
    PROVE  x \in Pieces(c) <=> \E i \in DOMAIN c : x \in c[i]
  BY DEF Pieces

(* The same part of the same unit, as a section or as a piece.             *)
Same(k, l) ==
    /\ k.unit = l.unit /\ k.index = l.index /\ k.isLast = l.isLast
    /\ k.from = l.from /\ k.bytes = l.bytes

LEMMA ChainMono ==
    ASSUME NEW K, NEW K2, NEW d, ChainInv(K, d), \A k \in K2 : \E l \in K : Same(k, l)
    PROVE  ChainInv(K2, d)
<1>1. ASSUME NEW k \in K2 PROVE PartFits(k, d)
  <2>1. PICK l \in K : Same(k, l)
    OBVIOUS
  <2>2. PartFits(l, d)
    BY DEF ChainInv
  <2> QED
    BY <2>1, <2>2 DEF PartFits, Same
<1>2. ASSUME NEW k1 \in K2, NEW k2 \in K2, k1.unit = k2.unit PROVE Adjoin(k1, k2)
  <2>1. PICK l1 \in K : Same(k1, l1)
    OBVIOUS
  <2>2. PICK l2 \in K : Same(k2, l2)
    OBVIOUS
  <2>3. Adjoin(l1, l2)
    BY ZenonT(30), <1>2, <2>1, <2>2 DEF ChainInv, Same
  <2> QED
    BY <2>1, <2>2, <2>3 DEF Adjoin, Same
<1> QED
  BY <1>1, <1>2 DEF ChainInv

LEMMA IdMono ==
    ASSUME NEW N, NEW L, NEW c, NEW d, NEW N2, NEW L2, NEW c2, NEW e,
           IdInv(N, L, c, d), d.id = e.id,
           \A a \in 0 .. IdSpace - 1, u \in Units :
               Named(a, u, N2, L2, c2, e) => Named(a, u, N, L, c, d)
    PROVE  IdInv(N2, L2, c2, e)
<1> SUFFICES ASSUME NEW a \in 0 .. IdSpace - 1, NEW b \in 0 .. IdSpace - 1,
                    NEW u \in Units, NEW v \in Units,
                    Named(a, u, N2, L2, c2, e), Named(b, v, N2, L2, c2, e)
             PROVE  (a = b <=> u = v) /\ Age(a) \in 1 .. Age(e.id)
  BY DEF IdInv
<1> QED
  BY DEF IdInv

LEMMA OnceMono ==
    ASSUME NEW K, NEW K2, NEW d, NEW p, NEW r, OnceInv(K, d, p),
           \A k \in K2 : \E l \in K : Same(k, l),
           r.delivered = p.delivered, r.garbled = p.garbled
    PROVE  OnceInv(K2, d, r)
<1>1. \A u \in Units : (\A k \in K : k.unit # u) => (\A k \in K2 : k.unit # u)
  BY DEF Same
<1> QED
  BY <1>1 DEF OnceInv

LEMMA LiveMono ==
    ASSUME NEW K, NEW K2, NEW d, NEW p, NEW r, LiveInv(K, d, p),
           p.cleared \subseteq r.cleared,
           \A u \in Units : r.delivered[u] = 0 => p.delivered[u] = 0,
           \A u \in Units \ (Oneway \cup expired \cup r.cleared) :
               r.delivered[u] = 0 =>
                   \A k \in K : k.unit = u => \E l \in K2 : Same(k, l)
    PROVE  LiveInv(K2, d, r)
<1> SUFFICES ASSUME NEW u \in Units \ (Oneway \cup expired \cup r.cleared),
                    u <= Taken(d), r.delivered[u] = 0
             PROVE  AllThere(u, K2, d)
  BY DEF LiveInv
<1>1. AllThere(u, K, d)
  BY DEF LiveInv
<1>2. \A m : Present(u, m, K) => Present(u, m, K2)
  BY DEF Present, Same
<1>3. CASE Present(u, 0, K)
  BY <1>2, <1>3 DEF AllThere
<1>4. CASE d.sending.unit = u /\ \A m \in 1 .. d.sending.next - 1 : Present(u, m, K)
  BY <1>2, <1>4 DEF AllThere
<1>5. CASE \E k \in K : k.unit = u /\ k.isLast /\ \A m \in 1 .. k.index : Present(u, m, K)
  <2>1. PICK k \in K : k.unit = u /\ k.isLast /\ \A m \in 1 .. k.index : Present(u, m, K)
    BY <1>5
  <2>2. PICK l \in K2 : Same(k, l)
    BY <2>1
  <2>3. l.unit = u /\ l.isLast /\ \A m \in 1 .. l.index : Present(u, m, K2)
    BY <1>2, <2>1, <2>2 DEF Same
  <2> QED
    BY <2>3 DEF AllThere
<1> QED
  BY <1>1, <1>3, <1>4, <1>5 DEF AllThere

-----------------------------------------------------------------------------
(* The parser takes a section x: N2 is what is then left of N.             *)

IsParser(p) ==
    p \in [cache : {p.cache}, deciphered : Nat, delivered : [Units -> 0 .. 2],
           garbled : BOOLEAN, cleared : SUBSET Units, ok : BOOLEAN]

Cost(x) == IF Deciphers(x) THEN 1 ELSE 0

LeftOf(N, N2) ==
    /\ \A g, h \in N2 : g.no = h.no => g = h
    /\ \A h \in N2 : \E g \in N :
          /\ h.no = g.no
          /\ \A j \in DOMAIN h.sections : j \in DOMAIN g.sections /\ h.sections[j] = g.sections[j]

Absorbs(N, N2, L, d, p, x) ==
    /\ World(N, L, d, p) /\ IsParser(p) /\ p.ok /\ x \in Flat(N, L)
    /\ LeftOf(N, N2)
    /\ \A y \in Flat(N, L) : y \in Flat(N2, L) \/ y = x
    /\ x.kind # "cancel" =>
          \A g \in N2 : \A i \in DOMAIN g.sections :
              g.sections[i].kind # "cancel" => ~SamePart(g.sections[i], x)
    /\ x.kind # "cancel" /\ x.unit \notin Oneway =>
          \A y \in Parts(N2, L, p.cache) : ~SamePart(x, y)
    /\ Deciphers(x) => x.at = p.deciphered
    /\ CipherInv(N2, d, p.deciphered + Cost(x))

(* A cache with nothing new in it but x.                                   *)
CacheFrom(c2, c, x) ==
    \A i \in DOMAIN c2 : \A y \in c2[i] :
        \/ i \in DOMAIN c /\ y \in c[i]
        \/ x.kind = "segment" /\ i = x.id /\ Same(y, x)

LEMMA LeftFlat ==
    ASSUME NEW N, NEW N2, NEW L, LeftOf(N, N2)
    PROVE  Flat(N2, L) \subseteq Flat(N, L)
<1> SUFFICES ASSUME NEW x \in Flat(N2, L) PROVE x \in Flat(N, L)
  OBVIOUS
<1>1. CASE \E l \in L : \E i \in DOMAIN l : x = l[i]
  BY <1>1, FlatIs
<1>2. CASE \E h \in N2 : \E i \in DOMAIN h.sections : x = h.sections[i]
  <2>1. PICK h \in N2 : \E i \in DOMAIN h.sections : x = h.sections[i]
    BY <1>2
  <2>2. PICK i \in DOMAIN h.sections : x = h.sections[i]
    BY <2>1
  <2>3. PICK g \in N : \A j \in DOMAIN h.sections : j \in DOMAIN g.sections /\ h.sections[j] = g.sections[j]
    BY DEF LeftOf
  <2>4. i \in DOMAIN g.sections /\ x = g.sections[i]
    BY <2>2, <2>3
  <2> QED
    BY <2>4, FlatIs
<1> QED
  BY <1>1, <1>2, FlatIs

LEMMA LeftParts ==
    ASSUME NEW N, NEW N2, NEW L, NEW c, NEW c2, NEW x, LeftOf(N, N2), x \in Flat(N, L),
           CacheFrom(c2, c, x)
    PROVE  \A k \in Parts(N2, L, c2) : \E l \in Parts(N, L, c) : Same(k, l)
<1> SUFFICES ASSUME NEW k \in Parts(N2, L, c2) PROVE \E l \in Parts(N, L, c) : Same(k, l)
  OBVIOUS
<1>0. Same(k, k)
  BY DEF Same
<1>1. CASE k \in Flat(N2, L) /\ k.kind # "cancel"
  BY <1>0, <1>1, LeftFlat DEF Parts
<1>2. CASE k \in Pieces(c2)
  <2>1. PICK i \in DOMAIN c2 : k \in c2[i]
    BY <1>2, PiecesIs
  <2>2. CASE i \in DOMAIN c /\ k \in c[i]
    BY <1>0, <2>2, PiecesIs DEF Parts
  <2>3. CASE x.kind = "segment" /\ Same(k, x)
    BY <2>3 DEF Parts
  <2> QED
    BY <2>1, <2>2, <2>3 DEF CacheFrom
<1> QED
  BY <1>1, <1>2 DEF Parts

LEMMA AbsorbShape ==
    ASSUME NEW N, NEW N2, NEW L, NEW d, NEW p, NEW x, NEW c2,
           Absorbs(N, N2, L, d, p, x), CacheFrom(c2, p.cache, x)
    PROVE  /\ NetInv(N2, L, d)
           /\ IdInv(N2, L, c2, d)
           /\ ChainInv(Parts(N2, L, c2), d)
           /\ KeyInv(N2, L, c2)
<1> DEFINE c == p.cache
<1>1. World(N, L, d, p) /\ x \in Flat(N, L) /\ LeftOf(N, N2)
  BY DEF Absorbs
<1>2. Flat(N2, L) \subseteq Flat(N, L)
  BY <1>1, LeftFlat
<1>3. NetInv(N2, L, d)
  <2>1. NetInv(N, L, d)
    BY <1>1 DEF World
  <2>2. \A h \in N2 : h.no \in Nat /\ DOMAIN h.sections \subseteq Nat
    BY <1>1, <2>1 DEF LeftOf, NetInv
  <2> QED
    BY <1>1, <1>2, <2>1, <2>2 DEF NetInv, LeftOf
<1>4. IdInv(N2, L, c2, d)
  <2>1. IdInv(N, L, c, d)
    BY <1>1 DEF World
  <2>2. ASSUME NEW a \in 0 .. IdSpace - 1, NEW u \in Units, Named(a, u, N2, L, c2, d)
        PROVE  Named(a, u, N, L, c, d)
    <3>1. CASE \E y \in Flat(N2, L) : y.kind # "data" /\ y.id = a /\ y.unit = u
      BY <1>2, <3>1 DEF Named
    <3>2. CASE a \in DOMAIN c2 /\ \E y \in c2[a] : y.unit = u
      <4>1. PICK y \in c2[a] : y.unit = u
        BY <3>2
      <4>2. CASE a \in DOMAIN c /\ y \in c[a]
        BY <4>1, <4>2 DEF Named
      <4>3. CASE x.kind = "segment" /\ a = x.id /\ Same(y, x)
        BY <1>1, <4>1, <4>3 DEF Named, Same
      <4> QED
        BY <3>2, <4>2, <4>3 DEF CacheFrom
    <3>3. CASE d.sending.unit # 0 /\ u = d.sending.unit /\ a = d.id
      BY <3>3 DEF Named
    <3> QED
      BY <2>2, <3>1, <3>2, <3>3 DEF Named
  <2> QED
    BY <2>1, <2>2, IdMono
<1>5. ChainInv(Parts(N2, L, c2), d)
  <2>1. ChainInv(Parts(N, L, c), d)
    BY <1>1 DEF World
  <2>2. \A k \in Parts(N2, L, c2) : \E l \in Parts(N, L, c) : Same(k, l)
    BY <1>1, LeftParts
  <2> QED
    BY <2>1, <2>2, ChainMono
<1>6. KeyInv(N2, L, c2)
  <2>1. KeyInv(N, L, c)
    BY <1>1 DEF World
  <2> SUFFICES ASSUME NEW g \in N2, NEW i \in DOMAIN g.sections, g.sections[i].kind # "cancel"
               PROVE  /\ \A h \in N2 : \A j \in DOMAIN h.sections :
                            h.sections[j].kind # "cancel" /\ SamePart(g.sections[i], h.sections[j])
                               => h.no = g.no /\ j = i
                      /\ \A l \in L : \A j \in DOMAIN l :
                            l[j].kind # "cancel" => ~SamePart(g.sections[i], l[j])
                      /\ \A y \in Pieces(c2) : ~SamePart(g.sections[i], y)
    BY DEF KeyInv
  <2> DEFINE y == g.sections[i]
  <2>2. PICK gg \in N : gg.no = g.no /\ i \in DOMAIN gg.sections /\ y = gg.sections[i]
    BY <1>1 DEF LeftOf
  <2>3. /\ \A h \in N : \A j \in DOMAIN h.sections :
              h.sections[j].kind # "cancel" /\ SamePart(y, h.sections[j]) => h.no = gg.no /\ j = i
        /\ \A l \in L : \A j \in DOMAIN l : l[j].kind # "cancel" => ~SamePart(y, l[j])
        /\ \A z \in Pieces(c) : ~SamePart(y, z)
    BY <2>1, <2>2 DEF KeyInv
  <2>4. ASSUME NEW h \in N2, NEW j \in DOMAIN h.sections, h.sections[j].kind # "cancel",
               SamePart(y, h.sections[j])
        PROVE  h.no = g.no /\ j = i
    <3>1. PICK hh \in N : hh.no = h.no /\ j \in DOMAIN hh.sections /\ h.sections[j] = hh.sections[j]
      BY <1>1 DEF LeftOf
    <3> QED
      BY <2>2, <2>3, <2>4, <3>1
  <2>5. ASSUME NEW z \in Pieces(c2) PROVE ~SamePart(y, z)
    <3>1. PICK a \in DOMAIN c2 : z \in c2[a]
      BY PiecesIs
    <3>2. CASE a \in DOMAIN c /\ z \in c[a]
      BY <2>3, <3>2, PiecesIs
    <3>3. CASE x.kind = "segment" /\ Same(z, x)
      <4>1. ~SamePart(y, x)
        BY <3>3 DEF Absorbs
      <4> QED
        BY <3>3, <4>1 DEF SamePart, Same
    <3> QED
      BY <3>1, <3>2, <3>3 DEF CacheFrom
  <2> QED
    BY <2>3, <2>4, <2>5
<1> QED
  BY <1>3, <1>4, <1>5, <1>6

-----------------------------------------------------------------------------
(* A package that is complete holds the whole unit.                        *)

LEMMA SizeType ==
    /\ Units = 1 .. Len(Size) /\ Len(Size) \in Nat
    /\ \A u \in Units : Size[u] \in Nat \ {0}
  BY SizesAssumption DEF Units

LEMMA CompletePieces ==
    ASSUME NEW S, S \subseteq PieceType, IsFiniteSet(S), NEW last \in S, last.isLast,
           last.index = Cardinality(S),
           \A x, y \in S : x.index = y.index => x = y,
           \A x \in S : x.index <= last.index
    PROVE  \A m \in 1 .. last.index : \E y \in S : y.index = m
<1> DEFINE n == last.index
           f == [y \in S |-> y.index]
<1>1. n \in Nat /\ \A y \in S : y.index \in 1 .. n
  BY DEF PieceType
<1>2. f \in Injection(S, 1 .. n)
  BY <1>1 DEF Injection, IsInjective
<1>3. IsFiniteSet(1 .. n) /\ Cardinality(1 .. n) = n
  BY <1>1, FS_Interval
<1>4. f \in Surjection(S, 1 .. n)
  <2> HIDE DEF f
  <2>1. Cardinality(S) = Cardinality(1 .. n) <=> f \in Surjection(S, 1 .. n)
    BY <1>2, <1>3, FS_Injection
  <2> QED
    BY <1>3, <2>1
<1> QED
  BY <1>4 DEF Surjection

LEMMA CompleteIsUnit ==
    ASSUME NEW S, NEW d, S \subseteq PieceType, IsFiniteSet(S), ChainInv(S, d),
           \A x, y \in S : x.index = y.index => x = y,
           \A x \in S : x.inStep,
           \A x, y \in S : x.unit = y.unit,
           Complete(S)
    PROVE  /\ IsUnit(S)
           /\ \E last \in S : last.isLast /\ \A m \in 1 .. last.index : \E y \in S : y.index = m
<1>1. PICK last \in S : last.isLast /\ last.index = Cardinality(S)
  BY DEF Complete
<1>2. \A x \in S : x.index <= last.index
  BY <1>1 DEF ChainInv, Adjoin
<1>3. \A m \in 1 .. last.index : \E y \in S : y.index = m
  BY <1>1, <1>2, CompletePieces
<1>4. \A x \in S : x.index \in Nat \ {0} /\ x.from \in Nat /\ x.bytes \in Nat /\ x.unit \in Units
  BY DEF PieceType
<1>5. ASSUME NEW x \in S, \A y \in S : x.index <= y.index PROVE x.from = 0
  <2>1. PICK y \in S : y.index = 1
    BY <1>1, <1>3, <1>4
  <2>2. x.index = 1
    BY <1>4, <1>5, <2>1
  <2> QED
    BY <2>2 DEF ChainInv, PartFits
<1>6. ASSUME NEW x \in S, \A y \in S : y.index <= x.index
      PROVE  x.from + x.bytes = Size[x.unit]
  <2>1. x.index = last.index
    BY <1>2, <1>4, <1>6
  <2>2. x = last
    BY <2>1
  <2> QED
    BY <1>1, <2>2 DEF ChainInv, PartFits
<1>7. ASSUME NEW x \in S, NEW y \in S, Before(x, y, S) PROVE y.from = x.from + x.bytes
  <2>1. x.index + 1 \in 1 .. last.index
    BY <1>2, <1>4, <1>7 DEF Before
  <2>2. PICK z \in S : z.index = x.index + 1
    BY <1>3, <2>1
  <2>3. z.index = y.index
    BY <1>4, <1>7, <2>2 DEF Before
  <2>4. y.index = x.index + 1 /\ x.index # 0
    BY <1>4, <2>2, <2>3
  <2>5. Adjoin(x, y)
    BY DEF ChainInv
  <2> QED
    BY <2>4, <2>5 DEF Adjoin
<1>8. \A x, y \in S : x.unit = y.unit /\ x.inStep
  OBVIOUS
<1>9. IsUnit(S)
  BY <1>5, <1>6, <1>7, <1>8 DEF IsUnit
<1> QED
  BY <1>1, <1>3, <1>9

-----------------------------------------------------------------------------
(* The parser, section by section.                                         *)

LEMMA AbsorbFacts ==
    ASSUME NEW N, NEW N2, NEW L, NEW d, NEW p, NEW x, Absorbs(N, N2, L, d, p, x)
    PROVE  /\ x \in Sections /\ x \in Flat(N, L)
           /\ x.kind # "cancel" => x \in Parts(N, L, p.cache)
           /\ Parts(N2, L, p.cache) \subseteq Parts(N, L, p.cache)
           /\ x.kind = "cancel" => x.unit \in expired
           /\ x.kind = "data" <=> x.index = 0
<1>1. x \in Flat(N, L) /\ NetInv(N, L, d) /\ LeftOf(N, N2)
  BY DEF Absorbs, World
<1>2. Flat(N2, L) \subseteq Flat(N, L)
  BY <1>1, LeftFlat
<1> QED
  BY <1>1, <1>2 DEF NetInv, Parts

(* Nothing was handed over.                                                *)
LEMMA AbsorbKept ==
    ASSUME NEW N, NEW N2, NEW L, NEW d, NEW p, NEW x, NEW r,
           Absorbs(N, N2, L, d, p, x), CacheFrom(r.cache, p.cache, x), CacheInv(r.cache),
           r.delivered = p.delivered, r.garbled = p.garbled, p.cleared \subseteq r.cleared,
           r.deciphered = p.deciphered + Cost(x),
           \A i \in DOMAIN p.cache : \A k \in p.cache[i] :
               k.unit \in Units \ (Oneway \cup expired \cup r.cleared) =>
                   k \in Pieces(r.cache),
           x.kind # "cancel" /\ x.unit \notin Oneway => \E k \in Pieces(r.cache) : Same(x, k)
    PROVE  World(N2, L, d, r)
<1> DEFINE K == Parts(N, L, p.cache)
           K2 == Parts(N2, L, r.cache)
<1>1. World(N, L, d, p)
  BY DEF Absorbs
<1>2. NetInv(N2, L, d) /\ IdInv(N2, L, r.cache, d) /\ ChainInv(K2, d) /\ KeyInv(N2, L, r.cache)
  BY AbsorbShape
<1>3. OnceInv(K2, d, r)
  <2>1. \A k \in K2 : \E l \in K : Same(k, l)
    BY LeftParts DEF Absorbs
  <2>2. OnceInv(K, d, p)
    BY <1>1 DEF World
  <2> HIDE DEF K, K2
  <2> QED
    BY <2>1, <2>2, OnceMono
<1>4. LiveInv(K2, d, r)
  <2>1. LiveInv(K, d, p)
    BY <1>1 DEF World
  <2>2. ASSUME NEW u \in Units \ (Oneway \cup expired \cup r.cleared), NEW k \in K, k.unit = u
        PROVE  \E l \in K2 : Same(k, l)
    <3>0. Same(k, k)
      BY DEF Same
    <3>1. CASE k \in Pieces(p.cache)
      <4>1. k \in Pieces(r.cache)
        BY <2>2, <3>1, PiecesIs
      <4> QED
        BY <3>0, <4>1 DEF Parts
    <3>2. CASE k \in Flat(N, L) /\ k.kind # "cancel"
      <4>1. CASE k \in Flat(N2, L)
        BY <3>0, <3>2, <4>1 DEF Parts
      <4>2. CASE k = x
        BY <2>2, <3>2, <4>2 DEF Parts
      <4> QED
        BY <3>2, <4>1, <4>2 DEF Absorbs
    <3> QED
      BY <3>1, <3>2 DEF Parts
  <2> HIDE DEF K, K2
  <2> QED
    BY <2>1, <2>2, LiveMono
<1>5. CipherInv(N2, d, r.deciphered)
  BY DEF Absorbs
<1> QED
  BY <1>1, <1>2, <1>3, <1>4, <1>5 DEF World

(* x completed its unit.                                                   *)
HandsOver(p, r, u) ==
    /\ r.delivered \in [Units -> 0 .. 2]
    /\ \A v \in Units : v # u => r.delivered[v] = p.delivered[v]
    /\ r.delivered[u] > 0
    /\ p.delivered[u] = 0 => r.delivered[u] = 1

LEMMA LiveDelivered ==
    ASSUME NEW K, NEW K2, NEW d, NEW p, NEW r, NEW v, LiveInv(K, d, p),
           r.cleared = p.cleared, HandsOver(p, r, v), v \in Units,
           \A k \in K : k.unit # v => \E l \in K2 : Same(k, l)
    PROVE  LiveInv(K2, d, r)
<1>1. \A u \in Units : r.delivered[u] = 0 => p.delivered[u] = 0 /\ u # v
  BY DEF HandsOver
<1>2. \A u \in Units \ (Oneway \cup expired \cup r.cleared) :
        r.delivered[u] = 0 => \A k \in K : k.unit = u => \E l \in K2 : Same(k, l)
  BY <1>1
<1> QED
  BY <1>1, <1>2, LiveMono

LEMMA AbsorbDelivered ==
    ASSUME NEW N, NEW N2, NEW L, NEW d, NEW p, NEW x, NEW r,
           Absorbs(N, N2, L, d, p, x), CacheFrom(r.cache, p.cache, x), CacheInv(r.cache),
           x.kind # "cancel", HandsOver(p, r, x.unit),
           r.garbled = p.garbled, r.cleared = p.cleared,
           r.deciphered = p.deciphered + Cost(x),
           \A i \in DOMAIN p.cache : \A k \in p.cache[i] :
               k.unit # x.unit => k \in Pieces(r.cache),
           x.unit \notin Oneway =>
               d.sending.unit # x.unit /\ \A k \in Parts(N2, L, r.cache) : k.unit # x.unit
    PROVE  World(N2, L, d, r)
<1> DEFINE K == Parts(N, L, p.cache)
           K2 == Parts(N2, L, r.cache)
<1>1. World(N, L, d, p) /\ IsParser(p)
  BY DEF Absorbs
<1>2. NetInv(N2, L, d) /\ IdInv(N2, L, r.cache, d) /\ ChainInv(K2, d) /\ KeyInv(N2, L, r.cache)
  BY AbsorbShape
<1>3. x \in Sections /\ x \in K
  BY AbsorbFacts
<1>4. x.unit \in Units
  BY <1>3 DEF Sections
<1>5. OnceInv(K, d, p) /\ ChainInv(K, d)
  BY <1>1 DEF World
<1>6. \A k \in K2 : \E l \in K : Same(k, l)
  BY LeftParts DEF Absorbs
<1> HIDE DEF K, K2
<1>7. \A u \in Units : u # x.unit => r.delivered[u] = p.delivered[u]
  BY DEF HandsOver
<1>8. OnceInv(K2, d, r)
  <2>1. r.delivered \in [Units -> 0 .. 2] /\ ~r.garbled
    BY <1>5 DEF OnceInv, HandsOver
  <2>2. ASSUME NEW u \in Units, r.delivered[u] > 0 PROVE u <= Taken(d)
    <3>1. CASE u = x.unit
      BY <1>3, <1>5, <3>1 DEF ChainInv, PartFits
    <3>2. CASE u # x.unit
      BY <1>5, <1>7, <2>2, <3>2 DEF OnceInv
    <3> QED
      BY <3>1, <3>2
  <2>3. ASSUME NEW u \in Units \ Oneway, r.delivered[u] > 0
        PROVE  r.delivered[u] = 1 /\ d.sending.unit # u /\ \A k \in K2 : k.unit # u
    <3>1. CASE u = x.unit
      <4>1. p.delivered[u] = 0
        BY <1>3, <1>4, <1>5, <3>1 DEF OnceInv
      <4>2. r.delivered[u] = 1
        BY <3>1, <4>1 DEF HandsOver
      <4> QED
        BY <2>3, <3>1, <4>2 DEF K2
    <3>2. CASE u # x.unit
      <4>1. p.delivered[u] = 1 /\ d.sending.unit # u /\ \A k \in K : k.unit # u
        BY <1>5, <1>7, <2>3, <3>2 DEF OnceInv
      <4> QED
        BY <1>6, <1>7, <3>2, <4>1 DEF Same
    <3> QED
      BY <3>1, <3>2
  <2> QED
    BY <2>1, <2>2, <2>3 DEF OnceInv
<1>9. LiveInv(K2, d, r)
  <2>1. LiveInv(K, d, p)
    BY <1>1 DEF World, K
  <2>3. ASSUME NEW k \in K, k.unit # x.unit PROVE \E l \in K2 : Same(k, l)
    <3>0. Same(k, k)
      BY DEF Same
    <3>1. CASE k \in Pieces(p.cache)
      <4>1. k \in Pieces(r.cache)
        BY <2>3, <3>1, PiecesIs
      <4> QED
        BY <3>0, <4>1 DEF Parts, K2
    <3>2. CASE k \in Flat(N, L) /\ k.kind # "cancel"
      <4>1. k \in Flat(N2, L)
        BY <2>3, <3>2 DEF Absorbs
      <4> QED
        BY <3>0, <3>2, <4>1 DEF Parts, K2
    <3> QED
      BY <3>1, <3>2 DEF Parts, K
  <2> QED
    BY <1>4, <2>1, <2>3, LiveDelivered
<1>10. CipherInv(N2, d, r.deciphered)
  BY DEF Absorbs
<1> QED
  BY <1>1, <1>2, <1>8, <1>9, <1>10 DEF World, K2

LEMMA AbsorbCancel ==
    ASSUME NEW N, NEW N2, NEW L, NEW d, NEW p, NEW x, Absorbs(N, N2, L, d, p, x),
           x.kind = "cancel"
    PROVE  LET r == ParseData(p, x) IN World(N2, L, d, r) /\ IsParser(r) /\ r.ok
<1> DEFINE r == ParseData(p, x)
           c == p.cache
<1>1. World(N, L, d, p) /\ IsParser(p) /\ p.ok /\ x \in Sections /\ x \in Flat(N, L) /\ x.unit \in expired
  BY AbsorbFacts DEF Absorbs
<1>2. r = [p EXCEPT !.cache = Without(c, x.id)]
  BY <1>1 DEF ParseData
<1>3. /\ r.cache = Without(c, x.id) /\ r.deciphered = p.deciphered /\ r.delivered = p.delivered
      /\ r.garbled = p.garbled /\ r.cleared = p.cleared /\ r.ok /\ IsParser(r)
  BY <1>1, <1>2 DEF IsParser
<1>4. p.deciphered \in Nat /\ Cost(x) = 0
  BY <1>1 DEF IsParser, Cost, Deciphers
<1> HIDE DEF r
<1>5. DOMAIN r.cache = DOMAIN c \ {x.id} /\ \A i \in DOMAIN c \ {x.id} : r.cache[i] = c[i]
  BY <1>3 DEF Without
<1>6. CacheFrom(r.cache, c, x)
  BY <1>5 DEF CacheFrom
<1>7. CacheInv(r.cache)
  BY <1>1, <1>5 DEF World, CacheInv
<1>8. ASSUME NEW i \in DOMAIN c, NEW k \in c[i], k.unit \in Units \ (Oneway \cup expired \cup r.cleared)
      PROVE  k \in Pieces(r.cache)
  <2>1. CASE i = x.id
    <3>1. Named(x.id, x.unit, N, L, c, d) /\ Named(x.id, k.unit, N, L, c, d)
      BY <1>1, <1>8, <2>1 DEF Named
    <3>2. x.id \in 0 .. IdSpace - 1 /\ x.unit \in Units
      BY <1>1 DEF Sections
    <3>3. k.unit = x.unit
      BY <1>1, <1>8, <3>1, <3>2 DEF World, IdInv
    <3> QED
      BY <1>1, <1>8, <3>3
  <2>2. CASE i # x.id
    BY <1>5, <1>8, <2>2, PiecesIs
  <2> QED
    BY <2>1, <2>2
<1>9. World(N2, L, d, r)
  BY <1>3, <1>4, <1>6, <1>7, <1>8, AbsorbKept
<1> QED
  BY <1>3, <1>9 DEF r

LEMMA DecodeUnit ==
    ASSUME NEW p, IsParser(p), NEW u \in Units
    PROVE  LET r == Decode(p, u, TRUE) IN
           /\ r.cache = p.cache /\ r.deciphered = p.deciphered /\ r.garbled = p.garbled
           /\ r.cleared = p.cleared /\ r.ok = p.ok /\ IsParser(r) /\ HandsOver(p, r, u)
<1> DEFINE D == [p.delivered EXCEPT ![u] = IF @ = 2 THEN 2 ELSE @ + 1]
           r == Decode(p, u, TRUE)
<1>1. p.delivered \in [Units -> 0 .. 2]
  BY DEF IsParser
<1>2. D \in [Units -> 0 .. 2]
  BY <1>1
<1>3. (\A v \in Units : v # u => D[v] = p.delivered[v]) /\ D[u] > 0 /\ (p.delivered[u] = 0 => D[u] = 1)
  BY <1>1
<1>4. r = [p EXCEPT !.delivered = D]
  BY DEF Decode, IsParser
<1> HIDE DEF D, r
<1>5. /\ r.cache = p.cache /\ r.deciphered = p.deciphered /\ r.garbled = p.garbled
      /\ r.cleared = p.cleared /\ r.ok = p.ok /\ r.delivered = D
  BY <1>4 DEF IsParser
<1>6. IsParser(r)
  BY <1>2, <1>4 DEF IsParser
<1> QED
  BY <1>2, <1>3, <1>5, <1>6 DEF HandsOver, r

LEMMA Deciphered ==
    ASSUME NEW p, IsParser(p), NEW x, x.kind # "cancel"
    PROVE  /\ Decipher(p, x) = [p EXCEPT !.deciphered = p.deciphered + Cost(x)]
           /\ p.deciphered + Cost(x) \in Nat
  BY DEF Decipher, Cost, Deciphers, IsParser

LEMMA AbsorbData ==
    ASSUME NEW N, NEW N2, NEW L, NEW d, NEW p, NEW x, Absorbs(N, N2, L, d, p, x),
           x.kind = "data"
    PROVE  LET r == ParseData(p, x) IN World(N2, L, d, r) /\ IsParser(r) /\ r.ok
<1> DEFINE r == ParseData(p, x)
           c == p.cache
           K == Parts(N, L, c)
<1>1. World(N, L, d, p) /\ IsParser(p) /\ p.ok /\ x \in Sections /\ x \in K /\ x.index = 0
  BY AbsorbFacts DEF Absorbs
<1>2. Piece(p, x).inStep
  BY <1>1 DEF Absorbs, Piece, Deciphers
<1>3. x.unit \in Units /\ p.deciphered \in Nat /\ p.delivered \in [Units -> 0 .. 2]
  BY <1>1 DEF Sections, IsParser
<1> DEFINE p1 == Decipher(p, x)
<1>4. r = Decode(p1, x.unit, TRUE)
  BY <1>1, <1>2 DEF ParseData
<1>5. /\ p1.cache = c /\ p1.deciphered = p.deciphered + Cost(x) /\ p1.delivered = p.delivered
      /\ p1.garbled = p.garbled /\ p1.cleared = p.cleared /\ p1.ok = p.ok /\ IsParser(p1)
  <2> DEFINE n == p.deciphered + Cost(x)
  <2>1. p1 = [p EXCEPT !.deciphered = n] /\ n \in Nat
    BY <1>1, Deciphered
  <2> HIDE DEF n, p1
  <2>2. /\ p1.cache = c /\ p1.deciphered = n /\ p1.delivered = p.delivered
        /\ p1.garbled = p.garbled /\ p1.cleared = p.cleared /\ p1.ok = p.ok /\ IsParser(p1)
    BY <1>1, <2>1 DEF IsParser
  <2> QED
    BY <2>2 DEF n
<1> HIDE DEF p1, r
<1>6. /\ r.cache = c /\ r.deciphered = p.deciphered + Cost(x) /\ HandsOver(p, r, x.unit)
      /\ r.garbled = p.garbled /\ r.cleared = p.cleared /\ r.ok /\ IsParser(r)
  <2>1. HandsOver(p1, r, x.unit)
    BY <1>3, <1>4, <1>5, DecodeUnit
  <2>2. HandsOver(p, r, x.unit)
    BY <1>5, <2>1 DEF HandsOver
  <2> QED
    BY <1>1, <1>3, <1>4, <1>5, <2>2, DecodeUnit
<1>7. CacheFrom(r.cache, c, x) /\ CacheInv(r.cache)
  BY <1>1, <1>6 DEF CacheFrom, World
<1>8. \A i \in DOMAIN c : \A k \in c[i] : k \in Pieces(r.cache)
  BY <1>6, PiecesIs
<1>9. ChainInv(K, d) /\ Parts(N2, L, c) \subseteq K
  BY <1>1, AbsorbFacts DEF World
<1>10. d.sending.unit # x.unit
  BY <1>1, <1>9 DEF ChainInv, PartFits
<1>11. ASSUME x.unit \notin Oneway, NEW k \in Parts(N2, L, r.cache), k.unit = x.unit PROVE FALSE
  <2>1. ~SamePart(x, k)
    BY <1>6, <1>11 DEF Absorbs
  <2>2. k.index = 0
    BY <1>1, <1>6, <1>9, <1>11 DEF ChainInv, Adjoin
  <2> QED
    BY <1>1, <1>11, <2>1, <2>2 DEF SamePart
<1>12. World(N2, L, d, r)
  BY <1>6, <1>7, <1>8, <1>10, <1>11, AbsorbDelivered
<1> QED
  BY <1>6, <1>12 DEF r

(* A piece of a unit no piece of which is cached.                          *)
LEMMA PieceFacts ==
    ASSUME NEW N, NEW N2, NEW L, NEW d, NEW p, NEW x, NEW q, Absorbs(N, N2, L, d, p, x),
           x.kind = "segment", q.deciphered = p.deciphered
    PROVE  /\ Piece(q, x) \in PieceType /\ Same(Piece(q, x), x) /\ Piece(q, x).inStep
           /\ Same(x, Piece(q, x)) /\ x.id \in 0 .. IdSpace - 1 /\ ~Complete({Piece(q, x)})
<1>1. x \in Sections /\ x.index # 0 /\ x \in Parts(N, L, p.cache)
  BY AbsorbFacts
<1>2. Piece(q, x).inStep
  BY DEF Absorbs, Piece, Deciphers
<1>3. (Ciphers(x.unit) => x.at = q.deciphered) \in BOOLEAN
  OBVIOUS
<1>4. Piece(q, x) \in PieceType
  BY <1>1, <1>3 DEF Piece, PieceType, Sections
<1>5. Same(Piece(q, x), x) /\ Same(x, Piece(q, x))
  BY DEF Same, Piece
<1>6. PartFits(x, d)
  BY <1>1 DEF Absorbs, World, ChainInv
<1>7. ~Complete({Piece(q, x)})
  <2>1. Cardinality({Piece(q, x)}) = 1
    BY FS_Singleton
  <2>2. Piece(q, x).isLast => Piece(q, x).index # 1
    BY <1>6 DEF PartFits, Piece
  <2> QED
    BY <2>1, <2>2 DEF Complete
<1> QED
  BY <1>1, <1>2, <1>4, <1>5, <1>7 DEF Sections

(* parseDATA at the limit of the cache, and the first piece of a package.  *)
LEMMA RoomFacts ==
    ASSUME NEW p, IsParser(p), CacheInv(p.cache)
    PROVE  LET q == MakeRoom(p) IN
           /\ q.deciphered = p.deciphered /\ q.delivered = p.delivered
           /\ q.garbled = p.garbled /\ q.ok = p.ok /\ IsParser(q)
           /\ p.cleared \subseteq q.cleared
           /\ \/ q = p
              \/ q.cache = NoCache /\ \A k \in Pieces(p.cache) : k.unit \in q.cleared
<1> DEFINE U == {x.unit : x \in UNION {p.cache[i] : i \in DOMAIN p.cache}}
<1>1. U \subseteq Units
  BY DEF CacheInv, PieceType
<1>2. \A k \in Pieces(p.cache) : k.unit \in U
  BY DEF Pieces
<1>3. ClearCache(p) = [p EXCEPT !.cache = NoCache, !.cleared = @ \cup U]
  BY DEF ClearCache
<1> HIDE DEF U
<1>4. CASE MakeRoom(p) = p
  BY <1>4
<1>5. CASE MakeRoom(p) = ClearCache(p)
  BY <1>1, <1>2, <1>3, <1>5 DEF IsParser
<1> QED
  BY <1>4, <1>5 DEF MakeRoom

LEMMA AbsorbNew ==
    ASSUME NEW N, NEW N2, NEW L, NEW d, NEW p, NEW x, Absorbs(N, N2, L, d, p, x),
           x.kind = "segment", x.id \notin DOMAIN MakeRoom(p).cache
    PROVE  LET r == NewPackage(MakeRoom(p), x) IN World(N2, L, d, r) /\ IsParser(r) /\ r.ok
<1> DEFINE q == MakeRoom(p)
           r == NewPackage(q, x)
           c == p.cache
           y == Piece(q, x)
<1>1. IsParser(p) /\ p.ok /\ CacheInv(c)
  BY DEF Absorbs, World
<1>2. /\ q.deciphered = p.deciphered /\ q.delivered = p.delivered
      /\ q.garbled = p.garbled /\ q.ok = p.ok /\ IsParser(q)
      /\ p.cleared \subseteq q.cleared
      /\ \/ q = p
         \/ q.cache = NoCache /\ \A k \in Pieces(p.cache) : k.unit \in q.cleared
  BY <1>1, RoomFacts
<1> HIDE DEF q
<1>3. /\ y \in PieceType /\ Same(y, x) /\ Same(x, y) /\ y.inStep
      /\ x.id \in 0 .. IdSpace - 1 /\ ~Complete({y})
  BY <1>2, PieceFacts
<1> DEFINE w == With(q.cache, x.id, {y})
           n == q.deciphered + Cost(x)
<1>4. r = [q EXCEPT !.deciphered = n, !.cache = w] /\ n \in Nat
  <2>1. Decipher(q, x) = [q EXCEPT !.deciphered = n] /\ n \in Nat
    BY <1>2, Deciphered
  <2>2. r = [Decipher(q, x) EXCEPT !.cache = With(@, x.id, {y})]
    BY DEF NewPackage
  <2> HIDE DEF n, y
  <2> QED
    BY <1>2, <2>1, <2>2 DEF IsParser
<1> HIDE DEF w, n, r, y
<1>6. /\ r.cache = w /\ r.deciphered = p.deciphered + Cost(x)
      /\ r.delivered = p.delivered /\ r.garbled = p.garbled /\ r.cleared = q.cleared
      /\ r.ok /\ IsParser(r)
  <2>1. /\ r.cache = w /\ r.deciphered = n /\ r.delivered = q.delivered
        /\ r.garbled = q.garbled /\ r.cleared = q.cleared /\ r.ok = q.ok /\ IsParser(r)
    BY <1>2, <1>4 DEF IsParser
  <2> QED
    BY <1>1, <1>2, <2>1 DEF n
<1>7. /\ DOMAIN r.cache = DOMAIN q.cache \cup {x.id} /\ r.cache[x.id] = {y}
      /\ \A i \in DOMAIN q.cache : r.cache[i] = q.cache[i]
  BY <1>6 DEF With, w, q
<1>8. q.cache = c \/ (DOMAIN q.cache = {} /\ \A k \in Pieces(c) : k.unit \in q.cleared)
  BY <1>2 DEF NoCache
<1>9. CacheFrom(r.cache, c, x)
  BY <1>3, <1>7, <1>8 DEF CacheFrom
<1>10. CacheInv(r.cache)
  <2>1. CacheInv(q.cache)
    BY <1>1, <1>8 DEF CacheInv
  <2>2. IsFiniteSet({y})
    BY FS_Singleton
  <2>3. ASSUME NEW i \in DOMAIN r.cache
        PROVE  /\ r.cache[i] \subseteq PieceType /\ IsFiniteSet(r.cache[i]) /\ r.cache[i] # {}
               /\ \A a \in r.cache[i] : a.inStep
               /\ \A a, b \in r.cache[i] : a.index = b.index => a = b
               /\ ~Complete(r.cache[i])
    <3>1. CASE i = x.id
      BY <1>3, <1>7, <2>2, <3>1
    <3>2. CASE i \in DOMAIN q.cache /\ i # x.id
      BY <1>7, <2>1, <3>2 DEF CacheInv
    <3> QED
      BY <1>7, <3>1, <3>2
  <2>4. DOMAIN r.cache \subseteq 0 .. IdSpace - 1
    BY <1>3, <1>7, <2>1 DEF CacheInv
  <2> QED
    BY <2>3, <2>4 DEF CacheInv
<1>11. ASSUME NEW i \in DOMAIN c, NEW k \in c[i], k.unit \notin r.cleared
       PROVE  k \in Pieces(r.cache)
  <2>1. k \in Pieces(c)
    BY PiecesIs
  <2>2. q.cache = c
    BY <1>6, <1>8, <1>11, <2>1
  <2>3. i \in DOMAIN r.cache /\ k \in r.cache[i]
    BY <1>7, <2>2
  <2> QED
    BY <2>3, PiecesIs
<1>12. \E k \in Pieces(r.cache) : Same(x, k)
  BY <1>3, <1>7, PiecesIs
<1>13. p.cleared \subseteq r.cleared
  BY <1>2, <1>6
<1>14. World(N2, L, d, r)
  BY <1>6, <1>9, <1>10, <1>11, <1>12, <1>13, AbsorbKept
<1> QED
  BY <1>6, <1>14 DEF r, q

(* A piece of a package that has some.                                     *)
LEMMA PackageFacts ==
    ASSUME NEW N, NEW N2, NEW L, NEW d, NEW p, NEW x, Absorbs(N, N2, L, d, p, x),
           x.kind = "segment", x.id \in DOMAIN p.cache
    PROVE  /\ \A y \in p.cache[x.id] :
                 y.unit = x.unit /\ y \in Parts(N, L, p.cache) /\ y \in Pieces(p.cache)
           /\ (\A y \in Pieces(p.cache) : ~SamePart(x, y)) => ~Conflicts(p.cache[x.id], x)
<1> DEFINE c == p.cache
           S == c[x.id]
<1>1. World(N, L, d, p) /\ x \in Sections /\ x \in Flat(N, L) /\ x \in Parts(N, L, c)
  BY AbsorbFacts DEF Absorbs
<1>2. \A y \in S : y \in Pieces(c) /\ y \in Parts(N, L, c)
  BY PiecesIs DEF Parts
<1>3. ASSUME NEW y \in S PROVE y.unit = x.unit
  <2>1. Named(x.id, x.unit, N, L, c, d) /\ Named(x.id, y.unit, N, L, c, d)
    BY <1>1 DEF Named
  <2>2. x.id \in 0 .. IdSpace - 1 /\ x.unit \in Units /\ y.unit \in Units
    BY <1>1 DEF Sections, World, CacheInv, PieceType
  <2> QED
    BY <1>1, <2>1, <2>2 DEF World, IdInv
<1>4. ASSUME \A y \in Pieces(c) : ~SamePart(x, y), Conflicts(S, x) PROVE FALSE
  <2>1. \A y \in S : y.index # x.index
    BY <1>2, <1>3, <1>4 DEF SamePart
  <2>2. PICK y \in S : x.isLast /\ y.isLast
    BY <1>4, <2>1 DEF Conflicts
  <2>3. Adjoin(x, y) /\ Adjoin(y, x)
    BY <1>1, <1>2, <1>3 DEF World, ChainInv
  <2>4. x.index \in Nat /\ y.index \in Nat
    BY <1>1 DEF World, CacheInv, PieceType, Sections
  <2> QED
    BY <2>1, <2>2, <2>3, <2>4 DEF Adjoin
<1> QED
  BY <1>2, <1>3, <1>4

LEMMA AbsorbRefused ==
    ASSUME NEW N, NEW N2, NEW L, NEW d, NEW p, NEW x, Absorbs(N, N2, L, d, p, x),
           x.kind = "segment", x.id \in DOMAIN p.cache, Conflicts(p.cache[x.id], x)
    PROVE  LET r == [p EXCEPT !.ok = FALSE] IN World(N2, L, d, r) /\ IsParser(r)
<1> DEFINE r == [p EXCEPT !.ok = FALSE]
<1>1. World(N, L, d, p) /\ IsParser(p)
  BY DEF Absorbs
<1>2. /\ r.cache = p.cache /\ r.deciphered = p.deciphered /\ r.delivered = p.delivered
      /\ r.garbled = p.garbled /\ r.cleared = p.cleared /\ IsParser(r)
  BY <1>1 DEF IsParser
<1> HIDE DEF r
<1>3. x.unit \in Oneway
  <2>1. ~\A y \in Pieces(p.cache) : ~SamePart(x, y)
    BY PackageFacts
  <2> QED
    BY <2>1 DEF Absorbs, Parts
<1>4. Cost(x) = 0 /\ p.deciphered \in Nat
  BY <1>1, <1>3 DEF Cost, Deciphers, Ciphers, IsParser
<1>5. CacheFrom(r.cache, p.cache, x) /\ CacheInv(r.cache)
  BY <1>1, <1>2 DEF CacheFrom, World
<1>6. \A i \in DOMAIN p.cache : \A k \in p.cache[i] : k \in Pieces(r.cache)
  BY <1>2, PiecesIs
<1>7. World(N2, L, d, r)
  BY <1>2, <1>3, <1>4, <1>5, <1>6, AbsorbKept
<1> QED
  BY <1>2, <1>7 DEF r

OneUnit(S, d) ==
    /\ S \subseteq PieceType /\ IsFiniteSet(S) /\ S # {}
    /\ \A a \in S : a.inStep
    /\ \A a, b \in S : a.index = b.index => a = b
    /\ \A a, b \in S : a.unit = b.unit
    /\ ChainInv(S, d)

LEMMA AddedFacts ==
    ASSUME NEW N, NEW N2, NEW L, NEW d, NEW p, NEW x, Absorbs(N, N2, L, d, p, x),
           x.kind = "segment", x.id \in DOMAIN p.cache, ~Conflicts(p.cache[x.id], x)
    PROVE  OneUnit(p.cache[x.id] \cup {Piece(p, x)}, d)
<1> DEFINE c == p.cache
           y == Piece(p, x)
           S == c[x.id] \cup {y}
<1>1. World(N, L, d, p) /\ x \in Parts(N, L, c)
  BY AbsorbFacts DEF Absorbs
<1>2. y \in PieceType /\ Same(y, x) /\ y.inStep
  BY PieceFacts
<1>3. \A a \in c[x.id] : a.unit = x.unit /\ a \in Parts(N, L, c)
  BY PackageFacts
<1>4. CacheInv(c)
  BY <1>1 DEF World
<1>5. \A a \in c[x.id] : a.index # x.index
  BY DEF Conflicts
<1> HIDE DEF y
<1>6. IsFiniteSet(S)
  BY <1>4, FS_AddElement DEF CacheInv
<1>7. \A a, b \in c[x.id] : a.index = b.index => a = b
  BY <1>4 DEF CacheInv
<1>8. \A a, b \in S : a.index = b.index => a = b
  BY <1>2, <1>5, <1>7 DEF Same
<1>9. \A a, b \in S : a.unit = b.unit
  BY <1>2, <1>3 DEF Same
<1>10. ChainInv(S, d)
  <2>1. \A a \in S : \E b \in Parts(N, L, c) : Same(a, b)
    BY <1>1, <1>2, <1>3 DEF Same
  <2>2. ChainInv(Parts(N, L, c), d)
    BY <1>1 DEF World
  <2> HIDE DEF S
  <2> QED
    BY <2>1, <2>2, ChainMono
<1>11. S \subseteq PieceType /\ S # {} /\ \A a \in S : a.inStep
  BY <1>2, <1>4 DEF CacheInv
<1> QED
  BY <1>6, <1>8, <1>9, <1>10, <1>11 DEF y, OneUnit

LEMMA AbsorbAdded ==
    ASSUME NEW N, NEW N2, NEW L, NEW d, NEW p, NEW x, Absorbs(N, N2, L, d, p, x),
           x.kind = "segment", x.id \in DOMAIN p.cache, ~Conflicts(p.cache[x.id], x),
           ~Complete(p.cache[x.id] \cup {Piece(p, x)})
    PROVE  LET r == AddSegment(p, x) IN World(N2, L, d, r) /\ IsParser(r) /\ r.ok
<1> DEFINE c == p.cache
           y == Piece(p, x)
           S == c[x.id] \cup {y}
           r == AddSegment(p, x)
           w == With(c, x.id, S)
           n == p.deciphered + Cost(x)
<1>1. World(N, L, d, p) /\ IsParser(p) /\ p.ok /\ CacheInv(c)
  BY DEF Absorbs, World
<1>2. /\ S \subseteq PieceType /\ IsFiniteSet(S) /\ S # {} /\ \A a \in S : a.inStep
      /\ \A a, b \in S : a.index = b.index => a = b
  <2>1. OneUnit(S, d)
    BY AddedFacts
  <2> HIDE DEF S
  <2> QED
    BY <2>1 DEF OneUnit
<1>3. Same(y, x) /\ Same(x, y) /\ x.id \in 0 .. IdSpace - 1
  BY PieceFacts
<1>4. r = [p EXCEPT !.deciphered = n, !.cache = w] /\ n \in Nat
  <2>1. Decipher(p, x) = [p EXCEPT !.deciphered = n] /\ n \in Nat
    BY <1>1, Deciphered
  <2>2. r = [Decipher(p, x) EXCEPT !.cache = With(@, x.id, S)]
    BY DEF AddSegment
  <2> HIDE DEF n, S, r
  <2> QED
    BY <1>1, <2>1, <2>2 DEF IsParser
<1>5. ~Complete(S)
  OBVIOUS
<1>6. y \in S /\ c[x.id] \subseteq S /\ \A a \in S : a \in c[x.id] \/ a = y
  OBVIOUS
<1> HIDE DEF w, n, r, S, y
<1>7. /\ r.cache = w /\ r.deciphered = n /\ r.delivered = p.delivered
      /\ r.garbled = p.garbled /\ r.cleared = p.cleared /\ r.ok /\ IsParser(r)
  BY <1>1, <1>4 DEF IsParser
<1>8. /\ DOMAIN r.cache = DOMAIN c /\ r.cache[x.id] = S
      /\ \A i \in DOMAIN c : i # x.id => r.cache[i] = c[i]
  BY <1>7 DEF With, w
<1>9. CacheFrom(r.cache, c, x)
  BY <1>3, <1>6, <1>8 DEF CacheFrom
<1>10. CacheInv(r.cache)
  <2>1. ASSUME NEW i \in DOMAIN r.cache
        PROVE  /\ r.cache[i] \subseteq PieceType /\ IsFiniteSet(r.cache[i]) /\ r.cache[i] # {}
               /\ \A a \in r.cache[i] : a.inStep
               /\ \A a, b \in r.cache[i] : a.index = b.index => a = b
               /\ ~Complete(r.cache[i])
    <3>1. CASE i = x.id
      BY <1>2, <1>5, <1>8, <3>1
    <3>2. CASE i # x.id
      BY <1>1, <1>8, <3>2 DEF CacheInv
    <3> QED
      BY <3>1, <3>2
  <2>2. DOMAIN r.cache \subseteq 0 .. IdSpace - 1
    BY <1>1, <1>8 DEF CacheInv
  <2> QED
    BY <2>1, <2>2 DEF CacheInv
<1>11. ASSUME NEW i \in DOMAIN c, NEW k \in c[i] PROVE k \in Pieces(r.cache)
  <2>1. i \in DOMAIN r.cache /\ k \in r.cache[i]
    BY <1>6, <1>8
  <2> QED
    BY <2>1, PiecesIs
<1>12. \E k \in Pieces(r.cache) : Same(x, k)
  BY <1>3, <1>6, <1>8, PiecesIs
<1>13. World(N2, L, d, r)
  BY <1>7, <1>9, <1>10, <1>11, <1>12, AbsorbKept DEF n
<1> QED
  BY <1>7, <1>13 DEF r

LEMMA AbsorbCompleted ==
    ASSUME NEW N, NEW N2, NEW L, NEW d, NEW p, NEW x, Absorbs(N, N2, L, d, p, x),
           x.kind = "segment", x.id \in DOMAIN p.cache, ~Conflicts(p.cache[x.id], x),
           Complete(p.cache[x.id] \cup {Piece(p, x)})
    PROVE  LET r == AddSegment(p, x) IN World(N2, L, d, r) /\ IsParser(r) /\ r.ok
<1> DEFINE c == p.cache
           y == Piece(p, x)
           S == c[x.id] \cup {y}
           r == AddSegment(p, x)
           w == Without(c, x.id)
           n == p.deciphered + Cost(x)
           q == [p EXCEPT !.deciphered = n, !.cache = w]
<1>1. /\ World(N, L, d, p) /\ IsParser(p) /\ p.ok /\ CacheInv(c) /\ x \in Sections
      /\ x \in Flat(N, L) /\ x \in Parts(N, L, c)
  BY AbsorbFacts DEF Absorbs, World
<1>2. /\ S \subseteq PieceType /\ IsFiniteSet(S) /\ \A a \in S : a.inStep
      /\ \A a, b \in S : a.index = b.index => a = b
      /\ \A a, b \in S : a.unit = b.unit
      /\ ChainInv(S, d)
  <2>1. OneUnit(S, d)
    BY AddedFacts
  <2> HIDE DEF S
  <2> QED
    BY <2>1 DEF OneUnit
<1>3. Same(y, x) /\ x.id \in 0 .. IdSpace - 1 /\ x.unit \in Units
  BY <1>1, PieceFacts DEF Sections
<1>4. y \in S /\ c[x.id] \subseteq S /\ \A a \in S : a \in c[x.id] \/ a = y
  OBVIOUS
<1>5. Complete(S)
  OBVIOUS
<1>6. r = Decode([Decipher(p, x) EXCEPT !.cache = Without(@, x.id)], x.unit, IsUnit(S))
  BY DEF AddSegment
<1> HIDE DEF w, n, r, S, y, q
<1>7. IsUnit(S) /\ \E last \in S : last.isLast /\ \A m \in 1 .. last.index : \E a \in S : a.index = m
  BY <1>2, <1>5, CompleteIsUnit
<1>8. r = Decode(q, x.unit, TRUE)
  <2>1. Decipher(p, x) = [p EXCEPT !.deciphered = n]
    BY <1>1, Deciphered DEF n
  <2>2. [Decipher(p, x) EXCEPT !.cache = Without(@, x.id)] = q
    BY <1>1, <2>1 DEF IsParser, q, w
  <2>3. IsUnit(S) = TRUE
    BY <1>7 DEF IsUnit
  <2> QED
    BY <1>6, <2>2, <2>3
<1>9. /\ q.cache = w /\ q.deciphered = n /\ q.delivered = p.delivered
      /\ q.garbled = p.garbled /\ q.cleared = p.cleared /\ q.ok /\ IsParser(q)
  <2>1. n \in Nat
    BY <1>1, Deciphered DEF n
  <2> QED
    BY <1>1, <2>1 DEF IsParser, q
<1>10. /\ r.cache = w /\ r.deciphered = n /\ r.garbled = p.garbled /\ r.cleared = p.cleared
       /\ r.ok /\ IsParser(r) /\ HandsOver(p, r, x.unit)
  <2>1. /\ r.cache = w /\ r.deciphered = n /\ r.garbled = p.garbled /\ r.cleared = p.cleared
        /\ r.ok /\ IsParser(r) /\ HandsOver(q, r, x.unit)
    BY <1>3, <1>8, <1>9, DecodeUnit
  <2> QED
    BY <1>9, <2>1 DEF HandsOver
<1>11. DOMAIN r.cache = DOMAIN c \ {x.id} /\ \A i \in DOMAIN c \ {x.id} : r.cache[i] = c[i]
  BY <1>10 DEF Without, w
<1>12. CacheFrom(r.cache, c, x) /\ CacheInv(r.cache)
  <2>1. CacheFrom(r.cache, c, x)
    BY <1>11 DEF CacheFrom
  <2>2. CacheInv(r.cache)
    BY <1>1, <1>11 DEF CacheInv
  <2> QED
    BY <2>1, <2>2
<1>13. ASSUME NEW i \in DOMAIN c, NEW k \in c[i], k.unit # x.unit PROVE k \in Pieces(r.cache)
  <2>1. i # x.id
    BY <1>13, PackageFacts
  <2>2. i \in DOMAIN r.cache /\ k \in r.cache[i]
    BY <1>11, <2>1
  <2> QED
    BY <2>2, PiecesIs
<1>14. PICK last \in S : last.isLast /\ \A m \in 1 .. last.index : \E a \in S : a.index = m
  BY <1>7
<1>15. \E l \in Parts(N, L, c) : Same(last, l)
  BY <1>1, <1>3, <1>4, PackageFacts DEF Same
<1>16. PICK l \in Parts(N, L, c) : Same(last, l)
  BY <1>15
<1>17. ChainInv(Parts(N, L, c), d) /\ last.unit = x.unit
  BY <1>1, <1>2, <1>3, <1>4 DEF World, Same
<1>18. d.sending.unit # x.unit
  BY <1>14, <1>16, <1>17 DEF ChainInv, PartFits, Same
<1>19. ASSUME x.unit \notin Oneway, NEW k \in Parts(N2, L, r.cache), k.unit = x.unit PROVE FALSE
  <2>1. k \in Parts(N2, L, c) /\ k \in Parts(N, L, c)
    <3>1. CASE k \in Flat(N2, L) /\ k.kind # "cancel"
      BY <3>1, AbsorbFacts DEF Parts
    <3>2. CASE k \in Pieces(r.cache)
      <4>1. k \in Pieces(c)
        BY <1>11, <3>2, PiecesIs
      <4> QED
        BY <4>1 DEF Parts
    <3> QED
      BY <3>1, <3>2 DEF Parts
  <2>2. Adjoin(l, k) /\ Adjoin(k, l)
    BY <1>16, <1>17, <1>19, <2>1 DEF ChainInv, Same
  <2>3. k.index \in Nat
    <3>1. k \in Flat(N, L) => k \in Sections
      BY <1>1 DEF World, NetInv
    <3>2. k \in Pieces(c) => k \in PieceType
      BY <1>1, PiecesIs DEF CacheInv
    <3> QED
      BY <2>1, <3>1, <3>2 DEF Parts, Sections, PieceType
  <2>4. last.index \in Nat /\ last.index # 0 /\ l.index = last.index /\ l.isLast
    BY <1>2, <1>14, <1>16 DEF PieceType, Same
  <2>5. k.index \in 1 .. last.index
    BY <2>2, <2>3, <2>4 DEF Adjoin
  <2>6. PICK a \in S : a.index = k.index
    BY <1>14, <2>5
  <2>7. CASE a = y
    <3>1. SamePart(x, k)
      BY <1>3, <1>19, <2>6, <2>7 DEF SamePart, Same
    <3> QED
      BY <1>19, <2>1, <3>1 DEF Absorbs
  <2>8. CASE a \in c[x.id]
    <3>1. SamePart(k, a) /\ a \in Pieces(c)
      BY <1>19, <2>6, <2>8, PackageFacts DEF SamePart
    <3>2. CASE k \in Flat(N2, L) /\ k.kind # "cancel"
      <4>1. NetInv(N2, L, d) /\ KeyInv(N2, L, c)
        <5>1. CacheFrom(c, c, x)
          BY DEF CacheFrom
        <5> QED
          BY <5>1, AbsorbShape
      <4>2. PICK g \in N2 : \E i \in DOMAIN g.sections : k = g.sections[i]
        BY <1>19, <3>2, <4>1, FlatIs DEF NetInv
      <4> QED
        BY <3>1, <3>2, <4>1, <4>2 DEF KeyInv
    <3>3. CASE k \in Pieces(r.cache)
      <4>1. PICK i \in DOMAIN r.cache : k \in r.cache[i]
        BY <3>3, PiecesIs
      <4>2. i \in DOMAIN c /\ i # x.id /\ k \in c[i]
        BY <1>11, <4>1
      <4>3. Named(i, x.unit, N, L, c, d) /\ Named(x.id, x.unit, N, L, c, d)
        BY <1>1, <1>19, <4>2 DEF Named
      <4>4. i \in 0 .. IdSpace - 1
        BY <1>1, <4>2 DEF CacheInv
      <4> QED
        BY <1>1, <1>3, <4>2, <4>3, <4>4 DEF World, IdInv
    <3> QED
      BY <1>19, <3>2, <3>3 DEF Parts
  <2> QED
    BY <1>4, <2>7, <2>8
<1>20. World(N2, L, d, r)
  BY <1>10, <1>12, <1>13, <1>18, <1>19, AbsorbDelivered DEF n
<1> QED
  BY <1>10, <1>20 DEF r

(* parseDATA keeps the invariant, and only refuses what came before.       *)
LEMMA Absorb ==
    ASSUME NEW N, NEW N2, NEW L, NEW d, NEW p, NEW x, Absorbs(N, N2, L, d, p, x)
    PROVE  LET r == ParseData(p, x) IN
           /\ World(N2, L, d, r) /\ IsParser(r)
           /\ (x.kind # "cancel" => \A y \in Pieces(p.cache) : ~SamePart(x, y)) => r.ok
<1>1. p.ok /\ x \in Sections /\ IsParser(p) /\ CacheInv(p.cache)
  BY AbsorbFacts DEF Absorbs, World
<1>2. x.kind \in {"data", "segment", "cancel"}
  BY <1>1 DEF Sections
<1>3. CASE x.kind = "cancel"
  BY <1>3, AbsorbCancel
<1>4. CASE x.kind = "data"
  BY <1>4, AbsorbData
<1>5. CASE x.kind = "segment"
  <2> DEFINE q == MakeRoom(p)
  <2>1. ParseData(p, x) = ParseSegment(p, x)
    BY <1>1, <1>5 DEF ParseData
  <2>2. CASE x.id \notin DOMAIN q.cache
    <3>1. ParseSegment(p, x) = NewPackage(q, x)
      BY <2>2 DEF ParseSegment
    <3> QED
      BY <1>5, <2>1, <2>2, <3>1, AbsorbNew
  <2>3. CASE x.id \in DOMAIN q.cache
    <3>1. q = p
      <4>1. q = p \/ q.cache = NoCache
        BY <1>1, RoomFacts
      <4> QED
        BY <2>3, <4>1 DEF NoCache
    <3>2. CASE Conflicts(p.cache[x.id], x)
      <4>1. ParseSegment(p, x) = [p EXCEPT !.ok = FALSE]
        BY <2>3, <3>1, <3>2 DEF ParseSegment
      <4>2. World(N2, L, d, ParseData(p, x)) /\ IsParser(ParseData(p, x))
        BY <1>5, <2>1, <2>3, <3>1, <3>2, <4>1, AbsorbRefused
      <4>3. ~\A y \in Pieces(p.cache) : ~SamePart(x, y)
        BY <1>5, <2>3, <3>1, <3>2, PackageFacts
      <4> QED
        BY <1>5, <4>2, <4>3
    <3>3. CASE ~Conflicts(p.cache[x.id], x)
      <4>1. ParseSegment(p, x) = AddSegment(p, x)
        BY <2>3, <3>1, <3>3 DEF ParseSegment
      <4>2. x.id \in DOMAIN p.cache
        BY <2>3, <3>1
      <4>3. CASE Complete(p.cache[x.id] \cup {Piece(p, x)})
        BY <1>5, <2>1, <3>3, <4>1, <4>2, <4>3, AbsorbCompleted
      <4>4. CASE ~Complete(p.cache[x.id] \cup {Piece(p, x)})
        BY <1>5, <2>1, <3>3, <4>1, <4>2, <4>4, AbsorbAdded
      <4> QED
        BY <4>3, <4>4
    <3> QED
      BY <3>2, <3>3
  <2> QED
    BY <2>2, <2>3
<1> QED
  BY <1>2, <1>3, <1>4, <1>5

-----------------------------------------------------------------------------
(* A datagram is parsed section by section.  The steps of a recursion are  *)
(* followed by induction over the sets of numbers they reach.              *)

LEMMA Reached ==
    ASSUME NEW S, 0 \in S, \A n \in Nat : n \in S => n + 1 \in S
    PROVE  Nat \subseteq S
<1> DEFINE R == OpToRel(<, Nat)
           T == Nat \ S
<1>1. SUFFICES ASSUME T # {} PROVE FALSE
  OBVIOUS
<1>2. \A a, b \in Nat : <<a, b>> \in R <=> a < b
  BY DEF OpToRel
<1>3. IsWellFoundedOn(R, Nat)
  BY NatLessThanWellFounded
<1> HIDE DEF R
<1>4. PICK m \in T : \A k \in T : ~(<<k, m>> \in R)
  BY <1>1, <1>3, WFMin
<1>5. \A k \in T : ~(k < m)
  BY <1>2, <1>4
<1>6. m # 0 /\ m - 1 \in Nat /\ m - 1 < m
  OBVIOUS
<1>7. m - 1 \in S
  BY <1>5, <1>6
<1> QED
  BY <1>6, <1>7

LEMMA ParsedRun ==
    ASSUME NEW secs, Len(secs) \in Nat
    PROVE  \E t : /\ t[0] = Parser
                  /\ \A i \in 1 .. Len(secs) : t[i] = ParseData(t[i - 1], secs[i])
                  /\ Parsed(secs) = t[Len(secs)]
<1> DEFINE n == Len(secs)
           F(g, i) == IF i = 0 THEN Parser ELSE ParseData(g[i - 1], secs[i])
           Run(g, m) == g = [i \in 0 .. m |-> F(g, i)]
           S == {m \in Nat : \E g : Run(g, m)}
<1>1. 0 \in S
  <2>1. Run([i \in {0} |-> Parser], 0)
    OBVIOUS
  <2> QED
    BY <2>1
<1>2. ASSUME NEW m \in Nat, m \in S PROVE m + 1 \in S
  <2>1. PICK g : Run(g, m)
    BY <1>2
  <2> DEFINE h == [i \in 0 .. m + 1 |-> IF i <= m THEN g[i] ELSE ParseData(g[m], secs[m + 1])]
  <2>2. \A i \in 0 .. m : g[i] = F(g, i)
    BY <2>1
  <2>3. \A i \in 0 .. m + 1 : h[i] = F(h, i)
    <3>1. ASSUME NEW i \in 0 .. m + 1, i = m + 1 PROVE h[i] = F(h, i)
      BY <3>1
    <3>2. ASSUME NEW i \in 0 .. m, i # 0 PROVE h[i] = F(h, i)
      BY <2>2, <3>2
    <3>3. h[0] = F(h, 0)
      BY <2>2
    <3>4. \A i \in 0 .. m + 1 : i = m + 1 \/ (i \in 0 .. m /\ i # 0) \/ i = 0
      OBVIOUS
    <3> HIDE DEF h, F
    <3> QED
      BY <3>1, <3>2, <3>3, <3>4
  <2>4. h = [i \in 0 .. m + 1 |-> h[i]]
    OBVIOUS
  <2> HIDE DEF h
  <2>5. Run(h, m + 1)
    BY <2>3, <2>4
  <2> QED
    BY <2>5
<1> HIDE DEF S
<1>3. n \in S
  BY <1>1, <1>2, Reached
<1>4. \E g : Run(g, n)
  BY <1>3 DEF S
<1> DEFINE t == CHOOSE g : Run(g, n)
<1>5. Run(t, n)
  BY <1>4
<1>6. Parsed(secs) = t[n]
  BY DEF Parsed, Parser
<1> HIDE DEF t
<1>7. \A i \in 0 .. n : t[i] = F(t, i)
  BY <1>5
<1> QED
  BY <1>6, <1>7

(* A package of which the first k sections were parsed.                    *)
Rest(g, k) ==
    [no |-> g.no, sections |-> [j \in (k + 1) .. Len(g.sections) |-> g.sections[j]]]

LEMMA RestIs ==
    ASSUME NEW g, NEW k
    PROVE  /\ Rest(g, k).no = g.no
           /\ DOMAIN Rest(g, k).sections = (k + 1) .. Len(g.sections)
           /\ \A j \in (k + 1) .. Len(g.sections) : Rest(g, k).sections[j] = g.sections[j]
  BY DEF Rest

(* One section of a package under way.                                     *)
LEMMA RestStep ==
    ASSUME NEW M, NEW L, NEW d, NEW p, NEW g, NEW k \in Nat, Len(g.sections) \in Nat,
           k < Len(g.sections), \A h \in M : h.no # g.no,
           encrypted => \A h \in M : g.no <= h.no,
           World(M \cup {Rest(g, k)}, L, d, p), IsParser(p), p.ok
    PROVE  LET r == ParseData(p, g.sections[k + 1]) IN
           World(M \cup {Rest(g, k + 1)}, L, d, r) /\ IsParser(r) /\ r.ok
<1> DEFINE N == M \cup {Rest(g, k)}
           N2 == M \cup {Rest(g, k + 1)}
           x == g.sections[k + 1]
           G == Rest(g, k)
           H == Rest(g, k + 1)
           n == Len(g.sections)
<1>1. /\ G.no = g.no /\ DOMAIN G.sections = (k + 1) .. n
      /\ \A j \in (k + 1) .. n : G.sections[j] = g.sections[j]
      /\ H.no = g.no /\ DOMAIN H.sections = (k + 2) .. n
      /\ \A j \in (k + 2) .. n : H.sections[j] = g.sections[j]
  BY RestIs
<1> HIDE DEF G, H
<1>2. /\ N = M \cup {G} /\ N2 = M \cup {H} /\ n \in Nat /\ k + 1 \in DOMAIN G.sections
      /\ G.sections[k + 1] = x
  BY <1>1 DEF G, H
<1> HIDE DEF N, N2, x, n
<1>3. World(N, L, d, p) /\ NetInv(N, L, d) /\ KeyInv(N, L, p.cache) /\ CipherInv(N, d, p.deciphered)
  BY DEF World, N
<1>4. x \in Flat(N, L)
  BY <1>2, FlatIs
<1>5. \A j \in DOMAIN H.sections :
         j \in DOMAIN G.sections /\ H.sections[j] = G.sections[j] /\ j > k + 1
  BY <1>1, <1>2
<1>6. \A j \in DOMAIN G.sections : j = k + 1 \/ (j \in DOMAIN H.sections /\ j > k + 1)
  BY <1>1, <1>2
<1>7. LeftOf(N, N2)
  <2>1. \A a, b \in N2 : a.no = b.no => a = b
    BY <1>1, <1>2, <1>3 DEF NetInv
  <2> QED
    BY <1>1, <1>2, <1>5, <2>1 DEF LeftOf
<1>8. ASSUME NEW y \in Flat(N, L) PROVE y \in Flat(N2, L) \/ y = x
  <2>1. CASE \E l \in L : \E i \in DOMAIN l : y = l[i]
    BY <2>1, FlatIs
  <2>2. CASE \E a \in N : \E i \in DOMAIN a.sections : y = a.sections[i]
    <3>1. PICK a \in N : \E i \in DOMAIN a.sections : y = a.sections[i]
      BY <2>2
    <3>2. PICK i \in DOMAIN a.sections : y = a.sections[i]
      BY <3>1
    <3>3. CASE a \in M
      BY <1>2, <3>2, <3>3, FlatIs
    <3>4. CASE a = G
      <4>1. i = k + 1 \/ (i \in DOMAIN H.sections /\ y = H.sections[i])
        BY <1>5, <1>6, <3>2, <3>4
      <4> QED
        BY <1>2, <3>2, <3>4, <4>1, FlatIs
    <3> QED
      BY <1>2, <3>3, <3>4
  <2> QED
    BY <2>1, <2>2, FlatIs
<1>9. ASSUME x.kind # "cancel", NEW h \in N2, NEW i \in DOMAIN h.sections,
             h.sections[i].kind # "cancel"
      PROVE  ~SamePart(h.sections[i], x) /\ ~SamePart(x, h.sections[i])
  <2>1. PICK a \in N : a.no = h.no /\ i \in DOMAIN a.sections /\ a.sections[i] = h.sections[i]
                         /\ (h = H => i > k + 1) /\ (h = H \/ h.no # g.no)
    <3>1. CASE h \in M
      BY <1>1, <1>2, <3>1
    <3>2. CASE h = H
      BY <1>1, <1>2, <1>5, <3>2
    <3> QED
      BY <1>2, <3>1, <3>2
  <2>2. SamePart(x, a.sections[i]) => a.no = g.no /\ i = k + 1
    BY <1>1, <1>2, <1>3, <1>9, <2>1 DEF KeyInv
  <2>3. k + 1 \in Nat
    OBVIOUS
  <2>4. ~SamePart(x, a.sections[i])
    BY <2>1, <2>2, <2>3
  <2> QED
    BY <2>1, <2>4 DEF SamePart
<1>10. ASSUME x.kind # "cancel" PROVE \A y \in Pieces(p.cache) : ~SamePart(x, y)
  BY <1>2, <1>3, <1>10 DEF KeyInv
<1>11. ASSUME x.kind # "cancel", NEW y \in Parts(N2, L, p.cache) PROVE ~SamePart(x, y)
  <2>1. CASE y \in Pieces(p.cache)
    BY <1>10, <1>11, <2>1
  <2>2. CASE y.kind # "cancel" /\ \E h \in N2 : \E i \in DOMAIN h.sections : y = h.sections[i]
    BY <1>9, <1>11, <2>2
  <2>3. CASE y.kind # "cancel" /\ \E l \in L : \E i \in DOMAIN l : y = l[i]
    BY <1>2, <1>3, <1>11, <2>3 DEF KeyInv
  <2> QED
    BY <2>1, <2>2, <2>3, FlatIs DEF Parts
<1>12. (Deciphers(x) => x.at = p.deciphered) /\ CipherInv(N2, d, p.deciphered + Cost(x))
  <2> DEFINE m == p.deciphered
  <2>1. m \in Nat /\ m <= d.ciphered /\ d.ciphered \in Nat /\ k + 1 \in Nat
    BY <1>3 DEF CipherInv, World, SenderInv
  <2>2. \A h \in N : h.no \in Nat /\ DOMAIN h.sections \subseteq Nat
    BY <1>3 DEF NetInv
  <2>3. \A h \in N2 : \E a \in N : /\ h.no = a.no
           /\ \A i \in DOMAIN h.sections :
                i \in DOMAIN a.sections /\ a.sections[i] = h.sections[i] /\ (a = G => i > k + 1)
    BY <1>2, <1>5, <1>1
  <2>4. \A a \in N : \A i \in DOMAIN a.sections :
           \/ a = G /\ i = k + 1
           \/ \E h \in N2 : i \in DOMAIN h.sections /\ h.sections[i] = a.sections[i]
    BY <1>2, <1>5, <1>6
  <2>5. \A h \in N : \A i \in DOMAIN h.sections :
           Deciphers(h.sections[i]) => h.sections[i].at \in m .. d.ciphered - 1
    BY <1>3 DEF CipherInv
  <2>6. \A a, b \in N : \A i \in DOMAIN a.sections : \A j \in DOMAIN b.sections :
           Deciphers(a.sections[i]) /\ Deciphers(b.sections[j]) /\ InOrder(a, i, b, j) =>
              a.sections[i].at < b.sections[j].at
    BY <1>3 DEF CipherInv
  <2>7. encrypted => \A o \in m .. d.ciphered - 1 :
           \E a \in N : \E i \in DOMAIN a.sections : Deciphers(a.sections[i]) /\ a.sections[i].at = o
    BY <1>3 DEF CipherInv
  <2> HIDE DEF m
  <2>8. ASSUME Deciphers(x), NEW a \in N, NEW i \in DOMAIN a.sections, a # G \/ i # k + 1,
               Deciphers(a.sections[i])
        PROVE  x.at < a.sections[i].at
    <3>1. encrypted
      BY <2>8 DEF Deciphers, Ciphers
    <3>2. CASE a \in M
      <4>1. g.no < a.no
        BY <1>1, <1>2, <2>2, <3>1, <3>2
      <4> QED
        BY <1>1, <1>2, <2>6, <2>8, <4>1 DEF InOrder
    <3>3. CASE a = G
      <4>1. k + 1 < i
        BY <1>6, <2>1, <2>8, <3>3
      <4> QED
        BY <1>1, <1>2, <2>6, <2>8, <3>3, <4>1 DEF InOrder
    <3> QED
      BY <1>2, <3>2, <3>3
  <2>9. ASSUME Deciphers(x) PROVE x.at = m
    <3>1. x.at \in m .. d.ciphered - 1 /\ encrypted
      BY <1>2, <2>5, <2>9 DEF Deciphers, Ciphers
    <3>0. PICK a \in N : \E i \in DOMAIN a.sections : Deciphers(a.sections[i]) /\ a.sections[i].at = m
      BY <2>1, <2>7, <3>1
    <3>2. PICK i \in DOMAIN a.sections : Deciphers(a.sections[i]) /\ a.sections[i].at = m
      BY <3>0
    <3>3. CASE a = G /\ i = k + 1
      BY <1>2, <3>2, <3>3
    <3>4. CASE a # G \/ i # k + 1
      BY <2>1, <2>8, <2>9, <3>1, <3>2, <3>4
    <3> QED
      BY <3>3, <3>4
  <2>10. m + Cost(x) \in Nat /\ m + Cost(x) <= d.ciphered
    <3>1. CASE Deciphers(x)
      <4>1. x.at \in m .. d.ciphered - 1
        BY <1>2, <2>5, <3>1
      <4> QED
        BY <2>1, <3>1, <4>1 DEF Cost
    <3>2. CASE ~Deciphers(x)
      BY <2>1, <3>2 DEF Cost
    <3> QED
      BY <3>1, <3>2
  <2>11. ASSUME NEW h \in N2, NEW i \in DOMAIN h.sections, Deciphers(h.sections[i])
         PROVE  h.sections[i].at \in m + Cost(x) .. d.ciphered - 1
    <3>1. PICK a \in N : /\ h.no = a.no
           /\ \A ii \in DOMAIN h.sections :
                ii \in DOMAIN a.sections /\ a.sections[ii] = h.sections[ii] /\ (a = G => ii > k + 1)
      BY <2>3
    <3>2. i \in DOMAIN a.sections /\ a.sections[i] = h.sections[i] /\ (a = G => i > k + 1)
      BY <3>1
    <3>3. h.sections[i].at \in m .. d.ciphered - 1
      BY <2>5, <2>11, <3>2
    <3>4. CASE Deciphers(x)
      <4>1. a # G \/ i # k + 1
        BY <2>1, <3>2
      <4>2. x.at < h.sections[i].at /\ x.at = m
        BY <2>8, <2>9, <2>11, <3>2, <3>4, <4>1
      <4> QED
        BY <2>1, <3>3, <3>4, <4>2 DEF Cost
    <3>5. CASE ~Deciphers(x)
      BY <2>1, <3>3, <3>5 DEF Cost
    <3> QED
      BY <3>4, <3>5
  <2>12. ASSUME NEW a \in N2, NEW b \in N2, NEW i \in DOMAIN a.sections, NEW j \in DOMAIN b.sections,
                Deciphers(a.sections[i]), Deciphers(b.sections[j]), InOrder(a, i, b, j)
         PROVE  a.sections[i].at < b.sections[j].at
    <3>1. PICK aa \in N : aa.no = a.no /\ i \in DOMAIN aa.sections /\ aa.sections[i] = a.sections[i]
      BY <2>3
    <3>2. PICK bb \in N : bb.no = b.no /\ j \in DOMAIN bb.sections /\ bb.sections[j] = b.sections[j]
      BY <2>3
    <3>3. InOrder(aa, i, bb, j)
      BY <2>12, <3>1, <3>2 DEF InOrder
    <3> QED
      BY <2>6, <2>12, <3>1, <3>2, <3>3
  <2>13. ASSUME encrypted, NEW o \in m + Cost(x) .. d.ciphered - 1
         PROVE  \E h \in N2 : \E i \in DOMAIN h.sections : Deciphers(h.sections[i]) /\ h.sections[i].at = o
    <3>1. o \in m .. d.ciphered - 1 /\ (Deciphers(x) => o # m)
      BY <2>1, <2>10 DEF Cost
    <3>0. PICK a \in N : \E i \in DOMAIN a.sections : Deciphers(a.sections[i]) /\ a.sections[i].at = o
      BY <2>7, <2>13, <3>1
    <3>2. PICK i \in DOMAIN a.sections : Deciphers(a.sections[i]) /\ a.sections[i].at = o
      BY <3>0
    <3>3. ~(a = G /\ i = k + 1)
      BY <1>2, <2>9, <3>1, <3>2
    <3> QED
      BY <2>4, <3>2, <3>3
  <2>14. CipherInv(N2, d, m + Cost(x))
    BY <2>10, <2>11, <2>12, <2>13 DEF CipherInv
  <2> QED
    BY <2>9, <2>14 DEF m
<1>13. Absorbs(N, N2, L, d, p, x)
  BY <1>3, <1>4, <1>7, <1>8, <1>9, <1>11, <1>12 DEF Absorbs
<1> QED
  BY <1>10, <1>13, Absorb DEF N2, x

(* One section of a discardable datagram, which may come again.            *)
LEMMA LooseStep ==
    ASSUME NEW N, NEW L, NEW d, NEW p, NEW l \in L, NEW i \in DOMAIN l,
           World(N, L, d, p), IsParser(p)
    PROVE  LET r == ParseData(p, l[i]) IN World(N, L, d, r) /\ IsParser(r)
<1> DEFINE x == l[i]
<1>1. x \in Flat(N, L) /\ x.unit \in Oneway /\ ~Deciphers(x) /\ Cost(x) = 0
  BY FlatIs DEF World, NetInv, Deciphers, Ciphers, Cost
<1>2. LeftOf(N, N)
  BY DEF World, NetInv, LeftOf
<1>3. CipherInv(N, d, p.deciphered + Cost(x))
  <2>1. p.deciphered + Cost(x) = p.deciphered
    BY <1>1 DEF IsParser
  <2> QED
    BY <2>1 DEF World
<1>4. x.kind # "cancel" =>
        \A g \in N : \A j \in DOMAIN g.sections :
            g.sections[j].kind # "cancel" => ~SamePart(g.sections[j], x)
  BY DEF World, KeyInv
<1> HIDE DEF x
<1>5. CASE p.ok
  <2>1. Absorbs(N, N, L, d, p, x)
    BY <1>1, <1>2, <1>3, <1>4, <1>5 DEF Absorbs
  <2> QED
    BY <2>1, Absorb DEF x
<1>6. CASE ~p.ok
  BY <1>6 DEF ParseData
<1> QED
  BY <1>5, <1>6 DEF IsParser

LEMMA ParserTyped ==
    ASSUME BaseInv, CacheInv(Parser.cache), OnceInv(Parts(net, loose, Parser.cache), Sender, Parser),
           CipherInv(net, Sender, Parser.deciphered)
    PROVE  IsParser(Parser) /\ Parser.ok
<1>1. deciphered \in Nat /\ delivered \in [Units -> 0 .. 2] /\ garbled = FALSE /\ cleared \subseteq Units
  BY DEF BaseInv, OnceInv, CipherInv, Parser
<1> QED
  BY <1>1 DEF Parser, IsParser

(* A whole package.                                                        *)
LEMMA ParsedPackage ==
    ASSUME NEW M, NEW L, NEW d, NEW g, Len(g.sections) \in Nat, \A h \in M : h.no # g.no,
           encrypted => \A h \in M : g.no <= h.no,
           World(M \cup {Rest(g, 0)}, L, d, Parser), IsParser(Parser), Parser.ok
    PROVE  World(M, L, d, Parsed(g.sections)) /\ IsParser(Parsed(g.sections))
<1> DEFINE n == Len(g.sections)
<1>1. PICK t : /\ t[0] = Parser
               /\ \A i \in 1 .. n : t[i] = ParseData(t[i - 1], g.sections[i])
               /\ Parsed(g.sections) = t[n]
  BY ParsedRun
<1> DEFINE Good(k) == World(M \cup {Rest(g, k)}, L, d, t[k]) /\ IsParser(t[k]) /\ t[k].ok
           S == {k \in Nat : k <= n => Good(k)}
<1>2. 0 \in S
  BY <1>1
<1>3. ASSUME NEW k \in Nat, k \in S PROVE k + 1 \in S
  <2>1. CASE k + 1 <= n
    <3>1. Good(k) /\ k < n
      BY <1>3, <2>1
    <3>2. t[k + 1] = ParseData(t[k], g.sections[k + 1])
      <4>1. k + 1 \in 1 .. n /\ (k + 1) - 1 = k
        BY <2>1
      <4> QED
        BY <1>1, <4>1
    <3> HIDE DEF S
    <3>3. LET r == ParseData(t[k], g.sections[k + 1]) IN
          World(M \cup {Rest(g, k + 1)}, L, d, r) /\ IsParser(r) /\ r.ok
      <4>1. k < Len(g.sections) /\ World(M \cup {Rest(g, k)}, L, d, t[k]) /\ IsParser(t[k]) /\ t[k].ok
        BY <3>1
      <4> QED
        BY <4>1, RestStep
    <3>4. Good(k + 1)
      BY <3>2, <3>3
    <3> HIDE DEF Good
    <3> QED
      BY <3>4 DEF S
  <2>2. CASE ~(k + 1 <= n)
    BY <2>2
  <2> QED
    BY <2>1, <2>2
<1>4. n \in S
  <2> HIDE DEF S
  <2> QED
    BY <1>2, <1>3, Reached
<1>5. World(M \cup {Rest(g, n)}, L, d, t[n]) /\ IsParser(t[n])
  <2> HIDE DEF Good
  <2>1. Good(n)
    BY <1>4
  <2> QED
    BY <2>1 DEF Good
<1> DEFINE G == Rest(g, n)
           N == M \cup {G}
           p == t[n]
<1>6. DOMAIN G.sections = {}
  BY RestIs
<1> HIDE DEF G
<1>7. Flat(M, L) = Flat(N, L)
  <2>1. \A x : x \in Flat(M, L) => x \in Flat(N, L)
    BY FlatIs
  <2>2. \A x : x \in Flat(N, L) => x \in Flat(M, L)
    BY <1>6, FlatIs
  <2> QED
    BY <2>1, <2>2
<1> HIDE DEF p
<1>8. World(N, L, d, p) /\ IsParser(p)
  BY <1>5 DEF p, G
<1>9. Parts(M, L, p.cache) = Parts(N, L, p.cache)
  BY <1>7 DEF Parts
<1>10. NetInv(M, L, d) /\ KeyInv(M, L, p.cache)
  <2>1. NetInv(N, L, d) /\ KeyInv(N, L, p.cache)
    BY <1>8 DEF World
  <2>2. NetInv(M, L, d)
    BY <1>7, <2>1 DEF NetInv
  <2> QED
    BY <2>1, <2>2 DEF KeyInv
<1>11. IdInv(M, L, p.cache, d)
  <2>1. \A a, u : Named(a, u, M, L, p.cache, d) => Named(a, u, N, L, p.cache, d)
    BY <1>7 DEF Named
  <2> HIDE DEF N
  <2> QED
    BY <1>8, <2>1, IdMono DEF World
<1>12. CipherInv(M, d, p.deciphered)
  BY <1>6, <1>8 DEF World, CipherInv
<1>13. World(M, L, d, p)
  BY <1>8, <1>9, <1>10, <1>11, <1>12 DEF World
<1> QED
  BY <1>1, <1>8, <1>13 DEF p

(* A whole discardable datagram.                                           *)
LEMMA ParsedLoose ==
    ASSUME NEW N, NEW L, NEW d, NEW l \in L, Len(l) \in Nat, DOMAIN l = 1 .. Len(l),
           World(N, L, d, Parser), IsParser(Parser)
    PROVE  World(N, L, d, Parsed(l)) /\ IsParser(Parsed(l))
<1> DEFINE n == Len(l)
<1>1. PICK t : /\ t[0] = Parser
               /\ \A i \in 1 .. n : t[i] = ParseData(t[i - 1], l[i])
               /\ Parsed(l) = t[n]
  BY ParsedRun
<1> DEFINE Good(k) == World(N, L, d, t[k]) /\ IsParser(t[k])
           S == {k \in Nat : k <= n => Good(k)}
<1>2. 0 \in S
  BY <1>1
<1>3. ASSUME NEW k \in Nat, k \in S PROVE k + 1 \in S
  <2>1. CASE k + 1 <= n
    <3>1. Good(k) /\ k < n
      BY <1>3, <2>1
    <3>2. k + 1 \in 1 .. n /\ (k + 1) - 1 = k
      BY <2>1
    <3>3. t[k + 1] = ParseData(t[k], l[k + 1]) /\ k + 1 \in DOMAIN l
      BY <1>1, <3>2
    <3> HIDE DEF S
    <3>4. Good(k + 1)
      BY <3>1, <3>3, LooseStep
    <3> HIDE DEF Good
    <3> QED
      BY <3>4 DEF S
  <2>2. CASE ~(k + 1 <= n)
    BY <2>2
  <2> QED
    BY <2>1, <2>2
<1>4. n \in S
  <2> HIDE DEF S
  <2> QED
    BY <1>2, <1>3, Reached
<1> QED
  BY <1>1, <1>4

-----------------------------------------------------------------------------
(* The sender appends a section x to the datagram of number m, the k-th.   *)

Grown(N, N2, m, k, x) ==
    /\ m \in Nat /\ k \in Nat
    /\ \A h \in N2 : h.no \in Nat /\ DOMAIN h.sections \subseteq Nat
    /\ \A g, h \in N2 : g.no = h.no => g = h
    /\ \A h \in N2 : \E a \in N :
          /\ h.no = a.no
          /\ \A j \in DOMAIN h.sections :
                \/ j \in DOMAIN a.sections /\ h.sections[j] = a.sections[j]
                \/ h.no = m /\ j = k /\ h.sections[j] = x
    /\ \A a \in N :
          /\ a.no <= m
          /\ a.no = m => \A j \in DOMAIN a.sections : j < k
          /\ \E h \in N2 :
                /\ h.no = a.no
                /\ \A j \in DOMAIN a.sections : j \in DOMAIN h.sections /\ h.sections[j] = a.sections[j]
    /\ \E h \in N2 : h.no = m /\ k \in DOMAIN h.sections /\ h.sections[k] = x

LEMMA AppendGrows ==
    ASSUME NEW M, NEW m \in Nat, NEW T, NEW s \in Seq(T), NEW x \in T,
           \A h \in M : h.no \in Nat /\ h.no < m /\ DOMAIN h.sections \subseteq Nat,
           \A g, h \in M : g.no = h.no => g = h
    PROVE  Grown(M \cup {[no |-> m, sections |-> s]},
                 M \cup {[no |-> m, sections |-> Append(s, x)]}, m, Len(s) + 1, x)
<1> DEFINE t == Append(s, x)
           S == [no |-> m, sections |-> s]
           A == [no |-> m, sections |-> t]
           n == Len(s)
<1>1. /\ n \in Nat /\ DOMAIN s = 1 .. n /\ DOMAIN t = 1 .. n + 1 /\ t[n + 1] = x
      /\ \A j \in 1 .. n : t[j] = s[j]
  OBVIOUS
<1>2. S.no = m /\ S.sections = s /\ A.no = m /\ A.sections = t
  OBVIOUS
<1> HIDE DEF t, S, A, n
<1> DEFINE N == M \cup {S}
           N2 == M \cup {A}
<1>3. \A h \in N2 : h.no \in Nat /\ DOMAIN h.sections \subseteq Nat
  BY <1>1, <1>2
<1>4. \A g, h \in N2 : g.no = h.no => g = h
  BY <1>2
<1>5. ASSUME NEW h \in N2
      PROVE  \E a \in N :
          /\ h.no = a.no
          /\ \A j \in DOMAIN h.sections :
                \/ j \in DOMAIN a.sections /\ h.sections[j] = a.sections[j]
                \/ h.no = m /\ j = n + 1 /\ h.sections[j] = x
  <2>1. CASE h \in M
    BY <2>1
  <2>2. CASE h = A
    <3>1. \A j \in 1 .. n + 1 : j \in 1 .. n \/ j = n + 1
      BY <1>1
    <3> QED
      BY <1>1, <1>2, <2>2, <3>1
  <2> QED
    BY <2>1, <2>2
<1>6. ASSUME NEW a \in N
      PROVE  /\ a.no <= m
             /\ a.no = m => \A j \in DOMAIN a.sections : j < n + 1
             /\ \E h \in N2 :
                   /\ h.no = a.no
                   /\ \A j \in DOMAIN a.sections : j \in DOMAIN h.sections /\ h.sections[j] = a.sections[j]
  <2>1. CASE a \in M
    BY <2>1
  <2>2. CASE a = S
    <3>1. \A j \in 1 .. n : j < n + 1 /\ j \in 1 .. n + 1
      BY <1>1
    <3> QED
      BY <1>1, <1>2, <2>2, <3>1
  <2> QED
    BY <2>1, <2>2
<1>7. \E h \in N2 : h.no = m /\ n + 1 \in DOMAIN h.sections /\ h.sections[n + 1] = x
  <2>1. n + 1 \in 1 .. n + 1
    BY <1>1
  <2> QED
    BY <1>1, <1>2, <2>1
<1>8. n + 1 \in Nat
  BY <1>1
<1> HIDE DEF N, N2
<1>9. Grown(N, N2, m, n + 1, x)
  BY <1>3, <1>4, <1>5, <1>6, <1>7, <1>8 DEF Grown
<1> QED
  BY <1>9 DEF N, N2, S, A, t, n

LEMMA GrownFlat ==
    ASSUME NEW N, NEW N2, NEW L, NEW m, NEW k, NEW x, Grown(N, N2, m, k, x)
    PROVE  Flat(N2, L) = Flat(N, L) \cup {x}
<1>1. ASSUME NEW y \in Flat(N2, L) PROVE y \in Flat(N, L) \cup {x}
  <2>1. CASE \E l \in L : \E i \in DOMAIN l : y = l[i]
    BY <2>1, FlatIs
  <2>2. CASE \E h \in N2 : \E i \in DOMAIN h.sections : y = h.sections[i]
    <3>1. PICK h \in N2 : \E i \in DOMAIN h.sections : y = h.sections[i]
      BY <2>2
    <3>2. PICK i \in DOMAIN h.sections : y = h.sections[i]
      BY <3>1
    <3>3. PICK a \in N : \A j \in DOMAIN h.sections :
                \/ j \in DOMAIN a.sections /\ h.sections[j] = a.sections[j]
                \/ h.no = m /\ j = k /\ h.sections[j] = x
      BY DEF Grown
    <3>4. y = x \/ (i \in DOMAIN a.sections /\ y = a.sections[i])
      BY <3>2, <3>3
    <3> QED
      BY <3>4, FlatIs
  <2> QED
    BY <2>1, <2>2, FlatIs
<1>2. ASSUME NEW y \in Flat(N, L) PROVE y \in Flat(N2, L)
  <2>1. CASE \E l \in L : \E i \in DOMAIN l : y = l[i]
    BY <2>1, FlatIs
  <2>2. CASE \E a \in N : \E i \in DOMAIN a.sections : y = a.sections[i]
    <3>1. PICK a \in N : \E i \in DOMAIN a.sections : y = a.sections[i]
      BY <2>2
    <3>2. PICK h \in N2 : \A j \in DOMAIN a.sections : j \in DOMAIN h.sections /\ h.sections[j] = a.sections[j]
      BY DEF Grown
    <3> QED
      BY <3>1, <3>2, FlatIs
  <2> QED
    BY <2>1, <2>2, FlatIs
<1>3. x \in Flat(N2, L)
  BY FlatIs DEF Grown
<1> QED
  BY <1>1, <1>2, <1>3

LEMMA GrownParts ==
    ASSUME NEW N, NEW N2, NEW L, NEW c, NEW m, NEW k, NEW x, Grown(N, N2, m, k, x)
    PROVE  /\ x.kind # "cancel" => Parts(N2, L, c) = Parts(N, L, c) \cup {x}
           /\ x.kind = "cancel" => Parts(N2, L, c) = Parts(N, L, c)
  BY GrownFlat DEF Parts

LEMMA GrownKey ==
    ASSUME NEW N, NEW N2, NEW L, NEW c, NEW m, NEW k, NEW x, Grown(N, N2, m, k, x),
           NEW d, NetInv(N, L, d), KeyInv(N, L, c),
           x.kind # "cancel" => \A y \in Parts(N, L, c) : ~SamePart(x, y)
    PROVE  KeyInv(N2, L, c)
<1>1. \A h \in N2 : \A j \in DOMAIN h.sections :
         \/ h.no = m /\ j = k /\ h.sections[j] = x
         \/ \E a \in N : a.no = h.no /\ j \in DOMAIN a.sections /\ h.sections[j] = a.sections[j]
  BY DEF Grown
<1>2. \A a \in N : \A j \in DOMAIN a.sections :
         x.kind # "cancel" /\ a.sections[j].kind # "cancel" => ~SamePart(x, a.sections[j])
  BY FlatIs DEF Parts
<1>3. \A l \in L : \A j \in DOMAIN l :
         x.kind # "cancel" /\ l[j].kind # "cancel" => ~SamePart(x, l[j])
  BY FlatIs DEF Parts
<1>4. \A y \in Pieces(c) : x.kind # "cancel" => ~SamePart(x, y)
  BY DEF Parts
<1> SUFFICES ASSUME NEW g \in N2, NEW i \in DOMAIN g.sections, g.sections[i].kind # "cancel"
             PROVE  /\ \A h \in N2 : \A j \in DOMAIN h.sections :
                          h.sections[j].kind # "cancel" /\ SamePart(g.sections[i], h.sections[j])
                             => h.no = g.no /\ j = i
                    /\ \A l \in L : \A j \in DOMAIN l :
                          l[j].kind # "cancel" => ~SamePart(g.sections[i], l[j])
                    /\ \A y \in Pieces(c) : ~SamePart(g.sections[i], y)
  BY DEF KeyInv
<1>5. CASE g.no = m /\ i = k /\ g.sections[i] = x
  <2>1. ASSUME NEW h \in N2, NEW j \in DOMAIN h.sections, h.sections[j].kind # "cancel",
               SamePart(g.sections[i], h.sections[j])
        PROVE  h.no = g.no /\ j = i
    BY <1>1, <1>2, <1>5, <2>1
  <2> QED
    BY <1>3, <1>4, <1>5, <2>1
<1>6. CASE \E a \in N : a.no = g.no /\ i \in DOMAIN a.sections /\ g.sections[i] = a.sections[i]
  <2>1. PICK a \in N : a.no = g.no /\ i \in DOMAIN a.sections /\ g.sections[i] = a.sections[i]
    BY <1>6
  <2>2. /\ \A h \in N : \A j \in DOMAIN h.sections :
              h.sections[j].kind # "cancel" /\ SamePart(g.sections[i], h.sections[j]) => h.no = g.no /\ j = i
        /\ \A l \in L : \A j \in DOMAIN l :
              l[j].kind # "cancel" => ~SamePart(g.sections[i], l[j])
        /\ \A y \in Pieces(c) : ~SamePart(g.sections[i], y)
    BY <2>1 DEF KeyInv
  <2>3. ASSUME NEW h \in N2, NEW j \in DOMAIN h.sections, h.sections[j].kind # "cancel",
               SamePart(g.sections[i], h.sections[j])
        PROVE  h.no = g.no /\ j = i
    <3>1. CASE h.no = m /\ j = k /\ h.sections[j] = x
      BY <1>2, <2>1, <2>3, <3>1 DEF SamePart
    <3>2. CASE \E b \in N : b.no = h.no /\ j \in DOMAIN b.sections /\ h.sections[j] = b.sections[j]
      BY <2>2, <2>3, <3>2
    <3> QED
      BY <1>1, <3>1, <3>2
  <2> QED
    BY <2>2, <2>3
<1> QED
  BY <1>1, <1>5, <1>6

LEMMA GrownCipher ==
    ASSUME NEW N, NEW N2, NEW m, NEW k, NEW x, Grown(N, N2, m, k, x),
           NEW d, NEW e, NEW n, CipherInv(N, d, n), d.ciphered \in Nat,
           \A a \in N : a.no \in Nat /\ DOMAIN a.sections \subseteq Nat,
           Deciphers(x) => x.at = d.ciphered, e.ciphered = d.ciphered + Cost(x)
    PROVE  CipherInv(N2, e, n)
<1>1. \A h \in N2 : \A j \in DOMAIN h.sections :
         \/ h.no = m /\ j = k /\ h.sections[j] = x
         \/ \E a \in N : a.no = h.no /\ j \in DOMAIN a.sections /\ h.sections[j] = a.sections[j]
  BY DEF Grown
<1>2. n \in Nat /\ n <= d.ciphered /\ m \in Nat /\ k \in Nat
  BY DEF CipherInv, Grown
<1>3. \A h \in N : \A i \in DOMAIN h.sections :
         Deciphers(h.sections[i]) => h.sections[i].at \in n .. d.ciphered - 1
  BY DEF CipherInv
<1>4. n <= e.ciphered /\ e.ciphered \in Nat /\ d.ciphered <= e.ciphered
  BY <1>2 DEF Cost
<1>5. Deciphers(x) => e.ciphered = d.ciphered + 1
  BY DEF Cost
<1>6. ASSUME NEW h \in N2, NEW i \in DOMAIN h.sections, Deciphers(h.sections[i])
      PROVE  h.sections[i].at \in n .. e.ciphered - 1
  <2>1. CASE h.sections[i] = x
    BY <1>2, <1>5, <1>6, <2>1
  <2>2. CASE h.sections[i].at \in n .. d.ciphered - 1
    BY <1>2, <1>4, <2>2
  <2> QED
    BY <1>1, <1>3, <1>6, <2>1, <2>2
<1>7. ASSUME NEW a \in N2, NEW b \in N2, NEW i \in DOMAIN a.sections, NEW j \in DOMAIN b.sections,
             Deciphers(a.sections[i]), Deciphers(b.sections[j]), InOrder(a, i, b, j)
      PROVE  a.sections[i].at < b.sections[j].at
  <2>1. CASE \E aa \in N : aa.no = a.no /\ i \in DOMAIN aa.sections /\ a.sections[i] = aa.sections[i]
    <3>1. PICK aa \in N : aa.no = a.no /\ i \in DOMAIN aa.sections /\ a.sections[i] = aa.sections[i]
      BY <2>1
    <3>2. CASE \E bb \in N : bb.no = b.no /\ j \in DOMAIN bb.sections /\ b.sections[j] = bb.sections[j]
      <4>1. PICK bb \in N : bb.no = b.no /\ j \in DOMAIN bb.sections /\ b.sections[j] = bb.sections[j]
        BY <3>2
      <4>2. InOrder(aa, i, bb, j)
        BY <1>7, <3>1, <4>1 DEF InOrder
      <4> QED
        BY <1>7, <3>1, <4>1, <4>2 DEF CipherInv
    <3>3. CASE b.no = m /\ j = k /\ b.sections[j] = x
      <4>1. a.sections[i].at \in n .. d.ciphered - 1
        BY <1>3, <1>7, <3>1
      <4> QED
        BY <1>2, <1>7, <3>3, <4>1
    <3> QED
      BY <1>1, <3>2, <3>3
  <2>2. CASE a.no = m /\ i = k /\ a.sections[i] = x
    <3>1. PICK bb \in N : bb.no = b.no /\ (j \in DOMAIN bb.sections \/ j = k)
      BY DEF Grown
    <3>2. b.no <= m /\ b.no \in Nat /\ j \in Nat /\ (b.no = m => j <= k)
      <4>1. b.no \in Nat /\ DOMAIN b.sections \subseteq Nat
        BY DEF Grown
      <4>2. bb.no <= m /\ (bb.no = m => \A jj \in DOMAIN bb.sections : jj < k)
        BY DEF Grown
      <4> QED
        BY <1>2, <3>1, <4>1, <4>2
    <3> QED
      BY <1>2, <1>7, <2>2, <3>2 DEF InOrder
  <2> QED
    BY <1>1, <2>1, <2>2
<1>8. ASSUME encrypted, NEW o \in n .. e.ciphered - 1
      PROVE  \E h \in N2 : \E i \in DOMAIN h.sections : Deciphers(h.sections[i]) /\ h.sections[i].at = o
  <2>1. CASE o \in n .. d.ciphered - 1
    <3>1. PICK a \in N : \E i \in DOMAIN a.sections : Deciphers(a.sections[i]) /\ a.sections[i].at = o
      BY <1>8, <2>1 DEF CipherInv
    <3>2. PICK h \in N2 : \A j \in DOMAIN a.sections : j \in DOMAIN h.sections /\ h.sections[j] = a.sections[j]
      BY DEF Grown
    <3> QED
      BY <3>1, <3>2
  <2>2. CASE o = d.ciphered /\ Deciphers(x)
    BY <2>2 DEF Grown
  <2>3. o \in n .. d.ciphered - 1 \/ (o = d.ciphered /\ Deciphers(x))
    <3>1. CASE Deciphers(x)
      BY <1>2, <1>5, <3>1
    <3>2. CASE ~Deciphers(x)
      BY <3>2 DEF Cost
    <3> QED
      BY <3>1, <3>2
  <2> QED
    BY <2>1, <2>2, <2>3
<1> QED
  BY <1>2, <1>4, <1>6, <1>7, <1>8 DEF CipherInv

(* What is left to show of each section that is sent.                      *)
LEMMA Emit ==
    ASSUME NEW N, NEW N2, NEW L, NEW d, NEW e, NEW p, NEW m, NEW k, NEW x,
           World(N, L, d, p), Grown(N, N2, m, k, x),
           x \in Sections, x.unit <= Taken(e), x.kind = "cancel" => x.unit \in expired,
           x.kind = "data" <=> x.index = 0, x.oneway <=> x.unit \in Oneway,
           Taken(d) \in Nat, Taken(e) \in Nat, Taken(d) <= Taken(e),
           x.kind # "cancel" => x.at = d.ciphered,
           x.kind # "cancel" => \A y \in Parts(N, L, p.cache) : ~SamePart(x, y),
           e.ciphered = d.ciphered + Cost(x),
           SenderInv(e), IdInv(N2, L, p.cache, e),
           ChainInv(Parts(N2, L, p.cache), e),
           OnceInv(Parts(N2, L, p.cache), e, p),
           LiveInv(Parts(N2, L, p.cache), e, p)
    PROVE  World(N2, L, e, p)
<1>1. /\ NetInv(N, L, d) /\ CacheInv(p.cache) /\ KeyInv(N, L, p.cache)
      /\ CipherInv(N, d, p.deciphered) /\ d.ciphered \in Nat
  BY DEF World, SenderInv
<1>2. NetInv(N2, L, e)
  <2>1. ASSUME NEW y \in Flat(N2, L)
        PROVE  /\ y \in Sections /\ y.unit <= Taken(e)
               /\ y.kind = "cancel" => y.unit \in expired
               /\ y.kind = "data" <=> y.index = 0
               /\ y.oneway <=> y.unit \in Oneway
    <3>1. CASE y \in Flat(N, L)
      <4>1. /\ y \in Sections /\ y.unit <= Taken(d)
            /\ y.kind = "cancel" => y.unit \in expired
            /\ y.kind = "data" <=> y.index = 0
            /\ y.oneway <=> y.unit \in Oneway
        BY <1>1, <3>1 DEF NetInv
      <4>2. y.unit \in Nat
        BY SMTT(20), <4>1, SizeType DEF Sections
      <4> QED
        BY <4>1, <4>2
    <3>2. CASE y = x
      BY <3>2
    <3> QED
      BY <3>1, <3>2, GrownFlat
  <2>2. \A h \in N2 : h.no \in Nat /\ DOMAIN h.sections \subseteq Nat
    BY DEF Grown
  <2>3. \A g, h \in N2 : g.no = h.no => g = h
    BY DEF Grown
  <2>4. \A l \in L : \A i \in DOMAIN l : l[i].unit \in Oneway
    BY <1>1 DEF NetInv
  <2> QED
    BY <2>1, <2>2, <2>3, <2>4 DEF NetInv
<1>3. KeyInv(N2, L, p.cache)
  BY <1>1, GrownKey
<1>4. CipherInv(N2, e, p.deciphered)
  <2>1. Deciphers(x) => x.at = d.ciphered
    BY DEF Deciphers
  <2>2. \A a \in N : a.no \in Nat /\ DOMAIN a.sections \subseteq Nat
    BY <1>1 DEF NetInv
  <2> QED
    BY <1>1, <2>1, <2>2, GrownCipher
<1> QED
  BY <1>1, <1>2, <1>3, <1>4 DEF World

-----------------------------------------------------------------------------
(* The sender fills a datagram.                                            *)

LEMMA AgeNext ==
    ASSUME NEW id \in 0 .. IdSpace - 1, Age(id) + 1 < IdSpace
    PROVE  NewId(id) \in 0 .. IdSpace - 1 /\ Age(NewId(id)) = Age(id) + 1
<1>1. IdSpace \in Nat \ {0} /\ FirstId \in 0 .. IdSpace - 1
  BY IdsAssumption
<1>2. CASE id + 1 < IdSpace
  <2>1. (id + 1) % IdSpace = id + 1
    BY <1>1, <1>2
  <2> QED
    BY <1>1, <1>2, <2>1 DEF NewId, Age
<1>3. CASE id + 1 = IdSpace
  <2>1. (id + 1) % IdSpace = 0
    BY <1>1, <1>3
  <2> QED
    BY <1>1, <1>3, <2>1 DEF NewId, Age
<1> QED
  BY <1>1, <1>2, <1>3

(* The types of the parts that are not theirs alone.                       *)
LEMMA PartType ==
    ASSUME NEW N, NEW L, NEW c, NEW d, NetInv(N, L, d), CacheInv(c)
    PROVE  \A k \in Parts(N, L, c) :
              k.unit \in Units /\ k.index \in Nat /\ k.from \in Nat /\ k.bytes \in Nat
                /\ k.isLast \in BOOLEAN
<1> SUFFICES ASSUME NEW k \in Parts(N, L, c)
             PROVE  k.unit \in Units /\ k.index \in Nat /\ k.from \in Nat /\ k.bytes \in Nat
                      /\ k.isLast \in BOOLEAN
  OBVIOUS
<1>1. CASE k \in Flat(N, L)
  BY <1>1 DEF NetInv, Sections
<1>2. CASE k \in Pieces(c)
  <2>1. PICK i \in DOMAIN c : k \in c[i]
    BY <1>2, PiecesIs
  <2> QED
    BY <2>1 DEF CacheInv, PieceType
<1> QED
  BY <1>1, <1>2 DEF Parts

LEMMA TakenType ==
    ASSUME NEW d, SenderInv(d), pushed \in 0 .. Len(Size)
    PROVE  Taken(d) \in Nat /\ Taken(d) <= pushed /\ Len(d.queue) \in Nat
             /\ Age(d.id) <= Taken(d) /\ Age(d.id) \in Nat
  BY SMTT(20), SizeType, IdsAssumption DEF SenderInv, Taken, Age

(* A unit leaves the queue.                                                *)
LEMMA Advance ==
    ASSUME NEW d, NEW e, SenderInv(d), pushed \in 0 .. Len(Size), d.queue # <<>>,
           e.queue = Tail(d.queue)
    PROVE  /\ Head(d.queue) = Taken(d) + 1 /\ Taken(e) = Taken(d) + 1
           /\ Taken(e) \in Units /\ Taken(d) + 1 < IdSpace
           /\ e.queue \in Seq(Units) /\ Len(e.queue) <= pushed
           /\ \A i \in 1 .. Len(e.queue) : e.queue[i] = Taken(e) + i
<1> DEFINE q == d.queue
<1>1. q \in Seq(Units) /\ Len(q) <= pushed /\ \A i \in 1 .. Len(q) : q[i] = Taken(d) + i
  BY DEF SenderInv
<1>2. Len(q) \in Nat \ {0} /\ Head(q) = q[1]
  BY <1>1
<1>3. /\ e.queue \in Seq(Units) /\ Len(e.queue) = Len(q) - 1
      /\ \A i \in 1 .. Len(e.queue) : e.queue[i] = q[i + 1]
  BY <1>1
<1> DEFINE n == Len(q)
           o == Len(e.queue)
<1>4. /\ Taken(d) = pushed - n /\ Taken(e) = pushed - o /\ o = n - 1
      /\ n \in Nat \ {0} /\ n <= pushed /\ pushed \in Nat /\ pushed < IdSpace /\ pushed <= Len(Size)
  BY <1>1, <1>2, <1>3, SizeType, NoReuseAssumption, IdsAssumption DEF Taken
<1>8. \A i \in 1 .. n : q[i] = Taken(d) + i
  BY <1>1
<1>9. \A i \in 1 .. o : e.queue[i] = q[i + 1]
  BY <1>3
<1>10. IdSpace \in Nat /\ Len(Size) \in Nat
  BY SizeType, IdsAssumption
<1> HIDE DEF n, o, q
<1>5. Taken(e) = Taken(d) + 1 /\ Taken(e) \in 1 .. Len(Size) /\ Taken(d) + 1 < IdSpace
  BY <1>4, <1>10
<1>6. \A i \in 1 .. o : e.queue[i] = Taken(e) + i
  <2> TAKE i \in 1 .. o
  <2>0. i + 1 \in 1 .. n
    BY <1>4
  <2>1. i + 1 \in 1 .. n /\ e.queue[i] = q[i + 1]
    BY <1>9, <2>0
  <2>2. q[i + 1] = Taken(d) + (i + 1)
    BY <1>8, <2>1
  <2>3. Taken(d) + (i + 1) = Taken(e) + i
    <3>1. Taken(d) \in Int /\ Taken(e) \in Int /\ Taken(e) = Taken(d) + 1 /\ i \in Int
      BY <1>4, <1>5
    <3> QED
      BY <3>1
  <2> QED
    BY <2>1, <2>2, <2>3
<1>7. Head(q) = Taken(d) + 1
  <2>1. 1 \in 1 .. n
    BY <1>4
  <2>2. q[1] = Taken(d) + 1
    BY <1>8, <2>1
  <2> QED
    BY <1>2, <2>2
<1>11. o <= pushed
  BY <1>4
<1>12. Taken(e) \in Units
  BY <1>5, SizeType
<1>13. Head(d.queue) = Taken(d) + 1
  BY <1>7 DEF q
<1>14. Len(e.queue) <= pushed /\ \A i \in 1 .. Len(e.queue) : e.queue[i] = Taken(e) + i
  BY <1>6, <1>11 DEF o
<1> QED
  BY <1>3, <1>5, <1>12, <1>13, <1>14

(* No part of a unit is made before it leaves the queue.                   *)
LEMMA NamedTaken ==
    ASSUME NEW N, NEW L, NEW d, NEW p, World(N, L, d, p), NEW a, NEW u, Named(a, u, N, L, p.cache, d)
    PROVE  u <= Taken(d)
<1>1. NetInv(N, L, d) /\ ChainInv(Parts(N, L, p.cache), d) /\ SenderInv(d)
  BY DEF World
<1>2. CASE \E x \in Flat(N, L) : x.kind # "data" /\ x.id = a /\ x.unit = u
  BY <1>1, <1>2 DEF NetInv
<1>3. CASE a \in DOMAIN p.cache /\ \E x \in p.cache[a] : x.unit = u
  BY <1>1, <1>3, PiecesIs DEF ChainInv, PartFits, Parts
<1>4. CASE d.sending.unit # 0 /\ u = d.sending.unit /\ a = d.id
  BY <1>1, <1>4 DEF SenderInv
<1> QED
  BY <1>2, <1>3, <1>4 DEF Named

LEMMA OnceGrown ==
    ASSUME NEW K, NEW K2, NEW d, NEW e, NEW p, NEW v \in Units, OnceInv(K, d, p),
           Taken(d) \in Nat, Taken(e) \in Nat, Taken(d) <= Taken(e),
           v \notin Oneway => p.delivered[v] = 0,
           e.sending.unit \in {0, d.sending.unit, v},
           \A k \in K2 : k \in K \/ k.unit = v
    PROVE  OnceInv(K2, e, p)
<1>1. \A u \in Units : p.delivered[u] > 0 => u <= Taken(e)
  BY SizeType DEF OnceInv
<1>2. ASSUME NEW u \in Units \ Oneway, p.delivered[u] > 0
      PROVE  p.delivered[u] = 1 /\ e.sending.unit # u /\ \A k \in K2 : k.unit # u
  <2>1. u # v /\ u # 0
    BY <1>2, SizeType
  <2> QED
    BY <1>2, <2>1 DEF OnceInv
<1> QED
  BY <1>1, <1>2 DEF OnceInv

LEMMA LiveGrown ==
    ASSUME NEW K, NEW K2, NEW d, NEW e, NEW p, NEW v \in Units, LiveInv(K, d, p), K \subseteq K2,
           \A u \in Units : u # v /\ d.sending.unit = u =>
               e.sending.unit = u /\ e.sending.next = d.sending.next,
           \A u \in Units : u <= Taken(e) => u <= Taken(d) \/ u = v,
           v \notin Oneway \cup expired \cup p.cleared /\ p.delivered[v] = 0 => AllThere(v, K2, e)
    PROVE  LiveInv(K2, e, p)
<1> SUFFICES ASSUME NEW u \in Units \ (Oneway \cup expired \cup p.cleared),
                    u <= Taken(e), p.delivered[u] = 0, u # v
             PROVE  AllThere(u, K2, e)
  BY DEF LiveInv
<1>1. AllThere(u, K, d)
  BY DEF LiveInv
<1>2. \A m : Present(u, m, K) => Present(u, m, K2)
  BY DEF Present
<1>3. CASE Present(u, 0, K)
  BY <1>2, <1>3 DEF AllThere
<1>4. CASE d.sending.unit = u /\ \A m \in 1 .. d.sending.next - 1 : Present(u, m, K)
  BY <1>2, <1>4 DEF AllThere
<1>5. CASE \E k \in K : k.unit = u /\ k.isLast /\ \A m \in 1 .. k.index : Present(u, m, K)
  <2>1. PICK k \in K : k.unit = u /\ k.isLast /\ \A m \in 1 .. k.index : Present(u, m, K)
    BY <1>5
  <2> QED
    BY <1>2, <2>1 DEF AllThere
<1> QED
  BY <1>1, <1>3, <1>4, <1>5 DEF AllThere

(* An expired unit is dropped from the queue.                              *)
LEMMA SkipStep ==
    ASSUME NEW N, NEW L, NEW d, NEW e, NEW p, World(N, L, d, p), pushed \in 0 .. Len(Size),
           d.queue # <<>>, Head(d.queue) \in expired, e.queue = Tail(d.queue),
           e.sending = d.sending, e.id = d.id, e.ciphered = d.ciphered
    PROVE  World(N, L, e, p)
<1> DEFINE K == Parts(N, L, p.cache)
<1>1. /\ SenderInv(d) /\ NetInv(N, L, d) /\ CacheInv(p.cache) /\ IdInv(N, L, p.cache, d)
      /\ ChainInv(K, d) /\ KeyInv(N, L, p.cache) /\ OnceInv(K, d, p)
      /\ CipherInv(N, d, p.deciphered) /\ LiveInv(K, d, p)
  BY DEF World
<1>2. /\ Taken(e) = Taken(d) + 1 /\ Taken(e) \in expired /\ Taken(e) \in Units
      /\ Taken(d) \in Nat /\ Age(d.id) <= Taken(d) /\ Age(d.id) \in Nat
      /\ e.queue \in Seq(Units) /\ Len(e.queue) <= pushed
      /\ \A i \in 1 .. Len(e.queue) : e.queue[i] = Taken(e) + i
  BY <1>1, Advance, TakenType
<1> HIDE DEF K
<1>3. SenderInv(e)
  <2>1. d.sending.unit # 0 => d.sending.unit <= Taken(e)
    <3>1. d.sending.unit \in Nat
      BY <1>1, SizeType DEF SenderInv
    <3> QED
      BY <1>1, <1>2, <3>1 DEF SenderInv
  <2>2. e.id = d.id /\ Age(e.id) <= Taken(e)
    BY <1>2
  <2> QED
    BY <1>1, <1>2, <2>1, <2>2 DEF SenderInv
<1>4. NetInv(N, L, e)
  <2>1. \A x \in Flat(N, L) : x.unit \in Nat
    BY <1>1, SizeType DEF NetInv, Sections
  <2> QED
    BY <1>1, <1>2, <2>1 DEF NetInv
<1>5. IdInv(N, L, p.cache, e)
  <2>1. \A a, u : Named(a, u, N, L, p.cache, e) => Named(a, u, N, L, p.cache, d)
    BY DEF Named
  <2> QED
    BY <1>1, <2>1, IdMono
<1>6. ChainInv(K, e)
  <2>1. \A k \in K : k.unit \in Nat
    BY <1>1, PartType, SizeType DEF K
  <2> QED
    BY <1>1, <1>2, <2>1 DEF ChainInv, PartFits
<1>7. OnceInv(K, e, p)
  <2>1. \A u \in Units : u <= Taken(d) => u <= Taken(e)
    BY <1>2, SizeType
  <2> QED
    BY <1>1, <2>1 DEF OnceInv
<1>8. CipherInv(N, e, p.deciphered)
  BY <1>1 DEF CipherInv
<1>9. LiveInv(K, e, p)
  <2>1. \A u \in Units : u <= Taken(e) => u <= Taken(d) \/ u = Taken(e)
    BY <1>2, SizeType
  <2> QED
    BY <1>1, <1>2, <2>1, LiveGrown
<1> QED
  BY <1>1, <1>3, <1>4, <1>5, <1>6, <1>7, <1>8, <1>9 DEF World, K

LEMMA UnitIs == \A u \in Units : u \in Nat \ {0} /\ Size[u] \in Nat \ {0}
  BY SizeType

LEMMA SectionFacts ==
    ASSUME NEW kind \in {"data", "segment", "cancel"}, NEW u \in Units, NEW id \in 0 .. IdSpace - 1,
           NEW index \in Nat, NEW isLast \in BOOLEAN, NEW from \in Nat, NEW bytes \in Nat,
           NEW at \in Nat, NEW x, x = Section(kind, u, id, index, isLast, from, bytes, at)
    PROVE  /\ x.kind = kind /\ x.unit = u /\ x.id = id /\ x.index = index /\ x.isLast = isLast
           /\ x.from = from /\ x.bytes = bytes /\ x.at = at /\ (x.oneway <=> u \in Oneway)
           /\ x \in Sections
<1>1. (u \in Oneway) \in BOOLEAN
  OBVIOUS
<1> QED
  BY <1>1 DEF Section, Sections

LEMMA CostIs ==
    ASSUME NEW d, d.ciphered \in Nat, NEW x, x.kind # "cancel"
    PROVE  After(d, x.unit) = d.ciphered + Cost(x) /\ d.ciphered + Cost(x) \in Nat
  BY DEF After, Cost, Deciphers

LEMMA NotYet ==
    ASSUME NEW K, NEW d, NEW p, OnceInv(K, d, p), Taken(d) \in Nat, NEW u \in Units, u = Taken(d) + 1
    PROVE  p.delivered[u] = 0
<1>1. p.delivered[u] \in 0 .. 2 /\ (p.delivered[u] > 0 => u <= Taken(d))
  BY DEF OnceInv
<1> QED
  BY <1>1

(* The unit goes in whole.                                                 *)
LEMMA SingleStep ==
    ASSUME NEW N, NEW N2, NEW L, NEW d, NEW e, NEW p, NEW m, NEW k, NEW u,
           World(N, L, d, p), pushed \in 0 .. Len(Size), d.queue # <<>>, u = Head(d.queue),
           Grown(N, N2, m, k, Section("data", u, 0, 0, FALSE, 0, Size[u], d.ciphered)),
           e.queue = Tail(d.queue), e.sending = d.sending, e.id = d.id,
           e.ciphered = After(d, u)
    PROVE  World(N2, L, e, p)
<1> DEFINE K == Parts(N, L, p.cache)
           K2 == Parts(N2, L, p.cache)
           x == Section("data", u, 0, 0, FALSE, 0, Size[u], d.ciphered)
<1>1. /\ SenderInv(d) /\ NetInv(N, L, d) /\ CacheInv(p.cache) /\ IdInv(N, L, p.cache, d)
      /\ ChainInv(K, d) /\ OnceInv(K, d, p) /\ LiveInv(K, d, p) /\ d.ciphered \in Nat
  BY DEF World, SenderInv
<1>2. /\ Taken(e) = Taken(d) + 1 /\ Taken(e) = u /\ u \in Units /\ Taken(d) \in Nat
      /\ Age(d.id) <= Taken(d) /\ Age(d.id) \in Nat
      /\ e.queue \in Seq(Units) /\ Len(e.queue) <= pushed
      /\ \A i \in 1 .. Len(e.queue) : e.queue[i] = Taken(e) + i
  BY <1>1, Advance, TakenType
<1>3. Size[u] \in Nat \ {0} /\ u \in Nat /\ 0 \in 0 .. IdSpace - 1
  BY SMTT(20), <1>2, UnitIs, IdsAssumption
<1>4. /\ x.kind = "data" /\ x.unit = u /\ x.id = 0 /\ x.index = 0 /\ x.isLast = FALSE
      /\ x.from = 0 /\ x.bytes = Size[u] /\ x.at = d.ciphered /\ (x.oneway <=> u \in Oneway)
      /\ x \in Sections
  <2>1. /\ x.kind = "data" /\ x.unit = u /\ x.id = 0 /\ x.index = 0 /\ x.isLast = FALSE
        /\ x.from = 0 /\ x.bytes = Size[u] /\ x.at = d.ciphered /\ (x.oneway <=> u \in Oneway)
    BY DEF Section
  <2>2. (u \in Oneway) \in BOOLEAN
    OBVIOUS
  <2>3. x \in Sections
    BY <1>1, <1>2, <1>3, <2>2 DEF Section, Sections
  <2> HIDE DEF x
  <2> QED
    BY <2>1, <2>3
<1>5. e.ciphered = d.ciphered + Cost(x) /\ e.ciphered \in Nat
  <2> HIDE DEF x
  <2> QED
    BY <1>1, <1>4, CostIs
<1>6. Grown(N, N2, m, k, x)
  OBVIOUS
<1> HIDE DEF x
<1>7. K2 = K \cup {x} /\ Flat(N2, L) = Flat(N, L) \cup {x}
  BY <1>4, <1>6, GrownParts, GrownFlat
<1> HIDE DEF K, K2
<1>8. \A y \in K : y.unit \in Nat /\ y.unit <= Taken(d) /\ y.unit # u
  <2>1. \A y \in K : y.unit \in Nat
    BY <1>1, PartType, SizeType DEF K
  <2> QED
    BY <1>1, <1>2, <2>1 DEF ChainInv, PartFits
<1>9. d.sending.unit \in Nat /\ d.sending.unit # u
  <2>1. d.sending.unit \in Nat
    BY <1>1, SizeType DEF SenderInv
  <2> QED
    <3>1. d.sending.unit # 0 => d.sending.unit <= Taken(d)
      BY <1>1 DEF SenderInv
    <3>2. u # 0 /\ ~(u <= Taken(d))
      BY <1>2, UnitIs
    <3> QED
      BY <2>1, <3>1, <3>2
<1>10. SenderInv(e)
  <2>1. d.sending.unit # 0 => d.sending.unit <= Taken(e)
    BY <1>1, <1>2, <1>9 DEF SenderInv
  <2>2. e.id = d.id /\ Age(e.id) <= Taken(e)
    BY <1>2
  <2> QED
    BY <1>1, <1>2, <1>5, <2>1, <2>2 DEF SenderInv
<1>11. IdInv(N2, L, p.cache, e)
  <2>1. \A a, v : Named(a, v, N2, L, p.cache, e) => Named(a, v, N, L, p.cache, d)
    BY <1>4, <1>7 DEF Named
  <2> QED
    BY <1>1, <2>1, IdMono
<1>12. ChainInv(K2, e)
  <2>1. ASSUME NEW y \in K PROVE PartFits(y, e)
    BY <1>1, <1>2, <1>8 DEF ChainInv, PartFits
  <2>2. PartFits(x, e)
    BY <1>2, <1>3, <1>4, <1>9 DEF PartFits
  <2>3. \A y, z \in K : y.unit = z.unit => Adjoin(y, z)
    BY <1>1 DEF ChainInv
  <2>4. Adjoin(x, x)
    BY <1>4 DEF Adjoin
  <2> QED
    BY <1>4, <1>7, <1>8, <2>1, <2>2, <2>3, <2>4 DEF ChainInv
<1>13. p.delivered[u] = 0
  BY <1>1, <1>2, NotYet
<1>14. OnceInv(K2, e, p)
  <2>1. \A y \in K2 : y \in K \/ y.unit = u
    BY <1>4, <1>7
  <2>2. e.sending.unit \in {0, d.sending.unit, u} /\ Taken(e) \in Nat /\ Taken(d) <= Taken(e)
    BY <1>2
  <2> QED
    BY <1>1, <1>2, <1>13, <2>1, <2>2, OnceGrown
<1>15. LiveInv(K2, e, p)
  <2>1. \A v \in Units : v <= Taken(e) => v <= Taken(d) \/ v = u
    BY <1>2, SizeType
  <2>2. AllThere(u, K2, e)
    BY <1>4, <1>7 DEF AllThere, Present
  <2> QED
    BY SMTT(20), <1>1, <1>2, <1>7, <2>1, <2>2, LiveGrown
<1>16. \A y \in K : ~SamePart(x, y)
  BY <1>4, <1>8 DEF SamePart
<1>17. Taken(d) \in Nat /\ Taken(e) \in Nat /\ Taken(d) <= Taken(e) /\ x.unit <= Taken(e)
  BY <1>2, <1>4
<1> QED
  BY <1>4, <1>5, <1>6, <1>10, <1>11, <1>12, <1>14, <1>15, <1>16, <1>17, Emit DEF K, K2

(* The unit is to be segmented and gets an id.                             *)
LEMMA FirstStep ==
    ASSUME NEW N, NEW N2, NEW L, NEW d, NEW e, NEW p, NEW m, NEW k, NEW u, NEW bytes \in Nat,
           World(N, L, d, p), pushed \in 0 .. Len(Size), d.queue # <<>>, u = Head(d.queue),
           d.sending.unit = 0, bytes < Size[u],
           Grown(N, N2, m, k, Section("segment", u, NewId(d.id), 1, FALSE, 0, bytes, d.ciphered)),
           e.queue = Tail(d.queue), e.sending = [unit |-> u, next |-> 2, offset |-> bytes],
           e.id = NewId(d.id), e.ciphered = After(d, u)
    PROVE  World(N2, L, e, p)
<1> DEFINE K == Parts(N, L, p.cache)
           K2 == Parts(N2, L, p.cache)
           x == Section("segment", u, NewId(d.id), 1, FALSE, 0, bytes, d.ciphered)
<1>1. /\ SenderInv(d) /\ NetInv(N, L, d) /\ CacheInv(p.cache) /\ IdInv(N, L, p.cache, d)
      /\ ChainInv(K, d) /\ OnceInv(K, d, p) /\ LiveInv(K, d, p) /\ d.ciphered \in Nat
      /\ d.id \in 0 .. IdSpace - 1
  BY DEF World, SenderInv
<1>2. /\ Taken(e) = Taken(d) + 1 /\ Taken(e) = u /\ u \in Units /\ Taken(d) \in Nat
      /\ Age(d.id) <= Taken(d) /\ Age(d.id) \in Nat /\ Taken(d) + 1 < IdSpace
      /\ e.queue \in Seq(Units) /\ Len(e.queue) <= pushed
      /\ \A i \in 1 .. Len(e.queue) : e.queue[i] = Taken(e) + i
  BY ZenonT(30), <1>1, Advance, TakenType
<1>3. Size[u] \in Nat \ {0} /\ u \in Nat \ {0} /\ IdSpace \in Nat
  BY <1>2, UnitIs, IdsAssumption
<1>4. NewId(d.id) \in 0 .. IdSpace - 1 /\ Age(NewId(d.id)) = Age(d.id) + 1
  <2>1. Age(d.id) + 1 < IdSpace
    BY <1>2, <1>3
  <2> QED
    BY <1>1, <2>1, AgeNext
<1>5. /\ x.kind = "segment" /\ x.unit = u /\ x.id = e.id /\ x.index = 1 /\ x.isLast = FALSE
      /\ x.from = 0 /\ x.bytes = bytes /\ x.at = d.ciphered /\ (x.oneway <=> u \in Oneway)
      /\ x \in Sections
  <2>1. /\ x.kind = "segment" /\ x.unit = u /\ x.id = e.id /\ x.index = 1 /\ x.isLast = FALSE
        /\ x.from = 0 /\ x.bytes = bytes /\ x.at = d.ciphered /\ (x.oneway <=> u \in Oneway)
    BY DEF Section
  <2>2. (u \in Oneway) \in BOOLEAN
    OBVIOUS
  <2>3. x \in Sections
    BY <1>1, <1>2, <1>4, <2>2 DEF Section, Sections
  <2> HIDE DEF x
  <2> QED
    BY <2>1, <2>3
<1>6. e.ciphered = d.ciphered + Cost(x) /\ e.ciphered \in Nat
  <2> HIDE DEF x
  <2> QED
    BY <1>1, <1>5, CostIs
<1>7. Grown(N, N2, m, k, x)
  OBVIOUS
<1> HIDE DEF x
<1>8. K2 = K \cup {x} /\ Flat(N2, L) = Flat(N, L) \cup {x}
  BY <1>5, <1>7, GrownParts, GrownFlat
<1> HIDE DEF K, K2
<1>9. \A y \in K : y.unit \in Nat /\ y.unit <= Taken(d) /\ y.unit # u
  <2>1. \A y \in K : y.unit \in Nat
    BY <1>1, PartType, SizeType DEF K
  <2> QED
    BY <1>1, <1>2, <2>1 DEF ChainInv, PartFits
<1>10. /\ e.sending.unit = u /\ e.sending.next = 2 /\ e.sending.offset = bytes
       /\ e.sending \in [unit : Units \cup {0}, next : Nat, offset : Nat]
  BY <1>2
<1>11. SenderInv(e)
  <2>1. Age(e.id) <= Taken(e) /\ e.id \in 0 .. IdSpace - 1
    BY <1>2, <1>4
  <2>2. e.sending.unit <= Taken(e)
    BY <1>2, <1>3, <1>10
  <2> QED
    BY <1>2, <1>6, <1>10, <2>1, <2>2 DEF SenderInv
<1>12. IdInv(N2, L, p.cache, e)
  <2>1. \A a, v : Named(a, v, N2, L, p.cache, e) =>
                      Named(a, v, N, L, p.cache, d) \/ (a = e.id /\ v = u)
    BY <1>5, <1>8, <1>10 DEF Named
  <2>2. \A a, v : Named(a, v, N, L, p.cache, d) => v <= Taken(d)
    BY NamedTaken
  <2>3. ~(u <= Taken(d))
    BY <1>2
  <2>4. \A a \in 0 .. IdSpace - 1 : \A v \in Units :
           Named(a, v, N, L, p.cache, d) => Age(a) \in 1 .. Age(d.id) /\ v # u
    BY <1>1, <2>2, <2>3 DEF IdInv
  <2>5. Age(e.id) = Age(d.id) + 1 /\ \A i \in 1 .. Age(d.id) : i \in 1 .. Age(e.id) /\ i # Age(e.id)
    BY SMTT(20), <1>2, <1>4
  <2>6. \A a \in 0 .. IdSpace - 1 : \A v \in Units :
           Named(a, v, N, L, p.cache, d) => Age(a) \in 1 .. Age(e.id) /\ a # e.id
    BY <2>4, <2>5
  <2>7. Age(e.id) \in 1 .. Age(e.id)
    BY SMTT(20), <1>2, <2>5
  <2>8. \A a, b \in 0 .. IdSpace - 1 : \A v, w \in Units :
           Named(a, v, N, L, p.cache, d) /\ Named(b, w, N, L, p.cache, d) => (a = b <=> v = w)
    BY <1>1 DEF IdInv
  <2> SUFFICES ASSUME NEW a \in 0 .. IdSpace - 1, NEW b \in 0 .. IdSpace - 1,
                      NEW v \in Units, NEW w \in Units,
                      Named(a, v, N2, L, p.cache, e), Named(b, w, N2, L, p.cache, e)
               PROVE  (a = b <=> v = w) /\ Age(a) \in 1 .. Age(e.id)
    BY DEF IdInv
  <2>9. /\ Named(a, v, N, L, p.cache, d) \/ (a = e.id /\ v = u)
        /\ Named(b, w, N, L, p.cache, d) \/ (b = e.id /\ w = u)
    BY <2>1
  <2> QED
    BY <2>4, <2>6, <2>7, <2>8, <2>9
<1>13. ChainInv(K2, e)
  <2>1. ASSUME NEW y \in K PROVE PartFits(y, e)
    BY <1>1, <1>2, <1>9, <1>10 DEF ChainInv, PartFits
  <2>2. PartFits(x, e)
    <3>1. x.unit <= Taken(e)
      BY <1>2, <1>3, <1>5
    <3>2. x.from + x.bytes <= Size[x.unit] /\ x.from + x.bytes = bytes
      BY <1>3, <1>5
    <3>3. x.index \in 1 .. e.sending.next - 1 /\ e.sending.offset = bytes
      BY <1>5, <1>10
    <3>4. x.index = 1 /\ x.from = 0 /\ ~x.isLast
      BY <1>5
    <3> QED
      BY <3>1, <3>2, <3>3, <3>4 DEF PartFits
  <2>3. \A y, z \in K : y.unit = z.unit => Adjoin(y, z)
    BY <1>1 DEF ChainInv
  <2>4. Adjoin(x, x)
    BY <1>5 DEF Adjoin
  <2> QED
    BY <1>5, <1>8, <1>9, <2>1, <2>2, <2>3, <2>4 DEF ChainInv
<1>14. p.delivered[u] = 0
  BY <1>1, <1>2, NotYet
<1>15. OnceInv(K2, e, p)
  <2>1. \A y \in K2 : y \in K \/ y.unit = u
    BY <1>5, <1>8
  <2>2. e.sending.unit \in {0, d.sending.unit, u} /\ Taken(e) \in Nat /\ Taken(d) <= Taken(e)
    BY <1>2, <1>10
  <2> QED
    BY <1>1, <1>2, <1>14, <2>1, <2>2, OnceGrown
<1>16. LiveInv(K2, e, p)
  <2>1. \A v \in Units : v <= Taken(e) => v <= Taken(d) \/ v = u
    BY <1>2, SizeType
  <2>2. AllThere(u, K2, e)
    <3>1. \A i \in 1 .. e.sending.next - 1 : i = 1
      BY <1>10
    <3> QED
      BY <1>5, <1>8, <1>10, <3>1 DEF AllThere, Present
  <2>3. \A v \in Units : v # u /\ d.sending.unit = v =>
             e.sending.unit = v /\ e.sending.next = d.sending.next
    BY UnitIs
  <2> QED
    BY SMTT(20), <1>1, <1>2, <1>8, <2>1, <2>2, <2>3, LiveGrown
<1>17. \A y \in K : ~SamePart(x, y)
  BY <1>5, <1>9 DEF SamePart
<1>18. Taken(d) \in Nat /\ Taken(e) \in Nat /\ Taken(d) <= Taken(e) /\ x.unit <= Taken(e)
  BY <1>2, <1>5
<1> QED
  BY <1>5, <1>6, <1>7, <1>11, <1>12, <1>13, <1>15, <1>16, <1>17, <1>18, Emit DEF K, K2

(* The unit under way expired: its next segment cancels it.                *)
LEMMA CancelStep ==
    ASSUME NEW N, NEW N2, NEW L, NEW d, NEW e, NEW p, NEW m, NEW k, NEW u,
           World(N, L, d, p), pushed \in 0 .. Len(Size), d.sending.unit # 0, u = d.sending.unit,
           u \in expired,
           NEW x \in Sections, x.kind = "cancel", x.unit = u, x.id = d.id,
           x.index = d.sending.next, x.oneway <=> u \in Oneway, Grown(N, N2, m, k, x),
           e.queue = d.queue, e.sending = NotSending, e.id = d.id, e.ciphered = d.ciphered
    PROVE  World(N2, L, e, p)
<1> DEFINE K == Parts(N, L, p.cache)
           K2 == Parts(N2, L, p.cache)
<1>1. /\ SenderInv(d) /\ NetInv(N, L, d) /\ CacheInv(p.cache) /\ IdInv(N, L, p.cache, d)
      /\ ChainInv(K, d) /\ OnceInv(K, d, p) /\ LiveInv(K, d, p) /\ d.ciphered \in Nat
      /\ d.id \in 0 .. IdSpace - 1 /\ u \in Units /\ d.sending.next \in Nat
      /\ u <= Taken(d) /\ d.sending.next > 1
  BY DEF World, SenderInv
<1>2. Taken(e) = Taken(d) /\ Taken(d) \in Nat
  BY <1>1, TakenType DEF Taken
<1>5. e.ciphered = d.ciphered + Cost(x)
  <2>1. Cost(x) = 0
    BY DEF Cost, Deciphers
  <2> QED
    BY <1>1, <2>1
<1>7. K2 = K /\ Flat(N2, L) = Flat(N, L) \cup {x}
  BY GrownParts, GrownFlat
<1> HIDE DEF K, K2
<1>8. e.sending \in [unit : Units \cup {0}, next : Nat, offset : Nat] /\ e.sending.unit = 0
  BY DEF NotSending
<1>9. SenderInv(e)
  BY <1>1, <1>2, <1>8 DEF SenderInv
<1>10. IdInv(N2, L, p.cache, e)
  <2>1. \A a, v : Named(a, v, N2, L, p.cache, e) => Named(a, v, N, L, p.cache, d)
    BY <1>7, <1>8 DEF Named
  <2> QED
    BY <1>1, <2>1, IdMono
<1>11. ChainInv(K2, e)
  <2>1. \A y \in K : y.unit # 0
    BY <1>1, PartType, UnitIs DEF K
  <2> QED
    BY <1>1, <1>2, <1>7, <1>8, <2>1 DEF ChainInv, PartFits
<1>12. OnceInv(K2, e, p)
  <2>1. \A v \in Units : e.sending.unit # v
    BY <1>8, UnitIs
  <2> QED
    BY <1>1, <1>2, <1>7, <2>1 DEF OnceInv
<1>13. LiveInv(K2, e, p)
  BY <1>1, <1>2, <1>7, LiveGrown
<1>14. x.kind = "data" <=> x.index = 0
  BY <1>1
<1>15. Taken(d) \in Nat /\ Taken(e) \in Nat /\ Taken(d) <= Taken(e) /\ x.unit <= Taken(e)
  BY <1>1, <1>2
<1> QED
  BY <1>5, <1>9, <1>10, <1>11, <1>12, <1>13, <1>14, <1>15, Emit DEF K, K2

(* Another segment of the unit under way, up to its last.                  *)
LEMMA PartStep ==
    ASSUME NEW N, NEW N2, NEW L, NEW d, NEW e, NEW p, NEW m, NEW k, NEW u, NEW bytes \in Nat,
           NEW last \in BOOLEAN,
           World(N, L, d, p), pushed \in 0 .. Len(Size), d.sending.unit # 0, u = d.sending.unit,
           d.sending.offset + bytes <= Size[u],
           last <=> d.sending.offset + bytes = Size[u],
           NEW x, x.kind = "segment", x.unit = u, x.id = d.id, x.index = d.sending.next,
           x.isLast <=> last, x.from = d.sending.offset, x.bytes = bytes, x.at = d.ciphered,
           x.oneway <=> u \in Oneway, x \in Sections,
           Grown(N, N2, m, k, x),
           e.queue = d.queue, e.id = d.id, e.ciphered = After(d, u),
           e.sending = IF last THEN NotSending
                       ELSE [unit |-> u, next |-> d.sending.next + 1,
                             offset |-> d.sending.offset + bytes]
    PROVE  World(N2, L, e, p)
<1> DEFINE K == Parts(N, L, p.cache)
           K2 == Parts(N2, L, p.cache)
           n == d.sending.next
           o == d.sending.offset
<1>1. /\ SenderInv(d) /\ NetInv(N, L, d) /\ CacheInv(p.cache) /\ IdInv(N, L, p.cache, d)
      /\ ChainInv(K, d) /\ OnceInv(K, d, p) /\ LiveInv(K, d, p) /\ d.ciphered \in Nat
      /\ d.id \in 0 .. IdSpace - 1 /\ u \in Units /\ n \in Nat /\ o \in Nat
      /\ u <= Taken(d) /\ n > 1 /\ o < Size[u]
  BY DEF World, SenderInv
<1>2. Taken(e) = Taken(d) /\ Taken(d) \in Nat
  BY <1>1, TakenType DEF Taken
<1>3. Size[u] \in Nat \ {0} /\ u \in Nat \ {0}
  BY <1>1, UnitIs
<1>4. e.ciphered = d.ciphered + Cost(x) /\ e.ciphered \in Nat
  BY <1>1, CostIs
<1>5. K2 = K \cup {x} /\ Flat(N2, L) = Flat(N, L) \cup {x}
  BY GrownParts, GrownFlat
<1>6. /\ e.sending \in [unit : Units \cup {0}, next : Nat, offset : Nat]
      /\ last => e.sending.unit = 0
      /\ ~last => e.sending.unit = u /\ e.sending.next = n + 1 /\ e.sending.offset = o + bytes
  <2>1. CASE last
    BY <2>1 DEF NotSending
  <2>2. CASE ~last
    BY <1>1, <2>2
  <2> QED
    BY <2>1, <2>2
<1>7. \A y \in K : /\ y.unit \in Nat \ {0} /\ y.index \in Nat
                   /\ y.unit = u => /\ y.index \in 1 .. n - 1 /\ ~y.isLast
                                    /\ y.index = n - 1 => y.from + y.bytes = o
  <2>1. \A y \in K : y.unit \in Nat \ {0} /\ y.index \in Nat
    BY <1>1, PartType, UnitIs
  <2>2. \A y \in K : PartFits(y, d)
    BY <1>1 DEF ChainInv
  <2> HIDE DEF K
  <2> QED
    BY <2>1, <2>2 DEF PartFits
<1>8. x.index = n /\ x.from = o
  OBVIOUS
<1> HIDE DEF K, K2
<1>9. SenderInv(e)
  <2>1. e.sending.unit # 0 => /\ e.sending.unit <= Taken(e) /\ e.sending.next > 1
                              /\ e.sending.offset < Size[e.sending.unit]
    <3>1. CASE last
      BY <1>6, <3>1
    <3>2. CASE ~last
      <4>1. o + bytes # Size[u] /\ o + bytes <= Size[u]
        BY <3>2
      <4>2. o + bytes < Size[u] /\ n + 1 > 1
        BY SMTT(20), <1>1, <1>3, <4>1
      <4> QED
        BY <1>1, <1>2, <1>6, <3>2, <4>2
    <3> QED
      BY <3>1, <3>2
  <2> QED
    BY <1>1, <1>2, <1>4, <1>6, <2>1 DEF SenderInv
<1>10. IdInv(N2, L, p.cache, e)
  <2>1. e.sending.unit # 0 => e.sending.unit = u
    BY <1>6
  <2>2. \A a, v : Named(a, v, N2, L, p.cache, e) => Named(a, v, N, L, p.cache, d)
    BY <1>5, <2>1 DEF Named
  <2> QED
    BY <1>1, <2>2, IdMono
<1>11. \A y \in K : PartFits(y, e)
  <2> SUFFICES ASSUME NEW y \in K PROVE PartFits(y, e)
    OBVIOUS
  <2>1. PartFits(y, d)
    BY <1>1 DEF ChainInv
  <2>2. y.unit = e.sending.unit =>
           /\ y.index \in 1 .. e.sending.next - 1 /\ ~y.isLast
           /\ y.index = e.sending.next - 1 => y.from + y.bytes = e.sending.offset
    <3>1. CASE last
      BY <1>6, <1>7, <3>1
    <3>2. CASE ~last
      <4>1. y.unit = u => y.index \in 1 .. n - 1 /\ ~y.isLast
        BY <1>7
      <4>2. y.unit = u => y.index \in 1 .. (n + 1) - 1 /\ ~(y.index = (n + 1) - 1) /\ ~y.isLast
        BY <1>1, <4>1
      <4> QED
        BY <1>6, <3>2, <4>2
    <3> QED
      BY <3>1, <3>2
  <2> QED
    BY <1>2, <2>1, <2>2 DEF PartFits
<1>12. PartFits(x, e)
  <2>1. x.unit <= Taken(e) /\ x.from + x.bytes <= Size[x.unit] /\ x.index \notin {0, 1}
    BY <1>1, <1>2
  <2>2. x.isLast => x.from + x.bytes = Size[x.unit]
    OBVIOUS
  <2>3. x.unit = e.sending.unit =>
           /\ x.index \in 1 .. e.sending.next - 1 /\ ~x.isLast
           /\ x.index = e.sending.next - 1 => x.from + x.bytes = e.sending.offset
    <3>1. CASE last
      BY <1>3, <1>6, <3>1
    <3>2. CASE ~last
      <4>1. n \in 1 .. (n + 1) - 1
        BY <1>1
      <4> QED
        BY <1>6, <3>2, <4>1
    <3> QED
      BY <3>1, <3>2
  <2> QED
    BY <2>1, <2>2, <2>3 DEF PartFits
<1>13. ChainInv(K2, e)
  <2>1. \A y, z \in K : y.unit = z.unit => Adjoin(y, z)
    BY <1>1 DEF ChainInv
  <2>2. ASSUME NEW y \in K, y.unit = u PROVE Adjoin(y, x) /\ Adjoin(x, y)
    <3>1. /\ y.index \in 1 .. n - 1 /\ ~y.isLast
          /\ y.index = n - 1 => y.from + y.bytes = o
      BY <1>7, <2>2
    <3> DEFINE j == y.index
    <3>0. j \in 1 .. n - 1
      BY <3>1
    <3> HIDE DEF j
    <3>3. j # n /\ j # n + 1 /\ (n = j + 1 => j = n - 1) /\ j <= n /\ n # 0 /\ j # 0
      BY SMTT(20), <1>1, <3>0
    <3>2. y.index # n /\ y.index # n + 1 /\ (n = y.index + 1 => y.index = n - 1)
            /\ y.index <= n /\ n # 0 /\ y.index # 0
      BY <3>3 DEF j
    <3> QED
      BY <1>8, <3>1, <3>2 DEF Adjoin
  <2>3. Adjoin(x, x)
    BY <1>1, <1>8 DEF Adjoin
  <2> QED
    BY <1>5, <1>11, <1>12, <2>1, <2>2, <2>3 DEF ChainInv
<1>14. OnceInv(K2, e, p)
  <2>1. u \notin Oneway => p.delivered[u] = 0
    <3>1. p.delivered[u] \in 0 .. 2 /\ (u \notin Oneway => ~(p.delivered[u] > 0))
      BY <1>1 DEF OnceInv
    <3> QED
      BY <3>1
  <2>2. e.sending.unit \in {0, d.sending.unit, u}
    BY <1>6
  <2>3. \A y \in K2 : y \in K \/ y.unit = u
    BY <1>5
  <2>4. Taken(d) \in Nat /\ Taken(e) \in Nat /\ Taken(d) <= Taken(e)
    BY <1>2
  <2> QED
    BY <1>1, <1>2, <2>1, <2>2, <2>3, <2>4, OnceGrown
<1>15. LiveInv(K2, e, p)
  <2>1. ASSUME u \notin Oneway \cup expired \cup p.cleared, p.delivered[u] = 0
        PROVE  AllThere(u, K2, e)
    <3>1. AllThere(u, K, d)
      BY <1>1, <2>1 DEF LiveInv
    <3>2. \A i \in 1 .. n - 1 : Present(u, i, K)
      <4>1. ~Present(u, 0, K)
        BY <1>7 DEF Present
      <4>2. ~\E y \in K : y.unit = u /\ y.isLast
        BY <1>7
      <4> QED
        BY <3>1, <4>1, <4>2 DEF AllThere
    <3>3. \A i \in 1 .. n : Present(u, i, K2)
      <4>1. \A i \in 1 .. n : i = n \/ i \in 1 .. n - 1
        BY <1>1
      <4> QED
        BY <1>5, <1>8, <3>2, <4>1 DEF Present
    <3>4. CASE last
      BY <1>5, <1>8, <3>3, <3>4 DEF AllThere
    <3>5. CASE ~last
      <4>1. \A i \in 1 .. (n + 1) - 1 : i \in 1 .. n
        BY <1>1
      <4> QED
        BY <1>6, <3>3, <3>5, <4>1 DEF AllThere
    <3> QED
      BY <3>4, <3>5
  <2>2. K \subseteq K2 /\ \A v \in Units : v <= Taken(e) => v <= Taken(d) \/ v = u
    BY <1>2, <1>5
  <2>3. \A v \in Units : v # u /\ d.sending.unit = v =>
           e.sending.unit = v /\ e.sending.next = d.sending.next
    OBVIOUS
  <2>4. LiveInv(K, d, p) /\ u \in Units
    BY <1>1
  <2> QED
    BY ZenonT(30), <2>1, <2>2, <2>3, <2>4, LiveGrown
<1>16. \A y \in K : ~SamePart(x, y)
  <2>1. \A y \in K : y.unit = u => y.index # n
    BY <1>1, <1>7
  <2> QED
    BY <1>8, <2>1 DEF SamePart
<1>17. x.kind = "data" <=> x.index = 0
  BY <1>1, <1>8
<1>18. Taken(d) \in Nat /\ Taken(e) \in Nat /\ Taken(d) <= Taken(e) /\ x.unit <= Taken(e)
  BY <1>1, <1>2
<1> QED
  BY <1>4, <1>9, <1>10, <1>13, <1>14, <1>15, <1>16, <1>17, <1>18, Emit DEF K, K2

(* A datagram that is being filled: the sections it has so far are on      *)
(* their way; while a unit is under way there is no more room.             *)
Datagram(m, d) == [no |-> m, sections |-> d.sections]

IsFill(d) ==
    d \in [sections : Seq(Sections), used : Nat, feedback : BOOLEAN, queue : {d.queue},
           sending : {d.sending}, id : {d.id}, ciphered : {d.ciphered}]

Sent(M, m) ==
    /\ m \in Nat
    /\ \A h \in M : h.no \in Nat /\ h.no < m /\ DOMAIN h.sections \subseteq Nat
    /\ \A g, h \in M : g.no = h.no => g = h

Filled1(M, L, m, d, p) ==
    IsFill(d) /\ World(M \cup {Datagram(m, d)}, L, d, p)

Filling(M, L, m, d, p) ==
    Filled1(M, L, m, d, p) /\ (d.sending.unit # 0 => d.used >= Room)

LEMMA RoomType ==
    /\ Room \in Nat /\ SectionHead \in Nat \ {0} /\ SegmentHead \in Nat \ {0} /\ Feedback \in Nat
    /\ Room > SectionHead + SegmentHead + Feedback
  BY SizesAssumption

LEMMA SpareType == ASSUME NEW d PROVE Spare(d) \in Nat
  BY RoomType DEF Spare

LEMMA FillGrows ==
    ASSUME NEW M, NEW m, Sent(M, m), NEW d, NEW e, NEW x \in Sections, d.sections \in Seq(Sections),
           e.sections = Append(d.sections, x)
    PROVE  Grown(M \cup {Datagram(m, d)}, M \cup {Datagram(m, e)}, m, Len(d.sections) + 1, x)
<1>1. Datagram(m, e) = [no |-> m, sections |-> Append(d.sections, x)]
  BY DEF Datagram
<1>2. m \in Nat /\ (\A h \in M : h.no \in Nat /\ h.no < m /\ DOMAIN h.sections \subseteq Nat)
      /\ \A g, h \in M : g.no = h.no => g = h
  BY DEF Sent
<1> QED
  BY <1>1, <1>2, AppendGrows DEF Datagram

LEMMA PutIs ==
    ASSUME NEW d, IsFill(d), NEW x \in Sections, NEW cost \in Nat
    PROVE  LET e == Put(d, x, cost) IN
           /\ IsFill(e) /\ e.sections = Append(d.sections, x) /\ e.used = d.used + cost
           /\ e.queue = d.queue /\ e.sending = d.sending /\ e.id = d.id
           /\ e.ciphered = After(d, x.unit) /\ e.feedback = d.feedback
<1> DEFINE s == Append(d.sections, x)
           w == d.used + cost
           c == After(d, x.unit)
           e == Put(d, x, cost)
<1>1. s \in Seq(Sections) /\ w \in Nat /\ d.sections \in Seq(Sections)
  BY DEF IsFill
<1>2. e = [d EXCEPT !.sections = s, !.used = w, !.ciphered = c]
  BY DEF Put, IsFill
<1> HIDE DEF s, w, c, e
<1>3. /\ e.sections = s /\ e.used = w /\ e.ciphered = c /\ e.queue = d.queue
      /\ e.sending = d.sending /\ e.id = d.id /\ e.feedback = d.feedback /\ IsFill(e)
  BY <1>1, <1>2 DEF IsFill
<1> QED
  BY <1>3 DEF e, s, w, c

LEMMA NextUnit ==
    ASSUME NEW d, SenderInv(d), pushed \in 0 .. Len(Size), d.queue # <<>>
    PROVE  Head(d.queue) \in Units /\ Taken(d) + 1 < IdSpace
<1> DEFINE e == [queue |-> Tail(d.queue)]
<1>1. e.queue = Tail(d.queue)
  OBVIOUS
<1> HIDE DEF e
<1> QED
  BY <1>1, Advance

LEMMA SkipFill ==
    ASSUME NEW M, NEW L, NEW m, NEW d, NEW p, Filling(M, L, m, d, p),
           pushed \in 0 .. Len(Size), d.queue # <<>>, Head(d.queue) \in expired
    PROVE  Filling(M, L, m, [d EXCEPT !.queue = Tail(@)], p)
<1> DEFINE q == Tail(d.queue)
           e == [d EXCEPT !.queue = Tail(@)]
<1>1. e = [d EXCEPT !.queue = q]
  BY DEF Filling, Filled1, IsFill
<1> HIDE DEF q, e
<1>2. /\ IsFill(e) /\ e.queue = q /\ e.sending = d.sending /\ e.id = d.id
      /\ e.ciphered = d.ciphered /\ e.sections = d.sections /\ e.used = d.used
  BY <1>1 DEF Filling, Filled1, IsFill
<1>3. Datagram(m, e) = Datagram(m, d)
  BY <1>2 DEF Datagram
<1>4. World(M \cup {Datagram(m, d)}, L, d, p)
  BY DEF Filling, Filled1
<1>5. World(M \cup {Datagram(m, d)}, L, e, p)
  BY <1>2, <1>4, SkipStep DEF q
<1>6. Filling(M, L, m, e, p)
  BY <1>2, <1>3, <1>5 DEF Filling, Filled1
<1> QED
  BY <1>6 DEF e

LEMMA SingleFill ==
    ASSUME NEW M, NEW L, NEW m, Sent(M, m), NEW d, NEW p, Filling(M, L, m, d, p),
           pushed \in 0 .. Len(Size), d.queue # <<>>
    PROVE  Filling(M, L, m, Single(d, Head(d.queue)), p)
<1> DEFINE u == Head(d.queue)
           x == Section("data", u, 0, 0, FALSE, 0, Size[u], d.ciphered)
           cost == SectionHead + Size[u]
           f == Put(d, x, cost)
           q == Tail(d.queue)
           e == [f EXCEPT !.queue = q]
<1>1. /\ IsFill(d) /\ World(M \cup {Datagram(m, d)}, L, d, p)
      /\ d.sections \in Seq(Sections) /\ d.used \in Nat /\ d.ciphered \in Nat
      /\ SenderInv(d)
  BY DEF Filling, Filled1, IsFill, World, SenderInv
<1>2. u \in Units /\ Size[u] \in Nat /\ cost \in Nat
  <2>1. u \in Units
    BY <1>1, NextUnit
  <2> HIDE DEF u
  <2>2. Size[u] \in Nat
    BY <2>1, UnitIs
  <2> QED
    BY <2>1, <2>2, RoomType
<1> HIDE DEF u, q
<1>3. x \in Sections /\ x.unit = u
  <2>1. (u \in Oneway) \in BOOLEAN
    OBVIOUS
  <2> QED
    BY <1>1, <1>2, <2>1, IdsAssumption DEF Section, Sections
<1> HIDE DEF x, cost
<1>4. /\ IsFill(f) /\ f.sections = Append(d.sections, x) /\ f.used = d.used + cost
      /\ f.queue = d.queue /\ f.sending = d.sending /\ f.id = d.id /\ f.ciphered = After(d, u)
  BY <1>1, <1>2, <1>3, PutIs
<1>5. Single(d, u) = e
  BY <1>4 DEF Single, x, cost, q, IsFill
<1> HIDE DEF f
<1>6. /\ IsFill(e) /\ e.sections = Append(d.sections, x) /\ e.used = d.used + cost
      /\ e.queue = q /\ e.sending = d.sending /\ e.id = d.id /\ e.ciphered = After(d, u)
  BY <1>4 DEF IsFill
<1> HIDE DEF e
<1>7. Grown(M \cup {Datagram(m, d)}, M \cup {Datagram(m, e)}, m, Len(d.sections) + 1, x)
  BY <1>1, <1>3, <1>6, FillGrows
<1>8. World(M \cup {Datagram(m, e)}, L, e, p)
  <2>1. Grown(M \cup {Datagram(m, d)}, M \cup {Datagram(m, e)}, m, Len(d.sections) + 1,
              Section("data", u, 0, 0, FALSE, 0, Size[u], d.ciphered))
    BY <1>7 DEF x
  <2>2. u = Head(d.queue) /\ e.queue = Tail(d.queue)
    BY <1>6 DEF q, u
  <2> QED
    BY <1>1, <1>6, <2>1, <2>2, SingleStep
<1>9. d.used >= Room => e.used >= Room
  BY <1>1, <1>2, <1>6, RoomType
<1> QED
  BY <1>5, <1>6, <1>8, <1>9 DEF Filling, Filled1, u

LEMMA FirstFill ==
    ASSUME NEW M, NEW L, NEW m, Sent(M, m), NEW d, NEW p, Filling(M, L, m, d, p),
           pushed \in 0 .. Len(Size), d.queue # <<>>, d.used < Room,
           NEW space, space = Room + Spare(d) - d.used - SectionHead,
           space >= SegmentHead, ~(Size[Head(d.queue)] <= space)
    PROVE  Filling(M, L, m, FirstSegment(d, Head(d.queue), space), p)
<1> DEFINE u == Head(d.queue)
           bytes == space - SegmentHead
           id == NewId(d.id)
           x == Section("segment", u, id, 1, FALSE, 0, bytes, d.ciphered)
           cost == SectionHead + SegmentHead + bytes
           f == Put(d, x, cost)
           q == Tail(d.queue)
           s == [unit |-> u, next |-> 2, offset |-> bytes]
           e == [f EXCEPT !.queue = q, !.id = id, !.sending = s]
<1>1. /\ IsFill(d) /\ World(M \cup {Datagram(m, d)}, L, d, p)
      /\ d.sections \in Seq(Sections) /\ d.used \in Nat /\ d.ciphered \in Nat
      /\ SenderInv(d) /\ d.id \in 0 .. IdSpace - 1
  BY DEF Filling, Filled1, IsFill, World, SenderInv
<1>2. /\ u \in Units /\ Size[u] \in Nat /\ Taken(d) + 1 < IdSpace
      /\ Taken(d) \in Nat /\ Age(d.id) <= Taken(d) /\ Age(d.id) \in Nat
  <2>1. u \in Units /\ Taken(d) + 1 < IdSpace
    BY <1>1, NextUnit
  <2> QED
    BY <1>1, <2>1, TakenType, UnitIs
<1>3. d.sending.unit = 0
  <2>1. ~(d.used >= Room)
    BY <1>1, RoomType
  <2> QED
    BY <2>1 DEF Filling
<1>4. bytes \in Nat /\ bytes < Size[u] /\ cost \in Nat /\ d.used + cost >= Room
  <2> DEFINE z == Size[u]
             w == d.used
             r == Spare(d)
  <2>1. r \in Nat /\ z \in Nat /\ w \in Nat /\ ~(z <= space) /\ space = Room + r - w - SectionHead
    BY <1>1, <1>2, SpareType
  <2>2. Room \in Nat /\ SectionHead \in Nat /\ SegmentHead \in Nat \ {0} /\ space \in Int
    BY <2>1, RoomType
  <2>3. bytes = space - SegmentHead /\ cost = SectionHead + SegmentHead + bytes
    OBVIOUS
  <2> HIDE DEF z, w, r, bytes, cost, u
  <2>4. bytes \in Nat /\ bytes < z /\ cost \in Nat /\ w + cost >= Room
    BY <2>1, <2>2, <2>3
  <2> QED
    BY <2>4 DEF z, w
<1>5. id \in 0 .. IdSpace - 1
  <2>1. Age(d.id) + 1 < IdSpace
    BY <1>2, IdsAssumption
  <2> QED
    BY <1>1, <2>1, AgeNext
<1> HIDE DEF u, bytes, id, cost, q, s
<1>6. x \in Sections /\ x.unit = u
  <2>1. (u \in Oneway) \in BOOLEAN
    OBVIOUS
  <2> QED
    BY <1>1, <1>2, <1>4, <1>5, <2>1 DEF Section, Sections
<1> HIDE DEF x
<1>7. /\ IsFill(f) /\ f.sections = Append(d.sections, x) /\ f.used = d.used + cost
      /\ f.queue = d.queue /\ f.sending = d.sending /\ f.id = d.id /\ f.ciphered = After(d, u)
  BY <1>1, <1>4, <1>6, PutIs
<1>8. FirstSegment(d, u, space) = e
  BY <1>7 DEF FirstSegment, x, cost, bytes, id, q, s, IsFill
<1> HIDE DEF f
<1>9. /\ IsFill(e) /\ e.sections = Append(d.sections, x) /\ e.used = d.used + cost
      /\ e.queue = q /\ e.sending = s /\ e.id = id /\ e.ciphered = After(d, u)
  BY <1>7 DEF IsFill
<1> HIDE DEF e
<1>10. Grown(M \cup {Datagram(m, d)}, M \cup {Datagram(m, e)}, m, Len(d.sections) + 1, x)
  BY <1>1, <1>6, <1>9, FillGrows
<1>11. World(M \cup {Datagram(m, e)}, L, e, p)
  <2>1. Grown(M \cup {Datagram(m, d)}, M \cup {Datagram(m, e)}, m, Len(d.sections) + 1,
              Section("segment", u, NewId(d.id), 1, FALSE, 0, bytes, d.ciphered))
    BY <1>10 DEF x, id
  <2>2. u = Head(d.queue) /\ e.queue = Tail(d.queue) /\ e.id = NewId(d.id)
          /\ e.sending = [unit |-> u, next |-> 2, offset |-> bytes]
    BY <1>9 DEF q, u, id, s
  <2> QED
    BY ZenonT(30), <1>1, <1>3, <1>4, <1>9, <2>1, <2>2, FirstStep
<1>12. e.used >= Room
  BY <1>4, <1>9
<1>13. Filling(M, L, m, e, p)
  BY <1>9, <1>11, <1>12 DEF Filling, Filled1
<1> QED
  BY <1>8, <1>13 DEF u

LEMMA FillNextStep ==
    ASSUME NEW M, NEW L, NEW m, Sent(M, m), NEW d, NEW p, Filling(M, L, m, d, p),
           pushed \in 0 .. Len(Size)
    PROVE  Filling(M, L, m, FillNext(d), p)
<1> DEFINE u == Head(d.queue)
           space == Room + Spare(d) - d.used - SectionHead
<1>0. d.used \in Nat /\ Spare(d) \in Nat /\ Room \in Nat
  BY SpareType, RoomType DEF Filling, Filled1, IsFill
<1>1. CASE d.queue = <<>> \/ d.used >= Room
  BY <1>1 DEF FillNext
<1>2. CASE d.queue # <<>> /\ ~(d.used >= Room) /\ u \in expired
  <2>1. FillNext(d) = [d EXCEPT !.queue = Tail(@)]
    BY <1>2 DEF FillNext
  <2> QED
    BY <1>2, <2>1, SkipFill
<1>3. CASE d.queue # <<>> /\ ~(d.used >= Room) /\ u \notin expired /\ ~(space <= 0) /\ Size[u] <= space
  <2>1. FillNext(d) = Single(d, u)
    BY <1>3 DEF FillNext
  <2> QED
    BY <1>3, <2>1, SingleFill
<1>4. CASE d.queue # <<>> /\ ~(d.used >= Room) /\ u \notin expired /\ ~(space <= 0)
             /\ ~(Size[u] <= space) /\ ~(Spare(d) = 0 /\ Size[u] <= Room) /\ ~(space < SegmentHead)
  <2>1. FillNext(d) = FirstSegment(d, u, space)
    BY <1>4 DEF FillNext
  <2>2. d.used < Room /\ space >= SegmentHead
    BY <1>0, <1>4, RoomType
  <2> HIDE DEF space
  <2>3. space = Room + Spare(d) - d.used - SectionHead
    BY DEF space
  <2>4. Filling(M, L, m, FirstSegment(d, u, space), p)
    BY <1>4, <2>2, <2>3, FirstFill
  <2> QED
    BY <2>1, <2>4
<1>5. CASE d.queue # <<>> /\ ~(d.used >= Room) /\ u \notin expired
             /\ (space <= 0 \/ (~(Size[u] <= space)
                  /\ ((Spare(d) = 0 /\ Size[u] <= Room) \/ space < SegmentHead)))
  <2>1. FillNext(d) = d
    BY <1>5 DEF FillNext
  <2> QED
    BY <2>1
<1> QED
  BY <1>1, <1>2, <1>3, <1>4, <1>5

LEMMA CancelFill ==
    ASSUME NEW M, NEW L, NEW m, Sent(M, m), NEW d, NEW p, Filled1(M, L, m, d, p),
           pushed \in 0 .. Len(Size), d.sending.unit # 0, d.sending.unit \in expired
    PROVE  Filling(M, L, m, NextSegment(d), p)
<1> DEFINE u == d.sending.unit
           x == Section("cancel", u, d.id, d.sending.next, FALSE, 0, 0, 0)
           s == Append(d.sections, x)
           w == d.used + (SectionHead + SegmentHead)
           e == [d EXCEPT !.sections = s, !.used = w, !.sending = NotSending]
<1>1. /\ IsFill(d) /\ World(M \cup {Datagram(m, d)}, L, d, p)
      /\ d.sections \in Seq(Sections) /\ d.used \in Nat /\ d.ciphered \in Nat
      /\ SenderInv(d) /\ d.id \in 0 .. IdSpace - 1 /\ u \in Units /\ d.sending.next \in Nat
  BY DEF Filled1, IsFill, World, SenderInv
<1>2. /\ x \in Sections /\ x.kind = "cancel" /\ x.unit = u /\ x.id = d.id
      /\ x.index = d.sending.next /\ (x.oneway <=> u \in Oneway)
  <2>1. (u \in Oneway) \in BOOLEAN
    OBVIOUS
  <2>2. x \in Sections
    BY <1>1, <2>1 DEF Section, Sections
  <2> QED
    BY <2>2 DEF Section
<1>3. NextSegment(d) = e
  BY <1>1 DEF NextSegment, IsFill
<1> HIDE DEF x
<1>4. s \in Seq(Sections) /\ w \in Nat
  BY <1>1, <1>2, RoomType
<1> HIDE DEF s, w
<1>5. /\ IsFill(e) /\ e.sections = s /\ e.queue = d.queue /\ e.sending = NotSending
      /\ e.id = d.id /\ e.ciphered = d.ciphered
  BY <1>1, <1>4 DEF IsFill
<1> HIDE DEF e
<1>6. Grown(M \cup {Datagram(m, d)}, M \cup {Datagram(m, e)}, m, Len(d.sections) + 1, x)
  BY <1>1, <1>2, <1>5, FillGrows DEF s
<1>7. World(M \cup {Datagram(m, e)}, L, e, p)
  BY <1>1, <1>2, <1>5, <1>6, CancelStep
<1>8. e.sending.unit = 0
  BY <1>5 DEF NotSending
<1> QED
  BY <1>3, <1>5, <1>7, <1>8 DEF Filling, Filled1

LEMMA PartFill ==
    ASSUME NEW M, NEW L, NEW m, Sent(M, m), NEW d, NEW p, Filled1(M, L, m, d, p),
           pushed \in 0 .. Len(Size), d.sending.unit # 0, d.sending.unit \notin expired,
           SegmentFits(d)
    PROVE  Filling(M, L, m, NextSegment(d), p)
<1> DEFINE u == d.sending.unit
           o == d.sending.offset
           n == d.sending.next
           space == Room + Spare(d) - d.used - SectionHead - SegmentHead
           rest == Size[u] - o
           bytes == IF rest > space THEN space ELSE rest
           last == Ends(rest, space)
           x == Section("segment", u, d.id, n, last, o, bytes, d.ciphered)
           cost == SectionHead + SegmentHead + bytes
           f == Put(d, x, cost)
           s == IF o + bytes >= Size[u] THEN NotSending
                ELSE [unit |-> u, next |-> n + 1, offset |-> o + bytes]
           e == [f EXCEPT !.sending = s]
<1>8. NextSegment(d) = e
  BY DEF NextSegment
<1>1. /\ IsFill(d) /\ World(M \cup {Datagram(m, d)}, L, d, p)
      /\ d.sections \in Seq(Sections) /\ d.used \in Nat /\ d.ciphered \in Nat
      /\ SenderInv(d) /\ d.id \in 0 .. IdSpace - 1 /\ u \in Units /\ n \in Nat /\ o \in Nat
      /\ o < Size[u]
  BY DEF Filled1, IsFill, World, SenderInv
<1>2. Size[u] \in Nat
  BY <1>1, UnitIs
<1>3. /\ bytes \in Nat /\ cost \in Nat /\ o + bytes <= Size[u]
      /\ (last <=> o + bytes = Size[u]) /\ (o + bytes >= Size[u] <=> o + bytes = Size[u])
      /\ o + bytes # Size[u] => d.used + cost >= Room
  <2> DEFINE z == Size[u]
             w == d.used
             r == Spare(d)
  <2>1. r \in Nat /\ z \in Nat /\ w \in Nat /\ o \in Nat /\ o < z
    BY <1>1, <1>2, SpareType
  <2>2. Room \in Nat /\ SectionHead \in Nat /\ SegmentHead \in Nat \ {0}
    BY RoomType
  <2>3. space = Room + r - w - SectionHead - SegmentHead /\ rest = z - o
          /\ cost = SectionHead + SegmentHead + bytes /\ (last <=> rest <= space)
          /\ bytes = IF rest > space THEN space ELSE rest
    BY DEF Ends
  <2>4. Room > w + SectionHead + SegmentHead - r
    BY DEF SegmentFits
  <2> HIDE DEF z, w, r, bytes, cost, u, o, space, rest, last
  <2>5. space \in Int /\ space > 0 /\ rest \in Int /\ rest > 0
    BY <2>1, <2>2, <2>3, <2>4
  <2>6. CASE rest > space
    <3>1. bytes = space /\ ~last
      BY <2>3, <2>5, <2>6
    <3>2. o + bytes < z /\ w + cost >= Room
      BY <2>1, <2>2, <2>3, <2>5, <2>6, <3>1
    <3>3. bytes \in Nat /\ cost \in Nat
      BY <2>2, <2>3, <2>5, <3>1
    <3>4. o + bytes # z /\ o + bytes <= z /\ ~(o + bytes >= z)
      BY <2>1, <3>2, <3>3
    <3> QED
      BY <3>1, <3>2, <3>3, <3>4 DEF z, w
  <2>7. CASE ~(rest > space)
    <3>1. bytes = rest /\ last
      BY <2>3, <2>5, <2>7
    <3>2. o + bytes = z
      BY <2>1, <2>3, <3>1
    <3>3. bytes \in Nat /\ cost \in Nat
      BY <2>2, <2>3, <2>5, <3>1
    <3>4. o + bytes <= z /\ o + bytes >= z
      BY <2>1, <3>2, <3>3
    <3> QED
      BY <3>1, <3>2, <3>3, <3>4 DEF z, w
  <2> QED
    BY <2>6, <2>7
<1>4. last \in BOOLEAN
  BY DEF Ends
<1> HIDE DEF bytes, last, space, rest, cost, s
<1>5. /\ x \in Sections /\ x.kind = "segment" /\ x.unit = u /\ x.id = d.id /\ x.index = n
      /\ (x.isLast <=> last) /\ x.from = o /\ x.bytes = bytes /\ x.at = d.ciphered
      /\ (x.oneway <=> u \in Oneway)
  <2>1. (u \in Oneway) \in BOOLEAN
    OBVIOUS
  <2>2. /\ x.kind = "segment" /\ x.unit = u /\ x.id = d.id /\ x.index = n
        /\ (x.isLast <=> last) /\ x.from = o /\ x.bytes = bytes /\ x.at = d.ciphered
        /\ (x.oneway <=> u \in Oneway)
    BY DEF Section
  <2>3. x \in Sections
    BY <1>1, <1>3, <1>4, <2>1 DEF Section, Sections
  <2> QED
    BY <2>2, <2>3
<1>6. s = IF last THEN NotSending ELSE [unit |-> u, next |-> n + 1, offset |-> o + bytes]
  BY <1>3 DEF s
<1>7. f = Put(d, x, cost) /\ e = [f EXCEPT !.sending = s]
  OBVIOUS
<1> HIDE DEF x, f, e
<1>9. /\ IsFill(f) /\ f.sections = Append(d.sections, x) /\ f.used = d.used + cost
      /\ f.queue = d.queue /\ f.id = d.id /\ f.ciphered = After(d, u)
  <2>1. x \in Sections /\ cost \in Nat /\ x.unit = u
    BY <1>3, <1>5
  <2> DEFINE g == Put(d, x, cost)
  <2>2. IsFill(d)
    BY <1>1
  <2> HIDE DEF cost, u
  <2>3. /\ IsFill(g) /\ g.sections = Append(d.sections, x) /\ g.used = d.used + cost
        /\ g.queue = d.queue /\ g.id = d.id /\ g.ciphered = After(d, x.unit)
    BY <2>1, <2>2, PutIs
  <2> QED
    BY <1>7, <2>1, <2>3
<1>10. /\ IsFill(e) /\ e.sections = Append(d.sections, x) /\ e.used = d.used + cost
       /\ e.queue = d.queue /\ e.sending = s /\ e.id = d.id /\ e.ciphered = After(d, u)
  BY <1>7, <1>9 DEF IsFill
<1>11. Grown(M \cup {Datagram(m, d)}, M \cup {Datagram(m, e)}, m, Len(d.sections) + 1, x)
  BY <1>1, <1>5, <1>10, FillGrows
<1>12. World(M \cup {Datagram(m, e)}, L, e, p)
  BY ZenonT(30), <1>1, <1>3, <1>4, <1>5, <1>6, <1>10, <1>11, PartStep
<1>13. e.sending.unit # 0 => e.used >= Room
  <2>1. CASE last
    BY <1>6, <1>10, <2>1 DEF NotSending
  <2>2. CASE ~last
    BY <1>3, <1>10, <2>2
  <2> QED
    BY <2>1, <2>2
<1> QED
  BY <1>8, <1>10, <1>12, <1>13 DEF Filling, Filled1

LEMMA FillRun ==
    ASSUME NEW d, Len(d.queue) \in Nat
    PROVE  \E t : /\ t[0] = d
                  /\ \A i \in 1 .. Len(d.queue) : t[i] = FillNext(t[i - 1])
                  /\ FillFromQueue(d) = t[Len(d.queue)]
<1> DEFINE n == Len(d.queue)
           F(g, i) == IF i = 0 THEN d ELSE FillNext(g[i - 1])
           Run(g, m) == g = [i \in 0 .. m |-> F(g, i)]
           S == {m \in Nat : \E g : Run(g, m)}
<1>1. 0 \in S
  <2>1. Run([i \in {0} |-> d], 0)
    OBVIOUS
  <2> QED
    BY <2>1
<1>2. ASSUME NEW m \in Nat, m \in S PROVE m + 1 \in S
  <2>1. PICK g : Run(g, m)
    BY <1>2
  <2> DEFINE h == [i \in 0 .. m + 1 |-> IF i <= m THEN g[i] ELSE FillNext(g[m])]
  <2>2. \A i \in 0 .. m : g[i] = F(g, i)
    BY <2>1
  <2>3. \A i \in 0 .. m + 1 : h[i] = F(h, i)
    <3>1. ASSUME NEW i \in 0 .. m + 1, i = m + 1 PROVE h[i] = F(h, i)
      BY <3>1
    <3>2. ASSUME NEW i \in 0 .. m, i # 0 PROVE h[i] = F(h, i)
      BY <2>2, <3>2
    <3>3. h[0] = F(h, 0)
      BY <2>2
    <3>4. \A i \in 0 .. m + 1 : i = m + 1 \/ (i \in 0 .. m /\ i # 0) \/ i = 0
      OBVIOUS
    <3> HIDE DEF h, F
    <3> QED
      BY <3>1, <3>2, <3>3, <3>4
  <2>4. h = [i \in 0 .. m + 1 |-> h[i]]
    OBVIOUS
  <2> HIDE DEF h
  <2>5. Run(h, m + 1)
    BY <2>3, <2>4
  <2> QED
    BY <2>5
<1> HIDE DEF S
<1>3. n \in S
  BY <1>1, <1>2, Reached
<1>4. \E g : Run(g, n)
  BY <1>3 DEF S
<1> DEFINE t == CHOOSE g : Run(g, n)
<1>5. Run(t, n)
  BY <1>4
<1>6. FillFromQueue(d) = t[n]
  BY DEF FillFromQueue
<1> HIDE DEF t
<1>7. \A i \in 0 .. n : t[i] = F(t, i)
  BY <1>5
<1> QED
  BY <1>6, <1>7

LEMMA FillQueueStep ==
    ASSUME NEW M, NEW L, NEW m, Sent(M, m), NEW d, NEW p, Filling(M, L, m, d, p),
           pushed \in 0 .. Len(Size)
    PROVE  Filling(M, L, m, FillFromQueue(d), p)
<1> DEFINE n == Len(d.queue)
<1>1. n \in Nat
  BY DEF Filling, Filled1, World, SenderInv
<1>2. PICK t : /\ t[0] = d
               /\ \A i \in 1 .. n : t[i] = FillNext(t[i - 1])
               /\ FillFromQueue(d) = t[n]
  BY <1>1, FillRun
<1> HIDE DEF n
<1> DEFINE S == {k \in Nat : k <= n => Filling(M, L, m, t[k], p)}
<1>3. 0 \in S
  BY <1>2
<1>4. ASSUME NEW k \in Nat, k \in S PROVE k + 1 \in S
  <2>1. CASE k + 1 <= n
    <3>1. Filling(M, L, m, t[k], p)
      BY <1>1, <1>4, <2>1
    <3>2. k + 1 \in 1 .. n /\ (k + 1) - 1 = k
      BY <1>1, <2>1
    <3>3. t[k + 1] = FillNext(t[k])
      BY <1>2, <3>2
    <3>4. Filling(M, L, m, t[k + 1], p)
      BY <3>1, <3>3, FillNextStep
    <3> QED
      BY <3>4
  <2>2. CASE ~(k + 1 <= n)
    BY <2>2
  <2> QED
    BY <2>1, <2>2
<1>5. n \in S
  <2> HIDE DEF S
  <2> QED
    BY <1>1, <1>3, <1>4, Reached
<1> QED
  BY <1>1, <1>2, <1>5

LEMMA FillStep ==
    ASSUME NEW M, NEW L, NEW m, Sent(M, m), NEW d, NEW p, Filled1(M, L, m, d, p),
           pushed \in 0 .. Len(Size)
    PROVE  Filled1(M, L, m, FillDataSection(d), p)
<1>1. CASE d.sending.unit = 0
  <2>1. Filling(M, L, m, d, p) /\ FillDataSection(d) = FillFromQueue(d)
    BY <1>1 DEF Filling, FillDataSection
  <2> QED
    BY <2>1, FillQueueStep DEF Filling
<1>2. CASE d.sending.unit # 0 /\ SegmentFits(d)
  <2>1. Filling(M, L, m, NextSegment(d), p)
    BY <1>2, CancelFill, PartFill
  <2>2. FillDataSection(d) = FillFromQueue(NextSegment(d))
    BY <1>2 DEF FillDataSection
  <2> QED
    BY <2>1, <2>2, FillQueueStep DEF Filling
<1>3. CASE d.sending.unit # 0 /\ ~SegmentFits(d)
  BY <1>3 DEF FillDataSection
<1> QED
  BY <1>1, <1>2, <1>3

-----------------------------------------------------------------------------
(* The actions keep the invariant.                                         *)

LEMMA SameSender ==
    ASSUME NEW N, NEW L, NEW d, NEW e, NEW p, World(N, L, d, p),
           e.queue = d.queue, e.sending = d.sending, e.id = d.id, e.ciphered = d.ciphered
    PROVE  World(N, L, e, p)
<1> DEFINE K == Parts(N, L, p.cache)
<1>1. Taken(e) = Taken(d)
  BY DEF Taken
<1>2. SenderInv(e)
  BY <1>1 DEF World, SenderInv
<1>3. NetInv(N, L, e)
  BY <1>1 DEF World, NetInv
<1>4. IdInv(N, L, p.cache, e)
  BY DEF World, IdInv, Named
<1> HIDE DEF K
<1>5. ChainInv(K, d) /\ OnceInv(K, d, p) /\ LiveInv(K, d, p) /\ CipherInv(N, d, p.deciphered)
  BY DEF World, K
<1>6. ChainInv(K, e)
  BY <1>1, <1>5 DEF ChainInv, PartFits
<1>7. OnceInv(K, e, p) /\ CipherInv(N, e, p.deciphered)
  BY <1>1, <1>5 DEF OnceInv, CipherInv
<1>8. LiveInv(K, e, p)
  BY <1>1, <1>5 DEF LiveInv, AllThere
<1> QED
  BY <1>2, <1>3, <1>4, <1>6, <1>7, <1>8 DEF World, K

(* A datagram without sections.                                            *)
LEMMA EmptySent ==
    ASSUME NEW N, NEW L, NEW d, NEW p, NEW m, Sent(N, m), World(N, L, d, p),
           NEW e, e.sections = <<>>
    PROVE  World(N \cup {Datagram(m, e)}, L, d, p)
<1> DEFINE g == Datagram(m, e)
           M == N \cup {g}
<1>1. g.no = m /\ DOMAIN g.sections = {}
  BY DEF Datagram
<1> HIDE DEF g
<1>2. Flat(M, L) = Flat(N, L)
  <2>1. \A x : x \in Flat(M, L) => x \in Flat(N, L)
    BY <1>1, FlatIs
  <2>2. \A x : x \in Flat(N, L) => x \in Flat(M, L)
    BY FlatIs
  <2> QED
    BY <2>1, <2>2
<1>3. Parts(M, L, p.cache) = Parts(N, L, p.cache)
  BY <1>2 DEF Parts
<1>4. m \in Nat /\ \A h \in N : h.no # m
  BY DEF Sent
<1>5. NetInv(M, L, d)
  BY <1>1, <1>2, <1>4 DEF World, NetInv
<1>6. KeyInv(M, L, p.cache)
  <2>1. KeyInv(N, L, p.cache)
    BY DEF World
  <2>2. \A h \in M : \A i \in DOMAIN h.sections : h \in N
    BY <1>1
  <2> HIDE DEF M
  <2> QED
    BY <2>1, <2>2 DEF KeyInv
<1>7. IdInv(M, L, p.cache, d)
  <2>1. \A a, u : Named(a, u, M, L, p.cache, d) => Named(a, u, N, L, p.cache, d)
    BY <1>2 DEF Named
  <2> HIDE DEF M
  <2> QED
    BY <2>1, IdMono DEF World
<1>8. CipherInv(M, d, p.deciphered)
  BY <1>1 DEF World, CipherInv
<1> QED
  BY <1>3, <1>5, <1>6, <1>7, <1>8 DEF World, g

(* A datagram of discardable data alone is sent without a number.          *)
LEMMA LooseMove ==
    ASSUME NEW M, NEW L, NEW d, NEW p, NEW g, NEW L2, World(M \cup {g}, L, d, p),
           \A h \in M : h.no # g.no, \A i \in DOMAIN g.sections : g.sections[i].oneway,
           \/ L2 = L \cup {g.sections}
           \/ L2 = L /\ DOMAIN g.sections = {}
    PROVE  World(M, L2, d, p)
<1> DEFINE N == M \cup {g}
<1>1. Flat(M, L2) = Flat(N, L)
  <2>1. \A x : x \in Flat(M, L2) => x \in Flat(N, L)
    BY FlatIs
  <2>2. \A x : x \in Flat(N, L) => x \in Flat(M, L2)
    BY FlatIs
  <2> QED
    BY <2>1, <2>2
<1>2. Parts(M, L2, p.cache) = Parts(N, L, p.cache)
  BY <1>1 DEF Parts
<1>3. NetInv(N, L, d) /\ KeyInv(N, L, p.cache) /\ CipherInv(N, d, p.deciphered)
  BY DEF World
<1>4. \A i \in DOMAIN g.sections : g.sections[i].unit \in Oneway /\ ~Deciphers(g.sections[i])
  <2>1. \A i \in DOMAIN g.sections : g.sections[i] \in Flat(N, L)
    BY FlatIs
  <2> QED
    BY <1>3, <2>1 DEF NetInv, Deciphers, Ciphers
<1>5. NetInv(M, L2, d)
  BY <1>1, <1>3, <1>4 DEF NetInv
<1>6. KeyInv(M, L2, p.cache)
  <2> SUFFICES ASSUME NEW h \in M, NEW i \in DOMAIN h.sections, h.sections[i].kind # "cancel"
               PROVE  /\ \A a \in M : \A j \in DOMAIN a.sections :
                            a.sections[j].kind # "cancel" /\ SamePart(h.sections[i], a.sections[j])
                               => a.no = h.no /\ j = i
                      /\ \A l \in L2 : \A j \in DOMAIN l :
                            l[j].kind # "cancel" => ~SamePart(h.sections[i], l[j])
                      /\ \A y \in Pieces(p.cache) : ~SamePart(h.sections[i], y)
    BY DEF KeyInv
  <2>1. /\ \A a \in N : \A j \in DOMAIN a.sections :
              a.sections[j].kind # "cancel" /\ SamePart(h.sections[i], a.sections[j])
                 => a.no = h.no /\ j = i
        /\ \A l \in L : \A j \in DOMAIN l :
              l[j].kind # "cancel" => ~SamePart(h.sections[i], l[j])
        /\ \A y \in Pieces(p.cache) : ~SamePart(h.sections[i], y)
    BY <1>3 DEF KeyInv
  <2>2. \A j \in DOMAIN g.sections :
           g.sections[j].kind # "cancel" => ~SamePart(h.sections[i], g.sections[j])
    BY <2>1
  <2> QED
    BY <2>1, <2>2
<1>7. IdInv(M, L2, p.cache, d)
  <2>1. IdInv(N, L, p.cache, d)
    BY DEF World
  <2> QED
    <3>1. \A a, u : Named(a, u, M, L2, p.cache, d) => Named(a, u, N, L, p.cache, d)
      BY <1>1 DEF Named
    <3> HIDE DEF N
    <3> QED
      BY <2>1, <3>1, IdMono
<1>8. CipherInv(M, d, p.deciphered)
  <2>1. ASSUME encrypted, NEW o \in p.deciphered .. d.ciphered - 1
        PROVE  \E h \in M : \E i \in DOMAIN h.sections : Deciphers(h.sections[i]) /\ h.sections[i].at = o
    <3>1. PICK h \in N : \E i \in DOMAIN h.sections : Deciphers(h.sections[i]) /\ h.sections[i].at = o
      BY <1>3, <2>1 DEF CipherInv
    <3> QED
      BY <1>4, <3>1
  <2> QED
    BY <1>3, <2>1 DEF CipherInv
<1> QED
  BY <1>2, <1>5, <1>6, <1>7, <1>8 DEF World

LEMMA SentIs ==
    ASSUME SegInv
    PROVE  Sent(net, made + 1)
<1>1. net \subseteq [no : 1 .. made, sections : Seq(Sections)] /\ made \in Nat
  BY DEF SegInv, BaseInv
<1>2. \A g, h \in net : g.no = h.no => g = h
  BY DEF SegInv, World, NetInv
<1>3. \A h \in net : h.no \in Nat /\ h.no < made + 1 /\ DOMAIN h.sections \subseteq Nat
  <2> TAKE h \in net
  <2>1. h.no \in 1 .. made /\ h.sections \in Seq(Sections)
    BY <1>1
  <2> QED
    BY <1>1, <2>1
<1> QED
  BY <1>1, <1>2, <1>3 DEF Sent

(* The state after a step is that of a world.                              *)
LEMMA WorldNext ==
    ASSUME encrypted' = encrypted, pushed' = pushed, expired' = expired,
           World(net', loose', Sender', Parser')
    PROVE  World(net, loose, Sender, Parser)'
  BY DEF World, SenderInv, NetInv, CacheInv, IdInv, ChainInv, KeyInv, OnceInv, CipherInv,
         LiveInv, Taken, PartFits, AllThere, Deciphers, Ciphers

LEMMA SendStep ==
    ASSUME SegInv, NEW feedback \in BOOLEAN, Send(feedback)
    PROVE  SegInv'
<1> DEFINE d == [sections |-> <<>>, used |-> IF feedback THEN Feedback ELSE 0,
                 feedback |-> feedback, queue |-> queue, sending |-> sending,
                 id |-> packageId, ciphered |-> ciphered]
           e == Filled(feedback)
           m == made + 1
           reliable == \E i \in DOMAIN e.sections : ~e.sections[i].oneway
<1>1. /\ BaseInv /\ World(net, loose, Sender, Parser) /\ Sent(net, m) /\ pushed \in 0 .. Len(Size)
      /\ net \subseteq [no : 1 .. made, sections : Seq(Sections)] /\ made \in Nat
      /\ loose \subseteq Seq(Sections)
  BY SentIs DEF SegInv, BaseInv
<1>2. /\ queue' = e.queue /\ sending' = e.sending /\ packageId' = e.id /\ ciphered' = e.ciphered
      /\ made' = IF reliable THEN made + 1 ELSE made
      /\ net' = IF reliable THEN net \cup {[no |-> made', sections |-> e.sections]} ELSE net
      /\ loose' = IF reliable \/ e.sections = <<>> THEN loose ELSE loose \cup {e.sections}
      /\ reports' \in {reports, reports + 1} /\ (reports' = reports + 1 => reports < MaxReports)
      /\ UNCHANGED <<encrypted, pushed, expired, cache, deciphered, delivered, garbled, cleared>>
  <2>1. /\ reports' \in {reports, reports + 1} /\ (reports' = reports + 1 => reports < MaxReports)
        /\ UNCHANGED <<encrypted, pushed, expired, cache, deciphered, delivered, garbled, cleared>>
    <3>1. /\ feedback => reports < MaxReports
          /\ reports' = IF feedback THEN reports + 1 ELSE reports
          /\ UNCHANGED <<encrypted, pushed, expired, parseVars>>
      BY DEF Send
    <3>2. reports \in Nat
      BY <1>1 DEF BaseInv
    <3>3. /\ reports' \in {reports, reports + 1}
          /\ reports' = reports + 1 => reports < MaxReports
      BY <3>1, <3>2
    <3> QED
      BY <3>1, <3>3 DEF parseVars
  <2>2. \E f \in {e} :
           /\ queue' = f.queue /\ sending' = f.sending
           /\ packageId' = f.id /\ ciphered' = f.ciphered
           /\ made' = IF \E i \in DOMAIN f.sections : ~f.sections[i].oneway THEN made + 1 ELSE made
           /\ net' = IF \E i \in DOMAIN f.sections : ~f.sections[i].oneway
                     THEN net \cup {[no |-> made', sections |-> f.sections]} ELSE net
           /\ loose' = IF (\E i \in DOMAIN f.sections : ~f.sections[i].oneway) \/ f.sections = <<>>
                       THEN loose ELSE loose \cup {f.sections}
    BY Zenon DEF Send
  <2> HIDE DEF e
  <2> QED
    BY <2>1, <2>2
<1>3. e = FillDataSection(d)
  BY DEF Filled
<1> HIDE DEF e, d
<1>4. /\ d.queue = Sender.queue /\ d.sending = Sender.sending /\ d.id = Sender.id
      /\ d.ciphered = Sender.ciphered /\ d.sections = <<>> /\ IsFill(d)
  BY RoomType DEF d, Sender, IsFill
<1>5. Filled1(net, loose, m, d, Parser)
  <2>1. World(net, loose, d, Parser)
    BY <1>1, <1>4, SameSender
  <2> QED
    BY <1>1, <1>4, <2>1, EmptySent DEF Filled1
<1>6. Filled1(net, loose, m, e, Parser)
  BY <1>1, <1>3, <1>5, FillStep
<1>7. /\ e.sections \in Seq(Sections) /\ World(net \cup {Datagram(m, e)}, loose, e, Parser)
      /\ Datagram(m, e) = [no |-> m, sections |-> e.sections]
  BY <1>6 DEF Filled1, IsFill, Datagram
<1>8. World(net', loose', e, Parser)
  <2>1. CASE reliable
    <3>1. net' = net \cup {Datagram(m, e)} /\ loose' = loose
      BY <1>2, <1>7, <2>1
    <3> QED
      BY <1>7, <3>1
  <2>2. CASE ~reliable
    <3> DEFINE g == Datagram(m, e)
    <3>1. net' = net /\ g.sections = e.sections /\ g.no = m
      BY <1>2, <1>7, <2>2
    <3>2. \A h \in net : h.no # g.no
      BY <1>1, <3>1 DEF Sent
    <3>3. \A i \in DOMAIN g.sections : g.sections[i].oneway
      BY <2>2, <3>1
    <3>4. \/ loose' = loose \cup {g.sections}
          \/ loose' = loose /\ DOMAIN g.sections = {}
      BY <1>2, <2>2, <3>1
    <3> HIDE DEF g
    <3>5. World(net \cup {g}, loose, e, Parser)
      BY <1>7 DEF g
    <3> QED
      BY SMTT(20), <3>1, <3>2, <3>3, <3>4, <3>5, LooseMove
  <2> QED
    BY <2>1, <2>2
<1>9. World(net', loose', Sender', Parser')
  <2>1. Parser' = Parser
    BY <1>2 DEF Parser
  <2>2. /\ Sender'.queue = e.queue /\ Sender'.sending = e.sending /\ Sender'.id = e.id
        /\ Sender'.ciphered = e.ciphered
    BY <1>2 DEF Sender
  <2>3. World(net', loose', Sender', Parser)
    BY <1>8, <2>2, SameSender
  <2> QED
    BY <2>1, <2>3
<1>10. World(net, loose, Sender, Parser)'
  BY <1>2, <1>9, WorldNext
<1>11. BaseInv'
  <2>1. made' \in Nat /\ net' \subseteq [no : 1 .. made', sections : Seq(Sections)]
    <3>1. CASE reliable
      <4>1. made' = m /\ net' = net \cup {[no |-> m, sections |-> e.sections]}
        BY <1>2, <3>1
      <4>2. m \in 1 .. m /\ \A i \in 1 .. made : i \in 1 .. m
        BY <1>1
      <4> HIDE DEF m
      <4>3. \A h \in net : h \in [no : 1 .. m, sections : Seq(Sections)]
        BY <1>1, <4>2
      <4>4. [no |-> m, sections |-> e.sections] \in [no : 1 .. m, sections : Seq(Sections)]
        BY <1>7, <4>2
      <4>5. m \in Nat
        BY <1>1 DEF m
      <4> QED
        BY <4>1, <4>3, <4>4, <4>5
    <3>2. CASE ~reliable
      BY <1>1, <1>2, <3>2
    <3> QED
      BY <3>1, <3>2
  <2>2. loose' \subseteq Seq(Sections)
    BY <1>1, <1>2, <1>7
  <2>3. reports' \in 0 .. MaxReports
    <3>1. reports \in 0 .. MaxReports /\ MaxReports \in Nat
      BY <1>1, SizesAssumption DEF BaseInv
    <3> QED
      BY <1>2, <3>1
  <2>4. /\ encrypted' \in BOOLEAN /\ pushed' \in 0 .. Len(Size) /\ expired' \subseteq Units
        /\ cleared' \subseteq Units
    BY <1>1, <1>2 DEF BaseInv
  <2> QED
    BY <2>1, <2>2, <2>3, <2>4 DEF BaseInv
<1> QED
  BY <1>10, <1>11 DEF SegInv

LEMMA SameParser ==
    ASSUME NEW N, NEW L, NEW d, NEW p, NEW r, World(N, L, d, p),
           r.cache = p.cache, r.deciphered = p.deciphered, r.delivered = p.delivered,
           r.garbled = p.garbled, r.cleared = p.cleared
    PROVE  World(N, L, d, r)
<1> DEFINE K == Parts(N, L, p.cache)
<1> HIDE DEF K
<1>1. OnceInv(K, d, r) /\ LiveInv(K, d, r)
  BY DEF World, OnceInv, LiveInv, K
<1> QED
  BY <1>1 DEF World, K

LEMMA InitStep ==
    ASSUME Init
    PROVE  SegInv
<1>1. /\ Sender.queue = <<>> /\ Sender.sending = NotSending /\ Sender.id = FirstId
      /\ Sender.ciphered = 0 /\ Parser.cache = NoCache /\ Parser.deciphered = 0
      /\ Parser.delivered = [u \in Units |-> 0] /\ Parser.cleared = {}
      /\ net = {} /\ loose = {} /\ pushed = 0 /\ expired = {} /\ encrypted \in BOOLEAN
      /\ reports = 0 /\ made = 0 /\ cleared = {}
  <2>1. /\ queue = <<>> /\ sending = NotSending /\ packageId = FirstId /\ ciphered = 0
        /\ cache = NoCache /\ deciphered = 0 /\ delivered = [u \in Units |-> 0] /\ ~garbled
        /\ net = {} /\ loose = {} /\ pushed = 0 /\ expired = {} /\ encrypted \in BOOLEAN
        /\ reports = 0 /\ made = 0 /\ cleared = {}
    BY DEF Init
  <2>2. /\ Sender.queue = queue /\ Sender.sending = sending /\ Sender.id = packageId
        /\ Sender.ciphered = ciphered
    BY DEF Sender
  <2>3. /\ Parser.cache = cache /\ Parser.deciphered = deciphered
        /\ Parser.delivered = delivered /\ Parser.cleared = cleared
    BY DEF Parser
  <2>5. /\ Parser.cache = NoCache /\ Parser.deciphered = 0
        /\ Parser.delivered = [u \in Units |-> 0] /\ Parser.cleared = {}
    BY <2>1, <2>3
  <2>6. /\ Sender.queue = <<>> /\ Sender.sending = NotSending /\ Sender.id = FirstId
        /\ Sender.ciphered = 0
    BY <2>1, <2>2
  <2> QED
    BY <2>1, <2>5, <2>6
<1>0. ~Parser.garbled
  BY DEF Init, Parser
<1>2. Len(Sender.queue) = 0 /\ Taken(Sender) = 0
  <2>1. Len(Sender.queue) = 0
    <3>1. Len(<<>>) = 0
      OBVIOUS
    <3> QED
      BY <1>1, <3>1, Zenon
  <2>2. pushed = 0
    BY <1>1
  <2>3. pushed - Len(Sender.queue) = 0
    BY <2>1, <2>2
  <2> QED
    BY <2>1, <2>3 DEF Taken
<1>3. Age(FirstId) = 0 /\ FirstId \in 0 .. IdSpace - 1
  BY IdsAssumption DEF Age
<1>4. DOMAIN NoCache = {} /\ NotSending.unit = 0
      /\ NotSending \in [unit : Units \cup {0}, next : Nat, offset : Nat]
  BY DEF NoCache, NotSending
<1>5. \A x : x \notin Flat(net, loose)
  BY <1>1, FlatIs
<1>6. \A x : x \notin Pieces(Parser.cache)
  BY <1>1, <1>4, PiecesIs
<1>7. Parts(net, loose, Parser.cache) = {}
  BY <1>5, <1>6 DEF Parts
<1>8. SenderInv(Sender)
  <2>1. Sender.queue \in Seq(Units)
    BY <1>1
  <2>2. \A i \in 1 .. Len(Sender.queue) : Sender.queue[i] = Taken(Sender) + i
    BY <1>2
  <2> QED
    BY <1>1, <1>2, <1>3, <1>4, <2>1, <2>2 DEF SenderInv
<1>9. NetInv(net, loose, Sender)
  BY <1>1, <1>5 DEF NetInv
<1>10. CacheInv(Parser.cache)
  BY <1>1, <1>4 DEF CacheInv
<1>11. IdInv(net, loose, Parser.cache, Sender)
  BY <1>1, <1>4, <1>5 DEF IdInv, Named
<1>12. ChainInv({}, Sender)
  BY DEF ChainInv
<1>13. KeyInv(net, loose, Parser.cache)
  BY <1>1 DEF KeyInv
<1>14. OnceInv({}, Sender, Parser)
  BY <1>0, <1>1 DEF OnceInv
<1>15. CipherInv(net, Sender, Parser.deciphered)
  BY <1>1 DEF CipherInv
<1>16. LiveInv({}, Sender, Parser)
  BY <1>1, <1>2, UnitIs DEF LiveInv
<1>17. BaseInv
  BY <1>1, SizesAssumption, SizeType DEF BaseInv
<1> QED
  BY <1>7, <1>8, <1>9, <1>10, <1>11, <1>12, <1>13, <1>14, <1>15, <1>16, <1>17 DEF SegInv, World

LEMMA StutterStep ==
    ASSUME SegInv, UNCHANGED vars
    PROVE  SegInv'
<1>1. /\ encrypted' = encrypted /\ pushed' = pushed /\ expired' = expired /\ net' = net
      /\ loose' = loose /\ Sender' = Sender /\ Parser' = Parser /\ made' = made
      /\ reports' = reports /\ cleared' = cleared
  BY DEF vars, sendVars, netVars, parseVars, Sender, Parser
<1>2. World(net', loose', Sender', Parser')
  BY <1>1 DEF SegInv
<1>3. World(net, loose, Sender, Parser)'
  BY <1>1, <1>2, WorldNext
<1>4. BaseInv'
  BY <1>1 DEF SegInv, BaseInv
<1> QED
  BY <1>3, <1>4 DEF SegInv

LEMMA PushStep ==
    ASSUME SegInv, Push
    PROVE  SegInv'
<1> DEFINE d == Sender
           K == Parts(net, loose, Parser.cache)
<1>1. /\ pushed < Len(Size) /\ pushed' = pushed + 1 /\ queue' = Append(queue, pushed + 1)
      /\ encrypted' = encrypted /\ expired' = expired /\ net' = net /\ loose' = loose
      /\ made' = made /\ reports' = reports /\ cleared' = cleared /\ Parser' = Parser
      /\ Sender'.sending = Sender.sending /\ Sender'.id = Sender.id
      /\ Sender'.ciphered = Sender.ciphered /\ Sender'.queue = queue' /\ Sender.queue = queue
  BY DEF Push, netVars, parseVars, Parser, Sender
<1>2. /\ SenderInv(d) /\ NetInv(net, loose, d) /\ CacheInv(Parser.cache)
      /\ IdInv(net, loose, Parser.cache, d) /\ ChainInv(K, d) /\ KeyInv(net, loose, Parser.cache)
      /\ OnceInv(K, d, Parser) /\ CipherInv(net, d, Parser.deciphered) /\ LiveInv(K, d, Parser)
      /\ BaseInv /\ pushed \in Nat
  BY SizeType DEF SegInv, World, BaseInv
<1>3. pushed' \in 0 .. Len(Size) /\ pushed + 1 \in Units
  BY <1>1, <1>2, SizeType
<1>4. /\ queue \in Seq(Units) /\ Len(queue) \in Nat /\ Len(queue) <= pushed
      /\ \A i \in 1 .. Len(queue) : queue[i] = Taken(d) + i
      /\ Taken(d) = pushed - Len(queue)
  BY <1>1, <1>2 DEF SenderInv, Taken
<1>5. /\ queue' \in Seq(Units) /\ Len(queue') = Len(queue) + 1
      /\ \A i \in 1 .. Len(queue) : queue'[i] = queue[i]
      /\ queue'[Len(queue) + 1] = pushed + 1
  BY <1>1, <1>3, <1>4
<1>6. Taken(Sender)' = Taken(d)
  BY <1>1, <1>2, <1>4, <1>5 DEF Taken
<1>7. \A i \in 1 .. Len(queue') : queue'[i] = Taken(d) + i
  <2> DEFINE n == Len(queue)
  <2>1. n \in Nat /\ Len(queue') = n + 1 /\ Taken(d) = pushed - n
    BY <1>4, <1>5
  <2>2. /\ \A i \in 1 .. n : queue'[i] = Taken(d) + i
        /\ queue'[n + 1] = pushed + 1
    BY <1>4, <1>5
  <2> HIDE DEF n, d
  <2>3. \A i \in 1 .. n + 1 : i \in 1 .. n \/ i = n + 1
    BY <2>1
  <2>4. pushed + 1 = Taken(d) + (n + 1)
    BY <1>2, <2>1
  <2> QED
    BY <2>1, <2>2, <2>3, <2>4
<1>8. SenderInv(Sender)'
  <2>1. Len(queue') <= pushed'
    BY <1>1, <1>2, <1>4, <1>5
  <2> QED
    BY <1>1, <1>2, <1>5, <1>6, <1>7, <2>1 DEF SenderInv, Age
<1>9. NetInv(net, loose, Sender)'
  BY <1>1, <1>2, <1>6 DEF NetInv
<1>10. IdInv(net, loose, Parser.cache, Sender)'
  BY <1>1, <1>2 DEF IdInv, Named
<1>11. Parts(net, loose, Parser.cache)' = K
  BY <1>1
<1> HIDE DEF K
<1>12. ChainInv(K, d) /\ OnceInv(K, d, Parser) /\ LiveInv(K, d, Parser)
  BY <1>2
<1>13. ChainInv(Parts(net, loose, Parser.cache), Sender)'
  BY <1>1, <1>6, <1>11, <1>12 DEF ChainInv, PartFits
<1>14. OnceInv(Parts(net, loose, Parser.cache), Sender, Parser)'
  BY <1>1, <1>6, <1>11, <1>12 DEF OnceInv
<1>15. LiveInv(Parts(net, loose, Parser.cache), Sender, Parser)'
  BY <1>1, <1>6, <1>11, <1>12 DEF LiveInv, AllThere
<1>16. /\ CacheInv(Parser.cache)' /\ KeyInv(net, loose, Parser.cache)'
       /\ CipherInv(net, Sender, Parser.deciphered)'
  BY <1>1, <1>2 DEF CacheInv, KeyInv, CipherInv, Deciphers, Ciphers
<1>17. BaseInv'
  BY <1>1, <1>2, <1>3 DEF BaseInv
<1> QED
  BY <1>8, <1>9, <1>10, <1>13, <1>14, <1>15, <1>16, <1>17 DEF SegInv, World

LEMMA DeadlineStep ==
    ASSUME SegInv, NEW u \in Expirable, PassDeadline(u)
    PROVE  SegInv'
<1> DEFINE K == Parts(net, loose, Parser.cache)
<1>1. /\ expired' = expired \cup {u} /\ u \in Units /\ pushed' = pushed
      /\ encrypted' = encrypted /\ net' = net /\ loose' = loose
      /\ made' = made /\ reports' = reports /\ cleared' = cleared /\ Parser' = Parser
      /\ Sender' = Sender
  BY SizesAssumption DEF PassDeadline, sendVars, netVars, parseVars, Parser, Sender
<1>2. /\ SenderInv(Sender) /\ NetInv(net, loose, Sender) /\ CacheInv(Parser.cache)
      /\ IdInv(net, loose, Parser.cache, Sender) /\ ChainInv(K, Sender)
      /\ KeyInv(net, loose, Parser.cache)
      /\ OnceInv(K, Sender, Parser) /\ CipherInv(net, Sender, Parser.deciphered)
      /\ LiveInv(K, Sender, Parser) /\ BaseInv
  BY DEF SegInv, World
<1>3. SenderInv(Sender)' /\ NetInv(net, loose, Sender)'
  BY <1>1, <1>2 DEF SenderInv, NetInv, Taken
<1>4. CacheInv(Parser.cache)' /\ IdInv(net, loose, Parser.cache, Sender)'
  BY <1>1, <1>2 DEF CacheInv, IdInv
<1>5. Parts(net, loose, Parser.cache)' = K
  BY <1>1
<1> HIDE DEF K
<1>6. /\ ChainInv(Parts(net, loose, Parser.cache), Sender)'
      /\ OnceInv(Parts(net, loose, Parser.cache), Sender, Parser)'
      /\ LiveInv(Parts(net, loose, Parser.cache), Sender, Parser)'
  BY <1>1, <1>2, <1>5 DEF ChainInv, OnceInv, LiveInv, PartFits, Taken
<1>7. /\ KeyInv(net, loose, Parser.cache)' /\ CipherInv(net, Sender, Parser.deciphered)'
  BY <1>1, <1>2 DEF KeyInv, CipherInv, Deciphers, Ciphers
<1>8. BaseInv'
  BY <1>1, <1>2 DEF BaseInv
<1> QED
  BY <1>3, <1>4, <1>6, <1>7, <1>8 DEF SegInv, World

(* A package was parsed.                                                   *)
LEMMA ParseStep ==
    ASSUME SegInv, NEW secs, Parse(secs),
           UNCHANGED <<encrypted, pushed, expired, sendVars, reports, made, loose>>,
           net' \subseteq net, World(net', loose, Sender, Parsed(secs)), IsParser(Parsed(secs))
    PROVE  SegInv'
<1> DEFINE p == Parsed(secs)
<1>1. /\ cache' = p.cache /\ deciphered' = p.deciphered /\ delivered' = p.delivered
      /\ garbled' = p.garbled /\ cleared' = p.cleared
  BY DEF Parse
<1> HIDE DEF p
<1>2. /\ encrypted' = encrypted /\ pushed' = pushed /\ expired' = expired /\ loose' = loose
      /\ Sender' = Sender /\ made' = made /\ reports' = reports
  BY DEF sendVars, Sender
<1>3. /\ Parser'.cache = p.cache /\ Parser'.deciphered = p.deciphered
      /\ Parser'.delivered = p.delivered /\ Parser'.garbled = p.garbled
      /\ Parser'.cleared = p.cleared
  BY <1>1 DEF Parser
<1>4. World(net', loose', Sender', p) /\ p.cleared \subseteq Units
  BY <1>2 DEF p, IsParser
<1>5. World(net', loose', Sender', Parser')
  BY <1>3, <1>4, SameParser
<1>6. World(net, loose, Sender, Parser)'
  BY <1>2, <1>5, WorldNext
<1>7. BaseInv'
  BY <1>1, <1>2, <1>4 DEF SegInv, BaseInv
<1> QED
  BY <1>6, <1>7 DEF SegInv

LEMMA ParserIs ==
    ASSUME SegInv
    PROVE  IsParser(Parser) /\ Parser.ok
  BY ParserTyped DEF SegInv, World

LEMMA ArrivesStep ==
    ASSUME SegInv, NEW g \in net, Arrives(g)
    PROVE  SegInv'
<1> DEFINE M == net \ {g}
<1>1. /\ net' = M /\ (encrypted => \A h \in net : g.no <= h.no) /\ Parse(g.sections)
      /\ UNCHANGED <<encrypted, pushed, expired, sendVars, reports, made, loose>>
  BY DEF Arrives, Take
<1>2. /\ g \in [no : 1 .. made, sections : Seq(Sections)]
      /\ \A h \in M : h.no # g.no
      /\ World(net, loose, Sender, Parser)
  BY DEF SegInv, BaseInv, World, NetInv
<1>3. Rest(g, 0) = g
  <2>1. g.sections \in Seq(Sections)
    BY <1>2
  <2>2. g.sections = [j \in 1 .. Len(g.sections) |-> g.sections[j]]
    BY <2>1
  <2>3. Rest(g, 0) = [no |-> g.no, sections |-> g.sections]
    BY <2>2 DEF Rest
  <2> QED
    BY <1>2, <2>3
<1>4. net = M \cup {g}
  OBVIOUS
<1>5. Len(g.sections) \in Nat
  BY <1>2
<1> HIDE DEF M
<1>6. encrypted => \A h \in M : g.no <= h.no
  BY <1>1, <1>4
<1>7. World(M, loose, Sender, Parsed(g.sections)) /\ IsParser(Parsed(g.sections))
  <2>1. World(M \cup {Rest(g, 0)}, loose, Sender, Parser)
    BY <1>2, <1>3, <1>4
  <2> QED
    BY <1>2, <1>5, <1>6, <2>1, ParserIs, ParsedPackage
<1> QED
  BY <1>1, <1>4, <1>7, ParseStep

LEMMA ArrivesLooseStep ==
    ASSUME SegInv, NEW l \in loose, ArrivesLoose(l)
    PROVE  SegInv'
<1>1. /\ net' = net /\ Parse(l)
      /\ UNCHANGED <<encrypted, pushed, expired, sendVars, reports, made, loose>>
  BY DEF ArrivesLoose, netVars
<1>2. Len(l) \in Nat /\ DOMAIN l = 1 .. Len(l)
  <2>1. l \in Seq(Sections)
    BY DEF SegInv, BaseInv
  <2> QED
    BY <2>1
<1>3. World(net, loose, Sender, Parser) /\ IsParser(Parser)
  BY ParserIs DEF SegInv
<1>4. World(net, loose, Sender, Parsed(l)) /\ IsParser(Parsed(l))
  BY <1>2, <1>3, ParsedLoose
<1> QED
  BY <1>1, <1>4, ParseStep

(* What is left of a package whose data expired.                           *)
CutTo(g, h) ==
    /\ h.no = g.no /\ DOMAIN h.sections \subseteq Nat
    /\ \A j \in DOMAIN h.sections : \E i \in DOMAIN g.sections :
          /\ g.sections[i].kind # "data"
          /\ h.sections[j] = [g.sections[i] EXCEPT !.kind = "cancel"]

LEMMA CutWorld ==
    ASSUME NEW M, NEW L, NEW d, NEW p, NEW g, NEW h, World(M \cup {g}, L, d, p), ~encrypted,
           DataUnits(g) \subseteq expired, \A a \in M : a.no # g.no, CutTo(g, h)
    PROVE  World(M \cup {h}, L, d, p)
<1> DEFINE N == M \cup {g}
           N2 == M \cup {h}
           K == Parts(N, L, p.cache)
           K2 == Parts(N2, L, p.cache)
<1>1. /\ NetInv(N, L, d) /\ CacheInv(p.cache) /\ IdInv(N, L, p.cache, d) /\ ChainInv(K, d)
      /\ KeyInv(N, L, p.cache) /\ OnceInv(K, d, p) /\ CipherInv(N, d, p.deciphered)
      /\ LiveInv(K, d, p) /\ SenderInv(d)
  BY DEF World
<1>2. \A i \in DOMAIN g.sections : g.sections[i] \in Flat(N, L)
  BY FlatIs
<1>3. \A i \in DOMAIN g.sections : g.sections[i].unit \in expired
  <2> TAKE i \in DOMAIN g.sections
  <2>1. g.sections[i].kind # "cancel" => g.sections[i].unit \in DataUnits(g)
    BY DEF DataUnits
  <2> QED
    BY <1>1, <1>2, <2>1 DEF NetInv
<1>4. ASSUME NEW x \in Flat(N2, L)
      PROVE  \/ x \in Flat(N, L)
             \/ \E y \in Flat(N, L) : /\ y.kind # "data" /\ y.unit \in expired
                                      /\ x = [y EXCEPT !.kind = "cancel"]
  <2>1. CASE \E j \in DOMAIN h.sections : x = h.sections[j]
    <3>1. PICK j \in DOMAIN h.sections : x = h.sections[j]
      BY <2>1
    <3>2. PICK i \in DOMAIN g.sections : /\ g.sections[i].kind # "data"
                                         /\ x = [g.sections[i] EXCEPT !.kind = "cancel"]
      BY <3>1 DEF CutTo
    <3> QED
      BY <1>2, <1>3, <3>2
  <2>2. CASE \/ \E a \in M : \E i \in DOMAIN a.sections : x = a.sections[i]
             \/ \E l \in L : \E i \in DOMAIN l : x = l[i]
    BY <2>2, FlatIs
  <2> QED
    BY <2>1, <2>2, FlatIs
<1>5. ASSUME NEW x \in Flat(N2, L), x \notin Flat(N, L)
      PROVE  /\ x \in Sections /\ x.kind = "cancel" /\ x.unit \in expired /\ x.unit <= Taken(d)
             /\ x.index # 0 /\ (x.oneway <=> x.unit \in Oneway)
             /\ \E y \in Flat(N, L) : y.kind # "data" /\ y.id = x.id /\ y.unit = x.unit
  <2>1. PICK y \in Flat(N, L) : /\ y.kind # "data" /\ y.unit \in expired
                                /\ x = [y EXCEPT !.kind = "cancel"]
    BY <1>4, <1>5
  <2>2. y \in Sections /\ y.unit <= Taken(d) /\ y.index # 0 /\ (y.oneway <=> y.unit \in Oneway)
    BY <1>1, <2>1 DEF NetInv
  <2>3. /\ x.kind = "cancel" /\ x.unit = y.unit /\ x.id = y.id /\ x.index = y.index
        /\ (x.oneway <=> y.oneway) /\ x \in Sections
    BY <2>1, <2>2 DEF Sections
  <2> QED
    BY <2>1, <2>2, <2>3
<1>6. NetInv(N2, L, d)
  <2>1. ASSUME NEW x \in Flat(N2, L)
        PROVE  /\ x \in Sections /\ x.unit <= Taken(d)
               /\ x.kind = "cancel" => x.unit \in expired
               /\ x.kind = "data" <=> x.index = 0
               /\ x.oneway <=> x.unit \in Oneway
    <3>1. CASE x \in Flat(N, L)
      BY <1>1, <3>1 DEF NetInv
    <3>2. CASE x \notin Flat(N, L)
      BY <1>5, <3>2
    <3> QED
      BY <3>1, <3>2
  <2>2. \A a \in N2 : a.no \in Nat /\ DOMAIN a.sections \subseteq Nat
    BY <1>1 DEF NetInv, CutTo
  <2>3. \A a, b \in N2 : a.no = b.no => a = b
    BY <1>1 DEF NetInv, CutTo
  <2>4. \A l \in L : \A i \in DOMAIN l : l[i].unit \in Oneway
    BY <1>1 DEF NetInv
  <2> QED
    BY <2>1, <2>2, <2>3, <2>4 DEF NetInv
<1>7. K2 \subseteq K
  BY <1>5 DEF Parts
<1>8. \A k \in K : k.unit \notin expired => k \in K2
  <2> SUFFICES ASSUME NEW k \in K, k.unit \notin expired PROVE k \in K2
    OBVIOUS
  <2>1. CASE k \in Flat(N, L) /\ k.kind # "cancel"
    <3>1. CASE \E i \in DOMAIN g.sections : k = g.sections[i]
      BY <1>3, <3>1
    <3>2. CASE \/ \E a \in M : \E i \in DOMAIN a.sections : k = a.sections[i]
               \/ \E l \in L : \E i \in DOMAIN l : k = l[i]
      <4>1. k \in Flat(N2, L)
        BY <3>2, FlatIs
      <4> QED
        BY <2>1, <4>1 DEF Parts
    <3> QED
      BY <2>1, <3>1, <3>2, FlatIs
  <2>2. CASE k \in Pieces(p.cache)
    BY <2>2 DEF Parts
  <2> QED
    BY <2>1, <2>2 DEF Parts
<1> HIDE DEF K, K2
<1>9. \A k \in K2 : \E l \in K : Same(k, l)
  BY <1>7 DEF Same
<1>10. ChainInv(K2, d) /\ OnceInv(K2, d, p)
  <2>1. ChainInv(K2, d)
    BY <1>1, <1>9, ChainMono
  <2> QED
    BY <1>1, <1>9, <2>1, OnceMono
<1>11. LiveInv(K2, d, p)
  <2>1. \A u \in Units \ (Oneway \cup expired \cup p.cleared) :
            p.delivered[u] = 0 => \A k \in K : k.unit = u => \E l \in K2 : Same(k, l)
    BY <1>8 DEF Same
  <2> QED
    BY <1>1, <2>1, LiveMono
<1>12. IdInv(N2, L, p.cache, d)
  <2>1. \A a, u : Named(a, u, N2, L, p.cache, d) => Named(a, u, N, L, p.cache, d)
    BY ZenonT(30), <1>5 DEF Named
  <2> HIDE DEF N, N2
  <2> QED
    BY <1>1, <2>1, IdMono
<1>13. CipherInv(N2, d, p.deciphered)
  <2>1. \A x : ~Deciphers(x)
    BY DEF Deciphers, Ciphers
  <2> QED
    BY <1>1, <2>1 DEF CipherInv
<1>14. \A j \in DOMAIN h.sections : h.sections[j].kind = "cancel"
  <2> TAKE j \in DOMAIN h.sections
  <2>1. PICK i \in DOMAIN g.sections : h.sections[j] = [g.sections[i] EXCEPT !.kind = "cancel"]
    BY DEF CutTo
  <2>2. g.sections[i] \in Sections
    BY <1>1, <1>2 DEF NetInv
  <2> QED
    BY <2>1, <2>2 DEF Sections
<1>15. KeyInv(N2, L, p.cache)
  <2> SUFFICES ASSUME NEW a \in N2, NEW i \in DOMAIN a.sections, a.sections[i].kind # "cancel"
               PROVE  /\ \A b \in N2 : \A j \in DOMAIN b.sections :
                            b.sections[j].kind # "cancel" /\ SamePart(a.sections[i], b.sections[j])
                               => b.no = a.no /\ j = i
                      /\ \A l \in L : \A j \in DOMAIN l :
                            l[j].kind # "cancel" => ~SamePart(a.sections[i], l[j])
                      /\ \A y \in Pieces(p.cache) : ~SamePart(a.sections[i], y)
    BY DEF KeyInv
  <2>1. a \in M
    BY <1>14
  <2>2. /\ \A b \in N : \A j \in DOMAIN b.sections :
              b.sections[j].kind # "cancel" /\ SamePart(a.sections[i], b.sections[j])
                 => b.no = a.no /\ j = i
        /\ \A l \in L : \A j \in DOMAIN l :
              l[j].kind # "cancel" => ~SamePart(a.sections[i], l[j])
        /\ \A y \in Pieces(p.cache) : ~SamePart(a.sections[i], y)
    BY <1>1, <2>1 DEF KeyInv
  <2>3. \A b \in N2 : \A j \in DOMAIN b.sections : b.sections[j].kind # "cancel" => b \in N
    BY <1>14
  <2> QED
    BY <2>2, <2>3
<1> QED
  BY <1>1, <1>6, <1>10, <1>11, <1>12, <1>13, <1>15 DEF World, K, K2

LEMMA CutRun ==
    ASSUME NEW secs, Len(secs) \in Nat
    PROVE  \E t : /\ t[0] = <<>>
                  /\ \A i \in 1 .. Len(secs) :
                        t[i] = IF secs[i].kind = "data" THEN t[i - 1]
                               ELSE Append(t[i - 1], [secs[i] EXCEPT !.kind = "cancel"])
                  /\ Cut(secs) = t[Len(secs)]
<1> DEFINE n == Len(secs)
           G(s, i) == IF secs[i].kind = "data" THEN s
                      ELSE Append(s, [secs[i] EXCEPT !.kind = "cancel"])
           F(g, i) == IF i = 0 THEN <<>> ELSE G(g[i - 1], i)
           Run(g, m) == g = [i \in 0 .. m |-> F(g, i)]
           S == {m \in Nat : \E g : Run(g, m)}
<1>1. 0 \in S
  <2>1. Run([i \in {0} |-> <<>>], 0)
    OBVIOUS
  <2> QED
    BY <2>1
<1>6. ASSUME NEW t, t = CHOOSE g : Run(g, n) PROVE Cut(secs) = t[n]
  BY <1>6 DEF Cut
<1> HIDE DEF G
<1>2. ASSUME NEW m \in Nat, m \in S PROVE m + 1 \in S
  <2>1. PICK g : Run(g, m)
    BY <1>2
  <2> DEFINE h == [i \in 0 .. m + 1 |-> IF i <= m THEN g[i] ELSE G(g[m], m + 1)]
  <2>2. \A i \in 0 .. m : g[i] = F(g, i)
    BY <2>1
  <2>3. \A i \in 0 .. m + 1 : h[i] = F(h, i)
    <3>1. ASSUME NEW i \in 0 .. m + 1, i = m + 1 PROVE h[i] = F(h, i)
      BY <3>1
    <3>2. ASSUME NEW i \in 0 .. m, i # 0 PROVE h[i] = F(h, i)
      BY <2>2, <3>2
    <3>3. h[0] = F(h, 0)
      BY <2>2
    <3>4. \A i \in 0 .. m + 1 : i = m + 1 \/ (i \in 0 .. m /\ i # 0) \/ i = 0
      OBVIOUS
    <3> HIDE DEF h, F
    <3> QED
      BY <3>1, <3>2, <3>3, <3>4
  <2>4. h = [i \in 0 .. m + 1 |-> h[i]]
    OBVIOUS
  <2> HIDE DEF h
  <2>5. Run(h, m + 1)
    BY <2>3, <2>4
  <2> QED
    BY <2>5
<1> HIDE DEF S
<1>3. n \in S
  BY <1>1, <1>2, Reached
<1>4. \E g : Run(g, n)
  BY <1>3 DEF S
<1> DEFINE t == CHOOSE g : Run(g, n)
<1>5. Run(t, n)
  BY <1>4
<1>8. Cut(secs) = t[n]
  BY <1>6
<1> HIDE DEF t
<1>7. \A i \in 0 .. n : t[i] = F(t, i)
  BY <1>5
<1>9. \A i \in 1 .. n : t[i] = G(t[i - 1], i)
  BY <1>7
<1>10. t[0] = <<>>
  BY <1>7
<1> QED
  BY <1>8, <1>9, <1>10 DEF G

LEMMA CutFacts ==
    ASSUME NEW secs \in Seq(Sections)
    PROVE  /\ Cut(secs) \in Seq(Sections)
           /\ \A j \in DOMAIN Cut(secs) : \E i \in DOMAIN secs :
                 secs[i].kind # "data" /\ Cut(secs)[j] = [secs[i] EXCEPT !.kind = "cancel"]
<1> DEFINE n == Len(secs)
           C(i) == [secs[i] EXCEPT !.kind = "cancel"]
           Good(s) == /\ s \in Seq(Sections)
                      /\ \A j \in DOMAIN s : \E i \in DOMAIN secs : secs[i].kind # "data" /\ s[j] = C(i)
<1>1. n \in Nat /\ DOMAIN secs = 1 .. n /\ \A i \in 1 .. n : secs[i] \in Sections
  OBVIOUS
<1>2. PICK t : /\ t[0] = <<>>
               /\ \A i \in 1 .. n : t[i] = IF secs[i].kind = "data" THEN t[i - 1]
                                           ELSE Append(t[i - 1], C(i))
               /\ Cut(secs) = t[n]
  BY <1>1, CutRun
<1>3. \A i \in 1 .. n : C(i) \in Sections
  BY <1>1 DEF Sections
<1> HIDE DEF n, C
<1> DEFINE S == {k \in Nat : k <= n => Good(t[k])}
<1>4. 0 \in S
  <2>1. Good(<<>>)
    OBVIOUS
  <2> HIDE DEF Good
  <2> QED
    BY <1>2, <2>1
<1>5. ASSUME NEW k \in Nat, k \in S PROVE k + 1 \in S
  <2>1. CASE k + 1 <= n
    <3>1. Good(t[k]) /\ k + 1 \in 1 .. n /\ (k + 1) - 1 = k
      BY <1>1, <1>5, <2>1
    <3>2. CASE secs[k + 1].kind = "data"
      BY <1>2, <3>1, <3>2
    <3>3. CASE secs[k + 1].kind # "data"
      <4> DEFINE s == t[k]
                 x == C(k + 1)
      <4>1. t[k + 1] = Append(s, x) /\ x \in Sections
        BY <1>2, <1>3, <3>1, <3>3
      <4>2. s \in Seq(Sections) /\ \A j \in DOMAIN s : \E i \in DOMAIN secs :
                secs[i].kind # "data" /\ s[j] = C(i)
        BY <3>1
      <4> HIDE DEF s, x
      <4>3. /\ Append(s, x) \in Seq(Sections)
            /\ \A j \in DOMAIN Append(s, x) :
                  (j \in DOMAIN s /\ Append(s, x)[j] = s[j]) \/ Append(s, x)[j] = x
        BY <4>1, <4>2
      <4>4. secs[k + 1].kind # "data" /\ x = C(k + 1) /\ k + 1 \in DOMAIN secs
        BY <1>1, <3>1, <3>3 DEF x
      <4>5. Good(Append(s, x))
        <5> DEFINE y == Append(s, x)
        <5>1. /\ y \in Seq(Sections)
              /\ \A j \in DOMAIN y : (j \in DOMAIN s /\ y[j] = s[j]) \/ y[j] = x
          BY <4>3
        <5> HIDE DEF y
        <5>2. \A j \in DOMAIN y : \E i \in DOMAIN secs : secs[i].kind # "data" /\ y[j] = C(i)
          BY <4>2, <4>4, <5>1
        <5> QED
          BY <5>1, <5>2 DEF y
      <4>6. Good(t[k + 1])
        BY <4>1, <4>5
      <4> HIDE DEF Good
      <4> QED
        BY <4>6
    <3> QED
      BY <3>2, <3>3
  <2>2. CASE ~(k + 1 <= n)
    BY <2>2
  <2> QED
    BY <2>1, <2>2
<1>6. n \in S
  <2> HIDE DEF S
  <2> QED
    BY <1>1, <1>4, <1>5, Reached
<1>7. Good(Cut(secs))
  BY <1>1, <1>2, <1>6
<1> QED
  BY <1>7 DEF C

LEMMA ArrivesCutStep ==
    ASSUME SegInv, NEW g \in net, ArrivesCut(g)
    PROVE  SegInv'
<1> DEFINE M == net \ {g}
<1>1. /\ net' = M /\ ~encrypted /\ DataUnits(g) \subseteq expired
      /\ Parse(Cut(g.sections)) \/ Parse(<<>>)
      /\ UNCHANGED <<encrypted, pushed, expired, sendVars, reports, made, loose>>
  BY DEF ArrivesCut, Take, Outdated
<1>2. /\ g \in [no : 1 .. made, sections : Seq(Sections)]
      /\ \A h \in M : h.no # g.no
      /\ World(net, loose, Sender, Parser)
  BY DEF SegInv, BaseInv, World, NetInv
<1>4. net = M \cup {g}
  OBVIOUS
<1> HIDE DEF M
<1>5. ASSUME NEW secs \in Seq(Sections), CutTo(g, [no |-> g.no, sections |-> secs])
      PROVE  World(M, loose, Sender, Parsed(secs)) /\ IsParser(Parsed(secs))
  <2> DEFINE h == [no |-> g.no, sections |-> secs]
  <2>1. h.no = g.no /\ h.sections = secs /\ Len(secs) \in Nat
    OBVIOUS
  <2>2. Rest(h, 0) = h
    <3>1. secs = [j \in 1 .. Len(secs) |-> secs[j]]
      OBVIOUS
    <3> QED
      BY <3>1 DEF Rest
  <2>3. CutTo(g, h)
    BY <1>5
  <2> HIDE DEF h
  <2>4. World(M \cup {h}, loose, Sender, Parser)
    BY <1>1, <1>2, <1>4, <2>3, CutWorld
  <2>5. World(M \cup {Rest(h, 0)}, loose, Sender, Parser)
    BY <2>2, <2>4
  <2>6. Len(h.sections) \in Nat /\ \A a \in M : a.no # h.no
    BY <1>2, <2>1
  <2>7. World(M, loose, Sender, Parsed(h.sections)) /\ IsParser(Parsed(h.sections))
    BY <1>1, <2>5, <2>6, ParserIs, ParsedPackage
  <2> QED
    BY <2>1, <2>7
<1>6. CASE Parse(Cut(g.sections))
  <2> DEFINE secs == Cut(g.sections)
  <2>1. g.sections \in Seq(Sections)
    BY <1>2
  <2>2. /\ secs \in Seq(Sections)
        /\ \A j \in DOMAIN secs : \E i \in DOMAIN g.sections :
              g.sections[i].kind # "data" /\ secs[j] = [g.sections[i] EXCEPT !.kind = "cancel"]
    BY <2>1, CutFacts
  <2>3. Parse(secs)
    BY <1>6
  <2> HIDE DEF secs
  <2>4. CutTo(g, [no |-> g.no, sections |-> secs])
    BY <2>2 DEF CutTo
  <2>5. World(M, loose, Sender, Parsed(secs)) /\ IsParser(Parsed(secs))
    BY <1>5, <2>2, <2>4
  <2> QED
    BY <1>1, <1>4, <2>3, <2>5, ParseStep
<1>7. CASE Parse(<<>>)
  <2>1. <<>> \in Seq(Sections) /\ CutTo(g, [no |-> g.no, sections |-> <<>>])
    BY DEF CutTo
  <2>2. World(M, loose, Sender, Parsed(<<>>)) /\ IsParser(Parsed(<<>>))
    BY <1>5, <2>1
  <2> QED
    BY <1>1, <1>4, <1>7, <2>2, ParseStep
<1> QED
  BY <1>1, <1>6, <1>7

LEMMA NextStep ==
    ASSUME SegInv, [Next]_vars
    PROVE  SegInv'
<1>1. CASE Push
  BY <1>1, PushStep
<1>2. CASE \E u \in Expirable : PassDeadline(u)
  BY <1>2, DeadlineStep
<1>3. CASE \E feedback \in BOOLEAN : Send(feedback)
  BY <1>3, SendStep
<1>4. CASE \E g \in net : Arrives(g) \/ ArrivesCut(g)
  BY <1>4, ArrivesStep, ArrivesCutStep
<1>5. CASE \E sections \in loose : ArrivesLoose(sections)
  BY <1>5, ArrivesLooseStep
<1>6. CASE UNCHANGED vars
  BY <1>6, StutterStep
<1> QED
  BY <1>1, <1>2, <1>3, <1>4, <1>5, <1>6 DEF Next

-----------------------------------------------------------------------------
(* What the invariant says of the parts of one unit.                       *)

Covered(u, b, K) == \E k \in K : k.unit = u /\ b \in Bytes(k)

LEMMA CoveredUpTo ==
    ASSUME NEW K, NEW d, ChainInv(K, d), NEW u, NEW n \in Nat, NEW b \in Nat,
           \A k \in K : k.index \in Nat /\ k.from \in Nat /\ k.bytes \in Nat,
           \A m \in 1 .. n : Present(u, m, K),
           NEW top \in K, top.unit = u, top.index = n, n # 0, b < top.from + top.bytes
    PROVE  Covered(u, b, K)
<1> DEFINE S == {m \in Nat : m <= n =>
                     \A k \in K : k.unit = u /\ k.index = m /\ m # 0 /\ b < k.from + k.bytes =>
                         Covered(u, b, K)}
<1>1. 0 \in S
  OBVIOUS
<1>2. ASSUME NEW m \in Nat, m \in S PROVE m + 1 \in S
  <2> SUFFICES ASSUME m + 1 <= n, NEW k \in K, k.unit = u, k.index = m + 1,
                      b < k.from + k.bytes
               PROVE  Covered(u, b, K)
    OBVIOUS
  <2>1. k.from \in Nat /\ k.bytes \in Nat
    OBVIOUS
  <2>2. CASE k.from <= b
    <3>1. b \in k.from .. k.from + k.bytes - 1
      BY <2>1, <2>2
    <3> QED
      BY <3>1 DEF Covered, Bytes
  <2>3. CASE ~(k.from <= b) /\ m = 0
    <3>1. PartFits(k, d) /\ k.index = 1
      BY <2>3 DEF ChainInv
    <3>2. k.from = 0
      BY <3>1 DEF PartFits
    <3> QED
      BY <2>3, <3>2
  <2>4. CASE ~(k.from <= b) /\ m # 0
    <3>1. m \in 1 .. n
      BY <2>4
    <3>2. PICK l \in K : l.unit = u /\ l.index = m
      BY <3>1 DEF Present
    <3>3. Adjoin(l, k)
      BY <3>2 DEF ChainInv
    <3>4. k.from = l.from + l.bytes
      BY <2>4, <3>2, <3>3 DEF Adjoin
    <3>5. b < l.from + l.bytes
      BY <2>1, <2>4, <3>4
    <3>6. m <= n
      BY <3>1
    <3> QED
      BY <1>2, <2>4, <3>2, <3>5, <3>6
  <2> QED
    BY <2>2, <2>3, <2>4
<1>3. n \in S
  <2> HIDE DEF S
  <2> QED
    BY <1>1, <1>2, Reached
<1> QED
  BY <1>3

(* Pieces with all indices up to that of the last one are complete.        *)
LEMMA AllComplete ==
    ASSUME NEW S, S \subseteq PieceType, IsFiniteSet(S), NEW last \in S, last.isLast,
           \A x, y \in S : x.index = y.index => x = y,
           \A x \in S : x.index <= last.index,
           \A m \in 1 .. last.index : \E y \in S : y.index = m
    PROVE  Complete(S)
<1> DEFINE n == last.index
           f == [y \in S |-> y.index]
<1>1. n \in Nat /\ \A y \in S : y.index \in 1 .. n
  BY DEF PieceType
<1>2. f \in Injection(S, 1 .. n)
  BY <1>1 DEF Injection, IsInjective
<1>3. IsFiniteSet(1 .. n) /\ Cardinality(1 .. n) = n
  BY <1>1, FS_Interval
<1>4. f \in Surjection(S, 1 .. n)
  <2>1. f \in [S -> 1 .. n]
    BY <1>1
  <2>2. \A m \in 1 .. n : \E y \in S : f[y] = m
    OBVIOUS
  <2> HIDE DEF f, n
  <2> QED
    BY <2>1, <2>2 DEF Surjection
<1>5. Cardinality(S) = n
  <2> HIDE DEF f
  <2>1. Cardinality(S) = Cardinality(1 .. n) <=> f \in Surjection(S, 1 .. n)
    BY <1>2, <1>3, FS_Injection
  <2> QED
    BY <1>3, <1>4, <2>1
<1> QED
  BY <1>5 DEF Complete

LEMMA HeldIs ==
    ASSUME NEW u, NEW b
    PROVE  b \in Held(u) <=> \E k \in Pieces(cache) : k.unit = u /\ b \in Bytes(k)
  BY DEF Held, Pieces

LEMMA UnderWayIs ==
    ASSUME NEW u, NEW b
    PROVE  b \in UnderWay(u) <=>
              \E g \in net : \E i \in DOMAIN g.sections :
                  g.sections[i].unit = u /\ b \in Bytes(g.sections[i])
  BY DEF UnderWay

(* A unit of which all parts are cached would have been handed over.       *)
LEMMA NotAllCached ==
    ASSUME SegInv, NEW u \in Units, NEW last \in Pieces(cache), last.unit = u, last.isLast,
           \A m \in 1 .. last.index : \E k \in Pieces(cache) : k.unit = u /\ k.index = m
    PROVE  FALSE
<1> DEFINE K == Parts(net, loose, cache)
<1>1. CacheInv(cache) /\ IdInv(net, loose, cache, Sender) /\ ChainInv(K, Sender)
  BY DEF SegInv, World, Parser
<1>2. PICK id \in DOMAIN cache : last \in cache[id]
  BY PiecesIs
<1>3. \A k \in Pieces(cache) : k \in K
  BY DEF Parts
<1> HIDE DEF K
<1>4. \A i \in DOMAIN cache : i \in 0 .. IdSpace - 1 /\ \A k \in cache[i] : k.unit \in Units
  BY <1>1 DEF CacheInv, PieceType
<1>5. \A i \in DOMAIN cache : \A k \in cache[i] : Named(i, k.unit, net, loose, cache, Sender)
  BY DEF Named
<1>6. Named(id, u, net, loose, cache, Sender)
  BY <1>2, <1>5
<1>7. \A i \in DOMAIN cache : \A k \in cache[i] : k.unit = u => i = id
  <2> TAKE i \in DOMAIN cache
  <2> TAKE k \in cache[i]
  <2> HAVE k.unit = u
  <2>1. Named(i, u, net, loose, cache, Sender)
    BY <1>5
  <2> QED
    BY <1>1, <1>2, <1>4, <1>6, <2>1 DEF IdInv
<1>8. \A k \in cache[id] : k.unit = u
  <2> TAKE k \in cache[id]
  <2>1. Named(id, k.unit, net, loose, cache, Sender)
    BY <1>2, <1>5
  <2>2. k.unit \in Units /\ id \in 0 .. IdSpace - 1
    BY <1>2, <1>4
  <2> QED
    BY <1>1, <1>6, <2>1, <2>2 DEF IdInv
<1>9. \A m \in 1 .. last.index : \E y \in cache[id] : y.index = m
  <2> TAKE m \in 1 .. last.index
  <2>1. PICK k \in Pieces(cache) : k.unit = u /\ k.index = m
    OBVIOUS
  <2>2. PICK i \in DOMAIN cache : k \in cache[i]
    BY PiecesIs
  <2> QED
    BY <1>7, <2>1, <2>2
<1>10. \A y \in cache[id] : y.index <= last.index
  <2> TAKE y \in cache[id]
  <2>1. y \in K /\ last \in K /\ y.unit = u
    BY <1>2, <1>3, <1>8, PiecesIs
  <2>2. Adjoin(last, y)
    BY <1>1, <2>1 DEF ChainInv
  <2> QED
    BY <2>2 DEF Adjoin
<1>11. /\ cache[id] \subseteq PieceType /\ IsFiniteSet(cache[id]) /\ ~Complete(cache[id])
       /\ \A x, y \in cache[id] : x.index = y.index => x = y
  BY <1>1, <1>2 DEF CacheInv
<1> QED
  BY <1>2, <1>9, <1>10, <1>11, AllComplete

LEMMA UnitRecoverable ==
    ASSUME SegInv, NEW u \in (1 .. pushed) \ (Oneway \cup expired \cup cleared), delivered[u] = 0
    PROVE  /\ Held(u) \cup UnderWay(u) \cup Unsent(u) = 0 .. Size[u] - 1
           /\ Unsent(u) # {} \/ \E g \in net : u \in Carried(g)
<1> DEFINE d == Sender
           K == Parts(net, loose, cache)
           z == Size[u]
<1>1. /\ SenderInv(d) /\ NetInv(net, loose, d) /\ CacheInv(cache) /\ ChainInv(K, d)
      /\ LiveInv(K, d, Parser) /\ pushed \in 0 .. Len(Size)
  BY DEF SegInv, World, Parser, BaseInv
<1>2. d.queue = queue /\ d.sending = sending /\ Parser.delivered = delivered /\ Parser.cleared = cleared
  BY DEF Sender, Parser
<1>3. u \in Units /\ u \in Nat /\ u <= pushed /\ z \in Nat \ {0}
  BY <1>1, SizeType
<1>4. \A k \in K : k.unit \in Units /\ k.index \in Nat /\ k.from \in Nat /\ k.bytes \in Nat
                     /\ k.isLast \in BOOLEAN
  BY <1>1, PartType
<1>5. \A k \in Pieces(cache) : k \in K
  BY DEF Parts
<1>6. \A g \in net : \A i \in DOMAIN g.sections : g.sections[i].unit = u => g.sections[i] \in K
  <2> TAKE g \in net
  <2> TAKE i \in DOMAIN g.sections
  <2>1. g.sections[i] \in Flat(net, loose)
    BY FlatIs
  <2>2. g.sections[i].kind = "cancel" => g.sections[i].unit \in expired
    BY <1>1, <2>1 DEF NetInv
  <2> QED
    BY <2>1, <2>2 DEF Parts
<1>7. \A k \in K : k.unit = u =>
         \/ k \in Pieces(cache)
         \/ \E g \in net : \E i \in DOMAIN g.sections : k = g.sections[i]
  <2> TAKE k \in K
  <2> HAVE k.unit = u
  <2>1. CASE \E l \in loose : \E i \in DOMAIN l : k = l[i]
    BY <1>1, <2>1 DEF NetInv
  <2> QED
    BY <2>1, FlatIs DEF Parts
<1> HIDE DEF K, d
<1>8. \A k \in K : k.unit = u => \A b \in Bytes(k) : b \in 0 .. z - 1
  <2> TAKE k \in K
  <2> HAVE k.unit = u
  <2>1. k.from + k.bytes <= z
    BY <1>1 DEF ChainInv, PartFits
  <2>2. k.from \in Nat /\ k.bytes \in Nat
    BY <1>4
  <2> HIDE DEF z
  <2> QED
    BY <1>3, <2>1, <2>2 DEF Bytes
<1>9. \A b : Covered(u, b, K) => b \in Held(u) \cup UnderWay(u)
  BY <1>7, HeldIs, UnderWayIs DEF Covered
<1>10. \A b \in Held(u) \cup UnderWay(u) : b \in 0 .. z - 1
  BY <1>5, <1>6, <1>8, HeldIs, UnderWayIs
<1>11. \A k \in K : k.unit = u /\ k \notin Pieces(cache) => \E g \in net : u \in Carried(g)
  BY <1>7 DEF Carried
<1>12. CASE u > Taken(d)
  <2> DEFINE n == Len(queue)
  <2>1. n \in Nat /\ n <= pushed /\ Taken(d) = pushed - n /\ DOMAIN queue = 1 .. n
        /\ \A i \in 1 .. n : queue[i] = Taken(d) + i
    BY <1>1, <1>2 DEF SenderInv, Taken
  <2> HIDE DEF n
  <2>2. u - Taken(d) \in 1 .. n /\ Taken(d) + (u - Taken(d)) = u
    BY <1>1, <1>3, <1>12, <2>1
  <2>3. \E i \in DOMAIN queue : queue[i] = u
    BY <2>1, <2>2
  <2>4. Unsent(u) = 0 .. z - 1
    BY <2>3 DEF Unsent
  <2>5. 0 \in 0 .. z - 1
    BY <1>3
  <2> HIDE DEF z
  <2> QED
    BY <1>10, <2>4, <2>5 DEF z
<1>13. CASE u <= Taken(d)
  <2>1. ~\E i \in DOMAIN queue : queue[i] = u
    <3> DEFINE n == Len(queue)
    <3>1. n \in Nat /\ DOMAIN queue = 1 .. n /\ Taken(d) \in Nat
          /\ \A i \in 1 .. n : queue[i] = Taken(d) + i
      BY <1>1, <1>2, TakenType DEF SenderInv
    <3> HIDE DEF n
    <3> QED
      BY <1>3, <1>13, <3>1
  <2>2. Unsent(u) = IF sending.unit = u THEN sending.offset .. z - 1 ELSE {}
    BY <2>1 DEF Unsent
  <2>3. AllThere(u, K, d)
    BY <1>1, <1>2, <1>3, <1>13 DEF LiveInv
  <2>4. ASSUME \A b \in 0 .. z - 1 : Covered(u, b, K) \/ b \in Unsent(u),
               \A b \in Unsent(u) : b \in 0 .. z - 1
        PROVE  Held(u) \cup UnderWay(u) \cup Unsent(u) = 0 .. z - 1
    BY <1>9, <1>10, <2>4
  <2>5. CASE Present(u, 0, K)
    <3>1. PICK k \in K : k.unit = u /\ k.index = 0
      BY <2>5 DEF Present
    <3>2. PartFits(k, d)
      BY <1>1 DEF ChainInv
    <3>3. k.from = 0 /\ k.bytes = z
      BY <3>1, <3>2 DEF PartFits
    <3>4. sending.unit # u
      BY <1>2, <3>1, <3>2 DEF PartFits
    <3>5. Unsent(u) = {}
      BY <2>2, <3>4
    <3>6. \A b \in 0 .. z - 1 : b \in Bytes(k)
      BY <1>3, <3>3 DEF Bytes
    <3>7. k \notin Pieces(cache)
      <4>1. \A y \in Pieces(cache) : y.index # 0
        BY <1>1, PiecesIs DEF CacheInv, PieceType
      <4> QED
        BY <3>1, <4>1
    <3>8. \A b \in 0 .. z - 1 : Covered(u, b, K)
      BY <3>1, <3>6 DEF Covered
    <3> HIDE DEF z
    <3> QED
      BY <1>11, <2>4, <3>1, <3>5, <3>7, <3>8 DEF z
  <2>6. CASE d.sending.unit = u /\ \A m \in 1 .. d.sending.next - 1 : Present(u, m, K)
    <3> DEFINE n == d.sending.next - 1
               o == d.sending.offset
    <3>1. d.sending.unit # 0
      BY <1>3, <2>6, UnitIs
    <3>2. n \in Nat /\ n # 0 /\ o \in Nat /\ o < z
      BY <1>1, <2>6, <3>1 DEF SenderInv
    <3>3. \A m \in 1 .. n : Present(u, m, K)
      BY <2>6
    <3>4. Unsent(u) = o .. z - 1
      BY <1>2, <2>2, <2>6
    <3>5. n \in 1 .. n
      <4> HIDE DEF n
      <4> QED
        BY <3>2
    <3>6. PICK k \in K : k.unit = u /\ k.index = n
      BY <3>3, <3>5 DEF Present
    <3>7. PartFits(k, d)
      BY <1>1 DEF ChainInv
    <3>8. k.from + k.bytes = o
      BY <2>6, <3>6, <3>7 DEF PartFits
    <3> HIDE DEF n, o, z
    <3>9. ASSUME NEW b \in 0 .. z - 1 PROVE Covered(u, b, K) \/ b \in Unsent(u)
      <4>1. CASE b < o
        <5>1. b \in Nat /\ b < k.from + k.bytes
          BY <3>8, <4>1
        <5>2. \A y \in K : y.index \in Nat /\ y.from \in Nat /\ y.bytes \in Nat
          BY <1>4
        <5> QED
          BY <1>1, <3>2, <3>3, <3>6, <5>1, <5>2, CoveredUpTo
      <4>2. CASE ~(b < o)
        BY <1>3, <3>2, <3>4, <4>2
      <4> QED
        BY <4>1, <4>2
    <3>10. o \in Unsent(u) /\ \A b \in Unsent(u) : b \in 0 .. z - 1
      BY <1>3, <3>2, <3>4
    <3> QED
      BY <2>4, <3>9, <3>10 DEF z
  <2>7. CASE \E k \in K : k.unit = u /\ k.isLast /\ \A m \in 1 .. k.index : Present(u, m, K)
    <3>1. PICK k \in K : k.unit = u /\ k.isLast /\ \A m \in 1 .. k.index : Present(u, m, K)
      BY <2>7
    <3>2. PartFits(k, d) /\ k.index \in Nat /\ k.from \in Nat /\ k.bytes \in Nat
      BY <1>1, <1>4 DEF ChainInv
    <3>3. k.from + k.bytes = z /\ k.index # 0 /\ sending.unit # u
      BY <1>2, <3>1, <3>2 DEF PartFits
    <3>4. Unsent(u) = {}
      BY <2>2, <3>3
    <3>5. ASSUME NEW b \in 0 .. z - 1 PROVE Covered(u, b, K)
      <4>1. b \in Nat /\ b < k.from + k.bytes
        BY <1>3, <3>3
      <4>2. \A y \in K : y.index \in Nat /\ y.from \in Nat /\ y.bytes \in Nat
        BY <1>4
      <4> QED
        BY <1>1, <3>1, <3>2, <3>3, <4>1, <4>2, CoveredUpTo
    <3>6. \E g \in net : u \in Carried(g)
      <4> SUFFICES ASSUME ~\E g \in net : u \in Carried(g) PROVE FALSE
        OBVIOUS
      <4>1. \A y \in K : y.unit = u => y \in Pieces(cache)
        BY <1>11
      <4>2. \A m \in 1 .. k.index : \E y \in Pieces(cache) : y.unit = u /\ y.index = m
        BY <3>1, <4>1 DEF Present
      <4> QED
        BY <1>3, <3>1, <4>1, <4>2, NotAllCached
    <3> HIDE DEF z
    <3> QED
      BY <2>4, <3>4, <3>5, <3>6 DEF z
  <2> QED
    BY <2>3, <2>5, <2>6, <2>7 DEF AllThere
<1> QED
  <2>1. Taken(d) \in Nat
    BY <1>1, TakenType
  <2> QED
    BY <1>3, <1>12, <1>13, <2>1

-----------------------------------------------------------------------------
(* The theorems *)

LEMMA SegInvAlways == Spec => []SegInv
<1>1. Init => SegInv
  BY InitStep
<1>2. SegInv /\ [Next]_vars => SegInv'
  BY NextStep
<1> QED
  BY <1>1, <1>2, PTL DEF Spec

\* The variables of sender, network and parser stay within their types: the
\* parser deciphered no more sections than the sender enciphered, and ids
\* stay those of _packageIdNumber.
THEOREM SegmentsTyped == Spec => []TypeOK
<1>1. SegInv => TypeOK
  <2> SUFFICES ASSUME SegInv PROVE TypeOK
    OBVIOUS
  <2>1. /\ BaseInv /\ SenderInv(Sender) /\ CacheInv(cache)
        /\ OnceInv(Parts(net, loose, cache), Sender, Parser)
        /\ CipherInv(net, Sender, deciphered)
    BY DEF SegInv, World, Parser
  <2>2. /\ queue \in Seq(Units) /\ packageId \in 0 .. IdSpace - 1 /\ ciphered \in Nat
        /\ sending.unit \in Units \cup {0}
        /\ sending.unit # 0 => sending.next > 1 /\ sending.offset < Size[sending.unit]
    BY <2>1 DEF SenderInv, Sender
  <2>3. deciphered \in 0 .. ciphered
    BY <2>1, <2>2 DEF CipherInv, Sender
  <2>4. delivered \in [Units -> 0 .. 2] /\ garbled \in BOOLEAN
    BY ParserIs DEF IsParser, Parser
  <2>5. DOMAIN cache \subseteq 0 .. IdSpace - 1
    BY <2>1 DEF CacheInv
  <2>6. \A g \in net : g.sections \in Seq(Sections) /\ g.no \in 1 .. made
    BY <2>1 DEF BaseInv
  <2> QED
    BY <2>1, <2>2, <2>3, <2>4, <2>5, <2>6 DEF TypeOK, BaseInv
<1> QED
  BY <1>1, SegInvAlways, PTL

\* assembleSegments hands over nothing but whole units, in order and deciphered
\* in step, and a reliable one at most once: for all sizes, datagrams and
\* limits, whatever is lost, repeated, cancelled or cleared.
THEOREM WholeUnits == Spec => []HandedOverWhole
<1>1. SegInv => HandedOverWhole
  <2> SUFFICES ASSUME SegInv PROVE HandedOverWhole
    OBVIOUS
  <2>1. OnceInv(Parts(net, loose, Parser.cache), Sender, Parser)
    BY DEF SegInv, World
  <2>2. Parser.delivered = delivered /\ (Parser.garbled <=> garbled)
    BY DEF Parser
  <2>3. ~garbled
    BY <2>1 DEF OnceInv, Parser
  <2>4. ASSUME NEW u \in Units \ Oneway PROVE delivered[u] <= 1
    <3>1. delivered[u] \in 0 .. 2 /\ (delivered[u] > 0 => delivered[u] = 1)
      BY <2>1, <2>2 DEF OnceInv
    <3> QED
      BY <3>1
  <2> QED
    BY <2>3, <2>4 DEF HandedOverWhole
<1> QED
  BY <1>1, SegInvAlways, PTL

\* Until a reliable unit is handed over, expires or is cleared at the cache's
\* limit, every byte of it is queued, under way or cached, and something of it
\* is still to arrive: a package whose segments are all there never stays in
\* _uncompletedPackages.
THEOREM NothingStranded == Spec => []Recoverable
<1>1. SegInv => Recoverable
  BY UnitRecoverable DEF Recoverable
<1> QED
  BY <1>1, SegInvAlways, PTL
=============================================================================
