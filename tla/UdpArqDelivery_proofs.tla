----------------------- MODULE UdpArqDelivery_proofs -----------------------
(***************************************************************************)
(* Proofs that the engine hands over each reliable unit once, loses none,  *)
(* keeps their order where it parses in order, and so implements the       *)
(* delivery its users rely on.                                             *)
(*                                                                         *)
(* What the receiver does with a package depends on the package alone and  *)
(* on the numbers it took in before, so the argument is about all packages *)
(* of a peer at once, wherever they are: packages of one number hold the   *)
(* same units, but for expired ones, and later numbers hold later units.   *)
(* The receiver processes a number when it first leaves its cache or meets *)
(* the parser, and never again.                                            *)
(***************************************************************************)
EXTENDS UdpArqConfirm_proofs

InDatagram(d) == {d[i] : i \in DOMAIN d}

(* The packages of p, wherever they are: waiting to be confirmed, cached,  *)
(* in the datagram being parsed, on the network.                           *)
Held(p) ==
    LET q == Other(p)
    IN  unconf[p] \cup cache[q] \cup InDatagram(rx[q])
            \cup UNION {InDatagram(d) : d \in net[q]}

WellFormed(p, g) ==
    /\ g.data \subseteq 1 .. taken[p]
    /\ g.rel => (g.first <=> g.seq = BaseSeq[p])
    /\ ~g.rel => g.data \subseteq Discardable[p]
    /\ g.short => g.data = {}

(* Two reliable packages: units are numbered in the order of the packages, *)
(* and packages of one number differ in expired units only.                *)
Consistent(p, g, h) ==
    /\ \A u \in g.data, v \in h.data : u <= v => Index(p, g.seq) <= Index(p, h.seq)
    /\ g.seq = h.seq => g.data \subseteq h.data \cup expired[p]

HeldInv(p) ==
    /\ opened[p] <=> Index(p, nextSeq[p]) > 0
    /\ \A g \in Held(p) : WellFormed(p, g)
    /\ \A g, h \in Held(p) : g.rel /\ h.rel => Consistent(p, g, h)

-----------------------------------------------------------------------------
(* The packages of a peer.                                                 *)

LEMMA InDatagramType ==
    ASSUME NEW d \in Seq(Package) PROVE InDatagram(d) \subseteq Package
  BY DEF InDatagram

LEMMA HeldType ==
    ASSUME NEW p \in Peer, TypeOK
    PROVE  /\ Held(p) \subseteq Package
           /\ unconf[p] \subseteq Held(p) /\ cache[Other(p)] \subseteq Held(p)
           /\ InDatagram(rx[Other(p)]) \subseteq Held(p)
           /\ \A d \in net[Other(p)] : InDatagram(d) \subseteq Held(p)
<1>1. /\ unconf[p] \subseteq Package /\ cache[Other(p)] \subseteq Package
      /\ rx[Other(p)] \in Seq(Package) /\ net[Other(p)] \subseteq Seq(Package)
  BY OtherPeer, PlacesType
<1>2. \A d \in net[Other(p)] : InDatagram(d) \subseteq Package
  BY <1>1, InDatagramType
<1> QED
  BY <1>1, <1>2, InDatagramType DEF Held

LEMMA HeldNumbered ==
    ASSUME NEW p \in Peer, TypeOK, IInv, NEW g \in Held(p), g.rel
    PROVE  /\ g.seq \in SeqNum
           /\ Index(p, g.seq) < Index(p, nextSeq[p])
           /\ Index(p, g.seq) <= MaxPackages
<1> DEFINE q == Other(p)
<1>1. q \in Peer /\ Other(q) = p /\ PeerInv(p)
  BY OtherPeer DEF IInv
<1>2. Genuine(p, g)
  <2>1. CASE g \in unconf[p] \/ g \in cache[q]
    BY <1>1, <2>1 DEF PeerInv, GenuineUnconfirmed, GenuineCached
  <2>2. CASE g \in InDatagram(rx[q])
    BY <1>1, <2>2 DEF PeerInv, GenuineParsing, GenuineAll, InDatagram
  <2>3. ASSUME NEW d \in net[q], g \in InDatagram(d) PROVE Genuine(p, g)
    BY <1>1, <2>3 DEF PeerInv, GenuineNet, GenuineAll, InDatagram
  <2> QED
    BY <2>1, <2>2, <2>3 DEF Held
<1>3. g \in Package /\ g.seq \in SeqNum /\ nextSeq[p] \in SeqNum
  BY HeldType, PlacesType DEF Package
<1>4. Index(p, g.seq) \in Nat /\ Index(p, nextSeq[p]) \in Nat
  BY <1>3, IndexType
<1>5. Index(p, nextSeq[p]) <= MaxPackages /\ MaxPackages \in Nat
  BY <1>1, WindowAssumption DEF PeerInv, InWindow
<1> QED
  BY <1>2, <1>3, <1>4, <1>5 DEF Genuine

(* A package that is another one, perhaps cut.                             *)
Derived(p, g, h) ==
    /\ g.seq = h.seq /\ g.rel = h.rel /\ g.first = h.first
    /\ g.data \subseteq h.data /\ h.data \subseteq g.data \cup expired[p]
    /\ g.short => h.short \/ g.data = {}

LEMMA CutDerived ==
    ASSUME NEW p \in Peer, NEW h \in Package PROVE Derived(p, Cut(p, h), h)
  BY DEF Derived, Cut, Package

(* While no package is added, only the sender's state can grow.            *)
LEMMA HeldKept ==
    ASSUME NEW p \in Peer, TypeOK, HeldInv(p),
           Held(p)' \subseteq Held(p) \cup CutAll(p, unconf[p]),
           nextSeq'[p] = nextSeq[p], opened'[p] = opened[p],
           taken[p] \in Nat, taken'[p] \in Nat, taken[p] <= taken'[p],
           expired[p] \subseteq expired'[p]
    PROVE  HeldInv(p)'
<1>1. \A g \in Held(p)' : \E h \in Held(p) : Derived(p, g, h)
  <2> TAKE g \in Held(p)'
  <2>1. CASE g \in Held(p)
    BY <2>1 DEF Derived
  <2>2. CASE g \in CutAll(p, unconf[p])
    BY <2>2, CutDerived, HeldType DEF CutAll
  <2> QED
    BY <2>1, <2>2
<1>2. 1 .. taken[p] \subseteq 1 .. taken'[p]
  OBVIOUS
<1>3. ASSUME NEW g \in Held(p)' PROVE WellFormed(p, g)'
  <2>1. PICK h \in Held(p) : Derived(p, g, h)
    BY <1>1
  <2> QED
    BY <1>2, <2>1 DEF WellFormed, Derived, HeldInv
<1>4. ASSUME NEW g \in Held(p)', NEW h \in Held(p)', g.rel, h.rel
      PROVE  Consistent(p, g, h)'
  <2>1. PICK g0 \in Held(p) : Derived(p, g, g0)
    BY <1>1
  <2>2. PICK h0 \in Held(p) : Derived(p, h, h0)
    BY <1>1
  <2>3. Consistent(p, g0, h0)
    BY <1>4, <2>1, <2>2 DEF Derived, HeldInv
  <2> QED
    BY <2>1, <2>2, <2>3 DEF Consistent, Derived, Index
<1>5. opened'[p] <=> Index(p, nextSeq'[p]) > 0
  BY DEF HeldInv
<1> QED
  BY <1>3, <1>4, <1>5 DEF HeldInv, Index

(* A new package is numbered by nextSeq and holds units not sent before.   *)
LEMMA HeldSent ==
    ASSUME NEW p \in Peer, TypeOK, IInv, HeldInv(p), NEW k \in Package,
           Held(p)' \subseteq Held(p) \cup CutAll(p, unconf[p]) \cup {k},
           k.data \subseteq (taken[p] + 1) .. taken'[p],
           k.rel => k.seq = nextSeq[p], k.first <=> k.rel /\ ~opened[p], ~k.short,
           ~k.rel => k.data \subseteq Discardable[p],
           nextSeq'[p] = IF k.rel THEN Next1(nextSeq[p]) ELSE nextSeq[p],
           opened'[p] <=> opened[p] \/ k.rel,
           taken'[p] \in Nat, taken[p] <= taken'[p], UNCHANGED expired
    PROVE  HeldInv(p)'
<1>1. /\ taken[p] \in Nat /\ nextSeq[p] \in SeqNum /\ opened[p] \in BOOLEAN
      /\ BaseSeq[p] \in SeqNum
  BY PerPeerAssumption DEF TypeOK, SenderTypeOK
<1>2. Index(p, nextSeq[p]) \in Nat /\ Index(p, nextSeq[p]) <= MaxPackages
  BY <1>1, IndexType DEF IInv, PeerInv, InWindow
<1>3. Index(p, BaseSeq[p]) = 0
  BY <1>1, SeqSpaceAssumption DEF Index, Sub, SeqNum
<1>4. opened[p] <=> Index(p, nextSeq[p]) > 0
  BY DEF HeldInv
<1>5. \A g \in Held(p)' : g = k \/ \E h \in Held(p) : Derived(p, g, h)
  <2> TAKE g \in Held(p)'
  <2>1. CASE g \in Held(p)
    BY <2>1 DEF Derived
  <2>2. CASE g \in CutAll(p, unconf[p])
    BY <2>2, CutDerived, HeldType DEF CutAll
  <2> QED
    BY <2>1, <2>2
<1>6. opened'[p] <=> Index(p, nextSeq'[p]) > 0
  <2>1. CASE k.rel
    <3>1. Index(p, nextSeq'[p]) = Index(p, nextSeq[p]) + 1
      BY <1>1, <1>2, <2>1, IndexStep
    <3>2. Index(p, nextSeq'[p]) > 0
      BY <1>2, <3>1
    <3> QED
      BY <2>1, <3>2
  <2>2. CASE ~k.rel
    BY <1>4, <2>2
  <2> QED
    BY <2>1, <2>2
<1>7. k.rel => (k.first <=> k.seq = BaseSeq[p])
  BY <1>1, <1>2, <1>3, <1>4, IndexSame
<1>8. 1 .. taken[p] \subseteq 1 .. taken'[p] /\ k.data \subseteq 1 .. taken'[p]
  BY <1>1
<1>9. ASSUME NEW g \in Held(p)' PROVE WellFormed(p, g)'
  <2>1. CASE g = k
    BY <1>7, <1>8, <2>1 DEF WellFormed
  <2>2. ASSUME NEW h \in Held(p), Derived(p, g, h) PROVE WellFormed(p, g)'
    BY <1>8, <2>2 DEF WellFormed, Derived, HeldInv
  <2> QED
    BY <1>5, <2>1, <2>2
<1>10. ASSUME NEW g \in Held(p)', NEW h \in Held(p)', g.rel, h.rel
       PROVE  Consistent(p, g, h)'
  <2>1. CASE g = k /\ h = k
    BY <1>2, <1>10, <2>1 DEF Consistent, Index
  <2>2. ASSUME g = k, NEW h0 \in Held(p), Derived(p, h, h0)
        PROVE  Consistent(p, g, h)'
    <3>1. h.rel /\ h0.rel /\ h.seq = h0.seq /\ h.data \subseteq 1 .. taken[p]
      BY <1>10, <2>2 DEF Derived, HeldInv, WellFormed
    <3>2. Index(p, h.seq) < Index(p, g.seq) /\ Index(p, h.seq) \in Nat
      BY <1>10, <2>2, <3>1, HeldNumbered, IndexType
    <3>3. \A u \in g.data, v \in h.data : ~(u <= v)
      BY <1>1, <2>2, <3>1
    <3> QED
      BY <1>2, <2>2, <3>2, <3>3 DEF Consistent, Index
  <2>3. ASSUME h = k, NEW g0 \in Held(p), Derived(p, g, g0)
        PROVE  Consistent(p, g, h)'
    <3>1. g.rel /\ g0.rel /\ g.seq = g0.seq
      BY <1>10, <2>3 DEF Derived
    <3>2. Index(p, g.seq) < Index(p, h.seq) /\ Index(p, g.seq) \in Nat
      BY <1>10, <2>3, <3>1, HeldNumbered, IndexType
    <3> QED
      BY <1>2, <1>10, <2>3, <3>2 DEF Consistent, Index
  <2>4. ASSUME NEW g0 \in Held(p), Derived(p, g, g0),
               NEW h0 \in Held(p), Derived(p, h, h0)
        PROVE  Consistent(p, g, h)'
    <3>1. Consistent(p, g0, h0)
      BY <1>10, <2>4 DEF Derived, HeldInv
    <3> QED
      BY <2>4, <3>1 DEF Consistent, Derived, Index
  <2> QED
    BY <1>5, <2>1, <2>2, <2>3, <2>4
<1> QED
  BY <1>6, <1>9, <1>10 DEF HeldInv, Index

-----------------------------------------------------------------------------
(* Sending.                                                                *)

(* What a resend list and the packages kept after it are made of.          *)
LEMMA ResentHeld ==
    ASSUME NEW a \in Peer, TypeOK, NEW room \in Nat,
           NEW L \in ResendLists(a, unconf[a], room)
    PROVE  /\ InDatagram(L) \subseteq CutAll(a, unconf[a])
           /\ Replaced(a, unconf[a], L) \subseteq unconf[a] \cup CutAll(a, unconf[a])
           /\ \A g \in unconf[a] : \E h \in unconf[a] :
                 /\ h.seq = g.seq
                 /\ h \in Replaced(a, unconf[a], L) \/ Cut(a, h) \in Replaced(a, unconf[a], L)
<1>1. unconf[a] \in SUBSET Package
  BY PlacesType
<1>2. \A i \in DOMAIN L : \E g \in unconf[a] : L[i] = Cut(a, g)
  <2> DEFINE U == unconf[a]
  <2>1. U \in SUBSET Package /\ L \in ResendLists(a, U, room)
    BY <1>1
  <2> HIDE DEF U
  <2>2. \A i \in DOMAIN L : \E g \in U : L[i] = Cut(a, g)
    BY <2>1, ResendListType
  <2> QED
    BY <2>2 DEF U
<1>3. InDatagram(L) \subseteq CutAll(a, unconf[a])
  BY <1>2 DEF InDatagram, CutAll
<1>4. Replaced(a, unconf[a], L) \subseteq unconf[a] \cup CutAll(a, unconf[a])
  BY <1>3 DEF Replaced, InDatagram
<1>5. ASSUME NEW g \in unconf[a]
      PROVE  \E h \in unconf[a] :
                /\ h.seq = g.seq
                /\ h \in Replaced(a, unconf[a], L) \/ Cut(a, h) \in Replaced(a, unconf[a], L)
  <2>1. CASE g.seq \notin Seqs({L[i] : i \in DOMAIN L})
    BY <2>1 DEF Replaced
  <2>2. CASE g.seq \in Seqs({L[i] : i \in DOMAIN L})
    <3>1. PICK i \in DOMAIN L : L[i].seq = g.seq
      BY <2>2 DEF Seqs
    <3>2. PICK h \in unconf[a] : L[i] = Cut(a, h)
      BY <1>2
    <3>3. h.seq = g.seq
      BY <1>1, <3>1, <3>2, CutType
    <3> QED
      BY <3>2, <3>3 DEF Replaced
  <2> QED
    BY <2>1, <2>2
<1> QED
  BY <1>3, <1>4, <1>5

(* What a step of a may do to the packages of both peers.                  *)
HeldBoth(a, extra) ==
    /\ Held(a)' \subseteq Held(a) \cup CutAll(a, unconf[a]) \cup extra
    /\ Held(Other(a))' \subseteq Held(Other(a))

LEMMA TransmitHeld ==
    ASSUME NEW a \in Peer, TypeOK, NEW extra, NEW d, Transmit(Other(a), d),
           InDatagram(d) \subseteq CutAll(a, unconf[a]) \cup extra,
           unconf'[a] \subseteq unconf[a] \cup CutAll(a, unconf[a]) \cup extra,
           \A x \in Peer : x # a => unconf'[x] = unconf[x],
           UNCHANGED <<cache, rx>>
    PROVE  HeldBoth(a, extra)
<1> DEFINE b == Other(a)
<1>1. b \in Peer /\ b # a /\ Other(b) = a
  BY OtherPeer
<1>2. net'[a] = net[a] /\ \A e \in net'[b] : e \in net[b] \/ e = d
  BY <1>1 DEF Transmit, TypeOK
<1>3. Held(b)' = Held(b)
  BY <1>1, <1>2 DEF Held
<1>4. UNION {InDatagram(e) : e \in net'[b]}
        \subseteq (UNION {InDatagram(e) : e \in net[b]}) \cup InDatagram(d)
  BY <1>2
<1>5. Held(a)' = unconf'[a] \cup cache[b] \cup InDatagram(rx[b])
                   \cup UNION {InDatagram(e) : e \in net'[b]}
  BY DEF Held, InDatagram
<1>6. Held(a) = unconf[a] \cup cache[b] \cup InDatagram(rx[b])
                   \cup UNION {InDatagram(e) : e \in net[b]}
  BY DEF Held
<1> HIDE DEF b
<1>7. Held(a)' \subseteq Held(a) \cup CutAll(a, unconf[a]) \cup extra
  BY <1>4, <1>5, <1>6
<1> QED
  BY <1>3, <1>7 DEF HeldBoth, b

(* A step that sends a new package k with the units up to n.               *)
Sends(a, k, n) ==
    /\ k \in Package /\ n \in Nat /\ taken[a] <= n /\ n <= pushed[a]
    /\ k.data = Live(a, n) /\ ~k.short
    /\ k.rel <=> Live(a, n) \ Discardable[a] # {}
    /\ k.rel => k.seq = nextSeq[a]
    /\ k.first <=> k.rel /\ ~opened[a]
    /\ nextSeq' = [nextSeq EXCEPT ![a] = IF k.rel THEN Next1(nextSeq[a]) ELSE nextSeq[a]]
    /\ opened' = [opened EXCEPT ![a] = opened[a] \/ k.rel]
    /\ taken' = [taken EXCEPT ![a] = n]
    /\ PaddingResend(a, k)
    /\ UNCHANGED <<pushed, expired, receiverVars>>

LEMMA SendPackageSends ==
    ASSUME NEW a \in Peer, TypeOK, NEW n \in taken[a] .. pushed[a],
           NEW una \in SUBSET SeqNum, NEW acks \in SUBSET SeqNum, NEW fsync \in BOOLEAN,
           SendPackage(a, Live(a, n), una, acks, fsync),
           taken' = [taken EXCEPT ![a] = n], UNCHANGED <<pushed, expired, receiverVars>>
    PROVE  \E k \in Package : Sends(a, k, n)
<1> DEFINE reliable == Live(a, n) \ Discardable[a] # {}
           k == [rel |-> reliable, seq |-> IF reliable THEN nextSeq[a] ELSE 0,
                 first |-> reliable /\ ~opened[a], data |-> Live(a, n),
                 una |-> una, acks |-> acks, fsync |-> fsync, short |-> FALSE]
<1>1. /\ n \in Nat /\ n <= pushed[a] /\ taken[a] \in Nat /\ taken[a] <= n
      /\ Live(a, n) \in SUBSET AllUnits
  <2>1. taken[a] \in Nat /\ pushed[a] \in Nat
    BY DEF TypeOK, SenderTypeOK
  <2> QED
    BY <2>1, LiveType
<1>2. nextSeq[a] \in SeqNum /\ 0 \in SeqNum
  BY PlacesType, SeqSpaceAssumption DEF SeqNum
<1>3. k \in Package
  BY <1>1, <1>2 DEF Package
<1>4. /\ nextSeq' = [nextSeq EXCEPT ![a] = IF reliable THEN Next1(nextSeq[a]) ELSE nextSeq[a]]
      /\ opened' = [opened EXCEPT ![a] = opened[a] \/ reliable]
      /\ PaddingResend(a, k)
  BY DEF SendPackage
<1>5. /\ k.rel = reliable /\ k.data = Live(a, n) /\ k.short = FALSE
      /\ k.seq = IF reliable THEN nextSeq[a] ELSE 0
      /\ k.first = (reliable /\ ~opened[a])
  OBVIOUS
<1> HIDE DEF k
<1>6. Sends(a, k, n)
  BY <1>1, <1>3, <1>4, <1>5 DEF Sends
<1> QED
  BY <1>3, <1>6

LEMMA SendersSend ==
    ASSUME NEW a \in Peer, TypeOK, SendUrgent(a) \/ SendCommon(a)
    PROVE  \E k \in Package, n \in Nat : Sends(a, k, n)
<1>1. feedback[a] \in FeedbackType
  BY DEF TypeOK, SenderTypeOK
<1>2. CASE SendUrgent(a)
  <2>1. PICK ask \in BOOLEAN, n \in taken[a] .. pushed[a], R \in Cleaned(a) :
          /\ UrgentPackage(a, ask, feedback[a].force /\ ~ask, R, n)
          /\ taken' = [taken EXCEPT ![a] = n]
    BY <1>2 DEF SendUrgent
  <2> DEFINE una == IF ((feedback[a].force /\ ~ask) /\ feedback[a].available)
                         \/ NeedUNA(feedback[a]) THEN {feedback[a].lastUNA} ELSE {}
  <2>2. PICK A \in AckChoices(R) : SendPackage(a, Live(a, n), una, A, ask)
    BY <2>1 DEF UrgentPackage
  <2>3. una \in SUBSET SeqNum /\ A \in SUBSET SeqNum
    BY <1>1, AcksType DEF FeedbackType
  <2>4. UNCHANGED <<pushed, expired, receiverVars>>
    BY <1>2 DEF SendUrgent
  <2> HIDE DEF una
  <2>5. \E k \in Package : Sends(a, k, n)
    BY <2>1, <2>2, <2>3, <2>4, SendPackageSends
  <2> QED
    BY <2>5, LiveType
<1>3. CASE SendCommon(a)
  <2> DEFINE una(sync) == IF sync THEN {feedback[a].lastUNA} ELSE {}
  <2>1. PICK n \in taken[a] .. pushed[a], sync \in BOOLEAN :
          /\ SendPackage(a, Live(a, n), una(sync), {}, FALSE)
          /\ taken' = [taken EXCEPT ![a] = n]
    BY <1>3 DEF SendCommon
  <2>2. una(sync) \in SUBSET SeqNum /\ {} \in SUBSET SeqNum /\ FALSE \in BOOLEAN
    BY <1>1 DEF FeedbackType
  <2>3. UNCHANGED <<pushed, expired, receiverVars>>
    BY <1>3 DEF SendCommon
  <2> HIDE DEF una
  <2>4. \E k \in Package : Sends(a, k, n)
    BY <2>1, <2>2, <2>3, SendPackageSends
  <2> QED
    BY <2>4, LiveType
<1> QED
  BY <1>2, <1>3

(* What PaddingResend does to the packages.                                *)
LEMMA PaddingHeld ==
    ASSUME NEW a \in Peer, TypeOK, NEW k \in Package, PaddingResend(a, k),
           UNCHANGED receiverVars
    PROVE  /\ HeldBoth(a, {k})
           /\ \A x \in Peer : x # a => unconf'[x] = unconf[x]
           /\ k.rel => k \in unconf'[a]
           /\ \A g \in unconf[a] : \E h \in unconf[a] :
                 h.seq = g.seq /\ (h \in unconf'[a] \/ Cut(a, h) \in unconf'[a])
<1>1. PICK L \in ResendLists(a, unconf[a], MaxAssembled - 1) :
        /\ unconf' = [unconf EXCEPT ![a] =
                        Replaced(a, unconf[a], L) \cup (IF k.rel THEN {k} ELSE {})]
        /\ Transmit(Other(a), <<k>> \o L)
  BY DEF PaddingResend
<1>2. MaxAssembled - 1 \in Nat
  BY LimitAssumption
<1>3. /\ InDatagram(L) \subseteq CutAll(a, unconf[a])
      /\ Replaced(a, unconf[a], L) \subseteq unconf[a] \cup CutAll(a, unconf[a])
      /\ \A g \in unconf[a] : \E h \in unconf[a] :
            /\ h.seq = g.seq
            /\ h \in Replaced(a, unconf[a], L) \/ Cut(a, h) \in Replaced(a, unconf[a], L)
  BY <1>2, ResentHeld
<1>4. /\ unconf'[a] = Replaced(a, unconf[a], L) \cup (IF k.rel THEN {k} ELSE {})
      /\ \A x \in Peer : x # a => unconf'[x] = unconf[x]
  BY <1>1 DEF TypeOK, SenderTypeOK
<1>5. L \in Seq(Package)
  <2> DEFINE U == unconf[a]
  <2>1. U \in SUBSET Package /\ L \in ResendLists(a, U, MaxAssembled - 1)
    BY PlacesType
  <2> HIDE DEF U
  <2> QED
    BY <1>2, <2>1, ResendListType
<1>6. InDatagram(<<k>> \o L) \subseteq InDatagram(L) \cup {k}
  <2>1. \A i \in DOMAIN (<<k>> \o L) :
          (<<k>> \o L)[i] = k \/ \E j \in DOMAIN L : (<<k>> \o L)[i] = L[j]
    BY <1>5
  <2> QED
    BY <2>1 DEF InDatagram
<1>7. HeldBoth(a, {k})
  BY <1>1, <1>3, <1>4, <1>6, TransmitHeld DEF receiverVars
<1> QED
  BY <1>3, <1>4, <1>7

LEMMA ResendHeld ==
    ASSUME NEW a \in Peer, TypeOK, Resend(a)
    PROVE  /\ HeldBoth(a, {})
           /\ UNCHANGED <<senderVars, receiverVars>>
           /\ \A x \in Peer : x # a => unconf'[x] = unconf[x]
           /\ \A g \in unconf[a] : \E h \in unconf[a] :
                 h.seq = g.seq /\ (h \in unconf'[a] \/ Cut(a, h) \in unconf'[a])
<1>1. PICK L \in ResendLists(a, unconf[a], MaxAssembled) : ResendList(a, L)
  BY DEF Resend
<1>2. /\ unconf' = [unconf EXCEPT ![a] = Replaced(a, unconf[a], L)]
      /\ Transmit(Other(a), L) /\ UNCHANGED <<senderVars, receiverVars>>
  BY <1>1 DEF ResendList
<1>3. /\ InDatagram(L) \subseteq CutAll(a, unconf[a])
      /\ Replaced(a, unconf[a], L) \subseteq unconf[a] \cup CutAll(a, unconf[a])
      /\ \A g \in unconf[a] : \E h \in unconf[a] :
            /\ h.seq = g.seq
            /\ h \in Replaced(a, unconf[a], L) \/ Cut(a, h) \in Replaced(a, unconf[a], L)
  BY LimitAssumption, ResentHeld
<1>4. /\ unconf'[a] = Replaced(a, unconf[a], L)
      /\ \A x \in Peer : x # a => unconf'[x] = unconf[x]
  BY <1>2 DEF TypeOK, SenderTypeOK
<1>5. HeldBoth(a, {})
  BY <1>2, <1>3, <1>4, TransmitHeld DEF receiverVars
<1> QED
  BY <1>2, <1>3, <1>4, <1>5

-----------------------------------------------------------------------------
(* The other steps add no package.                                         *)

LEMMA HeadHeld ==
    ASSUME NEW a \in Peer, TypeOK, CanParse(a)
    PROVE  /\ Head(rx[a]) \in InDatagram(rx[a])
           /\ \A ok \in BOOLEAN : Continue(a, ok) =>
                 /\ InDatagram(rx'[a]) \subseteq InDatagram(rx[a])
                 /\ \A x \in Peer : x # a => rx'[x] = rx[x]
<1>1. rx[a] \in Seq(Package) /\ rx[a] # <<>> /\ rx \in [Peer -> Seq(Package)]
  BY DEF CanParse, TypeOK, ReceiverTypeOK
<1>2. Head(rx[a]) \in InDatagram(rx[a])
  <2>1. 1 \in DOMAIN rx[a] /\ Head(rx[a]) = rx[a][1]
    BY <1>1
  <2> QED
    BY <2>1 DEF InDatagram
<1>3. InDatagram(Tail(rx[a])) \subseteq InDatagram(rx[a]) /\ InDatagram(<<>>) = {}
  <2>1. \A i \in DOMAIN Tail(rx[a]) : i + 1 \in DOMAIN rx[a] /\ Tail(rx[a])[i] = rx[a][i + 1]
    BY <1>1
  <2> QED
    BY <2>1 DEF InDatagram
<1>4. ASSUME NEW ok \in BOOLEAN, Continue(a, ok)
      PROVE  /\ rx'[a] = IF ok THEN Tail(rx[a]) ELSE <<>>
             /\ \A x \in Peer : x # a => rx'[x] = rx[x]
  BY <1>1, <1>4 DEF Continue
<1> QED
  BY <1>2, <1>3, <1>4

(* Packages move from the network into the datagram parsed, from there     *)
(* into the cache, and are forgotten.                                      *)
Moves(a) ==
    /\ \A x \in Peer : unconf'[x] \subseteq unconf[x] /\ net'[x] \subseteq net[x]
    /\ cache'[a] \subseteq cache[a] \cup InDatagram(rx[a])
    /\ \/ rx'[a] \in net[a]
       \/ InDatagram(rx'[a]) \subseteq InDatagram(rx[a])
    /\ \A x \in Peer : x # a => cache'[x] = cache[x] /\ rx'[x] = rx[x]

LEMMA MovesHeld ==
    ASSUME NEW a \in Peer, TypeOK, Moves(a)
    PROVE  \A p \in Peer : Held(p)' \subseteq Held(p)
<1> TAKE p \in Peer
<1> DEFINE q == Other(p)
<1>1. q \in Peer
  BY OtherPeer
<1>2. /\ unconf'[p] \subseteq unconf[p] /\ net'[q] \subseteq net[q]
      /\ cache'[q] \subseteq cache[q] \cup InDatagram(rx[q])
      /\ rx'[q] \in net[q] \/ InDatagram(rx'[q]) \subseteq InDatagram(rx[q])
  BY <1>1 DEF Moves
<1>3. Held(p)' = unconf'[p] \cup cache'[q] \cup InDatagram(rx'[q])
                   \cup UNION {InDatagram(d) : d \in net'[q]}
  BY DEF Held, InDatagram
<1>4. Held(p) = unconf[p] \cup cache[q] \cup InDatagram(rx[q])
                   \cup UNION {InDatagram(d) : d \in net[q]}
  BY DEF Held
<1> HIDE DEF q
<1>5. (UNION {InDatagram(d) : d \in net'[q]}) \subseteq UNION {InDatagram(d) : d \in net[q]}
  BY <1>2
<1>6. InDatagram(rx'[q]) \subseteq InDatagram(rx[q]) \cup UNION {InDatagram(d) : d \in net[q]}
  BY <1>2
<1> QED
  BY <1>2, <1>3, <1>4, <1>5, <1>6

LEMMA ReceiverMoves ==
    ASSUME NEW a \in Peer, TypeOK, Receive(a) \/ Parse(a) \/ Finish(a)
    PROVE  Moves(a) /\ UNCHANGED senderVars
<1>1. CASE Receive(a)
  <2>1. PICK d \in net[a] : rx' = [rx EXCEPT ![a] = d]
    BY <1>1 DEF Receive
  <2>2. rx'[a] = d /\ \A x \in Peer : x # a => rx'[x] = rx[x]
    BY <2>1 DEF TypeOK, ReceiverTypeOK
  <2> QED
    BY <1>1, <2>2 DEF Receive, Moves
<1>2. CASE Finish(a)
  <2>1. unconf \in [Peer -> SUBSET Package] /\ rx \in [Peer -> Seq(Package)]
    BY DEF TypeOK, SenderTypeOK, ReceiverTypeOK
  <2>2. InDatagram(<<>>) = {}
    BY DEF InDatagram
  <2>3. rx' = [rx EXCEPT ![a] = <<>>] \/ rx' = rx
    BY <1>2 DEF Finish, FinishRecvData, FinishRawData, ReturnRecvToken
  <2>4. unconf' = unconf \/ unconf' = [unconf EXCEPT ![a] = {g \in @ : ~Confirmed(a, g.seq)}]
    BY <1>2 DEF Finish, FinishRecvData, FinishRawData, ReturnRecvToken, SyncARQStatus
  <2>5. UNCHANGED <<senderVars, cache, net>>
    BY <1>2 DEF Finish, FinishRecvData, FinishRawData, ReturnRecvToken, parserVars
  <2> QED
    BY <2>1, <2>2, <2>3, <2>4, <2>5 DEF Moves
<1>3. ASSUME CanParse(a), NEW ok \in BOOLEAN, Continue(a, ok),
             UNCHANGED <<senderVars, unconf, net>>,
             \/ UNCHANGED cache
             \/ cache' = [cache EXCEPT ![a] = @]
             \/ cache' = [cache EXCEPT ![a] = @ \cup {Head(rx[a])}]
      PROVE  Moves(a) /\ UNCHANGED senderVars
  <2>1. cache \in [Peer -> SUBSET Package]
    BY DEF TypeOK, ReceiverTypeOK
  <2>2. /\ cache'[a] \subseteq cache[a] \cup {Head(rx[a])}
        /\ \A x \in Peer : x # a => cache'[x] = cache[x]
    BY <1>3, <2>1
  <2> QED
    BY <1>3, <2>2, HeadHeld DEF Moves
<1>4. CASE ParseDiscardable(a) \/ ParseAhead(a)
  <2>1. CanParse(a) /\ Continue(a, ~Head(rx[a]).short)
    BY <1>4 DEF ParseDiscardable, ParseAhead
  <2>2. (~Head(rx[a]).short) \in BOOLEAN
    OBVIOUS
  <2> QED
    BY <1>3, <1>4, <2>1, <2>2 DEF ParseDiscardable, ParseAhead
<1>5. CASE ParseDuplicate(a) \/ ParseNext(a) \/ ParseIgnored(a) \/ ParseFirst(a)
  BY <1>3, <1>5 DEF ParseDuplicate, ParseNext, ParseIgnored, ParseFirst, parserVars
<1>6. CASE ParseCache(a) \/ ParseEarly(a)
  BY <1>3, <1>6 DEF ParseCache, ParseEarly
<1>7. CASE ProcessEarly(a) \/ AdvanceLast(a) \/ ProcessCached(a)
  <2>1. cache \in [Peer -> SUBSET Package]
    BY DEF TypeOK, ReceiverTypeOK
  <2>2. cache' = cache \/ \E g \in cache[a] : cache' = [cache EXCEPT ![a] = @ \ {g}]
    BY <1>7 DEF ProcessEarly, AdvanceLast, ProcessCached
  <2>3. cache'[a] \subseteq cache[a] /\ \A x \in Peer : x # a => cache'[x] = cache[x]
    BY <2>1, <2>2
  <2>4. UNCHANGED <<senderVars, unconf, net, rx>>
    BY <1>7 DEF ProcessEarly, AdvanceLast, ProcessCached
  <2> QED
    BY <2>3, <2>4 DEF Moves
<1> QED
  BY <1>1, <1>2, <1>4, <1>5, <1>6, <1>7 DEF Parse

LEMMA IdleMoves ==
    ASSUME NEW a \in Peer, TypeOK,
           Push(a) \/ Expire(a) \/ SendNothing(a) \/ JoinEpoll(a) \/ Lose(a)
    PROVE  Moves(a)
<1>1. CASE Lose(a)
  <2>1. \A x \in Peer : net'[x] \subseteq net[x]
    BY <1>1 DEF Lose, TypeOK
  <2> QED
    BY <1>1, <2>1 DEF Moves, Lose, receiverVars
<1>2. CASE Push(a) \/ Expire(a) \/ SendNothing(a) \/ JoinEpoll(a)
  BY <1>2 DEF Moves, Push, Expire, SendNothing, JoinEpoll, receiverVars
<1> QED
  BY <1>1, <1>2

(* A sender's queue and clock only move on.                                *)
LEMMA SenderGrows ==
    ASSUME NEW a \in Peer, TypeOK, TypeOK', PeerNext(a)
    PROVE  \A p \in Peer :
              /\ taken[p] \in Nat /\ taken'[p] \in Nat /\ taken[p] <= taken'[p]
              /\ expired[p] \subseteq expired'[p]
<1>1. \A p \in Peer : taken[p] \in Nat /\ taken'[p] \in Nat
  BY DEF TypeOK, SenderTypeOK
<1>2. taken \in [Peer -> Nat] /\ expired \in [Peer -> SUBSET Nat] /\ pushed \in [Peer -> Nat]
  BY DEF TypeOK, SenderTypeOK
<1>3. CASE Send(a)
  <2>1. UNCHANGED expired
    BY <1>3 DEF Send, SendUrgent, SendCommon, SendNothing, Resend, ResendList, senderVars
  <2>2. UNCHANGED taken \/ \E n \in taken[a] .. pushed[a] : taken' = [taken EXCEPT ![a] = n]
    BY <1>3 DEF Send, SendUrgent, SendCommon, SendNothing, Resend, ResendList, senderVars
  <2>3. ASSUME NEW n \in taken[a] .. pushed[a], taken' = [taken EXCEPT ![a] = n]
        PROVE  \A p \in Peer : taken[p] <= taken'[p]
    BY <1>2, <2>3
  <2> QED
    BY <1>1, <2>1, <2>2, <2>3
<1>4. CASE Expire(a)
  <2>1. UNCHANGED taken /\ \A p \in Peer : expired[p] \subseteq expired'[p]
    BY <1>2, <1>4 DEF Expire
  <2> QED
    BY <1>1, <2>1
<1>5. CASE Push(a) \/ JoinEpoll(a) \/ Lose(a)
  BY <1>1, <1>5 DEF Push, JoinEpoll, Lose, senderVars
<1>6. CASE Receive(a) \/ Parse(a) \/ Finish(a)
  BY <1>1, <1>6, ReceiverMoves DEF senderVars
<1> QED
  BY <1>3, <1>4, <1>5, <1>6 DEF PeerNext

LEMMA HeldInvNext ==
    ASSUME NEW a \in Peer, TypeOK, TypeOK', IInv, \A p \in Peer : HeldInv(p), PeerNext(a)
    PROVE  \A p \in Peer : HeldInv(p)'
<1>1. ASSUME UNCHANGED <<nextSeq, opened>>,
             \A p \in Peer : Held(p)' \subseteq Held(p) \cup CutAll(p, unconf[p])
      PROVE  \A p \in Peer : HeldInv(p)'
  BY <1>1, SenderGrows, HeldKept
<1>2. CASE SendUrgent(a) \/ SendCommon(a)
  <2>1. PICK k \in Package, n \in Nat : Sends(a, k, n)
    BY <1>2, SendersSend
  <2>2. Held(a)' \subseteq Held(a) \cup CutAll(a, unconf[a]) \cup {k}
        /\ Held(Other(a))' \subseteq Held(Other(a))
    BY <2>1, PaddingHeld DEF Sends, HeldBoth
  <2>3. taken'[a] = n /\ taken[a] \in Nat /\ k.data \subseteq (taken[a] + 1) .. taken'[a]
    BY <2>1 DEF Sends, Live, TypeOK, SenderTypeOK
  <2>4. /\ nextSeq'[a] = IF k.rel THEN Next1(nextSeq[a]) ELSE nextSeq[a]
        /\ opened'[a] <=> opened[a] \/ k.rel
        /\ \A x \in Peer : x # a => nextSeq'[x] = nextSeq[x] /\ opened'[x] = opened[x]
    BY <2>1 DEF Sends, TypeOK, SenderTypeOK
  <2>5. k.rel => k.data \subseteq AllUnits
    BY DEF Package
  <2>6. ~k.rel => k.data \subseteq Discardable[a]
    BY <2>1 DEF Sends
  <2>7. HeldInv(a)'
    BY <2>1, <2>2, <2>3, <2>4, <2>6, HeldSent DEF Sends
  <2>8. HeldInv(Other(a))'
    BY <2>2, <2>4, SenderGrows, HeldKept, OtherPeer
  <2> QED
    BY <2>7, <2>8, BothPeers
<1>3. CASE Resend(a)
  <2>1. HeldBoth(a, {}) /\ UNCHANGED senderVars
    BY <1>3, ResendHeld
  <2> QED
    BY <1>1, <2>1, BothPeers DEF HeldBoth, senderVars
<1>4. CASE Push(a) \/ Expire(a) \/ SendNothing(a) \/ JoinEpoll(a) \/ Lose(a)
  <2>1. UNCHANGED <<nextSeq, opened>>
    BY <1>4 DEF Push, Expire, SendNothing, JoinEpoll, Lose, senderVars
  <2> QED
    BY <1>1, <1>4, <2>1, IdleMoves, MovesHeld
<1>5. CASE Receive(a) \/ Parse(a) \/ Finish(a)
  BY <1>1, <1>5, ReceiverMoves, MovesHeld DEF senderVars
<1> QED
  BY <1>2, <1>3, <1>4, <1>5 DEF PeerNext, Send

-----------------------------------------------------------------------------
(* The receiver.  What it caches is unlike what it processed: other        *)
(* numbers, all of them past last, and never a first package.              *)

CacheInv(q) ==
    /\ \A g, h \in cache[q] : g.seq = h.seq => g = h
    /\ \A g \in cache[q] : ~g.first
    /\ started[q] =>
          \A g \in cache[q] : Index(Other(q), last[q]) < Index(Other(q), g.seq)
    /\ started[q] /\ DataEncrypted => ahead[q] = Seqs(cache[q])

(* The numbers q has processed.                                            *)
Processed(q) == ReceivedSeqs(q) \ Seqs(cache[q])

(* A step of q that processes g, which is new to it if it is numbered.     *)
Takes(q, g) ==
    /\ g \in Held(Other(q))
    /\ parsed'[q] = IF g.short THEN parsed[q] ELSE ParseData(parsed[q], g.data)
    /\ g.rel => g.seq \notin Processed(q) /\ g.seq \in Processed(q)'
    /\ g.rel /\ DataEncrypted => started'[q] /\ last'[q] = g.seq
    /\ Processed(q) \subseteq Processed(q)'
    /\ \A s \in ReceivedSeqs(q)' :
          s \in ReceivedSeqs(q) \/ (g.rel /\ s = g.seq) \/ s \in Seqs(cache'[q])
    /\ cache[q] \subseteq cache'[q] \cup {g}

(* A step of q that processes nothing.                                     *)
Skips(q) ==
    /\ parsed'[q] = parsed[q]
    /\ Processed(q) \subseteq Processed(q)'
    /\ \A s \in ReceivedSeqs(q)' : s \in ReceivedSeqs(q) \/ s \in Seqs(cache'[q])
    /\ cache[q] \subseteq cache'[q]

LEMMA Numbers ==
    ASSUME NEW q \in Peer, TypeOK, IInv
    PROVE  LET b == Other(q)
           IN  /\ last[q] \in SeqNum /\ ahead[q] \subseteq SeqNum /\ cache[q] \subseteq Package
               /\ \A s \in SeqNum : Index(b, s) \in Nat
               /\ \A s, t \in SeqNum : Index(b, s) = Index(b, t) => s = t
               /\ \A s \in ahead[q] : started[q]
               /\ \A g \in cache[q] : g.rel /\ g.seq \in SeqNum /\ Index(b, g.seq) <= MaxPackages
               /\ \A s : s \in ReceivedSeqs(q) <=>
                     /\ s \in SeqNum /\ started[q]
                     /\ s \in ahead[q] \/ Index(b, s) <= Index(b, last[q])
               /\ started[q] =>
                     /\ Index(b, last[q]) <= MaxPackages
                     /\ Next1(last[q]) \in SeqNum
                     /\ Index(b, Next1(last[q])) = Index(b, last[q]) + 1
                     /\ \A s \in SeqNum : Index(b, s) <= MaxPackages =>
                           (Ahead(s, last[q]) <=> Index(b, s) > Index(b, last[q]))
<1> DEFINE b == Other(q)
<1>1. b \in Peer /\ Other(b) = q /\ PeerInv(q) /\ PeerInv(b)
  BY OtherPeer DEF IInv
<1>2. last[q] \in SeqNum /\ ahead[q] \subseteq SeqNum /\ cache[q] \subseteq Package
  BY PlacesType
<1>3. \A s \in SeqNum : Index(b, s) \in Nat
  BY <1>1, IndexType
<1>4. \A s, t \in SeqNum : Index(b, s) = Index(b, t) => s = t
  BY <1>1, IndexSame
<1>5. \A s \in ahead[q] : started[q]
  BY <1>1 DEF PeerInv, GenuineTrack
<1>6. \A g \in cache[q] : g.rel /\ g.seq \in SeqNum /\ Index(b, g.seq) <= MaxPackages
  <2> TAKE g \in cache[q]
  <2>1. g.rel
    BY <1>1 DEF PeerInv, GenuineCached
  <2>2. g \in Held(b)
    BY <1>1, HeldType
  <2> QED
    BY <1>1, <2>1, <2>2, HeldNumbered
<1>7. \A s : s \in ReceivedSeqs(q) <=>
               /\ s \in SeqNum /\ started[q]
               /\ s \in ahead[q] \/ Index(b, s) <= Index(b, last[q])
  BY DEF ReceivedSeqs, Index
<1>8. ASSUME started[q]
      PROVE  /\ Index(b, last[q]) <= MaxPackages
             /\ Next1(last[q]) \in SeqNum
             /\ Index(b, Next1(last[q])) = Index(b, last[q]) + 1
             /\ \A s \in SeqNum : Index(b, s) <= MaxPackages =>
                   (Ahead(s, last[q]) <=> Index(b, s) > Index(b, last[q]))
  <2>1. Index(b, last[q]) < Index(b, nextSeq[b]) /\ Index(b, nextSeq[b]) <= MaxPackages
    BY <1>1, <1>8 DEF PeerInv, GenuineTrack, InWindow
  <2>2. nextSeq[b] \in SeqNum /\ MaxPackages \in Nat
    BY <1>1, PlacesType, WindowAssumption
  <2>3. Index(b, nextSeq[b]) \in Nat /\ Index(b, last[q]) \in Nat
    BY <1>2, <1>3, <2>2
  <2>4. Index(b, last[q]) <= MaxPackages
    BY <2>1, <2>2, <2>3
  <2> QED
    BY <1>1, <1>2, <2>4, IndexStep, IndexAhead
<1> QED
  BY <1>2, <1>3, <1>4, <1>5, <1>6, <1>7, <1>8

(* The package parsed.                                                     *)
LEMMA HeadFacts ==
    ASSUME NEW q \in Peer, TypeOK, IInv, HeldInv(Other(q)), CanParse(q)
    PROVE  LET g == Head(rx[q])
               b == Other(q)
           IN  /\ g \in Package /\ g \in Held(b) /\ WellFormed(b, g)
               /\ g.seq \in SeqNum
               /\ g.rel => Index(b, g.seq) <= MaxPackages
<1>1. Other(q) \in Peer /\ Other(Other(q)) = q
  BY OtherPeer
<1>2. Head(rx[q]) \in Held(Other(q))
  BY <1>1, HeadHeld, HeldType
<1> QED
  BY <1>1, <1>2, HeadType, HeldNumbered DEF HeldInv

LEMMA ProcessParsed ==
    ASSUME NEW q \in Peer, TypeOK, NEW g, NEW r, Process(q, g, r)
    PROVE  /\ parsed'[q] = IF g.short THEN parsed[q] ELSE ParseData(parsed[q], g.data)
           /\ \A x \in Peer : x # q => parsed'[x] = parsed[x]
  BY DEF Process, TypeOK, ReceiverTypeOK

(* The successor of last is processed, from the datagram or the cache.     *)
LEMMA TakesNext ==
    ASSUME NEW q \in Peer, TypeOK, IInv, CacheInv(q), started[q], started'[q],
           NEW g \in Package, g \in Held(Other(q)), g.rel, g.seq = Next1(last[q]),
           last'[q] = g.seq, ahead'[q] = ahead[q] \ {g.seq}, cache'[q] = cache[q] \ {g},
           g.seq \in ahead[q] => g \in cache[q],
           \A c \in cache[q] : c.seq = g.seq => c = g,
           parsed'[q] = IF g.short THEN parsed[q] ELSE ParseData(parsed[q], g.data)
    PROVE  CacheInv(q)' /\ Takes(q, g)
<1> DEFINE b == Other(q)
<1>1. /\ last[q] \in SeqNum /\ ahead[q] \subseteq SeqNum /\ cache[q] \subseteq Package
      /\ \A s \in SeqNum : Index(b, s) \in Nat
      /\ \A s, t \in SeqNum : Index(b, s) = Index(b, t) => s = t
      /\ \A c \in cache[q] : c.rel /\ c.seq \in SeqNum
      /\ \A s : s \in ReceivedSeqs(q) <=>
            /\ s \in SeqNum /\ started[q]
            /\ s \in ahead[q] \/ Index(b, s) <= Index(b, last[q])
      /\ g.seq \in SeqNum /\ Index(b, g.seq) = Index(b, last[q]) + 1
  BY Numbers
<1>2. \A s : s \in ReceivedSeqs(q)' <=>
               /\ s \in SeqNum /\ started'[q]
               /\ s \in ahead'[q] \/ Index(b, s) <= Index(b, last'[q])
  BY DEF ReceivedSeqs, Index
<1>3. \A s \in SeqNum : Index(b, s) <= Index(b, g.seq)
                          <=> Index(b, s) <= Index(b, last[q]) \/ s = g.seq
  BY <1>1
<1>4. \A s : s \in ReceivedSeqs(q)' <=> s \in ReceivedSeqs(q) \/ s = g.seq
  BY <1>1, <1>2, <1>3
<1>5. g.seq \notin Seqs(cache'[q]) /\ Seqs(cache'[q]) \subseteq Seqs(cache[q])
  BY DEF Seqs
<1>6. g.seq \notin Processed(q)
  <2> SUFFICES ASSUME g.seq \in ReceivedSeqs(q) PROVE g.seq \in Seqs(cache[q])
    BY DEF Processed
  <2>1. ~(Index(b, g.seq) <= Index(b, last[q]))
    BY <1>1
  <2> QED
    BY <1>1, <2>1 DEF Seqs
<1>7. g.seq \in Processed(q)' /\ Processed(q) \subseteq Processed(q)'
  BY <1>4, <1>5 DEF Processed
<1>8. \A c \in cache'[q] : Index(b, last'[q]) < Index(b, c.seq)
  <2> TAKE c \in cache'[q]
  <2>1. c \in cache[q] /\ c.seq # g.seq /\ c.seq \in SeqNum
    BY <1>1
  <2>2. Index(b, last[q]) < Index(b, c.seq)
    BY <2>1 DEF CacheInv
  <2>3. Index(b, c.seq) # Index(b, g.seq)
    BY <1>1, <2>1
  <2> QED
    BY <1>1, <2>1, <2>2, <2>3
<1>9. DataEncrypted => ahead'[q] = Seqs(cache'[q])
  <2>1. Seqs(cache'[q]) = Seqs(cache[q]) \ {g.seq}
    BY DEF Seqs
  <2> QED
    BY <2>1 DEF CacheInv
<1>10. CacheInv(q)'
  BY <1>8, <1>9 DEF CacheInv, Index
<1> QED
  BY <1>4, <1>6, <1>7, <1>10 DEF Takes

(* A package behind a gap is processed at once, by a peer that may.        *)
LEMMA TakesAhead ==
    ASSUME NEW q \in Peer, TypeOK, IInv, CacheInv(q), ~DataEncrypted,
           started[q], started'[q], last'[q] = last[q],
           NEW g \in Package, g \in Held(Other(q)), g.rel, g.seq \in SeqNum,
           Index(Other(q), g.seq) > Index(Other(q), last[q]),
           ahead'[q] \subseteq ahead[q] \cup {g.seq},
           (ahead[q] \cup {g.seq}) \ {last[q]} \subseteq ahead'[q],
           cache'[q] = cache[q] \ {g}, g.seq \notin Processed(q),
           \A c \in cache[q] : c.seq = g.seq => c = g,
           parsed'[q] = IF g.short THEN parsed[q] ELSE ParseData(parsed[q], g.data)
    PROVE  CacheInv(q)' /\ Takes(q, g)
<1> DEFINE b == Other(q)
<1>1. /\ last[q] \in SeqNum /\ ahead[q] \subseteq SeqNum
      /\ \A s \in SeqNum : Index(b, s) \in Nat
      /\ \A s : s \in ReceivedSeqs(q) <=>
            /\ s \in SeqNum /\ started[q]
            /\ s \in ahead[q] \/ Index(b, s) <= Index(b, last[q])
  BY Numbers
<1>2. \A s : s \in ReceivedSeqs(q)' <=>
               /\ s \in SeqNum /\ started'[q]
               /\ s \in ahead'[q] \/ Index(b, s) <= Index(b, last'[q])
  BY DEF ReceivedSeqs, Index
<1>3. g.seq # last[q]
  BY <1>1
<1>4. Index(b, last[q]) <= Index(b, last[q])
  BY <1>1
<1>5. \A s : s \in ReceivedSeqs(q)' <=> s \in ReceivedSeqs(q) \/ s = g.seq
  BY <1>1, <1>2, <1>3, <1>4
<1>6. g.seq \notin Seqs(cache'[q]) /\ Seqs(cache'[q]) \subseteq Seqs(cache[q])
  BY DEF Seqs
<1>7. g.seq \in Processed(q)' /\ Processed(q) \subseteq Processed(q)'
  BY <1>5, <1>6 DEF Processed
<1>8. CacheInv(q)'
  BY DEF CacheInv, Index
<1> QED
  BY <1>5, <1>7, <1>8 DEF Takes

(* The first package starts the parser.                                    *)
LEMMA TakesFirst ==
    ASSUME NEW q \in Peer, TypeOK, IInv, CacheInv(q), HeldInv(Other(q)),
           ~started[q], started'[q],
           NEW g \in Package, g \in Held(Other(q)), g.rel, g.first, last'[q] = g.seq,
           ahead'[q] = IF DataEncrypted THEN Seqs(cache[q]) \ {g.seq} ELSE ahead[q],
           cache'[q] = cache[q],
           parsed'[q] = IF g.short THEN parsed[q] ELSE ParseData(parsed[q], g.data)
    PROVE  CacheInv(q)' /\ Takes(q, g)
<1> DEFINE b == Other(q)
<1>1. b \in Peer /\ Other(b) = q /\ BaseSeq[b] \in SeqNum
  BY OtherPeer, PerPeerAssumption
<1>2. /\ ahead[q] = {} /\ ReceivedSeqs(q) = {}
      /\ \A s \in SeqNum : Index(b, s) \in Nat
      /\ \A s, t \in SeqNum : Index(b, s) = Index(b, t) => s = t
      /\ \A c \in cache[q] : c.rel /\ c.seq \in SeqNum
  BY Numbers
<1>3. g.seq = BaseSeq[b]
  BY DEF HeldInv, WellFormed
<1>4. Index(b, g.seq) = 0
  BY <1>1, <1>3, SeqSpaceAssumption DEF Index, Sub, SeqNum
<1>5. \A c \in cache[q] : c.seq # g.seq
  <2> TAKE c \in cache[q]
  <2>1. c \in Held(b) /\ c.rel /\ ~c.first
    BY <1>1, <1>2, HeldType DEF CacheInv
  <2> QED
    BY <1>3, <2>1 DEF HeldInv, WellFormed
<1>6. \A s : s \in ReceivedSeqs(q)' <=>
               /\ s \in SeqNum /\ started'[q]
               /\ s \in ahead'[q] \/ Index(b, s) <= Index(b, last'[q])
  BY DEF ReceivedSeqs, Index
<1>7. \A s \in ReceivedSeqs(q)' : s = g.seq \/ s \in Seqs(cache'[q])
  <2> TAKE s \in ReceivedSeqs(q)'
  <2>1. CASE s \in ahead'[q]
    BY <1>2, <2>1
  <2>2. CASE Index(b, s) <= Index(b, g.seq)
    BY <1>1, <1>2, <1>3, <1>4, <1>6, <2>2
  <2> QED
    BY <1>6, <2>1, <2>2
<1>8. g.seq \in ReceivedSeqs(q)' /\ g.seq \notin Seqs(cache'[q])
  BY <1>1, <1>3, <1>4, <1>5, <1>6 DEF Seqs
<1>9. \A c \in cache'[q] : Index(b, last'[q]) < Index(b, c.seq)
  <2> TAKE c \in cache'[q]
  <2>1. c.seq \in SeqNum /\ g.seq \in SeqNum /\ Index(b, c.seq) # Index(b, g.seq)
    BY <1>1, <1>2, <1>3, <1>5
  <2> QED
    BY <1>2, <1>4, <2>1
<1>10. DataEncrypted => ahead'[q] = Seqs(cache'[q])
  BY <1>5 DEF Seqs
<1>11. CacheInv(q)'
  BY <1>9, <1>10 DEF CacheInv, Index
<1>12. Processed(q) = {} /\ g.seq \in Processed(q)'
  BY <1>2, <1>8 DEF Processed
<1> QED
  BY <1>7, <1>11, <1>12 DEF Takes

(* A step that changes nothing the parser knows.                           *)
LEMMA SkipsSame ==
    ASSUME NEW q \in Peer, CacheInv(q), parsed'[q] = parsed[q], started'[q] = started[q],
           last'[q] = last[q], ahead'[q] = ahead[q], cache'[q] = cache[q]
    PROVE  CacheInv(q)' /\ Skips(q)
<1>1. ReceivedSeqs(q)' = ReceivedSeqs(q)
  BY DEF ReceivedSeqs
<1>2. Processed(q)' = Processed(q)
  BY <1>1 DEF Processed
<1>3. CacheInv(q)'
  BY DEF CacheInv, Index
<1> QED
  BY <1>1, <1>2, <1>3 DEF Skips

LEMMA ParseDiscardableTakes ==
    ASSUME NEW q \in Peer, TypeOK, IInv, CacheInv(q), HeldInv(Other(q)), ParseDiscardable(q)
    PROVE  CacheInv(q)' /\ Takes(q, Head(rx[q]))
<1> DEFINE g == Head(rx[q])
<1>1. /\ CanParse(q) /\ ~g.rel /\ Process(q, g, result[q])
      /\ UNCHANGED <<started, last, ahead, cache>>
  BY DEF ParseDiscardable
<1>2. g \in Held(Other(q))
  BY <1>1, HeadFacts
<1>3. parsed'[q] = IF g.short THEN parsed[q] ELSE ParseData(parsed[q], g.data)
  BY <1>1, ProcessParsed
<1> HIDE DEF g
<1>4. ReceivedSeqs(q)' = ReceivedSeqs(q)
  BY <1>1 DEF ReceivedSeqs
<1>5. Processed(q)' = Processed(q)
  BY <1>1, <1>4 DEF Processed
<1>6. CacheInv(q)'
  BY <1>1 DEF CacheInv, Index
<1>7. Takes(q, g)
  BY <1>1, <1>2, <1>3, <1>4, <1>5 DEF Takes
<1> QED
  BY <1>6, <1>7 DEF g

LEMMA ParseNextTakes ==
    ASSUME NEW q \in Peer, TypeOK, IInv, CacheInv(q), HeldInv(Other(q)), ParseNext(q)
    PROVE  CacheInv(q)' /\ Takes(q, Head(rx[q]))
<1> DEFINE g == Head(rx[q])
<1>1. /\ CanParse(q) /\ g.rel /\ started[q] /\ g.seq = Next1(last[q])
      /\ Process(q, g, [result[q] EXCEPT !.canUna = TRUE])
      /\ last' = [last EXCEPT ![q] = g.seq]
      /\ UNCHANGED <<started, ahead, cache>>
  BY DEF ParseNext
<1>2. g \in Held(Other(q)) /\ g \in Package
  BY <1>1, HeadFacts
<1>3. parsed'[q] = IF g.short THEN parsed[q] ELSE ParseData(parsed[q], g.data)
  BY <1>1, ProcessParsed
<1>4. last'[q] = g.seq
  BY <1>1 DEF TypeOK, ReceiverTypeOK
<1>5. g.seq \notin ahead[q] /\ g.seq \notin Seqs(cache[q])
  <2>1. DataEncrypted => ahead[q] = Seqs(cache[q]) /\ Next1(last[q]) \notin Seqs(cache[q])
    BY <1>1 DEF CacheInv, CanParse, RunPending
  <2>2. ~DataEncrypted => Next1(last[q]) \notin ahead[q] /\ cache[q] = {}
    BY <1>1 DEF CanParse, RunPending, EarlyPending
  <2> QED
    BY <1>1, <2>1, <2>2 DEF Seqs
<1> HIDE DEF g
<1>6. /\ ahead'[q] = ahead[q] \ {g.seq} /\ cache'[q] = cache[q] \ {g}
      /\ \A c \in cache[q] : c.seq # g.seq
  BY <1>1, <1>5 DEF Seqs
<1> QED
  BY <1>1, <1>2, <1>3, <1>4, <1>5, <1>6, TakesNext DEF g

LEMMA ProcessCachedTakes ==
    ASSUME NEW q \in Peer, TypeOK, IInv, CacheInv(q), ProcessCached(q)
    PROVE  CacheInv(q)' /\ \E g \in cache[q] : Takes(q, g)
<1>1. PICK g \in cache[q] :
        /\ g.seq = Next1(last[q])
        /\ cache' = [cache EXCEPT ![q] = @ \ {g}]
        /\ ahead' = [ahead EXCEPT ![q] = @ \ {g.seq}]
        /\ last' = [last EXCEPT ![q] = g.seq]
        /\ Process(q, g, [result[q] EXCEPT !.canUna = TRUE])
  BY DEF ProcessCached
<1>2. started[q] /\ started' = started
  BY DEF ProcessCached, RunPending
<1>3. g \in Held(Other(q)) /\ g \in Package /\ g.rel
  BY OtherPeer, HeldType, Numbers
<1>4. parsed'[q] = IF g.short THEN parsed[q] ELSE ParseData(parsed[q], g.data)
  BY <1>1, ProcessParsed
<1>5. last'[q] = g.seq /\ ahead'[q] = ahead[q] \ {g.seq} /\ cache'[q] = cache[q] \ {g}
  BY <1>1 DEF TypeOK, ReceiverTypeOK
<1>6. \A c \in cache[q] : c.seq = g.seq => c = g
  BY DEF CacheInv
<1> QED
  BY <1>1, <1>2, <1>3, <1>4, <1>5, <1>6, TakesNext

LEMMA ParseAheadTakes ==
    ASSUME NEW q \in Peer, TypeOK, IInv, CacheInv(q), HeldInv(Other(q)), ParseAhead(q)
    PROVE  CacheInv(q)' /\ Takes(q, Head(rx[q]))
<1> DEFINE g == Head(rx[q])
<1>1. /\ CanParse(q) /\ g.rel /\ started[q] /\ Ahead(g.seq, last[q]) /\ ~DataEncrypted
      /\ g.seq \notin ahead[q] /\ ahead' = [ahead EXCEPT ![q] = @ \cup {g.seq}]
      /\ Process(q, g, result[q]) /\ UNCHANGED <<started, last, cache>>
  BY DEF ParseAhead, IsGap, Seen
<1>2. /\ g \in Held(Other(q)) /\ g \in Package /\ g.seq \in SeqNum
      /\ Index(Other(q), g.seq) <= MaxPackages
  BY <1>1, HeadFacts
<1>3. parsed'[q] = IF g.short THEN parsed[q] ELSE ParseData(parsed[q], g.data)
  BY <1>1, ProcessParsed
<1>4. ahead'[q] = ahead[q] \cup {g.seq}
  BY <1>1 DEF TypeOK, ReceiverTypeOK
<1>5. cache[q] = {}
  BY <1>1 DEF CanParse, EarlyPending
<1> HIDE DEF g
<1>6. /\ last[q] \in SeqNum
      /\ Index(Other(q), g.seq) \in Nat /\ Index(Other(q), last[q]) \in Nat
      /\ Index(Other(q), g.seq) > Index(Other(q), last[q])
  BY <1>1, <1>2, Numbers
<1>7. g.seq \notin Processed(q)
  BY <1>1, <1>6, Numbers DEF Processed
<1> QED
  BY <1>1, <1>2, <1>3, <1>4, <1>5, <1>6, <1>7, TakesAhead DEF g

LEMMA ProcessEarlyTakes ==
    ASSUME NEW q \in Peer, TypeOK, IInv, CacheInv(q), ProcessEarly(q)
    PROVE  CacheInv(q)' /\ \E g \in cache[q] : Takes(q, g)
<1>1. PICK g \in cache[q] :
        /\ cache' = [cache EXCEPT ![q] = @ \ {g}]
        /\ ahead' = [ahead EXCEPT ![q] = (@ \cup {g.seq}) \ {last[q]}]
        /\ Process(q, g, result[q])
  BY DEF ProcessEarly
<1>2. started[q] /\ ~DataEncrypted /\ UNCHANGED <<started, last>>
  BY DEF ProcessEarly, EarlyPending
<1>3. g \in Held(Other(q)) /\ g \in Package /\ g.rel /\ g.seq \in SeqNum
  BY OtherPeer, HeldType, Numbers
<1>4. parsed'[q] = IF g.short THEN parsed[q] ELSE ParseData(parsed[q], g.data)
  BY <1>1, ProcessParsed
<1>5. ahead'[q] = (ahead[q] \cup {g.seq}) \ {last[q]} /\ cache'[q] = cache[q] \ {g}
  BY <1>1 DEF TypeOK, ReceiverTypeOK
<1>6. \A c \in cache[q] : c.seq = g.seq => c = g
  BY DEF CacheInv
<1>7. Index(Other(q), g.seq) > Index(Other(q), last[q])
  <2>1. Index(Other(q), g.seq) \in Nat /\ Index(Other(q), last[q]) \in Nat
    BY <1>3, Numbers
  <2> QED
    BY <1>2, <2>1 DEF CacheInv
<1>8. g.seq \notin Processed(q)
  BY DEF Processed, Seqs
<1> QED
  BY <1>2, <1>3, <1>4, <1>5, <1>6, <1>7, <1>8, TakesAhead

LEMMA ParseFirstTakes ==
    ASSUME NEW q \in Peer, TypeOK, IInv, CacheInv(q), HeldInv(Other(q)), ParseFirst(q)
    PROVE  CacheInv(q)' /\ Takes(q, Head(rx[q]))
<1> DEFINE g == Head(rx[q])
<1>1. /\ CanParse(q) /\ g.rel /\ g.first /\ ~started[q]
      /\ started' = [started EXCEPT ![q] = TRUE]
      /\ last' = [last EXCEPT ![q] = g.seq]
      /\ ahead' = [ahead EXCEPT ![q] = IF DataEncrypted THEN Seqs(cache[q]) \ {g.seq} ELSE @]
      /\ Process(q, g, [result[q] EXCEPT !.canUna = TRUE]) /\ UNCHANGED cache
  BY DEF ParseFirst
<1>2. g \in Held(Other(q)) /\ g \in Package
  BY <1>1, HeadFacts
<1>3. parsed'[q] = IF g.short THEN parsed[q] ELSE ParseData(parsed[q], g.data)
  BY <1>1, ProcessParsed
<1>4. /\ started'[q] /\ last'[q] = g.seq /\ cache'[q] = cache[q]
      /\ ahead'[q] = IF DataEncrypted THEN Seqs(cache[q]) \ {g.seq} ELSE ahead[q]
  BY <1>1 DEF TypeOK, ReceiverTypeOK
<1> HIDE DEF g
<1> QED
  BY <1>1, <1>2, <1>3, <1>4, TakesFirst DEF g

LEMMA ParseCacheSkips ==
    ASSUME NEW q \in Peer, TypeOK, IInv, CacheInv(q), HeldInv(Other(q)), ParseCache(q)
    PROVE  CacheInv(q)' /\ Skips(q)
<1> DEFINE g == Head(rx[q])
           b == Other(q)
<1>1. /\ CanParse(q) /\ g.rel /\ started[q] /\ Ahead(g.seq, last[q]) /\ DataEncrypted
      /\ g.seq \notin Seqs(cache[q]) /\ UNCHANGED <<started, last, parsed>>
      /\ \/ UNCHANGED <<ahead, cache>>
         \/ /\ cache' = [cache EXCEPT ![q] = @ \cup {g}]
            /\ ahead' = [ahead EXCEPT ![q] = @ \cup {g.seq}]
  BY DEF ParseCache, IsGap, Seen
<1>2. CASE UNCHANGED <<ahead, cache>>
  BY <1>1, <1>2, SkipsSame
<1>3. CASE /\ cache' = [cache EXCEPT ![q] = @ \cup {g}]
           /\ ahead' = [ahead EXCEPT ![q] = @ \cup {g.seq}]
  <2>1. cache'[q] = cache[q] \cup {g} /\ ahead'[q] = ahead[q] \cup {g.seq}
    BY <1>3 DEF TypeOK, ReceiverTypeOK
  <2>2. /\ g.seq \in SeqNum /\ Index(b, g.seq) <= MaxPackages
        /\ g \in Held(b) /\ WellFormed(b, g) /\ b \in Peer /\ BaseSeq[b] \in SeqNum
    BY <1>1, HeadFacts, OtherPeer, PerPeerAssumption
  <2>3. Index(b, last[q]) \in Nat /\ Index(b, g.seq) > Index(b, last[q])
    BY <1>1, <2>2, Numbers
  <2>4. ~g.first
    <3>1. Index(b, BaseSeq[b]) = 0
      BY <2>2, SeqSpaceAssumption DEF Index, Sub, SeqNum
    <3> QED
      BY <1>1, <2>2, <2>3, <3>1 DEF WellFormed
  <2>5. Seqs(cache'[q]) = Seqs(cache[q]) \cup {g.seq}
    BY <2>1 DEF Seqs
  <2> HIDE DEF g
  <2>6. \A x, y \in cache'[q] : x.seq = y.seq => x = y
    BY <1>1, <2>1 DEF CacheInv, Seqs
  <2>7. CacheInv(q)'
    BY <1>1, <2>1, <2>3, <2>4, <2>5, <2>6 DEF CacheInv, Index
  <2>8. \A s : s \in ReceivedSeqs(q)' <=> s \in ReceivedSeqs(q) \/ s = g.seq
    BY <1>1, <2>1, <2>2 DEF ReceivedSeqs
  <2>9. g.seq \notin ReceivedSeqs(q)
    <3>1. ~(Index(b, g.seq) <= Index(b, last[q])) /\ g.seq \notin ahead[q]
      BY <1>1, <2>2, <2>3, Numbers DEF CacheInv
    <3> QED
      BY <3>1, Numbers
  <2> QED
    BY <1>1, <2>1, <2>5, <2>7, <2>8, <2>9 DEF Skips, Processed
<1> QED
  BY <1>1, <1>2, <1>3

LEMMA ParseEarlySkips ==
    ASSUME NEW q \in Peer, TypeOK, IInv, CacheInv(q), HeldInv(Other(q)), ParseEarly(q)
    PROVE  CacheInv(q)' /\ Skips(q)
<1> DEFINE g == Head(rx[q])
<1>1. /\ CanParse(q) /\ g.rel /\ ~started[q] /\ ~g.first
      /\ UNCHANGED <<started, last, ahead, parsed>>
      /\ \/ cache' = [cache EXCEPT ![q] = @]
         \/ /\ g.seq \notin Seqs(cache[q])
            /\ cache' = [cache EXCEPT ![q] = @ \cup {g}]
  BY DEF ParseEarly
<1>2. \/ cache'[q] = cache[q]
      \/ g.seq \notin Seqs(cache[q]) /\ cache'[q] = cache[q] \cup {g}
  BY <1>1 DEF TypeOK, ReceiverTypeOK
<1> HIDE DEF g
<1>3. \A x, y \in cache'[q] : x.seq = y.seq => x = y
  BY <1>2 DEF CacheInv, Seqs
<1>4. CacheInv(q)'
  BY <1>1, <1>2, <1>3 DEF CacheInv
<1>5. ReceivedSeqs(q) = {} /\ ReceivedSeqs(q)' = {}
  BY <1>1 DEF ReceivedSeqs
<1> QED
  BY <1>1, <1>2, <1>4, <1>5 DEF Skips, Processed

LEMMA AdvanceLastSkips ==
    ASSUME NEW q \in Peer, TypeOK, IInv, CacheInv(q), AdvanceLast(q)
    PROVE  CacheInv(q)' /\ Skips(q)
<1> DEFINE b == Other(q)
           n == Next1(last[q])
<1>1. /\ started[q] /\ ~DataEncrypted /\ cache[q] = {} /\ n \in ahead[q]
      /\ last' = [last EXCEPT ![q] = Next1(@)] /\ ahead' = [ahead EXCEPT ![q] = @ \ {n}]
      /\ UNCHANGED <<started, cache, parsed>>
  BY DEF AdvanceLast, EarlyPending, RunPending
<1>2. last'[q] = n /\ ahead'[q] = ahead[q] \ {n}
  BY <1>1 DEF TypeOK, ReceiverTypeOK
<1>3. /\ last[q] \in SeqNum /\ n \in SeqNum /\ Index(b, n) = Index(b, last[q]) + 1
      /\ \A s \in SeqNum : Index(b, s) \in Nat
      /\ \A s, t \in SeqNum : Index(b, s) = Index(b, t) => s = t
      /\ \A s : s \in ReceivedSeqs(q) <=>
            /\ s \in SeqNum /\ started[q]
            /\ s \in ahead[q] \/ Index(b, s) <= Index(b, last[q])
  BY <1>1, Numbers
<1>4. \A s : s \in ReceivedSeqs(q)' <=>
               /\ s \in SeqNum /\ started'[q]
               /\ s \in ahead'[q] \/ Index(b, s) <= Index(b, last'[q])
  BY DEF ReceivedSeqs, Index
<1> HIDE DEF n
<1>5. \A s \in SeqNum : Index(b, s) <= Index(b, n) <=> Index(b, s) <= Index(b, last[q]) \/ s = n
  BY <1>3
<1>6. ReceivedSeqs(q)' = ReceivedSeqs(q)
  BY <1>1, <1>2, <1>3, <1>4, <1>5
<1>7. CacheInv(q)'
  BY <1>1 DEF CacheInv, Seqs
<1> QED
  BY <1>1, <1>6, <1>7 DEF Skips, Processed

(* Every step of the parser processes one package or none.                 *)
LEMMA ParseTakesOrSkips ==
    ASSUME NEW q \in Peer, TypeOK, IInv, CacheInv(q), HeldInv(Other(q)), Parse(q)
    PROVE  CacheInv(q)' /\ (Skips(q) \/ \E g : Takes(q, g))
<1>1. CASE ParseDuplicate(q) \/ ParseIgnored(q)
  BY <1>1, SkipsSame DEF ParseDuplicate, ParseIgnored, parserVars
<1> QED
  BY <1>1, ParseDiscardableTakes, ParseNextTakes, ProcessCachedTakes, ParseAheadTakes,
     ProcessEarlyTakes, ParseFirstTakes, ParseCacheSkips, ParseEarlySkips,
     AdvanceLastSkips DEF Parse

-----------------------------------------------------------------------------
(* What the other steps leave of the state of a receiver.                  *)

KeptTrack(q) ==
    /\ started'[q] = started[q] /\ last'[q] = last[q]
    /\ ahead'[q] = ahead[q] /\ cache'[q] = cache[q]

KeptCounts(q) == parsed'[q] = parsed[q] /\ delivered'[q] = delivered[q]

LEMMA TrackKept ==
    ASSUME NEW q \in Peer, KeptTrack(q)
    PROVE  /\ ReceivedSeqs(q)' = ReceivedSeqs(q) /\ Processed(q)' = Processed(q)
           /\ CacheInv(q) => CacheInv(q)'
<1>1. ReceivedSeqs(q)' = ReceivedSeqs(q)
  BY DEF ReceivedSeqs, KeptTrack
<1> QED
  BY <1>1 DEF KeptTrack, Processed, CacheInv, Index

LEMMA ParseElsewhere ==
    ASSUME NEW a \in Peer, TypeOK, Parse(a)
    PROVE  /\ \A x \in Peer : x # a => KeptTrack(x) /\ KeptCounts(x)
           /\ UNCHANGED <<delivered, taken, expired, pushed, unconf, raw>>
<1>1. /\ started \in [Peer -> BOOLEAN] /\ last \in [Peer -> SeqNum]
      /\ ahead \in [Peer -> SUBSET SeqNum] /\ cache \in [Peer -> SUBSET Package]
      /\ parsed \in [Peer -> [AllUnits -> Nat]]
  BY DEF TypeOK, ReceiverTypeOK
<1>2. ASSUME NEW g, NEW r, Process(a, g, r)
      PROVE  \A x \in Peer : x # a => parsed'[x] = parsed[x]
  BY <1>2, ProcessParsed
<1>3. UNCHANGED <<delivered, taken, expired, pushed, unconf, raw>>
  BY DEF Parse, ParseDiscardable, ParseDuplicate, ParseNext, ParseAhead, ParseCache,
     ParseIgnored, ParseFirst, ParseEarly, ProcessEarly, AdvanceLast, ProcessCached,
     senderVars
<1>4. CASE ParseDiscardable(a) \/ ParseDuplicate(a) \/ ParseIgnored(a) \/ ParseNext(a)
  BY <1>1, <1>2, <1>3, <1>4
     DEF ParseDiscardable, ParseDuplicate, ParseIgnored, ParseNext, parserVars,
         KeptTrack, KeptCounts
<1>5. CASE ParseAhead(a) \/ ParseFirst(a)
  BY <1>1, <1>2, <1>3, <1>5 DEF ParseAhead, ParseFirst, KeptTrack, KeptCounts
<1>6. CASE ParseCache(a) \/ ParseEarly(a)
  BY <1>1, <1>3, <1>6 DEF ParseCache, ParseEarly, KeptTrack, KeptCounts
<1>7. CASE ProcessEarly(a) \/ AdvanceLast(a) \/ ProcessCached(a)
  BY <1>1, <1>2, <1>3, <1>7
     DEF ProcessEarly, AdvanceLast, ProcessCached, KeptTrack, KeptCounts
<1> QED
  BY <1>3, <1>4, <1>5, <1>6, <1>7 DEF Parse

LEMMA OthersElsewhere ==
    ASSUME NEW a \in Peer, PeerNext(a), ~Parse(a), ~Finish(a)
    PROVE  \A x \in Peer : KeptTrack(x) /\ KeptCounts(x)
  BY DEF PeerNext, Send, Push, Expire, SendUrgent, SendCommon, SendNothing, Resend,
     ResendList, Receive, JoinEpoll, Lose, receiverVars, KeptTrack, KeptCounts

LEMMA CountsNat ==
    ASSUME TypeOK, NEW q \in Peer, NEW u \in AllUnits
    PROVE  parsed[q][u] \in Nat /\ delivered[q][u] \in Nat
  BY DEF TypeOK, ReceiverTypeOK

(* The end of a datagram moves what was parsed to the application, but for *)
(* the end of parseReceivedData when parse() failed.                       *)
LEMMA FinishCounts ==
    ASSUME NEW a \in Peer, TypeOK, Finish(a)
    PROVE  /\ \A x \in Peer : KeptTrack(x)
           /\ \A x \in Peer : x # a => KeptCounts(x)
           /\ \A u \in AllUnits : Copies(a, u)' <= Copies(a, u)
           /\ ~raw[a] => \A u \in AllUnits : Copies(a, u) > 0 => Copies(a, u)' > 0
           /\ UNCHANGED <<taken, expired, pushed>>
<1>1. UNCHANGED <<taken, expired, pushed, started, last, ahead, cache>>
  BY DEF Finish, FinishRecvData, ReturnRecvToken, FinishRawData, senderVars, parserVars
<1>2. \A x \in Peer : KeptTrack(x)
  BY <1>1 DEF KeptTrack
<1>3. /\ parsed \in [Peer -> [AllUnits -> Nat]] /\ delivered \in [Peer -> [AllUnits -> Nat]]
      /\ \A u \in AllUnits : parsed[a][u] \in Nat /\ delivered[a][u] \in Nat
  BY CountsNat DEF TypeOK, ReceiverTypeOK
<1>4. CASE Deliver(a)
  <2>1. /\ delivered'[a] = [u \in AllUnits |-> Counted(delivered[a][u] + parsed[a][u])]
        /\ parsed'[a] = NoUnits
        /\ \A x \in Peer : x # a => KeptCounts(x)
    BY <1>3, <1>4 DEF Deliver, KeptCounts
  <2>2. \A u \in AllUnits : Copies(a, u)' = Counted(delivered[a][u] + parsed[a][u]) + 0
    BY <2>1 DEF Copies, NoUnits
  <2>3. \A u \in AllUnits : /\ Copies(a, u)' <= Copies(a, u)
                            /\ Copies(a, u) > 0 => Copies(a, u)' > 0
    BY <1>3, <2>2 DEF Counted, CountBound, Copies
  <2> QED
    BY <1>1, <1>2, <2>1, <2>3
<1>5. CASE parsed' = [parsed EXCEPT ![a] = NoUnits] /\ UNCHANGED delivered /\ raw[a]
  <2>1. parsed'[a] = NoUnits /\ \A x \in Peer : x # a => KeptCounts(x)
    BY <1>3, <1>5 DEF KeptCounts
  <2>2. \A u \in AllUnits : Copies(a, u)' = delivered[a][u] + 0
    BY <1>5, <2>1 DEF Copies, NoUnits
  <2>3. \A u \in AllUnits : Copies(a, u)' <= Copies(a, u)
    BY <1>3, <2>2 DEF Copies
  <2> QED
    BY <1>1, <1>2, <1>5, <2>1, <2>3
<1>6. CASE UNCHANGED <<parsed, delivered>>
  <2>1. \A u \in AllUnits : Copies(a, u)' = Copies(a, u) /\ Copies(a, u) \in Nat
    BY <1>3, <1>6 DEF Copies
  <2> QED
    BY <1>1, <1>2, <1>6, <2>1 DEF KeptCounts
<1> QED
  BY <1>4, <1>5, <1>6 DEF Finish, FinishRecvData, ReturnRecvToken, FinishRawData, parserVars

LEMMA CacheInvNext ==
    ASSUME NEW a \in Peer, TypeOK, IInv, \A p \in Peer : HeldInv(p) /\ CacheInv(p),
           PeerNext(a)
    PROVE  \A p \in Peer : CacheInv(p)'
<1>1. CASE Parse(a)
  <2>1. CacheInv(a)'
    BY <1>1, OtherPeer, ParseTakesOrSkips
  <2> QED
    BY <1>1, <2>1, ParseElsewhere, TrackKept
<1>2. CASE Finish(a)
  BY <1>2, FinishCounts, TrackKept
<1>3. CASE ~Parse(a) /\ ~Finish(a)
  BY <1>3, OthersElsewhere, TrackKept
<1> QED
  BY <1>1, <1>2, <1>3

-----------------------------------------------------------------------------
(* No reliable unit is parsed twice.                                       *)

CopyInv(p) ==
    LET q == Other(p)
    IN  /\ \A u \in AllUnits : Copies(q, u) > 0 => u <= taken[p]
        /\ \A u \in Reliable(p) : Copies(q, u) <= 1
        /\ \A g \in Held(p) : \A u \in g.data \cap Reliable(p) :
              Copies(q, u) > 0 => g.seq \in Processed(q)

(* Each unit in a package was in one of that number before, or is new.     *)
Stems(p) ==
    \A g \in Held(p)' : \A u \in g.data :
        u > taken[p] \/ \E h \in Held(p) : h.seq = g.seq /\ h.rel = g.rel /\ u \in h.data

LEMMA StemsNext ==
    ASSUME NEW a \in Peer, TypeOK, PeerNext(a) PROVE \A p \in Peer : Stems(p)
<1>1. ASSUME NEW p \in Peer, Held(p)' \subseteq Held(p) \cup CutAll(p, unconf[p]) PROVE Stems(p)
  <2>1. \A h \in unconf[p] : Derived(p, Cut(p, h), h) /\ h \in Held(p)
    BY HeldType, CutDerived
  <2> QED
    BY <1>1, <2>1 DEF Stems, CutAll, Derived
<1>2. CASE SendUrgent(a) \/ SendCommon(a)
  <2>1. PICK k \in Package, n \in Nat : Sends(a, k, n)
    BY <1>2, SendersSend
  <2>2. /\ Held(a)' \subseteq Held(a) \cup CutAll(a, unconf[a]) \cup {k}
        /\ Held(Other(a))' \subseteq Held(Other(a))
    BY <2>1, PaddingHeld DEF Sends, HeldBoth
  <2>3. taken[a] \in Nat /\ \A u \in k.data : u > taken[a]
    BY <2>1 DEF Sends, Live, TypeOK, SenderTypeOK
  <2>4. \A h \in unconf[a] : Derived(a, Cut(a, h), h) /\ h \in Held(a)
    BY HeldType, CutDerived
  <2>5. Stems(a)
    BY <2>2, <2>3, <2>4 DEF Stems, CutAll, Derived
  <2>6. Stems(Other(a))
    BY <1>1, <2>2, OtherPeer
  <2> QED
    BY <2>5, <2>6, BothPeers
<1>3. CASE Resend(a)
  BY <1>1, <1>3, ResendHeld, BothPeers DEF HeldBoth
<1>4. CASE Push(a) \/ Expire(a) \/ SendNothing(a) \/ JoinEpoll(a) \/ Lose(a)
  BY <1>1, <1>4, IdleMoves, MovesHeld
<1>5. CASE Receive(a) \/ Parse(a) \/ Finish(a)
  BY <1>1, <1>5, ReceiverMoves, MovesHeld
<1> QED
  BY <1>2, <1>3, <1>4, <1>5 DEF PeerNext, Send

LEMMA ReliableType ==
    ASSUME NEW p \in Peer PROVE Reliable(p) \subseteq AllUnits /\ AllUnits \subseteq Nat
  BY PerPeerAssumption DEF Reliable, AllUnits, Unit

(* When no copy is added.                                                  *)
LEMMA CopyKept ==
    ASSUME NEW p \in Peer, TypeOK, TypeOK', CopyInv(p), Stems(p), taken[p] <= taken'[p],
           \A u \in AllUnits : Copies(Other(p), u)' <= Copies(Other(p), u),
           Processed(Other(p)) \subseteq Processed(Other(p))'
    PROVE  CopyInv(p)'
<1> DEFINE q == Other(p)
<1>1. q \in Peer /\ taken[p] \in Nat /\ taken'[p] \in Nat
  BY OtherPeer DEF TypeOK, SenderTypeOK
<1>2. \A u \in AllUnits : Copies(q, u) \in Nat /\ Copies(q, u)' \in Nat
  <2> HIDE DEF q
  <2>1. delivered \in [Peer -> [AllUnits -> Nat]] /\ parsed \in [Peer -> [AllUnits -> Nat]]
    BY DEF TypeOK, ReceiverTypeOK
  <2>2. delivered' \in [Peer -> [AllUnits -> Nat]] /\ parsed' \in [Peer -> [AllUnits -> Nat]]
    BY DEF TypeOK, ReceiverTypeOK
  <2> TAKE u \in AllUnits
  <2>3. delivered[q][u] \in Nat /\ parsed[q][u] \in Nat
    BY <1>1, <2>1
  <2>4. delivered'[q][u] \in Nat /\ parsed'[q][u] \in Nat
    BY <1>1, <2>2
  <2> QED
    BY <2>3, <2>4 DEF Copies
<1>3. Reliable(p) \subseteq AllUnits /\ AllUnits \subseteq Nat
  BY ReliableType
<1>4. \A u \in AllUnits : Copies(q, u)' > 0 => Copies(q, u) > 0 /\ u <= taken[p]
  BY <1>2 DEF CopyInv
<1>5. \A u \in AllUnits : Copies(q, u)' > 0 => u <= taken'[p]
  BY <1>1, <1>3, <1>4
<1>6. \A u \in Reliable(p) : Copies(q, u)' <= 1
  <2> TAKE u \in Reliable(p)
  <2>1. u \in AllUnits /\ Copies(q, u) <= 1
    BY <1>3 DEF CopyInv
  <2>2. Copies(q, u)' <= Copies(q, u) /\ Copies(q, u) \in Nat /\ Copies(q, u)' \in Nat
    BY <1>2, <2>1
  <2> QED
    BY <2>1, <2>2
<1>7. ASSUME NEW g \in Held(p)', NEW u \in g.data \cap Reliable(p), Copies(q, u)' > 0
      PROVE  g.seq \in Processed(q)'
  <2>1. u \in AllUnits /\ u \in Nat
    BY <1>3
  <2>2. Copies(q, u) > 0 /\ u <= taken[p]
    BY <1>4, <1>7, <2>1
  <2>3. ~(u > taken[p])
    BY <1>1, <2>1, <2>2
  <2>4. PICK h \in Held(p) : h.seq = g.seq /\ u \in h.data
    BY <1>7, <2>3 DEF Stems
  <2>5. h.seq \in Processed(q)
    BY <1>7, <2>2, <2>4 DEF CopyInv
  <2> QED
    BY <2>4, <2>5
<1> QED
  BY <1>5, <1>6, <1>7 DEF CopyInv

(* When g is processed: no unit of it was, or g would not be.              *)
LEMMA CopyTakes ==
    ASSUME NEW p \in Peer, TypeOK, TypeOK', HeldInv(p), CopyInv(p), NEW g,
           Takes(Other(p), g), Held(p)' \subseteq Held(p), UNCHANGED <<taken, delivered>>
    PROVE  CopyInv(p)'
<1> DEFINE q == Other(p)
<1>1. q \in Peer /\ taken[p] \in Nat /\ Other(q) = p
  BY OtherPeer DEF TypeOK, SenderTypeOK
<1>2. Reliable(p) \subseteq AllUnits /\ AllUnits \subseteq Nat
  BY ReliableType
<1>3. g \in Held(p) /\ g \in Package /\ WellFormed(p, g)
  BY <1>1, HeldType DEF Takes, HeldInv
<1>4. \A u \in AllUnits : parsed[q][u] \in Nat /\ delivered[q][u] \in Nat
  BY <1>1, CountsNat
<1>5. \A u \in AllUnits : ~(u \in g.data /\ ~g.short) => Copies(q, u)' = Copies(q, u)
  BY DEF Takes, Copies, ParseData
<1>6. \A u \in AllUnits : u \in g.data /\ ~g.short =>
         Copies(q, u)' = delivered[q][u] + Counted(parsed[q][u] + 1)
  BY DEF Takes, Copies, ParseData
<1>7. \A u \in AllUnits : Copies(q, u)' > 0 => u \in g.data \/ Copies(q, u) > 0
  BY <1>5
<1>8. \A u \in AllUnits : Copies(q, u)' > 0 => u <= taken'[p]
  BY <1>1, <1>2, <1>3, <1>7 DEF CopyInv, WellFormed
<1>9. \A u \in g.data \cap Reliable(p) : g.rel /\ Copies(q, u) = 0 /\ g.seq \in Processed(q)'
  <2> TAKE u \in g.data \cap Reliable(p)
  <2>1. g.rel
    BY <1>3 DEF WellFormed, Reliable
  <2>2. ~(Copies(q, u) > 0)
    BY <1>3, <2>1 DEF CopyInv, Takes
  <2>3. Copies(q, u) = 0
    BY <1>2, <1>4, <2>2 DEF Copies
  <2> QED
    BY <2>1, <2>3 DEF Takes
<1>10. \A u \in Reliable(p) : Copies(q, u)' <= 1
  <2> TAKE u \in Reliable(p)
  <2>1. CASE u \in g.data /\ ~g.short
    <3>1. u \in AllUnits /\ delivered[q][u] \in Nat /\ parsed[q][u] \in Nat
      BY <1>2, <1>4
    <3>2. delivered[q][u] + parsed[q][u] = 0
      BY <1>9, <2>1 DEF Copies
    <3>3. delivered[q][u] = 0 /\ parsed[q][u] = 0
      BY <3>1, <3>2
    <3> QED
      BY <1>6, <2>1, <3>1, <3>3 DEF Counted, CountBound
  <2>2. CASE ~(u \in g.data /\ ~g.short)
    BY <1>2, <1>5, <2>2 DEF CopyInv
  <2> QED
    BY <2>1, <2>2
<1>11. ASSUME NEW h \in Held(p)', NEW u \in h.data \cap Reliable(p), Copies(q, u)' > 0
       PROVE  h.seq \in Processed(q)'
  <2>1. h \in Held(p) /\ h \in Package /\ WellFormed(p, h) /\ u \in AllUnits /\ u \in Nat
    BY <1>2, HeldType DEF HeldInv
  <2>2. CASE Copies(q, u) > 0
    BY <2>1, <2>2 DEF CopyInv, Takes
  <2>3. CASE u \in g.data
    <3>1. h.rel /\ g.rel
      BY <1>9, <2>1, <2>3 DEF WellFormed, Reliable
    <3>2. Consistent(p, g, h) /\ Consistent(p, h, g)
      BY <1>3, <2>1, <3>1 DEF HeldInv
    <3>3. Index(p, g.seq) <= Index(p, h.seq) /\ Index(p, h.seq) <= Index(p, g.seq)
      BY <2>1, <2>3, <3>2 DEF Consistent
    <3>4. g.seq \in SeqNum /\ h.seq \in SeqNum
      BY <1>3, <2>1 DEF Package
    <3>5. Index(p, g.seq) \in Int /\ Index(p, h.seq) \in Int
      BY <3>4, IndexType
    <3>6. g.seq = h.seq
      BY <3>3, <3>4, <3>5, IndexSame
    <3> QED
      BY <1>9, <2>3, <3>6
  <2> QED
    BY <1>7, <1>11, <2>1, <2>2, <2>3
<1> QED
  BY <1>8, <1>10, <1>11 DEF CopyInv

LEMMA CopyInvNext ==
    ASSUME NEW a \in Peer, TypeOK, TypeOK', IInv,
           \A p \in Peer : HeldInv(p) /\ CacheInv(p) /\ CopyInv(p), PeerNext(a)
    PROVE  \A p \in Peer : CopyInv(p)'
<1> DEFINE b == Other(a)
<1>1. b \in Peer /\ Other(b) = a
  BY OtherPeer
<1>2. \A p \in Peer : taken[p] <= taken'[p] /\ Stems(p)
  BY SenderGrows, StemsNext
<1>3. \A q \in Peer : KeptCounts(q) => \A u \in AllUnits : Copies(q, u)' <= Copies(q, u)
  <2> TAKE q \in Peer
  <2> HAVE KeptCounts(q)
  <2> TAKE u \in AllUnits
  <2>1. Copies(q, u)' = Copies(q, u) /\ Copies(q, u) \in Nat
    BY CountsNat DEF KeptCounts, Copies
  <2> QED
    BY <2>1
<1>4. ASSUME NEW p \in Peer, KeptTrack(Other(p)),
             \A u \in AllUnits : Copies(Other(p), u)' <= Copies(Other(p), u)
      PROVE  CopyInv(p)'
  BY <1>2, <1>4, OtherPeer, TrackKept, CopyKept
<1>5. CASE Parse(a)
  <2>1. CopyInv(a)'
    BY <1>1, <1>3, <1>4, <1>5, ParseElsewhere, OtherPeer
  <2>2. Skips(a) \/ \E g : Takes(a, g)
    BY <1>1, <1>5, ParseTakesOrSkips
  <2>3. CASE Skips(a)
    <3>1. KeptCounts(a)
      BY <1>5, <2>3, ParseElsewhere DEF Skips, KeptCounts
    <3> QED
      BY <1>1, <1>2, <1>3, <2>1, <2>3, <3>1, CopyKept, BothPeers DEF Skips
  <2>4. ASSUME NEW g, Takes(a, g) PROVE CopyInv(b)'
    <3>1. Held(b)' \subseteq Held(b) /\ UNCHANGED <<taken, delivered>>
      BY <1>1, <1>5, ReceiverMoves, MovesHeld, ParseElsewhere
    <3> QED
      BY <1>1, <2>4, <3>1, CopyTakes
  <2> QED
    BY <2>1, <2>2, <2>3, <2>4, BothPeers
<1>6. CASE Finish(a)
  <2>1. \A q \in Peer : /\ KeptTrack(q)
                        /\ \A u \in AllUnits : Copies(q, u)' <= Copies(q, u)
    BY <1>3, <1>6, FinishCounts
  <2> QED
    BY <1>4, <2>1, OtherPeer
<1>7. CASE ~Parse(a) /\ ~Finish(a)
  BY <1>3, <1>4, <1>7, OthersElsewhere, OtherPeer
<1> QED
  BY <1>5, <1>6, <1>7

-----------------------------------------------------------------------------
(* At most once.                                                           *)

CopiesInv(p) == HeldInv(p) /\ CacheInv(p) /\ CopyInv(p)

DInv == TypeOK /\ IInv /\ \A p \in Peer : CopiesInv(p)

LEMMA NothingHeld == ASSUME Init, NEW p \in Peer PROVE Held(p) = {}
<1>1. InDatagram(<<>>) = {}
  BY DEF InDatagram
<1> QED
  BY <1>1, OtherPeer DEF Init, Held

LEMMA DInvInit == ASSUME Init PROVE DInv
<1>1. TypeOK /\ IInv
  BY InitType, InitInv
<1> SUFFICES ASSUME NEW p \in Peer PROVE CopiesInv(p)
  BY <1>1 DEF DInv
<1>2. Held(p) = {} /\ cache[p] = {} /\ ~started[p] /\ Other(p) \in Peer
  BY NothingHeld, OtherPeer DEF Init
<1>3. Index(p, nextSeq[p]) = 0 /\ ~opened[p]
  BY PerPeerAssumption, SeqSpaceAssumption DEF Init, Index, Sub, SeqNum
<1>4. \A u \in AllUnits : Copies(Other(p), u) = 0
  BY <1>2 DEF Init, Copies, NoUnits
<1>5. HeldInv(p)
  BY <1>2, <1>3 DEF HeldInv
<1>6. CacheInv(p)
  BY <1>2 DEF CacheInv
<1>7. CopyInv(p)
  BY <1>2, <1>4, ReliableType DEF CopyInv
<1> QED
  BY <1>5, <1>6, <1>7 DEF CopiesInv

LEMMA DInvNext == ASSUME DInv, [Next]_vars PROVE DInv'
<1>1. TypeOK /\ TypeOK' /\ IInv /\ IInv'
  BY NextType, NextInv DEF DInv
<1>2. ASSUME NEW a \in Peer, PeerNext(a) PROVE \A p \in Peer : CopiesInv(p)'
  <2>1. \A p \in Peer : HeldInv(p) /\ CacheInv(p) /\ CopyInv(p)
    BY DEF DInv, CopiesInv
  <2> QED
    BY <1>1, <1>2, <2>1, HeldInvNext, CacheInvNext, CopyInvNext DEF CopiesInv
<1>3. CASE UNCHANGED vars
  <2> SUFFICES ASSUME NEW p \in Peer PROVE CopiesInv(p)'
    BY <1>1 DEF DInv
  <2>1. UNCHANGED <<senderVars, unconf, receiverVars, net>>
    BY <1>3 DEF vars
  <2>2. HeldInv(p)'
    BY <2>1 DEF DInv, CopiesInv, HeldInv, Held, WellFormed, Consistent, Index,
       senderVars, receiverVars
  <2>3. CacheInv(p)'
    BY <2>1, TrackKept DEF DInv, CopiesInv, KeptTrack, receiverVars
  <2>4. CopyInv(p)'
    BY <2>1 DEF DInv, CopiesInv, CopyInv, Copies, Held, Processed, ReceivedSeqs,
       senderVars, receiverVars
  <2> QED
    BY <2>2, <2>3, <2>4 DEF CopiesInv
<1> QED
  BY <1>1, <1>2, <1>3 DEF DInv, Next

(* Whatever the network duplicates, delays or loses and the sender resends *)
(* (UDPAssembler.v2.cpp, ARQParser.v2.cpp), a reliable unit is parsed and  *)
(* handed over at most once.                                               *)
THEOREM UnitsOnce == Spec => []AtMostOnce
<1>1. DInv => AtMostOnce
  BY DEF DInv, CopiesInv, CopyInv, AtMostOnce
<1> QED
  BY <1>1, DInvInit, DInvNext, PTL DEF Spec

-----------------------------------------------------------------------------
(* No loss, for peers whose datagrams all go through recvData: a           *)
(* parseReceivedData that fails forgets what it parsed.                    *)

NeverRaw == \A p \in Peer : ~raw[p]

Unexpired(p, D) == (D \cap Reliable(p)) \ expired[p]

(* The units of a number processed came out of it.                         *)
TakenUp(p) ==
    \A g \in Held(p) : g.rel /\ g.seq \in Processed(Other(p)) =>
        \A u \in Unexpired(p, g.data) : Copies(Other(p), u) > 0

(* NoLoss, for the units of p.                                             *)
Kept(p) ==
    \A u \in Unexpired(p, 1 .. taken[p]) :
        Obtained(Other(p), u) \/ \E g \in unconf[p] : u \in g.data

LossInv(p) == TakenUp(p) /\ Kept(p)

LEMMA CopiesType ==
    ASSUME TypeOK, NEW q \in Peer, NEW u \in AllUnits
    PROVE  Copies(q, u) \in Nat
  BY CountsNat DEF Copies

LEMMA UnexpiredType ==
    ASSUME NEW p \in Peer, NEW D, NEW u \in Unexpired(p, D)
    PROVE  u \in D /\ u \in Reliable(p) /\ u \notin expired[p] /\ u \in AllUnits /\ u \in Nat
  BY ReliableType DEF Unexpired

(* A cut leaves a package with a unit that has not expired as it is.       *)
LEMMA CutUnexpired ==
    ASSUME NEW p \in Peer, NEW h, NEW u \in h.data \ expired[p]
    PROVE  Cut(p, h) = h
  BY DEF Cut

(* A copy that is counted stays so.                                        *)
CopiesStay(q) == \A u \in AllUnits : Copies(q, u) > 0 => Copies(q, u)' > 0

(* The numbers taken in that are cached lead to the units.                 *)
LEMMA TakenIsObtained ==
    ASSUME NEW p \in Peer, TypeOK, IInv, HeldInv(p), TakenUp(p),
           NEW g \in Held(p), g.rel, g.seq \in ReceivedSeqs(Other(p)),
           NEW u \in Unexpired(p, g.data)
    PROVE  Obtained(Other(p), u)
<1>1. CASE g.seq \in Processed(Other(p))
  BY <1>1 DEF TakenUp, Obtained
<1>2. CASE g.seq \in Seqs(cache[Other(p)])
  <2>1. PICK c \in cache[Other(p)] : c.seq = g.seq
    BY <1>2 DEF Seqs
  <2>2. c \in Held(p) /\ c.rel
    BY HeldType, OtherPeer, Numbers
  <2>3. g.data \subseteq c.data \cup expired[p]
    BY <2>1, <2>2 DEF HeldInv, Consistent
  <2> QED
    BY <2>3 DEF Obtained, Unexpired
<1> QED
  BY <1>1, <1>2 DEF Processed

(* When the receiver of p forgets nothing and processes nothing new.       *)
LEMMA TakenUpKept ==
    ASSUME NEW p \in Peer, TakenUp(p), CopiesStay(Other(p)), expired[p] \subseteq expired'[p],
           Processed(Other(p))' \subseteq Processed(Other(p)),
           \A g \in Held(p)' : g.rel /\ g.seq \in Processed(Other(p)) =>
              \E h \in Held(p) : h.rel /\ h.seq = g.seq /\ g.data \subseteq h.data
    PROVE  TakenUp(p)'
<1> SUFFICES ASSUME NEW g \in Held(p)', g.rel, g.seq \in Processed(Other(p))',
                    NEW u \in Unexpired(p, g.data)'
             PROVE  Copies(Other(p), u)' > 0
  BY DEF TakenUp
<1>1. u \in g.data /\ u \in Reliable(p) /\ u \notin expired'[p] /\ u \in AllUnits
  BY ReliableType DEF Unexpired
<1>2. PICK h \in Held(p) : h.rel /\ h.seq = g.seq /\ g.data \subseteq h.data
  OBVIOUS
<1>3. Copies(Other(p), u) > 0
  BY <1>1, <1>2 DEF TakenUp, Unexpired
<1> QED
  BY <1>1, <1>3 DEF CopiesStay

LEMMA ObtainedStays ==
    ASSUME NEW q \in Peer, CopiesStay(q), cache[q] \subseteq cache'[q],
           NEW u \in AllUnits, Obtained(q, u)
    PROVE  Obtained(q, u)'
  BY DEF Obtained, CopiesStay

(* What a step of the parser processes.                                    *)
LEMMA SkipsProcessed ==
    ASSUME NEW q \in Peer, Skips(q) PROVE Processed(q)' = Processed(q)
  BY DEF Skips, Processed, Seqs

LEMMA TakesProcessed ==
    ASSUME NEW q \in Peer, TypeOK, IInv, NEW g, Takes(q, g)
    PROVE  \A s \in Processed(q)' : s \in Processed(q) \/ (g.rel /\ s = g.seq)
<1> TAKE s \in Processed(q)'
<1>1. s \in ReceivedSeqs(q)' /\ s \notin Seqs(cache'[q])
  BY DEF Processed
<1>2. s \in ReceivedSeqs(q) \/ (g.rel /\ s = g.seq)
  BY <1>1 DEF Takes
<1>3. ASSUME s \in Seqs(cache[q]) PROVE g.rel /\ s = g.seq
  <2>1. PICK c \in cache[q] : c.seq = s
    BY <1>3 DEF Seqs
  <2>2. c = g
    BY <1>1, <2>1 DEF Takes, Seqs
  <2> QED
    BY <2>1, <2>2, Numbers
<1> QED
  BY <1>2, <1>3 DEF Processed

(* Copies when g is processed.                                             *)
LEMMA TakesCopies ==
    ASSUME NEW q \in Peer, TypeOK, NEW g, Takes(q, g), delivered' = delivered
    PROVE  /\ CopiesStay(q)
           /\ \A u \in AllUnits : u \in g.data /\ ~g.short => Copies(q, u)' > 0
<1>1. ASSUME NEW u \in AllUnits
      PROVE  /\ Copies(q, u) > 0 => Copies(q, u)' > 0
             /\ u \in g.data /\ ~g.short => Copies(q, u)' > 0
  <2>1. parsed[q][u] \in Nat /\ delivered[q][u] \in Nat
    BY CountsNat
  <2>2. Copies(q, u) = delivered[q][u] + parsed[q][u]
    BY DEF Copies
  <2>3. CASE u \in g.data /\ ~g.short
    <3>1. Copies(q, u)' = delivered[q][u] + Counted(parsed[q][u] + 1)
      BY <2>3 DEF Takes, Copies, ParseData
    <3> QED
      BY <2>1, <3>1 DEF Counted, CountBound
  <2>4. CASE ~(u \in g.data /\ ~g.short)
    <3>1. Copies(q, u)' = Copies(q, u)
      BY <2>4 DEF Takes, Copies, ParseData
    <3> QED
      BY <2>4, <3>1
  <2> QED
    BY <2>3, <2>4
<1> QED
  BY <1>1 DEF CopiesStay

LEMMA LossTakes ==
    ASSUME NEW p \in Peer, TypeOK, IInv, HeldInv(p), LossInv(p), NEW g,
           Takes(Other(p), g), Held(p)' \subseteq Held(p),
           UNCHANGED <<taken, delivered, expired, unconf>>
    PROVE  LossInv(p)'
<1> DEFINE q == Other(p)
<1>1. q \in Peer /\ Other(q) = p
  BY OtherPeer
<1>2. /\ CopiesStay(q)
      /\ \A u \in AllUnits : u \in g.data /\ ~g.short => Copies(q, u)' > 0
  BY <1>1, TakesCopies
<1>3. g \in Held(p) /\ WellFormed(p, g)
  BY <1>1 DEF Takes, HeldInv
<1>4. TakenUp(p)'
  <2> SUFFICES ASSUME NEW h \in Held(p)', h.rel, h.seq \in Processed(q)',
                      NEW u \in Unexpired(p, h.data)'
               PROVE  Copies(q, u)' > 0
    BY DEF TakenUp
  <2>1. u \in h.data /\ u \in Reliable(p) /\ u \notin expired[p] /\ u \in AllUnits
    BY ReliableType DEF Unexpired
  <2>2. CASE h.seq \in Processed(q)
    <3>1. Copies(q, u) > 0
      BY <2>1, <2>2 DEF LossInv, TakenUp, Unexpired
    <3> QED
      BY <1>2, <2>1, <3>1 DEF CopiesStay
  <2>3. CASE g.rel /\ h.seq = g.seq
    <3>1. h.data \subseteq g.data \cup expired[p]
      BY <1>3, <2>3 DEF HeldInv, Consistent
    <3>2. u \in g.data /\ ~g.short
      BY <1>3, <2>1, <3>1 DEF WellFormed
    <3> QED
      BY <1>2, <2>1, <3>2
  <2> QED
    BY <1>1, <2>2, <2>3, TakesProcessed
<1>5. Kept(p)'
  <2> SUFFICES ASSUME NEW u \in Unexpired(p, 1 .. taken[p])', ~\E h \in unconf[p] : u \in h.data
               PROVE  Obtained(q, u)'
    BY DEF Kept
  <2>1. u \in Reliable(p) /\ u \notin expired[p] /\ u \in AllUnits /\ Obtained(q, u)
    BY ReliableType DEF Unexpired, LossInv, Kept
  <2>2. CASE Copies(q, u) > 0
    BY <1>2, <2>1, <2>2 DEF CopiesStay, Obtained
  <2>3. ASSUME NEW c \in cache[q], u \in c.data PROVE Obtained(q, u)'
    <3>1. CASE c \in cache'[q]
      BY <2>3, <3>1 DEF Obtained
    <3>2. CASE c = g
      BY <1>2, <1>3, <2>1, <2>3, <3>2 DEF WellFormed, Obtained
    <3> QED
      BY <2>3, <3>1, <3>2 DEF Takes
  <2> QED
    BY <2>1, <2>2, <2>3 DEF Obtained
<1> QED
  BY <1>4, <1>5 DEF LossInv

LEMMA LossSkips ==
    ASSUME NEW p \in Peer, LossInv(p), Skips(Other(p)), Held(p)' \subseteq Held(p),
           UNCHANGED <<taken, delivered, expired, unconf>>
    PROVE  LossInv(p)'
<1> DEFINE q == Other(p)
<1>1. q \in Peer
  BY OtherPeer
<1>2. CopiesStay(q) /\ cache[q] \subseteq cache'[q]
  BY DEF CopiesStay, Copies, Skips
<1>3. Processed(q)' = Processed(q)
  BY <1>1, SkipsProcessed
<1>4. TakenUp(p)'
  BY <1>2, <1>3, TakenUpKept DEF LossInv
<1>5. Kept(p)'
  <2> SUFFICES ASSUME NEW u \in Unexpired(p, 1 .. taken[p])', ~\E h \in unconf[p] : u \in h.data
               PROVE  Obtained(q, u)'
    BY DEF Kept
  <2>1. u \in AllUnits /\ Obtained(q, u)
    BY ReliableType DEF Unexpired, LossInv, Kept
  <2> QED
    BY <1>1, <1>2, <2>1, ObtainedStays
<1> QED
  BY <1>4, <1>5 DEF LossInv

(* When the receiver of p stands still: what matters is that the units p   *)
(* takes from its queue or confirms are accounted for.                     *)
LEMMA LossStands ==
    ASSUME NEW p \in Peer, TypeOK, LossInv(p), KeptTrack(Other(p)), CopiesStay(Other(p)),
           expired[p] \subseteq expired'[p],
           \A g \in Held(p)' : g.rel /\ g.seq \in Processed(Other(p)) =>
              \E h \in Held(p) : h.rel /\ h.seq = g.seq /\ g.data \subseteq h.data,
           \A u \in Unexpired(p, 1 .. taken[p])' :
              u \in 1 .. taken[p] \/ \E h \in unconf'[p] : u \in h.data,
           \A g \in unconf[p] : \A u \in Unexpired(p, g.data)' :
              Obtained(Other(p), u) \/ \E h \in unconf'[p] : u \in h.data
    PROVE  LossInv(p)'
<1> DEFINE q == Other(p)
<1>1. q \in Peer /\ Processed(q)' = Processed(q) /\ cache'[q] = cache[q]
  BY OtherPeer, TrackKept DEF KeptTrack
<1>2. TakenUp(p)'
  BY <1>1, TakenUpKept DEF LossInv
<1>3. Kept(p)'
  <2> SUFFICES ASSUME NEW u \in Unexpired(p, 1 .. taken[p])', ~\E h \in unconf'[p] : u \in h.data
               PROVE  Obtained(q, u)'
    BY DEF Kept
  <2>1. /\ u \in 1 .. taken[p] /\ u \in Reliable(p) /\ u \in AllUnits
        /\ u \notin expired'[p] /\ u \notin expired[p]
    BY ReliableType DEF Unexpired
  <2>2. ASSUME NEW g \in unconf[p], u \in g.data PROVE Obtained(q, u)
    BY <2>1, <2>2 DEF Unexpired
  <2>3. Obtained(q, u)
    BY <2>1, <2>2 DEF LossInv, Kept, Unexpired
  <2> QED
    BY <1>1, <2>1, <2>3, ObtainedStays
<1> QED
  BY <1>2, <1>3 DEF LossInv

(* A package cut comes from one with as many units.                        *)
LEMMA CutComes ==
    ASSUME NEW p \in Peer, TypeOK, NEW g \in Held(p) \cup CutAll(p, unconf[p])
    PROVE  \E h \in Held(p) : h.rel = g.rel /\ h.seq = g.seq /\ g.data \subseteq h.data
<1>1. CASE g \in Held(p)
  BY <1>1
<1>2. CASE g \in CutAll(p, unconf[p])
  <2>1. PICK h \in unconf[p] : g = Cut(p, h)
    BY <1>2 DEF CutAll
  <2>2. h \in Held(p) /\ h \in Package
    BY HeldType
  <2>3. Derived(p, g, h)
    BY <2>1, <2>2, CutDerived
  <2> QED
    BY <2>2, <2>3 DEF Derived
<1> QED
  BY <1>1, <1>2

(* What is resent keeps the units that have not expired.                   *)
LEMMA ResentKept ==
    ASSUME NEW a \in Peer, TypeOK, IInv, HeldInv(a),
           \A g \in unconf[a] : \E h \in unconf[a] :
              h.seq = g.seq /\ (h \in unconf'[a] \/ Cut(a, h) \in unconf'[a]),
           NEW g \in unconf[a], NEW u \in Unexpired(a, g.data)
    PROVE  \E h \in unconf'[a] : u \in h.data
<1>1. PICK h \in unconf[a] : h.seq = g.seq /\ (h \in unconf'[a] \/ Cut(a, h) \in unconf'[a])
  OBVIOUS
<1>2. g.rel /\ h.rel /\ g \in Held(a) /\ h \in Held(a)
  BY HeldType DEF IInv, PeerInv, GenuineUnconfirmed
<1>3. g.data \subseteq h.data \cup expired[a]
  BY <1>1, <1>2 DEF HeldInv, Consistent
<1>4. u \in h.data \ expired[a]
  BY <1>3 DEF Unexpired
<1>5. Cut(a, h) = h
  BY <1>4, CutUnexpired
<1> QED
  BY <1>1, <1>4, <1>5

(* The number of a new package was not taken in.                           *)
LEMMA NewNumber ==
    ASSUME NEW a \in Peer, TypeOK, IInv
    PROVE  nextSeq[a] \notin ReceivedSeqs(Other(a))
<1> DEFINE b == Other(a)
<1>1. b \in Peer /\ Other(b) = a /\ PeerInv(b)
  BY OtherPeer DEF IInv
<1>2. nextSeq[a] \in SeqNum /\ last[b] \in SeqNum
  BY <1>1, PlacesType
<1>3. Index(a, nextSeq[a]) \in Int /\ Index(a, last[b]) \in Int
  BY <1>2, IndexType
<1>4. /\ started[b] => Index(a, last[b]) < Index(a, nextSeq[a])
      /\ \A s \in ahead[b] : Index(a, s) < Index(a, nextSeq[a])
  BY <1>1 DEF PeerInv, GenuineTrack
<1>5. nextSeq[a] \notin ahead[b]
  BY <1>3, <1>4
<1>6. started[b] => ~(Index(a, nextSeq[a]) <= Index(a, last[b]))
  BY <1>3, <1>4
<1> QED
  BY <1>1, <1>5, <1>6 DEF ReceivedSeqs, Index

(* The packages and the units of the peer that does not send.              *)
LEMMA LossElsewhere ==
    ASSUME NEW p \in Peer, TypeOK, LossInv(p), KeptTrack(Other(p)), CopiesStay(Other(p)),
           expired[p] \subseteq expired'[p], taken'[p] = taken[p], unconf'[p] = unconf[p],
           Held(p)' \subseteq Held(p)
    PROVE  LossInv(p)'
<1>1. \A u \in Unexpired(p, 1 .. taken[p])' : u \in 1 .. taken[p]
  BY DEF Unexpired
<1>2. \A g \in unconf[p] : \A u \in Unexpired(p, g.data)' : \E h \in unconf'[p] : u \in h.data
  BY DEF Unexpired
<1> QED
  BY <1>1, <1>2, LossStands

LEMMA LossSends ==
    ASSUME NEW a \in Peer, TypeOK, IInv, \A p \in Peer : HeldInv(p) /\ LossInv(p),
           NEW k, NEW n, Sends(a, k, n)
    PROVE  \A p \in Peer : LossInv(p)'
<1> DEFINE b == Other(a)
<1>1. b \in Peer /\ b # a /\ Other(b) = a
  BY OtherPeer
<1>2. /\ Held(a)' \subseteq Held(a) \cup CutAll(a, unconf[a]) \cup {k}
      /\ Held(b)' \subseteq Held(b)
      /\ \A x \in Peer : x # a => unconf'[x] = unconf[x]
      /\ k.rel => k \in unconf'[a]
      /\ \A g \in unconf[a] : \E h \in unconf[a] :
            h.seq = g.seq /\ (h \in unconf'[a] \/ Cut(a, h) \in unconf'[a])
  BY PaddingHeld DEF Sends, HeldBoth
<1>3. \A x \in Peer : KeptTrack(x) /\ CopiesStay(x) /\ expired'[x] = expired[x]
  BY DEF Sends, receiverVars, KeptTrack, CopiesStay, Copies
<1>4. taken'[a] = n /\ taken'[b] = taken[b] /\ taken[a] \in Nat /\ n \in Nat
  BY <1>1 DEF Sends, TypeOK, SenderTypeOK
<1>5. LossInv(b)'
  BY <1>1, <1>2, <1>3, <1>4, LossElsewhere
<1>6. \A g \in Held(a)' : g.rel /\ g.seq \in Processed(b) =>
         \E h \in Held(a) : h.rel /\ h.seq = g.seq /\ g.data \subseteq h.data
  <2> SUFFICES ASSUME NEW g \in Held(a)', g.rel, g.seq \in Processed(b)
               PROVE  g \in Held(a) \cup CutAll(a, unconf[a])
    BY CutComes
  <2>1. g # k
    BY NewNumber DEF Sends, Processed
  <2> QED
    BY <1>2, <2>1
<1>7. \A u \in Unexpired(a, 1 .. taken[a])' :
         u \in 1 .. taken[a] \/ \E h \in unconf'[a] : u \in h.data
  <2> SUFFICES ASSUME NEW u \in Unexpired(a, 1 .. taken[a])', u \notin 1 .. taken[a]
               PROVE  k \in unconf'[a] /\ u \in k.data
    OBVIOUS
  <2>1. u \in 1 .. n /\ u \in Reliable(a) /\ u \notin expired[a]
    BY <1>3, <1>4 DEF Unexpired
  <2>2. u \in Live(a, n) \ Discardable[a]
    BY <1>4, <2>1 DEF Live, Reliable
  <2> QED
    BY <1>2, <2>2 DEF Sends
<1>8. \A g \in unconf[a] : \A u \in Unexpired(a, g.data)' : \E h \in unconf'[a] : u \in h.data
  <2> TAKE g \in unconf[a]
  <2> TAKE u \in Unexpired(a, g.data)'
  <2>1. u \in Unexpired(a, g.data)
    BY <1>3 DEF Unexpired
  <2> QED
    BY <1>2, <2>1, ResentKept
<1>9. LossInv(a)'
  BY <1>1, <1>3, <1>6, <1>7, <1>8, LossStands
<1> QED
  BY <1>5, <1>9, BothPeers

LEMMA LossResend ==
    ASSUME NEW a \in Peer, TypeOK, IInv, \A p \in Peer : HeldInv(p) /\ LossInv(p), Resend(a)
    PROVE  \A p \in Peer : LossInv(p)'
<1> DEFINE b == Other(a)
<1>1. b \in Peer /\ b # a /\ Other(b) = a
  BY OtherPeer
<1>2. /\ Held(a)' \subseteq Held(a) \cup CutAll(a, unconf[a])
      /\ Held(b)' \subseteq Held(b)
      /\ \A x \in Peer : x # a => unconf'[x] = unconf[x]
      /\ \A g \in unconf[a] : \E h \in unconf[a] :
            h.seq = g.seq /\ (h \in unconf'[a] \/ Cut(a, h) \in unconf'[a])
      /\ UNCHANGED <<senderVars, receiverVars>>
  BY ResendHeld DEF HeldBoth
<1>3. \A x \in Peer : /\ KeptTrack(x) /\ CopiesStay(x)
                      /\ expired'[x] = expired[x] /\ taken'[x] = taken[x]
  BY <1>2 DEF senderVars, receiverVars, KeptTrack, CopiesStay, Copies
<1>4. LossInv(b)'
  BY <1>1, <1>2, <1>3, LossElsewhere
<1>5. \A g \in Held(a)' : g.rel /\ g.seq \in Processed(b) =>
         \E h \in Held(a) : h.rel /\ h.seq = g.seq /\ g.data \subseteq h.data
  BY <1>2, CutComes
<1>6. \A u \in Unexpired(a, 1 .. taken[a])' : u \in 1 .. taken[a]
  BY <1>3 DEF Unexpired
<1>7. \A g \in unconf[a] : \A u \in Unexpired(a, g.data)' : \E h \in unconf'[a] : u \in h.data
  <2> TAKE g \in unconf[a]
  <2> TAKE u \in Unexpired(a, g.data)'
  <2>1. u \in Unexpired(a, g.data)
    BY <1>3 DEF Unexpired
  <2> QED
    BY <1>2, <2>1, ResentKept
<1>8. LossInv(a)'
  BY <1>1, <1>3, <1>5, <1>6, <1>7, LossStands
<1> QED
  BY <1>4, <1>8, BothPeers

(* A confirmation only forgets what the peer has obtained.                 *)
LEMMA LossFinish ==
    ASSUME NEW a \in Peer, TypeOK, IInv, \A p \in Peer : HeldInv(p) /\ LossInv(p),
           Finish(a), ~raw[a]
    PROVE  \A p \in Peer : LossInv(p)'
<1> DEFINE b == Other(a)
<1>1. b \in Peer /\ b # a /\ Other(b) = a
  BY OtherPeer
<1>2. /\ \A x \in Peer : KeptTrack(x) /\ CopiesStay(x)
      /\ UNCHANGED <<taken, expired>>
      /\ \A x \in Peer : Held(x)' \subseteq Held(x)
  <2>1. \A x \in Peer : x # a => CopiesStay(x)
    BY FinishCounts DEF KeptCounts, CopiesStay, Copies
  <2>2. CopiesStay(a)
    BY FinishCounts DEF CopiesStay
  <2> QED
    BY <2>1, <2>2, FinishCounts, ReceiverMoves, MovesHeld
<1>3. /\ \A x \in Peer : x # a => unconf'[x] = unconf[x]
      /\ \A g \in unconf[a] : g \in unconf'[a] \/ Confirmed(a, g.seq)
  BY DEF Finish, FinishRecvData, ReturnRecvToken, FinishRawData, SyncARQStatus,
         TypeOK, SenderTypeOK
<1>4. LossInv(b)'
  BY <1>1, <1>2, <1>3, LossElsewhere
<1>5. \A g \in unconf[a] : \A u \in Unexpired(a, g.data)' :
         Obtained(b, u) \/ \E h \in unconf'[a] : u \in h.data
  <2> TAKE g \in unconf[a]
  <2> TAKE u \in Unexpired(a, g.data)'
  <2>1. u \in Unexpired(a, g.data) /\ u \in g.data
    BY <1>2 DEF Unexpired
  <2>2. ASSUME Confirmed(a, g.seq) PROVE Obtained(b, u)
    <3>1. g.seq \in ReceivedSeqs(b)
      BY <2>2, ConfirmedTakenIn
    <3>2. g \in Held(a) /\ g.rel
      BY HeldType DEF IInv, PeerInv, GenuineUnconfirmed
    <3> QED
      BY <2>1, <3>1, <3>2, TakenIsObtained DEF LossInv
  <2> QED
    BY <1>3, <2>1, <2>2
<1>6. \A u \in Unexpired(a, 1 .. taken[a])' : u \in 1 .. taken[a]
  BY <1>2 DEF Unexpired
<1>7. \A g \in Held(a)' : g.rel /\ g.seq \in Processed(b) =>
         \E h \in Held(a) : h.rel /\ h.seq = g.seq /\ g.data \subseteq h.data
  BY <1>2
<1>8. LossInv(a)'
  BY <1>1, <1>2, <1>5, <1>6, <1>7, LossStands
<1> QED
  BY <1>4, <1>8, BothPeers

LEMMA LossIdle ==
    ASSUME NEW a \in Peer, TypeOK, TypeOK', \A p \in Peer : LossInv(p), PeerNext(a),
           Push(a) \/ Expire(a) \/ SendNothing(a) \/ JoinEpoll(a) \/ Lose(a) \/ Receive(a)
    PROVE  \A p \in Peer : LossInv(p)'
<1> SUFFICES ASSUME NEW p \in Peer PROVE LossInv(p)'
  OBVIOUS
<1>1. /\ KeptTrack(Other(p)) /\ CopiesStay(Other(p)) /\ unconf'[p] = unconf[p]
  <2>1. \A x \in Peer : started'[x] = started[x] /\ last'[x] = last[x]
                          /\ ahead'[x] = ahead[x] /\ cache'[x] = cache[x]
                          /\ parsed'[x] = parsed[x] /\ delivered'[x] = delivered[x]
                          /\ unconf'[x] = unconf[x]
    BY DEF Push, Expire, SendNothing, JoinEpoll, Lose, Receive, receiverVars
  <2> QED
    BY <2>1, OtherPeer DEF KeptTrack, CopiesStay, Copies
<1>2. Held(p)' \subseteq Held(p)
  BY IdleMoves, ReceiverMoves, MovesHeld
<1>3. expired[p] \subseteq expired'[p]
  BY SenderGrows
<1>4. \A g \in Held(p)' : g.rel /\ g.seq \in Processed(Other(p)) =>
         \E h \in Held(p) : h.rel /\ h.seq = g.seq /\ g.data \subseteq h.data
  BY <1>2
<1>5. \A g \in unconf[p] : \A u \in Unexpired(p, g.data)' : \E h \in unconf'[p] : u \in h.data
  BY <1>1 DEF Unexpired
<1>6. \A u \in Unexpired(p, 1 .. taken[p])' : u \in 1 .. taken[p]
  <2>1. CASE SendNothing(a) /\ p = a
    <3>1. PICK n \in taken[a] .. pushed[a] :
            Live(a, n) = {} /\ taken' = [taken EXCEPT ![a] = n]
      BY <2>1 DEF SendNothing
    <3>2. taken'[a] = n /\ taken[a] \in Nat /\ n \in Nat
      BY <3>1 DEF TypeOK, SenderTypeOK
    <3>3. expired' = expired
      BY <2>1 DEF SendNothing
    <3> SUFFICES ASSUME NEW u \in Unexpired(a, 1 .. taken[a])', u \notin 1 .. taken[a]
                 PROVE  FALSE
      BY <2>1
    <3>4. u \in 1 .. n /\ u \notin expired[a]
      BY <3>2, <3>3 DEF Unexpired
    <3>5. u \in Live(a, n)
      BY <3>2, <3>4 DEF Live
    <3> QED
      BY <3>1, <3>5
  <2>2. CASE ~(SendNothing(a) /\ p = a)
    <3>1. taken'[p] = taken[p]
      BY <2>2 DEF Push, Expire, SendNothing, JoinEpoll, Lose, Receive, senderVars,
         TypeOK, SenderTypeOK
    <3> QED
      BY <3>1 DEF Unexpired
  <2> QED
    BY <2>1, <2>2
<1> QED
  BY <1>1, <1>3, <1>4, <1>5, <1>6, LossStands

LEMMA LossParse ==
    ASSUME NEW a \in Peer, TypeOK, IInv, \A p \in Peer : HeldInv(p) /\ CacheInv(p) /\ LossInv(p),
           Parse(a)
    PROVE  \A p \in Peer : LossInv(p)'
<1> DEFINE b == Other(a)
<1>1. b \in Peer /\ b # a /\ Other(b) = a
  BY OtherPeer
<1>2. /\ \A x \in Peer : Held(x)' \subseteq Held(x)
      /\ UNCHANGED <<taken, delivered, expired, unconf>>
  BY ParseElsewhere, ReceiverMoves, MovesHeld
<1>3. LossInv(a)'
  <2>1. KeptTrack(b) /\ CopiesStay(b)
    BY <1>1, ParseElsewhere DEF KeptCounts, CopiesStay, Copies
  <2> QED
    BY <1>2, <2>1, LossElsewhere
<1>4. Skips(a) \/ \E g : Takes(a, g)
  BY <1>1, ParseTakesOrSkips
<1>5. LossInv(b)'
  BY <1>1, <1>2, <1>4, LossTakes, LossSkips
<1> QED
  BY <1>3, <1>5, BothPeers

LEMMA LossInvNext ==
    ASSUME NEW a \in Peer, TypeOK, TypeOK', IInv, NeverRaw,
           \A p \in Peer : HeldInv(p) /\ CacheInv(p) /\ LossInv(p), PeerNext(a)
    PROVE  \A p \in Peer : LossInv(p)'
<1>1. CASE SendUrgent(a) \/ SendCommon(a)
  BY <1>1, SendersSend, LossSends
<1>2. CASE Resend(a)
  BY <1>2, LossResend
<1>3. CASE Parse(a)
  BY <1>3, LossParse
<1>4. CASE Finish(a)
  BY <1>4, LossFinish DEF NeverRaw
<1>5. CASE Push(a) \/ Expire(a) \/ SendNothing(a) \/ JoinEpoll(a) \/ Lose(a) \/ Receive(a)
  BY <1>5, LossIdle
<1> QED
  BY <1>1, <1>2, <1>3, <1>4, <1>5 DEF PeerNext, Send

LEMMA RawNext == ASSUME NeverRaw, [Next]_vars PROVE NeverRaw'
<1>1. ASSUME NEW a \in Peer, PeerNext(a) PROVE NeverRaw'
  <2>1. UNCHANGED raw \/ JoinEpoll(a)
    BY <1>1 DEF PeerNext, Send, Push, Expire, SendUrgent, SendCommon, SendNothing, Resend,
       ResendList, Receive, Lose, receiverVars, Finish, FinishRecvData, ReturnRecvToken,
       FinishRawData, Parse, ParseDiscardable, ParseDuplicate, ParseNext, ParseAhead,
       ParseCache, ParseIgnored, ParseFirst, ParseEarly, ProcessEarly, AdvanceLast,
       ProcessCached
  <2> QED
    BY <2>1 DEF NeverRaw, JoinEpoll
<1> QED
  BY <1>1 DEF Next, NeverRaw, vars, receiverVars

(* Both peers are set up before a datagram can reach them: none of them    *)
(* is a server's new connection whose first datagrams go through           *)
(* parseReceivedData (UDPServerConnection, initConnection).                *)
NoneStartsRaw == \A p \in Peer : ~RawStart[p]

LInv == DInv /\ NeverRaw /\ \A p \in Peer : LossInv(p)

LEMMA LInvInit == ASSUME NoneStartsRaw, Init PROVE LInv
<1>1. DInv /\ NeverRaw
  BY DInvInit DEF NoneStartsRaw, NeverRaw, Init
<1>2. ASSUME NEW p \in Peer PROVE LossInv(p)
  <2>1. Held(p) = {} /\ taken[p] = 0
    BY NothingHeld DEF Init
  <2> QED
    BY <2>1 DEF LossInv, TakenUp, Kept, Unexpired
<1> QED
  BY <1>1, <1>2 DEF LInv

LEMMA LInvNext == ASSUME LInv, [Next]_vars PROVE LInv'
<1>1. DInv /\ DInv' /\ NeverRaw /\ NeverRaw'
  BY DInvNext, RawNext DEF LInv
<1>2. ASSUME NEW a \in Peer, PeerNext(a) PROVE \A p \in Peer : LossInv(p)'
  <2>1. /\ TypeOK /\ TypeOK' /\ IInv
        /\ \A p \in Peer : HeldInv(p) /\ CacheInv(p) /\ LossInv(p)
    BY <1>1 DEF LInv, DInv, CopiesInv
  <2> QED
    BY <1>1, <1>2, <2>1, LossInvNext
<1>3. CASE UNCHANGED vars
  BY <1>1, <1>3 DEF LInv, LossInv, TakenUp, Kept, Unexpired, Obtained, Copies, Held, InDatagram,
     Processed, ReceivedSeqs, vars, senderVars, receiverVars
<1> QED
  BY <1>1, <1>2, <1>3 DEF LInv, Next

(* A reliable unit that left the queue is still kept for resending or was  *)
(* obtained by the peer, or its deadline has passed (UDPUnconformedMap,    *)
(* expireCheck, conformFeedbackSeqs).                                      *)
THEOREM UnitsNotLost ==
    ASSUME NoneStartsRaw
    PROVE  Spec => []NoLoss
<1>1. LInv => NoLoss
  BY DEF LInv, LossInv, Kept, Unexpired, NoLoss
<1>2. Init => LInv
  BY LInvInit
<1>3. LInv /\ [Next]_vars => LInv'
  BY LInvNext
<1> QED
  BY <1>1, <1>2, <1>3, PTL DEF Spec

-----------------------------------------------------------------------------
(* Order, where packages are parsed in order.                              *)

(* InOrderWhenOrdered, for the units of p.                                 *)
OrderInv(p) ==
    DataEncrypted =>
        \A u, v \in Reliable(p) :
            u < v /\ Copies(Other(p), v) > 0
               => u \in expired[p] \/ Copies(Other(p), u) > 0

(* No unit is missing that can only be in packages up to last: it would be *)
(* processed, for what is cached comes after last.                         *)
EarlierCopied(p, u) ==
    (/\ TypeOK /\ IInv /\ HeldInv(p) /\ LossInv(p) /\ CacheInv(Other(p)) /\ started[Other(p)]
     /\ u \in Unexpired(p, 1 .. taken[p])
     /\ \A h \in Held(p) : h.rel /\ u \in h.data => Index(p, h.seq) <= Index(p, last[Other(p)]))
    => Copies(Other(p), u) > 0

LEMMA EarlierProcessed ==
    ASSUME NEW p \in Peer, NEW u PROVE EarlierCopied(p, u)
<1> DEFINE q == Other(p)
<1> SUFFICES ASSUME TypeOK, IInv, HeldInv(p), LossInv(p), CacheInv(q), started[q],
                    u \in Unexpired(p, 1 .. taken[p]),
                    \A h \in Held(p) : h.rel /\ u \in h.data =>
                       Index(p, h.seq) <= Index(p, last[q])
             PROVE  Copies(q, u) > 0
  BY DEF EarlierCopied
<1>1. q \in Peer /\ Other(q) = p /\ last[q] \in SeqNum /\ Index(p, last[q]) \in Nat
  BY OtherPeer, PlacesType, IndexType
<1>2. u \in Reliable(p) /\ u \notin expired[p]
  BY DEF Unexpired
<1>3. \A c \in cache[q] : /\ c.rel /\ c \in Held(p) /\ c.seq \in SeqNum
                          /\ Index(p, c.seq) \in Nat
                          /\ Index(p, last[q]) < Index(p, c.seq)
  BY <1>1, HeldType, Numbers DEF CacheInv
<1>4. \A c \in cache[q] : u \notin c.data
  BY <1>1, <1>3
<1>5. ASSUME NEW h \in unconf[p], u \in h.data PROVE Copies(q, u) > 0
  <2>1. h \in Held(p) /\ h.rel /\ h.seq \in SeqNum
    BY HeldType DEF IInv, PeerInv, GenuineUnconfirmed, Package
  <2>2. Index(p, h.seq) <= Index(p, last[q])
    BY <1>5, <2>1
  <2>3. h.seq \in ReceivedSeqs(q)
    BY <1>1, <2>1, <2>2 DEF ReceivedSeqs, Index
  <2>4. h.seq \notin Seqs(cache[q])
    BY <1>1, <1>3, <2>2 DEF Seqs
  <2> QED
    BY <1>2, <1>5, <2>1, <2>3, <2>4 DEF Processed, LossInv, TakenUp, Unexpired
<1> QED
  BY <1>4, <1>5 DEF LossInv, Kept, Obtained

LEMMA EarlierProcessedNext ==
    ASSUME NEW CONSTANT p \in Peer, NEW CONSTANT u PROVE EarlierCopied(p, u)'
<1>1. EarlierCopied(p, u)
  BY EarlierProcessed
<1> QED
  BY <1>1, PTL

(* When no unit gets its first copy.                                       *)
LEMMA OrderKept ==
    ASSUME NEW p \in Peer, OrderInv(p), expired[p] \subseteq expired'[p],
           \A u \in AllUnits : Copies(Other(p), u) > 0 <=> Copies(Other(p), u)' > 0
    PROVE  OrderInv(p)'
  BY ReliableType DEF OrderInv

LEMMA OrderTakes ==
    ASSUME NEW CONSTANT p \in Peer, TypeOK, IInv, TypeOK', IInv', HeldInv(p), HeldInv(p)',
           LossInv(p)', CopyInv(p)', CacheInv(Other(p))', OrderInv(p),
           NEW g, Takes(Other(p), g), Held(p)' \subseteq Held(p),
           UNCHANGED <<delivered, expired>>
    PROVE  OrderInv(p)'
<1> DEFINE q == Other(p)
<1>1. q \in Peer /\ Other(q) = p
  BY OtherPeer
<1> SUFFICES ASSUME DataEncrypted, NEW CONSTANT u \in Reliable(p), NEW v \in Reliable(p),
                    u < v, Copies(q, v)' > 0, u \notin expired[p]
             PROVE  Copies(q, u)' > 0
  BY DEF OrderInv
<1>2. u \in AllUnits /\ v \in AllUnits /\ u \in Nat /\ v \in Nat /\ u >= 1
  BY ReliableType, PerPeerAssumption DEF Reliable, Unit
<1>3. CASE Copies(q, v) > 0
  <2>1. Copies(q, u) > 0
    BY <1>3 DEF OrderInv
  <2> QED
    BY <1>1, <1>2, <2>1, TakesCopies DEF CopiesStay
<1>4. CASE ~(Copies(q, v) > 0)
  <2>1. v \in g.data
    BY <1>2, <1>4 DEF Takes, Copies, ParseData
  <2>2. g \in Held(p) /\ g.rel
    BY <1>1, <2>1 DEF Takes, HeldInv, WellFormed, Reliable
  <2>3. started'[q] /\ last'[q] = g.seq
    BY <2>2 DEF Takes
  <2>4. v <= taken'[p] /\ taken'[p] \in Nat
    BY <1>2 DEF CopyInv, TypeOK, SenderTypeOK
  <2>5. u \in Unexpired(p, 1 .. taken[p])' /\ u <= v
    BY <1>2, <2>4 DEF Unexpired
  <2>6. \A h \in Held(p)' : h.rel /\ u \in h.data => Index(p, h.seq) <= Index(p, last'[q])
    BY <2>1, <2>2, <2>3, <2>5 DEF HeldInv, Consistent
  <2>7. EarlierCopied(p, u)'
    BY EarlierProcessedNext
  <2> QED
    BY <2>3, <2>5, <2>6, <2>7 DEF EarlierCopied, Index
<1> QED
  BY <1>3, <1>4

LEMMA OrderInvNext ==
    ASSUME NEW a \in Peer, LInv, LInv', \A p \in Peer : OrderInv(p), PeerNext(a)
    PROVE  \A p \in Peer : OrderInv(p)'
<1> DEFINE b == Other(a)
<1>1. /\ TypeOK /\ TypeOK' /\ IInv /\ IInv' /\ NeverRaw
      /\ \A p \in Peer : HeldInv(p) /\ CacheInv(p) /\ HeldInv(p)' /\ CacheInv(p)'
                           /\ CopyInv(p)' /\ LossInv(p)'
  BY DEF LInv, DInv, CopiesInv
<1>2. b \in Peer /\ b # a /\ Other(b) = a
  BY OtherPeer
<1>3. \A p \in Peer : expired[p] \subseteq expired'[p]
  BY <1>1, SenderGrows
<1>4. \A q \in Peer : KeptCounts(q) =>
         \A u \in AllUnits : Copies(q, u) > 0 <=> Copies(q, u)' > 0
  BY DEF KeptCounts, Copies
<1>5. CASE Parse(a)
  <2>1. OrderInv(a)'
    BY <1>1, <1>2, <1>3, <1>4, <1>5, ParseElsewhere, OrderKept
  <2>2. Skips(a) \/ \E g : Takes(a, g)
    BY <1>1, <1>2, <1>5, ParseTakesOrSkips
  <2>3. CASE Skips(a)
    <3>1. KeptCounts(a)
      BY <1>1, <1>5, <2>3, ParseElsewhere DEF Skips, KeptCounts
    <3> QED
      BY <1>2, <1>3, <1>4, <2>1, <3>1, OrderKept, BothPeers
  <2>4. ASSUME NEW g, Takes(a, g) PROVE OrderInv(b)'
    <3>1. UNCHANGED <<delivered, expired>> /\ Held(b)' \subseteq Held(b)
      BY <1>1, <1>2, <1>5, ParseElsewhere, ReceiverMoves, MovesHeld
    <3> QED
      BY <1>1, <1>2, <2>4, <3>1, OrderTakes
  <2> QED
    BY <2>1, <2>2, <2>3, <2>4, BothPeers
<1>6. CASE Finish(a)
  <2>1. \A u \in AllUnits : Copies(a, u) > 0 <=> Copies(a, u)' > 0
    <3> TAKE u \in AllUnits
    <3>1. Copies(a, u)' <= Copies(a, u) /\ Copies(a, u) \in Nat
      BY <1>1, <1>6, FinishCounts, CopiesType
    <3>2. Copies(a, u) > 0 => Copies(a, u)' > 0
      BY <1>1, <1>6, FinishCounts DEF NeverRaw
    <3>3. Copies(a, u)' \in Nat
      BY <1>1 DEF Copies, TypeOK, ReceiverTypeOK
    <3> QED
      BY <3>1, <3>2, <3>3
  <2>2. \A u \in AllUnits : Copies(b, u) > 0 <=> Copies(b, u)' > 0
    BY <1>1, <1>2, <1>4, <1>6, FinishCounts
  <2> QED
    BY <1>2, <1>3, <2>1, <2>2, OrderKept, BothPeers
<1>7. CASE ~Parse(a) /\ ~Finish(a)
  BY <1>3, <1>4, <1>7, OthersElsewhere, OtherPeer, OrderKept
<1> QED
  BY <1>5, <1>6, <1>7

OInv == LInv /\ \A p \in Peer : OrderInv(p)

LEMMA OInvInit == ASSUME NoneStartsRaw, Init PROVE OInv
<1>1. \A q \in Peer, u \in AllUnits : Copies(q, u) = 0
  BY DEF Init, Copies, NoUnits
<1>2. \A p \in Peer : OrderInv(p)
  BY <1>1, ReliableType, OtherPeer DEF OrderInv
<1> QED
  BY <1>2, LInvInit DEF OInv

LEMMA OInvNext == ASSUME OInv, [Next]_vars PROVE OInv'
<1>1. LInv /\ LInv'
  BY LInvNext DEF OInv
<1>2. ASSUME NEW a \in Peer, PeerNext(a) PROVE \A p \in Peer : OrderInv(p)'
  BY <1>1, <1>2, OrderInvNext DEF OInv
<1>3. CASE UNCHANGED vars
  BY <1>1, <1>3 DEF OInv, OrderInv, Copies, vars, senderVars, receiverVars
<1> QED
  BY <1>1, <1>2, <1>3 DEF OInv, Next

(* A peer that parses in order (the cache of disordered packages of        *)
(* ARQParser.v2.cpp) hands a reliable unit over only when it has handed    *)
(* over, or parsed, all the ones pushed before it that have not expired.   *)
THEOREM UnitsInOrder ==
    ASSUME NoneStartsRaw
    PROVE  Spec => []InOrderWhenOrdered
<1>1. OInv => InOrderWhenOrdered
  BY DEF OInv, OrderInv, InOrderWhenOrdered
<1>2. Init => OInv
  BY OInvInit
<1>3. OInv /\ [Next]_vars => OInv'
  BY OInvNext
<1> QED
  BY <1>1, <1>2, <1>3, PTL DEF Spec

-----------------------------------------------------------------------------
(* Refinement of ReliableDelivery.                                         *)

(* The counts of copies are kept small.                                    *)
SmallCounts ==
    \A q \in Peer : \A u \in AllUnits :
        parsed[q][u] <= CountBound /\ delivered[q][u] <= CountBound

LEMMA SmallCountsParse ==
    ASSUME NEW a \in Peer, TypeOK, IInv, CacheInv(a), HeldInv(Other(a)), SmallCounts, Parse(a)
    PROVE  SmallCounts'
<1>1. /\ \A x \in Peer : x # a => parsed'[x] = parsed[x]
      /\ delivered' = delivered
  BY ParseElsewhere DEF KeptCounts
<1>2. \A u \in AllUnits : parsed'[a][u] <= CountBound
  <2>1. parsed'[a] = parsed[a] \/ \E g : parsed'[a] = ParseData(parsed[a], g.data)
    BY ParseTakesOrSkips DEF Takes, Skips
  <2>2. ASSUME NEW g, parsed'[a] = ParseData(parsed[a], g.data), NEW u \in AllUnits
        PROVE  parsed'[a][u] <= CountBound
    <3>1. parsed[a][u] \in Nat /\ parsed[a][u] <= CountBound
      BY CountsNat DEF SmallCounts
    <3>2. parsed'[a][u] = IF u \in g.data THEN Counted(parsed[a][u] + 1) ELSE parsed[a][u]
      BY <2>2 DEF ParseData
    <3> QED
      BY <3>1, <3>2 DEF Counted, CountBound
  <2> QED
    BY <2>1, <2>2 DEF SmallCounts
<1> QED
  BY <1>1, <1>2 DEF SmallCounts

LEMMA SmallCountsFinish ==
    ASSUME NEW a \in Peer, TypeOK, SmallCounts, Finish(a)
    PROVE  SmallCounts'
<1>1. \A x \in Peer : x # a => parsed'[x] = parsed[x] /\ delivered'[x] = delivered[x]
  BY FinishCounts DEF KeptCounts
<1>2. /\ parsed'[a] = NoUnits \/ parsed'[a] = parsed[a]
      /\ \/ delivered'[a] = delivered[a]
         \/ delivered'[a] = [u \in AllUnits |-> Counted(delivered[a][u] + parsed[a][u])]
  <2>1. parsed \in [Peer -> [AllUnits -> Nat]] /\ delivered \in [Peer -> [AllUnits -> Nat]]
    BY DEF TypeOK, ReceiverTypeOK
  <2> QED
    BY <2>1 DEF Finish, FinishRecvData, ReturnRecvToken, FinishRawData, Deliver, parserVars
<1>3. ASSUME NEW u \in AllUnits
      PROVE  parsed'[a][u] <= CountBound /\ delivered'[a][u] <= CountBound
  <2>1. /\ parsed[a][u] \in Nat /\ delivered[a][u] \in Nat
        /\ parsed[a][u] <= CountBound /\ delivered[a][u] <= CountBound
    BY CountsNat DEF SmallCounts
  <2>2. parsed'[a][u] <= CountBound
    BY <1>2, <2>1 DEF NoUnits, CountBound
  <2>3. delivered'[a][u] <= CountBound
    BY <1>2, <2>1 DEF Counted, CountBound
  <2> QED
    BY <2>2, <2>3
<1> QED
  BY <1>1, <1>3 DEF SmallCounts

RInv == DInv /\ SmallCounts /\ (DataEncrypted => OInv)

LEMMA RInvInit == ASSUME DataEncrypted => NoneStartsRaw, Init PROVE RInv
<1>1. SmallCounts
  BY DEF Init, SmallCounts, NoUnits, CountBound
<1> QED
  BY <1>1, DInvInit, OInvInit DEF RInv

LEMMA RInvNext == ASSUME RInv, [Next]_vars PROVE RInv'
<1>1. DInv /\ DInv' /\ (DataEncrypted => OInv')
  BY DInvNext, OInvNext DEF RInv
<1>2. /\ TypeOK /\ IInv /\ SmallCounts
      /\ \A p \in Peer : HeldInv(p) /\ CacheInv(p) /\ Other(p) \in Peer
  BY <1>1, OtherPeer DEF RInv, DInv, CopiesInv
<1>3. ASSUME NEW a \in Peer, PeerNext(a) PROVE SmallCounts'
  <2>1. CASE Parse(a)
    BY <1>2, <2>1, SmallCountsParse
  <2>2. CASE Finish(a)
    BY <1>2, <2>2, SmallCountsFinish
  <2>3. CASE ~Parse(a) /\ ~Finish(a)
    BY <1>2, <1>3, <2>3, OthersElsewhere DEF KeptCounts, SmallCounts
  <2> QED
    BY <2>1, <2>2, <2>3
<1>4. CASE UNCHANGED vars
  BY <1>1, <1>2, <1>4 DEF RInv, SmallCounts, vars, receiverVars
<1> QED
  BY <1>1, <1>3, <1>4 DEF RInv, Next

(* The names of the abstract specification.                                *)
LEMMA DeliveryNames ==
    /\ Delivery!Numbers = AllUnits
    /\ \A p \in Peer : Delivery!Sender(p) = Other(p) /\ Delivery!Reliably(p) = Reliable(p)
    /\ \A n : Delivery!UpTo2(n) = Counted(n)
<1>1. Delivery!Numbers = AllUnits
  BY DEF Delivery!Numbers, AllUnits, Unit
<1>2. \A p \in Peer : Delivery!Sender(p) = Other(p)
  BY DEF Delivery!Sender, Other
<1>3. \A p \in Peer : Delivery!Reliably(p) = Reliable(p)
  BY DEF Delivery!Reliably, Reliable, Unit
<1>4. \A n : Delivery!UpTo2(n) = Counted(n)
  BY DEF Delivery!UpTo2, Counted, CountBound
<1> QED
  BY <1>1, <1>2, <1>3, <1>4

(* The end of a datagram hands the units parsed over, all together.        *)
LEMMA DeliverRefines ==
    ASSUME NEW a \in Peer, RInv, Deliver(a), UNCHANGED <<pushed, expired>>
    PROVE  Delivery!HandOver(a)
<1> DEFINE p == Other(a)
           D == {u \in AllUnits : parsed[a][u] > 0}
           n == [u \in D |-> parsed[a][u]]
           Have == D \cup {u \in Reliable(p) : delivered[a][u] > 0}
<1>1. p \in Peer /\ Other(p) = a
  BY OtherPeer
<1>2. /\ TypeOK /\ CopyInv(p) /\ SmallCounts
      /\ DataEncrypted => OrderInv(p)
  BY <1>1 DEF RInv, DInv, CopiesInv, OInv
<1>3. \A u \in AllUnits : /\ parsed[a][u] \in 0 .. 2 /\ delivered[a][u] \in 0 .. 2
                          /\ Copies(a, u) = delivered[a][u] + parsed[a][u]
  BY <1>2, CountsNat DEF SmallCounts, CountBound, Copies
<1>4. taken[p] \in Nat /\ pushed[p] \in Nat /\ taken[p] <= pushed[p] /\ pushed[p] <= MaxUnits[p]
      /\ MaxUnits[p] \in Nat
  BY <1>1, <1>2, PerPeerAssumption DEF TypeOK, SenderTypeOK
<1>5. AllUnits \subseteq Nat \ {0} /\ Reliable(p) \subseteq AllUnits
  BY <1>1, PerPeerAssumption, ReliableType DEF AllUnits, Unit
<1>6. D \subseteq 1 .. pushed[p]
  <2> SUFFICES ASSUME NEW u \in AllUnits, parsed[a][u] > 0 PROVE u \in 1 .. pushed[p]
    OBVIOUS
  <2>1. Copies(a, u) > 0
    BY <1>3
  <2>2. u <= taken[p]
    BY <1>1, <1>2, <2>1 DEF CopyInv
  <2> QED
    BY <1>4, <1>5, <2>2
<1>7. \A u \in D \cap Reliable(p) : delivered[a][u] = 0 /\ n[u] = 1
  <2> TAKE u \in D \cap Reliable(p)
  <2>1. Copies(a, u) <= 1 /\ parsed[a][u] > 0
    BY <1>1, <1>2 DEF CopyInv
  <2> QED
    BY <1>3, <2>1
<1>8. DataEncrypted =>
         \A v \in D, u \in Reliable(p) :
            u < v => u \in Have \cup expired[p] \/ v \in Discardable[p]
  <2> SUFFICES ASSUME DataEncrypted, NEW v \in D, NEW u \in Reliable(p), u < v,
                      v \notin Discardable[p], u \notin expired[p]
               PROVE  u \in Have
    OBVIOUS
  <2>1. v \in Reliable(p)
    BY <1>4, <1>6 DEF Reliable, Unit
  <2>2. Copies(a, v) > 0
    BY <1>3
  <2>3. Copies(a, u) > 0
    BY <1>1, <1>2, <2>1, <2>2 DEF OrderInv
  <2>4. u \in AllUnits /\ (parsed[a][u] > 0 \/ delivered[a][u] > 0)
    BY <1>3, <1>5, <2>3
  <2> QED
    BY <2>4
<1>9. n \in [D -> 1 .. 2]
  BY <1>3
<1>10. delivered' = [delivered EXCEPT ![a] =
          [u \in AllUnits |-> IF u \in D THEN Counted(@[u] + n[u]) ELSE @[u]]]
  <2>1. \A u \in AllUnits : u \notin D =>
           Counted(delivered[a][u] + parsed[a][u]) = delivered[a][u]
    BY <1>3 DEF Counted, CountBound
  <2>2. [u \in AllUnits |-> Counted(delivered[a][u] + parsed[a][u])] =
        [u \in AllUnits |-> IF u \in D THEN Counted(delivered[a][u] + n[u])
                                       ELSE delivered[a][u]]
    BY <2>1
  <2> QED
    BY <2>2 DEF Deliver
<1> HIDE DEF D, n
<1>11. /\ D \in SUBSET (1 .. pushed[p])
       /\ \A u \in D \cap Reliable(p) : delivered[a][u] = 0
       /\ \A u \in D \cap Reliable(p) : n[u] = 1
  BY <1>6, <1>7
<1>12. \E E \in SUBSET (1 .. pushed[p]) :
          /\ \A u \in E \cap Reliable(p) : delivered[a][u] = 0
          /\ DataEncrypted =>
                \A v \in E, u \in Reliable(p) :
                   u < v => u \in (E \cup {w \in Reliable(p) : delivered[a][w] > 0})
                                  \cup expired[p] \/ v \in Discardable[p]
          /\ \E m \in [E -> 1 .. 2] :
                /\ \A u \in E \cap Reliable(p) : m[u] = 1
                /\ delivered' = [delivered EXCEPT ![a] =
                      [u \in AllUnits |-> IF u \in E THEN Counted(@[u] + m[u]) ELSE @[u]]]
  BY <1>8, <1>9, <1>10, <1>11
<1> QED
  BY <1>12 DEF Delivery!HandOver, Delivery!Sender, Delivery!Reliably, Delivery!Numbers,
     Delivery!UpTo2, Other, Reliable, AllUnits, Unit, Counted, CountBound

LEMMA DeliveryStep ==
    ASSUME RInv, [Next]_vars
    PROVE  [Delivery!Next]_<<pushed, expired, delivered>>
<1>1. CASE UNCHANGED vars
  BY <1>1 DEF vars, senderVars, receiverVars
<1>2. ASSUME NEW a \in Peer, PeerNext(a) PROVE [Delivery!Next]_<<pushed, expired, delivered>>
  <2>1. CASE Push(a)
    <3>1. Delivery!Accept(a)
      BY <2>1 DEF Push, receiverVars, Delivery!Accept
    <3> QED
      BY <3>1 DEF Delivery!Next
  <2>2. CASE Expire(a)
    <3>1. Delivery!PassDeadline(a)
      BY <2>2 DEF Expire, receiverVars, Delivery!PassDeadline
    <3> QED
      BY <3>1 DEF Delivery!Next
  <2>3. CASE Finish(a)
    <3>1. UNCHANGED <<pushed, expired>> /\ (Deliver(a) \/ UNCHANGED delivered)
      BY <2>3 DEF Finish, FinishRecvData, ReturnRecvToken, FinishRawData, senderVars
    <3>2. Deliver(a) => Delivery!HandOver(a)
      BY <3>1, DeliverRefines
    <3> QED
      BY <3>1, <3>2 DEF Delivery!Next
  <2>4. CASE Parse(a)
    <3>1. UNCHANGED <<pushed, expired, delivered>>
      BY <2>4, ParseElsewhere DEF RInv, DInv
    <3> QED
      BY <3>1
  <2>5. CASE Send(a) \/ Receive(a) \/ JoinEpoll(a) \/ Lose(a)
    BY <2>5 DEF Send, SendUrgent, SendCommon, SendNothing, Resend, ResendList, Receive,
       JoinEpoll, Lose, senderVars, receiverVars
  <2> QED
    BY <1>2, <2>1, <2>2, <2>3, <2>4, <2>5 DEF PeerNext
<1> QED
  BY <1>1, <1>2 DEF Next

(* The connection implements reliable delivery: each step of the engine is *)
(* a unit pushed, a deadline passed, units handed over together as         *)
(* ReliableDelivery allows, or nothing its users see.  Where packages are  *)
(* parsed in order, the peers start on recvData.                           *)
THEOREM EngineImplementsDelivery ==
    ASSUME DataEncrypted => NoneStartsRaw
    PROVE  Spec => ImplementsDelivery
<1>1. Init => Delivery!Init
  BY DeliveryNames DEF Init, NoUnits, Delivery!Init
<1>2. Init => RInv
  BY RInvInit
<1>3. RInv /\ [Next]_vars => RInv'
  BY RInvNext
<1>4. RInv /\ [Next]_vars => [Delivery!Next]_<<pushed, expired, delivered>>
  BY DeliveryStep
<1> QED
  BY <1>1, <1>2, <1>3, <1>4, PTL DEF Spec, ImplementsDelivery, Delivery!Spec

-----------------------------------------------------------------------------
(* The limits of the cache.                                                *)

(* A session ends before its numbers wrap.                                 *)
NoWrap == \A p \in Peer : BaseSeq[p] + MaxPackages < SeqSpace

(* The limits fit together: the parser may cache what the flow control of  *)
(* its peer lets go before the first package arrives; and its check of     *)
(* numbers, exact but across the wrap, keeps what it caches later within   *)
(* the tolerance, or the session is that short.  (In Config.h: 320         *)
(* unconfirmed packages, 500 before the first package, 10000 after it.)    *)
LimitsFit ==
    /\ UnconfirmedLimit <= EarlyTolerance + 1
    /\ DataEncrypted =>
          \/ MaxPackages <= Tolerance + 2
          \/ NoWrap /\ Tolerance > 0 /\ UnconfirmedLimit <= Tolerance + 1

(* What q caches is near enough to the last number processed.              *)
Near(q, s) ==
    Index(Other(q), s) <= (IF started[q] THEN Index(Other(q), last[q]) ELSE 0) + Tolerance

NearInv(q) == DataEncrypted => \A c \in cache[q] : Near(q, c.seq)

(* Packages with different numbers from lo to hi.                          *)
LEMMA CountedNumbers ==
    ASSUME NEW p \in Peer, NEW S \in SUBSET Package, NEW lo \in Int, NEW hi \in Int,
           \A g \in S : lo <= Index(p, g.seq) /\ Index(p, g.seq) <= hi,
           \A g, h \in S : g.seq = h.seq => g = h
    PROVE  /\ IsFiniteSet(S) /\ Cardinality(S) \in Nat
           /\ Cardinality(S) <= IF lo > hi THEN 0 ELSE hi - lo + 1
<1> DEFINE f == [g \in S |-> Index(p, g.seq)]
<1>1. \A g \in S : g.seq \in SeqNum /\ Index(p, g.seq) \in Int
  BY IndexType DEF Package
<1>2. f \in [S -> lo .. hi]
  BY <1>1
<1>3. \A g, h \in S : f[g] = f[h] => g = h
  BY <1>1, IndexSame
<1> HIDE DEF f
<1>4. f \in Injection(S, lo .. hi)
  BY <1>2, <1>3 DEF Injection, IsInjective
<1>5. IsFiniteSet(lo .. hi) /\ Cardinality(lo .. hi) = IF lo > hi THEN 0 ELSE hi - lo + 1
  BY FS_Interval
<1>6. IsFiniteSet(S) /\ Cardinality(S) <= Cardinality(lo .. hi)
  BY <1>4, <1>5, FS_Injection
<1> QED
  BY <1>5, <1>6, FS_CardinalityType

(* Until the first package arrives none is confirmed, so few are sent.     *)
LEMMA FewBeforeFirst ==
    ASSUME NEW q \in Peer, TypeOK, IInv, Bounded, ~started[q]
    PROVE  Index(Other(q), nextSeq[Other(q)]) <= UnconfirmedLimit
<1> DEFINE b == Other(q)
           N == Index(b, nextSeq[b])
           U == unconf[b]
           T == {Index(b, g.seq) : g \in U}
           f == [g \in U |-> Index(b, g.seq)]
<1>1. b \in Peer /\ Other(b) = q /\ BaseSeq[b] \in SeqNum
  BY OtherPeer, PerPeerAssumption
<1>2. ReceivedSeqs(q) = {}
  BY DEF ReceivedSeqs
<1>3. SentSeqs(b) \subseteq Seqs(U)
  BY <1>1, <1>2 DEF IInv, PeerInv, Accounted
<1>4. N \in Nat /\ U \subseteq Package /\ N <= SeqSpace - 1
  BY <1>1, PlacesType, IndexType, SeqSpaceAssumption
<1>5. 0 .. N - 1 \subseteq T
  <2> SUFFICES ASSUME NEW i \in 0 .. N - 1 PROVE i \in T
    OBVIOUS
  <2> DEFINE s == Add(BaseSeq[b], i)
  <2>1. i \in Nat /\ i < N /\ i < SeqSpace
    BY <1>4, SeqSpaceAssumption
  <2>2. s \in SeqNum /\ Sub(s, BaseSeq[b]) = i
    BY <1>1, <2>1, SeqSpaceAssumption DEF Add, Sub, SeqNum
  <2> HIDE DEF s
  <2>3. s \in SentSeqs(b)
    BY <2>1, <2>2 DEF SentSeqs, Index
  <2>4. PICK g \in U : g.seq = s
    BY <1>3, <2>3 DEF Seqs
  <2> QED
    BY <2>2, <2>4 DEF Index
<1>6. IsFiniteSet(U) /\ Cardinality(U) <= UnconfirmedLimit
  BY <1>1 DEF Bounded, BoundedSet
<1> HIDE DEF U, N
<1>7. f \in Surjection(U, T)
  BY DEF Surjection
<1> HIDE DEF f, T
<1>8. IsFiniteSet(T) /\ Cardinality(T) <= Cardinality(U)
  BY <1>6, <1>7, FS_Surjection
<1>9. Cardinality(0 .. N - 1) <= Cardinality(T)
  BY <1>5, <1>8, FS_Subset
<1>10. Cardinality(0 .. N - 1) = N
  BY <1>4, FS_Interval
<1>11. Cardinality(T) \in Nat /\ Cardinality(U) \in Nat /\ UnconfirmedLimit \in Nat
  BY <1>6, <1>8, FS_CardinalityType, LimitAssumption
<1>12. N <= UnconfirmedLimit
  BY <1>4, <1>6, <1>8, <1>9, <1>10, <1>11
<1> QED
  BY <1>12 DEF N

(* The numbers of what is not a first package, but is of this session.     *)
LEMMA NotFirstNumber ==
    ASSUME NEW q \in Peer, TypeOK, IInv, HeldInv(Other(q)), NEW g \in Held(Other(q)),
           g.rel, ~g.first
    PROVE  /\ g \in Package /\ g.seq \in SeqNum
           /\ Index(Other(q), g.seq) \in Nat /\ Index(Other(q), g.seq) >= 1
           /\ Index(Other(q), nextSeq[Other(q)]) \in Nat
           /\ Index(Other(q), g.seq) <= Index(Other(q), nextSeq[Other(q)]) - 1
           /\ Index(Other(q), g.seq) <= MaxPackages - 1
<1> DEFINE b == Other(q)
<1>1. b \in Peer /\ BaseSeq[b] \in SeqNum /\ nextSeq[b] \in SeqNum
  BY OtherPeer, PlacesType, PerPeerAssumption
<1>2. g \in Package /\ g.seq \in SeqNum /\ Index(b, g.seq) < Index(b, nextSeq[b])
  BY <1>1, HeldType, HeldNumbered
<1>3. Index(b, g.seq) \in Nat /\ Index(b, nextSeq[b]) \in Nat
  BY <1>1, <1>2, IndexType
<1>4. g.seq # BaseSeq[b]
  BY DEF HeldInv, WellFormed
<1>5. Index(b, BaseSeq[b]) = 0
  BY <1>1, SeqSpaceAssumption DEF Index, Sub, SeqNum
<1>6. Index(b, g.seq) # 0
  BY <1>1, <1>2, <1>4, <1>5, IndexSame
<1>7. Index(b, nextSeq[b]) <= MaxPackages /\ MaxPackages \in Nat
  BY <1>1, WindowAssumption DEF IInv, PeerInv, InWindow
<1> QED
  BY <1>2, <1>3, <1>6, <1>7

LEMMA CachedNumber ==
    ASSUME NEW q \in Peer, TypeOK, IInv, HeldInv(Other(q)), CacheInv(q), NEW c \in cache[q]
    PROVE  c \in Held(Other(q)) /\ c.rel /\ ~c.first
  BY OtherPeer, HeldType, Numbers DEF CacheInv

(* The check of numbers is exact while they do not wrap.                   *)
LEMMA ToleratedNear ==
    ASSUME NEW p \in Peer, NoWrap, Tolerance > 0, NEW s \in SeqNum, NEW l \in SeqNum,
           Index(p, s) <= MaxPackages, Index(p, l) < Index(p, s),
           WithinTolerance(s, l, Tolerance)
    PROVE  Index(p, s) <= Index(p, l) + Tolerance
<1>1. /\ BaseSeq[p] \in Nat /\ BaseSeq[p] + MaxPackages < SeqSpace /\ MaxPackages \in Nat
      /\ SeqSpace \in Nat /\ Tolerance \in Nat /\ Tolerance < SeqSpace
  BY PerPeerAssumption, WindowAssumption, SeqSpaceAssumption, LimitAssumption
     DEF NoWrap, SeqNum
<1>2. s \in Nat /\ s < SeqSpace /\ l \in Nat /\ l < SeqSpace
  BY SeqSpaceAssumption DEF SeqNum
<1>3. s >= BaseSeq[p] /\ Index(p, s) = s - BaseSeq[p]
  BY <1>1, <1>2 DEF Index, Sub
<1>4. l >= BaseSeq[p] /\ Index(p, l) = l - BaseSeq[p]
  BY <1>1, <1>2, <1>3 DEF Index, Sub
<1> QED
  BY <1>1, <1>2, <1>3, <1>4 DEF WithinTolerance, Add

(* The branch of LimitsFit in which the check of numbers is needed.        *)
ReachFits == NoWrap /\ Tolerance > 0 /\ UnconfirmedLimit <= Tolerance + 1

LEMMA NearKept == ASSUME NEW q \in Peer, KeptTrack(q), NearInv(q) PROVE NearInv(q)'
  BY DEF KeptTrack, NearInv, Near, Index

(* A step that moves last on and caches nothing keeps the cache near.      *)
LEMMA NearMoves ==
    ASSUME NEW q \in Peer, TypeOK, IInv, NearInv(q), started[q], started'[q],
           last'[q] = last[q] \/ last'[q] = Next1(last[q]), cache'[q] \subseteq cache[q]
    PROVE  NearInv(q)'
<1> DEFINE b == Other(q)
<1>1. /\ Index(b, last[q]) \in Nat
      /\ Index(b, Next1(last[q])) = Index(b, last[q]) + 1
      /\ \A c \in cache[q] : Index(b, c.seq) \in Nat
  BY Numbers
<1>2. Index(b, last'[q]) >= Index(b, last[q]) /\ Index(b, last'[q]) \in Nat
  BY <1>1
<1>3. ASSUME DataEncrypted, NEW c \in cache'[q]
      PROVE  Index(b, c.seq) <= Index(b, last'[q]) + Tolerance
  <2>1. Index(b, c.seq) <= Index(b, last[q]) + Tolerance
    BY <1>3 DEF NearInv, Near
  <2> QED
    BY <1>1, <1>2, <1>3, <2>1, LimitAssumption
<1> QED
  BY <1>3 DEF NearInv, Near, Index

LEMMA NearParseCache ==
    ASSUME ReachFits, NEW q \in Peer, TypeOK, IInv, HeldInv(Other(q)), NearInv(q),
           ParseCache(q)
    PROVE  NearInv(q)'
<1> DEFINE g == Head(rx[q])
           b == Other(q)
<1>1. /\ CanParse(q) /\ g.rel /\ started[q] /\ Ahead(g.seq, last[q])
      /\ WithinTolerance(g.seq, last[q], Tolerance) /\ UNCHANGED <<started, last>>
      /\ cache' = cache \/ cache' = [cache EXCEPT ![q] = @ \cup {g}]
  BY DEF ParseCache, IsGap, Tolerated
<1>2. b \in Peer /\ g.seq \in SeqNum /\ Index(b, g.seq) <= MaxPackages
  BY <1>1, OtherPeer, HeadFacts
<1>3. cache'[q] \subseteq cache[q] \cup {g}
  BY <1>1 DEF TypeOK, ReceiverTypeOK
<1> HIDE DEF g
<1>4. /\ last[q] \in SeqNum /\ Index(b, g.seq) \in Nat /\ Index(b, last[q]) \in Nat
      /\ Index(b, last[q]) < Index(b, g.seq)
  BY <1>1, <1>2, Numbers
<1>5. Index(b, g.seq) <= Index(b, last[q]) + Tolerance
  BY <1>1, <1>2, <1>4, ToleratedNear DEF ReachFits
<1> QED
  BY <1>1, <1>3, <1>5 DEF NearInv, Near, Index

LEMMA NearParseEarly ==
    ASSUME ReachFits, NEW q \in Peer, TypeOK, IInv, Bounded, HeldInv(Other(q)), NearInv(q),
           ParseEarly(q)
    PROVE  NearInv(q)'
<1> DEFINE g == Head(rx[q])
           b == Other(q)
<1>1. /\ CanParse(q) /\ g.rel /\ ~started[q] /\ ~g.first /\ UNCHANGED <<started, last>>
      /\ \/ cache' = [cache EXCEPT ![q] = @]
         \/ cache' = [cache EXCEPT ![q] = @ \cup {g}]
  BY DEF ParseEarly
<1>2. g \in Held(b)
  BY <1>1, HeadFacts
<1>3. cache'[q] \subseteq cache[q] \cup {g}
  BY <1>1 DEF TypeOK, ReceiverTypeOK
<1> HIDE DEF g
<1>4. /\ Index(b, g.seq) \in Nat /\ Index(b, nextSeq[b]) \in Nat
      /\ Index(b, g.seq) <= Index(b, nextSeq[b]) - 1
  BY <1>1, <1>2, NotFirstNumber
<1>5. Index(b, nextSeq[b]) <= UnconfirmedLimit
  BY <1>1, FewBeforeFirst
<1>6. Index(b, g.seq) <= 0 + Tolerance
  BY <1>4, <1>5, LimitAssumption DEF ReachFits
<1> QED
  BY <1>1, <1>3, <1>6 DEF NearInv, Near, Index

LEMMA NearParse ==
    ASSUME ReachFits, NEW q \in Peer, TypeOK, IInv, Bounded, HeldInv(Other(q)), NearInv(q),
           Parse(q)
    PROVE  NearInv(q)'
<1>1. CASE ~DataEncrypted
  BY <1>1 DEF NearInv
<1>2. CASE ParseDiscardable(q) \/ ParseDuplicate(q) \/ ParseIgnored(q)
  BY <1>2, NearKept DEF ParseDiscardable, ParseDuplicate, ParseIgnored, parserVars, KeptTrack
<1>3. CASE ParseNext(q) \/ ProcessCached(q)
  <2>1. /\ started[q] /\ started' = started
        /\ last' = [last EXCEPT ![q] = Next1(last[q])]
        /\ \/ cache' = cache
           \/ \E g \in cache[q] : cache' = [cache EXCEPT ![q] = @ \ {g}]
    BY <1>3 DEF ParseNext, ProcessCached, RunPending
  <2>2. last'[q] = Next1(last[q]) /\ cache'[q] \subseteq cache[q] /\ started'[q]
    BY <2>1 DEF TypeOK, ReceiverTypeOK
  <2> QED
    BY <2>1, <2>2, NearMoves
<1>4. CASE ParseCache(q)
  BY <1>4, NearParseCache
<1>5. CASE ParseEarly(q)
  BY <1>5, NearParseEarly
<1>6. CASE ParseFirst(q)
  <2> DEFINE g == Head(rx[q])
             b == Other(q)
  <2>1. /\ CanParse(q) /\ g.first /\ ~started[q] /\ UNCHANGED cache
        /\ g.rel /\ started' = [started EXCEPT ![q] = TRUE]
        /\ last' = [last EXCEPT ![q] = g.seq]
    BY <1>6 DEF ParseFirst
  <2>2. g.seq = BaseSeq[b] /\ BaseSeq[b] \in SeqNum
    BY <2>1, OtherPeer, HeadFacts, PerPeerAssumption DEF WellFormed
  <2>3. started'[q] /\ last'[q] = g.seq /\ cache'[q] = cache[q]
    BY <2>1 DEF TypeOK, ReceiverTypeOK
  <2> HIDE DEF g
  <2>4. Index(b, g.seq) = 0
    BY <2>2, SeqSpaceAssumption DEF Index, Sub, SeqNum
  <2> QED
    BY <2>1, <2>3, <2>4 DEF NearInv, Near, Index
<1>7. CASE DataEncrypted /\ (ParseAhead(q) \/ ProcessEarly(q) \/ AdvanceLast(q))
  BY <1>7 DEF ParseAhead, ProcessEarly, EarlyPending, AdvanceLast
<1> QED
  BY <1>1, <1>2, <1>3, <1>4, <1>5, <1>6, <1>7 DEF Parse

(* What is cached behind a gap, and the first package of the gap, have     *)
(* numbers past last that fit into the tolerance.                          *)
LEMMA CacheFits ==
    ASSUME LimitsFit, NEW q \in Peer, TypeOK, IInv, HeldInv(Other(q)), CacheInv(q),
           ReachFits => NearInv(q), DataEncrypted, started[q], ~RunPending(q)
    PROVE  Cardinality(cache[q]) \in Nat /\ Cardinality(cache[q]) <= Tolerance
<1> DEFINE b  == Other(q)
           lo == Index(b, last[q]) + 2
           hi == IF ReachFits THEN Index(b, last[q]) + Tolerance ELSE MaxPackages - 1
<1>1. /\ b \in Peer /\ cache[q] \subseteq Package /\ Index(b, last[q]) \in Nat
      /\ Next1(last[q]) \in SeqNum /\ Index(b, Next1(last[q])) = Index(b, last[q]) + 1
      /\ \A c \in cache[q] : Index(b, c.seq) \in Nat /\ c.seq \in SeqNum
  BY OtherPeer, Numbers
<1>2. Tolerance \in Nat /\ MaxPackages \in Nat
  BY LimitAssumption, WindowAssumption
<1>3. ASSUME NEW c \in cache[q] PROVE lo <= Index(b, c.seq) /\ Index(b, c.seq) <= hi
  <2>1. Index(b, last[q]) < Index(b, c.seq)
    BY DEF CacheInv
  <2>2. c.seq # Next1(last[q])
    BY DEF RunPending, Seqs
  <2>3. Index(b, c.seq) # Index(b, last[q]) + 1
    BY <1>1, <2>2, Numbers
  <2>4. Index(b, c.seq) <= MaxPackages - 1
    BY CachedNumber, NotFirstNumber
  <2>5. ReachFits => Index(b, c.seq) <= Index(b, last[q]) + Tolerance
    BY DEF NearInv, Near
  <2> QED
    BY <1>1, <2>1, <2>3, <2>4, <2>5
<1>4. lo \in Int /\ hi \in Int
  BY <1>1, <1>2
<1>5. \A g, h \in cache[q] : g.seq = h.seq => g = h
  BY DEF CacheInv
<1>6. IF lo > hi THEN Cardinality(cache[q]) <= 0 ELSE Cardinality(cache[q]) <= hi - lo + 1
  <2> HIDE DEF lo, hi
  <2> QED
    BY <1>1, <1>3, <1>4, <1>5, CountedNumbers
<1>7. Cardinality(cache[q]) \in Nat
  <2> HIDE DEF lo, hi
  <2> QED
    BY <1>1, <1>3, <1>4, <1>5, CountedNumbers
<1>8. CASE ReachFits
  BY <1>1, <1>2, <1>6, <1>7, <1>8
<1>9. CASE ~ReachFits
  <2>1. MaxPackages <= Tolerance + 2
    BY <1>9 DEF LimitsFit, ReachFits
  <2> QED
    BY <1>1, <1>2, <1>6, <1>7, <1>9, <2>1
<1> QED
  BY <1>8, <1>9

(* What is cached before the first package arrives, and one package more,  *)
(* have numbers below the number of packages sent.                         *)
LEMMA EarlyFits ==
    ASSUME LimitsFit, NEW q \in Peer, TypeOK, IInv, Bounded, HeldInv(Other(q)), CacheInv(q),
           ~started[q], NEW g \in Held(Other(q)), g.rel, ~g.first,
           g.seq \notin Seqs(cache[q])
    PROVE  ~EarlyFull(q)
<1> DEFINE b == Other(q)
           S == cache[q] \cup {g}
           N == Index(b, nextSeq[b])
<1>1. b \in Peer /\ cache[q] \subseteq Package /\ g \in Package
  BY OtherPeer, Numbers, NotFirstNumber
<1>2. ASSUME NEW c \in S PROVE 1 <= Index(b, c.seq) /\ Index(b, c.seq) <= N - 1
  BY <1>2, CachedNumber, NotFirstNumber
<1>3. N \in Nat /\ N <= UnconfirmedLimit
  BY NotFirstNumber, FewBeforeFirst
<1>4. \A x, y \in S : x.seq = y.seq => x = y
  BY DEF CacheInv, Seqs
<1>5. S \in SUBSET Package
  BY <1>1
<1>6. /\ IsFiniteSet(S) /\ Cardinality(S) \in Nat
      /\ Cardinality(S) <= IF 1 > N - 1 THEN 0 ELSE (N - 1) - 1 + 1
  <2> HIDE DEF S, N
  <2> QED
    BY <1>1, <1>2, <1>3, <1>4, <1>5, CountedNumbers
<1>7. IsFiniteSet(cache[q]) /\ g \notin cache[q]
  BY <1>6, FS_Subset DEF Seqs
<1>8. Cardinality(S) = Cardinality(cache[q]) + 1 /\ Cardinality(cache[q]) \in Nat
  BY <1>7, FS_AddElement, FS_CardinalityType
<1>9. UnconfirmedLimit <= EarlyTolerance + 1
      /\ UnconfirmedLimit \in Nat /\ EarlyTolerance \in Nat
  BY LimitAssumption DEF LimitsFit
<1> HIDE DEF S, N
<1> QED
  BY <1>3, <1>6, <1>8, <1>9 DEF EarlyFull

(* No step closes the connection.                                          *)
LEMMA ParseKeepsOpen ==
    ASSUME LimitsFit, NEW q \in Peer, TypeOK, IInv, Bounded, HeldInv(Other(q)), CacheInv(q),
           ReachFits => NearInv(q), Parse(q)
    PROVE  closed' = closed \/ closed' = [closed EXCEPT ![q] = FALSE]
<1>1. CASE ParseCache(q)
  <2>1. DataEncrypted /\ started[q] /\ ~RunPending(q)
    BY <1>1 DEF ParseCache, CanParse, IsGap
  <2>2. Cardinality(cache[q]) \in Nat /\ Cardinality(cache[q]) <= Tolerance
    BY <2>1, CacheFits
  <2>3. ~(Cardinality(cache[q]) > Tolerance)
    BY <2>2, LimitAssumption
  <2> QED
    BY <1>1, <2>3 DEF ParseCache
<1>2. CASE ParseEarly(q)
  <2> DEFINE g == Head(rx[q])
  <2>1. /\ CanParse(q) /\ g.rel /\ ~started[q] /\ ~g.first
        /\ closed' = [closed EXCEPT ![q] = g.seq \notin Seqs(cache[q]) /\ EarlyFull(q)]
    BY <1>2 DEF ParseEarly
  <2>2. g \in Held(Other(q))
    BY <2>1, HeadFacts
  <2> HIDE DEF g
  <2>3. (g.seq \notin Seqs(cache[q]) /\ EarlyFull(q)) = FALSE
    BY <2>1, <2>2, EarlyFits
  <2> QED
    BY <2>1, <2>3
<1>3. CASE ~ParseCache(q) /\ ~ParseEarly(q)
  BY <1>3 DEF Parse, ParseDiscardable, ParseDuplicate, ParseNext, ParseAhead, ParseIgnored,
     ParseFirst, ProcessEarly, AdvanceLast, ProcessCached
<1> QED
  BY <1>1, <1>2, <1>3

LEMMA OpenElsewhere ==
    ASSUME NEW a \in Peer, PeerNext(a), ~Parse(a) PROVE UNCHANGED closed
  BY DEF PeerNext, Send, Push, Expire, SendUrgent, SendCommon, SendNothing, Resend,
     ResendList, Receive, JoinEpoll, Lose, receiverVars, Finish, FinishRecvData,
     ReturnRecvToken, FinishRawData

(* The inductive invariant.                                                *)
CloseInv ==
    /\ DInv /\ Bounded
    /\ ReachFits => \A q \in Peer : NearInv(q)
    /\ NoSpuriousClose

LEMMA CloseInvInit == ASSUME Init PROVE CloseInv
<1>1. Bounded
  <2>1. BoundedSet({})
    BY FS_EmptySet, LimitAssumption DEF BoundedSet
  <2> QED
    BY <2>1 DEF Init, Bounded
<1>2. \A q \in Peer : NearInv(q)
  BY DEF Init, NearInv
<1> QED
  BY <1>1, <1>2, DInvInit DEF CloseInv, Init, NoSpuriousClose

LEMMA CloseInvNext == ASSUME LimitsFit, CloseInv, [Next]_vars PROVE CloseInv'
<1>1. DInv' /\ Bounded' /\ TypeOK /\ IInv
  BY DInvNext, NextBounded DEF CloseInv, DInv
<1>2. \A p \in Peer : HeldInv(p) /\ CacheInv(p)
  BY DEF CloseInv, DInv, CopiesInv
<1>3. ASSUME NEW a \in Peer, PeerNext(a)
      PROVE  /\ ReachFits => \A q \in Peer : NearInv(q)'
             /\ NoSpuriousClose'
  <2>1. CASE Parse(a)
    <3>1. ReachFits => NearInv(a)'
      BY <1>1, <1>2, <2>1, OtherPeer, NearParse DEF CloseInv
    <3>2. \A q \in Peer : q # a => KeptTrack(q)
      BY <1>1, <2>1, ParseElsewhere
    <3>3. closed' = closed \/ closed' = [closed EXCEPT ![a] = FALSE]
      BY <1>1, <1>2, <2>1, OtherPeer, ParseKeepsOpen DEF CloseInv
    <3>4. closed \in [Peer -> BOOLEAN]
      BY <1>1 DEF TypeOK, ReceiverTypeOK
    <3>5. NoSpuriousClose'
      BY <3>3, <3>4 DEF CloseInv, NoSpuriousClose
    <3> QED
      BY <3>1, <3>2, <3>5, NearKept DEF CloseInv
  <2>2. CASE ~Parse(a)
    <3>1. \A q \in Peer : KeptTrack(q)
      BY <1>1, <1>3, <2>2, FinishCounts, OthersElsewhere
    <3>2. NoSpuriousClose'
      BY <1>3, <2>2, OpenElsewhere DEF CloseInv, NoSpuriousClose
    <3> QED
      BY <3>1, <3>2, NearKept DEF CloseInv
  <2> QED
    BY <2>1, <2>2
<1>4. CASE UNCHANGED vars
  <2>1. \A q \in Peer : KeptTrack(q)
    BY <1>4 DEF vars, receiverVars, KeptTrack
  <2>2. NoSpuriousClose'
    BY <1>4 DEF vars, receiverVars, CloseInv, NoSpuriousClose
  <2> QED
    BY <1>1, <2>1, <2>2, NearKept DEF CloseInv
<1> QED
  BY <1>1, <1>3, <1>4 DEF CloseInv, Next

(* With limits that fit together neither cache of ARQParser.v2.cpp fills   *)
(* up, whatever is lost, duplicated and reordered: the peer never closes   *)
(* the connection for packages that a correct sender sent.                 *)
THEOREM CacheNeverFull ==
    ASSUME LimitsFit
    PROVE  Spec => []NoSpuriousClose
<1>1. Init => CloseInv
  BY CloseInvInit
<1>2. CloseInv /\ [Next]_vars => CloseInv'
  BY CloseInvNext
<1>3. CloseInv => NoSpuriousClose
  BY DEF CloseInv
<1> QED
  BY <1>1, <1>2, <1>3, PTL DEF Spec
=============================================================================
