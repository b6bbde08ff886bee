------------------------ MODULE UdpArqConfirm_proofs ------------------------
(***************************************************************************)
(* Proof that the engine never confirms a package its peer did not take    *)
(* in, whatever feedback arrives, how late, how often and in which order.  *)
(*                                                                         *)
(* The property alone is not inductive: it is what a sync does with the    *)
(* feedback collected that could break it.  The strengthening says that    *)
(* all feedback in the system is genuine wherever it is (in a package      *)
(* waiting to be resent, on the network, being parsed, cached, collected)  *)
(* and that all numbers in the system were really sent.                    *)
(***************************************************************************)
EXTENDS UdpArq_proofs

(* The distance of a number from the first number of the session of p.     *)
Index(p, s) == Sub(s, BaseSeq[p])

(* What a UNA of q may say: the numbers up to last.                        *)
Covered(q) ==
    {s \in SeqNum : started[q] /\ Index(Other(q), s) <= Index(Other(q), last[q])}

(* A package of p: numbered in this session, and its feedback is true.     *)
Genuine(p, g) ==
    /\ g.rel => Index(p, g.seq) < Index(p, nextSeq[p])
    /\ g.una \subseteq Covered(p)
    /\ g.acks \subseteq ReceivedSeqs(p)

GenuineAll(p, d) == \A i \in DOMAIN d : Genuine(p, d[i])

InWindow(p) == Index(p, nextSeq[p]) <= MaxPackages

(* The packages of p, wherever they are.                                   *)
GenuineUnconfirmed(p) == \A g \in unconf[p] : g.rel /\ Genuine(p, g)
GenuineCached(p)      == \A g \in cache[Other(p)] : g.rel /\ Genuine(p, g)
GenuineParsing(p)     == GenuineAll(p, rx[Other(p)])
GenuineNet(p)         == \A d \in net[Other(p)] : GenuineAll(p, d)

(* The parser of p took in only what its peer has sent.                    *)
GenuineTrack(p) ==
    /\ started[p] => Index(Other(p), last[p]) < Index(Other(p), nextSeq[Other(p)])
    /\ \A s \in ahead[p] :
          started[p] /\ Index(Other(p), s) < Index(Other(p), nextSeq[Other(p)])

(* The feedback p is about to give, and the feedback it collected.         *)
GenuineFeedback(p) ==
    /\ feedback[p].available => feedback[p].lastUNA \in Covered(p)
    /\ feedback[p].received \subseteq ReceivedSeqs(p)

GenuineResult(p) ==
    /\ result[p].canUna => started[p]
    /\ result[p].una \subseteq Covered(Other(p))
    /\ result[p].acks \subseteq ReceivedSeqs(Other(p))

(* ConfirmedWasReceived, for the packages of p.                            *)
Accounted(p) == SentSeqs(p) \subseteq Seqs(unconf[p]) \cup ReceivedSeqs(Other(p))

PeerInv(p) ==
    /\ InWindow(p) /\ GenuineUnconfirmed(p) /\ GenuineCached(p)
    /\ GenuineParsing(p) /\ GenuineNet(p) /\ GenuineTrack(p)
    /\ GenuineFeedback(p) /\ GenuineResult(p) /\ Accounted(p)

IInv == \A p \in Peer : PeerInv(p)

-----------------------------------------------------------------------------
(* Numbers.                                                                *)

LEMMA IndexType ==
    ASSUME NEW p \in Peer, NEW s \in SeqNum
    PROVE  Index(p, s) \in 0 .. SeqSpace - 1
  BY PerPeerAssumption, SeqSpaceAssumption DEF Index, Sub, SeqNum

LEMMA IndexAhead ==
    ASSUME NEW p \in Peer, NEW x \in SeqNum, NEW y \in SeqNum,
           Index(p, x) <= MaxPackages, Index(p, y) <= MaxPackages
    PROVE  Ahead(x, y) <=> Index(p, x) > Index(p, y)
<1>1. BaseSeq[p] \in SeqNum
  BY PerPeerAssumption
<1>2. 2 * Index(p, x) < SeqSpace /\ 2 * Index(p, y) < SeqSpace
  BY WindowAssumption, IndexType, SeqSpaceAssumption
<1> QED
  BY <1>1, <1>2, AheadIsIndexOrder DEF Index

LEMMA IndexStep ==
    ASSUME NEW p \in Peer, NEW s \in SeqNum, Index(p, s) <= MaxPackages
    PROVE  Next1(s) \in SeqNum /\ Index(p, Next1(s)) = Index(p, s) + 1
<1>1. BaseSeq[p] \in SeqNum /\ 0 \in 0 .. SeqSpace
  BY PerPeerAssumption, SeqSpaceAssumption
<1>2. Sub(s, BaseSeq[p]) < SeqSpace - 1
  BY WindowAssumption, SeqSpaceAssumption, IndexType DEF Index
<1> QED
  BY <1>1, <1>2, SeqTypes, IndexNext DEF Index

LEMMA IndexSame ==
    ASSUME NEW p \in Peer, NEW x \in SeqNum, NEW y \in SeqNum, Index(p, x) = Index(p, y)
    PROVE  x = y
  BY PerPeerAssumption, IndexInjective DEF Index

-----------------------------------------------------------------------------
(* Genuine packages.                                                       *)

(* What is genuine stays so while numbers are added and taken in.          *)
LEMMA GenuineGrows ==
    ASSUME NEW p \in Peer, NEW g \in Package, Genuine(p, g),
           nextSeq[p] \in SeqNum, nextSeq'[p] \in SeqNum,
           Index(p, nextSeq[p]) <= Index(p, nextSeq'[p]),
           Covered(p) \subseteq Covered(p)', ReceivedSeqs(p) \subseteq ReceivedSeqs(p)'
    PROVE  Genuine(p, g)'
<1>1. g.rel => Index(p, g.seq) < Index(p, nextSeq'[p])
  BY IndexType DEF Genuine, Package
<1> QED
  BY <1>1 DEF Genuine, Index

LEMMA GenuineAllGrows ==
    ASSUME NEW p \in Peer, NEW d \in Seq(Package), GenuineAll(p, d),
           nextSeq[p] \in SeqNum, nextSeq'[p] \in SeqNum,
           Index(p, nextSeq[p]) <= Index(p, nextSeq'[p]),
           Covered(p) \subseteq Covered(p)', ReceivedSeqs(p) \subseteq ReceivedSeqs(p)'
    PROVE  GenuineAll(p, d)'
<1>1. \A i \in DOMAIN d : d[i] \in Package
  OBVIOUS
<1> QED
  BY <1>1, GenuineGrows DEF GenuineAll

(* Cutting expired data leaves a package as genuine as it was.             *)
LEMMA GenuineCut ==
    ASSUME NEW p \in Peer, NEW g \in Package, Genuine(p, g)
    PROVE  Genuine(p, Cut(p, g))
  BY CutType DEF Genuine

(* What the types say of the places a package can be in.                   *)
LEMMA PlacesType ==
    ASSUME NEW p \in Peer, TypeOK
    PROVE  /\ unconf[p] \subseteq Package /\ cache[p] \subseteq Package
           /\ rx[p] \in Seq(Package) /\ net[p] \subseteq Seq(Package)
           /\ nextSeq[p] \in SeqNum /\ last[p] \in SeqNum
           /\ ahead[p] \subseteq SeqNum
           /\ result[p].una \subseteq SeqNum /\ result[p].acks \subseteq SeqNum
<1>1. result[p] \in ResultType
  BY DEF TypeOK, ReceiverTypeOK
<1> QED
  BY <1>1 DEF TypeOK, SenderTypeOK, ReceiverTypeOK, ResultType

-----------------------------------------------------------------------------
(* Steps.                                                                  *)

(* The peers are p and the other one.                                      *)
LEMMA BothPeers ==
    ASSUME NEW a \in Peer
    PROVE  \A x \in Peer : x = a \/ x = Other(a)
  BY PeerAssumption, OtherPeer

(* A step of the parser of a keeps the invariant if what it takes in next  *)
(* was really sent and what it took in before is not forgotten.            *)
LEMMA ParseStep ==
    ASSUME NEW a \in Peer, TypeOK, IInv,
           UNCHANGED <<nextSeq, unconf, feedback, net>>,
           \A x \in Peer : x # a =>
               /\ started'[x] = started[x] /\ last'[x] = last[x]
               /\ ahead'[x] = ahead[x] /\ cache'[x] = cache[x]
               /\ rx'[x] = rx[x] /\ result'[x] = result[x],
           Covered(a) \subseteq Covered(a)',
           ReceivedSeqs(a) \subseteq ReceivedSeqs(a)',
           GenuineTrack(a)', GenuineResult(a)',
           cache'[a] \subseteq Package,
           \A g \in cache'[a] : g.rel /\ Genuine(Other(a), g),
           rx'[a] \in Seq(Package), GenuineAll(Other(a), rx'[a])
    PROVE  IInv'
<1> DEFINE b == Other(a)
<1>1. b \in Peer /\ b # a /\ Other(b) = a
  BY OtherPeer
<1>2. PeerInv(a) /\ PeerInv(b)
  BY <1>1 DEF IInv
<1>3. Covered(b)' = Covered(b) /\ ReceivedSeqs(b)' = ReceivedSeqs(b)
  BY <1>1 DEF Covered, ReceivedSeqs
<1>4. \A p \in Peer :
        /\ nextSeq[p] \in SeqNum /\ nextSeq'[p] = nextSeq[p]
        /\ Index(p, nextSeq[p]) <= Index(p, nextSeq'[p])
        /\ Covered(p) \subseteq Covered(p)' /\ ReceivedSeqs(p) \subseteq ReceivedSeqs(p)'
  BY <1>1, <1>3, BothPeers, PlacesType, IndexType
<1> HIDE DEF b
<1>5. \A p \in Peer : \A g \in Package : Genuine(p, g) => Genuine(p, g)'
  BY <1>4, GenuineGrows
<1>6. \A p \in Peer : \A d \in Seq(Package) : GenuineAll(p, d) => GenuineAll(p, d)'
  BY <1>4, GenuineAllGrows
<1>7. \A p \in Peer : InWindow(p)' /\ GenuineUnconfirmed(p)' /\ GenuineNet(p)'
  <2> TAKE p \in Peer
  <2>1. PeerInv(p)
    BY DEF IInv
  <2>2. InWindow(p)'
    BY <2>1, <1>4 DEF PeerInv, InWindow, Index
  <2>3. GenuineUnconfirmed(p)'
    BY <2>1, <1>5, PlacesType DEF PeerInv, GenuineUnconfirmed
  <2>4. GenuineNet(p)'
    BY <2>1, <1>6, PlacesType, OtherPeer DEF PeerInv, GenuineNet
  <2> QED
    BY <2>2, <2>3, <2>4
<1>8. PeerInv(a)'
  <2>1. GenuineCached(a)' /\ GenuineParsing(a)'
    BY <1>1, <1>2, <1>5, <1>6, PlacesType DEF PeerInv, GenuineCached, GenuineParsing, b
  <2>2. GenuineFeedback(a)'
    BY <1>2, <1>4 DEF PeerInv, GenuineFeedback
  <2>3. Accounted(a)'
    BY <1>2, <1>3 DEF PeerInv, Accounted, SentSeqs, b
  <2> QED
    BY <1>7, <2>1, <2>2, <2>3 DEF PeerInv
<1>9. PeerInv(b)'
  <2>1. GenuineCached(b)' /\ GenuineParsing(b)'
    BY <1>1, <1>5, <1>6 DEF GenuineCached, GenuineParsing, b
  <2>2. GenuineTrack(b)'
    BY <1>1, <1>2, <1>4 DEF PeerInv, GenuineTrack, Index
  <2>3. GenuineFeedback(b)'
    BY <1>2, <1>3 DEF PeerInv, GenuineFeedback
  <2>4. GenuineResult(b)'
    BY <1>1, <1>2, <1>4 DEF PeerInv, GenuineResult
  <2>5. Accounted(b)'
    BY <1>1, <1>2, <1>4 DEF PeerInv, Accounted, SentSeqs
  <2> QED
    BY <1>1, <1>7, <2>1, <2>2, <2>3, <2>4, <2>5 DEF PeerInv
<1> QED
  BY <1>1, <1>8, <1>9, BothPeers DEF IInv, b

(* How the parser takes numbers in: the successor of last, a number ahead  *)
(* of it, and the first one of the session.                                *)
LEMMA TakeNext ==
    ASSUME NEW a \in Peer, TypeOK, IInv, started[a], started'[a],
           last'[a] = Next1(last[a]),
           ahead'[a] \subseteq ahead[a], ahead[a] \subseteq ahead'[a] \cup {last'[a]},
           Index(Other(a), last'[a]) < Index(Other(a), nextSeq[Other(a)]),
           UNCHANGED nextSeq
    PROVE  /\ Covered(a) \subseteq Covered(a)'
           /\ ReceivedSeqs(a) \subseteq ReceivedSeqs(a)'
           /\ GenuineTrack(a)'
<1> DEFINE b == Other(a)
<1>1. b \in Peer
  BY OtherPeer
<1>2. /\ Index(b, last[a]) < Index(b, nextSeq[b]) /\ Index(b, nextSeq[b]) <= MaxPackages
      /\ \A s \in ahead[a] : Index(b, s) < Index(b, nextSeq[b])
  BY <1>1 DEF IInv, PeerInv, InWindow, GenuineTrack
<1>3. last[a] \in SeqNum /\ nextSeq[b] \in SeqNum
  BY <1>1, PlacesType
<1>4. Index(b, last[a]) \in Int /\ Index(b, nextSeq[b]) \in Int /\ MaxPackages \in Int
  BY <1>1, <1>3, IndexType, WindowAssumption
<1>5. Index(b, last'[a]) = Index(b, last[a]) + 1 /\ last'[a] \in SeqNum
  BY <1>1, <1>2, <1>3, <1>4, IndexStep
<1>6. \A s \in SeqNum : Index(b, s) <= Index(b, last[a]) => Index(b, s) <= Index(b, last'[a])
  BY <1>1, <1>4, <1>5, IndexType
<1>7. Covered(a) \subseteq Covered(a)'
  BY <1>6 DEF Covered, Index
<1>8. ReceivedSeqs(a) \subseteq ReceivedSeqs(a)'
  <2> SUFFICES ASSUME NEW s \in ReceivedSeqs(a) PROVE s \in ReceivedSeqs(a)'
    OBVIOUS
  <2>1. CASE s \in ahead'[a]
    BY <2>1 DEF ReceivedSeqs
  <2>2. CASE s = last'[a]
    BY <2>2, <1>1, <1>5, IndexType DEF ReceivedSeqs, Index
  <2>3. CASE Index(b, s) <= Index(b, last[a])
    BY <2>3, <1>6 DEF ReceivedSeqs, Index
  <2> QED
    BY <2>1, <2>2, <2>3 DEF ReceivedSeqs, Index
<1>9. GenuineTrack(a)'
  BY <1>2 DEF GenuineTrack, Index
<1> QED
  BY <1>7, <1>8, <1>9

LEMMA TakeAhead ==
    ASSUME NEW a \in Peer, NEW s \in SeqNum, TypeOK, IInv, started[a], started'[a],
           last'[a] = last[a],
           ahead'[a] \subseteq ahead[a] \cup {s},
           ahead[a] \subseteq ahead'[a] \cup {last[a]},
           Index(Other(a), s) < Index(Other(a), nextSeq[Other(a)]),
           UNCHANGED nextSeq
    PROVE  /\ Covered(a) \subseteq Covered(a)'
           /\ ReceivedSeqs(a) \subseteq ReceivedSeqs(a)'
           /\ GenuineTrack(a)'
<1> DEFINE b == Other(a)
<1>1. b \in Peer /\ last[a] \in SeqNum
  BY OtherPeer, PlacesType
<1>2. Index(b, last[a]) <= Index(b, last[a])
  BY <1>1, IndexType
<1>3. ReceivedSeqs(a) \subseteq ReceivedSeqs(a)'
  BY <1>2 DEF ReceivedSeqs, Index
<1>4. Covered(a) \subseteq Covered(a)'
  BY DEF Covered
<1>5. GenuineTrack(a)'
  BY DEF IInv, PeerInv, GenuineTrack, Index
<1> QED
  BY <1>3, <1>4, <1>5

LEMMA TakeFirst ==
    ASSUME NEW a \in Peer, ~started[a], started'[a],
           Index(Other(a), last'[a]) < Index(Other(a), nextSeq[Other(a)]),
           \A s \in ahead'[a] : Index(Other(a), s) < Index(Other(a), nextSeq[Other(a)]),
           UNCHANGED nextSeq
    PROVE  /\ Covered(a) \subseteq Covered(a)'
           /\ ReceivedSeqs(a) \subseteq ReceivedSeqs(a)'
           /\ GenuineTrack(a)'
  BY DEF Covered, ReceivedSeqs, GenuineTrack, Index

LEMMA TakeNone ==
    ASSUME NEW a \in Peer, IInv, UNCHANGED nextSeq,
           started'[a] = started[a], last'[a] = last[a], ahead'[a] = ahead[a]
    PROVE  /\ Covered(a)' = Covered(a)
           /\ ReceivedSeqs(a)' = ReceivedSeqs(a)
           /\ GenuineTrack(a)'
<1>1. Covered(a)' = Covered(a) /\ ReceivedSeqs(a)' = ReceivedSeqs(a)
  BY DEF Covered, ReceivedSeqs
<1> QED
  BY <1>1 DEF IInv, PeerInv, GenuineTrack, Index

(* The datagram being parsed.                                              *)
LEMMA HeadGenuine ==
    ASSUME NEW a \in Peer, TypeOK, IInv, CanParse(a)
    PROVE  /\ Head(rx[a]) \in Package /\ Head(rx[a]).seq \in SeqNum
           /\ Genuine(Other(a), Head(rx[a]))
           /\ Head(rx[a]).rel =>
                 Index(Other(a), Head(rx[a]).seq) < Index(Other(a), nextSeq[Other(a)])
<1>1. rx[a] # <<>> /\ Head(rx[a]) \in Package /\ Head(rx[a]).seq \in SeqNum
  BY HeadType
<1>2. rx[a] \in Seq(Package)
  BY PlacesType
<1>3. 1 \in DOMAIN rx[a] /\ Head(rx[a]) = rx[a][1]
  BY <1>1, <1>2
<1>4. GenuineAll(Other(a), rx[a])
  BY OtherPeer DEF IInv, PeerInv, GenuineParsing
<1> QED
  BY <1>1, <1>3, <1>4 DEF GenuineAll, Genuine

LEMMA ContinueGenuine ==
    ASSUME NEW a \in Peer, TypeOK, IInv, rx[a] # <<>>, NEW ok \in BOOLEAN, Continue(a, ok)
    PROVE  /\ rx'[a] \in Seq(Package) /\ GenuineAll(Other(a), rx'[a])
           /\ \A x \in Peer : x # a => rx'[x] = rx[x]
<1>1. rx[a] \in Seq(Package) /\ rx \in [Peer -> Seq(Package)]
  BY DEF TypeOK, ReceiverTypeOK
<1>2. GenuineAll(Other(a), rx[a])
  BY OtherPeer DEF IInv, PeerInv, GenuineParsing
<1>3. /\ Tail(rx[a]) \in Seq(Package)
      /\ \A i \in DOMAIN Tail(rx[a]) : i + 1 \in DOMAIN rx[a] /\ Tail(rx[a])[i] = rx[a][i + 1]
  BY <1>1
<1>4. GenuineAll(Other(a), Tail(rx[a]))
  BY <1>2, <1>3 DEF GenuineAll
<1>5. <<>> \in Seq(Package) /\ GenuineAll(Other(a), <<>>)
  BY DEF GenuineAll
<1>6. rx'[a] = IF ok THEN Tail(rx[a]) ELSE <<>>
  BY <1>1 DEF Continue
<1> QED
  BY <1>1, <1>3, <1>4, <1>5, <1>6 DEF Continue

(* The feedback in a genuine package joins what was collected.             *)
LEMMA ProcessGenuine ==
    ASSUME NEW a \in Peer, TypeOK, IInv, NEW g \in Package, Genuine(Other(a), g),
           NEW r \in ResultType, r.una = result[a].una, r.acks = result[a].acks,
           r.canUna => started'[a], Process(a, g, r),
           \A x \in Peer : x # a =>
               started'[x] = started[x] /\ last'[x] = last[x] /\ ahead'[x] = ahead[x]
    PROVE  /\ GenuineResult(a)'
           /\ \A x \in Peer : x # a => result'[x] = result[x]
<1> DEFINE b == Other(a)
<1>1. b \in Peer /\ b # a
  BY OtherPeer
<1>2. result[a].una \subseteq Covered(b) /\ result[a].acks \subseteq ReceivedSeqs(b)
  BY DEF IInv, PeerInv, GenuineResult
<1>3. Covered(b)' = Covered(b) /\ ReceivedSeqs(b)' = ReceivedSeqs(b)
  BY <1>1 DEF Covered, ReceivedSeqs
<1>4. result \in [Peer -> ResultType]
  BY DEF TypeOK, ReceiverTypeOK
<1>5. result'[a] = IF g.short THEN r ELSE ParseFeedback(r, g)
  BY <1>4 DEF Process
<1>6. g.una \subseteq Covered(b) /\ g.acks \subseteq ReceivedSeqs(b)
  BY DEF Genuine
<1>7. NewestUNA(r, g.una) \subseteq r.una \cup g.una
  BY DEF NewestUNA
<1>8. /\ ParseFeedback(r, g).una = NewestUNA(r, g.una)
      /\ ParseFeedback(r, g).acks = r.acks \cup g.acks
      /\ ParseFeedback(r, g).canUna = r.canUna
  BY DEF ParseFeedback, ResultType
<1>9. /\ result'[a].una \subseteq Covered(b) /\ result'[a].acks \subseteq ReceivedSeqs(b)
      /\ result'[a].canUna => started'[a]
  BY <1>2, <1>5, <1>6, <1>7, <1>8
<1>10. GenuineResult(a)'
  BY <1>3, <1>9 DEF GenuineResult
<1> QED
  BY <1>4, <1>10 DEF Process

-----------------------------------------------------------------------------
(* The actions of the parser.                                              *)

LEMMA ReceiveInv ==
    ASSUME NEW a \in Peer, TypeOK, IInv, Receive(a) PROVE IInv'
<1>1. PICK d \in net[a] : rx' = [rx EXCEPT ![a] = d]
  BY DEF Receive
<1>2. d \in Seq(Package) /\ GenuineAll(Other(a), d)
  BY PlacesType, OtherPeer DEF IInv, PeerInv, GenuineNet
<1>3. rx'[a] = d /\ \A x \in Peer : x # a => rx'[x] = rx[x]
  BY <1>1 DEF TypeOK, ReceiverTypeOK
<1>4. /\ Covered(a)' = Covered(a) /\ ReceivedSeqs(a)' = ReceivedSeqs(a)
      /\ GenuineTrack(a)'
  BY TakeNone DEF Receive, senderVars
<1>5. GenuineResult(a)'
  <2>1. \A x \in Peer : Covered(x)' = Covered(x) /\ ReceivedSeqs(x)' = ReceivedSeqs(x)
    BY DEF Receive, Covered, ReceivedSeqs
  <2> QED
    BY <2>1, OtherPeer DEF Receive, IInv, PeerInv, GenuineResult
<1>6. /\ cache'[a] \subseteq Package
      /\ \A g \in cache'[a] : g.rel /\ Genuine(Other(a), g)
  BY PlacesType, OtherPeer DEF Receive, IInv, PeerInv, GenuineCached
<1> QED
  BY <1>2, <1>3, <1>4, <1>5, <1>6, ParseStep DEF Receive, senderVars

(* What was cached stays genuine when the cache does not grow.             *)
LEMMA CacheShrinks ==
    ASSUME NEW a \in Peer, TypeOK, IInv, cache'[a] \subseteq cache[a]
    PROVE  /\ cache'[a] \subseteq Package
           /\ \A g \in cache'[a] : g.rel /\ Genuine(Other(a), g)
  BY PlacesType, OtherPeer DEF IInv, PeerInv, GenuineCached

(* The results the parser hands to processPackage.                         *)
LEMMA ResultKept ==
    ASSUME NEW a \in Peer, TypeOK, IInv
    PROVE  /\ result[a] \in ResultType
           /\ [result[a] EXCEPT !.canUna = TRUE] \in ResultType
           /\ [result[a] EXCEPT !.canUna = TRUE].una = result[a].una
           /\ [result[a] EXCEPT !.canUna = TRUE].acks = result[a].acks
           /\ result[a].canUna => started[a]
<1>1. result[a] \in ResultType
  BY DEF TypeOK, ReceiverTypeOK
<1>2. result[a].canUna => started[a]
  BY DEF IInv, PeerInv, GenuineResult
<1> QED
  BY <1>1, <1>2 DEF ResultType

LEMMA ParseDiscardableInv ==
    ASSUME NEW a \in Peer, TypeOK, IInv, ParseDiscardable(a) PROVE IInv'
<1> DEFINE g == Head(rx[a])
<1>1. /\ CanParse(a) /\ Process(a, g, result[a]) /\ Continue(a, ~g.short)
      /\ UNCHANGED <<nextSeq, unconf, feedback, net, started, last, ahead, cache>>
  BY DEF ParseDiscardable, senderVars
<1>2. g \in Package /\ Genuine(Other(a), g) /\ rx[a] # <<>> /\ g.short \in BOOLEAN
  BY <1>1, HeadGenuine, HeadType DEF Package
<1> HIDE DEF g
<1>3. /\ rx'[a] \in Seq(Package) /\ GenuineAll(Other(a), rx'[a])
      /\ \A x \in Peer : x # a => rx'[x] = rx[x]
  BY <1>1, <1>2, ContinueGenuine
<1>4. GenuineResult(a)' /\ \A x \in Peer : x # a => result'[x] = result[x]
  BY <1>1, <1>2, ResultKept, ProcessGenuine
<1>5. /\ Covered(a)' = Covered(a) /\ ReceivedSeqs(a)' = ReceivedSeqs(a)
      /\ GenuineTrack(a)'
  BY <1>1, TakeNone
<1>6. /\ cache'[a] \subseteq Package
      /\ \A h \in cache'[a] : h.rel /\ Genuine(Other(a), h)
  BY <1>1, CacheShrinks
<1> QED
  BY <1>1, <1>3, <1>4, <1>5, <1>6, ParseStep

LEMMA ParseDuplicateInv ==
    ASSUME NEW a \in Peer, TypeOK, IInv, ParseDuplicate(a) PROVE IInv'
<1>1. /\ CanParse(a) /\ Continue(a, FALSE)
      /\ result' = [result EXCEPT ![a].prior = TRUE]
      /\ UNCHANGED <<nextSeq, unconf, feedback, net, started, last, ahead, cache>>
  BY DEF ParseDuplicate, senderVars, parserVars
<1>2. rx[a] # <<>>
  BY <1>1 DEF CanParse
<1>3. /\ rx'[a] \in Seq(Package) /\ GenuineAll(Other(a), rx'[a])
      /\ \A x \in Peer : x # a => rx'[x] = rx[x]
  BY <1>1, <1>2, ContinueGenuine
<1>4. GenuineResult(a)' /\ \A x \in Peer : x # a => result'[x] = result[x]
  <2>1. \A x \in Peer : Covered(x)' = Covered(x) /\ ReceivedSeqs(x)' = ReceivedSeqs(x)
    BY <1>1 DEF Covered, ReceivedSeqs
  <2>2. result[a] \in ResultType /\ result \in [Peer -> ResultType]
    BY DEF TypeOK, ReceiverTypeOK
  <2>3. /\ result'[a].una = result[a].una /\ result'[a].acks = result[a].acks
        /\ result'[a].canUna = result[a].canUna
    BY <1>1, <2>2 DEF ResultType
  <2> QED
    BY <1>1, <2>1, <2>2, <2>3, OtherPeer DEF IInv, PeerInv, GenuineResult
<1>5. /\ Covered(a)' = Covered(a) /\ ReceivedSeqs(a)' = ReceivedSeqs(a)
      /\ GenuineTrack(a)'
  BY <1>1, TakeNone
<1>6. /\ cache'[a] \subseteq Package
      /\ \A h \in cache'[a] : h.rel /\ Genuine(Other(a), h)
  BY <1>1, CacheShrinks
<1> QED
  BY <1>1, <1>3, <1>4, <1>5, <1>6, ParseStep

LEMMA ParseNextInv ==
    ASSUME NEW a \in Peer, TypeOK, IInv, ParseNext(a) PROVE IInv'
<1> DEFINE g == Head(rx[a])
           r == [result[a] EXCEPT !.canUna = TRUE]
<1>1. /\ CanParse(a) /\ g.rel /\ started[a] /\ g.seq = Next1(last[a])
      /\ Process(a, g, r) /\ Continue(a, TRUE)
      /\ last' = [last EXCEPT ![a] = g.seq]
      /\ UNCHANGED <<nextSeq, unconf, feedback, net, started, ahead, cache>>
  BY DEF ParseNext, senderVars
<1>2. /\ g \in Package /\ Genuine(Other(a), g) /\ rx[a] # <<>>
      /\ Index(Other(a), g.seq) < Index(Other(a), nextSeq[Other(a)])
  BY <1>1, HeadGenuine, HeadType
<1> HIDE DEF g
<1>3. /\ rx'[a] \in Seq(Package) /\ GenuineAll(Other(a), rx'[a])
      /\ \A x \in Peer : x # a => rx'[x] = rx[x]
  BY <1>1, <1>2, ContinueGenuine
<1>4. /\ last'[a] = Next1(last[a]) /\ started'[a] /\ last'[a] = g.seq
      /\ \A x \in Peer : x # a => last'[x] = last[x]
  BY <1>1 DEF TypeOK, ReceiverTypeOK
<1>5. r \in ResultType /\ r.una = result[a].una /\ r.acks = result[a].acks
  BY ResultKept
<1> HIDE DEF r
<1>6. GenuineResult(a)' /\ \A x \in Peer : x # a => result'[x] = result[x]
  BY <1>1, <1>2, <1>4, <1>5, ProcessGenuine
<1>7. /\ Covered(a) \subseteq Covered(a)' /\ ReceivedSeqs(a) \subseteq ReceivedSeqs(a)'
      /\ GenuineTrack(a)'
  BY <1>1, <1>2, <1>4, TakeNext
<1>8. /\ cache'[a] \subseteq Package
      /\ \A h \in cache'[a] : h.rel /\ Genuine(Other(a), h)
  BY <1>1, CacheShrinks
<1> QED
  BY <1>1, <1>3, <1>4, <1>6, <1>7, <1>8, ParseStep

LEMMA ParseAheadInv ==
    ASSUME NEW a \in Peer, TypeOK, IInv, ParseAhead(a) PROVE IInv'
<1> DEFINE g == Head(rx[a])
<1>1. /\ CanParse(a) /\ g.rel /\ started[a]
      /\ Process(a, g, result[a]) /\ Continue(a, ~g.short)
      /\ ahead' = [ahead EXCEPT ![a] = @ \cup {g.seq}]
      /\ UNCHANGED <<nextSeq, unconf, feedback, net, started, last, cache>>
  BY DEF ParseAhead, IsGap, senderVars
<1>2. /\ g \in Package /\ Genuine(Other(a), g) /\ rx[a] # <<>> /\ g.short \in BOOLEAN
      /\ g.seq \in SeqNum
      /\ Index(Other(a), g.seq) < Index(Other(a), nextSeq[Other(a)])
  BY <1>1, HeadGenuine, HeadType DEF Package
<1> HIDE DEF g
<1>3. /\ rx'[a] \in Seq(Package) /\ GenuineAll(Other(a), rx'[a])
      /\ \A x \in Peer : x # a => rx'[x] = rx[x]
  BY <1>1, <1>2, ContinueGenuine
<1>4. /\ ahead'[a] = ahead[a] \cup {g.seq}
      /\ \A x \in Peer : x # a => ahead'[x] = ahead[x]
  BY <1>1 DEF TypeOK, ReceiverTypeOK
<1>5. GenuineResult(a)' /\ \A x \in Peer : x # a => result'[x] = result[x]
  BY <1>1, <1>2, <1>4, ResultKept, ProcessGenuine
<1>6. /\ Covered(a) \subseteq Covered(a)' /\ ReceivedSeqs(a) \subseteq ReceivedSeqs(a)'
      /\ GenuineTrack(a)'
  BY <1>1, <1>2, <1>4, TakeAhead
<1>7. /\ cache'[a] \subseteq Package
      /\ \A h \in cache'[a] : h.rel /\ Genuine(Other(a), h)
  BY <1>1, CacheShrinks
<1> QED
  BY <1>1, <1>3, <1>4, <1>5, <1>6, <1>7, ParseStep

LEMMA ResultUnchanged ==
    ASSUME NEW a \in Peer, IInv, UNCHANGED result, started[a] => started'[a],
           \A x \in Peer : x # a =>
               started'[x] = started[x] /\ last'[x] = last[x] /\ ahead'[x] = ahead[x]
    PROVE  GenuineResult(a)'
<1>1. Covered(Other(a))' = Covered(Other(a)) /\ ReceivedSeqs(Other(a))' = ReceivedSeqs(Other(a))
  BY OtherPeer DEF Covered, ReceivedSeqs
<1> QED
  BY <1>1 DEF IInv, PeerInv, GenuineResult

LEMMA ParseCacheInv ==
    ASSUME NEW a \in Peer, TypeOK, IInv, ParseCache(a) PROVE IInv'
<1> DEFINE g == Head(rx[a])
<1>1. /\ CanParse(a) /\ g.rel /\ started[a] /\ Continue(a, TRUE)
      /\ UNCHANGED <<nextSeq, unconf, feedback, net, started, last, result>>
      /\ \/ UNCHANGED <<ahead, cache>>
         \/ /\ cache' = [cache EXCEPT ![a] = @ \cup {g}]
            /\ ahead' = [ahead EXCEPT ![a] = @ \cup {g.seq}]
  BY DEF ParseCache, IsGap, senderVars
<1>2. /\ g \in Package /\ Genuine(Other(a), g) /\ rx[a] # <<>> /\ g.seq \in SeqNum
      /\ Index(Other(a), g.seq) < Index(Other(a), nextSeq[Other(a)])
  BY <1>1, HeadGenuine, HeadType
<1> HIDE DEF g
<1>3. /\ rx'[a] \in Seq(Package) /\ GenuineAll(Other(a), rx'[a])
      /\ \A x \in Peer : x # a => rx'[x] = rx[x]
  BY <1>1, <1>2, ContinueGenuine
<1>4. /\ ahead'[a] \subseteq ahead[a] \cup {g.seq} /\ ahead[a] \subseteq ahead'[a]
      /\ cache'[a] \subseteq cache[a] \cup {g}
      /\ \A x \in Peer : x # a => ahead'[x] = ahead[x] /\ cache'[x] = cache[x]
  BY <1>1 DEF TypeOK, ReceiverTypeOK
<1>5. GenuineResult(a)'
  BY <1>1, <1>4, ResultUnchanged
<1>6. /\ Covered(a) \subseteq Covered(a)' /\ ReceivedSeqs(a) \subseteq ReceivedSeqs(a)'
      /\ GenuineTrack(a)'
  BY <1>1, <1>2, <1>4, TakeAhead
<1>7. /\ cache[a] \subseteq Package
      /\ \A h \in cache[a] : h.rel /\ Genuine(Other(a), h)
  BY PlacesType, OtherPeer DEF IInv, PeerInv, GenuineCached
<1> QED
  BY <1>1, <1>2, <1>3, <1>4, <1>5, <1>6, <1>7, ParseStep

LEMMA ParseIgnoredInv ==
    ASSUME NEW a \in Peer, TypeOK, IInv, ParseIgnored(a) PROVE IInv'
<1>1. /\ CanParse(a) /\ Continue(a, TRUE)
      /\ UNCHANGED <<nextSeq, unconf, feedback, net, started, last, ahead, cache, result>>
  BY DEF ParseIgnored, senderVars, parserVars
<1>2. rx[a] # <<>>
  BY <1>1 DEF CanParse
<1>3. /\ rx'[a] \in Seq(Package) /\ GenuineAll(Other(a), rx'[a])
      /\ \A x \in Peer : x # a => rx'[x] = rx[x]
  BY <1>1, <1>2, ContinueGenuine
<1>4. GenuineResult(a)'
  BY <1>1, ResultUnchanged
<1>5. /\ Covered(a)' = Covered(a) /\ ReceivedSeqs(a)' = ReceivedSeqs(a)
      /\ GenuineTrack(a)'
  BY <1>1, TakeNone
<1>6. /\ cache'[a] \subseteq Package
      /\ \A h \in cache'[a] : h.rel /\ Genuine(Other(a), h)
  BY <1>1, CacheShrinks
<1> QED
  BY <1>1, <1>3, <1>4, <1>5, <1>6, ParseStep

LEMMA ParseFirstInv ==
    ASSUME NEW a \in Peer, TypeOK, IInv, ParseFirst(a) PROVE IInv'
<1> DEFINE g == Head(rx[a])
           r == [result[a] EXCEPT !.canUna = TRUE]
<1>1. /\ CanParse(a) /\ g.rel /\ ~started[a]
      /\ Process(a, g, r) /\ Continue(a, TRUE)
      /\ started' = [started EXCEPT ![a] = TRUE]
      /\ last' = [last EXCEPT ![a] = g.seq]
      /\ ahead' = [ahead EXCEPT ![a] = IF DataEncrypted THEN Seqs(cache[a]) \ {g.seq} ELSE @]
      /\ UNCHANGED <<nextSeq, unconf, feedback, net, cache>>
  BY DEF ParseFirst, senderVars
<1>2. /\ g \in Package /\ Genuine(Other(a), g) /\ rx[a] # <<>>
      /\ Index(Other(a), g.seq) < Index(Other(a), nextSeq[Other(a)])
  BY <1>1, HeadGenuine, HeadType
<1> HIDE DEF g
<1>3. /\ rx'[a] \in Seq(Package) /\ GenuineAll(Other(a), rx'[a])
      /\ \A x \in Peer : x # a => rx'[x] = rx[x]
  BY <1>1, <1>2, ContinueGenuine
<1>4. /\ started'[a] /\ last'[a] = g.seq
      /\ ahead'[a] \subseteq ahead[a] \cup Seqs(cache[a])
      /\ \A x \in Peer : x # a =>
            started'[x] = started[x] /\ last'[x] = last[x] /\ ahead'[x] = ahead[x]
  BY <1>1 DEF TypeOK, ReceiverTypeOK
<1>5. r \in ResultType /\ r.una = result[a].una /\ r.acks = result[a].acks
  BY ResultKept
<1> HIDE DEF r
<1>6. GenuineResult(a)' /\ \A x \in Peer : x # a => result'[x] = result[x]
  BY <1>1, <1>2, <1>4, <1>5, ProcessGenuine
<1>7. \A s \in ahead'[a] : Index(Other(a), s) < Index(Other(a), nextSeq[Other(a)])
  <2>1. \A s \in ahead[a] : Index(Other(a), s) < Index(Other(a), nextSeq[Other(a)])
    BY DEF IInv, PeerInv, GenuineTrack
  <2>2. \A h \in cache[a] : h.rel /\ Genuine(Other(a), h)
    BY OtherPeer DEF IInv, PeerInv, GenuineCached
  <2>3. \A s \in Seqs(cache[a]) : Index(Other(a), s) < Index(Other(a), nextSeq[Other(a)])
    BY <2>2 DEF Seqs, Genuine
  <2> QED
    BY <1>4, <2>1, <2>3
<1>8. /\ Covered(a) \subseteq Covered(a)' /\ ReceivedSeqs(a) \subseteq ReceivedSeqs(a)'
      /\ GenuineTrack(a)'
  BY <1>1, <1>2, <1>4, <1>7, TakeFirst
<1>9. /\ cache'[a] \subseteq Package
      /\ \A h \in cache'[a] : h.rel /\ Genuine(Other(a), h)
  BY <1>1, CacheShrinks
<1> QED
  BY <1>1, <1>3, <1>4, <1>6, <1>8, <1>9, ParseStep

LEMMA ParseEarlyInv ==
    ASSUME NEW a \in Peer, TypeOK, IInv, ParseEarly(a) PROVE IInv'
<1> DEFINE g == Head(rx[a])
<1>1. /\ CanParse(a) /\ g.rel /\ Continue(a, TRUE)
      /\ UNCHANGED <<nextSeq, unconf, feedback, net, started, last, ahead, result>>
      /\ \/ cache' = [cache EXCEPT ![a] = @]
         \/ cache' = [cache EXCEPT ![a] = @ \cup {g}]
  BY DEF ParseEarly, senderVars
<1>2. g \in Package /\ Genuine(Other(a), g) /\ rx[a] # <<>>
  BY <1>1, HeadGenuine, HeadType
<1> HIDE DEF g
<1>3. /\ rx'[a] \in Seq(Package) /\ GenuineAll(Other(a), rx'[a])
      /\ \A x \in Peer : x # a => rx'[x] = rx[x]
  BY <1>1, <1>2, ContinueGenuine
<1>4. /\ cache'[a] \subseteq cache[a] \cup {g}
      /\ \A x \in Peer : x # a => cache'[x] = cache[x]
  BY <1>1 DEF TypeOK, ReceiverTypeOK
<1>5. GenuineResult(a)'
  BY <1>1, ResultUnchanged
<1>6. /\ Covered(a)' = Covered(a) /\ ReceivedSeqs(a)' = ReceivedSeqs(a)
      /\ GenuineTrack(a)'
  BY <1>1, TakeNone
<1>7. /\ cache[a] \subseteq Package
      /\ \A h \in cache[a] : h.rel /\ Genuine(Other(a), h)
  BY PlacesType, OtherPeer DEF IInv, PeerInv, GenuineCached
<1> QED
  BY <1>1, <1>2, <1>3, <1>4, <1>5, <1>6, <1>7, ParseStep

(* A step that leaves the datagram alone.                                  *)
LEMMA DatagramKept ==
    ASSUME NEW a \in Peer, TypeOK, IInv, UNCHANGED rx
    PROVE  /\ rx'[a] \in Seq(Package) /\ GenuineAll(Other(a), rx'[a])
           /\ \A x \in Peer : x # a => rx'[x] = rx[x]
  BY PlacesType, OtherPeer DEF IInv, PeerInv, GenuineParsing

(* A package of the cache.                                                 *)
LEMMA CachedGenuine ==
    ASSUME NEW a \in Peer, TypeOK, IInv, NEW g \in cache[a]
    PROVE  /\ g \in Package /\ g.seq \in SeqNum /\ Genuine(Other(a), g)
           /\ Index(Other(a), g.seq) < Index(Other(a), nextSeq[Other(a)])
<1>1. g \in Package /\ g.rel /\ Genuine(Other(a), g)
  BY PlacesType, OtherPeer DEF IInv, PeerInv, GenuineCached
<1> QED
  BY <1>1 DEF Genuine, Package

LEMMA ProcessEarlyInv ==
    ASSUME NEW a \in Peer, TypeOK, IInv, ProcessEarly(a) PROVE IInv'
<1>1. PICK g \in cache[a] :
        /\ started[a]
        /\ cache' = [cache EXCEPT ![a] = @ \ {g}]
        /\ ahead' = [ahead EXCEPT ![a] = (@ \cup {g.seq}) \ {last[a]}]
        /\ Process(a, g, result[a])
        /\ UNCHANGED <<nextSeq, unconf, feedback, net, started, last, rx>>
  BY DEF ProcessEarly, EarlyPending, senderVars
<1>2. /\ g \in Package /\ g.seq \in SeqNum /\ Genuine(Other(a), g)
      /\ Index(Other(a), g.seq) < Index(Other(a), nextSeq[Other(a)])
  BY CachedGenuine
<1>3. /\ cache'[a] \subseteq cache[a]
      /\ ahead'[a] \subseteq ahead[a] \cup {g.seq}
      /\ ahead[a] \subseteq ahead'[a] \cup {last[a]}
      /\ \A x \in Peer : x # a => ahead'[x] = ahead[x] /\ cache'[x] = cache[x]
  BY <1>1 DEF TypeOK, ReceiverTypeOK
<1>4. GenuineResult(a)' /\ \A x \in Peer : x # a => result'[x] = result[x]
  BY <1>1, <1>2, <1>3, ResultKept, ProcessGenuine
<1>5. /\ Covered(a) \subseteq Covered(a)' /\ ReceivedSeqs(a) \subseteq ReceivedSeqs(a)'
      /\ GenuineTrack(a)'
  BY <1>1, <1>2, <1>3, TakeAhead
<1>6. /\ rx'[a] \in Seq(Package) /\ GenuineAll(Other(a), rx'[a])
      /\ \A x \in Peer : x # a => rx'[x] = rx[x]
  BY <1>1, DatagramKept
<1>7. /\ cache'[a] \subseteq Package
      /\ \A h \in cache'[a] : h.rel /\ Genuine(Other(a), h)
  BY <1>3, CacheShrinks
<1> QED
  BY <1>1, <1>3, <1>4, <1>5, <1>6, <1>7, ParseStep

LEMMA AdvanceLastInv ==
    ASSUME NEW a \in Peer, TypeOK, IInv, AdvanceLast(a) PROVE IInv'
<1>1. /\ started[a] /\ Next1(last[a]) \in ahead[a]
      /\ last' = [last EXCEPT ![a] = Next1(@)]
      /\ ahead' = [ahead EXCEPT ![a] = @ \ {Next1(last[a])}]
      /\ UNCHANGED <<nextSeq, unconf, feedback, net, started, cache, rx, result>>
  BY DEF AdvanceLast, RunPending, senderVars
<1>2. Index(Other(a), Next1(last[a])) < Index(Other(a), nextSeq[Other(a)])
  BY <1>1 DEF IInv, PeerInv, GenuineTrack
<1>3. /\ last'[a] = Next1(last[a])
      /\ ahead'[a] \subseteq ahead[a] /\ ahead[a] \subseteq ahead'[a] \cup {last'[a]}
      /\ \A x \in Peer : x # a => last'[x] = last[x] /\ ahead'[x] = ahead[x]
  BY <1>1 DEF TypeOK, ReceiverTypeOK
<1>4. GenuineResult(a)'
  BY <1>1, <1>3, ResultUnchanged
<1>5. /\ Covered(a) \subseteq Covered(a)' /\ ReceivedSeqs(a) \subseteq ReceivedSeqs(a)'
      /\ GenuineTrack(a)'
  BY <1>1, <1>2, <1>3, TakeNext
<1>6. /\ rx'[a] \in Seq(Package) /\ GenuineAll(Other(a), rx'[a])
      /\ \A x \in Peer : x # a => rx'[x] = rx[x]
  BY <1>1, DatagramKept
<1>7. /\ cache'[a] \subseteq Package
      /\ \A h \in cache'[a] : h.rel /\ Genuine(Other(a), h)
  BY <1>1, CacheShrinks
<1> QED
  BY <1>1, <1>3, <1>4, <1>5, <1>6, <1>7, ParseStep

LEMMA ProcessCachedInv ==
    ASSUME NEW a \in Peer, TypeOK, IInv, ProcessCached(a) PROVE IInv'
<1> DEFINE r == [result[a] EXCEPT !.canUna = TRUE]
<1>1. PICK g \in cache[a] :
        /\ started[a] /\ g.seq = Next1(last[a])
        /\ cache' = [cache EXCEPT ![a] = @ \ {g}]
        /\ ahead' = [ahead EXCEPT ![a] = @ \ {g.seq}]
        /\ last' = [last EXCEPT ![a] = g.seq]
        /\ Process(a, g, r)
        /\ UNCHANGED <<nextSeq, unconf, feedback, net, started, rx>>
  BY DEF ProcessCached, RunPending, senderVars
<1>2. /\ g \in Package /\ Genuine(Other(a), g)
      /\ Index(Other(a), g.seq) < Index(Other(a), nextSeq[Other(a)])
  BY CachedGenuine
<1>3. /\ last'[a] = g.seq /\ cache'[a] \subseteq cache[a]
      /\ ahead'[a] \subseteq ahead[a] /\ ahead[a] \subseteq ahead'[a] \cup {last'[a]}
      /\ \A x \in Peer : x # a =>
            last'[x] = last[x] /\ ahead'[x] = ahead[x] /\ cache'[x] = cache[x]
  BY <1>1 DEF TypeOK, ReceiverTypeOK
<1>4. r \in ResultType /\ r.una = result[a].una /\ r.acks = result[a].acks
  BY ResultKept
<1> HIDE DEF r
<1>5. GenuineResult(a)' /\ \A x \in Peer : x # a => result'[x] = result[x]
  BY <1>1, <1>2, <1>3, <1>4, ProcessGenuine
<1>6. /\ Covered(a) \subseteq Covered(a)' /\ ReceivedSeqs(a) \subseteq ReceivedSeqs(a)'
      /\ GenuineTrack(a)'
  BY <1>1, <1>2, <1>3, TakeNext
<1>7. /\ rx'[a] \in Seq(Package) /\ GenuineAll(Other(a), rx'[a])
      /\ \A x \in Peer : x # a => rx'[x] = rx[x]
  BY <1>1, DatagramKept
<1>8. /\ cache'[a] \subseteq Package
      /\ \A h \in cache'[a] : h.rel /\ Genuine(Other(a), h)
  BY <1>3, CacheShrinks
<1> QED
  BY <1>1, <1>3, <1>5, <1>6, <1>7, <1>8, ParseStep

LEMMA FinishRecvDataInv ==
    ASSUME NEW a \in Peer, TypeOK, IInv, FinishRecvData(a) PROVE IInv'
<1>1. /\ rx' = [rx EXCEPT ![a] = <<>>]
      /\ UNCHANGED <<nextSeq, unconf, feedback, net, started, last, ahead, cache, result>>
  BY DEF FinishRecvData, senderVars
<1>2. /\ rx'[a] \in Seq(Package) /\ GenuineAll(Other(a), rx'[a])
      /\ \A x \in Peer : x # a => rx'[x] = rx[x]
  BY <1>1 DEF TypeOK, ReceiverTypeOK, GenuineAll
<1>3. GenuineResult(a)'
  BY <1>1, ResultUnchanged
<1>4. /\ Covered(a)' = Covered(a) /\ ReceivedSeqs(a)' = ReceivedSeqs(a)
      /\ GenuineTrack(a)'
  BY <1>1, TakeNone
<1>5. /\ cache'[a] \subseteq Package
      /\ \A h \in cache'[a] : h.rel /\ Genuine(Other(a), h)
  BY <1>1, CacheShrinks
<1> QED
  BY <1>1, <1>2, <1>3, <1>4, <1>5, ParseStep

-----------------------------------------------------------------------------
(* The sync of the status.                                                 *)

LEMMA NewFeedbackFields ==
    ASSUME NEW p \in Peer, TypeOK
    PROVE  /\ NewFeedback(p).received = ahead[p]
           /\ NewFeedback(p).available = (feedback[p].available \/ result[p].canUna)
           /\ NewFeedback(p).lastUNA =
                 IF result[p].canUna THEN last[p] ELSE feedback[p].lastUNA
<1>1. feedback[p] \in FeedbackType /\ result[p].canUna \in BOOLEAN
  BY DEF TypeOK, SenderTypeOK, ReceiverTypeOK, ResultType
<1>2. CASE result[p].canUna
  BY <1>1, <1>2 DEF NewFeedback, FeedbackType
<1>3. CASE ~result[p].canUna
  BY <1>1, <1>3 DEF NewFeedback, FeedbackType
<1> QED
  BY <1>1, <1>2, <1>3

(* Genuine feedback confirms only what the peer took in.                   *)
LEMMA ConfirmedTakenIn ==
    ASSUME NEW a \in Peer, TypeOK, IInv, NEW g \in unconf[a], Confirmed(a, g.seq)
    PROVE  g.seq \in ReceivedSeqs(Other(a))
<1> DEFINE b == Other(a)
<1>1. b \in Peer /\ Other(b) = a
  BY OtherPeer
<1>2. PeerInv(a) /\ PeerInv(b)
  BY <1>1 DEF IInv
<1>3. /\ result[a].una \subseteq Covered(b) /\ result[a].acks \subseteq ReceivedSeqs(b)
      /\ g.rel /\ Genuine(a, g) /\ InWindow(a) /\ GenuineTrack(b)
  BY <1>2 DEF PeerInv, GenuineResult, GenuineUnconfirmed
<1>4. g \in Package /\ g.seq \in SeqNum /\ last[b] \in SeqNum /\ nextSeq[a] \in SeqNum
  BY <1>1, PlacesType DEF Package
<1>5. CASE g.seq \in result[a].acks
  BY <1>3, <1>5
<1>6. ASSUME NEW una \in result[a].una, ~Ahead(g.seq, una)
      PROVE  g.seq \in ReceivedSeqs(b)
  <2>1. una \in SeqNum /\ started[b] /\ Index(a, una) <= Index(a, last[b])
    BY <1>1, <1>3 DEF Covered
  <2>2. Index(a, last[b]) < Index(a, nextSeq[a]) /\ Index(a, g.seq) < Index(a, nextSeq[a])
    BY <1>1, <1>3, <2>1 DEF GenuineTrack, Genuine
  <2>3. /\ Index(a, una) \in Int /\ Index(a, g.seq) \in Int /\ Index(a, last[b]) \in Int
        /\ Index(a, nextSeq[a]) \in Int /\ MaxPackages \in Int
    BY <1>4, <2>1, IndexType, WindowAssumption
  <2>4. Index(a, una) <= MaxPackages /\ Index(a, g.seq) <= MaxPackages
    BY <1>3, <2>1, <2>2, <2>3 DEF InWindow
  <2>5. Index(a, g.seq) <= Index(a, una)
    BY <1>4, <1>6, <2>1, <2>3, <2>4, IndexAhead
  <2>6. Index(a, g.seq) <= Index(a, last[b])
    BY <2>1, <2>3, <2>5
  <2> QED
    BY <1>1, <1>4, <2>1, <2>6 DEF ReceivedSeqs, Index
<1> QED
  BY <1>5, <1>6 DEF Confirmed

LEMMA SyncStep ==
    ASSUME NEW a \in Peer, TypeOK, IInv, SyncARQStatus(a),
           UNCHANGED <<nextSeq, started, last, ahead, cache, net>>,
           \A x \in Peer : rx'[x] = rx[x] \/ rx'[x] = <<>>
    PROVE  IInv'
<1>1. \A x \in Peer : Covered(x)' = Covered(x) /\ ReceivedSeqs(x)' = ReceivedSeqs(x)
  BY DEF Covered, ReceivedSeqs
<1>2. \A x \in Peer : \A g : Genuine(x, g) => Genuine(x, g)'
  BY <1>1 DEF Genuine, Index
<1>3. \A x \in Peer : \A d : GenuineAll(x, d) => GenuineAll(x, d)'
  BY <1>2 DEF GenuineAll
<1>4. /\ feedback'[a] = NewFeedback(a) /\ result'[a] = NoResult
      /\ unconf'[a] = {g \in unconf[a] : ~Confirmed(a, g.seq)}
      /\ \A x \in Peer : x # a =>
            feedback'[x] = feedback[x] /\ unconf'[x] = unconf[x] /\ result'[x] = result[x]
  BY DEF SyncARQStatus, TypeOK, SenderTypeOK, ReceiverTypeOK
<1> SUFFICES ASSUME NEW p \in Peer PROVE PeerInv(p)'
  BY DEF IInv
<1>5. PeerInv(p) /\ Other(p) \in Peer
  BY OtherPeer DEF IInv
<1>6. InWindow(p)' /\ GenuineCached(p)' /\ GenuineNet(p)' /\ GenuineTrack(p)'
  <2>1. GenuineCached(p)' /\ GenuineNet(p)'
    BY <1>2, <1>3, <1>5 DEF PeerInv, GenuineCached, GenuineNet
  <2> QED
    BY <1>5, <2>1 DEF PeerInv, InWindow, GenuineTrack, Index
<1>7. GenuineParsing(p)'
  <2>1. CASE rx'[Other(p)] = <<>>
    BY <2>1 DEF GenuineParsing, GenuineAll
  <2>2. CASE rx'[Other(p)] = rx[Other(p)]
    BY <1>3, <1>5, <2>2 DEF PeerInv, GenuineParsing
  <2> QED
    BY <1>5, <2>1, <2>2
<1>8. GenuineUnconfirmed(p)'
  BY <1>2, <1>4, <1>5 DEF PeerInv, GenuineUnconfirmed
<1>9. GenuineResult(p)'
  <2>1. NoResult.una = {} /\ NoResult.acks = {} /\ NoResult.canUna = FALSE
    BY DEF NoResult
  <2> QED
    BY <1>1, <1>4, <1>5, <2>1 DEF PeerInv, GenuineResult
<1>10. GenuineFeedback(p)'
  <2>1. CASE p = a
    <3>1. ahead[a] \subseteq ReceivedSeqs(a)
      BY <1>5, <2>1, PlacesType DEF PeerInv, GenuineTrack, ReceivedSeqs
    <3>2. result[a].canUna => last[a] \in Covered(a)
      BY <1>5, <2>1, PlacesType, IndexType DEF PeerInv, GenuineResult, Covered
    <3>3. /\ feedback'[a].received = ahead[a]
          /\ feedback'[a].available = (feedback[a].available \/ result[a].canUna)
          /\ feedback'[a].lastUNA = IF result[a].canUna THEN last[a] ELSE feedback[a].lastUNA
      BY <1>4, NewFeedbackFields
    <3>4. feedback[a].available => feedback[a].lastUNA \in Covered(a)
      BY <1>5, <2>1 DEF PeerInv, GenuineFeedback
    <3>5. feedback'[a].available => feedback'[a].lastUNA \in Covered(a)
      BY <3>2, <3>3, <3>4
    <3> QED
      BY <1>1, <2>1, <3>1, <3>3, <3>5 DEF GenuineFeedback
  <2>2. CASE p # a
    BY <1>1, <1>4, <1>5, <2>2 DEF PeerInv, GenuineFeedback
  <2> QED
    BY <2>1, <2>2
<1>11. Accounted(p)'
  <2>1. SentSeqs(p)' = SentSeqs(p)
    BY DEF SentSeqs
  <2>2. \A g \in unconf[p] : g \in unconf'[p] \/ g.seq \in ReceivedSeqs(Other(p))
    BY <1>4, ConfirmedTakenIn
  <2>3. Seqs(unconf[p]) \subseteq Seqs(unconf'[p]) \cup ReceivedSeqs(Other(p))
    BY <2>2 DEF Seqs
  <2> QED
    BY <1>1, <1>5, <2>1, <2>3 DEF PeerInv, Accounted, Seqs
<1> QED
  BY <1>6, <1>7, <1>8, <1>9, <1>10, <1>11 DEF PeerInv

LEMMA ReturnRecvTokenInv ==
    ASSUME NEW a \in Peer, TypeOK, IInv, ReturnRecvToken(a) PROVE IInv'
  BY SyncStep DEF ReturnRecvToken, senderVars, parserVars

LEMMA FinishRawDataInv ==
    ASSUME NEW a \in Peer, TypeOK, IInv, FinishRawData(a) PROVE IInv'
<1>1. /\ rx' = [rx EXCEPT ![a] = <<>>]
      /\ UNCHANGED <<nextSeq, started, last, ahead, cache, net>>
  BY DEF FinishRawData, senderVars
<1>2. rx'[a] = <<>> /\ \A x \in Peer : x # a => rx'[x] = rx[x]
  BY <1>1 DEF TypeOK, ReceiverTypeOK
<1>3. CASE parsing[a] = "ok"
  <2>1. SyncARQStatus(a)
    BY <1>3 DEF FinishRawData
  <2> QED
    BY <1>1, <1>2, <2>1, SyncStep
<1>4. CASE parsing[a] # "ok"
  <2>1. /\ result' = [result EXCEPT ![a] = NoResult]
        /\ UNCHANGED <<feedback, unconf>>
    BY <1>4 DEF FinishRawData
  <2>2. result'[a] = NoResult /\ \A x \in Peer : x # a => result'[x] = result[x]
    BY <2>1 DEF TypeOK, ReceiverTypeOK
  <2>3. GenuineResult(a)'
    BY <2>2 DEF NoResult, GenuineResult
  <2>4. /\ Covered(a)' = Covered(a) /\ ReceivedSeqs(a)' = ReceivedSeqs(a)
        /\ GenuineTrack(a)'
    BY <1>1, TakeNone
  <2>5. /\ cache'[a] \subseteq Package
        /\ \A h \in cache'[a] : h.rel /\ Genuine(Other(a), h)
    BY <1>1, CacheShrinks
  <2>6. rx'[a] \in Seq(Package) /\ GenuineAll(Other(a), rx'[a])
    BY <1>2 DEF GenuineAll
  <2> QED
    BY <1>1, <1>2, <2>1, <2>2, <2>3, <2>4, <2>5, <2>6, ParseStep
<1> QED
  BY <1>3, <1>4

-----------------------------------------------------------------------------
(* The actions of the sender.                                              *)

(* The steps that change nothing the invariant is about.                   *)
LEMMA IdleInv ==
    ASSUME IInv, UNCHANGED <<nextSeq, unconf, feedback, started, last, ahead, cache,
                             rx, result>>,
           \A x \in Peer : net'[x] \subseteq net[x]
    PROVE  IInv'
<1>1. \A x \in Peer : Covered(x)' = Covered(x) /\ ReceivedSeqs(x)' = ReceivedSeqs(x)
  BY DEF Covered, ReceivedSeqs
<1>2. \A x \in Peer : \A g : Genuine(x, g)' <=> Genuine(x, g)
  BY <1>1 DEF Genuine, Index
<1> SUFFICES ASSUME NEW p \in Peer PROVE PeerInv(p)'
  BY DEF IInv
<1>3. PeerInv(p) /\ Other(p) \in Peer
  BY OtherPeer DEF IInv
<1>4. GenuineUnconfirmed(p)' /\ GenuineCached(p)' /\ GenuineParsing(p)'
  BY <1>2, <1>3 DEF PeerInv, GenuineUnconfirmed, GenuineCached, GenuineParsing, GenuineAll
<1>5. GenuineNet(p)'
  BY <1>2, <1>3 DEF PeerInv, GenuineNet, GenuineAll
<1>6. GenuineFeedback(p)' /\ GenuineResult(p)'
  BY <1>1, <1>3 DEF PeerInv, GenuineFeedback, GenuineResult
<1>7. InWindow(p)' /\ GenuineTrack(p)'
  BY <1>3 DEF PeerInv, InWindow, GenuineTrack, Index
<1>8. Accounted(p)'
  BY <1>1, <1>3 DEF PeerInv, Accounted, SentSeqs
<1> QED
  BY <1>4, <1>5, <1>6, <1>7, <1>8 DEF PeerInv

(* A step of the sender of a keeps the invariant if the packages it sends  *)
(* and keeps are genuine, and a number it uses is that of a kept package.  *)
LEMMA SendStep ==
    ASSUME NEW a \in Peer, TypeOK, IInv,
           UNCHANGED <<started, last, ahead, cache, rx, result>>,
           \A x \in Peer : x # a =>
               /\ nextSeq'[x] = nextSeq[x] /\ unconf'[x] = unconf[x]
               /\ feedback'[x] = feedback[x],
           nextSeq'[a] \in SeqNum,
           Index(a, nextSeq[a]) <= Index(a, nextSeq'[a]), InWindow(a)',
           GenuineUnconfirmed(a)', GenuineFeedback(a)', Accounted(a)',
           net'[a] = net[a],
           \A d \in net'[Other(a)] : d \in net[Other(a)] \/ GenuineAll(a, d)'
    PROVE  IInv'
<1> DEFINE b == Other(a)
<1>1. b \in Peer /\ b # a /\ Other(b) = a
  BY OtherPeer
<1>2. PeerInv(a) /\ PeerInv(b)
  BY <1>1 DEF IInv
<1>3. \A x \in Peer : Covered(x)' = Covered(x) /\ ReceivedSeqs(x)' = ReceivedSeqs(x)
  BY DEF Covered, ReceivedSeqs
<1> HIDE DEF b
<1>4. \A x \in Peer : /\ nextSeq[x] \in SeqNum /\ nextSeq'[x] \in SeqNum
                      /\ Index(x, nextSeq[x]) <= Index(x, nextSeq'[x])
  BY <1>1, BothPeers, PlacesType, IndexType
<1>5. \A x \in Peer : \A g \in Package : Genuine(x, g) => Genuine(x, g)'
  BY <1>3, <1>4, GenuineGrows
<1>6. \A x \in Peer : \A d \in Seq(Package) : GenuineAll(x, d) => GenuineAll(x, d)'
  BY <1>3, <1>4, GenuineAllGrows
<1>7. \A x \in Peer : GenuineCached(x)' /\ GenuineParsing(x)' /\ GenuineResult(x)'
  <2> TAKE x \in Peer
  <2>1. PeerInv(x) /\ Other(x) \in Peer
    BY OtherPeer DEF IInv
  <2>2. GenuineCached(x)' /\ GenuineParsing(x)'
    BY <2>1, <1>5, <1>6, PlacesType DEF PeerInv, GenuineCached, GenuineParsing
  <2>3. GenuineResult(x)'
    BY <2>1, <1>3 DEF PeerInv, GenuineResult
  <2> QED
    BY <2>2, <2>3
<1>8. PeerInv(a)'
  <2>1. GenuineNet(a)'
    BY <1>1, <1>2, <1>6, PlacesType DEF PeerInv, GenuineNet, b
  <2>2. GenuineTrack(a)'
    BY <1>1, <1>2, <1>4 DEF PeerInv, GenuineTrack, Index, b
  <2> QED
    BY <1>7, <2>1, <2>2 DEF PeerInv
<1>9. PeerInv(b)'
  <2>1. InWindow(b)' /\ GenuineUnconfirmed(b)'
    BY <1>1, <1>2, <1>5, PlacesType DEF PeerInv, InWindow, GenuineUnconfirmed, Index
  <2>2. GenuineNet(b)'
    BY <1>1, <1>2, <1>6, PlacesType DEF PeerInv, GenuineNet
  <2>3. GenuineTrack(b)'
    <3>1. Index(a, nextSeq[a]) \in Int /\ Index(a, nextSeq'[a]) \in Int
      BY <1>4, IndexType
    <3>2. \A s \in SeqNum : Index(a, s) < Index(a, nextSeq[a]) => Index(a, s) < Index(a, nextSeq'[a])
      BY <3>1, <1>4, IndexType
    <3>3. last[b] \in SeqNum /\ ahead[b] \subseteq SeqNum
      BY <1>1, PlacesType
    <3> QED
      BY <1>1, <1>2, <3>2, <3>3 DEF PeerInv, GenuineTrack, Index
  <2>4. GenuineFeedback(b)'
    BY <1>1, <1>2, <1>3 DEF PeerInv, GenuineFeedback
  <2>5. Accounted(b)'
    BY <1>1, <1>2, <1>3 DEF PeerInv, Accounted, SentSeqs
  <2> QED
    BY <1>1, <1>7, <2>1, <2>2, <2>3, <2>4, <2>5 DEF PeerInv
<1> QED
  BY <1>1, <1>8, <1>9, BothPeers DEF IInv, b

(* Resent packages are as genuine as they were, and none is forgotten.     *)
LEMMA ResendGenuine ==
    ASSUME NEW a \in Peer, TypeOK, IInv, NEW room \in Nat,
           NEW L \in ResendLists(a, unconf[a], room)
    PROVE  /\ L \in Seq(Package) /\ GenuineAll(a, L)
           /\ Replaced(a, unconf[a], L) \subseteq Package
           /\ \A g \in Replaced(a, unconf[a], L) : g.rel /\ Genuine(a, g)
           /\ Seqs(unconf[a]) \subseteq Seqs(Replaced(a, unconf[a], L))
<1>1. unconf[a] \in SUBSET Package /\ \A g \in unconf[a] : g.rel /\ Genuine(a, g)
  BY PlacesType DEF IInv, PeerInv, GenuineUnconfirmed
<1>2. /\ L \in Seq(Package)
      /\ \A i \in DOMAIN L : \E g \in unconf[a] : L[i] = Cut(a, g)
  <2> DEFINE U == unconf[a]
  <2>1. U \in SUBSET Package /\ L \in ResendLists(a, U, room)
    BY <1>1
  <2> HIDE DEF U
  <2>2. L \in Seq(Package)
    BY <2>1, ResendListType
  <2>3. \A i \in DOMAIN L : \E g \in U : L[i] = Cut(a, g)
    BY <2>1, ResendListType
  <2> QED
    BY <2>2, <2>3 DEF U
<1>3. \A g \in unconf[a] : Cut(a, g).rel /\ Genuine(a, Cut(a, g))
  BY <1>1, CutType, GenuineCut
<1>4. \A i \in DOMAIN L : L[i].rel /\ Genuine(a, L[i])
  BY <1>2, <1>3
<1>5. Replaced(a, unconf[a], L) \subseteq Package
  BY <1>1, ReplacedType
<1>6. \A g \in Replaced(a, unconf[a], L) : g.rel /\ Genuine(a, g)
  BY <1>1, <1>4 DEF Replaced
<1>7. Seqs(unconf[a]) \subseteq Seqs(Replaced(a, unconf[a], L))
  BY DEF Replaced, Seqs
<1> QED
  BY <1>2, <1>4, <1>5, <1>6, <1>7 DEF GenuineAll

LEMMA ResendInv ==
    ASSUME NEW a \in Peer, TypeOK, IInv, Resend(a) PROVE IInv'
<1>1. PICK L \in ResendLists(a, unconf[a], MaxAssembled) : ResendList(a, L)
  BY DEF Resend
<1>2. /\ unconf' = [unconf EXCEPT ![a] = Replaced(a, unconf[a], L)]
      /\ Transmit(Other(a), L)
      /\ UNCHANGED <<nextSeq, feedback, started, last, ahead, cache, rx, result>>
  BY <1>1 DEF ResendList, senderVars, receiverVars
<1>3. MaxAssembled \in Nat
  BY LimitAssumption
<1>4. /\ GenuineAll(a, L)
      /\ \A g \in Replaced(a, unconf[a], L) : g.rel /\ Genuine(a, g)
      /\ Seqs(unconf[a]) \subseteq Seqs(Replaced(a, unconf[a], L))
  BY <1>3, ResendGenuine
<1>5. /\ unconf'[a] = Replaced(a, unconf[a], L)
      /\ \A x \in Peer : x # a => unconf'[x] = unconf[x]
  BY <1>2 DEF TypeOK, SenderTypeOK
<1>6. \A x \in Peer : Covered(x)' = Covered(x) /\ ReceivedSeqs(x)' = ReceivedSeqs(x)
  BY <1>2 DEF Covered, ReceivedSeqs
<1>7. \A g : Genuine(a, g) => Genuine(a, g)'
  BY <1>2, <1>6 DEF Genuine, Index
<1>8. GenuineUnconfirmed(a)' /\ GenuineAll(a, L)'
  BY <1>4, <1>5, <1>7 DEF GenuineUnconfirmed, GenuineAll
<1>9. PeerInv(a) /\ Other(a) \in Peer /\ Other(a) # a
  BY OtherPeer DEF IInv
<1>10. GenuineFeedback(a)' /\ InWindow(a)'
  BY <1>2, <1>6, <1>9 DEF PeerInv, GenuineFeedback, InWindow, Index
<1>11. Accounted(a)'
  BY <1>2, <1>4, <1>5, <1>6, <1>9 DEF PeerInv, Accounted, SentSeqs
<1>12. net'[a] = net[a] /\ \A d \in net'[Other(a)] : d \in net[Other(a)] \/ d = L
  BY <1>2, <1>9 DEF Transmit, TypeOK
<1>13. nextSeq'[a] \in SeqNum /\ Index(a, nextSeq[a]) <= Index(a, nextSeq'[a])
  BY <1>2, PlacesType, IndexType
<1> QED
  BY <1>2, <1>5, <1>8, <1>10, <1>11, <1>12, <1>13, SendStep

(* A new package: it is genuine, and if it is numbered it is kept.         *)
LEMMA SendPackageInv ==
    ASSUME NEW a \in Peer, TypeOK, IInv,
           NEW units \in SUBSET AllUnits, NEW una \in SUBSET SeqNum,
           NEW acks \in SUBSET SeqNum, NEW fsync \in BOOLEAN,
           una \subseteq Covered(a), acks \subseteq ReceivedSeqs(a),
           SendPackage(a, units, una, acks, fsync),
           UNCHANGED <<started, last, ahead, cache, rx, result>>,
           \A x \in Peer : x # a => feedback'[x] = feedback[x],
           GenuineFeedback(a)'
    PROVE  IInv'
<1> DEFINE reliable == units \ Discardable[a] # {}
<1>1. /\ reliable => Sub(nextSeq[a], BaseSeq[a]) < MaxPackages
      /\ nextSeq' = [nextSeq EXCEPT ![a] = IF reliable THEN Next1(nextSeq[a]) ELSE nextSeq[a]]
  BY DEF SendPackage
<1>2. nextSeq[a] \in SeqNum /\ Index(a, nextSeq[a]) \in Int /\ 0 \in SeqNum
  BY PlacesType, IndexType, SeqSpaceAssumption DEF SeqNum
<1>3. PICK package \in Package :
        /\ package.rel = reliable /\ package.una = una /\ package.acks = acks
        /\ reliable => package.seq = nextSeq[a]
        /\ PaddingResend(a, package)
  <2> DEFINE new == [rel |-> reliable, seq |-> IF reliable THEN nextSeq[a] ELSE 0,
                     first |-> reliable /\ ~opened[a], data |-> units,
                     una |-> una, acks |-> acks, fsync |-> fsync, short |-> FALSE]
  <2>1. new \in Package
    BY <1>2 DEF Package
  <2>2. PaddingResend(a, new)
    BY DEF SendPackage
  <2> QED
    BY <2>1, <2>2
<1>4. /\ package.rel = reliable /\ package.una = una /\ package.acks = acks
      /\ reliable => package.seq = nextSeq[a]
  BY <1>3
<1>5. PICK L \in ResendLists(a, unconf[a], MaxAssembled - 1) :
        /\ unconf' = [unconf EXCEPT ![a] = Replaced(a, unconf[a], L)
                                  \cup (IF package.rel THEN {package} ELSE {})]
        /\ Transmit(Other(a), <<package>> \o L)
  BY <1>3 DEF PaddingResend
<1>6. MaxAssembled - 1 \in Nat
  BY LimitAssumption
<1>7. /\ L \in Seq(Package) /\ GenuineAll(a, L)
      /\ Replaced(a, unconf[a], L) \subseteq Package
      /\ \A g \in Replaced(a, unconf[a], L) : g.rel /\ Genuine(a, g)
      /\ Seqs(unconf[a]) \subseteq Seqs(Replaced(a, unconf[a], L))
  BY <1>6, ResendGenuine
<1>8. /\ nextSeq'[a] = IF reliable THEN Next1(nextSeq[a]) ELSE nextSeq[a]
      /\ \A x \in Peer : x # a => nextSeq'[x] = nextSeq[x]
  BY <1>1 DEF TypeOK, SenderTypeOK
<1>9. /\ unconf'[a] = Replaced(a, unconf[a], L)
                        \cup (IF package.rel THEN {package} ELSE {})
      /\ \A x \in Peer : x # a => unconf'[x] = unconf[x]
  BY <1>5 DEF TypeOK, SenderTypeOK
<1>10. /\ PeerInv(a) /\ Other(a) \in Peer /\ Other(a) # a
       /\ Covered(a)' = Covered(a)
       /\ \A x \in Peer : ReceivedSeqs(x)' = ReceivedSeqs(x)
  BY OtherPeer DEF IInv, Covered, ReceivedSeqs
<1>11. reliable => /\ Index(a, nextSeq[a]) < MaxPackages
                   /\ Next1(nextSeq[a]) \in SeqNum
                   /\ Index(a, Next1(nextSeq[a])) = Index(a, nextSeq[a]) + 1
  <2> SUFFICES ASSUME reliable
               PROVE  /\ Index(a, nextSeq[a]) < MaxPackages
                      /\ Next1(nextSeq[a]) \in SeqNum
                      /\ Index(a, Next1(nextSeq[a])) = Index(a, nextSeq[a]) + 1
    OBVIOUS
  <2>1. Index(a, nextSeq[a]) < MaxPackages
    BY <1>1 DEF Index
  <2>2. Index(a, nextSeq[a]) <= MaxPackages
    BY <1>2, <2>1, WindowAssumption
  <2> QED
    BY <1>2, <2>1, <2>2, IndexStep
<1>12. /\ nextSeq'[a] \in SeqNum
       /\ Index(a, nextSeq[a]) <= Index(a, nextSeq'[a])
       /\ Index(a, nextSeq'[a]) <= MaxPackages
       /\ reliable => Index(a, nextSeq'[a]) = Index(a, nextSeq[a]) + 1
  <2> HIDE DEF reliable
  <2>1. CASE reliable
    BY <2>1, <1>2, <1>8, <1>11, WindowAssumption
  <2>2. CASE ~reliable
    BY <2>2, <1>2, <1>8, <1>10 DEF PeerInv, InWindow
  <2> QED
    BY <2>1, <2>2
<1> HIDE DEF reliable
<1>13. Genuine(a, package)'
  <2>1. package.rel => Index(a, package.seq) < Index(a, nextSeq'[a])
    BY <1>2, <1>4, <1>12
  <2> QED
    BY <1>4, <1>10, <2>1 DEF Genuine, Index
<1>14. \A g \in Package : Genuine(a, g) => Genuine(a, g)'
  BY <1>2, <1>10, <1>12, GenuineGrows
<1>15. GenuineUnconfirmed(a)'
  BY <1>7, <1>9, <1>13, <1>14 DEF GenuineUnconfirmed
<1>16. GenuineAll(a, <<package>> \o L)'
  <2>1. GenuineAll(a, L)'
    BY <1>2, <1>7, <1>10, <1>12, GenuineAllGrows
  <2>2. \A i \in DOMAIN (<<package>> \o L) :
          \/ (<<package>> \o L)[i] = package
          \/ \E j \in DOMAIN L : (<<package>> \o L)[i] = L[j]
    BY <1>3, <1>7
  <2> QED
    BY <1>13, <2>1, <2>2 DEF GenuineAll
<1>17. Accounted(a)'
  <2>1. SentSeqs(a) \subseteq Seqs(unconf[a]) \cup ReceivedSeqs(Other(a))
    BY <1>10 DEF PeerInv, Accounted
  <2>2. \A s \in SentSeqs(a)' : s \in SentSeqs(a) \/ (reliable /\ s = nextSeq[a])
    <3> SUFFICES ASSUME NEW s \in SeqNum, Index(a, s) < Index(a, nextSeq'[a])
                 PROVE  s \in SentSeqs(a) \/ (reliable /\ s = nextSeq[a])
      BY DEF SentSeqs, Index
    <3>1. Index(a, s) \in Int
      BY IndexType
    <3>2. CASE Index(a, s) < Index(a, nextSeq[a])
      BY <3>2 DEF SentSeqs, Index
    <3>3. CASE ~(Index(a, s) < Index(a, nextSeq[a]))
      <4>1. reliable
        BY <1>8, <3>3
      <4>2. Index(a, s) = Index(a, nextSeq[a])
        BY <1>2, <1>12, <3>1, <3>3, <4>1
      <4> QED
        BY <1>2, <4>1, <4>2, IndexSame
    <3> QED
      BY <3>2, <3>3
  <2>3. reliable => nextSeq[a] \in Seqs(unconf'[a])
    BY <1>4, <1>9 DEF Seqs
  <2>4. Seqs(unconf[a]) \subseteq Seqs(unconf'[a])
    BY <1>7, <1>9 DEF Seqs
  <2> QED
    BY <1>10, <2>1, <2>2, <2>3, <2>4 DEF Accounted, Seqs
<1>18. /\ net'[a] = net[a]
       /\ \A d \in net'[Other(a)] : d \in net[Other(a)] \/ d = <<package>> \o L
  BY <1>5, <1>10 DEF Transmit, TypeOK
<1>19. InWindow(a)'
  BY <1>12 DEF InWindow, Index
<1> QED
  BY <1>8, <1>9, <1>12, <1>15, <1>16, <1>17, <1>18, <1>19, SendStep

(* Sending gives feedback without changing what there is to tell.          *)
SameUna(a) ==
    /\ feedback'[a].available = feedback[a].available
    /\ feedback'[a].lastUNA = feedback[a].lastUNA
    /\ feedback'[a].received \subseteq feedback[a].received
    /\ \A x \in Peer : x # a => feedback'[x] = feedback[x]

LEMMA UrgentFeedback ==
    ASSUME NEW a \in Peer, TypeOK, NEW f \in FeedbackType, NEW R \in SUBSET SeqNum,
           NEW A \in SUBSET SeqNum, NEW told \in BOOLEAN,
           R \subseteq feedback[a].received, f = feedback[a],
           feedback' = [feedback EXCEPT ![a] =
               WithAcks(IF told THEN WithUNA([f EXCEPT !.force = FALSE, !.received = R])
                                ELSE [f EXCEPT !.force = FALSE, !.received = R], A)]
    PROVE  SameUna(a)
<1> DEFINE f1 == [f EXCEPT !.force = FALSE, !.received = R]
           f2 == IF told THEN WithUNA(f1) ELSE f1
<1>1. /\ f1 \in FeedbackType /\ f1.available = f.available
      /\ f1.lastUNA = f.lastUNA /\ f1.received = R
  BY DEF FeedbackType
<1> HIDE DEF f1
<1>2. /\ f2 \in FeedbackType /\ f2.available = f.available
      /\ f2.lastUNA = f.lastUNA /\ f2.received = R
  BY <1>1 DEF WithUNA, FeedbackType
<1>3. feedback' = [feedback EXCEPT ![a] = WithAcks(f2, A)]
  BY DEF f1
<1> HIDE DEF f2
<1>4. /\ WithAcks(f2, A).available = f.available
      /\ WithAcks(f2, A).lastUNA = f.lastUNA
      /\ WithAcks(f2, A).received = R \ A
  BY <1>2 DEF WithAcks, FeedbackType
<1>5. /\ feedback'[a] = WithAcks(f2, A)
      /\ \A x \in Peer : x # a => feedback'[x] = feedback[x]
  BY <1>3 DEF TypeOK, SenderTypeOK
<1> QED
  BY <1>4, <1>5 DEF SameUna

(* What is told is genuine, and stays so.                                  *)
LEMMA FeedbackKept ==
    ASSUME NEW a \in Peer, IInv, SameUna(a), UNCHANGED <<started, last, ahead>>
    PROVE  GenuineFeedback(a)'
<1>1. Covered(a)' = Covered(a) /\ ReceivedSeqs(a)' = ReceivedSeqs(a)
  BY DEF Covered, ReceivedSeqs
<1>2. GenuineFeedback(a)
  BY DEF IInv, PeerInv
<1> QED
  BY <1>1, <1>2 DEF GenuineFeedback, SameUna

LEMMA SendUrgentParts ==
    ASSUME NEW a \in Peer, TypeOK, SendUrgent(a)
    PROVE  /\ SameUna(a)
           /\ \E units \in SUBSET AllUnits, una \in SUBSET SeqNum,
                 acks \in SUBSET SeqNum, fsync \in BOOLEAN :
                 /\ una # {} => feedback[a].available /\ una = {feedback[a].lastUNA}
                 /\ acks \subseteq feedback[a].received
                 /\ SendPackage(a, units, una, acks, fsync)
<1>1. PICK ask \in BOOLEAN, n \in taken[a] .. pushed[a], R \in Cleaned(a) :
        UrgentPackage(a, ask, feedback[a].force /\ ~ask, R, n)
  BY DEF SendUrgent
<1>2. feedback[a] \in FeedbackType
  BY DEF TypeOK, SenderTypeOK
<1>3. PICK f \in FeedbackType : f = feedback[a]
  BY <1>2
<1>4. PICK una \in SUBSET SeqNum :
        una = IF ((f.force /\ ~ask) /\ f.available) \/ NeedUNA(f) THEN {f.lastUNA} ELSE {}
  BY <1>3 DEF FeedbackType
<1>5. PICK A \in AckChoices(R) :
        /\ feedback' = [feedback EXCEPT ![a] =
             WithAcks(IF una # {} THEN WithUNA([f EXCEPT !.force = FALSE, !.received = R])
                                  ELSE [f EXCEPT !.force = FALSE, !.received = R], A)]
        /\ SendPackage(a, Live(a, n), una, A, ask)
  BY <1>1, <1>3, <1>4 DEF UrgentPackage
<1>6. /\ R \in SUBSET SeqNum /\ A \in SUBSET SeqNum /\ A \subseteq R
      /\ Live(a, n) \in SUBSET AllUnits
  BY AcksType, LiveType
<1>7. R \subseteq feedback[a].received
  BY DEF Cleaned
<1>8. PICK told \in BOOLEAN : told <=> una # {}
  OBVIOUS
<1>9. SameUna(a)
  BY <1>3, <1>5, <1>6, <1>7, <1>8, UrgentFeedback
<1>10. una # {} => feedback[a].available /\ una = {feedback[a].lastUNA}
  BY <1>3, <1>4 DEF NeedUNA
<1>11. A \subseteq feedback[a].received
  BY <1>6, <1>7
<1> QED
  BY <1>5, <1>6, <1>9, <1>10, <1>11

LEMMA SendCommonParts ==
    ASSUME NEW a \in Peer, TypeOK, SendCommon(a)
    PROVE  /\ SameUna(a)
           /\ \E units \in SUBSET AllUnits, una \in SUBSET SeqNum :
                 /\ una # {} => feedback[a].available /\ una = {feedback[a].lastUNA}
                 /\ SendPackage(a, units, una, {}, FALSE)
<1> DEFINE f1 == [feedback[a] EXCEPT !.received = {}]
           una(sync) == IF sync THEN {feedback[a].lastUNA} ELSE {}
<1>1. PICK n \in taken[a] .. pushed[a], sync \in BOOLEAN :
        /\ sync => NeedUNA(feedback[a])
        /\ feedback' = [feedback EXCEPT ![a] = IF sync THEN WithUNA(f1) ELSE f1]
        /\ SendPackage(a, Live(a, n), una(sync), {}, FALSE)
  BY DEF SendCommon
<1>2. feedback[a] \in FeedbackType
  BY DEF TypeOK, SenderTypeOK
<1>3. /\ f1 \in FeedbackType /\ f1.available = feedback[a].available
      /\ f1.lastUNA = feedback[a].lastUNA /\ f1.received = {}
  BY <1>2 DEF FeedbackType
<1>4. una(sync) \in SUBSET SeqNum /\ Live(a, n) \in SUBSET AllUnits
  BY <1>2, LiveType DEF FeedbackType
<1>5. una(sync) # {} => feedback[a].available /\ una(sync) = {feedback[a].lastUNA}
  BY <1>1 DEF NeedUNA
<1> HIDE DEF f1
<1>6. /\ WithUNA(f1).available = f1.available /\ WithUNA(f1).received = {}
      /\ WithUNA(f1).lastUNA = f1.lastUNA
  BY <1>3 DEF WithUNA, FeedbackType
<1>7. /\ feedback'[a] = IF sync THEN WithUNA(f1) ELSE f1
      /\ \A x \in Peer : x # a => feedback'[x] = feedback[x]
  BY <1>1 DEF TypeOK, SenderTypeOK
<1>8. SameUna(a)
  BY <1>3, <1>6, <1>7 DEF SameUna
<1> HIDE DEF una
<1> QED
  BY <1>1, <1>4, <1>5, <1>8

LEMMA SendNothingParts ==
    ASSUME NEW a \in Peer, TypeOK, SendNothing(a) PROVE SameUna(a)
<1>1. feedback[a] \in FeedbackType
  BY DEF TypeOK, SenderTypeOK
<1>2. /\ feedback'[a] = [[feedback[a] EXCEPT !.force = FALSE] EXCEPT !.received = {}]
      /\ \A x \in Peer : x # a => feedback'[x] = feedback[x]
  BY DEF SendNothing, TypeOK, SenderTypeOK
<1> QED
  BY <1>1, <1>2 DEF SameUna, FeedbackType

LEMMA ResendParts == ASSUME NEW a \in Peer, Resend(a) PROVE UNCHANGED feedback
  BY DEF Resend, ResendList

LEMMA SendUrgentInv ==
    ASSUME NEW a \in Peer, TypeOK, IInv, SendUrgent(a) PROVE IInv'
<1>1. UNCHANGED <<started, last, ahead, cache, rx, result>>
  BY DEF SendUrgent, receiverVars
<1>2. SameUna(a)
  BY SendUrgentParts
<1>3. PICK units \in SUBSET AllUnits, una \in SUBSET SeqNum,
           acks \in SUBSET SeqNum, fsync \in BOOLEAN :
        /\ una # {} => feedback[a].available /\ una = {feedback[a].lastUNA}
        /\ acks \subseteq feedback[a].received
        /\ SendPackage(a, units, una, acks, fsync)
  BY SendUrgentParts
<1>4. una \subseteq Covered(a) /\ acks \subseteq ReceivedSeqs(a)
  BY <1>3 DEF IInv, PeerInv, GenuineFeedback
<1>5. GenuineFeedback(a)'
  BY <1>1, <1>2, FeedbackKept
<1>6. \A x \in Peer : x # a => feedback'[x] = feedback[x]
  BY <1>2 DEF SameUna
<1> QED
  BY <1>1, <1>3, <1>4, <1>5, <1>6, SendPackageInv

LEMMA SendCommonInv ==
    ASSUME NEW a \in Peer, TypeOK, IInv, SendCommon(a) PROVE IInv'
<1>1. UNCHANGED <<started, last, ahead, cache, rx, result>>
  BY DEF SendCommon, receiverVars
<1>2. SameUna(a)
  BY SendCommonParts
<1>3. PICK units \in SUBSET AllUnits, una \in SUBSET SeqNum :
        /\ una # {} => feedback[a].available /\ una = {feedback[a].lastUNA}
        /\ SendPackage(a, units, una, {}, FALSE)
  BY SendCommonParts
<1>4. una \subseteq Covered(a) /\ {} \subseteq ReceivedSeqs(a)
  BY <1>3 DEF IInv, PeerInv, GenuineFeedback
<1>5. GenuineFeedback(a)'
  BY <1>1, <1>2, FeedbackKept
<1>6. \A x \in Peer : x # a => feedback'[x] = feedback[x]
  BY <1>2 DEF SameUna
<1>7. {} \in SUBSET SeqNum /\ FALSE \in BOOLEAN
  OBVIOUS
<1> QED
  BY <1>1, <1>3, <1>4, <1>5, <1>6, <1>7, SendPackageInv

LEMMA SendNothingInv ==
    ASSUME NEW a \in Peer, TypeOK, IInv, SendNothing(a) PROVE IInv'
<1>1. UNCHANGED <<nextSeq, unconf, net, started, last, ahead, cache, rx, result>>
  BY DEF SendNothing, receiverVars
<1>2. SameUna(a)
  BY SendNothingParts
<1>3. PeerInv(a)
  BY DEF IInv
<1>4. Covered(a)' = Covered(a) /\ \A x \in Peer : ReceivedSeqs(x)' = ReceivedSeqs(x)
  BY <1>1 DEF Covered, ReceivedSeqs
<1>5. \A g : Genuine(a, g) => Genuine(a, g)'
  BY <1>1, <1>4 DEF Genuine, Index
<1>6. GenuineUnconfirmed(a)' /\ InWindow(a)'
  BY <1>1, <1>3, <1>5 DEF PeerInv, GenuineUnconfirmed, InWindow, Index
<1>7. Accounted(a)'
  BY <1>1, <1>3, <1>4, OtherPeer DEF PeerInv, Accounted, SentSeqs
<1>8. GenuineFeedback(a)'
  BY <1>1, <1>2, FeedbackKept
<1>9. nextSeq'[a] \in SeqNum /\ Index(a, nextSeq[a]) <= Index(a, nextSeq'[a])
  BY <1>1, PlacesType, IndexType
<1> QED
  BY <1>1, <1>2, <1>6, <1>7, <1>8, <1>9, SendStep DEF SameUna

LEMMA OthersInv ==
    ASSUME NEW a \in Peer, TypeOK, IInv,
           Push(a) \/ Expire(a) \/ Lose(a) \/ JoinEpoll(a)
    PROVE  IInv'
<1>1. CASE Lose(a)
  <2>1. \A x \in Peer : net'[x] \subseteq net[x]
    BY <1>1 DEF Lose, TypeOK
  <2> QED
    BY <1>1, <2>1, IdleInv DEF Lose, senderVars, receiverVars
<1>2. CASE Push(a) \/ Expire(a) \/ JoinEpoll(a)
  BY <1>2, IdleInv DEF Push, Expire, JoinEpoll, senderVars, receiverVars
<1> QED
  BY <1>1, <1>2

-----------------------------------------------------------------------------
(* The theorems.                                                           *)

LEMMA InitInv == ASSUME Init PROVE IInv
<1> SUFFICES ASSUME NEW p \in Peer PROVE PeerInv(p)
  BY DEF IInv
<1>1. Other(p) \in Peer /\ BaseSeq[p] \in SeqNum
  BY OtherPeer, PerPeerAssumption
<1>2. Index(p, nextSeq[p]) = 0
  BY <1>1, SeqSpaceAssumption DEF Init, Index, Sub, SeqNum
<1>3. InWindow(p) /\ GenuineUnconfirmed(p) /\ GenuineCached(p) /\ GenuineTrack(p)
  BY <1>1, <1>2, WindowAssumption
     DEF Init, InWindow, GenuineUnconfirmed, GenuineCached, GenuineTrack
<1>4. GenuineParsing(p) /\ GenuineNet(p)
  BY <1>1 DEF Init, GenuineParsing, GenuineNet, GenuineAll
<1>5. GenuineFeedback(p) /\ GenuineResult(p)
  BY DEF Init, NoResult, GenuineFeedback, GenuineResult
<1>6. Accounted(p)
  <2>1. \A s \in SeqNum : ~(Index(p, s) < Index(p, nextSeq[p]))
    BY <1>2, IndexType
  <2> QED
    BY <2>1 DEF Accounted, SentSeqs, Index
<1> QED
  BY <1>3, <1>4, <1>5, <1>6 DEF PeerInv

LEMMA NextInv == ASSUME TypeOK, IInv, [Next]_vars PROVE IInv'
<1>1. CASE UNCHANGED vars
  BY <1>1, IdleInv DEF vars, senderVars, receiverVars
<1>2. ASSUME NEW p \in Peer, PeerNext(p) PROVE IInv'
  <2>1. CASE Push(p) \/ Expire(p) \/ Lose(p) \/ JoinEpoll(p)
    BY <2>1, OthersInv
  <2>2. CASE Send(p)
    BY <2>2, SendUrgentInv, SendCommonInv, SendNothingInv, ResendInv DEF Send
  <2>3. CASE Receive(p)
    BY <2>3, ReceiveInv
  <2>4. CASE Parse(p)
    BY <2>4, ParseDiscardableInv, ParseDuplicateInv, ParseNextInv, ParseAheadInv,
       ParseCacheInv, ParseIgnoredInv, ParseFirstInv, ParseEarlyInv,
       ProcessEarlyInv, AdvanceLastInv, ProcessCachedInv DEF Parse
  <2>5. CASE Finish(p)
    BY <2>5, FinishRecvDataInv, ReturnRecvTokenInv, FinishRawDataInv DEF Finish
  <2> QED
    BY <1>2, <2>1, <2>2, <2>3, <2>4, <2>5 DEF PeerNext
<1> QED
  BY <1>1, <1>2 DEF Next

(* A sender forgets a package only when its peer has taken it in, for any  *)
(* sequence space, base number, limits and number of packages, as long as  *)
(* a session stays below half the space: no late, repeated or reordered    *)
(* feedback ever makes cleanByUNA or cleanByAcks confirm a lost package.   *)
THEOREM ConfirmedInvariant == Spec => []ConfirmedWasReceived
<1>1. Init => TypeOK /\ IInv
  BY InitType, InitInv
<1>2. TypeOK /\ IInv /\ [Next]_vars => TypeOK' /\ IInv'
  BY NextType, NextInv
<1>3. IInv => ConfirmedWasReceived
  BY DEF IInv, PeerInv, Accounted, ConfirmedWasReceived
<1> QED
  BY <1>1, <1>2, <1>3, PTL DEF Spec

-----------------------------------------------------------------------------
(* The UNA never goes back.                                                *)

UnaKept(p) ==
    feedback[p].available
       => /\ feedback'[p].available
          /\ ~Ahead(feedback[p].lastUNA, feedback'[p].lastUNA)

LEMMA NotAheadOfItself == ASSUME NEW s \in SeqNum PROVE ~Ahead(s, s)
  BY SeqSpaceAssumption DEF Ahead, Sub, SeqNum

LEMMA SameUnaKept ==
    ASSUME NEW p \in Peer, TypeOK,
           feedback'[p].available = feedback[p].available,
           feedback'[p].lastUNA = feedback[p].lastUNA
    PROVE  UnaKept(p)
<1>1. feedback[p].lastUNA \in SeqNum
  BY DEF TypeOK, SenderTypeOK, FeedbackType
<1> QED
  BY <1>1, NotAheadOfItself DEF UnaKept

(* last is at or past what was reported: both are numbers of this session. *)
LEMMA SyncUnaKept ==
    ASSUME NEW a \in Peer, TypeOK, IInv, SyncARQStatus(a)
    PROVE  \A p \in Peer : UnaKept(p)
<1> DEFINE f == feedback[a]
           b == Other(a)
<1>1. /\ feedback'[a] = NewFeedback(a)
      /\ \A x \in Peer : x # a => feedback'[x] = feedback[x]
  BY DEF SyncARQStatus, TypeOK, SenderTypeOK
<1>2. /\ feedback'[a].available = (f.available \/ result[a].canUna)
      /\ feedback'[a].lastUNA = IF result[a].canUna THEN last[a] ELSE f.lastUNA
  BY <1>1, NewFeedbackFields
<1>3. CASE ~result[a].canUna
  <2>1. f.available \in BOOLEAN
    BY DEF TypeOK, SenderTypeOK, FeedbackType
  <2> QED
    BY <1>1, <1>2, <1>3, <2>1, SameUnaKept
<1>4. CASE result[a].canUna
  <2> SUFFICES ASSUME f.available PROVE ~Ahead(f.lastUNA, last[a])
    BY <1>1, <1>2, <1>4, SameUnaKept DEF UnaKept
  <2>1. b \in Peer /\ PeerInv(a) /\ PeerInv(b)
    BY OtherPeer DEF IInv
  <2>2. /\ f.lastUNA \in SeqNum /\ last[a] \in SeqNum /\ nextSeq[b] \in SeqNum
        /\ Index(b, f.lastUNA) <= Index(b, last[a]) /\ started[a]
    BY <2>1, PlacesType DEF PeerInv, GenuineFeedback, Covered
  <2>3. Index(b, last[a]) < Index(b, nextSeq[b]) /\ Index(b, nextSeq[b]) <= MaxPackages
    BY <2>1, <2>2 DEF PeerInv, GenuineTrack, InWindow
  <2>4. /\ Index(b, f.lastUNA) \in Int /\ Index(b, last[a]) \in Int
        /\ Index(b, nextSeq[b]) \in Int /\ MaxPackages \in Int
    BY <2>1, <2>2, IndexType, WindowAssumption
  <2>5. Index(b, f.lastUNA) <= MaxPackages /\ Index(b, last[a]) <= MaxPackages
    BY <2>2, <2>3, <2>4
  <2> HIDE DEF f, b
  <2> QED
    BY <2>1, <2>2, <2>4, <2>5, IndexAhead
<1> QED
  BY <1>3, <1>4

LEMMA NextUnaKept ==
    ASSUME TypeOK, IInv, [Next]_vars PROVE \A p \in Peer : UnaKept(p)
<1>1. CASE UNCHANGED feedback
  BY <1>1, SameUnaKept
<1>2. ASSUME NEW a \in Peer, SameUna(a) PROVE \A p \in Peer : UnaKept(p)
  BY <1>2, SameUnaKept DEF SameUna
<1>3. ASSUME NEW a \in Peer, PeerNext(a) PROVE \A p \in Peer : UnaKept(p)
  <2>1. CASE Push(a) \/ Expire(a) \/ Lose(a) \/ JoinEpoll(a) \/ Receive(a)
    BY <1>1, <2>1 DEF Push, Expire, Lose, JoinEpoll, Receive
  <2>2. CASE Send(a)
    BY <1>1, <1>2, <2>2, SendUrgentParts, SendCommonParts, SendNothingParts,
       ResendParts DEF Send
  <2>3. CASE Parse(a)
    BY <1>1, <2>3 DEF Parse, ParseDiscardable, ParseDuplicate, ParseNext, ParseAhead,
       ParseCache, ParseIgnored, ParseFirst, ParseEarly, ProcessEarly, AdvanceLast,
       ProcessCached
  <2>4. CASE Finish(a)
    <3>1. UNCHANGED feedback \/ SyncARQStatus(a)
      BY <2>4 DEF Finish, FinishRecvData, ReturnRecvToken, FinishRawData
    <3> QED
      BY <1>1, <3>1, SyncUnaKept
  <2> QED
    BY <1>3, <2>1, <2>2, <2>3, <2>4 DEF PeerNext
<1>4. CASE UNCHANGED vars
  BY <1>1, <1>4 DEF vars
<1> QED
  BY <1>3, <1>4 DEF Next

(* Once a peer reported a UNA it never reports an older one, in the        *)
(* wrapped order of the numbers: every sync, whichever datagrams it ends,  *)
(* moves _lastUNA forward or leaves it.                                    *)
THEOREM UnaMovesForward == Spec => UnaForward
<1>1. Init => TypeOK /\ IInv
  BY InitType, InitInv
<1>2. TypeOK /\ IInv /\ [Next]_vars => TypeOK' /\ IInv'
  BY NextType, NextInv
<1>3. TypeOK /\ IInv /\ [Next]_vars =>
        [\A p \in Peer : feedback[p].available
          => /\ feedback'[p].available
             /\ ~Ahead(feedback[p].lastUNA, feedback'[p].lastUNA)]_vars
  BY NextUnaKept DEF UnaKept
<1> QED
  BY <1>1, <1>2, <1>3, PTL DEF Spec, UnaForward
=============================================================================
