--------------------------- MODULE UdpArq_proofs ---------------------------
(***************************************************************************)
(* Proofs about the ARQ engine: its sequence arithmetic, its type          *)
(* invariant and its flow control.                                         *)
(***************************************************************************)
EXTENDS UdpArq, TLAPS, SequenceTheorems, FiniteSetTheorems

-----------------------------------------------------------------------------
(* The sequence arithmetic.  A session is numbered from some base; the     *)
(* index of x is its distance Sub(x, base) from it.  Within a window       *)
(* shorter than half the sequence space, the wrapped comparison of two     *)
(* numbers is the comparison of their indexes, wherever the base is.       *)

(* The operations stay in the sequence space.                              *)
LEMMA SeqTypes ==
    ASSUME NEW x \in SeqNum, NEW y \in SeqNum, NEW n \in 0 .. SeqSpace
    PROVE  /\ Add(x, n) \in SeqNum
           /\ Sub(x, y) \in SeqNum
           /\ Next1(x) \in SeqNum
    BY SeqSpaceAssumption DEF SeqNum, Add, Sub, Next1

(* A number is determined by its distance from the base.                   *)
LEMMA IndexInjective ==
    ASSUME NEW base \in SeqNum, NEW x \in SeqNum, NEW y \in SeqNum,
           Sub(x, base) = Sub(y, base)
    PROVE  x = y
    BY SeqSpaceAssumption DEF SeqNum, Sub

(* Stepping on adds one to the index, up to the end of the space.          *)
LEMMA IndexNext ==
    ASSUME NEW base \in SeqNum, NEW x \in SeqNum,
           Sub(x, base) < SeqSpace - 1
    PROVE  Sub(Next1(x), base) = Sub(x, base) + 1
    BY SeqSpaceAssumption DEF SeqNum, Sub, Next1, Add

(* The comparison of processReliableAndMonitoredPackage, cleaningFeedback- *)
(* Acks and cleanByUNA orders the numbers of one session by their index,   *)
(* whether or not they wrap in between.                                    *)
THEOREM AheadIsIndexOrder ==
    ASSUME NEW base \in SeqNum, NEW x \in SeqNum, NEW y \in SeqNum,
           2 * Sub(x, base) < SeqSpace, 2 * Sub(y, base) < SeqSpace
    PROVE  Ahead(x, y) <=> Sub(x, base) > Sub(y, base)
    BY SeqSpaceAssumption DEF SeqNum, Sub, Ahead

-----------------------------------------------------------------------------
(* Helpers.                                                                *)

(* There are two peers.                                                    *)
LEMMA OtherPeer ==
    ASSUME NEW p \in Peer
    PROVE  Other(p) \in Peer /\ Other(p) # p /\ Other(Other(p)) = p
<1>1. PICK a \in Peer, b \in Peer : a # b /\ Peer = {a, b}
  BY PeerAssumption
<1>2. \A x \in Peer : \E y \in Peer : y # x
  BY <1>1
<1>3. \A x \in Peer : Other(x) \in Peer /\ Other(x) # x
  BY <1>2 DEF Other
<1> QED
  BY <1>1, <1>3

LEMMA UnitType ==
    ASSUME NEW p \in Peer, NEW n \in Nat, n <= MaxUnits[p]
    PROVE  1 .. n \subseteq AllUnits
  BY PerPeerAssumption DEF AllUnits, Unit

(* Cutting expired data keeps the package's number and kind.               *)
LEMMA CutType ==
    ASSUME NEW p, NEW g \in Package
    PROVE  /\ Cut(p, g) \in Package
           /\ Cut(p, g).seq = g.seq /\ Cut(p, g).rel = g.rel
           /\ Cut(p, g).una = g.una /\ Cut(p, g).acks = g.acks
  BY DEF Cut, Package

(* A resend list is a sequence of packages, each one of U, perhaps cut.    *)
LEMMA ResendListType ==
    ASSUME NEW p \in Peer, NEW U \in SUBSET Package, NEW room \in Nat,
           NEW L \in ResendLists(p, U, room)
    PROVE  /\ L \in Seq(Package)
           /\ \A i \in DOMAIN L : \E g \in U : L[i] = Cut(p, g)
           /\ \A i, j \in DOMAIN L : i # j => L[i].seq # L[j].seq
<1>1. PICK n \in 0 .. room : L \in [1 .. n -> CutAll(p, U)]
  BY DEF ResendLists
<1>2. \A g \in U : Cut(p, g) \in Package
  BY CutType
<1>3. CutAll(p, U) \subseteq Package
  BY <1>2 DEF CutAll
<1>4. L \in [1 .. n -> Package]
  BY <1>1, <1>3
<1>5. L \in Seq(Package)
  BY <1>4
<1> QED
  BY <1>1, <1>5 DEF ResendLists, CutAll

LEMMA ReplacedType ==
    ASSUME NEW p \in Peer, NEW U \in SUBSET Package, NEW room \in Nat,
           NEW L \in ResendLists(p, U, room)
    PROVE  Replaced(p, U, L) \in SUBSET Package
<1>1. L \in Seq(Package)
  BY ResendListType
<1>2. \A i \in DOMAIN L : L[i] \in Package
  BY <1>1
<1> QED
  BY <1>2 DEF Replaced

(* What Transmit puts on the network.                                      *)
LEMMA TransmitType ==
    ASSUME NEW q \in Peer, NEW d \in Seq(Package),
           net \in [Peer -> SUBSET Seq(Package)], Transmit(q, d)
    PROVE  net' \in [Peer -> SUBSET Seq(Package)]
  BY DEF Transmit

LEMMA ProcessType ==
    ASSUME NEW p \in Peer, NEW g \in Package, NEW r \in ResultType,
           parsed \in [Peer -> [AllUnits -> Nat]], result \in [Peer -> ResultType],
           Process(p, g, r)
    PROVE  /\ parsed' \in [Peer -> [AllUnits -> Nat]]
           /\ result' \in [Peer -> ResultType]
<1>1. ASSUME NEW counts \in [AllUnits -> Nat]
      PROVE  ParseData(counts, g.data) \in [AllUnits -> Nat]
  BY DEF ParseData, Counted, CountBound
<1>2. NewestUNA(r, g.una) \in SUBSET SeqNum
  BY DEF NewestUNA, ResultType, Package
<1>3. ParseFeedback(r, g) \in ResultType
  BY <1>2 DEF ParseFeedback, ResultType, Package
<1>4. parsed' \in [Peer -> [AllUnits -> Nat]]
  BY <1>1 DEF Process
<1> QED
  BY <1>3, <1>4 DEF Process

LEMMA ContinueType ==
    ASSUME NEW p \in Peer, NEW ok \in BOOLEAN, rx[p] # <<>>,
           rx \in [Peer -> Seq(Package)],
           parsing \in [Peer -> {"idle", "ok", "failed"}], Continue(p, ok)
    PROVE  /\ rx' \in [Peer -> Seq(Package)]
           /\ parsing' \in [Peer -> {"idle", "ok", "failed"}]
<1>1. Tail(rx[p]) \in Seq(Package) /\ <<>> \in Seq(Package)
  BY HeadTailProperties
<1> QED
  BY <1>1 DEF Continue

-----------------------------------------------------------------------------
(* Sending preserves the types.                                            *)

LEMMA PaddingResendType ==
    ASSUME NEW p \in Peer, NEW package \in Package, TypeOK,
           PaddingResend(p, package)
    PROVE  /\ unconf' \in [Peer -> SUBSET Package]
           /\ net' \in [Peer -> SUBSET Seq(Package)]
<1>1. unconf[p] \in SUBSET Package /\ MaxAssembled - 1 \in Nat
  BY LimitAssumption DEF TypeOK, SenderTypeOK
<1>2. PICK L \in ResendLists(p, unconf[p], MaxAssembled - 1) :
        /\ unconf' = [unconf EXCEPT ![p] = Replaced(p, unconf[p], L)
                                  \cup (IF package.rel THEN {package} ELSE {})]
        /\ Transmit(Other(p), <<package>> \o L)
  BY DEF PaddingResend
<1>3. <<package>> \o L \in Seq(Package)
  <2>1. L \in Seq(Package)
    BY <1>1, ResendListType
  <2>2. <<package>> \in Seq(Package)
    OBVIOUS
  <2> QED
    BY <2>1, <2>2, ConcatProperties
<1>4. net' \in [Peer -> SUBSET Seq(Package)]
  BY <1>2, <1>3, TransmitType, OtherPeer DEF TypeOK
<1>5. Replaced(p, unconf[p], L) \in SUBSET Package
  BY <1>1, ReplacedType
<1> QED
  BY <1>2, <1>4, <1>5 DEF TypeOK, SenderTypeOK

LEMMA SendPackageType ==
    ASSUME NEW p \in Peer, NEW units \in SUBSET AllUnits,
           NEW una \in SUBSET SeqNum, NEW acks \in SUBSET SeqNum,
           NEW fsync \in BOOLEAN, TypeOK,
           SendPackage(p, units, una, acks, fsync)
    PROVE  /\ nextSeq' \in [Peer -> SeqNum] /\ opened' \in [Peer -> BOOLEAN]
           /\ unconf' \in [Peer -> SUBSET Package]
           /\ net' \in [Peer -> SUBSET Seq(Package)]
<1> DEFINE reliable == units \ Discardable[p] # {}
           package == [rel |-> reliable, seq |-> IF reliable THEN nextSeq[p] ELSE 0,
                       first |-> reliable /\ ~opened[p], data |-> units,
                       una |-> una, acks |-> acks, fsync |-> fsync, short |-> FALSE]
<1>1. nextSeq[p] \in SeqNum /\ Next1(nextSeq[p]) \in SeqNum /\ 0 \in SeqNum
  <2>1. nextSeq[p] \in SeqNum
    BY DEF TypeOK, SenderTypeOK
  <2>2. 0 \in SeqNum /\ 0 \in 0 .. SeqSpace
    BY SeqSpaceAssumption DEF SeqNum
  <2> QED
    BY <2>1, <2>2, SeqTypes
<1>2. package \in Package
  BY <1>1 DEF Package
<1>3. PaddingResend(p, package)
  BY DEF SendPackage
<1> HIDE DEF package
<1>4. /\ unconf' \in [Peer -> SUBSET Package]
      /\ net' \in [Peer -> SUBSET Seq(Package)]
  BY <1>2, <1>3, PaddingResendType
<1>5. nextSeq' \in [Peer -> SeqNum] /\ opened' \in [Peer -> BOOLEAN]
  BY <1>1 DEF SendPackage, TypeOK, SenderTypeOK
<1> QED
  BY <1>4, <1>5

(* The units taken from the queue, and the acknowledgements.               *)
LEMMA LiveType ==
    ASSUME NEW p \in Peer, TypeOK, NEW n \in taken[p] .. pushed[p]
    PROVE  Live(p, n) \in SUBSET AllUnits /\ n \in Nat /\ n <= pushed[p]
<1>1. n \in Nat /\ n <= MaxUnits[p] /\ n <= pushed[p] /\ taken[p] \in Nat
  BY PerPeerAssumption DEF TypeOK, SenderTypeOK
<1>2. 1 .. n \subseteq AllUnits
  BY <1>1, UnitType
<1> QED
  BY <1>1, <1>2 DEF Live

LEMMA AcksType ==
    ASSUME NEW p \in Peer, TypeOK, NEW R \in Cleaned(p), NEW A \in AckChoices(R)
    PROVE  R \in SUBSET SeqNum /\ A \in SUBSET SeqNum /\ A \subseteq R
  BY DEF TypeOK, SenderTypeOK, Cleaned, AckChoices, FeedbackType

(* Actions of the sender.                                                  *)
LEMMA PushType == ASSUME NEW p \in Peer, TypeOK, Push(p) PROVE TypeOK'
<1>1. ReceiverTypeOK' /\ net' \in [Peer -> SUBSET Seq(Package)]
  BY DEF Push, TypeOK, ReceiverTypeOK, receiverVars
<1>2. pushed[p] + 1 \in Nat /\ pushed[p] + 1 <= MaxUnits[p]
  <2>1. pushed[p] < MaxUnits[p]
    BY DEF Push
  <2>2. pushed[p] \in Nat /\ MaxUnits[p] \in Nat
    BY PerPeerAssumption DEF TypeOK, SenderTypeOK
  <2> QED
    BY <2>1, <2>2
<1>3. /\ pushed' \in [Peer -> Nat]
      /\ \A q \in Peer : taken[q] <= pushed'[q] /\ pushed'[q] <= MaxUnits[q]
  BY <1>2 DEF Push, TypeOK, SenderTypeOK
<1> QED
  BY <1>1, <1>3 DEF Push, TypeOK, SenderTypeOK

LEMMA ExpireType == ASSUME NEW p \in Peer, TypeOK, Expire(p) PROVE TypeOK'
  BY DEF Expire, TypeOK, SenderTypeOK, ReceiverTypeOK, receiverVars

LEMMA LoseType == ASSUME NEW p \in Peer, TypeOK, Lose(p) PROVE TypeOK'
  BY DEF Lose, TypeOK, SenderTypeOK, ReceiverTypeOK, receiverVars, senderVars

LEMMA SendUrgentType == ASSUME NEW p \in Peer, TypeOK, SendUrgent(p) PROVE TypeOK'
<1>1. PICK ask \in BOOLEAN, n \in taken[p] .. pushed[p], R \in Cleaned(p) :
        LET tell == feedback[p].force /\ ~ask
        IN  /\ UrgentPackage(p, ask, tell, R, n)
            /\ taken' = [taken EXCEPT ![p] = n]
  BY DEF SendUrgent
<1> DEFINE f    == feedback[p]
           tell == f.force /\ ~ask
           una  == IF (tell /\ f.available) \/ NeedUNA(f) THEN {f.lastUNA} ELSE {}
           f1   == [f EXCEPT !.force = FALSE, !.received = R]
           f2   == IF una # {} THEN WithUNA(f1) ELSE f1
<1>2. PICK A \in AckChoices(R) :
        /\ feedback' = [feedback EXCEPT ![p] = WithAcks(f2, A)]
        /\ SendPackage(p, Live(p, n), una, A, ask)
  BY <1>1 DEF UrgentPackage
<1>3. R \in SUBSET SeqNum /\ A \in SUBSET SeqNum
  BY AcksType
<1>4. f \in FeedbackType
  BY DEF TypeOK, SenderTypeOK
<1>5. una \in SUBSET SeqNum
  BY <1>4 DEF FeedbackType
<1>6. f1 \in FeedbackType
  BY <1>3, <1>4 DEF FeedbackType
<1>7. f2 \in FeedbackType
  BY <1>6 DEF WithUNA, FeedbackType
<1>8. WithAcks(f2, A) \in FeedbackType
  BY <1>3, <1>7 DEF WithAcks, FeedbackType
<1>9. feedback' \in [Peer -> FeedbackType]
  BY <1>2, <1>8 DEF TypeOK, SenderTypeOK
<1> HIDE DEF una, f2
<1>10. /\ nextSeq' \in [Peer -> SeqNum] /\ opened' \in [Peer -> BOOLEAN]
       /\ unconf' \in [Peer -> SUBSET Package]
       /\ net' \in [Peer -> SUBSET Seq(Package)]
  BY <1>2, <1>3, <1>5, LiveType, SendPackageType
<1>11. n \in Nat /\ n <= pushed[p]
  BY LiveType
<1> QED
  BY <1>1, <1>9, <1>10, <1>11
     DEF SendUrgent, TypeOK, SenderTypeOK, ReceiverTypeOK, receiverVars

LEMMA SendCommonType == ASSUME NEW p \in Peer, TypeOK, SendCommon(p) PROVE TypeOK'
<1> DEFINE f  == feedback[p]
           f1 == [f EXCEPT !.received = {}]
<1>1. PICK n \in taken[p] .. pushed[p], sync \in BOOLEAN :
        /\ feedback' = [feedback EXCEPT ![p] = IF sync THEN WithUNA(f1) ELSE f1]
        /\ SendPackage(p, Live(p, n), IF sync THEN {f.lastUNA} ELSE {}, {}, FALSE)
        /\ taken' = [taken EXCEPT ![p] = n]
  BY DEF SendCommon
<1>2. f \in FeedbackType
  BY DEF TypeOK, SenderTypeOK
<1>3. f1 \in FeedbackType
  BY <1>2 DEF FeedbackType
<1>4. WithUNA(f1) \in FeedbackType
  BY <1>3 DEF WithUNA, FeedbackType
<1>5. feedback' \in [Peer -> FeedbackType]
  BY <1>1, <1>3, <1>4 DEF TypeOK, SenderTypeOK
<1>6. (IF sync THEN {f.lastUNA} ELSE {}) \in SUBSET SeqNum
  BY <1>2 DEF FeedbackType
<1>7. /\ nextSeq' \in [Peer -> SeqNum] /\ opened' \in [Peer -> BOOLEAN]
      /\ unconf' \in [Peer -> SUBSET Package]
      /\ net' \in [Peer -> SUBSET Seq(Package)]
  BY <1>1, <1>6, LiveType, SendPackageType
<1>8. n \in Nat /\ n <= pushed[p]
  BY LiveType
<1> QED
  BY <1>1, <1>5, <1>7, <1>8
     DEF SendCommon, TypeOK, SenderTypeOK, ReceiverTypeOK, receiverVars

LEMMA SendNothingType == ASSUME NEW p \in Peer, TypeOK, SendNothing(p) PROVE TypeOK'
<1>1. PICK n \in taken[p] .. pushed[p] : taken' = [taken EXCEPT ![p] = n]
  BY DEF SendNothing
<1>2. n \in Nat /\ n <= pushed[p]
  BY LiveType
<1>3. [[feedback[p] EXCEPT !.force = FALSE] EXCEPT !.received = {}] \in FeedbackType
  BY DEF TypeOK, SenderTypeOK, FeedbackType
<1>4. feedback' \in [Peer -> FeedbackType]
  BY <1>3 DEF SendNothing, TypeOK, SenderTypeOK
<1> QED
  BY <1>1, <1>2, <1>4
     DEF SendNothing, TypeOK, SenderTypeOK, ReceiverTypeOK, receiverVars

LEMMA ResendType == ASSUME NEW p \in Peer, TypeOK, Resend(p) PROVE TypeOK'
<1>1. unconf[p] \in SUBSET Package /\ MaxAssembled \in Nat
  BY LimitAssumption DEF TypeOK, SenderTypeOK
<1>2. PICK L \in ResendLists(p, unconf[p], MaxAssembled) : ResendList(p, L)
  BY DEF Resend
<1>3. L \in Seq(Package) /\ Replaced(p, unconf[p], L) \in SUBSET Package
  BY <1>1, ResendListType, ReplacedType
<1>4. net' \in [Peer -> SUBSET Seq(Package)]
  BY <1>2, <1>3, OtherPeer, TransmitType DEF ResendList, TypeOK
<1>5. unconf' \in [Peer -> SUBSET Package]
  BY <1>2, <1>3 DEF ResendList, TypeOK, SenderTypeOK
<1> QED
  BY <1>2, <1>4, <1>5
     DEF ResendList, TypeOK, SenderTypeOK, ReceiverTypeOK, receiverVars, senderVars

-----------------------------------------------------------------------------
(* Receiving preserves the types.                                          *)

LEMMA SenderIdle ==
    ASSUME SenderTypeOK, UNCHANGED <<senderVars, unconf, feedback>>
    PROVE  SenderTypeOK'
  BY DEF SenderTypeOK, senderVars

(* The package looked at, and the result with a UNA to report.             *)
LEMMA HeadType ==
    ASSUME NEW p \in Peer, TypeOK, CanParse(p)
    PROVE  /\ rx[p] # <<>> /\ Head(rx[p]) \in Package
           /\ Head(rx[p]).seq \in SeqNum
           /\ result[p] \in ResultType
           /\ [result[p] EXCEPT !.canUna = TRUE] \in ResultType
           /\ [result[p] EXCEPT !.prior = TRUE] \in ResultType
<1>1. rx[p] \in Seq(Package) /\ rx[p] # <<>> /\ result[p] \in ResultType
  BY DEF TypeOK, ReceiverTypeOK, CanParse
<1>2. Head(rx[p]) \in Package
  BY <1>1, HeadTailProperties
<1> QED
  BY <1>1, <1>2 DEF Package, ResultType

LEMMA ReceiveType == ASSUME NEW p \in Peer, TypeOK, Receive(p) PROVE TypeOK'
<1>1. SenderTypeOK'
  BY SenderIdle DEF Receive, TypeOK
<1>2. rx' \in [Peer -> Seq(Package)] /\ reading' \in [Peer -> BOOLEAN]
  BY DEF Receive, TypeOK, ReceiverTypeOK
<1> QED
  BY <1>1, <1>2 DEF Receive, TypeOK, ReceiverTypeOK

LEMMA ParseDiscardableType ==
    ASSUME NEW p \in Peer, TypeOK, ParseDiscardable(p) PROVE TypeOK'
<1>1. SenderTypeOK'
  BY SenderIdle DEF ParseDiscardable, TypeOK
<1>2. CanParse(p) /\ Process(p, Head(rx[p]), result[p]) /\ Continue(p, ~Head(rx[p]).short)
  BY DEF ParseDiscardable
<1>3. /\ rx[p] # <<>> /\ Head(rx[p]) \in Package
      /\ Head(rx[p]).short \in BOOLEAN /\ result[p] \in ResultType
  BY <1>2, HeadType DEF Package
<1>4. rx' \in [Peer -> Seq(Package)] /\ parsing' \in [Peer -> {"idle", "ok", "failed"}]
  BY <1>2, <1>3, ContinueType DEF TypeOK, ReceiverTypeOK
<1>5. parsed' \in [Peer -> [AllUnits -> Nat]] /\ result' \in [Peer -> ResultType]
  BY <1>2, <1>3, ProcessType DEF TypeOK, ReceiverTypeOK
<1> QED
  BY <1>1, <1>4, <1>5 DEF ParseDiscardable, TypeOK, ReceiverTypeOK

LEMMA ParseDuplicateType ==
    ASSUME NEW p \in Peer, TypeOK, ParseDuplicate(p) PROVE TypeOK'
<1>1. SenderTypeOK'
  BY SenderIdle DEF ParseDuplicate, TypeOK
<1>2. CanParse(p) /\ Continue(p, FALSE)
  BY DEF ParseDuplicate
<1>3. rx' \in [Peer -> Seq(Package)] /\ parsing' \in [Peer -> {"idle", "ok", "failed"}]
  BY <1>2, HeadType, ContinueType DEF TypeOK, ReceiverTypeOK
<1>4. result' \in [Peer -> ResultType]
  BY <1>2, HeadType DEF ParseDuplicate, TypeOK, ReceiverTypeOK
<1> QED
  BY <1>1, <1>3, <1>4 DEF ParseDuplicate, TypeOK, ReceiverTypeOK, parserVars

LEMMA ParseNextType ==
    ASSUME NEW p \in Peer, TypeOK, ParseNext(p) PROVE TypeOK'
<1>1. SenderTypeOK'
  BY SenderIdle DEF ParseNext, TypeOK
<1>2. /\ CanParse(p) /\ Continue(p, TRUE)
      /\ Process(p, Head(rx[p]), [result[p] EXCEPT !.canUna = TRUE])
      /\ last' = [last EXCEPT ![p] = Head(rx[p]).seq]
  BY DEF ParseNext
<1>3. rx' \in [Peer -> Seq(Package)] /\ parsing' \in [Peer -> {"idle", "ok", "failed"}]
  BY <1>2, HeadType, ContinueType DEF TypeOK, ReceiverTypeOK
<1>4. parsed' \in [Peer -> [AllUnits -> Nat]] /\ result' \in [Peer -> ResultType]
  BY <1>2, HeadType, ProcessType DEF TypeOK, ReceiverTypeOK
<1>5. last' \in [Peer -> SeqNum]
  BY <1>2, HeadType DEF TypeOK, ReceiverTypeOK
<1> QED
  BY <1>1, <1>3, <1>4, <1>5 DEF ParseNext, TypeOK, ReceiverTypeOK

LEMMA ParseAheadType ==
    ASSUME NEW p \in Peer, TypeOK, ParseAhead(p) PROVE TypeOK'
<1>1. SenderTypeOK'
  BY SenderIdle DEF ParseAhead, TypeOK
<1>2. /\ CanParse(p) /\ Continue(p, ~Head(rx[p]).short)
      /\ Process(p, Head(rx[p]), result[p])
      /\ ahead' = [ahead EXCEPT ![p] = @ \cup {Head(rx[p]).seq}]
  BY DEF ParseAhead
<1>3. Head(rx[p]).short \in BOOLEAN
  BY <1>2, HeadType DEF Package
<1>4. rx' \in [Peer -> Seq(Package)] /\ parsing' \in [Peer -> {"idle", "ok", "failed"}]
  BY <1>2, <1>3, HeadType, ContinueType DEF TypeOK, ReceiverTypeOK
<1>5. parsed' \in [Peer -> [AllUnits -> Nat]] /\ result' \in [Peer -> ResultType]
  BY <1>2, HeadType, ProcessType DEF TypeOK, ReceiverTypeOK
<1>6. ahead' \in [Peer -> SUBSET SeqNum]
  BY <1>2, HeadType DEF TypeOK, ReceiverTypeOK
<1> QED
  BY <1>1, <1>4, <1>5, <1>6 DEF ParseAhead, TypeOK, ReceiverTypeOK

LEMMA ParseCacheType ==
    ASSUME NEW p \in Peer, TypeOK, ParseCache(p) PROVE TypeOK'
<1>1. SenderTypeOK'
  BY SenderIdle DEF ParseCache, TypeOK
<1>2. CanParse(p) /\ Continue(p, TRUE)
  BY DEF ParseCache
<1>3. rx' \in [Peer -> Seq(Package)] /\ parsing' \in [Peer -> {"idle", "ok", "failed"}]
  BY <1>2, HeadType, ContinueType DEF TypeOK, ReceiverTypeOK
<1>4. /\ cache' \in [Peer -> SUBSET Package] /\ ahead' \in [Peer -> SUBSET SeqNum]
      /\ closed' \in [Peer -> BOOLEAN]
  <2>1. Head(rx[p]) \in Package /\ Head(rx[p]).seq \in SeqNum
    BY <1>2, HeadType
  <2>2. CASE Cardinality(cache[p]) > Tolerance
    BY <2>2 DEF ParseCache, TypeOK, ReceiverTypeOK
  <2>3. CASE ~(Cardinality(cache[p]) > Tolerance)
    <3>1. /\ cache' = [cache EXCEPT ![p] = @ \cup {Head(rx[p])}]
          /\ ahead' = [ahead EXCEPT ![p] = @ \cup {Head(rx[p]).seq}]
          /\ closed' = closed
      BY <2>3 DEF ParseCache
    <3> QED
      BY <2>1, <3>1 DEF TypeOK, ReceiverTypeOK
  <2> QED
    BY <2>2, <2>3
<1> QED
  BY <1>1, <1>3, <1>4 DEF ParseCache, TypeOK, ReceiverTypeOK

LEMMA ParseIgnoredType ==
    ASSUME NEW p \in Peer, TypeOK, ParseIgnored(p) PROVE TypeOK'
<1>1. SenderTypeOK'
  BY SenderIdle DEF ParseIgnored, TypeOK
<1>2. CanParse(p) /\ Continue(p, TRUE)
  BY DEF ParseIgnored
<1>3. rx' \in [Peer -> Seq(Package)] /\ parsing' \in [Peer -> {"idle", "ok", "failed"}]
  BY <1>2, HeadType, ContinueType DEF TypeOK, ReceiverTypeOK
<1> QED
  BY <1>1, <1>3 DEF ParseIgnored, TypeOK, ReceiverTypeOK, parserVars

LEMMA SeqsType == ASSUME NEW G \in SUBSET Package PROVE Seqs(G) \in SUBSET SeqNum
  BY DEF Seqs, Package

LEMMA ParseFirstType ==
    ASSUME NEW p \in Peer, TypeOK, ParseFirst(p) PROVE TypeOK'
<1>1. SenderTypeOK'
  BY SenderIdle DEF ParseFirst, TypeOK
<1>2. /\ CanParse(p) /\ Continue(p, TRUE)
      /\ Process(p, Head(rx[p]), [result[p] EXCEPT !.canUna = TRUE])
  BY DEF ParseFirst
<1>3. rx' \in [Peer -> Seq(Package)] /\ parsing' \in [Peer -> {"idle", "ok", "failed"}]
  BY <1>2, HeadType, ContinueType DEF TypeOK, ReceiverTypeOK
<1>4. parsed' \in [Peer -> [AllUnits -> Nat]] /\ result' \in [Peer -> ResultType]
  BY <1>2, HeadType, ProcessType DEF TypeOK, ReceiverTypeOK
<1>5. last' \in [Peer -> SeqNum] /\ started' \in [Peer -> BOOLEAN]
  BY <1>2, HeadType DEF ParseFirst, TypeOK, ReceiverTypeOK
<1>6. Seqs(cache[p]) \in SUBSET SeqNum
  BY SeqsType DEF TypeOK, ReceiverTypeOK
<1>7. ahead' \in [Peer -> SUBSET SeqNum]
  BY <1>6 DEF ParseFirst, TypeOK, ReceiverTypeOK
<1> QED
  BY <1>1, <1>3, <1>4, <1>5, <1>7 DEF ParseFirst, TypeOK, ReceiverTypeOK

LEMMA ParseEarlyType ==
    ASSUME NEW p \in Peer, TypeOK, ParseEarly(p) PROVE TypeOK'
<1>1. SenderTypeOK'
  BY SenderIdle DEF ParseEarly, TypeOK
<1>2. CanParse(p) /\ Continue(p, TRUE)
  BY DEF ParseEarly
<1>3. rx' \in [Peer -> Seq(Package)] /\ parsing' \in [Peer -> {"idle", "ok", "failed"}]
  BY <1>2, HeadType, ContinueType DEF TypeOK, ReceiverTypeOK
<1>4. cache' \in [Peer -> SUBSET Package] /\ closed' \in [Peer -> BOOLEAN]
  BY <1>2, HeadType DEF ParseEarly, EarlyFull, TypeOK, ReceiverTypeOK
<1> QED
  BY <1>1, <1>3, <1>4 DEF ParseEarly, TypeOK, ReceiverTypeOK

LEMMA ProcessEarlyType ==
    ASSUME NEW p \in Peer, TypeOK, ProcessEarly(p) PROVE TypeOK'
<1>1. SenderTypeOK'
  BY SenderIdle DEF ProcessEarly, TypeOK
<1>2. PICK g \in cache[p] :
        /\ cache' = [cache EXCEPT ![p] = @ \ {g}]
        /\ ahead' = [ahead EXCEPT ![p] = (@ \cup {g.seq}) \ {last[p]}]
        /\ Process(p, g, result[p])
  BY DEF ProcessEarly
<1>3. g \in Package /\ g.seq \in SeqNum /\ result[p] \in ResultType
  BY DEF TypeOK, ReceiverTypeOK, Package
<1>4. parsed' \in [Peer -> [AllUnits -> Nat]] /\ result' \in [Peer -> ResultType]
  BY <1>2, <1>3, ProcessType DEF TypeOK, ReceiverTypeOK
<1>5. cache' \in [Peer -> SUBSET Package] /\ ahead' \in [Peer -> SUBSET SeqNum]
  BY <1>2, <1>3 DEF TypeOK, ReceiverTypeOK
<1> QED
  BY <1>1, <1>4, <1>5 DEF ProcessEarly, TypeOK, ReceiverTypeOK

LEMMA LastNextType ==
    ASSUME NEW p \in Peer, TypeOK PROVE last[p] \in SeqNum /\ Next1(last[p]) \in SeqNum
<1>1. last[p] \in SeqNum
  BY DEF TypeOK, ReceiverTypeOK
<1>2. 0 \in 0 .. SeqSpace
  BY SeqSpaceAssumption
<1> QED
  BY <1>1, <1>2, SeqTypes

LEMMA AdvanceLastType ==
    ASSUME NEW p \in Peer, TypeOK, AdvanceLast(p) PROVE TypeOK'
<1>1. SenderTypeOK'
  BY SenderIdle DEF AdvanceLast, TypeOK
<1>2. last' \in [Peer -> SeqNum] /\ ahead' \in [Peer -> SUBSET SeqNum]
  BY LastNextType DEF AdvanceLast, TypeOK, ReceiverTypeOK
<1> QED
  BY <1>1, <1>2 DEF AdvanceLast, TypeOK, ReceiverTypeOK

LEMMA ProcessCachedType ==
    ASSUME NEW p \in Peer, TypeOK, ProcessCached(p) PROVE TypeOK'
<1>1. SenderTypeOK'
  BY SenderIdle DEF ProcessCached, TypeOK
<1>2. PICK g \in cache[p] :
        /\ cache' = [cache EXCEPT ![p] = @ \ {g}]
        /\ ahead' = [ahead EXCEPT ![p] = @ \ {g.seq}]
        /\ last' = [last EXCEPT ![p] = g.seq]
        /\ Process(p, g, [result[p] EXCEPT !.canUna = TRUE])
  BY DEF ProcessCached
<1>3. g \in Package /\ g.seq \in SeqNum
  BY DEF TypeOK, ReceiverTypeOK, Package
<1>4. [result[p] EXCEPT !.canUna = TRUE] \in ResultType
  <2>1. result[p] \in ResultType
    BY DEF TypeOK, ReceiverTypeOK
  <2> QED
    BY <2>1 DEF ResultType
<1>5. parsed' \in [Peer -> [AllUnits -> Nat]] /\ result' \in [Peer -> ResultType]
  BY <1>2, <1>3, <1>4, ProcessType DEF TypeOK, ReceiverTypeOK
<1>6. /\ cache' \in [Peer -> SUBSET Package] /\ ahead' \in [Peer -> SUBSET SeqNum]
      /\ last' \in [Peer -> SeqNum]
  BY <1>2, <1>3 DEF TypeOK, ReceiverTypeOK
<1> QED
  BY <1>1, <1>5, <1>6 DEF ProcessCached, TypeOK, ReceiverTypeOK

(* Delivery, and the sync of the status.                                   *)
LEMMA DeliverType ==
    ASSUME NEW p \in Peer, TypeOK, Deliver(p)
    PROVE  /\ delivered' \in [Peer -> [AllUnits -> Nat]]
           /\ parsed' \in [Peer -> [AllUnits -> Nat]]
<1>1. [u \in AllUnits |-> Counted(delivered[p][u] + parsed[p][u])] \in [AllUnits -> Nat]
  BY DEF TypeOK, ReceiverTypeOK, Counted, CountBound
<1>2. NoUnits \in [AllUnits -> Nat]
  BY DEF NoUnits
<1> QED
  BY <1>1, <1>2 DEF Deliver, TypeOK, ReceiverTypeOK

LEMMA NewFeedbackType ==
    ASSUME NEW p \in Peer, TypeOK PROVE NewFeedback(p) \in FeedbackType
<1> DEFINE f == feedback[p]
           r == result[p]
           h == [f EXCEPT !.lastUNA = last[p], !.updated = TRUE, !.available = TRUE,
                          !.fed = {s \in @ : Ahead(s, last[p])}]
           g == IF r.canUna THEN h ELSE f
<1>1. f \in FeedbackType /\ last[p] \in SeqNum /\ ahead[p] \in SUBSET SeqNum
  BY DEF TypeOK, SenderTypeOK, ReceiverTypeOK
<1>2. r \in ResultType
  BY DEF TypeOK, ReceiverTypeOK
<1>3. h \in FeedbackType
  BY <1>1 DEF FeedbackType
<1>4. g \in FeedbackType
  BY <1>1, <1>3
<1>5. [g EXCEPT !.repeat = @ \/ r.prior, !.received = ahead[p], !.force = r.fsync]
        \in FeedbackType
  <2> HIDE DEF g, r
  <2> QED
    BY <1>1, <1>2, <1>4 DEF FeedbackType, ResultType
<1> QED
  BY <1>5 DEF NewFeedback

LEMMA SyncType ==
    ASSUME NEW p \in Peer, TypeOK, SyncARQStatus(p)
    PROVE  /\ feedback' \in [Peer -> FeedbackType]
           /\ unconf' \in [Peer -> SUBSET Package]
           /\ result' \in [Peer -> ResultType]
<1>1. feedback' \in [Peer -> FeedbackType]
  BY NewFeedbackType DEF SyncARQStatus, TypeOK, SenderTypeOK
<1>2. unconf' \in [Peer -> SUBSET Package]
  BY DEF SyncARQStatus, TypeOK, SenderTypeOK
<1>3. NoResult \in ResultType
  BY DEF NoResult, ResultType
<1> QED
  BY <1>1, <1>2, <1>3 DEF SyncARQStatus, TypeOK, ReceiverTypeOK

LEMMA FinishRecvDataType ==
    ASSUME NEW p \in Peer, TypeOK, FinishRecvData(p) PROVE TypeOK'
<1>1. SenderTypeOK'
  BY SenderIdle DEF FinishRecvData, TypeOK
<1>2. /\ delivered' \in [Peer -> [AllUnits -> Nat]]
      /\ parsed' \in [Peer -> [AllUnits -> Nat]]
  BY DeliverType DEF FinishRecvData
<1>3. rx' \in [Peer -> Seq(Package)] /\ parsing' \in [Peer -> {"idle", "ok", "failed"}]
  <2>1. <<>> \in Seq(Package)
    OBVIOUS
  <2> QED
    BY <2>1 DEF FinishRecvData, TypeOK, ReceiverTypeOK
<1> QED
  BY <1>1, <1>2, <1>3 DEF FinishRecvData, TypeOK, ReceiverTypeOK

LEMMA ReturnRecvTokenType ==
    ASSUME NEW p \in Peer, TypeOK, ReturnRecvToken(p) PROVE TypeOK'
<1>1. /\ feedback' \in [Peer -> FeedbackType]
      /\ unconf' \in [Peer -> SUBSET Package]
      /\ result' \in [Peer -> ResultType]
  BY SyncType DEF ReturnRecvToken
<1>2. SenderTypeOK'
  BY <1>1 DEF ReturnRecvToken, TypeOK, SenderTypeOK, senderVars
<1> QED
  BY <1>1, <1>2 DEF ReturnRecvToken, TypeOK, ReceiverTypeOK, parserVars

LEMMA FinishRawDataType ==
    ASSUME NEW p \in Peer, TypeOK, FinishRawData(p) PROVE TypeOK'
<1>1. /\ feedback' \in [Peer -> FeedbackType]
      /\ unconf' \in [Peer -> SUBSET Package]
      /\ result' \in [Peer -> ResultType]
      /\ delivered' \in [Peer -> [AllUnits -> Nat]]
      /\ parsed' \in [Peer -> [AllUnits -> Nat]]
  <2>1. CASE parsing[p] = "ok"
    BY <2>1, SyncType, DeliverType DEF FinishRawData
  <2>2. CASE parsing[p] # "ok"
    <3>1. NoResult \in ResultType /\ NoUnits \in [AllUnits -> Nat]
      BY DEF NoResult, ResultType, NoUnits
    <3> QED
      BY <2>2, <3>1 DEF FinishRawData, TypeOK, SenderTypeOK, ReceiverTypeOK
  <2> QED
    BY <2>1, <2>2
<1>2. SenderTypeOK'
  BY <1>1 DEF FinishRawData, TypeOK, SenderTypeOK, senderVars
<1>3. rx' \in [Peer -> Seq(Package)] /\ parsing' \in [Peer -> {"idle", "ok", "failed"}]
  <2>1. <<>> \in Seq(Package)
    OBVIOUS
  <2> QED
    BY <2>1 DEF FinishRawData, TypeOK, ReceiverTypeOK
<1> QED
  BY <1>1, <1>2, <1>3 DEF FinishRawData, TypeOK, ReceiverTypeOK

LEMMA JoinEpollType == ASSUME NEW p \in Peer, TypeOK, JoinEpoll(p) PROVE TypeOK'
<1>1. SenderTypeOK'
  BY SenderIdle DEF JoinEpoll, TypeOK
<1> QED
  BY <1>1 DEF JoinEpoll, TypeOK, ReceiverTypeOK

-----------------------------------------------------------------------------
LEMMA InitType == ASSUME Init PROVE TypeOK
<1>1. SenderTypeOK
  <2>1. [available |-> FALSE, updated |-> FALSE, repeat |-> FALSE, force |-> FALSE,
         lastUNA |-> 0, received |-> {}, fed |-> {}] \in FeedbackType
    BY SeqSpaceAssumption DEF FeedbackType, SeqNum
  <2> QED
    BY <2>1, PerPeerAssumption DEF Init, SenderTypeOK
<1>2. ReceiverTypeOK
  <2>1. NoResult \in ResultType /\ NoUnits \in [AllUnits -> Nat]
    BY DEF NoResult, ResultType, NoUnits
  <2>2. 0 \in SeqNum /\ <<>> \in Seq(Package)
    BY SeqSpaceAssumption DEF SeqNum
  <2> QED
    BY <2>1, <2>2, PerPeerAssumption DEF Init, ReceiverTypeOK
<1> QED
  BY <1>1, <1>2 DEF Init, TypeOK

LEMMA NextType == ASSUME TypeOK, [Next]_vars PROVE TypeOK'
<1>1. CASE UNCHANGED vars
  BY <1>1 DEF vars, senderVars, receiverVars, TypeOK, SenderTypeOK, ReceiverTypeOK
<1>2. ASSUME NEW p \in Peer, PeerNext(p) PROVE TypeOK'
  <2>1. CASE Push(p) \/ Expire(p) \/ Lose(p)
    BY <2>1, PushType, ExpireType, LoseType
  <2>2. CASE Send(p)
    BY <2>2, SendUrgentType, SendCommonType, SendNothingType, ResendType DEF Send
  <2>3. CASE Receive(p)
    BY <2>3, ReceiveType
  <2>4. CASE Parse(p)
    BY <2>4, ParseDiscardableType, ParseDuplicateType, ParseNextType, ParseAheadType,
       ParseCacheType, ParseIgnoredType, ParseFirstType, ParseEarlyType,
       ProcessEarlyType, AdvanceLastType, ProcessCachedType DEF Parse
  <2>5. CASE Finish(p)
    BY <2>5, FinishRecvDataType, ReturnRecvTokenType, FinishRawDataType DEF Finish
  <2>6. CASE JoinEpoll(p)
    BY <2>6, JoinEpollType
  <2> QED
    BY <1>2, <2>1, <2>2, <2>3, <2>4, <2>5, <2>6 DEF PeerNext
<1> QED
  BY <1>1, <1>2 DEF Next

(* The state of the engine keeps its types in every execution, for any     *)
(* number of units and packages, any limits, and any sequence space; the   *)
(* numbers wrap but never leave the space.                                 *)
THEOREM TypeCorrect == Spec => []TypeOK
<1>1. Init => TypeOK
  BY InitType
<1>2. TypeOK /\ [Next]_vars => TypeOK'
  BY NextType
<1> QED
  BY <1>1, <1>2, PTL DEF Spec

-----------------------------------------------------------------------------
(* Flow control.                                                           *)

BoundedSet(S) == IsFiniteSet(S) /\ Cardinality(S) <= UnconfirmedLimit

Bounded == \A p \in Peer : BoundedSet(unconf[p])

(* Resending keeps the number of packages: each one picked is put back.    *)
LEMMA ReplacedCount ==
    ASSUME NEW p \in Peer, NEW U \in SUBSET Package, IsFiniteSet(U), NEW room \in Nat,
           NEW L \in ResendLists(p, U, room)
    PROVE  /\ IsFiniteSet(Replaced(p, U, L))
           /\ Cardinality(Replaced(p, U, L)) <= Cardinality(U)
<1> DEFINE resent == {L[i] : i \in DOMAIN L}
           back(g) == IF g.seq \in Seqs(resent)
                      THEN CHOOSE x \in resent : x.seq = g.seq ELSE g
           h == [g \in U |-> back(g)]
<1>1. /\ \A i \in DOMAIN L : \E g \in U : L[i] = Cut(p, g)
      /\ \A i, j \in DOMAIN L : i # j => L[i].seq # L[j].seq
  BY ResendListType
<1>2. \A g \in U : Cut(p, g).seq = g.seq
  BY CutType
<1>3. Replaced(p, U, L) = {g \in U : g.seq \notin Seqs(resent)} \cup resent
  BY DEF Replaced
<1>4. \A x, y \in resent : x.seq = y.seq => x = y
  BY <1>1
<1>5. \A x \in resent : \E g \in U : g.seq = x.seq /\ x.seq \in Seqs(resent)
  BY <1>1, <1>2 DEF Seqs
<1> HIDE DEF resent
<1>6. \A g \in U : back(g) \in Replaced(p, U, L)
  BY <1>3 DEF Seqs
<1>7. \A x \in Replaced(p, U, L) : \E g \in U : back(g) = x
  <2> SUFFICES ASSUME NEW x \in Replaced(p, U, L) PROVE \E g \in U : back(g) = x
    OBVIOUS
  <2>1. CASE x \in resent
    <3>1. PICK g \in U : g.seq = x.seq /\ x.seq \in Seqs(resent)
      BY <1>5, <2>1
    <3>2. back(g) = x
      BY <1>4, <2>1, <3>1
    <3> QED
      BY <3>1, <3>2
  <2>2. CASE x \notin resent
    <3>1. x \in U /\ x.seq \notin Seqs(resent)
      BY <1>3, <2>2
    <3> QED
      BY <3>1
  <2> QED
    BY <2>1, <2>2
<1> HIDE DEF back
<1>8. h \in Surjection(U, Replaced(p, U, L))
  BY <1>6, <1>7 DEF Surjection
<1> QED
  BY <1>8, FS_Surjection

(* What is left of a bounded set, or replaced in it, is bounded.           *)
LEMMA BoundedSubset ==
    ASSUME NEW S, BoundedSet(S), NEW T \in SUBSET S PROVE BoundedSet(T)
<1>1. /\ IsFiniteSet(T) /\ Cardinality(T) <= Cardinality(S)
      /\ Cardinality(T) \in Nat /\ Cardinality(S) \in Nat
  BY FS_Subset, FS_CardinalityType DEF BoundedSet
<1> QED
  BY <1>1, LimitAssumption DEF BoundedSet

(* A numbered package is only made where there is room for one more.       *)
LEMMA SendPackageBounded ==
    ASSUME NEW p \in Peer, TypeOK, Bounded,
           NEW units, NEW una, NEW acks, NEW fsync,
           units # {} => Cardinality(unconf[p]) < UnconfirmedLimit,
           SendPackage(p, units, una, acks, fsync)
    PROVE  Bounded'
<1>1. PICK package :
        /\ package.rel => units # {}
        /\ PaddingResend(p, package)
  BY DEF SendPackage
<1>2. PICK L \in ResendLists(p, unconf[p], MaxAssembled - 1) :
        unconf' = [unconf EXCEPT ![p] = Replaced(p, unconf[p], L)
                                  \cup (IF package.rel THEN {package} ELSE {})]
  BY <1>1 DEF PaddingResend
<1> DEFINE kept == Replaced(p, unconf[p], L)
<1>3. /\ unconf[p] \in SUBSET Package /\ IsFiniteSet(unconf[p])
      /\ Cardinality(unconf[p]) <= UnconfirmedLimit
      /\ MaxAssembled - 1 \in Nat /\ UnconfirmedLimit \in Nat
  BY LimitAssumption DEF TypeOK, SenderTypeOK, Bounded, BoundedSet
<1>4. IsFiniteSet(kept) /\ Cardinality(kept) <= Cardinality(unconf[p])
  BY <1>3, ReplacedCount
<1>5. /\ unconf'[p] = kept \cup (IF package.rel THEN {package} ELSE {})
      /\ \A x \in Peer : x # p => unconf'[x] = unconf[x]
  BY <1>2 DEF TypeOK, SenderTypeOK
<1> HIDE DEF kept
<1>6. Cardinality(kept) \in Nat /\ Cardinality(unconf[p]) \in Nat
  BY <1>3, <1>4, FS_CardinalityType
<1>7. BoundedSet(unconf'[p])
  <2>1. CASE package.rel
    <3>1. /\ IsFiniteSet(kept \cup {package})
          /\ Cardinality(kept \cup {package}) <= Cardinality(kept) + 1
      BY <1>4, <1>6, FS_AddElement
    <3>2. Cardinality(kept \cup {package}) \in Nat
      BY <3>1, FS_CardinalityType
    <3>3. Cardinality(unconf[p]) < UnconfirmedLimit
      BY <1>1, <2>1
    <3>4. Cardinality(kept \cup {package}) <= UnconfirmedLimit
      BY <1>3, <1>4, <1>6, <3>1, <3>2, <3>3
    <3> QED
      BY <1>5, <2>1, <3>1, <3>4 DEF BoundedSet
  <2>2. CASE ~package.rel
    <3>1. unconf'[p] = kept
      BY <1>5, <2>2
    <3> QED
      BY <1>3, <1>4, <1>6, <3>1 DEF BoundedSet
  <2> QED
    BY <2>1, <2>2
<1> QED
  BY <1>5, <1>7 DEF Bounded
LEMMA SendUrgentBounded ==
    ASSUME NEW p \in Peer, TypeOK, Bounded, SendUrgent(p) PROVE Bounded'
<1>1. PICK ask \in BOOLEAN, n \in taken[p] .. pushed[p], R \in Cleaned(p) :
        /\ ~MayFill(p) => n = taken[p]
        /\ UrgentPackage(p, ask, feedback[p].force /\ ~ask, R, n)
  BY DEF SendUrgent
<1>2. PICK una, A : SendPackage(p, Live(p, n), una, A, ask)
  BY <1>1 DEF UrgentPackage
<1>3. Cardinality(unconf[p]) \in Nat
  BY FS_CardinalityType DEF Bounded, BoundedSet
<1>4. Live(p, n) # {} => Cardinality(unconf[p]) < UnconfirmedLimit
  <2>1. CASE MayFill(p)
    BY <1>3, <2>1, LimitAssumption DEF MayFill
  <2>2. CASE ~MayFill(p)
    <3>1. n = taken[p] /\ taken[p] \in Nat
      BY <1>1, <2>2 DEF TypeOK, SenderTypeOK
    <3> QED
      BY <3>1 DEF Live
  <2> QED
    BY <2>1, <2>2
<1> QED
  BY <1>2, <1>4, SendPackageBounded

LEMMA SendCommonBounded ==
    ASSUME NEW p \in Peer, TypeOK, Bounded, SendCommon(p) PROVE Bounded'
<1>1. Cardinality(unconf[p]) < UnconfirmedLimit
  BY DEF SendCommon
<1>2. PICK n, una : SendPackage(p, Live(p, n), una, {}, FALSE)
  BY DEF SendCommon
<1> QED
  BY <1>1, <1>2, SendPackageBounded

LEMMA ResendBounded ==
    ASSUME NEW p \in Peer, TypeOK, Bounded, Resend(p) PROVE Bounded'
<1>1. PICK L \in ResendLists(p, unconf[p], MaxAssembled) :
        unconf' = [unconf EXCEPT ![p] = Replaced(p, unconf[p], L)]
  BY DEF Resend, ResendList
<1>2. /\ unconf[p] \in SUBSET Package /\ IsFiniteSet(unconf[p])
      /\ Cardinality(unconf[p]) <= UnconfirmedLimit /\ Cardinality(unconf[p]) \in Nat
      /\ MaxAssembled \in Nat /\ UnconfirmedLimit \in Nat
  BY LimitAssumption, FS_CardinalityType DEF TypeOK, SenderTypeOK, Bounded, BoundedSet
<1>3. /\ IsFiniteSet(Replaced(p, unconf[p], L))
      /\ Cardinality(Replaced(p, unconf[p], L)) <= Cardinality(unconf[p])
  BY <1>2, ReplacedCount
<1>4. Cardinality(Replaced(p, unconf[p], L)) \in Nat
  BY <1>3, FS_CardinalityType
<1>5. BoundedSet(Replaced(p, unconf[p], L))
  BY <1>2, <1>3, <1>4 DEF BoundedSet
<1>6. /\ unconf'[p] = Replaced(p, unconf[p], L)
      /\ \A x \in Peer : x # p => unconf'[x] = unconf[x]
  BY <1>1 DEF TypeOK, SenderTypeOK
<1> QED
  BY <1>5, <1>6 DEF Bounded

(* A sync only takes packages out.                                         *)
LEMMA SyncBounded ==
    ASSUME NEW p \in Peer, TypeOK, Bounded, SyncARQStatus(p) PROVE Bounded'
<1>1. /\ unconf'[p] \in SUBSET unconf[p]
      /\ \A x \in Peer : x # p => unconf'[x] = unconf[x]
  BY DEF SyncARQStatus, TypeOK, SenderTypeOK
<1>2. BoundedSet(unconf'[p])
  BY <1>1, BoundedSubset DEF Bounded
<1> QED
  BY <1>1, <1>2 DEF Bounded

LEMMA NextBounded == ASSUME TypeOK, Bounded, [Next]_vars PROVE Bounded'
<1>1. CASE UNCHANGED unconf
  BY <1>1 DEF Bounded
<1>2. ASSUME NEW p \in Peer, PeerNext(p) PROVE Bounded'
  <2>1. CASE Push(p) \/ Expire(p) \/ Lose(p) \/ JoinEpoll(p) \/ Receive(p)
    BY <1>1, <2>1 DEF Push, Expire, Lose, JoinEpoll, Receive
  <2>2. CASE Send(p)
    BY <1>1, <2>2, SendUrgentBounded, SendCommonBounded, ResendBounded
       DEF Send, SendNothing
  <2>3. CASE Parse(p)
    BY <1>1, <2>3 DEF Parse, ParseDiscardable, ParseDuplicate, ParseNext, ParseAhead,
       ParseCache, ParseIgnored, ParseFirst, ParseEarly, ProcessEarly, AdvanceLast,
       ProcessCached
  <2>4. CASE Finish(p)
    <3>1. UNCHANGED unconf \/ SyncARQStatus(p)
      BY <2>4 DEF Finish, FinishRecvData, ReturnRecvToken, FinishRawData
    <3> QED
      BY <1>1, <3>1, SyncBounded
  <2> QED
    BY <1>2, <2>1, <2>2, <2>3, <2>4 DEF PeerNext
<1>3. CASE UNCHANGED vars
  BY <1>1, <1>3 DEF vars
<1> QED
  BY <1>2, <1>3 DEF Next

(* However large the limit, no peer ever has more packages waiting for     *)
(* confirmation: the two ways to make a numbered package (the common one   *)
(* below the limit, the urgent one below half of it) keep room for it, and *)
(* resending puts back what it takes.                                      *)
THEOREM FlowControl == Spec => []UnconfirmedBounded
<1>1. Init => TypeOK /\ Bounded
  <2>1. ASSUME Init PROVE Bounded
    <3>1. BoundedSet({})
      BY FS_EmptySet, LimitAssumption DEF BoundedSet
    <3> QED
      BY <2>1, <3>1 DEF Init, Bounded
  <2> QED
    BY <2>1, InitType
<1>2. TypeOK /\ Bounded /\ [Next]_vars => TypeOK' /\ Bounded'
  BY NextType, NextBounded
<1>3. Bounded => UnconfirmedBounded
  BY DEF Bounded, BoundedSet, UnconfirmedBounded
<1> QED
  BY <1>1, <1>2, <1>3, PTL DEF Spec
=============================================================================
