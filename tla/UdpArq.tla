------------------------------- MODULE UdpArq -------------------------------
(***************************************************************************)
(* The reliable-UDP (ARQ) engine of core/UDP.v2 between two peers.         *)
(*                                                                         *)
(* Each peer owns one UDPIOBuffer: a sender (UDPAssembler with its data    *)
(* queue, UDPUnconformedMap with the packages not confirmed yet), a parser *)
(* (ARQParser) and the feedback state between them (ARQPeerSeqManager).    *)
(* Sending and receiving run in different threads and meet under one       *)
(* mutex; every step below is what one of them does between two points at  *)
(* which the other may run.                                                *)
(*                                                                         *)
(* Abstractions.  A unit is one section of data, numbered in the order it  *)
(* is pushed.  Sizes, clocks and encryption are left out: which units fit, *)
(* which package is due for resending and whether a sync interval is over  *)
(* are nondeterministic.  Expiry is kept: a unit whose deadline passed     *)
(* stays expired.                                                          *)
(***************************************************************************)
EXTENDS SeqArith, FiniteSets, Sequences

CONSTANTS
    Peer,             \* the two end points
    BaseSeq,          \* BaseSeq[p]: initial _UDPSeqBase of p
    MaxUnits,         \* MaxUnits[p]: how many units p pushes
    Discardable,      \* Discardable[p]: the units p pushes as discardable
    Expirable,        \* Expirable[p]: the units of p whose deadline may pass
    RawStart,         \* RawStart[p]: p starts on parseReceivedData, not recvData
    DataEncrypted,    \* data-enhanced encryption was negotiated: both peers parse
                      \* in order (_unorderedParse false) and neither cuts expired
                      \* data out of a package it resends (_enableExpireCheck)
    UnitsPerPackage,  \* data sections that fit one package
    MaxAssembled,     \* packages that fit one datagram
    UnconfirmedLimit, \* Config::UDP::_unconfiremed_package_limitation
    UrgentThreshold,  \* Config::UDP::_arq_urgent_seqs_sync_triggered_threshold
    Tolerance,        \* Config::UDP::_disordered_seq_tolerance
    EarlyTolerance,   \* ..._disordered_seq_tolerance_before_first_package_received
    AckLimit,         \* acknowledgements that fit one package
    MaxPackages,      \* bound: reliable packages of one session of one peer
    NetCap            \* bound: NetCap[p] datagrams under way to p

Other(p) == CHOOSE q \in Peer : q # p
Unit(p)  == 1 .. MaxUnits[p]
AllUnits == UNION {Unit(p) : p \in Peer}

ASSUME PeerAssumption ==
    \E a, b \in Peer : a # b /\ Peer = {a, b}

ASSUME PerPeerAssumption ==
    /\ BaseSeq \in [Peer -> SeqNum]
    /\ MaxUnits \in [Peer -> Nat]
    /\ Discardable \in [Peer -> SUBSET Nat]
    /\ Expirable \in [Peer -> SUBSET Nat]
    /\ DataEncrypted \in BOOLEAN
    /\ RawStart \in [Peer -> BOOLEAN]

ASSUME LimitAssumption ==
    /\ UnitsPerPackage \in Nat \ {0}
    /\ MaxAssembled \in Nat \ {0}
    /\ UnconfirmedLimit \in Nat \ {0}
    /\ UrgentThreshold \in Nat \ {0}
    /\ Tolerance \in Nat /\ Tolerance < SeqSpace
    /\ EarlyTolerance \in Nat
    /\ AckLimit \in Nat \ {0}
    /\ NetCap \in [Peer -> Nat \ {0}]

(* No session sends as many reliable packages as half the sequence space.  *)
ASSUME WindowAssumption == MaxPackages \in Nat /\ 2 * MaxPackages < SeqSpace

(***************************************************************************)
(* A package.  rel: reliable, numbered by seq; first: ARQ_FirstPackage;    *)
(* data: its units; una: {} or the one number of its UNA section; acks:    *)
(* the numbers of its ACKS section; fsync: it has a FORCESYNC section;     *)
(* short: expireCombinedPackage cut it below CombinedPackageMimimumLength. *)
(***************************************************************************)
Package ==
    [rel : BOOLEAN, seq : SeqNum, first : BOOLEAN, data : SUBSET AllUnits,
     una : SUBSET SeqNum, acks : SUBSET SeqNum, fsync : BOOLEAN, short : BOOLEAN]

Seqs(packages) == {g.seq : g \in packages}

VARIABLES
    pushed,     \* units given to pushDataToSendingQueue so far
    taken,      \* units that left _dataQueue so far, sent or expired
    expired,    \* units whose deadline has passed
    nextSeq,    \* _UDPSeqBase
    opened,     \* the assembler has its _arqChecksum: the first package is out
    unconf,     \* _unconformedMap: the packages not confirmed
    feedback,   \* ARQPeerSeqManager
    started,    \* the parser has its _arqChecksum: the first package was seen
    last,       \* lastUDPSeq
    ahead,      \* unprocessedReceivedSeqs
    cache,      \* _disorderedCache
    parsing,    \* "idle", or the result so far of the datagram being parsed
    rx,         \* packages of that datagram not looked at yet
    parsed,     \* questList and answerList: copies of each unit parsed
    result,     \* the rest of ParseResult, kept until the status is synced
    reading,    \* the receive token is held
    raw,        \* datagrams still go through parseReceivedData
    closed,     \* requireClose
    delivered,  \* copies of each unit handed to the application
    net         \* datagrams under way to a peer

senderVars   == <<pushed, taken, expired, nextSeq, opened>>
receiverVars == <<started, last, ahead, cache, parsing, rx, parsed, result,
                  reading, raw, closed, delivered>>
parserVars   == <<started, last, ahead, cache, parsed>>
vars == <<senderVars, unconf, feedback, receiverVars, net>>

NoResult == [una |-> {}, acks |-> {}, canUna |-> FALSE, prior |-> FALSE,
             fsync |-> FALSE]
NoUnits  == [u \in AllUnits |-> 0]

Init ==
    /\ pushed = [p \in Peer |-> 0]
    /\ taken = [p \in Peer |-> 0]
    /\ expired = [p \in Peer |-> {}]
    /\ nextSeq = BaseSeq
    /\ opened = [p \in Peer |-> FALSE]
    /\ unconf = [p \in Peer |-> {}]
    /\ feedback = [p \in Peer |->
                     [available |-> FALSE, updated |-> FALSE, repeat |-> FALSE,
                      force |-> FALSE, lastUNA |-> 0, received |-> {}, fed |-> {}]]
    /\ started = [p \in Peer |-> FALSE]
    /\ last = [p \in Peer |-> 0]
    /\ ahead = [p \in Peer |-> {}]
    /\ cache = [p \in Peer |-> {}]
    /\ parsing = [p \in Peer |-> "idle"]
    /\ rx = [p \in Peer |-> <<>>]
    /\ parsed = [p \in Peer |-> NoUnits]
    /\ result = [p \in Peer |-> NoResult]
    /\ reading = [p \in Peer |-> FALSE]
    /\ raw = RawStart
    /\ closed = [p \in Peer |-> FALSE]
    /\ delivered = [p \in Peer |-> NoUnits]
    /\ net = [p \in Peer |-> {}]

-----------------------------------------------------------------------------
(* The application and the clock.                                          *)

(* pushDataToSendingQueue.                                                 *)
Push(p) ==
    /\ ~closed[p]
    /\ pushed[p] < MaxUnits[p]
    /\ pushed' = [pushed EXCEPT ![p] = @ + 1]
    /\ UNCHANGED <<taken, expired, nextSeq, opened, unconf, feedback, receiverVars, net>>

(* The deadline (expiredMS) of a pushed unit passes.                       *)
Expire(p) ==
    /\ \E u \in (Expirable[p] \cap 1 .. pushed[p]) \ expired[p] :
           expired' = [expired EXCEPT ![p] = @ \cup {u}]
    /\ UNCHANGED <<pushed, taken, nextSeq, opened, unconf, feedback, receiverVars, net>>

-----------------------------------------------------------------------------
(* The network: a set of datagrams per destination.  Delivery leaves the   *)
(* datagram there, so that it can be duplicated and overtaken.             *)

(* ::send of a datagram towards q.  A full channel drops another one.      *)
Transmit(q, d) ==
    \E kept \in {net[q]} \cup {net[q] \ {e} : e \in net[q]} :
        /\ Cardinality(kept \cup {d}) <= NetCap[q]
        /\ kept = net[q] \/ Cardinality(net[q] \cup {d}) > NetCap[q]
        /\ net' = [net EXCEPT ![q] = kept \cup {d}]

(* The network drops a datagram, or will not duplicate it any more.        *)
Lose(q) ==
    /\ \E d \in net[q] : net' = [net EXCEPT ![q] = @ \ {d}]
    /\ UNCHANGED <<senderVars, unconf, feedback, receiverVars>>

-----------------------------------------------------------------------------
(* Sending.                                                                *)

(* cleanReceivedSeqs: what may remain of receivedSeqs.  Numbers covered by *)
(* the UNA go; numbers acknowledged before stay only when the re-ack       *)
(* interval is over, which time decides.                                   *)
Cleaned(p) ==
    LET f   == feedback[p]
        due == {s \in f.received : f.available => Ahead(s, f.lastUNA)}
    IN  {A \in SUBSET due : due \ f.fed \subseteq A}

(* needSyncUNA.                                                            *)
NeedUNA(f) == f.available /\ (f.updated \/ f.repeat)

(* prepareAcksSection takes as many numbers as fit.                        *)
AckChoices(received) ==
    {A \in SUBSET received :
        \/ Cardinality(received) <= AckLimit /\ A = received
        \/ Cardinality(received) > AckLimit /\ Cardinality(A) = AckLimit}

(* fillDataSection: the units up to n leave the queue, the expired ones    *)
(* dropped and the others put into the package.                            *)
Live(p, n)  == (taken[p] + 1 .. n) \ expired[p]
Fits(p, n)  == Cardinality(Live(p, n)) <= UnitsPerPackage

(* expireCheck on a package about to be resent: when every unit in it has  *)
(* expired its data is cut out.  A COMBINED package left without UNA and   *)
(* ACKS section is then shorter than the parser accepts.                   *)
CutAny(p, g) ==
    IF g.data \cap expired[p] # {} THEN [g EXCEPT !.data = {}] ELSE g

Cut(p, g) ==
    IF ~DataEncrypted /\ g.data # {} /\ g.data \subseteq expired[p]
    THEN [g EXCEPT !.data = {},
                   !.short = /\ g.una = {} /\ g.acks = {}
                             /\ g.fsync \/ Cardinality(g.data) > 1]
    ELSE g

CutAll(p, G) == {Cut(p, g) : g \in G}

(* fetchResendPackages: the packages of U picked to share a datagram, cut  *)
(* if expired, in any order; room is how many fit.                         *)
ResendLists(p, U, room) ==
    {L \in UNION {[1 .. n -> CutAll(p, U)] : n \in 0 .. room} :
        \A i, j \in DOMAIN L : i # j => L[i].seq # L[j].seq}

ReplacedForgotten(p, U, L) == {g \in U : \A i \in DOMAIN L : g.seq # L[i].seq}

Replaced(p, U, L) ==
    LET resent == {L[i] : i \in DOMAIN L}
    IN  {g \in U : g.seq \notin Seqs(resent)} \cup resent

(* paddingResendPackages: a new package is kept as unconfirmed if it is    *)
(* reliable, and sent with resendable packages behind it.                  *)
PaddingResend(p, package) ==
    \E L \in ResendLists(p, unconf[p], MaxAssembled - 1) :
        /\ unconf' = [unconf EXCEPT ![p] =
                        Replaced(p, @, L) \cup (IF package.rel THEN {package} ELSE {})]
        /\ Transmit(Other(p), <<package>> \o L)

(* completeCommonPackage and updateUDPSeq: a package with the given        *)
(* sections is numbered if it holds reliable data.                         *)
SendPackage(p, units, una, acks, fsync) ==
    LET reliable == units \ Discardable[p] # {}
        package  == [rel |-> reliable, seq |-> IF reliable THEN nextSeq[p] ELSE 0,
                     first |-> reliable /\ ~opened[p], data |-> units,
                     una |-> una, acks |-> acks, fsync |-> fsync, short |-> FALSE]
    IN  /\ reliable => Sub(nextSeq[p], BaseSeq[p]) < MaxPackages
        /\ nextSeq' = [nextSeq EXCEPT ![p] = IF reliable THEN Next1(@) ELSE @]
        /\ opened' = [opened EXCEPT ![p] = @ \/ reliable]
        /\ PaddingResend(p, package)

(* prepareUNASection and prepareAcksSection on feedback f with acks A.     *)
WithUNA(f)  == [f EXCEPT !.updated = FALSE, !.repeat = FALSE]
WithAcks(f, A) == [f EXCEPT !.received = @ \ A, !.fed = @ \cup A]

(* Urgent packages take data along while few packages are unconfirmed.     *)
MayFillToLimit(p) == Cardinality(unconf[p]) <= UnconfirmedLimit
MayFill(p) == 2 * Cardinality(unconf[p]) <= UnconfirmedLimit

(* prepareUrgentARQSyncPackage of UDPAssembler: FORCESYNC if asked, UNA,   *)
(* the acknowledgements R cleaned of the old ones, and data up to n.       *)
UrgentPackage(p, ask, tell, R, n) ==
    LET f   == feedback[p]
        una == IF (tell /\ f.available) \/ NeedUNA(f) THEN {f.lastUNA} ELSE {}
        f1  == [f EXCEPT !.force = FALSE, !.received = R]
        f2  == IF una # {} THEN WithUNA(f1) ELSE f1
    IN  \E A \in AckChoices(R) :
            /\ ask \/ una # {} \/ A # {} \/ Live(p, n) # {}
            /\ feedback' = [feedback EXCEPT ![p] = WithAcks(f2, A)]
            /\ SendPackage(p, Live(p, n), una, A, ask)

(* prepareUrgentARQSyncPackage of UDPIOBuffer: a package that exists for   *)
(* its feedback.  Its cause is the number of unconfirmed packages, a       *)
(* FORCESYNC to answer, or news to tell.                                   *)
SendUrgent(p) ==
    /\ ~closed[p]
    /\ \E ask \in BOOLEAN, n \in taken[p] .. pushed[p], R \in Cleaned(p) :
          LET f    == feedback[p]
              tell == f.force /\ ~ask
          IN  /\ ask => Cardinality(unconf[p]) >= UrgentThreshold
              /\ ask \/ tell \/ f.updated \/ f.repeat \/ R # {}
              /\ IF MayFill(p) THEN Fits(p, n) ELSE n = taken[p]
              /\ UrgentPackage(p, ask, tell, R, n)
              /\ taken' = [taken EXCEPT ![p] = n]
    /\ UNCHANGED <<pushed, expired, receiverVars>>

(* prepareCommonPackage: data, after the urgent path found nothing to tell *)
(* (every received number was acknowledged a moment ago), with the UNA if  *)
(* the sync interval ended since, unless too many packages are unconfirmed.*)
SendCommon(p) ==
    /\ ~closed[p]
    /\ Cardinality(unconf[p]) < UnconfirmedLimit
    /\ ~feedback[p].force
    /\ {} \in Cleaned(p)
    /\ \E n \in taken[p] .. pushed[p], sync \in BOOLEAN :
          LET f  == feedback[p]
              f1 == [f EXCEPT !.received = {}]
          IN  /\ NeedUNA(f) => f.received = {}
              /\ sync => NeedUNA(f)
              /\ Fits(p, n)
              /\ sync \/ Live(p, n) # {}
              /\ feedback' = [feedback EXCEPT ![p] = IF sync THEN WithUNA(f1) ELSE f1]
              /\ SendPackage(p, Live(p, n), IF sync THEN {f.lastUNA} ELSE {}, {}, FALSE)
              /\ taken' = [taken EXCEPT ![p] = n]
    /\ UNCHANGED <<pushed, expired, receiverVars>>

(* A call that finds nothing to send still answers a FORCESYNC, forgets    *)
(* the numbers acknowledged a moment ago and drops expired units.          *)
SendNothing(p) ==
    /\ ~closed[p]
    /\ {} \in Cleaned(p)
    /\ ~NeedUNA(feedback[p])
    /\ feedback[p].force => ~feedback[p].available
    /\ feedback' = [feedback EXCEPT ![p].force = FALSE, ![p].received = {}]
    /\ \E n \in taken[p] .. pushed[p] :
          /\ Live(p, n) = {}
          /\ n = taken[p] \/ Cardinality(unconf[p]) < UnconfirmedLimit
          /\ taken' = [taken EXCEPT ![p] = n]
    /\ UNCHANGED <<pushed, expired, nextSeq, opened, unconf, receiverVars, net>>

(* prepareResentPackage_normalMode: due packages, one or assembled.        *)
ResendList(p, L) ==
    /\ ~closed[p]
    /\ L # <<>>
    /\ unconf' = [unconf EXCEPT ![p] = Replaced(p, @, L)]
    /\ Transmit(Other(p), L)
    /\ UNCHANGED <<senderVars, feedback, receiverVars>>

Resend(p) == \E L \in ResendLists(p, unconf[p], MaxAssembled) : ResendList(p, L)

-----------------------------------------------------------------------------
(* Receiving: the parser.                                                  *)

(* recvData or parseReceivedData takes a datagram and starts parse().      *)
Receive(p) ==
    /\ ~closed[p]
    /\ parsing[p] = "idle"
    /\ \E d \in net[p] : rx' = [rx EXCEPT ![p] = d]
    /\ parsing' = [parsing EXCEPT ![p] = "ok"]
    /\ reading' = [reading EXCEPT ![p] = ~raw[p]]
    /\ UNCHANGED <<senderVars, unconf, feedback, started, last, ahead, cache,
                   parsed, result, raw, closed, delivered, net>>

(* The cached packages the parser goes on with before anything else: after *)
(* the first package, all (unordered); then the successor of last.         *)
EarlyPendingAlways(p) == started[p] /\ cache[p] # {}
EarlyPending(p) == started[p] /\ ~DataEncrypted /\ cache[p] # {}
RunPending(p)   ==
    /\ started[p]
    /\ Next1(last[p]) \in (IF DataEncrypted THEN Seqs(cache[p]) ELSE ahead[p])

(* receiveUNA: the newest of the UNAs in the packages parsed.              *)
NewestUNA(r, una) ==
    IF una = {} \/ r.una = {} THEN r.una \cup una
    ELSE IF \A x \in una, y \in r.una : Ahead(x, y) THEN una ELSE r.una

(* parseDATA.  Copies of a unit are counted up to two: a duplicated        *)
(* discardable package is processed any number of times.                   *)
CountBound == 2
Counted(n) == IF n > CountBound THEN CountBound ELSE n
ParseData(counts, data) ==
    [u \in AllUnits |-> IF u \in data THEN Counted(counts[u] + 1) ELSE counts[u]]

(* parseACKS, parseUNA and parseForceSync.                                 *)
ParseFeedback(r, g) ==
    [r EXCEPT !.una = NewestUNA(r, g.una), !.acks = @ \cup g.acks,
              !.fsync = @ \/ g.fsync]

(* processPackage: the sections of a package, into the ParseResult.  It    *)
(* fails on a COMBINED package that is too short.                          *)
Process(p, g, r) ==
    /\ parsed' = [parsed EXCEPT ![p] = IF g.short THEN @ ELSE ParseData(@, g.data)]
    /\ result' = [result EXCEPT ![p] = IF g.short THEN r ELSE ParseFeedback(r, g)]

(* A section done: on to the next one, or the rest of the datagram given   *)
(* up when the parser returned false.                                      *)
Continue(p, ok) ==
    /\ rx' = [rx EXCEPT ![p] = IF ok THEN Tail(@) ELSE <<>>]
    /\ parsing' = [parsing EXCEPT ![p] = IF ok THEN "ok" ELSE "failed"]

CanParse(p) ==
    /\ ~closed[p]
    /\ parsing[p] = "ok" /\ rx[p] # <<>>
    /\ ~EarlyPending(p) /\ ~RunPending(p)

(* A discardable package is processed whenever it comes.                   *)
ParseDiscardable(p) ==
    LET g == Head(rx[p])
    IN  /\ CanParse(p) /\ ~g.rel
        /\ Process(p, g, result[p])
        /\ Continue(p, ~g.short)
        /\ UNCHANGED <<senderVars, unconf, feedback, started, last, ahead, cache,
                       reading, raw, closed, delivered, net>>

(* Reliable, at or behind last: a duplicate, which makes parse() fail.     *)
ParseDuplicate(p) ==
    LET g == Head(rx[p])
    IN  /\ CanParse(p) /\ g.rel /\ started[p]
        /\ ~Ahead(g.seq, last[p])
        /\ result' = [result EXCEPT ![p].prior = TRUE]
        /\ Continue(p, FALSE)
        /\ UNCHANGED <<senderVars, unconf, feedback, parserVars, reading, raw,
                       closed, delivered, net>>

(* Reliable, the successor of last.                                        *)
ParseNext(p) ==
    LET g == Head(rx[p])
    IN  /\ CanParse(p) /\ g.rel /\ started[p]
        /\ g.seq = Next1(last[p])
        /\ Process(p, g, [result[p] EXCEPT !.canUna = TRUE])
        /\ last' = [last EXCEPT ![p] = g.seq]
        /\ Continue(p, TRUE)
        /\ UNCHANGED <<senderVars, unconf, feedback, started, ahead, cache,
                       reading, raw, closed, delivered, net>>

IsGap(p, g) == g.rel /\ started[p] /\ Ahead(g.seq, last[p]) /\ g.seq # Next1(last[p])
Tolerated(p, g) == WithinTolerance(g.seq, last[p], Tolerance)

(* Taken in already, behind the gap.                                       *)
Seen(p, g) == g.seq \in (IF DataEncrypted THEN Seqs(cache[p]) ELSE ahead[p])

(* Reliable, ahead of a gap, unordered: processed at once                  *)
(* (aheadProcessReliableAndMonitoredPackage).                              *)
ParseAhead(p) ==
    LET g == Head(rx[p])
    IN  /\ CanParse(p) /\ IsGap(p, g) /\ ~DataEncrypted
        /\ ~Seen(p, g) /\ Tolerated(p, g)
        /\ ahead' = [ahead EXCEPT ![p] = @ \cup {g.seq}]
        /\ Process(p, g, result[p])
        /\ Continue(p, ~g.short)
        /\ UNCHANGED <<senderVars, unconf, feedback, started, last, cache,
                       reading, raw, closed, delivered, net>>

(* Reliable, ahead of a gap, ordered: cached (cacheCurrentUDPPackage).     *)
ParseCache(p) ==
    LET g == Head(rx[p])
    IN  /\ CanParse(p) /\ IsGap(p, g) /\ DataEncrypted
        /\ ~Seen(p, g) /\ Tolerated(p, g)
        /\ IF Cardinality(cache[p]) > Tolerance
           THEN closed' = [closed EXCEPT ![p] = TRUE] /\ UNCHANGED <<ahead, cache>>
           ELSE /\ cache' = [cache EXCEPT ![p] = @ \cup {g}]
                /\ ahead' = [ahead EXCEPT ![p] = @ \cup {g.seq}]
                /\ UNCHANGED closed
        /\ Continue(p, TRUE)
        /\ UNCHANGED <<senderVars, unconf, feedback, started, last, parsed, result,
                       reading, raw, delivered, net>>

(* Reliable, ahead of a gap, but known already or too far ahead: ignored.  *)
ParseIgnored(p) ==
    LET g == Head(rx[p])
    IN  /\ CanParse(p) /\ IsGap(p, g)
        /\ Seen(p, g) \/ ~Tolerated(p, g)
        /\ Continue(p, TRUE)
        /\ UNCHANGED <<senderVars, unconf, feedback, parserVars, result, reading,
                       raw, closed, delivered, net>>

(* The first reliable package of the peer.                                 *)
ParseFirstAgain(p) ==
    LET g == Head(rx[p])
    IN  /\ CanParse(p) /\ g.rel /\ g.first
        /\ started' = [started EXCEPT ![p] = TRUE]
        /\ last' = [last EXCEPT ![p] = g.seq]
        /\ Process(p, g, [result[p] EXCEPT !.canUna = TRUE])
        /\ Continue(p, TRUE)
        /\ UNCHANGED <<senderVars, unconf, feedback, ahead, cache, reading, raw,
                       closed, delivered, net>>

ParseFirst(p) ==
    LET g == Head(rx[p])
    IN  /\ CanParse(p) /\ g.rel /\ ~started[p] /\ g.first
        /\ started' = [started EXCEPT ![p] = TRUE]
        /\ last' = [last EXCEPT ![p] = g.seq]
        /\ ahead' = [ahead EXCEPT ![p] = IF DataEncrypted THEN Seqs(cache[p]) \ {g.seq} ELSE @]
        /\ Process(p, g, [result[p] EXCEPT !.canUna = TRUE])
        /\ Continue(p, TRUE)
        /\ UNCHANGED <<senderVars, unconf, feedback, cache, reading, raw, closed,
                       delivered, net>>

EarlyFullTooSoon(p) == Cardinality(cache[p]) + 1 >= EarlyTolerance
EarlyFull(p) == Cardinality(cache[p]) >= EarlyTolerance

(* A reliable package before the first one: cached, up to a limit.         *)
ParseEarly(p) ==
    LET g     == Head(rx[p])
        known == g.seq \in Seqs(cache[p])
        full  == EarlyFull(p)
    IN  /\ CanParse(p) /\ g.rel /\ ~started[p] /\ ~g.first
        /\ cache' = [cache EXCEPT ![p] = IF known \/ full THEN @ ELSE @ \cup {g}]
        /\ closed' = [closed EXCEPT ![p] = ~known /\ full]
        /\ Continue(p, TRUE)
        /\ UNCHANGED <<senderVars, unconf, feedback, started, last, ahead, parsed,
                       result, reading, raw, delivered, net>>

(* verifyAndProcessCachedPackages, its loop over the cache.                *)
ProcessEarly(p) ==
    /\ ~closed[p]
    /\ EarlyPending(p)
    /\ \E g \in cache[p] :
          /\ cache' = [cache EXCEPT ![p] = @ \ {g}]
          /\ ahead' = [ahead EXCEPT ![p] = (@ \cup {g.seq}) \ {last[p]}]
          /\ Process(p, g, result[p])
    /\ UNCHANGED <<senderVars, unconf, feedback, started, last, parsing, rx,
                   reading, raw, closed, delivered, net>>

(* checkLastUDPSeq, one turn of its loop.                                  *)
AdvanceLast(p) ==
    /\ ~closed[p]
    /\ ~DataEncrypted /\ ~EarlyPending(p) /\ RunPending(p)
    /\ last' = [last EXCEPT ![p] = Next1(@)]
    /\ ahead' = [ahead EXCEPT ![p] = @ \ {Next1(last[p])}]
    /\ UNCHANGED <<senderVars, unconf, feedback, started, cache, parsing, rx,
                   parsed, result, reading, raw, closed, delivered, net>>

(* processCachedPackageFromSeq, one turn of its loop.                      *)
ProcessCached(p) ==
    /\ ~closed[p]
    /\ DataEncrypted /\ RunPending(p)
    /\ \E g \in cache[p] :
          /\ g.seq = Next1(last[p])
          /\ cache' = [cache EXCEPT ![p] = @ \ {g}]
          /\ ahead' = [ahead EXCEPT ![p] = @ \ {g.seq}]
          /\ last' = [last EXCEPT ![p] = g.seq]
          /\ Process(p, g, [result[p] EXCEPT !.canUna = TRUE])
    /\ UNCHANGED <<senderVars, unconf, feedback, started, parsing, rx, reading,
                   raw, closed, delivered, net>>

-----------------------------------------------------------------------------
(* Receiving: after the parser.                                            *)

(* SyncARQStatus: the feedback to give, then the feedback received.        *)
NewFeedbackNoRepeat(p) ==
    LET f == feedback[p]
        g == IF result[p].canUna
             THEN [f EXCEPT !.lastUNA = last[p], !.updated = TRUE, !.available = TRUE]
             ELSE f
    IN  [g EXCEPT !.received = ahead[p], !.force = result[p].fsync]

NewFeedback(p) ==
    LET f == feedback[p]
        r == result[p]
        g == IF r.canUna
             THEN [f EXCEPT !.lastUNA = last[p], !.updated = TRUE, !.available = TRUE,
                            !.fed = {s \in @ : Ahead(s, last[p])}]
             ELSE f
    IN  [g EXCEPT !.repeat = @ \/ r.prior,
                  !.received = ahead[p],
                  !.force = r.fsync]

(* Mutant: an acknowledgement confirms what came before it, as a UNA does. *)
ConfirmedUpTo(p, s) == \E n \in result[p].una \cup result[p].acks : ~Ahead(s, n)

(* conformFeedbackSeqs with cleanByUNA, cleaningFeedbackAcks, cleanByAcks. *)
Confirmed(p, s) ==
    \/ \E una \in result[p].una : ~Ahead(s, una)
    \/ s \in {a \in result[p].acks : \A una \in result[p].una : Ahead(a, una)}

SyncARQStatus(p) ==
    /\ feedback' = [feedback EXCEPT ![p] = NewFeedback(p)]
    /\ unconf' = [unconf EXCEPT ![p] = {g \in @ : ~Confirmed(p, g.seq)}]
    /\ result' = [result EXCEPT ![p] = NoResult]

ParseOver(p) ==
    /\ ~closed[p]
    /\ \/ parsing[p] = "failed"
       \/ parsing[p] = "ok" /\ rx[p] = <<>>
    /\ ~EarlyPending(p) /\ ~RunPending(p)

(* The units parsed go to the application.                                 *)
DeliverAgain(p) ==
    /\ delivered' = [delivered EXCEPT ![p] = [u \in AllUnits |-> Counted(@[u] + parsed[p][u])]]
    /\ UNCHANGED parsed

Deliver(p) ==
    /\ delivered' = [delivered EXCEPT ![p] = [u \in AllUnits |-> Counted(@[u] + parsed[p][u])]]
    /\ parsed' = [parsed EXCEPT ![p] = NoUnits]

(* The end of recvData: its caller delivers whatever was parsed; the       *)
(* result is kept until the receive token is given back.                   *)
FinishRecvData(p) ==
    /\ ParseOver(p) /\ ~raw[p]
    /\ Deliver(p)
    /\ parsing' = [parsing EXCEPT ![p] = "idle"]
    /\ rx' = [rx EXCEPT ![p] = <<>>]
    /\ UNCHANGED <<senderVars, unconf, feedback, started, last, ahead, cache,
                   result, reading, raw, closed, net>>

(* returnRecvToken.                                                        *)
ReturnRecvToken(p) ==
    /\ ~closed[p]
    /\ reading[p] /\ parsing[p] = "idle"
    /\ reading' = [reading EXCEPT ![p] = FALSE]
    /\ SyncARQStatus(p)
    /\ UNCHANGED <<senderVars, parserVars, parsing, rx, raw, closed, delivered, net>>

(* The end of parseReceivedData, which delivers and syncs only if parse()  *)
(* succeeded, and resets the result in any case.                           *)
FinishRawData(p) ==
    /\ ParseOver(p) /\ raw[p]
    /\ IF parsing[p] = "ok" THEN Deliver(p) /\ SyncARQStatus(p)
       ELSE /\ parsed' = [parsed EXCEPT ![p] = NoUnits]
            /\ result' = [result EXCEPT ![p] = NoResult]
            /\ UNCHANGED <<delivered, feedback, unconf>>
    /\ parsing' = [parsing EXCEPT ![p] = "idle"]
    /\ rx' = [rx EXCEPT ![p] = <<>>]
    /\ UNCHANGED <<senderVars, started, last, ahead, cache, reading, raw, closed, net>>

(* initConnection is over: the server's socket joins epoll, and from then  *)
(* on datagrams come through recvData.                                     *)
JoinEpoll(p) ==
    /\ ~closed[p]
    /\ raw[p] /\ parsing[p] = "idle"
    /\ raw' = [raw EXCEPT ![p] = FALSE]
    /\ UNCHANGED <<senderVars, unconf, feedback, started, last, ahead, cache, parsing,
                   rx, parsed, result, reading, closed, delivered, net>>

-----------------------------------------------------------------------------
Parse(p) ==
    \/ ParseDiscardable(p) \/ ParseDuplicate(p) \/ ParseNext(p) \/ ParseAhead(p)
    \/ ParseCache(p) \/ ParseIgnored(p) \/ ParseFirst(p) \/ ParseEarly(p)
    \/ ProcessEarly(p) \/ AdvanceLast(p) \/ ProcessCached(p)

Finish(p) == FinishRecvData(p) \/ ReturnRecvToken(p) \/ FinishRawData(p)

Send(p) == SendUrgent(p) \/ SendCommon(p) \/ SendNothing(p) \/ Resend(p)

PeerNext(p) ==
    \/ Push(p) \/ Expire(p) \/ Send(p)
    \/ Receive(p) \/ Parse(p) \/ Finish(p) \/ JoinEpoll(p) \/ Lose(p)

Next == \E p \in Peer : PeerNext(p)

Spec == Init /\ [][Next]_vars

-----------------------------------------------------------------------------
(* Safety properties.                                                      *)

(* The type invariant.                                                     *)
FeedbackType ==
    [available : BOOLEAN, updated : BOOLEAN, repeat : BOOLEAN, force : BOOLEAN,
     lastUNA : SeqNum, received : SUBSET SeqNum, fed : SUBSET SeqNum]

ResultType ==
    [una : SUBSET SeqNum, acks : SUBSET SeqNum, canUna : BOOLEAN,
     prior : BOOLEAN, fsync : BOOLEAN]

SenderTypeOK ==
    /\ pushed \in [Peer -> Nat] /\ taken \in [Peer -> Nat]
    /\ \A p \in Peer : taken[p] <= pushed[p] /\ pushed[p] <= MaxUnits[p]
    /\ expired \in [Peer -> SUBSET Nat]
    /\ nextSeq \in [Peer -> SeqNum] /\ opened \in [Peer -> BOOLEAN]
    /\ unconf \in [Peer -> SUBSET Package]
    /\ feedback \in [Peer -> FeedbackType]

ReceiverTypeOK ==
    /\ started \in [Peer -> BOOLEAN] /\ last \in [Peer -> SeqNum]
    /\ ahead \in [Peer -> SUBSET SeqNum] /\ cache \in [Peer -> SUBSET Package]
    /\ parsing \in [Peer -> {"idle", "ok", "failed"}]
    /\ rx \in [Peer -> Seq(Package)]
    /\ parsed \in [Peer -> [AllUnits -> Nat]]
    /\ delivered \in [Peer -> [AllUnits -> Nat]]
    /\ result \in [Peer -> ResultType]
    /\ reading \in [Peer -> BOOLEAN] /\ raw \in [Peer -> BOOLEAN]
    /\ closed \in [Peer -> BOOLEAN]

TypeOK ==
    /\ SenderTypeOK
    /\ ReceiverTypeOK
    /\ net \in [Peer -> SUBSET Seq(Package)]

Reliable(p) == Unit(p) \ Discardable[p]

Copies(q, u) == delivered[q][u] + parsed[q][u]

(* Duplicates are removed: whatever the network duplicates and the sender  *)
(* resends, in whichever datagrams, no reliable unit is parsed twice.      *)
AtMostOnce == \A p \in Peer : \A u \in Reliable(p) : Copies(Other(p), u) <= 1

(* What was numbered p's s-th package and what peer q took in of them.     *)
SentSeqs(p) == {s \in SeqNum : Sub(s, BaseSeq[p]) < Sub(nextSeq[p], BaseSeq[p])}
ReceivedSeqs(q) ==
    {s \in SeqNum : started[q] /\ (s \in ahead[q] \/ Sub(s, BaseSeq[Other(q)])
                                               <= Sub(last[q], BaseSeq[Other(q)]))}

(* A sender forgets a package only when its peer has it: acknowledgements  *)
(* and UNAs that come late, twice or in a resent package, in any order,    *)
(* and near the wrap of the sequence space, never confirm a package that   *)
(* was lost.                                                               *)
ConfirmedWasReceived ==
    \A p \in Peer :
        SentSeqs(p) \subseteq Seqs(unconf[p]) \cup ReceivedSeqs(Other(p))

(* Nothing is lost: a reliable unit that left the queue and has not        *)
(* expired is still to be resent, or the peer has obtained it.             *)
Obtained(q, u) == Copies(q, u) > 0 \/ \E g \in cache[q] : u \in g.data

NoLoss ==
    \A p \in Peer : \A u \in (Reliable(p) \cap 1 .. taken[p]) \ expired[p] :
        Obtained(Other(p), u) \/ \E g \in unconf[p] : u \in g.data

(* A peer that parses in order hands units over in the order they were     *)
(* pushed, skipping only expired ones.                                     *)
InOrderWhenOrdered ==
    \A p \in Peer : DataEncrypted =>
        \A u, v \in Reliable(p) :
            u < v /\ Copies(Other(p), v) > 0
               => u \in expired[p] \/ Copies(Other(p), u) > 0

(* Flow control: no more packages wait for confirmation than the limit,    *)
(* the ones that carried urgent feedback included.                         *)
UnconfirmedBounded == \A p \in Peer : Cardinality(unconf[p]) <= UnconfirmedLimit

(* The limits on what the parser caches are wide enough for a peer that    *)
(* keeps to its own limit: none closes the connection.                     *)
NoSpuriousClose == \A p \in Peer : ~closed[p]

(* The UNA a peer reports never goes back, whatever it parsed.             *)
UnaForward ==
    [][\A p \in Peer : feedback[p].available
          => /\ feedback'[p].available
             /\ ~Ahead(feedback[p].lastUNA, feedback'[p].lastUNA)]_vars

(* The engine implements reliable delivery.                                *)
Delivery == INSTANCE ReliableDelivery WITH Ordered <- DataEncrypted

ImplementsDelivery == Delivery!Spec

=============================================================================
