---------------------------- MODULE UdpSegments ----------------------------
(***************************************************************************)
(* Large data over UDP: one peer's UDPAssembler cuts data units that do    *)
(* not fit a datagram into numbered segments, the other's ARQParser puts   *)
(* them together again.  UdpArq below them is taken at its word: a         *)
(* reliable package is parsed once, early or, with data-enhanced           *)
(* encryption, in sequence; once its data expired it may arrive cut.  A    *)
(* discardable one comes any number of times or never.                     *)
(***************************************************************************)
EXTENDS Integers, Sequences, FiniteSets

CONSTANTS
    Size,           \* Size[u]: bytes of the u-th unit
    Oneway,         \* units sent as discardable data
    Expirable,      \* units whose deadline may pass
    Room,           \* bytes of a datagram behind its header (_MTU - 8)
    SectionHead,    \* SectionHeaderSize
    SegmentHead,    \* SegmentPackageSeqSize and the segment's index
    Feedback,       \* bytes of the UNA and ACKS sections, when there are any
    IdSpace,        \* values of _packageIdNumber, 2^16 in the code
    FirstId,
    CacheLimit,     \* _max_cached_uncompleted_segment_package_count
    MaxReports      \* bound: datagrams with feedback as well as data

Units == DOMAIN Size

ASSUME SizesAssumption ==
    /\ Size \in Seq(Nat \ {0})
    /\ Oneway \subseteq Units /\ Expirable \subseteq Units
    /\ {Room, SectionHead, SegmentHead, Feedback} \subseteq Nat \ {0}
    /\ MaxReports \in Nat
    /\ Room > SectionHead + SegmentHead + Feedback
ASSUME IdsAssumption == IdSpace \in Nat \ {0} /\ FirstId \in 0 .. IdSpace - 1

\* A session that begins fewer segmented packages than there are ids.
ASSUME NoReuseAssumption == Len(Size) < IdSpace

ASSUME CacheAssumption == CacheLimit \in Nat \ {0}

VARIABLES
    encrypted,  \* data-enhanced encryption: _dataEncryptor, and the parser in order
    pushed,     \* units given to pushDataToSendingQueue
    expired,    \* units whose expiredMS has passed
    queue,      \* _dataQueue
    sending,    \* _sendingSegmentInfo; unit 0 when its data is NULL
    packageId,  \* _packageIdNumber
    ciphered,   \* sections the sender's stream cipher went through
    reports,    \* datagrams made with feedback
    made,       \* reliable packages made
    net,        \* those that were not parsed yet
    loose,      \* discardable packages that were sent
    cache,      \* _uncompletedPackages
    deciphered, \* sections the parser's stream cipher went through
    delivered,  \* how often a unit was handed over, up to two
    garbled,    \* decodeBuffer was given something that is not a unit
    cleared     \* units whose segments dropExpiredCache removed

sendVars == <<queue, sending, packageId, ciphered>>
netVars == <<reports, made, net, loose>>
parseVars == <<cache, deciphered, delivered, garbled, cleared>>
vars == <<encrypted, pushed, expired, sendVars, netVars, parseVars>>

NotSending == [unit |-> 0, next |-> 1, offset |-> 0]
NoCache == [i \in {} |-> {}]

Init ==
    /\ encrypted \in BOOLEAN
    /\ pushed = 0 /\ expired = {}
    /\ queue = <<>> /\ sending = NotSending /\ packageId = FirstId /\ ciphered = 0
    /\ reports = 0 /\ made = 0 /\ net = {} /\ loose = {}
    /\ cache = NoCache /\ deciphered = 0
    /\ delivered = [u \in Units |-> 0]
    /\ garbled = FALSE /\ cleared = {}

-----------------------------------------------------------------------------
(* Filling a datagram.  d is the sending buffer with what it is filled     *)
(* from; a section is a whole unit, a segment or a cancelled segment.      *)

Section(kind, u, id, index, isLast, from, bytes, at) ==
    [kind |-> kind, unit |-> u, id |-> id, index |-> index, isLast |-> isLast,
     from |-> from, bytes |-> bytes, at |-> at, oneway |-> u \in Oneway]

\* dataEncrypt, of everything but discardable data
Ciphers(u) == encrypted /\ u \notin Oneway
After(d, u) == d.ciphered + (IF Ciphers(u) THEN 1 ELSE 0)

\* A datagram of one section becomes a single package, without section head.
Spare(d) == IF d.sections = <<>> /\ ~d.feedback THEN SectionHead ELSE 0

Put(d, section, cost) ==
    [d EXCEPT !.sections = Append(@, section), !.used = @ + cost,
              !.ciphered = After(d, section.unit)]

\* Mutant: the last segment is marked only if it leaves space.
EndsShort(rest, space) == rest < space
Ends(rest, space) == rest <= space

(* prepareSegmentedDataSection and prepareSegmentedDataExpiredSection.     *)
SegmentFits(d) == Room > d.used + SectionHead + SegmentHead - Spare(d)

NextSegment(d) ==
    LET s     == d.sending
        u     == s.unit
        space == Room + Spare(d) - d.used - SectionHead - SegmentHead
        rest  == Size[u] - s.offset
        bytes == IF rest > space THEN space ELSE rest
        whole == SectionHead + SegmentHead
    IN  IF u \in expired
        THEN [d EXCEPT !.sections = Append(@, Section("cancel", u, d.id, s.next, FALSE, 0, 0, 0)),
                       !.used = @ + whole, !.sending = NotSending]
        ELSE [Put(d, Section("segment", u, d.id, s.next, Ends(rest, space), s.offset, bytes,
                             d.ciphered), whole + bytes) EXCEPT
                 !.sending = IF s.offset + bytes >= Size[u] THEN NotSending
                             ELSE [unit |-> u, next |-> s.next + 1, offset |-> s.offset + bytes]]

(* prepareDataSection: the next unit goes in whole; or, if it needs more   *)
(* than a datagram of its own, with a first segment; or not at all.        *)
Single(d, u) ==
    [Put(d, Section("data", u, 0, 0, FALSE, 0, Size[u], d.ciphered), SectionHead + Size[u])
        EXCEPT !.queue = Tail(@)]

\* Mutant: ids do not wrap.
NewIdNoWrap(id) == id + 1
NewId(id) == (id + 1) % IdSpace

FirstSegment(d, u, space) ==
    LET bytes == space - SegmentHead
        id    == NewId(d.id)
    IN  [Put(d, Section("segment", u, id, 1, FALSE, 0, bytes, d.ciphered),
             SectionHead + SegmentHead + bytes)
            EXCEPT !.queue = Tail(@), !.id = id,
                   !.sending = [unit |-> u, next |-> 2, offset |-> bytes]]

(* One unit of the queue; none once the datagram is full.                 *)
FillNext(d) ==
    LET u     == Head(d.queue)
        space == Room + Spare(d) - d.used - SectionHead
    IN  IF d.queue = <<>> \/ d.used >= Room THEN d
        ELSE IF u \in expired THEN [d EXCEPT !.queue = Tail(@)]
        ELSE IF space <= 0 THEN d
        ELSE IF Size[u] <= space THEN Single(d, u)
        ELSE IF Spare(d) = 0 /\ Size[u] <= Room THEN d
        ELSE IF space < SegmentHead THEN d
        ELSE FirstSegment(d, u, space)

(* fillDataSection, behind the rest of a segmented unit.                   *)
FillFromQueue(d) ==
    LET filled[i \in 0 .. Len(d.queue)] == IF i = 0 THEN d ELSE FillNext(filled[i - 1])
    IN  filled[Len(d.queue)]

FillDataSection(d) ==
    IF d.sending.unit = 0 THEN FillFromQueue(d)
    ELSE IF SegmentFits(d) THEN FillFromQueue(NextSegment(d))
    ELSE d

-----------------------------------------------------------------------------
(* The sender *)

(* pushDataToSendingQueue *)
Push ==
    /\ pushed < Len(Size)
    /\ pushed' = pushed + 1
    /\ queue' = Append(queue, pushed')
    /\ UNCHANGED <<encrypted, expired, sending, packageId, ciphered, netVars, parseVars>>

PassDeadline(u) ==
    /\ u \in (1 .. pushed) \ expired
    /\ expired' = expired \cup {u}
    /\ UNCHANGED <<encrypted, pushed, sendVars, netVars, parseVars>>

Filled(feedback) ==
    FillDataSection([sections |-> <<>>, used |-> IF feedback THEN Feedback ELSE 0,
                     feedback |-> feedback, queue |-> queue, sending |-> sending,
                     id |-> packageId, ciphered |-> ciphered])

(* prepareCommonPackage or prepareUrgentARQSyncPackage with data, then     *)
(* the send.  A package with reliable data is reliable.                    *)
Send(feedback) ==
    /\ queue # <<>> \/ sending.unit # 0
    /\ feedback => reports < MaxReports
    /\ reports' = IF feedback THEN reports + 1 ELSE reports
    /\ \E d \in {Filled(feedback)} :
          LET reliable == \E i \in DOMAIN d.sections : ~d.sections[i].oneway IN
          /\ queue' = d.queue /\ sending' = d.sending
          /\ packageId' = d.id /\ ciphered' = d.ciphered
          /\ made' = IF reliable THEN made + 1 ELSE made
          /\ net' = IF reliable THEN net \cup {[no |-> made', sections |-> d.sections]} ELSE net
          /\ loose' = IF reliable \/ d.sections = <<>> THEN loose ELSE loose \cup {d.sections}
    /\ UNCHANGED <<encrypted, pushed, expired, parseVars>>

-----------------------------------------------------------------------------
(* The parser.  p is its state while it goes through a datagram; it stops  *)
(* at the first section that is refused.                                   *)

Piece(p, section) ==
    [index |-> section.index, unit |-> section.unit, from |-> section.from,
     bytes |-> section.bytes, isLast |-> section.isLast,
     inStep |-> Ciphers(section.unit) => section.at = p.deciphered]

Decipher(p, section) ==
    [p EXCEPT !.deciphered = @ + (IF Ciphers(section.unit) THEN 1 ELSE 0)]

(* decodeBuffer: it takes what is a unit and refuses anything else.        *)
Decode(p, u, isUnit) ==
    IF isUnit THEN [p EXCEPT !.delivered[u] = IF @ = 2 THEN 2 ELSE @ + 1]
    ELSE [p EXCEPT !.garbled = TRUE, !.ok = FALSE]

(* assembleSegments joins the pieces by index; count is known once the     *)
(* last one came.                                                          *)
Before(x, y, pieces) ==
    /\ x.index < y.index
    /\ \A z \in pieces : z.index <= x.index \/ z.index >= y.index

IsUnit(pieces) ==
    /\ \A x, y \in pieces : x.unit = y.unit /\ x.inStep
    /\ \A x \in pieces :
          /\ (\A y \in pieces : x.index <= y.index) => x.from = 0
          /\ (\A y \in pieces : y.index <= x.index) => x.from + x.bytes = Size[x.unit]
    /\ \A x, y \in pieces : Before(x, y, pieces) => y.from = x.from + x.bytes

\* Mutant: complete as soon as the last segment is there.
CompleteOnLast(pieces) == \E x \in pieces : x.isLast
Complete(pieces) == \E x \in pieces : x.isLast /\ x.index = Cardinality(pieces)

Without(c, id) == [i \in DOMAIN c \ {id} |-> c[i]]
With(c, id, pieces) == [i \in DOMAIN c \cup {id} |-> IF i = id THEN pieces ELSE c[i]]

(* dropExpiredCache is called with now plus the limit in seconds: every    *)
(* package was created before that.                                        *)
ClearCache(p) ==
    [p EXCEPT !.cache = NoCache,
              !.cleared = @ \cup {x.unit : x \in UNION {p.cache[i] : i \in DOMAIN p.cache}}]

MakeRoom(p) == IF Cardinality(DOMAIN p.cache) >= CacheLimit THEN ClearCache(p) ELSE p

(* parseDATA of a segment.                                                 *)
NewPackage(p, section) ==
    [Decipher(p, section) EXCEPT !.cache = With(@, section.id, {Piece(p, section)})]

Conflicts(pieces, section) ==
    \/ section.isLast /\ \E x \in pieces : x.isLast
    \/ \E x \in pieces : x.index = section.index

AddSegment(p, section) ==
    LET pieces == p.cache[section.id] \cup {Piece(p, section)}
        q      == Decipher(p, section)
    IN  IF Complete(pieces)
        THEN Decode([q EXCEPT !.cache = Without(@, section.id)], section.unit, IsUnit(pieces))
        ELSE [q EXCEPT !.cache = With(@, section.id, pieces)]

ParseSegment(p, section) ==
    LET q == MakeRoom(p) IN
    IF section.id \notin DOMAIN q.cache THEN NewPackage(q, section)
    ELSE IF Conflicts(q.cache[section.id], section) THEN [q EXCEPT !.ok = FALSE]
    ELSE AddSegment(q, section)

ParseData(p, section) ==
    IF ~p.ok THEN p
    ELSE CASE section.kind = "data" ->
                  Decode(Decipher(p, section), section.unit, Piece(p, section).inStep)
           [] section.kind = "cancel" -> [p EXCEPT !.cache = Without(@, section.id)]
           [] section.kind = "segment" -> ParseSegment(p, section)

Parsed(sections) ==
    LET before == [cache |-> cache, deciphered |-> deciphered, delivered |-> delivered,
                   garbled |-> garbled, cleared |-> cleared, ok |-> TRUE]
        parsed[i \in 0 .. Len(sections)] ==
            IF i = 0 THEN before ELSE ParseData(parsed[i - 1], sections[i])
    IN  parsed[Len(sections)]

Parse(sections) ==
    \E p \in {Parsed(sections)} :
        /\ cache' = p.cache /\ deciphered' = p.deciphered /\ delivered' = p.delivered
        /\ garbled' = p.garbled /\ cleared' = p.cleared

-----------------------------------------------------------------------------
(* Arrivals *)

(* expireCheck: when all data of a package expired, its resent copies have *)
(* the whole units cut out and the segments cancelled.                     *)
DataUnits(g) == {g.sections[i].unit : i \in {j \in DOMAIN g.sections : g.sections[j].kind # "cancel"}}

\* Mutants: one expired unit is enough; encrypted packages are cut as well.
OutdatedByAny(g) == ~encrypted /\ DataUnits(g) \cap expired # {}
OutdatedAlways(g) == DataUnits(g) # {} /\ DataUnits(g) \subseteq expired
Outdated(g) == ~encrypted /\ DataUnits(g) # {} /\ DataUnits(g) \subseteq expired

Cut(sections) ==
    LET kept[i \in 0 .. Len(sections)] ==
            IF i = 0 THEN <<>>
            ELSE IF sections[i].kind = "data" THEN kept[i - 1]
            ELSE Append(kept[i - 1], [sections[i] EXCEPT !.kind = "cancel"])
    IN  kept[Len(sections)]

(* A reliable package is parsed once, in sequence if encrypted.            *)
Take(g) ==
    /\ encrypted => \A h \in net : g.no <= h.no
    /\ net' = net \ {g}

Arrives(g) ==
    /\ Take(g)
    /\ Parse(g.sections)
    /\ UNCHANGED <<encrypted, pushed, expired, sendVars, reports, made, loose>>

\* A combined package cut down to one segment with a short index is less than
\* parseCOMBINED takes.
MayBeShort(g) == Len(g.sections) > 1 /\ Len(Cut(g.sections)) = 1

ArrivesCut(g) ==
    /\ Take(g) /\ Outdated(g)
    /\ Parse(Cut(g.sections)) \/ (MayBeShort(g) /\ Parse(<<>>))
    /\ UNCHANGED <<encrypted, pushed, expired, sendVars, reports, made, loose>>

(* Discardable packages may come again, out of order, or never.            *)
ArrivesLoose(sections) ==
    /\ Parse(sections)
    /\ UNCHANGED <<encrypted, pushed, expired, sendVars, netVars>>

Next ==
    \/ Push
    \/ \E u \in Expirable : PassDeadline(u)
    \/ \E feedback \in BOOLEAN : Send(feedback)
    \/ \E g \in net : Arrives(g) \/ ArrivesCut(g)
    \/ \E sections \in loose : ArrivesLoose(sections)

Spec == Init /\ [][Next]_vars

(* realSend goes on until nothing is left to send, a datagram without      *)
(* feedback after each with some.  UdpArq resends a package until its peer *)
(* has it (EventuallyDelivered there); as there are finitely many, it      *)
(* suffices that some package is taken while one is missing.               *)
FairSpec ==
    /\ Spec
    /\ WF_vars(Send(FALSE))
    /\ WF_net(\E g \in net : Take(g))

-----------------------------------------------------------------------------
(* Properties *)

Sections ==
    [kind : {"data", "segment", "cancel"}, unit : Units, id : 0 .. IdSpace - 1,
     index : Nat, isLast : BOOLEAN, from : Nat, bytes : Nat, at : Nat, oneway : BOOLEAN]

TypeOK ==
    /\ encrypted \in BOOLEAN /\ garbled \in BOOLEAN
    /\ pushed \in 0 .. Len(Size) /\ made \in Nat /\ reports \in 0 .. MaxReports
    /\ expired \subseteq Units /\ cleared \subseteq Units
    /\ queue \in Seq(Units)
    /\ sending.unit \in Units \cup {0}
    /\ sending.unit # 0 => sending.next > 1 /\ sending.offset < Size[sending.unit]
    /\ packageId \in 0 .. IdSpace - 1
    /\ deciphered \in 0 .. ciphered
    /\ \A g \in net : g.sections \in Seq(Sections) /\ g.no \in 1 .. made
    /\ loose \subseteq Seq(Sections)
    /\ DOMAIN cache \subseteq 0 .. IdSpace - 1
    /\ delivered \in [Units -> 0 .. 2]

\* What assembleSegments puts together is always one unit, all of it and in
\* order, and with data-enhanced encryption deciphered in step, whatever was
\* lost, cancelled, repeated, early or cleared; a reliable unit is so once.
HandedOverWhole ==
    /\ ~garbled
    /\ \A u \in Units \ Oneway : delivered[u] <= 1

Bytes(x) == x.from .. x.from + x.bytes - 1

Held(u) == UNION {Bytes(x) : x \in {y \in UNION {cache[i] : i \in DOMAIN cache} : y.unit = u}}

UnderWay(u) ==
    UNION {UNION {Bytes(g.sections[i]) : i \in {j \in DOMAIN g.sections : g.sections[j].unit = u}}
           : g \in net}

Carried(g) == {g.sections[i].unit : i \in DOMAIN g.sections}

Unsent(u) ==
    IF \E i \in DOMAIN queue : queue[i] = u THEN 0 .. Size[u] - 1
    ELSE IF sending.unit = u THEN sending.offset .. Size[u] - 1
    ELSE {}

\* No part of a reliable unit is lost before its deadline, but for those
\* removed at the cache's limit: until it is handed over, each of its bytes
\* is queued, under way or cached, and there is more to come.  A section
\* the parser refuses gives up those behind it, which nobody sends again.
Recoverable ==
    \A u \in (1 .. pushed) \ (Oneway \cup expired \cup cleared) :
        delivered[u] = 0 =>
            /\ Held(u) \cup UnderWay(u) \cup Unsent(u) = 0 .. Size[u] - 1
            /\ Unsent(u) # {} \/ \E g \in net : u \in Carried(g)

\* Every reliable unit is put together at the peer, unless its deadline
\* passes or the cache comes to its limit.
EventuallyWhole ==
    \A u \in Units \ Oneway :
        pushed >= u ~> delivered[u] > 0 \/ u \in expired \/ u \in cleared
=============================================================================
