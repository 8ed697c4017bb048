------------------------------- MODULE Streams -------------------------------
(***************************************************************************)
(* Streams: a driver, a group of filters and the buffers between them      *)
(* (common/io/read.c, write.c, filter/group.c and the filters of           *)
(* common/compress and common/crypto). A byte is an item, a tuple of       *)
(* words; a compressed item holds one or two plain ones, an encrypted item *)
(* is marked as such. What zlib, lz4, zst, bz2 and openssl do is external. *)
(***************************************************************************)
EXTENDS Objects, Integers, Sequences, FiniteSets, SequencesExt, FiniteSetsExt, TLC

CONSTANTS CipherUnit,   \* items of a block of the cipher: 16 bytes
          MaxDigits,    \* items of the longest number: 10
          ReaderCalls,    \* the readers that are used, and how,
          WriterCalls,   \* the writers
          CopyCalls,    \* the copies from a reader to a writer
          PollCalls     \* and the waits for a descriptor

ASSUME UnitAssumption == CipherUnit \in Nat \ {0, 1} /\ MaxDigits \in Nat \ {0}
-----------------------------------------------------------------------------
(* Items *)

Null == << << "null" >> >>              \* no buffer: the input has ended
LineEnd == << "lf" >>
FrameStart == << "start" >>
FrameEnd == << "end" >>
Magic == << "magic" >>
Salt == << "salt" >>
Crypt(x) == << "crypt" >> \o x
Padding == Crypt(<< "pad" >>)

Least(a, b) == IF a < b THEN a ELSE b
Upto(s, n) == SubSeq(s, 1, Least(n, Len(s)))
From(s, n) == SubSeq(s, n + 1, Len(s))
-----------------------------------------------------------------------------
(* The libraries: any input at any time, output as far as there is room     *)

NewLib == [wait |-> << >>, hold |-> << >>, begun |-> FALSE, ended |-> FALSE, bad |-> FALSE]
Packed2(s) == << "pack" >> \o FlattenSeq(s)

RECURSIVE Deflate(_, _, _, _, _)
Deflate(lib, in, finish, room, out) ==
    IF lib.wait # << >>
    THEN IF room = 0 THEN [lib |-> lib, rest |-> in, out |-> out]
         ELSE Deflate([lib EXCEPT !.wait = Tail(@)], in, finish, room - 1, Append(out, Head(lib.wait)))
    ELSE IF ~lib.begun THEN Deflate([lib EXCEPT !.begun = TRUE, !.wait = << FrameStart >>], in, finish, room, out)
    ELSE IF in # << >>
    THEN Deflate(IF lib.hold = << >> THEN [lib EXCEPT !.hold = << Head(in) >>]
                 ELSE [lib EXCEPT !.hold = << >>, !.wait = << Packed2(<< lib.hold[1], Head(in) >>) >>],
                 Tail(in), finish, room, out)
    ELSE IF finish /\ ~lib.ended
    THEN Deflate([lib EXCEPT !.hold = << >>, !.ended = TRUE,
                             !.wait = (IF lib.hold = << >> THEN << >> ELSE << Packed2(lib.hold) >>) \o << FrameEnd >>],
                 in, finish, room, out)
    ELSE [lib |-> lib, rest |-> in, out |-> out]
Over(lib) == lib.ended /\ lib.wait = << >>

\* The end of a frame is taken only when what comes before it is out.
RECURSIVE Inflate(_, _, _, _)
Inflate(lib, in, room, out) ==
    IF lib.wait # << >> /\ room # 0
    THEN Inflate([lib EXCEPT !.wait = Tail(@)], in, room - 1, Append(out, Head(lib.wait)))
    ELSE IF lib.wait # << >> \/ in = << >> \/ lib.ended \/ lib.bad THEN [lib |-> lib, rest |-> in, out |-> out]
    ELSE Inflate(CASE lib.begun /\ in[1][1] = "pack" -> [lib EXCEPT !.wait = [i \in 1..(Len(in[1]) - 1) |-> << in[1][i + 1] >>]]
                   [] ~lib.begun /\ in[1] = FrameStart -> [lib EXCEPT !.begun = TRUE]
                   [] lib.begun /\ in[1] = FrameEnd -> [lib EXCEPT !.ended = TRUE]
                   [] OTHER -> [lib EXCEPT !.bad = TRUE],
                 Tail(in), room, out)

\* openssl holds the items of a block that is not complete and, when it decrypts, the
\* last block, which has the padding.
CipherUpdate(encrypt, hold, in) ==
    LET all == hold \o in
        keep == IF ~encrypt /\ all # << >> /\ Len(all) % CipherUnit = 0 THEN CipherUnit ELSE Len(all) % CipherUnit
        ready == Upto(all, Len(all) - keep)
    IN  [hold |-> From(all, Len(all) - keep), out |-> [i \in DOMAIN ready |-> IF encrypt THEN Crypt(ready[i]) ELSE Tail(ready[i])]]
CipherFinal(encrypt, hold) ==
    IF encrypt THEN [bad |-> FALSE, out |-> [i \in DOMAIN hold |-> Crypt(hold[i])] \o [i \in 1..(CipherUnit - Len(hold)) |-> Padding]]
    ELSE [bad |-> Len(hold) # CipherUnit \/ Last(hold) # Padding,
          out |-> LET data == SelectSeq(hold, LAMBDA x : x # Padding) IN [i \in DOMAIN data |-> Tail(data[i])]]
-----------------------------------------------------------------------------
(* The filters: new state, output and error of one call *)

FreshState ==
    [same |-> FALSE, done |-> FALSE, flushing |-> FALSE, rest |-> << >>, pos |-> 0, seen |-> << >>, lib |-> NewLib,
     frame |-> FALSE, first |-> TRUE, buf |-> << >>, size |-> 0, salted |-> FALSE, header |-> << >>, hold |-> << >>]
Gave(st, out) == [st |-> st, out |-> out, error |-> None]
Failed(st, error) == [st |-> st, out |-> << >>, error |-> error]

\* Faulty variant of BufferProcess: what did not fit is not kept.
BufferProcessDrops(st, in, room) == Gave(st, Upto(in, room))
BufferProcess(st, in, room) ==
    LET copy == Least(Len(in) - st.pos, room)
        same == st.pos + copy # Len(in)
    IN  IF in = Null THEN Gave(st, << >>)
        ELSE Gave([st EXCEPT !.same = same, !.pos = IF same THEN st.pos + copy ELSE 0], Upto(From(in, st.pos), copy))

SinkProcess(st, in, room) == Gave(st, << >>)

SizeProcess(st, in) == [st EXCEPT !.seen = @ \o in]
HashProcess(st, in) == [st EXCEPT !.seen = @ \o in]
SizeResult(st) == Len(st.seen)
HashResult(st) == st.seen

\* Faulty variant of GzCompress: done when the output of the last call fits.
GzCompressEarly(st, in, room) ==
    LET flushing == in = Null
        r == Deflate(st.lib, IF flushing THEN << >> ELSE IF st.same THEN st.rest ELSE in, flushing, room, << >>)
    IN  Gave([st EXCEPT !.lib = r.lib, !.rest = r.rest, !.flushing = flushing, !.done = flushing, !.same = r.rest # << >>], r.out)
GzDeflated(st, flushing, r) ==
    LET done == st.done \/ (flushing /\ Over(r.lib))
    IN  Gave([st EXCEPT !.lib = r.lib, !.rest = r.rest, !.flushing = flushing, !.done = done,
                        !.same = IF flushing THEN ~done ELSE r.rest # << >>], r.out)
GzCompress(st, in, room) ==
    GzDeflated(st, in = Null,
               Deflate(st.lib, IF in = Null THEN << >> ELSE IF st.same THEN st.rest ELSE in, in = Null, room, << >>))

\* Faulty variant of GzDecompress: the end of the input is the end of the data.
GzDecompressAny(st, in, room) ==
    LET r == Inflate(st.lib, IF st.same THEN st.rest ELSE in, room, << >>)
    IN  IF in = Null THEN Gave([st EXCEPT !.done = TRUE], << >>)
        ELSE IF r.lib.bad THEN Failed(st, "format")
        ELSE Gave([st EXCEPT !.lib = r.lib, !.rest = r.rest, !.done = r.lib.ended, !.same = ~r.lib.ended /\ r.rest # << >>], r.out)
GzInflated(st, r) ==
    IF r.lib.bad THEN Failed(st, "format")
    ELSE Gave([st EXCEPT !.lib = r.lib, !.rest = r.rest, !.done = r.lib.ended, !.same = ~r.lib.ended /\ r.rest # << >>], r.out)
GzDecompress(st, in, room) ==
    IF in = Null THEN Failed(st, "format") ELSE GzInflated(st, Inflate(st.lib, IF st.same THEN st.rest ELSE in, room, << >>))

\* As with gz, but the library refuses to be called behind the end.
Bz2Compress(st, in, room) == GzCompress(st, in, room)
Bz2Decompress(st, in, room) == IF in # Null /\ st.lib.ended THEN Failed(st, "sequence") ELSE GzDecompress(st, in, room)

ZstDeflated(st, in, flushing, r) ==
    LET same == IF flushing THEN ~Over(r.lib) ELSE r.rest # << >>
    IN  Gave([st EXCEPT !.lib = r.lib, !.flushing = flushing, !.same = same,
                        !.pos = IF flushing THEN @ ELSE IF same THEN Len(in) - Len(r.rest) ELSE 0], r.out)
ZstCompress(st, in, room) ==
    ZstDeflated(st, in, in = Null, Deflate(st.lib, IF in = Null THEN << >> ELSE From(in, st.pos), in = Null, room, << >>))

\* Faulty variant of ZstDecompress: where the input was left is not kept.
ZstDecompressAgain(st, in, room) ==
    LET r == Inflate(IF st.frame THEN NewLib ELSE st.lib, in, room, << >>)
    IN  IF in = Null THEN IF st.frame THEN Gave([st EXCEPT !.done = TRUE], << >>) ELSE Failed(st, "format")
        ELSE IF r.lib.bad THEN Failed(st, "format")
        ELSE Gave([st EXCEPT !.lib = r.lib, !.frame = r.lib.ended, !.same = r.rest # << >>], r.out)
\* A new frame may follow one that has ended.
ZstInflated(st, in, r) ==
    LET same == r.rest # << >>
    IN  IF r.lib.bad THEN Failed(st, "format")
        ELSE Gave([st EXCEPT !.lib = r.lib, !.frame = r.lib.ended, !.same = same, !.pos = IF same THEN Len(in) - Len(r.rest) ELSE 0], r.out)
ZstDecompress(st, in, room) ==
    IF in = Null THEN IF st.frame THEN Gave([st EXCEPT !.done = TRUE], << >>) ELSE Failed(st, "format")
    ELSE ZstInflated(st, in, Inflate(IF st.frame THEN NewLib ELSE st.lib, From(in, st.pos), room, << >>))
Lz4Decompress(st, in, room) == ZstDecompress(st, in, room)
-----------------------------------------------------------------------------
(* lz4: the library wants room for the most there can be, if need be in a   *)
(* buffer of the filter                                                     *)

InOwnBuffer(st, required, room) == st.buf # << >> \/ required >= room

\* s is the state and what has been put into the output of this call.
PutItems(s, required, items, room) ==
    IF InOwnBuffer(s.st, required, room - Len(s.out))
    THEN [s EXCEPT !.st.buf = @ \o items, !.own = TRUE,
                   !.st.size = IF required >= @ - Len(s.st.buf) THEN Len(s.st.buf) + required ELSE @]
    ELSE [s EXCEPT !.out = @ \o items, !.own = FALSE]

\* Faulty variant of Drain: all input has been used, so more can come.
DrainFirst(st, out, room) ==
    LET n == Least(Len(st.buf), room - Len(out)) IN Gave([st EXCEPT !.buf = From(@, n), !.same = FALSE], out \o Upto(st.buf, n))
Drain(st, out, room) ==
    LET n == Least(Len(st.buf), room - Len(out))
    IN  Gave([st EXCEPT !.buf = From(@, n), !.same = n < Len(st.buf)], out \o Upto(st.buf, n))

Lz4Bound(n) == n + 1
Lz4Begun(st, room) ==
    IF ~st.first THEN [st |-> st, out |-> << >>, own |-> FALSE]
    ELSE PutItems([st |-> [st EXCEPT !.first = FALSE, !.lib.begun = TRUE], out |-> << >>, own |-> FALSE], 1, << FrameStart >>, room)
Lz4Put(s, in, r, room) ==
    PutItems([s EXCEPT !.st.lib = r.lib, !.st.flushing = in = Null], Lz4Bound(IF in = Null THEN 1 ELSE Len(in)), r.out, room)
Lz4Deflated(s, in, data, room) == Lz4Put(s, in, Deflate(s.st.lib, data, in = Null, 2 * Lz4Bound(Len(data)), << >>), room)
Lz4Given(s, room) == IF s.own THEN Drain(s.st, s.out, room) ELSE Gave(s.st, s.out)
Lz4Compress(st, in, room) ==
    IF st.same THEN Drain(st, << >>, room)
    ELSE Lz4Given(Lz4Deflated(Lz4Begun(st, room), in, IF in = Null THEN << >> ELSE in, room), room)
-----------------------------------------------------------------------------
(* The cipher: a header with the salt, then blocks *)

HeaderSize(raw) == IF raw THEN 1 ELSE 2

ProcessSize(st, encrypt, n) == n + CipherUnit + IF encrypt /\ ~st.salted THEN HeaderSize(FALSE) ELSE 0

\* Faulty variant of ProcessBlock: what follows the header in the same input is lost.
ProcessBlockAlone(st, encrypt, raw, in) ==
    LET start == IF encrypt THEN (IF raw THEN << >> ELSE << Magic >>) \o << Salt >> ELSE << >>
        header == Upto(st.header \o in, HeaderSize(raw))
        salted == st.salted \/ encrypt \/ Len(header) = HeaderSize(raw)
        r == CipherUpdate(encrypt, st.hold, IF st.salted \/ encrypt THEN in ELSE << >>)
    IN  IF ~st.salted /\ ~encrypt /\ salted /\ ~raw /\ header[1] # Magic THEN Failed(st, "crypto")
        ELSE Gave([st EXCEPT !.salted = salted, !.header = IF encrypt \/ st.salted THEN @ ELSE header, !.hold = r.hold],
                  (IF st.salted THEN << >> ELSE start) \o r.out)
ProcessBlock(st, encrypt, raw, in) ==
    LET start == IF encrypt THEN (IF raw THEN << >> ELSE << Magic >>) \o << Salt >> ELSE << >>
        header == Upto(st.header \o in, HeaderSize(raw))
        salted == st.salted \/ encrypt \/ Len(header) = HeaderSize(raw)
        left == IF st.salted \/ encrypt THEN in ELSE From(st.header \o in, HeaderSize(raw))
        After(r) == Gave([st EXCEPT !.salted = salted, !.header = IF encrypt \/ st.salted THEN @ ELSE header, !.hold = r.hold],
                         (IF st.salted THEN << >> ELSE start) \o r.out)
    IN  IF ~st.salted /\ ~encrypt /\ salted /\ ~raw /\ header[1] # Magic THEN Failed(st, "crypto")
        ELSE After(CipherUpdate(encrypt, st.hold, left))

CipherFlush(st, encrypt) ==
    LET r == CipherFinal(encrypt, st.hold)
    IN  IF ~st.salted \/ r.bad THEN Failed(st, "crypto") ELSE Gave([st EXCEPT !.done = TRUE], r.out)

\* What the block gave comes before what the flush gave.
Joined(b, f) == [st |-> f.st, out |-> b.out \o f.out, error |-> IF b.error # None THEN b.error ELSE f.error]
CipherEnded(b, encrypt, in) == IF in = Null THEN Joined(b, CipherFlush(b.st, encrypt)) ELSE b
CipherGiven(r, size, room) ==
    IF r.error # None \/ size <= room \/ r.out = << >> THEN r
    ELSE Drain([r.st EXCEPT !.buf = r.out, !.size = size], << >>, room)
CipherProcess(st, encrypt, raw, in, room) ==
    IF st.buf # << >> THEN Drain(st, << >>, room)
    ELSE CipherGiven(CipherEnded(IF in = Null /\ st.salted THEN Gave(st, << >>)
                                 ELSE ProcessBlock(st, encrypt, raw, IF in = Null THEN << >> ELSE in), encrypt, in),
                     ProcessSize(st, encrypt, IF in = Null THEN 0 ELSE Len(in)), room)
-----------------------------------------------------------------------------
(* A filter of a group: common/io/filter/filter.c *)

Raw(kind) == kind \in {"encryptRaw", "decryptRaw"}
Producing(f) == f.kind \notin {"size", "hash"}
Filter(kind) == [kind |-> kind, st |-> FreshState, flushing |-> FALSE, out |-> << >>]

InOut(kind, st, in, room) ==
    CASE kind = "buffer" -> BufferProcess(st, in, room)
      [] kind = "sink" -> SinkProcess(st, in, room)
      [] kind = "gz" -> GzCompress(st, in, room)
      [] kind = "bz2" -> Bz2Compress(st, in, room)
      [] kind = "lz4" -> Lz4Compress(st, in, room)
      [] kind = "zst" -> ZstCompress(st, in, room)
      [] kind = "ungz" -> GzDecompress(st, in, room)
      [] kind = "unbz2" -> Bz2Decompress(st, in, room)
      [] kind = "unlz4" -> Lz4Decompress(st, in, room)
      [] kind = "unzst" -> ZstDecompress(st, in, room)
      [] OTHER -> CipherProcess(st, kind \in {"encrypt", "encryptRaw"}, Raw(kind), in, room)

DriverDone(f) ==
    CASE f.kind \in {"gz", "bz2", "ungz", "unbz2", "unlz4", "unzst"} -> f.st.done
      [] f.kind \in {"lz4", "zst"} -> f.st.flushing /\ ~f.st.same
      [] f.kind \in {"encrypt", "encryptRaw", "decrypt", "decryptRaw"} -> f.st.done /\ ~f.st.same
      [] OTHER -> ~f.st.same

\* Faulty variant of FilterDone: a filter that is done needs no end of its input.
FilterDoneEarly(f) == DriverDone(f)
FilterDone(f) == f.flushing /\ DriverDone(f)

Unexpected(f, in) == in # Null /\ (in = << >> \/ f.flushing)
ProcessIn(f, in) ==
    IF Unexpected(f, in) THEN [f |-> f, error |-> "assert"]
    ELSE [f |-> IF in = Null THEN [f EXCEPT !.flushing = TRUE]
                ELSE [f EXCEPT !.st = IF f.kind = "size" THEN SizeProcess(@, in) ELSE HashProcess(@, in)],
          error |-> None]
\* The result of the driver is not looked at when it was done before.
Driven(g, r) == [g EXCEPT !.st = r.st, !.out = @ \o r.out]
Moving(f) == [f |-> f, error |-> IF f.st.same /\ f.out = << >> THEN "assert" ELSE None]
AfterDriver(g, r) == IF r.error # None THEN [f |-> g, error |-> r.error] ELSE Moving(Driven(g, r))
ProcessInOut(f, in, room) ==
    LET g == [f EXCEPT !.flushing = @ \/ in = Null]
    IN  IF Unexpected(f, in) THEN [f |-> f, error |-> "assert"]
        ELSE IF FilterDone(g) THEN Moving(g)
        ELSE AfterDriver(g, InOut(f.kind, f.st, in, room))
-----------------------------------------------------------------------------
(* A group of filters: common/io/filter/group.c *)

NewGroup(kinds, size) ==
    [list |-> [i \in DOMAIN kinds |-> Filter(kinds[i])], in |-> << >>, size |-> size, room |-> 0,
     same |-> FALSE, done |-> FALSE, error |-> None, results |-> << >>]
AddFilter(g, kind) == [g EXCEPT !.list = Append(@, Filter(kind))]
InsertFilter(g, i, kind) == [g EXCEPT !.list = InsertAt(@, i, Filter(kind))]
ClearFilters(g) == [g EXCEPT !.list = << >>]

OpenGroup(g) == IF g.list = << >> \/ ~Producing(Last(g.list)) THEN AddFilter(g, "buffer") ELSE g

\* The filter whose output is the input of filter i; 0 is the input of the group.
InputFrom(g, i) == Max({j \in 1..(i - 1) : Producing(g.list[j])} \cup {0})
InputOf(g, i) == IF InputFrom(g, i) = 0 THEN g.in ELSE g.list[InputFrom(g, i)].out
RoomOf(g, i) == (IF i = Len(g.list) THEN g.room ELSE g.size) - Len(g.list[i].out)

\* A filter that is done and has no more output passes the end on.
CloseOutput(g, i) ==
    IF Producing(g.list[i]) /\ FilterDone(g.list[i]) /\ g.list[i].out = << >> THEN [g EXCEPT !.list[i].out = Null] ELSE g

\* Faulty variant of InputUsed: the output of the filter before is cleared whether or not it has been used.
InputUsedAlways(g, i) == IF InputFrom(g, i) # 0 THEN [g EXCEPT !.list[InputFrom(g, i)].out = IF @ = Null THEN @ ELSE << >>] ELSE g
InputUsed(g, i) ==
    IF g.list[i].st.same THEN [g EXCEPT !.same = TRUE]
    ELSE IF InputFrom(g, i) # 0 THEN [g EXCEPT !.list[InputFrom(g, i)].out = IF @ = Null THEN @ ELSE << >>] ELSE g

AfterProcess(g, i, r) == [g EXCEPT !.list[i] = r.f, !.error = r.error]
RECURSIVE Forward(_, _), ForwardFrom(_, _)
Forward(g, i) ==
    IF i > Len(g.list) \/ g.error # None THEN g
    ELSE IF FilterDone(g.list[i]) THEN Forward(CloseOutput(g, i), i + 1)
    ELSE IF Producing(g.list[i])
    THEN ForwardFrom(InputUsed(AfterProcess(g, i, ProcessInOut(g.list[i], InputOf(g, i), RoomOf(g, i))), i), i)
    ELSE Forward(AfterProcess(g, i, ProcessIn(g.list[i], InputOf(g, i))), i + 1)
\* The next filter is only called when this one has filled its output or ended it.
ForwardFrom(g, i) == IF RoomOf(g, i) # 0 /\ ~FilterDone(g.list[i]) THEN g ELSE Forward(CloseOutput(g, i), i + 1)

\* Faulty variant of ResumeAt: the first filter that wants its input again.
ResumeAtFirst(g) == IF \E i \in DOMAIN g.list : g.list[i].st.same THEN Min({i \in DOMAIN g.list : g.list[i].st.same}) ELSE 0
ResumeAt(g) == Max({i \in DOMAIN g.list : g.list[i].st.same} \cup {0})

RECURSIVE GroupRounds(_), GroupAgain(_)
GroupRounds(g) ==
    IF g.same /\ ResumeAt(g) = 0 THEN [g EXCEPT !.same = FALSE]
    ELSE GroupAgain(Forward(g, IF g.same THEN ResumeAt(g) ELSE 1))
GroupAgain(g) ==
    IF g.error = None /\ g.same /\ (Last(g.list).out = Null \/ RoomOf(g, Len(g.list)) # 0) THEN GroupRounds(g) ELSE g

\* With the output of the caller, which is the output of the last filter.
GroupProcessed(g, n) ==
    LET same == \E i \in 1..n : g.list[i].st.same
        last == g.list[n].out
    IN  [g |-> [g EXCEPT !.same = same, !.done = ~same /\ \A i \in 1..n : FilterDone(g.list[i]), !.list[n].out = << >>],
         out |-> IF last = Null THEN << >> ELSE last]
GroupProcess(g, in, out, room) ==
    LET n == Len(g.list) IN GroupProcessed(GroupRounds([g EXCEPT !.in = in, !.room = room, !.list[n].out = out]), n)

CloseGroup(g) ==
    [g EXCEPT !.results = [i \in DOMAIN g.list |->
        [type |-> g.list[i].kind,
         result |-> CASE g.list[i].kind = "size" -> << SizeResult(g.list[i].st) >>
                      [] g.list[i].kind = "hash" -> << HashResult(g.list[i].st) >>
                      [] OTHER -> << >>]]]

\* Result number n of the filters of a type.
ResultPack(results, type, n) ==
    LET found == SelectSeq(results, LAMBDA r : r.type = type) IN IF n < Len(found) THEN found[n + 1].result ELSE << >>
-----------------------------------------------------------------------------
(* Drivers of readers *)

Source0 == [kind |-> "buffer", data |-> << >>, eof |-> FALSE, stalls |-> FALSE, most |-> 0, under |-> << >>, limit |-> 0, current |-> 0, blocks |-> << >>]
BufferDriver(data) == [Source0 EXCEPT !.data = data]
FdDriver(data, most, stalls) == [Source0 EXCEPT !.kind = "fd", !.data = data, !.most = most, !.stalls = stalls]
LimitDriver(rd, limit) == [Source0 EXCEPT !.kind = "limit", !.under = << rd >>, !.limit = limit]
Blocking(d) == d.kind = "fd"

BufferRead(d, room) ==
    IF d.eof THEN [d |-> d, out |-> << >>, error |-> None]
    ELSE [d |-> [d EXCEPT !.data = From(@, room), !.eof = Len(d.data) <= room], out |-> Upto(d.data, room), error |-> None]

\* The system gives at least one item when there is one, and nothing at the end. A
\* sender that stalls gives nothing in time.
FdRead(d, room, block) ==
    LET all == Upto(d.data, IF block THEN room ELSE Least(room, d.most))
        ended == d.data = << >> \/ (block /\ Len(d.data) < room)
    IN  IF d.eof THEN [d |-> d, out |-> << >>, error |-> None]
        ELSE [d |-> [d EXCEPT !.data = From(@, Len(all)), !.eof = ended], out |-> all, error |-> IF ended /\ d.stalls THEN "timeout" ELSE None]

\* A remote reader has the data of a block that is left, and what is still to come.
RemoteBlock(d) == IF d.data # << >> \/ d.blocks = << >> THEN d ELSE [d EXCEPT !.data = Head(d.blocks), !.blocks = Tail(@)]
RemoteEof(d) == d.data = << >> /\ d.blocks = << >>
AtEof(d) == [d EXCEPT !.eof = RemoteEof(d)]
RECURSIVE RemoteRead(_, _, _), RemoteReadBlock(_, _, _)
RemoteRead(d, room, out) ==
    IF d.eof \/ Len(out) = room THEN [d |-> d, out |-> out, error |-> None] ELSE RemoteReadBlock(RemoteBlock(d), room, out)
RemoteReadBlock(d, room, out) ==
    RemoteRead(AtEof([d EXCEPT !.data = From(@, room - Len(out))]), room, out \o Upto(d.data, room - Len(out)))
RemoteDriver(blocks) == AtEof(RemoteBlock([Source0 EXCEPT !.kind = "remote", !.blocks = blocks]))

EofDriver(d) == IF d.kind = "limit" THEN d.limit = d.current ELSE d.eof
-----------------------------------------------------------------------------
(* A reader: common/io/read.c and limitRead.c *)

NewReader(d, kinds, size) ==
    [d |-> d, g |-> OpenGroup(NewGroup(kinds, size)), in |-> << >>, eof |-> FALSE, out |-> << >>, pos |-> 0, size |-> size]
Inside(rd) == From(rd.out, rd.pos)
HasRead(rd, r) == [rd EXCEPT !.d = r.d, !.in = r.out, !.g.error = r.error]
WithEof(rd) == [rd EXCEPT !.eof = EofDriver(rd.d) /\ rd.g.done]
Wanted(rd, room) == IF Blocking(rd.d) THEN Least(room, rd.size) ELSE rd.size

LimitRead(d, room) == Least(d.limit - d.current, room)

RECURSIVE ReadInternal(_, _, _, _, _), ReadMore(_, _, _, _, _, _), ReadAgain(_, _, _, _, _, _), IoRead(_, _, _)
LimitedRead(d, n, r) == [d |-> [d EXCEPT !.under = << r.rd >>, !.current = @ + n], out |-> r.buf, error |-> r.rd.g.error]
\* A limited reader reads from the one it is made with, and counts what it wanted.
ReadDriver(d, room, block) ==
    CASE d.kind = "buffer" -> BufferRead(d, room)
      [] d.kind = "fd" -> FdRead(d, room, block)
      [] d.kind = "remote" -> RemoteRead(d, room, << >>)
      [] d.kind = "limit" -> LimitedRead(d, LimitRead(d, room), IoRead(d.under[1], << >>, LimitRead(d, room)))
\* room is the whole buffer, begin what it held before the call.
ReadInternal(rd, buf, room, block, begin) ==
    IF rd.eof \/ Len(buf) >= room \/ rd.g.error # None THEN [rd |-> rd, buf |-> buf]
    ELSE ReadMore(IF rd.g.same THEN rd
                  ELSE HasRead(rd, IF rd.in = Null \/ EofDriver(rd.d) THEN [d |-> rd.d, out |-> Null, error |-> None]
                                   ELSE ReadDriver(rd.d, Wanted(rd, room - Len(buf)), block)),
                  buf, room, block, begin, ~block /\ ~rd.g.same)
\* With new input the caller may have enough.
ReadMore(rd, buf, room, block, begin, enough) ==
    ReadAgain(rd, IF rd.in = << >> \/ rd.g.error # None THEN [g |-> rd.g, out |-> buf] ELSE GroupProcess(rd.g, rd.in, buf, room),
              room, block, begin, enough)
ReadAgain(rd, p, room, block, begin, enough) ==
    IF enough /\ Len(p.out) > begin THEN [rd |-> [rd EXCEPT !.g = p.g], buf |-> p.out]
    ELSE ReadInternal(WithEof([rd EXCEPT !.g = p.g]), p.out, room, block, begin)
\* What a line left over comes first.
IoRead(rd, buf, room) ==
    LET n == Least(Len(Inside(rd)), room - Len(buf))
    IN  ReadInternal([rd EXCEPT !.pos = @ + n], buf \o Upto(Inside(rd), n), room, TRUE, Len(buf) + n)

\* Reads what there is into the reader's own buffer.
FillOut(r) == [r.rd EXCEPT !.out = r.buf]
ReadOut(rd, begin) == FillOut(ReadInternal([rd EXCEPT !.out = begin, !.pos = 0], begin, rd.size, FALSE, Len(begin)))

RECURSIVE ReadSmall(_, _, _), SmallAgain(_, _)
ReadSmall(rd, buf, room) ==
    LET n == Least(Len(Inside(rd)), room - Len(buf))
        taken == buf \o Upto(Inside(rd), n)
        rd1 == [rd EXCEPT !.pos = @ + n]
    IN  SmallAgain(IF Len(taken) = room THEN [rd |-> rd1, buf |-> taken]
                   ELSE IF room - Len(taken) >= rd.size THEN ReadInternal(rd1, taken, room, TRUE, Len(taken))
                   ELSE [rd |-> ReadOut(rd1, << >>), buf |-> taken], room)
SmallAgain(r, room) ==
    IF Len(r.buf) = room \/ r.rd.eof \/ r.rd.g.error # None THEN r ELSE ReadSmall(r.rd, r.buf, room)

\* Faulty variant of KeptLine: what has been read of a line is not kept.
KeptLineNot(rd) == [rd EXCEPT !.out = << >>, !.pos = 0]
KeptLine(rd) == [rd EXCEPT !.out = Inside(rd), !.pos = 0]

RECURSIVE ReadLine(_, _)
ReadLine(rd, allowEof) ==
    LET ends == {i \in DOMAIN Inside(rd) : Inside(rd)[i] = LineEnd}
        moved == KeptLine(rd)
    IN  IF rd.g.error # None THEN [rd |-> rd, line |-> Null]
        ELSE IF ends # {} THEN [rd |-> [rd EXCEPT !.pos = @ + Min(ends)], line |-> Upto(Inside(rd), Min(ends))]
        ELSE IF Len(moved.out) = rd.size THEN [rd |-> [moved EXCEPT !.g.error = "line"], line |-> Null]
        ELSE IF rd.eof /\ allowEof THEN [rd |-> moved, line |-> moved.out]
        ELSE IF rd.eof THEN [rd |-> [moved EXCEPT !.g.error = "eof"], line |-> Null]
        ELSE ReadLine(ReadOut(moved, moved.out), allowEof)

\* The items of a number say whether another one follows.
RECURSIVE ReadVarInt(_, _), ReadDigit(_, _)
ReadVarInt(rd, digits) ==
    IF Len(digits) = MaxDigits THEN [rd |-> [rd EXCEPT !.g.error = "format"], digits |-> Null]
    ELSE ReadDigit(IF Inside(rd) = << >> THEN ReadOut(rd, << >>) ELSE rd, digits)
ReadDigit(rd, digits) ==
    LET x == Inside(rd)[1]
        next == [rd EXCEPT !.pos = @ + 1]
    IN  IF rd.g.error # None THEN [rd |-> rd, digits |-> Null]
        ELSE IF Inside(rd) = << >> THEN [rd |-> [rd EXCEPT !.g.error = "eof"], digits |-> Null]
        ELSE IF x[1] = "more" THEN ReadVarInt(next, Append(digits, x))
        ELSE [rd |-> next, digits |-> Append(digits, x)]

RECURSIVE ReadFlush(_, _), FlushAgain(_, _)
ReadFlush(rd, n) == IF rd.eof \/ rd.g.error # None THEN [rd |-> rd, n |-> n] ELSE FlushAgain(IoRead(rd, << >>, rd.size), n)
FlushAgain(r, n) == ReadFlush(r.rd, n + Len(r.buf))

CloseReader(rd) == [rd EXCEPT !.g = CloseGroup(rd.g)]

RECURSIVE ReadBuf(_, _), BufAgain(_)
ReadBuf(rd, buf) == BufAgain(IoRead(rd, buf, Len(buf) + rd.size))
BufAgain(r) == IF r.rd.eof \/ r.rd.g.error # None THEN r ELSE ReadBuf(r.rd, r.buf)

Drained(r) == [CloseReader(r.rd) EXCEPT !.out = r.buf]
ReadDrain(d, kinds, size) == Drained(IoRead(NewReader(d, Append(kinds, "sink"), size), << >>, 1))
-----------------------------------------------------------------------------
(* A writer: common/io/write.c *)

NewWriter(kinds, size) == [g |-> OpenGroup(NewGroup(kinds, size)), out |-> << >>, sent |-> << >>, size |-> size]
Send(w) == [w EXCEPT !.sent = Append(@, w.out), !.out = << >>]
Sent(w) == FlattenSeq(w.sent)

Took(w, p) == [w EXCEPT !.g = p.g, !.out = p.out]
SendFull(w) == IF Len(w.out) = w.size THEN Send(w) ELSE w
\* Faulty variant of IoWrite: the input is given once.
IoWriteOnce(w, in) == IF in = << >> THEN w ELSE SendFull(Took(w, GroupProcess(w.g, in, w.out, w.size)))
RECURSIVE IoWrite(_, _), WriteAgain(_, _)
IoWrite(w, in) == IF in = << >> THEN w ELSE WriteAgain(SendFull(Took(w, GroupProcess(w.g, in, w.out, w.size))), in)
WriteAgain(w, in) == IF w.g.same /\ w.g.error = None THEN IoWrite(w, in) ELSE w

WriteFlush(w) == IF w.out = << >> THEN w ELSE Send(w)

\* Faulty variant of LastOut: what does not fill the buffer is not written.
LastOutFull(w) == Len(w.out) = w.size
LastOut(w) == Len(w.out) = w.size \/ (w.g.done /\ w.out # << >>)

SendLast(w) == IF LastOut(w) THEN Send(w) ELSE w
RECURSIVE CloseWriter(_), CloseAgain(_)
CloseWriter(w) == CloseAgain(SendLast(Took(w, GroupProcess(w.g, Null, w.out, w.size))))
CloseAgain(w) == IF w.g.error # None \/ w.g.done THEN [w EXCEPT !.g = CloseGroup(w.g)] ELSE CloseWriter(w)

RECURSIVE IoCopy(_, _, _, _), CopyRead(_, _, _, _, _), CopyAgain(_, _, _, _, _)
\* limit is none or the items to copy.
IoCopy(rd, w, limit, copied) ==
    LET last == limit # << >> /\ limit[1] - copied < rd.size
    IN  CopyRead(IoRead(rd, << >>, IF last THEN limit[1] - copied ELSE rd.size), w, limit, copied, last)
CopyRead(r, w, limit, copied, last) ==
    IF r.rd.g.error # None THEN [rd |-> r.rd, w |-> w, n |-> copied]
    ELSE CopyAgain(r.rd, IoWrite(w, r.buf), limit, copied + Len(r.buf), last)
CopyAgain(rd, w, limit, copied, last) ==
    IF last \/ rd.eof THEN [rd |-> rd, w |-> w, n |-> copied] ELSE IoCopy(rd, w, limit, copied)
-----------------------------------------------------------------------------
(* What a filter makes of the whole of its input *)

PairsOf(s) == [i \in 1..((Len(s) + 1) \div 2) |-> Packed2(SubSeq(s, 2 * i - 1, Least(2 * i, Len(s))))]
PackedAll(s) == << FrameStart >> \o PairsOf(s) \o << FrameEnd >>
Expanded(s) == FlattenSeq([i \in DOMAIN s |-> IF s[i][1] = "pack" THEN [j \in 1..(Len(s[i]) - 1) |-> << s[i][j + 1] >>] ELSE << >>])
Encrypted(s, raw) ==
    (IF raw THEN << >> ELSE << Magic >>) \o << Salt >> \o [i \in DOMAIN s |-> Crypt(s[i])] \o [i \in 1..(CipherUnit - (Len(s) % CipherUnit)) |-> Padding]
Decrypted(s) == LET data == SelectSeq(s, LAMBDA x : x \notin {Magic, Salt, Padding}) IN [i \in DOMAIN data |-> Tail(data[i])]

Through(kind, s) ==
    CASE kind \in {"gz", "bz2", "lz4", "zst"} -> PackedAll(s)
      [] kind \in {"ungz", "unbz2", "unlz4", "unzst"} -> Expanded(s)
      [] kind \in {"encrypt", "encryptRaw"} -> Encrypted(s, Raw(kind))
      [] kind \in {"decrypt", "decryptRaw"} -> Decrypted(s)
      [] kind = "sink" -> << >>
      [] OTHER -> s
ThroughAll(kinds, s) == FoldLeft(LAMBDA t, k : Through(k, t), s, kinds)

\* Number n of the sizes and hashes is that of the data at its place.
ResultsRight(results, kinds, s) ==
    \A i \in DOMAIN kinds :
        LET n == Cardinality({j \in 1..(i - 1) : kinds[j] = kinds[i]})
            at == ThroughAll(SubSeq(kinds, 1, i - 1), s)
        IN  /\ kinds[i] = "size" => ResultPack(results, "size", n) = << Len(at) >>
            /\ kinds[i] = "hash" => ResultPack(results, "hash", n) = << at >>

\* The buffers of lz4 and of the cipher hold what is in them, as do those between filters.
BuffersHold(g) ==
    \A i \in DOMAIN g.list :
        /\ Len(g.list[i].st.buf) <= g.list[i].st.size
        /\ i < Len(g.list) => Len(g.list[i].out) <= g.size
-----------------------------------------------------------------------------
(* Reading *)

ReaderOf(c) ==
    NewReader(CASE c.driver = "buffer" -> BufferDriver(Upto(c.data, c.cut))
                [] c.driver \in {"fd", "stalls"} -> FdDriver(Upto(c.data, c.cut), c.most, c.driver = "stalls")
                [] c.driver = "limit" -> LimitDriver(NewReader(BufferDriver(c.data), << >>, c.size), c.cut),
              c.kinds, c.size)

ReadStart ==
    /\ NoCall
    /\ \E c \in ReaderCalls : call' = Made("reading", [c |-> c, rd |-> ReaderOf(c), got |-> << >>, last |-> << >>])

Reading(op) == Returns("reading") /\ op \in call.obj.c.ops /\ call.obj.rd.g.error = None /\ call.obj.last \notin {<< "end" >>, << "rest" >>}
MoreLeft(op) == Reading(op) /\ ~(call.obj.rd.eof /\ Inside(call.obj.rd) = << >>)
Now(rd, out, last) == Become([call.obj EXCEPT !.rd = rd, !.got = @ \o out, !.last = last])
NowRead(r, n) == Now(r.rd, r.buf, << "read", n, Len(r.buf) >>)
NowLine(r) ==
    IF r.line = Null THEN Now(r.rd, << >>, << "noline" >>)
    ELSE Now(r.rd, r.line, IF r.rd.pos = 0 THEN << "rest" >> ELSE << "line" >>)
NowNumber(r) ==
    IF r.digits = Null THEN Now(r.rd, << >>, << "nonumber" >>) ELSE Now(r.rd, r.digits, << "number", Len(r.digits) >>)
NowFlushed(r) == Now(r.rd, << >>, << "flush", r.n >>)

ReadStep ==
    /\ MoreLeft("read")
    /\ \E n \in 1..3 : NowRead(IoRead(call.obj.rd, << >>, n), n)
SmallStep ==
    /\ MoreLeft("small")
    /\ \E n \in 1..3 : NowRead(ReadSmall(call.obj.rd, << >>, n), n)
\* The lines of a file with a last line that may have no end are read until the end.
LineStep ==
    /\ MoreLeft("line") /\ ("last" \in call.obj.c.ops => ~call.obj.rd.eof)
    /\ NowLine(ReadLine(call.obj.rd, "last" \in call.obj.c.ops))
NumberStep ==
    /\ Reading("number")
    /\ NowNumber(ReadVarInt(call.obj.rd, << >>))
FlushStep ==
    /\ MoreLeft("flush")
    /\ NowFlushed(ReadFlush(call.obj.rd, 0))
EndRead ==
    /\ Returns("reading") /\ call.obj.last # << "end" >>
    /\ call.obj.rd.eof /\ Inside(call.obj.rd) = << >> /\ call.obj.rd.g.error = None
    /\ Become([call.obj EXCEPT !.rd = CloseReader(@), !.last = << "end" >>])

\* What a reader gives is what the filters make of the data, in its order, and the end
\* comes when all of it has been given: data that is cut off ends in an error, whatever
\* the sizes of the buffers. No filter sees a part twice or not at all.
ReadSound(o) ==
    LET c == o.c
        rd == o.rd
        input == IF c.driver = "limit" THEN Upto(c.data, c.cut) ELSE c.data
        expect == ThroughAll(c.kinds, input)
        seen == o.got \o Inside(rd)
        left == From(expect, Len(o.got))
        whole == c.driver = "limit" \/ c.cut >= Len(c.data)
        Did(op) == o.last # << >> /\ o.last[1] = op
    IN  /\ BuffersHold(rd.g)
        /\ IF Did("rest") THEN o.got = expect ELSE IsPrefix(seen, expect)
        /\ rd.g.error = None =>
              /\ rd.eof => whole
              /\ Did("line") => Last(o.got) = LineEnd
              /\ Did("line") /\ "last" \in c.ops /\ rd.eof => o.got = expect
              /\ Did("read") /\ o.last[3] < o.last[2] => rd.eof /\ o.got = expect
              /\ Did("flush") => o.last[2] + Len(seen) = Len(expect)
              /\ Did("end") => ResultsRight(rd.g.results, c.kinds, input)
              /\ Did("end") /\ c.driver = "limit" => ReadBuf(rd.d.under[1], << >>).buf = From(c.data, c.cut)
        /\ rd.g.error # None =>
              \/ ~whole
              \/ rd.g.error = "timeout" /\ c.driver = "stalls"
              \/ rd.g.error = "line" /\ Len(left) >= c.size /\ LineEnd \notin Range(Upto(left, c.size))
              \/ rd.g.error = "eof" /\ Did("noline") /\ LineEnd \notin Range(left)
              \/ rd.g.error = "eof" /\ Did("nonumber") /\ \A i \in DOMAIN left : left[i][1] = "more"
              \/ rd.g.error = "format" /\ Did("nonumber") /\ Len(left) >= MaxDigits /\ \A i \in 1..MaxDigits : left[i][1] = "more"
-----------------------------------------------------------------------------
(* Writing *)

WriteStart ==
    /\ NoCall
    /\ \E c \in WriterCalls : call' = Made("writing", [c |-> c, w |-> NewWriter(c.kinds, c.size), given |-> 0, flushed |-> FALSE])

WriteStep ==
    /\ Returns("writing") /\ call.obj.given < Len(call.obj.c.data)
    /\ \E n \in 1..3 :
          LET next == Upto(From(call.obj.c.data, call.obj.given), n)
          IN  Become([call.obj EXCEPT !.w = IoWrite(@, next), !.given = @ + Len(next)])
FlushOut ==
    /\ Returns("writing") /\ call.obj.c.kinds = << >> /\ call.obj.w.g.results = << >>
    /\ Become([call.obj EXCEPT !.w = WriteFlush(@), !.flushed = TRUE])
CloseOut ==
    /\ Returns("writing") /\ call.obj.given = Len(call.obj.c.data) /\ call.obj.w.g.results = << >>
    /\ Become([call.obj EXCEPT !.w = CloseWriter(@)])

\* The driver gets what the filters make of the data, all of it once the writer is
\* closed, in buffers that are full but for the last.
WriteSound(o) ==
    LET expect == ThroughAll(o.c.kinds, o.c.data)
        w == o.w
    IN  /\ w.g.error = None /\ BuffersHold(w.g)
        /\ IsPrefix(Sent(w) \o w.out, expect)
        /\ \A i \in DOMAIN w.sent : Len(w.sent[i]) \in 1..w.size
        /\ ~o.flushed => \A i \in 1..(Len(w.sent) - 1) : Len(w.sent[i]) = w.size
        /\ w.g.results # << >> => Sent(w) = expect /\ ResultsRight(w.g.results, o.c.kinds, o.c.data)

Copied(r) == [n |-> r.n, sent |-> Sent(CloseWriter(r.w))]
CopyCall ==
    /\ NoCall
    /\ \E c \in CopyCalls :
          call' = Called("copy", c, Copied(IoCopy(NewReader(BufferDriver(c.data), c.kinds, c.size), NewWriter(c.to, c.size), c.limit, 0)))

CopySound(c, r) ==
    LET data == ThroughAll(c.kinds, c.data)
        part == IF c.limit = << >> THEN data ELSE Upto(data, c.limit[1])
    IN  r.n = Len(part) /\ r.sent = ThroughAll(c.to, part)

DrainCall ==
    /\ NoCall
    /\ \E c \in CopyCalls : call' = Called("drain", c, ReadDrain(BufferDriver(c.data), c.kinds, c.size))

DrainSound(c, rd) == rd.out = << >> /\ rd.eof /\ rd.g.error = None /\ ResultsRight(rd.g.results, c.kinds, c.data)
-----------------------------------------------------------------------------
(* Filters of a remote file: storage/remote. They run where the file is, and   *)
(* what goes over the network is compressed                                    *)

RemoteKinds ==
    {"size", "hash", "sink", "encrypt", "encryptRaw", "decrypt", "decryptRaw", "gz", "bz2", "lz4", "zst", "ungz", "unbz2", "unlz4", "unzst"}
\* A filter that the other side cannot make is an error.
FilterGroup(params) == [i \in DOMAIN params |-> IF params[i] \in RemoteKinds THEN params[i] ELSE Error]

RemoteReadKinds(kinds, pack) == kinds \o IF pack THEN << "lz4" >> ELSE << >>
LocalReadKinds(pack) == IF pack THEN << "unlz4" >> ELSE << >>
\* Faulty variant of RemoteWriteKinds: what comes is unpacked last.
RemoteWriteKindsLast(kinds, pack) == kinds \o IF pack THEN << "unlz4" >> ELSE << >>
RemoteWriteKinds(kinds, pack) == (IF pack THEN << "unlz4" >> ELSE << >>) \o kinds
LocalWriteKinds(pack) == IF pack THEN << "lz4" >> ELSE << >>

\* The answers of the server until it closes the session, the last with the results.
RECURSIVE RemoteBlocks(_, _), BlocksAgain(_, _)
RemoteBlocks(rd, blocks) == BlocksAgain(IoRead(rd, << >>, rd.size), blocks)
BlocksAgain(r, blocks) ==
    IF r.rd.eof \/ r.rd.g.error # None THEN [blocks |-> Append(blocks, r.buf), results |-> CloseReader(r.rd).g.results]
    ELSE RemoteBlocks(r.rd, Append(blocks, r.buf))

\* The results of the remote filters are before those of the local ones.
ReadFrom(remote, local) ==
    [data |-> local.buf, blocks |-> remote.blocks, results |-> remote.results \o CloseReader(local.rd).g.results]
RemoteReadOf(c, pack, remote) ==
    ReadFrom(remote, ReadBuf(NewReader(RemoteDriver(remote.blocks), LocalReadKinds(pack), c.size), << >>))
RemoteReadCall ==
    /\ NoCall
    /\ \E c \in CopyCalls, pack \in BOOLEAN :
          call' = Called("remote read", c, RemoteReadOf(c, pack,
                      RemoteBlocks(NewReader(BufferDriver(c.data), FilterGroup(RemoteReadKinds(c.kinds, pack)), c.size), << >>)))

WroteTo(local, remote) == [data |-> Sent(remote), blocks |-> local.sent, results |-> local.g.results \o remote.g.results]
WrittenBy(w, data) == CloseWriter(FoldLeft(IoWrite, w, data))
RemoteWriteOf(c, pack, local) ==
    WroteTo(local, WrittenBy(NewWriter(FilterGroup(RemoteWriteKinds(c.kinds, pack)), c.size), local.sent))
RemoteWriteCall ==
    /\ NoCall
    /\ \E c \in WriterCalls, pack \in BOOLEAN :
          call' = Called("remote write", c, RemoteWriteOf(c, pack,
                      WrittenBy(NewWriter(LocalWriteKinds(pack), c.size), << c.data >>)))

\* A file is the same and has the same results as if it were local, and no answer or
\* request is empty but the last answer.
RemoteSound(c, r) ==
    /\ r.data = ThroughAll(c.kinds, c.data) /\ ResultsRight(r.results, c.kinds, c.data)
    /\ \A i \in 1..(Len(r.blocks) - 1) : r.blocks[i] # << >>
-----------------------------------------------------------------------------
(* Waiting for a file descriptor: common/io/fd.c *)

\* Faulty variant of Remaining: an interrupt begins the wait anew.
RemainingAll(end, now, timeout) == timeout
Remaining(end, now, timeout) == end - now

\* poll ends with an event, an interrupt or neither, after a time.
RECURSIVE FdReady(_, _, _, _)
FdReady(polls, now, timeout, end) ==
    LET p == Head(polls)
    IN  IF polls = << >> \/ p.after > timeout THEN [ready |-> FALSE, at |-> now + timeout]
        ELSE IF p.is = "event" THEN [ready |-> TRUE, at |-> now + p.after]
        ELSE IF end > now + p.after THEN FdReady(Tail(polls), now + p.after, Remaining(end, now + p.after, timeout), end)
        ELSE [ready |-> FALSE, at |-> now + p.after]
FdReadyCall == NoCall /\ \E c \in PollCalls : call' = Called("ready", c, FdReady(c.polls, 0, c.timeout, c.timeout))

\* However often the wait is interrupted, it takes no longer than it may, and an event
\* before that time is seen.
FdReadySound(c, r) ==
    LET At[i \in 0..Len(c.polls)] == IF i = 0 THEN 0 ELSE At[i - 1] + c.polls[i].after
        events == {i \in DOMAIN c.polls : c.polls[i].is = "event" /\ At[i] <= c.timeout}
        first == {i \in events : \A j \in 1..(i - 1) : c.polls[j].is = "interrupt" /\ At[j] < c.timeout}
    IN  /\ r.at <= c.timeout
        /\ r.ready = (first # {})
        /\ r.ready => r.at = At[Min(first)]
-----------------------------------------------------------------------------
(* Everything that is promised, under one name for the runs *)

StreamsSound ==
    CASE Returns("reading") -> ReadSound(call.obj)
      [] Returns("writing") -> WriteSound(call.obj)
      [] Returns("copy") -> CopySound(call.arg, call.result)
      [] Returns("drain") -> DrainSound(call.arg, call.result)
      [] Returns("remote read") \/ Returns("remote write") -> RemoteSound(call.arg, call.result)
      [] Returns("ready") -> FdReadySound(call.arg, call.result)
      [] OTHER -> TRUE

StreamsNext ==
    \/ ReadStart \/ ReadStep \/ SmallStep \/ LineStep \/ NumberStep \/ FlushStep \/ EndRead
    \/ WriteStart \/ WriteStep \/ FlushOut \/ CloseOut
    \/ CopyCall \/ DrainCall \/ RemoteReadCall \/ RemoteWriteCall \/ FdReadyCall
=============================================================================
