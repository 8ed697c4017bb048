-------------------------------- MODULE Blocks --------------------------------
(***************************************************************************)
(* Block incremental backup of one file: the filter that stores the blocks *)
(* that have changed in super blocks (backup/blockIncr.c), the map that    *)
(* says where every block is (backup/blockMap.c), what a restore reads     *)
(* through it (restore/blockDelta.c, blockChecksum.c), and the filter that *)
(* verifies pages while they are copied (backup/pageChecksum.c).           *)
(*                                                                         *)
(* A file is a sequence of units of data, a block is BlockSize of them and *)
(* the last one may be shorter.  A checksum is the block itself.           *)
(***************************************************************************)
EXTENDS Calls, Convert, SequencesExt, FiniteSetsExt, Functions

CONSTANTS
    BlockSize,
    BlockCalls,     \* [super, input, room, bundle, restored, chain]: see BlockStart
    PageCalls       \* [pages, last, buffer, segment, segmentPages]: see Verified

ASSUME BlocksAssumption == BlockSize \in Nat \ {0}

Up(n, size) == (n + size - 1) \div size
Blocks(file) ==
    [i \in 1..Up(Len(file), BlockSize) |->
        SubSeq(file, (i - 1) * BlockSize + 1, IF i * BlockSize > Len(file) THEN Len(file) ELSE i * BlockSize)]

FirstOf(s, n) == SubSeq(s, 1, IF n > Len(s) THEN Len(s) ELSE n)

\* s cut before the items whose indexes are in parts.
Cut(s, parts) ==
    LET starts == SetToSortSeq({i \in DOMAIN s : i = 1 \/ i \in parts}, <)
    IN  [k \in DOMAIN starts |->
            SubSeq(s, starts[k], IF k = Len(starts) THEN Len(s) ELSE starts[k + 1] - 1)]
Runs(s, field) == Cut(s, {i \in 2..Len(s) : s[i - 1][field] # s[i][field]})
-----------------------------------------------------------------------------
(* The block map as it is stored: a sequence of numbers with flags.         *)

Flagged(flags, value) == [flags |-> flags, value |-> value]
Number(n) == Flagged({}, n)
Flag(name, b) == IF b THEN {name} ELSE {}
Numbers(b, n) == IF b THEN << Number(n) >> ELSE << >>

NewReference(item) ==
    [superBlockSize |-> BlockSize, bundleId |-> item.bundleId, offset |-> item.offset, size |-> 0, block |-> 0]

\* A super block of a run of blocks with one reference; w.head is what is left
\* to be written for a reference that is continued.
WriteSuperBlock(w, run, last) ==
    LET item == Head(run)
        ref == w.ref[item.reference]
        continued == w.head # << >>
        base == IF continued THEN ref ELSE [ref EXCEPT !.offset = item.offset, !.size = item.size, !.block = 0]
        change == ~continued /\ item.superBlockSize # base.superBlockSize
        partial == \/ continued
                   \/ item.block # 0
                   \/ Len(run) # Up(item.superBlockSize, BlockSize)
        moved == item.block > base.block
        flags == Flag("last", last) \cup Flag("change", change) \cup Flag("total", partial)
        size == IF w.sizeLast = 0 THEN item.size ELSE ZigZag(item.size - w.sizeLast)
        remainder == item.superBlockSize % BlockSize
        head == IF continued
                THEN << [w.head[1] EXCEPT !.flags = @ \cup Flag("continueLast", last)] >>
                ELSE << Flagged(flags, size) >>
                     \o (IF change
                         THEN << Flagged(Flag("remainder", remainder # 0), item.superBlockSize \div BlockSize) >>
                              \o Numbers(remainder # 0, remainder)
                         ELSE << >>)
        total == IF partial
                 THEN << Flagged(Flag("offset", moved), Len(run) - 1) >> \o Numbers(moved, item.block - base.block)
                 ELSE << >>
    IN  [w EXCEPT
            !.out = @ \o head \o total \o [i \in DOMAIN run |-> Number(run[i].checksum)],
            !.head = << >>,
            !.sizeLast = item.size,
            !.ref[item.reference] =
                [base EXCEPT !.superBlockSize = IF change THEN item.superBlockSize ELSE @,
                             !.block = (IF partial /\ moved THEN item.block ELSE @) + Len(run)]]

\* A run of blocks with one reference.
WriteReference(w, run, last) ==
    LET item == Head(run)
        r == item.reference
        new == r \notin DOMAIN w.ref
        ref == IF new THEN NewReference(item) ELSE w.ref[r]
        continued == ~new /\ item.offset = ref.offset
        end == ref.offset + ref.size
        gap == ~new /\ ~continued /\ item.offset > end
        begun == IF new
                 THEN [w EXCEPT
                          !.ref = (r :> ref) @@ @,
                          !.out = Append(@, Flagged(Flag("last", last) \cup Flag("bundle", item.bundleId > 0)
                                                        \cup Flag("offset", item.offset > 0), r))
                                  \o Numbers(item.bundleId > 0, item.bundleId)
                                  \o Numbers(item.offset > 0, item.offset)]
                 ELSE IF continued
                 THEN [w EXCEPT !.head = << Flagged(Flag("last", last) \cup {"continue"}, r) >>]
                 ELSE [w EXCEPT
                          !.ref[r].offset = item.offset,
                          !.ref[r].size = item.size,
                          !.out = Append(@, Flagged(Flag("last", last) \cup Flag("offset", gap), r))
                                  \o Numbers(gap, item.offset - end)]
        supers == Runs(run, "offset")
    IN  FoldLeftDomain(LAMBDA x, k : WriteSuperBlock(x, supers[k], k = Len(supers)), begun, supers)

\* blockMapWrite()
MapWrite(map) ==
    LET runs == Runs(map, "reference")
        begun == [out |-> << Number(0) >>, ref |-> << >>, head |-> << >>, sizeLast |-> 0]
    IN  FoldLeftDomain(LAMBDA w, k : WriteReference(w, runs[k], k = Len(runs)), begun, runs).out

\* What is read next; past the end there is nothing, which is an error at last.
Next0(v) == IF v.at \in DOMAIN v.in THEN v.in[v.at] ELSE Number(0)
Passed(v, b) == IF b THEN [v EXCEPT !.at = @ + 1] ELSE v
Optional(v, b) == IF b THEN Next0(v).value ELSE 0

\* count blocks of a super block from the block first; v is after its numbers.
ReadBlocks(v, enc, continued, superBlockSize, size, first, count) ==
    LET ref == v.ref[v.r]
        items == [i \in 1..count |->
                    [reference |-> v.r, superBlockSize |-> superBlockSize, bundleId |-> ref.bundleId,
                     offset |-> v.offset, size |-> size, block |-> first + i - 1,
                     checksum |-> Next0([v EXCEPT !.at = @ + i - 1]).value]]
    IN  [v EXCEPT
            !.at = @ + count,
            !.map = @ \o items,
            !.first = FALSE,
            !.flags = @ \ {"continue"},
            !.open = "last" \notin enc.flags,
            !.more = "last" \notin enc.flags \/ "last" \notin v.flags,
            !.offset = @ + size,
            !.sizeLast = size,
            !.ref[v.r] = [bundleId |-> ref.bundleId, superBlockSize |-> superBlockSize, size |-> size,
                          block |-> first + count,
                          offset |-> IF continued THEN ref.offset
                                     ELSE IF v.first THEN v.offset ELSE ref.offset + v.sizeLast]]

\* The number of blocks, if it is given.
ReadCount(v, enc, continued, superBlockSize, size) ==
    LET total == "total" \in enc.flags
        moved == total /\ "offset" \in Next0(v).flags
        after == Passed(v, total)
    IN  ReadBlocks(Passed(after, moved), enc, continued, superBlockSize, size,
            (IF continued THEN v.ref[v.r].block ELSE 0) + Optional(after, moved),
            IF total THEN Next0(v).value + 1 ELSE Up(superBlockSize, BlockSize))

\* A super block of the reference v.r.
ReadSuperBlock(v) ==
    LET ref == v.ref[v.r]
        continued == "continue" \in v.flags
        enc == IF continued
               THEN Flagged({"total"} \cup Flag("last", "continueLast" \in v.flags), 0)
               ELSE Next0(v)
        v1 == Passed(v, ~continued)
        size == IF continued THEN ref.size
                ELSE IF v.sizeLast = 0 THEN enc.value ELSE FromZigZag(enc.value) + v.sizeLast
        change == "change" \in enc.flags
        remains == change /\ "remainder" \in Next0(v1).flags
        v2 == Passed(v1, change)
        superBlockSize == IF change THEN Next0(v1).value * BlockSize + Optional(v2, remains) ELSE ref.superBlockSize
    IN  ReadCount(Passed(v2, remains), enc, continued, superBlockSize, size)

\* A reference up to its first super block.
ReadReference(v) ==
    LET enc == Next0(v)
        r == enc.value
        new == r \notin DOMAIN v.ref
        v1 == Passed(v, TRUE)
        bundle == new /\ "bundle" \in enc.flags
        v2 == Passed(v1, bundle)
        continued == ~new /\ "continue" \in enc.flags
        number == ~continued /\ "offset" \in enc.flags
        base == IF new THEN 0 ELSE IF continued THEN v.ref[r].offset ELSE v.ref[r].offset + v.ref[r].size
        offset == base + Optional(v2, number)
        item == [bundleId |-> Optional(v1, bundle), offset |-> offset]
    IN  [Passed(v2, number) EXCEPT
            !.r = r,
            !.flags = enc.flags \ Flag("continue", new),
            !.offset = offset,
            !.first = TRUE,
            !.open = TRUE,
            !.ref = (r :> IF new THEN NewReference(item) ELSE [@[r] EXCEPT !.offset = offset]) @@ @]

ReadNext(v) ==
    IF ~v.more \/ v.at > Len(v.in) THEN v ELSE IF v.open THEN ReadSuperBlock(v) ELSE ReadReference(v)

\* blockMapNewRead(); no blocks when it is refused.
MapRead(in) ==
    LET begun == [in |-> in, at |-> 2, map |-> << >>, ref |-> << >>, sizeLast |-> 0, r |-> 0, flags |-> {},
                  offset |-> 0, first |-> TRUE, open |-> FALSE, more |-> TRUE]
        Whole(v) == IF v.more \/ v.at # Len(in) + 1 THEN << >> ELSE v.map
    IN  Whole(FoldLeft(LAMBDA v, i : ReadNext(v), begun, in))
-----------------------------------------------------------------------------
(* The filter, with the input it is given in pieces and the room of the     *)
(* buffer its output goes to.                                               *)

\* The size of a compressed super block (external): it depends on its data.
Compressed(super) == FoldLeft(LAMBDA n, block : n + FoldLeft(+, 0, block), 0, super)

\* blockIncrNew()
NewFilter(a, reference, prior) ==
    [superBlockSize |-> Up(a.super, BlockSize) * BlockSize, reference |-> reference,
     bundleId |-> IF a.bundle > 0 THEN reference + 1 ELSE 0, offset |-> a.bundle, prior |-> prior,
     block |-> << >>, super |-> << >>, superNo |-> 0, items |-> {}, out |-> << >>, outOffset |-> 0,
     map |-> << >>, mapSize |-> 0, write |-> FALSE, inputOffset |-> 0, same |-> FALSE, done |-> FALSE]

\* The block buffer is filled from the input.
Fill(f, input) ==
    LET left == Len(input) - f.inputOffset
        remains == BlockSize - Len(f.block)
        n == IF left <= remains THEN left ELSE remains
    IN  IF f.done \/ f.outOffset # 0 THEN f
        ELSE [f EXCEPT !.block = @ \o SubSeq(input, f.inputOffset + 1, f.inputOffset + n),
                       !.inputOffset = IF left <= remains THEN 0 ELSE @ + n,
                       !.same = left > remains]

\* Faulty variant of Same: the blocks of the prior map are taken to be the same.
SamePosition(f) == Len(f.map) + 1 <= Len(f.prior)

\* The block is where it was when the prior backup was made.
Same(f) == Len(f.map) + 1 <= Len(f.prior) /\ f.prior[Len(f.map) + 1].checksum = f.block

\* A block that is full, or the last: into the super block, or a reference.
AddBlock(f) ==
    LET n == Len(f.map) + 1
        item == [reference |-> f.reference, superBlockSize |-> f.superBlockSize, bundleId |-> f.bundleId,
                 offset |-> f.offset, size |-> 0, block |-> f.superNo, checksum |-> f.block]
    IN  IF Len(f.block) # BlockSize /\ (~f.done \/ f.block = << >>) THEN f
        ELSE IF Same(f) THEN [f EXCEPT !.map = Append(@, f.prior[n]), !.block = << >>]
        ELSE [f EXCEPT !.super = Append(@, f.block), !.superNo = @ + 1, !.items = @ \cup {n},
                       !.map = Append(@, item), !.block = << >>]

\* The super block is closed: the map gets its sizes.
CloseSuper(f) ==
    LET used == FoldLeft(LAMBDA n, block : n + Len(block), 0, f.super)
        size == Compressed(f.super)
    IN  IF f.super = << >> \/ (~f.done /\ used < f.superBlockSize) THEN f
        ELSE [f EXCEPT
                !.map = [i \in DOMAIN @ |->
                            IF i \in f.items THEN [@[i] EXCEPT !.size = size, !.superBlockSize = used] ELSE @[i]],
                !.out = @ \o [p \in 1..size |-> [super |-> f.super, part |-> p]],
                !.items = {}, !.super = << >>, !.superNo = 0, !.offset = @ + size, !.write = TRUE]

\* The map m goes behind the blocks.
WithMap(f, m) == [f EXCEPT !.out = @ \o m, !.mapSize = Len(m)]

\* Faulty variant of PutMap: the map is not written for a file that has shrunk.
PutMapNew(f) ==
    IF ~f.done \/ f.outOffset # 0 \/ ~f.write THEN f ELSE WithMap(f, MapWrite(f.map))

PutMap(f) ==
    IF ~f.done \/ f.outOffset # 0 \/ (~f.write /\ Len(f.map) >= Len(f.prior)) THEN f
    ELSE WithMap(f, MapWrite(f.map))

\* What fits goes to the output; the input is needed again while there is more.
Output(f, room) ==
    LET left == Len(f.out) - f.outOffset
    IN  IF f.super # << >> \/ left = 0 THEN f
        ELSE IF room >= left THEN [f EXCEPT !.out = << >>, !.outOffset = 0, !.same = f.inputOffset # 0]
        ELSE [f EXCEPT !.outOffset = @ + room, !.same = TRUE]
Emitted(f, room) ==
    LET left == Len(f.out) - f.outOffset
        n == IF room >= left THEN left ELSE room
    IN  IF f.super # << >> THEN << >> ELSE SubSeq(f.out, f.outOffset + 1, f.outOffset + n)

\* Once through the loop of blockIncrProcess(), in the buffers ioRead() gives it.
Loop(g, a) ==
    LET fresh == ~g.f.same
        eof == g.rest = << >>
        input == IF fresh THEN FirstOf(g.rest, a.input) ELSE g.input
        After(f, got) ==
            [f |-> Output(f, g.room), input |-> input, stored |-> g.stored \o got,
             rest |-> IF fresh THEN SubSeq(g.rest, a.input + 1, Len(g.rest)) ELSE g.rest,
             room |-> IF Len(got) = g.room THEN a.room ELSE g.room - Len(got)]
        Emit(f) == After(f, Emitted(f, g.room))
    IN  IF g.f.done /\ fresh THEN g
        ELSE Emit(PutMap(CloseSuper(AddBlock(Fill([g.f EXCEPT !.done = @ \/ (fresh /\ eof)], input)))))

Several(x, a, rounds) == IF x.f.done /\ ~x.f.same THEN x ELSE FoldLeft(LAMBDA y, i : Loop(y, a), x, rounds)

\* The file through the filter: what is stored, and blockIncrResult().  The
\* loop ends long before the rounds that are counted here, see MapKept.
Filtered(a, file, reference, prior) ==
    LET begun == [f |-> NewFilter(a, reference, prior), input |-> << >>, stored |-> << >>, rest |-> file, room |-> a.room]
        rounds == [i \in 1..10 |-> i]
        Result(g) ==
            [stored |-> g.stored, map |-> g.f.map, mapSize |-> g.f.mapSize, finished |-> g.f.done /\ ~g.f.same]
    IN  Result(FoldLeft(LAMBDA x, i : Several(x, a, rounds), begun, rounds))
-----------------------------------------------------------------------------
(* Restore of a backup over the file that is there.                         *)

\* The file cut to its size, and blockChecksumProcess().
Trimmed(have, size) == FirstOf(have, size)

\* blockDeltaNew(): of the blocks that differ, each newer reference first, what
\* is next to each other is read at once.
NeededBlocks(map, checksums) ==
    {i \in DOMAIN map : i > Len(checksums) \/ (i <= Len(checksums) /\ checksums[i] # map[i].checksum)}
DeltaReads(map, checksums) ==
    LET needed == NeededBlocks(map, checksums)
        At(r) == SetToSortSeq({i \in needed : map[i].reference = r}, <)
        Items(r) == [k \in DOMAIN At(r) |-> [no |-> At(r)[k]] @@ map[At(r)[k]]]
        refs == SetToSortSeq({map[i].reference : i \in needed}, >)
        Apart(s) == {i \in 2..Len(s) : s[i].offset \notin {s[i - 1].offset, s[i - 1].offset + s[i - 1].size}}
    IN  FlattenSeq([k \in DOMAIN refs |-> Cut(Items(refs[k]), Apart(Items(refs[k])))])

\* The super block that is stored in a file at an offset, no block if it is none.
SuperAt(stored, offset, size) ==
    LET units == SubSeq(stored, offset + 1, IF offset + size > Len(stored) THEN Len(stored) ELSE offset + size)
    IN  IF Len(units) = size /\ size > 0
           /\ \A p \in DOMAIN units : "super" \in DOMAIN units[p] /\ units[p].part = p /\ units[p].super = units[1].super
           /\ size = Compressed(units[1].super)
        THEN units[1].super ELSE << >>

\* blockDeltaNext() until the read is done: the blocks with their place.
Written(read, stored) ==
    LET supers == Runs(read, "offset")
        At[k \in 1..Len(supers)] == IF k = 1 THEN read[1].offset ELSE At[k - 1] + supers[k - 1][1].size
        Super(k) == SuperAt(stored, At[k], supers[k][1].size)
        Total(k) == Up(supers[k][1].superBlockSize, BlockSize)
        Found(k) == {<< x.no, Super(k)[x.block + 1] >> : x \in {y \in Range(supers[k]) : y.block < Len(Super(k))}}
    IN  [error |-> \E k \in DOMAIN supers : Super(k) = << >> \/ Len(Super(k)) > Total(k),
         blocks |-> UNION {Found(k) : k \in DOMAIN supers}]

\* restoreFile(), a file in blocks.
RestoreBlocks(backups, n, have) ==
    LET b == backups[n]
        kept == Trimmed(have, Len(b.file))
        Put(f, w) == LET at == (w[1] - 1) * BlockSize
                     IN  [i \in 1..(IF at + Len(w[2]) > Len(f) THEN at + Len(w[2]) ELSE Len(f)) |->
                            IF i > at /\ i <= at + Len(w[2]) THEN w[2][i - at]
                            ELSE IF i <= Len(f) THEN f[i] ELSE 0]
        PutAll(blocks, error) ==
            [file |-> FoldLeft(Put, kept, SetToSeq(blocks)), written |-> Cardinality(blocks), error |-> error]
        Result(written) == PutAll(UNION {w.blocks : w \in written}, \E w \in written : w.error)
    IN  Result({Written(read, backups[read[1].reference + 1].stored) : read \in Range(DeltaReads(b.map, Blocks(kept)))})
-----------------------------------------------------------------------------
(* Backups of a file that changes.                                          *)

\* Room for the data of other files at the begin of a bundle.
Others(a) == [i \in 1..a.bundle |-> [other |-> i]]

\* A file that is as it was is not stored: the manifest keeps the reference.
StoredBlocks(a, prior, file, x) ==
    [file |-> file, built |-> x.map, finished |-> x.finished, stored |-> Others(a) \o x.stored, noop |-> x.mapSize = 0,
     map |-> IF x.mapSize = 0 THEN prior ELSE MapRead(SubSeq(x.stored, Len(x.stored) - x.mapSize + 1, Len(x.stored)))]
Backup(a, backups, file) ==
    LET r == Len(backups)
        prior == IF r = 0 THEN << >> ELSE backups[r].map
    IN  StoredBlocks(a, prior, file, Filtered(a, file, r, prior))

BlockStart ==
    NoCall /\ \E a \in BlockCalls : \E file \in a.chain[1] :
        call' = Called("blocks", a, << Backup(a, << >>, file) >>)
BlockNext ==
    /\ Returns("blocks")
    /\ Len(call.result) < Len(call.arg.chain)
    /\ \E file \in call.arg.chain[Len(call.result) + 1] :
          call' = [call EXCEPT !.result = Append(@, Backup(call.arg, @, file))]
-----------------------------------------------------------------------------
(* Page checksums: pages are "good", "bad", "zero", or "changed" when they  *)
(* are read again.                                                          *)

\* pageChecksumProcess(), one buffer; part is what a partial page holds.
VerifyPages(p, input) ==
    LET partial == input.part # None
        valid == p.valid /\ input.part # "short"
        total == Len(input.pages) + (IF input.part = "long" THEN 1 ELSE 0)
        aligned == p.align /\ ~partial
        Fine(i) == /\ aligned \/ i < total
                   /\ input.pages[i] \in {"good", "zero", "changed"}
    IN  IF ~valid THEN [p EXCEPT !.valid = FALSE, !.align = aligned]
        ELSE [p EXCEPT !.align = aligned, !.next = @ + total,
                       !.error = @ \cup {p.next + i - 1 : i \in {j \in 1..total : ~Fine(j)}}]

\* pageChecksumNew(), the buffers of the file, and pageChecksumResult().
Verified(a) ==
    LET count == Up(Len(a.pages) + (IF a.last = None THEN 0 ELSE 1), a.buffer)
        inputs == [k \in 1..count |->
                    [pages |-> SubSeq(a.pages, (k - 1) * a.buffer + 1, Min({k * a.buffer, Len(a.pages)})),
                     part |-> IF k = count THEN a.last ELSE None]]
        p == FoldLeft(VerifyPages, [next |-> a.segment * a.segmentPages, valid |-> TRUE, align |-> TRUE, error |-> {}], inputs)
    IN  [valid |-> p.valid /\ p.error = {}, align |-> p.align, error |-> p.error]

Pages == NoCall /\ \E a \in PageCalls : call' = Called("pages", a, Verified(a))
-----------------------------------------------------------------------------
BlocksNext == BlockStart \/ BlockNext \/ Pages
-----------------------------------------------------------------------------
(* Properties.                                                              *)

Newest == call.result[Len(call.result)]

\* What is read of a stored block map is the map that was written: the next
\* backup and the restore find every block (blockMap.c).
MapKept == Newest.finished /\ (Newest.map = Newest.built)

\* A backup can be restored over every file that may be there, and no more
\* blocks are written than differ (blockDelta.c).
DeltaRestores ==
    \A have \in call.arg.restored :
        LET new == Blocks(Newest.file)
            old == Blocks(Trimmed(have, Len(Newest.file)))
        IN  RestoreBlocks(call.result, Len(call.result), have) =
                [file |-> Newest.file, error |-> FALSE,
                 written |-> Cardinality({i \in DOMAIN new : i > Len(old) \/ (i <= Len(old) /\ old[i] # new[i])})]

\* A backup stores the blocks that differ from the backup before, each once,
\* and nothing at all of a file that is the same (blockIncr.c).
StoresChanges ==
    LET n == Len(call.result)
        old == IF n = 1 THEN << >> ELSE Blocks(call.result[n - 1].file)
        new == Blocks(Newest.file)
        changed == {i \in DOMAIN new : i > Len(old) \/ (i <= Len(old) /\ old[i] # new[i])}
        supers == {Newest.stored[k].super : k \in {j \in DOMAIN Newest.stored : "super" \in DOMAIN Newest.stored[j]}}
    IN  /\ Newest.noop <=> (n > 1 /\ new = old)
        /\ Newest.noop => (supers = {})
        /\ {i \in DOMAIN Newest.map : Newest.map[i].reference = n - 1} = changed

\* Which pages are reported does not depend on the buffers: each page that is
\* bad twice, and the end of a file that is no whole page (pageChecksum.c).
PagesFound ==
    LET a == call.arg
        first == a.segment * a.segmentPages
        bad == {first + i - 1 : i \in {j \in DOMAIN a.pages : a.pages[j] = "bad"}}
    IN  /\ call.result.align <=> (a.last = None)
        /\ call.result.valid <=> (bad = {} /\ a.last = None)
        /\ a.last # "short" =>
              (call.result.error = bad \cup (IF a.last = "long" THEN {first + Len(a.pages)} ELSE {}))

\* What block incremental stores is what it restores, and what it reports of
\* pages is what they are.
BlocksSound ==
    /\ Returns("blocks") => (MapKept /\ DeltaRestores /\ StoresChanges)
    /\ Returns("pages") => PagesFound
=============================================================================
