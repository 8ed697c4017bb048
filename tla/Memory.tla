------------------------------- MODULE Memory -------------------------------
(***************************************************************************)
(* Memory contexts, errors and the stack trace (memContext.c, error.c,     *)
(* stackTrace.c): what a program leaves behind when an error takes it out  *)
(* of the blocks it is in. A program is any nesting of the blocks of       *)
(* memContext.h and error.h. A callback that fails fails at once.          *)
(***************************************************************************)
EXTENDS Objects, Integers, Sequences, FiniteSets, SequencesExt, TLC

CONSTANTS InitialSize,  \* places in the first list of children or of buffers: 4
          TryMax,       \* tries that may be open at the same time: 64
          MaxBuffer,    \* bounds the buffers of a context
          Scopes        \* and how far programs go: the contexts, open blocks, functions,
                        \* errors and moves, whether a context has many children and its
                        \* callback, the catch blocks of a try and if it has a finally

ASSUME InitialSizeAssumption == InitialSize \in Nat \ {0}
-----------------------------------------------------------------------------
(* Error types *)

Runtime == "RuntimeError"
ErrorType(c, f) == [code |-> c, fatal |-> f, parent |-> Runtime]
ErrorTypes == ("AssertError" :> ErrorType(25, TRUE)) @@ ("TermError" :> ErrorType(63, FALSE))
    @@ ("ExecuteError" :> ErrorType(102, FALSE)) @@ (Runtime :> ErrorType(122, FALSE))
    @@ ("UnknownError" :> ErrorType(125, FALSE))

TypeFromCode(code) ==
    IF \E t \in DOMAIN ErrorTypes : ErrorTypes[t].code = code
    THEN CHOOSE t \in DOMAIN ErrorTypes : ErrorTypes[t].code = code ELSE "UnknownError"

Fatal(t) == ErrorTypes[t].fatal

Extending(t, parent) == ErrorTypes[t].parent = parent

InstanceOf(t, test) == t = test \/ Extending(t, test)
-----------------------------------------------------------------------------
(* Lists of children and of buffers *)

NoList == [slot |-> << >>, free |-> 0]
Held(l) == {l.slot[i] : i \in DOMAIN l.slot} \ {0}

\* Faulty variant of FoundSlot: the list does not grow.
FoundSlotFull(l) ==
    IF l.slot = << >> THEN [slot |-> [i \in 1..InitialSize |-> 0], free |-> 0]
    ELSE [l EXCEPT !.free = IF l.free < Len(l.slot) THEN l.free ELSE Len(l.slot) - 1]
\* The list with its first free place found, made twice as long when it is full.
FoundSlot(l) ==
    IF l.slot = << >> THEN [slot |-> [i \in 1..InitialSize |-> 0], free |-> 0]
    ELSE LET open == {i \in DOMAIN l.slot : i > l.free /\ l.slot[i] = 0}
         IN  IF open # {} THEN [l EXCEPT !.free = (CHOOSE i \in open : \A j \in open : i <= j) - 1]
             ELSE [slot |-> l.slot \o [i \in DOMAIN l.slot |-> 0], free |-> Len(l.slot)]

\* x takes the place that was found; the next search starts behind it.
FillSlot(l, x) == [slot |-> [l.slot EXCEPT ![l.free + 1] = x], free |-> l.free + 1]

\* Faulty variant of FreeSlot: the search goes on behind a place that is free again.
FreeSlotLate(l, at) == [l EXCEPT !.slot[at + 1] = 0]
FreeSlot(l, at) == [slot |-> [l.slot EXCEPT ![at + 1] = 0], free |-> IF at < l.free THEN at ELSE l.free]
-----------------------------------------------------------------------------
(* The state of a program *)

\* mode: the program runs, an error is on its way to a try, the blocks it has
\* left are cleaned, a catch block is looked for, or the program is over.
Context(parent, many, callback) ==
    [parent |-> parent, at |-> 0, many |-> many, kids |-> NoList, callback |-> callback,
     kept |-> FALSE, freed |-> 0, called |-> 0]
Frame(is, ctx) == [is |-> is, ctx |-> ctx, phase |-> "body", catch |-> << >>, final |-> FALSE, done |-> FALSE, hit |-> 0]
Program(scope) ==
    [scope |-> scope, ctx |-> << [Context(0, TRUE, None) EXCEPT !.kept = TRUE] >>,
     stack |-> << [ctx |-> 1, type |-> "switch", try |-> 0] >>, cur |-> 1,
     tries |-> << >>, error |-> None, trace |-> << >>, frames |-> << >>, mode |-> "run",
     thrown |-> 0, moved |-> 0, aim |-> 0, failed |-> FALSE, lost |-> FALSE]

LastOf(s) == s[Len(s)]
ButLast(s) == SubSeq(s, 1, Len(s) - 1)
CurrentContext(m) == m.stack[m.cur].ctx
TryDepth(m) == Len(m.tries)

\* The entry below i that can be current.
Below(m, i) == CHOOSE j \in 1..(i - 1) :
    m.stack[j].type = "switch" /\ \A k \in (j + 1)..(i - 1) : m.stack[k].type = "new"
PriorContext(m) == m.stack[Below(m, m.cur)].ctx

Live(m) == {c \in DOMAIN m.ctx : m.ctx[c].freed = 0}

\* A context and all that is below it, in the order of the lists.
RECURSIVE Under(_, _)
Under(m, c) ==
    << c >> \o FlattenSeq([i \in DOMAIN m.ctx[c].kids.slot |->
        IF m.ctx[c].kids.slot[i] = 0 THEN << >> ELSE Under(m, m.ctx[c].kids.slot[i])])

\* A context that is neither in use nor above one that is.
UnusedContext(m, c) ==
    /\ c \in Live(m) /\ m.ctx[c].kept /\ c # 1
    /\ \A i \in DOMAIN m.stack : ~ \E j \in DOMAIN Under(m, c) : Under(m, c)[j] = m.stack[i].ctx

CanHold(m, c) == m.ctx[c].many \/ Held(m.ctx[c].kids) = {}
-----------------------------------------------------------------------------
(* Errors *)

\* The try the language of error.h says an error goes to: the innermost that
\* has not seen an error yet and has a block for it, 0 when there is none.
HasBlock(catch, t) == \E i \in DOMAIN catch :
    IF catch[i] = "fatal" THEN InstanceOf(t, Runtime)
    ELSE InstanceOf(t, IF catch[i] = "any" THEN Runtime ELSE catch[i]) /\ ~Fatal(t)
TryAt(m, i) == Len(SelectSeq(SubSeq(m.frames, 1, i), LAMBDA f : f.is = "try"))
Aim(m, t) ==
    LET fit == {i \in DOMAIN m.frames : /\ m.frames[i].is = "try"
                                        /\ m.tries[TryAt(m, i)].state = "try"
                                        /\ HasBlock(m.frames[i].catch, t)}
    IN  IF fit = {} THEN 0 ELSE CHOOSE i \in fit : \A j \in fit : j <= i

Propagate(m) ==
    IF m.tries = << >> THEN [m EXCEPT !.mode = "over"]
    ELSE [m EXCEPT !.tries[TryDepth(m)].uncaught = TRUE, !.mode = "jump"]

ThrowError(m, t) == Propagate([m EXCEPT !.error = t, !.aim = Aim(m, t)])

\* Faulty variant of TryEnd: a try that has seen no error clears that of the catch block it is in.
TryEndClears(m) ==
    LET t == LastOf(m.tries)
        n == [m EXCEPT !.error = IF ~t.uncaught THEN None ELSE @,
                       !.tries = ButLast(@), !.frames = ButLast(@)]
    IN  IF t.uncaught THEN Propagate(n) ELSE [n EXCEPT !.mode = "run"]
\* lost: the error of a catch block that is still open is cleared by a try within.
TryEnd(m) ==
    LET t == LastOf(m.tries)
        clear == t.state = "end" /\ ~t.uncaught
        n == [m EXCEPT !.error = IF clear THEN None ELSE @,
                       !.lost = IF clear THEN \E i \in 1..(Len(m.frames) - 1) : m.frames[i].phase # "body" ELSE @,
                       !.tries = ButLast(@), !.frames = ButLast(@)]
    IN  IF t.uncaught THEN Propagate(n) ELSE [n EXCEPT !.mode = "run"]

Finally(m) ==
    LET f == LastOf(m.frames)
    IN  IF f.final /\ ~f.done
        THEN [m EXCEPT !.frames[Len(m.frames)].phase = "final", !.frames[Len(m.frames)].done = TRUE, !.mode = "run"]
        ELSE TryEnd(m)
-----------------------------------------------------------------------------
(* Contexts *)

\* The place in the list of the parent is free. After a move the search for a
\* place does not go back to it.
Detach(m, c) ==
    [m EXCEPT !.ctx[m.ctx[c].parent].kids =
        IF m.ctx[m.ctx[c].parent].many THEN FreeSlot(@, m.ctx[c].at) ELSE NoList]
Leave(m, c) ==
    [m EXCEPT !.ctx[m.ctx[c].parent].kids =
        IF m.ctx[m.ctx[c].parent].many THEN [@ EXCEPT !.slot[m.ctx[c].at + 1] = 0] ELSE NoList]

\* Faulty variant of Attach: the context moves but its index stays that of the old list.
AttachOld(m, c, parent) ==
    LET l == IF m.ctx[parent].many THEN FoundSlot(m.ctx[parent].kids) ELSE [slot |-> << 0 >>, free |-> 0]
    IN  [m EXCEPT !.ctx[parent].kids = FillSlot(l, c), !.ctx[c].parent = parent]
Attach(m, c, parent) ==
    LET l == IF m.ctx[parent].many THEN FoundSlot(m.ctx[parent].kids) ELSE [slot |-> << 0 >>, free |-> 0]
    IN  [m EXCEPT !.ctx[parent].kids = FillSlot(l, c), !.ctx[c].at = l.free, !.ctx[c].parent = parent]

Push(m, c, type) == [m EXCEPT !.stack = Append(@, [ctx |-> c, type |-> type, try |-> TryDepth(m)])]

NewContext(m, many, callback) ==
    LET c == Len(m.ctx) + 1
        n == [m EXCEPT !.ctx = Append(@, Context(CurrentContext(m), many, callback))]
    IN  Push(Attach(n, c, CurrentContext(m)), c, "new")

Switch(m, c) == [Push(m, c, "switch") EXCEPT !.cur = Len(m.stack) + 1]

\* Faulty variant of SwitchBack: the top context becomes current.
SwitchBackTop(m) == [m EXCEPT !.stack = ButLast(@), !.cur = 1]
SwitchBack(m) == [m EXCEPT !.stack = ButLast(@), !.cur = Below(m, m.cur)]

Keep(m) == [m EXCEPT !.stack = ButLast(@), !.ctx[LastOf(m.stack).ctx].kept = TRUE]

\* The callbacks of a context and its children, up to the first that fails,
\* then all of them are freed. A second free of the same memory is the end.
FreeContext(m, c) ==
    LET line == Under(m, c)
        set == SelectSeq(line, LAMBDA x : m.ctx[x].callback # None)
        bad == {i \in DOMAIN set : m.ctx[set[i]].callback = "bad"}
        ran == IF bad = {} THEN Len(set) ELSE CHOOSE i \in bad : \A j \in bad : i <= j
        gone == {line[i] : i \in DOMAIN line}
        n == Detach([m EXCEPT !.ctx = [x \in DOMAIN m.ctx |->
                IF x \in gone
                THEN [m.ctx[x] EXCEPT !.freed = @ + 1, !.kids = NoList,
                                      !.called = @ + Cardinality({i \in 1..ran : set[i] = x})]
                ELSE m.ctx[x]]], c)
    IN  IF TryDepth(m) >= TryMax THEN ThrowError(m, "AssertError")
        ELSE IF m.ctx[c].freed > 0 THEN [m EXCEPT !.ctx[c].freed = @ + 1, !.mode = "over"]
        ELSE IF bad # {} THEN ThrowError(n, "ExecuteError") ELSE n

\* The new context on top of the stack is freed; when that throws it stays there.
FreeTop(m) ==
    LET Left(n) == IF n.mode # m.mode THEN [n EXCEPT !.failed = TRUE] ELSE [n EXCEPT !.stack = ButLast(@)]
    IN  Left(FreeContext(m, LastOf(m.stack).ctx))

-----------------------------------------------------------------------------
(* The blocks of a program, one action each, while it runs *)

MemoryStart == NoCall /\ \E scope \in Scopes : call' = Made("program", Program(scope))

\* A program is not followed beyond the failure of a callback in a context that
\* nothing keeps.
Proceeds == Returns("program") /\ call.obj.mode = "run" /\ ~call.obj.failed
Room(m) == Len(m.frames) < m.scope.frames
\* A finally block makes nothing new, and does not fail.
NoFinally(m) == \A i \in DOMAIN m.frames : m.frames[i].phase # "final"
InnerFrame(m) == IF m.frames = << >> THEN "none" ELSE LastOf(m.frames).is
InTry(m) == InnerFrame(m) = "try"
Opened(m, is, ctx) == [m EXCEPT !.frames = Append(@, Frame(is, ctx))]
Closed(m) == [m EXCEPT !.frames = ButLast(@)]

OpenNew ==
    /\ Proceeds
    /\ LET m == call.obj
       IN  /\ Room(m) /\ NoFinally(m) /\ Len(m.ctx) <= m.scope.contexts /\ CanHold(m, CurrentContext(m))
           /\ \E k \in {[is |-> "new", many |-> x[1], callback |-> x[2]] : x \in m.scope.kinds}
                        \cup {[is |-> "temp", many |-> TRUE, callback |-> None]} :
                 \E n \in {NewContext(m, k.many, k.callback)} :
                    Become(Opened(Switch(n, Len(n.ctx)), k.is, Len(n.ctx)))

OpenBlock ==
    /\ Proceeds
    /\ LET m == call.obj
       IN  /\ Room(m)
           /\ \E c \in (IF m.cur > 1 THEN {PriorContext(m)} ELSE {}) \cup {x \in Live(m) : m.ctx[x].kept} :
                 Become(Opened(Switch(m, c), "block", c))

CloseBlock ==
    /\ Proceeds
    /\ LET m == call.obj
       IN  \/ InnerFrame(m) = "block" /\ Become(Closed(SwitchBack(m)))
           \/ InnerFrame(m) = "new" /\ Become(Closed(Keep(SwitchBack(m))))
           \/ InnerFrame(m) = "temp" /\ Become(FreeTop(Closed(SwitchBack(m))))

\* A function is entered and left.
Enter ==
    /\ Proceeds /\ Room(call.obj) /\ Len(call.obj.trace) < call.obj.scope.calls
    /\ Become([Opened(call.obj, "call", 0) EXCEPT !.trace = Append(@, TryDepth(call.obj))])

Return == Proceeds /\ InnerFrame(call.obj) = "call" /\ Become([Closed(call.obj) EXCEPT !.trace = ButLast(@)])

\* An object is moved to the context before, or is freed.
Move ==
    /\ Proceeds
    /\ LET m == call.obj
       IN  /\ m.cur > 1 /\ m.moved < m.scope.moves
           /\ \E c \in Live(m) :
                 /\ m.ctx[c].parent = CurrentContext(m) /\ PriorContext(m) # CurrentContext(m) /\ UnusedContext(m, c) /\ CanHold(m, PriorContext(m))
                 /\ Become([Attach(Leave(m, c), c, PriorContext(m)) EXCEPT !.moved = @ + 1])

FreeObject == Proceeds /\ NoFinally(call.obj) /\ \E c \in Live(call.obj) : UnusedContext(call.obj, c) /\ Become(FreeContext(call.obj, c))

TryBegin ==
    /\ Proceeds
    /\ LET m == call.obj
       IN  /\ Room(m) /\ NoFinally(m)
           /\ \E b \in m.scope.tries :
                 Become(IF TryDepth(m) >= TryMax THEN ThrowError(m, "AssertError")
                        ELSE [m EXCEPT !.tries = Append(@, [state |-> "try", uncaught |-> FALSE]),
                                       !.frames = Append(@, [Frame("try", CurrentContext(m)) EXCEPT
                                                                !.catch = b.catch, !.final = b.final])])

Raise ==
    /\ Proceeds /\ NoFinally(call.obj) /\ call.obj.thrown < call.obj.scope.errors
    /\ \E t \in {"AssertError", "TermError", "ExecuteError"} : Become(ThrowError([call.obj EXCEPT !.thrown = @ + 1], t))

\* RETHROW() in a catch block, which has an error as long as no try within has cleared it.
Rethrow ==
    /\ Proceeds /\ InTry(call.obj) /\ LastOf(call.obj.frames).phase = "catch" /\ call.obj.error # None
    /\ Become(Propagate([call.obj EXCEPT !.aim = Aim(call.obj, call.obj.error)]))

\* The end of a try block, of a catch block or of a finally block.
EndPhase == Proceeds /\ InTry(call.obj) /\ Become(Finally(call.obj))
-----------------------------------------------------------------------------
(* What an error does *)

Unwinds(mode) == Returns("program") /\ call.obj.mode = mode /\ ~call.obj.failed

\* The jump to the innermost try, and the stack trace of what it leaves.
Jump ==
    /\ Unwinds("jump")
    /\ LET m == call.obj
           i == CHOOSE j \in DOMAIN m.frames : m.frames[j].is = "try" /\ TryAt(m, j) = TryDepth(m)
           sees == LastOf(m.tries).state = "try" /\ m.frames[i].catch # << >>
       IN  Become([m EXCEPT !.frames = SubSeq(@, 1, i),
                            !.trace = IF sees THEN SelectSeq(@, LAMBDA d : d < TryDepth(m)) ELSE @,
                            !.mode = IF sees THEN "clean" ELSE "catch"])

\* Faulty variant of CleanedBy: what was opened outside the try is cleaned as well.
CleanedByAll(m, e) == e.try + 1 >= TryDepth(m) /\ Len(m.stack) > 1
CleanedBy(m, e) == e.try >= TryDepth(m)

\* One entry of the stack of contexts. A fatal error frees none.
Clean ==
    /\ Unwinds("clean")
    /\ LET m == call.obj
           e == LastOf(m.stack)
           fatal == LastOf(m.frames).catch[1] = "fatal"
       IN  Become(IF ~CleanedBy(m, e) THEN [m EXCEPT !.tries[TryDepth(m)].state = "catch", !.mode = "catch"]
                  ELSE IF e.type = "switch" THEN SwitchBack(m)
                  ELSE IF fatal THEN Keep(m) ELSE FreeTop(m))

\* Faulty variant of Catches: a catch block of any error takes a fatal error.
CatchesFatal(catch, t) == catch = "fatal" \/ InstanceOf(t, IF catch = "any" THEN Runtime ELSE catch)
Catches(catch, t) ==
    \/ catch = "fatal"
    \/ ~Fatal(t) /\ InstanceOf(t, IF catch = "any" THEN Runtime ELSE catch)

Catch ==
    /\ Unwinds("catch")
    /\ LET m == call.obj
           f == LastOf(m.frames)
           fit == {i \in DOMAIN f.catch : Catches(f.catch[i], m.error)}
       IN  Become(IF LastOf(m.tries).state = "catch" /\ fit # {}
                  THEN [m EXCEPT !.tries[TryDepth(m)] = [state |-> "end", uncaught |-> FALSE],
                                 !.frames[Len(m.frames)].phase = "catch",
                                 !.frames[Len(m.frames)].hit = m.aim, !.mode = "run"]
                  ELSE Finally(m))
-----------------------------------------------------------------------------
(* What holds in between *)

\* The blocks that are open and the stacks agree, unless a finally block runs
\* after an error that no catch block has seen: it runs where the error was.
Unseen(m) == \E i \in DOMAIN m.frames : m.frames[i].phase = "final" /\ m.tries[TryAt(m, i)].uncaught
BlockFrames(m) == SelectSeq(m.frames, LAMBDA f : f.is \in {"new", "temp", "block"})
Restored(m) ==
    m.mode = "run" /\ ~Unseen(m) =>
        /\ CurrentContext(m) = IF BlockFrames(m) = << >> THEN 1 ELSE LastOf(BlockFrames(m)).ctx
        /\ Len(m.trace) = Len(SelectSeq(m.frames, LAMBDA f : f.is = "call"))
        /\ [i \in DOMAIN SelectSeq(m.stack, LAMBDA e : e.type = "new") |-> SelectSeq(m.stack, LAMBDA e : e.type = "new")[i].ctx]
            = [i \in DOMAIN SelectSeq(m.frames, LAMBDA f : f.is \in {"new", "temp"}) |->
                    SelectSeq(m.frames, LAMBDA f : f.is \in {"new", "temp"})[i].ctx]

\* Every context is freed at most once, has its callback called before, and as
\* long as it is live is in the list of one parent, which is live as well.
Owned(m) ==
    \A c \in DOMAIN m.ctx \ {1} :
        LET x == m.ctx[c]
            places == UNION {{<< p, i >> : i \in {j \in DOMAIN m.ctx[p].kids.slot : m.ctx[p].kids.slot[j] = c}} : p \in Live(m)}
        IN  /\ x.freed <= 1 /\ x.called <= x.freed
            /\ x.freed = 0 => places = {<< x.parent, x.at + 1 >>}
            /\ x.freed = 1 => places = {}
            /\ x.freed = 1 /\ x.callback # None => x.called = 1 \/ \E y \in m.scope.kinds : y[2] = "bad"

\* A context that no block is open for any more is kept or freed.
NotLeaked(m) ==
    m.mode = "run" /\ ~Unseen(m) =>
        \A c \in Live(m) : m.ctx[c].kept \/ \E i \in DOMAIN m.frames : m.frames[i].ctx = c /\ m.frames[i].is \in {"new", "temp"}

\* An error is caught by the block it is for, which has it until it is done.
Caught(m) ==
    /\ \A i \in DOMAIN m.frames : m.frames[i].phase = "catch" => m.frames[i].hit = i
    /\ m.mode = "over" => m.aim = 0
    /\ m.mode = "run" /\ ~m.lost /\ (\E i \in DOMAIN m.frames : m.frames[i].phase = "catch") => m.error # None

ProgramSound(m) == m.failed \/ (Restored(m) /\ Owned(m) /\ NotLeaked(m) /\ Caught(m))
-----------------------------------------------------------------------------
(* The buffers of one context *)

BufferStart ==
    /\ NoCall
    /\ \E many \in BOOLEAN : call' = Made("buffers", [many |-> many, list |-> NoList, at |-> << >>, live |-> {}])

PlacedBuffer(o, x) == FillSlot(IF o.many THEN FoundSlot(o.list) ELSE [slot |-> << 0 >>, free |-> 0], x)

AllocNew ==
    /\ Returns("buffers")
    /\ LET o == call.obj
           x == Len(o.at) + 1
       IN  /\ x <= MaxBuffer /\ (o.many \/ o.live = {})
           /\ \E l \in {PlacedBuffer(o, x)} :
                 Become([o EXCEPT !.list = l, !.at = Append(@, l.free - 1), !.live = @ \cup {x}])

\* The buffer may be at another address afterwards: another number stands for it.
AllocResize ==
    /\ Returns("buffers") /\ Len(call.obj.at) < MaxBuffer
    /\ \E o \in {call.obj} : \E x \in o.live :
          Become([o EXCEPT !.list.slot[o.at[x] + 1] = Len(o.at) + 1, !.at = Append(@, o.at[x]),
                           !.live = (@ \ {x}) \cup {Len(o.at) + 1}])

AllocFree ==
    /\ Returns("buffers")
    /\ \E o \in {call.obj} : \E x \in o.live :
          Become([o EXCEPT !.list = IF o.many THEN FreeSlot(@, o.at[x]) ELSE [slot |-> << 0 >>, free |-> 0],
                           !.live = @ \ {x}])

\* The list has every live buffer, where its header says, and no other.
BuffersSound(o) ==
    /\ Held(o.list) = o.live
    /\ \A x \in o.live : o.list.slot[o.at[x] + 1] = x
    /\ \A i \in 1..o.list.free : i \in DOMAIN o.list.slot /\ (o.many => o.list.slot[i] # 0)
-----------------------------------------------------------------------------
(* The layout of a context, in words: what it may have is behind its header *)

WordSize == 8
Padded(extra) == IF extra % WordSize = 0 THEN extra ELSE extra + (WordSize - (extra % WordSize))
PartOf(qty) == CASE qty = "none" -> 0 [] qty = "one" -> WordSize [] qty = "many" -> 2 * WordSize
SizePossible(child, alloc, callback) == PartOf(child) + PartOf(alloc) + (IF callback THEN 2 * WordSize ELSE 0)

\* Faulty variant of AllocOffset: the children are not counted.
AllocOffsetFirst(c) == Padded(c.extra)
AllocOffset(c) == Padded(c.extra) + SizePossible(c.child, "none", FALSE)
CallbackOffset(c) == Padded(c.extra) + SizePossible(c.child, c.alloc, FALSE)

LayoutCall ==
    /\ NoCall
    /\ \E c \in [child : {"none", "one", "many"}, alloc : {"none", "one", "many"}, callback : BOOLEAN, extra : 0..9] :
          call' = Called("layout", c,
                    [child |-> Padded(c.extra), alloc |-> AllocOffset(c), callback |-> CallbackOffset(c),
                     size |-> Padded(c.extra) + SizePossible(c.child, c.alloc, c.callback)])

\* The parts are behind each other, and each has its room.
LayoutSound(c, r) ==
    /\ c.extra <= r.child /\ r.child % WordSize = 0
    /\ r.child + PartOf(c.child) <= r.alloc /\ r.alloc + PartOf(c.alloc) <= r.callback
    /\ r.callback + (IF c.callback THEN 2 * WordSize ELSE 0) <= r.size
-----------------------------------------------------------------------------
(* The stack trace *)

CONSTANTS TraceBuffer,  \* room for the parameters of all functions,
          ParamMax,     \* and for one
          ParamNames,   \* the lengths of names,
          ParamValues,  \* of values,
          MaxFunction   \* and the functions on the stack

ParamStart == NoCall /\ call' = Made("params", [stack |-> << >>, from |-> 0, to |-> 0])

TracePush ==
    /\ Returns("params") /\ Len(call.obj.stack) < MaxFunction
    /\ LET s == call.obj.stack
       IN  Become([call.obj EXCEPT !.from = 0, !.to = 0, !.stack = Append(s,
                [param |-> IF s = << >> THEN 0 ELSE LastOf(s).param + LastOf(s).size + 1,
                 size |-> 0, overflow |-> FALSE])])

\* Faulty variant of Overflows: room is left for one value only, that of the parameter itself.
OverflowsLate(d, name) == d.param + d.size + name + 4 > TraceBuffer - ParamMax
Overflows(d, name) == d.param + d.size + name + 4 > TraceBuffer - 2 * ParamMax

\* What is written: from, to.
ParamAdd ==
    /\ Returns("params") /\ call.obj.stack # << >>
    /\ \E name \in ParamNames, value \in ParamValues :
          LET s == call.obj.stack
              d == LastOf(s)
              named == d.size + (IF d.size # 0 THEN 2 ELSE 0) + name + 2
          IN  IF Overflows(d, name)
              THEN Become([call.obj EXCEPT !.stack[Len(s)].overflow = TRUE,
                                           !.from = TraceBuffer - ParamMax, !.to = TraceBuffer - ParamMax + value])
              ELSE Become([call.obj EXCEPT !.stack[Len(s)].size = IF d.overflow THEN named ELSE named + value,
                                           !.from = d.param + d.size, !.to = d.param + named + value])

TracePop ==
    /\ Returns("params") /\ call.obj.stack # << >>
    /\ Become([call.obj EXCEPT !.stack = ButLast(@), !.from = 0, !.to = 0])

\* What is written, and the zero behind it, is inside the buffer and not in
\* the place that is kept for values that do not fit, and changes no other parameter.
ParamsSound(o) ==
    o.to > 0 =>
        /\ o.to < TraceBuffer /\ (o.from < TraceBuffer - ParamMax => o.to < TraceBuffer - ParamMax)
        /\ \A i \in 1..(Len(o.stack) - 1) : o.stack[i].size > 0 => o.stack[i].param + o.stack[i].size < o.from

\* The function an error was thrown in, which may have left no trace, and those it was called by.
TraceToZ(stack, function) ==
    LET own == stack # << >> /\ LastOf(stack) = function
    IN  << function >> \o (IF own \/ stack = << >> THEN << >> ELSE << "omitted" >>)
            \o Reverse(IF own THEN ButLast(stack) ELSE stack)

TraceCall ==
    /\ NoCall
    /\ \E stack \in SeqOf({"main", "f"}, 3), function \in {"main", "f", "g"} :
          call' = Called("trace", [stack |-> stack, function |-> function], TraceToZ(stack, function))

TraceSound(c, r) ==
    /\ r[1] = c.function
    /\ LET shown == SelectSeq(r, LAMBDA f : f # "omitted")
       IN  shown \in {Reverse(c.stack), << c.function >> \o Reverse(c.stack)}
-----------------------------------------------------------------------------
(* The check of debug builds that a function leaves only what it returns *)

AuditBegin(before) == IF before = {} THEN 0 ELSE (CHOOSE x \in before : \A y \in before : y.seq <= x.seq).seq

\* Faulty variant of AuditEnd: one of the right type is enough.
AuditEndAny(sequence, after, type) ==
    LET fresh == SelectSeq(after, LAMBDA x : x.seq > sequence)
    IN  fresh # << >> /\ \A i \in DOMAIN fresh : fresh[i].name # type
AuditEnd(sequence, after, type) ==
    LET fresh == SelectSeq(after, LAMBDA x : x.seq > sequence)
    IN  \E i \in DOMAIN fresh : fresh[i].name # type \/ \E j \in 1..(i - 1) : fresh[j].name = type

AuditCall ==
    /\ NoCall
    /\ \E old \in SUBSET {1, 2}, stay \in SUBSET {1, 2}, left \in SeqOf({"String", "List"}, 3), type \in {"String", "List", "void"} :
          LET before == {[seq |-> x, name |-> "String"] : x \in old}
              made == [i \in DOMAIN left |-> [seq |-> 2 + i, name |-> left[i]]]
          IN  call' = Called("audit", [left |-> left, type |-> type],
                        AuditEnd(AuditBegin(before), SetToSeq({x \in before : x.seq \in stay}) \o made, type))

AuditSound(c, error) == error <=> (c.left # << >> /\ c.left # << c.type >>)
-----------------------------------------------------------------------------
(* The end of the process: command/exit.c and main.c *)

Unhandled == 124
Term == ErrorTypes["TermError"].code

\* Faulty variant of ExitSafe: the code of an error is used only when there is no other.
ExitSafeFirst(result, type, signal) ==
    LET code == IF type # None /\ result = 0 THEN ErrorTypes[type].code ELSE result
    IN  [code |-> code, message |-> IF code = Term THEN IF signal = None THEN "child" ELSE signal
                                    ELSE IF code # 0 THEN "aborted" ELSE None]
\* What the end of the command is told, and the code, unless releasing the locks fails.
ExitSafe(result, type, signal) ==
    LET code == IF type # None THEN ErrorTypes[type].code ELSE result
    IN  [code |-> code,
         message |-> CASE code = Term -> IF signal = None THEN "child" ELSE signal
                       [] code # 0 /\ code # Term /\ type # None -> "aborted"
                       [] OTHER -> None]

\* The error of a release that fails goes to the try of main() when a signal came
\* while it was open, and to no try otherwise.
MainEnd(c) ==
    LET error == IF c.signal # None THEN IF c.release[1] THEN None ELSE "ExecuteError" ELSE c.error
        normal == ExitSafe(c.result, None, None)
    IN  IF c.signal # None /\ c.release[1] THEN ExitSafe(Term, None, c.signal)
        ELSE IF error # None
        THEN IF c.release[2] /\ c.free THEN ExitSafe(c.result, error, None) ELSE [code |-> Unhandled, message |-> None]
        ELSE IF c.free /\ c.release[2] THEN normal ELSE [code |-> Unhandled, message |-> None]

ExitCall ==
    /\ NoCall
    /\ \E c \in [result : {0, 1}, error : {None} \cup DOMAIN ErrorTypes, signal : {None, "TERM"},
                 release : {<< TRUE, TRUE >>, << FALSE, TRUE >>, << FALSE, FALSE >>}, free : BOOLEAN] :
          call' = Called("exit", c, MainEnd(c))

\* The code says what went wrong first, or 124 when the end itself failed, and
\* is that of the command only when nothing went wrong.
ExitSound(c, r) ==
    /\ r.code = 0 => c.result = 0 /\ c.error = None /\ c.signal = None /\ c.free /\ c.release[2]
    /\ c.signal = None /\ c.error # None /\ c.free /\ c.release[2] => TypeFromCode(r.code) = c.error /\ r.message # None
    /\ c.signal # None /\ c.release[1] => r.code = Term /\ r.message = c.signal
-----------------------------------------------------------------------------
\* The blocks of a program restore what they found, no context is lost or freed
\* twice, an error goes to the block that is for it, the lists hold what is
\* allocated, the parts of a context and the parameters of the stack trace do
\* not overlap, and a process that failed says so.
MemorySound ==
    CASE Returns("program") -> ProgramSound(call.obj)
      [] Returns("buffers") -> BuffersSound(call.obj)
      [] Returns("params") -> ParamsSound(call.obj)
      [] Returns("layout") -> LayoutSound(call.arg, call.result)
      [] Returns("trace") -> TraceSound(call.arg, call.result)
      [] Returns("audit") -> AuditSound(call.arg, call.result)
      [] Returns("exit") -> ExitSound(call.arg, call.result)
      [] OTHER -> TRUE

MemoryNext ==
    \/ MemoryStart \/ OpenNew \/ OpenBlock \/ CloseBlock \/ Enter \/ Return \/ Move \/ FreeObject
    \/ TryBegin \/ Raise \/ Rethrow \/ EndPhase \/ Jump \/ Clean \/ Catch
LibraryNext ==
    \/ BufferStart \/ AllocNew \/ AllocResize \/ AllocFree \/ LayoutCall
    \/ ParamStart \/ TracePush \/ ParamAdd \/ TracePop \/ TraceCall \/ AuditCall \/ ExitCall
=============================================================================
