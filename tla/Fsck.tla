--------------------------------- MODULE Fsck ---------------------------------
(***************************************************************************)
(* fsck.bookmarkfs: the main loop (fsck.c), the walk over the directories, *)
(* either through the backend (fsck_offline.c) or through the mounted file *)
(* system (fsck_online.c), and the built-in handler that repairs names or  *)
(* asks the user (fsck_handler_simple.c).                                  *)
(*                                                                         *)
(* A name is abstracted to the number of faults that its repairs may still *)
(* bring to light (a second bad character, a name that is taken then): 0   *)
(* is a valid name, under which its entry is found; one in Taken is valid  *)
(* but for an entry of the same directory that has it and is found under   *)
(* it; any other one is malformed.  The backends always see that a name is *)
(* malformed, but not always that it is taken: Firefox by a dentry_map     *)
(* that the first repair of the directory creates, Chromium at the load.   *)
(* Both walks keep a stack of open directories.  dir is the local pointer  *)
(* of fsck_next(), which returns after it was stored in dir_stack_top:     *)
(* every other function goes by the latter.                                *)
(***************************************************************************)
EXTENDS Integers, FiniteSets, Sequences, Functions

CONSTANTS
    Tree,           \* the children of each directory, a sequence
    Root,           \* the directory that the user names
    MaxFaults,      \* bound on the faults of a name
    Taken,          \* the faults of a name that is but taken
    Wrong,          \* the items whose name may be wrong at first
    Chunk,          \* the entries that a getdents() call returns at most
    StackSize,      \* dir_stack_size with -R; the code has 16
    MaxCommands     \* bound on the commands of the user

Dirs     == DOMAIN Tree
Items    == UNION {Range(Tree[d]) : d \in Dirs}
Commands == {"apply", "edit", "next", "skip", "skip_children", "rewind",
             "reset", "save"}

ASSUME TreeAssumption ==
    /\ Root \in Dirs \ Items
    /\ Dirs \ {Root} \subseteq Items
    /\ \A d \in Dirs : Tree[d] \in Seq(Range(Tree[d]))
    /\ \A d, e \in Dirs : d # e => Range(Tree[d]) \cap Range(Tree[e]) = {}
\* Each directory is below the root: going up ends there.
ASSUME BelowRootAssumption ==
    \A S \in SUBSET (Dirs \ {Root}) :
        S # {} => \E d \in S : \E e \in Dirs \ S : d \in Range(Tree[e])
ASSUME FsckBoundAssumption ==
    /\ {MaxFaults, MaxCommands} \subseteq Nat
    /\ Taken \subseteq 1 .. MaxFaults
    /\ Chunk \in Nat \ {0}
    /\ StackSize \in Nat \ {0, 1}

VARIABLES
    opt,        \* the options: online, recursive, readonly, interactive
    name,       \* the faults of each stored name
    stack, size, top, dir,  \* dir_stack, its size, its top; fsck_next()'s dir
    buf, used,  \* dent_buf, dent_buf_used
    allDone,    \* FSCK_ALL_DONE
    pc, why,    \* what do_fsck() does next, and the result for the handler
    entry,      \* union bookmarkfs_fsck_handler_data: id, faults
    handler,    \* struct handler_ctx
    open,       \* how often each directory is open (descriptors, cookies)
    seen,       \* history since the last RESET: names examined, skips
    commands    \* the number of commands

walkVars == <<stack, size, top, dir, buf, used, allDone, open>>
vars     == <<opt, name, walkVars, pc, why, entry, handler, seen, commands>>

NoEntry  == [id |-> Root, faults |-> 0]
Unseen   == [items |-> {}, skipped |-> {}, pruned |-> {}, again |-> FALSE]

\* done: off >= 0, or FSCK_DIR_DONE.  idx is the position of the check and
\* read that of the list, which the backend (the kernel) keeps.
Frame(d, start) == [id |-> d, done |-> FALSE, idx |-> 0, read |-> 0,
                    start |-> start, pos |-> start]

\* The frames in use.
Last == IF pc = "walk" THEN dir ELSE top
-----------------------------------------------------------------------------
(***************************************************************************)
(* fsck_next().                                                            *)
(***************************************************************************)
Malformed(n) == n # 0 /\ n \notin Taken

Bad(d, idx) == {k \in idx + 1 .. Len(Tree[d]) : name[Tree[d][k]] > 0}

\* What a check from position idx may report: a name that is taken is missed
\* by a Firefox backend that has no dentry_map or one that lacks the name, and
\* by a Chromium backend that has stored it in a repair.
Reports(d, idx) ==
    {S \in SUBSET Bad(d, idx) :
        \A k \in Bad(d, idx) : Malformed(name[Tree[d][k]]) => k \in S}

Least(S) == CHOOSE k \in S : \A j \in S : k <= j

\* The entries that are listed after position n: those with valid names, and
\* maybe some whose names are taken.
Listings(d, n) ==
    LET at(names) == {k \in n + 1 .. Len(Tree[d]) : name[Tree[d][k]] \in names}
    IN {at({0}) \cup S : S \in SUBSET at(Taken)}

Begin ==
    /\ pc = "next"
    /\ dir' = top
    /\ pc' = IF allDone THEN "end" ELSE "walk"
    /\ UNCHANGED <<opt, name, stack, size, top, buf, used, allDone, open, why,
                   entry, handler, seen, commands>>

\* bookmark_check(), or BOOKMARKFS_IOC_FSCK_NEXT: the next wrong name.
Checks(bad) ==
    LET f   == stack[dir]
        end == IF bad = {} THEN Len(Tree[f.id]) ELSE Least(bad)
    IN /\ stack' = [stack EXCEPT ![dir].idx = end, ![dir].done = bad = {}]
       /\ seen' = [seen EXCEPT !.items =
                        @ \cup {Tree[f.id][k] : k \in f.idx + 1 .. end}]
       /\ \/ /\ bad # {}
             /\ entry' = [id |-> Tree[f.id][end], faults |-> name[Tree[f.id][end]]]
             /\ why' = 1 /\ top' = dir /\ pc' = "handler"
          \/ /\ bad = {}
             /\ pc' = IF opt.recursive THEN "walk" ELSE "end"
             /\ UNCHANGED <<entry, why, top>>
       /\ UNCHANGED <<opt, name, size, dir, buf, used, allDone, open, handler,
                      commands>>

Check ==
    /\ pc = "walk" /\ ~stack[dir].done
    /\ \E bad \in Reports(stack[dir].id, stack[dir].idx) : Checks(bad)

\* Mutant: the stack grows one frame late.
GrownLate(n) == IF n > size + 1 THEN size + size \div 2 ELSE size

\* dir_stack_size after the n-th frame was added.
Grown(n) == IF n > size THEN size + size \div 2 ELSE size

\* A subdirectory is opened, and put on the stack.
Push(frames, sub) ==
    /\ stack' = Append(SubSeq(frames, 1, dir), Frame(sub, used))
    /\ size' = Grown(dir + 1)
    /\ dir' = dir + 1
    /\ open' = [open EXCEPT ![sub] = @ + 1]
    /\ UNCHANGED <<top, pc>>

\* Mutant: the entries of the directory stay in the buffer.
PopKept == used

\* dent_buf_used once the directory on the top has left the stack.
Pop == stack[Last].start

\* No subdirectory is left: back to the parent, or the end.
Leave ==
    \/ /\ dir = 1
       /\ top' = dir /\ pc' = "end"
       /\ UNCHANGED <<stack, size, dir, buf, used, open>>
    \/ /\ dir > 1
       /\ open' = [open EXCEPT ![stack[dir].id] = @ - 1]
       /\ used' = Pop
       /\ dir' = dir - 1
       /\ UNCHANGED <<stack, size, top, buf, pc>>

Walking == pc = "walk" /\ stack[dir].done

WalkEnds ==     \* without -R
    /\ Walking /\ ~opt.recursive
    /\ pc' = "end"
    /\ UNCHANGED <<opt, name, walkVars, why, entry, handler, seen, commands>>

\* do_list() of fsck_offline.c.
ListSubdir ==
    LET f == stack[dir]
    IN /\ Walking /\ opt.recursive /\ ~opt.online
       /\ \E listed \in Listings(f.id, f.read) :
            LET subs == {k \in listed : Tree[f.id][k] \in Dirs}
            IN \/ /\ subs # {}
                  /\ Push([stack EXCEPT ![dir].read = Least(subs)],
                          Tree[f.id][Least(subs)])
                  /\ UNCHANGED <<buf, used>>
               \/ subs = {} /\ Leave
       /\ UNCHANGED <<opt, name, allDone, why, entry, handler, seen, commands>>

\* next_subdir() and open_subdir() of fsck_online.c: the buffer has the rest
\* of the last getdents() of this directory behind pos.
InBuffer(f) == {k \in f.pos + 1 .. used : buf[k] \in Dirs}

\* openat() goes by the name: one that is taken opens another directory.
Opened(i) ==
    IF name[i] = 0 THEN {i}
    ELSE {e \in Range(Tree[stack[dir].id]) \cap Dirs : ~Malformed(name[e])}

NextSubdir ==
    LET f == stack[dir]
        k == Least(InBuffer(f))
    IN /\ Walking /\ opt.recursive /\ opt.online
       /\ InBuffer(f) # {}
       /\ \E sub \in Opened(buf[k]) : Push([stack EXCEPT ![dir].pos = k], sub)
       /\ UNCHANGED <<opt, name, buf, used, allDone, why, entry, handler, seen,
                      commands>>

Reads(more) ==
    LET f   == stack[dir]
        got == {k \in more : Cardinality({j \in more : j <= k}) <= Chunk}
        at(n) == CHOOSE k \in got : Cardinality({j \in got : j <= k}) = n
    IN /\ \/ /\ got # {}
             /\ buf' = SubSeq(buf, 1, f.start)
                         \o [n \in 1 .. Cardinality(got) |-> Tree[f.id][at(n)]]
             /\ used' = f.start + Cardinality(got)
             /\ stack' = [stack EXCEPT ![dir].pos = f.start,
                                       ![dir].read = at(Cardinality(got))]
             /\ UNCHANGED <<size, top, dir, open, pc>>
          \/ got = {} /\ Leave
       /\ UNCHANGED <<opt, name, allDone, why, entry, handler, seen, commands>>

Getdents ==
    LET f == stack[dir]
    IN /\ Walking /\ opt.recursive /\ opt.online
       /\ InBuffer(f) = {}
       /\ \E more \in Listings(f.id, f.read) : Reads(more)

\* Mutant: the top of the stack is stored on success only.
StoredLate == top

Stored == dir

\* A call to the backend or to the kernel fails: fsck_next() returns -1.
WalkFails ==
    /\ pc = "walk"
    /\ top' = Stored
    /\ pc' = "failed"
    /\ UNCHANGED <<opt, name, stack, size, dir, buf, used, allDone, open, why,
                   entry, handler, seen, commands>>
-----------------------------------------------------------------------------
(***************************************************************************)
(* The handler.                                                            *)
(***************************************************************************)
\* Mutant: the character is replaced by one that is not allowed either.
FixEntrySame(n) == {n}

\* What is left of n faults when one of them is repaired.
FixEntry(n) == 0 .. n - 1

HandleEntry ==
    /\ pc = "handler" /\ why > 0
    /\ entry' \in IF opt.readonly THEN {entry}
                  ELSE {[entry EXCEPT !.faults = n] : n \in FixEntry(entry.faults)}
    /\ \/ /\ opt.interactive
          /\ handler' = [handler EXCEPT !.data = entry', !.expect = TRUE, !.has = TRUE]
          /\ pc' = "input"
       \/ /\ ~opt.interactive
          /\ handler' = [handler EXCEPT !.has = TRUE]
          /\ pc' = IF opt.readonly THEN "next" ELSE "apply"
    /\ UNCHANGED <<opt, name, walkVars, why, seen, commands>>

\* The command is done: on to the next entry, unless the user said no.
HandleDone ==
    /\ pc = "handler" /\ why < 0
    /\ IF handler.inhibit
       THEN /\ handler' = [handler EXCEPT !.inhibit = FALSE, !.expect = TRUE]
            /\ pc' = "input"
       ELSE pc' = "next" /\ UNCHANGED handler
    /\ UNCHANGED <<opt, name, walkVars, why, entry, seen, commands>>

\* Mutant: what APPLY returns is not shown to the handler.
ApplyOnce ==
    /\ pc = "apply"
    /\ name' = [name EXCEPT ![entry.id] = IF entry.faults = 0 THEN 0 ELSE @]
    /\ why' = -1
    /\ pc' = "handler"
    /\ UNCHANGED <<opt, walkVars, entry, handler, seen, commands>>

\* A name is stored that entry j of the directory has: only one of the two is
\* found under it from now on, and it may be either.
StoreTaken ==
    \E j \in Range(Tree[stack[top].id]) \ {entry.id} :
        /\ name[j] = 0
        /\ \/ name' = [name EXCEPT ![entry.id] = entry.faults]
           \/ name' = [name EXCEPT ![entry.id] = 0, ![j] = entry.faults]

\* bookmark_check() with fsck_data, or BOOKMARKFS_IOC_FSCK_APPLY: a malformed
\* name is not stored but returned with what is wrong with it.  One that is
\* taken may be stored: Firefox looks for it in the dentry_map only (and not at
\* all when there is none yet), Chromium under a hash that is not its own.
Apply ==
    /\ pc = "apply"
    /\ \/ entry.faults > 0 /\ why' = 1 /\ UNCHANGED name
       \/ /\ why' = -1
          /\ \/ entry.faults = 0 /\ name' = [name EXCEPT ![entry.id] = 0]
             \/ entry.faults \in Taken /\ StoreTaken
    /\ pc' = "handler"
    /\ UNCHANGED <<opt, walkVars, entry, handler, seen, commands>>

ApplyFails ==
    /\ pc = "apply"
    /\ pc' = "failed"
    /\ UNCHANGED <<opt, name, walkVars, why, entry, handler, seen, commands>>

\* expect_next(): dash is the suffix `-'.
ExpectNext(dash) ==
    /\ handler' = [handler EXCEPT !.inhibit = @ \/ dash, !.has = FALSE,
                                  !.expect = FALSE]
    /\ commands' = commands + 1

\* `a' and `e'; the name that the user types has any number of faults.
InputApply(cmd, dash) ==
    /\ ~opt.readonly /\ handler.has
    /\ \E n \in IF cmd = "edit" THEN 0 .. MaxFaults ELSE {handler.data.faults} :
            entry' = [handler.data EXCEPT !.faults = n]
    /\ ExpectNext(dash)
    /\ pc' = "apply"
    /\ UNCHANGED <<opt, name, walkVars, why, seen>>

InputNext(dash) ==      \* `c'
    /\ ExpectNext(dash)
    /\ pc' = "next"
    /\ UNCHANGED <<opt, name, walkVars, why, entry, seen>>

\* fsck_control() of both walks.
Skip ==
    LET f == stack[top]
    IN /\ stack' = [stack EXCEPT ![top].done = TRUE,
                                 ![top].idx = IF ~opt.online /\ f.done THEN @ ELSE 0]
       /\ seen' = [seen EXCEPT !.skipped = IF f.done THEN @ ELSE @ \cup {f.id}]
       /\ UNCHANGED <<top, buf, used, allDone, open>>

Rewind ==
    /\ stack' = [stack EXCEPT ![top].idx = 0]
    /\ UNCHANGED <<top, buf, used, allDone, open, seen>>

SkipChildren ==
    /\ IF top = 1
       THEN allDone' = TRUE /\ UNCHANGED <<top, used, open>>
       ELSE /\ open' = [open EXCEPT ![stack[top].id] = @ - 1]
            /\ used' = IF opt.online THEN Pop ELSE used
            /\ top' = top - 1
            /\ UNCHANGED allDone
    /\ seen' = [seen EXCEPT !.pruned = @ \cup {stack[top].id}]
    /\ UNCHANGED <<stack, buf>>

\* Mutant: the descriptor of the top is not rewound with lseek().
ResetTopUnread ==
    [Frame(Root, 0) EXCEPT !.read = IF opt.online THEN stack[1].read ELSE 0]

\* reset_top(); offline, a directory whose names are done keeps its position.
ResetTop ==
    [Frame(Root, 0) EXCEPT !.idx = IF ~opt.online /\ stack[1].done
                                   THEN stack[1].idx ELSE 0]

Reset ==
    /\ stack' = <<ResetTop>>
    /\ open' = [d \in Dirs |-> IF d \in {stack[n].id : n \in 2 .. top}
                               THEN open[d] - 1 ELSE open[d]]
    /\ top' = 1 /\ used' = 0 /\ allDone' = FALSE
    /\ seen' = [Unseen EXCEPT !.again = TRUE]
    /\ UNCHANGED buf

Save == UNCHANGED <<stack, top, buf, used, allDone, open, seen>>

Control(cmd) ==
    \/ cmd = "skip"          /\ Skip
    \/ cmd = "rewind"        /\ Rewind
    \/ cmd = "skip_children" /\ SkipChildren
    \/ cmd = "reset"         /\ Reset
    \/ cmd = "save"          /\ Save

InputControl(cmd, dash) ==
    /\ Control(cmd)
    /\ ExpectNext(dash)
    /\ pc' = "handler" /\ why' = -1
    /\ UNCHANGED <<opt, name, size, dir, entry>>

Input ==
    /\ pc = "input" /\ commands < MaxCommands
    /\ \E dash \in BOOLEAN :
        \/ \E cmd \in {"apply", "edit"} : InputApply(cmd, dash)
        \/ InputNext(dash)
        \/ \E cmd \in Commands \ {"apply", "edit", "next"} : InputControl(cmd, dash)

Quit ==     \* `q', or the end of the input
    /\ pc = "input"
    /\ pc' = "stopped"
    /\ UNCHANGED <<opt, name, walkVars, why, entry, handler, seen, commands>>
-----------------------------------------------------------------------------
\* destroy_ctx(): the frames up to the top of the stack are closed.
Destroy ==
    /\ pc \in {"end", "failed", "stopped"}
    /\ open' = [d \in Dirs |-> IF d \in {stack[n].id : n \in 1 .. top}
                               THEN open[d] - 1 ELSE open[d]]
    /\ pc' = "ended"
    /\ UNCHANGED <<opt, name, stack, size, top, dir, buf, used, allDone, why,
                   entry, handler, seen, commands>>

\* fsck_create() and fsck_handler_create().
Init ==
    /\ opt \in [online : BOOLEAN, recursive : BOOLEAN, readonly : BOOLEAN,
                interactive : BOOLEAN]
    /\ name \in [Items -> 0 .. MaxFaults]
    /\ \A i \in Items \ Wrong : name[i] = 0
    /\ \A d \in Dirs : \A i \in Range(Tree[d]) :
            name[i] \in Taken => \E j \in Range(Tree[d]) : name[j] = 0
    /\ stack = <<Frame(Root, 0)>>
    /\ size = IF opt.recursive THEN StackSize ELSE 1
    /\ top = 1 /\ dir = 1
    /\ buf = <<>> /\ used = 0
    /\ allDone = FALSE
    /\ pc = "next" /\ why = 0
    /\ entry = NoEntry
    /\ handler = [has |-> FALSE, expect |-> FALSE, inhibit |-> FALSE, data |-> NoEntry]
    /\ open = [d \in Dirs |-> IF d = Root THEN 1 ELSE 0]
    /\ seen = Unseen
    /\ commands = 0

Program ==
    \/ Begin \/ Check \/ WalkEnds \/ ListSubdir \/ NextSubdir \/ Getdents
    \/ WalkFails
    \/ HandleEntry \/ HandleDone \/ Apply \/ ApplyFails
    \/ Destroy

Next == Program \/ Input \/ Quit

\* do_fsck() waits for nothing but the user.
Spec == Init /\ [][Next]_vars /\ WF_vars(Program)
-----------------------------------------------------------------------------
(***************************************************************************)
(* Properties.                                                             *)
(***************************************************************************)
\* Types and bounds: no frame lies beyond the stack that was allocated, and
\* no entry beyond the part of the buffer that was read.
TypeOK ==
    /\ name \in [Items -> 0 .. MaxFaults]
    /\ Len(stack) <= size /\ Last \in 1 .. Len(stack)
    /\ used \in 0 .. Len(buf)
    /\ \A n \in 1 .. Last : stack[n].pos <= used
    /\ buf \in Seq(Items)
    /\ allDone \in BOOLEAN
    /\ pc \in {"next", "walk", "handler", "apply", "input", "end", "failed",
               "stopped", "ended"}
    /\ entry \in [id : Items \cup {Root}, faults : 0 .. MaxFaults]
    /\ (pc = "input") = handler.expect \/ pc \in {"stopped", "ended"}

\* Whatever fails and whatever the user skips, a directory is open once while
\* it is on the stack, and none is when the program has ended: fsck_next()
\* closes and opens directories before it stores the top of the stack that
\* fsck_destroy(), SKIP_CHILDREN and RESET go by.
HandlesMatchStack ==
    \A d \in Dirs :
        open[d] = IF pc # "ended" /\ d \in {stack[n].id : n \in 1 .. Last}
                  THEN 1 ELSE 0

\* The directories on the stack share one buffer of entries: what a directory
\* has left in it are its own entries, the last ones that it has read, and the
\* part of its subdirectory begins behind them.
BufferHasOwn ==
    \A n \in 1 .. Last :
        LET f     == stack[n]
            limit == IF n < Last THEN stack[n + 1].start ELSE used
        IN opt.online /\ pc # "ended" =>
                /\ f.start <= f.pos /\ f.pos <= limit
                /\ \A k \in f.pos + 1 .. limit :
                        \E m \in 1 .. f.read : buf[k] = Tree[f.id][m]

\* The directories from the top down to d.
Above[d \in Dirs] ==
    IF d = Root THEN {d}
    ELSE {d} \cup Above[CHOOSE e \in Dirs : d \in Range(Tree[e])]

\* d had to be examined: its name and those above it are valid and not taken, so
\* that it is listed and found, and the user did not skip it.
Due(d) ==
    /\ opt.recursive \/ d = Root
    /\ \A e \in Above[d] \ {Root} : name[e] = 0
    /\ Above[d] \cap seen.pruned = {}
    /\ d \notin seen.skipped

\* When fsck says that it is through, it has examined every name of every
\* directory that was due since the user last said RESET, with whatever
\* commands in between.  (Not the top directory after an offline RESET: see
\* ResetExaminesAll.)
AllExamined ==
    pc = "end" =>
        \A d \in Dirs :
            Due(d) /\ ~(d = Root /\ seen.again /\ ~opt.online) =>
                Range(Tree[d]) \subseteq seen.items

\* `Rewind all' (RESET): the names of all directories are examined again.
ResetExaminesAll ==
    pc = "end" => \A d \in Dirs : Due(d) => Range(Tree[d]) \subseteq seen.items

\* A repair that nobody interrupts leaves no malformed name behind: what APPLY
\* returns goes back to the handler until it can be stored.  (Names that are
\* taken may be left, or made by the repair: see DirHandle!RepairIsDistinct.)
RepairIsComplete ==
    pc = "end" /\ ~opt.readonly /\ ~opt.interactive =>
        \A d \in Dirs : Due(d) => \A i \in Range(Tree[d]) : ~Malformed(name[i])

\* fsck always comes to its end or back to the user: no walk, and no repair of
\* a repair, goes on forever.
AlwaysReturns == []<>(pc \in {"input", "ended"})
=============================================================================
