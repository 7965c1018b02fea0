# Mvpg in TLA+

Specifications of Mvpg, a collection of C libraries: a JSON parser with an
in-memory object store, vectors, an allocator, number formatting and some file
tools. The modules model what the code does, TLC checks them on small
instances, and TLAPS proves the main invariants for every instance.

## The system

| Part | State | Operations | What makes it correct |
|---|---|---|---|
| JSON lexer (`Jparser/parser.c`: `lexer`, `getKey`, `pushToStack`, `popFromStack`) | place in the text (`bf`, `L2`), flags `rswitch`, `objMtch`, `arrMtch`, last `key`, current `obj`, the stack of reserved objects | one pass of the loop per token | every string and object ends up in the object, and under the name, that the document gives it (literals are read and not kept); the stack is the path to the current object; the loop ends |
| Object store (`JsonInit`, `addToJsonObject`, `removeFromJsonObject`, `HashTableToListMap`, `ListMapToHsashTable`) | per object, for each of 11 buckets a head, a tail and a counter; per node a key and two links | add, remove, convert to one list and back | what was added is found until it is removed; no chain of links is a circle |
| Key hash (`getHashKeyFromByte`) | none | a pure function | spreads keys; equal keys, equal buckets |
| File reading (`JsonOpen`, `readfl`) | descriptor, buffer, bytes read | open, stat, read until the end, lex | the text lexed is the text of the file |
| Dump (`dumpbf`) | buffer place and rest, bucket counter | one pass over buckets and chains | every member once, inside the buffer |
| JSON vector (`VEC_create` ... `VEC_delete` in `parser.c`) | a size field of 1 to 4 bytes, its width, the members | create, append, replace, nest, get | the size field counts the members at every width |
| Vector with a capacity (`v_base.h`) | capacity, used, member size, members | create, push, pop, insert, clear, map, shrink, slice, destroy | a stack of as many members as it has cells |
| Vector representation (`v_base.c`, `include.c`) | place in a buffer, bytes used, mask of the last format | format a vector of numbers | complete numbers only, within the buffer |
| Floating point (`v_base.c`) | none | logarithms and powers by series | approximation error |
| Allocator (`memtool.c`) | a distance in front of each block | aligned allocate and free | blocks do not disturb each other or what lies between them, and free gives back what `malloc` returned |
| Old vectors (`backup/backup.c`, `vector.c`, `v_base.c`) | a count of cells, cells, a list of free slots | add, grow, request, remove | what was put in at an index is found there |
| Directory walk (`backup/bin/mvdir.c`, and `backup/c.c` before it) | working directory, stack of open directories, three flags | read an entry, descend, come back | every entry dealt with once, in the directory it is in, or NULL returned |
| Moving files (`backup/bin/mv.c`) | the file system | stat, create, rename | the source ends up at the destination or stays where it was |
| Configuration script (`config/script/config`) | arrays of arguments | parse options | options and values are taken from the right places |

The lexer calls `JsonInit` for every nested object and `addToJsonObject` for
every member of it (through the method `string`, or directly); `JsonOpen` calls
`JsonInit` for the root and `readfl`, which calls the lexer; `dumpbf` walks the
lists that `addToJsonObject` and the two conversions link. `VEC_Repr` goes over
a vector of `v_base.h` with `VEC_map`; that vector takes its block from
`mvpgAlloc`. The walk calls `chdir`, `open` and `readdir` on a file system that
other processes change. The rest of the parts do not call each other.

The code is sequential: no threads, no signals. What is hard in it is calls
that fail half-way (every `malloc`), values that outlive their meaning (the key,
the flags, the counters), a count that is kept in fewer bits than it needs, an
index counted from one pointer and used from another, long sequences of legal
calls on lists whose two directions disagree, and one working directory for a
stack of open ones while others remove and refuse. `PROJECT.json` lists these
places under "hazards".

## Modules

| Module | What it is |
|---|---|
| `ObjectTree` | what building a document promises: a current object, the parent of every object, members. It is the design that `updates/TODO.md` #1 asks for and `updates/thinkBoard` describes |
| `JsonLexer` | `lexer`, one action per branch of its switch and per early return, with the stack and the tree it builds; refines `ObjectTree` |
| `JsonDocument` | what a well-formed document says, read off its text alone: which token may follow which (`WellFormed`), the holder, name and entry of a value |
| `JsonLexerDocs` | the lexer judged by `JsonDocument`, on well-formed documents (`DocumentAssumption`) |
| `JsonLexerProofs` | proofs about `JsonLexer` |
| `JsonDocsProofs` | proofs about `JsonLexerDocs`, and lemmas on the nesting of a text |
| `BucketLog` | what a caller of add and remove sees of a bucket: a log and a counter |
| `JsonStore` | the table of an object with its nodes and links; refines `BucketLog` |
| `JsonDump` | `dumpbf` over the table of `JsonStore`, which it extends |
| `JsonStoreProofs` | proofs about `JsonStore` and `JsonDump` |
| `JsonRead` | `JsonOpen` and `readfl`, with a file that other processes change |
| `JsonReadProofs` | proofs about `JsonRead` |
| `VectorLists` | what the JSON vector promises: lists that grow by one member or have one replaced, untouched by failed calls but for one whose length fills its size field, which may be lost |
| `JVec` | `VEC_create`, `VEC_expand`, `VEC_append` and `VEC_add` with their blocks, size fields and moves; refines `VectorLists` |
| `JVecProofs` | proofs about `JVec` |
| `BoundedStack` | what the vector of `v_base.h` promises: a stack of at most so many members, that counts what is pushed beyond |
| `VecBase` | that vector, with the memory behind its block; refines `BoundedStack` |
| `VecRepr` | `VEC_Repr` and what it calls, over the vector of `VecBase`, which it extends |
| `AlignedAlloc` | `NativeAlignedAlloc` and `NativeAlignedFree`: addresses, sizes, headers, and the bytes of others between the blocks |
| `GrowVec` | the vector of `backup/backup.c` |
| `PreallocVec` | the vector of `backup/vector.c` |
| `VectorsProofs` | proofs about `VecBase`, `VecRepr`, `GrowVec`, `PreallocVec` and `AlignedAlloc`, alone and composed in `MCVectors` |
| `FileTree` | the directories a walk goes through, their names, and what other processes do to them |
| `Traversal` | what a walk promises: each entry of what it lists is dealt with once, or it says that it gave up |
| `DirWalk` | `mvprog_rdpath` of `backup/bin/mvdir.c`; refines `Traversal` |
| `OldDirWalk` | `mvprog_rdpath` of `backup/c.c` with `mvprog_getcwd`; it does not refine `Traversal`, since it may list one directory twice and another never |
| `DirWalkProofs` | proofs about `DirWalk` and `OldDirWalk`, alone and composed in `MCDirWalk` |
| `Recursion` | lemmas: induction over the numbers, and that functions defined by recursion exist |
| `MCJsonLexer`, `MCJsonDocs`, `MCJsonStore`, `MCJsonDump`, `MCJVec`, `MCVectors`, `MCDirWalk` | the instances TLC checks (`JsonRead` needs none) |

`MCVectors` holds four components that share nothing (`VecBase` with `VecRepr`,
`GrowVec`, `PreallocVec`, `AlignedAlloc`), and `MCDirWalk` two; a variable
(`driven`, `walker`) chosen in the beginning says which one a behaviour drives,
and the others stay as they were made.

### JsonLexer

A document is a sequence of tokens and every step reads one, except that
`getKey` and the scan of a literal read on as the code does. Variables:
`base`/`off` are `bf`/`L2`; `flags` is `rswitch` as a set (`OBJ`, `ARR`, `START`,
`KEY`, `VAL` for `MBLK_OBJ`, `MBLK_ARR`, `MBLK_START`, `EXP_KEY`, `EXP_VAL`);
`key` is the position of the last key, so that two keys of the same text stay
apart; `stack` is `OBJ_trace`. `parent` and `adds` are what the heap holds
afterwards: who was opened in whom, and which members were added to what.

A key or a string is one token with its quotes, a literal one token. It is
assumed that neither holds one of the characters that end a literal.

Where C leaves the outcome open, the model has all outcomes:

- `pushToStack` ends without a return on success: its caller may go on or give
  up (`OpenNested`, `OpenNestedPushFails`).
- a value before any key uses an uninitialised pointer, and a pop of an empty
  stack dereferences NULL: `status` becomes "undefined" and the run ends there.
- `lexer` has no return at the end of the text: "end".

`addToJsonObject` adds nothing when the key is empty or `malloc` fails, and the
lexer is not told; both are in `AddToJsonObject`.

### JsonStore

Nodes are numbered in the order of their allocation, 0 is NULL. The add links
the new node back to the tail and does not link the tail to it; the removal
links the neighbours, counts down, and clears both ends when the counter comes
to zero. The counter is a `size_t` (modulo `Sizes`) that `JsonInit` leaves
uninitialised, so that it starts anywhere. `HashTableToListMap` and
`ListMapToHsashTable` are single actions; both dereference the ends of buckets
without asking whether there are any (`ConvertEmptyBucket`).

### JsonRead

A byte of the file is its position in it, so that the buffer shows where its
contents come from. `read` may deliver any part of what is there, be
interrupted or fail; the length of the file may change between any two steps
(`FileChanges`), after `fstat` too. An empty file leaves `rdbytes` unset: its
use as an index ends the run ("undefined"). What the lexer returns is arbitrary
and changes nothing, since `JsonOpen` returns the object in any case.

### JsonDump

Any calls on the table, and then one dump (`pc`). The counter `sztbe` starts
anywhere; from `Buckets` on all values are alike. Indentation and the length of
lines are not modelled, and the buffer is taken to be large enough, as the
comment at `parser.c:829` says the code assumes.

### JVec

The heap is a sequence of blocks: the size in the field of a block, the true
width of the field (`field`), what the byte of meta-data says of it (`width`),
and the cells. `ptrs` are the pointers a caller holds: the vector he created
and those `VEC_add` returned to him; a `realloc` that moves a block changes the
pointer that was passed and no other. One action is one call of `VEC_expand` or
`VEC_add` with everything it calls.

What C leaves open: cells that `malloc` did not fill are `Junk`; a size that is
read with the wrong width is any that the bytes before the block allow
(`SizesRead`); a copy past a block, a cell beyond it, a size read into more than
its four bytes, or a `realloc` of what `malloc` never returned ends the run
(`Break`).

The code asks whether there is room by `(sz + 1) >> (4 << width)`. `sz` has 32
bits, so that from width 3 on (a vector created for more than 65535 members)
the shift has no defined result: `HasRoom` and `NoRoom` are then both possible,
and such a field counts as full from the start. A size field of three bytes is
otherwise taken to hold any size: at the 2^24th member its carry would reach the
meta-data.

### VecBase and VecRepr

The memory behind the block of a vector is modelled as further cells up to
`MaxCells`, which their owners may overwrite at any time (`OthersWrite`): a push
at capacity is not refused by the code (`VEC_INTERNAL_resize` is empty) and goes
there. `VEC_assert` is an abort, and so is the assertion in `mvpgAlloc` where
there is no memory (`memtool.c:103`), for a new vector and for a shrink;
`VEC_slice`, whose copy goes through an uninitialised pointer, and `VEC_map` of
an empty vector, which runs past its end, are "undefined". A shrink to more
cells than there were reads what follows the old block.

`VecRepr` keeps of the buffer which bytes were written, in their order, and by
what: digits matter by their number, which is computed as `strDec` does it (so
that zero has none). `Pp_setup` outlives the call, and a call may skip the
format and take the mask of the last one. The letters of a format are looked up
where the code looks (`Letter`, at 0, 1, 2, 4 and 8), width bits and
fall-through of the switch included. A call leaves the caller's `Pp_fmt` behind
the first letter (`v_base.c:330`), which is what the next call finds; a format
of six letters writes behind the array that takes them (`fc[16]`, line 308:
"undefined"). What follows from that and may surprise a reader:

- the integers of "h1" to "h4" are always written as four byte ones, so that a
  vector of any other member size aborts, though `v_base.c:248-251` lists them
  with sizes of their own;
- "q", "i" and "d" on a call that skips the format find width bits set and index
  a table of one row far outside ("undefined"); so does "z" in a format;
- "p" writes nothing and leaves a mask that the next call reads as "s", "u" one
  that it does not know; "u" prints a negative number as one of 64 bits;
- the first number starts two bytes into the buffer.

### AlignedAlloc

The data of a block start 33 to 64 bytes behind what `malloc` returned, and the
block ends 33 bytes and the size behind it (`BlockEnd`): up to 31 bytes of data lie
behind the end of their block, and of a block of at most 30 bytes the header too.
Between the aligned blocks is what is not theirs (`Foreign`): the books of `malloc`
and the blocks of its other callers. Bytes of theirs that are written are kept by
their distance from the block (`hits`), after which `malloc` may do anything
(`Corrupted`); they in turn write their own bytes (`ForeignWrite`), which is how a
header behind its block is lost. Of the memory it is further kept which headers
still hold the distance written to them. The macro that
`memtool.c` has for a system with neither allocator passes three arguments to a
function of two and does not compile; the model is of the function.

### GrowVec and PreallocVec

`GrowVec` counts cells in a byte (`vCapSize`), modulo `Byte`. The `memset` of a
growth starts `sz` bytes, and not cells, behind the start of the block; `After`
says which cells, and whether the list of free slots in the header, it clears
wholly or in part. A failed `realloc` leaves the caller's pointer at the start of
the block (`shifted`), where every next call reads the header as cells.
`VEC_remove` frees the address behind the one `malloc` returned unless the cell
holds no member.

`PreallocVec` gives `realloc` a number of cells where it wants bytes
(`Reallocated`); a cell put outside what is left is "undefined". `vecAppend`
ends without a return on success, so that the caller may be told either.

Both keep in a history variable what was put where (`held`) and whether the
calls so far were ones the vector bears (`careful`, `dense`).

### DirWalk and OldDirWalk

A file stays where it is and keeps its name; two directories may have entries of
the same name (`Namings`), and a name means the entry of that name in the working
directory (`Named`), whichever stream it came from. Others remove what is empty and
take the permission to read or to enter away (`Others`). `chdir` and `open` succeed
or fail accordingly (`CanEnter`, `CanOpen`, `Refused`); ".." of a removed directory
may lead up, as on Linux, or nowhere (`CanLeave`, `CanFail`). `left` is what each
stream has yet to deliver; a stream that is opened delivers what is there then, and
need not deliver what is removed later (`AtEnd`). One action is one round of the
loop. No stream is closed, so that the streams are also what uses up the
descriptors of the process (`fds`, one of `Limits`). The stack is an array of
`MVPROG_BKSZ` entries whatever `fds` is, and a push behind it is "undefined"
(`Overflow`). A file is printed with the working directory, or with none when that
was removed and `getcwd` returns the NULL that `printf` is given (`lines`).

`rs` and `ts` are the flags of the code: `rs`, the working directory is that of
the stream; `ts`, the last directory was refused and the top of the stack is the
stream itself. Entries whose names start with a dot and have at most two
characters are passed over (`Dotted`), as the code does.

The older walk goes into a directory before it opens one of it, never goes up,
and after its first way back takes the path of the next directory from `$PWD` or
`getcwd`. So it looks names up in directories they are not of, and opens what it
finds there: in a tree `r/a/{b/{c,x},x}` with `$PWD` unset, `x` of `b` is listed
in the place of `x` of `a`, and twice. Streams are therefore numbered in the
order they are opened (`streams`). A directory that may not be read takes one
more stream from the stack than was pushed (`Refusal`, `c.c:174-178`): that
stream is never read to its end (`dropped`), and from an empty stack the depth
wraps (`Wrapped`). Before that the walk calls `chdir` with a pointer that was
never set, which fails or leads anywhere. Three outcomes end in "undefined": a
`$PWD` that fits the buffer (it is copied to `cwd`, which is not set), a stream
taken from below the start of the stack (`Underflow`), and one pushed behind its
end (`Overflow`).

## What is checked

| Run | Instance | Question |
|---|---|---|
| `lexer_any` | every text of 3 tokens (8 kinds and 2 strings), alone or after one of 6 openings up to depth 3; `malloc` may fail | is the structure sound whatever the text says? |
| `lexer_docs` | every document of a grammar: root with one or two members, values to depth 2 below, two elements or members each, strings, literals, empty objects and arrays, empty keys, a newline at any place | is the tree what the document says? |
| `lexer_names` | the same documents | does every string and object with a name keep it? (no) |
| `store` | 2 buckets, 3 keys of which two collide, counters modulo 4, 4 nodes | what do add and remove give their callers? |
| `store_dump` | 3 buckets, 3 keys, counters modulo 2, 4 nodes, conversions at any time, then a dump | are the links sound, and what does a dump write? |
| `store_found` | as `store` | is an added key found? (no) |
| `json_read` | files up to 4 bytes, of any length at any time; `malloc` may fail | which text is lexed, and does `JsonOpen` return? |
| `jvec` | bytes of 3 values, a vector with a field of one byte or of two, 4 blocks, indexes to 8; `malloc` may fail | is a vector a list to its caller? |
| `jvec_nested` | the same, indexes to 2, `malloc` succeeds | does a nested vector keep what it was made for? (no) |
| `vectors` | vectors of 1 or 3 cells in a memory of 4, two member sizes and values, two calls of `VEC_Repr` on 8 formats and what calls leave of them (14 in all) and a buffer of 24 bytes; a byte of 6 values, cells obtained 7 at a time; blocks of 1 and 40 bytes at 5 addresses among bytes of others | do the vectors hold what is put into them, how far does a representation leave its bounds, how far do aligned blocks leave theirs? |
| `vec_map` | vectors of one cell | does `VEC_map` call its function on each member? (no) |
| `dir_walk` | 8 trees of 6 directories, one of them with a dotted name, and a file, with a name of their own each or two directories of one name; three removals or two refusals at any time, 3 or 5 descriptors, a stack of 3 | does a walk deal with every entry once, know where it is, and end? |

What they show:

- Whatever the text and whichever allocation fails, the objects form a tree
  (`MembersFormTree`), the stack is the path from the root to the current object
  (`StackIsAncestry`), an object that was left is never filled again
  (`ClosedIsFinal`), and the stack does what parent pointers would do
  (`BuildsTree`).
- On well-formed documents (`lexer_docs`) the counters are the nesting of the
  text, and what a document that is read to its end leaves behind is known
  exactly (`StoredUnderLastKey`): each string and each object is in its object,
  under the last key before it, which is its name unless the key of an inner
  object stands between; what has an empty key is dropped (`parser.c:409`), and
  numbers, `true`, `false` and `null` are all skipped and never stored
  (`parser.c:774-787`). The lexer refuses exactly the documents with an empty
  object, those with an object of several members in an array, and some with a
  literal that does not follow its colon directly (`RefusedDocuments`); on those
  literals it may also never return (`LiteralsReadAreFirst`, `Returns`). Of
  these the name is contradicted by the repository's own notes, and it is the
  finding of `lexer_names`, which leaves empty names aside.
- To its callers a bucket is a log of which only the first key can ever be
  removed, again and again, until the counter happens to be zero and the whole
  bucket is dropped (`KeepsLog`). So the second key of a bucket "does not
  exist", which is the finding of `store_found`.
- Through all of that, and through the conversions, no chain of links is ever a
  circle (`LinksOrdered`) and the ends of a bucket are NULL together
  (`EndsMatch`).
- A dump ends after any calls (`DumpReturns`, which needs `LinksOrdered`) and
  writes the chain of the first bucket and then those from some bucket on, the
  first again where the counter starts at 0 (`WritesChains`).
- The text that is lexed is the last piece that was read, never bytes of two
  reads (`TextIsLastPiece`): it is the file only where one `read` delivered it
  all. After an interrupted read the loop ends by an error or not at all, since
  `errno` is cleared only before it; that is why `Returns` excepts it, and why
  the -1 in `rdbytes` is never used as an index (`TerminatorInside`).
- A vector of the JSON parser, read with `VEC_getSize`, is a list to its caller,
  through replacements, nested vectors and moves, and a call that returns NULL
  leaves it alone (`KeepsLists`), until its length fills its size field. The
  next append then either fails after it has changed the width, so that the size
  is read from the wrong bytes from then on and the list is lost although the
  call returned NULL (`parser.c:245, 251`), or writes past the new block
  (`BreaksOnlyWhenFull`, `MembersHaveCells`): in the code that is the member
  after the 255th. The caller's own pointers follow every move
  (`PointersFollow`); the address of a nested vector that its parent holds does
  not. The first append to a nested vector overwrites its data, which is the
  finding of `jvec_nested`.
- The vector of `v_base.h` is a stack of as many members as it has cells,
  however often it is overfilled and whoever writes behind its block
  (`KeepsStack`): only what was pushed beyond is lost. `VEC_map` leaves the last
  member out, which is the finding of `vec_map`, so that a representation lacks
  the last number.
- A number is written behind the buffer by at most as many bytes as the commas
  have moved the buffer pointer, and its NUL by one more (`OverrunBounded`), as
  long as no format is "u", whose twenty digits the check for room does not
  expect. Digits of two numbers never touch, and a comma does not lie over the
  number before it (`NumbersApart`); it may lie over earlier ones.
- Data of the aligned allocator leave their block: the sum that `malloc` is
  asked for leaves out that the address is moved up twice, whatever the comment
  at `memtool.c:53` says of worst cases. `BlocksApart` says how far: at most 31
  bytes of others are written, the books of `malloc` among them, in which case
  nothing is known of it any more. Aligned blocks do not write over each other,
  since what is next has moved its own data up as well; and only the header of a
  block of at most 30 bytes can be written over by others, without which `free`
  gets what `malloc` returned.
- The two older vectors keep their members while used as they bear it
  (`GrowKeepsMembers`: each index the next one, below the values of a byte, no
  failed growth, no removal; `PreallocKeepsMembers`: no member beyond the cells
  first obtained). A vector of `backup.c` believes that it has more cells than
  it has only after a removal (`OnlyRemovalsOverrun`).
- While others remove and refuse, the stack of the walk is the path from the
  root (`StackIsPath`), its two flags always say where the process is
  (`CwdFollowsStream`), each entry of what it lists is dealt with once or NULL
  is returned (`WalkTraverses`), and it ends (`NewWalkEnds`). A file may be
  printed from the directory above its own, as the walk enters a directory only
  when it has to, and without a path when that one was removed. Of the older
  walk less is true (`OldWalkAccounts`): when it ends without NULL it has read
  each stream to its end that a refusal did not take from it. Which streams
  those are is another question. Where no two directories have one name, none is
  listed twice, and each directory found in what was read to its end was listed,
  refused or removed; with two of one name neither holds.

### Bounds

`Cap` bounds the nesting counters and the objects. A text of n tokens opens at
most n objects, so for texts that are read once it is no restriction; it cuts
off only the loop in which a literal makes the lexer read the same brackets
forever. `MaxLength` only bounds the length of texts. Depth 3 is enough for a
grandparent, the first case in which "the object below the top" and "the root"
differ; two members are enough for a comma and for what follows an inner
object. `MaxNodes` is the number of nodes ever allocated: three in one bucket
give a head, a tail and one in the middle, and the fourth is a neighbour.
`Sizes` is small so that the counter wraps within the run; nothing depends on
its value otherwise, and the proofs are for any.
Files of four bytes come in up to four pieces, and one that shrinks and grows in
more. A byte of three values (`Byte`) makes a size field of one byte full at two
members and one of two bytes at eight, so that both boundaries are within the
run; `MaxIndex` is eight so that an append is possible at every size. Four
blocks (`MaxBlocks`) are a vector, a nested one with its data, and a block to
move to.

In `vectors`, a capacity of 3 in a memory of 4 cells (`MaxCells`) leaves one
cell of others', and one of 1 three, so that a push beyond and a shrink to more
cells than there were both happen; members are zero and a number of eleven
characters, the shortest and the longest of four bytes. Two calls of `VEC_Repr`
(`MaxCalls`) are the first one and one that uses its mask; in 24 bytes
(`Pp_size`) the room ends in the middle of the second. The formats lead to
integers of both member sizes and to branches that write nothing or abort, and
one has six letters; all that calls leave of them is given as well
(`FormatAssumption`). A byte of 6 values makes the count of a growing vector
wrap at index 5; the indexes include the next one, one further, and those around
the boundary. Seven cells at a time (`AllocSz`) and words of 4 bytes make
`realloc` come out with fewer cells than there were, as 1024 and 8 do; `MaxSize`
goes two beyond. The addresses are ones at which data start 33, 55, 62, 63 and
64 bytes behind what `malloc` returned, and at which blocks are adjacent (34 and
73 bytes are obtained for 1 and 40) or leave room for others in between; the
theorem is for all.

In `dir_walk`, three directories below the root, one in the other, are the least
in which a stream is pushed over others and comes back twice; a tree has
siblings at each level. With three descriptors (`Limits`) none of the trees can
be walked to its end as it is, with five each but for the directory with the
dotted name, which is passed over. A stack of three (`MVPROG_BKSZ`) is left by
the deepest tree with five descriptors and not with three. The two directories
of one name (`MCNamings`) are in different directories in every tree. A removal
counts two and a refusal three of `MaxChanges`, so that it allows three removals
or two refusals: a refusal on the way down and one on the way back, and a
directory emptied from below and removed around the walk. `PwdSizes` are unset,
fitting the buffer (`BufSz`) and too long.

### Fairness

`FairSpec` of `JsonLexer` is weak fairness of the whole next-state relation: the
loop is one thread of straight code that waits for nothing, so that it takes a
step whenever it can. Only `Returns` needs it. In `JsonRead` fairness is for the
program's own steps and not for an interruption or an error of `read`, which
nothing forces to happen. In `JsonDump` it is for the steps of the loop. In
`DirWalk` it is for the walk's own steps, as the process is scheduled whatever
the others do; nothing forces the others to do anything. The refinements
(`BuildsTree`, `KeepsLog`, `KeepsLists`, `KeepsStack`, `WalkTraverses`) and the
invariants are safety and need none.

## What is proved

TLAPS proves, for all values of the constants under the named assumptions of
the modules:

- lexer: `LengthAssumption`, `DocAssumption`, `MallocAssumption`,
  `CapAssumption`
- documents: those of the lexer, and `DocumentAssumption`: the texts are
  well-formed (`WellFormed`), which says of neighbouring tokens what may follow
  what, and of the whole that it is in the braces of one root and that brackets
  close brackets. TLC checks it of every document of the grammar
- reading: `MaxLengthAssumption`, `MallocAssumption`, `JunkAssumption`
- store: `BucketsAssumption`, `HashAssumption`, `SizesAssumption`,
  `MaxNodesAssumption`
- JSON vector: `ByteAssumption`, `CreateAssumption`, `FailAssumption`,
  `BlocksAssumption`, `CellAssumption`
- vector with a capacity: `MemberAssumption`, `DTypeAssumption`,
  `SizeAssumption`
- allocator: `AddressAssumption`, `SizeRangeAssumption`
- representation: `SetupAssumption`, `FormatAssumption` (what follows the first
  letter of a format may be given as well), and `NumberAssumption`: a member of
  two, four or eight bytes is a number in that range (`Fits`, which divides,
  since TLC has no integers of 64 bits)
- older vectors: `GrowAssumption` and `PreallocAssumption`: a byte has two
  values, vectors are created with sizes that fit one, cells are obtained two at
  a time and a word has two bytes at least, and no member or slot is NULL
- walks: `NodeAssumption`, `TreeAssumption`, `NamingAssumption` (no entry is
  named "."), `LimitAssumption`, `StackAssumption`, `OldWalkAssumption`

| Theorem | Statement |
|---|---|
| `TypeCorrect` | `Spec => []TypeOK` (lexer) |
| `Ancestry` | `Spec => []StackIsAncestry` |
| `TreeShape` | `Spec => []MembersFormTree` |
| `ClosedStaysClosed` | `Spec => ClosedIsFinal` |
| `StackImplementsParents` | `Spec => BuildsTree` |
| `NestingFollowed` | `Spec => []NestingIsFollowed` (`JsonLexerDocs`) |
| `EndedHaveLiteralsFirst` | `Spec => []LiteralsReadAreFirst` |
| `RefusalsAreKnown` | `~MallocMayFail` implies `Spec => []RefusedDocuments` |
| `StoredIsKnown` | `~MallocMayFail` implies `Spec => []StoredUnderLastKey` |
| `StoreTypes` | `SpecAll => []TypeOK` (store) |
| `EndsAgree` | `SpecAll => []EndsMatch` |
| `LinksAreAcyclic` | `SpecAll => []LinksOrdered` |
| `TableIsLog` | `Spec => KeepsLog` |
| `DumpTypes` | `SpecDump => []DumpTypeOK` (`JsonDump`) |
| `DumpWritesChains` | `SpecDump => []WritesChains` |
| `ReadTypes` | `Spec => []TypeOK` (`JsonRead`) |
| `TerminatorIsInside` | `Spec => []TerminatorInside` |
| `LexesLastPiece` | `Spec => []TextIsLastPiece` |
| `JVecTypes` | `Spec => []TypeOK` (`JVec`) |
| `EveryMemberHasACell` | `Spec => []MembersHaveCells` |
| `OnlyFullBreaks` | `Spec => []BreaksOnlyWhenFull` |
| `PointersStayLive` | `Spec => []PointersFollow` |
| `VectorsAreLists` | `Narrow` implies `Spec => KeepsLists` |
| `VectorTypes` | `BaseSpec \/ Spec \/ MCSpec => []BaseTypeOK` (`VecBase`) |
| `VectorIsStack` | `BaseSpec \/ Spec \/ MCSpec => KeepsStack` |
| `NumbersStayNear` | `Spec \/ MCSpec => []OverrunBounded` (`VecRepr`) |
| `NumbersLieApart` | `Spec \/ MCSpec => []NumbersApart` |
| `GrownKeepTheirMembers` | `G!Spec \/ MCSpec => []GrowKeepsMembers` (`GrowVec`) |
| `RemovalsOverrun` | `G!Spec \/ MCSpec => []OnlyRemovalsOverrun` |
| `PreallocatedKeepTheirMembers` | `P!Spec \/ MCSpec => []PreallocKeepsMembers` (`PreallocVec`) |
| `AllocatorIsBounded` | `AllocSpec \/ MCSpec => []BlocksApart` |
| `PartsAreAlone` | `MCSpec` implies the specification of each of its four parts |
| `WalkTypes` | `Spec \/ MCSpec => []WalkTypeOK` (`DirWalk`) |
| `StackStaysPath` | `Spec \/ MCSpec => []StackIsPath` |
| `CwdIsKnown` | `Spec \/ MCSpec => []CwdFollowsStream` |
| `WalkIsTraversal` | `Spec \/ MCSpec => WalkTraverses` |
| `OldWalkIsAccounted` | `O!Spec \/ MCSpec => []OldWalkAccounts` (`OldDirWalk`) |

`MCSpec` is the composition that TLC checks. It is itself within the theorems
because a step of it is a step of one part that the others do not see
(`PartsAreAlone`), or see as files removed and refused (`WalkAlone`,
`OldWalkAlone`).

Recursion. Lists are read along links (`LogOf`, `Chain`), and text is written
member by member (`Texted`), by recursive functions. To the provers such a
function is a CHOOSE of one that satisfies its equation, so that what is known
of it begins with a proof that there is one. `Recursion` has that proof, for
functions of numbers and for functions that go from each point to a parent of
less height (`RecursionByParent`), and induction (`Induction`,
`InductionBelow`), all stated with sets in the place of predicates and derived
from the well-foundedness of the numbers.

The lexer. `TypeOK` is inductive because it says more than types: an object is
older than those opened in it (`parent[n] < n`) and every object named was
made. Lemma `TreeSteps` sorts the twenty-one actions by what they do to the
tree (nothing, add a string, enter, abandon, leave), and the other proofs have
one case for each of these five, not one for each action. `StackIsAncestry` is
inductive with `TypeOK`: entering appends the new object, whose parent is the
last of the path, and leaving drops the last. The refinement of `ObjectTree`
needs it, since the pop gives the top of the stack where `ObjectTree` takes
the parent. `MembersFormTree` needs only `TypeOK`: a new object is a number no
member has. `ClosedIsFinal` is a step property from `TypeOK`: only the current
object is added to, and what becomes current is new or was on the stack.

The documents. First, of any well-formed text: the braces that are open at a
place have the levels 1, 2, ... up to the number of those open, the later the
deeper, and so have the brackets (`KindsNest`), since a bracket closes a
bracket. So the innermost open brace is the one of the present level, which is
how a path of objects can be compared with `Holder`. Then the inductive
invariant `DocInv`: while the lexer runs it is in one of two situations. Either
it is `Sane`: counters, path and number of objects are the nesting of what was
read (`Nests`), what it expects is what the last token lets follow (`Fits`), the
key is the last one before the place (`Keys`), `bf` has nothing but brackets,
commas and blanks between it and the place (`Bases`), no empty object and no
late literal was passed (`Passed`), and what was read is in its place
(`Entries`). Or it is `Stuck` in front of a literal that does not follow its
colon: `bf` is at a character that ends a value, so that the scan of the literal
goes back to it, and nothing up to the literal moves `bf`. From there no step
leads to the end of the text or back to `Sane`, whatever the counters come to.
In both the stack has a frame for each object the counter says is open
(`Frames`), which is why no frame is popped that is not there. A key is taken
for a string just when members stand in an array, and is refused at its colon.
The theorem on what is stored needs both directions: `Entries` says of what was
read that it was stored if it is a string or an object with a key that is not
empty, and of the members that they are of that kind only. It and the one about
refusals assume that `malloc` does not fail: a member that was not added is
missing, and a push that fails ends the run.

The store. The inductive invariant `Inv` is `TypeOK /\ EndsMatch /\
LinksOrdered`. None of the three is inductive alone: the links a conversion
writes are the ends of buckets, so that their order follows from `EndsMatch`,
and a removal copies links of one node to another, so that order follows from
the transitivity of `LinksOrdered`. The proof has one lemma per operation.

The log. To implement `BucketLog` the table needs `LogInv`: besides `Inv`, that
without conversions no node has a next one, that the link to the previous one
stays in the bucket, and that it never leads past the head (`LogLinks`). So the
list read backward from the tail ends at the head. An add puts a larger node behind
it, so that the list read along the links is the one read before and one more
(`RecursionByParent` gives the list, `Induction` that nothing below the new node
has changed); a removal either leaves the links that are read alone or drops the
whole bucket.

The dump. `DumpInv` says in the loop what was written so far: the chain of the
first bucket, the chains from some bucket on to the one before the present, and
of the chain it is in the part before the present node, so that what was written
with what is still to be read is a concatenation of whole chains (`Progress`).
A chain is what is read along forward links; it is finite since `LinksOrdered`
lets them lead to later buckets only.

The representation. `ReprInv` is about the list of what was written where: each
number ends at most two bytes behind the buffer pointer and what is used
(`TextInv`), which is where the next one begins at the earliest, as a comma
moves the pointer by two bytes and is written where it was. That the room tested
for is enough (`TextFits`) is the lemma on digits: `MvpgInclude_Itoa` counts
them by dividing by ten until nothing is left, and of a number within `Fits`
there are fewer than the `overflw` that is tested. "u" is excepted, since a
negative number read as unsigned has twenty.

The reading. `Inv` adds `Pieces` to what is to be proved: until `errno` says
EINTR the buffer starts with the last piece and `rdbytes` is its length, and
the loop does not end normally once it does.

The JSON vector. The inductive invariant has two parts. `Heap`: every live block
that is a vector is good, that is its size is at most its cells, its members
were set, its meta-data is wrong only where the field is full, and it has fewer
cells to spare than would fill the field. `Pointers`: each pointer of the caller
is to a live vector of its own. `MembersHaveCells` alone is not inductive: a
size that is misread is used as an index, and only because the spare cells are
few does a misread size never reach one (lemma `PutIsMember`). Every operation
is a call of `ExpandIn` in a heap that extends the one before by blocks the
caller has no pointer to, so that the cases of `VEC_expand` are proved once. A
vector is lost (`LostOnes`) just where its meta-data is wrong; there its field
is full, which with `Heap` says that its length is one that fills it, so that
the step that made it so is a `Lose` of `VectorLists`, and what is added to it
later an `AddLost`. `VectorsAreLists` assumes `Narrow`: vectors are created for
fewer than `Byte^2` members, so that no shift is undefined. The repository calls
`VEC_create` with 1 only.

The vector of `v_base.h`. The cells are what others and overfilling leave there;
what matters is that the first `Least(used, cap)` are members. A representation
reads the vector and changes nothing of it other than its status (`ReprReads`),
so that the theorems are about the vector alone (`BaseSpec`), with its
representation (`Spec`) and in the composition. A shrink is the one step whose
image is not an update at one place: the new members are the old ones that still
fit, followed by whatever was read behind the block where more had been pushed.

The older vectors. Both invariants say where the members are: in the first cells,
one for each index. In `GrowVec` the count of a vector used with care is the
number of its cells, since a growth to the next index clears nothing and the
count does not wrap; otherwise, while the list of free slots is empty, the count
is at most that number. In `PreallocVec` the first cell is NULL just as long as
nothing was put in, and of the bytes that the next `realloc` asks for a word of
two bytes or more makes at most `AllocSz` cells, so that the member behind them
leaves the block.

The allocator. The inductive invariant says that each live block ends before the
next starts, as `malloc` promises, that a header holds the distance that leads back
to its block unless it lies behind that block, and that bytes of others were written
at most 30 bytes behind the first one after a block. The arithmetic is that data
start 33 to 64 bytes above the block's start and end at most 31 bytes behind the
block, while the header of the next block lies at least 31 bytes above its start.
Others write only what is in no block, so that a header inside its own block is out
of their reach.

The walk. The inductive invariant joins seven parts. `TreeOK` gives the tree
its shape; each entry of the stack has taken a descriptor (`Streams`), so that
the depth stays below `fds` and the stack is left only where that is larger than
`MVPROG_BKSZ`; `Listed` says that only opened directories have entries
left and that these are their own; `Flags` relates `rs`, `ts` and `dir`;
`StackIsPath` and `CwdFollowsStream` need each other, as the stack says which
directory ".." of the working directory is, and the working directory which
names are found. That the walk is done only when nothing is left follows from
the path: a stream that is open and not at its end is on the stack.

The older walk. Where its process is remains unknown, and the invariant (`OldInv`)
does without it. Any names: a stream that has something left is the one that is
read, on the stack, or dropped (`OldRead`). Where no two directories have one name,
what a name leads to is the directory whose entry was read, wherever it is looked
up, or nothing. Then a stream holds entries of its own directory of which none has a
stream yet, since a directory gets its stream after the one it is in (`OldOnce`);
and each directory that is found in a stream is still to be delivered by it or has
a stream (`OldKnown`), unless it was refused or removed.

Every invariant, action property and refinement that a passing run checks is thus
a theorem. Only model-checked are the liveness properties: `Returns` (of
documents and of reading), `DumpReturns` and `NewWalkEnds`. Liveness under
fairness, and ENABLED with it, is out of the prover's reach.

## Not modelled

- The text inside keys, strings and literals, and with it the two terminating
  zeros that are written past the copies (`parser.c:722, 745`): the model has
  tokens, not bytes. The value of a member: no link depends on it. Error
  messages, indentation, and the room in the buffer of the dump. Frames and
  objects that are never freed: memory that is lost changes nothing else.
- `getHashKeyFromByte`: a pure function. What is proved about the store holds
  for every hash.
- The getters of the JSON vector and the macros of `v_base.h` that change
  nothing; `VEC_del` and `VEC_popi`, which do not compile as they are called;
  `VEC_append` and `VEC_sort`, which are empty.
- The digits a representation writes, and floating point: `VEC_Repr` aborts
  before it would call `reprfloat`, and approximation in doubles is out of
  TLC's reach.
- The branches of `memtool.c` that call `posix_memalign` or `aligned_alloc`,
  which are the C library's, and a build with NDEBUG.
- In the walks: directories that are moved, entries that are created, paths
  longer than a buffer. The number parsing of `c.c`.
- `backup/bin/mv.c` and `backup/v_base.c`: both use names that are declared
  nowhere in the repository and do not compile. `_mvTwoFiles` reads the `stat`
  of the destination where it has failed, and `VEC_resize` the old size through
  a pointer it has already moved; what they would do is not determined by the
  source.
- The configuration script, a pure function of its arguments; the experiments,
  sketches of single calls; the web pages.

`PROJECT.json` has the same by component.

## Plan

What is left, in this order:

1. `JsonHash`: the key hash modulo 2^32 against a reference, over bounded keys.
2. A model of keys as bytes, for the terminating zeros behind the copies.
3. `mv.c` and `backup/v_base.c`, once they compile.
