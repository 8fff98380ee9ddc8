# Verification of libconvd

libconvd is a small C library that converts text from one character encoding to
another on top of `iconv`. Its heart is `convd_t`, a reference counted
descriptor that several threads may share; on top of it are the conversion of a
text in memory, of a file, and of XML texts and files whose head names the
encoding. This directory holds TLA+ modules translated from the C source, TLC
configurations that check them on small instances, and proofs that TLAPS checks.

All paths below are relative to the root of the repository; `src/convd/convd.c`
is written `convd.c`.

## 1. Inventory

| part | state | operations | talks to |
|---|---|---|---|
| descriptor `convd_t` (`convd.c`, `convd_i.h`) | `cd`, suffix, the two codes | `convd_create`, `convd_retain`, `convd_release`, `convd_config`, `convd_conv_text`, two getters | refcobject, its lock, `iconv` |
| reference counted object (`refcobject.h`, `uatomic.h`) | count, lock, finalizer, block | new, inc, dec, lock, unlock | `convd_cleanup_cb` as callback |
| read-write lock (`thread_rwlock.h`) | `pthread_rwlock_t` | init, uninit, acquire, release | - |
| file conversion (`convd_conv_file`, `ucs_file_read_*`) | `convpos_t`: file position, offset, byte order mark, line buffer | open, next chunk, close, the loop | descriptor, file API, byte order, mark detection |
| mark detection (`UCS_text_detect_bom`, `UCS_file_detect_bom`) | none | one pure function and its wrapper | - |
| file API (`misc.h`) | descriptors, files | exclusive create, open, seek, read and write loops | the system |
| configuration search (`misc.h`) | up to four buffers | `find_config_pathfile`, `get_proc_abspath` | string buffer, file system |
| byte order (`bo.h`) | none | to and from host order, bits | - |
| XML head (`XML_text_parse_head`, `conv_xmlhead_format`) | 128 byte buffer | scan, parse, format | mark detection, byte order |
| XML conversion (`convd_conv_xmltext`, `convd_conv_xmlfile`) | none | one call each | XML head, text and file conversion |
| string buffer (`cstrbuf.h`) | a growing buffer | new, append, truncate, copy, push | memory |
| string functions (`cstrbuf.h`) | none | trim, find, compare, split, replace, numbers, lines, timestamps | C library |
| time (`timeut.h`) | none | calendar, zones, differences | C library |
| tool `codeconv` | its options | one descriptor, one conversion | descriptor, XML, file conversion |
| log, memory and JNI helpers, Windows support, protothreads | little or none | - | - |

What is hard in this code, and what makes each part correct:

* **Descriptor.** Threads race on the count, on the lock and on the state that
  `iconv` keeps inside `cd`. Correct means: the count is the number of
  references held; nobody uses what was freed; exactly one thread destroys the
  object, once; a conversion is not disturbed by another or by a change of
  settings; an error path keeps neither the lock nor the memory; and, seen from
  outside, every call takes effect at one instant.
* **File conversion.** A text is cut into chunks at places the text itself
  chooses, the file position and the offset are two copies of one number, every
  system call may fail, and the result and the chunk length share one integer.
  Correct means: success implies that all of the input was converted, in order
  and once; a chunk border never changes the meaning of the text; every path
  closes both files and frees the buffer; the loop ends.
* **XML.** The head is scanned into a buffer of fixed size and its length becomes
  an offset for the file conversion: the scan must end and the offset must be
  the right one; no text is converted from an encoding it does not declare; the
  new head and the text share the caller's buffer.
* **String buffer.** Lengths, capacity and terminator must agree after any
  sequence of calls, at the boundary of a block above all, and the client must
  see nothing but the text it wrote.
* **Configuration search.** A buffer is cut, reused, handed on or freed on seven
  ways out: the first place that has the file wins, and nothing leaks.
* **Pure helpers.** Boundaries: an exact fit, an empty part, a negative zone, the
  last day of February. A wrong helper is seen only by relating it to another.

`PROJECT.json` lists every hazard at its line with the properties that watch it.

## 2. Modules

| module | what it is |
|---|---|
| `ConvdAbs` | what a shared descriptor promises: atomic calls, no lock, no count |
| `Convd` | the descriptor, its count, its lock and `iconv` state, step by step; properties, inductive invariant, refinement mapping, faulty variants |
| `ConvdProof` | the inductive invariant, the safety properties, and that `Convd` implements `ConvdAbs`, proved |
| `MCConvd` | `Convd` on small instances |
| `ConvFile` | `convd_conv_file` over bytes, with failing system calls and several callers |
| `ConvFileProof` | its inductive invariant and all its safety properties, proved |
| `MCConvFile` | input files and encodings for TLC |
| `ConvXml` | `XML_text_parse_head` and its file form, `conv_xmlhead_format`, `convd_conv_xmltext`, `convd_conv_xmlfile` |
| `ConvXmlProof` | its inductive invariant and all its safety properties, proved |
| `MCConvXml` | heads and lengths for TLC |
| `CstrbufAbs` | what a string buffer promises: a text, and calls on it |
| `Cstrbuf` | the buffer with block, capacity, terminator and left over bytes; refinement mapping |
| `CstrbufProof` | its safety properties and the refinement, proved |
| `ConfigPath` | `find_config_pathfile` on top of the operations of `Cstrbuf` |
| `ConfigPathProof` | its inductive invariant and both its properties, proved from the lemmas of `CstrbufProof` |
| `MCCstrbuf` | both for TLC |
| `Least` | least and greatest elements of sets of numbers: induction for the proofs |
| `Cstr`, `CstrParts` | string functions as operators: editing, searching, comparing; splitting, replacing, numbers, lines |
| `DateTime` | the timestamps of `cstrbuf.h`, and `timeut.h` |
| `ByteOrder` | `bo.h` |
| `CodeConv` | the tool, the names and the block of `convd_create`, the message of `emerglog.h` |
| `MCHelpers` | inputs for the modules of operators, and the laws they are checked against |
| `HelpersProof` | the laws of `ByteOrder` and of `cstr_compare_len`, proved for inputs of any length; the calendar of `DateTime`, proved for every year |
| `PartsProof` | searching, splitting, replacing and the bounded copies, proved for texts of any length |

### Convd and the code

A handle is a client variable of type `convd_t`; `holder[h]` is the thread that
owns the reference in it. The documented contract is in the guards: a thread
calls the library only with a handle it owns, and owns one handle per
`convd_create` or `convd_retain`. `Handoff` is the client passing a reference on.

| action | code |
|---|---|
| `Create`, `CreateOpen`, `CreateFail` | `convd_create`: `refc_object_new`; `iconv_open` succeeded; a bad suffix or `iconv_open` failed, `refc_object_dec` follows |
| `Retain`, `Release`, `DecSub` | `refc_object_inc`; entry of `refc_object_dec`; its atomic decrement and test |
| `Final`, `Uninit`, `Free` | the finalizer `convd_cleanup_cb`, `RWLockUninit`, `mem_free`, one step each |
| `Lock`, `Unlock` | `refc_object_lock(cvd, 0)`, `refc_object_unlock(cvd)` |
| `ConvText` ... `IconvDone` | `convd_conv_text`: entry, the resetting `iconv` call (may fail), one unit inside `iconv`, `iconv` failing, the return with `blen = 0` |
| `Config`, `Ctl` | `convd_config` with `iconvctl` (the branch built with libiconv >= 1.8; the other one does nothing) |

`iconv` is external. Its state is modelled as the sequence of units it consumed
since the last reset, and an output unit as the triple of settings, state and
input unit. Every stateful encoding is an image of this one, so a reset that is
missing, a unit of another thread or a change of settings half way is visible in
the output. One object is followed at a time; after it was freed the model may
create another, so that a stale reference would be noticed. A code whose length
is wrong makes `convd_create` return before anything is allocated; this changes
nothing and has no action.

### ConvFile and the code

The input is a sequence of bytes; the output is the sequence of input positions
it was made from, 0 standing for a byte that is not of the input. Each step is one
call of the file API or of `convd_conv_text` with the code up to the next one:
`Start`; `OpenFail`, `OpenAsk`, `ReadOpen` (`ucs_file_read_open`); `CreateOut`,
`CreateOutFail` (`file_write_new`); `WriteHead`, `WriteHeadFail`; `ReadChunk`,
`ReadEnd`, `ReadInsufficient`, `ReadFail`, `ReadSeekFail`
(`ucs_file_read_next`); `Convert`, `ConvertFail`; `WriteChunk`,
`WriteChunkFail`; `Finish`. `RemoveOut` is the client deleting the output file.
`Faults` selects which system calls may fail in a run. `ChunkLen`, `SameBit7`,
`Insufficient` and `HostOrder` are the `switch` of `ucs_file_read_next`, for a
little endian host.

`CONVD_ERR_INSUFF` is 5 and the loop continues on any positive result, so
`ReadInsufficient` hands five bytes of the buffer to `iconv`, leaves the offset
where it was and the file position behind the buffer, exactly as the code does.
If the buffer is shorter than five bytes, the rest comes from the output buffer
behind it: those bytes are 0 in the model and `iconv` may take or refuse them.

The comment at `convd.c:434` says that a chunk ends at a newline and that the CR of
CR LF is taken away. The code does neither: run `conv_file_lines` shows the first;
as to the second, no byte is removed anywhere, `ChunkLen` and `Faithful` treat CR as
any other byte, and the files of the runs need none. `*outfilesize` is the number of
bytes converted, without the head that was written before them (`convd.c:654`), as the
last conjunct of `Faithful` says; `convd_api.h:224` calls it the size of the file.

The main simplifications: a chunk is converted in one step, which is what
`ConvdProof` proves of `convd_conv_text`; the output of a chunk is not
shorter or longer than it, since only its origin matters; the seek over
`inoffset` succeeds (`lseek` on this descriptor refuses only offsets out of range).

### ConvXml and the code

A text is a sequence of tokens (`<?xml `, one attribute, `?`, `>`, other text)
with a mark; `Weight` gives their lengths, so that every length, and the bytes
of each width, are those of the code. The scan cuts a wide character to its low
byte (`convd.c:195`), and so do the tokens: `>` also stands for U+013E, and a
"head" may be a look-alike in such characters. No character has the low byte NUL. `ScanToken`, `ScanEnd` and `ScanSpin` are
the five loops of `XML_text_parse_head`, which differ in `Unit` only: a round that
reads, the end of the input, and a round that does neither because the buffer is
full. `Parse` is what follows the loops; `ParsedHead` is what the copies leave in
`*xmlhead`. `StartText` and `StartFile` are the two
callers (112 bytes are read of a file; `OpenFile` and `ReadFile` are the failures),
`CheckEncoding`, `NewTextHead`, `NewFileHead`, `NoXmlFile` the early returns and the
new head, `ConvText` and `ConvFile` the conversions, by their results: modules
`Convd` and `ConvFile` have their inside. `StartFormat` is a client that formats
a head and parses it.

Facts about the code that the model keeps and the properties step around:

* The value of `version` is copied without a bound (`convd.c:277`) into
  `version[16]`, in front of `encoding[64]`. The versions of the model differ in the
  length of their values (`Versions`): one of 16 characters has no NUL of its own,
  so that `conv_xmlhead_format` prints it together with the encoding
  (`PrintedVersion`); from the 17th character on it is the encoding too (`RunsOn`),
  if no encoding attribute follows. So a text that declares no encoding passes
  the test of `convd_conv_xmltext`: `OnlyDeclared` says that no other does, and run
  `conv_xml_version` shows this one. A version of 80 characters or more is copied
  beyond the struct, into variables of the caller; `ParseOverrun` stops there, and
  `EventuallyReturns` has the condition `InStruct`.
* A version of one character is left out (`convd.c:276`), which `FormatThenParse`
  states.
* The head length of `XML_file_parse_head` includes the mark, and
  `convd_conv_file` skips the mark again (`convd.c:744`): from a file with a mark
  as many bytes behind the head are lost. `ConvertsBehindHead` covers files
  without a mark.
* If 127 characters hold no `>` and the text goes on, the loop at `convd.c:194`
  neither reads nor ends, where `convd_api.h:178` says that the function returns 0.
  `EventuallyReturns` has the condition `InReach`.
* A head that does not fit the caller's buffer is left out without an error
  (`convd.c:698`); `convd_api.h:258` says the head is replaced. A target outside
  the five names known at `convd.c:699` gets no head.
* A UTF-32 file with an encoding in its head needs more than the 112 bytes that
  are read (`convd.c:307`), so `convd_conv_xmlfile` refuses it. That function does
  not compare the declared encoding with `fromcode`, and ignores `addbom`.

### Cstrbuf, ConfigPath and the code

Every operation of the buffer is an operator from the buffer to the buffer the
caller has to use from then on, `Junk` a byte that `malloc` or `realloc` left.
`BufNext` is a client with one buffer who makes any legal call. `cstrbufPushBack`
writes no NUL on its fast path; the model keeps that, and `TerminatesText` is
about what the other calls leave. `ConfigPath` follows `find_config_pathfile`
probe by probe and counts the blocks that are allocated. An empty `cfgpath` or
variable is excluded: the code looks at the character in front of it
(`misc.h:518`, `588`).

### Operators

`Cstr`, `CstrParts`, `DateTime`, `ByteOrder` and `CodeConv` hold one operator per
C function. A string is the sequence of its characters; pointers into it are
offsets; identity of pointers is kept for `NULL` only. A few facts that the
operators keep:

* `__endianess.f` lies over `c[0]`, so every host counts as little endian
  (`bo.h:116`).
* `cstr_replace_new` never ends for an empty pattern (`cstrbuf.h:410`; excluded).
* `cstr_Rtrim_chr` keeps one character of a string of nothing else;
  `cstr_isnumeric` takes `+` and `.` for numbers; `cstr_compare_len` without
  lengths is `strcmp`, although its note 2 (`cstrbuf.h:786`) puts the shorter first.
* `cstr_readline` drops backslashes and what exceeds `maxlen`.
* The zone `W00:01` is the value for "no zone"; `cstr_parse_timezone` wants a `:`
  or `.`, so `+0800` is refused. Hour 24 and second 60 are accepted and `mktime`
  carries them over. A timestamp before 1970 is taken for a huge number.
* The comment at `timeut.h:238` has the rule for centuries the other way round;
  the code is right. `difftime_msec` mixes in unsigned arithmetic, and is wrong
  for a later time minus an earlier one reversed (`timeut.h:339`); `ClockAgrees` is
  about times in order.
* `codeconv` ignores what cannot be converted unless told otherwise. It says
  success whenever `convd_conv_file` returns 0, and so also when the output file
  exists already (run `conv_file_create`).

## 3. Runs

| run | instance | shows |
|---|---|---|
| `convd` | 3 threads, 3 handles, 2 settings, 2 texts, room for 1 or 2 units; symmetric threads and handles; 20 850 states | `TypeOK`, `RefcExact`, `NoUseAfterFree`, `DestroyedOnce`, `Isolation`, `ConvCorrect`, and the action property `CdLifecycle` |
| `convd_live` | 2 threads, 2 handles, fair; 8 132 states | `ImplementsAbs`, `LockReleased`, `EventuallyFreed` |
| `conv_file` | 1 caller, 9 files, line sizes 3, 5 and the default, offsets and heads of 0 or 2 bytes, every system call may fail; 89 188 states | `TypeOK`, `CompleteWhenRoomy`, `ChunksConvertible`, `Terminates` |
| `conv_file_race` | 2 callers, 2 files to be created, the client removes the output; 76 058 states | `Released`, `Faithful` |
| `conv_xml` | about 420 texts in six marks, 15 buffer sizes, 2 targets, 3 body sizes; 735 974 states | `TypeOK`, `ParseExact`, `ConvertsBehindHead`, `OnlyDeclared`, `HeadNamesTarget`, `ResultIsLength`, `FormatThenParse`, `EventuallyReturns` |
| `cstrbuf` | blocks of 2, texts of up to 5 of 2 letters; `find_config_pathfile` with 4 programs, 22 file systems, 5 values of each argument; 64 885 states | `BufTypeOK`, `OnlyWritten`, `NothingLeaks`, `FirstPlaceWins`, `TerminatesText`, `ImplementsText` |
| `helpers` | texts of up to 5 of 5 letters, numbers of 4 characters, files of 4, words of 8 bytes, command lines of 5 options, 132 years by months, 8 timestamps with every single typing error; 83 811 states | `PartsComplete`, `ReplacesAll`, `SearchesAgree`, `ComparesInOrder`, `NumbersAgree`, `BuffersHold`, `CommandRuns`, `WireExact`, `ClockAgrees`, `StampsRoundTrip` |

Why these bounds are enough to be interesting: three threads are the fewest that
let one retain or convert while two others release; three handles let each own a
reference. The longer text is converted in two steps, so that another thread can
interfere between them, and room for one unit forces `E2BIG` in the middle. The
nine files have every mark, both byte orders, an odd byte at the end, a
multi-byte character next to ASCII, a run longer than the buffer, a mark that is
not complete, and nothing at all; a buffer of 3 cuts units of two and four bytes
(for the latter it holds none) and one of 5 does so with a remainder of one.

In `conv_xml` the attributes come in any order, missing, twice and too long, a
version has none, one, some, 16, more than 16 and more than 80 characters, the
texts end anywhere, and the lengths are such that heads of 127, 128 and more
characters, and of more than 112 bytes, occur; the buffer sizes are at and one above
the length of a head with `version="1.0"` in every width, with and without a mark, and
of the shorter and the longer ones in single bytes. In `cstrbuf` a block of 2 makes an exact fit,
one byte less and one more all occur within three characters, in every order of
calls. In `helpers` five letters hold a delimiter, a blank and a letter in two
cases; five of them are enough for a pattern to overlap itself, for leading,
inner and trailing delimiters, and for the limits of every bounded copy. `WORD`,
`ULONG`, `MS` and `NS` (2^64, milliseconds and nanoseconds) and the longest name are
scaled down; the wrap they cause stays. The calendar runs through 2000 and 2100.

In `helpers` an input stops growing at its bound, so deadlock is not checked.
In `convd`, deadlock is checked: the clients can always make a call. In the
`ConvFile` runs an idle caller can always start again.

Every property of these runs is shown to be able to fail: `PROJECT.json` names,
for each, a faulty variant of one operation (a count forgotten, a reset left out,
a lock shared, `O_EXCL` missing, a seek missing, ...) under which TLC finds it
violated.

### What the code does otherwise than documented

Each of these runs ends in a counterexample.

| run | property | the code |
|---|---|---|
| `conv_file_create` | `NoErrorMeansConverted` | if the output file cannot be created, `convd_conv_file` returns the `CONVD_NOERROR` left by `ucs_file_read_open` (`convd.c:671`) |
| `conv_file_insuff` | `CompleteOnSuccess` | `CONVD_ERR_INSUFF` is positive and taken for a chunk length (`convd.c:638`): success with a corrupt file |
| `conv_file_lines` | `InsufficientMeansLongLine` | a chunk does not end at a newline (`convd.c:434-449`), so lines that each fit the buffer overfill it together |
| `conv_file_gbk` | `ChunksConvertible` | a chunk ends where bit 7 changes, which may be inside a GBK character (`convd.c:439`) |
| `conv_xml_version` | `MembersSet` | the version of a head is copied without a bound and becomes its encoding (`convd.c:277`); `convd_api.h:175` says the members are set |

`CompleteWhenRoomy`, `Faithful` and `ChunksConvertible` therefore carry the
condition `Roomy`: the buffer is longer than any run of bytes that agree on bit 7.
`conv_file` uses UTF-8, in which `ChunksConvertible` holds.

## 4. Fairness

Weak fairness on the steps of each thread inside a call: the operating system
keeps scheduling a thread that can run, and no step of a call depends on the
client. No client is assumed to call anything or ever to release a reference.
Weak fairness is enough, and no fair queue in the lock is assumed:
`LockReleased` is about the holder, which nothing can block, and
`EventuallyFreed` about the one thread left with the object. Nothing is claimed
about a waiter getting the lock; pthread does not promise it. `iconv` is assumed
to return: it consumes a unit or ends at each of its steps.

`ConvXml` assumes weak fairness of `Step`, the steps of the one thread that called.
`ScanSpin` is not among them and needs no assumption: where the code spins, the
model may too, and `EventuallyReturns` is claimed only where it cannot.

## 5. Proofs

`ConvdProof` proves `Spec => []IInv` and, from it, `TypeOK`, `RefcExact`,
`NoUseAfterFree`, `DestroyedOnce`, `CdLifecycle`, `Isolation` and `ConvCorrect`, for any set of
threads, any finite set of handles, any units, settings, texts and room.

Assumptions (in `Convd`): the set of handles is finite, so that references can be
counted; `NoThread` is not a thread; texts are sequences of units; room is a
natural number.

None of the properties is inductive alone. That the object stays alive while
someone holds a reference (`Alive`) needs the exact count (`RefcExact`), as the
code decides on the count. That a thread inside a call finds the object alive
needs that it owns the handle it called with (`Owner`), which is the client
contract. That only one thread destroys (`Teardown`) needs that after the last
reference nobody else is inside a call, which follows from `Owner`. That `cd` is
open for a conversion needs `Opening`: until `iconv_open` succeeded the creator
holds the only reference. `Isolation` needs mutual exclusion (`LockOwner`), and
`ConvCorrect` needs to know how far a conversion has come (`Progress`). `IInv` is
the conjunction. The proof has one lemma per action; the lemmas `HeldAdd` and
`HeldRemove` relate the count to the set of held handles.

`CdLifecycle` is an action property: only `Create`, `CreateOpen` and `Final` change `cd`,
and `Opening`, `Teardown` and `LockOwner` say in which states they can.

`ConvdProof` also proves `Spec => ImplementsAbs`: a call is pending from its
entry to the step that decides its result (`IconvFail`, `IconvDone`,
`ConvResetFail`, `Ctl`), which maps to the atomic `Convert` or `Configure` of
`ConvdAbs`; `Create`, `Retain`, `Handoff` and `DecSub` map to the abstract
creation and moves of references, `Unlock` to the return, and every other step
to a stutter. It uses `IInv` in the state before the step.

`CstrbufProof` proves `BufTypeOK`, `OnlyWritten`, `TerminatesText` and
`ImplementsText` of `BufSpec`, for any block size, any characters and texts of any
length: `MAXLEN` bounds the client of the run and is any number in the proof.
Assumptions (in `Cstrbuf`): a block has at least one byte, the texts are sequences
of characters, NUL and junk are no characters, the null pointer is neither a buffer
nor a text. The inductive invariant is `BufInv`: there is no buffer, or the buffer
holds its own text, that is, its first `len` bytes are characters of the client and
`len` is smaller than the block. It does not say that a NUL follows, as after
`cstrbufPushBack` none may; so every call has to be right on a block that is not
terminated, which is why each lemma of an operation (`NewHolds`, `CatHolds`,
`TruncHolds`, `DupHolds`, `SubHolds`, `PushHolds`...) starts from `Holds` alone and
says both what the result holds and whether it is terminated. They rest on
`WriteProps`, what a write into a block leaves as it was, and `AlignProps`, that a
rounded size is larger than what was asked for. `Step` puts them together: one step
keeps `BufInv`, terminates, and is a step of `CstrbufAbs`.

`ConvFileProof` proves `TypeOK`, `Released`, `Faithful`, `CompleteWhenRoomy` and
`ChunksConvertible` of `ConvFile`, for any number of callers and inodes, any files,
offsets, heads and line sizes, any encoding and any set of failing system calls.
Assumptions: files are sequences of bytes, sizes are natural numbers (or -1, the
default), and the two values that stand for "nothing" are no values of what may
be missing. The parts of `IInv`:

* `Held` and `Exclusive`: a caller has a `convpos_t` and an output file exactly
  where the code has them, and no two have the same file. `O_EXCL` is what keeps
  `Exclusive`, also when a client removes the output from its path in between.
* `Fresh`: nothing is converted before the loop.
* `Behind`: the offset never runs ahead of the position of `textfd`. They are two
  copies of one number only while there is room enough; behind a full buffer the
  offset stays, and `Behind` is what is left.
* `Tiled`: with room enough, the chunks so far and the one in hand consist of
  whole units, end at borders (`Border`), and the output is what they say.
  `Faithful` alone is not inductive: that a chunk is never insufficient needs that
  it begins at a border, as a run of equal bit 7 is then whole in the buffer.

`ChunksConvertible` has the hypothesis `Splittable`: the encoding accepts both
parts of what it accepts, where it is cut at a place the code cuts. This is no
assumption of the module but of the theorem, because it is a fact about the
encoding and false for some: `Utf8Splits` and `GbkDoesNot` in `MCConvFile` are
evaluated by TLC, and `conv_file_gbk` is the counterexample without it.
`ConvFileLoopAdvances` says that every turn of the loop moves the pair of position
and offset forward and that nothing moves it back. It is the safety half of
`Terminates`, a file having finitely many such pairs; that the turns are taken is
left to fairness and to TLC.

`ConvXmlProof` proves the seven invariants of run `conv_xml`, for any texts,
any lengths of tokens, any buffers, targets and bodies, and any size of
`headbuf` and of the piece of a file that is read. Assumptions: a token is at
least one character long; a head that a client prints is longer than the 20
characters that the code asks for (`PrintedAssumption`); the heads for the five targets
that `convd_conv_xmltext` knows fit its block of 128 bytes, those with a version that
runs on too (`AnsiAssumption`: `iconv` knows no such name of more than a few characters); the buffer is not shorter than a mark.
`OnlyDeclared` follows from what `ParsedHead` leaves in `encoding`: either the declared
encoding or what a version longer than its member has left there. The parts of `IInv`
are `Scanned` (the scan counts the characters it reads, stops at the first `>`,
and stands at the byte that count says), `Parsed` (what is known of the head
until the call returns) and `HeadPut` (what is known of the output when the
conversion starts). `ParseExact` is not inductive: it relates a result to the
whole text, and the scan knows only the tokens it has read. The lemmas about `Chars`
and `Bytes` (what the first tokens weigh, and that their number is decided by their
weight) carry the proof.

`ConfigPathProof` proves `NothingLeaks` and `FirstPlaceWins` of `find_config_pathfile`,
for any program, any set of files, any separator and any arguments. `CfgInv`
says that the names and the candidate are in buffers that hold them (`Holds`, the
invariant of `CstrbufProof`), that the live blocks are the buffers held
(`Counted`), and that what was looked at and left behind has no file (`Searched`).
The operations are taken from the lemmas `NewHolds`, `CatHolds`,
`CatNullHolds`, `TruncHolds` and `ConcatHolds`, so that the proof is about the paths
and not about the bytes. Assumptions: arguments and paths are texts, the
separators and `conf` are characters, an argument is not empty. The proof
needed the place "above the program" to be written with the separator of the system:
`get_proc_abspath` cuts at either separator (`misc.h:485`), the third probe only at
`PATH_SEPARATOR_CHAR` (`misc.h:556`).

`Least` derives from the well-foundedness of `<` that a set of numbers has a least
element, and with a bound a greatest. The induction theorems of the library take an
operator as a parameter, which the provers cannot instantiate; a proof here takes
the least counterexample instead. So the sums over tokens of `ConvXml` and the
chunks of any length of `ConvFile` are within reach.

`HelpersProof` proves `WireExact`, and more than the run checks: `SwapReverses` is about
words of any length, where the run has those of 2, 4 and 8 bytes. `BO_swap_bytes` is
a fold over the rounds of the loop, and a fold is a function that the library defines by
recursion and `CHOOSE`: `FoldExists` shows that there is one, `SwapIsFold` that the operator
is its value, `RoundsReverse` (by the least round that differs) that `i` rounds have exchanged
the first `i` bytes with the last `i`. The converters, the readers of byte arrays and
the bit macros follow from that. The proof takes from the code that every host is a little
endian one for the library (`LittleHost`).

It also proves `ComparesInOrder` for texts of any length. `StrcmpOrders` goes further than the
run: the comparison is transitive as well, a total order on the texts.
The argument is the first place where two texts differ (`FirstDifference`, `StrcmpAt`);
`CompareIs` reduces the cases of `cstr_compare_len`, with lengths and without, to that.
Assumptions (in `Cstr`): characters have different codes, none of them 0; `tolower`
gives a character; the null pointer is no text.

And it proves `ClockAgrees` for every year that `time_is_valid` admits from 1970 on, where the
run goes through 132. There are two calendars: `getlocaltime_safe` takes whole years and then
months off a number of days, and the C library computes the day of a date from a formula.
`MonthInv`, the invariant of the input that TLC grows month by month, says that the days
counted with `mdays` and `YEAR_IS_LEAPYEAR` so far are those of the formula: `NewYear(y)`, the day
of a year's first, plus `Before(y, m)`. A year in the formula has 365 or 366 days as
the code's leap year rule says, so the days that the first loop has taken
off (`DaysTo`) are `NewYear` too, a day lies in one year and one month, and the two loops
(the second is a fold of eleven rounds) stop there, as `gmtime` does. Hence `LocalFields`
(any day from 1970 on, any zone) and `LocalAgrees` (date and second are those of `localtime`, for
any zone of at most a day). `ZoneFound` is about `timezone_compute`, and `DifferenceIs` about
`difftime_msec`: exact while the difference stays below half of an unsigned long.
Assumptions: the zone is at most a day from UTC, the units are positive and the
nanoseconds of eight seconds fit an unsigned long (both in `DateTime`; 64 bits in the code);
the years end with 9999, as `time_is_valid` has it (in `MCHelpers`).

`PartsProof` proves `SearchesAgree`, `ReplacesAll` and `BuffersHold` for texts, patterns and
buffers of any length.

* `SearchesAgree`: a search returns the least or greatest of the offsets at which something
  holds (`FirstOffset`, `LastOffset`), or none if there is none. `CharactersFound`,
  `TextsFound` and `EntriesFound` say so of each function; the last also of
  `cstr_findstr_in`, which folds case and compares prefixes.
* `ReplacesAll`: `SplitExact` says that the parts which `cstr_split_substr` finds give the
  text again with the separator between them, that no part has a separator in it, that their
  number is the count of the first loop of `cstr_replace_new` plus one, and that its second
  loop writes the parts with the replacement between them in as many characters as were
  allocated. The loops go on behind an occurrence, so the proof takes the greatest offset at
  which they do something else. The fold that joins is a function that the library defines
  by `CHOOSE`: `TypedFoldExists` (in `HelpersProof`) shows once that there is one, for any operation that stays in a set.
* `BuffersHold`: `CreateFits` (the block of `convd_create` is filled to its last byte, holds both
  names apart from each other, and `iconv_open` gets the target with its suffix once), `SafecopyKeeps` (`cstr_safecopy` succeeds exactly
  when text and NUL fit, ends in a NUL in any case and keeps what it can), `CopiesFit` (the
  other bounded copies and the message of `emerglog.h`).

Assumptions: `toupper` gives characters and does not change which character `tolower` gives;
NUL is no character (both in `Cstr`); the suffixes are of upper case characters other than NUL
(in `CodeConv`); the letters of the inputs are characters (in `MCHelpers`).

Only model-checked:

* Liveness (`LockReleased`, `EventuallyFreed`, `Terminates`, `EventuallyReturns`), which is
  beyond the prover here.
* `PartsComplete`: `cstr_split_substr` and `cstr_readline` leave out empty parts by
  `SelectSeq`, whose definition in the library is recursive inside a `LET` that the
  prover cannot expand.
* `NumbersAgree` and `StampsRoundTrip`: they go through decimal digits, as sums over the characters
  of a text, and through the characters' own names.
* `CommandRuns`: a fold over the options whose record has nine fields; TLC
  enumerates every command line of the five options it distinguishes.

## 6. Not modelled

* Read and try modes of the lock and its Windows fallback: no caller, other
  platform.
* `UCS_file_detect_bom`: it opens, reads four bytes and calls the function that is
  modelled. `cstrbufPrint`, `cstr_varray_free`: a call of `printf`, a loop of `free`.
* Sleeping and reading the clock (`timeut.h`), rename, remove and process
  identifiers (`misc.h`): one system call each.
* Memory wrappers (they exit when memory is short; `memord.h` is fences that
  nothing calls), JNI, Windows support and protothreads: no state of their own,
  vendored, or unused.
* An `iconv` that keeps output state from chunk to chunk of a file, and the
  overflow of `5 * linesizemax`: see the plan.

## 7. Plan

1. The rest of `MCHelpers`: `CommandRuns` for command lines of any
   length, `PartsComplete` once `SelectSeq` has lemmas that the prover can use.
2. `ConvFile`: an encoding with output state, and the size of the line buffer in
   a word of bounded width.
