------------------------------ MODULE ConvFile ------------------------------
(***************************************************************************)
(* convd_conv_file of convd.c: a file is converted chunk by chunk into a   *)
(* new file.  Several callers may run it at the same time with the same    *)
(* input and output paths, and a client may remove the output file.        *)
(*                                                                         *)
(* The bytes of the input matter (byte order mark, bit 7, unit borders),   *)
(* so the input is a sequence of bytes.  What is written for a byte does   *)
(* not matter, only which bytes are written and in what order: the output  *)
(* is the sequence of the input positions it was made from, with 0 for     *)
(* each byte that is not of the input.  Every chunk goes through one       *)
(* convd_conv_text, atomic by module ConvdProof; Convertible says          *)
(* which chunks iconv accepts.  The host is little endian.                 *)
(***************************************************************************)
EXTENDS Integers, Sequences, FiniteSets

CONSTANTS
    Caller,             \* threads that call convd_conv_file
    Inode,              \* files that may come to be at the output path
    Files,              \* the input files, as sequences of bytes
    InOffset,           \* values of inoffset
    HeadLen,            \* values of outheadlen
    LineSizeMax,        \* values of linesizemax; -1 asks for the default
    Faults,             \* the system calls that may fail
    Convertible(_, _),  \* iconv accepts these bytes of a text with this BOM
    NoFile,             \* "no file at the path", "no descriptor"
    Nil                 \* no convpos_t allocated, no arguments

ASSUME ByteAssumption == Files \subseteq Seq(0..255)
ASSUME SizeAssumption ==
    InOffset \subseteq Nat /\ HeadLen \subseteq Nat /\ LineSizeMax \subseteq Nat \cup {-1}
ASSUME NoFileAssumption == NoFile \notin Inode

Args == [inoffset : InOffset, headlen : HeadLen, linesizemax : LineSizeMax]
Positions == [bom : {"none", "utf8", "2be", "2le", "4be", "4le"},
              offset : Nat, pos : Nat, linesize : Nat]

ASSUME NilAssumption == Nil \notin Args /\ Nil \notin Positions

VARIABLES
    file,       \* the input file
    disk,       \* [Inode -> what was written to the file]
    path,       \* the file at the output path
    pc,         \* where each caller is
    args,       \* the arguments of its call
    cpos,       \* its convpos_t, with the file position of textfd
    outfd,      \* the file it has open for writing
    chunk,      \* cpos->inputbuf: the input positions that go to iconv
    size,       \* outfdsize
    ret,        \* the value it returns, until the next call
    outfilesize \* *outfilesize

shared == <<disk, path>>
vars == <<file, shared, pc, args, cpos, outfd, chunk, size, ret, outfilesize>>

CONVD_NOERROR      == 0
CONVD_ERR_ENCODING == 4
CONVD_ERR_INSUFF   == 5
CONVD_ERR_ICONV    == -1
CONVD_ERR_FILE     == -2
CONV_FINISHED      == 0
CONV_LINE_MAXSIZE  == 65536

MinOf(a, b) == IF a <= b THEN a ELSE b

Zeros(n) == [i \in 1..n |-> 0]

-----------------------------------------------------------------------------
(***************************************************************************)
(* Byte order marks                                                        *)
(***************************************************************************)

\* The mark at the start of the four byte buffer h of which n were read.
UCS_text_detect_bom(h, n) ==
    CASE n <= 1 -> "none"
      [] h[1] = 254 /\ h[2] = 255 -> "2be"
      [] h[1] = 0 /\ h[2] = 0 /\ n > 3 /\ h[3] = 254 /\ h[4] = 255 -> "4be"
      [] h[1] = 255 /\ h[2] = 254 /\ n > 3 /\ h[3] = 0 /\ h[4] = 0 -> "4le"
      [] h[1] = 255 /\ h[2] = 254 -> "2le"
      [] h[1] = 239 /\ h[2] = 187 /\ n = 2 -> "utf8_ask"
      [] h[1] = 239 /\ h[2] = 187 /\ h[3] = 191 -> "utf8"
      [] OTHER -> "none"

BomLen(bom) ==
    CASE bom \in {"2be", "2le"} -> 2
      [] bom \in {"4be", "4le"} -> 4
      [] bom = "utf8" -> 3
      [] OTHER -> 0

\* Bytes per unit of text.
Width(bom) ==
    CASE bom \in {"2be", "2le"} -> 2
      [] bom \in {"4be", "4le"} -> 4
      [] OTHER -> 1

\* The header buffer after its first k bytes were read into zeros.
HeaderBuf(k) == [i \in 1..4 |-> IF i <= k THEN file[i] ELSE 0]

\* What file_readbytes leaves: the buffer and the count.  A read error may
\* come after some bytes, and its -1 becomes a huge blen.
HeaderReads ==
    LET n == MinOf(4, Len(file)) IN
    {<<HeaderBuf(n), n>>} \cup
        (IF "read" \in Faults
         THEN {<<HeaderBuf(k), 2 ^ 16>> : k \in 0..MinOf(3, Len(file))} ELSE {})

-----------------------------------------------------------------------------
(***************************************************************************)
(* Chunks                                                                  *)
(***************************************************************************)

HasBit7(b) == b >= 128

\* How many bytes at the start of b agree on bit 7.
SameBit7(b) ==
    CHOOSE n \in 1..Len(b) :
        /\ \A i \in 1..n : HasBit7(b[i]) = HasBit7(b[1])
        /\ n < Len(b) => HasBit7(b[n + 1]) # HasBit7(b[1])

\* A chunk that ends where the buffer does, a unit cut in two included.
ChunkLenRagged(bom, b) == IF Width(bom) = 1 THEN SameBit7(b) ELSE Len(b)

\* A run that takes in the byte that ended it.
ChunkLenLate(bom, b) ==
    LET n == IF Width(bom) = 1 THEN SameBit7(b) ELSE Len(b) - (Len(b) % Width(bom))
    IN  IF Width(bom) = 1 /\ n < Len(b) THEN n + 1 ELSE n

\* Bytes of the buffer b that make the next chunk: a run of bytes that agree
\* on bit 7, or all of the whole units.
ChunkLen(bom, b) ==
    IF Width(bom) = 1 THEN SameBit7(b) ELSE Len(b) - (Len(b) % Width(bom))

\* The run did not end inside the buffer.
Insufficient(p, b) == Width(p.bom) = 1 /\ SameBit7(b) = p.linesize

\* The n input positions after base, in host order: big endian units are
\* turned round, the others stay as they are.
HostOrder(bom, base, n) ==
    LET w == IF bom \in {"2be", "4be"} THEN Width(bom) ELSE 1 IN
    [i \in 1..n |-> base + (w * ((i - 1) \div w)) + w - ((i - 1) % w)]

Bytes(positions) == [i \in 1..Len(positions) |-> file[positions[i]]]

\* What read() puts in the buffer at the file position of p.
Buffer(p) == SubSeq(file, p.pos + 1, MinOf(p.pos + p.linesize, Len(file)))

\* p, with its offset and textfd moved.
MovedTo(p, offset, pos) == [p EXCEPT !.offset = offset, !.pos = pos]

-----------------------------------------------------------------------------
Goto(c, from, to) == pc[c] = from /\ pc' = [pc EXCEPT ![c] = to]

\* Return r, with both files closed, the convpos_t freed and the locals gone.
Return(c, from, r) ==
    /\ Goto(c, from, "idle")
    /\ args' = [args EXCEPT ![c] = Nil]
    /\ cpos' = [cpos EXCEPT ![c] = Nil]
    /\ outfd' = [outfd EXCEPT ![c] = NoFile]
    /\ chunk' = [chunk EXCEPT ![c] = << >>]
    /\ size' = [size EXCEPT ![c] = 0]
    /\ ret' = [ret EXCEPT ![c] = r]

\* file_writebytes: all of data, or a proper part of it and an error.
Written(c, data) == disk' = [disk EXCEPT ![outfd[c]] = @ \o data]
WrittenPartly(c, data) ==
    /\ "write" \in Faults
    /\ \E k \in 0..Len(data) - 1 : Written(c, SubSeq(data, 1, k))

-----------------------------------------------------------------------------
(***************************************************************************)
(* Faulty variants of the actions below, each with a mistake that the code *)
(* could plausibly hold; the properties at the end of the module tell them *)
(* from the real ones.                                                     *)
(***************************************************************************)

\* file_create without O_EXCL: it opens the file that is there.
CreateOutShared(c) ==
    /\ Goto(c, "create", "head")
    /\ \E i \in Inode :
           /\ IF path # NoFile THEN i = path ELSE \A u \in Caller : outfd[u] # i
           /\ path' = i
           /\ disk' = [disk EXCEPT ![i] = IF i = path THEN @ ELSE << >>]
           /\ outfd' = [outfd EXCEPT ![c] = i]
    /\ UNCHANGED <<file, args, cpos, chunk, size, ret, outfilesize>>

\* A failed conversion that goes back and reads the same chunk again.
ConvertFailRetries(c) ==
    /\ Goto(c, "conv", "read")
    /\ LET n == Len(chunk[c])
           back == IF cpos[c].offset < n THEN 0 ELSE cpos[c].offset - n IN
       cpos' = [cpos EXCEPT ![c] = MovedTo(@, back, back)]
    /\ chunk' = [chunk EXCEPT ![c] = << >>]
    /\ UNCHANGED <<file, shared, args, outfd, size, ret, outfilesize>>

\* A read error that is taken for the end of the file.
ReadFailAsEnd(c) ==
    /\ "read" \in Faults
    /\ Goto(c, "read", "finish")
    /\ ret' = [ret EXCEPT ![c] = CONV_FINISHED]
    /\ UNCHANGED <<file, shared, args, cpos, outfd, chunk, size, outfilesize>>

\* No seek back to the end of the chunk: the rest of the buffer is skipped.
ReadChunkNoSeek(c) ==
    LET p == cpos[c]
        b == Buffer(p)
        n == ChunkLen(p.bom, b) IN
    /\ Goto(c, "read", "conv")
    /\ b # << >>
    /\ ~Insufficient(p, b)
    /\ n > 0
    /\ cpos' = [cpos EXCEPT ![c] = MovedTo(p, p.offset + n, p.pos + Len(b))]
    /\ chunk' = [chunk EXCEPT ![c] = HostOrder(p.bom, p.pos, n)]
    /\ UNCHANGED <<file, shared, args, outfd, size, ret, outfilesize>>

-----------------------------------------------------------------------------
(***************************************************************************)
(* Opening the files                                                       *)
(***************************************************************************)

Start(c, a) ==
    /\ Goto(c, "idle", "open")
    /\ args' = [args EXCEPT ![c] = a]
    /\ ret' = [ret EXCEPT ![c] = CONVD_NOERROR]
    /\ UNCHANGED <<file, shared, cpos, outfd, chunk, size, outfilesize>>

\* file_open_read or file_seek fails: nothing is left open.
OpenFail(c) ==
    /\ "open" \in Faults \/ "seek" \in Faults
    /\ Return(c, "open", CONVD_ERR_FILE)
    /\ UNCHANGED <<file, shared, outfilesize>>

\* Two bytes of a UTF-8 mark and no more are not a text.
OpenAsk(c) ==
    /\ \E h \in HeaderReads : UCS_text_detect_bom(h[1], h[2]) = "utf8_ask"
    /\ Return(c, "open", CONVD_ERR_ENCODING)
    /\ UNCHANGED <<file, shared, outfilesize>>

\* ucs_file_read_open succeeds, with textfd after the mark.
ReadOpen(c) ==
    /\ Goto(c, "open", "create")
    /\ \E h \in HeaderReads :
           LET bom == UCS_text_detect_bom(h[1], h[2])
               max == args[c].linesizemax IN
           /\ bom # "utf8_ask"
           /\ cpos' = [cpos EXCEPT ![c] =
                  [bom |-> bom, offset |-> BomLen(bom), pos |-> BomLen(bom),
                   linesize |-> IF max = -1 THEN CONV_LINE_MAXSIZE ELSE max]]
    /\ ret' = [ret EXCEPT ![c] = CONVD_NOERROR]
    /\ UNCHANGED <<file, shared, args, outfd, chunk, size, outfilesize>>

\* file_write_new opens with O_CREAT | O_EXCL.
CreateOut(c) ==
    /\ path = NoFile
    /\ Goto(c, "create", "head")
    /\ \E i \in Inode \ {outfd[u] : u \in Caller} :
           /\ path' = i
           /\ disk' = [disk EXCEPT ![i] = << >>]
           /\ outfd' = [outfd EXCEPT ![c] = i]
    /\ UNCHANGED <<file, args, cpos, chunk, size, ret, outfilesize>>

\* It fails, for one because the path exists; the call returns the value
\* that ucs_file_read_open left in ret.
CreateOutFail(c) ==
    /\ path # NoFile \/ "create" \in Faults
    /\ Return(c, "create", ret[c])
    /\ UNCHANGED <<file, shared, outfilesize>>

\* The head is written, and inoffset is added to the offset of the text.
WriteHead(c) ==
    /\ Goto(c, "head", "read")
    /\ Written(c, Zeros(args[c].headlen))
    /\ LET p == cpos[c]
           o == args[c].inoffset IN
       cpos' = [cpos EXCEPT ![c] = MovedTo(p, p.offset + o, p.pos + o)]
    /\ UNCHANGED <<file, path, args, outfd, chunk, size, ret, outfilesize>>

WriteHeadFail(c) ==
    /\ Return(c, "head", CONVD_ERR_FILE)
    /\ WrittenPartly(c, Zeros(args[c].headlen))
    /\ UNCHANGED <<file, path, outfilesize>>

-----------------------------------------------------------------------------
(***************************************************************************)
(* The loop: ucs_file_read_next, convd_conv_text, file_writebytes          *)
(***************************************************************************)

\* The loop ends with r as the result of ucs_file_read_next.
EndLoop(c, r) ==
    /\ Goto(c, "read", "finish")
    /\ ret' = [ret EXCEPT ![c] = r]
    /\ UNCHANGED <<file, shared, args, outfd, chunk, size, outfilesize>>

ReadFail(c) ==
    /\ "read" \in Faults
    /\ EndLoop(c, CONVD_ERR_FILE)
    /\ UNCHANGED cpos

\* Nothing was read, or less than a unit.
ReadEnd(c) ==
    LET b == Buffer(cpos[c]) IN
    /\ EndLoop(c, CONV_FINISHED)
    /\ b # << >> => ChunkLen(cpos[c].bom, b) = 0
    /\ UNCHANGED cpos

\* The run fills the buffer.  ucs_file_read_next returns CONVD_ERR_INSUFF, which
\* is positive, and the loop takes it for the length of a chunk: it converts
\* five bytes of the buffer, or what lies behind a shorter one.  The offset
\* stays, and textfd is left behind the buffer.
ReadInsufficient(c) ==
    LET p == cpos[c]
        b == Buffer(p) IN
    /\ Goto(c, "read", "conv")
    /\ b # << >>
    /\ Insufficient(p, b)
    /\ cpos' = [cpos EXCEPT ![c] = MovedTo(p, p.offset, p.pos + Len(b))]
    /\ chunk' = [chunk EXCEPT ![c] = [i \in 1..CONVD_ERR_INSUFF |->
                     IF i <= p.linesize THEN p.pos + i ELSE 0]]
    /\ UNCHANGED <<file, shared, args, outfd, size, ret, outfilesize>>

\* A chunk is in the buffer and textfd is put back behind it.
ReadChunk(c) ==
    LET p == cpos[c]
        b == Buffer(p)
        n == ChunkLen(p.bom, b) IN
    /\ Goto(c, "read", "conv")
    /\ b # << >>
    /\ ~Insufficient(p, b)
    /\ n > 0
    /\ cpos' = [cpos EXCEPT ![c] = MovedTo(p, p.offset + n, p.offset + n)]
    /\ chunk' = [chunk EXCEPT ![c] = HostOrder(p.bom, p.pos, n)]
    /\ UNCHANGED <<file, shared, args, outfd, size, ret, outfilesize>>

\* ... unless that seek fails, after the offset was moved.
ReadSeekFail(c) ==
    LET p == cpos[c]
        b == Buffer(p) IN
    /\ "seek" \in Faults
    /\ EndLoop(c, CONVD_ERR_FILE)
    /\ b # << >>
    /\ ~Insufficient(p, b)
    /\ cpos' = [cpos EXCEPT ![c] = MovedTo(p, p.offset + ChunkLen(p.bom, b), p.pos)]

\* Bytes that the loop took from behind the buffer: anything.
Junk(c) == \E i \in 1..Len(chunk[c]) : chunk[c][i] = 0

Accepted(c) == Convertible(cpos[c].bom, Bytes(chunk[c]))

Convert(c) ==
    /\ Goto(c, "conv", "write")
    /\ ~Junk(c) => Accepted(c)
    /\ UNCHANGED <<file, shared, args, cpos, outfd, chunk, size, ret, outfilesize>>

\* iconv refuses the bytes, or needs more room than four times linesize.
ConvertFail(c) ==
    /\ Return(c, "conv", CONVD_ERR_ICONV)
    /\ (~Junk(c) => ~Accepted(c)) \/ "iconv" \in Faults
    /\ UNCHANGED <<file, shared, outfilesize>>

WriteChunk(c) ==
    /\ Goto(c, "write", "read")
    /\ Written(c, chunk[c])
    /\ size' = [size EXCEPT ![c] = @ + Len(chunk[c])]
    /\ chunk' = [chunk EXCEPT ![c] = << >>]
    /\ UNCHANGED <<file, path, args, cpos, outfd, ret, outfilesize>>

WriteChunkFail(c) ==
    /\ Return(c, "write", CONVD_ERR_FILE)
    /\ WrittenPartly(c, chunk[c])
    /\ UNCHANGED <<file, path, outfilesize>>

Finish(c) ==
    /\ Return(c, "finish", ret[c])
    /\ outfilesize' = [outfilesize EXCEPT
           ![c] = IF ret[c] = CONV_FINISHED THEN size[c] ELSE @]
    /\ UNCHANGED <<file, shared>>

-----------------------------------------------------------------------------
\* The client removes the output file, for example to try again; who has it
\* open keeps on writing to it.
RemoveOut ==
    /\ path # NoFile
    /\ path' = NoFile
    /\ disk' = [disk EXCEPT ![path] =
                   IF \E c \in Caller : outfd[c] = path THEN @ ELSE << >>]
    /\ UNCHANGED <<file, pc, args, cpos, outfd, chunk, size, ret, outfilesize>>

Init ==
    /\ file \in Files
    /\ disk = [i \in Inode |-> << >>]
    /\ path = NoFile
    /\ pc = [c \in Caller |-> "idle"]
    /\ args = [c \in Caller |-> Nil]
    /\ cpos = [c \in Caller |-> Nil]
    /\ outfd = [c \in Caller |-> NoFile]
    /\ chunk = [c \in Caller |-> << >>]
    /\ size = [c \in Caller |-> 0]
    /\ ret = [c \in Caller |-> CONVD_NOERROR]
    /\ outfilesize = [c \in Caller |-> 0]

Step(c) ==
    \/ OpenFail(c) \/ OpenAsk(c) \/ ReadOpen(c)
    \/ CreateOut(c) \/ CreateOutFail(c)
    \/ WriteHead(c) \/ WriteHeadFail(c)
    \/ ReadFail(c) \/ ReadEnd(c) \/ ReadInsufficient(c)
    \/ ReadChunk(c) \/ ReadSeekFail(c)
    \/ Convert(c) \/ ConvertFail(c)
    \/ WriteChunk(c) \/ WriteChunkFail(c)
    \/ Finish(c)

Next ==
    \/ \E c \in Caller : Step(c) \/ \E a \in Args : Start(c, a)
    \/ RemoveOut

Fairness == \A c \in Caller : WF_vars(Step(c))

Spec     == Init /\ [][Next]_vars
FairSpec == Spec /\ Fairness
-----------------------------------------------------------------------------
(***************************************************************************)
(* Correctness                                                             *)
(***************************************************************************)

Pc == {"idle", "open", "create", "head", "read", "conv", "write", "finish"}

\* Inside the part of convd_conv_file that has both files open.
Writing == {"head", "read", "conv", "write", "finish"}

\* Every variable has its type.  In particular a chunk never reaches beyond
\* the end of the file, although units are turned round inside it.
TypeOK ==
    /\ file \in Files
    /\ disk \in [Inode -> Seq(Nat)]
    /\ path \in Inode \cup {NoFile}
    /\ pc \in [Caller -> Pc]
    /\ args \in [Caller -> Args \cup {Nil}]
    /\ cpos \in [Caller -> Positions \cup {Nil}]
    /\ outfd \in [Caller -> Inode \cup {NoFile}]
    /\ chunk \in [Caller -> Seq(0..Len(file))]
    /\ size \in [Caller -> Nat]
    /\ ret \in [Caller -> Int]
    /\ outfilesize \in [Caller -> Nat]

\* On every path, the early returns too, the call gives back what it took: it
\* holds its convpos_t and its two descriptors exactly while it uses them, and
\* O_EXCL gives no two calls the same output file.
Released ==
    \A c \in Caller :
        /\ cpos[c] # Nil <=> pc[c] \notin {"idle", "open"}
        /\ outfd[c] # NoFile <=> pc[c] \in Writing
        /\ \A u \in Caller \ {c} : outfd[c] # NoFile => outfd[u] # outfd[c]

\* The first input byte that is converted, less one.
Origin(c) == BomLen(cpos[c].bom) + args[c].inoffset

\* The output file of a call that has converted the input up to offset n.
Converted(c, n) ==
    Zeros(args[c].headlen) \o HostOrder(cpos[c].bom, Origin(c), n - Origin(c))

\* linesizemax is big enough for the text: it holds a unit, and bytes that
\* agree on bit 7 never fill it.
Roomy(p) ==
    /\ p.linesize >= Width(p.bom)
    /\ Width(p.bom) = 1 =>
           \A i \in BomLen(p.bom)..Len(file) - p.linesize :
               \E j, k \in i + 1..i + p.linesize : HasBit7(file[j]) # HasBit7(file[k])

\* While the loop runs over a text with room enough, the output is the head
\* followed by every input byte from the origin to the start of the chunk in
\* hand: none lost, doubled or out of order, whatever the chunk borders, the
\* seeks and the other calls do.
Faithful ==
    \A c \in Caller : pc[c] \in {"read", "conv", "write"} /\ Roomy(cpos[c]) =>
        LET start == cpos[c].offset - Len(chunk[c]) IN
        /\ cpos[c].pos = cpos[c].offset
        /\ disk[outfd[c]] = Converted(c, start)
        /\ chunk[c] = HostOrder(cpos[c].bom, start, Len(chunk[c]))
        /\ size[c] = start - Origin(c)

\* The call of c, at the end of its loop, has converted all of the input, but
\* for an incomplete unit at its end.
Complete(c) ==
    /\ disk[outfd[c]] = Converted(c, cpos[c].offset)
    /\ Len(file) - cpos[c].offset < Width(cpos[c].bom)

Succeeds(c) == pc[c] = "finish" /\ ret[c] = CONV_FINISHED

\* With room enough, a call whose loop ends with CONV_FINISHED is complete: no
\* error of read, seek, iconv or write passes for the end of the file.
CompleteWhenRoomy ==
    \A c \in Caller : Succeeds(c) /\ Roomy(cpos[c]) => Complete(c)

\* With room enough, cutting a text into chunks never makes iconv refuse it: if
\* the text as a whole can be converted then so can each chunk, because no
\* chunk border falls inside a character.
ChunksConvertible ==
    \A c \in Caller : pc[c] = "conv" /\ Roomy(cpos[c]) =>
        LET bom == cpos[c].bom
            n == Len(file) - Origin(c)
            whole == HostOrder(bom, Origin(c), n - (n % Width(bom))) IN
        Convertible(bom, Bytes(whole)) => Accepted(c)

\* No chunk border at i of the text t, in host order, falls inside a unit or a
\* run of bytes.
Cut(bom, t, i) ==
    /\ i % Width(bom) = 0
    /\ Width(bom) = 1 => i = 0 \/ i = Len(t) \/ HasBit7(t[i]) # HasBit7(t[i + 1])

\* Accepts(bom, t) implies the same of every part of t between such borders.
Splits(Accepts(_, _), bom, t) ==
    \A i, j \in 0..Len(t) :
        i < j /\ Cut(bom, t, i) /\ Cut(bom, t, j) /\ Accepts(bom, t) =>
            Accepts(bom, SubSeq(t, i + 1, j))

\* What ChunksConvertible asks of the encoding.  It holds for UTF-8, where all
\* the bytes of a long character have bit 7, and not for GBK.
Splittable == \A bom : \A t \in Seq(0..255) : Splits(Convertible, bom, t)

\* Every call returns: the loop makes progress through the file, whatever
\* fails and wherever the chunks end.
Terminates == \A c \in Caller : pc[c] # "idle" ~> pc[c] = "idle"

\* p comes before q in the order in which the loop goes through the file.
Before(p, q) == p.offset < q.offset \/ (p.offset = q.offset /\ p.pos < q.pos)

\* Why the loop ends: every turn moves the offset on, or else textfd, which a
\* full buffer alone leaves ahead of the offset; both stay within the file, and
\* what comes between two turns does not move them back.
LoopAdvances ==
    [][\A c \in Caller :
           /\ pc[c] = "read" /\ pc'[c] = "conv" =>
                  /\ Before(cpos[c], cpos'[c])
                  /\ cpos'[c].offset <= cpos'[c].pos /\ cpos'[c].pos <= Len(file)
           /\ pc[c] \in {"conv", "write"} /\ pc'[c] \in {"write", "read"} =>
                  cpos'[c] = cpos[c]]_vars

-----------------------------------------------------------------------------
(***************************************************************************)
(* The inductive invariant                                                 *)
(***************************************************************************)

\* A caller holds arguments, a convpos_t and an output file while it uses them.
Held(c) ==
    /\ args[c] # Nil <=> pc[c] # "idle"
    /\ cpos[c] # Nil <=> pc[c] \notin {"idle", "open"}
    /\ outfd[c] # NoFile <=> pc[c] \in Writing

\* No two callers write the same file.
Exclusive ==
    \A c \in Caller : \A u \in Caller \ {c} : outfd[c] # NoFile => outfd[u] # outfd[c]

\* Before the loop nothing is converted, and a chunk is in hand only within it.
Fresh(c) ==
    /\ chunk[c] # << >> <=> pc[c] \in {"conv", "write"}
    /\ pc[c] \in {"create", "head"} =>
           cpos[c].offset = BomLen(cpos[c].bom) /\ cpos[c].pos = cpos[c].offset
    /\ pc[c] = "head" => disk[outfd[c]] = << >>
    /\ pc[c] \notin {"read", "conv", "write", "finish"} => size[c] = 0

\* The offset never runs ahead of textfd, not even where a full buffer leaves it
\* behind, and a chunk ends inside the file.
Behind(c) ==
    /\ pc[c] \in {"read", "conv", "write"} => cpos[c].offset <= cpos[c].pos
    /\ pc[c] \in {"conv", "write"} => cpos[c].pos <= Len(file)

\* A chunk may begin or end at i without cutting a run of bytes.
Border(c, i) ==
    Width(cpos[c].bom) = 1 =>
        \/ i = Origin(c)
        \/ i >= Len(file)
        \/ HasBit7(file[i]) # HasBit7(file[i + 1])

\* Faithful, with what makes it inductive: the chunks so far and the one in hand
\* consist of whole units and end at borders.
Tiled(c) ==
    pc[c] \in {"read", "conv", "write"} /\ Roomy(cpos[c]) =>
        LET n == Len(chunk[c])
            start == cpos[c].offset - n
            w == Width(cpos[c].bom) IN
        /\ cpos[c].pos = cpos[c].offset
        /\ Origin(c) <= start
        /\ (start - Origin(c)) % w = 0 /\ n % w = 0
        /\ Border(c, start) /\ Border(c, cpos[c].offset)
        /\ disk[outfd[c]] = Converted(c, start)
        /\ chunk[c] = HostOrder(cpos[c].bom, start, n)
        /\ size[c] = start - Origin(c)

Local(c) ==
    /\ Held(c) /\ Fresh(c) /\ Behind(c) /\ Tiled(c)
    /\ Succeeds(c) /\ Roomy(cpos[c]) => Complete(c)

IInv == TypeOK /\ Exclusive /\ \A c \in Caller : Local(c)

-----------------------------------------------------------------------------
(***************************************************************************)
(* What convd_api.h says and the code does not do                          *)
(***************************************************************************)

\* The step by which a call of c returns r.
Returns(c, r) == pc[c] # "idle" /\ pc'[c] = "idle" /\ ret'[c] = r

\* "Upon successful completion, it returns CONVD_NOERROR(0). Otherwise, returns
\* error codes list": a call that returns 0 has converted its input.
NoErrorMeansConverted ==
    [][\A c \in Caller : Returns(c, CONVD_NOERROR) =>
           /\ outfd[c] # NoFile
           /\ disk[outfd[c]] = Converted(c, cpos[c].offset)]_vars

\* "CONVD_ERR_INSUFF ... You should increase linesizemax and try again": a call
\* that is not given room enough does not succeed with another text.
CompleteOnSuccess ==
    \A c \in Caller :
        Succeeds(c) /\ cpos[c].linesize >= Width(cpos[c].bom) => Complete(c)

\* Bytes i to j of the input belong to one line, its newline included.
SameLine(i, j) == \A k \in i..j - 1 : file[k] # 10

\* "linesizemax ... must be big enough to read entire line of input text": the
\* buffer is found insufficient only where a line fills it.
InsufficientMeansLongLine ==
    \A c \in Caller :
        LET b == Buffer(cpos[c]) IN
        pc[c] = "read" /\ b # << >> /\ Insufficient(cpos[c], b) =>
            \E i, j \in 1..Len(file) :
                j - i + 1 >= cpos[c].linesize /\ SameLine(i, j)
=============================================================================
