-------------------------------- MODULE Readers --------------------------------
(***************************************************************************)
(* Readers that keep what they have read: a stream that looks ahead        *)
(* (LAInputStream), a stream of bytes and characters on top of one         *)
(* (DecodingReadStream), and a reader from the end (ReversedReader).       *)
(* A byte is known by its place in the source.                             *)
(***************************************************************************)
EXTENDS Integers, Sequences, FiniteSets

CONSTANTS Kinds,      \* which readers are used: "bytes", "text", "backward"
          N,          \* bytes of the source
          Starts,     \* places at which a character begins
          Newlines,   \* places of newlines
          Capacities, \* m_lookAheadCapacity, 0 for no limit
          Block,      \* DECODE_BLOCK_SIZE, and the block of the reversed reader
          Counts      \* how many bytes a call is about

VARIABLES kind,   \* the reader in use
          la,     \* LAInputStream: [cap, under, buf, pos, position]
          dec,    \* DecodingReadStream: [buf, pos, start, consumed]
          rev,    \* ReversedReader: [blocks, cur, ptr]; cur is 0 for no block
          due,    \* how many bytes are before the next one that the reader's user expects
          last    \* the last call and the places of what it gave

vars == <<kind, la, dec, rev, due, last>>

Smaller(a, b) == IF a < b THEN a ELSE b

Larger(a, b) == IF a > b THEN a ELSE b

\* The places from a to b, in order and backward
Run(a, b) == [k \in 1..Larger(b - a + 1, 0) |-> a + k - 1]

RunBack(b, a) == [k \in 1..Larger(b - a + 1, 0) |-> b - k + 1]

-------------------------------------------------------------------------------
(* LAInputStream                                                           *)

Unread(l) == Len(l.buf) - l.pos

\* mutant of Compacted: the bytes move, the position does not
CompactedInPart(l) == [l EXCEPT !.buf = SubSeq(@, l.pos + 1, Len(@))]

\* compact
Compacted(l) == [l EXCEPT !.buf = SubSeq(@, l.pos + 1, Len(@)), !.pos = 0]

\* readUnbuffered
Fetched(l, n) ==
    LET k == Smaller(n, N - l.under)
    IN  [l EXCEPT !.buf = @ \o Run(l.under + 1, l.under + k), !.under = @ + k]

\* prefetch, expandCapacity
Spare(l, len) == IF l.cap = 0 THEN len ELSE l.cap - Len(l.buf)

Filled(l, len) == Fetched(l, Smaller(len - Unread(l), Spare(l, len)))

Prefetched(l, len) ==
    IF Unread(l) >= len THEN l
    ELSE Filled(IF l.cap > 0 /\ len > l.cap - l.pos THEN Compacted(l) ELSE l, len)

\* What a call leaves and gives
Gave(l, given) == [l |-> l, given |-> given]

Taken(l, n) == Gave([l EXCEPT !.pos = @ + n, !.position = @ + n], SubSeq(l.buf, l.pos + 1, l.pos + n))

\* read(buf, off, len): prefetches until it has all or there is no more; read is one byte
RECURSIVE ReadBytes(_, _, _)
ReadBytes(l, len, given) ==
    LET p == Prefetched(l, len)
        t == Taken(p, Smaller(len, Unread(p)))
    IN  IF len = 0 \/ t.given = <<>> THEN Gave(IF len = 0 THEN l ELSE p, given)
        ELSE ReadBytes(t.l, len - Len(t.given), given \o t.given)

\* readRawLine
RECURSIVE ReadLine(_, _)
ReadLine(l, given) ==
    LET r == ReadBytes(l, 1, <<>>)
    IN  IF r.given = <<>> THEN Gave(r.l, given)
        ELSE IF r.given[1] \in Newlines THEN Gave(r.l, given \o r.given)
        ELSE ReadLine(r.l, given \o r.given)

\* lookAhead
LookedAhead(l, len) ==
    LET p == Prefetched(l, len)
    IN  Gave(p, SubSeq(p.buf, p.pos + 1, p.pos + Smaller(len, Unread(p))))

\* discardPrefetch
Discarded(l) == [l EXCEPT !.buf = <<>>, !.pos = 0]

\* skip: the buffer first, and the rest in the stream below
Skipped(l, n) ==
    IF Unread(l) >= n THEN [l EXCEPT !.pos = @ + n, !.position = @ + n]
    ELSE LET rest == Smaller(n - Unread(l), N - l.under)
         IN  [Discarded(l) EXCEPT !.under = @ + rest, !.position = @ + Unread(l) + rest]

Sought(l, delta, ok) == [ok |-> ok, l |-> IF ok THEN [l EXCEPT !.pos = @ + delta, !.position = @ + delta] ELSE l]

\* seek: a place from the beginning is taken from that of the buffer, but added to where
\* the reader is; and a step back is refused when it stays in the buffer.
SeekBy(l, delta) ==
    Sought(l, delta, IF delta < 0 THEN -delta >= l.pos ELSE delta <= Unread(l))

SeekTo(l, offset) ==
    LET start == Larger(l.position - l.pos, 0)
    IN  IF offset >= start /\ offset < l.position + Unread(l) THEN SeekBy(l, offset - start)
        ELSE Sought(l, 0, FALSE)

-------------------------------------------------------------------------------
(* DecodingReadStream                                                      *)

NoText == [buf |-> <<>>, pos |-> 0, start |-> -1, consumed |-> 0]

\* discardDecodedBuffer: back to where decoding began, if the stream below goes there;
\* and what it has read ahead is thrown away.
Both(l, d) == [l |-> l, d |-> d]

Dropped(l, d) ==
    LET s == SeekTo(l, d.start)
    IN  IF d.start >= 0 /\ d.consumed > 0 /\ s.ok THEN Both(Discarded(s.l), NoText) ELSE Both(l, d)

\* The bytes of the character that is next in the decoded buffer: one byte of a character
\* that is not all there (a replacement is given for it).
NextWidth(d) ==
    LET from == d.buf[d.pos + 1]
        ends == {n \in 1..(N - from + 1) : from + n \in Starts \cup {N + 1}}
        width == CHOOSE n \in ends : \A m \in ends : n <= m
    IN  IF from \in Starts /\ d.pos + width <= Len(d.buf)
           /\ SubSeq(d.buf, d.pos + 1, d.pos + width) = Run(from, from + width - 1)
        THEN width ELSE 1

\* decodeFromBuffer
Decoded(l, d) ==
    IF d.pos >= Len(d.buf) THEN [l |-> l, d |-> d, given |-> <<>>]
    ELSE LET w == NextWidth(d)
         IN  [l |-> l, d |-> [d EXCEPT !.pos = @ + w], given |-> SubSeq(d.buf, d.pos + 1, d.pos + w)]

\* readChar: a block is read when all that was decoded is given.
WithBlock(r, d) ==
    Decoded(r.l, [d EXCEPT !.buf = @ \o r.given, !.consumed = @ + Len(r.given)])

\* A block, byte by byte
RECURSIVE ReadBlock(_, _)
ReadBlock(l, given) ==
    LET r == ReadBytes(l, 1, <<>>)
    IN  IF Len(given) = Block THEN Gave(l, given)
        ELSE IF r.given = <<>> THEN Gave(r.l, given)
        ELSE ReadBlock(r.l, given \o r.given)

CharRead(l, d) ==
    IF d.pos < Len(d.buf) THEN Decoded(l, d)
    ELSE WithBlock(ReadBlock(l, <<>>),
                   IF d.start < 0 THEN [d EXCEPT !.start = l.position, !.consumed = 0] ELSE d)

-------------------------------------------------------------------------------
(* ReversedReader, of which every block stays                              *)

\* Bytes of the source before those in blocks
RECURSIVE Left(_)
Left(blocks) == IF blocks = <<>> THEN N ELSE Left(SubSeq(blocks, 1, Len(blocks) - 1)) - blocks[Len(blocks)]

\* next: the block that is kept, or one fetched, or none
NextBlock(r) ==
    LET n == Smaller(Block, Left(r.blocks))
    IN  IF r.cur < Len(r.blocks) THEN [r EXCEPT !.cur = @ + 1, !.ptr = r.blocks[r.cur + 1]]
        ELSE IF n = 0 THEN [r EXCEPT !.cur = 0, !.ptr = 0]
        ELSE [blocks |-> Append(r.blocks, n), cur |-> r.cur + 1, ptr |-> n]

GaveBack(r, given) == [r |-> r, given |-> given]

\* Bytes of the source before those that were given
Offset(r) == IF r.cur = 0 THEN 0 ELSE Left(SubSeq(r.blocks, 1, r.cur)) + r.ptr

\* read(buf, end, len)
RECURSIVE ReadBack(_, _, _)
ReadBack(r, len, given) ==
    IF r.cur = 0 \/ len = 0 THEN GaveBack(r, given)
    ELSE IF r.ptr = 0 THEN ReadBack(NextBlock(r), len, given)
    ELSE LET n == Smaller(r.ptr, len)
         IN  ReadBack([r EXCEPT !.ptr = @ - n], len - n, given \o RunBack(Offset(r), Offset(r) - n + 1))

\* reject: from the last block when all was read; as far as the first goes, or not at all
RECURSIVE Rewound(_, _)
Rewound(r, n) ==
    LET k == Smaller(n, r.blocks[r.cur] - r.ptr)
    IN  IF n = 0 \/ r.cur = 0 THEN r
        ELSE IF k > 0 THEN Rewound([r EXCEPT !.ptr = @ + k], n - k)
        ELSE Rewound([r EXCEPT !.cur = @ - 1, !.ptr = 0], n)

FromTail(r) == IF r.cur = 0 THEN [r EXCEPT !.cur = Len(r.blocks), !.ptr = 0] ELSE r

Rejected(r, n) ==
    LET w == Rewound(FromTail(r), n)
    IN  IF w.cur = 0 THEN r ELSE w

\* readRawLine: a newline ends the line before it, unless it is the first byte
RECURSIVE LineBack(_, _)
LineBack(r, given) ==
    LET b == ReadBack(r, 1, <<>>)
    IN  IF b.given = <<>> THEN GaveBack(b.r, given)
        ELSE IF b.given[1] \in Newlines /\ given # <<>> THEN GaveBack(Rejected(b.r, 1), given)
        ELSE LineBack(b.r, given \o b.given)

-------------------------------------------------------------------------------

Called(call, n, given) == last' = [call |-> call, n |-> n, given |-> given]

Init ==
    /\ kind \in Kinds
    /\ \E cap \in Capacities : la = [cap |-> cap, under |-> 0, buf |-> <<>>, pos |-> 0, position |-> 0]
    /\ dec = NoText
    /\ rev = NextBlock([blocks |-> <<>>, cur |-> 0, ptr |-> 0])
    /\ due = IF kind = "backward" THEN N ELSE 0
    /\ last = [call |-> "none", n |-> 0, given |-> <<>>]

\* A call of the stream that looks ahead, which gives places and leaves l
Ends(call, n, o, newDue) ==
    /\ la' = o.l
    /\ due' = newDue
    /\ Called(call, n, o.given)
    /\ UNCHANGED <<kind, dec, rev>>

\* Where an earlier call went before the buffer, the next would read what is there.
InBuffer == la.pos >= 0

Read(n) == \E o \in {ReadBytes(la, n, <<>>)} : Ends("read", n, o, due + Len(o.given))

ReadRawLine == \E o \in {ReadLine(la, <<>>)} : Ends("line", 0, o, due + Len(o.given))

LookAhead(n) == \E o \in {LookedAhead(la, n)} : Ends("look", n, o, due)

Skip(n) == \E l \in {Skipped(la, n)} : Ends("skip", n, Gave(l, <<>>), due + l.position - la.position)

Reject(n) ==
    /\ n <= la.pos
    /\ Ends("reject", n, Gave([la EXCEPT !.pos = @ - n, !.position = @ - n], <<>>), due - n)

Seek(offset) ==
    \E s \in {SeekTo(la, offset)} : s.ok /\ Ends("seek", offset, Gave(s.l, <<>>), offset)

SeekFrom(delta) ==
    \E s \in {SeekBy(la, delta)} : s.ok /\ Ends("step", delta, Gave(s.l, <<>>), due + delta)

DiscardPrefetch == Ends("discard", 0, Gave(Discarded(la), <<>>), due)

OfBytes ==
    /\ kind = "bytes" /\ InBuffer
    /\ \/ \E n \in Counts : Read(n) \/ LookAhead(n) \/ Skip(n) \/ Reject(n) \/ SeekFrom(n) \/ SeekFrom(-n)
       \/ \E offset \in 0..N : Seek(offset)
       \/ ReadRawLine
       \/ DiscardPrefetch

-------------------------------------------------------------------------------

TextEnds(call, n, b, o, newDue) ==
    /\ la' = o.l
    /\ dec' = b.d
    /\ due' = newDue
    /\ Called(call, n, o.given)
    /\ UNCHANGED <<kind, rev>>

ReadChar ==
    \E o \in {CharRead(la, dec)} :
        TextEnds("char", Len(dec.buf) - dec.pos, o, o, due + Len(o.given))

\* read, readBytes, readRawLine
ReadRaw(n) ==
    \E b \in {Dropped(la, dec)} : \E o \in {ReadBytes(b.l, n, <<>>)} :
        TextEnds("raw", n, b, o, due + Len(o.given))

ReadRawTextLine ==
    \E b \in {Dropped(la, dec)} : \E o \in {ReadLine(b.l, <<>>)} :
        TextEnds("raw", 0, b, o, due + Len(o.given))

SkipText(n) ==
    \E b \in {Dropped(la, dec)} : \E l \in {Skipped(b.l, n)} :
        TextEnds("skip", n, b, Gave(l, <<>>), due + l.position - b.l.position)

SeekText(offset) ==
    \E b \in {Dropped(la, dec)} : \E s \in {SeekTo(b.l, offset)} :
        TextEnds("seek", offset, b, Gave(s.l, <<>>), IF s.ok THEN offset ELSE due)

OfText ==
    /\ kind = "text" /\ InBuffer
    /\ \/ ReadChar
       \/ \E n \in Counts : ReadRaw(n) \/ SkipText(n)
       \/ ReadRawTextLine
       \/ \E offset \in 0..N : SeekText(offset)

-------------------------------------------------------------------------------

BackEnds(call, n, o, newDue) ==
    /\ rev' = o.r
    /\ due' = newDue
    /\ Called(call, n, o.given)
    /\ UNCHANGED <<kind, la, dec>>

ReadBackward(n) == \E o \in {ReadBack(rev, n, <<>>)} : BackEnds("back", n, o, due - Len(o.given))

ReadLineBackward == \E o \in {LineBack(rev, <<>>)} : BackEnds("lineback", 0, o, due - Len(o.given))

RejectBackward(n) ==
    /\ due + n <= N
    /\ BackEnds("rejectback", n, GaveBack(Rejected(rev, n), <<>>), due + n)

\* lookAhead reads and rejects what it has read.
LookBackward(n) ==
    \E o \in {ReadBack(rev, n, <<>>)} :
        BackEnds("lookback", n, GaveBack(Rejected(o.r, Len(o.given)), o.given), due)

Backward ==
    /\ kind = "backward"
    /\ \/ \E n \in Counts : ReadBackward(n) \/ RejectBackward(n) \/ LookBackward(n)
       \/ ReadLineBackward

Next == OfBytes \/ OfText \/ Backward

Spec == Init /\ [][Next]_vars

-------------------------------------------------------------------------------

\* What a stream is going to give is what comes next in the source.
LooksAt(l, from) ==
    /\ l.pos >= 0 /\ l.pos <= Len(l.buf)
    /\ l.under = from + Unread(l)
    /\ SubSeq(l.buf, l.pos + 1, Len(l.buf)) = Run(from + 1, l.under)

InOrder ==
    IF kind = "backward" THEN Offset(rev) = due
    ELSE IF kind = "bytes" THEN LooksAt(la, due) /\ la.position = due
    ELSE LET ahead == Len(dec.buf) - dec.pos
         IN  /\ SubSeq(dec.buf, dec.pos + 1, Len(dec.buf)) = Run(due + 1, due + ahead)
             /\ LooksAt(la, due + ahead)

GivesWhatIsDue ==
    last'.given = IF kind = "backward" THEN RunBack(due, due - Len(last'.given) + 1)
                  ELSE Run(due + 1, due + Len(last'.given))

\* The place at which the character of p begins
CharOf(p) == CHOOSE s \in Starts : s <= p /\ \A q \in Starts : q <= p => q <= s

\* A line read backward is a whole line, from where the reader was.
WholeLine ==
    last'.call = "lineback" =>
        /\ due' = 0 \/ due' \in Newlines
        /\ \A b \in (due' + 1)..(due - 1) : b \notin Newlines
        /\ due > 0 => due' < due

\* The reader stays where its user takes it to be, over refills, compactions, skips and
\* rejections, and gives every byte there is; but a stream that looks ahead loses its
\* place by a seek while something before it is in the buffer, by a step back before the
\* buffer, and by dropping what it has read ahead; and a stream of text loses its place
\* when bytes are asked for after characters.  A character is given as another only
\* where a block of bytes ends in it.
StaysInPlace ==
    InOrder =>
        /\ \/ InOrder'
           \/ kind = "bytes" /\ last'.call = "seek" /\ la.pos > 0
           \/ kind = "bytes" /\ last'.call = "step" /\ la.pos + last'.n < 0
           \/ kind = "bytes" /\ last'.call = "discard" /\ Unread(la) > 0
           \/ kind = "text" /\ last'.call \in {"raw", "skip", "seek"} /\ dec.start >= 0
           \/ kind = "text" /\ last'.call = "seek" /\ la.pos > 0
        /\ GivesWhatIsDue \/ (kind = "text" /\ last'.call = "raw" /\ dec.start >= 0)
        /\ last'.call \in {"read", "back"} => Len(last'.given) = Smaller(last'.n, IF kind = "backward" THEN due ELSE N - due)
        /\ WholeLine
        /\ last'.call = "char" /\ last'.given # <<>> =>
              \/ (due + 1 \in Starts /\ due' + 1 \in Starts \cup {N + 1})
              \/ \E b \in 1..(N - 1) : /\ CharOf(b) = CharOf(due + 1) /\ CharOf(b + 1) = CharOf(b)
                                      /\ (b - dec'.start) % Block = 0
===============================================================================
