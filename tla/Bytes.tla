-------------------------------- MODULE Bytes --------------------------------
(***************************************************************************)
(* The bytes of the format: how wide numbers are written, how the output   *)
(* buffer grows, and how the reader stays in its input.  The writer's and  *)
(* reader's walks are Serialize and Unserialize; here the walk is the list *)
(* of elements it writes, and the reader is asked for as many.  A byte has *)
(* Base values instead of 256.  64-bit builds of PHP.                      *)
(***************************************************************************)
EXTENDS Integers, Sequences

CONSTANTS Base,       \* values of a byte, 256 in the code
          Elements,   \* what may be written
          MaxElems,   \* bound on how many are
          Capacity,   \* of the first buffer, 32 in the code
          StringsCapacity  \* of the first table of strings, 4 in the code

VARIABLES
    elems,            \* what was written so far
    chunks,           \* what the element under way still appends
    buffer,           \* igsd->buffer up to buffer_size
    buffer_capacity,
    input,            \* what is given to igbinary_unserialize
    pos,              \* buffer_ptr
    read,             \* the elements read
    strings_count, strings_capacity,
    status            \* "writing", "written", "reading", "done", "failed"

wvars == << elems, chunks, buffer, buffer_capacity >>
strs  == << strings_count, strings_capacity >>
vars  == << wvars, input, pos, read, strs, status >>

\* A byte is a digit, or the type of an element with the width that follows it.
Byte(d)      == << "byte", d >>
Type(k, w)   == << k, w >>
Header       == << Byte(0), Byte(0), Byte(0), << "version", 2 >> >>
\* Base to the n, for the widths there are
Power[n \in 0..8] == IF n = 0 THEN 1 ELSE Base * Power[n - 1]
Digits(n, w) == [i \in 1..w |-> Byte((n \div Power[w - i]) % Base)]
Body(len)    == [i \in 1..len |-> Byte(len % Base)]

\* Elements: v holds the number, or is the string.
Number(k, n) == [kind |-> k, v |-> << << "number", n >> >>]
Long(l)      == Number("long", l)
Text(k, len) == [kind |-> k, v |-> Body(len)]
Plain(k)     == [kind |-> k, v |-> << >>]

Plains  == {"null", "bool_false", "bool_true"}
Numbers == {"string_id", "object_id", "ref", "objref", "array"}
Texts   == {"string", "object", "object_ser"}

\* A number is below the eight bytes that the widest takes, and a long has half
\* of them on each side of 0.
HasWidth(e) ==
    \/ \E k \in Plains : e = Plain(k)
    \/ \E l \in -(Power[8] \div 2)..(Power[8] \div 2 - 1) : e = Long(l)
    \/ \E k \in Numbers \cup {"double"}, n \in 0..(Power[8] - 1) : e = Number(k, n)
    \/ \E k \in Texts : /\ e = [kind |-> k, v |-> e.v]
                        /\ e.v \in Seq({Byte(d) : d \in 0..(Base - 1)})
                        /\ Len(e.v) < Power[8]

BytesAssumption ==
    /\ Base \in Nat \ {0, 1}
    /\ Capacity \in Nat /\ Capacity >= Len(Header)
    /\ StringsCapacity \in Nat \ {0}
    /\ \A e \in Elements : HasWidth(e)

(***************************************************************************)
(* Writing.  A chunk is what one call asks the buffer to have room for,    *)
(* and the bytes it then puts there.                                       *)
(***************************************************************************)
Chunk(n, bytes) == [room |-> n, bytes |-> bytes]

\* igbinary_serialize8_and_8, _and_16, _and_32, _and_64
Sized(k, w, n) == Chunk(w + 1, << Type(k, w) >> \o Digits(n, w))

Fits(n, w) == n < Power[w]
Width(n) == IF Fits(n, 1) THEN 1 ELSE IF Fits(n, 2) THEN 2 ELSE IF Fits(n, 4) THEN 4 ELSE 8

SerializeLong(l) ==
    LET k == IF l >= 0 THEN l ELSE -l
    IN  << Sized(IF l >= 0 THEN "long_p" ELSE "long_n", Width(k), k) >>

SerializeNumber(k, n) == << Sized(k, Width(n), n) >>

\* igbinary_serialize_chararray: type, length and contents at once
SerializeString(s) ==
    LET w == Width(Len(s))
    IN  IF s = << >> THEN << Chunk(1, << Type("string_empty", 0) >>) >>
        ELSE << Chunk(Len(s) + w + 1,
                      << Type("string", w) >> \o Digits(Len(s), w) \o s) >>

\* mutant: room for the type and the length only
SerializeNameUnchecked(k, s) ==
    << Sized(k, Width(Len(s)), Len(s)), Chunk(0, s) >>
\* class names and what serialize() returned: the contents are a second chunk
SerializeName(k, s) ==
    << Sized(k, Width(Len(s)), Len(s)), Chunk(Len(s), s) >>

ChunksOf(e) ==
    CASE e.kind \in Plains   -> << Chunk(1, << Type(e.kind, 0) >>) >>
      [] e.kind = "long"     -> SerializeLong(e.v[1][2])
      [] e.kind = "double"   -> << Sized("double", 8, e.v[1][2]) >>
      [] e.kind \in Numbers  -> SerializeNumber(e.kind, e.v[1][2])
      [] e.kind = "string"   -> SerializeString(e.v)
      [] e.kind \in {"object", "object_ser"} -> SerializeName(e.kind, e.v)

\* igbinary_raise_capacity: doubled at least once, until there is room
Raised(capacity, size) ==
    LET doubled[j \in 0..size] == IF j = 0 THEN capacity ELSE 2 * doubled[j - 1]
    IN  doubled[CHOOSE j \in 1..size : /\ size < doubled[j]
                                       /\ \A i \in 1..(j - 1) : size >= doubled[i]]
\* igbinary_serialize_resize
Resized(n) == IF Len(buffer) + n < buffer_capacity THEN buffer_capacity
              ELSE Raised(buffer_capacity, Len(buffer) + n)
Put(c) == /\ buffer_capacity' = Resized(c.room)
          /\ buffer' = buffer \o c.bytes

Init ==
    /\ elems = << >> /\ chunks = << >>
    /\ buffer = Header /\ buffer_capacity = Capacity
    /\ input = << >> /\ pos = 0 /\ read = << >>
    /\ strings_count = 0 /\ strings_capacity = StringsCapacity
    /\ status = "writing"

Serialize(e) ==
    /\ status = "writing" /\ chunks = << >> /\ Len(elems) < MaxElems
    \* names and serialized data of 4GB and more are refused
    /\ e.kind \in {"object", "object_ser"} => Fits(Len(e.v), 4)
    /\ elems' = Append(elems, e)
    /\ chunks' = ChunksOf(e)
    /\ UNCHANGED << buffer, buffer_capacity, input, pos, read, strs, status >>

RefuseName(e) ==
    /\ status = "writing" /\ chunks = << >> /\ Len(elems) < MaxElems
    /\ e.kind \in {"object", "object_ser"} /\ ~Fits(Len(e.v), 4)
    /\ status' = "failed"
    /\ UNCHANGED << wvars, input, pos, read, strs >>

AppendChunk ==
    /\ chunks # << >>
    /\ Put(Head(chunks))
    /\ chunks' = Tail(chunks)
    /\ UNCHANGED << elems, input, pos, read, strs, status >>

\* a terminating 0, which the length that is returned leaves out
End ==
    /\ status = "writing" /\ chunks = << >> /\ elems # << >>
    /\ Put(Chunk(1, << Byte(0) >>))
    /\ status' = "written"
    /\ UNCHANGED << elems, chunks, input, pos, read, strs >>

\* what was written is given to the reader, whole or cut short
Pass ==
    /\ status = "written"
    /\ \E n \in 0..(Len(buffer) - 1) : input' = SubSeq(buffer, 1, n)
    /\ status' = "reading"
    /\ UNCHANGED << wvars, pos, read, strs >>

(***************************************************************************)
(* Reading.                                                                *)
(***************************************************************************)
At(p) == IF p < Len(input) THEN input[p + 1] ELSE Byte(0)
NeedsMoreData(p, n) == Len(input) - p < n
NumberAt(p, w) ==
    LET value[i \in 0..w] == IF i = 0 THEN 0 ELSE value[i - 1] * Base + At(p + i - 1)[2]
    IN  value[w]
BytesAt(p, n) == [i \in 1..n |-> At(p + i - 1)]

\* mutant: one byte is enough for every width
NeedsOneByte(p, w) == NeedsMoreData(p, 1)
\* the widths are checked before the number is read
NeedsNumber(p, w) == NeedsMoreData(p, w)

\* mutant: the smallest integer is refused with those that do not fit
LongRefusing(k, w, n) ==
    LET m == IF w = 8 /\ n >= Power[8] \div 2 THEN 0 ELSE n
    IN  Long(IF k = "long_p" THEN m ELSE -m)
\* igbinary_unserialize_long: a magnitude that does not fit reads as 0
LongOf(k, w, n) ==
    LET half == Power[8] \div 2
        m == IF w = 8 /\ n >= half /\ (n > half \/ k = "long_p") THEN 0 ELSE n
    IN  Long(IF k = "long_p" THEN m ELSE -m)

ReadHeader ==
    /\ status = "reading" /\ pos = 0
    /\ ~NeedsMoreData(0, 5)
    /\ pos' = 4
    /\ UNCHANGED << wvars, input, read, strs, status >>

Kind == At(pos)[1]
Wide == At(pos)[2]
AtElement == status = "reading" /\ pos >= 4 /\ Len(read) < Len(elems) /\ ~NeedsMoreData(pos, 1)

Advance(p, e) ==
    /\ pos' = p
    /\ read' = Append(read, e)
    /\ UNCHANGED << wvars, input, status >>

ReadPlain ==
    /\ AtElement /\ Kind \in Plains \cup {"string_empty"}
    /\ Advance(pos + 1, IF Kind = "string_empty" THEN Text("string", 0) ELSE Plain(Kind))
    /\ UNCHANGED strs

ReadNumber ==
    /\ AtElement /\ Kind \in Numbers \cup {"long_p", "long_n", "double"}
    /\ ~NeedsNumber(pos + 1, Wide)
    /\ LET n == NumberAt(pos + 1, Wide)
       IN  Advance(pos + 1 + Wide,
                   IF Kind \in {"long_p", "long_n"} THEN LongOf(Kind, Wide, n)
                   ELSE Number(Kind, n))
    /\ UNCHANGED strs

\* mutant: the contents are not checked
ShortAtLength == NeedsNumber(pos + 1, Wide)
ShortText == \/ NeedsNumber(pos + 1, Wide)
             \/ NeedsMoreData(pos + 1 + Wide, NumberAt(pos + 1, Wide))

TableFull == strings_count + 1 > strings_capacity

\* igbinary_unserialize_chararray, and igbinary_unserialize_object_ser, whose
\* contents get no number
ReadText ==
    /\ AtElement /\ Kind \in Texts /\ ~ShortText
    /\ LET len   == NumberAt(pos + 1, Wide)
           start == pos + 1 + Wide
       IN  Advance(start + len, [kind |-> Kind, v |-> BytesAt(start, len)])
    /\ IF Kind = "object_ser" THEN UNCHANGED strs
       ELSE /\ strings_count' = strings_count + 1
            /\ strings_capacity' = IF TableFull THEN strings_capacity * 2 ELSE strings_capacity

CannotRead ==
    \/ pos = 0 /\ NeedsMoreData(0, 5)
    \/ /\ pos >= 4 /\ Len(read) < Len(elems)
       /\ \/ NeedsMoreData(pos, 1)
          \/ Kind \in Numbers \cup {"long_p", "long_n", "double"} /\ NeedsNumber(pos + 1, Wide)
          \/ Kind \in Texts /\ ShortText

EndOfData ==
    /\ status = "reading" /\ CannotRead
    /\ status' = "failed"
    /\ UNCHANGED << wvars, input, pos, read, strs >>

Finish ==
    /\ status = "reading" /\ pos >= 4 /\ Len(read) = Len(elems)
    /\ status' = IF pos < Len(input) THEN "failed" ELSE "done"
    /\ UNCHANGED << wvars, input, pos, read, strs >>

Next == \/ (\E e \in Elements : Serialize(e) \/ RefuseName(e)) \/ AppendChunk \/ End \/ Pass
        \/ ReadHeader \/ ReadPlain \/ ReadNumber \/ ReadText \/ EndOfData \/ Finish

Spec == Init /\ [][Next]_vars

(***************************************************************************)
(* Properties.                                                             *)
(***************************************************************************)
Whole == Len(input) = Len(buffer) - 1

\* No byte is written past the end of the buffer, whatever is appended and
\* however often it has to grow.
WritesInBuffer == Len(buffer) <= buffer_capacity

\* No byte is read past the end of the input, cut as it may be, and no string is
\* put past the end of the table of strings.
ReadsInBounds == pos <= Len(input) /\ strings_count <= strings_capacity

\* What was written is read back, every number with its sign and every string
\* with its length, the largest and the smallest of each width included.
WrittenIsRead ==
    /\ status = "done" => read = elems
    /\ status = "failed" => ~Whole \/ input = << >>

\* Input that is cut anywhere is refused.
CutIsRefused == status = "done" => Whole
=============================================================================
