----------------------------- MODULE NetParser ------------------------------
(***************************************************************************)
(* Bytes in and out: NetParser and NetUnparser (libsponge/util/parser.cc)  *)
(* and InternetChecksum (libsponge/util/util.cc).  A layout is the         *)
(* sequence of the fields of a header, each with its name and its size in  *)
(* bytes.  An integer of 8 or 16 bits is a number; a wider value (an IP or *)
(* Ethernet address, a sequence number) is the sequence of its 16-bit      *)
(* words, because TLC's integers end at 2^31.                              *)
(***************************************************************************)
EXTENDS Naturals, SequencesExt, Calls

Word(hi, lo) == 256 * hi + lo

\* The value of the bytes of a field, most significant byte first.
Value(bytes) ==
    IF Len(bytes) = 1 THEN bytes[1]
    ELSE IF Len(bytes) = 2 THEN Word(bytes[1], bytes[2])
    ELSE [k \in 1 .. Len(bytes) \div 2 |-> Word(bytes[2 * k - 1], bytes[2 * k])]

\* What a parser that is in error, or at its end, returns.
Zero(size) == Value([k \in 1 .. size |-> 0])

NewParser(buffer) == [buffer |-> buffer, error |-> "NoError"]

check_size(p, size) == IF size > Len(p.buffer) THEN [p EXCEPT !.error = "PacketTooShort"] ELSE p

\* The value returned, and the parser afterwards.  Once there is an error the
\* buffer stays as it is.
parse_int(p, size) ==
    IF check_size(p, size).error # "NoError"
    THEN [value |-> Zero(size), parser |-> check_size(p, size)]
    ELSE [value |-> Value(SubSeq(p.buffer, 1, size)),
          parser |-> [p EXCEPT !.buffer = SubSeq(@, size + 1, Len(@))]]

remove_prefix(p, n) ==
    IF check_size(p, n).error # "NoError" THEN check_size(p, n)
    ELSE [p EXCEPT !.buffer = SubSeq(@, n + 1, Len(@))]

\* All fields of a layout, read one after the other.
ParseFields(p, layout) ==
    FoldLeft(LAMBDA acc, field :
                Then(parse_int(acc.parser, field[2]), LAMBDA got :
                    [parser |-> got.parser, fields |-> (field[1] :> got.value) @@ acc.fields]),
             [parser |-> p, fields |-> << >>], layout)

unparse_int(value, size) ==
    IF size = 1 THEN <<value>>
    ELSE IF size = 2 THEN <<value \div 256, value % 256>>
    ELSE FlattenSeq([k \in 1 .. Len(value) |-> <<value[k] \div 256, value[k] % 256>>])

UnparseFields(fields, layout) ==
    FlattenSeq([k \in DOMAIN layout |-> unparse_int(fields[layout[k][1]], layout[k][2])])

-----------------------------------------------------------------------------
\* A mutant: a trailing odd byte does not count.
add_EvenOnly(sum, bytes) ==
    FoldLeft(LAMBDA s, k : s + Word(bytes[2 * k - 1], bytes[2 * k]),
             sum, [k \in 1 .. Len(bytes) \div 2 |-> k])

\* InternetChecksum::add(): every other byte is the high half of a word; a
\* trailing odd byte counts as a high half.
add(sum, bytes) ==
    FoldLeft(LAMBDA s, k : s + (IF k % 2 = 1 THEN 256 * bytes[k] ELSE bytes[k]),
             sum, [k \in DOMAIN bytes |-> k])

\* InternetChecksum::value(): fold the carries, then complement.
carry[sum \in Nat] ==
    IF sum > 65535 THEN carry[(sum \div 65536) + (sum % 65536)] ELSE sum

checksum(sum, bytes) == 65535 - carry[add(sum, bytes)]
=============================================================================
