----------------------------- MODULE ConvertUTF -----------------------------
(***************************************************************************)
(* The six conversions of ConvertUTF.c between UTF-8, UTF-16 and UTF-32,   *)
(* one step per iteration of their loops, and a caller that gives them a   *)
(* buffer too small for the text and goes on where they stopped.  Code     *)
(* units and code points are the numbers they are.                         *)
(***************************************************************************)
EXTENDS Integers, Sequences

CONSTANTS
  Sources,  \* the texts converted: records [form, units]
  Rooms     \* bound: the sizes of the target buffers the caller has

Forms == {"UTF8", "UTF16", "UTF32"}
ConversionFlags == {"strict", "lenient"}
UNI_REPLACEMENT_CHAR == 65533

\* UTF8, UTF16 and UTF32, the types of the units
Units(form) == {u \in Nat : (form = "UTF8" => u < 256) /\ (form = "UTF16" => u < 65536)}

ASSUME ConvertAssumption ==
  /\ Rooms \subseteq Nat
  /\ \A text \in Sources : text.form \in Forms /\ text.units \in Seq(Units(text.form))

VARIABLES
  src,      \* the text
  to,       \* the form to convert it to
  flags,    \* ConversionFlags
  source,   \* the units of src before *sourceStart
  written,  \* the target buffer up to *targetStart
  room,     \* its size
  out,      \* what the caller took from the buffers of earlier calls
  result,   \* the variable result, and what the last call returned
  running   \* in the loop of a conversion

textVars == <<src, to, flags>>
convVars == <<textVars, source, written, room, out, result, running>>

ConvertInit ==
  /\ src \in Sources /\ to \in Forms \ {src.form} /\ flags \in ConversionFlags
  /\ source = 0 /\ written = <<>> /\ room = 0 /\ out = <<>>
  /\ result = "targetExhausted" /\ running = FALSE

Rest == SubSeq(src.units, source + 1, Len(src.units))
Conversion(f, t) == running /\ Rest # <<>> /\ src.form = f /\ to = t
Strict == flags = "strict"

Break(r) ==
  /\ result' = r /\ running' = FALSE /\ UNCHANGED <<textVars, source, written, room, out>>

\* the units are written if there is room, and n units of the source consumed
Put_Unchecked(n, units) ==
  /\ written' = written \o units /\ source' = source + n
  /\ UNCHANGED <<textVars, room, out, running>>
Put(n, units) ==
  /\ Len(written) + Len(units) <= room
  /\ written' = written \o units /\ source' = source + n
  /\ UNCHANGED <<textVars, room, out, running>>
PutAndGoOn(n, units) == Put(n, units) /\ UNCHANGED result
NoRoom(units) == Len(written) + Len(units) > room /\ Break("targetExhausted")
Write(n, units) == PutAndGoOn(n, units) \/ NoRoom(units)

-----------------------------------------------------------------------------
(* Code points *)

IsHigh(ch) == ch \in 55296..56319
IsLow(ch) == ch \in 56320..57343
IsSurrogate(ch) == IsHigh(ch) \/ IsLow(ch)
IsHuge(ch) == ch > 1114111

UTF16Units(ch) ==
  IF ch <= 65535 THEN <<ch>>
  ELSE <<(ch - 65536) \div 1024 + 55296, ((ch - 65536) % 1024) + 56320>>

\* firstByteMark, bytesToWrite and the trailing bytes of a code point
UTF8Bytes_ShortThree(ch) ==
  LET tail(n) == 128 + ((ch \div n) % 64) IN
  IF ch < 128 THEN <<ch>>
  ELSE IF ch <= 2048 THEN <<192 + ch \div 64, tail(1)>>
  ELSE IF ch < 65536 THEN <<224 + ch \div 4096, tail(64), tail(1)>>
  ELSE <<240 + ch \div 262144, tail(4096), tail(64), tail(1)>>
UTF8Bytes(ch) ==
  LET tail(n) == 128 + ((ch \div n) % 64) IN
  IF ch < 128 THEN <<ch>>
  ELSE IF ch < 2048 THEN <<192 + ch \div 64, tail(1)>>
  ELSE IF ch < 65536 THEN <<224 + ch \div 4096, tail(64), tail(1)>>
  ELSE <<240 + ch \div 262144, tail(4096), tail(64), tail(1)>>

-----------------------------------------------------------------------------
(* From UTF-32 *)

\* A huge code point with the strict flag is skipped, and the loop goes on.
ConvertUTF32toUTF16 ==
  LET ch == Head(Rest) IN
  /\ Conversion("UTF32", "UTF16")
  /\ \/ NoRoom(<<ch>>)
     \/ IsSurrogate(ch) /\ Strict /\ Len(written) < room /\ Break("sourceIllegal")
     \/ IsSurrogate(ch) /\ ~Strict /\ PutAndGoOn(1, <<UNI_REPLACEMENT_CHAR>>)
     \/ IsHuge(ch) /\ Strict /\ Len(written) < room /\ Put(1, <<>>) /\ result' = "sourceIllegal"
     \/ IsHuge(ch) /\ ~Strict /\ PutAndGoOn(1, <<UNI_REPLACEMENT_CHAR>>)
     \/ ~IsSurrogate(ch) /\ ~IsHuge(ch) /\ Len(written) < room /\ Write(1, UTF16Units(ch))

\* A huge code point becomes the replacement character and the loop goes on
\* with result set, whatever the flag.
ConvertUTF32toUTF8 ==
  LET ch == Head(Rest) IN
  /\ Conversion("UTF32", "UTF8")
  /\ \/ IsSurrogate(ch) /\ Strict /\ Break("sourceIllegal")
     \/ IsHuge(ch) /\ Put(1, UTF8Bytes(UNI_REPLACEMENT_CHAR)) /\ result' = "sourceIllegal"
     \/ IsHuge(ch) /\ NoRoom(UTF8Bytes(UNI_REPLACEMENT_CHAR))
     \/ ~(IsSurrogate(ch) /\ Strict) /\ ~IsHuge(ch) /\ Write(1, UTF8Bytes(ch))

-----------------------------------------------------------------------------
(* From UTF-16: both conversions read alike *)

\* a high surrogate and the low one that follows it
Paired == Len(Rest) > 1 /\ IsHigh(Rest[1]) /\ IsLow(Rest[2])
CutPair == Len(Rest) = 1 /\ IsHigh(Rest[1])
Unpaired == IsSurrogate(Rest[1]) /\ ~Paired /\ ~CutPair

UnitsRead == IF Paired THEN 2 ELSE 1
CodePoint16 ==
  IF Paired THEN (Rest[1] - 55296) * 1024 + (Rest[2] - 56320) + 65536 ELSE Rest[1]

ConvertUTF16toUTF32 ==
  /\ Conversion("UTF16", "UTF32")
  /\ \/ CutPair /\ Break("sourceExhausted")
     \/ Unpaired /\ Strict /\ Break("sourceIllegal")
     \/ ~CutPair /\ ~(Unpaired /\ Strict) /\ Write(UnitsRead, <<CodePoint16>>)

ConvertUTF16toUTF8 ==
  /\ Conversion("UTF16", "UTF8")
  /\ \/ CutPair /\ Break("sourceExhausted")
     \/ Unpaired /\ Strict /\ Break("sourceIllegal")
     \/ ~CutPair /\ ~(Unpaired /\ Strict) /\ Write(UnitsRead, UTF8Bytes(CodePoint16))

-----------------------------------------------------------------------------
(* From UTF-8 *)

trailingBytesForUTF8(b) ==
  IF b < 192 THEN 0 ELSE IF b < 224 THEN 1 ELSE IF b < 240 THEN 2
  ELSE IF b < 248 THEN 3 ELSE IF b < 252 THEN 4 ELSE 5

\* the first length bytes of s; after ED and F4 the second byte has no lower limit
isLegalUTF8_NoE0(s, length) ==
  /\ length \in 1..4
  /\ \A i \in 3..length : s[i] \in 128..191
  /\ length > 1 =>
       /\ s[2] <= 191
       /\ IF s[1] = 237 THEN s[2] <= 159 ELSE IF s[1] = 240 THEN s[2] >= 144
          ELSE IF s[1] = 244 THEN s[2] <= 143 ELSE s[2] >= 128
  /\ s[1] \notin 128..193 /\ s[1] <= 244
isLegalUTF8(s, length) ==
  /\ length \in 1..4
  /\ \A i \in 3..length : s[i] \in 128..191
  /\ length > 1 =>
       /\ s[2] <= 191
       /\ IF s[1] = 224 THEN s[2] >= 160 ELSE IF s[1] = 237 THEN s[2] <= 159
          ELSE IF s[1] = 240 THEN s[2] >= 144 ELSE IF s[1] = 244 THEN s[2] <= 143
          ELSE s[2] >= 128
  /\ s[1] \notin 128..193 /\ s[1] <= 244

ExtraBytes == trailingBytesForUTF8(Rest[1])

\* n numbers shifted together
Shifted(s, n) ==
  LET sum[i \in 0..n] == IF i = 0 THEN 0 ELSE sum[i - 1] * 64 + s[i]
  IN  sum[n]

\* the bytes shifted together, minus what their marks add up to
offsetsFromUTF8 == <<0, 12416, 925824, 63447168>>
CodePoint8 == Shifted(Rest, ExtraBytes + 1) - offsetsFromUTF8[ExtraBytes + 1]

\* both conversions read alike; what isLegalUTF8 lets pass is neither a
\* surrogate nor huge, so that they never replace anything
Read8(units) ==
  \/ Len(Rest) <= ExtraBytes /\ Break("sourceExhausted")
  \/ /\ Len(Rest) > ExtraBytes /\ ~isLegalUTF8(Rest, ExtraBytes + 1)
     /\ Break("sourceIllegal")
  \/ /\ Len(Rest) > ExtraBytes /\ isLegalUTF8(Rest, ExtraBytes + 1)
     /\ Write(ExtraBytes + 1, units)

ConvertUTF8toUTF16 == Conversion("UTF8", "UTF16") /\ Read8(UTF16Units(CodePoint8))
ConvertUTF8toUTF32 == Conversion("UTF8", "UTF32") /\ Read8(<<CodePoint8>>)

-----------------------------------------------------------------------------
\* the loop ends with the text, and returns what result has become
EndOfSource ==
  /\ running /\ Rest = <<>> /\ running' = FALSE
  /\ UNCHANGED <<textVars, source, written, room, out, result>>

\* the caller takes what was written and goes on with another buffer
Convert ==
  /\ ~running /\ result = "targetExhausted"
  /\ out' = out \o written /\ written' = <<>> /\ room' \in Rooms
  /\ result' = "conversionOK" /\ running' = TRUE
  /\ UNCHANGED <<textVars, source>>

ConvertNext ==
  \/ Convert \/ EndOfSource
  \/ ConvertUTF32toUTF16 \/ ConvertUTF32toUTF8 \/ ConvertUTF16toUTF32
  \/ ConvertUTF16toUTF8 \/ ConvertUTF8toUTF16 \/ ConvertUTF8toUTF32

ConvertSpec == ConvertInit /\ [][ConvertNext]_convVars
-----------------------------------------------------------------------------
(* Reference: what Unicode says (its table of well-formed byte sequences)  *)

Malformed == -1
CodeSpace == {cp \in Nat : ~IsHuge(cp)}
IsScalar(cp) == cp \in CodeSpace /\ ~IsSurrogate(cp)

\* the value of n bytes without their marks, Malformed when one has another mark
Value8(u, n) ==
  LET mark == <<0, 192, 224, 240>>[n] IN
  IF u[1] \in mark..mark + (<<128, 32, 16, 8>>[n] - 1) /\ \A i \in 2..n : u[i] \in 128..191
  THEN Shifted([i \in 1..n |-> IF i = 1 THEN u[1] - mark ELSE u[i] - 128], n)
  ELSE Malformed

\* n bytes are one code point, in no more bytes than it takes
Fits8(u, n) ==
  /\ n <= Len(u)
  /\ Value8(u, n) \in CodeSpace /\ Value8(u, n) >= <<0, 128, 2048, 65536>>[n]

\* the character u begins with: its length and code point
Head8(u) ==
  IF \E n \in 1..4 : Fits8(u, n)
  THEN LET n == CHOOSE n \in 1..4 : Fits8(u, n) IN <<n, Value8(u, n)>>
  ELSE <<1, Malformed>>
Head16(u) ==
  IF Len(u) > 1 /\ IsHigh(u[1]) /\ IsLow(u[2])
  THEN <<2, 65536 + (u[1] % 1024) * 1024 + (u[2] % 1024)>>
  ELSE <<1, u[1]>>
HeadOf(form, u) ==
  CASE form = "UTF8" -> Head8(u) [] form = "UTF16" -> Head16(u) [] form = "UTF32" -> <<1, u[1]>>

\* the code points of u that are kept
Decoded(form, u, kept) ==
  LET points[i \in 1..Len(u) + 1] ==
        IF i = Len(u) + 1 THEN <<>>
        ELSE LET head == HeadOf(form, SubSeq(u, i, Len(u)))
             IN  (IF head[2] \in kept THEN <<head[2]>> ELSE <<>>) \o points[i + head[1]]
  IN  points[1]
CodePoints(form, u) == Decoded(form, u, Int)

\* the characters among them, but for U+FFFD, which stands for anything else
Kept == {cp \in Int : cp # UNI_REPLACEMENT_CHAR /\ ~IsSurrogate(cp) /\ ~IsHuge(cp)}
Characters(form, u) == Decoded(form, u, Kept)

WellFormed(form, u) == \A i \in DOMAIN CodePoints(form, u) : IsScalar(CodePoints(form, u)[i])
SoundButHuge(form, u) ==
  \A i \in DOMAIN CodePoints(form, u) :
    IsScalar(CodePoints(form, u)[i]) \/ IsHuge(CodePoints(form, u)[i])

\* a huge code point was consumed
PassedHuge == src.form = "UTF32" /\ \E i \in 1..source : IsHuge(src.units[i])

\* ED or F4 before a byte that continues nothing, which isLegalUTF8 accepts
PassesUnseen ==
  /\ src.form = "UTF8"
  /\ \E i \in 1..Len(src.units) - 1 : src.units[i] \in {237, 244} /\ src.units[i + 1] < 128

-----------------------------------------------------------------------------
(* Properties *)

\* Every variable keeps its type: every unit written is one of the target form,
\* so that the casts of the code cut nothing off; and nothing is written past
\* targetEnd.
ConvertTypeOK ==
  /\ src.form \in Forms /\ src.units \in Seq(Units(src.form))
  /\ to \in Forms \ {src.form} /\ flags \in ConversionFlags
  /\ source \in 0..Len(src.units) /\ room \in Rooms \cup {0} /\ running \in BOOLEAN
  /\ out \in Seq(Units(to)) /\ written \in Seq(Units(to)) /\ Len(written) <= room
  /\ result \in {"conversionOK", "sourceExhausted", "targetExhausted", "sourceIllegal"}

\* However small the buffers and wherever a call stopped, what was written is
\* what was consumed: every character arrives once, in order and in its one
\* well-formed encoding, nothing else does but replacement characters, and no
\* call stops inside a character (ConvertUTF.h:43, "updated to point to the
\* end of last text successfully converted").
SameText ==
  ~PassesUnseen =>
    Characters(src.form, SubSeq(src.units, 1, source)) = Characters(to, out \o written)

\* What a call returns is the truth about the rest of the text: it is empty,
\* cut off inside a character, or ill-formed where *sourceStart points; under
\* the strict flag an ill-formed text never passes for a good one.  Only code
\* points above 10FFFF, which ConvertUTF.c:86-91 goes past, may lie behind.
ResultTruthful ==
  /\ ~running /\ result = "conversionOK" => Rest = <<>>
  /\ ~running /\ result = "conversionOK" /\ Strict /\ ~PassesUnseen =>
       SoundButHuge(src.form, src.units)
  /\ ~running /\ result = "sourceExhausted" => Rest # <<>> /\ ~WellFormed(src.form, Rest)
  /\ ~running /\ result = "sourceIllegal" /\ ~PassedHuge =>
       Rest # <<>> /\ ~IsScalar(HeadOf(src.form, Rest)[2])

\* "Whether the flag is strict or lenient, all illegal sequences will cause an
\* error return", and code points above 10FFFF do when it is strict
\* (ConvertUTF.h:60-67): a caller that goes on when the target was full, and gets
\* to the end with conversionOK, has passed none.  The code keeps neither half:
\* ED or F4 before a byte that continues nothing is legal to isLegalUTF8, and a
\* target that is full behind a code point above 10FFFF overwrites its error.
IllegalIsReported ==
  ~running /\ result = "conversionOK" =>
    /\ src.form = "UTF8" => WellFormed("UTF8", src.units)
    /\ src.form = "UTF32" /\ Strict => ~PassedHuge
=============================================================================
