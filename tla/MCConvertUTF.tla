---------------------------- MODULE MCConvertUTF ----------------------------
(* Texts of units at the boundaries the conversions tell apart.            *)
EXTENDS ConvertUTF, TLC

Texts(form, units, n) == {[form |-> form, units |-> u] : u \in UNION {[1..k -> units] : k \in 1..n}}

Bytes == {65, 128, 143, 144, 159, 160, 191, 193, 194, 223, 224, 237, 239, 240, 244, 245}
FourBytes == {<<a, b, c, d>> \o e : a \in {240, 244}, b \in {65, 143, 144}, c \in {65, 191},
                                    d \in {128, 192}, e \in {<<>>, <<65>>, <<194, 128>>}}
Units16 == {65, 128, 2047, 2048, 55295, 55296, 56319, 56320, 57343, 65535}
Units32 == {127, 128, 2047, 2048, 55296, 57343, 57344, 65535, 65536, 1114111, 1114112}

ManySources ==
  {[form |-> "UTF8", units |-> <<>>]} \cup Texts("UTF8", Bytes, 3) \cup {[form |-> "UTF8", units |-> u] : u \in FourBytes}
  \cup Texts("UTF16", Units16, 3) \cup Texts("UTF32", Units32, 3)

\* for the second half of IllegalIsReported alone
UTF32Sources == {t \in ManySources : t.form = "UTF32"}
=============================================================================
