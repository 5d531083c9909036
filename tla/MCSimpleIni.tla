---------------------------- MODULE MCSimpleIni -----------------------------
(* Small sections, keys and files for SimpleIni. *)
EXTENDS SimpleIni
V == Text("v")
W == Text("w")
TheSettings == {<< <<V>>, NULL>>, << <<Padded("v")>>, <<CommentLine("c")>> >>}
TheFiles == {
  <<>>,
  <<CommentLine("f"), Header("s"), KeyLine("k", Padded("v")), KeyLine("j", W), KeyLine("k", V)>>,
  <<KeyLine("k", Tag("x")), Header("s"), Blank, Text("x"), CommentLine("c"), Blank, CommentLine("d"),
    KeyLine("k", V)>>,
  <<Unterminated("t"), KeyLine("", V), CommentLine("c"), KeyLine("k", W), Unterminated("s"), Blank,
    KeyLine("j", V)>>}
=============================================================================
