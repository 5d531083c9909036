----------------------------- MODULE SimpleIni ------------------------------
(***************************************************************************)
(* CSimpleIniTempl of simpleini/SimpleIni.h: the data table with its       *)
(* comments, load orders and the memory its strings are in, the parser     *)
(* (one step per iteration of FindEntry's loop), the calls that change the *)
(* table, and Save.  A file is a sequence of lines; white space around     *)
(* names, newline formats and the encoding are left out.                   *)
(***************************************************************************)
EXTENDS Integers, SequencesExt

CONSTANTS
  NULL,
  Sections, Keys, \* names; "" is the section before the first header
  Settings,       \* what the application sets: <<value, comment>>, each a sequence
                  \* of lines, the comment NULL if there is none
  Files,          \* the files there may be at first
  FromTable,      \* may the application pass SetValue strings of the table
  MaxCalls        \* bound on the calls that add to the table; loading
                  \* what was saved may be one more

-----------------------------------------------------------------------------
(* Lines: the names before its equal signs, and the text after them *)

Bodies == [text : STRING] \cup [padded : STRING] \cup [comment : STRING]
          \cup [header : STRING] \cup [open : STRING] \cup [tag : STRING]
Lines == [names : Seq(STRING), body : Bodies, brackets : Nat] \* brackets: the ] at its end

Plain(body) == [names |-> <<>>, body |-> body, brackets |-> 0]
Text(w) == Plain([text |-> w])
Padded(w) == Plain([padded |-> w])              \* with white space around it
CommentLine(c) == Plain([comment |-> c])
Header(s) == Plain([header |-> s])              \* [s]
Unterminated(s) == Plain([open |-> s])          \* [s
Closed(line) == [line EXCEPT !.brackets = @ + 1]
Tag(x) == Plain([tag |-> x])                    \* <<<x
KeyLine(k, line) == [line EXCEPT !.names = <<k>> \o @]
Blank == Text("")
EndTag == Text("END_OF_TEXT")

\* the name of a section: what its header says, and the lines that it runs on over
Titles == [first : STRING, rest : Seq(Lines)]
Title(s) == [first |-> s, rest |-> <<>>]

Is(kind, line) == line.names = <<>> /\ kind \in DOMAIN line.body
IsComment(line) == Is("comment", line)
IsKeyLine(line) == line.names # <<>>
KeyOf(line) == Head(line.names)
ValueOf(line) == [line EXCEPT !.names = Tail(@)]
Trim(line) == IF Is("padded", line) THEN Text(line.body.padded) ELSE line

IsMultiLineTag(line) == Is("tag", line)
IsMultiLineData_LinesOnly(value) == Len(value) > 1
IsMultiLineData(value) == Len(value) > 1 \/ Is("padded", value[1])

From(data, n) == SubSeq(data, n, Len(data))

\* LoadMultiLineText: the lines of the comment that data begins with, across
\* blank lines if they are allowed
CommentLines(data, blanks) ==
  LET inside(n) == \A i \in 1..n : IsComment(data[i]) \/ (blanks /\ data[i] = Blank)
  IN  Max({0} \cup {n \in 1..Len(data) : inside(n) /\ IsComment(data[n])})

\* LoadMultiLineText with a tag: the lines before the end tag, all of them when
\* there is none
LinesOfValue(data, end) ==
  Min({Len(data)} \cup {n - 1 : n \in {i \in 1..Len(data) : data[i] = end}})

-----------------------------------------------------------------------------
(* The table.  A pointer has the text it points to and the allocation it   *)
(* points into: 0 for memory that is never freed.                          *)

VARIABLES
  file,               \* the file
  m_data,             \* section -> Entry with its multimap of keys
  m_nOrder,
  m_pFileComment,
  m_pData,            \* the allocation of the data, or NULL
  m_strings,          \* the allocations of copied strings
  m_bAllowMultiKey, m_bAllowMultiLine,
  load,               \* the variables of a LoadData that runs, or NULL
  rc,                 \* what the last call returned
  origin,             \* history: where the table and the file come from
  calls               \* history: how many calls added to the table

options == <<m_bAllowMultiKey, m_bAllowMultiLine>>
iniVars == <<file, m_data, m_nOrder, m_pFileComment, m_pData, m_strings, options, load, rc, origin, calls>>

Ptr(text, at) == [text |-> text, at |-> at]
Names == [text : STRING, at : Nat]
Values == [text : Seq(Lines) \ {<<>>}, at : Nat]
Comments == [text : Seq(Lines), at : Nat] \cup {NULL}
KeyEntries == [pItem : Names, pComment : Comments, value : Values, nOrder : Nat]
SectionNames == [text : Titles, at : Nat]
SectionEntries == [pItem : SectionNames, pComment : Comments, nOrder : Nat, keys : SUBSET KeyEntries]
Loads == [data : Seq(Lines), pSection : SectionNames, pComment : Comments, block : Nat \ {0},
          runsOn : BOOLEAN]     \* no NUL is written behind the name of the section

ASSUME IniAssumption ==
  /\ NULL \notin Nat \cup Names \cup SectionNames \cup [text : Seq(Lines), at : Nat] \cup Loads
  /\ Files \subseteq Seq(Lines)
  /\ Sections \cup Keys \cup {"", "END_OF_TEXT"} \subseteq STRING
  /\ FromTable \in BOOLEAN
  /\ Settings \subseteq (Seq(Lines) \ {<<>>}) \X ({NULL} \cup Seq(Lines))
\* a comment that is set is "in full comment form already", with a comment
\* character at the start of every line (SimpleIni.h:952-955, 1888)
ASSUME CommentsAssumption ==
  \A setting \in Settings : setting[2] # NULL =>
    setting[2] # <<>> /\ \A i \in DOMAIN setting[2] : IsComment(setting[2][i])

\* entries sorted by LoadOrder
Sorted(entries) ==
  [i \in 1..Cardinality(entries) |->
    CHOOSE e \in entries : Cardinality({f \in entries : f.nOrder <= e.nOrder}) = i]

Entries(s) == IF s \in DOMAIN m_data THEN m_data[s].keys ELSE {}
SameKey(s, k) == {e \in Entries(s) : e.pItem.text = k}
First(entries) == CHOOSE e \in entries : \A f \in entries : e.nOrder <= f.nOrder

\* the allocations of pointers; NULL has none
At(p) == IF p = NULL THEN {} ELSE {p.at}

\* the uses of allocations: who points there
Uses(s, n, field, p) == {<<s, n, field, at>> : at \in At(p)}
EntryUses(s, e) ==
  Uses(s, e.nOrder, "item", e.pItem) \cup Uses(s, e.nOrder, "comment", e.pComment)
  \cup Uses(s, e.nOrder, "value", e.value)
SectionUses(s, section) ==
  Uses(s, 0, "item", section.pItem) \cup Uses(s, 0, "comment", section.pComment)
  \cup UNION {EntryUses(s, e) : e \in section.keys}
InUse ==
  Uses(Title(""), 0, "file comment", m_pFileComment)
  \cup UNION {SectionUses(s, m_data[s]) : s \in DOMAIN m_data}

\* the n-th allocation that is not in use
Allocations ==
  m_strings \cup {u[4] : u \in InUse} \cup ({m_pData} \ {NULL})
  \cup (IF load = NULL THEN {} ELSE {load.block})
NewAllocation(n) ==
  CHOOSE i \in 1..Cardinality(Allocations) + n :
    i \notin Allocations /\ Cardinality((1..i) \ Allocations) = n

CopyString(p, n) == IF p = NULL THEN NULL ELSE Ptr(p.text, NewAllocation(n))

\* DeleteString, of the strings of some entries: only those in m_strings are freed
StringsOf(entries) == UNION {At(e.pItem) \cup At(e.value) : e \in entries}

IniInit ==
  /\ file \in Files
  /\ m_data = <<>> /\ m_nOrder = 0 /\ m_pFileComment = NULL /\ m_pData = NULL /\ m_strings = {}
  /\ m_bAllowMultiKey \in BOOLEAN /\ m_bAllowMultiLine \in BOOLEAN
  /\ load = NULL /\ rc = "SI_OK" /\ origin = "other" /\ calls = 0

-----------------------------------------------------------------------------
(* AddEntry *)

WithSection(s, section) ==
  [t \in DOMAIN m_data \cup {s} |-> IF t = s THEN section ELSE m_data[t]]

\* the section of p as AddEntry finds or creates it, without the comment that
\* only an entry of the section alone gives it
SectionFor(p, comment, copy) ==
  IF p.text \in DOMAIN m_data THEN m_data[p.text]
  ELSE [pItem |-> IF copy THEN CopyString(p, 2) ELSE p, pComment |-> comment,
        nOrder |-> m_nOrder + 1, keys |-> {}]
OrderAfter_Same(p) == m_nOrder
OrderAfter(p) == m_nOrder + (IF p.text \in DOMAIN m_data THEN 0 ELSE 1)

\* what copies a call that inserted p's section has made of it and of a comment
Copies(p, comment, copy) ==
  IF ~copy THEN {}
  ELSE At(comment) \cup (IF p.text \in DOMAIN m_data THEN {} ELSE At(CopyString(p, 2)))

AddSection(pSection, pComment, copy) ==
  LET comment == IF copy THEN CopyString(pComment, 1) ELSE pComment
  IN
  /\ m_data' = WithSection(pSection.text, SectionFor(pSection, comment, copy))
  /\ m_nOrder' = OrderAfter(pSection)
  /\ m_strings' = m_strings \cup Copies(pSection, comment, copy)
  /\ rc' = IF pSection.text \in DOMAIN m_data THEN "SI_UPDATED" ELSE "SI_INSERTED"

\* the key is not there yet, or another one of its name is inserted
InsertKey(pSection, pKey, pValue, pComment, force, copy) ==
  LET comment == IF copy THEN CopyString(pComment, 1) ELSE pComment
      key == IF copy THEN CopyString(pKey, 3) ELSE pKey
      value == IF copy THEN CopyString(pValue, 4) ELSE pValue
      section == SectionFor(pSection, NULL, copy)
      entry == [pItem |-> key, pComment |-> comment, value |-> value,
                nOrder |-> OrderAfter(pSection) + 1]
  IN
  /\ SameKey(pSection.text, pKey.text) = {} \/ (m_bAllowMultiKey /\ ~force)
  /\ m_data' = WithSection(pSection.text, [section EXCEPT !.keys = @ \cup {entry}])
  /\ m_nOrder' = OrderAfter(pSection) + 1
  /\ m_strings' = m_strings \cup Copies(pSection, comment, copy)
                    \cup (IF copy THEN At(key) \cup At(value) ELSE {})
  /\ rc' = "SI_INSERTED"

\* the value of the key found is replaced, and the comment forgotten
UpdateKey(pSection, pKey, pValue, pComment, copy) ==
  LET comment == IF copy THEN CopyString(pComment, 1) ELSE pComment
      value == IF copy THEN CopyString(pValue, 4) ELSE pValue
      same == SameKey(pSection.text, pKey.text)
  IN
  /\ same # {} /\ ~m_bAllowMultiKey
  /\ m_data' = [m_data EXCEPT ![pSection.text].keys =
                  (@ \ {First(same)}) \cup {[First(same) EXCEPT !.value = value]}]
  /\ m_nOrder' = m_nOrder + 1
  /\ m_strings' = m_strings \cup Copies(pSection, comment, copy)
                    \cup (IF copy THEN At(value) ELSE {})
  /\ rc' = "SI_UPDATED"

\* what CopyString finds at p when some strings are freed: it may be anything
Found(p, freed, texts) == IF p.at \in freed THEN texts \cup {p.text} ELSE {p.text}
SetValues == {setting[1] : setting \in Settings}

\* a_bForceReplace: all entries of the key go, with their strings, before the new
\* name and value are copied; the new entry takes the load order of the first
ReplaceKeysWith(pSection, pKey, pValue, comment) ==
  LET same == SameKey(pSection.text, pKey.text)
      freed == m_strings \cap StringsOf(same)
  IN
  /\ same # {} /\ m_bAllowMultiKey
  /\ \E key \in Found(pKey, freed, Keys), value \in Found(pValue, freed, SetValues) :
       m_data' = [m_data EXCEPT ![pSection.text].keys =
                    (@ \ same) \cup {[pItem |-> Ptr(key, NewAllocation(3)), pComment |-> comment,
                                      value |-> Ptr(value, NewAllocation(4)),
                                      nOrder |-> First(same).nOrder]}]
  /\ m_nOrder' = m_nOrder + 1
  /\ m_strings' = (m_strings \ freed) \cup At(comment) \cup {NewAllocation(3), NewAllocation(4)}
  /\ rc' = "SI_INSERTED"

\* and a copy of its comment
ReplaceKeys_DropsComment(pSection, pKey, pValue, pComment) ==
  ReplaceKeysWith(pSection, pKey, pValue, CopyString(pComment, 1))
ReplaceKeys(pSection, pKey, pValue, pComment) ==
  LET kept == First(SameKey(pSection.text, pKey.text)).pComment
  IN  ReplaceKeysWith(pSection, pKey, pValue,
                      IF kept = NULL THEN CopyString(pComment, 1) ELSE CopyString(kept, 5))

AddEntry(pSection, pKey, pValue, pComment, force, copy) ==
  \/ InsertKey(pSection, pKey, pValue, pComment, force, copy)
  \/ UpdateKey(pSection, pKey, pValue, pComment, copy)
  \/ force /\ ReplaceKeys(pSection, pKey, pValue, pComment)

-----------------------------------------------------------------------------
(* LoadFile and LoadData *)

Idle == load = NULL
Adds(max) == calls < max /\ calls' = calls + 1
Copying_IfAny == m_data # <<>>
Copying == m_pData # NULL

\* what was saved is loaded into an empty object
Reloads == origin = "saved" /\ m_data = <<>> /\ m_pFileComment = NULL

\* the file is read, and its comment taken unless there is one already
LoadFile ==
  LET block == NewAllocation(1)
      n == IF m_pFileComment # NULL THEN 0 ELSE CommentLines(file, FALSE)
      comment == Ptr(SubSeq(file, 1, n), block)
  IN
  /\ Idle /\ file # <<>> /\ Adds(IF Reloads THEN MaxCalls + 1 ELSE MaxCalls)
  /\ load' = [data |-> From(file, n + 1), pSection |-> Ptr(Title(""), 0),
              pComment |-> NULL, block |-> block, runsOn |-> FALSE]
  /\ m_pFileComment' = IF n = 0 THEN m_pFileComment
                       ELSE IF Copying THEN CopyString(comment, 2) ELSE comment
  /\ m_strings' = m_strings \cup (IF n > 0 /\ Copying THEN At(CopyString(comment, 2)) ELSE {})
  /\ origin' = IF Reloads THEN "reloaded" ELSE "other"
  /\ rc' = "SI_OK"
  /\ UNCHANGED <<file, m_data, m_nOrder, m_pData, options>>

Line == load.data[1]
InBlock(text) == Ptr(text, load.block)
Parsing == load # NULL /\ load.data # <<>>
AfterLines(n) == [load EXCEPT !.data = From(@, n + 1)]
ParseVars == <<file, m_pFileComment, m_pData, options, origin, calls>>
TableVars == <<m_data, m_nOrder, m_strings, rc>>

\* a_pSection when more lines are behind it: a name without its ] has no NUL
\* of its own, and runs on to the next one that is written
RunsOn(lines) ==
  IF load.runsOn THEN [load.pSection EXCEPT !.text.rest = @ \o lines] ELSE load.pSection

\* blank lines, lines that are no entry, and entries without a key
SkipLine ==
  /\ Parsing
  /\ \/ \E kind \in {"text", "padded", "tag"} : Is(kind, Line)
     \/ IsKeyLine(Line) /\ KeyOf(Line) = ""
  /\ load' = [AfterLines(1) EXCEPT !.pSection = RunsOn(<<Line>>)]
  /\ UNCHANGED <<ParseVars, TableVars>>

\* a NUL ends the comment
ReadComment ==
  LET n == CommentLines(load.data, TRUE)
      comment == SubSeq(load.data, 1, n)
  IN
  /\ Parsing /\ IsComment(Line)
  /\ load' = [AfterLines(n) EXCEPT !.pComment = InBlock(comment),
                                   !.pSection = RunsOn(comment), !.runsOn = FALSE]
  /\ UNCHANGED <<ParseVars, TableVars>>

\* a line is skipped that lacks its ], but a_pSection points to its name
SkipHeader ==
  /\ Parsing /\ Is("open", Line)
  /\ load' = [AfterLines(1) EXCEPT !.pSection = InBlock(Title(Line.body.open)), !.runsOn = TRUE]
  /\ UNCHANGED <<ParseVars, TableVars>>

ReadHeader ==
  LET pSection == InBlock(Title(Line.body.header)) IN
  /\ Parsing /\ Is("header", Line)
  /\ load' = [AfterLines(1) EXCEPT !.pSection = pSection, !.runsOn = FALSE, !.pComment = NULL]
  /\ AddSection(pSection, load.pComment, Copying)
  /\ UNCHANGED ParseVars

\* a NUL ends the name of the key
IsKey == IsKeyLine(Line) /\ KeyOf(Line) # ""
SectionOfKey == RunsOn(<<Text(KeyOf(Line))>>)
AddKey(n, value) ==
  /\ load' = [AfterLines(n) EXCEPT !.pSection = SectionOfKey, !.runsOn = FALSE, !.pComment = NULL]
  /\ AddEntry(SectionOfKey, InBlock(KeyOf(Line)), InBlock(value), load.pComment, FALSE, Copying)
  /\ UNCHANGED ParseVars

ReadKey ==
  /\ Parsing /\ IsKey /\ ~(m_bAllowMultiLine /\ IsMultiLineTag(ValueOf(Line)))
  /\ AddKey(1, <<Trim(ValueOf(Line))>>)

\* A tag at the end of the file has an empty line behind it.  The block of a tag
\* is not empty: a model stops there (what the code makes of it ends nowhere in
\* its buffer, see the README).
ReadMultiLine ==
  LET rest == IF Len(load.data) = 1 THEN <<Blank>> ELSE Tail(load.data)
      n == LinesOfValue(rest, Text(ValueOf(Line).body.tag))
  IN
  /\ Parsing /\ IsKey /\ m_bAllowMultiLine /\ IsMultiLineTag(ValueOf(Line)) /\ n > 0
  /\ AddKey(n + 2, SubSeq(rest, 1, n))

\* the data is kept, unless the strings were copied
LoadEnd ==
  /\ load # NULL /\ load.data = <<>>
  /\ m_pData' = IF Copying THEN m_pData ELSE load.block
  /\ load' = NULL /\ rc' = "SI_OK"
  /\ UNCHANGED <<file, m_data, m_nOrder, m_pFileComment, m_strings, options, origin, calls>>

LoadData ==
  SkipLine \/ ReadComment \/ SkipHeader \/ ReadHeader \/ ReadKey \/ ReadMultiLine \/ LoadEnd

-----------------------------------------------------------------------------
(* Save *)

SavedValue(k, value) ==
  IF m_bAllowMultiLine /\ IsMultiLineData(value)
  THEN <<KeyLine(k, Tag("END_OF_TEXT"))>> \o value \o <<EndTag>>
  ELSE <<KeyLine(k, value[1])>> \o Tail(value)

SavedComment(p) == IF p = NULL THEN <<>> ELSE p.text
SavedEntry(e) ==
  (IF e.pComment = NULL THEN <<>> ELSE <<Blank>> \o e.pComment.text)
  \o SavedValue(e.pItem.text, e.value.text)

\* GetAllValues: the first one only, unless there may be many
GetAllValues(s, k) ==
  LET all == Sorted(SameKey(s, k))
  IN  IF m_bAllowMultiKey \/ all = <<>> THEN all ELSE <<all[1]>>
GetAllKeys(s) == {First(SameKey(s, e.pItem.text)) : e \in Entries(s)}
GetAllSections == Sorted({m_data[s] : s \in DOMAIN m_data})

\* the keys in load order, each with all its values
SavedKeys(s) ==
  FlattenSeq([i \in 1..Cardinality(GetAllKeys(s)) |->
    LET key == Sorted(GetAllKeys(s))[i].pItem.text
    IN  FlattenSeq([j \in 1..Len(GetAllValues(s, key)) |-> SavedEntry(GetAllValues(s, key)[j])])])

\* the name of a section with [ before it and ] behind it, unless it is empty
SavedHeader(name) ==
  IF name = Title("") THEN <<>>
  ELSE IF name.rest = <<>> THEN <<Header(name.first)>>
  ELSE <<Unterminated(name.first)>> \o Front(name.rest) \o <<Closed(Last(name.rest))>>

\* two blank lines, the comment, the header, the keys
SavedText ==
  SavedComment(m_pFileComment) \o
  FlattenSeq([i \in 1..Len(GetAllSections) |->
    LET section == GetAllSections[i] IN
    (IF i > 1 \/ m_pFileComment # NULL THEN <<Blank, Blank>> ELSE <<>>)
    \o SavedComment(section.pComment)
    \o SavedHeader(section.pItem.text)
    \o SavedKeys(section.pItem.text)])

\* What a file can hold: a section has a name of one line; one before the first
\* header has no comment, keys and no section before it; a comment at the start
\* of the file is the file's; a key has a name, and a value reads as itself.
Holds(value) ==
  IF m_bAllowMultiLine /\ IsMultiLineData(value) THEN EndTag \notin ToSet(value)
  ELSE ~IsMultiLineData(value) /\ ~(m_bAllowMultiLine /\ IsMultiLineTag(value[1]))
Saveable ==
  /\ \A s \in DOMAIN m_data :
       /\ s.rest = <<>>
       /\ \A e \in m_data[s].keys : e.pItem.text # "" /\ Holds(e.value.text)
  /\ Title("") \in DOMAIN m_data =>
       LET section == m_data[Title("")]
       IN  GetAllSections[1] = section /\ section.pComment = NULL /\ section.keys # {}
  /\ m_data # <<>> /\ GetAllSections[1].pComment # NULL => m_pFileComment # NULL

SaveFile ==
  /\ Idle /\ file' = SavedText
  /\ rc' = "SI_OK" /\ origin' = IF Saveable THEN "saved" ELSE "other"
  /\ UNCHANGED <<m_data, m_nOrder, m_pFileComment, m_pData, m_strings, options, load, calls>>

-----------------------------------------------------------------------------
(* The other calls *)

CallVars == <<file, m_pFileComment, m_pData, options, load>>
\* a change of the table, after which it is not what was loaded
Changed == origin' = IF origin = "reloaded" THEN "other" ELSE origin

\* what the application passes: strings of its own, and those that the queries
\* give it, which are the table's
AllEntries == UNION {Entries(s) : s \in DOMAIN m_data}
Own(texts) == {Ptr(text, 0) : text \in texts}
Or(table) == IF FromTable THEN table ELSE {}
GivenSections == Own({Title(s) : s \in Sections}) \cup Or({m_data[s].pItem : s \in DOMAIN m_data})
GivenKeys == Own(Keys) \cup Or({e.pItem : e \in AllEntries})
GivenValues == Own(SetValues) \cup Or({e.value : e \in AllEntries})
GivenComments == {IF setting[2] = NULL THEN NULL ELSE Ptr(setting[2], 0) : setting \in Settings}

SetSection(pSection, pComment) ==
  /\ Idle /\ Adds(MaxCalls) /\ Changed
  /\ AddSection(pSection, pComment, TRUE)
  /\ UNCHANGED CallVars

SetValue(pSection, pKey, pValue, pComment, force) ==
  /\ Idle /\ Adds(MaxCalls) /\ Changed
  /\ AddEntry(pSection, pKey, pValue, pComment, force, TRUE)
  /\ UNCHANGED CallVars

Without(s) == [t \in DOMAIN m_data \ {s} |-> m_data[t]]

\* all the entries of a key, or those with a value; then the section if that
\* left it empty and a_bRemoveEmpty
DeleteValue(s, k, v, removeEmpty) ==
  LET gone == {e \in SameKey(s, k) : v = NULL \/ e.value.text = v}
      prune == removeEmpty /\ Entries(s) = gone
  IN
  /\ Idle /\ gone # {} /\ Changed
  /\ m_data' = IF prune THEN Without(s) ELSE [m_data EXCEPT ![s].keys = @ \ gone]
  /\ m_strings' = m_strings \ (StringsOf(gone) \cup (IF prune THEN At(m_data[s].pItem) ELSE {}))
  /\ rc' = "true" /\ UNCHANGED <<m_nOrder, CallVars, calls>>

DeleteSection(s) ==
  /\ Idle /\ s \in DOMAIN m_data /\ Changed
  /\ m_data' = Without(s)
  /\ m_strings' = m_strings \ (StringsOf(Entries(s)) \cup At(m_data[s].pItem))
  /\ rc' = "true" /\ UNCHANGED <<m_nOrder, CallVars, calls>>

\* m_nOrder goes on
Reset ==
  /\ Idle
  /\ m_pData' = NULL /\ m_pFileComment' = NULL /\ m_data' = <<>> /\ m_strings' = {}
  /\ Changed /\ UNCHANGED <<file, m_nOrder, options, load, rc, calls>>

SetMultiKey(b) ==
  /\ Idle /\ m_bAllowMultiKey' = b /\ origin' = "other"
  /\ UNCHANGED <<file, m_data, m_nOrder, m_pFileComment, m_pData, m_strings, m_bAllowMultiLine,
                 load, rc, calls>>

Call ==
  \/ SaveFile \/ Reset
  \/ \E pSection \in GivenSections, pComment \in GivenComments :
       \/ SetSection(pSection, pComment)
       \/ \E pKey \in GivenKeys, pValue \in GivenValues, force \in BOOLEAN :
            SetValue(pSection, pKey, pValue, pComment, force)
  \/ \E s \in DOMAIN m_data :
       \/ DeleteSection(s)
       \/ \E k \in Keys, v \in SetValues \cup {NULL}, removeEmpty \in BOOLEAN :
            DeleteValue(s, k, v, removeEmpty)
  \/ \E b \in BOOLEAN : SetMultiKey(b)

IniNext == LoadFile \/ LoadData \/ Call

IniSpec == IniInit /\ [][IniNext]_iniVars
-----------------------------------------------------------------------------
(* Properties *)

\* Every variable keeps its type.  No two sections and no two keys of a section
\* have the same load order, and none has one that is still to be given.
IniTypeOK ==
  /\ file \in Seq(Lines) /\ m_nOrder \in Nat
  /\ m_bAllowMultiKey \in BOOLEAN /\ m_bAllowMultiLine \in BOOLEAN
  /\ m_pFileComment \in Comments /\ load \in Loads \cup {NULL}
  /\ m_data \in [DOMAIN m_data -> SectionEntries] /\ IsFiniteSet(DOMAIN m_data)
  /\ \A s \in DOMAIN m_data :
       /\ m_data[s].pItem.text = s /\ m_data[s].nOrder \in 1..m_nOrder
       /\ \A t \in DOMAIN m_data : m_data[s].nOrder = m_data[t].nOrder => s = t
       /\ IsFiniteSet(m_data[s].keys)
       /\ \A e \in m_data[s].keys :
            /\ e.nOrder \in 1..m_nOrder
            /\ \A f \in m_data[s].keys : e.nOrder = f.nOrder => e = f

\* What the table points to is allocated, whatever was loaded twice, replaced,
\* deleted and reset in between; and no copied string is pointed to twice, so
\* that deleting an entry never frees what another one uses.
StringsLive ==
  \A u, w \in InUse :
    LET at == u[4]
        blocks == {m_pData} \cup (IF load = NULL THEN {} ELSE {load.block})
    IN  /\ at \in m_strings \cup blocks \cup {0}
        /\ u # w /\ at \in m_strings => at # w[4]

\* What is saved and loaded into an empty object is the same again: saving it
\* writes the same file (SimpleIni.h:32-33, "saves files with sections and keys
\* in the same order as they were loaded", "preserves comments"), provided a
\* file can hold it (Saveable).
RoundTrip == origin = "reloaded" /\ Idle => SavedText = file

\* the table as a document
TextOf(p) == IF p = NULL THEN NULL ELSE p.text
DocEntry(e) ==
  [key |-> e.pItem.text, value |-> e.value.text, comment |-> TextOf(e.pComment)]
DocSection(section) ==
  LET entries == Sorted(section.keys)
  IN  [name |-> section.pItem.text, comment |-> TextOf(section.pComment),
       entries |-> [j \in DOMAIN entries |-> DocEntry(entries[j])]]
Doc == LET sections == GetAllSections IN [i \in DOMAIN sections |-> DocSection(sections[i])]

Document ==
  INSTANCE IniDocument WITH
    doc <- Doc, fileComment <- TextOf(m_pFileComment), multiKey <- m_bAllowMultiKey

\* The table with its load orders, comments and copied strings does what is
\* promised of a document: whatever is added, replaced, removed, loaded or
\* forgotten, sections and keys stay in the order they were created in, with
\* the comment they were created with (SimpleIni.h:139-147).
KeepsDocument == Document!DocSpec
=============================================================================
