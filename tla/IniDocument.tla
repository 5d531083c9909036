---------------------------- MODULE IniDocument -----------------------------
(***************************************************************************)
(* What CSimpleIniTempl promises of its data (SimpleIni.h, "SAVE ORDER",   *)
(* "COMMENTS", and the documentation of SetValue and DeleteValue): a       *)
(* document, whose sections and keys are in the order they were first      *)
(* created in, with the comment they were created with.                    *)
(***************************************************************************)
EXTENDS Integers, SequencesExt

CONSTANT NULL

VARIABLES
  doc,          \* sequence of sections [name, comment, entries [key, value, comment]]
  fileComment,
  multiKey,     \* may a key have several values
  rc            \* what the last call returned

docVars == <<doc, fileComment, multiKey, rc>>

DocInit == doc = <<>> /\ fileComment = NULL /\ multiKey \in BOOLEAN /\ rc = "SI_OK"

\* where a name is, 0 when it is nowhere
FirstOf(places) == IF places = {} THEN 0 ELSE Min(places)
SectionAt(s) == FirstOf({i \in DOMAIN doc : doc[i].name = s})
EntriesOf(s) == IF SectionAt(s) = 0 THEN <<>> ELSE doc[SectionAt(s)].entries
PlacesOf(s, k) == {i \in DOMAIN EntriesOf(s) : EntriesOf(s)[i].key = k}
EntryAt(s, k) == FirstOf(PlacesOf(s, k))

\* a sequence without what is at some places
Remaining(seq, gone) ==
  LET left == DOMAIN seq \ gone
      nth(n) == CHOOSE i \in left : Cardinality({j \in left : j <= i}) = n
  IN  [n \in 1..Cardinality(left) |-> seq[nth(n)]]

WithEntries(s, entries) ==
  doc' = IF SectionAt(s) = 0 THEN Append(doc, [name |-> s, comment |-> NULL, entries |-> entries])
         ELSE [doc EXCEPT ![SectionAt(s)].entries = entries]

\* a new section comes last; an old one keeps its place and its comment
PutSection(section) ==
  /\ section.entries = <<>> /\ SectionAt(section.name) = 0
  /\ doc' = Append(doc, section) /\ UNCHANGED <<fileComment, multiKey>>
KeepSection == UNCHANGED <<doc, fileComment, multiKey>>

\* a new key comes last in its section
Insert(s, e) ==
  /\ EntryAt(s, e.key) = 0 \/ multiKey
  /\ WithEntries(s, Append(EntriesOf(s), e)) /\ UNCHANGED <<fileComment, multiKey>>

\* an old one has its value replaced, and keeps its place and its comment
Update(s, e) ==
  /\ EntryAt(s, e.key) # 0 /\ ~multiKey
  /\ WithEntries(s, [EntriesOf(s) EXCEPT ![EntryAt(s, e.key)].value = e.value])
  /\ UNCHANGED <<fileComment, multiKey>>

\* one value in place of all of a key: "the load order and comment will be
\* preserved this way"
ReplaceKey(s, e) ==
  LET at == EntryAt(s, e.key) IN
  /\ at # 0 /\ multiKey /\ EntriesOf(s)[at].comment \in {NULL, e.comment}
  /\ WithEntries(s, Remaining([EntriesOf(s) EXCEPT ![at] = e], PlacesOf(s, e.key) \ {at}))
  /\ UNCHANGED <<fileComment, multiKey>>

\* the entries of a key, or those with a value, are removed, and the section if
\* they were all it had and that is wanted
RemoveEntries(s, k, value, all, removeEmpty) ==
  LET gone == {i \in PlacesOf(s, k) : all \/ EntriesOf(s)[i].value = value}
      entries == Remaining(EntriesOf(s), gone)
  IN
  /\ IF entries = <<>> /\ removeEmpty THEN doc' = Remaining(doc, {SectionAt(s)})
     ELSE WithEntries(s, entries)
  /\ UNCHANGED <<fileComment, multiKey>>

RemoveSection(s) ==
  doc' = Remaining(doc, {SectionAt(s)}) /\ UNCHANGED <<fileComment, multiKey>>

Clear == doc' = <<>> /\ fileComment' = NULL /\ UNCHANGED <<multiKey, rc>>

\* a load begins or ends, or a save does; the file comment is the first one read
Transfer ==
  /\ fileComment' # fileComment => fileComment = NULL
  /\ rc' = "SI_OK" /\ UNCHANGED <<doc, multiKey>>

Allow == multiKey' \in BOOLEAN /\ UNCHANGED <<doc, fileComment, rc>>

\* What is put is in the document afterwards, and what is removed before: no
\* other choice of a section or an entry makes a step.
Sets == \E section \in ToSet(doc') : \E e \in ToSet(section.entries) :
          \/ Update(section.name, e) /\ rc' = "SI_UPDATED"
          \/ (Insert(section.name, e) \/ ReplaceKey(section.name, e)) /\ rc' = "SI_INSERTED"
Deletes == \E section \in ToSet(doc) :
             \/ RemoveSection(section.name)
             \/ \E e \in ToSet(section.entries), all, removeEmpty \in BOOLEAN :
                  RemoveEntries(section.name, e.key, e.value, all, removeEmpty)

DocNext ==
  \/ Clear \/ Transfer \/ Allow
  \/ rc' = "SI_UPDATED" /\ KeepSection
  \/ rc' = "SI_INSERTED" /\ doc' # <<>> /\ PutSection(Last(doc'))
  \/ rc' \in {"SI_INSERTED", "SI_UPDATED"} /\ Sets
  \/ rc' = "true" /\ Deletes

DocSpec == DocInit /\ [][DocNext]_docVars
=============================================================================
