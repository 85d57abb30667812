----------------------------- MODULE StoredText -----------------------------
(***************************************************************************)
(* The text files two programs read, each with a parser of its own:        *)
(* .cleanslate/config, .cleanslate/pending and the options line of a boot  *)
(* entry.  The hook reads them with sed and case, the command line tool    *)
(* with Go's strings.                                                      *)
(*                                                                         *)
(* A line is its key, its value and whether blanks surround it.  A value   *)
(* is what the readers tell apart: a number with how it is spelled, or a   *)
(* word.                                                                   *)
(***************************************************************************)
EXTENDS Integers, SequencesExt

\* `plain': digits only; otherwise the number has a sign, which only Go reads.
Number(n)  == [kind |-> "number", n |-> n, plain |-> TRUE]
Signed(n)  == [kind |-> "number", n |-> n, plain |-> FALSE]
Word(w)    == [kind |-> "word", n |-> 0, plain |-> FALSE, word |-> w]

Value == [kind : {"number"}, n : Nat, plain : {TRUE}]
           \cup [kind : {"number"}, n : Int, plain : {FALSE}]
           \cup [kind : {"word"}, n : {0}, plain : {FALSE}, word : STRING]

FileLine == [key : STRING, value : Value, lead : BOOLEAN, trail : BOOLEAN]

IsFile(file) == file \in Seq(FileLine)

Line(key, value) ==
  [key |-> key, value |-> value, lead |-> FALSE, trail |-> FALSE]

-----------------------------------------------------------------------------
(***************************************************************************)
(* retain_auto: the hook takes the last line that is the key and digits    *)
(* and nothing else, RetainAuto the first that, trimmed, Atoi can read.    *)
(***************************************************************************)
RetainDefault == 10

ShellRetain(file) ==
  LET read == {i \in DOMAIN file : /\ file[i].key = "retain_auto"
                                   /\ ~file[i].lead /\ ~file[i].trail
                                   /\ file[i].value.kind = "number" /\ file[i].value.plain}
  IN  IF read = {} THEN RetainDefault ELSE file[Max(read)].value.n

\* Seeded fault: zero is not taken for a count.
RetainAuto_Positive(file) ==
  LET read == {i \in DOMAIN file : /\ file[i].key = "retain_auto"
                                   /\ file[i].value.kind = "number"
                                   /\ file[i].value.n > 0}
  IN  IF read = {} THEN RetainDefault ELSE file[Min(read)].value.n

RetainAuto(file) ==
  LET read == {i \in DOMAIN file : /\ file[i].key = "retain_auto"
                                   /\ file[i].value.kind = "number"
                                   /\ file[i].value.n >= 0}
  IN  IF read = {} THEN RetainDefault ELSE file[Min(read)].value.n

(***************************************************************************)
(* auto_checkpoint: the hook looks at the last line, blanks and all;       *)
(* AutoCheckpointEnabled trims, and any one line turns checkpoints off.    *)
(***************************************************************************)
Off(value) ==
  \/ value.kind = "word" /\ value.word \in {"off", "no", "false"}
  \/ value.kind = "number" /\ value.plain /\ value.n = 0

ShellAutoEnabled(file) ==
  LET read == {i \in DOMAIN file : file[i].key = "auto_checkpoint" /\ ~file[i].lead}
      last == file[Max(read)]
  IN  read = {} \/ last.trail \/ ~Off(last.value)

AutoCheckpointEnabled(file) ==
  \A i \in DOMAIN file : ~(file[i].key = "auto_checkpoint" /\ Off(file[i].value))

-----------------------------------------------------------------------------
(***************************************************************************)
(* The staged file.  A reason is a sequence of lines: the first a text,    *)
(* the others anything; writing turns line ends in it into blanks.         *)
(***************************************************************************)
Nothing == "nothing"

\* Seeded fault: line ends in the reason are written as they are.
PendingBody_Raw(p) ==
  <<Line("slate", p.slate), Line("source", p.source), Line("reason", p.reason)>>
    \o p.more

PendingBody(p) ==
  <<Line("slate", p.slate), Line("source", p.source), Line("reason", p.reason)>>

LastOf(file, key, none) ==
  LET read == {i \in DOMAIN file : file[i].key = key}
  IN  IF read = {} THEN none ELSE file[Max(read)].value

\* ReadPending: each line that is key=value overwrites the one before.
ReadPending(file) ==
  LET slate  == LastOf(file, "slate", "")
      source == LastOf(file, "source", "")
  IN  IF "" \in {slate, source} THEN Nothing ELSE [slate |-> slate, source |-> source]

\* apply_pending in a boot of target: what it will act on.  An empty source
\* is malformed.
StagedFor(target, file) ==
  LET slate  == LastOf(file, "slate", "")
      source == LastOf(file, "source", "")
  IN  IF slate # target \/ source = "" THEN Nothing
      ELSE [slate |-> slate, source |-> source]

-----------------------------------------------------------------------------
(***************************************************************************)
(* An options line is a sequence of fields; a field is rootflags= with its *)
(* comma-separated parts, or anything else, with none.  A subvolume may be *)
(* spelled with a slash before it, and without its @.                      *)
(***************************************************************************)
Subvol(s)     == [key |-> "subvol", name |-> s, slash |-> FALSE, at |-> TRUE]
Rootflags(ps) == [key |-> "rootflags", parts |-> ps]

IsSubvol(part)     == part.key = "subvol"
IsRootflags(field) == field.key = "rootflags"

IsSeq(s) == s \in Seq(ToSet(s))

\* A field that is not rootflags= has no parts.
IsOptions(line) ==
  /\ IsSeq(line)
  /\ \A i \in DOMAIN line :
       IsSeq(line[i].parts) /\ (~IsRootflags(line[i]) => line[i].parts = <<>>)

\* Where a field, and a line, name a subvolume.
SubvolParts(field) == {j \in DOMAIN field.parts : IsSubvol(field.parts[j])}
SubvolFields(line) == {i \in DOMAIN line : SubvolParts(line[i]) # {}}

\* Seeded fault: the subvolume is added even when there is one.
replaceSubvolToken_Append(field, s) == Rootflags(Append(field.parts, Subvol(s)))

\* The first subvol= part of the field becomes s, or s is added.
replaceSubvolToken(field, s) ==
  LET given == SubvolParts(field)
  IN  Rootflags(IF given = {} THEN Append(field.parts, Subvol(s))
                ELSE [field.parts EXCEPT ![Min(given)] = Subvol(s)])

rewriteOptionsLine(line, s) ==
  LET out == [i \in DOMAIN line |-> IF IsRootflags(line[i])
                                    THEN replaceSubvolToken(line[i], s) ELSE line[i]]
  IN  IF \E i \in DOMAIN line : IsRootflags(line[i]) THEN out
      ELSE Append(out, Rootflags(<<Subvol(s)>>))

\* An entry's lines: the title, the options, and others that stay.
EntryLine(key, of) == [key |-> key, of |-> of]

\* WriteBLSEntry: the default slate's entry becomes that of the slate s.
rewriteBLSEntry(entry, s) ==
  [i \in DOMAIN entry |->
     CASE entry[i].key = "title"   -> EntryLine("title", s)
       [] entry[i].key = "options" -> EntryLine("options", rewriteOptionsLine(entry[i].of, s))
       [] OTHER                    -> entry[i]]

\* Both readers drop a slash.  The hook keeps the last subvol= part of the
\* line; parseCmdlineSubvol keeps the first and adds a missing @.
Meant(name, at) == [name |-> name, at |-> at]

HookSubvol(line) ==
  IF SubvolFields(line) = {} THEN Nothing
  ELSE LET field == line[Max(SubvolFields(line))]
           part  == field.parts[Max(SubvolParts(field))]
       IN  Meant(part.name, part.at)

parseCmdlineSubvol(line) ==
  IF SubvolFields(line) = {} THEN Nothing
  ELSE LET field == line[Min(SubvolFields(line))]
           part  == field.parts[Min(SubvolParts(field))]
       IN  Meant(part.name, TRUE)
=============================================================================
