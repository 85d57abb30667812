-------------------------------- MODULE Laws --------------------------------
(***************************************************************************)
(* The pure parts of cleanslate, those of NameLaws, of the text files and  *)
(* the listing, each over every sample of its kind.  A sample is all the   *)
(* state there is.                                                         *)
(***************************************************************************)
EXTENDS NameLaws, StoredText, References

CONSTANTS Files,    \* contents of .cleanslate/config
          Stagings, \* replacements to stage
          Targets,  \* slates a boot may be of
          Lines,    \* options lines of a template entry
          Stores    \* lists of subvolumes

ASSUME FilesAssumption == \A file \in Files : IsFile(file)

\* A staged replacement names a slate and a source.
ASSUME StagingsAssumption == \A p \in Stagings : p.slate # "" /\ p.source # ""

ASSUME LinesAssumption == \A line \in Lines : IsOptions(line)

ASSUME StoresAssumption == \A store \in Stores : IsListing(store)

VARIABLE sample

NoSample == [kind |-> "none"]

LawsInit == Init /\ sample = NoSample

Draw(kind, S) == \E x \in S : sample' = [kind |-> kind, of |-> x]

LawsNext ==
  \/ sample = NoSample /\ Next /\ UNCHANGED sample
  \/ /\ sample = NoSample /\ first = Blank /\ second = Blank
     /\ \/ Draw("file", Files)
        \/ Draw("staging", Stagings)
        \/ Draw("line", Lines)
        \/ Draw("store", Stores)
     /\ UNCHANGED <<first, second>>
  \/ sample # NoSample /\ sample' = NoSample /\ UNCHANGED <<first, second>>

LawsSpec == LawsInit /\ [][LawsNext]_<<first, second, sample>>

(***************************************************************************)
(* As long as no key is given two values, no blanks surround a line and no *)
(* number has a sign, both programs read the same configuration            *)
(* (retain_auto and RetainAuto, auto_checkpoint_enabled and                *)
(* AutoCheckpointEnabled).                                                 *)
(***************************************************************************)
Plain(file) ==
  \A i, j \in DOMAIN file :
    /\ ~file[i].lead /\ ~file[i].trail
    /\ file[i].value.kind = "number" => file[i].value.plain
    /\ file[i].key = file[j].key => file[i].value = file[j].value

ReadersAgree ==
  sample.kind = "file" /\ Plain(sample.of) =>
    /\ ShellRetain(sample.of) = RetainAuto(sample.of)
    /\ ShellAutoEnabled(sample.of) = AutoCheckpointEnabled(sample.of)

(***************************************************************************)
(* Whatever the reason says, the hook, in a boot of that slate and of no   *)
(* other, and `status' read back the slate and the source that were        *)
(* staged; a file cut to nothing by a crash stages nothing (StagePending,  *)
(* ReadPending, apply_pending).                                            *)
(***************************************************************************)
StagedIsRead ==
  sample.kind = "staging" =>
    LET p    == sample.of
        said == [slate |-> p.slate, source |-> p.source]
        body == PendingBody(p)
    IN  /\ ReadPending(body) = said
        /\ \A t \in Targets :
             StagedFor(t, body) = IF t = p.slate THEN said ELSE Nothing
        /\ ReadPending(<<>>) = Nothing
        /\ \A t \in Targets : StagedFor(t, <<>>) = Nothing

(***************************************************************************)
(* The entry written for a slate boots that slate, as the hook reads it    *)
(* and as the Go code does, if no field of its template names two          *)
(* subvolumes; every other option stays in its place and none is made up   *)
(* (rewriteBLSEntry, parseCmdlineSubvol).                                  *)
(***************************************************************************)
NamesAtMostOne(line) ==
  \A i \in DOMAIN line : \A j, k \in SubvolParts(line[i]) : j = k

OptionsIn(line, out) ==
  \A i \in DOMAIN line : \A j \in DOMAIN line[i].parts :
    \/ IsSubvol(line[i].parts[j])
    \/ /\ i \in DOMAIN out /\ j \in DOMAIN out[i].parts
       /\ out[i].parts[j] = line[i].parts[j]

SameOptions(line, out) ==
  /\ OptionsIn(line, out) /\ OptionsIn(out, line)
  /\ \A i \in DOMAIN line : i \in DOMAIN out /\ out[i].key = line[i].key
  /\ \A i \in DOMAIN out \ DOMAIN line : IsRootflags(out[i])

EntryBootsItsSlate ==
  sample.kind = "line" /\ NamesAtMostOne(sample.of) =>
    \A t \in Targets :
      LET entry  == <<EntryLine("title", "@main"), EntryLine("linux", "vmlinuz"),
                      EntryLine("options", sample.of)>>
          result == rewriteBLSEntry(entry, t)
          out    == result[3].of
      IN  /\ result[1].of = t /\ result[2] = entry[2]
          /\ HookSubvol(out) = Meant(t, TRUE)
          /\ parseCmdlineSubvol(out) = Meant(t, TRUE)
          /\ SameOptions(sample.of, out)

(***************************************************************************)
(* Whatever else is in the filesystem, also copies that a race of forks    *)
(* left inside a slate, a checkpoint's reference, its full name and, on    *)
(* its own slate, its bare number find a checkpoint of that slate and      *)
(* number; and a fork from a slate's name copies that slate, if the name   *)
(* is not a number nor `current' (FindCheckpoint, resolveForkSource).      *)
(***************************************************************************)
ReferencesAreExact ==
  sample.kind = "store" =>
    LET store == sample.of
        slates == {s \in ToSet(Alphabetic) : <<Named(s)>> \in store}
    IN  /\ \A p \in {q \in store : Len(q) = 1 /\ IsCheckpoint(q)} :
             LET c    == p[1]
                 same == {q \in store : Len(q) = 1 /\ IsCheckpoint(q)
                                        /\ q[1].name = c.name /\ q[1].seq = c.seq}
                 ref  == Dotted(c.name, Numeral[c.seq])
             IN  /\ \A s \in slates : FindCheckpoint(store, ref, s) = same
                 /\ FindCheckpoint(store, Bare(Numeral[c.seq]), c.name) = same
                 /\ resolveForkSource(store, ref, <<Named("main")>>) = same
        /\ \A s \in slates \ (ToSet(Numeral) \cup {"current"}) :
             resolveForkSource(store, Bare(s), <<Named("baseline")>>) = {<<Named(s)>>}

(***************************************************************************)
(* What `list' shows is the baseline and slates, and nothing else          *)
(* (Slates).                                                               *)
(***************************************************************************)
OnlySlatesListed ==
  sample.kind = "store" =>
    \A p \in Slates(sample.of) :
      Len(p) = 1 /\ (p = <<Named("baseline")>> \/ validateName(p[1].name))
=============================================================================
