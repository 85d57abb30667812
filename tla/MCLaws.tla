------------------------------- MODULE MCLaws -------------------------------
(* Samples for the model checker. *)
EXTENDS Laws

\* Numbers around every place where a digit or the width changes.
Around == (0..20) \cup (62..65) \cup (76..81) \cup (97..102) \cup (776..781)
            \cup (798..801) \cup (998..1001) \cup (1007..1010)
            \cup (9997..10003) \cup (10009..10011) \cup {54321, 99998, 99999}

UpTo(n, S) == UNION {[1..k -> S] : k \in 0..n}

ConfigLines ==
  [key : {"retain_auto", "auto_checkpoint"},
   value : {Number(0), Number(3), Signed(3), Signed(-1), Word("off"), Word("on")},
   lead : BOOLEAN, trail : BOOLEAN]

ConfigFiles == UpTo(2, ConfigLines)

Booted  == {"@main", "@exp"}
Reasons == UpTo(1, {Line("slate", "@exp"), Line("source", "@baseline")})

Requests ==
  [slate : Booted, source : {"@baseline", "@exp.ckpt.0003.keep"},
   reason : {"rollback"}, more : Reasons]

Parts  == {Subvol("@main"), [Subvol("@main") EXCEPT !.slash = TRUE, !.at = FALSE],
           [key |-> "compress", name |-> "zstd"]}
Fields == {Rootflags(ps) : ps \in UpTo(2, Parts)}
            \cup {[key |-> "console", parts |-> <<>>], [key |-> "root", parts |-> <<>>]}
Options == UpTo(3, Fields)

SlateNames == <<"2", "current", "exp", "main">>

Found ==
  {<<Named("main")>>, <<Named("exp")>>, <<Named("2")>>, <<Named("current")>>,
   <<Ckpt("main", 2, "keep")>>, <<Ckpt("main", 2, "auto")>>, <<Ckpt("main", 3, "auto")>>,
   <<Ckpt("exp", 2, "auto")>>, <<Ckpt("2", 3, "keep")>>,
   <<Named("exp"), Ckpt("main", 2, "keep")>>, <<Named("main"), Directory>>}

Listings ==
  {S \cup {<<Named(s)>> : s \in reservedSubvols} \cup {<<Directory>>} :
     S \in {T \in SUBSET Found : \A p \in T : <<Named(p[1].name)>> \in T}}
=============================================================================
