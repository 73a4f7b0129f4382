---------------------------- MODULE MCFileEdits ----------------------------
(* FileEdits with a file at the top and a name that is a file or the       *)
(* directory of another file.                                              *)
EXTENDS FileEdits

CONSTANTS readme, docs, page, x, y, bad

DirOf == readme :> Top @@ docs :> Top @@ page :> docs

Lf(lines) == [lines |-> lines, ends |-> TRUE, crlf |-> FALSE]

(* The file at the top is any text of two different lines, up to three of  *)
(* them, or has CRLF endings, no final terminator or no content at all.    *)
FirstTexts ==
  {Lf(s) : s \in BoundedSeq({x, y}, 3) \ {<<>>}}
    \cup {WithCrlf(Lf(<<x, y>>), TRUE), Join(<<x, y>>, FALSE), Join(<<>>, FALSE)}

OnlyTop(t) == readme :> t @@ docs :> Absent @@ page :> Absent
WithPage   == readme :> Lf(<<x>>) @@ docs :> Absent @@ page :> Lf(<<x>>)
WithFile   == readme :> Lf(<<x>>) @@ docs :> Lf(<<x>>) @@ page :> Absent

AllTrees == {OnlyTop(t) : t \in FirstTexts} \cup {WithPage, WithFile}
OneTree  == {WithFile}

Hunks == [old : {<<>>, <<y>>, <<x, y>>}, new : {<<>>, <<y>>, <<y, y>>}]
           \ {[old |-> <<>>, new |-> <<>>]}
Update(p, hunks) == [kind |-> "update", path |-> p, hunks |-> hunks]
Add(p, lines)    == [kind |-> "add", path |-> p, lines |-> lines]
Delete(p)        == [kind |-> "delete", path |-> p]
Patch(ops, dry)  == [ops |-> ops, dry |-> dry, deletes |-> TRUE]

SingleUpdates ==
  {Patch(<<Update(readme, h)>>, FALSE) : h \in BoundedSeq(Hunks, 2) \ {<<>>}}

Change == <<[old |-> <<x>>, new |-> <<Blank, y>>]>>
Operations ==
  {Update(p, Change) : p \in Path} \cup {Add(p, <<y>>) : p \in Path}
    \cup {Add(page, <<bad>>)} \cup {Delete(p) : p \in Path}
MixedPatches == {Patch(ops, dry) : ops \in BoundedSeq(Operations, 2) \ {<<>>}, dry \in BOOLEAN}

AllPatches == SingleUpdates \cup MixedPatches

Write(p, text, eol, mode, dry) ==
  [ops |-> <<[kind |-> "write", path |-> p, text |-> text, eol |-> eol, mode |-> mode,
              expected |-> Lf(<<x>>)]>>,
   dry |-> dry, deletes |-> FALSE]

AllWrites ==
  {Write(p, t, eol, "overwrite", FALSE) :
     p \in {readme, page}, eol \in {"preserve", "lf", "crlf"},
     t \in {Lf(<<x>>), Lf(<<bad>>), WithCrlf(Lf(<<y>>), TRUE), Join(<<y>>, FALSE)}}
    \cup {Write(p, Lf(<<y>>), "preserve", mode, dry) :
            p \in {readme, docs}, dry \in BOOLEAN,
            mode \in {"create_only", "overwrite_if_sha256_matches"}}

ScriptContents == {Lf(<<x>>), Lf(<<bad>>), Binary}
=============================================================================
