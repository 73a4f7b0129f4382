----------------------------- MODULE TextPatch -----------------------------
(***************************************************************************)
(* Texts and the application of the hunks of one "*** Update File" section *)
(* of a patch: app/workspace/text_ops.py.  A hunk is the lines it expects  *)
(* and the lines it puts there.  A text is what _split_text_lines returns, *)
(* with its line endings: its lines, whether the last one is terminated,   *)
(* and whether the terminators are CRLF.                                   *)
(***************************************************************************)
EXTENDS Naturals, Sequences, SequencesExt, FiniteSetsExt

CONSTANTS
  Line,   \* what a line can hold
  Blank   \* the empty line

ASSUME BlankAssumption == Blank \in Line

Hunk == [old : Seq(Line), new : Seq(Line)]
Text == [lines : Seq(Line), ends : BOOLEAN, crlf : BOOLEAN]

(* Fault: an empty last line is written as any other. *)
JoinEveryLine(lines, ends) == [lines |-> lines, ends |-> ends, crlf |-> FALSE]

(* Joining lines and splitting them again.  Without a final terminator an  *)
(* empty last line is no line; with one, no lines are an empty line.       *)
Join(lines, ends) ==
  IF ends
    THEN [lines |-> IF lines = <<>> THEN <<Blank>> ELSE lines, ends |-> TRUE, crlf |-> FALSE]
  ELSE IF lines # <<>> /\ Last(lines) = Blank
    THEN [lines |-> Front(lines), ends |-> Len(lines) > 1, crlf |-> FALSE]
  ELSE [lines |-> lines, ends |-> FALSE, crlf |-> FALSE]

(* A text without a terminator has no line ending to be CRLF. *)
Normal(t) ==
  /\ t.lines = <<>> => ~t.ends
  /\ t.lines # <<>> /\ ~t.ends => Last(t.lines) # Blank
  /\ t.crlf => t.ends \/ Len(t.lines) > 1

WithCrlf(t, crlf) == [t EXCEPT !.crlf = crlf /\ (t.ends \/ Len(t.lines) > 1)]

(* Places of needle in lines that start after the first `from` lines. *)
Occurrences(lines, needle, from) ==
  {i \in (from + 1) .. (Len(lines) + 1 - Len(needle)) :
     SubSeq(lines, i, i + Len(needle) - 1) = needle}

Replaced(lines, i, old, new) ==
  SubSeq(lines, 1, i - 1) \o new \o SubSeq(lines, i + Len(old), Len(lines))

(* Where a hunk may go: below the previous one, else anywhere; a hunk that *)
(* expects nothing goes right below the previous one, or to the top.       *)
Candidates(state, hunk) ==
  LET below == Occurrences(state.lines, hunk.old, state.cursor)
  IN  IF hunk.old = <<>> THEN {state.cursor + 1}
      ELSE IF below # {} THEN below
      ELSE Occurrences(state.lines, hunk.old, 0)

(* The hunk replaced at its first candidate; the next search starts Len(passed) lines on. *)
Put(state, hunk, passed) ==
  LET at == Min(Candidates(state, hunk))
  IN  [ok |-> TRUE,
       lines |-> Replaced(state.lines, at, hunk.old, hunk.new),
       cursor |-> at - 1 + Len(passed)]

(* Fault: the search goes on where the hunk was put, not below it. *)
ApplyHunkAgain(state, hunk) ==
  IF state.ok /\ Candidates(state, hunk) # {}
    THEN Put(state, hunk, <<>>)
    ELSE [state EXCEPT !.ok = FALSE]

(* One hunk of an update; the first that fits nowhere ends it. *)
ApplyHunk(state, hunk) ==
  IF state.ok /\ Candidates(state, hunk) # {}
    THEN Put(state, hunk, hunk.new)
    ELSE [state EXCEPT !.ok = FALSE]

ApplyHunks(lines, hunks) ==
  LET after[n \in 0 .. Len(hunks)] ==
        IF n = 0 THEN [ok |-> TRUE, lines |-> lines, cursor |-> 0]
        ELSE ApplyHunk(after[n - 1], hunks[n])
  IN  after[Len(hunks)]

(* An update rewrites the file with LF endings. *)
Updated(text, hunks) == Join(ApplyHunks(text.lines, hunks).lines, text.ends)

(* normalize_line_endings; previous is what the file holds, if it is text. *)
NormalizeLineEndings(text, mode, crlfBefore) ==
  CASE mode = "preserve" -> IF crlfBefore THEN WithCrlf(text, TRUE) ELSE text
    [] mode = "lf"       -> WithCrlf(text, FALSE)
    [] mode = "crlf"     -> WithCrlf(text, TRUE)

-----------------------------------------------------------------------------
(* What a patch means, without a cursor *)

(* The first line below hunk k - 1 where it is placed. *)
Free(hunks, at, k) == IF k = 1 THEN 1 ELSE at[k - 1] + Len(hunks[k - 1].old)

(* A hunk that expects nothing goes where the one before ended, any other  *)
(* where its lines are, below that.                                        *)
Fits(lines, hunks, at, k) ==
  IF hunks[k].old = <<>> THEN at[k] = Free(hunks, at, k)
  ELSE /\ at[k] >= Free(hunks, at, k)
       /\ at[k] + Len(hunks[k].old) <= Len(lines) + 1
       /\ SubSeq(lines, at[k], at[k] + Len(hunks[k].old) - 1) = hunks[k].old

(* Every hunk has a place of its own in the text as it is, in their order. *)
Placements(lines, hunks) ==
  {at \in [DOMAIN hunks -> 1 .. (Len(lines) + 1)] :
     \A k \in DOMAIN hunks : Fits(lines, hunks, at, k)}

(* The text with every hunk replaced at its place. *)
Spliced(lines, hunks, at) ==
  LET upTo[k \in 0 .. Len(hunks)] ==
        IF k = 0 THEN <<>>
        ELSE upTo[k - 1] \o SubSeq(lines, Free(hunks, at, k), at[k] - 1) \o hunks[k].new
  IN  upTo[Len(hunks)] \o SubSeq(lines, Free(hunks, at, Len(hunks) + 1), Len(lines))
=============================================================================
