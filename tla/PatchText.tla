----------------------------- MODULE PatchText -----------------------------
(***************************************************************************)
(* How the chunks of an Update hunk become the new text of a file          *)
(* (apply-patch/src/lib.rs, seek_sequence.rs).                             *)
(*                                                                         *)
(* A line is a text and a look: how it is spelled in ways one of the       *)
(* comparisons of seek_sequence overlooks. A content is the file split at  *)
(* its newlines, so that one that ends in a newline ends in a blank line.  *)
(* Positions are 0-based as in the code.                                   *)
(***************************************************************************)
EXTENDS Integers, SequencesExt

CONSTANT Texts   \* of lines

ASSUME TextsAssumption == "" \in Texts

Looks == [plain |-> 0, trailing |-> 1, indented |-> 2, typographic |-> 3]
Line(text, look) == [text |-> text, look |-> look]
Lines == [text : Texts, look : DOMAIN Looks]
Blank == Line("", "plain")

\* What the pass of seek_sequence compares: the line itself, without the white
\* space at its end, without that at both ends, with ASCII punctuation.
Compared(line, pass) == IF Looks[line.look] < pass THEN Line(line.text, "plain") ELSE line

NotFound == -1

Matches(lines, pattern, at, pass) ==
  \A k \in DOMAIN pattern : Compared(lines[at + k], pass) = Compared(pattern[k], pass)

\* seek_sequence: the first place under the strictest comparison that has one
Seek(lines, pattern, start, eof) ==
  LET end == Len(lines) - Len(pattern)
      Hits(pass) == {i \in (IF eof THEN end ELSE start)..end : Matches(lines, pattern, i, pass)}
      passes == {p \in 1..4 : Hits(p) # {}}
  IN CASE pattern = <<>> -> start
       [] end < 0 -> NotFound
       [] OTHER -> IF passes = {} THEN NotFound ELSE Min(Hits(Min(passes)))

-----------------------------------------------------------------------------
NoContext == Line("", "none")   \* a chunk without change_context

UpdateFileChunk ==
  [context : Lines \cup {NoContext}, old : Seq(Lines), new : Seq(Lines), eof : BOOLEAN]

EndsBlank(lines) == lines # <<>> /\ Last(lines) = Blank
DropBlank(lines) == IF EndsBlank(lines) THEN Front(lines) ELSE lines

\* A file of these lines, each with its newline.
Terminated(lines) == Append(lines, Blank)

\* The lines of a file without the empty one after its last newline; and back, where
\* a line that is empty counts as the one after the last newline if it is the last.
LinesOf(content) == DropBlank(content)
ContentOf(lines) == IF EndsBlank(lines) THEN lines ELSE Append(lines, Blank)

\* Where a chunk puts its new lines: after at lines, in place of len.
Replacement(at, len, new) == [at |-> at, len |-> len, new |-> new]

\* The old lines as they are or, if they are nowhere, without the blank line that
\* stands for the newline at the end of the file.
Located(lines, chunk, from) ==
  LET final == EndsBlank(chunk.old) /\ Seek(lines, chunk.old, from, chunk.eof) = NotFound
      old == IF final THEN Front(chunk.old) ELSE chunk.old
  IN Replacement(Seek(lines, old, from, chunk.eof), Len(old),
                 IF final THEN DropBlank(chunk.new) ELSE chunk.new)

\* A chunk without old lines goes to the end, before a blank last line.
Added(lines, chunk) == Replacement(Len(DropBlank(lines)), 0, chunk.new)

\* Mutant of Behind: the search goes on at the place found.
Behind_At(r) == r.at

\* Where the search for the next chunk starts.
Behind(r) == r.at + r.len

\* One turn of the loop of compute_replacements; from is its line_index.
Planned(lines, plan, chunk) ==
  LET context == IF chunk.context = NoContext THEN plan.from - 1
                 ELSE Seek(lines, <<chunk.context>>, plan.from, FALSE)
      from == context + 1
      r == IF chunk.old = <<>> THEN Added(lines, chunk) ELSE Located(lines, chunk, from)
  IN IF \/ ~plan.ok
        \/ chunk.context # NoContext /\ context = NotFound
        \/ r.at = NotFound
     THEN [plan EXCEPT !.ok = FALSE]
     ELSE [ok |-> TRUE,
           from |-> IF chunk.old = <<>> THEN from ELSE Behind(r),
           replacements |-> Append(plan.replacements, r)]

ComputeReplacements(lines, chunks) ==
  LET plan[k \in 0..Len(chunks)] ==
        IF k = 0 THEN [ok |-> TRUE, from |-> 0, replacements |-> <<>>]
        ELSE Planned(lines, plan[k - 1], chunks[k])
  IN plan[Len(chunks)]

\* The replacements before place at, and at that place the first k of the chunks.
UpTo(rs, at, k) == {j \in DOMAIN rs : rs[j].at < at \/ (rs[j].at = at /\ j <= k)}

\* sort_by of the standard library: by place, ties in the order of the chunks
Sorted(rs) ==
  [k \in DOMAIN rs |-> rs[CHOOSE i \in DOMAIN rs : Cardinality(UpTo(rs, rs[i].at, i)) = k]]

Replace(r, lines) ==
  SubSeq(lines, 1, r.at) \o r.new \o SubSeq(lines, r.at + r.len + 1, Len(lines))

\* From the last replacement to the first.
ApplyReplacements(lines, rs) ==
  LET sorted == Sorted(rs)
      edited[k \in 0..Len(rs)] ==
        IF k = 0 THEN lines ELSE Replace(sorted[Len(rs) + 1 - k], edited[k - 1])
  IN edited[Len(rs)]

\* derive_new_contents_from_chunks
Derived(content, chunks) ==
  LET plan == ComputeReplacements(LinesOf(content), chunks)
  IN [ok |-> plan.ok, content |-> ContentOf(ApplyReplacements(LinesOf(content), plan.replacements))]

-----------------------------------------------------------------------------
\* The reference: where the old lines of the k-th chunk are, all of them or all but
\* a blank last one, and the line that is their context.
IsThere(lines, pattern, at) == \E pass \in 1..4 : Matches(lines, pattern, at, pass)

Clear(chunks, rs, k, at) == \A j \in 1..k - 1 : chunks[j].old # <<>> => rs[j].at + rs[j].len <= at

FoundAt(lines, chunks, rs, k) ==
  LET old == chunks[k].old
      r == rs[k]
  IN /\ r.len = Len(old) \/ (EndsBlank(old) /\ r.len = Len(old) - 1)
     /\ r.at + r.len <= Len(lines) /\ IsThere(lines, SubSeq(old, 1, r.len), r.at)
     /\ Clear(chunks, rs, k, r.at)
     /\ chunks[k].context # NoContext =>
          \E c \in 0..r.at - 1 : IsThere(lines, <<chunks[k].context>>, c) /\ Clear(chunks, rs, k, c)

\* And what an edit of the given places is, place by place, whatever
\* the order in which it is made.
NewAt(rs, i) == FlattenSeq([k \in DOMAIN rs |-> IF rs[k].at = i THEN rs[k].new ELSE <<>>])

Kept(lines, rs, i) ==
  IF i \in DOMAIN lines /\ \A k \in DOMAIN rs : ~(rs[k].at < i /\ i <= rs[k].at + rs[k].len)
  THEN <<lines[i]>> ELSE <<>>

Spliced(lines, rs) ==
  FlattenSeq([i \in 1..Len(lines) + 1 |-> NewAt(rs, i - 1) \o Kept(lines, rs, i)])
=============================================================================
