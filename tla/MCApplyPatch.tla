---------------------------- MODULE MCApplyPatch ----------------------------
\* Inputs for ApplyPatch: many texts and chunks for one file in one mode, and
\* many combinations of hunks on three files in every mode.
EXTENDS ApplyPatch

A == Line("a", "plain")
A2 == Line("a", "trailing")
A3 == Line("a", "typographic")
B == Line("b", "plain")

Mode(p, o) == [policy |-> p, open |-> o]
Open == Mode("on_request", TRUE)
MCModes == {Open, Mode("never", FALSE), Mode("on_failure", FALSE),
            Mode("on_request", FALSE), Mode("untrusted", FALSE)}

Chunk(context, old, new, eof) == [context |-> context, old |-> old, new |-> new, eof |-> eof]
Update(p, dest, chunks) == [kind |-> "update", path |-> p, dest |-> dest, chunks |-> chunks]
Case(d, p, e) == [disk |-> d, patch |-> p, edits |-> e]

\* One file of up to three lines, with or without a last newline, and one chunk
\* that is spelled differently, or two.
FileTexts(lines) == BoundedSeq(lines, 3) \ {<<>>}
Chunks(contexts, olds, news) ==
  {Chunk(c, o, n, e) : c \in contexts, o \in olds, n \in news, e \in BOOLEAN}
    \ {Chunk(c, <<>>, <<>>, e) : c \in contexts, e \in BOOLEAN}
Spelled == Chunks({NoContext, A}, BoundedSeq({A, Blank}, 2), {<<>>, <<B>>})
Double == Chunks({NoContext}, BoundedSeq({A, Blank}, 2), {<<>>, <<B>>, <<B, Blank>>})
           \X Chunks({NoContext, A}, BoundedSeq({A, Blank}, 1), {<<>>, <<B>>})
TextCases ==
  LET Only(t) == [p \in Paths |-> IF p = "in" THEN File(t) ELSE Missing]
  IN {Case(Only(t), <<Update("in", NoPath, <<c>>)>>, 0) : t \in FileTexts({A, A2, A3, Blank}), c \in Spelled}
       \cup {Case(Only(t), <<Update("in", NoPath, c)>>, 0) : t \in FileTexts({A, Blank}), c \in Double}

\* Up to two hunks of every kind on every file, and an edit in some of them.
Grow == Chunk(NoContext, <<>>, <<B>>, FALSE)
Change == Chunk(NoContext, <<A>>, <<B>>, FALSE)
Hunks == {[kind |-> "add", path |-> p, lines |-> <<B, Blank>>] : p \in Paths}
           \cup {[kind |-> "delete", path |-> p] : p \in Paths}
           \cup {Update(p, d, <<c>>) : p \in Paths, d \in Paths \cup {NoPath}, c \in {Grow, Change}}
Full == File(Terminated(<<A>>))
Disks == {[p \in Paths |-> Full], [p \in Paths |-> IF p = "new" THEN Missing ELSE Full]}
FileCases ==
  {Case(d, p, 0) : d \in Disks, p \in BoundedSeq(Hunks, 2)}
    \cup {Case(d, <<Update("in", NoPath, <<Change>>), h>>, 1) : d \in Disks, h \in Hunks}

MCCases == [m \in MCModes |-> IF m = Open THEN TextCases \cup FileCases ELSE FileCases]
MCEdited == {Missing, File(Terminated(<<B>>))}
=============================================================================
