----------------------------- MODULE ApplyPatch -----------------------------
(***************************************************************************)
(* One apply_patch call of the model, from the verification of the patch   *)
(* to the event that says how it ended: core/src/tools/handlers and        *)
(* runtimes/apply_patch.rs, core/src/apply_patch.rs, safety.rs, and the     *)
(* process that applies it, apply-patch/src/lib.rs.                         *)
(*                                                                         *)
(* The patch is read against the files twice: here, to show what it will   *)
(* change, and again, hunk after hunk, in the process. In between the user *)
(* is asked, and others may edit the files. The process may be denied a    *)
(* write by the sandbox, after the hunks before it are on disk; it is then *)
(* run again, from the first hunk.                                         *)
(***************************************************************************)
EXTENDS Orchestrator, PatchText

CONSTANTS Paths, Writable,   \* the paths, and those in the writable roots
          NoPath,
          Cases,             \* per mode, a patch, the files and the edits allowed
          EditedTo           \* the contents an edit of somebody else may leave

Missing == <<>>              \* what a path without a file leads to
File(content) == <<content>>

Kinds == {"add", "delete", "update"}

ASSUME PathsAssumption == Writable \subseteq Paths /\ NoPath \notin Paths

\* Nothing, or the lines of a file.
IsFile(d) == d \in Seq(Seq(Lines)) /\ Len(d) <= 1

\* The patch is parsed: hunks of the three kinds, each of a path.
ASSUME CasesAssumption ==
  \A m \in Modes : \A c \in Cases[m] :
    /\ c.disk = [p \in Paths |-> c.disk[p]] /\ \A p \in Paths : IsFile(c.disk[p])
    /\ Len(c.patch) \in Nat /\ DOMAIN c.patch = 1..Len(c.patch)
    /\ \A i \in DOMAIN c.patch :
         /\ c.patch[i].kind \in Kinds /\ c.patch[i].path \in Paths
         /\ c.patch[i].kind = "add" => c.patch[i].lines \in Seq(Lines)
         /\ c.patch[i].kind = "update" => /\ c.patch[i].dest \in Paths \cup {NoPath}
                                          /\ c.patch[i].chunks \in Seq(UpdateFileChunk)

ASSUME EditedToAssumption == \A d \in EditedTo : IsFile(d)

VARIABLES disk,      \* what every path leads to
          patch,     \* the hunks
          edits,     \* of others
          editLimit, \* their bound
          phase,     \* of the call
          changes,   \* what the user is shown, and the events carry
          explicit,  \* user_explicitly_approved
          begun,     \* the files as PatchApplyBegin was sent
          next,      \* the hunk the process is at
          moving,    \* it has written the moved file, the original is still there
          attempt

call == <<disk, patch, edits, editLimit, phase, changes, explicit, begun, next, moving, attempt>>

vars == <<call, orchestrator>>

Init ==
  /\ OrchestratorInit
  /\ \E c \in Cases[mode] : disk = c.disk /\ patch = c.patch /\ editLimit = c.edits
  /\ phase = "called" /\ changes = <<>> /\ explicit = FALSE
  /\ edits = 0 /\ begun = disk /\ next = 1 /\ moving = FALSE /\ attempt = 0

-----------------------------------------------------------------------------
Text(p) == IF disk[p] = Missing THEN <<>> ELSE disk[p][1]

\* maybe_parse_apply_patch_verified: what each hunk would do to the files as
\* they are now, by path.
Verified(h) ==
  CASE h.kind = "add" -> [ok |-> TRUE, kind |-> "add", dest |-> NoPath, content |-> File(Terminated(h.lines))]
    [] h.kind = "delete" -> [ok |-> disk[h.path] # Missing, kind |-> "delete", dest |-> NoPath,
                             content |-> disk[h.path]]
    [] h.kind = "update" ->
         LET d == Derived(Text(h.path), h.chunks)
         IN [ok |-> disk[h.path] # Missing /\ d.ok, kind |-> "update", dest |-> h.dest,
             content |-> File(d.content)]

\* The map keeps the last change of a path.
Shown == [p \in {patch[i].path : i \in DOMAIN patch} |->
            Verified(patch[Max({i \in DOMAIN patch : patch[i].path = p})])]

\* is_write_patch_constrained_to_writable_paths
Constrained(cs) == \/ mode.open
                   \/ \A p \in DOMAIN cs : p \in Writable /\ cs[p].dest \in Writable \cup {NoPath}

\* assess_patch_safety, for a patch that changes something
Assessed(cs) ==
  CASE mode.policy = "untrusted" -> "asked"
    [] mode.policy # "untrusted" /\ (Constrained(cs) \/ mode.policy = "on_failure") -> "cleared"
    [] mode.policy = "never" /\ ~Constrained(cs) -> "failed"
    [] OTHER -> "asked"

Handle ==
  /\ phase = "called"
  /\ IF patch # <<>> /\ \A i \in DOMAIN patch : Verified(patch[i]).ok
     THEN changes' = Shown /\ phase' = Assessed(changes')
     ELSE phase' = "failed" /\ UNCHANGED changes
  /\ UNCHANGED <<disk, patch, edits, editLimit, explicit, begun, next, moving, attempt, orchestrator>>

\* The answer to request_patch_approval.
Answer ==
  /\ phase = "asked"
  /\ phase' \in {"cleared", "failed"}
  /\ explicit' = (phase' = "cleared")
  /\ UNCHANGED <<disk, patch, edits, editLimit, changes, begun, next, moving, attempt, orchestrator>>

\* default_exec_approval_requirement
Requirement ==
  [need |-> IF mode.policy = "untrusted" \/ (mode.policy = "on_request" /\ ~mode.open)
            THEN "ask" ELSE "skip",
   escalated |-> FALSE]

\* PatchApplyBegin, and the orchestrator's run.
Begin ==
  /\ phase = "cleared"
  /\ phase' = "run" /\ begun' = disk
  /\ OrchestratorBegin(Requirement)
  /\ next' = 1 /\ attempt' = 1
  /\ UNCHANGED <<disk, patch, edits, editLimit, changes, explicit, moving>>

\* start_approval_async without a reason to retry: no question, the decision made
\* before stands.
Reuse ==
  /\ stage = "ask" /\ stage' = "first"
  /\ approved' = TRUE /\ cached' = IF explicit THEN cached \union {ApprovalKey} ELSE cached
  /\ UNCHANGED call
  /\ UNCHANGED <<mode, request, asks, boxed>>

\* ... and with one.
AnswerRetry ==
  /\ stage = "again" /\ Approval
  /\ UNCHANGED call

-----------------------------------------------------------------------------
\* apply_hunks_to_files, one write or removal after the other.
Running == phase = "run" /\ stage \in {"first", "second"}
Hunk == patch[next]
AtHunk(kind) == Running /\ next <= Len(patch) /\ Hunk.kind = kind
MayWrite(p) == ~boxed \/ p \in Writable
Removable(p) == disk[p] # Missing /\ MayWrite(p)
Target == IF Hunk.kind = "update" /\ Hunk.dest # NoPath THEN Hunk.dest ELSE Hunk.path

Did(p, content) == /\ disk' = [disk EXCEPT ![p] = content]
                   /\ UNCHANGED <<patch, edits, editLimit, phase, changes, explicit, begun, attempt,
                                  orchestrator>>

AddFile ==
  /\ AtHunk("add") /\ MayWrite(Hunk.path)
  /\ Did(Hunk.path, File(Terminated(Hunk.lines)))
  /\ next' = next + 1 /\ UNCHANGED moving

DeleteFile ==
  /\ AtHunk("delete") /\ Removable(Hunk.path)
  /\ Did(Hunk.path, Missing)
  /\ next' = next + 1 /\ UNCHANGED moving

Updates == /\ AtHunk("update") /\ ~moving
           /\ disk[Hunk.path] # Missing /\ Derived(Text(Hunk.path), Hunk.chunks).ok

\* Mutant of UpdateFile: the original of a move goes before the copy is there.
UpdateFile_RemoveFirst ==
  /\ Updates /\ MayWrite(Target)
  /\ IF Hunk.dest = NoPath
     THEN Did(Target, File(Derived(Text(Hunk.path), Hunk.chunks).content))
     ELSE Did(Hunk.path, Missing)
  /\ moving' = (Hunk.dest # NoPath)
  /\ next' = IF Hunk.dest = NoPath THEN next + 1 ELSE next

UpdateFile ==
  /\ Updates /\ MayWrite(Target)
  /\ Did(Target, File(Derived(Text(Hunk.path), Hunk.chunks).content))
  /\ moving' = (Hunk.dest # NoPath)
  /\ next' = IF Hunk.dest = NoPath THEN next + 1 ELSE next

\* Mutant of RemoveOriginal: a move leaves the original where it is.
RemoveOriginal_Keep ==
  /\ Running /\ moving /\ Removable(Hunk.path)
  /\ Did(Hunk.path, disk[Hunk.path])
  /\ moving' = FALSE /\ next' = next + 1

RemoveOriginal ==
  /\ Running /\ moving /\ Removable(Hunk.path)
  /\ Did(Hunk.path, Missing)
  /\ moving' = FALSE /\ next' = next + 1

CannotWrite == (Updates \/ AtHunk("add")) /\ ~MayWrite(Target)
CannotRemove == (AtHunk("delete") \/ (AtHunk("update") /\ moving)) /\ ~Removable(Hunk.path)
CannotUpdate == AtHunk("update") /\ ~moving /\ ~Updates

\* is_likely_sandbox_denied looks for words in the error. "Failed to write file" is
\* one of them; the other errors of a hunk quote paths and lines that may hold one.
Denial ==
  /\ CannotWrite \/ CannotRemove \/ CannotUpdate
  /\ Denied
  /\ next' = 1 /\ moving' = FALSE
  /\ attempt' = IF stage' = "refused" THEN attempt ELSE attempt + 1
  /\ UNCHANGED <<disk, patch, edits, editLimit, phase, changes, explicit, begun>>

\* Exit code 1, or the time is over, at any place.
Failure ==
  /\ Running /\ Fails
  /\ UNCHANGED call

\* PatchApplyEnd
Finish ==
  /\ phase = "run"
  /\ \/ stage \in {"first", "second"} /\ next > Len(patch) /\ phase' = "applied"
     \/ stage = "refused" /\ phase' = "failed"
  /\ OrchestratorEnds
  /\ UNCHANGED <<disk, patch, edits, editLimit, changes, explicit, begun, next, moving, attempt>>

-----------------------------------------------------------------------------
\* An edit of somebody else, of a file the call has looked at and is not done with.
Edit ==
  /\ phase \in {"asked", "cleared", "run"} /\ edits < editLimit
  /\ \E p \in Paths, c \in EditedTo : c # disk[p] /\ disk' = [disk EXCEPT ![p] = c]
  /\ edits' = edits + 1
  /\ UNCHANGED <<patch, editLimit, phase, changes, explicit, begun, next, moving, attempt,
                 orchestrator>>

Next == \/ Handle \/ Answer \/ Begin \/ Reuse \/ AnswerRetry
        \/ AddFile \/ DeleteFile \/ UpdateFile \/ RemoveOriginal
        \/ Denial \/ Failure \/ Finish
        \/ Edit

Spec == Init /\ [][Next]_vars
-----------------------------------------------------------------------------
\* Every chunk of a hunk takes the place of lines that are its old lines, behind those
\* of the chunks before it and behind its context line; and applied one by one from
\* the last to the first, the chunks make the edit they name: each region found gives
\* way to its new lines, in order, and every other line stays. The file written is
\* these lines, each with its newline, but for one: a blank line that would be the
\* last is lost, though the patch may not touch it ("a\n\n" with a for b is "b\n"),
\* since the code takes it for the newline it has to add. (With an end-of-file mark a
\* chunk may match lines before the last one found, and lines added at the end of a
\* file that ends in a blank line go before it: these may be in the region of another
\* chunk.)
EditsInPlace ==
  \A i \in DOMAIN patch : patch[i].kind = "update" =>
    LET text == Text(patch[i].path)
        lines == LinesOf(text)
        chunks == patch[i].chunks
        plan == ComputeReplacements(lines, chunks)
    IN plan.ok /\ (\A k \in DOMAIN chunks : ~chunks[k].eof) =>
         /\ \A k \in DOMAIN chunks :
              chunks[k].old # <<>> => FoundAt(lines, chunks, plan.replacements, k)
         /\ (\A k \in DOMAIN chunks : chunks[k].old = <<>> => ~EndsBlank(lines))
              => Derived(text, chunks).content
                   = Terminated(DropBlank(Spliced(lines, plan.replacements)))

\* What the changes say of a path, against the files as the call began.
Promised(p) ==
  LET from == {q \in DOMAIN changes : changes[q].dest = p}
  IN CASE from # {} -> changes[CHOOSE q \in from : TRUE].content
       [] from = {} /\ p \notin DOMAIN changes -> begun[p]
       [] OTHER -> IF changes[p].kind = "delete" \/ changes[p].dest # NoPath
                   THEN Missing ELSE changes[p].content

\* No path is named by two hunks, as their file or as the place it is moved to.
NamedOnce ==
  \A p \in Paths :
    Cardinality({i \in DOMAIN patch : patch[i].path = p})
      + Cardinality({i \in DOMAIN patch : patch[i].kind = "update" /\ patch[i].dest = p}) <= 1

\* ... and nobody else has edited a file.
Untouched == edits = 0 /\ NamedOnce

\* A patch that is reported as applied, by an attempt that was the only one, has
\* made the changes the user was shown before, and no others, if nobody else has
\* edited the files and no path is named twice.
AppliedAsShown ==
  phase = "applied" /\ attempt = 1 /\ Untouched => \A p \in Paths : disk[p] = Promised(p)

\* "The changes that were applied (mirrors PatchApplyBeginEvent::changes)"
\* (protocol/src/protocol.rs:1575): the same however many attempts it took.
ChangesApplied ==
  phase = "applied" /\ Untouched => \A p \in Paths : disk[p] = Promised(p)

\* Whenever the process stops, killed or denied, a file that is being moved is in
\* one of the two places.
MoveLosesNothing ==
  Untouched => \A i \in DOMAIN patch :
    patch[i].kind = "update" /\ patch[i].dest # NoPath /\ begun[patch[i].path] # Missing =>
      disk[patch[i].path] # Missing \/ disk[patch[i].dest] # Missing
=============================================================================
