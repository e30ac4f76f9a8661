------------------------------ MODULE TurnLoop ------------------------------
(***************************************************************************)
(* The turns of one conversation: run_task, run_turn and try_run_turn      *)
(* (core/src/codex.rs), the items they record (core/src/                   *)
(* stream_events_utils.rs), the tool calls they run (core/src/tools/       *)
(* parallel.rs, tools/registry.rs) and the prompt they make of the history *)
(* (core/src/context_manager).                                             *)
(*                                                                         *)
(* The turn's own task and the tasks of its tool calls interleave; so do   *)
(* the model's stream, the ghost snapshot that opens the gate of the       *)
(* mutating tools, and the client, who may cancel at any time.             *)
(***************************************************************************)
EXTENDS Integers, Sequences, SequencesExt, FiniteSets

CONSTANTS Calls,          \* tool calls the model may make, by call_id
          Parallel,       \* those whose tool supports parallel calls
          Mutating,       \* those whose handler waits for the tool gate
          NoId,           \* the call_id of a LocalShellCall without id
          MaxRetries,     \* the provider's stream_max_retries
          MaxRequests,    \* bound: requests of one turn, retries apart
          MaxTurns        \* bound: turns of the conversation

ASSUME CallsAssumption == /\ Parallel \subseteq Calls
                          /\ Mutating \subseteq Calls
                          /\ NoId \notin Calls
ASSUME BoundsAssumption == /\ MaxRetries \in Nat /\ MaxRequests \in Nat
                           /\ MaxTurns \in Nat

\* ResponseItems, as far as pairing calls with outputs tells them apart.
\* "aborted" is the output normalization makes up for a call without one.
Item == [kind : {"user", "ghost", "call", "output", "aborted"},
         call : Calls \union {NoId}]

User      == [kind |-> "user",    call |-> NoId]
Ghost     == [kind |-> "ghost",   call |-> NoId]
Call(c)   == [kind |-> "call",    call |-> c]
Output(c) == [kind |-> "output",  call |-> c]
Stub(c)   == [kind |-> "aborted", call |-> c]

VARIABLES
    \* the turn's task
    phase,          \* "top" is that of run_task's loop
    outcome,        \* what try_run_turn is going to return
    followUp,       \* needs_follow_up
    retries,        \* of the current request
    requests,       \* requests this turn has made
    turn,           \* turns begun
    cancelled,      \* the turn's CancellationToken
    snapshots,      \* turns whose ghost snapshot runs: their tool_call_gate
                    \* is not ready
    inFlight,       \* futures of the tool calls, in FuturesOrdered
    \* the tasks of the tool calls
    tool,           \* tool[c]: where the call is
    holders,        \* calls that hold parallel_execution, the RwLock
    \* the conversation
    history,        \* the items of ContextManager
    prompt          \* the input of the last request

turnVars == <<phase, outcome, followUp, retries, requests, turn>>
ctxVars  == <<cancelled, snapshots>>
toolVars == <<inFlight, tool, holders>>
vars     == <<turnVars, ctxVars, toolVars, history, prompt>>

Phases == {"top", "stream", "drain", "failed", "done"}

\* A spawned call waits for the lock, then (mutating) for the gate, then runs.
Spawned    == {"lock", "gate", "running"}
Finished   == {"output", "fatal"}
ToolStates == Spawned \union Finished
                \union {"none", "queued", "recorded", "dropped", "zombie"}

Init ==
    /\ phase = "done" /\ outcome = "ok" /\ followUp = FALSE
    /\ retries = 0 /\ requests = 0 /\ turn = 0
    /\ cancelled = FALSE /\ snapshots = {}
    /\ inFlight = <<>> /\ tool = [c \in Calls |-> "none"] /\ holders = {}
    /\ history = <<>> /\ prompt = <<>>

-----------------------------------------------------------------------------
(* get_history_for_prompt, on a clone of the history                        *)

\* A call that can be told by its id.
IsCall(x)       == x.kind = "call" /\ x.call # NoId
HasOutput(h, c) == \E i \in DOMAIN h : h[i] = Output(c)
HasCall(h, c)   == \E i \in DOMAIN h : h[i] = Call(c)

\* ensure_call_outputs_present: right behind a call that has no output.
FillIn(h) ==
    LET Unanswered(x) == IsCall(x) /\ ~HasOutput(h, x.call)
    IN  FlattenSeq([i \in DOMAIN h |-> IF Unanswered(h[i])
                                       THEN <<h[i], Stub(h[i].call)>>
                                       ELSE <<h[i]>>])

\* The items that are of a set, in order (SelectSeq, as FlattenSeq defines it).
Only(h, items) ==
    FlattenSeq([i \in DOMAIN h |-> IF h[i] \in items THEN <<h[i]>> ELSE <<>>])

\* remove_orphan_outputs; a call without an id is no output's call.
DropOrphans(h) ==
    Only(h, {x \in Item : x.kind = "output" => x.call # NoId /\ HasCall(h, x.call)})

\* The ghost snapshots stay behind.
Sent == {x \in Item : x.kind # "ghost"}

\* Mutant of ForPrompt: the made-up outputs go to the end.
ForPrompt_StubsLast(h) ==
    LET Open == Only(h, {x \in Item : IsCall(x) /\ ~HasOutput(h, x.call)})
    IN  Only(DropOrphans(h), Sent) \o [i \in DOMAIN Open |-> Stub(Open[i].call)]

\* Mutant of ForPrompt: orphan outputs are sent.
ForPrompt_KeepOrphans(h) == Only(FillIn(h), Sent)

ForPrompt(h) == Only(DropOrphans(FillIn(h)), Sent)

-----------------------------------------------------------------------------
(* run_task and run_turn                                                    *)

\* Only the phase changes.
Goto(next) ==
    /\ phase' = next
    /\ UNCHANGED <<outcome, followUp, retries, requests, turn, ctxVars,
                   toolVars, history, prompt>>

\* run_task records the input and may start a ghost snapshot, which closes the
\* turn's gate for a while.
Begin ==
    /\ phase = "done" /\ turn < MaxTurns
    /\ phase' = "top" /\ turn' = turn + 1 /\ requests' = 0
    /\ cancelled' = FALSE
    /\ snapshots' \in {snapshots, snapshots \union {turn'}}
    /\ history' = Append(history, User)
    /\ UNCHANGED <<outcome, followUp, retries, toolVars, prompt>>

\* A ToolCallRuntime and its lock live as long as one attempt.
NewAttempt ==
    /\ phase' = "stream" /\ followUp' = FALSE
    /\ holders' = {}

\* The prompt is made once; the attempts of a request share it.  (Pending input,
\* SessionTasks!TakeInput, adds more User items here.)
Request ==
    /\ phase = "top" /\ requests < MaxRequests
    /\ requests' = requests + 1 /\ retries' = 0
    /\ prompt' = ForPrompt(history)
    /\ NewAttempt
    /\ UNCHANGED <<outcome, turn, ctxVars, inFlight, tool, history>>

\* list_all_tools().or_cancel()
Decline ==
    /\ phase = "top" /\ cancelled
    /\ Goto("done")

Retry ==
    /\ phase = "failed" /\ retries < MaxRetries
    /\ retries' = retries + 1
    /\ NewAttempt
    /\ UNCHANGED <<outcome, requests, turn, ctxVars, inFlight, tool,
                   history, prompt>>

\* A terminal error, or the retries are used up.
Surrender ==
    /\ phase = "failed"
    /\ outcome = "error" \/ retries = MaxRetries
    /\ Goto("done")

\* InvalidImageRequest: the image is replaced and the loop goes round.
ReplaceImage ==
    /\ phase = "failed" /\ outcome = "error"
    /\ Goto("top")

-----------------------------------------------------------------------------
(* try_run_turn: the stream                                                 *)

\* OutputItemDone with a tool call.  The future is queued and not polled: its
\* task is spawned when the queue is drained.
ToolCall(c) ==
    /\ phase = "stream" /\ tool[c] = "none"
    /\ history' = Append(history, Call(c))
    /\ inFlight' = Append(inFlight, c)
    /\ tool' = [tool EXCEPT ![c] = "queued"]
    /\ followUp' = TRUE
    /\ UNCHANGED <<phase, outcome, retries, requests, turn, ctxVars,
                   holders, prompt>>

\* OutputItemDone with a LocalShellCall that has no id: call and error message
\* are recorded, the latter with an empty call_id.  One is enough: they have
\* nothing that tells them apart.
NamelessCall ==
    /\ phase = "stream" /\ ~HasCall(history, NoId)
    /\ history' = history \o <<Call(NoId), Output(NoId)>>
    /\ followUp' = TRUE
    /\ UNCHANGED <<phase, outcome, retries, requests, turn, ctxVars,
                   toolVars, prompt>>

Queued == {c \in Calls : tool[c] = "queued"}

\* The stream is over: Completed, closed without it, or cancelled.  Draining
\* polls the queued futures, and only their first poll spawns their tasks.
StreamEnds(result) ==
    /\ phase = "stream" /\ phase' = "drain"
    /\ result = "aborted" => cancelled
    /\ outcome' = result
    /\ tool' = [c \in Calls |-> IF c \in Queued THEN "lock" ELSE tool[c]]
    /\ UNCHANGED <<followUp, retries, requests, turn, ctxVars, inFlight,
                   holders, history, prompt>>

\* Mutant of StreamFails: the queue outlives the attempt.
StreamFails_KeepQueue ==
    /\ phase = "stream" /\ phase' = "failed" /\ outcome' = "error"
    /\ UNCHANGED <<followUp, retries, requests, turn, ctxVars, toolVars,
                   history, prompt>>

\* The request or the stream yields an error: try_run_turn returns at once and
\* drops the futures it has queued.
StreamFails ==
    /\ phase = "stream" /\ phase' = "failed" /\ outcome' = "error"
    /\ inFlight' = <<>>
    /\ tool' = [c \in Calls |-> IF c \in Queued THEN "dropped" ELSE tool[c]]
    /\ UNCHANGED <<followUp, retries, requests, turn, ctxVars, holders,
                   history, prompt>>

-----------------------------------------------------------------------------
(* drain_in_flight, and the tasks of the tool calls                         *)

\* Mutant of Acquire: every call takes the lock for reading.
Acquire_Read(c) ==
    /\ tool[c] = "lock"
    /\ holders \subseteq Parallel \/ c \in Parallel
    /\ holders' = holders \union {c}
    /\ tool' = [tool EXCEPT ![c] = IF c \in Mutating THEN "gate" ELSE "running"]
    /\ UNCHANGED <<turnVars, ctxVars, inFlight, history, prompt>>

\* A parallel call takes the lock for reading, another one for writing.
Acquire(c) ==
    /\ tool[c] = "lock"
    /\ IF c \in Parallel THEN holders \subseteq Parallel ELSE holders = {}
    /\ holders' = holders \union {c}
    /\ tool' = [tool EXCEPT ![c] = IF c \in Mutating THEN "gate" ELSE "running"]
    /\ UNCHANGED <<turnVars, ctxVars, inFlight, history, prompt>>

PassGate(c) ==
    /\ tool[c] = "gate" /\ turn \notin snapshots
    /\ tool' = [tool EXCEPT ![c] = "running"]
    /\ UNCHANGED <<turnVars, ctxVars, inFlight, holders, history, prompt>>

Release(c, state) ==
    /\ tool' = [tool EXCEPT ![c] = state]
    /\ holders' = holders \ {c}

\* The handler's output, its failure told to the model, or a fatal error.
HandlerReturns(c) ==
    /\ tool[c] = "running"
    /\ \E state \in Finished : Release(c, state)
    /\ UNCHANGED <<turnVars, ctxVars, inFlight, history, prompt>>

\* Mutant of Interrupted: a call at the gate does not see the cancellation.
Interrupted_NotAtGate(c) ==
    /\ cancelled /\ tool[c] \in Spawned \ {"gate"}
    /\ Release(c, "output")
    /\ UNCHANGED <<turnVars, ctxVars, inFlight, history, prompt>>

\* The other branch of the select!: the call is dropped where it stands and
\* answered with "aborted by user".
Interrupted(c) ==
    /\ cancelled /\ tool[c] \in Spawned
    /\ Release(c, "output")
    /\ UNCHANGED <<turnVars, ctxVars, inFlight, history, prompt>>

\* Mutant of Record: outputs are recorded as they come.
Record_AnyOrder ==
    /\ phase = "drain"
    /\ \E i \in DOMAIN inFlight :
          LET c == inFlight[i]
          IN  /\ tool[c] = "output"
              /\ history' = Append(history, Output(c))
              /\ tool' = [tool EXCEPT ![c] = "recorded"]
              /\ inFlight' = RemoveAt(inFlight, i)
    /\ UNCHANGED <<turnVars, ctxVars, holders, prompt>>

\* FuturesOrdered yields in the order of the calls.  A fatal error is logged,
\* and its call stays without an output.
Record ==
    /\ phase = "drain" /\ inFlight # <<>>
    /\ LET c == Head(inFlight)
       IN  /\ tool[c] \in Finished
           /\ history' = IF tool[c] = "output" THEN Append(history, Output(c))
                         ELSE history
           /\ tool' = [tool EXCEPT ![c] = IF @ = "output" THEN "recorded"
                                          ELSE "dropped"]
    /\ inFlight' = Tail(inFlight)
    /\ UNCHANGED <<turnVars, ctxVars, holders, prompt>>

\* Mutant of Drained: the queue is not waited for.
Drained_Early ==
    /\ phase = "drain"
    /\ Goto(CASE outcome = "closed" -> "failed"
              [] outcome = "ok" /\ followUp -> "top"
              [] OTHER -> "done")

Drained ==
    /\ phase = "drain" /\ inFlight = <<>>
    /\ Goto(CASE outcome = "closed" -> "failed"
              [] outcome = "ok" /\ followUp -> "top"
              [] OTHER -> "done")

-----------------------------------------------------------------------------
(* The surroundings                                                         *)

\* A ghost snapshot is recorded, or given up, and its task marks the gate.  It
\* may come when its turn, or even a later one, is over.
SnapshotDone(t) ==
    /\ t \in snapshots /\ snapshots' = snapshots \ {t}
    /\ history' \in {history, Append(history, Ghost)}
    /\ UNCHANGED <<turnVars, cancelled, toolVars, prompt>>

\* handle_task_abort cancels the token,
Cancel ==
    /\ phase # "done" /\ ~cancelled
    /\ cancelled' = TRUE
    /\ UNCHANGED <<turnVars, snapshots, toolVars, history, prompt>>

\* and aborts a task that has not ended in time.  The futures go with it, and
\* their AbortOnDropHandles abort the tool tasks; one that is running goes on
\* until it yields.
Kill ==
    /\ phase # "done" /\ cancelled
    /\ phase' = "done"
    /\ inFlight' = <<>> /\ holders' = {}
    /\ tool' = [c \in Calls |->
                  CASE tool[c] = "running" -> "zombie"
                    [] tool[c] \in {"none", "recorded", "zombie"} -> tool[c]
                    [] OTHER -> "dropped"]
    /\ UNCHANGED <<outcome, followUp, retries, requests, turn, ctxVars,
                   history, prompt>>

ZombieEnds(c) ==
    /\ tool[c] = "zombie"
    /\ tool' = [tool EXCEPT ![c] = "dropped"]
    /\ UNCHANGED <<turnVars, ctxVars, inFlight, holders, history, prompt>>

-----------------------------------------------------------------------------
Results == {"ok", "closed", "aborted"}

\* What the turn does without the model, the user or a handler.
TurnStep == \/ Decline \/ Retry \/ Surrender
            \/ Record \/ Drained \/ StreamEnds("aborted")

ToolStep(c) == Acquire(c) \/ PassGate(c) \/ Interrupted(c)

Next == \/ Begin \/ Request \/ Decline \/ Retry \/ Surrender \/ ReplaceImage
        \/ NamelessCall \/ StreamFails \/ Record \/ Drained
        \/ Cancel \/ Kill
        \/ \E t \in 1 .. MaxTurns : SnapshotDone(t)
        \/ \E result \in Results : StreamEnds(result)
        \/ \E c \in Calls : \/ ToolCall(c) \/ Acquire(c)
                            \/ PassGate(c) \/ HandlerReturns(c)
                            \/ Interrupted(c) \/ ZombieEnds(c)

Spec == Init /\ [][Next]_vars

\* Tokio runs what can run.  Neither the model, nor a handler, nor the
\* snapshot, nor the grace period has to come to an end.
FairSpec == /\ Spec
            /\ WF_vars(TurnStep)
            /\ \A c \in Calls : WF_vars(ToolStep(c))

-----------------------------------------------------------------------------
TypeOK ==
    /\ phase \in Phases /\ outcome \in Results \union {"error"}
    /\ followUp \in BOOLEAN /\ cancelled \in BOOLEAN
    /\ snapshots \subseteq 1 .. turn
    /\ retries \in 0 .. MaxRetries /\ requests \in 0 .. MaxRequests
    /\ turn \in 0 .. MaxTurns
    /\ inFlight \in Seq(Calls)
    /\ tool \in [Calls -> ToolStates] /\ holders \subseteq Calls
    /\ history \in Seq(Item) /\ prompt \in Seq(Item)

IsOutput(x) == x.kind \in {"output", "aborted"}

\* The Responses API rejects anything else: in a prompt every call that has an
\* id is followed by one output, and no output comes without its call, whatever
\* was retried, cancelled, killed or fatal before.
PromptPaired ==
    /\ \A i \in DOMAIN prompt : IsCall(prompt[i]) =>
          \E j \in i + 1 .. Len(prompt) :
             IsOutput(prompt[j]) /\ prompt[j].call = prompt[i].call
    /\ \A i \in DOMAIN prompt : IsOutput(prompt[i]) =>
          /\ \E j \in 1 .. i - 1 :
                IsCall(prompt[j]) /\ prompt[j].call = prompt[i].call
          /\ \A j \in DOMAIN prompt \ {i} :
                ~(IsOutput(prompt[j]) /\ prompt[j].call = prompt[i].call)

\* A call whose tool does not support parallel calls runs alone.
ExclusiveAlone ==
    \A c, d \in Calls : /\ tool[c] \in {"gate", "running"} /\ c \notin Parallel
                        /\ tool[d] \in {"gate", "running"}
                        => c = d

\* A request, a retry or the end of a turn leaves no tool of an earlier attempt
\* behind, except one that was running when its turn was killed.
ToolsSettled ==
    \A c \in Calls : /\ phase # "drain" => tool[c] \notin Spawned \union Finished
                     /\ phase # "stream" => tool[c] # "queued"

\* The outputs in the history come once and in the order of their calls.
OutputsInCallOrder ==
    LET Answers  == {x \in Item : x.kind = "output" /\ x.call # NoId}
        Answered == {x \in Item : IsCall(x) /\ HasOutput(history, x.call)}
        Ids(h)   == [i \in DOMAIN h |-> h[i].call]
    IN  Ids(Only(history, Answers)) = Ids(Only(history, Answered))

\* What the model has been sent is never reordered or withdrawn: each prompt of
\* a conversation that is not compacted extends the one before, which the
\* provider's prefix cache needs.
PromptOnlyGrows == [][IsPrefix(prompt, prompt')]_prompt

\* A cancelled turn ends by itself, though the gate stays closed, a handler
\* hangs or the stream is silent, and needs no kill.
CancelledTurnEnds == cancelled ~> (phase = "done" \/ ~cancelled)
=============================================================================
