---------------------------- MODULE UnifiedExec ----------------------------
(***************************************************************************)
(* Interactive processes of a session (core/src/unified_exec): exec_command *)
(* opens one, returns what it has written so far and keeps it if it still   *)
(* runs; write_stdin polls it later; a background task streams its output   *)
(* to the client and another one reports its end.                           *)
(*                                                                          *)
(* Commands are numbered by their exec_command calls, and so are what the   *)
(* code keeps per process: process ids are taken as never used twice. The   *)
(* tools are not parallel: one call at a time. Chunks of output are         *)
(* numbered by process and of one size; every queue of them is in order, so *)
(* a set tells it.                                                          *)
(***************************************************************************)
EXTENDS Orchestrator, Integers, Sequences, FiniteSets, FiniteSetsExt, SequencesExt

CONSTANTS MaxSessions,  \* MAX_UNIFIED_EXEC_SESSIONS; 64 in the code
          WarnAt,       \* WARNING_UNIFIED_EXEC_SESSIONS; 60
          Protected,    \* most recently used sessions that are not pruned; 8
          Retained,     \* chunks a broadcast channel retains; 256
          MaxBuffer,    \* chunks a buffer or a transcript keeps; 1 MiB
          AnswerSizes,  \* chunks an answer may have: max_output_tokens of a call
          MaxCommands,  \* bound: commands
          Budgets       \* bounds: in each mode, how many commands, chunks and
                        \* polls there are, how many processes exit by
                        \* themselves, and how many calls are dropped

Bounded == {"command", "chunk", "poll", "exit", "drop"}
Commands == 1 .. MaxCommands

ASSUME UnifiedExecAssumption ==
  /\ MaxSessions \in Nat /\ WarnAt \in Nat /\ Protected \in Nat
  /\ Protected < MaxSessions /\ Retained \in Nat \ {0}
  /\ MaxBuffer \in Nat \ {0} /\ AnswerSizes \in SUBSET Nat \ {{}}
  /\ MaxCommands \in Nat
  /\ \A m \in Modes : Budgets[m] \subseteq {b \in [Bounded -> Nat] : b["command"] <= MaxCommands}

VARIABLES calls,       \* how many commands there have been
          pc,          \* where the running call is, or "idle"
          cur,         \* the command it is about
          hand,        \* the chunks it has collected
          code,        \* it has read an exit code
          proc,        \* of a command: "none", "running", "status" (has_exited)
                       \* or "exited" (and its exit code is set)
          killed,      \* processes whose session has been terminated
          token,       \* sessions whose cancellation_token is cancelled
          written,     \* how many chunks a process has written
          buffer, pos, \* output_buffer, and how far its task has read
          streaming,   \* commands that are streamed to the client,
          spos,        \* how far,
          transcript,  \* and what for
          drained,     \* sessions whose output_drained holds a permit
          watched,     \* sessions with an exit watcher
          ended,       \* how many ExecCommandEnd events there have been
          used,        \* the stored sessions, the last used one at the end
          told,        \* the chunks the model has been given
          lost,        \* how a command's output may have been lost, see Losses
          down,        \* the session has been shut down
          left         \* what is left of the budget

process == <<proc, written>>
output == <<buffer, pos, streaming, spos, transcript, drained>>
events == <<watched, ended>>
results == <<told, lost>>
call == <<pc, cur, hand, code>>
vars == <<orchestrator, calls, call, process, killed, token, output, events, used,
          results, down, left>>

Stored == ToSet(used)
HasExited(c) == proc[c] # "running"

\* It was overtaken in the channel, pushed out of the buffer, cut out of an
\* answer, or collected by a call that was dropped.
Losses == {"lagged", "full", "cut", "dropped"}
Lose(c, losses) == lost' = [lost EXCEPT ![c] = @ \union losses]

Spend(what) == left[what] > 0 /\ left' = [left EXCEPT ![what] = @ - 1]
Goto(where) == pc' = where

Init ==
  /\ OrchestratorInit
  /\ left \in Budgets[mode]
  /\ calls = 0 /\ pc = "idle" /\ cur = 0 /\ hand = {} /\ code = FALSE
  /\ proc = [c \in Commands |-> "none"] /\ written = [c \in Commands |-> 0]
  /\ buffer = [c \in Commands |-> {}] /\ pos = [c \in Commands |-> 0]
  /\ spos = [c \in Commands |-> 0] /\ transcript = [c \in Commands |-> {}]
  /\ ended = [c \in Commands |-> 0] /\ told = [c \in Commands |-> {}]
  /\ killed = {} /\ token = {} /\ streaming = {} /\ drained = {} /\ watched = {}
  /\ used = <<>> /\ lost = [c \in Commands |-> {}] /\ down = FALSE
-----------------------------------------------------------------------------
(* The process, and the tasks that read from it                             *)

\* The reader thread of the pty goes on until the process is gone, and a
\* killed process may write yet.
Write(c) ==
  /\ proc[c] = "running" /\ Spend("chunk")
  /\ written' = [written EXCEPT ![c] = @ + 1]
  /\ UNCHANGED <<orchestrator, calls, call, proc, killed, token, output, events, used,
                 results, down>>

\* The wait thread: first the status, then the code.
Exit(c) ==
  /\ proc[c] \in {"running", "status"}
  /\ proc' = [proc EXCEPT ![c] = IF @ = "running" THEN "status" ELSE "exited"]
  /\ IF proc[c] = "running" /\ c \notin killed THEN Spend("exit") ELSE UNCHANGED left
  /\ UNCHANGED <<orchestrator, calls, call, written, killed, token, output, events,
                 used, results, down>>

\* The task of from_spawned that waits for the exit; until the call has
\* stopped waiting for it itself there is none.
Signal(c) ==
  /\ proc[c] = "exited" /\ c \notin token
  /\ ~(cur = c /\ pc = "probe")
  /\ token' = token \union {c}
  /\ UNCHANGED <<orchestrator, calls, call, process, killed, output, events, used,
                 results, down, left>>

\* What a receiver that has read n chunks gets next.
Following(c, n) == Max({n + 1, written[c] - Retained + 1})

\* push_chunk, and append of a transcript: the oldest chunks make room.
Newest(chunks) == {i \in chunks : Cardinality({j \in chunks : j > i}) < MaxBuffer}

\* The task that fills output_buffer, until terminate aborts it.
Buffer(c) ==
  /\ pos[c] < written[c] /\ c \notin killed
  /\ LET n == Following(c, pos[c])
         chunks == buffer[c] \union {n}
     IN  /\ buffer' = [buffer EXCEPT ![c] = Newest(chunks)]
         /\ pos' = [pos EXCEPT ![c] = n]
         /\ Lose(c, {"lagged" : x \in {n} \ {pos[c] + 1}}
                      \union {"full" : x \in chunks \ Newest(chunks)})
  /\ UNCHANGED <<orchestrator, calls, call, process, killed, token, streaming, spos,
                 transcript, drained, events, used, told, down, left>>

\* start_streaming_output: chunks go to the transcript and to the client
Stream(c) ==
  /\ c \in streaming /\ spos[c] < written[c]
  /\ LET n == Following(c, spos[c])
     IN  /\ transcript' = [transcript EXCEPT ![c] = Newest(@ \union {n})]
         /\ spos' = [spos EXCEPT ![c] = n]
  /\ UNCHANGED <<orchestrator, calls, call, process, killed, token, buffer, pos,
                 streaming, drained, events, used, results, down, left>>

\* Mutant of StreamEnds: the task ends without a word.
StreamEnds_Silent(c) ==
  /\ c \in streaming /\ c \in token
  /\ streaming' = streaming \ {c}
  /\ UNCHANGED <<orchestrator, calls, call, process, killed, token, buffer, pos, spos,
                 transcript, drained, events, used, results, down, left>>

\* until some time after the exit.
StreamEnds(c) ==
  /\ c \in streaming /\ c \in token
  /\ streaming' = streaming \ {c}
  /\ drained' = drained \union {c}
  /\ UNCHANGED <<orchestrator, calls, call, process, killed, token, buffer, pos, spos,
                 transcript, events, used, results, down, left>>

\* UnifiedExecSession::terminate. A session is also terminated when it is
\* dropped: by the last of the store, its watcher and the call that opened it.
Terminate(C) == killed' = killed \union C /\ token' = token \union C

\* spawn_exit_watcher, which has the session until it is done.
ReportEnd(c) ==
  /\ c \in watched /\ c \in token /\ c \in drained
  /\ watched' = watched \ {c}
  /\ drained' = drained \ {c}
  /\ ended' = [ended EXCEPT ![c] = @ + 1]
  /\ Terminate({c} \ Stored)
  /\ UNCHANGED <<orchestrator, calls, call, process, buffer, pos, streaming, spos,
                 transcript, used, results, down, left>>
-----------------------------------------------------------------------------
(* exec_command                                                             *)

\* The call is over, and with it the orchestrator's run.
Return == Goto("idle") /\ cur' = 0 /\ hand' = {} /\ code' = FALSE

\* The handler, up to the orchestrator.
ExecCommand ==
  /\ pc = "idle" /\ ~down /\ Spend("command")
  /\ \E r \in Requests : OrchestratorBegin(r)
  /\ calls' = calls + 1 /\ cur' = calls + 1 /\ Goto("open")
  /\ UNCHANGED <<hand, code, process, killed, token, output, events, used, results, down>>

Answered ==
  /\ pc = "open" /\ Approval
  /\ UNCHANGED <<calls, call, process, killed, token, output, events, used, results,
                 down, left>>

\* open_session_with_exec_env: a process of its own for every attempt.
Spawn ==
  /\ pc = "open" /\ stage \in {"first", "second"}
  /\ \/ Fails /\ UNCHANGED <<pc, proc>>
     \/ Goto("probe") /\ proc' = [proc EXCEPT ![cur] = "running"] /\ UNCHANGED orchestrator
  /\ UNCHANGED <<calls, cur, hand, code, written, killed, token, output, events, used,
                 results, down, left>>

\* check_for_sandbox_denial: the exit is noticed in time, and its code and
\* output look like the sandbox. What is left of the attempt is dropped.
ProbeDenied ==
  /\ pc = "probe" /\ proc[cur] = "exited" /\ Denied
  /\ Goto("open")
  /\ proc' = [proc EXCEPT ![cur] = "none"] /\ written' = [written EXCEPT ![cur] = 0]
  /\ buffer' = [buffer EXCEPT ![cur] = {}] /\ pos' = [pos EXCEPT ![cur] = 0]
  /\ lost' = [lost EXCEPT ![cur] = {}]
  /\ UNCHANGED <<calls, cur, hand, code, killed, token, streaming, spos, transcript,
                 drained, events, used, told, down, left>>

\* Mutant of Probed: the exit watcher is spawned with the streaming task.
Probed_Watch ==
  /\ pc = "probe" /\ Goto("collect")
  /\ \/ proc[cur] = "exited" /\ token' = token \union {cur}
     \/ UNCHANGED token
  /\ streaming' = streaming \union {cur}
  /\ spos' = [spos EXCEPT ![cur] = written[cur]]
  /\ watched' = watched \union {cur}
  /\ UNCHANGED <<orchestrator, calls, cur, hand, code, process, killed, buffer, pos,
                 transcript, drained, ended, used, results, down, left>>

\* The process has not been seen to exit in 150 ms, or has and was not denied:
\* start_streaming_output subscribes to what comes from now on.
Probed ==
  /\ pc = "probe" /\ Goto("collect")
  /\ \/ proc[cur] = "exited" /\ token' = token \union {cur}
     \/ UNCHANGED token
  /\ streaming' = streaming \union {cur}
  /\ spos' = [spos EXCEPT ![cur] = written[cur]]
  /\ UNCHANGED <<orchestrator, calls, cur, hand, code, process, killed, buffer, pos,
                 transcript, drained, events, used, results, down, left>>

\* The session could not be opened; the id is released.
Refused ==
  /\ pc = "open" /\ stage = "refused"
  /\ OrchestratorEnds /\ Return
  /\ UNCHANGED <<calls, process, killed, token, output, events, used, results, down, left>>

\* Mutant of Collect: the chunks stay in the buffer.
Collect_Peek ==
  /\ pc \in {"collect", "poll"}
  /\ hand' = hand \union buffer[cur]
  /\ \/ UNCHANGED <<pc, code>>
     \/ Goto(IF pc = "collect" THEN "judge" ELSE "refresh") /\ code' = (proc[cur] = "exited")
  /\ UNCHANGED <<orchestrator, calls, cur, process, killed, token, output, events, used,
                 results, down, left>>

\* collect_output_until_deadline takes what is there, until the deadline or some
\* time after the exit; then the exit code is read.
Collect ==
  /\ pc \in {"collect", "poll"}
  /\ hand' = hand \union buffer[cur]
  /\ buffer' = [buffer EXCEPT ![cur] = {}]
  /\ \/ buffer[cur] # {} /\ UNCHANGED <<pc, code>>
     \/ Goto(IF pc = "collect" THEN "judge" ELSE "refresh") /\ code' = (proc[cur] = "exited")
  /\ UNCHANGED <<orchestrator, calls, cur, process, killed, token, pos, streaming, spos,
                 transcript, drained, events, used, results, down, left>>

\* A short-lived command: its end is reported at once, with what the
\* transcript has by then.
Finished ==
  /\ pc = "judge" /\ (code \/ HasExited(cur))
  /\ ended' = [ended EXCEPT ![cur] = @ + 1]
  /\ Goto("respond")
  /\ UNCHANGED <<orchestrator, calls, cur, hand, code, process, killed, token, output,
                 watched, used, results, down, left>>

Lives ==
  /\ pc = "judge" /\ ~code /\ ~HasExited(cur)
  /\ Goto("store")
  /\ UNCHANGED <<orchestrator, calls, cur, hand, code, process, killed, token, output,
                 events, used, results, down, left>>

\* The first session in the order of use, of those beyond the protected ones
\* that are in S, if any.
FirstOf(S) == LET old == SubSeq(used, 1, Len(used) - Protected)
                  in  == {i \in DOMAIN old : old[i] \in S}
              IN  IF in = {} THEN {} ELSE {old[Min(in)]}

\* Mutant of Pruned: the oldest session goes, whether it still runs or not.
Pruned_Oldest == IF Len(used) < MaxSessions THEN {} ELSE FirstOf(Commands)

\* prune_sessions_if_needed: an exited session first.
Pruned ==
  LET exited == FirstOf({c \in Commands : HasExited(c)})
  IN  IF Len(used) < MaxSessions THEN {}
      ELSE IF exited # {} THEN exited ELSE FirstOf(Commands)

Kept == IF Pruned = {} THEN used ELSE RemoveFirst(used, CHOOSE c \in Pruned : TRUE)

\* store_session, up to the warning that awaits.
Store ==
  /\ pc = "store"
  /\ used' = Append(Kept, cur)
  /\ Terminate(Pruned)
  /\ IF Len(used') >= WarnAt THEN Goto("warn") /\ UNCHANGED watched
     ELSE Goto("respond") /\ watched' = watched \union {cur}
  /\ UNCHANGED <<orchestrator, calls, cur, hand, code, process, output, ended, results,
                 down, left>>

Warned ==
  /\ pc = "warn" /\ Goto("respond")
  /\ watched' = watched \union {cur}
  /\ UNCHANGED <<orchestrator, calls, cur, hand, code, process, killed, token, output,
                 ended, used, results, down, left>>
-----------------------------------------------------------------------------
(* write_stdin, the end of a call, and of the session                       *)

\* prepare_session_handles; what is written to the process is not modelled.
WriteStdin(c) ==
  /\ pc = "idle" /\ c \in Stored /\ Spend("poll")
  /\ cur' = c /\ Goto("poll")
  /\ used' = Append(RemoveFirst(used, c), c)
  /\ UNCHANGED <<orchestrator, calls, hand, code, process, killed, token, output, events,
                 results, down>>

\* refresh_session_state: an exited session is removed, and dropped by the store.
Refresh ==
  /\ pc = "refresh" /\ Goto("respond")
  /\ IF HasExited(cur)
     THEN used' = RemoveFirst(used, cur) /\ Terminate({cur} \ watched)
     ELSE UNCHANGED <<used, killed, token>>
  /\ UNCHANGED <<orchestrator, calls, cur, hand, code, process, output, events, results,
                 down, left>>

\* The session of a call that is over, if there is one, is dropped by the call.
DropSession ==
  Terminate({cur} \ (Stored \union watched \union {c \in Commands : proc[c] = "none"}))

\* formatted_truncate_text: of what is too long the middle is left out.
Truncated(chunks, size) ==
  IF Cardinality(chunks) <= size THEN chunks
  ELSE {i \in chunks : \/ Cardinality({j \in chunks : j < i}) < size \div 2
                       \/ Cardinality({j \in chunks : j > i}) < size - size \div 2}

\* The model is given what has been collected, or as much of it as it asked for.
Respond ==
  /\ pc = "respond"
  /\ \E size \in AnswerSizes :
        LET answer == Truncated(hand, size)
        IN  /\ told' = [told EXCEPT ![cur] = @ \union answer]
            /\ Lose(cur, {"cut" : x \in hand \ answer})
  /\ DropSession /\ OrchestratorEnds /\ Return
  /\ UNCHANGED <<calls, process, output, events, used, down, left>>

\* Mutant of Dropped: the process of a call that is dropped goes on.
Dropped_Leaks ==
  /\ pc # "idle" /\ Spend("drop")
  /\ Lose(cur, {"dropped"})
  /\ OrchestratorEnds /\ Return
  /\ UNCHANGED <<calls, process, killed, token, output, events, used, told, down>>

\* The turn is aborted: the future of the call is dropped where it waits, with
\* what it has collected.
Dropped ==
  /\ pc # "idle" /\ Spend("drop")
  /\ Lose(cur, {"dropped"})
  /\ DropSession /\ OrchestratorEnds /\ Return
  /\ UNCHANGED <<calls, process, output, events, used, told, down>>

\* terminate_all_sessions, when the tasks have been aborted.
Shutdown ==
  /\ pc = "idle" /\ ~down
  /\ down' = TRUE
  /\ used' = <<>> /\ Terminate(Stored)
  /\ UNCHANGED <<orchestrator, calls, call, process, output, events, results, left>>

Call == \/ Answered \/ Spawn \/ ProbeDenied \/ Probed \/ Refused \/ Collect
        \/ Finished \/ Lives \/ Store \/ Warned \/ Refresh \/ Respond

Background(c) == Buffer(c) \/ Stream(c) \/ StreamEnds(c) \/ ReportEnd(c)

Next ==
  \/ ExecCommand \/ (\E c \in Commands : WriteStdin(c)) \/ Call \/ Dropped \/ Shutdown
  \/ \E c \in Commands : Write(c) \/ Exit(c) \/ Signal(c) \/ Background(c)

Spec == Init /\ [][Next]_vars

\* Tokio's timers fire and its tasks run; a process that is killed dies, and
\* what has died is reaped. Nothing is assumed of a process that is let run,
\* of the user, of the model, or of its calls.
FairSpec ==
  /\ Spec
  /\ \A c \in Commands : /\ WF_vars((c \in killed \/ proc[c] = "status") /\ Exit(c))
                         /\ WF_vars(Signal(c)) /\ WF_vars(StreamEnds(c)) /\ WF_vars(ReportEnd(c))
-----------------------------------------------------------------------------
\* The type of every variable.
TypeOK ==
  /\ OrchestratorTypeOK
  /\ calls \in 0 .. MaxCommands /\ cur \in 0 .. calls
  /\ pc \in {"idle", "open", "probe", "collect", "judge", "store", "warn", "poll",
             "refresh", "respond"}
  /\ code \in BOOLEAN /\ down \in BOOLEAN
  /\ proc \in [Commands -> {"none", "running", "status", "exited"}]
  /\ written \in [Commands -> Nat] /\ ended \in [Commands -> Nat]
  /\ pos \in [Commands -> Nat] /\ spos \in [Commands -> Nat]
  /\ buffer \in [Commands -> SUBSET Nat] /\ transcript \in [Commands -> SUBSET Nat]
  /\ told \in [Commands -> SUBSET Nat] /\ hand \subseteq Nat
  /\ lost \in [Commands -> SUBSET Losses]
  /\ killed \union token \union streaming \union drained \union watched \subseteq Commands
  /\ used \in Seq(1 .. calls)
  /\ left \in [Bounded -> Nat]

Running(c) == proc[c] = "running" /\ c \notin killed

\* No process is left behind: one that runs and has not been killed is that of
\* the running call or can be polled, and none runs after the shutdown.
NoOrphan ==
  \A c \in Commands : Running(c) => ~down /\ (c \in Stored \/ c = cur)

\* One ExecCommandEnd per command, whoever finds it has exited (the comment in
\* exec_command: "so all end events share one implementation"); the one that is
\* reported in the background has the exit code, unless the session was
\* terminated before.
EndedOnce ==
  \A c \in Commands : /\ ended[c] <= 1
                      /\ c \in watched => ended[c] = 0
                      /\ c \in (watched \intersect token) \ killed => proc[c] = "exited"

\* The output the model is given is that of the process, in order and with
\* nothing twice. All that has been read is given to it or waits for the next
\* poll, unless the buffer was full (mod.rs:248 has the test), an answer was cut
\* to the size asked for, a call was dropped with what it had collected, or the
\* reader was overtaken in the channel; and what waits is the newest.
OutputInOrder ==
  \A c \in Commands :
    LET held == IF c = cur THEN hand ELSE {}
    IN  /\ \A i \in told[c], j \in held \union buffer[c] : i < j
        /\ \A i \in held, j \in buffer[c] : i < j
        /\ lost[c] = {} => told[c] \union held \union buffer[c] = 1 .. pos[c]
        /\ "lagged" \notin lost[c] => \A i \in buffer[c] : i .. pos[c] \subseteq buffer[c]

LastUsed == {used[i] : i \in Len(used) - Protected + 1 .. Len(used)}

\* A session that is stored only makes room for another: at the limit, for one
\* that is newly opened, and never at the cost of the last used ones or of a
\* process that runs while another one beyond those does not.
PrunedLast ==
  [][\A c \in Stored \ Stored' :
       pc = "store" =>
         /\ Cardinality(Stored) = MaxSessions
         /\ c \notin LastUsed
         /\ ~HasExited(c) => \A d \in Stored \ LastUsed : ~HasExited(d)]_vars

\* "register a background watcher that will emit ExecCommandEnd when the PTY
\* eventually exits (even if no further tool calls are made)": unless its call
\* was dropped before the watcher was there, a stored command whose process ends
\* is reported, whether it was pruned, polled or shut down.
EndReported ==
  \A c \in Commands :
     (c \in watched /\ (c \in killed \/ HasExited(c))) ~> ended[c] = 1

\* unified_exec.rs:772 (tests): "aggregated_output should contain the full PTY
\* transcript". When the streaming of a command that exits by itself has come to
\* its end, the end event tells all it has written, if that is no more than the
\* channel and the transcript hold.
FullTranscript ==
  [][\A c \in watched \ (watched' \union killed) :
        ended'[c] > ended[c] /\ spos[c] = written[c] /\ written[c] <= Min({Retained, MaxBuffer})
          => transcript[c] = 1 .. written[c]]_vars
=============================================================================
