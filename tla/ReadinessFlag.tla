---------------------------- MODULE ReadinessFlag ----------------------------
(***************************************************************************)
(* codex-rs/utils/readiness: the flag that holds back mutating tool calls  *)
(* (core/src/tools/registry.rs) until the ghost snapshot of the working    *)
(* tree has been taken (core/src/tasks/ghost_snapshot.rs).                 *)
(*                                                                         *)
(* Every call is cut where another thread can run: at each atomic access,  *)
(* at the token mutex, and at each use of the tokio watch channel.         *)
(***************************************************************************)
EXTENDS Integers

CONSTANTS Waiters,          \* threads that call wait_ready()
          Markers,          \* threads that call subscribe(), then mark_ready()
          Free,             \* the mutex' holder when nobody holds it
          LockTimeouts      \* may the 1000 ms wait for the mutex expire?

Procs == Waiters \union Markers

ASSUME ProcsAssumption == /\ Waiters \intersect Markers = {}
                          /\ Free \notin Procs

VARIABLES
    ready,      \* the AtomicBool
    nextId,     \* the AtomicI32 tokens are drawn from (0 is reserved)
    tokens,     \* the set behind the mutex
    holder,     \* who holds the mutex
    chan,       \* watch channel: [value, version, receivers]
    seen,       \* version a waiter's receiver has last observed
    token,      \* the token a marker drew, 0 before
    pc,         \* where in its call a thread is
    winners     \* history: threads whose call turned the flag to ready

vars == <<ready, nextId, tokens, holder, chan, seen, token, pc, winners>>

WaiterPC == {"start", "try", "swap", "send", "reload", "attach", "peek",
             "await", "done"}
MarkerPC == {"idle", "claim", "sublock", "insert", "refused",
             "holding", "marklock", "mark", "announce", "returned"}

Init ==
    /\ ready = FALSE
    /\ nextId = 1
    /\ tokens = {}
    /\ holder = Free
    /\ chan = [value |-> FALSE, version |-> 0, receivers |-> {}]
    /\ seen = [w \in Waiters |-> 0]
    /\ token = [m \in Markers |-> 0]
    /\ pc = [p \in Procs |-> IF p \in Waiters THEN "start" ELSE "idle"]
    /\ winners = {}

Goto(p, from, to) == pc[p] = from /\ pc' = [pc EXCEPT ![p] = to]

\* tokio's watch::Sender::send(true): with no receiver it fails and the
\* value in the channel stays what it was.
Broadcast ==
    chan' = IF chan.receivers = {}
            THEN chan
            ELSE [value |-> TRUE, version |-> chan.version + 1,
                  receivers |-> chan.receivers]

-----------------------------------------------------------------------------
(* with_tokens: wait for the mutex, at most LOCK_TIMEOUT.                   *)

Lock(p, from, to) ==
    /\ Goto(p, from, to)
    /\ holder = Free
    /\ holder' = p
    /\ UNCHANGED <<ready, nextId, tokens, chan, seen, token, winners>>

LockTimesOut(p, from, to) ==
    /\ LockTimeouts
    /\ holder # Free
    /\ Goto(p, from, to)
    /\ UNCHANGED <<ready, nextId, tokens, holder, chan, seen, token, winners>>

-----------------------------------------------------------------------------
(* subscribe() and mark_ready(token)                                        *)

SubscribeCheck(m) ==
    /\ Goto(m, "idle", IF ready THEN "refused" ELSE "claim")
    /\ UNCHANGED <<ready, nextId, tokens, holder, chan, seen, token, winners>>

DrawToken(m) ==
    /\ Goto(m, "claim", "sublock")
    /\ token' = [token EXCEPT ![m] = nextId]
    /\ nextId' = nextId + 1
    /\ UNCHANGED <<ready, tokens, holder, chan, seen, winners>>

SubscribeLock(m) == \/ Lock(m, "sublock", "insert")
                    \/ LockTimesOut(m, "sublock", "refused")

\* The recheck under the lock, and the insertion.
InsertToken(m) ==
    /\ Goto(m, "insert", IF ready THEN "refused" ELSE "holding")
    /\ tokens' = IF ready THEN tokens ELSE tokens \union {token[m]}
    /\ holder' = Free
    /\ UNCHANGED <<ready, nextId, chan, seen, token, winners>>

\* A token is Copy: its owner may present it again.
MarkCheck(m) ==
    /\ pc[m] \in {"holding", "returned"}
    /\ pc' = [pc EXCEPT ![m] =
                  IF ready \/ token[m] = 0 THEN "returned" ELSE "marklock"]
    /\ UNCHANGED <<ready, nextId, tokens, holder, chan, seen, token, winners>>

MarkLock(m) == \/ Lock(m, "marklock", "mark")
               \/ LockTimesOut(m, "marklock", "returned")

\* Mutant of Mark: only the presented token leaves the set.
Mark_KeepOthers(m) ==
    /\ holder' = Free
    /\ \/ /\ token[m] \in tokens
          /\ Goto(m, "mark", "announce")
          /\ ready' = TRUE
          /\ tokens' = tokens \ {token[m]}
          /\ winners' = winners \union {m}
       \/ /\ token[m] \notin tokens
          /\ Goto(m, "mark", "returned")
          /\ UNCHANGED <<ready, tokens, winners>>
    /\ UNCHANGED <<nextId, chan, seen, token>>

Mark(m) ==
    /\ holder' = Free
    /\ \/ /\ token[m] \in tokens
          /\ Goto(m, "mark", "announce")
          /\ ready' = TRUE
          /\ tokens' = {}
          /\ winners' = winners \union {m}
       \/ /\ token[m] \notin tokens
          /\ Goto(m, "mark", "returned")
          /\ UNCHANGED <<ready, tokens, winners>>
    /\ UNCHANGED <<nextId, chan, seen, token>>

\* Mutant of Announce: mark_ready returns without the broadcast.
Announce_Skip(m) ==
    /\ Goto(m, "announce", "returned")
    /\ UNCHANGED <<ready, nextId, tokens, holder, chan, seen, token, winners>>

Announce(m) ==
    /\ Goto(m, "announce", "returned")
    /\ Broadcast
    /\ UNCHANGED <<ready, nextId, tokens, holder, seen, token, winners>>

-----------------------------------------------------------------------------
(* wait_ready(), which begins with is_ready()                               *)

FirstLoad(w) ==
    /\ Goto(w, "start", IF ready THEN "done" ELSE "try")
    /\ UNCHANGED <<ready, nextId, tokens, holder, chan, seen, token, winners>>

\* Mutant of TryLock: is_ready does not look into the set.
TryLock_IgnoreTokens(w) ==
    LET free == holder = Free
    IN  /\ Goto(w, "try", IF free THEN "swap" ELSE "reload")
        /\ holder' = IF free THEN w ELSE holder
        /\ UNCHANGED <<ready, nextId, tokens, chan, seen, token, winners>>

\* try_lock() succeeds and nobody is subscribed, or is_ready falls through
\* to its last load.
TryLock(w) ==
    LET free == holder = Free /\ tokens = {}
    IN  /\ Goto(w, "try", IF free THEN "swap" ELSE "reload")
        /\ holder' = IF free THEN w ELSE holder
        /\ UNCHANGED <<ready, nextId, tokens, chan, seen, token, winners>>

SwapReady(w) ==
    /\ Goto(w, "swap", IF ready THEN "done" ELSE "send")
    /\ ready' = TRUE
    /\ winners' = IF ready THEN winners ELSE winners \union {w}
    /\ holder' = Free
    /\ UNCHANGED <<nextId, tokens, chan, seen, token>>

SendReady(w) ==
    /\ Goto(w, "send", "done")
    /\ Broadcast
    /\ UNCHANGED <<ready, nextId, tokens, holder, seen, token, winners>>

LastLoad(w) ==
    /\ Goto(w, "reload", IF ready THEN "done" ELSE "attach")
    /\ UNCHANGED <<ready, nextId, tokens, holder, chan, seen, token, winners>>

\* tx.subscribe(): the new receiver counts the current version as seen.
Attach(w) ==
    /\ Goto(w, "attach", "peek")
    /\ chan' = [chan EXCEPT !.receivers = @ \union {w}]
    /\ seen' = [seen EXCEPT ![w] = chan.version]
    /\ UNCHANGED <<ready, nextId, tokens, holder, token, winners>>

\* *rx.borrow(), before the loop and in it; returning drops the receiver.
Peek(w) ==
    /\ Goto(w, "peek", IF chan.value THEN "done" ELSE "await")
    /\ chan' = IF chan.value THEN [chan EXCEPT !.receivers = @ \ {w}] ELSE chan
    /\ UNCHANGED <<ready, nextId, tokens, holder, seen, token, winners>>

\* rx.changed().await
Changed(w) ==
    /\ chan.version # seen[w]
    /\ Goto(w, "await", "peek")
    /\ seen' = [seen EXCEPT ![w] = chan.version]
    /\ UNCHANGED <<ready, nextId, tokens, holder, chan, token, winners>>

-----------------------------------------------------------------------------
MarkerStep(m) == \/ SubscribeCheck(m) \/ DrawToken(m) \/ SubscribeLock(m)
                 \/ InsertToken(m) \/ MarkCheck(m) \/ MarkLock(m)
                 \/ Mark(m) \/ Announce(m)

WaiterStep(w) == \/ FirstLoad(w) \/ TryLock(w) \/ SwapReady(w) \/ SendReady(w)
                 \/ LastLoad(w) \/ Attach(w) \/ Peek(w) \/ Changed(w)

Next == \/ \E m \in Markers : MarkerStep(m)
        \/ \E w \in Waiters : WaiterStep(w)

Spec == Init /\ [][Next]_vars

\* Tokio runs every task that can run, and its mutex hands the lock over in
\* arrival order, so a thread whose lock request can be met again and again
\* is served.  Nothing makes a caller present its token a second time.
FairSpec == /\ Spec
            /\ \A m \in Markers : /\ WF_vars(pc[m] # "returned" /\ MarkerStep(m))
                                  /\ SF_vars(SubscribeLock(m))
                                  /\ SF_vars(MarkLock(m))
            /\ \A w \in Waiters : WF_vars(WaiterStep(w))

-----------------------------------------------------------------------------
TypeOK ==
    /\ ready \in BOOLEAN
    /\ nextId \in Nat \ {0}
    /\ tokens \subseteq 1 .. nextId - 1
    /\ holder \in Procs \union {Free}
    /\ chan \in [value : BOOLEAN, version : Nat, receivers : SUBSET Waiters]
    /\ seen \in [Waiters -> Nat]
    /\ token \in [Markers -> 0 .. nextId - 1]
    /\ pc \in [Procs -> WaiterPC \union MarkerPC]
    /\ \A p \in Procs : pc[p] \in IF p \in Waiters THEN WaiterPC ELSE MarkerPC
    /\ winners \subseteq Procs

\* A ready flag has no subscription left: the recheck under the lock keeps a
\* subscriber that was overtaken by mark_ready from leaving a token behind.
NoTokenOnceReady == ready => tokens = {}

\* Of all the threads that race to turn the flag, by mark_ready or by
\* is_ready, one turns it: mark_ready returns true once over its lifetime.
OneWinner == \A p, q \in winners : p = q

\* wait_ready returns only when the flag is ready: no mutating tool call
\* starts before the snapshot is done.
NoEarlyReturn == \A w \in Waiters : pc[w] = "done" => ready

\* No one hears of a ready flag over the channel before the flag is ready,
\* and the channel carries at most one message.
OneMessage == chan.version <= 1 /\ (chan.value <=> chan.version = 1)
                                /\ (chan.value => ready)

Latch == INSTANCE TokenLatch
            WITH open <- ready, keys <- tokens, lastKey <- nextId - 1

\* The flag is a one-shot latch (TokenLatch): it is opened with a live token,
\* or while nobody is subscribed (the tests have it so, the trait's comment on
\* is_ready does not), and never closes.
ImplementsLatch == Latch!Spec

\* A waiter that holds its receiver when the thread that turned the flag is
\* about to announce it returns from wait_ready.
AttachedWaiterReleased ==
    \A w \in Waiters :
        (w \in chan.receivers /\ \E p \in Procs : pc[p] \in {"announce", "send"})
            ~> (pc[w] = "done")

\* The trait's "Asynchronously wait until the flag becomes ready": once the
\* flag is ready a waiting thread goes on.
EveryWaiterReleased ==
    \A w \in Waiters : (ready /\ pc[w] = "await") ~> (pc[w] = "done")
=============================================================================
