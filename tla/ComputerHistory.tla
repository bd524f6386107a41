-------------------------- MODULE ComputerHistory --------------------------
(***************************************************************************)
(* Capture of the computer history: HistoryManager, its writer thread and  *)
(* its store of encrypted chunks (cua-driver-core/src/history.rs).         *)
(*                                                                         *)
(* Dispatches hand events to a bounded queue and never wait; the control   *)
(* operations are serialised by a mutex, put their own events into the     *)
(* queue and wait for the writer; the writer appends to the newest chunk,  *)
(* rotates and prunes. The state, the key and the chunks survive the end   *)
(* of the process, everything else is gone with it. Of an event only its   *)
(* sequence number matters, of a chunk whether it can be decoded, and with *)
(* which key. Any storage operation may fail.                              *)
(***************************************************************************)
EXTENDS Naturals, Sequences, Functions

CONSTANTS
    Dispatches,   \* threads that dispatch tool calls
    Capacity,     \* WRITER_QUEUE_CAPACITY
    MaxActions,   \* actions dispatched
    MaxAsked,     \* control operations
    MaxEnds,      \* ends of the process
    MaxTicks      \* times an interval or a retention passes

ASSUME BoundsAssumption ==
    /\ Capacity \in Nat \ {0}
    /\ MaxActions \in Nat /\ MaxAsked \in Nat /\ MaxEnds \in Nat /\ MaxTicks \in Nat

Operations == {"enable", "disable", "pause", "resume", "flush", "delete", "query", "quit"}
Keys == 1..3

Event(n) == [kind |-> "event", sequence |-> n, heard |-> FALSE]
Request(k) == [kind |-> k, sequence |-> 0, heard |-> TRUE]

VARIABLES
    \* on disk and in the credential store
    persisted,   \* state.json: "off", "on" or "paused"
    chunks,      \* the chunk files, by their place in the order of creation
    key,         \* the namespace key, 0 without one
    reachable,   \* may this build read the existing key?
    \* HistoryManager
    up,          \* the process runs
    enabled, paused,
    named,       \* session_id_key is cached
    next,        \* next_sequence
    owed,        \* pending_dropped_events > 0
    \* the writer thread
    writer,      \* "none", "running", or "failed" after a terminal error
    queue,
    due,         \* the newest chunk is older than CHUNK_ROTATION_INTERVAL
    \* the control operation under way, and the dispatches
    op, step, reply,
    found,       \* the highest number in the snapshot it got
    at,
    \* bounds, and what the user knows
    begun, asked, ends, ticks,
    told,        \* the state a control operation has last confirmed
    seen         \* the highest sequence number a query has returned

disk == <<persisted, chunks, key, reachable>>
manager == <<enabled, paused, named, next, owed>>
thread == <<writer, queue, due>>
control == <<op, step, reply, found>>
bounds == <<begun, asked, ends, ticks>>
vars == <<disk, up, manager, thread, control, at, bounds, told, seen>>

Places == Nat \ {0}
Chunks == [of : Keys, items : Seq(Nat \ {0}), torn : BOOLEAN, aged : BOOLEAN]
Messages == [kind : {"event", "flush", "read", "shutdown"}, sequence : Nat, heard : BOOLEAN]

TypeOK ==
    /\ persisted \in {"off", "on", "paused"}
    /\ DOMAIN chunks \subseteq Places /\ chunks \in [DOMAIN chunks -> Chunks]
    /\ key \in Keys \cup {0} /\ reachable \in BOOLEAN
    /\ up \in BOOLEAN /\ enabled \in BOOLEAN /\ paused \in BOOLEAN
    /\ named \in BOOLEAN /\ next \in Nat \ {0} /\ owed \in BOOLEAN
    /\ writer \in {"none", "running", "failed"} /\ due \in BOOLEAN
    /\ queue \in Seq(Messages) /\ Len(queue) <= Capacity
    /\ op \in Operations \cup {"none"}
    /\ step \in {"idle", "persist", "send", "flush", "wait", "read", "reading",
                 "stop", "join", "destroy", "forget", "remove"}
    /\ reply \in {"none", "ok", "error"} /\ found \in Nat
    /\ at \in [Dispatches -> {"idle", "start", "ready", "acting", "finish"}]
    /\ begun \in 0..MaxActions /\ asked \in 0..MaxAsked
    /\ ends \in 0..MaxEnds /\ ticks \in 0..MaxTicks
    /\ told \in {"off", "on", "paused", "unknown"} /\ seen \in Nat

Init ==
    /\ persisted = "off" /\ chunks = <<>> /\ key = 0 /\ reachable = TRUE
    /\ up = TRUE /\ enabled = FALSE /\ paused = FALSE
    /\ named = FALSE /\ next = 1 /\ owed = FALSE
    /\ writer = "none" /\ queue = <<>> /\ due = FALSE
    /\ op = "none" /\ step = "idle" /\ reply = "none" /\ found = 0
    /\ at = [d \in Dispatches |-> "idle"]
    /\ begun = 0 /\ asked = 0 /\ ends = 0 /\ ticks = 0
    /\ told = "off" /\ seen = 0

-----------------------------------------------------------------------------
(* The store.                                                              *)

Numbers(cs) == UNION {Range(cs[i].items) : i \in DOMAIN cs}
Highest(S) == IF S = {} THEN 0 ELSE CHOOSE n \in S : \A m \in S : m <= n

Distinct(cs) ==
    \A i, j \in DOMAIN cs : \A a \in DOMAIN cs[i].items, b \in DOMAIN cs[j].items :
        cs[i].items[a] = cs[j].items[b] => i = j /\ a = b

\* read_all: every chunk is decoded with the key it names, up to its last item,
\* and no number is found twice.
Readable(cs) ==
    /\ \A i \in DOMAIN cs : ~cs[i].torn /\ cs[i].of = key /\ reachable
    /\ Distinct(cs)

\* prune_expired_chunks_except
Newest(cs) == Highest(DOMAIN cs)
Pruned(cs) == Restrict(cs, {i \in DOMAIN cs : ~cs[i].aged})
PrunedButNewest(cs) == Restrict(cs, {i \in DOMAIN cs : ~cs[i].aged \/ i = Newest(cs)})

\* load_or_create: a key that cannot be read counts as absent.
FreshKey == CHOOSE k \in Keys : k # key /\ \A i \in DOMAIN chunks : chunks[i].of # k
LoadedKey == IF key # 0 /\ reachable THEN key ELSE FreshKey

Chunk(k, items, torn) == [of |-> k, items |-> items, torn |-> torn, aged |-> FALSE]

Created(cs, c) ==
    [i \in DOMAIN cs \cup {Newest(cs) + 1} |-> IF i \in DOMAIN cs THEN cs[i] ELSE c]
Appended(cs, n) ==
    [cs EXCEPT ![Newest(cs)].items = Append(@, n), ![Newest(cs)].aged = FALSE]
Torn(cs) == [cs EXCEPT ![Newest(cs)].torn = TRUE]

\* A new chunk that could not be completed: no file, or an incomplete one.
Unfinished(cs, k) == {cs, Created(cs, Chunk(k, <<>>, TRUE))}

-----------------------------------------------------------------------------
(* The queue.                                                              *)

HasRoom_OffByOne(q) == Len(q) <= Capacity
HasRoom(q) == Len(q) < Capacity

\* send_lossless, by the control thread, which keeps the writer's mutex while the
\* queue is full.
Send ==
    /\ step = "send" /\ HasRoom(queue)
    /\ queue' = Append(queue, Event(next)) /\ next' = next + 1
    /\ step' = "flush"
    /\ UNCHANGED <<disk, up, enabled, paused, named, owed, writer, due, op, reply,
                   found, at, bounds, told, seen>>

\* A request with its response channel, and the wait for the answer.
Requests(k, then) ==
    /\ HasRoom(queue)
    /\ queue' = Append(queue, Request(k))
    /\ step' = then
    /\ UNCHANGED <<disk, up, manager, writer, due, op, reply, found, at, bounds,
                   told, seen>>

Flush == step = "flush" /\ Requests("flush", "wait")
AskSnapshot == step = "read" /\ Requests("read", "reading")
Stop == step = "stop" /\ Requests("shutdown", "join")

\* The mutex of the writer handle is held over a query's snapshot, a blocked send
\* and the end of the writer.
HandleHeld == step \in {"send", "read", "reading", "stop", "join"}

\* try_send: a dropped event is reported before the next one that is accepted.
\* Every attempt takes its sequence number.
Offered(q, n) == IF HasRoom(q) THEN Append(q, Event(n)) ELSE q

TrySend(d) ==
    \/ /\ \/ HandleHeld \/ writer = "none" \/ step = "flush"
          \/ \E e \in Dispatches \ {d} : at[e] \in {"ready", "finish"}
       /\ owed' = TRUE
       /\ UNCHANGED <<queue, next>>
    \/ /\ ~HandleHeld /\ writer # "none"
       /\ LET n == IF owed THEN next + 1 ELSE next
              reported == IF owed THEN Offered(queue, next) ELSE queue
          IN /\ queue' = Offered(reported, n)
             /\ owed' = ((owed /\ ~HasRoom(queue)) \/ ~HasRoom(reported))
             /\ next' = n + 1

-----------------------------------------------------------------------------
(* Dispatches: begin_action, the tool, finish_action.                      *)

IsCapturing == enabled /\ ~paused

Goes(d, from, to) == at[d] = from /\ at' = [at EXCEPT ![d] = to]

Begin(d) ==
    /\ up /\ op # "quit" /\ begun < MaxActions /\ IsCapturing
    /\ Goes(d, "idle", "start")
    /\ begun' = begun + 1
    /\ UNCHANGED <<disk, up, manager, thread, control, asked, ends, ticks, told, seen>>

\* session_id, for a call that names a session
Name(d) ==
    /\ Goes(d, "start", "ready")
    /\ \/ UNCHANGED <<key, named, reachable>>
       \/ /\ ~named /\ named' = TRUE
          /\ key' = LoadedKey /\ reachable' = TRUE
    /\ UNCHANGED <<persisted, chunks, up, enabled, paused, next, owed, thread, control,
                   bounds, told, seen>>

SendStarted(d) ==
    /\ Goes(d, "ready", "acting")
    /\ TrySend(d)
    /\ UNCHANGED <<disk, up, enabled, paused, named, writer, due, control, bounds, told, seen>>

\* The action completes, and whether it was admitted decides, not the pause.
Finish(d) ==
    /\ Goes(d, "acting", IF enabled THEN "finish" ELSE "idle")
    /\ UNCHANGED <<disk, up, manager, thread, control, bounds, told, seen>>

SendCompleted(d) ==
    /\ Goes(d, "finish", "idle")
    /\ TrySend(d)
    /\ UNCHANGED <<disk, up, enabled, paused, named, writer, due, control, bounds, told, seen>>

-----------------------------------------------------------------------------
(* The writer thread.                                                      *)

\* checkpoint_retention: rotation when it is due and the chunk is not empty, and
\* pruning of all others.
Active == chunks[Newest(chunks)]
Rotates == due /\ (Active.items # <<>> \/ Active.torn)
Rotated == IF Rotates THEN Created(chunks, Chunk(Active.of, <<>>, FALSE)) ELSE chunks
Checkpointed == PrunedButNewest(Rotated)
Checkpoint ==
    /\ chunks' = Checkpointed
    /\ due' = (due /\ ~Rotates)
CheckpointFails ==
    \/ chunks' = Rotated /\ due' = (due /\ ~Rotates)
    \/ Rotates /\ chunks' \in Unfinished(chunks, Active.of) /\ UNCHANGED due

Takes(k) == queue # <<>> /\ Head(queue).kind = k /\ queue' = Tail(queue)

\* The answer, unless whoever asked has given up waiting.
Answers(r) == reply' = IF Head(queue).heard THEN r ELSE reply

Terminal == writer' = "failed"

WriteEvent ==
    /\ writer = "running" /\ Takes("event")
    /\ \/ \E cs \in IF due THEN {Checkpointed} ELSE {chunks, PrunedButNewest(chunks)} :
            /\ due' = (due /\ ~Rotates)
            /\ \/ chunks' = Appended(cs, Head(queue).sequence) /\ UNCHANGED <<writer, owed>>
               \/ chunks' \in {cs, Torn(cs)} /\ Terminal /\ owed' = TRUE
       \/ CheckpointFails /\ Terminal /\ owed' = TRUE
    /\ UNCHANGED <<persisted, key, reachable, up, enabled, paused, named, next, control,
                   at, bounds, told, seen>>

\* After a terminal error the queue is drained all the same.
Drains_Not == FALSE
Drains == writer = "failed"

DropEvent ==
    /\ Drains /\ Takes("event")
    /\ owed' = TRUE
    /\ UNCHANGED <<disk, up, enabled, paused, named, next, writer, due, control,
                   at, bounds, told, seen>>

AnswerFlush ==
    /\ writer # "none" /\ Takes("flush")
    /\ \/ writer = "running" /\ Answers("ok")
       \/ Answers("error")
    /\ UNCHANGED <<disk, up, manager, writer, due, op, step, found,
                   at, bounds, told, seen>>

\* An error of a snapshot is not terminal.
AnswerSnapshot ==
    /\ writer # "none" /\ Takes("read")
    /\ \/ /\ writer = "running" /\ Checkpoint
          /\ Answers(IF Readable(chunks') THEN "ok" ELSE "error")
          /\ found' = Highest(Numbers(Pruned(chunks')))
       \/ writer = "running" /\ CheckpointFails /\ Answers("error") /\ UNCHANGED found
       \/ writer = "failed" /\ Answers("error") /\ UNCHANGED <<chunks, due, found>>
    /\ UNCHANGED <<persisted, key, reachable, up, manager, writer, op, step,
                   at, bounds, told, seen>>

Shutdown ==
    /\ writer # "none" /\ Takes("shutdown")
    /\ writer' = "none" /\ due' = FALSE
    /\ UNCHANGED <<disk, up, manager, control, at, bounds, told, seen>>

\* WRITER_MAINTENANCE_INTERVAL without a message
Maintain ==
    /\ writer = "running" /\ queue = <<>>
    /\ Checkpointed # chunks \/ due
    /\ \/ Checkpoint /\ UNCHANGED writer
       \/ CheckpointFails /\ Terminal
    /\ UNCHANGED <<persisted, key, reachable, up, manager, queue, control, at, bounds, told, seen>>

-----------------------------------------------------------------------------
(* The control operations: one at a time, each with its steps in order.    *)
(* Where only the end of the process can tell the writes of a step apart,  *)
(* they are one action, which may also fail half-way.                      *)

Asks(o, s) ==
    /\ up /\ op = "none" /\ asked < MaxAsked
    /\ op' = o /\ step' = s /\ asked' = asked + 1
    /\ UNCHANGED <<reply, found, up, at, begun, ends, ticks>>
Goto(s) ==
    /\ step' = s /\ reply' = "none"
    /\ UNCHANGED <<op, found, up, at, bounds, seen>>
Returns ==
    /\ op' = "none" /\ step' = "idle" /\ reply' = "none" /\ found' = 0
    /\ UNCHANGED <<up, at, bounds>>
Confirms(state) == Returns /\ told' = state /\ UNCHANGED seen
Fails == Returns /\ UNCHANGED <<told, seen>>

\* No answer within five seconds.
GiveUp ==
    /\ step \in {"wait", "reading"} /\ reply = "none"
    /\ reply' = "error"
    /\ queue' = [i \in DOMAIN queue |-> [queue[i] EXCEPT !.heard = FALSE]]
    /\ UNCHANGED <<disk, up, manager, writer, due, op, step, found, at, bounds, told, seen>>

\* start_writer: every chunk is read before a key is created or a chunk pruned.
\* The first event, if there is one, is in the chunk before the writer runs.
Authenticated_Later == TRUE
Authenticated == Readable(chunks)

FirstSequence_Kept == next
FirstSequence == Highest(Numbers(chunks)) + 1

Opens(first) ==
    LET n == FirstSequence IN
    /\ Readable(chunks)
    /\ key' = LoadedKey /\ reachable' = TRUE /\ named' = TRUE
    /\ chunks' = Created(Pruned(chunks), Chunk(LoadedKey, IF first THEN <<n>> ELSE <<>>, FALSE))
    /\ next' = IF first THEN n + 1 ELSE n
    /\ writer' = "running"
    /\ UNCHANGED <<queue, due>>

OpeningFails ==
    /\ \/ UNCHANGED <<key, reachable, named, chunks>>
       \/ /\ Authenticated
          /\ key' = LoadedKey /\ reachable' = TRUE /\ named' = TRUE
          /\ chunks' \in (UNION {Unfinished(cs, LoadedKey) : cs \in {chunks, Pruned(chunks)}})
                           \cup {Created(Pruned(chunks), Chunk(LoadedKey, <<>>, FALSE))}
    /\ UNCHANGED <<next, thread>>

Enable ==
    /\ ~enabled
    /\ paused' = FALSE /\ told' = "unknown"
    /\ \/ Asks("enable", "persist") /\ Opens(TRUE)
       \/ Asks("none", "idle") /\ OpeningFails
    /\ UNCHANGED <<persisted, enabled, owed, seen>>

EnablePersist ==
    /\ op = "enable" /\ step = "persist"
    /\ \/ persisted' = "on" /\ enabled' = TRUE /\ Confirms("on")
       \/ Goto("stop") /\ UNCHANGED <<persisted, enabled, told>>
    /\ UNCHANGED <<chunks, key, reachable, paused, named, next, owed, thread>>

\* The gate of the producers is closed first.
Disable ==
    /\ Asks("disable", "persist")
    /\ enabled' = FALSE /\ told' = "unknown"
    /\ UNCHANGED <<disk, paused, named, next, owed, thread, seen>>

DisablePersist ==
    /\ op = "disable" /\ step = "persist"
    /\ \/ /\ persisted' = "off"
          /\ \/ writer # "none" /\ Goto("send") /\ UNCHANGED <<paused, told>>
             \/ writer = "none" /\ paused' = FALSE /\ Confirms("off")
          /\ UNCHANGED enabled
       \/ enabled' = (writer # "none") /\ Fails /\ UNCHANGED <<persisted, paused>>
    /\ UNCHANGED <<chunks, key, reachable, named, next, owed, thread>>

\* The pause is persisted before it is marked, and undone when it is not.
PauseState_Unpersisted == "on"
PauseState == "paused"

Pause ==
    /\ enabled
    /\ \/ /\ Asks("pause", "send")
          /\ persisted' = PauseState /\ paused' = TRUE /\ told' = "unknown"
       \/ Asks("none", "idle") /\ UNCHANGED <<persisted, paused, told>>
    /\ UNCHANGED <<chunks, key, reachable, enabled, named, next, owed, thread, seen>>

\* The producers stay gated until the resumption is marked.
Resume ==
    /\ enabled
    /\ \/ Asks("resume", "send") /\ persisted' = "on" /\ told' = "unknown"
       \/ Asks("none", "idle") /\ UNCHANGED <<persisted, told>>
    /\ UNCHANGED <<chunks, key, reachable, manager, thread, seen>>

Mark ==
    /\ enabled
    /\ Asks("flush", "send")
    /\ UNCHANGED <<disk, manager, thread, told, seen>>

Delete ==
    /\ Asks("delete", IF enabled THEN "send" ELSE "persist")
    /\ enabled' = FALSE /\ paused' = FALSE /\ told' = "unknown"
    /\ UNCHANGED <<disk, named, next, owed, thread, seen>>

\* An operation has its event flushed, or not.
Flushed ==
    /\ step = "wait" /\ reply # "none"
    /\ \/ /\ op \in {"disable", "delete"} /\ Goto("stop")
          /\ UNCHANGED <<persisted, paused, told>>
       \/ /\ op = "pause" /\ reply = "ok" /\ Confirms("paused")
          /\ UNCHANGED <<persisted, paused>>
       \/ /\ op = "pause" /\ reply = "error" /\ Fails
          /\ paused' = FALSE /\ persisted' \in {"on", persisted}
       \/ /\ op = "resume" /\ reply = "ok" /\ Confirms("on")
          /\ paused' = FALSE /\ UNCHANGED persisted
       \/ /\ op = "resume" /\ reply = "error" /\ Fails
          /\ persisted' \in {"paused", persisted} /\ UNCHANGED paused
       \/ /\ op \in {"flush", "query"} /\ Fails
          /\ UNCHANGED <<persisted, paused>>
    /\ UNCHANGED <<chunks, key, reachable, enabled, named, next, owed, thread>>

\* The writer's thread is gone.
Joined ==
    /\ step = "join" /\ writer = "none"
    /\ \/ op = "enable" /\ Fails /\ UNCHANGED <<enabled, paused>>
       \/ op = "disable" /\ enabled' = FALSE /\ paused' = FALSE /\ Confirms("off")
       \/ op = "delete" /\ Goto("persist") /\ UNCHANGED <<enabled, paused, told>>
    /\ UNCHANGED <<disk, named, next, owed, thread>>

DeletePersist ==
    /\ op = "delete" /\ step = "persist"
    /\ \/ persisted' = "off" /\ Goto("destroy") /\ UNCHANGED told
       \/ Fails /\ UNCHANGED persisted
    /\ UNCHANGED <<chunks, key, reachable, manager, thread>>

\* The key is destroyed first, and has to be gone, before a file is.
DestroyKey ==
    /\ step = "destroy"
    /\ \/ key' = 0 /\ reachable' = TRUE /\ Goto("forget") /\ UNCHANGED told
       \/ Fails /\ UNCHANGED <<key, reachable>>
    /\ UNCHANGED <<persisted, chunks, manager, thread>>

ForgetKey ==
    /\ step = "forget"
    /\ \/ key = 0 /\ named' = FALSE /\ Goto("remove") /\ UNCHANGED told
       \/ key # 0 /\ Fails /\ UNCHANGED named
    /\ UNCHANGED <<disk, enabled, paused, next, owed, thread>>

RemoveChunk ==
    /\ step = "remove" /\ DOMAIN chunks # {}
    /\ \/ \E i \in DOMAIN chunks : chunks' = Restrict(chunks, DOMAIN chunks \ {i}) /\ Goto("remove") /\ UNCHANGED told
       \/ Fails /\ UNCHANGED chunks
    /\ UNCHANGED <<persisted, key, reachable, manager, thread>>

Removed ==
    /\ step = "remove" /\ DOMAIN chunks = {}
    /\ next' = 1 /\ seen' = 0
    /\ Returns /\ told' = "off"
    /\ UNCHANGED <<disk, enabled, paused, named, owed, thread>>

\* query, of the events that a filter leaves and no retention has passed. What is
\* returned is audited, by the writer or in a chunk of its own.
Query ==
    /\ writer # "none"
    /\ Asks("query", "read")
    /\ UNCHANGED <<disk, manager, thread, told, seen>>

Newer(n, m) == IF n > m THEN n ELSE m

Snapshot ==
    /\ step = "reading" /\ reply # "none"
    /\ \/ /\ reply = "ok" /\ found # 0
          /\ step' = "send" /\ reply' = "none" /\ found' = 0
          /\ seen' = Newer(seen, found)
          /\ UNCHANGED <<op, up, at, bounds, told>>
       \/ Fails
    /\ UNCHANGED <<disk, manager, thread>>

\* Without a writer, the chunks are read before any is pruned.
QueryStopped ==
    LET kept == Pruned(chunks)
        n == Newer(next, Highest(Numbers(chunks)) + 1)
    IN
    /\ writer = "none" /\ Asks("none", "idle")
    /\ \/ UNCHANGED <<disk, named, next, seen>>
       \/ /\ Readable(chunks)
          /\ \/ UNCHANGED <<key, named, reachable>>
             \/ ~named /\ named' = TRUE /\ key' = LoadedKey /\ reachable' = TRUE
          /\ \/ /\ chunks' = kept /\ next' = n
                /\ UNCHANGED seen
             \/ /\ Numbers(kept) # {}
                /\ \/ /\ chunks' = Created(kept, Chunk(key, <<n>>, FALSE))
                      /\ next' = n + 1
                      /\ seen' = Newer(seen, Highest(Numbers(kept)))
                   \/ /\ chunks' \in Unfinished(kept, key) \cup {Created(kept, Chunk(key, <<>>, FALSE))}
                      /\ next' \in {n, n + 1}
                      /\ UNCHANGED seen
          /\ UNCHANGED persisted
    /\ UNCHANGED <<enabled, paused, owed, thread, told>>

-----------------------------------------------------------------------------
(* The end of the process, in good order or not, and its start.            *)

Gone ==
    /\ up' = FALSE /\ ends' = ends + 1
    /\ enabled' = FALSE /\ paused' = FALSE /\ named' = FALSE /\ next' = 1 /\ owed' = FALSE
    /\ writer' = "none" /\ queue' = <<>> /\ due' = FALSE
    /\ op' = "none" /\ step' = "idle" /\ reply' = "none" /\ found' = 0
    /\ at' = [d \in Dispatches |-> "idle"]
    /\ UNCHANGED <<persisted, key, reachable, begun, asked, ticks, told, seen>>

\* The manager is dropped when nothing refers to it any more.
Drop ==
    /\ up /\ op = "none" /\ ends < MaxEnds
    /\ \A d \in Dispatches : at[d] = "idle"
    /\ op' = "quit" /\ step' = IF writer = "none" THEN "join" ELSE "stop"
    /\ UNCHANGED <<disk, up, manager, thread, reply, found, at, bounds, told, seen>>

Dropped ==
    /\ op = "quit" /\ step = "join" /\ writer = "none"
    /\ Gone /\ UNCHANGED chunks

\* A crash may cut a write of the writer short.
Crash ==
    /\ up /\ ends < MaxEnds
    /\ Gone
    /\ chunks' \in {chunks} \cup
         (IF writer = "running" /\ \E i \in DOMAIN queue : queue[i].kind = "event"
          THEN {Torn(chunks)} ELSE {}) \cup
         (IF writer = "running" /\ Rotates THEN Unfinished(chunks, Active.of) ELSE {})

\* HistoryManager::new: what was enabled is started again, or fails and stays off.
Restart ==
    /\ ~up /\ up' = TRUE
    /\ paused' = (persisted = "paused")
    /\ \/ persisted = "off" /\ UNCHANGED <<enabled, chunks, key, reachable, named, next, thread>>
       \/ persisted # "off" /\ Opens(FALSE) /\ enabled' = TRUE
       \/ persisted # "off" /\ OpeningFails /\ UNCHANGED enabled
    /\ UNCHANGED <<persisted, owed, control, at, bounds, told, seen>>

\* The next process may be of a build that may not read the key, or may again.
Reinstall ==
    /\ ~up /\ key # 0
    /\ reachable' = ~reachable
    /\ UNCHANGED <<persisted, chunks, key, up, manager, thread, control, at, bounds, told, seen>>

-----------------------------------------------------------------------------
(* Time.                                                                   *)

\* The retention passes for the oldest chunk: files age in the order they were
\* last written in.
Age ==
    /\ ticks < MaxTicks /\ ticks' = ticks + 1
    /\ \E i \in DOMAIN chunks :
        /\ ~chunks[i].aged /\ \A j \in DOMAIN chunks : j < i => chunks[j].aged
        /\ chunks' = [chunks EXCEPT ![i].aged = TRUE]
    /\ UNCHANGED <<persisted, key, reachable, up, manager, thread, control, at,
                   begun, asked, ends, told, seen>>

RotationDue ==
    /\ ticks < MaxTicks /\ ticks' = ticks + 1
    /\ writer = "running" /\ ~due /\ due' = TRUE
    /\ UNCHANGED <<disk, up, manager, writer, queue, control, at, begun, asked, ends, told, seen>>

-----------------------------------------------------------------------------

Call == Enable \/ Disable \/ Pause \/ Resume \/ Mark \/ Delete \/ Query \/ QueryStopped \/ Drop
ControlStep ==
    \/ Send \/ Flush \/ AskSnapshot \/ Stop \/ Flushed \/ Snapshot \/ Joined \/ Dropped
    \/ EnablePersist \/ DisablePersist
    \/ DeletePersist \/ DestroyKey \/ ForgetKey \/ RemoveChunk \/ Removed
WriterStep == WriteEvent \/ DropEvent \/ AnswerFlush \/ AnswerSnapshot \/ Shutdown
DispatchStep(d) == Begin(d) \/ Name(d) \/ SendStarted(d) \/ Finish(d) \/ SendCompleted(d)

Next ==
    \/ Call \/ ControlStep \/ GiveUp
    \/ WriterStep \/ Maintain
    \/ \E d \in Dispatches : DispatchStep(d)
    \/ Crash \/ Restart \/ Reinstall
    \/ Age \/ RotationDue

Spec == Init /\ [][Next]_vars

\* The thread of the control operation and the writer's run. A disk that never
\* answers is not excluded by the deadlines.
Fairness == WF_vars(ControlStep) /\ WF_vars(WriterStep)

FairSpec == Spec /\ Fairness

-----------------------------------------------------------------------------
(* What holds.                                                             *)

\* Over ends, restarts, rotations, audits without a writer and pruning, the
\* numbers on disk increase in the order of writing, so that no start is refused
\* for "distinct duplicate sequence numbers".
InOrder(cs) ==
    \A i, j \in DOMAIN cs : \A a \in DOMAIN cs[i].items, b \in DOMAIN cs[j].items :
        i < j \/ (i = j /\ a < b) => cs[i].items[a] < cs[j].items[b]
StoredInOrder == InOrder(chunks)

\* What a control operation has confirmed holds until the next one that could
\* change it: in memory, on disk, and after any end of the process.
ConfirmedHolds ==
    /\ told = "off" => persisted = "off" /\ ~enabled /\ writer = "none"
    /\ told = "on" => persisted = "on"
    /\ told = "paused" => persisted = "paused" /\ ~IsCapturing

\* No key takes the place of one that chunks are encrypted with, only because this
\* build may not read it.
KeyNotReplaced ==
    [][key' \notin {0, key} => \A i \in DOMAIN chunks : chunks[i].of # key]_vars

\* Every control operation returns.
ControlReturns == op # "none" ~> op = "none"

\* Claimed: a client gets newer events with the number above the last it has seen
\* as its lower bound.
NewerIsHigher == writer # "none" => next > seen
=============================================================================
