---------------------------- MODULE DriverRuntime ----------------------------
(***************************************************************************)
(* One runtime of the SDK behind its C ABI (cua-driver-sdk/src/abi.rs and  *)
(* runtime.rs) with the registry of delegated authority                    *)
(* (cua-driver-core/src/session_authorization.rs): operations that run on  *)
(* an executor and may be cancelled, trusted session handles that are      *)
(* created, used from several operations at a time and closed, and         *)
(* shutdown, which stops admission, drains and takes all authority away.   *)
(*                                                                         *)
(* An operation is a task that can be dropped wherever it awaits; the      *)
(* blocking work it has started cannot. An operation keeps a reference to  *)
(* the handle's session, and authority is revoked when the last one goes.  *)
(* What a call does, its approvals and the permission modes are left out.  *)
(***************************************************************************)
EXTENDS Naturals, FiniteSets

CONSTANTS
    Ops,      \* asynchronous operations, each of which is invoked once
    Handles,  \* trusted session handles
    Stops,    \* shutdown operations
    Labels,   \* public session labels
    Nil       \* no handle: an operation of the driver itself; no label

ASSUME RuntimeAssumption ==
    /\ Nil \notin Ops \cup Handles \cup Stops \cup Labels
    /\ Ops \cap Stops = {}

VARIABLES
    halted,              \* DriverRuntime.shutdown
    readers, writer,     \* DriverRuntime.lifecycle, a fair lock
    op, on, cancelled,   \* the task of an operation, its handle, its token
    told,                \* how often the completion callback was called
    worker,              \* blocking work of an operation
    stop,                \* where a shutdown is
    handle, label,       \* a handle as its owner sees it, and its public session
    context,             \* its authorization context
    registered,          \* RegistryState.by_connection
    live,                \* sessions of this runtime in the lifecycle
    recording            \* is the recorder of this runtime on?

gate == <<halted, readers, writer, stop>>
task == <<op, on, cancelled, told, worker>>
authority == <<handle, label, context, registered>>
vars == <<gate, task, authority, live, recording>>

TypeOK ==
    /\ halted \in BOOLEAN
    /\ readers \subseteq Ops
    /\ writer \in Stops \cup {Nil}
    /\ op \in [Ops -> {"new", "spawned", "waiting", "inside", "running", "leaving", "gone"}]
    /\ on \in [Ops -> Handles \cup {Nil}]
    /\ cancelled \subseteq Ops
    /\ told \in [Ops -> 0..1]
    /\ worker \subseteq Ops
    /\ stop \in [Stops -> {"new", "called", "queued", "locked", "revoked", "ended", "done", "gone"}]
    /\ handle \in [Handles -> {"none", "checked", "bound", "open", "closed"}]
    /\ label \in [Handles -> Labels \cup {Nil}]
    /\ context \in [Handles -> {"none", "live", "expired", "revoked"}]
    /\ registered \subseteq Handles
    /\ live \subseteq Labels /\ recording \in BOOLEAN
    /\ readers = {o \in Ops : op[o] \in {"inside", "running"}}
    /\ \A x \in Stops : stop[x] \in {"locked", "revoked", "ended"} <=> writer = x

Init ==
    /\ halted = FALSE /\ readers = {} /\ writer = Nil
    /\ op = [o \in Ops |-> "new"] /\ on = [o \in Ops |-> Nil]
    /\ cancelled = {} /\ told = [o \in Ops |-> 0] /\ worker = {}
    /\ stop = [x \in Stops |-> "new"]
    /\ handle = [h \in Handles |-> "none"] /\ label = [h \in Handles |-> Nil]
    /\ context = [h \in Handles |-> "none"] /\ registered = {}
    /\ live = {} /\ recording = FALSE

-----------------------------------------------------------------------------
(* References: Arc<RuntimeSession>.                                        *)

Task(o) == op[o] \notin {"new", "gone"}

\* Does anything still hold the session of h once o's task no longer does?
KeptWithout_Itself(o, h) ==
    handle[h] = "open" \/ \E i \in Ops : Task(i) /\ on[i] = h
KeptWithout(o, h) ==
    handle[h] = "open" \/ \E i \in Ops \ {o} : Task(i) /\ on[i] = h

\* Drop of RuntimeSession: revoke_connection and revoke_host.
Revoked(hs) == [h \in Handles |->
                   IF h \in hs /\ context[h] # "none" THEN "revoked" ELSE context[h]]

Revoke(hs) ==
    /\ context' = Revoked(hs \cap registered)
    /\ registered' = registered \ hs

\* The read guard goes, if o has one.
Freed_Leaked(o) == IF o \in cancelled THEN readers ELSE readers \ {o}
Freed(o) == readers \ {o}

\* The task of o is over, by returning or by being dropped.
Release(o) ==
    LET h == on[o] IN
    /\ op' = [op EXCEPT ![o] = "gone"]
    /\ readers' = Freed(o)
    /\ IF h # Nil /\ ~KeptWithout(o, h) THEN Revoke({h})
       ELSE UNCHANGED <<context, registered>>
    /\ UNCHANGED <<halted, writer, stop, on, worker, handle, label, live, recording>>

-----------------------------------------------------------------------------
(* Operations.                                                             *)

\* cua_driver_invoke_v1, or cua_driver_session_invoke_v1 through an open handle.
Invoke(o, h) ==
    /\ op[o] = "new" /\ (h # Nil => handle[h] = "open")
    /\ op' = [op EXCEPT ![o] = "spawned"]
    /\ on' = [on EXCEPT ![o] = h]
    /\ UNCHANGED <<gate, cancelled, told, worker, authority, live, recording>>

Goto(o, at) == op' = [op EXCEPT ![o] = at]

\* The first look at the shutdown flag.
Enter(o) ==
    /\ op[o] = "spawned"
    /\ Goto(o, IF halted THEN "leaving" ELSE "waiting")
    /\ UNCHANGED <<gate, on, cancelled, told, worker, authority, live, recording>>

\* The lock is fair: a reader does not pass a shutdown that waits.
MayRead == writer = Nil /\ \A x \in Stops : stop[x] # "queued"

\* A read guard, and the second look.
Admitted_Once(o) == TRUE
Admitted(o) == ~halted

Admit(o) ==
    /\ op[o] = "waiting" /\ MayRead
    /\ IF Admitted(o)
       THEN Goto(o, "inside") /\ readers' = readers \cup {o}
       ELSE Goto(o, "leaving") /\ UNCHANGED readers
    /\ UNCHANGED <<halted, writer, stop, on, cancelled, told, worker, authority, live, recording>>

\* commit_authorized_dispatch, the last check of the authority, after which the
\* session of the call is opened and the tool starts.
Permitted(o) == on[o] # Nil => context[on[o]] = "live"

Commit(o) ==
    /\ op[o] = "inside" /\ Permitted(o)
    /\ Goto(o, "running")
    /\ worker' = worker \cup {o}
    /\ \E l \in Labels : (on[o] # Nil => l = label[on[o]]) /\ live' \in {live, live \cup {l}}
    /\ recording' \in {recording, TRUE}
    /\ UNCHANGED <<gate, on, cancelled, told, authority>>

\* The context was revoked or has expired, or the call is refused for a reason
\* of its own.
Refuse(o) ==
    /\ op[o] = "inside"
    /\ Goto(o, "leaving")
    /\ readers' = Freed(o)
    /\ UNCHANGED <<halted, writer, stop, on, cancelled, told, worker, authority, live, recording>>

\* The blocking work of a tool comes to its end.
WorkEnds(o) ==
    /\ o \in worker
    /\ worker' = worker \ {o}
    /\ UNCHANGED <<gate, op, on, cancelled, told, authority, live, recording>>

\* The tool returns and the read guard goes. A successful end_session through a
\* handle revokes the handle's authority next.
Leave(o) ==
    /\ op[o] = "running" /\ o \notin worker
    /\ Goto(o, "leaving")
    /\ readers' = Freed(o)
    /\ \/ UNCHANGED <<context, registered, live>>
       \/ /\ on[o] # Nil
          /\ Revoke({on[o]})
          /\ live' = live \ {label[on[o]]}
    /\ UNCHANGED <<halted, writer, stop, on, cancelled, told, worker, handle, label, recording>>

\* The task returns and the callback is called, unless it was on cancellation.
Unheard_Always(o) == TRUE
Unheard_Running(o) == o \notin cancelled /\ ~halted
Unheard(o) == o \notin cancelled

Complete(o) ==
    /\ op[o] = "leaving"
    /\ told' = [told EXCEPT ![o] = IF Unheard(o) THEN @ + 1 ELSE @]
    /\ Release(o)
    /\ UNCHANGED cancelled

\* cua_driver_operation_cancel_v1, heard by the waiter: the task is aborted and
\* the callback called at once.
Cancel(o) ==
    /\ Task(o) /\ o \notin cancelled
    /\ cancelled' = cancelled \cup {o}
    /\ told' = [told EXCEPT ![o] = @ + 1]
    /\ UNCHANGED <<gate, op, on, worker, authority, live, recording>>

\* The aborted task is dropped where it awaits next, guards and all.
Dropped(o) ==
    /\ o \in cancelled /\ Task(o)
    /\ Release(o)
    /\ UNCHANGED <<cancelled, told>>

-----------------------------------------------------------------------------
(* Trusted session handles.                                                *)

\* create_trusted_session looks at the flag once, without the lock ...
CreateCheck(h, l) ==
    /\ handle[h] = "none" /\ ~halted
    /\ handle' = [handle EXCEPT ![h] = "checked"]
    /\ label' = [label EXCEPT ![h] = l]
    /\ UNCHANGED <<gate, task, context, registered, live, recording>>

\* ... binds, which drops what has expired and wants the label for itself ...
Expired == {h \in registered : context[h] # "live"}
LabelTaken(h) == \E g \in registered \ Expired : label[g] = label[h]

Bind(h) ==
    /\ handle[h] = "checked"
    /\ IF LabelTaken(h)
       THEN /\ handle' = [handle EXCEPT ![h] = "closed"]
            /\ context' = Revoked(Expired)
            /\ registered' = registered \ Expired
       ELSE /\ handle' = [handle EXCEPT ![h] = "bound"]
            /\ context' = [Revoked(Expired) EXCEPT ![h] = "live"]
            /\ registered' = (registered \ Expired) \cup {h}
    /\ UNCHANGED <<gate, task, label, live, recording>>

\* ... and resolves what it has bound, which may be gone or expired.
Resolve(h) ==
    /\ handle[h] = "bound"
    /\ IF h \in registered /\ context[h] = "live"
       THEN /\ handle' = [handle EXCEPT ![h] = "open"]
            /\ UNCHANGED registered
       ELSE /\ handle' = [handle EXCEPT ![h] = "closed"]
            /\ registered' = registered \ {h}
    /\ UNCHANGED <<gate, task, label, context, live, recording>>

\* Time passes: the ttl, or the idle ttl.
Expire(h) ==
    /\ context[h] = "live"
    /\ context' = [context EXCEPT ![h] = "expired"]
    /\ UNCHANGED <<gate, task, handle, label, registered, live, recording>>

\* NativeAbiSession::close drops the handle's reference.
LastReference(h) == ~ \E o \in Ops : Task(o) /\ on[o] = h

Close(h) ==
    /\ handle[h] = "open"
    /\ handle' = [handle EXCEPT ![h] = "closed"]
    /\ IF LastReference(h) THEN Revoke({h}) ELSE UNCHANGED <<context, registered>>
    /\ UNCHANGED <<gate, task, label, live, recording>>

-----------------------------------------------------------------------------
(* Shutdown.                                                               *)

StopAt(x, at) == stop' = [stop EXCEPT ![x] = at]

\* The flag is set before the lock is asked for.
StopCall(x) ==
    /\ stop[x] = "new"
    /\ halted' = TRUE
    /\ StopAt(x, "called")
    /\ UNCHANGED <<readers, writer, task, authority, live, recording>>

StopQueue(x) ==
    /\ stop[x] = "called"
    /\ StopAt(x, "queued")
    /\ UNCHANGED <<halted, readers, writer, task, authority, live, recording>>

Drained == writer = Nil /\ readers = {}

StopLock(x) ==
    /\ stop[x] = "queued" /\ Drained
    /\ writer' = x
    /\ StopAt(x, "locked")
    /\ UNCHANGED <<halted, readers, task, authority, live, recording>>

\* authorization_registry.revoke_all.
StopRevoke(x) ==
    /\ stop[x] = "locked"
    /\ Revoke(registered)
    /\ StopAt(x, "revoked")
    /\ UNCHANGED <<halted, readers, writer, task, handle, label, live, recording>>

\* The sessions of the runtime end and are forgotten.
StopEnd(x) ==
    /\ stop[x] = "revoked"
    /\ live' = {}
    /\ StopAt(x, "ended")
    /\ UNCHANGED <<halted, readers, writer, task, authority, recording>>

\* The recorder is stopped, and the lock is let go.
StopReturn(x) ==
    /\ stop[x] = "ended"
    /\ recording' = FALSE
    /\ writer' = Nil
    /\ StopAt(x, "done")
    /\ UNCHANGED <<halted, readers, task, authority, live>>

\* A shutdown may be cancelled like any operation, where it awaits the lock or
\* the recorder.
StopCancelled(x) ==
    /\ stop[x] \in {"queued", "ended"}
    /\ StopAt(x, "gone")
    /\ writer' = IF writer = x THEN Nil ELSE writer
    /\ UNCHANGED <<halted, readers, task, authority, live, recording>>

\* The idle sweep ends a session, whatever else goes on.
EvictIdle(l) ==
    /\ l \in live
    /\ live' = live \ {l}
    /\ UNCHANGED <<gate, task, authority, recording>>

OpStep(o) ==
    \/ Enter(o) \/ Admit(o) \/ Commit(o) \/ Refuse(o) \/ Leave(o)
    \/ Complete(o) \/ Dropped(o)
StopStep(x) == StopQueue(x) \/ StopLock(x) \/ StopRevoke(x) \/ StopEnd(x) \/ StopReturn(x)
CreateStep(h) == Bind(h) \/ Resolve(h)

Next ==
    \/ \E o \in Ops :
        \/ \E h \in Handles \cup {Nil} : Invoke(o, h)
        \/ OpStep(o) \/ WorkEnds(o) \/ Cancel(o)
    \/ \E h \in Handles :
        \/ \E l \in Labels : CreateCheck(h, l)
        \/ CreateStep(h) \/ Expire(h) \/ Close(h)
    \/ \E x \in Stops : StopCall(x) \/ StopStep(x) \/ StopCancelled(x)
    \/ \E l \in Labels : EvictIdle(l)

Spec == Init /\ [][Next]_vars

\* The executor polls every task, the lock is fair, and blocking work ends.
Fairness ==
    /\ \A o \in Ops : WF_vars(OpStep(o)) /\ WF_vars(WorkEnds(o))
    /\ \A x \in Stops : WF_vars(StopStep(x))

FairSpec == Spec /\ Fairness

-----------------------------------------------------------------------------
(* What holds.                                                             *)

Down == \E x \in Stops : stop[x] = "done"

\* Once a shutdown has returned no operation is inside the runtime, and nothing
\* the runtime had is left: no session and no recording, whatever was waiting for
\* the lock behind it and whoever else shuts down as well.
ShutdownLeavesNothing == Down => readers = {} /\ live = {} /\ ~recording

\* The authority of a closed handle ends, with the last of its operations at the
\* latest.
ClosedAuthorityEnds ==
    \A h \in Handles : handle[h] = "closed" ~> context[h] # "live"

\* Every shutdown returns, unless it is cancelled.
ShutdownReturns == \A x \in Stops : stop[x] = "called" ~> stop[x] \in {"done", "gone"}

\* "It is called exactly once": every operation calls back, and TypeOK has no room
\* for a second call.
CallsBack == \A o \in Ops : op[o] = "spawned" ~> told[o] = 1

-----------------------------------------------------------------------------
(* What the source says and the code does not do.                          *)

\* Shutdown "does not return while a previously admitted operation is still
\* executing"; the blocking work of a cancelled one does not hold the lock.
ShutdownWaitsForWork == Down => worker = {}
=============================================================================
