--------------------------- MODULE ProxyTransport ---------------------------
(***************************************************************************)
(* MCP proxies and the daemon they share (cua-driver/src/proxy.rs and      *)
(* serve.rs). A proxy reads calls from its client's pipe and forwards them *)
(* one at a time, each over a connection of its own; a control connection  *)
(* it holds for life is what tells the daemon that it is still there. The  *)
(* daemon registers a transport owner when the control connection begins   *)
(* and closes it when that connection ends, however the proxy went; the    *)
(* sessions of the owner, those of SessionContract, end with it.           *)
(*                                                                         *)
(* Processes may be killed at any time and the daemon may come back. Each  *)
(* timeout may fire whenever it is armed. Requests that a proxy answers by *)
(* itself, and the contents of messages, are left out; heartbeats only     *)
(* matter when they fail.                                                  *)
(***************************************************************************)
EXTENDS Naturals, Sequences

CONSTANTS
    Proxies,     \* proxy processes; each mints one id, mcp-<pid>-<nanos>
    CallIds,     \* the numbers of a client's calls, in the order it writes them
    Scripts,     \* what a client may have written to its proxy, line by line
    MaxQueue,    \* MAX_QUEUED_PROXY_REQUESTS, 8 in the code
    MaxCrashes,  \* bound: how often the daemon goes down
    Sessions, Nil

Lines == [op : {"call", "cancel"}, id : CallIds] \cup {[op |-> "eof"]}

\* How a proxy may end. After the last three a call may still be running.
Endings == {"refused", "eof", "settled", "lost", "killed", "unproven"}

ASSUME ProxyAssumption ==
    /\ CallIds \subseteq Nat /\ Scripts \subseteq Seq(Lines)
    /\ MaxQueue \in Nat \ {0} /\ MaxCrashes \in Nat
    /\ Nil \notin Proxies \cup Sessions \cup CallIds
    /\ Nil \notin Endings \cup {"result", "transport"}

\* The calls are numbered as they are written: a lower number stands earlier.
ASSUME NumberingAssumption ==
    \A s \in Scripts : \A i \in 1..Len(s) : \A m \in CallIds :
        s[i].op = "call" /\ m < s[i].id =>
            \E j \in 1..(i - 1) : s[j].op = "call" /\ s[j].id = m

VARIABLES
    status, holder, open,  \* the sessions and the owners, see SessionContract
    up, crashes,           \* is the daemon there; how often it went down
    registered,            \* ACTIVE_PROXY_SESSIONS
    reader,                \* the daemon's task for each control connection
    proxy, exit,           \* where a proxy is, and how it ended
    pipe, queue,           \* its unread input, and the calls it read ahead
    active,                \* the call it awaits, or Nil
    dispatch,              \* the daemon's task for each call
    answer                 \* what the client was told of each call

core == <<status, holder, open>>
daemon == <<up, crashes, registered, reader>>
process == <<proxy, exit, pipe, queue, active>>
calls == <<dispatch, answer>>
vars == <<core, daemon, process, calls>>

Core == INSTANCE SessionContract WITH Owners <- Proxies, Leased <- Proxies

Connected == {"begin", "serve", "wait"}   \* the control connection is open
Waiting == {"wait", "retire"}             \* a call is awaited
InDaemon == {"sent", "scoped", "running"}

TypeOK ==
    /\ status \in [Sessions -> {"unused", "live", "ended"}]
    /\ holder \in [Sessions -> Proxies \cup {Nil}]
    /\ open \in [Proxies -> BOOLEAN]
    /\ up \in BOOLEAN /\ crashes \in 0..MaxCrashes
    /\ registered \subseteq Proxies
    /\ reader \in [Proxies -> {"none", "accepted", "bound", "dropping"}]
    /\ proxy \in [Proxies -> {"new", "begin", "serve", "wait", "retire", "gone"}]
    /\ exit \in [Proxies -> Endings \cup {Nil}]
    /\ pipe \in [Proxies -> Seq(Lines)]
    /\ queue \in [Proxies -> Seq(CallIds)]
    /\ active \in [Proxies -> CallIds \cup {Nil}]
    /\ dispatch \in [Proxies -> [CallIds -> {"none", "done", "lost"} \cup InDaemon]]
    /\ answer \in [Proxies -> [CallIds -> {Nil, "result", "transport"}]]
    /\ \A p \in Proxies :
        /\ proxy[p] \in Waiting <=> active[p] # Nil
        /\ proxy[p] = "gone" <=> exit[p] # Nil
        /\ Len(queue[p]) <= MaxQueue
        /\ p \in registered <=> reader[p] = "bound"

Init ==
    /\ Core!Init
    /\ up = TRUE /\ crashes = 0 /\ registered = {}
    /\ reader = [p \in Proxies |-> "none"]
    /\ proxy = [p \in Proxies |-> "new"]
    /\ exit = [p \in Proxies |-> Nil]
    /\ pipe \in [Proxies -> Scripts]
    /\ queue = [p \in Proxies |-> <<>>]
    /\ active = [p \in Proxies |-> Nil]
    /\ dispatch = [p \in Proxies |-> [n \in CallIds |-> "none"]]
    /\ answer = [p \in Proxies |-> [n \in CallIds |-> Nil]]

-----------------------------------------------------------------------------
(* The control connection, and the end of a proxy.                         *)

\* The process exits, or is killed: its end of every connection is closed.
Exits(p, how) ==
    /\ proxy' = [proxy EXCEPT ![p] = "gone"]
    /\ exit' = [exit EXCEPT ![p] = how]
    /\ active' = [active EXCEPT ![p] = Nil]
    /\ queue' = [queue EXCEPT ![p] = <<>>]

\* The proxy connects and writes session_begin, or finds no daemon.
Connect(p) ==
    /\ proxy[p] = "new"
    /\ IF up
       THEN /\ proxy' = [proxy EXCEPT ![p] = "begin"]
            /\ reader' = [reader EXCEPT ![p] = "accepted"]
            /\ UNCHANGED <<exit, queue, active>>
       ELSE Exits(p, "refused") /\ UNCHANGED reader
    /\ UNCHANGED <<core, up, crashes, registered, pipe, calls>>

\* begin_proxy_control_session. The proxy may have given up meanwhile; its
\* request is in the socket all the same.
Register(p) ==
    /\ reader[p] = "accepted" /\ p \notin registered
    /\ registered' = registered \cup {p}
    /\ reader' = [reader EXCEPT ![p] = "bound"]
    /\ UNCHANGED <<core, up, crashes, process, calls>>

\* The acknowledgement arrives.
Begun(p) ==
    /\ proxy[p] = "begin" /\ reader[p] = "bound"
    /\ proxy' = [proxy EXCEPT ![p] = "serve"]
    /\ UNCHANGED <<core, daemon, exit, pipe, queue, active, calls>>

\* No acknowledgement within four seconds, or none of a heartbeat.
ControlTimeout(p) ==
    /\ proxy[p] \in Connected
    /\ Exits(p, IF proxy[p] = "begin" THEN "refused" ELSE "lost")
    /\ UNCHANGED <<core, daemon, pipe, calls>>

\* The daemon's end of the control connection is gone: terminal for the proxy.
ControlLost(p) ==
    /\ proxy[p] \in Connected /\ reader[p] = "none"
    /\ Exits(p, IF proxy[p] = "begin" THEN "refused" ELSE "lost")
    /\ UNCHANGED <<core, daemon, pipe, calls>>

Kill(p) ==
    /\ proxy[p] \notin {"new", "gone"}
    /\ Exits(p, "killed")
    /\ UNCHANGED <<core, daemon, pipe, calls>>

\* The reader of the control connection sees its end.
ControlEnded_Graceful(p) == proxy[p] = "retire" \/ exit[p] \in {"eof", "settled"}
ControlEnded(p) == proxy[p] \notin Connected

\* Drop of ProxyControlSession: first the registration goes ...
Unregister(p) ==
    /\ ControlEnded(p)
    /\ \/ /\ reader[p] = "bound"
          /\ reader' = [reader EXCEPT ![p] = "dropping"]
       \/ /\ reader[p] = "accepted"   \* the proxy went before it wrote a request
          /\ reader' = [reader EXCEPT ![p] = "none"]
    /\ registered' = registered \ {p}
    /\ UNCHANGED <<core, up, crashes, process, calls>>

\* ... then the owner is closed.
CloseOwner(p) ==
    /\ reader[p] = "dropping"
    /\ Core!Close(p)
    /\ reader' = [reader EXCEPT ![p] = "none"]
    /\ UNCHANGED <<up, crashes, registered, process, calls>>

-----------------------------------------------------------------------------
(* The proxy's loop.                                                       *)

Goto(p, at, n) ==
    /\ proxy' = [proxy EXCEPT ![p] = at]
    /\ active' = [active EXCEPT ![p] = n]

\* forward_tool_call: a connection for this call alone.
Forward(p, n) ==
    /\ Goto(p, "wait", n)
    /\ dispatch' = [dispatch EXCEPT ![p][n] = IF up THEN "sent" ELSE "lost"]
    /\ UNCHANGED <<exit, answer>>

\* The loop takes the oldest call it has read ahead, or else the next line.
\* Nothing is active, so that a cancellation comes too late.
TakeQueued(p) ==
    /\ proxy[p] = "serve" /\ queue[p] # <<>>
    /\ Forward(p, Head(queue[p]))
    /\ queue' = [queue EXCEPT ![p] = Tail(@)]
    /\ UNCHANGED <<core, daemon, pipe>>

MayTake_Unordered(p) == proxy[p] = "serve" /\ pipe[p] # <<>>
MayTake(p) == proxy[p] = "serve" /\ queue[p] = <<>> /\ pipe[p] # <<>>

TakeLine(p) ==
    /\ MayTake(p)
    /\ LET line == Head(pipe[p]) IN
       \/ /\ line.op = "call"
          /\ Forward(p, line.id)
          /\ UNCHANGED queue
       \/ /\ line.op = "cancel"
          /\ UNCHANGED <<proxy, exit, queue, active, calls>>
       \/ /\ line.op = "eof"
          /\ Exits(p, "eof")
          /\ UNCHANGED calls
    /\ pipe' = [pipe EXCEPT ![p] = Tail(@)]
    /\ UNCHANGED <<core, daemon>>

\* Does a line that is read while a call is active stop the control connection?
Stops_ButEof(p, line) == line.op = "cancel" /\ line.id = active[p]
Stops(p, line) == line.op = "eof" \/ (line.op = "cancel" /\ line.id = active[p])

\* A stop leaves the call's connection open; the call is still awaited.
AfterStop_Dropped(p) == Exits(p, "settled")
AfterStop(p) == proxy' = [proxy EXCEPT ![p] = "retire"] /\ UNCHANGED <<exit, queue, active>>

HasRoom_OffByOne(p) == Len(queue[p]) <= MaxQueue
HasRoom(p) == Len(queue[p]) < MaxQueue

\* await_proxy_response looks ahead while it has room.
ReadAhead(p) ==
    /\ proxy[p] = "wait" /\ HasRoom(p) /\ pipe[p] # <<>>
    /\ LET line == Head(pipe[p]) IN
       IF Stops(p, line) THEN AfterStop(p)
       ELSE /\ queue' = IF line.op = "call" THEN [queue EXCEPT ![p] = Append(@, line.id)]
                        ELSE queue
            /\ UNCHANGED <<proxy, exit, active>>
    /\ pipe' = [pipe EXCEPT ![p] = Tail(@)]
    /\ UNCHANGED <<core, daemon, calls>>

\* The client is told, and the loop goes on, or ends after a stop.
Tell(p, what) ==
    /\ answer' = [answer EXCEPT ![p][active[p]] = what]
    /\ IF proxy[p] = "retire" THEN Exits(p, "settled")
       ELSE Goto(p, "serve", Nil) /\ UNCHANGED <<exit, queue>>
    /\ UNCHANGED <<core, daemon, pipe, dispatch>>

Answered(p) ==
    /\ proxy[p] \in Waiting /\ dispatch[p][active[p]] = "done"
    /\ Tell(p, "result")

Broken(p) ==
    /\ proxy[p] \in Waiting /\ dispatch[p][active[p]] = "lost"
    /\ Tell(p, "transport")

\* The exchange takes more than 120 seconds.
ExchangeTimeout(p) ==
    /\ proxy[p] \in Waiting
    /\ Tell(p, "transport")

\* CANCELLATION_SETTLEMENT_TIMEOUT.
SettlementTimeout(p) ==
    /\ proxy[p] = "retire"
    /\ Exits(p, "unproven")
    /\ UNCHANGED <<core, daemon, pipe, calls>>

-----------------------------------------------------------------------------
(* The daemon's task for a call, and what it opens.                        *)

\* proxy_owner_for_request: an mcp- id that is not registered is refused.
Scoped_Unregistered(p) == open[p]
Scoped(p) == p \in registered /\ open[p]

Scope(p, n) ==
    /\ dispatch[p][n] = "sent"
    /\ dispatch' = [dispatch EXCEPT ![p][n] = IF Scoped(p) THEN "scoped" ELSE "done"]
    /\ UNCHANGED <<core, daemon, process, answer>>

\* Admission asks the owner again; the call opens a session, resumes one or
\* finds its own live, or is refused.
Run(p, n) ==
    /\ dispatch[p][n] = "scoped"
    /\ \/ /\ \E s \in Sessions :
             \/ Core!Open(s, p) \/ Core!Resume(s, p)
             \/ status[s] = "live" /\ holder[s] = p /\ open[p] /\ UNCHANGED core
          /\ dispatch' = [dispatch EXCEPT ![p][n] = "running"]
       \/ /\ dispatch' = [dispatch EXCEPT ![p][n] = "done"]
          /\ UNCHANGED core
    /\ UNCHANGED <<daemon, process, answer>>

\* The tool returns and the answer is written, whether or not anyone reads it.
Finish(p, n) ==
    /\ dispatch[p][n] = "running"
    /\ dispatch' = [dispatch EXCEPT ![p][n] = "done"]
    /\ UNCHANGED <<core, daemon, process, answer>>

\* A session of an owner that is closed ends; others may, swept or revoked.
EndOrphan(s) == Core!EndOrphan(s) /\ UNCHANGED <<daemon, process, calls>>
EndElsewhere(s) == Core!End(s) /\ UNCHANGED <<daemon, process, calls>>

\* The daemon crashes or shuts down, and all it knew is gone; calls it had are
\* not answered.
Crash ==
    /\ up /\ crashes < MaxCrashes
    /\ up' = FALSE /\ crashes' = crashes + 1
    /\ registered' = {}
    /\ reader' = [p \in Proxies |-> "none"]
    /\ status' = [s \in Sessions |-> "unused"]
    /\ holder' = [s \in Sessions |-> Nil]
    /\ open' = [p \in Proxies |-> TRUE]
    /\ dispatch' = [p \in Proxies |-> [n \in CallIds |->
                        IF dispatch[p][n] \in InDaemon THEN "lost" ELSE dispatch[p][n]]]
    /\ UNCHANGED <<process, answer>>

Restart ==
    /\ ~up
    /\ up' = TRUE
    /\ UNCHANGED <<core, crashes, registered, reader, process, calls>>

\* What a proxy does by itself.
ProxyStep(p) ==
    \/ Begun(p) \/ ControlLost(p)
    \/ TakeQueued(p) \/ TakeLine(p)
    \/ Answered(p) \/ Broken(p)

DaemonStep(p) ==
    \/ Register(p) \/ Unregister(p) \/ CloseOwner(p)
    \/ \E n \in CallIds : Scope(p, n) \/ Run(p, n)

Next ==
    \/ \E p \in Proxies :
        \/ Connect(p) \/ Kill(p) \/ ControlTimeout(p)
        \/ ProxyStep(p) \/ ReadAhead(p)
        \/ ExchangeTimeout(p) \/ SettlementTimeout(p)
        \/ DaemonStep(p)
        \/ \E n \in CallIds : Finish(p, n)
    \/ \E s \in Sessions : EndOrphan(s) \/ EndElsewhere(s)
    \/ Crash \/ Restart

Spec == Init /\ [][Next]_vars

\* A process that is not killed goes on; timers that are armed fire; a session
\* of a closed owner ends. Neither that a tool returns nor that a daemon comes
\* back is assumed.
Fairness ==
    /\ \A p \in Proxies :
        /\ WF_vars(ProxyStep(p)) /\ WF_vars(DaemonStep(p))
        /\ WF_vars(ExchangeTimeout(p)) /\ WF_vars(SettlementTimeout(p))
    /\ \A s \in Sessions : WF_vars(EndOrphan(s))

FairSpec == Spec /\ Fairness

-----------------------------------------------------------------------------
(* What holds.                                                             *)

\* A live session has a control connection behind it, or its owner is being
\* closed: no call makes one for a proxy that is gone, nor for one that has
\* outlived the daemon it was registered with (proxy_owner_for_request).
NoSessionWithoutConnection ==
    \A s \in Sessions : status[s] = "live" =>
        \/ reader[holder[s]] \in {"bound", "dropping"}
        \/ ~open[holder[s]]

\* Calls are forwarded in the order they were written, each after the client was
\* told of the ones before it, however far the proxy has read ahead.
ForwardedInOrder ==
    \A p \in Proxies, m, n \in CallIds :
        m < n /\ dispatch[p][n] # "none" => answer[p][m] # Nil

\* What a proxy leaves behind in the daemon it has not reported as settled: the
\* client got a transport error for it, or the proxy failed ("A failed or
\* timed-out exchange provides no such proof and must not be replayed").
SettlementIsProof ==
    \A p \in Proxies, n \in CallIds :
        dispatch[p][n] \in InDaemon /\ proxy[p] = "gone" =>
            answer[p][n] = "transport" \/ exit[p] \in {"unproven", "lost", "killed"}

\* The end of its input ends the proxy, whatever the daemon does: no call in
\* flight, full queue or dead daemon keeps it.
EofEndsProxy ==
    \A p \in Proxies :
        (\E i \in DOMAIN pipe[p] : pipe[p][i].op = "eof") /\ proxy[p] # "new"
            ~> proxy[p] = "gone"

\* The sessions of a proxy end after it, however it went.
SessionsEndWithProxy ==
    \A p \in Proxies, s \in Sessions :
        proxy[p] = "gone" ~> ~(status[s] = "live" /\ holder[s] = p)
=============================================================================
