------------------------ MODULE ProxyTransportProofs ------------------------
(***************************************************************************)
(* Proofs about ProxyTransport, for any number of proxies, calls, sessions *)
(* and crashes of the daemon and for any input.                            *)
(***************************************************************************)
EXTENDS ProxyTransport, SequenceTheorems, TLAPS

USE ProxyAssumption

-----------------------------------------------------------------------------
(* Types.                                                                  *)

\* The three parts of TypeOK: what the daemon knows, what a proxy knows, and
\* what the client wrote and was told.
DaemonOK ==
    /\ status \in [Sessions -> {"unused", "live", "ended"}]
    /\ holder \in [Sessions -> Proxies \cup {Nil}]
    /\ open \in [Proxies -> BOOLEAN]
    /\ up \in BOOLEAN /\ crashes \in 0..MaxCrashes
    /\ registered \subseteq Proxies
    /\ reader \in [Proxies -> {"none", "accepted", "bound", "dropping"}]
    /\ \A p \in Proxies : p \in registered <=> reader[p] = "bound"

ProcessOK ==
    /\ proxy \in [Proxies -> {"new", "begin", "serve", "wait", "retire", "gone"}]
    /\ exit \in [Proxies -> Endings \cup {Nil}]
    /\ queue \in [Proxies -> Seq(CallIds)]
    /\ active \in [Proxies -> CallIds \cup {Nil}]
    /\ \A p \in Proxies :
        /\ proxy[p] \in Waiting <=> active[p] # Nil
        /\ proxy[p] = "gone" <=> exit[p] # Nil
        /\ Len(queue[p]) <= MaxQueue

CallsOK ==
    /\ pipe \in [Proxies -> Seq(Lines)]
    /\ dispatch \in [Proxies -> [CallIds -> {"none", "done", "lost"} \cup InDaemon]]
    /\ answer \in [Proxies -> [CallIds -> {Nil, "result", "transport"}]]

\* TypeOK is these three.
LEMMA TypeParts == TypeOK <=> DaemonOK /\ ProcessOK /\ CallsOK
BY DEF TypeOK, DaemonOK, ProcessOK, CallsOK

-----------------------------------------------------------------------------
(* What processes and daemon do to the types.                               *)

\* An exiting process is left with nothing.
LEMMA ExitKeeps ==
    ASSUME ProcessOK, NEW p \in Proxies, NEW how \in Endings, Exits(p, how)
    PROVE  ProcessOK'
<1>1. /\ proxy' = [proxy EXCEPT ![p] = "gone"] /\ exit' = [exit EXCEPT ![p] = how]
      /\ active' = [active EXCEPT ![p] = Nil] /\ queue' = [queue EXCEPT ![p] = <<>>]
  BY DEF Exits
<1>2. /\ proxy' \in [Proxies -> {"new", "begin", "serve", "wait", "retire", "gone"}]
      /\ exit' \in [Proxies -> Endings \cup {Nil}]
      /\ queue' \in [Proxies -> Seq(CallIds)]
      /\ active' \in [Proxies -> CallIds \cup {Nil}]
  BY <1>1 DEF ProcessOK
<1>3. how # Nil
  OBVIOUS
<1>4. ASSUME NEW q \in Proxies
      PROVE  /\ proxy'[q] \in Waiting <=> active'[q] # Nil
             /\ proxy'[q] = "gone" <=> exit'[q] # Nil
             /\ Len(queue'[q]) <= MaxQueue
  <2>1. CASE q = p
    BY <1>1, <1>3, <2>1 DEF ProcessOK, Waiting
  <2>2. CASE q # p
    BY <1>1, <2>2 DEF ProcessOK
  <2> QED
    BY <2>1, <2>2
<1> QED
  BY <1>2, <1>4 DEF ProcessOK

\* A process that goes on goes on with a call exactly if it awaits one.
LEMMA GotoKeeps ==
    ASSUME ProcessOK, NEW p \in Proxies, proxy[p] # "gone",
           NEW at \in {"begin", "serve", "wait", "retire"}, NEW n \in CallIds \cup {Nil},
           at \in Waiting <=> n # Nil,
           proxy' = [proxy EXCEPT ![p] = at], active' = [active EXCEPT ![p] = n],
           UNCHANGED exit, queue' \in [Proxies -> Seq(CallIds)],
           \A q \in Proxies : Len(queue'[q]) <= MaxQueue
    PROVE  ProcessOK'
<1>1. /\ proxy' \in [Proxies -> {"new", "begin", "serve", "wait", "retire", "gone"}]
      /\ exit' \in [Proxies -> Endings \cup {Nil}]
      /\ active' \in [Proxies -> CallIds \cup {Nil}]
  BY DEF ProcessOK
<1>2. ASSUME NEW q \in Proxies
      PROVE  /\ proxy'[q] \in Waiting <=> active'[q] # Nil
             /\ proxy'[q] = "gone" <=> exit'[q] # Nil
  <2>1. CASE q = p
    BY <2>1 DEF ProcessOK, Waiting
  <2>2. CASE q # p
    BY <2>2 DEF ProcessOK
  <2> QED
    BY <2>1, <2>2
<1> QED
  BY <1>1, <1>2 DEF ProcessOK

\* A line that is a call names one.
LEMMA LineNamesCall ==
    ASSUME CallsOK, NEW p \in Proxies, pipe[p] # <<>>
    PROVE  /\ Head(pipe[p]) \in Lines /\ Tail(pipe[p]) \in Seq(Lines)
           /\ Head(pipe[p]).op # "eof" => Head(pipe[p]).id \in CallIds
<1>1. pipe[p] \in Seq(Lines)
  BY DEF CallsOK
<1>2. Head(pipe[p]) \in Lines /\ Tail(pipe[p]) \in Seq(Lines)
  BY <1>1, HeadTailProperties
<1>3. ASSUME NEW l \in Lines, l.op # "eof" PROVE l.id \in CallIds
  BY <1>3 DEF Lines
<1> QED
  BY <1>2, <1>3

\* The call's connection is made from the loop.
LEMMA ForwardKeeps ==
    ASSUME ProcessOK, CallsOK, NEW p \in Proxies, NEW n \in CallIds, proxy[p] = "serve",
           Forward(p, n), queue' \in [Proxies -> Seq(CallIds)],
           \A q \in Proxies : Len(queue'[q]) <= MaxQueue
    PROVE  /\ ProcessOK'
           /\ dispatch' \in [Proxies -> [CallIds -> {"none", "done", "lost"} \cup InDaemon]]
           /\ UNCHANGED answer
<1>1. /\ proxy' = [proxy EXCEPT ![p] = "wait"] /\ active' = [active EXCEPT ![p] = n]
      /\ UNCHANGED <<exit, answer>>
      /\ dispatch' = [dispatch EXCEPT ![p][n] = IF up THEN "sent" ELSE "lost"]
  BY DEF Forward, Goto
<1>2. n # Nil
  OBVIOUS
<1>3. ProcessOK'
  BY <1>1, <1>2, GotoKeeps DEF Waiting
<1>4. dispatch' \in [Proxies -> [CallIds -> {"none", "done", "lost"} \cup InDaemon]]
  BY <1>1 DEF CallsOK, InDaemon
<1> QED
  BY <1>1, <1>3, <1>4

\* The answer of the call that is awaited.
LEMMA TellKeeps ==
    ASSUME ProcessOK, CallsOK, NEW p \in Proxies, proxy[p] \in Waiting,
           NEW what \in {"result", "transport"}, Tell(p, what)
    PROVE  ProcessOK' /\ CallsOK'
<1>1. active[p] \in CallIds
  BY DEF ProcessOK
<1>2. answer' \in [Proxies -> [CallIds -> {Nil, "result", "transport"}]]
  BY <1>1 DEF Tell, CallsOK
<1>3. CallsOK'
  BY <1>2 DEF CallsOK, Tell
<1>4. CASE proxy[p] = "retire"
  BY <1>3, <1>4, ExitKeeps DEF Tell, Endings
<1>5. CASE proxy[p] # "retire"
  <2>1. /\ proxy' = [proxy EXCEPT ![p] = "serve"] /\ active' = [active EXCEPT ![p] = Nil]
        /\ UNCHANGED <<exit, queue>>
    BY <1>5 DEF Tell, Goto
  <2>2. proxy[p] # "gone"
    BY DEF Waiting
  <2>3. queue' \in [Proxies -> Seq(CallIds)] /\ \A q \in Proxies : Len(queue'[q]) <= MaxQueue
    BY <2>1 DEF ProcessOK
  <2> QED
    BY <1>3, <2>1, <2>2, <2>3, GotoKeeps DEF Waiting
<1> QED
  BY <1>4, <1>5

\* The loop reads a line or takes a queued call.
LEMMA LoopKeeps ==
    ASSUME ProcessOK, CallsOK, NEW p \in Proxies,
           TakeQueued(p) \/ TakeLine(p) \/ ReadAhead(p)
    PROVE  ProcessOK' /\ CallsOK'
<1>1. CASE TakeQueued(p)
  <2>1. queue[p] \in Seq(CallIds) /\ queue[p] # <<>> /\ Len(queue[p]) <= MaxQueue
    BY <1>1 DEF TakeQueued, ProcessOK
  <2>2. /\ Head(queue[p]) \in CallIds /\ Tail(queue[p]) \in Seq(CallIds)
        /\ Len(Tail(queue[p])) = Len(queue[p]) - 1 /\ Len(queue[p]) \in Nat
    BY <2>1, HeadTailProperties, LenProperties
  <2>3. Len(Tail(queue[p])) <= MaxQueue
    BY <2>1, <2>2
  <2>4. /\ queue' \in [Proxies -> Seq(CallIds)]
        /\ \A q \in Proxies : Len(queue'[q]) <= MaxQueue
    BY <1>1, <2>2, <2>3 DEF TakeQueued, ProcessOK
  <2> QED
    BY <1>1, <2>2, <2>4, ForwardKeeps DEF TakeQueued, CallsOK
<1>2. CASE TakeLine(p)
  <2> DEFINE line == Head(pipe[p])
  <2>1. /\ proxy[p] = "serve" /\ pipe[p] # <<>> /\ pipe' = [pipe EXCEPT ![p] = Tail(@)]
        /\ \/ line.op = "call" /\ Forward(p, line.id) /\ UNCHANGED queue
           \/ UNCHANGED <<proxy, exit, queue, active, calls>>
           \/ Exits(p, "eof") /\ UNCHANGED calls
    BY <1>2 DEF TakeLine, MayTake
  <2>2. line.op # "eof" => line.id \in CallIds
    BY <2>1, LineNamesCall
  <2>3. pipe' \in [Proxies -> Seq(Lines)]
    BY <2>1, LineNamesCall DEF CallsOK
  <2> HIDE DEF line
  <2>4. CASE line.op = "call" /\ Forward(p, line.id) /\ UNCHANGED queue
    <3>1. line.id \in CallIds
      BY <2>2, <2>4
    <3>2. queue' \in [Proxies -> Seq(CallIds)] /\ \A q \in Proxies : Len(queue'[q]) <= MaxQueue
      BY <2>4 DEF ProcessOK
    <3> QED
      BY <2>1, <2>3, <2>4, <3>1, <3>2, ForwardKeeps DEF CallsOK
  <2>5. CASE UNCHANGED <<proxy, exit, queue, active, calls>>
    BY <2>3, <2>5 DEF ProcessOK, CallsOK, calls
  <2>6. CASE Exits(p, "eof") /\ UNCHANGED calls
    BY <2>3, <2>6, ExitKeeps DEF CallsOK, calls, Endings
  <2> QED
    BY <2>1, <2>4, <2>5, <2>6
<1>3. CASE ReadAhead(p)
  <2> DEFINE line == Head(pipe[p])
  <2>1. /\ proxy[p] = "wait" /\ HasRoom(p) /\ pipe[p] # <<>> /\ UNCHANGED calls
        /\ pipe' = [pipe EXCEPT ![p] = Tail(@)]
        /\ \/ AfterStop(p)
           \/ /\ line.op = "call" /\ queue' = [queue EXCEPT ![p] = Append(@, line.id)]
              /\ UNCHANGED <<proxy, exit, active>>
           \/ UNCHANGED <<proxy, exit, active, queue>>
    BY <1>3 DEF ReadAhead
  <2>2. line.op # "eof" => line.id \in CallIds
    BY <2>1, LineNamesCall
  <2>3. CallsOK'
    BY <2>1, LineNamesCall DEF CallsOK, calls
  <2> HIDE DEF line
  <2>4. CASE AfterStop(p)
    <3>1. /\ proxy' = [proxy EXCEPT ![p] = "retire"] /\ UNCHANGED <<exit, queue, active>>
          /\ active' = [active EXCEPT ![p] = active[p]] /\ active[p] # Nil
          /\ active[p] \in CallIds \cup {Nil}
      BY <2>1, <2>4 DEF AfterStop, ProcessOK, Waiting
    <3>2. queue' \in [Proxies -> Seq(CallIds)] /\ \A q \in Proxies : Len(queue'[q]) <= MaxQueue
      BY <3>1 DEF ProcessOK
    <3> QED
      BY <2>1, <2>3, <3>1, <3>2, GotoKeeps DEF Waiting
  <2>5. CASE /\ line.op = "call" /\ queue' = [queue EXCEPT ![p] = Append(@, line.id)]
             /\ UNCHANGED <<proxy, exit, active>>
    <3>1. line.id \in CallIds /\ queue[p] \in Seq(CallIds)
      BY <2>2, <2>5 DEF ProcessOK
    <3>2. /\ Append(queue[p], line.id) \in Seq(CallIds)
          /\ Len(Append(queue[p], line.id)) = Len(queue[p]) + 1 /\ Len(queue[p]) \in Nat
      BY <3>1, AppendProperties, LenProperties
    <3>3. Len(Append(queue[p], line.id)) <= MaxQueue
      BY <2>1, <3>2 DEF HasRoom
    <3> QED
      BY <2>3, <2>5, <3>2, <3>3 DEF ProcessOK
  <2>6. CASE UNCHANGED <<proxy, exit, active, queue>>
    BY <2>3, <2>6 DEF ProcessOK
  <2> QED
    BY <2>1, <2>4, <2>5, <2>6
<1> QED
  BY <1>1, <1>2, <1>3

\* The daemon has nothing of a proxy that has not connected yet.
Unconnected == \A p \in Proxies : proxy[p] = "new" => reader[p] = "none"

Inv == TypeOK /\ Unconnected

\* No proxy becomes new, and the daemon accepts connections from no other.
LEMMA UnconnectedStays ==
    ASSUME DaemonOK, ProcessOK, Unconnected, [Next]_vars
    PROVE  Unconnected'
<1> DEFINE Same(p) == proxy'[p] = "new" => proxy[p] = "new" /\ reader'[p] \in {reader[p], "none"}
<1> SUFFICES ASSUME NEW q \in Proxies PROVE Same(q)
  BY DEF Unconnected
<1>0. reader[q] # "none" => proxy[q] # "new"
  BY DEF Unconnected
<1>1. ASSUME UNCHANGED <<proxy, reader>> PROVE Same(q)
  BY <1>1
<1>2. ASSUME NEW p \in Proxies, UNCHANGED reader,
             proxy' = proxy \/ \E at : at # "new" /\ proxy' = [proxy EXCEPT ![p] = at]
      PROVE  Same(q)
  BY <1>2 DEF ProcessOK
<1>3. ASSUME NEW p \in Proxies, Connect(p) PROVE Same(q)
  BY <1>3 DEF Connect, Exits, ProcessOK, DaemonOK
<1>4. ASSUME NEW p \in Proxies, Begun(p) PROVE Same(q)
  BY <1>4, <1>2 DEF Begun, daemon
<1>5. ASSUME NEW p \in Proxies,
             Kill(p) \/ ControlTimeout(p) \/ ControlLost(p) \/ SettlementTimeout(p)
      PROVE  Same(q)
  BY <1>5, <1>2 DEF Kill, ControlTimeout, ControlLost, SettlementTimeout, Exits, daemon
<1>6. ASSUME NEW p \in Proxies, TakeQueued(p) PROVE Same(q)
  BY <1>6, <1>2 DEF TakeQueued, Forward, Goto, daemon
<1>7. ASSUME NEW p \in Proxies, TakeLine(p) PROVE Same(q)
  BY <1>7, <1>2 DEF TakeLine, Forward, Goto, Exits, daemon
<1>8. ASSUME NEW p \in Proxies, ReadAhead(p) PROVE Same(q)
  BY <1>8, <1>2 DEF ReadAhead, AfterStop, daemon
<1>9. ASSUME NEW p \in Proxies, Answered(p) \/ Broken(p) \/ ExchangeTimeout(p)
      PROVE  Same(q)
  BY <1>9, <1>2 DEF Answered, Broken, ExchangeTimeout, Tell, Exits, Goto, daemon
<1>10. ASSUME NEW p \in Proxies, Register(p) \/ Unregister(p) \/ CloseOwner(p)
       PROVE  Same(q)
  BY <1>10, <1>0 DEF Register, Unregister, CloseOwner, DaemonOK, process
<1>11. ASSUME NEW p \in Proxies, NEW n \in CallIds, Scope(p, n) \/ Run(p, n) \/ Finish(p, n)
       PROVE  Same(q)
  BY <1>11, <1>1 DEF Scope, Run, Finish, daemon, process
<1>12. ASSUME NEW s \in Sessions, EndOrphan(s) \/ EndElsewhere(s)
       PROVE  Same(q)
  BY <1>12, <1>1 DEF EndOrphan, EndElsewhere, daemon, process
<1>13. ASSUME Crash \/ Restart PROVE Same(q)
  BY <1>13 DEF Crash, Restart, process
<1>14. ASSUME UNCHANGED vars PROVE Same(q)
  BY <1>14, <1>1 DEF vars, daemon, process
<1> HIDE DEF Same
<1> QED
  BY <1>3, <1>4, <1>5, <1>6, <1>7, <1>8, <1>9, <1>10, <1>11, <1>12, <1>13, <1>14
     DEF Next, ProxyStep, DaemonStep

\* Every action keeps the three parts.
LEMMA TypeStep == Inv /\ [Next]_vars => Inv'
<1> SUFFICES ASSUME DaemonOK, ProcessOK, CallsOK, Unconnected, [Next]_vars
             PROVE  DaemonOK' /\ ProcessOK' /\ CallsOK'
  <2>1. (DaemonOK /\ ProcessOK /\ CallsOK => TypeOK) /\ (TypeOK => DaemonOK /\ ProcessOK /\ CallsOK)
    BY TypeParts
  <2>2. (DaemonOK' /\ ProcessOK' /\ CallsOK') => TypeOK'
    BY DEF DaemonOK, ProcessOK, CallsOK, TypeOK
  <2> QED
    BY <2>1, <2>2, UnconnectedStays DEF Inv
<1>1. ASSUME UNCHANGED <<core, daemon>> PROVE DaemonOK'
  BY <1>1 DEF DaemonOK, core, daemon
<1>2. ASSUME UNCHANGED process PROVE ProcessOK'
  BY <1>2 DEF ProcessOK, process
<1>3. ASSUME UNCHANGED <<pipe, calls>> PROVE CallsOK'
  BY <1>3 DEF CallsOK, calls
<1>4. ASSUME NEW p \in Proxies, Connect(p) PROVE DaemonOK' /\ ProcessOK' /\ CallsOK'
  <2>1. CASE up
    <3>1. /\ proxy[p] = "new" /\ proxy' = [proxy EXCEPT ![p] = "begin"]
          /\ reader' = [reader EXCEPT ![p] = "accepted"]
          /\ UNCHANGED <<exit, queue, active, core, up, crashes, registered, pipe, calls>>
      BY <1>4, <2>1 DEF Connect
    <3>2. ProcessOK'
      BY <3>1 DEF ProcessOK, Waiting
    <3>3. DaemonOK'
      <4>1. reader[p] = "none"
        BY <3>1 DEF Unconnected
      <4>2. \A q \in Proxies : q \in registered' <=> reader'[q] = "bound"
        BY <3>1, <4>1 DEF DaemonOK
      <4> QED
        BY <3>1, <4>2 DEF DaemonOK, core
    <3> QED
      BY <1>3, <3>1, <3>2, <3>3
  <2>2. CASE ~up
    <3>1. /\ Exits(p, "refused") /\ UNCHANGED <<core, daemon, pipe, calls>>
      BY <1>4, <2>2 DEF Connect, daemon
    <3> QED
      BY <1>1, <1>3, <3>1, ExitKeeps DEF Endings
  <2> QED
    BY <2>1, <2>2 DEF DaemonOK
<1>5. ASSUME NEW p \in Proxies, Begun(p) PROVE DaemonOK' /\ ProcessOK' /\ CallsOK'
  BY <1>1, <1>3, <1>5 DEF Begun, ProcessOK, Waiting
<1>6. ASSUME NEW p \in Proxies,
             Kill(p) \/ ControlTimeout(p) \/ ControlLost(p) \/ SettlementTimeout(p)
      PROVE  DaemonOK' /\ ProcessOK' /\ CallsOK'
  <2>1. PICK how \in Endings : Exits(p, how)
    BY <1>6 DEF Kill, ControlTimeout, ControlLost, SettlementTimeout, Endings
  <2>2. UNCHANGED <<core, daemon, pipe, calls>>
    BY <1>6 DEF Kill, ControlTimeout, ControlLost, SettlementTimeout
  <2> QED
    BY <1>1, <1>3, <2>1, <2>2, ExitKeeps
<1>7. ASSUME NEW p \in Proxies, TakeQueued(p) \/ TakeLine(p) \/ ReadAhead(p)
      PROVE  DaemonOK' /\ ProcessOK' /\ CallsOK'
  BY <1>1, <1>7, LoopKeeps DEF TakeQueued, TakeLine, ReadAhead
<1>8. ASSUME NEW p \in Proxies, Answered(p) \/ Broken(p) \/ ExchangeTimeout(p)
      PROVE  DaemonOK' /\ ProcessOK' /\ CallsOK'
  <2>1. PICK what \in {"result", "transport"} : Tell(p, what)
    BY <1>8 DEF Answered, Broken, ExchangeTimeout
  <2>2. proxy[p] \in Waiting
    BY <1>8 DEF Answered, Broken, ExchangeTimeout
  <2> QED
    BY <1>1, <2>1, <2>2, TellKeeps DEF Tell
<1>9. ASSUME NEW p \in Proxies, Register(p) \/ Unregister(p) \/ CloseOwner(p)
      PROVE  DaemonOK' /\ ProcessOK' /\ CallsOK'
  <2>1. DaemonOK'
    <3>1. CASE Register(p)
      BY <3>1 DEF Register, DaemonOK, core
    <3>2. CASE Unregister(p)
      BY <3>2 DEF Unregister, DaemonOK, core
    <3>3. CASE CloseOwner(p)
      BY <3>3 DEF CloseOwner, DaemonOK, Core!Close
    <3> QED
      BY <1>9, <3>1, <3>2, <3>3
  <2> QED
    BY <1>2, <1>3, <1>9, <2>1 DEF Register, Unregister, CloseOwner, process
<1>10. ASSUME NEW p \in Proxies, NEW n \in CallIds, Scope(p, n) \/ Run(p, n) \/ Finish(p, n)
       PROVE  DaemonOK' /\ ProcessOK' /\ CallsOK'
  <2>1. PICK d \in {"scoped", "running", "done"} : dispatch' = [dispatch EXCEPT ![p][n] = d]
    BY <1>10 DEF Scope, Run, Finish
  <2>2. UNCHANGED <<daemon, process, answer>>
    BY <1>10 DEF Scope, Run, Finish
  <2>3. CallsOK'
    BY <2>1, <2>2 DEF CallsOK, InDaemon, process
  <2>4. \/ UNCHANGED core
        \/ \E s \in Sessions : Core!Open(s, p) \/ Core!Resume(s, p)
    BY <1>10 DEF Scope, Run, Finish
  <2>5. DaemonOK'
    <3>1. CASE UNCHANGED core
      BY <1>1, <2>2, <3>1
    <3>2. ASSUME NEW s \in Sessions, Core!Open(s, p) \/ Core!Resume(s, p) PROVE DaemonOK'
      <4>1. /\ status' = [status EXCEPT ![s] = "live"] /\ open' = open
            /\ holder' \in [Sessions -> Proxies \cup {Nil}]
        BY <3>2 DEF DaemonOK, Core!Open, Core!Resume
      <4> QED
        BY <2>2, <4>1 DEF DaemonOK, daemon
    <3> QED
      BY <2>4, <3>1, <3>2
  <2> QED
    BY <1>2, <2>2, <2>3, <2>5
<1>11. ASSUME NEW s \in Sessions, EndOrphan(s) \/ EndElsewhere(s)
       PROVE  DaemonOK' /\ ProcessOK' /\ CallsOK'
  <2>1. Core!End(s) /\ UNCHANGED <<daemon, process, calls>>
    BY <1>11 DEF EndOrphan, EndElsewhere, Core!EndOrphan
  <2>2. DaemonOK'
    BY <2>1 DEF DaemonOK, daemon, Core!End
  <2> QED
    BY <1>2, <1>3, <2>1, <2>2 DEF process
<1>12. ASSUME Crash \/ Restart PROVE DaemonOK' /\ ProcessOK' /\ CallsOK'
  <2>1. CASE Crash
    <3>1. DaemonOK'
      <4>1. crashes' \in 0..MaxCrashes
        BY <2>1 DEF Crash, DaemonOK
      <4>2. /\ reader' \in [Proxies -> {"none", "accepted", "bound", "dropping"}]
            /\ \A p \in Proxies : p \in registered' <=> reader'[p] = "bound"
        BY <2>1 DEF Crash
      <4>3. /\ status' \in [Sessions -> {"unused", "live", "ended"}]
            /\ holder' \in [Sessions -> Proxies \cup {Nil}]
            /\ open' \in [Proxies -> BOOLEAN]
        BY <2>1 DEF Crash
      <4> QED
        BY <2>1, <4>1, <4>2, <4>3 DEF Crash, DaemonOK
    <3>2. CallsOK'
      BY <2>1 DEF Crash, CallsOK, InDaemon, process
    <3> QED
      BY <1>2, <2>1, <3>1, <3>2 DEF Crash
  <2>2. CASE Restart
    BY <1>2, <1>3, <2>2 DEF Restart, DaemonOK, core, process
  <2> QED
    BY <1>12, <2>1, <2>2
<1>13. ASSUME UNCHANGED vars PROVE DaemonOK' /\ ProcessOK' /\ CallsOK'
  BY <1>1, <1>2, <1>3, <1>13 DEF vars, process
<1> QED
  BY <1>4, <1>5, <1>6, <1>7, <1>8, <1>9, <1>10, <1>11, <1>12, <1>13
     DEF Next, ProxyStep, DaemonStep

\* Nothing has been forwarded at the start, and no connection made.
LEMMA TypeInit == Init => Inv
<1> SUFFICES ASSUME Init PROVE Inv
  OBVIOUS
<1>1. DaemonOK
  BY DEF Init, DaemonOK, Core!Init
<1>2. ProcessOK
  <2>1. \A p \in Proxies : queue[p] = <<>> /\ Len(queue[p]) = 0
    BY EmptySeq DEF Init
  <2> QED
    BY <2>1, EmptySeq DEF Init, ProcessOK, Waiting
<1>3. CallsOK
  BY DEF Init, CallsOK
<1>4. Unconnected
  BY DEF Init, Unconnected
<1> QED
  BY <1>1, <1>2, <1>3, <1>4, TypeParts DEF Inv

\* Every state is well-typed; in particular the queue of calls read ahead keeps to
\* its limit, and an owner is registered exactly while its control connection is.
THEOREM ProxyTypeCorrect == Spec => []TypeOK
BY TypeInit, TypeStep, PTL DEF Spec, Inv

-----------------------------------------------------------------------------
(* Sessions and connections.                                               *)

\* The daemon has the control connection of the proxy, or has closed its owner.
Linked(p) == reader[p] \in {"bound", "dropping"} \/ ~open[p]

\* A call that is past the check of its owner was sent by a linked proxy, which
\* is why the session it opens has a connection.
Attached ==
    /\ \A s \in Sessions : status[s] = "live" => holder[s] \in Proxies /\ Linked(holder[s])
    /\ \A p \in Proxies, n \in CallIds : dispatch[p][n] \in {"scoped", "running"} => Linked(p)

\* Only the end of the daemon unlinks a proxy: the registration goes before the
\* owner is closed, but the connection's task goes after it.
LEMMA LinkStays ==
    ASSUME Inv, [Next]_vars, ~Crash, NEW p \in Proxies, Linked(p)
    PROVE  Linked(p)'
<1> USE DEF Linked
<1>1. ASSUME UNCHANGED <<open, reader>> PROVE Linked(p)'
  BY <1>1
<1>2. ASSUME NEW q \in Proxies, Connect(q) PROVE Linked(p)'
  <2>1. reader[q] = "none"
    BY <1>2 DEF Connect, Inv, Unconnected
  <2>2. open' = open /\ (reader' = reader \/ reader' = [reader EXCEPT ![q] = "accepted"])
    BY <1>2 DEF Connect, core
  <2> QED
    BY <2>1, <2>2 DEF Inv, TypeOK
<1>3. ASSUME NEW q \in Proxies, ProxyStep(q) \/ ReadAhead(q) PROVE Linked(p)'
  BY <1>1, <1>3 DEF ProxyStep, Begun, ControlLost, TakeQueued, TakeLine, Answered, Broken,
                    Tell, ReadAhead, core, daemon
<1>4. ASSUME NEW q \in Proxies, Kill(q) \/ ControlTimeout(q) \/ SettlementTimeout(q)
                               \/ ExchangeTimeout(q)
      PROVE  Linked(p)'
  BY <1>1, <1>4 DEF Kill, ControlTimeout, SettlementTimeout, ExchangeTimeout, Tell, core, daemon
<1>5. ASSUME NEW q \in Proxies, Register(q) \/ Unregister(q) PROVE Linked(p)'
  BY <1>5 DEF Register, Unregister, core, Inv, TypeOK
<1>6. ASSUME NEW q \in Proxies, CloseOwner(q) PROVE Linked(p)'
  BY <1>6 DEF CloseOwner, Core!Close, Inv, TypeOK
<1>7. ASSUME NEW q \in Proxies, NEW n \in CallIds, Scope(q, n) \/ Run(q, n) \/ Finish(q, n)
      PROVE  Linked(p)'
  BY <1>1, <1>7 DEF Scope, Run, Finish, core, daemon, Core!Open, Core!Resume
<1>8. ASSUME NEW s \in Sessions, EndOrphan(s) \/ EndElsewhere(s) PROVE Linked(p)'
  BY <1>1, <1>8 DEF EndOrphan, EndElsewhere, daemon, Core!EndOrphan, Core!End
<1>9. ASSUME Restart \/ UNCHANGED vars PROVE Linked(p)'
  BY <1>1, <1>9 DEF Restart, vars, core, daemon
<1> HIDE DEF Linked
<1> QED
  BY <1>2, <1>3, <1>4, <1>5, <1>6, <1>7, <1>8, <1>9 DEF Next, DaemonStep

\* A live session was live before for the same proxy, or a call past the check of
\* its owner has just opened or resumed it.
LEMMA LiveFrom ==
    ASSUME Inv, [Next]_vars, ~Crash, NEW s \in Sessions, status'[s] = "live"
    PROVE  \/ status[s] = "live" /\ holder'[s] = holder[s]
           \/ \E p \in Proxies, n \in CallIds : dispatch[p][n] = "scoped" /\ holder'[s] = p
<1> DEFINE Goal == \/ status[s] = "live" /\ holder'[s] = holder[s]
                   \/ \E p \in Proxies, n \in CallIds :
                         dispatch[p][n] = "scoped" /\ holder'[s] = p
<1>1. ASSUME UNCHANGED <<status, holder>> PROVE Goal
  BY <1>1
<1>2. ASSUME NEW q \in Proxies, Connect(q) \/ ProxyStep(q) \/ ReadAhead(q) PROVE Goal
  BY <1>1, <1>2 DEF Connect, ProxyStep, Begun, ControlLost, TakeQueued, TakeLine, Answered,
                    Broken, Tell, ReadAhead, core
<1>3. ASSUME NEW q \in Proxies, Kill(q) \/ ControlTimeout(q) \/ SettlementTimeout(q)
                               \/ ExchangeTimeout(q)
      PROVE  Goal
  BY <1>1, <1>3 DEF Kill, ControlTimeout, SettlementTimeout, ExchangeTimeout, Tell, core
<1>4. ASSUME NEW q \in Proxies, Register(q) \/ Unregister(q) \/ CloseOwner(q) PROVE Goal
  BY <1>1, <1>4 DEF Register, Unregister, CloseOwner, core, Core!Close
<1>5. ASSUME NEW q \in Proxies, NEW n \in CallIds, Scope(q, n) \/ Finish(q, n) PROVE Goal
  BY <1>1, <1>5 DEF Scope, Finish, core
<1>6. ASSUME NEW q \in Proxies, NEW n \in CallIds, Run(q, n) PROVE Goal
  <2>1. dispatch[q][n] = "scoped"
    BY <1>6 DEF Run
  <2>2. ASSUME NEW r \in Sessions, Core!Open(r, q) \/ Core!Resume(r, q) PROVE Goal
    <3>1. CASE r = s
      BY <2>1, <2>2, <3>1 DEF Core!Open, Core!Resume, Inv, TypeOK
    <3>2. CASE r # s
      BY <2>2, <3>2 DEF Core!Open, Core!Resume, Inv, TypeOK
    <3> QED
      BY <3>1, <3>2
  <2> HIDE DEF Goal
  <2> QED
    BY <1>1, <1>6, <2>2 DEF Run, core
<1>7. ASSUME NEW r \in Sessions, EndOrphan(r) \/ EndElsewhere(r) PROVE Goal
  BY <1>7 DEF EndOrphan, EndElsewhere, Core!EndOrphan, Core!End, Inv, TypeOK
<1>8. ASSUME Restart \/ UNCHANGED vars PROVE Goal
  BY <1>1, <1>8 DEF Restart, vars, core
<1> HIDE DEF Goal
<1>9. Goal
  BY <1>2, <1>3, <1>4, <1>5, <1>6, <1>7, <1>8 DEF Next, DaemonStep
<1> QED
  BY <1>9 DEF Goal

\* A call that is past the check of its owner was so before, or has just been
\* found to belong to a registered proxy.
LEMMA PastCheckFrom ==
    ASSUME Inv, [Next]_vars, NEW p \in Proxies, NEW n \in CallIds,
           dispatch'[p][n] \in {"scoped", "running"}
    PROVE  dispatch[p][n] \in {"scoped", "running"} \/ p \in registered
<1> DEFINE Goal == dispatch[p][n] \in {"scoped", "running"} \/ p \in registered
<1>1. ASSUME UNCHANGED dispatch PROVE Goal
  BY <1>1
<1>2. ASSUME NEW q \in Proxies, NEW m \in CallIds, Forward(q, m) PROVE Goal
  BY <1>2 DEF Forward, Inv, TypeOK
<1>3. ASSUME NEW q \in Proxies, Connect(q) \/ Begun(q) \/ ControlLost(q) \/ ReadAhead(q)
                               \/ Kill(q) \/ ControlTimeout(q) \/ SettlementTimeout(q)
      PROVE  Goal
  BY <1>1, <1>3 DEF Connect, Begun, ControlLost, ReadAhead, Kill, ControlTimeout,
                    SettlementTimeout, calls
<1>4. ASSUME NEW q \in Proxies, Answered(q) \/ Broken(q) \/ ExchangeTimeout(q) PROVE Goal
  BY <1>1, <1>4 DEF Answered, Broken, ExchangeTimeout, Tell
<1>5. ASSUME NEW q \in Proxies, TakeQueued(q) PROVE Goal
  <2>1. Head(queue[q]) \in CallIds
    BY <1>5, HeadTailProperties DEF TakeQueued, Inv, TypeOK
  <2> QED
    BY <1>2, <1>5, <2>1 DEF TakeQueued
<1>6. ASSUME NEW q \in Proxies, TakeLine(q) PROVE Goal
  <2>1. pipe[q] # <<>> /\ (Head(pipe[q]).op # "eof" => Head(pipe[q]).id \in CallIds)
    BY <1>6, TypeParts, LineNamesCall DEF TakeLine, MayTake, Inv
  <2>2. (Head(pipe[q]).op = "call" /\ Forward(q, Head(pipe[q]).id)) \/ UNCHANGED dispatch
    BY <1>6 DEF TakeLine, calls
  <2> HIDE DEF Goal
  <2> QED
    BY <1>1, <1>2, <2>1, <2>2
<1>7. ASSUME NEW q \in Proxies, Register(q) \/ Unregister(q) \/ CloseOwner(q) PROVE Goal
  BY <1>1, <1>7 DEF Register, Unregister, CloseOwner, calls
<1>8. ASSUME NEW q \in Proxies, NEW m \in CallIds, Scope(q, m) \/ Run(q, m) \/ Finish(q, m)
      PROVE  Goal
  <2>1. \/ dispatch' = [dispatch EXCEPT ![q][m] = "scoped"] /\ q \in registered
        \/ dispatch' = [dispatch EXCEPT ![q][m] = "running"] /\ dispatch[q][m] = "scoped"
        \/ dispatch' = [dispatch EXCEPT ![q][m] = "done"]
    BY <1>8 DEF Scope, Scoped, Run, Finish
  <2>2. CASE q = p /\ m = n
    BY <2>1, <2>2 DEF Inv, TypeOK
  <2>3. CASE ~(q = p /\ m = n)
    BY <2>1, <2>3 DEF Inv, TypeOK
  <2> QED
    BY <2>2, <2>3
<1>9. ASSUME NEW s \in Sessions, EndOrphan(s) \/ EndElsewhere(s) PROVE Goal
  BY <1>1, <1>9 DEF EndOrphan, EndElsewhere, calls
<1>10. ASSUME Crash PROVE Goal
  BY <1>10 DEF Crash, InDaemon
<1>11. ASSUME Restart \/ UNCHANGED vars PROVE Goal
  BY <1>1, <1>11 DEF Restart, vars, calls
<1> HIDE DEF Goal
<1>12. Goal
  BY <1>3, <1>4, <1>5, <1>6, <1>7, <1>8, <1>9, <1>10, <1>11 DEF Next, ProxyStep, DaemonStep
<1> QED
  BY <1>12 DEF Goal

\* A crash leaves neither sessions nor calls; any other step keeps every link.
LEMMA AttachedStep == Inv /\ Attached /\ [Next]_vars => Attached'
<1> SUFFICES ASSUME Inv, Attached, [Next]_vars PROVE Attached'
  OBVIOUS
<1>1. CASE Crash
  <2>1. \A s \in Sessions : status'[s] # "live"
    BY <1>1 DEF Crash
  <2>2. \A p \in Proxies, n \in CallIds : dispatch'[p][n] \notin {"scoped", "running"}
    BY <1>1 DEF Crash, InDaemon
  <2> QED
    BY <2>1, <2>2 DEF Attached
<1>2. CASE ~Crash
  <2>1. ASSUME NEW p \in Proxies, NEW n \in CallIds, dispatch'[p][n] \in {"scoped", "running"}
        PROVE  Linked(p)'
    <3>1. Linked(p)
      BY <2>1, PastCheckFrom DEF Attached, Linked, Inv, TypeOK
    <3> QED
      BY <1>2, <3>1, LinkStays
  <2>2. ASSUME NEW s \in Sessions, status'[s] = "live"
        PROVE  \E p \in Proxies : holder'[s] = p /\ Linked(p)
    <3>1. CASE status[s] = "live" /\ holder'[s] = holder[s]
      BY <3>1 DEF Attached
    <3>2. CASE \E p \in Proxies, n \in CallIds : dispatch[p][n] = "scoped" /\ holder'[s] = p
      BY <3>2 DEF Attached
    <3> QED
      BY <1>2, <2>2, <3>1, <3>2, LiveFrom
  <2>3. ASSUME NEW s \in Sessions, status'[s] = "live"
        PROVE  holder'[s] \in Proxies /\ Linked(holder[s])'
    <3>1. PICK p \in Proxies : holder'[s] = p /\ Linked(p)
      BY <2>2, <2>3
    <3>2. Linked(p)'
      BY <1>2, <3>1, LinkStays
    <3> QED
      BY <3>1, <3>2 DEF Linked
  <2> QED
    BY <2>1, <2>3 DEF Attached
<1> QED
  BY <1>1, <1>2

\* A live session has a control connection behind it, or its owner is closed: no
\* interleaving of a call with the loss of its proxy, or with the end of the daemon
\* the proxy was registered with, opens one that nothing will end.
THEOREM SessionsAreAttached == Spec => []NoSessionWithoutConnection
<1>1. Init => Attached
  BY DEF Init, Attached, Core!Init
<1>2. Attached => NoSessionWithoutConnection
  BY DEF Attached, Linked, NoSessionWithoutConnection
<1> QED
  BY <1>1, <1>2, TypeInit, TypeStep, AttachedStep, PTL DEF Spec

-----------------------------------------------------------------------------
(* Settlement.                                                             *)

\* What the daemon still runs for a proxy is what the proxy awaits, or its client
\* was told of a failure, or the proxy failed itself.
AccountedFor(p, n) ==
    \/ active[p] = n
    \/ answer[p][n] = "transport"
    \/ exit[p] \in {"unproven", "lost", "killed"}

Accounted ==
    \A p \in Proxies, n \in CallIds : dispatch[p][n] \in InDaemon => AccountedFor(p, n)

\* An exit with nothing awaited, or as a failure, keeps the account.
LEMMA ExitAccounts ==
    ASSUME Inv, Accounted, NEW p \in Proxies, NEW how \in Endings, Exits(p, how),
           active[p] = Nil \/ how \in {"unproven", "lost", "killed"},
           UNCHANGED <<dispatch, answer>>, exit[p] = Nil
    PROVE  Accounted'
<1> SUFFICES ASSUME NEW q \in Proxies, NEW n \in CallIds, dispatch[q][n] \in InDaemon
             PROVE  AccountedFor(q, n)'
  BY DEF Accounted
<1>1. AccountedFor(q, n)
  BY DEF Accounted
<1>2. /\ exit' = [exit EXCEPT ![p] = how] /\ active' = [active EXCEPT ![p] = Nil]
      /\ answer' = answer
  BY DEF Exits
<1>3. CASE q = p
  <2>1. exit'[p] = how /\ Nil # n
    BY <1>2 DEF Inv, TypeOK
  <2>2. CASE how \in {"unproven", "lost", "killed"}
    BY <1>3, <2>1, <2>2 DEF AccountedFor
  <2>3. CASE active[p] = Nil
    BY <1>1, <1>2, <1>3, <2>1, <2>3 DEF AccountedFor, Endings
  <2> QED
    BY <2>2, <2>3
<1>4. CASE q # p
  BY <1>1, <1>2, <1>4 DEF AccountedFor, Inv, TypeOK
<1> QED
  BY <1>3, <1>4

\* The loop awaits what it forwards, and awaited nothing before.
LEMMA ForwardAccounts ==
    ASSUME Inv, Accounted, NEW p \in Proxies, NEW n \in CallIds, proxy[p] = "serve",
           Forward(p, n)
    PROVE  Accounted'
<1> SUFFICES ASSUME NEW q \in Proxies, NEW m \in CallIds, dispatch'[q][m] \in InDaemon
             PROVE  AccountedFor(q, m)'
  BY DEF Accounted
<1>1. /\ active' = [active EXCEPT ![p] = n] /\ UNCHANGED <<exit, answer>>
      /\ \E d : dispatch' = [dispatch EXCEPT ![p][n] = d]
  BY DEF Forward, Goto
<1>2. active[p] = Nil
  BY DEF Inv, TypeOK, Waiting
<1>3. CASE q = p /\ m = n
  BY <1>1, <1>3 DEF AccountedFor, Inv, TypeOK
<1>4. CASE ~(q = p /\ m = n)
  <2>1. dispatch'[q][m] = dispatch[q][m]
    BY <1>1, <1>4 DEF Inv, TypeOK
  <2>2. AccountedFor(q, m)
    BY <2>1 DEF Accounted
  <2> QED
    BY <1>1, <1>2, <2>2 DEF AccountedFor, Inv, TypeOK
<1> QED
  BY <1>3, <1>4

\* A result means that the call is over, and so does a connection that broke with
\* the daemon; a timeout is told as a failure.
LEMMA TellAccounts ==
    ASSUME Inv, Accounted, NEW p \in Proxies, Answered(p) \/ Broken(p) \/ ExchangeTimeout(p)
    PROVE  Accounted'
<1>1. PICK what : /\ Tell(p, what) /\ proxy[p] \in Waiting
                  /\ what = "transport" \/ dispatch[p][active[p]] \notin InDaemon
  BY DEF Answered, Broken, ExchangeTimeout, InDaemon
<1>2. /\ answer' = [answer EXCEPT ![p][active[p]] = what] /\ dispatch' = dispatch
      /\ \A q \in Proxies : q # p => active'[q] = active[q] /\ exit'[q] = exit[q]
  BY <1>1 DEF Tell, Exits, Goto, Inv, TypeOK
<1>3. active[p] \in CallIds /\ exit[p] = Nil
  BY <1>1 DEF Inv, TypeOK, Waiting
<1> SUFFICES ASSUME NEW q \in Proxies, NEW n \in CallIds, dispatch[q][n] \in InDaemon
             PROVE  AccountedFor(q, n)'
  BY <1>2 DEF Accounted
<1>4. AccountedFor(q, n)
  BY DEF Accounted
<1>5. CASE q # p
  <2>1. answer'[q][n] = answer[q][n]
    BY <1>2, <1>5 DEF Inv, TypeOK
  <2> QED
    BY <1>2, <1>4, <1>5, <2>1 DEF AccountedFor
<1>6. CASE q = p /\ n = active[p]
  <2>1. what = "transport"
    BY <1>1, <1>6
  <2>2. answer'[q][n] = "transport"
    BY <1>2, <1>6, <2>1 DEF Inv, TypeOK
  <2> QED
    BY <2>2 DEF AccountedFor
<1>7. CASE q = p /\ n # active[p]
  <2>1. answer'[q][n] = answer[q][n]
    BY <1>2, <1>7 DEF Inv, TypeOK
  <2> QED
    BY <1>3, <1>4, <1>7, <2>1 DEF AccountedFor, Endings
<1> QED
  BY <1>5, <1>6, <1>7

\* Every action keeps the account.
LEMMA AccountedStep == Inv /\ Accounted /\ [Next]_vars => Accounted'
<1> SUFFICES ASSUME Inv, Accounted, [Next]_vars PROVE Accounted'
  OBVIOUS
<1>1. ASSUME UNCHANGED <<active, exit, answer>>,
             \A p \in Proxies, n \in CallIds :
                dispatch'[p][n] \in InDaemon => dispatch[p][n] \in InDaemon
      PROVE  Accounted'
  BY <1>1 DEF Accounted, AccountedFor
<1>2. ASSUME NEW p \in Proxies, Connect(p) PROVE Accounted'
  <2>1. active[p] = Nil /\ exit[p] = Nil
    BY <1>2 DEF Connect, Inv, TypeOK, Waiting
  <2> QED
    BY <1>1, <1>2, <2>1, ExitAccounts DEF Connect, calls, Endings
<1>3. ASSUME NEW p \in Proxies, Begun(p) \/ Register(p) \/ Unregister(p) \/ CloseOwner(p)
      PROVE  Accounted'
  BY <1>1, <1>3 DEF Begun, Register, Unregister, CloseOwner, process, calls
<1>4. ASSUME NEW p \in Proxies,
             Kill(p) \/ ControlTimeout(p) \/ ControlLost(p) \/ SettlementTimeout(p)
      PROVE  Accounted'
  <2>1. PICK how \in Endings : Exits(p, how)
    BY <1>4 DEF Kill, ControlTimeout, ControlLost, SettlementTimeout, Endings
  <2>2. /\ exit[p] = Nil /\ UNCHANGED <<dispatch, answer>>
        /\ active[p] = Nil \/ exit'[p] \in {"unproven", "lost", "killed"}
    BY <1>4 DEF Kill, ControlTimeout, ControlLost, SettlementTimeout, Exits, calls,
                Connected, Inv, TypeOK, Waiting
  <2>3. exit'[p] = how
    BY <2>1 DEF Exits, Inv, TypeOK
  <2> QED
    BY <2>1, <2>2, <2>3, ExitAccounts
<1>5. ASSUME NEW p \in Proxies, TakeQueued(p) PROVE Accounted'
  <2>1. Head(queue[p]) \in CallIds
    BY <1>5, HeadTailProperties DEF TakeQueued, Inv, TypeOK
  <2> QED
    BY <1>5, <2>1, ForwardAccounts DEF TakeQueued
<1>6. ASSUME NEW p \in Proxies, TakeLine(p) PROVE Accounted'
  <2>1. pipe[p] # <<>> /\ (Head(pipe[p]).op # "eof" => Head(pipe[p]).id \in CallIds)
    BY <1>6, TypeParts, LineNamesCall DEF TakeLine, MayTake, Inv
  <2>2. proxy[p] = "serve" /\ active[p] = Nil /\ exit[p] = Nil
    BY <1>6 DEF TakeLine, MayTake, Inv, TypeOK, Waiting
  <2>3. \/ Head(pipe[p]).op = "call" /\ Forward(p, Head(pipe[p]).id)
        \/ UNCHANGED <<exit, active, calls>>
        \/ Exits(p, "eof") /\ UNCHANGED calls
    BY <1>6 DEF TakeLine
  <2> QED
    BY <1>1, <2>1, <2>2, <2>3, ExitAccounts, ForwardAccounts DEF calls, Endings
<1>7. ASSUME NEW p \in Proxies, ReadAhead(p) PROVE Accounted'
  BY <1>1, <1>7 DEF ReadAhead, AfterStop, calls
<1>8. ASSUME NEW p \in Proxies, Answered(p) \/ Broken(p) \/ ExchangeTimeout(p)
      PROVE  Accounted'
  BY <1>8, TellAccounts
<1>9. ASSUME NEW p \in Proxies, NEW n \in CallIds, Scope(p, n) \/ Run(p, n) \/ Finish(p, n)
      PROVE  Accounted'
  <2>1. dispatch[p][n] \in InDaemon /\ \E d : dispatch' = [dispatch EXCEPT ![p][n] = d]
    BY <1>9 DEF Scope, Run, Finish, InDaemon
  <2>2. \A q \in Proxies, m \in CallIds :
           dispatch'[q][m] \in InDaemon => dispatch[q][m] \in InDaemon
    BY <2>1 DEF Inv, TypeOK
  <2> QED
    BY <1>1, <1>9, <2>2 DEF Scope, Run, Finish, process
<1>10. ASSUME NEW s \in Sessions, EndOrphan(s) \/ EndElsewhere(s) PROVE Accounted'
  BY <1>1, <1>10 DEF EndOrphan, EndElsewhere, process, calls
<1>11. ASSUME Crash \/ Restart \/ UNCHANGED vars PROVE Accounted'
  BY <1>1, <1>11 DEF Crash, Restart, vars, process, calls, InDaemon
<1> QED
  BY <1>2, <1>3, <1>4, <1>5, <1>6, <1>7, <1>8, <1>9, <1>10, <1>11
     DEF Next, ProxyStep, DaemonStep

\* A proxy that is gone and reported its calls as settled has left nothing running
\* in the daemon, whatever was cancelled, timed out or killed before.
THEOREM SettlementIsProved == Spec => []SettlementIsProof
<1>1. Init => Accounted
  BY DEF Init, Accounted, InDaemon
<1>2. Inv /\ Accounted => SettlementIsProof
  <2> SUFFICES ASSUME Inv, Accounted, NEW p \in Proxies, NEW n \in CallIds,
                      dispatch[p][n] \in InDaemon, proxy[p] = "gone"
               PROVE  answer[p][n] = "transport" \/ exit[p] \in {"unproven", "lost", "killed"}
    BY DEF SettlementIsProof
  <2>1. active[p] # n
    BY DEF Inv, TypeOK, Waiting
  <2> QED
    BY <2>1 DEF Accounted, AccountedFor
<1> QED
  BY <1>1, <1>2, TypeInit, TypeStep, AccountedStep, PTL DEF Spec

-----------------------------------------------------------------------------
(* Order.                                                                  *)

Told(p, m) == answer[p][m] # Nil
Past(p, m) == Told(p, m) \/ active[p] = m

Queued(p, m) == \E j \in 1..Len(queue[p]) : queue[p][j] = m

\* The calls before one that was forwarded were told; those before one that was
\* read ahead, or that is still in the pipe, are past or stand before it.
DispatchOrdered(p) ==
    \A m, n \in CallIds : m < n /\ dispatch[p][n] # "none" => Told(p, m)

QueueOrdered(p) ==
    \A i \in 1..Len(queue[p]) : \A m \in CallIds : m < queue[p][i] =>
        Past(p, m) \/ \E j \in 1..(i - 1) : queue[p][j] = m

PipeOrdered(p) ==
    \A i \in 1..Len(pipe[p]) : \A m \in CallIds :
        pipe[p][i].op = "call" /\ m < pipe[p][i].id =>
            \/ Past(p, m) \/ Queued(p, m)
            \/ \E j \in 1..(i - 1) : pipe[p][j].op = "call" /\ pipe[p][j].id = m

Ordered(p) ==
    /\ DispatchOrdered(p)
    /\ proxy[p] # "gone" => QueueOrdered(p) /\ PipeOrdered(p)

\* A proxy stays in order while it forwards nothing and reads nothing, and forgets
\* no call it is past.
LEMMA OrderKept ==
    ASSUME NEW p \in Proxies, Ordered(p), proxy'[p] # "gone" => proxy[p] # "gone",
           \A n \in CallIds : dispatch'[p][n] # "none" => dispatch[p][n] # "none",
           \A m \in CallIds : Told(p, m) => Told(p, m)',
           \/ proxy'[p] = "gone"
           \/ /\ \A m \in CallIds : Past(p, m) => Past(p, m)'
              /\ queue'[p] = queue[p] /\ pipe'[p] = pipe[p]
    PROVE  Ordered(p)'
<1>1. DispatchOrdered(p)'
  BY DEF Ordered, DispatchOrdered
<1>2. ASSUME proxy'[p] # "gone" PROVE QueueOrdered(p)' /\ PipeOrdered(p)'
  <2>1. /\ QueueOrdered(p) /\ PipeOrdered(p)
        /\ queue'[p] = queue[p] /\ pipe'[p] = pipe[p]
        /\ \A m \in CallIds : Past(p, m) => Past(p, m)'
    BY <1>2 DEF Ordered
  <2>2. QueueOrdered(p)'
    BY <2>1 DEF QueueOrdered
  <2>3. PipeOrdered(p)'
    BY <2>1 DEF PipeOrdered, Queued
  <2> QED
    BY <2>2, <2>3
<1> QED
  BY <1>1, <1>2 DEF Ordered

\* What is not forwarded, and not told, is as it was.
LEMMA OthersKept ==
    ASSUME NEW q \in Proxies, Ordered(q), proxy'[q] = proxy[q], active'[q] = active[q],
           queue'[q] = queue[q], pipe'[q] = pipe[q], answer'[q] = answer[q],
           \A n \in CallIds : dispatch'[q][n] # "none" => dispatch[q][n] # "none"
    PROVE  Ordered(q)'
<1>1. \A m \in CallIds : (Told(q, m) => Told(q, m)') /\ (Past(q, m) => Past(q, m)')
  BY DEF Told, Past
<1> QED
  BY <1>1, OrderKept

\* Forwarding a call every earlier one of which was told keeps the order, if what
\* stands before the rest is still known to.
LEMMA ForwardOrdered ==
    ASSUME Inv, NEW p \in Proxies, NEW n \in CallIds, Ordered(p), proxy[p] = "serve",
           Forward(p, n), \A m \in CallIds : m < n => Told(p, m)
    PROVE  /\ DispatchOrdered(p)' /\ Past(p, n)'
           /\ \A m \in CallIds : Past(p, m) => Past(p, m)'
           /\ proxy'[p] = "wait"
           /\ \A q \in Proxies : q # p =>
                 /\ proxy'[q] = proxy[q] /\ active'[q] = active[q]
                 /\ answer'[q] = answer[q] /\ dispatch'[q] = dispatch[q]
<1>1. /\ proxy' = [proxy EXCEPT ![p] = "wait"] /\ active' = [active EXCEPT ![p] = n]
      /\ answer' = answer
      /\ dispatch' = [dispatch EXCEPT ![p][n] = IF up THEN "sent" ELSE "lost"]
  BY DEF Forward, Goto
<1>2. active[p] = Nil
  BY DEF Inv, TypeOK, Waiting
<1>3. /\ proxy'[p] = "wait" /\ active'[p] = n
      /\ \A q \in Proxies : q # p =>
            /\ proxy'[q] = proxy[q] /\ active'[q] = active[q]
            /\ answer'[q] = answer[q] /\ dispatch'[q] = dispatch[q]
  BY <1>1 DEF Inv, TypeOK
<1>4. \A m \in CallIds : m # n => dispatch'[p][m] = dispatch[p][m]
  BY <1>1 DEF Inv, TypeOK
<1>5. \A m \in CallIds : Told(p, m)' <=> Told(p, m)
  BY <1>1 DEF Told
<1>6. DispatchOrdered(p)'
  BY <1>4, <1>5 DEF Ordered, DispatchOrdered
<1>7. Past(p, n)' /\ \A m \in CallIds : Past(p, m) => Past(p, m)'
  BY <1>2, <1>3, <1>5 DEF Past
<1> QED
  BY <1>3, <1>6, <1>7

\* Where the entries of a sequence are after its first is taken off.
LEMMA TailAt ==
    ASSUME NEW S, NEW s \in Seq(S), s # <<>>
    PROVE  /\ Len(s) \in Nat \ {0} /\ Len(Tail(s)) = Len(s) - 1 /\ Head(s) = s[1]
           /\ Head(s) \in S /\ Tail(s) \in Seq(S)
           /\ \A i \in 1..Len(Tail(s)) : Tail(s)[i] = s[i + 1]
<1>1. Len(s) \in Nat /\ Len(s) # 0
  BY LenProperties, EmptySeq
<1> QED
  BY <1>1, HeadTailProperties

\* The oldest call read ahead: every earlier one was told.
LEMMA TakeQueuedOrdered ==
    ASSUME Inv, NEW p \in Proxies, Ordered(p), TakeQueued(p),
           NEW q \in Proxies, Ordered(q)
    PROVE  Ordered(q)'
<1>0. PICK n : n = Head(queue[p])
  OBVIOUS
<1>1. /\ proxy[p] = "serve" /\ queue[p] # <<>> /\ Forward(p, n) /\ pipe' = pipe
      /\ queue' = [queue EXCEPT ![p] = Tail(queue[p])]
  BY <1>0 DEF TakeQueued
<1>2. queue[p] \in Seq(CallIds) /\ active[p] = Nil
  BY <1>1 DEF Inv, TypeOK, Waiting
<1>3. /\ Len(queue[p]) \in Nat \ {0} /\ Len(Tail(queue[p])) = Len(queue[p]) - 1
      /\ n = queue[p][1] /\ n \in CallIds
      /\ \A i \in 1..Len(Tail(queue[p])) : Tail(queue[p])[i] = queue[p][i + 1]
  BY <1>0, <1>1, <1>2, TailAt
<1>4. queue'[p] = Tail(queue[p]) /\ \A r \in Proxies : r # p => queue'[r] = queue[r]
  BY <1>1 DEF Inv, TypeOK
<1>5. QueueOrdered(p) /\ PipeOrdered(p)
  BY <1>1 DEF Ordered
<1>6. \A m \in CallIds : m < n => Told(p, m)
  BY <1>2, <1>3, <1>5 DEF QueueOrdered, Past
<1>7. /\ DispatchOrdered(p)' /\ Past(p, n)'
      /\ \A m \in CallIds : Past(p, m) => Past(p, m)'
      /\ proxy'[p] = "wait"
      /\ \A r \in Proxies : r # p =>
            /\ proxy'[r] = proxy[r] /\ active'[r] = active[r]
            /\ answer'[r] = answer[r] /\ dispatch'[r] = dispatch[r]
  BY <1>1, <1>3, <1>6, ForwardOrdered
<1>8. CASE q # p
  BY <1>1, <1>4, <1>7, <1>8, OthersKept
<1>9. CASE q = p
  <2>1. QueueOrdered(p)'
    <3> SUFFICES ASSUME NEW i \in 1..Len(queue'[p]), NEW m \in CallIds, m < queue'[p][i]
                 PROVE  Past(p, m)' \/ \E j \in 1..(i - 1) : queue'[p][j] = m
      BY DEF QueueOrdered
    <3>1. i + 1 \in 1..Len(queue[p]) /\ queue'[p][i] = queue[p][i + 1]
      BY <1>3, <1>4
    <3>2. Past(p, m) \/ \E j \in 1..i : queue[p][j] = m
      BY <1>5, <3>1 DEF QueueOrdered
    <3>3. ASSUME NEW j \in 1..i, queue[p][j] = m
          PROVE  m = n \/ \E k \in 1..(i - 1) : queue'[p][k] = m
      <4>1. CASE j = 1
        BY <1>3, <3>3, <4>1
      <4>2. CASE j # 1
        <5>1. j - 1 \in 1..(i - 1) /\ queue'[p][j - 1] = m
          BY <1>3, <1>4, <3>1, <3>3, <4>2
        <5> QED
          BY <5>1
      <4> QED
        BY <4>1, <4>2
    <3> QED
      BY <1>7, <3>2, <3>3
  <2>2. \A m \in CallIds : Queued(p, m) => Past(p, m)' \/ Queued(p, m)'
    <3> SUFFICES ASSUME NEW m \in CallIds, NEW j \in 1..Len(queue[p]), queue[p][j] = m
                 PROVE  Past(p, m)' \/ Queued(p, m)'
      BY DEF Queued
    <3>1. CASE j = 1
      BY <1>3, <1>7, <3>1
    <3>2. CASE j # 1
      <4>1. j - 1 \in 1..Len(queue'[p]) /\ queue'[p][j - 1] = m
        BY <1>3, <1>4, <3>2
      <4> QED
        BY <4>1 DEF Queued
    <3> QED
      BY <3>1, <3>2
  <2>3. PipeOrdered(p)'
    BY <1>1, <1>5, <1>7, <2>2 DEF PipeOrdered
  <2> QED
    BY <1>7, <1>9, <2>1, <2>3 DEF Ordered
<1> QED
  BY <1>8, <1>9

\* The pipe stays in order when its first line is taken, if a call that was read is
\* read ahead or awaited now.
LEMMA PipeTailOrdered ==
    ASSUME Inv, NEW p \in Proxies, PipeOrdered(p), pipe[p] # <<>>,
           pipe'[p] = Tail(pipe[p]),
           \A m \in CallIds : Past(p, m) => Past(p, m)',
           \A m \in CallIds : Queued(p, m) => Queued(p, m)',
           \A m \in CallIds : Head(pipe[p]).op = "call" /\ Head(pipe[p]).id = m =>
                Past(p, m)' \/ Queued(p, m)'
    PROVE  PipeOrdered(p)'
<1>1. pipe[p] \in Seq(Lines)
  BY DEF Inv, TypeOK
<1>2. /\ Len(pipe[p]) \in Nat \ {0} /\ Len(Tail(pipe[p])) = Len(pipe[p]) - 1
      /\ Head(pipe[p]) = pipe[p][1]
      /\ \A i \in 1..Len(Tail(pipe[p])) : Tail(pipe[p])[i] = pipe[p][i + 1]
  BY <1>1, TailAt
<1> SUFFICES ASSUME NEW i \in 1..Len(pipe'[p]), NEW m \in CallIds,
                    pipe'[p][i].op = "call", m < pipe'[p][i].id
             PROVE  \/ Past(p, m)' \/ Queued(p, m)'
                    \/ \E j \in 1..(i - 1) : pipe'[p][j].op = "call" /\ pipe'[p][j].id = m
  BY DEF PipeOrdered
<1>3. i + 1 \in 1..Len(pipe[p]) /\ pipe'[p][i] = pipe[p][i + 1]
  BY <1>2
<1>4. \/ Past(p, m) \/ Queued(p, m)
      \/ \E j \in 1..i : pipe[p][j].op = "call" /\ pipe[p][j].id = m
  BY <1>3 DEF PipeOrdered
<1>5. ASSUME NEW j \in 1..i, pipe[p][j].op = "call" /\ pipe[p][j].id = m
      PROVE  \/ Past(p, m)' \/ Queued(p, m)'
             \/ \E k \in 1..(i - 1) : pipe'[p][k].op = "call" /\ pipe'[p][k].id = m
  <2>1. CASE j = 1
    BY <1>2, <1>5, <2>1
  <2>2. CASE j # 1
    <3>1. j - 1 \in 1..(i - 1) /\ pipe'[p][j - 1] = pipe[p][j]
      BY <1>2, <1>3, <2>2
    <3> QED
      BY <1>5, <3>1
  <2> QED
    BY <2>1, <2>2
<1> QED
  BY <1>4, <1>5

\* The next line, with nothing read ahead.
LEMMA TakeLineOrdered ==
    ASSUME Inv, NEW p \in Proxies, Ordered(p), TakeLine(p),
           NEW q \in Proxies, Ordered(q)
    PROVE  Ordered(q)'
<1>0. PICK line : line = Head(pipe[p])
  OBVIOUS
<1>1. /\ proxy[p] = "serve" /\ queue[p] = <<>> /\ pipe[p] # <<>>
      /\ pipe' = [pipe EXCEPT ![p] = Tail(@)]
      /\ \/ line.op = "call" /\ Forward(p, line.id) /\ UNCHANGED queue
         \/ line.op = "cancel" /\ UNCHANGED <<proxy, exit, queue, active, calls>>
         \/ Exits(p, "eof") /\ UNCHANGED calls
  BY <1>0 DEF TakeLine, MayTake
<1>2. active[p] = Nil /\ Len(queue[p]) = 0
  BY <1>1, EmptySeq DEF Inv, TypeOK, Waiting
<1>3. QueueOrdered(p) /\ PipeOrdered(p)
  BY <1>1 DEF Ordered
<1>4. /\ Len(pipe[p]) \in Nat \ {0} /\ line = pipe[p][1]
      /\ line.op # "eof" => line.id \in CallIds
  <2>1. pipe[p] \in Seq(Lines)
    BY DEF Inv, TypeOK
  <2> QED
    BY <1>0, <1>1, <2>1, TailAt, TypeParts, LineNamesCall DEF Inv
<1>5. pipe'[p] = Tail(pipe[p]) /\ \A r \in Proxies : r # p => pipe'[r] = pipe[r]
  BY <1>1 DEF Inv, TypeOK
<1>6. CASE line.op = "call" /\ Forward(p, line.id) /\ UNCHANGED queue
  <2>0. PICK n \in CallIds : n = line.id
    BY <1>4, <1>6
  <2>1. ASSUME NEW m \in CallIds, m < n PROVE Told(p, m)
    <3>1. 1 \in 1..Len(pipe[p]) /\ pipe[p][1].op = "call" /\ m < pipe[p][1].id
      BY <1>4, <1>6, <2>0, <2>1
    <3>2. \/ Past(p, m) \/ Queued(p, m)
          \/ \E j \in 1..(1 - 1) : pipe[p][j].op = "call" /\ pipe[p][j].id = m
      BY <1>3, <3>1 DEF PipeOrdered
    <3>3. ~Queued(p, m)
      BY <1>2 DEF Queued
    <3>4. m # Nil
      OBVIOUS
    <3> QED
      BY <1>2, <3>2, <3>3, <3>4 DEF Past
  <2>2. /\ DispatchOrdered(p)' /\ Past(p, n)'
        /\ \A m \in CallIds : Past(p, m) => Past(p, m)'
        /\ proxy'[p] = "wait"
        /\ \A r \in Proxies : r # p =>
              /\ proxy'[r] = proxy[r] /\ active'[r] = active[r]
              /\ answer'[r] = answer[r] /\ dispatch'[r] = dispatch[r]
    BY <1>1, <1>6, <2>0, <2>1, ForwardOrdered
  <2>3. CASE q # p
    BY <1>5, <1>6, <2>2, <2>3, OthersKept
  <2>4. CASE q = p
    <3>1. QueueOrdered(p)'
      BY <1>2, <1>6 DEF QueueOrdered
    <3>2. \A m \in CallIds : Queued(p, m) => Queued(p, m)'
      BY <1>6 DEF Queued
    <3>3. PipeOrdered(p)'
      BY <1>0, <1>1, <1>3, <1>5, <2>0, <2>2, <3>2, PipeTailOrdered
    <3> QED
      BY <2>2, <2>4, <3>1, <3>3 DEF Ordered
  <2> QED
    BY <2>3, <2>4
<1>7. CASE line.op = "cancel" /\ UNCHANGED <<proxy, exit, queue, active, calls>>
  <2>1. /\ \A m \in CallIds : Past(p, m) => Past(p, m)'
        /\ \A m \in CallIds : Queued(p, m) => Queued(p, m)'
    BY <1>7 DEF Past, Told, Queued, calls
  <2>2. CASE q # p
    BY <1>5, <1>7, <2>2, OthersKept DEF calls
  <2>3. CASE q = p
    <3>1. PipeOrdered(p)'
      BY <1>0, <1>1, <1>3, <1>5, <1>7, <2>1, PipeTailOrdered
    <3>2. QueueOrdered(p)' /\ DispatchOrdered(p)'
      BY <1>3, <1>7, <2>1 DEF QueueOrdered, Ordered, DispatchOrdered, Told, calls
    <3> QED
      BY <2>3, <3>1, <3>2 DEF Ordered
  <2> QED
    BY <2>2, <2>3
<1>8. CASE Exits(p, "eof") /\ UNCHANGED calls
  <2>1. CASE q # p
    BY <1>5, <1>8, <2>1, OthersKept DEF Exits, calls, Inv, TypeOK
  <2>2. CASE q = p
    <3>1. proxy'[p] = "gone"
      BY <1>8 DEF Exits, Inv, TypeOK
    <3> QED
      BY <1>8, <2>2, <3>1, OrderKept DEF Told, calls
  <2> QED
    BY <2>1, <2>2
<1> QED
  BY <1>1, <1>6, <1>7, <1>8

\* A line read ahead: a call joins the end of the queue.
LEMMA ReadAheadOrdered ==
    ASSUME Inv, NEW p \in Proxies, Ordered(p), ReadAhead(p),
           NEW q \in Proxies, Ordered(q)
    PROVE  Ordered(q)'
<1>0. PICK line : line = Head(pipe[p])
  OBVIOUS
<1>1. /\ proxy[p] = "wait" /\ pipe[p] # <<>> /\ UNCHANGED <<dispatch, answer, active>>
      /\ pipe' = [pipe EXCEPT ![p] = Tail(@)]
      /\ proxy' = proxy \/ proxy' = [proxy EXCEPT ![p] = "retire"]
      /\ \/ line.op = "call" /\ queue' = [queue EXCEPT ![p] = Append(@, line.id)]
         \/ line.op # "call" /\ UNCHANGED queue
  BY <1>0 DEF ReadAhead, AfterStop, Stops, calls
<1>2. QueueOrdered(p) /\ PipeOrdered(p)
  BY <1>1 DEF Ordered
<1>3. /\ proxy'[p] # "gone" /\ pipe'[p] = Tail(pipe[p])
      /\ \A r \in Proxies : r # p =>
            proxy'[r] = proxy[r] /\ pipe'[r] = pipe[r] /\ queue'[r] = queue[r]
  BY <1>1 DEF Inv, TypeOK
<1>4. CASE q # p
  BY <1>1, <1>3, <1>4, OthersKept
<1>5. \A m \in CallIds : (Told(p, m)' <=> Told(p, m)) /\ (Past(p, m)' <=> Past(p, m))
  BY <1>1 DEF Past, Told
<1>6. DispatchOrdered(p)'
  BY <1>1, <1>5 DEF Ordered, DispatchOrdered
<1>7. CASE line.op # "call" /\ UNCHANGED queue
  <2>1. QueueOrdered(p)'
    BY <1>2, <1>5, <1>7 DEF QueueOrdered
  <2>2. \A m \in CallIds : Queued(p, m) => Queued(p, m)'
    BY <1>7 DEF Queued
  <2>3. PipeOrdered(p)'
    BY <1>0, <1>1, <1>2, <1>3, <1>5, <1>7, <2>2, PipeTailOrdered
  <2> QED
    BY <1>4, <1>6, <2>1, <2>3 DEF Ordered
<1>8. CASE line.op = "call" /\ queue' = [queue EXCEPT ![p] = Append(@, line.id)]
  <2>1. queue[p] \in Seq(CallIds) /\ pipe[p] \in Seq(Lines)
    BY DEF Inv, TypeOK
  <2>2. PICK n \in CallIds : n = line.id
    BY <1>0, <1>1, <1>8, TypeParts, LineNamesCall DEF Inv
  <2>3. queue'[p] = Append(queue[p], n)
    BY <1>8, <2>2 DEF Inv, TypeOK
  <2>4. /\ Len(queue[p]) \in Nat /\ Len(queue'[p]) = Len(queue[p]) + 1
        /\ \A i \in 1..Len(queue[p]) : queue'[p][i] = queue[p][i]
        /\ queue'[p][Len(queue[p]) + 1] = n
    BY <2>1, <2>3, AppendProperties, LenProperties
  <2>5. Len(pipe[p]) \in Nat \ {0} /\ line = pipe[p][1]
    BY <1>0, <1>1, <2>1, TailAt
  <2>6. \A m \in CallIds : m < n => Past(p, m) \/ Queued(p, m)
    BY <1>2, <1>8, <2>2, <2>5 DEF PipeOrdered
  <2>7. QueueOrdered(p)'
    <3> SUFFICES ASSUME NEW i \in 1..Len(queue'[p]), NEW m \in CallIds, m < queue'[p][i]
                 PROVE  Past(p, m)' \/ \E j \in 1..(i - 1) : queue'[p][j] = m
      BY DEF QueueOrdered
    <3>1. CASE i \in 1..Len(queue[p])
      <4>1. Past(p, m) \/ \E j \in 1..(i - 1) : queue[p][j] = m
        BY <1>2, <2>4, <3>1 DEF QueueOrdered
      <4>2. \A j \in 1..(i - 1) : queue'[p][j] = queue[p][j]
        BY <2>4, <3>1
      <4> QED
        BY <1>5, <4>1, <4>2
    <3>2. CASE i = Len(queue[p]) + 1
      <4>1. Past(p, m) \/ Queued(p, m)
        BY <2>4, <2>6, <3>2
      <4> QED
        BY <1>5, <2>4, <3>2, <4>1 DEF Queued
    <3> QED
      BY <2>4, <3>1, <3>2
  <2>8. \A m \in CallIds : Queued(p, m) \/ m = n => Queued(p, m)'
    BY <2>4 DEF Queued
  <2>9. PipeOrdered(p)'
    BY <1>0, <1>1, <1>2, <1>3, <1>5, <2>2, <2>8, PipeTailOrdered
  <2> QED
    BY <1>4, <1>6, <2>7, <2>9 DEF Ordered
<1> QED
  BY <1>1, <1>7, <1>8

\* A process that exits forwards nothing more.
LEMMA ExitOrdered ==
    ASSUME Inv, NEW p \in Proxies, NEW how, Exits(p, how), UNCHANGED <<pipe, dispatch>>,
           NEW q \in Proxies, Ordered(q), \A m \in CallIds : Told(q, m) => Told(q, m)',
           q # p => answer'[q] = answer[q]
    PROVE  Ordered(q)'
<1>1. CASE q # p
  BY <1>1, OthersKept DEF Exits, Inv, TypeOK
<1>2. CASE q = p
  <2>1. proxy'[p] = "gone"
    BY DEF Exits, Inv, TypeOK
  <2> QED
    BY <1>2, <2>1, OrderKept
<1> QED
  BY <1>1, <1>2

\* A call that is told is past before and after.
LEMMA TellOrdered ==
    ASSUME Inv, NEW p \in Proxies, proxy[p] \in Waiting,
           NEW what \in {"result", "transport"}, Tell(p, what),
           NEW q \in Proxies, Ordered(q)
    PROVE  Ordered(q)'
<1>1. active[p] \in CallIds /\ what # Nil
  BY DEF Inv, TypeOK
<1>2. answer' = [answer EXCEPT ![p][active[p]] = what] /\ UNCHANGED <<pipe, dispatch>>
  BY DEF Tell
<1>3. /\ q # p => answer'[q] = answer[q]
      /\ \A m \in CallIds : Told(q, m) => Told(q, m)'
  <2>1. CASE q # p
    BY <1>1, <1>2, <2>1 DEF Told, Inv, TypeOK
  <2>2. CASE q = p
    BY <1>1, <1>2, <2>2 DEF Told, Inv, TypeOK
  <2> QED
    BY <2>1, <2>2
<1>4. CASE proxy[p] = "retire"
  BY <1>2, <1>3, <1>4, ExitOrdered DEF Tell
<1>5. CASE proxy[p] # "retire"
  <2>1. /\ proxy' = [proxy EXCEPT ![p] = "serve"] /\ active' = [active EXCEPT ![p] = Nil]
        /\ UNCHANGED queue
    BY <1>5 DEF Tell, Goto
  <2>2. CASE q # p
    BY <1>2, <1>3, <2>1, <2>2, OthersKept DEF Inv, TypeOK
  <2>3. CASE q = p
    <3>1. \A m \in CallIds : Past(p, m) => Past(p, m)'
      BY <1>1, <1>2, <2>1 DEF Past, Told, Inv, TypeOK
    <3>2. proxy[p] # "gone"
      BY DEF Waiting
    <3> QED
      BY <1>2, <1>3, <2>1, <2>3, <3>1, <3>2, OrderKept
  <2> QED
    BY <2>2, <2>3
<1> QED
  BY <1>4, <1>5

AllOrdered == \A p \in Proxies : Ordered(p)

\* Every action keeps the order.
LEMMA OrderStep == Inv /\ AllOrdered /\ [Next]_vars => AllOrdered'
<1> SUFFICES ASSUME Inv, AllOrdered, [Next]_vars, NEW q \in Proxies PROVE Ordered(q)'
  BY DEF AllOrdered
<1>0. \A p \in Proxies : Ordered(p)
  BY DEF AllOrdered
<1>1. ASSUME UNCHANGED <<queue, active, pipe, answer>>, proxy'[q] # "gone" => proxy[q] # "gone",
             \A n \in CallIds : dispatch'[q][n] # "none" => dispatch[q][n] # "none"
      PROVE  Ordered(q)'
  <2>1. \A m \in CallIds : (Told(q, m) => Told(q, m)') /\ (Past(q, m) => Past(q, m)')
    BY <1>1 DEF Told, Past
  <2> QED
    BY <1>0, <1>1, <2>1, OrderKept
<1>2. ASSUME NEW p \in Proxies, NEW how, Exits(p, how), UNCHANGED <<pipe, calls>>
      PROVE  Ordered(q)'
  <2>1. \A m \in CallIds : Told(q, m) => Told(q, m)'
    BY <1>2 DEF Told, calls
  <2> QED
    BY <1>0, <1>2, <2>1, ExitOrdered DEF calls
<1>3. ASSUME NEW p \in Proxies, Connect(p) PROVE Ordered(q)'
  <2>1. CASE up
    <3>1. /\ proxy[p] = "new" /\ proxy' = [proxy EXCEPT ![p] = "begin"]
          /\ UNCHANGED <<queue, active, pipe, calls>>
      BY <1>3, <2>1 DEF Connect
    <3>2. proxy'[q] # "gone" => proxy[q] # "gone"
      BY <3>1 DEF Inv, TypeOK
    <3> QED
      BY <1>1, <3>1, <3>2 DEF calls
  <2>2. CASE ~up
    BY <1>2, <1>3, <2>2 DEF Connect
  <2> QED
    BY <2>1, <2>2
<1>4. ASSUME NEW p \in Proxies, Begun(p) PROVE Ordered(q)'
  <2>1. proxy'[q] # "gone" => proxy[q] # "gone"
    BY <1>4 DEF Begun, Inv, TypeOK
  <2> QED
    BY <1>1, <1>4, <2>1 DEF Begun, calls
<1>5. ASSUME NEW p \in Proxies,
             Kill(p) \/ ControlTimeout(p) \/ ControlLost(p) \/ SettlementTimeout(p)
      PROVE  Ordered(q)'
  BY <1>2, <1>5 DEF Kill, ControlTimeout, ControlLost, SettlementTimeout
<1>6. ASSUME NEW p \in Proxies, TakeQueued(p) \/ TakeLine(p) \/ ReadAhead(p)
      PROVE  Ordered(q)'
  BY <1>0, <1>6, TakeQueuedOrdered, TakeLineOrdered, ReadAheadOrdered
<1>7. ASSUME NEW p \in Proxies, Answered(p) \/ Broken(p) \/ ExchangeTimeout(p)
      PROVE  Ordered(q)'
  <2>1. PICK what \in {"result", "transport"} : Tell(p, what) /\ proxy[p] \in Waiting
    BY <1>7 DEF Answered, Broken, ExchangeTimeout
  <2> QED
    BY <1>0, <2>1, TellOrdered
<1>8. ASSUME NEW p \in Proxies, Register(p) \/ Unregister(p) \/ CloseOwner(p)
      PROVE  Ordered(q)'
  BY <1>1, <1>8 DEF Register, Unregister, CloseOwner, process, calls
<1>9. ASSUME NEW p \in Proxies, NEW n \in CallIds, Scope(p, n) \/ Run(p, n) \/ Finish(p, n)
      PROVE  Ordered(q)'
  <2>1. dispatch[p][n] # "none" /\ \E d : dispatch' = [dispatch EXCEPT ![p][n] = d]
    BY <1>9 DEF Scope, Run, Finish
  <2>2. \A m \in CallIds : dispatch'[q][m] # "none" => dispatch[q][m] # "none"
    BY <2>1 DEF Inv, TypeOK
  <2> QED
    BY <1>1, <1>9, <2>2 DEF Scope, Run, Finish, process
<1>10. ASSUME NEW s \in Sessions, EndOrphan(s) \/ EndElsewhere(s) PROVE Ordered(q)'
  BY <1>1, <1>10 DEF EndOrphan, EndElsewhere, process, calls
<1>11. ASSUME Crash PROVE Ordered(q)'
  <2>1. \A n \in CallIds : dispatch'[q][n] # "none" => dispatch[q][n] # "none"
    BY <1>11 DEF Crash, InDaemon
  <2> QED
    BY <1>1, <1>11, <2>1 DEF Crash, process
<1>12. ASSUME Restart \/ UNCHANGED vars PROVE Ordered(q)'
  BY <1>1, <1>12 DEF Restart, vars, process, calls
<1> QED
  BY <1>3, <1>4, <1>5, <1>6, <1>7, <1>8, <1>9, <1>10, <1>11, <1>12
     DEF Next, ProxyStep, DaemonStep

\* What a client writes is in order from the start.
LEMMA OrderInit == Init => AllOrdered
<1> SUFFICES ASSUME Init, NEW p \in Proxies PROVE Ordered(p)
  BY DEF AllOrdered
<1>1. DispatchOrdered(p)
  BY DEF Init, DispatchOrdered
<1>2. queue[p] = <<>> /\ Len(queue[p]) = 0
  BY EmptySeq DEF Init
<1>3. QueueOrdered(p)
  BY <1>2 DEF QueueOrdered
<1>4. pipe[p] \in Scripts
  BY DEF Init
<1>5. ASSUME NEW i \in 1..Len(pipe[p]), NEW m \in CallIds,
             pipe[p][i].op = "call", m < pipe[p][i].id
      PROVE  \E j \in 1..(i - 1) : pipe[p][j].op = "call" /\ pipe[p][j].id = m
  <2>1. PICK s \in Scripts : s = pipe[p]
    BY <1>4
  <2> QED
    BY <1>5, <2>1, NumberingAssumption
<1>6. PipeOrdered(p)
  BY <1>5 DEF PipeOrdered
<1> QED
  BY <1>1, <1>3, <1>6 DEF Ordered

\* A client's calls reach the daemon in the order it wrote them, each after it was
\* told of all the ones before it, however many the proxy has read ahead, and
\* whatever was cancelled, timed out or lost meanwhile.
THEOREM CallsKeepTheirOrder == Spec => []ForwardedInOrder
<1>1. AllOrdered => ForwardedInOrder
  BY DEF AllOrdered, Ordered, DispatchOrdered, Told, ForwardedInOrder
<1> QED
  BY <1>1, OrderInit, OrderStep, TypeInit, TypeStep, PTL DEF Spec

=============================================================================
