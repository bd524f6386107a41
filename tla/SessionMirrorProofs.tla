------------------------- MODULE SessionMirrorProofs -------------------------
(***************************************************************************)
(* Proofs about SessionMirror, for any number of labels, transports and    *)
(* requests.                                                               *)
(***************************************************************************)
EXTENDS SessionMirror, TLAPS

USE MirrorAssumption


-----------------------------------------------------------------------------
(* Types, and the lock.                                                    *)

\* Where a request goes, with a label, and with the lock or without.
LEMMA ArriveKeeps ==
    ASSUME TypeOK, NEW r \in Requests, NEW s \in Sessions, NEW o \in Owners,
           NEW at \in {"call", "lock_start", "lock_end"}, Arrive(r, s, o, at),
           UNCHANGED <<core, suspended, due, mark, known, lock, previous, failed, ghost>>
    PROVE  TypeOK'
<1>1. /\ pc' = [pc EXCEPT ![r] = at] /\ lab' = [lab EXCEPT ![r] = s]
      /\ by' = [by EXCEPT ![r] = o] /\ pc[r] = "idle"
  BY DEF Arrive
<1>2. \A q \in Requests : pc'[q] \in Locked <=> lock' = q
  BY <1>1 DEF TypeOK, Locked
<1>3. \A q \in Requests : pc'[q] \in Labelled => lab'[q] \in Sessions /\ by'[q] \in Owners
  BY <1>1 DEF TypeOK
<1>4. pc' \in [Requests -> PCs] /\ lab' \in [Requests -> Sessions \cup {Nil}]
      /\ by' \in [Requests -> Owners \cup {Nil}]
  BY <1>1 DEF TypeOK, PCs
<1> QED
  BY <1>2, <1>3, <1>4 DEF TypeOK, core, ghost

\* A request that goes on under the lock keeps its label.
LEMMA GotoKeeps ==
    ASSUME TypeOK, NEW r \in Requests, NEW at \in PCs, Goto(r, at), UNCHANGED <<lab, by>>,
           at \in Labelled => pc[r] \in Labelled,
           \/ lock' = lock /\ (at \in Locked <=> pc[r] \in Locked)
           \/ lock = Nil /\ lock' = r /\ at \in Locked
    PROVE  /\ pc' \in [Requests -> PCs]
           /\ \A q \in Requests : pc'[q] \in Labelled => lab'[q] \in Sessions /\ by'[q] \in Owners
           /\ \A q \in Requests : pc'[q] \in Locked <=> lock' = q
           /\ lock' \in Requests \cup {Nil}
<1>1. pc' = [pc EXCEPT ![r] = at]
  BY DEF Goto
<1>2. pc' \in [Requests -> PCs]
  BY <1>1 DEF TypeOK
<1>3. ASSUME NEW q \in Requests
      PROVE  /\ pc'[q] \in Labelled => lab'[q] \in Sessions /\ by'[q] \in Owners
             /\ pc'[q] \in Locked <=> lock' = q
  <2>1. CASE q = r
    BY <1>1, <2>1 DEF TypeOK
  <2>2. CASE q # r
    BY <1>1, <2>2 DEF TypeOK
  <2> QED
    BY <2>1, <2>2
<1> QED
  BY <1>2, <1>3 DEF TypeOK

\* A request that returns lets go of the lock if it has it.
LEMMA ReturnKeeps ==
    ASSUME TypeOK, NEW r \in Requests, Return(r),
           (pc[r] \in Locked /\ lock' = Nil) \/ (pc[r] \notin Locked /\ lock' = lock)
    PROVE  /\ pc' \in [Requests -> PCs] /\ lab' \in [Requests -> Sessions \cup {Nil}]
           /\ by' \in [Requests -> Owners \cup {Nil}]
           /\ previous' \in [Requests -> Requests \cup {"hook", Nil}]
           /\ failed' \in [Requests -> BOOLEAN]
           /\ \A q \in Requests : pc'[q] \in Labelled => lab'[q] \in Sessions /\ by'[q] \in Owners
           /\ \A q \in Requests : pc'[q] \in Locked <=> lock' = q
           /\ lock' \in Requests \cup {Nil}
<1>1. /\ pc' = [pc EXCEPT ![r] = "idle"] /\ lab' = [lab EXCEPT ![r] = Nil]
      /\ by' = [by EXCEPT ![r] = Nil] /\ previous' = [previous EXCEPT ![r] = Nil]
      /\ failed' = [failed EXCEPT ![r] = FALSE]
  BY DEF Return, Goto
<1>2. /\ pc' \in [Requests -> PCs] /\ lab' \in [Requests -> Sessions \cup {Nil}]
      /\ by' \in [Requests -> Owners \cup {Nil}]
      /\ previous' \in [Requests -> Requests \cup {"hook", Nil}]
      /\ failed' \in [Requests -> BOOLEAN]
  BY <1>1 DEF TypeOK, PCs
<1>3. ASSUME NEW q \in Requests
      PROVE  /\ pc'[q] \in Labelled => lab'[q] \in Sessions /\ by'[q] \in Owners
             /\ pc'[q] \in Locked <=> lock' = q
  <2>1. CASE q = r
    BY <1>1, <2>1 DEF TypeOK, Labelled, Locked
  <2>2. CASE q # r
    BY <1>1, <2>2 DEF TypeOK
  <2> QED
    BY <2>1, <2>2
<1> QED
  BY <1>2, <1>3 DEF TypeOK

\* Every action leaves the requests typed, one of them at most under the lock.
LEMMA TypeStep == TypeOK /\ [Next]_vars => TypeOK'
<1> SUFFICES ASSUME TypeOK, [Next]_vars
             PROVE  TypeOK'
  OBVIOUS
<1> USE DEF core, local, ghost
<1>1. ASSUME NEW r \in Requests, Arrives(r) PROVE TypeOK'
  BY <1>1, ArriveKeeps DEF Arrives
<1>2. ASSUME NEW r \in Requests, AskRevoke(r) PROVE TypeOK'
  BY <1>2, GotoKeeps DEF AskRevoke, PCs, Labelled, Locked, TypeOK
<1>3. ASSUME NEW r \in Requests, Call(r) PROVE TypeOK'
  <2>1. lab[r] \in Sessions /\ by[r] \in Owners
    BY <1>3 DEF Call, TypeOK, Labelled, PCs
  <2>2. /\ status' \in [Sessions -> {"unused", "live", "ended"}]
        /\ holder' \in [Sessions -> Owners \cup {Nil}]
        /\ open' \in [Owners -> BOOLEAN] /\ overtaken' \subseteq Sessions /\ revoked' = revoked
    <3>1. CASE Core!Open(lab[r], by[r]) /\ overtaken' = overtaken \ {lab[r]} /\ UNCHANGED revoked
      BY <2>1, <3>1 DEF Core!Open, TypeOK
    <3>2. CASE UNCHANGED <<core, ghost>>
      BY <3>2 DEF TypeOK
    <3> QED
      BY <1>3, <3>1, <3>2 DEF Call
  <2>3. known' \subseteq Sessions
    BY <1>3, <2>1 DEF Call, TypeOK
  <2> QED
    BY <1>3, <2>2, <2>3, ReturnKeeps DEF Call, TypeOK, Locked
<1>4. ASSUME NEW r \in Requests, LockStart(r) PROVE TypeOK'
  <2>1. known' \subseteq Sessions
    BY <1>4 DEF LockStart, TypeOK, Labelled, PCs
  <2> QED
    BY <1>4, <2>1, GotoKeeps DEF LockStart, TypeOK, PCs, Labelled, Locked
<1>5. ASSUME NEW r \in Requests, Start(r) PROVE TypeOK'
  <2>1. lab[r] \in Sessions /\ by[r] \in Owners
    BY <1>5 DEF Start, TypeOK, Labelled, PCs
  <2>2. /\ status' \in [Sessions -> {"unused", "live", "ended"}]
        /\ holder' \in [Sessions -> Owners \cup {Nil}]
        /\ open' \in [Owners -> BOOLEAN] /\ overtaken' \subseteq Sessions /\ revoked' = revoked
        /\ failed' \in [Requests -> BOOLEAN]
    <3>1. overtaken' \subseteq Sessions /\ revoked' = revoked /\ failed' \in [Requests -> BOOLEAN]
      BY <1>5 DEF Start, TypeOK
    <3>2. CASE Core!Open(lab[r], by[r]) \/ Core!Resume(lab[r], by[r])
      BY <2>1, <3>1, <3>2 DEF Core!Open, Core!Resume, TypeOK
    <3>3. CASE UNCHANGED core
      BY <3>1, <3>3 DEF TypeOK
    <3> QED
      BY <1>5, <3>2, <3>3 DEF Start
  <2> QED
    BY <1>5, <2>2, GotoKeeps DEF Start, TypeOK, PCs, Labelled, Locked
<1>6. ASSUME NEW r \in Requests, StartReturns(r) PROVE TypeOK'
  <2>1. mark' \in [Sessions -> Requests \cup {"hook", Nil}]
    BY <1>6 DEF StartReturns, Unmarked, TypeOK
  <2> QED
    BY <1>6, <2>1, ReturnKeeps DEF StartReturns, Unlock, TypeOK, Locked
<1>7. ASSUME NEW r \in Requests, LockEnd(r) PROVE TypeOK'
  <2>1. lab[r] \in Sessions
    BY <1>7 DEF LockEnd, TypeOK, Labelled, PCs
  <2>2. /\ mark' \in [Sessions -> Requests \cup {"hook", Nil}] /\ known' \subseteq Sessions
        /\ previous' \in [Requests -> Requests \cup {"hook", Nil}]
    BY <1>7, <2>1 DEF LockEnd, TypeOK
  <2> QED
    <3>1. /\ pc' \in [Requests -> PCs] /\ lock' \in Requests \cup {Nil}
          /\ \A q \in Requests : pc'[q] \in Labelled => lab'[q] \in Sessions /\ by'[q] \in Owners
          /\ \A q \in Requests : pc'[q] \in Locked <=> lock' = q
      BY <1>7, GotoKeeps DEF LockEnd, PCs, Labelled, Locked
    <3> QED
      BY <1>7, <2>2, <3>1 DEF LockEnd, TypeOK
<1>8. ASSUME NEW r \in Requests, End(r) PROVE TypeOK'
  <2>1. /\ status' \in [Sessions -> {"unused", "live", "ended"}]
        /\ failed' \in [Requests -> BOOLEAN] /\ holder' = holder /\ open' = open
    <3>1. failed' \in [Requests -> BOOLEAN]
      BY <1>8 DEF End, TypeOK
    <3>2. Core!End(lab[r]) \/ UNCHANGED core
      BY <1>8 DEF End
    <3>3. /\ status' \in [Sessions -> {"unused", "live", "ended"}]
          /\ holder' = holder /\ open' = open
      BY <3>2 DEF Core!End, TypeOK
    <3> QED
      BY <3>1, <3>3
  <2>2. PICK at \in {"ending", "ended"} : Goto(r, at)
    BY <1>8 DEF End
  <2>3. /\ pc[r] = "end"
        /\ UNCHANGED <<suspended, due, mark, known, lock, lab, by, previous, ghost>>
    BY <1>8 DEF End
  <2> QED
    BY <2>1, <2>2, <2>3, GotoKeeps DEF TypeOK, PCs, Labelled, Locked
<1>9. ASSUME NEW r \in Requests, EndHook(r) PROVE TypeOK'
  <2>1. /\ mark' \in [Sessions -> Requests \cup {"hook", Nil}] /\ known' \subseteq Sessions
        /\ failed' \in [Requests -> BOOLEAN]
    BY <1>9 DEF EndHook, TypeOK, Labelled, PCs
  <2> QED
    BY <1>9, <2>1, GotoKeeps DEF EndHook, TypeOK, PCs, Labelled, Locked
<1>10. ASSUME NEW r \in Requests, EndReturns(r) PROVE TypeOK'
  <2>1. mark' \in [Sessions -> Requests \cup {"hook", Nil}]
    BY <1>10 DEF EndReturns, RolledBack, TypeOK
  <2> QED
    BY <1>10, <2>1, ReturnKeeps DEF EndReturns, Unlock, TypeOK, Locked
<1>11. ASSUME NEW s \in Sessions, EndElsewhere(s) \/ Hook(s) PROVE TypeOK'
  BY <1>11 DEF EndElsewhere, Hook, Core!End, TypeOK
<1>12. ASSUME NEW o \in Owners, CloseConnection(o) PROVE TypeOK'
  BY <1>12 DEF CloseConnection, Core!Close, TypeOK
<1>13. ASSUME NEW r \in Requests, LockRevoke(r) PROVE TypeOK'
  BY <1>13, GotoKeeps DEF LockRevoke, TypeOK, PCs, Labelled, Locked
<1>14. ASSUME NEW r \in Requests, RevokeReturns(r) PROVE TypeOK'
  <2>1. mark' \in [Sessions -> Requests \cup {"hook", Nil}] /\ revoked' \subseteq Sessions
    BY <1>14 DEF RevokeReturns, TypeOK
  <2> QED
    BY <1>14, <2>1, ReturnKeeps DEF RevokeReturns, Unlock, TypeOK, Locked
<1>15. ASSUME NEW s \in Sessions, NEW o \in Owners, TrustedCall(s, o) PROVE TypeOK'
  BY <1>15 DEF TrustedCall, Core!Open, Core!Resume, TypeOK
<1>16. ASSUME UNCHANGED vars PROVE TypeOK'
  BY <1>16 DEF vars, TypeOK
<1> QED
  BY <1>1, <1>2, <1>3, <1>4, <1>5, <1>6, <1>7, <1>8, <1>9, <1>10, <1>11, <1>12,
     <1>13, <1>14, <1>15, <1>16 DEF Next, Acquire, Proceed

\* Nobody asks for anything at the start.
LEMMA TypeInit == Init => TypeOK
<1> SUFFICES ASSUME Init PROVE TypeOK
  OBVIOUS
<1>1. \A r \in Requests : pc[r] \notin Labelled /\ pc[r] \notin Locked /\ lock # r
  BY DEF Init, Labelled, Locked
<1>2. pc \in [Requests -> PCs]
  BY DEF Init, PCs
<1> QED
  BY <1>1, <1>2 DEF Init, Core!Init, TypeOK

\* Every state is well-typed; in particular the lifecycle lock is held exactly by
\* the one request that is starting, ending or revoking.
THEOREM MirrorTypeCorrect == Spec => []TypeOK
BY TypeInit, TypeStep, PTL DEF Spec

-----------------------------------------------------------------------------
(* Marks.                                                                  *)

\* Every settled end is marked; whoever is about to unmark a label has a session
\* that lives or was overtaken; and whoever may restore an older mark has one.
StartOK(r, s) ==
    pc[r] = "started" /\ lab[r] = s /\ ~failed[r] => status[s] = "live" \/ s \in overtaken
EndOK(r, s) ==
    pc[r] \in {"end", "ended"} /\ lab[r] = s /\ Settled(s) =>
        mark[s] # r \/ previous[r] # Nil

MarkOK ==
    \A s \in Sessions :
        /\ Settled(s) => mark[s] # Nil
        /\ \A r \in Requests : StartOK(r, s) /\ EndOK(r, s)

\* A label settles with the mark of a hook.
Settles(s) == Settled(s)' => Settled(s) \/ mark'[s] = "hook"

\* What changes neither the core's end nor a label's way to it settles nothing.
LEMMA StillSettled ==
    ASSUME TypeOK, UNCHANGED <<status, due, overtaken>>,
           \A r \in Requests : pc[r] = "ending" => pc'[r] = "ending" /\ lab'[r] = lab[r],
           NEW s \in Sessions
    PROVE  Settles(s)
BY DEF Settled, Settles, TypeOK

\* Every action settles labels only through a hook.
LEMMA SettleStep ==
    ASSUME TypeOK, [Next]_vars, NEW s \in Sessions
    PROVE  Settles(s)
<1> USE DEF core, local, ghost, Settles
<1>1. ASSUME NEW r \in Requests,
             Arrives(r) \/ AskRevoke(r) \/ Acquire(r) \/ StartReturns(r) \/ EndReturns(r)
                        \/ RevokeReturns(r)
      PROVE  Settles(s)
  <2>1. UNCHANGED <<status, due, overtaken>>
    BY <1>1 DEF Arrives, AskRevoke, Acquire, LockStart, LockEnd, LockRevoke, StartReturns,
                EndReturns, RevokeReturns
  <2>2. /\ pc[r] # "ending" /\ \A q \in Requests : q # r => pc'[q] = pc[q] /\ lab'[q] = lab[q]
    BY <1>1 DEF Arrives, Arrive, AskRevoke, Acquire, LockStart, LockEnd, LockRevoke,
                StartReturns, EndReturns, RevokeReturns, Return, Goto, TypeOK
  <2> QED
    BY <2>1, <2>2, StillSettled
<1>2. ASSUME NEW r \in Requests, Call(r) PROVE Settles(s)
  BY <1>2 DEF Call, Core!Open, Return, Goto, Settled, TypeOK
<1>3. ASSUME NEW r \in Requests, Start(r) PROVE Settles(s)
  BY <1>3 DEF Start, Core!Open, Core!Resume, Goto, Settled, TypeOK
<1>4. ASSUME NEW r \in Requests, End(r) PROVE Settles(s)
  BY <1>4 DEF End, Core!End, Goto, Settled, TypeOK
<1>5. ASSUME NEW r \in Requests, EndHook(r) PROVE Settles(s)
  BY <1>5 DEF EndHook, Goto, Settled, TypeOK
<1>6. ASSUME NEW x \in Sessions, EndElsewhere(x) PROVE Settles(s)
  BY <1>6 DEF EndElsewhere, Core!End, Settled, TypeOK
<1>7. ASSUME NEW x \in Sessions, Hook(x) PROVE Settles(s)
  BY <1>7 DEF Hook, Settled, TypeOK
<1>8. ASSUME NEW o \in Owners, CloseConnection(o) PROVE Settles(s)
  BY <1>8 DEF CloseConnection, Core!Close, Settled, TypeOK
<1>9. ASSUME NEW x \in Sessions, NEW o \in Owners, TrustedCall(x, o) PROVE Settles(s)
  BY <1>9 DEF TrustedCall, Core!Open, Core!Resume, Settled, TypeOK
<1>10. ASSUME UNCHANGED vars PROVE Settles(s)
  BY <1>10 DEF vars, Settled
<1> HIDE DEF Settles
<1> QED
  BY <1>1, <1>2, <1>3, <1>4, <1>5, <1>6, <1>7, <1>8, <1>9, <1>10 DEF Next, Acquire, Proceed

\* Until start_session returns, its session lives or has been overtaken.
LEMMA StartStep ==
    ASSUME TypeOK, MarkOK, [Next]_vars, NEW s \in Sessions, NEW q \in Requests
    PROVE  StartOK(q, s)'
<1> USE DEF core, local, ghost
<1>0. StartOK(q, s)
  BY DEF MarkOK
<1>1. ASSUME NEW r \in Requests,
             Arrives(r) \/ AskRevoke(r) \/ Acquire(r) \/ StartReturns(r) \/ EndReturns(r)
                        \/ RevokeReturns(r)
      PROVE  StartOK(q, s)'
  <2>1. UNCHANGED <<status, overtaken>>
    BY <1>1 DEF Arrives, AskRevoke, Acquire, LockStart, LockEnd, LockRevoke, StartReturns,
                EndReturns, RevokeReturns
  <2>2. pc'[r] # "started"
    BY <1>1 DEF Arrives, Arrive, AskRevoke, Acquire, LockStart, LockEnd, LockRevoke,
                StartReturns, EndReturns, RevokeReturns, Return, Goto, TypeOK
  <2>3. q # r => pc'[q] = pc[q] /\ lab'[q] = lab[q] /\ failed'[q] = failed[q]
    BY <1>1 DEF Arrives, Arrive, AskRevoke, Acquire, LockStart, LockEnd, LockRevoke,
                StartReturns, EndReturns, RevokeReturns, Return, Goto, TypeOK
  <2> QED
    BY <1>0, <2>1, <2>2, <2>3 DEF StartOK
<1>2. ASSUME NEW r \in Requests, Call(r) PROVE StartOK(q, s)'
  <2>1. /\ pc'[r] # "started"
        /\ q # r => pc'[q] = pc[q] /\ lab'[q] = lab[q] /\ failed'[q] = failed[q]
    BY <1>2 DEF Call, Return, Goto, TypeOK
  <2>2. status[s] = "live" \/ s \in overtaken => status'[s] = "live" \/ s \in overtaken'
    BY <1>2 DEF Call, Core!Open, TypeOK
  <2> QED
    BY <1>0, <2>1, <2>2 DEF StartOK
<1>3. ASSUME NEW r \in Requests, Start(r) PROVE StartOK(q, s)'
  <2>1. pc[r] = "start" /\ pc' = [pc EXCEPT ![r] = "started"] /\ lab' = lab
    BY <1>3 DEF Start, Goto
  <2>2. CASE q = r
    <3>1. lab[r] = s => failed'[r] \/ status'[s] = "live"
      BY <1>3 DEF Start, Core!Open, Core!Resume, TypeOK
    <3> QED
      BY <2>1, <2>2, <3>1 DEF StartOK
  <2>3. CASE q # r
    BY <2>1, <2>3 DEF StartOK, TypeOK, Locked
  <2> QED
    BY <2>2, <2>3
<1>4. ASSUME NEW r \in Requests, End(r) \/ EndHook(r) PROVE StartOK(q, s)'
  <2>1. pc[r] \in Locked /\ pc'[r] # "started" /\ (q # r => pc'[q] = pc[q])
    BY <1>4 DEF End, EndHook, Goto, TypeOK, Locked
  <2>2. q # r => pc[q] # "started"
    BY <2>1 DEF TypeOK, Locked
  <2> QED
    BY <2>1, <2>2 DEF StartOK
<1>5. ASSUME NEW x \in Sessions, EndElsewhere(x) PROVE StartOK(q, s)'
  BY <1>0, <1>5 DEF EndElsewhere, Core!End, StartOK, TypeOK
<1>6. ASSUME NEW x \in Sessions, Hook(x) PROVE StartOK(q, s)'
  BY <1>0, <1>6 DEF Hook, StartOK
<1>7. ASSUME NEW o \in Owners, CloseConnection(o) PROVE StartOK(q, s)'
  BY <1>0, <1>7 DEF CloseConnection, Core!Close, StartOK
<1>8. ASSUME NEW x \in Sessions, NEW o \in Owners, TrustedCall(x, o) PROVE StartOK(q, s)'
  BY <1>0, <1>8 DEF TrustedCall, Core!Open, Core!Resume, StartOK, TypeOK
<1>9. ASSUME UNCHANGED vars PROVE StartOK(q, s)'
  BY <1>0, <1>9 DEF vars, StartOK
<1> QED
  BY <1>1, <1>2, <1>3, <1>4, <1>5, <1>6, <1>7, <1>8, <1>9 DEF Next, Acquire, Proceed

\* A mark once made is only taken back by the request that may.
LEMMA MarkedStep ==
    ASSUME TypeOK, MarkOK, [Next]_vars, NEW s \in Sessions, Settled(s)'
    PROVE  mark'[s] # Nil
<1> USE DEF core, local, ghost
<1>0. (Settled(s) /\ mark[s] # Nil) \/ mark'[s] = "hook"
  BY SettleStep DEF Settles, MarkOK
<1>1. CASE mark'[s] = "hook"
  BY <1>1
<1>2. CASE mark' = mark
  BY <1>0, <1>2
<1>3. ASSUME NEW r \in Requests, StartReturns(r), Settled(s) PROVE mark'[s] # Nil
  <2>1. lab[r] = s => failed[r]
    BY <1>3 DEF StartReturns, MarkOK, StartOK, Settled
  <2> QED
    BY <1>0, <1>3, <2>1 DEF StartReturns, Unmarked, TypeOK
<1>4. ASSUME NEW r \in Requests, LockEnd(r) PROVE mark'[s] # Nil
  BY <1>0, <1>4 DEF LockEnd, TypeOK
<1>5. ASSUME NEW r \in Requests, EndReturns(r), Settled(s) PROVE mark'[s] # Nil
  <2>1. lab[r] = s => mark[s] # r \/ previous[r] # Nil
    BY <1>5 DEF EndReturns, MarkOK, EndOK
  <2> QED
    BY <1>0, <1>5, <2>1 DEF EndReturns, RolledBack, TypeOK
<1>6. ASSUME NEW r \in Requests, EndHook(r) \/ RevokeReturns(r) PROVE mark'[s] # Nil
  BY <1>0, <1>6 DEF EndHook, RevokeReturns, TypeOK
<1>7. ASSUME NEW x \in Sessions, Hook(x) PROVE mark'[s] # Nil
  BY <1>0, <1>7 DEF Hook, TypeOK
<1>8. \/ mark' = mark
      \/ \E r \in Requests : \/ StartReturns(r) \/ LockEnd(r) \/ EndReturns(r)
                             \/ EndHook(r) \/ RevokeReturns(r)
      \/ \E x \in Sessions : Hook(x)
  BY DEF Next, vars, Arrives, AskRevoke, Acquire, Proceed, LockStart, LockRevoke, Call, Start,
         End, EndElsewhere, CloseConnection, TrustedCall
<1> QED
  BY <1>0, <1>1, <1>2, <1>3, <1>4, <1>5, <1>6, <1>7, <1>8

\* An end that may have to restore a mark remembers one, if its label had settled.
LEMMA EndStep ==
    ASSUME TypeOK, MarkOK, [Next]_vars, NEW s \in Sessions, NEW q \in Requests
    PROVE  EndOK(q, s)'
<1> USE DEF core, local, ghost
<1>0. EndOK(q, s) /\ (Settled(s) => mark[s] # Nil) /\ q # "hook"
  BY DEF MarkOK
<1> SUFFICES ASSUME pc'[q] \in {"end", "ended"}, lab'[q] = s, Settled(s)', mark'[s] = q
             PROVE  previous'[q] # Nil
  BY DEF EndOK
<1>1. Settled(s)
  BY <1>0, SettleStep DEF Settles
<1>2. CASE /\ pc[q] \in {"end", "ended"} /\ lab[q] = s /\ mark[s] = q
           /\ previous'[q] = previous[q]
  BY <1>0, <1>1, <1>2 DEF EndOK
<1>3. ASSUME NEW r \in Requests, Arrives(r) PROVE previous'[q] # Nil
  BY <1>2, <1>3 DEF Arrives, Arrive, TypeOK
<1>4. ASSUME NEW r \in Requests, AskRevoke(r) \/ LockStart(r) \/ LockRevoke(r)
      PROVE  previous'[q] # Nil
  BY <1>2, <1>4 DEF AskRevoke, LockStart, LockRevoke, Goto, TypeOK
<1>5. ASSUME NEW r \in Requests, LockEnd(r) PROVE previous'[q] # Nil
  <2>1. CASE q = r
    BY <1>0, <1>1, <1>5, <2>1 DEF LockEnd, TypeOK
  <2>2. CASE q # r
    BY <1>5, <2>2 DEF LockEnd, Goto, TypeOK, Locked
  <2> QED
    BY <2>1, <2>2
<1>6. ASSUME NEW r \in Requests,
             Call(r) \/ StartReturns(r) \/ EndReturns(r) \/ RevokeReturns(r)
      PROVE  previous'[q] # Nil
  <2>1. Return(r)
    BY <1>6 DEF Call, StartReturns, EndReturns, RevokeReturns
  <2>2. q # r /\ pc'[q] = pc[q] /\ lab'[q] = lab[q] /\ previous'[q] = previous[q]
    BY <2>1 DEF Return, Goto, TypeOK
  <2>3. pc[r] \notin Locked
    BY <1>6, <2>2 DEF TypeOK, Locked
  <2>4. mark' = mark
    BY <1>6, <2>3 DEF Call, StartReturns, EndReturns, RevokeReturns, Locked
  <2> QED
    BY <1>2, <2>2, <2>4
<1>7. ASSUME NEW r \in Requests, Start(r) PROVE previous'[q] # Nil
  BY <1>2, <1>7 DEF Start, Goto, TypeOK
<1>8. ASSUME NEW r \in Requests, End(r) PROVE previous'[q] # Nil
  <2>1. q # r => pc[q] = pc'[q]
    BY <1>8 DEF End, Goto, TypeOK
  <2>2. q = r
    BY <1>8, <2>1 DEF End, TypeOK, Locked
  <2> QED
    BY <1>2, <1>8, <2>2 DEF End
<1>9. ASSUME NEW r \in Requests, EndHook(r) PROVE previous'[q] # Nil
  <2>1. q # r => pc[q] = pc'[q]
    BY <1>9 DEF EndHook, Goto, TypeOK
  <2>2. q = r
    BY <1>9, <2>1 DEF EndHook, TypeOK, Locked
  <2>3. mark'[s] = "hook"
    BY <1>9, <2>2 DEF EndHook, TypeOK
  <2> QED
    BY <1>0, <2>3
<1>10. ASSUME NEW x \in Sessions, EndElsewhere(x) \/ Hook(x) PROVE previous'[q] # Nil
  BY <1>0, <1>2, <1>10 DEF EndElsewhere, Hook, TypeOK
<1>11. ASSUME NEW o \in Owners, CloseConnection(o) PROVE previous'[q] # Nil
  BY <1>2, <1>11 DEF CloseConnection
<1>12. ASSUME NEW x \in Sessions, NEW o \in Owners, TrustedCall(x, o) PROVE previous'[q] # Nil
  BY <1>2, <1>12 DEF TrustedCall
<1>13. ASSUME UNCHANGED vars PROVE previous'[q] # Nil
  BY <1>2, <1>13 DEF vars
<1> QED
  BY <1>3, <1>4, <1>5, <1>6, <1>7, <1>8, <1>9, <1>10, <1>11, <1>12, <1>13 DEF Next, Acquire, Proceed

-----------------------------------------------------------------------------
(* After revoke-all.                                                       *)

\* What revoke-all has marked stays marked: the runtime is suspended, so that no start
\* that waited for the lock succeeds and unmarks a label, and an end that marks one of
\* these labels again remembers the mark it may have to restore.
RevokedOK ==
    /\ revoked # {} => suspended
    /\ \A s \in revoked : mark[s] # Nil
    /\ \A r \in Requests :
        /\ pc[r] = "revoke" => suspended
        /\ suspended /\ pc[r] = "started" => failed[r]
        /\ pc[r] \in {"end", "ending", "ended"} /\ lab[r] \in revoked => previous[r] # Nil

\* Only revoke-all suspends the runtime and adds to the labels it has marked.
LEMMA RevokeFrame ==
    ASSUME [Next]_vars
    PROVE  /\ suspended' = suspended \/ \E r \in Requests : LockRevoke(r)
           /\ suspended => suspended'
           /\ revoked' = revoked \/ \E r \in Requests : RevokeReturns(r)
<1> USE DEF ghost
<1>1. ASSUME NEW r \in Requests, Arrives(r) \/ AskRevoke(r) \/ Acquire(r) \/ Proceed(r)
      PROVE  /\ suspended' = suspended \/ LockRevoke(r)
             /\ suspended => suspended'
             /\ revoked' = revoked \/ RevokeReturns(r)
  BY <1>1 DEF Arrives, AskRevoke, Acquire, LockStart, LockEnd, LockRevoke, Proceed, Call, Start,
              StartReturns, End, EndHook, EndReturns, RevokeReturns
<1>2. ASSUME \/ \E s \in Sessions : EndElsewhere(s) \/ Hook(s)
             \/ \E s \in Sessions, o \in Owners \ Leased : TrustedCall(s, o)
             \/ \E o \in Owners : CloseConnection(o)
             \/ UNCHANGED vars
      PROVE  UNCHANGED <<suspended, revoked>>
  BY <1>2 DEF EndElsewhere, Hook, TrustedCall, CloseConnection, vars
<1> QED
  BY <1>1, <1>2 DEF Next

\* After revoke-all a start fails, and an end remembers the mark it replaced.
LEMMA WaitStep ==
    ASSUME TypeOK, RevokedOK, [Next]_vars, NEW q \in Requests
    PROVE  /\ pc'[q] = "revoke" => suspended'
           /\ suspended' /\ pc'[q] = "started" => failed'[q]
           /\ pc'[q] \in {"end", "ending", "ended"} /\ lab'[q] \in revoked' => previous'[q] # Nil
<1> USE DEF core, local, ghost
<1> DEFINE Ends == {"end", "ending", "ended"}
           Goal == /\ pc'[q] = "revoke" => suspended'
                   /\ suspended' /\ pc'[q] = "started" => failed'[q]
                   /\ pc'[q] \in Ends /\ lab'[q] \in revoked' => previous'[q] # Nil
<1>0. ASSUME UNCHANGED <<suspended, revoked>>, lab'[q] = lab[q], previous'[q] = previous[q],
             pc'[q] = pc[q] \/ (pc[q] \in Ends /\ pc'[q] \in Ends),
             failed'[q] = failed[q] \/ pc'[q] # "started"
      PROVE  Goal
  BY <1>0 DEF RevokedOK
<1>1. ASSUME NEW r \in Requests, LockRevoke(r) PROVE Goal
  <2>1. pc[q] \notin Locked /\ pc'[q] \in {pc[q], "revoke"} /\ suspended'
    BY <1>1 DEF LockRevoke, Goto, TypeOK
  <2> QED
    BY <2>1 DEF Locked
<1>2. ASSUME NEW r \in Requests, RevokeReturns(r) PROVE Goal
  <2>1. pc'[q] \notin Locked
    BY <1>2 DEF RevokeReturns, Return, Goto, TypeOK, Locked
  <2> QED
    BY <2>1 DEF Locked
<1>3. ASSUME NEW r \in Requests, Arrives(r) PROVE Goal
  <2>1. pc'[r] \notin Ends \cup {"started", "revoke"}
    BY <1>3 DEF Arrives, Arrive, TypeOK
  <2>2. /\ UNCHANGED <<suspended, revoked>>
        /\ q # r => /\ pc'[q] = pc[q] /\ lab'[q] = lab[q]
                    /\ failed'[q] = failed[q] /\ previous'[q] = previous[q]
    BY <1>3 DEF Arrives, Arrive, TypeOK
  <2> QED
    BY <1>0, <2>1, <2>2
<1>4. ASSUME NEW r \in Requests, AskRevoke(r) \/ LockStart(r) PROVE Goal
  <2>1. /\ pc'[r] \notin Ends \cup {"started", "revoke"}
        /\ UNCHANGED <<suspended, revoked, local>> /\ (q # r => pc'[q] = pc[q])
    BY <1>4 DEF AskRevoke, LockStart, Goto, TypeOK
  <2> QED
    BY <1>0, <2>1
<1>5. ASSUME NEW r \in Requests, LockEnd(r) PROVE Goal
  <2>1. CASE q = r
    <3>1. lab[r] \in revoked => mark[lab[r]] # Nil
      BY DEF RevokedOK
    <3>2. pc'[r] = "end" /\ previous'[r] = mark[lab[r]] /\ UNCHANGED <<lab, revoked>>
      BY <1>5 DEF LockEnd, Goto, TypeOK
    <3> QED
      BY <2>1, <3>1, <3>2
  <2>2. CASE q # r
    BY <1>0, <1>5, <2>2 DEF LockEnd, Goto, TypeOK
  <2> QED
    BY <2>1, <2>2
<1>6. ASSUME NEW r \in Requests, Call(r) \/ StartReturns(r) \/ EndReturns(r) PROVE Goal
  <2>1. Return(r) /\ UNCHANGED <<suspended, revoked>>
    BY <1>6 DEF Call, StartReturns, EndReturns
  <2>2. pc'[r] = "idle" /\ (q # r => /\ pc'[q] = pc[q] /\ lab'[q] = lab[q]
                                     /\ failed'[q] = failed[q] /\ previous'[q] = previous[q])
    BY <2>1 DEF Return, Goto, TypeOK
  <2> QED
    BY <1>0, <2>1, <2>2
<1>7. ASSUME NEW r \in Requests, Start(r) PROVE Goal
  <2>1. CASE q = r
    <3>1. pc'[q] = "started" /\ suspended' = suspended /\ (suspended => failed'[q])
      BY <1>7, <2>1 DEF Start, Goto, TypeOK
    <3> QED
      BY <3>1
  <2>2. CASE q # r
    BY <1>0, <1>7, <2>2 DEF Start, Goto, TypeOK
  <2> QED
    BY <2>1, <2>2
<1>8. ASSUME NEW r \in Requests, End(r) \/ EndHook(r) PROVE Goal
  <2>1. /\ pc[r] \in Ends /\ pc'[r] \in Ends /\ UNCHANGED <<suspended, revoked, lab, previous>>
        /\ q # r => pc'[q] = pc[q] /\ failed'[q] = failed[q]
    <3>1. CASE End(r)
      BY <3>1 DEF End, Goto, TypeOK
    <3>2. CASE EndHook(r)
      BY <3>2 DEF EndHook, Goto, TypeOK
    <3> QED
      BY <1>8, <3>1, <3>2
  <2> QED
    BY <1>0, <2>1
<1>9. ASSUME \/ \E s \in Sessions : EndElsewhere(s) \/ Hook(s)
             \/ \E s \in Sessions, o \in Owners \ Leased : TrustedCall(s, o)
             \/ \E o \in Owners : CloseConnection(o)
             \/ UNCHANGED vars
      PROVE  Goal
  BY <1>0, <1>9 DEF EndElsewhere, Hook, TrustedCall, CloseConnection, vars
<1> HIDE DEF Goal
<1>10. Goal
  BY <1>1, <1>2, <1>3, <1>4, <1>5, <1>6, <1>7, <1>8, <1>9 DEF Next, Acquire, Proceed
<1> QED
  BY <1>10 DEF Goal

\* Nothing takes away what revoke-all has marked.
LEMMA RevokedMarkStep ==
    ASSUME TypeOK, RevokedOK, [Next]_vars, NEW s \in Sessions, s \in revoked'
    PROVE  mark'[s] # Nil
<1> USE DEF core, local, ghost
<1>1. ASSUME NEW r \in Requests, RevokeReturns(r) PROVE mark'[s] # Nil
  BY <1>1 DEF RevokeReturns, RevokedOK, TypeOK
<1>2. CASE s \in revoked
  <2>1. mark[s] # Nil /\ suspended
    BY <1>2 DEF RevokedOK
  <2>2. ASSUME NEW r \in Requests, StartReturns(r) PROVE mark'[s] # Nil
    <3>1. failed[r]
      BY <2>1, <2>2 DEF StartReturns, RevokedOK
    <3> QED
      BY <2>1, <2>2, <3>1 DEF StartReturns, Unmarked
  <2>3. ASSUME NEW r \in Requests, LockEnd(r) \/ EndHook(r) PROVE mark'[s] # Nil
    BY <2>1, <2>3 DEF LockEnd, EndHook, TypeOK
  <2>4. ASSUME NEW r \in Requests, EndReturns(r) PROVE mark'[s] # Nil
    <3>1. lab[r] = s => previous[r] # Nil
      BY <1>2, <2>4 DEF EndReturns, RevokedOK
    <3> QED
      BY <2>1, <2>4, <3>1 DEF EndReturns, RolledBack, TypeOK
  <2>5. ASSUME NEW x \in Sessions, Hook(x) PROVE mark'[s] # Nil
    BY <2>1, <2>5 DEF Hook, TypeOK
  <2>6. \/ mark' = mark
        \/ \E r \in Requests : \/ StartReturns(r) \/ LockEnd(r) \/ EndReturns(r)
                               \/ EndHook(r) \/ RevokeReturns(r)
        \/ \E x \in Sessions : Hook(x)
    BY DEF Next, vars, Arrives, AskRevoke, Acquire, Proceed, LockStart, LockRevoke, Call, Start,
           End, EndElsewhere, TrustedCall, CloseConnection
  <2> QED
    BY <1>1, <2>1, <2>2, <2>3, <2>4, <2>5, <2>6
<1> QED
  BY <1>1, <1>2, RevokeFrame

\* A settled end is in the mirror, whatever races it, and what revoke-all has marked
\* stays in it, whatever the requests and the core go on to do.
THEOREM MirrorMarksEnds == Spec => []EndsAreMarked
<1> DEFINE IInv == TypeOK /\ MarkOK /\ RevokedOK
<1>1. Init => IInv
  <2> SUFFICES ASSUME Init PROVE MarkOK /\ RevokedOK
    BY TypeInit
  <2>1. MarkOK
    BY DEF Init, Core!Init, MarkOK, StartOK, EndOK, Settled
  <2> QED
    BY <2>1 DEF Init, Core!Init, RevokedOK
<1>2. IInv /\ [Next]_vars => IInv'
  <2> SUFFICES ASSUME TypeOK, MarkOK, RevokedOK, [Next]_vars
               PROVE  MarkOK' /\ RevokedOK'
    BY TypeStep
  <2>1. MarkOK'
    BY StartStep, EndStep, MarkedStep DEF MarkOK
  <2>2. RevokedOK'
    <3>1. revoked' # {} => suspended'
      BY RevokeFrame DEF RevokedOK, RevokeReturns
    <3>2. revoked' \subseteq Sessions
      BY TypeStep DEF TypeOK
    <3> QED
      BY <3>1, <3>2, WaitStep, RevokedMarkStep DEF RevokedOK
  <2> QED
    BY <2>1, <2>2
<1>3. IInv => EndsAreMarked
  BY DEF EndsAreMarked, MarkOK, RevokedOK
<1> QED
  BY <1>1, <1>2, <1>3, PTL DEF Spec

=============================================================================
