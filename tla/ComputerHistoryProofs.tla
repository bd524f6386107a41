----------------------- MODULE ComputerHistoryProofs -----------------------
(***************************************************************************)
(* What holds of the computer history for any number of operations,        *)
(* actions, failures and ends of the process, and any size of the queue:   *)
(* the state a control operation has confirmed, the order of the numbers   *)
(* on disk, and the key of the chunks.                                     *)
(***************************************************************************)
EXTENDS ComputerHistory, SequenceTheorems, WellFoundedInduction, TLAPS

-----------------------------------------------------------------------------
(* What was confirmed holds.                                               *)

\* Operations that change what the user was told.
Changing == {"enable", "disable", "pause", "resume", "delete"}

Flags == enabled \in BOOLEAN /\ paused \in BOOLEAN /\ up \in BOOLEAN

\* Without capture there is no writer, unless an operation is about to stop it.
WriterOK ==
    /\ op \notin {"enable", "disable", "delete"} /\ ~enabled => writer = "none"
    /\ op = "delete" /\ step \in {"persist", "destroy", "forget", "remove"} => writer = "none"

\* While an operation changes the state, nothing is confirmed, and what it has
\* persisted already is what it is going to confirm.
ChangeOK ==
    /\ op \in Changing => told = "unknown"
    /\ op \in {"disable", "delete"} => ~enabled
    /\ op = "disable" /\ step # "persist" => persisted = "off"
    /\ op = "delete" /\ step \in {"destroy", "forget", "remove"} => persisted = "off"
    /\ op = "pause" => persisted = "paused" /\ paused
    /\ op = "resume" => persisted = "on"

\* Some steps belong to one operation, and none outlives the process.
StepOK ==
    /\ step \in {"destroy", "forget", "remove"} => op = "delete"
    /\ step \in {"read", "reading"} => op = "query"
    /\ ~up => op = "none" /\ step = "idle"

Inv == Flags /\ WriterOK /\ ChangeOK /\ StepOK /\ ConfirmedHolds

\* Nothing is captured at first.
LEMMA InitInv == Init => Inv
BY DEF Init, Inv, Flags, WriterOK, ChangeOK, StepOK, Changing, ConfirmedHolds, IsCapturing

\* What an operation, the writer, a dispatch or time does without touching these
\* keeps the invariant.
LEMMA ElsewhereKeeps ==
    ASSUME Inv, UNCHANGED <<persisted, enabled, paused, up, op, step, told>>,
           writer' = writer \/ (writer # "none" /\ writer' \in {"none", "failed"})
    PROVE  Inv'
BY DEF Inv, Flags, WriterOK, ChangeOK, StepOK, Changing, ConfirmedHolds, IsCapturing

\* Of the start of a writer, that it runs or is not there.
LEMMA OpensRuns == ASSUME NEW first, Opens(first) PROVE writer' = "running"
BY DEF Opens

\* A start that fails leaves the thread as it is.
LEMMA OpeningFailsKeeps == OpeningFails => writer' = writer
BY DEF OpeningFails, thread

\* An operation that is asked for begins at its first step.
LEMMA AsksBegins ==
    ASSUME NEW o, NEW s, Asks(o, s)
    PROVE  up /\ op = "none" /\ op' = o /\ step' = s /\ up' = up
BY DEF Asks

\* An operation that goes on keeps its name.
LEMMA GotoGoes ==
    ASSUME NEW s, Goto(s)
    PROVE  op' = op /\ step' = s /\ up' = up
BY DEF Goto

\* An operation that fails says nothing.
LEMMA FailsReturns == Fails => op' = "none" /\ step' = "idle" /\ up' = up /\ told' = told
BY DEF Fails, Returns

\* One that succeeds says what now holds.
LEMMA ConfirmsReturns ==
    ASSUME NEW state, Confirms(state)
    PROVE  op' = "none" /\ step' = "idle" /\ up' = up /\ told' = state
BY DEF Confirms, Returns

\* The calls.
LEMMA CallKeeps ==
    ASSUME Inv, Call
    PROVE  Inv'
<1> USE DEF Inv, Flags, WriterOK, ChangeOK, StepOK, Changing, ConfirmedHolds, IsCapturing
<1>1. CASE Enable
  <2>1. writer' \in {writer, "running"} /\ up /\ op = "none" /\ UNCHANGED <<persisted, enabled, up>>
        /\ paused' = FALSE /\ told' = "unknown"
    BY <1>1, OpensRuns, OpeningFailsKeeps, AsksBegins DEF Enable
  <2>2. \/ op' = "enable" /\ step' = "persist"
        \/ op' = "none" /\ step' = "idle" /\ writer' = writer
    BY <1>1, OpeningFailsKeeps, AsksBegins DEF Enable
  <2> QED
    BY <2>1, <2>2
<1>2. CASE Disable
  BY <1>2 DEF Disable, Asks, disk, thread
<1>3. CASE Pause
  <2>1. writer' = writer /\ UNCHANGED <<enabled, up>> /\ up /\ op = "none"
    BY <1>3, AsksBegins DEF Pause, thread
  <2>2. \/ op' = "pause" /\ step' = "send" /\ persisted' = "paused" /\ paused' = TRUE
           /\ told' = "unknown"
        \/ op' = "none" /\ step' = "idle" /\ UNCHANGED <<persisted, paused, told>>
    BY <1>3, AsksBegins DEF Pause, PauseState
  <2> QED
    BY <2>1, <2>2
<1>4. CASE Resume
  BY <1>4 DEF Resume, Asks, manager, thread
<1>5. CASE Mark
  BY <1>5 DEF Mark, Asks, disk, manager, thread
<1>6. CASE Delete
  BY <1>6 DEF Delete, Asks, disk, thread
<1>7. CASE Query
  BY <1>7 DEF Query, Asks, disk, manager, thread
<1>8. CASE QueryStopped
  BY <1>8 DEF QueryStopped, Asks, disk, thread
<1>9. CASE Drop
  BY <1>9 DEF Drop, disk, manager, thread
<1> QED
  BY <1>1, <1>2, <1>3, <1>4, <1>5, <1>6, <1>7, <1>8, <1>9 DEF Call

\* The steps of an operation.
LEMMA ControlKeeps ==
    ASSUME Inv, ControlStep
    PROVE  Inv'
<1> USE DEF Inv, Flags, WriterOK, ChangeOK, StepOK, Changing, ConfirmedHolds, IsCapturing
<1>1. CASE Send
  BY <1>1 DEF Send, disk
<1>2. CASE Flush \/ AskSnapshot \/ Stop
  BY <1>2 DEF Flush, AskSnapshot, Stop, Requests, disk, manager
<1>3. CASE Flushed
  <2>1. step = "wait" /\ UNCHANGED <<enabled, writer>>
    BY <1>3 DEF Flushed, thread
  <2>2. CASE /\ op \in {"disable", "delete"} /\ Goto("stop")
             /\ UNCHANGED <<persisted, paused, told>>
    <3>1. op' = op /\ step' = "stop" /\ up' = up
      BY <2>2, GotoGoes
    <3> QED
      BY <2>1, <2>2, <3>1
  <2>3. CASE Confirms("paused") /\ op = "pause" /\ UNCHANGED <<persisted, paused>>
    BY <2>1, <2>3, ConfirmsReturns
  <2>4. CASE Fails /\ op = "pause" /\ paused' = FALSE /\ persisted' \in {"on", persisted}
    BY <2>1, <2>4, FailsReturns
  <2>5. CASE Confirms("on") /\ op = "resume" /\ paused' = FALSE /\ UNCHANGED persisted
    BY <2>1, <2>5, ConfirmsReturns
  <2>6. CASE Fails /\ op = "resume" /\ persisted' \in {"paused", persisted} /\ UNCHANGED paused
    BY <2>1, <2>6, FailsReturns
  <2>7. CASE Fails /\ op \in {"flush", "query"} /\ UNCHANGED <<persisted, paused>>
    <3>1. op' = "none" /\ step' = "idle" /\ up' = up /\ told' = told
      BY <2>7, FailsReturns
    <3> QED
      BY <2>1, <2>7, <3>1
  <2> QED
    BY <1>3, <2>2, <2>3, <2>4, <2>5, <2>6, <2>7 DEF Flushed
<1>4. CASE Snapshot
  BY <1>4 DEF Snapshot, Fails, Returns, disk, manager, thread
<1>5. CASE Joined
  <2>1. step = "join" /\ writer = "none" /\ UNCHANGED <<persisted, writer>>
    BY <1>5 DEF Joined, disk, thread
  <2>2. CASE op = "enable" /\ Fails /\ UNCHANGED <<enabled, paused>>
    BY <2>1, <2>2, FailsReturns
  <2>3. CASE op = "disable" /\ enabled' = FALSE /\ paused' = FALSE /\ Confirms("off")
    BY <2>1, <2>3, ConfirmsReturns
  <2>4. CASE op = "delete" /\ Goto("persist") /\ UNCHANGED <<enabled, paused, told>>
    BY <2>1, <2>4, GotoGoes
  <2> QED
    BY <1>5, <2>2, <2>3, <2>4 DEF Joined
<1>6. CASE Dropped
  BY <1>6 DEF Dropped, Gone
<1>7. CASE EnablePersist
  BY <1>7 DEF EnablePersist, Goto, Confirms, Returns, thread
<1>8. CASE DisablePersist
  <2>1. op = "disable" /\ step = "persist" /\ writer' = writer
    BY <1>8 DEF DisablePersist, thread
  <2>2. CASE /\ persisted' = "off" /\ Goto("send")
             /\ UNCHANGED <<paused, told, enabled>>
    BY <2>1, <2>2, GotoGoes
  <2>3. CASE /\ persisted' = "off" /\ writer = "none" /\ paused' = FALSE /\ Confirms("off")
             /\ UNCHANGED enabled
    BY <2>1, <2>3, ConfirmsReturns
  <2>4. CASE enabled' = (writer # "none") /\ Fails /\ UNCHANGED <<persisted, paused>>
    BY <2>1, <2>4, FailsReturns
  <2> QED
    BY <1>8, <2>2, <2>3, <2>4 DEF DisablePersist
<1>9. CASE DeletePersist
  BY <1>9 DEF DeletePersist, Goto, Fails, Returns, manager, thread
<1>10. CASE DestroyKey \/ ForgetKey \/ RemoveChunk
  <2>1. step \in {"destroy", "forget", "remove"}
        /\ UNCHANGED <<persisted, enabled, paused, writer>>
    BY <1>10 DEF DestroyKey, ForgetKey, RemoveChunk, disk, manager, thread
  <2>2. CASE \E s \in {"forget", "remove"} : Goto(s) /\ UNCHANGED told
    BY <2>1, <2>2, GotoGoes
  <2>3. CASE Fails
    BY <2>1, <2>3, FailsReturns
  <2> QED
    BY <1>10, <2>2, <2>3 DEF DestroyKey, ForgetKey, RemoveChunk
<1>11. CASE Removed
  BY <1>11 DEF Removed, Returns, disk, thread
<1> QED
  BY <1>1, <1>2, <1>3, <1>4, <1>5, <1>6, <1>7, <1>8, <1>9, <1>10, <1>11 DEF ControlStep

\* The writer and the dispatches stop nothing but the writer.
LEMMA ThreadsKeep ==
    ASSUME Inv, GiveUp \/ WriterStep \/ Maintain \/ \E d \in Dispatches : DispatchStep(d)
    PROVE  Inv'
<1>1. UNCHANGED <<persisted, enabled, paused, up, op, step, told>>
  BY DEF GiveUp, WriterStep, WriteEvent, DropEvent, AnswerFlush, AnswerSnapshot, Shutdown,
         Maintain, DispatchStep, Begin, Name, SendStarted, Finish, SendCompleted,
         disk, manager, control
<1>2. writer' = writer \/ (writer # "none" /\ writer' \in {"none", "failed"})
  BY DEF GiveUp, WriterStep, WriteEvent, DropEvent, AnswerFlush, AnswerSnapshot, Shutdown,
         Maintain, DispatchStep, Begin, Name, SendStarted, Finish, SendCompleted,
         Terminal, thread
<1> QED
  BY <1>1, <1>2, ElsewhereKeeps

\* The end of a process and the start of the next.
LEMMA ProcessKeeps ==
    ASSUME Inv, Crash \/ Restart \/ Reinstall
    PROVE  Inv'
<1> USE DEF Inv, Flags, WriterOK, ChangeOK, StepOK, Changing, ConfirmedHolds, IsCapturing
<1>1. CASE Crash
  BY <1>1 DEF Crash, Gone
<1>2. CASE Restart
  <2>1. /\ ~up /\ up' = TRUE /\ paused' = (persisted = "paused")
        /\ UNCHANGED <<persisted, op, step, told>>
    BY <1>2 DEF Restart, control
  <2>2. CASE persisted = "off" /\ UNCHANGED <<enabled, writer>>
    BY <2>1, <2>2
  <2>3. CASE persisted # "off" /\ writer' = "running" /\ enabled' = TRUE
    BY <2>1, <2>3
  <2>4. CASE persisted # "off" /\ UNCHANGED <<enabled, writer>>
    BY <2>1, <2>4
  <2> QED
    BY <1>2, <2>2, <2>3, <2>4, OpensRuns, OpeningFailsKeeps DEF Restart, thread
<1>3. CASE Reinstall
  BY <1>3 DEF Reinstall, manager, thread, control
<1> QED
  BY <1>1, <1>2, <1>3

\* Every step keeps the invariant.
LEMMA InvStep == Inv /\ [Next]_vars => Inv'
<1> SUFFICES ASSUME Inv, [Next]_vars PROVE Inv'
  OBVIOUS
<1>1. CASE (Age \/ RotationDue) \/ UNCHANGED vars
  <2>1. UNCHANGED <<persisted, enabled, paused, up, op, step, told, writer>>
    BY <1>1 DEF Age, RotationDue, vars, disk, manager, thread, control
  <2> QED
    BY <2>1, ElsewhereKeeps
<1> QED
  BY <1>1, CallKeeps, ControlKeeps, ThreadsKeep, ProcessKeeps DEF Next

\* HistoryManager: a pause, a resumption, an end of capture or a deletion that was
\* confirmed to the user is on disk and in force, after every crash and restart,
\* until the next operation changes it.
THEOREM ConfirmedStateHolds == Spec => []ConfirmedHolds
<1>1. Inv => ConfirmedHolds
  BY DEF Inv
<1> QED
  BY <1>1, InitInv, InvStep, PTL DEF Spec

-----------------------------------------------------------------------------
(* Chunks and their numbers.                                               *)

\* Every non-empty set of numbers has a least element.
LEMMA LeastOf ==
    ASSUME NEW T \in SUBSET Nat, T # {}
    PROVE  \E n \in T : \A m \in T : n <= m
<1> DEFINE R == {ss \in Nat \X Nat : ss[1] < ss[2]}
<1>1. IsWellFoundedOn(R, Nat)
  BY NatLessThanWellFounded DEF OpToRel
<1>2. \A m, n \in Nat : <<m, n>> \in R <=> m < n
  OBVIOUS
<1> HIDE DEF R
<1>3. T \subseteq Nat
  OBVIOUS
<1>4. \E n \in T : \A m \in T : ~(<<m, n>> \in R)
  BY <1>1, <1>3, WFMin, Zenon
<1>5. PICK n \in T : \A m \in T : ~(<<m, n>> \in R)
  BY <1>4
<1>6. \A m \in T : ~(m < n)
  BY <1>2, <1>3, <1>5
<1> QED
  BY <1>2, <1>3, <1>6

\* Of a set of numbers with a bound, Highest is the highest, 0 if there is none.
LEMMA HighestIs ==
    ASSUME NEW S \in SUBSET Nat, NEW b \in Nat, \A n \in S : n <= b
    PROVE  /\ Highest(S) \in Nat
           /\ S # {} => Highest(S) \in S
           /\ \A n \in S : n <= Highest(S)
<1>1. CASE S = {}
  BY <1>1 DEF Highest
<1>2. CASE S # {}
  <2> DEFINE T == {b - n : n \in S}
  <2>1. T \in SUBSET Nat /\ T # {}
    BY <1>2
  <2>2. PICK t \in T : \A m \in T : t <= m
    BY <2>1, LeastOf
  <2>3. PICK h \in S : t = b - h
    OBVIOUS
  <2>4. \A n \in S : n <= h
    <3> TAKE n \in S
    <3>1. b - n \in T
      OBVIOUS
    <3> QED
      BY <3>1, <2>2, <2>3
  <2>5. Highest(S) \in S /\ \A n \in S : n <= Highest(S)
    BY <1>2, <2>4 DEF Highest
  <2> QED
    BY <2>5
<1> QED
  BY <1>1, <1>2

\* A number on disk is an item of a chunk.
LEMMA NumbersAre ==
    ASSUME NEW cs, NEW n
    PROVE  n \in Numbers(cs) <=>
             \E i \in DOMAIN cs : \E a \in DOMAIN cs[i].items : n = cs[i].items[a]
BY DEF Numbers, Range

IsStore(cs) == DOMAIN cs \subseteq Places /\ cs \in [DOMAIN cs -> Chunks]
IsBounded(cs) ==
    \E b \in Nat : (\A i \in DOMAIN cs : i <= b) /\ \A n \in Numbers(cs) : n <= b
HasKey(cs, k) == \A i \in DOMAIN cs : cs[i].of = k

StoreOK(cs) == IsStore(cs) /\ IsBounded(cs) /\ InOrder(cs)

\* The newest chunk is the last in the order of creation, if there is one.
LEMMA NewestIs ==
    ASSUME NEW cs, StoreOK(cs)
    PROVE  /\ Newest(cs) \in Nat
           /\ DOMAIN cs # {} => Newest(cs) \in DOMAIN cs
           /\ \A i \in DOMAIN cs : i <= Newest(cs)
BY HighestIs DEF StoreOK, IsStore, IsBounded, Places, Newest

\* The highest number on disk is a number, and no other is higher.
LEMMA HighestNumberIs ==
    ASSUME NEW cs, StoreOK(cs)
    PROVE  /\ Numbers(cs) \subseteq Nat \ {0}
           /\ Highest(Numbers(cs)) \in Nat
           /\ \A n \in Numbers(cs) : n <= Highest(Numbers(cs))
<1>1. Numbers(cs) \subseteq Nat \ {0}
  <2> SUFFICES ASSUME NEW n \in Numbers(cs) PROVE n \in Nat \ {0}
    OBVIOUS
  <2>1. PICK i \in DOMAIN cs : \E a \in DOMAIN cs[i].items : n = cs[i].items[a]
    BY NumbersAre
  <2>2. cs[i].items \in Seq(Nat \ {0})
    BY DEF StoreOK, IsStore, Chunks
  <2> QED
    BY <2>1, <2>2
<1> QED
  BY <1>1, HighestIs DEF StoreOK, IsBounded

\* Chunks that are removed take their numbers with them.
LEMMA RestrictKeeps ==
    ASSUME NEW cs, StoreOK(cs), NEW D \in SUBSET (DOMAIN cs)
    PROVE  /\ StoreOK(Restrict(cs, D))
           /\ Numbers(Restrict(cs, D)) \subseteq Numbers(cs)
           /\ DOMAIN Restrict(cs, D) = D
           /\ \A k : HasKey(cs, k) => HasKey(Restrict(cs, D), k)
<1> DEFINE ds == Restrict(cs, D)
<1>1. DOMAIN ds = D /\ \A i \in D : ds[i] = cs[i]
  BY DEF Restrict
<1>2. IsStore(ds)
  BY DEF StoreOK, IsStore, Restrict
<1> HIDE DEF ds
<1>3. Numbers(ds) \subseteq Numbers(cs)
  BY <1>1, NumbersAre
<1>4. IsBounded(ds)
  BY <1>1, <1>3 DEF StoreOK, IsBounded
<1>5. InOrder(ds)
  BY <1>1 DEF StoreOK, InOrder
<1>6. \A k : HasKey(cs, k) => HasKey(ds, k)
  BY <1>1 DEF HasKey
<1> QED
  BY <1>1, <1>2, <1>3, <1>4, <1>5, <1>6 DEF StoreOK, ds

\* A new chunk comes last.
LEMMA CreatedKeeps ==
    ASSUME NEW cs, StoreOK(cs), NEW k \in Keys, NEW torn \in BOOLEAN, NEW items,
           items = <<>> \/ \E n \in Nat \ {0} : items = <<n>> /\ \A m \in Numbers(cs) : m < n
    PROVE  LET ds == Created(cs, Chunk(k, items, torn)) IN
           /\ StoreOK(ds)
           /\ Numbers(ds) \subseteq Numbers(cs) \cup Range(items)
           /\ DOMAIN ds # {}
           /\ HasKey(cs, k) => HasKey(ds, k)
<1> DEFINE c == Chunk(k, items, torn)
           ds == Created(cs, c)
           w == Newest(cs) + 1
<1>0. items \in Seq(Nat \ {0}) /\ c.items = items /\ c.of = k /\ c \in Chunks
  <2>1. items \in Seq(Nat \ {0})
    <3>1. CASE items = <<>>
      BY <3>1
    <3>2. ASSUME NEW n \in Nat \ {0}, items = <<n>> PROVE items \in Seq(Nat \ {0})
      BY <3>2
    <3> QED
      BY <3>1, <3>2
  <2>2. c = [of |-> k, items |-> items, torn |-> torn, aged |-> FALSE]
    BY DEF Chunk
  <2> QED
    BY <2>1, <2>2 DEF Chunks
<1>1. Newest(cs) \in Nat /\ \A i \in DOMAIN cs : i <= Newest(cs)
  BY NewestIs
<1>2. DOMAIN cs \subseteq Nat \ {0} /\ w \in Nat \ {0} /\ \A i \in DOMAIN cs : i < w
  BY <1>1 DEF StoreOK, IsStore, Places
<1>3. /\ DOMAIN ds = DOMAIN cs \cup {w} /\ ds[w] = c
      /\ \A i \in DOMAIN cs : ds[i] = cs[i]
      /\ ds = [i \in DOMAIN ds |-> ds[i]]
  BY <1>2 DEF Created
<1> HIDE DEF ds, w, c
<1>4. IsStore(ds)
  BY <1>0, <1>2, <1>3 DEF StoreOK, IsStore, Places
<1>5. Numbers(ds) \subseteq Numbers(cs) \cup Range(items)
  <2> SUFFICES ASSUME NEW n \in Numbers(ds) PROVE n \in Numbers(cs) \cup Range(items)
    OBVIOUS
  <2>1. PICK i \in DOMAIN ds : \E a \in DOMAIN ds[i].items : n = ds[i].items[a]
    BY NumbersAre
  <2>2. CASE i \in DOMAIN cs
    BY <1>3, <2>1, <2>2, NumbersAre
  <2>3. CASE i = w
    BY <1>0, <1>3, <2>1, <2>3 DEF Range
  <2> QED
    BY <1>3, <2>2, <2>3
<1>6. IsBounded(ds)
  <2>1. PICK b \in Nat : (\A i \in DOMAIN cs : i <= b) /\ \A n \in Numbers(cs) : n <= b
    BY DEF StoreOK, IsBounded
  <2>2. Numbers(cs) \subseteq Nat
    BY HighestNumberIs
  <2>3. PICK x \in Nat : \A n \in Range(items) : n \in Nat /\ n <= x
    BY DEF Range
  <2>4. w \in Nat
    BY <1>2
  <2>5. (\A i \in DOMAIN ds : i <= b + w + x) /\ \A n \in Numbers(ds) : n <= b + w + x
    BY <1>2, <1>3, <1>5, <2>1, <2>2, <2>3, <2>4
  <2> QED
    BY <2>4, <2>5 DEF IsBounded
<1>7. InOrder(ds)
  <2> SUFFICES ASSUME NEW i \in DOMAIN ds, NEW j \in DOMAIN ds,
                      NEW a \in DOMAIN ds[i].items, NEW b \in DOMAIN ds[j].items,
                      i < j \/ (i = j /\ a < b)
               PROVE  ds[i].items[a] < ds[j].items[b]
    BY DEF InOrder
  <2>1. CASE i \in DOMAIN cs /\ j \in DOMAIN cs
    BY <1>3, <2>1 DEF StoreOK, InOrder
  <2>2. CASE i \in DOMAIN cs /\ j = w
    <3>1. ds[i].items[a] \in Numbers(cs)
      BY <1>3, <2>2, NumbersAre
    <3> QED
      BY <1>0, <1>3, <2>2, <3>1
  <2>3. CASE i = w
    <3>1. j = w /\ a < b
      BY <1>2, <1>3, <2>3
    <3> QED
      BY <1>0, <1>3, <2>3, <3>1
  <2> QED
    BY <1>3, <2>1, <2>2, <2>3
<1>8. HasKey(cs, k) => HasKey(ds, k)
  BY <1>0, <1>3 DEF HasKey
<1> QED
  BY <1>3, <1>4, <1>5, <1>6, <1>7, <1>8 DEF StoreOK, ds, c

\* An event that is written comes after all others.
LEMMA AppendedKeeps ==
    ASSUME NEW cs, StoreOK(cs), DOMAIN cs # {}, NEW n \in Nat \ {0},
           \A m \in Numbers(cs) : m < n
    PROVE  /\ StoreOK(Appended(cs, n))
           /\ Numbers(Appended(cs, n)) \subseteq Numbers(cs) \cup {n}
           /\ DOMAIN Appended(cs, n) = DOMAIN cs
           /\ \A k : HasKey(cs, k) => HasKey(Appended(cs, n), k)
<1> DEFINE ds == Appended(cs, n)
           w == Newest(cs)
<1>1. w \in DOMAIN cs /\ (\A i \in DOMAIN cs : i <= w) /\ DOMAIN cs \subseteq Nat \ {0}
  BY NewestIs DEF StoreOK, IsStore, Places
<1>2. cs \in [DOMAIN cs -> Chunks] /\ cs[w].items \in Seq(Nat \ {0})
  BY <1>1 DEF StoreOK, IsStore, Chunks
<1>3. /\ DOMAIN ds = DOMAIN cs
      /\ \A i \in DOMAIN cs : i # w => ds[i] = cs[i]
      /\ ds[w] = [cs[w] EXCEPT !.items = Append(cs[w].items, n), !.aged = FALSE]
      /\ ds = [i \in DOMAIN ds |-> ds[i]]
  BY <1>1, <1>2 DEF Appended
<1>4. /\ ds[w].items = Append(cs[w].items, n) /\ ds[w].of = cs[w].of
      /\ ds[w] \in Chunks
  <2>1. cs[w] \in Chunks /\ Append(cs[w].items, n) \in Seq(Nat \ {0})
    BY <1>1, <1>2, AppendProperties
  <2> QED
    BY <1>3, <2>1 DEF Chunks
<1>5. /\ DOMAIN ds[w].items = 1..(Len(cs[w].items) + 1)
      /\ DOMAIN cs[w].items = 1..Len(cs[w].items)
      /\ \A a \in DOMAIN cs[w].items : ds[w].items[a] = cs[w].items[a]
      /\ ds[w].items[Len(cs[w].items) + 1] = n
      /\ Len(cs[w].items) \in Nat
  BY <1>2, <1>4
<1> HIDE DEF ds, w
<1>6. IsStore(ds)
  BY <1>2, <1>3, <1>4 DEF StoreOK, IsStore
<1>7. \A i \in DOMAIN ds : \A a \in DOMAIN ds[i].items :
         \/ a \in DOMAIN cs[i].items /\ ds[i].items[a] = cs[i].items[a]
            /\ ds[i].items[a] \in Numbers(cs)
         \/ i = w /\ a = Len(cs[w].items) + 1 /\ ds[i].items[a] = n
  <2> SUFFICES ASSUME NEW i \in DOMAIN ds, NEW a \in DOMAIN ds[i].items
               PROVE  \/ a \in DOMAIN cs[i].items /\ ds[i].items[a] = cs[i].items[a]
                      \/ i = w /\ a = Len(cs[w].items) + 1 /\ ds[i].items[a] = n
    BY <1>3, NumbersAre
  <2>1. CASE i = w
    BY <1>5, <2>1
  <2> QED
    BY <1>3, <2>1
<1>8. Numbers(ds) \subseteq Numbers(cs) \cup {n}
  BY <1>7, NumbersAre
<1>9. IsBounded(ds)
  <2>1. PICK b \in Nat : (\A i \in DOMAIN cs : i <= b) /\ \A m \in Numbers(cs) : m <= b
    BY DEF StoreOK, IsBounded
  <2>2. Numbers(cs) \subseteq Nat
    BY HighestNumberIs
  <2>3. (\A i \in DOMAIN ds : i <= b + n) /\ \A m \in Numbers(ds) : m <= b + n
    BY <1>1, <1>3, <1>8, <2>1, <2>2
  <2> QED
    BY <2>3 DEF IsBounded
<1>10. InOrder(ds)
  <2> SUFFICES ASSUME NEW i \in DOMAIN ds, NEW j \in DOMAIN ds,
                      NEW a \in DOMAIN ds[i].items, NEW b \in DOMAIN ds[j].items,
                      i < j \/ (i = j /\ a < b)
               PROVE  ds[i].items[a] < ds[j].items[b]
    BY DEF InOrder
  <2>1. CASE a \in DOMAIN cs[i].items /\ b \in DOMAIN cs[j].items
             /\ ds[i].items[a] = cs[i].items[a] /\ ds[j].items[b] = cs[j].items[b]
    BY <1>3, <2>1 DEF StoreOK, InOrder
  <2>2. CASE ds[i].items[a] \in Numbers(cs) /\ ds[j].items[b] = n
    BY <2>2
  <2>3. CASE i = w /\ a = Len(cs[w].items) + 1
    <3>1. j \in DOMAIN cs /\ j <= w /\ w \in Nat /\ j \in Nat
      BY <1>1, <1>3
    <3>2. j = w /\ b \in 1..(Len(cs[w].items) + 1) /\ a < b
      BY <1>5, <2>3, <3>1
    <3> QED
      BY <1>5, <2>3, <3>2
  <2> QED
    BY <1>7, <2>1, <2>2, <2>3
<1>11. \A k : HasKey(cs, k) => HasKey(ds, k)
  BY <1>3, <1>4 DEF HasKey
<1> QED
  BY <1>3, <1>6, <1>8, <1>9, <1>10, <1>11 DEF StoreOK, ds

\* A chunk that is torn or grows old keeps its numbers.
LEMMA SameItemsKeep ==
    ASSUME NEW cs, StoreOK(cs), NEW ds \in [DOMAIN cs -> Chunks],
           \A i \in DOMAIN cs : ds[i].items = cs[i].items /\ ds[i].of = cs[i].of
    PROVE  /\ StoreOK(ds)
           /\ Numbers(ds) \subseteq Numbers(cs)
           /\ DOMAIN ds = DOMAIN cs
           /\ \A k : HasKey(cs, k) => HasKey(ds, k)
<1>1. DOMAIN ds = DOMAIN cs
  OBVIOUS
<1>2. Numbers(ds) \subseteq Numbers(cs)
  BY <1>1, NumbersAre
<1>3. IsStore(ds)
  BY <1>1 DEF StoreOK, IsStore
<1>4. IsBounded(ds)
  BY <1>1, <1>2 DEF StoreOK, IsBounded
<1>5. InOrder(ds)
  BY <1>1 DEF StoreOK, InOrder
<1> QED
  BY <1>1, <1>2, <1>3, <1>4, <1>5 DEF StoreOK, HasKey

\* A chunk that is torn is the newest, and is read up to its last item.
LEMMA TornKeeps ==
    ASSUME NEW cs, StoreOK(cs), DOMAIN cs # {}
    PROVE  /\ StoreOK(Torn(cs))
           /\ Numbers(Torn(cs)) \subseteq Numbers(cs)
           /\ DOMAIN Torn(cs) = DOMAIN cs
           /\ \A k : HasKey(cs, k) => HasKey(Torn(cs), k)
<1>1. Newest(cs) \in DOMAIN cs /\ cs \in [DOMAIN cs -> Chunks] /\ cs[Newest(cs)] \in Chunks
  BY NewestIs DEF StoreOK, IsStore
<1>2. Torn(cs) \in [DOMAIN cs -> Chunks]
  BY <1>1 DEF Torn, Chunks
<1>3. \A i \in DOMAIN cs : Torn(cs)[i].items = cs[i].items /\ Torn(cs)[i].of = cs[i].of
  BY <1>1 DEF Torn, Chunks
<1> QED
  BY <1>2, <1>3, SameItemsKeep

-----------------------------------------------------------------------------
(* The queue and its numbers.                                              *)

\* The events in the queue come one after the other, after those on disk, and
\* before those that are still to come.
QueueFits(q, n, stored) ==
    /\ \A m \in stored : m < n
    /\ \A i \in DOMAIN q : q[i].kind = "event" =>
          /\ q[i].sequence # 0 /\ q[i].sequence < n
          /\ \A m \in stored : m < q[i].sequence
          /\ \A j \in DOMAIN q : i < j /\ q[j].kind = "event" =>
                q[i].sequence < q[j].sequence

\* The next event takes its place.
LEMMA FitsEvent ==
    ASSUME NEW q \in Seq(Messages), NEW n \in Nat \ {0}, NEW stored \in SUBSET Nat,
           NEW m \in Nat, n <= m, QueueFits(q, n, stored)
    PROVE  /\ Append(q, Event(m)) \in Seq(Messages)
           /\ QueueFits(Append(q, Event(m)), m + 1, stored)
<1> DEFINE r == Append(q, Event(m))
<1>1. Event(m) \in Messages /\ Event(m).kind = "event" /\ Event(m).sequence = m
  BY DEF Event, Messages
<1>2. /\ r \in Seq(Messages) /\ DOMAIN q = 1..Len(q) /\ DOMAIN r = 1..(Len(q) + 1)
      /\ Len(q) \in Nat /\ r[Len(q) + 1] = Event(m)
      /\ \A i \in DOMAIN q : r[i] = q[i] /\ i \in DOMAIN r
  BY <1>1, AppendProperties
<1>3. \A i \in DOMAIN q : q[i].sequence \in Nat
  <2>1. \A i \in DOMAIN q : q[i] \in Messages
    OBVIOUS
  <2> QED
    BY <2>1 DEF Messages
<1> HIDE DEF r
<1>4. \A k \in stored : k < m + 1 /\ k < m
  <2>1. \A k \in stored : k \in Nat /\ k < n
    BY DEF QueueFits
  <2> QED
    BY <2>1
<1>5. ASSUME NEW i \in DOMAIN r, r[i].kind = "event"
      PROVE  /\ r[i].sequence # 0 /\ r[i].sequence < m + 1
             /\ \A k \in stored : k < r[i].sequence
             /\ \A j \in DOMAIN r : i < j /\ r[j].kind = "event" =>
                   r[i].sequence < r[j].sequence
  <2>1. CASE i = Len(q) + 1
    BY <1>1, <1>2, <1>4, <2>1
  <2>2. CASE i \in DOMAIN q
    <3>1. q[i].kind = "event" /\ r[i].sequence = q[i].sequence /\ q[i].sequence < m
          /\ q[i].sequence # 0 /\ \A k \in stored : k < q[i].sequence
      BY <1>2, <1>3, <1>5, <2>2 DEF QueueFits
    <3>2. ASSUME NEW j \in DOMAIN r, i < j, r[j].kind = "event"
          PROVE  r[i].sequence < r[j].sequence
      <4>1. CASE j = Len(q) + 1
        BY <1>1, <1>2, <3>1, <4>1
      <4>2. CASE j \in DOMAIN q
        BY <1>2, <2>2, <3>1, <3>2, <4>2 DEF QueueFits
      <4> QED
        BY <1>2, <4>1, <4>2
    <3> QED
      BY <1>3, <2>2, <3>1, <3>2
  <2> QED
    BY <1>2, <2>1, <2>2
<1> QED
  BY <1>2, <1>4, <1>5 DEF QueueFits, r

\* So does a number that is never used.
LEMMA FitsLater ==
    ASSUME NEW q \in Seq(Messages), NEW n \in Nat \ {0}, NEW stored \in SUBSET Nat,
           NEW m \in Nat, n <= m, QueueFits(q, n, stored)
    PROVE  QueueFits(q, m, stored)
<1>1. \A i \in DOMAIN q : q[i].sequence \in Nat
  <2>1. \A i \in DOMAIN q : q[i] \in Messages
    OBVIOUS
  <2> QED
    BY <2>1 DEF Messages
<1>2. \A k \in stored : k \in Nat /\ k < n
  BY DEF QueueFits
<1>3. ASSUME NEW k \in Nat, k < n PROVE k < m
  BY <1>3
<1> QED
  BY <1>1, <1>2, <1>3 DEF QueueFits

\* A request is no event.
LEMMA FitsRequest ==
    ASSUME NEW q \in Seq(Messages), NEW n \in Nat \ {0}, NEW stored \in SUBSET Nat,
           NEW k \in {"flush", "read", "shutdown"}
    PROVE  /\ Append(q, Request(k)) \in Seq(Messages)
           /\ QueueFits(q, n, stored) => QueueFits(Append(q, Request(k)), n, stored)
<1> DEFINE r == Append(q, Request(k))
<1>1. Request(k) \in Messages /\ Request(k).kind # "event"
  BY DEF Request, Messages
<1>2. /\ r \in Seq(Messages) /\ DOMAIN q = 1..Len(q) /\ DOMAIN r = 1..(Len(q) + 1)
      /\ Len(q) \in Nat /\ r[Len(q) + 1] = Request(k)
      /\ \A i \in DOMAIN q : r[i] = q[i] /\ i \in DOMAIN r
  BY <1>1, AppendProperties
<1> HIDE DEF r
<1>3. \A i \in DOMAIN r : r[i].kind = "event" => i \in DOMAIN q /\ r[i] = q[i]
  BY <1>1, <1>2
<1>4. QueueFits(q, n, stored) => QueueFits(r, n, stored)
  BY <1>3 DEF QueueFits
<1> QED
  BY <1>2, <1>4 DEF r

\* What the writer takes off the queue it may write.
LEMMA FitsTail ==
    ASSUME NEW q \in Seq(Messages), q # <<>>, NEW n \in Nat \ {0},
           NEW stored \in SUBSET Nat, NEW then \in SUBSET Nat
    PROVE  /\ Tail(q) \in Seq(Messages)
           /\ QueueFits(q, n, stored) /\ then \subseteq stored => QueueFits(Tail(q), n, then)
           /\ /\ QueueFits(q, n, stored) /\ Head(q).kind = "event"
              /\ then \subseteq stored \cup {Head(q).sequence}
              => QueueFits(Tail(q), n, then)
<1> DEFINE r == Tail(q)
<1>1. /\ r \in Seq(Messages) /\ DOMAIN q = 1..Len(q) /\ DOMAIN r = 1..(Len(q) - 1)
      /\ Len(q) \in Nat \ {0} /\ Head(q) = q[1]
      /\ \A i \in DOMAIN r : r[i] = q[i + 1]
  BY HeadTailProperties
<1> HIDE DEF r
<1>2. \A i \in DOMAIN r : i + 1 \in DOMAIN q /\ r[i] = q[i + 1] /\ 1 < i + 1 /\ i \in Nat
  BY <1>1
<1>3. 1 \in DOMAIN q
  BY <1>1
<1>4. ASSUME QueueFits(q, n, stored),
             \/ then \subseteq stored
             \/ Head(q).kind = "event" /\ then \subseteq stored \cup {Head(q).sequence}
      PROVE  QueueFits(r, n, then)
  <2>1. \A m \in then : m < n
    BY <1>1, <1>3, <1>4 DEF QueueFits
  <2>2. ASSUME NEW i \in DOMAIN r, r[i].kind = "event"
        PROVE  /\ r[i].sequence # 0 /\ r[i].sequence < n
               /\ \A m \in then : m < r[i].sequence
               /\ \A j \in DOMAIN r : i < j /\ r[j].kind = "event" =>
                     r[i].sequence < r[j].sequence
    <3>1. /\ r[i].sequence # 0 /\ r[i].sequence < n
          /\ \A m \in stored : m < r[i].sequence
          /\ Head(q).kind = "event" => Head(q).sequence < r[i].sequence
      BY <1>1, <1>2, <1>3, <1>4, <2>2 DEF QueueFits
    <3>2. ASSUME NEW j \in DOMAIN r, i < j, r[j].kind = "event"
          PROVE  r[i].sequence < r[j].sequence
      <4>1. i + 1 < j + 1
        BY <1>2, <3>2
      <4> QED
        BY <1>2, <1>4, <2>2, <3>2, <4>1 DEF QueueFits
    <3> QED
      BY <1>4, <3>1, <3>2
  <2> QED
    BY <2>1, <2>2 DEF QueueFits
<1> QED
  BY <1>1, <1>4 DEF r

\* Whoever waits for an answer changes nothing else.
LEMMA FitsHeard ==
    ASSUME NEW q \in Seq(Messages), NEW n \in Nat \ {0}, NEW stored \in SUBSET Nat
    PROVE  LET r == [i \in DOMAIN q |-> [q[i] EXCEPT !.heard = FALSE]] IN
           /\ r \in Seq(Messages) /\ Len(r) = Len(q)
           /\ \A i \in DOMAIN r : i \in DOMAIN q /\ r[i].kind = q[i].kind
           /\ QueueFits(q, n, stored) => QueueFits(r, n, stored)
<1> DEFINE r == [i \in DOMAIN q |-> [q[i] EXCEPT !.heard = FALSE]]
<1>1. DOMAIN q = 1..Len(q) /\ Len(q) \in Nat /\ \A i \in DOMAIN q : q[i] \in Messages
  OBVIOUS
<1>2. \A i \in DOMAIN q : [q[i] EXCEPT !.heard = FALSE] \in Messages
  BY <1>1 DEF Messages
<1>3. DOMAIN r = DOMAIN q /\ r \in Seq(Messages) /\ Len(r) = Len(q)
  BY <1>1, <1>2
<1>4. \A i \in DOMAIN q : r[i].kind = q[i].kind /\ r[i].sequence = q[i].sequence
  BY <1>1 DEF Messages
<1> HIDE DEF r
<1>5. QueueFits(q, n, stored) => QueueFits(r, n, stored)
  BY <1>3, <1>4 DEF QueueFits
<1> QED
  BY <1>3, <1>4, <1>5 DEF r

-----------------------------------------------------------------------------
(* The invariant, and what keeps the chunks in order.                      *)

\* All chunks are encrypted with one key.
OneKey == \E k \in Keys : HasKey(chunks, k)

\* An operation that hands a message to the writer has one.
Waiting == {"send", "flush", "wait", "read", "reading", "stop"}

ThreadOK ==
    /\ writer = "none" => queue = <<>>
    /\ writer = "running" => DOMAIN chunks # {}
    /\ enabled /\ op # "quit" => writer # "none"
    /\ step \in Waiting => writer # "none"
    /\ op = "enable" /\ step = "persist" => writer # "none"
    /\ ~up => ~enabled /\ writer = "none" /\ \A d \in Dispatches : at[d] = "idle"

\* The end of the writer is the last message, and the operation waits for it.
ShutdownIsLast ==
    \A i \in DOMAIN queue : queue[i].kind = "shutdown" => i = Len(queue) /\ step = "join"

QueueOK == writer = "running" => QueueFits(queue, next, Numbers(chunks))

\* Whoever may ask for the key can read it.
KeyOK == writer # "none" \/ (\E d \in Dispatches : at[d] = "start") => reachable

StorageOK == TypeOK /\ StoreOK(chunks) /\ OneKey

\* A key that is loaded or made is a key.
LEMMA LoadedKeyIs ==
    ASSUME key \in Keys \cup {0}, OneKey
    PROVE  /\ LoadedKey \in Keys
           /\ key # 0 /\ reachable => LoadedKey = key
<1>1. PICK k \in Keys : HasKey(chunks, k)
  BY DEF OneKey
<1>2. \E f \in Keys : f # key /\ f # k
  BY DEF Keys
<1>3. \E f \in Keys : f # key /\ \A i \in DOMAIN chunks : chunks[i].of # f
  BY <1>1, <1>2 DEF HasKey
<1>4. FreshKey \in Keys
  BY <1>3 DEF FreshKey
<1> QED
  BY <1>4 DEF LoadedKey

\* A key is made only where there is nothing to read.
LEMMA ReadableHasKey ==
    ASSUME StorageOK, Readable(chunks)
    PROVE  /\ HasKey(chunks, LoadedKey)
           /\ DOMAIN chunks # {} => key \in Keys /\ LoadedKey = key
<1>1. CASE DOMAIN chunks = {}
  BY <1>1 DEF HasKey
<1>2. ASSUME NEW i \in DOMAIN chunks
      PROVE  key \in Keys /\ reachable /\ HasKey(chunks, key)
  <2>1. chunks[i].of = key /\ reachable /\ HasKey(chunks, key)
    BY DEF Readable, HasKey
  <2>2. chunks[i].of \in Keys
    BY DEF OneKey, HasKey, StorageOK
  <2> QED
    BY <2>1, <2>2
<1>3. CASE DOMAIN chunks # {}
  <2>1. key \in Keys /\ reachable /\ HasKey(chunks, key)
    BY <1>2, <1>3
  <2>2. key # 0
    BY <2>1 DEF Keys
  <2> QED
    BY <2>1, <2>2, LoadedKeyIs DEF StorageOK
<1> QED
  BY <1>1, <1>3

\* Chunks that have passed the retention take their numbers with them.
LEMMA PrunedKeeps ==
    ASSUME NEW cs, StoreOK(cs)
    PROVE  /\ StoreOK(Pruned(cs)) /\ Numbers(Pruned(cs)) \subseteq Numbers(cs)
           /\ \A k : HasKey(cs, k) => HasKey(Pruned(cs), k)
BY RestrictKeeps DEF Pruned

\* The newest chunk stays.
LEMMA PrunedButNewestKeeps ==
    ASSUME NEW cs, StoreOK(cs), DOMAIN cs # {}
    PROVE  /\ StoreOK(PrunedButNewest(cs)) /\ Numbers(PrunedButNewest(cs)) \subseteq Numbers(cs)
           /\ DOMAIN PrunedButNewest(cs) # {}
           /\ \A k : HasKey(cs, k) => HasKey(PrunedButNewest(cs), k)
<1> DEFINE D == {i \in DOMAIN cs : ~cs[i].aged \/ i = Newest(cs)}
<1>1. D \in SUBSET DOMAIN cs /\ Newest(cs) \in D
  BY NewestIs
<1> QED
  BY <1>1, RestrictKeeps DEF PrunedButNewest

\* What is left of a chunk that could not be completed has no numbers.
LEMMA UnfinishedKeeps ==
    ASSUME NEW cs, StoreOK(cs), NEW k \in Keys, HasKey(cs, k), NEW ds \in Unfinished(cs, k)
    PROVE  /\ StoreOK(ds) /\ Numbers(ds) \subseteq Numbers(cs) /\ HasKey(ds, k)
           /\ DOMAIN cs # {} => DOMAIN ds # {}
<1>1. CASE ds = cs
  BY <1>1
<1>2. CASE ds = Created(cs, Chunk(k, <<>>, TRUE))
  <2>1. Range(<<>>) = {}
    BY DEF Range
  <2> QED
    BY <1>2, <2>1, CreatedKeeps
<1> QED
  BY <1>1, <1>2 DEF Unfinished

\* A chunk that is complete and empty.
LEMMA EmptyCreated ==
    ASSUME NEW cs, StoreOK(cs), NEW k \in Keys, HasKey(cs, k)
    PROVE  LET ds == Created(cs, Chunk(k, <<>>, FALSE)) IN
           /\ StoreOK(ds) /\ Numbers(ds) \subseteq Numbers(cs) /\ HasKey(ds, k)
           /\ DOMAIN ds # {}
<1>1. Range(<<>>) = {}
  BY DEF Range
<1> QED
  BY <1>1, CreatedKeeps

\* A chunk with one event, which comes after all others.
LEMMA FirstCreated ==
    ASSUME NEW cs, StoreOK(cs), NEW k \in Keys, HasKey(cs, k), NEW n \in Nat \ {0},
           \A m \in Numbers(cs) : m < n
    PROVE  LET ds == Created(cs, Chunk(k, <<n>>, FALSE)) IN
           /\ StoreOK(ds) /\ Numbers(ds) \subseteq Numbers(cs) \cup {n} /\ HasKey(ds, k)
           /\ DOMAIN ds # {}
<1>1. Range(<<n>>) = {n}
  BY DEF Range
<1> QED
  BY <1>1, CreatedKeeps

\* A checkpoint of retention, whether it completes or not, loses no order.
LEMMA CheckpointKeeps ==
    ASSUME StorageOK, DOMAIN chunks # {}
    PROVE  /\ \A cs \in {Rotated, Checkpointed} \cup
                        (IF Rotates THEN Unfinished(chunks, Active.of) ELSE {}) :
                /\ StoreOK(cs) /\ Numbers(cs) \subseteq Numbers(chunks) /\ DOMAIN cs # {}
                /\ \E k \in Keys : HasKey(cs, k)
           /\ Active.of \in Keys
<1> USE DEF StorageOK
<1>1. PICK k \in Keys : HasKey(chunks, k)
  BY DEF OneKey
<1>2. Newest(chunks) \in DOMAIN chunks
  BY NewestIs
<1>3. Active.of = k
  BY <1>1, <1>2 DEF Active, HasKey
<1>4. StoreOK(Rotated) /\ Numbers(Rotated) \subseteq Numbers(chunks) /\ DOMAIN Rotated # {}
      /\ HasKey(Rotated, k)
  BY <1>1, <1>3, EmptyCreated DEF Rotated
<1>5. StoreOK(Checkpointed) /\ Numbers(Checkpointed) \subseteq Numbers(Rotated)
      /\ DOMAIN Checkpointed # {} /\ HasKey(Checkpointed, k)
  BY <1>4, PrunedButNewestKeeps DEF Checkpointed
<1>6. \A cs \in Unfinished(chunks, Active.of) :
         /\ StoreOK(cs) /\ Numbers(cs) \subseteq Numbers(chunks) /\ DOMAIN cs # {}
         /\ HasKey(cs, k)
  BY <1>1, <1>3, UnfinishedKeeps
<1> QED
  BY <1>3, <1>4, <1>5, <1>6

\* A writer that starts finds the numbers on disk and goes on from there.
LEMMA OpensStore ==
    ASSUME StorageOK, NEW first \in BOOLEAN, Opens(first)
    PROVE  /\ StoreOK(chunks') /\ OneKey' /\ DOMAIN chunks' # {}
           /\ next' \in Nat \ {0} /\ key' \in Keys /\ reachable' = TRUE
           /\ \A m \in Numbers(chunks') : m < next'
           /\ key' # key => DOMAIN chunks = {}
<1> USE DEF StorageOK
<1> DEFINE n == FirstSequence
           k == LoadedKey
           cs == Pruned(chunks)
<1>1. k \in Keys /\ HasKey(chunks, k) /\ (k # key => DOMAIN chunks = {})
  BY LoadedKeyIs, ReadableHasKey DEF Opens, TypeOK
<1>2. n \in Nat \ {0} /\ \A m \in Numbers(chunks) : m < n /\ m \in Nat
  BY HighestNumberIs DEF FirstSequence
<1>3. StoreOK(cs) /\ HasKey(cs, k) /\ Numbers(cs) \subseteq Numbers(chunks)
  BY <1>1, PrunedKeeps
<1>4. key' = k /\ reachable' = TRUE
  BY DEF Opens
<1>7. /\ chunks' = Created(cs, Chunk(k, IF first THEN <<n>> ELSE <<>>, FALSE))
      /\ next' = IF first THEN n + 1 ELSE n
  BY DEF Opens
<1> HIDE DEF n, k, cs
<1>8. k \in Keys /\ key' \in Keys /\ reachable' = TRUE /\ (key' # key => DOMAIN chunks = {})
  BY <1>1, <1>4
<1>5. CASE first
  <2>1. chunks' = Created(cs, Chunk(k, <<n>>, FALSE)) /\ next' = n + 1
    BY <1>5, <1>7
  <2>2. /\ StoreOK(chunks') /\ Numbers(chunks') \subseteq Numbers(cs) \cup {n}
        /\ HasKey(chunks', k) /\ DOMAIN chunks' # {}
    <3>1. n \in Nat \ {0} /\ \A m \in Numbers(cs) : m < n
      BY <1>2, <1>3
    <3>2. LET ds == Created(cs, Chunk(k, <<n>>, FALSE)) IN
          /\ StoreOK(ds) /\ Numbers(ds) \subseteq Numbers(cs) \cup {n} /\ HasKey(ds, k)
          /\ DOMAIN ds # {}
      BY <1>1, <1>3, <3>1, FirstCreated
    <3> QED
      BY <2>1, <3>2
  <2>3. ASSUME NEW m \in Numbers(chunks') PROVE m < next'
    <3>1. m \in Numbers(chunks) \/ m = n
      BY <1>3, <2>2
    <3> QED
      BY <1>2, <2>1, <3>1
  <2>5. next' \in Nat \ {0}
    BY <1>2, <2>1
  <2>4. OneKey'
    BY <1>1, <2>2 DEF OneKey, HasKey
  <2> QED
    BY <1>8, <2>2, <2>3, <2>4, <2>5
<1>6. CASE ~first
  <2>1. chunks' = Created(cs, Chunk(k, <<>>, FALSE)) /\ next' = n
    BY <1>6, <1>7
  <2>2. /\ StoreOK(chunks') /\ Numbers(chunks') \subseteq Numbers(cs)
        /\ HasKey(chunks', k) /\ DOMAIN chunks' # {}
    BY <1>1, <1>3, <2>1, EmptyCreated
  <2> QED
    BY <1>2, <1>3, <1>8, <2>1, <2>2 DEF OneKey, HasKey
<1> QED
  BY <1>5, <1>6

\* A start that fails leaves what was there, or a key and an empty chunk.
LEMMA OpeningFailsStore ==
    ASSUME StorageOK, OpeningFails
    PROVE  /\ StoreOK(chunks') /\ OneKey'
           /\ key' \in Keys \cup {0} /\ reachable' \in {reachable, TRUE}
           /\ named' \in {named, TRUE}
           /\ key' # key => DOMAIN chunks = {}
<1> USE DEF StorageOK
<1>1. CASE UNCHANGED <<key, reachable, named, chunks>>
  BY <1>1 DEF OneKey, HasKey, TypeOK
<1>2. CASE /\ Authenticated
           /\ key' = LoadedKey /\ reachable' = TRUE /\ named' = TRUE
           /\ chunks' \in (UNION {Unfinished(cs, LoadedKey) : cs \in {chunks, Pruned(chunks)}})
                          \cup {Created(Pruned(chunks), Chunk(LoadedKey, <<>>, FALSE))}
  <2> DEFINE k == LoadedKey
             cs == Pruned(chunks)
  <2>1. k \in Keys /\ HasKey(chunks, k) /\ (k # key => DOMAIN chunks = {})
    BY <1>2, LoadedKeyIs, ReadableHasKey DEF Authenticated, TypeOK
  <2>2. StoreOK(cs) /\ HasKey(cs, k)
    BY <2>1, PrunedKeeps
  <2>5. \/ chunks' \in UNION {Unfinished(ds, k) : ds \in {chunks, cs}}
        \/ chunks' = Created(cs, Chunk(k, <<>>, FALSE))
    BY <1>2
  <2>3. \/ chunks' \in Unfinished(chunks, k)
        \/ chunks' \in Unfinished(cs, k)
        \/ chunks' = Created(cs, Chunk(k, <<>>, FALSE))
    BY <2>5
  <2> HIDE DEF k, cs
  <2>4. StoreOK(chunks') /\ HasKey(chunks', k)
    BY <2>1, <2>2, <2>3, UnfinishedKeeps, EmptyCreated
  <2> QED
    BY <1>2, <2>1, <2>4 DEF OneKey, HasKey, k
<1> QED
  BY <1>1, <1>2 DEF OpeningFails

\* The operations that end the writer, and the steps without an operation.
StopOK ==
    /\ op = "none" <=> step = "idle"
    /\ step \in {"stop", "join"} => op \in {"enable", "disable", "delete", "quit"}
    /\ op = "enable" => ~enabled
    /\ op = "quit" => ends < MaxEnds

\* The inductive invariant.
HistoryInv ==
    StorageOK /\ ThreadOK /\ StopOK /\ ShutdownIsLast /\ QueueOK /\ KeyOK /\ Inv

\* What a step leaves on disk.
Stored(more) ==
    /\ StoreOK(chunks') /\ OneKey'
    /\ Numbers(chunks') \subseteq Numbers(chunks) \cup more

\* The writer appends the event to the newest chunk, or tears it.
LEMMA WriteEventStores ==
    ASSUME HistoryInv, WriteEvent
    PROVE  Stored({Head(queue).sequence}) /\ DOMAIN chunks' # {}
<1> USE DEF HistoryInv, StorageOK
<1>1. writer = "running" /\ queue # <<>> /\ Head(queue).kind = "event"
  BY DEF WriteEvent, Takes
<1>2. DOMAIN chunks # {}
  BY <1>1 DEF ThreadOK
<1>3. PICK k \in Keys : HasKey(chunks, k)
  BY DEF OneKey
<1> DEFINE n == Head(queue).sequence
<1>4. n \in Nat \ {0} /\ \A m \in Numbers(chunks) : m < n
  <2>1. 1 \in DOMAIN queue /\ Head(queue) = queue[1] /\ queue[1] \in Messages
    BY <1>1 DEF TypeOK
  <2>2. n \in Nat
    BY <2>1 DEF Messages
  <2> QED
    BY <1>1, <2>1, <2>2 DEF QueueOK, QueueFits
<1>5. ASSUME NEW cs, StoreOK(cs), Numbers(cs) \subseteq Numbers(chunks), DOMAIN cs # {},
             \E q \in Keys : HasKey(cs, q),
             chunks' = Appended(cs, n) \/ chunks' \in {cs, Torn(cs)}
      PROVE  Stored({n}) /\ DOMAIN chunks' # {}
  <2>1. PICK q \in Keys : HasKey(cs, q)
    BY <1>5
  <2>2. StoreOK(chunks') /\ Numbers(chunks') \subseteq Numbers(cs) \cup {n}
        /\ DOMAIN chunks' = DOMAIN cs /\ HasKey(chunks', q)
    <3>1. CASE chunks' = Appended(cs, n)
      BY <1>4, <1>5, <2>1, <3>1, AppendedKeeps
    <3>2. CASE chunks' = cs
      BY <1>5, <2>1, <3>2
    <3>3. CASE chunks' = Torn(cs)
      BY <1>5, <2>1, <3>3, TornKeeps
    <3> QED
      BY <1>5, <3>1, <3>2, <3>3
  <2> QED
    BY <1>5, <2>1, <2>2 DEF Stored, OneKey, HasKey
<1>6. CASE \E cs \in IF due THEN {Checkpointed} ELSE {chunks, PrunedButNewest(chunks)} :
             chunks' = Appended(cs, n) \/ chunks' \in {cs, Torn(cs)}
  <2>1. PICK cs \in {Checkpointed, chunks, PrunedButNewest(chunks)} :
             chunks' = Appended(cs, n) \/ chunks' \in {cs, Torn(cs)}
    BY <1>6
  <2>2. StoreOK(cs) /\ Numbers(cs) \subseteq Numbers(chunks) /\ DOMAIN cs # {}
        /\ \E q \in Keys : HasKey(cs, q)
    BY <1>2, <1>3, <2>1, CheckpointKeeps, PrunedButNewestKeeps
  <2> QED
    BY <1>5, <2>1, <2>2
<1>7. CASE CheckpointFails
  BY <1>2, <1>7, CheckpointKeeps DEF CheckpointFails, Stored, OneKey, HasKey
<1> QED
  BY <1>6, <1>7 DEF WriteEvent

\* A checkpoint of the writer, for a query or by itself.
LEMMA CheckpointStores ==
    ASSUME HistoryInv, AnswerSnapshot \/ Maintain
    PROVE  Stored({}) /\ (writer = "running" => DOMAIN chunks' # {})
<1> USE DEF HistoryInv, StorageOK
<1>1. \/ writer = "running" /\ (Checkpoint \/ CheckpointFails)
      \/ writer # "running" /\ UNCHANGED chunks
  BY DEF AnswerSnapshot, Maintain
<1>2. CASE UNCHANGED chunks /\ writer # "running"
  BY <1>2 DEF Stored, OneKey, HasKey
<1>3. CASE writer = "running" /\ (Checkpoint \/ CheckpointFails)
  BY <1>3, CheckpointKeeps DEF ThreadOK, Checkpoint, CheckpointFails, Stored, OneKey, HasKey
<1> QED
  BY <1>1, <1>2, <1>3

\* A file that a deletion removes.
LEMMA RemoveChunkStores == HistoryInv /\ RemoveChunk => Stored({})
<1> SUFFICES ASSUME HistoryInv, RemoveChunk PROVE Stored({})
  OBVIOUS
<1>1. \/ \E i \in DOMAIN chunks : chunks' = Restrict(chunks, DOMAIN chunks \ {i})
      \/ UNCHANGED chunks
  BY DEF RemoveChunk
<1>2. PICK k \in Keys : HasKey(chunks, k)
  BY DEF HistoryInv, StorageOK, OneKey
<1>3. StoreOK(chunks)
  BY DEF HistoryInv, StorageOK
<1>4. ASSUME NEW i \in DOMAIN chunks, chunks' = Restrict(chunks, DOMAIN chunks \ {i})
      PROVE  StoreOK(chunks') /\ Numbers(chunks') \subseteq Numbers(chunks) /\ HasKey(chunks', k)
  <2>1. DOMAIN chunks \ {i} \in SUBSET DOMAIN chunks
    OBVIOUS
  <2> QED
    BY <1>2, <1>3, <1>4, <2>1, RestrictKeeps
<1> QED
  BY <1>1, <1>2, <1>3, <1>4 DEF Stored, OneKey, HasKey

\* A query without a writer removes what is too old and leaves its audit.
LEMMA QueryStoppedStores ==
    ASSUME HistoryInv, QueryStopped
    PROVE  /\ StoreOK(chunks') /\ OneKey' /\ next' \in Nat \ {0} /\ seen' \in Nat
           /\ key' \in Keys \cup {0} /\ (key' # key => DOMAIN chunks = {} /\ Readable(chunks))
<1> USE DEF HistoryInv, StorageOK
<1> DEFINE kept == Pruned(chunks)
           n == Newer(next, Highest(Numbers(chunks)) + 1)
<1>1. n \in Nat \ {0} /\ \A m \in Numbers(chunks) : m \in Nat /\ m < n
  <2>1. next \in Nat \ {0}
    BY DEF TypeOK
  <2>2. Highest(Numbers(chunks)) \in Nat /\ Numbers(chunks) \subseteq Nat
        /\ \A m \in Numbers(chunks) : m <= Highest(Numbers(chunks))
    BY HighestNumberIs
  <2>3. n \in Nat \ {0} /\ n >= Highest(Numbers(chunks)) + 1
    BY <2>1, <2>2 DEF Newer
  <2> QED
    BY <2>2, <2>3
<1>2. StoreOK(kept) /\ Numbers(kept) \subseteq Numbers(chunks)
      /\ \A k : HasKey(chunks, k) => HasKey(kept, k)
  BY PrunedKeeps
<1>3. seen \in Nat /\ key \in Keys \cup {0} /\ next \in Nat \ {0}
  BY DEF TypeOK
<1>4. CASE UNCHANGED <<disk, named, next, seen>>
  BY <1>3, <1>4 DEF disk, OneKey, HasKey
<1>5. CASE /\ Readable(chunks)
           /\ \/ UNCHANGED <<key, named, reachable>>
              \/ ~named /\ named' = TRUE /\ key' = LoadedKey /\ reachable' = TRUE
           /\ \/ /\ chunks' = kept /\ next' = n
                 /\ UNCHANGED seen
              \/ /\ Numbers(kept) # {}
                 /\ \/ /\ chunks' = Created(kept, Chunk(key, <<n>>, FALSE))
                       /\ next' = n + 1
                       /\ seen' = Newer(seen, Highest(Numbers(kept)))
                    \/ /\ chunks' \in Unfinished(kept, key) \cup {Created(kept, Chunk(key, <<>>, FALSE))}
                       /\ next' \in {n, n + 1}
                       /\ UNCHANGED seen
  <2>1. HasKey(chunks, LoadedKey) /\ LoadedKey \in Keys
        /\ (DOMAIN chunks # {} => key \in Keys /\ LoadedKey = key)
    BY <1>3, <1>5, ReadableHasKey, LoadedKeyIs
  <2>2. key' \in Keys \cup {0} /\ (key' # key => DOMAIN chunks = {})
    <3>1. key' = key \/ key' = LoadedKey
      BY <1>5
    <3> QED
      BY <1>3, <2>1, <3>1
  <2>3. next' \in Nat \ {0}
    <3>1. next' = n \/ next' = n + 1
      BY <1>5
    <3> QED
      BY <1>1, <3>1
  <2>4. Highest(Numbers(kept)) \in Nat
    BY <1>2, HighestNumberIs
  <2>5. seen' \in Nat
    BY <1>3, <1>5, <2>4 DEF Newer
  <2>6. StoreOK(chunks') /\ \E k \in Keys : HasKey(chunks', k)
    <3>1. CASE chunks' = kept
      BY <1>2, <2>1, <3>1
    <3>2. CASE /\ Numbers(kept) # {}
               /\ \/ chunks' = Created(kept, Chunk(key, <<n>>, FALSE))
                  \/ chunks' \in Unfinished(kept, key)
                  \/ chunks' = Created(kept, Chunk(key, <<>>, FALSE))
      <4>1. DOMAIN chunks # {}
        BY <1>2, <3>2 DEF Numbers
      <4>2. key \in Keys /\ HasKey(kept, key)
        BY <1>2, <2>1, <4>1
      <4>3. \A m \in Numbers(kept) : m < n
        BY <1>1, <1>2
      <4>4. StoreOK(kept) /\ n \in Nat \ {0}
        BY <1>1, <1>2
      <4> HIDE DEF kept, n
      <4>5. CASE chunks' = Created(kept, Chunk(key, <<n>>, FALSE))
        BY <4>2, <4>3, <4>4, <4>5, FirstCreated
      <4>6. CASE chunks' \in Unfinished(kept, key)
        BY <4>2, <4>4, <4>6, UnfinishedKeeps
      <4>7. CASE chunks' = Created(kept, Chunk(key, <<>>, FALSE))
        BY <4>2, <4>4, <4>7, EmptyCreated
      <4> QED
        BY <3>2, <4>5, <4>6, <4>7
    <3> QED
      BY <1>5, <3>1, <3>2
  <2> QED
    BY <1>5, <2>2, <2>3, <2>5, <2>6 DEF OneKey, HasKey
<1> QED
  BY <1>4, <1>5 DEF QueryStopped

\* A crash may leave a torn chunk, or one that is not complete.
LEMMA CrashStores == HistoryInv /\ Crash => Stored({})
<1> SUFFICES ASSUME HistoryInv, Crash PROVE Stored({})
  OBVIOUS
<1> USE DEF HistoryInv, StorageOK
<1>1. CASE UNCHANGED chunks
  BY <1>1 DEF Stored, OneKey, HasKey
<1>2. CASE writer = "running" /\ chunks' = Torn(chunks)
  <2>1. DOMAIN chunks # {}
    BY <1>2 DEF ThreadOK
  <2> QED
    BY <1>2, <2>1, TornKeeps DEF Stored, OneKey, HasKey
<1>3. CASE writer = "running" /\ Rotates /\ chunks' \in Unfinished(chunks, Active.of)
  <2>1. DOMAIN chunks # {}
    BY <1>3 DEF ThreadOK
  <2> QED
    BY <1>3, <2>1, CheckpointKeeps DEF Stored, OneKey, HasKey
<1> QED
  BY <1>1, <1>2, <1>3 DEF Crash

\* Time takes nothing.
LEMMA AgeStores == HistoryInv /\ Age => Stored({}) /\ DOMAIN chunks' = DOMAIN chunks
<1> SUFFICES ASSUME HistoryInv, Age PROVE Stored({}) /\ DOMAIN chunks' = DOMAIN chunks
  OBVIOUS
<1> USE DEF HistoryInv, StorageOK
<1>1. PICK i \in DOMAIN chunks : chunks' = [chunks EXCEPT ![i].aged = TRUE]
  BY DEF Age
<1>2. chunks \in [DOMAIN chunks -> Chunks] /\ chunks[i] \in Chunks
  BY DEF StoreOK, IsStore
<1>3. chunks' \in [DOMAIN chunks -> Chunks]
  BY <1>1, <1>2 DEF Chunks
<1>4. \A j \in DOMAIN chunks : chunks'[j].items = chunks[j].items /\ chunks'[j].of = chunks[j].of
  BY <1>1, <1>2 DEF Chunks
<1> QED
  BY <1>3, <1>4, SameItemsKeep DEF Stored, OneKey, HasKey

\* Every step leaves chunks in order, with one key.
LEMMA StorageStep ==
    ASSUME HistoryInv, [Next]_vars
    PROVE  StoreOK(chunks') /\ OneKey'
<1>0. StoreOK(chunks) /\ OneKey
  BY DEF HistoryInv, StorageOK
<1>1. CASE UNCHANGED chunks
  BY <1>0, <1>1 DEF OneKey, HasKey
<1>2. ASSUME NEW first \in BOOLEAN, Opens(first) PROVE StoreOK(chunks') /\ OneKey'
  BY <1>2, OpensStore DEF HistoryInv
<1>3. CASE OpeningFails
  BY <1>3, OpeningFailsStore DEF HistoryInv
<1>4. CASE WriteEvent \/ AnswerSnapshot \/ Maintain \/ RemoveChunk \/ QueryStopped \/ Crash \/ Age
  BY <1>4, WriteEventStores, CheckpointStores, RemoveChunkStores, QueryStoppedStores,
     CrashStores, AgeStores DEF Stored
<1>5. CASE Enable
  BY <1>2, <1>3, <1>5 DEF Enable
<1>6. CASE Restart
  <2>1. UNCHANGED chunks \/ Opens(FALSE) \/ OpeningFails
    BY <1>6 DEF Restart
  <2> QED
    BY <1>1, <1>2, <1>3, <2>1
<1>7. CASE UNCHANGED vars
  BY <1>1, <1>7 DEF vars, disk
<1>8. CASE Call /\ ~Enable /\ ~QueryStopped
  <2>1. UNCHANGED chunks
    BY <1>8 DEF Call, Disable, Pause, Resume, Mark, Delete, Query, Drop, disk
  <2> QED
    BY <1>1, <2>1
<1>9. CASE ControlStep /\ ~RemoveChunk
  <2>1. UNCHANGED chunks
    BY <1>9 DEF ControlStep, Send, Flush, AskSnapshot, Stop, Requests, Flushed, Snapshot, Joined,
       Dropped, EnablePersist, DisablePersist, DeletePersist, DestroyKey, ForgetKey, Removed, disk
  <2> QED
    BY <1>1, <2>1
<1>10. CASE \/ GiveUp \/ DropEvent \/ AnswerFlush \/ Shutdown \/ Reinstall \/ RotationDue
            \/ \E d \in Dispatches : DispatchStep(d)
  <2>1. UNCHANGED chunks
    BY <1>10 DEF GiveUp, DropEvent, AnswerFlush, Shutdown, Reinstall, RotationDue, DispatchStep,
       Begin, Name, SendStarted, Finish, SendCompleted, disk
  <2> QED
    BY <1>1, <2>1
<1> QED
  BY <1>4, <1>5, <1>6, <1>7, <1>8, <1>9, <1>10 DEF Next, Call, ControlStep, WriterStep

-----------------------------------------------------------------------------
(* Types.                                                                  *)

\* All of TypeOK but what is stored and what is queued.
ScalarsOK ==
    /\ persisted \in {"off", "on", "paused"}
    /\ key \in Keys \cup {0} /\ reachable \in BOOLEAN
    /\ up \in BOOLEAN /\ enabled \in BOOLEAN /\ paused \in BOOLEAN
    /\ named \in BOOLEAN /\ owed \in BOOLEAN
    /\ writer \in {"none", "running", "failed"} /\ due \in BOOLEAN
    /\ op \in Operations \cup {"none"}
    /\ step \in {"idle", "persist", "send", "flush", "wait", "read", "reading",
                 "stop", "join", "destroy", "forget", "remove"}
    /\ reply \in {"none", "ok", "error"} /\ found \in Nat
    /\ at \in [Dispatches -> {"idle", "start", "ready", "acting", "finish"}]
    /\ begun \in 0..MaxActions /\ asked \in 0..MaxAsked
    /\ ends \in 0..MaxEnds /\ ticks \in 0..MaxTicks
    /\ told \in {"off", "on", "paused", "unknown"} /\ seen \in Nat

\* The calls leave valuesof their types.
LEMMA CallTypes ==
    ASSUME HistoryInv, ScalarsOK, Call
    PROVE  ScalarsOK'
<1> USE BoundsAssumption DEF ScalarsOK, Operations
<1>0. ASSUME NEW o, NEW s, Asks(o, s)
      PROVE  /\ op' = o /\ step' = s /\ asked' \in 0..MaxAsked
             /\ UNCHANGED <<reply, found, up, at, begun, ends, ticks>>
  BY <1>0 DEF Asks
<1>1. CASE Enable
  <2>1. /\ op' \in {"enable", "none"} /\ step' \in {"persist", "idle"} /\ asked' \in 0..MaxAsked
        /\ UNCHANGED <<reply, found, up, at, begun, ends, ticks>>
    BY <1>1, <1>0 DEF Enable
  <2>2. key' \in Keys \cup {0} /\ reachable' \in BOOLEAN
    BY <1>1, OpensStore, OpeningFailsStore DEF Enable, HistoryInv
  <2>3. named' \in BOOLEAN /\ writer' \in {"none", "running", "failed"} /\ UNCHANGED due
    BY <1>1 DEF Enable, Opens, OpeningFails, thread
  <2>4. paused' \in BOOLEAN /\ told' \in {"off", "on", "paused", "unknown"}
        /\ UNCHANGED <<persisted, enabled, owed, seen>>
    BY <1>1 DEF Enable
  <2>5. op' \in Operations \cup {"none"}
        /\ step' \in {"idle", "persist", "send", "flush", "wait", "read", "reading",
                      "stop", "join", "destroy", "forget", "remove"}
    BY <2>1
  <2> QED
    BY <2>1, <2>2, <2>3, <2>4, <2>5
<1>2. CASE Disable
  <2>1. op' = "disable" /\ step' = "persist" /\ asked' \in 0..MaxAsked /\ UNCHANGED <<reply, found, up, at, begun, ends, ticks>>
    BY <1>2, <1>0 DEF Disable
  <2>2. enabled' = FALSE /\ told' = "unknown"
        /\ UNCHANGED <<persisted, key, reachable, paused, named, owed, writer, due, seen>>
    BY <1>2 DEF Disable, disk, thread
  <2>3. enabled' \in BOOLEAN /\ told' \in {"off", "on", "paused", "unknown"}
    BY <2>2
  <2>4. op' \in Operations \cup {"none"}
        /\ step' \in {"idle", "persist", "send", "flush", "wait", "read", "reading",
                      "stop", "join", "destroy", "forget", "remove"}
    BY <2>1
  <2> QED
    BY <2>1, <2>2, <2>3, <2>4
<1>3. CASE Pause
  <2>1. op' \in {"pause", "none"} /\ step' \in {"send", "idle"} /\ asked' \in 0..MaxAsked /\ UNCHANGED <<reply, found, up, at, begun, ends, ticks>>
    BY <1>3, <1>0 DEF Pause
  <2>2. /\ persisted' \in {"paused", persisted} /\ paused' \in {TRUE, paused}
        /\ told' \in {"unknown", told}
        /\ UNCHANGED <<key, reachable, enabled, named, owed, writer, due, seen>>
    BY <1>3 DEF Pause, PauseState, thread
  <2>3. op' \in Operations \cup {"none"}
    BY <2>1
  <2>4. step' \in {"idle", "persist", "send", "flush", "wait", "read", "reading",
                   "stop", "join", "destroy", "forget", "remove"}
    BY <2>1
  <2>5. persisted' \in {"off", "on", "paused"} /\ told' \in {"off", "on", "paused", "unknown"}
    BY <2>2
  <2>6. paused' \in BOOLEAN /\ enabled' \in BOOLEAN
    BY <2>2
  <2> QED
    BY <2>1, <2>2, <2>3, <2>4, <2>5, <2>6
<1>4. CASE Resume
  <2>1. op' \in {"resume", "none"} /\ step' \in {"send", "idle"} /\ asked' \in 0..MaxAsked /\ UNCHANGED <<reply, found, up, at, begun, ends, ticks>>
    BY <1>4, <1>0 DEF Resume
  <2>2. /\ persisted' \in {"on", persisted} /\ told' \in {"unknown", told}
        /\ UNCHANGED <<key, reachable, enabled, paused, named, owed, writer, due, seen>>
    BY <1>4 DEF Resume, manager, thread
  <2> QED
    BY <2>1, <2>2
<1>5. CASE Mark
  BY <1>5, <1>0 DEF Mark, disk, manager, thread
<1>6. CASE Delete
  <2>1. op' = "delete" /\ step' \in {"send", "persist"} /\ asked' \in 0..MaxAsked /\ UNCHANGED <<reply, found, up, at, begun, ends, ticks>>
    BY <1>6, <1>0 DEF Delete
  <2>2. enabled' = FALSE /\ paused' = FALSE /\ told' = "unknown"
        /\ UNCHANGED <<persisted, key, reachable, named, owed, writer, due, seen>>
    BY <1>6 DEF Delete, disk, thread
  <2>3. op' \in Operations \cup {"none"}
    BY <2>1
  <2>4. step' \in {"idle", "persist", "send", "flush", "wait", "read", "reading",
                   "stop", "join", "destroy", "forget", "remove"}
    BY <2>1
  <2>5. persisted' \in {"off", "on", "paused"} /\ told' \in {"off", "on", "paused", "unknown"}
    BY <2>2
  <2>6. paused' \in BOOLEAN /\ enabled' \in BOOLEAN
    BY <2>2
  <2> QED
    BY <2>1, <2>2, <2>3, <2>4, <2>5, <2>6
<1>7. CASE Query
  BY <1>7, <1>0 DEF Query, disk, manager, thread
<1>8. CASE QueryStopped
  <2>1. key' \in Keys \cup {0} /\ seen' \in Nat
    BY <1>8, QueryStoppedStores DEF HistoryInv
  <2>2. /\ op' = "none" /\ step' = "idle" /\ asked' \in 0..MaxAsked
        /\ UNCHANGED <<reply, found, up, at, begun, ends, ticks>>
    BY <1>8, <1>0 DEF QueryStopped
  <2>3. reachable' \in BOOLEAN /\ named' \in BOOLEAN
        /\ UNCHANGED <<persisted, enabled, paused, owed, writer, due, told>>
    BY <1>8 DEF QueryStopped, disk, thread
  <2> QED
    BY <2>1, <2>2, <2>3
<1>9. CASE Drop
  BY <1>9 DEF Drop, disk, manager, thread, bounds
<1> QED
  BY <1>1, <1>2, <1>3, <1>4, <1>5, <1>6, <1>7, <1>8, <1>9 DEF Call

\* So do the steps of an operation: an answer and a return.
Answered ==
    /\ reply' = "none" /\ found' \in {0, found} /\ seen' = seen
    /\ UNCHANGED <<up, at, begun, asked, ends, ticks>>

\* A step of an operation leads to its next step, or to its return.
LEMMA GotoAnswered ==
    ASSUME NEW s, Goto(s)
    PROVE  Answered /\ op' = op /\ step' = s
BY DEF Goto, Answered, bounds

LEMMA FailsAnswered ==
    ASSUME Fails
    PROVE  Answered /\ op' = "none" /\ step' = "idle" /\ told' = told
BY DEF Fails, Returns, Answered, bounds

LEMMA ConfirmsAnswered ==
    ASSUME NEW t, Confirms(t)
    PROVE  Answered /\ op' = "none" /\ step' = "idle" /\ told' = t
BY DEF Confirms, Returns, Answered, bounds

LEMMA ControlTypes ==
    ASSUME HistoryInv, ScalarsOK, ControlStep
    PROVE  ScalarsOK'
<1> USE DEF ScalarsOK, Operations
<1> USE GotoAnswered, FailsAnswered, ConfirmsAnswered
<1>0. ASSUME Answered, op' \in {op, "none"},
             step' \in {"idle", "persist", "send", "stop", "destroy", "forget", "remove"},
             told' \in {told, "off", "on", "paused"}, persisted' \in {persisted, "off", "on", "paused"},
             enabled' \in BOOLEAN, paused' \in {paused, FALSE}, named' \in {named, FALSE},
             key' \in {key, 0}, reachable' \in {reachable, TRUE},
             UNCHANGED <<owed, writer, due>>
      PROVE  ScalarsOK'
  <2>1. step' \in {"idle", "persist", "send", "flush", "wait", "read", "reading",
                   "stop", "join", "destroy", "forget", "remove"}
    BY <1>0
  <2>2. op' \in Operations \cup {"none"}
    BY <1>0
  <2>3. persisted' \in {"off", "on", "paused"} /\ told' \in {"off", "on", "paused", "unknown"}
    BY <1>0
  <2>4. paused' \in BOOLEAN /\ named' \in BOOLEAN /\ reachable' \in BOOLEAN
    BY <1>0
  <2>5. key' \in Keys \cup {0} /\ found' \in Nat
    BY <1>0 DEF Answered
  <2> QED
    BY <1>0, <2>1, <2>2, <2>3, <2>4, <2>5 DEF Answered
<1>1. CASE Send
  BY <1>1 DEF Send, disk, bounds
<1>2. CASE Flush \/ AskSnapshot \/ Stop
  BY <1>2 DEF Flush, AskSnapshot, Stop, Requests, disk, manager, bounds
<1>3. CASE Flushed
  <2>1. Answered /\ op' \in {op, "none"} /\ step' \in {"idle", "stop"}
        /\ told' \in {told, "off", "on", "paused"}
    BY <1>3 DEF Flushed
  <2>2. persisted' \in {persisted, "on", "paused"} /\ paused' \in {paused, FALSE}
        /\ UNCHANGED <<enabled, named, key, reachable, owed, writer, due>>
    BY <1>3 DEF Flushed, thread
  <2> QED
    BY <1>0, <2>1, <2>2
<1>4. CASE Snapshot
  <2>1. CASE Fails
    <3>1. UNCHANGED <<persisted, enabled, paused, named, key, reachable, owed, writer, due>>
      BY <1>4 DEF Snapshot, disk, manager, thread
    <3> QED
      BY <1>0, <2>1, <3>1
  <2>2. CASE ~Fails
    BY <1>4, <2>2 DEF Snapshot, Newer, disk, manager, thread, bounds
  <2> QED
    BY <2>1, <2>2
<1>5. CASE Joined
  <2>1. Answered /\ op' \in {op, "none"} /\ step' \in {"idle", "persist"}
        /\ told' \in {told, "off", "on", "paused"}
    BY <1>5 DEF Joined
  <2>2. enabled' \in {enabled, FALSE} /\ paused' \in {paused, FALSE}
        /\ UNCHANGED <<persisted, named, key, reachable, owed, writer, due>>
    BY <1>5 DEF Joined, disk, thread
  <2> QED
    BY <1>0, <2>1, <2>2
<1>6. CASE Dropped
  <2>1. ends' \in 0..MaxEnds
    BY <1>6, BoundsAssumption DEF Dropped, Gone, HistoryInv, StopOK
  <2>2. at' = [d \in Dispatches |-> "idle"]
    BY <1>6 DEF Dropped, Gone
  <2>3. at' \in [Dispatches -> {"idle", "start", "ready", "acting", "finish"}]
    BY <2>2
  <2>4. UNCHANGED <<persisted, key, reachable, begun, asked, ticks, told, seen>>
    BY <1>6 DEF Dropped, Gone
  <2>5. /\ up' = FALSE /\ enabled' = FALSE /\ paused' = FALSE /\ named' = FALSE
        /\ owed' = FALSE /\ writer' = "none" /\ due' = FALSE
        /\ op' = "none" /\ step' = "idle" /\ reply' = "none" /\ found' = 0
    BY <1>6 DEF Dropped, Gone
  <2> QED
    BY <2>1, <2>3, <2>4, <2>5
<1>7. CASE EnablePersist
  <2>1. Answered /\ op' \in {op, "none"} /\ step' \in {"idle", "stop"}
        /\ told' \in {told, "off", "on", "paused"}
    BY <1>7 DEF EnablePersist
  <2>2. persisted' \in {persisted, "on"} /\ enabled' \in {enabled, TRUE}
        /\ UNCHANGED <<paused, named, key, reachable, owed, writer, due>>
    BY <1>7 DEF EnablePersist, thread
  <2> QED
    BY <1>0, <2>1, <2>2
<1>8. CASE DisablePersist
  <2>1. Answered /\ op' \in {op, "none"} /\ step' \in {"idle", "send"}
        /\ told' \in {told, "off", "on", "paused"}
    BY <1>8 DEF DisablePersist
  <2>2. persisted' \in {persisted, "off"} /\ enabled' \in BOOLEAN /\ paused' \in {paused, FALSE}
        /\ UNCHANGED <<named, key, reachable, owed, writer, due>>
    BY <1>8 DEF DisablePersist, thread
  <2> QED
    BY <1>0, <2>1, <2>2
<1>9. CASE DeletePersist
  <2>1. Answered /\ op' \in {op, "none"} /\ step' \in {"idle", "destroy"}
        /\ told' \in {told, "off", "on", "paused"}
    BY <1>9 DEF DeletePersist
  <2>2. persisted' \in {persisted, "off"}
        /\ UNCHANGED <<enabled, paused, named, key, reachable, owed, writer, due>>
    BY <1>9 DEF DeletePersist, manager, thread
  <2> QED
    BY <1>0, <2>1, <2>2
<1>10. CASE DestroyKey
  <2>1. Answered /\ op' \in {op, "none"} /\ step' \in {"idle", "forget"}
        /\ told' \in {told, "off", "on", "paused"}
    BY <1>10 DEF DestroyKey
  <2>2. key' \in {key, 0} /\ reachable' \in {reachable, TRUE}
        /\ UNCHANGED <<persisted, enabled, paused, named, owed, writer, due>>
    BY <1>10 DEF DestroyKey, manager, thread
  <2> QED
    BY <1>0, <2>1, <2>2
<1>11. CASE ForgetKey
  <2>1. Answered /\ op' \in {op, "none"} /\ step' \in {"idle", "remove"}
        /\ told' \in {told, "off", "on", "paused"}
    BY <1>11 DEF ForgetKey
  <2>2. named' \in {named, FALSE}
        /\ UNCHANGED <<persisted, enabled, paused, key, reachable, owed, writer, due>>
    BY <1>11 DEF ForgetKey, disk, thread
  <2> QED
    BY <1>0, <2>1, <2>2
<1>12. CASE RemoveChunk
  <2>1. Answered /\ op' \in {op, "none"} /\ step' \in {"idle", "remove"}
        /\ told' \in {told, "off", "on", "paused"}
    BY <1>12 DEF RemoveChunk
  <2>2. UNCHANGED <<persisted, enabled, paused, named, key, reachable, owed, writer, due>>
    BY <1>12 DEF RemoveChunk, manager, thread
  <2> QED
    BY <1>0, <2>1, <2>2
<1>13. CASE Removed
  BY <1>13 DEF Removed, Returns, disk, thread, bounds
<1> QED
  BY <1>1, <1>2, <1>3, <1>4, <1>5, <1>6, <1>7, <1>8, <1>9, <1>10, <1>11, <1>12, <1>13
  DEF ControlStep

\* So do the writer and the dispatches.
LEMMA ThreadTypes ==
    ASSUME HistoryInv, ScalarsOK,
           GiveUp \/ WriterStep \/ Maintain \/ \E d \in Dispatches : DispatchStep(d)
    PROVE  ScalarsOK'
<1> USE DEF ScalarsOK, bounds, control
<1>1. CASE GiveUp
  BY <1>1 DEF GiveUp, disk, manager
<1>2. CASE WriteEvent
  <2>1. writer' \in {"none", "running", "failed"} /\ owed' \in BOOLEAN
    BY <1>2 DEF WriteEvent, Terminal
  <2>2. due' \in BOOLEAN
    BY <1>2 DEF WriteEvent, CheckpointFails
  <2>3. UNCHANGED <<persisted, key, reachable, up, enabled, paused, named, op, step, reply, found,
                    at, begun, asked, ends, ticks, told, seen>>
    BY <1>2 DEF WriteEvent
  <2> QED
    BY <2>1, <2>2, <2>3
<1>3. CASE DropEvent
  BY <1>3 DEF DropEvent, disk
<1>4. CASE AnswerFlush
  BY <1>4 DEF AnswerFlush, Answers, disk, manager
<1>5. CASE AnswerSnapshot
  <2>1. found' \in Nat
    <3>1. CASE UNCHANGED found
      BY <3>1
    <3>2. CASE found' = Highest(Numbers(Pruned(chunks')))
      <4>1. StoreOK(chunks')
        BY <1>5, CheckpointStores DEF HistoryInv, Stored
      <4>2. StoreOK(Pruned(chunks'))
        BY <4>1, PrunedKeeps
      <4> QED
        BY <3>2, <4>2, HighestNumberIs
    <3> QED
      BY <1>5, <3>1, <3>2 DEF AnswerSnapshot
  <2>2. reply' \in {"none", "ok", "error"} /\ due' \in BOOLEAN
    BY <1>5 DEF AnswerSnapshot, Answers, Checkpoint, CheckpointFails
  <2>3. UNCHANGED <<persisted, key, reachable, up, enabled, paused, named, owed, writer, op, step,
                    at, begun, asked, ends, ticks, told, seen>>
    BY <1>5 DEF AnswerSnapshot, manager
  <2> QED
    BY <2>1, <2>2, <2>3
<1>6. CASE Shutdown
  <2>1. writer' \in {"none", "running", "failed"} /\ due' \in BOOLEAN
    BY <1>6 DEF Shutdown
  <2>2. UNCHANGED <<persisted, key, reachable, up, enabled, paused, named, owed, op, step, reply, found,
                    at, begun, asked, ends, ticks, told, seen>>
    BY <1>6 DEF Shutdown, disk, manager
  <2> QED
    BY <2>1, <2>2
<1>7. CASE Maintain
  <2>1. writer' \in {"none", "running", "failed"} /\ due' \in BOOLEAN
    <3>1. writer' = writer \/ writer' = "failed"
      BY <1>7 DEF Maintain, Terminal
    <3>2. due' \in BOOLEAN
      BY <1>7 DEF Maintain, Checkpoint, CheckpointFails
    <3> QED
      BY <3>1, <3>2
  <2>2. UNCHANGED <<persisted, key, reachable, up, enabled, paused, named, owed, op, step, reply, found,
                    at, begun, asked, ends, ticks, told, seen>>
    BY <1>7 DEF Maintain, manager
  <2> QED
    BY <2>1, <2>2
<1>8. ASSUME NEW d \in Dispatches, DispatchStep(d) PROVE ScalarsOK'
  <2>1. at' \in [Dispatches -> {"idle", "start", "ready", "acting", "finish"}]
    BY <1>8 DEF DispatchStep, Begin, Name, SendStarted, Finish, SendCompleted, Goes
  <2>2. CASE Begin(d)
    BY <2>1, <2>2, BoundsAssumption DEF Begin, disk, manager, thread
  <2>3. CASE Name(d)
    <3>1. key' \in {key, LoadedKey} /\ named' \in {named, TRUE} /\ reachable' \in {reachable, TRUE}
      BY <2>3 DEF Name
    <3>2. key' \in Keys \cup {0}
      BY <3>1, LoadedKeyIs DEF HistoryInv, StorageOK
    <3>3. UNCHANGED <<persisted, up, enabled, paused, owed, writer, due, op, step, reply, found,
                      begun, asked, ends, ticks, told, seen>>
      BY <2>3 DEF Name, thread
    <3>4. named' \in BOOLEAN /\ reachable' \in BOOLEAN
      BY <3>1
    <3> QED
      BY <2>1, <3>2, <3>3, <3>4
  <2>4. CASE SendStarted(d) \/ SendCompleted(d)
    <3>1. owed' \in BOOLEAN
      BY <2>4 DEF SendStarted, SendCompleted, TrySend
    <3>2. UNCHANGED <<persisted, key, reachable, up, enabled, paused, named, writer, due,
                      op, step, reply, found, begun, asked, ends, ticks, told, seen>>
      BY <2>4 DEF SendStarted, SendCompleted, disk
    <3> QED
      BY <2>1, <3>1, <3>2
  <2>5. CASE Finish(d)
    BY <2>1, <2>5 DEF Finish, disk, manager, thread
  <2> QED
    BY <1>8, <2>2, <2>3, <2>4, <2>5 DEF DispatchStep
<1> QED
  BY <1>1, <1>2, <1>3, <1>4, <1>5, <1>6, <1>7, <1>8 DEF WriterStep

\* And the ends and starts of the process, and time.
LEMMA ProcessTypes ==
    ASSUME HistoryInv, ScalarsOK, Crash \/ Restart \/ Reinstall \/ Age \/ RotationDue
    PROVE  ScalarsOK'
<1> USE DEF ScalarsOK
<1>1. CASE Crash
  <2>1. ends' \in 0..MaxEnds
    BY <1>1, BoundsAssumption DEF Crash, Gone
  <2>2. at' = [d \in Dispatches |-> "idle"]
    BY <1>1 DEF Crash, Gone
  <2>3. at' \in [Dispatches -> {"idle", "start", "ready", "acting", "finish"}]
    BY <2>2
  <2>4. UNCHANGED <<persisted, key, reachable, begun, asked, ticks, told, seen>>
    BY <1>1 DEF Crash, Gone
  <2>5. /\ up' = FALSE /\ enabled' = FALSE /\ paused' = FALSE /\ named' = FALSE
        /\ owed' = FALSE /\ writer' = "none" /\ due' = FALSE
        /\ op' = "none" /\ step' = "idle" /\ reply' = "none" /\ found' = 0
    BY <1>1 DEF Crash, Gone
  <2> QED
    BY <2>1, <2>3, <2>4, <2>5
<1>2. CASE Restart
  <2>1. key' \in Keys \cup {0} /\ reachable' \in BOOLEAN /\ named' \in BOOLEAN
        /\ writer' \in {writer, "running"} /\ UNCHANGED due /\ enabled' \in {enabled, TRUE}
    <3>1. CASE UNCHANGED <<enabled, key, reachable, named, thread>>
      BY <3>1 DEF thread
    <3>2. CASE Opens(FALSE) /\ enabled' = TRUE
      <4>1. key' \in Keys /\ reachable' = TRUE
        BY <3>2, OpensStore DEF HistoryInv
      <4> QED
        BY <3>2, <4>1 DEF Opens
    <3>3. CASE OpeningFails /\ UNCHANGED enabled
      <4>1. key' \in Keys \cup {0} /\ reachable' \in {reachable, TRUE} /\ named' \in {named, TRUE}
        BY <3>3, OpeningFailsStore DEF HistoryInv
      <4> QED
        BY <3>3, <4>1 DEF OpeningFails, thread
    <3> QED
      BY <1>2, <3>1, <3>2, <3>3 DEF Restart
  <2>2. up' = TRUE /\ paused' = (persisted = "paused")
        /\ UNCHANGED <<persisted, owed, op, step, reply, found, at, begun, asked, ends, ticks, told, seen>>
    BY <1>2 DEF Restart, control, bounds
  <2>3. enabled' \in BOOLEAN /\ paused' \in BOOLEAN
        /\ writer' \in {"none", "running", "failed"}
    BY <2>1, <2>2
  <2> QED
    BY <2>1, <2>2, <2>3
<1>3. CASE Reinstall
  BY <1>3 DEF Reinstall, manager, thread, control, bounds
<1>4. CASE Age \/ RotationDue
  <2>1. ticks' \in 0..MaxTicks
    BY <1>4, BoundsAssumption DEF Age, RotationDue
  <2> QED
    <3>1. due' \in BOOLEAN
      BY <1>4 DEF Age, RotationDue, thread
    <3>2. UNCHANGED <<persisted, key, reachable, up, enabled, paused, named, owed, writer, op, step,
                      reply, found, at, begun, asked, ends, told, seen>>
      BY <1>4 DEF Age, RotationDue, disk, manager, thread, control
    <3> QED
      BY <2>1, <3>1, <3>2
<1> QED
  BY <1>1, <1>2, <1>3, <1>4

-----------------------------------------------------------------------------
(* Messages.                                                               *)

\* The queue, its place in the order of the numbers, and its end.
MessagesOK ==
    /\ queue \in Seq(Messages) /\ Len(queue) <= Capacity
    /\ next \in Nat \ {0}
    /\ ShutdownIsLast /\ QueueOK

\* Fewer numbers on disk leave more room for those in the queue.
LEMMA FitsFewer ==
    ASSUME NEW q, NEW n, NEW stored, NEW then \in SUBSET stored, QueueFits(q, n, stored)
    PROVE  QueueFits(q, n, then)
BY DEF QueueFits

\* A step that leaves the queue alone.
LEMMA SameQueue ==
    ASSUME HistoryInv, MessagesOK, queue' = queue, next' = next,
           writer' = "running" => writer = "running" /\ Numbers(chunks') \subseteq Numbers(chunks),
           step' = step \/ step # "join" \/ queue = <<>>
    PROVE  MessagesOK'
<1>1. ShutdownIsLast'
  BY DEF MessagesOK, ShutdownIsLast
<1>2. ASSUME writer' = "running" PROVE QueueFits(queue', next', Numbers(chunks'))
  BY <1>2, FitsFewer DEF MessagesOK, QueueOK
<1> QED
  BY <1>1, <1>2 DEF MessagesOK, QueueOK

\* A step after which nothing is queued and nothing runs.
LEMMA NoQueue ==
    ASSUME MessagesOK, queue' = <<>>, next' \in Nat \ {0}, writer' # "running"
    PROVE  MessagesOK'
BY BoundsAssumption DEF MessagesOK, ShutdownIsLast, QueueOK

\* A writer that starts has nothing to write yet.
LEMMA StartedQueue ==
    ASSUME HistoryInv, MessagesOK, writer = "none", NEW first \in BOOLEAN, Opens(first)
    PROVE  MessagesOK'
<1>1. queue' = <<>>
  BY DEF HistoryInv, ThreadOK, Opens
<1>2. next' \in Nat \ {0} /\ \A m \in Numbers(chunks') : m < next'
  BY OpensStore DEF HistoryInv
<1>3. QueueFits(queue', next', Numbers(chunks'))
  BY <1>1, <1>2 DEF QueueFits
<1> QED
  BY <1>1, <1>2, <1>3, BoundsAssumption DEF MessagesOK, ShutdownIsLast, QueueOK

\* The writer takes the first message.
LEMMA TakenQueue ==
    ASSUME HistoryInv, MessagesOK, NEW k, Takes(k), next' = next, step' = step,
           StoreOK(chunks'),
           writer' = "running" =>
              /\ writer = "running"
              /\ Numbers(chunks') \subseteq
                   Numbers(chunks) \cup (IF k = "event" THEN {Head(queue).sequence} ELSE {})
    PROVE  MessagesOK'
<1>1. queue # <<>> /\ Head(queue).kind = k /\ queue' = Tail(queue)
  BY DEF Takes
<1>2. queue \in Seq(Messages) /\ next \in Nat \ {0}
  BY DEF MessagesOK
<1>3. /\ queue' \in Seq(Messages) /\ Len(queue') = Len(queue) - 1 /\ Len(queue) \in Nat
      /\ DOMAIN queue' = 1..(Len(queue) - 1) /\ DOMAIN queue = 1..Len(queue)
      /\ \A i \in DOMAIN queue' : queue'[i] = queue[i + 1]
  BY <1>1, <1>2, HeadTailProperties
<1>4. Len(queue') <= Capacity
  BY <1>3, BoundsAssumption DEF MessagesOK
<1>5. ShutdownIsLast'
  BY <1>3 DEF MessagesOK, ShutdownIsLast
<1>6. ASSUME writer' = "running" PROVE QueueFits(queue', next', Numbers(chunks'))
  <2>1. QueueFits(queue, next, Numbers(chunks))
    BY <1>6 DEF MessagesOK, QueueOK
  <2>2. Numbers(chunks) \subseteq Nat /\ Numbers(chunks') \subseteq Nat
    BY HighestNumberIs DEF HistoryInv, StorageOK
  <2>3. CASE k = "event"
    BY <1>1, <1>2, <1>6, <2>1, <2>2, <2>3, FitsTail
  <2>4. CASE k # "event"
    BY <1>1, <1>2, <1>6, <2>1, <2>2, <2>4, FitsTail
  <2> QED
    BY <2>3, <2>4
<1> QED
  BY <1>2, <1>3, <1>4, <1>5, <1>6 DEF MessagesOK, QueueOK

\* An event takes its place, and its number is taken.
LEMMA SentQueue ==
    ASSUME HistoryInv, MessagesOK, HasRoom(queue), step # "join",
           queue' = Append(queue, Event(next)), next' = next + 1,
           UNCHANGED <<writer, chunks>>
    PROVE  MessagesOK'
<1>1. queue \in Seq(Messages) /\ next \in Nat \ {0} /\ Len(queue) \in Nat
      /\ Numbers(chunks) \subseteq Nat
  BY HighestNumberIs DEF MessagesOK, HistoryInv, StorageOK
<1>2. Event(next) \in Messages /\ Event(next).kind = "event"
  BY <1>1 DEF Event, Messages
<1>3. queue' \in Seq(Messages) /\ Len(queue') = Len(queue) + 1
      /\ (\A i \in DOMAIN queue : queue'[i] = queue[i]) /\ queue'[Len(queue) + 1] = Event(next)
      /\ DOMAIN queue' = 1..(Len(queue) + 1) /\ DOMAIN queue = 1..Len(queue)
  BY <1>1, <1>2, AppendProperties
<1>4. Len(queue') <= Capacity
  BY <1>1, <1>3, BoundsAssumption DEF HasRoom
<1>5. ShutdownIsLast'
  BY <1>1, <1>2, <1>3 DEF MessagesOK, ShutdownIsLast
<1>6. QueueOK'
  <2>1. writer' = writer /\ Numbers(chunks') = Numbers(chunks)
    OBVIOUS
  <2>2. ASSUME writer = "running" PROVE QueueFits(queue', next', Numbers(chunks))
    <3>1. QueueFits(queue, next, Numbers(chunks))
      BY <2>2 DEF MessagesOK, QueueOK
    <3>2. next \in Nat /\ next <= next
      BY <1>1
    <3> QED
      BY <1>1, <3>1, <3>2, FitsEvent
  <2> QED
    BY <2>1, <2>2 DEF QueueOK
<1> QED
  BY <1>1, <1>3, <1>4, <1>5, <1>6 DEF MessagesOK

\* A request takes its place, the last one that of the end.
LEMMA RequestedQueue ==
    ASSUME HistoryInv, MessagesOK, HasRoom(queue), step # "join",
           NEW k \in {"flush", "read", "shutdown"}, queue' = Append(queue, Request(k)),
           next' = next, k = "shutdown" => step' = "join", UNCHANGED <<writer, chunks>>
    PROVE  MessagesOK'
<1>1. queue \in Seq(Messages) /\ next \in Nat \ {0} /\ Len(queue) \in Nat
      /\ Numbers(chunks) \subseteq Nat
  BY HighestNumberIs DEF MessagesOK, HistoryInv, StorageOK
<1>2. Request(k) \in Messages /\ Request(k).kind = k
  BY <1>1 DEF Request, Messages
<1>3. queue' \in Seq(Messages) /\ Len(queue') = Len(queue) + 1
      /\ (\A i \in DOMAIN queue : queue'[i] = queue[i]) /\ queue'[Len(queue) + 1] = Request(k)
      /\ DOMAIN queue' = 1..(Len(queue) + 1) /\ DOMAIN queue = 1..Len(queue)
  BY <1>1, <1>2, AppendProperties
<1>4. Len(queue') <= Capacity
  BY <1>1, <1>3, BoundsAssumption DEF HasRoom
<1>5. ShutdownIsLast'
  BY <1>1, <1>2, <1>3 DEF MessagesOK, ShutdownIsLast
<1>6. QueueOK'
  <2>1. writer' = writer /\ Numbers(chunks') = Numbers(chunks)
    OBVIOUS
  <2>2. ASSUME writer = "running" PROVE QueueFits(queue', next', Numbers(chunks))
    <3>1. QueueFits(queue, next, Numbers(chunks))
      BY <2>2 DEF MessagesOK, QueueOK
    <3> QED
      BY <1>1, <3>1, FitsRequest
  <2> QED
    BY <2>1, <2>2 DEF QueueOK
<1> QED
  BY <1>1, <1>3, <1>4, <1>5, <1>6 DEF MessagesOK

\* What try_send puts into the queue.
LEMMA OfferedFits ==
    ASSUME NEW q \in Seq(Messages), Len(q) <= Capacity, NEW n \in Nat \ {0},
           NEW stored \in SUBSET Nat
    PROVE  LET r == Offered(q, n) IN
           /\ r \in Seq(Messages) /\ Len(r) <= Capacity
           /\ QueueFits(q, n, stored) => QueueFits(r, n + 1, stored)
           /\ (\A i \in DOMAIN q : q[i].kind # "shutdown")
                => \A i \in DOMAIN r : r[i].kind # "shutdown"
<1>1. CASE HasRoom(q)
  <2> DEFINE r == Append(q, Event(n))
  <2>1. Event(n) \in Messages /\ Event(n).kind = "event"
    BY DEF Event, Messages
  <2>2. r \in Seq(Messages) /\ Len(r) = Len(q) + 1 /\ Len(q) \in Nat
        /\ (\A i \in DOMAIN q : r[i] = q[i]) /\ r[Len(q) + 1] = Event(n)
        /\ DOMAIN r = 1..(Len(q) + 1) /\ DOMAIN q = 1..Len(q)
    BY <2>1, AppendProperties
  <2>3. Len(r) <= Capacity
    BY <1>1, <2>2, BoundsAssumption DEF HasRoom
  <2>4. QueueFits(q, n, stored) => QueueFits(r, n + 1, stored)
    <3>1. n \in Nat /\ n <= n
      OBVIOUS
    <3> QED
      BY <3>1, FitsEvent
  <2>5. Offered(q, n) = r
    BY <1>1 DEF Offered
  <2> HIDE DEF r
  <2>6. (\A i \in DOMAIN q : q[i].kind # "shutdown") => \A i \in DOMAIN r : r[i].kind # "shutdown"
    BY <2>1, <2>2
  <2> QED
    BY <2>2, <2>3, <2>4, <2>5, <2>6
<1>2. CASE ~HasRoom(q)
  <2>1. Offered(q, n) = q
    BY <1>2 DEF Offered
  <2>2. QueueFits(q, n, stored) => QueueFits(q, n + 1, stored)
    <3>1. n + 1 \in Nat /\ n <= n + 1
      OBVIOUS
    <3> QED
      BY <3>1, FitsLater
  <2> QED
    BY <2>1, <2>2
<1> QED
  BY <1>1, <1>2

\* A dispatch offers its event, and the one that reports dropped events.
LEMMA OfferedQueue ==
    ASSUME HistoryInv, MessagesOK, NEW d \in Dispatches, TrySend(d), UNCHANGED <<writer, chunks, step>>
    PROVE  MessagesOK'
<1>1. CASE UNCHANGED <<queue, next>>
  BY <1>1, SameQueue
<1>2. CASE ~HandleHeld /\ ~UNCHANGED <<queue, next>>
  <2> DEFINE n == IF owed THEN next + 1 ELSE next
             r == IF owed THEN Offered(queue, next) ELSE queue
             stored == Numbers(chunks)
  <2>1. queue' = Offered(r, n) /\ next' = n + 1
    BY <1>2 DEF TrySend
  <2>2. /\ queue \in Seq(Messages) /\ Len(queue) <= Capacity /\ next \in Nat \ {0}
        /\ stored \in SUBSET Nat
    BY HighestNumberIs DEF MessagesOK, HistoryInv, StorageOK
  <2>3. \A i \in DOMAIN queue : queue[i].kind # "shutdown"
    BY <1>2 DEF MessagesOK, ShutdownIsLast, HandleHeld
  <2>4. /\ r \in Seq(Messages) /\ Len(r) <= Capacity /\ n \in Nat \ {0}
        /\ QueueFits(queue, next, stored) => QueueFits(r, n, stored)
        /\ \A i \in DOMAIN r : r[i].kind # "shutdown"
    <3>1. CASE owed
      <4>1. LET q == Offered(queue, next) IN
            /\ q \in Seq(Messages) /\ Len(q) <= Capacity
            /\ QueueFits(queue, next, stored) => QueueFits(q, next + 1, stored)
            /\ \A i \in DOMAIN q : q[i].kind # "shutdown"
        BY <2>2, <2>3, OfferedFits
      <4>2. r = Offered(queue, next) /\ n = next + 1 /\ n \in Nat \ {0}
        BY <2>2, <3>1
      <4> HIDE DEF r, n
      <4> QED
        BY <4>1, <4>2
    <3>2. CASE ~owed
      BY <2>2, <2>3, <3>2
    <3> QED
      BY <3>1, <3>2
  <2> HIDE DEF n, r
  <2>50. LET q == Offered(r, n) IN
         /\ q \in Seq(Messages) /\ Len(q) <= Capacity
         /\ QueueFits(r, n, stored) => QueueFits(q, n + 1, stored)
         /\ \A i \in DOMAIN q : q[i].kind # "shutdown"
    BY <2>2, <2>4, OfferedFits
  <2>5. /\ queue' \in Seq(Messages) /\ Len(queue') <= Capacity /\ next' \in Nat \ {0}
        /\ QueueFits(r, n, stored) => QueueFits(queue', next', stored)
        /\ \A i \in DOMAIN queue' : queue'[i].kind # "shutdown"
    BY <2>1, <2>4, <2>50
  <2>6. QueueOK'
    <3>1. writer' = writer /\ Numbers(chunks') = stored
      OBVIOUS
    <3>2. writer = "running" => QueueFits(queue', next', stored)
      BY <2>4, <2>5 DEF MessagesOK, QueueOK
    <3> QED
      BY <3>1, <3>2 DEF QueueOK
  <2>7. ShutdownIsLast'
    BY <2>5 DEF ShutdownIsLast
  <2> QED
    BY <2>5, <2>6, <2>7 DEF MessagesOK
<1> QED
  BY <1>1, <1>2 DEF TrySend

\* Every step keeps the messages in order.
LEMMA MessagesStep ==
    ASSUME HistoryInv, MessagesOK, [Next]_vars, StoreOK(chunks')
    PROVE  MessagesOK'
<1>1. CASE Call
  <2>1. CASE Enable
    <3>1. CASE Opens(TRUE)
      <4>1. writer = "none"
        BY <2>1 DEF Enable, Asks, HistoryInv, Inv, WriterOK
      <4> QED
        BY <3>1, <4>1, StartedQueue
    <3>2. CASE OpeningFails /\ op = "none"
      <4>1. UNCHANGED <<queue, next, writer>> /\ writer = "none" /\ (writer = "none" => queue = <<>>)
        BY <2>1, <3>2 DEF Enable, OpeningFails, HistoryInv, Inv, WriterOK, ThreadOK, thread
      <4> QED
        BY <4>1, SameQueue
    <3> QED
      BY <2>1, <3>1, <3>2 DEF Enable, Asks
  <2>2. CASE QueryStopped
    <3>1. writer = "none" /\ writer' = "none" /\ queue' = <<>>
      BY <2>2 DEF QueryStopped, HistoryInv, ThreadOK, thread
    <3>2. next' \in Nat \ {0}
      BY <2>2, QueryStoppedStores DEF HistoryInv
    <3> QED
      BY <3>1, <3>2, NoQueue
  <2>3. CASE ~Enable /\ ~QueryStopped
    <3>1. op = "none" /\ UNCHANGED <<queue, next, writer, chunks>>
      BY <1>1, <2>3 DEF Call, Disable, Pause, Resume, Mark, Delete, Query, Drop, Asks,
         disk, manager, thread
    <3>2. step # "join"
      BY <3>1 DEF HistoryInv, StopOK
    <3> QED
      BY <3>1, <3>2, SameQueue
  <2> QED
    BY <2>1, <2>2, <2>3
<1>2. CASE ControlStep
  <2>1. CASE Send
    BY <2>1, SentQueue DEF Send, disk
  <2>2. CASE Flush
    BY <2>2, RequestedQueue DEF Flush, Requests, disk, manager
  <2>3. CASE AskSnapshot
    BY <2>3, RequestedQueue DEF AskSnapshot, Requests, disk, manager
  <2>4. CASE Stop
    BY <2>4, RequestedQueue DEF Stop, Requests, disk, manager
  <2>5. CASE Flushed \/ Snapshot \/ EnablePersist \/ DisablePersist \/ DeletePersist
             \/ DestroyKey \/ ForgetKey
    <3>1. step # "join" /\ UNCHANGED <<queue, next, writer, chunks>>
      BY <2>5 DEF Flushed, Snapshot, EnablePersist, DisablePersist, DeletePersist,
         DestroyKey, ForgetKey, disk, manager, thread
    <3> QED
      BY <3>1, SameQueue
  <2>6. CASE Joined
    <3>1. queue = <<>> /\ UNCHANGED <<queue, next, writer, chunks>>
      BY <2>6 DEF Joined, disk, thread, HistoryInv, ThreadOK
    <3> QED
      BY <3>1, SameQueue
  <2>7. CASE Dropped
    BY <2>7, NoQueue DEF Dropped, Gone
  <2>8. CASE RemoveChunk
    <3>1. step # "join" /\ UNCHANGED <<queue, next, writer>>
      BY <2>8 DEF RemoveChunk, manager, thread
    <3>2. Numbers(chunks') \subseteq Numbers(chunks)
      BY <2>8, RemoveChunkStores DEF HistoryInv, Stored
    <3> QED
      BY <3>1, <3>2, SameQueue
  <2>9. CASE Removed
    <3>1. writer = "none" /\ writer' = writer /\ queue' = queue /\ next' = 1
      BY <2>9 DEF Removed, thread, HistoryInv, Inv, WriterOK, StepOK
    <3>2. queue' = <<>> /\ next' \in Nat \ {0} /\ writer' # "running"
      BY <3>1 DEF HistoryInv, ThreadOK
    <3> QED
      BY <3>2, NoQueue
  <2> QED
    BY <1>2, <2>1, <2>2, <2>3, <2>4, <2>5, <2>6, <2>7, <2>8, <2>9 DEF ControlStep
<1>3. CASE GiveUp
  <2> DEFINE r == [i \in DOMAIN queue |-> [queue[i] EXCEPT !.heard = FALSE]]
  <2>1. queue' = r /\ UNCHANGED <<next, writer, step, chunks>>
    BY <1>3 DEF GiveUp, disk, manager
  <2>2. queue \in Seq(Messages) /\ next \in Nat \ {0} /\ Numbers(chunks) \subseteq Nat
    BY HighestNumberIs DEF MessagesOK, HistoryInv, StorageOK
  <2>3. /\ r \in Seq(Messages) /\ Len(r) = Len(queue)
        /\ \A i \in DOMAIN r : i \in DOMAIN queue /\ r[i].kind = queue[i].kind
        /\ QueueFits(queue, next, Numbers(chunks)) => QueueFits(r, next, Numbers(chunks))
    BY <2>2, FitsHeard
  <2> HIDE DEF r
  <2>4. QueueOK'
    <3>1. writer' = writer /\ Numbers(chunks') = Numbers(chunks)
      BY <2>1
    <3>2. writer = "running" => QueueFits(queue', next', Numbers(chunks))
      BY <2>1, <2>3 DEF MessagesOK, QueueOK
    <3> QED
      BY <3>1, <3>2 DEF QueueOK
  <2>5. ShutdownIsLast'
    BY <2>1, <2>3 DEF MessagesOK, ShutdownIsLast
  <2> QED
    BY <2>1, <2>2, <2>3, <2>4, <2>5 DEF MessagesOK
<1>4. CASE WriterStep
  <2>1. CASE WriteEvent
    <3>1. Takes("event") /\ writer = "running" /\ UNCHANGED <<next, step>>
      BY <2>1 DEF WriteEvent, control
    <3>2. Numbers(chunks') \subseteq Numbers(chunks) \cup {Head(queue).sequence}
      BY <2>1, WriteEventStores DEF HistoryInv, Stored
    <3> QED
      BY <3>1, <3>2, TakenQueue
  <2>2. CASE DropEvent
    <3>1. Takes("event") /\ writer' # "running" /\ UNCHANGED <<next, step>>
      BY <2>2 DEF DropEvent, Drains, control
    <3> QED
      BY <3>1, TakenQueue
  <2>3. CASE AnswerFlush
    <3>1. Takes("flush") /\ UNCHANGED <<next, step, writer, chunks>>
      BY <2>3 DEF AnswerFlush, disk, manager
    <3> QED
      BY <3>1, TakenQueue
  <2>4. CASE AnswerSnapshot
    <3>1. Takes("read") /\ UNCHANGED <<next, step, writer>>
      BY <2>4 DEF AnswerSnapshot, manager
    <3>2. Numbers(chunks') \subseteq Numbers(chunks)
      BY <2>4, CheckpointStores DEF HistoryInv, Stored
    <3> QED
      BY <3>1, <3>2, TakenQueue
  <2>5. CASE Shutdown
    <3>1. Takes("shutdown") /\ UNCHANGED <<next, step>> /\ writer' = "none"
      BY <2>5 DEF Shutdown, manager, control
    <3> QED
      BY <3>1, TakenQueue
  <2> QED
    BY <1>4, <2>1, <2>2, <2>3, <2>4, <2>5 DEF WriterStep
<1>5. CASE Maintain
  <2>1. UNCHANGED <<queue, next, step>> /\ writer' \in {writer, "failed"}
    BY <1>5 DEF Maintain, Terminal, manager, control
  <2>2. Numbers(chunks') \subseteq Numbers(chunks)
    BY <1>5, CheckpointStores DEF HistoryInv, Stored
  <2> QED
    BY <2>1, <2>2, SameQueue
<1>6. ASSUME NEW d \in Dispatches, DispatchStep(d) PROVE MessagesOK'
  <2>1. CASE SendStarted(d) \/ SendCompleted(d)
    BY <2>1, OfferedQueue DEF SendStarted, SendCompleted, disk, control
  <2>2. CASE Begin(d) \/ Name(d) \/ Finish(d)
    BY <2>2, SameQueue DEF Begin, Name, Finish, disk, manager, thread, control
  <2> QED
    BY <1>6, <2>1, <2>2 DEF DispatchStep
<1>7. CASE Crash
  BY <1>7, NoQueue DEF Crash, Gone
<1>8. CASE Restart
  <2>1. writer = "none" /\ queue = <<>> /\ UNCHANGED step
    BY <1>8 DEF Restart, control, HistoryInv, ThreadOK
  <2>2. CASE Opens(FALSE)
    BY <2>1, <2>2, StartedQueue
  <2>3. CASE UNCHANGED <<next, thread>>
    BY <2>1, <2>3, SameQueue DEF thread
  <2> QED
    BY <1>8, <2>2, <2>3 DEF Restart, OpeningFails
<1>9. CASE Reinstall \/ RotationDue \/ UNCHANGED vars
  BY <1>9, SameQueue DEF Reinstall, RotationDue, vars, disk, manager, thread, control
<1>10. CASE Age
  <2>1. Numbers(chunks') \subseteq Numbers(chunks)
    BY <1>10, AgeStores DEF HistoryInv, Stored
  <2> QED
    BY <1>10, <2>1, SameQueue DEF Age, manager, thread, control
<1> QED
  BY <1>1, <1>2, <1>3, <1>4, <1>5, <1>6, <1>7, <1>8, <1>9, <1>10 DEF Next

-----------------------------------------------------------------------------
(* The writer and the operations.                                          *)

\* The life of the writer and of the operations.
LifeOK == ThreadOK /\ KeyOK /\ StopOK

\* A start of the writer, or one that fails.
LEMMA OpensLife ==
    ASSUME HistoryInv, NEW first \in BOOLEAN, Opens(first)
    PROVE  writer' = "running" /\ DOMAIN chunks' # {} /\ reachable' = TRUE
BY OpensStore DEF Opens, HistoryInv

\* A start that fails leaves no writer, and may have found the key.
LEMMA OpeningFailsLife ==
    ASSUME HistoryInv, OpeningFails, writer = "none"
    PROVE  writer' = "none" /\ queue' = <<>> /\ reachable' \in {reachable, TRUE}
BY OpeningFailsStore DEF OpeningFails, thread, HistoryInv, ThreadOK

\* A call begins where no other operation is under way.
LEMMA CallLife ==
    ASSUME HistoryInv, Call
    PROVE  LifeOK'
<1> USE DEF LifeOK, ThreadOK, KeyOK, StopOK, Waiting
<1>0. HistoryInv /\ ThreadOK /\ KeyOK /\ StopOK /\ Inv
  BY DEF HistoryInv
<1>1. CASE Enable
  <2>1. up /\ ~enabled /\ op = "none" /\ writer = "none"
    BY <1>0, <1>1 DEF Enable, Asks, Inv, WriterOK
  <2>5. ASSUME NEW o, NEW s, Asks(o, s)
        PROVE  op' = o /\ step' = s /\ UNCHANGED <<up, at, ends>>
    BY <2>5 DEF Asks
  <2>6. Asks("enable", "persist") \/ Asks("none", "idle")
    BY <1>1 DEF Enable
  <2>7. (op' = "enable" /\ step' = "persist") \/ (op' = "none" /\ step' = "idle")
    BY <2>5, <2>6
  <2>2. UNCHANGED enabled /\ UNCHANGED <<up, at, ends>>
    BY <1>1, <2>5, <2>6 DEF Enable
  <2>3. CASE Opens(TRUE)
    BY <1>0, <2>1, <2>2, <2>3, <2>7, OpensLife
  <2>4. CASE OpeningFails /\ op' = "none"
    BY <1>0, <2>1, <2>2, <2>4, <2>7, OpeningFailsLife
  <2> QED
    BY <1>1, <2>3, <2>4 DEF Enable, Asks
<1>2. CASE QueryStopped
  <2>1. writer = "none" /\ up /\ op = "none" /\ op' = "none" /\ step' = "idle"
        /\ UNCHANGED <<up, enabled, at, ends, writer, queue>>
    BY <1>2 DEF QueryStopped, Asks, thread
  <2>2. reachable' \in {reachable, TRUE}
    BY <1>2 DEF QueryStopped, disk
  <2> QED
    BY <1>0, <2>1, <2>2
<1>3. CASE ~Enable /\ ~QueryStopped
  <2>1. up /\ op = "none" /\ UNCHANGED <<up, at, ends, writer, queue, chunks, reachable>>
    BY <1>3 DEF Call, Disable, Pause, Resume, Mark, Delete, Query, Drop, Asks,
       disk, manager, thread, bounds
  <2>2. \/ op' = "disable" /\ step' = "persist" /\ ~enabled'
        \/ op' \in {"pause", "resume", "flush"} /\ step' = "send" /\ writer # "none" /\ enabled' = enabled
        \/ op' = "none" /\ step' = "idle" /\ enabled' = enabled
        \/ op' = "delete" /\ step' = "send" /\ writer # "none" /\ ~enabled'
        \/ op' = "delete" /\ step' = "persist" /\ ~enabled'
        \/ op' = "query" /\ step' = "read" /\ writer # "none" /\ enabled' = enabled
        \/ op' = "quit" /\ step' = "stop" /\ writer # "none" /\ ends < MaxEnds
        \/ op' = "quit" /\ step' = "join" /\ ends < MaxEnds
    BY <1>0, <1>3 DEF Call, Disable, Pause, Resume, Mark, Delete, Query, Drop, Asks,
       disk, manager, thread, bounds
  <2> QED
    BY <1>0, <2>1, <2>2
<1> QED
  BY <1>1, <1>2, <1>3

\* A step of an operation ends nothing that it needs.
LEMMA ControlLife ==
    ASSUME HistoryInv, ControlStep
    PROVE  LifeOK'
<1> USE DEF LifeOK, ThreadOK, KeyOK, StopOK, Waiting
<1>0. HistoryInv /\ ThreadOK /\ KeyOK /\ StopOK /\ Inv
  BY DEF HistoryInv
<1>1. ASSUME UNCHANGED <<up, at, ends, writer, queue, chunks, reachable>>, step # "idle", op # "quit",
             \/ op' = "none" /\ step' = "idle"
             \/ /\ op' = op /\ step' # "idle"
                /\ step' \in Waiting => writer # "none"
                /\ step' \in {"stop", "join"} => op \in {"enable", "disable", "delete", "quit"}
                /\ op = "enable" => step' # "persist",
             enabled' = enabled \/ enabled' = FALSE \/ (writer # "none" /\ op' # "enable")
      PROVE  LifeOK'
  BY <1>0, <1>1
<1>2. CASE Send \/ Flush \/ AskSnapshot \/ Stop
  <2>1. /\ UNCHANGED <<up, at, ends, writer, chunks, reachable, op, enabled>> /\ writer # "none"
        /\ step # "idle"
        /\ \/ step' \in {"flush", "wait", "reading"}
           \/ step' = "join" /\ step = "stop"
    BY <1>0, <1>2 DEF Send, Flush, AskSnapshot, Stop, Requests, disk, manager, bounds
  <2> QED
    BY <1>0, <2>1
<1>3. CASE Flushed
  <2>1. step = "wait" /\ op # "quit" /\ UNCHANGED <<up, at, ends, writer, queue, chunks, reachable, enabled>>
    BY <1>3 DEF Flushed, thread, Goto, Confirms, Fails, Returns, bounds
  <2>2. \/ op' = "none" /\ step' = "idle"
        \/ op' = op /\ step' = "stop" /\ op \in {"disable", "delete"}
    BY <1>3 DEF Flushed, Goto, Confirms, Fails, Returns
  <2> QED
    BY <1>0, <1>1, <2>1, <2>2
<1>4. CASE Snapshot
  <2>1. step = "reading" /\ op # "quit" /\ UNCHANGED <<up, at, ends, writer, queue, chunks, reachable, enabled>>
    BY <1>0, <1>4 DEF Snapshot, thread, disk, manager, Fails, Returns, bounds, Inv, StepOK
  <2>2. \/ op' = "none" /\ step' = "idle"
        \/ op' = op /\ step' = "send"
    BY <1>4 DEF Snapshot, Fails, Returns
  <2> QED
    BY <1>0, <1>1, <2>1, <2>2
<1>5. CASE Joined
  <2>1. step = "join" /\ op # "quit" /\ UNCHANGED <<up, at, ends, writer, queue, chunks, reachable>>
        /\ enabled' \in {enabled, FALSE}
    BY <1>5 DEF Joined, disk, thread, Goto, Confirms, Fails, Returns, bounds
  <2>2. \/ op' = "none" /\ step' = "idle"
        \/ op' = op /\ step' = "persist" /\ op = "delete"
    BY <1>5 DEF Joined, Goto, Confirms, Fails, Returns
  <2> QED
    BY <1>0, <1>1, <2>1, <2>2
<1>6. CASE Dropped
  <2>1. /\ ~up' /\ ~enabled' /\ writer' = "none" /\ queue' = <<>> /\ op' = "none" /\ step' = "idle"
        /\ at' = [d \in Dispatches |-> "idle"]
    BY <1>6 DEF Dropped, Gone
  <2> QED
    BY <2>1
<1>7. CASE EnablePersist
  <2>1. step = "persist" /\ op # "quit" /\ writer # "none"
        /\ UNCHANGED <<up, at, ends, writer, queue, chunks, reachable>>
    BY <1>0, <1>7 DEF EnablePersist, thread, Goto, Confirms, Returns, bounds
  <2>2. \/ op' = "none" /\ step' = "idle"
        \/ op' = op /\ step' = "stop" /\ op = "enable" /\ enabled' = enabled
    BY <1>7 DEF EnablePersist, Goto, Confirms, Returns
  <2> QED
    BY <1>0, <1>1, <2>1, <2>2
<1>8. CASE DisablePersist
  <2>1. step = "persist" /\ op # "quit" /\ UNCHANGED <<up, at, ends, writer, queue, chunks, reachable>>
    BY <1>8 DEF DisablePersist, thread, Goto, Confirms, Fails, Returns, bounds
  <2>2. \/ op' = "none" /\ step' = "idle" /\ enabled' \in {enabled, (writer # "none")}
        \/ op' = op /\ step' = "send" /\ op = "disable" /\ writer # "none" /\ enabled' = enabled
    BY <1>8 DEF DisablePersist, Goto, Confirms, Fails, Returns
  <2> QED
    BY <1>0, <1>1, <2>1, <2>2
<1>9. CASE DeletePersist
  <2>1. step = "persist" /\ op # "quit" /\ UNCHANGED <<up, at, ends, writer, queue, chunks, reachable, enabled>>
    BY <1>9 DEF DeletePersist, manager, thread, Goto, Fails, Returns, bounds
  <2>2. \/ op' = "none" /\ step' = "idle"
        \/ op' = op /\ step' = "destroy"
    BY <1>9 DEF DeletePersist, Goto, Fails, Returns
  <2> QED
    BY <1>0, <1>1, <2>1, <2>2
<1>10. CASE DestroyKey
  <2>1. step = "destroy" /\ op = "delete" /\ reachable' \in {reachable, TRUE}
        /\ UNCHANGED <<up, at, ends, writer, queue, chunks, enabled>>
    BY <1>0, <1>10 DEF DestroyKey, manager, thread, Goto, Fails, Returns, bounds, Inv, StepOK
  <2>2. \/ op' = "none" /\ step' = "idle"
        \/ op' = op /\ step' = "forget"
    BY <1>10 DEF DestroyKey, Goto, Fails, Returns
  <2> QED
    BY <1>0, <2>1, <2>2
<1>11. CASE ForgetKey
  <2>1. step = "forget" /\ op = "delete" /\ UNCHANGED <<up, at, ends, writer, queue, chunks, reachable, enabled>>
    BY <1>0, <1>11 DEF ForgetKey, disk, thread, Goto, Fails, Returns, bounds, Inv, StepOK
  <2>2. \/ op' = "none" /\ step' = "idle"
        \/ op' = op /\ step' = "remove"
    BY <1>11 DEF ForgetKey, Goto, Fails, Returns
  <2> QED
    BY <1>0, <1>1, <2>1, <2>2
<1>12. CASE RemoveChunk
  <2>1. step = "remove" /\ op = "delete" /\ writer = "none"
        /\ UNCHANGED <<up, at, ends, writer, queue, reachable, enabled>>
    BY <1>0, <1>12 DEF RemoveChunk, manager, thread, Goto, Fails, Returns, bounds, Inv, StepOK, WriterOK
  <2>2. \/ op' = "none" /\ step' = "idle"
        \/ op' = op /\ step' = "remove"
    BY <1>12 DEF RemoveChunk, Goto, Fails, Returns
  <2> QED
    BY <1>0, <2>1, <2>2
<1>13. CASE Removed
  <2>1. step = "remove" /\ op = "delete" /\ UNCHANGED <<up, at, ends, writer, queue, chunks, reachable, enabled>>
        /\ op' = "none" /\ step' = "idle"
    BY <1>0, <1>13 DEF Removed, Returns, disk, thread, bounds, Inv, StepOK
  <2> QED
    BY <1>0, <1>1, <2>1
<1> QED
  BY <1>2, <1>3, <1>4, <1>5, <1>6, <1>7, <1>8, <1>9, <1>10, <1>11, <1>12, <1>13 DEF ControlStep

\* The writer ends when it is told to, and a dispatch begins while there is one.
LEMMA ThreadLife ==
    ASSUME HistoryInv, MessagesOK,
           GiveUp \/ WriterStep \/ Maintain \/ \E d \in Dispatches : DispatchStep(d)
    PROVE  LifeOK'
<1> USE DEF LifeOK, ThreadOK, KeyOK, StopOK, Waiting
<1>0. HistoryInv /\ ThreadOK /\ KeyOK /\ StopOK /\ Inv
  BY DEF HistoryInv
<1>1. CASE GiveUp
  <2>1. UNCHANGED <<up, at, ends, writer, chunks, reachable, enabled, op, step>>
        /\ (queue = <<>> => queue' = <<>>) /\ writer # "none"
    BY <1>0, <1>1 DEF GiveUp, disk, manager, bounds
  <2> QED
    BY <1>0, <2>1
<1>2. CASE WriteEvent \/ DropEvent \/ AnswerFlush \/ AnswerSnapshot
  <2>1. /\ UNCHANGED <<up, at, ends, reachable, enabled, op, step>>
        /\ writer # "none" /\ writer' \in {writer, "failed"}
    BY <1>2 DEF WriteEvent, DropEvent, AnswerFlush, AnswerSnapshot, Drains, Terminal,
       disk, manager, control, bounds
  <2>2. writer = "running" => DOMAIN chunks' # {}
    BY <1>0, <1>2, WriteEventStores, CheckpointStores DEF DropEvent, AnswerFlush, disk, HistoryInv
  <2> QED
    BY <1>0, <2>1, <2>2
<1>3. CASE Shutdown
  <2>1. /\ UNCHANGED <<up, at, ends, chunks, reachable, enabled, op, step>>
        /\ writer # "none" /\ writer' = "none" /\ Takes("shutdown")
    BY <1>3 DEF Shutdown, disk, manager, control, bounds
  <2>2. queue' = <<>> /\ step = "join"
    <3>1. queue \in Seq(Messages) /\ queue # <<>> /\ queue[1].kind = "shutdown" /\ queue' = Tail(queue)
      BY <2>1, HeadTailProperties DEF Takes, MessagesOK
    <3>3. 1 \in DOMAIN queue
      BY <3>1
    <3>2. 1 = Len(queue) /\ step = "join"
      BY <3>1, <3>3 DEF MessagesOK, ShutdownIsLast
    <3> QED
      BY <3>1, <3>2
  <2>3. op \in {"enable", "disable", "delete", "quit"} /\ (op = "quit" \/ ~enabled)
    BY <1>0, <2>2 DEF Inv, ChangeOK
  <2>4. writer # "none" /\ up
    BY <1>0, <2>1
  <2>5. reachable
    BY <1>0, <2>1
  <2> QED
    BY <1>0, <2>1, <2>2, <2>3, <2>4, <2>5
<1>4. CASE Maintain
  <2>1. UNCHANGED <<up, at, ends, reachable, enabled, op, step, queue>>
        /\ writer = "running" /\ writer' \in {writer, "failed"}
    BY <1>4 DEF Maintain, Terminal, manager, control, bounds
  <2>2. DOMAIN chunks' # {}
    BY <1>4, <2>1, CheckpointStores DEF HistoryInv
  <2> QED
    BY <1>0, <2>1, <2>2
<1>5. ASSUME NEW d \in Dispatches, DispatchStep(d) PROVE LifeOK'
  <2>1. UNCHANGED <<up, ends, enabled, op, step, writer, chunks>>
    BY <1>5 DEF DispatchStep, Begin, Name, SendStarted, Finish, SendCompleted,
       disk, manager, thread, control, bounds
  <2>2. \E s \in {"start", "ready", "acting", "finish", "idle"} : at' = [at EXCEPT ![d] = s]
    BY <1>5 DEF DispatchStep, Begin, Name, SendStarted, Finish, SendCompleted, Goes
  <2>3. writer = "none" => queue' = <<>>
    BY <1>0, <1>5 DEF DispatchStep, Begin, Name, SendStarted, Finish, SendCompleted, TrySend,
       disk, manager, thread
  <2>4. up
    <3>1. at[d] # "idle" \/ up
      BY <1>5 DEF DispatchStep, Begin, Name, SendStarted, Finish, SendCompleted, Goes
    <3> QED
      BY <1>0, <3>1
  <2>5. writer # "none" \/ (\E e \in Dispatches : at'[e] = "start") => reachable'
    <3>1. CASE Begin(d)
      <4>1. reachable' = reachable /\ writer # "none"
        BY <1>0, <3>1 DEF Begin, IsCapturing, disk
      <4> QED
        BY <1>0, <4>1
    <3>2. CASE ~Begin(d)
      <4>1. \E s \in {"ready", "acting", "finish", "idle"} : at' = [at EXCEPT ![d] = s]
        BY <1>5, <3>2 DEF DispatchStep, Name, SendStarted, Finish, SendCompleted, Goes
      <4>2. \A e \in Dispatches : at'[e] = "start" => at[e] = "start"
        BY <4>1
      <4>3. reachable' \in {reachable, TRUE}
        BY <1>5, <3>2 DEF DispatchStep, Name, SendStarted, Finish, SendCompleted, disk
      <4> QED
        BY <1>0, <4>2, <4>3
    <3> QED
      BY <3>1, <3>2
  <2> QED
    BY <1>0, <2>1, <2>3, <2>4, <2>5
<1> QED
  BY <1>1, <1>2, <1>3, <1>4, <1>5 DEF WriterStep

\* The end of the process leaves nothing behind that runs.
LEMMA ProcessLife ==
    ASSUME HistoryInv, Crash \/ Restart \/ Reinstall \/ Age \/ RotationDue \/ UNCHANGED vars
    PROVE  LifeOK'
<1> USE DEF LifeOK, ThreadOK, KeyOK, StopOK, Waiting
<1>0. HistoryInv /\ ThreadOK /\ KeyOK /\ StopOK /\ Inv
  BY DEF HistoryInv
<1>1. CASE Crash
  <2>1. /\ ~up' /\ ~enabled' /\ writer' = "none" /\ queue' = <<>> /\ op' = "none" /\ step' = "idle"
        /\ at' = [d \in Dispatches |-> "idle"]
    BY <1>1 DEF Crash, Gone
  <2> QED
    BY <2>1
<1>2. CASE Restart
  <2>1. /\ ~up /\ up' = TRUE /\ UNCHANGED <<op, step, at, ends>> /\ writer = "none"
        /\ op = "none" /\ step = "idle" /\ ~enabled /\ queue = <<>>
        /\ \A d \in Dispatches : at[d] = "idle"
    BY <1>0, <1>2 DEF Restart, control, bounds, Inv, StepOK
  <2>2. CASE Opens(FALSE)
    BY <1>0, <2>1, <2>2, OpensLife
  <2>3. CASE UNCHANGED <<enabled, writer, queue>>
    BY <1>0, <2>1, <2>3
  <2> QED
    BY <1>2, <2>2, <2>3 DEF Restart, OpeningFails, thread
<1>3. CASE Reinstall
  <2>1. UNCHANGED <<up, at, ends, enabled, op, step, queue, writer>> /\ ~up
    BY <1>3 DEF Reinstall, manager, thread, control, bounds
  <2> QED
    BY <1>0, <2>1
<1>4. CASE Age
  <2>1. UNCHANGED <<up, at, ends, reachable, enabled, op, step, queue, writer>>
    BY <1>4 DEF Age, manager, thread, control
  <2>2. DOMAIN chunks' = DOMAIN chunks
    BY <1>4, AgeStores DEF HistoryInv
  <2> QED
    BY <1>0, <2>1, <2>2
<1>5. CASE RotationDue \/ UNCHANGED vars
  <2>1. UNCHANGED <<up, at, ends, reachable, enabled, op, step, queue, writer, chunks>>
    BY <1>5 DEF RotationDue, vars, disk, manager, thread, control, bounds
  <2> QED
    BY <1>0, <2>1
<1> QED
  BY <1>1, <1>2, <1>3, <1>4, <1>5

-----------------------------------------------------------------------------
(* What holds.                                                             *)

\* The invariant holds at first.
LEMMA InitHistory == Init => HistoryInv
<1> SUFFICES ASSUME Init PROVE HistoryInv
  OBVIOUS
<1>1. chunks = <<>> /\ DOMAIN chunks = {} /\ queue = <<>> /\ DOMAIN queue = {}
  BY DEF Init
<1>2. Numbers(chunks) = {}
  BY <1>1, NumbersAre
<1>3. IsStore(chunks)
  BY <1>1 DEF IsStore, Places
<1>4. StoreOK(chunks) /\ OneKey
  BY <1>1, <1>2, <1>3 DEF StoreOK, IsBounded, InOrder, OneKey, HasKey, Keys
<1>5. TypeOK
  <2>1. ScalarsOK
    <3>1. at \in [Dispatches -> {"idle", "start", "ready", "acting", "finish"}]
      BY DEF Init
    <3>2. begun \in 0..MaxActions /\ asked \in 0..MaxAsked
          /\ ends \in 0..MaxEnds /\ ticks \in 0..MaxTicks
      BY BoundsAssumption DEF Init
    <3>3. reachable \in BOOLEAN /\ up \in BOOLEAN /\ enabled \in BOOLEAN
          /\ paused \in BOOLEAN /\ named \in BOOLEAN /\ owed \in BOOLEAN /\ due \in BOOLEAN
      BY DEF Init
    <3> QED
      BY <3>1, <3>2, <3>3 DEF Init, ScalarsOK
  <2>2. queue \in Seq(Messages) /\ Len(queue) <= Capacity /\ next \in Nat \ {0}
    BY BoundsAssumption DEF Init
  <2> QED
    BY <1>3, <2>1, <2>2 DEF TypeOK, ScalarsOK, IsStore
<1>6. ThreadOK /\ StopOK /\ ShutdownIsLast /\ QueueOK /\ KeyOK
  <2>1. \A d \in Dispatches : at[d] = "idle"
    BY DEF Init
  <2> QED
    BY <1>1, <2>1 DEF Init, ThreadOK, StopOK, ShutdownIsLast, QueueOK, KeyOK, Waiting
<1>7. Inv
  BY InitInv
<1> QED
  BY <1>4, <1>5, <1>6, <1>7 DEF HistoryInv, StorageOK

\* Every step keeps it.
LEMMA HistoryStep == HistoryInv /\ [Next]_vars => HistoryInv'
<1> SUFFICES ASSUME HistoryInv, [Next]_vars PROVE HistoryInv'
  OBVIOUS
<1>1. TypeOK /\ ScalarsOK /\ MessagesOK
  BY DEF HistoryInv, StorageOK, TypeOK, ScalarsOK, MessagesOK
<1>2. Inv'
  BY InvStep DEF HistoryInv
<1>3. StoreOK(chunks') /\ OneKey'
  BY StorageStep
<1>4. MessagesOK'
  BY <1>1, <1>3, MessagesStep
<1>5. LifeOK'
  BY <1>1, CallLife, ControlLife, ThreadLife, ProcessLife DEF Next
<1>6. ScalarsOK'
  <2>1. CASE UNCHANGED vars
    BY <1>1, <2>1 DEF ScalarsOK, vars, disk, manager, thread, control, bounds
  <2>2. CASE Next
    BY <1>1, <2>2, CallTypes, ControlTypes, ThreadTypes, ProcessTypes DEF Next
  <2> QED
    BY <2>1, <2>2
<1>7. TypeOK'
  BY <1>3, <1>4, <1>6 DEF TypeOK, ScalarsOK, MessagesOK, StoreOK, IsStore
<1> QED
  BY <1>2, <1>3, <1>4, <1>5, <1>7 DEF HistoryInv, StorageOK, MessagesOK, LifeOK

\* What is reached satisfies it.
LEMMA HistoryHolds == Spec => []HistoryInv
BY InitHistory, HistoryStep, PTL DEF Spec

\* HistoryManager, its writer and its store keep values of their types, whatever
\* fails and whenever the process ends.
THEOREM TypesHold == Spec => []TypeOK
<1>1. HistoryInv => TypeOK
  BY DEF HistoryInv, StorageOK
<1> QED
  BY <1>1, HistoryHolds, PTL

\* HistoryStore: over crashes, restarts, rotations, audits without a writer and
\* pruning, the sequence numbers on disk increase in the order of writing.
THEOREM NumbersStayInOrder == Spec => []StoredInOrder
<1>1. HistoryInv => StoredInOrder
  BY DEF HistoryInv, StorageOK, StoreOK, StoredInOrder
<1> QED
  BY <1>1, HistoryHolds, PTL

\* Where a key is loaded, it is the one the chunks are encrypted with, or there is none.
LEMMA KeyStep ==
    ASSUME HistoryInv, Next, key' \notin {0, key}
    PROVE  \A i \in DOMAIN chunks : chunks[i].of # key
<1>1. CASE DOMAIN chunks = {} \/ key = 0
  <2>1. \A i \in DOMAIN chunks : chunks[i].of \in Keys
    BY DEF HistoryInv, StorageOK, StoreOK, IsStore, Chunks
  <2> QED
    BY <1>1, <2>1 DEF Keys
<1>2. ASSUME NEW first \in BOOLEAN, Opens(first) PROVE DOMAIN chunks = {}
  BY <1>2, OpensStore DEF HistoryInv
<1>3. CASE OpeningFails
  BY <1>1, <1>3, OpeningFailsStore DEF HistoryInv
<1>4. CASE Enable \/ Restart
  BY <1>1, <1>2, <1>3, <1>4 DEF Enable, Restart
<1>5. CASE QueryStopped
  BY <1>1, <1>5, QueryStoppedStores
<1>6. ASSUME NEW d \in Dispatches, DispatchStep(d) PROVE DOMAIN chunks = {} \/ key = 0
  <2>1. at[d] = "start" /\ key' = LoadedKey
    BY <1>6 DEF DispatchStep, Begin, Name, SendStarted, Finish, SendCompleted, Goes, disk
  <2>2. reachable
    BY <2>1 DEF HistoryInv, KeyOK
  <2> QED
    BY <2>1, <2>2, LoadedKeyIs DEF HistoryInv, StorageOK, TypeOK
<1>7. CASE Call /\ ~Enable /\ ~QueryStopped
  BY <1>7 DEF Call, Disable, Pause, Resume, Mark, Delete, Query, Drop, disk
<1>8. CASE ControlStep
  BY <1>8 DEF ControlStep, Send, Flush, AskSnapshot, Stop, Requests, Flushed, Snapshot, Joined,
     Dropped, Gone, EnablePersist, DisablePersist, DeletePersist, DestroyKey, ForgetKey,
     RemoveChunk, Removed, disk
<1>9. CASE GiveUp \/ WriterStep \/ Maintain \/ Crash \/ Reinstall \/ Age \/ RotationDue
  BY <1>9 DEF GiveUp, WriterStep, WriteEvent, DropEvent, AnswerFlush, AnswerSnapshot, Shutdown,
     Maintain, Crash, Gone, Reinstall, Age, RotationDue, disk
<1> QED
  BY <1>1, <1>4, <1>5, <1>6, <1>7, <1>8, <1>9 DEF Next

\* load_or_create: no key takes the place of one that chunks are encrypted with,
\* though this build, or an earlier one, may not read it.
THEOREM KeyStays == Spec => KeyNotReplaced
<1>1. HistoryInv /\ [Next]_vars =>
        [key' \notin {0, key} => \A i \in DOMAIN chunks : chunks[i].of # key]_vars
  BY KeyStep
<1> QED
  BY <1>1, HistoryHolds, PTL DEF Spec, KeyNotReplaced

=============================================================================
