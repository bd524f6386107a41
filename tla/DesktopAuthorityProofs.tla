----------------------- MODULE DesktopAuthorityProofs -----------------------
(***************************************************************************)
(* Theorems about DesktopAuthority, for any tasks, owners and bounds. The  *)
(* invariant is built in layers: who holds the coordinator, what a lease   *)
(* says of the epoch, and what that makes of the bindings. Each layer is   *)
(* preserved because of the ones before it.                                *)
(***************************************************************************)
EXTENDS DesktopAuthority, SequenceTheorems, TLAPS

-----------------------------------------------------------------------------
(* Types.                                                                  *)

\* Passing the permit on keeps the coordinator's types.
LEMMA PassOnType ==
    ASSUME TypeOK, PassOn
    PROVE  holder' \in Tasks \cup {Nil} /\ queue' \in Seq(Tasks)
<1>1. CASE queue = <<>>
  BY <1>1 DEF TypeOK, PassOn
<1>2. CASE queue # <<>>
  <2>1. queue \in Seq(Tasks)
    BY DEF TypeOK
  <2>2. Head(queue) \in Tasks /\ Tail(queue) \in Seq(Tasks)
    BY <1>2, <2>1, HeadTailProperties
  <2> QED
    BY <1>2, <2>2 DEF PassOn
<1> QED
  BY <1>1, <1>2

\* A dispatch that leaves keeps the types of what it clears.
LEMMA LeaveType ==
    ASSUME TypeOK, NEW t \in Tasks, Leave(t)
    PROVE  /\ pc' \in [Tasks -> PCs]
           /\ mutation' \in [Tasks -> BOOLEAN]
           /\ owner' \in [Tasks -> Owners \cup {Nil}]
           /\ before' \in [Tasks -> Nat] /\ stamp' \in [Tasks -> Nat]
           /\ refs' \in [Tasks -> SUBSET {"dispatch", "worker"}]
           /\ capture' \in [Tasks -> Binding] /\ admitted' \in [Tasks -> Binding]
<1>1. None \in Binding
  BY DEF None, Binding
<1>2. "idle" \in PCs
  BY DEF PCs
<1> QED
  BY <1>1, <1>2 DEF Leave, Goto, TypeOK

\* A waiter that withdraws is cut out of the queue, or passes the permit on.
LEMMA WithdrawType ==
    ASSUME TypeOK, NEW t \in Tasks, Withdraw(t)
    PROVE  TypeOK'
<1>1. holder' \in Tasks \cup {Nil} /\ queue' \in Seq(Tasks)
  <2>1. CASE holder = t
    BY <2>1, PassOnType DEF Withdraw
  <2>2. CASE holder # t
    <3>1. PICK i \in 1..Len(queue) :
            queue' = SubSeq(queue, 1, i - 1) \o SubSeq(queue, i + 1, Len(queue))
      BY <2>2 DEF Withdraw
    <3>2. queue \in Seq(Tasks)
      BY DEF TypeOK
    <3>3. SubSeq(queue, 1, i - 1) \in Seq(Tasks)
      BY <3>2
    <3>4. SubSeq(queue, i + 1, Len(queue)) \in Seq(Tasks)
      BY <3>2
    <3> QED
      BY <2>2, <3>1, <3>3, <3>4 DEF Withdraw, TypeOK
  <2> QED
    BY <2>1, <2>2
<1>2. Leave(t) /\ UNCHANGED <<authority, registry, live>>
  BY DEF Withdraw
<1> QED
  BY <1>1, <1>2, LeaveType DEF TypeOK, authority

\* A dispatch that starts its work has typed bindings.
LEMMA StartType ==
    ASSUME TypeOK, NEW t \in Tasks, NEW c \in Binding, NEW a \in Binding,
           Start(t, c, a), registry' \in [Owners -> Binding]
    PROVE  TypeOK'
BY DEF Start, Goto, TypeOK, PCs, coordinator, authority

\* Every action leaves every variable in its type.
LEMMA TypeOKStep == TypeOK /\ [Next]_vars => TypeOK'
<1> SUFFICES ASSUME TypeOK, [Next]_vars
             PROVE  TypeOK'
  OBVIOUS
<1> USE DEF coordinator, authority, lease, bindings
<1>n. None \in Binding
  BY DEF None, Binding
<1>1. ASSUME NEW t \in Tasks, NEW m \in BOOLEAN, NEW o \in Owners, Acquire(t, m, o)
      PROVE  TypeOK'
  BY <1>1 DEF Acquire, Goto, TypeOK, PCs
<1>2. ASSUME NEW t \in Tasks, CheckUnknown(t) PROVE TypeOK'
  <2>1. CASE unknown
    BY <1>2, <2>1, LeaveType DEF CheckUnknown, TypeOK
  <2>2. CASE ~unknown
    BY <1>2, <2>2 DEF CheckUnknown, Goto, TypeOK, PCs
  <2> QED
    BY <2>1, <2>2
<1>3. ASSUME NEW t \in Tasks, Lock(t) PROVE TypeOK'
  <2>1. CASE holder = Nil
    BY <1>3, <2>1 DEF Lock, Goto, TypeOK, PCs
  <2>2. CASE holder # Nil
    <3>1. queue' \in Seq(Tasks)
      <4>1. queue \in Seq(Tasks)
        BY DEF TypeOK
      <4>2. Append(queue, t) \in Seq(Tasks)
        BY <4>1, AppendProperties
      <4> QED
        BY <1>3, <2>2, <4>2 DEF Lock
    <3> QED
      BY <1>3, <2>2, <3>1 DEF Lock, Goto, TypeOK, PCs
  <2> QED
    BY <2>1, <2>2
<1>4. ASSUME NEW t \in Tasks, Granted(t) PROVE TypeOK'
  BY <1>4 DEF Granted, Goto, TypeOK, PCs
<1>5. ASSUME NEW t \in Tasks, Woken(t) \/ Cancel(t) PROVE TypeOK'
  BY <1>5, WithdrawType DEF Woken, Cancel
<1>6. ASSUME NEW t \in Tasks, RefuseGrant(t) PROVE TypeOK'
  BY <1>6, PassOnType, LeaveType DEF RefuseGrant, TypeOK
<1>7. ASSUME NEW t \in Tasks, Exhaust(t) PROVE TypeOK'
  <2>1. PassOn /\ Leave(t) /\ Poison /\ UNCHANGED <<epoch, registry, live>>
    BY <1>7 DEF Exhaust
  <2>2. unknown' \in BOOLEAN /\ notified' \in [Tasks -> BOOLEAN]
    BY <2>1 DEF Poison, TypeOK, Subscribed
  <2> QED
    BY <2>1, <2>2, PassOnType, LeaveType DEF TypeOK
<1>8. ASSUME NEW t \in Tasks, Grant(t) PROVE TypeOK'
  <2>1. NextEpoch(mutation[t]) \in 0..MaxEpoch
    BY <1>8, BoundsAssumption DEF Grant, NextEpoch, Exhausted, TypeOK
  <2> QED
    BY <1>8, <2>1 DEF Grant, Goto, TypeOK, PCs
<1>9. ASSUME NEW t \in Tasks, NEW r \in {"dispatch", "worker"}, DropRef(t, r)
      PROVE  TypeOK'
  <2>1. holder' \in Tasks \cup {Nil} /\ queue' \in Seq(Tasks)
    <3>1. CASE Releases(t, r)
      BY <1>9, <3>1, PassOnType DEF DropRef
    <3>2. CASE ~Releases(t, r)
      BY <1>9, <3>2 DEF DropRef, TypeOK
    <3> QED
      BY <3>1, <3>2
  <2>2. UNCHANGED <<epoch, unknown, notified, registry, live>>
    BY <1>9 DEF DropRef
  <2>3. CASE refs[t] = {r}
    <3>1. Leave(t)
      BY <1>9, <2>3 DEF DropRef
    <3> QED
      BY <2>1, <2>2, <3>1, LeaveType DEF TypeOK
  <2>4. CASE refs[t] # {r}
    <3>1. /\ refs' = [refs EXCEPT ![t] = @ \ {r}]
          /\ UNCHANGED <<pc, mutation, owner, before, stamp, capture, admitted>>
      BY <1>9, <2>4 DEF DropRef
    <3> QED
      BY <2>1, <2>2, <3>1 DEF TypeOK
  <2> QED
    BY <2>3, <2>4
<1>10. ASSUME NEW t \in Tasks, CleanupUnknown(t) PROVE TypeOK'
  BY <1>10 DEF CleanupUnknown, Poison, Subscribed, TypeOK
<1>11. ASSUME NEW t \in Tasks, BeginCapture(t) PROVE TypeOK'
  <2>1. [epoch |-> stamp[t], clean |-> TRUE, state |-> "valid"] \in Binding
    BY DEF TypeOK, Binding
  <2>2. registry' \in [Owners -> Binding]
    BY <1>11 DEF BeginCapture, TypeOK
  <2> QED
    BY <1>11, <1>n, <2>1, <2>2, StartType DEF BeginCapture
<1>12. ASSUME NEW t \in Tasks, FinishCapture(t) PROVE TypeOK'
  <2>1. capture[t] \in Binding
    BY DEF TypeOK
  <2>2. registry' \in [Owners -> Binding]
    BY <1>12, <1>n, <2>1 DEF FinishCapture, TypeOK
  <2> QED
    BY <1>12, <1>n, <2>2 DEF FinishCapture, Goto, TypeOK, PCs
<1>13. ASSUME NEW t \in Tasks, Admit(t) PROVE TypeOK'
  <2>1. PICK p \in Owners :
          /\ registry' = [registry EXCEPT ![p] = None]
          /\ \/ Start(t, None, registry[p])
             \/ /\ Goto(t, "settling")
                /\ UNCHANGED <<coordinator, authority, mutation, owner, lease,
                               capture, admitted, live>>
    BY <1>13 DEF Admit
  <2>2. registry' \in [Owners -> Binding] /\ registry[p] \in Binding
    BY <1>n, <2>1 DEF TypeOK
  <2>3. CASE Start(t, None, registry[p])
    BY <1>n, <2>2, <2>3, StartType
  <2>4. CASE Goto(t, "settling") /\ UNCHANGED <<coordinator, authority, mutation,
                                  owner, lease, capture, admitted, live>>
    BY <2>2, <2>4 DEF Goto, TypeOK, PCs
  <2> QED
    BY <2>1, <2>3, <2>4
<1>14. ASSUME NEW t \in Tasks, StartInput(t) PROVE TypeOK'
  <2>1. registry' \in [Owners -> Binding]
    BY <1>14 DEF StartInput, TypeOK
  <2> QED
    BY <1>14, <1>n, <2>1, StartType DEF StartInput
<1>15. ASSUME NEW t \in Tasks, Mutate(t) PROVE TypeOK'
  <2>1. \A b \in Binding : Dirty(b) \in Binding
    BY DEF Dirty, Binding
  <2> QED
    BY <1>15, <2>1 DEF Mutate, TypeOK
<1>16. CASE Disturb
  <2>1. \A b \in Binding : Disturbed(b) \in Binding
    BY DEF Disturbed, Binding
  <2> QED
    BY <1>16, <2>1 DEF Disturb, TypeOK
<1>17. ASSUME NEW o \in Owners, ExpireBinding(o) PROVE TypeOK'
  <2>1. registry[o] \in Binding
    BY DEF TypeOK
  <2>2. [registry[o] EXCEPT !.state = "expired"] \in Binding
    BY <2>1 DEF Binding
  <2> QED
    BY <1>17, <2>2 DEF ExpireBinding, TypeOK
<1>18. ASSUME NEW t \in Tasks, ExpireCapture(t) PROVE TypeOK'
  <2>1. capture[t] \in Binding
    BY DEF TypeOK
  <2>2. [capture[t] EXCEPT !.state = "expired"] \in Binding
    BY <2>1 DEF Binding
  <2> QED
    BY <1>18, <2>2 DEF ExpireCapture, TypeOK
<1>19. ASSUME NEW o \in Owners, OwnerEnds(o) PROVE TypeOK'
  BY <1>19 DEF OwnerEnds, TypeOK
<1>20. CASE UNCHANGED vars
  BY <1>20 DEF vars, TypeOK
<1> QED
  BY <1>1, <1>2, <1>3, <1>4, <1>5, <1>6, <1>7, <1>8, <1>9, <1>10, <1>11, <1>12,
     <1>13, <1>14, <1>15, <1>16, <1>17, <1>18, <1>19, <1>20
     DEF Next, Acquiring, Settle

\* The coordinator is free, and the authority has granted nothing.
LEMMA TypeOKInit == Init => TypeOK
<1>1. <<>> \in Seq(Tasks) /\ 0 \in 0..MaxEpoch
  BY EmptySeq, BoundsAssumption
<1>2. None \in Binding /\ "idle" \in PCs
  BY DEF None, Binding, PCs
<1>3. ASSUME Init
      PROVE  /\ notified \in [Tasks -> BOOLEAN] /\ mutation \in [Tasks -> BOOLEAN]
             /\ unknown \in BOOLEAN /\ live \in [Owners -> BOOLEAN]
  BY <1>3 DEF Init
<1>4. ASSUME Init
      PROVE  /\ pc \in [Tasks -> PCs] /\ owner \in [Tasks -> Owners \cup {Nil}]
             /\ before \in [Tasks -> Nat] /\ stamp \in [Tasks -> Nat]
             /\ refs \in [Tasks -> SUBSET {"dispatch", "worker"}]
             /\ capture \in [Tasks -> Binding] /\ admitted \in [Tasks -> Binding]
             /\ registry \in [Owners -> Binding]
  BY <1>2, <1>4 DEF Init
<1>5. ASSUME Init
      PROVE  holder \in Tasks \cup {Nil} /\ queue \in Seq(Tasks) /\ epoch \in 0..MaxEpoch
  BY <1>1, <1>5 DEF Init
<1> QED
  BY <1>3, <1>4, <1>5 DEF TypeOK

\* At every moment of every run the authority and its bindings are well typed
\* (desktop_authority.rs, foreground_activity/desktop.rs).
THEOREM DesktopTypeCorrect == Spec => []TypeOK
BY TypeOKInit, TypeOKStep, PTL DEF Spec

-----------------------------------------------------------------------------
(* The coordinator: whoever has a lease, or is about to, has the permit.   *)

Holding == {"leased", "working", "settling"}

HolderOK ==
    \A t \in Tasks : /\ pc[t] \in Holding \cup {"granted"} => holder = t
                     /\ refs[t] # {} => pc[t] \in Holding

\* Two dispatches never hold at a time.
LEMMA OneHolder ==
    ASSUME HolderOK, NEW t \in Tasks, NEW u \in Tasks,
           pc[t] \in Holding \cup {"granted"}, pc[u] \in Holding \cup {"granted"}
    PROVE  t = u
BY DEF HolderOK

\* A dispatch may leave once it has passed its permit on, or never had it.
LEMMA LeaveHolder ==
    ASSUME TypeOK, HolderOK, NEW t \in Tasks, Leave(t),
           holder = t \/ \A u \in Tasks : holder = u => holder' = u
    PROVE  HolderOK'
<1> SUFFICES ASSUME NEW u \in Tasks
             PROVE  /\ pc'[u] \in Holding \cup {"granted"} => holder' = u
                    /\ refs'[u] # {} => pc'[u] \in Holding
  BY DEF HolderOK
<1>1. CASE u = t
  BY <1>1 DEF Leave, Goto, TypeOK, Holding
<1>2. CASE u # t
  <2>1. pc'[u] = pc[u] /\ refs'[u] = refs[u]
    BY <1>2 DEF Leave, Goto, TypeOK
  <2> QED
    BY <1>2, <2>1 DEF HolderOK
<1> QED
  BY <1>1, <1>2

\* No action gives the permit to a second dispatch, or takes it from its holder.
LEMMA HolderStep == TypeOK /\ HolderOK /\ [Next]_vars => HolderOK'
<1> SUFFICES ASSUME TypeOK, HolderOK, [Next]_vars
             PROVE  HolderOK'
  OBVIOUS
<1> USE DEF coordinator, authority, lease, bindings
<1>1. ASSUME NEW t \in Tasks, NEW m \in BOOLEAN, NEW o \in Owners, Acquire(t, m, o)
      PROVE  HolderOK'
  BY <1>1 DEF Acquire, Goto, TypeOK, HolderOK, Holding
<1>2. ASSUME NEW t \in Tasks, CheckUnknown(t) PROVE HolderOK'
  <2>1. CASE unknown
    BY <1>2, <2>1, LeaveHolder DEF CheckUnknown
  <2>2. CASE ~unknown
    BY <1>2, <2>2 DEF CheckUnknown, Goto, TypeOK, HolderOK, Holding
  <2> QED
    BY <2>1, <2>2
<1>3. ASSUME NEW t \in Tasks, Lock(t) PROVE HolderOK'
  <2>1. CASE holder = Nil
    BY <1>3, <2>1, NilAssumption DEF Lock, Goto, TypeOK, HolderOK, Holding
  <2>2. CASE holder # Nil
    BY <1>3, <2>2 DEF Lock, Goto, TypeOK, HolderOK, Holding
  <2> QED
    BY <2>1, <2>2
<1>4. ASSUME NEW t \in Tasks, Granted(t) PROVE HolderOK'
  BY <1>4 DEF Granted, Goto, TypeOK, HolderOK, Holding
<1>5. ASSUME NEW t \in Tasks, Woken(t) \/ Cancel(t) PROVE HolderOK'
  <2>1. Leave(t) /\ (holder = t \/ holder' = holder)
    BY <1>5 DEF Woken, Cancel, Withdraw
  <2> QED
    BY <2>1, LeaveHolder
<1>6. ASSUME NEW t \in Tasks, RefuseGrant(t) \/ Exhaust(t) PROVE HolderOK'
  <2>1. pc[t] = "granted" /\ Leave(t)
    BY <1>6 DEF RefuseGrant, Exhaust
  <2> QED
    BY <2>1, LeaveHolder DEF HolderOK
<1>7. ASSUME NEW t \in Tasks, Grant(t) PROVE HolderOK'
  BY <1>7 DEF Grant, Goto, TypeOK, HolderOK, Holding
<1>8. ASSUME NEW t \in Tasks, NEW r \in {"dispatch", "worker"}, DropRef(t, r)
      PROVE  HolderOK'
  <2>1. CASE refs[t] = {r}
    <3>1. Leave(t) /\ holder = t
      BY <1>8, <2>1 DEF DropRef, HolderOK
    <3> QED
      BY <3>1, LeaveHolder
  <2>2. CASE refs[t] # {r}
    BY <1>8, <2>2 DEF DropRef, Releases, TypeOK, HolderOK
  <2> QED
    BY <2>1, <2>2
<1>9. ASSUME NEW t \in Tasks, NEW c, NEW a, pc[t] = "leased", Start(t, c, a)
      PROVE  HolderOK'
  BY <1>9 DEF Start, Goto, TypeOK, HolderOK, Holding
<1>10. ASSUME NEW t \in Tasks, BeginCapture(t) \/ StartInput(t) PROVE HolderOK'
  BY <1>9, <1>10 DEF BeginCapture, StartInput
<1>11. ASSUME NEW t \in Tasks, FinishCapture(t) PROVE HolderOK'
  BY <1>11 DEF FinishCapture, Goto, TypeOK, HolderOK, Holding
<1>12. ASSUME NEW t \in Tasks, Admit(t) PROVE HolderOK'
  <2>1. CASE \E b : Start(t, None, b)
    BY <1>9, <1>12, <2>1 DEF Admit
  <2>2. CASE Goto(t, "settling") /\ UNCHANGED <<coordinator, lease>>
    BY <1>12, <2>2 DEF Admit, Goto, TypeOK, HolderOK, Holding
  <2> QED
    BY <1>12, <2>1, <2>2 DEF Admit
<1>13. CASE UNCHANGED <<holder, pc, refs>>
  BY <1>13 DEF HolderOK
<1>14. ASSUME NEW t \in Tasks, CleanupUnknown(t) \/ Mutate(t) \/ ExpireCapture(t)
       PROVE  HolderOK'
  BY <1>13, <1>14 DEF CleanupUnknown, Mutate, ExpireCapture
<1>15. ASSUME NEW o \in Owners, ExpireBinding(o) \/ OwnerEnds(o) PROVE HolderOK'
  BY <1>13, <1>15 DEF ExpireBinding, OwnerEnds
<1>16. CASE Disturb \/ UNCHANGED vars
  BY <1>13, <1>16 DEF Disturb, vars
<1> QED
  BY <1>1, <1>2, <1>3, <1>4, <1>5, <1>6, <1>7, <1>8, <1>10, <1>11, <1>12,
     <1>14, <1>15, <1>16 DEF Next, Acquiring, Settle

\* Nobody holds in the initial state.
LEMMA HolderInit == Init => HolderOK
BY DEF Init, HolderOK, Holding

\* Two dispatches never have a lease at a time, and the one that has it keeps the
\* coordinator until its last reference is dropped (Lease in desktop_authority.rs).
THEOREM LeasesExclude == Spec => []LeaseIsExclusive
<1>1. Init => TypeOK /\ HolderOK
  BY TypeOKInit, HolderInit
<1>2. TypeOK /\ HolderOK /\ [Next]_vars => (TypeOK /\ HolderOK)'
  BY TypeOKStep, HolderStep
<1>3. HolderOK => LeaseIsExclusive
  BY DEF HolderOK, LeaseIsExclusive
<1> QED
  BY <1>1, <1>2, <1>3, PTL DEF Spec

\* A step that quarantine permits gives no reference to who had none.
LEMMA QuarantineStep ==
    ASSUME TypeOK, [Next]_vars, unknown, NEW u \in Tasks, refs[u] = {}
    PROVE  refs'[u] = {}
<1> USE DEF authority, lease, bindings
<1>1. ASSUME NEW t \in Tasks, Leave(t) PROVE refs'[u] = {}
  BY <1>1 DEF Leave, TypeOK
<1>2. ASSUME NEW t \in Tasks, refs[t] # {}, NEW r, refs' = [refs EXCEPT ![t] = r]
      PROVE  refs'[u] = {}
  BY <1>2 DEF TypeOK
<1>3. CASE UNCHANGED refs
  BY <1>3
<1>4. ASSUME NEW t \in Tasks, NEW m \in BOOLEAN, NEW o \in Owners, Acquire(t, m, o)
      PROVE  refs'[u] = {}
  BY <1>3, <1>4 DEF Acquire
<1>5. ASSUME NEW t \in Tasks, Acquiring(t) \/ Cancel(t) PROVE refs'[u] = {}
  <2>1. CASE Leave(t)
    BY <1>1, <2>1
  <2>2. CASE UNCHANGED refs
    BY <2>2, <1>3
  <2>3. Leave(t) \/ UNCHANGED refs
    BY <1>5 DEF Acquiring, CheckUnknown, Lock, Granted, Woken, Cancel, Withdraw,
                RefuseGrant, Exhaust, Grant, GrantRefused
  <2> QED
    BY <2>1, <2>2, <2>3
<1>6. ASSUME NEW t \in Tasks, Settle(t) PROVE refs'[u] = {}
  <2>1. PICK r \in {"dispatch", "worker"} : DropRef(t, r)
    BY <1>6 DEF Settle
  <2>2. refs[t] # {}
    BY <2>1 DEF DropRef
  <2>3. CASE refs[t] = {r}
    BY <1>1, <2>1, <2>3 DEF DropRef
  <2>4. CASE refs[t] # {r}
    BY <1>2, <2>1, <2>2, <2>4 DEF DropRef
  <2> QED
    BY <2>3, <2>4
<1>7. ASSUME NEW t \in Tasks, BeginCapture(t) PROVE refs'[u] = {}
  BY <1>7 DEF BeginCapture, IsCurrent
<1>8. ASSUME NEW t \in Tasks, FinishCapture(t) PROVE refs'[u] = {}
  BY <1>8 DEF FinishCapture, IsCurrent
<1>9. ASSUME NEW t \in Tasks, Admit(t) PROVE refs'[u] = {}
  BY <1>3, <1>9 DEF Admit, AdmitsObservation, IsCurrent
<1>10. ASSUME NEW t \in Tasks, StartInput(t) PROVE refs'[u] = {}
  <2>1. refs[t] # {} /\ refs' = [refs EXCEPT ![t] = refs[t] \cup {"worker"}]
    BY <1>10 DEF StartInput, Start
  <2> QED
    BY <1>2, <2>1
<1>11. ASSUME NEW t \in Tasks, CleanupUnknown(t) \/ Mutate(t) \/ ExpireCapture(t)
       PROVE  refs'[u] = {}
  BY <1>3, <1>11 DEF CleanupUnknown, Mutate, ExpireCapture
<1>12. ASSUME NEW o \in Owners, ExpireBinding(o) \/ OwnerEnds(o) PROVE refs'[u] = {}
  BY <1>3, <1>12 DEF ExpireBinding, OwnerEnds
<1>13. CASE Disturb \/ UNCHANGED vars
  BY <1>3, <1>13 DEF Disturb, vars
<1> QED
  BY <1>4, <1>5, <1>6, <1>7, <1>8, <1>9, <1>10, <1>11, <1>12, <1>13 DEF Next

\* Once quarantined, the authority leaves a dispatch without a lease without one,
\* whatever it was waiting for (cleanup_unknown in desktop_authority.rs).
THEOREM QuarantineIsFinal == Spec => QuarantineGrantsNothing
<1>1. TypeOK /\ [Next]_vars =>
        [unknown => \A t \in Tasks : refs[t] = {} => refs'[t] = {}]_vars
  BY QuarantineStep
<1> QED
  BY <1>1, DesktopTypeCorrect, PTL DEF Spec, QuarantineGrantsNothing

-----------------------------------------------------------------------------
(* What a lease says of the epoch.                                         *)

LeaseOK ==
    \A t \in Tasks :
        pc[t] \in Holding =>
            /\ stamp[t] = epoch
            /\ before[t] = IF mutation[t] THEN epoch - 1 ELSE epoch

\* The state of a dispatch that holds, but for a lease being granted.
KeepsLease(t) ==
    /\ pc[t] \in Holding
    /\ pc'[t] = "leased" => pc[t] = "leased"
    /\ before'[t] = before[t] /\ stamp'[t] = stamp[t] /\ mutation'[t] = mutation[t]

\* Only a grant moves the epoch or makes a holder.
LEMMA LeaseSteps ==
    ASSUME TypeOK, [Next]_vars, \A t \in Tasks : ~Grant(t)
    PROVE  /\ UNCHANGED epoch
           /\ \A u \in Tasks : pc'[u] \in Holding => KeepsLease(u)
<1> USE DEF coordinator, authority, lease, bindings
<1> DEFINE Goal == UNCHANGED epoch /\ \A u \in Tasks : pc'[u] \in Holding => KeepsLease(u)
<1>1. ASSUME NEW t \in Tasks, Leave(t), UNCHANGED epoch PROVE Goal
  BY <1>1 DEF Leave, Goto, TypeOK, KeepsLease, Holding
<1>2. ASSUME NEW t \in Tasks, NEW at, at \notin Holding, Goto(t, at), UNCHANGED epoch,
             \A u \in Tasks \ {t} : /\ mutation'[u] = mutation[u]
                                    /\ before'[u] = before[u] /\ stamp'[u] = stamp[u]
      PROVE  Goal
  BY <1>2 DEF Goto, TypeOK, KeepsLease
<1>3. CASE UNCHANGED <<epoch, pc, before, stamp, mutation>>
  BY <1>3 DEF KeepsLease
<1>4. ASSUME NEW t \in Tasks, NEW at, at # "leased", Goto(t, at), pc[t] \in Holding,
             UNCHANGED <<epoch, before, stamp, mutation>>
      PROVE  Goal
  BY <1>4 DEF Goto, TypeOK, KeepsLease
<1>5. ASSUME NEW t \in Tasks, NEW m \in BOOLEAN, NEW o \in Owners, Acquire(t, m, o)
      PROVE  Goal
  BY <1>2, <1>5 DEF Acquire, TypeOK, Holding
<1>6. ASSUME NEW t \in Tasks, Lock(t) \/ Granted(t) PROVE Goal
  BY <1>2, <1>6 DEF Lock, Granted, Holding
<1>7. ASSUME NEW t \in Tasks, CheckUnknown(t) PROVE Goal
  <2>1. CASE unknown
    BY <1>1, <1>7, <2>1 DEF CheckUnknown
  <2>2. CASE ~unknown
    BY <1>2, <1>7, <2>2 DEF CheckUnknown, Holding
  <2> QED
    BY <2>1, <2>2
<1>8. ASSUME NEW t \in Tasks,
             Woken(t) \/ Cancel(t) \/ RefuseGrant(t) \/ Exhaust(t)
      PROVE  Goal
  BY <1>1, <1>8 DEF Woken, Cancel, Withdraw, RefuseGrant, Exhaust
<1>9. ASSUME NEW t \in Tasks, NEW r \in {"dispatch", "worker"}, DropRef(t, r)
      PROVE  Goal
  <2>1. CASE refs[t] = {r}
    BY <1>1, <1>9, <2>1 DEF DropRef
  <2>2. CASE refs[t] # {r}
    BY <1>3, <1>9, <2>2 DEF DropRef
  <2> QED
    BY <2>1, <2>2
<1>10. ASSUME NEW t \in Tasks, NEW c, NEW a, pc[t] = "leased", Start(t, c, a) PROVE Goal
  BY <1>4, <1>10 DEF Start, Holding
<1>11. ASSUME NEW t \in Tasks, BeginCapture(t) \/ StartInput(t) PROVE Goal
  BY <1>10, <1>11 DEF BeginCapture, StartInput
<1>12. ASSUME NEW t \in Tasks, FinishCapture(t) PROVE Goal
  BY <1>4, <1>12 DEF FinishCapture, Holding
<1>13. ASSUME NEW t \in Tasks, Admit(t) PROVE Goal
  <2>1. CASE \E b : Start(t, None, b)
    BY <1>10, <1>13, <2>1 DEF Admit
  <2>2. CASE Goto(t, "settling") /\ UNCHANGED <<authority, lease, mutation>>
    BY <1>4, <1>13, <2>2 DEF Admit, Holding
  <2> QED
    BY <1>13, <2>1, <2>2 DEF Admit
<1>14. ASSUME NEW t \in Tasks, CleanupUnknown(t) \/ Mutate(t) \/ ExpireCapture(t)
       PROVE  Goal
  BY <1>3, <1>14 DEF CleanupUnknown, Mutate, ExpireCapture
<1>15. ASSUME NEW o \in Owners, ExpireBinding(o) \/ OwnerEnds(o) PROVE Goal
  BY <1>3, <1>15 DEF ExpireBinding, OwnerEnds
<1>16. CASE Disturb \/ UNCHANGED vars
  BY <1>3, <1>16 DEF Disturb, vars
<1> QED
  BY <1>5, <1>6, <1>7, <1>8, <1>9, <1>11, <1>12, <1>13, <1>14, <1>15, <1>16
     DEF Next, Acquiring, Settle

\* What a lease was given stays true of the epoch while it is held.
LEMMA LeaseStep == TypeOK /\ HolderOK /\ LeaseOK /\ [Next]_vars => LeaseOK'
<1> SUFFICES ASSUME TypeOK, HolderOK, LeaseOK, [Next]_vars, NEW u \in Tasks,
                    pc'[u] \in Holding
             PROVE  /\ stamp'[u] = epoch'
                    /\ before'[u] = IF mutation'[u] THEN epoch' - 1 ELSE epoch'
  BY DEF LeaseOK
<1>1. ASSUME NEW t \in Tasks, Grant(t)
      PROVE  /\ stamp'[u] = epoch'
             /\ before'[u] = IF mutation'[u] THEN epoch' - 1 ELSE epoch'
  <2>1. u = t
    BY <1>1, OneHolder DEF Grant, Goto, TypeOK
  <2> QED
    BY <1>1, <2>1 DEF Grant, NextEpoch, TypeOK
<1>2. CASE \A t \in Tasks : ~Grant(t)
  BY <1>2, LeaseSteps DEF LeaseOK, KeepsLease
<1> QED
  BY <1>1, <1>2

-----------------------------------------------------------------------------
(* Captures under way: nothing moves the epoch or the screen under them.   *)

CaptureOK ==
    \A t \in Tasks :
        capture[t] # None =>
            /\ pc[t] \in Holding /\ ~mutation[t]
            /\ capture[t].clean /\ capture[t].epoch = epoch

\* A capture is new, or was there and has at most lost its state.
CaptureIsKept(t) ==
    /\ capture[t] # None
    /\ pc'[t] \in Holding
    /\ capture'[t].clean = capture[t].clean /\ capture'[t].epoch = capture[t].epoch

\* Only BeginCapture makes a capture, and while one is under way nobody mutates.
LEMMA CaptureSteps ==
    ASSUME TypeOK, HolderOK, CaptureOK, [Next]_vars,
           NEW u \in Tasks, capture'[u] # None, ~BeginCapture(u)
    PROVE  CaptureIsKept(u)
<1> USE DEF coordinator, authority, lease, bindings
<1>n. capture[u] # None => pc[u] \in Holding
  BY DEF CaptureOK
<1>1. ASSUME NEW t \in Tasks, Leave(t) PROVE CaptureIsKept(u)
  <2>1. u # t
    BY <1>1 DEF Leave, TypeOK
  <2> QED
    BY <1>n, <1>1, <2>1 DEF Leave, Goto, TypeOK, CaptureIsKept
<1>2. CASE UNCHANGED <<pc, capture>>
  BY <1>n, <1>2 DEF CaptureIsKept
<1>3. ASSUME NEW t \in Tasks, NEW at, Goto(t, at), UNCHANGED capture,
             pc[t] \in Holding => at \in Holding
      PROVE  CaptureIsKept(u)
  BY <1>n, <1>3 DEF Goto, TypeOK, CaptureIsKept
<1>4. ASSUME NEW t \in Tasks, NEW m \in BOOLEAN, NEW o \in Owners, Acquire(t, m, o)
      PROVE  CaptureIsKept(u)
  BY <1>3, <1>4 DEF Acquire, Holding
<1>5. ASSUME NEW t \in Tasks, Lock(t) \/ Granted(t) \/ Grant(t) PROVE CaptureIsKept(u)
  BY <1>3, <1>5 DEF Lock, Granted, Grant, Holding
<1>6. ASSUME NEW t \in Tasks, CheckUnknown(t) PROVE CaptureIsKept(u)
  BY <1>1, <1>3, <1>6 DEF CheckUnknown, Holding
<1>7. ASSUME NEW t \in Tasks,
             Woken(t) \/ Cancel(t) \/ RefuseGrant(t) \/ Exhaust(t)
      PROVE  CaptureIsKept(u)
  BY <1>1, <1>7 DEF Woken, Cancel, Withdraw, RefuseGrant, Exhaust
<1>8. ASSUME NEW t \in Tasks, NEW r \in {"dispatch", "worker"}, DropRef(t, r)
      PROVE  CaptureIsKept(u)
  <2>1. CASE refs[t] = {r}
    BY <1>1, <1>8, <2>1 DEF DropRef
  <2>2. CASE refs[t] # {r}
    BY <1>2, <1>8, <2>2 DEF DropRef
  <2> QED
    BY <2>1, <2>2
<1>9. ASSUME NEW t \in Tasks, NEW a, Start(t, None, a) PROVE CaptureIsKept(u)
  <2>1. u # t
    BY <1>9 DEF Start, TypeOK
  <2> QED
    BY <1>n, <1>9, <2>1 DEF Start, Goto, TypeOK, CaptureIsKept
<1>10. ASSUME NEW t \in Tasks, StartInput(t) PROVE CaptureIsKept(u)
  BY <1>9, <1>10 DEF StartInput
<1>11. ASSUME NEW t \in Tasks, BeginCapture(t) PROVE CaptureIsKept(u)
  <2>1. u # t
    BY <1>11
  <2> QED
    BY <1>n, <1>11, <2>1 DEF BeginCapture, Start, Goto, TypeOK, CaptureIsKept
<1>12. ASSUME NEW t \in Tasks, FinishCapture(t) PROVE CaptureIsKept(u)
  <2>1. capture' = [capture EXCEPT ![t] = None] /\ Goto(t, "settling")
    BY <1>12 DEF FinishCapture
  <2>2. u # t
    BY <2>1 DEF TypeOK
  <2> QED
    BY <1>n, <2>1, <2>2 DEF Goto, TypeOK, CaptureIsKept
<1>13. ASSUME NEW t \in Tasks, Admit(t) PROVE CaptureIsKept(u)
  <2>1. CASE \E b : Start(t, None, b)
    BY <1>9, <2>1
  <2>2. CASE Goto(t, "settling") /\ UNCHANGED capture
    BY <1>3, <2>2 DEF Holding
  <2> QED
    BY <1>13, <2>1, <2>2 DEF Admit
<1>14. ASSUME NEW t \in Tasks, Mutate(t) PROVE CaptureIsKept(u)
  <2>1. pc[t] \in Holding /\ mutation[t] /\ capture'[u] = Dirty(capture[u])
    BY <1>14 DEF Mutate, Holding
  <2>2. capture[u] # None
    BY <2>1 DEF Dirty
  <2>3. u = t /\ ~mutation[u]
    BY <2>1, <2>2, OneHolder DEF CaptureOK
  <2> QED
    BY <2>1, <2>3
<1>15. CASE Disturb
  <2>1. capture[u] \in Binding /\ capture'[u] = Disturbed(capture[u]) /\ pc' = pc
    BY <1>15 DEF Disturb, TypeOK
  <2>2. capture[u] # None
    BY <2>1 DEF Disturbed
  <2>3. /\ Disturbed(capture[u]).clean = capture[u].clean
        /\ Disturbed(capture[u]).epoch = capture[u].epoch
    BY <2>1 DEF Disturbed, Binding
  <2> QED
    BY <1>n, <2>1, <2>2, <2>3 DEF CaptureIsKept
<1>16. ASSUME NEW t \in Tasks, ExpireCapture(t) PROVE CaptureIsKept(u)
  <2>1. pc' = pc /\ capture' = [capture EXCEPT ![t].state = "expired"] /\ capture[t] # None
    BY <1>16 DEF ExpireCapture
  <2>2. capture[u] \in Binding
    BY DEF TypeOK
  <2>3. /\ capture[u] # None /\ capture'[u].clean = capture[u].clean
        /\ capture'[u].epoch = capture[u].epoch
    BY <2>1, <2>2 DEF TypeOK, Binding
  <2> QED
    BY <1>n, <2>1, <2>3 DEF CaptureIsKept
<1>17. ASSUME NEW t \in Tasks, CleanupUnknown(t) PROVE CaptureIsKept(u)
  BY <1>2, <1>17 DEF CleanupUnknown
<1>18. ASSUME NEW o \in Owners, ExpireBinding(o) \/ OwnerEnds(o) PROVE CaptureIsKept(u)
  BY <1>2, <1>18 DEF ExpireBinding, OwnerEnds
<1>19. CASE UNCHANGED vars
  BY <1>2, <1>19 DEF vars
<1> QED
  BY <1>4, <1>5, <1>6, <1>7, <1>8, <1>10, <1>11, <1>12, <1>13, <1>14, <1>15,
     <1>16, <1>17, <1>18, <1>19 DEF Next, Acquiring, Settle

\* Captures under way are of the current epoch and of the screen as it is.
LEMMA CaptureStep ==
    TypeOK /\ HolderOK /\ LeaseOK /\ CaptureOK /\ [Next]_vars => CaptureOK'
<1> SUFFICES ASSUME TypeOK, HolderOK, LeaseOK, CaptureOK, [Next]_vars,
                    NEW u \in Tasks, capture'[u] # None
             PROVE  /\ pc'[u] \in Holding /\ ~mutation'[u]
                    /\ capture'[u].clean /\ capture'[u].epoch = epoch'
  BY DEF CaptureOK
<1>1. CASE BeginCapture(u)
  <2>1. /\ capture' = [capture EXCEPT ![u] =
                         [epoch |-> stamp[u], clean |-> TRUE, state |-> "valid"]]
        /\ pc[u] = "leased" /\ ~mutation[u] /\ Goto(u, "working")
        /\ UNCHANGED <<mutation, epoch>>
    BY <1>1 DEF BeginCapture, Start, authority
  <2>2. stamp[u] = epoch
    BY <2>1 DEF LeaseOK, Holding
  <2> QED
    BY <2>1, <2>2 DEF Goto, TypeOK, Holding
<1>2. CASE ~BeginCapture(u)
  <2>1. CaptureIsKept(u) /\ pc[u] \in Holding
    BY <1>2, CaptureSteps DEF CaptureOK, CaptureIsKept
  <2>2. \A t \in Tasks : ~Grant(t)
    <3>1. SUFFICES ASSUME NEW t \in Tasks, Grant(t) PROVE FALSE
      OBVIOUS
    <3>2. u = t /\ pc[t] = "granted"
      BY <2>1, <3>1, OneHolder DEF Grant
    <3> QED
      BY <2>1, <3>2 DEF Holding
  <2>3. UNCHANGED epoch /\ mutation'[u] = mutation[u]
    BY <2>1, <2>2, LeaseSteps DEF CaptureIsKept, KeepsLease
  <2> QED
    BY <2>1, <2>3 DEF CaptureIsKept, CaptureOK
<1> QED
  BY <1>1, <1>2

-----------------------------------------------------------------------------
(* Bindings: one that an action made untrue is older than any later lease. *)

\* Nobody's binding is of an epoch after the one the mutating holder came from.
RegistryOK ==
    \A o \in Owners :
        registry[o] # None =>
            /\ registry[o].epoch <= epoch
            /\ \A t \in Tasks : pc[t] \in Holding /\ mutation[t]
                                   => registry[o].epoch <= before[t]

\* A holder that has not acted yet can use no binding that is untrue.
FreshOK ==
    \A o \in Owners, t \in Tasks :
        registry[o] # None /\ ~registry[o].clean /\ pc[t] = "leased" /\ mutation[t]
            => registry[o].epoch < before[t]

BindingsOK == RegistryOK /\ FreshOK /\ UntrueBindingIsRetired

\* A binding keeps its epoch, and its truth unless an action takes it.
BindingIsKept(o) ==
    /\ registry[o] # None
    /\ registry'[o].epoch = registry[o].epoch
    /\ \/ registry'[o].clean = registry[o].clean
       \/ \E t \in Tasks : Mutate(t)

\* Only the capture that finishes makes a binding.
LEMMA BindingSteps ==
    ASSUME TypeOK, [Next]_vars, NEW o \in Owners, registry'[o] # None
    PROVE  \/ BindingIsKept(o)
           \/ \E t \in Tasks : FinishCapture(t) /\ registry'[o] = capture[t]
<1> USE DEF bindings
<1>n. registry[o] \in Binding
  BY DEF TypeOK
<1>1. ASSUME UNCHANGED registry PROVE BindingIsKept(o)
  BY <1>1 DEF BindingIsKept
<1>2. ASSUME NEW t \in Tasks, NEW m \in BOOLEAN, NEW p \in Owners, Acquire(t, m, p)
      PROVE  BindingIsKept(o)
  BY <1>1, <1>2 DEF Acquire
<1>3. ASSUME NEW t \in Tasks, Acquiring(t) \/ Cancel(t) PROVE BindingIsKept(o)
  BY <1>1, <1>3 DEF Acquiring, CheckUnknown, Lock, Granted, Woken, Cancel,
                    Withdraw, RefuseGrant, Exhaust, Grant
<1>4. ASSUME NEW t \in Tasks,
             Settle(t) \/ CleanupUnknown(t) \/ BeginCapture(t) \/ StartInput(t)
             \/ ExpireCapture(t)
      PROVE  BindingIsKept(o)
  BY <1>1, <1>4 DEF Settle, DropRef, CleanupUnknown, BeginCapture, StartInput,
                    ExpireCapture
<1>5. ASSUME NEW t \in Tasks, FinishCapture(t)
      PROVE  BindingIsKept(o) \/ registry'[o] = capture[t]
  BY <1>5 DEF FinishCapture, BindingIsKept
<1>6. ASSUME NEW t \in Tasks, Admit(t) PROVE BindingIsKept(o)
  <2>1. PICK p \in Owners : registry' = [registry EXCEPT ![p] = None]
    BY <1>6 DEF Admit
  <2>2. o # p
    BY <2>1 DEF TypeOK
  <2> QED
    BY <2>1, <2>2 DEF BindingIsKept, TypeOK
<1>7. ASSUME NEW t \in Tasks, Mutate(t) PROVE BindingIsKept(o)
  <2>1. registry'[o] = Dirty(registry[o])
    BY <1>7 DEF Mutate
  <2>2. registry[o] # None /\ registry'[o].epoch = registry[o].epoch
    BY <1>n, <2>1 DEF Dirty, Binding
  <2> QED
    BY <1>7, <2>2 DEF BindingIsKept
<1>8. CASE Disturb
  <2>1. registry'[o] = Disturbed(registry[o])
    BY <1>8 DEF Disturb
  <2> QED
    BY <1>n, <2>1 DEF Disturbed, Binding, BindingIsKept
<1>9. ASSUME NEW p \in Owners, ExpireBinding(p) PROVE BindingIsKept(o)
  <2>1. registry' = [registry EXCEPT ![p].state = "expired"] /\ registry[p] # None
    BY <1>9 DEF ExpireBinding
  <2> QED
    BY <1>n, <2>1 DEF TypeOK, Binding, BindingIsKept
<1>10. ASSUME NEW p \in Owners, OwnerEnds(p) PROVE BindingIsKept(o)
  BY <1>1, <1>10 DEF OwnerEnds
<1>11. CASE UNCHANGED vars
  BY <1>1, <1>11 DEF vars
<1> QED
  BY <1>2, <1>3, <1>4, <1>5, <1>6, <1>7, <1>8, <1>9, <1>10, <1>11 DEF Next

\* A lease that mutates moves the epoch past every binding, and its holder is the
\* only one who can make bindings untrue.
LEMMA BindingsStep ==
    TypeOK /\ HolderOK /\ LeaseOK /\ CaptureOK /\ BindingsOK /\ [Next]_vars
        => BindingsOK'
<1> SUFFICES ASSUME TypeOK, HolderOK, LeaseOK, CaptureOK, BindingsOK, [Next]_vars,
                    NEW o \in Owners, registry'[o] # None
             PROVE  /\ registry'[o].epoch <= epoch'
                    /\ \A t \in Tasks : pc'[t] \in Holding /\ mutation'[t]
                                            => registry'[o].epoch <= before'[t]
                    /\ \A t \in Tasks : ~registry'[o].clean /\ pc'[t] = "leased"
                                        /\ mutation'[t]
                                            => registry'[o].epoch < before'[t]
                    /\ ~registry'[o].clean => registry'[o].epoch < epoch'
  BY DEF BindingsOK, RegistryOK, FreshOK, UntrueBindingIsRetired
<1> DEFINE
      Goal == /\ registry'[o].epoch <= epoch'
              /\ \A t \in Tasks : pc'[t] \in Holding /\ mutation'[t]
                                      => registry'[o].epoch <= before'[t]
              /\ \A t \in Tasks : ~registry'[o].clean /\ pc'[t] = "leased"
                                  /\ mutation'[t]
                                      => registry'[o].epoch < before'[t]
              /\ ~registry'[o].clean => registry'[o].epoch < epoch'
<1>1. epoch \in Nat /\ registry[o] \in Binding
  BY DEF TypeOK
<1>2. ASSUME NEW t \in Tasks, Grant(t) PROVE Goal
  <2>1. /\ registry'[o] = registry[o] /\ before'[t] = epoch
        /\ epoch' = NextEpoch(mutation[t]) /\ pc[t] = "granted"
        /\ \A u \in Tasks \ {t} : pc'[u] = pc[u]
    BY <1>2 DEF Grant, Goto, TypeOK, bindings
  <2>2. epoch <= epoch'
    BY <1>1, <2>1 DEF NextEpoch
  <2>3. \A u \in Tasks : pc'[u] \in Holding => u = t
    BY <2>1, OneHolder
  <2>4. registry[o].epoch <= epoch /\ (~registry[o].clean => registry[o].epoch < epoch)
    BY <2>1 DEF BindingsOK, RegistryOK, UntrueBindingIsRetired
  <2>5. registry[o].epoch \in Nat /\ epoch' \in Nat
    BY <1>1, <2>1 DEF Binding, NextEpoch
  <2> QED
    BY <1>1, <2>1, <2>2, <2>3, <2>4, <2>5 DEF Holding
<1>3. ASSUME \A t \in Tasks : ~Grant(t), NEW t \in Tasks, FinishCapture(t),
             registry'[o] = capture[t]
      PROVE  Goal
  <2>1. pc[t] \in Holding /\ ~mutation[t] /\ capture[t].clean /\ capture[t].epoch = epoch
    BY <1>3 DEF FinishCapture, CaptureOK
  <2>2. \A u \in Tasks : pc'[u] \in Holding => pc[u] \in Holding /\ mutation'[u] = mutation[u]
    BY <1>3, LeaseSteps DEF KeepsLease
  <2>3. UNCHANGED epoch
    BY <1>3, LeaseSteps
  <2>4. \A u \in Tasks : pc'[u] \in Holding => ~mutation'[u]
    BY <2>1, <2>2, OneHolder
  <2> QED
    BY <1>1, <1>3, <2>1, <2>3, <2>4 DEF Holding
<1>4. ASSUME \A t \in Tasks : ~Grant(t), NEW t \in Tasks, Mutate(t), BindingIsKept(o)
      PROVE  Goal
  <2>1. pc[t] = "working" /\ mutation[t] /\ UNCHANGED <<pc, mutation, before, epoch>>
    BY <1>4 DEF Mutate, authority, lease
  <2>2. registry[o].epoch <= before[t] /\ before[t] = epoch - 1
    BY <1>4, <2>1 DEF BindingsOK, RegistryOK, LeaseOK, Holding, BindingIsKept
  <2>3. \A u \in Tasks : pc[u] \in Holding => u = t
    BY <2>1, OneHolder DEF Holding
  <2>4. registry[o].epoch \in Nat
    BY <1>1 DEF Binding
  <2> QED
    BY <1>1, <1>4, <2>1, <2>2, <2>3, <2>4 DEF BindingIsKept, Holding
<1>5. ASSUME \A t \in Tasks : ~Grant(t), \A t \in Tasks : ~Mutate(t), BindingIsKept(o)
      PROVE  Goal
  <2>1. /\ registry[o] # None /\ registry'[o].epoch = registry[o].epoch
        /\ registry'[o].clean = registry[o].clean
    BY <1>5 DEF BindingIsKept
  <2>2. UNCHANGED epoch /\ \A u \in Tasks : pc'[u] \in Holding => KeepsLease(u)
    BY <1>5, LeaseSteps
  <2> QED
    BY <2>1, <2>2 DEF BindingsOK, RegistryOK, FreshOK, UntrueBindingIsRetired,
                      KeepsLease, Holding
<1>6. CASE \E t \in Tasks : Grant(t)
  BY <1>2, <1>6
<1>7. CASE \A t \in Tasks : ~Grant(t)
  BY <1>3, <1>4, <1>5, <1>7, BindingSteps
<1> QED
  BY <1>6, <1>7

-----------------------------------------------------------------------------
(* Admissions: an action acts on what the binding it consumed has shown.   *)

AdmittedOK ==
    \A t \in Tasks : admitted[t] # None => pc[t] \in Holding /\ admitted[t].clean

\* Only a binding that is still true is admitted, and it stays true for the one
\* whose own effects follow it.
LEMMA AdmittedStep ==
    TypeOK /\ HolderOK /\ BindingsOK /\ AdmittedOK /\ [Next]_vars => AdmittedOK'
<1> SUFFICES ASSUME TypeOK, HolderOK, BindingsOK, AdmittedOK, [Next]_vars,
                    NEW u \in Tasks, admitted'[u] # None
             PROVE  pc'[u] \in Holding /\ admitted'[u].clean
  BY DEF AdmittedOK
<1> USE DEF coordinator, authority, lease, bindings
<1> DEFINE Goal == pc'[u] \in Holding /\ admitted'[u].clean
<1>n. admitted[u] # None => pc[u] \in Holding /\ admitted[u].clean
  BY DEF AdmittedOK
<1>1. ASSUME NEW t \in Tasks, Leave(t) PROVE Goal
  <2>1. u # t
    BY <1>1 DEF Leave, TypeOK
  <2> QED
    BY <1>n, <1>1, <2>1 DEF Leave, Goto, TypeOK
<1>2. ASSUME UNCHANGED <<pc, admitted>> PROVE Goal
  BY <1>n, <1>2
<1>3. ASSUME NEW t \in Tasks, NEW at, Goto(t, at), UNCHANGED admitted,
             pc[t] \in Holding => at \in Holding
      PROVE  Goal
  BY <1>n, <1>3 DEF Goto, TypeOK
<1>4. ASSUME NEW t \in Tasks, NEW m \in BOOLEAN, NEW o \in Owners, Acquire(t, m, o)
      PROVE  Goal
  BY <1>3, <1>4 DEF Acquire, Holding
<1>5. ASSUME NEW t \in Tasks, Lock(t) \/ Granted(t) \/ Grant(t) PROVE Goal
  BY <1>3, <1>5 DEF Lock, Granted, Grant, Holding
<1>6. ASSUME NEW t \in Tasks, CheckUnknown(t) PROVE Goal
  BY <1>1, <1>3, <1>6 DEF CheckUnknown, Holding
<1>7. ASSUME NEW t \in Tasks,
             Woken(t) \/ Cancel(t) \/ RefuseGrant(t) \/ Exhaust(t)
      PROVE  Goal
  BY <1>1, <1>7 DEF Woken, Cancel, Withdraw, RefuseGrant, Exhaust
<1>8. ASSUME NEW t \in Tasks, NEW r \in {"dispatch", "worker"}, DropRef(t, r)
      PROVE  Goal
  <2>1. CASE refs[t] = {r}
    BY <1>1, <1>8, <2>1 DEF DropRef
  <2>2. CASE refs[t] # {r}
    BY <1>2, <1>8, <2>2 DEF DropRef
  <2> QED
    BY <2>1, <2>2
<1>9. ASSUME NEW t \in Tasks, NEW c, NEW a, Start(t, c, a), a # None => a.clean
      PROVE  Goal
  <2>1. CASE u = t
    BY <1>9, <2>1 DEF Start, Goto, TypeOK, Holding
  <2>2. CASE u # t
    BY <1>n, <1>9, <2>2 DEF Start, Goto, TypeOK
  <2> QED
    BY <2>1, <2>2
<1>10. ASSUME NEW t \in Tasks, BeginCapture(t) \/ StartInput(t) PROVE Goal
  BY <1>9, <1>10 DEF BeginCapture, StartInput
<1>11. ASSUME NEW t \in Tasks, FinishCapture(t) PROVE Goal
  BY <1>3, <1>11 DEF FinishCapture, Holding
<1>12. ASSUME NEW t \in Tasks, Admit(t) PROVE Goal
  <2>1. PICK p \in Owners :
          /\ registry[p] # None
          /\ IF AdmitsObservation(t, registry[p].epoch) /\ p = owner[t]
                /\ registry[p].state = "valid"
             THEN Start(t, None, registry[p])
             ELSE Goto(t, "settling") /\ UNCHANGED admitted
    BY <1>12 DEF Admit
  <2>2. CASE AdmitsObservation(t, registry[p].epoch) /\ Start(t, None, registry[p])
    <3>1. pc[t] = "leased" /\ mutation[t] /\ registry[p].epoch = before[t]
      BY <1>12, <2>2 DEF Admit, AdmitsObservation
    <3>2. before[t] \in Nat /\ registry[p].clean \in BOOLEAN
      BY DEF TypeOK, Binding
    <3>3. registry[p].clean
      BY <2>1, <3>1, <3>2 DEF BindingsOK, FreshOK
    <3> QED
      BY <1>9, <2>2, <3>3
  <2>3. CASE Goto(t, "settling") /\ UNCHANGED admitted
    BY <1>3, <2>3 DEF Holding
  <2> QED
    BY <2>1, <2>2, <2>3
<1>13. ASSUME NEW t \in Tasks, Mutate(t) PROVE Goal
  <2>1. /\ pc[t] \in Holding /\ pc' = pc
        /\ admitted'[u] = IF u = t THEN admitted[u] ELSE Dirty(admitted[u])
    BY <1>13 DEF Mutate, Holding
  <2>2. admitted[u] # None
    BY <2>1 DEF Dirty
  <2>3. u = t
    BY <1>n, <2>1, <2>2, OneHolder
  <2> QED
    BY <1>n, <2>1, <2>2, <2>3
<1>14. CASE Disturb
  <2>1. admitted[u] \in Binding /\ admitted'[u] = Disturbed(admitted[u]) /\ pc' = pc
    BY <1>14 DEF Disturb, TypeOK
  <2>2. admitted[u] # None
    BY <2>1 DEF Disturbed
  <2>3. Disturbed(admitted[u]).clean = admitted[u].clean
    BY <2>1 DEF Disturbed, Binding
  <2> QED
    BY <1>n, <2>1, <2>2, <2>3
<1>15. ASSUME NEW t \in Tasks, CleanupUnknown(t) \/ ExpireCapture(t) PROVE Goal
  BY <1>2, <1>15 DEF CleanupUnknown, ExpireCapture
<1>16. ASSUME NEW o \in Owners, ExpireBinding(o) \/ OwnerEnds(o) PROVE Goal
  BY <1>2, <1>16 DEF ExpireBinding, OwnerEnds
<1>17. CASE UNCHANGED vars
  BY <1>2, <1>17 DEF vars
<1> QED
  BY <1>4, <1>5, <1>6, <1>7, <1>8, <1>10, <1>11, <1>12, <1>13, <1>14, <1>15,
     <1>16, <1>17 DEF Next, Acquiring, Settle

-----------------------------------------------------------------------------
(* The invariant and what it is for.                                       *)

Inv == TypeOK /\ HolderOK /\ LeaseOK /\ CaptureOK /\ BindingsOK /\ AdmittedOK

\* Nobody holds, and there are no bindings, captures or admissions yet.
LEMMA InvInit == Init => Inv
<1> SUFFICES ASSUME Init
             PROVE  Inv
  OBVIOUS
<1>1. TypeOK /\ HolderOK
  BY TypeOKInit, HolderInit
<1>2. LeaseOK
  BY DEF Init, LeaseOK, Holding
<1>3. CaptureOK /\ AdmittedOK
  BY DEF Init, CaptureOK, AdmittedOK
<1>4. BindingsOK
  BY DEF Init, BindingsOK, RegistryOK, FreshOK, UntrueBindingIsRetired
<1> QED
  BY <1>1, <1>2, <1>3, <1>4 DEF Inv

\* The layers together are inductive.
LEMMA InvAlways == Spec => []Inv
<1>1. Inv /\ [Next]_vars => Inv'
  BY TypeOKStep, HolderStep, LeaseStep, CaptureStep, BindingsStep, AdmittedStep DEF Inv
<1> QED
  BY <1>1, InvInit, PTL DEF Spec

\* A binding that some action has made untrue is older than the epoch: no mutation
\* that is granted from now on comes right after it (admits_observation).
THEOREM UntrueBindingsAreRetired == Spec => []UntrueBindingIsRetired
<1>1. Inv => UntrueBindingIsRetired
  BY DEF Inv, BindingsOK
<1> QED
  BY <1>1, InvAlways, PTL

\* A desktop action that was admitted acts on the screen its caller has seen: no
\* other action has changed it since the capture (foreground_activity/desktop.rs).
THEOREM ActionsActOnTheirView == Spec => []AdmittedViewIsCurrent
<1>1. Inv => AdmittedViewIsCurrent
  BY DEF Inv, AdmittedOK, AdmittedViewIsCurrent
<1> QED
  BY <1>1, InvAlways, PTL
=============================================================================
