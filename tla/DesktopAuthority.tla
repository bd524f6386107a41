-------------------------- MODULE DesktopAuthority --------------------------
(***************************************************************************)
(* The order of native desktop mutations and the observations guarded by   *)
(* it: the process-wide Authority and its leases (desktop_authority.rs),   *)
(* and the one-use desktop bindings of the macOS platform that depend on   *)
(* them (platform-macos foreground_activity/desktop.rs).                   *)
(*                                                                         *)
(* A lease is an Arc. The dispatch that acquired it holds one reference;   *)
(* the invocation's context and its blocking workers hold another, so that *)
(* a cancelled dispatch does not release the coordinator early.            *)
(*                                                                         *)
(* The display geometry, the activity generation, the age and the owner of *)
(* a binding are abstracted to what its checks tell apart. A variant with  *)
(* an underscore in its name is a mistake the properties find.             *)
(*                                                                         *)
(* tokio's Mutex (fair: the permit of a dropped guard goes to the head of  *)
(* the queue) and Notify are external and modelled from their use.         *)
(***************************************************************************)
EXTENDS Integers, Sequences, FiniteSets

CONSTANTS
    Tasks,            \* dispatches of a tool that needs the authority
    Owners,           \* sessions with their transport, who own bindings
    MaxEpoch,         \* u64::MAX
    MaxObservations,  \* MAX_OBSERVATIONS
    Nil

ASSUME NilAssumption == Nil \notin Tasks /\ Nil \notin Owners
ASSUME BoundsAssumption == MaxEpoch \in Nat /\ MaxObservations \in Nat \ {0}

VARIABLES
    holder, queue,   \* Authority.coordinator: who has the permit, who waits
    epoch, unknown,  \* Authority.epoch and .cleanup_unknown
    notified,        \* has the Notified future of a waiting task been woken?
    pc, mutation,    \* where a dispatch is; does its tool mutate?
    owner,           \* on whose behalf it runs
    before, stamp,   \* Lease.before and Lease.epoch
    refs,            \* who holds a reference to its lease
    capture,         \* the Capture of a get_desktop_state, or None
    admitted,        \* the Admission of a desktop action, or None
    registry,        \* the binding of each owner, or None
    live             \* owner_live: transport, session and runtime are alive

coordinator == <<holder, queue>>
authority == <<epoch, unknown, notified>>
lease == <<before, stamp, refs>>
bindings == <<capture, admitted, registry>>
vars == <<coordinator, authority, pc, mutation, owner, lease, bindings, live>>

\* clean is a history variable: the screen is as the capture saw it, but for the
\* action that consumes the binding. state is what the checks can tell.
Binding == [epoch : Nat, clean : BOOLEAN,
            state : {"none", "valid", "disturbed", "expired"}]
None == [epoch |-> 0, clean |-> TRUE, state |-> "none"]
PCs == {"idle", "subscribed", "locking", "queued", "granted",
        "leased", "working", "settling"}

TypeOK ==
    /\ holder \in Tasks \cup {Nil}
    /\ queue \in Seq(Tasks)
    /\ epoch \in 0..MaxEpoch
    /\ unknown \in BOOLEAN
    /\ notified \in [Tasks -> BOOLEAN]
    /\ pc \in [Tasks -> PCs]
    /\ mutation \in [Tasks -> BOOLEAN]
    /\ owner \in [Tasks -> Owners \cup {Nil}]
    /\ before \in [Tasks -> Nat]
    /\ stamp \in [Tasks -> Nat]
    /\ refs \in [Tasks -> SUBSET {"dispatch", "worker"}]
    /\ capture \in [Tasks -> Binding]
    /\ admitted \in [Tasks -> Binding]
    /\ registry \in [Owners -> Binding]
    /\ live \in [Owners -> BOOLEAN]

Init ==
    /\ holder = Nil /\ queue = <<>>
    /\ epoch = 0 /\ unknown = FALSE
    /\ notified = [t \in Tasks |-> FALSE]
    /\ pc = [t \in Tasks |-> "idle"]
    /\ mutation = [t \in Tasks |-> FALSE]
    /\ owner = [t \in Tasks |-> Nil]
    /\ before = [t \in Tasks |-> 0]
    /\ stamp = [t \in Tasks |-> 0]
    /\ refs = [t \in Tasks |-> {}]
    /\ capture = [t \in Tasks |-> None]
    /\ admitted = [t \in Tasks |-> None]
    /\ registry = [o \in Owners |-> None]
    /\ live = [o \in Owners |-> TRUE]

-----------------------------------------------------------------------------
(* The coordinator and the quarantine.                                     *)

PassOn ==
    IF queue = <<>> THEN holder' = Nil /\ UNCHANGED queue
    ELSE holder' = Head(queue) /\ queue' = Tail(queue)

Goto(t, at) == pc' = [pc EXCEPT ![t] = at]

\* The dispatch is over, and with it the lease, capture and admission it held.
Leave(t) ==
    /\ Goto(t, "idle")
    /\ mutation' = [mutation EXCEPT ![t] = FALSE]
    /\ owner' = [owner EXCEPT ![t] = Nil]
    /\ before' = [before EXCEPT ![t] = 0]
    /\ stamp' = [stamp EXCEPT ![t] = 0]
    /\ refs' = [refs EXCEPT ![t] = {}]
    /\ capture' = [capture EXCEPT ![t] = None]
    /\ admitted' = [admitted EXCEPT ![t] = None]

\* notify_waiters wakes the futures that exist; acquire creates its own before
\* it looks at cleanup_unknown for the first time.
Subscribed_Late(t) == pc[t] = "queued"
Subscribed(t) == pc[t] \in {"subscribed", "locking", "queued"}

Poison ==
    /\ unknown' = TRUE
    /\ notified' = [t \in Tasks |-> notified[t] \/ Subscribed(t)]

-----------------------------------------------------------------------------
(* Authority::acquire.                                                     *)

Acquire(t, m, o) ==
    /\ pc[t] = "idle"
    /\ Goto(t, "subscribed")
    /\ mutation' = [mutation EXCEPT ![t] = m]
    /\ owner' = [owner EXCEPT ![t] = o]
    /\ notified' = [notified EXCEPT ![t] = FALSE]
    /\ UNCHANGED <<coordinator, epoch, unknown, lease, bindings, live>>

CheckUnknown(t) ==
    /\ pc[t] = "subscribed"
    /\ IF unknown THEN Leave(t)
       ELSE Goto(t, "locking") /\ UNCHANGED <<mutation, owner, lease, capture, admitted>>
    /\ UNCHANGED <<coordinator, authority, registry, live>>

Lock(t) ==
    /\ pc[t] = "locking"
    /\ IF holder = Nil
       THEN Goto(t, "granted") /\ holder' = t /\ UNCHANGED queue
       ELSE Goto(t, "queued") /\ queue' = Append(queue, t) /\ UNCHANGED holder
    /\ UNCHANGED <<authority, mutation, owner, lease, bindings, live>>

\* The two arms of the select!, ready in any order ...
Granted(t) ==
    /\ pc[t] = "queued" /\ holder = t
    /\ Goto(t, "granted")
    /\ UNCHANGED <<coordinator, authority, mutation, owner, lease, bindings, live>>

\* Dropping the lock future leaves the queue, or passes on a permit just given.
Withdraw(t) ==
    /\ pc[t] = "queued"
    /\ IF holder = t THEN PassOn
       ELSE /\ \E i \in 1..Len(queue) :
                 /\ queue[i] = t
                 /\ queue' = SubSeq(queue, 1, i - 1) \o SubSeq(queue, i + 1, Len(queue))
            /\ UNCHANGED holder
    /\ Leave(t)
    /\ UNCHANGED <<authority, registry, live>>

Woken(t) == notified[t] /\ Withdraw(t)

\* ... and the request itself is cancelled while it waits.
Cancel(t) == ~notified[t] /\ Withdraw(t)

\* cleanup_unknown is looked at again under the lock.
GrantRefused_Unchecked == FALSE
GrantRefused == unknown

RefuseGrant(t) ==
    /\ pc[t] = "granted" /\ GrantRefused
    /\ PassOn /\ Leave(t)
    /\ UNCHANGED <<authority, registry, live>>

\* checked_add: an epoch is never reused, the authority quarantines itself instead.
Exhausted_Never(m) == FALSE
Exhausted(m) == m /\ epoch = MaxEpoch

Exhaust(t) ==
    /\ pc[t] = "granted" /\ ~GrantRefused
    /\ Exhausted(mutation[t])
    /\ Poison
    /\ PassOn /\ Leave(t)
    /\ UNCHANGED <<epoch, registry, live>>

NextEpoch(m) == IF m THEN epoch + 1 ELSE epoch

Grant(t) ==
    LET next == NextEpoch(mutation[t]) IN
    /\ pc[t] = "granted" /\ ~GrantRefused
    /\ ~Exhausted(mutation[t])
    /\ epoch' = next
    /\ before' = [before EXCEPT ![t] = epoch]
    /\ stamp' = [stamp EXCEPT ![t] = next]
    /\ refs' = [refs EXCEPT ![t] = {"dispatch"}]
    /\ Goto(t, "leased")
    /\ UNCHANGED <<coordinator, unknown, notified, mutation, owner, bindings, live>>

-----------------------------------------------------------------------------
(* Leases.                                                                 *)

IsCurrent(t) == ~unknown /\ epoch = stamp[t]
AdmitsObservation_Older(t, observed) == mutation[t] /\ IsCurrent(t) /\ observed <= before[t]
AdmitsObservation(t, observed) == mutation[t] /\ IsCurrent(t) /\ observed = before[t]

Releases_WithDispatch(t, r) == r = "dispatch"
Releases(t, r) == refs[t] = {r}

\* A reference is dropped: the dispatch returns or is cancelled, a worker exits.
\* The last one releases the coordinator.
DropRef(t, r) ==
    /\ r \in refs[t]
    /\ IF Releases(t, r) THEN PassOn ELSE UNCHANGED coordinator
    /\ IF refs[t] = {r} THEN Leave(t)
       ELSE /\ refs' = [refs EXCEPT ![t] = @ \ {r}]
            /\ UNCHANGED <<pc, mutation, owner, before, stamp, capture, admitted>>
    /\ UNCHANGED <<authority, registry, live>>

\* A worker or a child could not be proved to have stopped.
CleanupUnknown(t) ==
    /\ refs[t] # {}
    /\ Poison
    /\ UNCHANGED <<coordinator, epoch, pc, mutation, owner, lease, bindings, live>>

-----------------------------------------------------------------------------
(* Captures, bindings and desktop actions of the macOS platform.           *)

Start(t, c, a) ==
    /\ refs' = [refs EXCEPT ![t] = @ \cup {"worker"}]
    /\ capture' = [capture EXCEPT ![t] = c]
    /\ admitted' = [admitted EXCEPT ![t] = a]
    /\ Goto(t, "working")
    /\ UNCHANGED <<coordinator, authority, mutation, owner, before, stamp, live>>

\* Capture::begin: observation_epoch, then the screenshot is under way.
BeginCapture(t) ==
    /\ pc[t] = "leased" /\ ~mutation[t] /\ live[owner[t]] /\ IsCurrent(t)
    /\ Start(t, [epoch |-> stamp[t], clean |-> TRUE, state |-> "valid"], None)
    /\ UNCHANGED registry

\* Capture::finish checks everything again and registers the binding: it
\* replaces the owner's last one, retires the stale, and evicts at the limit.
\* What changes between its checks and the registration is as if it changed
\* right after: the epoch cannot, while the capture holds its lease.
Kept(o) == {p \in Owners \ {o} : /\ registry[p] # None /\ live[p]
                                 /\ registry[p].state # "expired"}
Evictions(o) ==
    {gone \in SUBSET Kept(o) :
        Cardinality(gone) = IF Cardinality(Kept(o)) < MaxObservations THEN 0
                            ELSE Cardinality(Kept(o)) - MaxObservations + 1}

FinishCapture(t) ==
    LET o == owner[t] IN
    /\ pc[t] = "working" /\ capture[t] # None /\ refs[t] = {"dispatch", "worker"}
    /\ live[o] /\ capture[t].state = "valid" /\ IsCurrent(t)
    /\ \E gone \in Evictions(o) :
        registry' = [p \in Owners |->
                        IF p = o THEN capture[t]
                        ELSE IF p \in Kept(o) \ gone THEN registry[p] ELSE None]
    /\ refs' = [refs EXCEPT ![t] = {"dispatch"}]
    /\ capture' = [capture EXCEPT ![t] = None]
    /\ Goto(t, "settling")
    /\ UNCHANGED <<coordinator, authority, mutation, owner, before, stamp,
                   admitted, live>>

\* admit takes the binding the caller names before every other check but the
\* caller's own liveness; a refusal has consumed it all the same.
Admit(t) ==
    /\ pc[t] = "leased" /\ mutation[t] /\ refs[t] = {"dispatch"} /\ live[owner[t]]
    /\ \E p \in {q \in Owners : registry[q] # None} :
        LET b == registry[p] IN
        /\ registry' = [registry EXCEPT ![p] = None]
        /\ IF AdmitsObservation(t, b.epoch) /\ p = owner[t] /\ b.state = "valid"
           THEN Start(t, None, b)
           ELSE /\ Goto(t, "settling")
                /\ UNCHANGED <<coordinator, authority, mutation, owner, lease,
                               capture, admitted, live>>

\* Input that is aimed at an application needs no binding.
StartInput(t) ==
    /\ pc[t] = "leased" /\ mutation[t] /\ refs[t] = {"dispatch"}
    /\ Start(t, None, None)
    /\ UNCHANGED registry

\* The screen changes under whoever captured it before; Admission::check precedes
\* each native effect of a desktop action. The effect whose check has passed may
\* follow the cancellation of the request.
Dirty(b) == IF b = None THEN None ELSE [b EXCEPT !.clean = FALSE]
Permitted(t) ==
    admitted[t] # None =>
        IsCurrent(t) /\ admitted[t].state = "valid" /\ live[owner[t]]

Mutate(t) ==
    /\ pc[t] = "working" /\ "worker" \in refs[t] /\ mutation[t] /\ Permitted(t)
    /\ capture' = [u \in Tasks |-> Dirty(capture[u])]
    /\ registry' = [o \in Owners |-> Dirty(registry[o])]
    /\ admitted' = [u \in Tasks |-> IF u = t THEN admitted[u] ELSE Dirty(admitted[u])]
    /\ UNCHANGED <<coordinator, authority, pc, mutation, owner, lease, live>>

-----------------------------------------------------------------------------
(* The environment.                                                        *)

\* The user moves, types, or rearranges the displays.
Disturbed(b) == IF b = None \/ b.state = "expired" THEN b
                ELSE [b EXCEPT !.state = "disturbed"]
Disturb ==
    /\ capture' = [t \in Tasks |-> Disturbed(capture[t])]
    /\ admitted' = [t \in Tasks |-> Disturbed(admitted[t])]
    /\ registry' = [o \in Owners |-> Disturbed(registry[o])]
    /\ UNCHANGED <<coordinator, authority, pc, mutation, owner, lease, live>>

\* A capture exceeds its limit, or a binding its TTL.
ExpireBinding(o) ==
    /\ registry[o] # None
    /\ registry' = [registry EXCEPT ![o].state = "expired"]
    /\ UNCHANGED <<coordinator, authority, pc, mutation, owner, lease, capture,
                   admitted, live>>

ExpireCapture(t) ==
    /\ capture[t] # None
    /\ capture' = [capture EXCEPT ![t].state = "expired"]
    /\ UNCHANGED <<coordinator, authority, pc, mutation, owner, lease, registry,
                   admitted, live>>

OwnerEnds(o) ==
    /\ live' = [live EXCEPT ![o] = FALSE]
    /\ UNCHANGED <<coordinator, authority, pc, mutation, owner, lease, bindings>>

Settle(t) == \E r \in {"dispatch", "worker"} : DropRef(t, r)

Acquiring(t) ==
    CheckUnknown(t) \/ Lock(t) \/ Granted(t) \/ Woken(t)
    \/ RefuseGrant(t) \/ Exhaust(t) \/ Grant(t)

Next ==
    \/ \E t \in Tasks :
        \/ \E m \in BOOLEAN, o \in Owners : Acquire(t, m, o)
        \/ Acquiring(t) \/ Cancel(t) \/ Settle(t) \/ CleanupUnknown(t)
        \/ BeginCapture(t) \/ FinishCapture(t) \/ Admit(t) \/ StartInput(t)
        \/ Mutate(t) \/ ExpireCapture(t)
    \/ \E o \in Owners : ExpireBinding(o) \/ OwnerEnds(o)
    \/ Disturb

Spec == Init /\ [][Next]_vars

\* An acquire that is ready to run runs. A lease is dropped or quarantined in the
\* end: captures, actions and the reaping of children have deadlines. A lease
\* that was quarantined may be kept for ever.
Fairness ==
    \A t \in Tasks :
        /\ WF_vars(Acquiring(t))
        /\ WF_vars(~unknown /\ (Settle(t) \/ CleanupUnknown(t)))

FairSpec == Spec /\ Fairness

-----------------------------------------------------------------------------
(* What the rest of the driver relies on.                                  *)

\* However its request ended, a dispatch whose workers are still running keeps
\* every other desktop mutation and capture out: "cancellation cannot expose an
\* unfinished mutation".
LeaseIsExclusive == \A t \in Tasks : refs[t] # {} => holder = t

\* A desktop action acts on the screen its caller has seen: since the capture of
\* the binding that admitted it, no other action has changed the screen.
AdmittedViewIsCurrent ==
    \A t \in Tasks : admitted[t] # None => admitted[t].clean

\* A binding that some action has made untrue carries an epoch that no later
\* lease can have as its "before".
UntrueBindingIsRetired ==
    \A o \in Owners :
        registry[o] # None /\ ~registry[o].clean => registry[o].epoch < epoch

\* Cleanup uncertainty is sticky: from then on nobody gets a lease, not even one
\* who was waiting and to whom the quarantined holder passes the permit.
QuarantineGrantsNothing ==
    [][unknown => \A t \in Tasks : refs[t] = {} => refs'[t] = {}]_vars

\* Nobody waits for ever behind a lease that will never be released: the
\* quarantine wakes those who wait, and those who were about to.
AcquireReturns == \A t \in Tasks : pc[t] = "queued" ~> pc[t] # "queued"
=============================================================================
