--------------------------- MODULE SessionMirror ---------------------------
(***************************************************************************)
(* The daemon's mirror of ended session labels (PublicSessionState in      *)
(* cua-driver/src/sdk_adapter.rs) over the sessions it mirrors, which are  *)
(* those of SessionContract. The daemon refuses an ordinary call to a      *)
(* label that is in the mirror before the core sees it (serve.rs).         *)
(*                                                                         *)
(* end_session puts its label in the mirror before it asks the core, and   *)
(* takes it out again if the core fails; start_session takes it out        *)
(* afterwards; ends that nobody asked the adapter for reach the mirror     *)
(* through a session-end hook, at a time of its own. Calls of trusted      *)
(* connections go to the core past the adapter, which hears of their       *)
(* sessions when they end.                                                 *)
(*                                                                         *)
(* A mark is a fresh number in the code, which is only ever compared with  *)
(* the mark of the call that compares; here it is the call that made it,   *)
(* or "hook". The capture scopes the same struct remembers for observers   *)
(* are left out, except for which labels it knows.                         *)
(***************************************************************************)
CONSTANTS Sessions, Owners, Leased, Nil,
          Requests      \* requests the adapter serves at a time

ASSUME MirrorAssumption ==
    /\ "hook" \notin Requests /\ Nil \notin Requests \cup Owners \cup Sessions
    /\ Nil # "hook"

VARIABLES
    status, holder, open,   \* the core, see SessionContract
    suspended,   \* revoke-all has latched the runtime's suspension
    due,         \* sessions whose end the hook has still to be told of
    mark,        \* PublicSessionState.ended: who marked the label, or Nil
    known,       \* PublicSessionState.scopes: labels the adapter was ever told of
    lock,        \* SdkAdapter.session_lifecycle: its holder, or Nil
    pc, lab, by, \* where a request is, its label and its transport
    previous,    \* the mark that its own replaced
    failed,      \* what the core answered
    overtaken,   \* history: labels ended while their start_session had yet to return
    revoked      \* history: labels that revoke-all has marked

core == <<status, holder, open>>
ghost == <<overtaken, revoked>>
local == <<lab, by, previous, failed>>
vars == <<core, suspended, due, mark, known, lock, pc, local, ghost>>

Core == INSTANCE SessionContract

PCs == {"idle", "call", "lock_start", "lock_end", "lock_revoke", "start", "started",
        "end", "ending", "ended", "revoke"}

\* Places of a request with a label, and of one that holds the lifecycle lock.
Labelled == PCs \ {"idle", "lock_revoke", "revoke"}
Locked == {"start", "started", "end", "ending", "ended", "revoke"}

TypeOK ==
    /\ status \in [Sessions -> {"unused", "live", "ended"}]
    /\ holder \in [Sessions -> Owners \cup {Nil}]
    /\ open \in [Owners -> BOOLEAN]
    /\ suspended \in BOOLEAN
    /\ due \subseteq Sessions
    /\ mark \in [Sessions -> Requests \cup {"hook", Nil}]
    /\ known \subseteq Sessions
    /\ lock \in Requests \cup {Nil}
    /\ pc \in [Requests -> PCs]
    /\ lab \in [Requests -> Sessions \cup {Nil}]
    /\ by \in [Requests -> Owners \cup {Nil}]
    /\ previous \in [Requests -> Requests \cup {"hook", Nil}]
    /\ failed \in [Requests -> BOOLEAN]
    /\ overtaken \subseteq Sessions /\ revoked \subseteq Sessions
    /\ \A r \in Requests : pc[r] \in Labelled => lab[r] \in Sessions /\ by[r] \in Owners
    /\ \A r \in Requests : pc[r] \in Locked <=> lock = r

Init ==
    /\ Core!Init
    /\ suspended = FALSE /\ due = {} /\ known = {} /\ lock = Nil
    /\ overtaken = {} /\ revoked = {}
    /\ mark = [s \in Sessions |-> Nil]
    /\ pc = [r \in Requests |-> "idle"]
    /\ lab = [r \in Requests |-> Nil]
    /\ by = [r \in Requests |-> Nil]
    /\ previous = [r \in Requests |-> Nil]
    /\ failed = [r \in Requests |-> FALSE]

-----------------------------------------------------------------------------
(* Requests arrive and return.                                             *)

\* The guard of session_lifecycle is dropped when invoke_raw returns.
Unlock_Leaked == UNCHANGED lock
Unlock == lock' = Nil

Arrive(r, s, o, at) ==
    /\ pc[r] = "idle"
    /\ pc' = [pc EXCEPT ![r] = at]
    /\ lab' = [lab EXCEPT ![r] = s]
    /\ by' = [by EXCEPT ![r] = o]

Goto(r, at) == pc' = [pc EXCEPT ![r] = at]

Return(r) ==
    /\ Goto(r, "idle")
    /\ lab' = [lab EXCEPT ![r] = Nil]
    /\ by' = [by EXCEPT ![r] = Nil]
    /\ previous' = [previous EXCEPT ![r] = Nil]
    /\ failed' = [failed EXCEPT ![r] = FALSE]

\* An ordinary call. The daemon looks into the mirror first; a call that finds
\* its label there returns at once.
Arrives(r) ==
    /\ \E s \in Sessions, o \in Owners :
        \/ Arrive(r, s, o, "lock_start")
        \/ Arrive(r, s, o, "lock_end")
        \/ mark[s] = Nil /\ Arrive(r, s, o, "call")
    /\ UNCHANGED <<core, suspended, due, mark, known, lock, previous, failed, ghost>>

\* The operator asks for revoke-all.
AskRevoke(r) ==
    /\ pc[r] = "idle" /\ ~suspended
    /\ Goto(r, "lock_revoke")
    /\ UNCHANGED <<core, suspended, due, mark, known, lock, local, ghost>>

\* invoke_raw of an ordinary tool: the core has the last word. It looks at the
\* suspension before it asks for consent, and a call that awaited its consent while
\* revoke-all struck opens its session after it.
Call(r) ==
    LET s == lab[r] IN
    /\ pc[r] = "call"
    /\ known' = known \cup {s}
    /\ \/ /\ Core!Open(s, by[r])
          /\ overtaken' = overtaken \ {s} /\ UNCHANGED revoked
       \/ UNCHANGED <<core, ghost>>
    /\ Return(r)
    /\ UNCHANGED <<suspended, due, mark, lock>>

\* A call through a trusted connection opens or resumes a session of the same
\* runtime, and neither takes the lifecycle lock nor tells the adapter its label.
\* These transports have no lease; their ends are EndElsewhere. Like Call it may come
\* after the suspension.
TrustedCall(s, o) ==
    /\ Core!Open(s, o) \/ Core!Resume(s, o)
    /\ overtaken' = overtaken \ {s}
    /\ UNCHANGED <<suspended, due, mark, known, lock, pc, local, revoked>>

-----------------------------------------------------------------------------
(* start_session: ask the core, then unmark.                               *)

LockStart(r) ==
    /\ pc[r] = "lock_start" /\ lock = Nil
    /\ lock' = r
    /\ known' = known \cup {lab[r]}
    /\ Goto(r, "start")
    /\ UNCHANGED <<core, suspended, due, mark, local, ghost>>

\* The core starts or resumes the session, finds it live already, or refuses:
\* it belongs to another transport, its cleanup is not complete, the capture
\* policy conflicts.
Start(r) ==
    LET s == lab[r] IN
    /\ pc[r] = "start"
    /\ \/ /\ ~suspended
          /\ \/ Core!Open(s, by[r]) \/ Core!Resume(s, by[r])
             \/ /\ status[s] = "live" /\ holder[s] = by[r] /\ open[by[r]]
                /\ UNCHANGED core
          /\ overtaken' = overtaken \ {s} /\ UNCHANGED revoked
          /\ failed' = [failed EXCEPT ![r] = FALSE]
       \/ failed' = [failed EXCEPT ![r] = TRUE] /\ UNCHANGED <<core, ghost>>
    /\ Goto(r, "started")
    /\ UNCHANGED <<suspended, due, mark, known, lock, lab, by, previous>>

Unmarked(r) == IF failed[r] THEN mark ELSE [mark EXCEPT ![lab[r]] = Nil]

StartReturns(r) ==
    /\ pc[r] = "started"
    /\ mark' = Unmarked(r)
    /\ Unlock
    /\ Return(r)
    /\ UNCHANGED <<core, suspended, due, known, ghost>>

-----------------------------------------------------------------------------
(* end_session: mark, ask the core, roll back if it failed.                *)

LockEnd(r) ==
    LET s == lab[r] IN
    /\ pc[r] = "lock_end" /\ lock = Nil
    /\ lock' = r
    /\ known' = known \cup {s}
    /\ previous' = [previous EXCEPT ![r] = mark[s]]
    /\ mark' = [mark EXCEPT ![s] = r]
    /\ Goto(r, "end")
    /\ UNCHANGED <<core, suspended, due, lab, by, failed, ghost>>

\* The core ends the session; or defers the end and reports it pending; or the
\* request is refused before it gets there. For a caller who does not own the
\* session it changes nothing and reports success; for one who owns the
\* tombstone it tries the cleanup again.
End(r) ==
    LET s == lab[r] IN
    /\ pc[r] = "end"
    /\ \/ /\ ~suspended /\ holder[s] = by[r] /\ Core!End(s)
          /\ Goto(r, "ending")
          /\ UNCHANGED failed
       \/ /\ ~suspended /\ ~(holder[s] = by[r] /\ status[s] = "live")
          /\ failed' = [failed EXCEPT ![r] = FALSE]
          /\ Goto(r, "ended")
          /\ UNCHANGED core
       \/ /\ failed' = [failed EXCEPT ![r] = TRUE]
          /\ Goto(r, "ended")
          /\ UNCHANGED core
    /\ UNCHANGED <<suspended, due, mark, known, lock, lab, by, previous, ghost>>

\* The hooks of an end run in the thread that ends; another hook may fail.
EndHook(r) ==
    /\ pc[r] = "ending"
    /\ mark' = [mark EXCEPT ![lab[r]] = "hook"]
    /\ known' = known \cup {lab[r]}
    /\ \E f \in BOOLEAN : failed' = [failed EXCEPT ![r] = f]
    /\ Goto(r, "ended")
    /\ UNCHANGED <<core, suspended, due, lock, lab, by, previous, ghost>>

RolledBack_Forgets(r) ==
    IF failed[r] /\ mark[lab[r]] = r THEN [mark EXCEPT ![lab[r]] = Nil] ELSE mark
RolledBack(r) ==
    IF failed[r] /\ mark[lab[r]] = r
    THEN [mark EXCEPT ![lab[r]] = previous[r]] ELSE mark

EndReturns(r) ==
    /\ pc[r] = "ended"
    /\ mark' = RolledBack(r)
    /\ Unlock
    /\ Return(r)
    /\ UNCHANGED <<core, suspended, due, known, ghost>>

-----------------------------------------------------------------------------
(* Ends that the adapter has not been asked for, and revoke-all.           *)

\* The idle sweep, a closed connection, revoke-all, end_session through a trusted
\* connection, the guard of a call that carries a deferred end out.
EndElsewhere(s) ==
    /\ Core!End(s)
    /\ due' = due \cup {s}
    /\ overtaken' = IF \E r \in Requests : pc[r] = "started" /\ lab[r] = s
                    THEN overtaken \cup {s} ELSE overtaken
    /\ UNCHANGED <<suspended, mark, known, lock, pc, local, revoked>>

\* The thread that ended the session comes to the adapter's hook, which may be
\* after the session has been resumed.
Hook(s) ==
    /\ s \in due
    /\ due' = due \ {s}
    /\ mark' = [mark EXCEPT ![s] = "hook"]
    /\ known' = known \cup {s}
    /\ UNCHANGED <<core, suspended, lock, pc, local, ghost>>

CloseConnection(o) ==
    /\ Core!Close(o)
    /\ UNCHANGED <<suspended, due, mark, known, lock, pc, local, ghost>>

LockRevoke(r) ==
    /\ pc[r] = "lock_revoke" /\ lock = Nil
    /\ lock' = r
    /\ suspended' = TRUE
    /\ Goto(r, "revoke")
    /\ UNCHANGED <<core, due, mark, known, local, ghost>>

\* mark_all_sessions_ended, once the core has ended what was not busy.
RevokeReturns(r) ==
    /\ pc[r] = "revoke"
    /\ mark' = [s \in Sessions |-> IF s \in known THEN "hook" ELSE mark[s]]
    /\ revoked' = revoked \cup known
    /\ Unlock
    /\ Return(r)
    /\ UNCHANGED <<core, suspended, due, known, overtaken>>

Acquire(r) == LockStart(r) \/ LockEnd(r) \/ LockRevoke(r)
Proceed(r) ==
    \/ Call(r)
    \/ Start(r) \/ StartReturns(r)
    \/ End(r) \/ EndHook(r) \/ EndReturns(r)
    \/ RevokeReturns(r)

Next ==
    \/ \E r \in Requests : Arrives(r) \/ AskRevoke(r) \/ Acquire(r) \/ Proceed(r)
    \/ \E s \in Sessions : EndElsewhere(s) \/ Hook(s)
    \/ \E s \in Sessions, o \in Owners \ Leased : TrustedCall(s, o)
    \/ \E o \in Owners : CloseConnection(o)

Spec == Init /\ [][Next]_vars

\* tokio's mutex is fair, a tool returns, and an ending thread runs its hooks.
Fairness ==
    /\ \A r \in Requests : SF_vars(Acquire(r)) /\ WF_vars(Proceed(r))
    /\ \A s \in Sessions : WF_vars(Hook(s))

FairSpec == Spec /\ Fairness

-----------------------------------------------------------------------------
(* What holds.                                                             *)

\* Once an end has settled its label is in the mirror, and neither a failed
\* end_session that rolls its own mark back nor one that failed before it takes
\* it out ("a failed in-band end must not erase an out-of-band tombstone"). The
\* exception is a session that ended before its own start_session had returned.
\* There is none for the labels the adapter knew when revoke-all returned: they stay
\* in the mirror for good, whatever was waiting for the lock behind it and whatever
\* the core goes on to do. A session opened past the adapter is not among them: if it
\* was busy when revoke-all struck it is live and unmarked until its own end settles.
Settled(s) ==
    /\ status[s] = "ended" /\ s \notin due \cup overtaken
    /\ \A r \in Requests : pc[r] = "ending" => lab[r] # s
EndsAreMarked == \A s \in Sessions : Settled(s) \/ s \in revoked => mark[s] # Nil

\* Every call that waits for the lifecycle lock gets it and returns.
LifecycleCallsReturn ==
    \A r \in Requests : pc[r] \in {"lock_start", "lock_end"} ~> pc[r] = "idle"

-----------------------------------------------------------------------------
(* What the source says and the code does not do.                          *)

\* The mirror is "used only for the legacy socket's early resurrection refusal":
\* a call that it turns away is to a session that has ended, or that a call under
\* way is ending. end_session marks the label for any caller, and the core answers
\* success to one who does not own the session; a hook may also come to a session
\* that has been resumed meanwhile.
RefusalMeansEnded ==
    \A s \in Sessions : mark[s] # Nil /\ ~suspended =>
        \/ status[s] # "live"
        \/ \E r \in Requests : lab[r] = s /\ pc[r] \in {"end", "ended", "start", "started"}
=============================================================================
