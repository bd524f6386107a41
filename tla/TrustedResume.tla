--------------------------- MODULE TrustedResume ---------------------------
(***************************************************************************)
(* Trusted sessions of the daemon and the clients that resume them: the    *)
(* connection tasks and the registry of resume credentials in              *)
(* cua-driver/src/serve.rs, and ServiceSessionClient with its mutex,       *)
(* deadlines and resume loop in cua-driver-sdk/src/service_session.rs.     *)
(*                                                                         *)
(* A client binds one trusted session to its connection and is given a     *)
(* credential. When the connection ends the daemon closes the session and  *)
(* keeps a record under the credential, with which a later connection      *)
(* binds the session again and is given the next credential. The           *)
(* credentials of a client are numbered in the order they are minted; the  *)
(* transport identity the daemon mints for it is the client itself.        *)
(***************************************************************************)
EXTENDS Naturals, FiniteSets

CONSTANTS
    Clients,      \* service session handles, each with its ServiceSessionClient
    MaxCalls,     \* calls a client makes
    MaxRetries,   \* RESUME_REGISTRATION_RETRIES
    MaxCrashes,   \* ends of the daemon
    Nil

ASSUME BoundsAssumption ==
    MaxCalls \in Nat /\ MaxRetries \in Nat /\ MaxCrashes \in Nat

Calls == 1..MaxCalls
Begin == 0                      \* trusted_session_begin
End == MaxCalls + 1             \* trusted_session_end
Abandon == MaxCalls + 2         \* no request: abandon only marks the connection
Resume == MaxCalls + 3          \* trusted_session_resume
Jobs == Calls \cup {End, Abandon}

\* A connection for the binding, and one for every attempt to resume.
MaxConns == 1 + (MaxCalls + 1) * (MaxRetries + 1)
Conns == 1..MaxConns
Credentials == 1..MaxConns

\* What a connection carries one way and the other. "unavailable" is the error
\* that the client takes for a registration race.
Requests == [job : Calls \cup {Begin, End, Resume}, credential : Credentials \cup {0}]
Answers == [to : Calls \cup {Begin, End, Resume}, credential : Credentials \cup {0},
            is : {"ok", "error", "unavailable"}]

\* A connection: the request and the response in its socket, whether its client
\* has hung up, the daemon's task, and its TrustedConnectionSession: the
\* credential, 0 without a session, and the delegated context.
Links == [line : Requests \cup {Nil}, answer : Answers \cup {Nil}, hungup : BOOLEAN,
          task : {"none", "idle", "busy", "closed", "done"},
          bound : Credentials \cup {0}, context : {"none", "live", "expired"}]

VARIABLES
    \* one ServiceSessionClient per client
    pc,        \* what the thread that holds the mutex is doing
    job,       \* the request it is doing it for
    made,      \* calls made so far
    asked,     \* threads waiting for the mutex, by their request
    shut,      \* SessionBackend::Service.closed
    broken,    \* ServiceConnection.closed
    held,      \* ServiceConnection.resume_credential, 0 when empty
    conn,      \* the number of connections opened, the last of which is in use
    tries,     \* failed attempts of the resume loop
    \* the daemon
    up,        \* a daemon is listening
    crashes,
    link,      \* the connections of each client
    records,   \* the resume registry: a client's identity under its credential
    expired,   \* its records whose expires_at has passed
    minted,    \* credentials handed out to each client
    ended,     \* clients whose session has been ended on request
    rival      \* another session of the runtime is bound to a client's label

client == <<pc, job, made, asked, shut, broken, held, conn, tries>>
registry == <<records, expired, minted, ended, rival>>
vars == <<client, up, crashes, link, registry>>

TypeOK ==
    /\ pc \in [Clients -> {"new", "bind", "free", "wait", "resume", "answer", "gone"}]
    /\ job \in [Clients -> Jobs \cup {Begin}]
    /\ made \in [Clients -> Calls \cup {0}]
    /\ asked \in [Clients -> SUBSET Jobs]
    /\ shut \in [Clients -> BOOLEAN] /\ broken \in [Clients -> BOOLEAN]
    /\ held \in [Clients -> Credentials \cup {0}]
    /\ conn \in [Clients -> Conns \cup {0}]
    /\ tries \in [Clients -> 0..MaxRetries]
    /\ up \in BOOLEAN /\ crashes \in 0..MaxCrashes
    /\ link \in [Clients -> [Conns -> Links]]
    /\ records \subseteq Clients \X Credentials
    /\ expired \subseteq records
    /\ minted \in [Clients -> Credentials \cup {0}]
    /\ ended \subseteq Clients
    /\ rival \in [Clients -> BOOLEAN]

Unopened == [line |-> Nil, answer |-> Nil, hungup |-> FALSE, task |-> "none",
             bound |-> 0, context |-> "none"]

Init ==
    /\ pc = [c \in Clients |-> "new"]
    /\ job = [c \in Clients |-> Begin]
    /\ made = [c \in Clients |-> 0]
    /\ asked = [c \in Clients |-> {}]
    /\ shut = [c \in Clients |-> FALSE]
    /\ broken = [c \in Clients |-> FALSE]
    /\ held = [c \in Clients |-> 0]
    /\ conn = [c \in Clients |-> 0]
    /\ tries = [c \in Clients |-> 0]
    /\ up = TRUE /\ crashes = 0
    /\ link = [c \in Clients |-> [k \in Conns |-> Unopened]]
    /\ records = {} /\ expired = {}
    /\ minted = [c \in Clients |-> 0]
    /\ ended = {}
    /\ rival = [c \in Clients |-> FALSE]

-----------------------------------------------------------------------------
(* The client. A request that finds the daemon gone has been written to a  *)
(* dead socket: it is lost like one whose answer does not come.            *)

Current(c) == link[c][conn[c]]

Request(j, n) == [job |-> j, credential |-> n]

\* write_request
Written(l, r) == IF l.task = "done" THEN l ELSE [l EXCEPT !.line = r]

\* Dropping the handles of a connection: the daemon sees its EOF, in its turn.
HangsUp(l) == [l EXCEPT !.hungup = TRUE, !.answer = Nil]

\* The end of a request unlocks the mutex.
Released(c) == pc' = [pc EXCEPT ![c] = "free"]

\* connect, and the first request on the new connection; the handles of the old
\* one are replaced first.
Opens(c, r) ==
    /\ conn' = [conn EXCEPT ![c] = @ + 1]
    /\ link' = [link EXCEPT ![c] = [k \in Conns |->
                  IF k = conn[c] THEN HangsUp(@[k])
                  ELSE IF k = conn[c] + 1
                       THEN [Unopened EXCEPT !.task = "idle", !.line = r]
                       ELSE @[k]]]

\* connect_and_bind
Connect(c) ==
    /\ pc[c] = "new" /\ up
    /\ pc' = [pc EXCEPT ![c] = "bind"]
    /\ Opens(c, Request(Begin, 0))
    /\ UNCHANGED <<job, made, asked, shut, broken, held, tries, up, crashes, registry>>

\* The client is dropped with its last handle, or its process dies.
Leaves(c) ==
    /\ pc' = [pc EXCEPT ![c] = "gone"]
    /\ asked' = [asked EXCEPT ![c] = {}]
    /\ link' = [link EXCEPT ![c][conn[c]] = HangsUp(@)]

ClientDies(c) ==
    /\ pc[c] \notin {"new", "gone"}
    /\ Leaves(c)
    /\ UNCHANGED <<job, made, shut, broken, held, conn, tries, up, crashes, registry>>

\* The answer to the binding. Without one there is no client.
Bound(c) ==
    /\ pc[c] = "bind" /\ Current(c).answer # Nil
    /\ IF Current(c).answer.is = "ok"
       THEN /\ held' = [held EXCEPT ![c] = Current(c).answer.credential]
            /\ Released(c)
            /\ link' = [link EXCEPT ![c][conn[c]].answer = Nil]
            /\ UNCHANGED asked
       ELSE Leaves(c) /\ UNCHANGED held
    /\ UNCHANGED <<job, made, shut, broken, conn, tries, up, crashes, registry>>

BindLost(c) ==
    /\ pc[c] = "bind"
    /\ Leaves(c)
    /\ UNCHANGED <<job, made, shut, broken, held, conn, tries, up, crashes, registry>>

Usable(c) == pc[c] \notin {"new", "bind", "gone"} /\ ~shut[c]

\* CuaDriverSession: a call looks at the closed flag once, and then waits for the
\* mutex on a thread of its own.
Call(c) ==
    /\ Usable(c) /\ made[c] < MaxCalls
    /\ made' = [made EXCEPT ![c] = @ + 1]
    /\ asked' = [asked EXCEPT ![c] = @ \cup {made[c] + 1}]
    /\ UNCHANGED <<pc, job, shut, broken, held, conn, tries, up, crashes, link, registry>>

\* close and the finalizer's abandon: whoever sets the flag does it, once.
Shut(c, j) ==
    /\ Usable(c)
    /\ shut' = [shut EXCEPT ![c] = TRUE]
    /\ asked' = [asked EXCEPT ![c] = @ \cup {j}]
    /\ UNCHANGED <<pc, job, made, broken, held, conn, tries, up, crashes, link, registry>>

\* A thread gets the mutex.
Take(c, j) ==
    /\ pc[c] = "free" /\ j \in asked[c]
    /\ asked' = [asked EXCEPT ![c] = @ \ {j}]
    /\ job' = [job EXCEPT ![c] = j]
    /\ \/ /\ j = Abandon
          /\ broken' = [broken EXCEPT ![c] = TRUE]
          /\ UNCHANGED <<pc, link>>
       \/ /\ j # Abandon /\ broken[c]
          /\ pc' = [pc EXCEPT ![c] = "resume"]
          /\ UNCHANGED <<broken, link>>
       \/ /\ j # Abandon /\ ~broken[c]
          /\ pc' = [pc EXCEPT ![c] = "wait"]
          /\ link' = [link EXCEPT ![c][conn[c]] = Written(@, Request(j, 0))]
          /\ UNCHANGED broken
    /\ UNCHANGED <<made, shut, held, conn, tries, up, crashes, registry>>

\* The response to a call, whatever it says, and to the end, after which the
\* connection counts as closed.
Answered(c) ==
    /\ pc[c] = "wait" /\ Current(c).answer # Nil
    /\ link' = [link EXCEPT ![c][conn[c]].answer = Nil]
    /\ broken' = [broken EXCEPT ![c] = @ \/ job[c] = End]
    /\ Released(c)
    /\ UNCHANGED <<job, made, asked, shut, held, conn, tries, up, crashes, registry>>

\* No response within SERVICE_REQUEST_DEADLINE, or none to come: the connection
\* is given up, because its answer may still arrive.
Breaks_NotOnTimeout(c) ==
    broken' = [broken EXCEPT ![c] = @ \/ Current(c).task = "done"]
Breaks(c) == broken' = [broken EXCEPT ![c] = TRUE]

Overdue_OnlyClosed(c) == pc[c] = "wait" /\ Current(c).task = "done"
Overdue(c) == pc[c] = "wait"

Lost(c) ==
    /\ Overdue(c)
    /\ Breaks(c)
    /\ Released(c)
    /\ UNCHANGED <<job, made, asked, shut, held, conn, tries, up, crashes, link, registry>>

\* resume_connection: an attempt on a new connection, or the end of it, because
\* there is no credential or nobody to connect to.
Attempt(c) ==
    /\ pc[c] = "resume"
    /\ IF held[c] # 0 /\ up
       THEN /\ pc' = [pc EXCEPT ![c] = "answer"]
            /\ Opens(c, Request(Resume, held[c]))
            /\ UNCHANGED tries
       ELSE /\ Released(c)
            /\ tries' = [tries EXCEPT ![c] = 0]
            /\ UNCHANGED <<conn, link>>
    /\ UNCHANGED <<job, made, asked, shut, broken, held, up, crashes, registry>>

\* The session is bound again: its next credential is kept and the request is
\* made, for the first time.
Rotated_Not(c) == held[c]
Rotated(c) == Current(c).answer.credential

Resumed(c) ==
    /\ pc[c] = "answer" /\ Current(c).answer # Nil
    /\ Current(c).answer.is = "ok"
    /\ held' = [held EXCEPT ![c] = Rotated(c)]
    /\ broken' = [broken EXCEPT ![c] = FALSE]
    /\ pc' = [pc EXCEPT ![c] = "wait"]
    /\ tries' = [tries EXCEPT ![c] = 0]
    /\ link' = [link EXCEPT ![c][conn[c]] =
                  Written([@ EXCEPT !.answer = Nil], Request(job[c], 0))]
    /\ UNCHANGED <<job, made, asked, shut, conn, up, crashes, registry>>

RetryLeft_OffByOne(c) == tries[c] <= MaxRetries
RetryLeft(c) == tries[c] < MaxRetries

\* The record may not be there yet; any other refusal, or too many of these, is
\* the end of the credential.
Refused(c) ==
    /\ pc[c] = "answer" /\ Current(c).answer # Nil
    /\ Current(c).answer.is # "ok"
    /\ link' = [link EXCEPT ![c][conn[c]].answer = Nil]
    /\ IF Current(c).answer.is = "unavailable" /\ RetryLeft(c)
       THEN /\ pc' = [pc EXCEPT ![c] = "resume"]
            /\ tries' = [tries EXCEPT ![c] = @ + 1]
            /\ UNCHANGED held
       ELSE /\ Released(c)
            /\ tries' = [tries EXCEPT ![c] = 0]
            /\ held' = [held EXCEPT ![c] = 0]
    /\ UNCHANGED <<job, made, asked, shut, broken, conn, up, crashes, registry>>

\* The answer to the attempt is lost. The credential stays, although the daemon
\* may have taken it.
ResumeLost(c) ==
    /\ pc[c] = "answer"
    /\ Released(c)
    /\ tries' = [tries EXCEPT ![c] = 0]
    /\ UNCHANGED <<job, made, asked, shut, broken, held, conn, up, crashes, link, registry>>

-----------------------------------------------------------------------------
(* The daemon: one task per connection, which serves its requests one by   *)
(* one and sees the end of the connection after them.                      *)

\* The response is written and the next line is read.
Reply(l, to, is, n) ==
    [l EXCEPT !.line = Nil, !.task = "idle",
              !.answer = IF l.hungup THEN Nil
                         ELSE [to |-> to, is |-> is, credential |-> n]]

Serves(c, k, j) == link[c][k].task = "idle" /\ link[c][k].line # Nil /\ link[c][k].line.job = j

\* bind_delegated_session, but for SessionAlreadyBound
Unclaimed(c) == \A k \in Conns : link[c][k].context # "live"
Free(c) == ~rival[c] /\ Unclaimed(c)

\* bind_trusted_connection
Binds(c, k, j) ==
    /\ minted' = [minted EXCEPT ![c] = @ + 1]
    /\ link' = [link EXCEPT ![c][k] =
                  [Reply(@, j, "ok", minted[c] + 1)
                      EXCEPT !.bound = minted[c] + 1, !.context = "live"]]

Fails(c, k, j, is) ==
    /\ link' = [link EXCEPT ![c][k] = Reply(@, j, is, 0)]
    /\ UNCHANGED minted

ServeBegin(c, k) ==
    /\ Serves(c, k, Begin)
    /\ IF Free(c) THEN Binds(c, k, Begin) ELSE Fails(c, k, Begin, "error")
    /\ UNCHANGED <<client, up, crashes, records, expired, ended, rival>>

\* take_trusted_resume_record: what is presented is gone, and all that has expired.
Left_Kept(r) == records \ (expired \ {r})
Left(r) == (records \ {r}) \ expired

\* resume_trusted_connection: the record is taken before anything is looked at.
ServeResume(c, k) ==
    LET r == <<c, link[c][k].line.credential>> IN
    /\ Serves(c, k, Resume)
    /\ records' = Left(r)
    /\ expired' = expired \cap Left(r)
    /\ IF r \in records
       THEN IF r \notin expired /\ Free(c)
            THEN Binds(c, k, Resume)
            ELSE Fails(c, k, Resume, "error")
       ELSE Fails(c, k, Resume, "unavailable")
    /\ UNCHANGED <<client, up, crashes, ended, rival>>

\* trusted_session_call and trusted_session_end run the tool of a bound session.
ServeCall(c, k) ==
    \E j \in Calls \cup {End} :
        /\ Serves(c, k, j)
        /\ link' = [link EXCEPT ![c][k] =
                      IF @.bound # 0 THEN [@ EXCEPT !.task = "busy"]
                      ELSE Reply(@, j, IF j = End THEN "ok" ELSE "error", 0)]
        /\ UNCHANGED <<client, up, crashes, registry>>

\* A tool call returns; without a live context it is refused.
Return(c, k) ==
    LET l == link[c][k] IN
    /\ l.task = "busy" /\ l.line.job \in Calls
    /\ link' = [link EXCEPT ![c][k] =
                  Reply(l, l.line.job, IF l.context = "live" THEN "ok" ELSE "error", 0)]
    /\ UNCHANGED <<client, up, crashes, registry>>

\* end_session has ended the session, and its binding is let go; or it has not,
\* and the binding stays.
Unbound_Not(l) == [l EXCEPT !.context = "none"]
Unbound(l) == [l EXCEPT !.bound = 0, !.context = "none"]

ReturnEnd(c, k) ==
    LET l == link[c][k] IN
    /\ l.task = "busy" /\ l.line.job = End
    /\ \/ /\ l.context = "live"
          /\ link' = [link EXCEPT ![c][k] = Unbound(Reply(l, End, "ok", 0))]
          /\ ended' = ended \cup {c}
       \/ /\ link' = [link EXCEPT ![c][k] = Reply(l, End, "error", 0)]
          /\ UNCHANGED ended
    /\ UNCHANGED <<client, up, crashes, records, expired, minted, rival>>

\* The end of the connection: a session still bound is closed first,
Closes_Not(l) == [l EXCEPT !.task = "closed"]
Closes(l) == [l EXCEPT !.context = "none", !.task = "closed"]

SeeEof(c, k) ==
    LET l == link[c][k] IN
    /\ l.task = "idle" /\ l.line = Nil /\ l.hungup
    /\ link' = [link EXCEPT ![c][k] =
                  IF l.bound # 0 THEN Closes(l) ELSE [l EXCEPT !.task = "done"]]
    /\ UNCHANGED <<client, up, crashes, registry>>

\* and then recorded under its credential.
Detach(c, k) ==
    LET l == link[c][k] IN
    /\ l.task = "closed"
    /\ records' = (records \ expired) \cup {<<c, l.bound>>}
    /\ expired' = {}
    /\ link' = [link EXCEPT ![c][k] = [l EXCEPT !.task = "done", !.bound = 0]]
    /\ UNCHANGED <<client, up, crashes, minted, ended, rival>>

\* Another session asks for the label, or lets go of it.
RivalBinds(c) ==
    /\ up /\ Free(c)
    /\ rival' = [rival EXCEPT ![c] = TRUE]
    /\ UNCHANGED <<client, up, crashes, link, records, expired, minted, ended>>

RivalEnds(c) ==
    /\ rival[c]
    /\ rival' = [rival EXCEPT ![c] = FALSE]
    /\ UNCHANGED <<client, up, crashes, link, records, expired, minted, ended>>

-----------------------------------------------------------------------------
(* Time, and the end of the daemon.                                        *)

ExpireContext(c, k) ==
    /\ link[c][k].context = "live"
    /\ link' = [link EXCEPT ![c][k].context = "expired"]
    /\ UNCHANGED <<client, up, crashes, registry>>

ExpireRecord(r) ==
    /\ r \in records \ expired
    /\ expired' = expired \cup {r}
    /\ UNCHANGED <<client, up, crashes, link, records, minted, ended, rival>>

\* Tasks, sessions and the registry are gone; what was written can be read.
Crash ==
    /\ up /\ crashes < MaxCrashes
    /\ up' = FALSE /\ crashes' = crashes + 1
    /\ link' = [c \in Clients |-> [k \in Conns |->
                  IF link[c][k].task = "none" THEN link[c][k]
                  ELSE [link[c][k] EXCEPT !.task = "done", !.line = Nil,
                                          !.bound = 0, !.context = "none"]]]
    /\ records' = {} /\ expired' = {}
    /\ rival' = [c \in Clients |-> FALSE]
    /\ UNCHANGED <<client, minted, ended>>

Restart ==
    /\ ~up /\ up' = TRUE
    /\ UNCHANGED <<client, crashes, link, registry>>

ClientStep(c) ==
    \/ Bound(c) \/ BindLost(c) \/ Answered(c) \/ Lost(c)
    \/ Attempt(c) \/ Resumed(c) \/ Refused(c) \/ ResumeLost(c)
    \/ \E j \in Jobs : Take(c, j)
TaskStep(c, k) ==
    ServeBegin(c, k) \/ ServeResume(c, k) \/ ServeCall(c, k) \/ SeeEof(c, k) \/ Detach(c, k)

Next ==
    \/ \E c \in Clients :
        \/ Connect(c) \/ ClientDies(c) \/ Call(c) \/ Shut(c, End) \/ Shut(c, Abandon)
        \/ ClientStep(c) \/ RivalBinds(c) \/ RivalEnds(c)
        \/ \E k \in Conns :
            TaskStep(c, k) \/ Return(c, k) \/ ReturnEnd(c, k) \/ ExpireContext(c, k)
    \/ \E r \in records : ExpireRecord(r)
    \/ Crash \/ Restart

Spec == Init /\ [][Next]_vars

\* The client's threads run and its deadlines pass, and the daemon's tasks run.
\* Nothing is asked of tools, which may never return.
Fairness ==
    \A c \in Clients :
        WF_vars(ClientStep(c)) /\ \A k \in Conns : WF_vars(TaskStep(c, k))

FairSpec == Spec /\ Fairness

-----------------------------------------------------------------------------
(* What holds.                                                             *)

\* The identity of a session has one holder, a connection or a record, and that
\* under the newest of its credentials: "every presented credential is single use".
\* While a record holds it no connection has authority, because the record is
\* published after the context of the detached connection has been revoked.
Holders(c) == {k \in Conns : link[c][k].bound # 0}
IdentityHasOneHolder ==
    \A c \in Clients :
        /\ \A j, k \in Holders(c) : j = k
        /\ \A k \in Holders(c) : link[c][k].bound = minted[c]
        /\ \A n \in Credentials : <<c, n>> \in records =>
              /\ n = minted[c] /\ Holders(c) = {}
              /\ \A k \in Conns : link[c][k].context = "none"

\* A client reads no answer but that to its request, however late the answers to
\* those it gave up may come.
AnswerIsOwn ==
    \A c \in Clients :
        pc[c] \in {"bind", "wait", "answer"} /\ Current(c).answer # Nil =>
            Current(c).answer.to = CASE pc[c] = "bind" -> Begin
                                     [] pc[c] = "wait" -> job[c]
                                     [] pc[c] = "answer" -> Resume

\* Between requests, a client that takes its connection for good knows the
\* credential under which the daemon will detach it.
CredentialsAgree ==
    \A c \in Clients :
        pc[c] = "free" /\ ~broken[c] /\ Current(c).task # "done" =>
            held[c] # 0 /\ Current(c).bound = held[c]

\* A session that was ended on request is never bound again, by no late call and
\* under no credential.
EndedIsFinal ==
    \A c \in ended : Holders(c) = {} /\ \A n \in Credentials : <<c, n>> \notin records

\* Every request returns, whatever becomes of the daemon and its tools.
RequestReturns ==
    \A c \in Clients, j \in Jobs :
        j \in asked[c] ~> j \notin asked[c] /\ (pc[c] \in {"free", "gone"} \/ job[c] # j)

\* A connection that its client has left loses its authority, when the call that
\* it was running has returned.
AuthorityEndsWithConnection ==
    \A c \in Clients, k \in Conns :
        link[c][k].hungup /\ link[c][k].line = Nil ~> link[c][k].context = "none"
=============================================================================
