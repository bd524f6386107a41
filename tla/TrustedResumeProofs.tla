------------------------- MODULE TrustedResumeProofs -------------------------
(***************************************************************************)
(* Proofs about TrustedResume, for any number of clients, calls, retries   *)
(* and crashes of the daemon. The first part is about the daemon, whatever *)
(* the clients write and whenever they hang up: the identity of a session  *)
(* is held once. The second is about a client and the daemon together: how *)
(* many connections a client can open, what the one in use carries, and    *)
(* what the client knows of it between its requests.                       *)
(***************************************************************************)
EXTENDS TrustedResume, FiniteSetTheorems, TLAPS

USE BoundsAssumption

\* A connection has its six fields; nothing is said of what is in them.
Shape(l) == l = [line |-> l.line, answer |-> l.answer, hungup |-> l.hungup, task |-> l.task,
                 bound |-> l.bound, context |-> l.context]

Shaped ==
    /\ link = [c \in Clients |-> [k \in Conns |-> link[c][k]]]
    /\ \A c \in Clients, k \in Conns : Shape(link[c][k])

\* A request for the first binding waits in the socket.
AsksBegin(l) == l.line # Nil /\ l.line.job = Begin

-----------------------------------------------------------------------------
(* What a step may do to a connection without giving anyone an identity.   *)

\* It asks for no first binding. It lets the identity go, or keeps it while the
\* context lives on, expires, or is revoked.
Quiet(l, m) ==
    /\ Shape(m)
    /\ AsksBegin(m) => AsksBegin(l)
    /\ \/ m.bound = 0 /\ m.context = "none" /\ m.task # "closed"
       \/ /\ m.bound = l.bound
          /\ \/ m.context = l.context
             \/ l.context = "live" /\ m.context = "expired"
          /\ m.task = "closed" => l.task = "closed"
       \/ m.bound = l.bound /\ m.bound # 0 /\ m.context = "none"

\* The numbers of the requests are different.
LEMMA JobsDiffer ==
    /\ Resume # Begin /\ End # Begin /\ End # Resume
    /\ \A j \in Calls : j # Begin /\ j # Resume /\ j # End
    /\ \A j \in Jobs : j # Begin
BY DEF Resume, Begin, End, Calls, Jobs, Abandon

\* A connection, field by field.
Fields(m, line, answer, hungup, task, bound, context) ==
    /\ Shape(m) /\ m.line = line /\ m.answer = answer /\ m.hungup = hungup
    /\ m.task = task /\ m.bound = bound /\ m.context = context

\* Changing a field leaves the others.
LEMMA FieldsExcept ==
    ASSUME NEW l, NEW a, NEW b, NEW d, NEW t, NEW n, NEW x, Fields(l, a, b, d, t, n, x), NEW v
    PROVE  /\ Fields([l EXCEPT !.line = v], v, b, d, t, n, x)
           /\ Fields([l EXCEPT !.answer = v], a, v, d, t, n, x)
           /\ Fields([l EXCEPT !.hungup = v], a, b, v, t, n, x)
           /\ Fields([l EXCEPT !.task = v], a, b, d, v, n, x)
           /\ Fields([l EXCEPT !.bound = v], a, b, d, t, v, x)
           /\ Fields([l EXCEPT !.context = v], a, b, d, t, n, v)
<1>1. Fields([l EXCEPT !.line = v], v, b, d, t, n, x)
  BY DEF Fields, Shape
<1>2. Fields([l EXCEPT !.answer = v], a, v, d, t, n, x)
  BY DEF Fields, Shape
<1>3. Fields([l EXCEPT !.hungup = v], a, b, v, t, n, x)
  BY DEF Fields, Shape
<1>4. Fields([l EXCEPT !.task = v], a, b, d, v, n, x)
  BY DEF Fields, Shape
<1>5. Fields([l EXCEPT !.bound = v], a, b, d, t, v, x)
  BY DEF Fields, Shape
<1>6. Fields([l EXCEPT !.context = v], a, b, d, t, n, v)
  BY DEF Fields, Shape
<1> QED
  BY <1>1, <1>2, <1>3, <1>4, <1>5, <1>6

\* A connection has its own fields.
LEMMA OwnFields ==
    ASSUME NEW l, Shape(l)
    PROVE  Fields(l, l.line, l.answer, l.hungup, l.task, l.bound, l.context)
BY DEF Fields

-----------------------------------------------------------------------------
(* What the operators of TrustedResume make of a connection.               *)

\* The client drops its handles.
LEMMA HangsUpFields ==
    ASSUME NEW l, Shape(l)
    PROVE  Fields(HangsUp(l), l.line, Nil, TRUE, l.task, l.bound, l.context)
<1>1. Fields(l, l.line, l.answer, l.hungup, l.task, l.bound, l.context)
  BY OwnFields
<1>2. PICK m1 : m1 = [l EXCEPT !.hungup = TRUE]
  OBVIOUS
<1>3. Fields(m1, l.line, l.answer, TRUE, l.task, l.bound, l.context)
  BY <1>1, <1>2, FieldsExcept
<1>4. Fields([m1 EXCEPT !.answer = Nil], l.line, Nil, TRUE, l.task, l.bound, l.context)
  BY <1>3, FieldsExcept
<1>5. HangsUp(l) = [m1 EXCEPT !.answer = Nil]
  BY <1>2 DEF HangsUp
<1> QED
  BY <1>4, <1>5

\* The daemon answers.
LEMMA ReplyFields ==
    ASSUME NEW l, Shape(l), NEW to, NEW is, NEW n
    PROVE  Fields(Reply(l, to, is, n), Nil, IF l.hungup THEN Nil ELSE [to |-> to, is |-> is, credential |-> n], l.hungup, "idle", l.bound, l.context)
<1>1. Fields(l, l.line, l.answer, l.hungup, l.task, l.bound, l.context)
  BY OwnFields
<1>2. PICK m1 : m1 = [l EXCEPT !.line = Nil]
  OBVIOUS
<1>3. Fields(m1, Nil, l.answer, l.hungup, l.task, l.bound, l.context)
  BY <1>1, <1>2, FieldsExcept
<1>4. PICK m2 : m2 = [m1 EXCEPT !.task = "idle"]
  OBVIOUS
<1>5. Fields(m2, Nil, l.answer, l.hungup, "idle", l.bound, l.context)
  BY <1>3, <1>4, FieldsExcept
<1>6. Fields([m2 EXCEPT !.answer = IF l.hungup THEN Nil ELSE [to |-> to, is |-> is, credential |-> n]], Nil, IF l.hungup THEN Nil ELSE [to |-> to, is |-> is, credential |-> n], l.hungup, "idle", l.bound, l.context)
  BY <1>5, FieldsExcept
<1>7. Reply(l, to, is, n) = [m2 EXCEPT !.answer = IF l.hungup THEN Nil ELSE [to |-> to, is |-> is, credential |-> n]]
  BY <1>2, <1>4 DEF Reply
<1> QED
  BY <1>6, <1>7

\* A session is let go,
LEMMA UnboundFields ==
    ASSUME NEW l, Shape(l)
    PROVE  Fields(Unbound(l), l.line, l.answer, l.hungup, l.task, 0, "none")
<1>1. Fields(l, l.line, l.answer, l.hungup, l.task, l.bound, l.context)
  BY OwnFields
<1>2. PICK m1 : m1 = [l EXCEPT !.bound = 0]
  OBVIOUS
<1>3. Fields(m1, l.line, l.answer, l.hungup, l.task, 0, l.context)
  BY <1>1, <1>2, FieldsExcept
<1>4. Fields([m1 EXCEPT !.context = "none"], l.line, l.answer, l.hungup, l.task, 0, "none")
  BY <1>3, FieldsExcept
<1>5. Unbound(l) = [m1 EXCEPT !.context = "none"]
  BY <1>2 DEF Unbound
<1> QED
  BY <1>4, <1>5

\* or only its authority,
LEMMA ClosesFields ==
    ASSUME NEW l, Shape(l)
    PROVE  Fields(Closes(l), l.line, l.answer, l.hungup, "closed", l.bound, "none")
<1>1. Fields(l, l.line, l.answer, l.hungup, l.task, l.bound, l.context)
  BY OwnFields
<1>2. PICK m1 : m1 = [l EXCEPT !.context = "none"]
  OBVIOUS
<1>3. Fields(m1, l.line, l.answer, l.hungup, l.task, l.bound, "none")
  BY <1>1, <1>2, FieldsExcept
<1>4. Fields([m1 EXCEPT !.task = "closed"], l.line, l.answer, l.hungup, "closed", l.bound, "none")
  BY <1>3, FieldsExcept
<1>5. Closes(l) = [m1 EXCEPT !.task = "closed"]
  BY <1>2 DEF Closes
<1> QED
  BY <1>4, <1>5

\* or it is bound,
LEMMA BindFields ==
    ASSUME NEW l, Shape(l), NEW n
    PROVE  Fields([l EXCEPT !.bound = n, !.context = "live"], l.line, l.answer, l.hungup, l.task, n, "live")
<1>1. Fields(l, l.line, l.answer, l.hungup, l.task, l.bound, l.context)
  BY OwnFields
<1>2. PICK m1 : m1 = [l EXCEPT !.bound = n]
  OBVIOUS
<1>3. Fields(m1, l.line, l.answer, l.hungup, l.task, n, l.context)
  BY <1>1, <1>2, FieldsExcept
<1>4. Fields([m1 EXCEPT !.context = "live"], l.line, l.answer, l.hungup, l.task, n, "live")
  BY <1>3, FieldsExcept
<1>5. [l EXCEPT !.bound = n, !.context = "live"] = [m1 EXCEPT !.context = "live"]
  BY <1>2
<1> QED
  BY <1>4, <1>5

\* or detached,
LEMMA DetachFields ==
    ASSUME NEW l, Shape(l)
    PROVE  Fields([l EXCEPT !.task = "done", !.bound = 0], l.line, l.answer, l.hungup, "done", 0, l.context)
<1>1. Fields(l, l.line, l.answer, l.hungup, l.task, l.bound, l.context)
  BY OwnFields
<1>2. PICK m1 : m1 = [l EXCEPT !.task = "done"]
  OBVIOUS
<1>3. Fields(m1, l.line, l.answer, l.hungup, "done", l.bound, l.context)
  BY <1>1, <1>2, FieldsExcept
<1>4. Fields([m1 EXCEPT !.bound = 0], l.line, l.answer, l.hungup, "done", 0, l.context)
  BY <1>3, FieldsExcept
<1>5. [l EXCEPT !.task = "done", !.bound = 0] = [m1 EXCEPT !.bound = 0]
  BY <1>2
<1> QED
  BY <1>4, <1>5

\* or it goes with the daemon.
LEMMA CrashFields ==
    ASSUME NEW l, Shape(l)
    PROVE  Fields([l EXCEPT !.task = "done", !.line = Nil, !.bound = 0, !.context = "none"], Nil, l.answer, l.hungup, "done", 0, "none")
<1>1. Fields(l, l.line, l.answer, l.hungup, l.task, l.bound, l.context)
  BY OwnFields
<1>2. PICK m1 : m1 = [l EXCEPT !.task = "done"]
  OBVIOUS
<1>3. Fields(m1, l.line, l.answer, l.hungup, "done", l.bound, l.context)
  BY <1>1, <1>2, FieldsExcept
<1>4. PICK m2 : m2 = [m1 EXCEPT !.line = Nil]
  OBVIOUS
<1>5. Fields(m2, Nil, l.answer, l.hungup, "done", l.bound, l.context)
  BY <1>3, <1>4, FieldsExcept
<1>6. PICK m3 : m3 = [m2 EXCEPT !.bound = 0]
  OBVIOUS
<1>7. Fields(m3, Nil, l.answer, l.hungup, "done", 0, l.context)
  BY <1>5, <1>6, FieldsExcept
<1>8. Fields([m3 EXCEPT !.context = "none"], Nil, l.answer, l.hungup, "done", 0, "none")
  BY <1>7, FieldsExcept
<1>9. [l EXCEPT !.task = "done", !.line = Nil, !.bound = 0, !.context = "none"] = [m3 EXCEPT !.context = "none"]
  BY <1>2, <1>4, <1>6
<1> QED
  BY <1>8, <1>9

\* A new connection has a request and nothing else.
LEMMA OpenFields ==
    ASSUME NEW r
    PROVE  Fields([Unopened EXCEPT !.task = "idle", !.line = r], r, Nil, FALSE, "idle", 0, "none")
<1>1. Fields(Unopened, Nil, Nil, FALSE, "none", 0, "none")
  BY DEF Fields, Shape, Unopened
<1>2. PICK m1 : m1 = [Unopened EXCEPT !.task = "idle"]
  OBVIOUS
<1>3. Fields(m1, Nil, Nil, FALSE, "idle", 0, "none")
  BY <1>1, <1>2, FieldsExcept
<1>4. Fields([m1 EXCEPT !.line = r], r, Nil, FALSE, "idle", 0, "none")
  BY <1>3, FieldsExcept
<1>5. [Unopened EXCEPT !.task = "idle", !.line = r] = [m1 EXCEPT !.line = r]
  BY <1>2
<1> QED
  BY <1>4, <1>5

-----------------------------------------------------------------------------
(* What is quiet.                                                          *)

\* A connection that is left alone is,
LEMMA SameIsQuiet == ASSUME NEW l, Shape(l) PROVE Quiet(l, l)
BY DEF Quiet

\* and so is hanging up, or reading an answer,
LEMMA ReadingIsQuiet ==
    ASSUME NEW l, Shape(l)
    PROVE  /\ Quiet(l, HangsUp(l))
           /\ Quiet(l, [l EXCEPT !.answer = Nil])
<1>1. Fields(HangsUp(l), l.line, Nil, TRUE, l.task, l.bound, l.context)
  BY HangsUpFields
<1>2. Fields([l EXCEPT !.answer = Nil], l.line, Nil, l.hungup, l.task, l.bound, l.context)
  BY OwnFields, FieldsExcept
<1> QED
  BY <1>1, <1>2 DEF Fields, Quiet, AsksBegin

\* a request that is not for a first binding,
LEMMA WritingIsQuiet ==
    ASSUME NEW l, Shape(l), NEW r, r.job # Begin
    PROVE  /\ Quiet(l, Written(l, r))
           /\ Quiet(l, Written([l EXCEPT !.answer = Nil], r))
           /\ Quiet(l, [Unopened EXCEPT !.task = "idle", !.line = r])
<1>1. ASSUME NEW m, Fields(m, l.line, m.answer, l.hungup, l.task, l.bound, l.context)
      PROVE  Quiet(l, Written(m, r))
  <2>1. Fields([m EXCEPT !.line = r], r, m.answer, l.hungup, l.task, l.bound, l.context)
    BY <1>1, FieldsExcept
  <2>2. Quiet(l, m) /\ Quiet(l, [m EXCEPT !.line = r])
    BY <1>1, <2>1 DEF Fields, Quiet, AsksBegin
  <2> QED
    BY <2>2 DEF Written
<1>2. Quiet(l, Written(l, r))
  BY <1>1, OwnFields
<1>3. Quiet(l, Written([l EXCEPT !.answer = Nil], r))
  <2>1. Fields([l EXCEPT !.answer = Nil], l.line, Nil, l.hungup, l.task, l.bound, l.context)
    BY OwnFields, FieldsExcept
  <2>2. PICK m : m = [l EXCEPT !.answer = Nil]
    OBVIOUS
  <2>3. Fields(m, l.line, m.answer, l.hungup, l.task, l.bound, l.context)
    BY <2>1, <2>2 DEF Fields
  <2> QED
    BY <1>1, <2>2, <2>3
<1>4. Quiet(l, [Unopened EXCEPT !.task = "idle", !.line = r])
  BY OpenFields DEF Fields, Quiet, AsksBegin
<1> QED
  BY <1>2, <1>3, <1>4

\* answers that bind nothing, the end of a connection and the passing of time.
LEMMA DaemonIsQuiet ==
    ASSUME NEW l, Shape(l)
    PROVE  /\ \A to, is, n : Quiet(l, Reply(l, to, is, n))
           /\ l.bound # 0 => Quiet(l, Closes(l))
           /\ l.bound = 0 /\ l.context = "none" => Quiet(l, [l EXCEPT !.task = "done"])
           /\ Quiet(l, [l EXCEPT !.task = "busy"])
           /\ l.context = "live" => Quiet(l, [l EXCEPT !.context = "expired"])
           /\ Quiet(l, [l EXCEPT !.task = "done", !.line = Nil, !.bound = 0, !.context = "none"])
<1>1. ASSUME NEW to, NEW is, NEW n PROVE Quiet(l, Reply(l, to, is, n))
  <2>1. PICK a : Fields(Reply(l, to, is, n), Nil, a, l.hungup, "idle", l.bound, l.context)
    BY ReplyFields
  <2> QED
    BY <2>1 DEF Fields, Quiet, AsksBegin
<1>2. l.bound # 0 => Quiet(l, Closes(l))
  BY ClosesFields DEF Fields, Quiet, AsksBegin
<1>3. Quiet(l, [l EXCEPT !.task = "done", !.line = Nil, !.bound = 0, !.context = "none"])
  BY CrashFields DEF Fields, Quiet, AsksBegin
<1>4. ASSUME NEW t PROVE Fields([l EXCEPT !.task = t], l.line, l.answer, l.hungup, t, l.bound, l.context)
  BY OwnFields, FieldsExcept
<1>5. /\ l.bound = 0 /\ l.context = "none" => Quiet(l, [l EXCEPT !.task = "done"])
      /\ Quiet(l, [l EXCEPT !.task = "busy"])
  BY <1>4 DEF Fields, Quiet, AsksBegin
<1>6. Fields([l EXCEPT !.context = "expired"], l.line, l.answer, l.hungup, l.task, l.bound, "expired")
  BY OwnFields, FieldsExcept
<1>7. l.context = "live" => Quiet(l, [l EXCEPT !.context = "expired"])
  BY <1>6 DEF Fields, Quiet, AsksBegin
<1> QED
  BY <1>1, <1>2, <1>3, <1>5, <1>7

\* A step is quiet if it is for every connection.
QuietStep == Shaped' /\ \A c \in Clients, k \in Conns : Quiet(link[c][k], link'[c][k])

\* It is if it changes none, or one quietly, which may be a connection that is
\* not there at all.
LEMMA QuietChange ==
    ASSUME Shaped, NEW c \in Clients, NEW k, NEW m,
           k \in Conns => Quiet(link[c][k], m),
           link' = [link EXCEPT ![c][k] = m]
    PROVE  QuietStep
<1>1. CASE k \in Conns
  <2>1. Shape(m)
    BY <1>1 DEF Quiet
  <2>2. Shaped' /\ link'[c][k] = m
        /\ \A d \in Clients, j \in Conns : d # c \/ j # k => link'[d][j] = link[d][j]
    BY <1>1, <2>1 DEF Shaped
  <2> QED
    BY <1>1, <2>2, SameIsQuiet DEF QuietStep, Shaped
<1>2. CASE k \notin Conns
  <2>1. \A d \in Clients : link'[d] = link[d]
    BY <1>2 DEF Shaped
  <2>2. \A d \in Clients, j \in Conns : link'[d][j] = link[d][j]
    BY <2>1
  <2>3. link' = [d \in Clients |-> [j \in Conns |-> link[d][j]]]
    BY <1>2, <2>1 DEF Shaped
  <2> QED
    BY <2>2, <2>3, SameIsQuiet DEF QuietStep, Shaped
<1> QED
  BY <1>1, <1>2

\* A step that changes no connection is.
LEMMA QuietNone ==
    ASSUME Shaped, UNCHANGED link
    PROVE  QuietStep
BY SameIsQuiet DEF QuietStep, Shaped

-----------------------------------------------------------------------------
(* The invariant.                                                          *)

\* No client resumes a session before the answer to its first binding.
ControlOK ==
    /\ pc \in [Clients -> {"new", "bind", "free", "wait", "resume", "answer", "gone"}]
    /\ job \in [Clients -> Jobs \cup {Begin}]
    /\ \A c \in Clients : pc[c] \in {"resume", "answer"} => job[c] \in Jobs

\* A connection that is bound is bound under the newest credential, and alone.
\* What is not bound has no authority, nor has what is about to be detached.
HeldOK(c) ==
    /\ \A k \in Holders(c) : link[c][k].bound = minted[c]
    /\ \A j, k \in Holders(c) : j = k
    /\ \A k \in Conns : link[c][k].bound = 0 => link[c][k].context = "none"
    /\ \A k \in Conns : link[c][k].task = "closed" =>
            link[c][k].bound # 0 /\ link[c][k].context = "none"

\* A record is under the newest credential, and nobody is bound beside it.
RecordOK(c) ==
    \A n : <<c, n>> \in records => n = minted[c] /\ n # 0 /\ Holders(c) = {}

\* The one request for a first binding comes before any credential.
AsksOK(c) ==
    /\ pc[c] = "new" => minted[c] = 0
    /\ \A k \in Conns : AsksBegin(link[c][k]) =>
          /\ minted[c] = 0 /\ pc[c] # "new"
          /\ \A j \in Conns : AsksBegin(link[c][j]) => j = k

\* An end needs a bound session, and leaves nothing.
EndedOK(c) ==
    c \in ended => minted[c] # 0 /\ Holders(c) = {} /\ \A n : <<c, n>> \notin records

IdentityOK(c) == HeldOK(c) /\ RecordOK(c) /\ AsksOK(c) /\ EndedOK(c)

Inv ==
    /\ Shaped /\ ControlOK /\ minted \in [Clients -> Nat] /\ ended \subseteq Clients
    /\ \A c \in Clients : IdentityOK(c)

\* No client becomes new.
LEMMA ControlStays ==
    ASSUME ControlOK, [Next]_vars
    PROVE  ControlOK' /\ \A c \in Clients : pc'[c] = "new" => pc[c] = "new"
<1> USE JobsDiffer DEF ControlOK
<1>1. CASE UNCHANGED client
  BY <1>1 DEF client
<1>2. ASSUME NEW c \in Clients,
             Connect(c) \/ ClientDies(c) \/ Call(c) \/ Shut(c, End) \/ Shut(c, Abandon)
      PROVE  ControlOK' /\ \A d \in Clients : pc'[d] = "new" => pc[d] = "new"
  BY <1>2 DEF Connect, ClientDies, Leaves, Call, Shut
<1>3. ASSUME NEW c \in Clients, Bound(c) \/ BindLost(c) \/ Answered(c) \/ Lost(c)
      PROVE  ControlOK' /\ \A d \in Clients : pc'[d] = "new" => pc[d] = "new"
  BY <1>3 DEF Bound, BindLost, Leaves, Released, Answered, Lost
<1>4. ASSUME NEW c \in Clients, Attempt(c) \/ Resumed(c) \/ Refused(c) \/ ResumeLost(c)
      PROVE  ControlOK' /\ \A d \in Clients : pc'[d] = "new" => pc[d] = "new"
  BY <1>4 DEF Attempt, Resumed, Refused, ResumeLost, Released
<1>5. ASSUME NEW c \in Clients, NEW j \in Jobs, Take(c, j)
      PROVE  ControlOK' /\ \A d \in Clients : pc'[d] = "new" => pc[d] = "new"
  BY <1>5 DEF Take
<1>6. ASSUME NEW c \in Clients, NEW k \in Conns,
             TaskStep(c, k) \/ Return(c, k) \/ ReturnEnd(c, k) \/ ExpireContext(c, k)
      PROVE  UNCHANGED client
  BY <1>6 DEF TaskStep, ServeBegin, ServeResume, ServeCall, SeeEof, Detach, Return,
              ReturnEnd, ExpireContext
<1>7. ASSUME NEW c \in Clients, RivalBinds(c) \/ RivalEnds(c)
      PROVE  UNCHANGED client
  BY <1>7 DEF RivalBinds, RivalEnds
<1>8. ASSUME (\E r \in records : ExpireRecord(r)) \/ Crash \/ Restart
      PROVE  UNCHANGED client
  BY <1>8 DEF ExpireRecord, Crash, Restart
<1>9. UNCHANGED vars => UNCHANGED client
  BY DEF vars
<1> QED
  BY <1>1, <1>2, <1>3, <1>4, <1>5, <1>6, <1>7, <1>8, <1>9 DEF Next, ClientStep

\* A quiet step that mints and ends nothing keeps the invariant.
LEMMA QuietKeeps ==
    ASSUME Inv, QuietStep, UNCHANGED <<minted, ended>>, records' \subseteq records,
           NEW c \in Clients, pc'[c] = "new" => pc[c] = "new"
    PROVE  IdentityOK(c)'
<1>1. IdentityOK(c) /\ \A k \in Conns : Quiet(link[c][k], link'[c][k])
  BY DEF Inv, QuietStep
<1>2. Holders(c)' \subseteq Holders(c) /\ \A k \in Holders(c)' : link'[c][k].bound = link[c][k].bound
  BY <1>1 DEF Holders, Quiet
<1>3. HeldOK(c)'
  <2>1. \A k \in Holders(c)' : link'[c][k].bound = minted'[c]
    BY <1>1, <1>2 DEF IdentityOK, HeldOK
  <2>2. \A j, k \in Holders(c)' : j = k
    BY <1>1, <1>2 DEF IdentityOK, HeldOK
  <2>3. ASSUME NEW k \in Conns, link'[c][k].bound = 0 PROVE link'[c][k].context = "none"
    BY <1>1, <2>3 DEF IdentityOK, HeldOK, Quiet
  <2>4. ASSUME NEW k \in Conns, link'[c][k].task = "closed"
        PROVE  link'[c][k].bound # 0 /\ link'[c][k].context = "none"
    BY <1>1, <2>4 DEF IdentityOK, HeldOK, Quiet
  <2> QED
    BY <2>1, <2>2, <2>3, <2>4 DEF HeldOK
<1>4. RecordOK(c)'
  BY <1>1, <1>2 DEF IdentityOK, RecordOK
<1>5. AsksOK(c)'
  BY <1>1 DEF IdentityOK, AsksOK, Quiet
<1>6. EndedOK(c)'
  BY <1>1, <1>2 DEF IdentityOK, EndedOK
<1> QED
  BY <1>3, <1>4, <1>5, <1>6 DEF IdentityOK

-----------------------------------------------------------------------------
(* The client's steps.                                                     *)

\* Opening a connection replaces one that nobody has used.
LEMMA OpensOne ==
    ASSUME Shaped, NEW c \in Clients, NEW r, Opens(c, r)
    PROVE  /\ Shaped'
           /\ \A d \in Clients, k \in Conns : (d = c /\ k = conn[c] + 1)
                \/ Quiet(link[d][k], link'[d][k])
           /\ \A k \in Conns : k = conn[c] + 1 /\ k # conn[c] =>
                Fields(link'[c][k], r, Nil, FALSE, "idle", 0, "none")
<1> DEFINE new == [Unopened EXCEPT !.task = "idle", !.line = r]
           Now(k) == IF k = conn[c] THEN HangsUp(link[c][k])
                       ELSE IF k = conn[c] + 1 THEN new ELSE link[c][k]
<1>1. link' = [link EXCEPT ![c] = [k \in Conns |-> Now(k)]]
  BY DEF Opens
<1>2. Fields(new, r, Nil, FALSE, "idle", 0, "none")
  BY OpenFields
<1>3. Shape(new)
  BY <1>2 DEF Fields
<1>4. \A k \in Conns : Shape(link[c][k]) /\ Quiet(link[c][k], HangsUp(link[c][k]))
  BY ReadingIsQuiet DEF Shaped
<1> HIDE DEF new
<1>5. \A k \in Conns : Shape(Now(k)) /\ (k = conn[c] + 1 \/ Quiet(link[c][k], Now(k)))
  BY <1>3, <1>4, SameIsQuiet DEF Quiet
<1>6. \A k \in Conns : link'[c][k] = Now(k)
  BY <1>1 DEF Shaped
<1>7. \A d \in Clients, k \in Conns : d # c => link'[d][k] = link[d][k]
  BY <1>1 DEF Shaped
<1>8. link' = [d \in Clients |-> [k \in Conns |-> link'[d][k]]]
  <2>1. \A d \in Clients : link'[d] = [k \in Conns |-> link'[d][k]]
    BY <1>1 DEF Shaped
  <2>2. link' = [d \in Clients |-> link'[d]]
    BY <1>1 DEF Shaped
  <2> QED
    BY <2>1, <2>2
<1>9. Shaped'
  BY <1>5, <1>6, <1>7, <1>8 DEF Shaped
<1>10. \A k \in Conns : k = conn[c] + 1 /\ k # conn[c] => link'[c][k] = new
  BY <1>6
<1>11. \A k \in Conns : k = conn[c] + 1 \/ Quiet(link[c][k], link'[c][k])
  BY <1>5, <1>6
<1>12. \A d \in Clients, k \in Conns : d # c => Quiet(link[d][k], link'[d][k])
  BY <1>7, SameIsQuiet DEF Shaped
<1> QED
  BY <1>2, <1>9, <1>10, <1>11, <1>12

\* All that a client does, but for its first connection, is quiet.
LEMMA ClientQuiet ==
    ASSUME Inv, NEW c \in Clients,
           ClientDies(c) \/ Call(c) \/ Shut(c, End) \/ Shut(c, Abandon) \/ ClientStep(c)
    PROVE  QuietStep /\ UNCHANGED registry
<1> DEFINE Goal == QuietStep /\ UNCHANGED registry
<1>0. Shaped
  BY DEF Inv
<1>1. \A k \in Conns : Shape(link[c][k])
  BY DEF Inv, Shaped
<1>2. \A k \in Conns : Quiet(link[c][k], HangsUp(link[c][k]))
  BY <1>1, ReadingIsQuiet
<1>3. \A k \in Conns : Quiet(link[c][k], [link[c][k] EXCEPT !.answer = Nil])
  BY <1>1, ReadingIsQuiet
<1>4. ASSUME link' = [link EXCEPT ![c][conn[c]] = HangsUp(@)] PROVE QuietStep
  BY <1>0, <1>2, <1>4, QuietChange
<1>5. ASSUME link' = [link EXCEPT ![c][conn[c]].answer = Nil] PROVE QuietStep
  <2>1. link' = [link EXCEPT ![c][conn[c]] = [link[c][conn[c]] EXCEPT !.answer = Nil]]
    BY <1>5
  <2> QED
    BY <1>0, <1>3, <2>1, QuietChange
<1>6. ASSUME UNCHANGED link PROVE QuietStep
  BY <1>0, <1>6, QuietNone
<1>7. ASSUME ClientDies(c) PROVE Goal
  BY <1>4, <1>7 DEF ClientDies, Leaves
<1>8. ASSUME Call(c) \/ Shut(c, End) \/ Shut(c, Abandon) PROVE Goal
  BY <1>6, <1>8 DEF Call, Shut
<1>9. ASSUME Bound(c) \/ BindLost(c) \/ Answered(c) \/ Lost(c) PROVE Goal
  BY <1>4, <1>5, <1>6, <1>9 DEF Bound, BindLost, Leaves, Answered, Lost
<1>10. ASSUME Refused(c) \/ ResumeLost(c) PROVE Goal
  BY <1>5, <1>6, <1>10 DEF Refused, ResumeLost
<1>11. ASSUME Attempt(c) PROVE Goal
  <2>1. Request(Resume, held[c]).job # Begin
    BY JobsDiffer DEF Request
  <2>2. CASE Opens(c, Request(Resume, held[c]))
    <3>1. /\ Shaped'
          /\ \A d \in Clients, k \in Conns : (d = c /\ k = conn[c] + 1)
               \/ Quiet(link[d][k], link'[d][k])
      BY <1>0, <2>2, OpensOne
    <3>2. ASSUME NEW k \in Conns, k = conn[c] + 1 PROVE Quiet(link[c][k], link'[c][k])
      <4>1. link'[c][k] = IF k = conn[c] THEN HangsUp(link[c][k])
                ELSE [Unopened EXCEPT !.task = "idle", !.line = Request(Resume, held[c])]
        BY <1>0, <2>2, <3>2 DEF Opens, Shaped
      <4>2. Quiet(link[c][k], [Unopened EXCEPT !.task = "idle", !.line = Request(Resume, held[c])])
        BY <1>1, <2>1, WritingIsQuiet
      <4> QED
        BY <1>2, <4>1, <4>2
    <3> QED
      BY <3>1, <3>2, <1>11 DEF QuietStep, Attempt
  <2>3. CASE UNCHANGED link
    BY <1>6, <1>11, <2>3 DEF Attempt
  <2> QED
    BY <1>11, <2>2, <2>3 DEF Attempt
<1>12. ASSUME Resumed(c) PROVE Goal
  <2>1. Request(job[c], 0).job # Begin
    BY <1>12, JobsDiffer DEF Request, Resumed, Inv, ControlOK
  <2>2. \A k \in Conns : Quiet(link[c][k],
            Written([link[c][k] EXCEPT !.answer = Nil], Request(job[c], 0)))
    BY <1>1, <2>1, WritingIsQuiet
  <2>3. link' = [link EXCEPT ![c][conn[c]] =
                    Written([link[c][conn[c]] EXCEPT !.answer = Nil], Request(job[c], 0))]
    BY <1>12 DEF Resumed
  <2>4. QuietStep
    <3> DEFINE m == Written([link[c][conn[c]] EXCEPT !.answer = Nil], Request(job[c], 0))
    <3>1. conn[c] \in Conns => Quiet(link[c][conn[c]], m)
      BY <2>2
    <3> HIDE DEF m
    <3>2. link' = [link EXCEPT ![c][conn[c]] = m]
      BY <2>3 DEF m
    <3> QED
      BY <1>0, <3>1, <3>2, QuietChange
  <2> QED
    BY <1>12, <2>4 DEF Resumed
<1>13. ASSUME NEW j \in Jobs, Take(c, j) PROVE Goal
  <2>1. Request(j, 0).job # Begin
    BY JobsDiffer DEF Request
  <2>2. \A k \in Conns : Quiet(link[c][k], Written(link[c][k], Request(j, 0)))
    BY <1>1, <2>1, WritingIsQuiet
  <2>3. ASSUME link' = [link EXCEPT ![c][conn[c]] = Written(link[c][conn[c]], Request(j, 0))]
        PROVE  QuietStep
    BY <1>0, <2>2, <2>3, QuietChange
  <2> QED
    BY <1>6, <1>13, <2>3 DEF Take
<1> QED
  BY <1>7, <1>8, <1>9, <1>10, <1>11, <1>12, <1>13 DEF ClientStep

-----------------------------------------------------------------------------
(* The daemon's steps.                                                     *)

\* What binds, ends and detaches no session is quiet.
LEMMA TaskQuiet ==
    ASSUME Inv, NEW c \in Clients, NEW k \in Conns,
           \/ ServeBegin(c, k) /\ ~Binds(c, k, Begin)
           \/ ServeResume(c, k) /\ ~Binds(c, k, Resume)
           \/ ServeCall(c, k) \/ SeeEof(c, k) \/ Return(c, k) \/ ExpireContext(c, k)
           \/ ReturnEnd(c, k) /\ ended' = ended
    PROVE  QuietStep /\ UNCHANGED <<pc, minted, ended>> /\ records' \subseteq records
<1> DEFINE Goal == QuietStep /\ UNCHANGED <<pc, minted, ended>> /\ records' \subseteq records
           l == link[c][k]
<1>0. Shaped /\ Shape(l)
  BY DEF Inv, Shaped
<1>1. ASSUME NEW m, Quiet(l, m), link' = [link EXCEPT ![c][k] = m] PROVE QuietStep
  BY <1>0, <1>1, QuietChange
<1>2. ASSUME NEW j, NEW is, Fails(c, k, j, is) PROVE QuietStep
  <2>1. Quiet(l, Reply(l, j, is, 0))
    BY <1>0, DaemonIsQuiet
  <2>2. link' = [link EXCEPT ![c][k] = Reply(l, j, is, 0)]
    BY <1>2 DEF Fails
  <2> QED
    BY <1>1, <2>1, <2>2
<1>3. ASSUME ServeBegin(c, k), ~Binds(c, k, Begin) PROVE Goal
  BY <1>2, <1>3 DEF ServeBegin, Fails, client
<1>4. ASSUME ServeResume(c, k), ~Binds(c, k, Resume) PROVE Goal
  BY <1>2, <1>4 DEF ServeResume, Fails, Left, client
<1>5. ASSUME ServeCall(c, k) PROVE Goal
  <2>1. Quiet(l, [l EXCEPT !.task = "busy"]) /\ \A to, is, n : Quiet(l, Reply(l, to, is, n))
    BY <1>0, DaemonIsQuiet
  <2>2. PICK j \in Calls \cup {End} :
            link' = [link EXCEPT ![c][k] =
                        IF l.bound # 0 THEN [l EXCEPT !.task = "busy"]
                        ELSE Reply(l, j, IF j = End THEN "ok" ELSE "error", 0)]
    BY <1>5 DEF ServeCall
  <2>3. QuietStep
    BY <1>1, <2>1, <2>2
  <2> QED
    BY <1>5, <2>3 DEF ServeCall, client, registry
<1>6. ASSUME SeeEof(c, k) PROVE Goal
  <2>1. l.bound = 0 => l.context = "none"
    BY DEF Inv, IdentityOK, HeldOK
  <2>2. Quiet(l, IF l.bound # 0 THEN Closes(l) ELSE [l EXCEPT !.task = "done"])
    BY <1>0, <2>1, DaemonIsQuiet
  <2>3. link' = [link EXCEPT ![c][k] = IF l.bound # 0 THEN Closes(l) ELSE [l EXCEPT !.task = "done"]]
    BY <1>6 DEF SeeEof
  <2>4. QuietStep
    BY <1>1, <2>2, <2>3
  <2> QED
    BY <1>6, <2>4 DEF SeeEof, client, registry
<1>7. ASSUME Return(c, k) PROVE Goal
  <2>1. \A to, is, n : Quiet(l, Reply(l, to, is, n))
    BY <1>0, DaemonIsQuiet
  <2>2. link' = [link EXCEPT ![c][k] =
                    Reply(l, l.line.job, IF l.context = "live" THEN "ok" ELSE "error", 0)]
    BY <1>7 DEF Return
  <2>3. QuietStep
    BY <1>1, <2>1, <2>2
  <2> QED
    BY <1>7, <2>3 DEF Return, client, registry
<1>8. ASSUME ExpireContext(c, k) PROVE Goal
  <2>1. link' = [link EXCEPT ![c][k] = [l EXCEPT !.context = "expired"]]
    BY <1>8 DEF ExpireContext
  <2>2. Quiet(l, [l EXCEPT !.context = "expired"])
    BY <1>0, <1>8, DaemonIsQuiet DEF ExpireContext
  <2>3. QuietStep
    BY <1>1, <2>1, <2>2
  <2> QED
    BY <1>8, <2>3 DEF ExpireContext, client, registry
<1>9. ASSUME ReturnEnd(c, k), ended' = ended PROVE Goal
  <2>1. CASE link' = [link EXCEPT ![c][k] = Reply(l, End, "error", 0)]
    <3>1. QuietStep
      BY <1>0, <1>1, <2>1, DaemonIsQuiet
    <3> QED
      BY <1>9, <3>1 DEF ReturnEnd, client
  <2>2. CASE c \in ended /\ l.context = "live"
    <3>1. k \notin Holders(c)
      BY <2>2 DEF Inv, IdentityOK, EndedOK
    <3> QED
      BY <2>2, <3>1 DEF Holders, Inv, IdentityOK, HeldOK
  <2> QED
    BY <1>9, <2>1, <2>2 DEF ReturnEnd
<1> QED
  BY <1>3, <1>4, <1>5, <1>6, <1>7, <1>8, <1>9

\* The end of the daemon is.
LEMMA CrashQuiet ==
    ASSUME Inv, Crash
    PROVE  QuietStep
<1> DEFINE Gone(l) == [l EXCEPT !.task = "done", !.line = Nil, !.bound = 0, !.context = "none"]
           Now(l) == IF l.task = "none" THEN l ELSE Gone(l)
<1>1. \A c \in Clients, k \in Conns : Shape(link[c][k])
  BY DEF Inv, Shaped
<1>2. \A c \in Clients, k \in Conns : Quiet(link[c][k], Now(link[c][k]))
  BY <1>1, SameIsQuiet, DaemonIsQuiet
<1>3. link' = [c \in Clients |-> [k \in Conns |-> Now(link[c][k])]]
  BY DEF Crash
<1> HIDE DEF Now
<1>4. \A c \in Clients, k \in Conns : link'[c][k] = Now(link[c][k])
  BY <1>3
<1>5. link' = [c \in Clients |-> [k \in Conns |-> link'[c][k]]]
  BY <1>3
<1> QED
  BY <1>2, <1>4, <1>5 DEF QuietStep, Shaped, Quiet

-----------------------------------------------------------------------------
(* Binding, ending and detaching.                                          *)

Kept ==
    /\ Shaped' /\ minted' \in [Clients -> Nat] /\ ended' \subseteq Clients
    /\ \A d \in Clients : IdentityOK(d)'

\* A client keeps its identity while others gain or lose theirs.
LEMMA OthersKeep ==
    ASSUME Inv, NEW d \in Clients, \A k \in Conns : link'[d][k] = link[d][k],
           minted'[d] = minted[d], d \in ended' => d \in ended,
           \A n : <<d, n>> \in records' => <<d, n>> \in records,
           pc'[d] = "new" => pc[d] = "new"
    PROVE  IdentityOK(d)'
<1>1. IdentityOK(d)
  BY DEF Inv
<1>2. Holders(d)' = Holders(d)
  BY DEF Holders
<1>3. HeldOK(d)'
  BY <1>1, <1>2 DEF IdentityOK, HeldOK, Holders
<1>4. RecordOK(d)'
  BY <1>1, <1>2 DEF IdentityOK, RecordOK
<1>5. AsksOK(d)'
  BY <1>1 DEF IdentityOK, AsksOK
<1>6. EndedOK(d)'
  BY <1>1, <1>2 DEF IdentityOK, EndedOK
<1> QED
  BY <1>3, <1>4, <1>5, <1>6 DEF IdentityOK

\* The first request of a client is alone.
LEMMA ConnectKeeps ==
    ASSUME Inv, NEW c \in Clients, Connect(c)
    PROVE  Kept
<1>1. /\ Shaped /\ IdentityOK(c) /\ pc[c] = "new" /\ minted[c] = 0
      /\ Opens(c, Request(Begin, 0)) /\ UNCHANGED registry
  BY DEF Inv, Connect, IdentityOK, AsksOK
<1>2. /\ Shaped'
      /\ \A d \in Clients, k \in Conns : (d = c /\ k = conn[c] + 1)
           \/ Quiet(link[d][k], link'[d][k])
      /\ \A k \in Conns : k = conn[c] + 1 /\ k # conn[c] =>
           Fields(link'[c][k], Request(Begin, 0), Nil, FALSE, "idle", 0, "none")
  BY <1>1, OpensOne
<1>3. ASSUME NEW k \in Conns
      PROVE  \/ Quiet(link[c][k], link'[c][k])
             \/ /\ k = conn[c] + 1
                /\ link'[c][k].bound = 0 /\ link'[c][k].context = "none" /\ link'[c][k].task = "idle"
  <2>1. CASE k = conn[c] + 1 /\ k # conn[c]
    BY <1>2, <2>1 DEF Fields
  <2>2. CASE k = conn[c] + 1 /\ k = conn[c]
    <3>1. link'[c][k] = HangsUp(link[c][k])
      BY <1>1, <2>2 DEF Opens, Shaped
    <3> QED
      BY <1>1, <3>1, ReadingIsQuiet DEF Shaped
  <2> QED
    BY <1>2, <2>1, <2>2
<1>4. pc' = [pc EXCEPT ![c] = "bind"] /\ pc \in [Clients -> {"new", "bind", "free", "wait", "resume", "answer", "gone"}]
  BY DEF Connect, Inv, ControlOK
<1>5. IdentityOK(c)'
  <2>1. Holders(c)' \subseteq Holders(c) /\ \A k \in Holders(c)' : link'[c][k].bound = link[c][k].bound
    BY <1>3 DEF Holders, Quiet
  <2>2. HeldOK(c)'
    <3>1. \A k \in Holders(c)' : link'[c][k].bound = minted'[c]
      BY <1>1, <2>1 DEF IdentityOK, HeldOK, registry
    <3>2. \A j, k \in Holders(c)' : j = k
      BY <1>1, <2>1 DEF IdentityOK, HeldOK
    <3>3. ASSUME NEW k \in Conns, link'[c][k].bound = 0 PROVE link'[c][k].context = "none"
      BY <1>1, <1>3, <3>3 DEF IdentityOK, HeldOK, Quiet
    <3>4. ASSUME NEW k \in Conns, link'[c][k].task = "closed"
          PROVE  link'[c][k].bound # 0 /\ link'[c][k].context = "none"
      BY <1>1, <1>3, <3>4 DEF IdentityOK, HeldOK, Quiet
    <3> QED
      BY <3>1, <3>2, <3>3, <3>4 DEF HeldOK
  <2>3. RecordOK(c)' /\ EndedOK(c)'
    BY <1>1, <2>1 DEF IdentityOK, RecordOK, EndedOK, registry
  <2>4. \A k \in Conns : ~AsksBegin(link[c][k])
    BY <1>1 DEF IdentityOK, AsksOK
  <2>5. \A k \in Conns : AsksBegin(link'[c][k]) => k = conn[c] + 1
    BY <1>3, <2>4 DEF Quiet
  <2>6. AsksOK(c)'
    BY <1>1, <1>4, <2>5 DEF AsksOK, registry
  <2> QED
    BY <2>2, <2>3, <2>6 DEF IdentityOK
<1>6. ASSUME NEW d \in Clients, d # c PROVE IdentityOK(d)'
  <2>1. \A k \in Conns : link'[d][k] = link[d][k]
    BY <1>1, <1>6 DEF Opens, Shaped
  <2>2. pc'[d] = pc[d]
    BY <1>4, <1>6
  <2> QED
    BY <1>1, <2>1, <2>2, OthersKeep DEF registry
<1> QED
  BY <1>1, <1>2, <1>5, <1>6 DEF Kept, Inv, registry

\* A session is bound only if nothing holds the identity any more.
LEMMA BindKeeps ==
    ASSUME Inv, NEW c \in Clients, NEW k \in Conns, NEW j, Binds(c, k, j),
           Holders(c) = {}, c \notin ended, UNCHANGED <<pc, ended>>, pc[c] # "new",
           records' \subseteq records, \A n : <<c, n>> \notin records',
           \A i \in Conns : AsksBegin(link[c][i]) => i = k
    PROVE  Kept
<1> DEFINE m == [Reply(link[c][k], j, "ok", minted[c] + 1)
                    EXCEPT !.bound = minted[c] + 1, !.context = "live"]
<1>1. Shaped /\ IdentityOK(c) /\ minted \in [Clients -> Nat]
  BY DEF Inv
<1>2. Shape(m) /\ m.line = Nil /\ m.task = "idle" /\ m.bound = minted[c] + 1 /\ m.context = "live"
  <2>1. PICK l, a : l = Reply(link[c][k], j, "ok", minted[c] + 1)
            /\ Fields(l, Nil, a, link[c][k].hungup, "idle", link[c][k].bound, link[c][k].context)
    BY <1>1, ReplyFields DEF Shaped
  <2>2. Shape(l) /\ l.line = Nil /\ l.task = "idle"
    BY <2>1 DEF Fields
  <2>3. Fields([l EXCEPT !.bound = minted[c] + 1, !.context = "live"],
               l.line, l.answer, l.hungup, l.task, minted[c] + 1, "live")
    BY <2>2, BindFields
  <2> QED
    BY <2>1, <2>2, <2>3 DEF Fields
<1>3. link' = [link EXCEPT ![c][k] = m] /\ minted' = [minted EXCEPT ![c] = @ + 1]
  BY DEF Binds
<1> HIDE DEF m
<1>4. /\ Shaped' /\ link'[c][k] = m
      /\ \A d \in Clients, i \in Conns : d # c \/ i # k => link'[d][i] = link[d][i]
  BY <1>1, <1>2, <1>3 DEF Shaped
<1>5. minted' \in [Clients -> Nat] /\ minted'[c] = minted[c] + 1 /\ minted'[c] # 0
  BY <1>1, <1>3
<1>6. Holders(c)' = {k}
  BY <1>2, <1>4, <1>5 DEF Holders
<1>7. HeldOK(c)'
  <2>1. \A i \in Holders(c)' : link'[c][i].bound = minted'[c]
    BY <1>2, <1>4, <1>5, <1>6
  <2>2. \A i, h \in Holders(c)' : i = h
    BY <1>6
  <2>3. ASSUME NEW i \in Conns, link'[c][i].bound = 0 PROVE link'[c][i].context = "none"
    BY <1>1, <1>2, <1>4, <1>5, <2>3 DEF IdentityOK, HeldOK
  <2>4. ASSUME NEW i \in Conns, link'[c][i].task = "closed"
        PROVE  link'[c][i].bound # 0 /\ link'[c][i].context = "none"
    BY <1>1, <1>2, <1>4, <2>4 DEF IdentityOK, HeldOK
  <2> QED
    BY <2>1, <2>2, <2>3, <2>4 DEF HeldOK
<1>8. RecordOK(c)' /\ EndedOK(c)'
  BY DEF RecordOK, EndedOK
<1>9. \A i \in Conns : ~AsksBegin(link'[c][i])
  BY <1>2, <1>4 DEF AsksBegin
<1>10. AsksOK(c)'
  BY <1>9 DEF AsksOK
<1>11. ASSUME NEW d \in Clients, d # c PROVE IdentityOK(d)'
  <2>1. \A i \in Conns : link'[d][i] = link[d][i]
    BY <1>4, <1>11
  <2>2. minted'[d] = minted[d]
    BY <1>1, <1>3, <1>11
  <2> QED
    BY <2>1, <2>2, OthersKeep
<1> QED
  BY <1>4, <1>5, <1>7, <1>8, <1>10, <1>11 DEF Kept, Inv, IdentityOK

\* A first binding comes before any credential, so that nothing can hold it.
LEMMA BeginKeeps ==
    ASSUME Inv, NEW c \in Clients, NEW k \in Conns, ServeBegin(c, k), Binds(c, k, Begin)
    PROVE  Kept
<1>1. IdentityOK(c) /\ AsksBegin(link[c][k])
  BY DEF Inv, ServeBegin, Serves, AsksBegin
<1>2. /\ minted[c] = 0 /\ pc[c] # "new"
      /\ \A i \in Conns : AsksBegin(link[c][i]) => i = k
  BY <1>1 DEF IdentityOK, AsksOK
<1>3. Holders(c) = {}
  BY <1>1, <1>2 DEF IdentityOK, HeldOK, Holders
<1>4. c \notin ended /\ \A n : <<c, n>> \notin records
  BY <1>1, <1>2 DEF IdentityOK, EndedOK, RecordOK
<1>5. UNCHANGED <<pc, ended, records>>
  BY DEF ServeBegin, client
<1> QED
  BY <1>2, <1>3, <1>4, <1>5, BindKeeps

\* A record is taken before its session is bound, and there is no other.
LEMMA ResumeKeeps ==
    ASSUME Inv, NEW c \in Clients, NEW k \in Conns, ServeResume(c, k), Binds(c, k, Resume)
    PROVE  Kept
<1> DEFINE n == link[c][k].line.credential
<1>1. IdentityOK(c) /\ minted \in [Clients -> Nat]
  BY DEF Inv
<1>2. minted'[c] # minted[c]
  BY <1>1 DEF Binds
<1>3. <<c, n>> \in records /\ records' = Left(<<c, n>>) /\ UNCHANGED <<pc, ended>>
  BY <1>2 DEF ServeResume, Fails, client
<1>4. n = minted[c] /\ n # 0 /\ Holders(c) = {}
  BY <1>1, <1>3 DEF IdentityOK, RecordOK
<1>5. c \notin ended /\ pc[c] # "new" /\ \A i \in Conns : ~AsksBegin(link[c][i])
  BY <1>1, <1>3, <1>4 DEF IdentityOK, EndedOK, AsksOK
<1>6. records' \subseteq records /\ \A i : <<c, i>> \notin records'
  BY <1>1, <1>3, <1>4 DEF IdentityOK, RecordOK, Left
<1> QED
  BY <1>3, <1>4, <1>5, <1>6, BindKeeps

\* An end is of the one session that is bound.
LEMMA EndKeeps ==
    ASSUME Inv, NEW c \in Clients, NEW k \in Conns, ReturnEnd(c, k), ended' # ended
    PROVE  Kept
<1> DEFINE m == Unbound(Reply(link[c][k], End, "ok", 0))
<1>1. Shaped /\ IdentityOK(c) /\ minted \in [Clients -> Nat] /\ Shape(link[c][k])
  BY DEF Inv, Shaped
<1>2. /\ link[c][k].context = "live" /\ link' = [link EXCEPT ![c][k] = m]
      /\ ended' = ended \cup {c} /\ UNCHANGED <<pc, records, minted>>
  BY DEF ReturnEnd, client
<1>3. Holders(c) = {k} /\ minted[c] # 0
  BY <1>1, <1>2 DEF IdentityOK, HeldOK, Holders
<1>4. Shape(m) /\ m.line = Nil /\ m.task = "idle" /\ m.bound = 0 /\ m.context = "none"
  <2>1. PICK l, a : l = Reply(link[c][k], End, "ok", 0)
            /\ Fields(l, Nil, a, link[c][k].hungup, "idle", link[c][k].bound, link[c][k].context)
    BY <1>1, ReplyFields
  <2>2. Shape(l) /\ l.line = Nil /\ l.task = "idle"
    BY <2>1 DEF Fields
  <2>3. Fields(Unbound(l), l.line, l.answer, l.hungup, l.task, 0, "none")
    BY <2>2, UnboundFields
  <2> QED
    BY <2>1, <2>2, <2>3 DEF Fields
<1> HIDE DEF m
<1>5. /\ Shaped' /\ link'[c][k] = m
      /\ \A d \in Clients, i \in Conns : d # c \/ i # k => link'[d][i] = link[d][i]
  BY <1>1, <1>2, <1>4 DEF Shaped
<1>6. Holders(c)' = {}
  BY <1>3, <1>4, <1>5 DEF Holders
<1>7. \A n : <<c, n>> \notin records'
  BY <1>1, <1>2, <1>3 DEF IdentityOK, RecordOK
<1>8. IdentityOK(c)'
  <2>1. HeldOK(c)'
    BY <1>1, <1>4, <1>5, <1>6 DEF IdentityOK, HeldOK
  <2>2. RecordOK(c)' /\ EndedOK(c)'
    BY <1>2, <1>3, <1>6, <1>7 DEF RecordOK, EndedOK
  <2>3. \A i \in Conns : AsksBegin(link'[c][i]) => AsksBegin(link[c][i])
    BY <1>4, <1>5 DEF AsksBegin
  <2>4. AsksOK(c)'
    BY <1>1, <1>2, <2>3 DEF IdentityOK, AsksOK
  <2> QED
    BY <2>1, <2>2, <2>4 DEF IdentityOK
<1>9. ASSUME NEW d \in Clients, d # c PROVE IdentityOK(d)'
  <2>1. \A i \in Conns : link'[d][i] = link[d][i]
    BY <1>5, <1>9
  <2> QED
    BY <1>2, <1>9, <2>1, OthersKeep
<1> QED
  BY <1>1, <1>2, <1>5, <1>8, <1>9 DEF Kept, Inv

\* The record takes over from the connection.
LEMMA DetachKeeps ==
    ASSUME Inv, NEW c \in Clients, NEW k \in Conns, Detach(c, k)
    PROVE  Kept
<1> DEFINE l == link[c][k]
           m == [l EXCEPT !.task = "done", !.bound = 0]
<1>1. Shaped /\ IdentityOK(c) /\ minted \in [Clients -> Nat] /\ Shape(l)
  BY DEF Inv, Shaped
<1>2. /\ l.task = "closed" /\ link' = [link EXCEPT ![c][k] = m]
      /\ records' = (records \ expired) \cup {<<c, l.bound>>} /\ UNCHANGED <<pc, ended, minted>>
  BY DEF Detach, client
<1>3. l.bound # 0 /\ l.context = "none" /\ Holders(c) = {k} /\ l.bound = minted[c]
  BY <1>1, <1>2 DEF IdentityOK, HeldOK, Holders
<1>4. Shape(m) /\ m.line = l.line /\ m.task = "done" /\ m.bound = 0 /\ m.context = "none"
  BY <1>1, <1>3, DetachFields DEF Fields
<1> HIDE DEF m
<1>5. /\ Shaped' /\ link'[c][k] = m
      /\ \A d \in Clients, i \in Conns : d # c \/ i # k => link'[d][i] = link[d][i]
  BY <1>1, <1>2, <1>4 DEF Shaped
<1>6. Holders(c)' = {}
  BY <1>3, <1>4, <1>5 DEF Holders
<1>7. \A n : <<c, n>> \in records' => n = minted[c]
  BY <1>1, <1>2, <1>3 DEF IdentityOK, RecordOK
<1>8. IdentityOK(c)'
  <2>1. HeldOK(c)'
    BY <1>1, <1>4, <1>5, <1>6 DEF IdentityOK, HeldOK
  <2>2. RecordOK(c)'
    BY <1>2, <1>3, <1>6, <1>7 DEF RecordOK
  <2>3. EndedOK(c)'
    BY <1>1, <1>2, <1>3 DEF IdentityOK, EndedOK
  <2>4. \A i \in Conns : AsksBegin(link'[c][i]) => AsksBegin(link[c][i])
    BY <1>4, <1>5 DEF AsksBegin
  <2>5. AsksOK(c)'
    BY <1>1, <1>2, <2>4 DEF IdentityOK, AsksOK
  <2> QED
    BY <2>1, <2>2, <2>3, <2>5 DEF IdentityOK
<1>9. ASSUME NEW d \in Clients, d # c PROVE IdentityOK(d)'
  <2>1. \A i \in Conns : link'[d][i] = link[d][i]
    BY <1>5, <1>9
  <2>2. \A n : <<d, n>> \in records' => <<d, n>> \in records
    BY <1>2, <1>9
  <2> QED
    BY <1>2, <1>9, <2>1, <2>2, OthersKeep
<1> QED
  BY <1>1, <1>2, <1>5, <1>8, <1>9 DEF Kept, Inv

-----------------------------------------------------------------------------
(* The theorems.                                                           *)

\* Nothing is bound at first,
LEMMA InitInv == Init => Inv
<1> SUFFICES ASSUME Init PROVE Inv
  OBVIOUS
<1>1. /\ link = [c \in Clients |-> [k \in Conns |-> Unopened]]
      /\ \A c \in Clients, k \in Conns : link[c][k] = Unopened
  BY DEF Init
<1>2. /\ Unopened.bound = 0 /\ Unopened.context = "none" /\ Unopened.task = "none"
      /\ Unopened.line = Nil /\ Shape(Unopened)
  BY DEF Unopened, Shape
<1>3. Shaped
  BY <1>1, <1>2 DEF Shaped
<1>4. ControlOK /\ minted \in [Clients -> Nat] /\ ended \subseteq Clients
  BY DEF Init, ControlOK
<1>5. ASSUME NEW c \in Clients PROVE IdentityOK(c)
  <2>1. HeldOK(c) /\ Holders(c) = {}
    BY <1>1, <1>2 DEF HeldOK, Holders
  <2>2. RecordOK(c) /\ EndedOK(c)
    BY DEF Init, RecordOK, EndedOK
  <2>3. AsksOK(c)
    BY <1>1, <1>2 DEF Init, AsksOK, AsksBegin
  <2> QED
    BY <2>1, <2>2, <2>3 DEF IdentityOK
<1> QED
  BY <1>3, <1>4, <1>5 DEF Inv

\* and no step breaks the invariant.
LEMMA StepInv == Inv /\ [Next]_vars => Inv'
<1> SUFFICES ASSUME Inv, [Next]_vars PROVE Inv'
  OBVIOUS
<1>1. ControlOK' /\ \A c \in Clients : pc'[c] = "new" => pc[c] = "new"
  BY ControlStays DEF Inv
<1>2. ASSUME QuietStep, UNCHANGED <<minted, ended>>, records' \subseteq records PROVE Kept
  BY <1>1, <1>2, QuietKeeps DEF Kept, QuietStep, Inv
<1>3. ASSUME UNCHANGED <<link, minted, ended>>, records' \subseteq records PROVE Kept
  BY <1>2, <1>3, QuietNone DEF Inv
<1>4. ASSUME NEW c \in Clients,
             ClientDies(c) \/ Call(c) \/ Shut(c, End) \/ Shut(c, Abandon) \/ ClientStep(c)
      PROVE  Kept
  BY <1>2, <1>4, ClientQuiet DEF registry
<1>5. ASSUME NEW c \in Clients, Connect(c) PROVE Kept
  BY <1>5, ConnectKeeps
<1>6. ASSUME NEW c \in Clients, NEW k \in Conns,
             TaskStep(c, k) \/ Return(c, k) \/ ReturnEnd(c, k) \/ ExpireContext(c, k)
      PROVE  Kept
  <2>1. CASE \/ ServeBegin(c, k) /\ ~Binds(c, k, Begin)
             \/ ServeResume(c, k) /\ ~Binds(c, k, Resume)
             \/ ServeCall(c, k) \/ SeeEof(c, k) \/ Return(c, k) \/ ExpireContext(c, k)
             \/ ReturnEnd(c, k) /\ ended' = ended
    BY <1>2, <2>1, TaskQuiet
  <2>2. CASE ServeBegin(c, k) /\ Binds(c, k, Begin)
    BY <2>2, BeginKeeps
  <2>3. CASE ServeResume(c, k) /\ Binds(c, k, Resume)
    BY <2>3, ResumeKeeps
  <2>4. CASE ReturnEnd(c, k) /\ ended' # ended
    BY <2>4, EndKeeps
  <2>5. CASE Detach(c, k)
    BY <2>5, DetachKeeps
  <2> QED
    BY <1>6, <2>1, <2>2, <2>3, <2>4, <2>5 DEF TaskStep
<1>7. ASSUME NEW c \in Clients, RivalBinds(c) \/ RivalEnds(c) PROVE Kept
  BY <1>3, <1>7 DEF RivalBinds, RivalEnds
<1>8. ASSUME (\E r \in records : ExpireRecord(r)) \/ Restart PROVE Kept
  BY <1>3, <1>8 DEF ExpireRecord, Restart, registry
<1>9. ASSUME Crash PROVE Kept
  BY <1>2, <1>9, CrashQuiet DEF Crash
<1>10. ASSUME UNCHANGED vars PROVE Kept
  BY <1>3, <1>10 DEF vars, registry
<1>11. Kept
  BY <1>4, <1>5, <1>6, <1>7, <1>8, <1>9, <1>10 DEF Next
<1> QED
  BY <1>1, <1>11 DEF Kept, Inv

\* take_trusted_resume_record and detach_trusted_connection: whatever the clients
\* write and whenever they leave, time passes or the daemon goes down, a session
\* is held by one connection or by one record, under its newest credential.
THEOREM IdentityIsHeldOnce == Spec => []IdentityHasOneHolder
<1>1. Inv => IdentityHasOneHolder
  <2> SUFFICES ASSUME Inv, NEW c \in Clients
               PROVE  /\ \A j, k \in Holders(c) : j = k
                      /\ \A k \in Holders(c) : link[c][k].bound = minted[c]
                      /\ \A n \in Credentials : <<c, n>> \in records =>
                            /\ n = minted[c] /\ Holders(c) = {}
                            /\ \A k \in Conns : link[c][k].context = "none"
    BY DEF IdentityHasOneHolder
  <2>1. HeldOK(c) /\ RecordOK(c)
    BY DEF Inv, IdentityOK
  <2>2. Holders(c) = {} => \A k \in Conns : link[c][k].context = "none"
    BY <2>1 DEF HeldOK, Holders
  <2> QED
    BY <2>1, <2>2 DEF HeldOK, RecordOK
<1> QED
  BY <1>1, InitInv, StepInv, PTL DEF Spec

\* trusted_session_end: no later request of the client, and no credential that is
\* still under way, binds the session again.
THEOREM EndsAreFinal == Spec => []EndedIsFinal
<1>1. Inv => EndedIsFinal
  <2> SUFFICES ASSUME Inv, NEW c \in ended
               PROVE  Holders(c) = {} /\ \A n \in Credentials : <<c, n>> \notin records
    BY DEF EndedIsFinal
  <2> QED
    BY DEF Inv, IdentityOK, EndedOK
<1> QED
  BY <1>1, InitInv, StepInv, PTL DEF Spec

-----------------------------------------------------------------------------
(* How many connections a client opens.                                    *)

\* The requests that may still have to resume the session: those that wait, the
\* calls that are not made yet and the end.
Waiting(c) == Cardinality(asked[c] \ {Abandon})
Budget(c) == Waiting(c) + (MaxCalls - made[c]) + (IF shut[c] THEN 0 ELSE 1)

\* What each of them may open, and what the one in hand has left.
Each == MaxRetries + 1
Spare(c) == IF pc[c] = "new" THEN 1
            ELSE IF pc[c] = "resume" THEN Each - tries[c]
            ELSE IF pc[c] = "answer" THEN MaxRetries - tries[c] ELSE 0

AskedOK(c) ==
    /\ \A j \in asked[c] : j \in Calls => j <= made[c]
    /\ ~shut[c] => asked[c] \subseteq Calls
    /\ pc[c] \in {"wait", "resume", "answer"} => job[c] \in Calls \cup {End}

\* A connection is opened at the cost of one that may still be opened.
SpendOK(c) ==
    /\ pc[c] = "new" => conn[c] = 0
    /\ pc[c] # "new" => conn[c] # 0
    /\ pc[c] \notin {"resume", "answer", "gone"} => tries[c] = 0
    /\ conn[c] <= MaxConns
    /\ pc[c] # "gone" => conn[c] + Budget(c) * Each + Spare(c) <= MaxConns

\* A client resumes when its connection is broken, and waits on one that is not.
BrokenOK(c) ==
    /\ pc[c] \in {"resume", "answer"} => broken[c]
    /\ pc[c] \in {"bind", "wait"} => ~broken[c]
    /\ pc[c] = "new" => ~broken[c]

SpendTypes ==
    /\ ControlOK
    /\ made \in [Clients -> 0..MaxCalls]
    /\ asked \in [Clients -> SUBSET Jobs]
    /\ shut \in [Clients -> BOOLEAN] /\ broken \in [Clients -> BOOLEAN]
    /\ conn \in [Clients -> Nat]
    /\ tries \in [Clients -> 0..MaxRetries]

ClientOK(c) == AskedOK(c) /\ SpendOK(c) /\ BrokenOK(c)
ClientsOK == SpendTypes /\ \A c \in Clients : ClientOK(c)

\* Requests, one more and one less.
LEMMA WaitingCounts ==
    ASSUME NEW S \in SUBSET Jobs, NEW j \in Jobs
    PROVE  /\ IsFiniteSet(S) /\ Cardinality(S \ {Abandon}) \in Nat
           /\ j # Abandon /\ j \notin S =>
                Cardinality((S \cup {j}) \ {Abandon}) = Cardinality(S \ {Abandon}) + 1
           /\ j # Abandon /\ j \in S =>
                Cardinality((S \ {j}) \ {Abandon}) + 1 = Cardinality(S \ {Abandon})
           /\ j = Abandon =>
                /\ Cardinality((S \cup {j}) \ {Abandon}) = Cardinality(S \ {Abandon})
                /\ Cardinality((S \ {j}) \ {Abandon}) = Cardinality(S \ {Abandon})
<1> DEFINE R == S \ {Abandon}
<1>1. IsFiniteSet(Jobs)
  <2>1. IsFiniteSet(1..MaxCalls)
    BY FS_Interval
  <2>2. IsFiniteSet({End})
    BY FS_Singleton
  <2>3. IsFiniteSet({End} \cup {Abandon})
    BY <2>2, FS_AddElement
  <2>4. Jobs = (1..MaxCalls) \cup ({End} \cup {Abandon})
    BY DEF Jobs, Calls
  <2> QED
    BY <2>1, <2>3, <2>4, FS_Union
<1>2. IsFiniteSet(S) /\ IsFiniteSet(R)
  BY <1>1, FS_Subset
<1>3. Cardinality(R) \in Nat
  BY <1>2, FS_CardinalityType
<1>4. ASSUME j # Abandon, j \notin S PROVE Cardinality((S \cup {j}) \ {Abandon}) = Cardinality(R) + 1
  <2>1. (S \cup {j}) \ {Abandon} = R \cup {j} /\ j \notin R
    BY <1>4
  <2> HIDE DEF R
  <2>2. Cardinality(R \cup {j}) = Cardinality(R) + 1
    BY <1>2, <2>1, FS_AddElement
  <2> QED
    BY <2>1, <2>2
<1>5. ASSUME j # Abandon, j \in S PROVE Cardinality((S \ {j}) \ {Abandon}) + 1 = Cardinality(R)
  <2>1. (S \ {j}) \ {Abandon} = R \ {j} /\ j \in R
    BY <1>5
  <2> HIDE DEF R
  <2>2. Cardinality(R \ {j}) = Cardinality(R) - 1
    BY <1>2, <2>1, FS_RemoveElement
  <2> QED
    BY <1>3, <2>1, <2>2
<1>6. ASSUME j = Abandon
      PROVE  (S \cup {j}) \ {Abandon} = R /\ (S \ {j}) \ {Abandon} = R
  BY <1>6
<1> QED
  BY <1>2, <1>3, <1>4, <1>5, <1>6

\* The price of a request.
LEMMA Price ==
    /\ Each \in Nat /\ Each # 0
    /\ \A b \in Nat : b * Each \in Nat /\ (b + 1) * Each = b * Each + Each
BY DEF Each

LEMMA BudgetType ==
    ASSUME SpendTypes, NEW c \in Clients
    PROVE  Budget(c) \in Nat /\ Waiting(c) \in Nat
<1>1. asked[c] \in SUBSET Jobs /\ made[c] \in 0..MaxCalls /\ shut[c] \in BOOLEAN
  BY DEF SpendTypes
<1>2. Waiting(c) \in Nat
  BY <1>1, WaitingCounts DEF Waiting, Jobs
<1> QED
  BY <1>1, <1>2 DEF Budget

LEMMA MaxConnsType == MaxConns \in Nat /\ MaxConns # 0 /\ MaxConns = 1 + (MaxCalls + 1) * Each
<1>1. (MaxCalls + 1) * Each \in Nat
  BY Price
<1> QED
  BY <1>1 DEF MaxConns, Each

\* What a client has is its own.
LEMMA OwnClient ==
    ASSUME ClientsOK, NEW d \in Clients,
           UNCHANGED <<pc[d], job[d], made[d], asked[d], shut[d], broken[d], conn[d], tries[d]>>
    PROVE  ClientOK(d)'
<1>1. ClientOK(d)
  BY DEF ClientsOK
<1>2. Budget(d)' = Budget(d) /\ Spare(d)' = Spare(d)
  BY DEF Budget, Waiting, Spare
<1>3. AskedOK(d)' /\ BrokenOK(d)'
  BY <1>1 DEF ClientOK, AskedOK, BrokenOK
<1>4. SpendOK(d)'
  BY <1>1, <1>2 DEF ClientOK, SpendOK
<1> QED
  BY <1>3, <1>4 DEF ClientOK

\* A step of a client that asks for nothing and takes nothing.
LEMMA SameBudget ==
    ASSUME ClientsOK, NEW c \in Clients, UNCHANGED <<made, asked, shut>>,
           conn'[c] \in Nat, Spare(c) \in Nat, Spare(c)' \in Nat, conn[c] \in Nat,
           conn'[c] + Spare(c)' <= conn[c] + Spare(c), pc[c] # "gone"
    PROVE  conn'[c] <= MaxConns /\ conn'[c] + Budget(c)' * Each + Spare(c)' <= MaxConns
<1>1. Budget(c)' = Budget(c) /\ Budget(c) \in Nat
  BY BudgetType DEF Budget, Waiting, ClientsOK
<1>2. conn[c] + Budget(c) * Each + Spare(c) <= MaxConns
  BY DEF ClientsOK, ClientOK, SpendOK
<1> DEFINE x == Budget(c) * Each
<1>3. x \in Nat /\ Budget(c)' * Each = x
  BY <1>1, Price
<1> HIDE DEF x
<1>4. conn'[c] + x + Spare(c)' <= MaxConns
  BY <1>2, <1>3, MaxConnsType DEF x
<1> QED
  BY <1>3, <1>4, MaxConnsType

\* The first connection, and its answer.
LEMMA BeginStays ==
    ASSUME ClientsOK, NEW c \in Clients, Connect(c) \/ (Bound(c) /\ pc'[c] = "free")
    PROVE  ClientOK(c)'
<1> USE JobsDiffer DEF ClientsOK, SpendTypes, ControlOK
<1>1. ClientOK(c)
  OBVIOUS
<1>2. CASE Connect(c)
  <2>1. pc[c] = "new" /\ pc'[c] = "bind" /\ conn'[c] = conn[c] + 1
        /\ UNCHANGED <<job, made, asked, shut, broken, tries>>
    BY <1>2 DEF Connect, Opens
  <2>2. Spare(c) = 1 /\ Spare(c)' = 0
    BY <2>1 DEF Spare
  <2>3. conn'[c] <= MaxConns /\ conn'[c] + Budget(c)' * Each + Spare(c)' <= MaxConns
    BY <2>1, <2>2, SameBudget
  <2>4. AskedOK(c)' /\ BrokenOK(c)'
    BY <1>1, <2>1 DEF ClientOK, AskedOK, BrokenOK
  <2>5. SpendOK(c)'
    BY <1>1, <2>1, <2>3 DEF ClientOK, SpendOK
  <2> QED
    BY <2>4, <2>5 DEF ClientOK
<1>3. CASE Bound(c) /\ pc'[c] = "free"
  <2>1. pc[c] = "bind" /\ UNCHANGED <<job, made, shut, broken, conn, tries>>
        /\ UNCHANGED asked
    BY <1>3 DEF Bound, Leaves
  <2>2. Spare(c) = 0 /\ Spare(c)' = 0
    BY <1>3, <2>1 DEF Spare
  <2>3. conn'[c] <= MaxConns /\ conn'[c] + Budget(c)' * Each + Spare(c)' <= MaxConns
    BY <2>1, <2>2, SameBudget
  <2>4. AskedOK(c)' /\ BrokenOK(c)'
    BY <1>1, <1>3, <2>1 DEF ClientOK, AskedOK, BrokenOK
  <2>5. SpendOK(c)'
    BY <1>1, <1>3, <2>1, <2>3 DEF ClientOK, SpendOK
  <2> QED
    BY <2>4, <2>5 DEF ClientOK
<1> QED
  BY <1>2, <1>3

\* A client that is gone needs no more.
LEMMA LeavingStays ==
    ASSUME ClientsOK, NEW c \in Clients, Leaves(c), pc[c] # "new",
           UNCHANGED <<job, made, shut, broken, conn, tries>>
    PROVE  ClientOK(c)'
<1> USE DEF ClientsOK, SpendTypes, ControlOK
<1>1. ClientOK(c) /\ pc'[c] = "gone" /\ asked'[c] = {}
  BY DEF Leaves
<1>2. AskedOK(c)' /\ BrokenOK(c)'
  BY <1>1 DEF AskedOK, BrokenOK
<1>3. SpendOK(c)'
  BY <1>1 DEF ClientOK, SpendOK
<1> QED
  BY <1>2, <1>3 DEF ClientOK

\* A request waits, which was one of those to come.
LEMMA AskingStays ==
    ASSUME ClientsOK, NEW c \in Clients, Call(c) \/ Shut(c, End) \/ Shut(c, Abandon)
    PROVE  ClientOK(c)'
<1> USE JobsDiffer DEF ClientsOK, SpendTypes, ControlOK
<1>1. ClientOK(c) /\ asked[c] \in SUBSET Jobs /\ made[c] \in 0..MaxCalls
      /\ UNCHANGED <<pc, job, broken, conn, tries>> /\ pc[c] \notin {"new", "bind", "gone"}
      /\ ~shut[c]
  BY DEF Call, Shut, Usable
<1>2. Spare(c)' = Spare(c)
  BY <1>1 DEF Spare
<1>3. CASE Call(c)
  <2>1. made[c] < MaxCalls /\ made'[c] = made[c] + 1 /\ asked'[c] = asked[c] \cup {made[c] + 1}
        /\ UNCHANGED shut
    BY <1>3 DEF Call
  <2>2. made[c] + 1 \in Calls /\ made[c] + 1 \in Jobs /\ made[c] + 1 # Abandon
    BY <1>1, <2>1 DEF Calls, Jobs, Abandon
  <2>3. made[c] + 1 \notin asked[c]
    BY <1>1, <2>2 DEF ClientOK, AskedOK
  <2>4. Waiting(c)' = Waiting(c) + 1 /\ Waiting(c) \in Nat
    <3>1. /\ Cardinality((asked[c] \cup {made[c] + 1}) \ {Abandon}) = Cardinality(asked[c] \ {Abandon}) + 1
          /\ Cardinality(asked[c] \ {Abandon}) \in Nat
      BY <1>1, <2>2, <2>3, WaitingCounts
    <3> QED
      BY <2>1, <3>1 DEF Waiting
  <2>5. Budget(c)' = Budget(c)
    BY <1>1, <2>1, <2>4 DEF Budget
  <2>6. AskedOK(c)'
    BY <1>1, <2>1, <2>2 DEF ClientOK, AskedOK, Calls
  <2>7. SpendOK(c)' /\ BrokenOK(c)'
    BY <1>1, <1>2, <2>5 DEF ClientOK, SpendOK, BrokenOK
  <2> QED
    BY <2>6, <2>7 DEF ClientOK
<1>4. ASSUME NEW j \in {End, Abandon}, Shut(c, j) PROVE ClientOK(c)'
  <2>1. shut'[c] /\ asked'[c] = asked[c] \cup {j} /\ UNCHANGED made
    BY <1>4 DEF Shut
  <2>2. j \in Jobs /\ j \notin asked[c] /\ j \notin Calls
    BY <1>1 DEF Jobs, ClientOK, AskedOK, Calls, End, Abandon
  <2>3. Waiting(c)' = (IF j = End THEN Waiting(c) + 1 ELSE Waiting(c)) /\ Waiting(c) \in Nat
    <3>1. End # Abandon
      BY DEF End, Abandon
    <3>2. /\ Cardinality(asked[c] \ {Abandon}) \in Nat
          /\ Cardinality((asked[c] \cup {j}) \ {Abandon}) = IF j = End
                THEN Cardinality(asked[c] \ {Abandon}) + 1 ELSE Cardinality(asked[c] \ {Abandon})
      BY <1>1, <2>2, <3>1, WaitingCounts
    <3> QED
      BY <2>1, <3>2 DEF Waiting
  <2>4. Budget(c) \in Nat /\ Budget(c)' \in Nat
        /\ (Budget(c)' = Budget(c) \/ Budget(c)' + 1 = Budget(c))
    BY <1>1, <2>1, <2>3 DEF Budget
  <2>5. conn[c] + Budget(c)' * Each + Spare(c) <= MaxConns
    <3> DEFINE x == Budget(c)' * Each
    <3>1. x \in Nat /\ (Budget(c) * Each = x \/ Budget(c) * Each = x + Each)
      BY <2>4, Price
    <3>2. conn[c] \in Nat /\ Spare(c) \in Nat
      BY <1>1 DEF Spare, Each
    <3>3. conn[c] + Budget(c) * Each + Spare(c) <= MaxConns
      BY <1>1 DEF ClientOK, SpendOK
    <3> HIDE DEF x
    <3>4. conn[c] + x + Spare(c) <= MaxConns
      BY <3>1, <3>2, <3>3, Price, MaxConnsType
    <3> QED
      BY <3>4 DEF x
  <2>6. AskedOK(c)'
    BY <1>1, <2>1, <2>2 DEF ClientOK, AskedOK
  <2>7. SpendOK(c)' /\ BrokenOK(c)'
    BY <1>1, <1>2, <2>5 DEF ClientOK, SpendOK, BrokenOK
  <2> QED
    BY <2>6, <2>7 DEF ClientOK
<1> QED
  BY <1>3, <1>4

\* A thread gets the mutex: its request may now open what was kept for it.
LEMMA TakingStays ==
    ASSUME ClientsOK, NEW c \in Clients, NEW j \in Jobs, Take(c, j)
    PROVE  ClientOK(c)'
<1> USE JobsDiffer DEF ClientsOK, SpendTypes, ControlOK
<1>1. ClientOK(c) /\ asked[c] \in SUBSET Jobs /\ made[c] \in 0..MaxCalls
      /\ pc[c] = "free" /\ j \in asked[c] /\ asked'[c] = asked[c] \ {j} /\ job'[c] = j
      /\ UNCHANGED <<made, shut, conn, tries>>
  BY DEF Take
<1>2. tries[c] = 0 /\ conn[c] # 0 /\ Spare(c) = 0
  BY <1>1 DEF ClientOK, SpendOK, Spare
<1>3. conn[c] + Budget(c) * Each + Spare(c) <= MaxConns
  BY <1>1 DEF ClientOK, SpendOK
<1>4. Waiting(c) = (IF j = Abandon THEN Waiting(c)' ELSE Waiting(c)' + 1)
      /\ Waiting(c)' \in Nat
  <2>1. Cardinality((asked[c] \ {j}) \ {Abandon}) \in Nat
    <3>1. asked[c] \ {j} \in SUBSET Jobs
      BY <1>1
    <3> QED
      BY <3>1, WaitingCounts
  <2>2. Cardinality(asked[c] \ {Abandon}) = IF j = Abandon
                THEN Cardinality((asked[c] \ {j}) \ {Abandon})
                ELSE Cardinality((asked[c] \ {j}) \ {Abandon}) + 1
    BY <1>1, WaitingCounts
  <2> QED
    BY <1>1, <2>1, <2>2 DEF Waiting
<1>5. Budget(c)' \in Nat
      /\ Budget(c) = (IF j = Abandon THEN Budget(c)' ELSE Budget(c)' + 1)
  BY <1>1, <1>4 DEF Budget
<1> DEFINE x == Budget(c)' * Each
<1>6. x \in Nat /\ Budget(c) * Each = (IF j = Abandon THEN x ELSE x + Each)
  BY <1>5, Price
<1>7. AskedOK(c)'
  <2>1. (\A i \in asked'[c] : i \in Calls => i <= made'[c])
        /\ (~shut'[c] => asked'[c] \subseteq Calls)
    BY <1>1 DEF ClientOK, AskedOK
  <2>2. pc'[c] # "free" => j \in Calls \cup {End}
    BY <1>1 DEF Take, Jobs
  <2> QED
    BY <1>1, <2>1, <2>2 DEF AskedOK
<1>8. BrokenOK(c)'
  BY <1>1 DEF ClientOK, BrokenOK, Take
<1>9. SpendOK(c)'
  <2>1. pc'[c] \in {"free", "wait", "resume"} /\ (pc'[c] = "resume" => j # Abandon)
    BY <1>1 DEF Take
  <2>2. Spare(c)' = IF pc'[c] = "resume" THEN Each ELSE 0
    BY <1>1, <1>2, <2>1, Price DEF Spare
  <2> HIDE DEF x
  <2>3. conn[c] + x + Spare(c)' <= MaxConns
    BY <1>2, <1>3, <1>6, <2>1, <2>2, Price, MaxConnsType
  <2>4. conn'[c] + Budget(c)' * Each + Spare(c)' <= MaxConns
    BY <1>1, <2>3 DEF x
  <2>5. conn[c] <= MaxConns
    BY <1>1 DEF ClientOK, SpendOK
  <2> QED
    BY <1>1, <1>2, <2>1, <2>4, <2>5 DEF SpendOK
<1> QED
  BY <1>7, <1>8, <1>9 DEF ClientOK

\* A request goes on or returns, and opens no more than was left to it.
LEMMA ReturningStays ==
    ASSUME ClientsOK, NEW c \in Clients,
           \/ Answered(c) \/ Lost(c) \/ Attempt(c) \/ Resumed(c) \/ Refused(c) \/ ResumeLost(c)
    PROVE  ClientOK(c)'
<1> USE JobsDiffer DEF ClientsOK, SpendTypes, ControlOK
<1>1. ClientOK(c) /\ UNCHANGED <<job, made, asked, shut>> /\ pc[c] \in {"wait", "resume", "answer"}
      /\ tries[c] \in 0..MaxRetries /\ conn[c] \in Nat /\ conn[c] # 0
  <2>1. UNCHANGED <<job, made, asked, shut>> /\ pc[c] \in {"wait", "resume", "answer"}
    BY DEF Answered, Lost, Overdue, Attempt, Resumed, Refused, ResumeLost
  <2> QED
    BY <2>1 DEF ClientOK, SpendOK
<1>2. /\ pc'[c] \in {"free", "wait", "resume", "answer"}
      /\ pc'[c] \in {"free", "wait"} => conn'[c] = conn[c] /\ (tries'[c] = 0 \/ (tries'[c] = tries[c] /\ pc[c] = "wait"))
      /\ pc'[c] = "resume" => pc[c] = "answer" /\ conn'[c] = conn[c] /\ tries'[c] = tries[c] + 1
                                 /\ tries[c] < MaxRetries /\ broken'[c] = broken[c]
      /\ pc'[c] = "answer" => pc[c] = "resume" /\ conn'[c] = conn[c] + 1 /\ tries'[c] = tries[c]
                                 /\ broken'[c] = broken[c]
      /\ pc'[c] = "wait" => broken'[c] = FALSE
  <2>1. CASE Answered(c) \/ Lost(c)
    BY <1>1, <2>1 DEF Answered, Lost, Overdue, Released
  <2>2. CASE Attempt(c)
    <3>1. \/ /\ pc' = [pc EXCEPT ![c] = "answer"] /\ conn' = [conn EXCEPT ![c] = @ + 1]
             /\ tries' = tries
          \/ /\ pc' = [pc EXCEPT ![c] = "free"] /\ tries' = [tries EXCEPT ![c] = 0]
             /\ conn' = conn
      BY <2>2 DEF Attempt, Opens, Released
    <3>2. broken' = broken /\ pc[c] = "resume"
      BY <2>2 DEF Attempt
    <3> QED
      BY <1>1, <3>1, <3>2
  <2>3. CASE Resumed(c)
    BY <1>1, <2>3 DEF Resumed
  <2>4. CASE Refused(c)
    BY <1>1, <2>4 DEF Refused, Released, RetryLeft
  <2>5. CASE ResumeLost(c)
    BY <1>1, <2>5 DEF ResumeLost, Released
  <2> QED
    BY <2>1, <2>2, <2>3, <2>4, <2>5
<1>3. /\ Spare(c) \in Nat /\ Spare(c)' \in Nat /\ conn'[c] \in Nat
      /\ conn'[c] + Spare(c)' <= conn[c] + Spare(c)
  BY <1>1, <1>2 DEF Spare, Each
<1>4. conn'[c] <= MaxConns /\ conn'[c] + Budget(c)' * Each + Spare(c)' <= MaxConns
  BY <1>1, <1>3, SameBudget
<1>5. SpendOK(c)'
  <2>1. pc[c] = "wait" => tries[c] = 0
    BY <1>1 DEF ClientOK, SpendOK
  <2> QED
    BY <1>1, <1>2, <1>4, <2>1 DEF SpendOK
<1>6. AskedOK(c)' /\ BrokenOK(c)'
  BY <1>1, <1>2 DEF ClientOK, AskedOK, BrokenOK
<1> QED
  BY <1>5, <1>6 DEF ClientOK

\* The clients stay within their bounds, whatever the daemon answers.
LEMMA ClientsStay ==
    ASSUME ClientsOK, [Next]_vars
    PROVE  ClientsOK'
<1>0. SpendTypes /\ ControlOK'
  BY ControlStays DEF ClientsOK, SpendTypes
<1>1. ASSUME UNCHANGED client PROVE ClientsOK'
  <2>1. \A c \in Clients : ClientOK(c)'
    BY <1>1, OwnClient DEF client
  <2>2. SpendTypes'
    BY <1>0, <1>1 DEF SpendTypes, client
  <2> QED
    BY <2>1, <2>2 DEF ClientsOK
<1>2. ASSUME NEW c \in Clients, ClientOK(c)',
             made' \in [Clients -> 0..MaxCalls], asked' \in [Clients -> SUBSET Jobs],
             shut' \in [Clients -> BOOLEAN], broken' \in [Clients -> BOOLEAN],
             conn' \in [Clients -> Nat], tries' \in [Clients -> 0..MaxRetries],
             \A d \in Clients : d # c =>
                UNCHANGED <<pc[d], job[d], made[d], asked[d], shut[d], broken[d], conn[d], tries[d]>>
      PROVE  ClientsOK'
  <2>1. \A d \in Clients : ClientOK(d)'
    BY <1>2, OwnClient
  <2> QED
    BY <1>0, <1>2, <2>1 DEF ClientsOK, SpendTypes
<1> USE <1>0 DEF SpendTypes, ControlOK
<1>3. ASSUME NEW c \in Clients, Connect(c) PROVE ClientsOK'
  <2>1. conn' = [conn EXCEPT ![c] = @ + 1] /\ pc' = [pc EXCEPT ![c] = "bind"]
        /\ UNCHANGED <<job, made, asked, shut, broken, tries>>
    BY <1>3 DEF Connect, Opens
  <2>2. conn' \in [Clients -> Nat]
    BY <2>1
  <2>3. \A d \in Clients : d # c => UNCHANGED <<pc[d], conn[d]>>
    BY <2>1
  <2> QED
    BY <1>2, <1>3, <2>1, <2>2, <2>3, BeginStays
<1>4. ASSUME NEW c \in Clients, Leaves(c), pc[c] # "new",
             UNCHANGED <<job, made, shut, broken, conn, tries>>
      PROVE  ClientsOK'
  BY <1>2, <1>4, LeavingStays DEF Leaves
<1>5. ASSUME NEW c \in Clients, Bound(c) PROVE ClientsOK'
  <2>1. CASE Leaves(c)
    BY <1>4, <1>5, <2>1 DEF Bound
  <2>2. CASE Released(c)
    <3>1. pc'[c] = "free" /\ UNCHANGED <<job, made, asked, shut, broken, conn, tries>>
      BY <1>5, <2>2 DEF Bound, Released, Leaves
    <3>2. \A d \in Clients : d # c => pc'[d] = pc[d]
      BY <2>2 DEF Released
    <3> QED
      BY <1>2, <1>5, <3>1, <3>2, BeginStays
  <2> QED
    BY <1>5, <2>1, <2>2 DEF Bound
<1>6. ASSUME NEW c \in Clients, ClientDies(c) \/ BindLost(c) PROVE ClientsOK'
  BY <1>4, <1>6 DEF ClientDies, BindLost
<1>7. ASSUME NEW c \in Clients, Call(c) \/ Shut(c, End) \/ Shut(c, Abandon) PROVE ClientsOK'
  <2>1. made' \in [Clients -> 0..MaxCalls]
    BY <1>7 DEF Call, Shut
  <2>2. asked' \in [Clients -> SUBSET Jobs]
    <3>1. ASSUME Call(c) PROVE made[c] + 1 \in Jobs
      BY <3>1 DEF Call, Jobs, Calls
    <3>2. End \in Jobs /\ Abandon \in Jobs
      BY DEF Jobs
    <3> QED
      BY <1>7, <3>1, <3>2 DEF Call, Shut
  <2>3. shut' \in [Clients -> BOOLEAN] /\ UNCHANGED <<pc, job, broken, conn, tries>>
    BY <1>7 DEF Call, Shut
  <2>4. \A d \in Clients : d # c => UNCHANGED <<made[d], asked[d], shut[d]>>
    BY <1>7 DEF Call, Shut
  <2> QED
    BY <1>2, <1>7, <2>1, <2>2, <2>3, <2>4, AskingStays
<1>8. ASSUME NEW c \in Clients, NEW j \in Jobs, Take(c, j) PROVE ClientsOK'
  <2>1. asked' \in [Clients -> SUBSET Jobs] /\ broken' \in [Clients -> BOOLEAN]
    BY <1>8 DEF Take
  <2>2. \A d \in Clients : d # c => UNCHANGED <<pc[d], job[d], asked[d], broken[d]>>
    BY <1>8 DEF Take
  <2>3. UNCHANGED <<made, shut, conn, tries>>
    BY <1>8 DEF Take
  <2> QED
    BY <1>2, <1>8, <2>1, <2>2, <2>3, TakingStays
<1>9. ASSUME NEW c \in Clients,
             \/ Answered(c) \/ Lost(c) \/ Attempt(c) \/ Resumed(c) \/ Refused(c) \/ ResumeLost(c)
      PROVE  ClientsOK'
  <2>1. broken' \in [Clients -> BOOLEAN]
    <3>1. ASSUME Answered(c) PROVE broken' \in [Clients -> BOOLEAN]
      <4>1. broken'= [broken EXCEPT ![c] = @ \/ job[c] = End] /\ broken[c] \in BOOLEAN
        BY <3>1 DEF Answered
      <4>2. (broken[c] \/ job[c] = End) \in BOOLEAN
        OBVIOUS
      <4> QED
        BY <4>1, <4>2, Zenon
    <3> QED
      BY <1>9, <3>1 DEF Lost, Breaks, Attempt, Resumed, Refused, ResumeLost
  <2>2. tries' \in [Clients -> 0..MaxRetries]
    <3>1. ASSUME Refused(c) PROVE tries' \in [Clients -> 0..MaxRetries]
      BY <3>1 DEF Refused, RetryLeft
    <3>2. 0 \in 0..MaxRetries
      OBVIOUS
    <3> QED
      BY <1>9, <3>1, <3>2 DEF Answered, Lost, Attempt, Resumed, ResumeLost
  <2>3. conn' \in [Clients -> Nat]
    BY <1>9 DEF Answered, Lost, Attempt, Opens, Resumed, Refused, ResumeLost
  <2>4. UNCHANGED <<job, made, asked, shut>>
    BY <1>9 DEF Answered, Lost, Attempt, Resumed, Refused, ResumeLost
  <2>5. \A d \in Clients : d # c => UNCHANGED <<pc[d], broken[d], conn[d], tries[d]>>
    BY <1>9 DEF Answered, Lost, Breaks, Attempt, Opens, Resumed, Refused, ResumeLost, Released
  <2> QED
    BY <1>2, <1>9, <2>1, <2>2, <2>3, <2>4, <2>5, ReturningStays
<1>10. ASSUME NEW c \in Clients, NEW k \in Conns,
              TaskStep(c, k) \/ Return(c, k) \/ ReturnEnd(c, k) \/ ExpireContext(c, k)
       PROVE  UNCHANGED client
  BY <1>10 DEF TaskStep, ServeBegin, ServeResume, ServeCall, SeeEof, Detach, Return,
               ReturnEnd, ExpireContext
<1>11. ASSUME \/ \E c \in Clients : RivalBinds(c) \/ RivalEnds(c)
              \/ (\E r \in records : ExpireRecord(r)) \/ Crash \/ Restart
       PROVE  UNCHANGED client
  BY <1>11 DEF RivalBinds, RivalEnds, ExpireRecord, Crash, Restart
<1>12. UNCHANGED vars => UNCHANGED client
  BY DEF vars
<1> QED
  BY <1>1, <1>3, <1>5, <1>6, <1>7, <1>8, <1>9, <1>10, <1>11, <1>12 DEF Next, ClientStep

-----------------------------------------------------------------------------
(* A connection and its client.                                            *)

\* One connection becomes something else, field by field.
Becomes(c, k, line, answer, hungup, task, bound, context) ==
    /\ Shaped'
    /\ Fields(link'[c][k], line, answer, hungup, task, bound, context)
    /\ \A d \in Clients, i \in Conns : d # c \/ i # k => link'[d][i] = link[d][i]

\* A request that asks for a session, of which a connection carries one.
AsksToBind(r) == r # Nil /\ r.job \in {Begin, Resume}
Pending(c) == {k \in Conns : AsksToBind(link[c][k].line)}

\* A credential is minted by a connection, for its one request.
MintOK(c) == minted[c] \in Nat /\ minted[c] + Cardinality(Pending(c)) <= conn[c]

LinkOK(c) ==
    /\ \A k \in Conns : link[c][k] \in Links
    /\ \A k \in Conns : link[c][k].task = "busy" => link[c][k].line # Nil

\* What the thread that holds the mutex waits for.
Awaits(c) == IF pc[c] = "bind" THEN Begin ELSE IF pc[c] = "answer" THEN Resume ELSE job[c]

\* Between requests and for a call, the client knows what the daemon has bound.
Knows(c) == (pc[c] = "free" /\ ~broken[c]) \/ (pc[c] = "wait" /\ job[c] # End)

\* The connection in use carries the one request in hand or its answer, and nothing
\* between requests, unless it is given up.
InStep(c, l) ==
    /\ l.hungup = FALSE /\ l.task \in {"idle", "busy", "done"}
    /\ pc[c] \in {"bind", "wait", "answer"} =>
         /\ l.line = Nil \/ l.answer = Nil
         /\ l.line # Nil => l.line.job = Awaits(c)
         /\ l.answer # Nil => l.answer.to = Awaits(c)
    /\ pc[c] = "free" /\ ~broken[c] => l.line = Nil /\ l.answer = Nil
    /\ pc[c] \in {"bind", "answer"} /\ l.answer # Nil /\ l.answer.is = "ok" =>
         l.answer.credential # 0 /\ (l.task # "done" => l.bound = l.answer.credential)
    /\ Knows(c) /\ l.task # "done" => held[c] # 0 /\ l.bound = held[c]

CurrentOK(c) == pc[c] \notin {"new", "gone"} => InStep(c, Current(c))

ServiceOK(c) ==
    /\ LinkOK(c) /\ MintOK(c) /\ CurrentOK(c)
    /\ held[c] \in Credentials \cup {0}

RegistryOK == records \subseteq Clients \X Credentials /\ expired \subseteq records

HeldShape == DOMAIN held = Clients /\ held = [c \in Clients |-> held[c]]

ServiceInv ==
    /\ Inv /\ ClientsOK /\ RegistryOK
    /\ HeldShape
    /\ \A c \in Clients : ServiceOK(c)

-----------------------------------------------------------------------------
(* One connection.                                                         *)

\* A connection of the right fields is one.
LEMMA LinkType ==
    ASSUME NEW l, NEW a, NEW b, NEW d, NEW t, NEW n, NEW x, Fields(l, a, b, d, t, n, x)
    PROVE  l \in Links <=>
             /\ a \in Requests \cup {Nil} /\ b \in Answers \cup {Nil} /\ d \in BOOLEAN
             /\ t \in {"none", "idle", "busy", "closed", "done"}
             /\ n \in Credentials \cup {0} /\ x \in {"none", "live", "expired"}
BY DEF Fields, Shape, Links

\* The fields of a connection have their types.
LEMMA LinkFields ==
    ASSUME NEW l \in Links
    PROVE  /\ l.line \in Requests \cup {Nil} /\ l.answer \in Answers \cup {Nil}
           /\ l.hungup \in BOOLEAN
           /\ l.task \in {"none", "idle", "busy", "closed", "done"}
           /\ l.bound \in Credentials \cup {0} /\ l.context \in {"none", "live", "expired"}
BY DEF Links

\* Replacing one connection.
LEMMA Becoming ==
    ASSUME Shaped, NEW c \in Clients, NEW k \in Conns, NEW m,
           NEW a, NEW b, NEW d, NEW t, NEW n, NEW x, Fields(m, a, b, d, t, n, x),
           link' = [link EXCEPT ![c][k] = m]
    PROVE  Becomes(c, k, a, b, d, t, n, x)
<1>1. Shape(m)
  BY DEF Fields
<1>2. /\ Shaped' /\ link'[c][k] = m
      /\ \A e \in Clients, i \in Conns : e # c \/ i # k => link'[e][i] = link[e][i]
  BY <1>1 DEF Shaped
<1> QED
  BY <1>2 DEF Becomes

\* The requests for a session are few.
LEMMA PendingFinite ==
    ASSUME NEW c
    PROVE  IsFiniteSet(Pending(c)) /\ Cardinality(Pending(c)) \in Nat
<1>1. IsFiniteSet(Conns)
  BY FS_Interval, MaxConnsType DEF Conns
<1>2. Pending(c) \in SUBSET Conns
  BY DEF Pending
<1>3. IsFiniteSet(Pending(c))
  BY <1>1, <1>2, FS_Subset
<1> QED
  BY <1>3, FS_CardinalityType

LEMMA PendingShrinks ==
    ASSUME NEW c \in Clients, MintOK(c), Pending(c)' \subseteq Pending(c),
           minted'[c] = minted[c], conn'[c] = conn[c], conn[c] \in Nat
    PROVE  MintOK(c)'
<1>1. Cardinality(Pending(c)') <= Cardinality(Pending(c)) /\ Cardinality(Pending(c)') \in Nat
      /\ Cardinality(Pending(c)) \in Nat
  <2>1. IsFiniteSet(Pending(c)) /\ Cardinality(Pending(c)) \in Nat
    BY PendingFinite
  <2>2. Pending(c)' \in SUBSET Pending(c)
    OBVIOUS
  <2> DEFINE S == Pending(c)
             T == Pending(c)'
  <2> HIDE DEF S, T
  <2>3. IsFiniteSet(T) /\ Cardinality(T) <= Cardinality(S)
    BY <2>1, <2>2, FS_Subset DEF S, T
  <2>4. Cardinality(T) \in Nat
    BY <2>3, FS_CardinalityType
  <2> QED
    BY <2>1, <2>3, <2>4 DEF S, T
<1> DEFINE x == Cardinality(Pending(c))
           y == Cardinality(Pending(c)')
<1>2. minted[c] \in Nat /\ minted[c] + x <= conn[c]
  BY DEF MintOK
<1> HIDE DEF x, y
<1>3. minted'[c] \in Nat /\ minted'[c] + y <= conn'[c]
  BY <1>1, <1>2 DEF x, y
<1> QED
  BY <1>3 DEF MintOK, y

\* A connection that changes and asks for nothing new.
LEMMA OneKeeps ==
    ASSUME NEW c \in Clients, NEW k \in Conns, LinkOK(c), MintOK(c), conn[c] \in Nat,
           NEW a, NEW b, NEW d, NEW t, NEW n, NEW x, Becomes(c, k, a, b, d, t, n, x),
           a \in Requests \cup {Nil}, b \in Answers \cup {Nil}, d \in BOOLEAN,
           t \in {"none", "idle", "busy", "closed", "done"},
           n \in Credentials \cup {0}, x \in {"none", "live", "expired"},
           t = "busy" => a # Nil,
           AsksToBind(a) => a = link[c][k].line,
           minted'[c] = minted[c], conn'[c] = conn[c]
    PROVE  LinkOK(c)' /\ MintOK(c)'
<1>1. /\ Fields(link'[c][k], a, b, d, t, n, x)
      /\ \A i \in Conns : i # k => link'[c][i] = link[c][i]
  BY DEF Becomes
<1>2. link'[c][k] \in Links
  BY <1>1, LinkType
<1>3. link'[c][k].task = t /\ link'[c][k].line = a
  BY <1>1 DEF Fields
<1>4. LinkOK(c)'
  BY <1>1, <1>2, <1>3 DEF LinkOK
<1>5. Pending(c)' \subseteq Pending(c)
  BY <1>1, <1>3 DEF Pending
<1>6. MintOK(c)'
  BY <1>5, PendingShrinks
<1> QED
  BY <1>4, <1>6

\* A client and the connections of others have nothing to do with each other.
LEMMA OthersServe ==
    ASSUME NEW d \in Clients, ServiceOK(d), \A k \in Conns : link'[d][k] = link[d][k],
           conn[d] \in Nat, conn[d] <= MaxConns, pc[d] # "new" => conn[d] # 0,
           UNCHANGED <<pc[d], job[d], held[d], broken[d], conn[d], minted[d]>>
    PROVE  ServiceOK(d)'
<1>1. LinkOK(d)' /\ Pending(d)' = Pending(d)
  BY DEF ServiceOK, LinkOK, Pending
<1>2. MintOK(d)'
  BY <1>1 DEF ServiceOK, MintOK
<1>3. CurrentOK(d)'
  <2>1. SUFFICES ASSUME pc[d] \notin {"new", "gone"} PROVE InStep(d, Current(d))'
    BY DEF CurrentOK
  <2>2. conn[d] \in Conns
    BY <2>1, MaxConnsType DEF Conns
  <2>3. Current(d)' = Current(d)
    BY <2>2 DEF Current
  <2>4. InStep(d, Current(d))
    BY <2>1 DEF ServiceOK, CurrentOK
  <2> QED
    BY <2>3, <2>4 DEF InStep, Knows, Awaits
<1> QED
  BY <1>1, <1>2, <1>3 DEF ServiceOK

-----------------------------------------------------------------------------
(* The daemon serves one connection.                                       *)

\* What the invariant says of a connection that is served.
LEMMA Served ==
    ASSUME ServiceInv, NEW c \in Clients, NEW k \in Conns
    PROVE  /\ Shaped /\ Shape(link[c][k]) /\ LinkOK(c) /\ MintOK(c) /\ conn[c] \in Nat
           /\ link[c][k] \in Links
           /\ link[c][k].line \in Requests \cup {Nil} /\ link[c][k].answer \in Answers \cup {Nil}
           /\ link[c][k].hungup \in BOOLEAN
           /\ link[c][k].task \in {"none", "idle", "busy", "closed", "done"}
           /\ link[c][k].bound \in Credentials \cup {0}
           /\ link[c][k].context \in {"none", "live", "expired"}
           /\ k = conn[c] => pc[c] # "new"
           /\ k = conn[c] /\ pc[c] \notin {"new", "gone"} => InStep(c, link[c][k])
           /\ pc[c] \in {"wait", "resume", "answer"} => job[c] \in Calls \cup {End}
           /\ link[c][k].task = "busy" => link[c][k].line # Nil
           /\ HeldOK(c) /\ minted[c] \in Nat
<1>1. /\ Shaped /\ ServiceOK(c) /\ ClientOK(c) /\ SpendTypes /\ HeldOK(c) /\ minted[c] \in Nat
  BY DEF ServiceInv, Inv, ClientsOK, IdentityOK
<1>2. LinkOK(c) /\ MintOK(c) /\ CurrentOK(c) /\ conn[c] \in Nat /\ link[c][k] \in Links
  BY <1>1 DEF ServiceOK, SpendTypes, LinkOK
<1>3. k = conn[c] => pc[c] # "new"
  BY <1>1 DEF ClientOK, SpendOK, Conns
<1>4. k = conn[c] /\ pc[c] \notin {"new", "gone"} => InStep(c, link[c][k])
  BY <1>2 DEF CurrentOK, Current
<1>5. pc[c] \in {"wait", "resume", "answer"} => job[c] \in Calls \cup {End}
  BY <1>1 DEF ClientOK, AskedOK
<1>6. Shape(link[c][k]) /\ (link[c][k].task = "busy" => link[c][k].line # Nil)
  BY <1>1, <1>2 DEF Shaped, LinkOK
<1> QED
  BY <1>1, <1>2, <1>3, <1>4, <1>5, <1>6, LinkFields

\* A task changes a connection, and a client that uses it stays in step.
LEMMA TaskServes ==
    ASSUME ServiceInv, NEW c \in Clients, NEW k \in Conns, UNCHANGED client,
           NEW a, NEW b, NEW d, NEW t, NEW n, NEW x, Becomes(c, k, a, b, d, t, n, x),
           LinkOK(c)', MintOK(c)',
           k = conn[c] /\ pc[c] \notin {"new", "gone"} => InStep(c, link[c][k])'
    PROVE  ServiceOK(c)'
<1>1. CurrentOK(c)'
  <2>1. SUFFICES ASSUME pc[c] \notin {"new", "gone"} PROVE InStep(c, Current(c))'
    BY DEF CurrentOK, client
  <2>2. CASE k = conn[c]
    BY <2>1, <2>2 DEF Current, client
  <2>3. CASE k # conn[c]
    <3>1. conn[c] \in Conns
      BY <2>1, MaxConnsType DEF Conns, ServiceInv, ClientsOK, ClientOK, SpendOK, SpendTypes
    <3>2. Current(c)' = Current(c)
      BY <2>3, <3>1 DEF Current, Becomes, client
    <3>3. InStep(c, Current(c))
      BY <2>1 DEF ServiceInv, ServiceOK, CurrentOK
    <3> QED
      BY <3>2, <3>3 DEF InStep, Knows, Awaits, client
  <2> QED
    BY <2>2, <2>3
<1> QED
  BY <1>1 DEF ServiceInv, ServiceOK, client

\* A request is answered that binds no session.
LEMMA ReplyServes ==
    ASSUME ServiceInv, NEW c \in Clients, NEW k \in Conns, UNCHANGED <<client, minted>>,
           NEW is \in {"ok", "error", "unavailable"},
           link[c][k].task \in {"idle", "busy"}, link[c][k].line # Nil,
           is = "ok" => ~AsksToBind(link[c][k].line),
           link' = [link EXCEPT ![c][k] = Reply(link[c][k], link[c][k].line.job, is, 0)]
    PROVE  ServiceOK(c)'
<1> DEFINE l == link[c][k]
           to == l.line.job
           b == IF l.hungup THEN Nil ELSE [to |-> to, is |-> is, credential |-> 0]
<1>1. /\ Shaped /\ Shape(l) /\ LinkOK(c) /\ MintOK(c) /\ conn[c] \in Nat
      /\ l.line \in Requests \cup {Nil} /\ l.hungup \in BOOLEAN
      /\ l.bound \in Credentials \cup {0} /\ l.context \in {"none", "live", "expired"}
  BY Served
<1>2. to \in Calls \cup {Begin, End, Resume}
  BY <1>1 DEF Requests
<1>3. b \in Answers \cup {Nil} /\ (~l.hungup => b.to = to /\ b.is = is)
  BY <1>2 DEF Answers
<1>4. Becomes(c, k, Nil, b, l.hungup, "idle", l.bound, l.context)
  <2>1. Fields(Reply(l, to, is, 0), Nil, b, l.hungup, "idle", l.bound, l.context)
    BY <1>1, ReplyFields
  <2> HIDE DEF b
  <2> QED
    BY <1>1, <2>1, Becoming
<1> HIDE DEF b
<1>5. LinkOK(c)' /\ MintOK(c)'
  BY <1>1, <1>3, <1>4, OneKeeps DEF AsksToBind, client
<1>6. ASSUME k = conn[c], pc[c] \notin {"new", "gone"} PROVE InStep(c, link[c][k])'
  <2>1. InStep(c, l) /\ (pc[c] \in {"wait", "resume", "answer"} => job[c] \in Calls \cup {End})
    BY <1>6, Served
  <2>2. /\ link'[c][k].line = Nil /\ link'[c][k].answer = b /\ link'[c][k].hungup = l.hungup
        /\ link'[c][k].task = "idle" /\ link'[c][k].bound = l.bound
    BY <1>4 DEF Becomes, Fields
  <2>3. l.hungup = FALSE /\ b.to = to /\ b.is = is
    BY <1>3, <2>1 DEF InStep
  <2>4. pc[c] \in {"bind", "wait", "answer"} => to = Awaits(c)
    BY <2>1 DEF InStep
  <2>5. ~(pc[c] = "free" /\ ~broken[c])
    BY <2>1 DEF InStep
  <2>6. pc[c] \in {"bind", "answer"} => is # "ok"
    BY <2>4 DEF Awaits, AsksToBind
  <2>7. Knows(c) => held[c] # 0 /\ l.bound = held[c]
    <3>1. l.task # "done"
      OBVIOUS
    <3> QED
      BY <2>1, <3>1 DEF InStep
  <2> QED
    BY <2>2, <2>3, <2>4, <2>5, <2>6, <2>7 DEF InStep, Knows, Awaits, client
<1> QED
  BY <1>4, <1>5, <1>6, TaskServes

\* A request is answered that binds the session, under the next credential.
LEMMA BindServes ==
    ASSUME ServiceInv, NEW c \in Clients, NEW k \in Conns, UNCHANGED client,
           NEW j \in {Begin, Resume}, Serves(c, k, j), Binds(c, k, j)
    PROVE  ServiceOK(c)' /\ minted[c] + 1 \in Credentials
<1> DEFINE l == link[c][k]
           n == minted[c] + 1
           b == IF l.hungup THEN Nil ELSE [to |-> j, is |-> "ok", credential |-> n]
           m == [Reply(l, j, "ok", n) EXCEPT !.bound = n, !.context = "live"]
<1>1. /\ Shaped /\ Shape(l) /\ LinkOK(c) /\ MintOK(c) /\ conn[c] \in Nat /\ minted[c] \in Nat
      /\ l.hungup \in BOOLEAN /\ l.context \in {"none", "live", "expired"}
  BY Served
<1>2. l.task = "idle" /\ l.line # Nil /\ l.line.job = j
  BY DEF Serves
<1>3. minted'[c] = n /\ n # 0 /\ n \in Nat
  BY <1>1 DEF Binds, ServiceInv, Inv
<1>4. Becomes(c, k, Nil, b, l.hungup, "idle", n, "live")
  <2>1. Fields(Reply(l, j, "ok", n), Nil, b, l.hungup, "idle", l.bound, l.context)
    BY <1>1, ReplyFields
  <2>2. PICK r : r = Reply(l, j, "ok", n)
    OBVIOUS
  <2> HIDE DEF b, n
  <2>3. Shape(r) /\ r.line = Nil /\ r.answer = b /\ r.hungup = l.hungup /\ r.task = "idle"
    BY <2>1, <2>2 DEF Fields
  <2>4. Fields([r EXCEPT !.bound = n, !.context = "live"], Nil, b, l.hungup, "idle", n, "live")
    BY <2>3, BindFields
  <2>5. link' = [link EXCEPT ![c][k] = [r EXCEPT !.bound = n, !.context = "live"]]
    BY <2>2 DEF Binds, n
  <2> QED
    BY <1>1, <2>4, <2>5, Becoming
<1>5. /\ link'[c][k].line = Nil /\ link'[c][k].answer = b /\ link'[c][k].hungup = l.hungup
      /\ link'[c][k].task = "idle" /\ link'[c][k].bound = n
      /\ \A i \in Conns : i # k => link'[c][i] = link[c][i]
  BY <1>4 DEF Becomes, Fields
<1>6. Pending(c)' = Pending(c) \ {k} /\ k \in Pending(c)
  BY <1>2, <1>5 DEF Pending, AsksToBind
<1>7. Cardinality(Pending(c)') + 1 = Cardinality(Pending(c)) /\ Cardinality(Pending(c)') \in Nat
  <2>1. IsFiniteSet(Pending(c)) /\ Cardinality(Pending(c)) \in Nat
    BY PendingFinite
  <2> DEFINE S == Pending(c)
  <2> HIDE DEF S
  <2>2. Cardinality(S \ {k}) = Cardinality(S) - 1 /\ IsFiniteSet(S \ {k})
    BY <1>6, <2>1, FS_RemoveElement DEF S
  <2>3. Cardinality(S \ {k}) \in Nat
    BY <2>2, FS_CardinalityType
  <2>4. Pending(c)' = S \ {k}
    BY <1>6 DEF S
  <2> QED
    BY <2>1, <2>2, <2>3, <2>4 DEF S
<1>8. MintOK(c)' /\ n <= conn[c]
  <2> DEFINE x == Cardinality(Pending(c))
             y == Cardinality(Pending(c)')
  <2>1. minted[c] + x <= conn[c] /\ conn'[c] = conn[c]
    BY <1>1 DEF MintOK, client
  <2> HIDE DEF x, y
  <2>2. minted'[c] + y <= conn'[c] /\ n <= conn[c]
    BY <1>1, <1>3, <1>7, <2>1 DEF x, y
  <2> QED
    BY <1>3, <2>2 DEF MintOK, y
<1>9. n \in Credentials
  <2>1. conn[c] <= MaxConns
    BY DEF ServiceInv, ClientsOK, ClientOK, SpendOK
  <2> HIDE DEF n
  <2> QED
    BY <1>1, <1>3, <1>8, <2>1, MaxConnsType DEF Credentials
<1>10. b \in Answers \cup {Nil}
       /\ (~l.hungup => b.to = j /\ b.is = "ok" /\ b.credential = n)
  BY <1>9 DEF Answers
<1>11. LinkOK(c)'
  <2> HIDE DEF b, n
  <2>1. link'[c][k] \in Links
    BY <1>1, <1>4, <1>9, <1>10, LinkType DEF Becomes
  <2> QED
    BY <1>1, <1>5, <2>1 DEF LinkOK
<1> HIDE DEF b, n
<1>12. ASSUME k = conn[c], pc[c] \notin {"new", "gone"} PROVE InStep(c, link[c][k])'
  <2>1. InStep(c, l) /\ (pc[c] \in {"wait", "resume", "answer"} => job[c] \in Calls \cup {End})
    BY <1>12, Served
  <2>2. l.hungup = FALSE /\ b.to = j /\ b.is = "ok" /\ b.credential = n
    BY <1>10, <2>1 DEF InStep
  <2>3. pc[c] \in {"bind", "wait", "answer"} => j = Awaits(c)
    BY <1>2, <2>1 DEF InStep
  <2>4. pc[c] # "wait"
    BY <2>1, <2>3, JobsDiffer DEF Awaits
  <2>5. ~(pc[c] = "free" /\ ~broken[c])
    BY <1>2, <2>1 DEF InStep
  <2>6. ~Knows(c)
    BY <2>4, <2>5 DEF Knows
  <2> QED
    BY <1>3, <1>5, <2>2, <2>3, <2>4, <2>5, <2>6 DEF InStep, Knows, Awaits, client
<1> QED
  BY <1>4, <1>8, <1>9, <1>11, <1>12, TaskServes DEF n

\* The tool of a call is run,
LEMMA BusyServes ==
    ASSUME ServiceInv, NEW c \in Clients, NEW k \in Conns, UNCHANGED <<client, minted>>,
           link[c][k].task = "idle", link[c][k].line # Nil,
           link' = [link EXCEPT ![c][k] = [link[c][k] EXCEPT !.task = "busy"]]
    PROVE  ServiceOK(c)'
<1> DEFINE l == link[c][k]
<1>1. /\ Shaped /\ Shape(l) /\ LinkOK(c) /\ MintOK(c) /\ conn[c] \in Nat
      /\ l.line \in Requests \cup {Nil} /\ l.answer \in Answers \cup {Nil} /\ l.hungup \in BOOLEAN
      /\ l.bound \in Credentials \cup {0} /\ l.context \in {"none", "live", "expired"}
  BY Served
<1>2. Becomes(c, k, l.line, l.answer, l.hungup, "busy", l.bound, l.context)
  <2>1. Fields([l EXCEPT !.task = "busy"], l.line, l.answer, l.hungup, "busy", l.bound, l.context)
    BY <1>1, OwnFields, FieldsExcept
  <2> QED
    BY <1>1, <2>1, Becoming
<1>3. LinkOK(c)' /\ MintOK(c)'
  BY <1>1, <1>2, OneKeeps DEF client
<1>4. ASSUME k = conn[c], pc[c] \notin {"new", "gone"} PROVE InStep(c, link[c][k])'
  <2>1. InStep(c, l)
    BY <1>4, Served
  <2>2. /\ link'[c][k].line = l.line /\ link'[c][k].answer = l.answer
        /\ link'[c][k].hungup = l.hungup /\ link'[c][k].task = "busy"
        /\ link'[c][k].bound = l.bound
    BY <1>2 DEF Becomes, Fields
  <2> QED
    BY <2>1, <2>2 DEF InStep, Knows, Awaits, client
<1> QED
  BY <1>2, <1>3, <1>4, TaskServes

\* a context expires,
LEMMA ExpiryServes ==
    ASSUME ServiceInv, NEW c \in Clients, NEW k \in Conns, ExpireContext(c, k)
    PROVE  ServiceOK(c)'
<1> DEFINE l == link[c][k]
<1>1. /\ Shaped /\ Shape(l) /\ LinkOK(c) /\ MintOK(c) /\ conn[c] \in Nat
      /\ l.line \in Requests \cup {Nil} /\ l.answer \in Answers \cup {Nil} /\ l.hungup \in BOOLEAN
      /\ l.task \in {"none", "idle", "busy", "closed", "done"}
      /\ l.bound \in Credentials \cup {0} /\ (l.task = "busy" => l.line # Nil)
  BY Served
<1>2. UNCHANGED <<client, minted>>
      /\ link' = [link EXCEPT ![c][k] = [l EXCEPT !.context = "expired"]]
  BY DEF ExpireContext, registry
<1>3. Becomes(c, k, l.line, l.answer, l.hungup, l.task, l.bound, "expired")
  <2>1. Fields([l EXCEPT !.context = "expired"], l.line, l.answer, l.hungup, l.task, l.bound, "expired")
    BY <1>1, OwnFields, FieldsExcept
  <2> QED
    BY <1>1, <1>2, <2>1, Becoming
<1>4. LinkOK(c)' /\ MintOK(c)'
  BY <1>1, <1>2, <1>3, OneKeeps DEF client
<1>5. ASSUME k = conn[c], pc[c] \notin {"new", "gone"} PROVE InStep(c, link[c][k])'
  <2>1. InStep(c, l)
    BY <1>5, Served
  <2>2. /\ link'[c][k].line = l.line /\ link'[c][k].answer = l.answer
        /\ link'[c][k].hungup = l.hungup /\ link'[c][k].task = l.task
        /\ link'[c][k].bound = l.bound
    BY <1>3 DEF Becomes, Fields
  <2> QED
    BY <1>2, <2>1, <2>2 DEF InStep, Knows, Awaits, client
<1> QED
  BY <1>2, <1>3, <1>4, <1>5, TaskServes

\* the session of a connection is ended,
LEMMA EndServes ==
    ASSUME ServiceInv, NEW c \in Clients, NEW k \in Conns, ReturnEnd(c, k)
    PROVE  ServiceOK(c)'
<1> DEFINE l == link[c][k]
           b == IF l.hungup THEN Nil ELSE [to |-> End, is |-> "ok", credential |-> 0]
<1>1. /\ Shaped /\ Shape(l) /\ LinkOK(c) /\ MintOK(c) /\ conn[c] \in Nat
      /\ l.hungup \in BOOLEAN /\ l.line # Nil /\ l.line.job = End /\ l.task = "busy"
      /\ UNCHANGED <<client, minted>>
  BY Served DEF ReturnEnd
<1>2. CASE link' = [link EXCEPT ![c][k] = Reply(l, End, "error", 0)]
  BY <1>1, <1>2, ReplyServes
<1>3. CASE link' = [link EXCEPT ![c][k] = Unbound(Reply(l, End, "ok", 0))]
  <2>1. Becomes(c, k, Nil, b, l.hungup, "idle", 0, "none")
    <3>1. Fields(Reply(l, End, "ok", 0), Nil, b, l.hungup, "idle", l.bound, l.context)
      BY <1>1, ReplyFields
    <3>2. PICK r : r = Reply(l, End, "ok", 0)
      OBVIOUS
    <3> HIDE DEF b
    <3>3. Shape(r) /\ r.line = Nil /\ r.answer = b /\ r.hungup = l.hungup /\ r.task = "idle"
      BY <3>1, <3>2 DEF Fields
    <3>4. Fields(Unbound(r), Nil, b, l.hungup, "idle", 0, "none")
      BY <3>3, UnboundFields
    <3> QED
      BY <1>1, <1>3, <3>2, <3>4, Becoming
  <2>2. b \in Answers \cup {Nil} /\ (~l.hungup => b.to = End)
    BY DEF Answers
  <2> HIDE DEF b
  <2>3. LinkOK(c)' /\ MintOK(c)'
    BY <1>1, <2>1, <2>2, OneKeeps DEF AsksToBind, client
  <2>4. ASSUME k = conn[c], pc[c] \notin {"new", "gone"} PROVE InStep(c, link[c][k])'
    <3>1. InStep(c, l)
      BY <2>4, Served
    <3>2. /\ link'[c][k].line = Nil /\ link'[c][k].answer = b /\ link'[c][k].hungup = l.hungup
          /\ link'[c][k].task = "idle" /\ link'[c][k].bound = 0
      BY <2>1 DEF Becomes, Fields
    <3>3. l.hungup = FALSE /\ b.to = End
      BY <2>2, <3>1 DEF InStep
    <3>4. pc[c] \in {"bind", "wait", "answer"} => End = Awaits(c)
      BY <1>1, <3>1 DEF InStep
    <3>5. pc[c] \notin {"bind", "answer"} /\ ~Knows(c) /\ ~(pc[c] = "free" /\ ~broken[c])
      BY <1>1, <3>1, <3>4, JobsDiffer DEF InStep, Awaits, Knows
    <3> QED
      BY <1>1, <3>2, <3>3, <3>4, <3>5 DEF InStep, Knows, Awaits, client
  <2> QED
    BY <1>1, <2>1, <2>3, <2>4, TaskServes
<1> QED
  BY <1>2, <1>3 DEF ReturnEnd

\* a connection that has been left is closed, and detached.
LEMMA LeftServes ==
    ASSUME ServiceInv, NEW c \in Clients, NEW k \in Conns, SeeEof(c, k) \/ Detach(c, k)
    PROVE  ServiceOK(c)'
<1> DEFINE l == link[c][k]
<1>1. /\ Shaped /\ Shape(l) /\ LinkOK(c) /\ MintOK(c) /\ conn[c] \in Nat
      /\ l.line \in Requests \cup {Nil} /\ l.answer \in Answers \cup {Nil} /\ l.hungup \in BOOLEAN
      /\ l.bound \in Credentials \cup {0} /\ l.context \in {"none", "live", "expired"}
  BY Served
<1>2. UNCHANGED <<client, minted>> /\ (l.hungup \/ l.task = "closed")
  BY DEF SeeEof, Detach, registry
<1>3. PICK t \in {"closed", "done"}, n \in {l.bound, 0}, x \in {l.context, "none"} :
            Becomes(c, k, l.line, l.answer, l.hungup, t, n, x)
  <2>1. ASSUME SeeEof(c, k), l.bound # 0
        PROVE  Becomes(c, k, l.line, l.answer, l.hungup, "closed", l.bound, "none")
    <3>1. Fields(Closes(l), l.line, l.answer, l.hungup, "closed", l.bound, "none")
      BY <1>1, ClosesFields
    <3>2. link' = [link EXCEPT ![c][k] = Closes(l)]
      BY <2>1 DEF SeeEof
    <3> QED
      BY <1>1, <3>1, <3>2, Becoming
  <2>2. ASSUME SeeEof(c, k), l.bound = 0
        PROVE  Becomes(c, k, l.line, l.answer, l.hungup, "done", l.bound, l.context)
    <3>1. Fields([l EXCEPT !.task = "done"], l.line, l.answer, l.hungup, "done", l.bound, l.context)
      BY <1>1, OwnFields, FieldsExcept
    <3>2. link' = [link EXCEPT ![c][k] = [l EXCEPT !.task = "done"]]
      BY <2>2 DEF SeeEof
    <3> QED
      BY <1>1, <3>1, <3>2, Becoming
  <2>3. ASSUME Detach(c, k)
        PROVE  Becomes(c, k, l.line, l.answer, l.hungup, "done", 0, l.context)
    <3>1. Fields([l EXCEPT !.task = "done", !.bound = 0],
                 l.line, l.answer, l.hungup, "done", 0, l.context)
      BY <1>1, DetachFields
    <3>2. link' = [link EXCEPT ![c][k] = [l EXCEPT !.task = "done", !.bound = 0]]
      BY <2>3 DEF Detach
    <3> QED
      BY <1>1, <3>1, <3>2, Becoming
  <2> QED
    BY <2>1, <2>2, <2>3
<1>4. LinkOK(c)' /\ MintOK(c)'
  BY <1>1, <1>2, <1>3, OneKeeps DEF client
<1>5. ~(k = conn[c] /\ pc[c] \notin {"new", "gone"})
  BY <1>2, Served DEF InStep
<1> QED
  BY <1>2, <1>3, <1>4, <1>5, TaskServes

\* Whatever a task does, the client it serves is still served.
LEMMA TasksServe ==
    ASSUME ServiceInv, NEW c \in Clients, NEW k \in Conns,
           TaskStep(c, k) \/ Return(c, k) \/ ReturnEnd(c, k) \/ ExpireContext(c, k)
    PROVE  ServiceOK(c)' /\ RegistryOK'
<1> DEFINE l == link[c][k]
<1>0. RegistryOK
  BY DEF ServiceInv
<1>1. ASSUME ServeBegin(c, k) PROVE ServiceOK(c)'
  <2>1. Serves(c, k, Begin) /\ UNCHANGED client
    BY <1>1 DEF ServeBegin
  <2>2. CASE Binds(c, k, Begin)
    BY <2>1, <2>2, BindServes
  <2>3. CASE Fails(c, k, Begin, "error")
    BY <2>1, <2>3, ReplyServes DEF Serves, Fails
  <2> QED
    BY <1>1, <2>2, <2>3 DEF ServeBegin
<1>2. ASSUME ServeResume(c, k) PROVE ServiceOK(c)'
  <2>1. Serves(c, k, Resume) /\ UNCHANGED client
    BY <1>2 DEF ServeResume
  <2>2. CASE Binds(c, k, Resume)
    BY <2>1, <2>2, BindServes
  <2>3. ASSUME NEW is \in {"error", "unavailable"}, Fails(c, k, Resume, is) PROVE ServiceOK(c)'
    BY <2>1, <2>3, ReplyServes DEF Serves, Fails
  <2> QED
    BY <1>2, <2>2, <2>3 DEF ServeResume
<1>3. ASSUME ServeCall(c, k) PROVE ServiceOK(c)'
  <2>1. PICK j \in Calls \cup {End} :
            /\ Serves(c, k, j)
            /\ link' = [link EXCEPT ![c][k] =
                        IF l.bound # 0 THEN [l EXCEPT !.task = "busy"]
                        ELSE Reply(l, j, IF j = End THEN "ok" ELSE "error", 0)]
    BY <1>3 DEF ServeCall
  <2>2. UNCHANGED <<client, minted>>
    BY <1>3 DEF ServeCall, registry
  <2>3. l.task = "idle" /\ l.line # Nil /\ l.line.job = j /\ ~AsksToBind(l.line)
    BY <2>1, JobsDiffer DEF Serves, AsksToBind
  <2>4. CASE l.bound # 0
    BY <2>1, <2>2, <2>3, <2>4, BusyServes
  <2>5. CASE ~(l.bound # 0)
    <3>1. PICK is \in {"ok", "error"} : is = IF j = End THEN "ok" ELSE "error"
      OBVIOUS
    <3>2. link' = [link EXCEPT ![c][k] = Reply(l, l.line.job, is, 0)]
      BY <2>1, <2>3, <2>5, <3>1
    <3> QED
      BY <2>2, <2>3, <3>2, ReplyServes
  <2> QED
    BY <2>4, <2>5
<1>4. ASSUME Return(c, k) PROVE ServiceOK(c)'
  <2>1. PICK is \in {"ok", "error"} : is = IF l.context = "live" THEN "ok" ELSE "error"
    OBVIOUS
  <2>2. link' = [link EXCEPT ![c][k] = Reply(l, l.line.job, is, 0)] /\ UNCHANGED <<client, minted>>
        /\ l.task = "busy" /\ l.line.job \in Calls
    BY <1>4, <2>1 DEF Return, registry
  <2>3. l.line # Nil /\ ~AsksToBind(l.line)
    BY <2>2, Served, JobsDiffer DEF AsksToBind
  <2> QED
    BY <2>2, <2>3, ReplyServes
<1>5. ASSUME ReturnEnd(c, k) \/ ExpireContext(c, k) PROVE ServiceOK(c)'
  BY <1>5, EndServes, ExpiryServes
<1>6. ASSUME SeeEof(c, k) \/ Detach(c, k) PROVE ServiceOK(c)'
  BY <1>6, LeftServes
<1>7. ServiceOK(c)'
  BY <1>1, <1>2, <1>3, <1>4, <1>5, <1>6 DEF TaskStep
<1>8. ASSUME ~Detach(c, k) PROVE RegistryOK'
  <2>1. CASE ServeResume(c, k)
    BY <1>0, <2>1 DEF ServeResume, Left, RegistryOK
  <2>2. CASE ~ServeResume(c, k)
    <3>1. UNCHANGED <<records, expired>>
      BY <1>8, <2>2 DEF TaskStep, ServeBegin, ServeCall, SeeEof, Return, ReturnEnd, ExpireContext,
                   registry
    <3> QED
      BY <1>0, <3>1 DEF RegistryOK
  <2> QED
    BY <2>1, <2>2
<1>9. ASSUME Detach(c, k) PROVE RegistryOK'
  <2>1. l.bound # 0 /\ l.bound \in Credentials
    BY <1>9, Served DEF Detach, HeldOK
  <2>2. <<c, l.bound>> \in Clients \X Credentials
    BY <2>1
  <2> QED
    BY <1>0, <1>9, <2>2 DEF Detach, RegistryOK
<1> QED
  BY <1>7, <1>8, <1>9

\* The daemon goes down: what its clients read was written before.
LEMMA CrashServes ==
    ASSUME ServiceInv, Crash, NEW c \in Clients
    PROVE  ServiceOK(c)'
<1>1. UNCHANGED <<client, minted>>
  BY DEF Crash
<1>2. ASSUME NEW k \in Conns
      PROVE  \/ link'[c][k] = link[c][k]
             \/ /\ Fields(link'[c][k], Nil, link[c][k].answer, link[c][k].hungup, "done", 0, "none")
                /\ link[c][k].task # "none"
  <2>1. Shape(link[c][k])
    BY Served
  <2>2. link'[c][k] = IF link[c][k].task = "none" THEN link[c][k]
                      ELSE [link[c][k] EXCEPT !.task = "done", !.line = Nil,
                                              !.bound = 0, !.context = "none"]
    BY DEF Crash
  <2> QED
    BY <2>1, <2>2, CrashFields
<1>3. LinkOK(c) /\ MintOK(c) /\ SpendTypes
  BY DEF ServiceInv, ServiceOK, ClientsOK
<1>4. LinkOK(c)'
  <2>1. ASSUME NEW k \in Conns
        PROVE  link'[c][k] \in Links /\ (link'[c][k].task = "busy" => link'[c][k].line # Nil)
    <3>1. CASE link'[c][k] = link[c][k]
      BY <1>3, <3>1 DEF LinkOK
    <3>2. CASE Fields(link'[c][k], Nil, link[c][k].answer, link[c][k].hungup, "done", 0, "none")
      <4>1. link[c][k].answer \in Answers \cup {Nil} /\ link[c][k].hungup \in BOOLEAN
        BY Served
      <4>2. link'[c][k] \in Links
        BY <3>2, <4>1, LinkType
      <4>3. link'[c][k].task = "done"
        BY <3>2 DEF Fields
      <4> QED
        BY <4>2, <4>3
    <3> QED
      BY <1>2, <3>1, <3>2
  <2> QED
    BY <2>1 DEF LinkOK
<1>5. MintOK(c)'
  <2>1. Pending(c)' \subseteq Pending(c)
    BY <1>2 DEF Pending, AsksToBind, Fields
  <2>2. minted'[c] = minted[c] /\ conn'[c] = conn[c] /\ conn[c] \in Nat
    BY <1>1, <1>3 DEF client, SpendTypes
  <2> QED
    BY <1>3, <2>1, <2>2, PendingShrinks
<1>6. CurrentOK(c)'
  <2>1. SUFFICES ASSUME pc[c] \notin {"new", "gone"} PROVE InStep(c, Current(c))'
    BY <1>1 DEF CurrentOK, client
  <2>2. conn[c] \in Conns
    BY <2>1, MaxConnsType DEF Conns, ServiceInv, ClientsOK, ClientOK, SpendOK, SpendTypes
  <2>3. PICK k \in Conns : k = conn[c]
    BY <2>2
  <2>4. InStep(c, link[c][k]) /\ Current(c)' = link'[c][k]
    BY <1>1, <2>1, <2>3, Served DEF Current, client
  <2>5. CASE link'[c][k] = link[c][k]
    BY <1>1, <2>4, <2>5 DEF InStep, Knows, Awaits, client
  <2>6. CASE Fields(link'[c][k], Nil, link[c][k].answer, link[c][k].hungup, "done", 0, "none")
    <3>1. /\ link'[c][k].line = Nil /\ link'[c][k].answer = link[c][k].answer
          /\ link'[c][k].hungup = link[c][k].hungup /\ link'[c][k].task = "done"
      BY <2>6 DEF Fields
    <3> QED
      BY <1>1, <2>4, <3>1 DEF InStep, Knows, Awaits, client
  <2> QED
    BY <1>2, <2>5, <2>6
<1> QED
  BY <1>1, <1>4, <1>5, <1>6 DEF ServiceInv, ServiceOK, client

-----------------------------------------------------------------------------
(* The client and its connection in use.                                   *)

\* The connection in use is one of those there are.
LEMMA InUse ==
    ASSUME ServiceInv, NEW c \in Clients, pc[c] # "new"
    PROVE  conn[c] \in Conns /\ Current(c) = link[c][conn[c]]
<1>1. conn[c] \in Nat /\ conn[c] # 0 /\ conn[c] <= MaxConns
  BY DEF ServiceInv, ClientsOK, SpendTypes, ClientOK, SpendOK
<1> QED
  BY <1>1, MaxConnsType DEF Conns, Current

\* A client does something to its connection in use, and stays in step with it.
LEMMA UseServes ==
    ASSUME ServiceInv, NEW c \in Clients, pc[c] # "new", UNCHANGED <<conn, minted>>,
           held'[c] \in Credentials \cup {0},
           NEW a, NEW b, NEW d,
           LET l == Current(c) IN Becomes(c, conn[c], a, b, d, l.task, l.bound, l.context),
           a \in Requests \cup {Nil}, b \in Answers \cup {Nil}, d \in BOOLEAN,
           Current(c).task = "busy" => a # Nil,
           AsksToBind(a) => a = Current(c).line,
           pc'[c] \notin {"new", "gone"} => InStep(c, link[c][conn[c]])'
    PROVE  ServiceOK(c)'
<1>1. PICK k \in Conns : k = conn[c]
  BY InUse
<1> DEFINE l == link[c][k]
<1>2. l = Current(c)
  BY <1>1 DEF Current
<1>3. Becomes(c, k, a, b, d, l.task, l.bound, l.context)
  BY <1>1, <1>2
<1>4. /\ LinkOK(c) /\ MintOK(c) /\ conn[c] \in Nat
      /\ l.task \in {"none", "idle", "busy", "closed", "done"}
      /\ l.bound \in Credentials \cup {0} /\ l.context \in {"none", "live", "expired"}
  BY Served
<1>5. LinkOK(c)' /\ MintOK(c)'
  BY <1>2, <1>3, <1>4, OneKeeps
<1>6. CurrentOK(c)'
  BY DEF CurrentOK, Current
<1> QED
  BY <1>5, <1>6 DEF ServiceOK

\* A client leaves its connection.
LEMMA LeavingServes ==
    ASSUME ServiceInv, NEW c \in Clients, pc[c] # "new", Leaves(c),
           UNCHANGED <<held, conn, minted>>
    PROVE  ServiceOK(c)'
<1>1. PICK k \in Conns : k = conn[c] /\ Current(c) = link[c][k]
  BY InUse
<1> DEFINE l == link[c][k]
<1>2. Shaped /\ Shape(l) /\ l.line \in Requests \cup {Nil} /\ (l.task = "busy" => l.line # Nil)
  BY Served
<1>3. Becomes(c, k, l.line, Nil, TRUE, l.task, l.bound, l.context)
  <2>1. Fields(HangsUp(l), l.line, Nil, TRUE, l.task, l.bound, l.context)
    BY <1>2, HangsUpFields
  <2>2. link' = [link EXCEPT ![c][k] = HangsUp(l)]
    BY <1>1 DEF Leaves
  <2> QED
    BY <1>2, <2>1, <2>2, Becoming
<1>4. pc'[c] = "gone" /\ held'[c] \in Credentials \cup {0}
  BY DEF Leaves, ServiceInv, ServiceOK, Inv, ControlOK
<1> QED
  BY <1>1, <1>2, <1>3, <1>4, UseServes

\* It reads an answer,
LEMMA ReadsOne ==
    ASSUME ServiceInv, NEW c \in Clients, NEW k \in Conns,
           link' = [link EXCEPT ![c][k] = [link[c][k] EXCEPT !.answer = Nil]]
    PROVE  LET l == link[c][k] IN Becomes(c, k, l.line, Nil, l.hungup, l.task, l.bound, l.context)
<1> DEFINE l == link[c][k]
<1>1. Shaped /\ Shape(l)
  BY Served
<1>2. Fields([l EXCEPT !.answer = Nil], l.line, Nil, l.hungup, l.task, l.bound, l.context)
  BY <1>1, OwnFields, FieldsExcept
<1> QED
  BY <1>1, <1>2, Becoming

\* and writes a request, if there is anybody to read it.
LEMMA WritesOne ==
    ASSUME ServiceInv, NEW c \in Clients, NEW k \in Conns, NEW m, NEW b, NEW r,
           LET l == link[c][k] IN Fields(m, l.line, b, l.hungup, l.task, l.bound, l.context),
           link' = [link EXCEPT ![c][k] = Written(m, r)]
    PROVE  LET l == link[c][k] IN
             Becomes(c, k, IF l.task = "done" THEN l.line ELSE r, b, l.hungup, l.task, l.bound, l.context)
<1> DEFINE l == link[c][k]
<1>1. Shaped /\ Fields(m, l.line, b, l.hungup, l.task, l.bound, l.context)
  BY Served
<1>2. Fields([m EXCEPT !.line = r], r, b, l.hungup, l.task, l.bound, l.context)
  BY <1>1, FieldsExcept
<1>3. Fields(Written(m, r), IF l.task = "done" THEN l.line ELSE r, b, l.hungup, l.task, l.bound, l.context)
  <2>1. m.task = l.task
    BY <1>1 DEF Fields
  <2> QED
    BY <1>1, <1>2, <2>1 DEF Written
<1> QED
  BY <1>1, <1>3, Becoming

\* The answer to the binding.
LEMMA BoundServes ==
    ASSUME ServiceInv, NEW c \in Clients, Bound(c)
    PROVE  ServiceOK(c)'
<1>1. PICK k \in Conns : k = conn[c] /\ Current(c) = link[c][k]
  BY InUse DEF Bound
<1> DEFINE l == link[c][k]
<1>2. /\ pc[c] = "bind" /\ l.answer # Nil /\ UNCHANGED <<job, broken, conn, minted>>
      /\ pc \in [Clients -> {"new", "bind", "free", "wait", "resume", "answer", "gone"}]
      /\ held \in [Clients -> Credentials \cup {0}] /\ ~broken[c]
  <2>1. held \in [Clients -> Credentials \cup {0}]
    BY DEF ServiceInv, ServiceOK, HeldShape
  <2>2. ~broken[c]
    BY DEF ServiceInv, ClientsOK, ClientOK, BrokenOK, Bound
  <2> QED
    BY <1>1, <2>1, <2>2 DEF Bound, ServiceInv, Inv, ControlOK, registry
<1>3. CASE l.answer.is = "ok"
  <2>1. /\ held' = [held EXCEPT ![c] = l.answer.credential] /\ pc' = [pc EXCEPT ![c] = "free"]
        /\ link' = [link EXCEPT ![c][k] = [l EXCEPT !.answer = Nil]]
    BY <1>1, <1>3 DEF Bound, Released
  <2>2. Becomes(c, k, l.line, Nil, l.hungup, l.task, l.bound, l.context)
    BY <2>1, ReadsOne
  <2>3. l.answer \in Answers /\ l.line \in Requests \cup {Nil} /\ l.hungup \in BOOLEAN
        /\ (l.task = "busy" => l.line # Nil) /\ InStep(c, l)
    BY <1>1, <1>2, Served
  <2>4. held'[c] = l.answer.credential /\ l.answer.credential \in Credentials \cup {0} /\ pc'[c] = "free"
    BY <1>2, <2>1, <2>3 DEF Answers
  <2>5. InStep(c, link[c][k])'
    <3>1. /\ link'[c][k].line = l.line /\ link'[c][k].answer = Nil
          /\ link'[c][k].hungup = l.hungup /\ link'[c][k].task = l.task
          /\ link'[c][k].bound = l.bound
      BY <2>2 DEF Becomes, Fields
    <3>2. l.line = Nil /\ l.answer.credential # 0
          /\ (l.task # "done" => l.bound = l.answer.credential)
      BY <1>2, <1>3, <2>3 DEF InStep
    <3> QED
      BY <2>3, <2>4, <3>1, <3>2 DEF InStep
  <2> QED
    BY <1>1, <1>2, <2>2, <2>3, <2>4, <2>5, UseServes
<1>4. CASE l.answer.is # "ok"
  BY <1>1, <1>2, <1>4, LeavingServes DEF Bound
<1> QED
  BY <1>3, <1>4

\* A thread gets the mutex, and writes its request.
LEMMA TakeServes ==
    ASSUME ServiceInv, NEW c \in Clients, NEW j \in Jobs, Take(c, j)
    PROVE  ServiceOK(c)'
<1>1. PICK k \in Conns : k = conn[c] /\ Current(c) = link[c][k]
  BY InUse DEF Take
<1> DEFINE l == link[c][k]
<1>2. /\ pc[c] = "free" /\ job'[c] = j /\ UNCHANGED <<held, conn, minted>>
      /\ pc \in [Clients -> {"new", "bind", "free", "wait", "resume", "answer", "gone"}]
      /\ broken \in [Clients -> BOOLEAN] /\ held[c] \in Credentials \cup {0}
  BY DEF ServiceInv, ServiceOK, Inv, ClientsOK, SpendTypes, ControlOK, Take, registry
<1>3. /\ Shaped /\ Shape(l) /\ l.line \in Requests \cup {Nil} /\ l.answer \in Answers \cup {Nil}
      /\ l.hungup \in BOOLEAN /\ (l.task = "busy" => l.line # Nil) /\ InStep(c, l)
  BY <1>1, <1>2, Served
<1>4. CASE pc' # [pc EXCEPT ![c] = "wait"]
  <2>1. UNCHANGED link /\ ((pc'[c] = "free" /\ broken'[c]) \/ pc'[c] = "resume")
    BY <1>2, <1>4 DEF Take
  <2>2. Becomes(c, k, l.line, l.answer, l.hungup, l.task, l.bound, l.context)
    BY <1>3, <2>1, OwnFields DEF Becomes, Shaped
  <2>3. InStep(c, link[c][k])'
    BY <1>3, <2>1 DEF InStep, Knows
  <2> QED
    BY <1>1, <1>2, <1>3, <2>2, <2>3, UseServes
<1>5. CASE pc' = [pc EXCEPT ![c] = "wait"]
  <2>1. /\ pc'[c] = "wait" /\ j # Abandon /\ ~broken[c] /\ UNCHANGED broken
        /\ link' = [link EXCEPT ![c][k] = Written(l, Request(j, 0))]
    BY <1>1, <1>2, <1>5 DEF Take
  <2> DEFINE r == Request(j, 0)
             a == IF l.task = "done" THEN l.line ELSE r
  <2>2. r \in Requests /\ r.job = j /\ ~AsksToBind(r)
    BY <2>1, JobsDiffer DEF Request, Requests, Jobs, AsksToBind
  <2>3. Becomes(c, k, a, l.answer, l.hungup, l.task, l.bound, l.context)
    <3> HIDE DEF r
    <3>1. Fields(l, l.line, l.answer, l.hungup, l.task, l.bound, l.context)
      BY <1>3, OwnFields
    <3>2. link' = [link EXCEPT ![c][k] = Written(l, r)]
      BY <2>1 DEF r
    <3> QED
      BY <3>1, <3>2, WritesOne
  <2> HIDE DEF r
  <2>4. l.line = Nil /\ l.answer = Nil
    BY <1>2, <1>3, <2>1 DEF InStep
  <2>5. a \in Requests \cup {Nil} /\ (AsksToBind(a) => a = l.line)
        /\ (a # Nil => a.job = j)
    BY <2>2, <2>4
  <2>6. l.task = "busy" => a # Nil
    BY <1>3, <2>4
  <2> HIDE DEF a
  <2>7. InStep(c, link[c][k])'
    <3>1. /\ link'[c][k].line = a /\ link'[c][k].answer = Nil
          /\ link'[c][k].hungup = l.hungup /\ link'[c][k].task = l.task
          /\ link'[c][k].bound = l.bound
      BY <2>3, <2>4 DEF Becomes, Fields
    <3>2. l.task # "done" => held[c] # 0 /\ l.bound = held[c]
      BY <1>2, <1>3, <2>1 DEF InStep, Knows
    <3> QED
      BY <1>2, <1>3, <2>1, <2>5, <3>1, <3>2 DEF InStep, Awaits
  <2> QED
    BY <1>1, <1>2, <1>3, <2>3, <2>5, <2>6, <2>7, UseServes
<1> QED
  BY <1>4, <1>5

\* A step that leaves the connections alone.
LEMMA AloneServes ==
    ASSUME ServiceInv, NEW c \in Clients, UNCHANGED <<link, conn, minted, held>>,
           pc[c] = "new" => pc'[c] = "new",
           pc'[c] \notin {"new", "gone"} => InStep(c, Current(c))'
    PROVE  ServiceOK(c)'
<1>1. LinkOK(c)' /\ MintOK(c)'
  BY DEF ServiceInv, ServiceOK, LinkOK, MintOK, Pending
<1>2. CurrentOK(c)'
  BY DEF CurrentOK
<1> QED
  BY <1>1, <1>2 DEF ServiceInv, ServiceOK

\* Calls are made while the mutex is held.
LEMMA AskingServes ==
    ASSUME ServiceInv, NEW c \in Clients, Call(c) \/ Shut(c, End) \/ Shut(c, Abandon)
    PROVE  ServiceOK(c)'
<1>1. UNCHANGED <<pc, job, held, broken, link, conn, minted>> /\ pc[c] \notin {"new", "gone"}
  BY DEF Call, Shut, Usable, registry
<1>2. InStep(c, Current(c))
  BY <1>1 DEF ServiceInv, ServiceOK, CurrentOK
<1>3. InStep(c, Current(c))'
  BY <1>1, <1>2 DEF InStep, Knows, Awaits, Current
<1> QED
  BY <1>1, <1>3, AloneServes

\* The answer to a request,
LEMMA AnsweredServes ==
    ASSUME ServiceInv, NEW c \in Clients, Answered(c)
    PROVE  ServiceOK(c)'
<1>1. PICK k \in Conns : k = conn[c] /\ Current(c) = link[c][k]
  BY InUse DEF Answered
<1> DEFINE l == link[c][k]
<1>2. /\ pc[c] = "wait" /\ l.answer # Nil /\ UNCHANGED <<job, held, conn, minted>>
      /\ pc'[c] = "free" /\ held[c] \in Credentials \cup {0}
      /\ (~broken'[c] => job[c] # End)
  <2>1. pc'[c] = "free"
    BY DEF Answered, Released, ServiceInv, Inv, ControlOK
  <2>2. ~broken'[c] => job[c] # End
    <3>1. broken \in [Clients -> BOOLEAN]
      BY DEF ServiceInv, ClientsOK, SpendTypes
    <3>2. broken'[c] = (broken[c] \/ job[c] = End)
      BY <3>1 DEF Answered
    <3> QED
      BY <3>2
  <2> QED
    BY <1>1, <2>1, <2>2 DEF Answered, registry, ServiceInv, ServiceOK
<1>3. /\ l.line \in Requests \cup {Nil} /\ l.hungup \in BOOLEAN
      /\ (l.task = "busy" => l.line # Nil) /\ InStep(c, l)
  BY <1>1, <1>2, Served
<1>4. Becomes(c, k, l.line, Nil, l.hungup, l.task, l.bound, l.context)
  <2>1. link' = [link EXCEPT ![c][k] = [l EXCEPT !.answer = Nil]]
    BY <1>1 DEF Answered
  <2> QED
    BY <2>1, ReadsOne
<1>5. InStep(c, link[c][k])'
  <2>1. /\ link'[c][k].line = l.line /\ link'[c][k].answer = Nil
        /\ link'[c][k].hungup = l.hungup /\ link'[c][k].task = l.task
        /\ link'[c][k].bound = l.bound
    BY <1>4 DEF Becomes, Fields
  <2>2. l.line = Nil /\ (job[c] # End /\ l.task # "done" => held[c] # 0 /\ l.bound = held[c])
    BY <1>2, <1>3 DEF InStep, Knows
  <2> QED
    BY <1>2, <1>3, <2>1, <2>2 DEF InStep, Knows
<1> QED
  BY <1>1, <1>2, <1>3, <1>4, <1>5, UseServes

\* or none in time, after which the connection is given up,
LEMMA LostServes ==
    ASSUME ServiceInv, NEW c \in Clients, Lost(c) \/ ResumeLost(c)
    PROVE  ServiceOK(c)'
<1>1. /\ pc[c] \in {"wait", "answer"} /\ UNCHANGED <<link, conn, minted, held>>
  BY DEF Lost, Overdue, ResumeLost, registry
<1>2. pc'[c] = "free" /\ broken'[c]
  <2>1. pc'[c] = "free"
    BY DEF Lost, ResumeLost, Released, ServiceInv, Inv, ControlOK
  <2>2. ASSUME Lost(c) PROVE broken'[c]
    BY <2>2 DEF Lost, Breaks, ServiceInv, ClientsOK, SpendTypes
  <2>3. ASSUME ResumeLost(c) PROVE broken'[c]
    BY <2>3 DEF ResumeLost, ServiceInv, ClientsOK, ClientOK, BrokenOK
  <2> QED
    BY <2>1, <2>2, <2>3
<1>3. InStep(c, Current(c))
  BY <1>1 DEF ServiceInv, ServiceOK, CurrentOK
<1>4. InStep(c, Current(c))'
  <2>1. Current(c)' = Current(c)
    BY <1>1 DEF Current
  <2> QED
    BY <1>2, <1>3, <2>1 DEF InStep, Knows
<1> QED
  BY <1>1, <1>4, AloneServes

\* or a refusal.
LEMMA RefusedServes ==
    ASSUME ServiceInv, NEW c \in Clients, Refused(c)
    PROVE  ServiceOK(c)'
<1>1. PICK k \in Conns : k = conn[c] /\ Current(c) = link[c][k]
  BY InUse DEF Refused
<1> DEFINE l == link[c][k]
<1>2. /\ pc[c] = "answer" /\ UNCHANGED <<broken, conn, minted>> /\ broken[c]
      /\ pc'[c] \in {"free", "resume"} /\ held'[c] \in Credentials \cup {0}
  <2>1. pc[c] = "answer" /\ UNCHANGED <<broken, conn, minted>>
    BY DEF Refused, registry
  <2>2. broken[c]
    BY <2>1 DEF ServiceInv, ClientsOK, ClientOK, BrokenOK
  <2>3. pc'[c] \in {"free", "resume"}
    BY DEF Refused, Released, ServiceInv, Inv, ControlOK
  <2>4. held'[c] \in Credentials \cup {0}
    BY DEF Refused, ServiceInv, ServiceOK, HeldShape
  <2> QED
    BY <2>1, <2>2, <2>3, <2>4
<1>3. /\ l.line \in Requests \cup {Nil} /\ l.hungup \in BOOLEAN
      /\ (l.task = "busy" => l.line # Nil) /\ InStep(c, l)
  BY <1>1, <1>2, Served
<1>4. Becomes(c, k, l.line, Nil, l.hungup, l.task, l.bound, l.context)
  <2>1. link' = [link EXCEPT ![c][k] = [l EXCEPT !.answer = Nil]]
    BY <1>1 DEF Refused
  <2> QED
    BY <2>1, ReadsOne
<1>5. InStep(c, link[c][k])'
  <2>1. link'[c][k].hungup = l.hungup /\ link'[c][k].task = l.task
    BY <1>4 DEF Becomes, Fields
  <2> QED
    BY <1>2, <1>3, <2>1 DEF InStep, Knows
<1> QED
  BY <1>1, <1>2, <1>3, <1>4, <1>5, UseServes

\* The session is bound again, and the request is written.
LEMMA ResumedServes ==
    ASSUME ServiceInv, NEW c \in Clients, Resumed(c)
    PROVE  ServiceOK(c)'
<1>1. PICK k \in Conns : k = conn[c] /\ Current(c) = link[c][k]
  BY InUse DEF Resumed
<1> DEFINE l == link[c][k]
           r == Request(job[c], 0)
           a == IF l.task = "done" THEN l.line ELSE r
<1>2. /\ pc[c] = "answer" /\ l.answer # Nil /\ l.answer.is = "ok" /\ UNCHANGED <<job, conn, minted>>
      /\ pc'[c] = "wait" /\ job[c] \in Calls \cup {End}
  BY <1>1, Served DEF Resumed, registry, ServiceInv, Inv, ControlOK
<1>3. /\ l.line \in Requests \cup {Nil} /\ l.hungup \in BOOLEAN /\ l.answer \in Answers \cup {Nil}
      /\ (l.task = "busy" => l.line # Nil) /\ InStep(c, l) /\ Shape(l)
  BY <1>1, <1>2, Served
<1>4. held'[c] = l.answer.credential /\ held'[c] \in Credentials \cup {0}
  <2>1. held' = [held EXCEPT ![c] = l.answer.credential]
    BY <1>1 DEF Resumed, Rotated
  <2> QED
    BY <1>2, <1>3, <2>1 DEF Answers, ServiceInv, HeldShape
<1>5. r \in Requests /\ r.job = job[c] /\ ~AsksToBind(r)
  BY <1>2, JobsDiffer DEF Request, Requests, AsksToBind
<1> HIDE DEF r
<1>6. Becomes(c, k, a, Nil, l.hungup, l.task, l.bound, l.context)
  <2>1. Fields([l EXCEPT !.answer = Nil], l.line, Nil, l.hungup, l.task, l.bound, l.context)
    BY <1>3, OwnFields, FieldsExcept
  <2>2. link' = [link EXCEPT ![c][k] = Written([l EXCEPT !.answer = Nil], r)]
    BY <1>1 DEF Resumed, r
  <2> QED
    BY <2>1, <2>2, WritesOne
<1>7. l.line = Nil /\ l.answer.credential # 0 /\ (l.task # "done" => l.bound = l.answer.credential)
  BY <1>2, <1>3 DEF InStep
<1>8. a \in Requests \cup {Nil} /\ (AsksToBind(a) => a = l.line) /\ (a # Nil => a.job = job[c])
      /\ (l.task = "busy" => a # Nil)
  BY <1>3, <1>5, <1>7
<1> HIDE DEF a
<1>9. InStep(c, link[c][k])'
  <2>1. /\ link'[c][k].line = a /\ link'[c][k].answer = Nil
        /\ link'[c][k].hungup = l.hungup /\ link'[c][k].task = l.task
        /\ link'[c][k].bound = l.bound
    BY <1>6 DEF Becomes, Fields
  <2> QED
    BY <1>2, <1>3, <1>4, <1>7, <1>8, <2>1 DEF InStep, Awaits
<1> QED
  BY <1>1, <1>2, <1>3, <1>4, <1>6, <1>8, <1>9, UseServes

\* A client opens a connection for a request that asks for a session.
LEMMA OpensServes ==
    ASSUME ServiceInv, NEW c \in Clients, NEW r \in Requests, Opens(c, r),
           conn[c] + 1 <= MaxConns, UNCHANGED <<minted, held>>,
           pc'[c] \in {"bind", "answer"}, r.job = Awaits(c)'
    PROVE  ServiceOK(c)'
<1>1. Shaped /\ LinkOK(c) /\ MintOK(c) /\ conn \in [Clients -> Nat] /\ minted[c] \in Nat
  BY DEF ServiceInv, Inv, ServiceOK, ClientsOK, SpendTypes, MintOK
<1>2. conn'[c] = conn[c] + 1 /\ conn'[c] \in Conns /\ conn[c] \in Nat
  BY <1>1, MaxConnsType DEF Opens, Conns
<1>3. ASSUME NEW k \in Conns
      PROVE  /\ k = conn[c] => /\ Fields(link'[c][k], link[c][k].line, Nil, TRUE, link[c][k].task,
                                          link[c][k].bound, link[c][k].context)
                               /\ k # conn[c] + 1
             /\ k = conn[c] + 1 => Fields(link'[c][k], r, Nil, FALSE, "idle", 0, "none")
             /\ k # conn[c] /\ k # conn[c] + 1 => link'[c][k] = link[c][k]
  <2> DEFINE new == [Unopened EXCEPT !.task = "idle", !.line = r]
  <2>1. Fields(new, r, Nil, FALSE, "idle", 0, "none")
    BY OpenFields
  <2>2. Fields(HangsUp(link[c][k]), link[c][k].line, Nil, TRUE, link[c][k].task,
               link[c][k].bound, link[c][k].context)
    BY <1>1, HangsUpFields DEF Shaped
  <2> HIDE DEF new
  <2>3. link'[c][k] = IF k = conn[c] THEN HangsUp(link[c][k])
                      ELSE IF k = conn[c] + 1 THEN new ELSE link[c][k]
    BY <1>1 DEF Opens, Shaped, new
  <2>4. CASE k = conn[c]
    <3>1. link'[c][k] = HangsUp(link[c][k]) /\ k # conn[c] + 1
      BY <1>2, <2>3, <2>4
    <3> QED
      BY <2>2, <2>4, <3>1, Zenon
  <2>5. CASE k = conn[c] + 1
    <3>1. link'[c][k] = new /\ k # conn[c]
      BY <1>2, <2>3, <2>5
    <3> QED
      BY <2>1, <2>5, <3>1, Zenon
  <2>6. CASE k # conn[c] /\ k # conn[c] + 1
    BY <2>3, <2>6
  <2> QED
    BY <2>4, <2>5, <2>6
<1>4. LinkOK(c)'
  <2>1. ASSUME NEW k \in Conns
        PROVE  link'[c][k] \in Links /\ (link'[c][k].task = "busy" => link'[c][k].line # Nil)
    <3> DEFINE l == link[c][k]
    <3>1. /\ l \in Links /\ l.line \in Requests \cup {Nil} /\ (l.task = "busy" => l.line # Nil)
          /\ l.task \in {"none", "idle", "busy", "closed", "done"}
          /\ l.bound \in Credentials \cup {0} /\ l.context \in {"none", "live", "expired"}
      BY Served
    <3>2. CASE k = conn[c]
      <4>1. Fields(link'[c][k], l.line, Nil, TRUE, l.task, l.bound, l.context)
        BY <1>3, <3>2
      <4>2. link'[c][k] \in Links
        <5>1. PICK b \in Answers \cup {Nil}, d \in BOOLEAN : b = Nil /\ d = TRUE
          OBVIOUS
        <5>2. Fields(link'[c][k], l.line, b, d, l.task, l.bound, l.context)
          BY <4>1, <5>1
        <5> QED
          BY <3>1, <5>2, LinkType
      <4> QED
        BY <3>1, <4>1, <4>2 DEF Fields
    <3>3. CASE k = conn[c] + 1
      <4>1. Fields(link'[c][k], r, Nil, FALSE, "idle", 0, "none")
        BY <1>3, <3>3
      <4>2. link'[c][k] \in Links
        BY <4>1, LinkType
      <4> QED
        BY <4>1, <4>2 DEF Fields
    <3>4. CASE k # conn[c] /\ k # conn[c] + 1
      BY <1>3, <3>1, <3>4
    <3> QED
      BY <3>2, <3>3, <3>4
  <2> QED
    BY <2>1 DEF LinkOK
<1>5. MintOK(c)'
  <2>1. Pending(c)' \subseteq Pending(c) \cup {conn[c] + 1}
    <3>1. ASSUME NEW k \in Conns, AsksToBind(link'[c][k].line)
          PROVE  AsksToBind(link[c][k].line) \/ k = conn[c] + 1
      BY <1>3, <3>1 DEF Fields
    <3> QED
      BY <3>1 DEF Pending
  <2> DEFINE S == Pending(c)
             T == Pending(c)'
             x == Cardinality(S)
             y == Cardinality(T)
  <2>2. IsFiniteSet(S) /\ x \in Nat /\ minted[c] + x <= conn[c]
    BY <1>1, PendingFinite DEF MintOK
  <2> HIDE DEF S, T
  <2>3. IsFiniteSet(S \cup {conn[c] + 1}) /\ Cardinality(S \cup {conn[c] + 1}) <= x + 1
        /\ Cardinality(S \cup {conn[c] + 1}) \in Nat
    <3> DEFINE U == S \cup {conn[c] + 1}
    <3>1. IsFiniteSet(U) /\ Cardinality(U) = IF conn[c] + 1 \in S THEN x ELSE x + 1
      BY <2>2, FS_AddElement
    <3> HIDE DEF U, x
    <3>2. Cardinality(U) \in Nat
      BY <3>1, FS_CardinalityType
    <3>3. Cardinality(U) <= x + 1
      BY <2>2, <3>1, <3>2
    <3> QED
      BY <3>1, <3>2, <3>3 DEF U
  <2>4. T \in SUBSET (S \cup {conn[c] + 1})
    BY <2>1 DEF S, T
  <2>5. IsFiniteSet(T) /\ y <= Cardinality(S \cup {conn[c] + 1})
    BY <2>3, <2>4, FS_Subset
  <2>6. y \in Nat
    BY <2>5, FS_CardinalityType
  <2> HIDE DEF x, y
  <2>7. minted[c] + y <= conn[c] + 1
    BY <1>1, <1>2, <2>2, <2>3, <2>5, <2>6
  <2> QED
    BY <1>1, <1>2, <2>7 DEF MintOK, T, y
<1>6. CurrentOK(c)'
  <2>1. PICK k \in Conns : k = conn'[c]
    BY <1>2
  <2>2. /\ link'[c][k].line = r /\ link'[c][k].answer = Nil /\ link'[c][k].hungup = FALSE
        /\ link'[c][k].task = "idle"
    BY <1>2, <1>3, <2>1 DEF Fields
  <2>3. Current(c)' = link'[c][k]
    BY <2>1 DEF Current
  <2> QED
    BY <2>2, <2>3 DEF CurrentOK, InStep, Knows, Awaits
<1> QED
  BY <1>4, <1>5, <1>6 DEF ServiceOK, ServiceInv

\* The first connection, and those with which the session is resumed.
LEMMA OpeningServes ==
    ASSUME ServiceInv, ClientsOK', NEW c \in Clients, Connect(c) \/ Attempt(c)
    PROVE  ServiceOK(c)'
<1>1. conn'[c] <= MaxConns /\ conn \in [Clients -> Nat]
      /\ pc \in [Clients -> {"new", "bind", "free", "wait", "resume", "answer", "gone"}]
      /\ held[c] \in Credentials \cup {0}
  BY DEF ServiceInv, ServiceOK, ClientsOK, ClientOK, SpendOK, SpendTypes, ControlOK
<1>2. ASSUME NEW r, Opens(c, r) PROVE conn[c] + 1 <= MaxConns
  BY <1>1, <1>2 DEF Opens
<1>3. CASE Connect(c)
  <2> DEFINE r == Request(Begin, 0)
  <2>1. r \in Requests /\ r.job = Begin /\ Opens(c, r)
    BY <1>3 DEF Request, Requests, Connect
  <2>2. pc'[c] = "bind" /\ UNCHANGED <<minted, held>>
    BY <1>1, <1>3 DEF Connect, registry
  <2> QED
    BY <1>2, <2>1, <2>2, OpensServes DEF Awaits
<1>4. CASE Attempt(c) /\ Opens(c, Request(Resume, held[c]))
  <2> DEFINE r == Request(Resume, held[c])
  <2>1. r \in Requests /\ r.job = Resume /\ Opens(c, r)
    BY <1>1, <1>4 DEF Request, Requests
  <2>2. pc'[c] = "answer" /\ UNCHANGED <<minted, held>>
    <3>1. pc' = [pc EXCEPT ![c] = "answer"]
      BY <1>1, <1>4 DEF Attempt, Opens, Released
    <3> QED
      BY <1>1, <1>4, <3>1 DEF Attempt, registry
  <2> QED
    BY <1>2, <2>1, <2>2, OpensServes DEF Awaits
<1>5. CASE Attempt(c) /\ Released(c) /\ UNCHANGED <<conn, link>>
  <2>1. pc'[c] = "free" /\ broken'[c] /\ pc[c] = "resume" /\ UNCHANGED <<minted, held>>
    BY <1>1, <1>5 DEF Attempt, Released, ServiceInv, ClientsOK, ClientOK, BrokenOK, registry
  <2>2. InStep(c, Current(c))
    BY <2>1 DEF ServiceInv, ServiceOK, CurrentOK
  <2>3. InStep(c, Current(c))'
    <3>1. Current(c)' = Current(c)
      BY <1>5 DEF Current
    <3> QED
      BY <2>1, <2>2, <3>1 DEF InStep, Knows
  <2> QED
    BY <1>5, <2>1, <2>3, AloneServes
<1> QED
  BY <1>3, <1>4, <1>5 DEF Attempt

-----------------------------------------------------------------------------
(* What a client may rely on.                                              *)

DaemonOK ==
    /\ up \in BOOLEAN /\ crashes \in 0..MaxCrashes
    /\ rival \in [Clients -> BOOLEAN]

\* Of every step of a client: what it does to itself, and to nobody else.
LEMMA ClientServes ==
    ASSUME ServiceInv, ClientsOK', NEW c \in Clients,
           \/ Connect(c) \/ ClientDies(c) \/ Call(c) \/ Shut(c, End) \/ Shut(c, Abandon)
           \/ ClientStep(c)
    PROVE  /\ \A d \in Clients : ServiceOK(d)'
           /\ RegistryOK' /\ HeldShape'
<1>1. ServiceOK(c)'
  <2>1. CASE ClientDies(c) \/ BindLost(c)
    BY <2>1, LeavingServes DEF ClientDies, BindLost, registry
  <2>2. CASE \E j \in Jobs : Take(c, j)
    BY <2>2, TakeServes
  <2> QED
    BY <2>1, <2>2, OpeningServes, BoundServes, AskingServes, AnsweredServes, LostServes,
       ResumedServes, RefusedServes DEF ClientStep
<1>2. /\ \A d \in Clients : d # c =>
            UNCHANGED <<pc[d], job[d], held[d], broken[d], conn[d]>> /\ UNCHANGED link[d]
      /\ UNCHANGED registry /\ HeldShape'
  <2> USE DEF ServiceInv, Inv, Shaped, ClientsOK, SpendTypes, ControlOK, HeldShape
  <2>1. CASE Connect(c) \/ Attempt(c)
    BY <2>1 DEF Connect, Attempt, Opens, Released
  <2>2. CASE ClientDies(c) \/ BindLost(c) \/ Bound(c)
    BY <2>2 DEF ClientDies, BindLost, Bound, Leaves, Released
  <2>3. CASE Call(c) \/ Shut(c, End) \/ Shut(c, Abandon)
    BY <2>3 DEF Call, Shut
  <2>4. CASE Lost(c) \/ ResumeLost(c)
    BY <2>4 DEF Lost, Breaks, ResumeLost, Released
  <2>5. CASE Resumed(c)
    <3>1. PICK m : link' = [link EXCEPT ![c][conn[c]] = m]
      BY <2>5 DEF Resumed
    <3>2. PICK n : held' = [held EXCEPT ![c] = n]
      BY <2>5 DEF Resumed
    <3>3. HeldShape'
          /\ \A d \in Clients : d # c => held'[d] = held[d]
      BY <3>2
    <3>4. \A d \in Clients : d # c => link'[d] = link[d]
      BY <3>1
    <3>5. \A d \in Clients : d # c => UNCHANGED <<pc[d], job[d], broken[d], conn[d]>>
      BY <2>5 DEF Resumed
    <3>6. UNCHANGED registry
      BY <2>5 DEF Resumed
    <3> QED
      BY <3>3, <3>4, <3>5, <3>6
  <2>8. CASE Answered(c)
    <3>1. PICK b : broken' = [broken EXCEPT ![c] = b]
      BY <2>8 DEF Answered
    <3>2. \A d \in Clients : d # c => broken'[d] = broken[d]
      BY <3>1
    <3>3. \A d \in Clients : d # c => link'[d] = link[d]
      BY <2>8 DEF Answered
    <3>4. UNCHANGED <<job, held, conn, registry>>
          /\ \A d \in Clients : d # c => pc'[d] = pc[d]
      BY <2>8 DEF Answered, Released
    <3> QED
      BY <3>2, <3>3, <3>4
  <2>6. CASE Refused(c)
    BY <2>6 DEF Refused, Released
  <2>7. ASSUME NEW j \in Jobs, Take(c, j)
        PROVE  /\ \A d \in Clients : d # c =>
                    UNCHANGED <<pc[d], job[d], held[d], broken[d], conn[d]>> /\ UNCHANGED link[d]
               /\ UNCHANGED registry /\ HeldShape'
    BY <2>7 DEF Take
  <2> QED
    BY <2>1, <2>2, <2>3, <2>4, <2>5, <2>6, <2>7, <2>8 DEF ClientStep
<1>3. ASSUME NEW d \in Clients, d # c PROVE ServiceOK(d)'
  <2>1. ServiceOK(d) /\ conn[d] \in Nat /\ conn[d] <= MaxConns /\ (pc[d] # "new" => conn[d] # 0)
    BY DEF ServiceInv, ClientsOK, ClientOK, SpendOK, SpendTypes
  <2>2. minted'[d] = minted[d] /\ \A k \in Conns : link'[d][k] = link[d][k]
    BY <1>2, <1>3 DEF registry
  <2> QED
    BY <1>2, <1>3, <2>1, <2>2, OthersServe
<1>4. RegistryOK'
  BY <1>2 DEF ServiceInv, RegistryOK, registry
<1> QED
  BY <1>1, <1>2, <1>3, <1>4

\* Of every step of a task.
LEMMA TaskServesAll ==
    ASSUME ServiceInv, NEW c \in Clients, NEW k \in Conns,
           TaskStep(c, k) \/ Return(c, k) \/ ReturnEnd(c, k) \/ ExpireContext(c, k)
    PROVE  (\A d \in Clients : ServiceOK(d)') /\ RegistryOK' /\ UNCHANGED client
<1>1. ServiceOK(c)' /\ RegistryOK'
  BY TasksServe
<1>2. UNCHANGED client
  BY DEF TaskStep, ServeBegin, ServeResume, ServeCall, SeeEof, Detach, Return, ReturnEnd,
         ExpireContext
<1>3. ASSUME NEW d \in Clients, d # c
      PROVE  minted'[d] = minted[d] /\ \A i \in Conns : link'[d][i] = link[d][i]
  <2>1. link'[d] = link[d] /\ minted'[d] = minted[d]
    <3> USE <1>3 DEF ServiceInv, Inv, Shaped
    <3>1. CASE ServeBegin(c, k) \/ ServeResume(c, k)
      BY <3>1 DEF ServeBegin, ServeResume, Binds, Fails
    <3>2. CASE ServeCall(c, k) \/ SeeEof(c, k) \/ Detach(c, k)
      BY <3>2 DEF ServeCall, SeeEof, Detach, registry
    <3>3. CASE Return(c, k) \/ ReturnEnd(c, k) \/ ExpireContext(c, k)
      BY <3>3 DEF Return, ReturnEnd, ExpireContext, registry
    <3> QED
      BY <3>1, <3>2, <3>3 DEF TaskStep
  <2> QED
    BY <2>1
<1>4. ASSUME NEW d \in Clients, d # c PROVE ServiceOK(d)'
  <2>1. ServiceOK(d) /\ conn[d] \in Nat /\ conn[d] <= MaxConns /\ (pc[d] # "new" => conn[d] # 0)
    BY DEF ServiceInv, ClientsOK, ClientOK, SpendOK, SpendTypes
  <2> QED
    BY <1>2, <1>3, <1>4, <2>1, OthersServe DEF client
<1> QED
  BY <1>1, <1>2, <1>4

LEMMA ServiceInit == Init => ServiceInv /\ DaemonOK
<1> SUFFICES ASSUME Init PROVE ServiceInv /\ DaemonOK
  OBVIOUS
<1>1. Inv /\ DaemonOK
  BY InitInv DEF Init, DaemonOK
<1>2. SpendTypes
  BY <1>1 DEF Init, SpendTypes, Inv
<1>3. ASSUME NEW c \in Clients PROVE ClientOK(c)
  <2>1. pc[c] = "new" /\ made[c] = 0 /\ asked[c] = {} /\ ~shut[c] /\ ~broken[c] /\ conn[c] = 0 /\ tries[c] = 0
    BY DEF Init
  <2>2. Budget(c) = MaxCalls + 1 /\ Spare(c) = 1
    <3>1. Waiting(c) = 0
      <4>1. asked[c] \ {Abandon} = {}
        BY <2>1
      <4> QED
        BY <4>1, FS_EmptySet DEF Waiting
    <3> QED
      BY <2>1, <3>1 DEF Budget, Spare
  <2>3. conn[c] + Budget(c) * Each + Spare(c) <= MaxConns
    <3> DEFINE x == (MaxCalls + 1) * Each
    <3>1. x \in Nat /\ Budget(c) * Each = x /\ MaxConns = 1 + x
      BY <2>2, Price, MaxConnsType
    <3> HIDE DEF x
    <3>2. 0 + x + 1 <= MaxConns
      BY <3>1
    <3> QED
      BY <2>1, <2>2, <3>1, <3>2
  <2> QED
    BY <2>1, <2>3, MaxConnsType DEF ClientOK, AskedOK, SpendOK, BrokenOK
<1>4. ASSUME NEW c \in Clients PROVE ServiceOK(c)
  <2>1. \A k \in Conns : link[c][k] = Unopened
    BY DEF Init
  <2>2. Unopened \in Links /\ Unopened.task = "none" /\ Unopened.line = Nil
    BY DEF Unopened, Links
  <2>3. LinkOK(c)
    BY <2>1, <2>2 DEF LinkOK
  <2>4. Pending(c) = {}
    BY <2>1, <2>2 DEF Pending, AsksToBind
  <2>5. MintOK(c)
    BY <2>4, FS_EmptySet DEF MintOK, Init
  <2> QED
    BY <2>3, <2>5 DEF ServiceOK, CurrentOK, Init
<1>5. RegistryOK /\ HeldShape
  BY DEF Init, RegistryOK, HeldShape
<1> QED
  BY <1>1, <1>2, <1>3, <1>4, <1>5 DEF ServiceInv, ClientsOK

LEMMA ServiceStep == ServiceInv /\ [Next]_vars => ServiceInv'
<1> SUFFICES ASSUME ServiceInv, [Next]_vars PROVE ServiceInv'
  OBVIOUS
<1>1. Inv' /\ ClientsOK'
  BY StepInv, ClientsStay DEF ServiceInv
<1> DEFINE Goal == /\ \A d \in Clients : ServiceOK(d)'
                   /\ RegistryOK' /\ HeldShape'
<1>2. ASSUME NEW c \in Clients,
             \/ Connect(c) \/ ClientDies(c) \/ Call(c) \/ Shut(c, End) \/ Shut(c, Abandon)
             \/ ClientStep(c)
      PROVE  Goal
  BY <1>1, <1>2, ClientServes
<1>3. ASSUME NEW c \in Clients, NEW k \in Conns,
             TaskStep(c, k) \/ Return(c, k) \/ ReturnEnd(c, k) \/ ExpireContext(c, k)
      PROVE  Goal
  <2>1. (\A d \in Clients : ServiceOK(d)') /\ RegistryOK' /\ UNCHANGED client
    BY <1>3, TaskServesAll
  <2> QED
    BY <2>1 DEF client, ServiceInv, HeldShape
<1>4. ASSUME Crash PROVE Goal
  <2>1. \A d \in Clients : ServiceOK(d)'
    BY <1>4, CrashServes
  <2>2. RegistryOK' /\ UNCHANGED held
    BY <1>4 DEF Crash, client, RegistryOK
  <2>3. HeldShape'
    BY <2>2 DEF ServiceInv, HeldShape
  <2> QED
    BY <2>1, <2>2, <2>3
<1>5. ASSUME UNCHANGED <<client, link, minted, records>>, RegistryOK' PROVE Goal
  <2>1. \A d \in Clients : ServiceOK(d)'
    <3> SUFFICES ASSUME NEW d \in Clients PROVE ServiceOK(d)'
      OBVIOUS
    <3>1. ServiceOK(d) /\ conn[d] \in Nat /\ conn[d] <= MaxConns /\ (pc[d] # "new" => conn[d] # 0)
      BY DEF ServiceInv, ClientsOK, ClientOK, SpendOK, SpendTypes
    <3> QED
      BY <1>5, <3>1, OthersServe DEF client
  <2> QED
    BY <1>5, <2>1 DEF client, ServiceInv, HeldShape
<1>6. ASSUME \/ \E c \in Clients : RivalBinds(c) \/ RivalEnds(c)
             \/ (\E r \in records : ExpireRecord(r)) \/ Restart \/ UNCHANGED vars
      PROVE  Goal
  <2>1. UNCHANGED <<client, link, minted, records>>
    BY <1>6 DEF RivalBinds, RivalEnds, ExpireRecord, Restart, vars, registry
  <2>2. RegistryOK'
    BY <1>6 DEF RivalBinds, RivalEnds, ExpireRecord, Restart, vars, registry, RegistryOK, ServiceInv
  <2> QED
    BY <1>5, <2>1, <2>2
<1> HIDE DEF Goal
<1>7. Goal
  <2>1. CASE UNCHANGED vars \/ Restart \/ \E r \in records : ExpireRecord(r)
    BY <1>6, <2>1
  <2>2. CASE Next /\ ~Restart /\ ~\E r \in records : ExpireRecord(r)
    BY <1>2, <1>3, <1>4, <1>6, <2>2 DEF Next
  <2> QED
    BY <2>1, <2>2
<1> QED
  BY <1>1, <1>7 DEF Goal, ServiceInv

LEMMA DaemonStep == DaemonOK /\ [Next]_vars => DaemonOK'
<1> SUFFICES ASSUME DaemonOK, [Next]_vars PROVE DaemonOK'
  OBVIOUS
<1>1. CASE UNCHANGED <<up, crashes, rival>>
  BY <1>1 DEF DaemonOK
<1>2. ASSUME NEW c \in Clients, RivalBinds(c) \/ RivalEnds(c) PROVE DaemonOK'
  BY <1>2 DEF RivalBinds, RivalEnds, DaemonOK
<1>3. ASSUME Crash PROVE DaemonOK'
  <2>1. crashes < MaxCrashes /\ crashes' = crashes + 1
    BY <1>3 DEF Crash
  <2>3. crashes' \in 0..MaxCrashes
    BY <2>1 DEF DaemonOK
  <2>4. up' = FALSE
    BY <1>3 DEF Crash
  <2>2. rival' \in [Clients -> BOOLEAN]
    BY <1>3 DEF Crash
  <2> QED
    BY <2>2, <2>3, <2>4 DEF DaemonOK
<1>4. ASSUME Restart PROVE DaemonOK'
  BY <1>4 DEF Restart, DaemonOK, registry
<1>5. ASSUME NEW c \in Clients,
             \/ Connect(c) \/ ClientDies(c) \/ Call(c) \/ Shut(c, End) \/ Shut(c, Abandon)
             \/ ClientStep(c)
      PROVE  UNCHANGED <<up, crashes, rival>>
  BY <1>5 DEF Connect, ClientDies, Call, Shut, ClientStep, Bound, BindLost, Answered, Lost,
              Attempt, Resumed, Refused, ResumeLost, Take, registry
<1>6. ASSUME NEW c \in Clients, NEW k \in Conns,
             TaskStep(c, k) \/ Return(c, k) \/ ReturnEnd(c, k) \/ ExpireContext(c, k)
      PROVE  UNCHANGED <<up, crashes, rival>>
  BY <1>6 DEF TaskStep, ServeBegin, ServeResume, ServeCall, SeeEof, Detach, Return, ReturnEnd,
              ExpireContext, registry
<1>7. (\E r \in records : ExpireRecord(r)) \/ UNCHANGED vars => UNCHANGED <<up, crashes, rival>>
  BY DEF ExpireRecord, vars, registry
<1> QED
  BY <1>1, <1>2, <1>3, <1>4, <1>5, <1>6, <1>7 DEF Next

LEMMA ServiceAlways == Spec => [](ServiceInv /\ DaemonOK)
BY ServiceInit, ServiceStep, DaemonStep, PTL DEF Spec

\* trusted_session_call and its deadline: the answer a client reads is that to its
\* own request, whatever was given up before it and however late it is answered.
THEOREM AnswersAreOwn == Spec => []AnswerIsOwn
<1>1. ServiceInv => AnswerIsOwn
  <2> SUFFICES ASSUME ServiceInv, NEW c \in Clients, pc[c] \in {"bind", "wait", "answer"},
                      Current(c).answer # Nil
               PROVE  Current(c).answer.to = CASE pc[c] = "bind" -> Begin
                                               [] pc[c] = "wait" -> job[c]
                                               [] pc[c] = "answer" -> Resume
    BY DEF AnswerIsOwn
  <2>1. InStep(c, Current(c))
    BY DEF ServiceInv, ServiceOK, CurrentOK
  <2>2. Current(c).answer.to = Awaits(c)
    BY <2>1 DEF InStep
  <2> QED
    BY <2>2 DEF Awaits
<1> QED
  BY <1>1, ServiceAlways, PTL

\* resume_connection and the binding: between requests the client has the very
\* credential under which its connection is bound.
THEOREM CredentialsStayAgreed == Spec => []CredentialsAgree
<1>1. ServiceInv => CredentialsAgree
  <2> SUFFICES ASSUME ServiceInv, NEW c \in Clients, pc[c] = "free", ~broken[c],
                      Current(c).task # "done"
               PROVE  held[c] # 0 /\ Current(c).bound = held[c]
    BY DEF CredentialsAgree
  <2>1. InStep(c, Current(c))
    BY DEF ServiceInv, ServiceOK, CurrentOK
  <2> QED
    BY <2>1 DEF InStep, Knows
<1> QED
  BY <1>1, ServiceAlways, PTL

\* Every value has its type: no client opens more connections than its requests
\* and their retries allow, and no more credentials are minted than connections.
THEOREM TypesHold == Spec => []TypeOK
<1>1. ServiceInv /\ DaemonOK => TypeOK
  <2> SUFFICES ASSUME ServiceInv, DaemonOK PROVE TypeOK
    OBVIOUS
  <2>1. SpendTypes /\ ControlOK /\ Shaped /\ ended \subseteq Clients /\ minted \in [Clients -> Nat]
    BY DEF ServiceInv, Inv, ClientsOK, SpendTypes
  <2>2. made \in [Clients -> Calls \cup {0}]
    <3>1. 0..MaxCalls = Calls \cup {0}
      BY DEF Calls
    <3> QED
      BY <2>1, <3>1 DEF SpendTypes
  <2>3. conn \in [Clients -> Conns \cup {0}]
    <3>1. ASSUME NEW c \in Clients PROVE conn[c] \in Conns \cup {0}
      <4>1. conn[c] \in Nat /\ conn[c] <= MaxConns
        BY <2>1 DEF ServiceInv, ClientsOK, ClientOK, SpendOK, SpendTypes
      <4> QED
        BY <4>1, MaxConnsType DEF Conns
    <3> QED
      BY <2>1, <3>1 DEF SpendTypes
  <2>4. link \in [Clients -> [Conns -> Links]]
    <3>1. \A c \in Clients, k \in Conns : link[c][k] \in Links
      BY DEF ServiceInv, ServiceOK, LinkOK
    <3> QED
      BY <2>1, <3>1 DEF Shaped
  <2>5. held \in [Clients -> Credentials \cup {0}]
    BY DEF ServiceInv, ServiceOK, HeldShape
  <2>6. minted \in [Clients -> Credentials \cup {0}]
    <3>1. ASSUME NEW c \in Clients PROVE minted[c] \in Credentials \cup {0}
      <4>1. conn[c] \in Nat /\ conn[c] <= MaxConns /\ MintOK(c)
        BY <2>1 DEF ServiceInv, ServiceOK, ClientsOK, ClientOK, SpendOK, SpendTypes
      <4> DEFINE x == Cardinality(Pending(c))
      <4>2. x \in Nat /\ minted[c] \in Nat /\ minted[c] + x <= conn[c]
        BY <4>1, PendingFinite DEF MintOK
      <4> HIDE DEF x
      <4> QED
        BY <4>1, <4>2, MaxConnsType DEF Credentials
    <3> QED
      BY <2>1, <3>1
  <2>7. records \subseteq Clients \X Credentials /\ expired \subseteq records
    BY DEF ServiceInv, RegistryOK
  <2> QED
    BY <2>1, <2>2, <2>3, <2>4, <2>5, <2>6, <2>7 DEF TypeOK, SpendTypes, ControlOK, DaemonOK
<1> QED
  BY <1>1, ServiceAlways, PTL

=============================================================================
