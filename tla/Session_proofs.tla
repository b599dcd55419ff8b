--------------------------- MODULE Session_proofs ---------------------------
(***************************************************************************)
(* What holds of Session for every set of Arms and ports, with any number  *)
(* of connects, unplugged devices and open descriptions, forked or not:    *)
(* one reader to a device, no leaked port, a silent child, current facts.  *)
(***************************************************************************)
EXTENDS Session, TLAPS

----------------------------------------------------------------------------
(* The invariant. *)

Description ==
  [port : Ports \cup {None}, opener : Procs \cup {None}, holders : SUBSET Procs,
   alien : BOOLEAN, reader : {"none", "live", "dead"}, lost : BOOLEAN]

Typed ==
  /\ pc \in [Objects -> Phases]
  /\ then \in [Objects -> Ports \cup {"end", "dfu"}]
  /\ tr \in [Objects -> Ids \cup {None}] /\ facts \in [Objects -> Ids \cup {None}]
  /\ pid \in [Objects -> Procs \cup {None}]
  /\ dfu \in [Objects -> BOOLEAN]
  /\ keeper \in [Objects -> {"none", "running", "handle"}]
  /\ registry \in [Procs -> [Ports -> Ids \cup {None}]]
  /\ file \in [Ids -> Description]
  /\ alive \in {{"parent"}, Procs}

Own(o) == Proc(o) = file[tr[o]].opener

\* An Arm has a session of its own process, or, in a child, of its parent: the stamp and the
\* descriptor say so.  A call under way is on a session of its own, and one that opens has none.
Held(o) ==
  /\ tr[o] = None => pid[o] = None /\ facts[o] = None
  /\ tr[o] # None => /\ pid[o] = file[tr[o]].opener /\ pid[o] \in {Proc(o), "parent"}
                     /\ Proc(o) \in file[tr[o]].holders
                     /\ facts[o] \in {None, tr[o]}
  /\ pc[o] \in {"claim", "open"} => tr[o] = None /\ then[o] \in Ports
  /\ pc[o] \in {"rebuild", "hello", "status", "probe", "dfu"} => tr[o] # None /\ Own(o)
  /\ pc[o] = "join" => (tr[o] # None => Own(o))
  /\ pc[o] \notin {"idle", "up"} => keeper[o] # "running"
  /\ keeper[o] = "running" => tr[o] # None /\ Own(o)
SessionsAreHeld == \A o \in Objects : Held(o)

\* A process has one Arm to a session, and one connect to a port.
SessionsAreDistinct ==
  \A o, q \in Objects : Proc(o) = Proc(q) =>
    /\ tr[o] # None /\ tr[o] = tr[q] => o = q
    /\ pc[o] = "open" /\ pc[q] = "open" /\ then[o] = then[q] => o = q

\* A connect that opens has a claim, and behind it a description that nobody holds yet.
OpensAreClaimed ==
  \A o \in Objects : pc[o] = "open" =>
    /\ Claimed(o) \in Ids
    /\ file[Claimed(o)] = Opened(then[o], Proc(o), {}, "none")

\* A claim is for a description of that port; what nobody opened has neither port nor holder.
ClaimsAreOpened ==
  /\ \A x \in Procs, p \in Ports : registry[x][p] # None => file[registry[x][p]].port = p
  /\ \A i \in Ids : /\ file[i].port \in Ports <=> file[i].opener \in Procs
                    /\ file[i].holders # {} => file[i].opener \in Procs

\* Before the fork there is no child, and nothing is the child's.
ChildIsUnborn ==
  Unforked => /\ \A o \in Objects : Proc(o) = "child" => pc[o] = "idle" /\ tr[o] = None
              /\ \A i \in Ids : file[i].opener # "child" /\ "child" \notin file[i].holders

SessionInv ==
  /\ Typed /\ SessionsAreHeld /\ SessionsAreDistinct /\ OpensAreClaimed /\ ClaimsAreOpened
  /\ ChildIsUnborn
  /\ ReadersAreOwned /\ OneReader /\ NothingLeaks /\ ChildIsSilent

----------------------------------------------------------------------------
(* Objects, and a write into a session of one's own. *)

LEMMA ProcOfObject == \A o \in Objects : Proc(o) \in Procs
  BY DEF Objects, Proc

LEMMA NoneIsNothing == /\ None \notin Ports /\ None \notin Procs /\ None \notin Ids
                       /\ None # "parent" /\ None # "child"
  BY SessionAssumption DEF Procs, Ids

\* A process that writes into its own session disturbs nobody.
LEMMA SentIsOwn ==
  ASSUME Typed, NEW o \in Objects, tr[o] \in Ids, Own(o), Sent(o) PROVE file' = file
<1> DEFINE d == file[tr[o]]
<1>1. d \in Description /\ file \in [Ids -> Description]
  BY DEF Typed
<1>2. Written(d, Proc(o)) = d
  <2>1. (d.alien \/ d.opener # Proc(o)) = d.alien
    BY <1>1 DEF Own, Description
  <2>2. [d EXCEPT !.alien = d.alien] = d
    BY <1>1 DEF Description
  <2>3. QED
    BY <2>1, <2>2 DEF Written
<1>3. file' = [file EXCEPT ![tr[o]] = d]
  BY <1>2 DEF Sent
<1>4. QED
  BY <1>1, <1>3

----------------------------------------------------------------------------
(* Steps that change neither a session nor a description nor a claim. *)

Untouched == UNCHANGED <<tr, pid, registry, file>>
OthersAsBefore(o) ==
  \A q \in Objects : q # o => /\ pc'[q] = pc[q] /\ then'[q] = then[q]
                              /\ facts'[q] = facts[q] /\ keeper'[q] = keeper[q]

LEMMA QuietStep ==
  ASSUME SessionInv, Untouched, NEW o \in Objects, OthersAsBefore(o), Typed', Held(o)',
         pc[o] # "open", pc'[o] # "open", alive' = alive, Proc(o) \in alive
  PROVE  SessionInv'
<1> USE DEF SessionInv, Untouched, OthersAsBefore
<1>1. SessionsAreHeld'
  BY DEF SessionsAreHeld, Held, Own
<1>2. SessionsAreDistinct'
  BY DEF SessionsAreDistinct
<1>3. OpensAreClaimed'
  BY DEF OpensAreClaimed, Claimed
<1>4. ClaimsAreOpened' /\ OneReader' /\ ChildIsSilent' /\ ReadersAreOwned'
  BY DEF ClaimsAreOpened, OneReader, ChildIsSilent, ReadersAreOwned
<1>5. ChildIsUnborn'
  BY DEF ChildIsUnborn, Unforked
<1>6. NothingLeaks'
  BY DEF NothingLeaks
<1>7. QED
  BY <1>1, <1>2, <1>3, <1>4, <1>5, <1>6

\* A session that the guard does not refuse is one's own; only what lives is busy.
LEMMA GuardMeansOwn ==
  ASSUME SessionInv, NEW o \in Objects, ~Foreign(o), tr[o] # None PROVE Own(o) /\ tr[o] \in Ids
  BY ProcOfObject, NoneIsNothing
     DEF SessionInv, Typed, SessionsAreHeld, Held, Own, Foreign, Procs

LEMMA BusyMeansAlive ==
  ASSUME SessionInv, NEW o \in Objects, pc[o] # "idle" PROVE Proc(o) \in alive
  BY ProcOfObject DEF SessionInv, ChildIsUnborn, Unforked, Typed, Procs

\* Once its parts are quiet, a step of the call on o is a quiet step.
LEMMA ConnectIsQuiet ==
  ASSUME SessionInv, NEW o \in Objects, Resting(o), ~Foreign(o), UNCHANGED <<osVars, envVars>>,
         UNCHANGED <<armVars>>, NEW t \in Ports,
         \/ pc' = [pc EXCEPT ![o] = "up"] /\ then' = then /\ tr[o] # None
         \/ /\ pc' = [pc EXCEPT ![o] = "claim"] /\ then' = [then EXCEPT ![o] = t]
            /\ tr[o] = None
  PROVE  SessionInv'
<1> USE DEF armVars, osVars, envVars
<1>1. Untouched /\ OthersAsBefore(o) /\ pc[o] # "open" /\ pc'[o] # "open" /\ alive' = alive
      /\ Proc(o) \in alive
  BY DEF Untouched, OthersAsBefore, Resting, AtRest, SessionInv, Typed
<1>2. Typed'
  BY DEF SessionInv, Typed, Phases
<1>3. Held(o)'
  BY NoneIsNothing DEF SessionInv, Typed, SessionsAreHeld, Held, Own
<1>4. QED
  BY <1>1, <1>2, <1>3, QuietStep

\* close in the process of the session, up to the join, which may never come back.
LEMMA CloseIsQuiet ==
  ASSUME SessionInv, NEW o \in Objects, ~Foreign(o), Proc(o) \in alive, pc[o] # "open",
         NEW t \in Ports \cup {"end", "dfu"}, UNCHANGED <<tr, pid, facts, dfu, registry, envVars>>,
         \/ /\ keeper[o] # "handle" /\ CloseThen(o, t)
            /\ keeper' = [keeper EXCEPT ![o] = "none"]
            /\ (keeper[o] = "running" /\ Sent(o)) \/ UNCHANGED file
         \/ keeper[o] = "handle" /\ Goto(o, "hung") /\ UNCHANGED <<then, keeper, file>>
  PROVE  SessionInv'
<1> USE DEF envVars
<1>1. file' = file
  BY SentIsOwn, GuardMeansOwn DEF SessionInv, SessionsAreHeld, Held
<1>2. Untouched /\ OthersAsBefore(o) /\ pc'[o] # "open" /\ alive' = alive
  BY <1>1 DEF Untouched, OthersAsBefore, CloseThen, Goto, Then, SessionInv, Typed
<1>3. Typed'
  BY <1>1 DEF SessionInv, Typed, Phases, CloseThen, Goto, Then
<1>4. Held(o)'
  <2>1. tr[o] # None => Own(o)
    BY GuardMeansOwn
  <2>2. QED
    BY <1>1, <2>1 DEF SessionInv, Typed, SessionsAreHeld, Held, Own, CloseThen, Goto, Then
<1>5. QED
  BY <1>2, <1>3, <1>4, QuietStep

\* What runs on an open session of the caller's own: the steps of connect, and the calls.
Quietly(o) == Rebuild(o) \/ Hello(o) \/ Status(o) \/ Probe(o) \/ EnterDfu(o) \/ DfuWait(o)
              \/ Command(o) \/ ZeroG(o) \/ Request(o) \/ Abandon(o)

LEMMA QuietCalls == ASSUME SessionInv, NEW o \in Objects, Quietly(o) PROVE SessionInv'
<1> USE DEF callVars, cartVars, armVars, osVars, envVars, Resting, AtRest, Barred
<1>1. tr[o] \in Ids /\ Own(o) /\ tr[o] # None
  BY GuardMeansOwn, NoneIsNothing
     DEF Quietly, Rebuild, Hello, Status, Probe, EnterDfu, DfuWait, Command, ZeroG, Request,
         Abandon, SessionInv, Typed, SessionsAreHeld, Held
<1>2. file' = file
  BY <1>1, SentIsOwn
     DEF Quietly, Rebuild, Hello, Status, Probe, EnterDfu, DfuWait, Command, ZeroG, Request,
         Abandon, SessionInv
<1>3. Proc(o) \in alive /\ pc[o] # "open" /\ alive' = alive
  BY BusyMeansAlive
     DEF Quietly, Rebuild, Hello, Status, Probe, EnterDfu, DfuWait, Command, ZeroG, Request,
         Abandon
<1>4. Untouched /\ OthersAsBefore(o) /\ pc'[o] # "open"
  BY <1>2, <1>3
     DEF Untouched, OthersAsBefore, CloseThen, Goto, Then, SessionInv, Typed,
         Quietly, Rebuild, Hello, Status, Probe, EnterDfu, DfuWait, Command, ZeroG, Request,
         Abandon
<1>5. Typed'
  BY <1>1, <1>2
     DEF SessionInv, Typed, Phases, CloseThen, Goto, Then,
         Quietly, Rebuild, Hello, Status, Probe, EnterDfu, DfuWait, Command, ZeroG, Request,
         Abandon
<1>6. Held(o)'
  <2>1. Held(o)
    BY DEF SessionInv, SessionsAreHeld
  <2>2. CASE Rebuild(o) \/ Hello(o) \/ Status(o) \/ Probe(o) \/ DfuWait(o)
    BY <1>1, <1>2, <2>1, <2>2
       DEF SessionInv, Typed, Held, Own, CloseThen, Goto, Then, Rebuild, Hello, Status, Probe,
           DfuWait
  <2>3. CASE EnterDfu(o) \/ Command(o) \/ ZeroG(o) \/ Request(o) \/ Abandon(o)
    BY <1>1, <1>2, <2>1, <2>3
       DEF SessionInv, Typed, Held, Own, Goto, EnterDfu, Command, ZeroG, Request, Abandon
  <2>4. QED
    BY <2>2, <2>3 DEF Quietly
<1>7. QED
  BY <1>3, <1>4, <1>5, <1>6, QuietStep

----------------------------------------------------------------------------
(* The steps that do change them, one lemma each. *)

\* A child lets go of the handles it inherited; descriptor and claim stay.
LEMMA ChildLetsGo ==
  ASSUME SessionInv, NEW o \in Objects, Foreign(o), Resting(o), NEW t \in Ports \cup {"end"},
         tr' = [tr EXCEPT ![o] = None], pid' = [pid EXCEPT ![o] = None],
         facts' = [facts EXCEPT ![o] = None],
         Goto(o, IF t \in Ports THEN "claim" ELSE "idle") /\ Then(o, t),
         UNCHANGED <<keeper, file, dfu, registry, alive>>
  PROVE  SessionInv'
<1> USE ProcOfObject, NoneIsNothing
        DEF SessionInv, Goto, Then, Resting, AtRest
<1>1. Typed'
  BY DEF Typed, Phases
<1>2. /\ Proc(o) = "child" /\ tr[o] # None /\ pid[o] = "parent" /\ alive = Procs
      /\ file[tr[o]].opener = "parent" /\ "child" \in file[tr[o]].holders
      /\ keeper[o] # "running" /\ pc[o] # "open" /\ pc'[o] # "open"
      /\ \A q \in Objects : q # o => /\ tr'[q] = tr[q] /\ pid'[q] = pid[q] /\ pc'[q] = pc[q]
                                    /\ facts'[q] = facts[q] /\ then'[q] = then[q]
      /\ tr'[o] = None /\ pid'[o] = None /\ facts'[o] = None
  BY DEF Foreign, Typed, SessionsAreHeld, Held, Own, Procs
<1>3. SessionsAreHeld'
  <2>1. \A q \in Objects : q # o => Held(q)'
    BY <1>2 DEF SessionsAreHeld, Held, Own
  <2>2. Held(o)'
    BY <1>2 DEF Typed, Held, Own
  <2>3. QED
    BY <2>1, <2>2 DEF SessionsAreHeld
<1>4. SessionsAreDistinct'
  <2>1. SUFFICES ASSUME NEW q \in Objects, NEW r \in Objects, Proc(q) = Proc(r)
                 PROVE /\ tr'[q] # None /\ tr'[q] = tr'[r] => q = r
                       /\ pc'[q] = "open" /\ pc'[r] = "open" /\ then'[q] = then'[r] => q = r
    BY DEF SessionsAreDistinct
  <2>2. QED
    BY <1>2, <2>1 DEF SessionsAreDistinct
<1>10. OpensAreClaimed'
  BY <1>2 DEF OpensAreClaimed, Claimed
<1>5. ClaimsAreOpened' /\ OneReader' /\ ChildIsSilent'
  BY DEF ClaimsAreOpened, OneReader, ChildIsSilent
<1>6. ChildIsUnborn'
  BY <1>2 DEF ChildIsUnborn, Unforked, Procs
<1>7. ReadersAreOwned'
  BY <1>2 DEF ReadersAreOwned
<1>8. NothingLeaks'
  <2>1. SUFFICES ASSUME NEW x \in Procs, NEW p \in Ports, registry[x][p] # None
                 PROVE \/ x \in file[registry[x][p]].holders /\ file[registry[x][p]].opener # x
                       \/ \E q \in Objects : /\ Proc(q) = x
                                             /\ \/ tr'[q] = registry[x][p]
                                                \/ pc'[q] = "open" /\ then'[q] = p
    BY DEF NothingLeaks
  <2>2. CASE x \in file[registry[x][p]].holders /\ file[registry[x][p]].opener # x
    BY <2>2
  <2>3. CASE ~(x \in file[registry[x][p]].holders /\ file[registry[x][p]].opener # x)
    <3>1. PICK q \in Objects :
            Proc(q) = x /\ (tr[q] = registry[x][p] \/ (pc[q] = "open" /\ then[q] = p))
      BY <2>1, <2>3 DEF NothingLeaks
    <3>2. q # o
      BY <1>2, <2>1, <2>3, <3>1
    <3>3. tr'[q] = tr[q] /\ pc'[q] = pc[q] /\ then'[q] = then[q]
      BY <1>2, <3>2
    <3>4. tr'[q] = registry[x][p] \/ (pc'[q] = "open" /\ then'[q] = p)
      BY <3>1, <3>3
    <3>5. QED
      BY <3>1, <3>4
  <2>4. QED
    BY <2>2, <2>3
<1>9. QED
  BY <1>1, <1>3, <1>4, <1>5, <1>6, <1>7, <1>8, <1>10

\* A claim is taken, for a description nobody has.
LEMMA ClaimTaken ==
  ASSUME SessionInv, NEW o \in Objects, NEW x \in Procs, NEW p \in Ports, NEW i \in Ids,
         x = Proc(o), p = then[o], x \in alive, pc[o] = "claim", tr[o] = None, registry[x][p] = None,
         file[i] = Unopened,
         registry' = [registry EXCEPT ![x] = [registry[x] EXCEPT ![p] = i]],
         file' = [file EXCEPT ![i] = Opened(p, x, {}, "none")],
         pc' = [pc EXCEPT ![o] = "open"],
         UNCHANGED <<then, tr, pid, facts, dfu, keeper, alive>>
  PROVE  SessionInv'
<1> USE ProcOfObject, NoneIsNothing DEF SessionInv
<1>1. Typed'
  BY DEF Typed, Phases, Opened, Description
<1>2. /\ registry'[x][p] = i /\ pc'[o] = "open"
      /\ \A y \in Procs, r \in Ports : y # x \/ r # p => registry'[y][r] = registry[y][r]
      /\ \A j \in Ids : j # i => file'[j] = file[j]
      /\ file'[i] = Opened(p, x, {}, "none")
      /\ \A q \in Objects : q # o => pc'[q] = pc[q]
  BY DEF Typed
<1>3. /\ file[i].port = None /\ file[i].opener = None /\ file[i].holders = {}
      /\ file[i].reader = "none" /\ ~file[i].alien
      /\ file'[i].port = p /\ file'[i].opener = x /\ file'[i].holders = {}
      /\ file'[i].reader = "none" /\ ~file'[i].alien
  BY <1>2 DEF Unopened, Opened
<1>4. /\ \A q \in Objects : tr[q] # i
      /\ \A y \in Procs, r \in Ports : registry[y][r] # i
      /\ \A q \in Objects : tr[q] # None => tr[q] \in Ids /\ file'[tr[q]] = file[tr[q]]
      /\ \A y \in Procs, r \in Ports : registry[y][r] # None =>
            registry[y][r] \in Ids /\ file'[registry[y][r]] = file[registry[y][r]]
  <2>1. /\ \A q \in Objects : tr[q] # None => tr[q] \in Ids
        /\ \A y \in Procs, r \in Ports : registry[y][r] # None => registry[y][r] \in Ids
    BY DEF Typed
  <2>2. \A q \in Objects : tr[q] # i
    BY <1>3 DEF SessionsAreHeld, Held
  <2>3. \A y \in Procs, r \in Ports : registry[y][r] # i
    BY <1>3 DEF ClaimsAreOpened
  <2>4. QED
    BY <1>2, <2>1, <2>2, <2>3
<1>5. SessionsAreHeld'
  <2>1. SUFFICES ASSUME NEW q \in Objects PROVE Held(q)'
    BY DEF SessionsAreHeld
  <2>2. Held(q)
    BY DEF SessionsAreHeld
  <2>3. QED
    BY <1>2, <1>4, <2>2 DEF Held, Own
<1>6. SessionsAreDistinct'
  <2>1. \A q \in Objects : pc[q] = "open" /\ Proc(q) = x => then[q] # p
    BY <1>2 DEF OpensAreClaimed, Claimed
  <2>2. QED
    BY <1>2, <2>1 DEF SessionsAreDistinct
<1>7. OpensAreClaimed'
  <2>1. SUFFICES ASSUME NEW q \in Objects, pc'[q] = "open"
                 PROVE /\ Claimed(q)' \in Ids
                       /\ file'[Claimed(q)'] =
                            Opened(then[q], Proc(q), {}, "none")
    BY DEF OpensAreClaimed
  <2>2. CASE q = o
    BY <1>2, <2>2 DEF Claimed
  <2>3. CASE q # o
    <3>1. /\ pc[q] = "open" /\ then[q] \in Ports /\ Proc(q) \in Procs /\ Claimed(q) # None
          /\ Claimed(q) \in Ids
      BY <1>2, <2>1, <2>3 DEF SessionsAreHeld, Held, OpensAreClaimed
    <3>2. Proc(q) # x \/ then[q] # p
      BY <3>1 DEF Claimed
    <3>3. Claimed(q)' = Claimed(q) /\ file'[Claimed(q)] = file[Claimed(q)]
      BY <1>2, <1>4, <3>1, <3>2 DEF Claimed
    <3>4. QED
      BY <3>1, <3>3 DEF OpensAreClaimed
  <2>4. QED
    BY <2>2, <2>3
<1>8. ClaimsAreOpened'
  BY <1>2, <1>3, <1>4 DEF ClaimsAreOpened
<1>9. ChildIsUnborn'
  BY <1>2, <1>3 DEF ChildIsUnborn, Unforked
<1>10. ReadersAreOwned'
  BY <1>2, <1>3, <1>4 DEF ReadersAreOwned
<1>11. OneReader' /\ ChildIsSilent'
  BY <1>2, <1>3 DEF OneReader, ChildIsSilent
<1>12. NothingLeaks'
  <2>1. ASSUME NEW y \in Procs, NEW r \in Ports, registry'[y][r] # None
        PROVE \/ y \in file'[registry'[y][r]].holders /\ file'[registry'[y][r]].opener # y
              \/ \E q \in Objects : /\ Proc(q) = y
                                    /\ tr[q] = registry'[y][r] \/ (pc'[q] = "open" /\ then[q] = r)
    <3>1. CASE y = x /\ r = p
      BY <1>2, <3>1
    <3>2. CASE ~(y = x /\ r = p)
      <4>1. /\ registry'[y][r] = registry[y][r]
            /\ file'[registry[y][r]] = file[registry[y][r]]
            /\ \A q \in Objects : pc[q] = "open" => pc'[q] = "open"
        BY <1>2, <1>4, <2>1, <3>2
      <4>2. QED
        BY <2>1, <4>1 DEF NothingLeaks
    <3>3. QED
      BY <3>1, <3>2
  <2>2. \A j \in Ids : file'[j].opener \in file'[j].holders =>
          registry'[file'[j].opener][file'[j].port] = j
    BY <1>2, <1>3 DEF Typed, Description, NothingLeaks, ClaimsAreOpened
  <2>3. QED
    BY <2>1, <2>2 DEF NothingLeaks
<1>13. QED
  BY <1>1, <1>5, <1>6, <1>7, <1>8, <1>9, <1>10, <1>11, <1>12

LEMMA ClaimStep == ASSUME SessionInv, NEW o \in Objects, Claim(o) PROVE SessionInv'
<1> USE ProcOfObject, NoneIsNothing DEF Goto, Then, armVars, cartVars, envVars, osVars
<1> DEFINE x == Proc(o)  p == then[o]  i == Unused
<1>1. x \in Procs /\ p \in Ports /\ pc[o] = "claim" /\ x \in alive /\ tr[o] = None
  BY BusyMeansAlive DEF Claim, SessionInv, SessionsAreHeld, Held
<1>2. CASE registry[x][p] # None
  <2>1. Untouched /\ OthersAsBefore(o) /\ pc[o] # "open" /\ pc'[o] # "open" /\ alive' = alive
    BY <1>1, <1>2 DEF Claim, Untouched, OthersAsBefore, SessionInv, Typed
  <2>2. Typed'
    BY <1>1, <1>2 DEF Claim, SessionInv, Typed, Phases
  <2>3. Held(o)'
    BY <1>1, <1>2 DEF Claim, SessionInv, SessionsAreHeld, Held, Typed, Own
  <2>4. QED
    BY <1>1, <2>1, <2>2, <2>3, QuietStep
<1>3. CASE registry[x][p] = None
  <2>1. i \in Fresh
    BY <1>1, <1>3 DEF Claim, Unused
  <2>2. /\ i \in Ids /\ file[i] = Unopened
        /\ registry' = [registry EXCEPT ![x] = [registry[x] EXCEPT ![p] = i]]
        /\ file' = [file EXCEPT ![i] = Opened(p, x, {}, "none")]
        /\ pc' = [pc EXCEPT ![o] = "open"]
        /\ UNCHANGED <<then, tr, pid, facts, dfu, keeper, alive>>
    BY <1>1, <1>3, <2>1 DEF Claim, Fresh
  <2>3. QED
    BY <1>1, <1>3, <2>2, ClaimTaken
<1>4. QED
  BY <1>2, <1>3

\* open, flock or termios fail: the claim is taken back, and nothing is left of it.
LEMMA OpenFailsStep == ASSUME SessionInv, NEW o \in Objects, OpenFails(o) PROVE SessionInv'
<1> DEFINE x == Proc(o)  p == then[o]  i == Claimed(o)
<1> USE ProcOfObject, NoneIsNothing DEF SessionInv
<1>1. /\ x \in Procs /\ p \in Ports /\ i \in Ids /\ i = registry[x][p] /\ tr[o] = None
      /\ pc[o] = "open" /\ file[i] = Opened(p, x, {}, "none") /\ x \in alive
  BY BusyMeansAlive DEF OpenFails, SessionsAreHeld, Held, OpensAreClaimed, Claimed
<1>2. /\ registry' = [registry EXCEPT ![x] = [registry[x] EXCEPT ![p] = None]]
      /\ file' = [file EXCEPT ![i] = Unopened]
      /\ pc' = [pc EXCEPT ![o] = "idle"] /\ then' = [then EXCEPT ![o] = "end"]
      /\ UNCHANGED <<tr, pid, facts, dfu, keeper, alive>>
  BY DEF OpenFails, Goto, Then, armVars, envVars
<1>3. Typed'
  BY <1>1, <1>2 DEF Typed, Phases, Unopened, Opened, Description
<1>4. /\ registry'[x][p] = None /\ pc'[o] = "idle"
      /\ \A y \in Procs, r \in Ports : y # x \/ r # p => registry'[y][r] = registry[y][r]
      /\ \A j \in Ids : j # i => file'[j] = file[j]
      /\ \A q \in Objects : q # o => pc'[q] = pc[q] /\ then'[q] = then[q]
  BY <1>1, <1>2 DEF Typed
<1>5. /\ file[i].port = p /\ file[i].opener = x /\ file[i].holders = {}
      /\ file'[i].port = None /\ file'[i].opener = None /\ file'[i].holders = {}
      /\ file'[i].reader = "none" /\ ~file'[i].alien
  BY <1>1, <1>2 DEF Typed, Unopened, Opened
<1>6. \A q \in Objects : tr[q] # None => tr[q] \in Ids /\ tr[q] # i
  BY <1>5 DEF Typed, SessionsAreHeld, Held
<1>7. \A q \in Objects : q # o /\ pc[q] = "open" => Claimed(q) # i
  <2>1. SUFFICES ASSUME NEW q \in Objects, pc[q] = "open", Claimed(q) = i PROVE q = o
    OBVIOUS
  <2>2. file[Claimed(q)] = Opened(then[q], Proc(q), {}, "none")
    BY <2>1 DEF OpensAreClaimed
  <2>4. Opened(then[q], Proc(q), {}, "none") = Opened(p, x, {}, "none")
    BY <1>1, <2>1, <2>2
  <2>5. then[q] = p /\ Proc(q) = x
    BY <2>4 DEF Opened
  <2>3. QED
    BY <1>1, <2>1, <2>5 DEF SessionsAreDistinct
<1>8. \A y \in Procs, r \in Ports : registry[y][r] # None =>
        registry[y][r] \in Ids /\ (y # x \/ r # p => registry[y][r] # i)
  <2>1. SUFFICES ASSUME NEW y \in Procs, NEW r \in Ports, registry[y][r] = i, y # x \/ r # p
                 PROVE FALSE
    BY DEF Typed
  <2>2. r = p
    BY <1>1, <1>5, <2>1 DEF ClaimsAreOpened
  <2>3. PICK q \in Objects : Proc(q) = y /\ (tr[q] = i \/ (pc[q] = "open" /\ then[q] = p))
    BY <1>1, <1>5, <2>1, <2>2 DEF NothingLeaks
  <2>4. pc[q] = "open" /\ Claimed(q) = i
    BY <1>1, <1>6, <2>1, <2>2, <2>3 DEF Claimed
  <2>5. QED
    BY <1>7, <2>1, <2>2, <2>3, <2>4
<1>9. SessionsAreHeld'
  <2>1. SUFFICES ASSUME NEW q \in Objects PROVE Held(q)'
    BY DEF SessionsAreHeld
  <2>2. Held(q)
    BY DEF SessionsAreHeld
  <2>3. QED
    BY <1>1, <1>2, <1>4, <1>6, <2>2 DEF Held, Own
<1>10. SessionsAreDistinct'
  BY <1>2, <1>4 DEF SessionsAreDistinct
<1>11. OpensAreClaimed'
  <2>1. SUFFICES ASSUME NEW q \in Objects, pc'[q] = "open"
                 PROVE /\ Claimed(q)' \in Ids
                       /\ file'[Claimed(q)'] = Opened(then'[q], Proc(q), {}, "none")
    BY DEF OpensAreClaimed
  <2>2. /\ q # o /\ pc[q] = "open" /\ then'[q] = then[q] /\ then[q] \in Ports
        /\ Proc(q) \in Procs
    BY <1>4, <2>1 DEF SessionsAreHeld, Held
  <2>3. Proc(q) # x \/ then[q] # p
    BY <1>7, <2>2 DEF Claimed
  <2>4. Claimed(q)' = Claimed(q)
    BY <1>4, <2>2, <2>3 DEF Claimed
  <2>5. QED
    BY <1>4, <1>7, <2>2, <2>4 DEF OpensAreClaimed
<1>12. ClaimsAreOpened'
  BY <1>4, <1>5, <1>8 DEF ClaimsAreOpened
<1>13. ChildIsUnborn'
  BY <1>2, <1>4, <1>5 DEF ChildIsUnborn, Unforked
<1>14. ReadersAreOwned'
  BY <1>2, <1>4, <1>5, <1>6 DEF ReadersAreOwned
<1>15. OneReader' /\ ChildIsSilent'
  BY <1>4, <1>5 DEF OneReader, ChildIsSilent
<1>16. NothingLeaks'
  <2>1. ASSUME NEW y \in Procs, NEW r \in Ports, registry'[y][r] # None
        PROVE \/ y \in file'[registry'[y][r]].holders /\ file'[registry'[y][r]].opener # y
              \/ \E q \in Objects : /\ Proc(q) = y
                                    /\ \/ tr[q] = registry'[y][r]
                                       \/ pc'[q] = "open" /\ then'[q] = r
    <3>1. /\ y # x \/ r # p
          /\ registry'[y][r] = registry[y][r]
          /\ file'[registry[y][r]] = file[registry[y][r]]
      BY <1>4, <1>8, <2>1
    <3>2. \A q \in Objects : Proc(q) = y /\ pc[q] = "open" /\ then[q] = r =>
            pc'[q] = "open" /\ then'[q] = r
      BY <1>4, <1>8, <2>1
    <3>3. QED
      BY <2>1, <3>1, <3>2 DEF NothingLeaks
  <2>2. \A j \in Ids : file'[j].opener \in file'[j].holders =>
          registry'[file'[j].opener][file'[j].port] = j
    <3>1. SUFFICES ASSUME NEW j \in Ids, file'[j].opener \in file'[j].holders
                   PROVE registry'[file'[j].opener][file'[j].port] = j
      OBVIOUS
    <3>2. j # i /\ file'[j] = file[j]
      BY <1>4, <1>5, <3>1
    <3>3. registry[file[j].opener][file[j].port] = j
      BY <3>1, <3>2 DEF NothingLeaks
    <3>4. file[j].opener \in Procs /\ file[j].port \in Ports
      BY <3>1, <3>2 DEF Typed, Description, ClaimsAreOpened
    <3>5. QED
      BY <1>1, <1>4, <3>2, <3>3, <3>4
  <2>3. QED
    BY <1>2, <2>1, <2>2 DEF NothingLeaks
<1>17. QED
  BY <1>3, <1>9, <1>10, <1>11, <1>12, <1>13, <1>14, <1>15, <1>16

\* The transport is built: the description has a holder and a reader, the Arm has a session.
LEMMA SessionIsOpened ==
  ASSUME SessionInv, NEW o \in Objects, NEW x \in Procs, NEW p \in Ports, NEW i \in Ids,
         x = Proc(o), p = then[o], i = Claimed(o), i = registry[x][p], x \in alive,
         pc[o] = "open", tr[o] = None, facts[o] = None, keeper[o] # "running",
         file[i] = Opened(p, x, {}, "none"), ~Locked(p),
         file' = [file EXCEPT ![i] = Opened(p, x, {x}, "live")],
         tr' = [tr EXCEPT ![o] = i], pid' = [pid EXCEPT ![o] = x],
         pc' = [pc EXCEPT ![o] = "rebuild"], then' = [then EXCEPT ![o] = "end"],
         UNCHANGED <<facts, dfu, keeper, registry, alive>>
  PROVE  SessionInv'
<1> USE ProcOfObject, NoneIsNothing DEF SessionInv
<1>3. Typed'
  BY DEF Typed, Phases, Opened, Description
<1>4. /\ pc'[o] = "rebuild" /\ tr'[o] = i /\ pid'[o] = x
      /\ \A j \in Ids : j # i => file'[j] = file[j]
      /\ \A q \in Objects : q # o => /\ pc'[q] = pc[q] /\ then'[q] = then[q]
                                     /\ tr'[q] = tr[q] /\ pid'[q] = pid[q]
  BY DEF Typed
<1>5. /\ file[i].port = p /\ file[i].opener = x /\ file[i].holders = {}
      /\ file'[i].port = p /\ file'[i].opener = x /\ file'[i].holders = {x}
      /\ file'[i].reader = "live" /\ ~file'[i].alien
  BY DEF Typed, Opened
<1>6. \A q \in Objects : tr[q] # None => tr[q] \in Ids /\ tr[q] # i
  BY <1>5, SMTT(30) DEF Typed, SessionsAreHeld, Held
<1>7. \A q \in Objects : q # o /\ pc[q] = "open" => Claimed(q) # i
  <2>1. SUFFICES ASSUME NEW q \in Objects, pc[q] = "open", Claimed(q) = i PROVE q = o
    OBVIOUS
  <2>2. file[Claimed(q)] = Opened(then[q], Proc(q), {}, "none")
    BY <2>1 DEF OpensAreClaimed
  <2>3. Opened(then[q], Proc(q), {}, "none") = Opened(p, x, {}, "none")
    BY <2>1, <2>2
  <2>4. then[q] = p /\ Proc(q) = x
    BY <2>3 DEF Opened
  <2>5. QED
    BY <2>1, <2>4 DEF SessionsAreDistinct
<1>8. SessionsAreHeld'
  <2>1. SUFFICES ASSUME NEW q \in Objects PROVE Held(q)'
    BY DEF SessionsAreHeld
  <2>2. CASE q = o
    <3>1. /\ tr'[o] = i /\ i # None /\ file'[tr'[o]].opener = x /\ x \in file'[tr'[o]].holders
          /\ pid'[o] = x /\ facts'[o] = None /\ pc'[o] = "rebuild" /\ keeper'[o] # "running"
      BY <1>4, <1>5
    <3>2. QED
      BY <2>2, <3>1 DEF Held, Own
  <2>3. CASE q # o
    <3>1. Held(q)
      BY DEF SessionsAreHeld
    <3>2. QED
      BY <1>4, <1>6, <2>3, <3>1 DEF Held, Own
  <2>4. QED
    BY <2>2, <2>3
<1>9. SessionsAreDistinct'
  BY <1>4, <1>6 DEF SessionsAreDistinct
<1>10. OpensAreClaimed'
  <2>1. SUFFICES ASSUME NEW q \in Objects, pc'[q] = "open"
                 PROVE /\ Claimed(q)' \in Ids
                       /\ file'[Claimed(q)'] = Opened(then'[q], Proc(q), {}, "none")
    BY DEF OpensAreClaimed
  <2>2. q # o /\ pc[q] = "open" /\ then'[q] = then[q]
    BY <1>4, <2>1
  <2>3. Claimed(q)' = Claimed(q)
    BY <2>2 DEF Claimed
  <2>4. QED
    BY <1>4, <1>7, <2>2, <2>3 DEF OpensAreClaimed
<1>11. ClaimsAreOpened'
  <2>1. \A j \in Ids : file'[j].port = file[j].port /\ file'[j].opener = file[j].opener
    BY <1>4, <1>5
  <2>2. ASSUME NEW y \in Procs, NEW r \in Ports, registry'[y][r] # None
        PROVE file'[registry'[y][r]].port = r
    <3>1. registry[y][r] \in Ids /\ file[registry[y][r]].port = r
      BY <2>2 DEF Typed, ClaimsAreOpened
    <3>2. QED
      BY <2>1, <3>1
  <2>3. ASSUME NEW j \in Ids
        PROVE /\ file'[j].port \in Ports <=> file'[j].opener \in Procs
              /\ file'[j].holders # {} => file'[j].opener \in Procs
    BY <1>4, <1>5 DEF ClaimsAreOpened
  <2>4. QED
    BY <2>2, <2>3 DEF ClaimsAreOpened
<1>12. ChildIsUnborn'
  BY <1>4, <1>5 DEF ChildIsUnborn, Unforked, Procs
<1>13. ReadersAreOwned'
  <2>1. SUFFICES ASSUME NEW j \in Ids, file'[j].reader = "live"
                 PROVE /\ file'[j].opener \in file'[j].holders
                       /\ \E q \in Objects : /\ tr'[q] = j /\ Proc(q) = file'[j].opener
                                             /\ pid'[q] = Proc(q)
    BY DEF ReadersAreOwned
  <2>2. CASE j = i
    BY <1>4, <1>5, <2>2
  <2>3. CASE j # i
    BY <1>4, <1>6, <2>1, <2>3 DEF ReadersAreOwned
  <2>4. QED
    BY <2>2, <2>3
<1>14. OneReader'
  <2>1. \A j \in Ids : file[j].reader = "live" /\ ~file[j].lost => file[j].port # p
    BY DEF Locked, ReadersAreOwned
  <2>2. QED
    BY <1>4, <1>5, <2>1 DEF OneReader
<1>15. ChildIsSilent'
  BY <1>4, <1>5 DEF ChildIsSilent
<1>16. NothingLeaks'
  <2>1. ASSUME NEW y \in Procs, NEW r \in Ports, registry'[y][r] # None
        PROVE \/ y \in file'[registry'[y][r]].holders /\ file'[registry'[y][r]].opener # y
              \/ \E q \in Objects : /\ Proc(q) = y
                                    /\ \/ tr'[q] = registry'[y][r]
                                       \/ pc'[q] = "open" /\ then'[q] = r
    <3>1. CASE y = x /\ r = p
      BY <1>4, <3>1
    <3>2. CASE ~(y = x /\ r = p)
      <4>1. \A q \in Objects : tr[q] = registry[y][r] => tr'[q] = registry[y][r]
        BY <1>4, <2>1
      <4>2. \A q \in Objects : Proc(q) = y /\ pc[q] = "open" /\ then[q] = r =>
              pc'[q] = "open" /\ then'[q] = r
        BY <1>4, <3>2
      <4>3. \A j \in Ids : y \in file[j].holders /\ file[j].opener # y =>
              y \in file'[j].holders /\ file'[j].opener # y
        BY <1>4, <1>5
      <4>4. registry[y][r] \in Ids /\ registry'[y][r] = registry[y][r]
        BY <2>1 DEF Typed
      <4>5. CASE y \in file[registry[y][r]].holders /\ file[registry[y][r]].opener # y
        BY <4>3, <4>4, <4>5
      <4>6. CASE \E q \in Objects : /\ Proc(q) = y
                                    /\ tr[q] = registry[y][r] \/ (pc[q] = "open" /\ then[q] = r)
        BY <4>1, <4>2, <4>4, <4>6
      <4>7. QED
        BY <4>4, <4>5, <4>6, NoneIsNothing DEF NothingLeaks
    <3>3. QED
      BY <3>1, <3>2
  <2>2. ASSUME NEW j \in Ids, file'[j].opener \in file'[j].holders
        PROVE  registry'[file'[j].opener][file'[j].port] = j
    <3>1. CASE j = i
      BY <1>5, <3>1
    <3>2. CASE j # i
      BY <1>4, <2>2, <3>2 DEF NothingLeaks
    <3>3. QED
      BY <3>1, <3>2
  <2>3. QED
    BY <2>1, <2>2 DEF NothingLeaks
<1>17. QED
  BY <1>3, <1>8, <1>9, <1>10, <1>11, <1>12, <1>13, <1>14, <1>15, <1>16

LEMMA OpenStep == ASSUME SessionInv, NEW o \in Objects, Open(o) PROVE SessionInv'
<1> DEFINE x == Proc(o)  p == then[o]  i == Claimed(o)
<1>1. /\ x \in Procs /\ p \in Ports /\ i \in Ids /\ i = registry[x][p] /\ tr[o] = None
      /\ pc[o] = "open" /\ file[i] = Opened(p, x, {}, "none") /\ x \in alive
      /\ keeper[o] # "running" /\ facts[o] = None
  BY ProcOfObject, BusyMeansAlive
     DEF SessionInv, Open, SessionsAreHeld, Held, OpensAreClaimed, Claimed
<1>2. /\ file' = [file EXCEPT ![i] = Opened(p, x, {x}, "live")]
      /\ tr' = [tr EXCEPT ![o] = i] /\ pid' = [pid EXCEPT ![o] = x]
      /\ pc' = [pc EXCEPT ![o] = "rebuild"] /\ then' = [then EXCEPT ![o] = "end"]
      /\ UNCHANGED <<facts, dfu, keeper, registry, alive>> /\ ~Locked(p)
  BY DEF Open, Goto, Then, envVars
<1> HIDE DEF x, p, i
<1>3. x = Proc(o) /\ p = then[o] /\ i = Claimed(o)
  BY DEF x, p, i
<1>4. QED
  BY <1>1, <1>2, <1>3, SessionIsOpened

\* A session i of process x ends on port p: its description goes with the last holder.
Shuts(o, x, i, p) ==
  /\ x = Proc(o) /\ i = tr[o] /\ p = file[i].port /\ x \in alive /\ alive' = alive
  /\ file[i].opener = x /\ x \in file[i].holders /\ file[i].reader = "dead"
  /\ registry[x][p] = i /\ keeper[o] # "running" /\ keeper' = keeper /\ pc[o] = "join"
  /\ file' = [file EXCEPT ![i] = LetGo(file[i], x)]
  /\ registry' = [registry EXCEPT ![x] = [registry[x] EXCEPT ![p] = None]]
  /\ tr' = [tr EXCEPT ![o] = None] /\ pid' = [pid EXCEPT ![o] = None]
  /\ facts' = [facts EXCEPT ![o] = None] /\ dfu' \in [Objects -> BOOLEAN]
  /\ pc'[o] \in {"claim", "idle"} /\ (pc'[o] = "claim" => then'[o] \in Ports)
  /\ pc' \in [Objects -> Phases] /\ then' \in [Objects -> Ports \cup {"end", "dfu"}]
  /\ tr'[o] = None /\ pid'[o] = None /\ facts'[o] = None
  /\ \A q \in Objects : q # o => /\ pc'[q] = pc[q] /\ then'[q] = then[q]
                                 /\ tr'[q] = tr[q] /\ pid'[q] = pid[q]
                                 /\ facts'[q] = facts[q]

LEMMA SessionIsShut ==
  ASSUME SessionInv, NEW o \in Objects, NEW x \in Procs, NEW i \in Ids, NEW p \in Ports,
         Shuts(o, x, i, p)
  PROVE  SessionInv'
<1> USE ProcOfObject, NoneIsNothing DEF SessionInv, Shuts
<1> DEFINE d == file[i]
<1>1. /\ d \in Description
      /\ LetGo(d, x) = IF d.holders = {x} THEN Unopened ELSE [d EXCEPT !.holders = @ \ {x}]
  BY DEF Typed, LetGo
<1>2. /\ LetGo(d, x) \in Description
      /\ LetGo(d, x).reader \in {"dead", "none"} /\ ~LetGo(d, x).alien
      /\ x \notin LetGo(d, x).holders /\ LetGo(d, x).holders \subseteq d.holders
      /\ \A y \in Procs : y # x /\ y \in d.holders =>
           /\ y \in LetGo(d, x).holders
           /\ LetGo(d, x).opener = x /\ LetGo(d, x).port = p
      /\ LetGo(d, x).port \in Ports <=> LetGo(d, x).opener \in Procs
      /\ LetGo(d, x).holders # {} => LetGo(d, x).opener \in Procs
      /\ LetGo(d, x).opener \in {x, None}
  <2>1. ~d.alien
    BY DEF ChildIsSilent
  <2>2. CASE d.holders = {x}
    BY <1>1, <2>2 DEF Unopened, Opened, Description
  <2>3. CASE d.holders # {x}
    <3>1. LetGo(d, x) = [d EXCEPT !.holders = d.holders \ {x}]
      BY <1>1, <2>3
    <3>2. QED
      BY <1>1, <2>1, <2>3, <3>1 DEF Description
  <2>4. QED
    BY <2>2, <2>3
<1>3. /\ file' \in [Ids -> Description] /\ file'[i] = LetGo(d, x)
      /\ \A j \in Ids : j # i => file'[j] = file[j]
      /\ registry'[x][p] = None
      /\ \A y \in Procs, r \in Ports : y # x \/ r # p => registry'[y][r] = registry[y][r]
      /\ registry' \in [Procs -> [Ports -> Ids \cup {None}]]
  BY <1>2 DEF Typed
<1> HIDE DEF d
<1> DEFINE gone == file'[i]
<1>4. /\ gone.reader # "live" /\ ~gone.alien /\ x \notin gone.holders
      /\ \A y \in Procs : y # x /\ y \in file[i].holders =>
           y \in gone.holders /\ gone.opener = x /\ gone.port = p
      /\ gone.port \in Ports <=> gone.opener \in Procs
      /\ gone.holders # {} => gone.opener \in Procs
      /\ gone.opener \in {x, None}
      /\ "child" \in gone.holders => "child" \in file[i].holders
  BY <1>2, <1>3 DEF d, Procs
<1> HIDE DEF gone
<1>5. Typed'
  BY <1>3 DEF Typed
<1>6. \A q \in Objects : q # o /\ tr[q] = i => Proc(q) # x /\ Proc(q) \in file[i].holders
  BY DEF SessionsAreDistinct, SessionsAreHeld, Held
<1>7. \A y \in Procs, r \in Ports : registry'[y][r] # None =>
        /\ registry'[y][r] = registry[y][r] /\ registry[y][r] \in Ids
        /\ registry[y][r] = i => y # x /\ y \in file[i].holders
  <2>1. SUFFICES ASSUME NEW y \in Procs, NEW r \in Ports, registry'[y][r] # None
                 PROVE /\ registry'[y][r] = registry[y][r] /\ registry[y][r] \in Ids
                       /\ registry[y][r] = i => y # x /\ y \in file[i].holders
    OBVIOUS
  <2>2. (y # x \/ r # p) /\ registry'[y][r] = registry[y][r] /\ registry[y][r] \in Ids
    BY <1>3, <2>1 DEF Typed
  <2>3. ASSUME registry[y][r] = i PROVE y # x /\ y \in file[i].holders
    <3>1. r = p /\ y # x
      BY <2>2, <2>3 DEF ClaimsAreOpened
    <3>2. \/ y \in file[i].holders
          \/ \E q \in Objects : /\ Proc(q) = y
                                /\ tr[q] = i \/ (pc[q] = "open" /\ then[q] = r)
      BY <2>2, <2>3 DEF NothingLeaks
    <3>3. ASSUME NEW q \in Objects, Proc(q) = y, pc[q] = "open", then[q] = r PROVE FALSE
      <4>1. Claimed(q) = i /\ file[Claimed(q)] = Opened(then[q], Proc(q), {}, "none")
        BY <2>3, <3>3 DEF OpensAreClaimed, Claimed
      <4>2. file[i].holders = {}
        BY <4>1 DEF Opened
      <4>3. QED
        BY <4>2
    <3>4. QED
      BY <1>6, <3>1, <3>2, <3>3
  <2>4. QED
    BY <2>2, <2>3
<1>8. SessionsAreHeld'
  <2>1. SUFFICES ASSUME NEW q \in Objects PROVE Held(q)'
    BY DEF SessionsAreHeld
  <2>2. CASE q = o
    BY <2>2 DEF Held, Own
  <2>3. CASE q # o
    <3>1. Held(q)
      BY DEF SessionsAreHeld
    <3>2. CASE tr[q] = i
      <4>1. file'[tr[q]].opener = file[tr[q]].opener /\ Proc(q) \in file'[tr[q]].holders
        BY <1>4, <1>6, <2>3, <3>2 DEF gone
      <4>2. QED
        BY <2>3, <3>1, <3>2, <4>1 DEF Held, Own
    <3>3. CASE tr[q] # i
      <4>1. tr[q] # None => file'[tr[q]] = file[tr[q]]
        BY <1>3, <3>3 DEF Typed
      <4>2. QED
        BY <2>3, <3>1, <4>1 DEF Held, Own
    <3>4. QED
      BY <3>2, <3>3
  <2>4. QED
    BY <2>2, <2>3
<1>9. SessionsAreDistinct'
  <2>1. SUFFICES ASSUME NEW q \in Objects, NEW r \in Objects, Proc(q) = Proc(r)
                 PROVE /\ tr'[q] # None /\ tr'[q] = tr'[r] => q = r
                       /\ pc'[q] = "open" /\ pc'[r] = "open" /\ then'[q] = then'[r] => q = r
    BY DEF SessionsAreDistinct
  <2>2. QED
    BY <2>1 DEF SessionsAreDistinct
<1>10. OpensAreClaimed'
  <2>1. SUFFICES ASSUME NEW q \in Objects, pc'[q] = "open"
                 PROVE /\ Claimed(q)' \in Ids
                       /\ file'[Claimed(q)'] = Opened(then'[q], Proc(q), {}, "none")
    BY DEF OpensAreClaimed
  <2>2. q # o /\ pc[q] = "open" /\ then'[q] = then[q]
    BY <2>1
  <2>3. then[q] \in Ports /\ Proc(q) \in Procs
    BY <2>2 DEF SessionsAreHeld, Held
  <2>4. Claimed(q) \in Ids /\ file[Claimed(q)] = Opened(then[q], Proc(q), {}, "none")
    BY <2>2 DEF OpensAreClaimed
  <2>5. file[Claimed(q)].holders = {}
    BY <2>4 DEF Opened
  <2>6. Claimed(q) # i
    BY <2>5
  <2>7. Claimed(q)' = Claimed(q)
    BY <1>3, <2>2, <2>3, <2>6 DEF Claimed
  <2>8. QED
    BY <1>3, <2>2, <2>4, <2>6, <2>7
<1>11. ClaimsAreOpened'
  <2>1. ASSUME NEW y \in Procs, NEW r \in Ports, registry'[y][r] # None
        PROVE file'[registry'[y][r]].port = r
    <3>1. file[registry[y][r]].port = r
      BY <1>7, <2>1 DEF ClaimsAreOpened
    <3>2. QED
      BY <1>3, <1>4, <1>7, <2>1, <3>1 DEF gone
  <2>2. ASSUME NEW j \in Ids
        PROVE /\ file'[j].port \in Ports <=> file'[j].opener \in Procs
              /\ file'[j].holders # {} => file'[j].opener \in Procs
    BY <1>3, <1>4 DEF ClaimsAreOpened, gone
  <2>3. QED
    BY <2>1, <2>2 DEF ClaimsAreOpened
<1>12. ChildIsUnborn'
  BY <1>3, <1>4 DEF ChildIsUnborn, Unforked, gone
<1>13. ReadersAreOwned'
  <2>1. SUFFICES ASSUME NEW j \in Ids, file'[j].reader = "live"
                 PROVE /\ file'[j].opener \in file'[j].holders
                       /\ \E q \in Objects : /\ tr'[q] = j /\ Proc(q) = file'[j].opener
                                             /\ pid'[q] = Proc(q)
    BY DEF ReadersAreOwned
  <2>2. j # i /\ file'[j] = file[j]
    BY <1>3, <1>4, <2>1 DEF gone
  <2>3. QED
    BY <2>1, <2>2 DEF ReadersAreOwned
<1>14. OneReader' /\ ChildIsSilent'
  BY <1>3, <1>4, SMTT(40) DEF OneReader, ChildIsSilent, gone
<1>15. NothingLeaks'
  <2>1. ASSUME NEW y \in Procs, NEW r \in Ports, registry'[y][r] # None
        PROVE \/ y \in file'[registry'[y][r]].holders /\ file'[registry'[y][r]].opener # y
              \/ \E q \in Objects : /\ Proc(q) = y
                                    /\ \/ tr'[q] = registry'[y][r]
                                       \/ pc'[q] = "open" /\ then'[q] = r
    <3>1. CASE registry[y][r] = i
      BY <1>4, <1>7, <2>1, <3>1 DEF gone
    <3>2. CASE registry[y][r] # i
      <4>1. \A q \in Objects : tr[q] = registry[y][r] => tr'[q] = registry[y][r]
        BY <3>2
      <4>2. \A q \in Objects : Proc(q) = y /\ pc[q] = "open" /\ then[q] = r =>
              pc'[q] = "open" /\ then'[q] = r
        OBVIOUS
      <4>3. registry'[y][r] = registry[y][r] /\ file'[registry[y][r]] = file[registry[y][r]]
        BY <1>3, <1>7, <2>1, <3>2
      <4>4. QED
        BY <2>1, <4>1, <4>2, <4>3 DEF NothingLeaks
    <3>3. QED
      BY <3>1, <3>2
  <2>2. ASSUME NEW j \in Ids, file'[j].opener \in file'[j].holders
        PROVE  registry'[file'[j].opener][file'[j].port] = j
    <3>1. j # i /\ file'[j] = file[j]
      BY <1>3, <1>4, <2>2, NoneIsNothing DEF gone, Typed, Description
    <3>2. registry[file[j].opener][file[j].port] = j
      BY <2>2, <3>1 DEF NothingLeaks
    <3>3. file[j].opener \in Procs /\ file[j].port \in Ports
      BY <2>2, <3>1 DEF Typed, Description, ClaimsAreOpened
    <3>4. QED
      BY <1>3, <3>1, <3>2, <3>3
  <2>3. QED
    BY <2>1, <2>2 DEF NothingLeaks
<1>16. QED
  BY <1>5, <1>8, <1>9, <1>10, <1>11, <1>12, <1>13, <1>14, <1>15

\* The reader has left its loop: the transport is closed and the port released.
LEMMA ShutStep == ASSUME SessionInv, NEW o \in Objects, Shut(o) PROVE SessionInv'
<1> DEFINE x == Proc(o)  i == tr[o]  p == file[i].port
<1>1. /\ x \in Procs /\ x \in alive /\ pc[o] = "join" /\ keeper[o] # "running"
      /\ tr' = [tr EXCEPT ![o] = None] /\ pid' = [pid EXCEPT ![o] = None]
      /\ facts' = [facts EXCEPT ![o] = None] /\ keeper' = keeper /\ alive' = alive
      /\ dfu' \in [Objects -> BOOLEAN]
      /\ pc'[o] \in {"claim", "idle"} /\ (pc'[o] = "claim" => then'[o] \in Ports)
      /\ pc' \in [Objects -> Phases] /\ then' \in [Objects -> Ports \cup {"end", "dfu"}]
      /\ \A q \in Objects : q # o => pc'[q] = pc[q] /\ then'[q] = then[q]
  <2>1. x \in Procs /\ x \in alive /\ pc[o] = "join" /\ keeper[o] # "running"
    BY ProcOfObject, BusyMeansAlive DEF SessionInv, Shut, SessionsAreHeld, Held
  <2>2. /\ tr' = [tr EXCEPT ![o] = None] /\ pid' = [pid EXCEPT ![o] = None]
        /\ facts' = [facts EXCEPT ![o] = None] /\ keeper' = keeper /\ alive' = alive
        /\ dfu' \in [Objects -> BOOLEAN]
    BY DEF SessionInv, Shut, envVars, Typed
  <2>3. \/ then[o] \in Ports /\ pc' = [pc EXCEPT ![o] = "claim"] /\ then' = then
        \/ pc' = [pc EXCEPT ![o] = "idle"] /\ then' = [then EXCEPT ![o] = "end"]
    BY DEF Shut, Goto, Then
  <2>4. /\ pc \in [Objects -> Phases] /\ then \in [Objects -> Ports \cup {"end", "dfu"}]
        /\ {"claim", "idle"} \subseteq Phases
    BY DEF SessionInv, Typed, Phases
  <2>5. QED
    BY <2>1, <2>2, <2>3, <2>4
<1>2. /\ tr'[o] = None /\ pid'[o] = None /\ facts'[o] = None
      /\ \A q \in Objects : q # o => /\ tr'[q] = tr[q] /\ pid'[q] = pid[q]
                                     /\ facts'[q] = facts[q]
  BY <1>1 DEF SessionInv, Typed
<1>3. CASE tr[o] = None
  <2>1. Untouched /\ OthersAsBefore(o)
    BY <1>1, <1>2, <1>3 DEF SessionInv, Shut, Untouched, OthersAsBefore, Typed, SessionsAreHeld, Held
  <2>2. Typed'
    BY <1>1, <2>1 DEF SessionInv, Untouched, Typed
  <2>3. Held(o)'
    BY <1>1, <1>2, NoneIsNothing DEF Held, Own
  <2>4. QED
    BY <1>1, <2>1, <2>2, <2>3, QuietStep
<1>4. CASE tr[o] # None
  <2>1. /\ i \in Ids /\ p \in Ports /\ file[i].opener = x /\ x \in file[i].holders
        /\ file[i].reader = "dead" /\ registry[x][p] = i
    BY <1>1, <1>4, NoneIsNothing
       DEF SessionInv, Shut, Typed, SessionsAreHeld, Held, Own, ClaimsAreOpened, NothingLeaks
  <2>2. /\ file' = [file EXCEPT ![i] = LetGo(file[i], x)]
        /\ registry' = [registry EXCEPT ![x] = [registry[x] EXCEPT ![p] = None]]
    BY <1>4, <2>1 DEF Shut, Port
  <2> HIDE DEF x, i, p
  <2>3. x = Proc(o) /\ i = tr[o] /\ p = file[i].port
    BY DEF x, i, p
  <2>4. \A q \in Objects : q # o => /\ pc'[q] = pc[q] /\ then'[q] = then[q]
                                    /\ tr'[q] = tr[q] /\ pid'[q] = pid[q]
                                    /\ facts'[q] = facts[q]
    BY <1>1, <1>2
  <2>5. Shuts(o, x, i, p)
    BY <1>1, <1>2, <2>1, <2>2, <2>3, <2>4 DEF Shuts
  <2>6. QED
    BY <1>1, <2>1, <2>5, SessionIsShut
<1>5. QED
  BY <1>3, <1>4

\* What changes of a description when its reader ends, or its device leaves.
SameButReader == \A j \in Ids :
  /\ file'[j].port = file[j].port /\ file'[j].opener = file[j].opener
  /\ file'[j].holders = file[j].holders /\ file'[j].alien = file[j].alien
  /\ file'[j].reader = "live" => file[j].reader = "live"
  /\ file[j].lost => file'[j].lost
  /\ file[j].holders = {} /\ file[j].reader = "none" => file'[j] = file[j]

LEMMA ReaderOrLinkEnds ==
  ASSUME SessionInv, file' \in [Ids -> Description], SameButReader,
         UNCHANGED <<callVars, armVars, registry, alive>>
  PROVE  SessionInv'
<1> USE ProcOfObject, NoneIsNothing
        DEF SessionInv, SameButReader, callVars, armVars
<1>1. Typed'
  BY DEF Typed
<1>2. /\ \A q \in Objects : tr[q] # None => tr[q] \in Ids
      /\ \A y \in Procs, r \in Ports : registry[y][r] # None => registry[y][r] \in Ids
  BY DEF Typed
<1>3. SessionsAreHeld'
  <2>1. SUFFICES ASSUME NEW q \in Objects PROVE Held(q)'
    BY DEF SessionsAreHeld
  <2>2. Held(q)
    BY DEF SessionsAreHeld
  <2>3. QED
    BY <1>2, <2>2 DEF Held, Own
<1>4. SessionsAreDistinct'
  BY DEF SessionsAreDistinct
<1>5. OpensAreClaimed'
  <2>1. SUFFICES ASSUME NEW q \in Objects, pc[q] = "open"
                 PROVE /\ Claimed(q) \in Ids
                       /\ file'[Claimed(q)] = Opened(then[q], Proc(q), {}, "none")
    BY DEF OpensAreClaimed, Claimed
  <2>2. Claimed(q) \in Ids /\ file[Claimed(q)] = Opened(then[q], Proc(q), {}, "none")
    BY <2>1 DEF OpensAreClaimed
  <2>3. file[Claimed(q)].holders = {} /\ file[Claimed(q)].reader = "none"
    BY <2>2 DEF Opened
  <2>4. QED
    BY <2>2, <2>3
<1>6. ClaimsAreOpened'
  BY <1>2 DEF ClaimsAreOpened
<1>7. ChildIsUnborn'
  BY DEF ChildIsUnborn, Unforked
<1>8. ReadersAreOwned' /\ OneReader' /\ ChildIsSilent'
  BY DEF ReadersAreOwned, OneReader, ChildIsSilent
<1>9. NothingLeaks'
  BY <1>2 DEF NothingLeaks
<1>10. QED
  BY <1>1, <1>3, <1>4, <1>5, <1>6, <1>7, <1>8, <1>9

LEMMA LeaveStep ==
  ASSUME SessionInv, NEW i \in Ids, file[i].reader = "live", Leave(i) PROVE SessionInv'
<1> DEFINE d == file[i]
<1>1. d \in Description /\ file \in [Ids -> Description]
  BY DEF SessionInv, Typed
<1>2. file' = [file EXCEPT ![i] = [d EXCEPT !.reader = "dead"]]
  BY DEF Leave
<1>3. SameButReader /\ file' \in [Ids -> Description]
  BY <1>1, <1>2 DEF SameButReader, Description
<1>4. QED
  BY <1>3, ReaderOrLinkEnds DEF Leave, envVars

LEMMA UnplugStep == ASSUME SessionInv, NEW p \in Ports, Unplug(p) PROVE SessionInv'
<1>1. file \in [Ids -> Description]
  BY DEF SessionInv, Typed
<1>2. \A j \in Ids : /\ file'[j] \in Description
                     /\ file'[j] = IF file[j].port = p /\ file[j].holders # {}
                                   THEN [file[j] EXCEPT !.lost = TRUE] ELSE file[j]
  BY <1>1 DEF Unplug, Description
<1>3. file' \in [Ids -> Description]
  BY <1>2 DEF Unplug
<1>4. SameButReader
  <2>1. SUFFICES ASSUME NEW j \in Ids
                 PROVE /\ file'[j].port = file[j].port /\ file'[j].opener = file[j].opener
                       /\ file'[j].holders = file[j].holders /\ file'[j].alien = file[j].alien
                       /\ file'[j].reader = "live" => file[j].reader = "live"
                       /\ file[j].lost => file'[j].lost
                       /\ file[j].holders = {} /\ file[j].reader = "none" => file'[j] = file[j]
    BY DEF SameButReader
  <2>2. CASE file[j].port = p /\ file[j].holders # {}
    <3>1. file[j] \in Description /\ file'[j] = [file[j] EXCEPT !.lost = TRUE]
      BY <1>1, <1>2, <2>2
    <3>2. QED
      BY <2>2, <3>1 DEF Description
  <2>3. CASE ~(file[j].port = p /\ file[j].holders # {})
    BY <1>2, <2>3
  <2>4. QED
    BY <2>2, <2>3
<1>5. QED
  BY <1>3, <1>4, ReaderOrLinkEnds DEF Unplug

----------------------------------------------------------------------------
(* The fork. *)

LEMMA OriginOfObject ==
  \A o \in Objects : /\ Origin(o) \in Objects /\ Proc(Origin(o)) = "parent"
                     /\ Proc(o) = "parent" => Origin(o) = o
                     /\ \A q \in Objects : Proc(o) = Proc(q) /\ Origin(o) = Origin(q) => o = q
<1>1. SUFFICES ASSUME NEW o \in Objects
               PROVE /\ Origin(o) \in Objects /\ Proc(Origin(o)) = "parent"
                     /\ Proc(o) = "parent" => Origin(o) = o
                     /\ \A q \in Objects : Proc(o) = Proc(q) /\ Origin(o) = Origin(q) => o = q
  OBVIOUS
<1>2. o = <<o[1], o[2]>> /\ o[1] \in Procs /\ o[2] \in Arms
  BY DEF Objects
<1>3. \A q \in Objects : q = <<q[1], q[2]>>
  BY DEF Objects
<1>4. QED
  BY <1>2, <1>3 DEF Origin, Proc, Objects, Procs

\* The child starts with copies of all handles and claims, and every description it got is
\* the parent's.
LEMMA ForkStep == ASSUME SessionInv, Fork PROVE SessionInv'
<1> USE ProcOfObject, NoneIsNothing, OriginOfObject DEF SessionInv
<1>1. /\ alive' = Procs /\ Unforked /\ then' = then /\ "parent" \in Procs /\ "child" \in Procs
      /\ \A o \in Objects : /\ pc'[o] = pc[Origin(o)] /\ tr'[o] = tr[Origin(o)]
                            /\ pid'[o] = pid[Origin(o)] /\ facts'[o] = facts[Origin(o)]
      /\ \A x \in Procs : registry'[x] = registry["parent"]
  BY DEF Fork, Copied, Procs
<1>2. \A o \in Objects : keeper'[o] = "running" => Proc(o) = "parent" /\ keeper[o] = "running"
  <2>1. SUFFICES ASSUME NEW o \in Objects, keeper'[o] = "running"
                 PROVE Proc(o) = "parent" /\ keeper[o] = "running"
    OBVIOUS
  <2>2. keeper'[o] = IF Proc(o) = "child" /\ keeper[Origin(o)] = "running"
                     THEN "handle" ELSE keeper[Origin(o)]
    BY DEF Fork
  <2>3. keeper[Origin(o)] = "running" /\ Proc(o) # "child"
    BY <2>1, <2>2
  <2>4. Proc(o) = "parent"
    BY <2>3 DEF Procs
  <2>5. QED
    BY <2>3, <2>4
<1>3. \A o \in Objects : Proc(o) = "parent" => pc[o] \in {"idle", "up"}
  BY DEF Fork, Resting, AtRest, Objects, Proc
<1>4. \A i \in Ids :
        /\ file[i].holders \subseteq {"parent"} /\ file[i].opener \in {"parent", None}
        /\ file'[i] = IF file[i].holders = {} THEN file[i] ELSE [file[i] EXCEPT !.holders = Procs]
  BY <1>1 DEF Fork, ChildIsUnborn, Typed, Description, Procs
<1>5. \A i \in Ids :
        /\ file'[i] \in Description
        /\ file'[i].port = file[i].port /\ file'[i].opener = file[i].opener
        /\ file'[i].alien = file[i].alien /\ file'[i].reader = file[i].reader
        /\ file'[i].lost = file[i].lost
        /\ file[i].holders = {} => file'[i].holders = {}
        /\ file[i].holders # {} => file'[i].holders = Procs /\ file[i].opener = "parent"
  <2>1. SUFFICES ASSUME NEW i \in Ids
                 PROVE /\ file'[i] \in Description
                       /\ file'[i].port = file[i].port /\ file'[i].opener = file[i].opener
                       /\ file'[i].alien = file[i].alien /\ file'[i].reader = file[i].reader
                       /\ file'[i].lost = file[i].lost
                       /\ file[i].holders = {} => file'[i].holders = {}
                       /\ file[i].holders # {} => /\ file'[i].holders = Procs
                                                  /\ file[i].opener = "parent"
    OBVIOUS
  <2>2. file[i] \in Description
    BY DEF Typed
  <2>3. CASE file[i].holders = {}
    BY <1>4, <2>2, <2>3
  <2>4. CASE file[i].holders # {}
    <3>1. file'[i] = [file[i] EXCEPT !.holders = Procs]
      BY <1>4, <2>4
    <3>2. file[i].opener = "parent"
      BY <1>4, <2>4 DEF ClaimsAreOpened
    <3>3. QED
      BY <2>2, <2>4, <3>1, <3>2 DEF Description
  <2>5. QED
    BY <2>3, <2>4
<1>6. Typed'
  <2>1. keeper' \in [Objects -> {"none", "running", "handle"}]
    BY DEF Fork, Typed
  <2>2. file' \in [Ids -> Description]
    BY <1>5 DEF Fork
  <2>3. registry' \in [Procs -> [Ports -> Ids \cup {None}]]
    BY <1>1 DEF Fork, Typed
  <2>4. /\ pc' \in [Objects -> Phases] /\ tr' \in [Objects -> Ids \cup {None}]
        /\ facts' \in [Objects -> Ids \cup {None}] /\ pid' \in [Objects -> Procs \cup {None}]
        /\ dfu' \in [Objects -> BOOLEAN]
    BY DEF Fork, Copied, Typed
  <2>5. QED
    BY <1>1, <2>1, <2>2, <2>3, <2>4 DEF Typed
<1>7. /\ \A o \in Objects : tr[o] # None => tr[o] \in Ids
      /\ \A p \in Ports : registry["parent"][p] # None => registry["parent"][p] \in Ids
  BY <1>1 DEF Typed
<1>8. SessionsAreHeld'
  <2>1. SUFFICES ASSUME NEW o \in Objects PROVE Held(o)'
    BY DEF SessionsAreHeld
  <2>2. Held(o) /\ Held(Origin(o))
    BY DEF SessionsAreHeld
  <2>3. pc'[o] \in {"idle", "up"}
    BY <1>1, <1>3
  <2>4. tr'[o] # None => /\ tr'[o] \in Ids /\ pid'[o] = file'[tr'[o]].opener
                         /\ pid'[o] = "parent" /\ Proc(o) \in file'[tr'[o]].holders
                         /\ facts'[o] \in {None, tr'[o]}
    BY <1>1, <1>5, <1>7, <2>2 DEF Held
  <2>5. tr'[o] = None => pid'[o] = None /\ facts'[o] = None
    BY <1>1, <2>2 DEF Held
  <2>6. keeper'[o] = "running" => tr'[o] # None /\ Own(o)'
    BY <1>1, <1>2, <2>2, <2>4 DEF Held, Own
  <2>7. QED
    BY <2>3, <2>4, <2>5, <2>6 DEF Held
<1>9. SessionsAreDistinct'
  <2>1. SUFFICES ASSUME NEW o \in Objects, NEW q \in Objects, Proc(o) = Proc(q),
                        tr'[o] # None, tr'[o] = tr'[q]
                 PROVE o = q
    BY <1>1, <1>3 DEF SessionsAreDistinct
  <2>2. Origin(o) = Origin(q)
    BY <1>1, <2>1 DEF SessionsAreDistinct
  <2>3. QED
    BY <2>1, <2>2
<1>10. OpensAreClaimed'
  BY <1>1, <1>3 DEF OpensAreClaimed
<1>11. ClaimsAreOpened'
  <2>1. ASSUME NEW y \in Procs, NEW r \in Ports, registry'[y][r] # None
        PROVE file'[registry'[y][r]].port = r
    BY <1>1, <1>5, <1>7, <2>1 DEF ClaimsAreOpened
  <2>2. ASSUME NEW j \in Ids
        PROVE /\ file'[j].port \in Ports <=> file'[j].opener \in Procs
              /\ file'[j].holders # {} => file'[j].opener \in Procs
    BY <1>1, <1>5 DEF ClaimsAreOpened
  <2>3. QED
    BY <2>1, <2>2 DEF ClaimsAreOpened
<1>12. ChildIsUnborn'
  BY <1>1 DEF ChildIsUnborn, Unforked, Procs
<1>13. ReadersAreOwned'
  <2>1. SUFFICES ASSUME NEW j \in Ids, file[j].reader = "live"
                 PROVE /\ file'[j].opener \in file'[j].holders
                       /\ \E q \in Objects : /\ tr'[q] = j /\ Proc(q) = file'[j].opener
                                             /\ pid'[q] = Proc(q)
    BY <1>5 DEF ReadersAreOwned
  <2>2. file[j].opener \in file[j].holders
    BY <2>1 DEF ReadersAreOwned
  <2>3. PICK q \in Objects : tr[q] = j /\ Proc(q) = file[j].opener /\ pid[q] = Proc(q)
    BY <2>1 DEF ReadersAreOwned
  <2>4. file'[j].opener = "parent" /\ file'[j].holders = Procs /\ Proc(q) = "parent"
    BY <1>5, <2>2, <2>3
  <2>5. tr'[q] = j /\ pid'[q] = Proc(q)
    BY <1>1, <2>3, <2>4
  <2>6. QED
    BY <1>1, <2>4, <2>5
<1>14. OneReader' /\ ChildIsSilent'
  BY <1>5 DEF OneReader, ChildIsSilent
<1>15. NothingLeaks'
  <2>1. ASSUME NEW y \in Procs, NEW r \in Ports, registry'[y][r] # None
        PROVE \/ y \in file'[registry'[y][r]].holders /\ file'[registry'[y][r]].opener # y
              \/ \E q \in Objects : /\ Proc(q) = y
                                    /\ \/ tr'[q] = registry'[y][r]
                                       \/ pc'[q] = "open" /\ then'[q] = r
    <3> DEFINE i == registry["parent"][r]
    <3>1. registry'[y][r] = i /\ i \in Ids /\ i # None
      BY <1>1, <1>7, <2>1
    <3>2. file[i].opener = "parent"
      BY <1>1, <1>4, <3>1 DEF ClaimsAreOpened, Procs
    <3>3. PICK q \in Objects : Proc(q) = "parent" /\ tr[q] = i
      BY <1>1, <1>3, <3>1, <3>2 DEF NothingLeaks
    <3>4. file'[i].holders = Procs /\ file'[i].opener = "parent"
      BY <1>5, <3>1, <3>2, <3>3 DEF SessionsAreHeld, Held
    <3>5. tr'[q] = i
      BY <1>1, <3>3
    <3>6. CASE y = "parent"
      BY <3>1, <3>3, <3>5, <3>6
    <3>7. CASE y # "parent"
      BY <3>1, <3>4, <3>7
    <3>8. QED
      BY <3>6, <3>7
  <2>2. ASSUME NEW j \in Ids, file'[j].opener \in file'[j].holders
        PROVE  registry'[file'[j].opener][file'[j].port] = j
    <3>1. "parent" \in file[j].holders /\ file[j].opener = "parent"
      <4>1. file[j].holders # {}
        BY <1>5, <2>2
      <4>2. PICK e \in file[j].holders : e \in {"parent"}
        BY <1>4, <4>1
      <4>3. QED
        BY <1>5, <4>1, <4>2
    <3>2. registry["parent"][file[j].port] = j
      BY <3>1 DEF NothingLeaks
    <3>3. QED
      BY <1>1, <1>5, <3>1, <3>2
  <2>3. QED
    BY <2>1, <2>2 DEF NothingLeaks
<1>16. QED
  BY <1>6, <1>8, <1>9, <1>10, <1>11, <1>12, <1>13, <1>14, <1>15

----------------------------------------------------------------------------
(* All steps together. *)

\* Results and a device that comes back touch neither sessions nor descriptions.
LEMMA NothingOfASession ==
  ASSUME SessionInv, UNCHANGED <<callVars, armVars, osVars, alive>> PROVE SessionInv'
<1> USE DEF SessionInv, callVars, armVars, osVars
<1>1. Typed' /\ SessionsAreHeld' /\ SessionsAreDistinct' /\ ClaimsAreOpened' /\ ChildIsUnborn'
  BY DEF Typed, SessionsAreHeld, Held, Own, SessionsAreDistinct, ClaimsAreOpened,
         ChildIsUnborn, Unforked
<1>2. OpensAreClaimed' /\ ReadersAreOwned' /\ OneReader' /\ NothingLeaks' /\ ChildIsSilent'
  BY DEF OpensAreClaimed, Claimed, ReadersAreOwned, OneReader, NothingLeaks, ChildIsSilent
<1>3. QED
  BY <1>1, <1>2

LEMMA CloseStep ==
  ASSUME SessionInv, NEW o \in Objects, Resting(o), NEW t \in Ports \cup {"end"}, Close(o, t)
  PROVE  SessionInv'
<1>1. CASE Foreign(o)
  BY <1>1, ChildLetsGo DEF Close, envVars
<1>2. CASE ~Foreign(o)
  <2>1. Proc(o) \in alive /\ pc[o] # "open"
    BY DEF Resting, AtRest
  <2>2. UNCHANGED <<tr, pid, facts, dfu, registry, envVars>>
    BY <1>2 DEF Close
  <2>3. \/ /\ keeper[o] # "handle" /\ CloseThen(o, t)
           /\ keeper' = [keeper EXCEPT ![o] = "none"]
           /\ (keeper[o] = "running" /\ Sent(o)) \/ UNCHANGED file
        \/ keeper[o] = "handle" /\ Goto(o, "hung") /\ UNCHANGED <<then, keeper, file>>
    BY <1>2 DEF Close
  <2>4. QED
    BY <1>2, <2>1, <2>2, <2>3, CloseIsQuiet
<1>3. QED
  BY <1>1, <1>2

LEMMA SessionInvStays == SessionInv /\ [Next]_vars => SessionInv'
<1> SUFFICES ASSUME SessionInv, [Next]_vars PROVE SessionInv'
  OBVIOUS
<1>1. ASSUME NEW o \in Objects, Step(o) PROVE SessionInv'
  <2>1. CASE Quietly(o)
    BY <2>1, QuietCalls
  <2>2. CASE Claim(o) \/ OpenFails(o) \/ Open(o) \/ Shut(o)
    BY <2>2, ClaimStep, OpenFailsStep, OpenStep, ShutStep
  <2>3. QED
    BY <1>1, <2>1, <2>2 DEF Step, Quietly
<1>2. ASSUME NEW o \in Objects, Call(o) PROVE SessionInv'
  <2>1. CASE Quietly(o)
    BY <2>1, QuietCalls
  <2>2. ASSUME NEW p \in Used(o[2]), Connect(o, p) PROVE SessionInv'
    <3>1. p \in Ports
      BY SessionAssumption DEF Objects
    <3>2. Resting(o) /\ ~Foreign(o)
      BY <2>2 DEF Connect, Barred
    <3>3. CASE Close(o, p)
      BY <3>1, <3>2, <3>3, CloseStep
    <3>4. CASE ~Close(o, p)
      <4>1. /\ UNCHANGED <<osVars, envVars>> /\ UNCHANGED armVars
            /\ \/ pc' = [pc EXCEPT ![o] = "up"] /\ then' = then /\ tr[o] # None
               \/ /\ pc' = [pc EXCEPT ![o] = "claim"] /\ then' = [then EXCEPT ![o] = p]
                  /\ tr[o] = None
        BY <2>2, <3>4 DEF Connect, Goto, Then
      <4>2. QED
        BY <3>1, <3>2, <4>1, ConnectIsQuiet
    <3>5. QED
      BY <3>3, <3>4
  <2>3. ASSUME NEW p \in Used(o[2]), Reconnect(o, p) PROVE SessionInv'
    <3>1. p \in Ports
      BY SessionAssumption DEF Objects
    <3>2. Resting(o) /\ (Close(o, p) \/ Close(o, "end"))
      BY <2>3 DEF Reconnect
    <3>3. QED
      BY <3>1, <3>2, CloseStep
  <2>4. CASE UserClose(o)
    BY <2>4, CloseStep DEF UserClose
  <2>5. QED
    BY <1>2, <2>1, <2>2, <2>3, <2>4 DEF Call, Quietly
<1>3. ASSUME NEW i \in Ids, Reader(i) PROVE SessionInv'
  BY <1>3, LeaveStep DEF Reader, ReaderDies, ReaderStops
<1>4. ASSUME NEW p \in Ports, Unplug(p) \/ Plug(p) PROVE SessionInv'
  BY <1>4, UnplugStep, NothingOfASession DEF Plug
<1>5. ASSUME NEW o \in Objects, Result(o) PROVE SessionInv'
  BY <1>5, NothingOfASession DEF Result
<1>6. CASE UNCHANGED vars
  BY <1>6, NothingOfASession DEF vars, envVars
<1>7. QED
  BY <1>1, <1>2, <1>3, <1>4, <1>5, <1>6, ForkStep DEF Next, Environment

LEMMA SessionInvStarts == Init => SessionInv
<1> SUFFICES ASSUME Init PROVE SessionInv
  OBVIOUS
<1> USE NoneIsNothing DEF Init
<1>1. Typed
  BY DEF Typed, Phases, Unopened, Opened, Description
<1>2. SessionsAreHeld /\ SessionsAreDistinct /\ OpensAreClaimed /\ ChildIsUnborn
  BY DEF SessionsAreHeld, Held, SessionsAreDistinct, OpensAreClaimed, ChildIsUnborn,
         Unopened, Opened
<1>3. ClaimsAreOpened /\ ReadersAreOwned /\ OneReader /\ NothingLeaks /\ ChildIsSilent
  BY DEF ClaimsAreOpened, ReadersAreOwned, OneReader, NothingLeaks, ChildIsSilent, Unopened,
         Opened
<1>4. QED
  BY <1>1, <1>2, <1>3 DEF SessionInv

\* Claims, descriptions, sessions and the steps of connect_impl and close agree with each
\* other in every state, in the parent and in a forked child (claim_port, SerialTransport,
\* Arm::connect_impl, Arm::close).
THEOREM SessionsKeepTheirInvariant == Spec => []SessionInv
  BY SessionInvStarts, SessionInvStays, PTL DEF Spec

\* One reader for each device, whatever Arms and processes do (claim_port within the process,
\* flock across processes, join before close).
THEOREM OneReaderToADevice == Spec => []OneReader
<1>1. SessionInv => OneReader
  BY DEF SessionInv
<1>2. QED
  BY <1>1, SessionsKeepTheirInvariant, PTL

\* A reader reads a descriptor that its process holds, for an Arm that knows it (stop_reader,
\* SerialTransport::close).
THEOREM NoOrphanReader == Spec => []ReadersAreOwned
<1>1. SessionInv => ReadersAreOwned
  BY DEF SessionInv
<1>2. QED
  BY <1>1, SessionsKeepTheirInvariant, PTL

\* A connect that fails at any step, a close on any path and a device that leaves give the
\* port back (the registry of ports).
THEOREM NoPortLeaks == Spec => []NothingLeaks
<1>1. SessionInv => NothingLeaks
  BY DEF SessionInv
<1>2. QED
  BY <1>1, SessionsKeepTheirInvariant, PTL

\* A forked child sends nothing into a session of its parent (the guards of require and
\* raw_write, and close in a child).
THEOREM ForkIsSilent == Spec => []ChildIsSilent
<1>1. SessionInv => ChildIsSilent
  BY DEF SessionInv
<1>2. QED
  BY <1>1, SessionsKeepTheirInvariant, PTL

\* The version and the joints an Arm knows are those of the session that is open
\* (clear_session_state).
THEOREM NoStaleFacts == Spec => []FactsAreCurrent
<1>1. SessionInv => FactsAreCurrent
  BY DEF SessionInv, SessionsAreHeld, Held, FactsAreCurrent
<1>2. QED
  BY <1>1, SessionsKeepTheirInvariant, PTL

----------------------------------------------------------------------------
(* The terminal state. *)

Terminal(o) == /\ tr[o] = None /\ keeper[o] # "running"
               /\ pc[o] \in {"idle", "join", "hung"} /\ then[o] \notin Ports
DfuInv == \A o \in Objects : dfu[o] => Terminal(o)

\* A port to connect to is kept only by a call that is on its way there.
NoPortKept ==
  \A o \in Objects : pc[o] \notin {"claim", "open", "join"} => then[o] \notin Ports

LEMMA NoPortKeptStays == SessionInv /\ NoPortKept /\ [Next]_vars => NoPortKept'
<1> SUFFICES ASSUME SessionInv, NoPortKept, [Next]_vars, NEW o \in Objects,
                    pc'[o] \notin {"claim", "open", "join"}
             PROVE then'[o] \notin Ports
  BY DEF NoPortKept
<1> USE DEF NoPortKept, callVars, armVars, cartVars, osVars, envVars, Goto, Then, CloseThen,
            Resting, AtRest
<1>1. /\ pc \in [Objects -> Phases] /\ then \in [Objects -> Ports \cup {"end", "dfu"}]
      /\ "end" \notin Ports /\ "dfu" \notin Ports
  BY SessionAssumption DEF SessionInv, Typed
<1>2. ASSUME NEW q \in Objects, Step(q) PROVE then'[o] \notin Ports
  BY <1>1, <1>2
     DEF Step, Claim, OpenFails, Open, Rebuild, Hello, Status, Probe, Shut, DfuWait
<1>3. ASSUME NEW q \in Objects, Call(q) PROVE then'[o] \notin Ports
  BY <1>1, <1>3
     DEF Call, Connect, Reconnect, UserClose, EnterDfu, Command, ZeroG, Request, Abandon, Close
<1>4. CASE Fork
  <2>1. pc'[o] = pc[Origin(o)] /\ then' = then
    BY <1>4 DEF Fork, Copied
  <2>2. CASE Proc(o) = "parent"
    BY <2>1, <2>2, OriginOfObject
  <2>3. CASE Proc(o) = "child"
    BY <1>4, <2>1, <2>3 DEF Fork, SessionInv, ChildIsUnborn
  <2>4. QED
    BY <2>2, <2>3, ProcOfObject DEF Procs
<1>5. CASE \/ \E i \in Ids : Reader(i)
           \/ \E p \in Ports : Unplug(p) \/ Plug(p)
           \/ \E q \in Objects : Result(q)
           \/ UNCHANGED vars
  BY <1>5 DEF Reader, ReaderDies, ReaderStops, Leave, Unplug, Plug, Result, vars
<1>6. QED
  BY <1>2, <1>3, <1>4, <1>5 DEF Next, Environment

\* Of the calls on an Arm in the terminal state only close and reconnect go beyond the guards,
\* and reconnect does not connect.
LEMMA DfuInvStays == SessionInv /\ NoPortKept /\ DfuInv /\ [Next]_vars => DfuInv'
<1> SUFFICES ASSUME SessionInv, NoPortKept, DfuInv, [Next]_vars, NEW o \in Objects, dfu'[o]
             PROVE Terminal(o)'
  BY DEF DfuInv
<1> USE DEF DfuInv, Terminal, callVars, armVars, cartVars, osVars, envVars, Goto, Then, CloseThen,
            Resting, AtRest
<1>1. /\ pc \in [Objects -> Phases] /\ then \in [Objects -> Ports \cup {"end", "dfu"}]
      /\ tr \in [Objects -> Ids \cup {None}] /\ dfu \in [Objects -> BOOLEAN]
      /\ keeper \in [Objects -> {"none", "running", "handle"}]
      /\ "end" \notin Ports /\ "dfu" \notin Ports
      /\ keeper[o] = "running" => tr[o] # None
      /\ pc[o] \notin {"idle", "up"} => keeper[o] # "running"
  BY SessionAssumption DEF SessionInv, Typed, SessionsAreHeld, Held
<1>2. ASSUME NEW q \in Objects, Step(q) PROVE Terminal(o)'
  <2>1. CASE q # o
    <3>1. /\ pc'[o] = pc[o] /\ then'[o] = then[o] /\ tr'[o] = tr[o] /\ keeper'[o] = keeper[o]
          /\ dfu'[o] = dfu[o]
      BY <1>1, <1>2, <2>1
         DEF Step, Claim, OpenFails, Open, Rebuild, Hello, Status, Probe, Shut, DfuWait
    <3>2. QED
      BY <3>1
  <2>2. CASE q = o /\ ~Shut(o)
    <3>1. dfu' = dfu /\ pc[o] \notin {"idle", "join", "hung"}
      BY <1>2, <2>2
         DEF Step, Claim, OpenFails, Open, Rebuild, Hello, Status, Probe, DfuWait
    <3>2. QED
      BY <3>1
  <2>3. CASE q = o /\ Shut(o)
    <3>1. tr'[o] = None /\ keeper' = keeper /\ keeper[o] # "running"
      BY <1>1, <2>3 DEF Shut
    <3>2. then[o] \notin Ports
      <4>1. CASE dfu[o]
        BY <4>1
      <4>2. CASE then[o] = "dfu"
        BY <1>1, <4>2
      <4>3. dfu[o] \/ then[o] = "dfu"
        BY <1>1, <2>3 DEF Shut
      <4>4. QED
        BY <4>1, <4>2, <4>3
    <3>3. pc'[o] = "idle" /\ then'[o] = "end"
      BY <1>1, <2>3, <3>2 DEF Shut
    <3>4. QED
      BY <1>1, <3>1, <3>3
  <2>4. QED
    BY <2>1, <2>2, <2>3
<1>3. ASSUME NEW q \in Objects, Call(q) PROVE Terminal(o)'
  <2>1. dfu' = dfu
    BY <1>3 DEF Call, Connect, Reconnect, UserClose, EnterDfu, Command, ZeroG, Request, Abandon,
                Close
  <2>2. CASE q # o
    <3>1. /\ pc'[o] = pc[o] /\ then'[o] = then[o] /\ tr'[o] = tr[o] /\ keeper'[o] = keeper[o]
      BY <1>1, <1>3, <2>2
         DEF Call, Connect, Reconnect, UserClose, EnterDfu, Command, ZeroG, Request, Abandon,
             Close
    <3>2. QED
      BY <2>1, <3>1
  <2>3. CASE q = o
    <3>1. Close(o, "end")
      BY <1>3, <2>1, <2>3
         DEF Call, Connect, Reconnect, UserClose, EnterDfu, Command, ZeroG, Request, Abandon,
             Barred
    <3>2. QED
      BY <1>1, <2>1, <3>1 DEF Close
  <2>4. QED
    BY <2>2, <2>3
<1>4. CASE Fork
  <2>1. /\ Origin(o) \in Objects /\ dfu'[o] = dfu[Origin(o)] /\ pc'[o] = pc[Origin(o)]
        /\ tr'[o] = tr[Origin(o)] /\ then' = then
        /\ keeper'[o] = "running" => keeper[Origin(o)] = "running"
        /\ Proc(o) = "parent" => Origin(o) = o
    BY <1>4, OriginOfObject DEF Fork, Copied
  <2>2. pc[Origin(o)] = "idle"
    BY <1>4, <2>1 DEF Fork, Objects, Origin
  <2>3. then[o] \notin Ports
    <3>1. CASE Proc(o) = "parent"
      BY <2>1, <2>2, <3>1 DEF NoPortKept
    <3>2. CASE Proc(o) = "child"
      BY <1>4, <3>2 DEF Fork, SessionInv, ChildIsUnborn, NoPortKept
    <3>3. QED
      BY <3>1, <3>2, ProcOfObject DEF Procs
  <2>4. QED
    BY <2>1, <2>2, <2>3
<1>5. CASE \/ \E i \in Ids : Reader(i)
           \/ \E p \in Ports : Unplug(p) \/ Plug(p)
           \/ \E q \in Objects : Result(q)
           \/ UNCHANGED vars
  BY <1>5 DEF Reader, ReaderDies, ReaderStops, Leave, Unplug, Plug, Result, vars
<1>6. QED
  BY <1>2, <1>3, <1>4, <1>5 DEF Next, Environment

\* Nothing is done with an Arm that went into DFU: no session, no thread, not by reconnect
\* (dfu_entered_).
THEOREM DfuIsForGood == Spec => []DfuIsFinal
<1>1. Init => DfuInv /\ NoPortKept
  BY SessionAssumption DEF Init, DfuInv, NoPortKept
<1>2. DfuInv => DfuIsFinal
  BY DEF DfuInv, Terminal, DfuIsFinal
<1>3. QED
  BY <1>1, <1>2, DfuInvStays, NoPortKeptStays, SessionsKeepTheirInvariant, PTL DEF Spec
=============================================================================
