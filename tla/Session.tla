------------------------------ MODULE Session ------------------------------
(***************************************************************************)
(* The life of a session: Arm::connect, reconnect, close, enter_dfu and    *)
(* the guards (arm.cpp), the transport they open, with the registry of     *)
(* ports in the process and the kernel's flock across processes            *)
(* (transport.cpp), the reader thread of each session (ack.cpp), and a     *)
(* fork of the process while sessions are up.                              *)
(*                                                                         *)
(* An object is an Arm in one of the two processes: fork copies the Arms,  *)
(* and one thread drives each of them.  A session is numbered by the open  *)
(* file description of its transport, which fork shares between the two    *)
(* processes.  Time is not modelled: every wait may end either way.        *)
(***************************************************************************)
EXTENDS Naturals

CONSTANTS
  Arms,        \* Arm objects of the program
  Ports,       \* serial ports
  Used(_),     \* the ports the program connects an Arm to
  MaxOpens,    \* bound: descriptions open at one time, leaked ones included
  MaxOwed,     \* bound: plan results a device owes
  MaxPlugs,    \* bound: times a device is taken off the bus
  MayFork,     \* whether the program forks
  None

ASSUME SessionAssumption ==
  /\ MaxOpens \in Nat /\ MaxOwed \in Nat /\ MaxPlugs \in Nat /\ MayFork \in BOOLEAN
  /\ \A a \in Arms : Used(a) \subseteq Ports
  /\ None \notin Ports \cup {"parent", "child"} \cup Nat
  /\ {"end", "dfu"} \cap Ports = {}

Procs == {"parent", "child"}
Objects == Procs \X Arms
Ids == 1..MaxOpens

VARIABLES
  pc,         \* where the thread that drives an Arm is
  then,       \* what follows: the port to open, the end of the call, the terminal state
  tr,         \* tr_ and a_: the session, or None
  pid,        \* pid_: the process that stamped the session, or None
  facts,      \* firmware_, fw_version_, n_: the session they were learned in, or None
  dfu,        \* dfu_entered_
  keeper,     \* zg_thread_: none, running, or a handle inherited without its thread
  pending,    \* cart_: length of the queue of tokens
  absorb,     \* cart_: the absorption budget
  registry,   \* the owners map of each process
  file,       \* per session: port, the process that opened it, processes that hold the
              \* descriptor, whether another process wrote into it, reader thread, link gone
  device,     \* per port: on the bus, of a version connect accepts, results it owes
  alive,      \* the processes that run
  plugs       \* times a device was taken off the bus

callVars == <<pc, then>>
armVars  == <<tr, pid, facts, dfu, keeper>>
cartVars == <<pending, absorb>>
osVars   == <<registry, file>>
envVars  == <<device, alive, plugs>>
vars     == <<callVars, armVars, cartVars, osVars, envVars>>

Opened(p, x, by, thread) ==
  [port |-> p, opener |-> x, holders |-> by, alien |-> FALSE, reader |-> thread, lost |-> FALSE]
Unopened == Opened(None, None, {}, "none")

Phases == {"idle", "up", "claim", "open", "rebuild", "hello", "status",
           "probe", "join", "dfu", "hung"}

Init ==
  /\ pc = [o \in Objects |-> "idle"]
  /\ then = [o \in Objects |-> "end"]
  /\ tr = [o \in Objects |-> None]
  /\ pid = [o \in Objects |-> None]
  /\ facts = [o \in Objects |-> None]
  /\ dfu = [o \in Objects |-> FALSE]
  /\ keeper = [o \in Objects |-> "none"]
  /\ pending = [o \in Objects |-> 0]
  /\ absorb = [o \in Objects |-> 0]
  /\ registry = [x \in Procs |-> [p \in Ports |-> None]]
  /\ file = [i \in Ids |-> Unopened]
  /\ device \in [Ports -> [here : {TRUE}, fits : BOOLEAN, owes : {0}]]
  /\ alive = {"parent"}
  /\ plugs = 0

----------------------------------------------------------------------------
(* What the guards and the operating system look at. *)

Proc(o) == o[1]
Foreign(o) == pid[o] # None /\ pid[o] # Proc(o)          \* reject_if_wrong_process

\* Mutant: no fork guard.
Barred_NoFork(o) == dfu[o]

\* require and raw_write let nothing through in these two cases.
Barred(o) == dfu[o] \/ Foreign(o)
Port(o) == file[tr[o]].port

\* Each Arm is driven by one thread; a forked child has a single thread.
AtRest(o) == pc[o] \in {"idle", "up"}
Resting(o) == /\ Proc(o) \in alive /\ AtRest(o)
              /\ Proc(o) = "child" => \A a \in Arms : AtRest(<<"child", a>>)

\* The flock of a description stays until every process has closed it.
Locked(p) == \E i \in Ids : file[i].port = p /\ file[i].holders # {} /\ ~file[i].lost
Fresh == {i \in Ids : file[i] = Unopened}
Unused == CHOOSE i \in Fresh : TRUE
Works(o) == ~file[tr[o]].lost

\* Bound: Cartesian requests are followed in a program that has not forked.
Unforked == alive = {"parent"}

Goto(o, l) == pc' = [pc EXCEPT ![o] = l]
Then(o, t) == then' = [then EXCEPT ![o] = t]
CloseThen(o, t) == Goto(o, "join") /\ Then(o, t)

\* A write into the session: it fails when the device is gone, and may fail (0.5 s) otherwise.
Written(d, x) == [d EXCEPT !.alien = @ \/ d.opener # x]
Sent(o) == Works(o) /\ file' = [file EXCEPT ![tr[o]] = Written(@, Proc(o))]

\* In a forked child close lets go of its handles without destroying what they point to:
\* descriptor and claim stay.  In the session's process it stops the keepalive first;
\* the join of a thread that fork did not copy never returns.
Close(o, t) ==
  /\ \/ /\ Foreign(o)
        /\ tr' = [tr EXCEPT ![o] = None]
        /\ pid' = [pid EXCEPT ![o] = None]
        /\ facts' = [facts EXCEPT ![o] = None]
        /\ Goto(o, IF t \in Ports THEN "claim" ELSE "idle") /\ Then(o, t)
        /\ UNCHANGED <<keeper, file>>
     \/ /\ ~Foreign(o) /\ keeper[o] # "handle"
        /\ CloseThen(o, t)
        /\ keeper' = [keeper EXCEPT ![o] = "none"]
        /\ (keeper[o] = "running" /\ Sent(o)) \/ UNCHANGED file
        /\ UNCHANGED <<tr, pid, facts>>
     \/ /\ ~Foreign(o) /\ keeper[o] = "handle"
        /\ Goto(o, "hung")
        /\ UNCHANGED <<then, keeper, tr, pid, facts, file>>
  /\ UNCHANGED <<dfu, cartVars, registry, envVars>>

----------------------------------------------------------------------------
(* connect *)

\* The terminal state and the fork guard come first; then the early return on an open session.
Connect(o, p) ==
  /\ Resting(o) /\ ~Barred(o)
  /\ \/ /\ tr[o] # None /\ Port(o) = p
        /\ Goto(o, "up")
        /\ UNCHANGED <<then, armVars, cartVars, osVars, envVars>>
     \/ /\ tr[o] # None /\ Port(o) # p
        /\ Close(o, p)
     \/ /\ tr[o] = None
        /\ Goto(o, "claim") /\ Then(o, p)
        /\ UNCHANGED <<armVars, cartVars, osVars, envVars>>

\* claim_port: the gate within the process, before anything is opened.
Claim(o) ==
  /\ pc[o] = "claim"
  /\ \/ /\ registry[Proc(o)][then[o]] # None
        /\ Goto(o, "idle") /\ Then(o, "end")
        /\ UNCHANGED osVars
     \/ /\ registry[Proc(o)][then[o]] = None /\ Fresh # {}
        /\ registry' = [registry EXCEPT ![Proc(o)][then[o]] = Unused]
        /\ file' = [file EXCEPT ![Unused] = Opened(then[o], Proc(o), {}, "none")]
        /\ Goto(o, "open") /\ UNCHANGED then
  /\ UNCHANGED <<armVars, cartVars, envVars>>

Claimed(o) == registry[Proc(o)][then[o]]

\* Mutant: the constructor throws without taking its claim back.
OpenFails_KeepsClaim(o) ==
  /\ pc[o] = "open"
  /\ UNCHANGED registry
  /\ file' = [file EXCEPT ![Claimed(o)] = Unopened]
  /\ Goto(o, "idle") /\ Then(o, "end")
  /\ UNCHANGED <<armVars, cartVars, envVars>>

\* open, flock, termios: any of them may fail, and the claim is then taken back.
OpenFails(o) ==
  /\ pc[o] = "open"
  /\ registry' = [registry EXCEPT ![Proc(o)][then[o]] = None]
  /\ file' = [file EXCEPT ![Claimed(o)] = Unopened]
  /\ Goto(o, "idle") /\ Then(o, "end")
  /\ UNCHANGED <<armVars, cartVars, envVars>>

\* Mutant: no flock.
Open_NoFlock(o) ==
  /\ pc[o] = "open"
  /\ device[then[o]].here
  /\ tr' = [tr EXCEPT ![o] = Claimed(o)]
  /\ pid' = [pid EXCEPT ![o] = Proc(o)]
  /\ file' = [file EXCEPT ![Claimed(o)] = Opened(then[o], Proc(o), {Proc(o)}, "live")]
  /\ Goto(o, "rebuild") /\ Then(o, "end")
  /\ UNCHANGED <<facts, dfu, keeper, cartVars, registry, envVars>>

\* The transport is built, the session stamped with the process, and the reader started.
Open(o) ==
  /\ pc[o] = "open"
  /\ device[then[o]].here
  /\ ~Locked(then[o])
  /\ tr' = [tr EXCEPT ![o] = Claimed(o)]
  /\ pid' = [pid EXCEPT ![o] = Proc(o)]
  /\ file' = [file EXCEPT ![Claimed(o)] = Opened(then[o], Proc(o), {Proc(o)}, "live")]
  /\ Goto(o, "rebuild") /\ Then(o, "end")
  /\ UNCHANGED <<facts, dfu, keeper, cartVars, registry, envVars>>

\* The new CartPending inherits the length of the old queue as its budget, and no more.
Rebuild(o) ==
  /\ pc[o] = "rebuild"
  /\ absorb' = [absorb EXCEPT ![o] = pending[o]]
  /\ pending' = [pending EXCEPT ![o] = 0]
  /\ Goto(o, "hello")
  /\ UNCHANGED <<then, armVars, osVars, envVars>>

\* GET_FIRMWARE is written outside the try: a failure leaves connect with the session open.
\* No answer, a version that does not parse, is too old or not 7J: close and throw.
Hello(o) ==
  /\ pc[o] = "hello"
  /\ \/ Goto(o, "idle") /\ UNCHANGED <<then, file>>
     \/ Sent(o) /\ device[Port(o)].fits /\ Goto(o, "status") /\ UNCHANGED then
     \/ Sent(o) /\ CloseThen(o, "end")
  /\ UNCHANGED <<armVars, cartVars, registry, envVars>>

\* The first status frame gives the number of joints.  None in its window: close and throw.
\* A reader that is dead makes read_status throw past the close.
Status(o) ==
  /\ pc[o] = "status"
  /\ \/ /\ file[tr[o]].reader = "live" /\ Works(o)
        /\ facts' = [facts EXCEPT ![o] = tr[o]]
        /\ Goto(o, "probe")
        /\ UNCHANGED then
     \/ file[tr[o]].reader = "live" /\ CloseThen(o, "end") /\ UNCHANGED facts
     \/ file[tr[o]].reader = "dead" /\ Goto(o, "idle") /\ UNCHANGED <<then, facts>>
  /\ UNCHANGED <<tr, pid, dfu, keeper, cartVars, osVars, envVars>>

\* The capability probe: a failed write (or a dead reader) closes the session.  Then
\* refresh_limits, which swallows every failure.
Probe(o) ==
  /\ pc[o] = "probe"
  /\ \/ Sent(o) /\ Goto(o, "up") /\ UNCHANGED then
     \/ CloseThen(o, "end") /\ UNCHANGED file
  /\ UNCHANGED <<armVars, cartVars, registry, envVars>>

----------------------------------------------------------------------------
(* close, reconnect, enter_dfu *)

\* close() by the user or by the destructor.
UserClose(o) == Resting(o) /\ Close(o, "end")

\* reconnect: close, then connect, whose guards let a session without stamp pass.
Reconnect(o, p) == Resting(o) /\ Close(o, IF dfu[o] THEN "end" ELSE p)

\* A description is gone when the last process closes it.
LetGo(d, x) == IF d.holders = {x} THEN Unopened ELSE [d EXCEPT !.holders = @ \ {x}]

\* Mutant: the transport is closed without waiting for the reader.
Shut_NoJoin(o) ==
  /\ pc[o] = "join"
  /\ IF tr[o] = None
     THEN UNCHANGED <<file, registry>>
     ELSE /\ file' = [file EXCEPT ![tr[o]] = LetGo(@, Proc(o))]
          /\ registry' = IF registry[Proc(o)][Port(o)] = tr[o]
                         THEN [registry EXCEPT ![Proc(o)][Port(o)] = None] ELSE registry
  /\ tr' = [tr EXCEPT ![o] = None]
  /\ pid' = [pid EXCEPT ![o] = None]
  /\ facts' = [facts EXCEPT ![o] = None]
  /\ dfu' = [dfu EXCEPT ![o] = @ \/ then[o] = "dfu"]
  /\ IF then[o] \in Ports THEN Goto(o, "claim") /\ UNCHANGED then
                          ELSE Goto(o, "idle") /\ Then(o, "end")
  /\ UNCHANGED <<keeper, cartVars, envVars>>

\* Mutant: clear_session_state forgets the version and the joints.
Shut_KeepsFacts(o) ==
  /\ pc[o] = "join"
  /\ tr[o] # None => file[tr[o]].reader = "dead"
  /\ IF tr[o] = None
     THEN UNCHANGED <<file, registry>>
     ELSE /\ file' = [file EXCEPT ![tr[o]] = LetGo(@, Proc(o))]
          /\ registry' = IF registry[Proc(o)][Port(o)] = tr[o]
                         THEN [registry EXCEPT ![Proc(o)][Port(o)] = None] ELSE registry
  /\ tr' = [tr EXCEPT ![o] = None]
  /\ pid' = [pid EXCEPT ![o] = None]
  /\ UNCHANGED facts
  /\ dfu' = [dfu EXCEPT ![o] = @ \/ then[o] = "dfu"]
  /\ IF then[o] \in Ports THEN Goto(o, "claim") /\ UNCHANGED then
                          ELSE Goto(o, "idle") /\ Then(o, "end")
  /\ UNCHANGED <<keeper, cartVars, envVars>>

\* stop_reader joins: the reader has left its loop.  Then the transport is closed, the port
\* released and clear_session_state run.
Shut(o) ==
  /\ pc[o] = "join"
  /\ tr[o] # None => file[tr[o]].reader = "dead"
  /\ IF tr[o] = None
     THEN UNCHANGED <<file, registry>>
     ELSE /\ file' = [file EXCEPT ![tr[o]] = LetGo(@, Proc(o))]
          /\ registry' = IF registry[Proc(o)][Port(o)] = tr[o]
                         THEN [registry EXCEPT ![Proc(o)][Port(o)] = None] ELSE registry
  /\ tr' = [tr EXCEPT ![o] = None]
  /\ pid' = [pid EXCEPT ![o] = None]
  /\ facts' = [facts EXCEPT ![o] = None]
  /\ dfu' = [dfu EXCEPT ![o] = @ \/ then[o] = "dfu"]
  /\ IF then[o] \in Ports THEN Goto(o, "claim") /\ UNCHANGED then
                          ELSE Goto(o, "idle") /\ Then(o, "end")
  /\ UNCHANGED <<keeper, cartVars, envVars>>

\* enter_dfu: refused when the motors are on, by zero gravity, by an ERR or by silence.
EnterDfu(o) ==
  /\ Resting(o) /\ ~Barred(o) /\ tr[o] # None /\ keeper[o] = "none"
  /\ Sent(o)
  /\ Goto(o, "dfu")
  /\ UNCHANGED <<then, armVars, cartVars, registry, envVars>>

\* The device acknowledged: it leaves the bus, or it changes its mind and the wait runs out.
DfuWait(o) ==
  /\ pc[o] = "dfu"
  /\ \/ file[tr[o]].reader = "dead" /\ CloseThen(o, "dfu")
     \/ file[tr[o]].reader = "live" /\ Goto(o, "idle") /\ UNCHANGED then
  /\ UNCHANGED <<armVars, cartVars, osVars, envVars>>

----------------------------------------------------------------------------
(* Commands through raw_write, and the Cartesian requests a session may leave behind. *)

\* Any command: the guards of require and raw_write, then the write.
Command(o) ==
  /\ Resting(o) /\ ~Barred(o) /\ tr[o] # None
  /\ Sent(o)
  /\ UNCHANGED <<callVars, armVars, cartVars, registry, envVars>>

\* zero_g_start and zero_g_stop: a thread of the process writes on its own.
ZeroG(o) ==
  /\ Resting(o) /\ ~Barred(o) /\ tr[o] # None
  /\ \/ /\ keeper[o] = "none" /\ Sent(o)
        /\ keeper' = [keeper EXCEPT ![o] = "running"]
     \/ /\ keeper[o] = "running" /\ (Sent(o) \/ UNCHANGED file)
        /\ keeper' = [keeper EXCEPT ![o] = "none"]
  /\ UNCHANGED <<callVars, tr, pid, facts, dfu, cartVars, registry, envVars>>

\* A Cartesian request: the token is queued, and the device owes a result.
Request(o) ==
  /\ Resting(o) /\ ~Barred(o) /\ tr[o] # None /\ keeper[o] = "none"
  /\ device[Port(o)].owes < MaxOwed /\ pending[o] < MaxOwed /\ Unforked
  /\ Sent(o)
  /\ pending' = [pending EXCEPT ![o] = @ + 1]
  /\ device' = [device EXCEPT ![Port(o)].owes = @ + 1]
  /\ UNCHANGED <<callVars, armVars, absorb, registry, alive, plugs>>

\* A call that times out, or an opcode that cancels the plans: tokens become budget.
Abandon(o) ==
  /\ Resting(o) /\ ~Barred(o) /\ tr[o] # None /\ pending[o] > 0
  /\ \E n \in 1..pending[o] :
       /\ pending' = [pending EXCEPT ![o] = @ - n]
       /\ absorb' = [absorb EXCEPT ![o] = @ + n]
  /\ UNCHANGED <<callVars, armVars, osVars, envVars>>

\* The reader of the session delivers a result: the budget first, then the queue; with
\* neither, CartPending raises the error of an extra answer.
Result(o) ==
  /\ Proc(o) \in alive /\ ~Foreign(o) /\ tr[o] # None
  /\ file[tr[o]].reader = "live" /\ Works(o) /\ device[Port(o)].owes > 0
  /\ device' = [device EXCEPT ![Port(o)].owes = @ - 1]
  /\ IF absorb[o] > 0
     THEN absorb' = [absorb EXCEPT ![o] = @ - 1] /\ UNCHANGED pending
     ELSE pending' = [pending EXCEPT ![o] = IF @ > 0 THEN @ - 1 ELSE 0] /\ UNCHANGED absorb
  /\ UNCHANGED <<callVars, armVars, osVars, alive, plugs>>

----------------------------------------------------------------------------
(* The reader threads, the bus and the fork. *)

Leave(i) ==
  /\ file' = [file EXCEPT ![i] = [@ EXCEPT !.reader = "dead"]]
  /\ UNCHANGED <<callVars, armVars, cartVars, registry, envVars>>

\* read_frame throws once the device is gone.
ReaderDies(i) == file[i].reader = "live" /\ file[i].lost /\ Leave(i)

\* The loop sees stop_ and ends.
ReaderStops(i) ==
  /\ file[i].reader = "live"
  /\ \E o \in Objects : tr[o] = i /\ pc[o] = "join"
  /\ Leave(i)

Unplug(p) ==
  /\ device[p].here /\ plugs < MaxPlugs
  /\ plugs' = plugs + 1
  /\ device' = [device EXCEPT ![p].here = FALSE, ![p].owes = 0]
  /\ file' = [i \in Ids |-> IF file[i].port = p /\ file[i].holders # {}
                            THEN [file[i] EXCEPT !.lost = TRUE] ELSE file[i]]
  /\ UNCHANGED <<callVars, armVars, cartVars, registry, alive>>

\* It comes back with the same firmware or with another.
Plug(p) ==
  /\ ~device[p].here
  /\ \E f \in BOOLEAN : device' = [device EXCEPT ![p].here = TRUE, ![p].fits = f]
  /\ UNCHANGED <<callVars, armVars, cartVars, osVars, alive, plugs>>

\* The child gets every Arm, every descriptor and the registry, and none of the threads.
Origin(o) == <<"parent", o[2]>>
Copied(f) == [o \in Objects |-> f[Origin(o)]]
Fork ==
  /\ MayFork /\ Unforked
  /\ \A a \in Arms : /\ Resting(<<"parent", a>>)
                    /\ pending[<<"parent", a>>] + absorb[<<"parent", a>>] = 0
  /\ alive' = Procs
  /\ pc' = Copied(pc) /\ tr' = Copied(tr) /\ pid' = Copied(pid) /\ facts' = Copied(facts)
  /\ dfu' = Copied(dfu)
  /\ keeper' = [o \in Objects |->
       IF Proc(o) = "child" /\ keeper[Origin(o)] = "running" THEN "handle" ELSE keeper[Origin(o)]]
  /\ registry' = [x \in Procs |-> registry["parent"]]
  /\ file' = [i \in Ids |-> IF file[i].holders = {}
                            THEN file[i] ELSE [file[i] EXCEPT !.holders = Procs]]
  /\ UNCHANGED <<then, cartVars, device, plugs>>

----------------------------------------------------------------------------
Step(o) ==
  \/ Claim(o) \/ OpenFails(o) \/ Open(o) \/ Rebuild(o) \/ Hello(o)
  \/ Status(o) \/ Probe(o) \/ Shut(o) \/ DfuWait(o)

Call(o) ==
  \/ \E p \in Used(o[2]) : Connect(o, p) \/ Reconnect(o, p)
  \/ UserClose(o) \/ EnterDfu(o) \/ Command(o) \/ ZeroG(o) \/ Request(o) \/ Abandon(o)

Reader(i) == ReaderDies(i) \/ ReaderStops(i)

Environment == Fork \/ (\E p \in Ports : Unplug(p) \/ Plug(p)) \/ (\E o \in Objects : Result(o))

Next ==
  \/ \E o \in Objects : Step(o) \/ Call(o)
  \/ \E i \in Ids : Reader(i)
  \/ Environment

Spec == Init /\ [][Next]_vars

----------------------------------------------------------------------------
(* Properties *)

TypeOK ==
  /\ pc \in [Objects -> Phases]
  /\ then \in [Objects -> Ports \cup {"end", "dfu"}]
  /\ \A o \in Objects : /\ pc[o] \in {"claim", "open"} => then[o] \in Ports
                       /\ pc[o] \notin {"claim", "open", "join"} => then[o] = "end"
  /\ tr \in [Objects -> Ids \cup {None}] /\ facts \in [Objects -> Ids \cup {None}]
  /\ pid \in [Objects -> Procs \cup {None}]
  /\ dfu \in [Objects -> BOOLEAN]
  /\ keeper \in [Objects -> {"none", "running", "handle"}]
  /\ pending \in [Objects -> 0..MaxOwed] /\ absorb \in [Objects -> Nat]
  /\ registry \in [Procs -> [Ports -> Ids \cup {None}]]
  /\ file \in [Ids -> [port : Ports \cup {None}, opener : Procs \cup {None},
                      holders : SUBSET Procs, alien : BOOLEAN,
                      reader : {"none", "live", "dead"}, lost : BOOLEAN]]
  /\ device \in [Ports -> [here : BOOLEAN, fits : BOOLEAN, owes : 0..MaxOwed]]
  /\ alive \in {{"parent"}, Procs}
  /\ plugs \in 0..MaxPlugs

\* One reader for each device, whatever Arms and processes do: two of them would share out
\* its bytes (claim_port within the process, flock across processes, join before close).
OneReader ==
  \A i, j \in Ids :
    /\ file[i].reader = "live" /\ file[j].reader = "live"
    /\ file[i].port = file[j].port /\ ~file[i].lost /\ ~file[j].lost
    => i = j

\* A reader only ever reads a descriptor that its process holds, for an Arm that knows it:
\* no path closes a transport under its reader or loses the Arm's hold on one.
ReadersAreOwned ==
  \A i \in Ids : file[i].reader = "live" =>
    /\ file[i].opener \in file[i].holders
    /\ \E o \in Objects : tr[o] = i /\ Proc(o) = file[i].opener /\ pid[o] = Proc(o)

\* Every claim of a process is for a session of its own, for a connect under way, or for a
\* descriptor inherited from the parent; every descriptor is under a claim.  A connect that
\* fails at any step, a close on any path and a device that leaves give the port back.
NothingLeaks ==
  /\ \A x \in Procs, p \in Ports : registry[x][p] # None =>
       LET i == registry[x][p] IN
       \/ x \in file[i].holders /\ file[i].opener # x
       \/ \E o \in Objects : Proc(o) = x /\ (tr[o] = i \/ (pc[o] = "open" /\ then[o] = p))
  /\ \A i \in Ids : file[i].opener \in file[i].holders =>
       registry[file[i].opener][file[i].port] = i

\* A forked child sends nothing into a session of its parent.
ChildIsSilent == \A i \in Ids : ~file[i].alien

\* firmware_, fw_version_ and n_ are those of the session that is open, or empty.
FactsAreCurrent == \A o \in Objects : facts[o] \in {None, tr[o]}

\* Nothing is done with an Arm that went into DFU: no session, no thread, not by reconnect.
DfuIsFinal ==
  \A o \in Objects : dfu[o] => /\ tr[o] = None /\ keeper[o] # "running"
                              /\ pc[o] \in {"idle", "join", "hung"}

\* When connect has returned, the firmware behind the open session was asked for its version,
\* and it fits.
ConnectedMeansVetted ==
  \A o \in Objects : pc[o] = "up" => tr[o] # None /\ facts[o] = tr[o]

\* What the comment of connect_impl wants of the budget it hands over (arm.cpp:220): a rebuilt
\* session is prepared for every result that the device still owes.
DebtIsCovered ==
  \A o \in Objects : pc[o] = "up" => device[Port(o)].owes <= pending[o] + absorb[o]

\* close() comes back in a forked child.
ChildCloses == \A o \in Objects : pc[o] # "hung"
=============================================================================
